# ksefctl, verified

TLA+ models of ksefctl, the command-line tool and background service that
downloads invoices from KSeF (the Polish national e-invoicing system), keeps
them as files next to a SQLite database, and alerts its user about unpaid ones.
TLC checks the models on small instances; TLAPS proves the most important
results for every instance. Line numbers below are those of the repository,
whose root is `src/`; `core/window.ts` stands for `src/src/core/window.ts`.

Run a configuration with `tlc -config <Name>.cfg <Module>`, the proofs of a
module with `tlapm <Module>Proofs.tla`.

## 1. The system

### 1.1 Components

| component | code | state it keeps | operations |
|---|---|---|---|
| Incremental download of a (NIP, subject type) pair | `core/syncSubjectRunner.ts`, `core/window.ts` | the window of the run, its package, `failed`; the rows of `continuation_points` | `syncSubjectType`: choose the window, export, unpack, write, move the continuation point |
| Invoice writer | `core/invoiceWriter.ts`, `core/storage.ts` | XML, metadata, PDF and attachment files; rows of `invoices` | `resolveFlatFileBase`, `writeInvoice`, `maybeWritePdf` |
| `state.sqlite` | `db/sqlite.ts`, `db/repository.ts` | one file, replaced as a whole; a lock file | `withDb`, `readDb`, the queries of the repository |
| Sync cycle | `core/syncService.ts`, `utils/concurrency.ts` | tasks of the limiter; the `sync_state` row | `runOnce`, `syncSingleNip`, `pLimit` |
| Notifications | `notifications/notifier.ts`, `cli/commands/systemNotifications.ts` | `invoice_notifications` | `notifyUnpaidInvoices`, `notifications backfill` |
| Watch loop and adaptive polling | `cli/commands/sync.ts`, `cli/commands/daemon.ts`, `utils/rateLimit.ts` | interval, `Retry-After` deadline, `state/rateLimit.json` | cycle, settle, save, sleep, stop, restart |
| Shutdown | `utils/serviceLifecycle.ts` | `stopRequested`; the lifecycle row | signal, drain, finalize |
| HTTP client | `utils/http.ts`, `utils/backoff.ts`, `api/ksefClient.ts` | attempts and delay of each request; the 429 tracker | request, retry, classify, report |
| Authentication and keychain | `auth/*.ts`, `cli/keychain.ts`, `cli/bootstrap.ts` | keychain entries (KSeF token, access and refresh tokens); `organizations` of `config.yaml` | get an access token: migrate, refresh, log in; set, show, clear a secret; init, reset |
| Packages | `core/invoicePackageClient.ts`, `core/encryption.ts` | the export being polled, the parts downloaded; the cached certificate | export, poll, download, check, decrypt |
| PDF | `services/pdfService.ts`, `core/pdfRepairService.ts` | missing PDFs | render, repair |
| Payment analysis | `core/invoicePaymentAnalyzer.ts` | none | which invoices are unpaid |
| Logging | `utils/logger.ts` | log files | append, rotate |
| Status, configuration, setup, service installation | `cli/`, `config/`, `services/serviceInstaller.ts` | configuration and unit files | interactive commands |

### 1.2 How they interact

The watch loop calls `runOnce`; `runOnce` hands one task per organization (NIP)
to the limiter; a task calls `syncSubjectType` for each subject type and then,
in the service, the notifier for what it stored. All of them share
`state.sqlite`, also with one-shot commands that run in processes of their own
next to the service: every update is a `withDb` call, which holds a lock file
while it loads, changes and replaces the whole database. A notification is one
`withDb` call from its first query to its last marker, mail included. The HTTP
client reports each 429 to the tracker, from which the loop derives its interval
when a cycle has ended. The first task of a cycle that fails ends `runOnce`, but
not the tasks that are running: they go on while the loop starts its next cycle.

Every task asks `AuthService` for an access token, which reads the NIP's entry of
the system keychain and may write it. The keychain has no lock, and the commands
that set, clear and reset secrets work on it next to the service. All requests of
a process go through one `HttpClient`, which repeats them and shares one tracker of
429 answers. Runs, the repair of PDFs and the catch-up of the notifier meet in
the invoice files, which no lock protects either.

### 1.3 What is hard, and what makes each part correct

*Download.* The continuation point decides what is asked of KSeF again, so an
invoice it passes is lost without a trace. KSeF commits invoices late, announces
how far its dates are final, truncates packages, leaves dates out, and its dates
are finer than a JavaScript `Date`. Writes fail, runs die at any `await` and
overlap with one another. Correct means: the continuation point never passes an
invoice that is not stored; it stays where nothing can be committed any more; a
failed invoice stays ahead of it; only what is documented to move it does; and
with time everything arrives.

*Database.* Several processes read, change and replace one file. Correct means:
an atomic store, with exact answers to its callers, monotonic for readers that
take no lock, whose lock is always freed.

*Cycle and alerts.* Tasks run in parallel, fail and are left behind; alerts are
sent by whoever found the invoice, or by a catch-up. Correct means: the limit
holds; an organization is done only when its alerts are; nothing marked is sent
again; nothing is marked without anybody having been told; what was lost is
caught up with.

*Polling.* The interval grows, decays, is clamped, rounded, saved and restored,
and must cover a deadline that other requests keep moving. Correct means: no
cycle starts before the deadline; a crash in the sleep loses nothing; a stop
ends the service even if the cycle hangs; the interval comes down again.

*Credentials.* Entries are read, changed and written back by several processes;
tokens expire, are revoked, or stop working before they expire. Correct means:
no credential is lost by a crash or a race; a secret is replaced only by its user
or in a true overlap; an organization is listed only when it has had a secret; a
service left alone gets a session KSeF accepts.

*Requests.* KSeF limits, fails, hangs in the middle of an answer, or answers after
the client has given up. Correct means: a request waits as long as KSeF asked;
every 429 reaches the tracker; a package is whole and in order; a conversation
ends whatever KSeF does.

*Files.* In the flat layout invoices of a month share a directory and want the same
names; runs overlap, die between two files, and PDFs are added later. Correct
means: what is recorded is where its row says; the first owner of a name keeps
it; no invoice is there twice; a PDF shows the XML next to it; an alert is about
its invoice.

The hazards, each at its line, are listed in `PROJECT.json`.

## 2. The modules

    GaplessFeed      <- SubjectSync   <- SubjectSyncProofs <- SubjectSyncAloneProofs
                                         MCSubjectSync
    AtomicStore      <- StateStore    <- StateStoreProofs
                        WatchLoop     <- WatchLoopProofs,    MCWatchLoop
                        SyncCycle     <- SyncCycleProofs,    MCSyncCycle
                        Session       <- SessionProofs,      MCSession
                        KsefRequests  <- KsefRequestsProofs, MCKsefRequests
                        InvoiceFiles  <- InvoiceFilesProofs, MCInvoiceFiles

`GaplessFeed` and `AtomicStore` say what a component promises; `SubjectSync` and
`StateStore` are shown to implement them. The MC modules hold the values of
constants that a configuration cannot write down. Operators marked `Mutant` in a
comment are never used by a specification: each is a definition of the module
with a plausible bug, and for each property some mutant makes TLC report it.

The levels fit together as follows. `StateStore` shows that a `withDb` call is
atomic, so `SubjectSync` and `SyncCycle` take each call as one step. A call that
cannot release the lock throws although its update may be stored: to its caller
that is the step, and then the failure. `SubjectSync` has it as the step followed
by `Abort`, `SyncCycle` as the step followed by `TaskThrows`, or as
`NotifyNipThrows` when the step is a whole notification, `InvoiceFiles` as
`FailWrite` at the row, or as `upsertInvoice` followed by `Crash`. Where the failure is a `catch` block that
stores a `failed` row over the `downloaded` one, the models store the `failed` row at
once; only another run could see the moment in between, and what it would make
of it is 4.1. `SubjectSync`
shows what one `syncSubjectType` does to rows and files, so `SyncCycle` keeps of
a task only which invoices it takes, stores and fails. `SyncCycle` shows how a
cycle ends and what runs on after it, so `WatchLoop` keeps of a cycle only that
it takes any time, may never end, meets 429s and may leave tasks behind.
`KsefRequests` shows that every 429 reaches the tracker, which is the
`recordRateLimit` of `WatchLoop`; that a package is whole, so an
`Export` of `SubjectSync` is answered in full or not at all; and that
conversations end, on which the fairness of `SubjectSync` and `SyncCycle` rests.
`InvoiceFiles` refines what `SubjectSync` calls an invoice on disk: its file keeps
existing under the name its row leads to. `Session` shows that a task that finds
its secret comes to a token, whose login is a conversation of `KsefRequests`.

### 2.1 SubjectSync

`Proc` is a set of `syncSubjectType` calls over one store: the service, a manual
`sync`, a task left behind. Every step between two awaits is an action, and
`Abort` may end a run at each: an exception, a signal or a crash. The
configuration and the command line of a run are its `job`: `initialSyncFrom`
(`floor`), `--time-window`, `--redownload-all`, `--output-path` (`export`) and
`--redownload` (`forced`).

| action | code |
|---|---|
| `Begin`, `DirectDownload`, `DirectRecord` | `syncService.ts:214-279, 122-165`: the pair's turn; `--redownload` fetches its invoice first |
| `StartSubject`, `ReadCursor`, `FloorCursor`, `ResetCursor` | `syncSubjectRunner.ts:86-138`: `now`, the floor, the cursor, the reset of `--redownload-all` |
| `EndOfWindows`, `ExportYieldsNothing`, `Export` | `160-365`: the window loop, `isBelowMinExportWindow`, the answer and `resolveContinuation` |
| `SkipEntry`, `TakeEntry`, `WriteXml`, `RecordDownloaded`, `RecordFailed` | `367-476` and `invoiceWriter.ts:294-347`: the row is read, the file written, the row written; the `catch` block |
| `HoldCursor`, `AdvanceCursor` | `268-303, 478-500`: after a failure or without a date the cursor stays |

KSeF is external. It commits an invoice at any date after its high-water mark;
a complete package names that mark, a truncated one holds the oldest invoices of
the range (some of those of its last date may be missing) and names its last
date; either date may be missing. `Grain` ticks of its clock make one
millisecond, which is what `ParseDate` (`new Date(...)`) keeps.

`base` is a history variable: from where the runs that moved the cursor have
covered everything. Without it "everything before the cursor is stored" would be
false of an installation that starts today.

`RunsCover` says what each run knows about its window and its package. It is the
strengthening that makes `NothingSkipped`, `CursorIsFinal` and `RecordedIsOnDisk`
inductive.

### 2.2 StateStore

`Call` is a set of `withDb` calls, `Reader` of processes that use `readDb`. A call
touches the file, takes the lock or retries and gives up, loads, runs its
callback on the copy in memory, writes a temp file, syncs it, renames it, and
releases the lock; each of these can fail, and the process can die before each.
A failure up to the rename (`Fail`) is answered by releasing the lock and throwing
its error. A release that rejects (`ReleaseFails`, `sqlite.ts:227-229`) replaces
whatever the call was about to answer by its own error: the call throws whether
it has stored its update (`unlockOk`) or not (`unlockThrow`), and its lock file
stays. `AtomicStore` therefore knows three answers: `accepted` calls are stored,
`rejected` ones have changed nothing, and a `doubtful` one is stored or not but will
never be stored later.
The update of a call is named after the call, so the content of the file is the
set of calls it holds, and a lost update is a missing name. `proper-lockfile` is
external: a live holder keeps its lock; that of a holder that died or failed to
release it goes stale. A lock file that is already gone counts as released
there, so a rejection means that it is still in place.

### 2.3 WatchLoop

The loop of `sync --watch` and `daemon`: `EndCycle`, `Settle` (`completeCycle` and
`computeNextIntervalSeconds`), `writeRateLimitState`, `Report`, `Wake`; a stop with
`StartDrain`, `AbandonCycle` and `Finalize`; `Crash` and `Start`, which restores the
saved state. Time is kept as what is left of each deadline, so that no clock has
to be bounded; `Second` ticks make one second. The arithmetic is that of the
code: rounding of the scaled interval, rounding up of the deadline, the clamps
in their order, and `setTimeout`'s limit of 2^31-1 ms (`TimerLimit`), beyond
which a timer fires at once. `parallel` says whether organizations are
synchronized next to one another; the configuration fixes it when the service
starts. `stragglers` says that tasks of an earlier, failed
cycle are still running and may report 429s at any time.

### 2.4 SyncCycle

A `Slot` is a `runOnce` call in progress; it stays taken until the last of its
tasks has ended, also when the call has failed and the loop has gone on. `Launch`,
`Resolve` and `Reject` are `processNext`, `resolveIfComplete` and `rejectOnce` of the
limiter. `stage` follows `runOnce`: tasks, outcome, final notification. `mail` is the
notification that holds the database lock; while it does, every other write
waits (its guard says `mail = None`) or throws when its retries are exhausted.
`CloseMail` stores its markers and releases the lock; when the release fails the
markers are stored and the task fails (`NotifyNipThrows`).
`alerted`, `waived` and `refused` are history: who was told, what a backfill marked,
which alerts could not be sent. Which invoices are unpaid is not part of the
model: every `Invoice` is. A row grows too old for the catch-up's look-back at
any time (`Age`), since the code compares dates of which the model keeps only
the outcome.

### 2.5 Session

The keychain entry of one NIP under the accounts its environment may have
(`Aliases`, the older names of an environment), the `listed` flag of `config.yaml`,
and the commands of the service and of consoles next to it. Every call of the
keychain is one action, and nothing but luck keeps two commands apart; a command
whose entry somebody has written meanwhile is `stale`, a history flag.

| action | code |
|---|---|
| `ReadCanonical`, `ReadAlias`, `CopyAlias`, `DropAlias` | `keychainStore.ts:59-111`: `getEntry` and the migration of an older entry |
| `StartAccess`, `Refresh`, `authenticate`, `EndWork` | `authService.ts:75-212`: cached token, refresh, login |
| `Write` (`MergeTokens`, `MergeSecret`) | `setTokens`, `setKsefToken`: the entry is read again and written |
| `setSecret`, `addOrganization`, `clearSecret`, `StartShow` | `cli/keychain.ts`, `systemSecret.ts` |
| `StartInit`, `addNip`, `SaveOrganizations`, `StartReset`, `findCredentials`, `deletePassword`, `AllDeleted` | `cli/bootstrap.ts`, `systemInit.ts`: init, and reset one entry at a time |
| `KsefFails`, `Throw`, `Crash` | KSeF refuses; a keychain or file call throws; the process dies |

A token is `good`, `dead` (KSeF rejects it although it looks valid) or `expired`
(`isExpired`, which calls a token expired a minute before it is). KSeF and the
clock change every copy of a token, also those in flight.

### 2.6 KsefRequests

A task holds a conversation (a login, an export with its package, a direct
download), a conversation is a sequence of requests, and a request is repeated
until it is answered, refused or out of attempts. `Send`, `RateLimit`,
`ServerError`, `Refuse`, `Accept`, `NetworkFailure`, `Timeout` and `Retry` are
`HttpClient.request`; the others follow the callers (`authService.ts:125-212`,
`invoicePackageClient.ts`, `syncService.ts:100-165`). Delays are those of the code:
the doubling backoff with its cap and jitter, `Retry-After` in seconds, and timers
that fire at once when a delay does not fit them. Time is what is left
of each wait. Whether KSeF has done what was asked before an answer got lost makes
no difference to the program, which uses the last answer only.

### 2.7 InvoiceFiles

The files of one month of one organization in both layouts. A `Place` is a file
name without its suffix: an invoice's own directory, or the directory of the month
with the short or the long name. Writers follow `writeInvoice` step by step: the
row read at first, the check for files that are still there, the two checks of
`canUseFlatFileBase`, XML, metadata, PDF, row. `repairXml` to `WriteRepaired` are
`sync --repair-missing-pdfs`; `readCatchUpItem` is the notifier's way from a row to
an XML. `raced` and `broken` are history: names two runs resolved at the same
time, and invoices whose XML a failure left without metadata. Both name what
the code does not protect against (section 4), and the properties leave out just
those.

## 3. What is checked

| run | instance | shows |
|---|---|---|
| `SubjectSyncAlone` | one run at a time, 2 invoices, time 0..4, 2 ticks per millisecond, windows of 2, eight kinds of job; 1.53M states | `NothingSkipped`, `CursorIsFinal`, `FailedIsRetried`: the cursor passes no invoice, no unfinal date and no failure. `OneOffRunsAreIsolated`, `OnlyFloorDropsCoverage`, `OnlyResetMovesBack`: what may touch it |
| `SubjectSyncOverlap` | two runs, plain or `--redownload-all`, 1 invoice, time 0..3; 581k | `RecordedIsOnDisk`, `RunsCover`, and `ImplementsFeed`: overlapping runs are still a gapless feed |
| `SubjectSyncLive` | one run, 2 invoices, no request below 2 ticks, fairness; 77k | `EventuallyStored` |
| `SubjectSyncOverlapRetry` | two runs | violated: `FailedIsRetried` (4.1) |
| `StateStore` | 3 calls, 1 reader, 1 retry; 150k | `CopyIsCurrent`, `ReadsAreMonotonic`, `ImplementsAtomicStore`, `LockIsFreed` |
| `WatchLoop` | 2 ticks a second, 429s of 0, 5 and 11 ticks, timers up to 10 ticks, fairness; 145k | `SleepIsRestartable`, `NeverBeforeRetryAfter`, `StopEnds`, `BackToFloor` |
| `SyncCycle` | 3 organizations, 2 at a time, 2 calls of `runOnce` in progress, 1 invoice; 1.63M | `TasksAreLimited`, `DoneIsAlerted`, `OnlyUnmarkedAreSent` |
| `SyncCycleLive` | 1 call, 2 organizations with an account and an invoice each, fairness; 196k | `AlertedInTheEnd`, `SomebodyWasTold` |
| `Session` | the service and a console, 2 secrets, the environment `prod` with its older name, fairness; 308k | `CredentialIsKept`, `ListedHadSecret`, `OnlyOverlapsLoseSecrets`, `AccessInTheEnd` |
| `KsefRequests` | a task that logs in and exports next to one that downloads, 3 attempts, 2 polls, 2 parts, fairness; 242k | `RateLimitsAreReported`, `PackageIsWhole`, `RetryAfterIsKept`, `EveryConversationEnds` |
| `InvoiceFiles` | 2 runs and a repair, 2 invoices of one name, 3 writes; 709k | `NothingIsLost`, `NoDuplicates`, `PdfIsOfItsXml`, `FirstNameStays` |
| `InvoiceFilesCatchUp` | the same | violated: `AlertShowsItsInvoice` (4.2) |

The `TypeOK` of `SubjectSync`, `StateStore`, `WatchLoop`, `SyncCycle` and `KsefRequests`
(which bounds attempts and polls) is checked in the first run of its module;
those of `Session` and `InvoiceFiles` are proved (section 5).

### 3.1 Bounds, and why they are enough

*SubjectSync.* Two invoices tell "some" from "all": one in the package and one
missing, one written and one failed, one before and one at the cursor. Time 0..4
with a window of 2 gives three windows in a row; `Grain = 2` gives dates a `Date`
cannot hold. In `SubjectSyncAlone` and `SubjectSyncOverlap` no window is below their
`MinWindow`; in `SubjectSyncLive`, whose unit is one tick and whose `MinWindow` is 2,
a run at time 1 passes over its only window and one at time 3 over its second,
without asking KSeF, so `EventuallyStored` shows that their invoices are reached
later. Two runs give every way in
which a run can read before and write after another; the run with both bounds
raised is out of TLC's reach, and is what the proofs are for. `Job` lists the
command lines by name (`MCSubjectSync`).

*StateStore.* Three calls let one hold the lock, one wait and one have died with
it; one retry gives a call that waits and then gives up.

*WatchLoop.* Intervals of 2 to 4 seconds meet every branch of the computation:
below, within and above the bounds, beyond the timer's limit, a deadline that
rules and one that does not, and a fraction of a second to round.

*SyncCycle.* Three organizations are the least that a limit of two can keep waiting
while others run, fail and end; two calls in progress let one be left behind. The
invoice belongs to the second organization, so that the first can end the cycle
before it. `SyncCycleLive` has a limit of 1, and what one account cannot show: two
organizations with an account and an unpaid invoice each, whose mails fail one
by one, next to a notification center that may or may not be reached. There an
invoice is marked whose own mail has failed (section 4), which is why
`SomebodyWasTold` is checked in this run.

*Session.* One command next to the service meets every overlap of two; two secrets
tell a new one from an old one. Two accounts give each order of a migration. The
proofs cover any number of commands and accounts.

*KsefRequests.* Three attempts give a first, a middle and a last one; delays of 1
and 2 with 50% jitter reach the cap; a `Retry-After` of 0, of less than the timer's
limit, and of more. Two polls give one that is repeated and one that gives up;
two parts are the least that can be out of order. Two tasks share the tracker.

*InvoiceFiles.* Two invoices of the same name are the hard case; three writes let
each be written, and one of them again. Names that are too long are left to the
proofs, which assume nothing of `Overlong`.

Invoices and runs are symmetric where the configuration says so; the liveness
runs, `WatchLoop`, `Session` and `KsefRequests` use no symmetry.

### 3.2 Fairness

`SubjectSyncLive`: the clock and KSeF's high-water mark go on, the loop starts
runs again and again and a run goes on working (`Work`): Node's event loop does
not starve a continuation. From some time on no run is aborted, no write fails
and every export is answered in full. `EventuallyStored` needs that: a package
that is truncated for ever at a date that does not move holds the cursor for
ever.

`StateStore`: a live process goes on with its call, and a stale lock is found
stale (`proper-lockfile` compares modification times). Nothing is assumed of
failures and crashes.

`WatchLoop`: timers fire and the loop goes on. `StopEnds` assumes nothing of
the cycle, which may hang. `BackToFloor` is stated for behaviours that are `Calm`
from some time on: cycles and stragglers end, no more 429s, stops or crashes.

`SyncCycleLive`: the service manager restarts the service, the loop starts cycles,
tasks and deliveries go on; from some time on nothing fails, and nobody stops
the service or competes with it.

`Session`: the service goes on with its steps and access tokens expire.
`AccessInTheEnd` is stated for behaviours that are `Calm` from some time on:
nobody else works on the keychain, nothing fails, and a token outlives the login
it was obtained with. Before that tokens may be revoked at any time.

`KsefRequests`: timers fire and the process goes on. Nothing is assumed of KSeF: it
may never answer. That the timer of an attempt covers the reading of the body,
too (`http.ts:220-361`), is what `EveryConversationEnds` rests on.

## 4. Where the code and its documents disagree

1. **A failed row over a downloaded one** (`core/syncSubjectRunner.ts:461`). The
   `catch` block writes a `failed` row made from the row it read before the write.
   If another run has downloaded the invoice meanwhile and moved the continuation
   point past it, nothing ever fetches it again, against `CHANGELOG.md:44`. The
   file stays; status and catch-up take the invoice for failed.
2. **The catch-up looks into a shared directory** (`notifications/notifier.ts:88`).
   It takes the first XML, and the first PDF, of the directory a row names. In the
   flat layout that directory holds all invoices of the month, so an alert shows
   seller, amount and account of another invoice, or is left out because the
   other one is paid, against `README.md:611-626`. The invoice asked for is then
   marked as notified.

The models also show, or the reading of the code for them did:

- *A restart does not wait* (`cli/commands/sync.ts:253`). The saved deadline is
  restored, but the first cycle starts at once, against `CHANGELOG.md:60`.
  `NeverBeforeRetryAfter` is about the sleep between two cycles.
- *One organization starves the next ones* (`utils/concurrency.ts:13`). The first
  failure ends the cycle; with the default of one at a time a NIP with an
  expired token keeps those after it from being synchronized at all, against
  `README.md:410`.
- *One account answers for all* (`notifications/notifier.ts:284-290`). If any account
  could send, all pending invoices are marked, also those whose mail failed and
  those of an organization without an account. The
  catch-up "re-checks stored invoices that never got a notification"
  (`README.md:594-595`), but takes those for notified. `SomebodyWasTold` says what a
  marker is worth: its invoice was told about or waived, or another account's
  in the same batch was. The stronger `marked \subseteq alerted \cup waived` is
  violated in the instance of `SyncCycleLive`: the mail of the first account is
  sent, that of the second fails, and both invoices are marked.
- *A call that throws may be stored* (`db/sqlite.ts:227-229`). `release` is awaited in a
  `finally` block: when it rejects, its error takes the place of the result, or of
  the error that was the reason for the failure. The callers take the call for
  failed: the cycle ends, or the invoice gets a `failed` row, and is downloaded
  again. `ImplementsAtomicStore` allows just that (`doubtful`).
- *An environment that is its own alias* (`keychainStore.ts:53-57`). `test` lists
  itself among its older names, so a secret that is set while a query reads the
  aliases is taken for an old entry, copied and then deleted. The theorems about
  credentials assume `NoSelfAlias`; `Session` with `test` violates
  `CredentialIsKept`.
- *A cleared secret comes back* (`keychainStore.ts:147`, against `README.md:90`).
  Only the current account is deleted, so an entry under an older name is
  migrated by the next query; and a refresh in flight writes its entry back.
- *A secret set during a refresh is lost* (`keychainStore.ts:118`): the entry is
  read, changed and written without a lock. `OnlyOverlapsLoseSecrets` allows
  just that.
- *Names of 180 characters* (`invoiceWriter.ts:131`). The long name is cut, with
  the KSeF number at its end, and is the short name again: the second invoice
  replaces the first, against `README.md:569` (`Overlong`).
- *Two runs that resolve one flat name* (`invoiceWriter.ts:99`) both find it free;
  the second replaces the files of the first (`raced`). Parallel organizations
  have directories of their own; a service and a manual `sync` do not.
- *An XML without metadata* (`invoiceWriter.ts:296`) is left by a crash between the
  two files. It is not recognized as its invoice's: the invoice is stored again
  under its long name (`broken`), and the repair of PDFs skips it each time.
- *The PDF circuit breaker never opens* (`invoiceWriter.ts:316`): it is not passed
  on, against `README.md:475`.
- *A `Retry-After` that is a date* counts as none (`http.ts:245`); one of a 5xx
  above 24.8 days fires at once (`http.ts:288`).
- `--redownload-all --time-window` neither resets the continuation point
  (`syncSubjectRunner.ts:97-99, 133-137`; `README.md:471` says it does,
  `README.md:469` that it does not) nor protects downloaded rows behind it from
  becoming `failed` when a rewrite fails.
- With `maxConcurrentNips` above 1, tasks left behind meet 429s while the loop
  sleeps; the next cycle does not wait for those deadlines (`sync.ts:325-332`,
  against `README.md:511-512`). `NeverBeforeRetryAfter` excludes this case by
  name (`parallel`).
- An interval above 2^31-1 ms (24.8 days) makes `setTimeout` fire at once
  (`sync.ts:414`), so the loop polls without a pause. `NeverBeforeRetryAfter`
  excludes such intervals by name (`TimerLimit`).
- A drain that times out (`sync.ts:310`) forgets the alerts of the organization
  in flight unless the catch-up is on, against `CHANGELOG.md:68`. The model's
  `DoneIsAlerted` is about organizations that are done.
- A `decayFactor` within half a second of 1 (0.99 at 50 seconds) never decays,
  since the interval is rounded. `BackToFloor` is checked with factors that do.

## 5. What is proved

For every value of the constants that their assumptions admit: any number of
runs, invoices, calls, readers, organizations, accounts, tasks, attempts and
parts, any dates, windows, intervals, delays, names and factors.

| module | theorems |
|---|---|
| `SubjectSyncProofs` | `Typing`, `NeverSkips` (`NothingSkipped`), `StaysFinal` (`CursorIsFinal`), `NeverClaimsMissingFile` (`RecordedIsOnDisk`), `RunsKnow` (`RunsCover`), `FeedRefinement` (`ImplementsFeed`) |
| `StateStoreProofs` | `Typing`, `CopiesAreCurrent` (`CopyIsCurrent`), `StoreRefinement` (`ImplementsAtomicStore`), `MonotonicReads` (`ReadsAreMonotonic`) |
| `WatchLoopProofs` | `Typing`, `Restartable` (`SleepIsRestartable`), `NeverEarly` (`NeverBeforeRetryAfter`) |
| `SubjectSyncAloneProofs` | `FailedAheadOfCursor` (`FailedIsRetried`), `FloorOnly` (`OnlyFloorDropsCoverage`), `ResetOnly` (`OnlyResetMovesBack`), `OneOffsAreIsolated` (`OneOffRunsAreIsolated`), `OneOffStepsAreIsolated` |
| `SyncCycleProofs` | `Typing`, `LimiterIsSound` (`TasksAreLimited`), `AlertedBeforeDone` (`DoneIsAlerted`), `OnceMarkedNeverMailed` (`OnlyUnmarkedAreSent`), `MarkersAreEarned` (`SomebodyWasTold`) |
| `SessionProofs` | `Typing`, `KeepsCredential` (`CredentialIsKept`), `ListsAfterStoring` (`ListedHadSecret`), `OverlapsOnly` (`OnlyOverlapsLoseSecrets`) |
| `KsefRequestsProofs` | `Typing`, `Reports` (`RateLimitsAreReported`), `Whole` (`PackageIsWhole`), `KeepsRetryAfter` (`RetryAfterIsKept`) |
| `InvoiceFilesProofs` | `Typing`, `NothingLost` (`NothingIsLost`), `PdfsMatch` (`PdfIsOfItsXml`), `KeepsFirstName` (`FirstNameStays`), `HeldOnce` (`NoDuplicates`), `HeldAtMostTwice`, `OwnDirectoryIsShown` |

*Assumptions.* Those of the modules: types of the constants, `None` is none of the
values it stands next to, and no job combines `--redownload-all` with
`--redownload` (the command line refuses it). The theorems of `SessionProofs` but
`Typing` assume that the current account is not one of its own aliases
(`NoSelfAlias`): section 4 says why they must. The theorems of `SubjectSyncAloneProofs` that state properties of
`SubjectSyncAlone` assume that runs do not overlap (`Alone`), as that run does: 4.1
shows what an overlap does to `FailedIsRetried`. `FailedAheadOfCursor` also assumes
that no job combines `--redownload-all` with a window of its own
(`NoWindowedRedownload`): such a run rewrites invoices behind the cursor and may mark
them failed there, which TLC finds as soon as that job is added to the run.

*SubjectSync.* `NothingSkipped` alone is not inductive: whether a run may move the
cursor depends on what it knows about its window. The invariant adds, for each
run, that everything before its window's start is stored and final
(`StartIsCovered`), and that everything before the date it will move to is
stored, still to be handled, or has failed (`PackageIsComplete`). KSeF commits
only after its high-water mark, which lies at or beyond both, so a late commit
disturbs neither; and no action of another run takes a file away, so overlapping
runs do not disturb each other. The refinement maps `stored` to the files and `final`
to the high-water mark: an `AdvanceCursor` is a `MoveCursor` whose guard is the
invariant.

*One run at a time.* `FailedIsRetried` relates a row to the cursor. `RunsCover` is
about files; `LoneInv` adds the same of rows, which an overlapping run could
disturb. What the cursor covers is recorded as downloaded (`CoveredIsRecorded`), and so
is what a run has passed before its window and, unless an invoice has failed, in its
package (`StartIsRecorded`, `PackageIsRecorded`), with the invoice that
`--redownload` has fetched first (`ForcedIsRecorded`). Entries still to be handled lie at or
after the window's start (`HandlesAhead`), so a rewrite that may fail touches nothing
the cursor covers (`RewritesAhead`); and the cursor stays at or before the window of
the one run that moves it (`CursorIsBehind`). The action properties follow from the
same invariant. A `--redownload-all` that starts at a configured `initialSyncFrom`
drops coverage as a floor does (`README.md:121`): `OnlyFloorDropsCoverage` names that
step, and the run has such a job. `OneOffStepsAreIsolated` needs no `Alone`: whatever
overlaps, the steps of an export or of a windowed run leave the cursor as it is.

*StateStore.* Mutual exclusion and what each call's copy holds (`CopyIsCurrent`),
with what is written and reported (`Reported`): a temp file is synced before it
is renamed, a call has its update in the file exactly when it has renamed.
`Reported` says nothing of a call whose answer was replaced by the error of its
release; the refinement lets it end either way (`doubtful`), and from then on
nothing of it changes the file.

*WatchLoop.* Between two cycles the interval covers what is left of the deadline
(`Covered`): rounding up loses no tick (`CeilCovers`), the maximum with the floor
comes after the clamp (`NextIntervalCovers`), and sleep and deadline shrink
together.

*SyncCycle.* `LimiterIsSound` counts: an item starts when fewer items than there are
free places wait before it. These numbers tell the items that start apart, so no
more start than there are places (`FirstOfWaiting`, `LaunchLimited`), and an item
that ends frees one (`FewerIsLimited`). `AlertedBeforeDone` needs that a notification
in progress carries all its organization stored and has not marked (`MailOfTask`); `Quiet` says of a step
of the limiter that it makes no task done and leaves one that notifies alone.
`MarkersAreEarned` needs two facts about a notification in progress (`MailCovers`): the
accounts still to be tried are those of pending invoices, and once something has
been sent, all pending invoices of some account (or of none) were told about. With `OnlyUnmarkedAreSent` the batch that is marked then holds one of them
(`BatchIsEarned`).

*Session.* `CredentialIsKept` is not inductive: a migration deletes the older entry
while the new one may have been replaced or removed. `Sound` says of each command
that an entry about to be dropped has its copy under the current account unless
the user has removed the credential meanwhile, that one about to be written is
the entry read, and that what is not `stale` still agrees with the keychain.

*KsefRequests.* `ConvInv` says of each conversation which of its fields a phase may
use: `Paced` that attempts and polls are left where another follows and that a
wait covers what KSeF asked for; `Staged` and `Assembled` that the parts done and
to do are the package, in order. `Reports` follows since every 429 raises `told`
and `deadline` by the same step.

*InvoiceFiles.* A place whose name nobody raced for (`Clean`) belongs to one invoice:
`FilesInv` says so of its files, `WriterOK` of what each run knows about the place
it is writing to, `OneNames` that no two runs resolve such a name at the same time, and
`RepairOK` that what the repair has read is still true when it writes. A step of
one run leaves what the others know alone, since clean places differ. `HeldOnce`
adds `OnceInv`: an XML at the short name is recognized by its metadata unless its
own run has still to write that (`Recognized`), and then any other run that looks
has raced with it; a run that has not recognized one will not find it later (`Unseen`); and
the long name is taken only when another invoice has the short one
(`LongIsSecond`), so two places of the month never hold one invoice.
Two theorems bound what section 4 says: `HeldAtMostTwice` that an invoice fills at
most two places of the month, whatever fails or races, and `OwnDirectoryIsShown`
that only the shared directory misleads an alert (4.2). The module assumes that `None` is no writer (`WriterAssumption`).

### 5.1 What is only model-checked

Liveness (`EventuallyStored`, `LockIsFreed`, `StopEnds`, `BackToFloor`,
`AlertedInTheEnd`, `AccessInTheEnd`, `EveryConversationEnds`): fairness is out of the
prover's reach. Every other property of a passing run is stated by a theorem. The
violations of section 4 are counterexamples, which TLC prints.

## 6. What is not modelled

- The content of invoices, XML, attachments, PDF rendering, mail texts, log lines,
  encryption, and the OpenAPI types (`api/types.ts`, half of the lines of the
  program, generated and without behaviour): data the properties do not tell
  apart. Payment analysis is such a function of one XML; `Unpaid` is its outcome.
- `InvoiceFiles` has one month. The directory is named after the date KSeF stored
  the invoice at, or after the present date if the package names none and in a
  direct download: one invoice may then be written again in another month, and
  its row follows. Months do not share names. An export to an output path has
  directories of its own.
- The breaker and the worker of the PDF renderer: a rendering is one step that
  succeeds or not.
- The environments are one at a time: entries of another environment are never
  read.
- A process that is suspended, with the lock, for longer than the lock takes to
  go stale: the timers of `proper-lockfile` are external.
- A disk that loses or reorders what was synced; `fsync` is taken at its word.
- Schema migration, which is idempotent and runs under the lock.
- A user who edits files or the database by hand.
- Configuration is read once and gives the models their constants. `status` reads
  what `StateStore` and `WatchLoop` model. Log files are written, rotated and
  never read by the program. Completion and service installation are sequential
  commands that write files for a shell, launchd or systemd.

## 7. What could come next

1. Log rotation: several processes rotate one log, and the one that did not rotate
   goes on writing to the file that was moved aside.
2. The PDF circuit breaker, once it is passed on to the writer.
3. `Session` and `KsefRequests` composed: a login that is interrupted between two of
   its requests, next to a command that changes the entry.
