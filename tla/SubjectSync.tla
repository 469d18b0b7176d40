----------------------------- MODULE SubjectSync -----------------------------
(***************************************************************************)
(* The incremental download of one (NIP, subject type) pair, as            *)
(* syncSubjectType in src/src/core/syncSubjectRunner.ts performs it, with  *)
(* the helpers of window.ts, the invoice writer and the two tables it      *)
(* shares with every other run: continuation_points and invoices.          *)
(*                                                                         *)
(* Proc is a set of concurrent runs over one store: the watch service, a   *)
(* manual `sync`, a `--redownload-all`, a run left behind by an aborted    *)
(* cycle.  Every step between two awaits is one action; a run may stop at  *)
(* any await (an exception, a signal, a crash), which is Abort.            *)
(*                                                                         *)
(* KSeF is external: it commits invoices with a permanent storage date and *)
(* announces a high-water mark (hwm) at or below which no invoice will be  *)
(* committed any more.  Its dates are finer than the milliseconds a        *)
(* JavaScript Date holds: Grain ticks of the server clock make one         *)
(* millisecond.                                                            *)
(***************************************************************************)
EXTENDS Integers, FiniteSets

CONSTANTS
  Proc,       \* concurrent runs
  Invoice,    \* KSeF numbers
  None,       \* null / undefined
  MaxTime,    \* bound on the server clock
  Grain,      \* server ticks per millisecond
  Epoch,      \* ksefStartDateIso
  MaxRange,   \* maxDateRangeMonths
  MinWindow,  \* sync.minExportWindowSeconds
  Job         \* the command lines and configurations runs are started with

Time  == 0..MaxTime
Maybe(S) == S \cup {None}

(* What a run is started with: config.sync.initialSyncFrom, the            *)
(* --time-window bounds, --redownload-all, --output-path, --redownload.    *)
JobType ==
  [floor: Maybe(Time), window: Maybe(Time \X Time), all: BOOLEAN,
   export: BOOLEAN, forced: Maybe(Invoice)]

ASSUME TimeAssumption ==
  /\ MaxTime \in Nat /\ Grain \in Nat \ {0} /\ Epoch \in Time
  /\ MaxRange \in Nat /\ MinWindow \in Nat
ASSUME NoneAssumption ==
  None \notin Int \cup Invoice \cup (Time \X Time) \cup JobType
ASSUME JobAssumption ==
  Job \subseteq {j \in JobType : ~(j.all /\ j.forced # None)}

VARIABLES
  now,        \* the wall clock
  hwm,        \* KSeF: no invoice will be committed at or below it any more
  date,       \* KSeF: permanentStorageDate of each invoice, None: not committed
  cursor,     \* the continuation_points row
  row,        \* the invoices row of each invoice
  file,       \* whether the canonical store holds the invoice's XML
  out,        \* whether the --output-path directory holds it
  run,        \* the local state of each run
  base        \* history: the date from which the cursor's runs have covered

ksefVars  == <<now, hwm, date>>
storeVars == <<cursor, base, row, file, out>>
vars      == <<now, hwm, date, cursor, row, file, out, run, base>>

Row == [status: {"absent", "downloaded", "failed"}, path: BOOLEAN]
NoRow == [status |-> "absent", path |-> FALSE]

PC == {"idle", "direct", "directRow", "start", "read", "floor", "reset",
       "window", "entries", "xml", "row"}

RunType ==
  [pc: PC, job: Maybe(Job),
   asOf: Time,              \* now, captured once at the start
   start: Time,             \* windowStart
   upper: Time,             \* upperBound
   origin: Time,            \* history: where this run's coverage begins
   todo: SUBSET Invoice,    \* package entries not yet handled
   cont: Maybe(Time),       \* resolveContinuation's decision, None: hold
   failed: BOOLEAN,         \* failed > 0
   cur: Maybe(Invoice),     \* the entry being written
   seen: Row]               \* `existing`: its row as read before the write

IdleRun ==
  [pc |-> "idle", job |-> None, asOf |-> 0, start |-> 0, upper |-> 0,
   origin |-> 0, todo |-> {}, cont |-> None, failed |-> FALSE,
   cur |-> None, seen |-> NoRow]

TypeOK ==
  /\ now \in Time /\ hwm \in Time
  /\ date \in [Invoice -> Maybe(Time)]
  /\ cursor \in Maybe(Time) /\ base \in Time
  /\ row \in [Invoice -> Row]
  /\ file \in [Invoice -> BOOLEAN] /\ out \in [Invoice -> BOOLEAN]
  /\ run \in [Proc -> RunType]
  /\ \A p \in Proc : run[p].pc # "idle" => run[p].job # None

Init ==
  /\ now = 0 /\ hwm = 0
  /\ date = [i \in Invoice |-> None]
  /\ cursor = None /\ base = 0
  /\ row = [i \in Invoice |-> NoRow]
  /\ file = [i \in Invoice |-> FALSE] /\ out = [i \in Invoice |-> FALSE]
  /\ run = [p \in Proc |-> IdleRun]

-----------------------------------------------------------------------------
(* Dates *)

minDate(a, b) == IF a <= b THEN a ELSE b
maxDate(a, b) == IF a >= b THEN a ELSE b

(* Mutant of ParseDate: rounded to the next millisecond.                   *)
ParseDateUp(t) == ((t + Grain - 1) \div Grain) * Grain

(* new Date(iso): digits below the millisecond are dropped.                *)
ParseDate(t) == (t \div Grain) * Grain

(* Mutant: KSeF's production start is forgotten.                           *)
resolveDefaultStartUnclamped(asOf) == asOf - MaxRange

resolveDefaultStart(asOf) == maxDate(Epoch, asOf - MaxRange)

(* Mutant: the rolling default is a floor for every run.                   *)
ConfiguredStartRolling(j, c, asOf) ==
  IF j.floor # None THEN maxDate(j.floor, Epoch)
  ELSE IF j.all THEN Epoch ELSE resolveDefaultStart(asOf)

(* configuredStart: the floor of the window for cursor c.                  *)
ConfiguredStart(j, c, asOf) ==
  IF j.floor # None THEN maxDate(j.floor, Epoch)
  ELSE IF j.all \/ c # None THEN Epoch ELSE resolveDefaultStart(asOf)

WindowEnd(start, upper) == minDate(start + MaxRange, upper)

isBelowMinExportWindow(start, end) == end - start < MinWindow

(* Mutant: a truncated package continues from the high-water mark.         *)
resolveContinuationFromHwm(pkg, start, end) ==
  LET to == minDate(ParseDate(pkg.permanentStorageHwmDate), end)
  IN  IF pkg.permanentStorageHwmDate = None \/ to <= start THEN None ELSE to

(* Mutant: nothing keeps the continuation from going back.                 *)
resolveContinuationUnordered(pkg, start, end) ==
  LET raw == IF pkg.isTruncated THEN pkg.lastPermanentStorageDate
                                ELSE pkg.permanentStorageHwmDate
  IN  IF raw = None THEN None ELSE minDate(ParseDate(raw), end)

resolveContinuation(pkg, start, end) ==
  LET raw == IF pkg.isTruncated THEN pkg.lastPermanentStorageDate
                                ELSE pkg.permanentStorageHwmDate
      to  == minDate(ParseDate(raw), end)
  IN  IF raw = None THEN None ELSE IF to <= start THEN None ELSE to

-----------------------------------------------------------------------------
(* KSeF *)

Committed(i) == date[i] # None

Tick ==
  /\ now < MaxTime
  /\ now' = now + 1
  /\ UNCHANGED <<hwm, date, storeVars, run>>

RaiseHwm ==
  /\ hwm < now
  /\ hwm' = hwm + 1
  /\ UNCHANGED <<now, date, storeVars, run>>

Commit(i) ==
  /\ ~Committed(i)
  /\ \E d \in hwm + 1 .. now : date' = [date EXCEPT ![i] = d]
  /\ UNCHANGED <<now, hwm, storeVars, run>>

(* The invoices an export of [start, end] may contain: with                *)
(* restrictToPermanentStorageHwmDate nothing beyond the high-water mark.   *)
Exportable(start, end) ==
  {i \in Invoice : Committed(i) /\ date[i] \in start .. minDate(end, hwm)}

(* A complete package names the high-water mark; a truncated one holds the *)
(* oldest invoices of the range (some of those sharing the last date may   *)
(* be missing) and names the date of the last one.  Either date may be     *)
(* missing from the answer.                                                *)
CompletePackages(start, end) ==
  {[invoices |-> Exportable(start, end), isTruncated |-> FALSE,
    lastPermanentStorageDate |-> None, permanentStorageHwmDate |-> h] :
     h \in {hwm, None}}

OldestOf(S) == {T \in SUBSET S : \A i \in T, j \in S \ T : date[i] <= date[j]}

LatestDates(S) == {date[i] : i \in {k \in S : \A j \in S : date[j] <= date[k]}}

TruncatedPackages(start, end) ==
  UNION {{[invoices |-> S, isTruncated |-> TRUE,
           lastPermanentStorageDate |-> l, permanentStorageHwmDate |-> hwm] :
            l \in Maybe(LatestDates(S))} :
         S \in OldestOf(Exportable(start, end)) \ {{}}}

Packages(start, end) ==
  CompletePackages(start, end) \cup TruncatedPackages(start, end)

-----------------------------------------------------------------------------
(* One run *)

At(p, pc) == run[p].pc = pc
Stop(p) == run' = [run EXCEPT ![p] = IdleRun]

Canonical(j) == ~j.export
(* Mutant: only --time-window is told apart.                               *)
MovesCursorUnlessWindow(j) == j.window = None

MovesCursor(j) == j.window = None /\ ~j.export

Begin(p, j) ==
  /\ At(p, "idle")
  /\ run' = [run EXCEPT ![p] =
       [IdleRun EXCEPT !.pc = IF j.forced # None THEN "direct" ELSE "start",
                       !.job = j]]
  /\ UNCHANGED <<ksefVars, storeVars>>

(* Anything that throws, or a process that dies.                           *)
Abort(p) ==
  /\ ~At(p, "idle")
  /\ Stop(p)
  /\ UNCHANGED <<ksefVars, storeVars>>

StoreXml(j, i) ==
  IF Canonical(j)
  THEN file' = [file EXCEPT ![i] = TRUE] /\ UNCHANGED out
  ELSE out' = [out EXCEPT ![i] = TRUE] /\ UNCHANGED file

StoreRow(j, i, r) ==
  IF Canonical(j) THEN row' = [row EXCEPT ![i] = r] ELSE UNCHANGED row

Downloaded == [status |-> "downloaded", path |-> TRUE]

(* --redownload <ksefNumber>: the invoice is fetched and written first.    *)
DirectDownload(p) ==
  /\ At(p, "direct")
  /\ Committed(run[p].job.forced)
  /\ StoreXml(run[p].job, run[p].job.forced)
  /\ run' = [run EXCEPT ![p].pc = "directRow"]
  /\ UNCHANGED <<ksefVars, cursor, base, row>>

DirectRecord(p) ==
  /\ At(p, "directRow")
  /\ StoreRow(run[p].job, run[p].job.forced, Downloaded)
  /\ run' = [run EXCEPT ![p].pc = "start"]
  /\ UNCHANGED <<ksefVars, cursor, base, file, out>>

(* `now` is captured once; an explicit window needs no cursor.             *)
StartSubject(p) ==
  /\ At(p, "start")
  /\ LET w == run[p].job.window IN
     run' = [run EXCEPT ![p] =
       [run[p] EXCEPT !.asOf  = ParseDate(now),
                 !.pc    = IF w = None THEN "read" ELSE "window",
                 !.start = IF w = None THEN run[p].start ELSE w[1],
                 !.upper = IF w = None THEN run[p].upper ELSE w[2]]]
  /\ UNCHANGED <<ksefVars, storeVars>>

ReadCursor(p) ==
  /\ At(p, "read")
  /\ LET j     == run[p].job
         asOf  == run[p].asOf
         c     == IF j.all THEN None ELSE cursor
         floor == ConfiguredStart(j, c, asOf)
         keep  == c # None /\ c >= floor
         first == minDate(IF keep THEN c ELSE floor, asOf)
     IN  run' = [run EXCEPT ![p] =
           [run[p] EXCEPT !.start  = first,
                     !.upper  = asOf,
                     !.origin = IF keep THEN base ELSE IF c # None THEN floor ELSE first,
                     !.pc     = IF c # None /\ ~keep /\ ~j.export THEN "floor"
                                ELSE IF j.all /\ ~j.export THEN "reset"
                                ELSE "window"]]
  /\ UNCHANGED <<ksefVars, storeVars>>

setContinuationPoint(c, b) == cursor' = c /\ base' = b

FloorCursor(p) ==
  /\ At(p, "floor")
  /\ setContinuationPoint(run[p].origin, run[p].origin)
  /\ run' = [run EXCEPT ![p].pc = "window"]
  /\ UNCHANGED <<ksefVars, row, file, out>>

(* Mutant: the reset saves the end of the range instead of its start.      *)
ResetCursorToEnd(p) ==
  /\ At(p, "reset")
  /\ setContinuationPoint(run[p].upper, run[p].origin)
  /\ run' = [run EXCEPT ![p].pc = "window"]
  /\ UNCHANGED <<ksefVars, row, file, out>>

ResetCursor(p) ==
  /\ At(p, "reset")
  /\ setContinuationPoint(run[p].start, run[p].origin)
  /\ run' = [run EXCEPT ![p].pc = "window"]
  /\ UNCHANGED <<ksefVars, row, file, out>>

-----------------------------------------------------------------------------
(* The window loop *)

HasWindow(p) ==
  LET end == WindowEnd(run[p].start, run[p].upper) IN
  /\ run[p].start < run[p].upper
  /\ ~isBelowMinExportWindow(run[p].start, end)

EndOfWindows(p) ==
  /\ At(p, "window")
  /\ ~HasWindow(p)
  /\ Stop(p)
  /\ UNCHANGED <<ksefVars, storeVars>>

(* KSeF rejects the range, or reports invoices but delivers no parts.      *)
ExportYieldsNothing(p) ==
  /\ At(p, "window")
  /\ HasWindow(p)
  /\ Stop(p)
  /\ UNCHANGED <<ksefVars, storeVars>>

ReceivePackage(p, pkg) ==
  run' = [run EXCEPT ![p] =
    [run[p] EXCEPT !.pc     = "entries",
              !.todo   = pkg.invoices,
              !.cont   = resolveContinuation(pkg, run[p].start,
                           WindowEnd(run[p].start, run[p].upper)),
              !.failed = FALSE]]

Export(p) ==
  /\ At(p, "window")
  /\ HasWindow(p)
  /\ \E pkg \in Packages(run[p].start, WindowEnd(run[p].start, run[p].upper)) :
       ReceivePackage(p, pkg)
  /\ UNCHANGED <<ksefVars, storeVars>>

(* Mutant: any row means that the entry has been handled.                  *)
SkippableOnceSeen(j, i) ==
  \/ j.forced = i
  \/ ~j.all /\ Canonical(j) /\ row[i].status # "absent"
  \/ ~j.all /\ ~Canonical(j) /\ out[i]

(* The entry needs no write: it was fetched directly, or it is already     *)
(* where this run would put it.                                            *)
Skippable(j, i) ==
  \/ j.forced = i
  \/ ~j.all /\ Canonical(j) /\ row[i].status = "downloaded" /\ file[i]
  \/ ~j.all /\ ~Canonical(j) /\ out[i]

SkipEntry(p, i) ==
  /\ At(p, "entries") /\ i \in run[p].todo
  /\ Skippable(run[p].job, i)
  /\ run' = [run EXCEPT ![p].todo = @ \ {i}]
  /\ UNCHANGED <<ksefVars, storeVars>>

TakeEntry(p, i) ==
  /\ At(p, "entries") /\ i \in run[p].todo
  /\ ~Skippable(run[p].job, i)
  /\ run' = [run EXCEPT ![p] =
       [run[p] EXCEPT !.pc = "xml", !.todo = run[p].todo \ {i}, !.cur = i,
                 !.seen = IF Canonical(run[p].job) THEN row[i] ELSE NoRow]]
  /\ UNCHANGED <<ksefVars, storeVars>>

(* Mutant: the row is upserted before the file is written.                 *)
WriteRowFirst(p) ==
  /\ At(p, "xml")
  /\ StoreRow(run[p].job, run[p].cur, Downloaded)
  /\ run' = [run EXCEPT ![p].pc = "row"]
  /\ UNCHANGED <<ksefVars, cursor, base, file, out>>

WriteXml(p) ==
  /\ At(p, "xml")
  /\ StoreXml(run[p].job, run[p].cur)
  /\ run' = [run EXCEPT ![p].pc = "row"]
  /\ UNCHANGED <<ksefVars, cursor, base, row>>

RecordDownloaded(p) ==
  /\ At(p, "row")
  /\ StoreRow(run[p].job, run[p].cur, Downloaded)
  /\ run' = [run EXCEPT ![p] =
       [run[p] EXCEPT !.pc = "entries", !.cur = None, !.seen = NoRow]]
  /\ UNCHANGED <<ksefVars, cursor, base, file, out>>

(* The catch block: the row keeps the path read before the write.          *)
RecordFailed(p) ==
  /\ At(p, "xml") \/ At(p, "row")
  /\ StoreRow(run[p].job, run[p].cur,
              [status |-> "failed", path |-> run[p].seen.path])
  /\ run' = [run EXCEPT ![p] =
       [run[p] EXCEPT !.pc = "entries", !.cur = None, !.seen = NoRow, !.failed = TRUE]]
  /\ UNCHANGED <<ksefVars, cursor, base, file, out>>

PackageDone(p) == At(p, "entries") /\ run[p].todo = {}

(* Mutant: failed writes do not hold the cursor.                           *)
AdvancesAnyway(p) == run[p].cont # None

Advances(p) == ~run[p].failed /\ run[p].cont # None

HoldCursor(p) ==
  /\ PackageDone(p)
  /\ ~Advances(p)
  /\ Stop(p)
  /\ UNCHANGED <<ksefVars, storeVars>>

AdvanceCursor(p) ==
  /\ PackageDone(p)
  /\ Advances(p)
  /\ IF MovesCursor(run[p].job)
     THEN setContinuationPoint(run[p].cont, run[p].origin)
     ELSE UNCHANGED <<cursor, base>>
  /\ run' = [run EXCEPT ![p] =
       [run[p] EXCEPT !.pc = "window", !.start = run[p].cont, !.cont = None]]
  /\ UNCHANGED <<ksefVars, row, file, out>>

-----------------------------------------------------------------------------

Ksef == Tick \/ RaiseHwm \/ \E i \in Invoice : Commit(i)

Step(p) ==
  \/ Abort(p)
  \/ DirectDownload(p) \/ DirectRecord(p)
  \/ StartSubject(p) \/ ReadCursor(p) \/ FloorCursor(p) \/ ResetCursor(p)
  \/ EndOfWindows(p) \/ ExportYieldsNothing(p) \/ Export(p)
  \/ \E i \in Invoice : SkipEntry(p, i) \/ TakeEntry(p, i)
  \/ WriteXml(p) \/ RecordDownloaded(p) \/ RecordFailed(p)
  \/ HoldCursor(p) \/ AdvanceCursor(p)

Next ==
  \/ Ksef
  \/ \E p \in Proc : Step(p) \/ \E j \in Job : Begin(p, j)

Spec == Init /\ [][Next]_vars

(* The watch loop never stops starting cycles, KSeF keeps finalizing, a    *)
(* run keeps working; and from some time on no run is aborted, no write    *)
(* fails and KSeF answers every export in full.                            *)
FullExport(p) ==
  /\ Export(p)
  /\ \E pkg \in CompletePackages(run[p].start, WindowEnd(run[p].start, run[p].upper)) :
       pkg.permanentStorageHwmDate # None /\ ReceivePackage(p, pkg)

Work(p) ==
  \/ StartSubject(p) \/ ReadCursor(p) \/ FloorCursor(p) \/ ResetCursor(p)
  \/ DirectDownload(p) \/ DirectRecord(p) \/ EndOfWindows(p) \/ FullExport(p)
  \/ \E i \in Invoice : SkipEntry(p, i) \/ TakeEntry(p, i)
  \/ WriteXml(p) \/ RecordDownloaded(p) \/ HoldCursor(p) \/ AdvanceCursor(p)

Healthy == \A p \in Proc : Step(p) => Work(p)

Fairness ==
  /\ WF_vars(Tick) /\ WF_vars(RaiseHwm)
  /\ \A p \in Proc : WF_vars(\E j \in Job : Begin(p, j)) /\ WF_vars(Work(p))
  /\ <>[][Healthy]_vars

FairSpec == Spec /\ Fairness

-----------------------------------------------------------------------------
(* Safety *)

Between(i, from, to) == Committed(i) /\ from <= date[i] /\ date[i] < to

(* The cursor never passes an invoice that the store does not hold: every  *)
(* invoice committed from the start of the covered range up to the         *)
(* continuation point has its XML on disk, whatever runs overlap, fail or  *)
(* die (the promise of window.ts:42-55 and README "never skips invoices"). *)
NothingSkipped ==
  cursor # None => \A i \in Invoice : Between(i, base, cursor) => file[i]

(* The cursor never enters the range in which KSeF may still commit an     *)
(* invoice: it stays at or below the high-water mark, unless a configured  *)
(* floor lies there (window.ts:42-55: no fallback to the requested `to`).  *)
CursorIsFinal == cursor # None => cursor <= maxDate(hwm, base)

(* An invoice recorded as downloaded is on disk: the row is written after  *)
(* the file (invoiceWriter.ts:296-338), so that a crash in between leaves  *)
(* an invoice that is fetched again and not one that is missing.           *)
RecordedIsOnDisk ==
  \A i \in Invoice : row[i].status = "downloaded" => file[i]

(* An invoice whose row says "failed" lies at or after the cursor, so that *)
(* a later export covers it again (syncSubjectRunner.ts:487-489).          *)
FailedIsRetried ==
  cursor # None =>
    \A i \in Invoice :
      row[i].status = "failed" /\ Committed(i) /\ base <= date[i] => cursor <= date[i]

-----------------------------------------------------------------------------
(* Steps *)

(* The covered range loses its beginning only to a configured floor, which *)
(* an older cursor is moved to and --redownload-all resets to: with no     *)
(* initialSyncFrom a held or old cursor is not overtaken by the rolling    *)
(* three-month default, only moved to the date at which KSeF began         *)
(* (syncSubjectRunner.ts:106-114, README:121, 459-461).                    *)
OnlyFloorDropsCoverage ==
  [][cursor # None /\ base' > maxDate(base, Epoch) =>
       \E p \in Proc : run[p].pc \in {"floor", "reset"} /\ run[p].job.floor # None]_vars

(* The cursor goes back only when --redownload-all resets it.              *)
OnlyResetMovesBack ==
  [][cursor # None /\ cursor' # cursor => cursor' > cursor \/ \E p \in Proc : At(p, "reset")]_vars

(* A run with --output-path leaves the canonical state alone, a run with   *)
(* --time-window leaves the cursor alone (syncSubjectRunner.ts:88-90,      *)
(* 276-282, README:469, 575-576).                                          *)
OneOffRunsAreIsolated ==
  [][\A p \in Proc :
       /\ ~At(p, "idle") /\ run[p].job.export => UNCHANGED <<cursor, row, file>>
       /\ ~At(p, "idle") /\ run[p].job.window # None => UNCHANGED cursor]_vars

-----------------------------------------------------------------------------
(* Liveness *)

(* Every invoice KSeF commits, except in the last window that the bound on *)
(* time leaves too narrow to request, reaches the store in the end, through *)
(* held cursors, truncated packages, failed writes and aborted runs        *)
(* (README:459 "never skips invoices", syncSubjectRunner.ts:160-497).      *)
EventuallyStored ==
  \A i \in Invoice :
    (Committed(i) /\ date[i] + maxDate(MinWindow, 1) <= MaxTime) ~> file[i]

-----------------------------------------------------------------------------
(* What a run knows while it works: the parts of the invariant that hold   *)
(* NothingSkipped and RecordedIsOnDisk together.                           *)

Looping(p) == run[p].pc \in {"floor", "reset", "window", "entries", "xml", "row"}
Unpacking(p) == run[p].pc \in {"entries", "xml", "row"}

(* The run's window starts where everything older is stored and final.     *)
StartIsCovered(p) ==
  Looping(p) /\ MovesCursor(run[p].job) =>
    /\ \A i \in Invoice : Between(i, run[p].origin, run[p].start) => file[i]
    /\ run[p].start <= maxDate(hwm, run[p].origin)

(* Every invoice before the date it will move the cursor to is stored, is  *)
(* still to be handled, or has failed.                                     *)
PackageIsComplete(p) ==
  Unpacking(p) /\ Canonical(run[p].job) /\ run[p].cont # None =>
    /\ run[p].cont <= hwm
    /\ \A i \in Invoice : Between(i, run[p].start, run[p].cont) =>
         file[i] \/ run[p].failed \/ i \in run[p].todo \/ i = run[p].cur

WritesInOrder(p) ==
  /\ At(p, "row") /\ Canonical(run[p].job) => file[run[p].cur]
  /\ run[p].pc \notin {"idle", "direct"} =>
       (run[p].job.forced # None /\ Canonical(run[p].job) => file[run[p].job.forced])

PathOf(p) ==
  /\ At(p, "read") => run[p].job.window = None
  /\ run[p].pc \in {"floor", "reset"} => MovesCursor(run[p].job)
  /\ run[p].pc \in {"direct", "directRow"} => run[p].job.forced # None
  /\ run[p].pc \in {"xml", "row"} <=> run[p].cur # None

RunCovers(p) ==
  StartIsCovered(p) /\ PackageIsComplete(p) /\ WritesInOrder(p) /\ PathOf(p)

RunsCover == \A p \in Proc : RunCovers(p)

-----------------------------------------------------------------------------
(* The promise to whoever reads the store, see GaplessFeed.                *)
Feed == INSTANCE GaplessFeed WITH final <- hwm, stored <- {i \in Invoice : file[i]}

(* Whatever the runs do, the store is a gapless feed.                      *)
ImplementsFeed == Feed!Spec

=============================================================================
