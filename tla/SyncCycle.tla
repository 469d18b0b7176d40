------------------------------ MODULE SyncCycle ------------------------------
(***************************************************************************)
(* One cycle over all organizations, and the alerts about unpaid invoices: *)
(* SyncService.runOnce (src/src/core/syncService.ts) with the task limiter *)
(* of utils/concurrency.ts, Notifier (src/src/notifications/notifier.ts)   *)
(* and the notification table of db/repository.ts, as driven by the watch  *)
(* loop and by one-shot `sync` commands.                                   *)
(*                                                                         *)
(* A Slot is one call of runOnce.  When a task of a call fails the call    *)
(* ends, but the tasks that are running go on: their slot stays taken      *)
(* while the watch loop starts its next cycle in another one.  How an      *)
(* invoice is found and stored is SubjectSync's subject; here a task takes *)
(* any invoice that has no "downloaded" row.                               *)
(*                                                                         *)
(* A notification holds the lock of the database from its first query to   *)
(* its last marker, mail included (`mail`); every other write waits or     *)
(* throws when its retries are exhausted.                                  *)
(***************************************************************************)
EXTENDS Integers, FiniteSets

CONSTANTS
  None,
  Nips,             \* organizations, 1..Nips in the order of the configuration
  Invoice, Owner,   \* unpaid invoices, and the NIP of each
  Profile, Route,   \* SMTP accounts, resolveSmtpForNip (None: no account)
  Slot,             \* bound on the calls of runOnce in progress
  MaxConcurrent,    \* sync.maxConcurrentNips
  CatchUp,          \* notifications.unpaidInvoiceCatchUp
  Mac               \* macosNotification, on a Mac

Nip == 1..Nips
Maybe(S) == S \cup {None}

ASSUME CycleAssumption ==
  /\ Nips \in Nat \ {0} /\ MaxConcurrent \in Nat \ {0}
  /\ Owner \in [Invoice -> Nip] /\ Route \in [Nip -> Maybe(Profile)]
  /\ CatchUp \in BOOLEAN /\ Mac \in BOOLEAN
  /\ None \notin Invoice \cup Profile \cup [slot : Slot, nip : Int,
       pending : SUBSET Invoice, todo : SUBSET Profile, ok : BOOLEAN]

VARIABLES
  svc,       \* the watch service
  stop,      \* stopRequested
  run,       \* the local state of each call of runOnce
  mail,      \* the notification in progress, which holds the lock
  row,       \* invoices recorded as downloaded
  aged,      \* of these, downloaded before the catch-up's lookback
  marked,    \* invoice_notifications
  alerted,   \* history: invoices somebody has been told about
  waived,    \* history: invoices marked by `notifications backfill`
  refused    \* history: invoices of a notification nobody could be sent

historyVars == <<alerted, waived, refused>>
storeVars   == <<row, aged, marked>>
vars == <<svc, stop, run, mail, row, aged, marked, alerted, waived, refused>>

Task ==
  [pc: {"waiting", "sync", "notify", "done", "failed"},
   items: SUBSET Invoice,    \* nipResult.items
   cur: Maybe(Invoice)]      \* the entry being written
NewTask == [pc |-> "waiting", items |-> {}, cur |-> None]

Run ==
  [mode: {"none", "watch", "once"},
   stage: {"tasks", "success", "failure", "final", "settled"},
   task: [Nip -> Task]]
IdleRun ==
  [mode |-> "none", stage |-> "settled", task |-> [n \in Nip |-> NewTask]]

Final == 0    \* the notification after runOnce, of all NIPs
Mail ==
  [slot: Slot, nip: Nip \cup {Final}, pending: SUBSET Invoice,
   todo: SUBSET Profile, ok: BOOLEAN]

TypeOK ==
  /\ svc \in {"down", "idle", "cycle"} /\ stop \in BOOLEAN
  /\ run \in [Slot -> Run] /\ mail \in Maybe(Mail)
  /\ row \subseteq Invoice /\ aged \subseteq row /\ marked \subseteq Invoice
  /\ alerted \subseteq Invoice /\ waived \subseteq Invoice /\ refused \subseteq Invoice

Init ==
  /\ svc = "down" /\ stop = FALSE
  /\ run = [s \in Slot |-> IdleRun] /\ mail = None
  /\ row = {} /\ aged = {} /\ marked = {}
  /\ alerted = {} /\ waived = {} /\ refused = {}

-----------------------------------------------------------------------------
(* pLimit *)

Active(t)  == {n \in Nip : t[n].pc \in {"sync", "notify"}}
Waiting(t) == {n \in Nip : t[n].pc = "waiting"}

(* processNext: the next items start, in order, up to the limit.           *)
Launch(t) ==
  LET free == MaxConcurrent - Cardinality(Active(t)) IN
  [n \in Nip |->
     IF n \in Waiting(t) /\ Cardinality({k \in Waiting(t) : k < n}) < free
     THEN [t[n] EXCEPT !.pc = "sync"] ELSE t[n]]

(* A slot is free again when nothing of its call runs any more.            *)
Normal(r) == IF r.stage = "settled" /\ Active(r.task) = {} THEN IdleRun ELSE r

(* Mutant: the call goes on when its last task has started.                *)
ResolveEarly(r) ==
  LET t == Launch(r.task) IN
  IF r.stage # "tasks" THEN Normal(r)
  ELSE [r EXCEPT !.task = t,
                 !.stage = IF Waiting(t) = {} THEN "success" ELSE "tasks"]

(* A task is done: the next one starts, after the last one the call goes   *)
(* on.  Nothing starts once the call has settled.                          *)
Resolve(r) ==
  LET t == Launch(r.task) IN
  IF r.stage # "tasks" THEN Normal(r)
  ELSE [r EXCEPT !.task = t,
                 !.stage = IF \A n \in Nip : t[n].pc = "done"
                           THEN "success" ELSE "tasks"]

(* The first task that fails ends the call.                                *)
Reject(r) ==
  Normal([r EXCEPT !.stage = IF r.stage = "tasks" THEN "failure" ELSE r.stage])

-----------------------------------------------------------------------------
(* The watch service and one-shot commands *)

StartRun(s, m) ==
  /\ run[s] = IdleRun
  /\ run' = [run EXCEPT ![s] =
       [mode |-> m, stage |-> "tasks", task |-> Launch(IdleRun.task)]]

StartService ==
  /\ svc = "down"
  /\ svc' = "idle" /\ stop' = FALSE
  /\ UNCHANGED <<run, mail, storeVars, historyVars>>

StartCycle(s) ==
  /\ svc = "idle" /\ ~stop
  /\ StartRun(s, "watch")
  /\ svc' = "cycle"
  /\ UNCHANGED <<stop, mail, storeVars, historyVars>>

StartOnce(s) ==
  /\ StartRun(s, "once")
  /\ UNCHANGED <<svc, stop, mail, storeVars, historyVars>>

Signal ==
  /\ svc # "down" /\ ~stop
  /\ stop' = TRUE
  /\ UNCHANGED <<svc, run, mail, storeVars, historyVars>>

(* A process ends, with all that its calls of runOnce had in memory; a     *)
(* lock it holds goes stale.                                               *)
Kill(S) ==
  /\ run' = [s \in Slot |-> IF s \in S THEN IdleRun ELSE run[s]]
  /\ mail' = IF mail # None /\ mail.slot \in S THEN None ELSE mail

Exit ==
  /\ svc' = "down"
  /\ Kill({s \in Slot : run[s].mode = "watch"})

Finalize ==
  /\ svc = "idle" /\ stop
  /\ Exit
  /\ UNCHANGED <<stop, storeVars, historyVars>>

(* The drain timed out.                                                    *)
AbandonCycle ==
  /\ svc = "cycle" /\ stop
  /\ Exit
  /\ UNCHANGED <<stop, storeVars, historyVars>>

Crash ==
  /\ svc # "down"
  /\ Exit
  /\ stop' = FALSE
  /\ UNCHANGED <<storeVars, historyVars>>

CrashOnce(s) ==
  /\ run[s].mode = "once"
  /\ Kill({s})
  /\ UNCHANGED <<svc, stop, storeVars, historyVars>>

-----------------------------------------------------------------------------
(* One NIP *)

At(s, n, pc) == run[s].task[n].pc = pc
SetTask(s, n, t) == run' = [run EXCEPT ![s].task[n] = t]

(* An entry of a package that needs a write; a one-shot command may have   *)
(* been told to download again what there is.                              *)
TakeEntry(s, n, i) ==
  /\ At(s, n, "sync") /\ run[s].task[n].cur = None
  /\ Owner[i] = n /\ i \notin run[s].task[n].items
  /\ i \notin row \/ run[s].mode = "once"
  /\ SetTask(s, n, [run[s].task[n] EXCEPT !.cur = i])
  /\ UNCHANGED <<svc, stop, mail, storeVars, historyVars>>

(* Mutant: an entry of a package that holds no invoice is recorded.        *)
WriteAnything(s, n) ==
  LET i == run[s].task[n].cur IN
  /\ At(s, n, "sync") /\ mail = None
  /\ row' = row \cup {i} /\ aged' = aged \ {i}
  /\ SetTask(s, n, [run[s].task[n] EXCEPT !.cur = None, !.items = @ \cup {i}])
  /\ UNCHANGED <<svc, stop, mail, marked, historyVars>>

WriteInvoice(s, n) ==
  LET i == run[s].task[n].cur IN
  /\ At(s, n, "sync") /\ i # None /\ mail = None
  /\ row' = row \cup {i} /\ aged' = aged \ {i}
  /\ SetTask(s, n, [run[s].task[n] EXCEPT !.cur = None, !.items = @ \cup {i}])
  /\ UNCHANGED <<svc, stop, mail, marked, historyVars>>

WriteFails(s, n) ==
  LET i == run[s].task[n].cur IN
  /\ At(s, n, "sync") /\ i # None /\ mail = None
  /\ row' = row \ {i} /\ aged' = aged \ {i}
  /\ SetTask(s, n, [run[s].task[n] EXCEPT !.cur = None])
  /\ UNCHANGED <<svc, stop, mail, marked, historyVars>>

Done(s, n) ==
  run' = [run EXCEPT ![s] = Resolve([run[s] EXCEPT !.task[n].pc = "done"])]

(* Mutant: all alerts are left to the end of the cycle.                    *)
SyncDoneUnalerted(s, n) ==
  /\ At(s, n, "sync") /\ run[s].task[n].cur = None
  /\ Done(s, n)
  /\ UNCHANGED <<svc, stop, mail, storeVars, historyVars>>

(* syncSingleNip returns: in watch mode there is a notifier.               *)
SyncDone(s, n) ==
  /\ At(s, n, "sync") /\ run[s].task[n].cur = None
  /\ IF run[s].mode = "watch"
     THEN SetTask(s, n, [run[s].task[n] EXCEPT !.pc = "notify"])
     ELSE Done(s, n)
  /\ UNCHANGED <<svc, stop, mail, storeVars, historyVars>>

Failed(s, n) ==
  run' = [run EXCEPT ![s] = Reject([run[s] EXCEPT !.task[n].pc = "failed"])]

(* KSeF, the login, the file system or the lock fails the task.            *)
TaskThrows(s, n) ==
  /\ n \in Active(run[s].task)
  /\ Failed(s, n)
  /\ mail' = IF mail # None /\ mail.slot = s /\ mail.nip = n THEN None ELSE mail
  /\ UNCHANGED <<svc, stop, storeVars, historyVars>>

-----------------------------------------------------------------------------
(* Notifications *)

(* Mutant: the catch-up is left out.                                       *)
getPendingItemsOnly(items) == items \ marked

getPendingUnpaidItems(items) ==
  (items \ marked) \cup (IF CatchUp THEN row \ (aged \cup marked) ELSE {})

(* The lock is taken, the pending invoices are listed and the notification *)
(* center, if it can be reached, is told.                                  *)
OpenMail(s, n, items) ==
  /\ mail = None
  /\ LET pending == getPendingUnpaidItems(items) IN
     \E told \in IF Mac /\ pending # {} THEN BOOLEAN ELSE {FALSE} :
       /\ mail' = [slot |-> s, nip |-> n, pending |-> pending, ok |-> told,
                   todo |-> {Route[Owner[i]] : i \in pending} \ {None}]
       /\ alerted' = IF told THEN alerted \cup pending ELSE alerted
  /\ UNCHANGED <<svc, stop, run, storeVars, waived, refused>>

NotifyNip(s, n) ==
  At(s, n, "notify") /\ OpenMail(s, n, run[s].task[n].items)

NotifyAll(s) ==
  /\ run[s].stage = "final"
  /\ OpenMail(s, Final, UNION {run[s].task[n].items : n \in Nip})

SendMail(p) ==
  /\ mail # None /\ p \in mail.todo
  /\ mail' = [mail EXCEPT !.todo = @ \ {p}, !.ok = TRUE]
  /\ alerted' = alerted \cup {i \in mail.pending : Route[Owner[i]] = p}
  /\ UNCHANGED <<svc, stop, run, storeVars, waived, refused>>

MailFails(p) ==
  /\ mail # None /\ p \in mail.todo
  /\ mail' = [mail EXCEPT !.todo = @ \ {p}]
  /\ UNCHANGED <<svc, stop, run, storeVars, historyVars>>

Settle(s) ==
  /\ run' = [run EXCEPT ![s] = Normal([run[s] EXCEPT !.stage = "settled"])]
  /\ svc' = IF run[s].mode = "watch" THEN "idle" ELSE svc

(* Mutant: the invoices are marked whatever became of the mail.            *)
AnySentAlways == TRUE

AnySent == mail.ok

(* If anything was sent, all pending invoices are marked.                  *)
CloseMail ==
  /\ mail # None /\ mail.todo = {}
  /\ marked'  = IF AnySent THEN marked \cup mail.pending ELSE marked
  /\ refused' = IF mail.ok THEN refused ELSE refused \cup mail.pending
  /\ mail' = None
  /\ IF mail.nip = Final
     THEN Settle(mail.slot)
     ELSE Done(mail.slot, mail.nip) /\ UNCHANGED svc
  /\ UNCHANGED <<stop, row, aged, alerted, waived>>

(* The markers are stored and the lock cannot be released (StateStore's    *)
(* ReleaseFails): the task fails nevertheless.                             *)
NotifyNipThrows(s, n) ==
  /\ At(s, n, "notify")
  /\ mail # None /\ mail.slot = s /\ mail.nip = n
  /\ mail.todo = {} /\ AnySent
  /\ marked' = marked \cup mail.pending
  /\ mail' = None
  /\ Failed(s, n)
  /\ UNCHANGED <<svc, stop, row, aged, historyVars>>

(* The final notification cannot get the lock, or store its markers.       *)
NotifyAllThrows(s) ==
  /\ run[s].stage = "final"
  /\ Settle(s)
  /\ mail' = IF mail # None /\ mail.slot = s /\ mail.nip = Final THEN None ELSE mail
  /\ UNCHANGED <<stop, storeVars, historyVars>>

-----------------------------------------------------------------------------
(* The end of runOnce: the sync_state row, which only `status` reads *)

RecordOutcome(s) ==
  /\ run[s].stage = "success" /\ mail = None
  /\ run' = [run EXCEPT ![s].stage = "final"]
  /\ UNCHANGED <<svc, stop, mail, storeVars, historyVars>>

RecordOutcomeThrows(s) ==
  /\ run[s].stage = "success"
  /\ run' = [run EXCEPT ![s].stage = "failure"]
  /\ UNCHANGED <<svc, stop, mail, storeVars, historyVars>>

RecordFailure(s) ==
  /\ run[s].stage = "failure" /\ mail = None
  /\ Settle(s)
  /\ UNCHANGED <<stop, mail, storeVars, historyVars>>

RecordFailureThrows(s) ==
  /\ run[s].stage = "failure"
  /\ Settle(s)
  /\ UNCHANGED <<stop, mail, storeVars, historyVars>>

-----------------------------------------------------------------------------
(* The table, from outside *)

(* Mutant: the backfill does not take the lock.                            *)
BackfillUnlocked ==
  /\ marked' = marked \cup row /\ waived' = waived \cup row
  /\ UNCHANGED <<svc, stop, run, mail, row, aged, alerted, refused>>

(* `system notifications backfill`.                                        *)
Backfill ==
  /\ mail = None
  /\ marked' = marked \cup row /\ waived' = waived \cup row
  /\ UNCHANGED <<svc, stop, run, mail, row, aged, alerted, refused>>

(* Days pass.                                                              *)
Age(i) ==
  /\ i \in row
  /\ aged' = aged \cup {i}
  /\ UNCHANGED <<svc, stop, run, mail, row, marked, historyVars>>

-----------------------------------------------------------------------------

Sync(s, n) ==
  \/ \E i \in Invoice : TakeEntry(s, n, i)
  \/ WriteInvoice(s, n) \/ SyncDone(s, n) \/ NotifyNip(s, n)

Work(s) ==
  \/ \E n \in Nip : Sync(s, n)
  \/ RecordOutcome(s) \/ RecordFailure(s) \/ NotifyAll(s)

Deliver == CloseMail \/ \E p \in Profile : SendMail(p)

Throws(s) ==
  \/ \E n \in Nip : WriteFails(s, n) \/ TaskThrows(s, n) \/ NotifyNipThrows(s, n)
  \/ RecordOutcomeThrows(s) \/ RecordFailureThrows(s) \/ NotifyAllThrows(s)

Undisturbed ==
  \/ StartService \/ Finalize \/ (\E s \in Slot : StartCycle(s) \/ Work(s))
  \/ Deliver \/ Backfill \/ (\E i \in Invoice : Age(i))

Next ==
  \/ Undisturbed \/ Signal \/ AbandonCycle \/ Crash
  \/ \E s \in Slot : StartOnce(s) \/ CrashOnce(s) \/ Throws(s)
  \/ \E p \in Profile : MailFails(p)

Spec == Init /\ [][Next]_vars

(* The service manager restarts the service, the loop starts cycles, tasks *)
(* and deliveries go on; from some time on nothing fails, and nobody stops *)
(* the service or competes with it for the lock.                           *)
FairSpec ==
  /\ Spec
  /\ WF_vars(StartService) /\ WF_vars(Finalize) /\ WF_vars(\E s \in Slot : StartCycle(s))
  /\ WF_vars(Deliver) /\ \A s \in Slot : WF_vars(Work(s))
  /\ <>[][Undisturbed]_vars

-----------------------------------------------------------------------------
(* The limiter never runs more organizations of a call at a time than      *)
(* sync.maxConcurrentNips, and a call never ends as a success while one of *)
(* its tasks runs, waits or has failed (concurrency.ts:32-63).             *)
TasksAreLimited ==
  \A s \in Slot :
    /\ Cardinality(Active(run[s].task)) <= MaxConcurrent
    /\ run[s].stage \in {"success", "final"} =>
         \A n \in Nip : At(s, n, "done")

(* An alert is only ever sent for an invoice that has no marker: two runs  *)
(* that found the same invoice, or a run and a backfill, never both alert  *)
(* about it, since the lock is held from the query to the marker           *)
(* (notifier.ts:44-62).                                                    *)
OnlyUnmarkedAreSent == mail # None => mail.pending \cap marked = {}

(* No invoice is marked because nobody could be told: one that is marked   *)
(* was told about or waived, or it is marked in a batch with an invoice    *)
(* of another account, which somebody was told about.  That batch marks it *)
(* even when its own mail has failed (notifier.ts:44-62, 284-290), so that *)
(* with several accounts a marker promises no more than this.              *)
SomebodyWasTold ==
  [][\A i \in marked' \ marked :
       \/ i \in alerted \cup waived'
       \/ \E j \in marked' \ marked :
            j \in alerted /\ Route[Owner[j]] # Route[Owner[i]]]_vars

(* In watch mode an organization is done only after its alerts: a stop, a  *)
(* crash or a failure of another organization after that cannot lose them  *)
(* (sync.ts:193, syncService.ts:286-288).                                  *)
DoneIsAlerted ==
  \A s \in Slot, n \in Nip :
    run[s].mode = "watch" /\ At(s, n, "done") =>
      run[s].task[n].items \subseteq marked \cup refused

(* With the catch-up every stored unpaid invoice is marked in the end,     *)
(* whatever stops, crashes, failed mails and failed runs its alert was     *)
(* lost to before, unless it grows too old meanwhile (notifier.ts:69-85,   *)
(* repository.ts:259-288); SomebodyWasTold says what its marker is worth.  *)
AlertedInTheEnd ==
  \A i \in Invoice : i \in row ~> i \in marked \cup aged \/ i \notin row
=============================================================================
