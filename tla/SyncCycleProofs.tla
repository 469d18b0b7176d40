--------------------------- MODULE SyncCycleProofs ---------------------------
(***************************************************************************)
(* Theorems about SyncCycle, for any number of organizations, invoices,    *)
(* accounts and overlapping calls of runOnce: type correctness, and the    *)
(* invariants about markers and alerts.                                    *)
(***************************************************************************)
EXTENDS SyncCycle, FiniteSetTheorems, TLAPS

-----------------------------------------------------------------------------
(* Types of the helpers *)

LEMMA IdleRunType == IdleRun \in Run
BY DEF IdleRun, Run, Task, NewTask, Maybe

(* A step of the limiter starts tasks and changes nothing else in them.    *)
LEMMA LaunchKeeps ==
  ASSUME NEW t \in [Nip -> Task]
  PROVE  /\ Launch(t) \in [Nip -> Task]
         /\ \A n \in Nip : /\ Launch(t)[n].items = t[n].items
                           /\ Launch(t)[n].pc = "done" <=> t[n].pc = "done"
<1> DEFINE free == MaxConcurrent - Cardinality(Active(t))
           go(n) == n \in Waiting(t) /\ Cardinality({k \in Waiting(t) : k < n}) < free
<1>1. Launch(t) = [n \in Nip |-> IF go(n) THEN [t[n] EXCEPT !.pc = "sync"] ELSE t[n]]
  BY DEF Launch
<1>2. \A n \in Nip : go(n) => t[n].pc = "waiting"
  BY DEF Waiting
<1> HIDE DEF go
<1>3. \A n \in Nip : [t[n] EXCEPT !.pc = "sync"] \in Task
  BY DEF Task
<1>4. QED
  BY <1>1, <1>2, <1>3 DEF Task

LEMMA NormalType ==
  ASSUME NEW r \in Run
  PROVE  Normal(r) \in Run
BY IdleRunType DEF Normal

LEMMA ResolveType ==
  ASSUME NEW r \in Run
  PROVE  Resolve(r) \in Run
<1> DEFINE t == Launch(r.task)
           g == IF \A n \in Nip : t[n].pc = "done" THEN "success" ELSE "tasks"
<1>1. r.task \in [Nip -> Task]
  BY DEF Run
<1>2. t \in [Nip -> Task]
  BY <1>1, LaunchKeeps
<1>3. g \in {"success", "tasks"}
  OBVIOUS
<1>4. Resolve(r) = IF r.stage # "tasks" THEN Normal(r)
                   ELSE [r EXCEPT !.task = t, !.stage = g]
  BY DEF Resolve
<1> HIDE DEF t, g
<1>5. [r EXCEPT !.task = t, !.stage = g] \in Run
  BY <1>2, <1>3 DEF Run
<1>6. QED
  BY <1>4, <1>5, NormalType

LEMMA RejectType ==
  ASSUME NEW r \in Run
  PROVE  Reject(r) \in Run
<1> DEFINE g == IF r.stage = "tasks" THEN "failure" ELSE r.stage
<1>1. [r EXCEPT !.stage = g] \in Run
  BY DEF Run
<1>2. QED
  BY <1>1, NormalType DEF Reject

(* A run with one task or its stage replaced.                              *)
LEMMA WithTask ==
  ASSUME NEW r \in Run, NEW n \in Nip, NEW t \in Task
  PROVE  [r EXCEPT !.task[n] = t] \in Run
BY DEF Run

LEMMA WithPc ==
  ASSUME NEW r \in Run, NEW n \in Nip, NEW l \in {"notify", "done", "failed"}
  PROVE  [r EXCEPT !.task[n].pc = l] \in Run
<1>1. r.task[n] \in Task
  BY DEF Run
<1>2. [r.task[n] EXCEPT !.pc = l] \in Task
  BY <1>1 DEF Task
<1>3. [r EXCEPT !.task[n].pc = l] = [r EXCEPT !.task[n] = [r.task[n] EXCEPT !.pc = l]]
  OBVIOUS
<1>4. QED
  BY <1>2, <1>3, WithTask

LEMMA WithStage ==
  ASSUME NEW r \in Run, NEW g \in {"success", "failure", "final", "settled"}
  PROVE  [r EXCEPT !.stage = g] \in Run
BY DEF Run

(* One slot replaced.                                                      *)
LEMMA WithRun ==
  ASSUME NEW f \in [Slot -> Run], NEW s \in Slot, NEW r \in Run
  PROVE  [f EXCEPT ![s] = r] \in [Slot -> Run]
OBVIOUS

-----------------------------------------------------------------------------
(* Type correctness *)

RunType == run \in [Slot -> Run]

LEMMA SetTaskType ==
  ASSUME RunType, NEW s \in Slot, NEW n \in Nip, NEW t \in Task, SetTask(s, n, t)
  PROVE  RunType'
<1>1. run[s] \in Run
  BY DEF RunType
<1>2. run' = [run EXCEPT ![s] = [run[s] EXCEPT !.task[n] = t]]
  BY DEF SetTask
<1>3. QED
  BY <1>1, <1>2, WithTask, WithRun DEF RunType

LEMMA DoneType ==
  ASSUME RunType, NEW s \in Slot, NEW n \in Nip, Done(s, n)
  PROVE  RunType'
<1>1. run[s] \in Run
  BY DEF RunType
<1>2. Resolve([run[s] EXCEPT !.task[n].pc = "done"]) \in Run
  BY <1>1, WithPc, ResolveType
<1>3. QED
  BY <1>2 DEF RunType, Done

LEMMA SettleType ==
  ASSUME RunType, svc \in {"down", "idle", "cycle"}, NEW s \in Slot, Settle(s)
  PROVE  RunType' /\ svc' \in {"down", "idle", "cycle"}
<1>1. run[s] \in Run
  BY DEF RunType
<1>2. Normal([run[s] EXCEPT !.stage = "settled"]) \in Run
  BY <1>1, WithStage, NormalType
<1>3. QED
  BY <1>2 DEF RunType, Settle

LEMMA KillType ==
  ASSUME RunType, mail \in Maybe(Mail), NEW S, Kill(S)
  PROVE  RunType' /\ mail' \in Maybe(Mail)
BY IdleRunType DEF RunType, Kill, Maybe

(* The whole of TypeOK is restored by a step that keeps the types of what  *)
(* it changes.                                                             *)
LEMMA OpenMailType ==
  ASSUME TypeOK, NEW s \in Slot, NEW n \in Nip \cup {Final},
         NEW items \in SUBSET Invoice, OpenMail(s, n, items)
  PROVE  mail' \in Maybe(Mail) /\ alerted' \subseteq Invoice
<1> DEFINE pending == getPendingUnpaidItems(items)
           todo == {Route[Owner[i]] : i \in pending} \ {None}
<1>1. pending \in SUBSET Invoice
  BY DEF getPendingUnpaidItems, TypeOK
<1>2. todo \in SUBSET Profile
  BY <1>1, CycleAssumption DEF Maybe
<1>3. PICK told \in BOOLEAN :
        /\ mail' = [slot |-> s, nip |-> n, pending |-> pending, ok |-> told,
                    todo |-> todo]
        /\ alerted' = IF told THEN alerted \cup pending ELSE alerted
  BY DEF OpenMail
<1> HIDE DEF pending, todo
<1>4. mail' \in Mail
  BY <1>1, <1>2, <1>3 DEF Mail
<1>5. QED
  BY <1>1, <1>3, <1>4 DEF TypeOK, Maybe

LEMMA ServiceKeepsType ==
  ASSUME TypeOK,
         \/ StartService \/ Signal \/ Finalize \/ AbandonCycle \/ Crash
         \/ \E s \in Slot : StartCycle(s) \/ StartOnce(s) \/ CrashOnce(s)
  PROVE  TypeOK'
<1> USE DEF TypeOK
<1>1. CASE StartService \/ Signal
  BY <1>1 DEF StartService, Signal, storeVars, historyVars
<1>2. ASSUME NEW s \in Slot, NEW m \in {"watch", "once"}, StartRun(s, m)
      PROVE  RunType'
  <2>1. IdleRun.task \in [Nip -> Task]
    BY IdleRunType DEF Run
  <2>2. [mode |-> m, stage |-> "tasks", task |-> Launch(IdleRun.task)] \in Run
    BY <2>1, LaunchKeeps DEF Run
  <2>3. QED
    BY <1>2, <2>2 DEF StartRun, RunType
<1>3. ASSUME NEW s \in Slot, StartCycle(s) \/ StartOnce(s)
      PROVE  TypeOK'
  BY <1>2, <1>3 DEF StartCycle, StartOnce, RunType, storeVars, historyVars
<1>4. CASE Finalize \/ AbandonCycle \/ Crash
  BY <1>4, KillType DEF Finalize, AbandonCycle, Crash, Exit, RunType, storeVars,
     historyVars
<1>5. ASSUME NEW s \in Slot, CrashOnce(s)
      PROVE  TypeOK'
  BY <1>5, KillType DEF CrashOnce, RunType, storeVars, historyVars
<1>6. QED
  BY <1>1, <1>3, <1>4, <1>5

LEMMA SyncKeepsType ==
  ASSUME TypeOK, NEW s \in Slot, NEW n \in Nip,
         \/ \E i \in Invoice : TakeEntry(s, n, i)
         \/ WriteInvoice(s, n) \/ WriteFails(s, n) \/ SyncDone(s, n)
         \/ TaskThrows(s, n) \/ NotifyNip(s, n) \/ NotifyNipThrows(s, n)
  PROVE  TypeOK'
<1> USE DEF TypeOK
<1> DEFINE t == run[s].task[n]
<1>1. run[s] \in Run /\ t \in Task /\ t.cur \in Maybe(Invoice) /\ t.items \in SUBSET Invoice
  BY DEF Run, Task
<1>2. RunType
  BY DEF RunType
<1>3. ASSUME NEW i \in Invoice, TakeEntry(s, n, i)
      PROVE  TypeOK'
  <2>1. [t EXCEPT !.cur = i] \in Task
    BY <1>1 DEF Task, Maybe
  <2>2. SetTask(s, n, [t EXCEPT !.cur = i])
    BY <1>3 DEF TakeEntry
  <2>3. RunType'
    BY <1>2, <2>1, <2>2, SetTaskType
  <2>4. QED
    BY <1>3, <2>3 DEF TakeEntry, RunType, storeVars, historyVars
<1>4. CASE WriteInvoice(s, n)
  <2>1. t.cur \in Invoice
    BY <1>1, <1>4 DEF WriteInvoice, Maybe
  <2>2. [t EXCEPT !.cur = None, !.items = @ \cup {t.cur}] \in Task
    BY <1>1, <2>1 DEF Task, Maybe
  <2>3. SetTask(s, n, [t EXCEPT !.cur = None, !.items = @ \cup {t.cur}])
    BY <1>4 DEF WriteInvoice
  <2>4. RunType'
    BY <1>2, <2>2, <2>3, SetTaskType
  <2>5. QED
    BY <1>4, <2>1, <2>4 DEF WriteInvoice, RunType, historyVars
<1>5. CASE WriteFails(s, n)
  <2>1. [t EXCEPT !.cur = None] \in Task
    BY <1>1 DEF Task, Maybe
  <2>2. SetTask(s, n, [t EXCEPT !.cur = None])
    BY <1>5 DEF WriteFails
  <2>3. RunType'
    BY <1>2, <2>1, <2>2, SetTaskType
  <2>4. QED
    BY <1>5, <2>3 DEF WriteFails, RunType, historyVars
<1>6. CASE SyncDone(s, n)
  <2>1. [t EXCEPT !.pc = "notify"] \in Task
    BY <1>1 DEF Task
  <2>2. SetTask(s, n, [t EXCEPT !.pc = "notify"]) \/ Done(s, n)
    BY <1>6 DEF SyncDone
  <2>3. RunType'
    BY <1>2, <2>1, <2>2, SetTaskType, DoneType
  <2>4. QED
    BY <1>6, <2>3 DEF SyncDone, RunType, storeVars, historyVars
<1>7. CASE TaskThrows(s, n) \/ NotifyNipThrows(s, n)
  <2>1. Reject([run[s] EXCEPT !.task[n].pc = "failed"]) \in Run
    BY <1>1, WithPc, RejectType
  <2>2. marked' \subseteq Invoice /\ mail' \in Maybe(Mail)
    BY <1>7 DEF TaskThrows, NotifyNipThrows, Maybe, Mail, storeVars
  <2>3. QED
    BY <1>7, <2>1, <2>2 DEF TaskThrows, NotifyNipThrows, Failed, storeVars, historyVars
<1>8. CASE NotifyNip(s, n)
  BY <1>1, <1>8, OpenMailType DEF NotifyNip, OpenMail, storeVars
<1>9. QED
  BY <1>3, <1>4, <1>5, <1>6, <1>7, <1>8

LEMMA EndKeepsType ==
  ASSUME TypeOK, NEW s \in Slot,
         \/ NotifyAll(s) \/ NotifyAllThrows(s) \/ RecordOutcome(s)
         \/ RecordOutcomeThrows(s) \/ RecordFailure(s) \/ RecordFailureThrows(s)
  PROVE  TypeOK'
<1> USE DEF TypeOK
<1>1. run[s] \in Run /\ RunType
  BY DEF RunType
<1>2. UNION {run[s].task[n].items : n \in Nip} \in SUBSET Invoice
  BY <1>1 DEF Run, Task
<1>3. CASE NotifyAll(s)
  BY <1>2, <1>3, OpenMailType DEF NotifyAll, OpenMail, storeVars
<1>4. CASE RecordOutcome(s) \/ RecordOutcomeThrows(s)
  <2>1. RunType'
    BY <1>1, <1>4, WithStage DEF RecordOutcome, RecordOutcomeThrows, RunType
  <2>2. QED
    BY <1>4, <2>1 DEF RecordOutcome, RecordOutcomeThrows, RunType, storeVars, historyVars
<1>5. CASE Settle(s) /\ (NotifyAllThrows(s) \/ RecordFailure(s) \/ RecordFailureThrows(s))
  <2>1. RunType' /\ svc' \in {"down", "idle", "cycle"}
    BY <1>1, <1>5, SettleType
  <2>2. mail' \in Maybe(Mail)
    BY <1>5 DEF NotifyAllThrows, RecordFailure, RecordFailureThrows, Maybe
  <2>3. QED
    BY <1>5, <2>1, <2>2 DEF NotifyAllThrows, RecordFailure, RecordFailureThrows,
       RunType, storeVars, historyVars
<1>6. QED
  BY <1>3, <1>4, <1>5 DEF NotifyAllThrows, RecordFailure, RecordFailureThrows

LEMMA MailKeepsType ==
  ASSUME TypeOK, CloseMail \/ \E p \in Profile : SendMail(p) \/ MailFails(p)
  PROVE  TypeOK'
<1> USE DEF TypeOK
<1>1. mail \in Mail /\ mail.pending \in SUBSET Invoice /\ mail.slot \in Slot
  BY DEF CloseMail, SendMail, MailFails, Mail, Maybe
<1>2. ASSUME NEW p \in Profile, SendMail(p) \/ MailFails(p)
      PROVE  TypeOK'
  <2>1. mail' \in Mail
    BY <1>1, <1>2 DEF SendMail, MailFails, Mail
  <2>2. alerted' \subseteq Invoice
    BY <1>1, <1>2 DEF SendMail, MailFails, historyVars
  <2>3. QED
    BY <1>2, <2>1, <2>2 DEF SendMail, MailFails, Maybe, storeVars, historyVars
<1>3. CASE CloseMail
  <2>1. RunType' /\ svc' \in {"down", "idle", "cycle"}
    <3>1. CASE mail.nip = Final
      BY <1>1, <1>3, <3>1, SettleType DEF CloseMail, RunType
    <3>2. CASE mail.nip # Final
      BY <1>1, <1>3, <3>2, DoneType DEF CloseMail, RunType, Mail
    <3>3. QED
      BY <3>1, <3>2
  <2>2. mail' \in Maybe(Mail) /\ marked' \subseteq Invoice /\ refused' \subseteq Invoice
    BY <1>1, <1>3 DEF CloseMail, Maybe
  <2>3. QED
    BY <1>3, <2>1, <2>2 DEF CloseMail, RunType
<1>4. QED
  BY <1>2, <1>3

LEMMA TableKeepsType ==
  ASSUME TypeOK, Backfill \/ \E i \in Invoice : Age(i)
  PROVE  TypeOK'
BY DEF TypeOK, Backfill, Age, historyVars

(* Every step is one of those of the lemmas above.                         *)
LEMMA StepCases ==
  ASSUME Next
  PROVE  \/ StartService \/ Signal \/ Finalize \/ AbandonCycle \/ Crash
         \/ \E s \in Slot : StartCycle(s) \/ StartOnce(s) \/ CrashOnce(s)
         \/ \E s \in Slot, n \in Nip :
              \/ \E i \in Invoice : TakeEntry(s, n, i)
              \/ WriteInvoice(s, n) \/ WriteFails(s, n) \/ SyncDone(s, n)
              \/ TaskThrows(s, n) \/ NotifyNip(s, n) \/ NotifyNipThrows(s, n)
         \/ \E s \in Slot :
              \/ NotifyAll(s) \/ NotifyAllThrows(s) \/ RecordOutcome(s)
              \/ RecordOutcomeThrows(s) \/ RecordFailure(s) \/ RecordFailureThrows(s)
         \/ CloseMail \/ \E p \in Profile : SendMail(p) \/ MailFails(p)
         \/ Backfill \/ \E i \in Invoice : Age(i)
BY ZenonT(60) DEF Next, Undisturbed, Work, Sync, Deliver, Throws

(* The tasks, the notification in progress and the tables stay within      *)
(* their types; in particular only a stored invoice grows too old for the  *)
(* catch-up.                                                               *)
THEOREM Typing == Spec => []TypeOK
<1>1. Init => TypeOK
  BY IdleRunType DEF Init, TypeOK, Maybe
<1>2. TypeOK /\ [Next]_vars => TypeOK'
  <2>1. CASE UNCHANGED vars
    BY <2>1 DEF TypeOK, vars
  <2>2. CASE Next
    BY <2>2, StepCases, ServiceKeepsType, SyncKeepsType, EndKeepsType,
       MailKeepsType, TableKeepsType
  <2>3. QED
    BY <2>1, <2>2
<1>3. QED
  BY <1>1, <1>2, PTL DEF Spec

-----------------------------------------------------------------------------
(* Alerts *)

(* A notification in progress carries no marked invoice.  It suffices to   *)
(* look at the steps that change the notification or the markers.          *)
LEMMA UnmarkedStep ==
  ASSUME TypeOK, OnlyUnmarkedAreSent, [Next]_vars
  PROVE  OnlyUnmarkedAreSent'
<1> USE DEF OnlyUnmarkedAreSent
<1>1. CASE UNCHANGED <<mail, marked>>
  BY <1>1
<1>2. ASSUME mail' \in {None, mail}, marked' = marked
      PROVE  OnlyUnmarkedAreSent'
  BY <1>2
<1>3. ASSUME NEW s, NEW n, NEW items, OpenMail(s, n, items)
      PROVE  OnlyUnmarkedAreSent'
  <2>1. PICK told : mail' =
          [slot |-> s, nip |-> n, pending |-> getPendingUnpaidItems(items),
           ok |-> told,
           todo |-> {Route[Owner[i]] : i \in getPendingUnpaidItems(items)} \ {None}]
    BY <1>3 DEF OpenMail
  <2>2. mail'.pending = getPendingUnpaidItems(items)
    BY <2>1
  <2>3. getPendingUnpaidItems(items) \cap marked = {}
    BY DEF getPendingUnpaidItems
  <2>4. QED
    BY <1>3, <2>2, <2>3 DEF OpenMail, storeVars
<1>4. ASSUME NEW p \in Profile, SendMail(p) \/ MailFails(p)
      PROVE  OnlyUnmarkedAreSent'
  <2>1. mail \in Mail
    BY <1>4 DEF TypeOK, SendMail, MailFails, Maybe
  <2>2. mail'.pending = mail.pending /\ mail # None /\ marked' = marked
    BY <1>4, <2>1 DEF SendMail, MailFails, storeVars, Mail
  <2>3. QED
    BY <2>2
<1>5. CASE CloseMail \/ Backfill
  BY <1>5 DEF CloseMail, Backfill
<1>6. CASE \/ StartService \/ Signal \/ Finalize \/ AbandonCycle \/ Crash
           \/ \E s \in Slot : StartCycle(s) \/ StartOnce(s) \/ CrashOnce(s)
  BY <1>1, <1>2, <1>6 DEF StartService, Signal, Finalize, AbandonCycle, Crash,
     StartCycle, StartOnce, CrashOnce, Exit, Kill, storeVars
<1>7. ASSUME NEW s \in Slot, NEW n \in Nip,
             \/ \E i \in Invoice : TakeEntry(s, n, i)
             \/ WriteInvoice(s, n) \/ WriteFails(s, n) \/ SyncDone(s, n)
             \/ TaskThrows(s, n) \/ NotifyNip(s, n) \/ NotifyNipThrows(s, n)
      PROVE  OnlyUnmarkedAreSent'
  BY <1>1, <1>2, <1>3, <1>7 DEF TakeEntry, WriteInvoice, WriteFails, SyncDone,
     TaskThrows, NotifyNip, NotifyNipThrows, storeVars
<1>8. ASSUME NEW s \in Slot,
             \/ NotifyAll(s) \/ NotifyAllThrows(s) \/ RecordOutcome(s)
             \/ RecordOutcomeThrows(s) \/ RecordFailure(s) \/ RecordFailureThrows(s)
      PROVE  OnlyUnmarkedAreSent'
  BY <1>1, <1>2, <1>3, <1>8 DEF NotifyAll, NotifyAllThrows, RecordOutcome,
     RecordOutcomeThrows, RecordFailure, RecordFailureThrows, storeVars
<1>9. CASE \E i \in Invoice : Age(i)
  BY <1>1, <1>9 DEF Age
<1>10. CASE UNCHANGED vars
  BY <1>1, <1>10 DEF vars, storeVars
<1>11. QED
  BY <1>4, <1>5, <1>6, <1>7, <1>8, <1>9, <1>10, StepCases

(* Nobody is alerted about an invoice that has its marker, whichever runs, *)
(* services and backfills compete for the table (notifier.ts:44-62).       *)
THEOREM OnceMarkedNeverMailed == Spec => []OnlyUnmarkedAreSent
<1>1. Init => OnlyUnmarkedAreSent
  BY DEF Init, OnlyUnmarkedAreSent
<1>2. TypeOK /\ OnlyUnmarkedAreSent /\ [Next]_vars => OnlyUnmarkedAreSent'
  BY UnmarkedStep
<1>3. QED
  BY <1>1, <1>2, Typing, PTL DEF Spec

-----------------------------------------------------------------------------
(* Markers, however the organizations are routed to accounts *)

(* The accounts still to be tried are those of pending invoices, and once  *)
(* anything was sent, everything was that one account has to send.         *)
MailCovers ==
  mail # None =>
    /\ \A p \in mail.todo : \E i \in mail.pending : Route[Owner[i]] = p
    /\ mail.ok => \E j \in mail.pending : \A i \in mail.pending :
                    Route[Owner[i]] = Route[Owner[j]] => i \in alerted

(* What SomebodyWasTold says of one step.                                  *)
MarksEarned ==
  \A i \in marked' \ marked :
    \/ i \in alerted \cup waived'
    \/ \E j \in marked' \ marked :
         j \in alerted /\ Route[Owner[j]] # Route[Owner[i]]

(* The markers of a notification: an invoice that was not told about has   *)
(* another account than the one that was sent.                             *)
LEMMA BatchIsEarned ==
  ASSUME MailCovers, OnlyUnmarkedAreSent, mail # None, mail.ok,
         marked' = marked \cup mail.pending
  PROVE  MarksEarned
<1>1. PICK j \in mail.pending : \A i \in mail.pending :
        Route[Owner[i]] = Route[Owner[j]] => i \in alerted
  BY DEF MailCovers
<1>2. marked' \ marked = mail.pending
  BY DEF OnlyUnmarkedAreSent
<1>3. QED
  BY <1>1, <1>2 DEF MarksEarned

LEMMA MarkedStep ==
  ASSUME TypeOK, OnlyUnmarkedAreSent, MailCovers, [Next]_vars
  PROVE  MailCovers' /\ MarksEarned
<1>1. ASSUME mail' \in {None, mail}, marked' = marked, alerted' = alerted
      PROVE  MailCovers' /\ MarksEarned
  BY <1>1 DEF MailCovers, MarksEarned
<1>2. ASSUME NEW s, NEW n, NEW items, OpenMail(s, n, items)
      PROVE  MailCovers' /\ MarksEarned
  <2> DEFINE pending == getPendingUnpaidItems(items)
             todo == {Route[Owner[i]] : i \in pending} \ {None}
  <2>1. PICK told \in IF Mac /\ pending # {} THEN BOOLEAN ELSE {FALSE} :
          /\ mail' = [slot |-> s, nip |-> n, pending |-> pending, ok |-> told,
                      todo |-> todo]
          /\ alerted' = IF told THEN alerted \cup pending ELSE alerted
    BY <1>2 DEF OpenMail
  <2>2. told => pending # {} /\ alerted' = alerted \cup pending
    BY <2>1
  <2>3. \A p \in todo : \E i \in pending : Route[Owner[i]] = p
    OBVIOUS
  <2>4. mail'.pending = pending /\ mail'.todo = todo /\ mail'.ok = told
    BY <2>1
  <2> HIDE DEF pending, todo
  <2>5. MailCovers'
    BY <2>2, <2>3, <2>4 DEF MailCovers
  <2>6. marked' = marked
    BY <1>2 DEF OpenMail, storeVars
  <2>7. QED
    BY <2>5, <2>6 DEF MarksEarned
<1>3. ASSUME NEW p \in Profile, SendMail(p)
      PROVE  MailCovers' /\ MarksEarned
  <2>1. mail \in Mail /\ mail # None /\ p \in mail.todo
    BY <1>3 DEF TypeOK, SendMail, Maybe
  <2>2. mail'.pending = mail.pending /\ mail'.todo = mail.todo \ {p}
    BY <1>3, <2>1 DEF SendMail, Mail
  <2>3. alerted' = alerted \cup {i \in mail.pending : Route[Owner[i]] = p}
    BY <1>3 DEF SendMail
  <2>4. PICK j \in mail.pending : Route[Owner[j]] = p
    BY <2>1 DEF MailCovers
  <2>5. \A i \in mail.pending : Route[Owner[i]] = Route[Owner[j]] => i \in alerted'
    BY <2>3, <2>4
  <2>6. MailCovers'
    BY <2>1, <2>2, <2>4, <2>5 DEF MailCovers
  <2>7. QED
    BY <1>3, <2>6 DEF MarksEarned, SendMail, storeVars
<1>4. ASSUME NEW p \in Profile, MailFails(p)
      PROVE  MailCovers' /\ MarksEarned
  <2>1. mail \in Mail /\ mail # None
    BY <1>4 DEF TypeOK, MailFails, Maybe
  <2>2. /\ mail'.pending = mail.pending /\ mail'.todo = mail.todo \ {p}
        /\ mail'.ok = mail.ok
    BY <1>4, <2>1 DEF MailFails, Mail
  <2>3. UNCHANGED <<marked, alerted>>
    BY <1>4 DEF MailFails, storeVars, historyVars
  <2>4. QED
    BY <2>1, <2>2, <2>3 DEF MailCovers, MarksEarned
<1>5. CASE CloseMail
  <2>1. mail # None /\ mail' = None
        /\ marked' = IF mail.ok THEN marked \cup mail.pending ELSE marked
    BY <1>5 DEF CloseMail, AnySent
  <2>2. MarksEarned
    BY <2>1, BatchIsEarned DEF MarksEarned
  <2>3. QED
    BY <2>1, <2>2 DEF MailCovers
<1>6. CASE Backfill
  BY <1>6 DEF Backfill, MailCovers, MarksEarned
<1>7. CASE \/ StartService \/ Signal \/ Finalize \/ AbandonCycle \/ Crash
           \/ \E s \in Slot : StartCycle(s) \/ StartOnce(s) \/ CrashOnce(s)
  BY <1>1, <1>7 DEF StartService, Signal, Finalize, AbandonCycle, Crash,
     StartCycle, StartOnce, CrashOnce, Exit, Kill, storeVars, historyVars
<1>8. ASSUME NEW s \in Slot, NEW n \in Nip,
             \/ \E i \in Invoice : TakeEntry(s, n, i)
             \/ WriteInvoice(s, n) \/ WriteFails(s, n) \/ SyncDone(s, n)
             \/ TaskThrows(s, n) \/ NotifyNip(s, n) \/ NotifyNipThrows(s, n)
      PROVE  MailCovers' /\ MarksEarned
  <2>1. CASE NotifyNip(s, n)
    BY <1>2, <2>1 DEF NotifyNip
  <2>2. CASE NotifyNipThrows(s, n)
    <3>1. /\ mail # None /\ mail.ok /\ mail' = None
          /\ marked' = marked \cup mail.pending
      BY <2>2 DEF NotifyNipThrows, AnySent
    <3>2. QED
      BY <3>1, BatchIsEarned DEF MailCovers
  <2>3. CASE ~NotifyNip(s, n) /\ ~NotifyNipThrows(s, n)
    BY <1>1, <1>8, <2>3 DEF TakeEntry, WriteInvoice, WriteFails, SyncDone,
       TaskThrows, storeVars, historyVars
  <2>4. QED
    BY <2>1, <2>2, <2>3
<1>9. ASSUME NEW s \in Slot,
             \/ NotifyAll(s) \/ NotifyAllThrows(s) \/ RecordOutcome(s)
             \/ RecordOutcomeThrows(s) \/ RecordFailure(s) \/ RecordFailureThrows(s)
      PROVE  MailCovers' /\ MarksEarned
  <2>1. CASE NotifyAll(s)
    BY <1>2, <2>1 DEF NotifyAll
  <2>2. CASE ~NotifyAll(s)
    BY <1>1, <1>9, <2>2 DEF NotifyAllThrows, RecordOutcome, RecordOutcomeThrows,
       RecordFailure, RecordFailureThrows, storeVars, historyVars
  <2>3. QED
    BY <2>1, <2>2
<1>10. CASE \E i \in Invoice : Age(i)
  BY <1>1, <1>10 DEF Age, historyVars
<1>11. CASE UNCHANGED vars
  BY <1>1, <1>11 DEF vars
<1>12. QED
  BY <1>3, <1>4, <1>5, <1>6, <1>7, <1>8, <1>9, <1>10, <1>11, StepCases

(* However organizations are routed to accounts, and with some of them to  *)
(* none, an invoice is marked only when it was told about or waived, or    *)
(* together with an invoice of another account that was told about.        *)
THEOREM MarkersAreEarned == Spec => SomebodyWasTold
<1>1. Init => MailCovers
  BY DEF Init, MailCovers
<1>2. TypeOK /\ OnlyUnmarkedAreSent /\ MailCovers /\ [Next]_vars => MailCovers'
  BY MarkedStep
<1>3. TypeOK /\ OnlyUnmarkedAreSent /\ MailCovers /\ [Next]_vars => [MarksEarned]_vars
  BY MarkedStep
<1>4. Spec => [][MarksEarned]_vars
  BY <1>1, <1>2, <1>3, Typing, OnceMarkedNeverMailed, PTL DEF Spec
<1>5. QED
  BY <1>4 DEF SomebodyWasTold, MarksEarned

-----------------------------------------------------------------------------
(* An organization is done only after its alerts *)

(* From the local state r of a call to its next one, q: no task of a watch *)
(* cycle becomes done, and one that notifies goes on to.                   *)
Quiet(q, r) ==
  \A n \in Nip :
    /\ q.mode = "watch" /\ q.task[n].pc = "done" =>
         /\ r.mode = "watch" /\ r.task[n].pc = "done"
         /\ q.task[n].items = r.task[n].items
    /\ r.task[n].pc = "notify" =>
         q.task[n].pc = "notify" /\ q.task[n].items = r.task[n].items

LEMMA NormalQuiet ==
  ASSUME NEW r \in Run
  PROVE  Quiet(Normal(r), r)
<1>1. CASE Normal(r) = r
  BY <1>1 DEF Quiet
<1>2. CASE Normal(r) = IdleRun /\ Active(r.task) = {}
  BY <1>2 DEF Quiet, IdleRun, Active
<1>3. QED
  BY <1>1, <1>2 DEF Normal

LEMMA LaunchQuiet ==
  ASSUME NEW t \in [Nip -> Task], NEW n \in Nip, t[n].pc # "waiting"
  PROVE  Launch(t)[n] = t[n]
BY DEF Launch, Waiting

LEMMA ResolveQuiet ==
  ASSUME NEW r \in Run
  PROVE  Quiet(Resolve(r), r)
<1> DEFINE t == Launch(r.task)
           g == IF \A n \in Nip : t[n].pc = "done" THEN "success" ELSE "tasks"
<1>1. Resolve(r) = IF r.stage # "tasks" THEN Normal(r)
                   ELSE [r EXCEPT !.task = t, !.stage = g]
  BY DEF Resolve
<1>2. r.task \in [Nip -> Task]
  BY DEF Run
<1>3. \A n \in Nip : /\ t[n].pc = "done" <=> r.task[n].pc = "done"
                     /\ t[n].items = r.task[n].items
                     /\ r.task[n].pc = "notify" => t[n].pc = "notify"
  BY <1>2, LaunchKeeps, LaunchQuiet
<1> HIDE DEF t, g
<1>4. Quiet([r EXCEPT !.task = t, !.stage = g], r)
  BY <1>3 DEF Quiet, Run
<1>5. QED
  BY <1>1, <1>4, NormalQuiet

LEMMA QuietTwice ==
  ASSUME NEW r, NEW q, NEW p, Quiet(q, r), Quiet(p, q)
  PROVE  Quiet(p, r)
BY DEF Quiet

LEMMA StageQuiet ==
  ASSUME NEW r \in Run, NEW g \in {"success", "failure", "final", "settled"}
  PROVE  /\ Quiet([r EXCEPT !.stage = g], r)
         /\ Quiet(Normal([r EXCEPT !.stage = g]), r)
<1> DEFINE q == [r EXCEPT !.stage = g]
<1>1. q \in Run
  BY WithStage
<1>2. q.task = r.task /\ q.mode = r.mode
  BY DEF Run
<1> HIDE DEF q
<1>3. Quiet(q, r)
  BY <1>2 DEF Quiet
<1>4. Quiet(Normal(q), r)
  BY <1>1, <1>3, NormalQuiet, QuietTwice
<1>5. QED
  BY <1>3, <1>4 DEF q

(* The organization a notification is about waits for it, and has nothing  *)
(* to alert about but what it carries.                                     *)
MailOfTask ==
  mail # None /\ mail.nip # Final =>
    /\ At(mail.slot, mail.nip, "notify")
    /\ run[mail.slot].task[mail.nip].items \subseteq marked \cup mail.pending

AlertInv == DoneIsAlerted /\ MailOfTask

(* A step that finishes no task of a watch cycle, and no notification of   *)
(* one, keeps the invariant: it may end the notification.                  *)
LEMMA QuietStep ==
  ASSUME TypeOK, AlertInv, marked \subseteq marked', refused \subseteq refused',
         mail' \in {None, mail},
         \A s \in Slot, n \in Nip :
           /\ run'[s].mode = "watch" /\ run'[s].task[n].pc = "done" =>
                /\ run[s].mode = "watch" /\ run[s].task[n].pc = "done"
                /\ run'[s].task[n].items = run[s].task[n].items
           /\ mail' # None /\ mail'.slot = s /\ mail'.nip = n
              /\ run[s].task[n].pc = "notify" =>
                /\ run'[s].task[n].pc = "notify"
                /\ run'[s].task[n].items = run[s].task[n].items
  PROVE  AlertInv'
<1>1. DoneIsAlerted'
  <2>1. SUFFICES ASSUME NEW s \in Slot, NEW n \in Nip,
                        run'[s].mode = "watch", run'[s].task[n].pc = "done"
                 PROVE  run'[s].task[n].items \subseteq marked' \cup refused'
    BY DEF DoneIsAlerted, At
  <2>2. run[s].task[n].items \subseteq marked \cup refused
    BY <2>1 DEF AlertInv, DoneIsAlerted, At
  <2>3. QED
    BY <2>1, <2>2
<1>2. MailOfTask'
  <2>1. SUFFICES ASSUME mail' # None, mail'.nip # Final
                 PROVE  /\ run'[mail'.slot].task[mail'.nip].pc = "notify"
                        /\ run'[mail'.slot].task[mail'.nip].items
                             \subseteq marked' \cup mail'.pending
    BY DEF MailOfTask, At
  <2>2. mail' = mail
    BY <2>1
  <2>3. mail.slot \in Slot /\ mail.nip \in Nip
    BY <2>1, <2>2 DEF TypeOK, Maybe, Mail
  <2>4. /\ run[mail.slot].task[mail.nip].pc = "notify"
        /\ run[mail.slot].task[mail.nip].items \subseteq marked \cup mail.pending
    BY <2>1, <2>2 DEF AlertInv, MailOfTask, At
  <2>5. QED
    BY <2>1, <2>2, <2>3, <2>4
<1>3. QED
  BY <1>1, <1>2 DEF AlertInv

(* One call moves on, quietly.                                             *)
LEMMA QuietRun ==
  ASSUME TypeOK, AlertInv, marked \subseteq marked', refused \subseteq refused',
         mail' \in {None, mail}, NEW s \in Slot, NEW q,
         run' = [run EXCEPT ![s] = q], Quiet(q, run[s])
  PROVE  AlertInv'
<1>1. \A z \in Slot : run'[z] = IF z = s THEN q ELSE run[z]
  BY DEF TypeOK
<1>2. QED
  BY <1>1, QuietStep DEF Quiet

(* A task moves on within "sync", or from there to its notification.       *)
LEMMA SyncStep ==
  ASSUME TypeOK, AlertInv, UNCHANGED <<marked, refused, mail>>,
         NEW s \in Slot, NEW n \in Nip, NEW t \in Task,
         At(s, n, "sync"), t.pc \in {"sync", "notify"}, SetTask(s, n, t)
  PROVE  AlertInv'
<1>1. run[s] \in Run
  BY DEF TypeOK
<1>2. \A k \in Nip : [run[s] EXCEPT !.task[n] = t].task[k] =
                       IF k = n THEN t ELSE run[s].task[k]
  BY <1>1 DEF Run
<1>3. [run[s] EXCEPT !.task[n] = t].mode = run[s].mode
  BY <1>1 DEF Run
<1>4. Quiet([run[s] EXCEPT !.task[n] = t], run[s])
  BY <1>2, <1>3 DEF Quiet, At
<1>5. run' = [run EXCEPT ![s] = [run[s] EXCEPT !.task[n] = t]]
  BY DEF SetTask
<1>6. QED
  BY <1>4, <1>5, QuietRun

(* A call ends with its process, or a new one starts.                      *)
LEMMA KillAlerts ==
  ASSUME TypeOK, AlertInv, UNCHANGED <<marked, refused>>, NEW S, Kill(S)
  PROVE  AlertInv'
<1>1. \A s \in Slot, n \in Nip :
        IdleRun.mode # "watch" /\ (s \in S => run'[s] = IdleRun)
        /\ (s \notin S => run'[s] = run[s])
  BY DEF Kill, IdleRun
<1>2. mail' \in {None, mail} /\ (mail' # None => mail'.slot \notin S)
  BY DEF Kill
<1>3. QED
  BY <1>1, <1>2, QuietStep

LEMMA StartAlerts ==
  ASSUME TypeOK, AlertInv, UNCHANGED <<marked, refused, mail>>,
         NEW s \in Slot, NEW m \in {"watch", "once"}, StartRun(s, m)
  PROVE  AlertInv'
<1> DEFINE t == Launch(IdleRun.task)
<1>1. IdleRun.task \in [Nip -> Task] /\ \A n \in Nip : IdleRun.task[n].pc = "waiting"
  BY IdleRunType DEF Run, IdleRun, NewTask
<1>2. \A n \in Nip : t[n].pc # "done"
  BY <1>1, LaunchKeeps
<1>3. run[s] = IdleRun /\ run' = [run EXCEPT ![s] = [mode |-> m, stage |-> "tasks", task |-> t]]
  BY DEF StartRun
<1> HIDE DEF t
<1>4. Quiet([mode |-> m, stage |-> "tasks", task |-> t], run[s])
  BY <1>1, <1>2, <1>3 DEF Quiet
<1>5. QED
  BY <1>3, <1>4, QuietRun

LEMMA RejectQuiet ==
  ASSUME NEW r \in Run
  PROVE  Quiet(Reject(r), r)
<1> DEFINE g == IF r.stage = "tasks" THEN "failure" ELSE r.stage
           q == [r EXCEPT !.stage = g]
<1>1. q \in Run /\ q.task = r.task /\ q.mode = r.mode
  BY DEF Run
<1>2. Reject(r) = Normal(q)
  BY DEF Reject
<1> HIDE DEF q
<1>3. Quiet(q, r)
  BY <1>1 DEF Quiet
<1>4. QED
  BY <1>1, <1>2, <1>3, NormalQuiet, QuietTwice

(* A call with the pc of one task replaced.                                *)
LEMMA PcOf ==
  ASSUME NEW r \in Run, NEW n \in Nip, NEW l \in {"notify", "done", "failed"}
  PROVE  /\ [r EXCEPT !.task[n].pc = l].mode = r.mode
         /\ \A k \in Nip \ {n} : [r EXCEPT !.task[n].pc = l].task[k] = r.task[k]
         /\ [r EXCEPT !.task[n].pc = l].task[n].pc = l
         /\ [r EXCEPT !.task[n].pc = l].task[n].items = r.task[n].items
<1>1. r.task[n] \in Task
  BY DEF Run
<1>2. QED
  BY <1>1 DEF Run, Task

(* A task is done: of a watch cycle only with its alerts.                  *)
LEMMA DoneAlerts ==
  ASSUME TypeOK, AlertInv, marked \subseteq marked', refused \subseteq refused',
         NEW s \in Slot, NEW n \in Nip, Done(s, n),
         mail' = None \/ (mail' = mail /\ ~At(s, n, "notify")),
         run[s].mode = "watch" => run[s].task[n].items \subseteq marked' \cup refused'
  PROVE  AlertInv'
<1> DEFINE d == [run[s] EXCEPT !.task[n].pc = "done"]
           q == Resolve(d)
<1>1. run[s] \in Run
  BY DEF TypeOK
<1>2. /\ d \in Run /\ d.mode = run[s].mode
      /\ \A k \in Nip \ {n} : d.task[k] = run[s].task[k]
      /\ d.task[n].pc = "done" /\ d.task[n].items = run[s].task[n].items
  BY <1>1, WithPc, PcOf
<1>3. \A z \in Slot : run'[z] = IF z = s THEN q ELSE run[z]
  BY DEF Done, TypeOK
<1> HIDE DEF d
<1>4. Quiet(q, d)
  BY <1>2, ResolveQuiet
<1> HIDE DEF q
<1>5. DoneIsAlerted'
  <2>1. SUFFICES ASSUME NEW z \in Slot, NEW k \in Nip,
                        run'[z].mode = "watch", run'[z].task[k].pc = "done"
                 PROVE  run'[z].task[k].items \subseteq marked' \cup refused'
    BY DEF DoneIsAlerted, At
  <2>2. CASE z = s /\ k = n
    BY <1>2, <1>3, <1>4, <2>1, <2>2 DEF Quiet
  <2>3. CASE ~(z = s /\ k = n)
    <3>1. /\ run[z].mode = "watch" /\ run[z].task[k].pc = "done"
          /\ run'[z].task[k].items = run[z].task[k].items
      BY <1>2, <1>3, <1>4, <2>1, <2>3 DEF Quiet
    <3>2. run[z].task[k].items \subseteq marked \cup refused
      BY <3>1 DEF AlertInv, DoneIsAlerted, At
    <3>3. QED
      BY <3>1, <3>2
  <2>4. QED
    BY <2>2, <2>3
<1>6. MailOfTask'
  <2>1. SUFFICES ASSUME mail' # None, mail'.nip # Final
                 PROVE  /\ run'[mail.slot].task[mail.nip].pc = "notify"
                        /\ run'[mail.slot].task[mail.nip].items
                             \subseteq marked' \cup mail.pending
    BY DEF MailOfTask, At
  <2>2. mail' = mail /\ ~At(s, n, "notify")
    BY <2>1
  <2>3. mail.slot \in Slot /\ mail.nip \in Nip
    BY <2>1, <2>2 DEF TypeOK, Maybe, Mail
  <2>4. /\ run[mail.slot].task[mail.nip].pc = "notify"
        /\ run[mail.slot].task[mail.nip].items \subseteq marked \cup mail.pending
    BY <2>1, <2>2 DEF AlertInv, MailOfTask, At
  <2>5. ~(mail.slot = s /\ mail.nip = n)
    BY <2>2, <2>4 DEF At
  <2>6. /\ run'[mail.slot].task[mail.nip].pc = "notify"
        /\ run'[mail.slot].task[mail.nip].items = run[mail.slot].task[mail.nip].items
    BY <1>2, <1>3, <1>4, <2>3, <2>4, <2>5 DEF Quiet
  <2>7. QED
    BY <2>4, <2>6
<1>7. QED
  BY <1>5, <1>6 DEF AlertInv

LEMMA ThrowAlerts ==
  ASSUME TypeOK, AlertInv, NEW s \in Slot, NEW n \in Nip,
         TaskThrows(s, n) \/ NotifyNipThrows(s, n)
  PROVE  AlertInv'
<1> DEFINE d == [run[s] EXCEPT !.task[n].pc = "failed"]
           q == Reject(d)
<1>1. run[s] \in Run
  BY DEF TypeOK
<1>2. /\ d \in Run /\ d.mode = run[s].mode
      /\ \A k \in Nip \ {n} : d.task[k] = run[s].task[k]
      /\ d.task[n].pc = "failed"
  BY <1>1, WithPc, PcOf
<1>3. \A z \in Slot : run'[z] = IF z = s THEN q ELSE run[z]
  BY DEF TaskThrows, NotifyNipThrows, Failed, TypeOK
<1>4. /\ marked \subseteq marked' /\ refused \subseteq refused' /\ mail' \in {None, mail}
      /\ mail' # None => ~(mail'.slot = s /\ mail'.nip = n)
  BY DEF TaskThrows, NotifyNipThrows, storeVars, historyVars
<1> HIDE DEF d
<1>5. Quiet(q, d)
  BY <1>2, RejectQuiet
<1> HIDE DEF q
<1>6. QED
  BY <1>2, <1>3, <1>4, <1>5, QuietStep DEF Quiet

LEMMA OpenAlerts ==
  ASSUME TypeOK, AlertInv, NEW s \in Slot, NEW n, NEW items, OpenMail(s, n, items),
         n # Final => n \in Nip /\ At(s, n, "notify") /\ items = run[s].task[n].items
  PROVE  AlertInv'
<1>1. /\ mail' # None => mail'.slot = s /\ mail'.nip = n
                         /\ mail'.pending = getPendingUnpaidItems(items)
      /\ UNCHANGED <<run, marked, refused>>
  BY DEF OpenMail, storeVars
<1>2. items \subseteq marked \cup getPendingUnpaidItems(items)
  BY DEF getPendingUnpaidItems
<1>3. QED
  BY <1>1, <1>2 DEF AlertInv, DoneIsAlerted, MailOfTask, At

LEMMA CloseAlerts ==
  ASSUME TypeOK, AlertInv, CloseMail
  PROVE  AlertInv'
<1>1. mail \in Mail /\ mail # None /\ mail.slot \in Slot
  BY DEF CloseMail, TypeOK, Maybe, Mail
<1>2. /\ marked \subseteq marked' /\ refused \subseteq refused' /\ mail' = None
      /\ marked \cup mail.pending \subseteq marked' \cup refused'
  BY DEF CloseMail, AnySent
<1>3. CASE mail.nip = Final
  <2>1. run[mail.slot] \in Run
    BY <1>1 DEF TypeOK
  <2>2. Quiet(Normal([run[mail.slot] EXCEPT !.stage = "settled"]), run[mail.slot])
    BY <2>1, StageQuiet
  <2>3. run' = [run EXCEPT ![mail.slot] =
                  Normal([run[mail.slot] EXCEPT !.stage = "settled"])]
    BY <1>3 DEF CloseMail, Settle
  <2>4. QED
    BY <1>1, <1>2, <2>2, <2>3, QuietRun
<1>4. CASE mail.nip # Final
  <2>1. mail.nip \in Nip /\ Done(mail.slot, mail.nip)
    BY <1>1, <1>4 DEF CloseMail, Mail
  <2>2. run[mail.slot].task[mail.nip].items \subseteq marked \cup mail.pending
    BY <1>1, <1>4 DEF AlertInv, MailOfTask
  <2>3. QED
    BY <1>1, <1>2, <2>1, <2>2, DoneAlerts
<1>5. QED
  BY <1>3, <1>4

LEMMA EndAlerts ==
  ASSUME TypeOK, AlertInv, NEW s \in Slot,
         \/ NotifyAllThrows(s) \/ RecordOutcome(s) \/ RecordOutcomeThrows(s)
         \/ RecordFailure(s) \/ RecordFailureThrows(s)
  PROVE  AlertInv'
<1>1. run[s] \in Run
  BY DEF TypeOK
<1>2. UNCHANGED <<marked, refused>> /\ mail' \in {None, mail}
  BY DEF NotifyAllThrows, RecordOutcome, RecordOutcomeThrows, RecordFailure,
     RecordFailureThrows, storeVars, historyVars
<1>3. PICK g \in {"failure", "final", "settled"} :
        \/ run' = [run EXCEPT ![s] = [run[s] EXCEPT !.stage = g]]
        \/ run' = [run EXCEPT ![s] = Normal([run[s] EXCEPT !.stage = g])]
  <2>1. CASE RecordOutcome(s)
    <3>1. run' = [run EXCEPT ![s] = [run[s] EXCEPT !.stage = "final"]]
      BY <2>1 DEF RecordOutcome
    <3>2. QED
      BY <3>1
  <2>2. CASE RecordOutcomeThrows(s)
    <3>1. run' = [run EXCEPT ![s] = [run[s] EXCEPT !.stage = "failure"]]
      BY <2>2 DEF RecordOutcomeThrows
    <3>2. QED
      BY <3>1
  <2>3. CASE Settle(s)
    <3>1. run' = [run EXCEPT ![s] = Normal([run[s] EXCEPT !.stage = "settled"])]
      BY <2>3 DEF Settle
    <3>2. QED
      BY <3>1
  <2>4. QED
    BY <2>1, <2>2, <2>3 DEF NotifyAllThrows, RecordFailure, RecordFailureThrows
<1>4. /\ Quiet([run[s] EXCEPT !.stage = g], run[s])
      /\ Quiet(Normal([run[s] EXCEPT !.stage = g]), run[s])
  BY <1>1, StageQuiet
<1>5. QED
  BY <1>2, <1>3, <1>4, QuietRun

LEMMA AlertStep ==
  ASSUME TypeOK, AlertInv, [Next]_vars
  PROVE  AlertInv'
<1>1. CASE UNCHANGED <<run, mail, marked, refused>>
  BY <1>1 DEF AlertInv, DoneIsAlerted, MailOfTask, At
<1>2. CASE StartService \/ Signal
  BY <1>1, <1>2 DEF StartService, Signal, storeVars, historyVars
<1>3. CASE \/ Finalize \/ AbandonCycle \/ Crash
           \/ \E s \in Slot : CrashOnce(s)
  BY <1>3, KillAlerts DEF Finalize, AbandonCycle, Crash, CrashOnce, Exit,
     storeVars, historyVars
<1>4. ASSUME NEW s \in Slot, StartCycle(s) \/ StartOnce(s)
      PROVE  AlertInv'
  BY <1>4, StartAlerts DEF StartCycle, StartOnce, storeVars, historyVars
<1>5. ASSUME NEW s \in Slot, NEW n \in Nip,
             \/ \E i \in Invoice : TakeEntry(s, n, i)
             \/ WriteInvoice(s, n) \/ WriteFails(s, n) \/ SyncDone(s, n)
      PROVE  AlertInv'
  <2> DEFINE t == run[s].task[n]
  <2>1. UNCHANGED <<marked, refused, mail>> /\ At(s, n, "sync")
    BY <1>5 DEF TakeEntry, WriteInvoice, WriteFails, SyncDone, storeVars, historyVars
  <2>2. t \in Task /\ t.items \in SUBSET Invoice /\ t.pc = "sync"
    BY <2>1 DEF TypeOK, Run, Task, At
  <2>3. ASSUME NEW i \in Invoice, TakeEntry(s, n, i)
        PROVE  AlertInv'
    <3>1. [t EXCEPT !.cur = i] \in Task /\ [t EXCEPT !.cur = i].pc = "sync"
      BY <2>2 DEF Task, Maybe
    <3>2. QED
      BY <2>1, <2>3, <3>1, SyncStep DEF TakeEntry
  <2>4. CASE WriteInvoice(s, n)
    <3>1. t.cur \in Invoice
      BY <2>2, <2>4 DEF WriteInvoice, Task, Maybe
    <3>2. /\ [t EXCEPT !.cur = None, !.items = @ \cup {t.cur}] \in Task
          /\ [t EXCEPT !.cur = None, !.items = @ \cup {t.cur}].pc = "sync"
      BY <2>2, <3>1 DEF Task, Maybe
    <3>3. QED
      BY <2>1, <2>4, <3>2, SyncStep DEF WriteInvoice
  <2>5. CASE WriteFails(s, n)
    <3>1. [t EXCEPT !.cur = None] \in Task /\ [t EXCEPT !.cur = None].pc = "sync"
      BY <2>2 DEF Task, Maybe
    <3>2. QED
      BY <2>1, <2>5, <3>1, SyncStep DEF WriteFails
  <2>6. CASE SyncDone(s, n) /\ run[s].mode = "watch"
    <3>1. [t EXCEPT !.pc = "notify"] \in Task /\ [t EXCEPT !.pc = "notify"].pc = "notify"
      BY <2>2 DEF Task
    <3>2. QED
      BY <2>1, <2>6, <3>1, SyncStep DEF SyncDone
  <2>7. CASE SyncDone(s, n) /\ run[s].mode # "watch"
    <3>1. Done(s, n) /\ mail' = mail /\ ~At(s, n, "notify")
      BY <2>2, <2>7 DEF SyncDone, At
    <3>2. marked \subseteq marked' /\ refused \subseteq refused'
      BY <2>1
    <3>3. QED
      BY <2>7, <3>1, <3>2, DoneAlerts
  <2>8. QED
    BY <1>5, <2>3, <2>4, <2>5, <2>6, <2>7
<1>6. ASSUME NEW s \in Slot, NEW n \in Nip,
             TaskThrows(s, n) \/ NotifyNip(s, n) \/ NotifyNipThrows(s, n)
      PROVE  AlertInv'
  BY <1>6, ThrowAlerts, OpenAlerts DEF NotifyNip
<1>7. ASSUME NEW s \in Slot, NotifyAll(s)
      PROVE  AlertInv'
  BY <1>7, OpenAlerts DEF NotifyAll
<1>8. ASSUME NEW p \in Profile, SendMail(p) \/ MailFails(p)
      PROVE  AlertInv'
  <2>1. mail \in Mail /\ mail # None
    BY <1>8 DEF TypeOK, SendMail, MailFails, Maybe
  <2>2. /\ mail'.slot = mail.slot /\ mail'.nip = mail.nip
        /\ mail'.pending = mail.pending /\ UNCHANGED <<run, marked, refused>>
    BY <1>8, <2>1 DEF SendMail, MailFails, storeVars, historyVars, Mail
  <2>3. QED
    BY <2>1, <2>2 DEF AlertInv, DoneIsAlerted, MailOfTask, At
<1>9. CASE Backfill \/ \E i \in Invoice : Age(i)
  BY <1>9, QuietStep DEF Backfill, Age, historyVars
<1>10. CASE UNCHANGED vars
  BY <1>1, <1>10 DEF vars, storeVars, historyVars
<1>11. QED
  BY <1>2, <1>3, <1>4, <1>5, <1>6, <1>7, <1>8, <1>9, <1>10, CloseAlerts,
     EndAlerts, StepCases

(* When an organization of a watch cycle is done, every invoice the cycle  *)
(* stored for it has its marker, or its mail was refused: nothing that     *)
(* happens to the cycle later can lose an alert.  Inductive with what the  *)
(* organization that notifies still has to alert about (MailOfTask).       *)
THEOREM AlertedBeforeDone == Spec => []DoneIsAlerted
<1>1. Init => AlertInv
  BY DEF Init, AlertInv, DoneIsAlerted, MailOfTask, IdleRun
<1>2. TypeOK /\ AlertInv /\ [Next]_vars => AlertInv'
  BY AlertStep
<1>3. AlertInv => DoneIsAlerted
  BY DEF AlertInv
<1>4. QED
  BY <1>1, <1>2, <1>3, Typing, PTL DEF Spec

-----------------------------------------------------------------------------
(* The limiter.  An item starts when fewer items than there are free       *)
(* places wait before it, so that the number waiting before it tells the   *)
(* items that start apart.                                                 *)

LEMMA NipsAreFinite ==
  ASSUME NEW S \in SUBSET Nip
  PROVE  IsFiniteSet(S) /\ Cardinality(S) \in Nat
<1>1. IsFiniteSet(Nip)
  BY CycleAssumption, FS_Interval DEF Nip
<1>2. IsFiniteSet(S)
  BY <1>1, FS_Subset
<1> QED
  BY <1>2, FS_CardinalityType

LEMMA FirstOfWaiting ==
  ASSUME NEW W \in SUBSET Nip, NEW free \in Nat
  PROVE  Cardinality({n \in W : Cardinality({k \in W : k < n}) < free}) <= free
<1> DEFINE before(n) == {k \in W : k < n}
           first == {n \in W : Cardinality(before(n)) < free}
           place == [n \in first |-> Cardinality(before(n))]
<1>1. /\ first \in SUBSET Nip
      /\ \A n \in Nip : before(n) \in SUBSET Nip /\ Cardinality(before(n)) \in Nat
  <2>1. ASSUME NEW n \in Nip PROVE before(n) \in SUBSET Nip
    OBVIOUS
  <2> HIDE DEF before
  <2> QED
    BY <2>1, NipsAreFinite
<1>2. ASSUME NEW n \in first, NEW m \in first, n < m
      PROVE  Cardinality(before(n)) < Cardinality(before(m))
  <2>1. n \in W /\ m \in W /\ n \in Int /\ m \in Int
    BY CycleAssumption DEF Nip
  <2>2. n \notin before(n) /\ (before(n) \cup {n}) \in SUBSET before(m)
    <3>1. n \notin before(n)
      BY <2>1
    <3>2. ASSUME NEW k \in before(n) PROVE k \in before(m)
      <4>1. k \in W /\ k \in Int /\ k < n
        BY CycleAssumption DEF Nip
      <4> QED
        BY <1>2, <2>1, <4>1
    <3>3. n \in before(m)
      BY <1>2, <2>1
    <3> QED
      BY <3>1, <3>2, <3>3
  <2>3. IsFiniteSet(before(n)) /\ IsFiniteSet(before(m))
    BY <1>1, <2>1, NipsAreFinite
  <2> HIDE DEF before
  <2>4. Cardinality(before(n) \cup {n}) = Cardinality(before(n)) + 1
    BY <2>2, <2>3, FS_AddElement
  <2>5. Cardinality(before(n) \cup {n}) <= Cardinality(before(m))
    BY <2>2, <2>3, FS_Subset
  <2>6. Cardinality(before(n)) \in Nat /\ Cardinality(before(m)) \in Nat
    BY <1>1, <2>1
  <2> QED
    BY <2>4, <2>5, <2>6
<1>3. IsFiniteSet(first) /\ Cardinality(first) \in Nat
  BY <1>1, NipsAreFinite
<1>4. IsFiniteSet(0 .. free - 1) /\ Cardinality(0 .. free - 1) = free
  <2>1. 0 \in Int /\ free - 1 \in Int
    OBVIOUS
  <2> QED
    BY <2>1, FS_Interval
<1>5. place \in [first -> 0 .. free - 1]
  <2>1. ASSUME NEW n \in first PROVE Cardinality(before(n)) \in 0 .. free - 1
    <3>1. Cardinality(before(n)) \in Nat /\ Cardinality(before(n)) < free
      BY <1>1
    <3> HIDE DEF before
    <3> QED
      BY <3>1
  <2> HIDE DEF before, first
  <2> QED
    BY <2>1
<1>6. ASSUME NEW n \in first, NEW m \in first, n # m PROVE place[n] # place[m]
  <2>1. n \in Int /\ m \in Int /\ (n < m \/ m < n)
    BY <1>6, CycleAssumption DEF Nip
  <2>2. Cardinality(before(n)) \in Nat /\ Cardinality(before(m)) \in Nat
    BY <1>1
  <2>3. Cardinality(before(n)) # Cardinality(before(m))
    <3> HIDE DEF before, first
    <3> QED BY <1>2, <2>1, <2>2
  <2> HIDE DEF before, first
  <2> QED
    BY <2>3
<1>7. ~(free < Cardinality(first))
  <2> HIDE DEF first, place
  <2> QED
    BY <1>3, <1>4, <1>5, <1>6, FS_PigeonHole
<1> HIDE DEF first
<1>8. Cardinality(first) <= free
  BY <1>3, <1>7
<1> QED
  BY <1>8 DEF first

Limited(t) == Cardinality(Active(t)) <= MaxConcurrent

LEMMA FewerIsLimited ==
  ASSUME NEW t, NEW u, Limited(t), Active(u) \subseteq Active(t)
  PROVE  Limited(u)
<1>1. Active(t) \in SUBSET Nip /\ Active(u) \in SUBSET Active(t)
  BY DEF Active
<1>2. Active(u) \in SUBSET Nip
  BY <1>1
<1>3. IsFiniteSet(Active(t)) /\ Cardinality(Active(t)) \in Nat /\ Cardinality(Active(u)) \in Nat
  BY <1>1, <1>2, NipsAreFinite
<1>4. Cardinality(Active(u)) <= Cardinality(Active(t))
  BY <1>1, <1>3, FS_Subset
<1> QED
  BY <1>3, <1>4, CycleAssumption DEF Limited

LEMMA NoneIsLimited ==
  ASSUME NEW t, Active(t) = {} PROVE Limited(t)
BY FS_EmptySet, CycleAssumption DEF Limited

LEMMA LaunchLimited ==
  ASSUME NEW t \in [Nip -> Task], Limited(t)
  PROVE  Limited(Launch(t))
<1> DEFINE A == Active(t)
           W == Waiting(t)
           free == MaxConcurrent - Cardinality(A)
           go == {n \in W : Cardinality({k \in W : k < n}) < free}
<1>1. A \in SUBSET Nip /\ W \in SUBSET Nip /\ go \in SUBSET Nip
  BY DEF Active, Waiting
<1>2. IsFiniteSet(A) /\ Cardinality(A) \in Nat /\ IsFiniteSet(go) /\ Cardinality(go) \in Nat
  <2> HIDE DEF A, go
  <2> QED BY <1>1, NipsAreFinite
<1>3. free \in Nat
  <2>1. Cardinality(A) <= MaxConcurrent
    BY DEF Limited
  <2> HIDE DEF A
  <2> QED
    BY <1>2, <2>1, CycleAssumption
<1>4. Cardinality(go) <= free
  <2> HIDE DEF W, free
  <2> QED BY <1>1, <1>3, FirstOfWaiting
<1>5. Active(Launch(t)) = A \cup go
  <2>1. \A n \in Nip : Launch(t)[n] = IF n \in go THEN [t[n] EXCEPT !.pc = "sync"] ELSE t[n]
    BY DEF Launch
  <2>2. \A n \in Nip : t[n] \in Task
    OBVIOUS
  <2>3. \A n \in Nip : Launch(t)[n].pc = IF n \in go THEN "sync" ELSE t[n].pc
    <3> HIDE DEF go
    <3> QED BY <2>1, <2>2 DEF Task
  <2> HIDE DEF go
  <2> QED
    BY <1>1, <2>3 DEF Active
<1>6. A \cap go = {}
  BY DEF Active, Waiting
<1>7. Cardinality(A \cup go) = Cardinality(A) + Cardinality(go)
  <2> HIDE DEF A, go
  <2>1. Cardinality({}) = 0
    BY FS_EmptySet
  <2>2. Cardinality(A \cup go) = Cardinality(A) + Cardinality(go) - Cardinality(A \cap go)
    BY <1>2, FS_Union
  <2>3. Cardinality(A \cap go) = Cardinality({})
    BY <1>6
  <2> QED
    BY <1>2, <2>1, <2>2, <2>3
<1>8. Cardinality(A \cup go) <= MaxConcurrent
  <2> HIDE DEF A, go
  <2> QED BY <1>2, <1>3, <1>4, <1>7, CycleAssumption
<1> QED
  BY <1>5, <1>8 DEF Limited

(* What the limiter keeps of one call.                                     *)
CallInv(r) ==
  /\ Limited(r.task)
  /\ r.stage \in {"success", "final"} => \A n \in Nip : r.task[n].pc = "done"

LEMMA MovesOn ==
  ASSUME NEW r, NEW q, CallInv(r), Active(q.task) \subseteq Active(r.task),
         q.stage \in {"success", "final"} =>
           r.stage \in {"success", "final"} /\ \A n \in Nip : r.task[n].pc = "done" => q.task[n].pc = "done"
  PROVE  CallInv(q)
BY FewerIsLimited DEF CallInv

LEMMA IdleCall == CallInv(IdleRun)
<1>1. Active(IdleRun.task) = {}
  BY DEF Active, IdleRun, NewTask
<1> QED
  BY <1>1, NoneIsLimited DEF CallInv, IdleRun

LEMMA NormalCall ==
  ASSUME NEW r, CallInv(r) PROVE CallInv(Normal(r))
BY IdleCall DEF Normal

LEMMA ResolveCall ==
  ASSUME NEW r \in Run, CallInv(r) PROVE CallInv(Resolve(r))
<1> DEFINE t == Launch(r.task)
           g == IF \A n \in Nip : t[n].pc = "done" THEN "success" ELSE "tasks"
<1>1. Resolve(r) = IF r.stage # "tasks" THEN Normal(r)
                   ELSE [r EXCEPT !.task = t, !.stage = g]
  BY DEF Resolve
<1>2. r.task \in [Nip -> Task] /\ Limited(t)
  BY LaunchLimited DEF Run, CallInv
<1>3. g \in {"success", "final"} => \A n \in Nip : t[n].pc = "done"
  OBVIOUS
<1> HIDE DEF t, g
<1>4. CallInv([r EXCEPT !.task = t, !.stage = g])
  BY <1>2, <1>3 DEF CallInv, Run
<1> QED
  BY <1>1, <1>4, NormalCall

CallsInv == \A s \in Slot : CallInv(run[s])

LEMMA OneCall ==
  ASSUME RunType, CallsInv, NEW s \in Slot, NEW q, CallInv(q), run' = [run EXCEPT ![s] = q]
  PROVE  CallsInv'
<1>1. \A z \in Slot : run'[z] = IF z = s THEN q ELSE run[z]
  BY DEF RunType
<1> QED
  BY <1>1 DEF CallsInv

LEMMA SetTaskCall ==
  ASSUME RunType, CallsInv, NEW s \in Slot, NEW n \in Nip, NEW t \in Task,
         At(s, n, "sync"), t.pc \in {"sync", "notify"}, SetTask(s, n, t)
  PROVE  CallsInv'
<1> DEFINE q == [run[s] EXCEPT !.task[n] = t]
<1>1. run[s] \in Run /\ CallInv(run[s])
  BY DEF RunType, CallsInv
<1>2. q.stage = run[s].stage /\ \A k \in Nip : q.task[k] = IF k = n THEN t ELSE run[s].task[k]
  BY <1>1 DEF Run
<1>3. run' = [run EXCEPT ![s] = q]
  BY DEF SetTask
<1>4. run[s].stage \notin {"success", "final"}
  BY <1>1 DEF CallInv, At
<1> HIDE DEF q
<1>5. Active(q.task) \subseteq Active(run[s].task)
  BY <1>2 DEF Active, At
<1>6. CallInv(q)
  BY <1>1, <1>2, <1>4, <1>5, MovesOn
<1> QED
  BY <1>3, <1>6, OneCall

(* A call one of whose tasks has ended.                                    *)
LEMMA EndedCall ==
  ASSUME NEW r \in Run, CallInv(r), NEW n \in Nip, NEW l \in {"done", "failed"},
         l = "failed" => r.task[n].pc # "done"
  PROVE  CallInv([r EXCEPT !.task[n].pc = l])
<1> DEFINE q == [r EXCEPT !.task[n].pc = l]
<1>1. /\ \A k \in Nip \ {n} : q.task[k] = r.task[k]
      /\ q.task[n].pc = l
  BY PcOf
<1>2. q.stage = r.stage
  BY DEF Run
<1> HIDE DEF q
<1>3. Active(q.task) \subseteq Active(r.task)
  BY <1>1 DEF Active
<1>4. ASSUME q.stage \in {"success", "final"}
      PROVE  \A k \in Nip : q.task[k].pc = "done"
  <2>1. \A k \in Nip : r.task[k].pc = "done"
    BY <1>2, <1>4 DEF CallInv
  <2> QED
    BY <1>1, <2>1
<1>5. CallInv(q)
  BY <1>2, <1>3, <1>4, MovesOn
<1> QED
  BY <1>5 DEF q

LEMMA DoneCall ==
  ASSUME RunType, CallsInv, NEW s \in Slot, NEW n \in Nip, Done(s, n)
  PROVE  CallsInv'
<1>1. run[s] \in Run /\ CallInv(run[s])
  BY DEF RunType, CallsInv
<1>2. [run[s] EXCEPT !.task[n].pc = "done"] \in Run
  BY <1>1, WithPc
<1>3. CallInv([run[s] EXCEPT !.task[n].pc = "done"])
  BY <1>1, EndedCall
<1>4. CallInv(Resolve([run[s] EXCEPT !.task[n].pc = "done"]))
  BY <1>2, <1>3, ResolveCall
<1> QED
  BY <1>4, OneCall DEF Done

(* The stage of a call changes, not to a success.                          *)
LEMMA StageCall ==
  ASSUME NEW r \in Run, CallInv(r), NEW g \in {"failure", "settled", r.stage}
  PROVE  CallInv([r EXCEPT !.stage = g])
<1>1. [r EXCEPT !.stage = g].stage = g /\ [r EXCEPT !.stage = g].task = r.task
  BY DEF Run
<1> QED
  BY <1>1 DEF CallInv

LEMMA ThrowCall ==
  ASSUME TypeOK, CallsInv, NEW s \in Slot, NEW n \in Nip,
         TaskThrows(s, n) \/ NotifyNipThrows(s, n)
  PROVE  CallsInv'
<1> DEFINE d == [run[s] EXCEPT !.task[n].pc = "failed"]
           g == IF d.stage = "tasks" THEN "failure" ELSE d.stage
<1>1. run[s] \in Run /\ CallInv(run[s]) /\ RunType
  BY DEF TypeOK, RunType, CallsInv
<1>2. d \in Run
  BY <1>1, WithPc
<1>3. run[s].task[n].pc # "done"
  BY DEF TaskThrows, NotifyNipThrows, Active, At
<1>4. CallInv(d)
  BY <1>1, <1>3, EndedCall
<1>5. run' = [run EXCEPT ![s] = Reject(d)] /\ Reject(d) = Normal([d EXCEPT !.stage = g])
  BY DEF TaskThrows, NotifyNipThrows, Failed, Reject
<1>6. g \in {"failure", "settled", d.stage}
  OBVIOUS
<1> HIDE DEF d, g
<1>7. CallInv(Reject(d))
  BY <1>2, <1>4, <1>5, <1>6, StageCall, NormalCall
<1> QED
  BY <1>1, <1>5, <1>7, OneCall

LEMMA SettleCall ==
  ASSUME RunType, CallsInv, NEW s \in Slot, Settle(s)
  PROVE  CallsInv'
<1>1. run[s] \in Run /\ CallInv(run[s])
  BY DEF RunType, CallsInv
<1>2. CallInv(Normal([run[s] EXCEPT !.stage = "settled"]))
  BY <1>1, StageCall, NormalCall
<1> QED
  BY <1>2, OneCall DEF Settle

LEMMA ServiceCalls ==
  ASSUME TypeOK, CallsInv,
         \/ StartService \/ Signal \/ Finalize \/ AbandonCycle \/ Crash
         \/ \E s \in Slot : StartCycle(s) \/ StartOnce(s) \/ CrashOnce(s)
  PROVE  CallsInv'
<1>1. RunType
  BY DEF TypeOK, RunType
<1>2. CASE StartService \/ Signal
  BY <1>2 DEF StartService, Signal, CallsInv
<1>3. ASSUME NEW S, Kill(S) PROVE CallsInv'
  <2>1. \A s \in Slot : run'[s] \in {IdleRun, run[s]}
    BY <1>3 DEF Kill
  <2> QED
    BY <2>1, IdleCall DEF CallsInv
<1>4. ASSUME NEW s \in Slot, NEW m, StartRun(s, m) PROVE CallsInv'
  <2> DEFINE t == Launch(IdleRun.task)
  <2>1. IdleRun.task \in [Nip -> Task] /\ Limited(IdleRun.task)
    BY IdleRunType, IdleCall DEF Run, CallInv
  <2>2. run' = [run EXCEPT ![s] = [mode |-> m, stage |-> "tasks", task |-> t]]
    BY <1>4 DEF StartRun
  <2>3. Limited(t)
    BY <2>1, LaunchLimited
  <2> HIDE DEF t
  <2>4. CallInv([mode |-> m, stage |-> "tasks", task |-> t])
    BY <2>3 DEF CallInv
  <2> QED
    BY <1>1, <2>2, <2>4, OneCall
<1> QED
  BY <1>2, <1>3, <1>4 DEF Finalize, AbandonCycle, Crash, Exit, StartCycle, StartOnce, CrashOnce

LEMMA SyncCalls ==
  ASSUME TypeOK, CallsInv, NEW s \in Slot, NEW n \in Nip,
         \/ \E i \in Invoice : TakeEntry(s, n, i)
         \/ WriteInvoice(s, n) \/ WriteFails(s, n) \/ SyncDone(s, n)
         \/ TaskThrows(s, n) \/ NotifyNip(s, n) \/ NotifyNipThrows(s, n)
  PROVE  CallsInv'
<1> DEFINE t == run[s].task[n]
<1>1. run[s] \in Run /\ t \in Task /\ t.cur \in Maybe(Invoice) /\ t.items \in SUBSET Invoice
      /\ RunType
  BY DEF TypeOK, RunType, Run, Task
<1>2. ASSUME NEW i \in Invoice, TakeEntry(s, n, i) PROVE CallsInv'
  <2>1. [t EXCEPT !.cur = i] \in Task /\ [t EXCEPT !.cur = i].pc = t.pc
    BY <1>1 DEF Task, Maybe
  <2> QED
    BY <1>1, <1>2, <2>1, SetTaskCall DEF TakeEntry, At
<1>3. CASE WriteInvoice(s, n)
  <2>1. t.cur \in Invoice
    BY <1>1, <1>3 DEF WriteInvoice, Maybe
  <2>2. /\ [t EXCEPT !.cur = None, !.items = @ \cup {t.cur}] \in Task
        /\ [t EXCEPT !.cur = None, !.items = @ \cup {t.cur}].pc = t.pc
    BY <1>1, <2>1 DEF Task, Maybe
  <2> QED
    BY <1>1, <1>3, <2>2, SetTaskCall DEF WriteInvoice, At
<1>4. CASE WriteFails(s, n)
  <2>1. [t EXCEPT !.cur = None] \in Task /\ [t EXCEPT !.cur = None].pc = t.pc
    BY <1>1 DEF Task, Maybe
  <2> QED
    BY <1>1, <1>4, <2>1, SetTaskCall DEF WriteFails, At
<1>5. CASE SyncDone(s, n)
  <2>1. [t EXCEPT !.pc = "notify"] \in Task /\ [t EXCEPT !.pc = "notify"].pc = "notify"
    BY <1>1 DEF Task
  <2> QED
    BY <1>1, <1>5, <2>1, SetTaskCall, DoneCall DEF SyncDone
<1>6. CASE NotifyNip(s, n)
  BY <1>6 DEF NotifyNip, OpenMail, CallsInv
<1> QED
  BY <1>2, <1>3, <1>4, <1>5, <1>6, ThrowCall

LEMMA EndCalls ==
  ASSUME TypeOK, CallsInv, NEW s \in Slot,
         \/ NotifyAll(s) \/ NotifyAllThrows(s) \/ RecordOutcome(s)
         \/ RecordOutcomeThrows(s) \/ RecordFailure(s) \/ RecordFailureThrows(s)
  PROVE  CallsInv'
<1>1. run[s] \in Run /\ CallInv(run[s]) /\ RunType
  BY DEF TypeOK, RunType, CallsInv
<1>2. CASE NotifyAll(s)
  BY <1>2 DEF NotifyAll, OpenMail, CallsInv
<1>3. CASE RecordOutcome(s)
  <2>1. [run[s] EXCEPT !.stage = "final"].task = run[s].task
    BY <1>1 DEF Run
  <2>2. CallInv([run[s] EXCEPT !.stage = "final"])
    BY <1>1, <1>3, <2>1 DEF RecordOutcome, CallInv
  <2> QED
    BY <1>1, <1>3, <2>2, OneCall DEF RecordOutcome
<1>4. CASE RecordOutcomeThrows(s)
  <2>1. CallInv([run[s] EXCEPT !.stage = "failure"])
    BY <1>1, StageCall
  <2> QED
    BY <1>1, <1>4, <2>1, OneCall DEF RecordOutcomeThrows
<1>5. CASE Settle(s)
  BY <1>1, <1>5, SettleCall
<1> QED
  BY <1>2, <1>3, <1>4, <1>5 DEF NotifyAllThrows, RecordFailure, RecordFailureThrows

LEMMA MailCalls ==
  ASSUME TypeOK, CallsInv, CloseMail \/ \E p \in Profile : SendMail(p) \/ MailFails(p)
  PROVE  CallsInv'
<1>1. CASE \E p \in Profile : SendMail(p) \/ MailFails(p)
  BY <1>1 DEF SendMail, MailFails, CallsInv
<1>2. CASE CloseMail
  <2>1. mail.slot \in Slot /\ mail.nip \in Nip \cup {Final} /\ RunType
    BY <1>2 DEF CloseMail, TypeOK, RunType, Maybe, Mail
  <2> QED
    BY <1>2, <2>1, SettleCall, DoneCall DEF CloseMail
<1> QED
  BY <1>1, <1>2

(* The limiter never runs more organizations of a call at a time than      *)
(* sync.maxConcurrentNips, for any number of organizations, and a call     *)
(* never ends as a success while one of its tasks runs, waits or has       *)
(* failed (concurrency.ts:32-63).                                          *)
THEOREM LimiterIsSound == Spec => []TasksAreLimited
<1>1. Init => CallsInv
  BY IdleCall DEF Init, CallsInv
<1>2. TypeOK /\ CallsInv /\ [Next]_vars => CallsInv'
  <2>1. CASE UNCHANGED vars
    BY <2>1 DEF vars, CallsInv
  <2>2. ASSUME TypeOK, CallsInv, Backfill \/ \E i \in Invoice : Age(i)
        PROVE  CallsInv'
    BY <2>2 DEF Backfill, Age, CallsInv
  <2> QED
    BY <2>1, <2>2, StepCases, ServiceCalls, SyncCalls, EndCalls, MailCalls
<1>3. CallsInv => TasksAreLimited
  BY DEF CallsInv, CallInv, Limited, TasksAreLimited, At
<1> QED
  BY <1>1, <1>2, <1>3, Typing, PTL DEF Spec
=============================================================================
