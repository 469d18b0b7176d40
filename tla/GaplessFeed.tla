----------------------------- MODULE GaplessFeed -----------------------------
(***************************************************************************)
(* What the incremental download of one (NIP, subject type) pair promises, *)
(* without runs, windows, packages or failures: a feed of dated invoices   *)
(* and a cursor that is only ever moved to a date before which everything  *)
(* (from the start of the covered range) is stored and nothing will be     *)
(* committed any more.  SubjectSync implements it.                         *)
(***************************************************************************)
EXTENDS Integers

CONSTANTS Invoice, None, MaxTime

VARIABLES
  date,    \* commit date of each invoice, None before
  final,   \* nothing will be committed at or before this date
  stored,  \* the invoices on disk
  cursor, base

vars == <<date, final, stored, cursor, base>>

Time == 0..MaxTime

Init ==
  /\ date = [i \in Invoice |-> None]
  /\ final = 0 /\ stored = {} /\ cursor = None /\ base = 0

Commit(i) ==
  /\ date[i] = None
  /\ \E d \in Time : d > final /\ date' = [date EXCEPT ![i] = d]
  /\ UNCHANGED <<final, stored, cursor, base>>

Finalize ==
  /\ \E f \in Time : f > final /\ final' = f
  /\ UNCHANGED <<date, stored, cursor, base>>

Store(i) ==
  /\ date[i] # None
  /\ stored' = stored \cup {i}
  /\ UNCHANGED <<date, final, cursor, base>>

MoveCursor(from, to) ==
  /\ \A i \in Invoice : date[i] # None /\ from <= date[i] /\ date[i] < to => i \in stored
  /\ to <= final \/ to <= from
  /\ cursor' = to /\ base' = from
  /\ UNCHANGED <<date, final, stored>>

Next ==
  \/ Finalize
  \/ \E i \in Invoice : Commit(i) \/ Store(i)
  \/ \E from, to \in Time : MoveCursor(from, to)

Spec == Init /\ [][Next]_vars

=============================================================================
