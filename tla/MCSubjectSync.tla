---------------------------- MODULE MCSubjectSync ----------------------------
(***************************************************************************)
(* Small instances of SubjectSync: which command lines the runs are        *)
(* started with, by name, for the configurations.                          *)
(***************************************************************************)
EXTENDS SubjectSync, TLC

JobOf(floor, window, all, export, forced) ==
  [floor |-> floor, window |-> window, all |-> all, export |-> export,
   forced |-> forced]

Regular      == JobOf(None, None, FALSE, FALSE, None)
Floored(t)   == JobOf(t, None, FALSE, FALSE, None)
RedownloadAll == JobOf(None, None, TRUE, FALSE, None)
RedownloadFrom(t) == JobOf(t, None, TRUE, FALSE, None)
Forced(i)    == JobOf(None, None, FALSE, FALSE, i)
Windowed(all, s, e) == JobOf(None, <<s, e>>, all, FALSE, None)
Exported(all) == JobOf(None, None, all, TRUE, None)

FlooredJobs == {Floored(0)}
LonelyJobs ==
  {Regular, RedownloadAll, RedownloadFrom(2), Floored(2), Exported(FALSE), Exported(TRUE),
   Windowed(FALSE, 0, 2)} \cup {Forced(i) : i \in Invoice}
SharedJobs == {Regular, RedownloadAll, Windowed(FALSE, 0, MaxTime)}
PairedJobs == {Regular, RedownloadAll}

Symmetry == Permutations(Invoice)
PairSymmetry == Permutations(Invoice) \cup Permutations(Proc)
=============================================================================
