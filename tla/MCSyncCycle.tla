----------------------------- MODULE MCSyncCycle -----------------------------
(* Small instances of SyncCycle: three organizations of one account, an    *)
(* unpaid invoice of the second one; two organizations with an account and *)
(* an unpaid invoice each.                                                 *)
EXTENDS SyncCycle, TLC

CONSTANTS i1, i2, p1, p2

SecondOwner == i1 :> 2
OneAccount  == [n \in Nip |-> p1]

OwnerOfEach   == i1 :> 1 @@ i2 :> 2
AccountOfEach == <<p1, p2>>

Symmetry == Permutations(Slot)
=============================================================================
