---------------------------- MODULE MCKsefRequests ----------------------------
(* Small instances of KsefRequests: one task that logs in and exports next *)
(* to one that downloads an invoice.                                       *)
EXTENDS KsefRequests

CONSTANTS t1, t2

Both  == {t1, t2}
Roles == [t \in Both |-> IF t = t1 THEN {"login", "export"} ELSE {"xml"}]
=============================================================================
