---------------------------- MODULE MCInvoiceFiles ----------------------------
(* Two invoices that would have the same name in the flat layout.          *)
EXTENDS InvoiceFiles, TLC

CONSTANTS b1

SameName == [i \in Invoice |-> b1]

Symmetry == Permutations(Proc) \cup Permutations(Invoice)
=============================================================================
