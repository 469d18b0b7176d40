------------------------------ MODULE MCSession -------------------------------
(* Small instances of Session: the accounts of the prod environment.       *)
EXTENDS Session

CONSTANTS prod, production

Environments == {prod, production}
prodAliases  == <<production>>
=============================================================================
