---------------------------- MODULE MCWatchLoop ------------------------------
(* Small instances of WatchLoop: the factors of its configurations.        *)
EXTENDS WatchLoop

Doubling   == <<2, 1>>
FourFifths == <<4, 5>>
=============================================================================
