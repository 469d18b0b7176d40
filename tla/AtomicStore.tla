----------------------------- MODULE AtomicStore -----------------------------
(***************************************************************************)
(* What state.sqlite promises to its callers: every update is applied      *)
(* atomically and for good, and before its call ends or not at all.  The   *)
(* caller that is told of success can rely on it, the caller of a rejected *)
(* update on nothing having changed; a doubtful call has failed without a  *)
(* word about its update, and a caller that dies is told nothing.          *)
(* StateStore implements it.                                               *)
(***************************************************************************)
EXTENDS FiniteSets

CONSTANT Call

VARIABLES
  content,    \* the updates the database holds
  accepted,   \* the calls that returned
  rejected,   \* the calls that threw an error of their own
  doubtful    \* the calls that threw whether they are stored or not

vars == <<content, accepted, rejected, doubtful>>

Init == content = {} /\ accepted = {} /\ rejected = {} /\ doubtful = {}

Over(c) == c \in accepted \cup rejected \cup doubtful

Apply(c) ==
  /\ c \notin content /\ ~Over(c)
  /\ content' = content \cup {c}
  /\ UNCHANGED <<accepted, rejected, doubtful>>

Accept(c) ==
  /\ c \in content /\ ~Over(c)
  /\ accepted' = accepted \cup {c}
  /\ UNCHANGED <<content, rejected, doubtful>>

Reject(c) ==
  /\ c \notin content /\ ~Over(c)
  /\ rejected' = rejected \cup {c}
  /\ UNCHANGED <<content, accepted, doubtful>>

Doubt(c) ==
  /\ ~Over(c)
  /\ doubtful' = doubtful \cup {c}
  /\ UNCHANGED <<content, accepted, rejected>>

Next == \E c \in Call : Apply(c) \/ Accept(c) \/ Reject(c) \/ Doubt(c)

Spec == Init /\ [][Next]_vars

=============================================================================
