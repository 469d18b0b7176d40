-------------------------- MODULE KsefRequestsProofs --------------------------
(* Proofs about KsefRequests, for any number of tasks, attempts, polls and *)
(* parts, and any delays.                                                  *)
EXTENDS KsefRequests, TLAPS

(* What a download has assembled: the parts before those still to come.    *)
Assembled(c) ==
  /\ \A i \in 1..Len(c.data) : /\ c.data[i].ordinal = i
                               /\ c.data[i].hashed => c.data[i].intact
  /\ \A i \in 1..Len(c.parts) : c.parts[i].ordinal = Len(c.data) + i
  /\ Len(c.data) + Len(c.parts) = c.listed

(* Attempts and polls are left where one may follow; what KSeF has asked   *)
(* for is waited for.                                                      *)
Paced(c) ==
  /\ c.attempt \in 0..MaxAttempts /\ c.polls \in 0..MaxPolls
  /\ c.phase \in {"send", "retry"} => c.attempt < MaxAttempts
  /\ c.phase \notin {"give up", "done", "failed"} => c.polls < MaxPolls
  /\ c.phase = "retry" => c.asked <= c.wait
  /\ c.phase # "retry" => c.asked = 0
  /\ c.phase = "poll" => c.step = "status"

(* The parts belong to the last step of an export.                         *)
Ended(c) == c.phase = "done" \/ c.phase = "failed"

Staged(c) ==
  /\ c.step # "part" /\ ~Ended(c) => c.data = <<>> /\ c.parts = <<>> /\ c.listed = 0
  /\ c.step = "part" /\ ~Ended(c) => c.parts # <<>>
  /\ c.phase = "done" => c.parts = <<>>

ConvInv(c) == c \in Conversation /\ Paced(c) /\ Staged(c) /\ Assembled(c)

Inv ==
  /\ task \in [Task -> Conversation \cup {None}]
  /\ \A t \in Task : task[t] # None => ConvInv(task[t])
  /\ deadline \in Nat /\ told \in Nat /\ cached \in BOOLEAN
  /\ told <= deadline

-----------------------------------------------------------------------------

LEMMA Bounds == MaxAttempts \in Nat /\ MaxAttempts >= 1 /\ MaxPolls \in Nat /\ MaxPolls >= 1
                /\ Parts \in Nat /\ TimerLimit \in Nat /\ MaxDelay \in Nat /\ RetryAfter \subseteq Nat
                /\ None \notin Nat /\ PollInterval \in Nat
BY RequestsAssumption

LEMMA DelayIsNat ==
  ASSUME NEW r \in RetryAfter \cup {None}, NEW a, NEW d \in Delay(r, a)
  PROVE  /\ d \in Nat /\ Asked(r) \in Nat /\ Asked(r) <= d
         /\ r # None => r = d /\ r \in Nat
<1>1. \A e \in calculateBackoff(a) : e \in Nat
  BY Bounds DEF calculateBackoff
<1> QED
  BY <1>1, Bounds DEF Delay, Asked

LEMMA SleepIsNat == \A d \in Nat : sleep(d) \in Nat /\ \A e \in Nat : e <= d /\ (e = d \/ e = 0) => sleep(e) <= sleep(d)
BY Bounds DEF sleep

LEMMA BackoffIsNat == \A a : \A d \in calculateBackoff(a) : d \in Nat /\ sleep(d) \in Nat
BY Bounds DEF calculateBackoff, sleep

(* A step of t that puts a sound conversation in its place.                *)
LEMMA GotoInv ==
  ASSUME Inv, NEW t \in Task, NEW c, Goto(t, c), ConvInv(c),
         deadline' \in Nat, told' \in Nat, cached' \in BOOLEAN, told' <= deadline'
  PROVE  Inv'
<1>1. c \in Conversation
  BY DEF ConvInv
<1>2. task' = [task EXCEPT ![t] = c]
  BY DEF Goto
<1>3. task' \in [Task -> Conversation \cup {None}]
  BY <1>1, <1>2 DEF Inv
<1>4. ASSUME NEW u \in Task, task'[u] # None PROVE ConvInv(task'[u])
  BY <1>2, <1>4 DEF Inv
<1>5. \A u \in Task : (task[u] # None => ConvInv(task[u]))'
  BY <1>4 DEF ConvInv, Paced, Staged, Assembled, Ended
<1> QED
  BY <1>3, <1>5 DEF Inv

(* A conversation that lives may wait, repeat its request or fail ...      *)
LEMMA PhaseInv ==
  ASSUME NEW c, ConvInv(c), ~Ended(c), NEW d \in Conversation,
         d.step = c.step, d.parts = c.parts, d.listed = c.listed, d.data = c.data,
         Paced(d), d.phase # "done"
  PROVE  ConvInv(d)
BY DEF ConvInv, Staged, Assembled, Ended

(* ... and go on to another step, or to its end, as long as no step is     *)
(* about parts.                                                            *)
LEMMA StageInv ==
  ASSUME NEW c, ConvInv(c), ~Ended(c), c.step # "part",
         NEW d \in Conversation, d.step # "part",
         d.parts = c.parts, d.listed = c.listed, d.data = c.data, Paced(d)
  PROVE  ConvInv(d)
BY DEF ConvInv, Staged, Assembled, Ended

(* The conversation of a task that is somewhere.                           *)
LEMMA AtInv ==
  ASSUME Inv, NEW t \in Task, NEW ph, At(t, ph)
  PROVE  ConvInv(task[t]) /\ task[t] \in Conversation /\ task[t].phase = ph
BY DEF Inv, At, ConvInv

LEMMA InitInv == Init => Inv
<1> SUFFICES ASSUME Init PROVE Inv
  OBVIOUS
<1>1. task \in [Task -> Conversation \cup {None}] /\ \A t \in Task : task[t] = None
  BY DEF Init
<1>2. deadline \in Nat /\ told \in Nat /\ told <= deadline
  BY DEF Init
<1>3. cached \in BOOLEAN
  BY Zenon DEF Init
<1> QED
  BY <1>1, <1>2, <1>3 DEF Inv

LEMMA TickInv == Inv /\ Tick => Inv'
<1> SUFFICES ASSUME Inv, Tick PROVE Inv'
  OBVIOUS
<1>1. \A n \in Nat : Less(n) \in Nat
  BY DEF Less
<1>2. \A m, n \in Nat : m <= n => Less(m) <= Less(n)
  BY DEF Less
<1>3. deadline' \in Nat /\ told' \in Nat /\ told' <= deadline' /\ cached' \in BOOLEAN
  BY <1>1, <1>2 DEF Inv, Tick
<1>4. ASSUME NEW t \in Task, task[t] # None
      PROVE  /\ task'[t] \in Conversation
             /\ ConvInv(task'[t])
  <2> DEFINE c == task[t]
             d == [c EXCEPT !.wait = Less(@), !.asked = Less(@)]
  <2>1. ConvInv(c) /\ c \in Conversation
    BY <1>4 DEF Inv, ConvInv
  <2>2. task'[t] = d
    BY <1>4 DEF Tick
  <2> HIDE DEF c
  <2>3. d \in Conversation
    BY <2>1, <1>1 DEF Conversation
  <2>4. /\ d.kind = c.kind /\ d.step = c.step /\ d.phase = c.phase
        /\ d.attempt = c.attempt /\ d.polls = c.polls
        /\ d.parts = c.parts /\ d.listed = c.listed /\ d.data = c.data
        /\ d.wait = Less(c.wait) /\ d.asked = Less(c.asked)
    BY <2>1 DEF Conversation
  <2>5. c.wait \in Nat /\ c.asked \in Nat
    BY <2>1 DEF Conversation
  <2> HIDE DEF d
  <2>6. Paced(d)
    <3>1. c.asked = 0 => d.asked = 0
      BY <2>4 DEF Less
    <3>2. c.asked <= c.wait => d.asked <= d.wait
      BY <2>4, <2>5, <1>2
    <3> QED
      BY <3>1, <3>2, <2>1, <2>4 DEF Paced, ConvInv
  <2>7. Staged(d) /\ Assembled(d)
    BY <2>1, <2>4 DEF ConvInv, Staged, Assembled, Ended
  <2> QED
    BY <2>2, <2>3, <2>6, <2>7 DEF ConvInv
<1>5. task' \in [Task -> Conversation \cup {None}]
  BY <1>4 DEF Tick
<1>6. \A t \in Task : (task[t] # None => ConvInv(task[t]))'
  <2> SUFFICES ASSUME NEW t \in Task, task'[t] # None PROVE ConvInv(task'[t])
    BY DEF ConvInv, Paced, Staged, Assembled, Ended
  <2>1. task[t] # None
    BY DEF Tick
  <2> QED
    BY <2>1, <1>4
<1> QED
  BY <1>3, <1>5, <1>6 DEF Inv

-----------------------------------------------------------------------------
(* The request *)

(* A request fails, or is repeated after a wait no shorter than asked for. *)
LEMMA FailOrWait ==
  ASSUME NEW c \in Conversation, ConvInv(c), ~Ended(c)
  PROVE  /\ c.phase # "retry" => ConvInv(Fail(c))
         /\ \A w \in Nat, a \in Nat : a <= w /\ MayRetry(c) /\ c.phase \in {"ask", "read"} =>
              /\ ConvInv([c EXCEPT !.phase = "retry", !.wait = w, !.asked = a])
              /\ ConvInv([c EXCEPT !.phase = "retry", !.wait = w])
<1>1. c.phase # "retry" => ConvInv(Fail(c))
  <2> SUFFICES ASSUME c.phase # "retry", NEW d, d = Fail(c) PROVE ConvInv(d)
    OBVIOUS
  <2>1. d \in Conversation
    BY DEF Conversation, Fail, Phase
  <2>2. /\ d.kind = c.kind /\ d.step = c.step /\ d.phase = "failed"
        /\ d.attempt = c.attempt /\ d.polls = c.polls /\ d.asked = c.asked
        /\ d.parts = c.parts /\ d.listed = c.listed /\ d.data = c.data
    BY DEF Conversation, Fail
  <2>3. Paced(d)
    BY <2>2 DEF Paced, ConvInv, Ended
  <2>4. d.phase # "done"
    BY <2>2
  <2> QED
    BY <2>1, <2>2, <2>3, <2>4, PhaseInv, Zenon
<1>2. ASSUME NEW w \in Nat, NEW a \in Nat, a <= w, MayRetry(c), c.phase \in {"ask", "read"},
             NEW d, \/ d = [c EXCEPT !.phase = "retry", !.wait = w, !.asked = a]
                    \/ d = [c EXCEPT !.phase = "retry", !.wait = w]
      PROVE  ConvInv(d)
  <2>1. d \in Conversation
    BY <1>2 DEF Conversation, Phase
  <2>2. c.asked = 0
    BY <1>2 DEF ConvInv, Paced
  <2>3. /\ d.kind = c.kind /\ d.step = c.step /\ d.phase = "retry"
        /\ d.attempt = c.attempt /\ d.polls = c.polls /\ d.wait = w
        /\ d.asked = a \/ d.asked = 0
        /\ d.parts = c.parts /\ d.listed = c.listed /\ d.data = c.data
    BY <1>2, <2>2 DEF Conversation
  <2>4. Paced(d)
    <3>1. d.asked <= d.wait
      BY <1>2, <2>3
    <3>2. c.polls < MaxPolls /\ c.attempt < MaxAttempts
      BY <1>2 DEF ConvInv, Paced, MayRetry
    <3> QED
      BY <2>3, <3>1, <3>2 DEF Paced, ConvInv
  <2>5. d.phase # "done"
    BY <2>3
  <2> QED
    BY <2>1, <2>3, <2>4, <2>5, PhaseInv, Zenon
<1> QED
  BY <1>1, <1>2

(* The step of t that leaves the tracker alone.                            *)
LEMMA SameInv ==
  ASSUME Inv, NEW t \in Task, NEW c, Goto(t, c), ConvInv(c),
         UNCHANGED <<deadline, told>>, cached' \in BOOLEAN
  PROVE  Inv'
<1>1. deadline' \in Nat /\ told' \in Nat /\ told' <= deadline'
  BY DEF Inv
<1> QED
  BY <1>1, GotoInv

LEMMA SendInv == ASSUME Inv, NEW t \in Task, Send(t) PROVE Inv'
<1> DEFINE c == task[t]
           n == c.attempt + 1
           d == [c EXCEPT !.phase = "ask", !.attempt = n, !.asked = 0]
<1>1. ConvInv(c) /\ c \in Conversation /\ c.phase = "send"
  BY AtInv DEF Send
<1>2. Goto(t, d) /\ UNCHANGED <<deadline, told>> /\ cached' \in BOOLEAN
  BY Zenon DEF Send, Inv
<1> HIDE DEF c
<1>3. d \in Conversation
  <2>1. c.attempt \in Nat
    BY <1>1 DEF ConvInv, Paced
  <2>2. n \in Nat
    BY <2>1
  <2>3. "ask" \in Phase
    BY DEF Phase
  <2> HIDE DEF n
  <2> QED
    BY <1>1, <2>2, <2>3 DEF Conversation
<1>4. /\ d.phase = "ask" /\ d.attempt = n /\ d.asked = 0 /\ d.polls = c.polls
      /\ d.step = c.step /\ d.parts = c.parts /\ d.listed = c.listed /\ d.data = c.data
  BY <1>1 DEF Conversation
<1> HIDE DEF d
<1>5. Paced(d)
  BY <1>1, <1>4, Bounds DEF Paced, ConvInv
<1>6. ConvInv(d)
  BY <1>1, <1>3, <1>4, <1>5, PhaseInv DEF Ended
<1> QED
  BY <1>2, <1>6, SameInv

LEMMA RateLimitInv ==
  ASSUME Inv, NEW t \in Task, NEW r \in RetryAfter \cup {None}, RateLimit(t, r) PROVE Inv'
<1> DEFINE c == task[t]
<1>1. ConvInv(c) /\ c \in Conversation /\ c.phase = "ask"
  BY AtInv DEF RateLimit
<1>2. PICK d \in Delay(r, c.attempt) :
        /\ deadline' = Most(deadline, d)
        /\ Goto(t, IF MayRetry(c)
                   THEN [c EXCEPT !.phase = "retry", !.wait = sleepWithCountdown(d),
                                  !.asked = Asked(r)]
                   ELSE Fail(c))
  BY DEF RateLimit
<1>3. told' = (IF r = None THEN told ELSE Most(told, r)) /\ cached' = cached
  BY DEF RateLimit
<1> HIDE DEF c
<1>4. d \in Nat /\ Asked(r) \in Nat /\ Asked(r) <= d /\ (r # None => r = d /\ r \in Nat)
  BY DelayIsNat
<1>5. /\ deadline' \in Nat /\ told' \in Nat /\ told' <= deadline'
  BY <1>2, <1>3, <1>4 DEF Inv, Most
<1>6. cached' \in BOOLEAN
  BY <1>3, Zenon DEF Inv
<1>7. CASE MayRetry(c)
  <2>1. ConvInv([c EXCEPT !.phase = "retry", !.wait = d, !.asked = Asked(r)])
    BY <1>1, <1>4, <1>7, FailOrWait DEF Ended
  <2> QED
    BY <1>2, <1>5, <1>6, <1>7, <2>1, GotoInv DEF sleepWithCountdown
<1>8. CASE ~MayRetry(c)
  <2>1. ConvInv(Fail(c))
    BY <1>1, FailOrWait DEF Ended
  <2> QED
    BY <1>2, <1>5, <1>6, <1>8, <2>1, GotoInv
<1> QED
  BY <1>7, <1>8

LEMMA ServerErrorInv ==
  ASSUME Inv, NEW t \in Task, NEW r \in RetryAfter \cup {None}, ServerError(t, r) PROVE Inv'
<1> DEFINE c == task[t]
<1>1. ConvInv(c) /\ c \in Conversation /\ c.phase = "ask"
  BY AtInv DEF ServerError
<1>2. PICK d \in Delay(r, c.attempt) :
        Goto(t, IF MayRetry(c)
                THEN [c EXCEPT !.phase = "retry", !.wait = sleep(d), !.asked = sleep(Asked(r))]
                ELSE Fail(c))
  BY DEF ServerError
<1>3. UNCHANGED <<deadline, told>> /\ cached' \in BOOLEAN
  BY Zenon DEF ServerError, Inv
<1> HIDE DEF c
<1>4. d \in Nat /\ Asked(r) \in Nat /\ (Asked(r) = d \/ Asked(r) = 0)
  BY DelayIsNat, Bounds DEF Delay, Asked
<1>5. sleep(d) \in Nat /\ sleep(Asked(r)) \in Nat /\ sleep(Asked(r)) <= sleep(d)
  BY <1>4, SleepIsNat, Bounds DEF sleep
<1>6. CASE MayRetry(c)
  <2>1. ConvInv([c EXCEPT !.phase = "retry", !.wait = sleep(d), !.asked = sleep(Asked(r))])
    BY <1>1, <1>5, <1>6, FailOrWait DEF Ended
  <2> QED
    BY <1>2, <1>3, <1>6, <2>1, SameInv
<1>7. CASE ~MayRetry(c)
  <2>1. ConvInv(Fail(c))
    BY <1>1, FailOrWait DEF Ended
  <2> QED
    BY <1>2, <1>3, <1>7, <2>1, SameInv
<1> QED
  BY <1>6, <1>7

LEMMA NetworkFailureInv == ASSUME Inv, NEW t \in Task, NetworkFailure(t) PROVE Inv'
<1> DEFINE c == task[t]
<1>1. ConvInv(c) /\ c \in Conversation /\ c.phase \in {"ask", "read"}
  BY AtInv DEF NetworkFailure
<1>2. PICK d \in calculateBackoff(c.attempt) :
        Goto(t, IF MayRetry(c) THEN [c EXCEPT !.phase = "retry", !.wait = sleep(d)]
                ELSE Fail(c))
  BY DEF NetworkFailure
<1>3. UNCHANGED <<deadline, told>> /\ cached' \in BOOLEAN
  BY Zenon DEF NetworkFailure, Inv
<1> HIDE DEF c
<1>4. sleep(d) \in Nat
  BY BackoffIsNat
<1>5. CASE MayRetry(c)
  <2>1. 0 \in Nat /\ 0 <= sleep(d)
    BY <1>4
  <2>2. ConvInv([c EXCEPT !.phase = "retry", !.wait = sleep(d)])
    BY <1>1, <1>4, <1>5, <2>1, FailOrWait DEF Ended
  <2> QED
    BY <1>2, <1>3, <1>5, <2>2, SameInv
<1>6. CASE ~MayRetry(c)
  <2>1. ConvInv(Fail(c))
    BY <1>1, FailOrWait DEF Ended
  <2> QED
    BY <1>2, <1>3, <1>6, <2>1, SameInv
<1> QED
  BY <1>5, <1>6

(* The steps that change nothing but the phase of a conversation.          *)
LEMMA FailInv ==
  ASSUME Inv, NEW t \in Task, NEW ph, At(t, ph), ph \in {"ask", "read", "give up"},
         Goto(t, Fail(task[t])), UNCHANGED <<deadline, cached, told>>
  PROVE  Inv'
<1>1. ConvInv(task[t]) /\ task[t] \in Conversation /\ task[t].phase = ph
  BY AtInv
<1>2. ConvInv(Fail(task[t]))
  BY <1>1, FailOrWait DEF Ended
<1>3. cached' \in BOOLEAN
  BY Zenon DEF Inv
<1> QED
  BY <1>2, <1>3, SameInv

LEMMA AcceptInv ==
  ASSUME Inv, NEW t \in Task, Accept(t) \/ Retry(t) PROVE Inv'
<1> DEFINE c == task[t]
           ph == IF Accept(t) THEN "read" ELSE "send"
           d == [c EXCEPT !.phase = ph]
<1>1. /\ ConvInv(c) /\ c \in Conversation
      /\ IF Accept(t) THEN c.phase = "ask" ELSE c.phase = "retry" /\ c.wait = 0
  BY AtInv DEF Accept, Retry
<1>2. Goto(t, d)
  BY DEF Accept, Retry
<1>3. UNCHANGED <<deadline, told>> /\ cached' \in BOOLEAN
  BY Zenon DEF Accept, Retry, Inv
<1> HIDE DEF c
<1>4. d \in Conversation
  BY <1>1 DEF Conversation, Phase
<1>5. /\ d.phase = ph /\ d.attempt = c.attempt /\ d.asked = c.asked /\ d.polls = c.polls
      /\ d.step = c.step /\ d.parts = c.parts /\ d.listed = c.listed /\ d.data = c.data
  BY <1>1 DEF Conversation
<1>6. c.asked = 0
  <2>1. c.asked \in Nat /\ Paced(c)
    BY <1>1 DEF ConvInv, Conversation
  <2>2. CASE c.phase # "retry"
    BY <2>1, <2>2 DEF Paced
  <2>3. CASE c.phase = "retry"
    <3>1. c.wait = 0
      BY <1>1, <2>3
    <3> QED
      BY <2>1, <2>3, <3>1 DEF Paced
  <2> QED
    BY <2>2, <2>3
<1>7. ph \in {"read", "send"} /\ (ph = "send" => c.attempt < MaxAttempts) /\ c.polls < MaxPolls
  BY <1>1 DEF ConvInv, Paced
<1> HIDE DEF d, ph
<1>8. Paced(d)
  BY <1>1, <1>5, <1>6, <1>7 DEF Paced, ConvInv
<1>9. ~Ended(c) /\ d.phase # "done"
  BY <1>1, <1>5, <1>7 DEF Ended
<1>10. ConvInv(d)
  BY <1>1, <1>4, <1>5, <1>8, <1>9, PhaseInv
<1> QED
  BY <1>2, <1>3, <1>10, SameInv

-----------------------------------------------------------------------------
(* The conversations *)

LEMMA AskInv ==
  ASSUME NEW c, ConvInv(c), c.phase \in {"read", "poll"}, c.step # "part",
         NEW s \in Step, s # "part"
  PROVE  ConvInv(Ask(c, s))
<1> SUFFICES ASSUME NEW d, d = Ask(c, s) PROVE ConvInv(d)
  OBVIOUS
<1>1. c \in Conversation
  BY DEF ConvInv
<1>2. d \in Conversation
  BY <1>1 DEF Ask, Conversation, Phase
<1>3. /\ d.phase = "send" /\ d.attempt = 0 /\ d.asked = 0 /\ d.polls = c.polls /\ d.step = s
      /\ d.parts = c.parts /\ d.listed = c.listed /\ d.data = c.data
  BY <1>1 DEF Ask, Conversation
<1>4. Paced(d)
  <2>1. c.polls \in 0..MaxPolls /\ c.polls < MaxPolls
    BY DEF ConvInv, Paced
  <2> QED
    BY <1>3, <2>1, Bounds DEF Paced
<1>5. ~Ended(c) /\ d.step # "part"
  BY <1>3 DEF Ended
<1> QED
  BY <1>2, <1>3, <1>4, <1>5, StageInv, Zenon

LEMMA FinishInv ==
  ASSUME NEW c, ConvInv(c), c.phase = "read", c.step # "part"
  PROVE  ConvInv(Finish(c))
<1> SUFFICES ASSUME NEW d, d = Finish(c) PROVE ConvInv(d)
  OBVIOUS
<1>1. c \in Conversation
  BY DEF ConvInv
<1>2. d \in Conversation
  BY <1>1 DEF Finish, Conversation, Phase
<1>3. /\ d.phase = "done" /\ d.attempt = c.attempt /\ d.asked = c.asked /\ d.polls = c.polls
      /\ d.step = c.step /\ d.parts = c.parts /\ d.listed = c.listed /\ d.data = c.data
  BY <1>1 DEF Finish, Conversation
<1>4. Paced(d)
  BY <1>3 DEF ConvInv, Paced
<1>5. ~Ended(c) /\ d.step # "part"
  BY <1>3 DEF Ended
<1> QED
  BY <1>2, <1>3, <1>4, <1>5, StageInv, Zenon

LEMMA StartInv == ASSUME Inv, NEW t \in Task, NEW kind \in Kind, Start(t, kind) PROVE Inv'
<1>1. PICK s \in Step \ {"part"} : Goto(t, Begin(kind, s))
  <2> DEFINE s == CASE kind = "login" -> "challenge"
                    [] kind = "export" -> IF cached THEN "export" ELSE "certificate"
                    [] kind = "xml" -> "xml"
  <2>1. s \in Step \ {"part"}
    BY DEF Kind, Step
  <2>2. Goto(t, Begin(kind, s))
    BY DEF Start
  <2> QED
    BY <2>1, <2>2
<1> DEFINE d == Begin(kind, s)
<1>2. d \in Conversation
  BY Bounds DEF Begin, Conversation, Phase
<1>3. /\ d.phase = "send" /\ d.attempt = 0 /\ d.asked = 0 /\ d.polls = 0 /\ d.step # "part"
      /\ d.parts = <<>> /\ d.listed = 0 /\ d.data = <<>>
  BY DEF Begin
<1>0. Goto(t, d)
  BY <1>1
<1> HIDE DEF d
<1>4. Paced(d)
  BY <1>3, Bounds DEF Paced
<1>5. Staged(d)
  BY <1>3 DEF Staged, Ended
<1>6. Assembled(d)
  BY <1>3 DEF Assembled
<1>7. UNCHANGED <<deadline, told>> /\ cached' \in BOOLEAN
  BY Zenon DEF Start, Inv
<1> QED
  BY <1>0, <1>2, <1>4, <1>5, <1>6, <1>7, SameInv DEF ConvInv

(* An answer that leads to the next request, or to the end.                *)
LEMMA GoOnInv ==
  ASSUME Inv, NEW t \in Task, NEW ph, At(t, ph), ph \in {"read", "poll"}, task[t].step # "part",
         \/ \E s \in Step : s # "part" /\ Goto(t, Ask(task[t], s))
         \/ ph = "read" /\ Goto(t, Finish(task[t])),
         UNCHANGED <<deadline, told>>, cached' \in BOOLEAN
  PROVE  Inv'
<1>1. ConvInv(task[t]) /\ task[t].phase = ph
  BY AtInv
<1>2. ASSUME NEW s \in Step, s # "part", Goto(t, Ask(task[t], s)) PROVE Inv'
  <2>1. ConvInv(Ask(task[t], s))
    BY <1>1, <1>2, AskInv
  <2> QED
    BY <1>2, <2>1, SameInv
<1>3. ASSUME ph = "read", Goto(t, Finish(task[t])) PROVE Inv'
  <2>1. ConvInv(Finish(task[t]))
    BY <1>1, <1>3, FinishInv
  <2> QED
    BY <1>3, <2>1, SameInv
<1> QED
  BY <1>2, <1>3

LEMMA UsableInv ==
  ASSUME Inv, NEW t \in Task,
         \/ authenticate(t) \/ getEncryptionCertificate(t) \/ exportInvoices(t)
         \/ downloadInvoiceXml(t) \/ LoggedIn(t) \/ PollAgain(t)
  PROVE  Inv'
<1>1. cached' \in BOOLEAN
  BY Zenon DEF Inv, authenticate, getEncryptionCertificate, exportInvoices, downloadInvoiceXml,
              LoggedIn, PollAgain
<1>2. CASE authenticate(t)
  <2>1. /\ At(t, "read") /\ task[t].step # "part" /\ UNCHANGED <<deadline, told>>
        /\ \/ \E s \in Step : s # "part" /\ Goto(t, Ask(task[t], s))
           \/ Goto(t, Finish(task[t]))
    BY <1>2 DEF authenticate, Step
  <2> QED
    BY <1>1, <2>1, GoOnInv
<1>3. CASE getEncryptionCertificate(t)
  <2>1. At(t, "read") /\ task[t].step # "part" /\ Goto(t, Ask(task[t], "export"))
        /\ UNCHANGED <<deadline, told>> /\ "export" \in Step
    BY <1>3 DEF getEncryptionCertificate, Step
  <2> QED
    BY <1>1, <2>1, GoOnInv
<1>4. CASE exportInvoices(t)
  <2>1. At(t, "read") /\ task[t].step # "part" /\ Goto(t, Ask(task[t], "status"))
        /\ UNCHANGED <<deadline, told>> /\ "status" \in Step
    BY <1>4 DEF exportInvoices, Step
  <2> QED
    BY <1>1, <2>1, GoOnInv
<1>5. CASE downloadInvoiceXml(t)
  <2>1. At(t, "read") /\ task[t].step # "part" /\ Goto(t, Finish(task[t]))
        /\ UNCHANGED <<deadline, told>>
    BY <1>5 DEF downloadInvoiceXml
  <2> QED
    BY <1>1, <2>1, GoOnInv
<1>6. CASE LoggedIn(t)
  <2>1. At(t, "read") /\ task[t].step # "part" /\ Goto(t, Ask(task[t], "redeem"))
        /\ UNCHANGED <<deadline, told>> /\ "redeem" \in Step
    BY <1>6 DEF LoggedIn, Step
  <2> QED
    BY <1>1, <2>1, GoOnInv
<1>7. CASE PollAgain(t)
  <2>0. task[t].step = "status"
    BY <1>7, AtInv DEF PollAgain, ConvInv, Paced
  <2>1. At(t, "poll") /\ task[t].step # "part" /\ Goto(t, Ask(task[t], "status"))
        /\ UNCHANGED <<deadline, told>> /\ "status" \in Step
    BY <1>7, <2>0 DEF PollAgain, Step
  <2> QED
    BY <1>1, <2>1, GoOnInv
<1> QED
  BY <1>2, <1>3, <1>4, <1>5, <1>6, <1>7

LEMMA PendingInv == ASSUME Inv, NEW t \in Task, Pending(t) PROVE Inv'
<1> DEFINE c == task[t]
           n == c.polls + 1
           ph == IF n < MaxPolls THEN "poll" ELSE "give up"
           w == sleep(PollInterval)
           d == [c EXCEPT !.phase = ph, !.polls = n, !.wait = w]
<1>1. ConvInv(c) /\ c \in Conversation /\ c.phase = "read" /\ c.step = "status"
  BY AtInv DEF Pending
<1>2. Goto(t, d)
  BY DEF Pending
<1>3. UNCHANGED <<deadline, told>> /\ cached' \in BOOLEAN
  BY Zenon DEF Pending, Inv
<1> HIDE DEF c
<1>4. /\ n \in 0..MaxPolls /\ n \in Nat /\ w \in Nat /\ ph \in {"poll", "give up"}
      /\ ph = "poll" => n < MaxPolls
  BY <1>1, Bounds, SleepIsNat DEF ConvInv, Paced
<1> HIDE DEF n, w, ph
<1>5. d \in Conversation
  <2>1. ph \in Phase
    BY <1>4 DEF Phase
  <2> QED
    BY <1>1, <1>4, <2>1 DEF Conversation
<1>6. /\ d.phase = ph /\ d.attempt = c.attempt /\ d.asked = c.asked /\ d.polls = n
      /\ d.step = c.step /\ d.parts = c.parts /\ d.listed = c.listed /\ d.data = c.data
  BY <1>1 DEF Conversation
<1> HIDE DEF d
<1>7. Paced(d)
  <2>1. c.attempt \in 0..MaxAttempts /\ c.asked = 0
    BY <1>1 DEF ConvInv, Paced
  <2> QED
    BY <1>1, <1>4, <1>6, <2>1 DEF Paced
<1>8. ~Ended(c) /\ d.phase # "done"
  BY <1>1, <1>4, <1>6 DEF Ended
<1>9. ConvInv(d)
  BY <1>1, <1>5, <1>6, <1>7, <1>8, PhaseInv, Zenon
<1> QED
  BY <1>2, <1>3, <1>9, SameInv

(* The parts that are still to come are those behind the data.             *)
LEMMA NextPartInv ==
  ASSUME NEW c \in Conversation, Paced(c), c.phase = "read", Assembled(c)
  PROVE  ConvInv(NextPart(c))
<1>0. c.polls \in 0..MaxPolls /\ c.polls < MaxPolls /\ c.attempt \in 0..MaxAttempts /\ c.asked = 0
  BY DEF Paced
<1>1. CASE c.parts = <<>>
  <2> SUFFICES ASSUME NEW d, d = Finish(c) PROVE ConvInv(d)
    BY <1>1 DEF NextPart
  <2>1. d \in Conversation
    BY DEF Finish, Conversation, Phase
  <2>2. /\ d.phase = "done" /\ d.attempt = c.attempt /\ d.asked = c.asked /\ d.polls = c.polls
        /\ d.parts = c.parts /\ d.listed = c.listed /\ d.data = c.data
    BY DEF Finish, Conversation
  <2>3. Paced(d)
    BY <1>0, <2>2 DEF Paced
  <2>4. Staged(d) /\ Assembled(d)
    BY <1>1, <2>2 DEF Staged, Assembled, Ended
  <2> QED
    BY <2>1, <2>3, <2>4 DEF ConvInv
<1>2. CASE c.parts # <<>> /\ Head(c.parts).allowed
  <2> SUFFICES ASSUME NEW d, d = Ask(c, "part") PROVE ConvInv(d)
    BY <1>2 DEF NextPart
  <2>1. d \in Conversation
    BY DEF Ask, Conversation, Phase, Step
  <2>2. /\ d.phase = "send" /\ d.step = "part" /\ d.attempt = 0 /\ d.asked = 0
        /\ d.polls = c.polls
        /\ d.parts = c.parts /\ d.listed = c.listed /\ d.data = c.data
    BY DEF Ask, Conversation
  <2>3. Paced(d)
    <3>1. 0 \in 0..MaxAttempts /\ 0 < MaxAttempts
      BY Bounds
    <3> QED
      BY <1>0, <2>2, <3>1 DEF Paced
  <2>4. Staged(d) /\ Assembled(d)
    BY <1>2, <2>2 DEF Staged, Assembled, Ended
  <2> QED
    BY <2>1, <2>3, <2>4 DEF ConvInv
<1>3. CASE c.parts # <<>> /\ ~Head(c.parts).allowed
  <2> SUFFICES ASSUME NEW d, d = Fail(c) PROVE ConvInv(d)
    BY <1>3 DEF NextPart
  <2>1. d \in Conversation
    BY DEF Fail, Conversation, Phase
  <2>2. /\ d.phase = "failed" /\ d.attempt = c.attempt /\ d.asked = c.asked
        /\ d.polls = c.polls
        /\ d.parts = c.parts /\ d.listed = c.listed /\ d.data = c.data
    BY DEF Fail, Conversation
  <2>3. Paced(d)
    BY <1>0, <2>2 DEF Paced
  <2>4. Staged(d) /\ Assembled(d)
    BY <1>3, <2>2 DEF Staged, Assembled, Ended
  <2> QED
    BY <2>1, <2>3, <2>4 DEF ConvInv
<1> QED
  BY <1>1, <1>2, <1>3

(* Sorting puts every part behind those before it.                         *)
LEMMA InOrderIsOrdered ==
  ASSUME NEW l \in Listings
  PROVE  /\ InOrder(l) \in Seq(Part) /\ Len(InOrder(l)) = Len(l) /\ Len(l) \in 0..Parts
         /\ \A i \in 1..Len(l) : InOrder(l)[i].ordinal = i
<1>1. CASE l = <<>>
  <2>1. Len(l) = 0
    BY <1>1
  <2>2. InOrder(l) \in [1..0 -> Part]
    BY <2>1 DEF InOrder
  <2>3. InOrder(l) \in Seq(Part) /\ Len(InOrder(l)) = 0
    BY <2>2
  <2> QED
    BY <2>1, <2>3, Bounds
<1>2. CASE l # <<>>
  <2>1. PICK o \in Orders, bad \in 0..Parts, h \in BOOLEAN :
          l = [i \in 1..Parts |-> [ordinal |-> o[i], allowed |-> i # bad, hashed |-> h]]
    BY <1>2 DEF Listings
  <2>2. o \in [1..Parts -> 1..Parts] /\ \A k \in 1..Parts : \E i \in 1..Parts : o[i] = k
    BY DEF Orders
  <2>3. l \in [1..Parts -> Part]
    <3>1. ASSUME NEW i \in 1..Parts
          PROVE  [ordinal |-> o[i], allowed |-> i # bad, hashed |-> h] \in Part
      <4>1. o[i] \in 1..Parts
        BY <2>2
      <4>2. (i # bad) \in BOOLEAN
        OBVIOUS
      <4> QED
        BY <4>1, <4>2, Zenon DEF Part
    <3> QED
      BY <2>1, <3>1
  <2>4. Len(l) = Parts /\ DOMAIN l = 1..Parts
    BY <2>3, Bounds
  <2>5. ASSUME NEW k \in 1..Parts
        PROVE  /\ InOrder(l)[k] \in Part
               /\ InOrder(l)[k].ordinal = k
    <3>1. PICK i \in 1..Parts : o[i] = k
      BY <2>2
    <3>2. l[i] \in Range(l) /\ l[i].ordinal = k
      BY <2>1, <2>4, <3>1 DEF Range
    <3>3. Range(l) \subseteq Part
      BY <2>3, <2>4 DEF Range
    <3>4. InOrder(l)[k] = CHOOSE p \in Range(l) : p.ordinal = k
      BY <2>4 DEF InOrder
    <3> QED
      BY <3>2, <3>3, <3>4
  <2>6. InOrder(l) \in [1..Parts -> Part]
    BY <2>4, <2>5 DEF InOrder
  <2>7. InOrder(l) \in Seq(Part) /\ Len(InOrder(l)) = Parts
    BY <2>6, Bounds
  <2> QED
    BY <2>4, <2>5, <2>7, Bounds
<1> QED
  BY <1>1, <1>2

LEMMA ExportedInv == ASSUME Inv, NEW t \in Task, Exported(t) PROVE Inv'
<1> DEFINE c == task[t]
<1>1. ConvInv(c) /\ c \in Conversation /\ c.phase = "read" /\ c.step = "status"
  BY AtInv DEF Exported
<1>2. PICK l \in Listings :
        Goto(t, NextPart([c EXCEPT !.parts = InOrder(l), !.listed = Len(l)]))
  BY DEF Exported
<1>3. UNCHANGED <<deadline, told>> /\ cached' \in BOOLEAN
  BY Zenon DEF Exported, Inv
<1> HIDE DEF c
<1> DEFINE q == InOrder(l)
           n == Len(l)
           d == [c EXCEPT !.parts = q, !.listed = n]
<1>4. q \in Seq(Part) /\ Len(q) = n /\ n \in 0..Parts /\ \A i \in 1..n : q[i].ordinal = i
  BY InOrderIsOrdered
<1>5. c.data = <<>>
  BY <1>1 DEF ConvInv, Staged, Ended
<1>6. Goto(t, NextPart(d))
  BY <1>2
<1> HIDE DEF q, n
<1>7. d \in Conversation
  BY <1>1, <1>4 DEF Conversation
<1>8. /\ d.phase = "read" /\ d.step = "status" /\ d.attempt = c.attempt /\ d.polls = c.polls
      /\ d.wait = c.wait /\ d.asked = c.asked /\ d.parts = q /\ d.listed = n /\ d.data = <<>>
  BY <1>1, <1>5 DEF Conversation
<1> HIDE DEF d
<1>9. Paced(d)
  BY <1>1, <1>8 DEF ConvInv, Paced
<1>10. Assembled(d)
  BY <1>4, <1>8, Bounds DEF Assembled
<1>11. ConvInv(NextPart(d))
  BY <1>7, <1>8, <1>9, <1>10, NextPartInv
<1> QED
  BY <1>3, <1>6, <1>11, SameInv

LEMMA OneMore == \A m, k \in Nat : (m + 1) + (k - 1) = m + k
OBVIOUS

(* A part that has been decrypted moves from the parts to the data.        *)
LEMMA AssembledGrows ==
  ASSUME NEW parts \in Seq(Part), parts # <<>>, NEW data \in Seq(Data), NEW listed \in Nat,
         \A i \in 1..Len(data) : data[i].ordinal = i /\ (data[i].hashed => data[i].intact),
         \A i \in 1..Len(parts) : parts[i].ordinal = Len(data) + i,
         Len(data) + Len(parts) = listed,
         NEW e \in Data, e.ordinal = Len(data) + 1, e.hashed => e.intact,
         NEW d, d.parts = Tail(parts), d.data = Append(data, e), d.listed = listed
  PROVE  Assembled(d)
<1>1. /\ d.parts \in Seq(Part) /\ Len(d.parts) = Len(parts) - 1
      /\ \A i \in 1..Len(d.parts) : d.parts[i] = parts[i + 1]
      /\ d.data \in Seq(Data) /\ Len(d.data) = Len(data) + 1
      /\ \A i \in 1..Len(data) : d.data[i] = data[i]
      /\ d.data[Len(data) + 1] = e
  OBVIOUS
<1>2. Len(data) \in Nat /\ Len(parts) \in Nat
  OBVIOUS
<1>3. ASSUME NEW i \in 1..Len(d.data)
      PROVE  d.data[i].ordinal = i /\ (d.data[i].hashed => d.data[i].intact)
  <2>1. CASE i \in 1..Len(data)
    BY <1>1, <2>1
  <2>2. CASE i = Len(data) + 1
    BY <1>1, <2>2
  <2> QED
    BY <1>1, <1>2, <2>1, <2>2
<1>4. ASSUME NEW i \in 1..Len(d.parts)
      PROVE  d.parts[i].ordinal = Len(d.data) + i
  <2>1. i + 1 \in 1..Len(parts) /\ d.parts[i] = parts[i + 1]
    BY <1>1, <1>2
  <2>2. d.parts[i].ordinal = Len(data) + (i + 1)
    BY <2>1
  <2> QED
    BY <1>1, <1>2, <2>2
<1>5. Len(d.data) + Len(d.parts) = d.listed
  <2>1. (Len(data) + 1) + (Len(parts) - 1) = Len(data) + Len(parts)
    BY <1>2, OneMore, Zenon
  <2> QED
    BY <1>1, <2>1
<1> QED
  BY <1>3, <1>4, <1>5 DEF Assembled

LEMMA PartInv ==
  ASSUME Inv, NEW t \in Task, NEW ok \in BOOLEAN, downloadAndDecryptPart(t, ok) PROVE Inv'
<1> DEFINE c == task[t]
           p == Head(c.parts)
<1>1. ConvInv(c) /\ c \in Conversation /\ c.phase = "read" /\ c.step = "part"
  BY AtInv DEF downloadAndDecryptPart
<1>2. Goto(t, IF p.hashed /\ ~ok THEN Fail(c)
              ELSE NextPart([c EXCEPT !.parts = Tail(@),
                             !.data = Append(@, [ordinal |-> p.ordinal, intact |-> ok,
                                                 hashed |-> p.hashed])]))
  BY Zenon DEF downloadAndDecryptPart
<1>3. UNCHANGED <<deadline, told>> /\ cached' \in BOOLEAN
  BY Zenon DEF downloadAndDecryptPart, Inv
<1> HIDE DEF c
<1>4. c.parts \in Seq(Part) /\ c.parts # <<>> /\ c.data \in Seq(Data) /\ c.listed \in 0..Parts
  BY <1>1 DEF ConvInv, Staged, Ended, Conversation
<1>5. p \in Part
  BY <1>4
<1>6. CASE p.hashed /\ ~ok
  <2>1. ConvInv(Fail(c))
    BY <1>1, FailOrWait DEF Ended
  <2> QED
    BY <1>2, <1>3, <1>6, <2>1, SameInv
<1>7. CASE ~(p.hashed /\ ~ok)
  <2> DEFINE e == [ordinal |-> p.ordinal, intact |-> ok, hashed |-> p.hashed]
             q == Tail(c.parts)
             n == Append(c.data, e)
             d == [c EXCEPT !.parts = q, !.data = n]
  <2>1. Goto(t, NextPart(d))
    BY <1>2, <1>7
  <2>2. /\ e \in Data /\ (e.hashed => e.intact)
        /\ e.ordinal = Len(c.data) + 1
    <3>1. p.ordinal \in 1..Parts /\ p.hashed \in BOOLEAN
      BY <1>5 DEF Part
    <3>2. e \in Data
      BY <3>1 DEF Data
    <3>3. e.hashed => e.intact
      BY <1>7, Zenon
    <3>4. p = c.parts[1] /\ 1 \in 1..Len(c.parts)
      BY <1>4
    <3>5. p.ordinal = Len(c.data) + 1
      BY <1>1, <3>4 DEF ConvInv, Assembled
    <3> QED
      BY <3>2, <3>3, <3>5
  <2> HIDE DEF e
  <2>3. q \in Seq(Part) /\ n \in Seq(Data)
    BY <1>4, <2>2
  <2> HIDE DEF q, n
  <2>4. d \in Conversation
    BY <1>1, <2>3 DEF Conversation
  <2>5. /\ d.phase = "read" /\ d.step = "part" /\ d.attempt = c.attempt /\ d.polls = c.polls
        /\ d.wait = c.wait /\ d.asked = c.asked /\ d.parts = q /\ d.listed = c.listed
        /\ d.data = n
    BY <1>1 DEF Conversation
  <2> HIDE DEF d
  <2>6. Paced(d)
    BY <1>1, <2>5 DEF ConvInv, Paced
  <2>7. Assembled(d)
    <3>1. /\ \A i \in 1..Len(c.data) : /\ c.data[i].ordinal = i
                                       /\ c.data[i].hashed => c.data[i].intact
          /\ \A i \in 1..Len(c.parts) : c.parts[i].ordinal = Len(c.data) + i
          /\ Len(c.data) + Len(c.parts) = c.listed
      BY <1>1 DEF ConvInv, Assembled
    <3>2. c.listed \in Nat
      BY <1>4, Bounds
    <3> QED
      BY <1>4, <2>2, <2>5, <3>1, <3>2, AssembledGrows DEF n, q
  <2>8. ConvInv(NextPart(d))
    BY <2>4, <2>5, <2>6, <2>7, NextPartInv
  <2> QED
    BY <1>3, <2>1, <2>8, SameInv
<1> QED
  BY <1>6, <1>7

-----------------------------------------------------------------------------

LEMMA StepInv == Inv /\ [Next]_vars => Inv'
<1> SUFFICES ASSUME Inv, [Next]_vars PROVE Inv'
  OBVIOUS
<1>1. CASE Tick
  BY <1>1, TickInv
<1>2. ASSUME NEW t \in Task, Ksef(t) \/ Timeout(t) PROVE Inv'
  <2>1. CASE Refuse(t)
    BY <2>1, FailInv DEF Refuse
  <2>2. CASE Accept(t)
    BY <2>2, AcceptInv
  <2>3. CASE NetworkFailure(t)
    BY <2>3, NetworkFailureInv
  <2>4. ASSUME NEW r \in RetryAfter \cup {None}, RateLimit(t, r) PROVE Inv'
    BY <2>4, RateLimitInv
  <2>5. ASSUME NEW r \in RetryAfter \cup {None}, ServerError(t, r) PROVE Inv'
    BY <2>5, ServerErrorInv
  <2> QED
    BY <1>2, <2>1, <2>2, <2>3, <2>4, <2>5 DEF Ksef, Timeout
<1>3. ASSUME NEW t \in Task, Work(t) PROVE Inv'
  BY <1>3, SendInv, AcceptInv, UsableInv, FailInv DEF Work, GiveUp
<1>4. ASSUME NEW t \in Task, Usable(t) PROVE Inv'
  BY <1>4, UsableInv, ExportedInv, PartInv DEF Usable
<1>5. ASSUME NEW t \in Task, Unusable(t) \/ StatusFailed(t) \/ DecryptFails(t) PROVE Inv'
  BY <1>5, FailInv DEF Unusable, StatusFailed, DecryptFails
<1>6. ASSUME NEW t \in Task, Pending(t) PROVE Inv'
  BY <1>6, PendingInv
<1>7. ASSUME NEW t \in Task, NEW kind \in Kind, Start(t, kind) PROVE Inv'
  BY <1>7, StartInv
<1>8. CASE UNCHANGED vars
  <2>1. deadline' \in Nat /\ told' \in Nat /\ told' <= deadline'
    BY <1>8 DEF vars, Inv
  <2>2. cached' \in BOOLEAN
    BY <1>8, Zenon DEF vars, Inv
  <2>3. task' = task
    BY <1>8 DEF vars
  <2> QED
    BY <2>1, <2>2, <2>3 DEF Inv, ConvInv, Paced, Staged, Assembled, Ended
<1> QED
  BY <1>1, <1>2, <1>3, <1>4, <1>5, <1>6, <1>7, <1>8 DEF Next

LEMMA Invariance == Spec => []Inv
BY InitInv, StepInv, PTL DEF Spec

(* The state of every conversation is sound: no request is sent more often *)
(* than operational.retry.maxAttempts, no status asked for more often than *)
(* the limit of polls (http.ts:266, invoicePackageClient.ts:34).           *)
THEOREM Typing == Spec => []TypeOK
<1>1. Inv => TypeOK
  BY DEF Inv, TypeOK, ConvInv, Paced
<1> QED
  BY <1>1, Invariance, PTL

(* The tracker knows the furthest deadline of all 429s (http.ts:257-265).  *)
THEOREM Reports == Spec => []RateLimitsAreReported
<1>1. Inv => RateLimitsAreReported
  BY DEF Inv, RateLimitsAreReported
<1> QED
  BY <1>1, Invariance, PTL

(* What a download hands on is the whole package, its parts in order       *)
(* (invoicePackageClient.ts:67-136).                                       *)
THEOREM Whole == Spec => []PackageIsWhole
<1>1. Inv => PackageIsWhole
  <2> SUFFICES ASSUME Inv, NEW t \in Task, At(t, "done")
               PROVE  /\ Len(task[t].data) = task[t].listed
                      /\ \A i \in 1..Len(task[t].data) :
                           /\ task[t].data[i].ordinal = i
                           /\ task[t].data[i].hashed => task[t].data[i].intact
    BY DEF PackageIsWhole
  <2>1. ConvInv(task[t]) /\ task[t].phase = "done" /\ task[t] \in Conversation
    BY AtInv
  <2>2. Len(task[t].parts) = 0 /\ task[t].data \in Seq(Data) /\ task[t].listed \in 0..Parts
    BY <2>1 DEF ConvInv, Staged, Conversation
  <2>3. Len(task[t].data) = task[t].listed
    BY <2>1, <2>2, Bounds DEF ConvInv, Assembled
  <2> QED
    BY <2>1, <2>3 DEF ConvInv, Assembled
<1> QED
  BY <1>1, Invariance, PTL

StepOf(t) ==
  \/ Ksef(t) \/ Work(t) \/ Timeout(t)
  \/ Usable(t) \/ Unusable(t) \/ Pending(t) \/ StatusFailed(t) \/ DecryptFails(t)
  \/ \E kind \in Kind : Start(t, kind)

LEMMA StepsGoto == ASSUME NEW t \in Task, StepOf(t) PROVE \E c : Goto(t, c)
<1>1. Ksef(t) \/ Timeout(t) => \E c : Goto(t, c)
  BY Zenon DEF Ksef, Timeout, Refuse, Accept, NetworkFailure, RateLimit, ServerError
<1>2. Work(t) \/ Unusable(t) \/ Pending(t) \/ StatusFailed(t) \/ DecryptFails(t) =>
        \E c : Goto(t, c)
  BY Zenon DEF Work, Send, Retry, PollAgain, GiveUp, Unusable, Pending, StatusFailed,
               DecryptFails
<1>3. Usable(t) => \E c : Goto(t, c)
  BY Zenon DEF Usable, authenticate, getEncryptionCertificate, exportInvoices,
               downloadInvoiceXml, LoggedIn, Exported, downloadAndDecryptPart
<1>4. (\E kind \in Kind : Start(t, kind)) => \E c : Goto(t, c)
  BY Zenon DEF Start
<1> QED
  BY <1>1, <1>2, <1>3, <1>4 DEF StepOf

(* A request is not repeated before the time KSeF has asked for            *)
(* (http.ts:242-290).                                                      *)
THEOREM KeepsRetryAfter == Spec => RetryAfterIsKept
<1>1. Inv /\ [Next]_vars =>
        [\A t \in Task : At(t, "retry") /\ At(t, "send")' => task[t].asked = 0]_vars
  <2> SUFFICES ASSUME Inv, Next, NEW t \in Task, At(t, "retry"), At(t, "send")'
               PROVE  task[t].asked = 0
    OBVIOUS
  <2>1. ConvInv(task[t]) /\ task[t] \in Conversation /\ task[t].phase = "retry"
    BY AtInv
  <2>2. task[t].wait = 0
    <3>1. task'[t].phase = "send" /\ task'[t] # None
      BY DEF At
    <3>2. CASE Tick
      <4>1. task'[t] = [task[t] EXCEPT !.wait = Less(@), !.asked = Less(@)]
        BY <3>1, <3>2 DEF Tick
      <4>2. task'[t].phase = task[t].phase
        BY <2>1, <4>1 DEF Conversation
      <4> QED
        BY <2>1, <3>1, <4>2
    <3>3. PICK u \in Task : Tick \/ StepOf(u)
      BY DEF Next, StepOf
    <3>4. CASE StepOf(u) /\ u # t
      <4>1. PICK c : Goto(u, c)
        BY <3>4, StepsGoto
      <4>2. task'[t] = task[t]
        BY <3>4, <4>1 DEF Goto, Inv
      <4> QED
        BY <2>1, <3>1, <4>2
    <3>5. CASE StepOf(t)
      <4>1. Retry(t)
        BY <2>1, <3>5
           DEF StepOf, At, Ksef, Work, Timeout, Usable, Unusable, Pending, StatusFailed, DecryptFails,
               Start, Refuse, Accept, NetworkFailure, RateLimit, ServerError, Send, PollAgain,
               GiveUp, authenticate, getEncryptionCertificate, exportInvoices, downloadInvoiceXml,
               LoggedIn, Exported, downloadAndDecryptPart
      <4> QED
        BY <4>1 DEF Retry
    <3> QED
      BY <3>2, <3>3, <3>4, <3>5
  <2> QED
    BY <2>1, <2>2 DEF ConvInv, Paced, Conversation
<1> QED
  BY <1>1, Invariance, PTL DEF RetryAfterIsKept, Spec
=============================================================================
