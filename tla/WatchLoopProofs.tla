--------------------------- MODULE WatchLoopProofs ---------------------------
(***************************************************************************)
(* Proofs about WatchLoop, for any intervals, factors, deadlines and tick: *)
(* types, that no cycle starts before a Retry-After deadline the loop      *)
(* knows of, and that a crash during the sleep loses nothing.              *)
(***************************************************************************)
EXTENDS WatchLoop, TLAPS

LEMMA DivInNat ==
  ASSUME NEW a \in Nat, NEW b \in Nat \ {0}
  PROVE  a \div b \in Nat
BY Z3

(* Rounding up to a second never loses a tick.                             *)
LEMMA CeilCovers ==
  ASSUME NEW t \in Nat
  PROVE  CeilSeconds(t) \in Nat /\ CeilSeconds(t) * Second >= t
<1> DEFINE q == (t + Second - 1) \div Second
<1>1. t + Second - 1 \in Nat /\ Second \in Nat \ {0}
  BY LoopAssumption
<1>2. q \in Nat /\ (t + Second - 1) % Second \in Nat
      /\ t + Second - 1 = Second * q + ((t + Second - 1) % Second)
      /\ (t + Second - 1) % Second < Second
  BY <1>1, Z3
<1>3. q * Second = Second * q
  BY <1>1, <1>2
<1>4. QED
  BY <1>1, <1>2, <1>3 DEF CeilSeconds

LEMMA RoundInNat ==
  ASSUME NEW s \in Nat, NEW f \in Factor
  PROVE  Round(s, f) \in Nat
<1>1. f[1] \in Nat \ {0} /\ f[2] \in Nat \ {0}
  BY DEF Factor
<1>2. 2 * s * f[1] + f[2] \in Nat /\ 2 * f[2] \in Nat \ {0}
  BY <1>1, Z3
<1>3. QED
  BY <1>2, DivInNat DEF Round

LEMMA ClampIsPositive ==
  ASSUME NEW s \in Nat
  PROVE  clampIntervalSeconds(s) \in Nat \ {0}
BY LoopAssumption DEF clampIntervalSeconds, Least, Most

(* The next interval is positive, and long enough for the deadline.        *)
LEMMA NextIntervalCovers ==
  ASSUME NEW s \in Nat, NEW had \in BOOLEAN, NEW d \in Nat
  PROVE  /\ computeNextIntervalSeconds(s, had, d) \in Nat \ {0}
         /\ Respect => computeNextIntervalSeconds(s, had, d) * Second >= d
<1> DEFINE n == computeNextIntervalSeconds(s, had, d)
           f == IF had THEN Growth ELSE Decay
           c == clampIntervalSeconds(Round(s, f))
<1>1. c \in Nat \ {0}
  <2>1. f \in Factor
    BY LoopAssumption
  <2>2. QED
    BY <2>1, RoundInNat, ClampIsPositive
<1>2. CeilSeconds(d) \in Nat /\ CeilSeconds(d) * Second >= d
  BY CeilCovers
<1>3. n = Most(c, Floor(d))
  BY DEF computeNextIntervalSeconds
<1>4. n \in Nat \ {0} /\ (Respect => n >= CeilSeconds(d))
  BY <1>1, <1>2, <1>3, LoopAssumption DEF Most, Floor
<1>5. \A a, b \in Nat : a >= b => a * Second >= b * Second
  BY LoopAssumption, Z3
<1>6. ASSUME Respect PROVE n * Second >= d
  <2>1. n * Second >= CeilSeconds(d) * Second
    BY <1>2, <1>4, <1>5, <1>6
  <2>2. n * Second \in Nat /\ CeilSeconds(d) * Second \in Nat
    BY <1>2, <1>4, LoopAssumption, Z3
  <2>3. QED
    BY <1>2, <2>1, <2>2
<1>7. QED
  BY <1>4, <1>6

LEMMA TypeInit == Init => TypeOK
<1> SUFFICES ASSUME Init PROVE TypeOK
  OBVIOUS
<1>1. pc \in PC /\ adaptive \in BOOLEAN /\ stop \in BOOLEAN
  BY DEF Init, PC
<1>2. limited \in BOOLEAN /\ stragglers \in BOOLEAN /\ parallel \in BOOLEAN
  BY DEF Init
<1>3. interval \in Nat \ {0} /\ deadline \in Nat /\ sleeping \in Nat /\ draining \in Nat
  BY LoopAssumption DEF Init
<1>4. saved \in {None} \cup [interval : Nat \ {0}, deadline : Nat]
  BY DEF Init
<1>5. QED
  BY <1>1, <1>2, <1>3, <1>4 DEF TypeOK

LEMMA TypeStep == TypeOK /\ [Next]_vars => TypeOK'
<1> SUFFICES ASSUME TypeOK, [Next]_vars PROVE TypeOK'
  OBVIOUS
<1> USE LoopAssumption DEF TypeOK, PC, Goto
<1>1. CASE Tick
  <2>1. \A t \in Nat : Less(t) \in Nat
    BY DEF Less
  <2>2. saved' \in {None} \cup [interval : Nat \ {0}, deadline : Nat]
    BY <1>1, <2>1 DEF Tick
  <2>3. QED
    BY <1>1, <2>1, <2>2 DEF Tick
<1>2. CASE StragglersEnd \/ Signal \/ Crash \/ EndCycle
  BY <1>2 DEF StragglersEnd, Signal, Crash, Exit, EndCycle
<1>3. ASSUME NEW d \in RetryAfter, recordRateLimit(d) PROVE TypeOK'
  BY <1>3 DEF recordRateLimit, Most
<1>4. ASSUME NEW a \in Modes, NEW par \in BOOLEAN, Start(a, par) PROVE TypeOK'
  <2>1. PICK s \in readRateLimitState :
           IF a /\ s # None
           THEN interval' = clampIntervalSeconds(s.interval) /\ deadline' = s.deadline
           ELSE interval' = Poll /\ deadline' = 0
    BY <1>4 DEF Start
  <2>2. s # None => s.interval \in Nat /\ s.deadline \in Nat
    BY DEF readRateLimitState
  <2>3. interval' \in Nat \ {0} /\ deadline' \in Nat
    BY <2>1, <2>2, ClampIsPositive
  <2>4. QED
    BY <1>4, <2>3 DEF Start
<1>5. CASE Loop
  <2>1. CASE StartDrain \/ AbandonCycle \/ Wake \/ Finalize
    BY <2>1 DEF StartDrain, AbandonCycle, Wake, Finalize, Exit
  <2>2. CASE Settle
    <3>1. interval' \in Nat \ {0}
      BY <2>2, NextIntervalCovers DEF Settle
    <3>2. QED
      BY <2>2, <3>1 DEF Settle
  <2>3. CASE writeRateLimitState
    BY <2>3 DEF writeRateLimitState
  <2>4. CASE Report
    <3>1. interval * Second \in Nat
      BY Z3
    <3>2. Sleep(interval) \in Nat
      BY <3>1 DEF Sleep
    <3>3. QED
      BY <2>4, <3>2 DEF Report
  <2>5. QED
    BY <1>5, <2>1, <2>2, <2>3, <2>4 DEF Loop
<1>6. CASE UNCHANGED vars
  BY <1>6 DEF vars
<1>7. QED
  BY <1>1, <1>2, <1>3, <1>4, <1>5, <1>6 DEF Next

(* Every reachable state has its types, for every instance.                *)
THEOREM Typing == Spec => []TypeOK
<1>1. QED
  BY TypeInit, TypeStep, PTL DEF Spec

-----------------------------------------------------------------------------
(* The inductive invariant.  Without tasks of an earlier cycle no deadline *)
(* arrives between two cycles, so the interval computed from the deadline  *)
(* and the sleep derived from it keep covering what is left of it.         *)

TooLong == interval * Second > TimerLimit

Covered ==
  /\ pc \in {"save", "report"} => interval * Second >= deadline
  /\ pc = "sleep" => sleeping >= deadline \/ TooLong

Inv ==
  /\ TypeOK
  /\ ~parallel => ~stragglers
  /\ ~parallel /\ adaptive /\ Respect => Covered
  /\ ~parallel /\ adaptive /\ pc \in {"report", "sleep"} =>
       saved = [interval |-> interval, deadline |-> deadline]

LEMMA InvInit == Init => Inv
BY TypeInit DEF Init, Inv, Covered

LEMMA InvStep == Inv /\ [Next]_vars => Inv'
<1> SUFFICES ASSUME Inv, [Next]_vars PROVE Inv'
  OBVIOUS
<1>0. TypeOK /\ TypeOK'
  BY TypeStep DEF Inv
<1>1. CASE Tick
  <2>1. \A a, b \in Nat : a >= b => a >= Less(b) /\ Less(a) >= Less(b)
    BY DEF Less
  <2>2. interval * Second \in Nat
    BY <1>0, LoopAssumption, Z3 DEF TypeOK
  <2>3. ~parallel /\ adaptive /\ Respect => Covered'
    BY <1>0, <1>1, <2>1, <2>2 DEF Inv, Covered, TooLong, Tick, TypeOK
  <2>4. ASSUME ~parallel, adaptive, pc \in {"report", "sleep"}
        PROVE  saved' = [interval |-> interval, deadline |-> Less(deadline)]
    BY <1>1, <2>4, NoneIsNoRecord, <1>0 DEF Inv, Tick, TypeOK
  <2>5. QED
    BY <1>0, <1>1, <2>3, <2>4 DEF Inv, Tick
<1>2. CASE StragglersEnd \/ Signal \/ Crash \/ EndCycle
  BY <1>0, <1>2, LoopAssumption
  DEF StragglersEnd, Signal, Crash, Exit, EndCycle, Goto, Inv, Covered, TooLong
<1>3. ASSUME NEW d \in RetryAfter, recordRateLimit(d) PROVE Inv'
  BY <1>0, <1>3 DEF recordRateLimit, Working, Inv, Covered, TooLong
<1>4. ASSUME NEW a \in Modes, NEW par \in BOOLEAN, Start(a, par) PROVE Inv'
  BY <1>0, <1>4 DEF Start, Inv, Covered
<1>5. CASE Loop
  <2>1. CASE StartDrain \/ AbandonCycle \/ Wake \/ Finalize
    BY <1>0, <2>1 DEF StartDrain, AbandonCycle, Wake, Finalize, Exit, Goto, Inv, Covered, TooLong
  <2>2. CASE Settle
    <3>1. Respect => interval' * Second >= deadline
      BY <1>0, <2>2, NextIntervalCovers DEF Settle, TypeOK
    <3>2. QED
      BY <1>0, <2>2, <3>1 DEF Settle, Goto, Inv, Covered
  <2>3. CASE writeRateLimitState
    BY <1>0, <2>3 DEF writeRateLimitState, Goto, Inv, Covered
  <2>4. CASE Report
    <3>1. pc = "report" /\ pc' = "sleep" /\ sleeping' = Sleep(interval)
          /\ UNCHANGED <<adaptive, parallel, interval, deadline, saved, stragglers>>
      BY <2>4 DEF Report, Goto
    <3>2. Sleep(interval) = interval * Second \/ TooLong
      BY DEF Sleep, TooLong
    <3>3. QED
      BY <1>0, <3>1, <3>2 DEF Inv, Covered, TooLong
  <2>5. QED
    BY <1>5, <2>1, <2>2, <2>3, <2>4 DEF Loop
<1>6. CASE UNCHANGED vars
  BY <1>0, <1>6 DEF vars, Inv, Covered, TooLong
<1>7. QED
  BY <1>1, <1>2, <1>3, <1>4, <1>5, <1>6 DEF Next

LEMMA Invariance == Spec => []Inv
<1>1. QED
  BY InvInit, InvStep, PTL DEF Spec

(* While the loop sleeps, the state file holds what it has learnt          *)
(* (sync.ts:345-352, README:514).                                          *)
THEOREM Restartable == Spec => []SleepIsRestartable
<1>1. Inv => SleepIsRestartable
  BY DEF Inv, SleepIsRestartable
<1>2. QED
  BY <1>1, Invariance, PTL

(* No cycle that follows another one starts before a Retry-After deadline, *)
(* for every interval, factor and deadline (rateLimit.ts:119-144,          *)
(* sync.ts:325-346, 398-417).                                              *)
THEOREM NeverEarly == Spec => NeverBeforeRetryAfter
<1> DEFINE Waits ==
      pc = "sleep" /\ pc' = "cycle" /\ adaptive /\ Respect
        => deadline = 0 \/ parallel \/ interval * Second > TimerLimit
<1>1. Inv /\ [Next]_vars => [Waits]_vars
  <2> SUFFICES ASSUME Inv, [Next]_vars, pc = "sleep", pc' = "cycle", adaptive, Respect,
                      ~parallel, ~TooLong
               PROVE  deadline = 0
    BY DEF TooLong
  <2>1. sleeping = 0
    BY DEF Next, Tick, StragglersEnd, recordRateLimit, Start, Signal, Crash, Exit, EndCycle,
           Loop, StartDrain, AbandonCycle, Settle, writeRateLimitState, Report, Wake, Finalize,
           Goto, vars
  <2>2. sleeping >= deadline /\ deadline \in Nat
    BY DEF Inv, Covered, TypeOK
  <2>3. QED
    BY <2>1, <2>2
<1>2. QED
  BY <1>1, Invariance, PTL DEF Spec, NeverBeforeRetryAfter
=============================================================================
