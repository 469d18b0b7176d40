------------------------------ MODULE WatchLoop ------------------------------
(***************************************************************************)
(* When the watch service polls: the loop of `sync --watch` (and of the    *)
(* daemon command) in src/src/cli/commands/sync.ts, the tracker of KSeF's  *)
(* 429 answers and the interval derived from it (utils/rateLimit.ts), the  *)
(* file that carries both over a restart, and the way a signal ends the    *)
(* loop (utils/serviceLifecycle.ts).  What a cycle does is SyncCycle's     *)
(* subject; here it takes any time, may meet 429s and may never end.       *)
(*                                                                         *)
(* Time is what is left of each deadline, in ticks; Second ticks make a    *)
(* second, the unit of the interval.  A deadline in the past and no        *)
(* deadline are both 0: the code never tells them apart.                   *)
(***************************************************************************)
EXTENDS Integers

CONSTANTS
  None,
  Second,       \* ticks per second
  Poll,         \* pollingIntervalSeconds
  MinInterval,  \* sync.adaptivePolling.*
  MaxInterval,
  Growth, Decay,
  Respect,
  Modes,        \* values sync.adaptivePolling.enabled may have at a start
  RetryAfter,   \* ticks a 429 answer may ask to wait
  Drain,        \* shutdownDrainMs
  TimerLimit    \* the longest delay setTimeout can hold

Factor == (Nat \ {0}) \X (Nat \ {0})

ASSUME LoopAssumption ==
  /\ Second \in Nat \ {0} /\ Poll \in Nat \ {0}
  /\ MinInterval \in Nat \ {0} /\ MaxInterval \in Nat \ {0}
  /\ Growth \in Factor /\ Decay \in Factor
  /\ Respect \in BOOLEAN /\ Modes \subseteq BOOLEAN
  /\ RetryAfter \subseteq Nat /\ Drain \in Nat /\ TimerLimit \in Nat
ASSUME NoneIsNoRecord == None \notin [interval : Nat, deadline : Nat]

VARIABLES
  pc,
  adaptive,    \* config.sync.adaptivePolling.enabled of this process
  parallel,    \* its maxConcurrentNips > 1: a failed cycle leaves tasks behind
  stop,        \* stopRequested
  interval,    \* intervalSeconds
  limited,     \* rateLimitCount > 0
  deadline,    \* what is left until retryAfterDeadlineMs
  sleeping,    \* what is left of the sleep between two cycles
  draining,    \* what is left of the drain
  saved,       \* state/rateLimit.json
  stragglers   \* tasks of an earlier cycle are still running

vars == <<pc, adaptive, parallel, stop, interval, limited, deadline, sleeping,
          draining, saved, stragglers>>

PC == {"down", "cycle", "drain", "settle", "save", "report", "sleep"}

TypeOK ==
  /\ pc \in PC
  /\ adaptive \in BOOLEAN /\ stop \in BOOLEAN /\ limited \in BOOLEAN
  /\ stragglers \in BOOLEAN /\ parallel \in BOOLEAN
  /\ interval \in Nat \ {0}
  /\ deadline \in Nat /\ sleeping \in Nat /\ draining \in Nat
  /\ saved \in {None} \cup [interval : Nat \ {0}, deadline : Nat]

Init ==
  /\ pc = "down" /\ adaptive = TRUE /\ parallel = FALSE /\ stop = FALSE
  /\ interval = Poll /\ limited = FALSE
  /\ deadline = 0 /\ sleeping = 0 /\ draining = 0
  /\ saved = None /\ stragglers = FALSE

-----------------------------------------------------------------------------
(* The interval *)

Least(a, b) == IF a <= b THEN a ELSE b
Most(a, b)  == IF a >= b THEN a ELSE b

(* Math.ceil(ms / 1000) and Math.round(seconds * factor).                  *)
CeilSeconds(t) == (t + Second - 1) \div Second
Round(s, f) == (2 * s * f[1] + f[2]) \div (2 * f[2])

clampIntervalSeconds(s) ==
  Least(Most(MinInterval, MaxInterval), Most(MinInterval, s))

Floor(d) == IF Respect THEN CeilSeconds(d) ELSE 0

(* Mutant: the interval is cut off, and nothing is clamped.                *)
computeNextIntervalSecondsUnclamped(s, had, d) ==
  LET f == IF had THEN Growth ELSE Decay IN Most((s * f[1]) \div f[2], Floor(d))

(* Mutant: the deadline, too, is clamped to the configured bounds.         *)
computeNextIntervalSecondsClamped(s, had, d) ==
  clampIntervalSeconds(Most(Round(s, IF had THEN Growth ELSE Decay), Floor(d)))

computeNextIntervalSeconds(s, had, d) ==
  Most(clampIntervalSeconds(Round(s, IF had THEN Growth ELSE Decay)), Floor(d))

(* setTimeout: a delay it cannot hold is no delay at all.                  *)
Sleep(s) == IF s * Second > TimerLimit THEN 0 ELSE s * Second

-----------------------------------------------------------------------------
(* Time and KSeF *)

Less(t) == IF t = 0 THEN 0 ELSE t - 1

Tick ==
  /\ deadline' = Less(deadline)
  /\ sleeping' = Less(sleeping)
  /\ draining' = Less(draining)
  /\ saved' = IF saved = None THEN None ELSE [saved EXCEPT !.deadline = Less(saved.deadline)]
  /\ UNCHANGED <<pc, adaptive, parallel, stop, interval, limited, stragglers>>

Working == pc \in {"cycle", "drain"} \/ stragglers

(* A 429: the furthest deadline counts.                                    *)
recordRateLimit(d) ==
  /\ pc # "down" /\ Working
  /\ limited' = TRUE
  /\ deadline' = Most(deadline, d)
  /\ UNCHANGED <<pc, adaptive, parallel, stop, interval, sleeping, draining,
                 saved, stragglers>>

(* The tasks that a failed parallel cycle left behind come to their end.   *)
StragglersEnd ==
  /\ stragglers
  /\ stragglers' = FALSE
  /\ UNCHANGED <<pc, adaptive, parallel, stop, interval, limited, deadline,
                 sleeping, draining, saved>>

-----------------------------------------------------------------------------
(* The process *)

(* The state file, which may be missing, unreadable or corrupt.            *)
readRateLimitState == {saved, None}

Start(a, par) ==
  /\ pc = "down"
  /\ pc' = "cycle" /\ adaptive' = a /\ parallel' = par /\ stop' = FALSE
  /\ limited' = FALSE /\ sleeping' = 0 /\ draining' = 0
  /\ stragglers' = FALSE
  /\ \E s \in readRateLimitState :
       IF a /\ s # None
       THEN interval' = clampIntervalSeconds(s.interval) /\ deadline' = s.deadline
       ELSE interval' = Poll /\ deadline' = 0
  /\ UNCHANGED saved

Exit ==
  /\ pc' = "down" /\ stragglers' = FALSE
  /\ UNCHANGED <<adaptive, parallel, stop, interval, limited, deadline,
                 sleeping, draining, saved>>

Signal ==
  /\ pc # "down" /\ ~stop
  /\ stop' = TRUE
  /\ UNCHANGED <<pc, adaptive, parallel, interval, limited, deadline,
                 sleeping, draining, saved, stragglers>>

(* A write or a read between two cycles throws, or the process dies.       *)
Crash == pc # "down" /\ Exit

-----------------------------------------------------------------------------
(* The loop *)

Goto(l) == pc' = l

EndCycle ==
  /\ pc \in {"cycle", "drain"}
  /\ Goto(IF adaptive THEN "settle" ELSE "report")
  /\ stragglers' \in {stragglers, parallel}
  /\ UNCHANGED <<adaptive, parallel, stop, interval, limited, deadline,
                 sleeping, draining, saved>>

StartDrain ==
  /\ pc = "cycle" /\ stop
  /\ Goto("drain")
  /\ draining' = Drain
  /\ UNCHANGED <<adaptive, parallel, stop, interval, limited, deadline,
                 sleeping, saved, stragglers>>

(* Mutant: the loop waits for the cycle for as long as it takes.           *)
AbandonCycleNever == pc = "drain" /\ FALSE /\ Exit

AbandonCycle == pc = "drain" /\ draining = 0 /\ Exit

(* Mutant: the cycle's 429s are counted again in the next one.             *)
SettleWithoutReset ==
  /\ pc = "settle"
  /\ interval' = computeNextIntervalSeconds(interval, limited, deadline)
  /\ Goto("save")
  /\ UNCHANGED <<adaptive, parallel, stop, limited, deadline, sleeping,
                 draining, saved, stragglers>>

(* completeCycle, and the interval to the next cycle.                      *)
Settle ==
  /\ pc = "settle"
  /\ interval' = computeNextIntervalSeconds(interval, limited, deadline)
  /\ limited' = FALSE
  /\ Goto("save")
  /\ UNCHANGED <<adaptive, parallel, stop, deadline, sleeping, draining,
                 saved, stragglers>>

(* Mutant: the deadline is not saved.                                      *)
writeRateLimitStateBare ==
  /\ pc = "save"
  /\ saved' = [interval |-> interval, deadline |-> 0]
  /\ Goto("report")
  /\ UNCHANGED <<adaptive, parallel, stop, interval, limited, deadline,
                 sleeping, draining, stragglers>>

writeRateLimitState ==
  /\ pc = "save"
  /\ saved' = [interval |-> interval, deadline |-> deadline]
  /\ Goto("report")
  /\ UNCHANGED <<adaptive, parallel, stop, interval, limited, deadline,
                 sleeping, draining, stragglers>>

Report ==
  /\ pc = "report" /\ ~stop
  /\ Goto("sleep")
  /\ sleeping' = Sleep(interval)
  /\ UNCHANGED <<adaptive, parallel, stop, interval, limited, deadline,
                 draining, saved, stragglers>>

Wake ==
  /\ pc = "sleep" /\ sleeping = 0 /\ ~stop
  /\ Goto("cycle")
  /\ UNCHANGED <<adaptive, parallel, stop, interval, limited, deadline,
                 sleeping, draining, saved, stragglers>>

Finalize == pc \in {"report", "sleep"} /\ stop /\ Exit

Loop ==
  \/ StartDrain \/ AbandonCycle \/ Settle \/ writeRateLimitState
  \/ Report \/ Wake \/ Finalize

Next ==
  \/ Tick \/ StragglersEnd \/ \E d \in RetryAfter : recordRateLimit(d)
  \/ \E a \in Modes, par \in BOOLEAN : Start(a, par)
  \/ Signal \/ Crash \/ EndCycle \/ Loop

Spec == Init /\ [][Next]_vars

(* Timers fire and the loop goes on; nothing says that a cycle ends.       *)
FairSpec == Spec /\ WF_vars(Tick) /\ WF_vars(Loop)

(* From some time on KSeF answers, cycles end, and the service is neither  *)
(* stopped nor dies.                                                       *)
Disturbance == Signal \/ Crash \/ \E d \in RetryAfter : recordRateLimit(d)
Calm ==
  /\ WF_vars(EndCycle) /\ WF_vars(StragglersEnd)
  /\ <>[][~Disturbance]_vars

-----------------------------------------------------------------------------
(* A cycle that follows another one never starts before the furthest       *)
(* Retry-After deadline KSeF has given, however the interval grows, decays *)
(* or is clamped (README:511-512), as long as NIPs are synchronized one    *)
(* after the other and the timer can hold the interval.                    *)
NeverBeforeRetryAfter ==
  [][pc = "sleep" /\ pc' = "cycle" /\ adaptive /\ Respect
       => deadline = 0 \/ parallel \/ interval * Second > TimerLimit]_vars

(* While the loop sleeps a crash loses nothing of what it has learnt: the  *)
(* state file holds the interval in force and the deadline (README:514).   *)
SleepIsRestartable ==
  pc = "sleep" /\ adaptive /\ ~parallel =>
    saved = [interval |-> interval, deadline |-> deadline]

(* A signal ends the service even if the cycle in flight never ends        *)
(* (sync.ts:307-320, CHANGELOG.md:68: "drained on `SIGTERM`").             *)
StopEnds == stop ~> pc = "down"

(* Where nothing disturbs it any more a service that is up keeps polling,  *)
(* and the interval comes back to the minimum: no 429 is counted for ever, *)
(* and no rounding stops the decay on its way (rateLimit.ts:84-144).       *)
BackToFloor ==
  Calm =>
    \/ <>[](pc = "down")
    \/ /\ []<>(pc = "cycle")
       /\ <>[](pc \in {"save", "report", "sleep"} /\ adaptive => interval = MinInterval)
=============================================================================
