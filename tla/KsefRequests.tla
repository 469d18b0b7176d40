----------------------------- MODULE KsefRequests -----------------------------
(***************************************************************************)
(* How the tasks of a process talk to KSeF.  HttpClient.request            *)
(* (src/src/utils/http.ts) repeats a request until KSeF answers it;        *)
(* conversations are made of such requests: a login (auth/authService.ts), *)
(* an export with the download of its package (core/syncSubjectRunner.ts,  *)
(* core/invoicePackageClient.ts) and a direct download                     *)
(* (core/syncService.ts).  They share the tracker of 429 answers           *)
(* (utils/rateLimit.ts) and the certificate that exports are encrypted     *)
(* for.                                                                    *)
(*                                                                         *)
(* A request or its answer may get lost at any point, with or without KSeF *)
(* having done what was asked.  Time is what is left of each delay.        *)
(***************************************************************************)
EXTENDS Integers, Sequences, Functions

CONSTANTS
  None,
  Task,
  Kinds,        \* Kinds[t]: the conversations t may have
  MaxAttempts,  \* operational.retry.*
  BaseDelay, MaxDelay,
  Jitter,       \* the percentage by which a delay may be off
  MaxPolls,     \* operational.authPollMaxAttempts, exportPollMaxAttempts
  PollInterval,
  RetryAfter,   \* ticks an answer may ask to wait
  Parts,        \* the parts a package may have
  TimerLimit    \* the longest delay setTimeout can hold

Kind == {"login", "export", "xml"}
Step == {"challenge", "certificates", "submit", "status", "redeem",
         "certificate", "export", "part", "xml"}
Part == [ordinal: 1..Parts, allowed: BOOLEAN, hashed: BOOLEAN]
Data == [ordinal: 1..Parts, intact: BOOLEAN, hashed: BOOLEAN]

ASSUME RequestsAssumption ==
  /\ Kinds \in [Task -> SUBSET Kind]
  /\ MaxAttempts \in Nat \ {0} /\ MaxPolls \in Nat \ {0}
  /\ BaseDelay \in Nat /\ MaxDelay \in Nat /\ PollInterval \in Nat
  /\ Jitter \in 0..100 /\ RetryAfter \subseteq Nat
  /\ Parts \in Nat /\ TimerLimit \in Nat
  /\ None \notin Nat

VARIABLES
  task,      \* the conversation of each task
  deadline,  \* what is left until retryAfterDeadlineMs
  cached,    \* encryptionCertificate
  told       \* history: what is left of the longest Retry-After of a 429

vars == <<task, deadline, cached, told>>

(* "send": the request is due; "ask": it is under way; "read": its answer  *)
(* is being read; "retry", "poll", "give up": what follows the wait.       *)
Phase == {"send", "ask", "read", "retry", "poll", "give up", "done", "failed"}

Conversation ==
  [kind: Kind, step: Step, phase: Phase,
   attempt: Nat, polls: Nat,
   wait: Nat,                    \* what is left of the sleep
   asked: Nat,                   \* history: what is left of the last Retry-After
   parts: Seq(Part),             \* the parts still to be downloaded
   listed: 0..Parts,             \* how many KSeF has listed
   data: Seq(Data)]              \* decryptedParts

TypeOK ==
  /\ task \in [Task -> Conversation \cup {None}]
  /\ deadline \in Nat /\ told \in Nat
  /\ cached \in BOOLEAN
  /\ \A t \in Task : task[t] # None =>
       task[t].attempt \in 0..MaxAttempts /\ task[t].polls \in 0..MaxPolls

Init ==
  /\ task = [t \in Task |-> None]
  /\ deadline = 0 /\ told = 0 /\ cached = FALSE

-----------------------------------------------------------------------------
(* Delays *)

Least(a, b) == IF a <= b THEN a ELSE b
Most(a, b)  == IF a >= b THEN a ELSE b
Less(n)     == IF n = 0 THEN 0 ELSE n - 1

calculateBackoff(a) ==
  LET exp == Least(MaxDelay, BaseDelay * 2 ^ (a - 1))
  IN {d \in 0..2 * MaxDelay : /\ (exp * (100 - Jitter)) \div 100 <= d
                              /\ d <= (exp * (100 + Jitter)) \div 100}

(* A Retry-After that is no number of seconds counts as none.              *)
Delay(r, a) == IF r = None THEN calculateBackoff(a) ELSE {r}

Asked(r) == IF r = None THEN 0 ELSE r

(* setTimeout: a delay it cannot hold is no delay at all.                  *)
sleep(d) == IF d > TimerLimit THEN 0 ELSE d

(* The wait of a 429 is cut into steps that a timer can hold.              *)
sleepWithCountdown(d) == d

Tick ==
  /\ task' = [t \in Task |->
                IF task[t] = None THEN None
                ELSE [task[t] EXCEPT !.wait = Less(@), !.asked = Less(@)]]
  /\ deadline' = Less(deadline) /\ told' = Less(told)
  /\ UNCHANGED cached

-----------------------------------------------------------------------------
(* HttpClient.request *)

At(t, ph) == task[t] # None /\ task[t].phase = ph
Goto(t, c) == task' = [task EXCEPT ![t] = c]

Fail(c) == [c EXCEPT !.phase = "failed"]

(* Mutant: the first attempt is not counted.                               *)
MayRetryOnceMore(c) == c.attempt <= MaxAttempts

MayRetry(c) == c.attempt < MaxAttempts

Send(t) ==
  /\ At(t, "send")
  /\ Goto(t, [task[t] EXCEPT !.phase = "ask", !.attempt = @ + 1, !.asked = 0])
  /\ UNCHANGED <<deadline, cached, told>>

(* Mutant: only a 429 that is waited for is reported.                      *)
RateLimitQuiet(t, r) ==
  LET c == task[t] IN
  /\ At(t, "ask")
  /\ \E d \in Delay(r, c.attempt) :
       /\ deadline' = IF MayRetry(c) THEN Most(deadline, d) ELSE deadline
       /\ Goto(t, IF MayRetry(c)
                  THEN [c EXCEPT !.phase = "retry", !.wait = sleepWithCountdown(d),
                                 !.asked = Asked(r)]
                  ELSE Fail(c))
  /\ told' = IF r = None THEN told ELSE Most(told, r)
  /\ UNCHANGED cached

(* 429: every one is reported, also the one that ends the request.         *)
RateLimit(t, r) ==
  LET c == task[t] IN
  /\ At(t, "ask")
  /\ \E d \in Delay(r, c.attempt) :
       /\ deadline' = Most(deadline, d)
       /\ Goto(t, IF MayRetry(c)
                  THEN [c EXCEPT !.phase = "retry", !.wait = sleepWithCountdown(d),
                                 !.asked = Asked(r)]
                  ELSE Fail(c))
  /\ told' = IF r = None THEN told ELSE Most(told, r)
  /\ UNCHANGED cached

(* Mutant: only a 429 is asked how long to wait.                           *)
ServerErrorBackoff(t, r) ==
  LET c == task[t] IN
  /\ At(t, "ask")
  /\ \E d \in calculateBackoff(c.attempt) :
       Goto(t, IF MayRetry(c)
               THEN [c EXCEPT !.phase = "retry", !.wait = sleep(d),
                              !.asked = sleep(Asked(r))]
               ELSE Fail(c))
  /\ UNCHANGED <<deadline, cached, told>>

(* 5xx, whose Retry-After is waited for, too.                              *)
ServerError(t, r) ==
  LET c == task[t] IN
  /\ At(t, "ask")
  /\ \E d \in Delay(r, c.attempt) :
       Goto(t, IF MayRetry(c)
               THEN [c EXCEPT !.phase = "retry", !.wait = sleep(d),
                              !.asked = sleep(Asked(r))]
               ELSE Fail(c))
  /\ UNCHANGED <<deadline, cached, told>>

(* Any other status of 4xx ends the request: AuthError, NetworkError.      *)
Refuse(t) ==
  /\ At(t, "ask")
  /\ Goto(t, Fail(task[t]))
  /\ UNCHANGED <<deadline, cached, told>>

Accept(t) ==
  /\ At(t, "ask")
  /\ Goto(t, [task[t] EXCEPT !.phase = "read"])
  /\ UNCHANGED <<deadline, cached, told>>

(* No connection, no answer in time or no end of it, or one that does not  *)
(* parse: the catch block.                                                 *)
NetworkFailure(t) ==
  LET c == task[t] IN
  /\ At(t, "ask") \/ At(t, "read")
  /\ \E d \in calculateBackoff(c.attempt) :
       Goto(t, IF MayRetry(c) THEN [c EXCEPT !.phase = "retry", !.wait = sleep(d)]
               ELSE Fail(c))
  /\ UNCHANGED <<deadline, cached, told>>

(* Mutant: the timer is cleared once the headers have come.                *)
TimeoutHeaders(t) == At(t, "ask") /\ NetworkFailure(t)

(* The timer of the attempt aborts it, whatever it waits for.              *)
Timeout(t) == NetworkFailure(t)

Retry(t) ==
  /\ At(t, "retry") /\ task[t].wait = 0
  /\ Goto(t, [task[t] EXCEPT !.phase = "send"])
  /\ UNCHANGED <<deadline, cached, told>>

-----------------------------------------------------------------------------
(* Conversations *)

Ask(c, s)  == [c EXCEPT !.step = s, !.phase = "send", !.attempt = 0, !.asked = 0]
Finish(c) == [c EXCEPT !.phase = "done"]

Begin(kind, s) ==
  [kind |-> kind, step |-> s, phase |-> "send", attempt |-> 0, polls |-> 0,
   wait |-> 0, asked |-> 0, parts |-> <<>>, listed |-> 0, data |-> <<>>]

(* A task begins its next conversation, whatever became of the last one.   *)
Start(t, kind) ==
  /\ task[t] = None \/ At(t, "done") \/ At(t, "failed")
  /\ kind \in Kinds[t]
  /\ Goto(t, Begin(kind, CASE kind = "login" -> "challenge"
                           [] kind = "export" -> IF cached THEN "export" ELSE "certificate"
                           [] kind = "xml" -> "xml"))
  /\ UNCHANGED <<deadline, cached, told>>

(* authenticate: a challenge, the certificates, the encrypted token, the   *)
(* outcome, the tokens.                                                    *)
authenticate(t) ==
  LET c == task[t] IN
  /\ At(t, "read") /\ c.kind = "login"
  /\ \/ c.step = "challenge" /\ Goto(t, Ask(c, "certificates"))
     \/ c.step = "certificates" /\ Goto(t, Ask(c, "submit"))
     \/ c.step = "submit" /\ Goto(t, Ask(c, "status"))
     \/ c.step = "redeem" /\ Goto(t, Finish(c))
  /\ UNCHANGED <<deadline, cached, told>>

(* What came cannot be used: no certificate of the wanted usage, no valid  *)
(* timestamp, an invoice that is too large.                                *)
Unusable(t) ==
  /\ At(t, "read")
  /\ task[t].step \in {"challenge", "certificates", "certificate", "xml"}
  /\ Goto(t, Fail(task[t]))
  /\ UNCHANGED <<deadline, cached, told>>

getEncryptionCertificate(t) ==
  /\ At(t, "read") /\ task[t].step = "certificate"
  /\ cached' = TRUE
  /\ Goto(t, Ask(task[t], "export"))
  /\ UNCHANGED <<deadline, told>>

exportInvoices(t) ==
  /\ At(t, "read") /\ task[t].step = "export"
  /\ Goto(t, Ask(task[t], "status"))
  /\ UNCHANGED <<deadline, cached, told>>

downloadInvoiceXml(t) ==
  /\ At(t, "read") /\ task[t].step = "xml"
  /\ Goto(t, Finish(task[t]))
  /\ UNCHANGED <<deadline, cached, told>>

(* waitForExport and waitForAuthCompletion: not decided yet.               *)
Pending(t) ==
  LET c == task[t] IN
  /\ At(t, "read") /\ c.step = "status"
  /\ Goto(t, [c EXCEPT !.phase = IF c.polls + 1 < MaxPolls THEN "poll" ELSE "give up",
                       !.polls = @ + 1, !.wait = sleep(PollInterval)])
  /\ UNCHANGED <<deadline, cached, told>>

PollAgain(t) ==
  /\ At(t, "poll") /\ task[t].wait = 0
  /\ Goto(t, Ask(task[t], "status"))
  /\ UNCHANGED <<deadline, cached, told>>

GiveUp(t) ==
  /\ At(t, "give up") /\ task[t].wait = 0
  /\ Goto(t, Fail(task[t]))
  /\ UNCHANGED <<deadline, cached, told>>

(* A status of 400 or more: the login or the export has failed.            *)
StatusFailed(t) ==
  /\ At(t, "read") /\ task[t].step = "status"
  /\ Goto(t, Fail(task[t]))
  /\ UNCHANGED <<deadline, cached, told>>

LoggedIn(t) ==
  /\ At(t, "read") /\ task[t].step = "status" /\ task[t].kind = "login"
  /\ Goto(t, Ask(task[t], "redeem"))
  /\ UNCHANGED <<deadline, cached, told>>

(* KSeF numbers the parts of a package from 1 and lists them in any order; *)
(* their hashes may be missing, and a link may lead to a host that is not  *)
(* allowed.                                                                *)
Orders == {f \in [1..Parts -> 1..Parts] : \A k \in 1..Parts : \E i \in 1..Parts : f[i] = k}

Listings ==
  {<<>>} \cup
  {[i \in 1..Parts |-> [ordinal |-> o[i], allowed |-> i # bad, hashed |-> h]] :
     o \in Orders, bad \in 0..Parts, h \in BOOLEAN}

(* Mutant: the parts are taken in the order KSeF lists them in.            *)
InListedOrder(parts) == parts

InOrder(parts) == [i \in 1..Len(parts) |-> CHOOSE p \in Range(parts) : p.ordinal = i]

(* The host of the next link is checked before it is asked.                *)
NextPart(c) ==
  IF c.parts = <<>> THEN Finish(c)
  ELSE IF Head(c.parts).allowed THEN Ask(c, "part") ELSE Fail(c)

Exported(t) ==
  /\ At(t, "read") /\ task[t].step = "status" /\ task[t].kind = "export"
  /\ \E l \in Listings :
       Goto(t, NextPart([task[t] EXCEPT !.parts = InOrder(l), !.listed = Len(l)]))
  /\ UNCHANGED <<deadline, cached, told>>

(* A part that is not what KSeF has stored is noticed by its hash, if it   *)
(* has one.                                                                *)
downloadAndDecryptPart(t, ok) ==
  LET c == task[t]  p == Head(c.parts) IN
  /\ At(t, "read") /\ c.step = "part"
  /\ Goto(t, IF p.hashed /\ ~ok THEN Fail(c)
             ELSE NextPart([c EXCEPT !.parts = Tail(@),
                            !.data = Append(@, [ordinal |-> p.ordinal, intact |-> ok,
                                                hashed |-> p.hashed])]))
  /\ UNCHANGED <<deadline, cached, told>>

(* It does not decrypt, or the package is too large.                       *)
DecryptFails(t) ==
  /\ At(t, "read") /\ task[t].step = "part"
  /\ Goto(t, Fail(task[t]))
  /\ UNCHANGED <<deadline, cached, told>>

-----------------------------------------------------------------------------

(* The answer to a request.                                                *)
Ksef(t) ==
  \/ Refuse(t) \/ Accept(t) \/ NetworkFailure(t)
  \/ \E r \in RetryAfter \cup {None} : RateLimit(t, r) \/ ServerError(t, r)

(* What a process does with it.                                            *)
Usable(t) ==
  \/ authenticate(t) \/ getEncryptionCertificate(t) \/ exportInvoices(t)
  \/ downloadInvoiceXml(t) \/ LoggedIn(t) \/ Exported(t)
  \/ \E ok \in BOOLEAN : downloadAndDecryptPart(t, ok)

Work(t) ==
  \/ Send(t) \/ Retry(t) \/ PollAgain(t) \/ GiveUp(t)

Next ==
  \/ Tick
  \/ \E t \in Task :
       \/ Ksef(t) \/ Work(t) \/ Timeout(t)
       \/ Usable(t) \/ Unusable(t) \/ Pending(t) \/ StatusFailed(t) \/ DecryptFails(t)
       \/ \E kind \in Kind : Start(t, kind)

Spec == Init /\ [][Next]_vars

(* Timers fire and the process goes on; nothing is expected of KSeF.       *)
FairSpec ==
  /\ Spec /\ WF_vars(Tick)
  /\ \A t \in Task : WF_vars(Work(t)) /\ WF_vars(Timeout(t))

-----------------------------------------------------------------------------
(* A request is not repeated before the time KSeF has asked for, unless a  *)
(* 5xx has asked for longer than a timer can hold (README:491,             *)
(* http.ts:242-290).                                                       *)
RetryAfterIsKept ==
  [][\A t \in Task : At(t, "retry") /\ At(t, "send")' => task[t].asked = 0]_vars

(* The tracker knows the furthest deadline of all 429s of all tasks, those *)
(* that end their request included (http.ts:257-265).                      *)
RateLimitsAreReported == told <= deadline

(* What a download hands on is the whole package, its parts in order, and  *)
(* whatever has a hash is what KSeF has stored, in whichever order the     *)
(* parts were listed, repeated or failed (invoicePackageClient.ts:67-136). *)
PackageIsWhole ==
  \A t \in Task : At(t, "done") /\ task[t].kind = "export" =>
    /\ Len(task[t].data) = task[t].listed
    /\ \A i \in 1..Len(task[t].data) :
         /\ task[t].data[i].ordinal = i
         /\ task[t].data[i].hashed => task[t].data[i].intact

(* A conversation ends, whether KSeF answers, limits, hangs in the middle  *)
(* of an answer, never decides or never answers (http.ts:220-361,          *)
(* invoicePackageClient.ts:34-64).                                         *)
EveryConversationEnds ==
  \A t \in Task :
    task[t] # None ~> At(t, "done") \/ At(t, "failed")
=============================================================================
