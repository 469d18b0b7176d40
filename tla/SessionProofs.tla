---------------------------- MODULE SessionProofs -----------------------------
(* Proofs about Session, for any number of commands, secrets and aliases.  *)
EXTENDS Session, TLAPS

(* What a command carries where it is.                                     *)
Carries(c) ==
  /\ c.pc = "refresh" => c.tokens # None
  /\ c.pc = "alias" => c.next >= 1
  /\ c.pc \in {"copy", "drop"} => c.next \in DOMAIN Aliases
  /\ c.pc \in {"copy", "drop", "write"} => c.entry # None

TInv == TypeOK /\ \A p \in Proc : Carries(proc[p])

-----------------------------------------------------------------------------
(* The constants are distinct where the assumption says so.                *)
LEMMA NoneIsNothing ==
  None \notin Secret /\ None \notin Account /\ None \notin Pair /\ None \notin Entry
BY SessionAssumption

LEMMA IdleType == Idle \in Command /\ Carries(Idle) /\ ~Idle.seen /\ Idle.pc = "idle" /\ ~Idle.stale
BY DEF Idle, Command, Carries, Maybe, Job, PC

(* What getEntry returns is acted upon in a well-typed way: only a command *)
(* that has found an entry writes one, and a session keeps its secret.     *)
LEMMA ResumeType ==
  ASSUME NEW c \in Command, NEW e \in Maybe(Entry)
  PROVE  /\ Resume(c, e) \in Command
         /\ Carries(Resume(c, e))
         /\ Resume(c, e).pc \notin {"alias", "copy", "drop", "list"}
         /\ Resume(c, e).seen => c.seen
         /\ Resume(c, e).pc = "write" /\ Resume(c, e).job = "access" =>
              e # None /\ Resume(c, e).entry.secret = e.secret
<1> DEFINE Typed(r) ==
         /\ r \in Command
         /\ Carries(r)
         /\ r.pc \notin {"alias", "copy", "drop", "list"}
         /\ r.seen => c.seen
         /\ r.pc = "write" /\ r.job = "access" => e # None /\ r.entry.secret = e.secret
<1>1. Typed(Idle)
  BY IdleType
<1>2. Typed(Login(c)) /\ \A s \in Secret : Typed(Login([c EXCEPT !.secret = s]))
  BY DEF Login, Command, Carries, Maybe, PC
<1>3. e # None => e \in Entry /\ e.secret \in Secret /\ e.pair \in Maybe(Pair)
  BY DEF Maybe, Entry
<1>4. Typed(Resolve(c, e))
  <2>1. CASE e = None
    BY <1>1, <2>1 DEF Resolve
  <2>2. CASE e # None /\ e.pair # None /\ e.pair.access # "expired"
    <3> DEFINE r == [Idle EXCEPT !.job = c.job, !.pc = "work", !.tokens = e.pair]
    <3>1. r \in Command /\ r.pc = "work" /\ r.seen = FALSE
      BY <1>3, <2>2 DEF Idle, Command, Maybe, Job, PC
    <3>2. Typed(r)
      BY <3>1 DEF Carries
    <3> QED
      BY <2>2, <3>2 DEF Resolve
  <2>3. CASE e # None /\ e.pair # None /\ e.pair.access = "expired" /\ e.pair.refresh # "expired"
    <3> DEFINE r == [c EXCEPT !.pc = "refresh", !.secret = e.secret, !.tokens = e.pair]
    <3>1. r \in Command /\ r.pc = "refresh" /\ r.seen = c.seen /\ r.tokens = e.pair
      BY <1>3, <2>3 DEF Command, Maybe, PC
    <3>2. Typed(r)
      BY <2>3, <3>1 DEF Carries
    <3> QED
      BY <2>3, <3>2 DEF Resolve
  <2>4. CASE e # None /\ (e.pair = None \/ (e.pair.access = "expired" /\ e.pair.refresh = "expired"))
    BY <1>2, <1>3, <2>4 DEF Resolve
  <2> QED
    BY <2>1, <2>2, <2>3, <2>4
<1>5. Typed(MergeTokens(c, e))
  <2>1. CASE e # None
    <3> DEFINE n == [secret |-> e.secret, pair |-> c.tokens]
               r == [c EXCEPT !.pc = "write", !.entry = n]
    <3>1. n \in Entry /\ n # None
      BY <1>3, <2>1, NoneIsNothing DEF Entry, Command
    <3>2. r \in Command /\ r.pc = "write" /\ r.seen = c.seen /\ r.entry = n
      BY <3>1 DEF Command, Maybe, PC
    <3>3. Typed(r)
      BY <2>1, <3>1, <3>2 DEF Carries
    <3> QED
      BY <2>1, <3>3 DEF MergeTokens
  <2> QED
    BY <1>1, <1>2, <2>1 DEF MergeTokens
<1>6. ASSUME c.secret # None, c.job # "access" PROVE Typed(MergeSecret(c, e))
  <2> DEFINE n == [secret |-> c.secret, pair |-> IF e = None THEN None ELSE e.pair]
             r == [c EXCEPT !.pc = "write", !.entry = n]
  <2>1. n \in Entry /\ n # None
    BY <1>3, <1>6, NoneIsNothing DEF Entry, Command, Maybe
  <2>2. r \in Command /\ r.pc = "write" /\ r.seen = c.seen /\ r.entry = n /\ r.job = c.job
    BY <2>1 DEF Command, Maybe, PC
  <2>3. Typed(r)
    BY <1>6, <2>1, <2>2 DEF Carries
  <2> QED
    BY <2>3 DEF MergeSecret
<1>7. \A q \in {"prompt", "config"} :
        Typed([Idle EXCEPT !.job = c.job, !.seen = c.seen, !.pc = q])
  BY DEF Idle, Command, Carries, Maybe, PC, Job
<1>8. Typed(Resume(c, e))
  BY <1>1, <1>4, <1>5, <1>6, <1>7 DEF Resume
<1> QED
  BY <1>8

(* A command that finds an entry and writes it has read it just then.      *)
LEMMA ResumeStale ==
  ASSUME NEW c \in Command, NEW e, Resume(c, e).pc = "write"
  PROVE  Resume(c, e).stale = c.stale
BY DEF Resume, Resolve, MergeTokens, MergeSecret, Login, Idle, Command

ProcInv == proc \in [Proc -> Command] /\ \A p \in Proc : Carries(proc[p])

LEMMA SetType ==
  ASSUME ProcInv, NEW p \in Proc, NEW c \in Command, Carries(c),
         Set(p, c) \/ SetAndOutdate(p, c)
  PROVE  ProcInv'
<1>1. \A d \in Command : [d EXCEPT !.stale = TRUE] \in Command
  BY DEF Command
<1>2. \A d \in Command : Carries(d) => Carries([d EXCEPT !.stale = TRUE])
  BY DEF Command, Carries
<1> QED
  BY <1>1, <1>2 DEF ProcInv, Set, SetAndOutdate, Carries

LEMMA InitType == Init => TInv
<1> SUFFICES ASSUME Init PROVE TInv
  OBVIOUS
<1>1. \A s \in Secret : [secret |-> s, pair |-> None] \in Maybe(Entry)
  BY DEF Maybe, Entry
<1>2. store \in [Account -> Maybe(Entry)] /\ listed \in BOOLEAN /\ credential \in {"never", "held", "removed"}
  BY <1>1 DEF Init, Maybe
<1> QED
  BY <1>2, IdleType DEF Init, TInv, TypeOK

(* Whatever happens to the tokens, entries and commands stay what they are.*)
LEMMA TokensType ==
  ASSUME TInv, ExpireAccess \/ ExpireRefresh \/ Invalidate
  PROVE  /\ TInv'
         /\ \A a \in Account : /\ (store'[a] = None) <=> (store[a] = None)
                               /\ store[a] # None => store'[a].secret = store[a].secret
         /\ \A p \in Proc : /\ proc'[p].pc = proc[p].pc /\ proc'[p].stale = proc[p].stale
                            /\ proc'[p].seen = proc[p].seen /\ proc'[p].job = proc[p].job
                            /\ (proc'[p].entry = None) <=> (proc[p].entry = None)
                            /\ proc[p].entry # None => proc'[p].entry.secret = proc[p].entry.secret
         /\ UNCHANGED <<listed, credential>>
<1> DEFINE InE(e, pr) == IF e = None THEN None ELSE [e EXCEPT !.pair = pr]
           Mapped ==
             /\ \A a \in Account : \E pr \in Maybe(Pair) : store'[a] = InE(store[a], pr)
             /\ \A p \in Proc : \E pr \in Maybe(Pair), ts \in Maybe(Pair) :
                  /\ (ts = None) <=> (proc[p].tokens = None)
                  /\ proc'[p] = [proc[p] EXCEPT !.entry = InE(@, pr), !.tokens = ts]
             /\ store' = [a \in Account |-> store'[a]] /\ proc' = [p \in Proc |-> proc'[p]]
             /\ UNCHANGED <<listed, credential>>
<1>1. \A e \in Maybe(Entry), pr \in Maybe(Pair) :
        /\ InE(e, pr) \in Maybe(Entry) /\ (InE(e, pr) = None <=> e = None)
        /\ e # None => InE(e, pr).secret = e.secret
  BY NoneIsNothing DEF Entry, Maybe
<1>2. Mapped
  <2>1. \A pr \in Maybe(Pair) :
          /\ Changed(Expired, Same, pr) \in Maybe(Pair) /\ (Changed(Expired, Same, pr) = None <=> pr = None)
          /\ Changed(Same, Expired, pr) \in Maybe(Pair) /\ (Changed(Same, Expired, pr) = None <=> pr = None)
          /\ Changed(Dead, Dead, pr) \in Maybe(Pair) /\ (Changed(Dead, Dead, pr) = None <=> pr = None)
          /\ Changed(Dead, Same, pr) \in Maybe(Pair) /\ (Changed(Dead, Same, pr) = None <=> pr = None)
    BY NoneIsNothing DEF Changed, Expired, Same, Dead, Pair, Token, Maybe
  <2>2. \A e \in Maybe(Entry) : e # None => e.pair \in Maybe(Pair)
    BY DEF Entry, Maybe
  <2>3. \A p \in Proc : proc[p] \in Command /\ proc[p].tokens \in Maybe(Pair) /\ proc[p].entry \in Maybe(Entry)
    BY DEF TInv, TypeOK, Command
  <2>4. \A a \in Account : store[a] \in Maybe(Entry)
    BY DEF TInv, TypeOK
  <2>5. CASE ExpireAccess
    BY <2>1, <2>2, <2>3, <2>4, <2>5 DEF ExpireAccess, Tokens, Maybe
  <2>6. CASE ExpireRefresh
    BY <2>1, <2>2, <2>3, <2>4, <2>6 DEF ExpireRefresh, Tokens, Maybe
  <2>7. CASE Tokens(Dead, Dead)
    BY <2>1, <2>2, <2>3, <2>4, <2>7 DEF Tokens, Maybe
  <2>8. CASE Tokens(Dead, Same)
    BY <2>1, <2>2, <2>3, <2>4, <2>8 DEF Tokens, Maybe
  <2> QED
    BY <2>5, <2>6, <2>7, <2>8 DEF Invalidate
<1>3. \A a \in Account : /\ store'[a] \in Maybe(Entry)
                         /\ (store'[a] = None) <=> (store[a] = None)
                         /\ store[a] # None => store'[a].secret = store[a].secret
  <2> TAKE a \in Account
  <2>1. store[a] \in Maybe(Entry)
    BY DEF TInv, TypeOK
  <2>2. PICK pr \in Maybe(Pair) : store'[a] = InE(store[a], pr)
    BY <1>2
  <2> HIDE DEF InE
  <2> QED
    BY <1>1, <2>1, <2>2
<1>4. ASSUME NEW p \in Proc
      PROVE  /\ proc'[p] \in Command /\ Carries(proc'[p])
             /\ proc'[p].pc = proc[p].pc /\ proc'[p].stale = proc[p].stale
             /\ proc'[p].seen = proc[p].seen /\ proc'[p].job = proc[p].job
             /\ (proc'[p].entry = None) <=> (proc[p].entry = None)
             /\ proc[p].entry # None => proc'[p].entry.secret = proc[p].entry.secret
  <2>1. proc[p] \in Command /\ Carries(proc[p]) /\ proc[p].entry \in Maybe(Entry)
    BY DEF TInv, TypeOK, Command
  <2>2. PICK pr \in Maybe(Pair), ts \in Maybe(Pair) :
          /\ (ts = None) <=> (proc[p].tokens = None)
          /\ proc'[p] = [proc[p] EXCEPT !.entry = InE(proc[p].entry, pr), !.tokens = ts]
    BY <1>2
  <2>3. InE(proc[p].entry, pr) \in Maybe(Entry)
    BY <1>1, <2>1
  <2> HIDE DEF InE
  <2>4. /\ proc'[p] \in Command
        /\ proc'[p].pc = proc[p].pc /\ proc'[p].stale = proc[p].stale
        /\ proc'[p].seen = proc[p].seen /\ proc'[p].job = proc[p].job
        /\ proc'[p].next = proc[p].next
        /\ proc'[p].entry = InE(proc[p].entry, pr) /\ proc'[p].tokens = ts
    BY <2>1, <2>2, <2>3 DEF Command
  <2> QED
    BY <1>1, <2>1, <2>2, <2>4 DEF Carries
<1>5. store' \in [Account -> Maybe(Entry)] /\ proc' \in [Proc -> Command]
  BY <1>2, <1>3, <1>4
<1> QED
  BY <1>2, <1>3, <1>4, <1>5 DEF TInv, TypeOK

-----------------------------------------------------------------------------
(* Type correctness: one step per action.                                  *)

LEMMA CommandFields ==
  ASSUME TInv, NEW p \in Proc
  PROVE  /\ proc[p] \in Command /\ Carries(proc[p])
         /\ proc[p].entry \in Maybe(Entry) /\ proc[p].tokens \in Maybe(Pair)
         /\ proc[p].secret \in Maybe(Secret) /\ proc[p].next \in Nat
         /\ proc[p].job \in Job /\ proc[p].pc \in PC
BY DEF TInv, TypeOK, Command

LEMMA GetEntryType ==
  ASSUME TInv, NEW p \in Proc, getEntry(p)
  PROVE  TInv'
<1> DEFINE c == proc[p]
<1>1. c \in Command /\ Carries(c) /\ c.entry \in Maybe(Entry) /\ c.next \in Nat
  BY CommandFields
<1>2. ProcInv /\ store \in [Account -> Maybe(Entry)]
  BY DEF TInv, TypeOK, ProcInv
<1>3. Moved(c) \in Command /\ [c EXCEPT !.stale = FALSE] \in Command
  BY <1>1 DEF Moved, Command, Maybe
<1>4. \A e \in Maybe(Entry) :
        /\ Resume(Moved(c), e) \in Command /\ Carries(Resume(Moved(c), e))
        /\ Resume([c EXCEPT !.stale = FALSE], e) \in Command
        /\ Carries(Resume([c EXCEPT !.stale = FALSE], e))
  BY <1>3, ResumeType
<1>5. None \in Maybe(Entry) /\ Canonical \in Account
  BY SessionAssumption DEF Maybe
<1>6. \A i \in DOMAIN Aliases : Aliases[i] \in Account
  BY SessionAssumption
<1>7. \A d \in Command : [d EXCEPT !.stale = TRUE] \in Command /\ [d EXCEPT !.stale = FALSE] \in Command
  BY DEF Command
<1>8. \A d \in Command : Carries(d) /\ (Set(p, d) \/ SetAndOutdate(p, d)) => ProcInv'
  BY <1>2, SetType
<1>9. CASE ReadCanonical(p)
  <2> DEFINE r == [c EXCEPT !.stale = FALSE]
             s == [r EXCEPT !.pc = "alias", !.next = 1]
  <2>0. s \in Command /\ s.pc = "alias" /\ s.next = 1
    BY <1>3 DEF Command, PC
  <2>1. s \in Command /\ Carries(s)
    BY <2>0 DEF Carries
  <2>2. store[Canonical] \in Maybe(Entry)
    BY <1>2, <1>5
  <2>3. Set(p, IF store[Canonical] # None THEN Resume(r, store[Canonical]) ELSE s)
    BY <1>9 DEF ReadCanonical
  <2>4. ProcInv'
    BY <1>4, <1>8, <2>1, <2>2, <2>3
  <2> QED
    BY <1>9, <2>4 DEF ReadCanonical, ProcInv, TInv, TypeOK
<1>10. CASE ReadAlias(p)
  <2> DEFINE r == [c EXCEPT !.pc = "copy", !.entry = store[Aliases[c.next]]]
             s == [c EXCEPT !.next = c.next + 1]
  <2>1. CASE c.next > Len(Aliases)
    <3>1. Set(p, Resume(Moved(c), None))
      BY <1>10, <2>1 DEF ReadAlias
    <3> QED
      BY <1>4, <1>5, <1>8, <3>1, <1>10 DEF ReadAlias, ProcInv, TInv, TypeOK
  <2>2. CASE ~(c.next > Len(Aliases)) /\ store[Aliases[c.next]] = None
    <3>1. s \in Command /\ Carries(s)
      BY <1>1, <1>10 DEF Command, ReadAlias, Carries
    <3>2. Set(p, s)
      BY <1>10, <2>2 DEF ReadAlias
    <3> QED
      BY <1>8, <3>1, <3>2, <1>10 DEF ReadAlias, ProcInv, TInv, TypeOK
  <2>3. CASE ~(c.next > Len(Aliases)) /\ store[Aliases[c.next]] # None
    <3>1. c.next \in DOMAIN Aliases /\ store[Aliases[c.next]] \in Maybe(Entry)
      BY <1>1, <1>2, <1>6, <1>10, <2>3, SessionAssumption DEF ReadAlias, Carries
    <3>2. r \in Command /\ r.pc = "copy" /\ r.entry # None /\ r.next = c.next
      BY <1>1, <2>3, <3>1 DEF Command, PC
    <3>3. Carries(r)
      BY <3>1, <3>2 DEF Carries
    <3>4. Set(p, r)
      BY <1>10, <2>3 DEF ReadAlias
    <3> QED
      BY <1>8, <3>2, <3>3, <3>4, <1>10 DEF ReadAlias, ProcInv, TInv, TypeOK
  <2> QED
    BY <2>1, <2>2, <2>3
<1>11. CASE CopyAlias(p)
  <2> DEFINE r == [c EXCEPT !.pc = "drop", !.stale = FALSE]
  <2>1. r \in Command /\ r.pc = "drop" /\ r.next = c.next /\ r.entry = c.entry
    BY <1>1 DEF Command, PC
  <2>2. Carries(r)
    BY <1>1, <1>11, <2>1 DEF Carries, CopyAlias
  <2>3. ProcInv'
    BY <1>8, <1>11, <2>1, <2>2 DEF CopyAlias
  <2>4. store' \in [Account -> Maybe(Entry)]
    BY <1>1, <1>2, <1>5, <1>11 DEF CopyAlias
  <2> QED
    BY <1>11, <2>3, <2>4 DEF CopyAlias, ProcInv, TInv, TypeOK
<1>12. CASE DropAlias(p)
  <2>1. ProcInv'
    BY <1>1, <1>4, <1>8, <1>12 DEF DropAlias
  <2>2. store' \in [Account -> Maybe(Entry)]
    BY <1>2, <1>5, <1>12 DEF DropAlias
  <2> QED
    BY <1>12, <2>1, <2>2 DEF DropAlias, ProcInv, TInv, TypeOK
<1> QED
  BY <1>9, <1>10, <1>11, <1>12 DEF getEntry

(* The other steps put a command that carries what it needs in p's place,  *)
(* or leave the commands as they are.                                      *)
LEMMA PlacedType ==
  ASSUME TInv, NEW p \in Proc, NEW c \in Command, Carries(c),
         Set(p, c) \/ SetAndOutdate(p, c),
         store' \in [Account -> Maybe(Entry)], listed' \in BOOLEAN,
         credential' \in {"never", "held", "removed"}
  PROVE  TInv'
<1>1. ProcInv'
  BY SetType DEF TInv, TypeOK, ProcInv
<1> QED
  BY <1>1 DEF TInv, TypeOK, ProcInv

LEMMA SessionStepType ==
  ASSUME TInv, NEW p \in Proc,
         StartAccess(p) \/ Refresh(p) \/ authenticate(p) \/ Write(p) \/ EndWork(p) \/ KsefFails(p)
           \/ Throw(p) \/ Crash(p)
  PROVE  TInv'
<1> DEFINE c == proc[p]
<1>1. /\ c \in Command /\ Carries(c) /\ c.entry \in Maybe(Entry) /\ c.next \in Nat
      /\ c.tokens \in Maybe(Pair) /\ c.job \in Job
  BY CommandFields
<1>2. store \in [Account -> Maybe(Entry)] /\ listed \in BOOLEAN /\ credential \in {"never", "held", "removed"}
  BY DEF TInv, TypeOK
<1>3. \A j \in Job : Begin(j) \in Command /\ Carries(Begin(j))
  BY DEF Begin, Idle, Command, Carries, Maybe, PC
<1>4. \A d \in Command : Login(d) \in Command /\ Carries(Login(d)) /\ Moved(d) \in Command
  BY DEF Login, Moved, Command, Carries, Maybe, PC
<1>5. ASSUME NEW ts \in Pair, NEW b \in BOOLEAN PROVE Stored(c, ts, b) \in Command /\ Carries(Stored(c, ts, b))
  <2> DEFINE d == Stored(c, ts, b)
  <2>1. d \in Command /\ d.pc = "read"
    BY <1>1 DEF Stored, Command, Maybe, PC
  <2> QED
    BY <2>1 DEF Carries
<1>6. CASE StartAccess(p)
  BY <1>2, <1>3, <1>6, PlacedType DEF StartAccess, Job
<1>7. CASE Refresh(p)
  <2> DEFINE ts == [c.tokens EXCEPT !.access = "good"]
  <2>1. c.tokens \in Pair
    BY <1>1, <1>7 DEF Refresh, Carries, Maybe
  <2>2. ts \in Pair
    BY <2>1 DEF Pair, Token
  <2>3. Set(p, Stored(c, ts, TRUE)) \/ Set(p, Login(c))
    BY <1>7 DEF Refresh
  <2>4. UNCHANGED <<store, listed, credential>>
    BY <1>7 DEF Refresh
  <2> HIDE DEF ts
  <2> QED
    BY <1>1, <1>2, <1>4, <1>5, <2>2, <2>3, <2>4, PlacedType
<1>8. CASE authenticate(p)
  <2>1. [access |-> "good", refresh |-> "good"] \in Pair
    BY DEF Pair, Token
  <2> QED
    BY <1>2, <1>5, <1>8, <2>1, PlacedType DEF authenticate
<1>9. CASE Write(p)
  <2> DEFINE d1 == [Idle EXCEPT !.job = c.job, !.pc = "work", !.tokens = c.tokens]
             d2 == [Idle EXCEPT !.job = c.job, !.pc = "list"]
             d3 == [Idle EXCEPT !.job = c.job, !.pc = "config", !.seen = TRUE]
  <2>0. /\ d1 \in Command /\ d1.pc = "work" /\ d2 \in Command /\ d2.pc = "list"
        /\ d3 \in Command /\ d3.pc = "config"
    BY <1>1 DEF Idle, Command, Maybe, PC
  <2>1. /\ d1 \in Command /\ Carries(d1) /\ d2 \in Command /\ Carries(d2)
        /\ d3 \in Command /\ Carries(d3)
    BY <2>0 DEF Carries
  <2>2. store' \in [Account -> Maybe(Entry)]
    BY <1>1, <1>2, <1>9, SessionAssumption DEF Write
  <2>3. SetAndOutdate(p, d1) \/ SetAndOutdate(p, d2) \/ SetAndOutdate(p, d3)
    BY <1>9 DEF Write
  <2>4. listed' = listed /\ credential' \in {credential, "held"}
    BY <1>9 DEF Write
  <2> HIDE DEF d1, d2, d3
  <2> QED
    BY <1>2, <2>1, <2>2, <2>3, <2>4, PlacedType
<1>10. CASE EndWork(p)
  BY <1>2, <1>10, IdleType, PlacedType DEF EndWork
<1>11. CASE KsefFails(p)
  BY <1>1, <1>2, <1>4, <1>11, IdleType, PlacedType DEF KsefFails
<1>12. CASE Throw(p)
  BY <1>1, <1>2, <1>4, <1>12, IdleType, PlacedType DEF Throw
<1>13. CASE Crash(p)
  BY <1>2, <1>13, IdleType, PlacedType DEF Crash
<1> QED
  BY <1>6, <1>7, <1>8, <1>9, <1>10, <1>11, <1>12, <1>13

LEMMA CommandsType ==
  ASSUME TInv, NEW p \in Proc, Commands(p)
  PROVE  TInv'
<1> DEFINE c == proc[p]
<1>1. /\ c \in Command /\ Carries(c) /\ c.entry \in Maybe(Entry) /\ c.next \in Nat
      /\ c.tokens \in Maybe(Pair) /\ c.job \in Job /\ c.seen \in BOOLEAN
  BY CommandFields DEF Command
<1>2. store \in [Account -> Maybe(Entry)] /\ listed \in BOOLEAN /\ credential \in {"never", "held", "removed"}
  BY DEF TInv, TypeOK
<1>3. \A j \in Job : Begin(j) \in Command /\ Carries(Begin(j))
  BY DEF Begin, Idle, Command, Carries, Maybe, PC
<1>4. CASE StartShow(p)
  BY <1>2, <1>3, <1>4, PlacedType DEF StartShow, Job
<1>5. CASE addOrganization(p) \/ SaveOrganizations(p) \/ AllDeleted(p)
  BY <1>1, <1>2, <1>5, IdleType, PlacedType DEF addOrganization, SaveOrganizations, AllDeleted
<1>6. CASE StartInit(p)
  <2> DEFINE d == [Begin("init") EXCEPT !.seen = listed, !.pc = IF listed THEN "read" ELSE "config"]
  <2>1. d \in Command /\ d.pc \in {"read", "config"}
    BY <1>2 DEF Begin, Idle, Command, Maybe, PC, Job
  <2>2. Carries(d)
    BY <2>1 DEF Carries
  <2> QED
    BY <1>2, <1>6, <2>1, <2>2, PlacedType DEF StartInit
<1>7. CASE StartReset(p)
  <2> DEFINE d == [Idle EXCEPT !.job = "init", !.pc = "find"]
  <2>1. d \in Command /\ Carries(d)
    BY DEF Idle, Command, Maybe, PC, Job, Carries
  <2> QED
    BY <1>2, <1>7, <2>1, PlacedType DEF StartReset
<1>8. CASE findCredentials(p)
  <2> DEFINE d == [c EXCEPT !.pc = "delete", !.found = {a \in Account : store[a] # None}]
  <2>1. d \in Command /\ d.pc = "delete"
    BY <1>1 DEF Command, PC
  <2>2. Carries(d)
    BY <2>1 DEF Carries
  <2> QED
    BY <1>2, <1>8, <2>1, <2>2, PlacedType DEF findCredentials
<1>9. ASSUME NEW a \in Account, deletePassword(p, a) PROVE TInv'
  <2> DEFINE d == [c EXCEPT !.found = c.found \ {a}]
  <2>1. d \in Command /\ d.pc = "delete"
    BY <1>1, <1>9 DEF Command, deletePassword
  <2>2. Carries(d)
    BY <2>1 DEF Carries
  <2>3. store' \in [Account -> Maybe(Entry)] /\ listed' \in BOOLEAN /\ credential' \in {"never", "held", "removed"}
    BY <1>2, <1>9 DEF deletePassword, Maybe
  <2>4. Set(p, d) \/ SetAndOutdate(p, d)
    BY <1>9 DEF deletePassword
  <2> QED
    BY <2>1, <2>2, <2>3, <2>4, PlacedType
<1>10. ASSUME NEW s \in Secret, setSecret(p, s) PROVE TInv'
  <2> DEFINE d == [Begin("set") EXCEPT !.secret = s]
  <2>1. d \in Command /\ Carries(d)
    BY DEF Begin, Idle, Command, Maybe, PC, Job, Carries
  <2> QED
    BY <1>2, <1>10, <2>1, PlacedType DEF setSecret
<1>11. ASSUME NEW s \in Secret, addNip(p, s) PROVE TInv'
  <2> DEFINE d == [c EXCEPT !.pc = "read", !.secret = s]
  <2>1. d \in Command /\ d.pc = "read"
    BY <1>1 DEF Command, Maybe, PC
  <2>2. Carries(d)
    BY <2>1 DEF Carries
  <2> QED
    BY <1>2, <1>11, <2>1, <2>2, PlacedType DEF addNip
<1> QED
  BY <1>4, <1>5, <1>6, <1>7, <1>8, <1>9, <1>10, <1>11 DEF Commands

LEMMA ClearType == TInv /\ clearSecret => TInv'
<1> SUFFICES ASSUME TInv, clearSecret PROVE TInv'
  OBVIOUS
<1>1. \A p \in Proc : /\ Outdated[p] \in Command /\ Outdated[p].pc = proc[p].pc
                       /\ Outdated[p].tokens = proc[p].tokens /\ Outdated[p].entry = proc[p].entry
                       /\ Outdated[p].next = proc[p].next
  <2> TAKE p \in Proc
  <2>1. proc[p] \in Command
    BY DEF TInv, TypeOK
  <2>2. Outdated[p] = [proc[p] EXCEPT !.stale = proc[p].stale \/ Holding(proc[p])]
    BY DEF Outdated
  <2>3. (proc[p].stale \/ Holding(proc[p])) \in BOOLEAN
    OBVIOUS
  <2> QED
    BY <2>1, <2>2, <2>3 DEF Command
<1>2. proc' \in [Proc -> Command] /\ \A p \in Proc : Carries(proc'[p])
  BY <1>1 DEF clearSecret, Outdated, TInv, Carries
<1>3. store' \in [Account -> Maybe(Entry)]
  BY DEF clearSecret, TInv, TypeOK, Maybe
<1> QED
  BY <1>2, <1>3 DEF clearSecret, TInv, TypeOK

LEMMA StepType == TInv /\ [Next]_vars => TInv'
<1> SUFFICES ASSUME TInv, [Next]_vars PROVE TInv'
  OBVIOUS
<1>1. CASE ExpireAccess \/ External
  BY <1>1, TokensType, ClearType DEF External
<1>2. ASSUME NEW p \in Console, Commands(p) PROVE TInv'
  BY <1>2, CommandsType DEF Proc
<1>3. ASSUME NEW p \in Proc,
             StartAccess(p) \/ getAccessToken(p) \/ KsefFails(p) \/ Throw(p) \/ Crash(p)
      PROVE  TInv'
  BY <1>3, GetEntryType, SessionStepType DEF getAccessToken
<1>4. CASE UNCHANGED vars
  BY <1>4 DEF vars, TInv, TypeOK
<1> QED
  BY <1>1, <1>2, <1>3, <1>4 DEF Next

(* Commands, entries and tokens are well-formed in every reachable state:  *)
(* no entry is written that has no secret, whoever fails where             *)
(* (keychainStore.ts:113-140).                                             *)
THEOREM Typing == Spec => []TypeOK
<1>1. TInv => TypeOK
  BY DEF TInv
<1> QED
  BY <1>1, InitType, StepType, PTL DEF Spec

-----------------------------------------------------------------------------
(* Safety.  The list of aliases of an environment must not name its own    *)
(* account: a migration would delete what it has copied.                   *)
NoSelfAlias == \A i \in DOMAIN Aliases : Aliases[i] # Canonical

(* What p relies on, with the entry e in the account and the credential cr. *)
Sound(c, e, cr) ==
  /\ c.pc = "drop" /\ cr = "held" => e # None
  /\ c.seen \/ c.pc = "list" => cr # "never"
  /\ ~c.stale => /\ c.pc \in {"alias", "copy"} => e = None
                 /\ c.pc = "drop" \/ (c.pc = "write" /\ c.job = "access") =>
                      e # None /\ e.secret = c.entry.secret

SInv ==
  /\ CredentialIsKept /\ ListedHadSecret
  /\ \A p \in Proc : Sound(proc[p], store[Canonical], credential)

Safe == TInv /\ SInv

(* A command that neither migrates nor writes relies on little.            *)
Quiet(d, c) ==
  /\ d.pc \notin {"alias", "copy", "drop", "list"}
  /\ d.seen => c.seen
  /\ ~(d.pc = "write" /\ d.job = "access")

LEMMA QuietIsSound ==
  ASSUME NEW c, NEW d, NEW e, NEW f, NEW cr, NEW cs, Quiet(d, c), Sound(c, e, cr),
         cr # "never" => cs # "never"
  PROVE  Sound(d, f, cs)
BY DEF Quiet, Sound

(* A step of p that leaves the entry alone.                                *)
LEMMA SetSound ==
  ASSUME Safe, NEW p \in Proc, NEW c, Set(p, c),
         store'[Canonical] = store[Canonical],
         credential # "never" => credential' # "never",
         credential' = "held" => credential = "held",
         Sound(c, store[Canonical], credential')
  PROVE  \A q \in Proc : Sound(proc'[q], store'[Canonical], credential')
<1> TAKE q \in Proc
<1>1. proc'[q] = IF q = p THEN c ELSE proc[q]
  BY DEF Set, Safe, TInv, TypeOK
<1>2. Sound(proc[q], store[Canonical], credential)
  BY DEF Safe, SInv
<1> QED
  BY <1>1, <1>2 DEF Sound

(* A step of p that changes the entry: who holds one is out of date.       *)
LEMMA OutdateSound ==
  ASSUME Safe, NEW p \in Proc, NEW c, SetAndOutdate(p, c),
         credential # "never" => credential' # "never",
         credential' = "held" => store'[Canonical] # None,
         Sound(c, store'[Canonical], credential')
  PROVE  \A q \in Proc : Sound(proc'[q], store'[Canonical], credential')
<1> TAKE q \in Proc
<1>1. proc'[q] = IF q = p THEN c
                 ELSE IF Holding(proc[q]) THEN [proc[q] EXCEPT !.stale = TRUE] ELSE proc[q]
  BY DEF SetAndOutdate
<1>2. Sound(proc[q], store[Canonical], credential) /\ proc[q] \in Command
  BY DEF Safe, SInv, TInv, TypeOK
<1>3. CASE q = p
  BY <1>1, <1>3
<1>4. CASE q # p /\ Holding(proc[q])
  <2>1. /\ proc'[q].stale /\ proc'[q].pc = proc[q].pc /\ proc'[q].seen = proc[q].seen
    BY <1>1, <1>2, <1>4 DEF Command
  <2> QED
    BY <1>2, <2>1 DEF Sound
<1>5. CASE q # p /\ ~Holding(proc[q])
  BY <1>1, <1>2, <1>5 DEF Sound, Holding
<1> QED
  BY <1>3, <1>4, <1>5

LEMMA InitSafe == Init => Safe
<1> SUFFICES ASSUME Init PROVE Safe
  OBVIOUS
<1>1. TInv
  BY InitType
<1>2. \A p \in Proc : Sound(proc[p], store[Canonical], credential)
  BY IdleType DEF Init, Sound
<1>3. ListedHadSecret
  BY DEF Init, ListedHadSecret
<1>4. CredentialIsKept
  <2>1. PICK a \in Account, s \in Secret, old \in BOOLEAN :
           /\ store = [b \in Account |-> IF old /\ b = a THEN [secret |-> s, pair |-> None] ELSE None]
           /\ credential = IF old THEN "held" ELSE "never"
    BY DEF Init
  <2>2. [secret |-> s, pair |-> None] \in Entry
    BY DEF Entry, Maybe
  <2>3. [secret |-> s, pair |-> None] # None
    BY <2>2, NoneIsNothing
  <2> QED
    BY <2>1, <2>3 DEF CredentialIsKept
<1> QED
  BY <1>1, <1>2, <1>3, <1>4 DEF Safe, SInv

(* What LosesSecret may be blamed on.                                      *)
Blamed ==
  \/ clearSecret \/ \E p \in Proc, a \in Account : deletePassword(p, a)
  \/ \E p \in Proc : /\ proc'[p].pc # proc[p].pc
                     /\ UserWrites(p) \/ proc[p].stale

(* A step of p that keeps the keychain and the history, and after which p  *)
(* neither migrates nor writes for the service, is safe.                   *)
LEMMA QuietStep ==
  ASSUME Safe, NEW p \in Proc, NEW d, Quiet(d, proc[p]), Set(p, d),
         UNCHANGED <<store, credential>>, listed' => credential # "never"
  PROVE  SInv' /\ ~LosesSecret
<1>1. Sound(proc[p], store[Canonical], credential)
  BY DEF Safe, SInv
<1>2. Sound(d, store[Canonical], credential')
  BY <1>1, QuietIsSound
<1>3. \A q \in Proc : Sound(proc'[q], store'[Canonical], credential')
  BY <1>2, SetSound
<1> QED
  BY <1>3 DEF Safe, SInv, CredentialIsKept, ListedHadSecret, LosesSecret

LEMMA SameEntry ==
  ASSUME Safe, NEW p \in Proc, NEW d \in Command, Set(p, d),
         Sound(d, store[Canonical], credential),
         UNCHANGED <<listed, credential>>, store'[Canonical] = store[Canonical],
         CredentialIsKept'
  PROVE  SInv' /\ ~LosesSecret
<1>1. \A q \in Proc : Sound(proc'[q], store'[Canonical], credential')
  BY SetSound
<1> QED
  BY <1>1 DEF Safe, SInv, ListedHadSecret, LosesSecret

LEMMA GetEntrySafe ==
  ASSUME NoSelfAlias, Safe, NEW p \in Proc, getEntry(p)
  PROVE  SInv' /\ (LosesSecret => Blamed)
<1> DEFINE c == proc[p]
<1>1. c \in Command /\ Carries(c) /\ c.entry \in Maybe(Entry) /\ c.next \in Nat
  BY CommandFields DEF Safe
<1>2. Sound(c, store[Canonical], credential) /\ CredentialIsKept /\ ListedHadSecret
  BY DEF Safe, SInv
<1>3. /\ store \in [Account -> Maybe(Entry)] /\ Canonical \in Account
      /\ \A i \in DOMAIN Aliases : Aliases[i] \in Account /\ Aliases[i] # Canonical
      /\ store[Canonical] \in Maybe(Entry) /\ proc \in [Proc -> Command]
  BY SessionAssumption DEF Safe, TInv, TypeOK, NoSelfAlias
<1>4. CASE ReadCanonical(p)
  <2> DEFINE r == [c EXCEPT !.stale = FALSE]
             s == [r EXCEPT !.pc = "alias", !.next = 1]
             d == IF store[Canonical] # None THEN Resume(r, store[Canonical]) ELSE s
  <2>1. r \in Command /\ r.seen = c.seen
    BY <1>1 DEF Command
  <2>2. s \in Command /\ s.pc = "alias" /\ s.seen = c.seen
    BY <1>1 DEF Command, PC
  <2>3. CASE store[Canonical] # None
    <3>1. d = Resume(r, store[Canonical])
      BY <2>3
    <3>3. Set(p, d) /\ UNCHANGED <<store, listed, credential>>
      BY <1>4 DEF ReadCanonical
    <3> HIDE DEF r, d
    <3>4. /\ d \in Command /\ d.pc \notin {"alias", "copy", "drop", "list"} /\ (d.seen => c.seen)
          /\ (d.pc = "write" /\ d.job = "access" => d.entry.secret = store[Canonical].secret)
      BY <1>3, <2>1, <3>1, ResumeType
    <3>2. Sound(d, store[Canonical], credential)
      BY <1>2, <2>3, <3>4 DEF Sound
    <3> QED
      BY <1>2, <3>2, <3>3, <3>4, SameEntry DEF CredentialIsKept
  <2>4. CASE store[Canonical] = None
    <3>1. Sound(s, store[Canonical], credential)
      BY <1>2, <2>2, <2>4 DEF Sound
    <3>2. Set(p, s) /\ UNCHANGED <<store, listed, credential>>
      BY <1>4, <2>4 DEF ReadCanonical
    <3> HIDE DEF s
    <3> QED
      BY <1>2, <2>2, <3>1, <3>2, SameEntry DEF CredentialIsKept
  <2> QED
    BY <2>3, <2>4
<1>5. CASE ReadAlias(p)
  <2> DEFINE r == [c EXCEPT !.pc = "copy", !.entry = store[Aliases[c.next]]]
             s == [c EXCEPT !.next = c.next + 1]
             m == Resume(Moved(c), None)
  <2>1. UNCHANGED <<store, listed, credential>> /\ CredentialIsKept' /\ c.pc = "alias"
    BY <1>2, <1>5 DEF ReadAlias, CredentialIsKept
  <2>2. CASE c.next > Len(Aliases)
    <3>1. Set(p, m)
      BY <1>5, <2>2 DEF ReadAlias
    <3>2. Moved(c) \in Command /\ Moved(c).seen = c.seen /\ None \in Maybe(Entry)
      BY <1>1 DEF Moved, Command, Maybe
    <3>3. m \in Command /\ Quiet(m, c)
      BY <3>2, ResumeType DEF Quiet
    <3>4. Sound(m, store[Canonical], credential)
      BY <1>2, <3>3, QuietIsSound
    <3> HIDE DEF m
    <3> QED
      BY <2>1, <3>1, <3>3, <3>4, SameEntry
  <2>3. CASE ~(c.next > Len(Aliases)) /\ store[Aliases[c.next]] = None
    <3>1. s \in Command /\ s.pc = c.pc /\ s.seen = c.seen /\ s.stale = c.stale
      BY <1>1 DEF Command
    <3>2. Sound(s, store[Canonical], credential)
      BY <1>2, <2>1, <3>1 DEF Sound
    <3>3. Set(p, s)
      BY <1>5, <2>3 DEF ReadAlias
    <3> HIDE DEF s
    <3> QED
      BY <2>1, <3>1, <3>2, <3>3, SameEntry
  <2>4. CASE ~(c.next > Len(Aliases)) /\ store[Aliases[c.next]] # None
    <3>1. c.next \in DOMAIN Aliases /\ store[Aliases[c.next]] \in Maybe(Entry)
      BY <1>1, <1>3, <2>1, <2>4, SessionAssumption DEF Carries
    <3>2. r \in Command /\ r.pc = "copy" /\ r.seen = c.seen /\ r.stale = c.stale
      BY <1>1, <3>1 DEF Command, PC
    <3>3. Sound(r, store[Canonical], credential)
      BY <1>2, <2>1, <3>2 DEF Sound
    <3>4. Set(p, r)
      BY <1>5, <2>4 DEF ReadAlias
    <3> HIDE DEF r
    <3> QED
      BY <2>1, <3>2, <3>3, <3>4, SameEntry
  <2> QED
    BY <2>2, <2>3, <2>4
<1>6. CASE CopyAlias(p)
  <2> DEFINE r == [c EXCEPT !.pc = "drop", !.stale = FALSE]
  <2>1. r \in Command /\ r.pc = "drop" /\ r.entry = c.entry /\ r.seen = c.seen
    BY <1>1 DEF Command, PC
  <2>2. /\ c.pc = "copy" /\ c.entry # None /\ SetAndOutdate(p, r)
        /\ store' = [store EXCEPT ![Canonical] = c.entry] /\ UNCHANGED <<listed, credential>>
    BY <1>1, <1>6 DEF CopyAlias, Carries
  <2>3. store'[Canonical] = c.entry
    BY <1>3, <2>2
  <2>4. Sound(r, store'[Canonical], credential')
    BY <1>2, <2>1, <2>2, <2>3 DEF Sound
  <2>5. proc'[p] = r
    BY <2>2 DEF SetAndOutdate
  <2> HIDE DEF r
  <2>6. \A q \in Proc : Sound(proc'[q], store'[Canonical], credential')
    BY <2>2, <2>3, <2>4, OutdateSound
  <2>7. CredentialIsKept' /\ ListedHadSecret'
    BY <1>2, <1>3, <2>2, <2>3 DEF CredentialIsKept, ListedHadSecret
  <2>8. LosesSecret => proc[p].stale
    BY <1>2, <2>2 DEF LosesSecret, Sound
  <2> QED
    BY <2>1, <2>2, <2>5, <2>6, <2>7, <2>8 DEF SInv, Blamed
<1>7. CASE DropAlias(p)
  <2> DEFINE m == Resume(Moved(c), c.entry)
  <2>1. /\ c.pc = "drop" /\ Set(p, m) /\ UNCHANGED <<listed, credential>>
        /\ store' = [store EXCEPT ![Aliases[c.next]] = None]
    BY <1>7 DEF DropAlias
  <2>2. store'[Canonical] = store[Canonical]
    BY <1>1, <1>3, <2>1 DEF Carries
  <2>3. Moved(c) \in Command /\ Moved(c).seen = c.seen /\ Moved(c).stale = c.stale
    BY <1>1 DEF Moved, Command, Maybe
  <2>4. m \in Command /\ m.pc \notin {"alias", "copy", "drop", "list"} /\ (m.seen => c.seen)
        /\ (m.pc = "write" /\ m.job = "access" => m.entry.secret = c.entry.secret /\ m.stale = c.stale)
    BY <1>1, <2>3, ResumeType, ResumeStale
  <2>5. Sound(m, store[Canonical], credential)
    BY <1>2, <2>1, <2>4 DEF Sound
  <2>6. CredentialIsKept'
    BY <1>2, <1>3, <2>1, <2>2 DEF CredentialIsKept, Sound
  <2> HIDE DEF m
  <2> QED
    BY <2>1, <2>2, <2>4, <2>5, <2>6, SameEntry
<1> QED
  BY <1>4, <1>5, <1>6, <1>7 DEF getEntry

LEMMA SessionStepSafe ==
  ASSUME Safe, NEW p \in Proc,
         StartAccess(p) \/ Refresh(p) \/ authenticate(p) \/ Write(p) \/ EndWork(p) \/ KsefFails(p)
           \/ Throw(p) \/ Crash(p)
  PROVE  SInv' /\ (LosesSecret => Blamed)
<1> DEFINE c == proc[p]
<1>1. /\ c \in Command /\ Carries(c) /\ c.entry \in Maybe(Entry)
      /\ ListedHadSecret /\ CredentialIsKept /\ Sound(c, store[Canonical], credential)
  BY CommandFields DEF Safe, SInv
<1>2. Quiet(Idle, c)
  BY IdleType DEF Quiet
<1>3. Quiet(Begin("access"), c)
  BY DEF Begin, Idle, Quiet
<1>4. Quiet(Login(c), c) /\ Quiet(Login(Moved(c)), c)
  BY <1>1 DEF Login, Moved, Command, Quiet
<1>5. \A ts, b : Quiet(Stored(c, ts, b), c)
  BY <1>1 DEF Stored, Command, Quiet
<1>6. CASE Write(p)
  <2> DEFINE d1 == [Idle EXCEPT !.job = c.job, !.pc = "work", !.tokens = c.tokens]
             d2 == [Idle EXCEPT !.job = c.job, !.pc = "list"]
             d3 == [Idle EXCEPT !.job = c.job, !.pc = "config", !.seen = TRUE]
  <2>1. /\ d1.pc = "work" /\ ~d1.seen /\ d2.pc = "list" /\ ~d2.seen /\ d3.pc = "config"
    BY DEF Idle
  <2>2. /\ store' = [store EXCEPT ![Canonical] = c.entry] /\ c.entry # None /\ listed' = listed
        /\ c.pc = "write" /\ Canonical \in Account /\ store \in [Account -> Maybe(Entry)]
        /\ \/ c.job = "access" /\ SetAndOutdate(p, d1) /\ UNCHANGED credential
           \/ c.job \in {"set", "init"} /\ (SetAndOutdate(p, d2) \/ SetAndOutdate(p, d3)) /\ credential' = "held"
    BY <1>1, <1>6, SessionAssumption DEF Write, Carries, Safe, TInv, TypeOK
  <2>3. store'[Canonical] = c.entry
    BY <2>2
  <2>4. Sound(d1, store'[Canonical], credential')
    BY <2>1 DEF Sound
  <2>5. credential' = "held" => Sound(d2, store'[Canonical], credential') /\ Sound(d3, store'[Canonical], credential')
    BY <2>1 DEF Sound
  <2>6. proc'[p].pc # c.pc
    BY <2>1, <2>2 DEF SetAndOutdate
  <2> HIDE DEF d1, d2, d3
  <2>7. \A q \in Proc : Sound(proc'[q], store'[Canonical], credential')
    BY <2>2, <2>3, <2>4, <2>5, OutdateSound
  <2>8. CredentialIsKept' /\ ListedHadSecret'
    BY <1>1, <2>2, <2>3 DEF CredentialIsKept, ListedHadSecret
  <2>9. LosesSecret => UserWrites(p) \/ c.stale
    BY <1>1, <2>2, <2>3 DEF LosesSecret, UserWrites, Sound
  <2> QED
    BY <2>6, <2>7, <2>8, <2>9 DEF SInv, Blamed
<1>7. CASE ~Write(p)
  <2>1. PICK d : Set(p, d) /\ Quiet(d, c)
    BY <1>2, <1>3, <1>4, <1>5, <1>7 DEF StartAccess, Refresh, authenticate, EndWork, KsefFails, Throw, Crash
  <2>2. UNCHANGED <<store, listed, credential>>
    BY <1>7 DEF StartAccess, Refresh, authenticate, EndWork, KsefFails, Throw, Crash
  <2> QED
    BY <1>1, <2>1, <2>2, QuietStep DEF ListedHadSecret
<1> QED
  BY <1>6, <1>7

LEMMA CommandsSafe ==
  ASSUME Safe, NEW p \in Proc, Commands(p)
  PROVE  SInv' /\ (LosesSecret => Blamed)
<1> DEFINE c == proc[p]
<1>1. /\ c \in Command /\ ListedHadSecret /\ CredentialIsKept /\ Sound(c, store[Canonical], credential)
      /\ store \in [Account -> Maybe(Entry)] /\ Canonical \in Account
  BY CommandFields, SessionAssumption DEF Safe, SInv, TInv, TypeOK
<1>2. CASE StartInit(p)
  <2> DEFINE d == [Begin("init") EXCEPT !.seen = listed, !.pc = IF listed THEN "read" ELSE "config"]
  <2>1. d \in Command /\ d.pc \in {"read", "config"} /\ d.seen = listed
    BY DEF Safe, TInv, TypeOK, Begin, Idle, Command, Maybe, PC, Job
  <2>2. Sound(d, store[Canonical], credential)
    BY <1>1, <2>1 DEF Sound, ListedHadSecret
  <2>3. Set(p, d) /\ UNCHANGED <<store, listed, credential>>
    BY <1>2 DEF StartInit
  <2> HIDE DEF d
  <2> QED
    BY <1>1, <2>1, <2>2, <2>3, SameEntry DEF CredentialIsKept
<1>3. ASSUME NEW a \in Account, deletePassword(p, a) PROVE SInv' /\ (LosesSecret => Blamed)
  <2> DEFINE d == [c EXCEPT !.found = c.found \ {a}]
  <2>1. d.pc = c.pc /\ d.seen = c.seen /\ d.pc = "delete"
    BY <1>1, <1>3 DEF Command, deletePassword
  <2>2. /\ store' = [store EXCEPT ![a] = None] /\ listed' = listed
        /\ IF a = Canonical THEN SetAndOutdate(p, d) ELSE Set(p, d)
        /\ credential' = IF a # Canonical /\ store[Canonical] # None THEN credential ELSE "removed"
    BY <1>3 DEF deletePassword
  <2>3. Sound(d, store'[Canonical], credential')
    BY <1>1, <2>1, <2>2 DEF Sound
  <2> HIDE DEF d
  <2>4. \A q \in Proc : Sound(proc'[q], store'[Canonical], credential')
    <3>1. CASE a = Canonical
      BY <2>2, <2>3, <3>1, OutdateSound
    <3>2. CASE a # Canonical
      <4>1. store'[Canonical] = store[Canonical]
        BY <1>1, <2>2, <3>2
      <4>2. /\ credential # "never" => credential' # "never"
            /\ credential' = "held" => credential = "held"
            /\ Sound(d, store[Canonical], credential')
        BY <2>2, <2>3, <4>1
      <4> QED
        BY <2>2, <3>2, <4>1, <4>2, SetSound
    <3> QED
      BY <3>1, <3>2
  <2>7. CredentialIsKept' /\ ListedHadSecret'
    BY <1>1, <2>2 DEF CredentialIsKept, ListedHadSecret
  <2> QED
    BY <1>3, <2>4, <2>7 DEF SInv, Blamed
<1>4. ASSUME NEW d, Quiet(d, c), Set(p, d), UNCHANGED <<store, credential>>, listed' => credential # "never"
      PROVE  SInv' /\ (LosesSecret => Blamed)
  BY <1>4, QuietStep
<1>5. listed => credential # "never"
  BY <1>1 DEF ListedHadSecret
<1>6. CASE StartShow(p)
  <2>1. Quiet(Begin("show"), c)
    BY DEF Begin, Idle, Quiet
  <2> QED
    BY <1>4, <1>5, <1>6, <2>1 DEF StartShow
<1>7. CASE addOrganization(p) \/ SaveOrganizations(p) \/ AllDeleted(p)
  <2>1. Quiet(Idle, c)
    BY IdleType DEF Quiet
  <2>2. /\ Set(p, Idle) /\ UNCHANGED <<store, credential>>
        /\ \/ listed' = TRUE /\ c.pc = "list"
           \/ listed' = c.seen
           \/ listed' = FALSE
    BY <1>7 DEF addOrganization, SaveOrganizations, AllDeleted
  <2>3. listed' => credential # "never"
    BY <1>1, <2>2 DEF Sound
  <2> QED
    BY <1>4, <2>1, <2>2, <2>3
<1>8. CASE StartReset(p)
  <2>1. Quiet([Idle EXCEPT !.job = "init", !.pc = "find"], c)
    BY DEF Idle, Quiet
  <2> QED
    BY <1>4, <1>5, <1>8, <2>1 DEF StartReset
<1>9. CASE findCredentials(p)
  <2>1. Quiet([c EXCEPT !.pc = "delete", !.found = {a \in Account : store[a] # None}], c)
    BY <1>1 DEF Quiet, Command
  <2> QED
    BY <1>4, <1>5, <1>9, <2>1 DEF findCredentials
<1>10. ASSUME NEW s \in Secret, setSecret(p, s) PROVE SInv' /\ (LosesSecret => Blamed)
  <2>1. Quiet([Begin("set") EXCEPT !.secret = s], c)
    BY DEF Begin, Idle, Quiet
  <2> QED
    BY <1>4, <1>5, <1>10, <2>1 DEF setSecret
<1>11. ASSUME NEW s \in Secret, addNip(p, s) PROVE SInv' /\ (LosesSecret => Blamed)
  <2>1. Quiet([c EXCEPT !.pc = "read", !.secret = s], c)
    BY <1>1 DEF Quiet, Command
  <2> QED
    BY <1>4, <1>5, <1>11, <2>1 DEF addNip
<1> QED
  BY <1>2, <1>3, <1>6, <1>7, <1>8, <1>9, <1>10, <1>11 DEF Commands

LEMMA ExternalSafe ==
  ASSUME Safe, ExpireAccess \/ External
  PROVE  SInv' /\ (LosesSecret => Blamed)
<1>1. CASE ExpireAccess \/ ExpireRefresh \/ Invalidate
  <2>1. /\ \A a \in Account : /\ (store'[a] = None) <=> (store[a] = None)
                              /\ store[a] # None => store'[a].secret = store[a].secret
        /\ \A p \in Proc : /\ proc'[p].pc = proc[p].pc /\ proc'[p].stale = proc[p].stale
                           /\ proc'[p].seen = proc[p].seen /\ proc'[p].job = proc[p].job
                           /\ (proc'[p].entry = None) <=> (proc[p].entry = None)
                           /\ proc[p].entry # None => proc'[p].entry.secret = proc[p].entry.secret
        /\ UNCHANGED <<listed, credential>>
    BY <1>1, TokensType DEF Safe
  <2>2. Canonical \in Account
    BY SessionAssumption
  <2>3. \A p \in Proc : Sound(proc'[p], store'[Canonical], credential')
    <3> TAKE p \in Proc
    <3>1. Sound(proc[p], store[Canonical], credential) /\ Carries(proc[p])
      BY DEF Safe, SInv, TInv
    <3> QED
      BY <2>1, <2>2, <3>1 DEF Sound, Carries
  <2> QED
    BY <2>1, <2>2, <2>3 DEF Safe, SInv, CredentialIsKept, ListedHadSecret, LosesSecret
<1>2. CASE clearSecret
  <2>1. \A p \in Proc : Sound(proc'[p], store'[Canonical], credential')
    <3> TAKE p \in Proc
    <3>1. Sound(proc[p], store[Canonical], credential) /\ proc[p] \in Command
      BY DEF Safe, SInv, TInv, TypeOK
    <3>2. proc'[p] = [proc[p] EXCEPT !.stale = proc[p].stale \/ Holding(proc[p])]
      BY <1>2 DEF clearSecret, Outdated
    <3>3. /\ proc'[p].pc = proc[p].pc /\ proc'[p].seen = proc[p].seen
          /\ Holding(proc[p]) => proc'[p].stale
      BY <3>1, <3>2 DEF Command
    <3>4. credential' # "held" /\ (credential # "never" => credential' # "never")
      BY <1>2 DEF clearSecret
    <3> QED
      BY <3>1, <3>3, <3>4 DEF Sound, Holding
  <2> QED
    BY <1>2, <2>1 DEF Safe, SInv, CredentialIsKept, ListedHadSecret, clearSecret, Blamed
<1> QED
  BY <1>1, <1>2 DEF External

LEMMA StepSafe ==
  ASSUME NoSelfAlias, Safe, [Next]_vars
  PROVE  Safe' /\ [LosesSecret => Blamed]_vars
<1>1. TInv'
  BY StepType DEF Safe
<1>2. SInv' /\ [LosesSecret => Blamed]_vars
  <2>1. CASE ExpireAccess \/ External
    BY <2>1, ExternalSafe
  <2>2. ASSUME NEW p \in Console, Commands(p) PROVE SInv' /\ (LosesSecret => Blamed)
    BY <2>2, CommandsSafe DEF Proc
  <2>3. ASSUME NEW p \in Proc,
               StartAccess(p) \/ getAccessToken(p) \/ KsefFails(p) \/ Throw(p) \/ Crash(p)
        PROVE  SInv' /\ (LosesSecret => Blamed)
    BY <2>3, GetEntrySafe, SessionStepSafe DEF getAccessToken
  <2>4. CASE UNCHANGED vars
    BY <2>4 DEF vars, Safe, SInv, CredentialIsKept, ListedHadSecret
  <2> QED
    BY <2>1, <2>2, <2>3, <2>4 DEF Next
<1> QED
  BY <1>1, <1>2 DEF Safe

(* In an environment whose aliases are other accounts, no crash, failure   *)
(* or interleaving of migrations, logins and commands loses a credential   *)
(* the user has stored (keychainStore.ts:90-99).                           *)
THEOREM KeepsCredential ==
  ASSUME NoSelfAlias PROVE Spec => []CredentialIsKept
<1>1. Safe => CredentialIsKept
  BY DEF Safe, SInv
<1>2. Safe /\ [Next]_vars => Safe'
  BY StepSafe
<1> QED
  BY <1>1, <1>2, InitSafe, PTL DEF Spec

(* There config.yaml lists an organization only after its token was stored *)
(* once (keychain.ts:66-67, bootstrap.ts:89-134).                          *)
THEOREM ListsAfterStoring ==
  ASSUME NoSelfAlias PROVE Spec => []ListedHadSecret
<1>1. Safe => ListedHadSecret
  BY DEF Safe, SInv
<1>2. Safe /\ [Next]_vars => Safe'
  BY StepSafe
<1> QED
  BY <1>1, <1>2, InitSafe, PTL DEF Spec

(* There a secret is replaced or deleted only by a command of the user or  *)
(* by a write of an entry that was read before somebody else changed it    *)
(* (keychainStore.ts:113-140).                                             *)
THEOREM OverlapsOnly ==
  ASSUME NoSelfAlias PROVE Spec => OnlyOverlapsLoseSecrets
<1>1. Safe /\ [Next]_vars => Safe' /\ [LosesSecret => Blamed]_vars
  BY StepSafe
<1>2. Spec => [][LosesSecret => Blamed]_vars
  BY <1>1, InitSafe, PTL DEF Spec
<1> QED
  BY <1>2 DEF OnlyOverlapsLoseSecrets, Blamed
=============================================================================
