-------------------------- MODULE StateStoreProofs ---------------------------
(***************************************************************************)
(* Proofs about StateStore, for any number of concurrent calls, readers    *)
(* and retries: types, the freshness of the copy a call writes back,       *)
(* monotonic reads, and that the store implements AtomicStore.             *)
(***************************************************************************)
EXTENDS StateStore, TLAPS

LEMMA TypeInit == Init => TypeOK
<1> SUFFICES ASSUME Init PROVE TypeOK
  OBVIOUS
<1>1. pc \in [Call -> PC]
  BY DEF Init, PC
<1>2. tries \in [Call -> 0..Retries]
  BY RetriesAssumption DEF Init
<1>3. mem \in [Call -> SUBSET Call] /\ seen \in [Reader -> SUBSET Call]
  BY DEF Init
<1>4. temp \in [Call -> {"none", "partial", "synced"}]
  BY DEF Init
<1>5. QED
  BY <1>1, <1>2, <1>3, <1>4 DEF Init, TypeOK

LEMMA TypeStep == TypeOK /\ [Next]_vars => TypeOK'
<1> SUFFICES ASSUME TypeOK, [Next]_vars PROVE TypeOK'
  OBVIOUS
<1> USE RetriesAssumption DEF TypeOK, PC, Locked, Ended, Goto
<1>1. ASSUME NEW c \in Call,
             Touch(c) \/ Acquire(c) \/ GiveUp(c) \/ Release(c) \/ ReleaseFails(c)
      PROVE  TypeOK'
  <2>1. CASE Touch(c) \/ Acquire(c) \/ GiveUp(c)
    BY <2>1 DEF Touch, Acquire, GiveUp
  <2>2. CASE Release(c) \/ ReleaseFails(c)
    BY <2>2 DEF Release, ReleaseFails
  <2>3. QED
    BY <1>1, <2>1, <2>2
<1>2. ASSUME NEW c \in Call, Retry(c) PROVE TypeOK'
  BY <1>2 DEF Retry
<1>3. ASSUME NEW c \in Call, openExisting(c) \/ Callback(c) PROVE TypeOK'
  BY <1>3 DEF openExisting, Callback
<1>4. ASSUME NEW c \in Call, WriteTemp(c) \/ SyncTemp(c) \/ Fail(c) \/ Crash(c) PROVE TypeOK'
  BY <1>4 DEF WriteTemp, SyncTemp, Fail, Crash
<1>5. ASSUME NEW c \in Call, Rename(c) PROVE TypeOK'
  BY <1>5 DEF Rename, TempContent
<1>6. CASE StaleLockExpires
  BY <1>6 DEF StaleLockExpires, callVars
<1>7. ASSUME NEW r \in Reader, readDb(r) PROVE TypeOK'
  BY <1>7 DEF readDb, callVars
<1>8. CASE UNCHANGED vars
  BY <1>8 DEF vars
<1>9. QED
  BY <1>1, <1>2, <1>3, <1>4, <1>5, <1>6, <1>7, <1>8 DEF Next, Work

(* Every reachable state has its types, for every instance.                *)
THEOREM Typing == Spec => []TypeOK
<1>1. QED
  BY TypeInit, TypeStep, PTL DEF Spec

-----------------------------------------------------------------------------
(* CopyIsCurrent needs no strengthening but the types: a call changes the  *)
(* file only while the lock is its own, and then no other call is inside.  *)

(* What is written is complete, and what a call reports is what it did,    *)
(* unless the lock's error takes the place of its report.                  *)
Reported ==
  \A c \in Call :
    /\ pc[c] = "rename" => temp[c] = "synced"
    /\ pc[c] \in {"unlockOk", "returned"} => c \in file
    /\ pc[c] \in {"idle", "lock", "load", "fn", "write", "sync", "rename", "unlockThrow", "threw"}
         => c \notin file

Inv == TypeOK /\ CopyIsCurrent /\ Reported

LEMMA InvInit == Init => Inv
BY TypeInit DEF Init, Inv, CopyIsCurrent, Reported, Locked

(* A call inside the lock is alone there.                                  *)
LEMMA Alone ==
  ASSUME Inv, NEW c \in Call, pc[c] \in Locked, NEW d \in Call, d # c
  PROVE  pc[d] \notin Locked
BY DEF Inv, CopyIsCurrent

LEMMA InvStep == Inv /\ [Next]_vars => Inv'
<1> SUFFICES ASSUME Inv, [Next]_vars PROVE Inv'
  OBVIOUS
<1>0. TypeOK /\ CopyIsCurrent /\ Reported /\ TypeOK'
  BY TypeStep DEF Inv
<1>1. ASSUME NEW c \in Call, Touch(c) \/ GiveUp(c) \/ Retry(c) PROVE Inv'
  <2>1. /\ UNCHANGED <<file, lock, mem, temp>>
        /\ pc' = pc \/ (pc[c] \in {"idle", "lock"} /\ \E l \in {"lock", "threw"} : Goto(c, l))
    BY <1>1 DEF Touch, GiveUp, Retry
  <2>2. CopyIsCurrent'
    BY <1>0, <2>1 DEF CopyIsCurrent, Locked, Goto, TypeOK
  <2>3. Reported'
    BY <1>0, <2>1 DEF Reported, Goto, TypeOK
  <2>4. QED
    BY <1>0, <2>2, <2>3 DEF Inv
<1>2. ASSUME NEW c \in Call, Acquire(c) PROVE Inv'
  <2>1. \A d \in Call : pc[d] \notin Locked
    BY <1>0, <1>2, NoCallAssumption DEF Acquire, CopyIsCurrent
  <2>2. CopyIsCurrent'
    BY <1>0, <1>2, <2>1 DEF Acquire, CopyIsCurrent, Locked, Goto, TypeOK
  <2>3. Reported'
    BY <1>0, <1>2 DEF Acquire, Reported, Goto, TypeOK
  <2>4. QED
    BY <1>0, <2>2, <2>3 DEF Inv
<1>3. ASSUME NEW c \in Call,
             openExisting(c) \/ Callback(c) \/ WriteTemp(c) \/ SyncTemp(c) \/ Fail(c)
      PROVE  Inv'
  <2>1. pc[c] \in Locked /\ lock = c /\ UNCHANGED <<file, lock>>
    BY <1>0, <1>3
    DEF openExisting, Callback, WriteTemp, SyncTemp, Fail, Locked, CopyIsCurrent
  <2>2. \A d \in Call : d # c => pc[d] \notin Locked /\ pc'[d] = pc[d]
    BY <1>0, <1>3, <2>1, Alone
    DEF Inv, openExisting, Callback, WriteTemp, SyncTemp, Fail, Goto, TypeOK
  <2>3. /\ pc'[c] \in Locked
        /\ pc'[c] = "fn" => mem'[c] = file
        /\ pc'[c] \in {"write", "sync", "rename"} => mem'[c] = file \cup {c}
        /\ pc'[c] = "rename" => temp'[c] = "synced"
        /\ pc'[c] # "unlockOk" /\ c \notin file
    <3>1. CASE openExisting(c)
      BY <1>0, <3>1 DEF openExisting, Goto, Locked, TypeOK, Reported
    <3>2. CASE Callback(c)
      BY <1>0, <3>2 DEF Callback, Goto, Locked, TypeOK, Reported, CopyIsCurrent
    <3>3. CASE WriteTemp(c)
      BY <1>0, <3>3 DEF WriteTemp, Goto, Locked, TypeOK, Reported, CopyIsCurrent
    <3>4. CASE SyncTemp(c)
      BY <1>0, <3>4 DEF SyncTemp, Goto, Locked, TypeOK, Reported, CopyIsCurrent
    <3>5. CASE Fail(c)
      BY <1>0, <3>5 DEF Fail, Goto, Locked, TypeOK, Reported
    <3>6. QED
      BY <1>3, <3>1, <3>2, <3>3, <3>4, <3>5
  <2>4. CopyIsCurrent'
    BY <1>0, <2>1, <2>2, <2>3 DEF CopyIsCurrent, Locked
  <2>5. Reported'
    BY <1>0, <2>1, <2>2, <2>3 DEF Reported, Locked
  <2>6. QED
    BY <1>0, <2>4, <2>5 DEF Inv
<1>4. ASSUME NEW c \in Call, Rename(c) PROVE Inv'
  <2>1. file' = file \cup {c} /\ UNCHANGED <<lock, mem>> /\ pc[c] \in Locked /\ lock = c
    BY <1>0, <1>4 DEF Rename, TempContent, CopyIsCurrent, Reported, Locked
  <2>2. pc'[c] = "unlockOk" /\ \A d \in Call : d # c => pc[d] \notin Locked /\ pc'[d] = pc[d]
    BY <1>0, <1>4, <2>1, Alone DEF Inv, Rename, Goto, TypeOK
  <2>3. CopyIsCurrent'
    BY <1>0, <2>1, <2>2 DEF CopyIsCurrent, Locked
  <2>4. Reported'
    BY <1>0, <2>1, <2>2 DEF Reported, Locked
  <2>5. QED
    BY <1>0, <2>3, <2>4 DEF Inv
<1>5. ASSUME NEW c \in Call, Release(c) PROVE Inv'
  <2>1. pc[c] \in Locked /\ UNCHANGED <<file, mem, temp>>
    BY <1>5 DEF Release, Locked
  <2>2. /\ pc[c] \in {"unlockOk", "unlockThrow"}
        /\ pc'[c] = IF pc[c] = "unlockOk" THEN "returned" ELSE "threw"
    BY <1>0, <1>5 DEF Release, Goto, TypeOK
  <2>3. \A d \in Call : d # c => pc[d] \notin Locked /\ pc'[d] = pc[d]
    BY <1>0, <1>5, <2>1, Alone DEF Inv, Release, Goto, TypeOK
  <2>4. CopyIsCurrent'
    BY <1>0, <2>1, <2>2, <2>3 DEF CopyIsCurrent, Locked
  <2>5. Reported'
    BY <1>0, <2>1, <2>2, <2>3 DEF Reported
  <2>6. QED
    BY <1>0, <2>4, <2>5 DEF Inv
<1>6. ASSUME NEW c \in Call, Crash(c) \/ ReleaseFails(c) PROVE Inv'
  <2>1. /\ UNCHANGED <<file, lock, mem, temp>>
        /\ \E l \in {"dead", "unreleased"} : pc' = [pc EXCEPT ![c] = l]
    BY <1>6 DEF Crash, ReleaseFails, Goto
  <2>2. CopyIsCurrent'
    BY <1>0, <2>1 DEF CopyIsCurrent, Locked, TypeOK
  <2>3. Reported'
    BY <1>0, <2>1 DEF Reported, TypeOK
  <2>4. QED
    BY <1>0, <2>2, <2>3 DEF Inv
<1>7. CASE StaleLockExpires
  <2>1. \A d \in Call : pc[d] \notin Locked
    BY <1>0, <1>7 DEF StaleLockExpires, CopyIsCurrent, Locked
  <2>2. QED
    BY <1>0, <1>7, <2>1
    DEF StaleLockExpires, callVars, Inv, CopyIsCurrent, Reported, Locked
<1>8. CASE UNCHANGED vars \/ \E r \in Reader : readDb(r)
  BY <1>0, <1>8 DEF vars, readDb, callVars, Inv, CopyIsCurrent, Reported
<1>9. QED
  BY <1>1, <1>2, <1>3, <1>4, <1>5, <1>6, <1>7, <1>8 DEF Next, Work

LEMMA Invariance == Spec => []Inv
<1>1. QED
  BY InvInit, InvStep, PTL DEF Spec

(* A call writes back the file as it is, plus its own update: no update of *)
(* another process is overwritten (sqlite.ts:201-204).                     *)
THEOREM CopiesAreCurrent == Spec => []CopyIsCurrent
<1>1. Inv => CopyIsCurrent
  BY DEF Inv
<1>2. QED
  BY <1>1, Invariance, PTL

-----------------------------------------------------------------------------
(* The refinement and what readers see.                                    *)

LEMMA StoreInit == Init => Store!Init
BY DEF Init, Store!Init

LEMMA StoreStep == Inv /\ [Next]_vars => Store!Next \/ UNCHANGED Store!vars
<1> SUFFICES ASSUME Inv, [Next]_vars PROVE Store!Next \/ UNCHANGED Store!vars
  OBVIOUS
<1> DEFINE Told(l) == {c \in Call : pc[c] = l}
           Outcome == {"returned", "threw", "unreleased"}
<1>0. TypeOK /\ CopyIsCurrent /\ Reported
  BY DEF Inv
<1>1. CASE UNCHANGED <<file, pc>>
  BY <1>1 DEF Store!vars
<1>2. ASSUME NEW c \in Call, NEW l \in PC \ Outcome, pc[c] \notin Outcome, Goto(c, l)
      PROVE  UNCHANGED <<Told("returned"), Told("threw"), Told("unreleased")>>
  BY <1>0, <1>2 DEF Goto, TypeOK
<1>3. ASSUME NEW c \in Call,
             \/ Touch(c) \/ Acquire(c) \/ openExisting(c) \/ Callback(c) \/ WriteTemp(c)
             \/ SyncTemp(c) \/ Fail(c) \/ Crash(c)
      PROVE  UNCHANGED Store!vars
  <2>1. /\ UNCHANGED file /\ pc[c] \notin Outcome
        /\ \E l \in PC \ Outcome : Goto(c, l)
    BY <1>3 DEF Touch, Acquire, openExisting, Callback, WriteTemp, SyncTemp, Fail, Crash, PC,
       Locked, Ended
  <2>2. QED
    BY <1>2, <2>1 DEF Store!vars
<1>4. ASSUME NEW c \in Call, Rename(c) PROVE Store!Next
  <2>1. file' = file \cup {c} /\ c \notin file
    BY <1>0, <1>4 DEF Rename, TempContent, CopyIsCurrent, Reported
  <2>2. /\ UNCHANGED <<Told("returned"), Told("threw"), Told("unreleased")>>
        /\ pc[c] \notin Outcome
    BY <1>2, <1>4 DEF Rename, PC, Locked
  <2>3. Store!Apply(c)
    BY <2>1, <2>2 DEF Store!Apply, Store!Over
  <2>4. QED
    BY <2>3 DEF Store!Next
<1>5. ASSUME NEW c \in Call, NEW l \in Outcome, pc' = [pc EXCEPT ![c] = l],
             pc[c] \in {"lock", "unlockOk", "unlockThrow"}, UNCHANGED file,
             l = "returned" => pc[c] = "unlockOk", l = "threw" => pc[c] # "unlockOk"
      PROVE  Store!Next
  <2>1. /\ Told(l)' = Told(l) \cup {c}
        /\ \A k \in Outcome \ {l} : UNCHANGED Told(k)
        /\ \A k \in Outcome : c \notin Told(k)
    BY <1>0, <1>5 DEF TypeOK
  <2>2. (l = "returned" => c \in file) /\ (l = "threw" => c \notin file)
    BY <1>0, <1>5 DEF Reported
  <2> HIDE DEF Told
  <2>3. CASE l = "returned"
    <3>1. /\ Told("returned")' = Told("returned") \cup {c}
          /\ UNCHANGED <<Told("threw"), Told("unreleased")>>
          /\ c \notin Told("returned") \cup Told("threw") \cup Told("unreleased")
      BY <2>1, <2>3
    <3>2. Store!Accept(c)
      BY <1>5, <2>2, <2>3, <3>1 DEF Store!Accept, Store!Over, Told
    <3>3. QED
      BY <3>2 DEF Store!Next
  <2>4. CASE l = "threw"
    <3>1. /\ Told("threw")' = Told("threw") \cup {c}
          /\ UNCHANGED <<Told("returned"), Told("unreleased")>>
          /\ c \notin Told("returned") \cup Told("threw") \cup Told("unreleased")
      BY <2>1, <2>4
    <3>2. Store!Reject(c)
      BY <1>5, <2>2, <2>4, <3>1 DEF Store!Reject, Store!Over, Told
    <3>3. QED
      BY <3>2 DEF Store!Next
  <2>5. CASE l = "unreleased"
    <3>1. /\ Told("unreleased")' = Told("unreleased") \cup {c}
          /\ UNCHANGED <<Told("returned"), Told("threw")>>
          /\ c \notin Told("returned") \cup Told("threw") \cup Told("unreleased")
      BY <2>1, <2>5
    <3>2. Store!Doubt(c)
      BY <1>5, <3>1 DEF Store!Doubt, Store!Over, Told
    <3>3. QED
      BY <3>2 DEF Store!Next
  <2>6. QED
    BY <1>5, <2>3, <2>4, <2>5
<1>6. ASSUME NEW c \in Call, Release(c) \/ ReleaseFails(c) \/ GiveUp(c) PROVE Store!Next
  BY <1>5, <1>6 DEF Release, ReleaseFails, GiveUp, Goto
<1>7. CASE (\E c \in Call : Retry(c)) \/ StaleLockExpires \/ (\E r \in Reader : readDb(r)) \/ UNCHANGED vars
  BY <1>1, <1>7 DEF Retry, StaleLockExpires, readDb, vars, callVars
<1>8. QED
  BY <1>3, <1>4, <1>6, <1>7 DEF Next, Work

(* The file behaves as a store of atomic updates, a call whose lock cannot *)
(* be released included (sqlite.ts:168-230).                               *)
THEOREM StoreRefinement == Spec => ImplementsAtomicStore
<1>1. QED
  BY StoreInit, StoreStep, Invariance, PTL DEF Spec, ImplementsAtomicStore, Store!Spec

(* A reader has seen nothing that the file does not hold.                  *)
SeenIsStored ==
  /\ \A r \in Reader : seen[r] \subseteq file
  /\ \A c \in Call : pc[c] # "idle" => exists

LEMMA SeenInit == Init => SeenIsStored
BY DEF Init, SeenIsStored

LEMMA SeenStep ==
  Inv /\ SeenIsStored /\ [Next]_vars =>
    SeenIsStored' /\ \A r \in Reader : seen[r] \subseteq seen'[r]
<1> SUFFICES ASSUME Inv, SeenIsStored, [Next]_vars
             PROVE  SeenIsStored' /\ \A r \in Reader : seen[r] \subseteq seen'[r]
  OBVIOUS
<1>0. TypeOK /\ CopyIsCurrent /\ Reported
  BY DEF Inv
<1>1. file \subseteq file'
  <2>1. CASE \E c \in Call : Rename(c)
    BY <1>0, <2>1 DEF Rename, TempContent, CopyIsCurrent, Reported
  <2>2. CASE ~\E c \in Call : Rename(c)
    BY <2>2 DEF Next, Work, Touch, Acquire, Retry, GiveUp, Release, ReleaseFails, openExisting, Callback,
         WriteTemp, SyncTemp, Fail, Crash, StaleLockExpires, readDb, vars
  <2>3. QED
    BY <2>1, <2>2
<1>2. CASE \E r \in Reader : readDb(r)
  <2>1. PICK r \in Reader : readDb(r)
    BY <1>2
  <2>2. ~exists => file = {}
    BY <1>0 DEF SeenIsStored, Reported, TypeOK
  <2>3. seen' = [seen EXCEPT ![r] = file] /\ UNCHANGED <<exists, file, pc>>
    BY <2>1, <2>2 DEF readDb, callVars
  <2>4. QED
    BY <1>0, <2>3 DEF SeenIsStored, TypeOK
<1>3. CASE ~\E r \in Reader : readDb(r)
  <2>1. UNCHANGED seen
    BY <1>3 DEF Next, Work, Touch, Acquire, Retry, GiveUp, Release, ReleaseFails, openExisting, Callback,
         WriteTemp, SyncTemp, Rename, Fail, Crash, StaleLockExpires, vars
  <2>2. \A c \in Call : pc'[c] # "idle" => exists'
    <3>1. CASE \E c \in Call : Touch(c)
      BY <3>1 DEF Touch
    <3>2. CASE ~\E c \in Call : Touch(c)
      <4>1. UNCHANGED exists
        BY <1>3, <3>2 DEF Next, Work, Acquire, Retry, GiveUp, Release, ReleaseFails, openExisting, Callback,
             WriteTemp, SyncTemp, Rename, Fail, Crash, StaleLockExpires, vars
      <4>2. \A c \in Call : pc[c] = "idle" => pc'[c] = "idle"
        BY <1>0, <1>3, <3>2
        DEF Next, Work, Acquire, Retry, GiveUp, Release, ReleaseFails, openExisting, Callback, WriteTemp,
            SyncTemp, Rename, Fail, Crash, StaleLockExpires, callVars, vars, Goto, TypeOK
      <4>3. QED
        BY <4>1, <4>2 DEF SeenIsStored
    <3>3. QED
      BY <3>1, <3>2
  <2>3. QED
    BY <1>1, <2>1, <2>2 DEF SeenIsStored
<1>4. QED
  BY <1>2, <1>3

(* No reader goes back in time (sqlite.ts:233-243).                        *)
THEOREM MonotonicReads == Spec => ReadsAreMonotonic
<1>1. Inv /\ SeenIsStored /\ [Next]_vars => [\A r \in Reader : seen[r] \subseteq seen'[r]]_vars
  BY SeenStep
<1>2. Inv /\ SeenIsStored /\ [Next]_vars => SeenIsStored'
  BY SeenStep
<1>3. QED
  BY <1>1, <1>2, SeenInit, Invariance, PTL DEF Spec, ReadsAreMonotonic

=============================================================================
