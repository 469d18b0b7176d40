----------------------------- MODULE StateStore ------------------------------
(***************************************************************************)
(* The shared state.sqlite, as SqliteStore in src/src/db/sqlite.ts reads   *)
(* and writes it.  The database is a whole file: withDb takes a lock file, *)
(* loads the file, lets its callback change the copy in memory and         *)
(* replaces the file; readDb loads the file without the lock.              *)
(*                                                                         *)
(* A Call is one withDb call, possibly each in a process of its own; its   *)
(* update is named after it, so the content of the file is the set of the  *)
(* calls whose update it holds.  The lock (proper-lockfile) is external:   *)
(* a live holder keeps it; it goes stale some time after its holder died   *)
(* or failed to release it.                                                *)
(***************************************************************************)
EXTENDS Integers, FiniteSets

CONSTANTS
  Call,     \* withDb calls
  Reader,   \* processes that call readDb
  None,
  Retries   \* lockfile.lock retries

ASSUME RetriesAssumption == Retries \in Nat
ASSUME NoCallAssumption == None \notin Call

VARIABLES
  exists,   \* whether state.sqlite exists
  file,     \* its content
  lock,     \* the call that created the lock file, None: there is none
  pc, tries,
  mem,      \* the copy in memory
  temp,     \* the temp file next to state.sqlite
  seen      \* what each reader saw last

callVars == <<pc, tries, mem, temp>>
vars     == <<exists, file, lock, pc, tries, mem, temp, seen>>

Locked == {"load", "fn", "write", "sync", "rename", "unlockOk", "unlockThrow"}
Ended  == {"returned", "threw", "unreleased", "dead"}
PC     == {"idle", "lock"} \cup Ended \cup Locked

TypeOK ==
  /\ exists \in BOOLEAN
  /\ file \subseteq Call
  /\ lock \in Call \cup {None}
  /\ pc \in [Call -> PC]
  /\ tries \in [Call -> 0..Retries]
  /\ mem \in [Call -> SUBSET Call]
  /\ temp \in [Call -> {"none", "partial", "synced"}]
  /\ seen \in [Reader -> SUBSET Call]

Init ==
  /\ exists = FALSE /\ file = {} /\ lock = None
  /\ pc = [c \in Call |-> "idle"]
  /\ tries = [c \in Call |-> 0]
  /\ mem = [c \in Call |-> {}]
  /\ temp = [c \in Call |-> "none"]
  /\ seen = [r \in Reader |-> {}]

Goto(c, l) == pc' = [pc EXCEPT ![c] = l]

-----------------------------------------------------------------------------
(* The lock *)

(* The file is touched so that there is something to lock; an empty file   *)
(* is an empty database.                                                   *)
Touch(c) ==
  /\ pc[c] = "idle"
  /\ exists' = TRUE
  /\ Goto(c, "lock")
  /\ UNCHANGED <<file, lock, tries, mem, temp, seen>>

Acquire(c) ==
  /\ pc[c] = "lock" /\ lock = None
  /\ lock' = c
  /\ Goto(c, "load")
  /\ UNCHANGED <<exists, file, tries, mem, temp, seen>>

(* Mutant: the retries are not counted against the limit.                  *)
RetryForever(c) ==
  /\ pc[c] = "lock" /\ lock # None
  /\ tries' = [tries EXCEPT ![c] = @ + 1]
  /\ UNCHANGED <<exists, file, lock, pc, mem, temp, seen>>

Retry(c) ==
  /\ pc[c] = "lock" /\ lock # None /\ tries[c] < Retries
  /\ tries' = [tries EXCEPT ![c] = @ + 1]
  /\ UNCHANGED <<exists, file, lock, pc, mem, temp, seen>>

GiveUp(c) ==
  /\ pc[c] = "lock" /\ lock # None /\ tries[c] = Retries
  /\ Goto(c, "threw")
  /\ UNCHANGED <<exists, file, lock, tries, mem, temp, seen>>

(* Mutant: the finally block returns, and the error of a write is lost.    *)
ReleaseReturns(c) ==
  /\ pc[c] \in {"unlockOk", "unlockThrow"}
  /\ lock' = None
  /\ Goto(c, "returned")
  /\ UNCHANGED <<exists, file, tries, mem, temp, seen>>

Release(c) ==
  /\ pc[c] \in {"unlockOk", "unlockThrow"}
  /\ lock' = None
  /\ Goto(c, IF pc[c] = "unlockOk" THEN "returned" ELSE "threw")
  /\ UNCHANGED <<exists, file, tries, mem, temp, seen>>

(* release() rejects: its error replaces the result, or the error, of the  *)
(* call, whose update may be in the file.  The lock file stays and goes    *)
(* stale, since nobody renews it any more.                                 *)
ReleaseFails(c) ==
  /\ pc[c] \in {"unlockOk", "unlockThrow"}
  /\ Goto(c, "unreleased")
  /\ UNCHANGED <<exists, file, lock, tries, mem, temp, seen>>

StaleLockExpires ==
  /\ lock # None /\ pc[lock] \in {"dead", "unreleased"}
  /\ lock' = None
  /\ UNCHANGED <<exists, file, callVars, seen>>

-----------------------------------------------------------------------------
(* Under the lock *)

(* Mutant: a file that cannot be read is taken for an empty database.      *)
openExistingOrEmpty(c) ==
  /\ pc[c] = "load"
  /\ \E f \in {file, {}} : mem' = [mem EXCEPT ![c] = f]
  /\ Goto(c, "fn")
  /\ UNCHANGED <<exists, file, lock, tries, temp, seen>>

openExisting(c) ==
  /\ pc[c] = "load"
  /\ mem' = [mem EXCEPT ![c] = file]
  /\ Goto(c, "fn")
  /\ UNCHANGED <<exists, file, lock, tries, temp, seen>>

Callback(c) ==
  /\ pc[c] = "fn"
  /\ mem' = [mem EXCEPT ![c] = @ \cup {c}]
  /\ Goto(c, "write")
  /\ UNCHANGED <<exists, file, lock, tries, temp, seen>>

WriteTemp(c) ==
  /\ pc[c] = "write"
  /\ temp' = [temp EXCEPT ![c] = "partial"]
  /\ Goto(c, "sync")
  /\ UNCHANGED <<exists, file, lock, tries, mem, seen>>

SyncTemp(c) ==
  /\ pc[c] = "sync"
  /\ temp' = [temp EXCEPT ![c] = "synced"]
  /\ Goto(c, "rename")
  /\ UNCHANGED <<exists, file, lock, tries, mem, seen>>

(* A temp file that is not complete is not a database.                     *)
TempContent(c) == IF temp[c] = "synced" THEN mem[c] ELSE {}

Rename(c) ==
  /\ pc[c] = "rename"
  /\ file' = TempContent(c)
  /\ temp' = [temp EXCEPT ![c] = "none"]
  /\ Goto(c, "unlockOk")
  /\ UNCHANGED <<exists, lock, tries, mem, seen>>

(* Mutant: the lock is kept when the callback or a write fails.            *)
FailLocked(c) ==
  /\ pc[c] \in {"load", "fn", "write", "sync", "rename"}
  /\ temp' = [temp EXCEPT ![c] = "none"]
  /\ Goto(c, "threw")
  /\ UNCHANGED <<exists, file, lock, tries, mem, seen>>

(* The load, the callback or a write fails: the temp file is removed.      *)
Fail(c) ==
  /\ pc[c] \in {"load", "fn", "write", "sync", "rename"}
  /\ temp' = [temp EXCEPT ![c] = "none"]
  /\ Goto(c, "unlockThrow")
  /\ UNCHANGED <<exists, file, lock, tries, mem, seen>>

-----------------------------------------------------------------------------

Crash(c) ==
  /\ pc[c] \notin {"idle"} \cup Ended
  /\ Goto(c, "dead")
  /\ UNCHANGED <<exists, file, lock, tries, mem, temp, seen>>

(* Mutant: the same for a reader.                                          *)
readDbOrEmpty(r) ==
  /\ \E f \in {file, {}} : seen' = [seen EXCEPT ![r] = f]
  /\ UNCHANGED <<exists, file, lock, callVars>>

(* readDb: no lock, a missing file is an empty database.                   *)
readDb(r) ==
  /\ seen' = [seen EXCEPT ![r] = IF exists THEN file ELSE {}]
  /\ UNCHANGED <<exists, file, lock, callVars>>

Work(c) ==
  \/ Acquire(c) \/ Retry(c) \/ GiveUp(c) \/ Release(c) \/ ReleaseFails(c)
  \/ openExisting(c) \/ Callback(c) \/ WriteTemp(c) \/ SyncTemp(c) \/ Rename(c)
  \/ Fail(c)

Next ==
  \/ \E c \in Call : Touch(c) \/ Work(c) \/ Crash(c)
  \/ StaleLockExpires
  \/ \E r \in Reader : readDb(r)

Spec == Init /\ [][Next]_vars

(* A live process goes on with its call; a stale lock is found stale.      *)
FairSpec ==
  Spec /\ WF_vars(StaleLockExpires) /\ \A c \in Call : WF_vars(Work(c))

-----------------------------------------------------------------------------
(* Under the lock the copy in memory is the file, up to the call's own     *)
(* update: calls of concurrent processes are serialized, and none writes   *)
(* back a copy that is out of date (sqlite.ts:201-204).                    *)
CopyIsCurrent ==
  \A c \in Call :
    /\ pc[c] \in Locked => lock = c
    /\ pc[c] = "fn" => mem[c] = file
    /\ pc[c] \in {"write", "sync", "rename"} => mem[c] = file \cup {c}

(* A lock-free reader never sees a state older than one it saw before,     *)
(* whatever writers do meanwhile and wherever they die (sqlite.ts:233-243). *)
ReadsAreMonotonic == [][\A r \in Reader : seen[r] \subseteq seen'[r]]_vars

(* A lock does not outlive its call for long: whether the call returns,    *)
(* throws, cannot release it or dies, the lock is free again and other     *)
(* calls can go on.                                                        *)
LockIsFreed == lock # None ~> lock = None

(* To its callers the file is a store of atomic updates.                   *)
Store == INSTANCE AtomicStore
  WITH content  <- file,
       accepted <- {c \in Call : pc[c] = "returned"},
       rejected <- {c \in Call : pc[c] = "threw"},
       doubtful <- {c \in Call : pc[c] = "unreleased"}

(* No update is lost once it is applied, whoever else writes; a call that  *)
(* returns is stored, one that throws the error of its own work has        *)
(* changed nothing, and one that throws because it cannot release the lock *)
(* is stored in full or not at all, and will not be later                  *)
(* (sqlite.ts:168-192, 200-230).                                           *)
ImplementsAtomicStore == Store!Spec

=============================================================================
