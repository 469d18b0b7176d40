------------------------ MODULE SubjectSyncAloneProofs ------------------------
(***************************************************************************)
(* Proofs about SubjectSync for a store with one run at a time: a failed   *)
(* invoice stays ahead of the cursor, only a floor gives up coverage, only *)
(* a reset moves the cursor back, and one-off runs leave it alone.         *)
(***************************************************************************)
EXTENDS SubjectSyncProofs

(* No two runs overlap.                                                    *)
Alone == \A p, q \in Proc : p = q

(* No job downloads again what a --time-window names: such a run may turn  *)
(* a "downloaded" row behind the cursor into a "failed" one.               *)
NoWindowedRedownload == \A j \in Job : ~(j.all /\ j.window # None)

-----------------------------------------------------------------------------
(* What a lone run knows, beyond RunCovers: of rows, where RunCovers is    *)
(* about files, and of the cursor, which nobody else moves.  The parts     *)
(* about rows claim nothing where a job downloads a --time-window again.   *)

Recorded(i) == NoWindowedRedownload => row[i].status = "downloaded"

CoveredIsRecorded ==
  cursor # None => \A i \in Invoice : Between(i, base, cursor) => Recorded(i)

StartIsRecorded(p) ==
  Looping(p) /\ MovesCursor(run[p].job) =>
    \A i \in Invoice : Between(i, run[p].origin, run[p].start) => Recorded(i)

PackageIsRecorded(p) ==
  Unpacking(p) /\ run[p].cont # None =>
    /\ run[p].start < run[p].cont
    /\ Canonical(run[p].job) =>
         \A i \in Invoice : Between(i, run[p].start, run[p].cont) =>
           Recorded(i) \/ run[p].failed \/ Handles(p, i)

ForcedIsRecorded(p) ==
  /\ run[p].pc \notin {"idle", "direct", "directRow"} /\ Canonical(run[p].job)
       /\ run[p].job.forced # None => Recorded(run[p].job.forced)
  /\ run[p].cur # None => run[p].cur # run[p].job.forced

HandlesAhead(p) ==
  Unpacking(p) =>
    /\ run[p].start < run[p].upper
    /\ \A i \in Invoice : Handles(p, i) => Committed(i) /\ run[p].start <= date[i]

RewritesAhead(p) ==
  NoWindowedRedownload /\ run[p].cur # None /\ Canonical(run[p].job) /\ cursor # None =>
    ~Between(run[p].cur, base, cursor)

CursorIsBehind(p) ==
  /\ At(p, "floor") =>
       /\ cursor # None /\ cursor < run[p].origin
       /\ run[p].start < run[p].upper => run[p].start = run[p].origin
       /\ run[p].job.floor = None => run[p].origin = Epoch
  /\ At(p, "reset") =>
       /\ run[p].start = run[p].origin
       /\ run[p].job.floor = None => run[p].origin <= Epoch
  /\ run[p].pc \in {"window", "entries", "xml", "row"} /\ MovesCursor(run[p].job)
       /\ cursor # None =>
       /\ base = run[p].origin
       /\ run[p].start < run[p].upper => cursor <= run[p].start

LoneRun(p) ==
  /\ StartIsRecorded(p) /\ PackageIsRecorded(p) /\ ForcedIsRecorded(p)
  /\ HandlesAhead(p) /\ RewritesAhead(p) /\ CursorIsBehind(p)

LoneInv == CoveredIsRecorded /\ \A p \in Proc : LoneRun(p)

LEMMA IdleAlone ==
  ASSUME NEW p \in Proc, run'[p] = IdleRun
  PROVE  LoneRun(p)'
BY DEF LoneRun, StartIsRecorded, PackageIsRecorded, ForcedIsRecorded, HandlesAhead,
       RewritesAhead, CursorIsBehind, Looping, Unpacking, At, IdleRun

LEMMA LoneInit == Init => LoneInv
<1> SUFFICES ASSUME Init PROVE LoneInv
  OBVIOUS
<1>1. ASSUME NEW p \in Proc PROVE LoneRun(p)
  <2>1. run[p] = IdleRun
    BY DEF Init
  <2> QED
    BY <2>1
    DEF LoneRun, StartIsRecorded, PackageIsRecorded, ForcedIsRecorded, HandlesAhead,
        RewritesAhead, CursorIsBehind, Looping, Unpacking, At, IdleRun
<1> QED
  BY <1>1 DEF LoneInv, Init, CoveredIsRecorded

LEMMA DatesOfCommitted ==
  ASSUME TypeOK, NEW i \in Invoice, Committed(i)
  PROVE  date[i] \in Time
BY DEF TypeOK, Committed, Maybe

-----------------------------------------------------------------------------
(* Steps of KSeF                                                           *)

LEMMA CommitKeepsLone ==
  ASSUME Inv, LoneInv, TypeOK', NEW k \in Invoice, Commit(k)
  PROVE  LoneInv'
<1>1. TypeOK /\ UNCHANGED <<hwm, cursor, base, row, file, run>> /\ hwm \in Time /\ ~Committed(k)
  BY DEF Inv, Commit, storeVars, TypeOK
<1>2. ASSUME NEW from \in Time, NEW to \in Time, to <= maxDate(hwm, from),
             NEW i \in Invoice, Between(i, from, to)'
      PROVE  Between(i, from, to)
  BY <1>1, <1>2, CommitIsLate DEF Between, Committed
<1>3. \A i \in Invoice : Committed(i) => Committed(i)' /\ date'[i] = date[i]
  BY <1>1 DEF Commit, Committed, TypeOK
<1>4. CoveredIsRecorded'
  <2> SUFFICES ASSUME cursor # None, NEW i \in Invoice, Between(i, base, cursor)'
               PROVE  Recorded(i)
    BY <1>1 DEF CoveredIsRecorded, Recorded
  <2>1. base \in Time /\ cursor \in Time /\ cursor <= maxDate(hwm, base)
    BY <1>1 DEF Inv, CursorIsFinal, TypeOK, Maybe
  <2>2. Between(i, base, cursor)
    BY <1>1, <1>2, <2>1 DEF Between, Committed
  <2> QED
    BY <2>2 DEF LoneInv, CoveredIsRecorded
<1>5. ASSUME NEW p \in Proc PROVE LoneRun(p)'
  <2>1. /\ RunCovers(p) /\ LoneRun(p) /\ run[p].start \in Time /\ run[p].origin \in Time
        /\ run[p].cont \in Maybe(Time) /\ run[p].cur \in Maybe(Invoice)
    BY <1>1, RunTypes DEF Inv, RunsCover, LoneInv
  <2>2. StartIsRecorded(p)'
    <3> SUFFICES ASSUME Looping(p), MovesCursor(run[p].job), NEW i \in Invoice,
                        Between(i, run[p].origin, run[p].start)'
                 PROVE  Recorded(i)
      BY <1>1 DEF StartIsRecorded, Looping, Between, Committed, Recorded
    <3>1. run[p].start <= maxDate(hwm, run[p].origin)
      BY <2>1 DEF RunCovers, StartIsCovered
    <3>2. Between(i, run[p].origin, run[p].start)
      BY <1>1, <1>2, <2>1, <3>1
    <3> QED
      BY <2>1, <3>2 DEF LoneRun, StartIsRecorded
  <2>3. PackageIsRecorded(p)'
    <3> SUFFICES ASSUME Unpacking(p), run[p].cont # None
                 PROVE  /\ run[p].start < run[p].cont
                        /\ Canonical(run[p].job) =>
                             \A i \in Invoice : Between(i, run[p].start, run[p].cont)' =>
                               Recorded(i) \/ run[p].failed \/ Handles(p, i)
      BY <1>1 DEF PackageIsRecorded, Unpacking, Between, Committed, Recorded, Handles
    <3>1. /\ run[p].start < run[p].cont
          /\ Canonical(run[p].job) =>
               \A i \in Invoice : Between(i, run[p].start, run[p].cont) =>
                 Recorded(i) \/ run[p].failed \/ Handles(p, i)
      BY <2>1 DEF LoneRun, PackageIsRecorded
    <3>2. ASSUME Canonical(run[p].job), NEW i \in Invoice,
                 Between(i, run[p].start, run[p].cont)'
          PROVE  Between(i, run[p].start, run[p].cont)
      <4>1. run[p].cont \in Time /\ run[p].cont <= hwm
        BY <2>1, <3>2 DEF RunCovers, PackageIsComplete, Maybe
      <4>2. run[p].cont <= maxDate(hwm, run[p].start)
        BY <1>1, <2>1, <4>1, TimeAssumption DEF maxDate, Time
      <4> QED
        BY <1>1, <1>2, <2>1, <3>2, <4>1, <4>2
    <3> QED
      BY <3>1, <3>2
  <2>4. HandlesAhead(p)'
    BY <1>1, <1>3, <2>1 DEF LoneRun, HandlesAhead, Unpacking, Handles
  <2>5. RewritesAhead(p)'
    <3> SUFFICES ASSUME NoWindowedRedownload, run[p].cur # None, Canonical(run[p].job),
                        cursor # None, Between(run[p].cur, base, cursor)'
                 PROVE  FALSE
      BY <1>1 DEF RewritesAhead, Between, Committed
    <3>1. run[p].cur \in Invoice /\ Unpacking(p)
      BY <2>1 DEF Maybe, RunCovers, PathOf, Unpacking
    <3>2. Committed(run[p].cur)
      BY <2>1, <3>1 DEF LoneRun, HandlesAhead, Handles
    <3>3. Between(run[p].cur, base, cursor)
      BY <1>1, <1>3, <3>1, <3>2 DEF Between
    <3> QED
      BY <2>1, <3>3 DEF LoneRun, RewritesAhead
  <2>6. ForcedIsRecorded(p)' /\ CursorIsBehind(p)'
    BY <1>1, <2>1 DEF LoneRun, ForcedIsRecorded, CursorIsBehind, At, Recorded
  <2> QED
    BY <2>2, <2>3, <2>4, <2>5, <2>6 DEF LoneRun
<1> QED
  BY <1>4, <1>5 DEF LoneInv

(* A step that leaves runs, rows, cursor and dates alone.                  *)
LEMMA NothingHappens ==
  ASSUME LoneInv, UNCHANGED <<date, cursor, base, row, run>>
  PROVE  LoneInv'
<1>1. CoveredIsRecorded'
  BY DEF LoneInv, CoveredIsRecorded, Between, Committed, Recorded
<1>2. ASSUME NEW p \in Proc PROVE LoneRun(p)'
  BY DEF LoneInv, LoneRun, StartIsRecorded, PackageIsRecorded, ForcedIsRecorded, HandlesAhead,
         RewritesAhead, CursorIsBehind, Looping, Unpacking, At, Between, Committed, Recorded,
         Handles
<1> QED
  BY <1>1, <1>2 DEF LoneInv

-----------------------------------------------------------------------------
(* Steps of the run                                                        *)

LEMMA LoneStep ==
  ASSUME Alone, NEW p \in Proc, CoveredIsRecorded', LoneRun(p)'
  PROVE  LoneInv'
BY DEF Alone, LoneInv

(* A run that stands outside the window loop.                              *)
LEMMA LoneOutside ==
  ASSUME NEW p \in Proc, run'[p].pc \in {"direct", "directRow", "start", "read"},
         run'[p].cur = None, ForcedIsRecorded(p)'
  PROVE  LoneRun(p)'
BY DEF LoneRun, StartIsRecorded, PackageIsRecorded, HandlesAhead, RewritesAhead,
       CursorIsBehind, Looping, Unpacking, At

(* A run that asks for its next window: between packages.                  *)
LEMMA LoneBetweenPackages ==
  ASSUME NEW p \in Proc, ~Unpacking(p)', run'[p].cur = None,
         StartIsRecorded(p)', ForcedIsRecorded(p)', CursorIsBehind(p)'
  PROVE  LoneRun(p)'
BY DEF LoneRun, PackageIsRecorded, HandlesAhead, RewritesAhead

(* Rows only gain "downloaded".                                            *)
LEMMA CoverKept ==
  ASSUME LoneInv, UNCHANGED <<date, cursor, base>>,
         \A i \in Invoice : Recorded(i) => Recorded(i)'
  PROVE  CoveredIsRecorded'
BY DEF LoneInv, CoveredIsRecorded, Between, Committed

LEMMA StopKeepsLone ==
  ASSUME Alone, TypeOK, LoneInv, NEW p \in Proc, Stop(p), UNCHANGED <<ksefVars, storeVars>>
  PROVE  LoneInv'
<1>1. run'[p] = IdleRun /\ UNCHANGED <<date, cursor, base, row>>
  BY DEF Stop, TypeOK, ksefVars, storeVars
<1>2. CoveredIsRecorded'
  BY <1>1, CoverKept DEF Recorded
<1> QED
  BY <1>1, <1>2, IdleAlone, LoneStep

LEMMA OpeningKeepsLone ==
  ASSUME Alone, Inv, LoneInv, NEW p \in Proc,
         \/ \E j \in Job : Begin(p, j)
         \/ DirectDownload(p) \/ DirectRecord(p) \/ StartSubject(p)
  PROVE  LoneInv'
<1> DEFINE j == run[p].job
<1>1. /\ TypeOK /\ RunCovers(p) /\ LoneRun(p) /\ run \in [Proc -> RunType]
      /\ UNCHANGED <<date, cursor, base>>
  BY DEF Inv, RunsCover, LoneInv, TypeOK, Begin, DirectDownload, DirectRecord, StartSubject,
         ksefVars, storeVars
<1>2. CASE \E k \in Job : Begin(p, k)
  <2>1. PICK k \in Job : Begin(p, k)
    BY <1>2
  <2>2. run'[p].pc \in {"direct", "start"} /\ run'[p].job = k /\ run'[p].cur = None
        /\ (run'[p].pc = "start" => k.forced = None) /\ UNCHANGED row
    BY <1>1, <2>1 DEF Begin, IdleRun, storeVars
  <2>3. CoveredIsRecorded'
    BY <1>1, <2>2, CoverKept DEF Recorded
  <2>4. LoneRun(p)'
    BY <2>2, LoneOutside DEF ForcedIsRecorded
  <2> QED
    BY <2>3, <2>4, LoneStep
<1>3. CASE DirectDownload(p)
  <2>1. run'[p].pc = "directRow" /\ run'[p].cur = run[p].cur /\ UNCHANGED row
        /\ run[p].cur = None
    BY <1>1, <1>3 DEF DirectDownload, RunCovers, PathOf, At
  <2>2. CoveredIsRecorded'
    BY <1>1, <2>1, CoverKept DEF Recorded
  <2>3. LoneRun(p)'
    BY <2>1, LoneOutside DEF ForcedIsRecorded
  <2> QED
    BY <2>2, <2>3, LoneStep
<1>4. CASE DirectRecord(p)
  <2>1. /\ run'[p].pc = "start" /\ run'[p].cur = None /\ run'[p].job = j
        /\ run[p].pc = "directRow" /\ j.forced # None /\ j \in JobType
    BY <1>1, <1>4, JobOfRun DEF DirectRecord, RunCovers, PathOf, At
  <2>2. j.forced \in Invoice
    BY <2>1 DEF JobType, Maybe
  <2>3. /\ Canonical(j) => Recorded(j.forced)'
        /\ \A i \in Invoice : Recorded(i) => Recorded(i)'
    BY <1>1, <1>4, <2>2 DEF DirectRecord, StoreRow, Downloaded, Recorded, TypeOK
  <2>4. CoveredIsRecorded'
    BY <1>1, <2>3, CoverKept
  <2>5. LoneRun(p)'
    BY <2>1, <2>3, LoneOutside DEF ForcedIsRecorded
  <2> QED
    BY <2>4, <2>5, LoneStep
<1>5. CASE StartSubject(p)
  <2>1. /\ run'[p].pc = (IF j.window = None THEN "read" ELSE "window") /\ run'[p].job = j
        /\ run'[p].cur = None /\ run[p].pc = "start" /\ UNCHANGED row
    BY <1>1, <1>5 DEF StartSubject, RunCovers, PathOf, At, storeVars
  <2>2. CoveredIsRecorded'
    BY <1>1, <2>1, CoverKept DEF Recorded
  <2>3. ForcedIsRecorded(p)'
    BY <1>1, <2>1 DEF LoneRun, ForcedIsRecorded, Recorded
  <2>4. CASE j.window = None
    BY <2>1, <2>2, <2>3, <2>4, LoneOutside, LoneStep
  <2>5. CASE j.window # None
    <3>1. StartIsRecorded(p)' /\ CursorIsBehind(p)' /\ ~Unpacking(p)'
      BY <2>1, <2>5 DEF StartIsRecorded, CursorIsBehind, MovesCursor, Looping, Unpacking, At
    <3> QED
      BY <2>1, <2>2, <2>3, <3>1, LoneBetweenPackages, LoneStep
  <2> QED
    BY <2>4, <2>5
<1> QED
  BY <1>2, <1>3, <1>4, <1>5

(* Where the window starts, and what it leaves behind.                     *)
LEMMA ReadCursorKeepsLone ==
  ASSUME Alone, Inv, LoneInv, NEW p \in Proc, ReadCursor(p)
  PROVE  LoneInv'
<1> DEFINE j     == run[p].job
           asOf  == run[p].asOf
           c     == IF j.all THEN None ELSE cursor
           floor == ConfiguredStart(j, c, asOf)
           keep  == c # None /\ c >= floor
           first == minDate(IF keep THEN c ELSE floor, asOf)
           origin == IF keep THEN base ELSE IF c # None THEN floor ELSE first
           pc == IF c # None /\ ~keep /\ ~j.export THEN "floor"
                 ELSE IF j.all /\ ~j.export THEN "reset" ELSE "window"
<1>1. /\ TypeOK /\ RunCovers(p) /\ LoneRun(p) /\ run \in [Proc -> RunType]
      /\ run[p].pc = "read" /\ UNCHANGED <<cursor, base, row, date>>
  BY DEF Inv, RunsCover, LoneInv, TypeOK, ReadCursor, At, ksefVars, storeVars
<1>2. /\ run'[p].pc = pc /\ run'[p].job = j /\ run'[p].cur = run[p].cur
      /\ run'[p].start = first /\ run'[p].upper = asOf /\ run'[p].origin = origin
  BY <1>1 DEF ReadCursor
<1>3. /\ asOf \in Time /\ c \in Maybe(Time) /\ base \in Time /\ cursor \in Maybe(Time)
      /\ j.window = None /\ run[p].cur = None /\ j \in JobType
  BY <1>1, RunTypes, JobOfRun DEF TypeOK, Maybe, RunCovers, PathOf, At
<1>4. floor \in Time /\ first \in Time
  <2>1. floor \in Time
    BY <1>3, ConfiguredStartInTime
  <2> QED
    <3> HIDE DEF c, floor, asOf
    <3> QED BY <1>3, <2>1 DEF minDate, Maybe
<1>5. CoveredIsRecorded' /\ ForcedIsRecorded(p)'
  <2>1. CoveredIsRecorded'
    BY <1>1, CoverKept DEF Recorded
  <2> QED
    BY <1>1, <1>2, <1>3, <2>1 DEF LoneRun, ForcedIsRecorded, Recorded
<1>6. \A i \in Invoice : Between(i, origin, first) => Recorded(i)
  <2>1. \A i \in Invoice : Committed(i) => date[i] \in Time
    BY <1>1, DatesOfCommitted
  <2>2. CASE keep
    <3>1. c = cursor /\ cursor \in Time /\ cursor # None /\ first <= cursor /\ origin = base
      <4>1. c = cursor /\ c # None /\ origin = base
        BY <1>3, <2>2 DEF Maybe
      <4>2. first = minDate(cursor, asOf) /\ cursor \in Time
        BY <1>3, <2>2, <4>1 DEF Maybe
      <4> QED
        BY <1>3, <4>1, <4>2, TimeAssumption DEF minDate, Time
    <3>2. \A i \in Invoice : Between(i, base, cursor) => Recorded(i)
      BY <3>1 DEF LoneInv, CoveredIsRecorded
    <3> QED
      <4> HIDE DEF first, origin
      <4> QED BY <1>4, <2>1, <3>1, <3>2, TimeAssumption DEF Between, Time
  <2>3. CASE ~keep
    <3>1. first <= origin /\ origin \in Time
      BY <1>3, <1>4, <2>3, TimeAssumption DEF minDate, Time
    <3> QED
      <4> HIDE DEF first, origin
      <4> QED BY <1>4, <2>1, <3>1, TimeAssumption DEF Between, Time
  <2> QED
    BY <2>2, <2>3
<1>7. StartIsRecorded(p)'
  <2> HIDE DEF first, origin, pc
  <2> QED BY <1>1, <1>2, <1>6 DEF StartIsRecorded, Between, Committed, Recorded
<1>8. CursorIsBehind(p)'
  <2>1. ASSUME pc = "floor"
        PROVE  /\ cursor # None /\ cursor < origin
               /\ first < asOf => first = origin
               /\ j.floor = None => origin = Epoch
    <3>1. c # None /\ c = cursor /\ ~keep /\ origin = floor /\ cursor \in Time
      BY <1>3, <2>1 DEF Maybe
    <3>2. cursor < floor
      <4> HIDE DEF floor, c
      <4> QED BY <1>4, <3>1, TimeAssumption DEF Time
    <3>3. first = minDate(floor, asOf)
      BY <3>1
    <3>4. j.floor = None => floor = Epoch
      BY <3>1 DEF ConfiguredStart
    <3> QED
      <4> HIDE DEF first, floor, asOf
      <4> QED BY <1>3, <1>4, <3>1, <3>2, <3>3, <3>4, TimeAssumption DEF minDate, Time
  <2>2. ASSUME pc = "reset"
        PROVE  first = origin /\ (j.floor = None => origin <= Epoch)
    <3>1. j.all /\ c = None /\ ~keep /\ origin = first /\ first = minDate(floor, asOf)
      BY <2>2
    <3>2. j.floor = None => floor = Epoch
      BY <3>1 DEF ConfiguredStart
    <3> QED
      <4> HIDE DEF first, floor, asOf
      <4> QED BY <1>3, <1>4, <3>1, <3>2, TimeAssumption DEF minDate, Time
  <2>3. ASSUME pc = "window", MovesCursor(j), cursor # None
        PROVE  base = origin /\ (first < asOf => cursor <= first)
    <3>1. keep /\ c = cursor
      BY <1>3, <2>3 DEF MovesCursor
    <3>2. origin = base /\ first = minDate(cursor, asOf) /\ cursor \in Time
      BY <1>3, <3>1, <2>3 DEF Maybe
    <3> QED
      <4> HIDE DEF first, asOf
      <4> QED BY <1>3, <3>2, TimeAssumption DEF minDate, Time
  <2>4. pc \in {"floor", "reset", "window"}
    OBVIOUS
  <2> QED
    <3> HIDE DEF first, origin, pc, asOf
    <3> QED BY <1>1, <1>2, <2>1, <2>2, <2>3, <2>4 DEF CursorIsBehind, At
<1>9. ~Unpacking(p)'
  BY <1>2 DEF Unpacking
<1>10. run'[p].cur = None
  BY <1>2, <1>3
<1>11. LoneRun(p)'
  BY <1>5, <1>7, <1>8, <1>9, <1>10, LoneBetweenPackages
<1> QED
  BY <1>5, <1>11, LoneStep

LEMMA FloorOrResetKeepsLone ==
  ASSUME Alone, Inv, LoneInv, NEW p \in Proc, FloorCursor(p) \/ ResetCursor(p)
  PROVE  LoneInv'
<1> DEFINE start  == run[p].start
           origin == run[p].origin
<1>1. /\ TypeOK /\ RunCovers(p) /\ LoneRun(p) /\ run \in [Proc -> RunType]
      /\ run[p].pc \in {"floor", "reset"} /\ run[p].cur = None /\ MovesCursor(run[p].job)
      /\ UNCHANGED <<row, date>>
  BY DEF Inv, RunsCover, RunCovers, PathOf, LoneInv, TypeOK, FloorCursor, ResetCursor, At,
         ksefVars
<1>2. /\ run'[p].pc = "window" /\ run'[p].job = run[p].job /\ run'[p].cur = run[p].cur
      /\ run'[p].start = start /\ run'[p].upper = run[p].upper /\ run'[p].origin = origin
  <2>1. run' = [run EXCEPT ![p].pc = "window"]
    BY DEF FloorCursor, ResetCursor
  <2> QED
    BY <1>1, <2>1
<1>3. start \in Time /\ origin \in Time
  BY RunTypes DEF Inv
<1>4. StartIsRecorded(p)' /\ ForcedIsRecorded(p)' /\ ~Unpacking(p)'
  BY <1>1, <1>2
  DEF LoneRun, StartIsRecorded, ForcedIsRecorded, Looping, Unpacking, Between, Committed, Recorded
<1>5. CoveredIsRecorded' /\ CursorIsBehind(p)'
  <2>1. \A i \in Invoice : Committed(i) => date[i] \in Time
    BY <1>1, DatesOfCommitted
  <2>2. CASE FloorCursor(p)
    <3>1. cursor' = origin /\ base' = origin /\ (start < run[p].upper => start = origin)
      BY <1>1, <2>2 DEF FloorCursor, setContinuationPoint, LoneRun, CursorIsBehind, At
    <3>2. \A i \in Invoice : ~Between(i, origin, origin)
      <4> HIDE DEF origin
      <4> QED BY <1>3, <2>1, TimeAssumption DEF Between, Time
    <3>3. CoveredIsRecorded'
      BY <1>1, <3>1, <3>2 DEF CoveredIsRecorded, Between, Committed
    <3>4. origin <= origin
      <4> HIDE DEF origin
      <4> QED BY <1>3, TimeAssumption DEF Time
    <3> QED
      BY <1>2, <3>1, <3>3, <3>4 DEF CursorIsBehind, At
  <2>3. CASE ResetCursor(p)
    <3>1. cursor' = start /\ base' = origin /\ start = origin
      BY <1>1, <2>3 DEF ResetCursor, setContinuationPoint, LoneRun, CursorIsBehind, At
    <3>2. \A i \in Invoice : ~Between(i, origin, start)
      <4> HIDE DEF origin, start
      <4> QED BY <1>3, <2>1, <3>1, TimeAssumption DEF Between, Time
    <3>3. CoveredIsRecorded'
      BY <1>1, <3>1, <3>2 DEF CoveredIsRecorded, Between, Committed
    <3>4. start <= start
      <4> HIDE DEF start
      <4> QED BY <1>3, TimeAssumption DEF Time
    <3> QED
      BY <1>2, <3>1, <3>3, <3>4 DEF CursorIsBehind, At
  <2> QED
    BY <2>2, <2>3
<1> QED
  BY <1>1, <1>2, <1>4, <1>5, LoneBetweenPackages, LoneStep

LEMMA ExportKeepsLone ==
  ASSUME Alone, Inv, LoneInv, NEW p \in Proc, Export(p)
  PROVE  LoneInv'
<1> DEFINE start == run[p].start
           end == WindowEnd(start, run[p].upper)
<1>1. /\ TypeOK /\ RunCovers(p) /\ LoneRun(p) /\ run \in [Proc -> RunType]
      /\ run[p].pc = "window" /\ run[p].cur = None /\ start < run[p].upper
      /\ UNCHANGED <<cursor, base, row, date>>
  BY DEF Inv, RunsCover, RunCovers, PathOf, LoneInv, TypeOK, Export, HasWindow, At, ksefVars,
         storeVars
<1>2. start \in Time /\ end \in Time
  BY <1>1, RunTypes, WindowEndInTime
<1>3. PICK pkg \in Packages(start, end) : ReceivePackage(p, pkg)
  BY DEF Export
<1> DEFINE cont == resolveContinuation(pkg, start, end)
<1> HIDE DEF start, end, cont
<1>4. /\ run'[p].pc = "entries" /\ run'[p].job = run[p].job /\ run'[p].cur = None
      /\ run'[p].start = start /\ run'[p].origin = run[p].origin
      /\ run'[p].upper = run[p].upper
      /\ run'[p].todo = pkg.invoices /\ run'[p].cont = cont
  BY <1>1, <1>3 DEF ReceivePackage, start, end, cont
<1>5. cont # None =>
        start < cont /\ \A i \in Invoice : Between(i, start, cont) => i \in pkg.invoices
  BY <1>1, <1>2, ContinuationIsSound DEF cont
<1>6. \A i \in pkg.invoices : i \in Invoice /\ Committed(i) /\ start <= date[i]
  BY <1>1, <1>2, PackageShape, ExportableDates
<1>7. CoveredIsRecorded'
  BY <1>1, CoverKept DEF Recorded
<1>8. PackageIsRecorded(p)'
  BY <1>1, <1>4, <1>5 DEF PackageIsRecorded, Between, Committed, Handles
<1>9. HandlesAhead(p)'
  BY <1>1, <1>4, <1>6, NoneIsNoTime DEF HandlesAhead, Handles, Committed, start
<1>10. StartIsRecorded(p)' /\ ForcedIsRecorded(p)'
  BY <1>1, <1>4
  DEF LoneRun, StartIsRecorded, ForcedIsRecorded, Looping, Between, Committed, Recorded, start
<1>11. RewritesAhead(p)' /\ CursorIsBehind(p)'
  BY <1>1, <1>4 DEF LoneRun, RewritesAhead, CursorIsBehind, At, start
<1> QED
  BY <1>7, <1>8, <1>9, <1>10, <1>11, LoneStep DEF LoneRun

(* A step inside the package: of the rows only that of the invoice being   *)
(* written may fall back, and then the package holds the cursor.           *)
LEMMA StillRecording ==
  ASSUME Alone, Inv, LoneInv, NEW p \in Proc, Unpacking(p), Unpacking(p)',
         UNCHANGED <<date, cursor, base>>,
         run'[p].job = run[p].job, run'[p].start = run[p].start,
         run'[p].upper = run[p].upper, run'[p].origin = run[p].origin,
         run'[p].cont = run[p].cont,
         run[p].failed => run'[p].failed,
         \A i \in Invoice : Handles(p, i)' => Handles(p, i),
         ~Canonical(run[p].job) => UNCHANGED row,
         Canonical(run[p].job) =>
           \A i \in Invoice :
             /\ Recorded(i) => Recorded(i)' \/ (i = run[p].cur /\ run'[p].failed)
             /\ Handles(p, i) => Handles(p, i)' \/ Recorded(i)' \/ run'[p].failed,
         run'[p].cur # None => run'[p].cur # run[p].job.forced,
         RewritesAhead(p)'
  PROVE  LoneInv'
<1>1. /\ TypeOK /\ LoneRun(p)
      /\ run[p].start \in Time /\ run[p].origin \in Time /\ run[p].cur \in Maybe(Invoice)
      /\ run[p].job \in JobType
  BY RunTypes, JobOfRun, NoneIsNoTime DEF Inv, LoneInv, Unpacking
<1>2. \A i \in Invoice : Committed(i) => date[i] \in Time
  BY <1>1, DatesOfCommitted
<1>3. CoveredIsRecorded'
  <2> SUFFICES ASSUME cursor # None, NEW i \in Invoice, Between(i, base, cursor)
               PROVE  Recorded(i)'
    BY DEF CoveredIsRecorded, Between, Committed
  <2>1. Recorded(i)
    BY DEF LoneInv, CoveredIsRecorded
  <2>2. NoWindowedRedownload /\ Canonical(run[p].job) => i # run[p].cur
    BY <1>1, NoneIsNoTime DEF LoneRun, RewritesAhead
  <2> QED
    BY <2>1, <2>2 DEF Recorded
<1>4. StartIsRecorded(p)'
  <2> SUFFICES ASSUME MovesCursor(run[p].job), NEW i \in Invoice,
                      Between(i, run[p].origin, run[p].start)
               PROVE  Recorded(i)'
    BY DEF StartIsRecorded, Between, Committed
  <2>1. Recorded(i)
    BY <1>1 DEF LoneRun, StartIsRecorded, Looping, Unpacking
  <2>2. i # run[p].cur
    BY <1>1, <1>2, TimeAssumption DEF LoneRun, HandlesAhead, Handles, Between, Time
  <2> QED
    BY <2>1, <2>2 DEF Recorded
<1>5. PackageIsRecorded(p)'
  <2> SUFFICES ASSUME run[p].cont # None
               PROVE  /\ run[p].start < run[p].cont
                      /\ Canonical(run[p].job) =>
                           \A i \in Invoice : Between(i, run[p].start, run[p].cont) =>
                             Recorded(i)' \/ run'[p].failed \/ Handles(p, i)'
    BY DEF PackageIsRecorded, Between, Committed
  <2> QED
    BY <1>1 DEF LoneRun, PackageIsRecorded
<1>6. ForcedIsRecorded(p)'
  <2>1. ASSUME Canonical(run[p].job), run[p].job.forced # None
        PROVE  Recorded(run[p].job.forced)'
    <3>1. Recorded(run[p].job.forced)
      BY <1>1, <2>1 DEF LoneRun, ForcedIsRecorded, Unpacking
    <3>2. run[p].job.forced \in Invoice
      BY <1>1, <2>1 DEF JobType, Maybe
    <3>3. run[p].job.forced # run[p].cur
      BY <1>1, <2>1 DEF LoneRun, ForcedIsRecorded
    <3> QED
      BY <2>1, <3>1, <3>2, <3>3
  <2> QED
    BY <2>1 DEF ForcedIsRecorded
<1>7. HandlesAhead(p)' /\ CursorIsBehind(p)'
  BY <1>1 DEF LoneRun, HandlesAhead, CursorIsBehind, Unpacking, At, Committed
<1> QED
  BY <1>3, <1>4, <1>5, <1>6, <1>7, LoneStep DEF LoneRun

LEMMA EntryKeepsLone ==
  ASSUME Alone, Inv, LoneInv, NEW p \in Proc, NEW k \in Invoice,
         SkipEntry(p, k) \/ TakeEntry(p, k)
  PROVE  LoneInv'
<1> DEFINE j == run[p].job
<1>1. /\ TypeOK /\ RunCovers(p) /\ LoneRun(p) /\ run \in [Proc -> RunType]
      /\ run[p].pc = "entries" /\ run[p].cur = None /\ k \in run[p].todo
      /\ UNCHANGED <<cursor, base, row, date>>
  BY DEF Inv, RunsCover, RunCovers, PathOf, LoneInv, TypeOK, SkipEntry, TakeEntry, At, ksefVars,
         storeVars
<1>2. j \in Job
  BY <1>1, JobOfRun
<1>3. CASE SkipEntry(p, k)
  <2>1. /\ run'[p].pc = "entries" /\ run'[p].job = j /\ run'[p].cur = None
        /\ run'[p].start = run[p].start /\ run'[p].upper = run[p].upper
        /\ run'[p].origin = run[p].origin
        /\ run'[p].todo = run[p].todo \ {k} /\ run'[p].cont = run[p].cont
        /\ run'[p].failed = run[p].failed /\ Skippable(j, k)
    BY <1>1, <1>3 DEF SkipEntry
  <2>2. Canonical(j) => Recorded(k)
    BY <1>1, <2>1, NoneIsNoTime DEF Skippable, LoneRun, ForcedIsRecorded, Recorded
  <2>3. Unpacking(p) /\ Unpacking(p)' /\ RewritesAhead(p)'
    BY <1>1, <2>1 DEF Unpacking, RewritesAhead
  <2>4. \A i \in Invoice : /\ Recorded(i)' <=> Recorded(i)
                           /\ Handles(p, i)' => Handles(p, i)
                           /\ Handles(p, i) => Handles(p, i)' \/ i = k
    BY <1>1, <2>1 DEF Recorded, Handles
  <2> QED
    BY <1>1, <2>1, <2>2, <2>3, <2>4, StillRecording
<1>4. CASE TakeEntry(p, k)
  <2>1. /\ run'[p].pc = "xml" /\ run'[p].job = j /\ run'[p].cur = k
        /\ run'[p].start = run[p].start /\ run'[p].upper = run[p].upper
        /\ run'[p].origin = run[p].origin
        /\ run'[p].todo = run[p].todo \ {k} /\ run'[p].cont = run[p].cont
        /\ run'[p].failed = run[p].failed /\ ~Skippable(j, k)
    BY <1>1, <1>4 DEF TakeEntry
  <2>2. Unpacking(p) /\ Unpacking(p)'
    BY <1>1, <2>1 DEF Unpacking
  <2>3. \A i \in Invoice : /\ Recorded(i)' <=> Recorded(i)
                           /\ Handles(p, i)' <=> Handles(p, i)
    BY <1>1, <2>1, NoneIsNoTime DEF Recorded, Handles
  <2>4. RewritesAhead(p)'
    <3> SUFFICES ASSUME NoWindowedRedownload, Canonical(j), cursor # None,
                        Between(k, base, cursor)
                 PROVE  FALSE
      BY <1>1, <2>1 DEF RewritesAhead, Between, Committed
    <3>1. row[k].status = "downloaded" /\ file[k]
      BY DEF LoneInv, CoveredIsRecorded, Recorded, Inv, RecordedIsOnDisk
    <3>2. j.all
      BY <2>1, <3>1 DEF Skippable
    <3>3. MovesCursor(j)
      BY <1>2, <3>2 DEF NoWindowedRedownload, MovesCursor, Canonical
    <3>4. run[p].start < run[p].upper /\ run[p].start <= date[k] /\ Committed(k)
      BY <1>1, <2>2 DEF LoneRun, HandlesAhead, Handles
    <3>5. cursor <= run[p].start
      BY <1>1, <3>3, <3>4 DEF LoneRun, CursorIsBehind
    <3>6. cursor \in Time /\ run[p].start \in Time /\ date[k] \in Time /\ date[k] < cursor
      BY <1>1, <3>4, RunTypes, DatesOfCommitted DEF TypeOK, Maybe, Between
    <3> QED
      BY <3>4, <3>5, <3>6, TimeAssumption DEF Time
  <2>5. k # j.forced
    BY <2>1 DEF Skippable
  <2> QED
    BY <1>1, <2>1, <2>2, <2>3, <2>4, <2>5, StillRecording
<1> QED
  BY <1>3, <1>4

LEMMA WriteKeepsLone ==
  ASSUME Alone, Inv, LoneInv, NEW p \in Proc,
         WriteXml(p) \/ RecordDownloaded(p) \/ RecordFailed(p)
  PROVE  LoneInv'
<1> DEFINE j == run[p].job
<1>1. /\ TypeOK /\ RunCovers(p) /\ LoneRun(p) /\ run \in [Proc -> RunType]
      /\ run[p].pc \in {"xml", "row"} /\ run[p].cur # None
      /\ UNCHANGED <<cursor, base, date>>
  BY DEF Inv, RunsCover, RunCovers, PathOf, LoneInv, TypeOK, WriteXml, RecordDownloaded,
         RecordFailed, At, ksefVars
<1>2. run[p].cur \in Invoice /\ run[p].cur # j.forced
  BY <1>1, RunTypes DEF Maybe, LoneRun, ForcedIsRecorded
<1>3. /\ run'[p].job = j /\ run'[p].cur \in {run[p].cur, None}
      /\ run'[p].start = run[p].start /\ run'[p].upper = run[p].upper
      /\ run'[p].origin = run[p].origin
      /\ run'[p].todo = run[p].todo /\ run'[p].cont = run[p].cont
      /\ Unpacking(p) /\ Unpacking(p)'
  <2>1. CASE WriteXml(p)
    BY <1>1, <2>1 DEF WriteXml, Unpacking
  <2>2. CASE RecordDownloaded(p)
    BY <1>1, <2>2 DEF RecordDownloaded, Unpacking
  <2>3. CASE RecordFailed(p)
    BY <1>1, <2>3 DEF RecordFailed, Unpacking
  <2> QED
    BY <2>1, <2>2, <2>3
<1>4. /\ run[p].failed => run'[p].failed
      /\ ~Canonical(j) => UNCHANGED row
      /\ Canonical(j) =>
           \A i \in Invoice :
             /\ Recorded(i) => Recorded(i)' \/ (i = run[p].cur /\ run'[p].failed)
             /\ Handles(p, i) => Handles(p, i)' \/ Recorded(i)' \/ run'[p].failed
  <2>1. CASE WriteXml(p)
    <3>1. UNCHANGED row /\ run'[p].cur = run[p].cur /\ run'[p].failed = run[p].failed
      BY <1>1, <2>1 DEF WriteXml
    <3> QED
      BY <1>3, <3>1 DEF Recorded, Handles
  <2>2. CASE RecordDownloaded(p)
    <3>1. run'[p].failed = run[p].failed /\ StoreRow(j, run[p].cur, Downloaded)
      BY <1>1, <2>2 DEF RecordDownloaded
    <3>2. Canonical(j) =>
            \A i \in Invoice : i = run[p].cur \/ Recorded(i) => Recorded(i)'
      <4>1. Canonical(j) => row' = [row EXCEPT ![run[p].cur] = Downloaded]
        BY <3>1 DEF StoreRow
      <4>2. row \in [Invoice -> Row]
        BY <1>1 DEF TypeOK
      <4> QED
        BY <1>2, <4>1, <4>2 DEF Downloaded, Recorded
    <3>3. ~Canonical(j) => UNCHANGED row
      BY <3>1 DEF StoreRow
    <3>4. \A i \in Invoice : Handles(p, i) => Handles(p, i)' \/ i = run[p].cur
      BY <1>3 DEF Handles
    <3> QED
      BY <3>1, <3>2, <3>3, <3>4
  <2>3. CASE RecordFailed(p)
    <3>1. run'[p].failed = TRUE
      BY <1>1, <2>3 DEF RecordFailed
    <3>2. ~Canonical(j) => UNCHANGED row
      BY <2>3 DEF RecordFailed, StoreRow
    <3>3. ASSUME NEW i \in Invoice, i # run[p].cur
          PROVE  Recorded(i) => Recorded(i)'
      BY <1>1, <2>3, <3>3 DEF RecordFailed, StoreRow, Recorded, TypeOK
    <3> QED
      BY <3>1, <3>2, <3>3
  <2> QED
    BY <2>1, <2>2, <2>3
<1>5. \A i \in Invoice : Handles(p, i)' => Handles(p, i)
  BY <1>3, NoneIsNoTime DEF Handles
<1>6. RewritesAhead(p)'
  BY <1>1, <1>3 DEF LoneRun, RewritesAhead, Between, Committed
<1> QED
  BY <1>1, <1>2, <1>3, <1>4, <1>5, <1>6, StillRecording

LEMMA AdvanceKeepsLone ==
  ASSUME Alone, Inv, LoneInv, NEW p \in Proc, AdvanceCursor(p)
  PROVE  LoneInv'
<1> DEFINE j == run[p].job
           start == run[p].start
           cont == run[p].cont
           origin == run[p].origin
<1>1. /\ TypeOK /\ LoneRun(p) /\ run \in [Proc -> RunType]
      /\ run[p].pc = "entries" /\ run[p].cur = None /\ run[p].todo = {}
      /\ ~run[p].failed /\ cont # None /\ UNCHANGED <<row, date>>
  BY DEF Inv, RunsCover, RunCovers, PathOf, LoneInv, TypeOK, AdvanceCursor, PackageDone, Advances,
         At, ksefVars
<1>2. cont \in Time /\ origin \in Time /\ start \in Time
  BY <1>1, RunTypes DEF Maybe
<1>3. /\ run'[p].pc = "window" /\ run'[p].job = j /\ run'[p].cur = None
      /\ run'[p].start = cont /\ run'[p].upper = run[p].upper /\ run'[p].origin = origin
  BY <1>1 DEF AdvanceCursor
<1>4. ASSUME MovesCursor(j)
      PROVE  \A i \in Invoice : Between(i, origin, cont) => Recorded(i)
  <2>1. \A i \in Invoice : Between(i, origin, start) => Recorded(i)
    BY <1>1, <1>4 DEF LoneRun, StartIsRecorded, Looping
  <2>2. \A i \in Invoice : Between(i, start, cont) => Recorded(i)
    BY <1>1, <1>4, NoneIsNoTime
    DEF LoneRun, PackageIsRecorded, Unpacking, Handles, MovesCursor, Canonical
  <2>3. \A i \in Invoice : Committed(i) => date[i] \in Time
    BY <1>1, DatesOfCommitted
  <2>4. \A i \in Invoice : Between(i, origin, cont) =>
          Between(i, origin, start) \/ Between(i, start, cont)
    <3> HIDE DEF cont, origin, start
    <3> QED BY <1>2, <2>3, TimeAssumption DEF Between, Time
  <2> QED
    BY <2>1, <2>2, <2>4
<1>5. StartIsRecorded(p)' /\ ForcedIsRecorded(p)' /\ ~Unpacking(p)'
  BY <1>1, <1>3, <1>4
  DEF LoneRun, StartIsRecorded, ForcedIsRecorded, Unpacking, Between, Committed, Recorded
<1>6. CASE MovesCursor(j)
  <2>1. cursor' = cont /\ base' = origin
    BY <1>6 DEF AdvanceCursor, setContinuationPoint
  <2>2. CoveredIsRecorded'
    BY <1>1, <1>4, <1>6, <2>1 DEF CoveredIsRecorded, Between, Committed, Recorded
  <2>3. cont <= cont
    <3> HIDE DEF cont
    <3> QED BY <1>2, TimeAssumption DEF Time
  <2>4. CursorIsBehind(p)'
    BY <1>3, <2>1, <2>3 DEF CursorIsBehind, At
  <2> QED
    BY <1>3, <1>5, <2>2, <2>4, LoneBetweenPackages, LoneStep
<1>7. CASE ~MovesCursor(j)
  <2>1. UNCHANGED <<cursor, base>>
    BY <1>7 DEF AdvanceCursor
  <2>2. CoveredIsRecorded'
    BY <1>1, <2>1, CoverKept DEF Recorded
  <2>3. CursorIsBehind(p)'
    BY <1>3, <1>7 DEF CursorIsBehind, At
  <2> QED
    BY <1>3, <1>5, <2>2, <2>3, LoneBetweenPackages, LoneStep
<1> QED
  BY <1>6, <1>7

LEMMA LoneInvStep ==
  Alone /\ Inv /\ LoneInv /\ [Next]_vars => LoneInv'
<1> SUFFICES ASSUME Alone, Inv, LoneInv, [Next]_vars PROVE LoneInv'
  OBVIOUS
<1>1. TypeOK /\ TypeOK'
  BY TypeStep DEF Inv
<1>2. CASE Tick \/ RaiseHwm \/ UNCHANGED vars
  BY <1>2, NothingHappens DEF Tick, RaiseHwm, vars, storeVars
<1>3. ASSUME NEW i \in Invoice, Commit(i) PROVE LoneInv'
  BY <1>1, <1>3, CommitKeepsLone
<1>4. ASSUME NEW p \in Proc, NEW j \in Job, Begin(p, j) PROVE LoneInv'
  BY <1>4, OpeningKeepsLone
<1>5. ASSUME NEW p \in Proc, Step(p) PROVE LoneInv'
  <2>1. CASE Abort(p) \/ EndOfWindows(p) \/ ExportYieldsNothing(p) \/ HoldCursor(p)
    BY <1>1, <2>1, StopKeepsLone DEF Abort, EndOfWindows, ExportYieldsNothing, HoldCursor
  <2>2. CASE DirectDownload(p) \/ DirectRecord(p) \/ StartSubject(p)
    BY <2>2, OpeningKeepsLone
  <2>3. CASE ReadCursor(p) \/ FloorCursor(p) \/ ResetCursor(p) \/ Export(p)
    BY <2>3, ReadCursorKeepsLone, FloorOrResetKeepsLone, ExportKeepsLone
  <2>4. CASE \E i \in Invoice : SkipEntry(p, i) \/ TakeEntry(p, i)
    BY <2>4, EntryKeepsLone
  <2>5. CASE WriteXml(p) \/ RecordDownloaded(p) \/ RecordFailed(p) \/ AdvanceCursor(p)
    BY <2>5, WriteKeepsLone, AdvanceKeepsLone
  <2> QED
    BY <1>5, <2>1, <2>2, <2>3, <2>4, <2>5 DEF Step
<1> QED
  BY <1>2, <1>3, <1>4, <1>5 DEF Next, Ksef

LEMMA LoneInvariance ==
  ASSUME Alone PROVE Spec => []LoneInv
<1>1. Init => LoneInv
  BY LoneInit
<1>2. Inv /\ LoneInv /\ [Next]_vars => LoneInv'
  BY LoneInvStep
<1> QED
  BY <1>1, <1>2, Invariance, PTL DEF Spec

-----------------------------------------------------------------------------
(* What a failed write costs                                               *)

(* With one run at a time, an invoice whose row says "failed" lies at or   *)
(* after the continuation point, so that a later export covers it again    *)
(* (syncSubjectRunner.ts:487-489), unless some job downloads a             *)
(* --time-window again.                                                    *)
THEOREM FailedAheadOfCursor ==
  ASSUME Alone, NoWindowedRedownload PROVE Spec => []FailedIsRetried
<1>1. Inv /\ LoneInv => FailedIsRetried
  <2> SUFFICES ASSUME Inv, LoneInv, cursor # None, NEW i \in Invoice,
                      row[i].status = "failed", Committed(i), base <= date[i]
               PROVE  cursor <= date[i]
    BY DEF FailedIsRetried
  <2>1. ~Between(i, base, cursor)
    BY DEF LoneInv, CoveredIsRecorded, Recorded
  <2>2. cursor \in Time /\ date[i] \in Time
    BY DatesOfCommitted DEF Inv, TypeOK, Maybe
  <2> QED
    BY <2>1, <2>2, TimeAssumption DEF Between, Time
<1> QED
  BY <1>1, Invariance, LoneInvariance, PTL

-----------------------------------------------------------------------------
(* What moves the cursor and the start of the covered range                *)

(* Only three steps of a run write the continuation point.                 *)
LEMMA CursorMoves ==
  ASSUME [Next]_vars, <<cursor, base>>' # <<cursor, base>>
  PROVE  \E p \in Proc : FloorCursor(p) \/ ResetCursor(p)
                           \/ (AdvanceCursor(p) /\ MovesCursor(run[p].job))
<1>1. CASE Ksef \/ UNCHANGED vars
  BY <1>1 DEF Ksef, Tick, RaiseHwm, Commit, vars, storeVars
<1>2. ASSUME NEW p \in Proc, NEW j \in Job, Begin(p, j) PROVE FALSE
  BY <1>2 DEF Begin, storeVars
<1>3. ASSUME NEW p \in Proc, Step(p)
      PROVE  FloorCursor(p) \/ ResetCursor(p) \/ (AdvanceCursor(p) /\ MovesCursor(run[p].job))
  <2>1. CASE \/ Abort(p) \/ DirectDownload(p) \/ DirectRecord(p) \/ StartSubject(p)
             \/ ReadCursor(p) \/ EndOfWindows(p) \/ ExportYieldsNothing(p) \/ Export(p)
             \/ \E i \in Invoice : SkipEntry(p, i) \/ TakeEntry(p, i)
             \/ WriteXml(p) \/ RecordDownloaded(p) \/ RecordFailed(p) \/ HoldCursor(p)
    BY <2>1 DEF Abort, DirectDownload, DirectRecord, StartSubject, ReadCursor, EndOfWindows,
         ExportYieldsNothing, Export, SkipEntry, TakeEntry, WriteXml, RecordDownloaded,
         RecordFailed, HoldCursor, storeVars
  <2>2. CASE AdvanceCursor(p)
    BY <2>2 DEF AdvanceCursor
  <2> QED
    BY <1>3, <2>1, <2>2 DEF Step
<1> QED
  BY <1>1, <1>2, <1>3 DEF Next

(* What the three steps write, when no other run is about.                 *)
LEMMA CursorWritten ==
  ASSUME Alone, Inv, LoneInv, NEW p \in Proc, cursor # None
  PROVE  /\ FloorCursor(p) =>
              /\ cursor' > cursor
              /\ run[p].job.floor = None => base' = Epoch
         /\ ResetCursor(p) /\ run[p].job.floor = None => base' <= Epoch
         /\ AdvanceCursor(p) /\ MovesCursor(run[p].job) => cursor' > cursor /\ base' = base
<1>1. /\ TypeOK /\ LoneRun(p) /\ cursor \in Time /\ run[p].origin \in Time
      /\ run[p].start \in Time
  BY RunTypes DEF Inv, LoneInv, TypeOK, Maybe
<1>2. FloorCursor(p) => /\ cursor' > cursor
                        /\ run[p].job.floor = None => base' = Epoch
  BY <1>1, TimeAssumption DEF FloorCursor, setContinuationPoint, LoneRun, CursorIsBehind, At, Time
<1>3. ResetCursor(p) /\ run[p].job.floor = None => base' <= Epoch
  BY <1>1 DEF ResetCursor, setContinuationPoint, LoneRun, CursorIsBehind, At
<1>4. ASSUME AdvanceCursor(p), MovesCursor(run[p].job)
      PROVE  cursor' > cursor /\ base' = base
  <2>1. cursor' = run[p].cont /\ base' = run[p].origin /\ run[p].cont # None /\ Unpacking(p)
    BY <1>4 DEF AdvanceCursor, PackageDone, Advances, setContinuationPoint, At, Unpacking
  <2>2. run[p].cont \in Time /\ run[p].start < run[p].cont /\ run[p].start < run[p].upper
    BY <1>1, <2>1, RunTypes DEF Maybe, LoneRun, PackageIsRecorded, HandlesAhead
  <2>3. base = run[p].origin /\ cursor <= run[p].start
    BY <1>1, <1>4, <2>1, <2>2 DEF LoneRun, CursorIsBehind, Unpacking
  <2> QED
    BY <1>1, <2>1, <2>2, <2>3, TimeAssumption DEF Time
<1> QED
  BY <1>2, <1>3, <1>4

(* The covered range loses its beginning only to a configured floor, which *)
(* an older cursor is moved to and --redownload-all resets to              *)
(* (syncSubjectRunner.ts:106-114, README:121, 459-461).                    *)
THEOREM FloorOnly ==
  ASSUME Alone PROVE Spec => OnlyFloorDropsCoverage
<1> DEFINE Loses == cursor # None /\ base' > maxDate(base, Epoch)
           ByFloor == \E p \in Proc : run[p].pc \in {"floor", "reset"} /\ run[p].job.floor # None
<1>1. ASSUME Inv, LoneInv, [Next]_vars, Loses PROVE ByFloor
  <2>1. base \in Time /\ Epoch \in Time /\ base <= maxDate(base, Epoch)
        /\ Epoch <= maxDate(base, Epoch)
    <3>1. base \in Time
      BY <1>1 DEF Inv, TypeOK
    <3> QED
      BY <3>1, TimeAssumption DEF maxDate, Time
  <2>2. base' \in Time /\ maxDate(base, Epoch) \in Time
    BY <1>1, <2>1, TypeStep DEF Inv, TypeOK, maxDate
  <2>3. ~(base' <= Epoch) /\ base' # base
    BY <1>1, <2>1, <2>2, TimeAssumption DEF Time
  <2>4. PICK p \in Proc : FloorCursor(p) \/ ResetCursor(p)
                            \/ (AdvanceCursor(p) /\ MovesCursor(run[p].job))
    BY <1>1, <2>3, CursorMoves
  <2>5. Epoch <= Epoch
    BY <2>1, TimeAssumption DEF Time
  <2> QED
    BY <1>1, <2>3, <2>4, <2>5, CursorWritten DEF FloorCursor, ResetCursor, At
<1>2. Inv /\ LoneInv /\ [Next]_vars => [Loses => ByFloor]_vars
  BY <1>1
<1>3. Spec => [][Loses => ByFloor]_vars
  BY <1>2, Invariance, LoneInvariance, PTL DEF Spec
<1> QED
  BY <1>3, PTL DEF OnlyFloorDropsCoverage

(* The continuation point goes back only when --redownload-all resets it.  *)
THEOREM ResetOnly ==
  ASSUME Alone PROVE Spec => OnlyResetMovesBack
<1> DEFINE Moves == cursor # None /\ cursor' # cursor
           Forward == cursor' > cursor \/ \E p \in Proc : At(p, "reset")
<1>1. ASSUME Inv, LoneInv, [Next]_vars, Moves PROVE Forward
  <2>1. PICK p \in Proc : FloorCursor(p) \/ ResetCursor(p)
                            \/ (AdvanceCursor(p) /\ MovesCursor(run[p].job))
    BY <1>1, CursorMoves
  <2> QED
    BY <1>1, <2>1, CursorWritten DEF ResetCursor
<1>2. Inv /\ LoneInv /\ [Next]_vars => [Moves => Forward]_vars
  BY <1>1
<1>3. Spec => [][Moves => Forward]_vars
  BY <1>2, Invariance, LoneInvariance, PTL DEF Spec
<1> QED
  BY <1>3, PTL DEF OnlyResetMovesBack

-----------------------------------------------------------------------------
(* One-off runs                                                            *)

(* What a step of a one-off run leaves alone, whatever else runs.          *)
Isolated(p) ==
  /\ run[p].job.export => UNCHANGED <<cursor, row, file>>
  /\ run[p].job.window # None => UNCHANGED cursor

LEMMA StepIsIsolated ==
  ASSUME Inv, NEW p \in Proc, Step(p) PROVE Isolated(p)
<1>1. run[p].pc \in {"floor", "reset"} => MovesCursor(run[p].job)
  BY DEF Inv, RunsCover, RunCovers, PathOf
<1>2. CASE \/ Abort(p) \/ StartSubject(p) \/ ReadCursor(p) \/ EndOfWindows(p)
           \/ ExportYieldsNothing(p) \/ Export(p) \/ HoldCursor(p)
           \/ \E i \in Invoice : SkipEntry(p, i) \/ TakeEntry(p, i)
  BY <1>2 DEF Abort, StartSubject, ReadCursor, EndOfWindows, ExportYieldsNothing, Export,
       HoldCursor, SkipEntry, TakeEntry, storeVars, Isolated
<1>3. CASE DirectDownload(p) \/ WriteXml(p)
  BY <1>3 DEF DirectDownload, WriteXml, StoreXml, Canonical, Isolated
<1>4. CASE DirectRecord(p) \/ RecordDownloaded(p) \/ RecordFailed(p)
  BY <1>4 DEF DirectRecord, RecordDownloaded, RecordFailed, StoreRow, Canonical, Isolated
<1>5. CASE FloorCursor(p) \/ ResetCursor(p)
  BY <1>1, <1>5 DEF FloorCursor, ResetCursor, At, MovesCursor, Isolated
<1>6. CASE AdvanceCursor(p)
  BY <1>6 DEF AdvanceCursor, MovesCursor, Isolated
<1> QED
  BY <1>2, <1>3, <1>4, <1>5, <1>6 DEF Step

(* However many runs overlap, the steps of a run with --output-path leave  *)
(* the canonical state alone and those of a run with --time-window leave   *)
(* the cursor alone (syncSubjectRunner.ts:88-90, 276-282).                 *)
THEOREM OneOffStepsAreIsolated == Spec => [][\A p \in Proc : Step(p) => Isolated(p)]_vars
<1>1. Inv => [\A p \in Proc : Step(p) => Isolated(p)]_vars
  BY StepIsIsolated
<1> QED
  BY <1>1, Invariance, PTL DEF Spec

(* With one run at a time nothing else can happen while it works, except   *)
(* at KSeF (README:469, 575-576).                                          *)
THEOREM OneOffsAreIsolated ==
  ASSUME Alone PROVE Spec => OneOffRunsAreIsolated
<1> DEFINE Leaves ==
      \A p \in Proc :
        /\ ~At(p, "idle") /\ run[p].job.export => UNCHANGED <<cursor, row, file>>
        /\ ~At(p, "idle") /\ run[p].job.window # None => UNCHANGED cursor
<1>1. ASSUME Inv, [Next]_vars, NEW p \in Proc, ~At(p, "idle") PROVE Isolated(p)
  <2>1. CASE Ksef \/ UNCHANGED vars
    BY <2>1 DEF Ksef, Tick, RaiseHwm, Commit, vars, storeVars, Isolated
  <2>2. ASSUME NEW q \in Proc, Step(q) PROVE Isolated(p)
    <3>1. p = q /\ Isolated(q)
      BY <1>1, <2>2, StepIsIsolated DEF Alone
    <3> QED
      BY <3>1 DEF Isolated
  <2>3. ASSUME NEW q \in Proc, NEW j \in Job, Begin(q, j) PROVE FALSE
    <3>1. q = p /\ At(q, "idle")
      BY <2>3 DEF Alone, Begin
    <3> QED
      BY <1>1, <3>1
  <2> QED
    BY <1>1, <2>1, <2>2, <2>3 DEF Next
<1>2. Inv /\ [Next]_vars => [Leaves]_vars
  BY <1>1 DEF Isolated
<1>3. Spec => [][Leaves]_vars
  BY <1>2, Invariance, PTL DEF Spec
<1> QED
  BY <1>3, PTL DEF OneOffRunsAreIsolated
=============================================================================
