-------------------------- MODULE SubjectSyncProofs --------------------------
(***************************************************************************)
(* Proofs about SubjectSync, for any set of concurrent runs, any command   *)
(* lines and any number of invoices: type correctness, the two invariants  *)
(* on what the store holds, the finality of the cursor, and that the       *)
(* system implements GaplessFeed.                                          *)
(***************************************************************************)
EXTENDS SubjectSync, TLAPS

(* Dropping the digits below the millisecond never moves a date forward.   *)
LEMMA ParseDateIsBelow ==
  ASSUME NEW t \in Nat
  PROVE  ParseDate(t) \in Nat /\ ParseDate(t) <= t
<1>1. t = Grain * (t \div Grain) + (t % Grain) /\ t \div Grain \in Nat
      /\ t % Grain \in Nat
  BY TimeAssumption, Z3
<1>2. QED
  BY <1>1, TimeAssumption, Z3 DEF ParseDate

LEMMA ParseDateInTime ==
  ASSUME NEW t \in Time
  PROVE  ParseDate(t) \in Time /\ ParseDate(t) <= t
BY ParseDateIsBelow, TimeAssumption DEF Time

LEMMA WindowEndInTime ==
  ASSUME NEW s \in Time, NEW u \in Time
  PROVE  WindowEnd(s, u) \in Time
BY TimeAssumption DEF WindowEnd, minDate, Time

LEMMA ConfiguredStartInTime ==
  ASSUME NEW j \in JobType, NEW c \in Maybe(Time), NEW asOf \in Time
  PROVE  ConfiguredStart(j, c, asOf) \in Time
<1>1. j.floor \in Maybe(Time)
  BY DEF JobType
<1>2. QED
  BY <1>1, TimeAssumption
  DEF ConfiguredStart, resolveDefaultStart, maxDate, Maybe, Time

(* What an answer of KSeF looks like.                                      *)
LEMMA PackageShape ==
  ASSUME TypeOK, NEW start \in Time, NEW end \in Time,
         NEW pkg \in Packages(start, end)
  PROVE  /\ pkg.invoices \subseteq Exportable(start, end)
         /\ pkg.isTruncated \in BOOLEAN
         /\ ~pkg.isTruncated =>
              /\ pkg.invoices = Exportable(start, end)
              /\ pkg.permanentStorageHwmDate \in {hwm, None}
         /\ pkg.isTruncated =>
              /\ pkg.invoices \in OldestOf(Exportable(start, end))
              /\ pkg.lastPermanentStorageDate \in Maybe(LatestDates(pkg.invoices))
<1>1. CASE pkg \in CompletePackages(start, end)
  <2>1. PICK h \in {hwm, None} :
          pkg = [invoices |-> Exportable(start, end), isTruncated |-> FALSE,
                 lastPermanentStorageDate |-> None, permanentStorageHwmDate |-> h]
    BY <1>1 DEF CompletePackages
  <2>2. QED
    BY <2>1
<1>2. CASE pkg \in TruncatedPackages(start, end)
  <2>1. PICK S \in OldestOf(Exportable(start, end)) \ {{}} :
          \E l \in Maybe(LatestDates(S)) :
            pkg = [invoices |-> S, isTruncated |-> TRUE,
                   lastPermanentStorageDate |-> l, permanentStorageHwmDate |-> hwm]
    BY <1>2 DEF TruncatedPackages
  <2>2. S \subseteq Exportable(start, end)
    BY DEF OldestOf
  <2>3. QED
    BY <2>1, <2>2
<1>3. QED
  BY <1>1, <1>2 DEF Packages

LEMMA ExportableDates ==
  ASSUME TypeOK, NEW start \in Time, NEW end \in Time,
         NEW i \in Exportable(start, end)
  PROVE  /\ i \in Invoice /\ Committed(i) /\ date[i] \in Time
         /\ start <= date[i] /\ date[i] <= end /\ date[i] <= hwm
<1>1. i \in Invoice /\ date[i] \in start .. minDate(end, hwm) /\ Committed(i)
  BY DEF Exportable
<1>2. date[i] \in Time /\ hwm \in Time
  BY <1>1 DEF TypeOK, Committed, Maybe
<1>3. QED
  BY <1>1, <1>2, TimeAssumption DEF minDate, Time

(* The heart of the matter: whatever KSeF answers, the continuation point  *)
(* is final and everything before it is in the package.                    *)
LEMMA ContinuationIsSound ==
  ASSUME TypeOK, NEW start \in Time, NEW end \in Time,
         NEW pkg \in Packages(start, end),
         resolveContinuation(pkg, start, end) # None
  PROVE  LET c == resolveContinuation(pkg, start, end) IN
         /\ c \in Time /\ start < c /\ c <= end /\ c <= hwm
         /\ \A i \in Invoice : Between(i, start, c) => i \in pkg.invoices
<1> DEFINE raw == IF pkg.isTruncated THEN pkg.lastPermanentStorageDate
                                     ELSE pkg.permanentStorageHwmDate
           c == resolveContinuation(pkg, start, end)
<1>1. raw # None /\ c = minDate(ParseDate(raw), end) /\ ~(c <= start)
  BY DEF resolveContinuation
<1>2. raw \in Time /\ raw <= hwm /\ hwm \in Time
  <2>1. CASE ~pkg.isTruncated
    BY <1>1, <2>1, PackageShape, TimeAssumption DEF TypeOK, Time
  <2>2. CASE pkg.isTruncated
    <3>1. PICK k \in pkg.invoices : raw = date[k]
      BY <1>1, <2>2, PackageShape DEF LatestDates, Maybe
    <3>2. k \in Exportable(start, end)
      BY PackageShape
    <3>3. QED
      BY <3>1, <3>2, ExportableDates DEF TypeOK
  <2>3. QED
    BY <2>1, <2>2, PackageShape
<1>3. c \in Time /\ start < c /\ c <= end /\ c <= raw
  BY <1>1, <1>2, ParseDateInTime, TimeAssumption DEF minDate, Time
<1>4. c <= hwm
  BY <1>2, <1>3, TimeAssumption DEF Time
<1>5. ASSUME NEW i \in Invoice, Between(i, start, c)
      PROVE  i \in pkg.invoices
  <2>1. date[i] \in Time /\ Committed(i) /\ start <= date[i] /\ date[i] < c
    BY <1>5 DEF Between, Committed, TypeOK, Maybe
  <2>2. i \in Exportable(start, end)
    BY <2>1, <1>2, <1>3, <1>4, TimeAssumption DEF Exportable, minDate, Time
  <2>3. CASE ~pkg.isTruncated
    BY <2>2, <2>3, PackageShape
  <2>4. CASE pkg.isTruncated
    <3>1. PICK k \in pkg.invoices : raw = date[k]
      BY <1>1, <2>4, PackageShape DEF LatestDates, Maybe
    <3>2. i \notin pkg.invoices => date[k] <= date[i]
      BY <2>2, <2>4, PackageShape DEF OldestOf
    <3>3. QED
      BY <3>1, <3>2, <2>1, <1>2, <1>3, TimeAssumption DEF Time
  <2>5. QED
    BY <2>3, <2>4, PackageShape
<1>6. QED
  BY <1>3, <1>4, <1>5

-----------------------------------------------------------------------------
(* Types *)

LEMMA JobOfRun ==
  ASSUME TypeOK, NEW p \in Proc, run[p].pc # "idle"
  PROVE  run[p].job \in Job /\ run[p].job \in JobType
BY JobAssumption DEF TypeOK, RunType, Maybe

LEMMA IdleRunIsARun == IdleRun \in RunType
BY TimeAssumption DEF IdleRun, RunType, Maybe, PC, Time, Row, NoRow

LEMMA TypeInit == Init => TypeOK
BY IdleRunIsARun, TimeAssumption
DEF Init, TypeOK, Maybe, Time, Row, NoRow, IdleRun

LEMMA TypeOfUpdate ==
  ASSUME TypeOK, NEW p \in Proc, NEW r \in RunType, r.pc # "idle" => r.job # None,
         run' = [run EXCEPT ![p] = r]
  PROVE  /\ run' \in [Proc -> RunType]
         /\ \A q \in Proc : run'[q].pc # "idle" => run'[q].job # None
BY DEF TypeOK

LEMMA TypeStep == TypeOK /\ [Next]_vars => TypeOK'
<1> SUFFICES ASSUME TypeOK, [Next]_vars PROVE TypeOK'
  OBVIOUS
<1> USE TimeAssumption
<1>1. CASE Tick
  BY <1>1 DEF Tick, TypeOK, storeVars, Time
<1>2. CASE RaiseHwm
  BY <1>2 DEF RaiseHwm, TypeOK, storeVars, Time
<1>3. ASSUME NEW i \in Invoice, Commit(i) PROVE TypeOK'
  BY <1>3 DEF Commit, TypeOK, storeVars, Time, Maybe
<1>4. ASSUME NEW p \in Proc, NEW j \in Job, Begin(p, j) PROVE TypeOK'
  <2> DEFINE pc == IF j.forced # None THEN "direct" ELSE "start"
             r == [IdleRun EXCEPT !.pc = pc, !.job = j]
  <2>1. j \in Maybe(Job) /\ j # None /\ pc \in PC
    BY JobAssumption, NoneAssumption DEF Maybe, PC
  <2>2. r \in RunType /\ r.job # None
    <3> HIDE DEF pc
    <3> QED BY <2>1, IdleRunIsARun DEF RunType, IdleRun
  <2>3. run' = [run EXCEPT ![p] = r] /\ UNCHANGED <<ksefVars, storeVars>>
    BY <1>4 DEF Begin
  <2>4. QED
    BY <2>2, <2>3, TypeOfUpdate DEF TypeOK, ksefVars, storeVars
<1>5. ASSUME NEW p \in Proc, Step(p) PROVE TypeOK'
  <2> DEFINE j == run[p].job
             Goes(r) == r \in RunType /\ r.job # None
  <2>0. run[p] \in RunType /\ (~At(p, "idle") => j \in JobType /\ j # None)
    BY JobOfRun DEF TypeOK, At
  <2>1. CASE Stop(p) /\ UNCHANGED <<ksefVars, storeVars>>
    BY <2>1, IdleRunIsARun, TypeOfUpdate DEF Stop, IdleRun, TypeOK, ksefVars, storeVars
  <2>2. CASE DirectDownload(p)
    <3>1. Goes([run[p] EXCEPT !.pc = "directRow"])
      BY <2>0, <2>2 DEF DirectDownload, At, RunType, PC
    <3>2. file' \in [Invoice -> BOOLEAN] /\ out' \in [Invoice -> BOOLEAN]
      BY <2>2 DEF DirectDownload, StoreXml, TypeOK
    <3>3. QED
      BY <3>1, <3>2, <2>2, TypeOfUpdate DEF DirectDownload, TypeOK, ksefVars
  <2>3. CASE DirectRecord(p)
    <3>1. Goes([run[p] EXCEPT !.pc = "start"])
      BY <2>0, <2>3 DEF DirectRecord, At, RunType, PC
    <3>2. row' \in [Invoice -> Row]
      <4>1. Downloaded \in Row
        BY DEF Downloaded, Row
      <4>2. QED
        BY <4>1, <2>3 DEF DirectRecord, StoreRow, TypeOK
    <3>3. QED
      BY <3>1, <3>2, <2>3, TypeOfUpdate DEF DirectRecord, TypeOK, ksefVars
  <2>4. CASE StartSubject(p)
    <3> DEFINE w == j.window
               pc == IF w = None THEN "read" ELSE "window"
               start == IF w = None THEN run[p].start ELSE w[1]
               upper == IF w = None THEN run[p].upper ELSE w[2]
    <3>1. pc \in PC /\ start \in Time /\ upper \in Time /\ ParseDate(now) \in Time /\ j # None
      BY <2>0, <2>4, ParseDateInTime
      DEF StartSubject, At, TypeOK, RunType, PC, JobType, Maybe
    <3>2. Goes([run[p] EXCEPT !.asOf = ParseDate(now), !.pc = pc,
                              !.start = start, !.upper = upper])
      <4> HIDE DEF pc, start, upper
      <4> QED BY <2>0, <3>1 DEF RunType
    <3>3. /\ run' = [run EXCEPT ![p] =
                       [run[p] EXCEPT !.asOf = ParseDate(now), !.pc = pc,
                                      !.start = start, !.upper = upper]]
          /\ UNCHANGED <<ksefVars, storeVars>>
      BY <2>4 DEF StartSubject
    <3>4. QED
      <4> HIDE DEF pc, start, upper
      <4> QED BY <3>2, <3>3, TypeOfUpdate DEF TypeOK, ksefVars, storeVars
  <2>5. CASE ReadCursor(p)
    <3> DEFINE asOf  == run[p].asOf
               c     == IF j.all THEN None ELSE cursor
               floor == ConfiguredStart(j, c, asOf)
               keep  == c # None /\ c >= floor
               first == minDate(IF keep THEN c ELSE floor, asOf)
               origin == IF keep THEN base ELSE IF c # None THEN floor ELSE first
               pc == IF c # None /\ ~keep /\ ~j.export THEN "floor"
                     ELSE IF j.all /\ ~j.export THEN "reset"
                     ELSE "window"
    <3>1. asOf \in Time /\ c \in Maybe(Time) /\ j # None /\ base \in Time
      BY <2>0, <2>5 DEF ReadCursor, At, TypeOK, RunType, Maybe
    <3>2. floor \in Time
      BY <3>1, <2>0, <2>5, ConfiguredStartInTime DEF ReadCursor, At
    <3>3. first \in Time /\ origin \in Time /\ pc \in PC
      <4> HIDE DEF c, floor, asOf
      <4> QED BY <3>1, <3>2 DEF minDate, Maybe, PC
    <3>4. Goes([run[p] EXCEPT !.start = first, !.upper = asOf, !.origin = origin, !.pc = pc])
      <4> HIDE DEF first, origin, pc, asOf
      <4> QED BY <2>0, <3>1, <3>3 DEF RunType
    <3>5. QED
      BY <3>4, <2>5, TypeOfUpdate DEF ReadCursor, TypeOK, ksefVars, storeVars
  <2>6. CASE FloorCursor(p) \/ ResetCursor(p)
    <3>1. Goes([run[p] EXCEPT !.pc = "window"])
      BY <2>0, <2>6 DEF FloorCursor, ResetCursor, At, RunType, PC
    <3>2. cursor' \in Maybe(Time) /\ base' \in Time
      BY <2>0, <2>6 DEF FloorCursor, ResetCursor, setContinuationPoint, RunType, Maybe
    <3>3. QED
      BY <3>1, <3>2, <2>6, TypeOfUpdate DEF FloorCursor, ResetCursor, TypeOK, ksefVars
  <2>7. CASE Export(p)
    <3> DEFINE start == run[p].start
               end == WindowEnd(start, run[p].upper)
    <3>1. start \in Time /\ end \in Time /\ j # None
      BY <2>0, <2>7, WindowEndInTime DEF Export, At, RunType
    <3>2. PICK pkg \in Packages(start, end) : ReceivePackage(p, pkg)
      BY <2>7 DEF Export
    <3> DEFINE cont == resolveContinuation(pkg, start, end)
    <3>3. cont \in Maybe(Time)
      BY <3>1, ContinuationIsSound DEF Maybe
    <3>4. pkg.invoices \in SUBSET Invoice
      BY <3>1, PackageShape DEF Exportable
    <3>5. Goes([run[p] EXCEPT !.pc = "entries", !.todo = pkg.invoices, !.cont = cont,
                              !.failed = FALSE])
      <4> HIDE DEF cont
      <4> QED BY <2>0, <3>1, <3>3, <3>4 DEF RunType, PC
    <3>6. QED
      BY <3>5, <3>2, <2>7, TypeOfUpdate
      DEF Export, ReceivePackage, TypeOK, ksefVars, storeVars
  <2>8. ASSUME NEW i \in Invoice, SkipEntry(p, i) PROVE TypeOK'
    <3>1. Goes([run[p] EXCEPT !.todo = @ \ {i}])
      BY <2>0, <2>8 DEF SkipEntry, At, RunType
    <3>2. QED
      BY <3>1, <2>8, TypeOfUpdate DEF SkipEntry, TypeOK, ksefVars, storeVars
  <2>9. ASSUME NEW i \in Invoice, TakeEntry(p, i) PROVE TypeOK'
    <3> DEFINE seen == IF Canonical(j) THEN row[i] ELSE NoRow
    <3>1. seen \in Row /\ j # None /\ i \in Maybe(Invoice)
      BY <2>0, <2>9 DEF TakeEntry, At, TypeOK, NoRow, Row, Maybe
    <3>2. Goes([run[p] EXCEPT !.pc = "xml", !.todo = @ \ {i}, !.cur = i, !.seen = seen])
      <4> HIDE DEF seen
      <4> QED BY <2>0, <3>1 DEF RunType, PC
    <3>3. /\ run' = [run EXCEPT ![p] =
                       [run[p] EXCEPT !.pc = "xml", !.todo = @ \ {i}, !.cur = i,
                                      !.seen = seen]]
          /\ UNCHANGED <<ksefVars, storeVars>>
      BY <2>9 DEF TakeEntry
    <3>4. QED
      <4> HIDE DEF seen
      <4> QED BY <3>2, <3>3, TypeOfUpdate DEF TypeOK, ksefVars, storeVars
  <2>10. CASE WriteXml(p)
    <3>1. Goes([run[p] EXCEPT !.pc = "row"])
      BY <2>0, <2>10 DEF WriteXml, At, RunType, PC
    <3>2. file' \in [Invoice -> BOOLEAN] /\ out' \in [Invoice -> BOOLEAN]
      BY <2>10 DEF WriteXml, StoreXml, TypeOK
    <3>3. QED
      BY <3>1, <3>2, <2>10, TypeOfUpdate DEF WriteXml, TypeOK, ksefVars
  <2>11. CASE RecordDownloaded(p)
    <3>1. Goes([run[p] EXCEPT !.pc = "entries", !.cur = None, !.seen = NoRow])
      BY <2>0, <2>11 DEF RecordDownloaded, At, RunType, PC, Maybe, NoRow, Row
    <3>2. row' \in [Invoice -> Row]
      <4>1. Downloaded \in Row
        BY DEF Downloaded, Row
      <4>2. QED
        BY <4>1, <2>11 DEF RecordDownloaded, StoreRow, TypeOK
    <3>3. QED
      BY <3>1, <3>2, <2>11, TypeOfUpdate DEF RecordDownloaded, TypeOK, ksefVars
  <2>12. CASE RecordFailed(p)
    <3>1. Goes([run[p] EXCEPT !.pc = "entries", !.cur = None, !.seen = NoRow, !.failed = TRUE])
      BY <2>0, <2>12 DEF RecordFailed, At, RunType, PC, Maybe, NoRow, Row
    <3>2. row' \in [Invoice -> Row]
      BY <2>0, <2>12 DEF RecordFailed, StoreRow, RunType, Row, TypeOK
    <3>3. QED
      BY <3>1, <3>2, <2>12, TypeOfUpdate DEF RecordFailed, TypeOK, ksefVars
  <2>13. CASE AdvanceCursor(p)
    <3>1. run[p].cont \in Time /\ j # None
      BY <2>0, <2>13 DEF AdvanceCursor, PackageDone, Advances, At, RunType, Maybe
    <3>2. Goes([run[p] EXCEPT !.pc = "window", !.start = run[p].cont, !.cont = None])
      BY <2>0, <3>1 DEF RunType, PC, Maybe
    <3>3. cursor' \in Maybe(Time) /\ base' \in Time
      BY <2>0, <3>1, <2>13
      DEF AdvanceCursor, setContinuationPoint, RunType, Maybe, TypeOK
    <3>4. QED
      BY <3>2, <3>3, <2>13, TypeOfUpdate DEF AdvanceCursor, TypeOK, ksefVars
  <2>14. QED
    BY <1>5, <2>1, <2>2, <2>3, <2>4, <2>5, <2>6, <2>7, <2>8, <2>9, <2>10, <2>11, <2>12, <2>13
    DEF Step, Abort, EndOfWindows, ExportYieldsNothing, HoldCursor
<1>6. CASE UNCHANGED vars
  BY <1>6 DEF vars, TypeOK
<1>7. QED
  BY <1>1, <1>2, <1>3, <1>4, <1>5, <1>6 DEF Next, Ksef

(* Every reachable state has its types, for every instance.                *)
THEOREM Typing == Spec => []TypeOK
<1>1. QED
  BY TypeInit, TypeStep, PTL DEF Spec

-----------------------------------------------------------------------------
(* The inductive invariant: what the store promises, together with what    *)
(* every run knows while it works.                                         *)

Inv == TypeOK /\ NothingSkipped /\ CursorIsFinal /\ RecordedIsOnDisk /\ RunsCover

LEMMA InvInit == Init => Inv
<1> SUFFICES ASSUME Init PROVE Inv
  OBVIOUS
<1>1. TypeOK
  BY TypeInit
<1>2. NothingSkipped /\ CursorIsFinal /\ RecordedIsOnDisk
  BY DEF Init, NothingSkipped, CursorIsFinal, RecordedIsOnDisk, NoRow
<1>3. RunsCover
  BY DEF Init, RunsCover, RunCovers, StartIsCovered, PackageIsComplete, WritesInOrder,
         PathOf, Looping, Unpacking, At, IdleRun
<1>4. QED
  BY <1>1, <1>2, <1>3 DEF Inv

(* A step that commits nothing, removes no file and does not lower the     *)
(* high-water mark.                                                        *)
Grows ==
  /\ date' = date /\ hwm' >= hwm
  /\ \A i \in Invoice : file[i] => file'[i]

LEMMA RunTypes ==
  ASSUME TypeOK, NEW p \in Proc
  PROVE  /\ run[p] \in RunType
         /\ run[p].start \in Time /\ run[p].origin \in Time /\ run[p].upper \in Time
         /\ run[p].asOf \in Time /\ run[p].cont \in Maybe(Time)
         /\ run[p].todo \subseteq Invoice /\ run[p].cur \in Maybe(Invoice)
         /\ run[p].failed \in BOOLEAN
BY DEF TypeOK, RunType

LEMMA NoneIsNoTime == None \notin Time /\ None \notin Invoice
BY NoneAssumption, TimeAssumption DEF Time

LEMMA OtherRunCovers ==
  ASSUME TypeOK, TypeOK', Grows, NEW q \in Proc, run'[q] = run[q], RunCovers(q)
  PROVE  RunCovers(q)'
<1> USE TimeAssumption
<1>1. hwm \in Time /\ hwm' \in Time /\ run[q].start \in Time /\ run[q].origin \in Time
      /\ run[q].cont \in Maybe(Time)
  BY RunTypes DEF TypeOK
<1>3. StartIsCovered(q)'
  BY <1>1 DEF RunCovers, StartIsCovered, Looping, MovesCursor, Grows, Between, Committed,
              maxDate, Time
<1>4. PackageIsComplete(q)'
  BY <1>1 DEF RunCovers, PackageIsComplete, Unpacking, Canonical, Grows, Between, Committed,
              Maybe, Time
<1>5. WritesInOrder(q)'
  <2>1. run[q].cur \in Maybe(Invoice) /\ (run[q].pc # "idle" => run[q].job.forced \in Maybe(Invoice))
    BY RunTypes, JobOfRun DEF JobType
  <2>2. QED
    BY <2>1 DEF RunCovers, WritesInOrder, PathOf, At, Canonical, Grows, Maybe
<1>6. PathOf(q)'
  BY DEF RunCovers, PathOf, At, MovesCursor
<1>7. QED
  BY <1>3, <1>4, <1>5, <1>6 DEF RunCovers

LEMMA CursorKeeps ==
  ASSUME TypeOK, TypeOK', Grows, UNCHANGED <<cursor, base>>, NothingSkipped, CursorIsFinal
  PROVE  NothingSkipped' /\ CursorIsFinal'
<1>1. hwm \in Time /\ hwm' \in Time /\ base \in Time /\ cursor \in Maybe(Time)
  BY DEF TypeOK
<1>2. NothingSkipped'
  BY DEF NothingSkipped, Between, Committed, Grows
<1>3. CursorIsFinal'
  BY <1>1, TimeAssumption DEF CursorIsFinal, maxDate, Grows, Maybe, Time
<1>4. QED
  BY <1>2, <1>3

LEMMA RowsKeep ==
  ASSUME TypeOK, Grows, UNCHANGED row, RecordedIsOnDisk
  PROVE  RecordedIsOnDisk'
BY DEF RecordedIsOnDisk, Grows

(* An invoice committed now is not before any date that is final already.  *)
LEMMA CommitIsLate ==
  ASSUME TypeOK, NEW k \in Invoice, Commit(k), NEW from \in Time, NEW to \in Time,
         to <= maxDate(hwm, from), NEW i \in Invoice, date'[i] # None,
         from <= date'[i], date'[i] < to
  PROVE  Between(i, from, to)
<1>1. PICK d \in hwm + 1 .. now : date' = [date EXCEPT ![k] = d]
  BY DEF Commit
<1>2. CASE i = k
  BY <1>1, <1>2, TimeAssumption DEF TypeOK, maxDate, Time
<1>3. CASE i # k
  BY <1>1, <1>3 DEF TypeOK, Between, Committed
<1>4. QED
  BY <1>2, <1>3

LEMMA CommitKeepsInv == ASSUME Inv, TypeOK', NEW k \in Invoice, Commit(k) PROVE Inv'
<1> USE TimeAssumption
<1>0. TypeOK /\ UNCHANGED <<hwm, cursor, base, row, file, run>> /\ hwm \in Time
  BY DEF Inv, Commit, storeVars, TypeOK
<1>1. NothingSkipped'
  <2> SUFFICES ASSUME cursor # None, NEW i \in Invoice, Between(i, base, cursor)'
               PROVE  file[i]
    BY <1>0 DEF NothingSkipped
  <2>1. date'[i] # None /\ base <= date'[i] /\ date'[i] < cursor
    BY <1>0 DEF Between, Committed
  <2>2. base \in Time /\ cursor \in Time /\ cursor <= maxDate(hwm, base)
    BY <1>0 DEF Inv, CursorIsFinal, TypeOK, Maybe
  <2>3. Between(i, base, cursor)
    BY <1>0, <2>1, <2>2, CommitIsLate
  <2>4. QED
    BY <2>3 DEF Inv, NothingSkipped
<1>2. CursorIsFinal' /\ RecordedIsOnDisk'
  BY <1>0 DEF Inv, CursorIsFinal, RecordedIsOnDisk
<1>3. ASSUME NEW q \in Proc PROVE RunCovers(q)'
  <2>0. RunCovers(q) /\ run[q].start \in Time /\ run[q].origin \in Time
        /\ run[q].cont \in Maybe(Time)
    BY <1>0, RunTypes DEF Inv, RunsCover
  <2>1. StartIsCovered(q)'
    <3> SUFFICES ASSUME Looping(q), MovesCursor(run[q].job)
                 PROVE  /\ \A i \in Invoice : Between(i, run[q].origin, run[q].start)' => file[i]
                        /\ run[q].start <= maxDate(hwm, run[q].origin)
      BY <1>0 DEF StartIsCovered, Looping, Between, Committed
    <3>1. /\ \A i \in Invoice : Between(i, run[q].origin, run[q].start) => file[i]
          /\ run[q].start <= maxDate(hwm, run[q].origin)
      BY <2>0 DEF RunCovers, StartIsCovered
    <3>2. ASSUME NEW i \in Invoice, Between(i, run[q].origin, run[q].start)'
          PROVE  Between(i, run[q].origin, run[q].start)
      <4>1. date'[i] # None /\ run[q].origin <= date'[i] /\ date'[i] < run[q].start
        BY <1>0, <3>2 DEF Between, Committed
      <4>2. QED
        BY <1>0, <2>0, <3>1, <4>1, CommitIsLate
    <3>3. QED
      BY <3>1, <3>2
  <2>2. PackageIsComplete(q)'
    <3> SUFFICES ASSUME Unpacking(q), Canonical(run[q].job), run[q].cont # None
                 PROVE  /\ run[q].cont <= hwm
                        /\ \A i \in Invoice : Between(i, run[q].start, run[q].cont)' =>
                             file[i] \/ run[q].failed \/ i \in run[q].todo \/ i = run[q].cur
      BY <1>0 DEF PackageIsComplete, Unpacking, Between, Committed
    <3>1. /\ run[q].cont <= hwm
          /\ \A i \in Invoice : Between(i, run[q].start, run[q].cont) =>
               file[i] \/ run[q].failed \/ i \in run[q].todo \/ i = run[q].cur
      BY <2>0 DEF RunCovers, PackageIsComplete
    <3>2. run[q].cont \in Time /\ run[q].cont <= maxDate(hwm, run[q].start)
      BY <1>0, <2>0, <3>1 DEF maxDate, Maybe, Time
    <3>3. ASSUME NEW i \in Invoice, Between(i, run[q].start, run[q].cont)'
          PROVE  Between(i, run[q].start, run[q].cont)
      <4>1. date'[i] # None /\ run[q].start <= date'[i] /\ date'[i] < run[q].cont
        BY <1>0, <3>3 DEF Between, Committed
      <4>2. QED
        BY <1>0, <2>0, <3>2, <4>1, CommitIsLate
    <3>4. QED
      BY <3>1, <3>3
  <2>3. WritesInOrder(q)' /\ PathOf(q)'
    BY <1>0, <2>0 DEF RunCovers, WritesInOrder, PathOf, At
  <2>4. QED
    BY <2>1, <2>2, <2>3 DEF RunCovers
<1>4. QED
  BY <1>1, <1>2, <1>3 DEF Inv, RunsCover

(* A step of run p that leaves the cursor and the rows alone.              *)
LEMMA QuietStep ==
  ASSUME Inv, TypeOK', Grows, UNCHANGED <<cursor, base, row>>, NEW p \in Proc,
         \A q \in Proc : q # p => run'[q] = run[q], RunCovers(p)'
  PROVE  Inv'
<1>1. NothingSkipped' /\ CursorIsFinal'
  BY CursorKeeps DEF Inv
<1>2. RecordedIsOnDisk'
  BY RowsKeep DEF Inv
<1>3. ASSUME NEW q \in Proc PROVE RunCovers(q)'
  BY OtherRunCovers DEF Inv, RunsCover
<1>4. QED
  BY <1>1, <1>2, <1>3 DEF Inv, RunsCover

(* A step of run p that moves the cursor to c, with coverage from b.       *)
LEMMA CursorStep ==
  ASSUME Inv, TypeOK', Grows, UNCHANGED <<row>>, NEW p \in Proc,
         \A q \in Proc : q # p => run'[q] = run[q], RunCovers(p)',
         NEW c \in Time, NEW b \in Time, cursor' = c, base' = b,
         c <= maxDate(hwm, b), \A i \in Invoice : Between(i, b, c) => file[i]
  PROVE  Inv'
<1>1. hwm \in Time /\ hwm' \in Time
  BY DEF Inv, TypeOK
<1>2. NothingSkipped'
  BY DEF NothingSkipped, Between, Committed, Grows
<1>3. CursorIsFinal'
  BY <1>1, TimeAssumption DEF CursorIsFinal, maxDate, Grows, Time
<1>4. RecordedIsOnDisk'
  BY RowsKeep DEF Inv
<1>5. ASSUME NEW q \in Proc PROVE RunCovers(q)'
  BY OtherRunCovers DEF Inv, RunsCover
<1>6. QED
  BY <1>2, <1>3, <1>4, <1>5 DEF Inv, RunsCover

LEMMA IdleCovers ==
  ASSUME NEW p \in Proc, run'[p] = IdleRun
  PROVE  RunCovers(p)'
BY DEF RunCovers, StartIsCovered, PackageIsComplete, WritesInOrder, PathOf, Looping,
       Unpacking, At, IdleRun

LEMMA StopKeepsInv ==
  ASSUME Inv, TypeOK', NEW p \in Proc, Stop(p), UNCHANGED <<ksefVars, storeVars>>
  PROVE  Inv'
<1>1. Grows /\ UNCHANGED <<cursor, base, row>>
  BY TimeAssumption DEF Inv, TypeOK, Grows, ksefVars, storeVars, Time
<1>2. run'[p] = IdleRun /\ \A q \in Proc : q # p => run'[q] = run[q]
  BY DEF Stop, Inv, TypeOK
<1>3. QED
  BY <1>1, <1>2, IdleCovers, QuietStep

(* Steps outside the window loop.                                          *)
LEMMA OpeningKeepsInv ==
  ASSUME Inv, TypeOK', NEW p \in Proc,
         \/ \E j \in Job : Begin(p, j)
         \/ DirectDownload(p) \/ DirectRecord(p) \/ StartSubject(p)
  PROVE  Inv'
<1> DEFINE j == run[p].job
<1>0. /\ TypeOK /\ RunCovers(p) /\ run \in [Proc -> RunType]
      /\ \A q \in Proc : q # p => run'[q] = run[q]
  BY DEF Inv, RunsCover, TypeOK, Begin, DirectDownload, DirectRecord, StartSubject
<1>1. CASE \E k \in Job : Begin(p, k)
  <2>1. PICK k \in Job : Begin(p, k)
    BY <1>1
  <2>2. /\ run'[p].pc = (IF k.forced # None THEN "direct" ELSE "start")
        /\ run'[p].job = k /\ run'[p].cur = None
    BY <1>0, <2>1 DEF Begin, IdleRun
  <2>3. RunCovers(p)'
    BY <2>2 DEF RunCovers, StartIsCovered, PackageIsComplete, WritesInOrder, PathOf, Looping,
                Unpacking, At
  <2>4. Grows /\ UNCHANGED <<cursor, base, row>>
    <3>1. UNCHANGED <<ksefVars, storeVars>> /\ hwm \in Time
      BY <1>0, <2>1 DEF Begin, TypeOK
    <3>2. QED
      BY <3>1, TimeAssumption DEF Grows, ksefVars, storeVars, Time
  <2>5. QED
    BY <1>0, <2>3, <2>4, QuietStep
<1>2. CASE DirectDownload(p)
  <2>1. /\ run'[p].pc = "directRow" /\ run'[p].job = j /\ run'[p].cur = run[p].cur
        /\ run[p].pc = "direct"
    BY <1>0, <1>2 DEF DirectDownload, At
  <2>2. Grows /\ UNCHANGED <<cursor, base, row>>
    BY <1>0, <1>2, TimeAssumption DEF DirectDownload, Grows, ksefVars, StoreXml, TypeOK, Time
  <2>3. j.forced \in Invoice
    BY <1>0, <2>1, JobOfRun DEF RunCovers, PathOf, At, JobType, Maybe
  <2>4. Canonical(j) => file'[j.forced]
    BY <1>0, <2>3, <1>2 DEF DirectDownload, StoreXml, TypeOK
  <2>5. RunCovers(p)'
    BY <1>0, <2>1, <2>4
    DEF RunCovers, StartIsCovered, PackageIsComplete, WritesInOrder, PathOf, Looping, Unpacking,
        At, Canonical
  <2>6. QED
    BY <1>0, <2>2, <2>5, QuietStep
<1>3. CASE DirectRecord(p)
  <2>1. /\ run'[p].pc = "start" /\ run'[p].job = j /\ run'[p].cur = run[p].cur
        /\ run[p].pc = "directRow"
    BY <1>0, <1>3 DEF DirectRecord, At
  <2>2. Grows /\ UNCHANGED <<cursor, base, file>>
    BY <1>0, <1>3, TimeAssumption DEF DirectRecord, Grows, ksefVars, TypeOK, Time
  <2>3. Canonical(j) => file[j.forced]
    BY <1>0, <2>1 DEF RunCovers, WritesInOrder, PathOf, At
  <2>4. RunCovers(p)'
    BY <1>0, <2>1, <2>2, <2>3
    DEF RunCovers, StartIsCovered, PackageIsComplete, WritesInOrder, PathOf, Looping, Unpacking,
        At, Canonical
  <2>5. RecordedIsOnDisk'
    BY <1>0, <1>3, <2>2, <2>3
    DEF Inv, RecordedIsOnDisk, DirectRecord, StoreRow, Downloaded, TypeOK
  <2>6. NothingSkipped' /\ CursorIsFinal'
    BY <1>0, <2>2, CursorKeeps DEF Inv
  <2>7. ASSUME NEW q \in Proc PROVE RunCovers(q)'
    BY <1>0, <2>2, <2>4, OtherRunCovers DEF Inv, RunsCover
  <2>8. QED
    BY <2>5, <2>6, <2>7 DEF Inv, RunsCover
<1>4. CASE StartSubject(p)
  <2>1. /\ run'[p].pc = (IF j.window = None THEN "read" ELSE "window")
        /\ run'[p].job = j /\ run'[p].cur = run[p].cur /\ run[p].pc = "start"
    BY <1>0, <1>4 DEF StartSubject, At
  <2>2. Grows /\ UNCHANGED <<cursor, base, row>>
    BY <1>0, <1>4, TimeAssumption DEF StartSubject, Grows, ksefVars, storeVars, TypeOK, Time
  <2>3. UNCHANGED file
    BY <1>4 DEF StartSubject, storeVars
  <2>4. RunCovers(p)'
    BY <1>0, <2>1, <2>3
    DEF RunCovers, StartIsCovered, PackageIsComplete, WritesInOrder, PathOf, Looping, Unpacking,
        At, Canonical, MovesCursor
  <2>5. QED
    BY <1>0, <2>2, <2>4, QuietStep
<1>5. QED
  BY <1>1, <1>2, <1>3, <1>4

(* Where the window starts: the cursor, its floor or the reset.            *)
LEMMA ReadCursorKeepsInv ==
  ASSUME Inv, TypeOK', NEW p \in Proc, ReadCursor(p)
  PROVE  Inv'
<1> DEFINE j     == run[p].job
           asOf  == run[p].asOf
           c     == IF j.all THEN None ELSE cursor
           floor == ConfiguredStart(j, c, asOf)
           keep  == c # None /\ c >= floor
           first == minDate(IF keep THEN c ELSE floor, asOf)
           origin == IF keep THEN base ELSE IF c # None THEN floor ELSE first
           pc == IF c # None /\ ~keep /\ ~j.export THEN "floor"
                 ELSE IF j.all /\ ~j.export THEN "reset" ELSE "window"
<1>0. /\ TypeOK /\ RunCovers(p) /\ run \in [Proc -> RunType] /\ run[p].pc = "read"
      /\ \A q \in Proc : q # p => run'[q] = run[q]
      /\ UNCHANGED <<cursor, base, row, file, hwm, date>>
  BY DEF Inv, RunsCover, TypeOK, ReadCursor, At, ksefVars, storeVars
<1>1. /\ run'[p].pc = pc /\ run'[p].job = j /\ run'[p].cur = run[p].cur
      /\ run'[p].start = first /\ run'[p].origin = origin
  BY <1>0 DEF ReadCursor
<1>2. /\ asOf \in Time /\ c \in Maybe(Time) /\ base \in Time /\ hwm \in Time
      /\ j.window = None /\ run[p].cur = None
  BY <1>0, RunTypes DEF TypeOK, Maybe, RunCovers, PathOf, At
<1>3. floor \in Time
  BY <1>0, <1>2, JobOfRun, ConfiguredStartInTime
<1>4. CASE keep
  <2>1. c = cursor /\ cursor \in Time /\ first <= cursor /\ origin = base /\ first \in Time
    BY <1>2, <1>4, TimeAssumption DEF minDate, Maybe, Time
  <2>2. /\ \A i \in Invoice : Between(i, base, cursor) => file[i]
        /\ cursor <= maxDate(hwm, base)
    BY <2>1, NoneIsNoTime DEF Inv, NothingSkipped, CursorIsFinal
  <2>3. first <= maxDate(hwm, base)
    BY <2>1, <2>2, <1>2, TimeAssumption DEF maxDate, Time
  <2>4. \A i \in Invoice : Between(i, base, first) => file[i]
    <3>1. \A i \in Invoice : Committed(i) => date[i] \in Time
      BY <1>0 DEF TypeOK, Committed, Maybe
    <3>2. QED
      BY <2>1, <2>2, <3>1, TimeAssumption DEF Between, Time
  <2>5. StartIsCovered(p)'
    <3> HIDE DEF first, origin, pc
    <3> QED BY <1>0, <1>1, <2>1, <2>3, <2>4 DEF StartIsCovered, Between, Committed
  <2>6. pc # "floor"
    BY <1>4
  <2>7. QED
    <3>1. RunCovers(p)'
      BY <1>0, <1>1, <1>2, <2>5
      DEF RunCovers, PackageIsComplete, WritesInOrder, PathOf, Unpacking, At, MovesCursor,
          Canonical
    <3>2. Grows
      BY <1>0, <1>2, TimeAssumption DEF Grows, Time
    <3>3. QED
      BY <1>0, <3>1, <3>2, QuietStep
<1>5. CASE ~keep
  <2>1. first \in Time /\ origin \in Time /\ first <= origin
    BY <1>2, <1>3, <1>5, TimeAssumption DEF minDate, Time
  <2>2. first <= maxDate(hwm, origin) /\ \A i \in Invoice : ~Between(i, origin, first)
    <3> HIDE DEF first, origin
    <3>1. \A i \in Invoice : Committed(i) => date[i] \in Time
      BY <1>0 DEF TypeOK, Committed, Maybe
    <3>2. QED
      BY <1>2, <2>1, <3>1, TimeAssumption DEF Between, maxDate, Time
  <2>3. StartIsCovered(p)'
    <3> HIDE DEF first, origin, pc
    <3> QED BY <1>0, <1>1, <2>1, <2>2 DEF StartIsCovered, Between, Committed
  <2>4. QED
    <3>1. RunCovers(p)'
      BY <1>0, <1>1, <1>2, <2>3
      DEF RunCovers, PackageIsComplete, WritesInOrder, PathOf, Unpacking, At, MovesCursor,
          Canonical
    <3>2. Grows
      BY <1>0, <1>2, TimeAssumption DEF Grows, Time
    <3>3. QED
      BY <1>0, <3>1, <3>2, QuietStep
<1>6. QED
  BY <1>4, <1>5

LEMMA FloorOrResetKeepsInv ==
  ASSUME Inv, TypeOK', NEW p \in Proc, FloorCursor(p) \/ ResetCursor(p)
  PROVE  Inv'
<1> DEFINE start == run[p].start
           origin == run[p].origin
<1>0. /\ TypeOK /\ RunCovers(p) /\ run \in [Proc -> RunType]
      /\ run[p].pc \in {"floor", "reset"}
      /\ \A q \in Proc : q # p => run'[q] = run[q]
      /\ UNCHANGED <<row, file, hwm, date>>
  BY DEF Inv, RunsCover, TypeOK, FloorCursor, ResetCursor, At, ksefVars
<1>1. run' = [run EXCEPT ![p].pc = "window"]
  BY DEF FloorCursor, ResetCursor
<1>2. start \in Time /\ origin \in Time /\ hwm \in Time
  BY <1>0, RunTypes DEF TypeOK
<1>3. /\ \A i \in Invoice : Between(i, origin, start) => file[i]
      /\ start <= maxDate(hwm, origin)
  BY <1>0 DEF RunCovers, StartIsCovered, PathOf, Looping
<1>4. RunCovers(p)'
  <2>1. /\ run'[p].pc = "window" /\ run'[p].job = run[p].job /\ run'[p].cur = run[p].cur
        /\ run'[p].start = start /\ run'[p].origin = origin
    BY <1>0, <1>1
  <2>2. StartIsCovered(p)'
    BY <1>0, <1>3, <2>1 DEF StartIsCovered, Between, Committed
  <2>3. QED
    BY <1>0, <2>1, <2>2
    DEF RunCovers, PackageIsComplete, WritesInOrder, PathOf, Unpacking, At, Canonical
<1>5. Grows
  BY <1>0, <1>2, TimeAssumption DEF Grows, Time
<1>6. CASE FloorCursor(p)
  <2>1. cursor' = origin /\ base' = origin
    BY <1>6 DEF FloorCursor, setContinuationPoint
  <2>2. origin <= maxDate(hwm, origin) /\ \A i \in Invoice : ~Between(i, origin, origin)
    <3>1. \A i \in Invoice : Committed(i) => date[i] \in Time
      BY <1>0 DEF TypeOK, Committed, Maybe
    <3>2. QED
      BY <1>2, <3>1, TimeAssumption DEF Between, maxDate, Time
  <2>3. QED
    <3> HIDE DEF origin, start
    <3> QED BY <1>0, <1>2, <1>4, <1>5, <2>1, <2>2, CursorStep
<1>7. CASE ResetCursor(p)
  <2>1. cursor' = start /\ base' = origin
    BY <1>7 DEF ResetCursor, setContinuationPoint
  <2>2. QED
    <3> HIDE DEF origin, start
    <3> QED BY <1>0, <1>2, <1>3, <1>4, <1>5, <2>1, CursorStep
<1>8. QED
  BY <1>6, <1>7

LEMMA ExportKeepsInv ==
  ASSUME Inv, TypeOK', NEW p \in Proc, Export(p)
  PROVE  Inv'
<1> DEFINE start == run[p].start
           end == WindowEnd(start, run[p].upper)
<1>0. /\ TypeOK /\ RunCovers(p) /\ run \in [Proc -> RunType] /\ run[p].pc = "window"
      /\ \A q \in Proc : q # p => run'[q] = run[q]
      /\ UNCHANGED <<cursor, base, row, file, hwm, date>>
  BY DEF Inv, RunsCover, TypeOK, Export, ReceivePackage, At, ksefVars, storeVars
<1>1. start \in Time /\ end \in Time /\ hwm \in Time
  BY <1>0, RunTypes, WindowEndInTime DEF TypeOK
<1>2. PICK pkg \in Packages(start, end) : ReceivePackage(p, pkg)
  BY DEF Export
<1> DEFINE cont == resolveContinuation(pkg, start, end)
<1> HIDE DEF start, end, cont
<1>3. /\ run'[p].pc = "entries" /\ run'[p].job = run[p].job /\ run'[p].cur = run[p].cur
      /\ run'[p].start = start /\ run'[p].origin = run[p].origin
      /\ run'[p].todo = pkg.invoices /\ run'[p].cont = cont
  BY <1>0, <1>2 DEF ReceivePackage, start, end, cont
<1>4. cont # None => cont <= hwm /\ \A i \in Invoice : Between(i, start, cont) => i \in pkg.invoices
  BY <1>0, <1>1, ContinuationIsSound DEF cont
<1>5. StartIsCovered(p)'
  BY <1>0, <1>3 DEF RunCovers, StartIsCovered, Looping, Between, Committed, start
<1>6. PackageIsComplete(p)'
  BY <1>0, <1>3, <1>4 DEF PackageIsComplete, Between, Committed
<1>7. WritesInOrder(p)' /\ PathOf(p)'
  BY <1>0, <1>3 DEF RunCovers, WritesInOrder, PathOf, At
<1>8. Grows
  BY <1>0, <1>1, TimeAssumption DEF Grows, Time
<1>9. QED
  <2>1. RunCovers(p)'
    BY <1>5, <1>6, <1>7 DEF RunCovers
  <2>2. QED
    BY <1>0, <1>8, <2>1, QuietStep

(* A step inside the package keeps its bookkeeping when no entry gets lost. *)
LEMMA StillUnpacking ==
  ASSUME Inv, TypeOK', Grows, NEW p \in Proc, Unpacking(p),
         run'[p].job = run[p].job, run'[p].start = run[p].start,
         run'[p].origin = run[p].origin, run'[p].cont = run[p].cont,
         run[p].failed => run'[p].failed,
         Canonical(run[p].job) =>
           /\ \A i \in run[p].todo : i \in run'[p].todo \/ i = run'[p].cur \/ file'[i]
           /\ run[p].cur \in Invoice =>
                run'[p].cur = run[p].cur \/ file'[run[p].cur] \/ run'[p].failed
  PROVE  StartIsCovered(p)' /\ PackageIsComplete(p)'
<1>0. TypeOK /\ RunCovers(p)
  BY DEF Inv, RunsCover
<1>1. /\ hwm \in Time /\ hwm' \in Time /\ hwm <= hwm'
      /\ run[p].start \in Time /\ run[p].origin \in Time /\ run[p].cont \in Maybe(Time)
  BY <1>0, RunTypes DEF Grows, TypeOK
<1>2. StartIsCovered(p)'
  BY <1>0, <1>1, TimeAssumption
  DEF RunCovers, StartIsCovered, Looping, Unpacking, Grows, Between, Committed, maxDate, Time
<1>3. PackageIsComplete(p)'
  <2> SUFFICES ASSUME Canonical(run[p].job), run[p].cont # None
               PROVE  /\ run[p].cont <= hwm'
                      /\ \A i \in Invoice : Between(i, run[p].start, run[p].cont) =>
                           file'[i] \/ run'[p].failed \/ i \in run'[p].todo \/ i = run'[p].cur
    BY DEF PackageIsComplete, Between, Committed, Grows
  <2>1. /\ run[p].cont <= hwm
        /\ \A i \in Invoice : Between(i, run[p].start, run[p].cont) =>
             file[i] \/ run[p].failed \/ i \in run[p].todo \/ i = run[p].cur
    BY <1>0 DEF RunCovers, PackageIsComplete
  <2>2. run[p].cont <= hwm'
    BY <1>1, <2>1, TimeAssumption DEF Maybe, Time
  <2>3. QED
    BY <2>1, <2>2 DEF Grows
<1>4. QED
  BY <1>2, <1>3

LEMMA EntryKeepsInv ==
  ASSUME Inv, TypeOK', NEW p \in Proc, NEW i \in Invoice, SkipEntry(p, i) \/ TakeEntry(p, i)
  PROVE  Inv'
<1> DEFINE j == run[p].job
<1>0. /\ TypeOK /\ RunCovers(p) /\ run \in [Proc -> RunType]
      /\ run[p].pc = "entries" /\ run[p].cur = None
      /\ \A q \in Proc : q # p => run'[q] = run[q]
      /\ UNCHANGED <<cursor, base, row, file, hwm, date>>
  BY DEF Inv, RunsCover, RunCovers, PathOf, TypeOK, SkipEntry, TakeEntry, At, ksefVars, storeVars
<1>1. Grows
  BY <1>0, TimeAssumption DEF Grows, TypeOK, Time
<1>2. CASE SkipEntry(p, i)
  <2>1. run' = [run EXCEPT ![p].todo = run[p].todo \ {i}] /\ Skippable(j, i)
    BY <1>2 DEF SkipEntry
  <2>2. /\ run'[p].pc = "entries" /\ run'[p].job = j /\ run'[p].cur = run[p].cur
        /\ run'[p].start = run[p].start /\ run'[p].origin = run[p].origin
        /\ run'[p].todo = run[p].todo \ {i} /\ run'[p].cont = run[p].cont
        /\ run'[p].failed = run[p].failed
    BY <1>0, <2>1
  <2>3. Canonical(j) => file[i]
    BY <1>0, <2>1, NoneIsNoTime DEF Skippable, RunCovers, WritesInOrder
  <2>4. StartIsCovered(p)' /\ PackageIsComplete(p)'
    BY <1>0, <1>1, <2>2, <2>3, StillUnpacking DEF Unpacking
  <2>5. RunCovers(p)'
    BY <1>0, <2>2, <2>4 DEF RunCovers, WritesInOrder, PathOf, At, MovesCursor, Canonical
  <2>6. QED
    BY <1>0, <1>1, <2>5, QuietStep
<1>3. CASE TakeEntry(p, i)
  <2>1. /\ run'[p].pc = "xml" /\ run'[p].job = j /\ run'[p].cur = i
        /\ run'[p].start = run[p].start /\ run'[p].origin = run[p].origin
        /\ run'[p].todo = run[p].todo \ {i} /\ run'[p].cont = run[p].cont
        /\ run'[p].failed = run[p].failed
    BY <1>0, <1>3 DEF TakeEntry
  <2>2. StartIsCovered(p)' /\ PackageIsComplete(p)'
    BY <1>0, <1>1, <2>1, NoneIsNoTime, StillUnpacking DEF Unpacking
  <2>3. RunCovers(p)'
    BY <1>0, <2>1, <2>2, NoneIsNoTime DEF RunCovers, WritesInOrder, PathOf, At, MovesCursor, Canonical
  <2>4. QED
    BY <1>0, <1>1, <2>3, QuietStep
<1>4. QED
  BY <1>2, <1>3

LEMMA WriteXmlKeepsInv ==
  ASSUME Inv, TypeOK', NEW p \in Proc, WriteXml(p)
  PROVE  Inv'
<1> DEFINE j == run[p].job
<1>0. /\ TypeOK /\ RunCovers(p) /\ run \in [Proc -> RunType] /\ run[p].pc = "xml"
      /\ \A q \in Proc : q # p => run'[q] = run[q]
      /\ UNCHANGED <<cursor, base, row, hwm, date>>
  BY DEF Inv, RunsCover, TypeOK, WriteXml, At, ksefVars
<1>1. run[p].cur \in Invoice
  BY <1>0, RunTypes DEF RunCovers, PathOf, Maybe
<1>2. /\ \A i \in Invoice : file[i] => file'[i]
      /\ Canonical(j) => file'[run[p].cur]
  BY <1>0, <1>1 DEF WriteXml, StoreXml, TypeOK
<1>3. Grows
  BY <1>0, <1>2, TimeAssumption DEF Grows, TypeOK, Time
<1>4. /\ run'[p].pc = "row" /\ run'[p].job = j /\ run'[p].cur = run[p].cur
      /\ run'[p].start = run[p].start /\ run'[p].origin = run[p].origin
      /\ run'[p].todo = run[p].todo /\ run'[p].cont = run[p].cont
      /\ run'[p].failed = run[p].failed
  BY <1>0 DEF WriteXml
<1>5. StartIsCovered(p)' /\ PackageIsComplete(p)'
  BY <1>0, <1>3, <1>4, StillUnpacking DEF Unpacking
<1>6. j.forced # None /\ Canonical(j) => file'[j.forced]
  <2>1. j.forced \in Maybe(Invoice)
    BY <1>0, JobOfRun DEF JobType
  <2>2. QED
    BY <1>0, <1>2, <2>1 DEF RunCovers, WritesInOrder, Maybe
<1>7. RunCovers(p)'
  BY <1>0, <1>1, <1>2, <1>4, <1>5, <1>6, NoneIsNoTime
  DEF RunCovers, WritesInOrder, PathOf, At, MovesCursor, Canonical
<1>8. QED
  BY <1>0, <1>3, <1>7, QuietStep

LEMMA RecordKeepsInv ==
  ASSUME Inv, TypeOK', NEW p \in Proc, RecordDownloaded(p) \/ RecordFailed(p)
  PROVE  Inv'
<1> DEFINE j == run[p].job
<1>0. /\ TypeOK /\ RunCovers(p) /\ run \in [Proc -> RunType] /\ run[p].pc \in {"xml", "row"}
      /\ \A q \in Proc : q # p => run'[q] = run[q]
      /\ UNCHANGED <<cursor, base, file, hwm, date>>
  BY DEF Inv, RunsCover, TypeOK, RecordDownloaded, RecordFailed, At, ksefVars
<1>1. run[p].cur \in Invoice
  BY <1>0, RunTypes DEF RunCovers, PathOf, Maybe
<1>2. Grows
  BY <1>0, TimeAssumption DEF Grows, TypeOK, Time
<1>3. RecordDownloaded(p) /\ Canonical(j) => file[run[p].cur]
  BY <1>0 DEF RecordDownloaded, RunCovers, WritesInOrder, At
<1>4. RecordedIsOnDisk'
  <2>1. CASE RecordDownloaded(p)
    BY <1>0, <1>1, <1>3, <2>1
    DEF RecordDownloaded, StoreRow, Downloaded, Inv, RecordedIsOnDisk, TypeOK
  <2>2. CASE RecordFailed(p)
    BY <1>0, <1>1, <2>2 DEF RecordFailed, StoreRow, Inv, RecordedIsOnDisk, TypeOK
  <2>3. QED
    BY <2>1, <2>2
<1>5. /\ run'[p].pc = "entries" /\ run'[p].job = j /\ run'[p].cur = None
      /\ run'[p].start = run[p].start /\ run'[p].origin = run[p].origin
      /\ run'[p].todo = run[p].todo /\ run'[p].cont = run[p].cont
  <2>1. CASE RecordDownloaded(p)
    BY <1>0, <2>1 DEF RecordDownloaded
  <2>2. CASE RecordFailed(p)
    BY <1>0, <2>2 DEF RecordFailed
  <2>3. QED
    BY <2>1, <2>2
<1>6. /\ run[p].failed => run'[p].failed
      /\ RecordDownloaded(p) \/ run'[p].failed
  <2>1. CASE RecordDownloaded(p)
    <3>1. run'[p].failed = run[p].failed
      BY <1>0, <2>1 DEF RecordDownloaded
    <3>2. QED
      BY <2>1, <3>1
  <2>2. CASE RecordFailed(p)
    <3>1. run'[p].failed = TRUE
      BY <1>0, <2>2 DEF RecordFailed
    <3>2. QED
      BY <3>1
  <2>3. QED
    BY <2>1, <2>2
<1>7. StartIsCovered(p)' /\ PackageIsComplete(p)'
  BY <1>0, <1>2, <1>3, <1>5, <1>6, StillUnpacking DEF Unpacking
<1>8. RunCovers(p)'
  BY <1>0, <1>5, <1>7 DEF RunCovers, WritesInOrder, PathOf, At, MovesCursor, Canonical
<1>9. NothingSkipped' /\ CursorIsFinal'
  BY <1>0, <1>2, CursorKeeps DEF Inv
<1>10. ASSUME NEW q \in Proc PROVE RunCovers(q)'
  BY <1>0, <1>2, <1>8, OtherRunCovers DEF Inv, RunsCover
<1>11. QED
  BY <1>4, <1>9, <1>10 DEF Inv, RunsCover

LEMMA AdvanceKeepsInv ==
  ASSUME Inv, TypeOK', NEW p \in Proc, AdvanceCursor(p)
  PROVE  Inv'
<1> DEFINE j == run[p].job
           cont == run[p].cont
           origin == run[p].origin
<1>0. /\ TypeOK /\ RunCovers(p) /\ run \in [Proc -> RunType]
      /\ run[p].pc = "entries" /\ run[p].cur = None /\ run[p].todo = {}
      /\ ~run[p].failed /\ cont # None
      /\ \A q \in Proc : q # p => run'[q] = run[q]
      /\ UNCHANGED <<row, file, hwm, date>>
  BY DEF Inv, RunsCover, RunCovers, PathOf, TypeOK, AdvanceCursor, PackageDone, Advances, At,
         ksefVars
<1>1. /\ cont \in Time /\ origin \in Time /\ run[p].start \in Time /\ hwm \in Time
  BY <1>0, RunTypes DEF TypeOK, Maybe
<1>2. Grows
  BY <1>0, <1>1, TimeAssumption DEF Grows, Time
<1>3. /\ run'[p].pc = "window" /\ run'[p].job = j /\ run'[p].cur = None
      /\ run'[p].start = cont /\ run'[p].origin = origin
  BY <1>0 DEF AdvanceCursor
<1>4. Canonical(j) => /\ cont <= hwm
                      /\ \A i \in Invoice : Between(i, run[p].start, cont) => file[i]
  BY <1>0, NoneIsNoTime DEF RunCovers, PackageIsComplete, Unpacking
<1>5. ASSUME MovesCursor(j)
      PROVE  cont <= maxDate(hwm, origin) /\ \A i \in Invoice : Between(i, origin, cont) => file[i]
  <2>1. \A i \in Invoice : Between(i, origin, run[p].start) => file[i]
    BY <1>0, <1>5 DEF RunCovers, StartIsCovered, Looping
  <2>2. \A i \in Invoice : Committed(i) => date[i] \in Time
    BY <1>0 DEF TypeOK, Committed, Maybe
  <2>3. Canonical(j)
    BY <1>5 DEF MovesCursor, Canonical
  <2>4. \A i \in Invoice : Between(i, origin, cont) =>
          Between(i, origin, run[p].start) \/ Between(i, run[p].start, cont)
    <3> HIDE DEF cont, origin
    <3> QED BY <1>1, <2>2, TimeAssumption DEF Between, Time
  <2>5. cont <= maxDate(hwm, origin)
    <3> HIDE DEF cont, origin
    <3> QED BY <1>1, <1>4, <2>3, TimeAssumption DEF maxDate, Time
  <2>6. QED
    BY <1>4, <2>1, <2>3, <2>4, <2>5
<1>6. RunCovers(p)'
  <2>1. StartIsCovered(p)'
    BY <1>0, <1>3, <1>5 DEF StartIsCovered, Between, Committed
  <2>2. QED
    BY <1>0, <1>3, <2>1
    DEF RunCovers, PackageIsComplete, WritesInOrder, PathOf, Unpacking, At, Canonical
<1>7. CASE MovesCursor(j)
  <2>1. cursor' = cont /\ base' = origin
    BY <1>7 DEF AdvanceCursor, setContinuationPoint
  <2>2. QED
    <3> HIDE DEF cont, origin
    <3> QED BY <1>0, <1>1, <1>2, <1>5, <1>6, <1>7, <2>1, CursorStep
<1>8. CASE ~MovesCursor(j)
  <2>1. UNCHANGED <<cursor, base>>
    BY <1>8 DEF AdvanceCursor
  <2>2. QED
    BY <1>0, <1>2, <1>6, <2>1, QuietStep
<1>9. QED
  BY <1>7, <1>8

LEMMA InvStep == Inv /\ [Next]_vars => Inv'
<1> SUFFICES ASSUME Inv, [Next]_vars PROVE Inv'
  OBVIOUS
<1>0. TypeOK /\ TypeOK'
  BY TypeStep DEF Inv
<1>1. CASE Tick \/ RaiseHwm \/ UNCHANGED vars
  <2>1. UNCHANGED <<date, cursor, base, row, file, run>> /\ (hwm' = hwm \/ hwm' = hwm + 1)
    BY <1>1 DEF Tick, RaiseHwm, vars, storeVars
  <2>2. Grows
    BY <1>0, <2>1, TimeAssumption DEF Grows, TypeOK, Time
  <2>3. NothingSkipped' /\ CursorIsFinal' /\ RecordedIsOnDisk'
    BY <1>0, <2>1, <2>2, CursorKeeps, RowsKeep DEF Inv
  <2>4. ASSUME NEW q \in Proc PROVE RunCovers(q)'
    BY <1>0, <2>1, <2>2, OtherRunCovers DEF Inv, RunsCover
  <2>5. QED
    BY <1>0, <2>3, <2>4 DEF Inv, RunsCover
<1>2. ASSUME NEW i \in Invoice, Commit(i) PROVE Inv'
  BY <1>0, <1>2, CommitKeepsInv
<1>3. ASSUME NEW p \in Proc, NEW j \in Job, Begin(p, j) PROVE Inv'
  BY <1>0, <1>3, OpeningKeepsInv
<1>4. ASSUME NEW p \in Proc, Step(p) PROVE Inv'
  <2>1. CASE \/ Abort(p) \/ EndOfWindows(p) \/ ExportYieldsNothing(p) \/ HoldCursor(p)
    BY <1>0, <2>1, StopKeepsInv DEF Abort, EndOfWindows, ExportYieldsNothing, HoldCursor
  <2>2. CASE DirectDownload(p) \/ DirectRecord(p) \/ StartSubject(p)
    BY <1>0, <2>2, OpeningKeepsInv
  <2>3. CASE ReadCursor(p)
    BY <1>0, <2>3, ReadCursorKeepsInv
  <2>4. CASE FloorCursor(p) \/ ResetCursor(p)
    BY <1>0, <2>4, FloorOrResetKeepsInv
  <2>5. CASE Export(p)
    BY <1>0, <2>5, ExportKeepsInv
  <2>6. CASE \E i \in Invoice : SkipEntry(p, i) \/ TakeEntry(p, i)
    BY <1>0, <2>6, EntryKeepsInv
  <2>7. CASE WriteXml(p)
    BY <1>0, <2>7, WriteXmlKeepsInv
  <2>8. CASE RecordDownloaded(p) \/ RecordFailed(p)
    BY <1>0, <2>8, RecordKeepsInv
  <2>9. CASE AdvanceCursor(p)
    BY <1>0, <2>9, AdvanceKeepsInv
  <2>10. QED
    BY <1>4, <2>1, <2>2, <2>3, <2>4, <2>5, <2>6, <2>7, <2>8, <2>9 DEF Step
<1>5. QED
  BY <1>1, <1>2, <1>3, <1>4 DEF Next, Ksef

LEMMA Invariance == Spec => []Inv
<1>1. QED
  BY InvInit, InvStep, PTL DEF Spec

(* No invoice is lost between the beginning of the covered range and the   *)
(* continuation point, however many runs share the store, and whatever     *)
(* fails, is truncated, is aborted or arrives late (window.ts:42-55).      *)
THEOREM NeverSkips == Spec => []NothingSkipped
<1>1. Inv => NothingSkipped
  BY DEF Inv
<1>2. QED
  BY <1>1, Invariance, PTL

(* The continuation point stays out of the range in which KSeF may still   *)
(* commit invoices (window.ts:42-55).                                      *)
THEOREM StaysFinal == Spec => []CursorIsFinal
<1>1. Inv => CursorIsFinal
  BY DEF Inv
<1>2. QED
  BY <1>1, Invariance, PTL

(* A row that says "downloaded" has its file (invoiceWriter.ts:296-338).   *)
THEOREM NeverClaimsMissingFile == Spec => []RecordedIsOnDisk
<1>1. Inv => RecordedIsOnDisk
  BY DEF Inv
<1>2. QED
  BY <1>1, Invariance, PTL

(* What every run knows while it works.                                    *)
THEOREM RunsKnow == Spec => []RunsCover
<1>1. Inv => RunsCover
  BY DEF Inv
<1>2. QED
  BY <1>1, Invariance, PTL

-----------------------------------------------------------------------------
(* The refinement: each step of the detailed system is a step of           *)
(* GaplessFeed or leaves its variables alone.                              *)

LEMMA FeedInit == Init => Feed!Init
BY DEF Init, Feed!Init

LEMMA FeedMove ==
  ASSUME Inv, Inv', NEW c \in Time, NEW b \in Time, cursor' = c, base' = b,
         UNCHANGED <<date, hwm, file>>
  PROVE  Feed!Next
<1>1. hwm \in Time /\ c # None
  BY NoneIsNoTime DEF Inv, TypeOK
<1>2. \A i \in Invoice : date[i] # None /\ b <= date[i] /\ date[i] < c => file[i]
  BY <1>1 DEF Inv, NothingSkipped, Between, Committed
<1>3. c <= hwm \/ c <= b
  BY <1>1, TimeAssumption DEF Inv, CursorIsFinal, maxDate, Time
<1>4. Feed!MoveCursor(b, c)
  BY <1>2, <1>3 DEF Feed!MoveCursor
<1>5. QED
  BY <1>4 DEF Feed!Next, Feed!Time, Time

LEMMA FeedStore ==
  ASSUME TypeOK, NEW j \in JobType, NEW i \in Invoice, Committed(i), StoreXml(j, i),
         UNCHANGED <<date, hwm, cursor, base>>
  PROVE  Feed!Next \/ UNCHANGED Feed!vars
<1>1. CASE Canonical(j)
  <2>1. {k \in Invoice : file'[k]} = {k \in Invoice : file[k]} \cup {i}
    BY <1>1 DEF StoreXml, TypeOK
  <2>2. Feed!Store(i)
    BY <2>1 DEF Feed!Store, Committed
  <2>3. QED
    BY <2>2 DEF Feed!Next
<1>2. CASE ~Canonical(j)
  BY <1>2 DEF StoreXml, Feed!vars
<1>3. QED
  BY <1>1, <1>2

(* A run only ever handles invoices that KSeF has committed.               *)
Handles(p, i) == i \in run[p].todo \/ i = run[p].cur

HandlesCommitted == \A p \in Proc, i \in Invoice : Handles(p, i) => Committed(i)

LEMMA HandlesInit == Init => HandlesCommitted
BY NoneIsNoTime DEF Init, HandlesCommitted, Handles, IdleRun

LEMMA HandlesStep == TypeOK /\ HandlesCommitted /\ [Next]_vars => HandlesCommitted'
<1> SUFFICES ASSUME TypeOK, HandlesCommitted, [Next]_vars, NEW q \in Proc, NEW i \in Invoice,
                    Handles(q, i)'
             PROVE  Committed(i)'
  BY DEF HandlesCommitted
<1>1. Committed(i) => Committed(i)'
  <2>1. CASE \E k \in Invoice : Commit(k)
    <3>1. PICK k \in Invoice : ~Committed(k) /\ \E d \in hwm + 1 .. now : date' = [date EXCEPT ![k] = d]
      BY <2>1 DEF Commit
    <3>2. QED
      BY <3>1 DEF Committed, TypeOK
  <2>2. CASE ~\E k \in Invoice : Commit(k)
    <3>1. UNCHANGED date
      BY <2>2 DEF Next, Ksef, Tick, RaiseHwm, Step, Abort, DirectDownload, DirectRecord, StartSubject,
           ReadCursor, FloorCursor, ResetCursor, EndOfWindows, ExportYieldsNothing, Export,
           SkipEntry, TakeEntry, WriteXml, RecordDownloaded, RecordFailed, HoldCursor,
           AdvanceCursor, Begin, vars, ksefVars
    <3>2. QED
      BY <3>1 DEF Committed
  <2>3. QED
    BY <2>1, <2>2
<1>2. CASE run' = run
  BY <1>1, <1>2 DEF HandlesCommitted, Handles
<1>3. ASSUME NEW p \in Proc, Stop(p) \/ \E j \in Job : Begin(p, j) PROVE Committed(i)'
  <2>1. (q = p /\ run'[p].todo = {} /\ run'[p].cur = None) \/ run'[q] = run[q]
    <3>1. CASE Stop(p)
      BY <3>1 DEF Stop, IdleRun, TypeOK
    <3>2. CASE \E j \in Job : Begin(p, j)
      <4>1. PICK j \in Job, pc \in {"direct", "start"} :
              run' = [run EXCEPT ![p] = [IdleRun EXCEPT !.pc = pc, !.job = j]]
        BY <3>2 DEF Begin
      <4>2. QED
        BY <4>1 DEF IdleRun, TypeOK
    <3>3. QED
      BY <1>3, <3>1, <3>2
  <2>2. QED
    BY <1>1, <2>1, NoneIsNoTime DEF HandlesCommitted, Handles
<1>4. ASSUME NEW p \in Proc, Export(p) PROVE Committed(i)'
  <2> DEFINE end == WindowEnd(run[p].start, run[p].upper)
  <2>1. PICK pkg \in Packages(run[p].start, end) : ReceivePackage(p, pkg)
    BY <1>4 DEF Export
  <2>2. run[p].start \in Time /\ end \in Time
    BY RunTypes, WindowEndInTime
  <2>3. \A k \in pkg.invoices : Committed(k)
    BY <2>2, PackageShape, ExportableDates
  <2>4. \/ run'[q] = run[q]
        \/ q = p /\ run'[p].todo = pkg.invoices /\ run'[p].cur = run[p].cur
    BY <2>1 DEF ReceivePackage, TypeOK
  <2>5. QED
    BY <1>1, <2>3, <2>4 DEF HandlesCommitted, Handles
<1>5. ASSUME NEW p \in Proc,
             \/ \E k \in Invoice : SkipEntry(p, k) \/ TakeEntry(p, k)
             \/ RecordDownloaded(p) \/ RecordFailed(p)
      PROVE  Committed(i)'
  <2>1. \/ run'[q] = run[q]
        \/ /\ q = p /\ run'[p].todo \subseteq run[p].todo
           /\ run'[p].cur \in run[p].todo \cup {run[p].cur, None}
    <3>1. CASE \E k \in Invoice : SkipEntry(p, k)
      BY <3>1 DEF SkipEntry, TypeOK
    <3>2. CASE \E k \in Invoice : TakeEntry(p, k)
      BY <3>2 DEF TakeEntry, TypeOK
    <3>3. CASE RecordDownloaded(p)
      BY <3>3 DEF RecordDownloaded, TypeOK
    <3>4. CASE RecordFailed(p)
      BY <3>4 DEF RecordFailed, TypeOK
    <3>5. QED
      BY <1>5, <3>1, <3>2, <3>3, <3>4
  <2>2. QED
    BY <1>1, <2>1, NoneIsNoTime DEF HandlesCommitted, Handles
<1>6. ASSUME NEW p \in Proc,
             \/ DirectDownload(p) \/ DirectRecord(p) \/ StartSubject(p) \/ ReadCursor(p)
             \/ FloorCursor(p) \/ ResetCursor(p) \/ WriteXml(p) \/ AdvanceCursor(p)
      PROVE  Committed(i)'
  <2>1. \/ run'[q] = run[q]
        \/ q = p /\ run'[p].todo = run[p].todo /\ run'[p].cur = run[p].cur
    <3>1. CASE \E pc \in PC : run' = [run EXCEPT ![p].pc = pc]
      BY <3>1 DEF TypeOK
    <3>2. CASE StartSubject(p)
      BY <3>2 DEF StartSubject, TypeOK
    <3>3. CASE ReadCursor(p)
      BY <3>3 DEF ReadCursor, TypeOK
    <3>4. CASE AdvanceCursor(p)
      BY <3>4 DEF AdvanceCursor, TypeOK
    <3>5. QED
      BY <1>6, <3>1, <3>2, <3>3, <3>4
      DEF DirectDownload, DirectRecord, WriteXml, FloorCursor, ResetCursor, PC
  <2>2. QED
    BY <1>1, <2>1 DEF HandlesCommitted, Handles
<1>7. CASE Ksef \/ UNCHANGED vars
  BY <1>2, <1>7 DEF Ksef, Tick, RaiseHwm, Commit, vars
<1>8. QED
  BY <1>3, <1>4, <1>5, <1>6, <1>7
  DEF Next, Step, Abort, EndOfWindows, ExportYieldsNothing, HoldCursor

LEMMA FeedStep ==
  Inv /\ Inv' /\ HandlesCommitted /\ [Next]_vars => Feed!Next \/ UNCHANGED Feed!vars
<1> SUFFICES ASSUME Inv, Inv', HandlesCommitted, [Next]_vars
             PROVE  Feed!Next \/ UNCHANGED Feed!vars
  OBVIOUS
<1>0. TypeOK /\ TypeOK'
  BY DEF Inv
<1>1. CASE UNCHANGED <<date, hwm, file, cursor, base>>
  BY <1>1 DEF Feed!vars
<1>2. CASE RaiseHwm
  <2>1. hwm' > hwm /\ hwm' \in Feed!Time
    BY <1>0, <1>2, TimeAssumption DEF RaiseHwm, TypeOK, Feed!Time, Time
  <2>2. Feed!Finalize
    BY <1>2, <2>1 DEF RaiseHwm, storeVars, Feed!Finalize
  <2>3. QED
    BY <2>2 DEF Feed!Next
<1>3. ASSUME NEW i \in Invoice, Commit(i) PROVE Feed!Next
  <2>1. PICK d \in hwm + 1 .. now : date' = [date EXCEPT ![i] = d]
    BY <1>3 DEF Commit
  <2>2. d \in Feed!Time /\ d > hwm
    BY <1>0, <2>1, TimeAssumption DEF TypeOK, Feed!Time, Time
  <2>3. date[i] = None /\ UNCHANGED <<hwm, file, cursor, base>>
    BY <1>3 DEF Commit, Committed, storeVars
  <2>4. Feed!Commit(i)
    BY <2>1, <2>2, <2>3 DEF Feed!Commit
  <2>5. QED
    BY <2>4 DEF Feed!Next
<1>4. ASSUME NEW p \in Proc, DirectDownload(p) PROVE Feed!Next \/ UNCHANGED Feed!vars
  <2>1. run[p].job \in JobType /\ run[p].job.forced \in Invoice
    <3>1. run[p].job \in JobType /\ run[p].job.forced # None
      BY <1>0, <1>4, JobOfRun
      DEF DirectDownload, At, Inv, RunsCover, RunCovers, PathOf
    <3>2. QED
      BY <3>1 DEF JobType, Maybe
  <2>2. QED
    BY <1>0, <1>4, <2>1, FeedStore DEF DirectDownload, ksefVars
<1>5. ASSUME NEW p \in Proc, WriteXml(p) PROVE Feed!Next \/ UNCHANGED Feed!vars
  <2>1. run[p].job \in JobType
    BY <1>0, <1>5, JobOfRun DEF WriteXml, At
  <2>2. run[p].cur \in Invoice
    BY <1>0, <1>5, RunTypes DEF WriteXml, At, Inv, RunsCover, RunCovers, PathOf, Maybe
  <2>3. Committed(run[p].cur)
    BY <2>2 DEF HandlesCommitted, Handles
  <2>4. QED
    BY <1>0, <1>5, <2>1, <2>2, <2>3, FeedStore DEF WriteXml, ksefVars
<1>6. ASSUME NEW p \in Proc, FloorCursor(p) \/ ResetCursor(p) PROVE Feed!Next
  <2>1. run[p].start \in Time /\ run[p].origin \in Time
    BY <1>0, RunTypes
  <2>2. \E c, b \in Time : cursor' = c /\ base' = b
    BY <1>6, <2>1 DEF FloorCursor, ResetCursor, setContinuationPoint
  <2>3. UNCHANGED <<date, hwm, file>>
    BY <1>6 DEF FloorCursor, ResetCursor, ksefVars
  <2>4. QED
    BY <2>2, <2>3, FeedMove
<1>7. ASSUME NEW p \in Proc, AdvanceCursor(p) PROVE Feed!Next \/ UNCHANGED Feed!vars
  <2>1. run[p].cont \in Time /\ run[p].origin \in Time
    BY <1>0, <1>7, RunTypes DEF AdvanceCursor, Advances, Maybe
  <2>2. UNCHANGED <<date, hwm, file>>
    BY <1>7 DEF AdvanceCursor, ksefVars
  <2>3. (\E c, b \in Time : cursor' = c /\ base' = b) \/ UNCHANGED <<cursor, base>>
    BY <1>7, <2>1 DEF AdvanceCursor, setContinuationPoint
  <2>4. QED
    BY <1>1, <2>2, <2>3, FeedMove
<1>8. ASSUME NEW p \in Proc, Step(p) PROVE Feed!Next \/ UNCHANGED Feed!vars
  <2>1. CASE \/ Abort(p) \/ DirectRecord(p) \/ StartSubject(p) \/ ReadCursor(p)
             \/ EndOfWindows(p) \/ ExportYieldsNothing(p) \/ Export(p)
             \/ \E i \in Invoice : SkipEntry(p, i) \/ TakeEntry(p, i)
             \/ RecordDownloaded(p) \/ RecordFailed(p) \/ HoldCursor(p)
    <3>1. UNCHANGED <<date, hwm, file, cursor, base>>
      BY <2>1 DEF Abort, DirectRecord, StartSubject, ReadCursor, EndOfWindows,
           ExportYieldsNothing, Export, SkipEntry, TakeEntry, RecordDownloaded, RecordFailed,
           HoldCursor, ksefVars, storeVars
    <3>2. QED
      BY <1>1, <3>1
  <2>2. QED
    BY <1>4, <1>5, <1>6, <1>7, <1>8, <2>1 DEF Step
<1>9. CASE Tick \/ (\E p \in Proc, j \in Job : Begin(p, j)) \/ UNCHANGED vars
  <2>1. UNCHANGED <<date, hwm, file, cursor, base>>
    BY <1>9 DEF Tick, Begin, vars, ksefVars, storeVars
  <2>2. QED
    BY <1>1, <2>1
<1>10. QED
  BY <1>2, <1>3, <1>8, <1>9 DEF Next, Ksef

(* To whoever reads the store the runs are a gapless feed, whatever they   *)
(* do in between (window.ts:42-55, syncSubjectRunner.ts:160-497).          *)
THEOREM FeedRefinement == Spec => ImplementsFeed
<1>1. Spec => []HandlesCommitted
  BY HandlesInit, HandlesStep, Typing, PTL DEF Spec
<1>2. QED
  BY <1>1, FeedInit, FeedStep, Invariance, PTL DEF Spec, ImplementsFeed, Feed!Spec

=============================================================================
