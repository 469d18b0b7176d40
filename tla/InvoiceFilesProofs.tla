-------------------------- MODULE InvoiceFilesProofs --------------------------
(* Proofs about InvoiceFiles, for any number of runs, invoices and names.  *)
EXTENDS InvoiceFiles, FiniteSetTheorems, TLAPS

(* The places an invoice may be written to.                                *)
Fits(n, i) == n \in {Own(i), Short(Base[i]), Long(Base[i], i)}

(* A place whose name nobody raced for belongs to one invoice.             *)
FilesInv ==
  \A n \in Place :
    /\ xml[n] # None => Fits(n, xml[n])
    /\ Clean(n) =>
         /\ meta[n] # None => xml[n] = meta[n]
         /\ pdf[n] # None => meta[n] # None /\ pdf[n] = [shows |-> meta[n], number |-> meta[n]]

(* What a run knows about the place it writes to.                          *)
Late(w) == w.pc \in {"xml", "meta", "pdf", "row"}

WriterOK(w) ==
  /\ Late(w) => w.place \in Place /\ Fits(w.place, w.invoice)
  /\ Clean(w.place) =>
       /\ w.pc = "xml" => xml[w.place] \in {None, w.invoice}
       /\ w.pc \in {"meta", "pdf", "row"} => xml[w.place] = w.invoice
       /\ w.pc \in {"xml", "meta"} => meta[w.place] \in {None, w.invoice}
       /\ w.pc \in {"pdf", "row"} => meta[w.place] = w.invoice

WritersInv == \A p \in Proc : writer[p] # None => WriterOK(writer[p])

OneNames ==
  \A p, q \in Proc : \A b \in BaseName \ raced : Naming(p, b) /\ Naming(q, b) => p = q

RepairOK ==
  repair # None =>
    /\ xml[repair.place] # None
    /\ Clean(repair.place) =>
         /\ repair.pc = "xml" => meta[repair.place] = repair.number
         /\ repair.pc = "write" => /\ meta[repair.place] = repair.picture.number
                                   /\ repair.picture.shows = repair.picture.number

Inv == TypeOK /\ FilesInv /\ WritersInv /\ OneNames /\ RepairOK /\ NothingIsLost

-----------------------------------------------------------------------------
(* Places *)

LEMMA Distinct ==
  /\ None \notin Invoice /\ None \notin BaseName /\ None # Month /\ Month \notin Invoice
  /\ Base \in [Invoice -> BaseName] /\ MaxJobs \in Nat
BY FilesAssumption

LEMMA Places ==
  ASSUME NEW i \in Invoice
  PROVE  /\ Own(i) \in Place /\ Short(Base[i]) \in Place /\ Long(Base[i], i) \in Place
         /\ \A n : Fits(n, i) => n \in Place
BY Distinct DEF Place, Fits

LEMMA FitsDir ==
  ASSUME NEW i \in Invoice, NEW n, Fits(n, i)
  PROVE  n.dir \in {i, Month} /\ n.base = Base[i]
BY DEF Fits, Own, Short, Long

(* Only a short name may be the name of two invoices.                      *)
LEMMA Shared ==
  ASSUME NEW i \in Invoice, NEW j \in Invoice, i # j, NEW n, Fits(n, i), Fits(n, j)
  PROVE  n.dir = Month /\ n = Short(Base[i]) /\ Base[i] = Base[j]
<1>1. n.base = Base[i] /\ n.base = Base[j]
  BY FitsDir
<1>2. n.dir = Month
  BY FitsDir, Distinct
<1>3. n # Own(i) /\ n # Own(j)
  BY <1>2, Distinct DEF Own
<1>4. n \in {Short(Base[i]), Long(Base[i], i)} /\ n \in {Short(Base[j]), Long(Base[j], j)}
  BY <1>3 DEF Fits
<1>5. n.number \in {None, i} /\ n.number \in {None, j}
  BY <1>4 DEF Short, Long
<1>6. n.number = None
  BY <1>5, Distinct
<1>7. n # Long(Base[i], i)
  BY <1>6, Distinct DEF Long
<1> QED
  BY <1>1, <1>2, <1>4, <1>7

LEMMA CleanStays ==
  ASSUME raced \subseteq raced', NEW n PROVE Clean(n)' => Clean(n)
BY DEF Clean

-----------------------------------------------------------------------------
(* Steps of one run *)

NamesAs(w, b) ==
  /\ w.pc = "stat" \/ (w.pc \in {"xml", "meta"} /\ w.place.dir = Month)
  /\ Base[w.invoice] = b

LEMMA NamingIs ==
  \A p \in Proc, b \in BaseName : Naming(p, b) <=> writer[p] # None /\ NamesAs(writer[p], b)
BY DEF Naming, NamesAs, At

LEMMA WriterType ==
  ASSUME Inv, NEW p \in Proc, writer[p] # None
  PROVE  /\ writer[p] \in Writer /\ WriterOK(writer[p])
         /\ writer[p].invoice \in Invoice /\ Base[writer[p].invoice] \in BaseName
         /\ writer[p].seen \in Row
<1>1. writer[p] \in Writer
  BY DEF Inv, TypeOK, Maybe
<1>2. WriterOK(writer[p])
  BY DEF Inv, WritersInv
<1> QED
  BY <1>1, <1>2, Distinct DEF Writer

(* One that changes no XML and no metadata.                                *)
LEMMA MoveWriters ==
  ASSUME Inv, NEW p \in Proc, NEW v \in Maybe(Writer), Goto(p, v),
         UNCHANGED <<xml, meta>>, raced \subseteq raced',
         v # None => WriterOK(v),
         \A b \in BaseName \ raced' : \A q \in Proc \ {p} :
           v # None /\ NamesAs(v, b) => ~Naming(q, b)
  PROVE  WritersInv' /\ OneNames'
<1>1. writer' = [writer EXCEPT ![p] = v] /\ xml' = xml /\ meta' = meta
  BY DEF Goto
<1>2. \A n : Clean(n)' => Clean(n)
  BY CleanStays
<1>5. WritersInv'
  <2> SUFFICES ASSUME NEW q \in Proc, writer'[q] # None PROVE WriterOK(writer[q])'
    BY DEF WritersInv
  <2>1. WriterOK(writer'[q])
    <3>1. CASE q = p
      BY <1>1, <3>1 DEF Inv, TypeOK
    <3>2. CASE q # p
      BY <1>1, <3>2 DEF Inv, TypeOK, WritersInv
    <3> QED
      BY <3>1, <3>2
  <2> QED
    BY <2>1, <1>1, <1>2 DEF WriterOK, Late
<1>6. OneNames'
  <2> SUFFICES ASSUME NEW q \in Proc, NEW r \in Proc, NEW b \in BaseName \ raced', q # r,
                      Naming(q, b)', Naming(r, b)'
               PROVE  FALSE
    BY DEF OneNames
  <2>1. ASSUME NEW u \in Proc, u # p, Naming(u, b)' PROVE Naming(u, b)
    <3>1. writer'[u] = writer[u]
      BY <1>1, <2>1 DEF Inv, TypeOK
    <3> QED
      BY <2>1, <3>1 DEF Naming, At
  <2>2. Naming(p, b)' => v # None /\ NamesAs(v, b)
    <3>1. writer'[p] = v
      BY <1>1 DEF Inv, TypeOK
    <3> QED
      BY <3>1 DEF Naming, NamesAs, At
  <2>3. CASE q # p /\ r # p
    BY <2>1, <2>3 DEF Inv, OneNames
  <2>4. CASE q = p
    BY <2>1, <2>2, <2>4
  <2>5. CASE r = p
    BY <2>1, <2>2, <2>5
  <2> QED
    BY <2>3, <2>4, <2>5
<1> QED
  BY <1>5, <1>6

(* One that leaves all files alone.                                        *)
LEMMA QuietInv ==
  ASSUME Inv, NEW p \in Proc, NEW v \in Maybe(Writer), Goto(p, v),
         UNCHANGED <<files, repair, alert>>,
         row' \in [Invoice -> Row],
         \A i \in Invoice : row'[i] = row[i] \/ row'[i].status = "failed",
         jobs' \in 0..MaxJobs, raced \subseteq raced', raced' \subseteq BaseName,
         broken' \subseteq Invoice,
         v # None => WriterOK(v),
         \A b \in BaseName \ raced' : \A q \in Proc \ {p} :
           v # None /\ NamesAs(v, b) => ~Naming(q, b)
  PROVE  Inv'
<1>1. /\ writer' = [writer EXCEPT ![p] = v]
      /\ xml' = xml /\ meta' = meta /\ pdf' = pdf /\ repair' = repair /\ alert' = alert
  BY DEF Goto, files
<1>2. \A n : Clean(n)' => Clean(n)
  BY CleanStays
<1>3. TypeOK'
  <2>1. writer' \in [Proc -> Maybe(Writer)]
    BY <1>1 DEF Inv, TypeOK
  <2>2. \A i \in Invoice : row'[i].status = "downloaded" => row'[i].dir \in {i, Month}
    <3>1. \A i \in Invoice : row[i].status = "downloaded" => row[i].dir \in {i, Month}
      BY DEF Inv, TypeOK
    <3> QED
      BY <3>1
  <2> QED
    BY <1>1, <2>1, <2>2 DEF Inv, TypeOK
<1>4. FilesInv'
  BY <1>1, <1>2 DEF Inv, FilesInv
<1>5. WritersInv' /\ OneNames'
  BY <1>1, <1>2, MoveWriters
<1>7. RepairOK'
  BY <1>1, <1>2 DEF Inv, RepairOK
<1>8. NothingIsLost'
  <2> SUFFICES ASSUME NEW i \in Invoice, row'[i].status = "downloaded",
                      row'[i].dir = Month => Base[i] \notin raced' \cup Overlong
               PROVE  \E n \in Place : n.dir = row'[i].dir /\ xml'[n] = i /\ meta'[n] = i
    BY DEF NothingIsLost
  <2>1. row'[i] = row[i]
    OBVIOUS
  <2>2. \E n \in Place : n.dir = row[i].dir /\ xml[n] = i /\ meta[n] = i
    BY <2>1 DEF Inv, NothingIsLost
  <2> QED
    BY <1>1, <2>1, <2>2
<1> QED
  BY <1>3, <1>4, <1>5, <1>7, <1>8 DEF Inv

(* One that ends what the run was writing, or forgets it.                  *)
LEMMA EndInv ==
  ASSUME Inv, NEW p \in Proc, Goto(p, None), UNCHANGED <<files, repair, alert, jobs, raced>>,
         row' \in [Invoice -> Row],
         \A i \in Invoice : row'[i] = row[i] \/ row'[i].status = "failed",
         broken' \subseteq Invoice
  PROVE  Inv'
<1>1. None \in Maybe(Writer)
  BY DEF Maybe
<1>2. UNCHANGED <<files, repair, alert>> /\ jobs' \in 0..MaxJobs /\ raced \subseteq raced'
      /\ raced' \subseteq BaseName
  BY DEF Inv, TypeOK, files
<1> QED
  BY <1>1, <1>2, QuietInv

LEMMA Typed ==
  ASSUME Inv
  PROVE  /\ writer \in [Proc -> Maybe(Writer)] /\ row \in [Invoice -> Row]
         /\ jobs \in 0..MaxJobs /\ raced \subseteq BaseName /\ broken \subseteq Invoice
BY DEF Inv, TypeOK

(* A place that can only be this invoice's holds nothing else.             *)
LEMMA Private ==
  ASSUME Inv, NEW i \in Invoice, NEW n \in {Own(i), Long(Base[i], i)}
  PROVE  xml[n] \in {None, i} /\ (Clean(n) => meta[n] \in {None, i})
<1>1. n \in Place /\ Fits(n, i)
  BY Places DEF Fits
<1>2. n # Short(Base[i]) \/ n.dir # Month
  BY Distinct DEF Own, Short, Long
<1>3. xml[n] \in {None, i}
  <2>1. xml[n] \in Invoice \cup {None}
    BY <1>1 DEF Inv, TypeOK, Maybe
  <2>2. xml[n] # None => Fits(n, xml[n])
    BY <1>1 DEF Inv, FilesInv
  <2> QED
    BY <1>1, <1>2, <2>1, <2>2, Shared
<1>4. Clean(n) /\ meta[n] # None => xml[n] = meta[n]
  BY <1>1 DEF Inv, FilesInv
<1> QED
  BY <1>3, <1>4

LEMMA StartInv ==
  ASSUME Inv, NEW p \in Proc, NEW i \in Invoice, getInvoice(p, i)
  PROVE  Inv'
<1> DEFINE v == [pc |-> "files", invoice |-> i, seen |-> row[i], place |-> None]
<1>1. v \in Maybe(Writer)
  BY Typed DEF Maybe, Writer
<1>2. WriterOK(v)
  BY DEF WriterOK, Late
<1>3. \A b : ~NamesAs(v, b)
  BY DEF NamesAs
<1>4. Goto(p, v) /\ UNCHANGED <<files, repair, alert>> /\ row' = row
      /\ raced' = raced /\ broken' = broken
  BY DEF getInvoice, files
<1>5. jobs' \in 0..MaxJobs
  BY Typed, Distinct DEF getInvoice
<1> HIDE DEF v
<1> QED
  BY <1>1, <1>2, <1>3, <1>4, <1>5, Typed, QuietInv

LEMMA CheckInv ==
  ASSUME Inv, NEW p \in Proc, NEW flat \in BOOLEAN, NEW force \in BOOLEAN,
         CheckFiles(p, flat, force)
  PROVE  Inv'
<1> DEFINE w == writer[p]
<1> DEFINE r == [w EXCEPT !.pc = "resolve"]
<1> DEFINE x == [w EXCEPT !.pc = "xml", !.place = Own(w.invoice)]
<1>1. /\ writer[p] # None /\ w \in Writer /\ w.invoice \in Invoice
      /\ w.seen \in Row /\ w.pc = "files"
  BY WriterType DEF CheckFiles, At
<1>2. PICK v \in {None, r, x} : Goto(p, v)
  BY DEF CheckFiles
<1>3. v \in Maybe(Writer)
  <2>1. r \in Writer
    BY <1>1 DEF Writer
  <2>2. x \in Writer
    BY <1>1, Places DEF Writer, Maybe
  <2> QED
    BY <1>2, <2>1, <2>2 DEF Maybe
<1>4. v # None => WriterOK(v)
  <2>1. WriterOK(r)
    BY <1>1 DEF WriterOK, Late, Writer
  <2>2. /\ x.pc = "xml" /\ x.place = Own(w.invoice) /\ x.invoice = w.invoice
    BY <1>1 DEF Writer
  <2>3. Fits(x.place, x.invoice) /\ x.place \in Place
    BY <1>1, <2>2, Places DEF Fits
  <2>4. xml[x.place] \in {None, x.invoice}
        /\ (Clean(x.place) => meta[x.place] \in {None, x.invoice})
    BY <1>1, <2>2, Private
  <2>5. WriterOK(x)
    BY <2>2, <2>3, <2>4 DEF WriterOK, Late
  <2> QED
    BY <1>2, <2>1, <2>5
<1>5. v # None => \A b : ~NamesAs(v, b)
  <2>1. r.pc = "resolve" /\ x.pc = "xml" /\ x.place.dir # Month
    BY <1>1, Distinct DEF Writer, Own
  <2> QED
    BY <1>2, <2>1 DEF NamesAs
<1>6. UNCHANGED <<files, repair, alert>> /\ row' = row
      /\ raced' = raced /\ broken' = broken /\ jobs' = jobs
  BY DEF CheckFiles, files
<1> HIDE DEF w, r, x
<1> QED
  BY <1>2, <1>3, <1>4, <1>5, <1>6, Typed, QuietInv

LEMMA ResolveInv ==
  ASSUME Inv, NEW p \in Proc, readStoredKsefNumber(p)
  PROVE  Inv'
<1> DEFINE w == writer[p]
<1> DEFINE b == Base[w.invoice]
<1> DEFINE s == [w EXCEPT !.pc = "stat"]
<1> DEFINE x == [w EXCEPT !.pc = "xml", !.place = Short(b)]
<1>1. /\ writer[p] # None /\ w \in Writer /\ w.invoice \in Invoice
      /\ w.seen \in Row /\ w.pc = "resolve" /\ b \in BaseName
  BY WriterType DEF readStoredKsefNumber, At
<1>2. PICK v \in {s, x} : Goto(p, v) /\ (v = s \/ meta[Short(b)] = w.invoice)
  BY DEF readStoredKsefNumber
<1>3. s.pc = "stat" /\ x.pc = "xml"
  BY <1>1 DEF Writer
<1>4. v \in Maybe(Writer)
  <2>1. s \in Writer
    BY <1>1 DEF Writer
  <2>2. x \in Writer
    BY <1>1, Places DEF Writer, Maybe
  <2> QED
    BY <1>2, <2>1, <2>2 DEF Maybe
<1>5. WriterOK(v)
  <2>1. WriterOK(s)
    BY <1>3 DEF WriterOK, Late
  <2>2. x.place = Short(b) /\ x.invoice = w.invoice
    BY <1>1 DEF Writer
  <2>3. Fits(x.place, x.invoice) /\ x.place \in Place
    BY <1>1, <2>2, Places DEF Fits
  <2>4. CASE v = x
    <3>1. meta[x.place] = x.invoice /\ x.invoice # None
      BY <1>1, <1>2, <1>3, <2>2, <2>4, Distinct
    <3>2. Clean(x.place) => xml[x.place] = x.invoice
      BY <2>3, <3>1 DEF Inv, FilesInv
    <3> QED
      BY <1>3, <2>3, <2>4, <3>1, <3>2 DEF WriterOK, Late
  <2> QED
    BY <1>2, <2>1, <2>4
<1>6. raced' = raced \cup {c \in {b} : \E q \in Proc \ {p} : Naming(q, c)}
  BY DEF readStoredKsefNumber
<1>7. \A c \in BaseName \ raced' : \A q \in Proc \ {p} : NamesAs(v, c) => ~Naming(q, c)
  <2>1. v.invoice = w.invoice
    BY <1>1, <1>2 DEF Writer
  <2>2. \A c : NamesAs(v, c) => c = b
    BY <2>1 DEF NamesAs
  <2> QED
    BY <1>6, <2>2
<1>8. UNCHANGED <<files, repair, alert>> /\ row' = row
      /\ broken' = broken /\ jobs' = jobs
  BY DEF readStoredKsefNumber, files
<1>9. raced \subseteq raced' /\ raced' \subseteq BaseName
  BY <1>1, <1>6, Typed
<1> HIDE DEF w, b, s, x
<1> QED
  BY <1>2, <1>4, <1>5, <1>7, <1>8, <1>9, Typed, QuietInv

LEMMA StatInv ==
  ASSUME Inv, NEW p \in Proc, pathExists(p)
  PROVE  Inv'
<1> DEFINE w == writer[p]
<1> DEFINE i == w.invoice
<1> DEFINE n == resolveFlatFileBase(i)
<1> DEFINE v == [w EXCEPT !.pc = "xml", !.place = n]
<1>1. /\ writer[p] # None /\ w \in Writer /\ i \in Invoice
      /\ w.seen \in Row /\ w.pc = "stat" /\ Base[i] \in BaseName
  BY WriterType DEF pathExists, At
<1>2. n \in Place /\ Fits(n, i)
  BY <1>1, Places DEF Fits, resolveFlatFileBase, WithNumber
<1>3. v.pc = "xml" /\ v.place = n /\ v.invoice = i
  BY <1>1 DEF Writer
<1>4. v \in Maybe(Writer)
  BY <1>1, <1>2 DEF Writer, Maybe
<1>5. Clean(n) => xml[n] \in {None, i} /\ meta[n] \in {None, i}
  <2>1. CASE Free(Short(Base[i]))
    BY <2>1 DEF resolveFlatFileBase, Free
  <2>2. CASE ~Free(Short(Base[i])) /\ Base[i] \in Overlong
    BY <2>2 DEF resolveFlatFileBase, WithNumber, Clean, Short
  <2>3. CASE ~Free(Short(Base[i])) /\ Base[i] \notin Overlong
    BY <1>1, <2>3, Private DEF resolveFlatFileBase, WithNumber
  <2> QED
    BY <2>1, <2>2, <2>3
<1>6. WriterOK(v)
  BY <1>2, <1>3, <1>5 DEF WriterOK, Late
<1>7. \A c \in BaseName \ raced : \A q \in Proc \ {p} : NamesAs(v, c) => ~Naming(q, c)
  <2>1. \A c : NamesAs(v, c) => Naming(p, c)
    BY <1>1, <1>3 DEF NamesAs, Naming, At
  <2> QED
    BY <2>1 DEF Inv, OneNames
<1>8. UNCHANGED <<files, repair, alert>> /\ row' = row
      /\ broken' = broken /\ jobs' = jobs /\ raced' = raced /\ Goto(p, v)
  BY DEF pathExists, files
<1> HIDE DEF w, i, n, v
<1> QED
  BY <1>4, <1>6, <1>7, <1>8, Typed, QuietInv

LEMMA BrokenType ==
  ASSUME Inv, NEW p \in Proc, writer[p] # None PROVE Broken(writer[p]) \subseteq Invoice
BY WriterType DEF Broken

LEMMA FailInv ==
  ASSUME Inv, NEW p \in Proc, FailWrite(p)
  PROVE  Inv'
<1>1. writer[p] # None
  BY DEF FailWrite, At
<1>2. writer[p].invoice \in Invoice /\ writer[p].seen \in Row
  BY <1>1, WriterType
<1> DEFINE f == [status |-> "failed", dir |-> writer[p].seen.dir]
<1>3. f \in Row /\ f.status = "failed"
  BY <1>2 DEF Row
<1>4. row' = [row EXCEPT ![writer[p].invoice] = f]
  BY DEF FailWrite
<1> HIDE DEF f
<1>5. row' \in [Invoice -> Row] /\ \A i \in Invoice : row'[i] = row[i] \/ row'[i].status = "failed"
  BY <1>2, <1>3, <1>4, Typed
<1>6. broken' \subseteq Invoice
  BY <1>1, Typed, BrokenType DEF FailWrite
<1>7. Goto(p, None) /\ UNCHANGED <<files, repair, alert, jobs, raced>>
  BY DEF FailWrite
<1> QED
  BY <1>5, <1>6, <1>7, EndInv

LEMMA CrashInv ==
  ASSUME Inv, NEW p \in Proc, Crash(p)
  PROVE  Inv'
<1>1. broken' \subseteq Invoice
  BY Typed, BrokenType DEF Crash
<1>2. Goto(p, None) /\ UNCHANGED <<files, repair, alert, jobs, raced>> /\ row' = row
  BY DEF Crash, files
<1> QED
  BY <1>1, <1>2, Typed, EndInv

-----------------------------------------------------------------------------
(* The files are written *)

(* Two that write to the same place, whose name nobody raced for, write    *)
(* the same invoice.                                                       *)
LEMMA Apart ==
  ASSUME Inv, NEW p \in Proc, NEW q \in Proc, p # q, writer[p] # None, writer[q] # None,
         writer[p].pc \in {"xml", "meta"}, Late(writer[q]),
         writer[q].place = writer[p].place, Clean(writer[p].place)
  PROVE  writer[q].invoice = writer[p].invoice
<1> DEFINE n == writer[p].place
<1> DEFINE i == writer[p].invoice
<1> DEFINE j == writer[q].invoice
<1>1. /\ i \in Invoice /\ j \in Invoice /\ Fits(n, i) /\ Fits(n, j) /\ n \in Place
      /\ Base[i] \in BaseName
  BY WriterType DEF WriterOK, Late
<1> SUFFICES ASSUME i # j PROVE FALSE
  OBVIOUS
<1>2. n.dir = Month /\ n = Short(Base[i]) /\ Base[i] = Base[j]
  BY <1>1, Shared
<1>3. Base[i] \notin raced
  BY <1>2 DEF Clean, Short
<1>4. Naming(p, Base[i])
  BY <1>2 DEF Naming, At
<1>5. CASE writer[q].pc \in {"xml", "meta"}
  <2>1. Naming(q, Base[i])
    BY <1>2, <1>5 DEF Naming, At
  <2> QED
    BY <1>1, <1>3, <1>4, <2>1 DEF Inv, OneNames
<1>6. CASE writer[q].pc \in {"pdf", "row"}
  <2>1. WriterOK(writer[p]) /\ WriterOK(writer[q])
    BY WriterType
  <2>2. meta[n] = j
    BY <1>6, <2>1 DEF WriterOK
  <2>3. meta[n] \in {None, i}
    BY <2>1 DEF WriterOK
  <2> QED
    BY <1>1, <2>2, <2>3, Distinct
<1> QED
  BY <1>5, <1>6 DEF Late

(* A file of the pair is written: what it changes.                         *)
Stored(p, v, n, i) ==
  /\ Goto(p, v) /\ UNCHANGED <<pdf, row, repair, alert, jobs, raced, broken>>
  /\ v.place = n /\ v.invoice = i /\ v.pc \in {"meta", "pdf"}
  /\ xml' \in [Place -> Maybe(Invoice)] /\ meta' \in [Place -> Maybe(Invoice)]
  /\ \A m \in Place : m # n => xml'[m] = xml[m] /\ meta'[m] = meta[m]
  /\ xml'[n] \in {xml[n], i} /\ meta'[n] \in {meta[n], i}
  /\ Clean(n) => xml'[n] = i /\ meta[n] \in {None, i} /\ (v.pc = "pdf" => meta'[n] = i)
  /\ Clean(n) /\ meta'[n] # None => meta'[n] = i

(* What is beside the metadata of an invoice stays.                        *)
LEMMA KeepStored ==
  ASSUME Inv, NEW p \in Proc, NEW v \in Writer, NEW n \in Place, NEW i \in Invoice,
         Stored(p, v, n, i), NEW m \in Place, Clean(m), meta[m] # None
  PROVE  meta'[m] = meta[m] /\ xml'[m] = meta[m]
<1>1. xml[m] = meta[m]
  BY DEF Inv, FilesInv
<1>2. CASE m = n
  BY <1>1, <1>2, Distinct DEF Stored
<1>3. CASE m # n
  BY <1>1, <1>3 DEF Stored
<1> QED
  BY <1>2, <1>3

LEMMA StoredInv ==
  ASSUME Inv, NEW p \in Proc, writer[p] # None, writer[p].pc \in {"xml", "meta"},
         NEW v \in Writer, NEW n \in Place, NEW i \in Invoice,
         writer[p].place = n, writer[p].invoice = i, Stored(p, v, n, i)
  PROVE  Inv'
<1>1. /\ writer' = [writer EXCEPT ![p] = v] /\ raced' = raced
      /\ pdf' = pdf /\ row' = row /\ repair' = repair
  BY DEF Stored, Goto
<1>2. \A m : Clean(m)' <=> Clean(m)
  BY <1>1 DEF Clean
<1>3. Fits(n, i) /\ i # None
  BY WriterType, Distinct DEF WriterOK, Late
<1>4. \A m \in Place : Clean(m) /\ meta[m] # None => meta'[m] = meta[m] /\ xml'[m] = meta[m]
  BY KeepStored
<1>5. TypeOK'
  <2>1. writer' \in [Proc -> Maybe(Writer)]
    BY <1>1, Typed DEF Maybe
  <2> QED
    BY <2>1 DEF Inv, TypeOK, Stored
<1>6. FilesInv'
  <2> SUFFICES ASSUME NEW m \in Place
               PROVE  /\ xml'[m] # None => Fits(m, xml'[m])
                      /\ Clean(m) =>
                           /\ meta'[m] # None => xml'[m] = meta'[m]
                           /\ pdf[m] # None => meta'[m] # None
                                /\ pdf[m] = [shows |-> meta'[m], number |-> meta'[m]]
    BY <1>1, <1>2 DEF FilesInv
  <2>1. xml'[m] # None => Fits(m, xml'[m])
    <3>1. CASE m = n
      BY <1>3, <3>1 DEF Inv, FilesInv, Stored
    <3>2. CASE m # n
      BY <3>2 DEF Inv, FilesInv, Stored
    <3> QED
      BY <3>1, <3>2
  <2>2. ASSUME Clean(m), meta'[m] # None PROVE xml'[m] = meta'[m]
    <3>1. CASE m = n
      BY <2>2, <3>1 DEF Stored
    <3>2. CASE m # n
      BY <2>2, <3>2 DEF Inv, FilesInv, Stored
    <3> QED
      BY <3>1, <3>2
  <2>3. ASSUME Clean(m), pdf[m] # None
        PROVE  meta'[m] # None /\ pdf[m] = [shows |-> meta'[m], number |-> meta'[m]]
    <3>1. meta[m] # None /\ pdf[m] = [shows |-> meta[m], number |-> meta[m]]
      BY <2>3 DEF Inv, FilesInv
    <3>2. meta'[m] = meta[m]
      BY <1>4, <2>3, <3>1
    <3> QED
      BY <3>1, <3>2
  <2> QED
    BY <2>1, <2>2, <2>3
<1>7. WritersInv'
  <2> SUFFICES ASSUME NEW q \in Proc, writer'[q] # None PROVE WriterOK(writer[q])'
    BY DEF WritersInv
  <2> DEFINE u == writer'[q]
  <2> SUFFICES
        /\ Late(u) => u.place \in Place /\ Fits(u.place, u.invoice)
        /\ Clean(u.place) =>
             /\ u.pc = "xml" => xml'[u.place] \in {None, u.invoice}
             /\ u.pc \in {"meta", "pdf", "row"} => xml'[u.place] = u.invoice
             /\ u.pc \in {"xml", "meta"} => meta'[u.place] \in {None, u.invoice}
             /\ u.pc \in {"pdf", "row"} => meta'[u.place] = u.invoice
    BY <1>2 DEF WriterOK, Late
  <2>1. CASE q = p
    <3>1. u = v
      BY <1>1, <2>1, Typed
    <3> HIDE DEF u
    <3> QED
      BY <1>3, <3>1 DEF Stored
  <2>2. CASE q # p
    <3>1. u = writer[q]
      BY <1>1, <2>2, Typed
    <3>2. WriterOK(u) /\ writer[q] # None
      BY <3>1, WriterType
    <3>3. CASE ~Late(u)
      BY <3>3 DEF Late
    <3>4. CASE Late(u) /\ u.place # n
      <4>1. xml'[u.place] = xml[u.place] /\ meta'[u.place] = meta[u.place]
        BY <3>2, <3>4 DEF WriterOK, Stored
      <4> HIDE DEF u
      <4> QED
        BY <3>2, <4>1 DEF WriterOK
    <3>5. CASE Late(u) /\ u.place = n
      <4>1. Clean(n) => u.invoice = i
        BY <2>2, <3>1, <3>2, <3>5, Apart
      <4> HIDE DEF u
      <4>2. Clean(n) => xml'[n] = i /\ meta'[n] \in {None, i}
        BY DEF Stored
      <4>3. Clean(n) /\ u.pc \in {"pdf", "row"} => meta'[n] = i
        <5>1. Clean(n) /\ u.pc \in {"pdf", "row"} => meta[n] = i
          BY <3>2, <3>5, <4>1 DEF WriterOK
        <5> QED
          BY <1>3, <1>4, <5>1
      <4> QED
        BY <3>2, <3>5, <4>1, <4>2, <4>3 DEF WriterOK
    <3> QED
      BY <3>3, <3>4, <3>5
  <2> QED
    BY <2>1, <2>2
<1>8. OneNames'
  <2> SUFFICES ASSUME NEW q \in Proc, NEW r \in Proc, NEW b \in BaseName \ raced,
                      Naming(q, b)', Naming(r, b)'
               PROVE  q = r
    BY <1>1 DEF OneNames
  <2>1. ASSUME NEW u \in Proc, Naming(u, b)' PROVE Naming(u, b)
    <3>1. CASE u # p
      <4>1. writer'[u] = writer[u]
        BY <1>1, <3>1, Typed
      <4> QED
        BY <2>1, <4>1 DEF Naming, At
    <3>2. CASE u = p
      <4>1. writer'[p] = v
        BY <1>1, Typed
      <4> QED
        BY <2>1, <3>2, <4>1 DEF Naming, At, Stored
    <3> QED
      BY <3>1, <3>2
  <2> QED
    BY <2>1 DEF Inv, OneNames
<1>9. RepairOK'
  <2> SUFFICES ASSUME repair # None
               PROVE  /\ xml'[repair.place] # None
                      /\ Clean(repair.place) =>
                           /\ repair.pc = "xml" => meta'[repair.place] = repair.number
                           /\ repair.pc = "write" =>
                                /\ meta'[repair.place] = repair.picture.number
                                /\ repair.picture.shows = repair.picture.number
    BY <1>1, <1>2 DEF RepairOK
  <2>1. repair \in Repair /\ repair.place \in Place
    BY DEF Inv, TypeOK, Repair, Maybe
  <2>2. xml'[repair.place] # None
    BY <1>3, <2>1 DEF Inv, RepairOK, Stored
  <2>3. repair.pc = "xml" => repair.number # None
    BY <2>1, Distinct DEF Repair
  <2>4. repair.pc = "write" => repair.picture.number # None
    BY <2>1, Distinct DEF Repair, Picture
  <2> QED
    BY <1>4, <2>1, <2>2, <2>3, <2>4 DEF Inv, RepairOK
<1>10. NothingIsLost'
  <2> SUFFICES ASSUME NEW k \in Invoice, row[k].status = "downloaded",
                      row[k].dir = Month => Base[k] \notin raced \cup Overlong
               PROVE  \E m \in Place : m.dir = row[k].dir /\ xml'[m] = k /\ meta'[m] = k
    BY <1>1 DEF NothingIsLost
  <2>1. PICK m \in Place : m.dir = row[k].dir /\ xml[m] = k /\ meta[m] = k
    BY DEF Inv, NothingIsLost
  <2>2. m.base = Base[k]
    BY <2>1, FitsDir, Distinct DEF Inv, FilesInv
  <2>3. Clean(m)
    BY <2>1, <2>2 DEF Clean
  <2> QED
    BY <1>4, <2>1, <2>3, Distinct
<1> QED
  BY <1>5, <1>6, <1>7, <1>8, <1>9, <1>10 DEF Inv

LEMMA XmlStored ==
  ASSUME Inv, NEW p \in Proc, WriteXml(p)
  PROVE  /\ writer[p] # None /\ writer[p].pc = "xml"
         /\ writer[p].place \in Place /\ writer[p].invoice \in Invoice
         /\ [writer[p] EXCEPT !.pc = "meta"] \in Writer
         /\ Stored(p, [writer[p] EXCEPT !.pc = "meta"], writer[p].place, writer[p].invoice)
<1> DEFINE n == writer[p].place
<1> DEFINE i == writer[p].invoice
<1> DEFINE v == [writer[p] EXCEPT !.pc = "meta"]
<1>1. /\ writer[p] # None /\ writer[p].pc = "xml" /\ writer[p] \in Writer
      /\ n \in Place /\ i \in Invoice
  BY WriterType DEF WriteXml, At, WriterOK, Late
<1>2. v \in Writer /\ v.pc = "meta" /\ v.place = n /\ v.invoice = i
  BY <1>1 DEF Writer
<1>3. xml' = [xml EXCEPT ![n] = i] /\ meta' = meta
  BY DEF WriteXml
<1>4. Clean(n) => meta[n] \in {None, i}
  BY <1>1, WriterType DEF WriterOK
<1>5. Goto(p, v) /\ UNCHANGED <<pdf, row, repair, alert, jobs, raced, broken>>
  BY DEF WriteXml
<1>6. xml \in [Place -> Maybe(Invoice)] /\ meta \in [Place -> Maybe(Invoice)]
  BY DEF Inv, TypeOK
<1> HIDE DEF n, i, v
<1>7. xml' \in [Place -> Maybe(Invoice)]
  BY <1>1, <1>3, <1>6 DEF Maybe
<1>8. Stored(p, v, n, i)
  BY <1>1, <1>2, <1>3, <1>4, <1>5, <1>6, <1>7 DEF Stored
<1> QED
  BY <1>1, <1>2, <1>8 DEF n, i, v

LEMMA MetadataStored ==
  ASSUME Inv, NEW p \in Proc, WriteMetadata(p)
  PROVE  /\ writer[p] # None /\ writer[p].pc = "meta"
         /\ writer[p].place \in Place /\ writer[p].invoice \in Invoice
         /\ [writer[p] EXCEPT !.pc = "pdf"] \in Writer
         /\ Stored(p, [writer[p] EXCEPT !.pc = "pdf"], writer[p].place, writer[p].invoice)
<1> DEFINE n == writer[p].place
<1> DEFINE i == writer[p].invoice
<1> DEFINE v == [writer[p] EXCEPT !.pc = "pdf"]
<1>1. /\ writer[p] # None /\ writer[p].pc = "meta" /\ writer[p] \in Writer
      /\ n \in Place /\ i \in Invoice
  BY WriterType DEF WriteMetadata, At, WriterOK, Late
<1>2. v \in Writer /\ v.pc = "pdf" /\ v.place = n /\ v.invoice = i
  BY <1>1 DEF Writer
<1>3. meta' = [meta EXCEPT ![n] = i] /\ xml' = xml
  BY DEF WriteMetadata
<1>4. Clean(n) => xml[n] = i /\ meta[n] \in {None, i}
  BY <1>1, WriterType DEF WriterOK
<1>5. Goto(p, v) /\ UNCHANGED <<pdf, row, repair, alert, jobs, raced, broken>>
  BY DEF WriteMetadata
<1>6. xml \in [Place -> Maybe(Invoice)] /\ meta \in [Place -> Maybe(Invoice)]
  BY DEF Inv, TypeOK
<1> HIDE DEF n, i, v
<1>7. meta' \in [Place -> Maybe(Invoice)]
  BY <1>1, <1>3, <1>6 DEF Maybe
<1>8. Stored(p, v, n, i)
  BY <1>1, <1>2, <1>3, <1>4, <1>5, <1>6, <1>7 DEF Stored
<1> QED
  BY <1>1, <1>2, <1>8 DEF n, i, v

LEMMA XmlInv ==
  ASSUME Inv, NEW p \in Proc, WriteXml(p) PROVE Inv'
BY XmlStored, StoredInv

LEMMA MetadataInv ==
  ASSUME Inv, NEW p \in Proc, WriteMetadata(p) PROVE Inv'
BY MetadataStored, StoredInv

(* A PDF of the invoice whose metadata is beside it.                       *)
LEMMA PdfStored ==
  ASSUME Inv, NEW n \in Place, NEW c \in Picture, pdf' = [pdf EXCEPT ![n] = c],
         UNCHANGED <<xml, meta, row, raced>>,
         Clean(n) => meta[n] # None /\ c = [shows |-> meta[n], number |-> meta[n]]
  PROVE  pdf' \in [Place -> Maybe(Picture)] /\ FilesInv' /\ NothingIsLost'
<1>1. pdf \in [Place -> Maybe(Picture)]
  BY DEF Inv, TypeOK
<1>2. pdf' \in [Place -> Maybe(Picture)]
  BY <1>1 DEF Maybe
<1>3. \A m : Clean(m)' <=> Clean(m)
  BY DEF Clean
<1>4. FilesInv'
  <2> SUFFICES ASSUME NEW m \in Place
               PROVE  /\ xml[m] # None => Fits(m, xml[m])
                      /\ Clean(m) =>
                           /\ meta[m] # None => xml[m] = meta[m]
                           /\ pdf'[m] # None => meta[m] # None
                                /\ pdf'[m] = [shows |-> meta[m], number |-> meta[m]]
    BY <1>3 DEF FilesInv
  <2>1. CASE m = n
    BY <1>1, <2>1 DEF Inv, FilesInv
  <2>2. CASE m # n
    <3>1. pdf'[m] = pdf[m]
      BY <1>1, <2>2
    <3> QED
      BY <3>1 DEF Inv, FilesInv
  <2> QED
    BY <2>1, <2>2
<1>5. NothingIsLost'
  BY DEF Inv, NothingIsLost
<1> QED
  BY <1>2, <1>4, <1>5

LEMMA PdfInv ==
  ASSUME Inv, NEW p \in Proc, NEW ok \in BOOLEAN, maybeWritePdf(p, ok)
  PROVE  Inv'
<1> DEFINE n == writer[p].place
<1> DEFINE i == writer[p].invoice
<1> DEFINE v == [writer[p] EXCEPT !.pc = "row"]
<1> DEFINE c == [shows |-> i, number |-> i]
<1>1. /\ writer[p] # None /\ writer[p].pc = "pdf" /\ writer[p] \in Writer
      /\ n \in Place /\ i \in Invoice /\ WriterOK(writer[p])
  BY WriterType DEF maybeWritePdf, At, WriterOK, Late
<1>2. v \in Writer /\ v.pc = "row" /\ v.place = n /\ v.invoice = i
  BY <1>1 DEF Writer
<1>3. Clean(n) => xml[n] = i /\ meta[n] = i
  BY <1>1 DEF WriterOK
<1>4. /\ Goto(p, v) /\ UNCHANGED <<xml, meta, row, repair, alert, jobs, raced, broken>>
      /\ pdf' = pdf \/ pdf' = [pdf EXCEPT ![n] = c]
  BY DEF maybeWritePdf
<1>5. WriterOK(v)
  BY <1>1, <1>2, <1>3 DEF WriterOK, Late
<1>6. \A b : ~NamesAs(v, b)
  BY <1>2 DEF NamesAs
<1>7. c \in Picture
  BY <1>1 DEF Picture
<1>8. i # None
  BY <1>1, Distinct
<1> HIDE DEF v
<1>9. pdf' \in [Place -> Maybe(Picture)] /\ FilesInv' /\ NothingIsLost'
  <2>1. CASE pdf' = pdf
    BY <1>4, <2>1 DEF Inv, TypeOK, FilesInv, NothingIsLost, Clean
  <2>2. CASE pdf' = [pdf EXCEPT ![n] = c]
    <3>1. Clean(n) => meta[n] # None /\ c = [shows |-> meta[n], number |-> meta[n]]
      BY <1>3, <1>8
    <3> HIDE DEF n, c
    <3> QED
      BY <1>1, <1>4, <1>7, <2>2, <3>1, PdfStored
  <2> QED
    BY <1>4, <2>1, <2>2
<1> HIDE DEF n, i, c
<1>10. WritersInv' /\ OneNames'
  <2>1. v \in Maybe(Writer) /\ raced \subseteq raced'
    BY <1>2, <1>4 DEF Maybe
  <2> QED
    BY <1>4, <1>5, <1>6, <2>1, MoveWriters
<1>11. TypeOK'
  <2>1. writer' \in [Proc -> Maybe(Writer)]
    BY <1>2, <1>4, Typed DEF Goto, Maybe
  <2> QED
    BY <1>4, <1>9, <2>1 DEF Inv, TypeOK
<1>12. RepairOK'
  BY <1>4 DEF Inv, RepairOK, Clean
<1> QED
  BY <1>9, <1>10, <1>11, <1>12 DEF Inv

LEMMA UpsertInv ==
  ASSUME Inv, NEW p \in Proc, upsertInvoice(p)
  PROVE  Inv'
<1> DEFINE n == writer[p].place
<1> DEFINE i == writer[p].invoice
<1> DEFINE r == [status |-> "downloaded", dir |-> n.dir]
<1>1. /\ writer[p] # None /\ writer[p].pc = "row"
      /\ n \in Place /\ i \in Invoice /\ WriterOK(writer[p]) /\ Fits(n, i)
  BY WriterType DEF upsertInvoice, At, WriterOK, Late
<1>2. n.dir \in {i, Month} /\ n.base = Base[i]
  BY <1>1, FitsDir
<1>3. r \in Row /\ r.status = "downloaded" /\ r.dir = n.dir
  BY <1>1, <1>2 DEF Row, Maybe
<1>4. Clean(n) => xml[n] = i /\ meta[n] = i
  BY <1>1 DEF WriterOK
<1>5. /\ Goto(p, None) /\ UNCHANGED <<files, repair, alert, jobs, raced, broken>>
      /\ row' = [row EXCEPT ![i] = r]
  BY DEF upsertInvoice
<1> HIDE DEF n, i, r
<1>6. row' \in [Invoice -> Row] /\ row'[i] = r /\ \A k \in Invoice \ {i} : row'[k] = row[k]
  BY <1>1, <1>3, <1>5, Typed
<1>7. xml' = xml /\ meta' = meta /\ pdf' = pdf
  BY <1>5 DEF files
<1>8. WritersInv' /\ OneNames'
  <2>1. None \in Maybe(Writer) /\ raced \subseteq raced'
    BY <1>5 DEF Maybe
  <2> QED
    BY <1>5, <1>7, <2>1, MoveWriters
<1>9. TypeOK'
  <2>1. writer' \in [Proc -> Maybe(Writer)]
    BY <1>5, Typed DEF Goto, Maybe
  <2>2. \A k \in Invoice : row'[k].status = "downloaded" => row'[k].dir \in {k, Month}
    <3>1. \A k \in Invoice : row[k].status = "downloaded" => row[k].dir \in {k, Month}
      BY DEF Inv, TypeOK
    <3> QED
      BY <1>2, <1>3, <1>6, <3>1
  <2> QED
    BY <1>5, <1>6, <1>7, <2>1, <2>2 DEF Inv, TypeOK
<1>10. FilesInv' /\ RepairOK'
  BY <1>5, <1>7 DEF Inv, FilesInv, RepairOK, Clean
<1>11. NothingIsLost'
  <2> SUFFICES ASSUME NEW k \in Invoice, row'[k].status = "downloaded",
                      row'[k].dir = Month => Base[k] \notin raced \cup Overlong
               PROVE  \E m \in Place : m.dir = row'[k].dir /\ xml[m] = k /\ meta[m] = k
    BY <1>5, <1>7 DEF NothingIsLost
  <2>1. CASE k = i
    <3>1. Clean(n)
      BY <1>2, <1>3, <1>6, <2>1 DEF Clean
    <3> QED
      BY <1>1, <1>3, <1>4, <1>6, <2>1, <3>1
  <2>2. CASE k # i
    BY <1>6, <2>2 DEF Inv, NothingIsLost
  <2> QED
    BY <2>1, <2>2
<1> QED
  BY <1>8, <1>9, <1>10, <1>11 DEF Inv

-----------------------------------------------------------------------------
(* The repair command and the catch-up *)

LEMMA RepairType ==
  ASSUME Inv, repair # None
  PROVE  /\ repair \in Repair /\ repair.place \in Place
         /\ xml[repair.place] \in Invoice
         /\ repair.pc = "xml" => repair.number \in Invoice
         /\ repair.pc = "write" => repair.picture \in Picture
<1>1. repair \in Repair
  BY DEF Inv, TypeOK, Maybe
<1>2. repair.place \in Place
  BY <1>1 DEF Repair
<1>3. xml[repair.place] \in Invoice
  BY <1>2 DEF Inv, RepairOK, TypeOK, Maybe
<1> QED
  BY <1>1, <1>2, <1>3 DEF Repair

(* A step of the repair command that writes nothing.                       *)
LEMMA RepairQuiet ==
  ASSUME Inv, repair' \in Maybe(Repair), RepairOK',
         UNCHANGED <<files, row, writer, alert, jobs, raced, broken>>
  PROVE  Inv'
<1>1. xml' = xml /\ meta' = meta /\ pdf' = pdf
  BY DEF files
<1>2. TypeOK'
  BY <1>1 DEF Inv, TypeOK
<1>3. FilesInv' /\ NothingIsLost'
  BY <1>1 DEF Inv, FilesInv, NothingIsLost, Clean
<1>4. WritersInv'
  BY <1>1 DEF Inv, WritersInv, WriterOK, Late, Clean
<1>5. OneNames'
  BY DEF Inv, OneNames, Naming, At
<1> QED
  BY <1>2, <1>3, <1>4, <1>5 DEF Inv

LEMMA RepairInv ==
  ASSUME Inv, repairMissingInvoicePdfs \/ CrashRepair
  PROVE  Inv'
<1>1. ASSUME NEW n \in Place, repairXml(n) PROVE Inv'
  <2> DEFINE r == [pc |-> "meta", place |-> n, number |-> None]
  <2>1. r \in Maybe(Repair) /\ r.pc = "meta" /\ r.place = n
    BY DEF Repair, Maybe
  <2>2. repair' = r /\ xml' = xml /\ xml[n] # None
        /\ UNCHANGED <<files, row, writer, alert, jobs, raced, broken>>
    BY <1>1 DEF repairXml, files
  <2> HIDE DEF r
  <2>3. RepairOK'
    BY <2>1, <2>2 DEF RepairOK
  <2> QED
    BY <2>1, <2>2, <2>3, RepairQuiet
<1>2. ASSUME readMetadata PROVE Inv'
  <2> DEFINE n == repair.place
  <2> DEFINE r == [repair EXCEPT !.pc = "xml", !.number = meta[n]]
  <2>1. repair # None /\ repair.pc = "meta" /\ repair \in Repair /\ n \in Place /\ xml[n] # None
    BY <1>2, RepairType DEF readMetadata, Inv, RepairOK
  <2>2. meta[n] \in Maybe(Invoice)
    BY <2>1 DEF Inv, TypeOK
  <2>3. repair' = IF meta[n] = None THEN None ELSE r
    BY <1>2 DEF readMetadata
  <2>4. meta[n] # None => r \in Repair /\ r.pc = "xml" /\ r.place = n /\ r.number = meta[n]
    BY <2>1, <2>2 DEF Repair, Maybe
  <2>5. UNCHANGED <<files, row, writer, alert, jobs, raced, broken>> /\ xml' = xml /\ meta' = meta
    BY <1>2 DEF readMetadata, files
  <2> HIDE DEF n, r
  <2>6. repair' \in Maybe(Repair)
    BY <2>3, <2>4 DEF Maybe
  <2>7. RepairOK'
    BY <2>1, <2>3, <2>4, <2>5 DEF RepairOK
  <2> QED
    BY <2>5, <2>6, <2>7, RepairQuiet
<1>3. ASSUME NEW ok \in BOOLEAN, generateInvoicePdf(ok) PROVE Inv'
  <2> DEFINE n == repair.place
  <2> DEFINE c == [shows |-> xml[n], number |-> repair.number]
  <2> DEFINE r == [pc |-> "write", place |-> n, picture |-> c]
  <2>1. /\ repair # None /\ repair.pc = "xml" /\ n \in Place
        /\ xml[n] \in Invoice /\ repair.number \in Invoice
    BY <1>3, RepairType DEF generateInvoicePdf
  <2>2. repair' \in {None, r}
    BY <1>3 DEF generateInvoicePdf
  <2>3. c \in Picture /\ c.shows = xml[n] /\ c.number = repair.number
    BY <2>1 DEF Picture
  <2>4. Clean(n) => meta[n] = repair.number /\ xml[n] = repair.number
    BY <2>1, Distinct DEF Inv, RepairOK, FilesInv
  <2>5. UNCHANGED <<files, row, writer, alert, jobs, raced, broken>> /\ xml' = xml /\ meta' = meta
    BY <1>3 DEF generateInvoicePdf, files
  <2> HIDE DEF c
  <2>6. r \in Repair /\ r.pc = "write" /\ r.place = n /\ r.picture = c
    BY <2>1, <2>3 DEF Repair
  <2> HIDE DEF r
  <2>7. repair' \in Maybe(Repair)
    BY <2>2, <2>6 DEF Maybe
  <2>8. xml[n] # None
    BY <2>1, Distinct
  <2> HIDE DEF n
  <2>9. RepairOK'
    <3>1. CASE repair' = None
      BY <3>1 DEF RepairOK
    <3>2. CASE repair' = r
      <4>1. repair'.pc = "write" /\ repair'.place = n /\ repair'.picture = c
        BY <2>6, <3>2
      <4>2. Clean(repair.place)' => Clean(n)
        BY <2>5, <4>1 DEF Clean
      <4> QED
        BY <2>3, <2>4, <2>5, <2>8, <4>1, <4>2 DEF RepairOK
    <3> QED
      BY <2>2, <3>1, <3>2
  <2> QED
    BY <2>5, <2>7, <2>9, RepairQuiet
<1>4. ASSUME WriteRepaired PROVE Inv'
  <2> DEFINE n == repair.place
  <2> DEFINE c == repair.picture
  <2>1. /\ repair # None /\ repair.pc = "write" /\ n \in Place /\ c \in Picture
    BY <1>4, RepairType DEF WriteRepaired
  <2>2. /\ pdf' = [pdf EXCEPT ![n] = c] /\ repair' = None
        /\ UNCHANGED <<xml, meta, row, writer, alert, jobs, raced, broken>>
    BY <1>4 DEF WriteRepaired
  <2>3. Clean(n) => meta[n] = c.number /\ c.shows = c.number
    BY <2>1 DEF Inv, RepairOK
  <2>4. c = [shows |-> c.shows, number |-> c.number] /\ c.number # None
    BY <2>1, Distinct DEF Picture
  <2> HIDE DEF n, c
  <2>5. Clean(n) => meta[n] # None /\ c = [shows |-> meta[n], number |-> meta[n]]
    BY <2>3, <2>4
  <2>6. pdf' \in [Place -> Maybe(Picture)] /\ FilesInv' /\ NothingIsLost'
    BY <2>1, <2>2, <2>5, PdfStored
  <2>7. TypeOK'
    BY <2>2, <2>6 DEF Inv, TypeOK, Maybe
  <2>8. RepairOK'
    BY <2>2 DEF RepairOK
  <2>9. WritersInv'
    BY <2>2 DEF Inv, WritersInv, WriterOK, Late, Clean
  <2>10. OneNames'
    BY <2>2 DEF Inv, OneNames, Naming, At
  <2> QED
    BY <2>6, <2>7, <2>8, <2>9, <2>10 DEF Inv
<1>5. ASSUME CrashRepair PROVE Inv'
  <2>1. repair' = None /\ UNCHANGED <<files, row, writer, alert, jobs, raced, broken>>
    BY <1>5 DEF CrashRepair
  <2>2. RepairOK' /\ repair' \in Maybe(Repair)
    BY <2>1 DEF RepairOK, Maybe
  <2> QED
    BY <2>1, <2>2, RepairQuiet
<1> QED
  BY <1>1, <1>2, <1>3, <1>4, <1>5 DEF repairMissingInvoicePdfs

LEMMA AlertInv ==
  ASSUME Inv, NEW i \in Invoice, readCatchUpItem(i)
  PROVE  Inv'
<1>1. PICK n \in Place : xml[n] \in Unpaid /\ alert' = [alert EXCEPT ![i] = xml[n]]
  BY DEF readCatchUpItem
<1>2. xml[n] \in Invoice
  BY <1>1, FilesAssumption
<1>3. UNCHANGED <<files, row, writer, repair, jobs, raced, broken>>
      /\ xml' = xml /\ meta' = meta /\ pdf' = pdf
  BY DEF readCatchUpItem, files
<1>4. alert' \in [Invoice -> Maybe(Invoice)]
  BY <1>1, <1>2 DEF Inv, TypeOK, Maybe
<1>5. TypeOK'
  BY <1>3, <1>4 DEF Inv, TypeOK
<1>6. FilesInv' /\ NothingIsLost'
  BY <1>3 DEF Inv, FilesInv, NothingIsLost, Clean
<1>7. WritersInv'
  BY <1>3 DEF Inv, WritersInv, WriterOK, Late, Clean
<1>8. OneNames' /\ RepairOK'
  BY <1>3 DEF Inv, OneNames, Naming, At, RepairOK, Clean
<1> QED
  BY <1>5, <1>6, <1>7, <1>8 DEF Inv

-----------------------------------------------------------------------------

LEMMA InitInv == Init => Inv
<1> SUFFICES ASSUME Init PROVE Inv
  OBVIOUS
<1>1. TypeOK
  BY Distinct DEF Init, TypeOK, Maybe, NoRow, Row
<1>2. FilesInv
  BY DEF Init, FilesInv
<1>3. WritersInv /\ OneNames /\ RepairOK
  BY DEF Init, WritersInv, OneNames, Naming, At, RepairOK
<1>4. NothingIsLost
  BY DEF Init, NothingIsLost, NoRow
<1> QED
  BY <1>1, <1>2, <1>3, <1>4 DEF Inv

LEMMA StepInv == Inv /\ [Next]_vars => Inv'
<1> SUFFICES ASSUME Inv, [Next]_vars PROVE Inv'
  OBVIOUS
<1>1. ASSUME NEW p \in Proc, Write(p) PROVE Inv'
  BY <1>1, StartInv, CheckInv, ResolveInv, StatInv, XmlInv, MetadataInv, UpsertInv, PdfInv
     DEF Write
<1>2. ASSUME NEW p \in Proc, FailWrite(p) PROVE Inv'
  BY <1>2, FailInv
<1>3. ASSUME NEW p \in Proc, Crash(p) PROVE Inv'
  BY <1>3, CrashInv
<1>4. CASE repairMissingInvoicePdfs \/ CrashRepair
  BY <1>4, RepairInv
<1>5. ASSUME NEW i \in Invoice, readCatchUpItem(i) PROVE Inv'
  BY <1>5, AlertInv
<1>6. CASE UNCHANGED vars
  <2>1. UNCHANGED <<files, row, writer, repair, alert, jobs, raced, broken>>
    BY <1>6 DEF vars, files
  <2>2. RepairOK' /\ repair' \in Maybe(Repair)
    BY <1>6 DEF vars, Inv, RepairOK, TypeOK, Clean
  <2> QED
    BY <2>1, <2>2, RepairQuiet
<1> QED
  BY <1>1, <1>2, <1>3, <1>4, <1>5, <1>6 DEF Next

LEMMA Always == Spec => []Inv
<1> QED
  BY InitInv, StepInv, PTL DEF Spec

(* Types are kept.                                                         *)
THEOREM Typing == Spec => []TypeOK
<1>1. Inv => TypeOK
  BY DEF Inv
<1> QED
  BY <1>1, Always, PTL

(* What is recorded as downloaded is where its row says                    *)
(* (invoiceWriter.ts:278-338).                                             *)
THEOREM NothingLost == Spec => []NothingIsLost
<1>1. Inv => NothingIsLost
  BY DEF Inv
<1> QED
  BY <1>1, Always, PTL

(* A PDF shows the XML beside it (pdfRepairService.ts:94-146).             *)
THEOREM PdfsMatch == Spec => []PdfIsOfItsXml
<1>1. Inv => PdfIsOfItsXml
  <2> SUFFICES ASSUME Inv, NEW n \in Place, pdf[n] # None, Clean(n)
               PROVE  pdf[n] = [shows |-> xml[n], number |-> xml[n]]
    BY DEF PdfIsOfItsXml
  <2>1. meta[n] # None /\ pdf[n] = [shows |-> meta[n], number |-> meta[n]]
    BY DEF Inv, FilesInv
  <2>2. xml[n] = meta[n]
    BY <2>1 DEF Inv, FilesInv
  <2> QED
    BY <2>1, <2>2
<1> QED
  BY <1>1, Always, PTL

(* The invoice that has got a name keeps it (invoiceWriter.ts:99-132).     *)
THEOREM KeepsFirstName == Spec => FirstNameStays
<1> DEFINE Kept ==
      \A n \in Place :
        meta[n] # None /\ Clean(n)' => meta'[n] = meta[n] /\ xml'[n] = meta[n]
<1>1. Inv /\ [Next]_vars => [Kept]_vars
  <2> SUFFICES ASSUME Inv, Next, NEW n \in Place, meta[n] # None, Clean(n)'
               PROVE  meta'[n] = meta[n] /\ xml'[n] = meta[n]
    BY DEF vars
  <2>1. raced \subseteq raced'
    BY DEF Next, Write, getInvoice, CheckFiles, readStoredKsefNumber, pathExists, WriteXml,
           WriteMetadata, maybeWritePdf, upsertInvoice, FailWrite, Crash, repairXml,
           repairMissingInvoicePdfs, readMetadata, generateInvoicePdf, WriteRepaired,
           CrashRepair, readCatchUpItem
  <2>2. Clean(n) /\ xml[n] = meta[n]
    BY <2>1, CleanStays DEF Inv, FilesInv
  <2>3. ASSUME NEW p \in Proc, WriteXml(p) PROVE meta'[n] = meta[n] /\ xml'[n] = meta[n]
    BY <2>2, <2>3, XmlStored, KeepStored
  <2>4. ASSUME NEW p \in Proc, WriteMetadata(p) PROVE meta'[n] = meta[n] /\ xml'[n] = meta[n]
    BY <2>2, <2>4, MetadataStored, KeepStored
  <2>5. \/ UNCHANGED <<xml, meta>>
        \/ \E p \in Proc : WriteXml(p) \/ WriteMetadata(p)
    BY DEF Next, Write, getInvoice, CheckFiles, readStoredKsefNumber, pathExists,
           maybeWritePdf, upsertInvoice, FailWrite, Crash, repairXml,
           repairMissingInvoicePdfs, readMetadata, generateInvoicePdf, WriteRepaired,
           CrashRepair, readCatchUpItem, files
  <2> QED
    BY <2>2, <2>3, <2>4, <2>5
<1>2. Spec => [][Kept]_vars
  BY <1>1, Always, PTL DEF Spec
<1> QED
  BY <1>2 DEF FirstNameStays
-----------------------------------------------------------------------------
(* The flat layout holds an invoice once                                   *)

(* An invoice whose names are its own, with its metadata beside its XML.   *)
Named(i) == i \notin broken /\ Base[i] \notin raced \cup Overlong

(* A run that is about to write the metadata of the XML at the short name. *)
Records(p, i) ==
  At(p, "meta") /\ writer[p].place = Short(Base[i]) /\ writer[p].invoice = i

(* One that writes under the name with the KSeF number.                    *)
Follows(p, i) ==
  writer[p] # None /\ Late(writer[p]) /\ writer[p].place = Long(Base[i], i)

(* An XML at the short name is recognized by its metadata, unless its run  *)
(* has still to write that.                                                *)
Recognized(i) ==
  xml[Short(Base[i])] = i =>
    meta[Short(Base[i])] = i \/ \E p \in Proc : Records(p, i)

(* A run that has not recognized one does not find it later.               *)
Unseen(i) ==
  \A p \in Proc : At(p, "stat") /\ writer[p].invoice = i => xml[Short(Base[i])] # i

(* The longer name is taken when another invoice has the short one.        *)
LongIsSecond(i) ==
  xml[Long(Base[i], i)] = i \/ (\E p \in Proc : Follows(p, i)) =>
    xml[Short(Base[i])] \notin {None, i}

OnceInv ==
  \A i \in Invoice : Named(i) => Recognized(i) /\ Unseen(i) /\ LongIsSecond(i)

LEMMA ShortNames ==
  ASSUME NEW i \in Invoice
  PROVE  /\ Short(Base[i]) # Long(Base[i], i) /\ Own(i) # Long(Base[i], i)
         /\ Short(Base[i]).dir = Month /\ Short(Base[i]).base = Base[i]
         /\ (Named(i) => Clean(Short(Base[i])) /\ Clean(Long(Base[i], i)))
BY Distinct DEF Own, Short, Long, Named, Clean

LEMMA NamedStays ==
  ASSUME raced \subseteq raced', broken \subseteq broken', NEW i PROVE Named(i)' => Named(i)
BY DEF Named

(* A step of a run that changes no XML and no metadata.                    *)
LEMMA OnceQuiet ==
  ASSUME Inv, OnceInv, NEW p \in Proc, NEW v, Goto(p, v), UNCHANGED <<xml, meta>>,
         raced \subseteq raced', broken \subseteq broken',
         \A i \in Invoice : Named(i)' /\ Records(p, i) => meta[Short(Base[i])] = i,
         \A i \in Invoice :
           Named(i)' /\ v # None /\ v.pc = "stat" /\ v.invoice = i => xml[Short(Base[i])] # i,
         \A i \in Invoice :
           Named(i)' /\ v # None /\ Late(v) /\ v.place = Long(Base[i], i) =>
             Follows(p, i) \/ xml[Short(Base[i])] \notin {None, i}
  PROVE  OnceInv'
<1>1. xml' = xml /\ meta' = meta /\ writer'[p] = v
      /\ \A q \in Proc \ {p} : writer'[q] = writer[q]
  BY Typed DEF Goto
<1> SUFFICES ASSUME NEW i \in Invoice, Named(i)'
             PROVE  Recognized(i)' /\ Unseen(i)' /\ LongIsSecond(i)'
  BY DEF OnceInv
<1>2. Recognized(i) /\ Unseen(i) /\ LongIsSecond(i)
  BY NamedStays DEF OnceInv
<1>3. Recognized(i)'
  <2> SUFFICES ASSUME xml[Short(Base[i])] = i, meta[Short(Base[i])] # i
               PROVE  \E q \in Proc : Records(q, i)'
    BY <1>1 DEF Recognized
  <2>1. PICK q \in Proc : Records(q, i)
    BY <1>2 DEF Recognized
  <2>2. q # p
    BY <2>1
  <2> QED
    BY <1>1, <2>1, <2>2 DEF Records, At
<1>4. Unseen(i)'
  <2> SUFFICES ASSUME NEW q \in Proc, At(q, "stat")', writer'[q].invoice = i
               PROVE  xml[Short(Base[i])] # i
    BY <1>1 DEF Unseen
  <2>1. CASE q = p
    BY <1>1, <2>1 DEF At
  <2>2. CASE q # p
    BY <1>1, <1>2, <2>2 DEF At, Unseen
  <2> QED
    BY <2>1, <2>2
<1>5. LongIsSecond(i)'
  <2> SUFFICES ASSUME xml[Long(Base[i], i)] = i \/ \E q \in Proc : Follows(q, i)'
               PROVE  xml[Short(Base[i])] \notin {None, i}
    BY <1>1 DEF LongIsSecond
  <2>1. CASE xml[Long(Base[i], i)] = i
    BY <1>2, <2>1 DEF LongIsSecond
  <2>2. ASSUME NEW q \in Proc, Follows(q, i)' PROVE xml[Short(Base[i])] \notin {None, i}
    <3>1. CASE q = p
      <4>1. v # None /\ Late(v) /\ v.place = Long(Base[i], i)
        BY <1>1, <2>2, <3>1 DEF Follows, Late
      <4> QED
        BY <1>2, <4>1 DEF LongIsSecond
    <3>2. CASE q # p
      <4>1. Follows(q, i)
        BY <1>1, <2>2, <3>2 DEF Follows, Late
      <4> QED
        BY <1>2, <4>1 DEF LongIsSecond
    <3> QED
      BY <3>1, <3>2
  <2> QED
    BY <2>1, <2>2
<1> QED
  BY <1>3, <1>4, <1>5

LEMMA OnceStart ==
  ASSUME Inv, OnceInv, NEW p \in Proc, NEW i \in Invoice, getInvoice(p, i)
  PROVE  OnceInv'
<1> DEFINE v == [pc |-> "files", invoice |-> i, seen |-> row[i], place |-> None]
<1>1. v.pc = "files" /\ ~Late(v)
  BY DEF Late
<1>2. /\ Goto(p, v) /\ UNCHANGED <<xml, meta>> /\ raced' = raced /\ broken' = broken
      /\ writer[p] = None
  BY DEF getInvoice, files
<1>3. \A k : ~Records(p, k)
  BY <1>2 DEF Records, At
<1> HIDE DEF v
<1> QED
  BY <1>1, <1>2, <1>3, OnceQuiet

LEMMA OnceCheck ==
  ASSUME Inv, OnceInv, NEW p \in Proc, NEW flat \in BOOLEAN, NEW force \in BOOLEAN,
         CheckFiles(p, flat, force)
  PROVE  OnceInv'
<1> DEFINE w == writer[p]
<1> DEFINE r == [w EXCEPT !.pc = "resolve"]
<1> DEFINE x == [w EXCEPT !.pc = "xml", !.place = Own(w.invoice)]
<1>1. writer[p] # None /\ w \in Writer /\ w.invoice \in Invoice /\ w.pc = "files"
  BY WriterType DEF CheckFiles, At
<1>2. PICK v \in {None, r, x} : Goto(p, v)
  BY DEF CheckFiles
<1>3. r.pc = "resolve" /\ x.pc = "xml" /\ x.place.dir # Month
  BY <1>1, Distinct DEF Writer, Own
<1>4. v # None => v.pc # "stat" /\ (Late(v) => v.place.dir # Month)
  BY <1>2, <1>3 DEF Late
<1>5. \A k \in Invoice : Long(Base[k], k).dir = Month
  BY DEF Long
<1>6. UNCHANGED <<xml, meta>> /\ raced' = raced /\ broken' = broken
  BY DEF CheckFiles, files
<1>7. \A k : ~Records(p, k)
  BY <1>1 DEF Records, At
<1> HIDE DEF w, r, x
<1> QED
  BY <1>2, <1>4, <1>5, <1>6, <1>7, OnceQuiet

(* A run that does not recognize the XML of its invoice has raced with the *)
(* one that has still to write the metadata.                               *)
LEMMA OnceResolve ==
  ASSUME Inv, OnceInv, NEW p \in Proc, readStoredKsefNumber(p)
  PROVE  OnceInv'
<1> DEFINE w == writer[p]
<1> DEFINE b == Base[w.invoice]
<1> DEFINE s == [w EXCEPT !.pc = "stat"]
<1> DEFINE x == [w EXCEPT !.pc = "xml", !.place = Short(b)]
<1>1. /\ writer[p] # None /\ w \in Writer /\ w.invoice \in Invoice
      /\ w.pc = "resolve" /\ b \in BaseName
  BY WriterType DEF readStoredKsefNumber, At
<1>2. PICK v \in {s, x} : Goto(p, v) /\ (v = s => meta[Short(b)] # w.invoice)
  BY <1>1 DEF readStoredKsefNumber, Writer
<1>3. s.pc = "stat" /\ s.invoice = w.invoice /\ x.pc = "xml" /\ x.place = Short(b)
  BY <1>1 DEF Writer
<1>4. raced' = raced \cup {c \in {b} : \E q \in Proc \ {p} : Naming(q, c)}
  BY DEF readStoredKsefNumber
<1>5. UNCHANGED <<xml, meta>> /\ broken' = broken /\ raced \subseteq raced'
  BY <1>4 DEF readStoredKsefNumber, files
<1>6. \A k : ~Records(p, k)
  BY <1>1 DEF Records, At
<1>7. ASSUME NEW k \in Invoice, Named(k)', v.pc = "stat", v.invoice = k
      PROVE  xml[Short(Base[k])] # k
  <2>1. v = s /\ k = w.invoice /\ meta[Short(Base[k])] # k
    BY <1>2, <1>3, <1>7
  <2>2. Recognized(k)
    BY <1>5, <1>7, NamedStays DEF OnceInv
  <2>3. ASSUME NEW q \in Proc, Records(q, k) PROVE FALSE
    <3>1. q # p
      BY <1>6, <2>3
    <3>2. Naming(q, Base[k])
      BY <2>3, ShortNames DEF Records, Naming, At
    <3>3. Base[k] \in raced'
      BY <1>4, <2>1, <3>1, <3>2
    <3> QED
      BY <1>7, <3>3 DEF Named
  <2> QED
    BY <2>1, <2>2, <2>3 DEF Recognized
<1>8. ASSUME NEW k \in Invoice, Late(v) PROVE v.place # Long(Base[k], k)
  <2>0. v.place = Short(b)
    BY <1>2, <1>3, <1>8 DEF Late
  <2>1. v.place.number = None
    BY <2>0 DEF Short
  <2>2. Long(Base[k], k).number # None
    BY Distinct DEF Long
  <2> QED
    BY <2>1, <2>2
<1> HIDE DEF w, b, s, x
<1> QED
  BY <1>2, <1>5, <1>6, <1>7, <1>8, OnceQuiet

(* A short name that is not free is not this invoice's, which would have   *)
(* been recognized.                                                        *)
LEMMA OnceStat ==
  ASSUME Inv, OnceInv, NEW p \in Proc, pathExists(p)
  PROVE  OnceInv'
<1> DEFINE w == writer[p]
<1> DEFINE n == resolveFlatFileBase(w.invoice)
<1> DEFINE v == [w EXCEPT !.pc = "xml", !.place = n]
<1>1. writer[p] # None /\ w \in Writer /\ w.invoice \in Invoice /\ w.pc = "stat"
  BY WriterType DEF pathExists, At
<1>2. v.pc = "xml" /\ v.place = n
  BY <1>1 DEF Writer
<1>3. /\ Goto(p, v) /\ UNCHANGED <<xml, meta>> /\ raced' = raced /\ broken' = broken
  BY DEF pathExists, files
<1>4. \A k : ~Records(p, k)
  BY <1>1 DEF Records, At
<1>5. ASSUME NEW k \in Invoice, Named(k)', n = Long(Base[k], k)
      PROVE  xml[Short(Base[k])] \notin {None, k}
  <2>1. Named(k)
    BY <1>3, <1>5, NamedStays
  <2>2. ~Free(Short(Base[w.invoice])) /\ k = w.invoice
    BY <1>5, Distinct DEF resolveFlatFileBase, WithNumber, Short, Long
  <2>3. xml[Short(Base[k])] # k
    BY <1>1, <2>1, <2>2 DEF OnceInv, Unseen, At
  <2>4. Short(Base[k]) \in Place /\ Clean(Short(Base[k]))
    BY <2>1, Places, ShortNames
  <2>5. ~Free(Short(Base[k]))
    BY <2>2
  <2> DEFINE m == Short(Base[k])
  <2> HIDE DEF m
  <2>6. Clean(m) /\ m \in Place /\ ~Free(m) => xml[m] # None
    BY DEF Free, Inv, FilesInv
  <2> USE DEF m
  <2> QED
    BY <2>3, <2>4, <2>5, <2>6
<1> HIDE DEF w, n, v
<1> QED
  BY <1>2, <1>3, <1>4, <1>5, OnceQuiet
LEMMA OncePdf ==
  ASSUME Inv, OnceInv, NEW p \in Proc, NEW ok \in BOOLEAN, maybeWritePdf(p, ok)
  PROVE  OnceInv'
<1> DEFINE v == [writer[p] EXCEPT !.pc = "row"]
<1>1. writer[p] # None /\ writer[p].pc = "pdf" /\ writer[p] \in Writer
  BY WriterType DEF maybeWritePdf, At
<1>2. v.pc = "row" /\ v.place = writer[p].place
  BY <1>1 DEF Writer
<1>3. Goto(p, v) /\ UNCHANGED <<xml, meta>> /\ raced' = raced /\ broken' = broken
  BY DEF maybeWritePdf
<1>4. \A k : ~Records(p, k)
  BY <1>1 DEF Records, At
<1>5. \A k : v.place = Long(Base[k], k) => Follows(p, k)
  BY <1>1, <1>2 DEF Follows, Late
<1> HIDE DEF v
<1> QED
  BY <1>2, <1>3, <1>4, <1>5, OnceQuiet

LEMMA OnceUpsert ==
  ASSUME Inv, OnceInv, NEW p \in Proc, upsertInvoice(p)
  PROVE  OnceInv'
<1>1. /\ Goto(p, None) /\ UNCHANGED <<xml, meta>> /\ raced' = raced /\ broken' = broken
      /\ At(p, "row")
  BY DEF upsertInvoice, files
<1>2. \A k : ~Records(p, k)
  BY <1>1 DEF Records, At
<1> QED
  BY <1>1, <1>2, OnceQuiet

(* A run that leaves an XML without metadata leaves its invoice broken.    *)
LEMMA OnceLeft ==
  ASSUME Inv, OnceInv, NEW p \in Proc, FailWrite(p) \/ Crash(p)
  PROVE  OnceInv'
<1>1. /\ Goto(p, None) /\ UNCHANGED <<xml, meta>> /\ raced' = raced
      /\ broken' = broken \cup Broken(writer[p])
  BY DEF FailWrite, Crash, files
<1>2. ASSUME NEW k \in Invoice, Named(k)', Records(p, k) PROVE meta[Short(Base[k])] = k
  BY <1>1, <1>2 DEF Named, Records, At, Broken
<1> QED
  BY <1>1, <1>2, OnceQuiet

(* An XML is not written to the short name when the invoice has the longer *)
(* one, nor while another run looks for it.                                *)
LEMMA OnceXml ==
  ASSUME Inv, OnceInv, NEW p \in Proc, WriteXml(p)
  PROVE  OnceInv'
<1> DEFINE n == writer[p].place
<1> DEFINE i == writer[p].invoice
<1> DEFINE v == [writer[p] EXCEPT !.pc = "meta"]
<1>1. /\ writer[p] # None /\ writer[p].pc = "xml" /\ writer[p] \in Writer
      /\ n \in Place /\ i \in Invoice /\ WriterOK(writer[p])
  BY WriterType DEF WriteXml, At, WriterOK, Late
<1>2. v # None /\ v.pc = "meta" /\ v.place = n /\ v.invoice = i
  BY <1>1, WriterAssumption DEF Writer
<1>3. /\ Goto(p, v) /\ xml' = [xml EXCEPT ![n] = i] /\ meta' = meta
      /\ raced' = raced /\ broken' = broken
  BY DEF WriteXml
<1>4. /\ xml'[n] = i /\ \A m \in Place \ {n} : xml'[m] = xml[m]
      /\ writer'[p] = v /\ \A q \in Proc \ {p} : writer'[q] = writer[q]
  BY <1>1, <1>3, Typed DEF Goto, Inv, TypeOK
<1>5. Clean(n) => xml[n] \in {None, i}
  BY <1>1 DEF WriterOK
<1>6. \A b : n.dir = Month /\ Base[i] = b => Naming(p, b)
  BY <1>1 DEF Naming, At
<1>7. Fits(n, i)
  BY <1>1 DEF WriterOK, Late
<1>8. \A k : ~Records(p, k) /\ (n = Long(Base[k], k) => Follows(p, k))
  BY <1>1 DEF Records, Follows, Late, At
<1> HIDE DEF n, i, v
<1> SUFFICES ASSUME NEW k \in Invoice, Named(k)
             PROVE  Recognized(k)' /\ Unseen(k)' /\ LongIsSecond(k)'
  BY <1>3 DEF OnceInv, Named
<1> DEFINE short == Short(Base[k])
<1> DEFINE long == Long(Base[k], k)
<1>9. /\ short \in Place /\ long \in Place /\ short # long /\ short.dir = Month
      /\ short.base = Base[k] /\ Clean(short) /\ Base[k] \in BaseName \ raced
  BY Places, ShortNames, Distinct DEF Named
<1>10. Recognized(k) /\ Unseen(k) /\ LongIsSecond(k)
  BY DEF OnceInv
<1>11. ASSUME NEW q \in Proc, Follows(q, k)' PROVE Follows(q, k)
  <2>1. CASE q = p
    BY <1>2, <1>4, <1>8, <1>11, <2>1 DEF Follows
  <2>2. CASE q # p
    BY <1>4, <1>11, <2>2 DEF Follows, Late
  <2> QED
    BY <2>1, <2>2
<1>12. ASSUME NEW q \in Proc, At(q, "stat")', writer'[q].invoice = k
       PROVE  q # p /\ At(q, "stat") /\ writer[q].invoice = k /\ Naming(q, Base[k])
  <2>1. q # p
    BY <1>2, <1>4, <1>12 DEF At
  <2> QED
    BY <1>4, <1>12, <2>1 DEF At, Naming
<1>13. CASE n = short
  <2>1. xml'[short] = i /\ xml[short] \in {None, i}
    BY <1>4, <1>5, <1>9, <1>13
  <2>2. Recognized(k)'
    <3>1. i = k => Records(p, k)'
      BY <1>2, <1>4, <1>13 DEF Records, At
    <3> QED
      BY <2>1, <3>1 DEF Recognized
  <2>3. Unseen(k)'
    <3>1. ASSUME NEW q \in Proc, At(q, "stat")', writer'[q].invoice = k, i = k PROVE FALSE
      <4>1. Naming(p, Base[k]) /\ Naming(q, Base[k]) /\ q # p
        BY <1>6, <1>9, <1>12, <1>13, <3>1
      <4> QED
        BY <1>9, <4>1 DEF Inv, OneNames
    <3> QED
      BY <2>1, <3>1 DEF Unseen
  <2>4. LongIsSecond(k)'
    <3>1. xml'[long] = xml[long]
      BY <1>4, <1>9, <1>13
    <3> QED
      BY <1>10, <1>11, <2>1, <3>1 DEF LongIsSecond
  <2> QED
    BY <2>2, <2>3, <2>4
<1>14. CASE n # short
  <2>1. xml'[short] = xml[short] /\ meta'[short] = meta[short]
    BY <1>3, <1>4, <1>9, <1>14
  <2>2. Recognized(k)'
    <3>1. ASSUME NEW q \in Proc, Records(q, k) PROVE Records(q, k)'
      <4>1. q # p
        BY <1>8, <3>1
      <4> QED
        BY <1>4, <3>1, <4>1 DEF Records, At
    <3> QED
      BY <1>10, <2>1, <3>1 DEF Recognized
  <2>3. Unseen(k)'
    BY <1>10, <1>12, <2>1 DEF Unseen
  <2>4. LongIsSecond(k)'
    <3>1. xml'[long] = k => xml[long] = k \/ Follows(p, k)
      BY <1>4, <1>8, <1>9
    <3> QED
      BY <1>10, <1>11, <2>1, <3>1 DEF LongIsSecond
  <2> QED
    BY <2>2, <2>3, <2>4
<1> QED
  BY <1>13, <1>14

(* The metadata makes the XML recognizable.                                *)
LEMMA OnceMetadata ==
  ASSUME Inv, OnceInv, NEW p \in Proc, WriteMetadata(p)
  PROVE  OnceInv'
<1> DEFINE n == writer[p].place
<1> DEFINE i == writer[p].invoice
<1> DEFINE v == [writer[p] EXCEPT !.pc = "pdf"]
<1>1. /\ writer[p] # None /\ writer[p].pc = "meta" /\ writer[p] \in Writer
      /\ n \in Place /\ i \in Invoice /\ WriterOK(writer[p])
  BY WriterType DEF WriteMetadata, At, WriterOK, Late
<1>2. v.pc = "pdf" /\ v.place = n
  BY <1>1 DEF Writer
<1>3. /\ Goto(p, v) /\ meta' = [meta EXCEPT ![n] = i] /\ xml' = xml
      /\ raced' = raced /\ broken' = broken
  BY DEF WriteMetadata
<1>4. /\ meta'[n] = i /\ \A m \in Place \ {n} : meta'[m] = meta[m]
      /\ writer'[p] = v /\ \A q \in Proc \ {p} : writer'[q] = writer[q]
  BY <1>1, <1>3, Typed DEF Goto, Inv, TypeOK
<1>5. Clean(n) => xml[n] = i
  BY <1>1 DEF WriterOK
<1>6. \A k : /\ Records(p, k) => n = Short(Base[k])
             /\ n = Long(Base[k], k) => Follows(p, k)
  BY <1>1 DEF Records, Follows, Late, At
<1> HIDE DEF n, i, v
<1> SUFFICES ASSUME NEW k \in Invoice, Named(k)
             PROVE  Recognized(k)' /\ Unseen(k)' /\ LongIsSecond(k)'
  BY <1>3 DEF OnceInv, Named
<1> DEFINE short == Short(Base[k])
<1>7. short \in Place /\ Clean(short)
  BY Places, ShortNames
<1>8. Recognized(k) /\ Unseen(k) /\ LongIsSecond(k)
  BY DEF OnceInv
<1>9. Recognized(k)'
  <2>1. CASE n = short
    BY <1>3, <1>4, <1>5, <1>7, <2>1 DEF Recognized
  <2>2. CASE n # short
    <3>1. meta'[short] = meta[short] /\ xml'[short] = xml[short]
      BY <1>3, <1>4, <1>7, <2>2
    <3>2. ASSUME NEW q \in Proc, Records(q, k) PROVE Records(q, k)'
      <4>1. q # p
        BY <1>6, <2>2, <3>2
      <4> QED
        BY <1>4, <3>2, <4>1 DEF Records, At
    <3> QED
      BY <1>8, <3>1, <3>2 DEF Recognized
  <2> QED
    BY <2>1, <2>2
<1>10. Unseen(k)'
  <2>1. ASSUME NEW q \in Proc, At(q, "stat")', writer'[q].invoice = k
        PROVE  At(q, "stat") /\ writer[q].invoice = k
    <3>1. q # p
      BY <1>2, <1>4, <2>1 DEF At
    <3> QED
      BY <1>4, <2>1, <3>1 DEF At
  <2> QED
    BY <1>3, <1>8, <2>1 DEF Unseen
<1>11. LongIsSecond(k)'
  <2>1. ASSUME NEW q \in Proc, Follows(q, k)' PROVE Follows(q, k)
    <3>1. CASE q = p
      BY <1>2, <1>4, <1>6, <2>1, <3>1 DEF Follows
    <3>2. CASE q # p
      BY <1>4, <2>1, <3>2 DEF Follows, Late
    <3> QED
      BY <3>1, <3>2
  <2> QED
    BY <1>3, <1>8, <2>1 DEF LongIsSecond
<1> QED
  BY <1>9, <1>10, <1>11

LEMMA OnceStep == Inv /\ OnceInv /\ [Next]_vars => OnceInv'
<1> SUFFICES ASSUME Inv, OnceInv, [Next]_vars PROVE OnceInv'
  OBVIOUS
<1>1. ASSUME NEW p \in Proc, Write(p) PROVE OnceInv'
  BY <1>1, OnceStart, OnceCheck, OnceResolve, OnceStat, OnceXml, OnceMetadata, OnceUpsert,
     OncePdf
     DEF Write
<1>2. ASSUME NEW p \in Proc, FailWrite(p) \/ Crash(p) PROVE OnceInv'
  BY <1>2, OnceLeft
<1>3. CASE UNCHANGED <<xml, meta, writer, raced, broken>>
  BY <1>3 DEF OnceInv, Named, Recognized, Records, Unseen, LongIsSecond, Follows, At, Late
<1>4. repairMissingInvoicePdfs \/ CrashRepair \/ (\E i \in Invoice : readCatchUpItem(i))
        \/ UNCHANGED vars => UNCHANGED <<xml, meta, writer, raced, broken>>
  BY DEF repairMissingInvoicePdfs, repairXml, readMetadata, generateInvoicePdf, WriteRepaired,
         CrashRepair, readCatchUpItem, vars, files
<1> QED
  BY <1>1, <1>2, <1>3, <1>4 DEF Next

(* The places of the month where the invoice is.                           *)
LEMMA AtMostOne ==
  ASSUME Inv, OnceInv, NEW i \in Invoice, Named(i)
  PROVE  \E m : {n \in Place : n.dir = Month /\ xml[n] = i} \subseteq {m}
<1>1. ASSUME NEW n \in Place, n.dir = Month, xml[n] = i
      PROVE  n \in {Short(Base[i]), Long(Base[i], i)}
  <2>1. Fits(n, i)
    BY <1>1, Distinct DEF Inv, FilesInv
  <2> QED
    BY <1>1, <2>1, Distinct DEF Fits, Own
<1>2. xml[Long(Base[i], i)] = i => xml[Short(Base[i])] # i
  BY DEF OnceInv, LongIsSecond
<1>3. CASE xml[Long(Base[i], i)] = i
  <2>1. {n \in Place : n.dir = Month /\ xml[n] = i} \subseteq {Long(Base[i], i)}
    BY <1>1, <1>2, <1>3
  <2> QED
    BY <2>1
<1>4. CASE xml[Long(Base[i], i)] # i
  <2>1. {n \in Place : n.dir = Month /\ xml[n] = i} \subseteq {Short(Base[i])}
    BY <1>1, <1>4
  <2> QED
    BY <2>1
<1> QED
  BY <1>3, <1>4

(* However often an invoice is downloaded, it has one place in the flat    *)
(* layout (invoiceWriter.ts:99-132).                                       *)
THEOREM HeldOnce == Spec => []NoDuplicates
<1>1. Init => OnceInv
  <2> SUFFICES ASSUME Init, NEW i \in Invoice
               PROVE  Recognized(i) /\ Unseen(i) /\ LongIsSecond(i)
    BY DEF OnceInv
  <2>1. i # None /\ Short(Base[i]) \in Place /\ Long(Base[i], i) \in Place
    BY Distinct, Places
  <2>2. xml[Short(Base[i])] = None /\ xml[Long(Base[i], i)] = None
        /\ \A p \in Proc : writer[p] = None
    BY <2>1 DEF Init
  <2> QED
    BY <2>1, <2>2 DEF Recognized, Unseen, LongIsSecond, Follows, At
<1>2. Inv /\ OnceInv => NoDuplicates
  <2> SUFFICES ASSUME Inv, OnceInv, NEW i \in Invoice, Named(i)
               PROVE  Cardinality({n \in Place : n.dir = Month /\ xml[n] = i}) <= 1
    BY DEF NoDuplicates, Named
  <2> DEFINE S == {n \in Place : n.dir = Month /\ xml[n] = i}
  <2>1. PICK m : S \subseteq {m}
    BY AtMostOne
  <2> HIDE DEF S
  <2>2. IsFiniteSet({m}) /\ Cardinality({m}) = 1
    BY FS_Singleton
  <2>3. IsFiniteSet(S) /\ Cardinality(S) <= Cardinality({m})
    BY <2>1, <2>2, FS_Subset
  <2> QED
    BY <2>2, <2>3 DEF S
<1> QED
  BY <1>1, <1>2, OnceStep, Always, PTL DEF Spec

(* Whatever fails, races or is cut off, an invoice fills at most two       *)
(* places of the month, however often it is downloaded: leftovers do not   *)
(* pile up (invoiceWriter.ts:99-132).                                      *)
THEOREM HeldAtMostTwice ==
  Spec => [](\A i \in Invoice : Cardinality({n \in Place : n.dir = Month /\ xml[n] = i}) <= 2)
<1>1. ASSUME Inv, NEW i \in Invoice
      PROVE  Cardinality({n \in Place : n.dir = Month /\ xml[n] = i}) <= 2
  <2> DEFINE S == {n \in Place : n.dir = Month /\ xml[n] = i}
  <2> DEFINE short == Short(Base[i])
  <2> DEFINE long == Long(Base[i], i)
  <2>1. S \subseteq {short} \cup {long}
    <3> SUFFICES ASSUME NEW n \in Place, n.dir = Month, xml[n] = i PROVE n \in {short, long}
      OBVIOUS
    <3>1. Fits(n, i)
      BY <1>1, Distinct DEF Inv, FilesInv
    <3> QED
      BY <3>1, Distinct DEF Fits, Own
  <2> HIDE DEF S, short, long
  <2>2. IsFiniteSet({short}) /\ Cardinality({short}) = 1
    BY FS_Singleton
  <2>3. IsFiniteSet({short} \cup {long}) /\ Cardinality({short} \cup {long}) <= 2
    BY <2>2, FS_AddElement
  <2>4. IsFiniteSet(S) /\ Cardinality(S) <= Cardinality({short} \cup {long})
    BY <2>1, <2>3, FS_Subset
  <2>5. Cardinality(S) \in Nat /\ Cardinality({short} \cup {long}) \in Nat
    BY <2>3, <2>4, FS_CardinalityType
  <2>6. Cardinality(S) <= 2
    BY <2>3, <2>4, <2>5
  <2> QED
    BY <2>6 DEF S
<1>2. Inv => \A i \in Invoice : Cardinality({n \in Place : n.dir = Month /\ xml[n] = i}) <= 2
  BY <1>1
<1> QED
  BY <1>2, Always, PTL

(* The catch-up takes the invoice of a row for another one only where      *)
(* invoices share a directory, in the flat layout (notifier.ts,            *)
(* readCatchUpItem): in a directory of its own an invoice is alone.        *)
THEOREM OwnDirectoryIsShown ==
  Spec => [][\A i \in Invoice : alert'[i] \in {alert[i], i} \/ row[i].dir = Month]_vars
<1> DEFINE Told == \A i \in Invoice : alert'[i] \in {alert[i], i} \/ row[i].dir = Month
<1>1. Inv /\ [Next]_vars => [Told]_vars
  <2> SUFFICES ASSUME Inv, Next, NEW i \in Invoice, alert'[i] # alert[i], row[i].dir # Month
               PROVE  alert'[i] = i
    BY DEF vars
  <2>1. PICK k \in Invoice : readCatchUpItem(k)
    BY DEF Next, Write, getInvoice, CheckFiles, readStoredKsefNumber, pathExists, WriteXml,
           WriteMetadata, maybeWritePdf, upsertInvoice, FailWrite, Crash, repairXml,
           repairMissingInvoicePdfs, readMetadata, generateInvoicePdf, WriteRepaired,
           CrashRepair
  <2>2. PICK n \in Place : /\ n.dir = row[k].dir /\ xml[n] \in Unpaid
                           /\ alert' = [alert EXCEPT ![k] = xml[n]]
    BY <2>1 DEF readCatchUpItem
  <2>3. k = i /\ alert'[i] = xml[n] /\ xml[n] \in Invoice
    BY <2>2, FilesAssumption DEF Inv, TypeOK
  <2>4. row[i].dir = i
    BY <2>1, <2>3 DEF readCatchUpItem, Inv, TypeOK
  <2>5. n.dir \in {xml[n], Month}
    BY <2>3, FitsDir, Distinct DEF Inv, FilesInv
  <2> QED
    BY <2>2, <2>3, <2>4, <2>5, Distinct
<1>2. Spec => [][Told]_vars
  BY <1>1, Always, PTL DEF Spec
<1> QED
  BY <1>2
===============================================================================
