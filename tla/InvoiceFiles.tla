----------------------------- MODULE InvoiceFiles -----------------------------
(***************************************************************************)
(* The files of one month of invoices of one organization: how runs name   *)
(* and write them (core/invoiceWriter.ts, core/syncSubjectRunner.ts,       *)
(* core/syncService.ts), how `sync --repair-missing-pdfs` adds missing     *)
(* PDFs (core/pdfRepairService.ts), and how the catch-up finds an invoice  *)
(* by its row (notifications/notifier.ts).                                 *)
(*                                                                         *)
(* In the default layout an invoice has a directory of its own; in the     *)
(* flat layout (--flat-sync) all share the directory of the month, under   *)
(* the name of the seller and the number of the invoice, and an invoice    *)
(* whose name is taken adds its KSeF number.  Files are replaced           *)
(* atomically (utils/paths.ts); every step between two awaits is one       *)
(* action.                                                                 *)
(***************************************************************************)
EXTENDS Integers, FiniteSets

CONSTANTS
  None,
  Month,      \* the directory of the month
  Proc,       \* concurrent runs
  Invoice,    \* KSeF numbers
  BaseName,
  Base,       \* the name an invoice would have: seller and number
  Overlong,   \* names so long that a KSeF number appended to them is cut off
  Unpaid,     \* the invoices that ask for a payment
  MaxJobs     \* bound on the invoices that runs take up

ASSUME FilesAssumption ==
  /\ Base \in [Invoice -> BaseName]
  /\ Overlong \subseteq BaseName /\ Unpaid \subseteq Invoice
  /\ None \notin Invoice \cup BaseName \cup {Month}
  /\ Month \notin Invoice
  /\ MaxJobs \in Nat

Maybe(S) == S \cup {None}

(* Where an XML may be; its metadata and its PDF are beside it.            *)
Own(i)      == [dir |-> i, base |-> Base[i], number |-> None]
Short(b)    == [dir |-> Month, base |-> b, number |-> None]
Long(b, i)  == [dir |-> Month, base |-> b, number |-> i]

Place ==
  {Own(i) : i \in Invoice} \cup {Short(b) : b \in BaseName}
    \cup {Long(b, i) : b \in BaseName, i \in Invoice}

VARIABLES
  xml,      \* whose XML is at a place
  meta,     \* whose metadata
  pdf,      \* whose PDF: the invoice that is rendered, the number printed on it
  row,      \* the invoices row of each invoice
  writer,   \* what each run is writing
  repair,   \* what the repair command is doing
  alert,    \* the invoice whose data the catch-up has sent for an invoice
  jobs,     \* invoices taken up so far
  raced,    \* history: the names that two runs have resolved at the same time
  broken    \* history: invoices left without metadata by a failure or a crash

vars == <<xml, meta, pdf, row, writer, repair, alert, jobs, raced, broken>>

files == <<xml, meta, pdf>>

Row == [status: {"absent", "downloaded", "failed"}, dir: Maybe(Invoice \cup {Month})]
NoRow == [status |-> "absent", dir |-> None]

Picture == [shows: Invoice, number: Invoice]

Writer ==
  [pc: {"files", "resolve", "stat", "xml", "meta", "pdf", "row"},
   invoice: Invoice,
   seen: Row,                \* `existing`
   place: Maybe(Place)]

(* None stands for what is not there, never for a run.                     *)
ASSUME WriterAssumption == None \notin Writer

Repair ==
  [pc: {"meta"}, place: Place, number: {None}]
    \cup [pc: {"xml"}, place: Place, number: Invoice]
    \cup [pc: {"write"}, place: Place, picture: Picture]

TypeOK ==
  /\ xml \in [Place -> Maybe(Invoice)] /\ meta \in [Place -> Maybe(Invoice)]
  /\ pdf \in [Place -> Maybe(Picture)]
  /\ row \in [Invoice -> Row]
  /\ \A i \in Invoice : row[i].status = "downloaded" => row[i].dir \in {i, Month}
  /\ writer \in [Proc -> Maybe(Writer)]
  /\ repair \in Maybe(Repair)
  /\ alert \in [Invoice -> Maybe(Invoice)]
  /\ jobs \in 0..MaxJobs /\ raced \subseteq BaseName /\ broken \subseteq Invoice

Init ==
  /\ xml = [n \in Place |-> None] /\ meta = [n \in Place |-> None]
  /\ pdf = [n \in Place |-> None]
  /\ row = [i \in Invoice |-> NoRow]
  /\ writer = [p \in Proc |-> None] /\ repair = None
  /\ alert = [i \in Invoice |-> None]
  /\ jobs = 0 /\ raced = {} /\ broken = {}

-----------------------------------------------------------------------------
(* The names of the flat layout *)

(* Mutant: only the PDF is looked for.                                     *)
FreeOfPdf(n) == pdf[n] = None

Free(n) == xml[n] = None /\ pdf[n] = None /\ meta[n] = None

(* sanitizeFileName cuts names to 180 characters.                          *)
WithNumber(i) ==
  IF Base[i] \in Overlong THEN Short(Base[i]) ELSE Long(Base[i], i)

(* Mutant: every invoice gets the name it would have.                      *)
resolveFlatFileBaseAnyway(i) == Short(Base[i])

resolveFlatFileBase(i) == IF Free(Short(Base[i])) THEN Short(Base[i]) ELSE WithNumber(i)

-----------------------------------------------------------------------------
(* A run writes an invoice *)

At(p, pc) == writer[p] # None /\ writer[p].pc = pc
Goto(p, w) == writer' = [writer EXCEPT ![p] = w]

(* Whether a run may be about to take the name b.                          *)
Naming(p, b) ==
  /\ \/ At(p, "stat")
     \/ (At(p, "xml") \/ At(p, "meta")) /\ writer[p].place.dir = Month
  /\ Base[writer[p].invoice] = b

getInvoice(p, i) ==
  /\ writer[p] = None /\ jobs < MaxJobs
  /\ jobs' = jobs + 1
  /\ Goto(p, [pc |-> "files", invoice |-> i, seen |-> row[i], place |-> None])
  /\ UNCHANGED <<files, row, repair, alert, raced, broken>>

hasValidInvoiceXml(dir, i) == \E n \in Place : n.dir = dir /\ xml[n] = i

(* What has been downloaded and is still there is skipped, unless forced:  *)
(* --redownload-all and --redownload, the direct download included.        *)
CheckFiles(p, flat, force) ==
  LET w == writer[p] IN
  /\ At(p, "files")
  /\ Goto(p,
       IF w.seen.status = "downloaded" /\ ~force /\ hasValidInvoiceXml(w.seen.dir, w.invoice)
       THEN None
       ELSE IF flat THEN [w EXCEPT !.pc = "resolve"]
       ELSE [w EXCEPT !.pc = "xml", !.place = Own(w.invoice)])
  /\ UNCHANGED <<files, row, repair, alert, jobs, raced, broken>>

(* Mutant: the files of an earlier download are not recognized.            *)
readStoredKsefNumberNot(p) ==
  LET w == writer[p]  b == Base[w.invoice] IN
  /\ At(p, "resolve")
  /\ Goto(p, [w EXCEPT !.pc = "stat"])
  /\ raced' = raced \cup {c \in {b} : \E q \in Proc \ {p} : Naming(q, c)}
  /\ UNCHANGED <<files, row, repair, alert, jobs, broken>>

(* canUseFlatFileBase: a name whose metadata is this invoice's is its own. *)
readStoredKsefNumber(p) ==
  LET w == writer[p]  b == Base[w.invoice] IN
  /\ At(p, "resolve")
  /\ Goto(p, IF meta[Short(b)] = w.invoice
             THEN [w EXCEPT !.pc = "xml", !.place = Short(b)]
             ELSE [w EXCEPT !.pc = "stat"])
  /\ raced' = raced \cup {c \in {b} : \E q \in Proc \ {p} : Naming(q, c)}
  /\ UNCHANGED <<files, row, repair, alert, jobs, broken>>

(* canUseFlatFileBase: otherwise the name must be nobody's.                *)
pathExists(p) ==
  LET w == writer[p] IN
  /\ At(p, "stat")
  /\ Goto(p, [w EXCEPT !.pc = "xml", !.place = resolveFlatFileBase(w.invoice)])
  /\ UNCHANGED <<files, row, repair, alert, jobs, raced, broken>>

WriteXml(p) ==
  LET w == writer[p] IN
  /\ At(p, "xml")
  /\ xml' = [xml EXCEPT ![w.place] = w.invoice]
  /\ Goto(p, [w EXCEPT !.pc = "meta"])
  /\ UNCHANGED <<meta, pdf, row, repair, alert, jobs, raced, broken>>

WriteMetadata(p) ==
  LET w == writer[p] IN
  /\ At(p, "meta")
  /\ meta' = [meta EXCEPT ![w.place] = w.invoice]
  /\ Goto(p, [w EXCEPT !.pc = "pdf"])
  /\ UNCHANGED <<xml, pdf, row, repair, alert, jobs, raced, broken>>

(* A PDF that cannot be rendered, in time or at all, is left out.          *)
maybeWritePdf(p, ok) ==
  LET w == writer[p] IN
  /\ At(p, "pdf")
  /\ pdf' = IF ok THEN [pdf EXCEPT ![w.place] = [shows |-> w.invoice, number |-> w.invoice]]
            ELSE pdf
  /\ Goto(p, [w EXCEPT !.pc = "row"])
  /\ UNCHANGED <<xml, meta, row, repair, alert, jobs, raced, broken>>

upsertInvoice(p) ==
  LET w == writer[p] IN
  /\ At(p, "row")
  /\ row' = [row EXCEPT ![w.invoice] = [status |-> "downloaded", dir |-> w.place.dir]]
  /\ Goto(p, None)
  /\ UNCHANGED <<files, repair, alert, jobs, raced, broken>>

(* An invoice whose XML is there, its metadata is not.                     *)
Broken(w) == {i \in {w.invoice} : w.pc = "meta" /\ meta[w.place] # i}

(* The catch block; maybeWritePdf throws nothing.                          *)
FailWrite(p) ==
  LET w == writer[p] IN
  /\ \E pc \in {"resolve", "stat", "xml", "meta", "row"} : At(p, pc)
  /\ row' = [row EXCEPT ![w.invoice] = [status |-> "failed", dir |-> w.seen.dir]]
  /\ broken' = broken \cup Broken(w)
  /\ Goto(p, None)
  /\ UNCHANGED <<files, repair, alert, jobs, raced>>

(* The process dies, or a direct download fails.                           *)
Crash(p) ==
  /\ writer[p] # None
  /\ broken' = broken \cup Broken(writer[p])
  /\ Goto(p, None)
  /\ UNCHANGED <<files, row, repair, alert, jobs, raced>>

-----------------------------------------------------------------------------
(* sync --repair-missing-pdfs *)

repairXml(n) ==
  /\ repair = None
  /\ xml[n] # None /\ pdf[n] = None
  /\ repair' = [pc |-> "meta", place |-> n, number |-> None]
  /\ UNCHANGED <<files, row, writer, alert, jobs, raced, broken>>

(* Mutant: any metadata of the directory is good enough.                   *)
readMetadataOfDirectory ==
  /\ repair # None /\ repair.pc = "meta"
  /\ \E n \in Place :
       /\ n.dir = repair.place.dir
       /\ repair' = IF meta[n] = None THEN None
                    ELSE [repair EXCEPT !.pc = "xml", !.number = meta[n]]
  /\ UNCHANGED <<files, row, writer, alert, jobs, raced, broken>>

(* metadata.json in a directory of one invoice, else the file of that name.*)
readMetadata ==
  /\ repair # None /\ repair.pc = "meta"
  /\ repair' = IF meta[repair.place] = None THEN None
               ELSE [repair EXCEPT !.pc = "xml", !.number = meta[repair.place]]
  /\ UNCHANGED <<files, row, writer, alert, jobs, raced, broken>>

generateInvoicePdf(ok) ==
  /\ repair # None /\ repair.pc = "xml"
  /\ repair' = IF ok THEN [pc |-> "write", place |-> repair.place,
                           picture |-> [shows |-> xml[repair.place],
                                        number |-> repair.number]]
               ELSE None
  /\ UNCHANGED <<files, row, writer, alert, jobs, raced, broken>>

WriteRepaired ==
  /\ repair # None /\ repair.pc = "write"
  /\ pdf' = [pdf EXCEPT ![repair.place] = repair.picture]
  /\ repair' = None
  /\ UNCHANGED <<xml, meta, row, writer, alert, jobs, raced, broken>>

CrashRepair ==
  /\ repair # None /\ repair' = None
  /\ UNCHANGED <<files, row, writer, alert, jobs, raced, broken>>

-----------------------------------------------------------------------------
(* The catch-up *)

(* names.find: the first XML in the order of the names, which are data.    *)
readCatchUpItem(i) ==
  /\ row[i].status = "downloaded" /\ alert[i] = None
  /\ \E n \in Place :
       /\ n.dir = row[i].dir /\ xml[n] \in Unpaid
       /\ alert' = [alert EXCEPT ![i] = xml[n]]
  /\ UNCHANGED <<files, row, writer, repair, jobs, raced, broken>>

-----------------------------------------------------------------------------

Write(p) ==
  \/ \E i \in Invoice : getInvoice(p, i)
  \/ \E flat, force \in BOOLEAN : CheckFiles(p, flat, force)
  \/ readStoredKsefNumber(p) \/ pathExists(p)
  \/ WriteXml(p) \/ WriteMetadata(p) \/ upsertInvoice(p)
  \/ \E ok \in BOOLEAN : maybeWritePdf(p, ok)

repairMissingInvoicePdfs ==
  \/ \E n \in Place : repairXml(n)
  \/ readMetadata \/ WriteRepaired
  \/ \E ok \in BOOLEAN : generateInvoicePdf(ok)

Next ==
  \/ \E p \in Proc : Write(p) \/ FailWrite(p) \/ Crash(p)
  \/ repairMissingInvoicePdfs \/ CrashRepair
  \/ \E i \in Invoice : readCatchUpItem(i)

Spec == Init /\ [][Next]_vars

-----------------------------------------------------------------------------
(* A place whose name nobody else can have resolved meanwhile.             *)
Clean(n) == n.dir = Month => n.base \notin raced \cup Overlong

(* An invoice that is recorded as downloaded is found where its row says,  *)
(* with the metadata that a repair of its PDF needs, whichever layouts it  *)
(* has been written in, and wherever writers have failed or died           *)
(* (invoiceWriter.ts:99-132, 278-338).                                     *)
NothingIsLost ==
  \A i \in Invoice :
    row[i].status = "downloaded"
      /\ (row[i].dir = Month => Base[i] \notin raced \cup Overlong) =>
      \E n \in Place : n.dir = row[i].dir /\ xml[n] = i /\ meta[n] = i

(* The invoice that has got a name keeps it, and its XML (README:569).     *)
FirstNameStays ==
  [][\A n \in Place : meta[n] # None /\ Clean(n)' => meta'[n] = meta[n] /\ xml'[n] = meta[n]]_vars

(* The flat layout holds an invoice once, however often it is downloaded,  *)
(* unless a failure has left its XML without metadata                      *)
(* (invoiceWriter.ts:99-121).                                              *)
NoDuplicates ==
  \A i \in Invoice \ broken :
    Base[i] \notin raced \cup Overlong =>
      Cardinality({n \in Place : n.dir = Month /\ xml[n] = i}) <= 1

(* A PDF shows the XML beside it, under that invoice's KSeF number,        *)
(* whether its run or a repair has rendered it                             *)
(* (pdfRepairService.ts:94-146).                                           *)
PdfIsOfItsXml ==
  \A n \in Place :
    pdf[n] # None /\ Clean(n) => pdf[n] = [shows |-> xml[n], number |-> xml[n]]

(* The details of an alert are those of its invoice (README:611-620).      *)
AlertShowsItsInvoice == \A i \in Invoice : alert[i] \in {None, i}
=============================================================================
