------------------------------- MODULE Intake -------------------------------
(***************************************************************************)
(* DocumentUploadService.upload: authorization, validation of a file       *)
(* against its name and declared type, the object, then the rows (document,*)
(* version, job, outbox event and audit record in one transaction), and    *)
(* the cleanup when the rows cannot be saved.  Uploads share nothing: keys *)
(* and identifiers are fresh; one upload is modelled.                      *)
(***************************************************************************)
EXTENDS Naturals, FiniteSets

CONSTANT MaxFaults   \* bound: exceptions of the services below and crashes

VARIABLES
    upload,   \* step of the request, its file and its answer
    object,   \* content stored under the upload's key, or NoObject
    rows,     \* the committed version row, or NoRows
    audits,   \* committed audit outcomes
    faults    \* faults so far, by kind

intakeVars == <<upload, object, rows, audits, faults>>

(* Contents as the sniffer and the extractors tell them apart: "zip" is an *)
(* archive without the parts of a DOCX, "binary" has NULs or is not UTF-8. *)
FileContents == {"pdf", "docx", "zip", "binary", "utf8", "nothing"}
Extensions   == {".pdf", ".docx", ".md", ".txt", ".exe"}
Declared     == {"generic", "pdf", "docx", "zip", "markdown", "plain", "html"}
Files        == [ext : Extensions, content : FileContents, declared : Declared, tooLarge : BOOLEAN]

Details == [e \in Extensions \ {".exe"} |->
    CASE e = ".pdf"  -> [source |-> "pdf",      media |-> "pdf"]
      [] e = ".docx" -> [source |-> "docx",     media |-> "docx"]
      [] e = ".md"   -> [source |-> "markdown", media |-> "markdown"]
      [] e = ".txt"  -> [source |-> "text",     media |-> "plain"]]

NoObject == "no object"
NoRows   == "no rows"
Fault(kind) ==
    /\ Cardinality(faults) < MaxFaults /\ kind \notin faults /\ faults' = faults \cup {kind}

Init ==
    /\ upload = [pc |-> "start"]
    /\ object = NoObject /\ rows = NoRows
    /\ audits = {} /\ faults = {}

-----------------------------------------------------------------------------
(* Mutant: any ZIP archive is taken for a DOCX. *)
SniffedByMagic(file) ==
    CASE file.content \in {"docx", "zip"} -> IF file.ext = ".docx" THEN "docx" ELSE "zip"
      [] file.content = "pdf"    -> "pdf"
      [] file.content = "binary" -> "generic"
      [] OTHER -> IF file.ext = ".md" THEN "markdown" ELSE "plain"

(* An archive is DOCX only with that name and those parts. *)
Sniffed(file) ==
    CASE file.content \in {"docx", "zip"} ->
           IF file.ext = ".docx" /\ file.content = "docx" THEN "docx" ELSE "zip"
      [] file.content = "pdf"    -> "pdf"
      [] file.content = "binary" -> "generic"
      [] OTHER -> IF file.ext = ".md" THEN "markdown" ELSE "plain"

DeclaredTypes(file) ==
    {"generic", Details[file.ext].media}
    \cup (IF Details[file.ext].source \in {"markdown", "text"} THEN {"plain"} ELSE {})
    \cup (IF Details[file.ext].source = "docx" THEN {"zip"} ELSE {})

Valid(file) ==
    /\ file.content # "nothing" /\ ~file.tooLarge
    /\ file.ext \in DOMAIN Details
    /\ Sniffed(file) = Details[file.ext].media
    /\ file.declared \in DeclaredTypes(file)

Goto(label) == upload' = [upload EXCEPT !.pc = label]

(* _record_failure, and the error answer; its commit may fail too. *)
FailWith(status) ==
    /\ upload' = [pc |-> "answered", status |-> status]
    /\ \/ audits' = audits \cup {"failure"} /\ UNCHANGED faults
       \/ UNCHANGED audits /\ Fault("audit")

Receive(file) ==
    /\ upload.pc = "start"
    /\ IF Valid(file)
       THEN upload' = [pc |-> "put", file |-> file] /\ UNCHANGED <<audits, faults>>
       ELSE FailWith("rejected")
    /\ UNCHANGED <<object, rows>>

Forbid ==
    /\ upload.pc = "start" /\ FailWith("forbidden")
    /\ UNCHANGED <<object, rows>>

PutObject ==
    /\ upload.pc = "put" /\ Goto("create")
    /\ object' = upload.file.content
    /\ UNCHANGED <<rows, audits, faults>>

(* put raises before it stored the object, or ("put late") after. *)
PutFails ==
    /\ upload.pc = "put"
    /\ \/ Fault("put") /\ UNCHANGED object
       \/ Fault("put late") /\ object' = upload.file.content
    /\ upload' = [upload EXCEPT !.pc = "put failed"]
    /\ UNCHANGED <<rows, audits>>

PutFailed ==
    /\ upload.pc = "put failed" /\ FailWith("not stored")
    /\ UNCHANGED <<object, rows>>

(* The flushes of the rows, the outbox event and the audit record. *)
StageRows ==
    /\ upload.pc = "create"
    /\ \/ Goto("commit") /\ UNCHANGED faults
       \/ Goto("cleanup") /\ Fault("flush")
    /\ UNCHANGED <<object, rows, audits>>

(* COMMIT takes effect and is answered, is answered with an exception      *)
(* although it took effect ("commit late"), or fails.                      *)
Commit ==
    /\ upload.pc = "commit"
    /\ \/ /\ rows' = Details[upload.file.ext].source /\ audits' = audits \cup {"success"}
          /\ \/ Goto("committed") /\ UNCHANGED faults
             \/ Goto("cleanup") /\ Fault("commit late")
       \/ Goto("cleanup") /\ Fault("commit") /\ UNCHANGED <<rows, audits>>
    /\ UNCHANGED object

Accept ==
    /\ upload.pc = "committed" /\ upload' = [pc |-> "answered", status |-> "accepted"]
    /\ UNCHANGED <<object, rows, audits, faults>>

(* Mutant: the object stays when the rows were not saved. *)
CleanupLeaves ==
    /\ upload.pc = "cleanup" /\ Goto("cleaned")
    /\ UNCHANGED <<object, rows, audits, faults>>

(* Rollback, then the object is deleted, whatever became of the rows. *)
Cleanup ==
    /\ upload.pc = "cleanup" /\ Goto("cleaned")
    /\ \/ object' = NoObject /\ UNCHANGED faults
       \/ UNCHANGED object /\ Fault("cleanup")
    /\ UNCHANGED <<rows, audits>>

Cleaned ==
    /\ upload.pc = "cleaned" /\ FailWith("not registered")
    /\ UNCHANGED <<object, rows>>

Crash ==
    /\ upload.pc \notin {"start", "answered"} /\ Fault("crash")
    /\ upload' = [pc |-> "answered", status |-> "none"]
    /\ UNCHANGED <<object, rows, audits>>

Next ==
    \/ \E file \in Files : Receive(file)
    \/ Forbid \/ PutObject \/ PutFails \/ PutFailed \/ StageRows \/ Commit \/ Accept
    \/ Cleanup \/ Cleaned \/ Crash

Spec == Init /\ [][Next]_intakeVars

-----------------------------------------------------------------------------
(* What the extractor of a source type can decode. *)
Decodable(source) == IF source \in {"markdown", "text"} THEN {"utf8"} ELSE {source}

(* The inductive strengthening of UploadHonest: what the object store and  *)
(* the database hold at every step of a request for a file that is valid.  *)
Statuses == {"accepted", "rejected", "forbidden", "not stored", "not registered", "none"}
Underway == [pc : {"put", "put failed", "create", "commit", "committed", "cleanup", "cleaned"},
             file : {file \in Files : Valid(file)}]
Uploaded == upload.file.content

StepInv ==
    /\ upload.pc \in {"start", "put"} => object = NoObject
    /\ upload.pc \in {"start", "put", "put failed", "create", "commit"} => rows = NoRows
    /\ upload.pc = "put failed" /\ object # NoObject => "put late" \in faults
    /\ upload.pc \in {"create", "commit", "committed", "cleanup"} => object = Uploaded
    /\ upload.pc = "committed" => rows = Details[upload.file.ext].source
    /\ upload.pc \in {"cleanup", "cleaned"} /\ rows # NoRows => "commit late" \in faults
    /\ upload.pc = "cleaned" /\ object # NoObject => "cleanup" \in faults

UploadType == upload \in {[pc |-> "start"]} \cup Underway \cup [pc : {"answered"}, status : Statuses]

(* An accepted upload has its rows and an object its extractor can decode; *)
(* a refused one has left neither, unless an answer of the object store or *)
(* the database was wrong, the cleanup failed or the process died; and     *)
(* rows without their object need a COMMIT that was answered wrongly.      *)
UploadHonest ==
    /\ upload.pc = "answered" =>
         IF upload.status = "accepted" THEN rows # NoRows /\ object \in Decodable(rows)
         ELSE /\ object # NoObject => faults \cap {"put late", "cleanup", "crash"} # {}
              /\ rows # NoRows => faults \cap {"commit late", "crash"} # {}
    /\ rows # NoRows /\ object = NoObject => "commit late" \in faults

UploadInv == UploadType /\ StepInv /\ UploadHonest
=============================================================================
