--------------------------- MODULE InvestorDocuments ---------------------------
(***************************************************************************)
(* The documents of one investor: their upload by the investor, by staff   *)
(* and by the publication of a signed agreement, the KYC pack made of      *)
(* them, their removal and retraction, and the erasure of the investor.    *)
(*                                                                         *)
(* An upload checks its gates on unlocked reads (CheckUpload), stores the  *)
(* file (PutObject), and inserts the row in a transaction that locks the   *)
(* investor and checks the gates again (InsertDocument).  If the           *)
(* transaction fails the file is removed.                                  *)
(*                                                                         *)
(* Erasure lists the documents without a lock (LoadErasure), deletes rows  *)
(* in a transaction (EraseRows), and then removes the listed files one by  *)
(* one (UnlinkFile).                                                       *)
(*                                                                         *)
(* Not modelled: who may act on this investor (InterestConfirm does), the  *)
(* onboarding and account gates (no code takes them back), titles, types   *)
(* and contents of files, and the personal columns erasure overwrites.     *)
(***************************************************************************)
EXTENDS Naturals, FiniteSets

CONSTANTS
    Document,    \* storage keys, each with the row that may come to exist
    KindOf,      \* which operation uploads it
    CategoryOf,  \* documents.category
    Required,    \* categories submitKycForReview asks for
    Cap,         \* a KYC upload is refused from this many active documents on
    Request      \* slots for requests in flight at the same time

Kind == {"kyc", "staff", "signed"}

ASSUME DocumentsAssumption ==
    /\ KindOf \in [Document -> Kind]
    /\ Cap \in Nat
    /\ IsFiniteSet(Document)

KycStatus == {"not_started", "submitted", "under_review", "approved", "rejected"}
Editable == {"not_started", "rejected"}
KycTransitions == {<<"submitted", "under_review">>, <<"submitted", "approved">>,
                   <<"submitted", "rejected">>, <<"under_review", "approved">>,
                   <<"under_review", "rejected">>}

VARIABLES
    kyc,      \* investors.kyc_status
    row,      \* documents: the row of a storage key, "absent" before there is one
    files,    \* the files in the vault
    erased,   \* investors.email is the erased alias; "held" under a legal hold
    unheard,  \* rows that were inserted and whose request heard of a failure
    req       \* what each request in flight remembers

vars == <<kyc, row, files, erased, unheard, req>>

Idle == [op |-> "idle"]
RequestState ==
    {Idle}
      \cup [op : {"checked", "stored", "remove"}, document : Document]
      \cup [op : {"erase"}, hold : BOOLEAN, listed : SUBSET Document]
      \cup [op : {"unlink"}, listed : SUBSET Document]

TypeOK ==
    /\ kyc \in KycStatus
    /\ row \in [Document -> {"absent", "active", "retracted", "deleted"}]
    /\ files \subseteq Document
    /\ erased \in {"no", "held", "full"}
    /\ unheard \subseteq Document
    /\ req \in [Request -> RequestState]

-----------------------------------------------------------------------------
Active == {d \in Document : row[d] = "active"}
Kept == {d \in Document : row[d] \in {"active", "retracted"}}

\* The gates of a KYC upload; staff uploads and signed copies have none here.
MayUpload(d) ==
    KindOf[d] = "kyc" => kyc \in Editable /\ Cardinality(Active) < Cap

PackIsComplete == Required \subseteq {CategoryOf[d] : d \in Active}

Begin(r, record) == req[r] = Idle /\ req' = [req EXCEPT ![r] = record]
Finish(r) == req' = [req EXCEPT ![r] = Idle]

-----------------------------------------------------------------------------
Init ==
    /\ kyc = "not_started"
    /\ row = [d \in Document |-> "absent"]
    /\ files = {}
    /\ erased = "no"
    /\ unheard = {}
    /\ req = [r \in Request |-> Idle]

(* uploadKycDocument, assistedKycUpload, adminUploadDocument and            *)
(* storeAndPublishSignedContractDocument                                    *)

\* The gates on unlocked reads, and a storage key nobody else has.
CheckUpload(r, d) ==
    /\ row[d] = "absent" /\ d \notin files
    /\ \A q \in Request : req[q].op \in {"checked", "stored"} => req[q].document # d
    /\ MayUpload(d)
    /\ Begin(r, [op |-> "checked", document |-> d])
    /\ UNCHANGED <<kyc, row, files, erased, unheard>>

PutObject(r) ==
    /\ req[r].op = "checked"
    /\ files' = files \cup {req[r].document}
    /\ req' = [req EXCEPT ![r] = [op |-> "stored", document |-> req[r].document]]
    /\ UNCHANGED <<kyc, row, erased, unheard>>

\* MUTANT: only the status is checked again, the files are not recounted.
Insert_NotRecounted(d) ==
    /\ KindOf[d] = "kyc" => kyc \in Editable
    /\ row' = [row EXCEPT ![d] = "active"]

\* Under the investor lock: the gates again, and the row.
Insert(d) ==
    /\ MayUpload(d)
    /\ row' = [row EXCEPT ![d] = "active"]

InsertDocument(r) ==
    /\ req[r].op = "stored"
    /\ Insert(req[r].document)
    /\ Finish(r)
    /\ UNCHANGED <<kyc, files, erased, unheard>>

\* The transaction commits, the answer is lost, and the file is removed as
\* after any failure.
InsertUnheard(r) ==
    LET d == req[r].document
    IN  /\ req[r].op = "stored"
        /\ Insert(d)
        /\ files' = files \ {d}
        /\ unheard' = unheard \cup {d}
        /\ Finish(r)
        /\ UNCHANGED <<kyc, erased>>

\* A request is rejected by a recheck, fails, or its process dies.  The file
\* of a failed upload is removed, unless that fails too; files that an erasure
\* has not got to yet stay.
RequestFails(r) ==
    /\ req[r] # Idle
    /\ Finish(r)
    /\ \/ UNCHANGED files
       \/ req[r].op = "stored" /\ files' = files \ {req[r].document}
    /\ UNCHANGED <<kyc, row, erased, unheard>>

-----------------------------------------------------------------------------
(* removeKycDocument and retractDocument                                    *)

\* The status in the session's investor row; which document it is, and
\* whether it exists, is not looked at yet.
LoadRemoval(r, d) ==
    /\ kyc \in Editable
    /\ Begin(r, [op |-> "remove", document |-> d])
    /\ UNCHANGED <<kyc, row, files, erased, unheard>>

\* MUTANT: the removal relies on the status read before the lock.
RemoveKycDocument_StatusNotReread(r) ==
    /\ req[r].op = "remove"
    /\ row[req[r].document] = "active"
    /\ row' = [row EXCEPT ![req[r].document] = "retracted"]
    /\ Finish(r)
    /\ UNCHANGED <<kyc, files, erased, unheard>>

RemoveKycDocument(r) ==
    /\ req[r].op = "remove"
    /\ kyc \in Editable
    /\ row[req[r].document] = "active"
    /\ row' = [row EXCEPT ![req[r].document] = "retracted"]
    /\ Finish(r)
    /\ UNCHANGED <<kyc, files, erased, unheard>>

\* MUTANT: a retraction deletes the row.
RetractDocument_Deletes(d) ==
    /\ row[d] = "active"
    /\ row' = [row EXCEPT ![d] = "deleted"]
    /\ UNCHANGED <<kyc, files, erased, unheard, req>>

\* A super admin's guarded UPDATE, at any KYC status.  What was read before it
\* is implied by the guard.
RetractDocument(d) ==
    /\ row[d] = "active"
    /\ row' = [row EXCEPT ![d] = "retracted"]
    /\ UNCHANGED <<kyc, files, erased, unheard, req>>

-----------------------------------------------------------------------------
(* submitKycForReview and setKycStatus                                      *)

\* Everything is read under the investor lock, and the rows of the pack are
\* locked against retraction until the commit.
SubmitKycForReview ==
    /\ kyc \in Editable
    /\ PackIsComplete
    /\ kyc' = "submitted"
    /\ UNCHANGED <<row, files, erased, unheard, req>>

\* A decision does not look at the pack again.
SetKycStatus(k) ==
    /\ <<kyc, k>> \in KycTransitions
    /\ kyc' = k
    /\ UNCHANGED <<row, files, erased, unheard, req>>

-----------------------------------------------------------------------------
(* eraseInvestorAction and eraseInvestorPii                                 *)

\* MUTANT: files go before rows.
LoadErasure_FilesFirst(r, hold) ==
    /\ erased = "no"
    /\ Begin(r, [op |-> "erase", hold |-> hold, listed |-> IF hold THEN {} ELSE Kept])
    /\ files' = IF hold THEN files ELSE files \ Kept
    /\ UNCHANGED <<kyc, row, erased, unheard>>

\* The unlocked reads: not erased yet, and what documents there are.
LoadErasure(r, hold) ==
    /\ erased = "no"
    /\ Begin(r, [op |-> "erase", hold |-> hold, listed |-> IF hold THEN {} ELSE Kept])
    /\ UNCHANGED <<kyc, row, files, erased, unheard>>

\* contracts.signed_document_id refers to the rows of signed copies, so a
\* DELETE that includes one fails, and the erasure with it.
Deletable == \A d \in Kept : KindOf[d] # "signed"

\* Under the investor lock: unless the investor has been erased meanwhile, all
\* rows go if any were listed.
EraseRows(r) ==
    /\ req[r].op = "erase"
    /\ erased = "no"
    /\ erased' = IF req[r].hold THEN "held" ELSE "full"
    /\ IF req[r].listed = {}
       THEN UNCHANGED row
       ELSE /\ Deletable
            /\ row' = [d \in Document |-> IF d \in Kept THEN "deleted" ELSE row[d]]
    /\ req' = [req EXCEPT ![r] = [op |-> "unlink", listed |-> req[r].listed]]
    /\ UNCHANGED <<kyc, files, unheard>>

\* The next listed file is removed, or its removal fails and is logged.
UnlinkFile(r, d) ==
    /\ req[r].op = "unlink"
    /\ d \in req[r].listed
    /\ req' = [req EXCEPT ![r] = [op |-> "unlink", listed |-> req[r].listed \ {d}]]
    /\ files' \in {files, files \ {d}}
    /\ UNCHANGED <<kyc, row, erased, unheard>>

-----------------------------------------------------------------------------
RequestStep(r) ==
    \/ \E d \in Document : CheckUpload(r, d) \/ LoadRemoval(r, d) \/ UnlinkFile(r, d)
    \/ PutObject(r)
    \/ InsertDocument(r)
    \/ InsertUnheard(r)
    \/ RemoveKycDocument(r)
    \/ \E hold \in BOOLEAN : LoadErasure(r, hold)
    \/ EraseRows(r)
    \/ RequestFails(r)

Next ==
    \/ \E r \in Request : RequestStep(r)
    \/ \E d \in Document : RetractDocument(d)
    \/ SubmitKycForReview
    \/ \E k \in KycStatus : SetKycStatus(k)

Spec == Init /\ [][Next]_vars

-----------------------------------------------------------------------------
(* Properties                                                              *)

\* A row's file is in the vault, whatever uploads failed and whatever erasures
\* stopped half way, unless the commit of the row itself was not heard of.
RowsHaveFiles == Kept \subseteq files \cup unheard

\* KYC uploads that all saw room leave the investor at most the cap.
WithinCap == Cardinality({d \in Active : KindOf[d] = "kyc"}) <= Cap

\* From submission on, and once approved, the pack is what was submitted: no
\* upload or removal that began before lands in it.  Only staff add to it, and
\* only a retraction or an erasure takes from it.
PackIsFrozen ==
    [][kyc \notin Editable =>
         /\ \A d \in Active' \ Active : KindOf[d] # "kyc"
         /\ \A d \in Active \ Active' :
              RetractDocument(d) \/ \E r \in Request : EraseRows(r)]_vars

\* What was decided on stays on file: for every category that was required a
\* row remains, retracted perhaps, unless the investor was erased.
DecidedPackIsKept ==
    kyc \notin Editable /\ erased # "full" =>
        \A c \in Required : \E d \in Kept : CategoryOf[d] = c

\* An investor is erased once.  An erasure that lost the race changes nothing,
\* and one under a legal hold is not overtaken by one without.
ErasedOnce ==
    [][erased # "no" =>
         /\ erased' = erased
         /\ \A d \in Document : row'[d] = "deleted" => row[d] = "deleted"]_vars

\* The signed copy of an agreement is never lost to an erasure.
SignedCopiesStay ==
    [][\A d \in Kept : KindOf[d] = "signed" => d \in Kept']_vars

\* What eraseInvestorPii says it does: without a legal hold it deletes the
\* investor's document rows and their vault files.  It does not hold.
ErasureCoversAllDocuments ==
    [][\A r \in Request :
         EraseRows(r) /\ ~req[r].hold =>
             /\ Kept' = {}
             /\ Kept \cap files \subseteq req[r].listed]_vars

=============================================================================
