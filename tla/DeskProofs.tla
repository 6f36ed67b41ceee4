------------------------------ MODULE DeskProofs ------------------------------
(***************************************************************************)
(* What the staff's pages and the documents of an investor keep true.      *)
(*                                                                         *)
(* Documents: for any documents, cap and number of concurrent requests.    *)
(* The inductive invariant adds to the type and the three state properties *)
(* what a request in flight may rely on: nobody else has its storage key,  *)
(* a stored file is still there, and a file an erasure is about to remove  *)
(* has lost its row.                                                       *)
(*                                                                         *)
(* Desk: for any staff, books, records left behind, limits and number of   *)
(* writes.  The inductive invariant says what a page may rely on while it  *)
(* is put together and everybody writes (BookKept) and that no selection   *)
(* outlives its rows (RowsKept).                                           *)
(***************************************************************************)
EXTENDS InvestorDocuments, StaffDesk, FiniteSetTheorems, SequenceTheorems, TLAPS

-----------------------------------------------------------------------------
(* The documents of an investor                                             *)

Uploading(r) == req[r].op \in {"checked", "stored"}

\* The key of an upload has no row yet and belongs to that upload alone; once
\* stored, its file is in the vault.
UploadsOwnTheirKey ==
    \A r \in Request :
        Uploading(r) =>
            /\ row[req[r].document] = "absent"
            /\ req[r].op = "stored" => req[r].document \in files
            /\ \A q \in Request \ {r} :
                 Uploading(q) => req[q].document # req[r].document

\* What an erasure listed had a row, and has lost it once files are removed.
ErasuresListRows ==
    \A r \in Request :
        /\ req[r].op = "erase" =>
             /\ req[r].hold => req[r].listed = {}
             /\ \A d \in req[r].listed : row[d] # "absent"
        /\ req[r].op = "unlink" => \A d \in req[r].listed : row[d] = "deleted"

IInv ==
    /\ TypeOK
    /\ UploadsOwnTheirKey
    /\ ErasuresListRows
    /\ RowsHaveFiles
    /\ WithinCap
    /\ DecidedPackIsKept

-----------------------------------------------------------------------------
\* Type correctness, one request at a time: what the fields of a request are.
LEMMA RequestShape ==
    ASSUME TypeOK, NEW r \in Request
    PROVE  /\ req[r] \in RequestState
           /\ req[r].op \in {"checked", "stored", "remove"} => req[r].document \in Document
           /\ req[r].op \in {"erase", "unlink"} => req[r].listed \subseteq Document
           /\ req[r].op = "erase" => req[r].hold \in BOOLEAN
BY DEF TypeOK, RequestState, Idle

\* The type is kept by every step.
LEMMA TypeStep == TypeOK /\ [Next]_vars => TypeOK'
<1> SUFFICES ASSUME TypeOK, [Next]_vars
             PROVE  TypeOK'
  OBVIOUS
<1>1. ASSUME NEW r \in Request, NEW d \in Document, CheckUpload(r, d)
      PROVE  TypeOK'
  BY <1>1 DEF TypeOK, CheckUpload, Begin, RequestState
<1>2. ASSUME NEW r \in Request, NEW d \in Document, LoadRemoval(r, d)
      PROVE  TypeOK'
  BY <1>2 DEF TypeOK, LoadRemoval, Begin, RequestState
<1>3. ASSUME NEW r \in Request, NEW d \in Document, UnlinkFile(r, d)
      PROVE  TypeOK'
  <2>1. req[r].listed \subseteq Document
    BY <1>3, RequestShape DEF UnlinkFile
  <2>. QED
    BY <1>3, <2>1 DEF TypeOK, UnlinkFile, RequestState
<1>4. ASSUME NEW r \in Request, PutObject(r)
      PROVE  TypeOK'
  <2>1. req[r].document \in Document
    BY <1>4, RequestShape DEF PutObject
  <2>. QED
    BY <1>4, <2>1 DEF TypeOK, PutObject, RequestState
<1>5. ASSUME NEW r \in Request, InsertDocument(r)
      PROVE  TypeOK'
  BY <1>5, RequestShape DEF TypeOK, InsertDocument, Insert, Finish, RequestState
<1>6. ASSUME NEW r \in Request, InsertUnheard(r)
      PROVE  TypeOK'
  <2>1. req[r].document \in Document
    BY <1>6, RequestShape DEF InsertUnheard
  <2>. QED
    BY <1>6, <2>1 DEF TypeOK, InsertUnheard, Insert, Finish, RequestState
<1>7. ASSUME NEW r \in Request, RemoveKycDocument(r)
      PROVE  TypeOK'
  BY <1>7, RequestShape DEF TypeOK, RemoveKycDocument, Finish, RequestState
<1>8. ASSUME NEW r \in Request, NEW hold \in BOOLEAN, LoadErasure(r, hold)
      PROVE  TypeOK'
  <2>1. Kept \subseteq Document
    BY DEF Kept
  <2>. QED
    BY <1>8, <2>1 DEF TypeOK, LoadErasure, Begin, RequestState
<1>9. ASSUME NEW r \in Request, EraseRows(r)
      PROVE  TypeOK'
  <2>1. req[r].listed \subseteq Document
    BY <1>9, RequestShape DEF EraseRows
  <2>2. row' \in [Document -> {"absent", "active", "retracted", "deleted"}]
    BY <1>9 DEF TypeOK, EraseRows
  <2>. QED
    BY <1>9, <2>1, <2>2 DEF TypeOK, EraseRows, RequestState
<1>10. ASSUME NEW r \in Request, RequestFails(r)
       PROVE  TypeOK'
  BY <1>10 DEF TypeOK, RequestFails, Finish, RequestState
<1>11. ASSUME NEW d \in Document, RetractDocument(d)
       PROVE  TypeOK'
  BY <1>11 DEF TypeOK, RetractDocument
<1>12. CASE SubmitKycForReview
  BY <1>12 DEF TypeOK, SubmitKycForReview, KycStatus
<1>13. ASSUME NEW k \in KycStatus, SetKycStatus(k)
       PROVE  TypeOK'
  BY <1>13 DEF TypeOK, SetKycStatus
<1>14. CASE UNCHANGED vars
  BY <1>14 DEF TypeOK, vars
<1>. QED
  BY <1>1, <1>2, <1>3, <1>4, <1>5, <1>6, <1>7, <1>8, <1>9, <1>10, <1>11, <1>12,
     <1>13, <1>14 DEF Next, RequestStep

-----------------------------------------------------------------------------
\* Rows are only inserted by uploads, and nothing else takes a row back to
\* absent or forgets a row that was deleted.
LEMMA RowsMove ==
    ASSUME TypeOK, UploadsOwnTheirKey, [Next]_vars, NEW d \in Document
    PROVE  /\ row[d] # "absent" => row'[d] # "absent"
           /\ row[d] = "deleted" => row'[d] = "deleted"
<1>1. ASSUME NEW r \in Request, InsertDocument(r) \/ InsertUnheard(r)
      PROVE  row' = [row EXCEPT ![req[r].document] = "active"]
             /\ row[req[r].document] = "absent"
  BY <1>1 DEF InsertDocument, InsertUnheard, Insert, UploadsOwnTheirKey, Uploading
<1>2. ASSUME NEW r \in Request, RequestStep(r)
      PROVE  \/ UNCHANGED row
             \/ InsertDocument(r) \/ InsertUnheard(r)
             \/ RemoveKycDocument(r) \/ EraseRows(r)
  BY <1>2 DEF RequestStep, CheckUpload, LoadRemoval, UnlinkFile, PutObject, LoadErasure, RequestFails
<1>3. ASSUME NEW r \in Request, RemoveKycDocument(r)
      PROVE  row' = [row EXCEPT ![req[r].document] = "retracted"]
             /\ row[req[r].document] = "active"
  BY <1>3 DEF RemoveKycDocument
<1>4. ASSUME NEW r \in Request, EraseRows(r)
      PROVE  row'[d] = row[d] \/ (row'[d] = "deleted" /\ row[d] \in {"active", "retracted"})
  BY <1>4 DEF EraseRows, Kept
<1>5. ASSUME NEW e \in Document, RetractDocument(e)
      PROVE  row' = [row EXCEPT ![e] = "retracted"] /\ row[e] = "active"
  BY <1>5 DEF RetractDocument
<1>6. CASE UNCHANGED row
  BY <1>6
<1>. QED
  BY <1>1, <1>2, <1>3, <1>4, <1>5, <1>6
  DEF Next, SubmitKycForReview, SetKycStatus, vars, TypeOK

\* What one request does leaves the uploads of the others alone.
LEMMA UploadsStep ==
    ASSUME TypeOK, UploadsOwnTheirKey, ErasuresListRows, [Next]_vars
    PROVE  UploadsOwnTheirKey'
<1>1. ASSUME NEW r \in Request, NEW d \in Document, CheckUpload(r, d)
      PROVE  UploadsOwnTheirKey'
  <2>1. req' = [req EXCEPT ![r] = [op |-> "checked", document |-> d]]
    BY <1>1 DEF CheckUpload, Begin
  <2>2. /\ row[d] = "absent"
        /\ \A q \in Request : Uploading(q) => req[q].document # d
        /\ UNCHANGED <<row, files>>
    BY <1>1 DEF CheckUpload, Uploading
  <2>. QED
    BY <2>1, <2>2 DEF UploadsOwnTheirKey, Uploading, TypeOK
<1>2. ASSUME NEW r \in Request, PutObject(r)
      PROVE  UploadsOwnTheirKey'
  <2>1. /\ req' = [req EXCEPT ![r] = [op |-> "stored", document |-> req[r].document]]
        /\ files' = files \cup {req[r].document}
        /\ UNCHANGED row
        /\ Uploading(r)
    BY <1>2 DEF PutObject, Uploading
  <2>. QED
    BY <2>1 DEF UploadsOwnTheirKey, Uploading, TypeOK
<1>3. ASSUME NEW r \in Request, InsertDocument(r) \/ InsertUnheard(r) \/ RequestFails(r)
      PROVE  UploadsOwnTheirKey'
  <2>1. req' = [req EXCEPT ![r] = Idle]
    BY <1>3 DEF InsertDocument, InsertUnheard, RequestFails, Finish
  <2>2. \A d \in Document : row'[d] # row[d] => Uploading(r) /\ d = req[r].document
    BY <1>3 DEF InsertDocument, InsertUnheard, RequestFails, Insert, Uploading, TypeOK
  <2>3. files' = files \/ (Uploading(r) /\ files' = files \ {req[r].document})
    BY <1>3 DEF InsertDocument, InsertUnheard, RequestFails, Uploading
  <2>4. \A q \in Request : Uploading(q)' => q # r /\ Uploading(q) /\ req'[q] = req[q]
    BY <2>1 DEF Uploading, Idle, TypeOK
  <2>5. \A q \in Request : Uploading(q) => req[q].document \in Document
    BY RequestShape DEF Uploading
  <2>. QED
    BY <2>2, <2>3, <2>4, <2>5 DEF UploadsOwnTheirKey
<1>4. ASSUME NEW r \in Request, NEW d \in Document, UnlinkFile(r, d)
      PROVE  UploadsOwnTheirKey'
  <2>1. row[d] = "deleted"
    BY <1>4 DEF UnlinkFile, ErasuresListRows
  <2>2. \A q \in Request : Uploading(q)' => Uploading(q) /\ req'[q] = req[q]
    BY <1>4 DEF UnlinkFile, Uploading, TypeOK
  <2>3. UNCHANGED row /\ files' \in {files, files \ {d}}
    BY <1>4 DEF UnlinkFile
  <2>. QED
    BY <2>1, <2>2, <2>3 DEF UploadsOwnTheirKey
<1>5. ASSUME NEW r \in Request,
             \/ \E d \in Document : LoadRemoval(r, d)
             \/ RemoveKycDocument(r)
             \/ \E hold \in BOOLEAN : LoadErasure(r, hold)
             \/ EraseRows(r)
      PROVE  UploadsOwnTheirKey'
  <2>1. \A q \in Request : Uploading(q)' => Uploading(q) /\ req'[q] = req[q]
    BY <1>5 DEF LoadRemoval, RemoveKycDocument, LoadErasure, EraseRows, Begin, Finish,
                Idle, Uploading, TypeOK
  <2>2. UNCHANGED files /\ \A d \in Document : row[d] = "absent" => row'[d] = "absent"
    BY <1>5 DEF LoadRemoval, RemoveKycDocument, LoadErasure, EraseRows, Kept, TypeOK
  <2>3. \A q \in Request : Uploading(q) => req[q].document \in Document
    BY RequestShape DEF Uploading
  <2>. QED
    BY <2>1, <2>2, <2>3 DEF UploadsOwnTheirKey
<1>6. ASSUME NEW d \in Document, RetractDocument(d)
      PROVE  UploadsOwnTheirKey'
  BY <1>6 DEF RetractDocument, UploadsOwnTheirKey, Uploading, TypeOK
<1>7. CASE UNCHANGED <<row, files, req>>
  BY <1>7 DEF UploadsOwnTheirKey, Uploading
<1>. QED
  BY <1>1, <1>2, <1>3, <1>4, <1>5, <1>6, <1>7
  DEF Next, RequestStep, SubmitKycForReview, SetKycStatus, vars

\* An erasure's list is taken from the rows there are, and by the time it
\* removes files all of them are deleted.
LEMMA ErasuresStep ==
    ASSUME TypeOK, UploadsOwnTheirKey, ErasuresListRows, [Next]_vars
    PROVE  ErasuresListRows'
<1>1. ASSUME NEW q \in Request, req'[q] = req[q]
      PROVE  /\ req'[q].op = "erase" =>
                  /\ req'[q].hold => req'[q].listed = {}
                  /\ \A d \in req'[q].listed : row'[d] # "absent"
             /\ req'[q].op = "unlink" => \A d \in req'[q].listed : row'[d] = "deleted"
  <2>1. req[q].op \in {"erase", "unlink"} => req[q].listed \subseteq Document
    BY RequestShape
  <2>. QED
    BY <1>1, <2>1, RowsMove DEF ErasuresListRows
<1>2. ASSUME NEW r \in Request, NEW hold \in BOOLEAN, LoadErasure(r, hold)
      PROVE  ErasuresListRows'
  <2>1. /\ req' = [req EXCEPT ![r] = [op |-> "erase", hold |-> hold,
                                     listed |-> IF hold THEN {} ELSE Kept]]
        /\ UNCHANGED row
    BY <1>2 DEF LoadErasure, Begin
  <2>2. \A d \in Kept : row[d] # "absent"
    BY DEF Kept
  <2>. QED
    BY <2>1, <2>2, <1>1 DEF ErasuresListRows, TypeOK
<1>3. ASSUME NEW r \in Request, EraseRows(r)
      PROVE  ErasuresListRows'
  <2>1. req' = [req EXCEPT ![r] = [op |-> "unlink", listed |-> req[r].listed]]
    BY <1>3 DEF EraseRows
  <2>2. \A d \in req[r].listed : d \in Document /\ row[d] # "absent"
    BY <1>3, RequestShape DEF EraseRows, ErasuresListRows
  <2>3. \A d \in req[r].listed : row'[d] = "deleted"
    BY <1>3, <2>2 DEF EraseRows, Kept, TypeOK
  <2>. QED
    BY <2>1, <2>3, <1>1 DEF ErasuresListRows, TypeOK
<1>4. ASSUME NEW r \in Request, NEW d \in Document, UnlinkFile(r, d)
      PROVE  ErasuresListRows'
  <2>1. /\ req' = [req EXCEPT ![r] = [op |-> "unlink", listed |-> req[r].listed \ {d}]]
        /\ UNCHANGED row
        /\ \A e \in req[r].listed : row[e] = "deleted"
    BY <1>4 DEF UnlinkFile, ErasuresListRows
  <2>. QED
    BY <2>1, <1>1 DEF ErasuresListRows, TypeOK
<1>5. ASSUME NEW r \in Request, RequestStep(r),
             ~(\E hold \in BOOLEAN : LoadErasure(r, hold)), ~EraseRows(r),
             ~(\E d \in Document : UnlinkFile(r, d))
      PROVE  ErasuresListRows'
  <2>1. \A q \in Request \ {r} : req'[q] = req[q]
    BY <1>5 DEF RequestStep, CheckUpload, LoadRemoval, PutObject, InsertDocument, InsertUnheard,
                RemoveKycDocument, RequestFails, Begin, Finish, TypeOK
  <2>2. req'[r].op \notin {"erase", "unlink"}
    BY <1>5 DEF RequestStep, CheckUpload, LoadRemoval, PutObject, InsertDocument, InsertUnheard,
                RemoveKycDocument, RequestFails, Begin, Finish, Idle, TypeOK
  <2>. QED
    BY <2>1, <2>2, <1>1 DEF ErasuresListRows
<1>6. CASE UNCHANGED req
  BY <1>6, <1>1 DEF ErasuresListRows
<1>. QED
  BY <1>2, <1>3, <1>4, <1>5, <1>6
  DEF Next, RetractDocument, SubmitKycForReview, SetKycStatus, vars

\* A file is only removed for a key that has no row, or whose row is gone, or
\* whose insertion nobody heard of.
LEMMA FilesStep ==
    ASSUME TypeOK, UploadsOwnTheirKey, ErasuresListRows, RowsHaveFiles, [Next]_vars
    PROVE  RowsHaveFiles'
<1>1. ASSUME NEW r \in Request, InsertDocument(r)
      PROVE  RowsHaveFiles'
  <2>1. req[r].document \in files
    BY <1>1 DEF InsertDocument, UploadsOwnTheirKey, Uploading
  <2>2. Kept' \subseteq Kept \cup {req[r].document}
    BY <1>1 DEF InsertDocument, Insert, Kept, TypeOK
  <2>. QED
    BY <1>1, <2>1, <2>2 DEF InsertDocument, RowsHaveFiles
<1>2. ASSUME NEW r \in Request, InsertUnheard(r)
      PROVE  RowsHaveFiles'
  <2>1. Kept' \subseteq Kept \cup {req[r].document}
    BY <1>2 DEF InsertUnheard, Insert, Kept, TypeOK
  <2>. QED
    BY <1>2, <2>1 DEF InsertUnheard, RowsHaveFiles
<1>3. ASSUME NEW r \in Request, RequestFails(r)
      PROVE  RowsHaveFiles'
  <2>1. files' # files => req[r].document \notin Kept /\ files' = files \ {req[r].document}
    BY <1>3 DEF RequestFails, UploadsOwnTheirKey, Uploading, Kept
  <2>2. UNCHANGED <<Kept, unheard>>
    BY <1>3 DEF RequestFails, Kept
  <2>. QED
    BY <2>1, <2>2 DEF RowsHaveFiles
<1>4. ASSUME NEW r \in Request, NEW d \in Document, UnlinkFile(r, d)
      PROVE  RowsHaveFiles'
  <2>1. d \notin Kept
    BY <1>4 DEF UnlinkFile, ErasuresListRows, Kept
  <2>2. UNCHANGED <<Kept, unheard>> /\ files \ {d} \subseteq files'
    BY <1>4 DEF UnlinkFile, Kept
  <2>. QED
    BY <2>1, <2>2 DEF RowsHaveFiles
<1>5. ASSUME Kept' \subseteq Kept, files \subseteq files', UNCHANGED unheard
      PROVE  RowsHaveFiles'
  BY <1>5 DEF RowsHaveFiles
<1>6. ASSUME NEW r \in Request,
             \/ \E d \in Document : CheckUpload(r, d) \/ LoadRemoval(r, d)
             \/ PutObject(r)
             \/ RemoveKycDocument(r)
             \/ \E hold \in BOOLEAN : LoadErasure(r, hold)
             \/ EraseRows(r)
      PROVE  RowsHaveFiles'
  <2>1. Kept' \subseteq Kept
    BY <1>6 DEF CheckUpload, LoadRemoval, PutObject, RemoveKycDocument, LoadErasure, EraseRows,
                Kept, TypeOK
  <2>2. files \subseteq files' /\ UNCHANGED unheard
    BY <1>6 DEF CheckUpload, LoadRemoval, PutObject, RemoveKycDocument, LoadErasure, EraseRows
  <2>. QED
    BY <2>1, <2>2, <1>5
<1>7. ASSUME NEW d \in Document, RetractDocument(d)
      PROVE  RowsHaveFiles'
  <2>1. Kept' \subseteq Kept
    BY <1>7 DEF RetractDocument, Kept, TypeOK
  <2>. QED
    BY <1>7, <2>1, <1>5 DEF RetractDocument
<1>8. CASE UNCHANGED <<row, files, unheard>>
  BY <1>8 DEF RowsHaveFiles, Kept
<1>. QED
  BY <1>1, <1>2, <1>3, <1>4, <1>6, <1>7, <1>8
  DEF Next, RequestStep, SubmitKycForReview, SetKycStatus, vars

\* The documents WithinCap counts.
KycActive == {d \in Active : KindOf[d] = "kyc"}

\* A KYC upload recounts all active documents, of which those WithinCap counts
\* are a part.
LEMMA CapStep ==
    ASSUME TypeOK, WithinCap, [Next]_vars
    PROVE  WithinCap'
<1>1. /\ IsFiniteSet(Active) /\ Cardinality(Active) \in Nat
      /\ IsFiniteSet(KycActive) /\ Cardinality(KycActive) \in Nat
      /\ Cardinality(KycActive) <= Cardinality(Active)
  BY FS_Subset, FS_CardinalityType, DocumentsAssumption DEF Active, KycActive
<1>2. ASSUME NEW r \in Request, InsertDocument(r) \/ InsertUnheard(r)
      PROVE  WithinCap'
  <2> DEFINE d == req[r].document
  <2>1. MayUpload(d) /\ row' = [row EXCEPT ![d] = "active"] /\ d \in Document
    BY <1>2, RequestShape DEF InsertDocument, InsertUnheard, Insert
  <2>2. CASE KindOf[d] = "kyc"
    <3>1. Cardinality(Active) < Cap
      BY <2>1, <2>2 DEF MayUpload
    <3>2. KycActive' = KycActive \cup {d}
      BY <2>1, <2>2 DEF KycActive, Active, TypeOK
    <3>3. Cardinality(KycActive \cup {d}) \in {Cardinality(KycActive), Cardinality(KycActive) + 1}
      <4>1. IsFiniteSet(KycActive)
        BY <1>1
      <4>. HIDE DEF KycActive, d
      <4>. QED
        BY <4>1, FS_AddElement, Zenon
    <3>4. Cardinality(KycActive') <= Cap
      BY <1>1, <3>1, <3>2, <3>3, DocumentsAssumption
    <3>. QED
      BY <3>4 DEF WithinCap, KycActive
  <2>3. CASE KindOf[d] # "kyc"
    <3>1. KycActive' = KycActive
      BY <2>1, <2>3 DEF KycActive, Active, TypeOK
    <3>. QED
      BY <3>1 DEF WithinCap, KycActive
  <2>. QED
    BY <2>2, <2>3
<1>3. ASSUME Active' \subseteq Active
      PROVE  WithinCap'
  <2>1. KycActive' \subseteq KycActive
    BY <1>3 DEF KycActive
  <2>2. Cardinality(KycActive') <= Cardinality(KycActive) /\ Cardinality(KycActive') \in Nat
    BY <1>1, <2>1, FS_Subset, FS_CardinalityType
  <2>3. Cardinality(KycActive') <= Cap
    BY <1>1, <2>2, DocumentsAssumption DEF WithinCap, KycActive
  <2>. QED
    BY <2>3 DEF WithinCap, KycActive
<1>4. ASSUME NEW r \in Request, RequestStep(r), ~InsertDocument(r), ~InsertUnheard(r)
      PROVE  Active' \subseteq Active
  BY <1>4 DEF RequestStep, CheckUpload, LoadRemoval, UnlinkFile, PutObject, RemoveKycDocument,
              LoadErasure, EraseRows, RequestFails, Active, TypeOK
<1>5. ASSUME NEW d \in Document, RetractDocument(d)
      PROVE  Active' \subseteq Active
  BY <1>5 DEF RetractDocument, Active, TypeOK
<1>6. CASE UNCHANGED row
  BY <1>6, <1>3 DEF Active
<1>. QED
  BY <1>2, <1>3, <1>4, <1>5, <1>6 DEF Next, SubmitKycForReview, SetKycStatus, vars

\* Submission sees a complete pack, and from then on only a full erasure takes
\* rows away.
LEMMA PackStep ==
    ASSUME TypeOK, UploadsOwnTheirKey, ErasuresListRows, DecidedPackIsKept, [Next]_vars
    PROVE  DecidedPackIsKept'
<1>1. ASSUME Kept \subseteq Kept', UNCHANGED erased, kyc' \notin Editable => kyc \notin Editable
      PROVE  DecidedPackIsKept'
  BY <1>1 DEF DecidedPackIsKept
<1>2. ASSUME NEW r \in Request, RequestStep(r), ~EraseRows(r)
      PROVE  DecidedPackIsKept'
  <2>1. UNCHANGED <<kyc, erased>>
    BY <1>2 DEF RequestStep, CheckUpload, LoadRemoval, UnlinkFile, PutObject, InsertDocument,
                InsertUnheard, RemoveKycDocument, LoadErasure, RequestFails
  <2>2. Kept \subseteq Kept'
    BY <1>2 DEF RequestStep, CheckUpload, LoadRemoval, UnlinkFile, PutObject, InsertDocument,
                InsertUnheard, Insert, RemoveKycDocument, LoadErasure, RequestFails, Kept, TypeOK
  <2>. QED
    BY <2>1, <2>2, <1>1
<1>3. ASSUME NEW r \in Request, EraseRows(r)
      PROVE  DecidedPackIsKept'
  <2>1. CASE req[r].hold
    <3>1. UNCHANGED row /\ UNCHANGED kyc /\ erased = "no"
      BY <1>3, <2>1 DEF EraseRows, ErasuresListRows
    <3>. QED
      BY <3>1 DEF DecidedPackIsKept, Kept
  <2>2. CASE ~req[r].hold
    BY <1>3, <2>2 DEF EraseRows, DecidedPackIsKept
  <2>. QED
    BY <2>1, <2>2
<1>4. ASSUME NEW d \in Document, RetractDocument(d)
      PROVE  DecidedPackIsKept'
  <2>1. Kept \subseteq Kept'
    BY <1>4 DEF RetractDocument, Kept, TypeOK
  <2>. QED
    BY <1>4, <2>1, <1>1 DEF RetractDocument
<1>5. CASE SubmitKycForReview
  <2>1. \A c \in Required : \E d \in Active : CategoryOf[d] = c
    BY <1>5 DEF SubmitKycForReview, PackIsComplete
  <2>2. Active \subseteq Kept /\ Kept' = Kept
    BY <1>5 DEF SubmitKycForReview, Active, Kept
  <2>. QED
    BY <2>1, <2>2 DEF DecidedPackIsKept
<1>6. ASSUME NEW k \in KycStatus, SetKycStatus(k)
      PROVE  DecidedPackIsKept'
  <2>1. kyc \notin Editable /\ UNCHANGED <<Kept, erased>>
    BY <1>6 DEF SetKycStatus, KycTransitions, Editable, Kept
  <2>. QED
    BY <2>1, <1>1
<1>7. CASE UNCHANGED vars
  BY <1>7 DEF vars, DecidedPackIsKept, Kept
<1>. QED
  BY <1>2, <1>3, <1>4, <1>5, <1>6, <1>7 DEF Next

-----------------------------------------------------------------------------
LEMMA Initially == Init => IInv
<1>1. ASSUME Init
      PROVE  WithinCap
  <2>1. {d \in Active : KindOf[d] = "kyc"} = {}
    BY <1>1 DEF Init, Active
  <2>. QED
    BY <2>1, FS_EmptySet, DocumentsAssumption DEF WithinCap
<1>2. Init => TypeOK
  BY DEF Init, TypeOK, KycStatus, RequestState
<1>3. Init => RowsHaveFiles /\ DecidedPackIsKept
  BY DEF Init, RowsHaveFiles, DecidedPackIsKept, Kept, Editable
<1>4. Init => UploadsOwnTheirKey /\ ErasuresListRows
  BY DEF Init, UploadsOwnTheirKey, ErasuresListRows, Uploading, Idle
<1>. QED
  BY <1>1, <1>2, <1>3, <1>4 DEF IInv

\* What every state satisfies.
LEMMA InductiveInvariant == Spec => []IInv
<1>1. IInv /\ [Next]_vars => IInv'
  BY TypeStep, UploadsStep, ErasuresStep, FilesStep, CapStep, PackStep DEF IInv
<1>. QED
  BY Initially, <1>1, PTL DEF Spec

\* The investor, the documents and every request in flight keep their types.
THEOREM TypeCorrect == Spec => []TypeOK
<1>1. IInv => TypeOK
  BY DEF IInv
<1>. QED
  BY InductiveInvariant, <1>1, PTL

\* Files are stored before rows and removed after them: no row lacks its file,
\* whatever upload or erasure stopped half way, unless its own commit was not
\* heard of.
THEOREM FilesBeforeRows == Spec => []RowsHaveFiles
<1>1. IInv => RowsHaveFiles
  BY DEF IInv
<1>. QED
  BY InductiveInvariant, <1>1, PTL

\* Any number of concurrent uploads that saw room keep to the cap.
THEOREM CapHolds == Spec => []WithinCap
<1>1. IInv => WithinCap
  BY DEF IInv
<1>. QED
  BY InductiveInvariant, <1>1, PTL

\* The rows a decision rests on stay on file until the investor is erased.
THEOREM EvidenceStays == Spec => []DecidedPackIsKept
<1>1. IInv => DecidedPackIsKept
  BY DEF IInv
<1>. QED
  BY InductiveInvariant, <1>1, PTL

\* An upload or removal that began before the submission does not change the
\* pack after it.
THEOREM PackFrozen == Spec => PackIsFrozen
<1> DEFINE Frozen ==
      kyc \notin Editable =>
        /\ \A d \in Active' \ Active : KindOf[d] # "kyc"
        /\ \A d \in Active \ Active' :
             RetractDocument(d) \/ \E r \in Request : EraseRows(r)
<1>1. TypeOK /\ [Next]_vars => [Frozen]_vars
  <2> SUFFICES ASSUME TypeOK, Next, kyc \notin Editable
               PROVE  /\ \A d \in Active' \ Active : KindOf[d] # "kyc"
                      /\ \A d \in Active \ Active' :
                           RetractDocument(d) \/ \E r \in Request : EraseRows(r)
    OBVIOUS
  <2>1. ASSUME NEW r \in Request, InsertDocument(r) \/ InsertUnheard(r)
        PROVE  /\ \A d \in Active' \ Active : KindOf[d] # "kyc"
               /\ Active \subseteq Active'
    <3>1. row' = [row EXCEPT ![req[r].document] = "active"] /\ MayUpload(req[r].document)
      BY <2>1 DEF InsertDocument, InsertUnheard, Insert
    <3>. QED
      BY <3>1 DEF MayUpload, Active, TypeOK
  <2>2. ASSUME NEW r \in Request, RequestStep(r),
               ~InsertDocument(r), ~InsertUnheard(r), ~EraseRows(r)
        PROVE  Active' = Active
    BY <2>2 DEF RequestStep, CheckUpload, LoadRemoval, UnlinkFile, PutObject,
                RemoveKycDocument, LoadErasure, RequestFails, Active
  <2>3. ASSUME NEW r \in Request, EraseRows(r)
        PROVE  Active' \subseteq Active
    BY <2>3 DEF EraseRows, Active
  <2>4. ASSUME NEW d \in Document, RetractDocument(d)
        PROVE  Active' = Active \ {d}
    BY <2>4 DEF RetractDocument, Active, TypeOK
  <2>5. CASE SubmitKycForReview \/ \E k \in KycStatus : SetKycStatus(k)
    <3>1. Active' = Active
      BY <2>5 DEF SubmitKycForReview, SetKycStatus, Active
    <3>. QED
      BY <3>1
  <2>. QED
    BY <2>1, <2>2, <2>3, <2>4, <2>5 DEF Next
<1>. QED
  BY TypeCorrect, <1>1, PTL DEF Spec, PackIsFrozen

\* Of any number of concurrent erasures one changes the investor, and after it
\* no erasure takes a row.
THEOREM OneErasure == Spec => ErasedOnce
<1> DEFINE Once ==
      erased # "no" =>
        /\ erased' = erased
        /\ \A d \in Document : row'[d] = "deleted" => row[d] = "deleted"
<1>1. TypeOK /\ [Next]_vars => [Once]_vars
  <2> SUFFICES ASSUME TypeOK, Next, erased # "no"
               PROVE  /\ erased' = erased
                      /\ \A d \in Document : row'[d] = "deleted" => row[d] = "deleted"
    OBVIOUS
  <2>1. ASSUME NEW r \in Request, RequestStep(r)
        PROVE  /\ erased' = erased
               /\ \A d \in Document : row'[d] = "deleted" => row[d] = "deleted"
    BY <2>1 DEF RequestStep, CheckUpload, LoadRemoval, UnlinkFile, PutObject, InsertDocument,
                InsertUnheard, Insert, RemoveKycDocument, LoadErasure, EraseRows, RequestFails, TypeOK
  <2>2. ASSUME NEW d \in Document, RetractDocument(d)
        PROVE  /\ erased' = erased
               /\ \A e \in Document : row'[e] = "deleted" => row[e] = "deleted"
    BY <2>2 DEF RetractDocument, TypeOK
  <2>. QED
    BY <2>1, <2>2 DEF Next, SubmitKycForReview, SetKycStatus
<1>. QED
  BY TypeCorrect, <1>1, PTL DEF Spec, ErasedOnce

\* The row of a signed copy outlives every erasure, for the contract refers to
\* it.
THEOREM SignedCopiesKept == Spec => SignedCopiesStay
<1> DEFINE Stay == \A d \in Kept : KindOf[d] = "signed" => d \in Kept'
<1>1. TypeOK /\ [Next]_vars => [Stay]_vars
  <2> SUFFICES ASSUME TypeOK, Next
               PROVE  Stay
    OBVIOUS
  <2>1. ASSUME NEW r \in Request, RequestStep(r), ~EraseRows(r)
        PROVE  Stay
    BY <2>1 DEF RequestStep, CheckUpload, LoadRemoval, UnlinkFile, PutObject, InsertDocument,
                InsertUnheard, Insert, RemoveKycDocument, LoadErasure, RequestFails, Kept, TypeOK
  <2>2. ASSUME NEW r \in Request, EraseRows(r)
        PROVE  Stay
    BY <2>2 DEF EraseRows, Deletable, Kept
  <2>3. ASSUME NEW d \in Document, RetractDocument(d)
        PROVE  Stay
    BY <2>3 DEF RetractDocument, Kept, TypeOK
  <2>. QED
    BY <2>1, <2>2, <2>3 DEF Next, SubmitKycForReview, SetKycStatus, Kept
<1>. QED
  BY TypeCorrect, <1>1, PTL DEF Spec, SignedCopiesStay

-----------------------------------------------------------------------------
(* The desk: invariant                                                      *)

\* While a page is put together, the book it remembers holds the reader's
\* book of now, and what was checked or listed for a later read.
BookKept ==
    /\ page.at \in {"row", "check", "read"} => page.todo # <<>>
    /\ Loading => Book(page.who) \subseteq page.book
    /\ page.at = "read" => Head(page.todo)[2] \in page.book
    /\ page.at = "more" => \A part \in page.shown : part[2] \in page.book
    /\ page.at = "owners" /\ page.kind = "feed" => page.found \subseteq page.book
    /\ table.at # "none" => page.at = "done"

\* What is selected, was posted or failed has a row on the screen.
RowsKept ==
    /\ SelectionShown
    /\ table.failed \subseteq table.rows
    /\ table.at = "post" => table.ids \subseteq table.rows

\* What a step adds to a page was in the book that the page remembers.
Scoped ==
    page.who = page'.who /\ Loading =>
        \A part \in page'.shown \ page.shown : part[2] \in page.book

DeskInv == DeskTypeOK /\ BookKept /\ RowsKept

-----------------------------------------------------------------------------
(* The desk: operators                                                      *)

\* A part of a page is about a record.
LEMMA PartTyped ==
    ASSUME NEW part \in Part
    PROVE  part[2] \in Entity
  BY DEF Part

\* A book holds records, and whatever is visible.
LEMMA BookHolds ==
    ASSUME NEW who
    PROVE  /\ Book(who) \subseteq Entity
           /\ \A e \in Entity : Visible(who, e) => e \in Book(who)
  BY DEF Book, Entity, Visible

\* A book changes with the rows only.
LEMMA BookUnchanged ==
    ASSUME NEW who, UNCHANGED <<lead, investor>>
    PROVE  Book(who)' = Book(who)
  BY DEF Book, LeadVisible, InvestorVisible

\* A set of parts put in some order is a sequence of parts.
LEMMA LinesTyped ==
    ASSUME NEW D \in SUBSET Lead
    PROVE  SetToSeq({"line"} \X D) \in Seq(Part)
<1> DEFINE S == {"line"} \X D
<1>1. IsFiniteSet(S)
  <2>1. IsFiniteSet(D) /\ IsFiniteSet({"line"})
    BY StaffDeskAssumption, FS_Subset, FS_Singleton
  <2>. QED
    BY <2>1, FS_Product
<1>2. Cardinality(S) \in Nat /\ ExistsBijection(1..Cardinality(S), S)
  BY <1>1, FS_CardinalityType
<1>3. S \subseteq Part
  BY DEF Part, Entity
<1>. HIDE DEF S
<1>4. \E f \in [1..Cardinality(S) -> S] : IsInjective(f)
  BY <1>2 DEF ExistsBijection, Bijection, Injection
<1>5. SetToSeq(S) \in [1..Cardinality(S) -> S]
  BY <1>4 DEF SetToSeq
<1>6. SetToSeq(S) \in Seq(S)
  BY <1>2, <1>5
<1>7. SetToSeq(S) \in Seq(Part)
  BY <1>3, <1>6, SeqMonotonic
<1>. QED
  BY <1>7 DEF S

-----------------------------------------------------------------------------
(* The desk: pages                                                          *)

\* A page that is opened remembers the reader's book of now.
LEMMA OpenedKeeps ==
    ASSUME DeskInv, NEW who \in Staff,
           NEW kind \in {"lead", "investor", "file", "list", "checklist", "documents", "feed"},
           NEW at \in {"row", "check", "more", "leads", "owners"},
           NEW todo \in Seq(Part), NEW found \in SUBSET Entity, NEW parts \in SUBSET Part,
           Opened(who, kind, at, todo, found, parts),
           at \in {"row", "check"} => todo # <<>>,
           at = "owners" => kind # "feed",
           \A part \in parts : part[2] \in Book(who)
    PROVE  DeskInv' /\ ~Loading
<1>1. page' = [who |-> who, kind |-> kind, at |-> at, todo |-> todo, found |-> found,
               shown |-> parts, book |-> Book(who)]
      /\ table' = NoTable /\ UNCHANGED <<lead, investor, active, events, writes, now>>
  BY DEF Opened, db
<1>2. Book(who) \in SUBSET Entity
  BY BookHolds
<1>3. page' \in Page
  BY <1>1, <1>2 DEF Page
<1>4. table' \in TableState
  BY <1>1 DEF NoTable, AnyLead, TableState, Filter, Settable
<1>5. DeskTypeOK'
  BY <1>1, <1>3, <1>4 DEF DeskInv, DeskTypeOK
<1>6. Book(who)' = Book(who)
  BY <1>1, BookUnchanged
<1>7. BookKept'
  BY <1>1, <1>6 DEF BookKept, NoTable
<1>8. RowsKept'
  BY <1>1 DEF DeskInv, RowsKept, SelectionShown, NoTable
<1>9. ~Loading
  BY DEF Opened, Loading, NoPage
<1>. QED
  BY <1>5, <1>7, <1>8, <1>9 DEF DeskInv

\* Whatever page is opened, it is opened on what the reader sees now.
LEMMA PagesKeep ==
    ASSUME DeskInv, Pages
    PROVE  DeskInv' /\ ~Loading
<1>. /\ lead \in [Lead -> LeadRow] /\ investor \in [Investor -> InvestorRow]
     /\ events \in Seq(Part)
  BY DEF DeskInv, DeskTypeOK
<1>1. CASE OpenLead
  <2>1. PICK who \in Staff, l \in Lead :
          Opened(who, "lead", "row", << <<"lead", l>>, Attempts(l), History(l) >>, {}, {})
    BY <1>1 DEF OpenLead
  <2> DEFINE todo == << <<"lead", l>>, Attempts(l), History(l) >>
  <2>2. todo \in Seq(Part) /\ todo # <<>>
    BY DEF Attempts, History, Part, Entity
  <2>3. Opened(who, "lead", "row", todo, {}, {})
    BY <2>1
  <2>. HIDE DEF todo
  <2>. QED
    BY <2>2, <2>3, OpenedKeeps
<1>2. CASE OpenInvestor
  <2>1. PICK who \in Staff, i \in Investor :
          Opened(who, "investor", "row", << Detail(i), Bundle(i), Activity(i) >>, {}, {})
    BY <1>2 DEF OpenInvestor
  <2> DEFINE todo == << Detail(i), Bundle(i), Activity(i) >>
  <2>2. todo \in Seq(Part) /\ todo # <<>>
    BY DEF Detail, Bundle, Activity, Part, Entity
  <2>3. Opened(who, "investor", "row", todo, {}, {})
    BY <2>1
  <2>. HIDE DEF todo
  <2>. QED
    BY <2>2, <2>3, OpenedKeeps
<1>3. CASE OpenFile
  <2>1. PICK who \in Staff, i \in Investor :
          Opened(who, "file", "check", << <<"more", i>> >>, {}, {})
    BY <1>3 DEF OpenFile
  <2> DEFINE todo == << <<"more", i>> >>
  <2>2. todo \in Seq(Part) /\ todo # <<>>
    BY DEF Part, Entity
  <2>3. Opened(who, "file", "check", todo, {}, {})
    BY <2>1
  <2>. HIDE DEF todo
  <2>. QED
    BY <2>2, <2>3, OpenedKeeps
<1>4. ASSUME NEW who, NEW filter
      PROVE  /\ {"row"} \X ListInvestors(who, filter) \subseteq Part
             /\ ListInvestors(who, filter) \subseteq Entity
             /\ \A part \in {"row"} \X ListInvestors(who, filter) : part[2] \in Book(who)
  BY DEF ListInvestors, Book, Part, Entity
<1>5. CASE OpenList
  <2>1. PICK who \in Staff, filter \in {"all", "pending"} :
          Opened(who, "list", "more", <<>>, {}, {"row"} \X ListInvestors(who, filter))
    BY <1>5 DEF OpenList
  <2> DEFINE rows == {"row"} \X ListInvestors(who, filter)
             todo == <<>>
  <2>2. /\ rows \in SUBSET Part /\ \A part \in rows : part[2] \in Book(who)
        /\ todo \in Seq(Part)
    BY <1>4
  <2>3. Opened(who, "list", "more", todo, {}, rows)
    BY <2>1
  <2>. HIDE DEF rows, todo
  <2>. QED
    BY <2>2, <2>3, OpenedKeeps
<1>6. CASE OpenChecklist
  <2>1. PICK who \in Staff :
          Opened(who, "checklist", "more", <<>>, {}, {"row"} \X ListInvestors(who, "all"))
    BY <1>6 DEF OpenChecklist
  <2> DEFINE rows == {"row"} \X ListInvestors(who, "all")
             todo == <<>>
  <2>2. /\ rows \in SUBSET Part /\ \A part \in rows : part[2] \in Book(who)
        /\ todo \in Seq(Part)
    BY <1>4
  <2>3. Opened(who, "checklist", "more", todo, {}, rows)
    BY <2>1
  <2>. HIDE DEF rows, todo
  <2>. QED
    BY <2>2, <2>3, OpenedKeeps
<1>7. CASE OpenDocuments
  <2>1. PICK who \in Staff :
          Opened(who, "documents", "owners", <<>>, ListInvestors(who, "all"), {})
    BY <1>7 DEF OpenDocuments
  <2> DEFINE rows == ListInvestors(who, "all")
             todo == <<>>
  <2>2. /\ rows \in SUBSET Entity /\ todo \in Seq(Part)
        /\ Opened(who, "documents", "owners", todo, rows, {})
    BY <1>4, <2>1
  <2>. HIDE DEF rows, todo
  <2>. QED
    BY <2>1, <2>2, OpenedKeeps
<1>8. CASE OpenFeed
  <2>1. PICK who \in Staff, from \in Int :
          /\ Opened(who, "feed", "leads", SubSeq(events, from, Len(events)), {}, {})
          /\ from >= 1
    <3>1. PICK who \in Staff :
            LET most == IF who \in Supers THEN FeedLimit ELSE Overfetch
                from == IF Len(events) > most THEN Len(events) - most + 1 ELSE 1
            IN  Opened(who, "feed", "leads", SubSeq(events, from, Len(events)), {}, {})
      BY <1>8 DEF OpenFeed
    <3> DEFINE most == IF who \in Supers THEN FeedLimit ELSE Overfetch
               from == IF Len(events) > most THEN Len(events) - most + 1 ELSE 1
    <3>2. most \in Nat /\ Len(events) \in Nat
      BY StaffDeskAssumption
    <3>3. from \in Int /\ from >= 1
      BY <3>2
    <3>. QED
      BY <3>1, <3>3
  <2>2. SubSeq(events, from, Len(events)) \in Seq(Part)
    <3>1. \A k \in from .. Len(events) : events[k] \in Part
      BY <2>1, ElementOfSeq
    <3>. QED
      BY <2>1, <3>1, SubSeqProperties
  <2> DEFINE todo == SubSeq(events, from, Len(events))
  <2>3. todo \in Seq(Part) /\ Opened(who, "feed", "leads", todo, {}, {})
    BY <2>1, <2>2
  <2>. HIDE DEF todo
  <2>. QED
    BY <2>3, OpenedKeeps
<1>9. CASE OpenLeads
  <2>0. PICK who \in Staff : \E f \in Filters(who) : OpenTable(who, f)
    BY <1>9 DEF OpenLeads
  <2>1. PICK f \in Filters(who) : OpenTable(who, f)
    BY <2>0
  <2>2. f \in Filter
    <3>1. AnyLead \in Filter
      BY DEF AnyLead, Filter
    <3>2. Queue \in Filter /\ TeamLeads \in Filter
      BY <3>1 DEF Queue, TeamLeads, Filter
    <3>3. [AnyLead EXCEPT !.status = "converted"] \in Filter
      BY <3>1 DEF Filter
    <3>. QED
      BY <3>1, <3>2, <3>3 DEF Filters
  <2>3. SearchLeads(who, f) \subseteq Lead /\ {"row"} \X SearchLeads(who, f) \subseteq Part
    BY DEF SearchLeads, Part, Entity
  <2> DEFINE rows == SearchLeads(who, f)
             shown == {"row"} \X SearchLeads(who, f)
  <2>4. rows \in SUBSET Lead /\ shown \in SUBSET Part
    BY <2>3
  <2>. HIDE DEF rows, shown
  <2>5. page' = [who |-> who, kind |-> "leads", at |-> "done", todo |-> <<>>, found |-> {},
                 shown |-> shown, book |-> {}]
    BY <2>1 DEF OpenTable, NoPage, shown
  <2>6. table' = [at |-> "idle", filter |-> f, rows |-> rows, selected |-> {}, ids |-> {},
                  to |-> "contacted", failed |-> {}, again |-> FALSE]
    BY <2>1 DEF OpenTable, NoTable, rows
  <2>7. page' \in Page /\ table' \in TableState
    BY <2>2, <2>4, <2>5, <2>6 DEF Page, TableState, Settable
  <2>8. DeskTypeOK'
    BY <2>1, <2>7 DEF OpenTable, db, DeskInv, DeskTypeOK
  <2>9. BookKept' /\ RowsKept'
    BY <2>5, <2>6 DEF BookKept, RowsKept, SelectionShown, Loading
  <2>10. ~Loading
    BY <2>1 DEF OpenTable, db, DeskInv, Loading, NoPage
  <2>. QED
    BY <2>8, <2>9, <2>10 DEF DeskInv
<1>. QED
  BY <1>1, <1>2, <1>3, <1>5, <1>6, <1>7, <1>8, <1>9 DEF Pages

\* A page that goes on remembers the book of now, and adds what it was told.
LEMMA ShowKeeps ==
    ASSUME DeskInv, Loading, UNCHANGED <<db, table>>,
           NEW at \in {"row", "check", "done"}, NEW parts \in SUBSET Part, NEW todo \in Seq(Part),
           at # "done" => todo # <<>>,
           Show(at, parts, todo),
           \A part \in parts : part[2] \in page.book
    PROVE  DeskInv' /\ Scoped
<1>1. page \in Page /\ table \in TableState /\ table.at = "none"
  BY DEF DeskInv, DeskTypeOK, BookKept, Loading, TableState
<1> DEFINE book == IF at = "done" THEN {} ELSE Book(page.who)
           shown == page.shown \cup parts
<1>2. book \in SUBSET Entity /\ shown \in SUBSET Part
  BY <1>1, BookHolds DEF Page
<1>3. page' = [page EXCEPT !.at = at, !.shown = shown, !.todo = todo, !.book = book]
  BY DEF Show
<1>4. at # "done" => book = Book(page.who)
  OBVIOUS
<1>5. shown \ page.shown \subseteq parts
  OBVIOUS
<1>. HIDE DEF book, shown
<1>6. page' \in Page
  BY <1>1, <1>2, <1>3 DEF Page
<1>7. page'.at = at /\ page'.todo = todo /\ page'.book = book /\ page'.who = page.who
      /\ page'.shown = shown
  BY <1>1, <1>3 DEF Page
<1>8. Book(page.who)' = Book(page.who)
  BY <1>7 DEF Book, LeadVisible, InvestorVisible, db
<1>9. BookKept'
  BY <1>1, <1>4, <1>7, <1>8 DEF BookKept, Loading
<1>10. DeskTypeOK' /\ RowsKept'
  BY <1>6 DEF DeskInv, DeskTypeOK, RowsKept, SelectionShown, db
<1>11. Scoped
  BY <1>5, <1>7 DEF Scoped
<1>. QED
  BY <1>9, <1>10, <1>11 DEF DeskInv

\* A page that is refused shows nothing, and is finished.
LEMMA GoneKeeps ==
    ASSUME DeskInv, Loading, UNCHANGED <<db, table>>, Gone
    PROVE  DeskInv' /\ Scoped
<1>1. page \in Page /\ table \in TableState /\ table.at = "none"
  BY DEF DeskInv, DeskTypeOK, BookKept, Loading, TableState
<1>2. page' \in Page /\ page'.at = "gone" /\ page'.shown = {}
  <2> DEFINE todo == <<>>
             shown == {}
  <2>1. todo \in Seq(Part) /\ shown \in SUBSET Part /\ shown \in SUBSET Entity
        /\ page' = [page EXCEPT !.at = "gone", !.todo = todo, !.shown = shown, !.book = shown]
    BY DEF Gone
  <2>. HIDE DEF todo, shown
  <2>2. page' \in Page /\ page'.at = "gone" /\ page'.shown = shown
    BY <1>1, <2>1 DEF Page
  <2>. QED
    BY <2>2 DEF shown
<1>3. BookKept'
  BY <1>1, <1>2 DEF BookKept, Loading
<1>4. DeskTypeOK' /\ RowsKept'
  BY <1>2 DEF DeskInv, DeskTypeOK, RowsKept, SelectionShown, db
<1>5. Scoped
  BY <1>2 DEF Scoped
<1>. QED
  BY <1>3, <1>4, <1>5 DEF DeskInv

\* A part that is refused adds nothing.
LEMMA RefusedKeeps ==
    ASSUME DeskInv, Loading, UNCHANGED <<db, table>>, Refused
    PROVE  DeskInv' /\ Scoped
<1>1. CASE Gone
  BY <1>1, GoneKeeps
<1>2. CASE Show("done", {}, <<>>)
  <2> DEFINE todo == <<>>
             parts == {}
  <2>1. todo \in Seq(Part) /\ parts \in SUBSET Part /\ (\A part \in parts : part[2] \in page.book)
        /\ Show("done", parts, todo)
    BY <1>2
  <2>. HIDE DEF todo, parts
  <2>. QED
    BY <2>1, ShowKeeps
<1>. QED
  BY <1>1, <1>2 DEF Refused

\* A page is done when nothing is left to read.
LEMMA AfterMore ==
    ASSUME NEW todo
    PROVE  /\ After(todo) \in {"row", "check", "done"}
           /\ After(todo) # "done" => todo # <<>>
  BY DEF After

\* Each read shows what is in the reader's book now, or has been since the
\* part was checked.
LEMMA ReadsKeep ==
    ASSUME DeskInv, Reads
    PROVE  DeskInv' /\ Scoped
<1>0. /\ page \in Page /\ page.todo \in Seq(Part) /\ page.shown \in SUBSET Part
      /\ page.found \in SUBSET Entity
      /\ lead \in [Lead -> LeadRow] /\ investor \in [Investor -> InvestorRow]
  BY DEF DeskInv, DeskTypeOK, Page
<1>1. Loading /\ UNCHANGED <<db, table>>
  BY DEF Reads, ReadRow, CheckPart, ReadPart, ReadMore, ReadDocumentOwners, ReadEventLeads,
     ReadEventOwners, Loading
<1>2. \A e \in Entity : Visible(page.who, e) => e \in page.book
  BY <1>1, BookHolds DEF DeskInv, BookKept
<1>3. page.at \in {"row", "check", "read"} =>
        /\ page.todo # <<>> /\ Head(page.todo) \in Part /\ Tail(page.todo) \in Seq(Part)
        /\ Head(page.todo)[2] \in Entity
  BY <1>0, HeadTailProperties, PartTyped DEF DeskInv, BookKept
<1>4. CASE ReadRow
  <2> DEFINE e == Head(page.todo)[2]
             more == IF e \in Lead THEN AfterLead(e, Tail(page.todo))
                                   ELSE AfterInvestor(e, Tail(page.todo))
             parts == {Head(page.todo)}
  <2>1. page.at = "row"
    BY <1>4 DEF ReadRow
  <2>2. e \in Entity /\ Tail(page.todo) \in Seq(Part) /\ parts \in SUBSET Part
    BY <1>3, <2>1
  <2>3. more \in Seq(Part)
    <3>1. CASE e \in Lead
      <4>1. lead[e].investor \in Investor \cup {None}
        BY <1>0, <3>1 DEF LeadRow
      <4>2. CASE lead[e].investor = None
        BY <2>2, <3>1, <4>2 DEF AfterLead
      <4>3. CASE lead[e].investor # None
        <5>1. << Detail(lead[e].investor) >> \in Seq(Part)
          BY <4>1, <4>3 DEF Detail, Part, Entity
        <5>. QED
          BY <2>2, <3>1, <4>3, <5>1, ConcatProperties DEF AfterLead
      <4>. QED
        BY <4>2, <4>3
    <3>2. CASE e \notin Lead
      <4>1. << SignIns(e) >> \in Seq(Part)
        BY <2>2 DEF SignIns, Part
      <4>2. <<>> \in Seq(Part)
        OBVIOUS
      <4>. QED
        BY <2>2, <3>2, <4>1, <4>2, ConcatProperties DEF AfterInvestor
    <3>. QED
      BY <3>1, <3>2
  <2>4. IF Visible(page.who, e) THEN Show(After(more), parts, more) ELSE Refused
    BY <1>4 DEF ReadRow
  <2>5. Visible(page.who, e) => \A part \in parts : part[2] \in page.book
    BY <1>2, <2>2
  <2>. HIDE DEF e, more, parts
  <2>. QED
    BY <1>1, <2>2, <2>3, <2>4, <2>5, RefusedKeeps, ShowKeeps, AfterMore
<1>5. CASE CheckPart
  <2>1. page.at = "check"
    BY <1>5 DEF CheckPart
  <2>2. CASE ~MayRead(page.who, Head(page.todo))
    BY <1>1, <1>5, <2>2, RefusedKeeps DEF CheckPart
  <2>3. CASE MayRead(page.who, Head(page.todo))
    <3>1. page' = [page EXCEPT !.at = "read"]
      BY <1>5, <2>3 DEF CheckPart
    <3>2. /\ page' \in Page /\ page'.at = "read" /\ page'.who = page.who
          /\ page'.todo = page.todo /\ page'.shown = page.shown /\ page'.book = page.book
      BY <1>0, <3>1 DEF Page
    <3>3. Head(page.todo)[2] \in page.book
      BY <1>2, <1>3, <2>1, <2>3 DEF MayRead
    <3>4. Book(page.who)' = Book(page.who)
      BY <1>1, <3>2 DEF Book, LeadVisible, InvestorVisible, db
    <3>5. BookKept'
      BY <1>1, <2>1, <3>2, <3>3, <3>4 DEF DeskInv, BookKept, Loading
    <3>6. DeskTypeOK' /\ RowsKept'
      BY <1>1, <3>2 DEF DeskInv, DeskTypeOK, RowsKept, SelectionShown, db
    <3>7. Scoped
      BY <3>2 DEF Scoped
    <3>. QED
      BY <3>5, <3>6, <3>7 DEF DeskInv
  <2>. QED
    BY <2>2, <2>3
<1>6. CASE ReadPart
  <2> DEFINE parts == {Head(page.todo)}
             todo == Tail(page.todo)
  <2>1. page.at = "read" /\ Show(After(todo), parts, todo)
    BY <1>6 DEF ReadPart
  <2>2. parts \in SUBSET Part /\ todo \in Seq(Part) /\ \A part \in parts : part[2] \in page.book
    BY <1>3, <2>1 DEF DeskInv, BookKept
  <2>. HIDE DEF parts, todo
  <2>. QED
    BY <1>1, <2>1, <2>2, ShowKeeps, AfterMore
<1>7. CASE ReadMore
  <2> DEFINE parts == {<<"more", part[2]>> : part \in page.shown}
             todo == <<>>
  <2>1. page.at = "more" /\ Show("done", parts, todo) /\ todo \in Seq(Part)
    BY <1>7 DEF ReadMore
  <2>2. parts \in SUBSET Part
    BY <1>0, PartTyped DEF Part
  <2>3. \A part \in parts : part[2] \in page.book
    BY <2>1 DEF DeskInv, BookKept
  <2>. HIDE DEF parts, todo
  <2>. QED
    BY <1>1, <2>1, <2>2, <2>3, ShowKeeps
<1>8. CASE ReadDocumentOwners
  <2> DEFINE parts == {"row"} \X {i \in page.found : Visible(page.who, i)}
             todo == <<>>
  <2>1. Show("done", parts, todo) /\ todo \in Seq(Part)
    BY <1>8 DEF ReadDocumentOwners
  <2>2. parts \in SUBSET Part
    BY <1>0 DEF Part
  <2>3. \A part \in parts : part[2] \in page.book
    BY <1>0, <1>2
  <2>. HIDE DEF parts, todo
  <2>. QED
    BY <1>1, <2>1, <2>2, <2>3, ShowKeeps
<1>9. CASE ReadEventLeads
  <2> DEFINE found == {l \in {part[2] : part \in ToSet(page.todo)} \cap Lead :
                         LeadVisible(page.who, l)}
  <2>1. page.at = "leads" /\ page' = [page EXCEPT !.at = "owners", !.found = found]
    BY <1>9 DEF ReadEventLeads
  <2>2. found \in SUBSET Entity /\ found \subseteq page.book
    BY <1>2 DEF Entity, Visible
  <2>. HIDE DEF found
  <2>3. /\ page' \in Page /\ page'.at = "owners" /\ page'.who = page.who
        /\ page'.found = found /\ page'.shown = page.shown /\ page'.book = page.book
    BY <1>0, <2>1, <2>2 DEF Page
  <2>4. Book(page.who)' = Book(page.who)
    BY <1>1, <2>3 DEF Book, LeadVisible, InvestorVisible, db
  <2>5. BookKept'
    BY <1>1, <2>1, <2>2, <2>3, <2>4 DEF DeskInv, BookKept, Loading
  <2>6. DeskTypeOK' /\ RowsKept'
    BY <1>1, <2>3 DEF DeskInv, DeskTypeOK, RowsKept, SelectionShown, db
  <2>7. Scoped
    BY <2>3 DEF Scoped
  <2>. QED
    BY <2>5, <2>6, <2>7 DEF DeskInv
<1>10. CASE ReadEventOwners
  <2> DEFINE kept == {k \in DOMAIN page.todo : EventVisible(page.todo[k])}
             parts == {page.todo[k] : k \in Newest(kept)}
             todo == <<>>
  <2>1. /\ page.at = "owners" /\ page.kind = "feed"
        /\ Show("done", parts, todo) /\ todo \in Seq(Part)
    BY <1>10 DEF ReadEventOwners
  <2>2. Newest(kept) \subseteq kept
    BY DEF Newest
  <2>3. ASSUME NEW k \in kept
        PROVE  page.todo[k] \in Part /\ page.todo[k][2] \in page.book
    <3>1. page.todo[k] \in Part /\ EventVisible(page.todo[k])
      BY <1>0, <2>3, LenProperties, ElementOfSeq
    <3>2. page.todo[k][2] \in Entity
      BY <3>1, PartTyped
    <3>3. CASE page.todo[k][2] \in Lead
      BY <2>1, <3>1, <3>3 DEF EventVisible, DeskInv, BookKept
    <3>4. CASE page.todo[k][2] \notin Lead
      BY <1>2, <3>1, <3>2, <3>4 DEF EventVisible, Visible
    <3>. QED
      BY <3>1, <3>3, <3>4
  <2>4. parts \in SUBSET Part /\ \A part \in parts : part[2] \in page.book
    BY <2>2, <2>3
  <2>. HIDE DEF parts, todo
  <2>. QED
    BY <1>1, <2>1, <2>4, ShowKeeps
<1>. QED
  BY <1>4, <1>5, <1>6, <1>7, <1>8, <1>9, <1>10 DEF Reads

-----------------------------------------------------------------------------
(* The desk: the table                                                      *)

\* A step of the table on the screen leaves its rows, and nothing outside them.
LEMMA TableKeeps ==
    ASSUME DeskInv, table.at # "none", UNCHANGED <<db, page>>, table' \in TableState,
           table'.rows = table.rows, table'.selected \subseteq table.rows,
           table'.failed \subseteq table.rows,
           table'.at = "post" => table'.ids \subseteq table.rows
    PROVE  DeskInv' /\ Scoped
<1>1. DeskTypeOK'
  BY DEF DeskInv, DeskTypeOK, db
<1>2. RowsKept'
  BY DEF RowsKept, SelectionShown
<1>3. BookKept' /\ Scoped
  BY DEF DeskInv, BookKept, Loading, Scoped, Book, LeadVisible, InvestorVisible, db
<1>. QED
  BY <1>1, <1>2, <1>3 DEF DeskInv

\* Toggles add rows of the screen, a posted change keeps them on it, and rows
\* fetched again empty the selection unless they are the same.
LEMMA TableStepsKeep ==
    ASSUME DeskInv, ToggleOne \/ ToggleAll \/ RunBulk \/ RunBulkResult \/ CommitRows
    PROVE  DeskInv' /\ Scoped
<1>0. /\ table \in TableState /\ page \in Page
      /\ table.selected \subseteq table.rows /\ table.failed \subseteq table.rows
      /\ table.at = "post" => table.ids \subseteq table.rows
      /\ table.rows \in SUBSET Lead
  BY DEF DeskInv, DeskTypeOK, RowsKept, SelectionShown, TableState
<1>1. CASE ToggleOne
  <2>1. PICK l \in table.rows :
          OnTable /\ table' = [table EXCEPT !.selected = SymDiff(@, {l})]
    BY <1>1 DEF ToggleOne
  <2> DEFINE new == SymDiff(table.selected, {l})
  <2>2. new \subseteq table.rows
    BY <1>0 DEF SymDiff
  <2>3. table' = [table EXCEPT !.selected = new]
    BY <2>1
  <2>. HIDE DEF new
  <2>. QED
    BY <1>0, <2>1, <2>2, <2>3, TableKeeps DEF OnTable, TableState
<1>2. CASE ToggleAll
  <2> DEFINE new == IF table.rows \subseteq table.selected THEN {} ELSE table.rows
  <2>1. OnTable /\ table' = [table EXCEPT !.selected = new]
    BY <1>2 DEF ToggleAll
  <2>2. new \subseteq table.rows
    OBVIOUS
  <2>. HIDE DEF new
  <2>. QED
    BY <1>0, <2>1, <2>2, TableKeeps DEF OnTable, TableState
<1>3. CASE RunBulk
  <2>1. PICK to \in BulkStages :
          /\ OnTable
          /\ table' = [table EXCEPT !.at = "post", !.ids = table.selected, !.to = to, !.failed = {}]
    BY <1>3 DEF RunBulk
  <2>2. to \in Settable
    BY DEF BulkStages, Settable
  <2>. QED
    BY <1>0, <2>1, <2>2, TableKeeps DEF OnTable, TableState
<1>4. CASE RunBulkResult
  <2> DEFINE again == table.again \/ table.ids \ table.failed # {}
  <2>1. /\ OnTable
        /\ table' = [table EXCEPT !.at = "idle", !.selected = table.failed, !.again = again]
    BY <1>4 DEF RunBulkResult
  <2>2. PICK b \in BOOLEAN : b = again
    OBVIOUS
  <2>. HIDE DEF again
  <2>3. table' = [table EXCEPT !.at = "idle", !.selected = table.failed, !.again = b]
    BY <2>1, <2>2
  <2>. QED
    BY <1>0, <2>1, <2>3, TableKeeps DEF OnTable, TableState
<1>5. CASE CommitRows
  <2> DEFINE rows == SearchLeads(page.who, table.filter)
             selected == Selection(rows)
             failed == IF rows = table.rows THEN table.failed ELSE {}
             shown == {"row"} \X rows
  <2>1. rows \in SUBSET Lead
    BY DEF SearchLeads
  <2>2. selected \subseteq rows /\ failed \subseteq rows
    BY <1>0 DEF Selection
  <2>3. shown \in SUBSET Part
    BY <2>1 DEF Part, Entity
  <2>4. /\ table.at = "idle" /\ UNCHANGED db
        /\ page' = [page EXCEPT !.shown = shown]
        /\ table' = [table EXCEPT !.rows = rows, !.selected = selected, !.again = FALSE,
                                  !.failed = failed]
    BY <1>5 DEF CommitRows
  <2>. HIDE DEF rows, selected, failed, shown
  <2>5. page.at = "done"
    BY <2>4 DEF DeskInv, BookKept
  <2>6. page' \in Page /\ page'.at = "done"
    BY <1>0, <2>3, <2>4, <2>5 DEF Page
  <2>7. table' \in TableState /\ RowsKept'
    BY <1>0, <2>1, <2>2, <2>4 DEF TableState, RowsKept, SelectionShown
  <2>8. DeskTypeOK'
    BY <2>4, <2>6, <2>7 DEF DeskInv, DeskTypeOK, db
  <2>9. BookKept' /\ Scoped
    BY <2>5, <2>6 DEF BookKept, Loading, Scoped
  <2>. QED
    BY <2>7, <2>8, <2>9 DEF DeskInv
<1>. QED
  BY <1>1, <1>2, <1>3, <1>4, <1>5

-----------------------------------------------------------------------------
(* The desk: what everybody writes                                          *)

\* A write adds what it brings into the reader's book to what the page
\* remembers.
LEMMA WroteKeeps ==
    ASSUME DeskInv, NEW line \in Seq(Part), Wrote(line),
           lead' \in [Lead -> LeadRow], investor' \in [Investor -> InvestorRow],
           active' \subseteq Agents, table' \in TableState, RowsKept',
           table'.at # "none" => table.at # "none"
    PROVE  DeskInv' /\ Scoped
<1>1. /\ page \in Page /\ events \in Seq(Part) /\ writes \in Nat /\ writes < MaxWrites
      /\ MaxWrites \in Nat
  BY StaffDeskAssumption DEF DeskInv, DeskTypeOK, Wrote
<1>2. PICK who \in {page.who} :
        page' = [page EXCEPT !.book = IF Loading THEN @ \cup Book(who)' ELSE {}]
  BY DEF Wrote
<1> DEFINE now_book == Book(who)'
           book == IF Loading THEN page.book \cup now_book ELSE {}
<1>3. now_book \subseteq Entity
  BY DEF Book, Entity
<1>4. book \in SUBSET Entity
  BY <1>1, <1>3 DEF Page
<1>5. page' = [page EXCEPT !.book = book]
  BY <1>2
<1>6. Loading => page.book \cup now_book \subseteq book
  OBVIOUS
<1>. HIDE DEF book
<1>7. /\ page' \in Page /\ page'.book = book /\ page'.who = page.who /\ page'.at = page.at
      /\ page'.todo = page.todo /\ page'.shown = page.shown /\ page'.kind = page.kind
      /\ page'.found = page.found
  BY <1>1, <1>4, <1>5 DEF Page
<1>8. Book(page.who)' = now_book
  BY <1>2, <1>7 DEF Book, LeadVisible, InvestorVisible
<1>. HIDE DEF now_book
<1>9. BookKept'
  BY <1>6, <1>7, <1>8 DEF DeskInv, BookKept, Loading
<1>10. DeskTypeOK'
  <2>1. events' \in Seq(Part)
    BY <1>1, ConcatProperties DEF Wrote
  <2>2. writes' \in 0..MaxWrites /\ now' = now
    BY <1>1 DEF Wrote
  <2>. QED
    BY <1>7, <2>1, <2>2 DEF DeskInv, DeskTypeOK
<1>11. Scoped
  BY <1>7 DEF Scoped
<1>. QED
  BY <1>9, <1>10, <1>11 DEF DeskInv

\* One line about one record.
LEMMA LineTyped ==
    ASSUME NEW e \in Entity
    PROVE  << <<"line", e>> >> \in Seq(Part) /\ << <<"interest", e>> >> \in Seq(Part)
  BY DEF Part

\* New rows of leads alone.
LEMMA LeadsWritten ==
    ASSUME DeskInv, NEW line \in Seq(Part), Wrote(line), lead' \in [Lead -> LeadRow],
           UNCHANGED <<investor, active>>, table' \in TableState, RowsKept',
           table'.at # "none" => table.at # "none"
    PROVE  DeskInv' /\ Scoped
<1>1. investor' \in [Investor -> InvestorRow] /\ active' \subseteq Agents
  BY DEF DeskInv, DeskTypeOK
<1>. QED
  BY <1>1, WroteKeeps

\* A new row of one investor.
LEMMA InvestorWritten ==
    ASSUME DeskInv, NEW i \in Investor, NEW new \in InvestorRow,
           NEW line \in Seq(Part), WroteInvestor(i, new, line)
    PROVE  DeskInv' /\ Scoped
<1>1. /\ investor' = [investor EXCEPT ![i] = new] /\ UNCHANGED <<lead, active, table>>
      /\ Wrote(line)
  BY DEF WroteInvestor
<1>2. investor' \in [Investor -> InvestorRow]
  BY <1>1 DEF DeskInv, DeskTypeOK
<1>3. lead' \in [Lead -> LeadRow] /\ active' \subseteq Agents /\ table' \in TableState
      /\ RowsKept'
  BY <1>1 DEF DeskInv, DeskTypeOK, RowsKept, SelectionShown
<1>. QED
  BY <1>1, <1>2, <1>3, WroteKeeps

\* New owners of leads, and of the investors that follow them.
LEMMA GivenTo ==
    ASSUME DeskInv, NEW D \in SUBSET Lead, NEW rows \in [D -> LeadRow], GiveTo(rows)
    PROVE  DeskInv' /\ Scoped
<1>0. lead \in [Lead -> LeadRow] /\ investor \in [Investor -> InvestorRow]
  BY DEF DeskInv, DeskTypeOK
<1>1. lead' \in [Lead -> LeadRow]
  <2>1. ASSUME NEW l \in D
        PROVE  [rows[l] EXCEPT !.touched = now] \in LeadRow
    <3>1. rows[l] \in LeadRow /\ now \in 0..MaxNow
      BY DEF DeskInv, DeskTypeOK
    <3>. QED
      BY <3>1 DEF LeadRow
  <2>. QED
    BY <1>0, <2>1 DEF GiveTo
<1>2. ASSUME NEW i \in Investor
      PROVE  investor'[i] \in InvestorRow
  <2>1. investor[i] \in InvestorRow
    BY <1>0
  <2>2. CASE \E l \in D : rows[l].investor = i
    <3> DEFINE l == CHOOSE k \in D : rows[k].investor = i
    <3>1. l \in D /\ rows[l] \in LeadRow
      BY <2>2
    <3>2. investor'[i] = [investor[i] EXCEPT !.ib = rows[l].ib, !.agent = rows[l].agent]
      BY <2>2 DEF GiveTo
    <3>3. rows[l].ib \in Ibs \cup {None} /\ rows[l].agent \in Agents \cup {None}
      BY <3>1 DEF LeadRow
    <3>. HIDE DEF l
    <3>. QED
      BY <2>1, <3>2, <3>3 DEF InvestorRow
  <2>3. CASE ~\E l \in D : rows[l].investor = i
    <3>1. investor'[i] = investor[i]
      BY <2>3 DEF GiveTo
    <3>. QED
      BY <2>1, <3>1
  <2>. QED
    BY <2>2, <2>3
<1>3. investor' \in [Investor -> InvestorRow]
  <2>1. \E f : investor' = [i \in Investor |-> f[i]]
    <3>1. investor' = [i \in Investor |-> investor'[i]]
      BY DEF GiveTo
    <3>. QED
      BY <3>1
  <2>. QED
    BY <1>2, <2>1
<1>4. UNCHANGED <<active, table>> /\ Wrote(SetToSeq({"line"} \X D))
  BY DEF GiveTo
<1>5. active' \subseteq Agents /\ table' \in TableState /\ RowsKept'
  BY <1>4 DEF DeskInv, DeskTypeOK, RowsKept, SelectionShown
<1>6. SetToSeq({"line"} \X D) \in Seq(Part)
  BY LinesTyped
<1>. QED
  BY <1>1, <1>3, <1>4, <1>5, <1>6, WroteKeeps

\* The rows of leads that the panel offers are rows.
LEMMA RoutesTyped ==
    ASSUME NEW who, active \subseteq Agents, NEW old \in LeadRow, NEW new \in Routes(who, old)
    PROVE  new \in LeadRow
<1>1. Roster(who) \subseteq Agents /\ \A a \in Agents : Team[a] \in Ibs
  BY StaffDeskAssumption DEF Roster
<1>2. CASE \E a \in Roster(who) : new = [old EXCEPT !.agent = a, !.ib = Team[a]]
  BY <1>1, <1>2 DEF LeadRow
<1>3. CASE new = [old EXCEPT !.agent = None]
  BY <1>3 DEF LeadRow
<1>4. CASE \E b \in Ibs : new = [old EXCEPT !.ib = b, !.agent = None]
  BY <1>4 DEF LeadRow
<1>5. CASE new = [old EXCEPT !.ib = None, !.agent = None]
  BY <1>5 DEF LeadRow
<1>. QED
  <2>1. CASE new \in {[old EXCEPT !.agent = a, !.ib = Team[a]] : a \in Roster(who) \ {old.agent}}
    BY <1>2, <2>1
  <2>2. CASE new \in {[old EXCEPT !.ib = b, !.agent = None] : b \in Ibs \ {old.ib}}
    BY <1>4, <2>2
  <2>. QED
    BY <1>3, <1>5, <2>1, <2>2, Zenon DEF Routes

\* Setting a stage, or logging a call, keeps a row a row.
LEMMA StageTyped ==
    ASSUME DeskTypeOK, NEW l \in Lead, NEW to \in Settable
    PROVE  SetStage(l, to) \in LeadRow
<1>1. lead[l] \in LeadRow /\ now \in 0..MaxNow
  BY DEF DeskTypeOK
<1>. QED
  BY <1>1 DEF SetStage, LeadRow

\* Whoever works on a lead, alone or in a list, writes rows, and what a posted
\* change could not do is part of what was posted.
LEMMA LeadStepsKeep ==
    ASSUME DeskInv, AssignFromPanel \/ AssignAll \/ HandleStageChange \/ LogCall
                    \/ BulkSetLeadStatus
    PROVE  DeskInv' /\ Scoped
<1>0. /\ lead \in [Lead -> LeadRow] /\ investor \in [Investor -> InvestorRow]
      /\ active \subseteq Agents /\ table \in TableState /\ now \in 0..MaxNow
      /\ DeskTypeOK
  BY DEF DeskInv, DeskTypeOK
<1>1. CASE AssignFromPanel
  <2>1. PICK who \in Supers \cup Ibs, l \in Lead :
          \E new \in Routes(who, lead[l]) \ {lead[l]} : GiveTo([k \in {l} |-> new])
    BY <1>1 DEF AssignFromPanel
  <2>2. PICK new \in Routes(who, lead[l]) : GiveTo([k \in {l} |-> new])
    BY <2>1
  <2> DEFINE rows == [k \in {l} |-> new]
             D == {l}
  <2>3. new \in LeadRow
    BY <1>0, <2>2, RoutesTyped
  <2>4. rows \in [D -> LeadRow] /\ D \in SUBSET Lead /\ GiveTo(rows)
    BY <2>2, <2>3
  <2>. HIDE DEF rows, D
  <2>. QED
    BY <2>4, GivenTo
<1>2. CASE AssignAll
  <2>1. PICK to \in active \cup Ibs \cup {None} :
          LET listed == {l \in Lead : to # None \/ <<lead[l].ib, lead[l].agent>> # <<None, None>>}
          IN  GiveTo([l \in listed |-> [lead[l] EXCEPT
                        !.agent = IF to \in Agents THEN to ELSE None,
                        !.ib = IF to \in Agents THEN Team[to] ELSE to]])
    BY <1>2 DEF AssignAll
  <2> DEFINE a == IF to \in Agents THEN to ELSE None
             b == IF to \in Agents THEN Team[to] ELSE to
             D == {l \in Lead : to # None \/ <<lead[l].ib, lead[l].agent>> # <<None, None>>}
             rows == [l \in D |-> [lead[l] EXCEPT !.agent = a, !.ib = b]]
  <2>2. a \in Agents \cup {None} /\ b \in Ibs \cup {None}
    BY <1>0, StaffDeskAssumption
  <2>3. GiveTo(rows)
    BY <2>1
  <2>. HIDE DEF a, b
  <2>4. ASSUME NEW l \in Lead
        PROVE  [lead[l] EXCEPT !.agent = a, !.ib = b] \in LeadRow
    BY <1>0, <2>2 DEF LeadRow
  <2>5. rows \in [D -> LeadRow] /\ D \in SUBSET Lead
    BY <2>4
  <2>. HIDE DEF rows, D
  <2>. QED
    BY <2>3, <2>5, GivenTo
<1>3. CASE HandleStageChange
  <2>1. PICK who \in Staff, l \in Lead, to \in Stages :
          /\ lead' = [lead EXCEPT ![l] = SetStage(l, to)]
          /\ table' = [table EXCEPT !.again = @ \/ (who = page.who /\ l \in table.rows)]
          /\ UNCHANGED <<investor, active>>
          /\ Wrote(<< <<"line", l>> >>)
    BY <1>3 DEF HandleStageChange
  <2> DEFINE line == << <<"line", l>> >>
             again == table.again \/ (who = page.who /\ l \in table.rows)
  <2>2. line \in Seq(Part) /\ Wrote(line)
    BY <2>1, LineTyped DEF Entity
  <2>3. lead' \in [Lead -> LeadRow]
    <3>1. SetStage(l, to) \in LeadRow
      BY <1>0, StageTyped, StaffDeskAssumption
    <3>. QED
      BY <1>0, <2>1, <3>1
  <2>4. PICK b \in BOOLEAN : b = again
    OBVIOUS
  <2>5. table' = [table EXCEPT !.again = b]
    BY <2>1, <2>4
  <2>. HIDE DEF line, again
  <2>6. table' \in TableState /\ RowsKept' /\ table'.at = table.at
    BY <1>0, <2>5 DEF TableState, DeskInv, RowsKept, SelectionShown
  <2>. QED
    BY <2>1, <2>2, <2>3, <2>6, LeadsWritten
<1>4. CASE LogCall
  <2>1. PICK l \in Lead, called \in 0..now :
          WroteLeads([lead EXCEPT ![l].touched = IF @ # None /\ @ > called THEN @ ELSE called,
                        ![l].status = IF @ = "new" THEN "contacted" ELSE @], << <<"line", l>> >>)
    BY <1>4 DEF LogCall
  <2> DEFINE line == << <<"line", l>> >>
             status == IF lead[l].status = "new" THEN "contacted" ELSE lead[l].status
             old == lead[l].touched
             touched == IF old # None /\ old > called THEN old ELSE called
             new == [lead[l] EXCEPT !.touched = touched, !.status = status]
  <2>2. line \in Seq(Part)
    BY LineTyped DEF Entity
  <2>3. new \in LeadRow
    <3>1. lead[l] \in LeadRow /\ status \in Terminal \cup Settable
      BY <1>0 DEF LeadRow, Settable
    <3>2. touched \in {None} \cup 0..MaxNow
      BY <1>0, <3>1, StaffDeskAssumption DEF LeadRow
    <3>. HIDE DEF status, touched
    <3>. QED
      BY <1>0, <3>1, <3>2 DEF LeadRow
  <2>4. /\ lead' = [lead EXCEPT ![l] = new]
        /\ UNCHANGED <<investor, active, table>> /\ Wrote(line)
    BY <1>0, <2>1 DEF WroteLeads
  <2>. HIDE DEF line, new
  <2>5. lead' \in [Lead -> LeadRow]
    BY <1>0, <2>3, <2>4
  <2>6. table' \in TableState /\ RowsKept'
    BY <1>0, <2>4 DEF DeskInv, RowsKept, SelectionShown
  <2>. QED
    BY <2>2, <2>4, <2>5, <2>6, LeadsWritten
<1>5. CASE BulkSetLeadStatus
  <2> DEFINE may == {l \in table.ids : MaySetStage(page.who, l)}
             line == SetToSeq({"line"} \X may)
             failed == table.ids \ may
  <2>1. /\ table.at = "post"
        /\ lead' = [l \in Lead |-> IF l \in may THEN SetStage(l, table.to) ELSE lead[l]]
        /\ table' = [table EXCEPT !.at = "result", !.failed = failed]
        /\ UNCHANGED <<investor, active>> /\ Wrote(line)
    BY <1>5 DEF BulkSetLeadStatus
  <2>2. table.ids \in SUBSET Lead /\ table.to \in Settable
    BY <1>0 DEF TableState
  <2>3. may \in SUBSET Lead /\ failed \subseteq table.ids
    BY <2>2
  <2>4. line \in Seq(Part)
    BY <2>3, LinesTyped
  <2>5. lead' \in [Lead -> LeadRow]
    BY <1>0, <2>1, <2>2, StageTyped
  <2>. HIDE DEF may, line, failed
  <2>6. table' \in TableState /\ RowsKept'
    BY <1>0, <2>1, <2>2, <2>3 DEF TableState, DeskInv, RowsKept, SelectionShown
  <2>. QED
    BY <2>1, <2>4, <2>5, <2>6, LeadsWritten
<1>. QED
  BY <1>1, <1>2, <1>3, <1>4, <1>5

\* An agent who leaves takes nobody out of the tables: leads and investors
\* keep their rows, with other owners.
LEMMA DemoteKeeps ==
    ASSUME DeskInv, DemoteAgent
    PROVE  DeskInv' /\ Scoped
<1>0. /\ lead \in [Lead -> LeadRow] /\ investor \in [Investor -> InvestorRow]
      /\ active \subseteq Agents /\ table \in TableState
  BY DEF DeskInv, DeskTypeOK
<1>1. PICK a \in active, keep \in BOOLEAN, b \in Agents \cup {None} :
        /\ active' = active \ {a}
        /\ lead' = [l \in Lead |-> IF lead[l].agent = a
                                   THEN [Moved(lead[l], a, keep, b) EXCEPT !.touched = now]
                                   ELSE lead[l]]
        /\ investor' = [i \in Investor |-> Moved(investor[i], a, keep, b)]
        /\ UNCHANGED table
        /\ Wrote(<<>>)
  BY DEF DemoteAgent
<1> DEFINE line == <<>>
<1>2. line \in Seq(Part) /\ Wrote(line)
  BY <1>1
<1>. HIDE DEF line
<1>3. ASSUME NEW old
      PROVE  \/ Moved(old, a, keep, b) = old
             \/ Moved(old, a, keep, b) = [old EXCEPT !.agent = b, !.ib = Team[b]] /\ b # None
             \/ Moved(old, a, keep, b) = [old EXCEPT !.agent = None]
             \/ Moved(old, a, keep, b) = [old EXCEPT !.agent = None, !.ib = None]
  BY DEF Moved
<1>5. ASSUME NEW l \in Lead
      PROVE  Moved(lead[l], a, keep, b) \in LeadRow
  <2>1. lead[l] \in LeadRow
    BY <1>0
  <2>2. \/ Moved(lead[l], a, keep, b) = lead[l]
        \/ /\ Moved(lead[l], a, keep, b) = [lead[l] EXCEPT !.agent = b, !.ib = Team[b]]
           /\ Team[b] \in Ibs
        \/ Moved(lead[l], a, keep, b) = [lead[l] EXCEPT !.agent = None]
        \/ Moved(lead[l], a, keep, b) = [lead[l] EXCEPT !.agent = None, !.ib = None]
    BY <1>3, StaffDeskAssumption
  <2>. QED
    BY <2>1, <2>2 DEF LeadRow
<1>6. ASSUME NEW i \in Investor
      PROVE  Moved(investor[i], a, keep, b) \in InvestorRow
  <2>1. investor[i] \in InvestorRow
    BY <1>0
  <2>2. \/ Moved(investor[i], a, keep, b) = investor[i]
        \/ /\ Moved(investor[i], a, keep, b) = [investor[i] EXCEPT !.agent = b, !.ib = Team[b]]
           /\ Team[b] \in Ibs
        \/ Moved(investor[i], a, keep, b) = [investor[i] EXCEPT !.agent = None]
        \/ Moved(investor[i], a, keep, b) = [investor[i] EXCEPT !.agent = None, !.ib = None]
    BY <1>3, StaffDeskAssumption
  <2>. QED
    BY <2>1, <2>2 DEF InvestorRow
<1>7. lead' \in [Lead -> LeadRow] /\ investor' \in [Investor -> InvestorRow]
  <2>1. ASSUME NEW l \in Lead
        PROVE  [Moved(lead[l], a, keep, b) EXCEPT !.touched = now] \in LeadRow
    <3>1. now \in 0..MaxNow
      BY DEF DeskInv, DeskTypeOK
    <3>. QED
      BY <1>5, <3>1 DEF LeadRow
  <2>2. lead' \in [Lead -> LeadRow]
    BY <1>0, <1>1, <2>1
  <2>. QED
    BY <1>1, <1>6, <2>2
<1>8. active' \subseteq Agents /\ table' \in TableState /\ RowsKept'
  BY <1>0, <1>1 DEF DeskInv, RowsKept, SelectionShown
<1>. QED
  BY <1>1, <1>2, <1>7, <1>8, WroteKeeps

\* An approval keeps the type of the row.
LEMMA ApprovedTyped ==
    ASSUME NEW old \in InvestorRow
    PROVE  Approved(old) \in InvestorRow
  BY DEF Approved, InvestorRow

\* A conversion writes the lead and its investor, approved or not.
LEMMA ConvertKeeps ==
    ASSUME DeskInv, ConvertLead
    PROVE  DeskInv' /\ Scoped
<1>0. /\ lead \in [Lead -> LeadRow] /\ investor \in [Investor -> InvestorRow]
      /\ active \subseteq Agents /\ table \in TableState
  BY DEF DeskInv, DeskTypeOK
<1>1. PICK l \in Lead, i \in Investor :
        LET new == [investor[i] EXCEPT !.app = IF @ = "none" THEN "submitted" ELSE @]
        IN  /\ lead' = [lead EXCEPT ![l].status = "converted", ![l].investor = i]
            /\ investor' = [investor EXCEPT ![i] =
                 IF new.app # "rejected" THEN Approved(new) ELSE new]
            /\ UNCHANGED <<active, table>>
            /\ Wrote(<< <<"line", i>> >>)
  BY DEF ConvertLead
<1> DEFINE new == [investor[i] EXCEPT !.app = IF @ = "none" THEN "submitted" ELSE @]
           after == IF new.app # "rejected" THEN Approved(new) ELSE new
           moved == [lead[l] EXCEPT !.status = "converted", !.investor = i]
           line == << <<"line", i>> >>
<1>2. /\ lead' = [lead EXCEPT ![l] = moved]
      /\ investor' = [investor EXCEPT ![i] = after]
      /\ UNCHANGED <<active, table>> /\ Wrote(line)
  BY <1>0, <1>1
<1>3. moved \in LeadRow
  <2>1. lead[l] \in LeadRow
    BY <1>0
  <2>. QED
    BY <2>1 DEF LeadRow, Terminal
<1>4. new \in InvestorRow
  <2>1. investor[i] \in InvestorRow
    BY <1>0
  <2>. QED
    BY <2>1 DEF InvestorRow, Open
<1>. HIDE DEF new
<1>5. after \in InvestorRow
  BY <1>4, ApprovedTyped
<1>6. line \in Seq(Part)
  BY LineTyped DEF Entity
<1>. HIDE DEF after, moved, line
<1>7. lead' \in [Lead -> LeadRow] /\ investor' \in [Investor -> InvestorRow]
  BY <1>0, <1>2, <1>3, <1>5
<1>8. active' \subseteq Agents /\ table' \in TableState /\ RowsKept'
  BY <1>0, <1>2 DEF DeskInv, RowsKept, SelectionShown
<1>. QED
  BY <1>2, <1>6, <1>7, <1>8, WroteKeeps

\* What is written about an investor alone is a row, and one line of the feed.
LEMMA InvestorStepsKeep ==
    ASSUME DeskInv, OfInvestors
    PROVE  DeskInv' /\ Scoped
<1>0. investor \in [Investor -> InvestorRow] /\ active \subseteq Agents
  BY DEF DeskInv, DeskTypeOK
<1>1. ASSUME NEW i \in Investor
      PROVE  /\ investor[i] \in InvestorRow
             /\ << <<"line", i>> >> \in Seq(Part) /\ << <<"interest", i>> >> \in Seq(Part)
  BY <1>0, LineTyped DEF DeskInv, Entity
<1>2. CASE AssignInvestor
  <2>1. PICK i \in Investor, a \in active \cup {None} :
          WroteInvestor(i, [investor[i] EXCEPT !.agent = a,
                              !.ib = IF a = None THEN None ELSE Team[a]], << <<"line", i>> >>)
    BY <1>2 DEF AssignInvestor
  <2> DEFINE b == IF a = None THEN None ELSE Team[a]
             new == [investor[i] EXCEPT !.agent = a, !.ib = b]
             line == << <<"line", i>> >>
  <2>2. line \in Seq(Part) /\ WroteInvestor(i, new, line)
    BY <1>1, <2>1
  <2>3. b \in Ibs \cup {None} /\ a \in Agents \cup {None}
    BY <1>0, StaffDeskAssumption
  <2>. HIDE DEF b
  <2>4. new \in InvestorRow
    BY <1>1, <2>3 DEF InvestorRow
  <2>. HIDE DEF new, line
  <2>. QED
    BY <2>2, <2>4, InvestorWritten
<1>3. CASE RunPrimary
  <2>1. PICK i \in Investor : \E step \in {"approve_invite", "approve_kyc", "regenerate_invite"} :
          WroteInvestor(i, CASE step = "approve_invite" -> Approved(investor[i])
                             [] step = "approve_kyc" -> [investor[i] EXCEPT !.kyc = "approved"]
                             [] OTHER -> investor[i],
                        << <<"line", i>> >>)
    BY <1>3 DEF RunPrimary
  <2>2. PICK new \in {Approved(investor[i]), [investor[i] EXCEPT !.kyc = "approved"],
                      investor[i]} :
          WroteInvestor(i, new, << <<"line", i>> >>)
    BY <2>1
  <2> DEFINE line == << <<"line", i>> >>
  <2>3. new \in InvestorRow
    <3>1. [investor[i] EXCEPT !.kyc = "approved"] \in InvestorRow
      BY <1>1 DEF InvestorRow
    <3>. QED
      BY <1>1, <2>2, <3>1, ApprovedTyped
  <2>4. line \in Seq(Part) /\ WroteInvestor(i, new, line)
    BY <1>1, <2>2
  <2>. HIDE DEF line
  <2>. QED
    BY <2>3, <2>4, InvestorWritten
<1>4. CASE RejectFromPanel
  <2>1. PICK i \in Investor :
          \E new \in {[investor[i] EXCEPT !.app = "rejected"],
                      [investor[i] EXCEPT !.kyc = "rejected"]} :
             WroteInvestor(i, new, << <<"line", i>> >>)
    BY <1>4 DEF RejectFromPanel
  <2>2. PICK new \in {[investor[i] EXCEPT !.app = "rejected"],
                      [investor[i] EXCEPT !.kyc = "rejected"]} :
          WroteInvestor(i, new, << <<"line", i>> >>)
    BY <2>1
  <2> DEFINE line == << <<"line", i>> >>
  <2>3. new \in InvestorRow
    BY <1>1, <2>2 DEF InvestorRow
  <2>4. line \in Seq(Part) /\ WroteInvestor(i, new, line)
    BY <1>1, <2>2
  <2>. HIDE DEF line
  <2>. QED
    BY <2>3, <2>4, InvestorWritten
<1>5. CASE Apply
  <2>1. PICK i \in Investor :
          /\ investor[i].account = "pending_access"
          /\ WroteInvestor(i, [investor[i] EXCEPT !.app = "submitted"], << <<"line", i>> >>)
    BY <1>5 DEF Apply
  <2> DEFINE new == [investor[i] EXCEPT !.app = "submitted"]
             line == << <<"line", i>> >>
  <2>2. new \in InvestorRow
    BY <1>1, <2>1 DEF InvestorRow, Open
  <2>3. line \in Seq(Part) /\ WroteInvestor(i, new, line)
    BY <1>1, <2>1
  <2>. HIDE DEF new, line
  <2>. QED
    BY <2>2, <2>3, InvestorWritten
<1>6. CASE SubmitKyc
  <2>1. PICK i \in Investor :
          WroteInvestor(i, [investor[i] EXCEPT !.kyc = "submitted"], << <<"line", i>> >>)
    BY <1>6 DEF SubmitKyc
  <2> DEFINE new == [investor[i] EXCEPT !.kyc = "submitted"]
             line == << <<"line", i>> >>
  <2>2. new \in InvestorRow
    BY <1>1 DEF InvestorRow, KycPending
  <2>3. line \in Seq(Part) /\ WroteInvestor(i, new, line)
    BY <1>1, <2>1
  <2>. HIDE DEF new, line
  <2>. QED
    BY <2>2, <2>3, InvestorWritten
<1>7. CASE InterestMoves
  <2>1. PICK i \in Investor, to \in {"pending", "first_approval", "confirmed", "agreement",
                                     "declined"} :
          WroteInvestor(i, [investor[i] EXCEPT !.ask = to], << <<"interest", i>> >>)
    BY <1>7 DEF InterestMoves
  <2> DEFINE new == [investor[i] EXCEPT !.ask = to]
             line == << <<"interest", i>> >>
  <2>2. new \in InvestorRow
    BY <1>1 DEF InvestorRow
  <2>3. line \in Seq(Part) /\ WroteInvestor(i, new, line)
    BY <1>1, <2>1
  <2>. HIDE DEF new, line
  <2>. QED
    BY <2>2, <2>3, InvestorWritten
<1>. QED
  BY <1>2, <1>3, <1>4, <1>5, <1>6, <1>7 DEF OfInvestors

\* A day that goes by changes no book.
LEMMA TickKeeps ==
    ASSUME DeskInv, Tick
    PROVE  DeskInv' /\ Scoped
<1>1. DeskTypeOK'
  BY StaffDeskAssumption DEF DeskInv, DeskTypeOK, Tick
<1>2. BookKept' /\ RowsKept' /\ Scoped
  BY DEF DeskInv, BookKept, Loading, Book, LeadVisible, InvestorVisible, RowsKept,
     SelectionShown, Scoped, Tick
<1>. QED
  BY <1>1, <1>2 DEF DeskInv

-----------------------------------------------------------------------------
(* The desk: theorems                                                       *)

\* Every step keeps the invariant, and adds to a page only what was in the
\* book that the page remembers.
LEMMA DeskStep ==
    ASSUME DeskInv, [DeskNext]_deskVars
    PROVE  DeskInv' /\ Scoped
<1>1. CASE Pages
  BY <1>1, PagesKeep DEF Scoped
<1>2. CASE Reads
  BY <1>2, ReadsKeep
<1>3. CASE Table
  BY <1>3, TableStepsKeep, LeadStepsKeep DEF Table
<1>4. CASE OfLeads
  BY <1>4, LeadStepsKeep, DemoteKeeps, ConvertKeeps DEF OfLeads
<1>5. CASE OfInvestors
  BY <1>5, InvestorStepsKeep
<1>6. CASE Tick
  BY <1>6, TickKeeps
<1>7. CASE UNCHANGED deskVars
  <2>1. DeskTypeOK'
    BY <1>7 DEF DeskInv, DeskTypeOK, deskVars, db
  <2>2. BookKept' /\ RowsKept' /\ Scoped
    BY <1>7 DEF DeskInv, BookKept, Loading, Book, LeadVisible, InvestorVisible, RowsKept,
       SelectionShown, Scoped, deskVars, db
  <2>. QED
    BY <2>1, <2>2 DEF DeskInv
<1>. QED
  BY <1>1, <1>2, <1>3, <1>4, <1>5, <1>6, <1>7 DEF DeskNext

\* A desk on which no page is open.
LEMMA DeskStart ==
    ASSUME DeskInit
    PROVE  DeskInv
<1>1. PICK s \in Start : lead = s.lead /\ investor = s.investor
  BY DEF DeskInit
<1>2. /\ lead \in [Lead -> LeadRow] /\ investor \in [Investor -> InvestorRow]
  BY <1>1, StaffDeskAssumption
<1> DEFINE none == <<>>
           nobody == {}
<1>3. /\ none \in Seq(Part) /\ nobody \in SUBSET Entity /\ nobody \in SUBSET Part
      /\ page = [who |-> None, kind |-> "none", at |-> "none", todo |-> none,
                 found |-> nobody, shown |-> nobody, book |-> nobody]
      /\ events = none
  BY DEF DeskInit, NoPage
<1>. HIDE DEF none, nobody
<1>4. page \in Page /\ page.at = "none" /\ events \in Seq(Part)
  BY <1>3 DEF Page
<1>5. table \in TableState /\ table.at = "none" /\ RowsKept
  BY DEF DeskInit, NoTable, AnyLead, TableState, Filter, Settable, RowsKept, SelectionShown
<1>6. BookKept
  BY <1>4, <1>5 DEF BookKept, Loading
<1>7. DeskTypeOK
  BY <1>2, <1>4, <1>5, StaffDeskAssumption DEF DeskInit, DeskTypeOK
<1>. QED
  BY <1>2, <1>5, <1>6, <1>7 DEF DeskInv

\* The invariant holds in every state of the desk.
THEOREM DeskInductive == DeskSpec => []DeskInv
<1>1. DeskInit => DeskInv
  BY DeskStart
<1>2. DeskInv /\ [DeskNext]_deskVars => DeskInv'
  BY DeskStep
<1>. QED
  BY <1>1, <1>2, PTL DEF DeskSpec

\* The rows, the page and the table of the desk have their types.
THEOREM DeskTyped == DeskSpec => []DeskTypeOK
<1>1. DeskInv => DeskTypeOK
  BY DEF DeskInv
<1>. QED
  BY <1>1, DeskInductive, PTL

\* The leads selected for a change at once are among the rows on the screen,
\* whatever was posted, answered and fetched again in between.
THEOREM SelectionStays == DeskSpec => []SelectionShown
<1>1. DeskInv => SelectionShown
  BY DEF DeskInv, RowsKept
<1>. QED
  BY <1>1, DeskInductive, PTL

\* Whatever changes hands while a page is put together, each part that is
\* added to it is about a record that was in the reader's book since the part
\* before it was read.
THEOREM ScopedPages == DeskSpec => PagesAreScoped
<1>1. DeskInv /\ [DeskNext]_deskVars =>
        [page.who = page'.who /\ Loading =>
           \A part \in page'.shown \ page.shown : part[2] \in page.book]_deskVars
  BY DeskStep DEF Scoped
<1>. QED
  BY <1>1, DeskInductive, PTL DEF DeskSpec, PagesAreScoped

\* A row has the badge of a stale lead when the database counts it as one.
LEMMA BadgeIsCounted ==
    ASSUME DeskTypeOK, NEW l \in Lead
    PROVE  StaleBadge(l) <=> StaleRow(l)
<1>1. lead[l] \in LeadRow /\ now \in Nat /\ StaleAfter \in Nat /\ MaxNow \in Nat
  BY StaffDeskAssumption DEF DeskTypeOK
<1>2. lead[l].touched \in {None} \cup 0..MaxNow
  BY <1>1 DEF LeadRow
<1>. QED
  BY <1>1, <1>2 DEF StaleBadge, StaleRow

\* The cards about investors count by the conditions of the lists.
LEMMA InvestorCards ==
    ASSUME NEW who \in Staff
    PROVE  \A card \in {"investors", "applications", "requests", "fourEyes", "agreements",
                        "unassigned"} :
             Cards(who)[card] = Behind(who)[card]
<1>1. Cards(who).investors = Behind(who).investors
  BY DEF Cards, Behind, Kpis, ListInvestors
<1>2. Cards(who).applications = Behind(who).applications
  BY DEF Cards, Behind, ListInvestors
<1>3. Cards(who).requests = Behind(who).requests
  BY DEF Cards, Behind, InterestCounts, PendingInterests
<1>4. Cards(who).fourEyes = Behind(who).fourEyes
  BY DEF Cards, Behind, InterestCounts, PendingInterests
<1>5. Cards(who).agreements = Behind(who).agreements
  BY DEF Cards, Behind, AgreementsPage
<1>6. Cards(who).unassigned = Behind(who).unassigned
  BY DEF Cards, Behind, ListInvestors, InvestorVisible
<1>. QED
  BY <1>1, <1>2, <1>3, <1>4, <1>5, <1>6

\* The sections of a page of leads, with the filter of a card, cover the leads
\* that the card counts: a stale lead is still worked on, so the queue's own
\* condition leaves none of them out.
LEMMA LeadCards ==
    ASSUME DeskTypeOK, NEW who \in Staff
    PROVE  /\ Cards(who).stale = Behind(who).stale
           /\ who \notin Supers => Cards(who).leads = Behind(who).leads
<1>1. /\ Queue.status = "" /\ Queue.assignment = "unassigned"
      /\ ~Queue.stale /\ ~Queue.unassigned
  BY DEF Queue, AnyLead
<1>3. Cards(who).stale = Behind(who).stale
  <2> DEFINE f == [AnyLead EXCEPT !.stale = TRUE]
             q == [Queue EXCEPT !.status = f.status, !.stale = f.stale]
             t == [TeamLeads EXCEPT !.status = f.status, !.stale = f.stale]
  <2>1. f.status = "" /\ f.assignment = "any" /\ f.stale /\ ~f.unassigned
    BY DEF AnyLead
  <2>2. LeadsPage(who, f) = IF who \in Ibs THEN SearchLeads(who, q) \cup SearchLeads(who, t)
                                           ELSE SearchLeads(who, f)
    BY DEF LeadsPage
  <2>3. Behind(who).stale = LeadsPage(who, f)
    BY DEF Behind
  <2>. HIDE DEF f
  <2>4. /\ q.status = "" /\ q.assignment = "unassigned" /\ q.stale /\ ~q.unassigned
        /\ t.status = "" /\ t.assignment = "assigned" /\ t.stale /\ ~t.unassigned
    BY <2>1 DEF Queue, TeamLeads, AnyLead
  <2>. HIDE DEF q, t
  <2>5. ASSUME NEW l \in Lead
        PROVE  /\ SearchWhere(f, l) <=> StaleRow(l)
               /\ SearchWhere(q, l) <=> StaleRow(l) /\ lead[l].agent = None
               /\ SearchWhere(t, l) <=> StaleRow(l) /\ lead[l].agent # None
    BY <2>1, <2>4 DEF SearchWhere, StaleRow
  <2>6. LeadsPage(who, f) = {l \in Lead : LeadVisible(who, l) /\ StaleRow(l)}
    BY <2>2, <2>5 DEF SearchLeads
  <2>. QED
    BY <2>3, <2>6 DEF Cards, StaleCount
<1>4. ASSUME who \notin Supers
      PROVE  Cards(who).leads = Behind(who).leads
  <2>1. Cards(who).leads = {l \in Lead : /\ LeadVisible(who, l) /\ Workable(l)
                                         /\ lead[l].agent = None /\ lead[l].ib # None}
    BY <1>4 DEF Cards, LeadCounts
  <2>2. who # None
    BY StaffDeskAssumption
  <2>3. CASE who \in Ibs
    <3>1. ASSUME NEW l \in Lead
          PROVE  SearchWhere(Queue, l) <=> lead[l].agent = None /\ Workable(l)
      BY <1>1 DEF SearchWhere
    <3>2. ASSUME NEW l \in Lead, LeadVisible(who, l), lead[l].agent = None
          PROVE  lead[l].ib # None
      BY <1>4, <2>2, <3>2 DEF LeadVisible
    <3>3. Behind(who).leads = SearchLeads(who, Queue)
      BY <2>3 DEF Behind
    <3>. QED
      BY <2>1, <3>1, <3>2, <3>3 DEF SearchLeads
  <2>4. CASE who \notin Ibs
    <3> DEFINE f == [AnyLead EXCEPT !.unassigned = TRUE]
    <3>1. f.unassigned = TRUE
      BY DEF AnyLead
    <3>2. Behind(who).leads = SearchLeads(who, f)
      BY <2>4 DEF Behind, LeadsPage
    <3>. HIDE DEF f
    <3>3. ASSUME NEW l \in Lead, LeadVisible(who, l)
          PROVE  lead[l].agent # None
      BY <1>4, <2>2, <2>4, <3>3 DEF LeadVisible
    <3>4. Cards(who).leads = {} /\ Behind(who).leads = {}
      BY <2>1, <3>1, <3>2, <3>3 DEF SearchLeads, SearchWhere
    <3>. QED
      BY <3>4
  <2>. QED
    BY <2>3, <2>4
<1>. QED
  BY <1>3, <1>4

\* What a card of the dashboard counts is what the page behind it lists, and
\* the numbers in the headings are those of the rows with a badge, for every
\* role, book and filter.
THEOREM CardsHold == DeskSpec => []CardsMatchLists
<1>1. DeskTypeOK => CardsMatchLists
  <2>. SUFFICES ASSUME DeskTypeOK, NEW who \in Staff
                PROVE  /\ \A card \in DOMAIN Cards(who) \ {"identity", "leads"} :
                            Cards(who)[card] = Behind(who)[card]
                       /\ who \notin Supers => Cards(who).leads = Behind(who).leads
                       /\ {l \in Lead : StaleBadge(l) /\ LeadVisible(who, l)}
                            = CountStale(who, "unassigned") \cup CountStale(who, "assigned")
    BY DEF CardsMatchLists
  <2>1. DOMAIN Cards(who) \ {"identity", "leads"} =
          {"investors", "applications", "requests", "fourEyes", "agreements", "unassigned",
           "stale"}
    BY DEF Cards
  <2>2. {l \in Lead : StaleBadge(l) /\ LeadVisible(who, l)}
          = CountStale(who, "unassigned") \cup CountStale(who, "assigned")
    BY BadgeIsCounted DEF CountStale
  <2>. QED
    BY <2>1, <2>2, InvestorCards, LeadCards
<1>. QED
  BY <1>1, DeskTyped, PTL

=============================================================================
