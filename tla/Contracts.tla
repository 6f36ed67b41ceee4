------------------------------ MODULE Contracts ------------------------------
(***************************************************************************)
(* One investor agreement: its review, its signatures and its signed copy. *)
(*                                                                         *)
(* Signatures come from a provider's callbacks, which arrive late, twice   *)
(* and out of order, and from staff who record them by hand.  Either way   *)
(* one transaction under the contract's row lock updates the signer and    *)
(* takes the contract as far as it now can go.  A callback's received_at   *)
(* is the start of its transaction (BeginEvent), before it gets the lock.  *)
(*                                                                         *)
(* A signed copy is stored as a file before the transaction that publishes *)
(* it, and removed again when that transaction fails.                      *)
(*                                                                         *)
(* Not modelled: the version, which nothing changes; the states superseded *)
(* and withdrawn, which nothing enters; the access checks of the actions.  *)
(***************************************************************************)
EXTENDS Naturals

CONSTANTS
    Event,       \* ids of provider events
    RoleOf,      \* contract_signature_events.signer_role
    StatusOf,    \* contract_signature_events.status
    OccurredAt,  \* contract_signature_events.occurred_at
    File,        \* storage keys
    NoFile,      \* no signed_document_id
    Request,     \* slots for requests in flight at the same time
    Attached,    \* the review documents createContract was given
    MaxTime,     \* bound: times are 1..MaxTime
    MaxClock     \* bound: deliveries that ever begin

Role == {"investor", "legal_signer"}
SignatureStatus == {"pending", "signed", "declined", "expired"}
Time == 1..MaxTime

ASSUME ContractsAssumption ==
    /\ RoleOf \in [Event -> Role]
    /\ StatusOf \in [Event -> SignatureStatus]
    /\ OccurredAt \in [Event -> Time]
    /\ NoFile \notin File
    /\ Attached \subseteq {"summary", "agreement"}
    /\ MaxTime \in Nat /\ MaxClock \in Nat

ReviewStates == {"ready_to_review", "summary_viewed", "agreement_viewed"}
ClosedStates == {"effective", "signed_documents_available"}
State == ReviewStates \cup {"investor_signed", "counter_signature_pending"} \cup ClosedStates

VARIABLES
    state,      \* contracts.state
    signature,  \* contract_signers.status
    signedAt,   \* contract_signers.signed_at, 0 for null
    signedBy,   \* who wrote the signer row last
    received,   \* contract_signature_events.received_at, 0 for no row
    clock,      \* how many deliveries have begun
    document,   \* the file of contracts.signed_document_id
    retracted,  \* that document's row is retracted
    files,      \* the files in storage
    unheard,    \* a publication committed and its request heard of a failure
    req         \* what each request in flight remembers

vars == <<state, signature, signedAt, signedBy, received, clock,
          document, retracted, files, unheard, req>>

signing == <<signature, signedAt, signedBy>>
publishing == <<document, retracted, files, unheard>>

Idle == [op |-> "idle"]
RequestState ==
    {Idle}
      \cup [op : {"review"}, target : Attached]
      \cup [op : {"event"}, event : Event, began : 1..MaxClock]
      \cup [op : {"checked", "stored"}, file : File]

TypeOK ==
    /\ state \in State
    /\ signature \in [Role -> SignatureStatus]
    /\ signedAt \in [Role -> Time \cup {0}]
    /\ \A role \in Role : signature[role] = "signed" <=> signedAt[role] # 0
    /\ signedBy \in [Role -> {"nobody", "staff", "provider"}]
    /\ received \in [Event -> 0..MaxClock]
    /\ clock \in 0..MaxClock
    /\ document \in File \cup {NoFile}
    /\ retracted \in BOOLEAN
    /\ files \in SUBSET File
    /\ unheard \in BOOLEAN
    /\ req \in [Request -> RequestState]

-----------------------------------------------------------------------------
\* ALLOWED_TRANSITIONS, without superseded and withdrawn.
CanTransition(from, to) ==
    to \in CASE from = "ready_to_review" -> {"summary_viewed", "agreement_viewed"}
             [] from = "summary_viewed" -> {"agreement_viewed", "investor_signed"}
             [] from = "agreement_viewed" -> {"summary_viewed", "investor_signed"}
             [] from = "investor_signed" -> {"counter_signature_pending"}
             [] from = "counter_signature_pending" -> {"effective"}
             [] from = "effective" -> {"signed_documents_available"}
             [] from = "signed_documents_available" -> {}

\* CONTRACT_REVIEW_ORDER up to the viewed states; what comes later is 3.
ReviewOrder(s) ==
    CASE s = "ready_to_review" -> 0
      [] s = "summary_viewed" -> 1
      [] s = "agreement_viewed" -> 2
      [] OTHER -> 3

RequiredSignersComplete(sig) == \A role \in Role : sig[role] = "signed"

\* The investor's signature moves a contract out of review, if the review got
\* far enough; otherwise the whole transaction fails.
MayAdvance(role, from) ==
    role = "investor" /\ from \in ReviewStates => CanTransition(from, "investor_signed")

\* MUTANT: only the investor's signature takes a contract further.
Advance_InvestorOnly(role, from, sig) ==
    LET left == IF role = "investor" /\ from \in ReviewStates
                THEN "investor_signed" ELSE from
        pending == IF left = "investor_signed" THEN "counter_signature_pending" ELSE left
    IN  IF role = "investor" /\ pending = "counter_signature_pending"
           /\ RequiredSignersComplete(sig)
        THEN "effective" ELSE pending

\* How far role's signature takes the contract in the same transaction.
Advance(role, from, sig) ==
    LET left == IF role = "investor" /\ from \in ReviewStates
                THEN "investor_signed" ELSE from
        pending == IF left = "investor_signed" THEN "counter_signature_pending" ELSE left
    IN  IF pending = "counter_signature_pending" /\ RequiredSignersComplete(sig)
        THEN "effective" ELSE pending

\* MUTANT: the callback that arrives last counts.
Later_ByReceipt(e, at, f) == received[f] > at

\* Event f of the same signer comes after e, received at at.
Later(e, at, f) ==
    \/ OccurredAt[f] > OccurredAt[e]
    \/ OccurredAt[f] = OccurredAt[e] /\ received[f] > at

IsLatest(e, at) ==
    \A f \in Event : RoleOf[f] = RoleOf[e] /\ received[f] # 0 => ~Later(e, at, f)

Begin(r, record) == req[r] = Idle /\ req' = [req EXCEPT ![r] = record]
Finish(r) == req' = [req EXCEPT ![r] = Idle]

-----------------------------------------------------------------------------
\* createContract.
Init ==
    /\ state = "ready_to_review"
    /\ signature = [role \in Role |-> "pending"]
    /\ signedAt = [role \in Role |-> 0]
    /\ signedBy = [role \in Role |-> "nobody"]
    /\ received = [e \in Event |-> 0]
    /\ clock = 0
    /\ document = NoFile
    /\ retracted = FALSE
    /\ files = {}
    /\ unheard = FALSE
    /\ req = [r \in Request |-> Idle]

\* recordInvestorContractReview reads: there is such a document, the summary
\* comes first, and the contract has not got that far yet.
ReadForReview(r, d) ==
    LET target == IF d = "summary" THEN "summary_viewed" ELSE "agreement_viewed"
    IN  /\ ReviewOrder(state) < ReviewOrder(target)
        /\ d = "agreement" /\ "summary" \in Attached => ReviewOrder(state) >= 1
        /\ Begin(r, [op |-> "review", target |-> d])
        /\ UNCHANGED <<state, signing, received, clock, publishing>>

\* transitionContract.
RecordReview(r) ==
    LET target == IF req[r].target = "summary" THEN "summary_viewed" ELSE "agreement_viewed"
    IN  /\ req[r].op = "review"
        /\ CanTransition(state, target)
        /\ state' = target
        /\ Finish(r)
        /\ UNCHANGED <<signing, received, clock, publishing>>

-----------------------------------------------------------------------------
\* recordManualSignature: staff attest that role signed at time t.
RecordManualSignature(role, t) ==
    /\ state \notin ClosedStates
    /\ signature[role] # "signed"
    /\ MayAdvance(role, state)
    /\ signature' = [signature EXCEPT ![role] = "signed"]
    /\ signedAt' = [signedAt EXCEPT ![role] = t]
    /\ signedBy' = [signedBy EXCEPT ![role] = "staff"]
    /\ state' = Advance(role, state, signature')
    /\ UNCHANGED <<received, clock, publishing, req>>

\* A callback's transaction starts, for an event that may have been delivered
\* before.
BeginEvent(r, e) ==
    /\ clock < MaxClock
    /\ clock' = clock + 1
    /\ Begin(r, [op |-> "event", event |-> e, began |-> clock + 1])
    /\ UNCHANGED <<state, signing, received, publishing>>

\* MUTANT: an event counts although signing is closed.
Counts_AlsoClosed(e, at) == IsLatest(e, at)

\* applyToSigner: no later event of the signer is known and signing is open.
Counts(e, at) == IsLatest(e, at) /\ state \notin ClosedStates

WriteSigner(e) ==
    LET role == RoleOf[e]
    IN  /\ signature' = [signature EXCEPT ![role] = StatusOf[e]]
        /\ signedAt' = [signedAt EXCEPT ![role] =
                          IF StatusOf[e] = "signed" THEN OccurredAt[e] ELSE 0]
        /\ signedBy' = [signedBy EXCEPT ![role] = "provider"]

\* The event's row, unless the event is there already (onConflictDoNothing).
InsertEvent(r) ==
    /\ req[r].op = "event"
    /\ received[req[r].event] = 0
    /\ received' = [received EXCEPT ![req[r].event] = req[r].began]
    /\ Finish(r)
    /\ UNCHANGED <<clock, publishing>>

\* recordVerifiedSignatureEvent, for an event that does not count ...
RecordStaleEvent(r) ==
    /\ InsertEvent(r)
    /\ ~Counts(req[r].event, req[r].began)
    /\ UNCHANGED <<state, signing>>

\* ... for one that says the signer has not signed, or no longer ...
RecordUnsigned(r) ==
    /\ InsertEvent(r)
    /\ Counts(req[r].event, req[r].began)
    /\ StatusOf[req[r].event] # "signed"
    /\ WriteSigner(req[r].event)
    /\ UNCHANGED state

\* ... and for a signature.
RecordSigned(r) ==
    LET role == RoleOf[req[r].event]
    IN  /\ InsertEvent(r)
        /\ Counts(req[r].event, req[r].began)
        /\ StatusOf[req[r].event] = "signed"
        /\ MayAdvance(role, state)
        /\ WriteSigner(req[r].event)
        /\ state' = Advance(role, state, signature')

-----------------------------------------------------------------------------
\* storeAndPublishSignedContractDocument looks at the contract; the key is new.
CheckUpload(r, f) ==
    /\ state = "effective"
    /\ document = NoFile
    /\ f \notin files
    /\ \A q \in Request : req[q].op \in {"checked", "stored"} => req[q].file # f
    /\ Begin(r, [op |-> "checked", file |-> f])
    /\ UNCHANGED <<state, signing, received, clock, publishing>>

PutObject(r) ==
    /\ req[r].op = "checked"
    /\ files' = files \cup {req[r].file}
    /\ req' = [req EXCEPT ![r] = [op |-> "stored", file |-> req[r].file]]
    /\ UNCHANGED <<state, signing, received, clock, document, retracted, unheard>>

\* The transaction: the document row, its link and the transition.
Link(f) ==
    /\ state = "effective"
    /\ document = NoFile
    /\ document' = f
    /\ state' = "signed_documents_available"
    /\ UNCHANGED <<signing, received, clock, retracted>>

\* MUTANT: something that can fail follows the transaction inside the try.
Publish_MoreToDo(r) ==
    /\ req[r].op = "stored"
    /\ Link(req[r].file)
    /\ UNCHANGED <<files, unheard, req>>

Publish(r) ==
    /\ req[r].op = "stored"
    /\ Link(req[r].file)
    /\ Finish(r)
    /\ UNCHANGED <<files, unheard>>

\* The transaction commits, the request hears of a failure and cleans up.
PublishUnheard(r) ==
    /\ req[r].op = "stored"
    /\ Link(req[r].file)
    /\ Finish(r)
    /\ files' = files \ {req[r].file}
    /\ unheard' = TRUE

\* retractDocument, for the signed copy.  The file stays.
RetractDocument ==
    /\ document # NoFile
    /\ ~retracted
    /\ retracted' = TRUE
    /\ UNCHANGED <<state, signing, received, clock, document, files, unheard, req>>

\* A request is rejected by a recheck, repeats an event that is recorded, or
\* fails.  A stored file is deleted, unless that fails too or the process died.
RequestFails(r) ==
    /\ req[r] # Idle
    /\ Finish(r)
    /\ \/ UNCHANGED files
       \/ req[r].op = "stored" /\ files' = files \ {req[r].file}
    /\ UNCHANGED <<state, signing, received, clock, document, retracted, unheard>>

-----------------------------------------------------------------------------
RequestStep(r) ==
    \/ \E d \in Attached : ReadForReview(r, d)
    \/ RecordReview(r)
    \/ \E e \in Event : BeginEvent(r, e)
    \/ RecordStaleEvent(r)
    \/ RecordUnsigned(r)
    \/ RecordSigned(r)
    \/ \E f \in File : CheckUpload(r, f)
    \/ PutObject(r)
    \/ Publish(r)
    \/ PublishUnheard(r)
    \/ RequestFails(r)

Next ==
    \/ \E r \in Request : RequestStep(r)
    \/ \E role \in Role, t \in Time : RecordManualSignature(role, t)
    \/ RetractDocument

Spec == Init /\ [][Next]_vars

-----------------------------------------------------------------------------
(* Properties                                                              *)

\* An agreement in force carries both signatures, whatever callbacks arrive
\* after it came into force (canMarkEffective, SIGNING_CLOSED_STATES).
EffectiveIsSigned ==
    state \in ClosedStates => RequiredSignersComplete(signature)

\* No signature is lost: an agreement both have signed is in force, in
\* whatever order and by whatever way the signatures came.
SignedIsEffective ==
    RequiredSignersComplete(signature) => state \in ClosedStates

\* What the provider's callbacks left of a signer is what a latest of them by
\* the provider's own time says, in whatever order they arrived.
LatestEventDecides ==
    state \notin ClosedStates =>
        \A role \in Role : signedBy[role] = "provider" =>
            LET known == {e \in Event : RoleOf[e] = role /\ received[e] # 0}
            IN  \E e \in known :
                    /\ \A f \in known : OccurredAt[f] <= OccurredAt[e]
                    /\ signature[role] = StatusOf[e]

\* The published copy is in storage: no request that lost the race or failed
\* cleans up the file of the one that won, except its own whose commit it did
\* not hear of.
PublishedFileExists == document # NoFile /\ ~unheard => document \in files

\* "duplicate or stale callbacks cannot corrupt contract status" (CONTRACT-002):
\* a callback about an earlier time leaves a recorded signature alone.  It does
\* not hold for signatures recorded by hand.
StaleCallbackKeepsSignature ==
    [][\A role \in Role, e \in Event :
         /\ received[e] = 0 /\ received'[e] # 0 /\ RoleOf[e] = role
         /\ signature[role] = "signed" /\ OccurredAt[e] < signedAt[role]
         => signature'[role] = "signed"]_vars

=============================================================================
