----------------------------- MODULE Distributions -----------------------------
(***************************************************************************)
(* The payment ledger: recordDistribution and cancelDistribution.          *)
(*                                                                         *)
(* A posting is identified by its idempotency key, which the code derives  *)
(* from the holding, type, status, amount and payment reference, so two    *)
(* submissions of the same data are the same posting and the unique key    *)
(* lets at most one row exist.  Recording a posting and cancelling it are  *)
(* two items, each with a first approval of its own in                     *)
(* distribution_approvals (unique per action and subject).                 *)
(*                                                                         *)
(* Both handlers run as a confirmation does (InterestConfirm): an unlocked *)
(* read (Load), for material amounts a transaction that records or finds   *)
(* the first approval, and a transaction that posts or cancels.            *)
(*                                                                         *)
(* A batch is the same handler called for one holding after another.  Not  *)
(* modelled: amounts and dates the form rejects, notes, emails, and the    *)
(* holding's status (no code takes a holding out of "active").             *)
(***************************************************************************)
CONSTANTS
    Posting,     \* idempotency keys
    Investor,
    SuperAdmin,  \* staff whose role is super_admin
    Desk,        \* IBs and agents
    Request,     \* slots for staff requests in flight at the same time
    InvestorOf,  \* the investor of the posting's holding
    StatusOf,    \* the status the posting is recorded with
    Material,    \* postings whose amount reaches FOUR_EYES_THRESHOLD_EUR
    NoStaff      \* no approval row, not carried out

Staff == SuperAdmin \cup Desk
RowStatus == {"scheduled", "paid", "failed", "cancelled"}
Cancellable == {"scheduled", "paid"}

ASSUME LedgerAssumption ==
    /\ InvestorOf \in [Posting -> Investor]
    /\ StatusOf \in [Posting -> RowStatus]
    /\ Material \subseteq Posting
    /\ SuperAdmin \cap Desk = {}
    /\ NoStaff \notin Staff
    /\ NoStaff \notin [by : Staff, first : SuperAdmin \cup {NoStaff}]

\* What can be carried out: a posting, or its cancellation.
Item == [action : {"record", "cancel"}, posting : Posting]
Guarded == {x \in Item : x.posting \in Material}

Recording(p) == [action |-> "record", posting |-> p]
Cancelling(p) == [action |-> "cancel", posting |-> p]

VARIABLES
    ledger,       \* distributions.status, "none" while there is no row
    done,         \* who carried an item out, and the first approver it used
    approval,     \* distribution_approvals, unique per action and subject
    approvalLog,  \* the first-approval audit events
    owner,        \* the IB and the agent the investor row names
    req           \* what each request in flight remembers

ledgerVars == <<ledger, done, approval, approvalLog>>
vars == <<ledgerVars, owner, req>>

Idle == [op |-> "idle"]
RequestState ==
    {Idle}
      \cup [op : {"approve"}, staff : SuperAdmin, item : Item,
            seen : RowStatus \cup {"none"}]
      \cup [op : {"commit"}, staff : Staff, item : Item,
            seen : RowStatus \cup {"none"}, first : SuperAdmin \cup {NoStaff}]

TypeOK ==
    /\ ledger \in [Posting -> RowStatus \cup {"none"}]
    /\ done \in [Item -> [by : Staff, first : SuperAdmin \cup {NoStaff}] \cup {NoStaff}]
    /\ approval \in [Item -> SuperAdmin \cup {NoStaff}]
    /\ approvalLog \subseteq Item \X SuperAdmin
    /\ owner \in [Investor -> SUBSET Desk]
    /\ req \in [Request -> RequestState]

-----------------------------------------------------------------------------
\* investorVisibleToStaff, for the investor of a posting
Visible(s, p) == s \in SuperAdmin \/ s \in owner[InvestorOf[p]]

\* A cancellation needs a scheduled or paid row; recording does not look at
\* the ledger before it inserts.
StillOpen(x) == x.action = "cancel" => ledger[x.posting] \in Cancellable

InFlight(r, op, action) == req[r].op = op /\ req[r].item.action = action
Finish(r) == req' = [req EXCEPT ![r] = Idle]

-----------------------------------------------------------------------------
Init ==
    /\ ledger = [p \in Posting |-> "none"]
    /\ done = [x \in Item |-> NoStaff]
    /\ approval = [x \in Item |-> NoStaff]
    /\ approvalLog = {}
    /\ owner \in [Investor -> SUBSET Desk]
    /\ req = [r \in Request |-> Idle]

\* The unlocked read and its early rejections.
Load(r, s, x) ==
    /\ req[r] = Idle
    /\ Visible(s, x.posting)
    /\ StillOpen(x)
    /\ \/ /\ x \in Guarded
          /\ s \in SuperAdmin
          /\ req' = [req EXCEPT ![r] =
                       [op |-> "approve", staff |-> s, item |-> x,
                        seen |-> ledger[x.posting]]]
       \/ /\ x \notin Guarded
          /\ req' = [req EXCEPT ![r] =
                       [op |-> "commit", staff |-> s, item |-> x,
                        seen |-> ledger[x.posting], first |-> NoStaff]]
    /\ UNCHANGED <<ledgerVars, owner>>

\* What the first-approval transaction rechecks under its locks.
MayApprove(s, x) == Visible(s, x.posting) /\ StillOpen(x)

\* Nobody is on record for this action and subject: the caller is the first
\* approver and is done.
RecordFirstApproval(r) ==
    LET s == req[r].staff
        x == req[r].item
    IN  /\ req[r].op = "approve"
        /\ MayApprove(s, x)
        /\ approval[x] = NoStaff
        /\ approval' = [approval EXCEPT ![x] = s]
        /\ approvalLog' = approvalLog \cup {<<x, s>>}
        /\ Finish(r)
        /\ UNCHANGED <<ledger, done, owner>>

\* MUTANT: an approval on record is enough, whoever gave it.
ContinueAsSecond_SamePerson(r) ==
    LET x == req[r].item
    IN  /\ req[r].op = "approve"
        /\ MayApprove(req[r].staff, x)
        /\ approval[x] # NoStaff
        /\ req' = [req EXCEPT ![r] =
                     [op |-> "commit", staff |-> req[r].staff, item |-> x,
                      seen |-> req[r].seen, first |-> approval[x]]]
        /\ UNCHANGED <<ledgerVars, owner>>

\* Someone else is on record: the caller goes on as the second.
ContinueAsSecond(r) ==
    LET s == req[r].staff
        x == req[r].item
    IN  /\ req[r].op = "approve"
        /\ MayApprove(s, x)
        /\ approval[x] \notin {NoStaff, s}
        /\ req' = [req EXCEPT ![r] =
                     [op |-> "commit", staff |-> s, item |-> x,
                      seen |-> req[r].seen, first |-> approval[x]]]
        /\ UNCHANGED <<ledgerVars, owner>>

\* The item is carried out and the first approval, if one was used, deleted.
CarryOut(r) ==
    LET x == req[r].item
        f == req[r].first
    IN  /\ done' = [done EXCEPT ![x] = [by |-> req[r].staff, first |-> f]]
        /\ approval' = IF f = NoStaff THEN approval
                       ELSE [approval EXCEPT ![x] = NoStaff]
        /\ Finish(r)
        /\ UNCHANGED <<approvalLog, owner>>

\* MUTANT: the insert is an upsert on the idempotency key.
PostDistribution_Upsert(r) ==
    LET p == req[r].item.posting
    IN  /\ InFlight(r, "commit", "record")
        /\ Visible(req[r].staff, p)
        /\ ledger' = [ledger EXCEPT ![p] = StatusOf[p]]
        /\ CarryOut(r)

\* recordDistribution inserts the row: the first to commit with this key.
PostDistribution(r) ==
    LET p == req[r].item.posting
    IN  /\ InFlight(r, "commit", "record")
        /\ Visible(req[r].staff, p)
        /\ ledger[p] = "none"
        /\ ledger' = [ledger EXCEPT ![p] = StatusOf[p]]
        /\ CarryOut(r)

\* recordDistribution hits the unique key: the transaction is rolled back, an
\* approval it would have used included, and the caller gets the existing
\* row's id as if it had posted it.
AdoptExisting(r) ==
    LET p == req[r].item.posting
    IN  /\ InFlight(r, "commit", "record")
        /\ Visible(req[r].staff, p)
        /\ ledger[p] # "none"
        /\ Finish(r)
        /\ UNCHANGED <<ledgerVars, owner>>

\* MUTANT: the UPDATE is not guarded by the status that was read.
CancelDistribution_Unguarded(r) ==
    LET p == req[r].item.posting
    IN  /\ InFlight(r, "commit", "cancel")
        /\ Visible(req[r].staff, p)
        /\ ledger' = [ledger EXCEPT ![p] = "cancelled"]
        /\ CarryOut(r)

\* cancelDistribution's guarded UPDATE: the row still has the status the
\* request read at the beginning.
CancelDistribution(r) ==
    LET p == req[r].item.posting
    IN  /\ InFlight(r, "commit", "cancel")
        /\ Visible(req[r].staff, p)
        /\ ledger[p] = req[r].seen
        /\ ledger' = [ledger EXCEPT ![p] = "cancelled"]
        /\ CarryOut(r)

\* A request ends without effect; what it committed before stays.
RequestFails(r) ==
    /\ req[r] # Idle
    /\ Finish(r)
    /\ UNCHANGED <<ledgerVars, owner>>

\* Assignment, transfer or demotion gives the investor other owners.
AssignInvestor(v, D) ==
    /\ owner' = [owner EXCEPT ![v] = D]
    /\ UNCHANGED <<ledgerVars, req>>

-----------------------------------------------------------------------------
StaffRequest(r) ==
    \/ \E s \in Staff, x \in Item : Load(r, s, x)
    \/ RecordFirstApproval(r)
    \/ ContinueAsSecond(r)
    \/ PostDistribution(r)
    \/ AdoptExisting(r)
    \/ CancelDistribution(r)
    \/ RequestFails(r)

Next ==
    \/ \E r \in Request : StaffRequest(r)
    \/ \E v \in Investor, D \in SUBSET Desk : AssignInvestor(v, D)

Spec == Init /\ [][Next]_vars

-----------------------------------------------------------------------------
(* Properties                                                              *)

\* The two-person rule of FourEyes, over postings and cancellations.
LedgerFourEyes == INSTANCE FourEyes WITH
    Actor <- Staff, None <- NoStaff, endorsed <- approval, executed <- done

\* recordDistribution and cancelDistribution are four-eyes controls: each
\* material posting and each material cancellation uses up, once, an approval
\* somebody else has on record for that very action.
ImplementsFourEyes == LedgerFourEyes!Spec

\* Nothing material is posted or cancelled by one person, however requests
\* for the same posting interleave, and the audit log has the first of the two.
MaterialTakesTwo ==
    \A x \in Guarded :
        done[x] # NoStaff =>
            /\ {done[x].by, done[x].first} \subseteq SuperAdmin
            /\ done[x].by # done[x].first
            /\ <<x, done[x].first>> \in approvalLog

\* The ledger says what was carried out and nothing else: a row exists when
\* somebody posted it, and shows its posted status unless somebody cancelled
\* it after.
LedgerMatchesDone ==
    \A p \in Posting :
        IF done[Recording(p)] = NoStaff
        THEN ledger[p] = "none" /\ done[Cancelling(p)] = NoStaff
        ELSE IF done[Cancelling(p)] = NoStaff
             THEN ledger[p] = StatusOf[p]
             ELSE ledger[p] = "cancelled" /\ StatusOf[p] \in Cancellable

\* A row only ever moves from scheduled or paid to cancelled.  A retry of a
\* recording, however late, does not bring a cancelled payment back.
LedgerOnlyForward ==
    [][\A p \in Posting :
         ledger[p] # "none" /\ ledger'[p] # ledger[p] =>
             ledger[p] \in Cancellable /\ ledger'[p] = "cancelled"]_vars

\* Whoever posts or cancels has the investor in their book at that moment.
CarriedOutInScope ==
    [][\A x \in Item :
         done'[x] # done[x] => Visible(done'[x].by, x.posting)]_vars

\* What recordDistribution says of the unique key: it is hit by a retry of a
\* posting that is on the ledger, so the caller may be told it is recorded.
\* It does not hold.
RetriesFindTheirPosting ==
    [][\A r \in Request :
         AdoptExisting(r) =>
             ledger[req[r].item.posting] = StatusOf[req[r].item.posting]]_vars

\* What recordDistribution says of a first approval: it records intent and
\* nothing is posted yet.  It does not hold.
NothingPostedYet ==
    \A p \in Posting : approval[Recording(p)] # NoStaff => ledger[p] = "none"

=============================================================================
