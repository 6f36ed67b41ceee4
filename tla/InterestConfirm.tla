---------------------------- MODULE InterestConfirm ----------------------------
(***************************************************************************)
(* Deciding interests: confirmInterest and declineInterest, with the       *)
(* actions of other requests that can land between their steps.            *)
(*                                                                         *)
(* A confirmation runs in up to three steps.  It loads the interest, the   *)
(* asset and the investor without a lock and rejects early (LoadFor...).   *)
(* At or above the threshold a first transaction records the caller as     *)
(* the first approver or, if someone else is on record, lets the caller    *)
(* continue as the second (RecordFirstApproval, ContinueAsSecond).  A last *)
(* transaction locks the investor and the asset row and rechecks what they *)
(* cover (LockForClaim), then updates the interest and creates the holding *)
(* (ClaimInterest).  Between two steps any other request may commit, but   *)
(* whoever needs a row that a claim has locked waits.                      *)
(*                                                                         *)
(* The other transactions are one action each: they lock the investor row  *)
(* first and what they recheck is covered by that lock, by the lock of the *)
(* interest row or part of a guarded UPDATE.                               *)
(*                                                                         *)
(* An interest row's investor, asset and amount never change, so they are  *)
(* constants of its id.  Not modelled: notes, emails, the yield copied to  *)
(* the holding, account status (no code takes an account out of "active"). *)
(***************************************************************************)
EXTENDS Naturals, FiniteSets

CONSTANTS
    Interest,    \* ids of interest rows that may come to exist
    Investor,
    Asset,
    SuperAdmin,  \* staff whose role is super_admin
    Desk,        \* IBs and agents
    Request,     \* slots for staff requests in flight at the same time
    InvestorOf,  \* interests.investor_id
    AssetOf,     \* interests.asset_id
    AmountOf,    \* interests.amount_eur
    Threshold,   \* FOUR_EYES_THRESHOLD_EUR
    Capacities,  \* values of assets.advisory_capacity_eur, 0 for none stated
    KycStart,    \* the ways investors' KYC statuses can start out
    ScreeningResults,  \* results staff record
    NoStaff      \* no approval row, no decision

Staff == SuperAdmin \cup Desk

ASSUME ConfirmAssumption ==
    /\ InvestorOf \in [Interest -> Investor]
    /\ AssetOf \in [Interest -> Asset]
    /\ AmountOf \in [Interest -> Nat \ {0}]
    /\ Threshold \in Nat
    /\ Capacities \subseteq Nat
    /\ NoStaff \notin Staff
    /\ SuperAdmin \cap Desk = {}

KycStatus == {"not_started", "submitted", "under_review", "approved", "rejected"}

ASSUME StartAssumption ==
    /\ KycStart \subseteq [Investor -> KycStatus]
    /\ ScreeningResults \subseteq {"clear", "review", "rejected"}

Status == {"absent", "pending", "confirmed", "declined", "withdrawn"}
Decided == {"confirmed", "declined", "withdrawn"}
Screening == ScreeningResults \cup {"none"}
AssetStatus == {"draft", "published", "closed"}

\* Interests that need two super admins.
Guarded == {i \in Interest : AmountOf[i] >= Threshold}

VARIABLES
    status,        \* interests.status, "absent" while there is no row
    decision,      \* who decided, and the first approver a confirmation used
    approval,      \* interest_confirmation_approvals, unique per interest
    approvalLog,   \* interest.confirm_first_approval audit events
    holdings,      \* interests with a holding (holdings.interest_id)
    kyc,           \* investors.kyc_status
    screening,     \* result of the latest kyc_checks row
    owner,         \* the IB and the agent the investor row names
    assetStatus,   \* assets.status
    capacity,      \* assets.advisory_capacity_eur
    req            \* what each request in flight remembers

deskVars == <<status, decision, approval, approvalLog, holdings>>
investorVars == <<kyc, screening, owner>>
assetVars == <<assetStatus, capacity>>
vars == <<deskVars, investorVars, assetVars, req>>

Idle == [op |-> "idle"]
RequestState ==
    {Idle}
      \cup [op : {"approve"}, staff : SuperAdmin, interest : Interest]
      \cup [op : {"decline"}, staff : Staff, interest : Interest]
      \cup [op : {"claim", "commit"}, staff : Staff, interest : Interest,
            first : SuperAdmin \cup {NoStaff}]

NoDecision == [by |-> NoStaff, first |-> NoStaff]

TypeOK ==
    /\ status \in [Interest -> Status]
    /\ decision \in [Interest -> [by : Staff \cup {NoStaff},
                                  first : SuperAdmin \cup {NoStaff}]]
    /\ approval \in [Interest -> SuperAdmin \cup {NoStaff}]
    /\ approvalLog \subseteq Interest \X SuperAdmin
    /\ holdings \subseteq Interest
    /\ kyc \in [Investor -> KycStatus]
    /\ screening \in [Investor -> Screening]
    /\ owner \in [Investor -> SUBSET Desk]
    /\ assetStatus \in [Asset -> AssetStatus]
    /\ capacity \in [Asset -> Capacities]
    /\ req \in [Request -> RequestState]

-----------------------------------------------------------------------------
(* What the handlers read.                                                 *)

\* investorVisibleToStaff
Visible(s, v) == s \in SuperAdmin \/ s \in owner[v]

\* KYC approved and the latest screening clear
Cleared(v) == kyc[v] = "approved" /\ screening[v] = "clear"

\* Sum of the active holdings of an asset, counted euro by euro: euro n of
\* holding i is the pair <<i, n>>
Euros(i) == {i} \X (1 .. AmountOf[i])
ActiveOn(a) == {i \in holdings : AssetOf[i] = a}
Committed(a) == Cardinality(UNION {Euros(i) : i \in ActiveOn(a)})

\* fundingFromAmounts, but the ticket itself must fit; a capacity of 0 is not a capacity
TicketFits(i) ==
    LET a == AssetOf[i]
    IN  capacity[a] = 0 \/ Committed(a) + AmountOf[i] <= capacity[a]

InFlight(r, op) == req[r].op = op
Finish(r) == req' = [req EXCEPT ![r] = Idle]

\* Row locks: a claim between its two steps holds its investor's row and its
\* asset's (SELECT ... FOR UPDATE)
Locked == {req[r].interest : r \in {q \in Request : InFlight(q, "commit")}}
InvestorFree(v) == \A i \in Locked : InvestorOf[i] # v
AssetFree(a) == \A i \in Locked : AssetOf[i] # a

-----------------------------------------------------------------------------
Init ==
    /\ status = [i \in Interest |-> "absent"]
    /\ decision = [i \in Interest |-> NoDecision]
    /\ approval = [i \in Interest |-> NoStaff]
    /\ approvalLog = {}
    /\ holdings = {}
    /\ kyc \in KycStart
    /\ screening = [v \in Investor |-> "none"]
    /\ owner \in [Investor -> SUBSET Desk]
    /\ assetStatus = [a \in Asset |-> "published"]
    /\ capacity \in [Asset -> Capacities]
    /\ req = [r \in Request |-> Idle]

-----------------------------------------------------------------------------
(* confirmInterest                                                         *)

\* The unlocked read and its early rejections.  Who is turned away here
\* leaves no trace; the amount decides which transaction comes next.
LoadForConfirm(r, s, i) ==
    /\ req[r] = Idle
    /\ Visible(s, InvestorOf[i])
    /\ Cleared(InvestorOf[i])
    /\ status[i] = "pending"
    /\ \/ /\ i \in Guarded
          /\ s \in SuperAdmin
          /\ req' = [req EXCEPT ![r] =
                       [op |-> "approve", staff |-> s, interest |-> i]]
       \/ /\ i \notin Guarded
          /\ req' = [req EXCEPT ![r] =
                       [op |-> "claim", staff |-> s, interest |-> i,
                        first |-> NoStaff]]
    /\ UNCHANGED <<deskVars, investorVars, assetVars>>

\* MUTANT: the first-approval transaction relies on the status read earlier.
MayApprove_StatusNotReread(s, i) ==
    Visible(s, InvestorOf[i]) /\ Cleared(InvestorOf[i])

\* What the first-approval transaction rechecks under the investor and
\* interest locks.
MayApprove(s, i) ==
    /\ Visible(s, InvestorOf[i])
    /\ Cleared(InvestorOf[i])
    /\ status[i] = "pending"

\* Nobody is on record: the caller becomes the first approver and is done.
RecordFirstApproval(r) ==
    LET s == req[r].staff
        i == req[r].interest
    IN  /\ InFlight(r, "approve")
        /\ InvestorFree(InvestorOf[i])
        /\ MayApprove(s, i)
        /\ approval[i] = NoStaff
        /\ approval' = [approval EXCEPT ![i] = s]
        /\ approvalLog' = approvalLog \cup {<<i, s>>}
        /\ Finish(r)
        /\ UNCHANGED <<status, decision, holdings, investorVars, assetVars>>

\* MUTANT: whoever comes second may be the first approver again.
ContinueAsSecond_SamePerson(r) ==
    LET s == req[r].staff
        i == req[r].interest
    IN  /\ InFlight(r, "approve")
        /\ InvestorFree(InvestorOf[i])
        /\ MayApprove(s, i)
        /\ approval[i] # NoStaff
        /\ req' = [req EXCEPT ![r] =
                     [op |-> "claim", staff |-> s, interest |-> i,
                      first |-> approval[i]]]
        /\ UNCHANGED <<deskVars, investorVars, assetVars>>

\* Someone else is on record: the caller goes on to claim as the second.
ContinueAsSecond(r) ==
    LET s == req[r].staff
        i == req[r].interest
    IN  /\ InFlight(r, "approve")
        /\ InvestorFree(InvestorOf[i])
        /\ MayApprove(s, i)
        /\ approval[i] \notin {NoStaff, s}
        /\ req' = [req EXCEPT ![r] =
                     [op |-> "claim", staff |-> s, interest |-> i,
                      first |-> approval[i]]]
        /\ UNCHANGED <<deskVars, investorVars, assetVars>>

\* MUTANT: the claim relies on the KYC and screening read before the lock.
MayClaim_NotRescreened(s, i) ==
    /\ Visible(s, InvestorOf[i])
    /\ assetStatus[AssetOf[i]] = "published"
    /\ TicketFits(i)

\* MUTANT: the claim relies on the ownership read before the lock.
MayClaim_ScopeNotReread(s, i) ==
    /\ Cleared(InvestorOf[i])
    /\ assetStatus[AssetOf[i]] = "published"
    /\ TicketFits(i)

\* What the claim rechecks under the investor and asset locks
MayClaim(s, i) ==
    /\ Visible(s, InvestorOf[i])
    /\ Cleared(InvestorOf[i])
    /\ assetStatus[AssetOf[i]] = "published"
    /\ TicketFits(i)

\* MUTANT: the claim reads the asset without locking it.
ClaimLocks_InvestorOnly(i) == InvestorFree(InvestorOf[i])

\* The rows the claim must lock, investor first; it waits for either
ClaimLocks(i) == InvestorFree(InvestorOf[i]) /\ AssetFree(AssetOf[i])

\* The claim has its locks and its rechecks pass.  Only the interest is not
\* locked: the investor can still withdraw it.
LockForClaim(r) ==
    LET s == req[r].staff
        i == req[r].interest
    IN  /\ InFlight(r, "claim")
        /\ ClaimLocks(i)
        /\ MayClaim(s, i)
        /\ req' = [req EXCEPT ![r] =
                     [op |-> "commit", staff |-> s, interest |-> i,
                      first |-> req[r].first]]
        /\ UNCHANGED <<deskVars, investorVars, assetVars>>

\* MUTANT: the approval outlives the confirmation that used it.
ClaimInterest_KeepsApproval(r) ==
    LET s == req[r].staff
        i == req[r].interest
    IN  /\ InFlight(r, "commit")
        /\ status[i] = "pending"
        /\ status' = [status EXCEPT ![i] = "confirmed"]
        /\ decision' = [decision EXCEPT ![i] = [by |-> s, first |-> req[r].first]]
        /\ holdings' = holdings \cup {i}
        /\ Finish(r)
        /\ UNCHANGED <<approval, approvalLog, investorVars, assetVars>>

\* MUTANT: the UPDATE does not ask for the pending status.
ClaimInterest_Unguarded(r) ==
    LET s == req[r].staff
        i == req[r].interest
        f == req[r].first
    IN  /\ InFlight(r, "commit")
        /\ status' = [status EXCEPT ![i] = "confirmed"]
        /\ decision' = [decision EXCEPT ![i] = [by |-> s, first |-> f]]
        /\ holdings' = holdings \cup {i}
        /\ approval' = IF f = NoStaff THEN approval
                       ELSE [approval EXCEPT ![i] = NoStaff]
        /\ Finish(r)
        /\ UNCHANGED <<approvalLog, investorVars, assetVars>>

\* The guarded UPDATE finds the interest still pending: it becomes a holding
\* and the first approval, if one was used, is deleted.
ClaimInterest(r) ==
    LET s == req[r].staff
        i == req[r].interest
        f == req[r].first
    IN  /\ InFlight(r, "commit")
        /\ status[i] = "pending"
        /\ status' = [status EXCEPT ![i] = "confirmed"]
        /\ decision' = [decision EXCEPT ![i] = [by |-> s, first |-> f]]
        /\ holdings' = holdings \cup {i}
        /\ approval' = IF f = NoStaff THEN approval
                       ELSE [approval EXCEPT ![i] = NoStaff]
        /\ Finish(r)
        /\ UNCHANGED <<approvalLog, investorVars, assetVars>>

\* A request ends without effect: a recheck failed, the caller was already
\* the first approver, the database or the process failed.  Its open
\* transaction is rolled back; what it committed before stays.
RequestFails(r) ==
    /\ req[r] # Idle
    /\ Finish(r)
    /\ UNCHANGED <<deskVars, investorVars, assetVars>>

-----------------------------------------------------------------------------
(* declineInterest, withdrawInterest and the insert of createInterest      *)

LoadForDecline(r, s, i) ==
    /\ req[r] = Idle
    /\ Visible(s, InvestorOf[i])
    /\ status[i] = "pending"
    /\ req' = [req EXCEPT ![r] =
                 [op |-> "decline", staff |-> s, interest |-> i]]
    /\ UNCHANGED <<deskVars, investorVars, assetVars>>

\* A first approval on record stays behind when the interest is declined.
DeclineInterest(r) ==
    LET s == req[r].staff
        i == req[r].interest
    IN  /\ InFlight(r, "decline")
        /\ InvestorFree(InvestorOf[i])
        /\ Visible(s, InvestorOf[i])
        /\ status[i] = "pending"
        /\ status' = [status EXCEPT ![i] = "declined"]
        /\ decision' = [decision EXCEPT ![i] = [by |-> s, first |-> NoStaff]]
        /\ Finish(r)
        /\ UNCHANGED <<approval, approvalLog, holdings, investorVars, assetVars>>

\* The investor's guarded UPDATE; it takes no investor lock and needs none.
\* What the request read before is implied by the guard: a pending interest
\* has never been anything else.
WithdrawInterest(i) ==
    /\ status[i] = "pending"
    /\ status' = [status EXCEPT ![i] = "withdrawn"]
    /\ UNCHANGED <<decision, approval, approvalLog, holdings,
                   investorVars, assetVars, req>>

\* A row is inserted unless the investor has a pending one on the asset
\* (interests_one_pending_uidx).  It locks the investor row and, by its foreign
\* key, needs the asset row too.  The gates the request passed were read before
\* and are not reread, and every one of them is open in the initial states, so
\* this transaction may come at any time.  InterestIntake has the gates.
CreateInterest(i) ==
    /\ status[i] = "absent"
    /\ InvestorFree(InvestorOf[i]) /\ AssetFree(AssetOf[i])
    /\ \A j \in Interest :
         (/\ InvestorOf[j] = InvestorOf[i]
          /\ AssetOf[j] = AssetOf[i]) => status[j] # "pending"
    /\ status' = [status EXCEPT ![i] = "pending"]
    /\ UNCHANGED <<decision, approval, approvalLog, holdings,
                   investorVars, assetVars, req>>

-----------------------------------------------------------------------------
(* Other requests that change what a decision depends on.  Each locks or   *)
(* updates the row it changes; a screening locks its investor's.           *)

KycTransitions == {<<"submitted", "under_review">>, <<"submitted", "approved">>,
                   <<"submitted", "rejected">>, <<"under_review", "approved">>,
                   <<"under_review", "rejected">>}

SetKycStatus(v, k) ==
    /\ InvestorFree(v)
    /\ <<kyc[v], k>> \in KycTransitions
    /\ kyc' = [kyc EXCEPT ![v] = k]
    /\ UNCHANGED <<deskVars, screening, owner, assetVars, req>>

SubmitKycForReview(v) ==
    /\ InvestorFree(v)
    /\ kyc[v] \in {"not_started", "rejected"}
    /\ kyc' = [kyc EXCEPT ![v] = "submitted"]
    /\ UNCHANGED <<deskVars, screening, owner, assetVars, req>>

\* The new row becomes the latest one.  (A row whose reviewed_at is older
\* than the latest's changes nothing that is read here.)
RecordScreening(v, x) ==
    /\ InvestorFree(v)
    /\ screening' = [screening EXCEPT ![v] = x]
    /\ UNCHANGED <<deskVars, kyc, owner, assetVars, req>>

\* Assignment, transfer or demotion gives the investor other owners.
AssignInvestor(v, D) ==
    /\ InvestorFree(v)
    /\ owner' = [owner EXCEPT ![v] = D]
    /\ UNCHANGED <<deskVars, kyc, screening, assetVars, req>>

\* The compare-and-set of setAssetStatus; closed is terminal.
SetAssetStatus(a, st) ==
    /\ AssetFree(a)
    /\ assetStatus[a] # "closed"
    /\ assetStatus' = [assetStatus EXCEPT ![a] = st]
    /\ UNCHANGED <<deskVars, investorVars, capacity, req>>

\* Nothing compares the new capacity with what is committed already.
UpdateAssetCapacity(a, c) ==
    /\ AssetFree(a)
    /\ capacity' = [capacity EXCEPT ![a] = c]
    /\ UNCHANGED <<deskVars, investorVars, assetStatus, req>>

-----------------------------------------------------------------------------
StaffRequest(r) ==
    \/ \E s \in Staff, i \in Interest : LoadForConfirm(r, s, i) \/ LoadForDecline(r, s, i)
    \/ RecordFirstApproval(r)
    \/ ContinueAsSecond(r)
    \/ LockForClaim(r)
    \/ ClaimInterest(r)
    \/ DeclineInterest(r)
    \/ RequestFails(r)

InvestorChanges(v) ==
    \/ \E k \in KycStatus : SetKycStatus(v, k)
    \/ SubmitKycForReview(v)
    \/ \E x \in ScreeningResults : RecordScreening(v, x)
    \/ \E D \in SUBSET Desk : AssignInvestor(v, D)

AssetChanges(a) ==
    \/ \E st \in AssetStatus : SetAssetStatus(a, st)
    \/ \E c \in Capacities : UpdateAssetCapacity(a, c)

Next ==
    \/ \E r \in Request : StaffRequest(r)
    \/ \E i \in Interest : CreateInterest(i) \/ WithdrawInterest(i)
    \/ \E v \in Investor : InvestorChanges(v)
    \/ \E a \in Asset : AssetChanges(a)

Spec == Init /\ [][Next]_vars

-----------------------------------------------------------------------------
(* Properties                                                              *)

\* The two-person rule of FourEyes, over confirmations.
ConfirmedFourEyes == INSTANCE FourEyes WITH
    Item <- Interest, Actor <- Staff, None <- NoStaff,
    endorsed <- approval,
    executed <- [i \in Interest |-> IF status[i] = "confirmed"
                                    THEN decision[i] ELSE NoStaff]

\* confirmInterest is a four-eyes control: every confirmation at or above
\* the threshold uses up the approval that is on record at that moment, once,
\* and it is somebody else's.
ImplementsFourEyes == ConfirmedFourEyes!Spec

\* A material holding names two distinct super admins, and the audit log has
\* the first one's approval: two requests that race for the first approval,
\* or one that repeats its own, never make a confirmation of one person.
TwoSuperAdmins ==
    \A i \in holdings \cap Guarded :
        /\ {decision[i].by, decision[i].first} \subseteq SuperAdmin
        /\ decision[i].by # decision[i].first
        /\ <<i, decision[i].first>> \in approvalLog

\* A holding exists exactly for the confirmed interests, and none of them
\* keeps a first approval, even one that a slower request was about to record.
HoldingsMatchDecisions ==
    /\ holdings = {i \in Interest : status[i] = "confirmed"}
    /\ \A i \in holdings : approval[i] = NoStaff

\* A decided interest is never decided again: confirm, decline and withdraw
\* race on the pending status and one of them wins.
DecisionsAreFinal ==
    [][\A i \in Interest :
         status[i] \in Decided => /\ status'[i] = status[i]
                                  /\ decision'[i] = decision[i]]_vars

\* No confirmation pushes what is committed to an asset past its stated
\* capacity, whatever capacity the request had seen, whatever was confirmed
\* since, and whoever confirms another investor's ticket at the same time.
NeverOverCommitted ==
    [][\A a \in Asset :
         Committed(a)' > Committed(a) =>
             capacity'[a] = 0 \/ Committed(a)' <= capacity'[a]]_vars

\* When a holding appears the investor is approved and clear and the asset
\* open at that moment, not just when the request read them.
ClearedAtConfirmation ==
    [][\A i \in holdings' \ holdings :
         /\ Cleared(InvestorOf[i])
         /\ assetStatus[AssetOf[i]] = "published"]_vars

\* Whoever decides an interest has the investor in their book at that moment:
\* an investor reassigned between the read and the decision is out of reach.
DecidedInScope ==
    [][\A i \in Interest :
         decision'[i] # decision[i] =>
             Visible(decision'[i].by, InvestorOf[i])]_vars

=============================================================================
