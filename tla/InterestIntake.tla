---------------------------- MODULE InterestIntake ----------------------------
(***************************************************************************)
(* How interests come to be, and the asset they refer to: createInterest,  *)
(* setAssetStatus, updateDraftAsset, the two access switches and the       *)
(* passing of days.  InterestConfirm takes over once an interest exists;   *)
(* here deciding one is a single step.                                     *)
(*                                                                         *)
(* createInterest checks its gates on unlocked reads (ExpressInterest) and *)
(* then runs a transaction.  The transaction starts (BeginInsert), which   *)
(* fixes created_at, may wait for the lock on the investor row, and then   *)
(* counts the day's interests and inserts (InsertInterest).  The clock     *)
(* that says which day it is when counting is read after the wait.         *)
(*                                                                         *)
(* setAssetStatus reads the asset and its pending interests without a lock *)
(* (ReadAsset) and then sets the status if it is still the one it read.    *)
(*                                                                         *)
(* Not modelled: onboarding and account gates (no code takes them back),   *)
(* the capacity (InterestConfirm), amounts, options and notes the form     *)
(* rejects, and assets with an incomplete operating profile.               *)
(***************************************************************************)
EXTENDS Naturals, FiniteSetsExt

CONSTANTS
    Interest,    \* ids of interest rows that may come to exist
    Investor,
    Asset,
    Request,     \* slots for requests in flight at the same time
    InvestorOf,  \* interests.investor_id
    AssetOf,     \* interests.asset_id
    MaxPerDay,   \* MAX_INTERESTS_PER_DAY
    LastDay,     \* bound: days are 1..LastDay
    LastVersion  \* bound: edits of an asset's terms

ASSUME IntakeAssumption ==
    /\ InvestorOf \in [Interest -> Investor]
    /\ AssetOf \in [Interest -> Asset]
    /\ MaxPerDay \in Nat \ {0} /\ LastDay \in Nat \ {0} /\ LastVersion \in Nat
    /\ IsFiniteSet(Request)

Status == {"absent", "pending", "confirmed", "declined", "withdrawn"}
AssetStatus == {"draft", "published", "closed"}

VARIABLES
    status,       \* interests.status, "absent" while there is no row
    createdOn,    \* the UTC day of interests.created_at, 0 for no row
    assetStatus,  \* assets.status
    version,      \* how often the asset's terms were edited
    poolAccess,   \* investors.pool_investments_enabled
    poolOpen,     \* the platform setting for pool investments
    day,          \* today
    req           \* what each request in flight remembers

vars == <<status, createdOn, assetStatus, version, poolAccess, poolOpen, day, req>>

Idle == [op |-> "idle"]
RequestState ==
    {Idle}
      \cup [op : {"express"}, interest : Interest]
      \cup [op : {"insert"}, interest : Interest, began : 1..LastDay]
      \cup [op : {"status"}, asset : Asset, from : AssetStatus, to : AssetStatus]

TypeOK ==
    /\ status \in [Interest -> Status]
    /\ createdOn \in [Interest -> 0..LastDay]
    /\ assetStatus \in [Asset -> AssetStatus]
    /\ version \in [Asset -> 0..LastVersion]
    /\ poolAccess \in [Investor -> BOOLEAN]
    /\ poolOpen \in BOOLEAN
    /\ day \in 1..LastDay
    /\ req \in [Request -> RequestState]

-----------------------------------------------------------------------------
\* The pending interests on an asset, and those an investor has on it.
Pending(a) == {i \in Interest : AssetOf[i] = a /\ status[i] = "pending"}
PendingOf(v, a) == {i \in Pending(a) : InvestorOf[i] = v}

\* MUTANT: only what is still pending counts towards the day's limit.
CreatedSince_PendingOnly(v, d) ==
    {i \in Interest : InvestorOf[i] = v /\ createdOn[i] >= d /\ status[i] = "pending"}

\* The investor's interests with created_at on day d or later, whatever became
\* of them.
CreatedSince(v, d) ==
    {i \in Interest : InvestorOf[i] = v /\ createdOn[i] >= d}

Finish(r) == req' = [req EXCEPT ![r] = Idle]

-----------------------------------------------------------------------------
Init ==
    /\ status = [i \in Interest |-> "absent"]
    /\ createdOn = [i \in Interest |-> 0]
    /\ assetStatus \in [Asset -> {"draft", "published"}]
    /\ version = [a \in Asset |-> 0]
    /\ poolAccess \in [Investor -> BOOLEAN]
    /\ poolOpen \in BOOLEAN
    /\ day = 1
    /\ req = [r \in Request |-> Idle]

\* createInterest's gates, on unlocked reads.
ExpressInterest(r, i) ==
    /\ req[r] = Idle
    /\ status[i] = "absent"
    /\ \A q \in Request : req[q].op \in {"express", "insert"} => req[q].interest # i
    /\ poolAccess[InvestorOf[i]]
    /\ poolOpen
    /\ assetStatus[AssetOf[i]] = "published"
    /\ PendingOf(InvestorOf[i], AssetOf[i]) = {}
    /\ req' = [req EXCEPT ![r] = [op |-> "express", interest |-> i]]
    /\ UNCHANGED <<status, createdOn, assetStatus, version, poolAccess, poolOpen, day>>

\* The transaction starts: created_at defaults to now(), which is this moment
\* however long the transaction waits.
BeginInsert(r) ==
    /\ req[r].op = "express"
    /\ req' = [req EXCEPT ![r] =
                 [op |-> "insert", interest |-> req[r].interest, began |-> day]]
    /\ UNCHANGED <<status, createdOn, assetStatus, version, poolAccess, poolOpen, day>>

\* MUTANT: the fast path is trusted to have seen every pending interest.
InsertInterest_NoIndex(r) ==
    LET i == req[r].interest
        v == InvestorOf[i]
    IN  /\ req[r].op = "insert"
        /\ Cardinality(CreatedSince(v, day)) < MaxPerDay
        /\ status' = [status EXCEPT ![i] = "pending"]
        /\ createdOn' = [createdOn EXCEPT ![i] = req[r].began]
        /\ Finish(r)
        /\ UNCHANGED <<assetStatus, version, poolAccess, poolOpen, day>>

\* Under the investor lock: the day's limit, and the unique index on pending
\* interests.  The gates are not read again.
InsertInterest(r) ==
    LET i == req[r].interest
        v == InvestorOf[i]
    IN  /\ req[r].op = "insert"
        /\ Cardinality(CreatedSince(v, day)) < MaxPerDay
        /\ PendingOf(v, AssetOf[i]) = {}
        /\ status' = [status EXCEPT ![i] = "pending"]
        /\ createdOn' = [createdOn EXCEPT ![i] = req[r].began]
        /\ Finish(r)
        /\ UNCHANGED <<assetStatus, version, poolAccess, poolOpen, day>>

\* confirmInterest, declineInterest or withdrawInterest; a confirmation finds
\* the asset published and does not look at the access switches.
DecideInterest(i, decision) ==
    /\ status[i] = "pending"
    /\ decision = "confirmed" => assetStatus[AssetOf[i]] = "published"
    /\ status' = [status EXCEPT ![i] = decision]
    /\ UNCHANGED <<createdOn, assetStatus, version, poolAccess, poolOpen, day, req>>

-----------------------------------------------------------------------------
\* setAssetStatus reads: closed is terminal, and unpublishing needs that no
\* interest is pending.
ReadAsset(r, a, to) ==
    /\ req[r] = Idle
    /\ assetStatus[a] = "closed" => to = "closed"
    /\ assetStatus[a] = "published" /\ to = "draft" => Pending(a) = {}
    /\ req' = [req EXCEPT ![r] =
                 [op |-> "status", asset |-> a, from |-> assetStatus[a], to |-> to]]
    /\ UNCHANGED <<status, createdOn, assetStatus, version, poolAccess, poolOpen, day>>

\* setAssetStatus writes, if the status is still the one it read.
SetAssetStatus(r) ==
    /\ req[r].op = "status"
    /\ assetStatus[req[r].asset] = req[r].from
    /\ assetStatus' = [assetStatus EXCEPT ![req[r].asset] = req[r].to]
    /\ Finish(r)
    /\ UNCHANGED <<status, createdOn, version, poolAccess, poolOpen, day>>

\* updateDraftAsset: yield, minimum ticket and options may change in a draft.
UpdateDraftAsset(a) ==
    /\ assetStatus[a] = "draft"
    /\ version[a] < LastVersion
    /\ version' = [version EXCEPT ![a] = @ + 1]
    /\ UNCHANGED <<status, createdOn, assetStatus, poolAccess, poolOpen, day, req>>

SetInvestorPoolAccess(v, enabled) ==
    /\ poolAccess[v] # enabled
    /\ poolAccess' = [poolAccess EXCEPT ![v] = enabled]
    /\ UNCHANGED <<status, createdOn, assetStatus, version, poolOpen, day, req>>

SetPoolInvestmentsEnabled(enabled) ==
    /\ poolOpen' = enabled
    /\ UNCHANGED <<status, createdOn, assetStatus, version, poolAccess, day, req>>

NextDay ==
    /\ day < LastDay
    /\ day' = day + 1
    /\ UNCHANGED <<status, createdOn, assetStatus, version, poolAccess, poolOpen, req>>

\* A request is rejected by a recheck, or fails; nothing of it stays.
RequestFails(r) ==
    /\ req[r] # Idle
    /\ Finish(r)
    /\ UNCHANGED <<status, createdOn, assetStatus, version, poolAccess, poolOpen, day>>

-----------------------------------------------------------------------------
RequestStep(r) ==
    \/ \E i \in Interest : ExpressInterest(r, i)
    \/ BeginInsert(r)
    \/ InsertInterest(r)
    \/ \E a \in Asset, to \in AssetStatus : ReadAsset(r, a, to)
    \/ SetAssetStatus(r)
    \/ RequestFails(r)

Next ==
    \/ \E r \in Request : RequestStep(r)
    \/ \E i \in Interest, d \in {"confirmed", "declined", "withdrawn"} : DecideInterest(i, d)
    \/ \E a \in Asset : UpdateDraftAsset(a)
    \/ \E v \in Investor, b \in BOOLEAN : SetInvestorPoolAccess(v, b)
    \/ \E b \in BOOLEAN : SetPoolInvestmentsEnabled(b)
    \/ NextDay

Spec == Init /\ [][Next]_vars

-----------------------------------------------------------------------------
(* Properties                                                              *)

\* Requests that all passed the fast path leave at most one pending interest
\* per investor and asset.
OnePendingPerAsset ==
    \A v \in Investor, a \in Asset : Cardinality(PendingOf(v, a)) <= 1

CreatedOn(v, d) == {i \in Interest : InvestorOf[i] = v /\ createdOn[i] = d}

\* However requests race, withdraw and try again, an investor's interests of
\* one day exceed the limit by no more than the transactions that were open at
\* midnight.
DailyLimitUpToMidnight ==
    \A v \in Investor, d \in 1..LastDay :
        Cardinality(CreatedOn(v, d)) <= MaxPerDay + Cardinality(Request)

\* A closed asset is never revived, not by a request that read it before it
\* was closed either.
ClosedIsTerminal ==
    [][\A a \in Asset : assetStatus[a] = "closed" => assetStatus'[a] = "closed"]_vars

\* What setAssetStatus resolves pending interests for: nobody edits the terms
\* of an asset while an interest in it is pending.  It does not hold.
PendingKeepsItsTerms ==
    [][\A a \in Asset : version'[a] # version[a] => Pending(a) = {}]_vars

\* What the preflight requires: the investor has pool access when an interest
\* is confirmed.  It does not hold.
ConfirmedWithPoolAccess ==
    [][\A i \in Interest :
         status'[i] = "confirmed" /\ status[i] # "confirmed" =>
             poolAccess[InvestorOf[i]]]_vars

=============================================================================
