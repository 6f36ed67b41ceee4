------------------------- MODULE InterestConfirmProofs -------------------------
(***************************************************************************)
(* For any staff, investors, assets, amounts and number of concurrent      *)
(* requests: InterestConfirm keeps its types, no material holding comes    *)
(* from one person, holdings match the decisions, decisions are final, no  *)
(* confirmation exceeds a capacity and confirmations implement FourEyes.   *)
(*                                                                         *)
(* TwoSuperAdmins is not inductive: whether a claim is safe depends on     *)
(* what its request remembered some steps ago.  RequestsTrusted says that  *)
(* this memory is still right while the interest is pending, and           *)
(* ApprovalsLogged that a pending approval is one of a super admin, logged *)
(* and not of a confirmed interest.  ClaimsLocked says what the row locks   *)
(* are for: between its two steps a claim's rechecks stay true, the sum of *)
(* the asset's holdings included, and no other claim has the same rows.    *)
(***************************************************************************)
EXTENDS InterestConfirm, FiniteSetTheorems, FunctionTheorems, TLAPS

\* A request past its first transaction holds another super admin's logged
\* approval, and while the interest is pending that approval is on record.
RequestTrusted(r) ==
    req[r] # Idle =>
        LET i == req[r].interest
        IN  /\ status[i] # "absent"
            /\ req[r].op = "approve" =>
                 req[r].staff \in SuperAdmin /\ i \in Guarded
            /\ req[r].op \in {"claim", "commit"} =>
                 IF i \in Guarded
                 THEN /\ req[r].staff \in SuperAdmin
                      /\ req[r].first \in SuperAdmin \ {req[r].staff}
                      /\ <<i, req[r].first>> \in approvalLog
                      /\ status[i] = "pending" => approval[i] = req[r].first
                 ELSE req[r].first = NoStaff

RequestsTrusted == \A r \in Request : RequestTrusted(r)

\* Approvals are recorded for existing, unconfirmed material interests only.
ApprovalsLogged ==
    \A i \in Interest : approval[i] # NoStaff =>
        /\ i \in Guarded
        /\ <<i, approval[i]>> \in approvalLog
        /\ status[i] \notin {"absent", "confirmed"}

\* A claim that has its locks would still pass its rechecks, and the rows it
\* locked are nobody else's.
ClaimLocked(r) ==
    InFlight(r, "commit") =>
        LET i == req[r].interest
        IN  /\ MayClaim(req[r].staff, i)
            /\ \A q \in Request \ {r} : InFlight(q, "commit") =>
                 /\ InvestorOf[req[q].interest] # InvestorOf[i]
                 /\ AssetOf[req[q].interest] # AssetOf[i]

ClaimsLocked == \A r \in Request : ClaimLocked(r)

IInv ==
    /\ TypeOK
    /\ ClaimsLocked
    /\ IsFiniteSet(holdings)
    /\ RequestsTrusted
    /\ ApprovalsLogged
    /\ TwoSuperAdmins
    /\ HoldingsMatchDecisions

-----------------------------------------------------------------------------
\* A request in flight names staff and an interest, and a claim its first
\* approver (loadInterestWithContext and findOrRecordFirstApproval).
LEMMA RequestTyped ==
    ASSUME TypeOK, NEW r \in Request, req[r].op # "idle"
    PROVE  /\ req[r] # Idle
           /\ req[r].staff \in Staff
           /\ req[r].interest \in Interest
           /\ req[r].op \in {"approve", "claim", "commit", "decline"}
           /\ req[r].op = "approve" => req[r].staff \in SuperAdmin
           /\ req[r].op \in {"claim", "commit"} => req[r].first \in SuperAdmin \cup {NoStaff}
<1>1. req[r] \in RequestState
  BY DEF TypeOK
<1>2. req[r] # Idle
  BY DEF Idle
<1>3. QED
  BY <1>1, <1>2 DEF RequestState, Staff

\* Every variable keeps its type through every operation of the module.
LEMMA TypeStep ==
    ASSUME TypeOK, [Next]_vars
    PROVE  TypeOK'
<1> USE ConfirmAssumption, StartAssumption
        DEF TypeOK, RequestState, deskVars, investorVars, assetVars, InFlight, Finish
<1>1. ASSUME NEW r \in Request, StaffRequest(r)
      PROVE  TypeOK'
  <2>1. ASSUME NEW s \in Staff, NEW i \in Interest, LoadForConfirm(r, s, i)
        PROVE  TypeOK'
    BY <2>1 DEF LoadForConfirm, Staff
  <2>2. ASSUME NEW s \in Staff, NEW i \in Interest, LoadForDecline(r, s, i)
        PROVE  TypeOK'
    BY <2>2 DEF LoadForDecline
  <2>3. CASE RecordFirstApproval(r)
    BY <2>3, RequestTyped DEF RecordFirstApproval
  <2>4. CASE ContinueAsSecond(r)
    BY <2>4, RequestTyped DEF ContinueAsSecond
  <2>8. CASE LockForClaim(r)
    BY <2>8, RequestTyped DEF LockForClaim
  <2>5. CASE ClaimInterest(r)
    BY <2>5, RequestTyped DEF ClaimInterest, Status
  <2>6. CASE DeclineInterest(r)
    BY <2>6, RequestTyped DEF DeclineInterest, Status
  <2>7. CASE RequestFails(r)
    BY <2>7 DEF RequestFails
  <2>. QED
    BY <1>1, <2>1, <2>2, <2>3, <2>4, <2>5, <2>6, <2>7, <2>8 DEF StaffRequest
<1>2. ASSUME NEW i \in Interest, CreateInterest(i) \/ WithdrawInterest(i)
      PROVE  TypeOK'
  BY <1>2 DEF CreateInterest, WithdrawInterest, Status
<1>3. ASSUME NEW v \in Investor, InvestorChanges(v)
      PROVE  TypeOK'
  <2>1. ASSUME NEW k \in KycStatus, SetKycStatus(v, k)
        PROVE  TypeOK'
    BY <2>1 DEF SetKycStatus
  <2>2. CASE SubmitKycForReview(v)
    BY <2>2 DEF SubmitKycForReview, KycStatus
  <2>3. ASSUME NEW x \in ScreeningResults, RecordScreening(v, x)
        PROVE  TypeOK'
    BY <2>3 DEF RecordScreening, Screening
  <2>4. ASSUME NEW D \in SUBSET Desk, AssignInvestor(v, D)
        PROVE  TypeOK'
    BY <2>4 DEF AssignInvestor
  <2>. QED
    BY <1>3, <2>1, <2>2, <2>3, <2>4 DEF InvestorChanges
<1>4. ASSUME NEW a \in Asset, AssetChanges(a)
      PROVE  TypeOK'
  BY <1>4 DEF AssetChanges, SetAssetStatus, UpdateAssetCapacity
<1>5. CASE UNCHANGED vars
  BY <1>5 DEF vars
<1>. QED
  BY <1>1, <1>2, <1>3, <1>4, <1>5 DEF Next

\* A claim that kept its locks through a step is locked afterwards if the step
\* changed nothing of its investor and of its asset.
LEMMA ClaimsKept ==
    ASSUME TypeOK, ClaimsLocked,
           \A r \in Request : InFlight(r, "commit")' =>
               /\ req'[r] = req[r]
               /\ LET v == InvestorOf[req[r].interest]
                      a == AssetOf[req[r].interest]
                  IN  /\ kyc'[v] = kyc[v] /\ screening'[v] = screening[v]
                      /\ owner'[v] = owner[v]
                      /\ assetStatus'[a] = assetStatus[a] /\ capacity'[a] = capacity[a]
                      /\ ActiveOn(a)' = ActiveOn(a)
    PROVE  ClaimsLocked'
<1>1. ASSUME NEW r \in Request, InFlight(r, "commit")'
      PROVE  ClaimLocked(r)'
  <2> DEFINE i == req[r].interest
  <2>1. /\ req'[r] = req[r]
        /\ ClaimLocked(r) /\ InFlight(r, "commit")
    BY <1>1 DEF ClaimsLocked, InFlight
  <2>2. MayClaim(req[r].staff, i)'
    <3>1. Committed(AssetOf[i])' = Committed(AssetOf[i])
      BY <1>1 DEF Committed
    <3>. QED
      BY <1>1, <2>1, <3>1 DEF ClaimLocked, MayClaim, Visible, Cleared, TicketFits
  <2>3. ASSUME NEW q \in Request \ {r}, InFlight(q, "commit")'
        PROVE  /\ InvestorOf[req[q].interest] # InvestorOf[i]
               /\ AssetOf[req[q].interest] # AssetOf[i]
               /\ req'[q] = req[q]
    BY <2>1, <2>3 DEF ClaimLocked, InFlight
  <2>. QED
    BY <2>1, <2>2, <2>3 DEF ClaimLocked, InFlight
<1>. QED
  BY <1>1 DEF ClaimsLocked, ClaimLocked

\* Whoever needs a locked row waits, so no step takes from a claim what it has
\* rechecked under its locks.
LEMMA LocksStep ==
    ASSUME TypeOK, TypeOK', ClaimsLocked, [Next]_vars
    PROVE  ClaimsLocked'
<1> USE DEF InFlight, Finish, Idle, deskVars, investorVars, assetVars
<1>1. ASSUME NEW r \in Request, StaffRequest(r), ~LockForClaim(r), ~ClaimInterest(r)
      PROVE  ClaimsLocked'
  <2>1. /\ UNCHANGED <<holdings, investorVars, assetVars>>
        /\ req' = [req EXCEPT ![r] = req'[r]]
        /\ req'[r].op # "commit"
    BY <1>1 DEF StaffRequest, LoadForConfirm, LoadForDecline, RecordFirstApproval,
       ContinueAsSecond, DeclineInterest, RequestFails, TypeOK
  <2>. QED
    BY <2>1, ClaimsKept DEF TypeOK, ActiveOn
<1>2. ASSUME NEW r \in Request, LockForClaim(r)
      PROVE  ClaimsLocked'
  <2> DEFINE i == req[r].interest
  <2>1. /\ UNCHANGED <<deskVars, investorVars, assetVars>>
        /\ req' = [req EXCEPT ![r] = req'[r]]
        /\ req'[r].interest = i /\ req'[r].staff = req[r].staff
        /\ req[r].op = "claim"
        /\ MayClaim(req[r].staff, i)
    BY <1>2 DEF LockForClaim, TypeOK
  <2>2. \A q \in Request : InFlight(q, "commit") =>
          /\ InvestorOf[req[q].interest] # InvestorOf[i]
          /\ AssetOf[req[q].interest] # AssetOf[i]
    BY <1>2 DEF LockForClaim, ClaimLocks, InvestorFree, AssetFree, Locked
  <2>3. \A s, j : MayClaim(s, j) => MayClaim(s, j)'
    BY <2>1 DEF MayClaim, Visible, Cleared, TicketFits, Committed, ActiveOn
  <2>4. ClaimLocked(r)'
    BY <2>1, <2>2, <2>3 DEF ClaimLocked, TypeOK
  <2>5. ASSUME NEW q \in Request \ {r}
        PROVE  ClaimLocked(q)'
    BY <2>1, <2>2, <2>3 DEF ClaimLocked, ClaimsLocked, TypeOK
  <2>. QED
    BY <2>4, <2>5 DEF ClaimsLocked
<1>3. ASSUME NEW r \in Request, ClaimInterest(r)
      PROVE  ClaimsLocked'
  <2> DEFINE i == req[r].interest
  <2>1. /\ UNCHANGED <<investorVars, assetVars>>
        /\ req' = [req EXCEPT ![r] = Idle]
        /\ holdings' = holdings \cup {i}
        /\ req[r].op = "commit"
    BY <1>3 DEF ClaimInterest
  <2>2. \A q \in Request \ {r} : InFlight(q, "commit") => AssetOf[req[q].interest] # AssetOf[i]
    BY <2>1 DEF ClaimsLocked, ClaimLocked
  <2>. QED
    BY <2>1, <2>2, ClaimsKept DEF TypeOK, ActiveOn
<1>4. ASSUME NEW i \in Interest, CreateInterest(i) \/ WithdrawInterest(i)
      PROVE  ClaimsLocked'
  BY <1>4, ClaimsKept DEF CreateInterest, WithdrawInterest, ActiveOn
<1>5. ASSUME NEW v \in Investor, InvestorChanges(v)
      PROVE  ClaimsLocked'
  <2>1. /\ UNCHANGED <<holdings, assetVars, req>>
        /\ InvestorFree(v)
        /\ \A u \in Investor \ {v} :
             kyc'[u] = kyc[u] /\ screening'[u] = screening[u] /\ owner'[u] = owner[u]
    BY <1>5 DEF InvestorChanges, SetKycStatus, SubmitKycForReview, RecordScreening,
       AssignInvestor, TypeOK
  <2>2. \A r \in Request : InFlight(r, "commit") =>
          /\ req[r].interest \in Interest
          /\ InvestorOf[req[r].interest] \in Investor \ {v}
    BY <2>1, RequestTyped, ConfirmAssumption DEF InvestorFree, Locked
  <2>. QED
    BY <2>1, <2>2, ClaimsKept DEF ActiveOn
<1>6. ASSUME NEW a \in Asset, AssetChanges(a)
      PROVE  ClaimsLocked'
  <2>1. /\ UNCHANGED <<holdings, investorVars, req>>
        /\ AssetFree(a)
        /\ \A b \in Asset \ {a} :
             assetStatus'[b] = assetStatus[b] /\ capacity'[b] = capacity[b]
    BY <1>6 DEF AssetChanges, SetAssetStatus, UpdateAssetCapacity, TypeOK
  <2>2. \A r \in Request : InFlight(r, "commit") =>
          /\ req[r].interest \in Interest
          /\ AssetOf[req[r].interest] \in Asset \ {a}
    BY <2>1, RequestTyped, ConfirmAssumption DEF AssetFree, Locked
  <2>. QED
    BY <2>1, <2>2, ClaimsKept DEF ActiveOn
<1>7. CASE UNCHANGED vars
  BY <1>7, ClaimsKept DEF vars, ActiveOn
<1>. QED
  BY <1>1, <1>2, <1>3, <1>4, <1>5, <1>6, <1>7 DEF Next

\* A step that leaves the decisions and the approvals alone keeps the
\* invariant if the requests it touches stay trusted (every load).
LEMMA DeskUnchanged ==
    ASSUME IInv, TypeOK', UNCHANGED deskVars,
           ClaimsLocked',
           \A r \in Request : req'[r] # req[r] => RequestTrusted(r)'
    PROVE  IInv'
<1>1. RequestsTrusted'
  BY DEF IInv, RequestsTrusted, RequestTrusted, deskVars
<1>. QED
  BY <1>1 DEF IInv, ApprovalsLogged, TwoSuperAdmins, HoldingsMatchDecisions, deskVars, Guarded

\* The invariant survives every step, one operation after the other.
LEMMA InvStep ==
    ASSUME IInv, [Next]_vars
    PROVE  IInv'
<1>0. TypeOK /\ TypeOK' /\ ClaimsLocked'
  BY TypeStep, LocksStep DEF IInv
<1>1. ASSUME NEW r \in Request, StaffRequest(r)
      PROVE  IInv'
  <2>1. ASSUME NEW s \in Staff, NEW i \in Interest, LoadForConfirm(r, s, i)
        PROVE  IInv'
    <3>1. \A q \in Request : req'[q] # req[q] => RequestTrusted(q)'
      BY <2>1, <1>0 DEF LoadForConfirm, RequestTrusted, TypeOK, deskVars, Guarded
    <3>. QED
      BY <3>1, <2>1, <1>0, DeskUnchanged DEF LoadForConfirm
  <2>2. ASSUME NEW s \in Staff, NEW i \in Interest, LoadForDecline(r, s, i)
        PROVE  IInv'
    <3>1. \A q \in Request : req'[q] # req[q] => RequestTrusted(q)'
      BY <2>2, <1>0 DEF LoadForDecline, RequestTrusted, TypeOK, deskVars
    <3>. QED
      BY <3>1, <2>2, <1>0, DeskUnchanged DEF LoadForDecline
  <2>4. CASE ContinueAsSecond(r)
    <3>1. \A q \in Request : req'[q] # req[q] => RequestTrusted(q)'
      BY <2>4, <1>0, RequestTyped
      DEF ContinueAsSecond, RequestTrusted, TypeOK, deskVars, InFlight, IInv,
          RequestsTrusted, ApprovalsLogged, MayApprove, Guarded, Idle
    <3>. QED
      BY <3>1, <2>4, <1>0, DeskUnchanged DEF ContinueAsSecond
  <2>8. CASE LockForClaim(r)
    <3>1. \A q \in Request : req'[q] # req[q] => RequestTrusted(q)'
      BY <2>8, <1>0, RequestTyped
      DEF LockForClaim, RequestTrusted, TypeOK, deskVars, InFlight, IInv, RequestsTrusted, Idle
    <3>. QED
      BY <3>1, <2>8, <1>0, DeskUnchanged DEF LockForClaim
  <2>7. CASE RequestFails(r)
    <3>1. \A q \in Request : req'[q] # req[q] => RequestTrusted(q)'
      BY <2>7, <1>0 DEF RequestFails, RequestTrusted, Finish, TypeOK
    <3>. QED
      BY <3>1, <2>7, <1>0, DeskUnchanged DEF RequestFails
  <2>3. CASE RecordFirstApproval(r)
    <3> DEFINE s == req[r].staff
               i == req[r].interest
    <3>1. /\ s \in SuperAdmin /\ i \in Guarded /\ i \in Interest
          /\ status[i] = "pending" /\ approval[i] = NoStaff
          /\ approval' = [approval EXCEPT ![i] = s]
          /\ approvalLog' = approvalLog \cup {<<i, s>>}
          /\ req' = [req EXCEPT ![r] = Idle]
          /\ UNCHANGED <<status, decision, holdings>>
      BY <2>3, <1>0, RequestTyped
      DEF RecordFirstApproval, InFlight, Finish, MayApprove, IInv, RequestsTrusted, RequestTrusted
    <3>2. \A q \in Request : RequestTrusted(q)'
      BY <3>1, <1>0, RequestTyped, ConfirmAssumption
      DEF IInv, RequestsTrusted, RequestTrusted, TypeOK, Guarded, Staff, Idle, RequestState
    <3>3. ApprovalsLogged'
      BY <3>1, <1>0 DEF IInv, ApprovalsLogged, TypeOK, Guarded
    <3>4. TwoSuperAdmins'
      BY <3>1, <1>0 DEF IInv, TwoSuperAdmins, Guarded
    <3>5. HoldingsMatchDecisions'
      BY <3>1, <1>0 DEF IInv, HoldingsMatchDecisions, TypeOK
    <3>. QED
      BY <1>0, <3>1, <3>2, <3>3, <3>4, <3>5 DEF IInv, RequestsTrusted, RequestTrusted
  <2>5. CASE ClaimInterest(r)
    <3> DEFINE s == req[r].staff
               i == req[r].interest
               f == req[r].first
    <3>1. /\ s \in Staff /\ i \in Interest /\ f \in SuperAdmin \cup {NoStaff}
          /\ status[i] = "pending"
          /\ IF i \in Guarded
             THEN /\ s \in SuperAdmin /\ f \in SuperAdmin /\ f # s
                  /\ <<i, f>> \in approvalLog /\ approval[i] = f
             ELSE f = NoStaff
          /\ status' = [status EXCEPT ![i] = "confirmed"]
          /\ decision' = [decision EXCEPT ![i] = [by |-> s, first |-> f]]
          /\ holdings' = holdings \cup {i}
          /\ approval' = IF f = NoStaff THEN approval
                         ELSE [approval EXCEPT ![i] = NoStaff]
          /\ req' = [req EXCEPT ![r] = Idle]
          /\ UNCHANGED approvalLog
      BY <2>5, <1>0, RequestTyped
      DEF ClaimInterest, InFlight, Finish, IInv, RequestsTrusted, RequestTrusted
    <3>2. \A q \in Request : RequestTrusted(q)'
      BY <3>1, <1>0, RequestTyped
      DEF IInv, RequestsTrusted, RequestTrusted, TypeOK, Guarded, Idle, RequestState
    <3>3. approval'[i] = NoStaff
      BY <3>1, <1>0, ConfirmAssumption DEF IInv, ApprovalsLogged, TypeOK, Staff
    <3>4. ApprovalsLogged'
      BY <3>1, <3>3, <1>0 DEF IInv, ApprovalsLogged, TypeOK, Guarded
    <3>5. TwoSuperAdmins'
      BY <3>1, <1>0 DEF IInv, TwoSuperAdmins, TypeOK, Guarded
    <3>6. HoldingsMatchDecisions'
      BY <3>1, <3>3, <1>0 DEF IInv, HoldingsMatchDecisions, TypeOK
    <3>7. IsFiniteSet(holdings')
      BY <3>1, FS_AddElement DEF IInv
    <3>. QED
      BY <1>0, <3>2, <3>4, <3>5, <3>6, <3>7 DEF IInv, RequestsTrusted, RequestTrusted
  <2>6. CASE DeclineInterest(r)
    <3> DEFINE i == req[r].interest
    <3>1. /\ i \in Interest
          /\ status[i] = "pending"
          /\ status' = [status EXCEPT ![i] = "declined"]
          /\ decision' = [decision EXCEPT ![i] = [by |-> req[r].staff, first |-> NoStaff]]
          /\ req' = [req EXCEPT ![r] = Idle]
          /\ UNCHANGED <<approval, approvalLog, holdings>>
      BY <2>6, <1>0, RequestTyped DEF DeclineInterest, InFlight, Finish
    <3>2. \A q \in Request : RequestTrusted(q)'
      BY <3>1, <1>0, RequestTyped
      DEF IInv, RequestsTrusted, RequestTrusted, TypeOK, Guarded, Idle, RequestState
    <3>4. ApprovalsLogged'
      BY <3>1, <1>0 DEF IInv, ApprovalsLogged, TypeOK, Guarded
    <3>5. TwoSuperAdmins'
      BY <3>1, <1>0 DEF IInv, TwoSuperAdmins, HoldingsMatchDecisions, TypeOK, Guarded
    <3>6. HoldingsMatchDecisions'
      BY <3>1, <1>0 DEF IInv, HoldingsMatchDecisions, TypeOK
    <3>. QED
      BY <1>0, <3>1, <3>2, <3>4, <3>5, <3>6 DEF IInv, RequestsTrusted, RequestTrusted
  <2>. QED
    BY <1>1, <2>1, <2>2, <2>3, <2>4, <2>5, <2>6, <2>7, <2>8 DEF StaffRequest
<1>2. ASSUME NEW i \in Interest, CreateInterest(i) \/ WithdrawInterest(i)
      PROVE  IInv'
  <2>1. /\ status[i] \in {"absent", "pending"}
        /\ \/ status[i] = "absent" /\ status' = [status EXCEPT ![i] = "pending"]
           \/ status[i] = "pending" /\ status' = [status EXCEPT ![i] = "withdrawn"]
        /\ UNCHANGED <<decision, approval, approvalLog, holdings, req>>
    BY <1>2 DEF CreateInterest, WithdrawInterest
  <2>2. \A q \in Request : RequestTrusted(q)'
    BY <2>1, <1>0, RequestTyped
    DEF IInv, RequestsTrusted, RequestTrusted, TypeOK, Guarded, Idle, RequestState
  <2>3. ApprovalsLogged'
    BY <2>1, <1>0 DEF IInv, ApprovalsLogged, TypeOK, Guarded
  <2>4. TwoSuperAdmins'
    BY <2>1, <1>0 DEF IInv, TwoSuperAdmins, Guarded
  <2>5. HoldingsMatchDecisions'
    BY <2>1, <1>0 DEF IInv, HoldingsMatchDecisions, TypeOK
  <2>. QED
    BY <1>0, <2>1, <2>2, <2>3, <2>4, <2>5 DEF IInv, RequestsTrusted, RequestTrusted
<1>3. ASSUME NEW v \in Investor, InvestorChanges(v)
      PROVE  IInv'
  BY <1>3, <1>0, DeskUnchanged DEF InvestorChanges, SetKycStatus, SubmitKycForReview,
     RecordScreening, AssignInvestor
<1>4. ASSUME NEW a \in Asset, AssetChanges(a)
      PROVE  IInv'
  BY <1>4, <1>0, DeskUnchanged DEF AssetChanges, SetAssetStatus, UpdateAssetCapacity
<1>5. CASE UNCHANGED vars
  BY <1>5, <1>0, DeskUnchanged DEF vars
<1>. QED
  BY <1>1, <1>2, <1>3, <1>4, <1>5 DEF Next

\* The invariant holds of the empty desk.
LEMMA InitInv == Init => IInv
BY ConfirmAssumption, StartAssumption, FS_EmptySet
DEF Init, IInv, ClaimsLocked, ClaimLocked, InFlight, Idle, TypeOK, RequestsTrusted, RequestTrusted, ApprovalsLogged, TwoSuperAdmins,
    HoldingsMatchDecisions, RequestState, Status, Screening, AssetStatus, NoDecision

\* The inductive invariant: what requests in flight remember of an interest
\* is right for as long as the interest is pending.
THEOREM InductiveInvariant == Spec => []IInv
<1>1. IInv /\ [Next]_vars => IInv'
  BY InvStep
<1>. QED
  BY InitInv, <1>1, PTL DEF Spec

-----------------------------------------------------------------------------
\* Type correctness of the interest desk: every row, approval and request in
\* flight stays within its type, for any constants that meet the assumptions.
THEOREM TypeCorrect == Spec => []TypeOK
<1>1. IInv => TypeOK
  BY DEF IInv
<1>. QED
  BY InductiveInvariant, <1>1, PTL

\* confirmInterest never turns a material interest into a holding on the word
\* of one person, however many requests race.
THEOREM MaterialHoldingsTakeTwo == Spec => []TwoSuperAdmins
<1>1. IInv => TwoSuperAdmins
  BY DEF IInv
<1>. QED
  BY InductiveInvariant, <1>1, PTL

\* Holdings are exactly the confirmed interests and no confirmed interest
\* keeps a first approval.
THEOREM HoldingsFollowDecisions == Spec => []HoldingsMatchDecisions
<1>1. IInv => HoldingsMatchDecisions
  BY DEF IInv
<1>. QED
  BY InductiveInvariant, <1>1, PTL

\* Confirm, decline and withdraw never overwrite one another.
THEOREM DecidedOnce == Spec => DecisionsAreFinal
<1> DEFINE Kept == \A i \in Interest :
              status[i] \in Decided => /\ status'[i] = status[i]
                                       /\ decision'[i] = decision[i]
<1>1. ASSUME TypeOK, [Next]_vars
      PROVE  Kept
  <2>1. ASSUME NEW r \in Request, StaffRequest(r)
        PROVE  Kept
    <3>1. ASSUME ClaimInterest(r) \/ DeclineInterest(r)
          PROVE  Kept
      BY <3>1, <1>1, RequestTyped
      DEF ClaimInterest, DeclineInterest, InFlight, TypeOK, Decided
    <3>2. ASSUME ~(ClaimInterest(r) \/ DeclineInterest(r))
          PROVE  UNCHANGED <<status, decision>>
      BY <3>2, <2>1 DEF StaffRequest, LoadForConfirm, LoadForDecline, RecordFirstApproval,
         ContinueAsSecond, LockForClaim, RequestFails, deskVars
    <3>. QED
      BY <3>1, <3>2
  <2>2. ASSUME NEW i \in Interest, CreateInterest(i) \/ WithdrawInterest(i)
        PROVE  Kept
    BY <2>2, <1>1 DEF CreateInterest, WithdrawInterest, TypeOK, Decided
  <2>3. ASSUME NEW v \in Investor, InvestorChanges(v)
        PROVE  Kept
    BY <2>3 DEF InvestorChanges, SetKycStatus, SubmitKycForReview, RecordScreening,
       AssignInvestor, deskVars
  <2>4. ASSUME NEW a \in Asset, AssetChanges(a)
        PROVE  Kept
    BY <2>4 DEF AssetChanges, SetAssetStatus, UpdateAssetCapacity, deskVars
  <2>5. CASE UNCHANGED vars
    BY <2>5 DEF vars, deskVars
  <2>. QED
    BY <1>1, <2>1, <2>2, <2>3, <2>4, <2>5 DEF Next
<1>2. TypeOK /\ [Next]_vars => [Kept]_vars
  BY <1>1
<1>. QED
  BY TypeCorrect, <1>2, PTL DEF Spec, DecisionsAreFinal

-----------------------------------------------------------------------------
\* Only a claim and a decline decide, and only a claim makes a holding.
LEMMA OnlyDecisions ==
    ASSUME [Next]_vars, \A r \in Request : ~ClaimInterest(r)
    PROVE  /\ UNCHANGED holdings
           /\ \/ UNCHANGED decision
              \/ \E r \in Request : DeclineInterest(r)
<1>1. ASSUME NEW r \in Request, StaffRequest(r)
      PROVE  UNCHANGED holdings /\ (UNCHANGED decision \/ DeclineInterest(r))
  BY <1>1 DEF StaffRequest, LoadForConfirm, LoadForDecline, RecordFirstApproval,
     ContinueAsSecond, LockForClaim, DeclineInterest, RequestFails, deskVars
<1>2. ASSUME NEW i \in Interest, CreateInterest(i) \/ WithdrawInterest(i)
      PROVE  UNCHANGED <<holdings, decision>>
  BY <1>2 DEF CreateInterest, WithdrawInterest
<1>3. ASSUME NEW v \in Investor, InvestorChanges(v)
      PROVE  UNCHANGED <<holdings, decision>>
  BY <1>3 DEF InvestorChanges, SetKycStatus, SubmitKycForReview, RecordScreening,
     AssignInvestor, deskVars
<1>4. ASSUME NEW a \in Asset, AssetChanges(a)
      PROVE  UNCHANGED <<holdings, decision>>
  BY <1>4 DEF AssetChanges, SetAssetStatus, UpdateAssetCapacity, deskVars
<1>5. CASE UNCHANGED vars
  BY <1>5 DEF vars, deskVars
<1>. QED
  BY <1>1, <1>2, <1>3, <1>4, <1>5 DEF Next

\* confirmInterest rechecks KYC, screening and the asset under its locks, so
\* no holding appears on the strength of what the request read before them.
THEOREM ClearedWhenConfirmed == Spec => ClearedAtConfirmation
<1> DEFINE Clean == \A i \in holdings' \ holdings :
              /\ Cleared(InvestorOf[i])
              /\ assetStatus[AssetOf[i]] = "published"
<1>1. ASSUME IInv, [Next]_vars
      PROVE  Clean
  <2>1. ASSUME NEW r \in Request, ClaimInterest(r)
        PROVE  Clean
    BY <2>1, <1>1 DEF ClaimInterest, IInv, ClaimsLocked, ClaimLocked, MayClaim
  <2>. QED
    BY <1>1, <2>1, OnlyDecisions
<1>2. IInv /\ [Next]_vars => [Clean]_vars
  BY <1>1
<1>. QED
  BY InductiveInvariant, <1>2, PTL DEF Spec, ClearedAtConfirmation

\* confirmInterest and declineInterest reread who owns the investor under its
\* lock, so nobody decides about an investor moved to somebody else's book.
THEOREM DecidedInBook == Spec => DecidedInScope
<1> DEFINE InBook == \A i \in Interest :
              decision'[i] # decision[i] => Visible(decision'[i].by, InvestorOf[i])
<1>1. ASSUME IInv, [Next]_vars
      PROVE  InBook
  <2>1. ASSUME NEW r \in Request, ClaimInterest(r) \/ DeclineInterest(r)
        PROVE  InBook
    <3>1. /\ Visible(req[r].staff, InvestorOf[req[r].interest])
          /\ \E f : decision' = [decision EXCEPT ![req[r].interest] =
                                   [by |-> req[r].staff, first |-> f]]
      BY <2>1, <1>1 DEF ClaimInterest, DeclineInterest, IInv, ClaimsLocked, ClaimLocked, MayClaim
    <3>. QED
      BY <3>1, <1>1 DEF IInv, TypeOK
  <2>. QED
    BY <1>1, <2>1, OnlyDecisions
<1>2. IInv /\ [Next]_vars => [InBook]_vars
  BY <1>1
<1>. QED
  BY InductiveInvariant, <1>2, PTL DEF Spec, DecidedInScope

-----------------------------------------------------------------------------
\* What is committed by a set of holdings.
SumOf(S) == Cardinality(UNION {Euros(i) : i \in S})

\* A holding counts for its amount.
LEMMA EurosFinite ==
    ASSUME NEW i \in Interest
    PROVE  IsFiniteSet(Euros(i)) /\ Cardinality(Euros(i)) = AmountOf[i]
<1>1. AmountOf[i] \in Nat \ {0}
  BY ConfirmAssumption
<1>2. IsFiniteSet(1 .. AmountOf[i]) /\ Cardinality(1 .. AmountOf[i]) = AmountOf[i]
  BY <1>1, FS_Interval
<1>3. IsFiniteSet({i}) /\ Cardinality({i}) = 1
  BY FS_Singleton
<1>4. /\ IsFiniteSet(Euros(i))
      /\ Cardinality(Euros(i)) = Cardinality({i}) * Cardinality(1 .. AmountOf[i])
  BY <1>2, <1>3, FS_Product DEF Euros
<1>. QED
  BY <1>1, <1>2, <1>3, <1>4

\* The sum over finitely many amounts is a number.
LEMMA SumFinite ==
    ASSUME NEW S \in SUBSET Interest, IsFiniteSet(S)
    PROVE  /\ IsFiniteSet(UNION {Euros(i) : i \in S})
           /\ SumOf(S) \in Nat
<1> DEFINE T == {Euros(i) : i \in S}
           f == [i \in S |-> Euros(i)]
<1>1. IsFiniteSet(T)
  <2>1. f \in [S -> T] /\ \A t \in T : \E i \in S : f[i] = t
    OBVIOUS
  <2>2. f \in Surjection(S, T)
    BY <2>1, Fun_IsSurj
  <2>. QED
    BY <2>2, FS_Surjection
<1>2. IsFiniteSet(UNION {Euros(i) : i \in S})
  BY <1>1, EurosFinite, FS_UNION
<1>. QED
  BY <1>2, FS_CardinalityType DEF SumOf

\* One more holding adds its amount (the sum of committedByAssetIds).
LEMMA SumGrows ==
    ASSUME NEW S \in SUBSET Interest, IsFiniteSet(S), NEW i \in Interest \ S
    PROVE  SumOf(S \cup {i}) = SumOf(S) + AmountOf[i]
<1> DEFINE E == UNION {Euros(j) : j \in S}
<1>1. UNION {Euros(j) : j \in S \cup {i}} = E \cup Euros(i)
  OBVIOUS
<1>2. E \cap Euros(i) = {}
  BY DEF Euros
<1>3. Cardinality(E \cup Euros(i)) = Cardinality(E) + Cardinality(Euros(i)) - Cardinality({})
  BY <1>2, EurosFinite, SumFinite, FS_Union
<1>4. Cardinality(E) \in Nat /\ Cardinality({}) = 0 /\ AmountOf[i] \in Nat
  BY SumFinite, FS_CardinalityType, FS_EmptySet, ConfirmAssumption
<1>5. Cardinality(Euros(i)) = AmountOf[i]
  BY EurosFinite
<1>6. Cardinality(E \cup Euros(i)) = Cardinality(E) + AmountOf[i]
  BY <1>3, <1>4, <1>5
<1>7. SumOf(S \cup {i}) = Cardinality(E \cup Euros(i))
  BY <1>1, Zenon DEF SumOf
<1>. QED
  BY <1>6, <1>7 DEF SumOf

\* confirmInterest sums the holdings under the asset's lock, so confirmations
\* that race for the last room of an asset never overfill it between them.
THEOREM CapacityRespected == Spec => NeverOverCommitted
<1> DEFINE Within == \A a \in Asset : Committed(a)' > Committed(a) =>
              capacity'[a] = 0 \/ Committed(a)' <= capacity'[a]
<1>1. ASSUME IInv, [Next]_vars
      PROVE  Within
  <2>0. \A a : Committed(a) = SumOf(ActiveOn(a))
    BY DEF Committed, SumOf
  <2>1. \A a : Committed(a)' = SumOf(ActiveOn(a)')
    BY DEF Committed, SumOf, Euros
  <2>2. \A a \in Asset : /\ ActiveOn(a) \subseteq Interest
                         /\ IsFiniteSet(ActiveOn(a))
                         /\ ActiveOn(a) \subseteq holdings
    BY <1>1, FS_Subset DEF ActiveOn, IInv, TypeOK
  <2>3. ASSUME NEW r \in Request, ClaimInterest(r), NEW a \in Asset,
               Committed(a)' > Committed(a)
        PROVE  capacity'[a] = 0 \/ Committed(a)' <= capacity'[a]
    <3> DEFINE i == req[r].interest
    <3>1. /\ i \in Interest /\ status[i] = "pending"
          /\ holdings' = holdings \cup {i}
          /\ capacity' = capacity
          /\ TicketFits(i)
      BY <2>3, <1>1, RequestTyped
      DEF ClaimInterest, InFlight, IInv, ClaimsLocked, ClaimLocked, MayClaim, assetVars
    <3>2. i \notin holdings
      BY <3>1, <1>1 DEF IInv, HoldingsMatchDecisions
    <3>3. CASE AssetOf[i] = a
      <4>1. ActiveOn(a)' = ActiveOn(a) \cup {i}
        BY <3>1, <3>3 DEF ActiveOn
      <4>2. Committed(a)' = Committed(a) + AmountOf[i]
        BY <4>1, <2>0, <2>1, <2>2, <3>1, <3>2, SumGrows
      <4>. QED
        BY <4>2, <3>1, <3>3 DEF TicketFits
    <3>4. CASE AssetOf[i] # a
      <4>1. ActiveOn(a)' = ActiveOn(a)
        BY <3>1, <3>4 DEF ActiveOn
      <4>2. Committed(a)' = Committed(a) /\ Committed(a) \in Nat
        BY <4>1, <2>0, <2>1, <2>2, SumFinite
      <4>. QED
        BY <4>2, <2>3
    <3>. QED
      BY <3>3, <3>4
  <2>4. CASE UNCHANGED holdings
    <3>1. \A a \in Asset : Committed(a)' = Committed(a)
      BY <2>4, <2>0, <2>1 DEF ActiveOn
    <3>2. \A a \in Asset : ~(Committed(a) > Committed(a))
      <4>1. \A a \in Asset : Committed(a) \in Nat
        BY <2>0, <2>2, SumFinite
      <4>. QED
        BY <4>1
    <3>. QED
      BY <3>1, <3>2
  <2>. QED
    BY <1>1, <2>3, <2>4, OnlyDecisions
<1>2. IInv /\ [Next]_vars => [Within]_vars
  BY <1>1
<1>. QED
  BY InductiveInvariant, <1>2, PTL DEF Spec, NeverOverCommitted

-----------------------------------------------------------------------------
\* A step that leaves the statuses, decisions and approvals alone is invisible
\* to the four-eyes specification.
LEMMA FourEyesStutter ==
    ASSUME UNCHANGED <<status, decision, approval>>
    PROVE  UNCHANGED ConfirmedFourEyes!vars
BY DEF ConfirmedFourEyes!vars

\* The two ways an item of the four-eyes specification is carried out.
LEMMA ExecutionIsStep ==
    \A i \in Interest, s \in Staff :
        \/ s \in SuperAdmin /\ ConfirmedFourEyes!ExecuteGuarded(i, s)
        \/ ConfirmedFourEyes!ExecutePlain(i, s)
        => ConfirmedFourEyes!Next
BY Zenon DEF ConfirmedFourEyes!Next

\* What ConfirmedFourEyes takes for the executed items, here by name.
Executed == [i \in Interest |-> IF status[i] = "confirmed" THEN decision[i] ELSE NoStaff]

\* Every step of the desk is one of FourEyes or none.
LEMMA FourEyesStep ==
    ASSUME IInv, IInv', [Next]_vars
    PROVE  [ConfirmedFourEyes!Next]_ConfirmedFourEyes!vars
<1>0. TypeOK
  BY DEF IInv
<1>1. ASSUME NEW r \in Request, StaffRequest(r)
      PROVE  [ConfirmedFourEyes!Next]_ConfirmedFourEyes!vars
  <2>1. CASE RecordFirstApproval(r)
    <3> DEFINE s == req[r].staff
               i == req[r].interest
    <3>1. /\ s \in SuperAdmin /\ i \in Guarded /\ i \in Interest
          /\ approval[i] = NoStaff
          /\ approval' = [approval EXCEPT ![i] = s]
          /\ UNCHANGED <<status, decision>>
      BY <2>1, <1>0, RequestTyped
      DEF RecordFirstApproval, InFlight, IInv, RequestsTrusted, RequestTrusted
    <3>2. ConfirmedFourEyes!Endorse(i, s)
      BY <3>1 DEF ConfirmedFourEyes!Endorse
    <3>. QED
      BY <3>1, <3>2 DEF ConfirmedFourEyes!Next
  <2>2. CASE ClaimInterest(r)
    <3> DEFINE f == req[r].first
    <3>0. PICK s \in Staff, i \in Interest : s = req[r].staff /\ i = req[r].interest
      BY <2>2, <1>0, RequestTyped DEF ClaimInterest, InFlight
    <3>1. /\ status[i] = "pending"
          /\ IF i \in Guarded
             THEN s \in SuperAdmin /\ f \in SuperAdmin /\ f # s /\ approval[i] = f
             ELSE f = NoStaff
          /\ status' = [status EXCEPT ![i] = "confirmed"]
          /\ decision' = [decision EXCEPT ![i] = [by |-> s, first |-> f]]
          /\ approval' = IF f = NoStaff THEN approval
                         ELSE [approval EXCEPT ![i] = NoStaff]
      BY <2>2, <3>0, <1>0, RequestTyped
      DEF ClaimInterest, InFlight, IInv, RequestsTrusted, RequestTrusted
    <3>2. /\ Executed[i] = NoStaff
          /\ Executed' = [Executed EXCEPT ![i] = [first |-> f, by |-> s]]
      BY <3>1, <1>0 DEF Executed, TypeOK
    <3>3. CASE i \in Guarded
      <4>1. NoStaff \notin SuperAdmin
        BY ConfirmAssumption DEF Staff
      <4>2. ConfirmedFourEyes!ExecuteGuarded(i, s)
        BY <3>1, <3>2, <3>3, <4>1 DEF ConfirmedFourEyes!ExecuteGuarded, Executed
      <4>. QED
        BY <3>1, <3>3, <4>2, ExecutionIsStep
    <3>4. CASE i \notin Guarded
      <4>1. ConfirmedFourEyes!ExecutePlain(i, s)
        BY <3>1, <3>2, <3>4 DEF ConfirmedFourEyes!ExecutePlain, Executed
      <4>. QED
        BY <4>1, ExecutionIsStep
    <3>. QED
      BY <3>3, <3>4
  <2>3. CASE DeclineInterest(r)
    <3> DEFINE i == req[r].interest
    <3>1. /\ i \in Interest
          /\ status[i] = "pending"
          /\ status' = [status EXCEPT ![i] = "declined"]
          /\ decision' = [decision EXCEPT ![i] = [by |-> req[r].staff, first |-> NoStaff]]
          /\ UNCHANGED approval
      BY <2>3, <1>0, RequestTyped DEF DeclineInterest, InFlight
    <3>2. Executed' = Executed
      BY <3>1, <1>0 DEF Executed, TypeOK
    <3>. QED
      BY <3>1, <3>2 DEF ConfirmedFourEyes!vars, Executed
  <2>4. ASSUME ~RecordFirstApproval(r), ~ClaimInterest(r), ~DeclineInterest(r)
        PROVE  UNCHANGED <<status, decision, approval>>
    BY <2>4, <1>1 DEF StaffRequest, LoadForConfirm, LoadForDecline, ContinueAsSecond,
       LockForClaim, RequestFails, deskVars
  <2>. QED
    BY <2>1, <2>2, <2>3, <2>4, FourEyesStutter
<1>2. ASSUME NEW i \in Interest, CreateInterest(i) \/ WithdrawInterest(i)
      PROVE  UNCHANGED ConfirmedFourEyes!vars
  <2>1. Executed' = Executed /\ UNCHANGED approval
    BY <1>2, <1>0 DEF CreateInterest, WithdrawInterest, Executed, TypeOK
  <2>. QED
    BY <2>1 DEF ConfirmedFourEyes!vars, Executed
<1>3. ASSUME NEW v \in Investor, InvestorChanges(v)
      PROVE  UNCHANGED <<status, decision, approval>>
  BY <1>3 DEF InvestorChanges, SetKycStatus, SubmitKycForReview, RecordScreening,
     AssignInvestor, deskVars
<1>4. ASSUME NEW a \in Asset, AssetChanges(a)
      PROVE  UNCHANGED <<status, decision, approval>>
  BY <1>4 DEF AssetChanges, SetAssetStatus, UpdateAssetCapacity, deskVars
<1>5. CASE UNCHANGED vars
  BY <1>5, FourEyesStutter DEF vars, deskVars
<1>. QED
  BY <1>1, <1>2, <1>3, <1>4, <1>5, FourEyesStutter DEF Next

\* confirmInterest implements the four-eyes control of FourEyes.
THEOREM ConfirmationsAreFourEyes == Spec => ImplementsFourEyes
<1>1. Init => ConfirmedFourEyes!Init
  BY DEF Init, ConfirmedFourEyes!Init
<1>2. IInv /\ IInv' /\ [Next]_vars => [ConfirmedFourEyes!Next]_ConfirmedFourEyes!vars
  BY FourEyesStep
<1>. QED
  BY InductiveInvariant, <1>1, <1>2, PTL DEF Spec, ImplementsFourEyes, ConfirmedFourEyes!Spec

=============================================================================
