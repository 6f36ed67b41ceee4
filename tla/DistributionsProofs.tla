-------------------------- MODULE DistributionsProofs --------------------------
(***************************************************************************)
(* For any staff, investors, postings and number of concurrent requests:   *)
(* the ledger keeps its types, says what was carried out, moves forward    *)
(* only, takes two super admins for what is material, and implements       *)
(* FourEyes.                                                               *)
(*                                                                         *)
(* MaterialTakesTwo is not inductive for the reason TwoSuperAdmins is not  *)
(* (InterestConfirmProofs): RequestsTrusted adds what the requests in      *)
(* flight remember.  Unlike there an approval may be on record for a       *)
(* posting that is done, so a remembered approval is only known to be      *)
(* current while its item is not done.                                     *)
(***************************************************************************)
EXTENDS Distributions, TLAPS

\* A request past its first transaction holds another super admin's logged
\* approval, current while the item is not done; a cancellation saw a row it
\* may cancel.
RequestTrusted(r) ==
    req[r] # Idle =>
        LET x == req[r].item
        IN  /\ x.action = "cancel" => req[r].seen \in Cancellable
            /\ req[r].op = "approve" =>
                 req[r].staff \in SuperAdmin /\ x \in Guarded
            /\ req[r].op = "commit" =>
                 IF x \in Guarded
                 THEN /\ req[r].staff \in SuperAdmin
                      /\ req[r].first \in SuperAdmin \ {req[r].staff}
                      /\ <<x, req[r].first>> \in approvalLog
                      /\ done[x] = NoStaff => approval[x] = req[r].first
                 ELSE req[r].first = NoStaff

RequestsTrusted == \A r \in Request : RequestTrusted(r)

\* Approvals are recorded for material items only, and are logged.
ApprovalsLogged ==
    \A x \in Item : approval[x] # NoStaff =>
        x \in Guarded /\ <<x, approval[x]>> \in approvalLog

IInv ==
    /\ TypeOK
    /\ RequestsTrusted
    /\ ApprovalsLogged
    /\ MaterialTakesTwo
    /\ LedgerMatchesDone

-----------------------------------------------------------------------------
\* A request in flight names staff and an item, and one about to commit its
\* first approver.
LEMMA RequestTyped ==
    ASSUME TypeOK, NEW r \in Request, req[r].op # "idle"
    PROVE  /\ req[r] # Idle
           /\ req[r].staff \in Staff
           /\ req[r].item \in Item
           /\ req[r].seen \in RowStatus \cup {"none"}
           /\ req[r].op \in {"approve", "commit"}
           /\ req[r].op = "approve" => req[r].staff \in SuperAdmin
           /\ req[r].op = "commit" => req[r].first \in SuperAdmin \cup {NoStaff}
<1>1. req[r] \in RequestState
  BY DEF TypeOK
<1>2. req[r] # Idle
  BY DEF Idle
<1>3. QED
  BY <1>1, <1>2 DEF RequestState, Staff

\* An item is its action and its posting.
LEMMA ItemParts ==
    ASSUME NEW x \in Item
    PROVE  /\ x.posting \in Posting
           /\ x = Recording(x.posting) \/ x = Cancelling(x.posting)
           /\ x.action = "record" => x = Recording(x.posting)
           /\ x.action = "cancel" => x = Cancelling(x.posting)
BY DEF Item, Recording, Cancelling

\* Recording and cancelling a posting are different items.
LEMMA ItemsDiffer ==
    ASSUME NEW p \in Posting
    PROVE  /\ Recording(p) \in Item /\ Cancelling(p) \in Item
           /\ Recording(p).posting = p /\ Cancelling(p).posting = p
           /\ Recording(p) # Cancelling(p)
BY DEF Item, Recording, Cancelling

\* Every variable keeps its type through every operation of the module.
LEMMA TypeStep ==
    ASSUME TypeOK, [Next]_vars
    PROVE  TypeOK'
<1> USE LedgerAssumption DEF TypeOK, RequestState, ledgerVars, InFlight, Finish
<1>1. ASSUME NEW r \in Request, StaffRequest(r)
      PROVE  TypeOK'
  <2>1. ASSUME NEW s \in Staff, NEW x \in Item, Load(r, s, x)
        PROVE  TypeOK'
    BY <2>1, ItemParts DEF Load, Staff
  <2>2. CASE RecordFirstApproval(r)
    BY <2>2, RequestTyped DEF RecordFirstApproval
  <2>3. CASE ContinueAsSecond(r)
    BY <2>3, RequestTyped DEF ContinueAsSecond
  <2>4. CASE PostDistribution(r)
    BY <2>4, RequestTyped, ItemParts DEF PostDistribution, CarryOut
  <2>5. CASE CancelDistribution(r)
    BY <2>5, RequestTyped, ItemParts DEF CancelDistribution, CarryOut, RowStatus
  <2>6. CASE AdoptExisting(r) \/ RequestFails(r)
    BY <2>6 DEF AdoptExisting, RequestFails
  <2>. QED
    BY <1>1, <2>1, <2>2, <2>3, <2>4, <2>5, <2>6 DEF StaffRequest
<1>2. ASSUME NEW v \in Investor, NEW D \in SUBSET Desk, AssignInvestor(v, D)
      PROVE  TypeOK'
  BY <1>2 DEF AssignInvestor
<1>3. CASE UNCHANGED vars
  BY <1>3 DEF vars
<1>. QED
  BY <1>1, <1>2, <1>3 DEF Next

\* A step that leaves the ledger and the approvals alone keeps the invariant
\* if the requests it touches stay trusted.
LEMMA LedgerUnchanged ==
    ASSUME IInv, TypeOK', UNCHANGED ledgerVars,
           \A r \in Request : req'[r] # req[r] => RequestTrusted(r)'
    PROVE  IInv'
<1>1. RequestsTrusted'
  BY DEF IInv, RequestsTrusted, RequestTrusted, ledgerVars
<1>. QED
  BY <1>1 DEF IInv, ApprovalsLogged, MaterialTakesTwo, LedgerMatchesDone, ledgerVars

\* What holds when an item is carried out, whichever it is.
LEMMA CarriedOut ==
    ASSUME IInv, TypeOK', NEW r \in Request, req[r].op = "commit", CarryOut(r),
           NEW x \in Item, x = req[r].item, done[x] = NoStaff
    PROVE  RequestsTrusted' /\ ApprovalsLogged' /\ MaterialTakesTwo'
<1> DEFINE s == req[r].staff
           f == req[r].first
<1>1. /\ s \in Staff /\ f \in SuperAdmin \cup {NoStaff}
      /\ IF x \in Guarded
         THEN /\ s \in SuperAdmin /\ f \in SuperAdmin /\ f # s
              /\ <<x, f>> \in approvalLog /\ approval[x] = f
         ELSE f = NoStaff
      /\ done' = [done EXCEPT ![x] = [by |-> s, first |-> f]]
      /\ approval' = IF f = NoStaff THEN approval ELSE [approval EXCEPT ![x] = NoStaff]
      /\ req' = [req EXCEPT ![r] = Idle]
      /\ UNCHANGED approvalLog
  BY RequestTyped DEF CarryOut, Finish, IInv, RequestsTrusted, RequestTrusted
<1>2. done'[x] # NoStaff
  BY <1>1, LedgerAssumption DEF IInv, TypeOK
<1>3. \A q \in Request : RequestTrusted(q)'
  BY <1>1, <1>2, RequestTyped
  DEF IInv, RequestsTrusted, RequestTrusted, TypeOK, Idle, RequestState
<1>4. ApprovalsLogged'
  BY <1>1 DEF IInv, ApprovalsLogged, TypeOK
<1>5. MaterialTakesTwo'
  BY <1>1 DEF IInv, MaterialTakesTwo, TypeOK, Guarded
<1>. QED
  BY <1>3, <1>4, <1>5 DEF RequestsTrusted, RequestTrusted

\* The invariant survives every step, one operation after the other.
LEMMA InvStep ==
    ASSUME IInv, [Next]_vars
    PROVE  IInv'
<1>0. TypeOK /\ TypeOK'
  BY TypeStep DEF IInv
<1>1. ASSUME NEW r \in Request, StaffRequest(r)
      PROVE  IInv'
  <2>1. ASSUME NEW s \in Staff, NEW x \in Item, Load(r, s, x)
        PROVE  IInv'
    <3>1. \A q \in Request : req'[q] # req[q] => RequestTrusted(q)'
      BY <2>1, <1>0 DEF Load, StillOpen, RequestTrusted, TypeOK, ledgerVars
    <3>. QED
      BY <3>1, <2>1, <1>0, LedgerUnchanged DEF Load
  <2>2. CASE RecordFirstApproval(r)
    <3> DEFINE s == req[r].staff
               x == req[r].item
    <3>1. /\ s \in SuperAdmin /\ x \in Guarded /\ x \in Item
          /\ approval[x] = NoStaff
          /\ approval' = [approval EXCEPT ![x] = s]
          /\ approvalLog' = approvalLog \cup {<<x, s>>}
          /\ req' = [req EXCEPT ![r] = Idle]
          /\ UNCHANGED <<ledger, done>>
      BY <2>2, <1>0, RequestTyped
      DEF RecordFirstApproval, Finish, IInv, RequestsTrusted, RequestTrusted
    <3>2. \A q \in Request : RequestTrusted(q)'
      BY <3>1, <1>0, RequestTyped, LedgerAssumption
      DEF IInv, RequestsTrusted, RequestTrusted, TypeOK, Staff, Idle, RequestState
    <3>3. ApprovalsLogged'
      BY <3>1, <1>0 DEF IInv, ApprovalsLogged, TypeOK
    <3>4. MaterialTakesTwo'
      BY <3>1, <1>0 DEF IInv, MaterialTakesTwo
    <3>5. LedgerMatchesDone'
      BY <3>1, <1>0 DEF IInv, LedgerMatchesDone
    <3>. QED
      BY <1>0, <3>2, <3>3, <3>4, <3>5 DEF IInv, RequestsTrusted, RequestTrusted
  <2>3. CASE ContinueAsSecond(r)
    <3>1. \A q \in Request : req'[q] # req[q] => RequestTrusted(q)'
      BY <2>3, <1>0, RequestTyped
      DEF ContinueAsSecond, RequestTrusted, TypeOK, ledgerVars, IInv, RequestsTrusted,
          ApprovalsLogged, Idle
    <3>. QED
      BY <3>1, <2>3, <1>0, LedgerUnchanged DEF ContinueAsSecond
  <2>4. CASE PostDistribution(r)
    <3>0. PICK x \in Item, p \in Posting :
            x = req[r].item /\ p = x.posting /\ x = Recording(p)
      BY <2>4, <1>0, RequestTyped, ItemParts DEF PostDistribution, InFlight
    <3>1. ledger[p] = "none" /\ ledger' = [ledger EXCEPT ![p] = StatusOf[p]]
      BY <2>4, <3>0 DEF PostDistribution
    <3>2. done[x] = NoStaff /\ done[Cancelling(p)] = NoStaff
      BY <3>0, <3>1, LedgerAssumption DEF IInv, LedgerMatchesDone, RowStatus
    <3>3. RequestsTrusted' /\ ApprovalsLogged' /\ MaterialTakesTwo'
      BY <3>0, <3>2, <2>4, <1>0, CarriedOut DEF PostDistribution, InFlight
    <3>4. done' = [done EXCEPT ![x] = [by |-> req[r].staff, first |-> req[r].first]]
      BY <2>4, <3>0 DEF PostDistribution, CarryOut
    <3>5. done'[x] # NoStaff
      <4>1. [by |-> req[r].staff, first |-> req[r].first] # NoStaff
        BY <2>4, <1>0, RequestTyped, LedgerAssumption DEF PostDistribution, InFlight
      <4>. QED
        BY <3>4, <4>1, <1>0 DEF TypeOK
    <3>6. LedgerMatchesDone'
      <4>1. \A q \in Posting : Recording(q) \in Item /\ Cancelling(q) \in Item
                             /\ Cancelling(q) # x /\ (q # p => Recording(q) # x)
        BY <3>0 DEF Recording, Cancelling, Item
      <4>. QED
        BY <3>0, <3>1, <3>2, <3>4, <3>5, <4>1, <1>0 DEF IInv, LedgerMatchesDone, TypeOK
    <3>. QED
      BY <1>0, <3>3, <3>6 DEF IInv
  <2>5. CASE CancelDistribution(r)
    <3>0. PICK x \in Item, p \in Posting :
            x = req[r].item /\ p = x.posting /\ x = Cancelling(p)
      BY <2>5, <1>0, RequestTyped, ItemParts DEF CancelDistribution, InFlight
    <3>1. /\ ledger[p] \in Cancellable
          /\ ledger' = [ledger EXCEPT ![p] = "cancelled"]
      BY <2>5, <3>0, <1>0, RequestTyped
      DEF CancelDistribution, InFlight, IInv, RequestsTrusted, RequestTrusted
    <3>2. /\ done[x] = NoStaff /\ done[Recording(p)] # NoStaff
          /\ StatusOf[p] \in Cancellable
      BY <3>0, <3>1 DEF IInv, LedgerMatchesDone, Cancellable
    <3>3. RequestsTrusted' /\ ApprovalsLogged' /\ MaterialTakesTwo'
      BY <3>0, <3>2, <2>5, <1>0, CarriedOut DEF CancelDistribution, InFlight
    <3>4. done' = [done EXCEPT ![x] = [by |-> req[r].staff, first |-> req[r].first]]
      BY <2>5, <3>0 DEF CancelDistribution, CarryOut
    <3>5. done'[x] # NoStaff
      <4>1. [by |-> req[r].staff, first |-> req[r].first] # NoStaff
        BY <2>5, <1>0, RequestTyped, LedgerAssumption DEF CancelDistribution, InFlight
      <4>. QED
        BY <3>4, <4>1, <1>0 DEF TypeOK
    <3>6. LedgerMatchesDone'
      <4>1. \A q \in Posting : Recording(q) \in Item /\ Cancelling(q) \in Item
                             /\ Recording(q) # x /\ (q # p => Cancelling(q) # x)
        BY <3>0 DEF Recording, Cancelling, Item
      <4>. QED
        BY <3>0, <3>1, <3>2, <3>4, <3>5, <4>1, <1>0 DEF IInv, LedgerMatchesDone, TypeOK
    <3>. QED
      BY <1>0, <3>3, <3>6 DEF IInv
  <2>6. CASE AdoptExisting(r) \/ RequestFails(r)
    <3>1. \A q \in Request : req'[q] # req[q] => RequestTrusted(q)'
      BY <2>6, <1>0 DEF AdoptExisting, RequestFails, RequestTrusted, Finish, TypeOK
    <3>. QED
      BY <3>1, <2>6, <1>0, LedgerUnchanged DEF AdoptExisting, RequestFails
  <2>. QED
    BY <1>1, <2>1, <2>2, <2>3, <2>4, <2>5, <2>6 DEF StaffRequest
<1>2. ASSUME NEW v \in Investor, NEW D \in SUBSET Desk, AssignInvestor(v, D)
      PROVE  IInv'
  BY <1>2, <1>0, LedgerUnchanged DEF AssignInvestor
<1>3. CASE UNCHANGED vars
  BY <1>3, <1>0, LedgerUnchanged DEF vars
<1>. QED
  BY <1>1, <1>2, <1>3 DEF Next

\* The invariant holds of the empty ledger.
LEMMA InitInv == Init => IInv
BY LedgerAssumption, ItemsDiffer
DEF Init, IInv, TypeOK, RequestsTrusted, RequestTrusted, ApprovalsLogged, MaterialTakesTwo,
    LedgerMatchesDone, RequestState, Guarded, Item

\* The inductive invariant: what requests in flight remember of an item is
\* right for as long as the item is not carried out.
THEOREM InductiveInvariant == Spec => []IInv
<1>1. IInv /\ [Next]_vars => IInv'
  BY InvStep
<1>. QED
  BY InitInv, <1>1, PTL DEF Spec

-----------------------------------------------------------------------------
\* Type correctness of the ledger: every row, approval and request in flight
\* stays within its type, for any constants that meet the assumptions.
THEOREM TypeCorrect == Spec => []TypeOK
<1>1. IInv => TypeOK
  BY DEF IInv
<1>. QED
  BY InductiveInvariant, <1>1, PTL

\* recordDistribution and cancelDistribution never post or cancel a material
\* amount on the word of one person, however many requests race.
THEOREM MaterialPaymentsTakeTwo == Spec => []MaterialTakesTwo
<1>1. IInv => MaterialTakesTwo
  BY DEF IInv
<1>. QED
  BY InductiveInvariant, <1>1, PTL

\* The status column always tells what was carried out.
THEOREM LedgerFollowsDone == Spec => []LedgerMatchesDone
<1>1. IInv => LedgerMatchesDone
  BY DEF IInv
<1>. QED
  BY InductiveInvariant, <1>1, PTL

\* No retry of a recording, however late, revives a cancelled payment, and no
\* cancellation touches a failed one.
THEOREM LedgerForward == Spec => LedgerOnlyForward
<1> DEFINE Forward == \A p \in Posting :
              ledger[p] # "none" /\ ledger'[p] # ledger[p] =>
                  ledger[p] \in Cancellable /\ ledger'[p] = "cancelled"
<1>1. ASSUME IInv, [Next]_vars
      PROVE  Forward
  <2>0. TypeOK
    BY <1>1 DEF IInv
  <2>1. ASSUME NEW r \in Request, PostDistribution(r)
        PROVE  Forward
    BY <2>0, <2>1 DEF PostDistribution, TypeOK
  <2>2. ASSUME NEW r \in Request, CancelDistribution(r)
        PROVE  Forward
    <3>1. req[r].seen \in Cancellable
      BY <1>1, <2>0, <2>2, RequestTyped
      DEF CancelDistribution, InFlight, IInv, RequestsTrusted, RequestTrusted
    <3>. QED
      BY <2>0, <2>2, <3>1 DEF CancelDistribution, TypeOK
  <2>3. ASSUME NEW r \in Request, StaffRequest(r),
               ~PostDistribution(r), ~CancelDistribution(r)
        PROVE  UNCHANGED ledger
    BY <2>3 DEF StaffRequest, Load, RecordFirstApproval, ContinueAsSecond, AdoptExisting,
       RequestFails, ledgerVars
  <2>4. CASE UNCHANGED ledger
    BY <2>4
  <2>. QED
    BY <1>1, <2>1, <2>2, <2>3, <2>4 DEF Next, AssignInvestor, vars, ledgerVars
<1>2. IInv /\ [Next]_vars => [Forward]_vars
  BY <1>1
<1>. QED
  BY InductiveInvariant, <1>2, PTL DEF Spec, LedgerOnlyForward

\* recordDistribution and cancelDistribution reread who owns the investor under
\* its lock, so nobody posts for an investor moved to somebody else's book.
THEOREM CarriedOutInBook == Spec => CarriedOutInScope
<1> DEFINE InBook == \A x \in Item :
              done'[x] # done[x] => Visible(done'[x].by, x.posting)
<1>1. ASSUME TypeOK, [Next]_vars
      PROVE  InBook
  <2>1. ASSUME NEW r \in Request, PostDistribution(r) \/ CancelDistribution(r)
        PROVE  InBook
    <3>1. /\ Visible(req[r].staff, req[r].item.posting)
          /\ done' = [done EXCEPT ![req[r].item] =
                        [by |-> req[r].staff, first |-> req[r].first]]
      BY <2>1 DEF PostDistribution, CancelDistribution, CarryOut
    <3>. QED
      BY <3>1, <1>1 DEF TypeOK
  <2>2. ASSUME NEW r \in Request, StaffRequest(r),
               ~PostDistribution(r), ~CancelDistribution(r)
        PROVE  UNCHANGED done
    BY <2>2 DEF StaffRequest, Load, RecordFirstApproval, ContinueAsSecond, AdoptExisting,
       RequestFails, ledgerVars
  <2>3. CASE UNCHANGED done
    BY <2>3
  <2>. QED
    BY <1>1, <2>1, <2>2, <2>3 DEF Next, AssignInvestor, vars, ledgerVars
<1>2. TypeOK /\ [Next]_vars => [InBook]_vars
  BY <1>1
<1>. QED
  BY TypeCorrect, <1>2, PTL DEF Spec, CarriedOutInScope

-----------------------------------------------------------------------------
\* The two ways an item of the four-eyes specification is carried out.
LEMMA ExecutionIsStep ==
    \A x \in Item, s \in Staff :
        \/ s \in SuperAdmin /\ LedgerFourEyes!ExecuteGuarded(x, s)
        \/ LedgerFourEyes!ExecutePlain(x, s)
        => LedgerFourEyes!Next
BY Zenon DEF LedgerFourEyes!Next

\* Carrying out an item that is not done yet is a step of FourEyes.
LEMMA CarryOutIsExecution ==
    ASSUME IInv, NEW r \in Request, req[r].op = "commit", CarryOut(r),
           done[req[r].item] = NoStaff
    PROVE  LedgerFourEyes!Next
<1>0. TypeOK
  BY DEF IInv
<1> DEFINE f == req[r].first
<1>1. PICK x \in Item, s \in Staff : x = req[r].item /\ s = req[r].staff
  BY <1>0, RequestTyped
<1>2. /\ IF x \in Guarded
         THEN s \in SuperAdmin /\ f \in SuperAdmin /\ f # s /\ approval[x] = f
         ELSE f = NoStaff
      /\ done' = [done EXCEPT ![x] = [first |-> f, by |-> s]]
      /\ approval' = IF f = NoStaff THEN approval ELSE [approval EXCEPT ![x] = NoStaff]
  BY <1>0, <1>1, RequestTyped DEF CarryOut, IInv, RequestsTrusted, RequestTrusted
<1>3. CASE x \in Guarded
  <2>1. NoStaff \notin SuperAdmin
    BY LedgerAssumption DEF Staff
  <2>2. LedgerFourEyes!ExecuteGuarded(x, s)
    BY <1>1, <1>2, <1>3, <2>1 DEF LedgerFourEyes!ExecuteGuarded
  <2>. QED
    BY <1>2, <1>3, <2>2, ExecutionIsStep
<1>4. CASE x \notin Guarded
  <2>1. LedgerFourEyes!ExecutePlain(x, s)
    BY <1>1, <1>2, <1>4 DEF LedgerFourEyes!ExecutePlain
  <2>. QED
    BY <2>1, ExecutionIsStep
<1>. QED
  BY <1>3, <1>4

\* Every step of the ledger is one of FourEyes or none.
LEMMA FourEyesStep ==
    ASSUME IInv, [Next]_vars
    PROVE  [LedgerFourEyes!Next]_LedgerFourEyes!vars
<1>0. TypeOK
  BY DEF IInv
<1>1. ASSUME NEW r \in Request, RecordFirstApproval(r)
      PROVE  LedgerFourEyes!Next
  <2>1. PICK x \in Item, s \in SuperAdmin : x = req[r].item /\ s = req[r].staff
    BY <1>0, <1>1, RequestTyped DEF RecordFirstApproval
  <2>2. LedgerFourEyes!Endorse(x, s)
    BY <1>0, <1>1, <2>1, RequestTyped
    DEF RecordFirstApproval, IInv, RequestsTrusted, RequestTrusted, LedgerFourEyes!Endorse
  <2>. QED
    BY <2>2 DEF LedgerFourEyes!Next
<1>2. ASSUME NEW r \in Request, PostDistribution(r)
      PROVE  LedgerFourEyes!Next
  <2>1. req[r].item = Recording(req[r].item.posting) /\ req[r].item.posting \in Posting
    BY <1>0, <1>2, RequestTyped, ItemParts DEF PostDistribution, InFlight
  <2>2. done[req[r].item] = NoStaff
    BY <1>2, <2>1, LedgerAssumption DEF PostDistribution, IInv, LedgerMatchesDone, RowStatus
  <2>. QED
    BY <1>2, <2>2, CarryOutIsExecution DEF PostDistribution, InFlight
<1>3. ASSUME NEW r \in Request, CancelDistribution(r)
      PROVE  LedgerFourEyes!Next
  <2>1. /\ req[r].item = Cancelling(req[r].item.posting)
        /\ req[r].item.posting \in Posting
        /\ ledger[req[r].item.posting] \in Cancellable
    BY <1>0, <1>3, RequestTyped, ItemParts
    DEF CancelDistribution, InFlight, IInv, RequestsTrusted, RequestTrusted
  <2>2. done[req[r].item] = NoStaff
    BY <2>1 DEF IInv, LedgerMatchesDone, Cancellable
  <2>. QED
    BY <1>3, <2>2, CarryOutIsExecution DEF CancelDistribution, InFlight
<1>4. ASSUME NEW r \in Request, StaffRequest(r), ~RecordFirstApproval(r),
             ~PostDistribution(r), ~CancelDistribution(r)
      PROVE  UNCHANGED LedgerFourEyes!vars
  BY <1>4 DEF StaffRequest, Load, ContinueAsSecond, AdoptExisting, RequestFails, ledgerVars,
     LedgerFourEyes!vars
<1>5. ASSUME NEW v \in Investor, NEW D \in SUBSET Desk, AssignInvestor(v, D)
      PROVE  UNCHANGED LedgerFourEyes!vars
  BY <1>5 DEF AssignInvestor, ledgerVars, LedgerFourEyes!vars
<1>6. CASE UNCHANGED vars
  BY <1>6 DEF vars, ledgerVars, LedgerFourEyes!vars
<1>. QED
  BY <1>1, <1>2, <1>3, <1>4, <1>5, <1>6 DEF Next

\* The payment ledger implements the four-eyes control of FourEyes, for
\* postings and for cancellations.
THEOREM PaymentsAreFourEyes == Spec => ImplementsFourEyes
<1>1. Init => LedgerFourEyes!Init
  BY DEF Init, LedgerFourEyes!Init
<1>2. IInv /\ [Next]_vars => [LedgerFourEyes!Next]_LedgerFourEyes!vars
  BY FourEyesStep
<1>. QED
  BY InductiveInvariant, <1>1, <1>2, PTL DEF Spec, ImplementsFourEyes, LedgerFourEyes!Spec

=============================================================================
