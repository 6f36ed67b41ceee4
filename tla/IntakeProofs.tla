------------------------------ MODULE IntakeProofs ------------------------------
(***************************************************************************)
(* InterestIntake and PublicForms: what comes in from outside, and the     *)
(* limits on it.                                                           *)
(*                                                                         *)
(* For any interests, assets, limits and number of concurrent requests:    *)
(* intake keeps its types, an investor has at most one pending interest in *)
(* an asset and no more interests of a day than the limit and midnight     *)
(* allow, and a closed asset stays closed.                                 *)
(*                                                                         *)
(* ClosedIsTerminal rests on what setAssetStatus remembers: a request that *)
(* read a closed asset only ever asks for closed.                          *)
(*                                                                         *)
(* For any tabs, addresses, allowance, window and caps: the public forms   *)
(* keep their types, the throttle bounds every hour and its own memory, a  *)
(* row is confirmed once, and "received" is true.                          *)
(***************************************************************************)
EXTENDS InterestIntake, PublicForms, FiniteSetTheorems, SequenceTheorems, TLAPS

\* A status change that read a closed asset leaves it closed.
ClosedAsked ==
    \A r \in Request :
        req[r].op = "status" /\ req[r].from = "closed" => req[r].to = "closed"

\* OnePendingPerAsset without counting.
PendingIsUnique ==
    \A i, j \in Interest :
        /\ status[i] = "pending" /\ status[j] = "pending"
        /\ InvestorOf[i] = InvestorOf[j] /\ AssetOf[i] = AssetOf[j]
        => i = j

\* Nothing has a date after today.
NothingAfterToday ==
    /\ \A i \in Interest : createdOn[i] <= day
    /\ \A r \in Request : req[r].op = "insert" => req[r].began <= day

\* The transactions that began on day d to insert an interest of v.
Late(v, d) ==
    {r \in Request : /\ req[r].op = "insert" /\ req[r].began = d
                     /\ InvestorOf[req[r].interest] = v}

\* While day d lasts the limit holds exactly; afterwards only transactions
\* that began on it can add to it.
DayCount(v, d) ==
    /\ IsFiniteSet(CreatedOn(v, d))
    /\ IF d = day
       THEN Cardinality(CreatedOn(v, d)) <= MaxPerDay
       ELSE Cardinality(CreatedOn(v, d)) + Cardinality(Late(v, d))
              <= MaxPerDay + Cardinality(Request)

DailyCount == \A v \in Investor, d \in 1..LastDay : DayCount(v, d)

IInv ==
    /\ TypeOK
    /\ ClosedAsked
    /\ PendingIsUnique
    /\ NothingAfterToday
    /\ DailyCount

-----------------------------------------------------------------------------
\* A request in flight names the row it is about.
LEMMA RequestTyped ==
    ASSUME TypeOK, NEW r \in Request, req[r].op # "idle"
    PROVE  /\ req[r].op \in {"express", "insert", "status"}
           /\ req[r].op \in {"express", "insert"} => req[r].interest \in Interest
           /\ req[r].op = "insert" => req[r].began \in 1..LastDay
           /\ req[r].op = "status" => /\ req[r].asset \in Asset
                                      /\ req[r].from \in AssetStatus
                                      /\ req[r].to \in AssetStatus
<1>1. req[r] \in RequestState
  BY DEF TypeOK
<1>2. req[r] # Idle
  BY DEF Idle
<1>. QED
  BY <1>1, <1>2 DEF RequestState

\* Every variable keeps its type through every operation of the module.
LEMMA TypeStep ==
    ASSUME TypeOK, [Next]_vars
    PROVE  TypeOK'
<1> USE IntakeAssumption DEF TypeOK, RequestState, Finish
<1>1. ASSUME NEW r \in Request, RequestStep(r)
      PROVE  TypeOK'
  <2>1. ASSUME NEW i \in Interest, ExpressInterest(r, i)
        PROVE  TypeOK'
    BY <2>1 DEF ExpressInterest
  <2>2. CASE BeginInsert(r)
    BY <2>2, RequestTyped DEF BeginInsert
  <2>3. CASE InsertInterest(r)
    <3>1. req[r].interest \in Interest /\ req[r].began \in 0..LastDay
      BY <2>3, RequestTyped DEF InsertInterest
    <3>. QED
      BY <2>3, <3>1 DEF InsertInterest, Status
  <2>4. ASSUME NEW a \in Asset, NEW to \in AssetStatus, ReadAsset(r, a, to)
        PROVE  TypeOK'
    BY <2>4 DEF ReadAsset
  <2>5. CASE SetAssetStatus(r)
    BY <2>5, RequestTyped DEF SetAssetStatus
  <2>6. CASE RequestFails(r)
    BY <2>6 DEF RequestFails
  <2>. QED
    BY <1>1, <2>1, <2>2, <2>3, <2>4, <2>5, <2>6 DEF RequestStep
<1>2. ASSUME NEW i \in Interest, NEW d \in {"confirmed", "declined", "withdrawn"},
             DecideInterest(i, d)
      PROVE  TypeOK'
  BY <1>2 DEF DecideInterest, Status
<1>3. ASSUME NEW a \in Asset, UpdateDraftAsset(a)
      PROVE  TypeOK'
  BY <1>3 DEF UpdateDraftAsset
<1>4. ASSUME NEW v \in Investor, NEW b \in BOOLEAN, SetInvestorPoolAccess(v, b)
      PROVE  TypeOK'
  BY <1>4 DEF SetInvestorPoolAccess
<1>5. ASSUME NEW b \in BOOLEAN, SetPoolInvestmentsEnabled(b)
      PROVE  TypeOK'
  BY <1>5 DEF SetPoolInvestmentsEnabled
<1>6. CASE NextDay
  BY <1>6 DEF NextDay
<1>7. CASE UNCHANGED vars
  BY <1>7 DEF vars
<1>. QED
  BY <1>1, <1>2, <1>3, <1>4, <1>5, <1>6, <1>7 DEF Next

\* Only the insert makes an interest pending, and it finds none of the
\* investor on the asset.
LEMMA UniqueStep ==
    ASSUME TypeOK, PendingIsUnique, [Next]_vars
    PROVE  PendingIsUnique'
<1>1. ASSUME NEW r \in Request, InsertInterest(r)
      PROVE  PendingIsUnique'
  <2>1. req[r].interest \in Interest
    BY <1>1, RequestTyped DEF InsertInterest
  <2>2. \A j \in Interest :
          /\ status[j] = "pending"
          /\ InvestorOf[j] = InvestorOf[req[r].interest]
          => AssetOf[j] # AssetOf[req[r].interest]
    BY <1>1 DEF InsertInterest, PendingOf, Pending
  <2>3. status' = [status EXCEPT ![req[r].interest] = "pending"]
    BY <1>1 DEF InsertInterest
  <2>. QED
    BY <2>1, <2>2, <2>3 DEF PendingIsUnique, TypeOK
<1>2. ASSUME NEW i \in Interest, NEW d \in {"confirmed", "declined", "withdrawn"},
             DecideInterest(i, d)
      PROVE  PendingIsUnique'
  BY <1>2 DEF DecideInterest, PendingIsUnique, TypeOK
<1>3. ASSUME NEW r \in Request, RequestStep(r), ~InsertInterest(r)
      PROVE  UNCHANGED status
  BY <1>3 DEF RequestStep, ExpressInterest, BeginInsert, ReadAsset, SetAssetStatus, RequestFails
<1>4. CASE UNCHANGED status
  BY <1>4 DEF PendingIsUnique
<1>. QED
  BY <1>1, <1>2, <1>3, <1>4
  DEF Next, UpdateDraftAsset, SetInvestorPoolAccess, SetPoolInvestmentsEnabled, NextDay, vars

\* Only ReadAsset makes a status request, and it asks for closed if the asset
\* is closed.
LEMMA ClosedAskedStep ==
    ASSUME TypeOK, ClosedAsked, [Next]_vars
    PROVE  ClosedAsked'
<1>1. ASSUME NEW r \in Request, RequestStep(r)
      PROVE  ClosedAsked'
  <2>1. ASSUME NEW i \in Interest, ExpressInterest(r, i)
        PROVE  ClosedAsked'
    BY <2>1 DEF ExpressInterest, ClosedAsked, TypeOK
  <2>2. CASE BeginInsert(r)
    BY <2>2 DEF BeginInsert, ClosedAsked, TypeOK
  <2>3. CASE InsertInterest(r) \/ SetAssetStatus(r) \/ RequestFails(r)
    BY <2>3 DEF InsertInterest, SetAssetStatus, RequestFails, Finish, Idle, ClosedAsked, TypeOK
  <2>4. ASSUME NEW a \in Asset, NEW to \in AssetStatus, ReadAsset(r, a, to)
        PROVE  ClosedAsked'
    BY <2>4 DEF ReadAsset, ClosedAsked, TypeOK
  <2>. QED
    BY <1>1, <2>1, <2>2, <2>3, <2>4 DEF RequestStep
<1>2. CASE UNCHANGED req
  BY <1>2 DEF ClosedAsked
<1>. QED
  BY <1>1, <1>2 DEF Next, DecideInterest, UpdateDraftAsset, SetInvestorPoolAccess,
     SetPoolInvestmentsEnabled, NextDay, vars

-----------------------------------------------------------------------------
(* The daily limit                                                          *)

\* Nothing was created, and no transaction began, after today.
LEMMA ClockStep ==
    ASSUME TypeOK, NothingAfterToday, [Next]_vars
    PROVE  NothingAfterToday'
<1>1. ASSUME NEW r \in Request, BeginInsert(r)
      PROVE  NothingAfterToday'
  BY <1>1 DEF BeginInsert, NothingAfterToday, TypeOK
<1>2. ASSUME NEW r \in Request, InsertInterest(r)
      PROVE  NothingAfterToday'
  BY <1>2, RequestTyped DEF InsertInterest, Finish, Idle, NothingAfterToday, TypeOK
<1>3. ASSUME NEW r \in Request, RequestStep(r), ~BeginInsert(r), ~InsertInterest(r)
      PROVE  NothingAfterToday'
  BY <1>3 DEF RequestStep, ExpressInterest, ReadAsset, SetAssetStatus, RequestFails,
     Finish, Idle, NothingAfterToday, TypeOK
<1>4. CASE NextDay
  <2>1. createdOn' = createdOn /\ req' = req /\ day' = day + 1 /\ day \in Nat
    BY <1>4 DEF NextDay, TypeOK
  <2>2. \A i \in Interest : createdOn[i] \in Nat
    BY DEF TypeOK
  <2>3. \A r \in Request : req[r].op = "insert" => req[r].began \in Nat
    BY RequestTyped
  <2>. QED
    BY <2>1, <2>2, <2>3 DEF NothingAfterToday
<1>5. CASE UNCHANGED <<createdOn, day, req>>
  BY <1>5 DEF NothingAfterToday
<1>. QED
  BY <1>1, <1>2, <1>3, <1>4, <1>5 DEF Next, DecideInterest, UpdateDraftAsset,
     SetInvestorPoolAccess, SetPoolInvestmentsEnabled, vars

\* The requests that began on one day are finitely many.
LEMMA LateFinite ==
    ASSUME NEW v, NEW d
    PROVE  /\ IsFiniteSet(Late(v, d)) /\ Cardinality(Late(v, d)) \in Nat
           /\ Cardinality(Late(v, d)) <= Cardinality(Request)
           /\ Cardinality(Request) \in Nat
BY IntakeAssumption, FS_Subset, FS_CardinalityType DEF Late

\* Where no row appears and no transaction begins, the count stays below its
\* bound.
LEMMA CountKept ==
    ASSUME NEW v, NEW d, DayCount(v, d),
           CreatedOn(v, d)' \subseteq CreatedOn(v, d), day' = day,
           d = day \/ Late(v, d)' \subseteq Late(v, d)
    PROVE  DayCount(v, d)'
<1>1. /\ IsFiniteSet(CreatedOn(v, d)') /\ Cardinality(CreatedOn(v, d)') \in Nat
      /\ Cardinality(CreatedOn(v, d)) \in Nat
      /\ Cardinality(CreatedOn(v, d)') <= Cardinality(CreatedOn(v, d))
  BY FS_Subset, FS_CardinalityType DEF DayCount
<1>2. CASE d = day
  BY <1>1, <1>2, IntakeAssumption DEF DayCount
<1>3. CASE d # day
  <2>1. Cardinality(Late(v, d)') <= Cardinality(Late(v, d)) /\ Cardinality(Late(v, d)') \in Nat
    BY <1>3, LateFinite, FS_Subset, FS_CardinalityType
  <2>. QED
    BY <1>1, <1>3, <2>1, LateFinite, IntakeAssumption DEF DayCount
<1>. QED
  BY <1>2, <1>3

\* An insert adds one row to the day its transaction began.  On that day the
\* limit was counted just before; on a later day the transaction was one of
\* those that were open at midnight.
LEMMA CountInsert ==
    ASSUME TypeOK, NothingAfterToday, NEW r \in Request, InsertInterest(r),
           NEW v \in Investor, NEW d \in 1..LastDay, DayCount(v, d)
    PROVE  DayCount(v, d)'
<1> DEFINE i == req[r].interest
           b == req[r].began
<1>1. i \in Interest /\ b \in 1..LastDay /\ req[r].op = "insert"
  BY RequestTyped DEF InsertInterest
<1>2. createdOn' = [createdOn EXCEPT ![i] = b] /\ day' = day /\ req' = [req EXCEPT ![r] = Idle]
  BY DEF InsertInterest, Finish
<1>3. Late(v, d)' \subseteq Late(v, d) \ {r}
  BY <1>2 DEF Late, Idle, TypeOK
<1>4. CASE InvestorOf[i] # v \/ b # d
  <2>1. CreatedOn(v, d)' \subseteq CreatedOn(v, d)
    BY <1>1, <1>2, <1>4 DEF CreatedOn, TypeOK
  <2>. QED
    BY <2>1, <1>2, <1>3, CountKept
<1>5. CASE InvestorOf[i] = v /\ b = d
  <2>1. CreatedOn(v, d)' = CreatedOn(v, d) \cup {i}
    BY <1>1, <1>2, <1>5 DEF CreatedOn, TypeOK
  <2>2. /\ IsFiniteSet(CreatedOn(v, d)') /\ Cardinality(CreatedOn(v, d)') \in Nat
        /\ Cardinality(CreatedOn(v, d)) \in Nat
        /\ Cardinality(CreatedOn(v, d)') <= Cardinality(CreatedOn(v, d)) + 1
    <3>1. IsFiniteSet(CreatedOn(v, d))
      BY DEF DayCount
    <3>2. Cardinality(CreatedOn(v, d)) \in Nat
      BY <3>1, FS_CardinalityType
    <3>. HIDE DEF i
    <3>3. /\ IsFiniteSet(CreatedOn(v, d) \cup {i})
          /\ Cardinality(CreatedOn(v, d) \cup {i}) =
               IF i \in CreatedOn(v, d) THEN Cardinality(CreatedOn(v, d))
                                        ELSE Cardinality(CreatedOn(v, d)) + 1
      BY <3>1, FS_AddElement
    <3>. QED
      BY <2>1, <3>1, <3>2, <3>3
  <2>3. CASE d = day
    <3>1. CreatedSince(v, day) = CreatedOn(v, d)
      BY <2>3 DEF CreatedSince, CreatedOn, NothingAfterToday, TypeOK
    <3>2. Cardinality(CreatedOn(v, d)) < MaxPerDay
      BY <1>5, <3>1 DEF InsertInterest
    <3>. QED
      BY <1>2, <2>2, <2>3, <3>2, IntakeAssumption DEF DayCount
  <2>4. CASE d # day
    <3>1. r \in Late(v, d)
      BY <1>1, <1>5 DEF Late
    <3>2. /\ Cardinality(Late(v, d) \ {r}) = Cardinality(Late(v, d)) - 1
          /\ Cardinality(Late(v, d)') <= Cardinality(Late(v, d) \ {r})
          /\ Cardinality(Late(v, d)') \in Nat
      BY <1>3, <3>1, LateFinite, FS_RemoveElement, FS_Subset, FS_CardinalityType
    <3>. QED
      BY <1>2, <2>2, <2>4, <3>2, LateFinite, IntakeAssumption DEF DayCount
  <2>. QED
    BY <2>3, <2>4
<1>. QED
  BY <1>4, <1>5

\* The bound of every day is kept.  At midnight the transactions that are
\* still open join the rows of the day that ends.
LEMMA CountStep ==
    ASSUME TypeOK, NothingAfterToday, [Next]_vars,
           NEW v \in Investor, NEW d \in 1..LastDay, DayCount(v, d)
    PROVE  DayCount(v, d)'
<1>1. ASSUME NEW r \in Request, BeginInsert(r)
      PROVE  DayCount(v, d)'
  <2>1. CreatedOn(v, d)' = CreatedOn(v, d) /\ day' = day
    BY <1>1 DEF BeginInsert, CreatedOn
  <2>2. d # day => Late(v, d)' \subseteq Late(v, d)
    BY <1>1 DEF BeginInsert, Late, TypeOK
  <2>. QED
    BY <2>1, <2>2, CountKept
<1>2. ASSUME NEW r \in Request, InsertInterest(r)
      PROVE  DayCount(v, d)'
  BY <1>2, CountInsert
<1>3. ASSUME NEW r \in Request, RequestStep(r), ~BeginInsert(r), ~InsertInterest(r)
      PROVE  DayCount(v, d)'
  <2>1. CreatedOn(v, d)' = CreatedOn(v, d) /\ day' = day
    BY <1>3 DEF RequestStep, ExpressInterest, ReadAsset, SetAssetStatus, RequestFails, CreatedOn
  <2>2. Late(v, d)' \subseteq Late(v, d)
    BY <1>3 DEF RequestStep, ExpressInterest, ReadAsset, SetAssetStatus, RequestFails,
       Finish, Idle, Late, TypeOK
  <2>. QED
    BY <2>1, <2>2, CountKept
<1>4. CASE NextDay
  <2>1. /\ CreatedOn(v, d)' = CreatedOn(v, d) /\ Late(v, d)' = Late(v, d)
        /\ day' = day + 1 /\ day \in 1..LastDay
    BY <1>4 DEF NextDay, CreatedOn, Late, TypeOK
  <2>2. CASE d = day + 1
    <3>1. CreatedOn(v, d) = {}
      BY <2>1, <2>2 DEF CreatedOn, NothingAfterToday, TypeOK
    <3>. QED
      BY <2>1, <2>2, <3>1, FS_EmptySet, IntakeAssumption DEF DayCount
  <2>3. CASE d # day + 1
    <3>1. Cardinality(CreatedOn(v, d)) \in Nat
      BY FS_CardinalityType DEF DayCount
    <3>. QED
      BY <2>1, <2>3, <3>1, LateFinite, IntakeAssumption DEF DayCount
  <2>. QED
    BY <2>2, <2>3
<1>5. CASE UNCHANGED <<createdOn, day, req>>
  BY <1>5, CountKept DEF CreatedOn, Late
<1>. QED
  BY <1>1, <1>2, <1>3, <1>4, <1>5 DEF Next, DecideInterest, UpdateDraftAsset,
     SetInvestorPoolAccess, SetPoolInvestmentsEnabled, vars

-----------------------------------------------------------------------------
\* The invariant holds before the first request.
LEMMA InitInv == Init => IInv
<1> SUFFICES ASSUME Init
             PROVE  IInv
  OBVIOUS
<1>1. TypeOK /\ ClosedAsked /\ PendingIsUnique /\ NothingAfterToday
  BY IntakeAssumption
  DEF Init, TypeOK, ClosedAsked, PendingIsUnique, NothingAfterToday, RequestState, Status,
      AssetStatus, Idle
<1>2. ASSUME NEW v \in Investor, NEW d \in 1..LastDay
      PROVE  DayCount(v, d)
  <2>1. CreatedOn(v, d) = {} /\ Late(v, d) = {}
    BY DEF Init, CreatedOn, Late, Idle
  <2>. QED
    BY <2>1, FS_EmptySet, LateFinite, IntakeAssumption DEF DayCount
<1>. QED
  BY <1>1, <1>2 DEF IInv, DailyCount

\* The inductive invariant of intake: types, unique pending interests, and
\* what requests in flight remember of a closed asset.
THEOREM InductiveInvariant == Spec => []IInv
<1>1. IInv /\ [Next]_vars => IInv'
  BY TypeStep, UniqueStep, ClosedAskedStep, ClockStep, CountStep DEF IInv, DailyCount
<1>. QED
  BY InitInv, <1>1, PTL DEF Spec

-----------------------------------------------------------------------------
\* Type correctness of intake, created_at of every row included.
THEOREM TypeCorrect == Spec => []TypeOK
<1>1. IInv => TypeOK
  BY DEF IInv
<1>. QED
  BY InductiveInvariant, <1>1, PTL

\* createInterest leaves an investor at most one pending interest in an asset,
\* however many of its requests passed the unlocked gates together.
THEOREM OnePending == Spec => []OnePendingPerAsset
<1>1. IInv => OnePendingPerAsset
  <2> SUFFICES ASSUME IInv, NEW v \in Investor, NEW a \in Asset
               PROVE  Cardinality(PendingOf(v, a)) <= 1
    BY DEF OnePendingPerAsset
  <2>1. CASE PendingOf(v, a) = {}
    BY <2>1, FS_EmptySet
  <2>2. CASE PendingOf(v, a) # {}
    <3>1. PICK i : i \in PendingOf(v, a)
      BY <2>2
    <3>2. PendingOf(v, a) = {i}
      BY <3>1 DEF IInv, PendingIsUnique, PendingOf, Pending
    <3>3. Cardinality({i}) = 1
      BY FS_Singleton
    <3>. QED
      BY <3>2, <3>3
  <2>. QED
    BY <2>1, <2>2
<1>. QED
  BY InductiveInvariant, <1>1, PTL

\* Whatever requests of an investor race, wait for the lock past midnight,
\* fail and try again, createInterest lets a day exceed the limit by no more
\* than the transactions that can be open at midnight.
THEOREM DailyLimitHolds == Spec => []DailyLimitUpToMidnight
<1>1. IInv => DailyLimitUpToMidnight
  <2> SUFFICES ASSUME IInv, NEW v \in Investor, NEW d \in 1..LastDay
               PROVE  Cardinality(CreatedOn(v, d)) <= MaxPerDay + Cardinality(Request)
    BY DEF DailyLimitUpToMidnight
  <2>1. DayCount(v, d) /\ Cardinality(CreatedOn(v, d)) \in Nat
    BY FS_CardinalityType DEF IInv, DailyCount, DayCount
  <2>. QED
    BY <2>1, LateFinite, IntakeAssumption DEF DayCount
<1>. QED
  BY InductiveInvariant, <1>1, PTL

\* setAssetStatus never revives a closed asset: the status is compared with
\* the one that was read, and whoever read closed asked for closed.
THEOREM ClosedStays == Spec => ClosedIsTerminal
<1> DEFINE Kept == \A a \in Asset : assetStatus[a] = "closed" => assetStatus'[a] = "closed"
<1>1. ASSUME IInv, [Next]_vars
      PROVE  Kept
  <2>1. ASSUME NEW r \in Request, SetAssetStatus(r)
        PROVE  Kept
    BY <1>1, <2>1 DEF SetAssetStatus, IInv, ClosedAsked, TypeOK
  <2>2. ASSUME NEW r \in Request, RequestStep(r), ~SetAssetStatus(r)
        PROVE  UNCHANGED assetStatus
    BY <2>2 DEF RequestStep, ExpressInterest, BeginInsert, InsertInterest, ReadAsset, RequestFails
  <2>3. CASE UNCHANGED assetStatus
    BY <2>3
  <2>. QED
    BY <1>1, <2>1, <2>2, <2>3 DEF Next, DecideInterest, UpdateDraftAsset,
       SetInvestorPoolAccess, SetPoolInvestmentsEnabled, NextDay, vars
<1>2. IInv /\ [Next]_vars => [Kept]_vars
  BY <1>1
<1>. QED
  BY InductiveInvariant, <1>2, PTL DEF Spec, ClosedIsTerminal

-----------------------------------------------------------------------------
(* The public forms: the throttle                                           *)

\* How the times p at which a key's requests passed lie to its bucket b at
\* time t.  The bucket counts the last of them, and its window began with the
\* first of those; the allowance of requests before them is an hour older, or
\* an hour has passed since.
Paced(p, b, t) ==
    /\ \A i, j \in 1..Len(p) : i <= j => p[i] <= p[j]
    /\ \A i \in 1..Len(p) : p[i] <= t
    /\ \A i, j \in 1..Len(p) : i + 2 * MaxPerWindow - 1 <= j => p[i] + Window <= p[j]
    /\ b.count <= MaxPerWindow /\ b.count <= Len(p)
    /\ b.count = 0 =>
         \A i \in 1..Len(p) : i + MaxPerWindow <= Len(p) + 1 => p[i] + Window <= t
    /\ b.count > 0 =>
         LET first == Len(p) + 1 - b.count
         IN  /\ b.resetAt = p[first] + Window
             /\ \A i \in 1..Len(p) : i + MaxPerWindow <= first => p[i] + Window <= p[first]

Bucket == [count : Nat, resetAt : Nat]
Times == Seq(0..MaxNow)

\* The times of a key are natural numbers.
LEMMA TimesTyped ==
    ASSUME NEW p \in Times
    PROVE  /\ Len(p) \in Nat /\ DOMAIN p = 1..Len(p)
           /\ \A i \in 1..Len(p) : p[i] \in Nat
BY PublicFormsAssumption DEF Times

\* What Append does to the times of a key.
LEMMA TimesAppended ==
    ASSUME NEW p \in Times, NEW t \in 0..MaxNow
    PROVE  /\ Append(p, t) \in Times
           /\ Len(Append(p, t)) = Len(p) + 1
           /\ Append(p, t)[Len(p) + 1] = t
           /\ \A i \in 1..Len(p) : Append(p, t)[i] = p[i]
BY AppendProperties DEF Times

\* A bucket that is dropped had expired: its whole window is an hour old.
LEMMA PacedDropped ==
    ASSUME NEW p \in Times, NEW b \in Bucket, NEW t \in Nat, Paced(p, b, t),
           b.count = 0 \/ b.resetAt <= t
    PROVE  Paced(p, NoBucket, t)
<1> USE PublicFormsAssumption DEF Bucket, NoBucket
<1> DEFINE first == Len(p) + 1 - b.count
<1>1. Len(p) \in Nat /\ \A i \in 1..Len(p) : p[i] \in Nat
  BY TimesTyped
<1>2. \A i \in 1..Len(p) : i + MaxPerWindow <= Len(p) + 1 => p[i] + Window <= t
  <2>1. CASE b.count = 0
    BY <2>1 DEF Paced
  <2>2. CASE b.count > 0
    <3>1. first \in 1..Len(p) /\ p[first] + Window <= t
      BY <1>1, <2>2 DEF Paced
    <3>2. ASSUME NEW i \in 1..Len(p), i + MaxPerWindow <= Len(p) + 1
          PROVE  p[i] <= p[first]
      <4>1. b.count \in Nat /\ b.count <= MaxPerWindow
        BY DEF Paced
      <4>2. i <= first
        BY <1>1, <3>2, <4>1
      <4>. QED
        BY <3>1, <4>2 DEF Paced
    <3>. HIDE DEF first
    <3>. QED
      BY <1>1, <3>1, <3>2
  <2>. QED
    BY <2>1, <2>2
<1>. QED
  BY <1>1, <1>2 DEF Paced

\* A request is let through in a window that is open and not full.
LEMMA PacedCounted ==
    ASSUME NEW p \in Times, NEW b \in Bucket, NEW t \in 0..MaxNow, Paced(p, b, t),
           b.count > 0, b.count < MaxPerWindow
    PROVE  Paced(Append(p, t), [b EXCEPT !.count = @ + 1], t)
<1> USE PublicFormsAssumption
<1> DEFINE s == Append(p, t)
           c == [b EXCEPT !.count = @ + 1]
           n == Len(p)
           first == n + 1 - b.count
<1>1. n \in Nat /\ t \in Nat /\ \A i \in 1..n : p[i] \in Nat
  BY TimesTyped
<1>2. Len(s) = n + 1 /\ s[n + 1] = t /\ \A i \in 1..n : s[i] = p[i]
  BY TimesAppended
<1>3. c.count = b.count + 1 /\ c.resetAt = b.resetAt /\ b.count \in Nat
  BY DEF Bucket
<1>4. /\ first \in 1..n /\ n + 2 - c.count = first
      /\ b.resetAt = p[first] + Window
      /\ \A i \in 1..n : i + MaxPerWindow <= first => p[i] + Window <= p[first]
  BY <1>1, <1>3 DEF Paced
<1>5. /\ \A i, j \in 1..n : i <= j => p[i] <= p[j]
      /\ \A i \in 1..n : p[i] <= t
      /\ \A i, j \in 1..n : i + 2 * MaxPerWindow - 1 <= j => p[i] + Window <= p[j]
  BY DEF Paced
<1>6. \A i \in 1..n : i + 2 * MaxPerWindow - 1 <= n + 1 => i + MaxPerWindow <= first
  BY <1>1, <1>3
<1>. HIDE DEF s, c, n, first
<1>7. \A i, j \in 1..(n + 1) : i <= j => s[i] <= s[j]
  BY <1>1, <1>2, <1>5
<1>8. \A i \in 1..(n + 1) : s[i] <= t
  BY <1>1, <1>2, <1>5
<1>9. \A i, j \in 1..(n + 1) : i + 2 * MaxPerWindow - 1 <= j => s[i] + Window <= s[j]
  <2> SUFFICES ASSUME NEW i \in 1..(n + 1), NEW j \in 1..(n + 1), i + 2 * MaxPerWindow - 1 <= j
               PROVE  s[i] + Window <= s[j]
    OBVIOUS
  <2>1. CASE j \in 1..n
    <3>1. i \in 1..n
      BY <1>1, <2>1
    <3>. QED
      BY <1>2, <1>5, <2>1, <3>1
  <2>2. CASE j = n + 1
    <3>1. i \in 1..n /\ i + MaxPerWindow <= first
      BY <1>1, <1>6, <2>2
    <3>2. p[i] + Window <= p[first] /\ p[first] <= t
      BY <1>4, <1>5, <3>1
    <3>. QED
      BY <1>1, <1>2, <1>4, <2>2, <3>1, <3>2
  <2>. QED
    BY <1>1, <2>1, <2>2
<1>10. /\ c.resetAt = s[first] + Window
       /\ \A i \in 1..(n + 1) : i + MaxPerWindow <= first => s[i] + Window <= s[first]
  BY <1>1, <1>2, <1>3, <1>4
<1>11. c.count <= MaxPerWindow /\ c.count <= n + 1 /\ c.count > 0 /\ c.count # 0
  BY <1>1, <1>3, <1>4
<1>12. n + 1 + 1 - c.count = first
  BY <1>1, <1>3, <1>4
<1>13. Paced(s, c, t)
  BY <1>2, <1>7, <1>8, <1>9, <1>10, <1>11, <1>12 DEF Paced
<1>. QED
  BY <1>13 DEF s, c

\* A request opens a window when there is none, or none that has not expired.
LEMMA PacedOpened ==
    ASSUME NEW p \in Times, NEW t \in 0..MaxNow, Paced(p, NoBucket, t)
    PROVE  Paced(Append(p, t), [count |-> 1, resetAt |-> t + Window], t)
<1> USE PublicFormsAssumption
<1> DEFINE s == Append(p, t)
           c == [count |-> 1, resetAt |-> t + Window]
           n == Len(p)
<1>1. n \in Nat /\ t \in Nat /\ \A i \in 1..n : p[i] \in Nat
  BY TimesTyped
<1>2. Len(s) = n + 1 /\ s[n + 1] = t /\ \A i \in 1..n : s[i] = p[i]
  BY TimesAppended
<1>3. /\ \A i, j \in 1..n : i <= j => p[i] <= p[j]
      /\ \A i \in 1..n : p[i] <= t
      /\ \A i, j \in 1..n : i + 2 * MaxPerWindow - 1 <= j => p[i] + Window <= p[j]
      /\ \A i \in 1..n : i + MaxPerWindow <= n + 1 => p[i] + Window <= t
  BY DEF Paced, NoBucket
<1>4. c.count = 1 /\ c.resetAt = t + Window
  OBVIOUS
<1>. HIDE DEF s, c, n
<1>5. \A i, j \in 1..(n + 1) : i <= j => s[i] <= s[j]
  BY <1>1, <1>2, <1>3
<1>6. \A i \in 1..(n + 1) : s[i] <= t
  BY <1>1, <1>2, <1>3
<1>7. \A i, j \in 1..(n + 1) : i + 2 * MaxPerWindow - 1 <= j => s[i] + Window <= s[j]
  <2> SUFFICES ASSUME NEW i \in 1..(n + 1), NEW j \in 1..(n + 1), i + 2 * MaxPerWindow - 1 <= j
               PROVE  s[i] + Window <= s[j]
    OBVIOUS
  <2>1. CASE j \in 1..n
    <3>1. i \in 1..n
      BY <1>1, <2>1
    <3>. QED
      BY <1>2, <1>3, <2>1, <3>1
  <2>2. CASE j = n + 1
    <3>1. i \in 1..n /\ i + MaxPerWindow <= n + 1
      BY <1>1, <2>2
    <3>. QED
      BY <1>2, <1>3, <2>2, <3>1
  <2>. QED
    BY <1>1, <2>1, <2>2
<1>8. \A i \in 1..(n + 1) : i + MaxPerWindow <= n + 1 => s[i] + Window <= s[n + 1]
  BY <1>1, <1>2, <1>3
<1>9. c.count <= MaxPerWindow /\ c.count <= n + 1 /\ c.count > 0 /\ c.count # 0
      /\ n + 1 + 1 - c.count = n + 1
  BY <1>1, <1>4
<1>10. Paced(s, c, t)
  BY <1>2, <1>4, <1>5, <1>6, <1>7, <1>8, <1>9 DEF Paced
<1>. QED
  BY <1>10 DEF s, c

\* Time passes.
LEMMA PacedLater ==
    ASSUME NEW p \in Times, NEW b \in Bucket, NEW t \in Nat, Paced(p, b, t)
    PROVE  Paced(p, b, t + 1)
<1>1. \A i \in 1..Len(p) : p[i] \in Nat
  BY TimesTyped
<1>. QED
  BY <1>1, PublicFormsAssumption DEF Paced

\* Fewer than twice the allowance lie within any hour.
LEMMA PacedBound ==
    ASSUME NEW p \in Times, NEW b, NEW t, Paced(p, b, t), NEW i \in DOMAIN p
    PROVE  Cardinality({j \in i..Len(p) : p[j] < p[i] + Window}) <= 2 * MaxPerWindow - 1
<1> USE PublicFormsAssumption
<1> DEFINE hour == {j \in i..Len(p) : p[j] < p[i] + Window}
           top == i + 2 * MaxPerWindow - 2
<1>1. Len(p) \in Nat /\ i \in 1..Len(p) /\ top \in Nat /\ i <= top
  BY TimesTyped
<1>2. ASSUME NEW j \in hour
      PROVE  j \in i..top
  <2>1. j \in 1..Len(p) /\ p[j] \in Nat /\ p[i] \in Nat /\ i <= j
    BY <1>1, TimesTyped
  <2>2. i + 2 * MaxPerWindow - 1 <= j => p[i] + Window <= p[j]
    BY <1>1, <2>1 DEF Paced
  <2>3. p[j] < p[i] + Window
    OBVIOUS
  <2>4. ~(i + 2 * MaxPerWindow - 1 <= j)
    BY <2>1, <2>2, <2>3
  <2>. QED
    BY <1>1, <2>1, <2>4
<1>3. IsFiniteSet(i..top) /\ Cardinality(i..top) = 2 * MaxPerWindow - 1
  <2>1. i \in Int /\ top \in Int /\ i <= top
    BY <1>1
  <2>. QED
    BY <2>1, FS_Interval
<1>4. hour \subseteq i..top
  BY <1>2
<1>. QED
  BY <1>3, <1>4, FS_Subset, FS_CardinalityType

-----------------------------------------------------------------------------
(* The public forms: what holds in every state                              *)

AllPaced == \A k \in Key : Paced(passed[k], bucket[k], now)

MapBounded ==
    /\ IsFiniteSet(Tracked(bucket))
    /\ Cardinality(Tracked(bucket)) <= MaxBuckets

\* Requests that have inserted a row of form f and will confirm it.
Mailing(f) == {q \in net : q.at = "mail" /\ form[q.tab] = f}

\* Every row has one confirmation, sent or about to be sent, or none.
RowsCoverMails ==
    /\ IsFiniteSet(net)
    /\ \A f \in Form : mails[f] + Cardinality(Mailing(f)) <= rows[f]
    /\ rows["host"] <= 1 /\ (~host => rows["host"] = 0)

\* What "received" says of a form.
OnFile(f) == IF f = "apply" THEN account # "none" ELSE host

\* Whoever is answered "received", or will be, is on file; so is whoever has
\* filed before, so that the answer of the cap is true as well.
AnswersTrue ==
    /\ \A q \in net : q.at \in {"mail", "ok"} => OnFile(form[q.tab])
    /\ \A t \in Tab : tab[t].at = "done" => OnFile(form[t])
    /\ open => account # "none"
    /\ filed # <<>> => account # "none"

FormsInv ==
    /\ FormsTypeOK
    /\ AllPaced
    /\ MapBounded
    /\ RowsCoverMails
    /\ AnswersTrue

-----------------------------------------------------------------------------
(* The throttle's map                                                       *)

\* The sweep only drops buckets, and only expired ones.
LEMMA SweptKeeps ==
    ASSUME FormsTypeOK, AllPaced, MapBounded
    PROVE  /\ Swept \in [Key -> Bucket]
           /\ \A k \in Key : Paced(passed[k], Swept[k], now)
           /\ Tracked(Swept) \subseteq Tracked(bucket)
           /\ IsFiniteSet(Tracked(Swept))
           /\ Cardinality(Tracked(Swept)) \in Nat
           /\ Cardinality(Tracked(Swept)) <= MaxBuckets
<1>1. bucket \in [Key -> Bucket] /\ passed \in [Key -> Times] /\ now \in Nat
  BY PublicFormsAssumption DEF FormsTypeOK, Bucket, Times
<1>2. NoBucket \in Bucket /\ ~(NoBucket.count > 0)
  BY DEF NoBucket, Bucket
<1>3. Swept \in [Key -> Bucket]
  BY <1>1, <1>2 DEF Swept
<1>4. ASSUME NEW k \in Key
      PROVE  Swept[k] = bucket[k] \/ (Swept[k] = NoBucket /\ bucket[k].resetAt <= now)
  BY <1>1 DEF Swept
<1>5. ASSUME NEW k \in Key
      PROVE  Paced(passed[k], Swept[k], now)
  BY <1>1, <1>4, PacedDropped DEF AllPaced
<1>6. Tracked(Swept) \subseteq Tracked(bucket)
  BY <1>2, <1>4 DEF Tracked
<1>7. /\ IsFiniteSet(Tracked(Swept)) /\ Cardinality(Tracked(Swept)) \in Nat
      /\ Cardinality(Tracked(bucket)) \in Nat
      /\ Cardinality(Tracked(Swept)) <= Cardinality(Tracked(bucket))
  BY <1>6, FS_Subset, FS_CardinalityType DEF MapBounded
<1>. QED
  BY <1>3, <1>5, <1>6, <1>7, PublicFormsAssumption DEF MapBounded

\* ipThrottleAllows keeps the windows of all keys and the cap of the map: it
\* tracks a key that is new only where there is room.
LEMMA ThrottledKeeps ==
    ASSUME FormsTypeOK, AllPaced, MapBounded, NEW k \in Key, NEW allowed \in BOOLEAN,
           Throttled(k, allowed), now' = now
    PROVE  /\ bucket' \in [Key -> Bucket] /\ passed' \in [Key -> Times]
           /\ AllPaced' /\ MapBounded'
<1>1. passed \in [Key -> Times] /\ now \in 0..MaxNow /\ now \in Nat
  BY PublicFormsAssumption DEF FormsTypeOK, Times
<1> DEFINE b == Swept[k]
           c == Counted(b)
<1>2. b \in Bucket /\ Paced(passed[k], b, now)
  BY SweptKeeps
<1>3. CASE ~allowed
  <2>1. bucket' = Swept /\ passed' = passed
    BY <1>3 DEF Throttled
  <2>. QED
    BY <1>1, <2>1, SweptKeeps DEF AllPaced, MapBounded
<1>4. CASE allowed
  <2>1. /\ bucket' = [Swept EXCEPT ![k] = c]
        /\ passed' = [passed EXCEPT ![k] = Append(@, now)]
        /\ Allows(k)
    BY <1>4 DEF Throttled
  <2>2. c \in Bucket /\ c.count > 0
    BY <1>1, <1>2, PublicFormsAssumption DEF Bucket, Counted
  <2>3. Append(passed[k], now) \in Times
    BY <1>1, TimesAppended
  <2>4. Paced(Append(passed[k], now), c, now)
    <3>1. CASE Expired(b)
      <4>1. Paced(passed[k], NoBucket, now)
        BY <1>1, <1>2, <3>1, PacedDropped DEF Expired
      <4>. QED
        BY <1>1, <3>1, <4>1, PacedOpened DEF Counted
    <3>2. CASE ~Expired(b)
      <4>1. b.count > 0 /\ b.count < MaxPerWindow
        BY <1>2, <2>1, <3>2 DEF Allows, BelowLimit, Expired, Bucket
      <4>. QED
        BY <1>1, <1>2, <3>2, <4>1, PacedCounted DEF Counted
    <3>. QED
      BY <3>1, <3>2
  <2>5. Tracked(Swept) \cup {k} = Tracked(bucket')
    <3>. HIDE DEF c
    <3>. QED
      BY <2>1, <2>2, SweptKeeps DEF Tracked
  <2>6. k \in Tracked(Swept) \/ Cardinality(Tracked(Swept)) < MaxBuckets
    BY <1>2, <2>1 DEF Allows, HasRoom, Expired, Tracked, Bucket
  <2>7. IsFiniteSet(Tracked(bucket')) /\ Cardinality(Tracked(bucket')) <= MaxBuckets
    <3>1. /\ IsFiniteSet(Tracked(Swept) \cup {k})
          /\ Cardinality(Tracked(Swept) \cup {k}) =
               IF k \in Tracked(Swept) THEN Cardinality(Tracked(Swept))
                                       ELSE Cardinality(Tracked(Swept)) + 1
      BY SweptKeeps, FS_AddElement
    <3>. QED
      BY <2>5, <2>6, <3>1, SweptKeeps, PublicFormsAssumption
  <2>. HIDE DEF c
  <2>8. bucket' \in [Key -> Bucket] /\ passed' \in [Key -> Times]
    BY <1>1, <2>1, <2>2, <2>3, SweptKeeps
  <2>9. AllPaced'
    <3> SUFFICES ASSUME NEW o \in Key
                 PROVE  Paced(passed'[o], bucket'[o], now)
      BY DEF AllPaced
    <3>1. CASE o = k
      <4>1. passed'[k] = Append(passed[k], now) /\ bucket'[k] = c
        BY <1>1, <2>1, SweptKeeps
      <4>. QED
        BY <2>4, <3>1, <4>1
    <3>2. CASE o # k
      BY <1>1, <2>1, <3>2, SweptKeeps
    <3>. QED
      BY <3>1, <3>2
  <2>. QED
    BY <2>7, <2>8, <2>9 DEF MapBounded
<1>. QED
  BY <1>3, <1>4

\* The same for a request of any address, or of none.
LEMMA IpThrottleKeeps ==
    ASSUME FormsTypeOK, AllPaced, MapBounded, NEW action \in {"apply", "host", "hint"},
           NEW ip \in Ip \cup {None}, NEW allowed \in BOOLEAN,
           IpThrottle(action, ip, allowed), now' = now
    PROVE  /\ bucket' \in [Key -> Bucket] /\ passed' \in [Key -> Times]
           /\ AllPaced' /\ MapBounded'
<1>1. CASE ip = None
  <2>1. bucket' = bucket /\ passed' = passed
    BY <1>1 DEF IpThrottle, throttle
  <2>. QED
    BY <2>1 DEF FormsTypeOK, Bucket, Times, AllPaced, MapBounded, Tracked
<1>2. CASE ip # None
  <2>1. <<action, ip>> \in Key /\ Throttled(<<action, ip>>, allowed)
    BY <1>2 DEF IpThrottle, Key
  <2>. QED
    BY <2>1, ThrottledKeeps
<1>. QED
  BY <1>1, <1>2

-----------------------------------------------------------------------------
(* The steps of the public forms                                            *)

\* Whatever Submit does, it moves one request on and perhaps the throttle.
LEMMA SubmitSteps ==
    ASSUME FormsInv, NEW q \in net, Submit(q)
    PROVE  /\ q.at = "arrived" /\ UNCHANGED <<form, tab, db, mails, now>>
           /\ \/ Advance(q, "error") \/ Advance(q, "write")
              \/ /\ Advance(q, "ok") /\ form[q.tab] = "apply"
                 /\ Cardinality(Recent) >= EmailCap
           /\ bucket' \in [Key -> Bucket] /\ passed' \in [Key -> Times]
           /\ AllPaced' /\ MapBounded'
<1>1. q.at = "arrived" /\ UNCHANGED <<form, tab, db, mails, now>>
  BY DEF Submit
<1>2. CASE ~FieldsValid(q)
  <2>1. Advance(q, "error") /\ bucket' = bucket /\ passed' = passed
    BY <1>2 DEF Submit, throttle
  <2>. QED
    BY <1>1, <2>1 DEF FormsInv, FormsTypeOK, Bucket, Times, AllPaced, MapBounded, Tracked
<1>3. CASE FieldsValid(q)
  <2>1. PICK allowed \in BOOLEAN :
          /\ IpThrottle(form[q.tab], IpOf[q.tab], allowed)
          /\ Advance(q, IF ~allowed THEN "error"
                        ELSE IF form[q.tab] = "apply" /\ Cardinality(Recent) >= EmailCap
                        THEN "ok" ELSE "write")
    BY <1>3 DEF Submit
  <2>2. form[q.tab] \in {"apply", "host", "hint"} /\ IpOf[q.tab] \in Ip \cup {None}
    BY PublicFormsAssumption DEF FormsInv, FormsTypeOK, Form
  <2>3. /\ bucket' \in [Key -> Bucket] /\ passed' \in [Key -> Times]
        /\ AllPaced' /\ MapBounded'
    BY <1>1, <2>1, <2>2, IpThrottleKeeps DEF FormsInv
  <2>. QED
    BY <1>1, <2>1, <2>3
<1>. QED
  BY <1>2, <1>3

\* The sign-in page only touches the throttle.
LEMMA HintSteps ==
    ASSUME FormsInv, NEW ip \in Ip, GetSignInHint(ip)
    PROVE  /\ UNCHANGED <<form, tab, net, db, mails, now>>
           /\ bucket' \in [Key -> Bucket] /\ passed' \in [Key -> Times]
           /\ AllPaced' /\ MapBounded'
<1>1. PICK allowed \in BOOLEAN : IpThrottle("hint", ip, allowed)
  BY DEF GetSignInHint
<1>. QED
  BY <1>1, IpThrottleKeeps DEF GetSignInHint, FormsInv

\* A request that is sent on keeps the set of requests of its type.
LEMMA AdvanceTyped ==
    ASSUME FormsTypeOK, NEW q \in net, NEW at \in {"write", "mail", "ok", "error"},
           Advance(q, at)
    PROVE  net' \subseteq [tab : Tab, n : 1..MaxPosts, valid : BOOLEAN,
                           at : {"arrived", "write", "mail", "ok", "error"}]
BY DEF FormsTypeOK, Advance

Screen == [step : 1..3, profile : Profile, accepted : BOOLEAN,
           at : {"edit", "pending", "done"}, posts : 0..MaxPosts]

\* Every variable of the public forms keeps its type.
LEMMA FormsTypeStep ==
    ASSUME FormsInv, [FormsNext]_formsVars
    PROVE  FormsTypeOK'
<1> USE PublicFormsAssumption
<1>. FormsTypeOK
  BY DEF FormsInv
<1>1. ASSUME NEW t \in Tab,
             \/ PatchForm(t) \/ Accept(t) \/ HandleContinue(t) \/ HandleBack(t)
             \/ HandleSubmit(t) \/ ConnectionLost(t)
      PROVE  FormsTypeOK'
  <2>. tab[t] \in Screen
    BY DEF FormsTypeOK, Screen
  <2>1. ASSUME NEW x \in Screen, Show(t, x)
        PROVE  FormsTypeOK'
    BY <2>1 DEF Show, FormsTypeOK, db, throttle, Screen
  <2>2. CASE PatchForm(t)
    BY <2>1, <2>2 DEF PatchForm, Screen
  <2>3. CASE Accept(t)
    BY <2>1, <2>3 DEF Accept, Screen
  <2>4. CASE HandleContinue(t)
    <3>1. [tab[t] EXCEPT !.step = @ + 1] \in Screen
      BY <2>4 DEF HandleContinue, LastStep, Screen
    <3>. QED
      BY <2>1, <2>4, <3>1 DEF HandleContinue
  <2>5. CASE HandleBack(t)
    BY <2>1, <2>5 DEF HandleBack, Screen
  <2>6. CASE ConnectionLost(t)
    BY <2>1, <2>6 DEF ConnectionLost, Screen
  <2>7. CASE HandleSubmit(t)
    <3>1. tab' \in [Tab -> Screen]
      <4> DEFINE y == [tab[t] EXCEPT !.at = "pending", !.posts = @ + 1]
      <4>1. y \in Screen
        <5>1. tab[t].posts + 1 \in 0..MaxPosts
          BY <2>7 DEF HandleSubmit, Screen
        <5>. QED
          BY <5>1 DEF Screen
      <4>2. tab' = [tab EXCEPT ![t] = y] /\ tab \in [Tab -> Screen]
        BY <2>7 DEF HandleSubmit, FormsTypeOK, Screen
      <4>. QED
        BY <4>1, <4>2
    <3>2. net' \subseteq [tab : Tab, n : 1..MaxPosts, valid : BOOLEAN,
                          at : {"arrived", "write", "mail", "ok", "error"}]
      <4>1. PICK v \in BOOLEAN : v = (tab[t].profile = "valid")
        OBVIOUS
      <4>2. net' = net \cup {[tab |-> t, n |-> tab[t].posts + 1, valid |-> v, at |-> "arrived"]}
        BY <2>7, <4>1 DEF HandleSubmit
      <4>3. tab[t].posts + 1 \in 1..MaxPosts
        BY <2>7 DEF HandleSubmit, Screen
      <4>. QED
        BY <4>2, <4>3 DEF FormsTypeOK
    <3>. QED
      BY <2>7, <3>1, <3>2 DEF HandleSubmit, FormsTypeOK, db, throttle, Screen
  <2>. QED
    BY <1>1, <2>2, <2>3, <2>4, <2>5, <2>6, <2>7
<1>2. ASSUME NEW q \in net
      PROVE  /\ Submit(q) => FormsTypeOK'
             /\ PersistApplication(q) => FormsTypeOK'
             /\ PersistHost(q) => FormsTypeOK'
             /\ PersistFails(q) => FormsTypeOK'
             /\ SendConfirmation(q) => FormsTypeOK'
             /\ ShowResult(q) => FormsTypeOK'
  <2>1. CASE Submit(q)
    BY <2>1, SubmitSteps, AdvanceTyped DEF FormsTypeOK, db, Bucket, Times
  <2>2. CASE PersistApplication(q)
    <3>1. CASE account = "active" \/ open
      BY <2>2, <3>1, AdvanceTyped DEF PersistApplication, AfterRepeat, FormsTypeOK, db, throttle
    <3>2. CASE ~(account = "active" \/ open)
      <4>1. filed' = Append(filed, now) /\ rows' = [rows EXCEPT !["apply"] = @ + 1]
        BY <2>2, <3>2 DEF PersistApplication
      <4>2. filed' \in Seq(0..MaxNow)
        BY <4>1, AppendProperties DEF FormsTypeOK
      <4>3. rows' \in [Form -> Nat]
        BY <4>1 DEF FormsTypeOK, Form
      <4>. QED
        BY <2>2, <3>2, <4>2, <4>3, AdvanceTyped DEF PersistApplication, FormsTypeOK, throttle
    <3>. QED
      BY <3>1, <3>2
  <2>3. CASE PersistHost(q)
    <3>1. CASE host
      BY <2>3, <3>1, AdvanceTyped DEF PersistHost, AfterRepeat, FormsTypeOK, db, throttle
    <3>2. CASE ~host
      <4>1. rows' \in [Form -> Nat]
        BY <2>3, <3>2 DEF PersistHost, FormsTypeOK, Form
      <4>. QED
        BY <2>3, <3>2, <4>1, AdvanceTyped DEF PersistHost, FormsTypeOK, throttle
    <3>. QED
      BY <3>1, <3>2
  <2>4. CASE PersistFails(q)
    BY <2>4, AdvanceTyped DEF PersistFails, AfterFailure, FormsTypeOK, db, throttle
  <2>5. CASE SendConfirmation(q)
    <3>1. mails' \in [Form -> Nat]
      BY <2>5 DEF SendConfirmation, FormsTypeOK
    <3>. QED
      BY <2>5, <3>1, AdvanceTyped DEF SendConfirmation, FormsTypeOK, db, throttle
  <2>6. CASE ShowResult(q)
    <3> DEFINE y == [tab[q.tab] EXCEPT !.at = IF q.at = "ok" THEN "done" ELSE "edit"]
    <3>1. q.tab \in Tab /\ tab \in [Tab -> Screen] /\ tab[q.tab] \in Screen
      BY DEF FormsTypeOK, Screen
    <3>2. y \in Screen
      BY <3>1 DEF Screen
    <3>3. tab' = [tab EXCEPT ![q.tab] = y] \/ tab' = tab
      BY <2>6, <3>1 DEF ShowResult
    <3>4. tab' \in [Tab -> Screen]
      BY <3>1, <3>2, <3>3
    <3>. QED
      BY <2>6, <3>4 DEF ShowResult, FormsTypeOK, db, throttle, Screen
  <2>. QED
    BY <2>1, <2>2, <2>3, <2>4, <2>5, <2>6
<1>3. ASSUME NEW ip \in Ip, GetSignInHint(ip)
      PROVE  FormsTypeOK'
  BY <1>3, HintSteps DEF FormsTypeOK, db, Bucket, Times
<1>4. CASE DecideApplication
  BY <1>4 DEF DecideApplication, FormsTypeOK, throttle
<1>5. CASE Restart
  BY <1>5 DEF Restart, FormsTypeOK, db, NoBucket
<1>6. CASE Tick
  BY <1>6 DEF Tick, FormsTypeOK, db, throttle
<1>7. CASE UNCHANGED formsVars
  BY <1>7 DEF formsVars, FormsTypeOK, db, throttle
<1>. QED
  BY <1>1, <1>2, <1>3, <1>4, <1>5, <1>6, <1>7 DEF FormsNext

\* The windows and the map through every step.  After a restart there is
\* nothing to remember, and the clock only makes windows older.
LEMMA ThrottleStep ==
    ASSUME FormsInv, [FormsNext]_formsVars
    PROVE  AllPaced' /\ MapBounded'
<1>. FormsTypeOK /\ AllPaced /\ MapBounded
  BY DEF FormsInv
<1>1. CASE UNCHANGED <<throttle, now>>
  BY <1>1 DEF throttle, AllPaced, MapBounded, Tracked
<1>2. ASSUME NEW q \in net, Submit(q)
      PROVE  AllPaced' /\ MapBounded'
  BY <1>2, SubmitSteps
<1>3. ASSUME NEW ip \in Ip, GetSignInHint(ip)
      PROVE  AllPaced' /\ MapBounded'
  BY <1>3, HintSteps
<1>4. CASE Restart
  <2>1. bucket' = [k \in Key |-> NoBucket] /\ passed' = [k \in Key |-> <<>>]
    BY <1>4 DEF Restart
  <2>2. Tracked(bucket') = {}
    BY <2>1 DEF Tracked, NoBucket
  <2>3. IsFiniteSet(Tracked(bucket')) /\ Cardinality(Tracked(bucket')) <= MaxBuckets
    BY <2>2, FS_EmptySet, PublicFormsAssumption
  <2>4. Paced(<<>>, NoBucket, now')
    BY PublicFormsAssumption DEF Paced, NoBucket
  <2>. QED
    BY <2>1, <2>3, <2>4 DEF AllPaced, MapBounded
<1>5. CASE Tick
  <2>1. bucket' = bucket /\ passed' = passed /\ now' = now + 1
    BY <1>5 DEF Tick, throttle
  <2>2. bucket \in [Key -> Bucket] /\ passed \in [Key -> Times] /\ now \in Nat
    BY PublicFormsAssumption DEF FormsTypeOK, Bucket, Times
  <2>. QED
    BY <2>1, <2>2, PacedLater DEF AllPaced, MapBounded, Tracked
<1>6. ASSUME NEW t \in Tab,
             \/ PatchForm(t) \/ Accept(t) \/ HandleContinue(t) \/ HandleBack(t)
             \/ HandleSubmit(t) \/ ConnectionLost(t)
      PROVE  UNCHANGED <<throttle, now>>
  BY <1>6 DEF PatchForm, Accept, HandleContinue, HandleBack, HandleSubmit, ConnectionLost, Show
<1>7. ASSUME NEW q \in net,
             \/ PersistApplication(q) \/ PersistHost(q) \/ PersistFails(q)
             \/ SendConfirmation(q) \/ ShowResult(q)
      PROVE  UNCHANGED <<throttle, now>>
  BY <1>7 DEF PersistApplication, PersistHost, PersistFails, SendConfirmation, ShowResult
<1>8. CASE DecideApplication
  BY <1>1, <1>8 DEF DecideApplication
<1>9. CASE UNCHANGED formsVars
  BY <1>1, <1>9 DEF formsVars
<1>. QED
  BY <1>1, <1>2, <1>3, <1>4, <1>5, <1>6, <1>7, <1>8, <1>9 DEF FormsNext

-----------------------------------------------------------------------------
(* Confirmations and answers                                                *)

\* A request is replaced by itself at another place.
LEMMA AdvanceIsFinite ==
    ASSUME IsFiniteSet(net), NEW q \in net, NEW at, Advance(q, at)
    PROVE  IsFiniteSet(net')
<1>1. IsFiniteSet(net \ {q})
  BY FS_Subset
<1>2. IsFiniteSet((net \ {q}) \cup {[q EXCEPT !.at = at]})
  BY <1>1, FS_AddElement
<1>. QED
  BY <1>2 DEF Advance

\* The requests about to confirm are finitely many, and fewer of them count
\* for less.
LEMMA MailingCounts ==
    ASSUME IsFiniteSet(net), NEW f
    PROVE  IsFiniteSet(Mailing(f)) /\ Cardinality(Mailing(f)) \in Nat
BY FS_Subset, FS_CardinalityType DEF Mailing

\* Where no row and no mail is added and no request is about to confirm that
\* was not before, the rows still cover the mails.
LEMMA MailingKept ==
    ASSUME FormsTypeOK, RowsCoverMails, IsFiniteSet(net'),
           \A f \in Form : Mailing(f)' \subseteq Mailing(f),
           UNCHANGED <<mails, rows, host>>
    PROVE  RowsCoverMails'
<1>1. ASSUME NEW f \in Form
      PROVE  mails[f] + Cardinality(Mailing(f)') <= rows[f]
  <2>1. /\ Cardinality(Mailing(f)') <= Cardinality(Mailing(f))
        /\ Cardinality(Mailing(f)') \in Nat /\ Cardinality(Mailing(f)) \in Nat
    BY MailingCounts, FS_Subset, FS_CardinalityType DEF RowsCoverMails
  <2>2. mails[f] \in Nat /\ rows[f] \in Nat /\ mails[f] + Cardinality(Mailing(f)) <= rows[f]
    BY DEF FormsTypeOK, RowsCoverMails
  <2>. QED
    BY <2>1, <2>2
<1>. QED
  BY <1>1 DEF RowsCoverMails

\* A new row of form f has one request that will confirm it.
LEMMA MailingAdded ==
    ASSUME FormsTypeOK, RowsCoverMails, NEW q \in net, Advance(q, "mail"),
           q.at = "write", NEW f \in Form, form[q.tab] = f,
           rows' = [rows EXCEPT ![f] = @ + 1], UNCHANGED <<form, mails>>
    PROVE  /\ IsFiniteSet(net')
           /\ \A g \in Form : mails'[g] + Cardinality(Mailing(g)') <= rows'[g]
<1> DEFINE m == [q EXCEPT !.at = "mail"]
<1>1. IsFiniteSet(net')
  BY AdvanceIsFinite DEF RowsCoverMails
<1>2. net' = (net \ {q}) \cup {m} /\ m.tab = q.tab /\ m.at = "mail"
  BY DEF Advance, FormsTypeOK
<1>3. rows[f] \in Nat /\ mails \in [Form -> Nat] /\ rows \in [Form -> Nat]
  BY DEF FormsTypeOK
<1>. HIDE DEF m
<1>4. ASSUME NEW g \in Form, g # f
      PROVE  mails[g] + Cardinality(Mailing(g)') <= rows[g]
  <2>1. Mailing(g)' = Mailing(g)
    BY <1>2, <1>4 DEF Mailing
  <2>. QED
    BY <2>1 DEF RowsCoverMails
<1>5. mails[f] + Cardinality(Mailing(f)') <= rows[f] + 1
  <2>1. Mailing(f)' = Mailing(f) \cup {m}
    BY <1>2 DEF Mailing
  <2>2. /\ Cardinality(Mailing(f) \cup {m}) \in Nat /\ Cardinality(Mailing(f)) \in Nat
        /\ Cardinality(Mailing(f) \cup {m}) <= Cardinality(Mailing(f)) + 1
    <3>1. IsFiniteSet(Mailing(f)) /\ Cardinality(Mailing(f)) \in Nat
      BY MailingCounts DEF RowsCoverMails
    <3>2. Cardinality(Mailing(f) \cup {m}) =
            IF m \in Mailing(f) THEN Cardinality(Mailing(f)) ELSE Cardinality(Mailing(f)) + 1
      BY <3>1, FS_AddElement
    <3>. QED
      BY <3>1, <3>2
  <2>3. mails[f] + Cardinality(Mailing(f)) <= rows[f]
    BY DEF RowsCoverMails
  <2>. QED
    BY <1>3, <2>1, <2>2, <2>3
<1>. QED
  BY <1>1, <1>3, <1>4, <1>5

\* A confirmation that is sent was counted as one that will be.
LEMMA MailingSent ==
    ASSUME FormsTypeOK, RowsCoverMails, NEW q \in net, SendConfirmation(q)
    PROVE  RowsCoverMails'
<1> DEFINE f == form[q.tab]
<1>1. /\ q.at = "mail" /\ Advance(q, "ok") /\ UNCHANGED <<form, rows, host>>
      /\ q.tab \in Tab /\ f \in Form
  BY DEF SendConfirmation, db, FormsTypeOK
<1>2. PICK sent \in 0..1 : mails' = [mails EXCEPT ![f] = @ + sent]
  BY DEF SendConfirmation
<1>3. IsFiniteSet(net')
  BY <1>1, AdvanceIsFinite DEF RowsCoverMails
<1>4. ASSUME NEW r \in net', r.at = "mail"
      PROVE  r \in net /\ r # q
  BY <1>1, <1>4 DEF Advance, FormsTypeOK
<1>. HIDE DEF f
<1>5. ASSUME NEW g \in Form
      PROVE  mails'[g] + Cardinality(Mailing(g)') <= rows[g]
  <2>1. /\ mails[g] \in Nat /\ rows[g] \in Nat
        /\ mails[g] + Cardinality(Mailing(g)) <= rows[g]
        /\ IsFiniteSet(Mailing(g)) /\ Cardinality(Mailing(g)) \in Nat
    BY MailingCounts DEF FormsTypeOK, RowsCoverMails
  <2>2. CASE g # f
    <3>1. Mailing(g)' \subseteq Mailing(g)
      BY <1>1, <1>4 DEF Mailing
    <3>2. Cardinality(Mailing(g)') <= Cardinality(Mailing(g)) /\ Cardinality(Mailing(g)') \in Nat
      BY <2>1, <3>1, FS_Subset, FS_CardinalityType
    <3>3. mails'[g] = mails[g]
      BY <1>2, <2>2 DEF FormsTypeOK
    <3>. QED
      BY <2>1, <3>2, <3>3
  <2>3. CASE g = f
    <3>1. Mailing(g)' \subseteq Mailing(g) \ {q} /\ q \in Mailing(g)
      BY <1>1, <1>4, <2>3 DEF Mailing, f
    <3>2. /\ IsFiniteSet(Mailing(g) \ {q})
          /\ Cardinality(Mailing(g) \ {q}) = Cardinality(Mailing(g)) - 1
      BY <2>1, <3>1, FS_RemoveElement
    <3>3. /\ Cardinality(Mailing(g)') <= Cardinality(Mailing(g) \ {q})
          /\ Cardinality(Mailing(g)') \in Nat
      BY <3>1, <3>2, FS_Subset, FS_CardinalityType
    <3>4. mails'[g] <= mails[g] + 1 /\ mails'[g] \in Nat
      BY <1>1, <1>2, <2>3 DEF FormsTypeOK
    <3>. QED
      BY <2>1, <3>2, <3>3, <3>4
  <2>. QED
    BY <2>2, <2>3
<1>. QED
  BY <1>1, <1>3, <1>5 DEF RowsCoverMails

\* Through every step there is a row for each confirmation, sent or to be
\* sent, and one row of a host at most.
LEMMA RowsStep ==
    ASSUME FormsInv, [FormsNext]_formsVars
    PROVE  RowsCoverMails'
<1>. FormsTypeOK /\ RowsCoverMails /\ IsFiniteSet(net)
  BY DEF FormsInv, RowsCoverMails
<1>1. ASSUME NEW q \in net, NEW at, at # "mail", Advance(q, at),
             UNCHANGED <<form, mails, rows, host>>
      PROVE  RowsCoverMails'
  <2>1. IsFiniteSet(net')
    BY <1>1, AdvanceIsFinite
  <2>2. \A f \in Form : Mailing(f)' \subseteq Mailing(f)
    BY <1>1 DEF Advance, Mailing, FormsTypeOK
  <2>. QED
    BY <1>1, <2>1, <2>2, MailingKept
<1>2. CASE UNCHANGED <<form, net, mails, rows, host>>
  BY <1>2 DEF RowsCoverMails, Mailing
<1>3. ASSUME NEW t \in Tab, HandleSubmit(t)
      PROVE  RowsCoverMails'
  <2> DEFINE q == [tab |-> t, n |-> tab[t].posts + 1,
                   valid |-> tab[t].profile = "valid", at |-> "arrived"]
  <2>1. net' = net \cup {q} /\ q.at = "arrived"
    BY <1>3 DEF HandleSubmit
  <2>. HIDE DEF q
  <2>2. IsFiniteSet(net')
    <3>1. IsFiniteSet(net \cup {q})
      BY FS_AddElement
    <3>. QED
      BY <2>1, <3>1
  <2>3. form' = form /\ UNCHANGED <<mails, rows, host>>
    BY <1>3 DEF HandleSubmit, db
  <2>4. \A f \in Form : Mailing(f)' \subseteq Mailing(f)
    BY <2>1, <2>3 DEF Mailing
  <2>. QED
    BY <2>2, <2>3, <2>4, MailingKept
<1>4. ASSUME NEW t \in Tab,
             \/ PatchForm(t) \/ Accept(t) \/ HandleContinue(t) \/ HandleBack(t)
             \/ ConnectionLost(t)
      PROVE  UNCHANGED <<form, net, mails, rows, host>>
  BY <1>4 DEF PatchForm, Accept, HandleContinue, HandleBack, ConnectionLost, Show, db
<1>5. ASSUME NEW q \in net, Submit(q)
      PROVE  RowsCoverMails'
  <2>1. /\ Advance(q, "error") \/ Advance(q, "write") \/ Advance(q, "ok")
        /\ UNCHANGED <<form, mails, rows, host>>
    BY <1>5, SubmitSteps DEF db
  <2>. QED
    BY <1>1, <2>1
<1>6. ASSUME NEW q \in net, PersistApplication(q)
      PROVE  RowsCoverMails'
  <2>1. CASE account = "active" \/ open
    BY <1>1, <1>6, <2>1 DEF PersistApplication, AfterRepeat, db
  <2>2. CASE ~(account = "active" \/ open)
    <3>1. /\ Advance(q, "mail") /\ q.at = "write" /\ form[q.tab] = "apply"
          /\ rows' = [rows EXCEPT !["apply"] = @ + 1] /\ UNCHANGED <<form, mails, host>>
      BY <1>6, <2>2 DEF PersistApplication
    <3>2. "apply" \in Form /\ "host" \in Form /\ rows \in [Form -> Nat]
      BY DEF Form, FormsTypeOK
    <3>3. rows'["host"] = rows["host"]
      BY <3>1, <3>2
    <3>. QED
      BY <3>1, <3>2, <3>3, MailingAdded DEF RowsCoverMails
  <2>. QED
    BY <2>1, <2>2
<1>7. ASSUME NEW q \in net, PersistHost(q)
      PROVE  RowsCoverMails'
  <2>1. CASE host
    BY <1>1, <1>7, <2>1 DEF PersistHost, AfterRepeat, db
  <2>2. CASE ~host
    <3>1. /\ Advance(q, "mail") /\ q.at = "write" /\ form[q.tab] = "host"
          /\ rows' = [rows EXCEPT !["host"] = @ + 1] /\ host' /\ UNCHANGED <<form, mails>>
      BY <1>7, <2>2 DEF PersistHost
    <3>2. "host" \in Form /\ rows \in [Form -> Nat] /\ rows["host"] = 0
      BY <2>2 DEF Form, FormsTypeOK, RowsCoverMails
    <3>3. rows'["host"] = 1
      BY <3>1, <3>2
    <3>4. /\ IsFiniteSet(net')
          /\ \A g \in Form : mails'[g] + Cardinality(Mailing(g)') <= rows'[g]
      BY <3>1, <3>2, MailingAdded
    <3>. QED
      BY <3>1, <3>3, <3>4 DEF RowsCoverMails
  <2>. QED
    BY <2>1, <2>2
<1>8. ASSUME NEW q \in net, PersistFails(q)
      PROVE  RowsCoverMails'
  BY <1>1, <1>8 DEF PersistFails, AfterFailure, db
<1>9. ASSUME NEW q \in net, SendConfirmation(q)
      PROVE  RowsCoverMails'
  BY <1>9, MailingSent
<1>10. ASSUME NEW q \in net, ShowResult(q)
       PROVE  RowsCoverMails'
  <2>1. net' \subseteq net /\ UNCHANGED <<form, mails, rows, host>>
    BY <1>10 DEF ShowResult, db
  <2>2. IsFiniteSet(net') /\ \A f \in Form : Mailing(f)' \subseteq Mailing(f)
    BY <2>1, FS_Subset DEF Mailing
  <2>. QED
    BY <2>1, <2>2, MailingKept
<1>11. CASE Restart
  <2>1. net' = {} /\ UNCHANGED <<form, mails, rows, host>>
    BY <1>11 DEF Restart, db
  <2>2. IsFiniteSet(net') /\ \A f \in Form : Mailing(f)' \subseteq Mailing(f)
    BY <2>1, FS_EmptySet DEF Mailing
  <2>. QED
    BY <2>1, <2>2, MailingKept
<1>12. ASSUME NEW ip \in Ip, GetSignInHint(ip)
       PROVE  UNCHANGED <<form, net, mails, rows, host>>
  BY <1>12 DEF GetSignInHint, db
<1>. QED
  BY <1>2, <1>3, <1>4, <1>5, <1>6, <1>7, <1>8, <1>9, <1>10, <1>11, <1>12
  DEF FormsNext, DecideApplication, Tick, formsVars, db

\* What is on file stays on file.
LEMMA OnFileStays ==
    ASSUME FormsInv, [FormsNext]_formsVars, NEW f \in Form, OnFile(f)
    PROVE  OnFile(f)'
<1>1. ASSUME NEW q \in net, PersistApplication(q) \/ PersistHost(q)
      PROVE  OnFile(f)'
  BY <1>1 DEF PersistApplication, PersistHost, OnFile, db
<1>2. CASE DecideApplication
  BY <1>2 DEF DecideApplication, OnFile
<1>3. CASE UNCHANGED <<account, host>>
  BY <1>3 DEF OnFile
<1>4. ASSUME NEW q \in net,
             Submit(q) \/ PersistFails(q) \/ SendConfirmation(q) \/ ShowResult(q)
      PROVE  UNCHANGED <<account, host>>
  BY <1>4 DEF Submit, PersistFails, SendConfirmation, ShowResult, db
<1>5. ASSUME NEW t \in Tab,
             \/ PatchForm(t) \/ Accept(t) \/ HandleContinue(t) \/ HandleBack(t)
             \/ HandleSubmit(t) \/ ConnectionLost(t)
      PROVE  UNCHANGED <<account, host>>
  BY <1>5 DEF PatchForm, Accept, HandleContinue, HandleBack, HandleSubmit, ConnectionLost,
     Show, db
<1>. QED
  BY <1>1, <1>2, <1>3, <1>4, <1>5
  DEF FormsNext, GetSignInHint, Restart, Tick, formsVars, db

\* A request that goes on tells the truth if what it is answered is on file.
LEMMA AnswerAdvances ==
    ASSUME FormsInv, [FormsNext]_formsVars, NEW q \in net, NEW at, Advance(q, at), form' = form,
           at \in {"mail", "ok"} => OnFile(form[q.tab])'
    PROVE  \A r \in net' : r.at \in {"mail", "ok"} => OnFile(form[r.tab])'
<1> SUFFICES ASSUME NEW r \in net', r.at \in {"mail", "ok"}
             PROVE  OnFile(form[r.tab])'
  OBVIOUS
<1>1. CASE r \in net
  BY <1>1, OnFileStays DEF FormsInv, AnswersTrue, FormsTypeOK
<1>2. CASE r \notin net
  <2>1. r.tab = q.tab /\ r.at = at
    BY <1>2 DEF Advance, FormsInv, FormsTypeOK
  <2>. QED
    BY <2>1
<1>. QED
  BY <1>1, <1>2

\* "Received" stays true and is only said when it is.
LEMMA AnswersStep ==
    ASSUME FormsInv, [FormsNext]_formsVars
    PROVE  AnswersTrue'
<1> DEFINE Requests == \A q \in net : q.at \in {"mail", "ok"} => OnFile(form[q.tab])
           Screens == \A t \in Tab : tab[t].at = "done" => OnFile(form[t])
           Account == (open => account # "none") /\ (filed # <<>> => account # "none")
<1>. FormsTypeOK /\ Requests /\ Screens /\ Account
  BY DEF FormsInv, AnswersTrue
<1>1. form' = form
  BY DEF FormsNext, PatchForm, Accept, HandleContinue, HandleBack, HandleSubmit, ConnectionLost,
     Show, Submit, PersistApplication, PersistHost, PersistFails, SendConfirmation, ShowResult,
     GetSignInHint, DecideApplication, Restart, Tick, formsVars
<1>2. \A f \in Form : OnFile(f) => OnFile(f)'
  BY OnFileStays
<1>. HIDE DEF Requests, Screens, Account
<1>3. Requests'
  <2>1. ASSUME NEW q \in net', q \in net \/ q.at = "arrived"
        PROVE  q.at \in {"mail", "ok"} => OnFile(form[q.tab])'
    BY <1>1, <1>2, <2>1 DEF Requests, FormsTypeOK
  <2>2. CASE net' \subseteq net
    BY <2>1, <2>2 DEF Requests
  <2>3. ASSUME NEW t \in Tab, HandleSubmit(t)
        PROVE  Requests'
    <3> DEFINE q == [tab |-> t, n |-> tab[t].posts + 1,
                     valid |-> tab[t].profile = "valid", at |-> "arrived"]
    <3>1. net' = net \cup {q} /\ q.at = "arrived"
      BY <2>3 DEF HandleSubmit
    <3>. HIDE DEF q
    <3>. QED
      BY <2>1, <3>1 DEF Requests
  <2>4. ASSUME NEW q \in net, Submit(q)
        PROVE  Requests'
    <3>1. CASE Advance(q, "error") \/ Advance(q, "write")
      BY <1>1, <3>1, AnswerAdvances DEF Requests
    <3>2. CASE Advance(q, "ok") /\ form[q.tab] = "apply" /\ Cardinality(Recent) >= EmailCap
      <4>1. Recent # {}
        BY <3>2, FS_EmptySet, PublicFormsAssumption
      <4>2. filed # <<>>
        BY <4>1 DEF Recent
      <4>3. OnFile("apply")
        BY <4>2 DEF OnFile, Account
      <4>4. OnFile(form[q.tab])'
        BY <1>1, <1>2, <3>2, <4>3 DEF Form
      <4>. QED
        BY <1>1, <3>2, <4>4, AnswerAdvances DEF Requests
    <3>. QED
      BY <2>4, <3>1, <3>2, SubmitSteps
  <2>5. ASSUME NEW q \in net, PersistApplication(q)
        PROVE  Requests'
    <3>1. (OnFile(form[q.tab]))' /\ (Advance(q, "ok") \/ Advance(q, "mail"))
      BY <1>1, <2>5 DEF PersistApplication, AfterRepeat, OnFile, Account, db
    <3>. QED
      BY <1>1, <3>1, AnswerAdvances DEF Requests
  <2>6. ASSUME NEW q \in net, PersistHost(q)
        PROVE  Requests'
    <3>1. (OnFile(form[q.tab]))' /\ (Advance(q, "ok") \/ Advance(q, "mail"))
      BY <1>1, <2>6 DEF PersistHost, AfterRepeat, OnFile, db
    <3>. QED
      BY <1>1, <3>1, AnswerAdvances DEF Requests
  <2>7. ASSUME NEW q \in net, PersistFails(q)
        PROVE  Requests'
    BY <1>1, <2>7, AnswerAdvances DEF PersistFails, AfterFailure, Requests
  <2>8. ASSUME NEW q \in net, SendConfirmation(q)
        PROVE  Requests'
    <3>1. OnFile(form[q.tab]) /\ form[q.tab] \in Form
      BY <2>8 DEF SendConfirmation, Requests, FormsTypeOK
    <3>. QED
      BY <1>1, <1>2, <2>8, <3>1, AnswerAdvances DEF SendConfirmation, Requests
  <2>. QED
    BY <2>2, <2>3, <2>4, <2>5, <2>6, <2>7, <2>8
    DEF FormsNext, PatchForm, Accept, HandleContinue, HandleBack, ConnectionLost, Show, ShowResult,
        GetSignInHint, DecideApplication, Restart, Tick, formsVars
<1>4. Screens'
  <2>1. ASSUME NEW t \in Tab, tab'[t].at = "done"
        PROVE  \/ tab[t].at = "done"
               \/ \E q \in net : q.tab = t /\ q.at = "ok"
    <3>1. ASSUME NEW o \in Tab,
                 PatchForm(o) \/ Accept(o) \/ HandleContinue(o) \/ HandleBack(o)
          PROVE  tab[t].at = "done"
      BY <2>1, <3>1 DEF PatchForm, Accept, HandleContinue, HandleBack, Show, FormsTypeOK
    <3>2. ASSUME NEW o \in Tab, HandleSubmit(o) \/ ConnectionLost(o)
          PROVE  tab[t].at = "done"
      BY <2>1, <3>2 DEF HandleSubmit, ConnectionLost, Show, FormsTypeOK
    <3>3. ASSUME NEW q \in net, ShowResult(q), tab[t].at # "done"
          PROVE  q.tab = t /\ q.at = "ok"
      BY <2>1, <3>3 DEF ShowResult, FormsTypeOK
    <3>4. CASE tab' = tab
      BY <2>1, <3>4
    <3>. QED
      BY <3>1, <3>2, <3>3, <3>4
      DEF FormsNext, Submit, PersistApplication, PersistHost, PersistFails, SendConfirmation,
          GetSignInHint, DecideApplication, Restart, Tick, formsVars
  <2>2. ASSUME NEW t \in Tab, tab'[t].at = "done"
        PROVE  OnFile(form[t])'
    BY <1>1, <1>2, <2>1, <2>2 DEF Requests, Screens, FormsTypeOK
  <2>. QED
    BY <2>2 DEF Screens
<1>5. Account'
  <2>1. ASSUME NEW q \in net, PersistApplication(q)
        PROVE  Account'
    BY <2>1 DEF PersistApplication, Account, db
  <2>2. ASSUME NEW q \in net, PersistHost(q)
        PROVE  UNCHANGED <<account, open, filed>>
    BY <2>2 DEF PersistHost, db
  <2>3. CASE DecideApplication
    BY <2>3 DEF DecideApplication, Account
  <2>4. CASE UNCHANGED <<account, open, filed>>
    BY <2>4 DEF Account
  <2>5. ASSUME NEW t \in Tab,
               \/ PatchForm(t) \/ Accept(t) \/ HandleContinue(t) \/ HandleBack(t)
               \/ HandleSubmit(t) \/ ConnectionLost(t)
        PROVE  UNCHANGED <<account, open, filed>>
    BY <2>5 DEF PatchForm, Accept, HandleContinue, HandleBack, HandleSubmit, ConnectionLost,
       Show, db
  <2>6. ASSUME NEW q \in net,
               Submit(q) \/ PersistFails(q) \/ SendConfirmation(q) \/ ShowResult(q)
        PROVE  UNCHANGED <<account, open, filed>>
    BY <2>6 DEF Submit, PersistFails, SendConfirmation, ShowResult, db
  <2>. QED
    BY <2>1, <2>2, <2>3, <2>4, <2>5, <2>6
    DEF FormsNext, GetSignInHint, Restart, Tick, formsVars, db
<1>. QED
  BY <1>3, <1>4, <1>5 DEF AnswersTrue, Requests, Screens, Account

-----------------------------------------------------------------------------
\* The invariant holds before the first form is posted.
LEMMA FormsInitInv == FormsInit => FormsInv
<1> SUFFICES ASSUME FormsInit
             PROVE  FormsInv
  OBVIOUS
<1>1. FormsTypeOK
  <2>1. <<>> \in Seq(0..MaxNow) /\ NoBucket \in [count : Nat, resetAt : Nat]
    BY DEF NoBucket
  <2>2. bucket \in [Key -> [count : Nat, resetAt : Nat]] /\ passed \in [Key -> Seq(0..MaxNow)]
    BY <2>1 DEF FormsInit
  <2>3. tab \in [Tab -> [step : 1..3, profile : Profile, accepted : BOOLEAN,
                         at : {"edit", "pending", "done"}, posts : 0..MaxPosts]]
    BY PublicFormsAssumption DEF FormsInit, Profile
  <2>4. mails \in [Form -> Nat] /\ rows \in [Form -> Nat]
    BY DEF FormsInit
  <2>. QED
    <3>1. /\ form \in [Tab -> Form] /\ net = {} /\ filed = <<>> /\ now = 0
          /\ account \in {"none", "pending_access", "active"}
          /\ open \in BOOLEAN /\ host \in BOOLEAN
      BY DEF FormsInit
    <3>2. 0 \in 0..MaxNow
      BY PublicFormsAssumption
    <3>. QED
      BY <2>1, <2>2, <2>3, <2>4, <3>1, <3>2 DEF FormsTypeOK
<1>2. AllPaced
  BY PublicFormsAssumption DEF FormsInit, AllPaced, Paced, NoBucket
<1>3. Tracked(bucket) = {}
  BY DEF FormsInit, Tracked, NoBucket
<1>4. MapBounded
  BY <1>3, FS_EmptySet, PublicFormsAssumption DEF MapBounded
<1>5. \A f \in Form : Mailing(f) = {}
  BY DEF FormsInit, Mailing
<1>6. RowsCoverMails
  <2>1. \A f \in Form : mails[f] = 0 /\ rows[f] = 0 /\ Cardinality(Mailing(f)) = 0
    BY <1>5, FS_EmptySet DEF FormsInit
  <2>2. IsFiniteSet(net)
    BY FS_EmptySet DEF FormsInit
  <2>3. "host" \in Form
    BY DEF Form
  <2>. QED
    BY <2>1, <2>2, <2>3 DEF RowsCoverMails
<1>7. AnswersTrue
  BY DEF FormsInit, AnswersTrue
<1>. QED
  BY <1>1, <1>2, <1>4, <1>6, <1>7 DEF FormsInv

\* The inductive invariant of the public forms: types, the pace of every key
\* and the cap of the map, rows for confirmations, and true answers.
THEOREM FormsInductive == FormsSpec => []FormsInv
<1>1. FormsInv /\ [FormsNext]_formsVars => FormsInv'
  BY FormsTypeStep, ThrottleStep, RowsStep, AnswersStep DEF FormsInv
<1>. QED
  BY FormsInitInv, <1>1, PTL DEF FormsSpec

\* Type correctness of the public forms.
THEOREM FormsTyped == FormsSpec => []FormsTypeOK
<1>1. FormsInv => FormsTypeOK
  BY DEF FormsInv
<1>. QED
  BY FormsInductive, <1>1, PTL

\* ipThrottleAllows: no hour, wherever it begins, has twice the allowance of
\* any key, and the map never exceeds its cap, for every allowance, window,
\* cap and number of addresses.
THEOREM ThrottleHolds == FormsSpec => []ThrottleBound
<1>1. FormsInv => ThrottleBound
  <2> SUFFICES ASSUME FormsInv
               PROVE  ThrottleBound
    OBVIOUS
  <2>1. ASSUME NEW k \in Key, NEW i \in DOMAIN passed[k]
        PROVE  Cardinality({j \in i..Len(passed[k]) : passed[k][j] < passed[k][i] + Window})
                 <= 2 * MaxPerWindow - 1
    <3>1. passed[k] \in Times /\ Paced(passed[k], bucket[k], now)
      BY DEF FormsInv, FormsTypeOK, AllPaced, Times
    <3>. QED
      BY <3>1, PacedBound
  <2>. QED
    BY <2>1 DEF ThrottleBound, FormsInv, MapBounded
<1>. QED
  BY FormsInductive, <1>1, PTL

\* Retries, lost connections and overlapping posts of any number of tabs never
\* send a second confirmation for a row, nor insert a second host enquiry.
THEOREM OneConfirmation == FormsSpec => []ConfirmedOnce
<1>1. FormsInv => ConfirmedOnce
  <2> SUFFICES ASSUME FormsInv
               PROVE  ConfirmedOnce
    OBVIOUS
  <2>1. ASSUME NEW f \in Form
        PROVE  mails[f] <= rows[f]
    <3>1. /\ mails[f] \in Nat /\ rows[f] \in Nat /\ Cardinality(Mailing(f)) \in Nat
          /\ mails[f] + Cardinality(Mailing(f)) <= rows[f]
      BY MailingCounts DEF FormsInv, FormsTypeOK, RowsCoverMails
    <3>. QED
      BY <3>1
  <2>. QED
    BY <2>1 DEF ConfirmedOnce, FormsInv, RowsCoverMails
<1>. QED
  BY FormsInductive, <1>1, PTL

\* A tab that shows the details as received is right, also when the answer
\* was that of the cap, of a repetition or of an earlier post.
THEOREM ReceivedIsTrue == FormsSpec => []ReceivedIsOnFile
<1>1. FormsInv => ReceivedIsOnFile
  BY DEF FormsInv, AnswersTrue, OnFile, ReceivedIsOnFile
<1>. QED
  BY FormsInductive, <1>1, PTL

=============================================================================
