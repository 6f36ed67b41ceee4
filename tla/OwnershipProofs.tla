---------------------------- MODULE OwnershipProofs ----------------------------
(***************************************************************************)
(* Proofs about Ownership, for any staff, leads, investors and number of   *)
(* concurrent transactions.                                                *)
(***************************************************************************)
EXTENDS Ownership, TLAPS

WantType == [row : Row, mode : Mode, at : Int]
ReqType ==
    [op : Op, stage : Stage, by : Staff \cup {Super}, leads : SUBSET Lead,
     x : Row \cup {None}, y : Row \cup {None}, keep : BOOLEAN,
     want : SUBSET WantType, seen : [Lead -> Owner]]

MoveOp == {"demoteAgent", "demoteIb", "transfer"}

\* What x and y are, by operation.
Shape(q) ==
    /\ q.op \in {"toAgent", "toIb"} => q.y \in Staff
    /\ q.op = "assignInvestor" => q.x \in Investor /\ q.y \in Staff \cup {None}
    /\ q.op = "demoteAgent" => q.x \in Staff /\ q.y \in Staff \cup {None}
    /\ q.op \in {"demoteIb", "transfer"} => q.x \in Staff /\ q.y \in Staff
    /\ q.op = "promoteAgent" => q.x \in AsAgent /\ q.y \in Staff
    /\ q.op = "promoteIb" => q.x \in AsIb /\ q.y = None
    /\ q.op \in {"link", "convert"} => q.x \in Investor /\ q.y \in Lead

Typed == TypeOK /\ \A r \in Request : Shape(req[r])

-----------------------------------------------------------------------------
(* Types                                                                    *)

LEMMA NobodyType == Nobody \in Owner
BY DEF Nobody, Owner

LEMMA IdleType == Idle \in ReqType
BY NobodyType DEF Idle, ReqType, Op, Stage, Super

\* Rows are numbers other than None.
LEMMA RowsAreNumbers == \A s \in Row : s \in Int /\ s # None
BY OwnershipAssumption DEF None

LEMMA WantTyped ==
    ASSUME NEW row \in Row, NEW mode \in Mode, NEW at \in Int
    PROVE  Want(row, mode, at) \in WantType
BY DEF Want, WantType

LEMMA InIdOrderType ==
    ASSUME NEW rs \in SUBSET Row, NEW mode \in Mode
    PROVE  InIdOrder(rs, mode) \in SUBSET WantType
BY RowsAreNumbers DEF InIdOrder, Want, WantType

LEMMA RefsType ==
    ASSUME NEW rs \in SUBSET (Row \cup {None}), NEW at \in Int
    PROVE  Refs(rs, at) \in SUBSET WantType
BY DEF Refs, Want, WantType, Mode

LEMMA ReqTyped == TypeOK => req \in [Request -> ReqType]
BY DEF TypeOK, ReqType, WantType

LEMMA BeginType ==
    ASSUME Typed, NEW r \in Request, NEW new \in ReqType, Shape(new), Begin(r, new)
    PROVE  Typed'
<1>1. begun' \in 0..MaxBegun
  BY OwnershipAssumption DEF Begin, Typed, TypeOK
<1>2. req' \in [Request -> ReqType]
  BY ReqTyped DEF Begin, Typed
<1>3. \A p \in Request : Shape(req'[p])
  BY ReqTyped DEF Begin, Typed
<1>4. TypeOK'
  BY <1>1, <1>2 DEF Begin, Typed, TypeOK, ReqType, WantType, rows
<1> QED
  BY <1>3, <1>4 DEF Typed

\* A step that keeps the operation and its rows.
LEMMA StageType ==
    ASSUME Typed, NEW r \in Request, NEW q \in ReqType,
           q.op = req[r].op, q.x = req[r].x, q.y = req[r].y \/ Shape(q),
           req' = [req EXCEPT ![r] = q],
           UNCHANGED <<rows, begun, locks>>
    PROVE  Typed'
<1>1. Shape(q)
  BY DEF Typed, Shape
<1>2. req' \in [Request -> ReqType] /\ \A p \in Request : Shape(req'[p])
  BY <1>1, ReqTyped DEF Typed
<1>3. TypeOK'
  BY <1>2 DEF Typed, TypeOK, ReqType, WantType, rows
<1> QED
  BY <1>2, <1>3 DEF Typed

LEMMA GoOnType ==
    ASSUME Typed, NEW r \in Request, NEW stage \in Stage, NEW want \in SUBSET WantType,
           GoOn(r, stage, want)
    PROVE  Typed'
<1> DEFINE q == [req[r] EXCEPT !.stage = stage, !.want = want]
<1>1. req[r] \in ReqType
  BY ReqTyped DEF Typed
<1>2. q \in ReqType /\ q.op = req[r].op /\ q.x = req[r].x /\ q.y = req[r].y
  BY <1>1 DEF ReqType
<1>3. req' = [req EXCEPT ![r] = q]
  BY ReqTyped DEF GoOn, Typed
<1> HIDE DEF q
<1> QED
  BY <1>2, <1>3, StageType DEF GoOn

LEMMA EndType ==
    ASSUME Typed, NEW r \in Request, End(r)
    PROVE  /\ req' \in [Request -> ReqType]
           /\ locks' \subseteq [row : Row, mode : Mode, by : Request]
           /\ begun' \in 0..MaxBegun
           /\ \A p \in Request : Shape(req'[p])
<1>1. Shape(Idle)
  BY DEF Shape, Idle
<1> QED
  BY <1>1, IdleType, ReqTyped DEF End, Typed, TypeOK

LEMMA ReqFields ==
    ASSUME Typed, NEW r \in Request
    PROVE  /\ req[r] \in ReqType
           /\ Shape(req[r])
           /\ req[r].leads \subseteq Lead /\ req[r].seen \in [Lead -> Owner]
           /\ req[r].x \in Row \cup {None} /\ req[r].y \in Row \cup {None}
<1>1. req[r] \in ReqType
  BY ReqTyped DEF Typed
<1> QED
  BY <1>1 DEF ReqType, Typed

\* The owner a lead or an investor is given is one.
LEMMA NewOwnerType ==
    ASSUME Typed, NEW r \in Request, req[r].op \in LeadOp, NEW from \in Owner
    PROVE  NewOwner(r, from) \in Owner
<1>1. req[r].op \in {"toAgent", "toIb"} => req[r].y \in Staff
  BY ReqFields DEF Shape
<1>2. staff \in [Staff -> Profile]
  BY DEF Typed, TypeOK
<1>3. CASE req[r].op = "toAgent"
  BY <1>1, <1>2, <1>3 DEF NewOwner, Owner, Profile
<1>4. CASE req[r].op = "toIb"
  BY <1>1, <1>4 DEF NewOwner, Owner
<1>5. CASE req[r].op = "removeAgent"
  BY <1>5 DEF NewOwner, Owner
<1>6. CASE req[r].op = "removeAll"
  BY <1>6, NobodyType DEF NewOwner
<1> QED
  BY <1>3, <1>4, <1>5, <1>6 DEF LeadOp

LEMMA HandoverType ==
    ASSUME Typed, NEW r \in Request, req[r].op \in MoveOp, NEW from \in Owner
    PROVE  Handover(r, from) \in Owner
<1>1. /\ req[r].op = "demoteAgent" => req[r].x \in Staff /\ req[r].y \in Staff \cup {None}
      /\ req[r].op \in {"demoteIb", "transfer"} => req[r].x \in Staff /\ req[r].y \in Staff
  BY ReqFields DEF Shape
<1>2. staff \in [Staff -> Profile]
  BY DEF Typed, TypeOK
<1>3. CASE req[r].op = "demoteAgent" /\ req[r].y # None
  BY <1>1, <1>2, <1>3 DEF Handover, Owner, Profile
<1>4. CASE req[r].op = "demoteAgent" /\ req[r].y = None
  BY <1>4, NobodyType DEF Handover, Owner
<1>5. CASE req[r].op = "transfer"
  BY <1>1, <1>5 DEF Handover, Owner
<1>6. CASE req[r].op = "demoteIb"
  BY <1>1, <1>6 DEF Handover, Owner
<1> QED
  BY <1>3, <1>4, <1>5, <1>6 DEF MoveOp

\* Requests that begin.
LEMMA BeginTypes ==
    ASSUME Typed, NEW r \in Request,
           \/ AssignLeads(r) \/ AssignInvestor(r) \/ DemoteAgent(r) \/ TransferAgent(r)
           \/ DemoteIb(r) \/ Promote(r) \/ LinkLead(r) \/ ConvertLead(r)
    PROVE  Typed'
<1> USE OwnershipAssumption
<1>1. /\ AgentIds \subseteq Staff /\ IbIds \subseteq Staff /\ Staff \subseteq Row
      /\ Lead \subseteq Row /\ Investor \subseteq Row
      /\ Idle \in ReqType /\ owner \in [Lead -> Owner]
  BY IdleType DEF AgentIds, IbIds, Row, Typed, TypeOK
<1>2. CASE AssignLeads(r)
  <2>1. PICK op \in LeadOp, ls \in {{l} : l \in Lead} \cup {Lead}, y \in Staff \cup {None},
             by \in {Super} \cup {s \in Staff : ActiveIb(s)} :
          /\ y \in CASE op = "toAgent" -> AgentIds [] op = "toIb" -> IbIds [] OTHER -> {None}
          /\ Begin(r, [Idle EXCEPT !.op = op, !.by = by, !.leads = ls, !.y = y,
                                   !.stage = "leads", !.want = InIdOrder(ls, "update")])
    BY <1>2 DEF AssignLeads
  <2> DEFINE new == [Idle EXCEPT !.op = op, !.by = by, !.leads = ls, !.y = y,
                                 !.stage = "leads", !.want = InIdOrder(ls, "update")]
  <2>2. ls \in SUBSET Lead
    OBVIOUS
  <2>3. InIdOrder(ls, "update") \in SUBSET WantType
    BY <1>1, <2>2, InIdOrderType DEF Mode
  <2>4. op \in Op /\ "leads" \in Stage /\ by \in Staff \cup {Super} /\ y \in Row \cup {None}
    BY <1>1 DEF Op, Stage
  <2>5. new \in ReqType
    BY <1>1, <2>2, <2>3, <2>4 DEF ReqType, Idle
  <2>6. Shape(new)
    BY <1>1, <2>1 DEF Shape, Idle, LeadOp
  <2> HIDE DEF new
  <2> QED
    BY <2>1, <2>5, <2>6, BeginType DEF new
<1>3. CASE AssignInvestor(r)
  <2>1. PICK i \in here, a \in AgentIds \cup {None} :
          Begin(r, [Idle EXCEPT !.op = "assignInvestor", !.x = i, !.y = a,
                                !.stage = "leads", !.want = {Want(i, "update", 0)}])
    BY <1>3 DEF AssignInvestor
  <2> DEFINE w == {Want(i, "update", 0)}
             new == [Idle EXCEPT !.op = "assignInvestor", !.x = i, !.y = a,
                                !.stage = "leads", !.want = w]
  <2>2. i \in Investor
    BY DEF Typed, TypeOK
  <2>3. w \in SUBSET WantType
    BY <1>1, <2>2, WantTyped DEF Mode
  <2> HIDE DEF w
  <2>4. new \in ReqType
    BY <1>1, <2>2, <2>3 DEF ReqType, Op, Stage, Idle
  <2>5. Shape(new)
    BY <1>1, <2>2 DEF Shape, Idle
  <2> HIDE DEF new
  <2> QED
    BY <2>1, <2>4, <2>5, BeginType DEF new, w
<1>4. CASE DemoteAgent(r)
  <2>1. PICK x \in AgentIds, y \in AgentIds \cup {None}, keep \in BOOLEAN :
          Begin(r, [Idle EXCEPT !.op = "demoteAgent", !.x = x, !.y = y, !.keep = keep,
                      !.stage = "leads",
                      !.want = InIdOrder({l \in Lead : owner[l].agent = x}, "update")])
    BY <1>4 DEF DemoteAgent
  <2> DEFINE w == InIdOrder({l \in Lead : owner[l].agent = x}, "update")
             new == [Idle EXCEPT !.op = "demoteAgent", !.x = x, !.y = y, !.keep = keep,
                      !.stage = "leads", !.want = w]
  <2>2. w \in SUBSET WantType
    BY <1>1, InIdOrderType DEF Mode
  <2> HIDE DEF w
  <2>3. new \in ReqType
    BY <1>1, <2>2 DEF ReqType, Op, Stage, Idle
  <2>4. Shape(new)
    BY <1>1 DEF Shape, Idle
  <2> HIDE DEF new
  <2> QED
    BY <2>1, <2>3, <2>4, BeginType DEF new, w
<1>5. CASE TransferAgent(r)
  <2>1. PICK x \in AgentIds, y \in IbIds, keep \in BOOLEAN :
          Begin(r, [Idle EXCEPT !.op = "transfer", !.x = x, !.y = y, !.keep = keep,
                      !.stage = "leads",
                      !.want = InIdOrder({l \in Lead : owner[l].agent = x}, "update")])
    BY <1>5 DEF TransferAgent
  <2> DEFINE w == InIdOrder({l \in Lead : owner[l].agent = x}, "update")
             new == [Idle EXCEPT !.op = "transfer", !.x = x, !.y = y, !.keep = keep,
                      !.stage = "leads", !.want = w]
  <2>2. w \in SUBSET WantType
    BY <1>1, InIdOrderType DEF Mode
  <2> HIDE DEF w
  <2>3. new \in ReqType
    BY <1>1, <2>2 DEF ReqType, Op, Stage, Idle
  <2>4. Shape(new)
    BY <1>1 DEF Shape, Idle
  <2> HIDE DEF new
  <2> QED
    BY <2>1, <2>3, <2>4, BeginType DEF new, w
<1>6. CASE DemoteIb(r)
  <2>1. PICK x \in IbIds, y \in IbIds :
          Begin(r, [Idle EXCEPT !.op = "demoteIb", !.x = x, !.y = y, !.stage = "leads",
                      !.want = InIdOrder({l \in Lead : owner[l].ib = x}, "update")])
    BY <1>6 DEF DemoteIb
  <2> DEFINE w == InIdOrder({l \in Lead : owner[l].ib = x}, "update")
             new == [Idle EXCEPT !.op = "demoteIb", !.x = x, !.y = y, !.stage = "leads",
                      !.want = w]
  <2>2. w \in SUBSET WantType
    BY <1>1, InIdOrderType DEF Mode
  <2> HIDE DEF w
  <2>3. new \in ReqType
    BY <1>1, <2>2 DEF ReqType, Op, Stage, Idle
  <2>4. Shape(new)
    BY <1>1 DEF Shape, Idle
  <2> HIDE DEF new
  <2> QED
    BY <2>1, <2>3, <2>4, BeginType DEF new, w
<1>7. CASE Promote(r)
  <2>1. ASSUME NEW e \in AsAgent, NEW p \in IbIds,
               Begin(r, [Idle EXCEPT !.op = "promoteAgent", !.x = e, !.y = p, !.stage = "write",
                           !.want = {Want(e, "nokey", 0)} \cup Refs({p}, 1)])
        PROVE  Typed'
    <3> DEFINE w == {Want(e, "nokey", 0)} \cup Refs({p}, 1)
               new == [Idle EXCEPT !.op = "promoteAgent", !.x = e, !.y = p, !.stage = "write",
                           !.want = w]
    <3>1. Refs({p}, 1) \in SUBSET WantType
      BY <1>1, RefsType
    <3>2. e \in Row /\ "nokey" \in Mode
      BY <1>1 DEF Mode
    <3>3. Want(e, "nokey", 0) \in WantType
      BY <3>2, WantTyped
    <3>4. w \in SUBSET WantType
      BY <3>1, <3>3
    <3> HIDE DEF w
    <3>5. new \in ReqType
      BY <1>1, <3>4 DEF ReqType, Op, Stage, Idle
    <3>6. Shape(new)
      BY <1>1 DEF Shape, Idle
    <3> HIDE DEF new
    <3> QED
      BY <2>1, <3>5, <3>6, BeginType DEF new, w
  <2>2. ASSUME NEW e \in AsIb,
               Begin(r, [Idle EXCEPT !.op = "promoteIb", !.x = e, !.stage = "write",
                           !.want = {Want(e, "nokey", 0)}])
        PROVE  Typed'
    <3> DEFINE w == {Want(e, "nokey", 0)}
               new == [Idle EXCEPT !.op = "promoteIb", !.x = e, !.stage = "write", !.want = w]
    <3>1. w \in SUBSET WantType
      BY <1>1, WantTyped DEF Mode
    <3> HIDE DEF w
    <3>2. new \in ReqType
      BY <1>1, <3>1 DEF ReqType, Op, Stage, Idle
    <3>3. Shape(new)
      BY <1>1 DEF Shape, Idle
    <3> HIDE DEF new
    <3> QED
      BY <2>2, <3>2, <3>3, BeginType DEF new, w
  <2> QED
    BY <1>7, <2>1, <2>2 DEF Promote
<1>8. CASE LinkLead(r)
  <2>1. PICK i \in here, found \in SUBSET Lead, l \in Lead :
          Begin(r, [Idle EXCEPT !.op = "link", !.x = i, !.y = l, !.leads = found,
                      !.seen = owner, !.stage = "leads",
                      !.want = {Want(l, "nokey", 0)} \cup Refs({i}, 1)])
    BY <1>8 DEF LinkLead, Preferred
  <2> DEFINE w == {Want(l, "nokey", 0)} \cup Refs({i}, 1)
             new == [Idle EXCEPT !.op = "link", !.x = i, !.y = l, !.leads = found,
                      !.seen = owner, !.stage = "leads", !.want = w]
  <2>2. i \in Investor
    BY DEF Typed, TypeOK
  <2>3. Refs({i}, 1) \in SUBSET WantType
    BY <1>1, <2>2, RefsType
  <2>4. w \in SUBSET WantType
    <3>1. l \in Row /\ "nokey" \in Mode
      BY <1>1 DEF Mode
    <3>2. Want(l, "nokey", 0) \in WantType
      BY <3>1, WantTyped
    <3> QED
      BY <2>3, <3>2
  <2> HIDE DEF w
  <2>5. new \in ReqType
    BY <1>1, <2>2, <2>4 DEF ReqType, Op, Stage, Idle
  <2>6. Shape(new)
    BY <1>1, <2>2 DEF Shape, Idle
  <2> HIDE DEF new
  <2> QED
    BY <2>1, <2>5, <2>6, BeginType DEF new, w
<1>9. CASE ConvertLead(r)
  <2> DEFINE w(l) == IF PersonOf[l] \in here
                     THEN {Want(l, "nokey", 1)} \cup Refs({PersonOf[l]}, 2)
                     ELSE {Want(PersonOf[l], "nokey", 0), Want(l, "nokey", 2)}
                            \cup Refs({owner[l].ib, owner[l].agent}, 1)
             new(l) == [Idle EXCEPT !.op = "convert", !.x = PersonOf[l], !.y = l,
                          !.keep = PersonOf[l] \in here, !.seen = owner, !.stage = "write",
                          !.want = w(l)]
  <2>1. PICK l \in Lead : Begin(r, new(l))
    BY <1>9 DEF ConvertLead
  <2>2. /\ PersonOf[l] \in Investor
        /\ {owner[l].ib, owner[l].agent} \in SUBSET (Row \cup {None})
    <3>1. owner[l] \in Owner
      BY <1>1
    <3>2. owner[l].ib \in Staff \cup {None} /\ owner[l].agent \in Staff \cup {None}
      BY <3>1 DEF Owner
    <3>3. PersonOf[l] \in Investor
      BY DEF OwnershipAssumption
    <3> QED
      BY <1>1, <3>2, <3>3
  <2>3. Refs({PersonOf[l]}, 2) \in SUBSET WantType
    BY <1>1, <2>2, RefsType
  <2>4. Refs({owner[l].ib, owner[l].agent}, 1) \in SUBSET WantType
    BY <2>2, RefsType
  <2>5. w(l) \in SUBSET WantType
    <3>1. PersonOf[l] \in Row /\ l \in Row /\ "nokey" \in Mode
      BY <1>1, <2>2 DEF Mode
    <3>2. Want(l, "nokey", 1) \in WantType
      BY <3>1, WantTyped
    <3>3. Want(l, "nokey", 2) \in WantType
      BY <3>1, WantTyped
    <3>4. Want(PersonOf[l], "nokey", 0) \in WantType
      BY <3>1 DEF Want, WantType
    <3>5. CASE PersonOf[l] \in here
      <4>1. w(l) = {Want(l, "nokey", 1)} \cup Refs({PersonOf[l]}, 2)
        BY <3>5
      <4> QED
        BY <2>3, <3>2, <4>1
    <3>6. CASE PersonOf[l] \notin here
      <4>1. w(l) = {Want(PersonOf[l], "nokey", 0), Want(l, "nokey", 2)}
                     \cup Refs({owner[l].ib, owner[l].agent}, 1)
        BY <3>6
      <4>2. {Want(PersonOf[l], "nokey", 0), Want(l, "nokey", 2)} \in SUBSET WantType
        BY <3>3, <3>4
      <4> QED
        BY <2>4, <4>1, <4>2
    <3> QED
      BY <3>5, <3>6
  <2> HIDE DEF w
  <2>6. new(l) \in ReqType
    <3>1. (PersonOf[l] \in here) \in BOOLEAN
      OBVIOUS
    <3> QED
      BY <1>1, <2>2, <2>5, <3>1 DEF ReqType, Op, Stage, Idle
  <2>7. Shape(new(l))
    BY <1>1, <2>2 DEF Shape, Idle
  <2> HIDE DEF new
  <2> QED
    BY <2>1, <2>6, <2>7, BeginType
<1> QED
  BY <1>2, <1>3, <1>4, <1>5, <1>6, <1>7, <1>8, <1>9

LEMMA OwnerFields ==
    ASSUME NEW o \in Owner
    PROVE  o.ib \in Row \cup {None} /\ o.agent \in Row \cup {None}
BY DEF Owner, Row

LEMMA WriteLocksType ==
    ASSUME Typed, NEW r \in Request, req[r].op \in LeadOp
    PROVE  WriteLocks(r) \in SUBSET WantType
<1> DEFINE L(l) == Refs({NewOwner(r, owner[l]).ib, owner[l].ib, owner[l].agent}, 2 * l)
                     \cup (IF linked[l] = None THEN {} ELSE {Want(linked[l], "update", 2 * l + 1)})
<1>1. ASSUME NEW l \in Lead PROVE L(l) \in SUBSET WantType
  <2>1. l \in Int /\ 2 * l \in Int /\ 2 * l + 1 \in Int
    BY RowsAreNumbers DEF Row
  <2>2. owner[l] \in Owner /\ linked[l] \in Investor \cup {None}
    BY DEF Typed, TypeOK
  <2>3. NewOwner(r, owner[l]) \in Owner
    BY <2>2, NewOwnerType
  <2>4. {NewOwner(r, owner[l]).ib, owner[l].ib, owner[l].agent} \in SUBSET (Row \cup {None})
    BY <2>2, <2>3, OwnerFields
  <2>5. Refs({NewOwner(r, owner[l]).ib, owner[l].ib, owner[l].agent}, 2 * l) \in SUBSET WantType
    BY <2>1, <2>4, RefsType
  <2>6. linked[l] # None => Want(linked[l], "update", 2 * l + 1) \in WantType
    BY <2>1, <2>2 DEF Want, WantType, Row, Mode
  <2> QED
    BY <2>5, <2>6
<1>2. Touched(r) \subseteq Lead
  BY ReqFields DEF Touched
<1>3. WriteLocks(r) = UNION {L(l) : l \in Touched(r)}
  BY DEF WriteLocks
<1> HIDE DEF L
<1> QED
  BY <1>1, <1>2, <1>3

LEMMA MoveLocksType ==
    ASSUME Typed, NEW r \in Request, req[r].op \in MoveOp, NEW ls \in SUBSET Lead
    PROVE  MoveLocks(r, ls) \in SUBSET WantType
<1> DEFINE L(l) == {Want(l, "nokey", 2 * l)}
             \cup Refs({owner[l].ib, owner[l].agent, Handover(r, owner[l]).ib}, 2 * l + 1)
<1>1. ASSUME NEW l \in Lead PROVE L(l) \in SUBSET WantType
  <2>1. l \in Int /\ 2 * l \in Int /\ 2 * l + 1 \in Int
    BY RowsAreNumbers DEF Row
  <2>2. owner[l] \in Owner
    BY DEF Typed, TypeOK
  <2>3. Handover(r, owner[l]) \in Owner
    BY <2>2, HandoverType
  <2>4. {owner[l].ib, owner[l].agent, Handover(r, owner[l]).ib} \in SUBSET (Row \cup {None})
    BY <2>2, <2>3, OwnerFields
  <2>5. Refs({owner[l].ib, owner[l].agent, Handover(r, owner[l]).ib}, 2 * l + 1)
          \in SUBSET WantType
    BY <2>1, <2>4, RefsType
  <2>6. Want(l, "nokey", 2 * l) \in WantType
    BY <2>1 DEF Want, WantType, Row, Mode
  <2> QED
    BY <2>5, <2>6
<1>2. MoveLocks(r, ls) = UNION {L(l) : l \in ls}
  BY DEF MoveLocks
<1> HIDE DEF L
<1> QED
  BY <1>1, <1>2

\* Steps of a transaction before its last one.
LEMMA MiddleTypes ==
    ASSUME Typed, NEW r \in Request,
           \/ LockTarget(r) \/ CheckAssignment(r) \/ LockAgent(r) \/ CheckAgent(r)
           \/ LockTeam(r) \/ LockProfiles(r) \/ RefreshLeads(r) \/ LockAgents(r)
           \/ LockInvestors(r) \/ NextCandidate(r) \/ LinkTaken(r)
    PROVE  Typed'
<1> USE OwnershipAssumption
<1>1. /\ req[r] \in ReqType /\ Shape(req[r]) /\ req[r].leads \subseteq Lead
      /\ req[r].seen \in [Lead -> Owner] /\ owner \in [Lead -> Owner]
      /\ Staff \subseteq Row /\ Lead \subseteq Row /\ Investor \subseteq Row
      /\ staff \in [Staff -> Profile] /\ book \in [Investor -> Owner] /\ here \subseteq Investor
      /\ req \in [Request -> ReqType]
  BY ReqFields, ReqTyped DEF Row, Typed, TypeOK
<1>2. {"leads", "team", "staff", "move", "agents", "investors", "write"} \subseteq Stage
  BY DEF Stage
<1>3. CASE LockTarget(r)
  <2>1. req[r].y \in Row /\ "update" \in Mode
    BY <1>1, <1>3 DEF LockTarget, At, Shape, Mode
  <2>2. {Want(req[r].y, "update", 0)} \in SUBSET WantType
    BY <2>1 DEF Want, WantType
  <2> QED
    BY <1>2, <1>3, <2>2, GoOnType DEF LockTarget
<1>4. CASE CheckAssignment(r)
  <2> DEFINE w == WriteLocks(r)
             q == [req[r] EXCEPT !.stage = "write", !.want = w, !.seen = owner]
  <2>1. w \in SUBSET WantType
    BY <1>4, WriteLocksType DEF CheckAssignment, At, LeadOp
  <2>2. req' = [req EXCEPT ![r] = q]
    BY <1>1, <1>4 DEF CheckAssignment
  <2> HIDE DEF w
  <2>3. q \in ReqType /\ q.op = req[r].op /\ q.x = req[r].x /\ q.y = req[r].y
    BY <1>1, <1>2, <2>1 DEF ReqType
  <2> HIDE DEF q
  <2> QED
    BY <1>4, <2>2, <2>3, StageType DEF CheckAssignment
<1>5. CASE LockAgent(r)
  <2>1. req[r].y # None => req[r].y \in Row /\ "share" \in Mode
    BY <1>1, <1>5 DEF LockAgent, At, Shape, Mode
  <2>2. (IF req[r].y = None THEN {} ELSE {Want(req[r].y, "share", 0)}) \in SUBSET WantType
    BY <2>1 DEF Want, WantType
  <2> QED
    BY <1>2, <1>5, <2>2, GoOnType DEF LockAgent
<1>6. CASE CheckAgent(r)
  <2> DEFINE a == req[r].y
             w == IF a = None THEN {} ELSE Refs({staff[a].ib}, 0)
  <2>1. a # None => a \in Staff
    BY <1>1, <1>6 DEF CheckAgent, At, Shape
  <2>2. a # None => {staff[a].ib} \in SUBSET (Row \cup {None})
    BY <1>1, <2>1 DEF Profile
  <2>3. w \in SUBSET WantType
    BY <2>2, RefsType
  <2>4. GoOn(r, "write", w)
    BY <1>6 DEF CheckAgent
  <2> HIDE DEF w
  <2> QED
    BY <1>2, <2>3, <2>4, GoOnType
<1>7. CASE LockTeam(r)
  <2>1. InIdOrder(Team(req[r].x), "update") \in SUBSET WantType
    BY <1>1, InIdOrderType DEF Team, Mode
  <2> QED
    BY <1>2, <1>7, <2>1, GoOnType DEF LockTeam
<1>8. CASE LockProfiles(r)
  <2>1. {req[r].x, req[r].y} \ {None} \in SUBSET Row /\ "update" \in Mode
    BY <1>1, ReqFields DEF Mode
  <2>2. InIdOrder({req[r].x, req[r].y} \ {None}, "update") \in SUBSET WantType
    BY <2>1, InIdOrderType
  <2> QED
    BY <1>2, <1>8, <2>2, GoOnType DEF LockProfiles
<1>9. CASE RefreshLeads(r)
  <2> DEFINE owned == OwnedLeads(r)
             w == MoveLocks(r, owned)
             q == [req[r] EXCEPT !.stage = "move", !.leads = owned, !.seen = owner, !.want = w]
  <2>1. owned \in SUBSET Lead
    BY DEF OwnedLeads
  <2>2. req' = [req EXCEPT ![r] = q]
    BY <1>1, <1>9 DEF RefreshLeads
  <2>3. req[r].op \in MoveOp
    BY <1>9 DEF RefreshLeads, At, MoveOp
  <2> HIDE DEF owned
  <2>4. w \in SUBSET WantType
    BY <2>1, <2>3, MoveLocksType
  <2> HIDE DEF w
  <2>5. q \in ReqType /\ q.op = req[r].op /\ q.x = req[r].x /\ q.y = req[r].y
    BY <1>1, <1>2, <2>1, <2>4 DEF ReqType
  <2> HIDE DEF q
  <2> QED
    BY <1>9, <2>2, <2>5, StageType DEF RefreshLeads
<1>10. CASE LockAgents(r)
  <2>1. InIdOrder(Team(req[r].x), "nokey") \in SUBSET WantType
    BY <1>1, InIdOrderType DEF Team, Mode
  <2> QED
    BY <1>2, <1>10, <2>1, GoOnType DEF LockAgents
<1>11. CASE LockInvestors(r)
  <2> DEFINE L(i) == {Want(i, "nokey", 2 * i)} \cup Refs({Handover(r, book[i]).ib}, 2 * i + 1)
             found == {i \in here : IF req[r].op = "demoteIb" THEN book[i].ib = req[r].x
                                    ELSE book[i].agent = req[r].x}
             w == UNION {L(i) : i \in found}
  <2>1. ASSUME NEW i \in Investor PROVE L(i) \in SUBSET WantType
    <3>1. i \in Int /\ 2 * i \in Int /\ 2 * i + 1 \in Int
      BY RowsAreNumbers DEF Row
    <3>2. req[r].op \in MoveOp
      BY <1>11 DEF LockInvestors, At, MoveOp
    <3>3. Handover(r, book[i]) \in Owner
      BY <1>1, <3>2, HandoverType
    <3>4. {Handover(r, book[i]).ib} \in SUBSET (Row \cup {None})
      BY <3>3, OwnerFields
    <3>5. Refs({Handover(r, book[i]).ib}, 2 * i + 1) \in SUBSET WantType
      BY <3>1, <3>4, RefsType
    <3>6. Want(i, "nokey", 2 * i) \in WantType
      BY <3>1 DEF Want, WantType, Row, Mode
    <3> QED
      BY <3>5, <3>6
  <2>2. GoOn(r, "investors", w)
    BY <1>11 DEF LockInvestors
  <2>3. found \subseteq Investor
    BY <1>1
  <2> HIDE DEF L, found
  <2>4. w \in SUBSET WantType
    BY <2>1, <2>3
  <2> HIDE DEF w
  <2> QED
    BY <1>2, <2>2, <2>4, GoOnType
<1>12. CASE NextCandidate(r)
  <2>1. PICK l \in req[r].leads \ {req[r].y} :
          req' = [req EXCEPT ![r].y = l, ![r].leads = @ \ {req[r].y},
                             ![r].want = {Want(l, "nokey", 0)} \cup Refs({req[r].x}, 1)]
    BY <1>12 DEF NextCandidate
  <2> DEFINE w == {Want(l, "nokey", 0)} \cup Refs({req[r].x}, 1)
             q == [req[r] EXCEPT !.y = l, !.leads = @ \ {req[r].y}, !.want = w]
  <2>2. l \in Lead
    BY <1>1
  <2>3. Refs({req[r].x}, 1) \in SUBSET WantType
    BY <1>1, ReqFields, RefsType
  <2>4. Want(l, "nokey", 0) \in WantType
    BY <1>1, <2>2 DEF Want, WantType, Mode
  <2>5. w \in SUBSET WantType
    BY <2>3, <2>4
  <2>6. req' = [req EXCEPT ![r] = q]
    BY <1>1, <2>1
  <2> HIDE DEF w
  <2>7. q \in ReqType /\ q.op = req[r].op /\ q.x = req[r].x /\ q.y = l
    BY <1>1, <2>2, <2>5 DEF ReqType
  <2>8. Shape(q)
    BY <1>1, <1>12, <2>2, <2>7 DEF Shape, NextCandidate, At
  <2> HIDE DEF q
  <2> QED
    BY <1>12, <2>6, <2>7, <2>8, StageType DEF NextCandidate
<1>13. CASE LinkTaken(r)
  <2> DEFINE seen == req[r].seen[req[r].y]
             w == IF seen.agent = None THEN {}
                  ELSE {Want(req[r].x, "nokey", 2)} \cup Refs({seen.agent, seen.ib}, 3)
  <2>1. req[r].x \in Investor /\ req[r].y \in Lead
    BY <1>1, <1>13 DEF LinkTaken, At, Shape
  <2>2. seen \in Owner
    BY <1>1, <2>1
  <2>3. {seen.agent, seen.ib} \in SUBSET (Row \cup {None})
    BY <2>2, OwnerFields
  <2>4. Refs({seen.agent, seen.ib}, 3) \in SUBSET WantType
    BY <2>3, RefsType
  <2>5. Want(req[r].x, "nokey", 2) \in WantType
    <3>1. req[r].x \in Row /\ "nokey" \in Mode
      BY <1>1, <2>1 DEF Mode
    <3> QED
      BY <3>1 DEF Want, WantType
  <2>6. w \in SUBSET WantType
    <3>1. CASE seen.agent = None
      <4>1. w = {}
        BY <3>1
      <4> QED
        BY <4>1
    <3>2. CASE seen.agent # None
      <4>1. w = {Want(req[r].x, "nokey", 2)} \cup Refs({seen.agent, seen.ib}, 3)
        BY <3>2
      <4> QED
        BY <2>4, <2>5, <4>1
    <3> QED
      BY <3>1, <3>2
  <2>7. GoOn(r, "write", w)
    BY <1>13 DEF LinkTaken
  <2> HIDE DEF w
  <2> QED
    BY <1>2, <2>6, <2>7, GoOnType
<1> QED
  BY <1>3, <1>4, <1>5, <1>6, <1>7, <1>8, <1>9, <1>10, <1>11, <1>12, <1>13

\* The last steps: the tables keep their types.
LEMMA MoveBookType ==
    ASSUME Typed, NEW r \in Request, req[r].op \in MoveOp, MoveBook(r)
    PROVE  /\ owner' \in [Lead -> Owner] /\ log' \in [Lead -> Owner]
           /\ book' \in [Investor -> Owner] /\ carried' \subseteq Investor
           /\ linked' = linked /\ here' = here
<1>1. /\ owner \in [Lead -> Owner] /\ log \in [Lead -> Owner]
      /\ book \in [Investor -> Owner] /\ carried \subseteq Investor
  BY DEF Typed, TypeOK
<1>2. req[r].seen \in [Lead -> Owner]
  BY ReqFields
<1>3. \A o \in Owner : Handover(r, o) \in Owner
  BY HandoverType
<1>4. owner' \in [Lead -> Owner]
  BY <1>1, <1>3 DEF MoveBook
<1>5. log' \in [Lead -> Owner]
  BY <1>1, <1>2, <1>3 DEF MoveBook
<1>6. book' \in [Investor -> Owner]
  BY <1>1, <1>3 DEF MoveBook
<1> QED
  BY <1>1, <1>4, <1>5, <1>6 DEF MoveBook

LEMMA WriteTypes ==
    ASSUME Typed, NEW r \in Request,
           \/ WriteAssignment(r) \/ WriteInvestor(r) \/ CommitDemotion(r) \/ CommitTransfer(r)
           \/ CommitIbDemotion(r) \/ WritePromotion(r) \/ CommitLink(r) \/ CommitConversion(r)
           \/ RequestFails(r)
    PROVE  Typed'
<1>1. /\ staff \in [Staff -> Profile] /\ owner \in [Lead -> Owner]
      /\ linked \in [Lead -> Investor \cup {None}] /\ book \in [Investor -> Owner]
      /\ here \subseteq Investor /\ log \in [Lead -> Owner] /\ carried \subseteq Investor
  BY DEF Typed, TypeOK
<1>2. Shape(req[r]) /\ req[r].seen \in [Lead -> Owner]
  BY ReqFields
<1>3. End(r)
  BY DEF WriteAssignment, WriteInvestor, CommitDemotion, CommitTransfer, CommitIbDemotion,
         WritePromotion, CommitLink, CommitConversion, RequestFails, MoveBook
<1>4. SUFFICES /\ staff' \in [Staff -> Profile] /\ owner' \in [Lead -> Owner]
               /\ linked' \in [Lead -> Investor \cup {None}] /\ book' \in [Investor -> Owner]
               /\ here' \subseteq Investor /\ log' \in [Lead -> Owner]
               /\ carried' \subseteq Investor
  BY <1>3, EndType DEF Typed, TypeOK, ReqType, WantType
<1>5. CASE WriteAssignment(r)
  <2>1. req[r].op \in LeadOp
    BY <1>5 DEF WriteAssignment, At
  <2>2. \A o \in Owner : NewOwner(r, o) \in Owner
    BY <2>1, NewOwnerType
  <2>3. owner' \in [Lead -> Owner]
    BY <1>1, <1>5, <2>2 DEF WriteAssignment
  <2>4. log' \in [Lead -> Owner]
    BY <1>1, <1>2, <1>5, <2>2 DEF WriteAssignment
  <2>5. book' \in [Investor -> Owner]
    <3> DEFINE touched == Touched(r)
               persons == {linked[l] : l \in touched} \ {None}
               LeadOf(i) == CHOOSE l \in touched : linked[l] = i
    <3>1. touched \subseteq Lead
      BY ReqFields DEF Touched
    <3>2. book' = [i \in Investor |->
                     IF i \in persons THEN NewOwner(r, owner[LeadOf(i)]) ELSE book[i]]
      BY <1>5 DEF WriteAssignment
    <3>3. ASSUME NEW i \in persons PROVE LeadOf(i) \in Lead
      BY <3>1
    <3> HIDE DEF touched, LeadOf, persons
    <3>4. ASSUME NEW i \in persons PROVE NewOwner(r, owner[LeadOf(i)]) \in Owner
      BY <1>1, <2>2, <3>3
    <3> QED
      BY <1>1, <3>2, <3>4
  <2> QED
    BY <1>1, <1>5, <2>3, <2>4, <2>5 DEF WriteAssignment
<1>6. CASE WriteInvestor(r)
  <2>1. req[r].x \in Investor /\ req[r].y \in Staff \cup {None}
    BY <1>2, <1>6 DEF WriteInvestor, At, Shape
  <2>2. (IF req[r].y = None THEN Nobody ELSE [ib |-> staff[req[r].y].ib, agent |-> req[r].y])
          \in Owner
    BY <1>1, <2>1, NobodyType DEF Owner, Profile
  <2>3. book' \in [Investor -> Owner]
    BY <1>1, <1>6, <2>2 DEF WriteInvestor
  <2> QED
    BY <1>1, <1>6, <2>3 DEF WriteInvestor
<1>7. CASE CommitDemotion(r)
  <2>1. req[r].op \in MoveOp /\ req[r].x \in Staff
    BY <1>2, <1>7 DEF CommitDemotion, At, MoveOp, Shape
  <2>2. staff' \in [Staff -> Profile]
    BY <1>1, <1>7, <2>1 DEF CommitDemotion, Profile
  <2> QED
    BY <1>1, <1>7, <2>1, <2>2, MoveBookType DEF CommitDemotion
<1>8. CASE CommitTransfer(r)
  <2>1. req[r].op \in MoveOp /\ req[r].x \in Staff /\ req[r].y \in Staff
    BY <1>2, <1>8 DEF CommitTransfer, At, MoveOp, Shape
  <2>2. staff' \in [Staff -> Profile]
    BY <1>1, <1>8, <2>1 DEF CommitTransfer, Profile
  <2> QED
    BY <1>1, <1>8, <2>1, <2>2, MoveBookType DEF CommitTransfer
<1>9. CASE CommitIbDemotion(r)
  <2>1. req[r].op \in MoveOp /\ req[r].x \in Staff /\ req[r].y \in Staff
    BY <1>2, <1>9 DEF CommitIbDemotion, At, MoveOp, Shape
  <2>2. staff' \in [Staff -> Profile]
    BY <1>1, <1>9, <2>1 DEF CommitIbDemotion, Profile
  <2>3. MoveBook(r)
    BY <1>9 DEF CommitIbDemotion
  <2> QED
    BY <1>1, <2>1, <2>2, <2>3, MoveBookType
<1>10. CASE WritePromotion(r)
  <2>1. req[r].x \in Staff /\ req[r].y \in Staff \cup {None}
    BY <1>2, <1>10, OwnershipAssumption DEF WritePromotion, At, Shape
  <2>2. staff' \in [Staff -> Profile]
    BY <1>1, <1>10, <2>1 DEF WritePromotion, Profile, Role
  <2> QED
    BY <1>1, <1>10, <2>2 DEF WritePromotion
<1>11. CASE CommitLink(r)
  <2>1. req[r].x \in Investor /\ req[r].y \in Lead
    BY <1>2, <1>11 DEF CommitLink, At, Shape
  <2>2. req[r].seen[req[r].y] \in Owner
    BY <1>2, <2>1
  <2>3. book' \in [Investor -> Owner] /\ carried' \subseteq Investor
    BY <1>1, <1>11, <2>1, <2>2 DEF CommitLink
  <2>4. linked' \in [Lead -> Investor \cup {None}]
    BY <1>1, <1>11, <2>1 DEF CommitLink
  <2> QED
    BY <1>1, <1>11, <2>3, <2>4 DEF CommitLink
<1>12. CASE CommitConversion(r)
  <2>1. req[r].x \in Investor /\ req[r].y \in Lead
    BY <1>2, <1>12 DEF CommitConversion, At, Shape
  <2>2. req[r].seen[req[r].y] \in Owner
    BY <1>2, <2>1
  <2>3. book' \in [Investor -> Owner] /\ carried' \subseteq Investor /\ here' \subseteq Investor
    BY <1>1, <1>12, <2>1, <2>2 DEF CommitConversion
  <2>4. linked' \in [Lead -> Investor \cup {None}]
    BY <1>1, <1>12, <2>1 DEF CommitConversion
  <2> QED
    BY <1>1, <1>12, <2>3, <2>4 DEF CommitConversion
<1>13. CASE RequestFails(r)
  BY <1>1, <1>13 DEF RequestFails, rows
<1> QED
  BY <1>5, <1>6, <1>7, <1>8, <1>9, <1>10, <1>11, <1>12, <1>13

LEMMA AcquireType ==
    ASSUME Typed, NEW r \in Request, Acquire(r)
    PROVE  Typed'
<1>1. req \in [Request -> ReqType]
  BY ReqTyped DEF Typed
<1>2. PICK w \in NextWants(r) :
        /\ locks' = locks \cup {[row |-> w.row, mode |-> w.mode, by |-> r]}
        /\ req' = [req EXCEPT ![r].want = @ \ {w}]
  BY DEF Acquire
<1>3. w \in WantType
  BY <1>1, <1>2 DEF NextWants, ReqType
<1>4. locks' \subseteq [row : Row, mode : Mode, by : Request]
  BY <1>2, <1>3 DEF Typed, TypeOK, WantType
<1> DEFINE q == [req[r] EXCEPT !.want = @ \ {w}]
<1>5. req' = [req EXCEPT ![r] = q]
  BY <1>1, <1>2
<1>6. q \in ReqType /\ q.op = req[r].op /\ q.x = req[r].x /\ q.y = req[r].y
  BY <1>1 DEF ReqType
<1> HIDE DEF q
<1>7. Shape(q)
  BY <1>6, ReqFields DEF Shape
<1>8. req' \in [Request -> ReqType] /\ \A p \in Request : Shape(req'[p])
  BY <1>1, <1>5, <1>6, <1>7 DEF Typed
<1> QED
  BY <1>4, <1>8 DEF Acquire, Typed, TypeOK, ReqType, WantType, rows

LEMMA InitType == Init => Typed
<1> SUFFICES ASSUME Init PROVE Typed
  OBVIOUS
<1>1. Shape(Idle)
  BY DEF Shape, Idle
<1>2. req \in [Request -> ReqType] /\ \A r \in Request : Shape(req[r])
  BY <1>1, IdleType DEF Init
<1>3. owner \in [Lead -> Owner] /\ log \in [Lead -> Owner]
  BY OwnershipAssumption DEF Init
<1>4. staff \in [Staff -> Profile] /\ begun \in 0..MaxBegun
  BY OwnershipAssumption DEF Init
<1> QED
  BY <1>2, <1>3, <1>4, NobodyType DEF Init, Typed, TypeOK, ReqType, WantType

LEMMA TypeStep ==
    ASSUME Typed, [Next]_vars
    PROVE  Typed'
<1>1. CASE UNCHANGED vars
  BY <1>1 DEF vars, rows, Typed, TypeOK
<1>2. ASSUME NEW i \in Investor, CreateInvestor(i) PROVE Typed'
  BY <1>2 DEF CreateInvestor, Typed, TypeOK
<1>3. ASSUME NEW r \in Request,
             LeadSteps(r) \/ InvestorSteps(r) \/ TeamSteps(r) \/ LinkSteps(r)
               \/ Acquire(r) \/ RequestFails(r)
      PROVE  Typed'
  BY <1>3, BeginTypes, MiddleTypes, WriteTypes, AcquireType
     DEF LeadSteps, InvestorSteps, TeamSteps, LinkSteps
<1> QED
  BY <1>1, <1>2, <1>3 DEF Next

(* Every variable has its type in every reachable state, and a transaction  *)
(* names rows of the tables its operation works on.                         *)
THEOREM TypeCorrect == Spec => []TypeOK
<1>1. Typed => TypeOK
  BY DEF Typed
<1> QED
  BY InitType, TypeStep, <1>1, PTL DEF Spec

-----------------------------------------------------------------------------
(* The invariant: which locks a transaction has or asks for at each stage,  *)
(* and what they protect from the others.                                   *)

Has(r, row, mode) == [row |-> row, mode |-> mode, by |-> r] \in locks
Asked(r, row, mode) ==
    Has(r, row, mode) \/ \E w \in req[r].want : w.row = row /\ w.mode = mode

Exclusive ==
    \A k, h \in locks : k.row = h.row /\ k.by # h.by => ~Conflict(k.mode, h.mode)

\* Assignments of leads hold the leads, and have read their owners under lock.
LeadsHeld(r) ==
    req[r].op \in LeadOp =>
      \A l \in req[r].leads :
        /\ req[r].stage = "leads" => Asked(r, l, "update")
        /\ req[r].stage \in {"staff", "write"} => Has(r, l, "update")
        /\ req[r].stage = "write" => req[r].seen[l] = owner[l]

\* They refer to the owners that they replace.
ReplacedAsked(r) ==
    req[r].op \in LeadOp /\ req[r].stage = "write" =>
      \A l \in Touched(r) : \A s \in {owner[l].ib, owner[l].agent} \ {None} :
        Asked(r, s, "keyshare")

\* The new agent has been checked under lock.
TargetHeld(r) ==
    /\ req[r].op = "toAgent" =>
         /\ req[r].stage = "staff" => Asked(r, req[r].y, "update")
         /\ req[r].stage = "write" => Has(r, req[r].y, "update") /\ ActiveAgent(req[r].y)
    /\ req[r].op = "assignInvestor" /\ req[r].y # None =>
         /\ req[r].stage = "staff" => Asked(r, req[r].y, "share")
         /\ req[r].stage = "write" => Has(r, req[r].y, "share") /\ ActiveAgent(req[r].y)

\* Demotions and transfers hold the profiles ...
Moving(r) == req[r].op \in MoveOp /\ req[r].stage \in {"move", "agents", "investors"}
ProfilesHeld(r) ==
    \A s \in {req[r].x, req[r].y} \ {None} :
      /\ req[r].op \in MoveOp /\ req[r].stage = "staff" => Asked(r, s, "update")
      /\ Moving(r) => Has(r, s, "update")

\* ... and thereby the owners of the leads that they move.
LeadsMoving(r) ==
    Moving(r) =>
      \A l \in req[r].leads :
        /\ l \in OwnedLeads(r)
        /\ req[r].seen[l] = owner[l]
        /\ \A s \in {owner[l].ib, owner[l].agent} \ {None} : Asked(r, s, "keyshare")
        /\ Asked(r, l, "nokey")
        /\ req[r].stage # "move" =>
             /\ Has(r, l, "nokey")
             /\ \A s \in {owner[l].ib, owner[l].agent} \ {None} : Has(r, s, "keyshare")

\* A demotion misses no lead, and no investor but those linking assigns.
NoneMissed(r) ==
    /\ Moving(r) /\ req[r].op = "demoteAgent" =>
         /\ OwnedLeads(r) \subseteq req[r].leads
         /\ req[r].y # None => ActiveAgent(req[r].y) /\ req[r].y # req[r].x
         /\ req[r].stage = "investors" =>
              \A i \in Investor \ carried :
                book[i].agent = req[r].x => Asked(r, i, "nokey")
    /\ Moving(r) /\ req[r].op = "demoteIb" => staff[req[r].x].role = "ib"

PromotionHeld(r) ==
    req[r].op \in {"promoteAgent", "promoteIb"} => Asked(r, req[r].x, "nokey")

\* The investor of a request exists.
InvestorHere(r) ==
    \/ req[r].op \in {"assignInvestor", "link"}
    \/ req[r].op = "convert" /\ req[r].keep
    => req[r].x \in here

ReqInv(r) ==
    /\ LeadsHeld(r) /\ ReplacedAsked(r) /\ TargetHeld(r)
    /\ ProfilesHeld(r) /\ LeadsMoving(r) /\ NoneMissed(r)
    /\ PromotionHeld(r) /\ InvestorHere(r)

NewIbsAreNoAgents == \A s \in AsIb : staff[s].role # "agent"
OnlyHereOwned ==
    /\ \A i \in Investor : i \notin here => book[i] = Nobody
    /\ \A l \in Lead : linked[l] # None => linked[l] \in here

IInv ==
    /\ Typed
    /\ Exclusive
    /\ \A r \in Request : ReqInv(r)
    /\ NewIbsAreNoAgents
    /\ OnlyHereOwned
    /\ LeadAgentsActive
    /\ StaleOwnersAreCarried
    /\ HistoryIsExact

-----------------------------------------------------------------------------
(* Stability: what the others do keeps the invariant of a transaction       *)

LEMMA ExclusiveFacts ==
    ASSUME Exclusive, NEW r \in Request, NEW p \in Request, r # p, NEW row
    PROVE  /\ Has(p, row, "update") =>
                /\ ~Has(r, row, "update") /\ ~Has(r, row, "nokey")
                /\ ~Has(r, row, "share") /\ ~Has(r, row, "keyshare")
           /\ Has(p, row, "share") => ~Has(r, row, "update") /\ ~Has(r, row, "nokey")
<1>1. ASSUME NEW m, NEW n, Has(p, row, m), Has(r, row, n) PROVE ~Conflict(m, n)
  <2> DEFINE k == [row |-> row, mode |-> m, by |-> p]
             h == [row |-> row, mode |-> n, by |-> r]
  <2>1. k \in locks /\ h \in locks /\ k.row = h.row /\ k.by # h.by
    BY <1>1 DEF Has
  <2>2. k.mode = m /\ h.mode = n
    OBVIOUS
  <2> HIDE DEF k, h
  <2> QED
    BY <2>1, <2>2 DEF Exclusive
<1>2. /\ \A n : Conflict("update", n)
      /\ Conflict("share", "update") /\ Conflict("share", "nokey")
  BY DEF Conflict
<1> QED
  BY <1>1, <1>2

\* A transaction that is over, or has not begun, promises nothing.
LEMMA IdleInv ==
    ASSUME NEW r \in Request, req'[r] = Idle
    PROVE  ReqInv(r)'
<1>1. req'[r].op = "idle"
  <2>1. Idle.op = "idle"
    BY DEF Idle
  <2> QED
    BY <2>1
<1>2. LeadsHeld(r)' /\ ReplacedAsked(r)' /\ TargetHeld(r)'
  BY <1>1 DEF LeadsHeld, ReplacedAsked, TargetHeld, LeadOp
<1>3. ~Moving(r)' /\ ProfilesHeld(r)'
  BY <1>1 DEF Moving, ProfilesHeld, MoveOp
<1>4. LeadsMoving(r)' /\ NoneMissed(r)'
  BY <1>3 DEF LeadsMoving, NoneMissed
<1>5. PromotionHeld(r)' /\ InvestorHere(r)'
  BY <1>1 DEF PromotionHeld, InvestorHere
<1> QED
  BY <1>2, <1>3, <1>4, <1>5 DEF ReqInv

\* The locks and the state of p are those of before.
Undisturbed(p) ==
    /\ req'[p] = req[p]
    /\ \A row, mode : [row |-> row, mode |-> mode, by |-> p] \in locks'
                        <=> [row |-> row, mode |-> mode, by |-> p] \in locks

LEMMA SameAsked ==
    ASSUME NEW p \in Request, Undisturbed(p)
    PROVE  \A row, mode : /\ Has(p, row, mode)' <=> Has(p, row, mode)
                          /\ Asked(p, row, mode)' <=> Asked(p, row, mode)
BY DEF Undisturbed, Has, Asked

LEMMA SameRows ==
    ASSUME NEW p \in Request, ReqInv(p), Undisturbed(p),
           staff' = staff, owner' = owner, book' = book, carried' = carried,
           here \subseteq here'
    PROVE  ReqInv(p)'
<1>1. req'[p] = req[p]
  BY DEF Undisturbed
<1>2. /\ Touched(p)' = Touched(p) /\ OwnedLeads(p)' = OwnedLeads(p)
      /\ \A s : ActiveAgent(s)' <=> ActiveAgent(s)
  BY <1>1 DEF Touched, OwnedLeads, ActiveAgent
<1>3. Moving(p)' <=> Moving(p)
  BY <1>1 DEF Moving
<1>4. LeadsHeld(p)' /\ ReplacedAsked(p)'
  BY <1>1, <1>2, SameAsked DEF ReqInv, LeadsHeld, ReplacedAsked
<1>5. TargetHeld(p)' /\ ProfilesHeld(p)'
  BY <1>1, <1>2, <1>3, SameAsked DEF ReqInv, TargetHeld, ProfilesHeld
<1>6. LeadsMoving(p)'
  BY <1>1, <1>2, <1>3, SameAsked DEF ReqInv, LeadsMoving
<1>7. NoneMissed(p)'
  BY <1>1, <1>2, <1>3, SameAsked DEF ReqInv, NoneMissed
<1>8. PromotionHeld(p)' /\ InvestorHere(p)'
  BY <1>1, SameAsked DEF ReqInv, PromotionHeld, InvestorHere
<1> QED
  BY <1>4, <1>5, <1>6, <1>7, <1>8 DEF ReqInv

\* What r changes is under its locks.
OwnersGuarded(r) ==
    \A l \in Lead : owner'[l] # owner[l] =>
      /\ Has(r, l, "update") \/ Has(r, l, "nokey")
      /\ \A s \in {owner[l].ib, owner[l].agent} \ {None} : Has(r, s, "keyshare")
      /\ owner'[l].agent \notin {None, owner[l].agent} => Has(r, owner'[l].agent, "update")

StaffGuarded(r) ==
    \A s \in Staff :
      staff'[s].role # staff[s].role \/ staff'[s].active # staff[s].active =>
        Has(r, s, "update") \/ Has(r, s, "nokey")

BookGuarded(r) ==
    \A i \in Investor \ carried' : book'[i].agent # None =>
      \/ book'[i].agent = book[i].agent /\ i \notin carried
      \/ Has(r, book'[i].agent, "update") \/ Has(r, book'[i].agent, "share")

LEMMA Stable ==
    ASSUME Typed, Exclusive, NEW r \in Request, NEW p \in Request, p # r,
           ReqInv(p), Undisturbed(p),
           OwnersGuarded(r), StaffGuarded(r), BookGuarded(r), here \subseteq here'
    PROVE  ReqInv(p)'
<1>1. /\ req'[p] = req[p] /\ Shape(req[p]) /\ req[p].leads \subseteq Lead
      /\ Staff \subseteq Row /\ Lead \subseteq Row
  BY ReqFields DEF Undisturbed, Row
<1>2. Moving(p)' <=> Moving(p)
  BY <1>1 DEF Moving
\* Under its own lock, a lead keeps its owner.
<1>3. ASSUME NEW l \in Lead, Has(p, l, "update") PROVE owner'[l] = owner[l]
  BY <1>3, ExclusiveFacts DEF OwnersGuarded
\* Under a lock on its owner, too.
<1>4. ASSUME NEW l \in Lead, NEW s \in {owner[l].ib, owner[l].agent} \ {None},
             Has(p, s, "update")
      PROVE  owner'[l] = owner[l]
  BY <1>4, ExclusiveFacts DEF OwnersGuarded
<1>5. ASSUME NEW s, Has(p, s, "update") \/ Has(p, s, "share"), ActiveAgent(s)
      PROVE  ActiveAgent(s)'
  BY <1>5, ExclusiveFacts DEF StaffGuarded, ActiveAgent
<1>6. LeadsHeld(p)'
  BY <1>1, <1>3, SameAsked DEF ReqInv, LeadsHeld
<1>7. ReplacedAsked(p)'
  <2> SUFFICES ASSUME req[p].op \in LeadOp, req[p].stage = "write", NEW l \in Touched(p)',
                      NEW s \in {owner'[l].ib, owner'[l].agent} \ {None}
               PROVE  Asked(p, s, "keyshare")'
    BY <1>1 DEF ReplacedAsked
  <2>1. l \in req[p].leads
    BY <1>1 DEF Touched
  <2>2. owner'[l] = owner[l]
    BY <1>1, <1>3, <2>1 DEF ReqInv, LeadsHeld
  <2>3. l \in Touched(p)
    BY <1>1, <2>1, <2>2 DEF Touched
  <2>4. Asked(p, s, "keyshare")
    BY <2>2, <2>3 DEF ReqInv, ReplacedAsked
  <2> QED
    BY <2>4, SameAsked
<1>8. TargetHeld(p)'
  BY <1>1, <1>5, SameAsked DEF ReqInv, TargetHeld
<1>9. ProfilesHeld(p)'
  BY <1>1, <1>2, SameAsked DEF ReqInv, ProfilesHeld
<1>10. ASSUME Moving(p) PROVE req[p].x \in Staff /\ req[p].x # None /\ Has(p, req[p].x, "update")
  <2>1. req[p].x \in Staff
    BY <1>1, <1>10 DEF Moving, MoveOp, Shape
  <2>2. req[p].x # None
    BY <1>1, <2>1, RowsAreNumbers
  <2> QED
    BY <1>10, <2>1, <2>2 DEF ReqInv, ProfilesHeld
<1>11. LeadsMoving(p)'
  <2> SUFFICES ASSUME Moving(p), NEW l \in req[p].leads
               PROVE  /\ l \in OwnedLeads(p)'
                      /\ req[p].seen[l] = owner'[l]
                      /\ \A s \in {owner'[l].ib, owner'[l].agent} \ {None} :
                           Asked(p, s, "keyshare")'
                      /\ Asked(p, l, "nokey")'
                      /\ req[p].stage # "move" =>
                           /\ Has(p, l, "nokey")'
                           /\ \A s \in {owner'[l].ib, owner'[l].agent} \ {None} :
                                Has(p, s, "keyshare")'
    BY <1>1, <1>2 DEF LeadsMoving
  <2>1. l \in Lead /\ l \in OwnedLeads(p)
    BY <1>1 DEF ReqInv, LeadsMoving
  <2>2. req[p].x \in {owner[l].ib, owner[l].agent} \ {None}
    BY <1>10, <2>1 DEF OwnedLeads
  <2>3. owner'[l] = owner[l]
    BY <1>4, <1>10, <2>1, <2>2
  <2>4. l \in OwnedLeads(p)'
    BY <1>1, <2>1, <2>3 DEF OwnedLeads
  <2> QED
    BY <2>3, <2>4, SameAsked DEF ReqInv, LeadsMoving
<1>12. NoneMissed(p)'
  <2>1. ASSUME Moving(p), req[p].op = "demoteAgent"
        PROVE  OwnedLeads(p)' \subseteq req[p].leads
    <3> SUFFICES ASSUME NEW l \in Lead, owner'[l].agent = req[p].x
                 PROVE  l \in req[p].leads
      BY <1>1, <2>1 DEF OwnedLeads
    <3>1. CASE owner[l].agent = req[p].x
      BY <2>1, <3>1 DEF OwnedLeads, ReqInv, NoneMissed
    <3>2. CASE owner[l].agent # req[p].x
      <4>1. Has(r, req[p].x, "update")
        BY <1>10, <2>1, <3>2 DEF OwnersGuarded
      <4> QED
        BY <1>10, <2>1, <4>1, ExclusiveFacts
    <3> QED
      BY <3>1, <3>2
  <2>2. ASSUME Moving(p), req[p].op = "demoteAgent", req[p].y # None
        PROVE  ActiveAgent(req[p].y)' /\ req[p].y # req[p].x
    <3>1. Has(p, req[p].y, "update")
      BY <2>2 DEF ReqInv, ProfilesHeld
    <3>2. ActiveAgent(req[p].y) /\ req[p].y # req[p].x
      BY <2>2 DEF ReqInv, NoneMissed
    <3>3. ActiveAgent(req[p].y)'
      <4>1. staff'[req[p].y].role = staff[req[p].y].role
            /\ staff'[req[p].y].active = staff[req[p].y].active
        BY <3>1, <3>2, ExclusiveFacts DEF StaffGuarded, ActiveAgent
      <4> QED
        BY <1>1, <3>2, <4>1 DEF ActiveAgent
    <3> QED
      BY <1>1, <3>2, <3>3
  <2>3. ASSUME Moving(p), req[p].op = "demoteAgent", req[p].stage = "investors",
               NEW i \in Investor \ carried', book'[i].agent = req[p].x
        PROVE  Asked(p, i, "nokey")'
    <3>1. ~Has(r, req[p].x, "update") /\ ~Has(r, req[p].x, "share")
      BY <1>10, <2>3, ExclusiveFacts
    <3>2. book[i].agent = req[p].x /\ i \notin carried
      BY <1>10, <2>3, <3>1 DEF BookGuarded
    <3> QED
      BY <2>3, <3>2, SameAsked DEF ReqInv, NoneMissed
  <2>4. ASSUME Moving(p), req[p].op = "demoteIb"
        PROVE  staff'[req[p].x].role = "ib"
    <3>1. staff'[req[p].x].role = staff[req[p].x].role
      BY <1>10, <2>4, ExclusiveFacts DEF StaffGuarded
    <3> QED
      BY <2>4, <3>1 DEF ReqInv, NoneMissed
  <2> QED
    BY <1>1, <1>2, <2>1, <2>2, <2>3, <2>4 DEF NoneMissed
<1>13. PromotionHeld(p)' /\ InvestorHere(p)'
  BY <1>1, SameAsked DEF ReqInv, PromotionHeld, InvestorHere
<1> QED
  BY <1>6, <1>7, <1>8, <1>9, <1>11, <1>12, <1>13 DEF ReqInv

-----------------------------------------------------------------------------
(* Steps before the last: a transaction keeps its own invariant             *)

LEMMA AskedHas ==
    ASSUME NEW r \in Request, req[r].want = {}, NEW row, NEW mode, Asked(r, row, mode)
    PROVE  Has(r, row, mode)
BY DEF Asked

LEMMA WantAsked ==
    ASSUME NEW r \in Request, NEW row, NEW mode, NEW at, Want(row, mode, at) \in req'[r].want
    PROVE  Asked(r, row, mode)'
BY DEF Asked, Want

\* Only some parts concern an operation.
LEMMA RelevantParts ==
    ASSUME NEW r \in Request, req'[r].op \in Op,
           req'[r].op \in LeadOp => LeadsHeld(r)' /\ ReplacedAsked(r)',
           req'[r].op \in {"toAgent", "assignInvestor"} => TargetHeld(r)',
           req'[r].op \in MoveOp => ProfilesHeld(r)' /\ LeadsMoving(r)' /\ NoneMissed(r)',
           req'[r].op \in {"promoteAgent", "promoteIb"} => PromotionHeld(r)',
           req'[r].op \in {"assignInvestor", "link", "convert"} => InvestorHere(r)'
    PROVE  ReqInv(r)'
<1>1. LeadsHeld(r)' /\ ReplacedAsked(r)'
  BY DEF LeadsHeld, ReplacedAsked
<1>2. TargetHeld(r)'
  BY DEF TargetHeld
<1>3. ProfilesHeld(r)' /\ LeadsMoving(r)' /\ NoneMissed(r)'
  BY DEF ProfilesHeld, LeadsMoving, NoneMissed, Moving
<1>4. PromotionHeld(r)' /\ InvestorHere(r)'
  BY DEF PromotionHeld, InvestorHere
<1> QED
  BY <1>1, <1>2, <1>3, <1>4 DEF ReqInv

\* The rows are unchanged, and so is everything about the others.
LEMMA OwnStep ==
    ASSUME IInv, Typed', NEW r \in Request, UNCHANGED <<rows, locks>>,
           \A p \in Request \ {r} : req'[p] = req[p],
           ReqInv(r)'
    PROVE  IInv'
<1>1. ASSUME NEW p \in Request, p # r PROVE ReqInv(p)'
  <2>1. Undisturbed(p)
    BY <1>1 DEF Undisturbed
  <2> QED
    BY <1>1, <2>1, SameRows DEF IInv, rows
<1>2. \A p \in Request : ReqInv(p)'
  BY <1>1
<1>3. Exclusive' /\ NewIbsAreNoAgents' /\ OnlyHereOwned'
  BY DEF IInv, rows, Exclusive, NewIbsAreNoAgents, OnlyHereOwned
<1>4. LeadAgentsActive' /\ StaleOwnersAreCarried' /\ HistoryIsExact'
  BY DEF IInv, rows, LeadAgentsActive, StaleOwnersAreCarried, HistoryIsExact, ActiveAgent
<1> QED
  BY <1>2, <1>3, <1>4 DEF IInv

LEMMA GoOnFields ==
    ASSUME Typed, NEW r \in Request, NEW stage, NEW want, GoOn(r, stage, want)
    PROVE  /\ req'[r].op = req[r].op /\ req'[r].stage = stage /\ req'[r].want = want
           /\ req'[r].leads = req[r].leads /\ req'[r].seen = req[r].seen
           /\ req'[r].x = req[r].x /\ req'[r].y = req[r].y /\ req'[r].keep = req[r].keep
           /\ \A p \in Request \ {r} : req'[p] = req[p]
           /\ UNCHANGED <<rows, locks>>
<1>1. req \in [Request -> ReqType]
  BY ReqTyped DEF Typed
<1>2. req[r] \in ReqType
  BY <1>1
<1> QED
  BY <1>1, <1>2 DEF GoOn, ReqType

LEMMA BeginFields ==
    ASSUME Typed, NEW r \in Request, NEW new, Begin(r, new)
    PROVE  /\ req'[r] = new
           /\ \A p \in Request \ {r} : req'[p] = req[p]
           /\ UNCHANGED <<rows, locks>>
BY ReqTyped DEF Begin, Typed

LEMMA BeginInv ==
    ASSUME IInv, NEW r \in Request,
           \/ AssignLeads(r) \/ AssignInvestor(r) \/ DemoteAgent(r) \/ TransferAgent(r)
           \/ DemoteIb(r) \/ Promote(r) \/ LinkLead(r) \/ ConvertLead(r)
    PROVE  IInv'
<1>1. Typed /\ Typed'
  BY BeginTypes DEF IInv
<1>2. req'[r].op \in Op
  BY <1>1 DEF Typed, TypeOK
<1>3. CASE AssignLeads(r)
  <2>1. PICK op \in LeadOp, ls \in {{l} : l \in Lead} \cup {Lead}, y \in Staff \cup {None},
             by \in {Super} \cup {s \in Staff : ActiveIb(s)} :
          Begin(r, [Idle EXCEPT !.op = op, !.by = by, !.leads = ls, !.y = y,
                                !.stage = "leads", !.want = InIdOrder(ls, "update")])
    BY <1>3 DEF AssignLeads
  <2> DEFINE new == [Idle EXCEPT !.op = op, !.by = by, !.leads = ls, !.y = y,
                                 !.stage = "leads", !.want = InIdOrder(ls, "update")]
  <2>2. /\ new.op = op /\ new.stage = "leads" /\ new.leads = ls
        /\ new.want = InIdOrder(ls, "update")
    BY DEF Idle
  <2> HIDE DEF new
  <2>3. /\ req'[r] = new
        /\ \A p \in Request \ {r} : req'[p] = req[p]
        /\ UNCHANGED <<rows, locks>>
    BY <1>1, <2>1, BeginFields DEF new
  <2>4. \A l \in ls : Asked(r, l, "update")'
    BY <2>2, <2>3, WantAsked DEF InIdOrder
  <2>5. LeadsHeld(r)'
    BY <2>2, <2>3, <2>4 DEF LeadsHeld
  <2>6. ReplacedAsked(r)' /\ TargetHeld(r)'
    BY <2>2, <2>3 DEF ReplacedAsked, TargetHeld
  <2>7. ReqInv(r)'
    BY <1>2, <2>2, <2>3, <2>5, <2>6, RelevantParts DEF LeadOp, MoveOp
  <2> QED
    BY <1>1, <2>3, <2>7, OwnStep
<1>4. CASE AssignInvestor(r)
  <2>1. PICK i \in here, a \in AgentIds \cup {None} :
          Begin(r, [Idle EXCEPT !.op = "assignInvestor", !.x = i, !.y = a,
                                !.stage = "leads", !.want = {Want(i, "update", 0)}])
    BY <1>4 DEF AssignInvestor
  <2> DEFINE new == [Idle EXCEPT !.op = "assignInvestor", !.x = i, !.y = a,
                                !.stage = "leads", !.want = {Want(i, "update", 0)}]
  <2>2. new.op = "assignInvestor" /\ new.stage = "leads" /\ new.x = i
    BY DEF Idle
  <2> HIDE DEF new
  <2>3. /\ req'[r] = new
        /\ \A p \in Request \ {r} : req'[p] = req[p]
        /\ UNCHANGED <<rows, locks>>
    BY <1>1, <2>1, BeginFields DEF new
  <2>4. TargetHeld(r)' /\ InvestorHere(r)'
    BY <2>2, <2>3 DEF TargetHeld, InvestorHere, rows
  <2>5. ReqInv(r)'
    BY <1>2, <2>2, <2>3, <2>4, RelevantParts DEF LeadOp, MoveOp
  <2> QED
    BY <1>1, <2>3, <2>5, OwnStep
<1>5. ASSUME NEW new, Begin(r, new), new.op \in MoveOp, new.stage = "leads" PROVE IInv'
  <2>1. /\ req'[r] = new
        /\ \A p \in Request \ {r} : req'[p] = req[p]
        /\ UNCHANGED <<rows, locks>>
    BY <1>1, <1>5, BeginFields
  <2>2. ~Moving(r)' /\ ProfilesHeld(r)'
    BY <1>5, <2>1 DEF Moving, ProfilesHeld
  <2>3. LeadsMoving(r)' /\ NoneMissed(r)'
    BY <2>2 DEF LeadsMoving, NoneMissed
  <2>4. ReqInv(r)'
    BY <1>2, <1>5, <2>1, <2>2, <2>3, RelevantParts DEF LeadOp, MoveOp
  <2> QED
    BY <1>1, <2>1, <2>4, OwnStep
<1>6. CASE DemoteAgent(r)
  <2>1. PICK x \in AgentIds, y \in AgentIds \cup {None}, keep \in BOOLEAN :
          Begin(r, [Idle EXCEPT !.op = "demoteAgent", !.x = x, !.y = y, !.keep = keep,
                      !.stage = "leads",
                      !.want = InIdOrder({l \in Lead : owner[l].agent = x}, "update")])
    BY <1>6 DEF DemoteAgent
  <2> DEFINE new == [Idle EXCEPT !.op = "demoteAgent", !.x = x, !.y = y, !.keep = keep,
                      !.stage = "leads",
                      !.want = InIdOrder({l \in Lead : owner[l].agent = x}, "update")]
  <2>2. new.op \in MoveOp /\ new.stage = "leads"
    BY DEF Idle, MoveOp
  <2> HIDE DEF new
  <2> QED
    BY <1>5, <2>1, <2>2 DEF new
<1>7. CASE TransferAgent(r)
  <2>1. PICK x \in AgentIds, y \in IbIds, keep \in BOOLEAN :
          Begin(r, [Idle EXCEPT !.op = "transfer", !.x = x, !.y = y, !.keep = keep,
                      !.stage = "leads",
                      !.want = InIdOrder({l \in Lead : owner[l].agent = x}, "update")])
    BY <1>7 DEF TransferAgent
  <2> DEFINE new == [Idle EXCEPT !.op = "transfer", !.x = x, !.y = y, !.keep = keep,
                      !.stage = "leads",
                      !.want = InIdOrder({l \in Lead : owner[l].agent = x}, "update")]
  <2>2. new.op \in MoveOp /\ new.stage = "leads"
    BY DEF Idle, MoveOp
  <2> HIDE DEF new
  <2> QED
    BY <1>5, <2>1, <2>2 DEF new
<1>8. CASE DemoteIb(r)
  <2>1. PICK x \in IbIds, y \in IbIds :
          Begin(r, [Idle EXCEPT !.op = "demoteIb", !.x = x, !.y = y, !.stage = "leads",
                      !.want = InIdOrder({l \in Lead : owner[l].ib = x}, "update")])
    BY <1>8 DEF DemoteIb
  <2> DEFINE new == [Idle EXCEPT !.op = "demoteIb", !.x = x, !.y = y, !.stage = "leads",
                      !.want = InIdOrder({l \in Lead : owner[l].ib = x}, "update")]
  <2>2. new.op \in MoveOp /\ new.stage = "leads"
    BY DEF Idle, MoveOp
  <2> HIDE DEF new
  <2> QED
    BY <1>5, <2>1, <2>2 DEF new
<1>9. ASSUME NEW new, NEW at, Begin(r, new), new.op \in {"promoteAgent", "promoteIb"},
             Want(new.x, "nokey", at) \in new.want
      PROVE  IInv'
  <2>1. /\ req'[r] = new
        /\ \A p \in Request \ {r} : req'[p] = req[p]
        /\ UNCHANGED <<rows, locks>>
    BY <1>1, <1>9, BeginFields
  <2>2. PromotionHeld(r)'
    BY <1>9, <2>1, WantAsked DEF PromotionHeld
  <2>3. ReqInv(r)'
    BY <1>2, <1>9, <2>1, <2>2, RelevantParts DEF LeadOp, MoveOp
  <2> QED
    BY <1>1, <2>1, <2>3, OwnStep
<1>10. CASE Promote(r)
  <2>1. ASSUME NEW e \in AsAgent, NEW p \in IbIds,
               Begin(r, [Idle EXCEPT !.op = "promoteAgent", !.x = e, !.y = p, !.stage = "write",
                           !.want = {Want(e, "nokey", 0)} \cup Refs({p}, 1)])
        PROVE  IInv'
    <3> DEFINE new == [Idle EXCEPT !.op = "promoteAgent", !.x = e, !.y = p, !.stage = "write",
                           !.want = {Want(e, "nokey", 0)} \cup Refs({p}, 1)]
    <3>1. new.op = "promoteAgent" /\ Want(new.x, "nokey", 0) \in new.want
      BY DEF Idle
    <3> HIDE DEF new
    <3> QED
      BY <1>9, <2>1, <3>1 DEF new
  <2>2. ASSUME NEW e \in AsIb,
               Begin(r, [Idle EXCEPT !.op = "promoteIb", !.x = e, !.stage = "write",
                           !.want = {Want(e, "nokey", 0)}])
        PROVE  IInv'
    <3> DEFINE new == [Idle EXCEPT !.op = "promoteIb", !.x = e, !.stage = "write",
                           !.want = {Want(e, "nokey", 0)}]
    <3>1. new.op = "promoteIb" /\ Want(new.x, "nokey", 0) \in new.want
      BY DEF Idle
    <3> HIDE DEF new
    <3> QED
      BY <1>9, <2>2, <3>1 DEF new
  <2> QED
    BY <1>10, <2>1, <2>2 DEF Promote
<1>11. ASSUME NEW new, Begin(r, new), new.op \in {"link", "convert"},
              new.op = "link" \/ new.keep => new.x \in here
       PROVE  IInv'
  <2>1. /\ req'[r] = new
        /\ \A p \in Request \ {r} : req'[p] = req[p]
        /\ UNCHANGED <<rows, locks>>
    BY <1>1, <1>11, BeginFields
  <2>2. InvestorHere(r)'
    BY <1>11, <2>1 DEF InvestorHere, rows
  <2>3. ReqInv(r)'
    BY <1>2, <1>11, <2>1, <2>2, RelevantParts DEF LeadOp, MoveOp
  <2> QED
    BY <1>1, <2>1, <2>3, OwnStep
<1>12. CASE LinkLead(r)
  <2>1. PICK i \in here, found \in SUBSET Lead, l \in Lead :
          Begin(r, [Idle EXCEPT !.op = "link", !.x = i, !.y = l, !.leads = found,
                      !.seen = owner, !.stage = "leads",
                      !.want = {Want(l, "nokey", 0)} \cup Refs({i}, 1)])
    BY <1>12 DEF LinkLead, Preferred
  <2> DEFINE new == [Idle EXCEPT !.op = "link", !.x = i, !.y = l, !.leads = found,
                      !.seen = owner, !.stage = "leads",
                      !.want = {Want(l, "nokey", 0)} \cup Refs({i}, 1)]
  <2>2. new.op = "link" /\ new.x \in here
    BY DEF Idle
  <2> HIDE DEF new
  <2> QED
    BY <1>11, <2>1, <2>2 DEF new
<1>13. CASE ConvertLead(r)
  <2> DEFINE w(l) == IF PersonOf[l] \in here
                     THEN {Want(l, "nokey", 1)} \cup Refs({PersonOf[l]}, 2)
                     ELSE {Want(PersonOf[l], "nokey", 0), Want(l, "nokey", 2)}
                            \cup Refs({owner[l].ib, owner[l].agent}, 1)
             new(l) == [Idle EXCEPT !.op = "convert", !.x = PersonOf[l], !.y = l,
                          !.keep = PersonOf[l] \in here, !.seen = owner, !.stage = "write",
                          !.want = w(l)]
  <2>1. PICK l \in Lead : Begin(r, new(l))
    BY <1>13 DEF ConvertLead
  <2> HIDE DEF w
  <2>2. new(l).op = "convert" /\ (new(l).keep => new(l).x \in here)
    BY DEF Idle
  <2> HIDE DEF new
  <2> QED
    BY <1>11, <2>1, <2>2
<1> QED
  BY <1>3, <1>4, <1>6, <1>7, <1>8, <1>10, <1>12, <1>13

LEMMA MiddleInv ==
    ASSUME IInv, NEW r \in Request,
           \/ LockTarget(r) \/ CheckAssignment(r) \/ LockAgent(r) \/ CheckAgent(r)
           \/ LockTeam(r) \/ LockProfiles(r) \/ RefreshLeads(r) \/ LockAgents(r)
           \/ LockInvestors(r) \/ NextCandidate(r) \/ LinkTaken(r)
    PROVE  IInv'
<1>1. /\ Typed /\ Typed' /\ ReqInv(r) /\ Shape(req[r])
      /\ req \in [Request -> ReqType] /\ req[r] \in ReqType /\ req[r].leads \subseteq Lead
  BY MiddleTypes, ReqFields, ReqTyped DEF IInv, Typed
<1>2. req'[r].op \in Op
  BY <1>1 DEF Typed, TypeOK
<1>3. CASE LockTarget(r)
  <2>1. /\ req[r].op \in {"toAgent", "toIb"} /\ req[r].stage = "leads" /\ req[r].want = {}
        /\ GoOn(r, "staff", {Want(req[r].y, "update", 0)})
    BY <1>3 DEF LockTarget, At
  <2>2. /\ req'[r].op = req[r].op /\ req'[r].stage = "staff"
        /\ req'[r].want = {Want(req[r].y, "update", 0)}
        /\ req'[r].leads = req[r].leads /\ req'[r].y = req[r].y
        /\ \A p \in Request \ {r} : req'[p] = req[p]
        /\ UNCHANGED <<rows, locks>>
    BY <1>1, <2>1, GoOnFields
  <2>3. \A l \in req[r].leads : Has(r, l, "update")
    BY <1>1, <2>1, AskedHas DEF ReqInv, LeadsHeld, LeadOp
  <2>4. LeadsHeld(r)' /\ ReplacedAsked(r)'
    BY <2>2, <2>3 DEF LeadsHeld, ReplacedAsked, Has
  <2>5. Asked(r, req[r].y, "update")'
    BY <2>2, WantAsked
  <2>6. TargetHeld(r)'
    BY <2>1, <2>2, <2>5 DEF TargetHeld
  <2>7. ReqInv(r)'
    BY <1>2, <2>1, <2>2, <2>4, <2>6, RelevantParts DEF LeadOp, MoveOp
  <2> QED
    BY <1>1, <2>2, <2>7, OwnStep
<1>4. CASE CheckAssignment(r)
  <2>1. /\ \/ req[r].op \in {"toAgent", "toIb"} /\ req[r].stage = "staff"
           \/ req[r].op \in {"removeAgent", "removeAll"} /\ req[r].stage = "leads"
        /\ req[r].want = {} /\ MayAssign(r) /\ UNCHANGED <<rows, locks>>
    BY <1>4 DEF CheckAssignment, At
  <2>2. /\ req'[r].op = req[r].op /\ req'[r].stage = "write"
        /\ req'[r].want = WriteLocks(r) /\ req'[r].seen = owner
        /\ req'[r].leads = req[r].leads /\ req'[r].y = req[r].y
        /\ \A p \in Request \ {r} : req'[p] = req[p]
    BY <1>1, <1>4 DEF CheckAssignment, ReqType
  <2>3. \A l \in req[r].leads : Has(r, l, "update")
    BY <1>1, <2>1, AskedHas DEF ReqInv, LeadsHeld, LeadOp
  <2>4. LeadsHeld(r)'
    BY <2>1, <2>2, <2>3 DEF LeadsHeld, Has, rows
  <2>5. ReplacedAsked(r)'
    <3> SUFFICES ASSUME NEW l \in Touched(r)', NEW s \in {owner'[l].ib, owner'[l].agent} \ {None}
                 PROVE  Asked(r, s, "keyshare")'
      BY DEF ReplacedAsked
    <3>1. owner' = owner /\ l \in Touched(r)
      BY <2>1, <2>2 DEF Touched, rows
    <3>2. s \in {NewOwner(r, owner[l]).ib, owner[l].ib, owner[l].agent} \ {None}
      BY <3>1
    <3>3. Want(s, "keyshare", 2 * l)
            \in Refs({NewOwner(r, owner[l]).ib, owner[l].ib, owner[l].agent}, 2 * l)
      BY <3>2 DEF Refs
    <3>4. Want(s, "keyshare", 2 * l) \in req'[r].want
      <4> DEFINE L(k) == Refs({NewOwner(r, owner[k]).ib, owner[k].ib, owner[k].agent}, 2 * k)
                           \cup (IF linked[k] = None THEN {}
                                 ELSE {Want(linked[k], "update", 2 * k + 1)})
      <4>1. WriteLocks(r) = UNION {L(k) : k \in Touched(r)}
        BY DEF WriteLocks
      <4>2. Want(s, "keyshare", 2 * l) \in L(l)
        BY <3>3
      <4> HIDE DEF L
      <4> QED
        BY <2>2, <3>1, <4>1, <4>2
    <3> QED
      BY <3>4, WantAsked
  <2>6. TargetHeld(r)'
    <3>1. ASSUME req[r].op = "toAgent"
          PROVE  Has(r, req[r].y, "update") /\ ActiveAgent(req[r].y)
      BY <1>1, <2>1, <3>1, AskedHas DEF ReqInv, TargetHeld, MayAssign
    <3> QED
      BY <2>1, <2>2, <3>1 DEF TargetHeld, Has, ActiveAgent, rows
  <2>7. ReqInv(r)'
    BY <1>2, <2>1, <2>2, <2>4, <2>5, <2>6, RelevantParts DEF LeadOp, MoveOp
  <2> QED
    BY <1>1, <2>1, <2>2, <2>7, OwnStep
<1>5. CASE LockAgent(r)
  <2> DEFINE w == IF req[r].y = None THEN {} ELSE {Want(req[r].y, "share", 0)}
  <2>1. req[r].op = "assignInvestor" /\ GoOn(r, "staff", w)
    BY <1>5 DEF LockAgent, At
  <2>2. /\ req'[r].op = req[r].op /\ req'[r].stage = "staff" /\ req'[r].want = w
        /\ req'[r].x = req[r].x /\ req'[r].y = req[r].y
        /\ \A p \in Request \ {r} : req'[p] = req[p]
        /\ UNCHANGED <<rows, locks>>
    BY <1>1, <2>1, GoOnFields
  <2>3. req[r].y # None => Asked(r, req[r].y, "share")'
    BY <2>2, WantAsked
  <2>4. TargetHeld(r)'
    BY <2>1, <2>2, <2>3 DEF TargetHeld
  <2>5. InvestorHere(r)'
    BY <1>1, <2>1, <2>2 DEF ReqInv, InvestorHere, rows
  <2>6. ReqInv(r)'
    BY <1>2, <2>1, <2>2, <2>4, <2>5, RelevantParts DEF LeadOp, MoveOp
  <2> QED
    BY <1>1, <2>2, <2>6, OwnStep
<1>6. CASE CheckAgent(r)
  <2> DEFINE w == IF req[r].y = None THEN {} ELSE Refs({staff[req[r].y].ib}, 0)
  <2>1. /\ req[r].op = "assignInvestor" /\ req[r].stage = "staff" /\ req[r].want = {}
        /\ req[r].y # None => ActiveAgent(req[r].y)
        /\ GoOn(r, "write", w)
    BY <1>6 DEF CheckAgent, At
  <2>2. /\ req'[r].op = req[r].op /\ req'[r].stage = "write"
        /\ req'[r].x = req[r].x /\ req'[r].y = req[r].y
        /\ \A p \in Request \ {r} : req'[p] = req[p]
        /\ UNCHANGED <<rows, locks>>
    BY <1>1, <2>1, GoOnFields
  <2>3. req[r].y # None => Has(r, req[r].y, "share")
    BY <1>1, <2>1, AskedHas DEF ReqInv, TargetHeld
  <2>4. TargetHeld(r)'
    BY <2>1, <2>2, <2>3 DEF TargetHeld, Has, ActiveAgent, rows
  <2>5. InvestorHere(r)'
    BY <1>1, <2>1, <2>2 DEF ReqInv, InvestorHere, rows
  <2>6. ReqInv(r)'
    BY <1>2, <2>1, <2>2, <2>4, <2>5, RelevantParts DEF LeadOp, MoveOp
  <2> QED
    BY <1>1, <2>2, <2>6, OwnStep
<1>7. CASE LockTeam(r)
  <2>1. req[r].op = "demoteIb" /\ GoOn(r, "team", InIdOrder(Team(req[r].x), "update"))
    BY <1>7 DEF LockTeam, At
  <2>2. /\ req'[r].op = req[r].op /\ req'[r].stage = "team"
        /\ \A p \in Request \ {r} : req'[p] = req[p]
        /\ UNCHANGED <<rows, locks>>
    BY <1>1, <2>1, GoOnFields
  <2>3. ~Moving(r)' /\ ProfilesHeld(r)'
    BY <2>2 DEF Moving, ProfilesHeld
  <2>4. LeadsMoving(r)' /\ NoneMissed(r)'
    BY <2>3 DEF LeadsMoving, NoneMissed
  <2>5. ReqInv(r)'
    BY <1>2, <2>1, <2>2, <2>3, <2>4, RelevantParts DEF LeadOp, MoveOp
  <2> QED
    BY <1>1, <2>2, <2>5, OwnStep
<1>8. CASE LockProfiles(r)
  <2> DEFINE w == InIdOrder({req[r].x, req[r].y} \ {None}, "update")
  <2>1. req[r].op \in MoveOp /\ GoOn(r, "staff", w)
    BY <1>8 DEF LockProfiles, At, MoveOp
  <2>2. /\ req'[r].op = req[r].op /\ req'[r].stage = "staff" /\ req'[r].want = w
        /\ req'[r].x = req[r].x /\ req'[r].y = req[r].y
        /\ \A p \in Request \ {r} : req'[p] = req[p]
        /\ UNCHANGED <<rows, locks>>
    BY <1>1, <2>1, GoOnFields
  <2>3. \A s \in {req[r].x, req[r].y} \ {None} : Want(s, "update", s) \in w
    BY DEF InIdOrder
  <2> HIDE DEF w
  <2>4. \A s \in {req[r].x, req[r].y} \ {None} : Asked(r, s, "update")'
    BY <2>2, <2>3, WantAsked
  <2>5. ~Moving(r)'
    BY <2>2 DEF Moving
  <2>6. ProfilesHeld(r)' /\ LeadsMoving(r)' /\ NoneMissed(r)'
    BY <2>2, <2>4, <2>5 DEF ProfilesHeld, LeadsMoving, NoneMissed
  <2>7. ReqInv(r)'
    BY <1>2, <2>1, <2>2, <2>6, RelevantParts DEF LeadOp, MoveOp
  <2> QED
    BY <1>1, <2>2, <2>7, OwnStep
<1>9. CASE RefreshLeads(r)
  <2>1. /\ req[r].op \in MoveOp /\ req[r].stage = "staff" /\ req[r].want = {}
        /\ req[r].op = "demoteAgent" => MayDemoteAgent(req[r].x, req[r].y)
        /\ req[r].op = "demoteIb" => MayDemoteIb(req[r].x, req[r].y)
        /\ UNCHANGED <<rows, locks>>
    BY <1>9 DEF RefreshLeads, At, MoveOp
  <2>2. /\ req'[r].op = req[r].op /\ req'[r].stage = "move"
        /\ req'[r].want = MoveLocks(r, OwnedLeads(r)) /\ req'[r].seen = owner
        /\ req'[r].leads = OwnedLeads(r)
        /\ req'[r].x = req[r].x /\ req'[r].y = req[r].y
        /\ \A p \in Request \ {r} : req'[p] = req[p]
    BY <1>1, <1>9 DEF RefreshLeads, ReqType
  <2>3. staff' = staff /\ owner' = owner /\ OwnedLeads(r)' = OwnedLeads(r) /\ Moving(r)'
    BY <2>1, <2>2 DEF rows, OwnedLeads, Moving
  <2>4. ProfilesHeld(r)'
    <3>1. \A s \in {req[r].x, req[r].y} \ {None} : Has(r, s, "update")
      BY <1>1, <2>1, AskedHas DEF ReqInv, ProfilesHeld
    <3> QED
      BY <2>1, <2>2, <3>1 DEF ProfilesHeld, Has
  <2>5. LeadsMoving(r)'
    <3>1. ASSUME NEW l \in OwnedLeads(r)
          PROVE  /\ Asked(r, l, "nokey")'
                 /\ \A s \in {owner[l].ib, owner[l].agent} \ {None} : Asked(r, s, "keyshare")'
      <4> DEFINE M(k) == {Want(k, "nokey", 2 * k)}
                           \cup Refs({owner[k].ib, owner[k].agent, Handover(r, owner[k]).ib},
                                     2 * k + 1)
      <4>1. req'[r].want = UNION {M(k) : k \in OwnedLeads(r)}
        BY <2>2 DEF MoveLocks
      <4>2. Want(l, "nokey", 2 * l) \in M(l)
        OBVIOUS
      <4>3. \A s \in {owner[l].ib, owner[l].agent} \ {None} : Want(s, "keyshare", 2 * l + 1) \in M(l)
        BY DEF Refs
      <4> HIDE DEF M
      <4>4. /\ Want(l, "nokey", 2 * l) \in req'[r].want
            /\ \A s \in {owner[l].ib, owner[l].agent} \ {None} :
                 Want(s, "keyshare", 2 * l + 1) \in req'[r].want
        BY <4>1, <4>2, <4>3
      <4> QED
        BY <4>4, WantAsked
    <3> QED
      BY <2>2, <2>3, <3>1 DEF LeadsMoving
  <2>6. NoneMissed(r)'
    BY <2>1, <2>2, <2>3 DEF NoneMissed, MayDemoteAgent, MayDemoteIb, ActiveAgent, ActiveIb
  <2>7. ReqInv(r)'
    BY <1>2, <2>1, <2>2, <2>4, <2>5, <2>6, RelevantParts DEF LeadOp, MoveOp
  <2> QED
    BY <1>1, <2>1, <2>2, <2>7, OwnStep
\* From "move" on: what was asked for the leads is held.
<1>10. ASSUME NEW stage \in {"agents", "investors"}, NEW want, GoOn(r, stage, want),
              Moving(r), req[r].want = {},
              stage = "investors" /\ req[r].op = "demoteAgent" =>
                \A i \in Investor \ carried :
                  book[i].agent = req[r].x => Want(i, "nokey", 2 * i) \in want
       PROVE  IInv'
  <2>1. /\ req'[r].op = req[r].op /\ req'[r].stage = stage /\ req'[r].want = want
        /\ req'[r].leads = req[r].leads /\ req'[r].seen = req[r].seen
        /\ req'[r].x = req[r].x /\ req'[r].y = req[r].y
        /\ \A p \in Request \ {r} : req'[p] = req[p]
        /\ UNCHANGED <<rows, locks>>
    BY <1>1, <1>10, GoOnFields
  <2>2. /\ staff' = staff /\ owner' = owner /\ book' = book /\ carried' = carried
        /\ OwnedLeads(r)' = OwnedLeads(r) /\ Moving(r)'
    BY <1>10, <2>1 DEF rows, OwnedLeads, Moving
  <2>3. \A row, mode : Has(r, row, mode) => Has(r, row, mode)' /\ Asked(r, row, mode)'
    BY <2>1 DEF Has, Asked
  <2>4. ProfilesHeld(r)'
    BY <1>1, <1>10, <2>1, <2>3 DEF ReqInv, ProfilesHeld
  <2>5. LeadsMoving(r)'
    <3>1. ASSUME NEW l \in req[r].leads
          PROVE  /\ l \in OwnedLeads(r) /\ req[r].seen[l] = owner[l]
                 /\ Has(r, l, "nokey")
                 /\ \A s \in {owner[l].ib, owner[l].agent} \ {None} : Has(r, s, "keyshare")
      BY <1>1, <1>10, AskedHas DEF ReqInv, LeadsMoving
    <3> QED
      BY <2>1, <2>2, <2>3, <3>1 DEF LeadsMoving
  <2>6. NoneMissed(r)'
    <3>1. ASSUME stage = "investors", req[r].op = "demoteAgent",
                 NEW i \in Investor \ carried, book[i].agent = req[r].x
          PROVE  Asked(r, i, "nokey")'
      <4>1. Want(i, "nokey", 2 * i) \in req'[r].want
        BY <1>10, <2>1, <3>1
      <4> QED
        BY <4>1, WantAsked
    <3> QED
      BY <1>1, <1>10, <2>1, <2>2, <3>1 DEF ReqInv, NoneMissed, ActiveAgent
  <2>7. ReqInv(r)'
    BY <1>2, <1>10, <2>1, <2>4, <2>5, <2>6, RelevantParts DEF LeadOp, MoveOp, Moving
  <2> QED
    BY <1>1, <2>1, <2>7, OwnStep
<1>11. CASE LockAgents(r)
  <2>1. /\ GoOn(r, "agents", InIdOrder(Team(req[r].x), "nokey"))
        /\ Moving(r) /\ req[r].want = {}
    BY <1>11 DEF LockAgents, At, Moving, MoveOp
  <2> QED
    BY <1>10, <2>1
<1>12. CASE LockInvestors(r)
  <2> DEFINE L(i) == {Want(i, "nokey", 2 * i)} \cup Refs({Handover(r, book[i]).ib}, 2 * i + 1)
             found == {i \in here : IF req[r].op = "demoteIb" THEN book[i].ib = req[r].x
                                    ELSE book[i].agent = req[r].x}
             want == UNION {L(i) : i \in found}
  <2>1. GoOn(r, "investors", want) /\ Moving(r) /\ req[r].want = {}
    BY <1>12 DEF LockInvestors, At, Moving, MoveOp
  <2>2. ASSUME req[r].op = "demoteAgent", NEW i \in Investor \ carried, book[i].agent = req[r].x
        PROVE  Want(i, "nokey", 2 * i) \in want
    <3>1. req[r].x # None
      BY <1>1, <2>2, RowsAreNumbers DEF Shape, Row
    <3>2. i \in here
      BY <2>2, <3>1 DEF IInv, OnlyHereOwned, Nobody
    <3>3. i \in found
      BY <2>2, <3>2
    <3> HIDE DEF found
    <3> QED
      BY <3>3
  <2> HIDE DEF want
  <2> QED
    BY <1>10, <2>1, <2>2
<1>13. CASE NextCandidate(r) \/ LinkTaken(r)
  <2>1. /\ req[r].op = "link" /\ req'[r].op = "link" /\ req'[r].x = req[r].x
        /\ \A p \in Request \ {r} : req'[p] = req[p]
        /\ UNCHANGED <<rows, locks>>
    <3>1. CASE NextCandidate(r)
      <4>1. PICK l, w : req' = [req EXCEPT ![r].y = l, ![r].leads = @ \ {req[r].y},
                                           ![r].want = w]
        BY <3>1 DEF NextCandidate
      <4>2. req'[r].op = req[r].op /\ req'[r].x = req[r].x
            /\ \A p \in Request \ {r} : req'[p] = req[p]
        BY <1>1, <4>1 DEF ReqType
      <4> QED
        BY <3>1, <4>2 DEF NextCandidate, At
    <3>2. CASE LinkTaken(r)
      BY <1>1, <3>2, GoOnFields DEF LinkTaken, At
    <3> QED
      BY <1>13, <3>1, <3>2
  <2>2. InvestorHere(r)'
    BY <1>1, <2>1 DEF ReqInv, InvestorHere, rows
  <2>3. ReqInv(r)'
    BY <1>2, <2>1, <2>2, RelevantParts DEF LeadOp, MoveOp
  <2> QED
    BY <1>1, <2>1, <2>3, OwnStep
<1> QED
  BY <1>3, <1>4, <1>5, <1>6, <1>7, <1>8, <1>9, <1>11, <1>12, <1>13

LEMMA AcquireInv ==
    ASSUME IInv, NEW r \in Request, Acquire(r)
    PROVE  IInv'
<1>1. /\ Typed /\ Typed' /\ ReqInv(r)
      /\ req \in [Request -> ReqType] /\ req[r] \in ReqType
  BY AcquireType, ReqTyped DEF IInv, Typed
<1>2. PICK w \in NextWants(r) :
        /\ Blockers(r, w) = {}
        /\ locks' = locks \cup {[row |-> w.row, mode |-> w.mode, by |-> r]}
        /\ req' = [req EXCEPT ![r].want = @ \ {w}]
  BY DEF Acquire
<1>3. staff' = staff /\ owner' = owner /\ book' = book /\ carried' = carried /\ here' = here
      /\ linked' = linked /\ log' = log
  BY DEF Acquire, rows
<1>4. Exclusive'
  <2>1. \A m, n : Conflict(m, n) => Conflict(n, m)
    BY DEF Conflict
  <2>2. \A h \in locks : h.row = w.row /\ h.by # r => ~Conflict(h.mode, w.mode)
    BY <1>2 DEF Blockers
  <2> QED
    BY <1>2, <2>1, <2>2 DEF IInv, Exclusive
<1>5. ASSUME NEW p \in Request, p # r PROVE ReqInv(p)'
  <2>1. Undisturbed(p)
    BY <1>1, <1>2, <1>5 DEF Undisturbed
  <2> QED
    BY <1>3, <2>1, SameRows DEF IInv
<1>6. ReqInv(r)'
  <2>1. /\ req'[r].op = req[r].op /\ req'[r].stage = req[r].stage
        /\ req'[r].leads = req[r].leads /\ req'[r].seen = req[r].seen
        /\ req'[r].x = req[r].x /\ req'[r].y = req[r].y /\ req'[r].keep = req[r].keep
        /\ req'[r].want = req[r].want \ {w}
    BY <1>1, <1>2 DEF ReqType
  <2>2. \A row, mode : Has(r, row, mode) => Has(r, row, mode)'
    BY <1>2 DEF Has
  <2>3. ASSUME NEW row, NEW mode, Asked(r, row, mode) PROVE Asked(r, row, mode)'
    <3>1. CASE Has(r, row, mode)
      BY <2>2, <3>1 DEF Asked
    <3>2. CASE \E v \in req[r].want : v.row = row /\ v.mode = mode
      <4>1. PICK v \in req[r].want : v.row = row /\ v.mode = mode
        BY <3>2
      <4>2. CASE v = w
        BY <1>2, <4>1, <4>2 DEF Asked, Has
      <4>3. CASE v # w
        BY <2>1, <4>1, <4>3 DEF Asked
      <4> QED
        BY <4>2, <4>3
    <3> QED
      BY <2>3, <3>1, <3>2 DEF Asked
  <2>4. /\ Touched(r)' = Touched(r) /\ OwnedLeads(r)' = OwnedLeads(r)
        /\ \A s : ActiveAgent(s)' <=> ActiveAgent(s)
        /\ Moving(r)' <=> Moving(r)
    BY <1>3, <2>1 DEF Touched, OwnedLeads, ActiveAgent, Moving
  <2>5. LeadsHeld(r)' /\ ReplacedAsked(r)'
    BY <1>1, <1>3, <2>1, <2>2, <2>3, <2>4 DEF ReqInv, LeadsHeld, ReplacedAsked
  <2>6. TargetHeld(r)' /\ ProfilesHeld(r)'
    BY <1>1, <2>1, <2>2, <2>3, <2>4 DEF ReqInv, TargetHeld, ProfilesHeld
  <2>7. LeadsMoving(r)'
    BY <1>1, <1>3, <2>1, <2>2, <2>3, <2>4 DEF ReqInv, LeadsMoving
  <2>8. NoneMissed(r)'
    BY <1>1, <1>3, <2>1, <2>3, <2>4 DEF ReqInv, NoneMissed
  <2>9. PromotionHeld(r)' /\ InvestorHere(r)'
    BY <1>1, <1>3, <2>1, <2>3 DEF ReqInv, PromotionHeld, InvestorHere
  <2> QED
    BY <2>5, <2>6, <2>7, <2>8, <2>9 DEF ReqInv
<1>7. \A p \in Request : ReqInv(p)'
  BY <1>5, <1>6
<1>8. NewIbsAreNoAgents' /\ OnlyHereOwned'
  BY <1>3 DEF IInv, NewIbsAreNoAgents, OnlyHereOwned
<1>9. LeadAgentsActive' /\ StaleOwnersAreCarried' /\ HistoryIsExact'
  BY <1>3 DEF IInv, LeadAgentsActive, StaleOwnersAreCarried, HistoryIsExact, ActiveAgent
<1> QED
  BY <1>1, <1>4, <1>7, <1>8, <1>9 DEF IInv

-----------------------------------------------------------------------------
(* The last step of a transaction                                           *)

LEMMA LastStep ==
    ASSUME IInv, Typed', NEW r \in Request, End(r),
           OwnersGuarded(r), StaffGuarded(r), BookGuarded(r), here \subseteq here',
           NewIbsAreNoAgents', OnlyHereOwned',
           LeadAgentsActive', StaleOwnersAreCarried', HistoryIsExact'
    PROVE  IInv'
<1>1. req' = [req EXCEPT ![r] = Idle] /\ locks' = {k \in locks : k.by # r}
  BY DEF End
<1>2. req \in [Request -> ReqType]
  BY ReqTyped DEF IInv, Typed
<1>3. ASSUME NEW p \in Request, p # r PROVE ReqInv(p)'
  <2>1. Undisturbed(p)
    BY <1>1, <1>2, <1>3 DEF Undisturbed
  <2> QED
    BY <1>3, <2>1, Stable DEF IInv
<1>4. ReqInv(r)'
  BY <1>1, <1>2, IdleInv
<1>5. \A p \in Request : ReqInv(p)'
  BY <1>3, <1>4
<1>6. Exclusive'
  BY <1>1 DEF IInv, Exclusive
<1> QED
  BY <1>5, <1>6 DEF IInv

LEMMA NewAgent ==
    ASSUME NEW r \in Request, req[r].op \in LeadOp, NEW o \in Owner
    PROVE  NewOwner(r, o).agent # None =>
             req[r].op = "toAgent" /\ NewOwner(r, o).agent = req[r].y
<1>1. CASE req[r].op = "toAgent"
  BY <1>1 DEF NewOwner
<1>2. CASE req[r].op = "toIb"
  BY <1>2 DEF NewOwner
<1>3. CASE req[r].op = "removeAgent"
  BY <1>3 DEF NewOwner, Owner
<1>4. CASE req[r].op = "removeAll"
  BY <1>4 DEF NewOwner, Nobody
<1> QED
  BY <1>1, <1>2, <1>3, <1>4 DEF LeadOp

LEMMA AssignmentInv ==
    ASSUME IInv, NEW r \in Request, WriteAssignment(r)
    PROVE  IInv'
<1> DEFINE touched == Touched(r)
           persons == {linked[l] : l \in touched} \ {None}
           LeadOf(i) == CHOOSE l \in touched : linked[l] = i
<1>1. /\ Typed /\ Typed' /\ ReqInv(r)
      /\ owner \in [Lead -> Owner] /\ log \in [Lead -> Owner] /\ book \in [Investor -> Owner]
      /\ owner' \in [Lead -> Owner] /\ log' \in [Lead -> Owner]
  BY WriteTypes DEF IInv, Typed, TypeOK
<1>2. /\ req[r].op \in LeadOp /\ req[r].stage = "write" /\ req[r].want = {}
      /\ owner' = [l \in Lead |-> IF l \in touched THEN NewOwner(r, owner[l]) ELSE owner[l]]
      /\ log' = [l \in Lead |->
                   IF l \in touched THEN NewOwner(r, req[r].seen[l]) ELSE log[l]]
      /\ book' = [i \in Investor |->
                    IF i \in persons THEN NewOwner(r, owner[LeadOf(i)]) ELSE book[i]]
      /\ carried' = carried \ persons
      /\ End(r)
      /\ UNCHANGED <<staff, linked, here>>
  BY DEF WriteAssignment, At
<1>3. touched \subseteq Lead /\ touched \subseteq req[r].leads
  BY <1>1, ReqFields DEF Touched
<1>4. ASSUME NEW l \in touched
      PROVE  /\ Has(r, l, "update") /\ req[r].seen[l] = owner[l]
             /\ \A s \in {owner[l].ib, owner[l].agent} \ {None} : Has(r, s, "keyshare")
  BY <1>1, <1>2, <1>3, AskedHas DEF ReqInv, LeadsHeld, ReplacedAsked
<1>5. req[r].op = "toAgent" => Has(r, req[r].y, "update") /\ ActiveAgent(req[r].y)
  BY <1>1, <1>2 DEF ReqInv, TargetHeld
<1>6. ASSUME NEW i \in persons PROVE LeadOf(i) \in Lead /\ i \in here
  <2>1. PICK l \in touched : linked[l] = i
    OBVIOUS
  <2>2. LeadOf(i) \in touched
    BY <2>1
  <2> QED
    BY <1>3, <2>1, <2>2 DEF IInv, OnlyHereOwned
<1> HIDE DEF touched, persons, LeadOf
<1>7. \A o \in Owner : NewOwner(r, o).agent # None =>
        /\ NewOwner(r, o).agent = req[r].y
        /\ Has(r, req[r].y, "update") /\ ActiveAgent(req[r].y)
  BY <1>2, <1>5, NewAgent
<1>8. \A s : ActiveAgent(s)' <=> ActiveAgent(s)
  BY <1>2 DEF ActiveAgent
<1>9. \A l \in Lead : /\ l \in touched => owner'[l] = NewOwner(r, owner[l])
                      /\ l \notin touched => owner'[l] = owner[l]
  BY <1>2
<1>10. \A i \in Investor : /\ i \in persons => book'[i] = NewOwner(r, owner[LeadOf(i)])
                           /\ i \notin persons => book'[i] = book[i]
  BY <1>2
<1>11. \A l \in Lead : owner[l] \in Owner
  BY <1>1
<1>12. OwnersGuarded(r) /\ StaffGuarded(r)
  BY <1>2, <1>4, <1>7, <1>9, <1>11 DEF OwnersGuarded, StaffGuarded
<1>13. BookGuarded(r)
  BY <1>2, <1>6, <1>7, <1>10, <1>11 DEF BookGuarded
<1>14. LeadAgentsActive'
  BY <1>7, <1>8, <1>9, <1>11 DEF IInv, LeadAgentsActive
<1>15. StaleOwnersAreCarried'
  BY <1>2, <1>6, <1>7, <1>8, <1>10, <1>11 DEF IInv, StaleOwnersAreCarried
<1>16. HistoryIsExact'
  <2>1. \A l \in Lead : log'[l] = owner'[l]
    BY <1>2, <1>4, <1>9 DEF IInv, HistoryIsExact
  <2> QED
    BY <1>1, <2>1 DEF HistoryIsExact
<1>17. NewIbsAreNoAgents' /\ OnlyHereOwned'
  BY <1>2, <1>6, <1>10 DEF IInv, NewIbsAreNoAgents, OnlyHereOwned
<1> QED
  BY <1>1, <1>2, <1>12, <1>13, <1>14, <1>15, <1>16, <1>17, LastStep

LEMMA InvestorInv ==
    ASSUME IInv, NEW r \in Request, WriteInvestor(r)
    PROVE  IInv'
<1>1. Typed /\ Typed' /\ ReqInv(r) /\ book \in [Investor -> Owner]
  BY WriteTypes DEF IInv, Typed, TypeOK
<1> DEFINE new == IF req[r].y = None THEN Nobody
                  ELSE [ib |-> staff[req[r].y].ib, agent |-> req[r].y]
<1>2. /\ req[r].op = "assignInvestor" /\ req[r].stage = "write"
      /\ book' = [book EXCEPT ![req[r].x] = new]
      /\ carried' = carried \ {req[r].x}
      /\ End(r) /\ UNCHANGED <<staff, owner, linked, here, log>>
  BY DEF WriteInvestor, At
<1>3. req[r].y # None => Has(r, req[r].y, "share") /\ ActiveAgent(req[r].y)
  BY <1>1, <1>2 DEF ReqInv, TargetHeld
<1>4. req[r].x \in here
  BY <1>1, <1>2 DEF ReqInv, InvestorHere
<1>5. new.agent = req[r].y
  BY DEF Nobody
<1> HIDE DEF new
<1>6. \A i \in Investor : /\ i = req[r].x => book'[i] = new
                          /\ i # req[r].x => book'[i] = book[i]
  BY <1>1, <1>2
<1>7. OwnersGuarded(r) /\ StaffGuarded(r)
  BY <1>2 DEF OwnersGuarded, StaffGuarded
<1>8. BookGuarded(r)
  BY <1>2, <1>3, <1>5, <1>6 DEF BookGuarded
<1>9. LeadAgentsActive' /\ HistoryIsExact' /\ NewIbsAreNoAgents'
  BY <1>2 DEF IInv, LeadAgentsActive, HistoryIsExact, NewIbsAreNoAgents, ActiveAgent
<1>10. StaleOwnersAreCarried'
  BY <1>2, <1>3, <1>5, <1>6 DEF IInv, StaleOwnersAreCarried, ActiveAgent
<1>11. OnlyHereOwned'
  BY <1>2, <1>4, <1>6 DEF IInv, OnlyHereOwned
<1> QED
  BY <1>1, <1>2, <1>7, <1>8, <1>9, <1>10, <1>11, LastStep

\* Whom the leads and investors of a moved agent get.
LEMMA HandoverAgent ==
    ASSUME Typed, NEW r \in Request, req[r].op \in MoveOp, NEW o \in Owner
    PROVE  /\ req[r].op = "demoteAgent" => Handover(r, o).agent = req[r].y
           /\ req[r].op # "demoteAgent" => Handover(r, o).agent \in {None, o.agent}
<1>1. CASE req[r].op = "demoteAgent" /\ req[r].y # None
  BY <1>1 DEF Handover
<1>2. CASE req[r].op = "demoteAgent" /\ req[r].y = None
  BY <1>2 DEF Handover, Owner, Nobody
<1>3. CASE req[r].op = "transfer"
  BY <1>3 DEF Handover, Owner
<1>4. CASE req[r].op = "demoteIb"
  BY <1>4 DEF Handover, Owner
<1> QED
  BY <1>1, <1>2, <1>3, <1>4 DEF MoveOp

\* What the three moves share.
LEMMA MoveBookInv ==
    ASSUME IInv, NEW r \in Request, Moving(r), req[r].stage = "investors", req[r].want = {},
           MoveBook(r)
    PROVE  /\ OwnersGuarded(r) /\ BookGuarded(r) /\ HistoryIsExact' /\ OnlyHereOwned'
           /\ \A l \in Lead : /\ l \in req[r].leads => owner'[l] = Handover(r, owner[l])
                              /\ l \notin req[r].leads => owner'[l] = owner[l]
           /\ \A i \in Investor :
                /\ i \in MovedInvestors(r) => book'[i] = Handover(r, book[i])
                /\ i \notin MovedInvestors(r) => book'[i] = book[i]
           /\ \A i \in Investor : i \in carried' =>
                i \in carried /\ (req[r].op = "demoteAgent" => i \notin MovedInvestors(r))
           /\ \A i \in Investor : i \in carried /\ i \notin carried' =>
                req[r].op = "demoteAgent" /\ i \in MovedInvestors(r)
           /\ here' = here /\ End(r)
<1>1. /\ Typed /\ ReqInv(r) /\ req[r].op \in MoveOp /\ req[r].leads \subseteq Lead
      /\ owner \in [Lead -> Owner] /\ log \in [Lead -> Owner] /\ book \in [Investor -> Owner]
      /\ req[r].seen \in [Lead -> Owner]
  BY ReqFields DEF IInv, Typed, TypeOK, Moving
<1>2. /\ owner' = [l \in Lead |-> IF l \in req[r].leads THEN Handover(r, owner[l]) ELSE owner[l]]
      /\ log' = [l \in Lead |->
                   IF l \in req[r].leads THEN Handover(r, req[r].seen[l]) ELSE log[l]]
      /\ book' = [i \in Investor |->
                    IF i \in MovedInvestors(r) THEN Handover(r, book[i]) ELSE book[i]]
      /\ carried' = IF req[r].op = "demoteAgent" THEN carried \ MovedInvestors(r) ELSE carried
      /\ End(r) /\ linked' = linked /\ here' = here
  BY DEF MoveBook
<1>3. \A l \in req[r].leads :
        /\ req[r].seen[l] = owner[l] /\ Has(r, l, "nokey")
        /\ \A s \in {owner[l].ib, owner[l].agent} \ {None} : Has(r, s, "keyshare")
  BY <1>1 DEF ReqInv, LeadsMoving
<1>4. req[r].y # None => Has(r, req[r].y, "update")
  BY <1>1 DEF ReqInv, ProfilesHeld
<1>5. \A o \in Owner : /\ req[r].op = "demoteAgent" => Handover(r, o).agent = req[r].y
                       /\ req[r].op # "demoteAgent" => Handover(r, o).agent \in {None, o.agent}
  BY <1>1, HandoverAgent
<1>6. \A l \in Lead : /\ l \in req[r].leads => owner'[l] = Handover(r, owner[l])
                      /\ l \notin req[r].leads => owner'[l] = owner[l]
  BY <1>2
<1>7. \A i \in Investor :
        /\ i \in MovedInvestors(r) => book'[i] = Handover(r, book[i])
        /\ i \notin MovedInvestors(r) => book'[i] = book[i]
  BY <1>2
<1>8. (\A l \in Lead : owner[l] \in Owner) /\ (\A i \in Investor : book[i] \in Owner)
  BY <1>1
<1>9. OwnersGuarded(r)
  BY <1>3, <1>4, <1>5, <1>6, <1>8 DEF OwnersGuarded
<1>10. BookGuarded(r)
  BY <1>2, <1>4, <1>5, <1>7, <1>8 DEF BookGuarded
<1>11. HistoryIsExact'
  <2>1. \A l \in Lead : log'[l] = owner'[l]
    BY <1>2, <1>3, <1>6 DEF IInv, HistoryIsExact
  <2> QED
    BY <1>2, <2>1 DEF HistoryIsExact
<1>12. OnlyHereOwned'
  <2>1. MovedInvestors(r) \subseteq here
    BY DEF MovedInvestors
  <2> QED
    BY <1>2, <1>7, <2>1 DEF IInv, OnlyHereOwned
<1> QED
  BY <1>2, <1>6, <1>7, <1>9, <1>10, <1>11, <1>12

LEMMA DemotionInv ==
    ASSUME IInv, NEW r \in Request, CommitDemotion(r)
    PROVE  IInv'
<1> DEFINE x == req[r].x
           y == req[r].y
<1>1. /\ req[r].op = "demoteAgent" /\ req[r].stage = "investors" /\ req[r].want = {}
      /\ Moving(r) /\ MoveBook(r) /\ staff' = [staff EXCEPT ![x].active = FALSE]
  BY DEF CommitDemotion, At, Moving, MoveOp
<1>2. /\ Typed /\ Typed' /\ ReqInv(r) /\ Shape(req[r]) /\ staff \in [Staff -> Profile]
      /\ owner \in [Lead -> Owner] /\ book \in [Investor -> Owner]
  BY WriteTypes DEF IInv, Typed, TypeOK
<1>3. x \in Staff /\ x # None
  BY <1>1, <1>2, RowsAreNumbers DEF Shape, Row
<1>4. Has(r, x, "update")
  BY <1>1, <1>2, <1>3 DEF ReqInv, ProfilesHeld
<1>5. /\ \A l \in Lead : owner[l].agent = x => l \in req[r].leads
      /\ y # None => ActiveAgent(y) /\ y # x
  BY <1>1, <1>2 DEF ReqInv, NoneMissed, OwnedLeads
<1>6. \A i \in Investor \ carried : book[i].agent = x => i \in MovedInvestors(r)
  <2> SUFFICES ASSUME NEW i \in Investor \ carried, book[i].agent = x
               PROVE  i \in MovedInvestors(r)
    OBVIOUS
  <2>1. Has(r, i, "nokey")
    BY <1>1, <1>2, AskedHas DEF ReqInv, NoneMissed
  <2>2. Holds(r, i)
    BY <2>1 DEF Has, Holds
  <2>3. i \in here
    BY <1>3 DEF IInv, OnlyHereOwned, Nobody
  <2> QED
    BY <1>1, <2>2, <2>3 DEF MovedInvestors
<1>7. /\ \A s \in Staff : staff'[s].role = staff[s].role
      /\ \A s \in Staff \ {x} : staff'[s].active = staff[s].active
  BY <1>1, <1>2 DEF Profile
<1>8. \A s : s # x => (ActiveAgent(s)' <=> ActiveAgent(s))
  BY <1>7 DEF ActiveAgent
<1>9. /\ OwnersGuarded(r) /\ BookGuarded(r) /\ HistoryIsExact' /\ OnlyHereOwned'
      /\ \A l \in Lead : /\ l \in req[r].leads => owner'[l] = Handover(r, owner[l])
                         /\ l \notin req[r].leads => owner'[l] = owner[l]
      /\ \A i \in Investor :
           /\ i \in MovedInvestors(r) => book'[i] = Handover(r, book[i])
           /\ i \notin MovedInvestors(r) => book'[i] = book[i]
      /\ \A i \in Investor : i \in carried /\ i \notin carried' => i \in MovedInvestors(r)
      /\ here' = here /\ End(r)
  BY <1>1, MoveBookInv
<1>10. \A o \in Owner : Handover(r, o).agent = y
  BY <1>1, <1>2, HandoverAgent DEF MoveOp
<1>11. (\A l \in Lead : owner[l] \in Owner) /\ (\A i \in Investor : book[i] \in Owner)
  BY <1>2
<1> HIDE DEF x, y
<1>12. StaffGuarded(r)
  BY <1>4, <1>7 DEF StaffGuarded
<1>13. LeadAgentsActive'
  BY <1>5, <1>8, <1>9, <1>10, <1>11 DEF IInv, LeadAgentsActive
<1>14. StaleOwnersAreCarried'
  BY <1>5, <1>6, <1>8, <1>9, <1>10, <1>11 DEF IInv, StaleOwnersAreCarried
<1>15. NewIbsAreNoAgents'
  BY <1>7, OwnershipAssumption DEF IInv, NewIbsAreNoAgents
<1> QED
  BY <1>2, <1>9, <1>12, <1>13, <1>14, <1>15, LastStep

LEMMA TeamMoveInv ==
    ASSUME IInv, NEW r \in Request, CommitTransfer(r) \/ CommitIbDemotion(r)
    PROVE  IInv'
<1>1. /\ req[r].op \in {"transfer", "demoteIb"} /\ req[r].stage = "investors"
      /\ req[r].want = {} /\ Moving(r) /\ MoveBook(r)
  BY DEF CommitTransfer, CommitIbDemotion, At, Moving, MoveOp
<1>2. /\ Typed /\ Typed' /\ ReqInv(r) /\ Shape(req[r]) /\ staff \in [Staff -> Profile]
      /\ owner \in [Lead -> Owner] /\ book \in [Investor -> Owner]
  BY WriteTypes DEF IInv, Typed, TypeOK
<1>3. req[r].x \in Staff /\ req[r].x # None
  BY <1>1, <1>2, RowsAreNumbers DEF Shape, Row
<1>4. Has(r, req[r].x, "update")
  BY <1>1, <1>2, <1>3 DEF ReqInv, ProfilesHeld
<1>5. /\ \A s \in Staff : staff'[s].role = staff[s].role
      /\ \A s \in Staff : staff'[s].active # staff[s].active =>
           s = req[r].x /\ staff[s].role # "agent"
  <2>1. CASE CommitTransfer(r)
    BY <1>2, <1>3, <2>1 DEF CommitTransfer, Profile
  <2>2. CASE CommitIbDemotion(r)
    <3>1. staff[req[r].x].role = "ib"
      BY <1>1, <1>2, <2>2 DEF CommitIbDemotion, At, ReqInv, NoneMissed
    <3> QED
      BY <1>2, <1>3, <2>2, <3>1 DEF CommitIbDemotion, Profile
  <2> QED
    BY <2>1, <2>2
<1>6. \A s : ActiveAgent(s) => ActiveAgent(s)'
  BY <1>5 DEF ActiveAgent
<1>7. /\ OwnersGuarded(r) /\ BookGuarded(r) /\ HistoryIsExact' /\ OnlyHereOwned'
      /\ \A l \in Lead : /\ l \in req[r].leads => owner'[l] = Handover(r, owner[l])
                         /\ l \notin req[r].leads => owner'[l] = owner[l]
      /\ \A i \in Investor :
           /\ i \in MovedInvestors(r) => book'[i] = Handover(r, book[i])
           /\ i \notin MovedInvestors(r) => book'[i] = book[i]
      /\ \A i \in Investor : i \in carried => i \in carried'
      /\ here' = here /\ End(r)
  BY <1>1, MoveBookInv
<1>8. \A o \in Owner : Handover(r, o).agent \in {None, o.agent}
  BY <1>1, <1>2, HandoverAgent DEF MoveOp
<1>9. (\A l \in Lead : owner[l] \in Owner) /\ (\A i \in Investor : book[i] \in Owner)
  BY <1>2
<1>10. StaffGuarded(r)
  BY <1>4, <1>5 DEF StaffGuarded
<1>11. LeadAgentsActive'
  BY <1>6, <1>7, <1>8, <1>9 DEF IInv, LeadAgentsActive
<1>12. StaleOwnersAreCarried'
  BY <1>6, <1>7, <1>8, <1>9 DEF IInv, StaleOwnersAreCarried
<1>13. NewIbsAreNoAgents'
  BY <1>5, OwnershipAssumption DEF IInv, NewIbsAreNoAgents
<1> QED
  BY <1>2, <1>7, <1>10, <1>11, <1>12, <1>13, LastStep

LEMMA PromotionInv ==
    ASSUME IInv, NEW r \in Request, WritePromotion(r)
    PROVE  IInv'
<1>1. /\ req[r].op \in {"promoteAgent", "promoteIb"} /\ req[r].want = {}
      /\ staff' = [staff EXCEPT ![req[r].x] =
                     [role |-> IF req[r].op = "promoteIb" THEN "ib" ELSE "agent",
                      ib |-> req[r].y, active |-> TRUE]]
      /\ End(r) /\ UNCHANGED <<owner, linked, book, here, log, carried>>
  BY DEF WritePromotion, At
<1>2. Typed /\ Typed' /\ ReqInv(r) /\ Shape(req[r]) /\ staff \in [Staff -> Profile]
  BY WriteTypes DEF IInv, Typed, TypeOK
<1>3. /\ req[r].x \in Staff
      /\ req[r].op = "promoteIb" => req[r].x \in AsIb /\ staff[req[r].x].role # "agent"
      /\ req[r].op = "promoteAgent" => req[r].x \notin AsIb
  BY <1>1, <1>2, OwnershipAssumption DEF Shape, IInv, NewIbsAreNoAgents
<1>4. Has(r, req[r].x, "nokey")
  BY <1>1, <1>2, AskedHas DEF ReqInv, PromotionHeld
<1>5. /\ \A s \in Staff \ {req[r].x} : staff'[s] = staff[s]
      /\ req[r].op = "promoteAgent" =>
           staff'[req[r].x].role = "agent" /\ staff'[req[r].x].active
      /\ req[r].op = "promoteIb" => staff'[req[r].x].role = "ib"
  BY <1>1, <1>2, <1>3
<1>6. \A s : ActiveAgent(s) => ActiveAgent(s)'
  BY <1>1, <1>3, <1>5 DEF ActiveAgent
<1>7. OwnersGuarded(r) /\ StaffGuarded(r) /\ BookGuarded(r)
  BY <1>1, <1>4, <1>5 DEF OwnersGuarded, StaffGuarded, BookGuarded
<1>8. LeadAgentsActive' /\ StaleOwnersAreCarried'
  BY <1>1, <1>6 DEF IInv, LeadAgentsActive, StaleOwnersAreCarried
<1>9. NewIbsAreNoAgents'
  BY <1>1, <1>3, <1>5, OwnershipAssumption DEF IInv, NewIbsAreNoAgents
<1>10. HistoryIsExact' /\ OnlyHereOwned'
  BY <1>1 DEF IInv, HistoryIsExact, OnlyHereOwned
<1> QED
  BY <1>1, <1>2, <1>7, <1>8, <1>9, <1>10, LastStep

LEMMA LinkInv ==
    ASSUME IInv, NEW r \in Request, CommitLink(r) \/ CommitConversion(r)
    PROVE  IInv'
<1>1. /\ Typed /\ Typed' /\ ReqInv(r) /\ Shape(req[r])
      /\ linked \in [Lead -> Investor \cup {None}] /\ book \in [Investor -> Owner]
  BY WriteTypes DEF IInv, Typed, TypeOK
<1>2. req[r].x \in Investor /\ req[r].y \in Lead
  BY <1>1 DEF CommitLink, CommitConversion, At, Shape
<1>3. /\ linked' = [linked EXCEPT ![req[r].y] = req[r].x]
      /\ End(r) /\ UNCHANGED <<staff, owner, log>>
      /\ here \subseteq here' /\ req[r].x \in here'
  BY <1>1 DEF CommitLink, CommitConversion, At, ReqInv, InvestorHere
<1>4. /\ carried \subseteq carried'
      /\ \A i \in Investor : book'[i] # book[i] => i = req[r].x /\ i \in carried'
  <2>1. CASE CommitLink(r)
    BY <1>1, <1>2, <2>1 DEF CommitLink
  <2>2. CASE CommitConversion(r)
    BY <1>1, <1>2, <2>2 DEF CommitConversion
  <2> QED
    BY <2>1, <2>2
<1>5. OwnersGuarded(r) /\ StaffGuarded(r) /\ BookGuarded(r)
  BY <1>3, <1>4 DEF OwnersGuarded, StaffGuarded, BookGuarded
<1>6. LeadAgentsActive' /\ HistoryIsExact' /\ NewIbsAreNoAgents'
  BY <1>3 DEF IInv, LeadAgentsActive, HistoryIsExact, NewIbsAreNoAgents, ActiveAgent
<1>7. StaleOwnersAreCarried'
  BY <1>3, <1>4 DEF IInv, StaleOwnersAreCarried, ActiveAgent
<1>8. OnlyHereOwned'
  BY <1>1, <1>2, <1>3, <1>4 DEF IInv, OnlyHereOwned
<1> QED
  BY <1>1, <1>3, <1>5, <1>6, <1>7, <1>8, LastStep

\* Nothing is written.
LEMMA FailInv ==
    ASSUME IInv, NEW r \in Request, RequestFails(r)
    PROVE  IInv'
<1>1. Typed' /\ End(r) /\ UNCHANGED rows
  BY WriteTypes DEF IInv, RequestFails
<1>2. OwnersGuarded(r) /\ StaffGuarded(r) /\ BookGuarded(r) /\ here' = here
  BY <1>1 DEF rows, OwnersGuarded, StaffGuarded, BookGuarded
<1>3. /\ LeadAgentsActive' /\ HistoryIsExact' /\ NewIbsAreNoAgents'
      /\ StaleOwnersAreCarried' /\ OnlyHereOwned'
  BY <1>1 DEF rows, IInv, LeadAgentsActive, HistoryIsExact, NewIbsAreNoAgents,
              StaleOwnersAreCarried, OnlyHereOwned, ActiveAgent
<1> QED
  BY <1>1, <1>2, <1>3, LastStep

LEMMA CreateInv ==
    ASSUME IInv, NEW i \in Investor, CreateInvestor(i)
    PROVE  IInv'
<1>1. /\ here \subseteq here'
      /\ UNCHANGED <<staff, owner, linked, book, log, carried, begun, locks, req>>
  BY DEF CreateInvestor
<1>2. Typed'
  BY <1>1, TypeStep DEF IInv, Next
<1>3. ASSUME NEW p \in Request PROVE ReqInv(p)'
  <2>1. Undisturbed(p)
    BY <1>1 DEF Undisturbed
  <2> QED
    BY <1>1, <2>1, SameRows DEF IInv
<1>4. Exclusive' /\ NewIbsAreNoAgents' /\ OnlyHereOwned'
  BY <1>1 DEF IInv, Exclusive, NewIbsAreNoAgents, OnlyHereOwned
<1>5. LeadAgentsActive' /\ StaleOwnersAreCarried' /\ HistoryIsExact'
  BY <1>1 DEF IInv, LeadAgentsActive, StaleOwnersAreCarried, HistoryIsExact, ActiveAgent
<1> QED
  BY <1>2, <1>3, <1>4, <1>5 DEF IInv

-----------------------------------------------------------------------------
LEMMA InitInv == Init => IInv
<1> SUFFICES ASSUME Init PROVE IInv
  OBVIOUS
<1>1. Typed
  BY InitType
<1>2. ASSUME NEW r \in Request PROVE ReqInv(r)
  <2>1. req[r].op = "idle"
    <3>1. Idle.op = "idle"
      BY DEF Idle
    <3> QED
      BY <3>1 DEF Init
  <2>2. LeadsHeld(r) /\ ReplacedAsked(r) /\ TargetHeld(r)
    BY <2>1 DEF LeadsHeld, ReplacedAsked, TargetHeld, LeadOp
  <2>3. ~Moving(r) /\ ProfilesHeld(r)
    BY <2>1 DEF Moving, ProfilesHeld, MoveOp
  <2>4. LeadsMoving(r) /\ NoneMissed(r)
    BY <2>3 DEF LeadsMoving, NoneMissed
  <2>5. PromotionHeld(r) /\ InvestorHere(r)
    BY <2>1 DEF PromotionHeld, InvestorHere
  <2> QED
    BY <2>2, <2>3, <2>4, <2>5 DEF ReqInv
<1>3. Exclusive /\ NewIbsAreNoAgents /\ OnlyHereOwned
  BY OwnershipAssumption DEF Init, Exclusive, NewIbsAreNoAgents, OnlyHereOwned
<1>4. LeadAgentsActive
  <2> SUFFICES ASSUME NEW l \in Lead, owner[l].agent # None
               PROVE  ActiveAgent(owner[l].agent)
    BY DEF LeadAgentsActive
  <2>1. owner[l] \in Owner0 /\ owner[l] \in Owner
    BY OwnershipAssumption DEF Init
  <2>2. owner[l].agent \in Staff
    BY <2>1 DEF Owner
  <2> QED
    BY <2>1, <2>2, OwnershipAssumption DEF Init, ActiveAgent
<1>5. StaleOwnersAreCarried /\ HistoryIsExact
  BY DEF Init, StaleOwnersAreCarried, HistoryIsExact, Nobody
<1> QED
  BY <1>1, <1>2, <1>3, <1>4, <1>5 DEF IInv

LEMMA InvStep ==
    ASSUME IInv, [Next]_vars
    PROVE  IInv'
<1>1. CASE UNCHANGED vars
  <2>1. Typed'
    BY TypeStep DEF IInv
  <2>2. ASSUME NEW p \in Request PROVE ReqInv(p)'
    <3>1. Undisturbed(p)
      BY <1>1 DEF Undisturbed, vars
    <3> QED
      BY <1>1, <3>1, SameRows DEF IInv, vars, rows
  <2>3. Exclusive' /\ NewIbsAreNoAgents' /\ OnlyHereOwned'
    BY <1>1 DEF vars, rows, IInv, Exclusive, NewIbsAreNoAgents, OnlyHereOwned
  <2>4. LeadAgentsActive' /\ StaleOwnersAreCarried' /\ HistoryIsExact'
    BY <1>1 DEF vars, rows, IInv, LeadAgentsActive, StaleOwnersAreCarried, HistoryIsExact,
                ActiveAgent
  <2> QED
    BY <2>1, <2>2, <2>3, <2>4 DEF IInv
<1>2. ASSUME NEW i \in Investor, CreateInvestor(i) PROVE IInv'
  BY <1>2, CreateInv
<1>3. ASSUME NEW r \in Request,
             LeadSteps(r) \/ InvestorSteps(r) \/ TeamSteps(r) \/ LinkSteps(r)
               \/ Acquire(r) \/ RequestFails(r)
      PROVE  IInv'
  BY <1>3, BeginInv, MiddleInv, AcquireInv, AssignmentInv, InvestorInv, DemotionInv,
     TeamMoveInv, PromotionInv, LinkInv, FailInv
     DEF LeadSteps, InvestorSteps, TeamSteps, LinkSteps
<1> QED
  BY <1>1, <1>2, <1>3 DEF Next

LEMMA Invariance == Spec => []IInv
BY InitInv, InvStep, PTL DEF Spec

(* No lead is left with a deactivated agent, whatever demotions, transfers, *)
(* promotions and assignments run at the same time (demoteAgent reads the   *)
(* leads again once it has the agent's row; assignments check the agent     *)
(* under a lock that excludes the demotion).                                *)
THEOREM LeadAgentsStayActive == Spec => []LeadAgentsActive
<1>1. IInv => LeadAgentsActive
  BY DEF IInv
<1> QED
  BY Invariance, <1>1, PTL

(* An investor is left with a deactivated agent only where a sign-in or a   *)
(* conversion copied the owner of a lead that it had read earlier.          *)
THEOREM OnlyCarriedOwnersAreStale == Spec => []StaleOwnersAreCarried
<1>1. IInv => StaleOwnersAreCarried
  BY DEF IInv
<1> QED
  BY Invariance, <1>1, PTL

(* The last history row of a lead always names its owner, although the row  *)
(* is written from what the transaction read before its last statement.     *)
THEOREM HistoryStaysExact == Spec => []HistoryIsExact
<1>1. IInv => HistoryIsExact
  BY DEF IInv
<1> QED
  BY Invariance, <1>1, PTL
================================================================================
