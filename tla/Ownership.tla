------------------------------- MODULE Ownership -------------------------------
(***************************************************************************)
(* Who owns the leads and the investors: promotion, demotion and transfer  *)
(* of staff, assignment of leads and investors, and the ways in which a    *)
(* lead hands its owner on to an investor.                                 *)
(*                                                                         *)
(* These operations meet on three tables, and what keeps them apart is row *)
(* locks alone.  So the locks are modelled: every statement that locks     *)
(* rows, explicitly or by an update or a foreign key, is a set of wanted   *)
(* locks, taken one by one (Acquire) and kept to the end of the            *)
(* transaction.  A statement's rows are those of its snapshot; its         *)
(* condition is evaluated again once it has the locks (READ COMMITTED).    *)
(* Writes are seen by others when the transaction commits.                 *)
(*                                                                         *)
(* Rows are positive numbers, in the order of their ids: that is the order *)
(* in which a statement with ORDER BY id takes its locks.                  *)
(*                                                                         *)
(* Not modelled: original attribution, notes, timestamps, and the stage of *)
(* a lead (Applications has it).  Super admins are not rows here: no       *)
(* operation changes them.                                                 *)
(***************************************************************************)
EXTENDS Integers, FiniteSets

CONSTANTS
    Staff,      \* staff_profiles rows
    Lead,       \* leads rows, all of one list
    Investor,   \* investors rows that may come to exist
    PersonOf,   \* the investor with the email of a lead
    Team0,      \* the staff in the beginning
    Owner0,     \* the owners that leads may have then
    AsAgent,    \* people whom super admins promote to agent
    AsIb,       \* and those they promote to IB
    Request,    \* slots for transactions at the same time
    MaxBegun    \* bound: transactions begun altogether

None == 0
Super == 0  \* as the actor of a request

Row == Staff \cup Lead \cup Investor
Role == {"none", "agent", "ib"}
Profile == [role : Role, ib : Staff \cup {None}, active : BOOLEAN]
Owner == [ib : Staff \cup {None}, agent : Staff \cup {None}]
Nobody == [ib |-> None, agent |-> None]

ASSUME OwnershipAssumption ==
    /\ Row \subseteq Nat \ {0}
    /\ Staff \cap (Lead \cup Investor) = {} /\ Lead \cap Investor = {}
    /\ PersonOf \in [Lead -> Investor]
    /\ Team0 \in [Staff -> Profile]
    /\ Owner0 \subseteq Owner
    /\ \A o \in Owner0 :
         o.agent # None => /\ Team0[o.agent].role = "agent" /\ Team0[o.agent].active
                           /\ o.ib = Team0[o.agent].ib
    /\ MaxBegun \in Nat
    /\ AsAgent \subseteq Staff /\ AsIb \subseteq Staff
    \* Nobody is promoted to agent and to IB at the same time, nor to IB
    \* while being an agent: promoteToIb refuses that on an unlocked read.
    /\ AsAgent \cap AsIb = {}
    /\ \A s \in AsIb : Team0[s].role # "agent"

Mode == {"update", "nokey", "share", "keyshare"}
Conflict(m, n) == "update" \in {m, n} \/ {m, n} = {"nokey"} \/ {m, n} = {"nokey", "share"}

Want(row, mode, at) == [row |-> row, mode |-> mode, at |-> at]
InIdOrder(rows, mode) == {Want(s, mode, s) : s \in rows}
\* The rows that a write refers to by foreign keys.
Refs(rows, at) == {Want(s, "keyshare", at) : s \in rows \ {None}}

LeadOp == {"toAgent", "toIb", "removeAgent", "removeAll"}
Op == {"idle", "assignInvestor", "demoteAgent", "demoteIb", "transfer",
       "promoteAgent", "promoteIb", "link", "convert"} \cup LeadOp
Stage == {"", "leads", "team", "staff", "move", "agents", "investors", "write"}

VARIABLES
    staff,    \* staff_profiles: role, parent IB, not deactivated
    owner,    \* leads.ib_id and leads.assigned_agent_id
    linked,   \* leads.investor_id
    book,     \* the same two columns of investors
    here,     \* the investors that exist
    log,      \* the owner according to the last lead_assignments row of a lead
    carried,  \* investors whose owner was copied from a lead by linking
    begun,    \* how many transactions have begun
    locks,    \* the row locks held
    req       \* each transaction: its operation, stage, wants and what it read

rows == <<staff, owner, linked, book, here, log, carried>>
vars == <<rows, begun, locks, req>>

Idle == [op |-> "idle", stage |-> "", by |-> Super, leads |-> {}, x |-> None,
         y |-> None, keep |-> FALSE, want |-> {}, seen |-> [l \in Lead |-> Nobody]]

TypeOK ==
    /\ staff \in [Staff -> Profile]
    /\ owner \in [Lead -> Owner]
    /\ linked \in [Lead -> Investor \cup {None}]
    /\ book \in [Investor -> Owner]
    /\ here \subseteq Investor
    /\ log \in [Lead -> Owner]
    /\ carried \subseteq Investor
    /\ begun \in 0..MaxBegun
    /\ locks \subseteq [row : Row, mode : Mode, by : Request]
    /\ req \in [Request ->
         [op : Op, stage : Stage, by : Staff \cup {Super}, leads : SUBSET Lead,
          x : Row \cup {None}, y : Row \cup {None}, keep : BOOLEAN,
          want : SUBSET [row : Row, mode : Mode, at : Int],
          seen : [Lead -> Owner]]]

-----------------------------------------------------------------------------
(* Locks                                                                    *)

\* Who keeps r from having what it wants.
Blockers(r, w) ==
    {k.by : k \in {h \in locks : h.row = w.row /\ h.by # r /\ Conflict(h.mode, w.mode)}}

NextWants(r) == {w \in req[r].want : \A v \in req[r].want : w.at <= v.at}

Acquire(r) ==
    /\ \E w \in NextWants(r) :
        /\ Blockers(r, w) = {}
        /\ locks' = locks \cup {[row |-> w.row, mode |-> w.mode, by |-> r]}
        /\ req' = [req EXCEPT ![r].want = @ \ {w}]
    /\ UNCHANGED <<rows, begun>>

Holds(r, row) == \E k \in locks : k.by = r /\ k.row = row

\* r has the locks of its stage and goes on to the next one.
At(r, ops, stage) == req[r].op \in ops /\ req[r].stage = stage /\ req[r].want = {}
Begin(r, new) ==
    /\ req[r] = Idle /\ begun < MaxBegun
    /\ begun' = begun + 1
    /\ req' = [req EXCEPT ![r] = new]
    /\ UNCHANGED <<rows, locks>>
GoOn(r, stage, want) ==
    /\ req' = [req EXCEPT ![r].stage = stage, ![r].want = want]
    /\ UNCHANGED <<rows, begun, locks>>
End(r) ==
    /\ req' = [req EXCEPT ![r] = Idle]
    /\ locks' = {k \in locks : k.by # r}
    /\ UNCHANGED begun

\* A check refuses, a guarded update finds nothing, the process dies, or
\* Postgres breaks a deadlock: nothing is written.
RequestFails(r) == req[r] # Idle /\ End(r) /\ UNCHANGED rows

\* Inputs: people who are or may become agents, and IBs.
AgentIds == AsAgent \cup {s \in Staff : Team0[s].role = "agent"}
IbIds == AsIb \cup {s \in Staff : Team0[s].role = "ib"}

ActiveAgent(s) == s \in Staff /\ staff[s].role = "agent" /\ staff[s].active
ActiveIb(s) == s \in Staff /\ staff[s].role = "ib" /\ staff[s].active

-----------------------------------------------------------------------------
Init ==
    /\ staff = Team0
    /\ owner \in [Lead -> Owner0]
    /\ linked = [l \in Lead |-> None]
    /\ book = [i \in Investor |-> Nobody]
    /\ here = {}
    /\ log = owner
    /\ carried = {}
    /\ begun = 0
    /\ locks = {}
    /\ req = [r \in Request |-> Idle]

(* Leads, one by one or all of a list in one transaction                    *)

\* MUTANT: the lead is read without a lock.
AssignLeads_Unlocked(r) ==
    \E op \in LeadOp, ls \in {{l} : l \in Lead} \cup {Lead}, y \in Staff \cup {None} :
        /\ y \in CASE op = "toAgent" -> AgentIds [] op = "toIb" -> IbIds [] OTHER -> {None}
        /\ Begin(r, [Idle EXCEPT !.op = op, !.leads = ls, !.y = y, !.stage = "leads"])

AssignLeads(r) ==
    \E op \in LeadOp, ls \in {{l} : l \in Lead} \cup {Lead}, y \in Staff \cup {None} :
      \E by \in {Super} \cup {s \in Staff : ActiveIb(s)} :
        /\ y \in CASE op = "toAgent" -> AgentIds [] op = "toIb" -> IbIds [] OTHER -> {None}
        \* Lists, IBs and complete removal are the super admin's.
        /\ (op \in {"toIb", "removeAll"} \/ Cardinality(ls) # 1) => by = Super
        /\ Begin(r, [Idle EXCEPT !.op = op, !.by = by, !.leads = ls, !.y = y,
                                 !.stage = "leads", !.want = InIdOrder(ls, "update")])

\* The leads that this assignment changes; the others are skipped.
Touched(r) ==
    {l \in req[r].leads :
        /\ req[r].op = "removeAgent" => owner[l].agent # None
        /\ req[r].op = "removeAll" => owner[l] # Nobody}

NewOwner(r, from) ==
    CASE req[r].op = "toAgent" -> [ib |-> staff[req[r].y].ib, agent |-> req[r].y]
      [] req[r].op = "toIb" -> [ib |-> req[r].y, agent |-> None]
      [] req[r].op = "removeAgent" -> [from EXCEPT !.agent = None]
      [] req[r].op = "removeAll" -> Nobody

\* Per lead: the columns and the history refer to staff rows, then the
\* linked investor is locked.
WriteLocks(r) ==
    UNION {Refs({NewOwner(r, owner[l]).ib, owner[l].ib, owner[l].agent}, 2 * l)
             \cup (IF linked[l] = None THEN {} ELSE {Want(linked[l], "update", 2 * l + 1)})
           : l \in Touched(r)}

LockTarget(r) ==
    /\ At(r, {"toAgent", "toIb"}, "leads")
    /\ GoOn(r, "staff", {Want(req[r].y, "update", 0)})

MayAssign(r) ==
    LET by == req[r].by
        y == req[r].y
    IN  /\ by # Super => \A l \in req[r].leads : owner[l].ib = by
        /\ req[r].op = "toIb" => ActiveIb(y)
        /\ req[r].op = "toAgent" =>
             ActiveAgent(y) /\ staff[y].ib # None /\ (by # Super => staff[y].ib = by)

CheckAssignment(r) ==
    /\ \/ At(r, {"toAgent", "toIb"}, "staff")
       \/ At(r, {"removeAgent", "removeAll"}, "leads")
    /\ MayAssign(r)
    /\ req' = [req EXCEPT ![r].stage = "write", ![r].want = WriteLocks(r), ![r].seen = owner]
    /\ UNCHANGED <<rows, begun, locks>>

WriteAssignment(r) ==
    LET touched == Touched(r)
        persons == {linked[l] : l \in touched} \ {None}
        LeadOf(i) == CHOOSE l \in touched : linked[l] = i
    IN  /\ At(r, LeadOp, "write")
        /\ owner' = [l \in Lead |-> IF l \in touched THEN NewOwner(r, owner[l]) ELSE owner[l]]
        /\ log' = [l \in Lead |->
                     IF l \in touched THEN NewOwner(r, req[r].seen[l]) ELSE log[l]]
        /\ book' = [i \in Investor |->
                      IF i \in persons THEN NewOwner(r, owner[LeadOf(i)]) ELSE book[i]]
        /\ carried' = carried \ persons
        /\ End(r)
        /\ UNCHANGED <<staff, linked, here>>

(* assignInvestor                                                           *)

AssignInvestor(r) ==
    \E i \in here, a \in AgentIds \cup {None} :
        Begin(r, [Idle EXCEPT !.op = "assignInvestor", !.x = i, !.y = a,
                              !.stage = "leads", !.want = {Want(i, "update", 0)}])

\* MUTANT: the target is read without a lock.
LockAgent_Unlocked(r) ==
    /\ At(r, {"assignInvestor"}, "leads")
    /\ GoOn(r, "staff", {})

LockAgent(r) ==
    /\ At(r, {"assignInvestor"}, "leads")
    /\ GoOn(r, "staff", IF req[r].y = None THEN {} ELSE {Want(req[r].y, "share", 0)})

CheckAgent(r) ==
    LET a == req[r].y
    IN  /\ At(r, {"assignInvestor"}, "staff")
        /\ a # None => ActiveAgent(a) /\ staff[a].ib # None
        /\ GoOn(r, "write", IF a = None THEN {} ELSE Refs({staff[a].ib}, 0))

WriteInvestor(r) ==
    LET i == req[r].x
        a == req[r].y
    IN  /\ At(r, {"assignInvestor"}, "write")
        /\ book' = [book EXCEPT ![i] =
              IF a = None THEN Nobody ELSE [ib |-> staff[a].ib, agent |-> a]]
        /\ carried' = carried \ {i}
        /\ End(r)
        /\ UNCHANGED <<staff, owner, linked, here, log>>

-----------------------------------------------------------------------------
(* demoteAgent and transferAgentToIb                                        *)

\* y is the agent who takes over, or nobody; keep says whether the leads stay
\* in the IB's queue.
DemoteAgent(r) ==
    \E x \in AgentIds, y \in AgentIds \cup {None}, keep \in BOOLEAN :
        /\ y # None => ~keep
        /\ Begin(r, [Idle EXCEPT !.op = "demoteAgent", !.x = x, !.y = y, !.keep = keep,
                       !.stage = "leads",
                       !.want = InIdOrder({l \in Lead : owner[l].agent = x}, "update")])

\* y is the new IB; keep says whether the leads stay with the old one.
TransferAgent(r) ==
    \E x \in AgentIds, y \in IbIds, keep \in BOOLEAN :
        Begin(r, [Idle EXCEPT !.op = "transfer", !.x = x, !.y = y, !.keep = keep,
                    !.stage = "leads",
                    !.want = InIdOrder({l \in Lead : owner[l].agent = x}, "update")])

LockProfiles(r) ==
    /\ \/ At(r, {"demoteAgent", "transfer"}, "leads")
       \/ At(r, {"demoteIb"}, "team")
    /\ GoOn(r, "staff", InIdOrder({req[r].x, req[r].y} \ {None}, "update"))

MayDemoteAgent(x, y) ==
    /\ staff[x].active /\ staff[x].role = "agent"
    /\ y # None => y # x /\ ActiveAgent(y) /\ staff[y].ib = staff[x].ib /\ staff[y].ib # None

MayDemoteIb(x, y) == ActiveIb(x) /\ ActiveIb(y) /\ x # y

MayTransfer(x, y) ==
    ActiveAgent(x) /\ ActiveIb(y) /\ staff[x].ib \notin {None, y}

\* The owner that a lead of the demoted or transferred agent gets, or an
\* investor: "from" is the present one.
Handover(r, from) ==
    LET x == req[r].x
        y == req[r].y
    IN  CASE req[r].op = "demoteAgent" /\ y # None -> [ib |-> staff[y].ib, agent |-> y]
          [] req[r].op = "demoteAgent" /\ y = None ->
               IF req[r].keep THEN [from EXCEPT !.agent = None] ELSE Nobody
          [] req[r].op = "transfer" ->
               IF req[r].keep THEN [from EXCEPT !.agent = None] ELSE [from EXCEPT !.ib = y]
          [] req[r].op = "demoteIb" -> [from EXCEPT !.ib = y]

\* The locks of one update and one history row per lead.
MoveLocks(r, ls) ==
    UNION {{Want(l, "nokey", 2 * l)}
             \cup Refs({owner[l].ib, owner[l].agent, Handover(r, owner[l]).ib}, 2 * l + 1)
           : l \in ls}

\* The leads owned now, read without waiting for those being assigned.
OwnedLeads(r) ==
    {l \in Lead : IF req[r].op = "demoteIb" THEN owner[l].ib = req[r].x
                  ELSE owner[l].agent = req[r].x}

\* MUTANT: only the leads locked in the beginning are moved.
RefreshLeads_NotRefreshed(r) ==
    LET owned == {l \in OwnedLeads(r) : Holds(r, l)}
    IN  /\ \/ At(r, {"demoteAgent"}, "staff") /\ MayDemoteAgent(req[r].x, req[r].y)
           \/ At(r, {"transfer"}, "staff") /\ MayTransfer(req[r].x, req[r].y)
           \/ At(r, {"demoteIb"}, "staff") /\ MayDemoteIb(req[r].x, req[r].y)
        /\ req' = [req EXCEPT ![r].stage = "move", ![r].leads = owned,
                              ![r].seen = owner, ![r].want = MoveLocks(r, owned)]
        /\ UNCHANGED <<rows, begun, locks>>

RefreshLeads(r) ==
    LET owned == OwnedLeads(r)
    IN  /\ \/ At(r, {"demoteAgent"}, "staff") /\ MayDemoteAgent(req[r].x, req[r].y)
           \/ At(r, {"transfer"}, "staff") /\ MayTransfer(req[r].x, req[r].y)
           \/ At(r, {"demoteIb"}, "staff") /\ MayDemoteIb(req[r].x, req[r].y)
        /\ req' = [req EXCEPT ![r].stage = "move", ![r].leads = owned,
                              ![r].seen = owner, ![r].want = MoveLocks(r, owned)]
        /\ UNCHANGED <<rows, begun, locks>>

\* The guarded updates of the leads: one that changes nothing aborts.
StillOwned(r) ==
    /\ req[r].leads \subseteq OwnedLeads(r)
    /\ req[r].op = "transfer" => \A l \in req[r].leads : owner[l].ib = req[r].seen[l].ib

LockInvestors(r) ==
    LET x == req[r].x
        found == {i \in here : IF req[r].op = "demoteIb" THEN book[i].ib = x
                               ELSE book[i].agent = x}
    IN  /\ \/ At(r, {"demoteAgent", "transfer"}, "move") /\ StillOwned(r)
           \/ At(r, {"demoteIb"}, "agents")
        /\ GoOn(r, "investors",
                UNION {{Want(i, "nokey", 2 * i)} \cup Refs({Handover(r, book[i]).ib}, 2 * i + 1)
                       : i \in found})

\* Investors that the last update finds again under their locks.
MovedInvestors(r) ==
    {i \in here : Holds(r, i) /\ (IF req[r].op = "demoteIb" THEN book[i].ib = req[r].x
                                  ELSE book[i].agent = req[r].x)}

MoveBook(r) ==
    /\ owner' = [l \in Lead |-> IF l \in req[r].leads THEN Handover(r, owner[l]) ELSE owner[l]]
    /\ log' = [l \in Lead |->
                 IF l \in req[r].leads THEN Handover(r, req[r].seen[l]) ELSE log[l]]
    /\ book' = [i \in Investor |->
                  IF i \in MovedInvestors(r) THEN Handover(r, book[i]) ELSE book[i]]
    /\ carried' = IF req[r].op = "demoteAgent" THEN carried \ MovedInvestors(r) ELSE carried
    /\ End(r)
    /\ UNCHANGED <<linked, here>>

CommitDemotion(r) ==
    /\ At(r, {"demoteAgent"}, "investors")
    /\ staff' = [staff EXCEPT ![req[r].x].active = FALSE]
    /\ MoveBook(r)

CommitTransfer(r) ==
    /\ At(r, {"transfer"}, "investors")
    /\ staff' = [staff EXCEPT ![req[r].x].ib = req[r].y]
    /\ MoveBook(r)

-----------------------------------------------------------------------------
(* demoteIb                                                                 *)

DemoteIb(r) ==
    \E x, y \in IbIds :
        Begin(r, [Idle EXCEPT !.op = "demoteIb", !.x = x, !.y = y, !.stage = "leads",
                    !.want = InIdOrder({l \in Lead : owner[l].ib = x}, "update")])

Team(ib) == {s \in Staff : staff[s].role = "agent" /\ staff[s].ib = ib}

LockTeam(r) ==
    /\ At(r, {"demoteIb"}, "leads")
    /\ GoOn(r, "team", InIdOrder(Team(req[r].x), "update"))

\* One update moves the team as it is now, whoever has joined meanwhile.
LockAgents(r) ==
    /\ At(r, {"demoteIb"}, "move")
    /\ StillOwned(r)
    /\ GoOn(r, "agents", InIdOrder(Team(req[r].x), "nokey"))

CommitIbDemotion(r) ==
    LET x == req[r].x
        team == {s \in Team(x) : Holds(r, s)}
    IN  /\ At(r, {"demoteIb"}, "investors")
        /\ staff' = [s \in Staff |->
                       CASE s = x -> [staff[s] EXCEPT !.active = FALSE]
                         [] s \in team \ {x} -> [staff[s] EXCEPT !.ib = req[r].y]
                         [] OTHER -> staff[s]]
        /\ MoveBook(r)

(* promoteToAgent and promoteToIb: their checks are unlocked reads          *)

Promote(r) ==
    \/ \E e \in AsAgent, p \in IbIds :
         /\ ActiveIb(p) /\ staff[e].role # "ib"
         /\ Begin(r, [Idle EXCEPT !.op = "promoteAgent", !.x = e, !.y = p, !.stage = "write",
                        !.want = {Want(e, "nokey", 0)} \cup Refs({p}, 1)])
    \/ \E e \in AsIb :
         /\ staff[e].role # "agent"
         /\ Begin(r, [Idle EXCEPT !.op = "promoteIb", !.x = e, !.stage = "write",
                        !.want = {Want(e, "nokey", 0)}])

WritePromotion(r) ==
    /\ At(r, {"promoteAgent", "promoteIb"}, "write")
    /\ staff' = [staff EXCEPT ![req[r].x] =
         [role |-> IF req[r].op = "promoteIb" THEN "ib" ELSE "agent",
          ib |-> req[r].y, active |-> TRUE]]
    /\ End(r)
    /\ UNCHANGED <<owner, linked, book, here, log, carried>>

-----------------------------------------------------------------------------
(* Investors come to exist and are linked to leads                          *)

\* By the application form or by signing in; nobody owns them yet.
CreateInvestor(i) ==
    /\ i \notin here
    /\ here' = here \cup {i}
    /\ UNCHANGED <<staff, owner, linked, book, log, carried, begun, locks, req>>

\* orderLeadsForEmailMatch: assigned leads first.
Preferred(cs) ==
    LET assigned == {l \in cs : owner[l].agent # None}
    IN  IF assigned = {} THEN cs ELSE assigned

\* linkLeadOnInvestorCreate reads its candidates without a lock ...
LinkLead(r) ==
    \E i \in here :
      LET found == {l \in Lead : PersonOf[l] = i /\ linked[l] = None}
      IN  \E l \in Preferred(found) :
            /\ \A k \in Lead : linked[k] # i
            /\ Begin(r, [Idle EXCEPT !.op = "link", !.x = i, !.y = l, !.leads = found,
                           !.seen = owner, !.stage = "leads",
                           !.want = {Want(l, "nokey", 0)} \cup Refs({i}, 1)])

\* ... takes the next one if this one was linked meanwhile ...
NextCandidate(r) ==
    /\ At(r, {"link"}, "leads")
    /\ linked[req[r].y] # None
    /\ \E l \in req[r].leads \ {req[r].y} :
         req' = [req EXCEPT ![r].y = l, ![r].leads = @ \ {req[r].y},
                            ![r].want = {Want(l, "nokey", 0)} \cup Refs({req[r].x}, 1)]
    /\ UNCHANGED <<rows, begun, locks>>

LinkTaken(r) ==
    LET seen == req[r].seen[req[r].y]
    IN  /\ At(r, {"link"}, "leads")
        /\ linked[req[r].y] = None
        /\ \A k \in Lead : linked[k] # req[r].x
        /\ GoOn(r, "write",
                IF seen.agent = None THEN {}
                ELSE {Want(req[r].x, "nokey", 2)} \cup Refs({seen.agent, seen.ib}, 3))

\* ... and copies the owner it read to an investor without an agent.
CommitLink(r) ==
    LET i == req[r].x
        l == req[r].y
        seen == req[r].seen[l]
    IN  /\ At(r, {"link"}, "write")
        /\ linked' = [linked EXCEPT ![l] = i]
        /\ IF seen.agent # None /\ book[i].agent = None
           THEN book' = [book EXCEPT ![i] = seen] /\ carried' = carried \cup {i}
           ELSE UNCHANGED <<book, carried>>
        /\ End(r)
        /\ UNCHANGED <<staff, owner, here, log>>

\* convertLeadToInvestorInvite reads the lead and its person without a lock.
ConvertLead(r) ==
    \E l \in Lead :
      LET i == PersonOf[l]
      IN  /\ linked[l] = None
          /\ Begin(r, [Idle EXCEPT !.op = "convert", !.x = i, !.y = l, !.keep = i \in here,
                         !.seen = owner, !.stage = "write",
                         !.want = IF i \in here
                                  THEN {Want(l, "nokey", 1)} \cup Refs({i}, 2)
                                  ELSE {Want(i, "nokey", 0), Want(l, "nokey", 2)}
                                         \cup Refs({owner[l].ib, owner[l].agent}, 1)])

\* The update of the lead is unguarded; the unique index on investor_id and
\* that on the email refuse a second link and a second investor.
CommitConversion(r) ==
    LET i == req[r].x
        l == req[r].y
    IN  /\ At(r, {"convert"}, "write")
        /\ \A k \in Lead \ {l} : linked[k] # i
        /\ linked' = [linked EXCEPT ![l] = i]
        /\ \/ req[r].keep /\ UNCHANGED <<book, here, carried>>
           \/ /\ ~req[r].keep /\ i \notin here
              /\ here' = here \cup {i}
              /\ book' = [book EXCEPT ![i] = req[r].seen[l]]
              /\ carried' = carried \cup {i}
        /\ End(r)
        /\ UNCHANGED <<staff, owner, log>>

-----------------------------------------------------------------------------
LeadSteps(r) ==
    AssignLeads(r) \/ LockTarget(r) \/ CheckAssignment(r) \/ WriteAssignment(r)
InvestorSteps(r) ==
    AssignInvestor(r) \/ LockAgent(r) \/ CheckAgent(r) \/ WriteInvestor(r)
TeamSteps(r) ==
    \/ DemoteAgent(r) \/ TransferAgent(r) \/ DemoteIb(r)
    \/ LockTeam(r) \/ LockProfiles(r) \/ RefreshLeads(r) \/ LockAgents(r) \/ LockInvestors(r)
    \/ CommitDemotion(r) \/ CommitTransfer(r) \/ CommitIbDemotion(r)
    \/ Promote(r) \/ WritePromotion(r)
LinkSteps(r) ==
    \/ LinkLead(r) \/ NextCandidate(r) \/ LinkTaken(r) \/ CommitLink(r)
    \/ ConvertLead(r) \/ CommitConversion(r)

Next ==
    \/ \E r \in Request : LeadSteps(r) \/ InvestorSteps(r) \/ TeamSteps(r) \/ LinkSteps(r)
                            \/ Acquire(r) \/ RequestFails(r)
    \/ \E i \in Investor : CreateInvestor(i)

Spec == Init /\ [][Next]_vars

-----------------------------------------------------------------------------
(* Properties                                                               *)

(* No lead is left with an agent who has been deactivated, in whatever      *)
(* order demotions, transfers and assignments to the same agent take their  *)
(* locks (demoteAgent's refresh, the agent check of the assignment core).   *)
LeadAgentsActive ==
    \A l \in Lead : owner[l].agent # None => ActiveAgent(owner[l].agent)

(* An investor with a deactivated agent got it by linking: a sign-in or a   *)
(* conversion copied the owner that a lead had before the demotion.  Every  *)
(* other way of assigning an investor keeps demotion out.                   *)
StaleOwnersAreCarried ==
    \A i \in Investor :
        book[i].agent # None /\ ~ActiveAgent(book[i].agent) => i \in carried

(* The last row of the assignment history names the owner a lead has, also  *)
(* when the row was written from a read that came before the locks.         *)
HistoryIsExact == log = owner

(* An active agent's IB is active: demotion of an IB leaves nobody behind   *)
(* in the team ("preventing stale team membership", demote-actions.ts:312). *)
(* The code does not keep it (README, section 4).                           *)
TeamsHaveActiveIb ==
    \A s \in Staff : ActiveAgent(s) => ActiveIb(staff[s].ib)

(* No transactions wait for each other in a circle.  The code does not keep *)
(* it (README, section 4); Postgres aborts one of them.                     *)
Blocked(r) == req[r].want # {} /\ \A w \in NextWants(r) : Blockers(r, w) # {}
WaitsFor(r) == UNION {Blockers(r, w) : w \in NextWants(r)}
NoDeadlock ==
    \A W \in SUBSET Request :
        (\A r \in W : Blocked(r) /\ WaitsFor(r) \cap W # {}) => W = {}
=============================================================================
