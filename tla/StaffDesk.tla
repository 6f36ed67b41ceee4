------------------------------- MODULE StaffDesk -------------------------------
(***************************************************************************)
(* What a member of staff sees and may do from the pages of the back       *)
(* office: the dashboard with its cards, the lists of leads and investors, *)
(* the pages of one lead and of one investor, the documents, the activity  *)
(* feed, and the table in which the stage of several leads is set at once. *)
(*                                                                         *)
(* A page is put together from several statements without a transaction,   *)
(* so that ownership may change between them.  One reader loads pages;     *)
(* meanwhile everybody writes, with one step for a whole transaction: how  *)
(* writers interleave is the subject of Ownership and Applications.        *)
(*                                                                         *)
(* Suspended accounts are left out, with the branches that look for them:  *)
(* no code sets that status.                                               *)
(***************************************************************************)
EXTENDS Integers, SequencesExt

CONSTANTS
    Supers, Ibs, Agents, Lead, Investor,
    Team,                      \* the IB of an agent
    Start,                     \* the records the other modules may leave behind
    Stages,                    \* the stages that are set (bound)
    StaleAfter,                \* days without activity
    FeedLimit, Overfetch,      \* lines of the feed, events read for a scoped role
    MaxNow, MaxWrites,         \* bounds: days, transactions of others
    None

Staff == Supers \cup Ibs \cup Agents
Entity == Lead \cup Investor
Terminal == {"unqualified", "duplicate", "converted"}
Settable == {"new", "contacted", "qualified", "unqualified", "duplicate"}
BulkStages == Stages \cap {"contacted", "qualified", "unqualified"}
Open == {"submitted", "contacted"}
KycPending == {"submitted", "under_review"}

LeadRow ==
    [ib : Ibs \cup {None}, agent : Agents \cup {None}, status : Terminal \cup Settable,
     touched : {None} \cup 0..MaxNow, investor : Investor \cup {None}]
InvestorRow ==
    [ib : Ibs \cup {None}, agent : Agents \cup {None},
     account : {"pending_access", "active"}, user : BOOLEAN,
     app : {"none", "approved", "rejected"} \cup Open,
     kyc : {"not_started", "approved", "rejected"} \cup KycPending,
     ask : {"none", "pending", "first_approval", "confirmed", "agreement", "declined"}]

\* A part of a page: what it tells, and of whom.
Part == {"lead", "attempts", "history", "detail", "sign-ins", "bundle", "activity",
         "interest", "row", "more", "line"} \X Entity

ASSUME StaffDeskAssumption ==
    /\ Team \in [Agents -> Ibs]
    /\ Stages \subseteq Settable
    /\ Start \subseteq [lead : [Lead -> LeadRow], investor : [Investor -> InvestorRow]]
    /\ {StaleAfter, FeedLimit, Overfetch, MaxNow, MaxWrites} \subseteq Nat
    /\ None \notin Staff \cup Entity /\ Lead \cap Investor = {} /\ IsFiniteSet(Lead)

VARIABLES
    lead, investor,  \* the rows
    active,          \* agents that are not deactivated
    events,          \* audit_events, oldest first
    page,            \* the page of the reader; "found" holds the records whose
                     \* owners were read, "book" what has been in the reader's
                     \* book at some time since something was shown last
    table,           \* a table of leads on its screen
    writes, now

db == <<lead, investor, active, events, writes, now>>
deskVars == <<db, page, table>>

NoPage == [who |-> None, kind |-> "none", at |-> "none", todo |-> <<>>, found |-> {},
           shown |-> {}, book |-> {}]
\* A search: its stage filter ("" is none), assignment, and two flags.
Filter == [status : {"", "new", "converted"}, assignment : {"any", "unassigned", "assigned"},
           stale : BOOLEAN, unassigned : BOOLEAN]
AnyLead == [status |-> "", assignment |-> "any", stale |-> FALSE, unassigned |-> FALSE]
NoTable == [at |-> "none", filter |-> AnyLead, rows |-> {}, selected |-> {},
            ids |-> {}, to |-> "contacted", failed |-> {}, again |-> FALSE]

Page ==
    [who : Staff \cup {None},
     kind : {"none", "lead", "investor", "file", "list", "checklist", "documents", "feed",
             "leads"},
     at : {"none", "row", "check", "read", "more", "leads", "owners", "done", "gone"},
     todo : Seq(Part), found : SUBSET Entity, shown : SUBSET Part, book : SUBSET Entity]
TableState ==
    [at : {"none", "idle", "post", "result"}, filter : Filter,
     rows : SUBSET Lead, selected : SUBSET Lead, ids : SUBSET Lead,
     to : Settable, failed : SUBSET Lead, again : BOOLEAN]

DeskTypeOK ==
    /\ lead \in [Lead -> LeadRow] /\ investor \in [Investor -> InvestorRow]
    /\ active \subseteq Agents
    /\ events \in Seq(Part)
    /\ page \in Page /\ table \in TableState
    /\ writes \in 0..MaxWrites /\ now \in 0..MaxNow

DeskInit ==
    /\ \E s \in Start : lead = s.lead /\ investor = s.investor
    /\ active = Agents /\ events = <<>>
    /\ page = NoPage /\ table = NoTable
    /\ writes = 0 /\ now = 0

-----------------------------------------------------------------------------
(* Books                                                                    *)

LeadVisible(who, l) ==
    \/ who \in Supers
    \/ who \in Ibs /\ lead[l].ib = who
    \/ who \in Agents /\ lead[l].agent = who

InvestorVisible(who, i) ==
    \/ who \in Supers
    \/ who \in Ibs /\ investor[i].ib = who
    \/ who \in Agents /\ investor[i].agent = who

Book(who) ==
    {l \in Lead : LeadVisible(who, l)} \cup {i \in Investor : InvestorVisible(who, i)}

Visible(who, e) == IF e \in Lead THEN LeadVisible(who, e) ELSE InvestorVisible(who, e)

\* Read once for a request; a deactivated profile has no context.
StaffContext(who) == who \in Staff /\ (who \in Agents => who \in active)

\* The agents that a selector offers; agents may not list them.
Roster(who) ==
    IF who \in Supers THEN active ELSE {a \in active : Team[a] = who}

-----------------------------------------------------------------------------
(* Lists of leads                                                           *)

Workable(l) == lead[l].status \notin Terminal

\* The badge of a row, computed in the browser.
StaleBadge(l) ==
    /\ Workable(l) /\ lead[l].touched # None
    /\ now - lead[l].touched > StaleAfter

\* The condition of the database.
StaleRow(l) ==
    /\ Workable(l)
    /\ lead[l].touched # None /\ lead[l].touched < now - StaleAfter

Queue == [AnyLead EXCEPT !.assignment = "unassigned"]
TeamLeads == [AnyLead EXCEPT !.assignment = "assigned"]

\* MUTANT: the queue keeps leads that are done with.
SearchWhere_AllStages(f, l) ==
    /\ f.status # "" => lead[l].status = f.status
    /\ f.assignment = "unassigned" => lead[l].agent = None
    /\ f.assignment = "assigned" => lead[l].agent # None
    /\ f.stale => StaleRow(l)
    /\ f.unassigned => lead[l].agent = None

SearchWhere(f, l) ==
    /\ f.status # "" => lead[l].status = f.status
    /\ f.assignment = "unassigned" => lead[l].agent = None /\ Workable(l)
    /\ f.assignment = "assigned" => lead[l].agent # None
    /\ f.stale => StaleRow(l)
    /\ f.unassigned => lead[l].agent = None

SearchLeads(who, f) == {l \in Lead : LeadVisible(who, l) /\ SearchWhere(f, l)}

\* The numbers in the headings of the sections.
CountStale(who, assignment) ==
    {l \in Lead : /\ LeadVisible(who, l) /\ StaleRow(l)
                  /\ assignment = "unassigned" => lead[l].agent = None
                  /\ assignment = "assigned" => lead[l].agent # None}

\* An IB has two sections, the others have one; an IB's "unassigned" link
\* changes nothing.
LeadsPage(who, f) ==
    IF who \in Ibs
    THEN SearchLeads(who, [Queue EXCEPT !.status = f.status, !.stale = f.stale])
           \cup SearchLeads(who, [TeamLeads EXCEPT !.status = f.status, !.stale = f.stale])
    ELSE SearchLeads(who, f)

-----------------------------------------------------------------------------
(* The dashboard                                                            *)

PendingRow(i) == investor[i].account = "pending_access" \/ investor[i].app \in Open

ListInvestors(who, filter) ==
    {i \in Investor : /\ InvestorVisible(who, i)
                      /\ filter = "pending" => PendingRow(i)
                      /\ filter = "unassigned" /\ who \in Supers => investor[i].agent = None
                      /\ filter = "identity" => investor[i].kyc = "submitted"}

PendingInterests(who, fourEyesOnly) ==
    {i \in Investor : /\ InvestorVisible(who, i)
                      /\ investor[i].ask \in {"pending", "first_approval"}
                      /\ fourEyesOnly => investor[i].ask = "first_approval"}

InterestCounts(who) ==
    LET mine == {i \in Investor : InvestorVisible(who, i)}
    IN  [requests |-> {i \in mine : investor[i].ask \in {"pending", "first_approval"}},
         fourEyes |-> {i \in mine : investor[i].ask = "first_approval"}]

WithoutAgreement(who) ==
    {i \in Investor : InvestorVisible(who, i) /\ investor[i].ask = "confirmed"}

\* The page with the filter "agreements" is empty for all but super admins.
AgreementsPage(who) == IF who \in Supers THEN WithoutAgreement(who) ELSE {}

LeadCounts(who) ==
    LET mine == {l \in Lead : LeadVisible(who, l) /\ Workable(l) /\ lead[l].agent = None}
    IN  [awaiting |-> {l \in mine : lead[l].ib = None},
         queue |-> {l \in mine : lead[l].ib # None}]

Kpis(who) ==
    LET mine == {i \in Investor : InvestorVisible(who, i)}
    IN  [investors |-> mine, identity |-> {i \in mine : investor[i].kyc \in KycPending}]

StaleCount(who) == {l \in Lead : StaleRow(l) /\ LeadVisible(who, l)}

\* What the cards count ...
Cards(who) ==
    [investors |-> Kpis(who).investors,
     identity |-> Kpis(who).identity,
     applications |-> {i \in Investor : InvestorVisible(who, i) /\ PendingRow(i)},
     requests |-> InterestCounts(who).requests,
     fourEyes |-> InterestCounts(who).fourEyes,
     agreements |-> IF who \in Supers THEN WithoutAgreement(who) ELSE {},
     unassigned |-> IF who \in Supers
                    THEN {i \in Investor : investor[i].agent = None} ELSE {},
     leads |-> IF who \in Supers THEN LeadCounts(who).awaiting ELSE LeadCounts(who).queue,
     stale |-> StaleCount(who)]

\* ... and what the pages behind their links list.
Behind(who) ==
    [investors |-> ListInvestors(who, "all"),
     identity |-> ListInvestors(who, "identity"),
     applications |-> ListInvestors(who, "pending"),
     requests |-> PendingInterests(who, FALSE),
     fourEyes |-> PendingInterests(who, TRUE),
     agreements |-> AgreementsPage(who),
     unassigned |-> IF who \in Supers THEN ListInvestors(who, "unassigned") ELSE {},
     leads |-> IF who \in Ibs THEN SearchLeads(who, Queue)
               ELSE LeadsPage(who, [AnyLead EXCEPT !.unassigned = TRUE]),
     stale |-> LeadsPage(who, [AnyLead EXCEPT !.stale = TRUE])]


-----------------------------------------------------------------------------
(* Pages                                                                    *)

Loading == page.at \notin {"none", "done", "gone"}

Opened(who, kind, at, todo, found, parts) ==
    /\ page = NoPage /\ StaffContext(who)  \* bound: one page
    /\ page' = [who |-> who, kind |-> kind, at |-> at, todo |-> todo, found |-> found,
                shown |-> parts, book |-> Book(who)]
    /\ table' = NoTable
    /\ UNCHANGED db

Show(at, parts, todo) ==
    page' = [page EXCEPT !.at = at, !.shown = @ \cup parts, !.todo = todo,
                         !.book = IF at = "done" THEN {} ELSE Book(page.who)]

\* "Not found", whether there is no such record or it is somebody else's.
Gone == page' = [page EXCEPT !.at = "gone", !.todo = <<>>, !.shown = {}, !.book = {}]

After(todo) == IF todo = <<>> THEN "done"
               ELSE IF Head(todo)[1] \in {"lead", "detail"} THEN "row" ELSE "check"

\* The page of a lead ends with the record of its investor, if the reader may
\* see it; the page of an investor is nothing without it.
Refused == IF page.kind = "lead" /\ Head(page.todo)[1] \in {"detail", "sign-ins"}
           THEN Show("done", {}, <<>>) ELSE Gone

\* The parts.
Attempts(l) == <<"attempts", l>>
History(l) == <<"history", l>>
Detail(i) == <<"detail", i>>
SignIns(i) == <<"sign-ins", i>>
Bundle(i) == <<"bundle", i>>
Activity(i) == <<"activity", i>>

OpenLead == \E who \in Staff, l \in Lead :
    Opened(who, "lead", "row", << <<"lead", l>>, Attempts(l), History(l) >>, {}, {})

OpenInvestor == \E who \in Staff, i \in Investor :
    Opened(who, "investor", "row", << Detail(i), Bundle(i), Activity(i) >>, {}, {})

\* One file, by its id.
OpenFile == \E who \in Staff, i \in Investor :
    Opened(who, "file", "check", << <<"more", i>> >>, {}, {})

\* The first read of a record is checked with the owner that it returns.
AfterLead(l, rest) ==
    rest \o (IF lead[l].investor = None THEN <<>> ELSE << Detail(lead[l].investor) >>)

AfterInvestor(i, rest) == (IF investor[i].user THEN << SignIns(i) >> ELSE <<>>) \o rest

ReadRow ==
    LET e == Head(page.todo)[2]
        more == IF e \in Lead THEN AfterLead(e, Tail(page.todo))
                              ELSE AfterInvestor(e, Tail(page.todo))
    IN  /\ page.at = "row"
        /\ IF Visible(page.who, e) THEN Show(After(more), {Head(page.todo)}, more)
                                  ELSE Refused
        /\ UNCHANGED <<db, table>>

\* MUTANT: a part of a record is read because the record was shown.
MayRead_Unchecked(who, part) == part[1] = "sign-ins" => investor[part[2]].user

MayRead(who, part) ==
    /\ Visible(who, part[2])
    /\ part[1] = "sign-ins" => investor[part[2]].user

\* Each of the other parts reads the owner again before its own rows.
CheckPart ==
    /\ page.at = "check"
    /\ IF MayRead(page.who, Head(page.todo)) THEN page' = [page EXCEPT !.at = "read"]
                                             ELSE Refused
    /\ UNCHANGED <<db, table>>

ReadPart ==
    /\ page.at = "read"
    /\ Show(After(Tail(page.todo)), {Head(page.todo)}, Tail(page.todo))
    /\ UNCHANGED <<db, table>>

\* Lists whose rows are found by owner and completed by id: investors with
\* their applications and interests, the checklist with the last screenings.
OpenList == \E who \in Staff, filter \in {"all", "pending"} :
    Opened(who, "list", "more", <<>>, {}, {"row"} \X ListInvestors(who, filter))

OpenChecklist == \E who \in Staff :
    Opened(who, "checklist", "more", <<>>, {}, {"row"} \X ListInvestors(who, "all"))

ReadMore ==
    /\ page.at = "more"
    /\ Show("done", {<<"more", part[2]>> : part \in page.shown}, <<>>)
    /\ UNCHANGED <<db, table>>

\* Files of investors: found by owner, then shown if the owner, read again, is
\* still the reader's.
OpenDocuments == \E who \in Staff :
    Opened(who, "documents", "owners", <<>>, ListInvestors(who, "all"), {})

ReadDocumentOwners ==
    /\ page.at = "owners" /\ page.kind = "documents"
    /\ Show("done", {"row"} \X {i \in page.found : Visible(page.who, i)}, <<>>)
    /\ UNCHANGED <<db, table>>

\* The newest events; so many more for those who will not see them all.
OpenFeed == \E who \in Staff :
    LET most == IF who \in Supers THEN FeedLimit ELSE Overfetch
        from == IF Len(events) > most THEN Len(events) - most + 1 ELSE 1
    IN  Opened(who, "feed", "leads", SubSeq(events, from, Len(events)), {}, {})

\* The owners of the leads are looked up first, those of the investors next.
ReadEventLeads ==
    /\ page.at = "leads"
    /\ page' = [page EXCEPT !.at = "owners",
                  !.found = {l \in {part[2] : part \in ToSet(page.todo)} \cap Lead :
                               LeadVisible(page.who, l)}]
    /\ UNCHANGED <<db, table>>

EventVisible(part) ==
    IF part[2] \in Lead THEN part[2] \in page.found ELSE InvestorVisible(page.who, part[2])

\* The last lines of those that are kept.
Newest(kept) == {k \in kept : Cardinality({j \in kept : j > k}) < FeedLimit}

ReadEventOwners ==
    LET kept == {k \in DOMAIN page.todo : EventVisible(page.todo[k])}
    IN  /\ page.at = "owners" /\ page.kind = "feed"
        /\ Show("done", {page.todo[k] : k \in Newest(kept)}, <<>>)
        /\ UNCHANGED <<db, table>>

-----------------------------------------------------------------------------
(* The table of leads                                                       *)

Filters(who) == IF who \in Ibs THEN {Queue, TeamLeads}
                ELSE {AnyLead, [AnyLead EXCEPT !.status = "converted"]}

OpenTable(who, f) ==
    LET rows == SearchLeads(who, f)
    IN  /\ page = NoPage /\ StaffContext(who)
        /\ page' = [NoPage EXCEPT !.who = who, !.kind = "leads", !.at = "done",
                                  !.shown = {"row"} \X rows]
        /\ table' = [NoTable EXCEPT !.at = "idle", !.filter = f, !.rows = rows]
        /\ UNCHANGED db

OpenLeads == \E who \in Staff : \E f \in Filters(who) : OpenTable(who, f)

OnTable == table.at # "none" /\ UNCHANGED <<db, page>>

ToggleOne == \E l \in table.rows :
    /\ OnTable
    /\ table' = [table EXCEPT !.selected = SymDiff(@, {l})]

ToggleAll ==
    /\ OnTable /\ table.rows # {}
    /\ table' = [table EXCEPT !.selected = IF table.rows \subseteq @ THEN {} ELSE table.rows]

RunBulk == \E to \in BulkStages :
    /\ OnTable
    /\ table.at = "idle" /\ table.selected # {}
    /\ table' = [table EXCEPT !.at = "post", !.ids = table.selected, !.to = to, !.failed = {}]

\* What was answered is said, what failed stays selected, the rest is fetched
\* again.
RunBulkResult ==
    /\ OnTable
    /\ table.at = "result"
    /\ table' = [table EXCEPT !.at = "idle", !.selected = table.failed,
                              !.again = @ \/ table.ids \ table.failed # {}]

\* MUTANT: the selection outlives its rows.
Selection_Kept(rows) == table.selected

\* Other rows than before begin with an empty selection and no messages.
Selection(rows) == IF rows = table.rows THEN table.selected ELSE {}

\* Rows fetched again appear when no post is under way.
CommitRows ==
    LET rows == SearchLeads(page.who, table.filter)
    IN  /\ table.again /\ table.at = "idle"
        /\ page' = [page EXCEPT !.shown = {"row"} \X rows]
        /\ table' = [table EXCEPT !.rows = rows, !.selected = Selection(rows), !.again = FALSE,
                                  !.failed = IF rows = table.rows THEN @ ELSE {}]
        /\ UNCHANGED db

-----------------------------------------------------------------------------
(* What everybody writes                                                    *)

\* One transaction with its audit event, or <<>>: most assignments of leads
\* have a history of their own.
Wrote(line) ==
    /\ writes < MaxWrites /\ writes' = writes + 1
    /\ page = NoPage \/ Loading \/ table # NoTable  \* bound: not after a finished page
    /\ events' = events \o line
    /\ now' = now
    /\ \E who \in {page.who} :
         page' = [page EXCEPT !.book = IF Loading THEN @ \cup Book(who)' ELSE {}]

WroteLeads(rows, line) ==
    /\ lead' = rows
    /\ UNCHANGED <<investor, active, table>>
    /\ Wrote(line)

WroteInvestor(i, row, line) ==
    /\ investor' = [investor EXCEPT ![i] = row]
    /\ UNCHANGED <<lead, active, table>>
    /\ Wrote(line)

\* The routes that the panel offers to "who" for a lead.
Routes(who, row) ==
    {[row EXCEPT !.agent = a, !.ib = Team[a]] : a \in Roster(who) \ {row.agent}}
      \cup (IF row.agent = None THEN {} ELSE {[row EXCEPT !.agent = None]})
      \cup (IF who \in Supers
            THEN {[row EXCEPT !.ib = b, !.agent = None] : b \in Ibs \ {row.ib}}
                   \cup {[row EXCEPT !.ib = None, !.agent = None]}
            ELSE {})

\* New owners of leads, an activity of today; their investors follow them.
GiveTo(rows) ==
    /\ lead' = [l \in Lead |-> IF l \in DOMAIN rows THEN [rows[l] EXCEPT !.touched = now]
                               ELSE lead[l]]
    /\ investor' = [i \in Investor |->
         IF \E l \in DOMAIN rows : rows[l].investor = i
         THEN LET l == CHOOSE k \in DOMAIN rows : rows[k].investor = i
              IN  [investor[i] EXCEPT !.ib = rows[l].ib, !.agent = rows[l].agent]
         ELSE investor[i]]
    /\ UNCHANGED <<active, table>>
    /\ Wrote(SetToSeq({"line"} \X DOMAIN rows))

AssignFromPanel == \E who \in Supers \cup Ibs, l \in Lead :
    /\ LeadVisible(who, l)
    /\ \E row \in Routes(who, lead[l]) \ {lead[l]} : GiveTo([k \in {l} |-> row])

\* All leads of a list, whatever their stage; who has no owner cannot lose it.
AssignAll == \E to \in active \cup Ibs \cup {None} :
    LET listed == {l \in Lead : to # None \/ <<lead[l].ib, lead[l].agent>> # <<None, None>>}
    IN  GiveTo([l \in listed |-> [lead[l] EXCEPT
                  !.agent = IF to \in Agents THEN to ELSE None,
                  !.ib = IF to \in Agents THEN Team[to] ELSE to]])

\* A row after its agent "a" is gone: to the successor, to the IB or to nobody.
Moved(row, a, keep, successor) ==
    IF row.agent # a THEN row
    ELSE IF successor # None THEN [row EXCEPT !.agent = successor, !.ib = Team[successor]]
    ELSE IF keep THEN [row EXCEPT !.agent = None]
    ELSE [row EXCEPT !.agent = None, !.ib = None]

\* An agent leaves; so do the books, one way or another.
DemoteAgent == \E a \in active, keep \in BOOLEAN, b \in Agents \cup {None} :
    /\ b # None => b \in active \ {a} /\ Team[b] = Team[a] /\ ~keep
    /\ active' = active \ {a}
    /\ lead' = [l \in Lead |-> IF lead[l].agent = a
                               THEN [Moved(lead[l], a, keep, b) EXCEPT !.touched = now]
                               ELSE lead[l]]
    /\ investor' = [i \in Investor |-> Moved(investor[i], a, keep, b)]
    /\ UNCHANGED table
    /\ Wrote(<<>>)

MaySetStage(who, l) ==
    /\ LeadVisible(who, l)
    /\ ~(lead[l].status = "converted" /\ lead[l].investor # None)

SetStage(l, to) == [lead[l] EXCEPT !.status = to, !.touched = now]

\* The selector of one row; the reader's own list is fetched again.
HandleStageChange == \E who \in Staff, l \in Lead, to \in Stages :
    /\ MaySetStage(who, l) /\ lead[l].status \notin {"converted", to}
    /\ lead' = [lead EXCEPT ![l] = SetStage(l, to)]
    /\ table' = [table EXCEPT !.again = @ \/ (who = page.who /\ l \in table.rows)]
    /\ UNCHANGED <<investor, active>>
    /\ Wrote(<< <<"line", l>> >>)

BulkSetLeadStatus ==
    LET may == {l \in table.ids : MaySetStage(page.who, l)}
    IN  /\ table.at = "post"
        /\ lead' = [l \in Lead |-> IF l \in may THEN SetStage(l, table.to) ELSE lead[l]]
        /\ table' = [table EXCEPT !.at = "result", !.failed = table.ids \ may]
        /\ UNCHANGED <<investor, active>>
        /\ Wrote(SetToSeq({"line"} \X may))

\* Of every agent, and of others who see the lead; a call may be logged days
\* later, but the lead's last activity is never set back.
LogCall == \E who \in Staff, l \in Lead, called \in 0..now :
    /\ LeadVisible(who, l)
    /\ WroteLeads([lead EXCEPT ![l].touched = IF @ # None /\ @ > called THEN @ ELSE called,
                              ![l].status = IF @ = "new" THEN "contacted" ELSE @],
                  << <<"line", l>> >>)

MayApprove(i) == investor[i].app \notin {"none", "rejected"}

Approved(row) == [row EXCEPT !.app = "approved", !.account = "active", !.user = TRUE]

\* The investor with the lead's email gets an application, the link, and if
\* that may be, an approval.
ConvertLead == \E who \in Staff, l \in Lead, i \in Investor :
    LET row == [investor[i] EXCEPT !.app = IF @ = "none" THEN "submitted" ELSE @]
    IN  /\ LeadVisible(who, l) /\ InvestorVisible(who, i)
        /\ lead[l].status \notin {"unqualified", "duplicate"}
        /\ lead[l].investor = None /\ \A k \in Lead : lead[k].investor # i
        /\ lead' = [lead EXCEPT ![l].status = "converted", ![l].investor = i]
        /\ investor' = [investor EXCEPT ![i] =
             IF row.app # "rejected" THEN Approved(row) ELSE row]
        /\ UNCHANGED <<active, table>>
        /\ Wrote(<< <<"line", i>> >>)

AssignInvestor == \E i \in Investor, a \in active \cup {None} :
    WroteInvestor(i, [investor[i] EXCEPT !.agent = a,
                        !.ib = IF a = None THEN None ELSE Team[a]], << <<"line", i>> >>)

-----------------------------------------------------------------------------
(* The investor's steps, and the panel of the investor's record             *)

\* The next step that the panel offers.
ActionPlan(row) ==
    IF row.app \in Open THEN "approve_invite"
    ELSE IF row.kyc \in KycPending THEN "approve_kyc"
    ELSE IF row.app = "approved" \/ row.account = "active" THEN "regenerate_invite"
    ELSE "none"

\* What the server does not refuse.
ServerAccepts(who, i, step) ==
    /\ InvestorVisible(who, i)
    /\ CASE step = "approve_invite" ->
              MayApprove(i) /\ (investor[i].app = "approved" /\ investor[i].user => who \in Supers)
         [] step = "approve_kyc" -> investor[i].kyc \in KycPending
         [] step = "regenerate_invite" -> who \in Supers /\ investor[i].user

\* The step was offered when the record was read; the server decides now.
RunPrimary == \E who \in Staff, i \in Investor :
    \E step \in {"approve_invite", "approve_kyc", "regenerate_invite"} :
        /\ ServerAccepts(who, i, step)
        /\ WroteInvestor(i, CASE step = "approve_invite" -> Approved(investor[i])
                              [] step = "approve_kyc" -> [investor[i] EXCEPT !.kyc = "approved"]
                              [] OTHER -> investor[i],
                         << <<"line", i>> >>)

\* Rejections are always within reach.
RejectFromPanel == \E who \in Staff, i \in Investor :
    /\ InvestorVisible(who, i)
    /\ \/ /\ investor[i].app \in Open
          /\ WroteInvestor(i, [investor[i] EXCEPT !.app = "rejected"], << <<"line", i>> >>)
       \/ /\ investor[i].kyc \in KycPending
          /\ WroteInvestor(i, [investor[i] EXCEPT !.kyc = "rejected"], << <<"line", i>> >>)

Apply == \E i \in Investor :
    /\ investor[i].account = "pending_access" /\ investor[i].app \notin Open
    /\ WroteInvestor(i, [investor[i] EXCEPT !.app = "submitted"], << <<"line", i>> >>)

SubmitKyc == \E i \in Investor :
    /\ investor[i].account = "active" /\ investor[i].kyc \in {"not_started", "rejected"}
    /\ WroteInvestor(i, [investor[i] EXCEPT !.kyc = "submitted"], << <<"line", i>> >>)

\* An interest is asked for and moves towards an agreement.
InterestMoves == \E i \in Investor, to \in {"pending", "first_approval", "confirmed", "agreement",
                                           "declined"} :
    /\ <<investor[i].ask, to>> \in
         ({"none", "declined"} \X {"pending"}) \cup ({"pending"} \X {"first_approval", "declined"})
           \cup ({"first_approval"} \X {"confirmed", "declined"})
           \cup {<<"confirmed", "agreement">>}
    /\ to = "pending" => investor[i].kyc = "approved"
    /\ WroteInvestor(i, [investor[i] EXCEPT !.ask = to], << <<"interest", i>> >>)

Tick ==
    /\ now < MaxNow /\ now' = now + 1
    /\ UNCHANGED <<lead, investor, active, events, writes, page, table>>

-----------------------------------------------------------------------------
Pages == OpenLead \/ OpenInvestor \/ OpenFile \/ OpenList \/ OpenChecklist \/ OpenDocuments
           \/ OpenFeed \/ OpenLeads
Reads == ReadRow \/ CheckPart \/ ReadPart \/ ReadMore \/ ReadDocumentOwners \/ ReadEventLeads
           \/ ReadEventOwners
Table == ToggleOne \/ ToggleAll \/ RunBulk \/ BulkSetLeadStatus \/ RunBulkResult \/ CommitRows
OfLeads == AssignFromPanel \/ AssignAll \/ DemoteAgent \/ HandleStageChange \/ LogCall
             \/ ConvertLead
OfInvestors == AssignInvestor \/ RunPrimary \/ RejectFromPanel \/ Apply \/ SubmitKyc
                 \/ InterestMoves

DeskNext == Pages \/ Reads \/ Table \/ OfLeads \/ OfInvestors \/ Tick

DeskSpec == DeskInit /\ [][DeskNext]_deskVars

-----------------------------------------------------------------------------
(* Properties                                                               *)

\* Every part of a page is about a record that was in its reader's book at
\* some time since the part before it was read: the owner is read again for
\* each part, so a record that has changed hands is not read to the end.
PagesAreScoped ==
    [][page.who = page'.who /\ Loading =>
         \A part \in page'.shown \ page.shown : part[2] \in page.book]_deskVars

\* What a card of the dashboard counts is what the page behind it lists, and
\* the numbers in the headings of the sections are those of their rows with a
\* badge.  Two cards are counted otherwise than their lists, see EveryCardMatches.
CardsMatchLists ==
    \A who \in Staff :
        /\ \A card \in DOMAIN Cards(who) \ {"identity", "leads"} :
             Cards(who)[card] = Behind(who)[card]
        /\ who \notin Supers => Cards(who).leads = Behind(who).leads
        /\ {l \in Lead : StaleBadge(l) /\ LeadVisible(who, l)}
             = CountStale(who, "unassigned") \cup CountStale(who, "assigned")

\* Not so in the code: the dashboard counts identity checks under review and
\* leads in nobody's queue, the pages list submitted checks and also the leads
\* of queues and those that are done with (README, section 4).
EveryCardMatches == \A who \in Staff : Cards(who) = Behind(who)

\* The step that the panel offers for a record is one that the server, asked
\* at once, does not refuse.  Not so in the code: the panel offers a new invite
\* to every role, the server makes one for a super admin (README, section 4).
PrimaryIsAccepted ==
    \A who \in Staff, i \in Investor :
        LET step == ActionPlan(investor[i])
        IN  InvestorVisible(who, i) /\ step # "none" => ServerAccepts(who, i, step)

\* The leads selected for a change at once are among the rows on the screen.
SelectionShown == table.selected \subseteq table.rows

\* What could not be changed "remains selected", while it is on the screen and
\* nobody unselects it.  Not so in the code: rows that come or go empty the
\* selection (README, section 4).
FailedStaySelected ==
    [][table.at = "idle" /\ CommitRows =>
         table.selected \cap table.failed \cap table'.rows \subseteq table'.selected]_deskVars
=============================================================================
