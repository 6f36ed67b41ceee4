----------------------------- MODULE PersonalRecord -----------------------------
(***************************************************************************)
(* The personal data of one investor: the onboarding form of the portal,   *)
(* the panel staff complete it with, a new application by the same email,  *)
(* the export the investor may ask for, and erasure.                       *)
(*                                                                         *)
(* Every server action reads the row first, without a lock, and writes in  *)
(* a transaction later; what it writes may come from what it read.  The    *)
(* steps of a request are its reads and its commit, and the clients before *)
(* them: a form has steps that are valid or not, a panel shows the row as  *)
(* it was when the page was rendered.                                      *)
(*                                                                         *)
(* Which values a field has is left out, except the phone, which staff may *)
(* leave blank.  The files erasure deletes are in InvestorDocuments.       *)
(***************************************************************************)
EXTENDS Naturals, FiniteSets, FiniteSetsExt

CONSTANTS
    Request,    \* slots for the tabs and requests at the same time
    App,        \* application rows
    MaxBegun    \* bound: requests begun altogether

ASSUME PersonalRecordAssumption == MaxBegun \in Nat

Type == {"individual", "company"}
Phone == {"none", "old", "new"}
Step == 0..2
Place == {"investor", "user", "lead"} \cup App

\* The columns of the investors row: birth stands for date of birth and
\* nationality, firm for the three company columns, address for every other
\* answer of the profile with a column of its own, answers and declared for
\* the two parts of eligibility_answers, accepted for the two timestamps.
Row == [type : Type, status : {"started", "completed"}, accepted : BOOLEAN,
        address : BOOLEAN, birth : BOOLEAN, firm : BOOLEAN, answers : BOOLEAN,
        declared : BOOLEAN, phone : Phone, erased : BOOLEAN]

VARIABLES
    row,        \* the investors row
    account,    \* its account_status
    session,    \* the investor is signed in
    apps,       \* investor_applications: "none" without a row
    lead,       \* a lead is linked
    personal,   \* the rows that hold personal data
    log,        \* audit events
    disclosed,  \* the requests whose export was returned
    begun,
    req

recordVars == <<row, account, session, apps, lead, personal, log, disclosed, begun, req>>
stored == <<row, account, session, apps, lead, personal, log, disclosed>>

NoForm == [type |-> "individual", step |-> 0, bad |-> {}]
Blank == [type |-> "individual", status |-> "started", accepted |-> FALSE,
          address |-> FALSE, birth |-> FALSE, firm |-> FALSE, answers |-> FALSE,
          declared |-> FALSE, phone |-> "none", erased |-> FALSE]
Idle == [op |-> "idle", at |-> "", form |-> NoForm, seen |-> Blank, apps |-> {}, lead |-> FALSE]

RecordTypeOK ==
    /\ row \in Row
    /\ account \in {"pending_access", "active"}
    /\ session \in BOOLEAN /\ lead \in BOOLEAN
    /\ apps \in [App -> {"none", "open", "closed"}]
    /\ personal \in SUBSET Place
    /\ log \in [completed : Nat, erased : Nat, exported : SUBSET Request]
    /\ disclosed \in SUBSET Request
    /\ begun \in 0..MaxBegun
    /\ req \in [Request ->
         [op : {"idle", "self", "staff", "apply", "erase", "export"},
          at : {"", "form", "posted", "write", "portal", "panel", "save", "accept",
                "saving", "accepting", "leads", "applications", "erase", "investor",
                "records", "audit", "audited"},
          form : [type : Type, step : Step, bad : SUBSET Step],
          seen : Row, apps : SUBSET App, lead : BOOLEAN]]

\* A started row, or one migrated as completed without its acceptances.
RecordInit ==
    /\ row \in [type : Type, status : {"started", "completed"}, accepted : {FALSE},
                address : {FALSE}, birth : {FALSE}, firm : {FALSE}, answers : {FALSE},
                declared : {FALSE}, phone : {"old"}, erased : {FALSE}]
    /\ account \in {"pending_access", "active"}
    /\ session = TRUE
    /\ apps = [a \in App |-> "none"]
    /\ lead = FALSE
    /\ personal = {"investor", "user"}
    /\ log = [completed |-> 0, erased |-> 0, exported |-> {}]
    /\ disclosed = {}
    /\ begun = 0
    /\ req = [r \in Request |-> Idle]

-----------------------------------------------------------------------------
Begin(r, new) ==
    /\ req[r] = Idle /\ begun < MaxBegun
    /\ begun' = begun + 1
    /\ req' = [req EXCEPT ![r] = new]
    /\ UNCHANGED stored
Is(r, op, at) == req[r].op = op /\ req[r].at = at
Go(r, at) == req' = [req EXCEPT ![r].at = at] /\ UNCHANGED begun
Client(r, f) == req' = [req EXCEPT ![r].form = f] /\ UNCHANGED <<begun, stored>>
End(r) == req' = [req EXCEPT ![r] = Idle] /\ UNCHANGED begun

Complete(i) == i.status = "completed" /\ i.accepted

\* onboardingProfileSchema, of what is stored.
ProfileValid(i) ==
    /\ i.address /\ i.answers
    /\ IF i.type = "company" THEN i.firm ELSE i.birth

\* MUTANT: the update has no condition on the completion.
StillIncomplete_Unguarded(i) == TRUE
\* MUTANT: the condition is on the status alone.
StillIncomplete_StatusOnly(i) == i.status # "completed"
StillIncomplete(i) == i.status # "completed" \/ ~i.accepted

-----------------------------------------------------------------------------
(* The onboarding form                                                      *)

OpenForm(r) ==
    /\ session /\ ~Complete(row)
    /\ Begin(r, [Idle EXCEPT !.op = "self", !.at = "form",
                             !.form = [type |-> row.type, step |-> 0, bad |-> Step]])

\* The investor fills in the step on the screen, or spoils it.
Edit(r) ==
    LET f == req[r].form
    IN  /\ Is(r, "self", "form")
        /\ \E b \in {f.bad \ {f.step}, f.bad \cup {f.step}} :
             b # f.bad /\ Client(r, [f EXCEPT !.bad = b])

Continue(r) ==
    LET f == req[r].form
    IN  /\ Is(r, "self", "form") /\ f.step < 2 /\ f.step \notin f.bad
        /\ Client(r, [f EXCEPT !.step = @ + 1])

Back(r) ==
    LET f == req[r].form
    IN  /\ Is(r, "self", "form") /\ f.step > 0
        /\ Client(r, [f EXCEPT !.step = @ - 1])

\* "Finish setup" jumps to the first step that does not validate, or posts.
Finish(r) ==
    LET f == req[r].form
    IN  /\ Is(r, "self", "form") /\ f.step = 2
        /\ IF f.bad # {}
           THEN f.step # Min(f.bad) /\ Client(r, [f EXCEPT !.step = Min(f.bad)])
           ELSE Go(r, "posted") /\ UNCHANGED stored

\* The action reads the row; the form was rendered for the account type of
\* then, the fields are parsed for the account type of now.
ReadSelf(r) ==
    /\ Is(r, "self", "posted")
    /\ session
    /\ req' = [req EXCEPT ![r].seen = row,
         ![r].at = IF Complete(row) THEN "portal"
                   ELSE IF row.type # req[r].form.type THEN "form" ELSE "write"]
    /\ UNCHANGED <<begun, stored>>

\* What an investor answered, by the account type that was read.
Answered(i, type, p) ==
    [i EXCEPT !.address = TRUE, !.answers = TRUE, !.phone = p,
              !.birth = type = "individual",
              !.firm = @ \/ type = "company"]

WriteSelf(r) ==
    /\ Is(r, "self", "write") /\ Go(r, "portal")
    /\ IF StillIncomplete(row)
       THEN /\ \E p \in {"none", "new"} :
                 row' = [Answered(row, req[r].seen.type, p) EXCEPT
                           !.status = "completed", !.accepted = TRUE, !.declared = TRUE]
            /\ personal' = personal \cup {"investor"}
            /\ log' = [log EXCEPT !.completed = @ + 1]
       ELSE UNCHANGED <<row, personal, log>>
    /\ UNCHANGED <<account, session, apps, lead, disclosed>>

-----------------------------------------------------------------------------
(* The panel for staff                                                      *)

OpenPanel(r) == Begin(r, [Idle EXCEPT !.op = "staff", !.at = "panel", !.seen = row])

ClickSave(r) == Is(r, "staff", "panel") /\ Go(r, "save") /\ UNCHANGED stored
ClickAccept(r) ==
    /\ Is(r, "staff", "panel")
    /\ ProfileValid(req[r].seen) /\ req[r].seen.status # "completed"
    /\ Go(r, "accept") /\ UNCHANGED stored

\* The panel posts the fields of the account type it was rendered for.
ReadForSave(r) ==
    /\ Is(r, "staff", "save")
    /\ req' = [req EXCEPT ![r].seen = row,
         ![r].at = IF row.type = req[r].seen.type THEN "saving" ELSE "panel"]
    /\ UNCHANGED <<begun, stored>>

\* The page is rendered again.
Refresh(r) == req' = [req EXCEPT ![r].at = "panel", ![r].seen = row'] /\ UNCHANGED begun

\* The update has no condition, and what the form leaves blank is written
\* back as it was read.
SaveProfile(r) ==
    LET seen == req[r].seen
    IN  /\ Is(r, "staff", "saving")
        /\ \E p \in {seen.phone, "new"} :
             row' = [Answered(row, seen.type, p) EXCEPT !.declared = seen.declared]
        /\ Refresh(r)
        /\ personal' = personal \cup {"investor"}
        /\ UNCHANGED <<account, session, apps, lead, log, disclosed>>

ReadForAccept(r) ==
    /\ Is(r, "staff", "accept")
    /\ req' = [req EXCEPT ![r].seen = row,
         ![r].at = IF Complete(row) \/ ~ProfileValid(row) THEN "panel" ELSE "accepting"]
    /\ UNCHANGED <<begun, stored>>

AcceptDeclarations(r) ==
    /\ Is(r, "staff", "accepting")
    /\ IF StillIncomplete(row)
       THEN /\ row' = [row EXCEPT !.status = "completed", !.accepted = TRUE,
                                  !.answers = req[r].seen.answers, !.declared = TRUE]
            /\ log' = [log EXCEPT !.completed = @ + 1]
            /\ personal' = personal \cup {"investor"}
       ELSE UNCHANGED <<row, log, personal>>
    /\ Refresh(r)
    /\ UNCHANGED <<account, session, apps, lead, disclosed>>

-----------------------------------------------------------------------------
(* A new application by the same email                                      *)

OpenApps == {a \in App : apps[a] = "open"}

ReadForApply(r) ==
    /\ ~row.erased /\ account = "pending_access" /\ OpenApps = {}
    /\ Begin(r, [Idle EXCEPT !.op = "apply", !.at = "write", !.seen = row])

\* The account and the open applications are read again under the locks.
Reapply(r) ==
    /\ Is(r, "apply", "write") /\ End(r)
    /\ account = "pending_access" /\ OpenApps = {}
    /\ \E a \in {b \in App : apps[b] = "none"}, t \in Type :
         /\ row' = [row EXCEPT !.type = t, !.accepted = TRUE, !.phone = "new"]
         /\ apps' = [apps EXCEPT ![a] = "open"]
         /\ personal' = personal \cup {"investor", "lead", a}
    /\ lead' = TRUE
    /\ UNCHANGED <<account, session, log, disclosed>>

\* Staff approve the open application, or reject it.
DecideApplication ==
    \E a \in OpenApps, s \in {"pending_access", "active"} :
       /\ apps' = [apps EXCEPT ![a] = "closed"]
       /\ account' = s
       /\ UNCHANGED <<row, session, lead, personal, log, disclosed, begun, req>>

-----------------------------------------------------------------------------
(* Erasure                                                                  *)

BeginErasure(r) ==
    /\ ~row.erased
    /\ Begin(r, [Idle EXCEPT !.op = "erase", !.at = "leads"])

FindLinkedLeads(r) ==
    /\ Is(r, "erase", "leads")
    /\ req' = [req EXCEPT ![r].lead = lead, ![r].at = "applications"]
    /\ UNCHANGED <<begun, stored>>

FindApplications(r) ==
    /\ Is(r, "erase", "applications")
    /\ req' = [req EXCEPT ![r].apps = {a \in App : apps[a] # "none"}, ![r].at = "erase"]
    /\ UNCHANGED <<begun, stored>>

NotErased == ~row.erased

Erase(r) ==
    /\ Is(r, "erase", "erase") /\ End(r) /\ NotErased
    /\ row' = [row EXCEPT !.address = FALSE, !.birth = FALSE, !.firm = FALSE,
                          !.answers = FALSE, !.declared = FALSE, !.phone = "none",
                          !.erased = TRUE]
    /\ session' = FALSE
    /\ personal' = personal \ ({"investor", "user"} \cup req[r].apps
                               \cup (IF req[r].lead THEN {"lead"} ELSE {}))
    /\ log' = [log EXCEPT !.erased = @ + 1]
    /\ UNCHANGED <<account, apps, lead, disclosed>>

-----------------------------------------------------------------------------
(* Export                                                                   *)

RequestExport(r) ==
    /\ session
    /\ Begin(r, [Idle EXCEPT !.op = "export", !.at = "investor"])
CollectInvestor(r) == Is(r, "export", "investor") /\ Go(r, "records") /\ UNCHANGED stored
CollectRecords(r) == Is(r, "export", "records") /\ Go(r, "audit") /\ UNCHANGED stored

AuditExport(r) ==
    /\ Is(r, "export", "audit") /\ Go(r, "audited")
    /\ log' = [log EXCEPT !.exported = @ \cup {r}]
    /\ UNCHANGED <<row, account, session, apps, lead, personal, disclosed>>
Disclose(r) ==
    /\ Is(r, "export", "audited") /\ End(r)
    /\ disclosed' = disclosed \cup {r}
    /\ UNCHANGED <<row, account, session, apps, lead, personal, log>>

\* Refused, rolled back or cut off.  A form and a panel stay on the screen
\* with the error, the panel with what it shows.
RequestFails(r) ==
    /\ \/ req[r].op = "self" /\ req[r].at \in {"posted", "write"} /\ Go(r, "form")
       \/ req[r].op = "staff" /\ req[r].at \in {"save", "accept", "saving", "accepting"}
            /\ Go(r, "panel")
       \/ req[r].op \in {"apply", "erase", "export"} /\ End(r)
    /\ UNCHANGED stored

RecordNext ==
    \/ \E r \in Request :
         \/ OpenForm(r) \/ Edit(r) \/ Continue(r) \/ Back(r) \/ Finish(r)
         \/ ReadSelf(r) \/ WriteSelf(r)
         \/ OpenPanel(r) \/ ClickSave(r) \/ ClickAccept(r)
         \/ ReadForSave(r) \/ SaveProfile(r) \/ ReadForAccept(r) \/ AcceptDeclarations(r)
         \/ ReadForApply(r) \/ Reapply(r)
         \/ BeginErasure(r) \/ FindLinkedLeads(r) \/ FindApplications(r) \/ Erase(r)
         \/ RequestExport(r) \/ CollectInvestor(r) \/ CollectRecords(r)
         \/ AuditExport(r) \/ Disclose(r)
         \/ RequestFails(r)
    \/ DecideApplication

RecordSpec == RecordInit /\ [][RecordNext]_recordVars

-----------------------------------------------------------------------------
(* What must hold                                                           *)

\* Whoever the form sends to the portal has completed onboarding with both
\* acceptances, also when the form was stale, when staff completed it in the
\* meantime, or when the row came in as completed without them.
PortalMeansComplete ==
    \A r \in Request : Is(r, "self", "portal") => row.status = "completed" /\ row.accepted

\* However the investor, staff and second clicks overlap, a completion and an
\* erasure are on record once, and no export is handed out that is not on
\* record.
AuditTrail ==
    /\ log.completed <= 1 /\ log.erased <= 1
    /\ disclosed \subseteq log.exported

\* Erasure anonymises the applications in all cases: no row that erasure
\* knows of names the investor afterwards.  The code does not keep this.
ErasedStaysErased == row.erased => personal = {}

\* Onboarding is completed with declarations and a profile that validates.
\* The code does not keep this: see the README.
CompletedProfileIsValid ==
    log.completed = 1 /\ ~row.erased => row.declared /\ ProfileValid(row)

\* A blank phone preserves the existing value.  The code does not keep this:
\* see the README.
BlankPhoneIsKept ==
    [][\A r \in Request :
         Is(r, "staff", "saving") /\ ~Is(r, "staff", "saving")' /\ row' # row
           => row'.phone \in {row.phone, "new"}]_recordVars
=============================================================================
