------------------------------ MODULE RecordProofs ------------------------------
(***************************************************************************)
(* What stays true of the record of one investor, whoever completes,       *)
(* exports or erases it at the same moment, for any number of tabs and     *)
(* requests; and what the four-eyes control keeps on record of who carried *)
(* an item out, for whatever implements FourEyes.                          *)
(***************************************************************************)
EXTENDS FourEyes, PersonalRecord, TLAPS

-----------------------------------------------------------------------------
(* The personal record: types                                               *)

Form == [type : Type, step : Step, bad : SUBSET Step]

Slot ==
    [op : {"idle", "self", "staff", "apply", "erase", "export"},
     at : {"", "form", "posted", "write", "portal", "panel", "save", "accept",
           "saving", "accepting", "leads", "applications", "erase", "investor",
           "records", "audit", "audited"},
     form : Form, seen : Row, apps : SUBSET App, lead : BOOLEAN]

\* A request in flight has a form, a row it read and the rows it listed.
LEMMA SlotTyped ==
    ASSUME RecordTypeOK, NEW r \in Request
    PROVE  /\ req \in [Request -> Slot]
           /\ req[r] \in Slot
           /\ req[r].form \in Form /\ req[r].seen \in Row
           /\ req[r].apps \subseteq App /\ req[r].lead \in BOOLEAN
  BY DEF RecordTypeOK, Slot, Form

\* The first step that does not validate is a step.
LEMMA MinOfSteps ==
    ASSUME NEW S \in SUBSET Step, S # {}
    PROVE  Min(S) \in Step
<1>1. \E x \in S : \A y \in S : x <= y
  <2>1. CASE 0 \in S
    BY <2>1 DEF Step
  <2>2. CASE 0 \notin S /\ 1 \in S
    BY <2>2 DEF Step
  <2>3. CASE 0 \notin S /\ 1 \notin S
    <3>1. PICK x \in S : TRUE
      OBVIOUS
    <3>2. x = 2 /\ \A y \in S : y = 2
      BY <2>3 DEF Step
    <3>. QED
      BY <3>2
  <2>. QED
    BY <2>1, <2>2, <2>3
<1>2. Min(S) \in S
  BY <1>1 DEF Min
<1>. QED
  BY <1>2

\* What is answered is a row again, of the same type, status, acceptances and
\* erasure.
LEMMA AnsweredTyped ==
    ASSUME NEW i \in Row, NEW t \in Type, NEW p \in Phone
    PROVE  /\ Answered(i, t, p) \in Row
           /\ Answered(i, t, p).status = i.status
           /\ Answered(i, t, p).accepted = i.accepted
           /\ Answered(i, t, p).erased = i.erased
<1>1. PICK b \in BOOLEAN, c \in BOOLEAN :
        b = (t = "individual") /\ c = (i.firm \/ t = "company")
  OBVIOUS
<1>2. Answered(i, t, p) = [i EXCEPT !.address = TRUE, !.answers = TRUE, !.phone = p,
                                    !.birth = b, !.firm = c]
  BY <1>1 DEF Answered
<1>. QED
  BY <1>2 DEF Row

\* A blank row is a row, and an idle slot a slot.
LEMMA IdleTyped == Blank \in Row /\ NoForm \in Form /\ Idle \in Slot
<1>1. Blank \in Row
  BY DEF Blank, Row, Type, Phone
<1>2. NoForm \in Form
  BY DEF NoForm, Form, Type, Step
<1>. QED
  BY <1>1, <1>2 DEF Idle, Slot

-----------------------------------------------------------------------------
(* The personal record: the steps of one request                            *)

\* The steps that one request may take.
RequestMoves(r) ==
    \/ OpenForm(r) \/ Edit(r) \/ Continue(r) \/ Back(r) \/ Finish(r)
    \/ ReadSelf(r) \/ WriteSelf(r)
    \/ OpenPanel(r) \/ ClickSave(r) \/ ClickAccept(r)
    \/ ReadForSave(r) \/ SaveProfile(r) \/ ReadForAccept(r) \/ AcceptDeclarations(r)
    \/ ReadForApply(r) \/ Reapply(r)
    \/ BeginErasure(r) \/ FindLinkedLeads(r) \/ FindApplications(r) \/ Erase(r)
    \/ RequestExport(r) \/ CollectInvestor(r) \/ CollectRecords(r)
    \/ AuditExport(r) \/ Disclose(r)
    \/ RequestFails(r)

LEMMA NextCases == RecordNext <=> (\E r \in Request : RequestMoves(r)) \/ DecideApplication
  BY DEF RecordNext, RequestMoves

\* The row of the investor: it stays a row, and a completion and an erasure
\* are never taken back.
LEMMA RowMoves ==
    ASSUME RecordTypeOK, RecordNext
    PROVE  /\ row' \in Row
           /\ Complete(row) => Complete(row')
           /\ row.erased => row'.erased
<1>1. row \in Row
  BY DEF RecordTypeOK
<1>2. CASE row' = row
  BY <1>1, <1>2 DEF Complete
<1>3. ASSUME NEW r \in Request, WriteSelf(r), row' # row
      PROVE  row' \in Row /\ Complete(row') /\ (row.erased => row'.erased)
  <2>1. PICK p \in {"none", "new"} :
          row' = [Answered(row, req[r].seen.type, p) EXCEPT
                    !.status = "completed", !.accepted = TRUE, !.declared = TRUE]
    BY <1>3 DEF WriteSelf
  <2>2. req[r].seen.type \in Type /\ p \in Phone
    BY SlotTyped DEF Row, Phone
  <2>3. /\ Answered(row, req[r].seen.type, p) \in Row
        /\ Answered(row, req[r].seen.type, p).erased = row.erased
    BY <1>1, <2>2, AnsweredTyped
  <2>. QED
    BY <2>1, <2>3 DEF Row, Complete
<1>4. ASSUME NEW r \in Request, SaveProfile(r)
      PROVE  /\ row' \in Row
             /\ Complete(row) => Complete(row')
             /\ row.erased => row'.erased
  <2>1. PICK p \in {req[r].seen.phone, "new"} :
          row' = [Answered(row, req[r].seen.type, p) EXCEPT !.declared = req[r].seen.declared]
    BY <1>4 DEF SaveProfile
  <2>2. req[r].seen.type \in Type /\ p \in Phone /\ req[r].seen.declared \in BOOLEAN
    BY SlotTyped DEF Row, Phone
  <2>3. /\ Answered(row, req[r].seen.type, p) \in Row
        /\ Answered(row, req[r].seen.type, p).status = row.status
        /\ Answered(row, req[r].seen.type, p).accepted = row.accepted
        /\ Answered(row, req[r].seen.type, p).erased = row.erased
    BY <1>1, <2>2, AnsweredTyped
  <2>. QED
    BY <2>1, <2>2, <2>3 DEF Row, Complete
<1>5. ASSUME NEW r \in Request, AcceptDeclarations(r), row' # row
      PROVE  row' \in Row /\ Complete(row') /\ (row.erased => row'.erased)
  <2>1. row' = [row EXCEPT !.status = "completed", !.accepted = TRUE,
                           !.answers = req[r].seen.answers, !.declared = TRUE]
    BY <1>5 DEF AcceptDeclarations
  <2>2. req[r].seen.answers \in BOOLEAN
    BY SlotTyped DEF Row
  <2>. QED
    BY <1>1, <2>1, <2>2 DEF Row, Complete
<1>6. ASSUME NEW r \in Request, Reapply(r)
      PROVE  /\ row' \in Row
             /\ Complete(row) => Complete(row')
             /\ row.erased => row'.erased
  <2>1. PICK t \in Type : row' = [row EXCEPT !.type = t, !.accepted = TRUE, !.phone = "new"]
    BY <1>6 DEF Reapply
  <2>. QED
    BY <1>1, <2>1 DEF Row, Phone, Complete
<1>7. ASSUME NEW r \in Request, Erase(r)
      PROVE  /\ row' \in Row
             /\ Complete(row) => Complete(row')
             /\ row.erased => row'.erased
  <2>1. row' = [row EXCEPT !.address = FALSE, !.birth = FALSE, !.firm = FALSE,
                           !.answers = FALSE, !.declared = FALSE, !.phone = "none",
                           !.erased = TRUE]
    BY <1>7 DEF Erase
  <2>. QED
    BY <1>1, <2>1 DEF Row, Phone, Complete
<1>8. ASSUME NEW r \in Request, RequestMoves(r),
             ~WriteSelf(r), ~SaveProfile(r), ~AcceptDeclarations(r), ~Reapply(r), ~Erase(r)
      PROVE  row' = row
  BY <1>8 DEF RequestMoves, OpenForm, Edit, Continue, Back, Finish, ReadSelf, OpenPanel,
     ClickSave, ClickAccept, ReadForSave, ReadForAccept, ReadForApply, BeginErasure,
     FindLinkedLeads, FindApplications, RequestExport, CollectInvestor, CollectRecords,
     AuditExport, Disclose, RequestFails, Begin, Client, stored
<1>9. CASE DecideApplication
  BY <1>2, <1>9 DEF DecideApplication
<1>. QED
  BY <1>2, <1>3, <1>4, <1>5, <1>6, <1>7, <1>8, <1>9, NextCases DEF RequestMoves

\* A request changes its own slot only, and to a slot.
LEMMA SlotMoves ==
    ASSUME RecordTypeOK, NEW r \in Request, RequestMoves(r)
    PROVE  \E new \in Slot : req' = [req EXCEPT ![r] = new]
<1> DEFINE Goal == \E new \in Slot : req' = [req EXCEPT ![r] = new]
<1>1. /\ req \in [Request -> Slot] /\ req[r] \in Slot
      /\ req[r].form \in Form /\ req[r].seen \in Row
  BY SlotTyped
<1>2. row \in Row /\ row.type \in Type /\ Idle \in Slot
  BY IdleTyped DEF RecordTypeOK, Row
<1>3. ASSUME NEW new \in Slot, Begin(r, new)
      PROVE  Goal
  BY <1>3 DEF Begin
<1>4. ASSUME NEW at, Go(r, at),
             at \in {"form", "posted", "portal", "panel", "save", "accept", "records",
                     "audit", "audited"}
      PROVE  Goal
  <2>1. [req[r] EXCEPT !.at = at] \in Slot
    BY <1>1, <1>4 DEF Slot
  <2>. QED
    BY <1>1, <1>4, <2>1 DEF Go
<1>5. ASSUME NEW f \in Form, Client(r, f)
      PROVE  Goal
  <2>1. [req[r] EXCEPT !.form = f] \in Slot
    BY <1>1 DEF Slot
  <2>. QED
    BY <1>1, <1>5, <2>1 DEF Client
<1>6. ASSUME End(r)
      PROVE  Goal
  BY <1>2, <1>6 DEF End
<1>7. ASSUME NEW at, req' = [req EXCEPT ![r].seen = row, ![r].at = at],
             at \in {"form", "portal", "write", "saving", "panel", "accepting"}
      PROVE  Goal
  <2> DEFINE new == [req[r] EXCEPT !.seen = row, !.at = at]
  <2>1. new \in Slot
    BY <1>1, <1>2, <1>7 DEF Slot
  <2>2. req' = [req EXCEPT ![r] = new]
    BY <1>1, <1>7
  <2>. HIDE DEF new
  <2>. QED
    BY <2>1, <2>2
<1>8. ASSUME Refresh(r)
      PROVE  Goal
  <2> DEFINE new == [req[r] EXCEPT !.at = "panel", !.seen = row']
  <2>0. row' \in Row
    BY RowMoves, NextCases
  <2>1. new \in Slot
    BY <1>1, <2>0 DEF Slot
  <2>2. req' = [req EXCEPT ![r] = new]
    BY <1>1, <1>8 DEF Refresh
  <2>. HIDE DEF new
  <2>. QED
    BY <2>1, <2>2
<1>9. CASE OpenForm(r) \/ OpenPanel(r) \/ ReadForApply(r) \/ BeginErasure(r) \/ RequestExport(r)
  <2> DEFINE opened == [type |-> row.type, step |-> 0, bad |-> Step]
  <2>1. opened \in Form
    BY <1>2 DEF Form, Step
  <2>. HIDE DEF opened
  <2>2. /\ [Idle EXCEPT !.op = "self", !.at = "form", !.form = opened] \in Slot
        /\ [Idle EXCEPT !.op = "staff", !.at = "panel", !.seen = row] \in Slot
        /\ [Idle EXCEPT !.op = "apply", !.at = "write", !.seen = row] \in Slot
        /\ [Idle EXCEPT !.op = "erase", !.at = "leads"] \in Slot
        /\ [Idle EXCEPT !.op = "export", !.at = "investor"] \in Slot
    BY <1>2, <2>1 DEF Slot
  <2>. USE DEF opened
  <2>3. \E new \in Slot : Begin(r, new)
    BY <1>9, <2>2 DEF OpenForm, OpenPanel, ReadForApply, BeginErasure, RequestExport
  <2>. QED
    BY <1>3, <2>3
<1>10. CASE Edit(r) \/ Continue(r) \/ Back(r) \/ Finish(r)
  <2> DEFINE f == req[r].form
  <2>1. f \in Form /\ f.step \in Step /\ f.bad \in SUBSET Step
    BY <1>1 DEF Form
  <2>. HIDE DEF f
  <2>2. ASSUME NEW b \in {f.bad \ {f.step}, f.bad \cup {f.step}}
        PROVE  [f EXCEPT !.bad = b] \in Form
    BY <2>1 DEF Form
  <2>3. ASSUME NEW s \in Step
        PROVE  [f EXCEPT !.step = s] \in Form
    BY <2>1 DEF Form
  <2>4. CASE Edit(r)
    BY <1>5, <2>2, <2>4 DEF Edit, f
  <2>5. CASE Continue(r)
    <3>1. f.step + 1 \in Step /\ Client(r, [f EXCEPT !.step = f.step + 1])
      BY <2>1, <2>5 DEF Continue, Step, f
    <3>. QED
      BY <1>5, <2>3, <3>1
  <2>6. CASE Back(r)
    <3>1. f.step - 1 \in Step /\ Client(r, [f EXCEPT !.step = f.step - 1])
      BY <2>1, <2>6 DEF Back, Step, f
    <3>. QED
      BY <1>5, <2>3, <3>1
  <2>7. CASE Finish(r)
    <3>1. CASE f.bad = {}
      BY <1>4, <2>7, <3>1 DEF Finish, f
    <3>2. CASE f.bad # {}
      <4>1. Min(f.bad) \in Step
        BY <2>1, <3>2, MinOfSteps
      <4>2. Client(r, [f EXCEPT !.step = Min(f.bad)])
        BY <2>7, <3>2 DEF Finish, f
      <4>. QED
        BY <1>5, <2>3, <4>1, <4>2
    <3>. QED
      BY <3>1, <3>2
  <2>. QED
    BY <1>10, <2>4, <2>5, <2>6, <2>7
<1>11. CASE ReadSelf(r) \/ ReadForSave(r) \/ ReadForAccept(r)
  BY <1>7, <1>11 DEF ReadSelf, ReadForSave, ReadForAccept
<1>12. CASE SaveProfile(r) \/ AcceptDeclarations(r)
  BY <1>8, <1>12 DEF SaveProfile, AcceptDeclarations
<1>13. CASE \/ WriteSelf(r) \/ ClickSave(r) \/ ClickAccept(r) \/ CollectInvestor(r)
            \/ CollectRecords(r) \/ AuditExport(r)
  BY <1>4, <1>13 DEF WriteSelf, ClickSave, ClickAccept, CollectInvestor, CollectRecords,
     AuditExport
<1>14. CASE Reapply(r) \/ Erase(r) \/ Disclose(r)
  BY <1>6, <1>14 DEF Reapply, Erase, Disclose
<1>15. CASE FindLinkedLeads(r) \/ FindApplications(r)
  <2>1. lead \in BOOLEAN /\ {a \in App : apps[a] # "none"} \subseteq App
    BY DEF RecordTypeOK
  <2> DEFINE x == [req[r] EXCEPT !.lead = lead, !.at = "applications"]
             y == [req[r] EXCEPT !.apps = {a \in App : apps[a] # "none"}, !.at = "erase"]
  <2>2. x \in Slot /\ y \in Slot
    BY <1>1, <2>1 DEF Slot
  <2>3. req' = [req EXCEPT ![r] = x] \/ req' = [req EXCEPT ![r] = y]
    BY <1>1, <1>15 DEF FindLinkedLeads, FindApplications
  <2>. HIDE DEF x, y
  <2>. QED
    BY <2>2, <2>3
<1>16. CASE RequestFails(r)
  <2>1. Go(r, "form") \/ Go(r, "panel") \/ End(r)
    BY <1>16 DEF RequestFails
  <2>. QED
    BY <1>4, <1>6, <2>1
<1>. QED
  BY <1>9, <1>10, <1>11, <1>12, <1>13, <1>14, <1>15, <1>16 DEF RequestMoves

\* What a request leaves of the other columns and of the log.
LEMMA RestMoves ==
    ASSUME RecordTypeOK, NEW r \in Request, RequestMoves(r)
    PROVE  /\ account' = account
           /\ session' \in BOOLEAN /\ lead' \in BOOLEAN
           /\ apps' \in [App -> {"none", "open", "closed"}]
           /\ personal' \in SUBSET Place
           /\ log' \in [completed : Nat, erased : Nat, exported : SUBSET Request]
           /\ disclosed' \in SUBSET Request
           /\ begun' \in 0..MaxBegun
<1>. /\ session \in BOOLEAN /\ lead \in BOOLEAN
     /\ apps \in [App -> {"none", "open", "closed"}]
     /\ personal \in SUBSET Place
     /\ log \in [completed : Nat, erased : Nat, exported : SUBSET Request]
     /\ disclosed \in SUBSET Request
     /\ begun \in 0..MaxBegun
  BY DEF RecordTypeOK
<1>1. CASE UNCHANGED <<stored, begun>>
  BY <1>1 DEF stored
<1>2. ASSUME UNCHANGED stored, begun < MaxBegun, begun' = begun + 1
      PROVE  begun' \in 0..MaxBegun
  BY <1>2, PersonalRecordAssumption
<1>3. CASE \/ OpenForm(r) \/ OpenPanel(r) \/ ReadForApply(r) \/ BeginErasure(r)
           \/ RequestExport(r)
  <2>1. UNCHANGED stored /\ begun < MaxBegun /\ begun' = begun + 1
    BY <1>3 DEF OpenForm, OpenPanel, ReadForApply, BeginErasure, RequestExport, Begin
  <2>. QED
    BY <1>2, <2>1 DEF stored
<1>4. CASE \/ Edit(r) \/ Continue(r) \/ Back(r) \/ Finish(r) \/ ReadSelf(r) \/ ClickSave(r)
           \/ ClickAccept(r) \/ ReadForSave(r) \/ ReadForAccept(r) \/ FindLinkedLeads(r)
           \/ FindApplications(r) \/ CollectInvestor(r) \/ CollectRecords(r) \/ RequestFails(r)
  <2>1. UNCHANGED <<stored, begun>>
    BY <1>4 DEF Edit, Continue, Back, Finish, ReadSelf, ClickSave, ClickAccept, ReadForSave,
       ReadForAccept, FindLinkedLeads, FindApplications, CollectInvestor, CollectRecords,
       RequestFails, Client, Go, End
  <2>. QED
    BY <1>1, <2>1
<1>5. CASE WriteSelf(r) \/ SaveProfile(r) \/ AcceptDeclarations(r)
  <2>1. UNCHANGED <<account, session, apps, lead, disclosed, begun>>
    BY <1>5 DEF WriteSelf, SaveProfile, AcceptDeclarations, Go, Refresh
  <2>2. personal' = personal \/ personal' = personal \cup {"investor"}
    BY <1>5 DEF WriteSelf, SaveProfile, AcceptDeclarations
  <2>3. log' = log \/ log' = [log EXCEPT !.completed = @ + 1]
    BY <1>5 DEF WriteSelf, SaveProfile, AcceptDeclarations
  <2>. QED
    BY <2>1, <2>2, <2>3 DEF Place
<1>6. CASE Reapply(r)
  <2>1. PICK a \in App :
          /\ apps' = [apps EXCEPT ![a] = "open"]
          /\ personal' = personal \cup {"investor", "lead", a}
    BY <1>6 DEF Reapply
  <2>2. lead' = TRUE /\ UNCHANGED <<account, session, log, disclosed, begun>>
    BY <1>6 DEF Reapply, End
  <2>. QED
    BY <2>1, <2>2 DEF Place
<1>7. CASE Erase(r)
  <2>1. log' = [log EXCEPT !.erased = @ + 1] /\ session' = FALSE /\ personal' \subseteq personal
    BY <1>7 DEF Erase
  <2>2. UNCHANGED <<account, apps, lead, disclosed, begun>>
    BY <1>7 DEF Erase, End
  <2>3. log' \in [completed : Nat, erased : Nat, exported : SUBSET Request]
    BY <2>1
  <2>4. session' \in BOOLEAN /\ personal' \in SUBSET Place
    BY <2>1
  <2>. QED
    BY <2>2, <2>3, <2>4
<1>8. CASE AuditExport(r)
  <2>1. log' = [log EXCEPT !.exported = @ \cup {r}]
    BY <1>8 DEF AuditExport
  <2>2. UNCHANGED <<account, session, apps, lead, personal, disclosed, begun>>
    BY <1>8 DEF AuditExport, Go
  <2>. QED
    BY <2>1, <2>2
<1>9. CASE Disclose(r)
  <2>1. disclosed' = disclosed \cup {r}
    BY <1>9 DEF Disclose
  <2>2. UNCHANGED <<account, session, apps, lead, personal, log, begun>>
    BY <1>9 DEF Disclose, End
  <2>. QED
    BY <2>1, <2>2
<1>. QED
  BY <1>3, <1>4, <1>5, <1>6, <1>7, <1>8, <1>9 DEF RequestMoves

\* Every step keeps the types.
LEMMA RecordTypeStep == RecordTypeOK /\ [RecordNext]_recordVars => RecordTypeOK'
<1> SUFFICES ASSUME RecordTypeOK, [RecordNext]_recordVars
             PROVE  RecordTypeOK'
  OBVIOUS
<1>1. CASE UNCHANGED recordVars
  BY <1>1 DEF recordVars, RecordTypeOK
<1>2. ASSUME NEW r \in Request, RequestMoves(r)
      PROVE  RecordTypeOK'
  <2>1. row' \in Row
    BY <1>2, RowMoves, NextCases
  <2>2. PICK new \in Slot : req' = [req EXCEPT ![r] = new]
    BY <1>2, SlotMoves
  <2>3. req' \in [Request -> Slot]
    BY <2>2, SlotTyped
  <2>4. account' \in {"pending_access", "active"}
    BY <1>2, RestMoves DEF RecordTypeOK
  <2>. QED
    BY <1>2, <2>1, <2>3, <2>4, RestMoves DEF RecordTypeOK, Slot, Form
<1>3. CASE DecideApplication
  <2>1. PICK a \in App, s \in {"pending_access", "active"} :
          apps' = [apps EXCEPT ![a] = "closed"] /\ account' = s
    BY <1>3 DEF DecideApplication, OpenApps
  <2>2. UNCHANGED <<row, session, lead, personal, log, disclosed, begun, req>>
    BY <1>3 DEF DecideApplication
  <2>. QED
    BY <2>1, <2>2 DEF RecordTypeOK
<1>. QED
  BY <1>1, <1>2, <1>3, NextCases

-----------------------------------------------------------------------------
(* The personal record: completion, erasure and export                      *)

\* A completion or an erasure on record is in the row, and never taken back:
\* this is what stops the second one.
RecordedOnce ==
    /\ log.completed <= 1 /\ log.erased <= 1
    /\ log.completed = 1 => Complete(row)
    /\ log.erased = 1 => row.erased

\* An export is about to be handed out only when it is on record.
ExportsOnRecord ==
    /\ \A r \in Request : Is(r, "export", "audited") => r \in log.exported
    /\ disclosed \subseteq log.exported

RecordInv == RecordTypeOK /\ PortalMeansComplete /\ RecordedOnce /\ ExportsOnRecord

\* Where a step takes its request: to the portal only past the check of the
\* completion, to "audited" only with the audit event.
LEMMA SlotArrives ==
    ASSUME RecordTypeOK, NEW r \in Request, RequestMoves(r)
    PROVE  /\ Is(r, "self", "portal")' => Is(r, "self", "portal") \/ Complete(row')
           /\ Is(r, "export", "audited")' => Is(r, "export", "audited") \/ r \in log'.exported
<1>. req \in [Request -> Slot] /\ req[r] \in Slot /\ row \in Row
  BY SlotTyped DEF RecordTypeOK
<1>1. CASE WriteSelf(r)
  <2>1. Complete(row')
    <3>1. CASE StillIncomplete(row)
      <4>1. PICK p \in {"none", "new"} :
              row' = [Answered(row, req[r].seen.type, p) EXCEPT
                        !.status = "completed", !.accepted = TRUE, !.declared = TRUE]
        BY <1>1, <3>1 DEF WriteSelf
      <4>2. Answered(row, req[r].seen.type, p) \in Row
        <5>1. req[r].seen.type \in Type /\ p \in Phone
          BY SlotTyped DEF Row, Phone
        <5>. QED
          BY <5>1, AnsweredTyped
      <4>. QED
        BY <4>1, <4>2 DEF Row, Complete
    <3>2. CASE ~StillIncomplete(row)
      BY <1>1, <3>2 DEF WriteSelf, StillIncomplete, Complete
    <3>. QED
      BY <3>1, <3>2
  <2>2. ~Is(r, "export", "audited")'
    BY <1>1 DEF WriteSelf, Go, Is, Slot
  <2>. QED
    BY <2>1, <2>2
<1>2. CASE ReadSelf(r)
  <2> DEFINE new == [req[r] EXCEPT !.seen = row,
         !.at = IF Complete(row) THEN "portal"
                ELSE IF row.type # req[r].form.type THEN "form" ELSE "write"]
  <2>1. req' = [req EXCEPT ![r] = new] /\ row' = row
    BY <1>2 DEF ReadSelf, stored
  <2>2. new.op = "self" /\ (new.at = "portal" => Complete(row))
    BY <1>2 DEF ReadSelf, Is, Slot
  <2>. HIDE DEF new
  <2>. QED
    BY <2>1, <2>2 DEF Is
<1>3. CASE AuditExport(r)
  <2>1. r \in log'.exported
    BY <1>3 DEF AuditExport, RecordTypeOK
  <2>2. ~Is(r, "self", "portal")'
    BY <1>3 DEF AuditExport, Go, Is, Slot
  <2>. QED
    BY <2>1, <2>2
<1>4. CASE OpenForm(r) \/ OpenPanel(r) \/ ReadForApply(r) \/ BeginErasure(r) \/ RequestExport(r)
  <2> DEFINE opened == [type |-> row.type, step |-> 0, bad |-> Step]
  <2>1. ASSUME NEW new, Begin(r, new)
        PROVE  req'[r] = new
    BY <2>1 DEF Begin
  <2>2. \/ req'[r] = [Idle EXCEPT !.op = "self", !.at = "form", !.form = opened]
        \/ req'[r] = [Idle EXCEPT !.op = "staff", !.at = "panel", !.seen = row]
        \/ req'[r] = [Idle EXCEPT !.op = "apply", !.at = "write", !.seen = row]
        \/ req'[r] = [Idle EXCEPT !.op = "erase", !.at = "leads"]
        \/ req'[r] = [Idle EXCEPT !.op = "export", !.at = "investor"]
    BY <1>4, <2>1 DEF OpenForm, OpenPanel, ReadForApply, BeginErasure, RequestExport
  <2>. HIDE DEF opened
  <2>3. req'[r].at \in {"form", "panel", "write", "leads", "investor"}
    BY <2>2, IdleTyped DEF Slot
  <2>. QED
    BY <2>3 DEF Is
<1>5. CASE Edit(r) \/ Continue(r) \/ Back(r) \/ Finish(r)
  <2>1. Go(r, "posted") \/ \E f : Client(r, f)
    BY <1>5 DEF Edit, Continue, Back, Finish
  <2>2. req'[r].at \in {req[r].at, "posted"} /\ req[r].at = "form"
    BY <1>5, <2>1 DEF Edit, Continue, Back, Finish, Client, Go, Slot, Is
  <2>. QED
    BY <2>1, <2>2 DEF Is
<1>6. CASE \/ ClickSave(r) \/ ClickAccept(r) \/ ReadForSave(r) \/ SaveProfile(r)
           \/ ReadForAccept(r) \/ AcceptDeclarations(r)
  <2>1. req'[r].op = "staff"
    BY <1>6 DEF ClickSave, ClickAccept, ReadForSave, SaveProfile, ReadForAccept,
       AcceptDeclarations, Refresh, Go, Is, Slot
  <2>. QED
    BY <2>1 DEF Is
<1>7. CASE FindLinkedLeads(r) \/ FindApplications(r)
  <2>1. req'[r].op = "erase"
    BY <1>7 DEF FindLinkedLeads, FindApplications, Is, Slot
  <2>. QED
    BY <2>1 DEF Is
<1>8. CASE CollectInvestor(r) \/ CollectRecords(r)
  <2>1. req'[r].at \in {"records", "audit"}
    BY <1>8 DEF CollectInvestor, CollectRecords, Go, Slot
  <2>. QED
    BY <2>1 DEF Is
<1>9. CASE Reapply(r) \/ Erase(r) \/ Disclose(r) \/ RequestFails(r)
  <2>1. Go(r, "form") \/ Go(r, "panel") \/ End(r)
    BY <1>9 DEF Reapply, Erase, Disclose, RequestFails
  <2>2. req'[r].at \in {"form", "panel", ""}
    <3>1. Idle.at = ""
      BY DEF Idle
    <3>. QED
      BY <2>1, <3>1 DEF Go, End, Slot
  <2>. QED
    BY <2>2 DEF Is
<1>. QED
  BY <1>1, <1>2, <1>3, <1>4, <1>5, <1>6, <1>7, <1>8, <1>9 DEF RequestMoves

\* A completion is recorded only where there was none, and so is an erasure;
\* what is disclosed was audited.
LEMMA LogMoves ==
    ASSUME RecordTypeOK, NEW r \in Request, RequestMoves(r)
    PROVE  /\ \/ log'.completed = log.completed
              \/ log'.completed = log.completed + 1 /\ ~Complete(row) /\ Complete(row')
           /\ \/ log'.erased = log.erased
              \/ log'.erased = log.erased + 1 /\ ~row.erased /\ row'.erased
           /\ log.exported \subseteq log'.exported
           /\ \/ disclosed' = disclosed
              \/ disclosed' = disclosed \cup {r} /\ Is(r, "export", "audited")
<1>. /\ req \in [Request -> Slot] /\ req[r] \in Slot /\ row \in Row
     /\ log \in [completed : Nat, erased : Nat, exported : SUBSET Request]
  BY SlotTyped DEF RecordTypeOK
<1>1. CASE WriteSelf(r) /\ log' # log
  <2>1. StillIncomplete(row) /\ log' = [log EXCEPT !.completed = @ + 1] /\ disclosed' = disclosed
    BY <1>1 DEF WriteSelf
  <2>2. PICK p \in {"none", "new"} :
          row' = [Answered(row, req[r].seen.type, p) EXCEPT
                    !.status = "completed", !.accepted = TRUE, !.declared = TRUE]
    BY <1>1, <2>1 DEF WriteSelf
  <2>3. Answered(row, req[r].seen.type, p) \in Row
    <3>1. req[r].seen.type \in Type /\ p \in Phone
      BY SlotTyped DEF Row, Phone
    <3>. QED
      BY <3>1, AnsweredTyped
  <2>4. Complete(row')
    BY <2>2, <2>3 DEF Row, Complete
  <2>. QED
    BY <2>1, <2>4 DEF StillIncomplete, Complete
<1>2. CASE AcceptDeclarations(r) /\ log' # log
  <2>1. StillIncomplete(row) /\ log' = [log EXCEPT !.completed = @ + 1] /\ disclosed' = disclosed
    BY <1>2 DEF AcceptDeclarations
  <2>2. Complete(row')
    BY <1>2, <2>1 DEF AcceptDeclarations, Row, Complete
  <2>. QED
    BY <2>1, <2>2 DEF StillIncomplete, Complete
<1>3. CASE Erase(r)
  <2>1. /\ ~row.erased /\ log' = [log EXCEPT !.erased = @ + 1] /\ disclosed' = disclosed
        /\ row'.erased
    BY <1>3 DEF Erase, NotErased, Row
  <2>. QED
    BY <2>1
<1>4. CASE AuditExport(r)
  <2>1. log' = [log EXCEPT !.exported = @ \cup {r}] /\ disclosed' = disclosed
    BY <1>4 DEF AuditExport
  <2>. QED
    BY <2>1
<1>5. CASE Disclose(r)
  BY <1>5 DEF Disclose
<1>6. CASE UNCHANGED <<log, disclosed>>
  BY <1>6
<1>7. ASSUME ~WriteSelf(r), ~AcceptDeclarations(r), ~Erase(r), ~AuditExport(r), ~Disclose(r)
      PROVE  UNCHANGED <<log, disclosed>>
  BY <1>7 DEF RequestMoves, OpenForm, Edit, Continue, Back, Finish, ReadSelf, OpenPanel,
     ClickSave, ClickAccept, ReadForSave, SaveProfile, ReadForAccept, ReadForApply, Reapply,
     BeginErasure, FindLinkedLeads, FindApplications, RequestExport, CollectInvestor,
     CollectRecords, RequestFails, Begin, Client, stored
<1>8. ASSUME WriteSelf(r) \/ AcceptDeclarations(r)
      PROVE  disclosed' = disclosed
  BY <1>8 DEF WriteSelf, AcceptDeclarations
<1>. QED
  BY <1>1, <1>2, <1>3, <1>4, <1>5, <1>6, <1>7, <1>8

LEMMA RecordInductive == RecordSpec => []RecordInv
<1>1. RecordInit => RecordInv
  <2> SUFFICES ASSUME RecordInit
               PROVE  RecordInv
    OBVIOUS
  <2>1. row \in Row
    BY DEF RecordInit, Row, Phone
  <2>2. req \in [Request -> Slot] /\ \A r \in Request : req[r].at = ""
    BY IdleTyped DEF RecordInit, Idle
  <2>3. begun \in 0..MaxBegun
    BY PersonalRecordAssumption DEF RecordInit
  <2>4. RecordTypeOK
    <3>1. log \in [completed : Nat, erased : Nat, exported : SUBSET Request]
      BY DEF RecordInit
    <3>2. /\ account \in {"pending_access", "active"}
          /\ session \in BOOLEAN /\ lead \in BOOLEAN
          /\ apps \in [App -> {"none", "open", "closed"}]
          /\ personal \in SUBSET Place
          /\ disclosed \in SUBSET Request
      BY DEF RecordInit, Place
    <3>. QED
      BY <2>1, <2>2, <2>3, <3>1, <3>2 DEF RecordTypeOK, Slot, Form
  <2>5. PortalMeansComplete /\ \A r \in Request : ~Is(r, "export", "audited")
    BY <2>2 DEF PortalMeansComplete, Is
  <2>6. log.completed = 0 /\ log.erased = 0 /\ disclosed = {}
    BY DEF RecordInit
  <2>. QED
    BY <2>4, <2>5, <2>6 DEF RecordInv, RecordedOnce, ExportsOnRecord
<1>2. RecordInv /\ [RecordNext]_recordVars => RecordInv'
  <2> SUFFICES ASSUME RecordInv, [RecordNext]_recordVars
               PROVE  RecordInv'
    OBVIOUS
  <2>1. RecordTypeOK /\ RecordTypeOK'
    BY RecordTypeStep DEF RecordInv
  <2>2. CASE UNCHANGED recordVars
    BY <2>1, <2>2 DEF recordVars, RecordInv, PortalMeansComplete, RecordedOnce,
       ExportsOnRecord, Is, Complete
  <2>3. ASSUME NEW r \in Request, RequestMoves(r)
        PROVE  RecordInv'
    <3>1. PICK new \in Slot : req' = [req EXCEPT ![r] = new]
      BY <2>1, <2>3, SlotMoves
    <3>2. \A q \in Request \ {r} : req'[q] = req[q]
      BY <2>1, <3>1, SlotTyped
    <3>3. Complete(row) => Complete(row')
      BY <2>1, <2>3, RowMoves, NextCases
    <3>4. row.erased => row'.erased
      BY <2>1, <2>3, RowMoves, NextCases
    <3>5. PortalMeansComplete'
      BY <2>1, <2>3, <3>2, <3>3, SlotArrives DEF RecordInv, PortalMeansComplete, Is, Complete
    <3>6. RecordedOnce'
      <4>1. log.completed \in Nat /\ log.erased \in Nat
        BY <2>1 DEF RecordTypeOK
      <4>2. /\ \/ log'.completed = log.completed
               \/ log'.completed = log.completed + 1 /\ ~Complete(row) /\ Complete(row')
            /\ \/ log'.erased = log.erased
               \/ log'.erased = log.erased + 1 /\ ~row.erased /\ row'.erased
        BY <2>1, <2>3, LogMoves
      <4>. QED
        BY <3>3, <3>4, <4>1, <4>2 DEF RecordInv, RecordedOnce
    <3>7. ExportsOnRecord'
      <4>1. log.exported \subseteq log'.exported
        BY <2>1, <2>3, LogMoves
      <4>2. ASSUME NEW q \in Request, Is(q, "export", "audited")'
            PROVE  q \in log'.exported
        BY <2>1, <2>3, <3>2, <4>1, <4>2, SlotArrives DEF RecordInv, ExportsOnRecord, Is
      <4>3. disclosed' \subseteq log'.exported
        BY <2>1, <2>3, <4>1, LogMoves DEF RecordInv, ExportsOnRecord
      <4>. QED
        BY <4>2, <4>3 DEF ExportsOnRecord
    <3>. QED
      BY <2>1, <3>5, <3>6, <3>7 DEF RecordInv
  <2>4. CASE DecideApplication
    <3>1. UNCHANGED <<row, log, disclosed, req>>
      BY <2>4 DEF DecideApplication
    <3>. QED
      BY <2>1, <3>1 DEF RecordInv, PortalMeansComplete, RecordedOnce, ExportsOnRecord, Is,
         Complete
  <2>. QED
    BY <2>2, <2>3, <2>4, NextCases
<1>. QED
  BY <1>1, <1>2, PTL DEF RecordSpec

\* However the form, the panel, a new application, exports and erasures
\* overlap, the row, the log and every request keep their types.
THEOREM RecordTyped == RecordSpec => []RecordTypeOK
<1>1. RecordInv => RecordTypeOK
  BY DEF RecordInv
<1>. QED
  BY RecordInductive, <1>1, PTL

\* Whoever the form sends to the portal has completed onboarding with both
\* acceptances: nothing that may commit in between takes a completion back.
THEOREM PortalHolds == RecordSpec => []PortalMeansComplete
<1>1. RecordInv => PortalMeansComplete
  BY DEF RecordInv
<1>. QED
  BY RecordInductive, <1>1, PTL

\* A completion and an erasure are on record once, and an export is on record
\* before it is handed out.
THEOREM AuditTrailHolds == RecordSpec => []AuditTrail
<1>1. RecordInv => AuditTrail
  BY DEF RecordInv, RecordedOnce, ExportsOnRecord, AuditTrail
<1>. QED
  BY RecordInductive, <1>1, PTL

-----------------------------------------------------------------------------
(* The four-eyes control                                                    *)

\* Only super admins are on record as endorsers.
ControlInv ==
    /\ endorsed \in [Item -> SuperAdmin \cup {None}]
    /\ DOMAIN executed = Item
    /\ TwoPersonRule

\* What every state of the control satisfies.
LEMMA ControlInductive == Spec => []ControlInv
<1>1. Init => ControlInv
  BY DEF Init, ControlInv, TwoPersonRule
<1>2. ControlInv /\ [Next]_vars => ControlInv'
  <2> SUFFICES ASSUME ControlInv, [Next]_vars
               PROVE  ControlInv'
    OBVIOUS
  <2>1. ASSUME NEW i \in Item, NEW a \in SuperAdmin, Endorse(i, a)
        PROVE  ControlInv'
    BY <2>1 DEF Endorse, ControlInv, TwoPersonRule
  <2>2. ASSUME NEW i \in Item, NEW a \in SuperAdmin, ExecuteGuarded(i, a)
        PROVE  ControlInv'
    <3>1. endorsed[i] \in SuperAdmin \ {a}
      BY <2>2 DEF ControlInv, ExecuteGuarded
    <3>2. executed' = [executed EXCEPT ![i] = [first |-> endorsed[i], by |-> a]]
      BY <2>2 DEF ExecuteGuarded
    <3>3. TwoPersonRule'
      BY <3>1, <3>2 DEF ControlInv, TwoPersonRule
    <3>4. endorsed' \in [Item -> SuperAdmin \cup {None}] /\ DOMAIN executed' = Item
      BY <2>2 DEF ControlInv, ExecuteGuarded
    <3>. QED
      BY <3>3, <3>4 DEF ControlInv
  <2>3. ASSUME NEW i \in Item, NEW a \in Actor, ExecutePlain(i, a)
        PROVE  ControlInv'
    BY <2>3 DEF ExecutePlain, ControlInv, TwoPersonRule
  <2>4. CASE UNCHANGED vars
    BY <2>4 DEF vars, ControlInv, TwoPersonRule
  <2>. QED
    BY <2>1, <2>2, <2>3, <2>4 DEF Next
<1>. QED
  BY <1>1, <1>2, PTL DEF Spec

\* Whoever implements the endorse-then-execute control never lets one person
\* alone carry a guarded item out.
THEOREM TwoPersons == Spec => []TwoPersonRule
<1>1. ControlInv => TwoPersonRule
  BY DEF ControlInv
<1>. QED
  BY ControlInductive, <1>1, PTL

\* Nothing is carried out twice, and one endorsement serves one execution.
THEOREM EndorsementsServeOnce == Spec => EndorsementsAreUsedOnce
<1> DEFINE UsedOnce ==
      \A i \in Item :
         executed'[i] # executed[i] =>
             /\ executed[i] = None
             /\ i \in Guarded => endorsed[i] # None /\ endorsed'[i] = None
<1>1. ControlInv /\ [Next]_vars => [UsedOnce]_vars
  <2> SUFFICES ASSUME ControlInv, NEW i \in Item,
                      \/ \E a \in SuperAdmin : Endorse(i, a) \/ ExecuteGuarded(i, a)
                      \/ \E a \in Actor : ExecutePlain(i, a)
               PROVE  UsedOnce
    BY DEF Next
  <2>1. ASSUME NEW a \in SuperAdmin, Endorse(i, a)
        PROVE  UsedOnce
    BY <2>1 DEF Endorse
  <2>2. ASSUME NEW a \in SuperAdmin, ExecuteGuarded(i, a)
        PROVE  UsedOnce
    BY <2>2 DEF ExecuteGuarded, ControlInv
  <2>3. ASSUME NEW a \in Actor, ExecutePlain(i, a)
        PROVE  UsedOnce
    BY <2>3 DEF ExecutePlain, ControlInv
  <2>. QED
    BY <2>1, <2>2, <2>3
<1>. QED
  BY ControlInductive, <1>1, PTL DEF Spec, EndorsementsAreUsedOnce

=============================================================================
