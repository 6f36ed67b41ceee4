------------------------------ MODULE Applications ------------------------------
(***************************************************************************)
(* From a lead or the public form to an account: applications and what     *)
(* staff decide on them, conversion of leads, invites, the first password, *)
(* and what signing in does to the records of a person.                    *)
(*                                                                         *)
(* A person is an email address: investors, users and the leads of a list  *)
(* are unique by it.  Server actions read first and write in transactions  *)
(* of their own; the steps of a request are its reads and its commits.     *)
(* Transactions that lock the investor row read under that lock (Lock) and *)
(* write what follows from it (their Commit step); everything else that    *)
(* writes that row, or refers to it by a foreign key, waits (Free).        *)
(*                                                                         *)
(* Not modelled: who may see whom (Ownership has the owners), expiry of    *)
(* invites (an expired invite is one whose request fails), emails, and     *)
(* suspension, which no code sets.                                         *)
(***************************************************************************)
EXTENDS Integers, Sequences, FiniteSets

CONSTANTS
    Person,    \* email addresses
    Inbox,     \* leads rows of the list "Inbound applications"
    Upload,    \* leads rows of an uploaded list
    User0,     \* in what state the users may be in the beginning
    Lead0,     \* and the leads, with their persons
    Request,   \* slots for requests at the same time
    EmailCap,  \* applications of one email within an hour
    MaxBegun,  \* bound: requests begun altogether
    None       \* no person, no lead

Lead == Inbox \cup Upload

Stage == {"absent", "new", "contacted", "qualified", "unqualified", "duplicate", "converted"}
TerminalStages == {"unqualified", "duplicate", "converted"}
SettableStages == {"new", "contacted", "qualified", "unqualified", "duplicate"}
BulkStages == {"contacted", "qualified", "unqualified"}
Status == {"submitted", "contacted", "approved", "rejected"}
Open == {"submitted", "contacted"}
Account == {"none", "pending_access", "active"}
\* A user without a credential, with a password nobody knows, or with one
\* that its owner chose at signing up.
UserState == {"none", "bare", "temporary", "known"}

ASSUME ApplicationsAssumption ==
    /\ None \notin Person \cup Lead \cup Request
    /\ Inbox \cap Upload = {}
    /\ User0 \subseteq UserState
    /\ Lead0 \in [Lead -> Person \cup {None}]
    /\ EmailCap \in Nat /\ MaxBegun \in Nat

VARIABLES
    account,    \* investors.account_status, "none" without a row
    claimed,    \* investors.auth_user_id is set
    apps,       \* the statuses of a person's applications, oldest first
    invites,    \* a person's invites, oldest first: "live" or "used"
    user,       \* the user and credential rows
    setBy,      \* account.password_set_at: the number of the invite that set it
    stage,      \* leads.status
    of,         \* leads.email
    link,       \* leads.investor_id
    holder,     \* the transaction that has the investor row locked
    begun,      \* how many requests have begun
    req         \* the requests

people == <<account, claimed, apps, invites, user, setBy>>
leads == <<stage, of, link>>
vars == <<people, leads, holder, begun, req>>

Seen == [account : Account, claimed : BOOLEAN, apps : Seq(Status),
         invites : Seq({"live", "used"})]
Unseen == [account |-> "none", claimed |-> FALSE, apps |-> <<>>, invites |-> <<>>]
Idle == [op |-> "idle", at |-> "", p |-> None, l |-> None, n |-> 0, to |-> "",
         found |-> {}, seen |-> Unseen]

Op == {"idle", "submit", "approve", "regenerate", "decide", "password", "signin",
       "convert", "stage"}
At == {"", "leads", "lock", "locked", "read", "approve", "adopt", "claim", "create",
       "link", "application", "insert", "convertLink", "write"}

TypeOK ==
    /\ account \in [Person -> Account]
    /\ claimed \in [Person -> BOOLEAN]
    /\ apps \in [Person -> Seq(Status)]
    /\ invites \in [Person -> Seq({"live", "used"})]
    /\ user \in [Person -> UserState]
    /\ setBy \in [Person -> Nat]
    /\ stage \in [Lead -> Stage]
    /\ of \in [Lead -> Person \cup {None}]
    /\ link \in [Lead -> Person \cup {None}]
    /\ holder \in [Person -> Request \cup {None}]
    /\ begun \in 0..MaxBegun
    /\ req \in [Request ->
         [op : Op, at : At, p : Person \cup {None}, l : Lead \cup {None}, n : Nat,
          to : Status \cup Stage \cup {""}, found : SUBSET Lead, seen : Seen]]

Init ==
    /\ account = [p \in Person |-> "none"]
    /\ claimed = [p \in Person |-> FALSE]
    /\ apps = [p \in Person |-> <<>>]
    /\ invites = [p \in Person |-> <<>>]
    /\ user \in [Person -> User0]
    /\ setBy = [p \in Person |-> 0]
    /\ stage = [l \in Lead |-> IF Lead0[l] = None THEN "absent" ELSE "new"]
    /\ of = Lead0
    /\ link = [l \in Lead |-> None]
    /\ holder = [p \in Person |-> None]
    /\ begun = 0
    /\ req = [r \in Request |-> Idle]

-----------------------------------------------------------------------------
(* Requests and the lock on the investor row                                *)

Is(r, op, at) == req[r].op = op /\ req[r].at = at
Free(p) == holder[p] = None

Begin(r, new) ==
    /\ req[r] = Idle /\ begun < MaxBegun
    /\ begun' = begun + 1
    /\ req' = [req EXCEPT ![r] = new]
    /\ UNCHANGED <<people, leads, holder>>
Go(r, at) ==
    /\ req' = [req EXCEPT ![r].at = at]
    /\ UNCHANGED <<holder, begun>>
End(r) ==
    /\ req' = [req EXCEPT ![r] = Idle]
    /\ holder' = [p \in Person |-> IF holder[p] = r THEN None ELSE holder[p]]
    /\ UNCHANGED begun

\* Refused, rolled back, cut off, or nothing is left to do: what was committed
\* before stays.
RequestFails(r) == req[r] # Idle /\ End(r) /\ UNCHANGED <<people, leads>>

Snapshot(p) ==
    [account |-> account[p], claimed |-> claimed[p], apps |-> apps[p], invites |-> invites[p]]

\* MUTANT: the row is read without locking it.
Lock_Unlocked(r) ==
    LET p == req[r].p
    IN  /\ req[r].at = "lock" /\ Free(p)
        /\ req' = [req EXCEPT ![r].at = "locked", ![r].seen = Snapshot(p)]
        /\ UNCHANGED <<people, leads, holder, begun>>

Lock(r) ==
    LET p == req[r].p
    IN  /\ req[r].at = "lock" /\ account[p] # "none" /\ Free(p)
        /\ holder' = [holder EXCEPT ![p] = r]
        /\ req' = [req EXCEPT ![r].at = "locked", ![r].seen = Snapshot(p)]
        /\ UNCHANGED <<people, leads, begun>>

HasOpen(s) == \E n \in DOMAIN s : s[n] \in Open
Linked(p) == \E l \in Lead : link[l] = p
\* The unique index on list and email.
SameList(l, k) == {l, k} \subseteq Inbox \/ {l, k} \subseteq Upload
Taken(l, p) == \E k \in Lead \ {l} : SameList(l, k) /\ stage[k] # "absent" /\ of[k] = p

-----------------------------------------------------------------------------
(* The public form                                                          *)

\* The account and an open application are looked at without a lock.
MayApply(p) ==
    /\ account[p] # "active"
    /\ account[p] = "pending_access" => ~HasOpen(apps[p])

\* So is the limit per email; the answer is the same whatever they say.
SubmitApplication(r) ==
    \E p \in Person :
        /\ Len(apps[p]) < EmailCap
        /\ MayApply(p)
        /\ Begin(r, [Idle EXCEPT !.op = "submit", !.p = p,
                       !.at = IF account[p] = "none" THEN "write" ELSE "leads"])

\* A known applicant: the linked lead is read and locked before the investor.
ReadLinkedLead(r) ==
    /\ Is(r, "submit", "leads")
    /\ req' = [req EXCEPT ![r].at = "lock", ![r].found = {l \in Lead : link[l] = req[r].p}]
    /\ UNCHANGED <<people, leads, holder, begun>>

\* The lead of an application: the linked one, else the one of the inbox with
\* that email, unless it is another investor's, else a new one.  An email or a
\* link that is taken fails the submission.
WriteLead(r) ==
    LET p == req[r].p
        same == {l \in Inbox : stage[l] # "absent" /\ of[l] = p}
    IN  \/ /\ req[r].found # {}
           /\ \E l \in req[r].found :
                /\ ~Taken(l, p)
                /\ of' = [of EXCEPT ![l] = p]
           /\ UNCHANGED <<stage, link>>
        \/ /\ req[r].found = {} /\ \E l \in same : link[l] # None
           /\ UNCHANGED leads
        \/ /\ req[r].found = {} /\ ~Linked(p)
           /\ \E l \in same :
                /\ link[l] = None
                /\ link' = [link EXCEPT ![l] = p]
                /\ stage' = [stage EXCEPT ![l] = "converted"]
           /\ UNCHANGED of
        \/ /\ req[r].found = {} /\ ~Linked(p) /\ same = {}
           /\ \E l \in Inbox :
                /\ stage[l] = "absent"
                /\ of' = [of EXCEPT ![l] = p]
                /\ link' = [link EXCEPT ![l] = p]
                /\ stage' = [stage EXCEPT ![l] = "converted"]

\* MUTANT: the applications are not looked at again under the lock.
MaySubmit_NotRechecked(r) ==
    LET p == req[r].p
    IN  \/ Is(r, "submit", "write") /\ account[p] = "none"
        \/ Is(r, "submit", "locked") /\ req[r].seen.account = "pending_access"

MaySubmit(r) ==
    LET p == req[r].p
        seen == req[r].seen
    IN  \/ Is(r, "submit", "write") /\ account[p] = "none"
        \/ /\ Is(r, "submit", "locked")
           /\ seen.account = "pending_access" /\ ~HasOpen(seen.apps)

PersistApplication(r) ==
    LET p == req[r].p
    IN  /\ MaySubmit(r)
        /\ account' = [account EXCEPT ![p] = "pending_access"]
        /\ apps' = [apps EXCEPT ![p] = Append(@, "submitted")]
        /\ WriteLead(r)
        /\ End(r)
        /\ UNCHANGED <<claimed, invites, user, setBy>>

-----------------------------------------------------------------------------
(* Decisions of staff                                                       *)

ApproveAndInvite(r) ==
    \E p \in Person : Begin(r, [Idle EXCEPT !.op = "approve", !.p = p, !.at = "read"])

\* The investor and the latest application, read without a lock.  A new invite
\* for one who is approved is the super admin's.
ReadForApproval(r) ==
    LET p == req[r].p
        n == Len(apps[p])
    IN  /\ req[r].op \in {"approve", "convert"} /\ req[r].at = "read"
        /\ account[p] # "none" /\ n > 0 /\ apps[p][n] # "rejected"
        /\ req' = [req EXCEPT
             ![r].op = "approve", ![r].n = n, ![r].seen = Snapshot(p),
             ![r].at = IF apps[p][n] = "approved" /\ claimed[p] THEN "lock" ELSE "approve"]
        /\ UNCHANGED <<people, leads, holder, begun>>

LinkAndApprove(r) ==
    LET p == req[r].p
    IN  /\ claimed' = [claimed EXCEPT ![p] = TRUE]
        /\ account' = [account EXCEPT ![p] = "active"]
        /\ apps' = [apps EXCEPT ![p][req[r].n] = "approved"]

\* User, link and approval in one transaction.
Approve(r) ==
    LET p == req[r].p
    IN  /\ Is(r, "approve", "approve") /\ Free(p)
        /\ \/ req[r].seen.claimed /\ UNCHANGED user
           \/ /\ ~req[r].seen.claimed /\ user[p] = "none"
              /\ user' = [user EXCEPT ![p] = "temporary"]
        /\ LinkAndApprove(r)
        /\ Go(r, "lock")
        /\ UNCHANGED <<invites, setBy, leads>>

\* There is a user with that email already: adopted unless it is an investor's.
FindOrphan(r) ==
    /\ Is(r, "approve", "approve")
    /\ ~req[r].seen.claimed /\ user[req[r].p] # "none" /\ ~claimed[req[r].p]
    /\ Go(r, "adopt")
    /\ UNCHANGED <<people, leads>>

\* MUTANT: an adopted user is left without a credential.
AdoptOrphan_NoCredential(r) ==
    /\ Is(r, "approve", "adopt") /\ Free(req[r].p)
    /\ LinkAndApprove(r)
    /\ Go(r, "lock")
    /\ UNCHANGED <<user, invites, setBy, leads>>

AdoptOrphan(r) ==
    LET p == req[r].p
    IN  /\ Is(r, "approve", "adopt") /\ Free(p)
        /\ user' = [user EXCEPT ![p] = IF @ = "bare" THEN "temporary" ELSE @]
        /\ LinkAndApprove(r)
        /\ Go(r, "lock")
        /\ UNCHANGED <<invites, setBy, leads>>

RegenerateInvite(r) ==
    \E p \in Person :
        /\ claimed[p]
        /\ Begin(r, [Idle EXCEPT !.op = "regenerate", !.p = p, !.at = "lock"])

\* The live invites are spent and a new one is made, in one transaction.
CreateInvite(r) ==
    LET p == req[r].p
        old == req[r].seen.invites
    IN  /\ req[r].op \in {"approve", "regenerate"} /\ req[r].at = "locked"
        /\ invites' = [invites EXCEPT ![p] =
             Append([n \in DOMAIN @ |-> IF n \in DOMAIN old THEN "used" ELSE @[n]], "live")]
        /\ End(r)
        /\ UNCHANGED <<account, claimed, apps, user, setBy, leads>>

\* markApplicationContacted and rejectApplication.
DecideApplication(r) ==
    \E p \in Person, to \in {"contacted", "rejected"} :
        Begin(r, [Idle EXCEPT !.op = "decide", !.p = p, !.to = to, !.at = "lock"])

\* The latest application, as it is under the lock.
Decidable(seen) == seen.apps # <<>> /\ seen.apps[Len(seen.apps)] \in Open

CommitDecision(r) ==
    LET p == req[r].p
        n == Len(req[r].seen.apps)
    IN  /\ Is(r, "decide", "locked") /\ Decidable(req[r].seen)
        /\ apps' = [apps EXCEPT ![p][n] = req[r].to]
        /\ End(r)
        /\ UNCHANGED <<account, claimed, invites, user, setBy, leads>>

-----------------------------------------------------------------------------
(* The first password                                                       *)

SetPasswordWithInvite(r) ==
    \E p \in Person : \E n \in DOMAIN invites[p] :
        /\ invites[p][n] = "live" /\ claimed[p]
        /\ Begin(r, [Idle EXCEPT !.op = "password", !.p = p, !.n = n, !.at = "lock"])

\* MUTANT: an account that has a password may get another one.
NotActivated_Unguarded(p) == user[p] \notin {"none", "bare"}

\* The guard of the update: a credential whose password no invite has set.
NotActivated(p) == user[p] \notin {"none", "bare"} /\ setBy[p] = 0

\* MUTANT: the invite is not looked at again under the lock.
StillLive_NotRechecked(r) == TRUE

StillLive(r) == req[r].seen.invites[req[r].n] = "live"

Activate(r) ==
    LET p == req[r].p
        n == req[r].n
    IN  /\ Is(r, "password", "locked")
        /\ req[r].seen.claimed /\ StillLive(r) /\ NotActivated(p)
        /\ setBy' = [setBy EXCEPT ![p] = n]
        /\ invites' = [invites EXCEPT ![p][n] = "used"]
        /\ End(r)
        /\ UNCHANGED <<account, claimed, apps, user, leads>>

-----------------------------------------------------------------------------
(* Signing in                                                               *)

CanSignIn(p) == user[p] = "known" \/ setBy[p] # 0

\* ensureInvestor, run by every page of the portal.
EnsureInvestor(r) ==
    \E p \in Person :
        /\ CanSignIn(p)
        /\ ~(claimed[p] /\ Linked(p))
        /\ Begin(r, [Idle EXCEPT !.op = "signin", !.p = p,
                       !.at = CASE claimed[p] -> "link"
                                [] ~claimed[p] /\ account[p] # "none" -> "claim"
                                [] OTHER -> "create"])

\* The unclaimed investor with the user's email, checked again under a lock;
\* who loses the race goes on as if there were none.
ClaimInvestor(r) ==
    LET p == req[r].p
    IN  /\ Is(r, "signin", "claim") /\ Free(p)
        /\ claimed' = [claimed EXCEPT ![p] = TRUE]
        /\ Go(r, IF claimed[p] THEN "create" ELSE "link")
        /\ UNCHANGED <<account, apps, invites, user, setBy, leads>>

CreateInvestor(r) ==
    LET p == req[r].p
    IN  /\ Is(r, "signin", "create")
        /\ \/ /\ account[p] = "none"
              /\ account' = [account EXCEPT ![p] = "active"]
              /\ claimed' = [claimed EXCEPT ![p] = TRUE]
           \/ /\ account[p] # "none" /\ claimed[p]
              /\ UNCHANGED <<account, claimed>>
        /\ Go(r, "link")
        /\ UNCHANGED <<apps, invites, user, setBy, leads>>

\* linkLeadOnInvestorCreate: candidates first, then one guarded update each.
FindLeads(r) ==
    LET p == req[r].p
    IN  /\ Is(r, "signin", "link")
        /\ req' = [req EXCEPT ![r].at = "write",
             ![r].found = {l \in Lead : /\ of[l] = p /\ link[l] = None
                                        /\ stage[l] \notin TerminalStages \cup {"absent"}}]
        /\ UNCHANGED <<people, leads, holder, begun>>

LinkLead(r) ==
    LET p == req[r].p
    IN  /\ Is(r, "signin", "write") /\ Free(p)
        /\ \E l \in req[r].found :
             \/ /\ link[l] = None /\ ~Linked(p)
                /\ link' = [link EXCEPT ![l] = p]
                /\ stage' = [stage EXCEPT ![l] = "converted"]
                /\ End(r)
                /\ UNCHANGED <<people, of>>
             \/ /\ link[l] # None
                /\ req' = [req EXCEPT ![r].found = @ \ {l}]
                /\ UNCHANGED <<people, leads, holder, begun>>

-----------------------------------------------------------------------------
(* Leads                                                                    *)

\* The lead and its person's investor are read without a lock.
ConvertLead(r) ==
    \E l \in Lead :
        /\ stage[l] \notin {"absent", "unqualified", "duplicate"}
        /\ Begin(r, [Idle EXCEPT !.op = "convert", !.l = l,
             !.found = IF link[l] = None THEN {l} ELSE {},
             !.p = IF link[l] # None THEN link[l] ELSE of[l],
             !.at = IF link[l] = None /\ account[of[l]] = "none" THEN "create"
                    ELSE "application"])

\* Investor, application and link in one transaction; the update of the lead
\* is by its id alone.
CreateConverted(r) ==
    LET p == req[r].p
        l == req[r].l
    IN  /\ Is(r, "convert", "create") /\ account[p] = "none"
        /\ account' = [account EXCEPT ![p] = "pending_access"]
        /\ apps' = [apps EXCEPT ![p] = Append(@, "submitted")]
        /\ link' = [link EXCEPT ![l] = p]
        /\ stage' = [stage EXCEPT ![l] = "converted"]
        /\ Go(r, "application")
        /\ UNCHANGED <<claimed, invites, user, setBy, of>>

\* An investor without any application gets one: read, then inserted ...
FindApplication(r) ==
    /\ Is(r, "convert", "application")
    /\ Go(r, IF apps[req[r].p] = <<>> THEN "insert" ELSE "convertLink")
    /\ UNCHANGED <<people, leads>>

InsertApplication(r) ==
    LET p == req[r].p
    IN  /\ Is(r, "convert", "insert") /\ Free(p)
        /\ apps' = [apps EXCEPT ![p] = Append(@, "submitted")]
        /\ Go(r, "convertLink")
        /\ UNCHANGED <<account, claimed, invites, user, setBy, leads>>

\* ... then the lead is linked, by its id alone, and the application approved.
LinkConverted(r) ==
    LET p == req[r].p
        l == req[r].l
    IN  /\ Is(r, "convert", "convertLink")
        /\ \/ req[r].found = {} /\ UNCHANGED leads
           \/ /\ req[r].found # {} /\ Free(p)
              /\ \A k \in Lead \ {l} : link[k] # p
              /\ link' = [link EXCEPT ![l] = p]
              /\ stage' = [stage EXCEPT ![l] = "converted"]
              /\ UNCHANGED of
        /\ Go(r, "read")
        /\ UNCHANGED people

\* setLeadStatus and bulkSetLeadStatus: stages are read first, then written
\* lead by lead.
SetLeadStatus(r) ==
    \E ls \in SUBSET Lead \ {{}}, to \in SettableStages :
        /\ Cardinality(ls) # 1 => to \in BulkStages
        /\ \A l \in ls : stage[l] # "absent"
        /\ Begin(r, [Idle EXCEPT !.op = "stage", !.to = to, !.at = "write",
             !.found = {l \in ls : ~(stage[l] = "converted" /\ link[l] # None)}])

WriteStage(r) ==
    /\ Is(r, "stage", "write")
    /\ \E l \in req[r].found :
         /\ stage' = [stage EXCEPT ![l] = req[r].to]
         /\ req' = [req EXCEPT ![r].found = @ \ {l}]
    /\ UNCHANGED <<people, of, link, holder, begun>>

Others == <<people, link, holder, begun, req>>

\* logCallAttempt reads the stage under the lead's lock.
LogCallAttempt(l) ==
    /\ stage[l] = "new"
    /\ stage' = [stage EXCEPT ![l] = "contacted"]
    /\ UNCHANGED of /\ UNCHANGED Others

\* The unique index on list and email keeps a second row out.
UploadLead(l, p) ==
    /\ l \in Upload /\ stage[l] = "absent" /\ ~Taken(l, p)
    /\ stage' = [stage EXCEPT ![l] = "new"]
    /\ of' = [of EXCEPT ![l] = p]
    /\ UNCHANGED Others

UpdateLeadDetails(l, p) ==
    /\ stage[l] # "absent" /\ of[l] # p /\ ~Taken(l, p)
    /\ of' = [of EXCEPT ![l] = p]
    /\ UNCHANGED stage /\ UNCHANGED Others

-----------------------------------------------------------------------------
FormSteps(r) == SubmitApplication(r) \/ ReadLinkedLead(r) \/ PersistApplication(r)
StaffSteps(r) ==
    \/ ApproveAndInvite(r) \/ ReadForApproval(r) \/ Approve(r) \/ FindOrphan(r)
    \/ AdoptOrphan(r) \/ RegenerateInvite(r) \/ CreateInvite(r)
    \/ DecideApplication(r) \/ CommitDecision(r)
PersonSteps(r) ==
    \/ SetPasswordWithInvite(r) \/ Activate(r)
    \/ EnsureInvestor(r) \/ ClaimInvestor(r) \/ CreateInvestor(r) \/ FindLeads(r) \/ LinkLead(r)
LeadSteps(r) ==
    \/ ConvertLead(r) \/ CreateConverted(r) \/ FindApplication(r) \/ InsertApplication(r)
    \/ LinkConverted(r) \/ SetLeadStatus(r) \/ WriteStage(r)

Next ==
    \/ \E r \in Request : FormSteps(r) \/ StaffSteps(r) \/ PersonSteps(r) \/ LeadSteps(r)
                            \/ Lock(r) \/ RequestFails(r)
    \/ \E l \in Lead : LogCallAttempt(l) \/ \E p \in Person : UploadLead(l, p) \/ UpdateLeadDetails(l, p)

Spec == Init /\ [][Next]_vars

-----------------------------------------------------------------------------
(* Properties                                                               *)

(* Somebody who waits for access has one open application at most: neither  *)
(* two submissions nor a submission and a conversion make two.              *)
PendingHasOneOpen ==
    \A p \in Person : account[p] = "pending_access" =>
        Cardinality({n \in DOMAIN apps[p] : apps[p][n] \in Open}) <= 1

(* An investor has one live invite at most ("concurrent regenerations can't *)
(* leave two live tokens", apply/admin-actions.ts).                         *)
OneLiveInvite ==
    \A p \in Person : Cardinality({n \in DOMAIN invites[p] : invites[p][n] = "live"}) <= 1

(* Whoever has an approved application has an active account, a user and a  *)
(* credential an invite can set the password of, also by way of an orphan   *)
(* user or of a sign-in that claimed the investor meanwhile.                *)
ApprovedHasAccess ==
    \A p \in Person : (\E n \in DOMAIN apps[p] : apps[p][n] = "approved") =>
        account[p] = "active" /\ claimed[p] /\ user[p] \notin {"none", "bare"}

(* No invite sets a password where an invite has set one before.            *)
PasswordSetOnce ==
    [][\A p \in Person : setBy[p] # 0 => setBy'[p] = setBy[p]]_vars

(* Only the newest invite activates an account: one that was replaced while *)
(* its request was under way does not.                                      *)
NewestInviteActivates ==
    [][\A p \in Person : setBy'[p] # setBy[p] =>
          setBy'[p] = Len(invites[p]) /\ invites[p][Len(invites[p])] = "live"]_vars

(* An approval is never taken back by a decision made on an older page.     *)
ApprovalStands ==
    [][\A p \in Person : \A n \in DOMAIN apps[p] :
          apps[p][n] = "approved" => apps'[p][n] = "approved"]_vars

(* A rejection is final ("so the terminal transition cannot be overwritten",*)
(* apply/admin-actions.ts).                                                 *)
RejectionStands ==
    [][\A p \in Person : \A n \in DOMAIN apps[p] :
          apps[p][n] = "rejected" => apps'[p][n] = "rejected"]_vars

(* A lead linked to an investor is converted and stays so ("must never      *)
(* leave the converted stage", leads/assign/bulk-status.ts).  The code does *)
(* not keep it (README, section 4).                                         *)
LinkedIsConverted == \A l \in Lead : link[l] # None => stage[l] = "converted"

=============================================================================
