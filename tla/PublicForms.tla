------------------------------ MODULE PublicForms ------------------------------
(***************************************************************************)
(* The forms of the public site and what limits them: the application      *)
(* wizard, the form for hosts of a parking space and the hint of the       *)
(* sign-in page, with the throttle they share, the cap on applications of  *)
(* one email and the confirmation emails.                                  *)
(*                                                                         *)
(* Everything is about one email address.  A tab posts its form and waits; *)
(* the server goes on with a request whose connection is lost, so that a   *)
(* person who is told to try again may have two requests on the way.  What *)
(* else an application writes is in Applications.                          *)
(***************************************************************************)
EXTENDS Integers, Sequences, FiniteSets

CONSTANTS
    Tab,         \* browser tabs
    Ip,          \* client addresses
    IpOf,        \* the address of a tab, None if the proxy gives none
    MaxPerWindow, MaxBuckets, Window,  \* the throttle; Window is an hour
    EmailCap,    \* applications of one email within the hour
    MaxNow, MaxPosts, MaxHints,   \* bounds: time, posts of a tab, hints let through
    None

Form == {"apply", "host"}
\* Fields the browser refuses, fields only the server refuses, or neither.
Profile == {"missing", "refused", "valid"}
Key == {"apply", "host", "hint"} \X Ip

ASSUME PublicFormsAssumption ==
    /\ IpOf \in [Tab -> Ip \cup {None}] /\ None \notin Ip
    /\ MaxPerWindow \in Nat \ {0} /\ Window \in Nat \ {0} /\ MaxBuckets \in Nat
    /\ EmailCap \in Nat \ {0} /\ MaxNow \in Nat /\ MaxPosts \in Nat /\ MaxHints \in Nat

VARIABLES
    form,      \* the form a tab shows
    tab,       \* the tabs
    net,       \* the requests on their way
    account,   \* the account of the email, "none" without an investor
    open,      \* it has an open application
    filed,     \* when its applications were inserted
    host,      \* it has a lead in the list of hosts
    mails,     \* confirmations sent, by form
    rows,      \* rows inserted, by form
    bucket,    \* the throttle's map; a count of 0 is a key that is not in it
    passed,    \* when requests passed the throttle, since the server started
    now

db == <<account, open, filed, host, rows>>
throttle == <<bucket, passed>>
formsVars == <<form, tab, net, db, mails, throttle, now>>

NoBucket == [count |-> 0, resetAt |-> 0]

FormsTypeOK ==
    /\ form \in [Tab -> Form]
    /\ tab \in [Tab -> [step : 1..3, profile : Profile,
                        accepted : BOOLEAN, at : {"edit", "pending", "done"},
                        posts : 0..MaxPosts]]
    /\ net \subseteq [tab : Tab, n : 1..MaxPosts, valid : BOOLEAN,
                      at : {"arrived", "write", "mail", "ok", "error"}]
    /\ account \in {"none", "pending_access", "active"}
    /\ open \in BOOLEAN /\ host \in BOOLEAN
    /\ filed \in Seq(0..MaxNow)
    /\ mails \in [Form -> Nat] /\ rows \in [Form -> Nat]
    /\ bucket \in [Key -> [count : Nat, resetAt : Nat]]
    /\ passed \in [Key -> Seq(0..MaxNow)]
    /\ now \in 0..MaxNow

\* One investor may have been there before, with its applications decided.
FormsInit ==
    /\ form \in [Tab -> Form]
    /\ tab = [t \in Tab |-> [step |-> 1, profile |-> "missing", accepted |-> FALSE,
                             at |-> "edit", posts |-> 0]]
    /\ net = {}
    /\ account \in {"none", "pending_access", "active"}
    /\ open = FALSE /\ host = FALSE /\ filed = <<>>
    /\ mails = [f \in Form |-> 0] /\ rows = [f \in Form |-> 0]
    /\ bucket = [k \in Key |-> NoBucket] /\ passed = [k \in Key |-> <<>>]
    /\ now = 0

-----------------------------------------------------------------------------
(* The forms in the browser                                                 *)

LastStep(t) == IF form[t] = "apply" THEN 3 ELSE 1
Show(t, shown) ==
    /\ tab' = [tab EXCEPT ![t] = shown]
    /\ UNCHANGED <<form, net, db, mails, throttle, now>>

\* Fields are filled in; some contents only the server refuses.
PatchForm(t) ==
    /\ tab[t].at = "edit" /\ tab[t].step = 1
    /\ \E p \in Profile :
         p # tab[t].profile /\ Show(t, [tab[t] EXCEPT !.profile = p])

\* The boxes of the last step stay enabled while a post is on its way.
Accept(t) ==
    /\ tab[t].at # "done" /\ tab[t].step = LastStep(t)
    /\ Show(t, [tab[t] EXCEPT !.accepted = ~@])

ValidateStep(t) ==
    CASE tab[t].step = 1 -> tab[t].profile # "missing"
      [] tab[t].step = 2 -> TRUE
      [] OTHER -> tab[t].accepted

HandleContinue(t) ==
    /\ tab[t].at = "edit" /\ tab[t].step < LastStep(t) /\ ValidateStep(t)
    /\ Show(t, [tab[t] EXCEPT !.step = @ + 1])
HandleBack(t) ==
    /\ tab[t].at = "edit" /\ tab[t].step > 1
    /\ Show(t, [tab[t] EXCEPT !.step = @ - 1])

HandleSubmit(t) ==
    /\ tab[t].at = "edit" /\ tab[t].step = LastStep(t) /\ tab[t].posts < MaxPosts
    /\ ValidateStep(t) /\ tab[t].accepted
    /\ tab' = [tab EXCEPT ![t].at = "pending", ![t].posts = @ + 1]
    /\ net' = net \cup {[tab |-> t, n |-> tab[t].posts + 1,
                         valid |-> tab[t].profile = "valid", at |-> "arrived"]}
    /\ UNCHANGED <<form, db, mails, throttle, now>>

\* The result of the post that is waited for; a result of an earlier one has
\* nobody to go to.
ShowResult(q) ==
    LET t == q.tab
    IN  /\ q.at \in {"ok", "error"}
        /\ net' = net \ {q}
        /\ tab' = IF tab[t].at = "pending" /\ tab[t].posts = q.n
                  THEN [tab EXCEPT ![t].at = IF q.at = "ok" THEN "done" ELSE "edit"]
                  ELSE tab
        /\ UNCHANGED <<form, db, mails, throttle, now>>

\* The connection fails: the person is asked to try again, the server may
\* still be at work.
ConnectionLost(t) ==
    /\ tab[t].at = "pending"
    /\ Show(t, [tab[t] EXCEPT !.at = "edit"])

-----------------------------------------------------------------------------
(* The throttle                                                             *)

Tracked(b) == {k \in Key : b[k].count > 0}

\* Expired buckets are dropped only when the map is full.
Swept ==
    IF Cardinality(Tracked(bucket)) >= MaxBuckets
    THEN [k \in Key |-> IF bucket[k].resetAt <= now THEN NoBucket ELSE bucket[k]]
    ELSE bucket

\* MUTANT: one more than the allowance.
BelowLimit_OffByOne(b) == b.count <= MaxPerWindow
BelowLimit(b) == b.count < MaxPerWindow

Expired(b) == b.count = 0 \/ b.resetAt <= now
HasRoom(k) == Swept[k].count > 0 \/ Cardinality(Tracked(Swept)) < MaxBuckets
Allows(k) == IF Expired(Swept[k]) THEN HasRoom(k) ELSE BelowLimit(Swept[k])

\* A request more in the window, or the first one of a new window.
Counted(b) ==
    IF Expired(b) THEN [count |-> 1, resetAt |-> now + Window]
                  ELSE [b EXCEPT !.count = @ + 1]

\* ipThrottleAllows, for a known address: what it returns and what it writes.
Throttled(k, allowed) ==
    /\ allowed = Allows(k)
    /\ bucket' = IF allowed THEN [Swept EXCEPT ![k] = Counted(Swept[k])] ELSE Swept
    /\ passed' = IF allowed THEN [passed EXCEPT ![k] = Append(@, now)] ELSE passed

\* Requests without an address pass.
IpThrottle(action, ip, allowed) ==
    IF ip = None THEN allowed = TRUE /\ UNCHANGED throttle
    ELSE Throttled(<<action, ip>>, allowed)

GetSignInHint(ip) ==
    /\ Len(passed[<<"hint", ip>>]) < MaxHints
    /\ \E allowed \in BOOLEAN : IpThrottle("hint", ip, allowed)
    /\ UNCHANGED <<form, tab, net, db, mails, now>>

-----------------------------------------------------------------------------
(* The server                                                               *)

Advance(q, at) == net' = (net \ {q}) \cup {[q EXCEPT !.at = at]}
Recent == {i \in DOMAIN filed : filed[i] >= now - Window}

FieldsValid(q) == q.valid

\* Fields first, then the throttle, then the cap; whoever is over the cap is
\* answered like everybody else.
Submit(q) ==
    LET f == form[q.tab]
    IN  /\ q.at = "arrived"
        /\ IF ~FieldsValid(q) THEN Advance(q, "error") /\ UNCHANGED throttle
           ELSE \E allowed \in BOOLEAN :
                  /\ IpThrottle(f, IpOf[q.tab], allowed)
                  /\ Advance(q, IF ~allowed THEN "error"
                                ELSE IF f = "apply" /\ Cardinality(Recent) >= EmailCap
                                THEN "ok" ELSE "write")
        /\ UNCHANGED <<form, tab, db, mails, now>>

\* MUTANT: a repeated application is confirmed again.
AfterRepeat_Confirmed == "mail"
AfterRepeat == "ok"

\* An account that exists and an open application leave everything as it is.
PersistApplication(q) ==
    /\ form[q.tab] = "apply" /\ q.at = "write"
    /\ IF account = "active" \/ open
       THEN Advance(q, AfterRepeat) /\ UNCHANGED db
       ELSE /\ account' = "pending_access" /\ open' = TRUE
            /\ filed' = Append(filed, now)
            /\ rows' = [rows EXCEPT !["apply"] = @ + 1]
            /\ Advance(q, "mail") /\ UNCHANGED host
    /\ UNCHANGED <<form, tab, mails, throttle, now>>

\* One lead of an email in the list, by reading first and by the index.
PersistHost(q) ==
    /\ form[q.tab] = "host" /\ q.at = "write"
    /\ IF host
       THEN Advance(q, AfterRepeat) /\ UNCHANGED db
       ELSE /\ host' = TRUE
            /\ rows' = [rows EXCEPT !["host"] = @ + 1]
            /\ Advance(q, "mail") /\ UNCHANGED <<account, open, filed>>
    /\ UNCHANGED <<form, tab, mails, throttle, now>>

\* MUTANT: a failed transaction is answered like a repetition.
AfterFailure_Repeat == "ok"
AfterFailure == "error"

PersistFails(q) ==
    /\ q.at = "write" /\ Advance(q, AfterFailure)
    /\ UNCHANGED <<form, tab, db, mails, throttle, now>>

\* An email that fails is logged only.
SendConfirmation(q) ==
    /\ q.at = "mail" /\ Advance(q, "ok")
    /\ \E sent \in 0..1 : mails' = [mails EXCEPT ![form[q.tab]] = @ + sent]
    /\ UNCHANGED <<form, tab, db, throttle, now>>

\* Staff approve the open application or reject it.
DecideApplication ==
    /\ open /\ open' = FALSE
    /\ account' \in {"pending_access", "active"}
    /\ UNCHANGED <<form, tab, net, filed, host, rows, mails, throttle, now>>

\* The map is in memory, and so are the requests.
Restart ==
    /\ net # {} \/ Tracked(bucket) # {}
    /\ net' = {}
    /\ bucket' = [k \in Key |-> NoBucket] /\ passed' = [k \in Key |-> <<>>]
    /\ UNCHANGED <<form, tab, db, mails, now>>

Tick ==
    /\ now < MaxNow /\ now' = now + 1
    /\ UNCHANGED <<form, tab, net, db, mails, throttle>>

FormsNext ==
    \/ \E t \in Tab :
         \/ PatchForm(t) \/ Accept(t) \/ HandleContinue(t) \/ HandleBack(t)
         \/ HandleSubmit(t) \/ ConnectionLost(t)
    \/ \E q \in net :
         \/ Submit(q) \/ PersistApplication(q) \/ PersistHost(q) \/ PersistFails(q)
         \/ SendConfirmation(q) \/ ShowResult(q)
    \/ \E ip \in Ip : GetSignInHint(ip)
    \/ DecideApplication \/ Restart \/ Tick

FormsSpec == FormsInit /\ [][FormsNext]_formsVars

-----------------------------------------------------------------------------
(* What must hold                                                           *)

\* A fixed window that starts with its first request lets less than twice the
\* allowance through in any hour, wherever the hour begins, and the map never
\* grows beyond its cap.
ThrottleBound ==
    /\ \A k \in Key : \A i \in DOMAIN passed[k] :
         Cardinality({j \in i..Len(passed[k]) : passed[k][j] < passed[k][i] + Window})
           <= 2 * MaxPerWindow - 1
    /\ Cardinality(Tracked(bucket)) <= MaxBuckets

\* However often a tab tries again, and whatever became of its earlier posts,
\* an email address gets one confirmation for each row it has filed, and files
\* one host enquiry.
ConfirmedOnce ==
    /\ \A f \in Form : mails[f] <= rows[f]
    /\ rows["host"] <= 1

\* A tab that says the details were received tells the truth: they are on
\* file, or there is an account already.
ReceivedIsOnFile ==
    \A t \in Tab : tab[t].at = "done" =>
       IF form[t] = "apply" THEN account # "none" ELSE host

\* The cap on the applications of one email is the authoritative limit.  The
\* code reads it before it writes, so requests that overlap may exceed it:
\* see the README.
CapIsAuthoritative == Cardinality(Recent) <= EmailCap
=============================================================================
