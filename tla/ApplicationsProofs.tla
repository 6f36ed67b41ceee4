--------------------------- MODULE ApplicationsProofs ---------------------------
(***************************************************************************)
(* Proofs about Applications, for any people, leads and number of          *)
(* overlapping requests.                                                   *)
(***************************************************************************)
EXTENDS Applications, FiniteSetTheorems, SequenceTheorems, TLAPS

ReqType ==
    [op : Op, at : At, p : Person \cup {None}, l : Lead \cup {None}, n : Nat,
     to : Status \cup Stage \cup {""}, found : SUBSET Lead, seen : Seen]

LockOp == {"submit", "approve", "regenerate", "decide", "password"}
PersonOp == LockOp \cup {"signin", "convert"}

\* What the fields of a request name.
Names(r) ==
    /\ req[r].op \in PersonOp => req[r].p \in Person
    /\ req[r].at \in {"lock", "locked"} => req[r].op \in LockOp
    /\ req[r].op = "convert" => req[r].l \in Lead /\ stage[req[r].l] # "absent"
    /\ req[r].op \in {"signin", "stage"} => \A l \in req[r].found : stage[l] # "absent"
    /\ req[r].op = "stage" => req[r].to \in SettableStages
    /\ req[r].op = "decide" => req[r].to \in {"contacted", "rejected"}
    /\ req[r].op = "password" => req[r].n \in DOMAIN invites[req[r].p]
    /\ req[r].op = "approve" /\ req[r].at \in {"approve", "adopt"} =>
         req[r].n \in DOMAIN apps[req[r].p]

\* What a request has found and nobody takes back.
Found(r) ==
    /\ req[r].op = "approve" /\ req[r].at \in {"approve", "adopt"} =>
         /\ req[r].seen.claimed => claimed[req[r].p]
         /\ req[r].at = "adopt" => user[req[r].p] # "none"
    /\ req[r].op = "signin" =>
         /\ CanSignIn(req[r].p)
         /\ req[r].at \in {"claim", "link", "write"} => account[req[r].p] # "none"
    /\ req[r].op = "convert" =>
         /\ req[r].at # "create" => account[req[r].p] # "none"
         /\ req[r].at = "insert" => account[req[r].p] = "active"

\* Under its lock a transaction knows the row as it is.
RowLocked(r) ==
    req[r].at = "locked" =>
      /\ holder[req[r].p] = r
      /\ account[req[r].p] # "none"
      /\ req[r].seen = Snapshot(req[r].p)

LeadsNamed ==
    \A l \in Lead : /\ stage[l] # "absent" => of[l] \in Person
                    /\ link[l] # None => account[link[l]] # "none"

NothingBeforeAccount(p) == account[p] = "none" => apps[p] = <<>> /\ ~claimed[p]
AtMostOneOpen(p) ==
    account[p] = "pending_access" =>
      /\ apps[p] # <<>>
      /\ \A m, n \in DOMAIN apps[p] : apps[p][m] \in Open /\ apps[p][n] \in Open => m = n
HasCredential(p) == claimed[p] \/ setBy[p] # 0 => user[p] \notin {"none", "bare"}
ApprovedClaimed(p) ==
    (\E n \in DOMAIN apps[p] : apps[p][n] = "approved") => account[p] = "active" /\ claimed[p]
OnlyLastLive(p) ==
    \A n \in DOMAIN invites[p] : n # Len(invites[p]) => invites[p][n] = "used"

PersonInv(p) ==
    NothingBeforeAccount(p) /\ AtMostOneOpen(p) /\ HasCredential(p) /\ ApprovedClaimed(p)
      /\ OnlyLastLive(p)

IInv ==
    /\ TypeOK
    /\ \A r \in Request : Names(r) /\ Found(r) /\ RowLocked(r)
    /\ LeadsNamed
    /\ \A p \in Person : PersonInv(p)

-----------------------------------------------------------------------------
(* Sequences                                                                *)

LEMMA AppendSeq ==
    ASSUME NEW S, NEW s \in Seq(S), NEW e \in S
    PROVE  /\ Append(s, e) \in Seq(S)
           /\ Len(Append(s, e)) = Len(s) + 1 /\ Len(s) \in Nat
           /\ DOMAIN s = 1..Len(s) /\ DOMAIN Append(s, e) = 1..(Len(s) + 1)
           /\ \A n \in DOMAIN s : Append(s, e)[n] = s[n]
           /\ Append(s, e)[Len(s) + 1] = e
<1>1. Len(s) \in Nat /\ DOMAIN s = 1..Len(s)
  BY LenProperties
<1>2. /\ Append(s, e) \in Seq(S) /\ Len(Append(s, e)) = Len(s) + 1
      /\ \A n \in 1..Len(s) : Append(s, e)[n] = s[n]
      /\ Append(s, e)[Len(s) + 1] = e
  BY AppendProperties
<1>3. DOMAIN Append(s, e) = 1..(Len(s) + 1)
  BY <1>2, LenProperties
<1> QED
  BY <1>1, <1>2, <1>3

LEMMA UpdateSeq ==
    ASSUME NEW S, NEW s \in Seq(S), NEW n \in DOMAIN s, NEW e \in S
    PROVE  /\ [s EXCEPT ![n] = e] \in Seq(S)
           /\ Len([s EXCEPT ![n] = e]) = Len(s)
           /\ DOMAIN [s EXCEPT ![n] = e] = DOMAIN s
           /\ \A m \in DOMAIN s : [s EXCEPT ![n] = e][m] = IF m = n THEN e ELSE s[m]
BY LenProperties, ExceptSeq

\* The invites after a new one: all others are spent.
LEMMA SpentSeq ==
    ASSUME NEW s \in Seq({"live", "used"})
    PROVE  LET t == Append([n \in DOMAIN s |-> IF n \in DOMAIN s THEN "used" ELSE s[n]], "live")
           IN  /\ t \in Seq({"live", "used"})
               /\ DOMAIN s \subseteq DOMAIN t
               /\ \A n \in DOMAIN t : n # Len(t) => t[n] = "used"
<1> DEFINE u == [n \in DOMAIN s |-> IF n \in DOMAIN s THEN "used" ELSE s[n]]
<1>1. Len(s) \in Nat /\ DOMAIN s = 1..Len(s)
  BY LenProperties
<1>2. u \in [1..Len(s) -> {"live", "used"}]
  BY <1>1
<1>3. u \in Seq({"live", "used"})
  BY <1>1, <1>2, SeqDef
<1>4. Len(u) = Len(s) /\ \A n \in DOMAIN s : u[n] = "used"
  BY <1>1, <1>3, LenProperties
<1> HIDE DEF u
<1>5. /\ Append(u, "live") \in Seq({"live", "used"})
      /\ Len(Append(u, "live")) = Len(s) + 1
      /\ DOMAIN Append(u, "live") = 1..(Len(s) + 1)
      /\ \A n \in DOMAIN u : Append(u, "live")[n] = u[n]
      /\ DOMAIN u = 1..Len(s)
  BY <1>3, <1>4, AppendSeq
<1>6. \A n \in DOMAIN Append(u, "live") : n # Len(Append(u, "live")) => Append(u, "live")[n] = "used"
  BY <1>1, <1>4, <1>5
<1> QED
  BY <1>1, <1>5, <1>6 DEF u

-----------------------------------------------------------------------------
(* Steps, in general                                                        *)

LEMMA IdleType == Idle \in ReqType
BY DEF Idle, ReqType, Op, At, Seen, Unseen, Account

LEMMA ReqTyped == TypeOK => req \in [Request -> ReqType]
BY DEF TypeOK, ReqType

LEMMA SnapshotType ==
    ASSUME TypeOK, NEW p \in Person
    PROVE  Snapshot(p) \in Seen
BY DEF TypeOK, Snapshot, Seen

\* No step takes back what others have found.
Grows ==
    /\ \A p \in Person :
         /\ account[p] # "none" => account'[p] # "none"
         /\ account[p] = "active" => account'[p] = "active"
         /\ claimed[p] => claimed'[p]
         /\ user[p] # "none" => user'[p] # "none"
         /\ CanSignIn(p) => CanSignIn(p)'
         /\ DOMAIN apps[p] \subseteq DOMAIN apps'[p]
         /\ DOMAIN invites[p] \subseteq DOMAIN invites'[p]
    /\ \A l \in Lead : stage[l] # "absent" => stage'[l] # "absent"

\* A row locked by another transaction stays as it is.
LocksKept(r) ==
    \A p \in Person, q \in Request \ {r} : holder[p] = q /\ account[p] # "none" =>
        holder'[p] = q /\ Snapshot(p)' = Snapshot(p)

LEMMA OthersKept ==
    ASSUME IInv, NEW r, NEW q \in Request \ {r}, req'[q] = req[q], Grows, LocksKept(r)
    PROVE  (Names(q) /\ Found(q) /\ RowLocked(q))'
<1>1. Names(q) /\ Found(q) /\ RowLocked(q)
  BY DEF IInv
<1>2. req[q] \in ReqType
  BY ReqTyped DEF IInv
<1>3. req[q].found \subseteq Lead
  BY <1>2 DEF ReqType
<1>4. Names(q)'
  <2>1. req[q].op = "password" => DOMAIN invites[req[q].p] \subseteq DOMAIN invites'[req[q].p]
    <3>1. req[q].op = "password" => req[q].p \in Person
      BY <1>1 DEF Names, PersonOp, LockOp
    <3> QED
      BY <3>1 DEF Grows
  <2>2. req[q].op = "approve" => DOMAIN apps[req[q].p] \subseteq DOMAIN apps'[req[q].p]
    <3>1. req[q].op = "approve" => req[q].p \in Person
      BY <1>1 DEF Names, PersonOp, LockOp
    <3> QED
      BY <3>1 DEF Grows
  <2>3. req[q].op = "convert" => stage'[req[q].l] # "absent"
    BY <1>1 DEF Names, Grows
  <2>4. req[q].op \in {"signin", "stage"} => \A l \in req[q].found : stage'[l] # "absent"
    BY <1>1, <1>3 DEF Names, Grows
  <2> QED
    BY <1>1, <2>1, <2>2, <2>3, <2>4 DEF Names
<1>5. Found(q)'
  <2>1. req[q].op \in {"approve", "signin", "convert"} => req[q].p \in Person
    BY <1>1 DEF Names, PersonOp, LockOp
  <2>2. req[q].op = "signin" => CanSignIn(req[q].p)'
    <3>1. ASSUME NEW p \in Person, CanSignIn(p) PROVE user'[p] = "known" \/ setBy'[p] # 0
      BY <3>1 DEF Grows, CanSignIn
    <3> QED
      BY <1>1, <2>1, <3>1 DEF Found, CanSignIn
  <2>3. \A p \in Person : /\ account[p] # "none" => account'[p] # "none"
                          /\ account[p] = "active" => account'[p] = "active"
                          /\ claimed[p] => claimed'[p]
                          /\ user[p] # "none" => user'[p] # "none"
    BY DEF Grows
  <2> QED
    BY <1>1, <2>1, <2>2, <2>3 DEF Found
<1>6. RowLocked(q)'
  <2> SUFFICES ASSUME req[q].at = "locked"
               PROVE  /\ holder'[req[q].p] = q
                      /\ account'[req[q].p] # "none"
                      /\ req[q].seen = Snapshot(req[q].p)'
    BY DEF RowLocked, Snapshot
  <2>1. req[q].p \in Person
    BY <1>1 DEF Names, PersonOp
  <2> QED
    BY <1>1, <2>1 DEF RowLocked, Grows, LocksKept
<1> QED
  BY <1>4, <1>5, <1>6

LEMMA Assemble ==
    ASSUME IInv, TypeOK', NEW r \in Request,
           \A q \in Request \ {r} : req'[q] = req[q],
           Grows, LocksKept(r), (Names(r) /\ Found(r) /\ RowLocked(r))', LeadsNamed',
           \A p \in Person : PersonInv(p)'
    PROVE  IInv'
<1>1. \A q \in Request : (Names(q) /\ Found(q) /\ RowLocked(q))'
  BY OthersKept
<1> QED
  BY <1>1 DEF IInv

\* Where the tables of the people are not touched.
LEMMA SamePeople ==
    ASSUME IInv, UNCHANGED people
    PROVE  /\ \A p \in Person : PersonInv(p)'
           /\ \A p \in Person : Snapshot(p)' = Snapshot(p) /\ (CanSignIn(p)' <=> CanSignIn(p))
           /\ (\A l \in Lead : stage[l] # "absent" => stage'[l] # "absent") => Grows
<1>1. \A p \in Person : PersonInv(p)'
  BY DEF IInv, people, PersonInv, NothingBeforeAccount, AtMostOneOpen, HasCredential,
         ApprovedClaimed, OnlyLastLive
<1>2. \A p \in Person : Snapshot(p)' = Snapshot(p) /\ (CanSignIn(p)' <=> CanSignIn(p))
  BY DEF people, Snapshot, CanSignIn
<1> QED
  BY <1>1, <1>2 DEF Grows, people

\* A step that changes one request, and only that.
LEMMA QuietStep ==
    ASSUME IInv, NEW r \in Request, NEW q \in ReqType, req' = [req EXCEPT ![r] = q],
           UNCHANGED <<people, leads, holder>>, begun' \in 0..MaxBegun,
           q.at # "locked", Names(r)', Found(r)'
    PROVE  IInv'
<1>1. req \in [Request -> ReqType] /\ TypeOK
  BY ReqTyped DEF IInv
<1>2. req'[r] = q /\ \A p \in Request \ {r} : req'[p] = req[p]
  BY <1>1
<1>3. req' \in [Request -> ReqType]
  BY <1>1
<1>4. TypeOK'
  BY <1>1, <1>3 DEF TypeOK, ReqType, people, leads
<1>5. Grows /\ \A p \in Person : PersonInv(p)'
  BY SamePeople DEF leads
<1>6. LocksKept(r)
  BY SamePeople DEF LocksKept
<1>7. LeadsNamed'
  BY DEF IInv, LeadsNamed, leads, people
<1>8. RowLocked(r)'
  BY <1>2 DEF RowLocked
<1> QED
  BY <1>2, <1>4, <1>5, <1>6, <1>7, <1>8, Assemble

\* A request that is over.
LEMMA EndFacts ==
    ASSUME IInv, NEW r \in Request, End(r)
    PROVE  /\ req' \in [Request -> ReqType] /\ begun' \in 0..MaxBegun
           /\ holder' \in [Person -> Request \cup {None}]
           /\ (Names(r) /\ Found(r) /\ RowLocked(r))'
           /\ \A q \in Request \ {r} : req'[q] = req[q]
           /\ \A p \in Person : holder[p] # r => holder'[p] = holder[p]
<1>1. req \in [Request -> ReqType] /\ TypeOK
  BY ReqTyped DEF IInv
<1>2. req'[r] = Idle /\ \A q \in Request \ {r} : req'[q] = req[q]
  BY <1>1 DEF End
<1>3. Idle.op = "idle" /\ Idle.at = ""
  BY DEF Idle
<1>4. (Names(r) /\ Found(r) /\ RowLocked(r))'
  BY <1>2, <1>3 DEF Names, Found, RowLocked, PersonOp, LockOp
<1>5. req' \in [Request -> ReqType] /\ begun' \in 0..MaxBegun
  BY <1>1, IdleType DEF End, TypeOK
<1>6. holder' \in [Person -> Request \cup {None}]
  BY <1>1 DEF End, TypeOK
<1>7. \A p \in Person : holder[p] # r => holder'[p] = holder[p]
  BY DEF End
<1> QED
  BY <1>2, <1>4, <1>5, <1>6, <1>7

-----------------------------------------------------------------------------
(* Requests begin                                                           *)

LEMMA BeginStep ==
    ASSUME IInv, NEW r \in Request, NEW new \in ReqType, Begin(r, new),
           new.op \in PersonOp => new.p \in Person,
           new.at = "lock" => new.op \in LockOp,
           new.at \notin {"locked", "approve", "adopt", "insert"},
           new.op = "convert" =>
             /\ new.l \in Lead /\ stage[new.l] # "absent"
             /\ new.at # "create" => account[new.p] # "none",
           new.op \in {"signin", "stage"} => \A l \in new.found : stage[l] # "absent",
           new.op = "stage" => new.to \in SettableStages,
           new.op = "decide" => new.to \in {"contacted", "rejected"},
           new.op = "password" => new.n \in DOMAIN invites[new.p],
           new.op = "signin" =>
             /\ CanSignIn(new.p)
             /\ new.at \in {"claim", "link", "write"} => account[new.p] # "none"
    PROVE  IInv'
<1>0. /\ req' = [req EXCEPT ![r] = new] /\ UNCHANGED <<people, leads, holder>>
      /\ begun < MaxBegun /\ begun' = begun + 1
  BY DEF Begin
<1>1. begun' \in 0..MaxBegun
  <2>1. begun \in 0..MaxBegun /\ MaxBegun \in Nat
    BY ApplicationsAssumption DEF IInv, TypeOK
  <2> QED
    BY <1>0, <2>1
<1>2. req'[r] = new
  BY <1>0, ReqTyped DEF IInv
<1>3. stage' = stage /\ invites' = invites /\ account' = account /\ user' = user
      /\ setBy' = setBy /\ apps' = apps /\ claimed' = claimed
  BY <1>0 DEF people, leads
<1>4. Names(r)'
  BY <1>2, <1>3 DEF Names
<1>5. new.op = "signin" => CanSignIn(req[r].p)'
  BY <1>2, <1>3 DEF CanSignIn
<1>6. Found(r)'
  BY <1>2, <1>3, <1>5 DEF Found
<1> QED
  BY <1>0, <1>1, <1>4, <1>6, QuietStep

LEMMA BeginInv ==
    ASSUME IInv, NEW r \in Request,
           \/ SubmitApplication(r) \/ ApproveAndInvite(r) \/ RegenerateInvite(r)
           \/ DecideApplication(r) \/ SetPasswordWithInvite(r) \/ EnsureInvestor(r)
           \/ ConvertLead(r) \/ SetLeadStatus(r)
    PROVE  IInv'
<1>1. TypeOK /\ Idle \in ReqType /\ LeadsNamed /\ \A p \in Person : PersonInv(p)
  BY IdleType DEF IInv
<1>2. CASE SubmitApplication(r)
  <2>1. PICK p \in Person : \E at \in {"write", "leads"} :
          Begin(r, [Idle EXCEPT !.op = "submit", !.p = p, !.at = at])
    BY <1>2 DEF SubmitApplication
  <2>2. PICK at \in {"write", "leads"} :
          Begin(r, [Idle EXCEPT !.op = "submit", !.p = p, !.at = at])
    BY <2>1
  <2> DEFINE new == [Idle EXCEPT !.op = "submit", !.p = p, !.at = at]
  <2>3. new \in ReqType /\ new.op = "submit" /\ new.p = p /\ new.at \in {"write", "leads"}
    BY <1>1 DEF ReqType, Op, At, Idle
  <2> HIDE DEF new
  <2> QED
    BY <2>2, <2>3, BeginStep DEF new
<1>3. CASE ApproveAndInvite(r)
  <2>1. PICK p \in Person : Begin(r, [Idle EXCEPT !.op = "approve", !.p = p, !.at = "read"])
    BY <1>3 DEF ApproveAndInvite
  <2> DEFINE new == [Idle EXCEPT !.op = "approve", !.p = p, !.at = "read"]
  <2>2. new \in ReqType /\ new.op = "approve" /\ new.p = p /\ new.at = "read"
    BY <1>1 DEF ReqType, Op, At, Idle
  <2> HIDE DEF new
  <2> QED
    BY <2>1, <2>2, BeginStep DEF new
<1>4. CASE RegenerateInvite(r)
  <2>1. PICK p \in Person : Begin(r, [Idle EXCEPT !.op = "regenerate", !.p = p, !.at = "lock"])
    BY <1>4 DEF RegenerateInvite
  <2> DEFINE new == [Idle EXCEPT !.op = "regenerate", !.p = p, !.at = "lock"]
  <2>2. new \in ReqType /\ new.op = "regenerate" /\ new.p = p /\ new.at = "lock"
    BY <1>1 DEF ReqType, Op, At, Idle
  <2>3. "regenerate" \in LockOp
    BY DEF LockOp
  <2> HIDE DEF new
  <2> QED
    BY <2>1, <2>2, <2>3, BeginStep DEF new
<1>5. CASE DecideApplication(r)
  <2>1. PICK p \in Person, to \in {"contacted", "rejected"} :
          Begin(r, [Idle EXCEPT !.op = "decide", !.p = p, !.to = to, !.at = "lock"])
    BY <1>5 DEF DecideApplication
  <2> DEFINE new == [Idle EXCEPT !.op = "decide", !.p = p, !.to = to, !.at = "lock"]
  <2>2. new \in ReqType /\ new.op = "decide" /\ new.p = p /\ new.at = "lock" /\ new.to = to
    BY <1>1 DEF ReqType, Op, At, Idle, Status
  <2>3. "decide" \in LockOp
    BY DEF LockOp
  <2> HIDE DEF new
  <2> QED
    BY <2>1, <2>2, <2>3, BeginStep DEF new
<1>6. CASE SetPasswordWithInvite(r)
  <2>0. PICK p \in Person : \E n \in DOMAIN invites[p] :
          Begin(r, [Idle EXCEPT !.op = "password", !.p = p, !.n = n, !.at = "lock"])
    BY <1>6 DEF SetPasswordWithInvite
  <2>1. PICK n \in DOMAIN invites[p] :
          Begin(r, [Idle EXCEPT !.op = "password", !.p = p, !.n = n, !.at = "lock"])
    BY <2>0
  <2> DEFINE new == [Idle EXCEPT !.op = "password", !.p = p, !.n = n, !.at = "lock"]
  <2>2. n \in Nat
    <3>1. invites[p] \in Seq({"live", "used"})
      BY <1>1 DEF TypeOK
    <3> QED
      BY <3>1, LenProperties
  <2>3. new \in ReqType /\ new.op = "password" /\ new.p = p /\ new.at = "lock" /\ new.n = n
    BY <1>1, <2>2 DEF ReqType, Op, At, Idle
  <2>4. "password" \in LockOp
    BY DEF LockOp
  <2> HIDE DEF new
  <2> QED
    BY <2>1, <2>3, <2>4, BeginStep DEF new
<1>7. CASE EnsureInvestor(r)
  <2>1. PICK p \in Person :
          /\ CanSignIn(p)
          /\ Begin(r, [Idle EXCEPT !.op = "signin", !.p = p,
                         !.at = CASE claimed[p] -> "link"
                                  [] ~claimed[p] /\ account[p] # "none" -> "claim"
                                  [] OTHER -> "create"])
    BY <1>7 DEF EnsureInvestor
  <2> DEFINE at == CASE claimed[p] -> "link"
                     [] ~claimed[p] /\ account[p] # "none" -> "claim"
                     [] OTHER -> "create"
             new == [Idle EXCEPT !.op = "signin", !.p = p, !.at = at]
  <2>2. PersonInv(p)
    BY <1>1
  <2>3. claimed[p] => account[p] # "none"
    BY <2>2 DEF PersonInv, NothingBeforeAccount
  <2>4. at \in {"link", "claim", "create"} /\ (at \in {"link", "claim"} => account[p] # "none")
    BY <2>3
  <2> HIDE DEF at
  <2>5. /\ new \in ReqType /\ new.op = "signin" /\ new.p = p /\ new.at = at /\ new.found = {}
    BY <1>1, <2>4 DEF ReqType, Op, At, Idle
  <2>6. Begin(r, new)
    BY <2>1 DEF at
  <2> HIDE DEF new
  <2> QED
    BY <2>1, <2>4, <2>5, <2>6, BeginStep
<1>8. CASE ConvertLead(r)
  <2> DEFINE p(l) == IF link[l] # None THEN link[l] ELSE of[l]
             found(l) == IF link[l] = None THEN {l} ELSE {}
             at(l) == IF link[l] = None /\ account[of[l]] = "none" THEN "create"
                      ELSE "application"
             new(l) == [Idle EXCEPT !.op = "convert", !.l = l, !.found = found(l),
                                    !.p = p(l), !.at = at(l)]
  <2>1. PICK l \in Lead : stage[l] # "absent" /\ Begin(r, new(l))
    BY <1>8 DEF ConvertLead
  <2>2. p(l) \in Person /\ (at(l) # "create" => account[p(l)] # "none")
    <3>1. of[l] \in Person /\ link[l] \in Person \cup {None}
      BY <1>1, <2>1 DEF TypeOK, LeadsNamed
    <3>2. link[l] # None => account[link[l]] # "none"
      BY <1>1 DEF LeadsNamed
    <3> QED
      BY <3>1, <3>2
  <2>3. at(l) \in {"create", "application"} /\ found(l) \subseteq Lead
    OBVIOUS
  <2> HIDE DEF p, found, at
  <2>4. /\ new(l) \in ReqType /\ new(l).op = "convert" /\ new(l).p = p(l) /\ new(l).l = l
        /\ new(l).at = at(l)
    BY <1>1, <2>2, <2>3 DEF ReqType, Op, At, Idle
  <2> HIDE DEF new
  <2> QED
    BY <2>1, <2>2, <2>3, <2>4, BeginStep
<1>9. CASE SetLeadStatus(r)
  <2>1. PICK ls \in SUBSET Lead, to \in SettableStages :
          /\ \A l \in ls : stage[l] # "absent"
          /\ Begin(r, [Idle EXCEPT !.op = "stage", !.to = to, !.at = "write",
               !.found = {l \in ls : ~(stage[l] = "converted" /\ link[l] # None)}])
    BY <1>9 DEF SetLeadStatus
  <2> DEFINE found == {l \in ls : ~(stage[l] = "converted" /\ link[l] # None)}
             new == [Idle EXCEPT !.op = "stage", !.to = to, !.at = "write", !.found = found]
  <2>2. found \subseteq Lead /\ \A l \in found : stage[l] # "absent"
    BY <2>1
  <2>3. Begin(r, new)
    BY <2>1
  <2> HIDE DEF found
  <2>4. /\ new \in ReqType /\ new.op = "stage" /\ new.at = "write" /\ new.to = to
        /\ new.found = found
    BY <1>1, <2>2 DEF ReqType, Op, At, Idle, SettableStages, Stage
  <2>5. "stage" \notin PersonOp
    BY DEF PersonOp, LockOp
  <2> HIDE DEF new
  <2> QED
    BY <2>2, <2>3, <2>4, <2>5, BeginStep
<1> QED
  BY <1>2, <1>3, <1>4, <1>5, <1>6, <1>7, <1>8, <1>9

-----------------------------------------------------------------------------
(* Reads                                                                    *)

LEMMA ReadInv ==
    ASSUME IInv, NEW r \in Request,
           \/ ReadLinkedLead(r) \/ ReadForApproval(r) \/ FindOrphan(r) \/ FindLeads(r)
           \/ FindApplication(r)
    PROVE  IInv'
<1> DEFINE p == req[r].p
<1>1. /\ TypeOK /\ LeadsNamed /\ req \in [Request -> ReqType] /\ begun \in 0..MaxBegun
      /\ Names(r) /\ Found(r) /\ req[r] \in ReqType
  BY ReqTyped DEF IInv, TypeOK
<1>2. req[r].op \in PersonOp => p \in Person /\ PersonInv(p) /\ Snapshot(p) \in Seen
  BY <1>1, SnapshotType DEF Names, IInv
<1> HIDE DEF p
<1>3. CASE ReadLinkedLead(r)
  <2> DEFINE new == [req[r] EXCEPT !.at = "lock", !.found = {l \in Lead : link[l] = p}]
  <2>1. req' = [req EXCEPT ![r] = new] /\ UNCHANGED <<people, leads, holder, begun>>
        /\ req[r].op = "submit"
    BY <1>1, <1>3 DEF ReadLinkedLead, Is, ReqType, p
  <2>2. /\ new \in ReqType /\ new.op = "submit" /\ new.p = p /\ new.at = "lock"
        /\ req'[r] = new
    BY <1>1, <2>1 DEF ReqType, At, p
  <2> HIDE DEF new
  <2>3. p \in Person
    BY <1>2, <2>1 DEF PersonOp, LockOp
  <2>4. Names(r)' /\ Found(r)'
    BY <2>2, <2>3 DEF Names, Found, LockOp
  <2> QED
    BY <1>1, <2>1, <2>2, <2>4, QuietStep
<1>4. CASE ReadForApproval(r)
  <2> DEFINE n == Len(apps[p])
             at == IF apps[p][n] = "approved" /\ claimed[p] THEN "lock" ELSE "approve"
             new == [req[r] EXCEPT !.op = "approve", !.n = n, !.seen = Snapshot(p), !.at = at]
  <2>1. /\ req' = [req EXCEPT ![r] = new] /\ UNCHANGED <<people, leads, holder, begun>>
        /\ req[r].op \in {"approve", "convert"} /\ n > 0
    BY <1>1, <1>4 DEF ReadForApproval, ReqType, p
  <2>2. p \in Person /\ Snapshot(p) \in Seen
    BY <1>2, <2>1 DEF PersonOp, LockOp
  <2>3. n \in Nat /\ n \in DOMAIN apps[p]
    <3>1. apps[p] \in Seq(Status)
      BY <1>1, <2>2 DEF TypeOK
    <3> QED
      BY <2>1, <3>1, LenProperties
  <2>4. at \in {"lock", "approve"}
    OBVIOUS
  <2> HIDE DEF n, at
  <2>5. /\ new \in ReqType /\ new.op = "approve" /\ new.p = p /\ new.at = at
        /\ new.n = n /\ new.seen = Snapshot(p)
    BY <1>1, <2>2, <2>3, <2>4 DEF ReqType, At, Op, p
  <2> HIDE DEF new
  <2>6. req'[r] = new /\ apps' = apps /\ claimed' = claimed
    BY <1>1, <2>1 DEF people
  <2>7. Snapshot(p).claimed = claimed[p]
    BY DEF Snapshot
  <2>8. Names(r)'
    BY <2>2, <2>3, <2>4, <2>5, <2>6 DEF Names, LockOp
  <2>9. Found(r)'
    BY <2>4, <2>5, <2>6, <2>7 DEF Found
  <2> QED
    BY <1>1, <2>1, <2>4, <2>5, <2>8, <2>9, QuietStep
<1>5. CASE FindOrphan(r)
  <2> DEFINE new == [req[r] EXCEPT !.at = "adopt"]
  <2>1. /\ req' = [req EXCEPT ![r] = new] /\ UNCHANGED <<people, leads, holder, begun>>
        /\ req[r].op = "approve" /\ req[r].at = "approve" /\ user[p] # "none"
        /\ ~req[r].seen.claimed
    BY <1>1, <1>5 DEF FindOrphan, Is, Go, p
  <2>2. /\ new \in ReqType /\ new.op = "approve" /\ new.p = p /\ new.at = "adopt"
        /\ new.n = req[r].n /\ new.seen = req[r].seen /\ req'[r] = new
    BY <1>1, <2>1 DEF ReqType, At, p
  <2> HIDE DEF new
  <2>3. p \in Person /\ req[r].n \in DOMAIN apps[p]
    BY <1>1, <1>2, <2>1 DEF PersonOp, LockOp, Names, p
  <2>4. apps' = apps /\ claimed' = claimed /\ user' = user
    BY <2>1 DEF people
  <2>5. Names(r)' /\ Found(r)'
    BY <2>1, <2>2, <2>3, <2>4 DEF Names, Found
  <2> QED
    BY <1>1, <2>1, <2>2, <2>5, QuietStep
<1>6. CASE FindLeads(r)
  <2> DEFINE found == {l \in Lead : /\ of[l] = p /\ link[l] = None
                                    /\ stage[l] \notin TerminalStages \cup {"absent"}}
             new == [req[r] EXCEPT !.at = "write", !.found = found]
  <2>1. /\ req' = [req EXCEPT ![r] = new] /\ UNCHANGED <<people, leads, holder, begun>>
        /\ req[r].op = "signin" /\ req[r].at = "link"
    BY <1>1, <1>6 DEF FindLeads, Is, p, ReqType
  <2>2. found \subseteq Lead /\ \A l \in found : stage[l] # "absent"
    OBVIOUS
  <2> HIDE DEF found
  <2>3. /\ new \in ReqType /\ new.op = "signin" /\ new.p = p /\ new.at = "write"
        /\ new.found = found /\ req'[r] = new
    BY <1>1, <2>1, <2>2 DEF ReqType, At, p
  <2> HIDE DEF new
  <2>4. p \in Person /\ CanSignIn(p) /\ account[p] # "none"
    BY <1>1, <1>2, <2>1 DEF PersonOp, Found, p
  <2>5. stage' = stage /\ account' = account /\ user' = user /\ setBy' = setBy
    BY <2>1 DEF people, leads
  <2>6. Names(r)'
    BY <2>2, <2>3, <2>4, <2>5 DEF Names
  <2>7. Found(r)'
    BY <2>3, <2>4, <2>5 DEF Found, CanSignIn
  <2> QED
    BY <1>1, <2>1, <2>3, <2>6, <2>7, QuietStep
<1>7. CASE FindApplication(r)
  <2> DEFINE at == IF apps[p] = <<>> THEN "insert" ELSE "convertLink"
             new == [req[r] EXCEPT !.at = at]
  <2>1. /\ req' = [req EXCEPT ![r] = new] /\ UNCHANGED <<people, leads, holder, begun>>
        /\ req[r].op = "convert" /\ req[r].at = "application"
    BY <1>1, <1>7 DEF FindApplication, Is, Go, p
  <2>2. p \in Person /\ PersonInv(p)
    BY <1>2, <2>1 DEF PersonOp
  <2>3. account[p] # "none" /\ req[r].l \in Lead /\ stage[req[r].l] # "absent"
    BY <1>1, <2>1 DEF Found, Names, p
  <2>4. apps[p] = <<>> => account[p] = "active"
    <3>1. account[p] \in Account
      BY <1>1, <2>2 DEF TypeOK
    <3> QED
      BY <2>2, <2>3, <3>1 DEF PersonInv, AtMostOneOpen, Account
  <2>5. at \in {"insert", "convertLink"} /\ (at = "insert" => account[p] = "active")
    BY <2>4
  <2> HIDE DEF at
  <2>6. /\ new \in ReqType /\ new.op = "convert" /\ new.p = p /\ new.at = at
        /\ new.l = req[r].l /\ req'[r] = new
    BY <1>1, <2>1, <2>5 DEF ReqType, At, p
  <2> HIDE DEF new
  <2>7. stage' = stage /\ account' = account
    BY <2>1 DEF people, leads
  <2>8. Names(r)' /\ Found(r)'
    BY <2>2, <2>3, <2>5, <2>6, <2>7 DEF Names, Found
  <2> QED
    BY <1>1, <2>1, <2>5, <2>6, <2>8, QuietStep
<1> QED
  BY <1>3, <1>4, <1>5, <1>6, <1>7

LEMMA LockInv ==
    ASSUME IInv, NEW r \in Request, Lock(r)
    PROVE  IInv'
<1> DEFINE p == req[r].p
           new == [req[r] EXCEPT !.at = "locked", !.seen = Snapshot(p)]
<1>1. /\ TypeOK /\ LeadsNamed /\ req \in [Request -> ReqType] /\ Names(r) /\ req[r] \in ReqType
  BY ReqTyped DEF IInv
<1>2. /\ req[r].at = "lock" /\ account[p] # "none" /\ holder[p] = None
      /\ holder' = [holder EXCEPT ![p] = r] /\ req' = [req EXCEPT ![r] = new]
      /\ UNCHANGED <<people, leads, begun>>
  BY <1>1 DEF Lock, Free, ReqType
<1>3. p \in Person /\ req[r].op \in LockOp
  BY <1>1, <1>2 DEF Names, PersonOp
<1>4. Snapshot(p) \in Seen
  BY <1>1, <1>3, SnapshotType
<1>5. /\ new \in ReqType /\ new.op = req[r].op /\ new.p = p /\ new.at = "locked"
      /\ new.seen = Snapshot(p) /\ new.n = req[r].n /\ new.to = req[r].to /\ req'[r] = new
      /\ \A q \in Request \ {r} : req'[q] = req[q]
  BY <1>1, <1>2, <1>4 DEF ReqType, At
<1> HIDE DEF new
<1>6. holder' \in [Person -> Request \cup {None}] /\ req' \in [Request -> ReqType]
  BY <1>1, <1>2, <1>5 DEF TypeOK
<1>7. TypeOK'
  BY <1>1, <1>2, <1>6 DEF TypeOK, ReqType, people, leads
<1>8. Grows /\ (\A q \in Person : PersonInv(q)') /\ \A q \in Person : Snapshot(q)' = Snapshot(q)
  BY <1>2, SamePeople DEF leads
<1>9. LocksKept(r)
  <2>1. \A q \in Person, s \in Request \ {r} : holder[q] = s => holder'[q] = s
    BY <1>1, <1>2, ApplicationsAssumption DEF TypeOK
  <2> QED
    BY <1>8, <2>1 DEF LocksKept
<1>10. LeadsNamed'
  BY <1>1, <1>2 DEF LeadsNamed, leads, people
<1>11. Names(r)'
  <2>1. req[r].op \notin {"convert", "signin", "stage"}
    BY <1>3 DEF LockOp
  <2>2. invites' = invites
    BY <1>2 DEF people
  <2> QED
    BY <1>1, <1>3, <1>5, <2>1, <2>2 DEF Names, p
<1>12. Found(r)'
  <2>1. req[r].op \notin {"convert", "signin", "stage"}
    BY <1>3 DEF LockOp
  <2> QED
    BY <1>5, <2>1 DEF Found
<1>13. RowLocked(r)'
  <2>1. holder'[p] = r
    BY <1>1, <1>2, <1>3 DEF TypeOK
  <2>2. account' = account /\ claimed' = claimed /\ apps' = apps /\ invites' = invites
    BY <1>2 DEF people
  <2> QED
    BY <1>2, <1>5, <2>1, <2>2 DEF RowLocked, Snapshot
<1> QED
  BY <1>5, <1>7, <1>8, <1>9, <1>10, <1>11, <1>12, <1>13, Assemble

LEMMA FailInv ==
    ASSUME IInv, NEW r \in Request, RequestFails(r)
    PROVE  IInv'
<1>1. End(r) /\ UNCHANGED <<people, leads>>
  BY DEF RequestFails
<1>2. /\ req' \in [Request -> ReqType] /\ begun' \in 0..MaxBegun
      /\ holder' \in [Person -> Request \cup {None}]
      /\ (Names(r) /\ Found(r) /\ RowLocked(r))'
      /\ \A q \in Request \ {r} : req'[q] = req[q]
      /\ \A p \in Person : holder[p] # r => holder'[p] = holder[p]
  BY <1>1, EndFacts
<1>3. TypeOK'
  BY <1>1, <1>2 DEF IInv, TypeOK, ReqType, people, leads
<1>4. Grows /\ (\A q \in Person : PersonInv(q)') /\ \A q \in Person : Snapshot(q)' = Snapshot(q)
  BY <1>1, SamePeople DEF leads
<1>5. LocksKept(r)
  BY <1>2, <1>4 DEF LocksKept
<1>6. LeadsNamed'
  BY <1>1 DEF IInv, LeadsNamed, leads, people
<1> QED
  BY <1>2, <1>3, <1>4, <1>5, <1>6, Assemble

-----------------------------------------------------------------------------
(* Writes                                                                   *)

OtherRowsKept(p) ==
    \A q \in Person \ {p} :
      /\ account'[q] = account[q] /\ claimed'[q] = claimed[q] /\ apps'[q] = apps[q]
      /\ invites'[q] = invites[q] /\ user'[q] = user[q] /\ setBy'[q] = setBy[q]

RowGrows(p) ==
    /\ account[p] # "none" => account'[p] # "none"
    /\ account[p] = "active" => account'[p] = "active"
    /\ claimed[p] => claimed'[p]
    /\ user[p] # "none" => user'[p] # "none"
    /\ CanSignIn(p) => CanSignIn(p)'
    /\ DOMAIN apps[p] \subseteq DOMAIN apps'[p]
    /\ DOMAIN invites[p] \subseteq DOMAIN invites'[p]

\* A step that writes one person's rows, which no other transaction has locked.
LEMMA WriteStep ==
    ASSUME IInv, TypeOK', NEW r \in Request, NEW p \in Person,
           account[p] = "none" \/ holder[p] \in {r, None},
           OtherRowsKept(p), RowGrows(p),
           \A q \in Person : holder[q] # r => holder'[q] = holder[q],
           \A q \in Request \ {r} : req'[q] = req[q],
           \A l \in Lead : stage[l] # "absent" => stage'[l] # "absent",
           (Names(r) /\ Found(r) /\ RowLocked(r))', LeadsNamed', PersonInv(p)'
    PROVE  IInv'
<1>1. Grows
  <2> SUFFICES ASSUME NEW q \in Person
               PROVE  /\ account[q] # "none" => account'[q] # "none"
                      /\ account[q] = "active" => account'[q] = "active"
                      /\ claimed[q] => claimed'[q]
                      /\ user[q] # "none" => user'[q] # "none"
                      /\ CanSignIn(q) => CanSignIn(q)'
                      /\ DOMAIN apps[q] \subseteq DOMAIN apps'[q]
                      /\ DOMAIN invites[q] \subseteq DOMAIN invites'[q]
    BY DEF Grows
  <2>1. CASE q = p
    BY <2>1 DEF RowGrows
  <2>2. CASE q # p
    BY <2>2 DEF OtherRowsKept, CanSignIn
  <2> QED
    BY <2>1, <2>2
<1>2. LocksKept(r)
  <2> SUFFICES ASSUME NEW q \in Person, holder[q] \in Request \ {r}, account[q] # "none"
               PROVE  holder'[q] = holder[q] /\ Snapshot(q)' = Snapshot(q)
    BY DEF LocksKept
  <2>1. q # p
    BY ApplicationsAssumption
  <2> QED
    BY <2>1 DEF OtherRowsKept, Snapshot
<1>3. \A q \in Person : PersonInv(q)'
  <2> SUFFICES ASSUME NEW q \in Person, q # p
               PROVE  PersonInv(q)'
    OBVIOUS
  <2>1. PersonInv(q)
    BY DEF IInv
  <2> QED
    BY <2>1 DEF OtherRowsKept, PersonInv, NothingBeforeAccount, AtMostOneOpen, HasCredential, ApprovedClaimed,
                OnlyLastLive
<1> QED
  BY <1>1, <1>2, <1>3, Assemble

\* A step that writes leads.
LEMMA LeadStep ==
    ASSUME IInv, TypeOK', NEW r \in Request, UNCHANGED people,
           \A q \in Person : holder[q] # r => holder'[q] = holder[q],
           \A q \in Request \ {r} : req'[q] = req[q],
           \A l \in Lead : stage[l] # "absent" => stage'[l] # "absent",
           (Names(r) /\ Found(r) /\ RowLocked(r))', LeadsNamed'
    PROVE  IInv'
<1>1. Grows /\ (\A q \in Person : PersonInv(q)') /\ \A q \in Person : Snapshot(q)' = Snapshot(q)
  BY SamePeople
<1>2. LocksKept(r)
  BY <1>1 DEF LocksKept
<1> QED
  BY <1>1, <1>2, Assemble

\* What Go does.
LEMMA GoFacts ==
    ASSUME IInv, NEW r \in Request, NEW at \in At, Go(r, at)
    PROVE  /\ req' \in [Request -> ReqType] /\ begun' = begun /\ holder' = holder
           /\ req'[r] = [req[r] EXCEPT !.at = at]
           /\ req'[r].at = at /\ req'[r].op = req[r].op /\ req'[r].p = req[r].p
           /\ req'[r].l = req[r].l /\ req'[r].found = req[r].found
           /\ \A q \in Request \ {r} : req'[q] = req[q]
<1>1. req \in [Request -> ReqType] /\ req[r] \in ReqType
  BY ReqTyped DEF IInv
<1> DEFINE new == [req[r] EXCEPT !.at = at]
<1>2. req' = [req EXCEPT ![r] = new] /\ UNCHANGED <<holder, begun>>
  BY <1>1 DEF Go
<1>3. /\ new \in ReqType /\ new.at = at /\ new.op = req[r].op /\ new.p = req[r].p
      /\ new.l = req[r].l /\ new.found = req[r].found
  BY <1>1 DEF ReqType
<1> HIDE DEF new
<1>4. req'[r] = new /\ req' \in [Request -> ReqType] /\ \A q \in Request \ {r} : req'[q] = req[q]
  BY <1>1, <1>2, <1>3
<1> QED
  BY <1>2, <1>3, <1>4 DEF new

\* Under the lock of its investor row.
LEMMA LockedFacts ==
    ASSUME IInv, NEW r \in Request, req[r].at = "locked"
    PROVE  /\ req[r].p \in Person /\ holder[req[r].p] = r /\ account[req[r].p] # "none"
           /\ req[r].seen.account = account[req[r].p] /\ req[r].seen.claimed = claimed[req[r].p]
           /\ req[r].seen.apps = apps[req[r].p] /\ req[r].seen.invites = invites[req[r].p]
<1>1. Names(r) /\ RowLocked(r)
  BY DEF IInv
<1> QED
  BY <1>1 DEF Names, RowLocked, PersonOp, Snapshot

\* The lead of an application.
LEMMA WriteLeadFacts ==
    ASSUME IInv, NEW r \in Request, NEW p \in Person, p = req[r].p, WriteLead(r),
           account'[p] # "none", \A q \in Person : account[q] # "none" => account'[q] # "none"
    PROVE  /\ stage' \in [Lead -> Stage] /\ of' \in [Lead -> Person \cup {None}]
           /\ link' \in [Lead -> Person \cup {None}]
           /\ \A l \in Lead : stage[l] # "absent" => stage'[l] # "absent"
           /\ LeadsNamed'
<1>1. /\ stage \in [Lead -> Stage] /\ of \in [Lead -> Person \cup {None}]
      /\ link \in [Lead -> Person \cup {None}] /\ LeadsNamed /\ "converted" \in Stage
      /\ Inbox \subseteq Lead
  BY DEF IInv, TypeOK, Stage, Lead
<1>2. req[r].found \subseteq Lead
  BY ReqTyped DEF IInv, ReqType
<1>3. \/ UNCHANGED leads
      \/ \E l \in Lead :
           \/ of' = [of EXCEPT ![l] = p] /\ UNCHANGED <<stage, link>>
           \/ /\ stage[l] # "absent" /\ UNCHANGED of
              /\ link' = [link EXCEPT ![l] = p] /\ stage' = [stage EXCEPT ![l] = "converted"]
           \/ /\ of' = [of EXCEPT ![l] = p] /\ link' = [link EXCEPT ![l] = p]
              /\ stage' = [stage EXCEPT ![l] = "converted"]
  BY <1>1, <1>2 DEF WriteLead
<1>4. CASE UNCHANGED leads
  BY <1>1, <1>4 DEF leads, LeadsNamed
<1>5. ASSUME NEW l \in Lead, of' = [of EXCEPT ![l] = p], UNCHANGED <<stage, link>>
      PROVE  /\ of' \in [Lead -> Person \cup {None}] /\ LeadsNamed'
  BY <1>1, <1>5 DEF LeadsNamed
<1>6. ASSUME NEW l \in Lead, stage[l] # "absent", UNCHANGED of,
             link' = [link EXCEPT ![l] = p], stage' = [stage EXCEPT ![l] = "converted"]
      PROVE  /\ stage' \in [Lead -> Stage] /\ link' \in [Lead -> Person \cup {None}]
             /\ \A k \in Lead : stage[k] # "absent" => stage'[k] # "absent"
             /\ LeadsNamed'
  BY <1>1, <1>6 DEF LeadsNamed
<1>7. ASSUME NEW l \in Lead, of' = [of EXCEPT ![l] = p],
             link' = [link EXCEPT ![l] = p], stage' = [stage EXCEPT ![l] = "converted"]
      PROVE  /\ of' \in [Lead -> Person \cup {None}]
             /\ stage' \in [Lead -> Stage] /\ link' \in [Lead -> Person \cup {None}]
             /\ \A k \in Lead : stage[k] # "absent" => stage'[k] # "absent"
             /\ LeadsNamed'
  BY <1>1, <1>7 DEF LeadsNamed
<1> QED
  BY <1>1, <1>3, <1>4, <1>5, <1>6, <1>7

\* The rows of one person.
LEMMA RowFacts ==
    ASSUME IInv, NEW p \in Person
    PROVE  /\ account \in [Person -> Account] /\ claimed \in [Person -> BOOLEAN]
           /\ apps \in [Person -> Seq(Status)] /\ invites \in [Person -> Seq({"live", "used"})]
           /\ user \in [Person -> UserState] /\ setBy \in [Person -> Nat]
           /\ NothingBeforeAccount(p) /\ AtMostOneOpen(p) /\ HasCredential(p)
           /\ ApprovedClaimed(p) /\ OnlyLastLive(p)
BY DEF IInv, TypeOK, PersonInv

\* One more application, where no other is open.
LEMMA AnotherApplication ==
    ASSUME NEW s \in Seq(Status), \A n \in DOMAIN s : s[n] \notin Open
    PROVE  LET t == Append(s, "submitted")
           IN  t # <<>> /\ \A m, n \in DOMAIN t : t[m] \in Open /\ t[n] \in Open => m = n
<1> DEFINE t == Append(s, "submitted")
<1>1. /\ t \in Seq(Status) /\ Len(s) \in Nat /\ DOMAIN s = 1..Len(s)
      /\ DOMAIN t = 1..(Len(s) + 1) /\ \A n \in DOMAIN s : t[n] = s[n]
  BY AppendSeq DEF Status
<1>2. Len(s) + 1 \in DOMAIN t
  BY <1>1
<1>3. t # <<>>
  BY <1>2
<1>4. \A n \in DOMAIN t : t[n] \in Open => n = Len(s) + 1
  BY <1>1
<1> HIDE DEF t
<1> QED
  BY <1>3, <1>4 DEF t

LEMMA PersistInv ==
    ASSUME IInv, NEW r \in Request, PersistApplication(r)
    PROVE  IInv'
<1> DEFINE at == req[r].at
<1>0. Names(r) /\ req[r].op = "submit" /\ at \in {"write", "locked"}
  BY DEF IInv, PersistApplication, MaySubmit, Is
<1>1. PICK p \in Person : p = req[r].p
  BY <1>0 DEF Names, PersonOp, LockOp
<1>2. /\ account' = [account EXCEPT ![p] = "pending_access"]
      /\ apps' = [apps EXCEPT ![p] = Append(@, "submitted")]
      /\ WriteLead(r) /\ End(r) /\ UNCHANGED <<claimed, invites, user, setBy>>
  BY <1>1 DEF PersistApplication
<1>3. /\ account \in [Person -> Account] /\ claimed \in [Person -> BOOLEAN]
      /\ apps \in [Person -> Seq(Status)] /\ invites \in [Person -> Seq({"live", "used"})]
      /\ user \in [Person -> UserState] /\ setBy \in [Person -> Nat]
      /\ NothingBeforeAccount(p) /\ AtMostOneOpen(p) /\ HasCredential(p)
      /\ ApprovedClaimed(p) /\ OnlyLastLive(p)
  BY RowFacts
<1>4. /\ account[p] = "none" \/ holder[p] = r
      /\ account[p] # "active" /\ \A n \in DOMAIN apps[p] : apps[p][n] \notin Open
  <2>1. CASE at = "write"
    <3>1. account[p] = "none"
      BY <1>1, <2>1 DEF PersistApplication, MaySubmit, Is
    <3>2. apps[p] = <<>>
      BY <1>3, <3>1 DEF NothingBeforeAccount
    <3>3. DOMAIN apps[p] = {}
      BY <3>2
    <3> QED
      BY <3>1, <3>3
  <2>2. CASE at = "locked"
    <3>1. req[r].seen.account = "pending_access" /\ ~HasOpen(req[r].seen.apps)
      BY <2>2 DEF PersistApplication, MaySubmit, Is
    <3>2. holder[p] = r /\ account[p] = "pending_access" /\ ~HasOpen(apps[p])
      BY <1>1, <2>2, <3>1, LockedFacts
    <3> QED
      BY <3>2 DEF HasOpen
  <2> QED
    BY <1>0, <2>1, <2>2
<1>5. /\ Append(apps[p], "submitted") \in Seq(Status)
      /\ DOMAIN apps[p] \subseteq DOMAIN Append(apps[p], "submitted")
      /\ \A n \in DOMAIN Append(apps[p], "submitted") :
            Append(apps[p], "submitted")[n] = "approved" => n \in DOMAIN apps[p] /\ apps[p][n] = "approved"
  <2>1. apps[p] \in Seq(Status) /\ "submitted" \in Status
    BY <1>3 DEF Status
  <2> QED
    BY <2>1, AppendSeq
<1>6. /\ account' \in [Person -> Account] /\ account'[p] = "pending_access"
      /\ apps' \in [Person -> Seq(Status)] /\ apps'[p] = Append(apps[p], "submitted")
      /\ \A q \in Person \ {p} : account'[q] = account[q] /\ apps'[q] = apps[q]
  BY <1>2, <1>3, <1>5 DEF Account
<1>7. /\ stage' \in [Lead -> Stage] /\ of' \in [Lead -> Person \cup {None}]
      /\ link' \in [Lead -> Person \cup {None}]
      /\ \A l \in Lead : stage[l] # "absent" => stage'[l] # "absent"
      /\ LeadsNamed'
  <2>1. account'[p] # "none" /\ \A q \in Person : account[q] # "none" => account'[q] # "none"
    BY <1>6
  <2> QED
    BY <1>1, <1>2, <2>1, WriteLeadFacts
<1>8. /\ req' \in [Request -> ReqType] /\ begun' \in 0..MaxBegun
      /\ holder' \in [Person -> Request \cup {None}]
      /\ (Names(r) /\ Found(r) /\ RowLocked(r))'
      /\ \A q \in Request \ {r} : req'[q] = req[q]
      /\ \A q \in Person : holder[q] # r => holder'[q] = holder[q]
  BY <1>2, EndFacts
<1>9. TypeOK'
  BY <1>2, <1>3, <1>6, <1>7, <1>8 DEF TypeOK, ReqType
<1>10. PersonInv(p)'
  <2>1. AtMostOneOpen(p)'
    <3>1. apps[p] \in Seq(Status)
      BY <1>3
    <3> QED
      BY <1>4, <1>6, <3>1, AnotherApplication DEF AtMostOneOpen
  <2>2. ApprovedClaimed(p)'
    <3>1. \A n \in DOMAIN apps[p] : apps[p][n] # "approved"
      BY <1>3, <1>4 DEF ApprovedClaimed
    <3> QED
      BY <1>5, <1>6, <3>1 DEF ApprovedClaimed
  <2>3. NothingBeforeAccount(p)' /\ HasCredential(p)' /\ OnlyLastLive(p)'
    BY <1>2, <1>3, <1>6 DEF NothingBeforeAccount, HasCredential, OnlyLastLive
  <2> QED
    BY <2>1, <2>2, <2>3 DEF PersonInv
<1>11. CanSignIn(p) => CanSignIn(p)'
  BY <1>2 DEF CanSignIn
<1> QED
  BY <1>2, <1>4, <1>5, <1>6, <1>7, <1>8, <1>9, <1>10, <1>11, WriteStep DEF OtherRowsKept, RowGrows

\* Approve and AdoptOrphan: the user, the link and the approval together.
LEMMA ApproveInv ==
    ASSUME IInv, NEW r \in Request, Approve(r) \/ AdoptOrphan(r)
    PROVE  IInv'
<1>0. Names(r) /\ Found(r) /\ req[r].op = "approve" /\ req[r].at \in {"approve", "adopt"}
  BY DEF IInv, Approve, AdoptOrphan, Is
<1>1. PICK p \in Person : p = req[r].p
  BY <1>0 DEF Names, PersonOp, LockOp
<1>2. PICK n \in DOMAIN apps[p] : n = req[r].n
  BY <1>0, <1>1 DEF Names
<1>3. /\ account \in [Person -> Account] /\ claimed \in [Person -> BOOLEAN]
      /\ apps \in [Person -> Seq(Status)] /\ invites \in [Person -> Seq({"live", "used"})]
      /\ user \in [Person -> UserState] /\ setBy \in [Person -> Nat]
      /\ NothingBeforeAccount(p) /\ AtMostOneOpen(p) /\ HasCredential(p)
      /\ ApprovedClaimed(p) /\ OnlyLastLive(p)
  BY RowFacts
<1>4. /\ Free(p) /\ Go(r, "lock") /\ UNCHANGED <<invites, setBy, leads>>
      /\ claimed' = [claimed EXCEPT ![p] = TRUE]
      /\ account' = [account EXCEPT ![p] = "active"]
      /\ apps' = [apps EXCEPT ![p][n] = "approved"]
  BY <1>1, <1>2 DEF Approve, AdoptOrphan, LinkAndApprove
<1>5. /\ user' \in [Person -> UserState] /\ user'[p] \notin {"none", "bare"}
      /\ user[p] = "known" => user'[p] = "known"
      /\ \A q \in Person \ {p} : user'[q] = user[q]
  <2>1. CASE Approve(r) /\ req[r].seen.claimed /\ UNCHANGED user
    <3>1. claimed[p]
      BY <1>0, <1>1, <2>1 DEF Found
    <3> QED
      BY <1>3, <2>1, <3>1 DEF HasCredential
  <2>2. CASE user[p] = "none" /\ user' = [user EXCEPT ![p] = "temporary"]
    BY <1>3, <2>2 DEF UserState
  <2>3. CASE AdoptOrphan(r)
    <3>1. /\ user' = [user EXCEPT ![p] = IF @ = "bare" THEN "temporary" ELSE @]
          /\ user[p] # "none"
      BY <1>0, <1>1, <2>3 DEF AdoptOrphan, Found, Is
    <3>2. user'[p] = IF user[p] = "bare" THEN "temporary" ELSE user[p]
      BY <1>3, <3>1
    <3> QED
      BY <1>3, <3>1, <3>2 DEF UserState
  <2> QED
    BY <1>1, <2>1, <2>2, <2>3 DEF Approve
<1>6. /\ [apps[p] EXCEPT ![n] = "approved"] \in Seq(Status)
      /\ DOMAIN [apps[p] EXCEPT ![n] = "approved"] = DOMAIN apps[p]
  <2>1. apps[p] \in Seq(Status) /\ "approved" \in Status
    BY <1>3 DEF Status
  <2> QED
    BY <2>1, UpdateSeq
<1>7. /\ account' \in [Person -> Account] /\ account'[p] = "active"
      /\ claimed' \in [Person -> BOOLEAN] /\ claimed'[p]
      /\ apps' \in [Person -> Seq(Status)] /\ apps'[p] = [apps[p] EXCEPT ![n] = "approved"]
      /\ \A q \in Person \ {p} :
            account'[q] = account[q] /\ apps'[q] = apps[q] /\ claimed'[q] = claimed[q]
  BY <1>3, <1>4, <1>6 DEF Account
<1>8. /\ req' \in [Request -> ReqType] /\ begun' = begun /\ holder' = holder
      /\ req'[r].at = "lock" /\ req'[r].op = req[r].op /\ req'[r].p = req[r].p
      /\ \A q \in Request \ {r} : req'[q] = req[q]
  BY <1>4, GoFacts DEF At
<1>9. TypeOK'
  BY <1>3, <1>4, <1>5, <1>7, <1>8 DEF IInv, TypeOK, ReqType, leads
<1>10. PersonInv(p)'
  BY <1>3, <1>4, <1>5, <1>7 DEF PersonInv, NothingBeforeAccount, AtMostOneOpen, HasCredential,
                                ApprovedClaimed, OnlyLastLive
<1>11. CanSignIn(p) => CanSignIn(p)'
  BY <1>4, <1>5 DEF CanSignIn
<1>12. Names(r)' /\ Found(r)' /\ RowLocked(r)'
  BY <1>0, <1>1, <1>8 DEF Names, Found, RowLocked, LockOp
<1>13. LeadsNamed'
  <2>1. \A q \in Person : account[q] # "none" => account'[q] # "none"
    BY <1>7
  <2>2. \A l \in Lead : link[l] # None => link[l] \in Person
    BY DEF IInv, TypeOK
  <2> QED
    BY <1>4, <2>1, <2>2 DEF IInv, LeadsNamed, leads
<1>14. holder[p] = None /\ (user[p] # "none" => user'[p] # "none") /\ stage' = stage
  BY <1>4, <1>5 DEF Free, leads
<1> QED
  BY <1>4, <1>5, <1>6, <1>7, <1>8, <1>9, <1>10, <1>11, <1>12, <1>13, <1>14, WriteStep DEF OtherRowsKept, RowGrows

LEMMA InviteInv ==
    ASSUME IInv, NEW r \in Request, CreateInvite(r)
    PROVE  IInv'
<1>0. req[r].at = "locked"
  BY DEF CreateInvite
<1>1. PICK p \in Person : p = req[r].p
  BY <1>0, LockedFacts
<1>2. holder[p] = r /\ req[r].seen.invites = invites[p]
  BY <1>0, <1>1, LockedFacts
<1>3. /\ account \in [Person -> Account] /\ claimed \in [Person -> BOOLEAN]
      /\ apps \in [Person -> Seq(Status)] /\ invites \in [Person -> Seq({"live", "used"})]
      /\ user \in [Person -> UserState] /\ setBy \in [Person -> Nat]
      /\ NothingBeforeAccount(p) /\ AtMostOneOpen(p) /\ HasCredential(p)
      /\ ApprovedClaimed(p) /\ OnlyLastLive(p)
  BY RowFacts
<1> DEFINE t == Append([n \in DOMAIN invites[p] |->
                          IF n \in DOMAIN invites[p] THEN "used" ELSE invites[p][n]], "live")
<1>4. /\ invites' = [invites EXCEPT ![p] = t] /\ End(r)
      /\ UNCHANGED <<account, claimed, apps, user, setBy, leads>>
  BY <1>1, <1>2, <1>3 DEF CreateInvite
<1>5. /\ t \in Seq({"live", "used"}) /\ DOMAIN invites[p] \subseteq DOMAIN t
      /\ \A n \in DOMAIN t : n # Len(t) => t[n] = "used"
  <2>1. invites[p] \in Seq({"live", "used"})
    BY <1>3
  <2> QED
    BY <2>1, SpentSeq
<1> HIDE DEF t
<1>6. /\ invites' \in [Person -> Seq({"live", "used"})] /\ invites'[p] = t
      /\ \A q \in Person \ {p} : invites'[q] = invites[q]
  BY <1>3, <1>4, <1>5
<1>7. /\ req' \in [Request -> ReqType] /\ begun' \in 0..MaxBegun
      /\ holder' \in [Person -> Request \cup {None}]
      /\ (Names(r) /\ Found(r) /\ RowLocked(r))'
      /\ \A q \in Request \ {r} : req'[q] = req[q]
      /\ \A q \in Person : holder[q] # r => holder'[q] = holder[q]
  BY <1>4, EndFacts
<1>8. TypeOK'
  BY <1>4, <1>6, <1>7 DEF IInv, TypeOK, ReqType, leads
<1>9. PersonInv(p)'
  <2>1. OnlyLastLive(p)'
    BY <1>5, <1>6 DEF OnlyLastLive
  <2>2. /\ NothingBeforeAccount(p)' /\ AtMostOneOpen(p)' /\ HasCredential(p)'
        /\ ApprovedClaimed(p)'
    BY <1>3, <1>4 DEF NothingBeforeAccount, AtMostOneOpen, HasCredential, ApprovedClaimed
  <2> QED
    BY <2>1, <2>2 DEF PersonInv
<1>10. (CanSignIn(p) => CanSignIn(p)') /\ LeadsNamed' /\ stage' = stage
  BY <1>4 DEF CanSignIn, LeadsNamed, IInv, leads
<1> QED
  BY <1>2, <1>4, <1>5, <1>6, <1>7, <1>8, <1>9, <1>10, WriteStep DEF OtherRowsKept, RowGrows

LEMMA DecideInv ==
    ASSUME IInv, NEW r \in Request, CommitDecision(r)
    PROVE  IInv'
<1>0. req[r].at = "locked" /\ req[r].op = "decide" /\ Names(r)
  BY DEF CommitDecision, Is, IInv
<1>1. PICK p \in Person : p = req[r].p
  BY <1>0, LockedFacts
<1>2. holder[p] = r /\ req[r].seen.apps = apps[p] /\ account[p] # "none"
  BY <1>0, <1>1, LockedFacts
<1>3. /\ account \in [Person -> Account] /\ claimed \in [Person -> BOOLEAN]
      /\ apps \in [Person -> Seq(Status)] /\ invites \in [Person -> Seq({"live", "used"})]
      /\ user \in [Person -> UserState] /\ setBy \in [Person -> Nat]
      /\ NothingBeforeAccount(p) /\ AtMostOneOpen(p) /\ HasCredential(p)
      /\ ApprovedClaimed(p) /\ OnlyLastLive(p)
  BY RowFacts
<1>4. PICK to \in {"contacted", "rejected"} : to = req[r].to
  BY <1>0 DEF Names
<1> DEFINE n == Len(apps[p])
           t == [apps[p] EXCEPT ![n] = to]
<1>5. /\ apps' = [apps EXCEPT ![p][n] = to] /\ End(r)
      /\ UNCHANGED <<account, claimed, invites, user, setBy, leads>>
      /\ apps[p] # <<>> /\ apps[p][n] \in Open
  BY <1>1, <1>2, <1>4 DEF CommitDecision, Decidable
<1>6. n \in DOMAIN apps[p]
  <2>1. apps[p] \in Seq(Status)
    BY <1>3
  <2>2. n \in Nat /\ DOMAIN apps[p] = 1..n /\ n # 0
    BY <1>5, <2>1, LenProperties, EmptySeq
  <2> QED
    BY <2>2
<1>7. /\ t \in Seq(Status) /\ DOMAIN t = DOMAIN apps[p]
      /\ \A m \in DOMAIN apps[p] : t[m] = IF m = n THEN to ELSE apps[p][m]
  <2>1. apps[p] \in Seq(Status) /\ to \in Status
    BY <1>3 DEF Status
  <2> QED
    BY <1>6, <2>1, UpdateSeq
<1>8. apps' = [apps EXCEPT ![p] = t]
  BY <1>3, <1>5
<1> HIDE DEF t, n
<1>9. /\ apps' \in [Person -> Seq(Status)] /\ apps'[p] = t
      /\ \A q \in Person \ {p} : apps'[q] = apps[q]
  BY <1>3, <1>7, <1>8
<1>10. /\ req' \in [Request -> ReqType] /\ begun' \in 0..MaxBegun
       /\ holder' \in [Person -> Request \cup {None}]
       /\ (Names(r) /\ Found(r) /\ RowLocked(r))'
       /\ \A q \in Request \ {r} : req'[q] = req[q]
       /\ \A q \in Person : holder[q] # r => holder'[q] = holder[q]
  BY <1>5, EndFacts
<1>11. TypeOK'
  BY <1>5, <1>9, <1>10 DEF IInv, TypeOK, ReqType, leads
<1>12. PersonInv(p)'
  <2>1. AtMostOneOpen(p)'
    <3>1. t # <<>>
      BY <1>6, <1>7
    <3>2. \A m \in DOMAIN t : t[m] \in Open => apps[p][m] \in Open
      BY <1>5, <1>7
    <3> QED
      BY <1>3, <1>5, <1>7, <1>9, <3>1, <3>2 DEF AtMostOneOpen
  <2>2. ApprovedClaimed(p)'
    BY <1>3, <1>5, <1>7, <1>9 DEF ApprovedClaimed
  <2>3. NothingBeforeAccount(p)' /\ HasCredential(p)' /\ OnlyLastLive(p)'
    BY <1>2, <1>3, <1>5 DEF NothingBeforeAccount, HasCredential, OnlyLastLive
  <2> QED
    BY <2>1, <2>2, <2>3 DEF PersonInv
<1>13. (CanSignIn(p) => CanSignIn(p)') /\ LeadsNamed' /\ stage' = stage
  BY <1>5 DEF CanSignIn, LeadsNamed, IInv, leads
<1> QED
  BY <1>2, <1>5, <1>7, <1>9, <1>10, <1>11, <1>12, <1>13, WriteStep DEF OtherRowsKept, RowGrows

LEMMA ActivateInv ==
    ASSUME IInv, NEW r \in Request, Activate(r)
    PROVE  IInv'
<1>0. req[r].at = "locked" /\ req[r].op = "password" /\ Names(r)
  BY DEF Activate, Is, IInv
<1>1. PICK p \in Person : p = req[r].p
  BY <1>0, LockedFacts
<1>2. PICK n \in DOMAIN invites[p] : n = req[r].n
  BY <1>0, <1>1 DEF Names
<1>3. /\ account \in [Person -> Account] /\ claimed \in [Person -> BOOLEAN]
      /\ apps \in [Person -> Seq(Status)] /\ invites \in [Person -> Seq({"live", "used"})]
      /\ user \in [Person -> UserState] /\ setBy \in [Person -> Nat]
      /\ NothingBeforeAccount(p) /\ AtMostOneOpen(p) /\ HasCredential(p)
      /\ ApprovedClaimed(p) /\ OnlyLastLive(p)
  BY RowFacts
<1>4. holder[p] = r /\ NotActivated(p)
  BY <1>0, <1>1, LockedFacts DEF Activate
<1>5. /\ setBy' = [setBy EXCEPT ![p] = n] /\ invites' = [invites EXCEPT ![p][n] = "used"]
      /\ End(r) /\ UNCHANGED <<account, claimed, apps, user, leads>>
  BY <1>1, <1>2 DEF Activate
<1>6. n \in Nat /\ n # 0
  <2>1. invites[p] \in Seq({"live", "used"})
    BY <1>3
  <2>2. n \in 1..Len(invites[p]) /\ Len(invites[p]) \in Nat
    BY <2>1, LenProperties
  <2> QED
    BY <2>2
<1> DEFINE t == [invites[p] EXCEPT ![n] = "used"]
<1>7. /\ t \in Seq({"live", "used"}) /\ Len(t) = Len(invites[p])
      /\ DOMAIN t = DOMAIN invites[p]
      /\ \A m \in DOMAIN invites[p] : t[m] = IF m = n THEN "used" ELSE invites[p][m]
  <2>1. invites[p] \in Seq({"live", "used"})
    BY <1>3
  <2> QED
    BY <2>1, UpdateSeq
<1>8. invites' = [invites EXCEPT ![p] = t]
  BY <1>3, <1>5
<1> HIDE DEF t
<1>9. /\ invites' \in [Person -> Seq({"live", "used"})] /\ invites'[p] = t
      /\ setBy' \in [Person -> Nat] /\ setBy'[p] = n
      /\ \A q \in Person \ {p} : invites'[q] = invites[q] /\ setBy'[q] = setBy[q]
  BY <1>3, <1>5, <1>6, <1>7, <1>8
<1>10. /\ req' \in [Request -> ReqType] /\ begun' \in 0..MaxBegun
       /\ holder' \in [Person -> Request \cup {None}]
       /\ (Names(r) /\ Found(r) /\ RowLocked(r))'
       /\ \A q \in Request \ {r} : req'[q] = req[q]
       /\ \A q \in Person : holder[q] # r => holder'[q] = holder[q]
  BY <1>5, EndFacts
<1>11. TypeOK'
  BY <1>5, <1>9, <1>10 DEF IInv, TypeOK, ReqType, leads
<1>12. PersonInv(p)'
  <2>1. OnlyLastLive(p)'
    BY <1>3, <1>7, <1>9 DEF OnlyLastLive
  <2>2. HasCredential(p)'
    BY <1>4, <1>5 DEF HasCredential, NotActivated
  <2>3. NothingBeforeAccount(p)' /\ AtMostOneOpen(p)' /\ ApprovedClaimed(p)'
    BY <1>3, <1>5 DEF NothingBeforeAccount, AtMostOneOpen, ApprovedClaimed
  <2> QED
    BY <2>1, <2>2, <2>3 DEF PersonInv
<1>13. CanSignIn(p)' /\ LeadsNamed' /\ stage' = stage
  BY <1>5, <1>6, <1>9 DEF CanSignIn, LeadsNamed, IInv, leads
<1> QED
  BY <1>4, <1>5, <1>7, <1>9, <1>10, <1>11, <1>12, <1>13, WriteStep DEF OtherRowsKept, RowGrows

\* Signing in makes the investor the user's: claimed, or made anew.
LEMMA SignInInv ==
    ASSUME IInv, NEW r \in Request, ClaimInvestor(r) \/ CreateInvestor(r)
    PROVE  IInv'
<1>0. /\ req[r].op = "signin" /\ Names(r) /\ Found(r) /\ req[r] \in ReqType
      /\ req \in [Request -> ReqType]
  BY ReqTyped DEF ClaimInvestor, CreateInvestor, Is, IInv
<1>1. PICK p \in Person : p = req[r].p
  BY <1>0 DEF Names, PersonOp
<1>2. CanSignIn(p) /\ \A l \in req[r].found : stage[l] # "absent"
  BY <1>0, <1>1 DEF Found, Names
<1>3. /\ account \in [Person -> Account] /\ claimed \in [Person -> BOOLEAN]
      /\ apps \in [Person -> Seq(Status)] /\ invites \in [Person -> Seq({"live", "used"})]
      /\ user \in [Person -> UserState] /\ setBy \in [Person -> Nat]
      /\ NothingBeforeAccount(p) /\ AtMostOneOpen(p) /\ HasCredential(p)
      /\ ApprovedClaimed(p) /\ OnlyLastLive(p)
  BY RowFacts
<1>4. user[p] \notin {"none", "bare"}
  BY <1>2, <1>3 DEF CanSignIn, HasCredential
<1>5. PICK at \in {"create", "link"} : Go(r, at) /\ (at = "link" => account'[p] # "none")
  <2>1. CASE ClaimInvestor(r)
    <3>1. account[p] # "none" /\ account' = account
      BY <1>0, <1>1, <2>1 DEF ClaimInvestor, Is, Found
    <3> QED
      BY <2>1, <3>1 DEF ClaimInvestor
  <2>2. CASE CreateInvestor(r)
    <3>1. account'[p] # "none"
      BY <1>1, <1>3, <2>2 DEF CreateInvestor
    <3> QED
      BY <2>2, <3>1 DEF CreateInvestor
  <2> QED
    BY <2>1, <2>2
<1>6. /\ req' \in [Request -> ReqType] /\ begun' = begun /\ holder' = holder
      /\ req'[r].at = at /\ req'[r].op = req[r].op /\ req'[r].p = req[r].p
      /\ req'[r].found = req[r].found
      /\ \A q \in Request \ {r} : req'[q] = req[q]
  BY <1>5, GoFacts DEF At
<1>7. UNCHANGED <<apps, invites, user, setBy, leads>>
  BY DEF ClaimInvestor, CreateInvestor
<1>8. /\ account' \in [Person -> Account] /\ claimed' \in [Person -> BOOLEAN]
      /\ \A q \in Person \ {p} : account'[q] = account[q] /\ claimed'[q] = claimed[q]
      /\ account'[p] # "none" /\ claimed'[p]
      /\ account'[p] = account[p] \/ (account[p] = "none" /\ account'[p] = "active")
      /\ \/ account[p] = "none" \/ holder[p] = None
         \/ UNCHANGED <<account, claimed>>
  <2>1. CASE ClaimInvestor(r)
    <3>1. account[p] # "none" /\ account' = account /\ claimed' = [claimed EXCEPT ![p] = TRUE]
          /\ holder[p] = None
      BY <1>0, <1>1, <2>1 DEF ClaimInvestor, Is, Found, Free
    <3> QED
      BY <1>3, <3>1
  <2>2. CASE CreateInvestor(r) /\ account[p] = "none"
    <3>1. account' = [account EXCEPT ![p] = "active"] /\ claimed' = [claimed EXCEPT ![p] = TRUE]
      BY <1>1, <2>2 DEF CreateInvestor
    <3> QED
      BY <1>3, <2>2, <3>1 DEF Account
  <2>3. CASE CreateInvestor(r) /\ account[p] # "none"
    <3>1. claimed[p] /\ UNCHANGED <<account, claimed>>
      BY <1>1, <2>3 DEF CreateInvestor
    <3> QED
      BY <1>3, <2>3, <3>1
  <2> QED
    BY <2>1, <2>2, <2>3
<1>9. TypeOK'
  BY <1>6, <1>7, <1>8 DEF IInv, TypeOK, ReqType, leads
<1>10. Names(r)' /\ Found(r)' /\ RowLocked(r)'
  <2>1. stage' = stage /\ CanSignIn(p)'
    BY <1>2, <1>7 DEF leads, CanSignIn
  <2>2. Names(r)'
    BY <1>0, <1>1, <1>2, <1>5, <1>6, <2>1 DEF Names
  <2>3. Found(r)'
    BY <1>0, <1>1, <1>5, <1>6, <1>8, <2>1 DEF Found, CanSignIn
  <2> QED
    BY <1>5, <1>6, <2>2, <2>3 DEF RowLocked
<1>11. CASE UNCHANGED <<account, claimed>>
  <2>1. UNCHANGED people /\ LeadsNamed' /\ stage' = stage
    BY <1>7, <1>11 DEF people, leads, IInv, LeadsNamed
  <2> QED
    BY <1>6, <1>9, <1>10, <2>1, LeadStep
<1>12. CASE account[p] = "none" \/ holder[p] = None
  <2>1. PersonInv(p)'
    <3>1. AtMostOneOpen(p)'
      BY <1>3, <1>7, <1>8 DEF AtMostOneOpen
    <3>2. NothingBeforeAccount(p)' /\ HasCredential(p)' /\ OnlyLastLive(p)'
      BY <1>3, <1>4, <1>7, <1>8 DEF NothingBeforeAccount, HasCredential, OnlyLastLive
    <3>3. ApprovedClaimed(p)'
      BY <1>3, <1>7, <1>8 DEF ApprovedClaimed
    <3> QED
      BY <3>1, <3>2, <3>3 DEF PersonInv
  <2>2. LeadsNamed' /\ stage' = stage
    <3>1. \A q \in Person : account[q] # "none" => account'[q] # "none"
      BY <1>8
    <3>2. \A l \in Lead : link[l] # None => link[l] \in Person
      BY DEF IInv, TypeOK
    <3> QED
      BY <1>7, <3>1, <3>2 DEF IInv, LeadsNamed, leads
  <2>3. CanSignIn(p)' /\ DOMAIN apps[p] \subseteq DOMAIN apps'[p]
        /\ DOMAIN invites[p] \subseteq DOMAIN invites'[p]
    BY <1>2, <1>7 DEF CanSignIn
  <2> QED
    BY <1>6, <1>7, <1>8, <1>9, <1>10, <1>12, <2>1, <2>2, <2>3, WriteStep DEF OtherRowsKept, RowGrows
<1> QED
  BY <1>8, <1>11, <1>12

-----------------------------------------------------------------------------
(* Leads                                                                    *)

LEMMA LinkLeadInv ==
    ASSUME IInv, NEW r \in Request, LinkLead(r)
    PROVE  IInv'
<1>1. /\ req[r].op = "signin" /\ req[r].at = "write" /\ Names(r) /\ Found(r) /\ LeadsNamed
      /\ TypeOK /\ req[r] \in ReqType /\ req \in [Request -> ReqType] /\ begun \in 0..MaxBegun
  BY ReqTyped DEF LinkLead, Is, IInv, TypeOK
<1>2. PICK p \in Person : p = req[r].p
  BY <1>1 DEF Names, PersonOp
<1>3. /\ account[p] # "none" /\ CanSignIn(p)
      /\ req[r].found \subseteq Lead /\ \A l \in req[r].found : stage[l] # "absent"
  BY <1>1, <1>2 DEF Found, Names, ReqType
<1>4. ASSUME NEW l \in req[r].found, link' = [link EXCEPT ![l] = p],
             stage' = [stage EXCEPT ![l] = "converted"], End(r), UNCHANGED <<people, of>>
      PROVE  IInv'
  <2>1. /\ req' \in [Request -> ReqType] /\ begun' \in 0..MaxBegun
        /\ holder' \in [Person -> Request \cup {None}]
        /\ (Names(r) /\ Found(r) /\ RowLocked(r))'
        /\ \A q \in Request \ {r} : req'[q] = req[q]
        /\ \A q \in Person : holder[q] # r => holder'[q] = holder[q]
    BY <1>4, EndFacts
  <2>2. /\ stage' \in [Lead -> Stage] /\ link' \in [Lead -> Person \cup {None}]
        /\ \A k \in Lead : stage[k] # "absent" => stage'[k] # "absent"
    BY <1>1, <1>3, <1>4 DEF TypeOK, Stage
  <2>3. LeadsNamed'
    <3>1. l \in Lead /\ stage[l] # "absent" /\ account' = account
      BY <1>3, <1>4 DEF people
    <3> QED
      BY <1>1, <1>3, <1>4, <3>1 DEF LeadsNamed, TypeOK
  <2>4. TypeOK'
    BY <1>1, <1>4, <2>1, <2>2 DEF TypeOK, ReqType, people
  <2> QED
    BY <1>4, <2>1, <2>2, <2>3, <2>4, LeadStep
<1>5. ASSUME NEW l \in req[r].found, req' = [req EXCEPT ![r].found = @ \ {l}],
             UNCHANGED <<people, leads, holder, begun>>
      PROVE  IInv'
  <2> DEFINE new == [req[r] EXCEPT !.found = @ \ {l}]
  <2>1. req' = [req EXCEPT ![r] = new]
    BY <1>1, <1>5
  <2>2. /\ new \in ReqType /\ new.op = "signin" /\ new.p = p /\ new.at = "write"
        /\ new.found \subseteq req[r].found /\ req'[r] = new
    BY <1>1, <1>2, <2>1 DEF ReqType
  <2> HIDE DEF new
  <2>3. stage' = stage /\ account' = account /\ user' = user /\ setBy' = setBy
    BY <1>5 DEF people, leads
  <2>4. Names(r)' /\ Found(r)'
    BY <1>3, <2>2, <2>3 DEF Names, Found, CanSignIn
  <2> QED
    BY <1>1, <1>5, <2>1, <2>2, <2>4, QuietStep
<1> QED
  BY <1>2, <1>4, <1>5 DEF LinkLead

\* The request of a conversion after it has gone on.
LEMMA ConvertGo ==
    ASSUME IInv, NEW r \in Request, NEW p \in Person, p = req[r].p, req[r].op = "convert",
           NEW at \in {"application", "convertLink", "read"}, Go(r, at), account'[p] # "none",
           stage'[req[r].l] # "absent"
    PROVE  Names(r)' /\ Found(r)' /\ RowLocked(r)'
<1>1. /\ req'[r].at = at /\ req'[r].op = "convert" /\ req'[r].p = p /\ req'[r].l = req[r].l
  BY GoFacts DEF At
<1>2. req[r].l \in Lead
  BY DEF IInv, Names
<1> QED
  BY <1>1, <1>2 DEF Names, Found, RowLocked

LEMMA ConvertInv ==
    ASSUME IInv, NEW r \in Request, CreateConverted(r)
    PROVE  IInv'
<1>1. /\ req[r].op = "convert" /\ req[r].at = "create" /\ Names(r) /\ LeadsNamed /\ TypeOK
  BY DEF CreateConverted, Is, IInv
<1>2. PICK p \in Person : p = req[r].p
  BY <1>1 DEF Names, PersonOp
<1>3. PICK l \in Lead : l = req[r].l /\ stage[l] # "absent"
  BY <1>1 DEF Names
<1>4. /\ account[p] = "none" /\ Go(r, "application")
      /\ account' = [account EXCEPT ![p] = "pending_access"]
      /\ apps' = [apps EXCEPT ![p] = Append(@, "submitted")]
      /\ link' = [link EXCEPT ![l] = p] /\ stage' = [stage EXCEPT ![l] = "converted"]
      /\ UNCHANGED <<claimed, invites, user, setBy, of>>
  BY <1>2, <1>3 DEF CreateConverted
<1>5. /\ account \in [Person -> Account] /\ claimed \in [Person -> BOOLEAN]
      /\ apps \in [Person -> Seq(Status)] /\ invites \in [Person -> Seq({"live", "used"})]
      /\ user \in [Person -> UserState] /\ setBy \in [Person -> Nat]
      /\ NothingBeforeAccount(p) /\ AtMostOneOpen(p) /\ HasCredential(p)
      /\ ApprovedClaimed(p) /\ OnlyLastLive(p)
  BY RowFacts
<1>6. apps[p] = <<>>
  BY <1>4, <1>5 DEF NothingBeforeAccount
<1>7. /\ Append(apps[p], "submitted") \in Seq(Status)
      /\ DOMAIN apps[p] \subseteq DOMAIN Append(apps[p], "submitted")
      /\ \A n \in DOMAIN Append(apps[p], "submitted") : Append(apps[p], "submitted")[n] = "submitted"
  <2>1. apps[p] \in Seq(Status) /\ "submitted" \in Status
    BY <1>5 DEF Status
  <2>2. DOMAIN apps[p] = {}
    BY <1>6
  <2> QED
    BY <2>1, <2>2, AppendSeq
<1>8. /\ account' \in [Person -> Account] /\ account'[p] = "pending_access"
      /\ apps' \in [Person -> Seq(Status)] /\ apps'[p] = Append(apps[p], "submitted")
      /\ \A q \in Person \ {p} : account'[q] = account[q] /\ apps'[q] = apps[q]
  BY <1>4, <1>5, <1>7 DEF Account
<1>9. /\ stage' \in [Lead -> Stage] /\ link' \in [Lead -> Person \cup {None}]
      /\ \A k \in Lead : stage[k] # "absent" => stage'[k] # "absent"
      /\ stage'[l] # "absent"
  BY <1>1, <1>3, <1>4 DEF TypeOK, Stage
<1>10. /\ req' \in [Request -> ReqType] /\ begun' = begun /\ holder' = holder
       /\ \A q \in Request \ {r} : req'[q] = req[q]
  BY <1>4, GoFacts DEF At
<1>11. TypeOK'
  BY <1>1, <1>4, <1>8, <1>9, <1>10 DEF TypeOK, ReqType
<1>12. (Names(r) /\ Found(r) /\ RowLocked(r))'
  <2>1. account'[p] # "none"
    BY <1>8
  <2> QED
    BY <1>1, <1>2, <1>3, <1>4, <1>9, <2>1, ConvertGo
<1>13. LeadsNamed'
  <2>1. account'[p] # "none" /\ \A q \in Person : account[q] # "none" => account'[q] # "none"
    BY <1>8
  <2>2. \A k \in Lead : link[k] # None => link[k] \in Person
    BY <1>1 DEF TypeOK
  <2>3. \A k \in Lead : link'[k] = IF k = l THEN p ELSE link[k]
    BY <1>1, <1>4 DEF TypeOK
  <2>4. \A k \in Lead : stage'[k] # "absent" => stage[k] # "absent"
    BY <1>1, <1>3, <1>4 DEF TypeOK
  <2> QED
    BY <1>1, <1>4, <2>1, <2>2, <2>3, <2>4 DEF LeadsNamed
<1>14. PersonInv(p)'
  <2>1. AtMostOneOpen(p)'
    <3>1. apps[p] \in Seq(Status) /\ \A n \in DOMAIN apps[p] : apps[p][n] \notin Open
      BY <1>5, <1>6
    <3> QED
      BY <1>8, <3>1, AnotherApplication DEF AtMostOneOpen
  <2>2. ApprovedClaimed(p)'
    BY <1>7, <1>8 DEF ApprovedClaimed
  <2>3. NothingBeforeAccount(p)' /\ HasCredential(p)' /\ OnlyLastLive(p)'
    BY <1>4, <1>5, <1>8 DEF NothingBeforeAccount, HasCredential, OnlyLastLive
  <2> QED
    BY <2>1, <2>2, <2>3 DEF PersonInv
<1>15. CanSignIn(p) => CanSignIn(p)'
  BY <1>4 DEF CanSignIn
<1> QED
  BY <1>4, <1>7, <1>8, <1>9, <1>10, <1>11, <1>12, <1>13, <1>14, <1>15, WriteStep
     DEF OtherRowsKept, RowGrows

LEMMA InsertInv ==
    ASSUME IInv, NEW r \in Request, InsertApplication(r)
    PROVE  IInv'
<1>1. /\ req[r].op = "convert" /\ req[r].at = "insert" /\ Names(r) /\ Found(r) /\ LeadsNamed
      /\ TypeOK
  BY DEF InsertApplication, Is, IInv
<1>2. PICK p \in Person : p = req[r].p
  BY <1>1 DEF Names, PersonOp
<1>3. /\ account[p] = "active" /\ holder[p] = None /\ Go(r, "convertLink")
      /\ apps' = [apps EXCEPT ![p] = Append(@, "submitted")]
      /\ UNCHANGED <<account, claimed, invites, user, setBy, leads>>
  BY <1>1, <1>2 DEF InsertApplication, Found, Free
<1>4. /\ account \in [Person -> Account] /\ claimed \in [Person -> BOOLEAN]
      /\ apps \in [Person -> Seq(Status)] /\ invites \in [Person -> Seq({"live", "used"})]
      /\ user \in [Person -> UserState] /\ setBy \in [Person -> Nat]
      /\ NothingBeforeAccount(p) /\ AtMostOneOpen(p) /\ HasCredential(p)
      /\ ApprovedClaimed(p) /\ OnlyLastLive(p)
  BY RowFacts
<1>5. /\ Append(apps[p], "submitted") \in Seq(Status)
      /\ DOMAIN apps[p] \subseteq DOMAIN Append(apps[p], "submitted")
      /\ \A n \in DOMAIN Append(apps[p], "submitted") :
            Append(apps[p], "submitted")[n] = "approved" => n \in DOMAIN apps[p] /\ apps[p][n] = "approved"
  <2>1. apps[p] \in Seq(Status) /\ "submitted" \in Status
    BY <1>4 DEF Status
  <2> QED
    BY <2>1, AppendSeq
<1>6. /\ apps' \in [Person -> Seq(Status)] /\ apps'[p] = Append(apps[p], "submitted")
      /\ \A q \in Person \ {p} : apps'[q] = apps[q]
  BY <1>3, <1>4, <1>5
<1>7. /\ req' \in [Request -> ReqType] /\ begun' = begun /\ holder' = holder
      /\ \A q \in Request \ {r} : req'[q] = req[q]
  BY <1>3, GoFacts DEF At
<1>8. TypeOK'
  BY <1>1, <1>3, <1>6, <1>7 DEF TypeOK, ReqType, leads
<1>9. (Names(r) /\ Found(r) /\ RowLocked(r))'
  <2>1. account'[p] # "none" /\ stage'[req[r].l] # "absent"
    BY <1>1, <1>3 DEF Names, leads
  <2> QED
    BY <1>1, <1>2, <1>3, <2>1, ConvertGo
<1>10. LeadsNamed' /\ stage' = stage
  BY <1>1, <1>3 DEF LeadsNamed, leads
<1>11. PersonInv(p)'
  <2>1. ApprovedClaimed(p)'
    BY <1>3, <1>4, <1>5, <1>6 DEF ApprovedClaimed
  <2>2. NothingBeforeAccount(p)' /\ AtMostOneOpen(p)' /\ HasCredential(p)' /\ OnlyLastLive(p)'
    BY <1>3, <1>4 DEF NothingBeforeAccount, AtMostOneOpen, HasCredential, OnlyLastLive
  <2> QED
    BY <2>1, <2>2 DEF PersonInv
<1>12. CanSignIn(p) => CanSignIn(p)'
  BY <1>3 DEF CanSignIn
<1> QED
  BY <1>3, <1>5, <1>6, <1>7, <1>8, <1>9, <1>10, <1>11, <1>12, WriteStep DEF OtherRowsKept, RowGrows

LEMMA LinkConvertedInv ==
    ASSUME IInv, NEW r \in Request, LinkConverted(r)
    PROVE  IInv'
<1>1. /\ req[r].op = "convert" /\ req[r].at = "convertLink" /\ Names(r) /\ Found(r)
      /\ LeadsNamed /\ TypeOK
  BY DEF LinkConverted, Is, IInv
<1>2. PICK p \in Person : p = req[r].p /\ account[p] # "none"
  BY <1>1 DEF Names, PersonOp, Found
<1>3. PICK l \in Lead : l = req[r].l /\ stage[l] # "absent"
  BY <1>1 DEF Names
<1>4. /\ Go(r, "read") /\ UNCHANGED people
      /\ \/ UNCHANGED leads
         \/ /\ link' = [link EXCEPT ![l] = p] /\ stage' = [stage EXCEPT ![l] = "converted"]
            /\ UNCHANGED of
  BY <1>2, <1>3 DEF LinkConverted
<1>5. /\ req' \in [Request -> ReqType] /\ begun' = begun /\ holder' = holder
      /\ \A q \in Request \ {r} : req'[q] = req[q]
  BY <1>4, GoFacts DEF At
<1>6. /\ stage' \in [Lead -> Stage] /\ link' \in [Lead -> Person \cup {None}] /\ of' = of
      /\ \A k \in Lead : stage[k] # "absent" => stage'[k] # "absent"
      /\ \A k \in Lead : link'[k] = link[k] \/ link'[k] = p
      /\ \A k \in Lead : stage'[k] # "absent" => stage[k] # "absent"
  <2>1. CASE UNCHANGED leads
    BY <1>1, <2>1 DEF TypeOK, leads
  <2>2. CASE /\ link' = [link EXCEPT ![l] = p] /\ stage' = [stage EXCEPT ![l] = "converted"]
             /\ UNCHANGED of
    BY <1>1, <1>3, <2>2 DEF TypeOK, Stage
  <2> QED
    BY <1>4, <2>1, <2>2
<1>7. TypeOK'
  BY <1>1, <1>4, <1>5, <1>6 DEF TypeOK, ReqType, people
<1>8. account' = account
  BY <1>4 DEF people
<1>9. LeadsNamed'
  BY <1>1, <1>2, <1>6, <1>8 DEF LeadsNamed
<1>10. (Names(r) /\ Found(r) /\ RowLocked(r))'
  <2>1. stage'[req[r].l] # "absent"
    BY <1>3, <1>6
  <2> QED
    BY <1>1, <1>2, <1>4, <1>8, <2>1, ConvertGo
<1> QED
  BY <1>4, <1>5, <1>6, <1>7, <1>9, <1>10, LeadStep

LEMMA StageInv ==
    ASSUME IInv, NEW r \in Request, WriteStage(r)
    PROVE  IInv'
<1>1. /\ req[r].op = "stage" /\ req[r].at = "write" /\ Names(r) /\ LeadsNamed /\ TypeOK
      /\ req \in [Request -> ReqType] /\ req[r] \in ReqType
  BY ReqTyped DEF WriteStage, Is, IInv
<1>2. PICK l \in req[r].found : /\ stage' = [stage EXCEPT ![l] = req[r].to]
                                /\ req' = [req EXCEPT ![r].found = @ \ {l}]
  BY DEF WriteStage
<1>3. UNCHANGED <<people, of, link, holder, begun>>
  BY DEF WriteStage
<1>4. l \in Lead /\ stage[l] # "absent" /\ req[r].to \in SettableStages
  BY <1>1 DEF Names, ReqType
<1> DEFINE new == [req[r] EXCEPT !.found = @ \ {l}]
<1>5. req' = [req EXCEPT ![r] = new]
  BY <1>1, <1>2
<1>6. /\ new \in ReqType /\ new.op = "stage" /\ new.at = "write" /\ new.to = req[r].to
      /\ new.found \subseteq req[r].found
  BY <1>1 DEF ReqType
<1> HIDE DEF new
<1>7. req'[r] = new /\ req' \in [Request -> ReqType] /\ \A q \in Request \ {r} : req'[q] = req[q]
  BY <1>1, <1>5, <1>6
<1>8. /\ stage' \in [Lead -> Stage]
      /\ \A k \in Lead : stage'[k] # "absent" <=> stage[k] # "absent"
  BY <1>1, <1>2, <1>4 DEF TypeOK, SettableStages, Stage
<1>9. TypeOK'
  BY <1>1, <1>3, <1>7, <1>8 DEF TypeOK, ReqType, people
<1>10. LeadsNamed'
  BY <1>1, <1>3, <1>8 DEF LeadsNamed, people
<1>11. (Names(r) /\ Found(r) /\ RowLocked(r))'
  <2>1. \A k \in new.found : stage'[k] # "absent"
    BY <1>1, <1>6, <1>8 DEF Names, ReqType
  <2>2. Names(r)'
    BY <1>4, <1>6, <1>7, <2>1 DEF Names, PersonOp, LockOp
  <2> QED
    BY <1>6, <1>7, <2>2 DEF Found, RowLocked
<1> QED
  BY <1>3, <1>7, <1>8, <1>9, <1>10, <1>11, LeadStep

LEMMA NoRequestInv ==
    ASSUME IInv, NEW l \in Lead,
           LogCallAttempt(l) \/ \E p \in Person : UploadLead(l, p) \/ UpdateLeadDetails(l, p)
    PROVE  IInv'
<1>1. TypeOK /\ LeadsNamed
  BY DEF IInv
<1>2. UNCHANGED Others
  BY DEF LogCallAttempt, UploadLead, UpdateLeadDetails
<1>3. /\ stage' \in [Lead -> Stage] /\ of' \in [Lead -> Person \cup {None}]
      /\ \A k \in Lead : stage[k] # "absent" => stage'[k] # "absent"
      /\ \A k \in Lead : stage'[k] # "absent" => of'[k] \in Person
  <2>1. ASSUME LogCallAttempt(l)
        PROVE  /\ stage' \in [Lead -> Stage] /\ of' \in [Lead -> Person \cup {None}]
               /\ \A k \in Lead : stage[k] # "absent" => stage'[k] # "absent"
               /\ \A k \in Lead : stage'[k] # "absent" => of'[k] \in Person
    BY <1>1, <2>1 DEF LogCallAttempt, TypeOK, LeadsNamed, Stage
  <2>2. ASSUME NEW p \in Person, UploadLead(l, p)
        PROVE  /\ stage' \in [Lead -> Stage] /\ of' \in [Lead -> Person \cup {None}]
               /\ \A k \in Lead : stage[k] # "absent" => stage'[k] # "absent"
               /\ \A k \in Lead : stage'[k] # "absent" => of'[k] \in Person
    BY <1>1, <2>2 DEF UploadLead, TypeOK, LeadsNamed, Stage
  <2>3. ASSUME NEW p \in Person, UpdateLeadDetails(l, p)
        PROVE  /\ stage' \in [Lead -> Stage] /\ of' \in [Lead -> Person \cup {None}]
               /\ \A k \in Lead : stage[k] # "absent" => stage'[k] # "absent"
               /\ \A k \in Lead : stage'[k] # "absent" => of'[k] \in Person
    BY <1>1, <2>3 DEF UpdateLeadDetails, TypeOK, LeadsNamed, Stage
  <2>4. CASE \E p \in Person : UploadLead(l, p) \/ UpdateLeadDetails(l, p)
    <3>1. PICK p \in Person : UploadLead(l, p) \/ UpdateLeadDetails(l, p)
      BY <2>4
    <3>2. CASE UploadLead(l, p)
      BY <2>2, <3>2
    <3>3. CASE UpdateLeadDetails(l, p)
      BY <2>3, <3>3
    <3> QED
      BY <3>1, <3>2, <3>3
  <2> QED
    BY <2>1, <2>4
<1>4. UNCHANGED people /\ link' = link /\ holder' = holder /\ req' = req /\ begun' = begun
  BY <1>2 DEF Others
<1>5. TypeOK'
  BY <1>1, <1>3, <1>4 DEF TypeOK, people
<1>6. Grows /\ (\A p \in Person : PersonInv(p)') /\ \A p \in Person : Snapshot(p)' = Snapshot(p)
  BY <1>3, <1>4, SamePeople
<1>7. LocksKept(None)
  BY <1>4, <1>6 DEF LocksKept
<1>8. \A q \in Request : (Names(q) /\ Found(q) /\ RowLocked(q))'
  <2>1. Request = Request \ {None}
    BY ApplicationsAssumption
  <2> QED
    BY <1>4, <1>6, <1>7, <2>1, OthersKept
<1>9. LeadsNamed'
  BY <1>1, <1>3, <1>4 DEF LeadsNamed, people
<1> QED
  BY <1>5, <1>6, <1>8, <1>9 DEF IInv

-----------------------------------------------------------------------------
(* The invariant                                                            *)

LEMMA InitInv == Init => IInv
<1> SUFFICES ASSUME Init
             PROVE  IInv
  OBVIOUS
<1>1. <<>> \in Seq(Status) /\ <<>> \in Seq({"live", "used"}) /\ DOMAIN <<>> = {}
  OBVIOUS
<1>2. TypeOK
  <2>1. req \in [Request -> ReqType]
    BY IdleType DEF Init
  <2>2. begun \in 0..MaxBegun
    BY ApplicationsAssumption DEF Init
  <2>3. user \in [Person -> UserState]
    BY ApplicationsAssumption DEF Init
  <2>4. /\ stage \in [Lead -> Stage] /\ of \in [Lead -> Person \cup {None}]
        /\ link \in [Lead -> Person \cup {None}] /\ holder \in [Person -> Request \cup {None}]
    BY ApplicationsAssumption DEF Init, Stage
  <2>5. /\ account \in [Person -> Account] /\ claimed \in [Person -> BOOLEAN]
        /\ apps \in [Person -> Seq(Status)] /\ invites \in [Person -> Seq({"live", "used"})]
        /\ setBy \in [Person -> Nat]
    BY <1>1 DEF Init, Account
  <2> QED
    BY <2>1, <2>2, <2>3, <2>4, <2>5 DEF TypeOK, ReqType
<1>3. \A r \in Request : Names(r) /\ Found(r) /\ RowLocked(r)
  BY DEF Init, Idle, Names, Found, RowLocked, PersonOp, LockOp
<1>4. LeadsNamed
  BY ApplicationsAssumption DEF Init, LeadsNamed
<1>5. \A p \in Person : PersonInv(p)
  BY <1>1 DEF Init, PersonInv, NothingBeforeAccount, AtMostOneOpen, HasCredential, ApprovedClaimed,
              OnlyLastLive
<1> QED
  BY <1>2, <1>3, <1>4, <1>5 DEF IInv

LEMMA StepInv == IInv /\ [Next]_vars => IInv'
<1> SUFFICES ASSUME IInv, [Next]_vars
             PROVE  IInv'
  OBVIOUS
<1>1. ASSUME NEW r \in Request, FormSteps(r) \/ StaffSteps(r) \/ PersonSteps(r) \/ LeadSteps(r)
      PROVE  IInv'
  <2>1. CASE FormSteps(r)
    BY <2>1, BeginInv, ReadInv, PersistInv DEF FormSteps
  <2>2. CASE StaffSteps(r)
    BY <2>2, BeginInv, ReadInv, ApproveInv, InviteInv, DecideInv DEF StaffSteps
  <2>3. CASE PersonSteps(r)
    BY <2>3, BeginInv, ReadInv, ActivateInv, SignInInv, LinkLeadInv DEF PersonSteps
  <2>4. CASE LeadSteps(r)
    BY <2>4, BeginInv, ReadInv, ConvertInv, InsertInv, LinkConvertedInv, StageInv DEF LeadSteps
  <2> QED
    BY <1>1, <2>1, <2>2, <2>3, <2>4
<1>2. ASSUME NEW r \in Request, Lock(r) \/ RequestFails(r)
      PROVE  IInv'
  BY <1>2, LockInv, FailInv
<1>3. ASSUME NEW l \in Lead,
             LogCallAttempt(l) \/ \E p \in Person : UploadLead(l, p) \/ UpdateLeadDetails(l, p)
      PROVE  IInv'
  BY <1>3, NoRequestInv
<1>4. CASE UNCHANGED vars
  <2>1. TypeOK'
    BY <1>4 DEF IInv, TypeOK, vars, people, leads
  <2>2. UNCHANGED <<people, leads, holder, req>>
    BY <1>4 DEF vars
  <2>3. Grows /\ (\A p \in Person : PersonInv(p)') /\ \A p \in Person : Snapshot(p)' = Snapshot(p)
    BY <2>2, SamePeople DEF leads
  <2>4. LocksKept(None)
    BY <2>2, <2>3 DEF LocksKept
  <2>5. \A q \in Request : (Names(q) /\ Found(q) /\ RowLocked(q))'
    <3>1. Request = Request \ {None}
      BY ApplicationsAssumption
    <3> QED
      BY <2>2, <2>3, <2>4, <3>1, OthersKept
  <2>6. LeadsNamed'
    BY <2>2 DEF IInv, LeadsNamed, leads, people
  <2> QED
    BY <2>1, <2>3, <2>5, <2>6 DEF IInv
<1> QED
  BY <1>1, <1>2, <1>3, <1>4 DEF Next

\* Every request is in a state its code can be in, knows the rows it has
\* locked, and finds what it has found.
THEOREM Invariance == Spec => []IInv
<1>1. Init => IInv
  BY InitInv
<1>2. IInv /\ [Next]_vars => IInv'
  BY StepInv
<1> QED
  BY <1>1, <1>2, PTL DEF Spec

-----------------------------------------------------------------------------
(* Theorems                                                                 *)

\* The variables have their types.
THEOREM TypeCorrect == Spec => []TypeOK
<1>1. IInv => TypeOK
  BY DEF IInv
<1> QED
  BY <1>1, Invariance, PTL

LEMMA OneAtMost ==
    ASSUME NEW S, \A a, b \in S : a = b
    PROVE  Cardinality(S) <= 1
<1>1. CASE S = {}
  BY <1>1, FS_EmptySet
<1>2. ASSUME NEW a \in S
      PROVE  Cardinality(S) = 1
  <2>1. S = {a}
    BY <1>2
  <2> QED
    BY <2>1, FS_Singleton
<1> QED
  BY <1>1, <1>2

\* Somebody who waits for access has one open application at most, however
\* many submissions and conversions overlap.
THEOREM OneOpenApplication == Spec => []PendingHasOneOpen
<1>1. IInv => PendingHasOneOpen
  <2> SUFFICES ASSUME IInv, NEW p \in Person, account[p] = "pending_access"
               PROVE  Cardinality({n \in DOMAIN apps[p] : apps[p][n] \in Open}) <= 1
    BY DEF PendingHasOneOpen
  <2>1. \A m, n \in {n \in DOMAIN apps[p] : apps[p][n] \in Open} : m = n
    BY DEF IInv, PersonInv, AtMostOneOpen
  <2> QED
    BY <2>1, OneAtMost
<1> QED
  BY <1>1, Invariance, PTL

\* An investor has one live invite at most, however many approvals and
\* regenerations overlap.
THEOREM OneInvite == Spec => []OneLiveInvite
<1>1. IInv => OneLiveInvite
  <2> SUFFICES ASSUME IInv, NEW p \in Person
               PROVE  Cardinality({n \in DOMAIN invites[p] : invites[p][n] = "live"}) <= 1
    BY DEF OneLiveInvite
  <2>1. \A m, n \in {n \in DOMAIN invites[p] : invites[p][n] = "live"} : m = n
    BY DEF IInv, PersonInv, OnlyLastLive
  <2> QED
    BY <2>1, OneAtMost
<1> QED
  BY <1>1, Invariance, PTL

\* Whoever has an approved application can be sent an invite that works.
THEOREM ApprovalGivesAccess == Spec => []ApprovedHasAccess
<1>1. IInv => ApprovedHasAccess
  BY DEF IInv, PersonInv, ApprovedClaimed, HasCredential, ApprovedHasAccess
<1> QED
  BY <1>1, Invariance, PTL

\* Which steps write passwords, and which write applications.
LEMMA Writers ==
    ASSUME [Next]_vars
    PROVE  /\ UNCHANGED setBy \/ \E r \in Request : Activate(r)
           /\ \/ UNCHANGED apps
              \/ \E r \in Request : \/ PersistApplication(r) \/ Approve(r) \/ AdoptOrphan(r)
                                    \/ CommitDecision(r) \/ CreateConverted(r)
                                    \/ InsertApplication(r)
<1>1. CASE UNCHANGED vars
  BY <1>1 DEF vars, people
<1>2. ASSUME NEW r \in Request, FormSteps(r)
      PROVE  UNCHANGED setBy /\ (UNCHANGED apps \/ PersistApplication(r))
  BY <1>2 DEF FormSteps, SubmitApplication, Begin, ReadLinkedLead, PersistApplication, people
<1>3. ASSUME NEW r \in Request, StaffSteps(r)
      PROVE  /\ UNCHANGED setBy
             /\ UNCHANGED apps \/ Approve(r) \/ AdoptOrphan(r) \/ CommitDecision(r)
  BY <1>3 DEF StaffSteps, ApproveAndInvite, RegenerateInvite, DecideApplication, Begin,
              ReadForApproval, Approve, FindOrphan, AdoptOrphan, CreateInvite, CommitDecision, people
<1>4. ASSUME NEW r \in Request, PersonSteps(r)
      PROVE  UNCHANGED apps /\ (UNCHANGED setBy \/ Activate(r))
  <2>1. CASE SetPasswordWithInvite(r) \/ EnsureInvestor(r) \/ FindLeads(r)
    BY <2>1 DEF SetPasswordWithInvite, EnsureInvestor, Begin, FindLeads, people
  <2>2. CASE ClaimInvestor(r) \/ CreateInvestor(r) \/ LinkLead(r)
    BY <2>2 DEF ClaimInvestor, CreateInvestor, LinkLead, people
  <2>3. CASE Activate(r)
    BY <2>3 DEF Activate
  <2> QED
    BY <1>4, <2>1, <2>2, <2>3 DEF PersonSteps
<1>5. ASSUME NEW r \in Request, LeadSteps(r)
      PROVE  UNCHANGED setBy /\ (UNCHANGED apps \/ CreateConverted(r) \/ InsertApplication(r))
  <2>1. CASE ConvertLead(r) \/ SetLeadStatus(r)
    BY <2>1 DEF ConvertLead, SetLeadStatus, Begin, people
  <2>2. CASE FindApplication(r) \/ LinkConverted(r) \/ WriteStage(r)
    BY <2>2 DEF FindApplication, LinkConverted, WriteStage, people
  <2>3. CASE CreateConverted(r) \/ InsertApplication(r)
    BY <2>3 DEF CreateConverted, InsertApplication
  <2> QED
    BY <1>5, <2>1, <2>2, <2>3 DEF LeadSteps
<1>6. ASSUME NEW r \in Request, Lock(r) \/ RequestFails(r)
      PROVE  UNCHANGED <<setBy, apps>>
  BY <1>6 DEF Lock, RequestFails, people
<1>7. ASSUME NEW l \in Lead,
             LogCallAttempt(l) \/ \E p \in Person : UploadLead(l, p) \/ UpdateLeadDetails(l, p)
      PROVE  UNCHANGED <<setBy, apps>>
  BY <1>7 DEF LogCallAttempt, UploadLead, UpdateLeadDetails, Others, people
<1>8. CASE \E r \in Request : FormSteps(r) \/ StaffSteps(r) \/ PersonSteps(r) \/ LeadSteps(r)
                                \/ Lock(r) \/ RequestFails(r)
  <2>1. PICK r \in Request : FormSteps(r) \/ StaffSteps(r) \/ PersonSteps(r) \/ LeadSteps(r)
                               \/ Lock(r) \/ RequestFails(r)
    BY <1>8
  <2> QED
    BY <1>2, <1>3, <1>4, <1>5, <1>6, <2>1
<1>9. CASE \E l \in Lead : LogCallAttempt(l)
                             \/ \E p \in Person : UploadLead(l, p) \/ UpdateLeadDetails(l, p)
  <2>1. UNCHANGED <<setBy, apps>>
    BY <1>7, <1>9
  <2> QED
    BY <2>1
<1> QED
  BY <1>1, <1>8, <1>9 DEF Next

\* What is known when a password is about to be set.
LEMMA AtActivation ==
    ASSUME IInv, NEW r \in Request, Activate(r)
    PROVE  /\ req[r].p \in Person /\ req[r].n \in DOMAIN invites[req[r].p]
           /\ setBy' = [setBy EXCEPT ![req[r].p] = req[r].n] /\ setBy[req[r].p] = 0
           /\ invites[req[r].p][req[r].n] = "live" /\ setBy \in [Person -> Nat]
<1>1. req[r].at = "locked" /\ req[r].op = "password" /\ Names(r)
  BY DEF Activate, Is, IInv
<1>2. req[r].p \in Person /\ req[r].seen.invites = invites[req[r].p]
  BY <1>1, LockedFacts
<1> QED
  BY <1>1, <1>2 DEF Activate, Names, StillLive, NotActivated, IInv, TypeOK

\* No invite sets a password where one has set one before.
THEOREM PasswordIsSetOnce == Spec => PasswordSetOnce
<1>1. IInv /\ [Next]_vars => [\A p \in Person : setBy[p] # 0 => setBy'[p] = setBy[p]]_vars
  <2> SUFFICES ASSUME IInv, [Next]_vars, NEW p \in Person, setBy[p] # 0
               PROVE  setBy'[p] = setBy[p]
    OBVIOUS
  <2>1. CASE UNCHANGED setBy
    BY <2>1
  <2>2. ASSUME NEW r \in Request, Activate(r)
        PROVE  setBy'[p] = setBy[p]
    BY <2>2, AtActivation
  <2> QED
    BY <2>1, <2>2, Writers
<1> QED
  BY <1>1, Invariance, PTL DEF Spec, PasswordSetOnce

\* Only the newest invite activates an account: the one that a regeneration
\* replaces, before or while it is used, does not.
THEOREM NewestActivates == Spec => NewestInviteActivates
<1>1. IInv /\ [Next]_vars =>
        [\A p \in Person : setBy'[p] # setBy[p] =>
            setBy'[p] = Len(invites[p]) /\ invites[p][Len(invites[p])] = "live"]_vars
  <2> SUFFICES ASSUME IInv, [Next]_vars, NEW p \in Person, setBy'[p] # setBy[p]
               PROVE  setBy'[p] = Len(invites[p]) /\ invites[p][Len(invites[p])] = "live"
    OBVIOUS
  <2>1. PICK r \in Request : Activate(r)
    BY Writers
  <2>2. /\ p = req[r].p /\ setBy'[p] = req[r].n
        /\ req[r].n \in DOMAIN invites[p] /\ invites[p][req[r].n] = "live"
    BY <2>1, AtActivation
  <2>3. OnlyLastLive(p)
    BY DEF IInv, PersonInv
  <2>4. req[r].n = Len(invites[p])
    BY <2>2, <2>3 DEF OnlyLastLive
  <2> QED
    BY <2>2, <2>4
<1> QED
  BY <1>1, Invariance, PTL DEF Spec, NewestInviteActivates

\* No decision, submission or conversion takes an approval back, however old
\* the page was that it was made on.
THEOREM ApprovalIsFinal == Spec => ApprovalStands
<1>1. IInv /\ [Next]_vars =>
        [\A p \in Person : \A n \in DOMAIN apps[p] :
            apps[p][n] = "approved" => apps'[p][n] = "approved"]_vars
  <2> SUFFICES ASSUME IInv, [Next]_vars, NEW p \in Person, NEW n \in DOMAIN apps[p],
                      apps[p][n] = "approved"
               PROVE  apps'[p][n] = "approved"
    OBVIOUS
  <2>1. CASE UNCHANGED apps
    BY <2>1
  <2>2. apps \in [Person -> Seq(Status)] /\ apps[p] \in Seq(Status)
    BY DEF IInv, TypeOK
  <2>3. ASSUME NEW r \in Request,
               PersistApplication(r) \/ CreateConverted(r) \/ InsertApplication(r)
        PROVE  apps'[p][n] = "approved"
    <3>1. apps' = [apps EXCEPT ![req[r].p] = Append(@, "submitted")]
      BY <2>3 DEF PersistApplication, CreateConverted, InsertApplication
    <3>2. apps'[p] = apps[p] \/ apps'[p] = Append(apps[p], "submitted")
      BY <2>2, <3>1
    <3>3. "submitted" \in Status
      BY DEF Status
    <3> QED
      BY <2>2, <3>2, <3>3, AppendSeq
  <2>4. ASSUME NEW r \in Request, Approve(r) \/ AdoptOrphan(r)
        PROVE  apps'[p][n] = "approved"
    <3>1. apps' = [apps EXCEPT ![req[r].p][req[r].n] = "approved"]
      BY <2>4 DEF Approve, AdoptOrphan, LinkAndApprove
    <3>2. apps'[p] = apps[p] \/ apps'[p] = [apps[p] EXCEPT ![req[r].n] = "approved"]
      BY <2>2, <3>1
    <3> QED
      BY <2>2, <3>2
  <2>5. ASSUME NEW r \in Request, CommitDecision(r)
        PROVE  apps'[p][n] = "approved"
    <3>1. req[r].at = "locked"
      BY <2>5 DEF CommitDecision, Is
    <3>2. req[r].p \in Person /\ req[r].seen.apps = apps[req[r].p]
      BY <3>1, LockedFacts
    <3> DEFINE m == Len(req[r].seen.apps)
    <3>3. apps' = [apps EXCEPT ![req[r].p][m] = req[r].to] /\ apps[req[r].p][m] \in Open
      BY <2>5, <3>2 DEF CommitDecision, Decidable
    <3> HIDE DEF m
    <3>4. apps'[p] = IF p = req[r].p THEN [apps[p] EXCEPT ![m] = req[r].to] ELSE apps[p]
      BY <2>2, <3>3
    <3>5. p = req[r].p => n # m
      BY <3>3 DEF Open
    <3> QED
      BY <2>2, <3>4, <3>5
  <2> QED
    BY <2>1, <2>3, <2>4, <2>5, Writers
<1> QED
  BY <1>1, Invariance, PTL DEF Spec, ApprovalStands

================================================================================
