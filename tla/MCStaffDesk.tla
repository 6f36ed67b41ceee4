----------------------------- MODULE MCStaffDesk -----------------------------
(* One person of each role; two leads in different hands, one of them a      *)
(* client's; an investor before and after the approval.                     *)
EXTENDS StaffDesk, TLC
CONSTANTS super, ib, agent, l1, l2, i1
TeamMC == agent :> ib
Fresh == [ib |-> ib, agent |-> agent, status |-> "new", touched |-> 0, investor |-> None]
Converted == [Fresh EXCEPT !.status = "converted", !.investor = i1]
Applicant ==
    [ib |-> ib, agent |-> agent, account |-> "pending_access", user |-> FALSE,
     app |-> "submitted", kyc |-> "not_started", ask |-> "none"]
Client == [Applicant EXCEPT !.account = "active", !.user = TRUE, !.app = "approved",
                            !.kyc = "under_review"]
StartMC ==
    { [lead |-> l1 :> Fresh @@ l2 :> Fresh, investor |-> i1 :> Applicant],
      [lead |-> l1 :> Fresh @@ l2 :> Fresh, investor |-> i1 :> Client],
      [lead |-> l1 :> Converted @@ l2 :> Fresh, investor |-> i1 :> Client] }
=============================================================================
