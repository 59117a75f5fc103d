----------------------- MODULE OperationApprovalProofs -----------------------
(***************************************************************************)
(* What holds of a client approval for every number of links and of        *)
(* concurrent requests, and wherever a handler dies.                       *)
(***************************************************************************)
EXTENDS OperationApproval, FiniteSetTheorems, TLAPS

\* A request that is about to save an answer holds the token of a link, and
\* has confirmed the operation when the answer is an approval.
Saving ==
    \A r \in Reqs :
        /\ reqs[r].pc \in {"answer", "save", "expire"} => reqs[r].token \in Tokens
        /\ reqs[r].pc = "save" /\ reqs[r].decision = "APPROVED" => reqs[r].token \in confirmedBy

IInv == TypeOK /\ Saving /\ ApprovedConfirmed

LEMMA InitHolds == Init => IInv
  BY ApprovalAssumption DEF Init, IInv, TypeOK, Saving, ApprovedConfirmed, Statuses, Approval,
     ApprovalStatuses, Decisions, Request, Idle

\* A request to which an answer was given, in time or too late.
LEMMA LateAnswer ==
  ASSUME TypeOK, NEW r \in Reqs, NEW t \in Tokens
  PROVE  [reqs[r] EXCEPT !.pc = "expire", !.token = t] \in Request
<1>1. reqs[r] \in Request
  BY DEF TypeOK
<1> QED BY <1>1 DEF Request

LEMMA GivenAnswer ==
  ASSUME TypeOK, NEW r \in Reqs, NEW t \in Tokens, NEW d \in Decisions
  PROVE  [reqs[r] EXCEPT !.pc = "answer", !.token = t, !.decision = d] \in Request
<1>1. reqs[r] \in Request
  BY DEF TypeOK
<1> QED BY <1>1 DEF Request

\* Requests that go idle, or to a step without a token, keep Saving.
LEMMA NextHolds == IInv /\ [Next]_vars => IInv'
<1> SUFFICES ASSUME IInv, [Next]_vars PROVE IInv'
  OBVIOUS
<1> USE ApprovalAssumption
<1> USE DEF IInv, TypeOK, Statuses, Approval, ApprovalStatuses, Decisions, Request, Idle
<1>1. ASSUME NEW r \in Reqs,
             \/ ApprovalRequested(r) \/ ConfirmRead(r) \/ StartRead(r) \/ Crash(r)
             \/ Decline(r)
      PROVE IInv'
  <2>1. TypeOK'
    BY <1>1, SMTT(60) DEF ApprovalRequested, ConfirmRead, StartRead, Crash, Decline, Goto, Return
  <2>2. Saving'
    BY <1>1, SMTT(60) DEF ApprovalRequested, ConfirmRead, StartRead, Crash, Decline, Goto, Return,
       Saving
  <2>3. ApprovedConfirmed'
    BY <1>1 DEF ApprovalRequested, ConfirmRead, StartRead, Crash, Decline, ApprovedConfirmed
  <2> QED BY <2>1, <2>2, <2>3
<1>2. ASSUME NEW r \in Reqs, PickPending(r) PROVE IInv'
  <2>1. [reqs[r] EXCEPT !.pc = "issue", !.picked = Pending] \in Request
    BY DEF Pending
  <2>2. TypeOK'
    BY <1>2, <2>1 DEF PickPending
  <2>3. Saving' /\ ApprovedConfirmed'
    BY <1>2 DEF PickPending, Saving, ApprovedConfirmed
  <2> QED BY <2>2, <2>3
<1>3. ASSUME NEW r \in Reqs, Issue(r) PROVE IInv'
  <2>1. PICK t \in Tokens :
            approvals' = [u \in Tokens |->
                IF u = t THEN [approvals[u] EXCEPT !.status = "PENDING"]
                ELSE IF u \in reqs[r].picked \cap Pending
                     THEN [approvals[u] EXCEPT !.status = "EXPIRED"]
                ELSE approvals[u]]
    BY <1>3 DEF Issue
  <2>2. TypeOK'
    BY <1>3, <2>1 DEF Issue, Return
  <2>3. Saving'
    BY <1>3 DEF Issue, Return, Saving
  <2>4. ASSUME NEW u \in Tokens, approvals'[u].status = "APPROVED" PROVE u \in confirmedBy'
    <3>1. approvals[u].status = "APPROVED"
      BY <2>1, <2>4
    <3> QED BY <3>1, <1>3 DEF Issue, ApprovedConfirmed
  <2> QED BY <2>2, <2>3, <2>4 DEF ApprovedConfirmed
<1>4. ASSUME NEW r \in Reqs, Approve(r) PROVE IInv'
  <2>1. TypeOK' /\ Saving'
    BY <1>4 DEF Approve, ConfirmedTransition, Goto, Saving
  <2>2. ApprovedConfirmed'
    BY <1>4 DEF Approve, ConfirmedTransition, ApprovedConfirmed
  <2> QED BY <2>1, <2>2
<1>5. ASSUME NEW r \in Reqs, SaveAnswer(r) PROVE IInv'
  <2>1. reqs[r].token \in Tokens
    BY <1>5 DEF SaveAnswer, Saving
  <2>2. TypeOK' /\ Saving'
    BY <1>5, <2>1 DEF SaveAnswer, Return, Saving
  <2>3. ASSUME NEW u \in Tokens, approvals'[u].status = "APPROVED" PROVE u \in confirmedBy'
    <3>1. CASE u = reqs[r].token
      BY <3>1, <2>1, <2>3, <1>5 DEF SaveAnswer, Saving
    <3>2. CASE u # reqs[r].token
      BY <3>2, <2>3, <1>5 DEF SaveAnswer, ApprovedConfirmed
    <3> QED BY <3>1, <3>2
  <2> QED BY <2>2, <2>3 DEF ApprovedConfirmed
<1>6. ASSUME NEW r \in Reqs, MarkExpired(r) PROVE IInv'
  <2>1. reqs[r].token \in Tokens
    BY <1>6 DEF MarkExpired, Saving
  <2>2. TypeOK' /\ Saving'
    BY <1>6, <2>1 DEF MarkExpired, Return, Saving
  <2>3. ApprovedConfirmed'
    BY <1>6, <2>1 DEF MarkExpired, ApprovedConfirmed
  <2> QED BY <2>2, <2>3
<1>7. ASSUME NEW r \in Reqs, ConfirmWrite(r) \/ StartWrite(r) PROVE IInv'
  <2>1. TypeOK' /\ Saving'
    BY <1>7 DEF ConfirmWrite, StartWrite, ConfirmedTransition, Return, Saving
  <2>2. ApprovedConfirmed'
    BY <1>7 DEF ConfirmWrite, StartWrite, ConfirmedTransition, ApprovedConfirmed
  <2> QED BY <2>1, <2>2
<1>8. ASSUME NEW r \in Reqs, NEW t \in Tokens, AnswerLate(r, t) PROVE IInv'
  <2>1. [reqs[r] EXCEPT !.pc = "expire", !.token = t] \in Request
    <3> HIDE DEF TypeOK, Request, Decisions
    <3> QED BY LateAnswer
  <2>2. TypeOK' /\ Saving'
    BY <1>8, <2>1 DEF AnswerLate, Saving
  <2>3. ApprovedConfirmed'
    BY <1>8 DEF AnswerLate, ApprovedConfirmed
  <2> QED BY <2>2, <2>3
<1>9. ASSUME NEW r \in Reqs, NEW t \in Tokens, NEW d \in Decisions, Answer(r, t, d) PROVE IInv'
  <2>1. [reqs[r] EXCEPT !.pc = "answer", !.token = t, !.decision = d] \in Request
    <3> HIDE DEF TypeOK, Request, Decisions
    <3> QED BY GivenAnswer
  <2>2. TypeOK' /\ Saving'
    BY <1>9, <2>1 DEF Answer, Saving
  <2>3. ApprovedConfirmed'
    BY <1>9 DEF Answer, ApprovedConfirmed
  <2> QED BY <2>2, <2>3
<1>10. ASSUME NEW t \in Tokens, LinkLapses(t) PROVE IInv'
  <2>1. approvals' \in [Tokens -> Approval]
    BY ZenonT(60), <1>10 DEF LinkLapses
  <2>2. TypeOK' /\ Saving'
    BY <1>10, <2>1 DEF LinkLapses, Saving
  <2>3. ApprovedConfirmed'
    BY <1>10 DEF LinkLapses, ApprovedConfirmed
  <2> QED BY <2>2, <2>3
<1>11. CASE OperationSettles \/ PlanChanges
  BY <1>11 DEF OperationSettles, PlanChanges, Saving, ApprovedConfirmed
<1>12. CASE UNCHANGED vars
  BY <1>12 DEF vars, Saving, ApprovedConfirmed, Pending
<1> QED
  BY <1>1, <1>2, <1>3, <1>4, <1>5, <1>6, <1>7, <1>8, <1>9, <1>10, <1>11, <1>12 DEF Next

LEMMA IInvHolds == Spec => []IInv
  BY InitHolds, NextHolds, PTL DEF Spec

\* The rows, requests and histories always have the types the code gives them.
THEOREM ApprovalTypes == Spec => []TypeOK
  BY IInvHolds, PTL DEF IInv

\* A client told "you approved this change" did confirm the operation: with
\* any number of links and requests, and when handlers die between two steps.
THEOREM ApprovalsAreConfirmed == Spec => []ApprovedConfirmed
  BY IInvHolds, PTL DEF IInv
-----------------------------------------------------------------------------
(***************************************************************************)
(* Requests handled one at a time.                                         *)
(***************************************************************************)
OneRequest == \A r, s \in Reqs : r = s

\* What a handler read is still true when it writes: nobody else writes.
StillTrue ==
    \A r \in Reqs :
        /\ reqs[r].pc \in {"request", "issue", "confirm", "answer"} => status = "DRY_RUN_PASSED"
        /\ reqs[r].pc = "start" => status = "CONFIRMED"
        /\ reqs[r].pc = "issue" => reqs[r].picked = Pending
        /\ reqs[r].pc \in {"answer", "save", "expire"} => approvals[reqs[r].token].status = "PENDING"
        /\ reqs[r].pc = "expire" => approvals[reqs[r].token].overdue

\* One link is open, and whoever confirmed was alone.
OneParty ==
    /\ \A t, u \in Pending : t = u
    /\ status = "DRY_RUN_PASSED" => confirmedBy = {}
    /\ status # "DRY_RUN_PASSED" => \E w \in Tokens \cup {Member} : confirmedBy = {w}

AloneInv == IInv /\ StillTrue /\ OneParty

LEMMA AloneInit == Init => AloneInv
  BY InitHolds, ApprovalAssumption DEF Init, AloneInv, StillTrue, OneParty, Pending, Idle, Approval

\* Only Issue, MarkExpired and SaveAnswer change what a link says.
LEMMA AloneNext == ASSUME OneRequest PROVE AloneInv /\ [Next]_vars => AloneInv'
<1> SUFFICES ASSUME AloneInv, [Next]_vars PROVE AloneInv'
  OBVIOUS
<1>0. IInv'
  BY NextHolds DEF AloneInv
<1>t. TypeOK /\ TypeOK' /\ Saving
  BY <1>0 DEF AloneInv, IInv
<1> USE DEF OneRequest
<1>1. ASSUME NEW r \in Reqs,
             ApprovalRequested(r) \/ ConfirmRead(r) \/ StartRead(r) \/ Crash(r) \/ Decline(r)
      PROVE StillTrue' /\ OneParty'
  <2>1. UNCHANGED <<status, confirmedBy, approvals>>
    BY <1>1 DEF ApprovalRequested, ConfirmRead, StartRead, Crash, Decline
  <2>2. StillTrue'
    BY <1>1, <2>1, <1>t DEF AloneInv, StillTrue, ApprovalRequested, ConfirmRead, StartRead, Crash, Decline,
       Goto, Return, Idle, Pending, TypeOK, Request
  <2>3. OneParty'
    BY <2>1 DEF AloneInv, OneParty, Pending
  <2> QED BY <2>2, <2>3
<1>2. ASSUME NEW r \in Reqs, PickPending(r) PROVE StillTrue' /\ OneParty'
  <2>1. UNCHANGED <<status, confirmedBy, approvals>> /\ Pending' = Pending
    BY <1>2 DEF PickPending, Pending
  <2>2. reqs'[r] = [reqs[r] EXCEPT !.pc = "issue", !.picked = Pending]
    BY <1>2, <1>t DEF PickPending, TypeOK
  <2>3. reqs'[r].pc = "issue" /\ reqs'[r].picked = Pending /\ status = "DRY_RUN_PASSED"
    BY <2>2, <1>2, <1>t DEF PickPending, TypeOK, Request, AloneInv, StillTrue
  <2>4. StillTrue'
    BY <2>1, <2>3 DEF StillTrue
  <2>5. OneParty'
    BY <2>1 DEF AloneInv, OneParty
  <2> QED BY <2>4, <2>5
<1>3. ASSUME NEW r \in Reqs, Issue(r) PROVE StillTrue' /\ OneParty'
  <2>1. PICK t \in Tokens :
            /\ approvals[t].status = "NONE"
            /\ approvals' = [u \in Tokens |->
                  IF u = t THEN [approvals[u] EXCEPT !.status = "PENDING"]
                  ELSE IF u \in reqs[r].picked \cap Pending
                       THEN [approvals[u] EXCEPT !.status = "EXPIRED"]
                  ELSE approvals[u]]
    BY <1>3 DEF Issue
  <2>2. reqs[r].picked = Pending
    BY <1>3 DEF Issue, AloneInv, StillTrue
  <2>3. \A u \in Tokens : u # t => approvals'[u].status # "PENDING"
    BY <2>1, <2>2, <1>t DEF Pending, TypeOK, Approval
  <2>4. OneParty'
    BY <2>3, <1>3 DEF Issue, AloneInv, OneParty, Pending
  <2>5. \A s \in Reqs : reqs'[s].pc = "idle"
    BY <1>3, <1>t DEF Issue, Return, Idle, TypeOK
  <2> QED BY <2>4, <2>5 DEF StillTrue
<1>4. ASSUME NEW r \in Reqs, Approve(r) PROVE StillTrue' /\ OneParty'
  <2>1. reqs[r].token \in Tokens /\ status = "DRY_RUN_PASSED" /\ approvals[reqs[r].token].status = "PENDING"
    BY <1>4, <1>t DEF Approve, AloneInv, StillTrue, Saving
  <2>2. confirmedBy' = {reqs[r].token} /\ status' = "CONFIRMED"
    BY <2>1, <1>4 DEF Approve, ConfirmedTransition, AloneInv, OneParty
  <2>3. OneParty'
    BY <2>1, <2>2, <1>4 DEF Approve, AloneInv, OneParty, Pending
  <2>4. StillTrue'
    BY <2>1, <1>4, <1>t DEF Approve, Goto, StillTrue, TypeOK, Request
  <2> QED BY <2>3, <2>4
<1>5. ASSUME NEW r \in Reqs, SaveAnswer(r) \/ MarkExpired(r) PROVE StillTrue' /\ OneParty'
  <2>1. reqs[r].token \in Tokens /\ UNCHANGED <<status, confirmedBy>>
    BY <1>5, <1>t DEF SaveAnswer, MarkExpired, Saving
  <2>2. \A s \in Reqs : reqs'[s].pc = "idle"
    BY <1>5, <1>t DEF SaveAnswer, MarkExpired, Return, Idle, TypeOK
  <2>3. Pending' \subseteq Pending
    <3>1. \A u \in Tokens : u # reqs[r].token => approvals'[u] = approvals[u]
      BY <1>5, <1>t DEF SaveAnswer, MarkExpired, TypeOK
    <3>2. approvals'[reqs[r].token].status # "PENDING"
      BY <1>5, <2>1, <1>t DEF SaveAnswer, MarkExpired, TypeOK, Request, Decisions, Approval
    <3> QED BY <3>1, <3>2 DEF Pending
  <2>4. OneParty'
    BY <2>1, <2>3 DEF AloneInv, OneParty
  <2> QED BY <2>2, <2>4 DEF StillTrue
<1>6. ASSUME NEW r \in Reqs, ConfirmWrite(r) \/ StartWrite(r) PROVE StillTrue' /\ OneParty'
  <2>1. \A s \in Reqs : reqs'[s].pc = "idle"
    BY <1>6, <1>t DEF ConfirmWrite, StartWrite, Return, Idle, TypeOK
  <2>2. OneParty'
    BY <1>6 DEF ConfirmWrite, StartWrite, ConfirmedTransition, AloneInv, StillTrue, OneParty, Pending
  <2> QED BY <2>1, <2>2 DEF StillTrue
<1>7. ASSUME NEW r \in Reqs, NEW t \in Tokens, AnswerLate(r, t) \/ \E d \in Decisions : Answer(r, t, d)
      PROVE StillTrue' /\ OneParty'
  <2>1. UNCHANGED <<status, confirmedBy, approvals>> /\ approvals[t].status = "PENDING"
    BY <1>7 DEF AnswerLate, Answer
  <2>2. /\ reqs'[r].token = t
        /\ \/ reqs'[r].pc = "expire" /\ approvals[t].overdue
           \/ reqs'[r].pc = "answer" /\ status = "DRY_RUN_PASSED"
    <3>1. CASE AnswerLate(r, t)
      <4>1. reqs'[r] = [reqs[r] EXCEPT !.pc = "expire", !.token = t]
        BY <3>1, <1>t DEF AnswerLate, TypeOK
      <4> QED BY <4>1, <3>1, <1>t DEF AnswerLate, TypeOK, Request
    <3>2. ASSUME NEW d \in Decisions, Answer(r, t, d)
          PROVE reqs'[r].token = t /\ reqs'[r].pc = "answer" /\ status = "DRY_RUN_PASSED"
      <4>1. reqs'[r] = [reqs[r] EXCEPT !.pc = "answer", !.token = t, !.decision = d]
        BY <3>2, <1>t DEF Answer, TypeOK
      <4> QED BY <4>1, <3>2, <1>t DEF Answer, TypeOK, Request
    <3> QED BY <1>7, <3>1, <3>2
  <2>3. StillTrue'
    BY <2>1, <2>2 DEF StillTrue
  <2>4. OneParty'
    BY <2>1 DEF AloneInv, OneParty, Pending
  <2> QED BY <2>3, <2>4
<1>8. ASSUME NEW t \in Tokens, LinkLapses(t) PROVE StillTrue' /\ OneParty'
  <2>1. \A u \in Tokens : /\ approvals'[u].status = approvals[u].status
                          /\ approvals[u].overdue => approvals'[u].overdue
    BY <1>8, <1>t DEF LinkLapses, TypeOK, Approval
  <2>2. Pending' = Pending
    BY <2>1 DEF Pending
  <2>3. StillTrue'
    BY <1>8, <2>1, <2>2, <1>t DEF LinkLapses, AloneInv, StillTrue, Saving
  <2>4. OneParty'
    BY <1>8, <2>2 DEF LinkLapses, AloneInv, OneParty
  <2> QED BY <2>3, <2>4
<1>9. ASSUME OperationSettles \/ PlanChanges \/ UNCHANGED vars PROVE StillTrue' /\ OneParty'
  <2>1. UNCHANGED <<approvals, reqs, confirmedBy>> /\ Pending' = Pending
    BY <1>9 DEF OperationSettles, PlanChanges, vars, Pending
  <2>2. StillTrue'
    BY <1>9, <2>1, <1>t DEF OperationSettles, PlanChanges, vars, AloneInv, StillTrue
  <2>3. OneParty'
    BY <1>9, <2>1 DEF OperationSettles, PlanChanges, vars, AloneInv, OneParty
  <2> QED BY <2>2, <2>3
<1>10. StillTrue' /\ OneParty'
  BY <1>1, <1>2, <1>3, <1>4, <1>5, <1>6, <1>7, <1>8, <1>9 DEF Next
<1> QED
  BY <1>0, <1>10 DEF AloneInv

LEMMA AloneHolds == ASSUME OneRequest PROVE Spec => []AloneInv
  BY AloneInit, AloneNext, PTL DEF Spec

LEMMA OneIsCounted == ASSUME NEW S, \A t, u \in S : t = u PROVE Cardinality(S) <= 1
<1>1. CASE S = {}
  <2>1. Cardinality(S) = 0
    BY <1>1, FS_EmptySet
  <2> QED BY <2>1
<1>2. ASSUME NEW t \in S PROVE Cardinality(S) <= 1
  <2>1. S = {t}
    BY <1>2
  <2>2. Cardinality({t}) = 1
    BY FS_Singleton
  <2> QED BY <2>1, <2>2
<1> QED BY <1>1, <1>2

\* Requests one at a time: only the last link can be answered, nobody decides
\* what another decided, and a row that was answered or expired stays as it is.
THEOREM OneDecidesAlone == ASSUME OneRequest PROVE Spec => OneDecides
<1>1. AloneInv => OnePending
  BY OneIsCounted DEF AloneInv, OneParty, OnePending
<1>2. AloneInv /\ AloneInv' /\ [Next]_vars =>
          [/\ Cardinality(confirmedBy') <= 1
           /\ status \in {"RUNNING", "SETTLED"} => status' # "CONFIRMED"]_vars
  <2> SUFFICES ASSUME AloneInv, AloneInv', Next
               PROVE /\ Cardinality(confirmedBy') <= 1
                     /\ status \in {"RUNNING", "SETTLED"} => status' # "CONFIRMED"
    OBVIOUS
  <2>1. Cardinality(confirmedBy') <= 1
    <3>1. \A w, x \in confirmedBy' : w = x
      BY DEF AloneInv, OneParty
    <3> QED BY <3>1, OneIsCounted
  <2>2. status \in {"RUNNING", "SETTLED"} => status' # "CONFIRMED"
    BY DEF Next, AloneInv, StillTrue, ApprovalRequested, PickPending, Issue, Approve, Decline, SaveAnswer,
       ConfirmRead, ConfirmWrite, StartRead, StartWrite, Crash, MarkExpired, AnswerLate, Answer, LinkLapses,
       OperationSettles, PlanChanges, ConfirmedTransition
  <2> QED BY <2>1, <2>2
<1>3. AloneInv /\ [Next]_vars =>
          [\A t \in Tokens : approvals[t].status \in Decisions \cup {"EXPIRED"}
                                 => approvals'[t].status = approvals[t].status]_vars
  <2> SUFFICES ASSUME AloneInv, Next, NEW t \in Tokens, approvals[t].status \in Decisions \cup {"EXPIRED"}
               PROVE approvals'[t].status = approvals[t].status
    OBVIOUS
  <2>t. TypeOK /\ Saving
    BY DEF AloneInv, IInv
  <2>1. ASSUME NEW r \in Reqs, Issue(r) PROVE approvals'[t].status = approvals[t].status
    BY <2>1, <2>t DEF Issue, TypeOK, Pending, Decisions
  <2>2. ASSUME NEW r \in Reqs, SaveAnswer(r) \/ MarkExpired(r) PROVE approvals'[t].status = approvals[t].status
    <3>1. reqs[r].token # t
      BY <2>2 DEF AloneInv, StillTrue, SaveAnswer, MarkExpired, Decisions
    <3> QED BY <3>1, <2>2, <2>t DEF SaveAnswer, MarkExpired, TypeOK
  <2>3. ASSUME NEW u \in Tokens, LinkLapses(u) PROVE approvals'[t].status = approvals[t].status
    BY <2>3, <2>t DEF LinkLapses, TypeOK, Approval
  <2>4. CASE UNCHANGED approvals
    BY <2>4
  <2> QED
    BY <2>1, <2>2, <2>3, <2>4 DEF Next, ApprovalRequested, PickPending, Approve, Decline, ConfirmRead,
       ConfirmWrite, StartRead, StartWrite, Crash, AnswerLate, Answer, OperationSettles, PlanChanges
<1> QED
  BY <1>1, <1>2, <1>3, AloneHolds, PTL DEF Spec, OneDecides, ConfirmedOnce, FinalAnswer
-----------------------------------------------------------------------------
(***************************************************************************)
(* The links as the in-memory repository sees them, with the rows and the  *)
(* requests they are read from as parameters.                              *)
(***************************************************************************)
LinkOf(rows, requests, t) ==
    [status |-> IF \E r \in Reqs : requests[r].pc = "save" /\ requests[r].token = t
                                   /\ requests[r].decision = "APPROVED" THEN "APPROVED"
                ELSE IF \E r \in Reqs : requests[r].pc = "save" /\ requests[r].token = t
                                        /\ requests[r].decision = "DECLINED" THEN "DECLINED"
                ELSE rows[t].status,
     overdue |-> IF \E r \in Reqs : requests[r].pc \in {"answer", "save"} /\ requests[r].token = t
                 THEN FALSE ELSE rows[t].overdue]

Quiet(request, t) == request.pc \notin {"answer", "save"} \/ request.token # t

LEMMA Unanswered ==
  ASSUME NEW rows, NEW requests, NEW t, rows[t] \in Approval, \A r \in Reqs : Quiet(requests[r], t)
  PROVE  LinkOf(rows, requests, t) = rows[t]
  BY DEF LinkOf, Quiet, Approval

LEMMA BeingAnswered ==
  ASSUME OneRequest, NEW rows, NEW requests, NEW r \in Reqs, requests[r].pc = "answer"
  PROVE  LinkOf(rows, requests, requests[r].token)
             = [status |-> rows[requests[r].token].status, overdue |-> FALSE]
  BY DEF LinkOf, OneRequest

LEMMA BeingSaved ==
  ASSUME OneRequest, NEW rows, NEW requests, NEW r \in Reqs, requests[r].pc = "save",
         requests[r].decision \in Decisions
  PROVE  LinkOf(rows, requests, requests[r].token) = [status |-> requests[r].decision, overdue |-> FALSE]
  BY DEF LinkOf, OneRequest, Decisions

LEMMA LinksAre ==
  /\ [t \in Tokens |-> Link(t)] = [t \in Tokens |-> LinkOf(approvals, reqs, t)]
  /\ [t \in Tokens |-> Link(t)]' = [t \in Tokens |-> LinkOf(approvals', reqs', t)]
  BY DEF Link, LinkOf, Acted, Answering

\* How one link differs from the same link a step earlier.
LEMMA LinkAnswered ==
  ASSUME NEW L, NEW M, NEW t \in Tokens, NEW d,
         L = [u \in Tokens |-> L[u]], M = [u \in Tokens |-> M[u]],
         L[t] = [status |-> "PENDING", overdue |-> FALSE],
         M[t] = [status |-> d, overdue |-> FALSE],
         \A u \in Tokens \ {t} : M[u] = L[u]
  PROVE  M = [L EXCEPT ![t].status = d]
<1>1. [L[t] EXCEPT !.status = d] = M[t]
  <2>1. \A b \in BOOLEAN :
            [[status |-> "PENDING", overdue |-> b] EXCEPT !.status = d] = [status |-> d, overdue |-> b]
    OBVIOUS
  <2> QED BY <2>1
<1>2. M = [u \in Tokens |-> IF u = t THEN [L[t] EXCEPT !.status = d] ELSE L[u]]
  BY <1>1
<1> QED
  BY <1>2

Overdue(L, t) == [L EXCEPT ![t].overdue = TRUE]

LEMMA LinkOverdue ==
  ASSUME NEW L, NEW M, NEW t \in Tokens, NEW d,
         L = [u \in Tokens |-> L[u]], M = [u \in Tokens |-> M[u]],
         L[t] = [status |-> d, overdue |-> FALSE],
         M[t] = [status |-> d, overdue |-> TRUE],
         \A u \in Tokens \ {t} : M[u] = L[u]
  PROVE  M = Overdue(L, t)
<1>1. [L[t] EXCEPT !.overdue = TRUE] = M[t]
  OBVIOUS
<1>2. M = [u \in Tokens |-> IF u = t THEN [L[t] EXCEPT !.overdue = TRUE] ELSE L[u]]
  BY <1>1
<1> QED
  BY <1>2 DEF Overdue

\* A link does not change when its row does not, or when only its time is up
\* while an answer to it is under way.
LEMMA SameLink ==
  ASSUME NEW before, NEW after, NEW requests, NEW t, after[t] = before[t]
  PROVE  LinkOf(after, requests, t) = LinkOf(before, requests, t)
  BY DEF LinkOf

LEMMA HeldLink ==
  ASSUME NEW before, NEW after, NEW requests, NEW t, after[t].status = before[t].status,
         NEW r \in Reqs, requests[r].pc \in {"answer", "save"}, requests[r].token = t
  PROVE  LinkOf(after, requests, t) = LinkOf(before, requests, t)
  BY DEF LinkOf

\* What moving an operation without items does to it.
LEMMA OperationMoves ==
  ASSUME NEW s, NEW by \in BOOLEAN, NEW v
  PROVE  [[status |-> s, confirmedAt |-> by] EXCEPT !.status = v] = [status |-> v, confirmedAt |-> by]
  OBVIOUS

LEMMA NoItems ==
  ASSUME NEW S, NEW T, NEW a, NEW b
  PROVE  /\ [i \in {} |-> "NONE"] = [i \in {} |-> IF i \in S THEN a ELSE [j \in {} |-> "NONE"][i]]
         /\ [i \in {} |-> "NONE"] = [i \in {} |-> IF i \in S THEN a ELSE IF i \in T THEN b
                                                  ELSE [j \in {} |-> "NONE"][i]]
  OBVIOUS

\* Each step of a handler is one of the in-memory repository's, or nothing
\* yet: reading is nothing, acting on an answer is answering.
LEMMA StepIsInMemory ==
  ASSUME OneRequest, AloneInv, AloneInv', Next, \A r \in Reqs : ~Crash(r)
  PROVE  InMemory!Next \/ UNCHANGED InMemory!devVars
<1> DEFINE L == [t \in Tokens |-> LinkOf(approvals, reqs, t)]
           M == [t \in Tokens |-> LinkOf(approvals', reqs', t)]
<1>t. TypeOK /\ TypeOK' /\ Saving
  BY DEF AloneInv, IInv
<1>a. \A t \in Tokens : approvals[t] \in Approval /\ approvals'[t] \in Approval
  BY <1>t DEF TypeOK
<1>f. L = [t \in Tokens |-> L[t]] /\ M = [t \in Tokens |-> M[t]]
  OBVIOUS
<1>l. \A t \in Tokens : L[t] = LinkOf(approvals, reqs, t) /\ M[t] = LinkOf(approvals', reqs', t)
  OBVIOUS
<1>m. [t \in Tokens |-> Link(t)] = L /\ [t \in Tokens |-> Link(t)]' = M
  BY LinksAre
<1> HIDE DEF L, M
<1>q. ASSUME UNCHANGED <<status, confirmedBy>>, L = M PROVE UNCHANGED InMemory!devVars
  BY <1>q, <1>m DEF InMemory!devVars
<1>1. ASSUME NEW r \in Reqs,
             \/ ApprovalRequested(r) \/ PickPending(r) \/ ConfirmRead(r) \/ StartRead(r)
             \/ \E t \in Tokens : AnswerLate(r, t)
      PROVE UNCHANGED InMemory!devVars
  <2>1. UNCHANGED <<status, confirmedBy, approvals>>
    BY <1>1 DEF ApprovalRequested, PickPending, ConfirmRead, StartRead, AnswerLate
  <2>2. reqs[r].pc \in {"idle", "request"}
    BY <1>1 DEF ApprovalRequested, PickPending, ConfirmRead, StartRead, AnswerLate
  <2>3. reqs'[r].pc \in {"request", "issue", "confirm", "start", "expire"}
    <3>1. reqs[r] \in Request
      BY <1>t DEF TypeOK
    <3>2. \/ reqs'[r] = [reqs[r] EXCEPT !.pc = "request"]
          \/ reqs'[r] = [reqs[r] EXCEPT !.pc = "issue", !.picked = Pending]
          \/ reqs'[r] = [reqs[r] EXCEPT !.pc = "confirm"]
          \/ reqs'[r] = [reqs[r] EXCEPT !.pc = "start"]
          \/ \E t \in Tokens : reqs'[r] = [reqs[r] EXCEPT !.pc = "expire", !.token = t]
      BY <1>1, <1>t DEF ApprovalRequested, PickPending, ConfirmRead, StartRead, AnswerLate, Goto, TypeOK
    <3> QED BY <3>1, <3>2 DEF Request
  <2>4. \A t \in Tokens : LinkOf(approvals, reqs, t) = approvals[t] /\ LinkOf(approvals', reqs', t) = approvals[t]
    BY <2>1, <2>2, <2>3, <1>a, Unanswered, <1>l DEF OneRequest, Quiet
  <2>5. L = M
    BY <2>4, <1>l, <1>f
  <2> QED BY <2>1, <2>5, <1>q
<1>2. ASSUME NEW r \in Reqs, NEW t \in Tokens, NEW d \in Decisions, Answer(r, t, d)
      PROVE UNCHANGED InMemory!devVars
  <2>1. UNCHANGED <<status, confirmedBy, approvals>> /\ approvals[t].overdue = FALSE /\ reqs[r].pc = "idle"
    BY <1>2, <1>a DEF Answer, Approval
  <2>2. reqs'[r].pc = "answer" /\ reqs'[r].token = t
    <3>1. reqs'[r] = [reqs[r] EXCEPT !.pc = "answer", !.token = t, !.decision = d]
      BY <1>2, <1>t DEF Answer, TypeOK
    <3> QED BY <3>1, <1>t DEF TypeOK, Request
  <2>3. LinkOf(approvals', reqs', t) = approvals[t]
    BY <2>1, <2>2, <1>a, BeingAnswered DEF Approval
  <2>4. \A u \in Tokens \ {t} : LinkOf(approvals', reqs', u) = approvals[u]
    BY <2>1, <2>2, <1>a, Unanswered, <1>l DEF OneRequest, Quiet
  <2>5. \A u \in Tokens : LinkOf(approvals, reqs, u) = approvals[u]
    BY <2>1, <1>a, Unanswered, <1>l DEF OneRequest, Quiet
  <2>6. L = M
    BY <2>3, <2>4, <2>5, <1>l, <1>f
  <2> QED BY <2>1, <2>6, <1>q
<1>3. ASSUME NEW r \in Reqs, Issue(r) PROVE InMemory!Next
  <2>1. PICK t \in Tokens :
            /\ approvals[t].status = "NONE"
            /\ approvals' = [u \in Tokens |->
                  IF u = t THEN [approvals[u] EXCEPT !.status = "PENDING"]
                  ELSE IF u \in reqs[r].picked \cap Pending
                       THEN [approvals[u] EXCEPT !.status = "EXPIRED"]
                  ELSE approvals[u]]
    BY <1>3 DEF Issue
  <2>2. reqs[r].picked = Pending /\ reqs[r].pc = "issue" /\ status = "DRY_RUN_PASSED" /\ reqs'[r].pc = "idle"
    BY <1>3, <1>t DEF Issue, AloneInv, StillTrue, Return, Idle, TypeOK
  <2>3. \A u \in Tokens : LinkOf(approvals, reqs, u) = approvals[u] /\ LinkOf(approvals', reqs', u) = approvals'[u]
    BY <2>2, <1>a, Unanswered, <1>l DEF OneRequest, Quiet
  <2>4. L = approvals /\ M = approvals'
    BY <2>3, <1>l, <1>f, <1>t DEF TypeOK
  <2>5. approvals' = [u \in Tokens |-> IF u = t THEN [L[u] EXCEPT !.status = "PENDING"]
                                       ELSE IF L[u].status = "PENDING" THEN [L[u] EXCEPT !.status = "EXPIRED"]
                                       ELSE L[u]]
    BY <2>1, <2>2, <2>4 DEF Pending
  <2>6. InMemory!RequestApproval(t)
    BY <2>1, <2>2, <2>4, <2>5, <1>3, <1>m DEF InMemory!RequestApproval, Issue
  <2> QED BY <2>6 DEF InMemory!Next
<1>4. ASSUME NEW r \in Reqs, Approve(r) \/ Decline(r) PROVE InMemory!Next
  <2> PICK t \in Tokens, d \in Decisions : t = reqs[r].token /\ d = reqs[r].decision
    BY <1>4, <1>t DEF Approve, Decline, AloneInv, StillTrue, TypeOK, Request, Saving
  <2>1. /\ status = "DRY_RUN_PASSED" /\ reqs[r].pc = "answer"
        /\ approvals[t].status = "PENDING" /\ approvals' = approvals
    BY <1>4, <1>t DEF Approve, Decline, AloneInv, StillTrue, Saving, TypeOK, Request
  <2>2. reqs'[r].pc = "save" /\ reqs'[r].token = t /\ reqs'[r].decision = d
    <3>1. reqs'[r] = [reqs[r] EXCEPT !.pc = "save"]
      BY <1>4, <1>t DEF Approve, Decline, Goto, TypeOK
    <3> QED BY <3>1, <1>t DEF TypeOK, Request
  <2>3. L[t] = [status |-> "PENDING", overdue |-> FALSE]
    BY <2>1, <1>l, BeingAnswered
  <2>4. M[t] = [status |-> d, overdue |-> FALSE]
    BY <2>1, <2>2, <1>l, BeingSaved
  <2>5. \A u \in Tokens \ {t} : L[u] = approvals[u] /\ M[u] = approvals[u]
    BY <2>1, <2>2, <1>a, Unanswered, <1>l DEF OneRequest, Quiet
  <2>6. M = [L EXCEPT ![t].status = d]
    BY <2>3, <2>4, <2>5, <1>f, LinkAnswered
  <2>7. \/ d = "APPROVED" /\ status' = "CONFIRMED" /\ confirmedBy' # {}
        \/ d = "DECLINED" /\ UNCHANGED <<status, confirmedBy>>
    BY <1>4 DEF Approve, Decline, ConfirmedTransition
  <2>8. d = "APPROVED" => InMemory!Confirmed
    BY <2>7, NoItems DEF InMemory!Confirmed, InMemory!OpItems
  <2>9. InMemory!Respond(t, d)
    BY <2>1, <2>3, <2>6, <2>7, <2>8, <1>m DEF InMemory!Respond
  <2> QED BY <2>1, <2>9 DEF InMemory!Next, Decisions
<1>5. ASSUME NEW r \in Reqs, SaveAnswer(r) PROVE InMemory!Next \/ UNCHANGED InMemory!devVars
  <2> PICK t \in Tokens, d \in Decisions : t = reqs[r].token /\ d = reqs[r].decision
    BY <1>5, <1>t DEF SaveAnswer, Saving, TypeOK, Request
  <2>1. /\ reqs[r].pc = "save" /\ reqs'[r].pc = "idle"
        /\ UNCHANGED <<status, confirmedBy>> /\ approvals' = [approvals EXCEPT ![t].status = d]
    BY <1>5, <1>t DEF SaveAnswer, Return, Idle, Saving, TypeOK, Request
  <2>2. L[t] = [status |-> d, overdue |-> FALSE]
    BY <2>1, <1>l, BeingSaved
  <2>0. reqs[r].pc = "save" /\ reqs[r].token = t /\ reqs'[r].pc = "idle"
    BY <2>1
  <2>3. \A u \in Tokens : M[u] = approvals'[u]
    BY <2>0, <1>a, Unanswered, <1>l DEF OneRequest, Quiet
  <2>4. \A u \in Tokens \ {t} : L[u] = approvals[u]
    BY <2>1, <1>a, Unanswered, <1>l DEF OneRequest, Quiet
  <2>5. approvals'[t] = [status |-> d, overdue |-> approvals[t].overdue]
    BY <2>1, <1>a, <1>t DEF Approval, TypeOK
  <2>6. \A u \in Tokens \ {t} : M[u] = L[u]
    BY <2>1, <2>3, <2>4, <1>t DEF TypeOK
  <2>7. CASE approvals[t].overdue = FALSE
    <3>0. L[t] = M[t]
      BY <2>2, <2>3, <2>5, <2>7
    <3>1. L = M
      BY <3>0, <2>6, <1>f
    <3> QED BY <3>1, <2>1, <1>q
  <2>8. CASE approvals[t].overdue = TRUE
    <3>1. M[t] = [status |-> d, overdue |-> TRUE]
      BY <2>3, <2>5, <2>8
    <3>2. M = Overdue(L, t)
      BY <3>1, <2>2, <2>6, <1>f, LinkOverdue
    <3>3. L[t].status # "NONE" /\ L[t].overdue = FALSE
      BY <2>2 DEF Decisions
    <3>4. UNCHANGED <<status, confirmedBy>>
      BY <2>1
    <3>5. InMemory!Lapse(t)
      BY <3>2, <3>3, <3>4, <1>m DEF InMemory!Lapse, Overdue
    <3> QED BY <3>5, <2>1 DEF InMemory!Next
  <2> QED BY <2>1, <2>7, <2>8, <1>a DEF Approval
<1>6. ASSUME NEW r \in Reqs, MarkExpired(r) PROVE InMemory!Next
  <2> PICK t \in Tokens : t = reqs[r].token
    BY <1>6, <1>t DEF MarkExpired, Saving, TypeOK, Request, AloneInv, StillTrue
  <2>1. /\ reqs[r].pc = "expire" /\ reqs'[r].pc = "idle"
        /\ UNCHANGED <<status, confirmedBy>> /\ approvals' = [approvals EXCEPT ![t].status = "EXPIRED"]
        /\ approvals[t].status = "PENDING" /\ approvals[t].overdue
    BY <1>6, <1>t DEF MarkExpired, Return, Idle, Saving, TypeOK, AloneInv, StillTrue
  <2>0. reqs[r].pc = "expire" /\ reqs'[r].pc = "idle"
    BY <2>1
  <2>2. \A u \in Tokens : L[u] = approvals[u] /\ M[u] = approvals'[u]
    BY <2>0, <1>a, Unanswered, <1>l DEF OneRequest, Quiet
  <2>3. L = approvals /\ M = approvals'
    BY <2>2, <1>l, <1>f, <1>t DEF TypeOK
  <2>4. InMemory!RespondLate(t)
    BY <2>1, <2>3, <1>m DEF InMemory!RespondLate
  <2> QED BY <2>1, <2>4 DEF InMemory!Next
<1>7. ASSUME NEW r \in Reqs, ConfirmWrite(r) \/ StartWrite(r) PROVE InMemory!Next
  <2>1. reqs[r].pc \in {"confirm", "start"} /\ reqs'[r].pc = "idle" /\ approvals' = approvals
    BY <1>7, <1>t DEF ConfirmWrite, StartWrite, Return, Idle, TypeOK
  <2>2. L = M
    BY <2>1, <1>f, <1>a, Unanswered, <1>l DEF OneRequest, Quiet
  <2>3. ASSUME ConfirmWrite(r) PROVE InMemory!Confirm
    BY <2>2, <2>3, <1>m DEF ConfirmWrite, ConfirmedTransition, AloneInv, StillTrue, InMemory!Confirm,
       InMemory!Confirmed, InMemory!OpItems
  <2>4. ASSUME StartWrite(r) PROVE InMemory!Start
    <3>1. status = "CONFIRMED" /\ status' = "RUNNING" /\ UNCHANGED confirmedBy
      BY <2>4 DEF StartWrite, AloneInv, StillTrue
    <3>2. InMemory!Move("RUNNING", InMemory!OpItems)
      BY <3>1, OperationMoves, NoItems DEF InMemory!Move
    <3> QED BY <2>2, <3>1, <3>2, <1>m DEF InMemory!Start
  <2> QED BY <1>7, <2>3, <2>4 DEF InMemory!Next
<1>8. ASSUME NEW t \in Tokens, LinkLapses(t) PROVE InMemory!Next \/ UNCHANGED InMemory!devVars
  <2>1. /\ UNCHANGED <<status, confirmedBy, reqs>> /\ approvals[t].status # "NONE" /\ approvals[t].overdue = FALSE
        /\ approvals'[t] = [approvals[t] EXCEPT !.overdue = TRUE]
        /\ \A u \in Tokens \ {t} : approvals'[u] = approvals[u]
    BY <1>8, <1>a, <1>t DEF LinkLapses, Approval, TypeOK
  <2>2. \A u \in Tokens \ {t} : M[u] = L[u]
    BY <2>1, <1>l, SameLink
  <2>3. ASSUME NEW r \in Reqs, reqs[r].pc \in {"answer", "save"}, reqs[r].token = t
        PROVE UNCHANGED InMemory!devVars
    <3>1. M[t] = L[t]
      <4>1. approvals'[t].status = approvals[t].status
        BY <2>1, <1>a DEF Approval
      <4>2. reqs' = reqs
        BY <2>1
      <4> QED BY <4>1, <4>2, <2>3, <1>l, HeldLink
    <3>2. L = M
      BY <2>2, <3>1, <1>f
    <3> QED BY <3>2, <2>1, <1>q
  <2>4. ASSUME \A r \in Reqs : Quiet(reqs[r], t) PROVE InMemory!Lapse(t)
    <3>1. L[t] = approvals[t] /\ M[t] = approvals'[t]
      BY <2>1, <2>4, <1>a, <1>l, Unanswered
    <3>2. PICK d : L[t] = [status |-> d, overdue |-> FALSE] /\ M[t] = [status |-> d, overdue |-> TRUE]
      BY <3>1, <2>1, <1>a DEF Approval
    <3>3. M = Overdue(L, t)
      BY <3>2, <2>2, <1>f, LinkOverdue
    <3>4. L[t].status # "NONE" /\ L[t].overdue = FALSE
      BY <3>1, <2>1
    <3>5. UNCHANGED <<status, confirmedBy>>
      BY <2>1
    <3> QED BY <3>3, <3>4, <3>5, <1>m DEF InMemory!Lapse, Overdue
  <2> QED BY <2>3, <2>4 DEF Quiet, InMemory!Next
<1>9. CASE OperationSettles
  <2>1. status = "RUNNING" /\ status' = "SETTLED" /\ UNCHANGED <<confirmedBy, approvals, reqs>>
    BY <1>9 DEF OperationSettles
  <2>2. InMemory!Finish
    <3>1. L = M
      BY <2>1, <1>l, <1>f
    <3>2. {} \in SUBSET InMemory!OpItems
      OBVIOUS
    <3>3. /\ [status |-> IF status = "SETTLED" THEN "COMPLETED" ELSE status, confirmedAt |-> confirmedBy # {}]
               = [status |-> "RUNNING", confirmedAt |-> confirmedBy # {}]
          /\ [status |-> IF status = "SETTLED" THEN "COMPLETED" ELSE status, confirmedAt |-> confirmedBy # {}]'
               = [status |-> "COMPLETED", confirmedAt |-> confirmedBy # {}]
      BY <2>1
    <3>4. [status |-> IF status = "SETTLED" THEN "COMPLETED" ELSE status, confirmedAt |-> confirmedBy # {}]'
              = [[status |-> IF status = "SETTLED" THEN "COMPLETED" ELSE status,
                  confirmedAt |-> confirmedBy # {}] EXCEPT !.status = "COMPLETED"]
      BY <3>3, OperationMoves
    <3>5. [i \in {} |-> "NONE"]' = [i \in {} |-> IF i \in {} THEN "FAILED"
                                               ELSE IF i \in InMemory!OpItems THEN "COMPLETED"
                                               ELSE [j \in {} |-> "NONE"][i]]
      BY NoItems
    <3>6. [status |-> IF status = "SETTLED" THEN "COMPLETED" ELSE status,
           confirmedAt |-> confirmedBy # {}].status = "RUNNING"
      BY <3>3
    <3>7. UNCHANGED [t \in Tokens |-> Link(t)]
      BY <3>1, <1>m
    <3> QED BY <3>2, <3>4, <3>5, <3>6, <3>7 DEF InMemory!Finish
  <2> QED BY <2>2 DEF InMemory!Next
<1>10. CASE PlanChanges
  <2>1. UNCHANGED <<status, confirmedBy, approvals, reqs>>
    BY <1>10 DEF PlanChanges
  <2>2. L = M
    BY <2>1, <1>l, <1>f
  <2> QED BY <2>1, <2>2, <1>q
<1> QED
  BY <1>1, <1>2, <1>3, <1>4, <1>5, <1>6, <1>7, <1>8, <1>9, <1>10 DEF Next

\* Requests one at a time that do not die: from the dry run on, the handlers
\* of the database and their transactions do what the in-memory repository
\* does in single steps, for any number of links.
THEOREM ImplementsInMemory == ASSUME OneRequest PROVE Spec => MatchesDevApprovals
<1>1. AloneInv /\ AloneInv' /\ [Next]_vars =>
          [(\A r \in Reqs : ~Crash(r)) => InMemory!Next]_(InMemory!devVars)
  <2>1. UNCHANGED vars => UNCHANGED InMemory!devVars
    BY LinksAre DEF vars, InMemory!devVars
  <2> QED BY <2>1, StepIsInMemory
<1> QED
  BY <1>1, AloneHolds, PTL DEF Spec, MatchesDevApprovals
=============================================================================
