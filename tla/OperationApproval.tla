-------------------------- MODULE OperationApproval --------------------------
(***************************************************************************)
(* Client approval of one safe operation (OperationApproval rows of a      *)
(* BulkOperation), apps/saas/src/lib/app-repository.ts.                    *)
(*                                                                         *)
(* A member asks for an approval once the dry run passed; the client gets  *)
(* a link with a token and answers without an account.  Approving confirms *)
(* the operation, exactly as the member's own confirm route does, in one   *)
(* transaction; the answer is saved on the approval row in a second one.   *)
(* Every handler checks what it read before it writes, and writes without  *)
(* a condition.  What happens to the operation after it was started is     *)
(* module SafeOperation; here it only runs and settles.                    *)
(***************************************************************************)
EXTENDS Naturals, FiniteSets

CONSTANTS Tokens,      \* approval links, each issued at most once
          Reqs,        \* concurrently handled requests
          Member,      \* confirms through the workspace instead of a link
          Faults       \* environment events the run allows

ASSUME ApprovalAssumption == Member \notin Tokens /\ Faults \subseteq {"crash", "lapse"}

VARIABLES status,      \* of the operation
          confirmedBy, \* history: who moved the operation to CONFIRMED
          approvals,   \* the approval row of each token
          reqs,        \* requests between two of their database steps
          entitled     \* does the plan include safe operations

vars == <<status, confirmedBy, approvals, reqs, entitled>>
-----------------------------------------------------------------------------
Statuses == {"DRY_RUN_PASSED", "CONFIRMED", "RUNNING", "SETTLED"}
Decisions == {"APPROVED", "DECLINED"}
ApprovalStatuses == {"NONE", "PENDING", "EXPIRED"} \cup Decisions

Approval == [status : ApprovalStatuses, overdue : BOOLEAN]   \* overdue: expiresAt is past
Request == [pc : {"idle", "request", "issue", "answer", "save", "expire", "confirm", "start"},
            token : Tokens \cup {Member}, decision : Decisions, picked : SUBSET Tokens]

Idle == [pc |-> "idle", token |-> Member, decision |-> "DECLINED", picked |-> {}]

TypeOK ==
    /\ status \in Statuses
    /\ confirmedBy \subseteq Tokens \cup {Member}
    /\ approvals \in [Tokens -> Approval]
    /\ reqs \in [Reqs -> Request]
    /\ entitled \in BOOLEAN

Init ==
    /\ status = "DRY_RUN_PASSED"
    /\ confirmedBy = {}
    /\ approvals = [t \in Tokens |-> [status |-> "NONE", overdue |-> FALSE]]
    /\ reqs = [r \in Reqs |-> Idle]
    /\ entitled = TRUE

Pending == {t \in Tokens : approvals[t].status = "PENDING"}

Goto(r, pc) == reqs' = [reqs EXCEPT ![r].pc = pc]
Return(r) == reqs' = [reqs EXCEPT ![r] = Idle]
-----------------------------------------------------------------------------
\* requestOperationApproval up to its transaction.
ApprovalRequested(r) ==
    /\ reqs[r].pc = "idle"
    /\ entitled /\ status = "DRY_RUN_PASSED"
    /\ Goto(r, "request")
    /\ UNCHANGED <<status, confirmedBy, approvals, entitled>>

\* The transaction's updateMany sees the rows that are PENDING now; what it
\* writes, and the new row, become visible together at the commit.
PickPending(r) ==
    /\ reqs[r].pc = "request"
    /\ reqs' = [reqs EXCEPT ![r] = [@ EXCEPT !.pc = "issue", !.picked = Pending]]
    /\ UNCHANGED <<status, confirmedBy, approvals, entitled>>

IssueExpiringAll(r) ==                          \* mutant: answered links are expired as well
    /\ reqs[r].pc = "issue"
    /\ \E t \in Tokens :
          /\ approvals[t].status = "NONE"
          /\ approvals' = [u \in Tokens |->
                IF u = t THEN [approvals[u] EXCEPT !.status = "PENDING"]
                ELSE IF approvals[u].status # "NONE" THEN [approvals[u] EXCEPT !.status = "EXPIRED"]
                ELSE approvals[u]]
    /\ Return(r)
    /\ UNCHANGED <<status, confirmedBy, entitled>>

Issue(r) ==
    /\ reqs[r].pc = "issue"
    /\ \E t \in Tokens :
          /\ approvals[t].status = "NONE"
          /\ approvals' = [u \in Tokens |->
                IF u = t THEN [approvals[u] EXCEPT !.status = "PENDING"]
                ELSE IF u \in reqs[r].picked \cap Pending THEN [approvals[u] EXCEPT !.status = "EXPIRED"]
                ELSE approvals[u]]
    /\ Return(r)
    /\ UNCHANGED <<status, confirmedBy, entitled>>
-----------------------------------------------------------------------------
\* respondToOperationApproval, what it reads: it needs no plan and no account.
AnswerAnytime(r, t, decision) ==                \* mutant: a link never lapses
    /\ reqs[r].pc = "idle"
    /\ approvals[t].status = "PENDING"
    /\ status = "DRY_RUN_PASSED"
    /\ reqs' = [reqs EXCEPT ![r] = [@ EXCEPT !.pc = "answer", !.token = t, !.decision = decision]]
    /\ UNCHANGED <<status, confirmedBy, approvals, entitled>>

Answer(r, t, decision) ==
    /\ reqs[r].pc = "idle"
    /\ approvals[t].status = "PENDING" /\ ~approvals[t].overdue
    /\ status = "DRY_RUN_PASSED"
    /\ reqs' = [reqs EXCEPT ![r] = [@ EXCEPT !.pc = "answer", !.token = t, !.decision = decision]]
    /\ UNCHANGED <<status, confirmedBy, approvals, entitled>>

\* An overdue link is marked, and refused.
AnswerLate(r, t) ==
    /\ reqs[r].pc = "idle"
    /\ approvals[t].status = "PENDING" /\ approvals[t].overdue
    /\ reqs' = [reqs EXCEPT ![r] = [@ EXCEPT !.pc = "expire", !.token = t]]
    /\ UNCHANGED <<status, confirmedBy, approvals, entitled>>

MarkExpired(r) ==
    /\ reqs[r].pc = "expire"
    /\ approvals' = [approvals EXCEPT ![reqs[r].token].status = "EXPIRED"]
    /\ Return(r)
    /\ UNCHANGED <<status, confirmedBy, entitled>>

ConfirmedTransition(who) ==
    /\ status' = "CONFIRMED"
    /\ confirmedBy' = confirmedBy \cup {who}

ApproveLogged(r) ==                             \* mutant: approving is only logged, as declining is
    /\ reqs[r].pc = "answer"
    /\ Goto(r, "save")
    /\ UNCHANGED <<status, confirmedBy, approvals, entitled>>

Approve(r) ==
    /\ reqs[r].pc = "answer" /\ reqs[r].decision = "APPROVED"
    /\ ConfirmedTransition(reqs[r].token)
    /\ Goto(r, "save")
    /\ UNCHANGED <<approvals, entitled>>

DeclineOperation(r) ==                          \* mutant: the operation takes the client's decision
    /\ reqs[r].pc = "answer" /\ reqs[r].decision = "DECLINED"
    /\ status' = "DECLINED"
    /\ Goto(r, "save")
    /\ UNCHANGED <<confirmedBy, approvals, entitled>>

\* Declining only writes the activity log.
Decline(r) ==
    /\ reqs[r].pc = "answer" /\ reqs[r].decision = "DECLINED"
    /\ Goto(r, "save")
    /\ UNCHANGED <<status, confirmedBy, approvals, entitled>>

SaveAnswer(r) ==
    /\ reqs[r].pc = "save"
    /\ approvals' = [approvals EXCEPT ![reqs[r].token].status = reqs[r].decision]
    /\ Return(r)
    /\ UNCHANGED <<status, confirmedBy, entitled>>
-----------------------------------------------------------------------------
\* confirmBulkOperation and startBulkOperation.
ConfirmReadAny(r) ==                            \* mutant: confirm without asking for the status
    /\ reqs[r].pc = "idle"
    /\ entitled
    /\ Goto(r, "confirm")
    /\ UNCHANGED <<status, confirmedBy, approvals, entitled>>

ConfirmRead(r) ==
    /\ reqs[r].pc = "idle"
    /\ entitled /\ status = "DRY_RUN_PASSED"
    /\ Goto(r, "confirm")
    /\ UNCHANGED <<status, confirmedBy, approvals, entitled>>

ConfirmWrite(r) ==
    /\ reqs[r].pc = "confirm"
    /\ ConfirmedTransition(Member)
    /\ Return(r)
    /\ UNCHANGED <<approvals, entitled>>

StartRead(r) ==
    /\ reqs[r].pc = "idle"
    /\ entitled /\ status = "CONFIRMED"
    /\ Goto(r, "start")
    /\ UNCHANGED <<status, confirmedBy, approvals, entitled>>

StartWrite(r) ==
    /\ reqs[r].pc = "start"
    /\ status' = "RUNNING"
    /\ Return(r)
    /\ UNCHANGED <<confirmedBy, approvals, entitled>>
-----------------------------------------------------------------------------
\* The worker records the outcome, seven days pass, billing changes, the web
\* process dies between two database steps of a handler.
OperationSettles ==
    /\ status = "RUNNING"
    /\ status' = "SETTLED"
    /\ UNCHANGED <<confirmedBy, approvals, reqs, entitled>>

LinkLapses(t) ==
    /\ approvals[t].status # "NONE" /\ ~approvals[t].overdue
    /\ approvals' = [approvals EXCEPT ![t].overdue = TRUE]
    /\ UNCHANGED <<status, confirmedBy, reqs, entitled>>

PlanChanges ==
    /\ "lapse" \in Faults
    /\ entitled' = ~entitled
    /\ UNCHANGED <<status, confirmedBy, approvals, reqs>>

Crash(r) ==
    /\ "crash" \in Faults
    /\ reqs[r].pc # "idle"
    /\ Return(r)
    /\ UNCHANGED <<status, confirmedBy, approvals, entitled>>

Next ==
    \/ \E r \in Reqs : \/ ApprovalRequested(r) \/ PickPending(r) \/ Issue(r)
                       \/ Approve(r) \/ Decline(r) \/ SaveAnswer(r)
                       \/ ConfirmRead(r) \/ ConfirmWrite(r) \/ StartRead(r) \/ StartWrite(r)
                       \/ Crash(r)
                       \/ MarkExpired(r)
                       \/ \E t \in Tokens : AnswerLate(r, t) \/ \E d \in Decisions : Answer(r, t, d)
    \/ \E t \in Tokens : LinkLapses(t)
    \/ OperationSettles
    \/ PlanChanges

Spec == Init /\ [][Next]_vars
-----------------------------------------------------------------------------
\* A client who is told "you approved this change" did confirm the operation,
\* however the handlers interleave and wherever one of them dies.
ApprovedConfirmed ==
    \A t \in Tokens : approvals[t].status = "APPROVED" => t \in confirmedBy

(***************************************************************************)
(* Properties of requests handled one at a time.                           *)
(***************************************************************************)

\* Only the last link that was sent can still be answered.
OnePending == Cardinality(Pending) <= 1

\* Once a request is answered or expired its row never says anything else:
\* a later link does not rewrite the history of an earlier one.
FinalAnswer ==
    [][\A t \in Tokens : approvals[t].status \in Decisions \cup {"EXPIRED"}
                             => approvals'[t].status = approvals[t].status]_vars

\* An operation is confirmed by one party only (a link and a member, or two
\* links, never both do it), and not again once it ran.
ConfirmedOnce ==
    [][/\ Cardinality(confirmedBy') <= 1
       /\ status \in {"RUNNING", "SETTLED"} => status' # "CONFIRMED"]_vars

\* Superseded links are dead, no two parties decide one operation, and what
\* was decided stays.
OneDecides == []OnePending /\ ConfirmedOnce /\ FinalAnswer

\* Links and operation as the in-memory repository keeps them: a link counts
\* as answered from the step that acts on the answer, and its time stands
\* still from the check until the answer is saved.
Answering(t) == \E r \in Reqs : reqs[r].pc \in {"answer", "save"} /\ reqs[r].token = t
Acted(t, d) == \E r \in Reqs : reqs[r].pc = "save" /\ reqs[r].token = t /\ reqs[r].decision = d

Link(t) ==
    [status |-> IF Acted(t, "APPROVED") THEN "APPROVED"
                ELSE IF Acted(t, "DECLINED") THEN "DECLINED" ELSE approvals[t].status,
     overdue |-> IF Answering(t) THEN FALSE ELSE approvals[t].overdue]

InMemory == INSTANCE DevOperations WITH
    Items <- {}, rows <- [i \in {} |-> "NONE"], Links <- Tokens,
    operation <- [status |-> IF status = "SETTLED" THEN "COMPLETED" ELSE status,
                  confirmedAt |-> confirmedBy # {}],
    links <- [t \in Tokens |-> Link(t)]

\* From the dry run on, handlers with several transactions implement the
\* single steps of the in-memory repository, unless one dies between them.
MatchesDevApprovals ==
    [][(\A r \in Reqs : ~Crash(r)) => InMemory!Next]_(InMemory!devVars)
=============================================================================
