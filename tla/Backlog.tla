------------------------------- MODULE Backlog -------------------------------
(***************************************************************************)
(* The audits, findings and backlog tasks of one site (app-repository.ts). *)
(* Every operation reads, decides and then writes in a transaction that    *)
(* does not look at what was decided on again.  Findings are kept under a  *)
(* fingerprint that is unique; tasks are looked up, but no index keeps two *)
(* requests from creating the same one.                                    *)
(*                                                                         *)
(* One synced page is followed.  A finding comes from its content, or is   *)
(* its loss of traffic between the last insights and those a week earlier. *)
(* The search impact of a finding is the week and revision of the insights *)
(* it was assessed with; the first becomes the baseline it is tracked      *)
(* against (gsc-impact.ts).  A task comes from a finding, or from a        *)
(* candidate the content or the insights support.                          *)
(***************************************************************************)
EXTENDS Integers, Sequences, SequencesExt, FiniteSets

CONSTANTS
    Signals,        \* findings of the page's content
    Loss,           \* the finding "gsc.traffic-loss"
    Chance,         \* the candidate that insights support
    Reqs,           \* requests that may be in flight together
    NoImpact,       \* impact, baseline or tag of what was never assessed
    MaxAudits,      \* bound on audits
    MaxTasks        \* bound on tasks

VARIABLES
    snapshots,      \* input: SearchConsole's insights, latest first
    content,        \* signals the synced page shows now
    audits,         \* number of Audit rows; the last one's id
    issues,         \* AuditIssue row of each finding
    tasks,          \* BacklogTask rows in the order they were created
    reqs            \* handlers between their reads and their transaction

backlogVars == <<content, audits, issues, tasks, reqs>>

Findings == Signals \cup {Loss}
IssueStatuses == {"OPEN", "RESOLVED"}          \* IGNORED and SNOOZED are set in the same way
TaskStatuses == {"TODO", "DONE"}               \* so are the four others

Sources == ({"audit"} \X Findings) \cup ({"candidate"} \X (Signals \cup {Chance}))

NoIssue == [status |-> "none", audit |-> 0, impact |-> NoImpact, baseline |-> NoImpact]
IdleReq == [pc |-> "idle", of |-> {}, tags |-> <<>>, found |-> {}, next |-> "OPEN"]

Init ==
    /\ content \in SUBSET Signals
    /\ audits = 0
    /\ issues = [f \in Findings |-> NoIssue]
    /\ tasks = <<>>
    /\ reqs = [r \in Reqs |-> IdleReq]

Busy == {r \in Reqs : reqs[r].pc # "idle"}

Begin(r, pc, req) ==
    /\ reqs[r].pc = "idle"
    /\ reqs' = [reqs EXCEPT ![r] = [req EXCEPT !.pc = pc]]
    /\ UNCHANGED <<content, audits, issues, tasks>>

End(r) == reqs' = [reqs EXCEPT ![r] = IdleReq]
-----------------------------------------------------------------------------
(* What the last insights say of the page *)

Latest == Head(snapshots)

WeekEarlier ==
    {i \in DOMAIN snapshots : /\ snapshots[i].property = Latest.property
                              /\ snapshots[i].week = Latest.week - 1}

(* buildSearchImpactAssessments finds the page among the rows. *)
Impact ==
    IF snapshots = <<>> \/ Latest.report.page = "absent" THEN NoImpact
    ELSE <<Latest.week, Latest.report.rev>>

(* buildPageTrafficLoss: the clicks fell since the snapshot a week earlier. *)
TrafficLost ==
    /\ snapshots # <<>>
    /\ Latest.report.page \in {"low", "absent"}
    /\ \E i \in WeekEarlier : snapshots[i].report.page = "high"

Generated == content \cup (IF TrafficLost THEN {Loss} ELSE {})

(* What createBacklogTaskFromCandidate finds to hold still. *)
Candidates == content \cup (IF Impact = NoImpact THEN {} ELSE {Chance})
-----------------------------------------------------------------------------
(* Audits *)

Rebase(f) == Impact                             \* mutant: tracking starts anew

(* preserveSearchImpactBaseline: only evidence with an impact has a baseline. *)
Baseline(f) ==
    IF Impact = NoImpact THEN NoImpact
    ELSE IF issues[f].baseline # NoImpact THEN issues[f].baseline ELSE Impact

(* createAuditForSite up to the transaction. *)
AuditRead(r) ==
    /\ audits < MaxAudits
    /\ Begin(r, "audit", [IdleReq EXCEPT !.of = Generated,
                                         !.tags = [f \in Generated |-> <<Impact, Baseline(f)>>]])

(* The upsert by fingerprint keeps the status of a finding that is there. *)
AuditWrite(r) ==
    /\ reqs[r].pc = "audit"
    /\ audits' = audits + 1
    /\ issues' = [f \in Findings |->
          IF f \notin reqs[r].of THEN issues[f]
          ELSE [status |-> IF issues[f].status = "none" THEN "OPEN" ELSE issues[f].status,
                audit |-> audits + 1,
                impact |-> reqs[r].tags[f][1], baseline |-> reqs[r].tags[f][2]]]
    /\ End(r) /\ UNCHANGED <<content, tasks>>

(* updateAuditIssueStatus looks for the finding in the audit it is shown in. *)
TriageRead(r, f, st) ==
    /\ issues[f].status \notin {"none", st}
    /\ Begin(r, "triage", [IdleReq EXCEPT !.of = {f}, !.next = st])

TriageWrite(r) ==
    /\ reqs[r].pc = "triage"
    /\ issues' = [f \in Findings |->
          IF f \in reqs[r].of THEN [issues[f] EXCEPT !.status = reqs[r].next] ELSE issues[f]]
    /\ End(r) /\ UNCHANGED <<content, audits, tasks>>
-----------------------------------------------------------------------------
(* Tasks *)

Rows(source) == {i \in DOMAIN tasks : tasks[i].source = source}

Task(source, tag) == [source |-> source, status |-> "TODO", outcome |-> FALSE, late |-> FALSE, tag |-> tag]

(* The tags and the rows that are there already are read before any is created. *)
Plan(r, sources, tags) ==
    Begin(r, "create", [IdleReq EXCEPT !.of = sources, !.tags = tags,
                                       !.found = {s \in sources : Rows(s) # {}}])

(* createBacklogTaskFromAuditIssue *)
FromIssueRead(r, f) ==
    /\ issues[f].status # "none" /\ Len(tasks) < MaxTasks
    /\ Plan(r, {<<"audit", f>>}, [s \in {<<"audit", f>>} |-> issues[f].impact])

(* createBacklogTasksFromAudit: the findings last seen in audit a with this status *)
FromAuditRead(r, a, st) ==
    LET sources == {<<"audit", f>> : f \in {g \in Findings : issues[g].audit = a /\ issues[g].status = st}}
    IN  /\ a \in 1 .. audits /\ sources # {} /\ Len(tasks) + Cardinality(sources) <= MaxTasks
        /\ Plan(r, sources, [s \in sources |-> issues[s[2]].impact])

(* createBacklogTaskFromCandidate: such a task has no tag of the impact. *)
FromCandidateRead(r, c) ==
    /\ c \in Candidates /\ Len(tasks) < MaxTasks
    /\ Plan(r, {<<"candidate", c>>}, [s \in {<<"candidate", c>>} |-> NoImpact])

CreateAll(r) ==                                 \* mutant: tasks are not looked up
    LET req == reqs[r]
    IN  /\ req.pc = "create"
        /\ tasks' = tasks \o SetToSeq({Task(s, req.tags[s]) : s \in req.of})
        /\ End(r) /\ UNCHANGED <<content, audits, issues>>

(* Rows found get the tag of the evidence, unless it has none; the others are added. *)
CreateWrite(r) ==
    LET req == reqs[r]
        added == {Task(s, req.tags[s]) : s \in req.of \ req.found}
        tagged == [i \in DOMAIN tasks |->
                     IF /\ tasks[i].source \in req.found
                        /\ i = CHOOSE j \in Rows(tasks[i].source) : \A k \in Rows(tasks[i].source) : j <= k
                        /\ req.tags[tasks[i].source] # NoImpact
                     THEN [tasks[i] EXCEPT !.tag = req.tags[tasks[i].source]] ELSE tasks[i]]
    IN  /\ req.pc = "create"
        /\ tasks' = tagged \o SetToSeq(added)
        /\ End(r) /\ UNCHANGED <<content, audits, issues>>

(* A handler that changes one task: its guard, then its update by id. *)
Change(r, pc, i, next) == Begin(r, pc, [IdleReq EXCEPT !.of = {i}, !.next = next])

Set(r, update(_)) ==
    /\ tasks' = [i \in DOMAIN tasks |-> IF i \in reqs[r].of THEN update(tasks[i]) ELSE tasks[i]]
    /\ End(r) /\ UNCHANGED <<content, audits, issues>>

(* updateBacklogTaskStatus: leaving DONE forgets the outcome. *)
StatusRead(r, i, st) == tasks[i].status # st /\ Change(r, "status", i, st)

StatusKeepsOutcome(r) ==                        \* mutant: the outcome stays
    reqs[r].pc = "status" /\ Set(r, LAMBDA t : [t EXCEPT !.status = reqs[r].next])

StatusWrite(r) ==
    reqs[r].pc = "status"
    /\ Set(r, LAMBDA t : [t EXCEPT !.status = reqs[r].next, !.outcome = reqs[r].next = "DONE" /\ @])

(* updateBacklogTaskOutcome records or clears the outcome of a task that is DONE. *)
OutcomeRead(r, i, verified) == tasks[i].status = "DONE" /\ Change(r, "outcome", i, verified)

OutcomeWrite(r) ==
    reqs[r].pc = "outcome" /\ Set(r, LAMBDA t : [t EXCEPT !.outcome = reqs[r].next = "verified"])

(* updateBacklogTaskAssignment, as far as the due date: is it past? *)
DueRead(r, i, due) == tasks[i].late # (due = "past") /\ Change(r, "due", i, due)

DueWrite(r) == reqs[r].pc = "due" /\ Set(r, LAMBDA t : [t EXCEPT !.late = reqs[r].next = "past"])

Abandon(r) ==
    /\ reqs[r].pc # "idle"
    /\ End(r)
    /\ UNCHANGED <<content, audits, issues, tasks>>

ContentChanges(f) ==
    /\ content' = IF f \in content THEN content \ {f} ELSE content \cup {f}
    /\ UNCHANGED <<audits, issues, tasks, reqs>>
=============================================================================
