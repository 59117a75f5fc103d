------------------------------ MODULE DevReports ------------------------------
(***************************************************************************)
(* The in-memory repository (dev-store.ts) on Search Console data, audits  *)
(* and the backlog of a site: each operation is one step.  It knows no     *)
(* entitlements here and no synced content, so a task only ever comes from *)
(* a finding, and any finding may be generated.  Evidence and tags are     *)
(* left out; SearchConsole and Backlog follow what becomes of them.        *)
(***************************************************************************)
EXTENDS Integers, Sequences, SequencesExt, Functions

CONSTANTS
    Properties, Weeks, Revisions, Reports,      \* as in SearchConsole
    Findings

VARIABLES
    connections,    \* gscConnections' properties, latest updatedAt first
    metrics,        \* what gscDailyMetrics hold of a property and week
    snapshots,      \* gscSearchInsights by property and week, latest syncedAt first
    audits,         \* number of audits
    issues,         \* status of a finding and the audit it is shown in
    tasks           \* backlogTasks by id

gscVars == <<connections, metrics, snapshots>>
workVars == <<audits, issues, tasks>>
devVars == <<gscVars, workVars>>

Without(list, rows) ==
    LET kept[i \in Nat] == IF i = 0 THEN <<>>
                           ELSE IF list[i] \in rows THEN kept[i - 1] ELSE Append(kept[i - 1], list[i])
    IN  kept[Len(list)]

(* upsertGscConnection and selectGscConnectionProperty *)
UpsertConnection(p) ==
    /\ connections' = <<p>> \o Without(connections, {p})
    /\ UNCHANGED <<metrics, snapshots, workVars>>

UpsertDailyMetrics(p, w, rev) ==
    /\ metrics' = [metrics EXCEPT ![p][w] = rev]
    /\ UNCHANGED <<connections, snapshots, workVars>>

ReplaceSearchInsights(p, w, rows) ==
    LET own == {n \in ToSet(snapshots) : n.property = p /\ n.week = w}
    IN  /\ snapshots' = rows \o Without(snapshots, own)
        /\ UNCHANGED <<connections, metrics, workVars>>

(* createAuditForSite and upsertAuditIssuesByFingerprint *)
CreateAudit(generated) ==
    /\ audits' = audits + 1
    /\ issues' = [f \in Findings |->
          IF f \notin generated THEN issues[f]
          ELSE [status |-> IF issues[f].status = "none" THEN "OPEN" ELSE issues[f].status,
                audit |-> audits + 1]]
    /\ UNCHANGED <<gscVars, tasks>>

UpdateIssueStatus(f, status) ==
    /\ issues[f].status # "none"
    /\ issues' = [issues EXCEPT ![f].status = status]
    /\ UNCHANGED <<gscVars, audits, tasks>>

TaskOf(f) == {i \in DOMAIN tasks : tasks[i].of = f}
NewTask(f) == [of |-> f, status |-> "TODO", outcome |-> FALSE, late |-> FALSE]

(* One task for each of these findings, under an id that is free. *)
AddTasks(found) ==
    LET ids == DOMAIN tasks' \ DOMAIN tasks
    IN  /\ \A i \in DOMAIN tasks : i \in DOMAIN tasks' /\ tasks'[i] = tasks[i]
        /\ \E id \in Bijection(found, ids) : \A f \in found : tasks'[id[f]] = NewTask(f)
        /\ UNCHANGED <<gscVars, audits, issues>>

(* createBacklogTaskFromAuditIssue *)
CreateTask(f) ==
    /\ issues[f].status # "none" /\ TaskOf(f) = {}
    /\ AddTasks({f})

(* createBacklogTasksFromAudit: the findings that have none *)
CreateTasks(a, status) ==
    /\ a \in 1 .. audits
    /\ AddTasks({f \in Findings : issues[f].audit = a /\ issues[f].status = status /\ TaskOf(f) = {}})

UpdateStatus(i, status) ==
    /\ tasks' = [tasks EXCEPT ![i].status = status, ![i].outcome = status = "DONE" /\ @]
    /\ UNCHANGED <<gscVars, audits, issues>>

UpdateOutcome(i, verified) ==
    /\ tasks[i].status = "DONE"
    /\ tasks' = [tasks EXCEPT ![i].outcome = verified]
    /\ UNCHANGED <<gscVars, audits, issues>>

UpdateDueDate(i, late) ==
    /\ tasks' = [tasks EXCEPT ![i].late = late]
    /\ UNCHANGED <<gscVars, audits, issues>>

Searching ==
    \/ \E p \in Properties : UpsertConnection(p)
    \/ \E p \in Properties, w \in Weeks :
          \/ \E rev \in Revisions : UpsertDailyMetrics(p, w, rev)
          \/ \E rows \in {<<>>} \cup {<<[property |-> p, week |-> w, report |-> r]>> : r \in Reports} :
                ReplaceSearchInsights(p, w, rows)

Working ==
    \/ \E generated \in SUBSET Findings : CreateAudit(generated)
    \/ \E f \in Findings : CreateTask(f) \/ \E status \in {"OPEN", "RESOLVED"} : UpdateIssueStatus(f, status)
    \/ \E a \in 1 .. audits, status \in {"OPEN", "RESOLVED"} : CreateTasks(a, status)
    \/ \E i \in DOMAIN tasks :
          \/ \E status \in {"TODO", "DONE"} : UpdateStatus(i, status)
          \/ \E flag \in BOOLEAN : UpdateOutcome(i, flag) \/ UpdateDueDate(i, flag)

Next == Searching \/ Working
=============================================================================
