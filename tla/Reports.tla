------------------------------- MODULE Reports -------------------------------
(***************************************************************************)
(* One organization's Search Console data, audits, backlog and weekly      *)
(* digests.  Audits read the insights that syncs store; the digest tells   *)
(* of the tasks that are overdue; the plan in force gates syncs and        *)
(* digests.  The components share the database and nothing else, so a step *)
(* of one leaves the variables of the others alone.                        *)
(***************************************************************************)
EXTENDS Integers, Sequences, SequencesExt, FiniteSets

CONSTANTS
    Properties, NoProperty, Syncs, MaxWeek, MaxRevisions,
    Signals, Loss, Chance, Reqs, NoImpact, MaxAudits, MaxTasks,
    Attempts, MaxStalls, Digests, Members, Slots,
    Settings        \* what may happen in a behaviour

VARIABLES
    entitled, week, google, connections, metrics, snapshots, syncs,
    content, audits, issues, tasks, reqs,
    smtp, wants, due, jobs, rows, execs, mailed, notices,
    setting         \* what happens here, and how often together; never changes

searchVars == <<week, google, connections, metrics, snapshots, syncs>>
backlogVars == <<content, audits, issues, tasks, reqs>>
digestVars == <<smtp, wants, due, jobs, rows, execs, mailed, notices>>
vars == <<entitled, searchVars, backlogVars, digestVars, setting>>

(* The digest counts tasks that are neither DONE nor IGNORED and past their date. *)
Overdue == \E i \in DOMAIN tasks : tasks[i].late /\ tasks[i].status # "DONE"

S == INSTANCE SearchConsole
B == INSTANCE Backlog
D == INSTANCE Deliverables WITH overdue <- Overdue

(* What happens in a behaviour: how many syncs, requests and executions may run    *)
(* together, whether there are insights and a task already, and what may be done.   *)
Setting == [syncs: Nat, kinds: SUBSET S!Kinds, weeks: Nat, revisions: Nat, pages: SUBSET S!Pages,
            connects: Nat, past: BOOLEAN, lapses: BOOLEAN,
            reqs: Nat, acts: SUBSET {"audit", "triage", "create", "change", "assign"}, tasks: {0, 1},
            slots: Nat, prefs: SUBSET SUBSET D!Mails, locks: BOOLEAN]

ASSUME ReportsAssumption ==
    /\ Settings \subseteq Setting
    /\ \A s \in Settings : /\ s.past => Properties # {} /\ MaxWeek >= 1
                           /\ s.tasks = 1 => Signals # {}
    /\ MaxWeek \in Nat /\ MaxRevisions \in Nat \ {0} /\ MaxAudits \in Nat \ {0}
    /\ IsFiniteSet(Properties) /\ IsFiniteSet(Syncs) /\ IsFiniteSet(Reqs) /\ IsFiniteSet(Slots) /\ IsFiniteSet(Signals)
    /\ NoProperty \notin Properties /\ Digests # {}

ASSUME QueueAssumption == D!QueueAssumption

TypeOK ==
    /\ entitled \in BOOLEAN
    /\ S!SearchTypes
    /\ content \subseteq Signals
    /\ audits \in 0 .. MaxAudits + Cardinality(Reqs)
    /\ \A f \in B!Findings : issues[f].status \in B!IssueStatuses \cup {"none"} /\ issues[f].audit \in 0 .. audits
    /\ \A i \in DOMAIN tasks : tasks[i].source \in B!Sources /\ tasks[i].status \in B!TaskStatuses
    /\ D!DigestTypes

(* Two weeks of insights that were synced before. *)
Synced ==
    LET p == CHOOSE q \in Properties : TRUE
        Snapshot(w, page) == [property |-> p, week |-> w, report |-> [rev |-> 1, page |-> page]]
    IN  /\ connections = <<p>>
        /\ snapshots = <<Snapshot(1, "low"), Snapshot(0, "high")>>
        /\ week = 1
        /\ google = [q \in Properties |-> [w \in S!Weeks |-> [rev |-> 1, page |-> "low"]]]
        /\ metrics = [q \in Properties |-> [w \in S!Weeks |-> 0]]
        /\ syncs = [s \in Syncs |-> S!NoSync]

(* A task from an audit of the page's content. *)
WithTask ==
    LET f == CHOOSE g \in Signals : TRUE
    IN  /\ content = {f}
        /\ audits = 1
        /\ issues = [[g \in B!Findings |-> B!NoIssue] EXCEPT ![f] = [@ EXCEPT !.status = "OPEN", !.audit = 1]]
        /\ tasks = <<B!Task(<<"audit", f>>, NoImpact)>>
        /\ reqs = [r \in Reqs |-> B!IdleReq]

Init ==
    /\ setting \in Settings
    /\ entitled = TRUE
    /\ IF setting.past THEN Synced ELSE S!Init
    /\ IF setting.tasks = 1 THEN WithTask ELSE B!Init
    /\ D!Init
    /\ setting.reqs = 0 => content = {}
    /\ setting.slots = 0 => smtp

-----------------------------------------------------------------------------
(* Who asks matters while the plan may lapse; a property nobody asks for stays as it is. *)
Searching ==
    /\ \/ \E p \in Properties :
             \/ Cardinality(ToSet(connections) \cup {p}) <= setting.connects /\ (S!Connect(p) \/ S!SelectProperty(p))
             \/ /\ p \in ToSet(connections) /\ google[p][week].rev < setting.revisions
                /\ \E page \in setting.pages : S!Revise(p, page)
       \/ \E s \in Syncs :
             \/ \E kind \in setting.kinds, byWorker \in {TRUE, ~setting.lapses} :
                   S!SyncRead(s, kind, byWorker)
             \/ S!SyncQuery(s) \/ S!StoreMetrics(s) \/ S!StoreInsights(s) \/ S!SyncFails(s)
       \/ week < setting.weeks /\ S!WeekPasses
    /\ Cardinality({s \in Syncs : syncs'[s].pc # "idle"}) <= setting.syncs
    /\ UNCHANGED <<entitled, backlogVars, digestVars, setting>>

Allowed(act) == act \in setting.acts

Request(r) ==
    \/ Allowed("audit") /\ (B!AuditRead(r) \/ B!AuditWrite(r))
    \/ /\ Allowed("triage")
       /\ \/ \E f \in B!Findings, st \in B!IssueStatuses : B!TriageRead(r, f, st)
          \/ B!TriageWrite(r)
    \/ /\ Allowed("create")
       /\ \/ \E f \in B!Findings : B!FromIssueRead(r, f)
          \/ \E a \in 1 .. audits, st \in B!IssueStatuses : B!FromAuditRead(r, a, st)
          \/ \E c \in Signals \cup {Chance} : B!FromCandidateRead(r, c)
          \/ B!CreateWrite(r)
    \/ /\ Allowed("change")
       /\ \/ \E i \in DOMAIN tasks :
                \/ \E st \in B!TaskStatuses : B!StatusRead(r, i, st)
                \/ \E o \in {"verified", "cleared"} : B!OutcomeRead(r, i, o)
          \/ B!StatusWrite(r) \/ B!OutcomeWrite(r)
    \/ /\ Allowed("assign")
       /\ \/ \E i \in DOMAIN tasks, d \in {"past", "none"} : B!DueRead(r, i, d)
          \/ B!DueWrite(r)
    \/ B!Abandon(r)

Working ==
    /\ \/ \E r \in Reqs : Request(r)
       \/ \E f \in Signals : Allowed("audit") /\ B!ContentChanges(f)
    /\ Cardinality({r \in Reqs : reqs'[r].pc # "idle"}) <= setting.reqs
    /\ UNCHANGED <<entitled, searchVars, digestVars, setting>>

Mailing ==
    /\ setting.slots > 0
    /\ \/ D!DigestStep
       \/ \E s \in Slots : setting.locks /\ D!LosesLock(s)
       \/ \E m \in Members, mails \in setting.prefs : D!Prefer(m, mails)
    /\ Cardinality({s \in Slots : execs'[s].pc # "idle"}) <= setting.slots
    /\ UNCHANGED <<entitled, searchVars, backlogVars, setting>>

PlanChanges ==
    /\ setting.lapses
    /\ entitled' = ~entitled
    /\ UNCHANGED <<searchVars, backlogVars, digestVars, setting>>

Next == Searching \/ Working \/ Mailing \/ PlanChanges

Spec == Init /\ [][Next]_vars

-----------------------------------------------------------------------------
(* Evidence *)

OneSync == setting.syncs <= 1
OneRequest == setting.reqs <= 1

(***************************************************************************)
(* Syncs that do not overlap: what is stored for a property and week never *)
(* goes back to an older report, although jobs are repeated and the        *)
(* property in force changes while a sync runs (saveDailyMetrics,          *)
(* replaceInsights).                                                       *)
(***************************************************************************)
Stored(list, p, w) ==
    LET own == {n \in ToSet(list) : n.property = p /\ n.week = w}
    IN  IF own = {} THEN 0 ELSE (CHOOSE n \in own : TRUE).report.rev

StoredAdvances ==
    [][OneSync => \A p \in Properties, w \in S!Weeks :
          /\ metrics'[p][w] >= metrics[p][w]
          /\ Stored(snapshots', p, w) \in {0} \cup Stored(snapshots, p, w) .. MaxRevisions]_vars

(***************************************************************************)
(* A property's insights only become the last ones by a sync of a property *)
(* that was in force when the sync began; while connections stay, audits   *)
(* read the property in force (loadLatestDbInsightSnapshot).               *)
(***************************************************************************)
AuditsReadInForce ==
    (setting.connects <= 1 /\ snapshots # <<>>) => snapshots[1].property = connections[1]

(***************************************************************************)
(* Audits, triage and task requests one at a time: once a finding has a    *)
(* baseline, an audit with new insights measures against the same one      *)
(* (QA_CHECKLIST.md:247 "a fixed first-observed tracking baseline"), as    *)
(* long as every audit in between finds the page in the insights.          *)
(***************************************************************************)
BaselinesKept ==
    [][OneRequest => \A f \in B!Findings :
          (issues[f].baseline # NoImpact /\ issues'[f].impact # NoImpact)
             => issues'[f].baseline = issues[f].baseline]_vars

(***************************************************************************)
(* However requests meet, what a member decided on a finding is only       *)
(* changed by a member (QA_CHECKLIST.md:260 "preserve triaged issue        *)
(* status"), and no finding is lost.                                       *)
(***************************************************************************)
TriageSurvives ==
    [][\A f \in B!Findings :
          (issues[f].status # "none" /\ issues'[f].status # issues[f].status)
             => \E r \in Reqs : reqs[r].pc = "triage" /\ issues'[f].status = reqs[r].next]_vars

EvidenceKept == StoredAdvances /\ []AuditsReadInForce /\ BaselinesKept /\ TriageSurvives

-----------------------------------------------------------------------------
(* Backlog *)

(***************************************************************************)
(* Requests one at a time: a finding and a candidate have one task each    *)
(* (QA_CHECKLIST.md:150, 151 "without duplicates"), whichever of the three *)
(* requests creates it; each further request that may meet them lets in at *)
(* most one more.  One at a time only a task that is DONE has an outcome,  *)
(* so the digest never counts work that was taken up again as improved.    *)
(***************************************************************************)
DuplicatesBounded ==
    \A source \in B!Sources : Cardinality(B!Rows(source)) <= IF OneRequest THEN 1 ELSE setting.reqs

OutcomesOfDone == OneRequest => \A i \in DOMAIN tasks : tasks[i].outcome => tasks[i].status = "DONE"

TasksAgree == DuplicatesBounded /\ OutcomesOfDone

(***************************************************************************)
(* What was found, decided and done is neither lost nor told twice: the    *)
(* evidence and the tasks, each as far as its part above says.             *)
(***************************************************************************)
WorkIsKept == EvidenceKept /\ []TasksAgree

(***************************************************************************)
(* Requests one at a time: whatever syncs run, every step does what one    *)
(* operation of the in-memory repository does, or nothing it would see.    *)
(* Tasks of candidates are not compared, as it has none.                   *)
(***************************************************************************)
AuditTasks == {i \in DOMAIN tasks : tasks[i].source[1] = "audit"}

Dev == INSTANCE DevReports WITH
    Weeks <- S!Weeks, Revisions <- 0 .. MaxRevisions, Reports <- S!Report, Findings <- B!Findings,
    issues <- [f \in B!Findings |-> [status |-> issues[f].status, audit |-> issues[f].audit]],
    tasks <- [i \in AuditTasks |-> [of |-> tasks[i].source[2], status |-> tasks[i].status,
                                    outcome |-> tasks[i].outcome, late |-> tasks[i].late]]

MatchesDevReports == [][OneRequest => Dev!Next]_(Dev!devVars)

-----------------------------------------------------------------------------
(* Digests *)

(***************************************************************************)
(* However executions overlap: every member picked by the execution that   *)
(* settled a row as DELIVERED was mailed, and nobody gets more copies than *)
(* a job has attempts and lost locks.                                      *)
(***************************************************************************)
DigestsReachAll ==
    \A s \in Slots : (D!At(s, "ack") /\ rows[execs[s].digest] = "DELIVERED")
        => \A m \in execs[s].recipients : mailed[execs[s].digest][m] >= 1

FewCopies == \A d \in Digests, m \in Members : mailed[d][m] <= D!Executions

(***************************************************************************)
(* Executions that do not overlap: once the row is settled nobody is       *)
(* mailed again, it stays settled and is told of once, although the        *)
(* scheduler and the job run again after a crash (API_SPEC.md:668          *)
(* "Deterministic job and database keys prevent duplicate delivery").      *)
(***************************************************************************)
SettledStaysQuiet ==
    [][setting.slots <= 1 => \A d \in Digests :
          /\ D!Settled(d) => mailed'[d] = mailed[d] /\ rows'[d] = rows[d]
          /\ notices'[d] <= 1]_vars

DigestsDelivered == [](DigestsReachAll /\ FewCopies) /\ SettledStaysQuiet
=============================================================================
