------------------------------ MODULE LocalAudit ------------------------------
(***************************************************************************)
(* The plugin's own content audit (LocalAuditRunner.php, LocalAuditStore.  *)
(* php, LocalAuditSettings.php): a run collects the published posts,       *)
(* inspects them and overwrites the stored audit; the administrator marks  *)
(* a finding as intended, which is kept as a rule and noted in the stored  *)
(* audit.  The options are read and written by separate PHP processes.     *)
(* One finding per post stands for the findings of the engine.             *)
(***************************************************************************)
EXTENDS Integers

CONSTANTS
    Posts,
    NoPost,         \* the post of a rule that is not being changed
    Auditors,       \* processes that may run an audit
    Admins          \* requests of administrators that change a rule

VARIABLES
    post,           \* each post: its kind and the number of times it was edited
    audit,          \* the stored audit; `number' counts the completed ones
    due,            \* an audit has been queued
    rules,          \* posts whose finding is ignored on purpose
    runner,         \* audits between collecting and storing
    admin           \* rule changes between reading and storing the audit

auditVars == <<audit, due, rules, runner, admin>>

Kinds == {"none", "draft", "good", "bad"}       \* "bad": published, and the engine finds something
Verdicts == {"absent", "clear", "active", "ignored"}

Audit == [status: {"none", "queued", "complete", "error"}, items: [Posts -> Verdicts], number: Nat]
Nothing == [p \in Posts |-> "absent"]

NotRunning == [pc |-> "idle", items |-> Nothing]
NotChanging == [pc |-> "idle", post |-> NoPost, ignore |-> FALSE, audit |-> [status |-> "none", items |-> Nothing, number |-> 0]]

AuditTypes ==
    /\ audit \in Audit
    /\ due \in BOOLEAN
    /\ rules \in SUBSET Posts
    /\ runner \in [Auditors -> [pc: {"idle", "collected"}, items: [Posts -> Verdicts]]]
    /\ admin \in [Admins -> [pc: {"idle", "rule"}, post: Posts \cup {NoPost}, ignore: BOOLEAN, audit: Audit]]

Init ==
    /\ audit = [status |-> "none", items |-> Nothing, number |-> 0]
    /\ due = FALSE /\ rules = {}
    /\ runner = [a \in Auditors |-> NotRunning]
    /\ admin = [h \in Admins |-> NotChanging]

BusyAuditing == {a \in Auditors : runner[a].pc # "idle"} \cup {h \in Admins : admin[h].pc # "idle"}

VerdictWithoutRules(p) ==                       \* mutant: applyIgnoredRules is not called
    CASE post[p].kind \in {"none", "draft"} -> "absent"
      [] post[p].kind = "good" -> "clear"
      [] post[p].kind = "bad" -> "active"

(* What a run finds: published posts only, findings that are intended set aside. *)
Verdict(p) ==
    CASE post[p].kind \in {"none", "draft"} -> "absent"
      [] post[p].kind = "good" -> "clear"
      [] post[p].kind = "bad" -> IF p \in rules THEN "ignored" ELSE "active"

(* An administrator asks for an audit, which is queued. *)
QueueAudit ==
    /\ ~due
    /\ due' = TRUE
    /\ audit' = [audit EXCEPT !.status = "queued"]
    /\ UNCHANGED <<rules, runner, admin>>

Collect(a, scheduled) ==
    /\ runner[a].pc = "idle"
    /\ runner' = [runner EXCEPT ![a] = [pc |-> "collected", items |-> [p \in Posts |-> Verdict(p)]]]
    /\ audit' = IF scheduled THEN [audit EXCEPT !.status = "queued"] ELSE audit
    /\ UNCHANGED <<rules, admin>>

AuditQueued(a) == due /\ due' = FALSE /\ Collect(a, FALSE)
AuditScheduled(a) == UNCHANGED due /\ Collect(a, TRUE)

AuditComplete(a) ==
    /\ runner[a].pc = "collected"
    /\ audit' = [status |-> "complete", items |-> runner[a].items, number |-> audit.number + 1]
    /\ runner' = [runner EXCEPT ![a] = NotRunning]
    /\ UNCHANGED <<due, rules, admin>>

(* An exception: the findings of the audit before are gone, too. *)
AuditFail(a) ==
    /\ runner[a].pc = "collected"
    /\ audit' = [audit EXCEPT !.status = "error", !.items = Nothing]
    /\ runner' = [runner EXCEPT ![a] = NotRunning]
    /\ UNCHANGED <<due, rules, admin>>

(* The process is killed: the stored audit stays "queued". *)
AuditKilled(a) ==
    /\ runner[a].pc = "collected"
    /\ runner' = [runner EXCEPT ![a] = NotRunning]
    /\ UNCHANGED <<audit, due, rules, admin>>

(* handleFindingRule: the rule is saved, then the stored audit is read ... *)
RuleSaved(h, p, ignore) ==
    /\ admin[h].pc = "idle" /\ audit.items[p] \in {"active", "ignored"}
    /\ rules' = IF ignore THEN rules \cup {p} ELSE rules \ {p}
    /\ admin' = [admin EXCEPT ![h] = [pc |-> "rule", post |-> p, ignore |-> ignore, audit |-> audit]]
    /\ UNCHANGED <<audit, due, runner>>

(* ... and written back with the finding marked. *)
RuleNoted(h) ==
    LET p == admin[h].post
        read == admin[h].audit
    IN  /\ admin[h].pc = "rule"
        /\ audit' = IF read.items[p] \in {"active", "ignored"}
                      THEN [read EXCEPT !.items[p] = IF admin[h].ignore THEN "ignored" ELSE "active"]
                      ELSE read
        /\ admin' = [admin EXCEPT ![h] = NotChanging]
        /\ UNCHANGED <<due, rules, runner>>

(***************************************************************************)
(* findingsForSync: what the next content sync says of each post; nothing  *)
(* at all unless the stored audit is complete.                             *)
(***************************************************************************)
FindingsForSync ==
    [p \in {q \in Posts : audit.status = "complete" /\ audit.items[q] # "absent"} |->
        [audit |-> audit.number, bad |-> audit.items[p] = "active"]]

Next ==
    /\ \/ QueueAudit
       \/ \E a \in Auditors : \/ AuditQueued(a) \/ AuditScheduled(a)
                              \/ AuditComplete(a) \/ AuditFail(a) \/ AuditKilled(a)
       \/ \E h \in Admins, p \in Posts, ignore \in BOOLEAN : RuleSaved(h, p, ignore)
       \/ \E h \in Admins : RuleNoted(h)
    /\ UNCHANGED post

Spec == Init /\ [][Next]_<<auditVars, post>>
=============================================================================
