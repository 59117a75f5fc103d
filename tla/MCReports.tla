------------------------------ MODULE MCReports ------------------------------
(* Small instances of Reports: two properties, two weeks, one signal, two members. *)
EXTENDS Reports, TLC

CONSTANTS x1, x2, m1, m2

Quiet == [syncs |-> 0, kinds |-> {}, weeks |-> 0, revisions |-> 1, pages |-> {}, connects |-> 0, past |-> FALSE,
          reqs |-> 0, acts |-> {}, tasks |-> 0, slots |-> 0, prefs |-> {}, locks |-> FALSE, lapses |-> FALSE]

(* Syncs, one at a time while the property changes and the plan lapses, and two together. *)
Copying == [Quiet EXCEPT !.syncs = 1, !.kinds = {"metrics", "insights"}, !.revisions = 2,
                         !.pages = {"low", "empty"}, !.connects = 2, !.lapses = TRUE]
CopyingWeeks == [Quiet EXCEPT !.syncs = 1, !.kinds = {"insights"}, !.weeks = 1, !.revisions = 2,
                              !.pages = {"low", "empty"}, !.connects = 2]
CopyingTogether == [Quiet EXCEPT !.syncs = 2, !.kinds = {"metrics", "insights"}, !.revisions = 2,
                                 !.pages = {"low"}, !.connects = 1]

(* Audits with insights that change, one request at a time and two together. *)
Auditing == [Quiet EXCEPT !.past = TRUE, !.syncs = 1, !.kinds = {"insights"}, !.weeks = 1, !.revisions = 3,
                          !.pages = {"high", "low", "absent"}, !.connects = 1, !.reqs = 1, !.acts = {"audit", "triage"}]
AuditingTogether == [Quiet EXCEPT !.past = TRUE, !.reqs = 2, !.acts = {"audit", "triage"}]

(* Tasks, likewise. *)
Creating == [Quiet EXCEPT !.past = TRUE, !.reqs = 1, !.acts = {"audit", "triage", "create"}]
Changing == [Quiet EXCEPT !.past = TRUE, !.reqs = 1, !.acts = {"create", "change", "assign"}, !.tasks = 1]
CreatingTogether == [Quiet EXCEPT !.past = TRUE, !.reqs = 2, !.acts = {"audit", "create"}, !.tasks = 1]

(* The digest, one execution at a time and two that overlap. *)
Reporting == [Quiet EXCEPT !.slots = 1, !.prefs = {{}, {"alert"}}, !.tasks = 1, !.reqs = 1, !.acts = {"assign"},
                           !.lapses = TRUE]
ReportingTogether == [Quiet EXCEPT !.slots = 2, !.locks = TRUE]

Environments == {Copying, CopyingWeeks, CopyingTogether, Auditing, AuditingTogether,
                 Creating, Changing, CreatingTogether, Reporting, ReportingTogether}

Interchangeable == Permutations({x1, x2}) \cup Permutations({m1, m2})
=============================================================================
