--------------------------- MODULE RegressionRules ---------------------------
(***************************************************************************)
(* The pure part of URL monitoring (packages/monitoring): which events a   *)
(* pair of snapshots gives, and which regressions the rules see in them.   *)
(*                                                                         *)
(* A snapshot keeps the fields some rule looks at; title, headings, text,  *)
(* structured data, redirect target and response time are one field, other, *)
(* whose change is one INFO event.                                         *)
(***************************************************************************)
EXTENDS Naturals, Sequences, FiniteSets

CONSTANTS HttpStatuses,   \* status codes a crawl can end with
          Canonicals,     \* canonical URLs, and the absence of one
          Directives,     \* robots directives, and the absence of one
          Noindex         \* the directives that contain "noindex"

ASSUME RulesAssumption ==
    /\ HttpStatuses \subseteq Nat
    /\ Noindex \subseteq Directives

SnapshotFields == [httpStatus : HttpStatuses, canonical : Canonicals, metaRobots : Directives,
                   xRobotsTag : Directives, hasGa4 : BOOLEAN, hasGtm : BOOLEAN, other : BOOLEAN]

EventTypes == {"page_became_404", "http_status_changed", "canonical_changed",
               "page_became_noindex", "robots_changed", "ga4_missing", "gtm_missing",
               "other_changed"}
Severities == {"INFO", "WARNING", "CRITICAL"}

Fields == {"httpStatus", "canonical", "metaRobots", "xRobotsTag", "hasGa4", "hasGtm", "other"}

\* from, to: the snapshots compared; the code keeps the two values of field.
DetectedEvent == [type : EventTypes, severity : Severities, field : Fields,
                  from : SnapshotFields, to : SnapshotFields]
-----------------------------------------------------------------------------
(***************************************************************************)
(* diffSnapshots.                                                          *)
(***************************************************************************)
When(cond, type, severity, field, prev, cur) ==
    IF cond THEN <<[type |-> type, severity |-> severity, field |-> field, from |-> prev, to |-> cur]>>
    ELSE <<>>

StatusEventsStrict(prev, cur) ==                \* mutant: only a 200 counts as a working page
    LET down == prev.httpStatus = 200 /\ cur.httpStatus >= 400
    IN  When(prev.httpStatus # cur.httpStatus,
             IF down /\ cur.httpStatus = 404 THEN "page_became_404" ELSE "http_status_changed",
             IF down THEN "CRITICAL" ELSE "WARNING", "httpStatus", prev, cur)

StatusEvents(prev, cur) ==
    LET down == prev.httpStatus < 400 /\ cur.httpStatus >= 400
    IN  When(prev.httpStatus # cur.httpStatus,
             IF down /\ cur.httpStatus = 404 THEN "page_became_404" ELSE "http_status_changed",
             IF down THEN "CRITICAL" ELSE "WARNING", "httpStatus", prev, cur)

\* The meta tag and the header are compared each on its own.
RobotsEvents(field, prev, cur) ==
    LET became == prev[field] \notin Noindex /\ cur[field] \in Noindex
    IN  When(prev[field] # cur[field],
             IF became THEN "page_became_noindex" ELSE "robots_changed",
             IF became THEN "CRITICAL" ELSE "WARNING", field, prev, cur)

LostEvents(field, type, prev, cur) ==
    When(prev[field] /\ ~cur[field], type, "CRITICAL", field, prev, cur)

Diff(prev, cur) ==
    StatusEvents(prev, cur)
    \o When(prev.canonical # cur.canonical, "canonical_changed", "CRITICAL", "canonical", prev, cur)
    \o RobotsEvents("metaRobots", prev, cur) \o RobotsEvents("xRobotsTag", prev, cur)
    \o LostEvents("hasGa4", "ga4_missing", prev, cur) \o LostEvents("hasGtm", "gtm_missing", prev, cur)
    \o When(prev.other # cur.other, "other_changed", "INFO", "other", prev, cur)
-----------------------------------------------------------------------------
(***************************************************************************)
(* detectRegressions.  found is the sequence of events just persisted,     *)
(* traffic the severity of the Search Console signal ("none" also when     *)
(* there is no signal), wp whether a WordPress change was reported within  *)
(* the look-back window.  A candidate names its events by their positions. *)
(***************************************************************************)
Rules == {"noindex", "not_found", "tracking_lost", "canonical_traffic", "wordpress_change"}
Traffic == {"none", "medium", "high"}

WordPressTypes == EventTypes \ {"other_changed"}   \* regressionEventTypes
Positions(found, types) == {k \in DOMAIN found : found[k].type \in types}
First(S) == CHOOSE k \in S : \A j \in S : k <= j

Candidate(rule, severity, ks) == <<[rule |-> rule, severity |-> severity, events |-> ks]>>

\* Rules that cite the first event of a type.
FirstOf(found, types, rule, severity) ==
    LET ks == Positions(found, types)
    IN  IF ks = {} THEN <<>> ELSE Candidate(rule, severity, {First(ks)})

TrackingLost(found) ==
    LET ks == Positions(found, {"ga4_missing", "gtm_missing"})
    IN  IF ks = {} THEN <<>> ELSE Candidate("tracking_lost", "CRITICAL", ks)

WordPressChange(found) ==
    LET ks == Positions(found, WordPressTypes)
    IN  IF ks = {} THEN <<>>
        ELSE Candidate("wordpress_change",
                       IF found[First(ks)].severity = "CRITICAL" THEN "CRITICAL" ELSE "WARNING",
                       {First(ks)})

Detect(found, traffic, wp) ==
    FirstOf(found, {"page_became_noindex"}, "noindex", "CRITICAL")
    \o FirstOf(found, {"page_became_404"}, "not_found", "CRITICAL")
    \o TrackingLost(found)
    \o (IF traffic = "none" THEN <<>>
        ELSE FirstOf(found, {"canonical_changed"}, "canonical_traffic",
                     IF traffic = "high" THEN "CRITICAL" ELSE "WARNING"))
    \o (IF wp THEN WordPressChange(found) ELSE <<>>)
=============================================================================
