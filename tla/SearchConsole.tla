---------------------------- MODULE SearchConsole ----------------------------
(***************************************************************************)
(* What one site knows from Google Search Console.  A property of the      *)
(* site's Google account is connected or selected (app-repository.ts); the *)
(* worker (apps/worker/src/gsc) and members (gsc-metrics.ts,               *)
(* gsc-insights.ts) then copy daily metrics and page insights of the       *)
(* property used last.  A sync reads the connection, asks Google and       *)
(* stores the answer, with nothing held in between: the property may       *)
(* change, and another sync may overtake it.                               *)
(*                                                                         *)
(* Google's report of a property over one week is its revision and what it *)
(* says of the one page that is followed: clicks are "high" or "low", the  *)
(* page is "absent" from the rows, or there are no rows at all ("empty").  *)
(* Date ranges are weeks, as insights are only compared a week apart.  One *)
(* refresh token stands for all; rows are never disconnected by any code.  *)
(***************************************************************************)
EXTENDS Integers, Sequences, SequencesExt

CONSTANTS
    Properties,
    NoProperty,     \* the property of a sync that is not running
    Syncs,          \* syncs that may run together
    MaxWeek,        \* bound on time
    MaxRevisions    \* bound on changes of a report

VARIABLES
    entitled,       \* input: the plan in force includes "gscImpact"
    week,           \* the week that a sync asks for
    google,         \* Google's report of a property and week
    connections,    \* GscConnection rows' properties, latest updatedAt first
    metrics,        \* revision the GscDailyMetric rows of a property and week hold, 0 for none
    snapshots,      \* GscSearchInsight rows by property and week, latest syncedAt first
    syncs           \* syncs between their reads and their transaction

searchVars == <<week, google, connections, metrics, snapshots, syncs>>

Weeks == 0 .. MaxWeek
Pages == {"high", "low", "absent", "empty"}
Report == [rev: 0 .. MaxRevisions, page: Pages]
NoReport == [rev |-> 0, page |-> "empty"]
Kinds == {"metrics", "insights"}
Sync == [pc: {"idle", "query", "store"}, kind: Kinds, byWorker: BOOLEAN,
         property: Properties \cup {NoProperty}, week: Weeks, got: Report]
NoSync == [pc |-> "idle", kind |-> "metrics", byWorker |-> TRUE, property |-> NoProperty,
           week |-> 0, got |-> NoReport]

SearchTypes ==
    /\ week \in Weeks
    /\ google \in [Properties -> [Weeks -> Report]]
    /\ metrics \in [Properties -> [Weeks -> 0 .. MaxRevisions]]
    /\ connections \in Seq(Properties)
    /\ snapshots \in Seq([property: Properties, week: Weeks, report: Report])
    /\ syncs \in [Syncs -> Sync]
    /\ IsInjective(connections)
    /\ \A i, j \in DOMAIN snapshots :
          (snapshots[i].property = snapshots[j].property /\ snapshots[i].week = snapshots[j].week) => i = j

Init ==
    /\ week = 0
    /\ google = [p \in Properties |-> [w \in Weeks |-> [rev |-> 1, page |-> "high"]]]
    /\ connections = <<>>
    /\ metrics = [p \in Properties |-> [w \in Weeks |-> 0]]
    /\ snapshots = <<>>
    /\ syncs = [s \in Syncs |-> NoSync]

Running == {s \in Syncs : syncs[s].pc # "idle"}

(* The connection that syncs and property lists use; its token and account serve *)
(* every property.                                                               *)
InForce == Head(connections)

(* A list without these rows, in the order it had. *)
Without(list, rows) ==
    LET kept[i \in Nat] == IF i = 0 THEN <<>>
                           ELSE IF list[i] \in rows THEN kept[i - 1] ELSE Append(kept[i - 1], list[i])
    IN  kept[Len(list)]

Use(p) ==
    /\ connections' = <<p>> \o Without(connections, {p})
    /\ UNCHANGED <<week, google, metrics, snapshots, syncs>>

(* upsertGscConnection, after the consent at Google *)
Connect(p) == entitled /\ Use(p)

(* selectGscConnectionProperty takes the token in force to another property. *)
SelectProperty(p) == entitled /\ connections # <<>> /\ Use(p)

SyncRead(s, kind, byWorker) ==
    /\ syncs[s].pc = "idle" /\ connections # <<>>
    /\ byWorker => entitled
    /\ syncs' = [syncs EXCEPT ![s] = [pc |-> "query", kind |-> kind, byWorker |-> byWorker,
                                      property |-> InForce, week |-> week, got |-> NoReport]]
    /\ UNCHANGED <<week, google, connections, metrics, snapshots>>

SyncQuery(s) ==
    /\ syncs[s].pc = "query"
    /\ syncs' = [syncs EXCEPT ![s].pc = "store", ![s].got = google[syncs[s].property][syncs[s].week]]
    /\ UNCHANGED <<week, google, connections, metrics, snapshots>>

End(s) == syncs' = [syncs EXCEPT ![s] = NoSync]

(* Only a member's sync looks at the plan again. *)
MayStore(s) == syncs[s].byWorker \/ entitled

(* Rows are updated or added by date, never removed. *)
StoreMetrics(s) ==
    LET sync == syncs[s]
    IN  /\ sync.pc = "store" /\ sync.kind = "metrics" /\ MayStore(s)
        /\ metrics' = IF sync.got.page = "empty" THEN metrics
                      ELSE [metrics EXCEPT ![sync.property][sync.week] = sync.got.rev]
        /\ End(s)
        /\ UNCHANGED <<week, google, connections, snapshots>>

InsightsOf(p, w) == {n \in ToSet(snapshots) : n.property = p /\ n.week = w}

(* The rows of this property and range are deleted and the new ones added. *)
StoreInsights(s) ==
    LET sync == syncs[s]
        others == Without(snapshots, InsightsOf(sync.property, sync.week))
    IN  /\ sync.pc = "store" /\ sync.kind = "insights" /\ MayStore(s)
        /\ snapshots' =
              IF sync.got.page = "empty" THEN others
              ELSE <<[property |-> sync.property, week |-> sync.week, report |-> sync.got]>> \o others
        /\ End(s)
        /\ UNCHANGED <<week, google, connections, metrics>>

(* Google or the database fails, or the process ends; the worker's job runs again. *)
SyncFails(s) ==
    /\ syncs[s].pc # "idle"
    /\ End(s)
    /\ UNCHANGED <<week, google, connections, metrics, snapshots>>

(* Google's numbers of the current week settle. *)
Revise(p, page) ==
    LET now == google[p][week]
    IN  /\ now.rev < MaxRevisions /\ page # now.page
        /\ google' = [google EXCEPT ![p][week] = [rev |-> now.rev + 1, page |-> page]]
        /\ UNCHANGED <<week, connections, metrics, snapshots, syncs>>

WeekPasses ==
    /\ week < MaxWeek
    /\ week' = week + 1
    /\ UNCHANGED <<google, connections, metrics, snapshots, syncs>>
=============================================================================
