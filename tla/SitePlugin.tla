------------------------------ MODULE SitePlugin ------------------------------
(***************************************************************************)
(* A site's plugin and its counterpart in the SaaS.  Composes the          *)
(* connection (PluginConnection), the copy of the content (ContentSync),   *)
(* the plugin's audit, whose findings travel with the content              *)
(* (LocalAudit), and the reports of updates (SystemEvents).                *)
(***************************************************************************)
EXTENDS Integers, FiniteSets, Sequences, SequencesExt

CONSTANTS
    Challenges, NoChallenge, Calls,
    Posts, Runs, BatchSize, MaxBatches, MaxEdits,
    Auditors, Admins,
    WpPlugins, WpCore,
    Settings        \* environments: what may be in flight together, and how much happens

ASSUME SyncAssumption ==
    /\ Posts \subseteq Nat \ {0} /\ IsFiniteSet(Posts) /\ IsFiniteSet(Runs)
    /\ BatchSize \in Nat \ {0} /\ MaxBatches \in Nat \ {0} /\ MaxEdits \in Nat
    /\ \A s \in Settings : s.runs \in Nat /\ s.pages \in Nat
    /\ IsFiniteSet(Calls) /\ IsFiniteSet(Auditors) /\ IsFiniteSet(Admins)
    /\ Auditors \cap Admins = {} /\ WpCore \notin WpPlugins

VARIABLES
    challenge, connection, siteStatus, stored, scheduled, calls, minted, before, drifted,
    post, rows, runs,
    audit, due, rules, runner, admin,
    version, known, seeded, hooks, queued, timeline,
    late,           \* history: batches taken over since the site was disconnected
    losses,         \* bound: sync requests that were lost
    setting         \* the environment of this behaviour, chosen at the start

P == INSTANCE PluginConnection
A == INSTANCE LocalAudit WITH NoPost <- 0
E == INSTANCE SystemEvents WITH connected <- stored # 0
C == INSTANCE ContentSync WITH
    token <- stored,
    accepted <- IF connection.live THEN connection.token ELSE 0,
    pageLimit <- setting.pages,
    findings <- A!FindingsForSync

connectionVars == <<challenge, connection, siteStatus, stored, scheduled, calls, minted, before, drifted>>
syncVars == <<post, rows, runs>>
auditVars == <<audit, due, rules, runner, admin>>
eventVars == <<version, known, seeded, hooks, queued, timeline>>
vars == <<connectionVars, syncVars, auditVars, eventVars, late, losses, setting>>

Init ==
    /\ setting \in Settings
    /\ P!Init /\ C!Init /\ A!Init /\ E!Init
    /\ [p \in Posts |-> post[p].kind] \in setting.contents
    /\ late = 0 /\ losses = 0

(* Bounds of the environment: each is a parameter of the setting. *)
Within ==
    /\ Cardinality(P!BusyConnecting) <= setting.calls
    /\ Cardinality(C!BusySyncing) <= setting.runs
    /\ Cardinality(A!BusyAuditing) <= setting.auditing
    /\ Cardinality({c \in Challenges : challenge[c] # "none"}) <= setting.challenges
    /\ setting.stays => \A r \in Calls : calls[r].pc \notin {"authenticated", "site", "disconnect"}
    /\ C!Edits <= setting.edits /\ \A p \in Posts : post[p].kind \in setting.kinds
    /\ losses <= setting.losses
    /\ audit.number + Cardinality({a \in Auditors : runner[a].pc # "idle"}) <= setting.audits
    /\ \A c \in E!Components : version[c] <= setting.versions

Connecting ==
    /\ P!Next
    /\ late' = IF connection'.live THEN 0 ELSE late
    /\ UNCHANGED <<syncVars, auditVars, eventVars, losses>>

TakeOver(r) ==
    /\ C!AcceptWrite(r)
    /\ late' = IF connection.live THEN 0 ELSE late + 1
    /\ UNCHANGED losses

Losing(r) ==
    /\ C!RunLost(r)
    /\ losses' = losses + 1
    /\ UNCHANGED late

StartRun(r) == C!RunStart(r) /\ UNCHANGED <<late, losses>>

GoOn(r) ==
    \/ C!RunStep(r) /\ UNCHANGED <<late, losses>>
    \/ TakeOver(r)

Syncing ==
    /\ \/ C!Author /\ UNCHANGED <<late, losses>>
       \/ \E r \in Runs : StartRun(r) \/ GoOn(r) \/ Losing(r)
    /\ UNCHANGED <<connectionVars, auditVars, eventVars>>

Auditing == setting.audits > 0 /\ A!Next /\ UNCHANGED <<connectionVars, rows, runs, eventVars, late, losses>>

Reporting == setting.versions > 1 /\ UNCHANGED <<connectionVars, syncVars, auditVars, late, losses>> /\ E!Next

Next ==
    /\ Connecting \/ Syncing \/ Auditing \/ Reporting
    /\ UNCHANGED setting
    /\ Within'

Spec == Init /\ [][Next]_vars

TypeOK == P!ConnectionTypes /\ C!SyncTypes /\ A!AuditTypes /\ E!EventTypes

-----------------------------------------------------------------------------
(* Connection *)

(***************************************************************************)
(* Whatever requests are handled together, a site that is shown as         *)
(* connected has a connection in force, and only one that never had any    *)
(* waits for its first (exchangePluginConnectionChallenge and              *)
(* markPluginConnectionDisconnected write both rows).                      *)
(***************************************************************************)
NeverOverstated ==
    /\ siteStatus = "CONNECTED" => connection.live
    /\ siteStatus = "PENDING_CONNECTION" <=> minted = <<>>

(***************************************************************************)
(* Requests handled one at a time, a connection in force is shown.  Two    *)
(* together can hide it: one that found the connection disconnected writes *)
(* DISCONNECTED although the site has been connected again since.          *)
(***************************************************************************)
ConnectionShown == setting.calls = 1 => (connection.live => siteStatus = "CONNECTED")

(* The site's status follows its connection. *)
StatusFollowsConnection == NeverOverstated /\ ConnectionShown

(***************************************************************************)
(* Requests handled one at a time: a challenge connects at most once, and  *)
(* one that was issued before the site was disconnected not any more       *)
(* (markPluginConnectionDisconnected marks it used).                       *)
(***************************************************************************)
ChallengesConnectOnce ==
    [][(setting.calls = 1 /\ minted' # minted) => Last(minted') \notin before \cup ToSet(minted)]_vars

(***************************************************************************)
(* Requests handled one at a time: between requests, both sides agree on   *)
(* the connection, unless a member disconnected the site or an answer was  *)
(* lost and the plugin has not exchanged another challenge since.          *)
(***************************************************************************)
Agreement ==
    (setting.calls = 1 /\ P!BusyConnecting = {} /\ ~drifted)
        => stored = IF connection.live THEN connection.token ELSE 0

(* Both sides believe in the connection of the last challenge that was exchanged. *)
BothSidesAgree == []Agreement /\ ChallengesConnectOnce

-----------------------------------------------------------------------------
(* Content *)

(***************************************************************************)
(* However requests overlap, once a site is disconnected each sync run     *)
(* has at most one more batch taken over, the one that had been let        *)
(* through already (authenticatePluginSyncRequest comes before the         *)
(* transaction).                                                           *)
(***************************************************************************)
DisconnectStopsSync == late <= setting.runs

(***************************************************************************)
(* The plan's limit on pages holds for runs one at a time; each further    *)
(* run can overrun it by at most the batch it has in flight.               *)
(***************************************************************************)
PagesWithinPlan ==
    C!Held # {} => Cardinality(C!Held) <= setting.pages + (setting.runs - 1) * BatchSize

SyncWithinBounds == DisconnectStopsSync /\ PagesWithinPlan

(***************************************************************************)
(* A run handled by itself that ends without a failure has brought over    *)
(* every post it could not miss: those within MAX_SYNC_BATCHES that were   *)
(* left alone while it ran, unless an earlier post came or went and        *)
(* shifted the offsets (SyncScheduler::runSync, collectBatch).             *)
(***************************************************************************)
Reached(p) == C!Position(p) < MaxBatches * BatchSize

RunCoversContent ==
    [][\A r \in Runs :
          (setting.runs = 1 /\ runs[r].pc \in {"collect", "write"} /\ runs'[r].pc = "idle" /\ losses' = losses)
             => \A p \in runs[r].stable : Reached(p) => rows'[p].rev = post[p].rev]_vars

(***************************************************************************)
(* Runs and audits one at a time, each overlapping the other in any way:   *)
(* the copy of a post never goes back to an earlier edit, and its findings *)
(* never to an earlier audit nor to none (preserveAcceptedLocalFindings,   *)
(* findingsForSync).                                                       *)
(***************************************************************************)
CopyNeverGoesBack ==
    [][(setting.runs = 1 /\ setting.auditing = 1) => \A p \in Posts :
          /\ rows'[p].rev >= rows[p].rev
          /\ rows'[p].evidence.audit >= rows[p].evidence.audit]_vars

CopyAdvances == RunCoversContent /\ CopyNeverGoesBack

(***************************************************************************)
(* Audits and rules one at a time: what the next sync says leaves out      *)
(* every finding that is ignored on purpose (handleFindingRule,            *)
(* applyIgnoredRules).                                                     *)
(***************************************************************************)
IgnoredStaysOut ==
    (setting.auditing = 1 /\ A!BusyAuditing = {}) =>
        \A p \in DOMAIN A!FindingsForSync \cap rules : ~A!FindingsForSync[p].bad

-----------------------------------------------------------------------------
(* Updates *)

(***************************************************************************)
(* The timeline tells of an update once, with the version it replaced when *)
(* it tells that at all (onCoreUpdated runs twice for one update).         *)
(***************************************************************************)
UpdatesToldOnce ==
    LET told == timeline \o queued
    IN  /\ \A i, j \in DOMAIN told : (told[i].of = told[j].of /\ told[i].new = told[j].new) => i = j
        /\ \A i \in DOMAIN told : told[i].old \in {0, told[i].new - 1}

(***************************************************************************)
(* What the plugin tells of its own accord, findings and updates, is what  *)
(* its owner wants told and what happened.                                 *)
(***************************************************************************)
PluginTells == IgnoredStaysOut /\ UpdatesToldOnce

-----------------------------------------------------------------------------
(* Catching up *)

(***************************************************************************)
(* The recurring sync is scheduled and run while the site is connected,    *)
(* and a run that has begun goes on.                                       *)
(***************************************************************************)
Others == <<connectionVars, auditVars, eventVars, setting>>

Fairness ==
    /\ WF_vars(P!EnsureSchedule /\ UNCHANGED <<syncVars, auditVars, eventVars, late, losses, setting>>)
    /\ \A r \in Runs : /\ WF_vars(scheduled /\ StartRun(r) /\ UNCHANGED Others)
                       /\ WF_vars(GoOn(r) /\ UNCHANGED Others)

LiveSpec == Spec /\ Fairness

InStep == connection.live /\ stored = connection.token
CopyMatches == \A p \in C!Existing : Reached(p) => rows[p].rev = post[p].rev

(***************************************************************************)
(* A site that stays connected is caught up with: once its authors rest    *)
(* and no more requests are lost, the copy has every post within           *)
(* MAX_SYNC_BATCHES as it is, although runs overlap and overwrite each     *)
(* other's batches.                                                        *)
(***************************************************************************)
CopyCatchesUp == <>[]InStep => <>[]CopyMatches
=============================================================================
