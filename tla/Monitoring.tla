----------------------------- MODULE Monitoring -----------------------------
(***************************************************************************)
(* The scans of one monitored URL: apps/worker/src/monitoring, with the    *)
(* SaaS handlers that pause it and ask for a rescan, and the repeatable    *)
(* scheduler job.                                                          *)
(*                                                                         *)
(* A scan job reads the latest snapshot, crawls the page, saves a new      *)
(* snapshot, then its events one by one, then the regressions the rules    *)
(* see in these events one by one: every save is a transaction of its own. *)
(* A job that dies or throws in between is run again from its start.       *)
(***************************************************************************)
EXTENDS JobQueue, RegressionRules

CONSTANTS Versions,    \* what the live page can look like
          Slots,       \* concurrent job slots of the worker processes
          Interval,    \* monitoringRescanIntervalHours, in clock ticks
          MaxClock,    \* bound on time
          MaxRescans,  \* bound on manual rescans, the one at creation included
          Settings     \* the environments considered, see Setting

\* An environment: what the page can look like, how many slots work at once,
\* how long and with how many manual rescans, what a scan can find (a traffic
\* signal, a WordPress change), and what can go wrong.
Setting == [versions : SUBSET Versions, slots : Nat, clock : 0 .. MaxClock, rescans : 0 .. MaxRescans,
            signals : SUBSET (Traffic \X BOOLEAN),
            faults : SUBSET {"crawlError", "jobError", "crash", "stall", "late", "pause"}]

ASSUME MonitoringAssumption ==
    /\ Versions \subseteq SnapshotFields /\ Versions # {}
    /\ Interval \in Nat \ {0} /\ MaxClock \in Nat /\ MaxRescans \in Nat
    /\ Settings \subseteq Setting

VARIABLES setting,     \* the environment, fixed
          page,        \* the live page
          active,      \* MonitoredUrl.isActive
          clock,       \* time, in ticks
          lastTick,    \* 1 + the last window in which the scheduler ran
          snapshots,   \* UrlSnapshot rows in the order of capturedAt
          events,      \* Event rows of source CRAWLER in the order of creation
          regressions, \* Regression rows, each with the events it links
          rescans,     \* manual rescans requested so far
          jobs,        \* the scan jobs Redis knows
          runs         \* what each worker slot is doing

vars == <<setting, page, active, clock, lastTick, snapshots, events, regressions, rescans, jobs, runs>>
-----------------------------------------------------------------------------
Windows == 0 .. MaxClock \div Interval
Window == clock \div Interval

\* Scheduled jobs are named after their window, manual ones after the
\* millisecond they were requested in.
JobIds == ({"scheduled"} \X Windows) \cup ({"manual"} \X (1 .. MaxRescans))

Snapshot == [fields : Versions, isBaseline : BOOLEAN, at : 0 .. MaxClock]
Found == [rule : Rules, severity : Severities, events : SUBSET Nat]
Run == [pc : {"idle", "crawl", "snapshot", "events", "detect", "regressions", "ack"},
        job : JobIds, holds : BOOLEAN, previous : Seq(Versions), fields : Versions,
        todo : Seq(DetectedEvent), ids : Seq(Nat), found : Seq(Found)]

IdleRun == [pc |-> "idle", job |-> <<"scheduled", 0>>, holds |-> FALSE, previous |-> <<>>,
            fields |-> CHOOSE v \in Versions : TRUE, todo |-> <<>>, ids |-> <<>>, found |-> <<>>]

TypeOK ==
    /\ setting \in Settings
    /\ page \in Versions
    /\ active \in BOOLEAN
    /\ clock \in 0 .. MaxClock
    /\ lastTick \in 0 .. 1 + MaxClock \div Interval
    /\ snapshots \in Seq(Snapshot)
    /\ events \in Seq(DetectedEvent)
    /\ regressions \in SUBSET Found
    /\ rescans \in 0 .. MaxRescans
    /\ jobs \in [JobIds -> Job]
    /\ runs \in [Slots -> Run]

Init ==
    /\ setting \in Settings
    /\ page \in setting.versions
    /\ active = TRUE
    /\ clock = 0 /\ lastTick = 0
    /\ snapshots = <<>> /\ events = <<>> /\ regressions = {}
    /\ rescans = 0
    /\ jobs = [j \in JobIds |-> NoJob]
    /\ runs = [s \in Slots |-> IdleRun]

rows == <<snapshots, events, regressions>>
-----------------------------------------------------------------------------
(***************************************************************************)
(* Requests and the scheduler.                                             *)
(***************************************************************************)
\* createMonitoredUrlForSite and rescanMonitoredUrl enqueue a scan at once.
Rescan ==
    /\ rescans < setting.rescans
    /\ rescans' = rescans + 1
    /\ jobs' = [jobs EXCEPT ![<<"manual", rescans + 1>>] = Add(@)]
    /\ UNCHANGED <<setting, page, active, clock, lastTick, rows, runs>>

\* updateMonitoredUrlStatus.
SetActive ==
    /\ "pause" \in setting.faults
    /\ active' = ~active
    /\ UNCHANGED <<setting, page, clock, lastTick, rows, rescans, jobs, runs>>

\* Not captured within the interval before now.
DueTwice ==                                     \* mutant: the cutoff is two intervals back
    snapshots = <<>> \/ snapshots[Len(snapshots)].at + 2 * Interval < clock

Due == snapshots = <<>> \/ snapshots[Len(snapshots)].at + Interval < clock

\* The repeatable job fires once in every window.
ScheduleScan ==
    /\ lastTick <= Window
    /\ lastTick' = Window + 1
    /\ jobs' = IF active /\ Due THEN [jobs EXCEPT ![<<"scheduled", Window>>] = Add(@)] ELSE jobs
    /\ UNCHANGED <<setting, page, active, clock, rows, rescans, runs>>

\* Unless workers may be late, a window only ends when its work is done.
CaughtUp ==
    /\ lastTick = Window + 1
    /\ \A j \in JobIds : ~Queued(jobs[j])

Tick ==
    /\ clock < setting.clock
    /\ "late" \notin setting.faults /\ (clock + 1) \div Interval # Window => CaughtUp
    /\ clock' = clock + 1
    /\ UNCHANGED <<setting, page, active, lastTick, rows, rescans, jobs, runs>>

PageChanges ==
    /\ page' \in setting.versions \ {page}
    /\ UNCHANGED <<setting, active, clock, lastTick, rows, rescans, jobs, runs>>
-----------------------------------------------------------------------------
(***************************************************************************)
(* A worker slot.                                                          *)
(***************************************************************************)
outside == <<setting, page, active, clock, lastTick, rescans>>

Settle(s, outcome) ==
    /\ jobs' = IF runs[s].holds THEN [jobs EXCEPT ![runs[s].job] = outcome] ELSE jobs
    /\ runs' = [runs EXCEPT ![s] = IdleRun]

\* An inactive URL costs the job an attempt.
RejectJob(s, j) ==
    /\ runs[s].pc = "idle" /\ jobs[j].state = "waiting" /\ ~active
    /\ jobs' = [jobs EXCEPT ![j] = Throw(@)]
    /\ UNCHANGED <<outside, rows, runs>>

LatestBaseline ==                               \* mutant: compare with the baseline instead
    IF snapshots = <<>> THEN <<>> ELSE <<snapshots[1].fields>>
Latest == IF snapshots = <<>> THEN <<>> ELSE <<snapshots[Len(snapshots)].fields>>

TakeJob(s, j) ==
    /\ runs[s].pc = "idle" /\ jobs[j].state = "waiting" /\ active
    /\ Cardinality({t \in Slots : runs[t].pc # "idle"}) < setting.slots
    /\ jobs' = [jobs EXCEPT ![j] = Take(@)]
    /\ runs' = [runs EXCEPT ![s] = [IdleRun EXCEPT !.pc = "crawl", !.job = j, !.holds = TRUE,
                                                   !.previous = Latest]]
    /\ UNCHANGED <<outside, rows>>

Crawl(s) ==
    /\ runs[s].pc = "crawl"
    /\ runs' = [runs EXCEPT ![s].pc = "snapshot", ![s].fields = page]
    /\ UNCHANGED <<outside, rows, jobs>>

\* Time-out, redirect loop, refused address: nothing was saved yet.
CrawlFails(s) ==
    /\ "crawlError" \in setting.faults
    /\ runs[s].pc = "crawl"
    /\ Settle(s, Throw(jobs[runs[s].job]))
    /\ UNCHANGED <<outside, rows>>

SaveSnapshot(s) ==
    LET first == runs[s].previous = <<>>
        found == IF first THEN <<>> ELSE Diff(runs[s].previous[1], runs[s].fields)
    IN  /\ runs[s].pc = "snapshot"
        /\ snapshots' = Append(snapshots,
                               [fields |-> runs[s].fields, isBaseline |-> first, at |-> clock])
        /\ runs' = [runs EXCEPT ![s].pc = IF found = <<>> THEN "ack" ELSE "events", ![s].todo = found]
        /\ UNCHANGED <<outside, events, regressions, jobs>>

SaveEvent(s) ==
    LET run == runs[s]
    IN  /\ run.pc = "events"
        /\ events' = Append(events, Head(run.todo))
        /\ runs' = [runs EXCEPT ![s].pc = IF Tail(run.todo) = <<>> THEN "detect" ELSE "events",
                                ![s].todo = Tail(run.todo),
                                ![s].ids = Append(run.ids, Len(events) + 1)]
        /\ UNCHANGED <<outside, snapshots, regressions, jobs>>

DetectByPosition(s) ==                          \* mutant: candidates keep the positions in the run
    /\ runs[s].pc = "detect"
    /\ \E signal \in setting.signals :
          LET ids   == runs[s].ids
              found == Detect([k \in DOMAIN ids |-> events[ids[k]]], signal[1], signal[2])
          IN  runs' = [runs EXCEPT ![s].pc = IF found = <<>> THEN "ack" ELSE "regressions",
                                   ![s].found = found]
    /\ UNCHANGED <<outside, rows, jobs>>

\* Candidates cite the rows just created by their ids.
DetectRegressions(s) ==
    /\ runs[s].pc = "detect"
    /\ \E signal \in setting.signals :
          LET ids   == runs[s].ids
              found == Detect([k \in DOMAIN ids |-> events[ids[k]]], signal[1], signal[2])
              cited == [k \in DOMAIN found |-> [found[k] EXCEPT !.events = {ids[n] : n \in @}]]
          IN  runs' = [runs EXCEPT ![s].pc = IF found = <<>> THEN "ack" ELSE "regressions",
                                   ![s].found = cited]
    /\ UNCHANGED <<outside, rows, jobs>>

\* The fingerprint is made of the URL, the rule and the ids of events this run
\* created: no other run can have saved it, so the look-up never finds one.
SaveRegression(s) ==
    LET run == runs[s]
    IN  /\ run.pc = "regressions"
        /\ regressions' = regressions \cup {Head(run.found)}
        /\ runs' = [runs EXCEPT ![s].pc = IF Tail(run.found) = <<>> THEN "ack" ELSE "regressions",
                                ![s].found = Tail(run.found)]
        /\ UNCHANGED <<outside, snapshots, events, jobs>>

CompleteJob(s) ==
    /\ runs[s].pc = "ack"
    /\ Settle(s, Finish(jobs[runs[s].job]))
    /\ UNCHANGED <<outside, rows>>

\* A database call of the handler fails.
JobFails(s) ==
    /\ "jobError" \in setting.faults
    /\ runs[s].pc \notin {"idle", "ack"}
    /\ Settle(s, Throw(jobs[runs[s].job]))
    /\ UNCHANGED <<outside, rows>>

WorkerCrash(s) ==
    /\ "crash" \in setting.faults
    /\ runs[s].pc # "idle"
    /\ Settle(s, Stall(jobs[runs[s].job]))
    /\ UNCHANGED <<outside, rows>>

\* The lock expires while the handler goes on.
LoseLock(s) ==
    /\ "stall" \in setting.faults
    /\ runs[s].pc # "idle" /\ runs[s].holds
    /\ jobs' = [jobs EXCEPT ![runs[s].job] = Stall(@)]
    /\ runs' = [runs EXCEPT ![s].holds = FALSE]
    /\ UNCHANGED <<outside, rows>>

SlotStep(s) ==
    \/ \E j \in JobIds : RejectJob(s, j) \/ TakeJob(s, j)
    \/ Crawl(s) \/ CrawlFails(s) \/ SaveSnapshot(s) \/ SaveEvent(s)
    \/ DetectRegressions(s) \/ SaveRegression(s) \/ CompleteJob(s)
    \/ JobFails(s) \/ WorkerCrash(s) \/ LoseLock(s)

Next ==
    \/ Rescan \/ SetActive \/ ScheduleScan \/ Tick \/ PageChanges
    \/ \E s \in Slots : SlotStep(s)

Spec == Init /\ [][Next]_vars
-----------------------------------------------------------------------------
(***************************************************************************)
(* Properties under any interleaving of jobs, crashes and lost locks.      *)
(***************************************************************************)

\* The timeline only tells what snapshots show: every event compares two
\* recorded snapshots, the older as its old value.
HonestTimeline ==
    \A k \in DOMAIN events :
        \E j \in DOMAIN snapshots : \E i \in 1 .. j - 1 :
            events[k].from = snapshots[i].fields /\ events[k].to = snapshots[j].fields

\* A regression links recorded events its rule is about, although other runs
\* save theirs in between.
Evidence == [noindex |-> {"page_became_noindex"}, not_found |-> {"page_became_404"},
             tracking_lost |-> {"ga4_missing", "gtm_missing"},
             canonical_traffic |-> {"canonical_changed"}, wordpress_change |-> WordPressTypes]

RegressionEvidence ==
    \A r \in regressions :
        /\ r.events # {}
        /\ \A k \in r.events : k \in DOMAIN events /\ events[k].type \in Evidence[r.rule]

HonestRecords == HonestTimeline /\ RegressionEvidence

(***************************************************************************)
(* Properties of one slot at work.                                         *)
(***************************************************************************)
OneAtATime == setting.slots = 1 /\ "stall" \notin setting.faults
NothingLost == OneAtATime /\ setting.faults \cap {"jobError", "crash"} = {}
Quiet == \A s \in Slots : runs[s].pc = "idle"
Noindexed(v) == v.metaRobots \in Noindex \/ v.xRobotsTag \in Noindex
Adjacent(i) == <<snapshots[i].fields, snapshots[i + 1].fields>>
Steps == 1 .. Len(snapshots) - 1

\* The differences of all consecutive rows, in order.
Differences(saved) ==
    LET upTo[n \in Nat] == IF n < 2 THEN <<>>
                           ELSE upTo[n - 1] \o Diff(saved[n - 1].fields, saved[n].fields)
    IN  upTo[Len(saved)]

\* Every crawl beyond the first is compared with the one before, and between
\* scans the timeline is just these comparisons.
EveryCrawlIsDiffed == Quiet => events = Differences(snapshots)

\* Only the first snapshot is a baseline; and the timeline misses nothing and
\* repeats nothing, whatever crawls fail and whenever the URL is paused, as
\* long as no scan fails after its snapshot.
OneBaseline == OneAtATime => \A k \in DOMAIN snapshots : snapshots[k].isBaseline <=> k = 1

TimelineComplete == OneBaseline /\ (NothingLost => EveryCrawlIsDiffed)

\* Whenever two consecutive snapshots show a page lost to search, by a 404 or
\* by a noindex, a critical regression cites what happened between these two.
Lost(prev, cur) ==
    \/ prev.httpStatus < 400 /\ cur.httpStatus = 404
    \/ ~Noindexed(prev) /\ Noindexed(cur)

LossRaisesRegression ==
    NothingLost /\ Quiet => \A i \in Steps :
        Lost(Adjacent(i)[1], Adjacent(i)[2]) =>
            \E r \in regressions : /\ r.severity = "CRITICAL" /\ r.rule \in {"noindex", "not_found"}
                                   /\ \E k \in r.events : <<events[k].from, events[k].to>> = Adjacent(i)

\* A page that went away is reported once per time it went away, however often
\* the job that saw it was run again.
RegressionPerChange ==
    OneAtATime =>
        Cardinality({r \in regressions : r.rule = "not_found"})
            <= Cardinality({i \in Steps : /\ Adjacent(i)[1].httpStatus < 400
                                          /\ Adjacent(i)[2].httpStatus = 404})

\* What was lost is reported, and nothing else as lost.
RegressionsMatchChanges == LossRaisesRegression /\ RegressionPerChange

\* The timeline and the regressions tell of the changes of the page, all of them and each once.
ChangesAreTold == TimelineComplete /\ RegressionsMatchChanges

\* When a window ends, the URL was scanned in it or in the one before, as long
\* as workers keep up.
NothingFails == setting.faults = {}
ScannedSince(w) == snapshots # <<>> /\ snapshots[Len(snapshots)].at >= w * Interval

RescannedEveryOtherWindow ==
    [][NothingFails /\ clock' # clock /\ clock' \div Interval # Window => ScannedSince(Window - 1)]_vars
=============================================================================
