---------------------------- MODULE MCMonitoring ----------------------------
EXTENDS Monitoring, TLC

CONSTANTS s1, s2

MCHttpStatuses == {200, 301, 404}
MCCanonicals == {"home", "none"}
MCDirectives == {"none", "noindex"}
MCNoindex == {"noindex"}

Good == [httpStatus |-> 200, canonical |-> "home", metaRobots |-> "none", xRobotsTag |-> "none",
         hasGa4 |-> TRUE, hasGtm |-> TRUE, other |-> TRUE]
Gone == [Good EXCEPT !.httpStatus = 404, !.hasGa4 = FALSE]
\* A redirect without a target is crawled as an empty page.
Moved == [httpStatus |-> 301, canonical |-> "none", metaRobots |-> "none", xRobotsTag |-> "noindex",
          hasGa4 |-> FALSE, hasGtm |-> FALSE, other |-> FALSE]
Hidden == [Good EXCEPT !.metaRobots = "noindex"]
HiddenByHeader == [Good EXCEPT !.xRobotsTag = "noindex"]

NoSignal == {<<"none", FALSE>>}
SomeSignals == {<<"none", FALSE>>, <<"high", TRUE>>}

Interchangeable == Permutations(Slots)

AllVersions == {Good, Gone, Moved, Hidden, HiddenByHeader}
Quick == [versions |-> {Good, Gone}, slots |-> 1, clock |-> 0, rescans |-> 1, signals |-> NoSignal, faults |-> {}]

\* Scans that may not reach the page, and pauses.
Scans == [Quick EXCEPT !.versions = {Good, Gone, Moved}, !.clock = 1, !.rescans = 2, !.signals = SomeSignals,
                       !.faults = {"crawlError", "pause"}]
\* Scans that die or fail between their saves.
Crashes == [Quick EXCEPT !.faults = {"crash", "jobError"}]
\* One job run by two workers.
Duplicates == [Quick EXCEPT !.slots = 2, !.faults = {"stall", "crash"}]
\* Several windows of the scheduler.
Schedule == [Quick EXCEPT !.rescans = 0, !.clock = 7]

Environments == {Scans, Crashes, Duplicates, Schedule}
=============================================================================
