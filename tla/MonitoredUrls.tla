---------------------------- MODULE MonitoredUrls ----------------------------
(***************************************************************************)
(* Which URLs of a site are monitored, and the cap on the active ones      *)
(* (SCCC_MAX_MONITORED_URLS_PER_SITE): createMonitoredUrlForSite and       *)
(* updateMonitoredUrlStatus of app-repository.ts count the active rows,    *)
(* then write in a transaction that does not count again.                  *)
(***************************************************************************)
EXTENDS Integers, FiniteSets

CONSTANTS
    Urls,
    NoUrl,          \* the URL of a request that is not in flight
    UrlReqs,        \* requests that may be in flight together
    MaxActive       \* SCCC_MAX_MONITORED_URLS_PER_SITE

VARIABLES
    watched,        \* MonitoredUrl row of each URL: "none", "active" or "paused"
    urlReqs         \* handlers between their reads and their transaction

urlVars == <<watched, urlReqs>>

UrlRequest == [pc: {"idle", "create", "resume", "pause"}, url: Urls \cup {NoUrl}]
IdleUrl == [pc |-> "idle", url |-> NoUrl]

UrlTypes ==
    /\ watched \in [Urls -> {"none", "active", "paused"}]
    /\ urlReqs \in [UrlReqs -> UrlRequest]

Init ==
    /\ watched = [u \in Urls |-> "none"]
    /\ urlReqs = [r \in UrlReqs |-> IdleUrl]

Active == {u \in Urls : watched[u] = "active"}
BusyUrls == {r \in UrlReqs : urlReqs[r].pc # "idle"}

Begin(r, pc, u) ==
    /\ urlReqs[r].pc = "idle"
    /\ urlReqs' = [urlReqs EXCEPT ![r] = [pc |-> pc, url |-> u]]
    /\ UNCHANGED watched

End(r) == urlReqs' = [urlReqs EXCEPT ![r] = IdleUrl]

(* Whether the URL has a row already shows only when it is inserted. *)
CreateRead(r, u) ==
    /\ Cardinality(Active) < MaxActive
    /\ Begin(r, "create", u)

CreateWrite(r) ==
    LET u == urlReqs[r].url
    IN  /\ urlReqs[r].pc = "create"
        /\ watched' = IF watched[u] = "none" THEN [watched EXCEPT ![u] = "active"] ELSE watched
        /\ End(r)

ResumeUncounted(r, u) ==                        \* mutant: resuming is not held to the cap
    /\ watched[u] # "none"
    /\ Begin(r, "resume", u)

(* A row that is active already is not held to the cap. *)
ResumeRead(r, u) ==
    /\ watched[u] # "none"
    /\ watched[u] = "paused" => Cardinality(Active) < MaxActive
    /\ Begin(r, "resume", u)

ResumeWrite(r) ==
    /\ urlReqs[r].pc = "resume"
    /\ watched' = [watched EXCEPT ![urlReqs[r].url] = "active"]
    /\ End(r)

PauseRead(r, u) ==
    /\ watched[u] # "none"
    /\ Begin(r, "pause", u)

PauseWrite(r) ==
    /\ urlReqs[r].pc = "pause"
    /\ watched' = [watched EXCEPT ![urlReqs[r].url] = "paused"]
    /\ End(r)

AbandonUrl(r) ==
    /\ urlReqs[r].pc # "idle"
    /\ End(r)
    /\ UNCHANGED watched

Next ==
    \/ \E r \in UrlReqs, u \in Urls : CreateRead(r, u) \/ ResumeRead(r, u) \/ PauseRead(r, u)
    \/ \E r \in UrlReqs : CreateWrite(r) \/ ResumeWrite(r) \/ PauseWrite(r) \/ AbandonUrl(r)

Spec == Init /\ [][Next]_urlVars
=============================================================================
