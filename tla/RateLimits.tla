------------------------------ MODULE RateLimits ------------------------------
(***************************************************************************)
(* The rate limiter (rate-limit.ts).  A bucket counts the calls of one     *)
(* policy and key since its first one; when it resets, the next call       *)
(* starts another.  The buckets are in Redis, which all server processes   *)
(* share; a process whose Redis fails, or that has none, counts in its own *)
(* memory.  Redis counts a call whose answer is lost on the way back.      *)
(* Here a caller has one key per policy, and all policies one Limit and    *)
(* Window.  A counter above the limit counts no further: no bucket's       *)
(* answer depends on it.                                                   *)
(***************************************************************************)
EXTENDS Integers, FiniteSets, Sequences, SequencesExt

CONSTANTS
    Processes,      \* server processes
    Limit, Window,
    MaxNow          \* bound: units of time

ASSUME LimitsAssumption ==
    /\ "redis" \notin Processes
    /\ Limit \in Nat \ {0} /\ Window \in Nat \ {0} /\ MaxNow \in Nat

VARIABLES
    now,
    buckets,        \* by store and policy: calls counted and when the bucket resets
    passes          \* history: by store and policy, the calls let pass within the last Window,
                    \* when and as which of their bucket

limitVars == <<now, buckets, passes>>

Stores == Processes \cup {"redis"}

LimitsInit == now = 0 /\ buckets = <<>> /\ passes = <<>>

PassesOf(key) == IF key \in DOMAIN passes THEN passes[key] ELSE {}

-----------------------------------------------------------------------------

Unexpired(key) == key \in DOMAIN buckets /\ buckets[key].resetAt > now

(* increment: the bucket after one more call *)
Incremented(key) ==
    IF Unexpired(key)
    THEN [buckets[key] EXCEPT !.count = IF @ > Limit THEN @ ELSE @ + 1]
    ELSE [count |-> 1, resetAt |-> now + Window]

AllowedOneMore(bucket) == bucket.count <= Limit + 1     \* mutant: compares the count before

Allowed(bucket) == bucket.count <= Limit

(* The stores that count a call, the last of them the one that answers: *)
(* getConfiguredBackend has none, Redis answers, or its answer is lost.   *)
Counting(process) == {<<process>>, <<"redis">>, <<"redis", process>>}

(* checkRateLimit, asked by a process *)
Charge(policy, stores, passed) ==
    LET keys == {[store |-> store, policy |-> policy] : store \in ToSet(stores)}
        key == [store |-> Last(stores), policy |-> policy]
    IN  /\ passed = Allowed(Incremented(key))
        /\ buckets' = [k \in DOMAIN buckets \cup keys |->
                           IF k \in keys THEN Incremented(k) ELSE buckets[k]]
        /\ passes' = IF passed
                     THEN [k \in DOMAIN passes \cup {key} |->
                               IF k = key
                               THEN PassesOf(key) \cup {[at |-> now, nth |-> Incremented(key).count]}
                               ELSE passes[k]]
                     ELSE passes
        /\ UNCHANGED now

(* Buckets that have reset and passes a whole Window ago no longer count. *)
Pass ==
    /\ now < MaxNow
    /\ now' = now + 1
    /\ UNCHANGED buckets
    /\ passes' = [key \in DOMAIN passes |-> {pass \in passes[key] : pass.at > now' - Window}]

(* A process ends and with it what it counted. *)
Restart(process) ==
    /\ \E key \in DOMAIN buckets : key.store = process
    /\ buckets' = [key \in {k \in DOMAIN buckets : k.store # process} |-> buckets[key]]
    /\ passes' = [key \in {k \in DOMAIN passes : k.store # process} |-> passes[key]]
    /\ UNCHANGED now

(***************************************************************************)
(* The window does not slide: it begins with a bucket's first call, and a  *)
(* full bucket may reset in the middle of any period that long.  So a      *)
(* store that keeps its memory lets at most twice the limit less one pass  *)
(* in a period of one Window.                                              *)
(***************************************************************************)
WindowBound == \A key \in DOMAIN passes : Cardinality(passes[key]) <= 2 * Limit - 1
=============================================================================
