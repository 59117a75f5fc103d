------------------------------ MODULE JobQueue ------------------------------
(***************************************************************************)
(* The life of one BullMQ job under a deterministic id, as the producers   *)
(* and the worker of this repository see it.                               *)
(*                                                                         *)
(* BullMQ itself is a library outside src/.  What is modelled is what      *)
(* packages/queue configures (three attempts, exponential backoff, bounded *)
(* retention of finished jobs) and what the code relies on: Queue.add with *)
(* a jobId that is still known to Redis adds nothing, a handler that       *)
(* throws costs an attempt, a worker that stops renewing its lock has its  *)
(* job given to another worker at most MaxStalls times.                    *)
(*                                                                         *)
(* The module has no variables: a component keeps one job record per id    *)
(* and applies these operators to it.  A job waiting out its backoff delay *)
(* is "waiting": the delay only bounds when, never whether, it is taken.   *)
(***************************************************************************)
EXTENDS Naturals

CONSTANTS Attempts,    \* defaultJobOptions.attempts
          MaxStalls    \* BullMQ's maxStalledCount

ASSUME QueueAssumption == Attempts \in Nat \ {0} /\ MaxStalls \in Nat

JobStates == {"absent", "waiting", "active", "completed", "failed"}

Job == [state : JobStates, attempts : 0 .. Attempts, stalls : 0 .. MaxStalls]

NoJob == [state |-> "absent", attempts |-> 0, stalls |-> 0]

\* Queue.add(name, data, {jobId}): ignored while the id is known, finished
\* jobs that are still retained included.
Add(job) ==
    IF job.state = "absent" THEN [NoJob EXCEPT !.state = "waiting"] ELSE job

Take(job) == [job EXCEPT !.state = "active"]

Finish(job) == [job EXCEPT !.state = "completed"]

ThrowForever(job) == [job EXCEPT !.state = "waiting", !.attempts = @ + 1]   \* mutant: no last attempt

\* The handler threw.
Throw(job) ==
    IF job.attempts + 1 < Attempts
    THEN [job EXCEPT !.state = "waiting", !.attempts = @ + 1]
    ELSE [job EXCEPT !.state = "failed", !.attempts = Attempts]

\* The lock of an active job expired: the stalled check gives it back, or
\* fails it once it has stalled too often.
Stall(job) ==
    IF job.stalls < MaxStalls
    THEN [job EXCEPT !.state = "waiting", !.stalls = @ + 1]
    ELSE [job EXCEPT !.state = "failed"]

\* removeOnComplete / removeOnFail: enough later jobs of the queue finished
\* for this one to leave the retained sets.
Retained(job) == job.state \in {"completed", "failed"}

Queued(job) == job.state \in {"waiting", "active"}
=============================================================================
