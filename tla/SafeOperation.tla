---------------------------- MODULE SafeOperation ----------------------------
(***************************************************************************)
(* One safe operation (a BulkOperation row with its items) from preview to *)
(* rollback, across the four parties that touch it:                        *)
(*                                                                         *)
(*   - the SaaS handlers of apps/saas/src/lib/app-repository.ts: each reads *)
(*     the row and checks its status, then updates it by id in a later     *)
(*     transaction (PostgreSQL READ COMMITTED, no row lock, no condition   *)
(*     on the update), then enqueues a job;                                *)
(*   - BullMQ (JobQueue), holding an execute and a rollback job under ids  *)
(*     derived from the operation;                                         *)
(*   - the worker slots of apps/worker/src/bulk-operations, which load the *)
(*     operation, call WordPress and record the per-item results;          *)
(*   - the plugin endpoint in WordPress, which writes the pages.           *)
(*                                                                         *)
(* The SEO metadata of a page is what WordPress stores for each field.     *)
(* The endpoint does not hand that out as it is: it reads a JSON value of  *)
(* each field (tags stripped, white space collapsed, long text cut, an     *)
(* unusable URL dropped, a Yoast robots flag "2" read as false) and writes *)
(* JSON values back in a form of its own.  A set of SEO values, an element *)
(* of Seo, names some or all fields; the columns beforeValue and           *)
(* afterValue of an item hold such a set, null, or preview evidence: JSON  *)
(* with fields the apply endpoint rejects.                                 *)
(*                                                                         *)
(* A definition commented "mutant" is a wrong version of the one after it, *)
(* kept to show which property notices the mistake.                        *)
(***************************************************************************)
EXTENDS JobQueue

CONSTANTS Items,       \* backlog tasks selected for the operation
          Reqs,        \* concurrently handled SaaS requests
          Workers,     \* concurrent job slots of the worker processes
          Fields,      \* SEO fields of a page
          Texts,       \* what WordPress may store for a field, or store nothing
          Values,      \* JSON values of a field, null among them
          ReadAs,      \* the value the endpoint reads of what is stored
          StoredAs,    \* what the endpoint stores for a value
          Current,     \* the metadata every page has when the preview is made
          Planned,     \* the values the preview proposes, for some of the fields
          Null,        \* JSON null in a value column
          Evidence,    \* JSON in a value column that cannot be applied
          Endpoints,   \* handlers the run exercises
          Queues,      \* may REDIS_URL be configured, may it be absent
          Faults       \* environment events the run allows

EndpointNames == {"preview", "dryRun", "confirm", "start", "finish", "rollback", "retry"}
FaultNames == {"enqueueError", "enqueueUnsure", "saasCrash", "workerCrash", "stall",
               "jobError", "callLost", "itemError", "evict", "edit", "disconnect", "lapse", "manualRace"}

Metadata == [Fields -> Texts]
Seo == UNION {[some -> Values] : some \in (SUBSET Fields) \ {{}}}

ASSUME ConversionAssumption ==
    /\ Fields # {}
    /\ ReadAs \in [Texts -> Values] /\ StoredAs \in [Values -> Texts]
    /\ Current \in Metadata
    /\ Null \notin Metadata

ASSUME SafeOperationAssumption ==
    /\ Planned \in Seo
    /\ Null \notin Seo /\ Evidence \notin Seo /\ Null # Evidence
    /\ Endpoints \subseteq EndpointNames
    /\ Queues \subseteq BOOLEAN
    /\ Faults \subseteq FaultNames

VARIABLES op,          \* the BulkOperation row and what its activity log says
          items,       \* the BulkOperationItem rows, each with its BacklogTask
          reqs,        \* SaaS requests between two of their database steps
          jobs,        \* the jobs Redis knows under the ids of this operation
          runs,        \* what each worker slot is doing
          calls,       \* the apply request each slot has sent to WordPress
          page,        \* SEO metadata in WordPress
          origin,      \* history: the page before the operation first wrote it
          site         \* is the plugin connected, does the plan include safe operations,
                       \* is there a queue

vars == <<op, items, reqs, jobs, runs, calls, page, origin, site>>
-----------------------------------------------------------------------------
OpStatuses == {"NONE", "PREVIEWED", "DRY_RUN_PASSED", "CONFIRMED", "RUNNING", "COMPLETED",
               "FAILED", "ROLLED_BACK"}
Results == {"COMPLETED", "FAILED"}
Modes == {"execute", "rollback"}
Stored == Seo \cup {Null, Evidence}
None == "NONE"

Tasks == {"OPEN", "DONE", "IN_REVIEW"}   \* a backlog task as this operation left it

Item == [status : OpStatuses, before : Stored, after : Stored, task : Tasks]
Result == [status : Results \cup {None}, before : Stored, after : Stored]
Request == [kind : EndpointNames, pc : {"idle", "write", "enqueue", "queueFailed", "markFailed"},
            picked : SUBSET Items, mode : Modes]
Run == [pc : {"idle", "call", "record", "commit", "ack"}, job : Modes, holds : BOOLEAN,
        results : [Items -> Result]]
Call == [asked : SUBSET Items, todo : SUBSET Items, payload : [Items -> Seo \cup {Null}],
         reply : [Items -> Result]]

NoResult == [status |-> None, before |-> Null, after |-> Null]
NoResults == [i \in Items |-> NoResult]
IdleReq == [kind |-> "preview", pc |-> "idle", picked |-> {}, mode |-> "execute"]
IdleRun == [pc |-> "idle", job |-> "execute", holds |-> FALSE, results |-> NoResults]
NoCall == [asked |-> {}, todo |-> {}, payload |-> [i \in Items |-> Null], reply |-> NoResults]

TypeOK ==
    /\ op \in [status : OpStatuses, confirmedAt : BOOLEAN, rollbackLogged : BOOLEAN,
              manual : BOOLEAN]
    /\ items \in [Items -> Item]
    /\ reqs \in [Reqs -> Request]
    /\ jobs \in [Modes -> Job]
    /\ runs \in [Workers -> Run]
    /\ calls \in [Workers -> Call]
    /\ page \in [Items -> Metadata]
    /\ origin \in [Items -> Metadata \cup {Null}]
    /\ site \in [connected : BOOLEAN, entitled : BOOLEAN, queue : BOOLEAN]

Init ==
    /\ op = [status |-> "NONE", confirmedAt |-> FALSE, rollbackLogged |-> FALSE,
              manual |-> FALSE]
    /\ items = [i \in Items |-> [status |-> None, before |-> Null, after |-> Null, task |-> "OPEN"]]
    /\ reqs = [r \in Reqs |-> IdleReq]
    /\ jobs = [m \in Modes |-> NoJob]
    /\ runs = [w \in Workers |-> IdleRun]
    /\ calls = [w \in Workers |-> NoCall]
    /\ page = [i \in Items |-> Current]
    /\ origin = [i \in Items |-> Null]
    /\ site \in [connected : {TRUE}, entitled : {TRUE}, queue : Queues]

\* The items the operation has: preview may drop tasks that cannot be executed.
OpItems == {i \in Items : items[i].status # None}
ItemsIn(st) == {i \in Items : items[i].status = st}
ExecutableRecord(v) == v # Null                 \* mutant: any JSON object is applied
Executable(v) == v \in Seo
-----------------------------------------------------------------------------
(***************************************************************************)
(* SaaS handlers.  XRead is the part of a handler up to its guard, XWrite  *)
(* its transaction.                                                        *)
(***************************************************************************)
SetStatus(S, st) == [i \in Items |-> IF i \in S THEN [items[i] EXCEPT !.status = st] ELSE items[i]]

Admit(r, kind, picked, mode) ==
    /\ kind \in Endpoints
    /\ reqs[r].pc = "idle"
    /\ reqs' = [reqs EXCEPT ![r] = [kind |-> kind, pc |-> "write", picked |-> picked, mode |-> mode]]
    /\ UNCHANGED <<op, items, jobs, runs, calls, page, origin, site>>

InWrite(r, kind) == reqs[r].kind = kind /\ reqs[r].pc = "write"
Reply(r) == reqs' = [reqs EXCEPT ![r] = IdleReq]
ThenEnqueue(r) == reqs' = [reqs EXCEPT ![r].pc = "enqueue"]

\* A batch keeps the executable tasks, possibly none; a single task is kept
\* even when it is only evidence for a manual review.
CreatePreview ==
    /\ "preview" \in Endpoints
    /\ op.status = "NONE"
    /\ site.entitled
    /\ \E kept \in SUBSET Items, planned \in {Planned, Evidence} :
          /\ planned = Evidence => \E i \in Items : kept = {i}
          /\ items' = [i \in Items |-> IF i \in kept
                                       THEN [status |-> "PREVIEWED", before |-> Evidence,
                                             after |-> planned, task |-> "OPEN"]
                                       ELSE items[i]]
    /\ op' = [op EXCEPT !.status = "PREVIEWED"]
    /\ UNCHANGED <<reqs, jobs, runs, calls, page, origin, site>>

DryRunRead(r) ==
    /\ site.entitled /\ op.status = "PREVIEWED" /\ OpItems # {}
    /\ Admit(r, "dryRun", {}, "execute")

DryRunWrite(r) ==
    /\ InWrite(r, "dryRun")
    /\ items' = SetStatus(OpItems, "DRY_RUN_PASSED")
    /\ op' = [op EXCEPT !.status = "DRY_RUN_PASSED"]
    /\ Reply(r)
    /\ UNCHANGED <<jobs, runs, calls, page, origin, site>>

ConfirmRead(r) ==
    /\ site.entitled /\ op.status = "DRY_RUN_PASSED"
    /\ Admit(r, "confirm", {}, "execute")

ConfirmWrite(r) ==
    /\ InWrite(r, "confirm")
    /\ items' = SetStatus(OpItems, "CONFIRMED")
    /\ op' = [op EXCEPT !.status = "CONFIRMED", !.confirmedAt = TRUE]
    /\ Reply(r)
    /\ UNCHANGED <<jobs, runs, calls, page, origin, site>>

StartReadUnconfirmed(r) ==                      \* mutant: a dry run is enough to start
    /\ site.entitled /\ op.status \in {"DRY_RUN_PASSED", "CONFIRMED"}
    /\ Admit(r, "start", {}, "execute")

StartRead(r) ==
    /\ site.entitled /\ op.status = "CONFIRMED"
    /\ Admit(r, "start", {}, "execute")

StartWrite(r) ==
    /\ InWrite(r, "start")
    /\ items' = SetStatus(OpItems, "RUNNING")
    /\ op' = [op EXCEPT !.status = "RUNNING"]
    /\ ThenEnqueue(r)
    /\ UNCHANGED <<jobs, runs, calls, page, origin, site>>

\* The manual result route: no entitlement check, all items of the operation.
\* Nothing but the member's judgement keeps it apart from a working queue.
FinishRead(r) ==
    /\ op.status = "RUNNING"
    /\ site.queue => "manualRace" \in Faults
    /\ Admit(r, "finish", {}, "execute")

\* An item takes its explicit result, or else the result given for all.
FinishItems(failed, done) ==
    [i \in Items |-> CASE i \in failed -> [items[i] EXCEPT !.status = "FAILED"]
                      [] i \in done -> [items[i] EXCEPT !.status = "COMPLETED"]
                      [] OTHER -> items[i]]

FinishWrite(r) ==
    /\ InWrite(r, "finish")
    /\ \E failed \in SUBSET OpItems, status \in Results :
          /\ failed # {} => status = "FAILED"
          /\ items' = FinishItems(failed, OpItems \ failed)
          /\ op' = [op EXCEPT !.status = status, !.manual = TRUE]
    /\ Reply(r)
    /\ UNCHANGED <<jobs, runs, calls, page, origin, site>>

RollbackRead(r) ==
    /\ site.entitled /\ op.status \in {"COMPLETED", "FAILED"}
    /\ ItemsIn("COMPLETED") # {}
    /\ Admit(r, "rollback", ItemsIn("COMPLETED"), "rollback")

RollbackWrite(r) ==
    /\ InWrite(r, "rollback")
    /\ items' = SetStatus(reqs[r].picked, "RUNNING")
    /\ op' = [op EXCEPT !.status = "RUNNING", !.rollbackLogged = TRUE]
    /\ ThenEnqueue(r)
    /\ UNCHANGED <<jobs, runs, calls, page, origin, site>>

RetryModeExecute == "execute"                   \* mutant: a rollback is retried as an execution
\* rollback_started or rolled_back was ever logged for the operation.
RetryMode == IF op.rollbackLogged THEN "rollback" ELSE "execute"

RetryRead(r) ==
    /\ site.entitled /\ op.status = "FAILED"
    /\ ItemsIn("FAILED") # {}
    /\ Admit(r, "retry", {}, RetryMode)

RetryWriteAll(r) ==                             \* mutant: what succeeded is run again as well
    /\ InWrite(r, "retry")
    /\ items' = SetStatus(OpItems, "RUNNING")
    /\ op' = [op EXCEPT !.status = "RUNNING"]
    /\ ThenEnqueue(r)
    /\ UNCHANGED <<jobs, runs, calls, page, origin, site>>

RetryWrite(r) ==
    /\ InWrite(r, "retry")
    /\ items' = SetStatus(ItemsIn("FAILED"), "RUNNING")
    /\ op' = [op EXCEPT !.status = "RUNNING"]
    /\ ThenEnqueue(r)
    /\ UNCHANGED <<jobs, runs, calls, page, origin, site>>

\* Without Redis the operation stays RUNNING for manual result capture.
EnqueueExecute(r) ==                            \* mutant: every caller enqueues the execute job
    /\ reqs[r].pc = "enqueue"
    /\ jobs' = [jobs EXCEPT !["execute"] = Add(@)]
    /\ Reply(r)
    /\ UNCHANGED <<op, items, runs, calls, page, origin, site>>

Enqueue(r) ==
    /\ reqs[r].pc = "enqueue"
    /\ jobs' = IF site.queue THEN [jobs EXCEPT ![reqs[r].mode] = Add(@)] ELSE jobs
    /\ Reply(r)
    /\ UNCHANGED <<op, items, runs, calls, page, origin, site>>

\* queue.add throws; when the answer of Redis got lost the job is there all the same.
EnqueueFails(r) ==
    /\ reqs[r].pc = "enqueue" /\ site.queue
    /\ \/ "enqueueError" \in Faults /\ UNCHANGED jobs
       \/ "enqueueUnsure" \in Faults /\ jobs' = [jobs EXCEPT ![reqs[r].mode] = Add(@)]
    /\ reqs' = [reqs EXCEPT ![r].pc = "queueFailed"]
    /\ UNCHANGED <<op, items, runs, calls, page, origin, site>>

\* markBulkOperationExecutionQueueFailure: reads the row in its transaction,
\* without a lock, and gives up when it is no longer RUNNING.
QueueFailureRead(r) ==
    /\ reqs[r].pc = "queueFailed"
    /\ reqs' = [reqs EXCEPT ![r] = IF op.status = "RUNNING" THEN [@ EXCEPT !.pc = "markFailed"] ELSE IdleReq]
    /\ UNCHANGED <<op, items, jobs, runs, calls, page, origin, site>>

MarkQueueFailure(r) ==
    /\ reqs[r].pc = "markFailed"
    /\ items' = SetStatus(ItemsIn("RUNNING"), "FAILED")
    /\ op' = [op EXCEPT !.status = "FAILED"]
    /\ Reply(r)
    /\ UNCHANGED <<jobs, runs, calls, page, origin, site>>

\* The web process dies, or the database refuses the handler's next step.
AbandonRequest(r) ==
    /\ "saasCrash" \in Faults
    /\ reqs[r].pc # "idle"
    /\ Reply(r)
    /\ UNCHANGED <<op, items, jobs, runs, calls, page, origin, site>>
-----------------------------------------------------------------------------
(***************************************************************************)
(* Worker slots.  Taking a job and loading the operation is one step: no   *)
(* other party can tell an active job from a waiting one.                  *)
(***************************************************************************)
Free(w) == runs[w].pc = "idle" /\ calls[w] = NoCall

Loadable == site.entitled /\ op.status = "RUNNING" /\ ItemsIn("RUNNING") # {}

\* loadOperation or a check after it throws: the attempt is spent.
RejectJob(w, m) ==
    /\ Free(w) /\ jobs[m].state = "waiting"
    /\ ~Loadable
    /\ jobs' = [jobs EXCEPT ![m] = Throw(@)]
    /\ UNCHANGED <<op, items, reqs, runs, calls, page, origin, site>>

\* The value sent to WordPress for an item: the planned value, or on rollback
\* the one captured before it.
PayloadAfter(m, i) == items[i].after            \* mutant: a rollback sends the planned value
Payload(m, i) == IF m = "execute" THEN items[i].after ELSE items[i].before

\* Items without an applicable value fail locally and keep their columns; the
\* others go to the plugin in one signed request.
LoadJob(w, m) ==
    /\ Free(w) /\ jobs[m].state = "waiting"
    /\ Loadable
    /\ LET loaded == ItemsIn("RUNNING")
           asked  == IF site.connected THEN {i \in loaded : Executable(Payload(m, i))} ELSE {}
           local  == [i \in Items |-> IF i \in loaded \ asked
                                      THEN [status |-> "FAILED", before |-> items[i].before, after |-> items[i].after]
                                      ELSE NoResult]
       IN /\ runs' = [runs EXCEPT ![w] = [pc |-> IF asked = {} THEN "record" ELSE "call",
                                          job |-> m, holds |-> TRUE, results |-> local]]
          /\ calls' = [calls EXCEPT ![w] =
                 IF asked = {} THEN NoCall
                 ELSE [asked |-> asked, todo |-> asked, reply |-> NoResults,
                       payload |-> [i \in Items |-> IF i \in asked THEN Payload(m, i) ELSE Null]]]
    /\ jobs' = [jobs EXCEPT ![m] = Take(@)]
    /\ UNCHANGED <<op, items, reqs, page, origin, site>>

\* The plugin answered for every item.
Respond(w) ==
    /\ runs[w].pc = "call" /\ calls[w].todo = {}
    /\ runs' = [runs EXCEPT ![w].pc = "record",
                            ![w].results = [i \in Items |-> IF i \in calls[w].asked
                                                            THEN calls[w].reply[i] ELSE @[i]]]
    /\ calls' = [calls EXCEPT ![w] = NoCall]
    /\ UNCHANGED <<op, items, reqs, jobs, page, origin, site>>

LostAsDone == [status |-> "COMPLETED", before |-> Null, after |-> Null]   \* mutant
Lost == [status |-> "FAILED", before |-> Null, after |-> Null]

\* fetch throws, or the answer is an HTTP error: every item sent counts as
\* failed, whatever the plugin already wrote, may still write, or never saw.
CallLost(w) ==
    /\ "callLost" \in Faults
    /\ runs[w].pc = "call"
    /\ runs' = [runs EXCEPT ![w].pc = "record",
                            ![w].results = [i \in Items |-> IF i \in calls[w].asked THEN Lost ELSE @[i]]]
    /\ \/ calls[w].todo # {} /\ UNCHANGED calls
       \/ calls' = [calls EXCEPT ![w] = NoCall]
    /\ UNCHANGED <<op, items, reqs, jobs, page, origin, site>>

\* recordResult / recordRollbackResult.  An execute job overwrites both value
\* columns of every item it reports; a rollback job only those it restored.
Reported(w) == {i \in Items : runs[w].results[i].status # None}

Row(status, result, task) ==
    [status |-> status, before |-> result.before, after |-> result.after, task |-> task]

RecordedKeepingTask(w, i) ==                    \* mutant: a rollback leaves the task DONE
    LET result == runs[w].results[i]
    IN  IF result.status # "COMPLETED" THEN [items[i] EXCEPT !.status = "FAILED"]
        ELSE IF runs[w].job = "execute" THEN Row("COMPLETED", result, "DONE")
        ELSE Row("ROLLED_BACK", result, items[i].task)

\* The backlog task of the item is done, or goes back to review, in the same
\* transaction; a rollback that failed for an item leaves its task alone.
Recorded(w, i) ==
    LET result == runs[w].results[i]
    IN  IF runs[w].job = "execute"
        THEN Row(result.status, result, IF result.status = "COMPLETED" THEN "DONE" ELSE "IN_REVIEW")
        ELSE IF result.status = "COMPLETED" THEN Row("ROLLED_BACK", result, "IN_REVIEW")
        ELSE [items[i] EXCEPT !.status = "FAILED"]

FinalStatus(w) ==
    IF \E i \in Items : runs[w].results[i].status = "FAILED" THEN "FAILED"
    ELSE IF runs[w].job = "execute" THEN "COMPLETED" ELSE "ROLLED_BACK"

\* The transaction checks the status it read without a lock, then writes.
RecordRead(w) ==
    /\ runs[w].pc = "record" /\ op.status = "RUNNING"
    /\ runs' = [runs EXCEPT ![w].pc = "commit"]
    /\ UNCHANGED <<op, items, reqs, jobs, calls, page, origin, site>>

RecordResult(w) ==
    /\ runs[w].pc = "commit"
    /\ items' = [i \in Items |-> IF i \in Reported(w) THEN Recorded(w, i) ELSE items[i]]
    /\ op' = [op EXCEPT !.status = FinalStatus(w)]
    /\ runs' = [runs EXCEPT ![w].pc = "ack"]
    /\ UNCHANGED <<reqs, jobs, calls, page, origin, site>>

\* A slot reports the outcome of its job; without the lock BullMQ ignores it.
Settle(w, outcome) ==
    /\ jobs' = IF runs[w].holds THEN [jobs EXCEPT ![runs[w].job] = outcome] ELSE jobs
    /\ runs' = [runs EXCEPT ![w] = IdleRun]

\* The record transaction finds the operation no longer RUNNING and throws.
RecordRefused(w) ==
    /\ runs[w].pc = "record" /\ op.status # "RUNNING"
    /\ Settle(w, Throw(jobs[runs[w].job]))
    /\ UNCHANGED <<op, items, reqs, calls, page, origin, site>>

\* The record transaction fails for a reason of the database.
RecordFails(w) ==
    /\ "jobError" \in Faults
    /\ runs[w].pc \in {"record", "commit"}
    /\ Settle(w, Throw(jobs[runs[w].job]))
    /\ UNCHANGED <<op, items, reqs, calls, page, origin, site>>

CompleteJob(w) ==
    /\ runs[w].pc = "ack"
    /\ Settle(w, Finish(jobs[runs[w].job]))
    /\ UNCHANGED <<op, items, reqs, calls, page, origin, site>>

\* The worker process dies; what it sent to WordPress is still being applied,
\* or was not received.  The stalled check hands the job out again.
WorkerCrash(w) ==
    /\ "workerCrash" \in Faults
    /\ runs[w].pc # "idle"
    /\ Settle(w, Stall(jobs[runs[w].job]))
    /\ \/ calls[w].todo # {} /\ UNCHANGED calls
       \/ calls' = [calls EXCEPT ![w] = NoCall]
    /\ UNCHANGED <<op, items, reqs, page, origin, site>>

\* The lock expires while the handler goes on: another slot may take the job.
LoseLock(w) ==
    /\ "stall" \in Faults
    /\ runs[w].pc # "idle" /\ runs[w].holds
    /\ jobs' = [jobs EXCEPT ![runs[w].job] = Stall(@)]
    /\ runs' = [runs EXCEPT ![w].holds = FALSE]
    /\ UNCHANGED <<op, items, reqs, calls, page, origin, site>>
-----------------------------------------------------------------------------
(***************************************************************************)
(* The plugin's apply endpoint handles the items of a request one by one.  *)
(* Its request survives the worker that sent it.                           *)
(***************************************************************************)
Answer(w, i, result) ==
    LET call == [calls[w] EXCEPT !.todo = @ \ {i}, !.reply = [@ EXCEPT ![i] = result]]
        unheard == runs[w].pc # "call" /\ call.todo = {}
    IN  calls' = [calls EXCEPT ![w] = IF unheard THEN NoCall ELSE call]

\* readSeoValues: every field, as the endpoint reads it.
SeoValues(stored) == [f \in Fields |-> ReadAs[stored[f]]]

\* writeSeoValues: the fields the values name; the others stay as they are.
Overwritten(stored, values) ==
    [f \in Fields |-> IF f \in DOMAIN values THEN StoredAs[values[f]] ELSE stored[f]]

\* applyItem: read the stored values, write the requested ones, read again.
ApplyItem(w, i) ==
    LET written == Overwritten(page[i], calls[w].payload[i])
    IN  /\ i \in calls[w].todo
        /\ page' = [page EXCEPT ![i] = written]
        /\ origin' = IF origin[i] = Null THEN [origin EXCEPT ![i] = page[i]] ELSE origin
        /\ Answer(w, i, [status |-> "COMPLETED", before |-> SeoValues(page[i]),
                         after |-> SeoValues(written)])
        /\ UNCHANGED <<op, items, reqs, jobs, runs, site>>

\* The post is gone, has another type, or the value is refused: nothing is written.
RefuseItem(w, i) ==
    /\ "itemError" \in Faults
    /\ i \in calls[w].todo
    /\ Answer(w, i, [status |-> "FAILED", before |-> Null, after |-> Null])
    /\ UNCHANGED <<op, items, reqs, jobs, runs, page, origin, site>>
-----------------------------------------------------------------------------
\* What others do: retention, editors, disconnections and billing.
EvictJob(m) ==
    /\ "evict" \in Faults /\ Retained(jobs[m])
    /\ jobs' = [jobs EXCEPT ![m] = NoJob]
    /\ UNCHANGED <<op, items, reqs, runs, calls, page, origin, site>>

EditPage(i) ==
    /\ "edit" \in Faults
    /\ \E v \in Metadata \ {page[i]} : page' = [page EXCEPT ![i] = v]
    /\ UNCHANGED <<op, items, reqs, jobs, runs, calls, origin, site>>

ChangeSite ==
    /\ \/ "disconnect" \in Faults /\ site' = [site EXCEPT !.connected = ~@]
       \/ "lapse" \in Faults /\ site' = [site EXCEPT !.entitled = ~@]
    /\ UNCHANGED <<op, items, reqs, jobs, runs, calls, page, origin>>
-----------------------------------------------------------------------------
RequestBegins(r) ==
    \/ DryRunRead(r) \/ ConfirmRead(r) \/ StartRead(r)
    \/ FinishRead(r) \/ RollbackRead(r) \/ RetryRead(r)

RequestContinues(r) ==
    \/ DryRunWrite(r) \/ ConfirmWrite(r) \/ StartWrite(r)
    \/ FinishWrite(r) \/ RollbackWrite(r) \/ RetryWrite(r)
    \/ Enqueue(r) \/ QueueFailureRead(r) \/ MarkQueueFailure(r)

WorkerStep(w) ==
    \/ \E m \in Modes : RejectJob(w, m) \/ LoadJob(w, m)
    \/ Respond(w) \/ RecordRead(w) \/ RecordRefused(w) \/ RecordResult(w) \/ CompleteJob(w)

PluginStep(w) == \E i \in Items : ApplyItem(w, i) \/ RefuseItem(w, i)

Fault ==
    \/ \E r \in Reqs : EnqueueFails(r) \/ AbandonRequest(r)
    \/ \E w \in Workers : CallLost(w) \/ RecordFails(w) \/ WorkerCrash(w) \/ LoseLock(w)
    \/ \E m \in Modes : EvictJob(m)
    \/ \E i \in Items : EditPage(i)
    \/ ChangeSite

Next ==
    \/ CreatePreview
    \/ \E r \in Reqs : RequestBegins(r) \/ RequestContinues(r)
    \/ \E w \in Workers : WorkerStep(w) \/ PluginStep(w)
    \/ Fault

Spec == Init /\ [][Next]_vars

\* A handler that passed its guard runs to its end, each slot of the worker
\* keeps taking and finishing jobs, WordPress handles the request it received.
Fairness ==
    /\ \A r \in Reqs : WF_vars(RequestContinues(r))
    /\ \A w \in Workers : WF_vars(WorkerStep(w)) /\ WF_vars(PluginStep(w))

FairSpec == Spec /\ Fairness
-----------------------------------------------------------------------------
(***************************************************************************)
(* Properties that hold however requests, jobs and crashes interleave.     *)
(***************************************************************************)

\* The worker asks WordPress to write, and WordPress is written, only for an
\* operation somebody confirmed: whatever stale request, duplicate job or
\* re-run of a job led to the call (README: no write path without explicit
\* confirmation).
NoWriteBeforeConfirmation ==
    /\ \A w \in Workers : calls[w].asked # {} => op.confirmedAt
    /\ \A i \in Items : origin[i] # Null => op.confirmedAt

\* An item the worker reported as applied or restored was really written in
\* WordPress: a lost answer, a re-run job or a late record never turns an
\* untouched page into a success.  A result entered by hand may claim anything.
NoPhantomCompletion ==
    ~op.manual =>
        \A i \in Items : items[i].status \in {"COMPLETED", "ROLLED_BACK"} => origin[i] # Null

(***************************************************************************)
(* Properties of an operation handled by one request at a time, with no    *)
(* job run twice.                                                          *)
(***************************************************************************)

\* Every transaction that settles the operation settles all its items: none
\* is left RUNNING where neither retry nor rollback would pick it up again.
\* A COMPLETED operation has no item that failed, also after a retry that only
\* re-ran some of its items, and a ROLLED_BACK one no item left applied, also
\* when the rollback needed several attempts.
NoStrandedItem == op.status # "RUNNING" => ItemsIn("RUNNING") = {}
CompletedMeansAll == op.status = "COMPLETED" => OpItems = ItemsIn("COMPLETED")
RolledBackMeansNoneApplied == op.status = "ROLLED_BACK" => ItemsIn("COMPLETED") = {}

\* The backlog says what the operation did: a task is DONE while its change is
\* live, and back in review once the change was taken back.
BacklogAgrees ==
    ~op.manual =>
        \A i \in Items : /\ items[i].status = "COMPLETED" => items[i].task = "DONE"
                         /\ items[i].status = "ROLLED_BACK" => items[i].task = "IN_REVIEW"

\* Operation, items and backlog tell the same story, whatever fails on the way.
StatusesAgree == NoStrandedItem /\ CompletedMeansAll /\ RolledBackMeansNoneApplied /\ BacklogAgrees

\* What the endpoint read of the page when the operation first wrote it.
Captured(i) == IF origin[i] = Null THEN Null ELSE SeoValues(origin[i])

\* The page holds, in every field, what the captured values are stored as:
\* the fields the endpoint can carry (StoredAs undoes ReadAs) are as they were
\* before the operation, the others are in the endpoint's form, also those
\* the operation did not set out to change.
PutBack(i) == origin[i] # Null /\ page[i] = Overwritten(origin[i], Captured(i))

\* The values a rollback would restore are those the endpoint read before the
\* operation first wrote the page, never what an earlier run left there, and a
\* page the operation reports as rolled back has them, in all its fields.
RestorePoint ==
    ~op.manual => \A i \in Items : items[i].status = "COMPLETED" => items[i].before = Captured(i)

Restored == \A i \in Items : items[i].status = "ROLLED_BACK" => PutBack(i)

\* Once a rollback was requested, no slot opens an execute call any more:
\* the planned values are never applied again.
RollbackNeverReapplies ==
    [][\A w \in Workers : calls[w] = NoCall /\ calls'[w] # NoCall /\ runs'[w].job = "execute"
                              => ~op.rollbackLogged]_vars

\* A rollback ends with the captured values back in the pages, and stays ended.
RollbackRestores == [](RestorePoint /\ Restored) /\ RollbackNeverReapplies

\* The operation as the in-memory repository keeps it, which the tests run
\* against: one step per transition, results entered for all items at once.
InMemory == INSTANCE DevOperations WITH
    Links <- {}, links <- <<>>,
    operation <- [status |-> op.status, confirmedAt |-> op.confirmedAt],
    rows <- [i \in Items |-> items[i].status]

\* Until a rollback, handlers, queue and worker together implement it: what a
\* job records, or a failed enqueue, is a result somebody could have entered,
\* and a retry that runs some of the items is one result for all of them.
\* From the rollback on, which the in-memory repository finishes in one step,
\* the status keeps to the life cycle, and nothing leaves ROLLED_BACK.
RollbackCycle == {<<"COMPLETED", "RUNNING">>, <<"FAILED", "RUNNING">>, <<"RUNNING", "COMPLETED">>,
                  <<"RUNNING", "FAILED">>, <<"RUNNING", "ROLLED_BACK">>}

LifeCycleKept ==
    /\ InMemory!Init
    /\ [][IF op'.rollbackLogged THEN <<op.status, op'.status>> \in RollbackCycle
          ELSE InMemory!Next]_(InMemory!devVars)

\* A started operation, or one being rolled back, is eventually settled: the
\* queue, the worker or the failure path of the enqueue gets to it.
StartedSettles == op.status = "RUNNING" ~> op.status # "RUNNING"

(***************************************************************************)
(* Claims of the documentation that the code does not keep.                *)
(***************************************************************************)

\* A retry whose enqueue succeeds leaves a job that will run the retry.
RetryIsQueued ==
    [][\A r \in Reqs : reqs[r].kind = "retry" /\ Enqueue(r) => Queued(jobs'[reqs[r].mode])]_vars
=============================================================================
