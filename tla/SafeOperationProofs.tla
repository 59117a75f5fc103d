------------------------- MODULE SafeOperationProofs -------------------------
(***************************************************************************)
(* Proofs about SafeOperation for any number of items, requests, worker    *)
(* slots and metadata values, any set of endpoints and any set of faults.  *)
(***************************************************************************)
EXTENDS SafeOperation, TLAPS

USE QueueAssumption, SafeOperationAssumption
-----------------------------------------------------------------------------
\* The operators of the job queue keep a job record well formed: no throw and
\* no stall counts past its limit.
LEMMA JobType ==
    ASSUME NEW job \in Job
    PROVE  /\ NoJob \in Job
           /\ Add(job) \in Job
           /\ Take(job) \in Job
           /\ Finish(job) \in Job
           /\ Throw(job) \in Job
           /\ Stall(job) \in Job
  <1>1. NoJob \in Job
    BY DEF Job, JobStates, NoJob
  <1>2. Add(job) \in Job
    BY DEF Job, JobStates, NoJob, Add
  <1>3. Take(job) \in Job /\ Finish(job) \in Job
    BY DEF Job, JobStates, Take, Finish
  <1>4. Throw(job) \in Job
    <2>1. job.attempts \in 0 .. Attempts /\ Attempts \in 0 .. Attempts
      BY DEF Job
    <2>2. job.attempts + 1 < Attempts => job.attempts + 1 \in 0 .. Attempts
      BY <2>1
    <2>3. QED
      BY <2>1, <2>2 DEF Job, JobStates, Throw
  <1>5. Stall(job) \in Job
    <2>1. job.stalls \in 0 .. MaxStalls
      BY DEF Job
    <2>2. job.stalls < MaxStalls => job.stalls + 1 \in 0 .. MaxStalls
      BY <2>1
    <2>3. QED
      BY <2>1, <2>2 DEF Job, JobStates, Stall
  <1>6. QED
    BY <1>1, <1>2, <1>3, <1>4, <1>5

LEMMA BlankType ==
    /\ IdleReq \in Request
    /\ IdleRun \in Run
    /\ NoCall \in Call
    /\ NoResult \in Result
    /\ NoResults \in [Items -> Result]
    /\ Lost \in Result
  BY DEF IdleReq, Request, IdleRun, Run, NoCall, Call, NoResults, NoResult, Result, Lost, Results,
         None, Stored, EndpointNames, Modes

\* The endpoint reads values of every field, and what it writes of them does
\* not depend on what the page held.
LEMMA Conversion ==
    /\ \A stored \in Metadata : SeoValues(stored) \in Seo
    /\ \A stored \in Metadata, values \in Seo : Overwritten(stored, values) \in Metadata
    /\ \A now, was \in Metadata :
           Overwritten(now, SeoValues(was)) = Overwritten(was, SeoValues(was))
  <1> USE ConversionAssumption
  <1>1. ASSUME NEW stored \in Metadata
        PROVE  SeoValues(stored) \in Seo
    <2>1. SeoValues(stored) \in [Fields -> Values]
      BY DEF SeoValues, Metadata
    <2>2. Fields \in (SUBSET Fields) \ {{}}
      OBVIOUS
    <2> QED
      BY <2>1, <2>2 DEF Seo
  <1>2. ASSUME NEW stored \in Metadata, NEW values \in Seo
        PROVE  Overwritten(stored, values) \in Metadata
    <2>1. PICK some \in SUBSET Fields : values \in [some -> Values]
      BY DEF Seo
    <2> QED
      BY <2>1 DEF Overwritten, Metadata
  <1>3. ASSUME NEW now \in Metadata, NEW was \in Metadata
        PROVE  Overwritten(now, SeoValues(was)) = Overwritten(was, SeoValues(was))
    BY DEF Overwritten, SeoValues
  <1> QED
    BY <1>1, <1>2, <1>3

\* What a request in flight may still write is what the endpoint accepts.
PayloadOK == \A w \in Workers : \A i \in calls[w].todo : calls[w].payload[i] \in Seo

TypeInv == TypeOK /\ PayloadOK

LEMMA SetStatusType ==
    ASSUME items \in [Items -> Item], NEW S, NEW st \in OpStatuses
    PROVE  SetStatus(S, st) \in [Items -> Item]
  BY DEF SetStatus, Item

LEMMA IdleType ==
    ASSUME TypeInv, NEW r \in Reqs, Reply(r)
    PROVE  reqs' \in [Reqs -> Request]
  BY BlankType DEF TypeInv, TypeOK, Reply

LEMMA EnqueueType ==
    ASSUME TypeInv, NEW r \in Reqs, ThenEnqueue(r)
    PROVE  reqs' \in [Reqs -> Request]
  <1>1. reqs \in [Reqs -> Request] /\ reqs[r] \in Request
    BY DEF TypeInv, TypeOK
  <1>2. [reqs[r] EXCEPT !.pc = "enqueue"] \in Request
    BY <1>1 DEF Request
  <1>3. QED
    BY <1>1, <1>2 DEF ThenEnqueue

LEMMA AdmitType ==
    ASSUME TypeInv, NEW r \in Reqs, NEW kind, NEW picked \in SUBSET Items, NEW mode \in Modes,
           Admit(r, kind, picked, mode)
    PROVE  TypeInv'
  <1>1. kind \in EndpointNames
    BY DEF Admit
  <1>2. reqs' \in [Reqs -> Request]
    BY <1>1 DEF TypeInv, TypeOK, Admit, Request
  <1>3. QED
    BY <1>2 DEF TypeInv, TypeOK, PayloadOK, Admit

LEMMA InitType == Init => TypeInv
  <1>0. Init => site \in [connected : BOOLEAN, entitled : BOOLEAN, queue : BOOLEAN]
    BY SafeOperationAssumption DEF Init
  <1>1. Init => TypeOK
    BY <1>0, ConversionAssumption, BlankType, JobType DEF Init, TypeOK, OpStatuses, Item, Tasks, Stored, None, Job, NoJob, JobStates
  <1>2. Init => PayloadOK
    BY DEF Init, PayloadOK, NoCall
  <1>3. QED
    BY <1>1, <1>2 DEF TypeInv

LEMMA BeginsType ==
    ASSUME TypeInv, NEW r \in Reqs, RequestBegins(r)
    PROVE  TypeInv'
  <1>1. ItemsIn("COMPLETED") \in SUBSET Items /\ {} \in SUBSET Items
    BY DEF ItemsIn
  <1>2. RetryMode \in Modes /\ "execute" \in Modes /\ "rollback" \in Modes
    BY DEF RetryMode, Modes
  <1>3. QED
    BY <1>1, <1>2, AdmitType
       DEF RequestBegins, DryRunRead, ConfirmRead, StartRead, FinishRead, RollbackRead, RetryRead

LEMMA ContinuesType ==
    ASSUME TypeInv, NEW r \in Reqs, RequestContinues(r)
    PROVE  TypeInv'
  <1> USE DEF TypeInv, TypeOK, PayloadOK
  <1>0. {"PREVIEWED", "DRY_RUN_PASSED", "CONFIRMED", "RUNNING", "COMPLETED", "FAILED"} \subseteq OpStatuses
    BY DEF OpStatuses
  <1>1. CASE DryRunWrite(r)
    BY <1>0, <1>1, SetStatusType, IdleType DEF DryRunWrite
  <1>2. CASE ConfirmWrite(r)
    BY <1>0, <1>2, SetStatusType, IdleType DEF ConfirmWrite
  <1>3. CASE StartWrite(r)
    BY <1>0, <1>3, SetStatusType, EnqueueType DEF StartWrite
  <1>4. CASE FinishWrite(r)
    <2>1. PICK failed \in SUBSET OpItems, status \in Results :
            /\ items' = FinishItems(failed, OpItems \ failed)
            /\ op' = [op EXCEPT !.status = status, !.manual = TRUE]
      BY <1>4 DEF FinishWrite
    <2>2. items' \in [Items -> Item]
      BY <1>0, <2>1 DEF FinishItems, Item
    <2>3. op' \in [status : OpStatuses, confirmedAt : BOOLEAN, rollbackLogged : BOOLEAN,
                   manual : BOOLEAN]
      BY <1>0, <2>1 DEF Results
    <2>4. QED
      BY <1>4, <2>2, <2>3, IdleType DEF FinishWrite
  <1>5. CASE RollbackWrite(r)
    BY <1>0, <1>5, SetStatusType, EnqueueType DEF RollbackWrite
  <1>6. CASE RetryWrite(r)
    BY <1>0, <1>6, SetStatusType, EnqueueType DEF RetryWrite
  <1>7. CASE Enqueue(r)
    <2>1. reqs[r].mode \in Modes
      BY DEF Request
    <2>2. jobs' \in [Modes -> Job]
      BY <1>7, <2>1, JobType DEF Enqueue
    <2>3. QED
      BY <1>7, <2>2, IdleType DEF Enqueue
  <1>8. CASE QueueFailureRead(r)
    BY ZenonT(60), <1>8, BlankType DEF QueueFailureRead, Request
  <1>9. CASE MarkQueueFailure(r)
    BY <1>0, <1>9, SetStatusType, IdleType DEF MarkQueueFailure
  <1>10. QED
    BY <1>1, <1>2, <1>3, <1>4, <1>5, <1>6, <1>7, <1>8, <1>9 DEF RequestContinues
-----------------------------------------------------------------------------
LEMMA SettleType ==
    ASSUME TypeInv, NEW w \in Workers, NEW outcome \in Job, Settle(w, outcome)
    PROVE  jobs' \in [Modes -> Job] /\ runs' \in [Workers -> Run]
  <1>1. runs[w].job \in Modes
    BY DEF TypeInv, TypeOK, Run
  <1>2. QED
    BY <1>1, BlankType DEF TypeInv, TypeOK, Settle

\* The jobs a slot may settle are jobs.
LEMMA SlotJobType ==
    ASSUME TypeInv, NEW w \in Workers
    PROVE  jobs[runs[w].job] \in Job
  BY DEF TypeInv, TypeOK, Run

LEMMA LoadType ==
    ASSUME TypeInv, NEW w \in Workers, NEW m \in Modes, LoadJob(w, m)
    PROVE  TypeInv'
  <1> DEFINE loaded == ItemsIn("RUNNING")
             asked  == IF site.connected THEN {i \in loaded : Executable(Payload(m, i))} ELSE {}
             local  == [i \in Items |-> IF i \in loaded \ asked
                                        THEN [status |-> "FAILED", before |-> items[i].before,
                                                after |-> items[i].after]
                                          ELSE NoResult]
             call   == [asked |-> asked, todo |-> asked, reply |-> NoResults,
                        payload |-> [i \in Items |-> IF i \in asked THEN Payload(m, i) ELSE Null]]
             run    == [pc |-> IF asked = {} THEN "record" ELSE "call",
                        job |-> m, holds |-> TRUE, results |-> local]
  <1>1. asked \in SUBSET Items
    BY DEF ItemsIn
  <1>2. \A i \in asked : Payload(m, i) \in Seo
    BY DEF Executable
  <1>3. local \in [Items -> Result]
    BY BlankType DEF TypeInv, TypeOK, Item, Result, Results
  <1>4. run \in Run
    BY <1>3 DEF Run
  <1>5. call \in Call
    BY <1>1, <1>2, BlankType DEF Call
  <1>6. \A i \in call.todo : call.payload[i] \in Seo
    BY <1>1, <1>2
  <1>7. /\ runs' = [runs EXCEPT ![w] = run]
        /\ calls' = [calls EXCEPT ![w] = IF asked = {} THEN NoCall ELSE call]
    BY DEF LoadJob
  <1> HIDE DEF run, call, asked
  <1>8. runs' \in [Workers -> Run] /\ calls' \in [Workers -> Call]
    BY <1>4, <1>5, <1>7, BlankType DEF TypeInv, TypeOK
  <1>9. PayloadOK'
    BY <1>6, <1>7 DEF TypeInv, TypeOK, PayloadOK, NoCall
  <1>10. jobs' \in [Modes -> Job]
    BY JobType DEF LoadJob, TypeInv, TypeOK
  <1>11. QED
    BY <1>8, <1>9, <1>10 DEF LoadJob, TypeInv, TypeOK

LEMMA DropCallType ==
    ASSUME TypeInv, NEW w \in Workers,
           UNCHANGED calls \/ calls' = [calls EXCEPT ![w] = NoCall]
    PROVE  calls' \in [Workers -> Call] /\ PayloadOK'
  <1>1. CASE UNCHANGED calls
    BY <1>1 DEF TypeInv, TypeOK, PayloadOK
  <1>2. CASE calls' = [calls EXCEPT ![w] = NoCall]
    <2>1. NoCall.todo = {}
      BY DEF NoCall
    <2>2. QED
      BY <1>2, <2>1, BlankType DEF TypeInv, TypeOK, PayloadOK
  <1>3. QED
    BY <1>1, <1>2

LEMMA RecordedType ==
    ASSUME TypeInv, NEW w \in Workers, NEW i \in Reported(w)
    PROVE  Recorded(w, i) \in Item
  <1>1. runs[w].results[i] \in Result /\ runs[w].results[i].status \in Results
    BY DEF TypeInv, TypeOK, Run, Result, Reported
  <1>2. items[i] \in Item
    BY DEF TypeInv, TypeOK, Reported
  <1>3. QED
    BY <1>1, <1>2 DEF Recorded, Row, Result, Results, Item, Tasks, OpStatuses

LEMMA WorkerType ==
    ASSUME TypeInv, NEW w \in Workers, WorkerStep(w)
    PROVE  TypeInv'
  <1> USE DEF TypeInv, TypeOK, PayloadOK
  <1>1. ASSUME NEW m \in Modes, RejectJob(w, m)
        PROVE  TypeInv'
    BY <1>1, JobType DEF RejectJob
  <1>2. ASSUME NEW m \in Modes, LoadJob(w, m)
        PROVE  TypeInv'
    BY <1>2, LoadType
  <1>3. CASE Respond(w)
    <2>1. runs' \in [Workers -> Run]
      <3>1. runs[w] \in Run /\ calls[w] \in Call
        OBVIOUS
      <3>2. [i \in Items |-> IF i \in calls[w].asked THEN calls[w].reply[i] ELSE runs[w].results[i]]
               \in [Items -> Result]
        BY <3>1 DEF Run, Call
      <3>3. QED
        BY <1>3, <3>1, <3>2 DEF Respond, Run
    <2>2. QED
      BY <1>3, <2>1, DropCallType DEF Respond
  <1>4. CASE RecordRead(w)
    <2>1. runs' \in [Workers -> Run]
      <3>1. runs[w] \in Run
        OBVIOUS
      <3>2. [runs[w] EXCEPT !.pc = "commit"] \in Run
        BY <3>1 DEF Run
      <3>3. QED
        BY <1>4, <3>2 DEF RecordRead
    <2>2. QED
      BY <1>4, <2>1 DEF RecordRead
  <1>5. CASE RecordRefused(w)
    BY <1>5, SlotJobType, JobType, SettleType DEF RecordRefused
  <1>6. CASE RecordResult(w)
    <2>1. items' \in [Items -> Item]
      BY <1>6, RecordedType DEF RecordResult
    <2>2. FinalStatus(w) \in OpStatuses
      BY DEF FinalStatus, OpStatuses
    <2>3. op' \in [status : OpStatuses, confirmedAt : BOOLEAN, rollbackLogged : BOOLEAN,
                   manual : BOOLEAN]
      BY <1>6, <2>2 DEF RecordResult
    <2>4. runs' \in [Workers -> Run]
      <3>1. runs[w] \in Run
        OBVIOUS
      <3>2. [runs[w] EXCEPT !.pc = "ack"] \in Run
        BY <3>1 DEF Run
      <3>3. QED
        BY <1>6, <3>2 DEF RecordResult
    <2>5. QED
      BY <1>6, <2>1, <2>3, <2>4 DEF RecordResult
  <1>7. CASE CompleteJob(w)
    BY <1>7, SlotJobType, JobType, SettleType DEF CompleteJob
  <1>8. QED
    BY <1>1, <1>2, <1>3, <1>4, <1>5, <1>6, <1>7 DEF WorkerStep

LEMMA PluginType ==
    ASSUME TypeInv, NEW w \in Workers, PluginStep(w)
    PROVE  TypeInv'
  <1> USE DEF TypeInv, TypeOK, PayloadOK
  <1>0. PICK i \in Items : ApplyItem(w, i) \/ RefuseItem(w, i)
    BY DEF PluginStep
  <1>1. ASSUME NEW result \in Result, Answer(w, i, result)
        PROVE  calls' \in [Workers -> Call] /\ PayloadOK'
    <2> DEFINE call == [calls[w] EXCEPT !.todo = @ \ {i}, !.reply = [@ EXCEPT ![i] = result]]
    <2>1. call \in Call /\ \A k \in call.todo : call.payload[k] \in Seo
      <3>1. calls[w] \in Call /\ \A k \in calls[w].todo : calls[w].payload[k] \in Seo
        OBVIOUS
      <3>2. [calls[w].reply EXCEPT ![i] = result] \in [Items -> Result]
        BY <1>1, <3>1 DEF Call
      <3>3. QED
        BY <3>1, <3>2 DEF Call
    <2>2. calls' = [calls EXCEPT ![w] = call] \/ calls' = [calls EXCEPT ![w] = NoCall]
      BY <1>1 DEF Answer
    <2> HIDE DEF call
    <2>3. CASE calls' = [calls EXCEPT ![w] = call]
      BY <2>1, <2>3
    <2>4. QED
      BY <2>2, <2>3, DropCallType
  <1>2. CASE ApplyItem(w, i)
    <2> DEFINE written == Overwritten(page[i], calls[w].payload[i])
    <2>1. page[i] \in Metadata /\ written \in Metadata
      BY <1>2, Conversion DEF ApplyItem
    <2>2. [status |-> "COMPLETED", before |-> SeoValues(page[i]), after |-> SeoValues(written)] \in Result
      BY <2>1, Conversion DEF Result, Results, Stored
    <2>3. page' \in [Items -> Metadata] /\ origin' \in [Items -> Metadata \cup {Null}]
      BY <1>2, <2>1 DEF ApplyItem
    <2>4. QED
      BY <1>1, <1>2, <2>2, <2>3 DEF ApplyItem
  <1>3. CASE RefuseItem(w, i)
    <2>1. [status |-> "FAILED", before |-> Null, after |-> Null] \in Result
      BY DEF Result, Results, Stored
    <2>2. QED
      BY <1>1, <1>3, <2>1 DEF RefuseItem
  <1>4. QED
    BY <1>0, <1>2, <1>3

LEMMA FaultType ==
    ASSUME TypeInv, Fault
    PROVE  TypeInv'
  <1> USE DEF TypeInv, TypeOK, PayloadOK
  <1>1. ASSUME NEW r \in Reqs, EnqueueFails(r)
        PROVE  TypeInv'
    <2>1. reqs[r].mode \in Modes
      BY DEF Request
    <2>2. jobs' \in [Modes -> Job]
      BY <1>1, <2>1, JobType DEF EnqueueFails
    <2>3. [reqs[r] EXCEPT !.pc = "queueFailed"] \in Request
      BY DEF Request
    <2>4. QED
      BY <1>1, <2>2, <2>3 DEF EnqueueFails
  <1>2. ASSUME NEW r \in Reqs, AbandonRequest(r)
        PROVE  TypeInv'
    BY <1>2, IdleType DEF AbandonRequest
  <1>3. ASSUME NEW w \in Workers, CallLost(w)
        PROVE  TypeInv'
    <2>1. runs' \in [Workers -> Run]
      <3>1. [i \in Items |-> IF i \in calls[w].asked THEN Lost ELSE runs[w].results[i]]
               \in [Items -> Result]
        BY BlankType DEF Run
      <3>2. runs[w] \in Run
        OBVIOUS
      <3>3. [runs[w] EXCEPT !.pc = "record", !.results =
                 [i \in Items |-> IF i \in calls[w].asked THEN Lost ELSE @[i]]] \in Run
        BY <3>1, <3>2 DEF Run
      <3>4. QED
        BY <1>3, <3>3 DEF CallLost
    <2>2. QED
      BY <1>3, <2>1, DropCallType DEF CallLost
  <1>4. ASSUME NEW w \in Workers, RecordFails(w)
        PROVE  TypeInv'
    BY <1>4, SlotJobType, JobType, SettleType DEF RecordFails
  <1>5. ASSUME NEW w \in Workers, WorkerCrash(w)
        PROVE  TypeInv'
    <2>1. calls' \in [Workers -> Call] /\ PayloadOK'
      BY <1>5, DropCallType DEF WorkerCrash
    <2>2. jobs' \in [Modes -> Job] /\ runs' \in [Workers -> Run]
      BY <1>5, SlotJobType, JobType, SettleType DEF WorkerCrash
    <2>3. QED
      BY <1>5, <2>1, <2>2 DEF WorkerCrash
  <1>6. ASSUME NEW w \in Workers, LoseLock(w)
        PROVE  TypeInv'
    <2>1. jobs' \in [Modes -> Job]
      BY <1>6, SlotJobType, JobType DEF LoseLock, Run
    <2>2. runs' \in [Workers -> Run]
      <3>1. runs[w] \in Run
        OBVIOUS
      <3>2. [runs[w] EXCEPT !.holds = FALSE] \in Run
        BY <3>1 DEF Run
      <3>3. QED
        BY <1>6, <3>2 DEF LoseLock
    <2>3. QED
      BY <1>6, <2>1, <2>2 DEF LoseLock
  <1>7. ASSUME NEW m \in Modes, EvictJob(m)
        PROVE  TypeInv'
    BY <1>7, JobType DEF EvictJob
  <1>8. ASSUME NEW i \in Items, EditPage(i)
        PROVE  TypeInv'
    BY <1>8 DEF EditPage
  <1>9. CASE ChangeSite
    BY <1>9 DEF ChangeSite
  <1>10. QED
    BY <1>1, <1>2, <1>3, <1>4, <1>5, <1>6, <1>7, <1>8, <1>9 DEF Fault

LEMMA NextType == TypeInv /\ [Next]_vars => TypeInv'
  <1> SUFFICES ASSUME TypeInv, [Next]_vars
               PROVE  TypeInv'
    OBVIOUS
  <1>1. CASE CreatePreview
    <2>1. items' \in [Items -> Item]
      <3>1. PICK kept \in SUBSET Items, planned \in {Planned, Evidence} :
              items' = [i \in Items |-> IF i \in kept
                          THEN [status |-> "PREVIEWED", before |-> Evidence, after |-> planned,
                              task |-> "OPEN"]
                          ELSE items[i]]
        BY <1>1 DEF CreatePreview
      <3>2. QED
        BY <3>1 DEF TypeInv, TypeOK, Item, Tasks, OpStatuses, Stored
    <2>2. op' \in [status : OpStatuses, confirmedAt : BOOLEAN, rollbackLogged : BOOLEAN,
                   manual : BOOLEAN]
      BY <1>1 DEF CreatePreview, TypeInv, TypeOK, OpStatuses
    <2>3. QED
      BY <1>1, <2>1, <2>2 DEF CreatePreview, TypeInv, TypeOK, PayloadOK
  <1>2. CASE \E r \in Reqs : RequestBegins(r) \/ RequestContinues(r)
    BY <1>2, BeginsType, ContinuesType
  <1>3. CASE \E w \in Workers : WorkerStep(w) \/ PluginStep(w)
    BY <1>3, WorkerType, PluginType
  <1>4. CASE Fault
    BY <1>4, FaultType
  <1>5. CASE UNCHANGED vars
    BY <1>5 DEF vars, TypeInv, TypeOK, PayloadOK
  <1>6. QED
    BY <1>1, <1>2, <1>3, <1>4, <1>5 DEF Next

\* Every reachable state of a safe operation is well typed; in particular
\* WordPress only ever holds values of SEO metadata, never the preview's
\* evidence or a missing value, whatever the stored columns went through.
THEOREM TypeCorrect == Spec => []TypeOK
  <1>1. TypeInv => TypeOK
    BY DEF TypeInv
  <1>2. QED
    BY <1>1, InitType, NextType, PTL DEF Spec
-----------------------------------------------------------------------------
(***************************************************************************)
(* No write before confirmation.  Confirmation is one column of the row;   *)
(* the write happens three parties later.  The invariant says who may be   *)
(* holding the consequences of a confirmation.                             *)
(***************************************************************************)
AfterConfirm == {"CONFIRMED", "RUNNING", "COMPLETED", "FAILED", "ROLLED_BACK"}

\* The request passed a guard that only a confirmed operation passes.
PastConfirm(r) ==
    reqs[r].pc # "idle" /\ (reqs[r].kind \notin {"preview", "dryRun", "confirm"} \/ reqs[r].pc # "write")

ConfirmedInv ==
    /\ TypeInv
    /\ \A w \in Workers : calls[w].todo \subseteq calls[w].asked
    /\ \/ op.confirmedAt
       \/ /\ op.status \notin AfterConfirm
          /\ \A r \in Reqs : ~PastConfirm(r)
          /\ \A w \in Workers : runs[w].pc = "idle" /\ calls[w].asked = {}
          /\ \A i \in Items : origin[i] = Null

LEMMA ConfirmedInit == Init => ConfirmedInv
  BY InitType DEF Init, ConfirmedInv, AfterConfirm, PastConfirm, IdleReq, IdleRun, NoCall

LEMMA ConfirmedNext == ConfirmedInv /\ [Next]_vars => ConfirmedInv'
  <1> SUFFICES ASSUME ConfirmedInv, [Next]_vars
               PROVE  ConfirmedInv'
    OBVIOUS
  <1> DEFINE Asked == \A w \in Workers : calls[w].todo \subseteq calls[w].asked
             Before == /\ op.status \notin AfterConfirm
                       /\ \A r \in Reqs : ~PastConfirm(r)
                       /\ \A w \in Workers : runs[w].pc = "idle" /\ calls[w].asked = {}
                       /\ \A i \in Items : origin[i] = Null
  <1>0. TypeInv /\ TypeInv'
    BY NextType DEF ConfirmedInv
  <1> USE DEF PastConfirm, AfterConfirm
  <1>1. Asked'
    <2>1. Asked /\ NoCall.todo = {} /\ calls \in [Workers -> Call]
      BY <1>0 DEF ConfirmedInv, NoCall, TypeInv, TypeOK
    <2>2. ASSUME NEW w \in Workers, UNCHANGED calls \/ calls' = [calls EXCEPT ![w] = NoCall]
          PROVE  Asked'
      BY <2>1, <2>2
    <2>3. ASSUME NEW w \in Workers, NEW m \in Modes, LoadJob(w, m)
          PROVE  Asked'
      <3> DEFINE asked == IF site.connected
                          THEN {i \in ItemsIn("RUNNING") : Executable(Payload(m, i))} ELSE {}
                 call  == [asked |-> asked, todo |-> asked, reply |-> NoResults,
                           payload |-> [i \in Items |-> IF i \in asked THEN Payload(m, i) ELSE Null]]
      <3>1. calls' = [calls EXCEPT ![w] = IF asked = {} THEN NoCall ELSE call]
        BY <2>3 DEF LoadJob
      <3>2. call.todo = call.asked
        OBVIOUS
      <3> HIDE DEF asked, call
      <3>3. QED
        BY <2>1, <3>1, <3>2
    <2>4. ASSUME NEW w \in Workers, NEW i \in Items, NEW result, Answer(w, i, result)
          PROVE  Asked'
      <3> DEFINE call == [calls[w] EXCEPT !.todo = @ \ {i}, !.reply = [@ EXCEPT ![i] = result]]
      <3>1. call.todo \subseteq call.asked
        BY <2>1 DEF Call
      <3>2. calls' = [calls EXCEPT ![w] = call] \/ calls' = [calls EXCEPT ![w] = NoCall]
        BY <2>4 DEF Answer
      <3> HIDE DEF call
      <3>3. CASE calls' = [calls EXCEPT ![w] = call]
        BY <2>1, <3>1, <3>3
      <3>4. QED
        BY <2>2, <3>2, <3>3
    <2>5. CASE UNCHANGED calls
      BY <2>1, <2>5
    <2>6. CASE \E w \in Workers : WorkerStep(w)
      BY <2>2, <2>3, <2>5, <2>6
         DEF WorkerStep, RejectJob, Respond, RecordRead, RecordRefused, RecordResult, CompleteJob
    <2>7. CASE \E w \in Workers : PluginStep(w)
      BY <2>4, <2>7 DEF PluginStep, ApplyItem, RefuseItem
    <2>8. CASE Fault
      BY <2>2, <2>5, <2>8 DEF Fault, EnqueueFails, AbandonRequest, CallLost, RecordFails, WorkerCrash,
                              LoseLock, EvictJob, EditPage, ChangeSite
    <2>9. CASE CreatePreview \/ \E r \in Reqs : RequestBegins(r) \/ RequestContinues(r)
      <3>1. UNCHANGED calls
        BY <2>9 DEF CreatePreview, RequestBegins, RequestContinues, Admit, DryRunRead, ConfirmRead,
             StartRead, FinishRead, RollbackRead, RetryRead, DryRunWrite, ConfirmWrite, StartWrite,
             FinishWrite, RollbackWrite, RetryWrite, Enqueue, QueueFailureRead, MarkQueueFailure
      <3>2. QED
        BY <2>5, <3>1
    <2>10. QED
      BY <2>5, <2>6, <2>7, <2>8, <2>9 DEF Next, vars
  <1>2. CASE op.confirmedAt
    \* No transaction resets the column.
    <2>1. op \in [status : OpStatuses, confirmedAt : BOOLEAN, rollbackLogged : BOOLEAN,
                   manual : BOOLEAN]
      BY <1>0 DEF TypeInv, TypeOK
    <2>2. CASE UNCHANGED op
      BY <1>0, <1>1, <1>2, <2>2 DEF ConfirmedInv
    <2>3. ASSUME \E status : \/ op' = [op EXCEPT !.status = status]
                             \/ op' = [op EXCEPT !.status = status, !.confirmedAt = TRUE]
                             \/ op' = [op EXCEPT !.status = status, !.rollbackLogged = TRUE]
                             \/ op' = [op EXCEPT !.status = status, !.manual = TRUE]
          PROVE  ConfirmedInv'
      BY <1>0, <1>1, <1>2, <2>1, <2>3 DEF ConfirmedInv
    <2>4. CASE CreatePreview \/ \E r \in Reqs : RequestBegins(r)
      BY <2>2, <2>3, <2>4 DEF CreatePreview, RequestBegins, Admit, DryRunRead, ConfirmRead,
           StartRead, FinishRead, RollbackRead, RetryRead
    <2>5. CASE \E r \in Reqs : RequestContinues(r)
      BY <2>2, <2>3, <2>5 DEF RequestContinues, DryRunWrite, ConfirmWrite, StartWrite,
           FinishWrite, RollbackWrite, RetryWrite, Enqueue, QueueFailureRead, MarkQueueFailure
    <2>6. CASE \E w \in Workers : WorkerStep(w) \/ PluginStep(w)
      BY <2>2, <2>3, <2>6 DEF WorkerStep, RejectJob, LoadJob, Respond, RecordRead, RecordRefused,
           RecordResult, CompleteJob, PluginStep, ApplyItem, RefuseItem
    <2>7. CASE Fault
      BY <2>2, <2>7 DEF Fault, EnqueueFails, AbandonRequest, CallLost, RecordFails, WorkerCrash,
           LoseLock, EvictJob, EditPage, ChangeSite
    <2>8. QED
      BY <2>2, <2>4, <2>5, <2>6, <2>7 DEF Next, vars
  <1>3. CASE ~op.confirmedAt
    \* Nobody is past the guard, so only preview, dry run and confirm move.
    <2>1. Before
      BY <1>3 DEF ConfirmedInv
    <2>2. SUFFICES op'.confirmedAt \/ Before'
      BY <1>0, <1>1 DEF ConfirmedInv
    <2>3. TypeOK
      BY <1>0 DEF TypeInv
    <2>4. CASE CreatePreview
      BY <2>1, <2>3, <2>4 DEF CreatePreview, TypeOK
    <2>5. ASSUME NEW r \in Reqs, RequestBegins(r)
          PROVE  Before'
      <3>1. DryRunRead(r) \/ ConfirmRead(r)
        BY <2>1, <2>5 DEF RequestBegins, StartRead, FinishRead, RollbackRead, RetryRead
      <3>2. QED
        BY <2>1, <2>3, <3>1 DEF DryRunRead, ConfirmRead, Admit, TypeOK
    <2>6. ASSUME NEW r \in Reqs, RequestContinues(r)
          PROVE  op'.confirmedAt \/ Before'
      <3>1. DryRunWrite(r) \/ ConfirmWrite(r)
        BY <2>1, <2>6 DEF RequestContinues, StartWrite, FinishWrite, RollbackWrite, RetryWrite,
             InWrite, Enqueue, QueueFailureRead, MarkQueueFailure
      <3>2. CASE DryRunWrite(r)
        BY <2>1, <2>3, <3>2 DEF DryRunWrite, Reply, IdleReq, TypeOK
      <3>3. CASE ConfirmWrite(r)
        BY <2>3, <3>3 DEF ConfirmWrite, TypeOK
      <3>4. QED
        BY <3>1, <3>2, <3>3
    <2>7. ASSUME NEW w \in Workers, WorkerStep(w)
          PROVE  Before'
      <3>1. PICK m \in Modes : RejectJob(w, m)
        BY <2>1, <2>7 DEF WorkerStep, LoadJob, Loadable, Respond, RecordRead, RecordRefused,
             RecordResult, CompleteJob
      <3>2. QED
        BY <2>1, <3>1 DEF RejectJob
    <2>8. ASSUME NEW w \in Workers, PluginStep(w)
          PROVE  FALSE
      BY <2>1, <2>8 DEF PluginStep, ApplyItem, RefuseItem, ConfirmedInv
    <2>9. CASE Fault
      <3>1. UNCHANGED <<op, runs, calls, origin>>
        BY <2>1, <2>9 DEF Fault, EnqueueFails, AbandonRequest, CallLost, RecordFails, WorkerCrash,
             LoseLock, EvictJob, EditPage, ChangeSite
      <3>2. \/ UNCHANGED reqs
            \/ \E r \in Reqs : Reply(r)
        BY <2>1, <2>9 DEF Fault, EnqueueFails, AbandonRequest, CallLost, RecordFails, WorkerCrash,
             LoseLock, EvictJob, EditPage, ChangeSite
      <3>3. QED
        BY <2>1, <2>3, <3>1, <3>2 DEF Reply, IdleReq, TypeOK
    <2>10. CASE UNCHANGED vars
      BY <2>1, <2>10 DEF vars
    <2>11. QED
      BY <2>4, <2>5, <2>6, <2>7, <2>8, <2>9, <2>10 DEF Next
  <1>4. QED
    BY <1>2, <1>3

\* Whatever stale requests, duplicated jobs, crashes and late answers do, the
\* worker asks WordPress to write, and WordPress is written, only for an
\* operation that has been confirmed.
THEOREM ConfirmedWrites == Spec => []NoWriteBeforeConfirmation
  <1>1. ConfirmedInv => NoWriteBeforeConfirmation
    BY DEF ConfirmedInv, NoWriteBeforeConfirmation
  <1>2. QED
    BY <1>1, ConfirmedInit, ConfirmedNext, PTL DEF Spec
-----------------------------------------------------------------------------
(***************************************************************************)
(* No phantom completion.  A success travels from the plugin's reply to    *)
(* the results of a slot to the item row; each of the three may outlive    *)
(* the party it came from, so the invariant speaks about all of them.      *)
(***************************************************************************)
Written(i) == origin[i] # Null

ItemsWritten ==
    ~op.manual => \A i \in Items : items[i].status \in {"COMPLETED", "ROLLED_BACK"} => Written(i)
ResultsWritten == \A w \in Workers, i \in Items : runs[w].results[i].status = "COMPLETED" => Written(i)
RepliesWritten == \A w \in Workers, i \in Items : calls[w].reply[i].status = "COMPLETED" => Written(i)

WrittenInv == ItemsWritten /\ ResultsWritten /\ RepliesWritten

LEMMA WrittenInit == Init => WrittenInv
  BY DEF Init, WrittenInv, ItemsWritten, ResultsWritten, RepliesWritten, IdleReq, IdleRun,
         NoCall, NoResults, NoResult, None

\* The history of a written page is never forgotten.
LEMMA WrittenKept ==
    ASSUME TypeInv, [Next]_vars, NEW i \in Items, Written(i)
    PROVE  Written(i)'
  <1>1. \/ UNCHANGED origin
        \/ \E w \in Workers, k \in Items : ApplyItem(w, k)
    BY DEF Next, vars, CreatePreview, RequestBegins, RequestContinues, Admit, DryRunRead, ConfirmRead,
           StartRead, FinishRead, RollbackRead, RetryRead, DryRunWrite, ConfirmWrite, StartWrite,
           FinishWrite, RollbackWrite, RetryWrite, Enqueue, QueueFailureRead, MarkQueueFailure,
           WorkerStep, RejectJob, LoadJob, Respond, RecordRead, RecordRefused, RecordResult,
           CompleteJob, PluginStep, RefuseItem, Fault, EnqueueFails, AbandonRequest, CallLost,
           RecordFails, WorkerCrash, LoseLock, EvictJob, EditPage, ChangeSite
  <1>2. QED
    BY <1>1 DEF Written, ApplyItem, TypeInv, TypeOK

\* The log never forgets that a result was entered by hand.
LEMMA ManualKept ==
    ASSUME TypeInv, [Next]_vars, op.manual
    PROVE  op'.manual
  <1>1. op \in [status : OpStatuses, confirmedAt : BOOLEAN, rollbackLogged : BOOLEAN, manual : BOOLEAN]
    BY DEF TypeInv, TypeOK
  <1>2. CASE UNCHANGED op
    BY <1>2
  <1>3. ASSUME \E status : \/ op' = [op EXCEPT !.status = status]
                           \/ op' = [op EXCEPT !.status = status, !.confirmedAt = TRUE]
                           \/ op' = [op EXCEPT !.status = status, !.rollbackLogged = TRUE]
                           \/ op' = [op EXCEPT !.status = status, !.manual = TRUE]
        PROVE  op'.manual
    BY <1>1, <1>3
  <1>4. CASE CreatePreview \/ \E r \in Reqs : RequestBegins(r)
    BY <1>2, <1>3, <1>4 DEF CreatePreview, RequestBegins, Admit, DryRunRead, ConfirmRead,
         StartRead, FinishRead, RollbackRead, RetryRead
  <1>5. CASE \E r \in Reqs : RequestContinues(r)
    BY <1>2, <1>3, <1>5 DEF RequestContinues, DryRunWrite, ConfirmWrite, StartWrite,
         FinishWrite, RollbackWrite, RetryWrite, Enqueue, QueueFailureRead, MarkQueueFailure
  <1>6. CASE \E w \in Workers : WorkerStep(w) \/ PluginStep(w)
    BY <1>2, <1>3, <1>6 DEF WorkerStep, RejectJob, LoadJob, Respond, RecordRead, RecordRefused,
         RecordResult, CompleteJob, PluginStep, ApplyItem, RefuseItem
  <1>7. CASE Fault
    BY <1>2, <1>7 DEF Fault, EnqueueFails, AbandonRequest, CallLost, RecordFails, WorkerCrash,
         LoseLock, EvictJob, EditPage, ChangeSite
  <1>8. QED
    BY <1>2, <1>4, <1>5, <1>6, <1>7 DEF Next, vars

LEMMA ItemsWrittenNext ==
    ASSUME TypeInv, WrittenInv, [Next]_vars
    PROVE  ItemsWritten'
  <1> SUFFICES ASSUME ~op'.manual
               PROVE  ItemsWritten'
    BY DEF ItemsWritten
  <1>0. ~op.manual
    BY ManualKept
  <1>1. items \in [Items -> Item] /\ runs \in [Workers -> Run]
    BY DEF TypeInv, TypeOK
  <1>2. CASE UNCHANGED items
    BY <1>0, <1>2, WrittenKept DEF ItemsWritten, WrittenInv
  <1>3. ASSUME NEW S, NEW st \in OpStatuses \ {"COMPLETED", "ROLLED_BACK"}, items' = SetStatus(S, st)
        PROVE  ItemsWritten'
    BY <1>1, <1>0, <1>3, WrittenKept DEF ItemsWritten, WrittenInv, SetStatus
  <1>4. CASE CreatePreview
    <2>1. PICK kept \in SUBSET Items, planned \in {Planned, Evidence} :
            items' = [i \in Items |-> IF i \in kept
                        THEN [status |-> "PREVIEWED", before |-> Evidence, after |-> planned,
                              task |-> "OPEN"]
                        ELSE items[i]]
      BY <1>4 DEF CreatePreview
    <2>2. QED
      BY <1>0, <1>1, <2>1, WrittenKept DEF ItemsWritten, WrittenInv
  <1>5. ASSUME NEW r \in Reqs, RequestContinues(r)
        PROVE  ItemsWritten'
    <2>1. ~FinishWrite(r)
      <3>1. op' = [op EXCEPT !.status = op'.status, !.manual = TRUE] => op'.manual
        BY DEF TypeInv, TypeOK
      <3>2. QED
        BY <3>1 DEF FinishWrite, TypeInv, TypeOK
    <2>2. {"DRY_RUN_PASSED", "CONFIRMED", "RUNNING", "FAILED"} \subseteq OpStatuses \ {"COMPLETED", "ROLLED_BACK"}
      BY DEF OpStatuses
    <2>3. QED
      BY <1>2, <1>3, <1>5, <2>1, <2>2 DEF RequestContinues, DryRunWrite, ConfirmWrite, StartWrite,
           RollbackWrite, RetryWrite, Enqueue, QueueFailureRead, MarkQueueFailure
  <1>6. ASSUME NEW w \in Workers, RecordResult(w)
        PROVE  ItemsWritten'
    <2>1. ASSUME NEW i \in Items, items'[i].status \in {"COMPLETED", "ROLLED_BACK"}
          PROVE  Written(i)
      <3>1. CASE i \notin Reported(w)
        BY <1>0, <1>1, <1>6, <2>1, <3>1 DEF RecordResult, WrittenInv, ItemsWritten
      <3>2. CASE i \in Reported(w)
        <4>1. items'[i] = Recorded(w, i)
          BY <1>6, <3>2 DEF RecordResult
        <4>2. runs[w].results[i] \in Result /\ items[i] \in Item
          BY <1>1 DEF Run
        <4>3. runs[w].results[i].status = "COMPLETED"
          BY <2>1, <4>1, <4>2 DEF Recorded, Row, Result, Results, Item, None
        <4>4. QED
          BY <4>3 DEF WrittenInv, ResultsWritten
      <3>3. QED
        BY <3>1, <3>2
    <2>2. QED
      BY <2>1, WrittenKept DEF ItemsWritten
  <1>7. \/ UNCHANGED items
        \/ CreatePreview
        \/ \E r \in Reqs : RequestContinues(r)
        \/ \E w \in Workers : RecordResult(w)
    BY DEF Next, vars, RequestBegins, Admit, DryRunRead, ConfirmRead, StartRead, FinishRead,
           RollbackRead, RetryRead, WorkerStep, RejectJob, LoadJob, Respond, RecordRead,
           RecordRefused, CompleteJob, PluginStep, ApplyItem, RefuseItem, Fault, EnqueueFails,
           AbandonRequest, CallLost, RecordFails, WorkerCrash, LoseLock, EvictJob, EditPage, ChangeSite
  <1>8. QED
    BY <1>2, <1>4, <1>5, <1>6, <1>7

\* What a slot's results say after a step: kept, dropped, or heard from the plugin.
LEMMA ResultsWrittenNext ==
    ASSUME TypeInv, WrittenInv, [Next]_vars
    PROVE  ResultsWritten'
  <1> USE DEF WrittenInv
  <1>1. items \in [Items -> Item] /\ runs \in [Workers -> Run] /\ calls \in [Workers -> Call]
    BY DEF TypeInv, TypeOK
  <1>2. ASSUME NEW w \in Workers,
               NEW new,
               \A i \in Items : new.results[i].status = "COMPLETED" => Written(i),
               runs' = [runs EXCEPT ![w] = new]
        PROVE  ResultsWritten'
    BY <1>1, <1>2, WrittenKept DEF ResultsWritten
  <1>3. CASE UNCHANGED runs
    BY <1>3, WrittenKept DEF ResultsWritten
  <1>4. ASSUME NEW w \in Workers, NEW outcome, Settle(w, outcome)
        PROVE  ResultsWritten'
    <2>1. \A i \in Items : IdleRun.results[i].status # "COMPLETED"
      BY DEF IdleRun, NoResults, NoResult, None
    <2>2. runs' = [runs EXCEPT ![w] = IdleRun]
      BY <1>4 DEF Settle
    <2>3. QED
      BY <1>2, <2>1, <2>2
  <1>5. ASSUME NEW w \in Workers, NEW m \in Modes, LoadJob(w, m)
        PROVE  ResultsWritten'
    <2> DEFINE loaded == ItemsIn("RUNNING")
               asked  == IF site.connected THEN {i \in loaded : Executable(Payload(m, i))} ELSE {}
               local  == [i \in Items |-> IF i \in loaded \ asked
                                          THEN [status |-> "FAILED", before |-> items[i].before,
                                                after |-> items[i].after]
                                          ELSE NoResult]
               run    == [pc |-> IF asked = {} THEN "record" ELSE "call",
                          job |-> m, holds |-> TRUE, results |-> local]
    <2>1. \A i \in Items : run.results[i].status # "COMPLETED"
      BY <1>1 DEF Item, NoResult, None
    <2>2. runs' = [runs EXCEPT ![w] = run]
      BY <1>5 DEF LoadJob
    <2> HIDE DEF run
    <2>3. QED
      BY <1>2, <2>1, <2>2
  <1>6. ASSUME NEW w \in Workers, Respond(w)
        PROVE  ResultsWritten'
    <2> DEFINE new == [runs[w] EXCEPT !.pc = "record", !.results =
                          [i \in Items |-> IF i \in calls[w].asked THEN calls[w].reply[i] ELSE @[i]]]
    <2>1. \A i \in Items : new.results[i].status = "COMPLETED" => Written(i)
      BY <1>1 DEF Run, ResultsWritten, RepliesWritten
    <2>2. runs' = [runs EXCEPT ![w] = new]
      BY <1>6 DEF Respond
    <2> HIDE DEF new
    <2>3. QED
      BY <1>2, <2>1, <2>2
  <1>7. ASSUME NEW w \in Workers, CallLost(w)
        PROVE  ResultsWritten'
    <2> DEFINE new == [runs[w] EXCEPT !.pc = "record", !.results =
                          [i \in Items |-> IF i \in calls[w].asked THEN Lost ELSE @[i]]]
    <2>1. \A i \in Items : new.results[i].status = "COMPLETED" => Written(i)
      BY <1>1 DEF Run, ResultsWritten, Lost
    <2>2. runs' = [runs EXCEPT ![w] = new]
      BY <1>7 DEF CallLost
    <2> HIDE DEF new
    <2>3. QED
      BY <1>2, <2>1, <2>2
  <1>8. ASSUME NEW w \in Workers, RecordRead(w) \/ RecordResult(w) \/ LoseLock(w)
        PROVE  ResultsWritten'
    <2>1. \E new : runs' = [runs EXCEPT ![w] = new] /\ new.results = runs[w].results
      BY <1>1, <1>8 DEF RecordRead, RecordResult, LoseLock, Run
    <2>2. QED
      BY <1>2, <2>1 DEF ResultsWritten
  <1>9. ASSUME NEW w \in Workers,
               RecordRefused(w) \/ CompleteJob(w) \/ RecordFails(w) \/ WorkerCrash(w)
        PROVE  ResultsWritten'
    BY <1>4, <1>9, Zenon DEF RecordRefused, CompleteJob, RecordFails, WorkerCrash
  <1>10. ASSUME NEW w \in Workers, WorkerStep(w)
         PROVE  ResultsWritten'
    BY <1>3, <1>5, <1>6, <1>8, <1>9, <1>10 DEF WorkerStep, RejectJob
  <1>11. CASE Fault
    <2>1. \/ UNCHANGED runs
          \/ \E w \in Workers : CallLost(w) \/ RecordFails(w) \/ WorkerCrash(w) \/ LoseLock(w)
      BY <1>11 DEF Fault, EnqueueFails, AbandonRequest, EvictJob, EditPage, ChangeSite
    <2>2. QED
      BY <1>3, <1>7, <1>8, <1>9, <2>1
  <1>12. CASE CreatePreview \/ \E r \in Reqs : RequestBegins(r) \/ RequestContinues(r)
    <2>1. UNCHANGED runs
      BY <1>12 DEF CreatePreview, RequestBegins, RequestContinues, Admit, DryRunRead, ConfirmRead,
           StartRead, FinishRead, RollbackRead, RetryRead, DryRunWrite, ConfirmWrite, StartWrite,
           FinishWrite, RollbackWrite, RetryWrite, Enqueue, QueueFailureRead, MarkQueueFailure
    <2>2. QED
      BY <1>3, <2>1
  <1>13. ASSUME NEW w \in Workers, PluginStep(w)
         PROVE  ResultsWritten'
    BY <1>3, <1>13 DEF PluginStep, ApplyItem, RefuseItem
  <1>14. QED
    BY <1>3, <1>10, <1>11, <1>12, <1>13 DEF Next, vars

LEMMA RepliesWrittenNext ==
    ASSUME TypeInv, WrittenInv, [Next]_vars
    PROVE  RepliesWritten'
  <1> USE DEF WrittenInv
  <1>1. calls \in [Workers -> Call]
    BY DEF TypeInv, TypeOK
  <1>2. ASSUME NEW w \in Workers, NEW new,
               \A i \in Items : new.reply[i].status = "COMPLETED" => Written(i)',
               calls' = [calls EXCEPT ![w] = new]
        PROVE  RepliesWritten'
    BY <1>1, <1>2, WrittenKept DEF RepliesWritten
  <1>3. CASE UNCHANGED calls
    BY <1>3, WrittenKept DEF RepliesWritten
  <1>4. ASSUME NEW w \in Workers, calls' = [calls EXCEPT ![w] = NoCall]
        PROVE  RepliesWritten'
    <2>1. \A i \in Items : NoCall.reply[i].status # "COMPLETED"
      BY DEF NoCall, NoResults, NoResult, None
    <2>2. QED
      BY <1>2, <1>4, <2>1
  <1>5. ASSUME NEW w \in Workers, NEW m \in Modes, LoadJob(w, m)
        PROVE  RepliesWritten'
    <2> DEFINE asked == IF site.connected
                        THEN {i \in ItemsIn("RUNNING") : Executable(Payload(m, i))} ELSE {}
               call  == [asked |-> asked, todo |-> asked, reply |-> NoResults,
                         payload |-> [i \in Items |-> IF i \in asked THEN Payload(m, i) ELSE Null]]
    <2>1. calls' = [calls EXCEPT ![w] = IF asked = {} THEN NoCall ELSE call]
      BY <1>5 DEF LoadJob
    <2>2. \A i \in Items : call.reply[i].status # "COMPLETED"
      BY DEF NoResults, NoResult, None
    <2> HIDE DEF asked, call
    <2>3. CASE asked = {}
      BY <1>4, <2>1, <2>3
    <2>4. CASE asked # {}
      <3>1. calls' = [calls EXCEPT ![w] = call]
        BY <2>1, <2>4
      <3>2. QED
        BY <1>2, <2>2, <3>1
    <2>5. QED
      BY <2>3, <2>4
  <1>6. ASSUME NEW w \in Workers, NEW i \in Items, NEW result, Answer(w, i, result),
               result.status = "COMPLETED" => Written(i)'
        PROVE  RepliesWritten'
    <2> DEFINE call == [calls[w] EXCEPT !.todo = @ \ {i}, !.reply = [@ EXCEPT ![i] = result]]
    <2>1. \A k \in Items : call.reply[k].status = "COMPLETED" => Written(k)'
      BY <1>1, <1>6, WrittenKept DEF Call, RepliesWritten
    <2>2. calls' = [calls EXCEPT ![w] = call] \/ calls' = [calls EXCEPT ![w] = NoCall]
      BY <1>6 DEF Answer
    <2> HIDE DEF call
    <2>3. QED
      BY <1>2, <1>4, <2>1, <2>2
  <1>7. ASSUME NEW w \in Workers, NEW i \in Items, ApplyItem(w, i)
        PROVE  RepliesWritten'
    <2>1. Written(i)'
      BY <1>7, ConversionAssumption DEF ApplyItem, Written, TypeInv, TypeOK
    <2>2. QED
      BY <1>6, <1>7, <2>1 DEF ApplyItem
  <1>8. ASSUME NEW w \in Workers, NEW i \in Items, RefuseItem(w, i)
        PROVE  RepliesWritten'
    BY <1>6, <1>8 DEF RefuseItem
  <1>9. ASSUME NEW w \in Workers, WorkerStep(w)
        PROVE  RepliesWritten'
    BY <1>3, <1>4, <1>5, <1>9 DEF WorkerStep, RejectJob, Respond, RecordRead, RecordRefused,
                                  RecordResult, CompleteJob
  <1>10. CASE Fault
    <2>1. UNCHANGED calls \/ \E w \in Workers : calls' = [calls EXCEPT ![w] = NoCall]
      BY <1>10 DEF Fault, EnqueueFails, AbandonRequest, CallLost, RecordFails, WorkerCrash, LoseLock,
                   EvictJob, EditPage, ChangeSite
    <2>2. QED
      BY <1>3, <1>4, <2>1
  <1>11. CASE CreatePreview \/ \E r \in Reqs : RequestBegins(r) \/ RequestContinues(r)
    <2>1. UNCHANGED calls
      BY <1>11 DEF CreatePreview, RequestBegins, RequestContinues, Admit, DryRunRead, ConfirmRead,
           StartRead, FinishRead, RollbackRead, RetryRead, DryRunWrite, ConfirmWrite, StartWrite,
           FinishWrite, RollbackWrite, RetryWrite, Enqueue, QueueFailureRead, MarkQueueFailure
    <2>2. QED
      BY <1>3, <2>1
  <1>12. QED
    BY <1>3, <1>7, <1>8, <1>9, <1>10, <1>11 DEF Next, vars, PluginStep

\* Unless results are entered by hand, an item row says COMPLETED or
\* ROLLED_BACK only if the plugin wrote that page for this operation.
THEOREM HonestCompletion == Spec => []NoPhantomCompletion
  <1>1. Init => TypeInv /\ WrittenInv
    BY InitType, WrittenInit
  <1>2. TypeInv /\ WrittenInv /\ [Next]_vars => (TypeInv /\ WrittenInv)'
    BY NextType, ItemsWrittenNext, ResultsWrittenNext, RepliesWrittenNext DEF WrittenInv
  <1>3. WrittenInv => NoPhantomCompletion
    BY DEF WrittenInv, ItemsWritten, NoPhantomCompletion, Written
  <1>4. QED
    BY <1>1, <1>2, <1>3, PTL DEF Spec
-----------------------------------------------------------------------------
(***************************************************************************)
(* An operation handled by one request at a time.  Two requests that meet  *)
(* may both pass a guard only one of them should, and a job run twice may  *)
(* record twice, so what follows is claimed where neither happens: this is *)
(* the regime of the run so_sequential, for any number of items and slots. *)
(* Calls and their answers may still get lost, the plugin may refuse       *)
(* items, queue.add may throw, jobs may be evicted, and the site may be    *)
(* disconnected or lose its plan at any time.                              *)
(***************************************************************************)
Sequential ==
    /\ \A r, q \in Reqs : r = q
    /\ Faults \cap {"enqueueUnsure", "saasCrash", "workerCrash", "stall", "jobError", "edit",
                    "manualRace"} = {}

Working(w) == runs[w].pc \in {"call", "record", "commit"}
Resting == \A w \in Workers : ~Working(w)
NoneInHand == \A r \in Reqs : reqs[r].pc = "idle"

(***************************************************************************)
(* The invariant has two halves.  ControlInv says who may act: a request   *)
(* in hand, a waiting job and a slot at work exclude one another, so what  *)
(* a handler read is still so when it writes, and no item has a status     *)
(* that does not fit the operation's.  It is closed under Next by itself.  *)
(***************************************************************************)
\* What the request has read is still so.
StillSo(r) ==
    /\ reqs[r].pc = "write" =>
           /\ reqs[r].kind # "preview"
           /\ reqs[r].kind = "dryRun" => op.status = "PREVIEWED"
           /\ reqs[r].kind = "confirm" => op.status = "DRY_RUN_PASSED"
           /\ reqs[r].kind = "start" => op.status = "CONFIRMED" /\ reqs[r].mode = "execute"
           /\ reqs[r].kind = "finish" => op.status = "RUNNING" /\ ~site.queue
           /\ reqs[r].kind = "rollback" =>
                  /\ op.status \in {"COMPLETED", "FAILED"} /\ reqs[r].mode = "rollback"
                  /\ reqs[r].picked = ItemsIn("COMPLETED")
           /\ reqs[r].kind = "retry" =>
                  op.status = "FAILED" /\ ItemsIn("FAILED") # {} /\ reqs[r].mode = RetryMode
    /\ reqs[r].pc \notin {"idle", "write"} => op.status = "RUNNING" /\ reqs[r].mode = RetryMode
    /\ reqs[r].pc \in {"queueFailed", "markFailed"} => site.queue

\* A running operation is in the hands of one party at a time.
OneThread ==
    /\ \A r \in Reqs : StillSo(r)
    /\ \A m \in Modes : jobs[m].state = "waiting" =>
           op.status = "RUNNING" /\ site.queue /\ m = RetryMode /\ NoneInHand /\ Resting
    /\ \A w \in Workers : Working(w) =>
           /\ op.status = "RUNNING" /\ site.queue /\ runs[w].job = RetryMode /\ NoneInHand
           /\ \A v \in Workers : Working(v) => v = w

Early == {"NONE", "PREVIEWED", "DRY_RUN_PASSED", "CONFIRMED"}

\* The status an item may have beside that of the operation.
Fits(i) ==
    LET status == items[i].status
    IN  /\ IF op.status \in Early THEN status \in {None, op.status}
           ELSE status \in {None, "RUNNING", "COMPLETED", "FAILED", "ROLLED_BACK"}
        /\ status = "RUNNING" => op.status = "RUNNING"
        /\ status = "ROLLED_BACK" => op.rollbackLogged /\ site.queue
        /\ status = "COMPLETED" => ~(op.rollbackLogged /\ site.queue)
        /\ status = "FAILED" /\ op.status = "RUNNING" => op.rollbackLogged
        /\ op.status = "COMPLETED" => status \in {None, "COMPLETED"}

StatusesFit ==
    /\ op.status \in Early => ~op.rollbackLogged
    /\ op.status = "ROLLED_BACK" => op.rollbackLogged /\ site.queue
    /\ op.manual => ~site.queue
    /\ \A i \in Items : Fits(i)

\* A slot at work has, or waits for, a result of every running item.
Covers(w) ==
    /\ runs[w].pc = "call" =>
           /\ \A i \in Items :
                  items[i].status = "RUNNING" <=> (i \in calls[w].asked \/ runs[w].results[i].status # None)
           /\ \A i \in calls[w].asked \ calls[w].todo : calls[w].reply[i].status # None
    /\ runs[w].pc \in {"record", "commit"} =>
           \A i \in Items : items[i].status = "RUNNING" <=> runs[w].results[i].status # None

ControlInv == OneThread /\ StatusesFit /\ (\A w \in Workers : Covers(w)) /\ BacklogAgrees

(***************************************************************************)
(* DataInv follows the values.  A call whose answer was given up may still *)
(* write, long after a retry or a rollback began; that it does no harm is  *)
(* what Todo says: it writes the original again, or its item has lost both *)
(* columns (Spoiled) and will neither be applied nor restored.             *)
(***************************************************************************)
\* An answer that failed leaves nothing to apply or to restore.
Spoiled(i) ==
    /\ items[i].status \in {"FAILED", "RUNNING"}
    /\ items[i].before \notin Seo /\ items[i].after \notin Seo

\* What a call may still write: the original again, the planned value the slot
\* waits for, or one whose answer is already given up.
Todo(w, i) ==
    \/ calls[w].payload[i] = Captured(i)
    \/ ~op.rollbackLogged /\ runs[w].pc = "call"
    \/ ~op.rollbackLogged /\ runs[w].pc \in {"record", "commit"} /\ runs[w].results[i] = Lost
    \/ Spoiled(i)

\* What the slot reports of an item it did not send: the columns as they are.
Local(i, result) ==
    /\ result.before = items[i].before /\ result.after = items[i].after
    /\ result.after \in Seo => origin[i] = Null

\* What a result says of the item and its page.
Truthful(i, result) ==
    IF op.rollbackLogged
    THEN result.status = "COMPLETED" => PutBack(i) /\ items[i].before \in Seo
    ELSE /\ result.status = "COMPLETED" =>
                result.before = Captured(i) /\ origin[i] # Null /\ items[i].after \in Seo
         /\ result.status = "FAILED" => result = Lost \/ Local(i, result)

\* An item a slot waits for has the value it was sent with; planned values go
\* to pages the operation never wrote.
Sent(w, i) ==
    IF op.rollbackLogged THEN items[i].before \in Seo
    ELSE items[i].after \in Seo /\ (i \in calls[w].todo => origin[i] = Null)

SoundAt(w, i) ==
    /\ runs[w].pc = "call" =>
           /\ i \in calls[w].asked => Sent(w, i)
           /\ i \in calls[w].asked \ calls[w].todo => Truthful(i, calls[w].reply[i])
           /\ i \notin calls[w].asked => Truthful(i, runs[w].results[i])
    /\ runs[w].pc \in {"record", "commit"} => Truthful(i, runs[w].results[i])

Sound(w) == \A i \in Items : SoundAt(w, i)

DataInv ==
    /\ \A i \in Items : items[i].before \in Seo /\ items[i].status # "ROLLED_BACK" => items[i].before = Captured(i)
    /\ RestorePoint /\ Restored
    /\ \A i \in Items : ~site.queue \/ items[i].status = None => origin[i] = Null
    /\ Resting /\ ~op.rollbackLogged =>
           \A i \in Items : items[i].status \notin {None, "COMPLETED"} /\ items[i].after \in Seo => origin[i] = Null
    /\ \A w \in Workers : calls[w].todo # {} => site.queue
    /\ \A w \in Workers : \A i \in calls[w].todo : Todo(w, i)
    /\ \A w \in Workers : Sound(w)
-----------------------------------------------------------------------------
Quiet == Resting /\ \A m \in Modes : jobs[m].state # "waiting"

LEMMA QuietThread ==
    Quiet /\ (\A r \in Reqs : StillSo(r)) => OneThread /\ \A w \in Workers : Covers(w)
  BY DEF Quiet, Resting, Working, OneThread, Covers

LEMMA QuietThreadNext ==
    Quiet' /\ (\A r \in Reqs : StillSo(r))' => OneThread' /\ (\A w \in Workers : Covers(w))'
  BY QuietThread, PTL

\* Nobody else is at work while a request is in hand, or once the operation settled.
LEMMA WhoseTurn ==
    ASSUME OneThread
    PROVE  /\ \A r \in Reqs : reqs[r].pc # "idle" => Quiet
           /\ op.status # "RUNNING" \/ ~site.queue => Quiet
  BY DEF OneThread, Quiet, NoneInHand, Resting

LEMMA ControlInit == Init => ControlInv
  BY DEF Init, ControlInv, OneThread, StillSo, StatusesFit, Fits, Covers, BacklogAgrees, Working,
         IdleReq, IdleRun, NoCall, NoJob, NoResults, NoResult, None, Early, Modes

\* What a handler's guard has seen.
Guarded(kind, picked, mode) ==
    \/ kind = "dryRun" /\ op.status = "PREVIEWED"
    \/ kind = "confirm" /\ op.status = "DRY_RUN_PASSED"
    \/ kind = "start" /\ op.status = "CONFIRMED" /\ mode = "execute"
    \/ kind = "finish" /\ op.status = "RUNNING" /\ ~site.queue
    \/ /\ kind = "rollback" /\ op.status \in {"COMPLETED", "FAILED"} /\ mode = "rollback"
       /\ picked = ItemsIn("COMPLETED")
    \/ kind = "retry" /\ op.status = "FAILED" /\ ItemsIn("FAILED") # {} /\ mode = RetryMode

LEMMA BeginsGuarded ==
    ASSUME Sequential, NEW r \in Reqs, RequestBegins(r)
    PROVE  \E kind, picked, mode : Admit(r, kind, picked, mode) /\ Guarded(kind, picked, mode)
  <1>1. CASE DryRunRead(r)
    BY <1>1 DEF DryRunRead, Guarded
  <1>2. CASE ConfirmRead(r)
    BY <1>2 DEF ConfirmRead, Guarded
  <1>3. CASE StartRead(r)
    BY <1>3 DEF StartRead, Guarded
  <1>4. CASE FinishRead(r)
    BY <1>4 DEF FinishRead, Guarded, Sequential
  <1>5. CASE RollbackRead(r)
    BY <1>5 DEF RollbackRead, Guarded
  <1>6. CASE RetryRead(r)
    BY <1>6 DEF RetryRead, Guarded
  <1> QED
    BY <1>1, <1>2, <1>3, <1>4, <1>5, <1>6 DEF RequestBegins

LEMMA BeginsControl ==
    ASSUME Sequential, TypeInv, ControlInv, NEW r \in Reqs, RequestBegins(r)
    PROVE  ControlInv'
  <1>1. PICK kind, picked, mode : Admit(r, kind, picked, mode) /\ Guarded(kind, picked, mode)
    BY BeginsGuarded
  <1>2. Quiet
    BY <1>1, WhoseTurn DEF ControlInv, Guarded
  <1>3. reqs' = [reqs EXCEPT ![r] = [kind |-> kind, pc |-> "write", picked |-> picked, mode |-> mode]]
        /\ UNCHANGED <<op, items, jobs, runs, calls, page, origin, site>>
    BY <1>1 DEF Admit
  <1>4. Quiet'
    BY <1>2, <1>3 DEF Quiet, Resting, Working
  <1>5. \A q \in Reqs : StillSo(q)'
    <2>1. \A q \in Reqs : q = r
      BY DEF Sequential
    <2>2. reqs'[r] = [kind |-> kind, pc |-> "write", picked |-> picked, mode |-> mode]
      BY <1>3 DEF TypeInv, TypeOK
    <2>3. StillSo(r)'
      BY <1>1, <1>3, <2>2 DEF StillSo, RetryMode, ItemsIn, Guarded
    <2> QED
      BY <2>1, <2>3
  <1>6. StatusesFit' /\ BacklogAgrees'
    BY <1>3 DEF ControlInv, StatusesFit, Fits, BacklogAgrees
  <1> QED
    BY <1>4, <1>5, <1>6, QuietThreadNext DEF ControlInv

LEMMA ReplyStill ==
    ASSUME Sequential, TypeInv, NEW r \in Reqs, Reply(r)
    PROVE  (\A q \in Reqs : StillSo(q))' /\ NoneInHand'
  BY DEF Sequential, TypeInv, TypeOK, Reply, StillSo, IdleReq, NoneInHand

LEMMA EnqueueStill ==
    ASSUME Sequential, TypeInv, NEW r \in Reqs, ThenEnqueue(r),
           op'.status = "RUNNING", reqs[r].mode = RetryMode'
    PROVE  (\A q \in Reqs : StillSo(q))'
  <1>1. reqs'[r].pc = "enqueue" /\ reqs'[r].mode = reqs[r].mode
    BY DEF TypeInv, TypeOK, Request, ThenEnqueue
  <1> QED
    BY <1>1 DEF Sequential, StillSo

LEMMA WritesFit ==
    ASSUME TypeInv, NEW S \in SUBSET Items, NEW status \in OpStatuses,
           items' = SetStatus(S, status)
    PROVE  \A i \in Items : /\ items'[i].status = IF i \in S THEN status ELSE items[i].status
                            /\ items'[i].before = items[i].before /\ items'[i].after = items[i].after
                            /\ items'[i].task = items[i].task
  BY DEF TypeInv, TypeOK, Item, SetStatus

LEMMA ContinuesControl ==
    ASSUME Sequential, TypeInv, ControlInv, NEW r \in Reqs, RequestContinues(r) \/ EnqueueFails(r)
    PROVE  ControlInv'
  <1> USE DEF Early, None
  <1>1. reqs[r].pc # "idle" /\ StillSo(r)
    BY DEF RequestContinues, EnqueueFails, DryRunWrite, ConfirmWrite, StartWrite, FinishWrite,
           RollbackWrite, RetryWrite, Enqueue, QueueFailureRead, MarkQueueFailure, InWrite,
           ControlInv, OneThread
  <1>2. Quiet
    BY <1>1, WhoseTurn DEF ControlInv
  <1>3. UNCHANGED <<jobs, runs>> => Quiet'
    BY <1>2 DEF Quiet, Resting, Working
  <1>4. /\ op \in [status : OpStatuses, confirmedAt : BOOLEAN, rollbackLogged : BOOLEAN, manual : BOOLEAN]
        /\ items \in [Items -> Item] /\ reqs \in [Reqs -> Request]
        /\ \A i \in Items : Fits(i)
        /\ StatusesFit /\ BacklogAgrees
    BY DEF TypeInv, TypeOK, ControlInv, StatusesFit
  <1>5. ASSUME UNCHANGED <<jobs, runs>>, (\A q \in Reqs : StillSo(q))', StatusesFit', BacklogAgrees'
        PROVE  ControlInv'
    BY <1>3, <1>5, QuietThreadNext DEF ControlInv
  <1>s. {"PREVIEWED", "DRY_RUN_PASSED", "CONFIRMED", "RUNNING", "COMPLETED", "FAILED"} \subseteq OpStatuses
        /\ OpItems \in SUBSET Items /\ \A st : ItemsIn(st) \in SUBSET Items
    BY DEF OpStatuses, OpItems, ItemsIn
  <1>6. CASE DryRunWrite(r)
    <2>1. op.status = "PREVIEWED" /\ op'.status = "DRY_RUN_PASSED" /\ UNCHANGED <<op.rollbackLogged, op.manual, site>>
      BY <1>1, <1>4, <1>6 DEF DryRunWrite, InWrite, StillSo
    <2>2. \A i \in Items : items'[i].status = IF i \in OpItems THEN "DRY_RUN_PASSED" ELSE items[i].status
      BY <1>s, <1>6, WritesFit DEF DryRunWrite
    <2>3. StatusesFit' /\ BacklogAgrees'
      BY <1>4, <2>1, <2>2 DEF StatusesFit, Fits, BacklogAgrees, OpItems
    <2> QED
      BY <1>5, <1>6, <2>3, ReplyStill DEF DryRunWrite
  <1>7. CASE ConfirmWrite(r)
    <2>1. op.status = "DRY_RUN_PASSED" /\ op'.status = "CONFIRMED" /\ UNCHANGED <<op.rollbackLogged, op.manual, site>>
      BY <1>1, <1>4, <1>7 DEF ConfirmWrite, InWrite, StillSo
    <2>2. \A i \in Items : items'[i].status = IF i \in OpItems THEN "CONFIRMED" ELSE items[i].status
      BY <1>s, <1>7, WritesFit DEF ConfirmWrite
    <2>3. StatusesFit' /\ BacklogAgrees'
      BY <1>4, <2>1, <2>2 DEF StatusesFit, Fits, BacklogAgrees, OpItems
    <2> QED
      BY <1>5, <1>7, <2>3, ReplyStill DEF ConfirmWrite
  <1>8. CASE StartWrite(r)
    <2>1. op.status = "CONFIRMED" /\ op'.status = "RUNNING" /\ UNCHANGED <<op.rollbackLogged, op.manual, site>>
          /\ reqs[r].mode = "execute" /\ ~op.rollbackLogged
      BY <1>1, <1>4, <1>8 DEF StartWrite, InWrite, StillSo, StatusesFit
    <2>2. \A i \in Items : items'[i].status = IF i \in OpItems THEN "RUNNING" ELSE items[i].status
      BY <1>s, <1>8, WritesFit DEF StartWrite
    <2>3. StatusesFit' /\ BacklogAgrees'
      BY <1>4, <2>1, <2>2 DEF StatusesFit, Fits, BacklogAgrees, OpItems
    <2> QED
      BY <1>5, <1>8, <2>1, <2>3, EnqueueStill DEF StartWrite, RetryMode
  <1>9. CASE FinishWrite(r)
    <2>1. op.status = "RUNNING" /\ ~site.queue /\ UNCHANGED site
      BY <1>1, <1>9 DEF FinishWrite, InWrite, StillSo
    <2>2. PICK failed \in SUBSET OpItems, status \in Results :
              /\ failed # {} => status = "FAILED"
              /\ items' = FinishItems(failed, OpItems \ failed)
              /\ op' = [op EXCEPT !.status = status, !.manual = TRUE]
      BY <1>9 DEF FinishWrite
    <2>3. \A i \in Items : items'[i].status = IF i \in failed THEN "FAILED"
                                              ELSE IF i \in OpItems THEN "COMPLETED" ELSE None
      BY <1>4, <2>2 DEF FinishItems, OpItems, Item
    <2>4. op'.status = status /\ op'.manual /\ op'.rollbackLogged = op.rollbackLogged
      BY <1>4, <2>2
    <2>5. StatusesFit' /\ BacklogAgrees'
      BY <2>1, <2>2, <2>3, <2>4 DEF StatusesFit, Fits, BacklogAgrees, Results
    <2> QED
      BY <1>5, <1>9, <2>5, ReplyStill DEF FinishWrite
  <1>10. CASE RollbackWrite(r)
    <2>1. /\ op.status \in {"COMPLETED", "FAILED"} /\ op'.status = "RUNNING" /\ op'.rollbackLogged
          /\ UNCHANGED <<op.manual, site>> /\ reqs[r].mode = "rollback"
          /\ reqs[r].picked = ItemsIn("COMPLETED")
      BY <1>1, <1>4, <1>10 DEF RollbackWrite, InWrite, StillSo
    <2>2. \A i \in Items : items'[i].status = IF i \in ItemsIn("COMPLETED") THEN "RUNNING" ELSE items[i].status
      BY <1>s, <1>10, <2>1, WritesFit DEF RollbackWrite
    <2>3. StatusesFit' /\ BacklogAgrees'
      <3>1. \A i \in Items : items'[i].status = "ROLLED_BACK" => items[i].status = "ROLLED_BACK" /\ items'[i].task = items[i].task
        BY <1>s, <1>10, <2>1, <2>2, WritesFit DEF RollbackWrite
      <3> QED
        BY <1>4, <2>1, <2>2, <3>1 DEF StatusesFit, Fits, BacklogAgrees, ItemsIn
    <2> QED
      BY <1>5, <1>10, <2>1, <2>3, EnqueueStill DEF RollbackWrite, RetryMode
  <1>11. CASE RetryWrite(r)
    <2>1. /\ op.status = "FAILED" /\ op'.status = "RUNNING" /\ UNCHANGED <<op.rollbackLogged, op.manual, site>>
          /\ reqs[r].mode = RetryMode
      BY <1>1, <1>4, <1>11 DEF RetryWrite, InWrite, StillSo
    <2>2. \A i \in Items : items'[i].status = (IF i \in ItemsIn("FAILED") THEN "RUNNING" ELSE items[i].status)
                           /\ items'[i].task = items[i].task
      BY <1>s, <1>11, WritesFit DEF RetryWrite
    <2>3. StatusesFit' /\ BacklogAgrees'
      BY <1>4, <2>1, <2>2 DEF StatusesFit, Fits, BacklogAgrees, ItemsIn
    <2> QED
      BY <1>5, <1>11, <2>1, <2>3, EnqueueStill DEF RetryWrite, RetryMode
  <1>12. CASE MarkQueueFailure(r)
    <2>1. /\ op.status = "RUNNING" /\ op'.status = "FAILED" /\ UNCHANGED <<op.rollbackLogged, op.manual, site>>
      BY <1>1, <1>4, <1>12 DEF MarkQueueFailure, StillSo
    <2>2. \A i \in Items : items'[i].status = (IF i \in ItemsIn("RUNNING") THEN "FAILED" ELSE items[i].status)
                           /\ items'[i].task = items[i].task
      BY <1>s, <1>12, WritesFit DEF MarkQueueFailure
    <2>3. StatusesFit' /\ BacklogAgrees'
      BY <1>4, <2>1, <2>2 DEF StatusesFit, Fits, BacklogAgrees, ItemsIn
    <2> QED
      BY <1>5, <1>12, <2>3, ReplyStill DEF MarkQueueFailure
  <1>13. UNCHANGED <<op, items, site>> => StatusesFit' /\ BacklogAgrees'
    BY <1>4 DEF StatusesFit, Fits, BacklogAgrees
  <1>14. CASE Enqueue(r)
    <2>1. op.status = "RUNNING" /\ reqs[r].mode = RetryMode /\ reqs[r].mode \in Modes
      BY <1>1, <1>4, <1>14 DEF Enqueue, StillSo, Request
    <2>2. \A m \in Modes : jobs'[m].state = "waiting" => m = RetryMode /\ site.queue
      BY <1>2, <1>14, <2>1 DEF Enqueue, Quiet, TypeInv, TypeOK
    <2>3. NoneInHand' /\ (\A q \in Reqs : StillSo(q))'
      BY <1>14, ReplyStill DEF Enqueue
    <2>4. UNCHANGED <<op, items, site, runs, calls>>
      BY <1>14 DEF Enqueue
    <2>5. Resting' /\ Resting
      BY <1>2, <2>4 DEF Resting, Working, Quiet
    <2>6. OneThread' /\ \A w \in Workers : Covers(w)'
      BY <2>1, <2>2, <2>3, <2>4, <2>5 DEF OneThread, Resting, RetryMode, Covers, Working
    <2> QED
      BY <1>13, <2>4, <2>6 DEF ControlInv
  <1>15. CASE QueueFailureRead(r)
    <2>1. (\A q \in Reqs : StillSo(q))'
      <3>1. op.status = "RUNNING" /\ reqs[r].mode = RetryMode /\ site.queue
        BY <1>1, <1>15 DEF QueueFailureRead, StillSo
      <3>2. reqs'[r].pc = "markFailed" /\ reqs'[r].mode = reqs[r].mode
        BY <1>4, <1>15, <3>1 DEF QueueFailureRead, Request
      <3> QED
        BY <1>15, <3>1, <3>2 DEF Sequential, StillSo, QueueFailureRead, RetryMode
    <2> QED
      BY <1>5, <1>13, <1>15, <2>1 DEF QueueFailureRead
  <1>16. CASE EnqueueFails(r)
    <2>1. (\A q \in Reqs : StillSo(q))' /\ UNCHANGED jobs
      <3>1. op.status = "RUNNING" /\ reqs[r].mode = RetryMode /\ site.queue
        BY <1>1, <1>16 DEF EnqueueFails, StillSo
      <3>2. reqs'[r].pc = "queueFailed" /\ reqs'[r].mode = reqs[r].mode
        BY <1>4, <1>16, <3>1 DEF EnqueueFails, Request
      <3> QED
        BY <1>16, <3>1, <3>2 DEF Sequential, StillSo, EnqueueFails, RetryMode
    <2> QED
      BY <1>5, <1>13, <1>16, <2>1 DEF EnqueueFails
  <1> QED
    BY <1>6, <1>7, <1>8, <1>9, <1>10, <1>11, <1>12, <1>14, <1>15, <1>16 DEF RequestContinues

LEMMA PreviewControl ==
    ASSUME Sequential, TypeInv, ControlInv, CreatePreview
    PROVE  ControlInv'
  <1>1. op.status = "NONE" /\ op'.status = "PREVIEWED" /\ UNCHANGED <<op.rollbackLogged, op.manual, site>>
    BY DEF CreatePreview, TypeInv, TypeOK
  <1>2. \A i \in Items : items[i].status = None /\ items'[i].status \in {None, "PREVIEWED"}
    BY <1>1 DEF CreatePreview, ControlInv, StatusesFit, Fits, Early, None
  <1>3. StatusesFit' /\ BacklogAgrees'
    BY <1>1, <1>2 DEF ControlInv, StatusesFit, Fits, Early, None, BacklogAgrees
  <1>4. Quiet /\ Quiet'
    <2>1. Quiet
      BY <1>1, WhoseTurn DEF ControlInv
    <2> QED
      BY <2>1 DEF CreatePreview, Quiet, Resting, Working
  <1>5. (\A r \in Reqs : StillSo(r))'
    BY <1>1 DEF ControlInv, OneThread, StillSo, CreatePreview
  <1> QED
    BY <1>3, <1>4, <1>5, QuietThreadNext DEF ControlInv

\* While a slot is at work nothing else of the operation moves.
AtWork(w) ==
    /\ op.status = "RUNNING" /\ site.queue /\ runs[w].job = RetryMode /\ NoneInHand
    /\ \A v \in Workers : Working(v) => v = w
    /\ \A m \in Modes : jobs[m].state # "waiting"

LEMMA WorkingAlone ==
    ASSUME OneThread, NEW w \in Workers, Working(w)
    PROVE  AtWork(w)
  BY DEF OneThread, AtWork, Resting

LEMMA StaysAtWork ==
    ASSUME TypeInv, ControlInv, NEW w \in Workers, AtWork(w), Working(w),
           UNCHANGED <<op, items, reqs, jobs, site>>,
           \A v \in Workers : v # w => runs'[v] = runs[v] /\ calls'[v] = calls[v],
           runs'[w].job = runs[w].job, Covers(w)'
    PROVE  ControlInv'
  <1>1. \A v \in Workers : Working(v)' => v = w
    BY DEF AtWork, Working
  <1>2. OneThread'
    BY <1>1 DEF AtWork, OneThread, StillSo, NoneInHand, RetryMode, ItemsIn
  <1>3. \A v \in Workers : Covers(v)'
    BY DEF ControlInv, Covers
  <1> QED
    BY <1>2, <1>3 DEF ControlInv, StatusesFit, Fits, BacklogAgrees

LEMMA WorkerControl ==
    ASSUME Sequential, ConfirmedInv, ControlInv, NEW w \in Workers, WorkerStep(w) \/ CallLost(w)
    PROVE  ControlInv'
  <1>0. /\ runs \in [Workers -> Run] /\ calls \in [Workers -> Call] /\ jobs \in [Modes -> Job]
        /\ op \in [status : OpStatuses, confirmedAt : BOOLEAN, rollbackLogged : BOOLEAN, manual : BOOLEAN]
        /\ items \in [Items -> Item] /\ reqs \in [Reqs -> Request] /\ TypeInv
    BY DEF ConfirmedInv, TypeInv, TypeOK
  <1>a. \A v \in Workers : calls[v].todo \subseteq calls[v].asked
    BY DEF ConfirmedInv
  <1>f. UNCHANGED <<op, items, site>> => StatusesFit' /\ BacklogAgrees'
    BY DEF ControlInv, StatusesFit, Fits, BacklogAgrees
  <1>1. ASSUME NEW m \in Modes, RejectJob(w, m)
        PROVE  ControlInv'
    <2>1. \A n \in Modes : jobs'[n].state = "waiting" => jobs[n].state = "waiting"
      BY <1>0, <1>1 DEF RejectJob
    <2>2. UNCHANGED <<op, items, reqs, runs, calls, site>>
      BY <1>1 DEF RejectJob
    <2>3. OneThread' /\ (\A v \in Workers : Covers(v))'
      BY <2>1, <2>2 DEF ControlInv, OneThread, StillSo, NoneInHand, Resting, Working, RetryMode, ItemsIn, Covers
    <2> QED
      BY <1>f, <2>2, <2>3 DEF ControlInv
  <1>2. ASSUME NEW m \in Modes, LoadJob(w, m)
        PROVE  ControlInv'
    <2>1. op.status = "RUNNING" /\ site.queue /\ m = RetryMode /\ NoneInHand /\ Resting
      BY <1>2 DEF LoadJob, ControlInv, OneThread
    <2> DEFINE loaded == ItemsIn("RUNNING")
               asked  == IF site.connected THEN {i \in loaded : Executable(Payload(m, i))} ELSE {}
               local  == [i \in Items |-> IF i \in loaded \ asked
                                          THEN [status |-> "FAILED", before |-> items[i].before,
                                                after |-> items[i].after]
                                          ELSE NoResult]
    <2>2. /\ runs' = [runs EXCEPT ![w] = [pc |-> IF asked = {} THEN "record" ELSE "call",
                                          job |-> m, holds |-> TRUE, results |-> local]]
          /\ asked # {} => calls'[w].asked = asked /\ calls'[w].todo = asked
          /\ UNCHANGED <<op, items, reqs, site>>
          /\ \A v \in Workers : v # w => calls'[v] = calls[v]
      BY <1>0, <1>2 DEF LoadJob
    <2>3. \A i \in Items : items[i].status = "RUNNING" <=> i \in asked \/ local[i].status # None
      BY DEF ItemsIn, NoResult, None
    <2>4. asked \subseteq loaded
      OBVIOUS
    <2> HIDE DEF asked, local
    <2>5. /\ runs'[w].pc = IF asked = {} THEN "record" ELSE "call"
          /\ runs'[w].job = m /\ runs'[w].results = local
          /\ \A v \in Workers : v # w => runs'[v] = runs[v]
      BY <1>0, <2>2
    <2>6. Covers(w)'
      BY <2>2, <2>3, <2>5 DEF Covers
    <2>7. \A v \in Workers : Working(v)' => v = w
      BY <2>1, <2>5 DEF Resting, Working
    <2>8. \A n \in Modes : jobs'[n].state # "waiting"
      <3>1. jobs' = [jobs EXCEPT ![m] = Take(@)]
        BY <1>2 DEF LoadJob
      <3>2. Take(jobs[m]).state # "waiting"
        BY <1>0 DEF Take, Job
      <3> QED
        BY <1>0, <2>1, <3>1, <3>2 DEF ControlInv, OneThread
    <2>9. OneThread'
      BY <2>1, <2>2, <2>5, <2>7, <2>8 DEF ControlInv, OneThread, StillSo, NoneInHand, RetryMode, ItemsIn
    <2>10. (\A v \in Workers : Covers(v))'
      BY <2>2, <2>5, <2>6 DEF ControlInv, Covers
    <2> QED
      BY <1>f, <2>2, <2>9, <2>10 DEF ControlInv
  <1>3. Working(w) => AtWork(w) /\ Covers(w)
    BY WorkingAlone DEF ControlInv
  <1>4. CASE Respond(w)
    <2>1. Working(w) /\ AtWork(w) /\ Covers(w)
      BY <1>3, <1>4 DEF Respond, Working
    <2>2. /\ runs'[w].pc = "record" /\ runs'[w].job = runs[w].job
          /\ \A i \in Items : runs'[w].results[i] = IF i \in calls[w].asked THEN calls[w].reply[i]
                                                    ELSE runs[w].results[i]
          /\ \A v \in Workers : v # w => runs'[v] = runs[v] /\ calls'[v] = calls[v]
          /\ UNCHANGED <<op, items, reqs, jobs, site>>
      BY <1>0, <1>4 DEF Respond, Run
    <2>3. Covers(w)'
      <3>1. runs[w].pc = "call" /\ calls[w].todo = {}
        BY <1>4 DEF Respond
      <3>2. \A i \in Items : items[i].status = "RUNNING" <=> runs'[w].results[i].status # None
        BY <2>1, <2>2, <3>1 DEF Covers
      <3> QED
        BY <2>2, <3>2 DEF Covers
    <2> QED
      BY <1>0, <2>1, <2>2, <2>3, StaysAtWork
  <1>5. CASE CallLost(w)
    <2>1. Working(w) /\ AtWork(w) /\ Covers(w)
      BY <1>3, <1>5 DEF CallLost, Working
    <2>2. /\ runs'[w].pc = "record" /\ runs'[w].job = runs[w].job
          /\ \A i \in Items : runs'[w].results[i] = IF i \in calls[w].asked THEN Lost
                                                    ELSE runs[w].results[i]
          /\ \A v \in Workers : v # w => runs'[v] = runs[v] /\ calls'[v] = calls[v]
          /\ UNCHANGED <<op, items, reqs, jobs, site>>
      BY <1>0, <1>5 DEF CallLost, Run
    <2>3. Covers(w)'
      <3>1. runs[w].pc = "call" /\ Lost.status # None
        BY <1>5 DEF CallLost, Lost, None
      <3>2. \A i \in Items : items[i].status = "RUNNING" <=> runs'[w].results[i].status # None
        BY <2>1, <2>2, <3>1 DEF Covers
      <3> QED
        BY <2>2, <3>2 DEF Covers
    <2> QED
      BY <1>0, <2>1, <2>2, <2>3, StaysAtWork
  <1>6. CASE RecordRead(w)
    <2>1. Working(w) /\ AtWork(w) /\ Covers(w)
      BY <1>3, <1>6 DEF RecordRead, Working
    <2>2. /\ runs'[w].pc = "commit" /\ runs'[w].job = runs[w].job /\ runs'[w].results = runs[w].results
          /\ \A v \in Workers : v # w => runs'[v] = runs[v] /\ calls'[v] = calls[v]
          /\ UNCHANGED <<op, items, reqs, jobs, site>>
      BY <1>0, <1>6 DEF RecordRead, Run
    <2>3. Covers(w)'
      BY <1>6, <2>1, <2>2 DEF Covers, RecordRead
    <2> QED
      BY <1>0, <2>1, <2>2, <2>3, StaysAtWork
  <1>7. ~RecordRefused(w)
    BY <1>3 DEF RecordRefused, Working, AtWork
  <1>8. CASE RecordResult(w)
    <2>1. Working(w) /\ AtWork(w) /\ Covers(w)
      BY <1>3, <1>8 DEF RecordResult, Working
    <2>2. /\ runs'[w].pc = "ack"
          /\ \A v \in Workers : v # w => runs'[v] = runs[v]
          /\ UNCHANGED <<reqs, jobs, site, calls, op.rollbackLogged, op.manual>>
          /\ op'.status = FinalStatus(w)
      BY <1>0, <1>8 DEF RecordResult, Run
    <2>3. Quiet'
      BY <2>1, <2>2 DEF Quiet, Resting, Working, AtWork
    <2>4. (\A r \in Reqs : StillSo(r))'
      BY <2>1, <2>2 DEF AtWork, NoneInHand, StillSo
    <2>5. \A i \in Items :
              LET result == runs[w].results[i]
              IN  IF items[i].status = "RUNNING"
                  THEN /\ result.status \in Results
                       /\ items'[i].status = IF result.status = "COMPLETED"
                                             THEN IF runs[w].job = "execute" THEN "COMPLETED" ELSE "ROLLED_BACK"
                                             ELSE "FAILED"
                       /\ items'[i].status = "COMPLETED" => items'[i].task = "DONE"
                       /\ items'[i].status = "ROLLED_BACK" => items'[i].task = "IN_REVIEW"
                  ELSE result.status = None /\ items'[i] = items[i]
      <3> SUFFICES ASSUME NEW i \in Items
                   PROVE  LET result == runs[w].results[i]
                          IN  IF items[i].status = "RUNNING"
                              THEN /\ result.status \in Results
                                   /\ items'[i].status = IF result.status = "COMPLETED"
                                             THEN IF runs[w].job = "execute" THEN "COMPLETED" ELSE "ROLLED_BACK"
                                             ELSE "FAILED"
                                   /\ items'[i].status = "COMPLETED" => items'[i].task = "DONE"
                                   /\ items'[i].status = "ROLLED_BACK" => items'[i].task = "IN_REVIEW"
                              ELSE result.status = None /\ items'[i] = items[i]
        OBVIOUS
      <3>1. items[i].status = "RUNNING" <=> runs[w].results[i].status # None
        BY <1>8, <2>1 DEF Covers, RecordResult
      <3>2. runs[w].results[i] \in Result
        BY <1>0 DEF Run
      <3>3. items'[i] = IF i \in Reported(w) THEN Recorded(w, i) ELSE items[i]
        BY <1>8 DEF RecordResult
      <3>4. i \in Reported(w) <=> items[i].status = "RUNNING"
        BY <3>1 DEF Reported
      <3>5. CASE items[i].status = "RUNNING"
        <4>1. items'[i] = Recorded(w, i) /\ runs[w].results[i].status \in Results /\ items[i] \in Item
          BY <1>0, <3>1, <3>2, <3>3, <3>4, <3>5 DEF Result
        <4> QED
          BY <3>5, <4>1 DEF Recorded, Row, Results, Item
      <3>6. CASE items[i].status # "RUNNING"
        BY <3>1, <3>3, <3>4, <3>6
      <3> QED
        BY <3>5, <3>6
    <2>6. runs[w].job = IF op.rollbackLogged THEN "rollback" ELSE "execute"
      BY <2>1 DEF AtWork, RetryMode
    <2>7. op'.status = IF \E i \in Items : items[i].status = "RUNNING" /\ items'[i].status = "FAILED" THEN "FAILED"
                       ELSE IF op.rollbackLogged THEN "ROLLED_BACK" ELSE "COMPLETED"
      <3>1. (\E i \in Items : runs[w].results[i].status = "FAILED")
            <=> (\E i \in Items : items[i].status = "RUNNING" /\ items'[i].status = "FAILED")
        BY <2>5 DEF Results, None
      <3> QED
        BY <2>2, <2>6, <3>1 DEF FinalStatus
    <2>8. StatusesFit'
      <3>1. \A i \in Items : Fits(i) /\ (items[i].status # "RUNNING" => items'[i].status = items[i].status)
        BY <2>5 DEF ControlInv, StatusesFit
      <3>2. \A i \in Items : items[i].status = "RUNNING" =>
                items'[i].status \in {IF op.rollbackLogged THEN "ROLLED_BACK" ELSE "COMPLETED", "FAILED"}
        BY <2>5, <2>6
      <3>3. op.status = "RUNNING" /\ site.queue /\ UNCHANGED <<site, op.rollbackLogged, op.manual>> /\ StatusesFit
        BY <2>1, <2>2 DEF AtWork, ControlInv
      <3> QED
        BY <2>7, <3>1, <3>2, <3>3 DEF StatusesFit, Fits, Early, None
    <2>9. BacklogAgrees'
      BY <2>2, <2>5 DEF ControlInv, BacklogAgrees
    <2> QED
      BY <2>3, <2>4, <2>8, <2>9, QuietThreadNext DEF ControlInv
  <1>9. CASE CompleteJob(w)
    <2>1. /\ UNCHANGED <<op, items, reqs, calls, site>>
          /\ runs' = [runs EXCEPT ![w] = IdleRun] /\ runs[w].pc = "ack"
          /\ \A n \in Modes : jobs'[n].state = "waiting" => jobs[n].state = "waiting"
      <3>1. Finish(jobs[runs[w].job]).state # "waiting"
        BY <1>0 DEF Finish, Job, Run
      <3> QED
        BY <1>0, <1>9, <3>1 DEF CompleteJob, Settle, Run
    <2>2. \A v \in Workers : /\ v # w => runs'[v] = runs[v]
                             /\ Working(v)' <=> Working(v)
      BY <1>0, <2>1 DEF Working, IdleRun
    <2>3. OneThread'
      <3>1. ~Working(w)
        BY <2>1 DEF Working
      <3>2. \A v \in Workers : Working(v) => runs'[v] = runs[v]
        BY <2>2, <3>1
      <3>3. Resting' <=> Resting
        BY <2>2 DEF Resting
      <3>4. NoneInHand' <=> NoneInHand
        BY <2>1 DEF NoneInHand
      <3> QED
        BY <2>1, <2>2, <3>2, <3>3, <3>4 DEF ControlInv, OneThread, StillSo, RetryMode, ItemsIn
    <2>4. (\A v \in Workers : Covers(v))'
      BY <1>0, <2>1, <2>2 DEF ControlInv, Covers, IdleRun
    <2> QED
      BY <1>f, <2>1, <2>3, <2>4 DEF ControlInv
  <1> QED
    BY <1>1, <1>2, <1>4, <1>5, <1>6, <1>7, <1>8, <1>9 DEF WorkerStep

\* The reply of the plugin to a call, as far as the item that was handled.
LEMMA Answers ==
    ASSUME TypeInv, NEW w \in Workers, NEW i \in calls[w].todo, NEW result \in Result, Answer(w, i, result)
    PROVE  /\ \A v \in Workers : v # w => calls'[v] = calls[v]
           /\ \/ calls'[w] = NoCall /\ runs[w].pc # "call"
              \/ /\ calls'[w].asked = calls[w].asked /\ calls'[w].payload = calls[w].payload
                 /\ calls'[w].todo = calls[w].todo \ {i}
                 /\ calls'[w].reply[i] = result
                 /\ \A k \in Items : k # i => calls'[w].reply[k] = calls[w].reply[k]
  BY DEF TypeInv, TypeOK, Call, Answer

LEMMA PluginControl ==
    ASSUME ConfirmedInv, ControlInv, NEW w \in Workers, PluginStep(w)
    PROVE  ControlInv'
  <1>0. TypeInv /\ calls[w].todo \subseteq Items
    BY DEF ConfirmedInv, TypeInv, TypeOK, Call
  <1>1. PICK i \in calls[w].todo, result \in Result : Answer(w, i, result) /\ result.status # None
    <2>1. PICK i \in Items : ApplyItem(w, i) \/ RefuseItem(w, i)
      BY DEF PluginStep
    <2>2. [status |-> "FAILED", before |-> Null, after |-> Null] \in Result
      BY DEF Result, Results, Stored
    <2>3. i \in calls[w].todo => [status |-> "COMPLETED", before |-> SeoValues(page[i]),
                   after |-> SeoValues(Overwritten(page[i], calls[w].payload[i]))] \in Result
      BY <1>0, Conversion DEF Result, Results, Stored, TypeInv, TypeOK, PayloadOK
    <2> QED
      BY <2>1, <2>2, <2>3 DEF ApplyItem, RefuseItem, None
  <1>2. UNCHANGED <<op, items, reqs, jobs, runs, site>>
    BY DEF PluginStep, ApplyItem, RefuseItem
  <1>3. OneThread' /\ StatusesFit' /\ BacklogAgrees'
    BY <1>2 DEF ControlInv, OneThread, StillSo, NoneInHand, Resting, Working, RetryMode, ItemsIn,
                StatusesFit, Fits, BacklogAgrees
  <1>4. (\A v \in Workers : Covers(v))'
    <2>1. \A v \in Workers : Covers(v) /\ runs'[v] = runs[v]
      BY <1>2 DEF ControlInv
    <2>2. \A v \in Workers : v # w => Covers(v)'
      BY <1>0, <1>1, <1>2, <2>1, Answers DEF Covers
    <2>3. Covers(w)'
      <3>1. CASE runs[w].pc = "call"
        <4>1. /\ calls'[w].asked = calls[w].asked /\ calls'[w].todo = calls[w].todo \ {i}
              /\ calls'[w].reply[i] = result
              /\ \A k \in Items : k # i => calls'[w].reply[k] = calls[w].reply[k]
          BY <1>0, <1>1, <3>1, Answers
        <4>2. calls[w].asked \subseteq Items
          BY <1>0 DEF TypeInv, TypeOK, Call
        <4>3. \A k \in calls'[w].asked \ calls'[w].todo : calls'[w].reply[k].status # None
          BY <1>1, <2>1, <3>1, <4>1, <4>2 DEF Covers
        <4> QED
          BY <1>2, <2>1, <3>1, <4>1, <4>3 DEF Covers
      <3>2. CASE runs[w].pc # "call"
        BY <1>2, <2>1, <3>2 DEF Covers
      <3> QED
        BY <3>1, <3>2
    <2> QED
      BY <2>2, <2>3
  <1> QED
    BY <1>3, <1>4 DEF ControlInv

\* The faults left are those of the network, of retention and of the site.
LEMMA FaultsLeft ==
    ASSUME Sequential, TypeInv, Fault
    PROVE  \/ \E r \in Reqs : EnqueueFails(r)
           \/ \E w \in Workers : CallLost(w)
           \/ /\ \A m \in Modes : jobs'[m].state = "waiting" => jobs[m].state = "waiting"
              /\ UNCHANGED <<op, items, reqs, runs, calls, page, origin, site.queue>>
  <1>1. ~(\E r \in Reqs : AbandonRequest(r))
        /\ ~(\E w \in Workers : RecordFails(w) \/ WorkerCrash(w) \/ LoseLock(w))
        /\ ~(\E i \in Items : EditPage(i))
    BY DEF Sequential, AbandonRequest, RecordFails, WorkerCrash, LoseLock, EditPage
  <1>2. ASSUME NEW m \in Modes, EvictJob(m)
        PROVE  /\ \A n \in Modes : jobs'[n].state = "waiting" => jobs[n].state = "waiting"
               /\ UNCHANGED <<op, items, reqs, runs, calls, page, origin, site>>
    BY <1>2 DEF EvictJob, NoJob, TypeInv, TypeOK
  <1>3. CASE ChangeSite
    <2>1. UNCHANGED <<op, items, reqs, jobs, runs, calls, page, origin>>
      BY <1>3 DEF ChangeSite
    <2>2. site'.queue = site.queue
      BY <1>3 DEF ChangeSite, TypeInv, TypeOK
    <2> QED
      BY <2>1, <2>2
  <1> QED
    BY <1>1, <1>2, <1>3 DEF Fault

LEMMA ControlNext ==
    Sequential => (ConfirmedInv /\ ControlInv /\ [Next]_vars => ControlInv')
  <1> SUFFICES ASSUME Sequential, ConfirmedInv, ControlInv, [Next]_vars
               PROVE  ControlInv'
    OBVIOUS
  <1>0. TypeInv
    BY DEF ConfirmedInv
  <1>1. ASSUME \A m \in Modes : jobs'[m].state = "waiting" => jobs[m].state = "waiting",
               UNCHANGED <<op, items, reqs, runs, calls, site.queue>>
        PROVE  ControlInv'
    BY <1>1 DEF ControlInv, OneThread, StillSo, NoneInHand, Resting, Working, RetryMode, ItemsIn,
                StatusesFit, Fits, BacklogAgrees, Covers
  <1>2. CASE Fault
    BY <1>0, <1>1, <1>2, FaultsLeft, ContinuesControl, WorkerControl
  <1>3. CASE UNCHANGED vars
    BY <1>1, <1>3 DEF vars
  <1> QED
    BY <1>0, <1>2, <1>3, PreviewControl, BeginsControl, ContinuesControl, WorkerControl, PluginControl DEF Next

\* Whatever slots do, operation, items and backlog agree while requests do not
\* meet and no job runs twice.
THEOREM StatusesAgreeAlone == Sequential => (Spec => []StatusesAgree)
  <1> SUFFICES ASSUME Sequential
               PROVE  Spec => []StatusesAgree
    OBVIOUS
  <1>1. ControlInv => StatusesAgree
    <2> SUFFICES ASSUME ControlInv
                 PROVE  StatusesAgree
      OBVIOUS
    <2>1. \A i \in Items : Fits(i)
      BY DEF ControlInv, StatusesFit
    <2>2. NoStrandedItem
      BY <2>1 DEF Fits, NoStrandedItem, ItemsIn
    <2>3. CompletedMeansAll
      BY <2>1 DEF Fits, CompletedMeansAll, OpItems, ItemsIn, None
    <2>4. RolledBackMeansNoneApplied
      BY <2>1 DEF ControlInv, StatusesFit, Fits, RolledBackMeansNoneApplied, ItemsIn
    <2> QED
      BY <2>2, <2>3, <2>4 DEF ControlInv, StatusesAgree
  <1> QED
    BY <1>1, ConfirmedInit, ConfirmedNext, ControlInit, ControlNext, PTL DEF Spec
-----------------------------------------------------------------------------
LEMMA DataInit == Init => DataInv
  BY DEF Init, DataInv, RestorePoint, Restored, Captured, PutBack, Sound, SoundAt, IdleRun, NoCall, None

\* While nobody is at work, the data is what the items and the pages say.
QuietData ==
    /\ \A i \in Items : items[i].before \in Seo /\ items[i].status # "ROLLED_BACK" => items[i].before = Captured(i)
    /\ RestorePoint /\ Restored
    /\ \A i \in Items : ~site.queue \/ items[i].status = None => origin[i] = Null
    /\ ~op.rollbackLogged =>
           \A i \in Items : items[i].status \notin {None, "COMPLETED"} /\ items[i].after \in Seo => origin[i] = Null
    /\ \A w \in Workers : calls[w].todo # {} => site.queue
    /\ \A w \in Workers : \A i \in calls[w].todo : calls[w].payload[i] = Captured(i) \/ Spoiled(i)

LEMMA RestingData ==
    Resting => (DataInv <=> QuietData)
  <1> SUFFICES ASSUME Resting
               PROVE  DataInv <=> QuietData
    OBVIOUS
  <1>1. \A w \in Workers : Sound(w)
    BY DEF Resting, Working, Sound, SoundAt
  <1>2. \A w \in Workers : \A i : Todo(w, i) <=> calls[w].payload[i] = Captured(i) \/ Spoiled(i)
    BY DEF Resting, Working, Todo
  <1> QED
    BY <1>1, <1>2 DEF DataInv, QuietData

LEMMA RestingDataNext == Resting' => (DataInv' <=> QuietData')
  BY RestingData, PTL

\* A step of a request changes the statuses of items, not their values.
LEMMA RequestData ==
    ASSUME TypeInv, Resting, Resting', DataInv,
           UNCHANGED <<runs, calls, page, origin, site.queue>>,
           op.rollbackLogged => op'.rollbackLogged, op.manual => op'.manual,
           \A i \in Items :
               /\ items'[i].before = items[i].before /\ items'[i].after = items[i].after
               /\ items'[i].status = None <=> items[i].status = None
               /\ items'[i].status = "ROLLED_BACK" <=> items[i].status = "ROLLED_BACK"
               /\ items'[i].status = "COMPLETED" /\ ~op'.manual => items[i].status = "COMPLETED"
               /\ items[i].status = "COMPLETED" /\ items'[i].status # "COMPLETED" =>
                      op'.rollbackLogged \/ ~site.queue
               /\ items[i].status \in {"FAILED", "RUNNING"} =>
                      items'[i].status \in {"FAILED", "RUNNING"} \/ ~site.queue
    PROVE  DataInv'
  <1>1. QuietData
    BY RestingData
  <1>2. \A w \in Workers : calls[w].todo \subseteq Items
    BY DEF TypeInv, TypeOK, Call
  <1>3. QuietData'
    <2>1. \A i \in Items : items'[i].before \in Seo /\ items'[i].status # "ROLLED_BACK" => items'[i].before = Captured(i)'
      BY <1>1 DEF QuietData, Captured
    <2>2. RestorePoint' /\ Restored'
      BY <1>1 DEF QuietData, RestorePoint, Restored, Captured, PutBack
    <2>3. \A i \in Items : ~site'.queue \/ items'[i].status = None => origin'[i] = Null
      BY <1>1 DEF QuietData
    <2>4. ~op'.rollbackLogged =>
           \A i \in Items : items'[i].status \notin {None, "COMPLETED"} /\ items'[i].after \in Seo => origin'[i] = Null
      BY <1>1 DEF QuietData
    <2>5. \A w \in Workers : calls'[w].todo # {} => site'.queue
      BY <1>1 DEF QuietData
    <2>6. \A w \in Workers : \A i \in calls'[w].todo : calls'[w].payload[i] = Captured(i)' \/ Spoiled(i)'
      BY <1>1, <1>2 DEF QuietData, Captured, Spoiled
    <2> QED
      BY <2>1, <2>2, <2>3, <2>4, <2>5, <2>6 DEF QuietData
  <1> QED
    BY <1>3, RestingDataNext

LEMMA RequestsData ==
    ASSUME Sequential, TypeInv, ControlInv, DataInv, NEW r \in Reqs,
           RequestBegins(r) \/ RequestContinues(r) \/ EnqueueFails(r)
    PROVE  DataInv'
  <1> USE DEF None
  <1>0. /\ op \in [status : OpStatuses, confirmedAt : BOOLEAN, rollbackLogged : BOOLEAN, manual : BOOLEAN]
        /\ items \in [Items -> Item] /\ reqs \in [Reqs -> Request]
        /\ \A i \in Items : Fits(i)
        /\ StatusesFit
    BY DEF TypeInv, TypeOK, ControlInv, StatusesFit
  <1>1. Resting
    <2>1. CASE RequestBegins(r)
      <3>1. PICK kind, picked, mode : Guarded(kind, picked, mode)
        BY <2>1, BeginsGuarded
      <3> QED
        BY <3>1, WhoseTurn DEF ControlInv, Guarded, Quiet
    <2>2. CASE RequestContinues(r) \/ EnqueueFails(r)
      <3>1. reqs[r].pc # "idle"
        BY <2>2 DEF RequestContinues, EnqueueFails, DryRunWrite, ConfirmWrite, StartWrite, FinishWrite,
             RollbackWrite, RetryWrite, Enqueue, QueueFailureRead, MarkQueueFailure, InWrite
      <3> QED
        BY <3>1, WhoseTurn DEF ControlInv, Quiet
    <2> QED
      BY <2>1, <2>2
  <1>2. UNCHANGED <<runs, calls, page, origin, site>>
    BY DEF RequestBegins, RequestContinues, EnqueueFails, DryRunRead, ConfirmRead, StartRead, FinishRead,
           RollbackRead, RetryRead, Admit, DryRunWrite, ConfirmWrite, StartWrite, FinishWrite,
           RollbackWrite, RetryWrite, Enqueue, QueueFailureRead, MarkQueueFailure
  <1>3. Resting'
    BY <1>1, <1>2 DEF Resting, Working
  <1>s. {"PREVIEWED", "DRY_RUN_PASSED", "CONFIRMED", "RUNNING", "COMPLETED", "FAILED"} \subseteq OpStatuses
        /\ OpItems \in SUBSET Items /\ \A st : ItemsIn(st) \in SUBSET Items
    BY DEF OpStatuses, OpItems, ItemsIn
  <1>t. StillSo(r)
    BY DEF ControlInv, OneThread
  <1>4. CASE UNCHANGED <<op, items>>
    BY <1>1, <1>2, <1>3, <1>4, RequestData
  <1>5. ASSUME NEW status \in {"DRY_RUN_PASSED", "CONFIRMED", "RUNNING"}, op.status \in Early,
               items' = SetStatus(OpItems, status),
               op'.rollbackLogged = op.rollbackLogged, op'.manual = op.manual
        PROVE  DataInv'
    <2>1. \A i \in Items :
              /\ items'[i].before = items[i].before /\ items'[i].after = items[i].after
              /\ items'[i].status = IF items[i].status = None THEN None ELSE status
              /\ items[i].status \in Early
      <3>1. status \in OpStatuses /\ OpItems \in SUBSET Items
        BY <1>s
      <3>2. \A i \in Items :
                /\ items'[i].status = IF i \in OpItems THEN status ELSE items[i].status
                /\ items'[i].before = items[i].before /\ items'[i].after = items[i].after
        BY <1>5, <3>1, WritesFit
      <3>3. \A i \in Items : items[i].status \in Early
        BY <1>0, <1>5 DEF Fits, Early
      <3> QED
        BY <3>2, <3>3 DEF OpItems
    <2> QED
      BY <1>1, <1>2, <1>3, <1>5, <2>1, RequestData DEF Early
  <1>6. CASE DryRunWrite(r)
    <2>1. op.status \in Early /\ op'.rollbackLogged = op.rollbackLogged /\ op'.manual = op.manual
      BY <1>0, <1>6, <1>t DEF DryRunWrite, InWrite, StillSo, Early
    <2> QED
      BY <1>5, <1>6, <2>1 DEF DryRunWrite
  <1>7. CASE ConfirmWrite(r)
    <2>1. op.status \in Early /\ op'.rollbackLogged = op.rollbackLogged /\ op'.manual = op.manual
      BY <1>0, <1>7, <1>t DEF ConfirmWrite, InWrite, StillSo, Early
    <2> QED
      BY <1>5, <1>7, <2>1 DEF ConfirmWrite
  <1>8. CASE StartWrite(r)
    <2>1. op.status \in Early /\ op'.rollbackLogged = op.rollbackLogged /\ op'.manual = op.manual
      BY <1>0, <1>8, <1>t DEF StartWrite, InWrite, StillSo, Early
    <2> QED
      BY <1>5, <1>8, <2>1 DEF StartWrite
  <1>9. CASE FinishWrite(r)
    <2>1. ~site.queue /\ op'.manual /\ op'.rollbackLogged = op.rollbackLogged
      BY <1>0, <1>9, <1>t DEF FinishWrite, InWrite, StillSo
    <2>2. \A i \in Items :
              /\ items'[i].before = items[i].before /\ items'[i].after = items[i].after
              /\ items[i].status = None => items'[i].status = None
              /\ items[i].status # None => items'[i].status \in {"COMPLETED", "FAILED"}
      BY <1>0, <1>9 DEF FinishWrite, FinishItems, OpItems, Item
    <2>3. \A i \in Items : items[i].status # "ROLLED_BACK"
      BY <1>0, <2>1 DEF Fits
    <2> QED
      BY <1>1, <1>2, <1>3, <2>1, <2>2, <2>3, RequestData
  <1>10. CASE RollbackWrite(r)
    <2>1. op'.rollbackLogged /\ op'.manual = op.manual /\ items' = SetStatus(ItemsIn("COMPLETED"), "RUNNING")
      BY <1>0, <1>10, <1>t DEF RollbackWrite, InWrite, StillSo
    <2>2. \A i \in Items :
              /\ items'[i].before = items[i].before /\ items'[i].after = items[i].after
              /\ items'[i].status = IF items[i].status = "COMPLETED" THEN "RUNNING" ELSE items[i].status
      <3>1. \A i \in Items :
                /\ items'[i].before = items[i].before /\ items'[i].after = items[i].after
                /\ items'[i].status = IF i \in ItemsIn("COMPLETED") THEN "RUNNING" ELSE items[i].status
        BY <1>s, <2>1, WritesFit
      <3> QED
        BY <3>1 DEF ItemsIn
    <2> QED
      BY <1>1, <1>2, <1>3, <2>1, <2>2, RequestData
  <1>11. CASE RetryWrite(r)
    <2>1. op'.rollbackLogged = op.rollbackLogged /\ op'.manual = op.manual
      BY <1>0, <1>11 DEF RetryWrite
    <2>2. \A i \in Items :
              /\ items'[i].before = items[i].before /\ items'[i].after = items[i].after
              /\ items'[i].status = IF items[i].status = "FAILED" THEN "RUNNING" ELSE items[i].status
      <3>1. \A i \in Items :
                /\ items'[i].before = items[i].before /\ items'[i].after = items[i].after
                /\ items'[i].status = IF i \in ItemsIn("FAILED") THEN "RUNNING" ELSE items[i].status
        BY <1>s, <1>11, WritesFit DEF RetryWrite
      <3> QED
        BY <3>1 DEF ItemsIn
    <2> QED
      BY <1>1, <1>2, <1>3, <2>1, <2>2, RequestData
  <1>12. CASE MarkQueueFailure(r)
    <2>1. op'.rollbackLogged = op.rollbackLogged /\ op'.manual = op.manual
      BY <1>0, <1>12 DEF MarkQueueFailure
    <2>2. \A i \in Items :
              /\ items'[i].before = items[i].before /\ items'[i].after = items[i].after
              /\ items'[i].status = IF items[i].status = "RUNNING" THEN "FAILED" ELSE items[i].status
      <3>1. \A i \in Items :
                /\ items'[i].before = items[i].before /\ items'[i].after = items[i].after
                /\ items'[i].status = IF i \in ItemsIn("RUNNING") THEN "FAILED" ELSE items[i].status
        BY <1>s, <1>12, WritesFit DEF MarkQueueFailure
      <3> QED
        BY <3>1 DEF ItemsIn
    <2> QED
      BY <1>1, <1>2, <1>3, <2>1, <2>2, RequestData
  <1>13. CASE RequestBegins(r) \/ Enqueue(r) \/ QueueFailureRead(r) \/ EnqueueFails(r)
    BY <1>4, <1>13 DEF RequestBegins, DryRunRead, ConfirmRead, StartRead, FinishRead, RollbackRead,
         RetryRead, Admit, Enqueue, QueueFailureRead, EnqueueFails
  <1> QED
    BY <1>6, <1>7, <1>8, <1>9, <1>10, <1>11, <1>12, <1>13 DEF RequestContinues

LEMMA PreviewData ==
    ASSUME TypeInv, ControlInv, DataInv, CreatePreview
    PROVE  DataInv'
  <1>1. Resting /\ Resting' /\ QuietData
    <2>1. Resting
      BY WhoseTurn DEF CreatePreview, ControlInv, Quiet
    <2> QED
      BY <2>1, RestingData DEF CreatePreview, Resting, Working
  <1>2. UNCHANGED <<reqs, jobs, runs, calls, page, origin, site>>
    BY DEF CreatePreview
  <1>3. \A i \in Items : items[i].status = None
    BY DEF CreatePreview, ControlInv, StatusesFit, Fits, Early, None
  <1>4. \A i \in Items :
            \/ items'[i] = items[i]
            \/ items'[i].status = "PREVIEWED" /\ items'[i].before = Evidence
    BY DEF CreatePreview
  <1>5. op'.rollbackLogged = op.rollbackLogged /\ op'.manual = op.manual
    BY DEF CreatePreview, TypeInv, TypeOK
  <1>6. QuietData'
    <2>1. \A w \in Workers : \A i \in calls[w].todo : i \in Items /\ calls[w].payload[i] = Captured(i)
      BY <1>1, <1>3 DEF QuietData, Spoiled, TypeInv, TypeOK, Call, None
    <2> QED
      BY <1>1, <1>2, <1>3, <1>4, <1>5, <2>1 DEF QuietData, RestorePoint, Restored, Captured, PutBack, None
  <1> QED
    BY <1>1, <1>6, RestingDataNext

\* A slot that neither was nor is at work changes nothing about the data.
LEMMA UnmovedData ==
    ASSUME DataInv, UNCHANGED <<op, items, page, origin, calls, site.queue>>,
           \A v \in Workers : runs'[v] = runs[v] \/ (~Working(v) /\ ~Working(v)')
    PROVE  DataInv'
  <1>1. Resting' <=> Resting
    BY DEF Resting, Working
  <1>2. \A v \in Workers : Sound(v)'
    <2> SUFFICES ASSUME NEW v \in Workers
                 PROVE  Sound(v)'
      OBVIOUS
    <2>1. Sound(v)
      BY DEF DataInv
    <2>2. CASE runs'[v] = runs[v]
      BY <2>1, <2>2 DEF Sound, SoundAt, Sent, Truthful, Local, Captured, PutBack
    <2>3. CASE ~Working(v)'
      BY <2>3 DEF Sound, SoundAt, Working
    <2> QED
      BY <2>2, <2>3
  <1>3. \A v \in Workers : \A i \in calls'[v].todo : Todo(v, i)'
    <2> SUFFICES ASSUME NEW v \in Workers, NEW i \in calls'[v].todo
                 PROVE  Todo(v, i)'
      OBVIOUS
    <2>1. Todo(v, i)
      BY DEF DataInv
    <2> QED
      BY <2>1 DEF Captured, Todo, Spoiled, Working
  <1> QED
    BY <1>1, <1>2, <1>3 DEF DataInv, RestorePoint, Restored, Captured, PutBack

LEMMA LoadData ==
    ASSUME ConfirmedInv, ControlInv, DataInv, NEW w \in Workers, NEW m \in Modes, LoadJob(w, m)
    PROVE  DataInv'
  <1> DEFINE loaded == ItemsIn("RUNNING")
             asked  == IF site.connected THEN {i \in loaded : Executable(Payload(m, i))} ELSE {}
             local  == [i \in Items |-> IF i \in loaded \ asked
                                        THEN [status |-> "FAILED", before |-> items[i].before,
                                              after |-> items[i].after]
                                        ELSE NoResult]
             call   == [asked |-> asked, todo |-> asked, reply |-> NoResults,
                        payload |-> [i \in Items |-> IF i \in asked THEN Payload(m, i) ELSE Null]]
  <1>0. TypeInv /\ runs \in [Workers -> Run] /\ calls \in [Workers -> Call]
    BY DEF ConfirmedInv, TypeInv, TypeOK
  <1>1. /\ jobs[m].state = "waiting" /\ m = RetryMode /\ Resting /\ site.queue
        /\ QuietData
    <2>1. jobs[m].state = "waiting" /\ m = RetryMode /\ Resting /\ site.queue
      BY DEF LoadJob, ControlInv, OneThread
    <2> QED
      BY <2>1, RestingData
  <1>2. /\ runs' = [runs EXCEPT ![w] = [pc |-> IF asked = {} THEN "record" ELSE "call",
                                        job |-> m, holds |-> TRUE, results |-> local]]
        /\ calls' = [calls EXCEPT ![w] = IF asked = {} THEN NoCall ELSE call]
        /\ UNCHANGED <<op, items, page, origin, site>>
    BY DEF LoadJob
  <1>3. \A i \in asked : /\ i \in Items /\ items[i].status = "RUNNING"
                         /\ Payload(m, i) \in Seo
                         /\ Payload(m, i) = IF op.rollbackLogged THEN items[i].before ELSE items[i].after
    BY <1>1 DEF Payload, Executable, ItemsIn, RetryMode
  <1>4. \A i \in asked : IF op.rollbackLogged THEN items[i].before \in Seo /\ Payload(m, i) = Captured(i)
                         ELSE items[i].after \in Seo /\ origin[i] = Null
    BY <1>1, <1>3 DEF QuietData, None
  <1>5. \A i \in Items :
            \/ /\ local[i] = [status |-> "FAILED", before |-> items[i].before, after |-> items[i].after]
               /\ items[i].status = "RUNNING"
            \/ local[i] = NoResult
    BY DEF ItemsIn
  <1>6. asked = {} => calls'[w] = NoCall
    BY <1>0, <1>2
  <1>7. asked # {} => /\ calls'[w].asked = asked /\ calls'[w].todo = asked
                      /\ \A i \in asked : calls'[w].payload[i] = Payload(m, i)
    BY <1>0, <1>2, <1>3
  <1>8. \A i \in asked : calls'[w].payload[i] = Payload(m, i)
    BY <1>7
  <1> HIDE DEF asked, local, call
  <1>9. /\ runs'[w].pc = IF asked = {} THEN "record" ELSE "call"
        /\ runs'[w].results = local
        /\ \A v \in Workers : v # w => runs'[v] = runs[v] /\ calls'[v] = calls[v]
    BY <1>0, <1>2
  <1>10. ~Resting'
    BY <1>9 DEF Resting, Working
  <1>14. \A i \in Items : Truthful(i, runs[w].results[i])'
    <2> SUFFICES ASSUME NEW i \in Items
                 PROVE  Truthful(i, runs[w].results[i])'
      OBVIOUS
    <2>1. items[i].status = "RUNNING" /\ ~op.rollbackLogged /\ items[i].after \in Seo => origin[i] = Null
      BY <1>1 DEF QuietData, None
    <2>2. CASE runs'[w].results[i] = NoResult
      BY <2>2 DEF Truthful, NoResult, None
    <2>3. CASE /\ runs'[w].results[i] = [status |-> "FAILED", before |-> items[i].before, after |-> items[i].after]
               /\ items[i].status = "RUNNING"
      BY <1>2, <2>1, <2>3 DEF Truthful, Local
    <2> QED
      BY <1>5, <1>9, <2>2, <2>3
  <1>11. \A v \in Workers : \A i \in calls'[v].todo : Todo(v, i)'
    <2> SUFFICES ASSUME NEW v \in Workers, NEW i \in calls'[v].todo
                 PROVE  Todo(v, i)'
      OBVIOUS
    <2>1. CASE v # w
      <3>1. calls[v].payload[i] = Captured(i) \/ Spoiled(i)
        BY <1>1, <1>9, <2>1 DEF QuietData
      <3> QED
        BY <1>2, <1>9, <2>1, <3>1 DEF Captured, Todo, Spoiled
    <2>2. CASE v = w
      <3>1. asked # {} /\ i \in asked
        BY <1>6, <1>7, <2>2 DEF NoCall
      <3> QED
        BY <1>2, <1>4, <1>8, <1>9, <2>2, <3>1 DEF Captured, Todo
    <2> QED
      BY <2>1, <2>2
  <1>12. \A v \in Workers : Sound(v)'
    <2> SUFFICES ASSUME NEW v \in Workers
                 PROVE  Sound(v)'
      OBVIOUS
    <2>1. CASE v # w
      BY <1>1, <1>9, <2>1 DEF Sound, SoundAt, Resting, Working
    <2>2. CASE v = w /\ asked = {}
      BY <1>9, <1>14, <2>2 DEF Sound, SoundAt
    <2>3. CASE v = w /\ asked # {}
      <3>1. calls'[w].asked = asked /\ calls'[w].todo = asked
        BY <1>7, <2>3
      <3>2. \A i \in asked : Sent(w, i)'
        BY <1>2, <1>4 DEF Sent
      <3> QED
        BY <1>9, <1>14, <2>3, <3>1, <3>2 DEF Sound, SoundAt
    <2> QED
      BY <2>1, <2>2, <2>3
  <1>13. \A v \in Workers : calls'[v].todo # {} => site'.queue
    BY <1>1, <1>2
  <1> QED
    BY <1>2, <1>10, <1>11, <1>12, <1>13 DEF DataInv, RestorePoint, Restored, Captured, PutBack

\* While one slot is at work, the data of the others stays as it was.
LEMMA AtWorkData ==
    ASSUME DataInv, NEW w \in Workers, AtWork(w), Working(w),
           UNCHANGED <<op, items, page, origin, site>>,
           \A v \in Workers : v # w => runs'[v] = runs[v] /\ calls'[v] = calls[v],
           \A i \in calls'[w].todo : Todo(w, i)', Working(w)', Sound(w)'
    PROVE  DataInv'
  <1>1. ~Resting'
    BY DEF Resting
  <1>2. \A v \in Workers : Sound(v)'
    BY DEF AtWork, Sound, SoundAt, Working
  <1>3. \A v \in Workers : \A i \in calls'[v].todo : Todo(v, i)'
    <2> SUFFICES ASSUME NEW v \in Workers, v # w, NEW i \in calls'[v].todo
                 PROVE  Todo(v, i)'
      OBVIOUS
    <2>1. Todo(v, i)
      BY DEF DataInv
    <2> QED
      BY <2>1 DEF Captured, Todo, Spoiled
  <1>4. \A v \in Workers : calls'[v].todo # {} => site'.queue
    BY DEF AtWork
  <1> QED
    BY <1>1, <1>2, <1>3, <1>4 DEF DataInv, RestorePoint, Restored, Captured, PutBack

LEMMA RecordData ==
    ASSUME ConfirmedInv, ControlInv, DataInv, NEW w \in Workers, RecordResult(w)
    PROVE  DataInv'
  <1>0. /\ runs \in [Workers -> Run] /\ calls \in [Workers -> Call] /\ items \in [Items -> Item]
        /\ op \in [status : OpStatuses, confirmedAt : BOOLEAN, rollbackLogged : BOOLEAN, manual : BOOLEAN]
    BY DEF ConfirmedInv, TypeInv, TypeOK
  <1>1. AtWork(w) /\ Covers(w) /\ Sound(w) /\ runs[w].pc = "commit"
    BY WorkingAlone DEF RecordResult, Working, ControlInv, DataInv
  <1>2. /\ UNCHANGED <<calls, page, origin, site, op.rollbackLogged, op.manual>>
        /\ runs'[w].pc = "ack" /\ \A v \in Workers : v # w => runs'[v] = runs[v]
    BY <1>0 DEF RecordResult
  <1>3. Resting'
    BY <1>1, <1>2 DEF Resting, Working, AtWork
  <1>4. \A i \in Items : /\ runs[w].results[i] \in Result /\ items[i] \in Item /\ Fits(i)
                         /\ Truthful(i, runs[w].results[i])
    BY <1>0, <1>1 DEF Run, Sound, SoundAt, ControlInv, StatusesFit
  <1>5. \A i \in Items : items[i].status # "RUNNING" => items'[i] = items[i]
    BY <1>1 DEF RecordResult, Covers, Reported
  <1>6. \A i \in Items : items[i].status = "RUNNING" =>
            items'[i] = Recorded(w, i) /\ runs[w].results[i].status \in Results
    BY <1>1, <1>4 DEF RecordResult, Covers, Reported, Result
  <1>7. ASSUME NEW i \in Items, items[i].status = "RUNNING", ~op.rollbackLogged
        PROVE  \/ items'[i].status = "COMPLETED" /\ items'[i].before = Captured(i) /\ items[i].after \in Seo
               \/ /\ items'[i].status = "FAILED"
                  /\ items'[i].before = Null /\ items'[i].after = Null
               \/ /\ items'[i].status = "FAILED" /\ runs[w].results[i] # Lost
                  /\ items'[i].before = items[i].before /\ items'[i].after = items[i].after
                  /\ items'[i].after \in Seo => origin[i] = Null
    <2>1. runs[w].job = "execute"
      BY <1>1, <1>7 DEF AtWork, RetryMode
    <2>2. /\ items'[i].status = runs[w].results[i].status
          /\ items'[i].before = runs[w].results[i].before /\ items'[i].after = runs[w].results[i].after
      <3>1. \E task : items'[i] = Row(runs[w].results[i].status, runs[w].results[i], task)
        BY <1>6, <1>7, <2>1 DEF Recorded
      <3> QED
        BY <3>1 DEF Row
    <2> QED
      BY <1>4, <1>6, <1>7, <2>2 DEF Truthful, Local, Lost, Results
  <1>8. ASSUME NEW i \in Items, items[i].status = "RUNNING", op.rollbackLogged
        PROVE  \/ items'[i].status = "ROLLED_BACK" /\ PutBack(i) /\ items[i].before \in Seo
               \/ /\ items'[i].status = "FAILED"
                  /\ items'[i].before = items[i].before /\ items'[i].after = items[i].after
    <2>1. runs[w].job # "execute"
      BY <1>1, <1>8 DEF AtWork, RetryMode
    <2>2. CASE runs[w].results[i].status = "COMPLETED"
      <3>1. items'[i] = Row("ROLLED_BACK", runs[w].results[i], "IN_REVIEW")
        BY <1>6, <1>8, <2>1, <2>2 DEF Recorded
      <3>2. items'[i].status = "ROLLED_BACK"
        BY <3>1 DEF Row
      <3>3. PutBack(i) /\ items[i].before \in Seo
        BY <1>4, <1>8, <2>2 DEF Truthful
      <3> QED
        BY <3>2, <3>3
    <2>3. CASE runs[w].results[i].status # "COMPLETED"
      <3>1. items'[i] = [items[i] EXCEPT !.status = "FAILED"]
        BY <1>6, <1>8, <2>1, <2>3 DEF Recorded
      <3>2. items[i] \in Item
        BY <1>4
      <3> QED
        BY <3>1, <3>2 DEF Item
    <2> QED
      BY <2>2, <2>3
  <1>9. \A i \in Items : items'[i].before \in Seo /\ items'[i].status # "ROLLED_BACK" => items'[i].before = Captured(i)
    BY <1>5, <1>7, <1>8 DEF DataInv
  <1>10. RestorePoint' /\ Restored'
    <2>1. ~op.manual => \A i \in Items : items'[i].status = "COMPLETED" => items'[i].before = Captured(i)
      BY <1>5, <1>7, <1>8 DEF DataInv, RestorePoint
    <2>2. \A i \in Items : items'[i].status = "ROLLED_BACK" => PutBack(i)
      BY <1>5, <1>7, <1>8 DEF DataInv, Restored
    <2> QED
      BY <1>2, <2>1, <2>2 DEF RestorePoint, Restored, Captured, PutBack
  <1>11. \A i \in Items : ~site.queue \/ items'[i].status = None => origin[i] = Null
    BY <1>5, <1>7, <1>8 DEF DataInv, None
  <1>12. ~op.rollbackLogged =>
             \A i \in Items : items'[i].status \notin {None, "COMPLETED"} /\ items'[i].after \in Seo => origin[i] = Null
    <2>1. op.status = "RUNNING" /\ site.queue
      BY <1>1 DEF AtWork
    <2>2. \A i \in Items : ~op.rollbackLogged /\ items[i].status # "RUNNING" => items[i].status \in {None, "COMPLETED"}
      BY <1>4, <2>1 DEF Fits, Early
    <2> QED
      BY <1>5, <1>7, <2>2
  <1>13. \A v \in Workers : \A i \in calls[v].todo : calls[v].payload[i] = Captured(i) \/ Spoiled(i)'
    <2> SUFFICES ASSUME NEW v \in Workers, NEW i \in calls[v].todo, calls[v].payload[i] # Captured(i)
                 PROVE  Spoiled(i)'
      OBVIOUS
    <2>1. i \in Items /\ Todo(v, i)
      BY <1>0 DEF DataInv, Call
    <2>2. CASE Spoiled(i)
      BY <1>5, <1>7, <1>8, <2>1, <2>2 DEF Spoiled
    <2>3. CASE ~Spoiled(i)
      <3>1. ~op.rollbackLogged /\ v = w /\ runs[w].results[i] = Lost
        BY <1>1, <2>1, <2>3 DEF Todo, AtWork, Working
      <3>2. items[i].status = "RUNNING"
        BY <1>1, <2>1, <3>1 DEF Covers, Lost, None
      <3>3. items'[i].status = "FAILED" /\ items'[i].before = Null /\ items'[i].after = Null
        <4>1. items'[i] = Recorded(w, i) /\ runs[w].job = "execute"
          BY <1>1, <1>6, <2>1, <3>1, <3>2 DEF AtWork, RetryMode
        <4>2. \E task : items'[i] = Row("FAILED", Lost, task)
          BY <3>1, <4>1 DEF Recorded, Lost
        <4> QED
          BY <4>2 DEF Row, Lost
      <3> QED
        BY <3>3 DEF Spoiled
    <2> QED
      BY <2>2, <2>3
  <1>14. QuietData'
    BY <1>2, <1>9, <1>10, <1>11, <1>12, <1>13 DEF QuietData, DataInv, Captured
  <1> QED
    BY <1>3, <1>14, RestingDataNext

LEMMA WorkerData ==
    ASSUME ConfirmedInv, ControlInv, DataInv, NEW w \in Workers, WorkerStep(w) \/ CallLost(w)
    PROVE  DataInv'
  <1>0. /\ runs \in [Workers -> Run] /\ calls \in [Workers -> Call]
        /\ \A v \in Workers : calls[v].todo \subseteq calls[v].asked /\ calls[v].asked \subseteq Items
    BY DEF ConfirmedInv, TypeInv, TypeOK, Call
  <1>1. Working(w) => AtWork(w) /\ Covers(w) /\ Sound(w)
    BY WorkingAlone DEF ControlInv, DataInv
  <1>2. ASSUME NEW m \in Modes, RejectJob(w, m)
        PROVE  DataInv'
    <2>1. UNCHANGED <<op, items, page, origin, calls, site, runs>>
      BY <1>2 DEF RejectJob
    <2> QED
      BY <2>1, UnmovedData
  <1>3. ASSUME NEW m \in Modes, LoadJob(w, m)
        PROVE  DataInv'
    BY <1>3, LoadData
  <1>4. CASE Respond(w)
    <2>1. /\ runs'[w].pc = "record" /\ calls'[w].todo = {}
          /\ \A i \in Items : runs'[w].results[i] = IF i \in calls[w].asked THEN calls[w].reply[i]
                                                    ELSE runs[w].results[i]
          /\ \A v \in Workers : v # w => runs'[v] = runs[v] /\ calls'[v] = calls[v]
          /\ UNCHANGED <<op, items, page, origin, site>>
      BY <1>0, <1>4 DEF Respond, Run, NoCall
    <2>2. Working(w) /\ runs[w].pc = "call" /\ calls[w].todo = {}
      BY <1>4 DEF Respond, Working
    <2>3. \A i \in Items : Truthful(i, runs'[w].results[i])
      BY <1>1, <2>1, <2>2 DEF Sound, SoundAt
    <2>4. Sound(w)' /\ Working(w)'
      BY <2>1, <2>3 DEF Sound, SoundAt, Working, Truthful, Local, Captured, PutBack
    <2> QED
      BY <1>1, <2>1, <2>2, <2>4, AtWorkData
  <1>5. CASE CallLost(w)
    <2>1. /\ runs'[w].pc = "record"
          /\ \A i \in Items : runs'[w].results[i] = IF i \in calls[w].asked THEN Lost
                                                    ELSE runs[w].results[i]
          /\ \A v \in Workers : v # w => runs'[v] = runs[v] /\ calls'[v] = calls[v]
          /\ calls'[w] = calls[w] \/ calls'[w].todo = {}
          /\ UNCHANGED <<op, items, page, origin, site>>
      BY <1>0, <1>5 DEF CallLost, Run, NoCall
    <2>2. Working(w) /\ runs[w].pc = "call"
      BY <1>5 DEF CallLost, Working
    <2>3. \A i \in Items : Truthful(i, runs'[w].results[i])
      <3>1. \A i \in Items : Truthful(i, Lost)
        BY DEF Truthful, Lost
      <3> QED
        BY <1>1, <2>1, <2>2, <3>1 DEF Sound, SoundAt
    <2>4. Sound(w)' /\ Working(w)'
      BY <2>1, <2>3 DEF Sound, SoundAt, Working, Truthful, Local, Captured, PutBack
    <2>5. \A i \in calls'[w].todo : Todo(w, i)'
      <3> SUFFICES ASSUME NEW i \in calls'[w].todo
                   PROVE  Todo(w, i)'
        OBVIOUS
      <3>1. calls'[w] = calls[w] /\ i \in calls[w].todo /\ runs'[w].results[i] = Lost /\ Todo(w, i)
        BY <1>0, <2>1 DEF DataInv
      <3> QED
        BY <2>1, <2>2, <3>1 DEF Captured, Todo, Spoiled
    <2> QED
      BY <1>1, <2>1, <2>2, <2>4, <2>5, AtWorkData
  <1>6. CASE RecordRead(w)
    <2>1. /\ runs'[w].pc = "commit" /\ runs'[w].results = runs[w].results
          /\ \A v \in Workers : v # w => runs'[v] = runs[v] /\ calls'[v] = calls[v]
          /\ UNCHANGED <<op, items, calls, page, origin, site>>
      BY <1>0, <1>6 DEF RecordRead, Run
    <2>2. Working(w) /\ runs[w].pc = "record"
      BY <1>6 DEF RecordRead, Working
    <2>3. Sound(w)' /\ Working(w)'
      BY <1>1, <2>1, <2>2 DEF Sound, SoundAt, Working, Truthful, Local, Captured, PutBack
    <2>4. \A i \in calls'[w].todo : Todo(w, i)'
      <3> SUFFICES ASSUME NEW i \in calls'[w].todo
                   PROVE  Todo(w, i)'
        OBVIOUS
      <3>1. Todo(w, i)
        BY <2>1 DEF DataInv
      <3> QED
        BY <2>1, <2>2, <3>1 DEF Captured, Todo, Spoiled
    <2> QED
      BY <1>1, <2>1, <2>2, <2>3, <2>4, AtWorkData
  <1>7. ~RecordRefused(w)
    BY <1>1 DEF RecordRefused, Working, AtWork
  <1>8. CASE RecordResult(w)
    BY <1>8, RecordData
  <1>9. CASE CompleteJob(w)
    <2>1. \A v \in Workers : runs'[v] = runs[v] \/ (~Working(v) /\ ~Working(v)')
      <3>1. runs[w].pc = "ack" /\ runs' = [runs EXCEPT ![w] = IdleRun]
        BY <1>9 DEF CompleteJob, Settle
      <3>2. runs'[w].pc = "idle" /\ \A v \in Workers : v # w => runs'[v] = runs[v]
        BY <1>0, <3>1 DEF IdleRun
      <3> QED
        BY <3>1, <3>2 DEF Working
    <2>2. UNCHANGED <<op, items, page, origin, calls, site>>
      BY <1>9 DEF CompleteJob
    <2> QED
      BY <2>1, <2>2, UnmovedData
  <1> QED
    BY <1>2, <1>3, <1>4, <1>5, <1>6, <1>7, <1>8, <1>9 DEF WorkerStep

LEMMA RefuseData ==
    ASSUME ConfirmedInv, DataInv, NEW w \in Workers, NEW i \in Items, RefuseItem(w, i)
    PROVE  DataInv'
  <1>0. TypeInv /\ \A v \in Workers : calls[v].todo \subseteq calls[v].asked /\ calls[v].asked \subseteq Items
    BY DEF ConfirmedInv, TypeInv, TypeOK, Call
  <1>1. i \in calls[w].todo /\ UNCHANGED <<op, items, runs, page, origin, site>> /\ Answer(w, i, Lost)
    BY DEF RefuseItem, Lost
  <1>2. /\ \A v \in Workers : v # w => calls'[v] = calls[v]
        /\ \/ calls'[w] = NoCall /\ runs[w].pc # "call"
           \/ /\ calls'[w].asked = calls[w].asked /\ calls'[w].payload = calls[w].payload
              /\ calls'[w].todo = calls[w].todo \ {i}
              /\ calls'[w].reply[i] = Lost
              /\ \A k \in Items : k # i => calls'[w].reply[k] = calls[w].reply[k]
    BY <1>0, <1>1, BlankType, Answers
  <1>3. \A v \in Workers : \A k \in calls'[v].todo :
            k \in calls[v].todo /\ calls'[v].payload[k] = calls[v].payload[k]
    BY <1>2 DEF NoCall
  <1>4. \A v \in Workers : \A k \in calls'[v].todo : Todo(v, k)'
    <2> SUFFICES ASSUME NEW v \in Workers, NEW k \in calls'[v].todo
                 PROVE  Todo(v, k)'
      OBVIOUS
    <2>1. Todo(v, k) /\ calls'[v].payload[k] = calls[v].payload[k]
      BY <1>3 DEF DataInv
    <2> QED
      BY <1>1, <2>1 DEF Captured, Todo, Spoiled
  <1>5. \A v \in Workers : Sound(v)'
    <2> SUFFICES ASSUME NEW v \in Workers
                 PROVE  Sound(v)'
      OBVIOUS
    <2>1. Sound(v) /\ \A k \in Items : Truthful(k, Lost)
      BY DEF DataInv, Truthful, Lost
    <2>2. CASE runs[v].pc # "call" \/ v # w
      <3>1. \A k, result : Truthful(k, result) => Truthful(k, result)'
        BY <1>1 DEF Truthful, Local, Captured, PutBack
      <3>2. runs[v].pc = "call" => calls'[v] = calls[v]
        BY <1>2, <2>2
      <3> QED
        BY <1>1, <2>1, <3>1, <3>2 DEF Sound, SoundAt, Sent
    <2>3. CASE runs[v].pc = "call" /\ v = w
      <3>1. /\ calls'[w].asked = calls[w].asked /\ calls'[w].todo = calls[w].todo \ {i}
            /\ \A k \in Items : calls'[w].reply[k] = IF k = i THEN Lost ELSE calls[w].reply[k]
        BY <1>0, <1>1, <1>2, <2>3
      <3> QED
        BY <1>1, <2>1, <2>3, <3>1 DEF Sound, SoundAt, Sent, Truthful, Local, Captured, PutBack
    <2> QED
      BY <2>2, <2>3
  <1>6. \A v \in Workers : calls'[v].todo # {} => site'.queue
    BY <1>1, <1>3 DEF DataInv
  <1>7. Resting' <=> Resting
    BY <1>1 DEF Resting, Working
  <1> QED
    BY <1>1, <1>4, <1>5, <1>6, <1>7 DEF DataInv, RestorePoint, Restored, Captured, PutBack

\* A write a slot waits for, or one whose answer is given up, changes what is
\* known of its own item only.
LEMMA ApplyData ==
    ASSUME ConfirmedInv, ControlInv, DataInv, NEW w \in Workers, NEW i \in Items, ApplyItem(w, i)
    PROVE  DataInv'
  <1> DEFINE done == [status |-> "COMPLETED", before |-> SeoValues(page[i]),
                   after |-> SeoValues(Overwritten(page[i], calls[w].payload[i]))]
  <1>0. /\ TypeInv /\ page \in [Items -> Metadata] /\ origin \in [Items -> Metadata \cup {Null}]
        /\ Null \notin Seo /\ Null \notin Metadata
        /\ \A v \in Workers : calls[v].todo \subseteq calls[v].asked /\ calls[v].asked \subseteq Items
    BY ConversionAssumption DEF ConfirmedInv, TypeInv, TypeOK, Call
  <1>1. i \in calls[w].todo /\ UNCHANGED <<op, items, runs, site>> /\ Answer(w, i, done)
    BY DEF ApplyItem
  <1>2. done \in Result
    BY <1>0, <1>1, Conversion DEF Result, Results, Stored, TypeInv, TypeOK, PayloadOK
  <1> HIDE DEF done
  <1>3. /\ \A v \in Workers : v # w => calls'[v] = calls[v]
        /\ \/ calls'[w] = NoCall /\ runs[w].pc # "call"
           \/ /\ calls'[w].asked = calls[w].asked /\ calls'[w].payload = calls[w].payload
              /\ calls'[w].todo = calls[w].todo \ {i}
              /\ calls'[w].reply[i] = done
              /\ \A k \in Items : k # i => calls'[w].reply[k] = calls[w].reply[k]
    BY <1>0, <1>1, <1>2, Answers
  <1>4. \A v \in Workers : \A k \in calls'[v].todo :
            k \in calls[v].todo /\ calls'[v].payload[k] = calls[v].payload[k] /\ (v = w => k # i)
    BY <1>3 DEF NoCall
  <1>5. /\ \A k \in Items : k # i => page'[k] = page[k] /\ origin'[k] = origin[k]
        /\ page'[i] = Overwritten(page[i], calls[w].payload[i]) /\ page'[i] \in Metadata
        /\ origin'[i] = IF origin[i] = Null THEN page[i] ELSE origin[i]
    BY <1>0, <1>1, Conversion DEF ApplyItem, TypeInv, PayloadOK
  <1>6. site.queue /\ Todo(w, i)
    BY <1>1 DEF DataInv
  <1>7. \A v \in Workers : i \in calls[v].todo => calls[v].payload[i] \in Seo
    BY <1>0 DEF TypeInv, PayloadOK
  <1>8. \A v \in Workers : Working(v) => AtWork(v) /\ Covers(v) /\ Sound(v)
    BY WorkingAlone DEF ControlInv, DataInv
  <1>9. done.status = "COMPLETED" /\ done.before = SeoValues(page[i])
    BY DEF done
  <1>10. \A v \in Workers : v # w /\ Working(w) => ~Working(v)
    BY <1>8 DEF AtWork
  \* What has to hold of the item written.
  <1> DEFINE
        Kept == /\ items[i].before \in Seo /\ items[i].status # "ROLLED_BACK" => items[i].before = Captured(i)'
                /\ ~op.manual /\ items[i].status = "COMPLETED" => items[i].before = Captured(i)'
                /\ items[i].status = "ROLLED_BACK" => PutBack(i)'
                /\ items[i].status # None
                /\ Resting /\ ~op.rollbackLogged /\ items[i].status # "COMPLETED" /\ items[i].after \in Seo
                       => origin'[i] = Null
        Others == \A v \in Workers : v # w /\ i \in calls[v].todo => Todo(v, i)'
        Slots == \A v \in Workers : SoundAt(v, i)'
  <1>11. ASSUME runs[w].pc = "call" /\ ~op.rollbackLogged
         PROVE  Kept /\ Others /\ Slots
    <2>1. Working(w) /\ i \in calls[w].asked
      BY <1>0, <1>1, <1>11 DEF Working
    <2>2. items[i].status = "RUNNING" /\ items[i].after \in Seo /\ origin[i] = Null
      BY <1>1, <1>8, <1>11, <2>1 DEF Covers, Sound, SoundAt, Sent
    <2>3. items[i].before \notin Seo
      BY <1>0, <2>2 DEF DataInv, Captured
    <2>4. Kept
      BY <2>1, <2>2, <2>3 DEF Resting, None
    <2>5. \A v \in Workers : v # w => i \notin calls[v].todo
      <3> SUFFICES ASSUME NEW v \in Workers, v # w, i \in calls[v].todo
                   PROVE  FALSE
        OBVIOUS
      <3>1. Todo(v, i) /\ ~Working(v) /\ calls[v].payload[i] \in Seo
        BY <1>7, <1>10, <2>1 DEF DataInv
      <3> QED
        BY <1>0, <2>2, <3>1 DEF Captured, Todo, Working, Spoiled
    <2>6. Slots
      <3>1. origin'[i] = page[i] /\ page[i] # Null
        BY <1>0, <1>5, <2>2
      <3>2. SoundAt(w, i)'
        <4>1. i \in calls'[w].asked \ calls'[w].todo /\ calls'[w].reply[i] = done
          BY <1>3, <1>11, <2>1
        <4> QED
          BY <1>1, <1>9, <1>11, <2>2, <3>1, <4>1 DEF SoundAt, Sent, Truthful, Captured
      <3>3. \A v \in Workers : v # w => SoundAt(v, i)'
        BY <1>1, <1>10, <2>1 DEF SoundAt, Working
      <3> QED
        BY <3>2, <3>3
    <2>7. Others
      BY <2>5
    <2> QED
      BY <2>4, <2>6, <2>7
  <1>12. ASSUME calls[w].payload[i] = Captured(i)
         PROVE  Kept /\ Others /\ Slots
    <2>1. /\ origin[i] # Null /\ origin'[i] = origin[i]
          /\ Captured(i)' = Captured(i) /\ PutBack(i)'
      <3>1. origin[i] # Null /\ origin[i] \in Metadata /\ page[i] \in Metadata
        BY <1>0, <1>1, <1>7, <1>12 DEF Captured
      <3>2. origin'[i] = origin[i] /\ Captured(i) = SeoValues(origin[i]) /\ Captured(i)' = Captured(i)
        BY <1>5, <3>1 DEF Captured
      <3>3. page'[i] = Overwritten(origin[i], SeoValues(origin[i]))
        BY <1>5, <1>12, <3>1, <3>2, Conversion
      <3> QED
        BY <3>1, <3>2, <3>3 DEF PutBack
    <2>2. Kept
      BY <1>1, <2>1 DEF DataInv, RestorePoint
    <2>3. Others
      <3> SUFFICES ASSUME NEW v \in Workers, v # w, i \in calls[v].todo
                   PROVE  Todo(v, i)'
        OBVIOUS
      <3>1. Todo(v, i) /\ calls'[v] = calls[v]
        BY <1>3 DEF DataInv
      <3> QED
        BY <1>1, <2>1, <3>1 DEF Captured, Todo, Spoiled
    <2>4. Slots
      <3>1. \A result : Truthful(i, result) => Truthful(i, result)'
        BY <1>1, <2>1 DEF Truthful, Local, Captured, PutBack
      <3>2. \A v \in Workers : SoundAt(v, i)
        BY DEF DataInv, Sound
      <3>3. \A v \in Workers : v # w \/ runs[v].pc # "call" => SoundAt(v, i)'
        BY <1>1, <1>3, <2>1, <3>1, <3>2 DEF SoundAt, Sent
      <3>4. CASE runs[w].pc = "call"
        <4>1. i \in calls[w].asked /\ Sent(w, i)
          BY <1>0, <1>1, <3>2, <3>4 DEF SoundAt
        <4>2. op.rollbackLogged /\ items[i].before \in Seo
          BY <1>1, <2>1, <4>1 DEF Sent
        <4>3. i \in calls'[w].asked \ calls'[w].todo /\ calls'[w].reply[i] = done
          BY <1>3, <3>4, <4>1
        <4>4. SoundAt(w, i)'
          BY <1>1, <2>1, <3>4, <4>2, <4>3 DEF SoundAt, Sent, Truthful, Captured
        <4> QED
          BY <3>3, <4>4
      <3> QED
        BY <3>3, <3>4
    <2> QED
      BY <2>2, <2>3, <2>4
  <1>13. ASSUME ~op.rollbackLogged /\ runs[w].pc \in {"record", "commit"} /\ runs[w].results[i] = Lost
         PROVE  Kept /\ Others /\ Slots
    <2>1. Working(w) /\ items[i].status = "RUNNING"
      BY <1>8, <1>13 DEF Working, Covers, Lost, None
    <2>2. Kept
      BY <1>0, <1>5, <2>1 DEF DataInv, Captured, Resting, None
    <2>3. Others
      <3> SUFFICES ASSUME NEW v \in Workers, v # w, i \in calls[v].todo
                   PROVE  Todo(v, i)'
        OBVIOUS
      <3>1. Todo(v, i) /\ calls'[v] = calls[v] /\ ~Working(v) /\ calls[v].payload[i] \in Seo
        BY <1>3, <1>7, <1>10, <2>1 DEF DataInv
      <3>2. calls[v].payload[i] = Captured(i) \/ Spoiled(i)
        BY <3>1 DEF Todo, Working
      <3> QED
        BY <1>0, <1>1, <1>5, <3>1, <3>2 DEF Captured, Todo, Spoiled
    <2>4. Slots
      <3>1. SoundAt(w, i)'
        BY <1>1, <1>13 DEF SoundAt, Truthful, Lost
      <3>2. \A v \in Workers : v # w => SoundAt(v, i)'
        BY <1>1, <1>10, <2>1 DEF SoundAt, Working
      <3> QED
        BY <3>1, <3>2
    <2> QED
      BY <2>2, <2>3, <2>4
  <1>14. ASSUME Spoiled(i)
         PROVE  Kept /\ Others /\ Slots
    <2>1. Kept
      BY <1>14 DEF Spoiled, None
    <2>2. Others
      BY <1>1, <1>14 DEF Todo, Spoiled
    <2>3. Slots
      <3> SUFFICES ASSUME NEW v \in Workers
                   PROVE  SoundAt(v, i)'
        OBVIOUS
      <3>1. \A result : Truthful(i, result) => Truthful(i, result)'
        BY <1>1, <1>14 DEF Truthful, Local, Spoiled
      <3>2. SoundAt(v, i) /\ runs'[v] = runs[v]
        BY <1>1 DEF DataInv, Sound
      <3>3. runs[v].pc = "call" => i \notin calls[v].asked
        BY <1>14, <3>2 DEF SoundAt, Sent, Spoiled
      <3>4. runs[v].pc = "call" => i \notin calls'[v].asked
        BY <1>3, <3>3
      <3> QED
        BY <3>1, <3>2, <3>3, <3>4 DEF SoundAt
    <2> QED
      BY <2>1, <2>2, <2>3
  <1> HIDE DEF Kept, Others, Slots
  <1>15. Kept /\ Others /\ Slots
    BY <1>6, <1>11, <1>12, <1>13, <1>14 DEF Todo
  <1>16. \A v \in Workers : \A k \in calls'[v].todo : Todo(v, k)'
    <2> SUFFICES ASSUME NEW v \in Workers, NEW k \in calls'[v].todo
                 PROVE  Todo(v, k)'
      OBVIOUS
    <2>1. Todo(v, k) /\ calls'[v].payload[k] = calls[v].payload[k] /\ k \in calls[v].todo /\ k \in Items
      BY <1>0, <1>4 DEF DataInv
    <2>2. CASE k = i
      BY <1>4, <1>15, <2>1, <2>2 DEF Others
    <2>3. CASE k # i
      BY <1>1, <1>5, <2>1, <2>3 DEF Captured, Todo, Spoiled
    <2> QED
      BY <2>2, <2>3
  <1>17. \A v \in Workers : Sound(v)'
    <2> SUFFICES ASSUME NEW v \in Workers, NEW k \in Items
                 PROVE  SoundAt(v, k)'
      BY DEF Sound
    <2>1. CASE k = i
      BY <1>15, <2>1 DEF Slots
    <2>2. CASE k # i
      <3>1. SoundAt(v, k) /\ runs'[v] = runs[v]
        BY <1>1 DEF DataInv, Sound
      <3>2. \A result : Truthful(k, result) => Truthful(k, result)'
        BY <1>1, <1>5, <2>2 DEF Truthful, Local, Captured, PutBack
      <3>3. runs[v].pc = "call" =>
                /\ calls'[v].asked = calls[v].asked /\ calls'[v].reply[k] = calls[v].reply[k]
                /\ k \in calls'[v].todo <=> k \in calls[v].todo
        BY <1>3, <2>2
      <3> QED
        BY <1>1, <1>5, <2>2, <3>1, <3>2, <3>3 DEF SoundAt, Sent
    <2> QED
      BY <2>1, <2>2
  <1>18. \A k \in Items : items[k].before \in Seo /\ items[k].status # "ROLLED_BACK" => items[k].before = Captured(k)'
    BY <1>5, <1>15 DEF Captured, DataInv, Kept
  <1>19. RestorePoint' /\ Restored'
    <2>1. ~op.manual => \A k \in Items : items[k].status = "COMPLETED" => items[k].before = Captured(k)'
      BY <1>5, <1>15 DEF Captured, DataInv, RestorePoint, Kept
    <2>2. \A k \in Items : items[k].status = "ROLLED_BACK" => PutBack(k)'
      BY <1>5, <1>15 DEF PutBack, Captured, DataInv, Restored, Kept
    <2> QED
      BY <1>1, <2>1, <2>2 DEF RestorePoint, Restored, Captured, PutBack
  <1>20. \A k \in Items : ~site.queue \/ items[k].status = None => origin'[k] = Null
    BY <1>5, <1>6, <1>15 DEF DataInv, Kept
  <1>21. Resting /\ ~op.rollbackLogged =>
             \A k \in Items : items[k].status \notin {None, "COMPLETED"} /\ items[k].after \in Seo => origin'[k] = Null
    BY <1>5, <1>15 DEF DataInv, Kept
  <1>22. (Resting' <=> Resting) /\ \A v \in Workers : calls'[v].todo # {} => site'.queue
    BY <1>1, <1>6 DEF Resting, Working
  <1> QED
    BY <1>1, <1>16, <1>17, <1>18, <1>19, <1>20, <1>21, <1>22 DEF DataInv

LEMMA DataNext ==
    Sequential => (ConfirmedInv /\ ControlInv /\ DataInv /\ [Next]_vars => DataInv')
  <1> SUFFICES ASSUME Sequential, ConfirmedInv, ControlInv, DataInv, [Next]_vars
               PROVE  DataInv'
    OBVIOUS
  <1>0. TypeInv
    BY DEF ConfirmedInv
  <1>1. ASSUME UNCHANGED <<op, items, runs, calls, page, origin, site.queue>>
        PROVE  DataInv'
    BY <1>1, UnmovedData
  <1>2. CASE Fault
    BY <1>0, <1>1, <1>2, FaultsLeft, RequestsData, WorkerData
  <1>3. CASE UNCHANGED vars
    BY <1>1, <1>3 DEF vars
  <1>4. ASSUME NEW w \in Workers, PluginStep(w)
        PROVE  DataInv'
    BY <1>4, ApplyData, RefuseData DEF PluginStep
  <1> QED
    BY <1>0, <1>2, <1>3, <1>4, PreviewData, RequestsData, WorkerData DEF Next

\* Only a slot that loads a job opens a call.
LEMMA CallsOpened ==
    ASSUME TypeInv, [Next]_vars, NEW w \in Workers, calls[w] = NoCall, calls'[w] # NoCall
    PROVE  \E m \in Modes : LoadJob(w, m)
  <1>0. calls \in [Workers -> Call]
    BY DEF TypeInv, TypeOK
  <1>1. ~UNCHANGED calls
    OBVIOUS
  <1>2. ~(\E v \in Workers : \/ calls' = [calls EXCEPT ![v] = NoCall]
                             \/ v # w /\ calls'[w] = calls[w])
    BY <1>0
  <1>3. ~(\E v \in Workers : PluginStep(v))
    <2> SUFFICES ASSUME NEW v \in Workers, PluginStep(v)
                 PROVE  FALSE
      OBVIOUS
    <2>1. PICK i \in calls[v].todo : \E result : Answer(v, i, result)
      BY DEF PluginStep, ApplyItem, RefuseItem
    <2>2. v # w => calls'[w] = calls[w]
      BY <1>0, <2>1 DEF Answer
    <2> QED
      BY <1>2, <2>1, <2>2 DEF NoCall
  <1>4. PICK v \in Workers, m \in Modes : LoadJob(v, m)
    BY <1>1, <1>2, <1>3
    DEF Next, vars, CreatePreview, RequestBegins, RequestContinues, Admit, DryRunRead, ConfirmRead,
        StartRead, FinishRead, RollbackRead, RetryRead, DryRunWrite, ConfirmWrite, StartWrite,
        FinishWrite, RollbackWrite, RetryWrite, Enqueue, QueueFailureRead, MarkQueueFailure,
        WorkerStep, RejectJob, Respond, RecordRead, RecordRefused, RecordResult,
        CompleteJob, Fault, EnqueueFails, AbandonRequest, CallLost,
        RecordFails, WorkerCrash, LoseLock, EvictJob, EditPage, ChangeSite
  <1>5. v = w
    <2>1. PICK call : calls' = [calls EXCEPT ![v] = call]
      BY <1>4 DEF LoadJob
    <2> QED
      BY <1>0, <1>2, <2>1
  <1> QED
    BY <1>4, <1>5

\* A rollback puts the values back that the endpoint read of each page before
\* the operation first wrote it, and after a rollback was requested no slot sends planned values.
THEOREM RollbackRestoresAlone == Sequential => (Spec => RollbackRestores)
  <1> SUFFICES ASSUME Sequential
               PROVE  Spec => RollbackRestores
    OBVIOUS
  <1>1. ConfirmedInv /\ ControlInv /\ [Next]_vars =>
            [\A w \in Workers : calls[w] = NoCall /\ calls'[w] # NoCall /\ runs'[w].job = "execute"
                                    => ~op.rollbackLogged]_vars
    <2> SUFFICES ASSUME ConfirmedInv, ControlInv, [Next]_vars, NEW w \in Workers,
                        calls[w] = NoCall, calls'[w] # NoCall, runs'[w].job = "execute"
                 PROVE  ~op.rollbackLogged
      OBVIOUS
    <2>1. PICK m \in Modes : LoadJob(w, m)
      BY CallsOpened DEF ConfirmedInv
    <2>2. runs'[w].job = m
      BY <2>1 DEF LoadJob, ConfirmedInv, TypeInv, TypeOK
    <2>3. m = RetryMode
      BY <2>1 DEF LoadJob, ControlInv, OneThread
    <2> QED
      BY <2>2, <2>3 DEF RetryMode
  <1>2. DataInv => RestorePoint /\ Restored
    BY DEF DataInv
  <1> QED
    BY <1>1, <1>2, ConfirmedInit, ConfirmedNext, ControlInit, ControlNext, DataInit, DataNext, PTL
    DEF Spec, RollbackRestores, RollbackNeverReapplies
-----------------------------------------------------------------------------
\* Results entered for all items at once.
LEMMA Finished ==
    ASSUME op.status = "RUNNING", op'.confirmedAt = op.confirmedAt,
           NEW failed \in SUBSET OpItems, op'.status \in Results,
           failed # {} => op'.status = "FAILED",
           \A i \in Items : items'[i].status = IF i \in failed THEN "FAILED"
                                               ELSE IF i \in OpItems THEN "COMPLETED" ELSE items[i].status
    PROVE  InMemory!Finish
  <1>1. InMemory!OpItems = OpItems
    BY DEF InMemory!OpItems, OpItems, None
  <1> QED
    <2>1. /\ [status |-> op'.status, confirmedAt |-> op'.confirmedAt]
                 = [[status |-> op.status, confirmedAt |-> op.confirmedAt] EXCEPT !.status = op'.status]
          /\ [i \in Items |-> items'[i].status]
                 = [i \in Items |-> IF i \in failed THEN "FAILED"
                                    ELSE IF i \in OpItems THEN "COMPLETED"
                                    ELSE [k \in Items |-> items[k].status][i]]
      OBVIOUS
    <2>2. failed \in SUBSET InMemory!OpItems /\ op'.status \in {"COMPLETED", "FAILED"}
      BY <1>1 DEF Results
    <2> QED
      BY <1>1, <2>1, <2>2 DEF InMemory!Finish

\* What a step of the operation is to the in-memory repository.
LifeCycleStep ==
    \/ IF op'.rollbackLogged THEN <<op.status, op'.status>> \in RollbackCycle ELSE InMemory!Next
    \/ UNCHANGED InMemory!devVars

LEMMA RequestsLifeCycle ==
    ASSUME Sequential, TypeInv, ControlInv, NEW r \in Reqs, RequestContinues(r) \/ EnqueueFails(r)
    PROVE  LifeCycleStep
  <1> USE DEF None
  <1>0. /\ op \in [status : OpStatuses, confirmedAt : BOOLEAN, rollbackLogged : BOOLEAN, manual : BOOLEAN]
        /\ items \in [Items -> Item] /\ reqs \in [Reqs -> Request]
        /\ \A i \in Items : Fits(i)
        /\ StatusesFit /\ StillSo(r)
    BY DEF TypeInv, TypeOK, ControlInv, OneThread, StatusesFit
  <1>s. {"PREVIEWED", "DRY_RUN_PASSED", "CONFIRMED", "RUNNING", "COMPLETED", "FAILED"} \subseteq OpStatuses
        /\ OpItems \in SUBSET Items /\ \A st : ItemsIn(st) \in SUBSET Items
    BY DEF OpStatuses, OpItems, ItemsIn
  <1>o. InMemory!OpItems = OpItems /\ InMemory!ItemsIn("FAILED") = ItemsIn("FAILED")
    BY DEF InMemory!OpItems, OpItems, InMemory!ItemsIn, ItemsIn
  <1>1. CASE DryRunWrite(r)
    <2>1. op.status = "PREVIEWED" /\ op'.status = "DRY_RUN_PASSED" /\ ~op'.rollbackLogged
          /\ op'.confirmedAt = op.confirmedAt
      BY <1>0, <1>1 DEF DryRunWrite, InWrite, StillSo, StatusesFit, Early
    <2>2. \A i \in Items : items'[i].status = IF i \in OpItems THEN "DRY_RUN_PASSED" ELSE items[i].status
      BY <1>s, <1>1, WritesFit DEF DryRunWrite
    <2>3. InMemory!RunDryRun
      BY <1>o, <2>1, <2>2 DEF InMemory!RunDryRun, InMemory!Move
    <2> QED
      BY <2>1, <2>3 DEF LifeCycleStep, InMemory!Next
  <1>2. CASE ConfirmWrite(r)
    <2>1. op.status = "DRY_RUN_PASSED" /\ op'.status = "CONFIRMED" /\ ~op'.rollbackLogged
          /\ op'.confirmedAt = TRUE
      BY <1>0, <1>2 DEF ConfirmWrite, InWrite, StillSo, StatusesFit, Early
    <2>2. \A i \in Items : items'[i].status = IF i \in OpItems THEN "CONFIRMED" ELSE items[i].status
      BY <1>s, <1>2, WritesFit DEF ConfirmWrite
    <2>3. InMemory!Confirmed
      BY <1>o, <2>1, <2>2 DEF InMemory!Confirmed
    <2> QED
      BY <2>1, <2>3 DEF LifeCycleStep, InMemory!Next, InMemory!Confirm
  <1>3. CASE StartWrite(r)
    <2>1. op.status = "CONFIRMED" /\ op'.status = "RUNNING" /\ ~op'.rollbackLogged
          /\ op'.confirmedAt = op.confirmedAt
      BY <1>0, <1>3 DEF StartWrite, InWrite, StillSo, StatusesFit, Early
    <2>2. \A i \in Items : items'[i].status = IF i \in OpItems THEN "RUNNING" ELSE items[i].status
      BY <1>s, <1>3, WritesFit DEF StartWrite
    <2>3. InMemory!Start
      BY <1>o, <2>1, <2>2 DEF InMemory!Start, InMemory!Move
    <2> QED
      BY <2>1, <2>3 DEF LifeCycleStep, InMemory!Next
  <1>4. CASE FinishWrite(r)
    <2>1. PICK failed \in SUBSET OpItems, status \in Results :
              /\ failed # {} => status = "FAILED"
              /\ items' = FinishItems(failed, OpItems \ failed)
              /\ op' = [op EXCEPT !.status = status, !.manual = TRUE]
      BY <1>4 DEF FinishWrite
    <2>2. op.status = "RUNNING" /\ op'.status = status /\ op'.confirmedAt = op.confirmedAt
      BY <1>0, <1>4, <2>1 DEF FinishWrite, InWrite, StillSo
    <2>3. \A i \in Items : items'[i].status = IF i \in failed THEN "FAILED"
                                              ELSE IF i \in OpItems THEN "COMPLETED" ELSE items[i].status
      BY <1>0, <2>1 DEF FinishItems, Item
    <2>4. InMemory!Finish
      BY <2>1, <2>2, <2>3, Finished
    <2> QED
      BY <2>1, <2>2, <2>4 DEF LifeCycleStep, InMemory!Next, RollbackCycle, Results
  <1>5. CASE RollbackWrite(r)
    <2>1. op.status \in {"COMPLETED", "FAILED"} /\ op'.status = "RUNNING" /\ op'.rollbackLogged
      BY <1>0, <1>5 DEF RollbackWrite, InWrite, StillSo
    <2> QED
      BY <2>1 DEF LifeCycleStep, RollbackCycle
  <1>6. CASE RetryWrite(r)
    <2>1. op.status = "FAILED" /\ op'.status = "RUNNING" /\ op'.confirmedAt = op.confirmedAt
          /\ ItemsIn("FAILED") # {}
      BY <1>0, <1>6 DEF RetryWrite, InWrite, StillSo
    <2>2. \A i \in Items : items'[i].status = IF i \in ItemsIn("FAILED") THEN "RUNNING" ELSE items[i].status
      BY <1>s, <1>6, WritesFit DEF RetryWrite
    <2>3. InMemory!Retry
      BY <1>o, <2>1, <2>2 DEF InMemory!Retry, InMemory!Move
    <2>4. CASE op'.rollbackLogged
      BY <2>1, <2>4 DEF LifeCycleStep, RollbackCycle
    <2>5. CASE ~op'.rollbackLogged
      BY <2>3, <2>5 DEF LifeCycleStep, InMemory!Next
    <2> QED
      BY <2>4, <2>5
  <1>7. CASE MarkQueueFailure(r)
    <2>1. op.status = "RUNNING" /\ op'.status = "FAILED" /\ op'.confirmedAt = op.confirmedAt
          /\ op'.rollbackLogged = op.rollbackLogged
      BY <1>0, <1>7 DEF MarkQueueFailure, StillSo
    <2>2. \A i \in Items : items'[i].status = IF i \in ItemsIn("RUNNING") THEN "FAILED" ELSE items[i].status
      BY <1>s, <1>7, WritesFit DEF MarkQueueFailure
    <2>3. CASE op'.rollbackLogged
      BY <2>1, <2>3 DEF LifeCycleStep, RollbackCycle
    <2>4. CASE ~op'.rollbackLogged
      <3>1. \A i \in Items : items[i].status \in {None, "RUNNING", "COMPLETED"}
        BY <1>0, <2>1, <2>4 DEF Fits, Early
      <3>2. ItemsIn("RUNNING") \in SUBSET OpItems
        BY DEF ItemsIn, OpItems
      <3>3. \A i \in Items : items'[i].status = IF i \in ItemsIn("RUNNING") THEN "FAILED"
                                                ELSE IF i \in OpItems THEN "COMPLETED" ELSE items[i].status
        BY <2>2, <3>1 DEF ItemsIn, OpItems
      <3>4. InMemory!Finish
        BY <2>1, <3>2, <3>3, Finished DEF Results
      <3> QED
        BY <2>4, <3>4 DEF LifeCycleStep, InMemory!Next
    <2> QED
      BY <2>3, <2>4
  <1>8. CASE Enqueue(r) \/ QueueFailureRead(r) \/ EnqueueFails(r)
    BY <1>8 DEF Enqueue, QueueFailureRead, EnqueueFails, LifeCycleStep, InMemory!devVars
  <1> QED
    BY <1>1, <1>2, <1>3, <1>4, <1>5, <1>6, <1>7, <1>8 DEF RequestContinues

LEMMA RecordLifeCycle ==
    ASSUME TypeInv, ControlInv, NEW w \in Workers, RecordResult(w)
    PROVE  LifeCycleStep
  <1> USE DEF None
  <1>0. /\ op \in [status : OpStatuses, confirmedAt : BOOLEAN, rollbackLogged : BOOLEAN, manual : BOOLEAN]
        /\ items \in [Items -> Item] /\ runs \in [Workers -> Run]
        /\ \A i \in Items : Fits(i)
    BY DEF TypeInv, TypeOK, ControlInv, StatusesFit
  <1>1. AtWork(w) /\ Covers(w) /\ runs[w].pc = "commit"
    BY WorkingAlone DEF RecordResult, Working, ControlInv
  <1>2. /\ op.status = "RUNNING" /\ op'.rollbackLogged = op.rollbackLogged
        /\ op'.confirmedAt = op.confirmedAt /\ op'.status = FinalStatus(w)
        /\ runs[w].job = RetryMode
    BY <1>0, <1>1 DEF AtWork, RecordResult
  <1>3. CASE op.rollbackLogged
    BY <1>2, <1>3 DEF LifeCycleStep, RollbackCycle, FinalStatus, RetryMode
  <1>4. CASE ~op.rollbackLogged
    <2> DEFINE failed == {i \in Items : runs[w].results[i].status = "FAILED"}
    <2>1. \A i \in Items : items[i].status \in {None, "RUNNING", "COMPLETED"}
      BY <1>0, <1>2, <1>4 DEF Fits, Early
    <2>2. \A i \in Items : /\ items[i].status = "RUNNING" <=> runs[w].results[i].status # None
                           /\ runs[w].results[i].status \in {None, "COMPLETED", "FAILED"}
      BY <1>0, <1>1 DEF Covers, Run, Result, Results
    <2>3. failed \in SUBSET OpItems
      BY <2>2 DEF OpItems
    <2>4. \A i \in Items : items'[i].status = IF items[i].status = "RUNNING" THEN runs[w].results[i].status
                                              ELSE items[i].status
      <3>1. runs[w].job = "execute"
        BY <1>2, <1>4 DEF RetryMode
      <3>2. \A i \in Items : items'[i] = IF i \in Reported(w) THEN Recorded(w, i) ELSE items[i]
        BY DEF RecordResult
      <3>3. \A i \in Items : Recorded(w, i).status = runs[w].results[i].status
        BY <3>1 DEF Recorded, Row
      <3>4. \A i \in Items : i \in Reported(w) <=> items[i].status = "RUNNING"
        BY <2>2 DEF Reported
      <3> QED
        BY <3>2, <3>3, <3>4
    <2>5. \A i \in Items : items'[i].status = IF i \in failed THEN "FAILED"
                                              ELSE IF i \in OpItems THEN "COMPLETED" ELSE items[i].status
      BY <2>1, <2>2, <2>4 DEF OpItems
    <2>6. op'.status = IF failed # {} THEN "FAILED" ELSE "COMPLETED"
      BY <1>2, <1>4 DEF FinalStatus, RetryMode
    <2> HIDE DEF failed
    <2>7. InMemory!Finish
      BY <1>2, <2>3, <2>5, <2>6, Finished DEF Results
    <2> QED
      BY <1>2, <1>4, <2>7 DEF LifeCycleStep, InMemory!Next
  <1> QED
    BY <1>3, <1>4

LEMMA LifeCycleNext ==
    Sequential => (ConfirmedInv /\ ControlInv /\ [Next]_vars => LifeCycleStep)
  <1> SUFFICES ASSUME Sequential, ConfirmedInv, ControlInv, [Next]_vars
               PROVE  LifeCycleStep
    OBVIOUS
  <1>0. TypeInv
    BY DEF ConfirmedInv
  <1>1. ASSUME UNCHANGED <<op, items>>
        PROVE  LifeCycleStep
    BY <1>1 DEF LifeCycleStep, InMemory!devVars
  <1>2. CASE CreatePreview
    <2>1. op.status = "NONE" /\ op'.status = "PREVIEWED" /\ ~op'.rollbackLogged
          /\ op'.confirmedAt = op.confirmedAt
      BY <1>0, <1>2 DEF CreatePreview, TypeInv, TypeOK, ControlInv, StatusesFit, Early
    <2>2. PICK kept \in SUBSET Items :
              \A i \in Items : items'[i].status = IF i \in kept THEN "PREVIEWED" ELSE items[i].status
      BY <1>2 DEF CreatePreview
    <2>3. InMemory!CreatePreview
      <3> DEFINE before == [i \in Items |-> items[i].status]
                 after == [i \in Items |-> items'[i].status]
      <3>1. after = [i \in Items |-> IF i \in kept THEN "PREVIEWED" ELSE before[i]]
        BY <2>2
      <3> HIDE DEF before, after
      <3>2. PICK S \in SUBSET Items :
                after = [i \in Items |-> IF i \in S THEN "PREVIEWED" ELSE before[i]]
        BY <3>1
      <3> QED
        BY <2>1, <3>2 DEF InMemory!CreatePreview, InMemory!Move, before, after
    <2> QED
      BY <2>1, <2>3 DEF LifeCycleStep, InMemory!Next
  <1>3. ASSUME NEW r \in Reqs, RequestBegins(r)
        PROVE  LifeCycleStep
    BY <1>1, <1>3 DEF RequestBegins, DryRunRead, ConfirmRead, StartRead, FinishRead, RollbackRead,
                      RetryRead, Admit
  <1>4. ASSUME NEW w \in Workers, WorkerStep(w) \/ PluginStep(w) \/ CallLost(w)
        PROVE  LifeCycleStep
    <2>1. CASE RecordResult(w)
      BY <1>0, <2>1, RecordLifeCycle
    <2>2. CASE ~RecordResult(w)
      <3>1. UNCHANGED <<op, items>>
        BY <1>4, <2>2 DEF WorkerStep, PluginStep, CallLost, RejectJob, LoadJob, Respond, RecordRead,
                          RecordRefused, CompleteJob, ApplyItem, RefuseItem
      <3> QED
        BY <1>1, <3>1
    <2> QED
      BY <2>1, <2>2
  <1>5. CASE Fault
    <2>1. CASE \E r \in Reqs : EnqueueFails(r)
      BY <1>0, <2>1, RequestsLifeCycle
    <2>2. CASE \E w \in Workers : CallLost(w)
      BY <1>4, <2>2
    <2>3. CASE UNCHANGED <<op, items>>
      BY <1>1, <2>3
    <2> QED
      BY <1>0, <1>5, <2>1, <2>2, <2>3, FaultsLeft
  <1>6. CASE UNCHANGED vars
    BY <1>1, <1>6 DEF vars
  <1> QED
    BY <1>0, <1>2, <1>3, <1>4, <1>5, <1>6, RequestsLifeCycle DEF Next

\* Up to a rollback, what handlers, queue and worker do to the statuses is what
\* the in-memory repository does in one step per transition; from then on the
\* operation keeps to the life cycle and never leaves ROLLED_BACK.
THEOREM LifeCycleAlone == Sequential => (Spec => LifeCycleKept)
  <1> SUFFICES ASSUME Sequential
               PROVE  Spec => LifeCycleKept
    OBVIOUS
  <1>1. Init => InMemory!Init
    BY DEF Init, InMemory!Init, None
  <1>2. LifeCycleStep <=>
            [IF op'.rollbackLogged THEN <<op.status, op'.status>> \in RollbackCycle
             ELSE InMemory!Next]_(InMemory!devVars)
    BY DEF LifeCycleStep
  <1> QED
    BY <1>1, <1>2, ConfirmedInit, ConfirmedNext, ControlInit, ControlNext, LifeCycleNext, PTL
    DEF Spec, LifeCycleKept
=============================================================================
