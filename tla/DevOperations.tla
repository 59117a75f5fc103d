---------------------------- MODULE DevOperations ----------------------------
(***************************************************************************)
(* One safe operation and its approval links in the in-memory repository   *)
(* (dev-store.ts).  Nothing waits between a check and the write it allows, *)
(* and there is no queue and no worker: a result is entered, and a         *)
(* rollback takes everything back, in one step.  Up to its rollback it is  *)
(* what SafeOperation implements, and its links are what OperationApproval *)
(* implements, while requests do not meet.                                 *)
(***************************************************************************)
CONSTANTS
    Items,      \* tasks selected for the operation
    Links       \* approval links that may be mailed

VARIABLES
    operation,  \* its status, and whether confirmedAt is set
    rows,       \* status of each item, "NONE" for a task the preview dropped
    links       \* status of each approval, "NONE" before it is mailed, and whether it is overdue

devVars == <<operation, rows, links>>

Unsent == [status |-> "NONE", overdue |-> FALSE]

Init ==
    /\ operation = [status |-> "NONE", confirmedAt |-> FALSE]
    /\ rows = [i \in Items |-> "NONE"]
    /\ links = [t \in Links |-> Unsent]

OpItems == {i \in Items : rows[i] # "NONE"}
ItemsIn(status) == {i \in Items : rows[i] = status}

(* A transition moves the operation, and the items S with it. *)
Move(status, S) ==
    /\ operation' = [operation EXCEPT !.status = status]
    /\ rows' = [i \in Items |-> IF i \in S THEN status ELSE rows[i]]

CreatePreview ==
    /\ operation.status = "NONE"
    /\ \E kept \in SUBSET Items : Move("PREVIEWED", kept)
    /\ UNCHANGED links

RunDryRun ==
    /\ operation.status = "PREVIEWED"
    /\ Move("DRY_RUN_PASSED", OpItems)
    /\ UNCHANGED links

(* What confirming does, through the workspace or through a link. *)
Confirmed ==
    /\ operation' = [status |-> "CONFIRMED", confirmedAt |-> TRUE]
    /\ rows' = [i \in Items |-> IF i \in OpItems THEN "CONFIRMED" ELSE rows[i]]

Confirm ==
    /\ operation.status = "DRY_RUN_PASSED"
    /\ Confirmed
    /\ UNCHANGED links

Start ==
    /\ operation.status = "CONFIRMED"
    /\ Move("RUNNING", OpItems)
    /\ UNCHANGED links

(* Every item takes its own result, or else the one given for all. *)
Finish ==
    /\ operation.status = "RUNNING"
    /\ \E failed \in SUBSET OpItems, status \in {"COMPLETED", "FAILED"} :
          /\ failed # {} => status = "FAILED"
          /\ operation' = [operation EXCEPT !.status = status]
          /\ rows' = [i \in Items |-> IF i \in failed THEN "FAILED"
                                      ELSE IF i \in OpItems THEN "COMPLETED" ELSE rows[i]]
    /\ UNCHANGED links

RollBack ==
    /\ operation.status \in {"COMPLETED", "FAILED"}
    /\ Move("ROLLED_BACK", OpItems)
    /\ UNCHANGED links

Retry ==
    /\ operation.status = "FAILED" /\ ItemsIn("FAILED") # {}
    /\ Move("RUNNING", ItemsIn("FAILED"))
    /\ UNCHANGED links
-----------------------------------------------------------------------------
(* A new link takes every open one out of use. *)
RequestApproval(t) ==
    /\ operation.status = "DRY_RUN_PASSED" /\ links[t].status = "NONE"
    /\ links' = [u \in Links |-> IF u = t THEN [links[u] EXCEPT !.status = "PENDING"]
                                 ELSE IF links[u].status = "PENDING"
                                      THEN [links[u] EXCEPT !.status = "EXPIRED"]
                                 ELSE links[u]]
    /\ UNCHANGED <<operation, rows>>

Respond(t, decision) ==
    /\ links[t].status = "PENDING" /\ ~links[t].overdue
    /\ operation.status = "DRY_RUN_PASSED"
    /\ IF decision = "APPROVED" THEN Confirmed ELSE UNCHANGED <<operation, rows>>
    /\ links' = [links EXCEPT ![t].status = decision]

RespondLate(t) ==
    /\ links[t].status = "PENDING" /\ links[t].overdue
    /\ links' = [links EXCEPT ![t].status = "EXPIRED"]
    /\ UNCHANGED <<operation, rows>>

(* Seven days pass. *)
Lapse(t) ==
    /\ links[t].status # "NONE" /\ ~links[t].overdue
    /\ links' = [links EXCEPT ![t].overdue = TRUE]
    /\ UNCHANGED <<operation, rows>>

Next ==
    \/ CreatePreview \/ RunDryRun \/ Confirm \/ Start \/ Finish \/ RollBack \/ Retry
    \/ \E t \in Links : \/ RequestApproval(t) \/ RespondLate(t) \/ Lapse(t)
                        \/ \E decision \in {"APPROVED", "DECLINED"} : Respond(t, decision)

Spec == Init /\ [][Next]_devVars
=============================================================================
