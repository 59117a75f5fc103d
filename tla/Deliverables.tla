----------------------------- MODULE Deliverables -----------------------------
(***************************************************************************)
(* The weekly digest of one organization (apps/worker/src/deliverables).   *)
(* The scheduler adds one job per week under a deterministic id; a slot of *)
(* the worker that takes the job writes the DeliverableRun row, mails the  *)
(* members who want the digest one after the other, then those who want    *)
(* alerts if any task is overdue, and settles the row together with the    *)
(* notification.  Mail that was sent stays sent: an execution that fails   *)
(* or dies later is run again from the start, and only a row that is       *)
(* DELIVERED or SKIPPED keeps it from mailing again.                       *)
(*                                                                         *)
(* The status FAILED of the code is left out: it needs recipients, a       *)
(* transport and no mail sent, but then the first sendMail has thrown.     *)
(***************************************************************************)
EXTENDS JobQueue, Integers, FiniteSets

CONSTANTS
    Digests,        \* weeks that are reported on
    Members,        \* active members
    Slots           \* executions that may overlap

VARIABLES
    entitled,       \* input: the plan in force includes "recurringReports"
    overdue,        \* input: some task is past its due date
    smtp,           \* environment: SCCC_EMAIL_TRANSPORT is "smtp"
    wants,          \* what the preferences of each member allow
    due,            \* weeks that have ended
    jobs,           \* BullMQ job of each week
    rows,           \* DeliverableRun status of each week
    execs,          \* executions of digest jobs
    mailed,         \* digests sent to each member for each week
    notices         \* notifications of each week's digest

digestVars == <<smtp, wants, due, jobs, rows, execs, mailed, notices>>

Executions == Attempts + MaxStalls
Mails == {"digest", "alert"}
Statuses == {"none", "GENERATED", "DELIVERED", "SKIPPED"}

Exec == [pc: {"idle", "gather", "digest", "alert", "settle", "ack"}, digest: Digests, holds: BOOLEAN,
         recipients: SUBSET Members, left: SUBSET Members, alerted: SUBSET Members]
AnyDigest == CHOOSE d \in Digests : TRUE
NoExec == [pc |-> "idle", digest |-> AnyDigest, holds |-> FALSE, recipients |-> {}, left |-> {},
           alerted |-> {}]

DigestTypes ==
    /\ smtp \in BOOLEAN
    /\ wants \in [Members -> SUBSET Mails]
    /\ due \in SUBSET Digests
    /\ jobs \in [Digests -> Job]
    /\ rows \in [Digests -> Statuses]
    /\ execs \in [Slots -> Exec]
    /\ mailed \in [Digests -> [Members -> Nat]]
    /\ notices \in [Digests -> Nat]

Init ==
    /\ smtp \in BOOLEAN
    /\ wants = [m \in Members |-> Mails]
    /\ due = {}
    /\ jobs = [d \in Digests |-> NoJob]
    /\ rows = [d \in Digests |-> "none"]
    /\ execs = [s \in Slots |-> NoExec]
    /\ mailed = [d \in Digests |-> [m \in Members |-> 0]]
    /\ notices = [d \in Digests |-> 0]

Settled(d) == rows[d] \in {"DELIVERED", "SKIPPED"}

At(s, pc) == execs[s].pc = pc
Goto(s, pc) == execs' = [execs EXCEPT ![s].pc = pc]
Leave(s) == execs' = [execs EXCEPT ![s] = NoExec]
-----------------------------------------------------------------------------
(* createDeliverablesScheduleHandler; its own job may run more than once. *)
Schedule(d) ==
    /\ entitled /\ d \in due
    /\ jobs' = [jobs EXCEPT ![d] = Add(@)]
    /\ UNCHANGED <<smtp, wants, due, rows, execs, mailed, notices>>

(* A slot takes the job, and buildLiveWorkspaceDigestDeps.run returns at once for a   *)
(* plan without reports or a digest that is settled.                                  *)
Dismiss(s, d) ==
    /\ At(s, "idle") /\ jobs[d].state = "waiting"
    /\ ~entitled \/ Settled(d)
    /\ jobs' = [jobs EXCEPT ![d] = Take(@)]
    /\ execs' = [execs EXCEPT ![s] = [NoExec EXCEPT !.pc = "ack", !.digest = d, !.holds = TRUE]]
    /\ UNCHANGED <<smtp, wants, due, rows, mailed, notices>>

StartAnyway(s, d) ==                            \* mutant: the row is not looked at
    /\ At(s, "idle") /\ jobs[d].state = "waiting"
    /\ entitled
    /\ jobs' = [jobs EXCEPT ![d] = Take(@)]
    /\ execs' = [execs EXCEPT ![s] = [NoExec EXCEPT !.pc = "gather", !.digest = d, !.holds = TRUE]]
    /\ UNCHANGED <<smtp, wants, due, rows, mailed, notices>>

Start(s, d) ==
    /\ At(s, "idle") /\ jobs[d].state = "waiting"
    /\ entitled /\ ~Settled(d)
    /\ jobs' = [jobs EXCEPT ![d] = Take(@)]
    /\ execs' = [execs EXCEPT ![s] = [NoExec EXCEPT !.pc = "gather", !.digest = d, !.holds = TRUE]]
    /\ UNCHANGED <<smtp, wants, due, rows, mailed, notices>>

(* Members, preferences and tasks are read and the row is upserted, whatever it says. *)
Gather(s) ==
    LET Wanting(mail) == {m \in Members : mail \in wants[m]}
    IN  /\ At(s, "gather")
        /\ execs' = [execs EXCEPT ![s] =
              [@ EXCEPT !.pc = "digest", !.recipients = Wanting("digest"),
                        !.left = IF smtp THEN Wanting("digest") ELSE {},
                        !.alerted = IF smtp /\ overdue THEN Wanting("alert") ELSE {}]]
        /\ rows' = [rows EXCEPT ![execs[s].digest] = "GENERATED"]
        /\ UNCHANGED <<smtp, wants, due, jobs, mailed, notices>>

SendDigest(s) ==
    LET d == execs[s].digest
    IN  /\ At(s, "digest")
        /\ \E m \in execs[s].left :
              /\ mailed' = [mailed EXCEPT ![d][m] = @ + 1]
              /\ execs' = [execs EXCEPT ![s].left = @ \ {m}]
        /\ UNCHANGED <<smtp, wants, due, jobs, rows, notices>>

DigestSent(s) ==
    /\ At(s, "digest") /\ execs[s].left = {}
    /\ Goto(s, "alert")
    /\ UNCHANGED <<smtp, wants, due, jobs, rows, mailed, notices>>

AlertsSent(s) ==
    /\ At(s, "alert")
    /\ Goto(s, "settle")
    /\ UNCHANGED <<smtp, wants, due, jobs, rows, mailed, notices>>

(* Row and notifications are one transaction. *)
Settle(s) ==
    LET d == execs[s].digest
        skipped == ~smtp \/ execs[s].recipients = {}
    IN  /\ At(s, "settle")
        /\ rows' = [rows EXCEPT ![d] = IF skipped THEN "SKIPPED" ELSE "DELIVERED"]
        /\ notices' = [notices EXCEPT ![d] = @ + 1]
        /\ Goto(s, "ack")
        /\ UNCHANGED <<smtp, wants, due, jobs, mailed>>

Done(s) ==
    LET d == execs[s].digest
    IN  /\ At(s, "ack")
        /\ jobs' = IF execs[s].holds THEN [jobs EXCEPT ![d] = Finish(@)] ELSE jobs
        /\ Leave(s)
        /\ UNCHANGED <<smtp, wants, due, rows, mailed, notices>>

(* A read, a mail or a transaction fails. *)
MayThrow(s) ==
    \/ At(s, "gather") \/ At(s, "settle")
    \/ At(s, "digest") /\ execs[s].left # {}
    \/ At(s, "alert") /\ execs[s].alerted # {}

Throws(s) ==
    LET d == execs[s].digest
    IN  /\ MayThrow(s)
        /\ jobs' = IF execs[s].holds THEN [jobs EXCEPT ![d] = Throw(@)] ELSE jobs
        /\ Leave(s)
        /\ UNCHANGED <<smtp, wants, due, rows, mailed, notices>>

(* The worker dies, or stops renewing the lock and goes on without it. *)
Dies(s) ==
    LET d == execs[s].digest
    IN  /\ execs[s].pc # "idle"
        /\ jobs' = IF execs[s].holds THEN [jobs EXCEPT ![d] = Stall(@)] ELSE jobs
        /\ Leave(s)
        /\ UNCHANGED <<smtp, wants, due, rows, mailed, notices>>

LosesLock(s) ==
    LET d == execs[s].digest
    IN  /\ execs[s].pc # "idle" /\ execs[s].holds
        /\ jobs' = [jobs EXCEPT ![d] = Stall(@)]
        /\ execs' = [execs EXCEPT ![s].holds = FALSE]
        /\ UNCHANGED <<smtp, wants, due, rows, mailed, notices>>

WeekEnds(d) ==
    /\ d \notin due
    /\ due' = due \cup {d}
    /\ UNCHANGED <<smtp, wants, jobs, rows, execs, mailed, notices>>

(* updateDeliveryPreference *)
Prefer(m, mails) ==
    /\ mails # wants[m]
    /\ wants' = [wants EXCEPT ![m] = mails]
    /\ UNCHANGED <<smtp, due, jobs, rows, execs, mailed, notices>>

DigestStep ==
    \/ \E d \in Digests : Schedule(d) \/ WeekEnds(d)
    \/ \E s \in Slots : \/ \E d \in Digests : Dismiss(s, d) \/ Start(s, d)
                        \/ Gather(s) \/ SendDigest(s) \/ DigestSent(s) \/ AlertsSent(s)
                        \/ Settle(s) \/ Done(s) \/ Throws(s) \/ Dies(s)
=============================================================================
