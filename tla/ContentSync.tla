------------------------------ MODULE ContentSync ------------------------------
(***************************************************************************)
(* The copy of a site's content that the SaaS keeps: the plugin sends all  *)
(* posts in batches, in the order of their ids and by offset               *)
(* (SyncScheduler::runSync, ContentCollector::collectBatch), and the SaaS  *)
(* takes each batch over in one transaction (acceptPluginSyncBatch).  A    *)
(* manual and a recurring run may overlap, posts change while they run,    *)
(* and nothing is ever removed from the copy.                              *)
(***************************************************************************)
EXTENDS Integers, FiniteSets, Functions

CONSTANTS
    Posts,          \* ids of posts, numbers
    Runs,           \* sync runs that may overlap
    BatchSize,      \* ContentCollector::BATCH_SIZE
    MaxBatches,     \* MAX_SYNC_BATCHES
    MaxEdits        \* bound: edits of all posts together

VARIABLES
    post,           \* each post in WordPress
    rows,           \* SyncedContentItem row of each post, rev 0 when there is none
    runs,           \* sync runs; `stable' is history: posts the run could not miss
    token,          \* the token the plugin has stored, 0 when it is not connected
    pageLimit,      \* urlsPerSite of the plan, 0 when the organization is read-only
    accepted,       \* the token the SaaS lets through, 0 when there is none
    findings        \* findingsForSync: evidence of the posts a completed audit has seen

syncVars == <<post, rows, runs>>

Kinds == {"none", "draft", "good", "bad"}       \* "bad": published, and an audit finds something

(* What the SaaS knows from the audit with that number; from none when it is 0. *)
Evidence == [audit: Nat, bad: BOOLEAN]
NoEvidence == [audit |-> 0, bad |-> FALSE]

Row == [rev: Nat, evidence: Evidence]
NoRow == [rev |-> 0, evidence |-> NoEvidence]

(* What a batch says of a post; without findings when the audit has none. *)
Item == [rev: Nat, findings: BOOLEAN, evidence: Evidence]
Absent == [rev |-> 0, findings |-> FALSE, evidence |-> NoEvidence]

Run == [pc: {"idle", "collect", "send", "accept", "write"},
        token: Nat, offset: Nat, more: BOOLEAN,
        findings: UNION {[S -> Evidence] : S \in SUBSET Posts},  \* as they were at the start
        batch: [Posts -> Item],
        stable: SUBSET Posts]

NoFindings == [p \in {} |-> NoEvidence]
NoBatch == [p \in Posts |-> Absent]
NotSyncing == [pc |-> "idle", token |-> 0, offset |-> 0, more |-> FALSE, findings |-> NoFindings,
               batch |-> NoBatch, stable |-> {}]

SyncTypes ==
    /\ post \in [Posts -> [kind: Kinds, rev: Nat]]
    /\ rows \in [Posts -> Row]
    /\ \A r \in Runs : \A p \in Posts : runs[r].batch[p].rev \in Nat
    /\ \A r \in Runs : DOMAIN runs[r].findings \subseteq Posts /\ runs[r].stable \subseteq Posts

Init ==
    /\ post \in [Posts -> {[kind |-> "none", rev |-> 0]} \cup [kind: Kinds \ {"none"}, rev: {1}]]
    /\ rows = [p \in Posts |-> NoRow]
    /\ runs = [r \in Runs |-> NotSyncing]

BusySyncing == {r \in Runs : runs[r].pc # "idle"}
Existing == {p \in Posts : post[p].kind # "none"}
Edits == FoldFunction(LAMBDA state, sum : state.rev + sum, 0, post)

(* The position of a post in the order in which posts are collected. *)
Position(p) == Cardinality({q \in Existing : q < p})

-----------------------------------------------------------------------------
(* WordPress *)

(***************************************************************************)
(* An author creates, edits, publishes, trashes or restores a post.  A run *)
(* under way may miss the post, and when the posts before shift, also      *)
(* those after it.                                                         *)
(***************************************************************************)
EditPost(p, kind) ==
    /\ kind # "none" \/ post[p].kind # "none"
    /\ post' = [post EXCEPT ![p] = [kind |-> kind, rev |-> @.rev + 1]]
    /\ runs' = [r \in Runs |->
           [runs[r] EXCEPT !.stable = IF (kind = "none") # (post[p].kind = "none")
                                        THEN {q \in @ : q < p} ELSE @ \ {p}]]
    /\ UNCHANGED rows

RunStart(r) ==
    /\ runs[r].pc = "idle" /\ token # 0
    /\ runs' = [runs EXCEPT ![r] = [NotSyncing EXCEPT !.pc = "collect", !.token = token,
                                        !.findings = findings, !.stable = Existing]]
    /\ UNCHANGED <<post, rows>>

(* collectBatch, and the findings attached to the posts they name. *)
Page(offset) == {p \in Existing : Position(p) \in offset..(offset + BatchSize - 1)}

BatchOf(r) ==
    [p \in Posts |->
        IF p \notin Page(runs[r].offset) THEN Absent
        ELSE IF p \in DOMAIN runs[r].findings
               THEN [rev |-> post[p].rev, findings |-> TRUE, evidence |-> runs[r].findings[p]]
               ELSE [rev |-> post[p].rev, findings |-> FALSE, evidence |-> NoEvidence]]

Collect(r) ==
    /\ runs[r].pc = "collect"
    /\ runs' = IF Page(runs[r].offset) = {}
                 THEN [runs EXCEPT ![r] = NotSyncing]
                 ELSE [runs EXCEPT ![r].pc = "send", ![r].batch = BatchOf(r),
                                   ![r].more = Cardinality(Page(runs[r].offset)) = BatchSize]
    /\ UNCHANGED <<post, rows>>

-----------------------------------------------------------------------------
(* SaaS *)

BatchAuthenticated(r) ==
    /\ runs[r].pc = "send" /\ runs[r].token = accepted
    /\ runs' = [runs EXCEPT ![r].pc = "accept"]
    /\ UNCHANGED <<post, rows>>

Held == {p \in Posts : rows[p].rev # 0}
Incoming(r) == {p \in Posts : runs[r].batch[p].rev # 0}

CountsOnlyHeld(r) ==                            \* mutant: the batch itself is not counted
    /\ runs[r].pc = "accept"
    /\ Cardinality(Held) <= pageLimit
    /\ runs' = [runs EXCEPT ![r].pc = "write"]
    /\ UNCHANGED <<post, rows>>

(* assertSyncedUrlCapacity: a batch that does not fit is refused as a whole. *)
CapacityRead(r) ==
    /\ runs[r].pc = "accept"
    /\ Cardinality(Held \cup Incoming(r)) <= pageLimit
    /\ runs' = [runs EXCEPT ![r].pc = "write"]
    /\ UNCHANGED <<post, rows>>

UpsertForgets(row, item) ==                     \* mutant: an item without findings clears the evidence
    [rev |-> item.rev, evidence |-> item.evidence]

(* preserveAcceptedLocalFindings: an item without findings keeps the evidence. *)
Upsert(row, item) ==
    [rev |-> item.rev, evidence |-> IF item.findings THEN item.evidence ELSE row.evidence]

NextOffset(r) == runs[r].offset + BatchSize

FirstBatchOnly(r) == NextOffset(r) >= BatchSize     \* mutant: hasMore is not looked at

(* The batch is taken over; the answer lets the run go on, or end as a success. *)
LastBatch(r) == ~runs[r].more \/ NextOffset(r) >= MaxBatches * BatchSize

AcceptWrite(r) ==
    /\ runs[r].pc = "write"
    /\ rows' = [p \in Posts |-> IF p \in Incoming(r) THEN Upsert(rows[p], runs[r].batch[p]) ELSE rows[p]]
    /\ runs' = IF LastBatch(r) THEN [runs EXCEPT ![r] = NotSyncing]
               ELSE [runs EXCEPT ![r].pc = "collect", ![r].offset = NextOffset(r), ![r].batch = NoBatch]
    /\ UNCHANGED post

(* Any answer but 200: recordFailure, and the run is over. *)
Refused(r) ==
    /\ \/ runs[r].pc = "send" /\ runs[r].token # accepted
       \/ runs[r].pc = "accept" /\ Cardinality(Held \cup Incoming(r)) > pageLimit
    /\ runs' = [runs EXCEPT ![r] = NotSyncing]
    /\ UNCHANGED <<post, rows>>

(***************************************************************************)
(* A request is lost, before or after its batch was taken over, or the     *)
(* run's process is killed.  A request that the plugin gave up on while it *)
(* is still being handled is another run of this model.                    *)
(***************************************************************************)
RunLost(r) ==
    /\ runs[r].pc # "idle"
    /\ runs' = [runs EXCEPT ![r] = NotSyncing]
    /\ UNCHANGED <<post, rows>>

Author == \E p \in Posts, kind \in Kinds : EditPost(p, kind) /\ Edits < MaxEdits

(* What a run does by itself, apart from having its batch taken over. *)
RunStep(r) == Collect(r) \/ BatchAuthenticated(r) \/ CapacityRead(r) \/ Refused(r)

Next ==
    /\ \/ Author
       \/ \E r \in Runs : RunStart(r) \/ RunStep(r) \/ AcceptWrite(r) \/ RunLost(r)
    /\ UNCHANGED <<token, pageLimit, accepted, findings>>

Spec == Init /\ [][Next]_<<syncVars, token, pageLimit, accepted, findings>>
=============================================================================
