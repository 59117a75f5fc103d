---------------------------- MODULE ReportsProofs ----------------------------
(***************************************************************************)
(* What holds of an organization's reports for any numbers of properties,  *)
(* weeks, syncs, findings, requests, members and executions of digests:    *)
(* the types; that what is stored is never replaced by what is older; that *)
(* tasks, decisions and baselines are kept; how often a digest is mailed;  *)
(* and, where requests do not meet, that the whole does what the in-memory *)
(* repository does.                                                        *)
(***************************************************************************)
EXTENDS Reports, FiniteSetTheorems, FunctionTheorems, SequenceTheorems, NaturalsInduction, WellFoundedInduction, TLAPS

-----------------------------------------------------------------------------
(* Numbers and lists *)

(* A non-empty set of numbers has a least one; what holds of 0 and of every *)
(* next number holds of all.                                                *)
LEMMA LeastOne ==
    ASSUME NEW Good \in SUBSET Nat, Good # {}
    PROVE  \E k \in Good : \A j \in Good : k <= j
<1>1. \E k \in Good : \A j \in Good : ~ (<<j, k>> \in OpToRel(<, Nat))
    BY NatLessThanWellFounded, WFMin
<1>2. OpToRel(<, Nat) = {ss \in Nat \X Nat : ss[1] < ss[2]}
    BY DEF OpToRel
<1>3. PICK k \in Good : \A j \in Good : ~ (<<j, k>> \in {ss \in Nat \X Nat : ss[1] < ss[2]})
    BY <1>1, <1>2
<1>4. ASSUME NEW j \in Good PROVE k <= j
    <2>1. j \in Nat /\ k \in Nat /\ <<j, k>> \in Nat \X Nat
        OBVIOUS
    <2>2. ~ (j < k)
        BY <1>3, <2>1
    <2> QED BY <2>1, <2>2
<1> QED BY <1>4

LEMMA OneAfterTheOther ==
    ASSUME NEW Good, 0 \in Good, \A n \in Nat : n \in Good => n + 1 \in Good
    PROVE  Nat \subseteq Good
<1> SUFFICES ASSUME Nat \ Good # {} PROVE FALSE
    OBVIOUS
<1>1. PICK k \in Nat \ Good : \A j \in Nat \ Good : k <= j
    BY LeastOne
<1>2. k # 0 /\ k - 1 \in Nat
    BY <1>1
<1>3. k - 1 \in Good
    BY <1>1, <1>2
<1> QED BY <1>1, <1>2, <1>3

(* The recursive definition of a list without some rows is one: a function *)
(* on all numbers meets it.                                                *)
Keep(x, row, gone) == IF row \in gone THEN x ELSE Append(x, row)
Kept(list, gone) == CHOOSE f : f = [i \in Nat |-> IF i = 0 THEN <<>> ELSE Keep(f[i - 1], list[i], gone)]

LEMMA KeptUnfolds ==
    ASSUME NEW list, NEW gone
    PROVE  Kept(list, gone) = [i \in Nat |->
              IF i = 0 THEN <<>> ELSE Keep(Kept(list, gone)[i - 1], list[i], gone)]
<1> DEFINE Step(f, n) == IF n = 0 THEN <<>> ELSE Keep(f[n - 1], list[n], gone)
           Meets(n, g) == g = [i \in 0 .. n |-> Step(g, i)]
<1>0. Kept(list, gone) = CHOOSE f : f = [n \in Nat |-> Step(f, n)]
    BY DEF Kept
<1>1. \A n \in Nat : \E g : Meets(n, g)
    <2> DEFINE Good == {n \in Nat : \E g : Meets(n, g)}
    <2>1. 0 \in Good
        <3>1. Meets(0, [i \in 0 .. 0 |-> <<>>])
            OBVIOUS
        <3> QED BY <3>1
    <2>2. ASSUME NEW n \in Nat, n \in Good PROVE n + 1 \in Good
        <3>1. PICK g : Meets(n, g)
            BY <2>2
        <3> DEFINE h == [i \in 0 .. n + 1 |-> IF i = n + 1 THEN Step(g, i) ELSE g[i]]
        <3>2. ASSUME NEW i \in 0 .. n + 1 PROVE h[i] = Step(h, i)
            <4>1. CASE i = 0
                BY <3>1, <4>1
            <4>2. CASE i # 0
                <5>1. i - 1 \in 0 .. n /\ i - 1 # n + 1 /\ i - 1 \in 0 .. n + 1
                    BY <4>2
                <5>2. h[i - 1] = g[i - 1]
                    BY <5>1
                <5>3. h[i] = Step(g, i)
                    BY <3>1
                <5> QED BY <5>2, <5>3, <4>2
            <4> QED BY <4>1, <4>2
        <3>3. DOMAIN h = 0 .. n + 1
            OBVIOUS
        <3>4. h = [i \in 0 .. n + 1 |-> h[i]]
            OBVIOUS
        <3> HIDE DEF h
        <3>5. Meets(n + 1, h)
            BY <3>2, <3>4
        <3> QED BY <3>5
    <2> HIDE DEF Good
    <2>3. Nat \subseteq Good
        BY <2>1, <2>2, OneAfterTheOther
    <2> QED BY <2>3 DEF Good
<1>2. ASSUME NEW n \in Nat, NEW m \in Nat, n <= m, NEW g, Meets(n, g), NEW h, Meets(m, h)
      PROVE  \A i \in 0 .. n : g[i] = h[i]
    <2> DEFINE Good == {i \in Nat : i <= n => g[i] = h[i]}
    <2>1. 0 \in Good
        BY <1>2
    <2>2. ASSUME NEW i \in Nat, i \in Good PROVE i + 1 \in Good
        <3> SUFFICES ASSUME i + 1 <= n PROVE g[i + 1] = h[i + 1]
            OBVIOUS
        <3>1. g[i] = h[i] /\ i + 1 \in 0 .. n /\ i + 1 \in 0 .. m /\ (i + 1) - 1 = i
            BY <1>2, <2>2
        <3>2. g[i + 1] = Step(g, i + 1) /\ h[i + 1] = Step(h, i + 1)
            BY <1>2, <3>1
        <3> QED BY <3>1, <3>2
    <2> HIDE DEF Good
    <2>3. Nat \subseteq Good
        BY <2>1, <2>2, OneAfterTheOther
    <2> QED BY <2>3 DEF Good
<1> DEFINE Part(n) == CHOOSE g : Meets(n, g)
           whole == [n \in Nat |-> Part(n)[n]]
<1>3. \A n \in Nat : Meets(n, Part(n))
    BY <1>1
<1> HIDE DEF Part
<1>4. ASSUME NEW n \in Nat PROVE whole[n] = Step(whole, n)
    <2>1. Part(n)[n] = Step(Part(n), n)
        BY <1>3
    <2>2. CASE n = 0
        BY <2>1, <2>2
    <2>3. CASE n # 0
        <3>1. n - 1 \in Nat /\ n - 1 <= n /\ n - 1 \in 0 .. n - 1
            BY <2>3
        <3>2. Meets(n - 1, Part(n - 1)) /\ Meets(n, Part(n))
            BY <1>3, <3>1
        <3> HIDE DEF Meets
        <3>3. Part(n - 1)[n - 1] = Part(n)[n - 1]
            BY <1>2, <3>1, <3>2
        <3> QED BY <2>1, <2>3, <3>1, <3>3
    <2> QED BY <2>2, <2>3
<1>5. whole = [n \in Nat |-> whole[n]]
    OBVIOUS
<1> HIDE DEF whole
<1>6. whole = [n \in Nat |-> Step(whole, n)]
    BY <1>4, <1>5
<1>7. Kept(list, gone) = [n \in Nat |-> Step(Kept(list, gone), n)]
    BY <1>0, <1>6
<1> QED BY <1>7

LEMMA WithoutAt ==
    ASSUME NEW list, NEW gone
    PROVE  /\ S!Without(list, gone) = Kept(list, gone)[Len(list)]
           /\ \A i \in Nat : Kept(list, gone)[i] = IF i = 0 THEN <<>> ELSE Keep(Kept(list, gone)[i - 1], list[i], gone)
<1> DEFINE F == Kept(list, gone)
<1>1. F = [i \in Nat |-> IF i = 0 THEN <<>> ELSE Keep(F[i - 1], list[i], gone)]
    BY KeptUnfolds
<1>2. S!Without(list, gone) = F[Len(list)]
    BY DEF S!Without, Kept, Keep
<1> HIDE DEF F
<1>3. \A i \in Nat : F[i] = IF i = 0 THEN <<>> ELSE Keep(F[i - 1], list[i], gone)
    BY <1>1
<1> QED BY <1>2, <1>3 DEF F

(* What is left of a list are its other rows, and each of them once for each time it was there. *)
LEMMA WithoutKeeps ==
    ASSUME NEW T, NEW list \in Seq(T), NEW gone
    PROVE  LET left == S!Without(list, gone)
           IN  /\ left \in Seq(T)
               /\ ToSet(left) = ToSet(list) \ gone
               /\ \E at \in [DOMAIN left -> DOMAIN list] :
                     /\ \A k, l \in DOMAIN left : at[k] = at[l] => k = l
                     /\ \A k \in DOMAIN left : left[k] = list[at[k]]
<1> DEFINE f == Kept(list, gone)
           n == Len(list)
           Of(x, i) == /\ x \in Seq(T)
                       /\ \A j \in 1 .. i : list[j] \notin gone => \E k \in 1 .. Len(x) : x[k] = list[j]
                       /\ \E at \in [1 .. Len(x) -> 1 .. i] :
                             /\ \A k, l \in 1 .. Len(x) : at[k] = at[l] => k = l
                             /\ \A k \in 1 .. Len(x) : x[k] = list[at[k]] /\ x[k] \notin gone
           I == {i \in Nat : i <= n => Of(f[i], i)}
<1>1. /\ S!Without(list, gone) = f[n]
      /\ \A i \in Nat : f[i] = IF i = 0 THEN <<>> ELSE Keep(f[i - 1], list[i], gone)
    BY WithoutAt
<1>2. n \in Nat /\ DOMAIN list = 1 .. n /\ \A i \in 1 .. n : list[i] \in T
    BY LenProperties, ElementOfSeq
<1> HIDE DEF f, n
<1>3. 0 \in I
    <2>1. f[0] = <<>> /\ <<>> \in Seq(T) /\ Len(<<>>) = 0 /\ 1 .. 0 = {}
        BY <1>1
    <2>2. \A k \in 1 .. 0 : FALSE
        OBVIOUS
    <2>3. [k \in 1 .. 0 |-> k] \in [1 .. 0 -> 1 .. 0]
        OBVIOUS
    <2>4. Of(<<>>, 0)
        BY <2>1, <2>2, <2>3
    <2> HIDE DEF Of
    <2> QED BY <2>1, <2>4
<1> HIDE DEF Of
<1>4. ASSUME NEW i \in Nat, i \in I PROVE i + 1 \in I
    <2> SUFFICES ASSUME i + 1 <= n PROVE Of(f[i + 1], i + 1)
        OBVIOUS
    <2> DEFINE x == f[i]
               row == list[i + 1]
    <2>1. Of(x, i)
        BY <1>2, <1>4
    <2>2. i + 1 \in 1 .. n /\ row \in T /\ 1 .. i \subseteq 1 .. i + 1 /\ i + 1 \in 1 .. i + 1
        BY <1>2
    <2>3. f[i + 1] = Keep(x, row, gone)
        BY <1>1
    <2> HIDE DEF x, row
    <2>4. PICK at \in [1 .. Len(x) -> 1 .. i] :
             /\ \A k, l \in 1 .. Len(x) : at[k] = at[l] => k = l
             /\ \A k \in 1 .. Len(x) : x[k] = list[at[k]] /\ x[k] \notin gone
        BY <2>1 DEF Of
    <2>5. \A j \in 1 .. i + 1 : j \in 1 .. i \/ j = i + 1
        OBVIOUS
    <2>6. CASE row \in gone
        <3>1. f[i + 1] = x
            BY <2>3, <2>6 DEF Keep
        <3>2. \A j \in 1 .. i + 1 : list[j] \notin gone => \E k \in 1 .. Len(x) : x[k] = list[j]
            BY <2>1, <2>5, <2>6 DEF row, Of
        <3>3. at \in [1 .. Len(x) -> 1 .. i + 1]
            BY <2>2
        <3>4. Of(x, i + 1)
            BY <2>1, <2>4, <3>2, <3>3 DEF Of
        <3> QED BY <3>1, <3>4
    <2>7. CASE row \notin gone
        <3> DEFINE y == Append(x, row)
                   m == Len(x)
                   to == [k \in 1 .. m + 1 |-> IF k = m + 1 THEN i + 1 ELSE at[k]]
        <3>1. f[i + 1] = y
            BY <2>3, <2>7 DEF Keep
        <3>2. /\ y \in Seq(T) /\ Len(y) = m + 1 /\ m \in Nat /\ y[m + 1] = row
              /\ \A k \in 1 .. m : y[k] = x[k]
            BY <2>1, <2>2, AppendProperties DEF Of
        <3>3. \A k \in 1 .. m + 1 : k \in 1 .. m \/ k = m + 1
            BY <3>2
        <3>31. \A k \in 1 .. m : k \in 1 .. m + 1 /\ k # m + 1
            BY <3>2
        <3>32. m + 1 \in 1 .. m + 1
            BY <3>2
        <3> HIDE DEF y, m
        <3>4. ASSUME NEW j \in 1 .. i + 1, list[j] \notin gone PROVE \E k \in 1 .. m + 1 : y[k] = list[j]
            <4>1. CASE j \in 1 .. i
                <5>1. PICK k \in 1 .. m : x[k] = list[j]
                    BY <2>1, <3>4, <4>1 DEF m, Of
                <5> QED BY <3>2, <3>31, <5>1
            <4>2. CASE j = i + 1
                BY <3>2, <3>32, <4>2 DEF row
            <4> QED BY <2>5, <4>1, <4>2
        <3>5. /\ to \in [1 .. m + 1 -> 1 .. i + 1] /\ to[m + 1] = i + 1
              /\ \A k \in 1 .. m : to[k] = at[k] /\ to[k] \in 1 .. i
            BY <2>2, <2>4, <3>3, <3>31, <3>32 DEF m
        <3> HIDE DEF to
        <3>6. \A k, l \in 1 .. m + 1 : to[k] = to[l] => k = l
            <4>1. i + 1 \notin 1 .. i
                OBVIOUS
            <4> QED BY <2>4, <3>3, <3>5, <4>1 DEF m
        <3>7. \A k \in 1 .. m + 1 : y[k] = list[to[k]] /\ y[k] \notin gone
            BY <2>4, <2>7, <3>2, <3>3, <3>5 DEF row, m
        <3>8. \E t \in [1 .. m + 1 -> 1 .. i + 1] : /\ \A k, l \in 1 .. m + 1 : t[k] = t[l] => k = l
                                                  /\ \A k \in 1 .. m + 1 : y[k] = list[t[k]] /\ y[k] \notin gone
            BY <3>5, <3>6, <3>7
        <3>9. Of(y, i + 1)
            <4>1. \A j \in 1 .. i + 1 : list[j] \notin gone => \E k \in 1 .. Len(y) : y[k] = list[j]
                BY <3>2, <3>4
            <4>2. \E t \in [1 .. Len(y) -> 1 .. i + 1] : /\ \A k, l \in 1 .. Len(y) : t[k] = t[l] => k = l
                                                       /\ \A k \in 1 .. Len(y) : y[k] = list[t[k]] /\ y[k] \notin gone
                <5> DEFINE Places == 1 .. m + 1
                <5>1. 1 .. Len(y) = Places
                    BY <3>2
                <5>2. \E t \in [Places -> 1 .. i + 1] : /\ \A k, l \in Places : t[k] = t[l] => k = l
                                                 /\ \A k \in Places : y[k] = list[t[k]] /\ y[k] \notin gone
                    BY <3>8
                <5> HIDE DEF Places
                <5> QED BY <5>1, <5>2
            <4> QED BY <3>2, <4>1, <4>2 DEF Of
        <3> QED BY <3>1, <3>9
    <2> QED BY <2>6, <2>7
<1> HIDE DEF I
<1>5. Nat \subseteq I
    BY <1>3, <1>4, OneAfterTheOther
<1>6. Of(f[n], n)
    BY <1>2, <1>5 DEF I
<1> DEFINE left == f[n]
<1>7. DOMAIN left = 1 .. Len(left)
    BY <1>6, LenProperties DEF Of
<1> HIDE DEF left
<1>8. ToSet(left) = ToSet(list) \ gone
    <2>1. \A k \in DOMAIN left : \E j \in DOMAIN list : left[k] = list[j] /\ left[k] \notin gone
        BY <1>2, <1>6, <1>7 DEF left, Of
    <2>2. \A j \in DOMAIN list : list[j] \notin gone => \E k \in DOMAIN left : left[k] = list[j]
        BY <1>2, <1>6, <1>7 DEF left, Of
    <2> QED BY <2>1, <2>2 DEF ToSet
<1>9. left \in Seq(T) /\ \E at \in [DOMAIN left -> DOMAIN list] :
         /\ \A k, l \in DOMAIN left : at[k] = at[l] => k = l
         /\ \A k \in DOMAIN left : left[k] = list[at[k]]
    <2>1. PICK at \in [1 .. Len(left) -> 1 .. n] :
             /\ \A k, l \in 1 .. Len(left) : at[k] = at[l] => k = l
             /\ \A k \in 1 .. Len(left) : left[k] = list[at[k]]
        BY <1>6 DEF left, Of
    <2>2. at \in [DOMAIN left -> DOMAIN list]
        BY <1>2, <1>7, <2>1
    <2>3. (\A k, l \in DOMAIN left : at[k] = at[l] => k = l) /\ \A k \in DOMAIN left : left[k] = list[at[k]]
        BY <1>7, <2>1
    <2>4. left \in Seq(T)
        BY <1>6 DEF left, Of
    <2> QED BY <2>2, <2>3, <2>4
<1>10. S!Without(list, gone) = left
    BY <1>1 DEF left
<1> QED BY <1>8, <1>9, <1>10

-----------------------------------------------------------------------------
(* The invariants *)

Impacts == {NoImpact} \cup (Nat \X Nat)
Issue == [status: B!IssueStatuses \cup {"none"}, audit: Nat, impact: Impacts, baseline: Impacts]
TaskRow == [source: B!Sources, status: B!TaskStatuses, outcome: BOOLEAN, late: BOOLEAN, tag: Impacts]

(* What a request has read of the findings and tasks, by the step it is at. *)
Asks(req, found, list) ==
    \/ req = B!IdleReq
    \/ req.pc = "audit" /\ req.of \subseteq B!Findings /\ req.tags \in [req.of -> Impacts \X Impacts]
    \/ req.pc = "triage" /\ req.next \in B!IssueStatuses /\ \E f \in B!Findings : req.of = {f} /\ found[f].status # "none"
    \/ /\ req.pc = "create" /\ req.of \subseteq B!Sources /\ IsFiniteSet(req.of) /\ req.found \subseteq req.of
       /\ req.tags \in [req.of -> Impacts] /\ \A s \in req.found : \E i \in DOMAIN list : list[i].source = s
    \/ /\ req.pc \in {"status", "outcome", "due"} /\ \E i \in DOMAIN list : req.of = {i}
       /\ req.pc = "status" => req.next \in B!TaskStatuses
ReqFields == {"pc", "of", "tags", "found", "next"}

Audits == {r \in Reqs : reqs[r].pc = "audit"}

BacklogTypes ==
    /\ content \subseteq Signals
    /\ audits \in Nat /\ audits + Cardinality(Audits) <= MaxAudits + Cardinality(Reqs)
    /\ issues \in [B!Findings -> Issue] /\ \A f \in B!Findings : issues[f].audit <= audits
    /\ tasks \in Seq(TaskRow)
    /\ DOMAIN reqs = Reqs
    /\ \A r \in Reqs : DOMAIN reqs[r] = ReqFields /\ Asks(reqs[r], issues, tasks)

SearchInv ==
    /\ S!SearchTypes
    /\ \A s \in Syncs : syncs[s].pc # "idle" => syncs[s].property \in Properties

(* Requests, syncs and executions are as many as the setting says. *)
Together ==
    /\ setting \in Settings
    /\ Cardinality(S!Running) <= setting.syncs
    /\ Cardinality(B!Busy) <= setting.reqs
    /\ Cardinality({s \in Slots : execs[s].pc # "idle"}) <= setting.slots

TypeInv == /\ entitled \in BOOLEAN /\ SearchInv /\ BacklogTypes /\ D!DigestTypes /\ Together

(* What is stored and about to be stored is behind Google. *)
StoredBehind ==
    /\ \A p \in Properties, w \in S!Weeks :
          /\ metrics[p][w] <= google[p][w].rev
          /\ Stored(snapshots, p, w) <= google[p][w].rev
    /\ \A s \in Syncs : syncs[s].pc = "store" =>
          LET sync == syncs[s]
          IN  /\ sync.got.rev <= google[sync.property][sync.week].rev
              /\ OneSync => /\ metrics[sync.property][sync.week] <= sync.got.rev
                            /\ Stored(snapshots, sync.property, sync.week) <= sync.got.rev

(* While one property is used, everything is of it. *)
OneProperty ==
    setting.connects <= 1 =>
        /\ connections = <<>> => snapshots = <<>> /\ S!Running = {}
        /\ \A p \in ToSet(connections) : /\ ToSet(connections) = {p}
                                         /\ \A n \in ToSet(snapshots) : n.property = p
                                         /\ \A s \in S!Running : syncs[s].property = p

(* The baselines of an audit that is about to be written are those in the rows. *)
BaselinesRead ==
    OneRequest => \A r \in Audits : \A f \in reqs[r].of :
        reqs[r].tags[f][1] # NoImpact /\ issues[f].baseline # NoImpact => reqs[r].tags[f][2] = issues[f].baseline

(* Requests that found no task of this source and will create one. *)
Creators(source) == {r \in Reqs : reqs[r].pc = "create" /\ source \in reqs[r].of \ reqs[r].found}

Larger(m, n) == IF m >= n THEN m ELSE n

FewTasks ==
    \A source \in B!Sources :
        \/ B!Rows(source) = {}
        \/ Cardinality(B!Rows(source)) + Cardinality(Creators(source)) <= Larger(1, setting.reqs)

OutcomesRead ==
    OneRequest => \A r \in Reqs : reqs[r].pc = "outcome" => \A i \in reqs[r].of : tasks[i].status = "DONE"

(* The tasks a request is about to create are those an operation of the in-memory repository creates. *)
FromAudit(a, st) == {<<"audit", f>> : f \in {g \in B!Findings : issues[g].audit = a /\ issues[g].status = st}}

CreatesAsRead ==
    OneRequest => \A r \in Reqs : reqs[r].pc = "create" =>
        /\ reqs[r].found = {s \in reqs[r].of : B!Rows(s) # {}}
        /\ \/ \E f \in B!Findings : reqs[r].of = {<<"audit", f>>} /\ issues[f].status # "none"
           \/ \E a \in 1 .. audits, st \in B!IssueStatuses : reqs[r].of = FromAudit(a, st)
           \/ \E c \in Signals \cup {Chance} : reqs[r].of = {<<"candidate", c>>}

WorkInv == TypeInv /\ StoredBehind /\ OneProperty /\ BaselinesRead /\ FewTasks /\ OutcomesRead /\ OutcomesOfDone /\ CreatesAsRead

-----------------------------------------------------------------------------
(* The digests *)

(* Executions of a job so far, the one at work included. *)
Taken(job) == job.attempts + job.stalls
                + IF job.state \in {"active", "completed"} \/ (job.state = "failed" /\ job.attempts < Attempts) THEN 1 ELSE 0

(* Only a job that failed has used all its attempts, and one that was not added has used none. *)
Regular(job) == /\ job.state # "failed" => job.attempts < Attempts
                /\ job.state = "absent" => job.attempts = 0 /\ job.stalls = 0

(* Executions that may still mail a member. *)
Will(exec, m) == exec.pc = "gather" \/ (exec.pc = "digest" /\ m \in exec.left)
MayMail(d, m) == {s \in Slots : execs[s].digest = d /\ Will(execs[s], m)}

Locked ==
    /\ \A d \in Digests : Regular(jobs[d])
    /\ \A s \in Slots : execs[s].pc # "idle" /\ execs[s].holds => jobs[execs[s].digest].state = "active"
    /\ \A s, t \in Slots : (execs[s].pc # "idle" /\ execs[t].pc # "idle" /\ execs[s].holds /\ execs[t].holds
                              /\ execs[s].digest = execs[t].digest) => s = t

CopiesTaken == \A d \in Digests, m \in Members : mailed[d][m] + Cardinality(MayMail(d, m)) <= Taken(jobs[d])

Mailed ==
    /\ ~smtp => \A d \in Digests : rows[d] # "DELIVERED"
    /\ \A s \in Slots : execs[s].pc \in {"digest", "alert", "settle", "ack"} /\ smtp =>
          \A m \in execs[s].recipients : \/ execs[s].pc = "digest" /\ m \in execs[s].left
                                         \/ mailed[execs[s].digest][m] >= 1

Unsettled ==
    setting.slots <= 1 =>
        /\ \A s \in Slots : execs[s].pc \in {"gather", "digest", "alert", "settle"} => ~D!Settled(execs[s].digest)
        /\ \A d \in Digests : notices[d] <= IF D!Settled(d) THEN 1 ELSE 0

DigestInv == D!DigestTypes /\ Together /\ Locked /\ CopiesTaken /\ Mailed /\ Unsettled

-----------------------------------------------------------------------------
(* Lists of rows *)

LEMMA SameSets == \A list : S!ToSet(list) = ToSet(list) /\ Dev!ToSet(list) = ToSet(list)
BY DEF ToSet, S!ToSet, Dev!ToSet

LEMMA InFront ==
    ASSUME NEW T, NEW list \in Seq(T), NEW x \in T
    PROVE  LET more == <<x>> \o list
           IN  /\ more \in Seq(T) /\ more # <<>> /\ more[1] = x
               /\ DOMAIN more = 1 .. Len(list) + 1 /\ Len(list) \in Nat /\ DOMAIN list = 1 .. Len(list)
               /\ \A k \in DOMAIN list : more[k + 1] = list[k]
               /\ ToSet(more) = {x} \cup ToSet(list)
<1> DEFINE more == <<x>> \o list
           n == Len(list)
<1>1. <<x>> \in Seq(T) /\ Len(<<x>>) = 1 /\ <<x>>[1] = x
    OBVIOUS
<1>2. n \in Nat /\ DOMAIN list = 1 .. n
    BY LenProperties
<1>3. /\ more \in Seq(T) /\ Len(more) = n + 1 /\ more[1] = x
      /\ \A k \in 1 .. n + 1 : more[k] = IF k <= 1 THEN <<x>>[k] ELSE list[k - 1]
    BY <1>1, <1>2, ConcatProperties
<1>4. DOMAIN more = 1 .. n + 1 /\ more # <<>>
    BY <1>2, <1>3, LenProperties, EmptySeq
<1> HIDE DEF more, n
<1>5. \A k \in 1 .. n : k + 1 \in 1 .. n + 1 /\ more[k + 1] = list[k]
    BY <1>2, <1>3
<1>6. \A k \in 1 .. n + 1 : k = 1 \/ (k - 1 \in 1 .. n /\ more[k] = list[k - 1])
    BY <1>2, <1>3
<1>7. 1 \in 1 .. n + 1
    BY <1>2
<1>8. ToSet(more) = {x} \cup ToSet(list)
    <2>1. \A k \in DOMAIN more : more[k] = x \/ \E j \in DOMAIN list : more[k] = list[j]
        BY <1>2, <1>3, <1>4, <1>6
    <2>2. (\E k \in DOMAIN more : more[k] = x) /\ \A j \in DOMAIN list : \E k \in DOMAIN more : more[k] = list[j]
        BY <1>2, <1>3, <1>4, <1>5, <1>7
    <2> QED BY <2>1, <2>2 DEF ToSet
<1> QED BY <1>2, <1>3, <1>4, <1>5, <1>8 DEF more, n

(* Where rows are all different in some respect, they stay so when new ones replace those like them. *)
LEMMA StillDifferent ==
    ASSUME NEW T, NEW list \in Seq(T), NEW x \in T, NEW Alike, NEW gone,
           \A i, j \in DOMAIN list : <<list[i], list[j]>> \in Alike => i = j,
           \A y \in ToSet(list) : <<x, y>> \in Alike \/ <<y, x>> \in Alike => y \in gone
    PROVE  LET left == S!Without(list, gone)
               more == <<x>> \o left
           IN  /\ \A i, j \in DOMAIN left : <<left[i], left[j]>> \in Alike => i = j
               /\ \A i, j \in DOMAIN more : <<more[i], more[j]>> \in Alike => i = j
<1> DEFINE left == S!Without(list, gone)
           more == <<x>> \o left
           n == Len(left)
<1>1. left \in Seq(T) /\ ToSet(left) = ToSet(list) \ gone
    BY WithoutKeeps
<1>2. PICK at \in [DOMAIN left -> DOMAIN list] : /\ \A k, l \in DOMAIN left : at[k] = at[l] => k = l
                                                 /\ \A k \in DOMAIN left : left[k] = list[at[k]]
    BY WithoutKeeps
<1> HIDE DEF left
<1>3. \A i, j \in DOMAIN left : <<left[i], left[j]>> \in Alike => i = j
    BY <1>2
<1>4. /\ more[1] = x /\ n \in Nat /\ DOMAIN more = 1 .. n + 1 /\ DOMAIN left = 1 .. n
      /\ \A k \in 1 .. n : more[k + 1] = left[k]
    BY <1>1, InFront
<1> HIDE DEF more, n
<1>5. \A k \in 1 .. n : left[k] \in ToSet(list) /\ left[k] \notin gone
    BY <1>1, <1>4 DEF ToSet
<1>6. ASSUME NEW i \in DOMAIN more, NEW j \in DOMAIN more, <<more[i], more[j]>> \in Alike PROVE i = j
    <2>1. \A k \in DOMAIN more : k = 1 \/ (k - 1 \in 1 .. n /\ more[k] = left[k - 1] /\ k \in Nat)
        <3> SUFFICES ASSUME NEW k \in 1 .. n + 1, k # 1 PROVE k - 1 \in 1 .. n /\ more[k] = left[k - 1] /\ k \in Nat
            BY <1>4
        <3>1. k - 1 \in 1 .. n /\ (k - 1) + 1 = k /\ k \in Nat
            BY <1>4
        <3> QED BY <1>4, <3>1
    <2>2. CASE i = 1 \/ j = 1
        BY <1>4, <1>5, <1>6, <2>1, <2>2
    <2>3. CASE i # 1 /\ j # 1
        <3>1. i - 1 \in DOMAIN left /\ j - 1 \in DOMAIN left /\ <<left[i - 1], left[j - 1]>> \in Alike /\ i \in Nat /\ j \in Nat
            BY <1>4, <1>6, <2>1, <2>3
        <3>2. i - 1 = j - 1
            BY <1>3, <3>1
        <3> QED BY <3>1, <3>2
    <2> QED BY <2>2, <2>3
<1> QED BY <1>3, <1>6 DEF left, more

-----------------------------------------------------------------------------
(* Search Console *)

Snapshot == [property: Properties, week: S!Weeks, report: S!Report]
SameRange == {pair \in Snapshot \X Snapshot : pair[1].property = pair[2].property /\ pair[1].week = pair[2].week}

LEMMA SyncRecords ==
    /\ S!NoSync \in S!Sync /\ S!NoReport \in S!Report
    /\ S!NoSync.pc = "idle" /\ S!NoReport.page = "empty"
BY ReportsAssumption DEF S!NoSync, S!Sync, S!Weeks, S!NoReport, S!Report, S!Pages, S!Kinds

LEMMA UseTyped ==
    ASSUME SearchInv, NEW p \in Properties, S!Use(p)
    PROVE  SearchInv'
<1> DEFINE left == S!Without(connections, {p})
<1>1. connections \in Seq(Properties) /\ \A i, j \in DOMAIN connections : connections[i] = connections[j] => i = j
    BY DEF SearchInv, S!SearchTypes, S!IsInjective
<1>2. left \in Seq(Properties)
    BY <1>1, WithoutKeeps
<1>3. connections' = <<p>> \o left
    BY DEF S!Use
<1>4. connections' \in Seq(Properties)
    BY <1>2, <1>3, InFront
<1>5. S!IsInjective(connections')
    <2> DEFINE Alike == {pair \in Properties \X Properties : pair[1] = pair[2]}
    <2>1. \A i \in DOMAIN connections : connections[i] \in Properties
        BY <1>1, ElementOfSeq, LenProperties
    <2>2. \A i, j \in DOMAIN connections : <<connections[i], connections[j]>> \in Alike => i = j
        BY <1>1
    <2>3. \A y \in ToSet(connections) : <<p, y>> \in Alike \/ <<y, p>> \in Alike => y \in {p}
        OBVIOUS
    <2> HIDE DEF Alike
    <2>4. \A i, j \in DOMAIN connections' : <<connections'[i], connections'[j]>> \in Alike => i = j
        <3>1. \A i, j \in DOMAIN (<<p>> \o left) : <<(<<p>> \o left)[i], (<<p>> \o left)[j]>> \in Alike => i = j
            BY <1>1, <2>2, <2>3, StillDifferent
        <3> HIDE DEF left
        <3> QED BY <1>3, <3>1
    <2>5. \A i \in DOMAIN connections' : connections'[i] \in Properties
        BY <1>4, ElementOfSeq, LenProperties
    <2>6. \A i, j \in DOMAIN connections' : connections'[i] = connections'[j] => i = j
        BY <2>4, <2>5 DEF Alike
    <2> QED BY <2>6 DEF S!IsInjective
<1> QED BY <1>4, <1>5 DEF SearchInv, S!SearchTypes, S!Use

LEMMA SyncMoves ==
    ASSUME SearchInv, NEW s \in Syncs, NEW sync \in S!Sync, syncs' = [syncs EXCEPT ![s] = sync],
           sync.pc # "idle" => sync.property \in Properties
    PROVE  /\ syncs' \in [Syncs -> S!Sync]
           /\ \A q \in Syncs : syncs'[q] = IF q = s THEN sync ELSE syncs[q]
           /\ \A q \in Syncs : syncs'[q].pc # "idle" => syncs'[q].property \in Properties
BY DEF SearchInv, S!SearchTypes

LEMMA InForceTyped == ASSUME SearchInv, connections # <<>> PROVE S!InForce \in Properties /\ S!InForce = connections[1]
BY HeadTailProperties DEF SearchInv, S!SearchTypes, S!InForce

LEMMA InsightsTyped ==
    ASSUME SearchInv, NEW s \in Syncs, S!StoreInsights(s)
    PROVE  /\ snapshots' \in Seq(Snapshot)
           /\ \A i, j \in DOMAIN snapshots' : <<snapshots'[i], snapshots'[j]>> \in SameRange => i = j
<1> DEFINE sync == syncs[s]
           own == S!InsightsOf(sync.property, sync.week)
           left == S!Without(snapshots, own)
           new == [property |-> sync.property, week |-> sync.week, report |-> sync.got]
<1>1. /\ snapshots \in Seq(Snapshot) /\ sync \in S!Sync /\ sync.property \in Properties
      /\ \A i, j \in DOMAIN snapshots :
            snapshots[i].property = snapshots[j].property /\ snapshots[i].week = snapshots[j].week => i = j
    BY DEF SearchInv, S!SearchTypes, Snapshot, S!StoreInsights
<1>2. new \in Snapshot
    BY <1>1 DEF S!Sync, Snapshot
<1>3. \A i, j \in DOMAIN snapshots : <<snapshots[i], snapshots[j]>> \in SameRange => i = j
    BY <1>1 DEF SameRange
<1>4. \A y \in ToSet(snapshots) : <<new, y>> \in SameRange \/ <<y, new>> \in SameRange => y \in own
    BY SameSets DEF SameRange, S!InsightsOf
<1>5. snapshots' = IF sync.got.page = "empty" THEN left ELSE <<new>> \o left
    BY DEF S!StoreInsights
<1>6. left \in Seq(Snapshot)
    BY <1>1, WithoutKeeps
<1>7. <<new>> \o left \in Seq(Snapshot)
    BY <1>2, <1>6, InFront
<1>8. /\ \A i, j \in DOMAIN left : <<left[i], left[j]>> \in SameRange => i = j
      /\ \A i, j \in DOMAIN (<<new>> \o left) : <<(<<new>> \o left)[i], (<<new>> \o left)[j]>> \in SameRange => i = j
    <2> HIDE DEF own, new
    <2> QED BY <1>1, <1>2, <1>3, <1>4, StillDifferent
<1> HIDE DEF left, new
<1> QED BY <1>5, <1>6, <1>7, <1>8

LEMMA SearchTyped == ASSUME SearchInv, setting \in Settings, Searching PROVE SearchInv'
<1>0. /\ setting.pages \subseteq S!Pages /\ setting.kinds \subseteq S!Kinds
      /\ MaxWeek \in Nat /\ MaxRevisions \in Nat
    BY ReportsAssumption DEF Setting
<1>1. ASSUME NEW p \in Properties, S!Connect(p) \/ S!SelectProperty(p) PROVE SearchInv'
    BY <1>1, UseTyped DEF S!Connect, S!SelectProperty
<1>2. ASSUME NEW p \in Properties, NEW page \in setting.pages, S!Revise(p, page) PROVE SearchInv'
    <2> DEFINE new == [rev |-> google[p][week].rev + 1, page |-> page]
    <2>1. google' = [google EXCEPT ![p][week] = new] /\ google[p][week].rev < MaxRevisions
        BY <1>2 DEF S!Revise
    <2>2. google[p][week] \in S!Report /\ google \in [Properties -> [S!Weeks -> S!Report]] /\ week \in S!Weeks
        BY DEF SearchInv, S!SearchTypes
    <2>3. new \in S!Report
        BY <1>0, <2>1, <2>2 DEF S!Report
    <2> HIDE DEF new
    <2>4. google' \in [Properties -> [S!Weeks -> S!Report]]
        BY <2>1, <2>2, <2>3
    <2> QED BY <1>2, <2>4 DEF SearchInv, S!SearchTypes, S!Revise
<1>3. ASSUME NEW s \in Syncs, NEW kind \in setting.kinds, NEW byWorker \in {TRUE, ~setting.lapses}, S!SyncRead(s, kind, byWorker)
      PROVE  SearchInv'
    <2> DEFINE sync == [pc |-> "query", kind |-> kind, byWorker |-> byWorker,
                        property |-> S!InForce, week |-> week, got |-> S!NoReport]
    <2>1. S!InForce \in Properties /\ week \in S!Weeks
        BY <1>3, InForceTyped DEF S!SyncRead, SearchInv, S!SearchTypes
    <2>2. sync \in S!Sync /\ sync.property \in Properties
        BY <1>0, <2>1, SyncRecords DEF S!Sync
    <2>3. syncs' = [syncs EXCEPT ![s] = sync]
        BY <1>3 DEF S!SyncRead
    <2> HIDE DEF sync
    <2> QED BY <1>3, <2>2, <2>3, SyncMoves DEF SearchInv, S!SearchTypes, S!SyncRead
<1>4. ASSUME NEW s \in Syncs, S!SyncQuery(s) PROVE SearchInv'
    <2> DEFINE got == google[syncs[s].property][syncs[s].week]
               sync == [syncs[s] EXCEPT !.pc = "store", !.got = got]
    <2>1. syncs[s] \in S!Sync /\ syncs[s].property \in Properties
        BY <1>4 DEF S!SyncQuery, SearchInv, S!SearchTypes
    <2>2. got \in S!Report
        BY <2>1 DEF SearchInv, S!SearchTypes, S!Sync
    <2>3. sync \in S!Sync /\ sync.property \in Properties
        BY <2>1, <2>2 DEF S!Sync
    <2>4. syncs' = [syncs EXCEPT ![s] = sync]
        BY <1>4 DEF S!SyncQuery
    <2> HIDE DEF sync, got
    <2> QED BY <1>4, <2>3, <2>4, SyncMoves DEF SearchInv, S!SearchTypes, S!SyncQuery
<1>5. ASSUME NEW s \in Syncs, S!StoreMetrics(s) \/ S!StoreInsights(s) \/ S!SyncFails(s) PROVE SearchInv'
    <2>1. syncs' = [syncs EXCEPT ![s] = S!NoSync] /\ UNCHANGED <<week, google, connections>>
        BY <1>5 DEF S!StoreMetrics, S!StoreInsights, S!SyncFails, S!End
    <2>2. /\ syncs' \in [Syncs -> S!Sync]
          /\ \A q \in Syncs : syncs'[q].pc # "idle" => syncs'[q].property \in Properties
        BY <2>1, SyncMoves, SyncRecords
    <2>3. metrics' \in [Properties -> [S!Weeks -> 0 .. MaxRevisions]]
        <3>1. metrics \in [Properties -> [S!Weeks -> 0 .. MaxRevisions]] /\ syncs[s] \in S!Sync
            BY DEF SearchInv, S!SearchTypes
        <3>2. CASE S!StoreMetrics(s)
            <4>1. syncs[s].got.rev \in 0 .. MaxRevisions /\ syncs[s].week \in S!Weeks
                BY <3>1 DEF S!Sync, S!Report
            <4>2. \/ metrics' = metrics
                  \/ metrics' = [metrics EXCEPT ![syncs[s].property][syncs[s].week] = syncs[s].got.rev]
                BY <3>2 DEF S!StoreMetrics
            <4> QED BY <3>1, <4>1, <4>2
        <3>3. CASE S!StoreInsights(s) \/ S!SyncFails(s)
            BY <3>1, <3>3 DEF S!StoreInsights, S!SyncFails
        <3> QED BY <1>5, <3>2, <3>3
    <2>4. /\ snapshots' \in Seq(Snapshot)
          /\ \A i, j \in DOMAIN snapshots' :
                snapshots'[i].property = snapshots'[j].property /\ snapshots'[i].week = snapshots'[j].week => i = j
        <3>1. CASE S!StoreInsights(s)
            <4>1. /\ snapshots' \in Seq(Snapshot)
                  /\ \A i, j \in DOMAIN snapshots' : <<snapshots'[i], snapshots'[j]>> \in SameRange => i = j
                BY <3>1, InsightsTyped
            <4>2. \A i \in DOMAIN snapshots' : snapshots'[i] \in Snapshot
                BY <4>1, ElementOfSeq, LenProperties
            <4> QED BY <4>1, <4>2 DEF SameRange
        <3>2. CASE snapshots' = snapshots
            BY <3>2 DEF SearchInv, S!SearchTypes, Snapshot
        <3> QED BY <1>5, <3>1, <3>2 DEF S!StoreMetrics, S!SyncFails
    <2> QED BY <2>1, <2>2, <2>3, <2>4 DEF SearchInv, S!SearchTypes, Snapshot
<1>6. CASE S!WeekPasses
    BY <1>0, <1>6 DEF S!WeekPasses, SearchInv, S!SearchTypes, S!Weeks
<1> QED BY <1>1, <1>2, <1>3, <1>4, <1>5, <1>6 DEF Searching

(* At most one of a set, and its changes one at a time. *)
LEMMA AtMostOne ==
    ASSUME NEW A, IsFiniteSet(A), Cardinality(A) <= 1
    PROVE  \A x, y \in A : x = y
<1>1. Cardinality(A) = 0 \/ Cardinality(A) = 1
    BY FS_CardinalityType
<1> QED BY <1>1, FS_EmptySet, FS_Singleton

LEMMA OneRuns == ASSUME Together, OneSync PROVE \A s, q \in Syncs : syncs[s].pc # "idle" /\ syncs[q].pc # "idle" => s = q
<1>1. S!Running \in SUBSET Syncs
    BY DEF S!Running
<1>2. IsFiniteSet(S!Running) /\ Cardinality(S!Running) \in Nat
    BY <1>1, ReportsAssumption, FS_Subset, FS_CardinalityType
<1>3. Cardinality(S!Running) <= 1
    BY <1>2, ReportsAssumption DEF Together, OneSync, Setting
<1> QED BY <1>2, <1>3, AtMostOne DEF S!Running

(* What is stored of a range: the revision of its row, if there is one. *)
Of(list, p, w) == {n \in ToSet(list) : n.property = p /\ n.week = w}

LEMMA StoredIs ==
    ASSUME NEW list \in Seq(Snapshot), NEW p, NEW w
    PROVE  /\ Of(list, p, w) = {} => Stored(list, p, w) = 0
           /\ Of(list, p, w) # {} => \E n \in Of(list, p, w) : Stored(list, p, w) = n.report.rev
           /\ Stored(list, p, w) \in 0 .. MaxRevisions
<1>1. \A n \in ToSet(list) : n \in Snapshot
    BY ElementOfSeq, LenProperties DEF ToSet
<1>2. \A n \in Snapshot : n.report.rev \in 0 .. MaxRevisions
    BY DEF Snapshot, S!Report
<1>3. 0 \in 0 .. MaxRevisions
    BY ReportsAssumption
<1>4. Stored(list, p, w) = IF Of(list, p, w) = {} THEN 0 ELSE (CHOOSE n \in Of(list, p, w) : TRUE).report.rev
    BY DEF Stored, Of
<1>5. Of(list, p, w) # {} => (CHOOSE n \in Of(list, p, w) : TRUE) \in Of(list, p, w)
    OBVIOUS
<1>6. Of(list, p, w) \subseteq ToSet(list)
    BY DEF Of
<1> QED BY <1>1, <1>2, <1>3, <1>4, <1>5, <1>6

(* Insights replace those of their own range only. *)
LEMMA InsightsStored ==
    ASSUME SearchInv, NEW s \in Syncs, S!StoreInsights(s), NEW p \in Properties, NEW w \in S!Weeks
    PROVE  IF p = syncs[s].property /\ w = syncs[s].week
           THEN Stored(snapshots', p, w) \in {0, syncs[s].got.rev}
           ELSE Stored(snapshots', p, w) = Stored(snapshots, p, w)
<1> DEFINE sync == syncs[s]
           own == S!InsightsOf(sync.property, sync.week)
           left == S!Without(snapshots, own)
           new == [property |-> sync.property, week |-> sync.week, report |-> sync.got]
<1>1. /\ snapshots \in Seq(Snapshot) /\ sync \in S!Sync /\ sync.property \in Properties
    BY DEF SearchInv, S!SearchTypes, Snapshot, S!StoreInsights
<1>2. new \in Snapshot
    BY <1>1 DEF S!Sync, Snapshot
<1>3. snapshots' = IF sync.got.page = "empty" THEN left ELSE <<new>> \o left
    BY DEF S!StoreInsights
<1>4. left \in Seq(Snapshot) /\ ToSet(left) = ToSet(snapshots) \ own
    BY <1>1, WithoutKeeps
<1>5. ToSet(<<new>> \o left) = {new} \cup ToSet(left)
    BY <1>2, <1>4, InFront
<1>6. own = Of(snapshots, sync.property, sync.week)
    BY SameSets DEF S!InsightsOf, Of
<1>7. ToSet(snapshots') = ToSet(left) \cup (IF sync.got.page = "empty" THEN {} ELSE {new})
    <2> HIDE DEF left, new
    <2> QED BY <1>3, <1>5
<1>8. new.property = sync.property /\ new.week = sync.week /\ new.report = sync.got
    OBVIOUS
<1>9. snapshots' \in Seq(Snapshot)
    BY InsightsTyped
<1> HIDE DEF left, new, own
<1>10. CASE p = sync.property /\ w = sync.week
    <2>1. \A n \in Of(snapshots', p, w) : n = new
        BY <1>4, <1>6, <1>7, <1>10 DEF Of
    <2>2. Stored(snapshots', p, w) = 0 \/ Stored(snapshots', p, w) = new.report.rev
        BY <1>9, <2>1, StoredIs
    <2> QED BY <1>8, <1>10, <2>2
<1>11. CASE ~ (p = sync.property /\ w = sync.week)
    <2>1. Of(snapshots', p, w) = Of(snapshots, p, w)
        BY <1>4, <1>6, <1>7, <1>8, <1>11 DEF Of
    <2>2. \A list : Stored(list, p, w) = IF Of(list, p, w) = {} THEN 0 ELSE (CHOOSE n \in Of(list, p, w) : TRUE).report.rev
        BY DEF Stored, Of
    <2> QED BY <1>11, <2>1, <2>2
<1> QED BY <1>10, <1>11

LEMMA StoredStep == ASSUME SearchInv, Together, Searching, StoredBehind PROVE StoredBehind'
<1> USE DEF StoredBehind
<1> DEFINE Holds(sync, known, counts, list) ==
               sync.pc = "store" =>
                   /\ sync.got.rev <= known[sync.property][sync.week].rev
                   /\ OneSync => /\ counts[sync.property][sync.week] <= sync.got.rev
                                 /\ Stored(list, sync.property, sync.week) <= sync.got.rev
<1>0. /\ setting' = setting /\ (OneSync' <=> OneSync)
      /\ \A s \in Syncs : syncs[s] \in S!Sync /\ (syncs[s].pc # "idle" => syncs[s].property \in Properties)
      /\ google \in [Properties -> [S!Weeks -> S!Report]]
      /\ metrics \in [Properties -> [S!Weeks -> 0 .. MaxRevisions]]
      /\ snapshots \in Seq(Snapshot) /\ week \in S!Weeks
    BY DEF Searching, SearchInv, S!SearchTypes, OneSync, Snapshot
<1>1. \A s \in Syncs : Holds(syncs[s], google, metrics, snapshots)
    OBVIOUS
<1>2. \A s \in Syncs : syncs[s].week \in S!Weeks /\ syncs[s].got.rev \in Nat
    BY <1>0, ReportsAssumption DEF S!Sync, S!Report
<1>3. \A p \in Properties, w \in S!Weeks : /\ google[p][w] \in S!Report /\ google[p][w].rev \in Nat
                                            /\ metrics[p][w] \in Nat /\ Stored(snapshots, p, w) \in Nat
    BY <1>0, StoredIs, ReportsAssumption DEF S!Report
<1>4. ASSUME UNCHANGED <<google, metrics, snapshots>>,
             \A s \in Syncs : syncs'[s] = syncs[s] \/ syncs'[s].pc # "store"
      PROVE  StoredBehind'
    BY <1>0, <1>1, <1>4
<1>5. ASSUME NEW p \in Properties, S!Connect(p) \/ S!SelectProperty(p) PROVE StoredBehind'
    BY <1>4, <1>5 DEF S!Connect, S!SelectProperty, S!Use
<1>6. ASSUME NEW p \in Properties, NEW page, S!Revise(p, page) PROVE StoredBehind'
    <2> DEFINE new == [rev |-> google[p][week].rev + 1, page |-> page]
    <2>1. google' = [google EXCEPT ![p][week] = new] /\ UNCHANGED <<metrics, snapshots, syncs>>
        BY <1>6 DEF S!Revise
    <2>2. new.rev = google[p][week].rev + 1
        OBVIOUS
    <2> HIDE DEF new
    <2>3. \A q \in Properties, w \in S!Weeks : google[q][w].rev <= google'[q][w].rev /\ google'[q][w].rev \in Nat
        BY <1>0, <1>3, <2>1, <2>2
    <2>4. \A q \in Properties, w \in S!Weeks : metrics[q][w] <= google'[q][w].rev /\ Stored(snapshots, q, w) <= google'[q][w].rev
        BY <1>3, <2>3
    <2>5. ASSUME NEW s \in Syncs, syncs[s].pc = "store" PROVE Holds(syncs[s], google', metrics, snapshots)
        <3> DEFINE q == syncs[s].property
                   w == syncs[s].week
        <3>1. q \in Properties /\ w \in S!Weeks
            BY <1>0, <1>2, <2>5
        <3>2. syncs[s].got.rev <= google[q][w].rev
            BY <1>1, <2>5
        <3>3. syncs[s].got.rev \in Nat /\ google[q][w].rev \in Nat /\ google'[q][w].rev \in Nat
              /\ google[q][w].rev <= google'[q][w].rev
            BY <1>2, <1>3, <2>3, <3>1
        <3>4. \A a, b, c \in Nat : a <= b /\ b <= c => a <= c
            OBVIOUS
        <3>5. syncs[s].got.rev <= google'[q][w].rev
            BY ONLY <3>2, <3>3, <3>4
        <3> QED BY <1>1, <2>5, <3>5
    <2> QED BY <1>0, <2>1, <2>4, <2>5
<1>7. ASSUME NEW s \in Syncs, NEW kind, NEW byWorker, S!SyncRead(s, kind, byWorker) PROVE StoredBehind'
    <2>1. \A q \in Syncs : syncs'[q] = syncs[q] \/ syncs'[q].pc = "query"
        BY <1>7 DEF S!SyncRead, SearchInv, S!SearchTypes
    <2> QED BY <1>4, <1>7, <2>1 DEF S!SyncRead
<1>8. ASSUME NEW s \in Syncs, S!SyncQuery(s) PROVE StoredBehind'
    <2> DEFINE sync == syncs[s]
               got == google[sync.property][sync.week]
    <2>1. /\ syncs' = [syncs EXCEPT ![s] = [sync EXCEPT !.pc = "store", !.got = got]]
          /\ UNCHANGED <<google, metrics, snapshots>> /\ sync.property \in Properties
        BY <1>0, <1>8 DEF S!SyncQuery
    <2>2. /\ syncs'[s].got = got /\ syncs'[s].property = sync.property /\ syncs'[s].week = sync.week
          /\ \A q \in Syncs : q # s => syncs'[q] = syncs[q]
        BY <1>0, <2>1 DEF S!Sync, SearchInv, S!SearchTypes
    <2>3. Holds(syncs'[s], google, metrics, snapshots)
        BY <1>2, <1>3, <2>1, <2>2
    <2>4. \A q \in Syncs : Holds(syncs'[q], google, metrics, snapshots)
        BY <1>1, <2>2, <2>3
    <2> QED BY <1>0, <2>1, <2>4
<1>9. ASSUME NEW s \in Syncs, S!StoreMetrics(s) PROVE StoredBehind'
    <2> DEFINE sync == syncs[s]
    <2>1. /\ syncs' = [syncs EXCEPT ![s] = S!NoSync] /\ UNCHANGED <<google, snapshots>>
          /\ sync.pc = "store" /\ sync.property \in Properties
          /\ \/ metrics' = metrics
             \/ metrics' = [metrics EXCEPT ![sync.property][sync.week] = sync.got.rev]
        BY <1>0, <1>9 DEF S!StoreMetrics, S!End
    <2>2. \A q \in Syncs : syncs'[q] = IF q = s THEN S!NoSync ELSE syncs[q]
        BY <2>1 DEF SearchInv, S!SearchTypes
    <2>3. \A p \in Properties, w \in S!Weeks : metrics'[p][w] <= google[p][w].rev
        <3>1. sync.got.rev <= google[sync.property][sync.week].rev /\ sync.week \in S!Weeks
            BY <1>1, <1>2, <2>1
        <3>2. \A p \in Properties, w \in S!Weeks :
                 \/ metrics'[p][w] = metrics[p][w]
                 \/ p = sync.property /\ w = sync.week /\ metrics'[p][w] = sync.got.rev
            <4> DEFINE v == sync.got.rev
            <4>1. CASE metrics' = metrics
                BY <4>1
            <4>2. CASE metrics' = [metrics EXCEPT ![sync.property][sync.week] = v]
                <5> HIDE DEF sync, v
                <5>1. metrics \in [Properties -> [S!Weeks -> 0 .. MaxRevisions]]
                    BY <1>0
                <5>2. sync.property \in Properties /\ sync.week \in S!Weeks
                    BY <2>1, <3>1
                <5>3. \A p \in Properties, w \in S!Weeks :
                         metrics'[p][w] = IF p = sync.property /\ w = sync.week THEN v ELSE metrics[p][w]
                    BY ONLY <4>2, <5>1, <5>2
                <5> QED BY <5>3 DEF v
            <4> QED BY <2>1, <4>1, <4>2
        <3> QED BY <3>1, <3>2
    <2>4. ASSUME NEW q \in Syncs, syncs'[q].pc = "store" PROVE Holds(syncs'[q], google, metrics', snapshots)
        <3>1. q # s /\ syncs'[q] = syncs[q]
            BY <2>2, <2>4, SyncRecords
        <3>2. ~OneSync
            BY <2>1, <2>4, <3>1, OneRuns
        <3> QED BY <1>1, <3>1, <3>2
    <2> QED BY <1>0, <2>1, <2>3, <2>4
<1>10. ASSUME NEW s \in Syncs, S!StoreInsights(s) PROVE StoredBehind'
    <2> DEFINE sync == syncs[s]
    <2>1. /\ syncs' = [syncs EXCEPT ![s] = S!NoSync] /\ UNCHANGED <<google, metrics>>
          /\ sync.pc = "store" /\ sync.property \in Properties
        BY <1>0, <1>10 DEF S!StoreInsights, S!End
    <2>2. \A q \in Syncs : syncs'[q] = IF q = s THEN S!NoSync ELSE syncs[q]
        BY <2>1 DEF SearchInv, S!SearchTypes
    <2>3. \A p \in Properties, w \in S!Weeks : Stored(snapshots', p, w) <= google[p][w].rev
        <3>1. sync.got.rev <= google[sync.property][sync.week].rev
            BY <1>1, <2>1
        <3> QED BY <1>3, <1>10, <3>1, InsightsStored
    <2>4. ASSUME NEW q \in Syncs, syncs'[q].pc = "store" PROVE Holds(syncs'[q], google, metrics, snapshots')
        <3>1. q # s /\ syncs'[q] = syncs[q]
            BY <2>2, <2>4, SyncRecords
        <3>2. ~OneSync
            BY <2>1, <2>4, <3>1, OneRuns
        <3> QED BY <1>1, <3>1, <3>2
    <2> QED BY <1>0, <2>1, <2>3, <2>4
<1>11. ASSUME NEW s \in Syncs, S!SyncFails(s) PROVE StoredBehind'
    <2>1. \A q \in Syncs : syncs'[q] = syncs[q] \/ syncs'[q] = S!NoSync
        BY <1>11 DEF S!SyncFails, S!End, SearchInv, S!SearchTypes
    <2> QED BY <1>4, <1>11, <2>1, SyncRecords DEF S!SyncFails
<1>12. CASE S!WeekPasses
    BY <1>4, <1>12 DEF S!WeekPasses
<1> QED BY <1>5, <1>6, <1>7, <1>8, <1>9, <1>10, <1>11, <1>12 DEF Searching

LEMMA Updated ==
    ASSUME NEW A, NEW W, NEW T, NEW f \in [A -> [W -> T]], NEW q \in A, NEW u \in W, NEW v, NEW p \in A, NEW w \in W
    PROVE  [f EXCEPT ![q][u] = v][p][w] = IF p = q /\ w = u THEN v ELSE f[p][w]
OBVIOUS

(* What is stored only becomes newer where syncs do not meet. *)
LEMMA StoredMoves ==
    ASSUME SearchInv, StoredBehind, Searching, OneSync, NEW p \in Properties, NEW w \in S!Weeks
    PROVE  /\ metrics'[p][w] >= metrics[p][w]
           /\ Stored(snapshots', p, w) \in {0} \cup Stored(snapshots, p, w) .. MaxRevisions
<1> DEFINE Goal == /\ metrics'[p][w] >= metrics[p][w]
                   /\ Stored(snapshots', p, w) \in {0} \cup Stored(snapshots, p, w) .. MaxRevisions
<1>1. /\ metrics \in [Properties -> [S!Weeks -> 0 .. MaxRevisions]] /\ metrics[p][w] \in Nat
      /\ snapshots \in Seq(Snapshot) /\ Stored(snapshots, p, w) \in 0 .. MaxRevisions /\ MaxRevisions \in Nat
    <2>1. metrics \in [Properties -> [S!Weeks -> 0 .. MaxRevisions]] /\ snapshots \in Seq(Snapshot)
        BY DEF SearchInv, S!SearchTypes, Snapshot
    <2>2. MaxRevisions \in Nat
        BY ReportsAssumption
    <2> QED BY <2>1, <2>2, StoredIs
<1>2. CASE UNCHANGED <<metrics, snapshots>>
    BY <1>1, <1>2
<1>3. ASSUME NEW s \in Syncs, S!StoreMetrics(s) PROVE Goal
    <2> DEFINE sync == syncs[s]
    <2>1. /\ snapshots' = snapshots /\ sync.pc = "store" /\ sync \in S!Sync
          /\ metrics' = metrics \/ metrics' = [metrics EXCEPT ![sync.property][sync.week] = sync.got.rev]
        BY <1>3 DEF S!StoreMetrics, SearchInv, S!SearchTypes
    <2>2. /\ metrics[sync.property][sync.week] <= sync.got.rev
          /\ sync.property \in Properties /\ sync.week \in S!Weeks /\ sync.got.rev \in Nat
        BY <2>1, ReportsAssumption DEF StoredBehind, SearchInv, S!Sync, S!Report
    <2>3. metrics'[p][w] = metrics[p][w] \/ (metrics'[p][w] = sync.got.rev /\ p = sync.property /\ w = sync.week)
        <3> DEFINE new == [metrics EXCEPT ![sync.property][sync.week] = sync.got.rev]
        <3>1. new[p][w] = IF p = sync.property /\ w = sync.week THEN sync.got.rev ELSE metrics[p][w]
            BY <1>1, <2>2, Updated
        <3>2. metrics' = metrics \/ metrics' = new
            BY <2>1
        <3> HIDE DEF new
        <3> QED BY <3>1, <3>2
    <2> QED BY <1>1, <2>1, <2>2, <2>3
<1>4. ASSUME NEW s \in Syncs, S!StoreInsights(s) PROVE Goal
    <2> DEFINE sync == syncs[s]
    <2>1. metrics' = metrics /\ sync.pc = "store" /\ sync \in S!Sync
        BY <1>4 DEF S!StoreInsights, SearchInv, S!SearchTypes
    <2>2. Stored(snapshots, sync.property, sync.week) <= sync.got.rev /\ sync.got.rev \in 0 .. MaxRevisions
        BY <2>1 DEF StoredBehind, S!Sync, S!Report
    <2>3. CASE p = sync.property /\ w = sync.week
        <3>1. Stored(snapshots', p, w) \in {0, sync.got.rev}
            BY <1>4, <2>3, InsightsStored
        <3> QED BY <1>1, <2>1, <2>2, <2>3, <3>1
    <2>4. CASE ~ (p = sync.property /\ w = sync.week)
        <3>1. Stored(snapshots', p, w) = Stored(snapshots, p, w)
            BY <1>4, <2>4, InsightsStored
        <3> QED BY <1>1, <2>1, <3>1
    <2> QED BY <2>3, <2>4
<1>5. (\E s \in Syncs : S!StoreMetrics(s) \/ S!StoreInsights(s)) \/ UNCHANGED <<metrics, snapshots>>
    BY DEF Searching, S!Connect, S!SelectProperty, S!Use, S!Revise, S!SyncRead, S!SyncQuery, S!SyncFails, S!WeekPasses
<1> QED BY <1>2, <1>3, <1>4, <1>5

LEMMA OnePropertyStep == ASSUME SearchInv, setting \in Settings, Searching, OneProperty PROVE OneProperty'
<1> SUFFICES ASSUME setting.connects <= 1
             PROVE  /\ connections' = <<>> => snapshots' = <<>> /\ S!Running' = {}
                    /\ \A p \in ToSet(connections') : /\ ToSet(connections') = {p}
                                                      /\ \A n \in ToSet(snapshots') : n.property = p
                                                      /\ \A s \in S!Running' : syncs'[s].property = p
    BY DEF Searching, OneProperty
<1> DEFINE Now == \A s \in S!Running' : s \in S!Running /\ syncs'[s].property = syncs[s].property
<1>1. /\ connections \in Seq(Properties) /\ snapshots \in Seq(Snapshot) /\ syncs \in [Syncs -> S!Sync]
      /\ connections = <<>> => snapshots = <<>> /\ S!Running = {}
      /\ \A p \in ToSet(connections) : /\ ToSet(connections) = {p}
                                       /\ \A n \in ToSet(snapshots) : n.property = p
                                       /\ \A s \in S!Running : syncs[s].property = p
    BY DEF SearchInv, S!SearchTypes, Snapshot, OneProperty
<1>2. connections # <<>> => connections[1] \in ToSet(connections)
    BY <1>1, LenProperties, EmptySeq DEF ToSet
<1>3. CASE UNCHANGED <<connections, snapshots>> /\ Now
    BY <1>1, <1>3
<1>4. ASSUME NEW p \in Properties, Cardinality(ToSet(connections) \cup {p}) <= setting.connects, S!Use(p) PROVE OneProperty'
    <2> DEFINE left == S!Without(connections, {p})
               all == ToSet(connections) \cup {p}
    <2>1. IsFiniteSet(all) /\ Cardinality(all) \in Nat
        <3>1. all \subseteq Properties
            BY <1>1, ElementOfSeq, LenProperties DEF ToSet
        <3> QED BY <3>1, ReportsAssumption, FS_Subset, FS_CardinalityType
    <2>2. Cardinality(all) <= 1
        BY <1>4, <2>1, ReportsAssumption DEF Setting
    <2>3. \A x \in ToSet(connections) : x = p
        BY <2>1, <2>2, AtMostOne
    <2>4. left \in Seq(Properties) /\ ToSet(left) = ToSet(connections) \ {p}
        BY <1>1, WithoutKeeps
    <2>5. connections' = <<p>> \o left /\ UNCHANGED <<snapshots, syncs>>
        BY <1>4 DEF S!Use
    <2>6. ToSet(<<p>> \o left) = {p} \cup ToSet(left) /\ <<p>> \o left # <<>>
        BY <2>4, InFront
    <2> HIDE DEF left
    <2>7. ToSet(connections') = {p} /\ connections' # <<>>
        BY <2>3, <2>4, <2>5, <2>6
    <2>8. connections # <<>> => p \in ToSet(connections)
        BY <1>2, <2>3
    <2>9. (\A n \in ToSet(snapshots) : n.property = p) /\ \A s \in S!Running : syncs[s].property = p
        <3>1. ToSet(<<>>) = {}
            BY DEF ToSet
        <3> QED BY <1>1, <2>8, <3>1
    <2>10. S!Running' = S!Running /\ ToSet(snapshots') = ToSet(snapshots)
        BY <2>5 DEF S!Running
    <2> QED BY <2>5, <2>7, <2>9, <2>10 DEF OneProperty
<1>5. ASSUME NEW s \in Syncs, NEW kind, NEW byWorker, S!SyncRead(s, kind, byWorker) PROVE OneProperty'
    <2>1. UNCHANGED <<connections, snapshots>> /\ connections # <<>> /\ S!InForce = connections[1]
        BY <1>5, InForceTyped DEF S!SyncRead
    <2>2. \A q \in Syncs : syncs'[q] = syncs[q] \/ syncs'[q].property = S!InForce
        BY <1>1, <1>5 DEF S!SyncRead
    <2>3. \A q \in S!Running' : syncs'[q].property = S!InForce \/ (q \in S!Running /\ syncs'[q] = syncs[q])
        BY <2>2 DEF S!Running
    <2>4. ASSUME NEW p \in ToSet(connections), NEW q \in S!Running' PROVE syncs'[q].property = p
        BY <1>1, <1>2, <2>1, <2>3
    <2> QED BY <1>1, <2>1, <2>4 DEF OneProperty
<1>6. ASSUME NEW s \in Syncs, S!StoreInsights(s) PROVE OneProperty'
    <2> DEFINE sync == syncs[s]
               own == S!InsightsOf(sync.property, sync.week)
               left == S!Without(snapshots, own)
               new == [property |-> sync.property, week |-> sync.week, report |-> sync.got]
    <2>1. /\ snapshots' = IF sync.got.page = "empty" THEN left ELSE <<new>> \o left
          /\ connections' = connections /\ s \in S!Running /\ sync \in S!Sync /\ sync.property \in Properties
        BY <1>6 DEF S!StoreInsights, S!Running, SearchInv, S!SearchTypes
    <2>2. new \in Snapshot /\ new.property = sync.property
        BY <2>1 DEF Snapshot, S!Sync
    <2>3. left \in Seq(Snapshot) /\ ToSet(left) \subseteq ToSet(snapshots)
        BY <1>1, WithoutKeeps
    <2>4. ToSet(<<new>> \o left) = {new} \cup ToSet(left)
        BY <2>2, <2>3, InFront
    <2> HIDE DEF new, left
    <2>5. \A n \in ToSet(snapshots') : n = new \/ n \in ToSet(snapshots)
        BY <2>1, <2>3, <2>4
    <2>6. Now
        BY <1>1, <1>6, SyncRecords DEF S!StoreInsights, S!End, S!Running
    <2>7. connections # <<>>
        BY <1>1, <2>1
    <2>8. ASSUME NEW p \in ToSet(connections), NEW n \in ToSet(snapshots') PROVE n.property = p
        BY <1>1, <2>1, <2>2, <2>5
    <2> QED BY <1>1, <2>1, <2>6, <2>7, <2>8 DEF OneProperty
<1>7. ASSUME NEW s \in Syncs, S!SyncQuery(s) \/ S!StoreMetrics(s) \/ S!SyncFails(s) PROVE UNCHANGED <<connections, snapshots>> /\ Now
    <2>1. CASE S!SyncQuery(s)
        <3>1. \A q \in Syncs : syncs'[q] = syncs[q] \/ (q = s /\ syncs[s].pc # "idle" /\ syncs'[s].property = syncs[s].property)
            BY <1>1, <2>1 DEF S!SyncQuery, S!Sync
        <3> QED BY <2>1, <3>1 DEF S!SyncQuery, S!Running
    <2>2. CASE S!StoreMetrics(s) \/ S!SyncFails(s)
        BY <1>1, <2>2, SyncRecords DEF S!StoreMetrics, S!SyncFails, S!End, S!Running
    <2> QED BY <1>7, <2>1, <2>2
<1>8. ASSUME (\E p, page : S!Revise(p, page)) \/ S!WeekPasses PROVE UNCHANGED <<connections, snapshots>> /\ Now
    BY <1>8 DEF S!Revise, S!WeekPasses, S!Running
<1>9. \/ \E p \in Properties : Cardinality(ToSet(connections) \cup {p}) <= setting.connects /\ S!Use(p)
      \/ \E s \in Syncs : \/ \E kind, byWorker : S!SyncRead(s, kind, byWorker)
                          \/ S!StoreInsights(s) \/ S!SyncQuery(s) \/ S!StoreMetrics(s) \/ S!SyncFails(s)
      \/ (\E p, page : S!Revise(p, page)) \/ S!WeekPasses
    BY DEF Searching, S!Connect, S!SelectProperty
<1>10. setting' = setting
    BY DEF Searching
<1> HIDE DEF Now
<1>11. OneProperty' => /\ connections' = <<>> => snapshots' = <<>> /\ S!Running' = {}
                       /\ \A p \in ToSet(connections') : /\ ToSet(connections') = {p}
                                                         /\ \A n \in ToSet(snapshots') : n.property = p
                                                         /\ \A s \in S!Running' : syncs'[s].property = p
    BY <1>10 DEF OneProperty
<1> QED BY <1>3, <1>4, <1>5, <1>6, <1>7, <1>8, <1>9, <1>11

LEMMA InForceRead == ASSUME SearchInv, OneProperty PROVE AuditsReadInForce
<1> SUFFICES ASSUME setting.connects <= 1, snapshots # <<>> PROVE snapshots[1].property = connections[1]
    BY DEF AuditsReadInForce
<1>1. connections \in Seq(Properties) /\ snapshots \in Seq(Snapshot) /\ connections # <<>>
    BY DEF SearchInv, S!SearchTypes, OneProperty, Snapshot
<1>2. connections[1] \in ToSet(connections) /\ snapshots[1] \in ToSet(snapshots)
    BY <1>1, LenProperties, EmptySeq DEF ToSet
<1> QED BY <1>2 DEF OneProperty

-----------------------------------------------------------------------------
(* Requests *)

LEMMA SameSizes == \A A : B!Cardinality(A) = Cardinality(A)
BY DEF Cardinality, B!Cardinality

Ask(pc, of, tags, found, next) == [pc |-> pc, of |-> of, tags |-> tags, found |-> found, next |-> next]

Begins(r, req) == reqs[r].pc = "idle" /\ reqs' = [reqs EXCEPT ![r] = req] /\ UNCHANGED <<content, audits, issues, tasks>>

LEMMA Begin ==
    ASSUME NEW r, NEW pc, NEW of, NEW tags, NEW found, NEW next, NEW req, req = Ask("idle", of, tags, found, next)
    PROVE  B!Begin(r, pc, req) <=> Begins(r, Ask(pc, of, tags, found, next))
<1>1. [req EXCEPT !.pc = pc] = Ask(pc, of, tags, found, next)
    BY DEF Ask
<1> QED BY <1>1 DEF B!Begin, Begins

LEMMA IdleAsks == B!IdleReq = Ask("idle", {}, <<>>, {}, "OPEN")
BY DEF B!IdleReq, Ask

(* A record with another value of one field. *)
LEMMA AnotherOf ==
    ASSUME NEW pc, NEW of, NEW tags, NEW found, NEW next, NEW v, NEW req, req = Ask(pc, of, tags, found, next)
    PROVE  [req EXCEPT !.of = v] = Ask(pc, v, tags, found, next)
<1>1. [req EXCEPT !.of = v] = [k \in DOMAIN req |-> IF k = "of" THEN v ELSE req[k]]
    OBVIOUS
<1>2. [k \in DOMAIN req |-> IF k = "of" THEN v ELSE req[k]] = Ask(pc, v, tags, found, next)
    BY DEF Ask
<1> QED BY <1>1, <1>2

LEMMA AnotherTags ==
    ASSUME NEW pc, NEW of, NEW tags, NEW found, NEW next, NEW v, NEW req, req = Ask(pc, of, tags, found, next)
    PROVE  [req EXCEPT !.tags = v] = Ask(pc, of, v, found, next)
<1>1. [req EXCEPT !.tags = v] = [k \in DOMAIN req |-> IF k = "tags" THEN v ELSE req[k]]
    OBVIOUS
<1>2. [k \in DOMAIN req |-> IF k = "tags" THEN v ELSE req[k]] = Ask(pc, of, v, found, next)
    BY DEF Ask
<1> QED BY <1>1, <1>2

LEMMA AnotherFound ==
    ASSUME NEW pc, NEW of, NEW tags, NEW found, NEW next, NEW v, NEW req, req = Ask(pc, of, tags, found, next)
    PROVE  [req EXCEPT !.found = v] = Ask(pc, of, tags, v, next)
<1>1. [req EXCEPT !.found = v] = [k \in DOMAIN req |-> IF k = "found" THEN v ELSE req[k]]
    OBVIOUS
<1>2. [k \in DOMAIN req |-> IF k = "found" THEN v ELSE req[k]] = Ask(pc, of, tags, v, next)
    BY DEF Ask
<1> QED BY <1>1, <1>2

LEMMA AnotherNext ==
    ASSUME NEW pc, NEW of, NEW tags, NEW found, NEW next, NEW v, NEW req, req = Ask(pc, of, tags, found, next)
    PROVE  [req EXCEPT !.next = v] = Ask(pc, of, tags, found, v)
<1>1. [req EXCEPT !.next = v] = [k \in DOMAIN req |-> IF k = "next" THEN v ELSE req[k]]
    OBVIOUS
<1>2. [k \in DOMAIN req |-> IF k = "next" THEN v ELSE req[k]] = Ask(pc, of, tags, found, v)
    BY DEF Ask
<1> QED BY <1>1, <1>2

LEMMA AskWith ==
    ASSUME NEW of, NEW tags, NEW found, NEW next
    PROVE  /\ [B!IdleReq EXCEPT !.of = of, !.tags = tags] = Ask("idle", of, tags, {}, "OPEN")
           /\ [B!IdleReq EXCEPT !.of = of, !.next = next] = Ask("idle", of, <<>>, {}, next)
           /\ [B!IdleReq EXCEPT !.of = of, !.tags = tags, !.found = found] = Ask("idle", of, tags, found, "OPEN")
<1>1. ASSUME NEW e, NEW one, one = Ask("idle", of, e, {}, "OPEN") PROVE [one EXCEPT !.tags = tags] = Ask("idle", of, tags, {}, "OPEN")
    BY <1>1, AnotherTags
<1>2. ASSUME NEW e, NEW one, one = Ask("idle", of, e, {}, "OPEN") PROVE [one EXCEPT !.next = next] = Ask("idle", of, e, {}, next)
    BY <1>2, AnotherNext
<1>3. ASSUME NEW two, two = Ask("idle", of, tags, {}, "OPEN") PROVE [two EXCEPT !.found = found] = Ask("idle", of, tags, found, "OPEN")
    BY <1>3, AnotherFound
<1> DEFINE One == [B!IdleReq EXCEPT !.of = of]
           Two == [One EXCEPT !.tags = tags]
<1>4. One = Ask("idle", of, <<>>, {}, "OPEN")
    BY IdleAsks, AnotherOf
<1> HIDE DEF One
<1>5. Two = Ask("idle", of, tags, {}, "OPEN")
    BY <1>1, <1>4
<1>6. [One EXCEPT !.next = next] = Ask("idle", of, <<>>, {}, next)
    BY <1>2, <1>4
<1> HIDE DEF Two
<1>7. [Two EXCEPT !.found = found] = Ask("idle", of, tags, found, "OPEN")
    BY <1>3, <1>5
<1> QED BY <1>5, <1>6, <1>7 DEF One, Two

(* The task requests: a finding, the findings of an audit, or a candidate. *)
Sought(sources, tags) ==
    \/ \E f \in B!Findings : /\ sources = {<<"audit", f>>} /\ issues[f].status # "none"
                             /\ tags = [s \in sources |-> issues[f].impact]
    \/ \E a \in 1 .. audits, st \in B!IssueStatuses : /\ sources = FromAudit(a, st)
                                                      /\ tags = [s \in sources |-> issues[s[2]].impact]
    \/ \E c \in Signals \cup {Chance} : /\ sources = {<<"candidate", c>>}
                                        /\ tags = [s \in sources |-> NoImpact]

Planned(req) ==
    \E sources, tags : /\ req = Ask("create", sources, tags, {s \in sources : B!Rows(s) # {}}, "OPEN")
                       /\ Sought(sources, tags)

Audited(req) == audits < MaxAudits /\ req = Ask("audit", B!Generated, [f \in B!Generated |-> <<B!Impact, B!Baseline(f)>>], {}, "OPEN")
Triaged(req) == \E f \in B!Findings, st \in B!IssueStatuses : issues[f].status \notin {"none", st} /\ req = Ask("triage", {f}, <<>>, {}, st)
Changed(req) ==
    \E i \in DOMAIN tasks :
        \/ \E st \in B!TaskStatuses : req = Ask("status", {i}, <<>>, {}, st)
        \/ \E o : tasks[i].status = "DONE" /\ req = Ask("outcome", {i}, <<>>, {}, o)
        \/ \E d : req = Ask("due", {i}, <<>>, {}, d)

(* What a step of a request is: it has read something, it writes, or it gives up. *)
Writes(r) == B!AuditWrite(r) \/ B!TriageWrite(r) \/ B!CreateWrite(r) \/ B!StatusWrite(r) \/ B!OutcomeWrite(r) \/ B!DueWrite(r)

LEMMA RequestIs ==
    ASSUME NEW r \in Reqs, Request(r)
    PROVE  \/ \E req : Begins(r, req) /\ (Audited(req) \/ Triaged(req) \/ Planned(req) \/ Changed(req))
           \/ Writes(r) \/ B!Abandon(r)
<1> DEFINE Reads == \E req : Begins(r, req) /\ (Audited(req) \/ Triaged(req) \/ Planned(req) \/ Changed(req))
<1>1. ASSUME B!AuditRead(r) PROVE Reads
    <2> DEFINE of == B!Generated
               tags == [f \in B!Generated |-> <<B!Impact, B!Baseline(f)>>]
    <2> HIDE DEF of, tags
    <2>1. [B!IdleReq EXCEPT !.of = of, !.tags = tags] = Ask("idle", of, tags, {}, "OPEN")
        BY AskWith
    <2>2. audits < MaxAudits /\ B!Begin(r, "audit", [B!IdleReq EXCEPT !.of = of, !.tags = tags])
        BY <1>1 DEF B!AuditRead, of, tags
    <2>3. Begins(r, Ask("audit", of, tags, {}, "OPEN"))
        BY <2>1, <2>2, Begin
    <2>4. Audited(Ask("audit", of, tags, {}, "OPEN"))
        BY <2>2 DEF Audited, of, tags
    <2> QED BY <2>3, <2>4
<1>2. ASSUME NEW f \in B!Findings, NEW st \in B!IssueStatuses, B!TriageRead(r, f, st) PROVE Reads
    <2>1. [B!IdleReq EXCEPT !.of = {f}, !.next = st] = Ask("idle", {f}, <<>>, {}, st)
        BY AskWith
    <2>2. issues[f].status \notin {"none", st} /\ Begins(r, Ask("triage", {f}, <<>>, {}, st))
        BY <1>2, <2>1, Begin DEF B!TriageRead
    <2>3. Triaged(Ask("triage", {f}, <<>>, {}, st))
        BY <2>2 DEF Triaged
    <2> QED BY <2>2, <2>3
<1>3. ASSUME NEW sources, NEW tags, B!Plan(r, sources, tags)
      PROVE  Begins(r, Ask("create", sources, tags, {s \in sources : B!Rows(s) # {}}, "OPEN"))
    <2> DEFINE found == {s \in sources : B!Rows(s) # {}}
    <2>1. B!Begin(r, "create", [B!IdleReq EXCEPT !.of = sources, !.tags = tags, !.found = found])
        BY <1>3 DEF B!Plan
    <2> HIDE DEF found
    <2>2. [B!IdleReq EXCEPT !.of = sources, !.tags = tags, !.found = found] = Ask("idle", sources, tags, found, "OPEN")
        BY AskWith
    <2>3. Begins(r, Ask("create", sources, tags, found, "OPEN"))
        BY <2>1, <2>2, Begin
    <2> QED BY <2>3 DEF found
<1>4. ASSUME NEW f \in B!Findings, B!FromIssueRead(r, f) PROVE Reads
    <2> DEFINE sources == {<<"audit", f>>}
               tags == [s \in sources |-> issues[f].impact]
               req == Ask("create", sources, tags, {s \in sources : B!Rows(s) # {}}, "OPEN")
    <2>1. issues[f].status # "none" /\ B!Plan(r, sources, tags)
        BY <1>4 DEF B!FromIssueRead
    <2>2. Planned(req)
        <3>1. Sought(sources, tags)
            BY <2>1 DEF Sought
        <3> QED BY <3>1 DEF Planned
    <2> HIDE DEF sources, tags
    <2>3. Begins(r, req)
        BY <1>3, <2>1
    <2> QED BY <2>2, <2>3
<1>5. ASSUME NEW a \in 1 .. audits, NEW st \in B!IssueStatuses, B!FromAuditRead(r, a, st) PROVE Reads
    <2> DEFINE sources == FromAudit(a, st)
               tags == [s \in sources |-> issues[s[2]].impact]
               req == Ask("create", sources, tags, {s \in sources : B!Rows(s) # {}}, "OPEN")
    <2>1. B!Plan(r, sources, tags)
        BY <1>5 DEF B!FromAuditRead, FromAudit
    <2>2. Planned(req)
        BY DEF Planned, Sought
    <2> HIDE DEF sources, tags
    <2>3. Begins(r, req)
        BY <1>3, <2>1
    <2> QED BY <2>2, <2>3
<1>6. ASSUME NEW c \in Signals \cup {Chance}, B!FromCandidateRead(r, c) PROVE Reads
    <2> DEFINE sources == {<<"candidate", c>>}
               tags == [s \in sources |-> NoImpact]
               req == Ask("create", sources, tags, {s \in sources : B!Rows(s) # {}}, "OPEN")
    <2>1. B!Plan(r, sources, tags)
        BY <1>6 DEF B!FromCandidateRead
    <2>2. Planned(req)
        BY DEF Planned, Sought
    <2> HIDE DEF sources, tags
    <2>3. Begins(r, req)
        BY <1>3, <2>1
    <2> QED BY <2>2, <2>3
<1>7. ASSUME NEW i \in DOMAIN tasks, NEW pc, NEW next, B!Change(r, pc, i, next)
      PROVE  Begins(r, Ask(pc, {i}, <<>>, {}, next))
    <2>1. [B!IdleReq EXCEPT !.of = {i}, !.next = next] = Ask("idle", {i}, <<>>, {}, next)
        BY AskWith
    <2> QED BY <1>7, <2>1, Begin DEF B!Change
<1>8. ASSUME NEW i \in DOMAIN tasks, NEW st \in B!TaskStatuses, B!StatusRead(r, i, st) PROVE Reads
    <2>1. Begins(r, Ask("status", {i}, <<>>, {}, st)) /\ Changed(Ask("status", {i}, <<>>, {}, st))
        BY <1>7, <1>8 DEF B!StatusRead, Changed
    <2> QED BY <2>1
<1>9. ASSUME NEW i \in DOMAIN tasks, NEW o, B!OutcomeRead(r, i, o) PROVE Reads
    <2>1. Begins(r, Ask("outcome", {i}, <<>>, {}, o)) /\ Changed(Ask("outcome", {i}, <<>>, {}, o))
        BY <1>7, <1>9 DEF B!OutcomeRead, Changed
    <2> QED BY <2>1
<1>10. ASSUME NEW i \in DOMAIN tasks, NEW d, B!DueRead(r, i, d) PROVE Reads
    <2>1. Begins(r, Ask("due", {i}, <<>>, {}, d)) /\ Changed(Ask("due", {i}, <<>>, {}, d))
        BY <1>7, <1>10 DEF B!DueRead, Changed
    <2> QED BY <2>1
<1> HIDE DEF Reads
<1>11. Reads \/ Writes(r) \/ B!Abandon(r)
    BY <1>1, <1>2, <1>4, <1>5, <1>6, <1>8, <1>9, <1>10 DEF Request, Writes
<1> QED BY <1>11 DEF Reads

(* The rows of a set, in some order, each once. *)
LEMMA InOrder ==
    ASSUME NEW A, IsFiniteSet(A)
    PROVE  /\ B!SetToSeq(A) \in Seq(A) /\ DOMAIN B!SetToSeq(A) = 1 .. Len(B!SetToSeq(A))
           /\ \A k, l \in DOMAIN B!SetToSeq(A) : B!SetToSeq(A)[k] = B!SetToSeq(A)[l] => k = l
           /\ \A x \in A : \E k \in DOMAIN B!SetToSeq(A) : B!SetToSeq(A)[k] = x
<1> DEFINE n == Cardinality(A)
           list == CHOOSE f \in [1 .. n -> A] : \A k, l \in DOMAIN f : f[k] = f[l] => k = l
<1>1. n \in Nat /\ ExistsBijection(1 .. n, A)
    BY FS_CardinalityType
<1>2. IsFiniteSet(1 .. n) /\ Cardinality(1 .. n) = n
    BY <1>1, FS_Interval
<1>3. list = B!SetToSeq(A)
    BY SameSizes DEF B!SetToSeq, B!IsInjective
<1>4. list \in [1 .. n -> A] /\ \A k, l \in DOMAIN list : list[k] = list[l] => k = l
    <2>1. \E f \in [1 .. n -> A] : \A k, l \in DOMAIN f : f[k] = f[l] => k = l
        BY <1>1 DEF ExistsBijection, Bijection, Injection, IsInjective
    <2> HIDE DEF n
    <2> QED BY <2>1
<1> HIDE DEF list
<1>5. list \in Injection(1 .. n, A)
    BY <1>4 DEF Injection, IsInjective
<1>6. list \in Surjection(1 .. n, A)
    BY <1>2, <1>5, FS_Injection
<1>7. list \in Seq(A) /\ Len(list) = n
    BY <1>1, <1>4, LenProperties
<1> QED BY <1>3, <1>4, <1>6, <1>7 DEF Surjection

LEMMA Created ==
    ASSUME BacklogTypes, NEW r \in Reqs, B!CreateWrite(r)
    PROVE  /\ tasks' \in Seq(TaskRow)
           /\ \A i \in DOMAIN tasks : /\ i \in DOMAIN tasks' /\ tasks'[i].source = tasks[i].source
                                      /\ tasks'[i].status = tasks[i].status /\ tasks'[i].outcome = tasks[i].outcome
                                      /\ tasks'[i].late = tasks[i].late
           /\ \E id \in Bijection(reqs[r].of \ reqs[r].found, DOMAIN tasks' \ DOMAIN tasks) :
                 \A s \in reqs[r].of \ reqs[r].found : tasks'[id[s]] = B!Task(s, reqs[r].tags[s])
<1> DEFINE req == reqs[r]
           new == req.of \ req.found
           added == {B!Task(s, req.tags[s]) : s \in new}
           list == B!SetToSeq(added)
           n == Len(tasks)
           k == Len(list)
           OldTag(i) == /\ tasks[i].source \in req.found
                        /\ i = CHOOSE j \in B!Rows(tasks[i].source) : \A l \in B!Rows(tasks[i].source) : j <= l
                        /\ req.tags[tasks[i].source] # NoImpact
           Tagged(i) == IF OldTag(i) THEN [tasks[i] EXCEPT !.tag = req.tags[tasks[i].source]] ELSE tasks[i]
           tagged == [i \in DOMAIN tasks |-> Tagged(i)]
<1>1. /\ tasks \in Seq(TaskRow) /\ n \in Nat /\ DOMAIN tasks = 1 .. n
      /\ req.of \subseteq B!Sources /\ IsFiniteSet(req.of) /\ req.found \subseteq req.of /\ req.tags \in [req.of -> Impacts]
    <2>1. req.pc = "create"
        BY DEF B!CreateWrite
    <2>2. req.of \subseteq B!Sources /\ IsFiniteSet(req.of) /\ req.found \subseteq req.of /\ req.tags \in [req.of -> Impacts]
        BY <2>1 DEF BacklogTypes, Asks, B!IdleReq
    <2> QED BY <2>2, LenProperties DEF BacklogTypes
<1>2. tasks' = tagged \o list
    BY DEF B!CreateWrite
<1>3. IsFiniteSet(new)
    BY <1>1, FS_Subset
<1>4. \A s \in new : B!Task(s, req.tags[s]) \in TaskRow /\ B!Task(s, req.tags[s]).source = s
    BY <1>1 DEF B!Task, TaskRow, B!TaskStatuses
<1>5. IsFiniteSet(added) /\ added \subseteq TaskRow
    <2> DEFINE make == [s \in new |-> B!Task(s, req.tags[s])]
    <2>1. make \in Surjection(new, added)
        BY DEF Surjection
    <2> HIDE DEF make, new
    <2> QED BY <1>3, <1>4, <2>1, FS_Surjection
<1>6. /\ list \in Seq(added) /\ DOMAIN list = 1 .. k /\ k \in Nat
      /\ \A a, b \in DOMAIN list : list[a] = list[b] => a = b
      /\ \A x \in added : \E a \in DOMAIN list : list[a] = x
    <2> HIDE DEF added
    <2>1. /\ list \in Seq(added) /\ DOMAIN list = 1 .. k
          /\ \A a, b \in DOMAIN list : list[a] = list[b] => a = b
          /\ \A x \in added : \E a \in DOMAIN list : list[a] = x
        BY <1>5, InOrder
    <2> QED BY <2>1, LenProperties
<1>7. list \in Seq(TaskRow)
    BY <1>5, <1>6, SeqMonotonic
<1>8. ASSUME NEW i \in DOMAIN tasks
      PROVE  /\ Tagged(i) \in TaskRow /\ Tagged(i).source = tasks[i].source
             /\ Tagged(i).status = tasks[i].status /\ Tagged(i).outcome = tasks[i].outcome /\ Tagged(i).late = tasks[i].late
    <2>1. tasks[i] \in TaskRow
        BY <1>1, ElementOfSeq
    <2>2. CASE OldTag(i)
        <3>1. req.tags[tasks[i].source] \in Impacts
            BY <1>1, <2>2
        <3> DEFINE tag == req.tags[tasks[i].source]
        <3>2. Tagged(i) = [tasks[i] EXCEPT !.tag = tag]
            BY <2>2
        <3> HIDE DEF tag, Tagged
        <3> QED BY <2>1, <3>1, <3>2 DEF TaskRow, tag
    <2>3. CASE ~OldTag(i)
        BY <2>1, <2>3
    <2> QED BY <2>2, <2>3
<1> HIDE DEF Tagged, list, added, new
<1>9. tagged \in Seq(TaskRow) /\ Len(tagged) = n
    BY <1>1, <1>8, LenProperties
<1> HIDE DEF n, k, tagged
<1>10. /\ tasks' \in Seq(TaskRow) /\ Len(tasks') = n + k
       /\ \A i \in 1 .. n + k : tasks'[i] = IF i <= n THEN tagged[i] ELSE list[i - n]
    BY <1>2, <1>7, <1>9, ConcatProperties DEF k
<1>11. DOMAIN tasks' = 1 .. n + k
    BY <1>10, LenProperties
<1>12. ASSUME NEW i \in DOMAIN tasks
       PROVE  i \in DOMAIN tasks' /\ tasks'[i] = Tagged(i)
    BY <1>1, <1>6, <1>10, <1>11, <1>12 DEF tagged
<1>13. \E id \in Bijection(new, DOMAIN tasks' \ DOMAIN tasks) : \A s \in new : tasks'[id[s]] = B!Task(s, req.tags[s])
    <2> DEFINE Row(s) == B!Task(s, req.tags[s])
               At(s) == CHOOSE a \in 1 .. k : list[a] = Row(s)
               id == [s \in new |-> n + At(s)]
    <2>1. DOMAIN tasks' \ DOMAIN tasks = {n + a : a \in 1 .. k}
        <3>1. \A i \in DOMAIN tasks' \ DOMAIN tasks : i - n \in 1 .. k /\ i = n + (i - n)
            BY <1>1, <1>6, <1>11
        <3>2. \A a \in 1 .. k : n + a \in DOMAIN tasks' /\ n + a \notin DOMAIN tasks
            BY <1>1, <1>6, <1>11
        <3> QED BY <3>1, <3>2
    <2>2. \A s \in new : At(s) \in 1 .. k /\ list[At(s)] = Row(s)
        <3>1. \A s \in new : Row(s) \in added
            BY DEF added
        <3>2. \A s \in new : \E a \in 1 .. k : list[a] = Row(s)
            BY <1>6, <3>1
        <3> QED BY <3>2
    <2>3. \A a \in 1 .. k : \E s \in new : list[a] = Row(s)
        <3>1. \A a \in 1 .. k : list[a] \in added
            BY <1>6, ElementOfSeq
        <3> QED BY <3>1 DEF added
    <2> HIDE DEF At
    <2>4. \A s \in new : Row(s).source = s
        BY <1>4 DEF new
    <2> HIDE DEF Row
    <2>5. \A s, t \in new : At(s) = At(t) => s = t
        BY <2>2, <2>4
    <2>6. \A a \in 1 .. k : \E s \in new : At(s) = a
        BY <1>6, <2>2, <2>3
    <2>7. /\ id \in [new -> DOMAIN tasks' \ DOMAIN tasks] /\ DOMAIN id = new
          /\ \A s \in new : id[s] = n + At(s)
        BY <2>1, <2>2
    <2> HIDE DEF id
    <2>8. \A s, t \in new : id[s] = id[t] => s = t
        BY <1>1, <2>2, <2>5, <2>7
    <2>9. \A i \in DOMAIN tasks' \ DOMAIN tasks : \E s \in new : id[s] = i
        BY <2>1, <2>6, <2>7
    <2>10. id \in Bijection(new, DOMAIN tasks' \ DOMAIN tasks)
        BY <2>7, <2>8, <2>9 DEF Bijection, Injection, Surjection, IsInjective
    <2>11. \A s \in new : tasks'[id[s]] = Row(s)
        <3>1. \A a \in 1 .. k : tasks'[n + a] = list[a]
            BY <1>1, <1>6, <1>10
        <3> QED BY <2>2, <2>7, <3>1
    <2> QED BY <2>10, <2>11 DEF Row
<1>14. \A i \in DOMAIN tasks : /\ i \in DOMAIN tasks' /\ tasks'[i].source = tasks[i].source
                               /\ tasks'[i].status = tasks[i].status /\ tasks'[i].outcome = tasks[i].outcome
                               /\ tasks'[i].late = tasks[i].late
    BY <1>8, <1>12
<1> QED BY <1>10, <1>13, <1>14 DEF new

(* A change of one task leaves the others, and of that task what it does not set. *)
WithStatus(t, next) == [t EXCEPT !.status = next, !.outcome = next = "DONE" /\ @]
WithOutcome(t, next) == [t EXCEPT !.outcome = next = "verified"]
WithDue(t, next) == [t EXCEPT !.late = next = "past"]

LEMMA TaskChanged ==
    ASSUME NEW old \in TaskRow, NEW next
    PROVE  /\ /\ next \in B!TaskStatuses => WithStatus(old, next) \in TaskRow
              /\ WithStatus(old, next).source = old.source /\ WithStatus(old, next).status = next
              /\ WithStatus(old, next).outcome <=> next = "DONE" /\ old.outcome
              /\ WithStatus(old, next).late = old.late
           /\ /\ WithOutcome(old, next) \in TaskRow /\ WithOutcome(old, next).source = old.source
              /\ WithOutcome(old, next).status = old.status
              /\ WithOutcome(old, next).outcome <=> next = "verified"
              /\ WithOutcome(old, next).late = old.late
           /\ /\ WithDue(old, next) \in TaskRow /\ WithDue(old, next).source = old.source
              /\ WithDue(old, next).status = old.status /\ WithDue(old, next).outcome = old.outcome
              /\ WithDue(old, next).late <=> next = "past"
<1>1. /\ old.source \in B!Sources /\ old.status \in B!TaskStatuses /\ old.outcome \in BOOLEAN /\ old.late \in BOOLEAN
      /\ old.tag \in Impacts
    BY DEF TaskRow
<1>2. ASSUME NEW flag \in BOOLEAN PROVE [old EXCEPT !.outcome = flag] \in TaskRow /\ [old EXCEPT !.late = flag] \in TaskRow
    BY <1>1 DEF TaskRow
<1>3. ASSUME NEW flag \in BOOLEAN, next \in B!TaskStatuses PROVE [old EXCEPT !.status = next, !.outcome = flag] \in TaskRow
    BY <1>1, <1>3 DEF TaskRow
<1>4. ASSUME NEW flag
      PROVE  /\ LET new == [old EXCEPT !.status = next, !.outcome = flag]
                IN  new.source = old.source /\ new.status = next /\ new.outcome = flag /\ new.late = old.late
             /\ LET new == [old EXCEPT !.outcome = flag]
                IN  new.source = old.source /\ new.status = old.status /\ new.outcome = flag /\ new.late = old.late
             /\ LET new == [old EXCEPT !.late = flag]
                IN  new.source = old.source /\ new.status = old.status /\ new.outcome = old.outcome /\ new.late = flag
    BY DEF TaskRow
<1>5. [old EXCEPT !.status = next, !.outcome = next = "DONE" /\ @] = [old EXCEPT !.status = next, !.outcome = next = "DONE" /\ old.outcome]
    BY DEF TaskRow
<1> QED BY <1>1, <1>2, <1>3, <1>4, <1>5 DEF WithStatus, WithOutcome, WithDue

LEMMA ChangedIs ==
    ASSUME BacklogTypes, NEW r \in Reqs, B!StatusWrite(r) \/ B!OutcomeWrite(r) \/ B!DueWrite(r)
    PROVE  /\ tasks' \in Seq(TaskRow) /\ DOMAIN tasks' = DOMAIN tasks
           /\ \A i \in DOMAIN tasks : /\ tasks'[i].source = tasks[i].source
                                      /\ i \notin reqs[r].of => tasks'[i] = tasks[i]
           /\ B!StatusWrite(r) => \A i \in reqs[r].of : /\ tasks'[i].status = reqs[r].next /\ tasks'[i].late = tasks[i].late
                                                        /\ tasks'[i].outcome <=> reqs[r].next = "DONE" /\ tasks[i].outcome
           /\ B!OutcomeWrite(r) => \A i \in reqs[r].of : /\ tasks'[i].status = tasks[i].status /\ tasks'[i].late = tasks[i].late
                                                         /\ tasks'[i].outcome <=> reqs[r].next = "verified"
           /\ B!DueWrite(r) => \A i \in reqs[r].of : /\ tasks'[i].status = tasks[i].status /\ tasks'[i].outcome = tasks[i].outcome
                                                     /\ tasks'[i].late <=> reqs[r].next = "past"
<1> DEFINE next == reqs[r].next
           of == reqs[r].of
<1>1. /\ tasks \in Seq(TaskRow) /\ Len(tasks) \in Nat /\ DOMAIN tasks = 1 .. Len(tasks)
      /\ \A i \in DOMAIN tasks : tasks[i] \in TaskRow
    BY LenProperties, ElementOfSeq DEF BacklogTypes
<1>2. of \subseteq DOMAIN tasks /\ (reqs[r].pc = "status" => next \in B!TaskStatuses)
    <2>1. reqs[r].pc \in {"status", "outcome", "due"}
        BY DEF B!StatusWrite, B!OutcomeWrite, B!DueWrite
    <2> QED BY <2>1 DEF BacklogTypes, Asks, B!IdleReq
<1>3. B!StatusWrite(r) => /\ tasks' = [i \in DOMAIN tasks |-> IF i \in of THEN WithStatus(tasks[i], next) ELSE tasks[i]]
                          /\ reqs[r].pc = "status"
    BY DEF B!StatusWrite, B!Set, WithStatus
<1>4. B!OutcomeWrite(r) => /\ tasks' = [i \in DOMAIN tasks |-> IF i \in of THEN WithOutcome(tasks[i], next) ELSE tasks[i]]
                           /\ reqs[r].pc = "outcome"
    BY DEF B!OutcomeWrite, B!Set, WithOutcome
<1>5. B!DueWrite(r) => /\ tasks' = [i \in DOMAIN tasks |-> IF i \in of THEN WithDue(tasks[i], next) ELSE tasks[i]]
                       /\ reqs[r].pc = "due"
    BY DEF B!DueWrite, B!Set, WithDue
<1>6. \A i \in DOMAIN tasks :
         /\ /\ next \in B!TaskStatuses => WithStatus(tasks[i], next) \in TaskRow
            /\ WithStatus(tasks[i], next).source = tasks[i].source /\ WithStatus(tasks[i], next).status = next
            /\ WithStatus(tasks[i], next).outcome <=> next = "DONE" /\ tasks[i].outcome
            /\ WithStatus(tasks[i], next).late = tasks[i].late
         /\ /\ WithOutcome(tasks[i], next) \in TaskRow /\ WithOutcome(tasks[i], next).source = tasks[i].source
            /\ WithOutcome(tasks[i], next).status = tasks[i].status
            /\ WithOutcome(tasks[i], next).outcome <=> next = "verified"
            /\ WithOutcome(tasks[i], next).late = tasks[i].late
         /\ /\ WithDue(tasks[i], next) \in TaskRow /\ WithDue(tasks[i], next).source = tasks[i].source
            /\ WithDue(tasks[i], next).status = tasks[i].status /\ WithDue(tasks[i], next).outcome = tasks[i].outcome
            /\ WithDue(tasks[i], next).late <=> next = "past"
    <2> SUFFICES ASSUME NEW t \in TaskRow
                 PROVE      /\ /\ next \in B!TaskStatuses => WithStatus(t, next) \in TaskRow
                               /\ WithStatus(t, next).source = t.source /\ WithStatus(t, next).status = next
                               /\ WithStatus(t, next).outcome <=> next = "DONE" /\ t.outcome
                               /\ WithStatus(t, next).late = t.late
                            /\ /\ WithOutcome(t, next) \in TaskRow /\ WithOutcome(t, next).source = t.source
                               /\ WithOutcome(t, next).status = t.status
                               /\ WithOutcome(t, next).outcome <=> next = "verified"
                               /\ WithOutcome(t, next).late = t.late
                            /\ /\ WithDue(t, next) \in TaskRow /\ WithDue(t, next).source = t.source
                               /\ WithDue(t, next).status = t.status /\ WithDue(t, next).outcome = t.outcome
                               /\ WithDue(t, next).late <=> next = "past"
        BY <1>1
    <2> QED BY TaskChanged
<1> HIDE DEF next
<1>7. CASE B!StatusWrite(r)
    <2>1. tasks' \in [1 .. Len(tasks) -> TaskRow]
        BY <1>1, <1>2, <1>3, <1>6, <1>7
    <2>2. tasks' \in Seq(TaskRow)
        BY <1>1, <2>1
    <2>3. reqs[r].pc = "status" /\ \A i \in DOMAIN tasks : tasks'[i] = IF i \in of THEN WithStatus(tasks[i], next) ELSE tasks[i]
        BY <1>3, <1>7
    <2>4. ~B!OutcomeWrite(r) /\ ~B!DueWrite(r)
        BY <2>3, <1>4, <1>5
    <2> QED BY <1>1, <1>2, <1>6, <1>7, <2>1, <2>2, <2>3, <2>4 DEF next
<1>8. CASE B!OutcomeWrite(r)
    <2>1. tasks' \in [1 .. Len(tasks) -> TaskRow]
        BY <1>1, <1>2, <1>4, <1>6, <1>8
    <2>2. tasks' \in Seq(TaskRow)
        BY <1>1, <2>1
    <2>3. reqs[r].pc = "outcome" /\ \A i \in DOMAIN tasks : tasks'[i] = IF i \in of THEN WithOutcome(tasks[i], next) ELSE tasks[i]
        BY <1>4, <1>8
    <2>4. ~B!StatusWrite(r) /\ ~B!DueWrite(r)
        BY <2>3, <1>3, <1>5
    <2> QED BY <1>1, <1>2, <1>6, <1>8, <2>1, <2>2, <2>3, <2>4 DEF next
<1>9. CASE B!DueWrite(r)
    <2>1. tasks' \in [1 .. Len(tasks) -> TaskRow]
        BY <1>1, <1>2, <1>5, <1>6, <1>9
    <2>2. tasks' \in Seq(TaskRow)
        BY <1>1, <2>1
    <2>3. reqs[r].pc = "due" /\ \A i \in DOMAIN tasks : tasks'[i] = IF i \in of THEN WithDue(tasks[i], next) ELSE tasks[i]
        BY <1>5, <1>9
    <2>4. ~B!StatusWrite(r) /\ ~B!OutcomeWrite(r)
        BY <2>3, <1>3, <1>4
    <2> QED BY <1>1, <1>2, <1>6, <1>9, <2>1, <2>2, <2>3, <2>4 DEF next
<1> QED BY <1>7, <1>8, <1>9

LEMMA ImpactTyped == ASSUME SearchInv PROVE B!Impact \in Impacts /\ B!Generated \subseteq content \cup {Loss}
<1>1. snapshots \in Seq(Snapshot)
    BY DEF SearchInv, S!SearchTypes, Snapshot
<1>2. snapshots # <<>> => B!Latest \in Snapshot
    BY <1>1, HeadTailProperties DEF B!Latest
<1>3. \A n \in Snapshot : n.week \in Nat /\ n.report.rev \in Nat
    BY ReportsAssumption DEF Snapshot, S!Weeks, S!Report
<1>4. B!Impact \in Impacts
    BY <1>2, <1>3 DEF B!Impact, Impacts
<1> QED BY <1>4 DEF B!Generated

(* What a request asks is known, and still stands when findings and tasks only get more. *)
Question(req) == Audited(req) \/ Triaged(req) \/ Planned(req) \/ Changed(req)

LEMMA SoughtTyped ==
    ASSUME BacklogTypes, NEW sources, NEW tags, Sought(sources, tags)
    PROVE  sources \subseteq B!Sources /\ IsFiniteSet(sources) /\ tags \in [sources -> Impacts]
<1>1. \A f \in B!Findings : issues[f] \in Issue /\ issues[f].impact \in Impacts
    BY DEF BacklogTypes, Issue
<1>2. ASSUME NEW f \in B!Findings, sources = {<<"audit", f>>}, tags = [s \in sources |-> issues[f].impact]
      PROVE  sources \subseteq B!Sources /\ IsFiniteSet(sources) /\ tags \in [sources -> Impacts]
    <2>1. sources \subseteq B!Sources /\ IsFiniteSet(sources)
        BY <1>2, FS_Singleton DEF B!Sources
    <2> QED BY <1>1, <1>2, <2>1
<1>3. ASSUME NEW a, NEW st, sources = FromAudit(a, st), tags = [s \in sources |-> issues[s[2]].impact]
      PROVE  sources \subseteq B!Sources /\ IsFiniteSet(sources) /\ tags \in [sources -> Impacts]
    <2> DEFINE seen == {g \in B!Findings : issues[g].audit = a /\ issues[g].status = st}
               name == [f \in seen |-> <<"audit", f>>]
    <2>1. IsFiniteSet(seen)
        <3>1. IsFiniteSet(B!Findings)
            BY ReportsAssumption, FS_AddElement DEF B!Findings
        <3> QED BY <3>1, FS_Subset
    <2>2. name \in Surjection(seen, FromAudit(a, st))
        BY DEF Surjection, FromAudit
    <2>3. IsFiniteSet(sources)
        BY <1>3, <2>1, <2>2, FS_Surjection
    <2>4. \A s \in sources : s \in B!Sources /\ s[2] \in B!Findings
        BY <1>3 DEF FromAudit, B!Sources
    <2> QED BY <1>1, <1>3, <2>3, <2>4
<1>4. ASSUME NEW c \in Signals \cup {Chance}, sources = {<<"candidate", c>>}, tags = [s \in sources |-> NoImpact]
      PROVE  sources \subseteq B!Sources /\ IsFiniteSet(sources) /\ tags \in [sources -> Impacts]
    <2>1. IsFiniteSet(sources) /\ NoImpact \in Impacts
        BY <1>4, FS_Singleton DEF Impacts
    <2>2. <<"candidate", c>> \in B!Sources
        BY DEF B!Sources
    <2> QED BY <1>4, <2>1, <2>2
<1> QED BY <1>2, <1>3, <1>4 DEF Sought

LEMMA AskFields ==
    ASSUME NEW pc, NEW of, NEW tags, NEW found, NEW next
    PROVE  LET req == Ask(pc, of, tags, found, next)
           IN  DOMAIN req = ReqFields /\ req.pc = pc /\ req.of = of /\ req.tags = tags /\ req.found = found /\ req.next = next
BY DEF Ask, ReqFields

LEMMA QuestionAt ==
    ASSUME NEW req
    PROVE  /\ Audited(req) => req.pc = "audit"
           /\ Triaged(req) => req.pc = "triage"
           /\ Planned(req) => req.pc = "create"
           /\ Changed(req) => req.pc \in {"status", "outcome", "due"}
<1>1. \A pc, of, tags, found, next : Ask(pc, of, tags, found, next).pc = pc
    BY AskFields
<1>2. Audited(req) => req.pc = "audit"
    BY <1>1 DEF Audited
<1>3. Triaged(req) => req.pc = "triage"
    BY <1>1 DEF Triaged
<1>4. Planned(req) => req.pc = "create"
    BY <1>1 DEF Planned
<1>5. Changed(req) => req.pc \in {"status", "outcome", "due"}
    BY <1>1 DEF Changed
<1> QED BY <1>2, <1>3, <1>4, <1>5

LEMMA QuestionTyped ==
    ASSUME SearchInv, BacklogTypes, NEW req, Question(req)
    PROVE  /\ DOMAIN req = ReqFields /\ Asks(req, issues, tasks) /\ req.pc # "idle"
           /\ req.pc = "audit" => audits < MaxAudits
<1>1. CASE Audited(req)
    <2> DEFINE of == B!Generated
               tags == [f \in of |-> <<B!Impact, B!Baseline(f)>>]
    <2>1. of \subseteq B!Findings
        BY ImpactTyped DEF BacklogTypes, B!Findings
    <2>2. \A f \in of : B!Baseline(f) \in Impacts
        BY <2>1, ImpactTyped DEF B!Baseline, BacklogTypes, Issue, Impacts
    <2>3. tags \in [of -> Impacts \X Impacts]
        BY <2>2, ImpactTyped
    <2>4. audits < MaxAudits /\ req = Ask("audit", of, tags, {}, "OPEN")
        BY <1>1 DEF Audited
    <2> HIDE DEF of, tags
    <2>5. DOMAIN req = ReqFields /\ req.pc = "audit" /\ req.of = of /\ req.tags = tags
        BY <2>4, AskFields
    <2> QED BY <2>1, <2>3, <2>4, <2>5 DEF Asks
<1>2. CASE Triaged(req)
    <2>1. PICK f \in B!Findings, st \in B!IssueStatuses : issues[f].status # "none" /\ req = Ask("triage", {f}, <<>>, {}, st)
        BY <1>2 DEF Triaged
    <2>2. DOMAIN req = ReqFields /\ req.pc = "triage" /\ req.of = {f} /\ req.next = st
        BY <2>1, AskFields
    <2> QED BY <2>1, <2>2 DEF Asks
<1>3. CASE Planned(req)
    <2>1. PICK sources, tags : /\ req = Ask("create", sources, tags, {s \in sources : B!Rows(s) # {}}, "OPEN")
                               /\ Sought(sources, tags)
        BY <1>3 DEF Planned
    <2> DEFINE found == {s \in sources : B!Rows(s) # {}}
    <2>2. found \subseteq sources /\ \A s \in found : \E i \in DOMAIN tasks : tasks[i].source = s
        BY DEF B!Rows
    <2> HIDE DEF found
    <2>3. DOMAIN req = ReqFields /\ req.pc = "create" /\ req.of = sources /\ req.tags = tags /\ req.found = found
        BY <2>1, AskFields DEF found
    <2>4. sources \subseteq B!Sources /\ IsFiniteSet(sources) /\ tags \in [sources -> Impacts]
        BY <2>1, SoughtTyped
    <2> QED BY <2>2, <2>3, <2>4 DEF Asks
<1>4. CASE Changed(req)
    <2>1. PICK i \in DOMAIN tasks : \E pc \in {"status", "outcome", "due"} : \E next :
             req = Ask(pc, {i}, <<>>, {}, next) /\ (pc = "status" => next \in B!TaskStatuses)
        BY <1>4 DEF Changed
    <2>2. PICK pc \in {"status", "outcome", "due"} : \E next :
             req = Ask(pc, {i}, <<>>, {}, next) /\ (pc = "status" => next \in B!TaskStatuses)
        BY <2>1
    <2>3. DOMAIN req = ReqFields /\ req.pc = pc /\ req.of = {i} /\ (pc = "status" => req.next \in B!TaskStatuses)
        BY <2>2, AskFields
    <2> QED BY <2>2, <2>3 DEF Asks
<1> QED BY <1>1, <1>2, <1>3, <1>4 DEF Question

Grow == /\ \A f \in B!Findings : issues[f].status # "none" => issues'[f].status # "none"
        /\ \A i \in DOMAIN tasks : i \in DOMAIN tasks' /\ tasks'[i].source = tasks[i].source

LEMMA StillAsks == ASSUME NEW req, Asks(req, issues, tasks), Grow PROVE Asks(req, issues', tasks')
<1>1. CASE req.pc = "create"
    BY <1>1 DEF Asks, Grow, B!IdleReq
<1>2. CASE req.pc # "create"
    BY <1>2 DEF Asks, Grow
<1> QED BY <1>1, <1>2

LEMMA ReqsMove ==
    ASSUME BacklogTypes, Grow, NEW r \in Reqs, NEW req, DOMAIN req = ReqFields, Asks(req, issues', tasks'),
           reqs' = [reqs EXCEPT ![r] = req]
    PROVE  /\ DOMAIN reqs' = Reqs
           /\ \A q \in Reqs : reqs'[q] = IF q = r THEN req ELSE reqs[q]
           /\ \A q \in Reqs : DOMAIN reqs'[q] = ReqFields /\ Asks(reqs'[q], issues', tasks')
<1>1. DOMAIN reqs' = Reqs /\ \A q \in Reqs : reqs'[q] = IF q = r THEN req ELSE reqs[q]
    BY DEF BacklogTypes
<1> QED BY <1>1, StillAsks DEF BacklogTypes

LEMMA IdleTyped == \A found, list : DOMAIN B!IdleReq = ReqFields /\ Asks(B!IdleReq, found, list) /\ B!IdleReq.pc = "idle"
BY DEF B!IdleReq, ReqFields, Asks

Asking(r) == \E req : Begins(r, req) /\ Question(req)

LEMMA WorkingIs ==
    ASSUME Working
    PROVE  \/ \E r \in Reqs : Asking(r) \/ Writes(r) \/ B!Abandon(r)
           \/ \E f \in Signals : B!ContentChanges(f)
BY RequestIs DEF Working, Asking, Question

LEMMA AuditWritten ==
    ASSUME BacklogTypes, NEW r \in Reqs, B!AuditWrite(r)
    PROVE  /\ audits' = audits + 1 /\ issues' \in [B!Findings -> Issue]
           /\ reqs[r].of \subseteq B!Findings /\ reqs[r].tags \in [reqs[r].of -> Impacts \X Impacts]
           /\ \A f \in B!Findings :
                 IF f \in reqs[r].of
                 THEN /\ issues'[f].status = IF issues[f].status = "none" THEN "OPEN" ELSE issues[f].status
                      /\ issues'[f].audit = audits + 1
                      /\ issues'[f].impact = reqs[r].tags[f][1] /\ issues'[f].baseline = reqs[r].tags[f][2]
                 ELSE issues'[f] = issues[f]
<1> DEFINE req == reqs[r]
           Seen(f) == [status |-> IF issues[f].status = "none" THEN "OPEN" ELSE issues[f].status,
                       audit |-> audits + 1, impact |-> req.tags[f][1], baseline |-> req.tags[f][2]]
<1>1. req.of \subseteq B!Findings /\ req.tags \in [req.of -> Impacts \X Impacts] /\ audits \in Nat /\ issues \in [B!Findings -> Issue]
    <2>1. req.pc = "audit"
        BY DEF B!AuditWrite
    <2> QED BY <2>1 DEF BacklogTypes, Asks, B!IdleReq
<1>2. \A f \in req.of : Seen(f) \in Issue
    <2> SUFFICES ASSUME NEW f \in req.of PROVE Seen(f) \in Issue
        OBVIOUS
    <2>1. req.tags[f][1] \in Impacts /\ req.tags[f][2] \in Impacts /\ issues[f] \in Issue
        BY <1>1
    <2> QED BY <1>1, <2>1 DEF Issue, B!IssueStatuses
<1>3. audits' = audits + 1 /\ issues' = [f \in B!Findings |-> IF f \notin req.of THEN issues[f] ELSE Seen(f)]
    BY DEF B!AuditWrite
<1>4. \A f : /\ Seen(f).status = IF issues[f].status = "none" THEN "OPEN" ELSE issues[f].status
             /\ Seen(f).audit = audits + 1 /\ Seen(f).impact = req.tags[f][1] /\ Seen(f).baseline = req.tags[f][2]
    OBVIOUS
<1> HIDE DEF Seen
<1>5. issues' \in [B!Findings -> Issue] /\ \A f \in B!Findings : issues'[f] = IF f \in req.of THEN Seen(f) ELSE issues[f]
    BY <1>1, <1>2, <1>3
<1> QED BY <1>1, <1>3, <1>4, <1>5

LEMMA TriageWritten ==
    ASSUME BacklogTypes, NEW r \in Reqs, B!TriageWrite(r)
    PROVE  /\ issues' \in [B!Findings -> Issue]
           /\ \E g \in B!Findings : /\ reqs[r].of = {g} /\ issues[g].status # "none" /\ reqs[r].next \in B!IssueStatuses
                                    /\ issues' = [issues EXCEPT ![g].status = reqs[r].next]
           /\ \A f \in B!Findings : /\ issues'[f].audit = issues[f].audit /\ issues'[f].impact = issues[f].impact
                                    /\ issues'[f].baseline = issues[f].baseline
                                    /\ issues'[f].status = IF f \in reqs[r].of THEN reqs[r].next ELSE issues[f].status
<1> DEFINE req == reqs[r]
<1>1. req.next \in B!IssueStatuses /\ issues \in [B!Findings -> Issue] /\ \E g \in B!Findings : req.of = {g} /\ issues[g].status # "none"
    <2>1. req.pc = "triage"
        BY DEF B!TriageWrite
    <2> QED BY <2>1 DEF BacklogTypes, Asks, B!IdleReq
<1>2. PICK g \in B!Findings : req.of = {g} /\ issues[g].status # "none"
    BY <1>1
<1>3. issues' = [f \in B!Findings |-> IF f \in req.of THEN [issues[f] EXCEPT !.status = req.next] ELSE issues[f]]
    BY DEF B!TriageWrite
<1> DEFINE next == req.next
           Set(row) == [row EXCEPT !.status = next]
<1>4. \A row \in Issue : /\ Set(row) \in Issue /\ Set(row).audit = row.audit /\ Set(row).impact = row.impact
                         /\ Set(row).baseline = row.baseline /\ Set(row).status = next
    <2>1. next \in B!IssueStatuses
        BY <1>1
    <2> HIDE DEF next
    <2> QED BY <2>1 DEF Issue
<1>5. issues' = [f \in B!Findings |-> IF f \in req.of THEN Set(issues[f]) ELSE issues[f]]
    BY <1>3
<1>6. issues' = [issues EXCEPT ![g].status = next]
    BY <1>1, <1>2, <1>3
<1> HIDE DEF next, Set
<1>7. /\ issues' \in [B!Findings -> Issue]
       /\ \A f \in B!Findings : issues'[f] = IF f \in req.of THEN Set(issues[f]) ELSE issues[f]
    BY <1>1, <1>4, <1>5
<1>8. \A f \in B!Findings : /\ issues'[f].audit = issues[f].audit /\ issues'[f].impact = issues[f].impact
                            /\ issues'[f].baseline = issues[f].baseline
                            /\ issues'[f].status = IF f \in req.of THEN next ELSE issues[f].status
    BY <1>1, <1>4, <1>7
<1> QED BY <1>1, <1>2, <1>6, <1>7, <1>8 DEF next

LEMMA WritesGrow ==
    ASSUME BacklogTypes, Working
    PROVE  Grow
<1>1. ASSUME NEW r \in Reqs, Asking(r) \/ B!Abandon(r) PROVE Grow
    BY <1>1 DEF Asking, Begins, B!Abandon, Grow
<1>2. ASSUME NEW f \in Signals, B!ContentChanges(f) PROVE Grow
    BY <1>2 DEF B!ContentChanges, Grow
<1>3. ASSUME NEW r \in Reqs, B!AuditWrite(r) PROVE Grow
    <2>1. tasks' = tasks /\ \A f \in B!Findings : issues[f].status # "none" => issues'[f].status # "none"
        BY <1>3, AuditWritten DEF B!AuditWrite
    <2> QED BY <2>1 DEF Grow
<1>4. ASSUME NEW r \in Reqs, B!TriageWrite(r) PROVE Grow
    BY <1>4, TriageWritten DEF B!TriageWrite, B!IssueStatuses, Grow
<1>5. ASSUME NEW r \in Reqs, B!CreateWrite(r) PROVE Grow
    BY <1>5, Created DEF B!CreateWrite, Grow
<1>6. ASSUME NEW r \in Reqs, B!StatusWrite(r) \/ B!OutcomeWrite(r) \/ B!DueWrite(r) PROVE Grow
    <2>1. issues' = issues
        BY <1>6 DEF B!StatusWrite, B!OutcomeWrite, B!DueWrite, B!Set
    <2> QED BY <1>6, <2>1, ChangedIs DEF Grow
<1> QED BY <1>1, <1>2, <1>3, <1>4, <1>5, <1>6, WorkingIs DEF Writes

LEMMA WritesEnd ==
    ASSUME NEW r \in Reqs, Writes(r) \/ B!Abandon(r)
    PROVE  reqs' = [reqs EXCEPT ![r] = B!IdleReq] /\ content' = content
BY DEF Writes, B!Abandon, B!AuditWrite, B!TriageWrite, B!CreateWrite, B!StatusWrite, B!OutcomeWrite, B!DueWrite, B!Set, B!End

LEMMA Sizes == ASSUME setting \in Settings PROVE /\ setting.reqs \in Nat /\ setting.syncs \in Nat /\ setting.slots \in Nat
                                                     /\ IsFiniteSet(Reqs) /\ IsFiniteSet(Audits) /\ Cardinality(Audits) \in Nat
                                                     /\ Cardinality(Reqs) \in Nat /\ Cardinality(Audits) <= Cardinality(Reqs)
<1>1. Audits \in SUBSET Reqs
    BY DEF Audits
<1> QED BY <1>1, ReportsAssumption, FS_Subset, FS_CardinalityType DEF Setting

LEMMA BacklogTyped == ASSUME SearchInv, BacklogTypes, setting \in Settings, Working PROVE BacklogTypes'
<1>1. /\ content \subseteq Signals /\ audits \in Nat /\ audits + Cardinality(Audits) <= MaxAudits + Cardinality(Reqs)
      /\ issues \in [B!Findings -> Issue] /\ \A f \in B!Findings : issues[f].audit <= audits
      /\ tasks \in Seq(TaskRow) /\ DOMAIN reqs = Reqs
      /\ \A r \in Reqs : DOMAIN reqs[r] = ReqFields /\ Asks(reqs[r], issues, tasks)
    BY DEF BacklogTypes
<1>2. /\ IsFiniteSet(Audits) /\ Cardinality(Audits) \in Nat /\ Cardinality(Reqs) \in Nat /\ MaxAudits \in Nat
      /\ \A A \in SUBSET Reqs : Cardinality(A) \in Nat /\ Cardinality(A) <= Cardinality(Reqs)
      /\ \A A \in SUBSET Audits : Cardinality(A) \in Nat /\ Cardinality(A) <= Cardinality(Audits)
    BY Sizes, ReportsAssumption, FS_Subset, FS_CardinalityType
<1>3. Grow
    BY WritesGrow
<1>4. ASSUME NEW r \in Reqs, Asking(r) PROVE BacklogTypes'
    <2>1. PICK req : Begins(r, req) /\ Question(req)
        BY <1>4 DEF Asking
    <2>2. /\ reqs[r].pc = "idle" /\ reqs' = [reqs EXCEPT ![r] = req] /\ UNCHANGED <<content, audits, issues, tasks>>
          /\ DOMAIN req = ReqFields /\ Asks(req, issues, tasks)
          /\ req.pc = "audit" => audits < MaxAudits
        BY <2>1, QuestionTyped DEF Begins
    <2>3. /\ DOMAIN reqs' = Reqs
          /\ \A q \in Reqs : reqs'[q] = IF q = r THEN req ELSE reqs[q]
          /\ \A q \in Reqs : DOMAIN reqs'[q] = ReqFields /\ Asks(reqs'[q], issues', tasks')
        BY <1>3, <2>2, ReqsMove
    <2>4. audits + Cardinality(Audits') <= MaxAudits + Cardinality(Reqs)
        <3>1. CASE req.pc = "audit"
            <4>1. Audits' \in SUBSET Reqs
                BY DEF Audits
            <4> QED BY <1>1, <1>2, <2>2, <3>1, <4>1
        <3>2. CASE req.pc # "audit"
            <4>1. Audits' \in SUBSET Audits
                BY <2>3, <3>2 DEF Audits
            <4> QED BY <1>1, <1>2, <4>1
        <3> QED BY <3>1, <3>2
    <2> QED BY <1>1, <2>2, <2>3, <2>4 DEF BacklogTypes
<1>5. ASSUME NEW r \in Reqs, Writes(r) \/ B!Abandon(r)
      PROVE  /\ content' = content /\ DOMAIN reqs' = Reqs
             /\ \A q \in Reqs : DOMAIN reqs'[q] = ReqFields /\ Asks(reqs'[q], issues', tasks')
             /\ \A q \in Reqs : reqs'[q] = IF q = r THEN B!IdleReq ELSE reqs[q]
             /\ Audits' \in SUBSET Audits
    <2>1. reqs' = [reqs EXCEPT ![r] = B!IdleReq] /\ content' = content
        BY <1>5, WritesEnd
    <2>2. /\ DOMAIN reqs' = Reqs
          /\ \A q \in Reqs : reqs'[q] = IF q = r THEN B!IdleReq ELSE reqs[q]
          /\ \A q \in Reqs : DOMAIN reqs'[q] = ReqFields /\ Asks(reqs'[q], issues', tasks')
        BY <1>3, <2>1, ReqsMove, IdleTyped
    <2> QED BY <2>1, <2>2, IdleTyped DEF Audits
<1>6. ASSUME NEW r \in Reqs, B!AuditWrite(r) PROVE BacklogTypes'
    <2>1. r \in Audits /\ tasks' = tasks
        BY <1>6 DEF B!AuditWrite, Audits
    <2>2. Audits' = Audits \ {r} /\ Cardinality(Audits') = Cardinality(Audits) - 1
        <3>1. Audits' = Audits \ {r}
            BY <1>5, <1>6, IdleTyped DEF Writes, Audits
        <3> QED BY <1>2, <2>1, <3>1, FS_RemoveElement
    <2>3. audits' = audits + 1 /\ issues' \in [B!Findings -> Issue] /\ \A f \in B!Findings : issues'[f].audit <= audits'
        <3>1. \A f \in B!Findings : issues[f].audit \in Nat
            BY <1>1 DEF Issue
        <3>2. \A f \in B!Findings : issues'[f].audit = audits + 1 \/ issues'[f].audit = issues[f].audit
            BY <1>6, AuditWritten
        <3> QED BY <1>1, <1>6, <3>1, <3>2, AuditWritten
    <2>4. audits' + Cardinality(Audits') <= MaxAudits + Cardinality(Reqs)
        BY <1>1, <1>2, <2>2, <2>3
    <2> QED BY <1>1, <1>5, <1>6, <2>1, <2>3, <2>4 DEF BacklogTypes, Writes
<1>7. ASSUME NEW r \in Reqs, audits' = audits, issues' \in [B!Findings -> Issue], tasks' \in Seq(TaskRow),
             \A f \in B!Findings : issues'[f].audit = issues[f].audit,
             content' \subseteq Signals, DOMAIN reqs' = Reqs, Audits' \in SUBSET Audits,
             \A q \in Reqs : DOMAIN reqs'[q] = ReqFields /\ Asks(reqs'[q], issues', tasks')
      PROVE  BacklogTypes'
    <2>1. audits + Cardinality(Audits') <= MaxAudits + Cardinality(Reqs)
        BY <1>1, <1>2, <1>7
    <2> QED BY <1>1, <1>7, <2>1 DEF BacklogTypes
<1>8. ASSUME NEW r \in Reqs, B!TriageWrite(r) \/ B!Abandon(r) PROVE BacklogTypes'
    <2>1. CASE B!TriageWrite(r)
        BY <1>1, <1>5, <1>7, <2>1, TriageWritten DEF B!TriageWrite, Writes
    <2>2. CASE B!Abandon(r)
        BY <1>1, <1>5, <1>7, <2>2 DEF B!Abandon
    <2> QED BY <1>8, <2>1, <2>2
<1>9. ASSUME NEW r \in Reqs, B!CreateWrite(r) \/ B!StatusWrite(r) \/ B!OutcomeWrite(r) \/ B!DueWrite(r) PROVE BacklogTypes'
    <2>1. tasks' \in Seq(TaskRow) /\ UNCHANGED <<audits, issues>>
        BY <1>9, Created, ChangedIs DEF B!CreateWrite, B!StatusWrite, B!OutcomeWrite, B!DueWrite, B!Set
    <2> QED BY <1>1, <1>5, <1>7, <1>9, <2>1 DEF Writes
<1>10. ASSUME NEW f \in Signals, B!ContentChanges(f) PROVE BacklogTypes'
    BY <1>1, <1>10 DEF B!ContentChanges, BacklogTypes, Audits
<1> QED BY <1>4, <1>6, <1>8, <1>9, <1>10, WorkingIs DEF Writes

LEMMA OneAsks ==
    ASSUME NEW A \in SUBSET Reqs, setting \in Settings, Cardinality(A) <= setting.reqs, OneRequest
    PROVE  \A r, q \in A : r = q
<1>1. IsFiniteSet(A) /\ Cardinality(A) \in Nat
    BY ReportsAssumption, FS_Subset, FS_CardinalityType
<1>2. Cardinality(A) <= 1
    BY <1>1, Sizes DEF OneRequest
<1> QED BY <1>1, <1>2, AtMostOne

(* One at a time: a request that is at work after a step was at work before, or read in this step. *)
LEMMA AfterOne ==
    ASSUME BacklogTypes, Together, OneRequest, Working, NEW q \in Reqs, reqs'[q].pc # "idle"
    PROVE  UNCHANGED <<audits, issues, tasks>> /\ (reqs'[q] = reqs[q] \/ Question(reqs'[q]))
<1>1. ASSUME NEW r \in Reqs, Writes(r) \/ B!Abandon(r) PROVE FALSE
    <2>1. reqs[r].pc # "idle"
        BY <1>1 DEF Writes, B!AuditWrite, B!TriageWrite, B!CreateWrite, B!StatusWrite, B!OutcomeWrite, B!DueWrite, B!Abandon
    <2>2. \A p \in Reqs : reqs'[p] = IF p = r THEN B!IdleReq ELSE reqs[p]
        BY <1>1, WritesEnd DEF BacklogTypes
    <2>3. q # r /\ reqs[q].pc # "idle"
        BY <2>2, IdleTyped
    <2>4. B!Busy \in SUBSET Reqs /\ r \in B!Busy /\ q \in B!Busy
        BY <2>1, <2>3 DEF B!Busy
    <2> QED BY <2>3, <2>4, OneAsks DEF Together
<1>2. ASSUME NEW r \in Reqs, Asking(r) PROVE UNCHANGED <<audits, issues, tasks>> /\ (reqs'[q] = reqs[q] \/ Question(reqs'[q]))
    <2>1. PICK req : Begins(r, req) /\ Question(req)
        BY <1>2 DEF Asking
    <2>2. reqs'[q] = reqs[q] \/ reqs'[q] = req
        BY <2>1 DEF Begins, BacklogTypes
    <2> QED BY <2>1, <2>2 DEF Begins
<1>3. ASSUME NEW f, B!ContentChanges(f) PROVE UNCHANGED <<audits, issues, tasks>> /\ reqs'[q] = reqs[q]
    BY <1>3 DEF B!ContentChanges
<1> QED BY <1>1, <1>2, <1>3, WorkingIs

LEMMA ReadsStep ==
    ASSUME SearchInv, BacklogTypes, Together, Working, BaselinesRead, OutcomesRead, CreatesAsRead
    PROVE  BaselinesRead' /\ OutcomesRead' /\ CreatesAsRead'
<1> SUFFICES ASSUME OneRequest PROVE BaselinesRead' /\ OutcomesRead' /\ CreatesAsRead'
    BY DEF Working, BaselinesRead, OutcomesRead, CreatesAsRead, OneRequest
<1>1. ASSUME NEW r \in Reqs, reqs'[r].pc = "audit", NEW f \in reqs'[r].of,
             reqs'[r].tags[f][1] # NoImpact, issues'[f].baseline # NoImpact
      PROVE  reqs'[r].tags[f][2] = issues'[f].baseline
    <2>1. issues' = issues /\ (reqs'[r] = reqs[r] \/ Question(reqs'[r]))
        BY <1>1, AfterOne
    <2>2. CASE reqs'[r] = reqs[r]
        BY <1>1, <2>1, <2>2 DEF BaselinesRead, Audits
    <2>3. CASE Question(reqs'[r])
        <3> DEFINE req == reqs'[r]
                   tags == [g \in B!Generated |-> <<B!Impact, B!Baseline(g)>>]
        <3>1. ~ Triaged(req) /\ ~ Planned(req) /\ ~ Changed(req)
            BY <1>1, QuestionAt
        <3>2. req = Ask("audit", B!Generated, tags, {}, "OPEN")
            BY <2>3, <3>1 DEF Question, Audited
        <3>3. req.of = B!Generated /\ req.tags = tags
            BY <3>2, AskFields
        <3>4. req.tags[f] = <<B!Impact, B!Baseline(f)>>
            BY <1>1, <3>3
        <3> QED BY <1>1, <2>1, <3>4 DEF B!Baseline
    <2> QED BY <2>1, <2>2, <2>3
<1>2. ASSUME NEW r \in Reqs, reqs'[r].pc = "outcome", NEW i \in reqs'[r].of PROVE tasks'[i].status = "DONE"
    <2>1. tasks' = tasks /\ (reqs'[r] = reqs[r] \/ Question(reqs'[r]))
        BY <1>2, AfterOne
    <2>2. CASE reqs'[r] = reqs[r]
        BY <1>2, <2>1, <2>2 DEF OutcomesRead
    <2>3. CASE Question(reqs'[r])
        <3> DEFINE req == reqs'[r]
        <3>1. ~ Triaged(req) /\ ~ Planned(req) /\ ~ Audited(req)
            BY <1>2, QuestionAt
        <3>2. PICK j \in DOMAIN tasks : \/ \E st \in B!TaskStatuses : req = Ask("status", {j}, <<>>, {}, st)
                                        \/ \E o : tasks[j].status = "DONE" /\ req = Ask("outcome", {j}, <<>>, {}, o)
                                        \/ \E d : req = Ask("due", {j}, <<>>, {}, d)
            BY <2>3, <3>1 DEF Question, Changed
        <3>3. tasks[j].status = "DONE" /\ req.of = {j}
            BY <1>2, <3>2, AskFields
        <3> QED BY <1>2, <2>1, <3>3
    <2> QED BY <2>1, <2>2, <2>3
<1>3. ASSUME NEW r \in Reqs, reqs'[r].pc = "create"
      PROVE  /\ reqs'[r].found = {s \in reqs'[r].of : B!Rows(s)' # {}}
             /\ \/ \E f \in B!Findings : reqs'[r].of = {<<"audit", f>>} /\ issues'[f].status # "none"
                \/ \E a \in 1 .. audits', st \in B!IssueStatuses : reqs'[r].of = FromAudit(a, st)'
                \/ \E c \in Signals \cup {Chance} : reqs'[r].of = {<<"candidate", c>>}
    <2>1. UNCHANGED <<audits, issues, tasks>> /\ (reqs'[r] = reqs[r] \/ Question(reqs'[r]))
        BY <1>3, AfterOne
    <2>2. (\A s : B!Rows(s)' = B!Rows(s)) /\ \A a, st : FromAudit(a, st)' = FromAudit(a, st)
        BY <2>1 DEF B!Rows, FromAudit
    <2>3. CASE reqs'[r] = reqs[r]
        BY <1>3, <2>1, <2>2, <2>3 DEF CreatesAsRead
    <2>4. CASE Question(reqs'[r])
        <3> DEFINE req == reqs'[r]
        <3>1. ~ Triaged(req) /\ ~ Audited(req) /\ ~ Changed(req)
            BY <1>3, QuestionAt
        <3>2. PICK sources, tags : /\ req = Ask("create", sources, tags, {s \in sources : B!Rows(s) # {}}, "OPEN")
                                   /\ Sought(sources, tags)
            BY <2>4, <3>1 DEF Question, Planned
        <3>3. req.of = sources /\ req.found = {s \in sources : B!Rows(s) # {}}
            BY <3>2, AskFields
        <3> QED BY <2>1, <2>2, <3>2, <3>3 DEF Sought
    <2> QED BY <2>1, <2>3, <2>4
<1> QED BY <1>1, <1>2, <1>3 DEF BaselinesRead, OutcomesRead, CreatesAsRead, Audits, FromAudit

LEMMA CreatedRows ==
    ASSUME BacklogTypes, NEW r \in Reqs, B!CreateWrite(r), NEW source
    PROVE  IF source \in reqs[r].of \ reqs[r].found
           THEN \E i \in DOMAIN tasks' \ DOMAIN tasks : B!Rows(source)' = B!Rows(source) \cup {i}
           ELSE B!Rows(source)' = B!Rows(source)
<1> DEFINE new == reqs[r].of \ reqs[r].found
<1>1. PICK id \in Bijection(new, DOMAIN tasks' \ DOMAIN tasks) :
         \A s \in new : tasks'[id[s]] = B!Task(s, reqs[r].tags[s])
    BY Created
<1>2. \A i \in DOMAIN tasks : i \in DOMAIN tasks' /\ tasks'[i].source = tasks[i].source
    BY Created
<1>3. \A s \in new : id[s] \in DOMAIN tasks' \ DOMAIN tasks /\ tasks'[id[s]].source = s
    <2>1. \A s, tag : B!Task(s, tag).source = s
        BY DEF B!Task
    <2>2. \A s \in new : id[s] \in DOMAIN tasks' \ DOMAIN tasks
        BY <1>1 DEF Bijection, Injection
    <2> QED BY <1>1, <2>1, <2>2
<1>4. \A i \in DOMAIN tasks' \ DOMAIN tasks : \E s \in new : i = id[s]
    BY <1>1 DEF Bijection, Surjection
<1> HIDE DEF new
<1>5. CASE source \in new
    <2>1. B!Rows(source)' = B!Rows(source) \cup {id[source]}
        BY <1>2, <1>3, <1>4, <1>5 DEF B!Rows
    <2> QED BY <1>3, <1>5, <2>1 DEF new
<1>6. CASE source \notin new
    <2>1. B!Rows(source)' = B!Rows(source)
        BY <1>2, <1>3, <1>4, <1>6 DEF B!Rows
    <2> QED BY <1>6, <2>1 DEF new
<1> QED BY <1>5, <1>6

LEMMA RowsCount ==
    ASSUME BacklogTypes, setting \in Settings, NEW source
    PROVE  /\ IsFiniteSet(B!Rows(source)) /\ Cardinality(B!Rows(source)) \in Nat
           /\ IsFiniteSet(Creators(source)) /\ Cardinality(Creators(source)) \in Nat
           /\ \A A \in SUBSET Creators(source) : Cardinality(A) \in Nat /\ Cardinality(A) <= Cardinality(Creators(source))
<1>1. B!Rows(source) \in SUBSET (1 .. Len(tasks)) /\ Len(tasks) \in Nat
    BY LenProperties DEF BacklogTypes, B!Rows
<1>2. Creators(source) \in SUBSET Reqs
    BY DEF Creators
<1>3. IsFiniteSet(B!Rows(source)) /\ IsFiniteSet(Creators(source))
    <2>1. IsFiniteSet(1 .. Len(tasks))
        BY <1>1, FS_Interval
    <2>2. IsFiniteSet(Reqs)
        BY ReportsAssumption
    <2> QED BY <1>1, <1>2, <2>1, <2>2, FS_Subset
<1>4. ASSUME NEW A \in SUBSET Creators(source) PROVE Cardinality(A) \in Nat /\ Cardinality(A) <= Cardinality(Creators(source))
    BY <1>3, FS_Subset, FS_CardinalityType
<1> QED BY <1>3, <1>4, FS_CardinalityType

LEMMA FewTasksStep ==
    ASSUME SearchInv, BacklogTypes, Together, Working, FewTasks
    PROVE  FewTasks'
<1> SUFFICES ASSUME NEW source \in B!Sources
             PROVE  \/ B!Rows(source)' = {}
                    \/ Cardinality(B!Rows(source)') + Cardinality(Creators(source)') <= Larger(1, setting.reqs)
    BY DEF FewTasks, Working, Larger
<1> DEFINE R == B!Rows(source)
           C == Creators(source)
           most == Larger(1, setting.reqs)
           Goal == R' = {} \/ Cardinality(R') + Cardinality(C') <= most
<1>1. /\ IsFiniteSet(R) /\ Cardinality(R) \in Nat /\ IsFiniteSet(C) /\ Cardinality(C) \in Nat
      /\ \A A \in SUBSET C : Cardinality(A) \in Nat /\ Cardinality(A) <= Cardinality(C)
      /\ setting.reqs \in Nat /\ most \in Nat /\ most >= 1 /\ most >= setting.reqs
    BY RowsCount, Sizes DEF Together, Larger
<1>2. R = {} \/ Cardinality(R) + Cardinality(C) <= most
    BY DEF FewTasks
<1>3. ASSUME R' = R, C' \in SUBSET C PROVE Goal
    <2>1. Cardinality(C') \in Nat /\ Cardinality(C') <= Cardinality(C)
        BY <1>1, <1>3
    <2> HIDE DEF R, C, most
    <2> QED BY <1>1, <1>2, <1>3, <2>1
<1>4. ASSUME NEW r \in Reqs, Asking(r) PROVE Goal
    <2>1. PICK req : Begins(r, req) /\ Question(req)
        BY <1>4 DEF Asking
    <2>2. R' = R /\ \A q \in Reqs : reqs'[q] = IF q = r THEN req ELSE reqs[q]
        BY <2>1 DEF Begins, B!Rows, BacklogTypes
    <2>3. CASE R = {}
        BY <2>2, <2>3
    <2>4. CASE R # {}
        <3>1. req.pc = "create" => source \notin req.of \ req.found
            <4> SUFFICES ASSUME req.pc = "create" PROVE source \notin req.of \ req.found
                OBVIOUS
            <4>1. Planned(req)
                BY <2>1, QuestionAt DEF Question
            <4>2. PICK sources, tags : req = Ask("create", sources, tags, {s \in sources : B!Rows(s) # {}}, "OPEN")
                BY <4>1 DEF Planned
            <4>3. req.of = sources /\ req.found = {s \in sources : B!Rows(s) # {}}
                BY <4>2, AskFields
            <4> QED BY <2>4, <4>3
        <3>2. C' \in SUBSET C
            BY <2>2, <3>1 DEF Creators
        <3> QED BY <1>3, <2>2, <3>2
    <2> QED BY <2>3, <2>4
<1>5. ASSUME NEW r \in Reqs, Writes(r) \/ B!Abandon(r) PROVE C' = C \ {r}
    <2>1. \A q \in Reqs : reqs'[q] = IF q = r THEN B!IdleReq ELSE reqs[q]
        BY <1>5, WritesEnd DEF BacklogTypes
    <2> QED BY <2>1, IdleTyped DEF Creators
<1>6. ASSUME NEW r \in Reqs, B!AuditWrite(r) \/ B!TriageWrite(r) \/ B!Abandon(r) PROVE Goal
    <2>1. R' = R
        BY <1>6 DEF B!AuditWrite, B!TriageWrite, B!Abandon, B!Rows
    <2> QED BY <1>3, <1>5, <1>6, <2>1 DEF Writes
<1>7. ASSUME NEW r \in Reqs, B!StatusWrite(r) \/ B!OutcomeWrite(r) \/ B!DueWrite(r) PROVE Goal
    <2>1. R' = R
        BY <1>7, ChangedIs DEF B!Rows
    <2> QED BY <1>3, <1>5, <1>7, <2>1 DEF Writes
<1>8. ASSUME NEW r \in Reqs, B!CreateWrite(r) PROVE Goal
    <2>1. C' = C \ {r}
        BY <1>5, <1>8 DEF Writes
    <2>2. CASE source \notin reqs[r].of \ reqs[r].found
        <3>1. R' = R
            BY <1>8, <2>2, CreatedRows
        <3> QED BY <1>3, <2>1, <3>1
    <2>3. CASE source \in reqs[r].of \ reqs[r].found
        <3>1. PICK i \in DOMAIN tasks' \ DOMAIN tasks : R' = R \cup {i}
            BY <1>8, <2>3, CreatedRows
        <3>2. Cardinality(R') = Cardinality(R) + 1
            BY <1>1, <3>1, FS_AddElement DEF B!Rows
        <3>3. r \in C
            BY <1>8, <2>3 DEF Creators, B!CreateWrite
        <3>4. Cardinality(C') = Cardinality(C) - 1
            BY <1>1, <2>1, <3>3, FS_RemoveElement
        <3>5. Cardinality(C) <= setting.reqs
            <4>1. B!Busy \in SUBSET Reqs /\ C \in SUBSET B!Busy
                BY DEF B!Busy, Creators
            <4>2. Cardinality(B!Busy) \in Nat /\ Cardinality(C) <= Cardinality(B!Busy) /\ Cardinality(B!Busy) <= setting.reqs
                BY <4>1, ReportsAssumption, FS_Subset, FS_CardinalityType DEF Together
            <4> HIDE DEF C
            <4> QED BY <1>1, <4>2
        <3>6. R = {} => Cardinality(R) = 0
            BY FS_EmptySet
        <3> HIDE DEF R, C, most
        <3> QED BY <1>1, <1>2, <3>2, <3>4, <3>5, <3>6
    <2> QED BY <2>2, <2>3
<1>9. ASSUME NEW f, B!ContentChanges(f) PROVE Goal
    <2>1. R' = R /\ C' = C
        BY <1>9 DEF B!ContentChanges, B!Rows, Creators
    <2> QED BY <1>3, <2>1
<1> QED BY <1>4, <1>6, <1>7, <1>8, <1>9, WorkingIs DEF Writes

LEMMA OutcomesStep ==
    ASSUME BacklogTypes, Working, OutcomesRead, OutcomesOfDone
    PROVE  OutcomesOfDone'
<1> SUFFICES ASSUME OneRequest, NEW i \in DOMAIN tasks', tasks'[i].outcome PROVE tasks'[i].status = "DONE"
    BY DEF Working, OutcomesOfDone, OneRequest
<1>1. CASE tasks' = tasks
    BY <1>1 DEF OutcomesOfDone
<1>2. ASSUME NEW r \in Reqs, B!CreateWrite(r) PROVE tasks'[i].status = "DONE"
    <2>1. CASE i \in DOMAIN tasks
        BY <1>2, <2>1, Created DEF OutcomesOfDone
    <2>2. CASE i \notin DOMAIN tasks
        <3> DEFINE new == reqs[r].of \ reqs[r].found
        <3>1. PICK id \in Bijection(new, DOMAIN tasks' \ DOMAIN tasks) :
                 \A s \in new : tasks'[id[s]] = B!Task(s, reqs[r].tags[s])
            BY <1>2, Created
        <3>2. PICK s \in new : i = id[s]
            BY <2>2, <3>1 DEF Bijection, Surjection
        <3>3. \A x, tag : B!Task(x, tag).outcome = FALSE
            BY DEF B!Task
        <3>4. tasks'[i].outcome = FALSE
            BY <3>1, <3>2, <3>3
        <3> QED BY <3>4
    <2> QED BY <2>1, <2>2
<1>3. ASSUME NEW r \in Reqs, B!StatusWrite(r) \/ B!OutcomeWrite(r) \/ B!DueWrite(r) PROVE tasks'[i].status = "DONE"
    <2>1. i \in DOMAIN tasks /\ (i \notin reqs[r].of => tasks'[i] = tasks[i])
        BY <1>3, ChangedIs
    <2>2. CASE i \notin reqs[r].of
        BY <2>1, <2>2 DEF OutcomesOfDone
    <2>3. CASE i \in reqs[r].of /\ B!StatusWrite(r)
        BY <2>3, ChangedIs
    <2>4. CASE i \in reqs[r].of /\ B!OutcomeWrite(r)
        <3>1. tasks[i].status = "DONE"
            BY <2>4 DEF OutcomesRead, B!OutcomeWrite
        <3>2. tasks'[i].status = tasks[i].status
            BY <2>4, ChangedIs
        <3> QED BY <3>1, <3>2
    <2>5. CASE i \in reqs[r].of /\ B!DueWrite(r)
        BY <2>1, <2>5, ChangedIs DEF OutcomesOfDone
    <2> QED BY <1>3, <2>2, <2>3, <2>4, <2>5
<1>4. (\E r \in Reqs : B!CreateWrite(r) \/ B!StatusWrite(r) \/ B!OutcomeWrite(r) \/ B!DueWrite(r)) \/ tasks' = tasks
    BY WorkingIs DEF Asking, Begins, Writes, B!AuditWrite, B!TriageWrite, B!Abandon, B!ContentChanges
<1> QED BY <1>1, <1>2, <1>3, <1>4

(* What a member decided is only changed by a member; baselines are kept. *)
LEMMA TriageKept ==
    ASSUME BacklogTypes, Working, NEW f \in B!Findings, issues[f].status # "none", issues'[f].status # issues[f].status
    PROVE  \E r \in Reqs : reqs[r].pc = "triage" /\ issues'[f].status = reqs[r].next
<1>1. ASSUME NEW r \in Reqs, B!AuditWrite(r) PROVE FALSE
    BY <1>1, AuditWritten
<1>2. ASSUME NEW r \in Reqs, B!TriageWrite(r) PROVE reqs[r].pc = "triage" /\ issues'[f].status = reqs[r].next
    <2>1. reqs[r].pc = "triage"
        BY <1>2 DEF B!TriageWrite
    <2> QED BY <1>2, <2>1, TriageWritten
<1>3. (\E r \in Reqs : B!AuditWrite(r) \/ B!TriageWrite(r)) \/ issues' = issues
    BY WorkingIs DEF Asking, Begins, Writes, B!CreateWrite, B!StatusWrite, B!OutcomeWrite, B!DueWrite, B!Set, B!Abandon,
                     B!ContentChanges
<1> QED BY <1>1, <1>2, <1>3

LEMMA BaselineKept ==
    ASSUME BacklogTypes, BaselinesRead, OneRequest, Working, NEW f \in B!Findings,
           issues[f].baseline # NoImpact, issues'[f].impact # NoImpact
    PROVE  issues'[f].baseline = issues[f].baseline
<1>1. ASSUME NEW r \in Reqs, B!AuditWrite(r) PROVE issues'[f].baseline = issues[f].baseline
    <2>1. r \in Audits
        BY <1>1 DEF B!AuditWrite, Audits
    <2>2. CASE f \in reqs[r].of
        <3>1. issues'[f].impact = reqs[r].tags[f][1] /\ issues'[f].baseline = reqs[r].tags[f][2]
            BY <1>1, <2>2, AuditWritten
        <3> QED BY <2>1, <2>2, <3>1 DEF BaselinesRead
    <2>3. CASE f \notin reqs[r].of
        BY <1>1, <2>3, AuditWritten
    <2> QED BY <2>2, <2>3
<1>2. ASSUME NEW r \in Reqs, B!TriageWrite(r) PROVE issues'[f].baseline = issues[f].baseline
    BY <1>2, TriageWritten
<1>3. (\E r \in Reqs : B!AuditWrite(r) \/ B!TriageWrite(r)) \/ issues' = issues
    BY WorkingIs DEF Asking, Begins, Writes, B!CreateWrite, B!StatusWrite, B!OutcomeWrite, B!DueWrite, B!Set, B!Abandon,
                     B!ContentChanges
<1> QED BY <1>1, <1>2, <1>3

LEMMA FewDuplicates == ASSUME BacklogTypes, setting \in Settings, FewTasks PROVE DuplicatesBounded
<1> SUFFICES ASSUME NEW source \in B!Sources
             PROVE  Cardinality(B!Rows(source)) <= IF OneRequest THEN 1 ELSE setting.reqs
    BY DEF DuplicatesBounded
<1>1. /\ Cardinality(B!Rows(source)) \in Nat /\ Cardinality(Creators(source)) \in Nat /\ setting.reqs \in Nat
      /\ B!Rows(source) = {} => Cardinality(B!Rows(source)) = 0
    BY RowsCount, Sizes, FS_EmptySet
<1>2. B!Rows(source) = {} \/ Cardinality(B!Rows(source)) + Cardinality(Creators(source)) <= Larger(1, setting.reqs)
    BY DEF FewTasks
<1> QED BY <1>1, <1>2 DEF OneRequest, Larger

-----------------------------------------------------------------------------
(* Digests *)

LEMMA JobsMove ==
    ASSUME NEW job \in D!Job, Regular(job)
    PROVE  /\ Taken(job) \in Nat /\ Taken(job) <= D!Executions
           /\ D!Add(job) \in D!Job /\ Regular(D!Add(job)) /\ Taken(D!Add(job)) = Taken(job)
              /\ (job.state = "active" => D!Add(job).state = "active")
           /\ job.state = "waiting" => /\ D!Take(job) \in D!Job /\ Regular(D!Take(job)) /\ Taken(D!Take(job)) = Taken(job) + 1
                                       /\ D!Take(job).state = "active"
           /\ job.state = "active" => \A next \in {D!Finish(job), D!Throw(job), D!Stall(job)} :
                 next \in D!Job /\ Regular(next) /\ Taken(next) = Taken(job)
<1>1. Attempts \in Nat /\ Attempts # 0 /\ MaxStalls \in Nat
    BY QueueAssumption DEF D!QueueAssumption
<1>2. /\ job.attempts \in 0 .. Attempts /\ job.stalls \in 0 .. MaxStalls /\ job.state \in D!JobStates
      /\ job.attempts \in Nat /\ job.stalls \in Nat
    BY <1>1 DEF D!Job
<1>3. Taken(job) \in Nat /\ Taken(job) <= D!Executions
    BY <1>1, <1>2 DEF Taken, Regular, D!Executions, D!JobStates
<1>4. /\ D!Add(job) \in D!Job /\ Regular(D!Add(job)) /\ Taken(D!Add(job)) = Taken(job)
      /\ (job.state = "active" => D!Add(job).state = "active")
    BY <1>1, <1>2 DEF D!Add, D!NoJob, D!Job, D!JobStates, Regular, Taken
<1>5. ASSUME job.state = "waiting"
      PROVE  /\ D!Take(job) \in D!Job /\ Regular(D!Take(job)) /\ Taken(D!Take(job)) = Taken(job) + 1
             /\ D!Take(job).state = "active"
    BY <1>1, <1>2, <1>5 DEF D!Take, D!Job, D!JobStates, Regular, Taken
<1>6. ASSUME job.state = "active"
      PROVE  D!Finish(job) \in D!Job /\ Regular(D!Finish(job)) /\ Taken(D!Finish(job)) = Taken(job)
    BY <1>1, <1>2, <1>6 DEF D!Finish, D!Job, D!JobStates, Regular, Taken
<1>7. ASSUME job.state = "active"
      PROVE  D!Throw(job) \in D!Job /\ Regular(D!Throw(job)) /\ Taken(D!Throw(job)) = Taken(job)
    <2>1. job = [state |-> job.state, attempts |-> job.attempts, stalls |-> job.stalls]
        BY DEF D!Job
    <2>2. CASE job.attempts + 1 < Attempts
        <3>1. D!Throw(job) = [state |-> "waiting", attempts |-> job.attempts + 1, stalls |-> job.stalls]
            BY <2>1, <2>2 DEF D!Throw
        <3>2. job.attempts + 1 \in 0 .. Attempts
            BY <1>1, <1>2, <2>2
        <3>3. D!Throw(job) \in D!Job
            BY <1>2, <3>1, <3>2 DEF D!Job, D!JobStates
        <3> QED BY <1>1, <1>2, <1>7, <2>2, <3>1, <3>3 DEF Regular, Taken
    <2>3. CASE ~ (job.attempts + 1 < Attempts)
        <3>1. D!Throw(job) = [state |-> "failed", attempts |-> Attempts, stalls |-> job.stalls]
            BY <2>1, <2>3 DEF D!Throw
        <3>2. D!Throw(job) \in D!Job
            BY <1>1, <1>2, <3>1 DEF D!Job, D!JobStates
        <3>3. job.attempts < Attempts
            BY <1>7 DEF Regular
        <3>4. job.attempts + 1 = Attempts
            BY <1>1, <1>2, <2>3, <3>3
        <3> QED BY <1>1, <1>2, <1>7, <3>1, <3>2, <3>4 DEF Regular, Taken
    <2> QED BY <2>2, <2>3
<1>8. ASSUME job.state = "active"
      PROVE  D!Stall(job) \in D!Job /\ Regular(D!Stall(job)) /\ Taken(D!Stall(job)) = Taken(job)
    <2>1. job = [state |-> job.state, attempts |-> job.attempts, stalls |-> job.stalls]
        BY DEF D!Job
    <2>2. CASE job.stalls < MaxStalls
        <3>1. D!Stall(job) = [state |-> "waiting", attempts |-> job.attempts, stalls |-> job.stalls + 1]
            BY <2>1, <2>2 DEF D!Stall
        <3>2. job.stalls + 1 \in 0 .. MaxStalls
            BY <1>1, <1>2, <2>2
        <3>3. D!Stall(job) \in D!Job
            BY <1>2, <3>1, <3>2 DEF D!Job, D!JobStates
        <3> QED BY <1>1, <1>2, <1>8, <2>2, <3>1, <3>3 DEF Regular, Taken
    <2>3. CASE ~ (job.stalls < MaxStalls)
        <3>1. D!Stall(job) = [state |-> "failed", attempts |-> job.attempts, stalls |-> job.stalls]
            BY <2>1, <2>3 DEF D!Stall
        <3>2. D!Stall(job) \in D!Job
            BY <1>2, <3>1 DEF D!Job, D!JobStates
        <3>3. job.attempts < Attempts
            BY <1>8 DEF Regular
        <3> QED BY <1>1, <1>2, <1>8, <3>1, <3>2, <3>3 DEF Regular, Taken
    <2> QED BY <2>2, <2>3
<1> QED BY <1>3, <1>4, <1>5, <1>6, <1>7, <1>8

LEMMA NoExecIs == /\ D!NoExec \in D!Exec /\ D!NoExec.pc = "idle" /\ \A m : ~ Will(D!NoExec, m)
                  /\ D!NoExec.holds = FALSE /\ D!NoExec.recipients = {}
<1>1. D!AnyDigest \in Digests
    BY ReportsAssumption DEF D!AnyDigest
<1> QED BY <1>1 DEF D!NoExec, D!Exec, Will

LEMMA MayMailFinite == \A d, m : /\ IsFiniteSet(MayMail(d, m)) /\ Cardinality(MayMail(d, m)) \in Nat
                                 /\ IsFiniteSet(MayMail(d, m)') /\ Cardinality(MayMail(d, m)') \in Nat
<1>1. \A T \in SUBSET Slots : IsFiniteSet(T) /\ Cardinality(T) \in Nat
    BY ReportsAssumption, FS_Subset, FS_CardinalityType
<1>2. \A d, m : MayMail(d, m) \in SUBSET Slots /\ MayMail(d, m)' \in SUBSET Slots
    BY DEF MayMail
<1> QED BY <1>1, <1>2

(* An execution begins, goes on or ends; the others stay where they are. *)
Now(s, exec) == execs' = [execs EXCEPT ![s] = exec]

LEMMA NowIs ==
    ASSUME D!DigestTypes, NEW s \in Slots, NEW exec \in D!Exec, Now(s, exec)
    PROVE  execs' \in [Slots -> D!Exec] /\ execs'[s] = exec /\ \A t \in Slots \ {s} : execs'[t] = execs[t]
BY DEF Now, D!DigestTypes

LEMMA MayMailIs ==
    ASSUME D!DigestTypes, NEW s \in Slots, NEW exec \in D!Exec, Now(s, exec), NEW d, NEW m
    PROVE  MayMail(d, m)' = (MayMail(d, m) \ {s}) \cup (IF exec.digest = d /\ Will(exec, m) THEN {s} ELSE {})
<1>1. execs'[s] = exec /\ \A t \in Slots \ {s} : execs'[t] = execs[t]
    BY NowIs
<1>2. MayMail(d, m)' = {t \in Slots : execs'[t].digest = d /\ Will(execs'[t], m)}
    BY DEF MayMail, Will
<1>3. \A t \in Slots \ {s} : t \in MayMail(d, m)' <=> t \in MayMail(d, m)
    BY <1>1, <1>2 DEF MayMail
<1>4. s \in MayMail(d, m)' <=> (exec.digest = d /\ Will(exec, m))
    BY <1>1, <1>2
<1>5. MayMail(d, m)' \subseteq Slots /\ MayMail(d, m) \subseteq Slots
    BY <1>2 DEF MayMail
<1> QED BY <1>3, <1>4, <1>5

(* An execution that goes on, with the job as it was. *)
GoesOn(s, exec) ==
    /\ exec \in D!Exec /\ Now(s, exec) /\ execs[s].pc # "idle" /\ exec.pc # "idle"
    /\ exec.digest = execs[s].digest /\ exec.holds = execs[s].holds
    /\ \A m \in Members : Will(exec, m) => Will(execs[s], m)
    /\ UNCHANGED jobs

LEMMA GoingOn ==
    ASSUME D!DigestTypes, Locked, CopiesTaken, NEW s \in Slots, NEW exec, GoesOn(s, exec)
    PROVE  /\ execs' \in [Slots -> D!Exec] /\ Locked'
           /\ UNCHANGED mailed => CopiesTaken'
<1> USE DEF GoesOn
<1>1. execs' \in [Slots -> D!Exec] /\ execs'[s] = exec /\ \A t \in Slots \ {s} : execs'[t] = execs[t]
    BY NowIs
<1>2. \A t \in Slots : /\ execs'[t].digest = execs[t].digest /\ execs'[t].holds = execs[t].holds
                       /\ execs'[t].pc = "idle" <=> execs[t].pc = "idle"
    BY <1>1
<1>3. Locked'
    BY <1>2 DEF Locked, Regular
<1>4. ASSUME UNCHANGED mailed PROVE CopiesTaken'
    <2> SUFFICES ASSUME NEW d \in Digests, NEW m \in Members
                 PROVE  mailed'[d][m] + Cardinality(MayMail(d, m)') <= Taken(jobs'[d])
        BY DEF CopiesTaken, MayMail, Taken, Will
    <2>1. MayMail(d, m)' \subseteq MayMail(d, m)
        BY MayMailIs DEF MayMail
    <2>2. Cardinality(MayMail(d, m)') <= Cardinality(MayMail(d, m))
        BY <2>1, MayMailFinite, FS_Subset
    <2>3. mailed[d][m] + Cardinality(MayMail(d, m)) <= Taken(jobs[d])
        BY DEF CopiesTaken
    <2>4. mailed[d][m] \in Nat /\ Taken(jobs[d]) \in Nat
        BY JobsMove DEF D!DigestTypes, Locked
    <2> QED BY <1>4, <2>2, <2>3, <2>4, MayMailFinite
<1> QED BY <1>1, <1>3, <1>4

(* What the steps of an execution make of it. *)
LEMMA ExecSteps ==
    ASSUME D!DigestTypes, NEW s \in Slots
    PROVE  /\ D!Gather(s) => \E exec : /\ GoesOn(s, exec) /\ exec.pc = "digest" /\ exec.recipients \subseteq Members
                                       /\ exec.left = IF smtp THEN exec.recipients ELSE {}
           /\ D!SendDigest(s) => \E m \in execs[s].left : \E exec :
                 /\ GoesOn(s, exec) /\ exec.pc = "digest" /\ exec.recipients = execs[s].recipients
                 /\ exec.left = execs[s].left \ {m}
                 /\ mailed' = [mailed EXCEPT ![execs[s].digest][m] = @ + 1]
           /\ D!DigestSent(s) => \E exec : GoesOn(s, exec) /\ exec.pc = "alert" /\ exec.recipients = execs[s].recipients
           /\ D!AlertsSent(s) => \E exec : GoesOn(s, exec) /\ exec.pc = "settle" /\ exec.recipients = execs[s].recipients
           /\ D!Settle(s) => \E exec : GoesOn(s, exec) /\ exec.pc = "ack" /\ exec.recipients = execs[s].recipients
<1>1. execs \in [Slots -> D!Exec] /\ execs[s] \in D!Exec
    BY DEF D!DigestTypes
<1>2. ASSUME D!Gather(s)
      PROVE  \E exec : /\ GoesOn(s, exec) /\ exec.pc = "digest" /\ exec.recipients \subseteq Members
                       /\ exec.left = IF smtp THEN exec.recipients ELSE {}
    <2> DEFINE Wanting(mail) == {m \in Members : mail \in wants[m]}
               exec == [execs[s] EXCEPT !.pc = "digest", !.recipients = Wanting("digest"),
                              !.left = IF smtp THEN Wanting("digest") ELSE {},
                              !.alerted = IF smtp /\ Overdue THEN Wanting("alert") ELSE {}]
    <2>1. Now(s, exec)
        BY <1>1, <1>2 DEF D!Gather, Now
    <2>2. /\ exec \in D!Exec /\ exec.pc = "digest" /\ exec.recipients = Wanting("digest")
          /\ exec.left = (IF smtp THEN Wanting("digest") ELSE {}) /\ exec.digest = execs[s].digest /\ exec.holds = execs[s].holds
        BY <1>1 DEF D!Exec
    <2> HIDE DEF exec
    <2>3. GoesOn(s, exec)
        BY <1>2, <2>1, <2>2 DEF GoesOn, Will, D!Gather, D!At
    <2> QED BY <2>2, <2>3
<1>3. ASSUME D!SendDigest(s)
      PROVE  \E m \in execs[s].left : \E exec :
                 /\ GoesOn(s, exec) /\ exec.pc = "digest" /\ exec.recipients = execs[s].recipients
                 /\ exec.left = execs[s].left \ {m}
                 /\ mailed' = [mailed EXCEPT ![execs[s].digest][m] = @ + 1]
    <2>1. PICK m \in execs[s].left : /\ mailed' = [mailed EXCEPT ![execs[s].digest][m] = @ + 1]
                                     /\ execs' = [execs EXCEPT ![s].left = @ \ {m}]
        BY <1>3 DEF D!SendDigest
    <2> DEFINE exec == [execs[s] EXCEPT !.left = @ \ {m}]
    <2>2. Now(s, exec)
        BY <1>1, <2>1 DEF Now
    <2>3. /\ exec \in D!Exec /\ exec.pc = execs[s].pc /\ exec.recipients = execs[s].recipients
          /\ exec.left = execs[s].left \ {m} /\ exec.digest = execs[s].digest /\ exec.holds = execs[s].holds
        BY <1>1 DEF D!Exec
    <2> HIDE DEF exec
    <2>4. GoesOn(s, exec) /\ exec.pc = "digest"
        BY <1>3, <2>2, <2>3 DEF GoesOn, Will, D!SendDigest, D!At
    <2> QED BY <2>1, <2>3, <2>4
<1>4. ASSUME NEW pc \in {"alert", "settle", "ack"}, D!Goto(s, pc), execs[s].pc # "idle", UNCHANGED jobs
      PROVE  \E exec : GoesOn(s, exec) /\ exec.pc = pc /\ exec.recipients = execs[s].recipients
    <2> DEFINE exec == [execs[s] EXCEPT !.pc = pc]
    <2>1. Now(s, exec)
        BY <1>1, <1>4 DEF Now, D!Goto
    <2>2. /\ exec \in D!Exec /\ exec.pc = pc /\ exec.recipients = execs[s].recipients
          /\ exec.digest = execs[s].digest /\ exec.holds = execs[s].holds
        BY <1>1 DEF D!Exec
    <2> HIDE DEF exec
    <2>3. GoesOn(s, exec)
        BY <1>4, <2>1, <2>2 DEF GoesOn, Will
    <2> QED BY <2>2, <2>3
<1>5. D!DigestSent(s) => \E exec : GoesOn(s, exec) /\ exec.pc = "alert" /\ exec.recipients = execs[s].recipients
    BY <1>4 DEF D!DigestSent, D!At
<1>6. D!AlertsSent(s) => \E exec : GoesOn(s, exec) /\ exec.pc = "settle" /\ exec.recipients = execs[s].recipients
    BY <1>4 DEF D!AlertsSent, D!At
<1>7. D!Settle(s) => \E exec : GoesOn(s, exec) /\ exec.pc = "ack" /\ exec.recipients = execs[s].recipients
    BY <1>4 DEF D!Settle, D!At
<1> QED BY <1>2, <1>3, <1>5, <1>6, <1>7

(* A slot takes a job; an execution ends or loses its lock, and its job is its no more. *)
TakesUp(s, d, exec) ==
    /\ exec \in D!Exec /\ Now(s, exec) /\ execs[s].pc = "idle" /\ exec.pc \in {"gather", "ack"}
    /\ exec.digest = d /\ exec.recipients = {}
    /\ jobs[d].state = "waiting" /\ jobs' = [jobs EXCEPT ![d] = D!Take(jobs[d])] /\ UNCHANGED mailed

LetsGo(s, exec) ==
    /\ exec \in D!Exec /\ Now(s, exec) /\ execs[s].pc # "idle" /\ ~ exec.holds
    /\ exec.pc \in {"idle", execs[s].pc}
    /\ exec.pc # "idle" => /\ exec.digest = execs[s].digest
                           /\ exec.recipients = execs[s].recipients /\ exec.left = execs[s].left
    /\ \E job \in {D!Finish(jobs[execs[s].digest]), D!Throw(jobs[execs[s].digest]), D!Stall(jobs[execs[s].digest])} :
          jobs' = IF execs[s].holds THEN [jobs EXCEPT ![execs[s].digest] = job] ELSE jobs
    /\ UNCHANGED mailed

LEMMA Beginning ==
    ASSUME D!DigestTypes, Locked, CopiesTaken, NEW s \in Slots, NEW d \in Digests, NEW exec, TakesUp(s, d, exec)
    PROVE  execs' \in [Slots -> D!Exec] /\ jobs' \in [Digests -> D!Job] /\ Locked' /\ CopiesTaken'
<1> USE DEF TakesUp
<1>1. execs' \in [Slots -> D!Exec] /\ execs'[s] = exec /\ \A t \in Slots \ {s} : execs'[t] = execs[t]
    BY NowIs
<1>2. /\ jobs \in [Digests -> D!Job] /\ jobs[d] \in D!Job /\ Regular(jobs[d])
      /\ \A c \in Digests : jobs[c] \in D!Job /\ Regular(jobs[c])
    BY DEF D!DigestTypes, Locked
<1>3. /\ D!Take(jobs[d]) \in D!Job /\ Regular(D!Take(jobs[d])) /\ Taken(D!Take(jobs[d])) = Taken(jobs[d]) + 1
      /\ D!Take(jobs[d]).state = "active"
    BY <1>2, JobsMove
<1>4. jobs' \in [Digests -> D!Job] /\ jobs'[d] = D!Take(jobs[d]) /\ \A c \in Digests \ {d} : jobs'[c] = jobs[c]
    BY <1>2, <1>3
<1>5. Locked'
    <2>1. \A c \in Digests : Regular(jobs'[c])
        BY <1>2, <1>3, <1>4
    <2>2. \A t \in Slots : t # s /\ execs[t].pc # "idle" /\ execs[t].holds => execs[t].digest # d
        BY DEF Locked
    <2>3. \A t \in Slots : execs[t].digest \in Digests
        BY DEF D!DigestTypes, D!Exec
    <2>4. \A t \in Slots : execs'[t].pc # "idle" /\ execs'[t].holds => jobs'[execs'[t].digest].state = "active"
        BY <1>1, <1>3, <1>4, <2>2, <2>3 DEF Locked
    <2>5. \A t, q \in Slots : (execs'[t].pc # "idle" /\ execs'[q].pc # "idle" /\ execs'[t].holds /\ execs'[q].holds
                                /\ execs'[t].digest = execs'[q].digest) => t = q
        BY <1>1, <2>2 DEF Locked
    <2> QED BY <2>1, <2>4, <2>5 DEF Locked, Regular
<1>6. CopiesTaken'
    <2> SUFFICES ASSUME NEW c \in Digests, NEW m \in Members
                 PROVE  mailed[c][m] + Cardinality(MayMail(c, m)') <= Taken(jobs'[c])
        BY DEF CopiesTaken, MayMail, Taken, Will
    <2>1. mailed[c][m] + Cardinality(MayMail(c, m)) <= Taken(jobs[c])
        BY DEF CopiesTaken
    <2>2. mailed[c][m] \in Nat /\ Taken(jobs[c]) \in Nat
        BY <1>2, JobsMove DEF D!DigestTypes
    <2>3. CASE c = d
        <3>1. s \notin MayMail(d, m) /\ MayMail(d, m)' \subseteq MayMail(d, m) \cup {s}
            BY MayMailIs DEF MayMail, Will
        <3>2. Cardinality(MayMail(d, m) \cup {s}) = Cardinality(MayMail(d, m)) + 1 /\ IsFiniteSet(MayMail(d, m) \cup {s})
            BY <3>1, MayMailFinite, FS_AddElement
        <3>3. Cardinality(MayMail(d, m)') <= Cardinality(MayMail(d, m) \cup {s})
            BY <3>1, <3>2, FS_Subset
        <3> QED BY <1>3, <1>4, <2>1, <2>2, <2>3, <3>2, <3>3, MayMailFinite
    <2>4. CASE c # d
        <3>1. MayMail(c, m)' \subseteq MayMail(c, m)
            BY <2>4, MayMailIs DEF MayMail
        <3>2. Cardinality(MayMail(c, m)') <= Cardinality(MayMail(c, m))
            BY <3>1, MayMailFinite, FS_Subset
        <3> QED BY <1>4, <2>1, <2>2, <2>4, <3>2, MayMailFinite
    <2> QED BY <2>3, <2>4
<1> QED BY <1>1, <1>4, <1>5, <1>6

LEMMA LettingGo ==
    ASSUME D!DigestTypes, Locked, CopiesTaken, NEW s \in Slots, NEW exec, LetsGo(s, exec)
    PROVE  execs' \in [Slots -> D!Exec] /\ jobs' \in [Digests -> D!Job] /\ Locked' /\ CopiesTaken'
<1> USE DEF LetsGo
<1> DEFINE d == execs[s].digest
<1>1. execs' \in [Slots -> D!Exec] /\ execs'[s] = exec /\ \A t \in Slots \ {s} : execs'[t] = execs[t]
    BY NowIs
<1>2. /\ d \in Digests /\ jobs \in [Digests -> D!Job]
      /\ \A c \in Digests : jobs[c] \in D!Job /\ Regular(jobs[c]) /\ Taken(jobs[c]) \in Nat
    BY JobsMove DEF D!DigestTypes, D!Exec, Locked
<1>3. PICK job \in {D!Finish(jobs[d]), D!Throw(jobs[d]), D!Stall(jobs[d])} :
          jobs' = IF execs[s].holds THEN [jobs EXCEPT ![d] = job] ELSE jobs
    OBVIOUS
<1>4. execs[s].holds => job \in D!Job /\ Regular(job) /\ Taken(job) = Taken(jobs[d])
    BY <1>2, JobsMove DEF Locked
<1>5. /\ jobs' \in [Digests -> D!Job]
      /\ \A c \in Digests : Regular(jobs'[c]) /\ Taken(jobs'[c]) = Taken(jobs[c])
      /\ \A c \in Digests : c # d \/ ~ execs[s].holds => jobs'[c] = jobs[c]
    BY <1>2, <1>3, <1>4
<1>6. Locked'
    <2>1. \A t \in Slots : t # s /\ execs[t].pc # "idle" /\ execs[t].holds => execs[t].digest # d \/ ~ execs[s].holds
        BY DEF Locked
    <2>2. \A t \in Slots : execs[t].digest \in Digests
        BY DEF D!DigestTypes, D!Exec
    <2>3. \A t \in Slots : execs'[t].pc # "idle" /\ execs'[t].holds => jobs'[execs'[t].digest].state = "active"
        BY <1>1, <1>5, <2>1, <2>2 DEF Locked
    <2>4. \A t, q \in Slots : (execs'[t].pc # "idle" /\ execs'[q].pc # "idle" /\ execs'[t].holds /\ execs'[q].holds
                                /\ execs'[t].digest = execs'[q].digest) => t = q
        BY <1>1 DEF Locked
    <2> QED BY <1>5, <2>3, <2>4 DEF Locked, Regular
<1>7. CopiesTaken'
    <2> SUFFICES ASSUME NEW c \in Digests, NEW m \in Members
                 PROVE  mailed[c][m] + Cardinality(MayMail(c, m)') <= Taken(jobs'[c])
        BY DEF CopiesTaken, MayMail, Taken, Will
    <2>1. MayMail(c, m)' \subseteq MayMail(c, m)
        BY MayMailIs DEF MayMail, Will
    <2>2. Cardinality(MayMail(c, m)') <= Cardinality(MayMail(c, m))
        BY <2>1, MayMailFinite, FS_Subset
    <2>3. mailed[c][m] + Cardinality(MayMail(c, m)) <= Taken(jobs[c]) /\ mailed[c][m] \in Nat
        BY DEF CopiesTaken, D!DigestTypes
    <2> QED BY <1>2, <1>5, <2>2, <2>3, MayMailFinite
<1> QED BY <1>1, <1>5, <1>6, <1>7

Quiet == /\ wants' \in [Members -> SUBSET D!Mails] /\ due' \in SUBSET Digests
         /\ jobs' = jobs \/ \E d \in Digests : jobs' = [jobs EXCEPT ![d] = D!Add(jobs[d])]
         /\ UNCHANGED <<smtp, rows, execs, mailed, notices>>

Taking(s) == \E d \in Digests : \E exec : /\ TakesUp(s, d, exec) /\ (exec.pc = "gather" => ~ D!Settled(d))
                                        /\ UNCHANGED <<smtp, wants, due, rows, notices>>
Leaving(s) == \E exec : LetsGo(s, exec) /\ UNCHANGED <<smtp, wants, due, rows, notices>>
AtWork(s) == \/ D!Gather(s) \/ D!SendDigest(s) \/ D!DigestSent(s) \/ D!AlertsSent(s) \/ D!Settle(s)

LEMMA MailingIs ==
    ASSUME D!DigestTypes, Together, Mailing
    PROVE  Quiet \/ \E s \in Slots : Taking(s) \/ Leaving(s) \/ AtWork(s)
<1>1. execs \in [Slots -> D!Exec] /\ jobs \in [Digests -> D!Job] /\ wants \in [Members -> SUBSET D!Mails] /\ due \subseteq Digests
    BY DEF D!DigestTypes
<1>2. ASSUME NEW d \in Digests, D!Schedule(d) \/ D!WeekEnds(d) PROVE Quiet
    BY <1>1, <1>2 DEF D!Schedule, D!WeekEnds, Quiet
<1>3. ASSUME NEW m \in Members, NEW mails \in setting.prefs, D!Prefer(m, mails) PROVE Quiet
    <2>1. mails \in SUBSET D!Mails
        BY <1>3, ReportsAssumption DEF Together, Setting
    <2> QED BY <1>1, <1>3, <2>1 DEF D!Prefer, Quiet
<1>4. ASSUME NEW s \in Slots, NEW d \in Digests, NEW pc \in {"gather", "ack"},
             D!At(s, "idle"), jobs[d].state = "waiting", pc = "gather" => ~ D!Settled(d), jobs' = [jobs EXCEPT ![d] = D!Take(@)],
             execs' = [execs EXCEPT ![s] = [D!NoExec EXCEPT !.pc = pc, !.digest = d, !.holds = TRUE]],
             UNCHANGED <<smtp, wants, due, rows, mailed, notices>>
      PROVE  Taking(s)
    <2> DEFINE exec == [D!NoExec EXCEPT !.pc = pc, !.digest = d, !.holds = TRUE]
    <2>1. exec \in D!Exec /\ exec.pc = pc /\ exec.digest = d /\ exec.recipients = {}
        BY DEF D!NoExec, D!Exec
    <2>2. execs' = [execs EXCEPT ![s] = exec]
        BY <1>4
    <2> HIDE DEF exec
    <2> QED BY <1>1, <1>4, <2>1, <2>2 DEF Taking, TakesUp, Now, D!At
<1>5. ASSUME NEW s \in Slots, NEW d \in Digests, D!Dismiss(s, d) PROVE Taking(s)
    BY <1>4, <1>5 DEF D!Dismiss
<1>6. ASSUME NEW s \in Slots, NEW d \in Digests, D!Start(s, d) PROVE Taking(s)
    BY <1>4, <1>6 DEF D!Start
<1>7. ASSUME NEW s \in Slots, D!Done(s) \/ D!Throws(s) \/ D!Dies(s) PROVE Leaving(s)
    <2> DEFINE job(next) == jobs' = IF execs[s].holds THEN [jobs EXCEPT ![execs[s].digest] = next] ELSE jobs
    <2>1. /\ execs[s].pc # "idle" /\ Now(s, D!NoExec) /\ UNCHANGED <<smtp, wants, due, rows, mailed, notices>>
          /\ \/ job(D!Finish(jobs[execs[s].digest])) \/ job(D!Throw(jobs[execs[s].digest])) \/ job(D!Stall(jobs[execs[s].digest]))
        BY <1>7 DEF D!Done, D!Throws, D!Dies, D!MayThrow, D!At, D!Leave, Now
    <2>2. LetsGo(s, D!NoExec)
        BY <2>1, NoExecIs DEF LetsGo
    <2> QED BY <2>1, <2>2 DEF Leaving
<1>8. ASSUME NEW s \in Slots, D!LosesLock(s) PROVE Leaving(s)
    <2> DEFINE exec == [execs[s] EXCEPT !.holds = FALSE]
    <2>1. execs[s] \in D!Exec
        BY <1>1
    <2>2. /\ exec \in D!Exec /\ exec.pc = execs[s].pc /\ exec.recipients = execs[s].recipients /\ exec.left = execs[s].left
          /\ exec.digest = execs[s].digest /\ ~ exec.holds
        BY <2>1 DEF D!Exec
    <2>3. Now(s, exec)
        BY <1>8 DEF D!LosesLock, Now
    <2> HIDE DEF exec
    <2>4. jobs' = [jobs EXCEPT ![execs[s].digest] = D!Stall(jobs[execs[s].digest])]
        BY <1>8 DEF D!LosesLock
    <2>5. LetsGo(s, exec)
        BY <1>8, <2>2, <2>3, <2>4 DEF LetsGo, D!LosesLock
    <2> QED BY <1>8, <2>5 DEF Leaving, D!LosesLock
<1>9. \/ \E d \in Digests : D!Schedule(d) \/ D!WeekEnds(d)
      \/ \E s \in Slots, d \in Digests : D!Dismiss(s, d) \/ D!Start(s, d)
      \/ \E s \in Slots : AtWork(s) \/ D!Done(s) \/ D!Throws(s) \/ D!Dies(s) \/ D!LosesLock(s)
      \/ \E m \in Members, mails \in setting.prefs : D!Prefer(m, mails)
    BY DEF Mailing, D!DigestStep, AtWork
<1> QED BY <1>2, <1>3, <1>5, <1>6, <1>7, <1>8, <1>9

LEMMA OneMails ==
    ASSUME Together, setting.slots <= 1
    PROVE  \A s, t \in Slots : execs[s].pc # "idle" /\ execs[t].pc # "idle" => s = t
<1> DEFINE Mailers == {s \in Slots : execs[s].pc # "idle"}
<1>1. IsFiniteSet(Mailers) /\ Cardinality(Mailers) \in Nat
    BY ReportsAssumption, FS_Subset, FS_CardinalityType
<1>2. Cardinality(Mailers) <= 1
    BY <1>1, ReportsAssumption DEF Together, Setting
<1> QED BY <1>1, <1>2, AtMostOne

DigestsKept == /\ D!DigestTypes' /\ Locked' /\ CopiesTaken' /\ Mailed' /\ Unsettled'

LEMMA QuietKeeps == ASSUME DigestInv, Quiet, UNCHANGED setting PROVE DigestsKept
<1> USE DEF DigestInv, Quiet
<1>1. /\ jobs \in [Digests -> D!Job]
      /\ \A c \in Digests : jobs[c] \in D!Job /\ Regular(jobs[c]) /\ Taken(jobs[c]) \in Nat
    BY JobsMove DEF D!DigestTypes, Locked
<1>2. /\ jobs' \in [Digests -> D!Job]
      /\ \A c \in Digests : /\ Regular(jobs'[c]) /\ Taken(jobs'[c]) = Taken(jobs[c])
                            /\ jobs[c].state = "active" => jobs'[c].state = "active"
    BY <1>1, JobsMove
<1>3. D!DigestTypes'
    BY <1>2 DEF D!DigestTypes
<1>4. Locked'
    <2>1. \A s \in Slots : execs[s].digest \in Digests
        BY DEF D!DigestTypes, D!Exec
    <2> QED BY <1>2, <2>1 DEF Locked, Regular
<1>5. CopiesTaken'
    <2> SUFFICES ASSUME NEW d \in Digests, NEW m \in Members
                 PROVE  mailed[d][m] + Cardinality(MayMail(d, m)') <= Taken(jobs'[d])
        BY DEF CopiesTaken, MayMail, Taken, Will
    <2>1. MayMail(d, m)' = MayMail(d, m)
        BY DEF MayMail, Will
    <2> QED BY <1>2, <2>1 DEF CopiesTaken
<1>6. Mailed'
    BY DEF Mailed
<1>7. Unsettled'
    BY DEF Unsettled, D!Settled
<1> QED BY <1>3, <1>4, <1>5, <1>6, <1>7 DEF DigestsKept

LEMMA TakingKeeps == ASSUME DigestInv, NEW s \in Slots, Taking(s), UNCHANGED setting PROVE DigestsKept
<1> USE DEF DigestInv
<1> DEFINE Takes(d, exec) == /\ TakesUp(s, d, exec) /\ (exec.pc = "gather" => ~ D!Settled(d))
                            /\ UNCHANGED <<smtp, wants, due, rows, notices>>
<1>0. PICK d \in Digests : \E exec : Takes(d, exec)
    BY DEF Taking
<1>1. PICK exec : Takes(d, exec)
    BY <1>0
<1>2. execs' \in [Slots -> D!Exec] /\ jobs' \in [Digests -> D!Job] /\ Locked' /\ CopiesTaken' /\ UNCHANGED mailed
    BY <1>1, Beginning DEF TakesUp
<1>3. execs'[s] = exec /\ \A t \in Slots \ {s} : execs'[t] = execs[t]
    BY <1>1, NowIs DEF TakesUp
<1>4. D!DigestTypes'
    BY <1>1, <1>2 DEF D!DigestTypes
<1>5. Mailed'
    BY <1>1, <1>2, <1>3 DEF Mailed, TakesUp
<1>6. Unsettled'
    BY <1>1, <1>3 DEF Unsettled, D!Settled, TakesUp
<1> QED BY <1>2, <1>4, <1>5, <1>6 DEF DigestsKept

LEMMA LeavingKeeps == ASSUME DigestInv, NEW s \in Slots, Leaving(s), UNCHANGED setting PROVE DigestsKept
<1> USE DEF DigestInv
<1>1. PICK exec : LetsGo(s, exec) /\ UNCHANGED <<smtp, wants, due, rows, notices>>
    BY DEF Leaving
<1>2. execs' \in [Slots -> D!Exec] /\ jobs' \in [Digests -> D!Job] /\ Locked' /\ CopiesTaken' /\ UNCHANGED mailed
    BY <1>1, LettingGo DEF LetsGo
<1>3. execs'[s] = exec /\ \A t \in Slots \ {s} : execs'[t] = execs[t]
    BY <1>1, NowIs DEF LetsGo
<1>4. D!DigestTypes'
    BY <1>1, <1>2 DEF D!DigestTypes
<1>5. Mailed'
    BY <1>1, <1>2, <1>3 DEF Mailed, LetsGo
<1>6. Unsettled'
    BY <1>1, <1>3 DEF Unsettled, D!Settled, LetsGo
<1> QED BY <1>2, <1>4, <1>5, <1>6 DEF DigestsKept

LEMMA AtWorkKeeps == ASSUME DigestInv, Together', NEW s \in Slots, AtWork(s), UNCHANGED setting PROVE DigestsKept
<1> USE DEF DigestInv
<1> DEFINE d == execs[s].digest
<1>1. /\ jobs \in [Digests -> D!Job] /\ rows \in [Digests -> D!Statuses] /\ execs \in [Slots -> D!Exec]
      /\ mailed \in [Digests -> [Members -> Nat]] /\ notices \in [Digests -> Nat] /\ smtp \in BOOLEAN
      /\ \A t \in Slots : /\ execs[t].digest \in Digests /\ execs[t].left \subseteq Members
                          /\ execs[t].recipients \subseteq Members
    BY DEF D!DigestTypes, D!Exec
<1> DEFINE Same(exec) == exec.recipients = execs[s].recipients /\ UNCHANGED <<smtp, wants, due>>
<1>2. CASE D!Gather(s)
    <2>1. PICK exec : /\ GoesOn(s, exec) /\ exec.pc = "digest" /\ exec.recipients \subseteq Members
                      /\ exec.left = IF smtp THEN exec.recipients ELSE {}
        BY <1>2, ExecSteps
    <2>2. /\ execs[s].pc = "gather" /\ rows' = [rows EXCEPT ![d] = "GENERATED"]
          /\ UNCHANGED <<smtp, wants, due, mailed, notices>>
        BY <1>2 DEF D!Gather, D!At
    <2>3. execs' \in [Slots -> D!Exec] /\ UNCHANGED jobs /\ Locked' /\ CopiesTaken'
        BY <2>1, <2>2, GoingOn DEF GoesOn
    <2>4. execs'[s] = exec /\ exec.digest = d /\ \A t \in Slots \ {s} : execs'[t] = execs[t]
        BY <2>1, NowIs DEF GoesOn
    <2>5. rows' \in [Digests -> D!Statuses] /\ rows'[d] = "GENERATED" /\ \A c \in Digests \ {d} : rows'[c] = rows[c]
        BY <1>1, <2>2 DEF D!Statuses
    <2>6. D!DigestTypes'
        BY <2>2, <2>3, <2>5 DEF D!DigestTypes
    <2>7. Mailed'
        BY <1>1, <2>1, <2>2, <2>4, <2>5 DEF Mailed
    <2>8. Unsettled'
        BY <1>1, <2>1, <2>2, <2>4, <2>5 DEF Unsettled, D!Settled
    <2> QED BY <2>3, <2>6, <2>7, <2>8 DEF DigestsKept
<1>3. CASE D!SendDigest(s)
    <2>0. PICK m \in execs[s].left : \E exec :
              /\ GoesOn(s, exec) /\ exec.pc = "digest" /\ exec.recipients = execs[s].recipients
              /\ exec.left = execs[s].left \ {m}
              /\ mailed' = [mailed EXCEPT ![d][m] = @ + 1]
        BY <1>3, ExecSteps
    <2>1. PICK exec : /\ GoesOn(s, exec) /\ exec.pc = "digest" /\ exec.recipients = execs[s].recipients
                      /\ exec.left = execs[s].left \ {m}
                      /\ mailed' = [mailed EXCEPT ![d][m] = @ + 1]
        BY <2>0
    <2>2. execs[s].pc = "digest" /\ m \in Members /\ UNCHANGED <<smtp, wants, due, rows, notices>>
        BY <1>1, <1>3, <2>1 DEF D!SendDigest, D!At
    <2>3. execs' \in [Slots -> D!Exec] /\ UNCHANGED jobs /\ Locked'
        BY <2>1, GoingOn DEF GoesOn
    <2>4. exec \in D!Exec /\ Now(s, exec) /\ exec.digest = d /\ execs'[s] = exec /\ \A t \in Slots \ {s} : execs'[t] = execs[t]
        BY <2>1, NowIs DEF GoesOn
    <2>5. /\ mailed' \in [Digests -> [Members -> Nat]] /\ mailed'[d][m] = mailed[d][m] + 1
          /\ \A c \in Digests, n \in Members : c # d \/ n # m => mailed'[c][n] = mailed[c][n]
        BY <1>1, <2>1, <2>2
    <2>6. D!DigestTypes'
        BY <2>2, <2>3, <2>5 DEF D!DigestTypes
    <2>7. Mailed'
        <3>1. \A c \in Digests, n \in Members : mailed'[c][n] >= mailed[c][n] /\ mailed[c][n] \in Nat
            BY <1>1, <2>5
        <3>2. mailed'[d][m] >= 1
            BY <1>1, <2>2, <2>5
        <3> QED BY <1>1, <2>1, <2>2, <2>4, <3>1, <3>2 DEF Mailed
    <2>8. Unsettled'
        BY <1>1, <2>1, <2>2, <2>4 DEF Unsettled, D!Settled
    <2>9. CopiesTaken'
        <3> SUFFICES ASSUME NEW c \in Digests, NEW n \in Members
                     PROVE  mailed'[c][n] + Cardinality(MayMail(c, n)') <= Taken(jobs'[c])
            BY DEF CopiesTaken, MayMail, Taken, Will
        <3>1. \A k \in Members : Will(exec, k) => Will(execs[s], k) /\ k # m
            BY <2>1, <2>2 DEF Will
        <3>2. MayMail(c, n)' = (MayMail(c, n) \ {s}) \cup (IF exec.digest = c /\ Will(exec, n) THEN {s} ELSE {})
            BY <2>4, MayMailIs
        <3>3. MayMail(c, n)' \subseteq MayMail(c, n) /\ (c = d /\ n = m => MayMail(c, n)' = MayMail(c, n) \ {s})
            BY <2>4, <3>1, <3>2 DEF MayMail
        <3>4. mailed[c][n] + Cardinality(MayMail(c, n)) <= Taken(jobs[c]) /\ Taken(jobs'[c]) = Taken(jobs[c])
              /\ mailed[c][n] \in Nat /\ Taken(jobs[c]) \in Nat
            BY <1>1, <2>3, JobsMove DEF CopiesTaken, Locked
        <3>5. CASE c = d /\ n = m
            <4>1. s \in MayMail(c, n)
                BY <2>2, <3>5 DEF MayMail, Will
            <4>2. Cardinality(MayMail(c, n)') = Cardinality(MayMail(c, n)) - 1
                BY <3>3, <3>5, <4>1, MayMailFinite, FS_RemoveElement
            <4> QED BY <2>5, <3>4, <3>5, <4>2, MayMailFinite
        <3>6. CASE ~ (c = d /\ n = m)
            <4>1. Cardinality(MayMail(c, n)') <= Cardinality(MayMail(c, n))
                BY <3>3, MayMailFinite, FS_Subset
            <4> QED BY <2>5, <3>4, <3>6, <4>1, MayMailFinite
        <3> QED BY <3>5, <3>6
    <2> QED BY <2>3, <2>6, <2>7, <2>8, <2>9 DEF DigestsKept
<1>4. CASE D!DigestSent(s) \/ D!AlertsSent(s)
    <2>1. PICK exec : GoesOn(s, exec) /\ exec.pc \in {"alert", "settle"} /\ exec.recipients = execs[s].recipients
        BY <1>4, ExecSteps
    <2>2. /\ (execs[s].pc = "digest" /\ execs[s].left = {}) \/ execs[s].pc = "alert"
          /\ UNCHANGED <<smtp, wants, due, rows, mailed, notices>>
        BY <1>4 DEF D!DigestSent, D!AlertsSent, D!At
    <2>3. execs' \in [Slots -> D!Exec] /\ UNCHANGED jobs /\ Locked' /\ CopiesTaken'
        BY <2>1, <2>2, GoingOn DEF GoesOn
    <2>4. execs'[s] = exec /\ exec.digest = d /\ \A t \in Slots \ {s} : execs'[t] = execs[t]
        BY <2>1, NowIs DEF GoesOn
    <2>5. D!DigestTypes'
        BY <2>2, <2>3 DEF D!DigestTypes
    <2>6. Mailed'
        BY <1>1, <2>1, <2>2, <2>4 DEF Mailed
    <2>7. Unsettled'
        BY <1>1, <2>1, <2>2, <2>4 DEF Unsettled, D!Settled
    <2> QED BY <2>3, <2>5, <2>6, <2>7 DEF DigestsKept
<1>5. CASE D!Settle(s)
    <2>1. PICK exec : GoesOn(s, exec) /\ exec.pc = "ack" /\ exec.recipients = execs[s].recipients
        BY <1>5, ExecSteps
    <2>2. /\ execs[s].pc = "settle" /\ notices' = [notices EXCEPT ![d] = @ + 1]
          /\ UNCHANGED <<smtp, wants, due, mailed>>
        BY <1>5 DEF D!Settle, D!At
    <2>3. execs' \in [Slots -> D!Exec] /\ UNCHANGED jobs /\ Locked' /\ CopiesTaken'
        BY <2>1, <2>2, GoingOn DEF GoesOn
    <2>4. execs'[s] = exec /\ exec.digest = d /\ \A t \in Slots \ {s} : execs'[t] = execs[t]
        BY <2>1, NowIs DEF GoesOn
    <2>5. /\ rows' \in [Digests -> D!Statuses] /\ rows'[d] \in {"DELIVERED", "SKIPPED"} /\ (~ smtp => rows'[d] # "DELIVERED")
          /\ \A c \in Digests \ {d} : rows'[c] = rows[c]
        BY <1>1, <1>5 DEF D!Settle, D!Statuses
    <2>6. notices' \in [Digests -> Nat] /\ notices'[d] = notices[d] + 1 /\ \A c \in Digests \ {d} : notices'[c] = notices[c]
        BY <1>1, <2>2
    <2>7. D!DigestTypes'
        BY <2>2, <2>3, <2>5, <2>6 DEF D!DigestTypes
    <2>8. Mailed'
        BY <1>1, <2>1, <2>2, <2>4, <2>5 DEF Mailed
    <2>9. ASSUME setting.slots <= 1
          PROVE  /\ \A t \in Slots : execs'[t].pc \in {"gather", "digest", "alert", "settle"} => ~ (rows'[execs'[t].digest] \in {"DELIVERED", "SKIPPED"})
                 /\ \A c \in Digests : notices'[c] <= IF rows'[c] \in {"DELIVERED", "SKIPPED"} THEN 1 ELSE 0
        <3>1. \A t \in Slots \ {s} : execs[t].pc = "idle"
            BY <2>2, <2>9, OneMails
        <3>2. notices[d] <= 0
            BY <1>1, <2>2, <2>9 DEF Unsettled, D!Settled
        <3>3. notices'[d] <= 1
            BY <1>1, <2>6, <3>2
        <3> QED BY <1>1, <2>1, <2>4, <2>5, <2>6, <2>9, <3>1, <3>3 DEF Unsettled, D!Settled
    <2>10. Unsettled'
        BY <2>9 DEF Unsettled, D!Settled
    <2> QED BY <2>3, <2>7, <2>8, <2>10 DEF DigestsKept
<1> QED BY <1>2, <1>3, <1>4, <1>5 DEF AtWork

-----------------------------------------------------------------------------
(* What a step of the other components leaves as it was *)

LEMMA SearchSame ==
    ASSUME SearchInv, StoredBehind, OneProperty, UNCHANGED <<searchVars, setting>>
    PROVE  SearchInv' /\ StoredBehind' /\ OneProperty'
<1>1. SearchInv'
    BY DEF SearchInv, S!SearchTypes, searchVars
<1>2. \A p, w : Stored(snapshots', p, w) = Stored(snapshots, p, w)
    BY DEF searchVars
<1>3. StoredBehind'
    BY <1>2 DEF StoredBehind, searchVars, OneSync
<1>4. OneProperty'
    BY DEF OneProperty, searchVars, S!Running
<1> QED BY <1>1, <1>3, <1>4

LEMMA BacklogSame ==
    ASSUME BacklogTypes, BaselinesRead, FewTasks, OutcomesRead, OutcomesOfDone, CreatesAsRead, UNCHANGED <<backlogVars, setting>>
    PROVE  BacklogTypes' /\ BaselinesRead' /\ FewTasks' /\ OutcomesRead' /\ OutcomesOfDone' /\ CreatesAsRead'
<1>1. /\ content' = content /\ audits' = audits /\ issues' = issues /\ tasks' = tasks /\ reqs' = reqs /\ setting' = setting
      /\ Audits' = Audits /\ \A s : B!Rows(s)' = B!Rows(s) /\ Creators(s)' = Creators(s)
    BY DEF backlogVars, Audits, B!Rows, Creators
<1>2. BacklogTypes' /\ BaselinesRead' /\ OutcomesRead' /\ OutcomesOfDone'
    BY <1>1 DEF BacklogTypes, BaselinesRead, OutcomesRead, OutcomesOfDone, OneRequest
<1>3. FewTasks'
    BY <1>1 DEF FewTasks
<1>4. \A a, st : FromAudit(a, st)' = FromAudit(a, st)
    BY <1>1 DEF FromAudit
<1>5. CreatesAsRead'
    BY <1>1, <1>4 DEF CreatesAsRead, OneRequest
<1> QED BY <1>2, <1>3, <1>5

LEMMA DigestSame ==
    ASSUME DigestInv, UNCHANGED <<digestVars, setting>>
    PROVE  DigestsKept
<1>1. UNCHANGED <<smtp, wants, due, jobs, rows, execs, mailed, notices>>
    BY DEF digestVars
<1>2. Quiet
    BY <1>1 DEF Quiet, DigestInv, D!DigestTypes
<1> QED BY <1>2, QuietKeeps

LEMMA TogetherStep == ASSUME Together, [Next]_vars PROVE Together' /\ setting' = setting
<1> USE DEF Together, S!Running, B!Busy
<1>1. CASE Searching
    BY <1>1 DEF Searching, backlogVars, digestVars
<1>2. CASE Working
    BY <1>2 DEF Working, searchVars, digestVars
<1>3. CASE Mailing
    BY <1>3 DEF Mailing, searchVars, backlogVars
<1>4. CASE PlanChanges \/ UNCHANGED vars
    BY <1>4 DEF PlanChanges, vars, searchVars, backlogVars, digestVars
<1> QED BY <1>1, <1>2, <1>3, <1>4 DEF Next

Inv == WorkInv /\ DigestInv

LEMMA InvStep == ASSUME Inv, [Next]_vars PROVE Inv'
<1> USE DEF Inv, WorkInv, TypeInv
<1>1. Together' /\ setting' = setting /\ setting \in Settings
    BY TogetherStep DEF Together
<1>2. ASSUME UNCHANGED searchVars PROVE SearchInv' /\ StoredBehind' /\ OneProperty'
    BY <1>1, <1>2, SearchSame
<1>3. ASSUME UNCHANGED backlogVars
      PROVE  BacklogTypes' /\ BaselinesRead' /\ FewTasks' /\ OutcomesRead' /\ OutcomesOfDone' /\ CreatesAsRead'
    BY <1>1, <1>3, BacklogSame
<1>4. ASSUME UNCHANGED digestVars PROVE DigestsKept
    BY <1>1, <1>4, DigestSame
<1>5. CASE Searching
    <2>1. SearchInv' /\ StoredBehind' /\ OneProperty'
        BY <1>1, <1>5, SearchTyped, StoredStep, OnePropertyStep
    <2>2. entitled' = entitled /\ UNCHANGED backlogVars /\ UNCHANGED digestVars
        BY <1>5 DEF Searching
    <2> QED BY <1>1, <1>3, <1>4, <2>1, <2>2 DEF DigestsKept, DigestInv
<1>6. CASE Working
    <2>1. BacklogTypes' /\ BaselinesRead' /\ OutcomesRead' /\ CreatesAsRead' /\ FewTasks' /\ OutcomesOfDone'
        BY <1>1, <1>6, BacklogTyped, ReadsStep, FewTasksStep, OutcomesStep
    <2>2. entitled' = entitled /\ UNCHANGED searchVars /\ UNCHANGED digestVars
        BY <1>6 DEF Working
    <2> QED BY <1>1, <1>2, <1>4, <2>1, <2>2 DEF DigestsKept, DigestInv
<1>7. CASE Mailing
    <2>1. DigestsKept
        BY <1>1, <1>7, MailingIs, QuietKeeps, TakingKeeps, LeavingKeeps, AtWorkKeeps DEF DigestInv
    <2>2. entitled' = entitled /\ UNCHANGED searchVars /\ UNCHANGED backlogVars
        BY <1>7 DEF Mailing
    <2> QED BY <1>1, <1>2, <1>3, <2>1, <2>2 DEF DigestsKept, DigestInv
<1>8. CASE PlanChanges \/ UNCHANGED vars
    <2>1. entitled' \in BOOLEAN /\ UNCHANGED searchVars /\ UNCHANGED backlogVars /\ UNCHANGED digestVars
        BY <1>8 DEF PlanChanges, vars
    <2> QED BY <1>1, <1>2, <1>3, <1>4, <2>1 DEF DigestsKept, DigestInv
<1> QED BY <1>5, <1>6, <1>7, <1>8 DEF Next

-----------------------------------------------------------------------------
(* The initial states *)

LEMMA SearchInit == ASSUME Init PROVE SearchInv /\ StoredBehind /\ OneProperty /\ S!Running = {}
<1>0. /\ setting \in Settings /\ MaxWeek \in Nat /\ MaxRevisions \in Nat \ {0} /\ setting.past \in BOOLEAN
      /\ setting.past => Properties # {} /\ MaxWeek >= 1
    <2>1. setting \in Settings
        BY DEF Init
    <2>2. setting.past \in BOOLEAN
        BY <2>1, ReportsAssumption DEF Setting
    <2>3. setting.past => Properties # {} /\ MaxWeek >= 1
        BY <2>1, ReportsAssumption
    <2> QED BY <2>1, <2>2, <2>3, ReportsAssumption
<1>1. S!NoSync \in S!Sync /\ S!NoSync.pc = "idle" /\ 0 \in S!Weeks /\ 1 \in 0 .. MaxRevisions /\ 0 \in 0 .. MaxRevisions
    BY <1>0 DEF S!NoSync, S!Sync, S!Weeks, S!Kinds, S!NoReport, S!Report, S!Pages
<1>2. CASE setting.past
    <2> DEFINE p == CHOOSE q \in Properties : TRUE
               newer == [property |-> p, week |-> 1, report |-> [rev |-> 1, page |-> "low"]]
               older == [property |-> p, week |-> 0, report |-> [rev |-> 1, page |-> "high"]]
    <2>1. Synced
        BY <1>2 DEF Init
    <2>2. p \in Properties /\ 1 \in S!Weeks
        BY <1>0, <1>2 DEF S!Weeks
    <2>3. newer \in Snapshot /\ older \in Snapshot /\ newer.week = 1 /\ older.week = 0 /\ newer.property = p /\ older.property = p
          /\ newer.report.rev = 1 /\ older.report.rev = 1
        BY <1>1, <2>2 DEF Snapshot, S!Report, S!Pages
    <2>4. /\ connections = <<p>> /\ snapshots = <<newer, older>> /\ week = 1
          /\ google = [q \in Properties |-> [w \in S!Weeks |-> [rev |-> 1, page |-> "low"]]]
          /\ metrics = [q \in Properties |-> [w \in S!Weeks |-> 0]]
          /\ syncs = [s \in Syncs |-> S!NoSync]
        BY <2>1 DEF Synced
    <2> HIDE DEF p, newer, older
    <2>5. /\ connections \in Seq(Properties) /\ ToSet(connections) = {p} /\ S!IsInjective(connections)
          /\ snapshots \in Seq(Snapshot) /\ ToSet(snapshots) = {newer, older}
        BY <2>2, <2>3, <2>4 DEF ToSet, S!IsInjective
    <2>6. \A i, j \in DOMAIN snapshots :
             (snapshots[i].property = snapshots[j].property /\ snapshots[i].week = snapshots[j].week) => i = j
        <3>1. \A i \in DOMAIN snapshots : (i = 1 /\ snapshots[i] = newer) \/ (i = 2 /\ snapshots[i] = older)
            BY <2>4
        <3> QED BY <2>3, <3>1
    <2>7. SearchInv
        <3>1. week \in S!Weeks /\ google \in [Properties -> [S!Weeks -> S!Report]]
            BY <1>1, <2>2, <2>4 DEF S!Report, S!Pages
        <3>2. metrics \in [Properties -> [S!Weeks -> 0 .. MaxRevisions]] /\ syncs \in [Syncs -> S!Sync]
              /\ \A s \in Syncs : syncs[s].pc = "idle"
            BY <1>1, <2>4
        <3> QED BY <2>5, <2>6, <3>1, <3>2 DEF SearchInv, S!SearchTypes, Snapshot
    <2>8. \A q, w : Stored(snapshots, q, w) = 0 \/ Stored(snapshots, q, w) = 1
        BY <2>3, <2>5, StoredIs DEF Of
    <2>9. StoredBehind
        <3>1. \A q \in Properties, w \in S!Weeks : metrics[q][w] = 0 /\ google[q][w].rev = 1
            BY <2>4
        <3>2. \A s \in Syncs : syncs[s].pc = "idle"
            BY <1>1, <2>4
        <3> QED BY <2>8, <3>1, <3>2 DEF StoredBehind
    <2>10. OneProperty /\ S!Running = {}
        BY <1>1, <2>3, <2>4, <2>5 DEF OneProperty, S!Running
    <2> QED BY <2>7, <2>9, <2>10
<1>3. CASE ~ setting.past
    <2>1. /\ connections = <<>> /\ snapshots = <<>> /\ week = 0
          /\ google = [q \in Properties |-> [w \in S!Weeks |-> [rev |-> 1, page |-> "high"]]]
          /\ metrics = [q \in Properties |-> [w \in S!Weeks |-> 0]]
          /\ syncs = [s \in Syncs |-> S!NoSync]
        BY <1>3 DEF Init, S!Init
    <2>2. connections \in Seq(Properties) /\ S!IsInjective(connections) /\ snapshots \in Seq(Snapshot)
          /\ ToSet(connections) = {} /\ ToSet(snapshots) = {}
        BY <2>1 DEF ToSet, S!IsInjective
    <2>3. \A i, j \in DOMAIN snapshots :
             (snapshots[i].property = snapshots[j].property /\ snapshots[i].week = snapshots[j].week) => i = j
        BY <2>1
    <2>4. SearchInv
        <3>1. week \in S!Weeks /\ google \in [Properties -> [S!Weeks -> S!Report]]
            BY <1>1, <2>1 DEF S!Report, S!Pages
        <3>2. metrics \in [Properties -> [S!Weeks -> 0 .. MaxRevisions]] /\ syncs \in [Syncs -> S!Sync]
              /\ \A s \in Syncs : syncs[s].pc = "idle"
            BY <1>1, <2>1
        <3> QED BY <2>2, <2>3, <3>1, <3>2 DEF SearchInv, S!SearchTypes, Snapshot
    <2>5. \A q, w : Stored(snapshots, q, w) = 0
        BY <2>2, StoredIs DEF Of
    <2>6. StoredBehind
        BY <1>1, <2>1, <2>5 DEF StoredBehind
    <2>7. OneProperty /\ S!Running = {}
        BY <1>1, <2>1, <2>2 DEF OneProperty, S!Running
    <2> QED BY <2>4, <2>6, <2>7
<1> QED BY <1>0, <1>2, <1>3

LEMMA BacklogInit ==
    ASSUME Init
    PROVE  BacklogTypes /\ BaselinesRead /\ FewTasks /\ OutcomesRead /\ OutcomesOfDone /\ CreatesAsRead /\ B!Busy = {}
<1>1. setting \in Settings /\ MaxAudits \in Nat \ {0} /\ IsFiniteSet(Reqs) /\ Cardinality(Reqs) \in Nat
    <2>1. setting \in Settings
        BY DEF Init
    <2> QED BY <2>1, ReportsAssumption, FS_CardinalityType
<1>2. /\ content \subseteq Signals /\ reqs = [r \in Reqs |-> B!IdleReq]
      /\ audits \in {0, 1} /\ issues \in [B!Findings -> Issue] /\ \A f \in B!Findings : issues[f].audit <= audits
      /\ tasks \in Seq(TaskRow) /\ (DOMAIN tasks = {} \/ (DOMAIN tasks = {1} /\ ~ tasks[1].outcome))
    <2>1. CASE setting.tasks = 1
        <3> DEFINE f == CHOOSE g \in Signals : TRUE
                   issue == [B!NoIssue EXCEPT !.status = "OPEN", !.audit = 1]
                   task == B!Task(<<"audit", f>>, NoImpact)
        <3>1. Signals # {}
            BY <1>1, <2>1, ReportsAssumption
        <3>2. f \in Signals /\ f \in B!Findings /\ <<"audit", f>> \in B!Sources
            BY <3>1 DEF B!Findings, B!Sources
        <3>3. WithTask
            BY <2>1 DEF Init
        <3>4. /\ content = {f} /\ audits = 1 /\ issues = [[g \in B!Findings |-> B!NoIssue] EXCEPT ![f] = issue]
              /\ tasks = <<task>> /\ reqs = [r \in Reqs |-> B!IdleReq]
            BY <3>2, <3>3 DEF WithTask
        <3>5. issue \in Issue /\ issue.audit = 1 /\ B!NoIssue \in Issue /\ B!NoIssue.audit = 0
            BY DEF B!NoIssue, Issue, B!IssueStatuses, Impacts
        <3>6. task \in TaskRow /\ ~ task.outcome
            BY <3>2 DEF B!Task, TaskRow, B!TaskStatuses, Impacts
        <3> HIDE DEF f, issue, task
        <3>7. issues \in [B!Findings -> Issue] /\ \A g \in B!Findings : issues[g].audit <= audits
            <4>1. \A g \in B!Findings : issues[g] = IF g = f THEN issue ELSE B!NoIssue
                BY <3>4
            <4>2. DOMAIN issues = B!Findings /\ issues = [g \in B!Findings |-> IF g = f THEN issue ELSE B!NoIssue]
                BY <3>4
            <4>3. issues \in [B!Findings -> Issue]
                BY <3>5, <4>2
            <4>4. \A g \in B!Findings : issues[g].audit = 0 \/ issues[g].audit = 1
                BY <3>5, <4>1
            <4> QED BY <3>4, <4>3, <4>4
        <3>8. tasks \in Seq(TaskRow) /\ DOMAIN tasks = {1} /\ ~ tasks[1].outcome
            BY <3>4, <3>6
        <3> QED BY <3>2, <3>4, <3>7, <3>8
    <2>2. CASE setting.tasks # 1
        <3>1. /\ content \in SUBSET Signals /\ audits = 0 /\ issues = [f \in B!Findings |-> B!NoIssue]
              /\ tasks = <<>> /\ reqs = [r \in Reqs |-> B!IdleReq]
            BY <2>2 DEF Init, B!Init
        <3>2. B!NoIssue \in Issue /\ B!NoIssue.audit = 0
            BY DEF B!NoIssue, Issue, B!IssueStatuses, Impacts
        <3>3. \A f \in B!Findings : issues[f].audit = 0
            BY <3>1, <3>2
        <3>4. issues \in [B!Findings -> Issue] /\ \A f \in B!Findings : issues[f].audit <= audits
            BY <3>1, <3>2, <3>3
        <3>5. tasks \in Seq(TaskRow) /\ DOMAIN tasks = {}
            BY <3>1
        <3> QED BY <3>1, <3>4, <3>5
    <2> QED BY <2>1, <2>2
<1>3. \A r \in Reqs : reqs[r] = B!IdleReq /\ reqs[r].pc = "idle" /\ DOMAIN reqs[r] = ReqFields /\ Asks(reqs[r], issues, tasks)
    BY <1>2, IdleTyped DEF Asks
<1>4. Audits = {} /\ B!Busy = {} /\ \A s : Creators(s) = {}
    BY <1>3 DEF Audits, B!Busy, Creators
<1>5. BacklogTypes
    <2>1. Cardinality(Audits) = 0
        BY <1>4, FS_EmptySet
    <2>2. audits + Cardinality(Audits) <= MaxAudits + Cardinality(Reqs) /\ audits \in Nat
        BY <1>1, <1>2, <2>1
    <2> QED BY <1>2, <1>3, <2>2 DEF BacklogTypes
<1>6. BaselinesRead /\ OutcomesRead /\ CreatesAsRead
    BY <1>3, <1>4 DEF BaselinesRead, OutcomesRead, CreatesAsRead
<1>7. OutcomesOfDone
    BY <1>2 DEF OutcomesOfDone
<1>8. FewTasks
    <2> SUFFICES ASSUME NEW s \in B!Sources, B!Rows(s) # {}
                 PROVE  Cardinality(B!Rows(s)) + Cardinality(Creators(s)) <= Larger(1, setting.reqs)
        BY DEF FewTasks
    <2>1. B!Rows(s) = {1}
        BY <1>2 DEF B!Rows
    <2>2. Cardinality(B!Rows(s)) = 1 /\ Cardinality(Creators(s)) = 0
        BY <1>4, <2>1, FS_Singleton, FS_EmptySet
    <2>3. setting.reqs \in Nat
        BY <1>1, ReportsAssumption DEF Setting
    <2> QED BY <2>2, <2>3 DEF Larger
<1> QED BY <1>4, <1>5, <1>6, <1>7, <1>8

LEMMA DigestInit ==
    ASSUME Init
    PROVE  D!DigestTypes /\ Locked /\ CopiesTaken /\ Mailed /\ Unsettled /\ {s \in Slots : execs[s].pc # "idle"} = {}
<1>1. /\ smtp \in BOOLEAN /\ wants = [m \in Members |-> D!Mails] /\ due = {}
      /\ jobs = [d \in Digests |-> D!NoJob] /\ rows = [d \in Digests |-> "none"] /\ execs = [s \in Slots |-> D!NoExec]
      /\ mailed = [d \in Digests |-> [m \in Members |-> 0]] /\ notices = [d \in Digests |-> 0]
    BY DEF Init, D!Init
<1>2. Attempts \in Nat \ {0} /\ MaxStalls \in Nat
    BY QueueAssumption DEF D!QueueAssumption
<1>3. D!NoJob \in D!Job /\ Regular(D!NoJob) /\ Taken(D!NoJob) = 0
    BY <1>2 DEF D!NoJob, D!Job, D!JobStates, Regular, Taken
<1>4. D!DigestTypes
    BY <1>1, <1>3, NoExecIs DEF D!DigestTypes, D!Statuses
<1>5. \A s \in Slots : execs[s].pc = "idle" /\ \A m : ~ Will(execs[s], m)
    BY <1>1, NoExecIs
<1>6. Locked
    BY <1>1, <1>3, <1>5 DEF Locked
<1>7. CopiesTaken
    <2>1. \A d, m : MayMail(d, m) = {}
        BY <1>5 DEF MayMail
    <2> QED BY <1>1, <1>3, <2>1, FS_EmptySet DEF CopiesTaken
<1>8. Mailed /\ Unsettled
    BY <1>1, <1>5 DEF Mailed, Unsettled, D!Settled
<1>9. {s \in Slots : execs[s].pc # "idle"} = {}
    BY <1>5
<1> QED BY <1>4, <1>6, <1>7, <1>8, <1>9

-----------------------------------------------------------------------------
(* What holds of every behaviour *)

LEMMA InvInit == ASSUME Init PROVE Inv
<1>1. setting \in Settings /\ setting \in Setting /\ entitled \in BOOLEAN
    <2>1. setting \in Settings /\ entitled = TRUE
        BY DEF Init
    <2> QED BY <2>1, ReportsAssumption
<1>2. Together
    <2>1. setting.syncs \in Nat /\ setting.reqs \in Nat /\ setting.slots \in Nat
        BY <1>1 DEF Setting
    <2>2. Cardinality(S!Running) = 0 /\ Cardinality(B!Busy) = 0 /\ Cardinality({s \in Slots : execs[s].pc # "idle"}) = 0
        BY SearchInit, BacklogInit, DigestInit, FS_EmptySet
    <2> QED BY <1>1, <2>1, <2>2 DEF Together
<1> QED BY <1>1, <1>2, SearchInit, BacklogInit, DigestInit DEF Inv, WorkInv, TypeInv, DigestInv

(* The inductive invariant: what is stored is behind Google; what requests have read *)
(* still holds, as far as nothing may come between; no more tasks than requests that *)
(* may meet; and no more mails than executions of a digest's job.                    *)
THEOREM InvHolds == Spec => []Inv
<1>1. Init => Inv
    BY InvInit
<1>2. Inv /\ [Next]_vars => Inv'
    BY InvStep
<1> QED BY <1>1, <1>2, PTL DEF Spec

(* Every variable has its type, whatever happens together. *)
THEOREM TypesHold == Spec => []TypeOK
<1>1. ASSUME Inv PROVE TypeOK
    <2> USE DEF Inv, WorkInv, TypeInv
    <2>1. S!SearchTypes /\ D!DigestTypes /\ entitled \in BOOLEAN
        BY <1>1 DEF SearchInv
    <2>2. content \subseteq Signals /\ audits \in 0 .. MaxAudits + Cardinality(Reqs)
        <3>1. Cardinality(Audits) \in Nat /\ Cardinality(Reqs) \in Nat /\ MaxAudits \in Nat
            BY Sizes, ReportsAssumption, FS_CardinalityType, FS_Subset DEF Audits
        <3> QED BY <1>1, <3>1 DEF BacklogTypes
    <2>3. ASSUME NEW f \in B!Findings
          PROVE  issues[f].status \in B!IssueStatuses \cup {"none"} /\ issues[f].audit \in 0 .. audits
        <3>1. issues[f] \in Issue /\ issues[f].audit <= audits /\ audits \in Nat
            BY <1>1, <2>3 DEF BacklogTypes
        <3> QED BY <3>1 DEF Issue
    <2>4. ASSUME NEW i \in DOMAIN tasks PROVE tasks[i].source \in B!Sources /\ tasks[i].status \in B!TaskStatuses
        <3>1. tasks[i] \in TaskRow
            BY <1>1, <2>4, LenProperties, ElementOfSeq DEF BacklogTypes
        <3> QED BY <3>1 DEF TaskRow
    <2> QED BY <2>1, <2>2, <2>3, <2>4 DEF TypeOK
<1> QED BY <1>1, InvHolds, PTL

(* What is stored never goes back while syncs do not overlap; audits read the      *)
(* property in force while it is the only one; a finding keeps its baseline and     *)
(* what a member decided; tasks are not doubled more often than requests meet, and  *)
(* only what is done has an outcome.                                                *)
THEOREM WorkKept == Spec => WorkIsKept
<1> DEFINE Advances == OneSync => \A p \in Properties, w \in S!Weeks :
                          /\ metrics'[p][w] >= metrics[p][w]
                          /\ Stored(snapshots', p, w) \in {0} \cup Stored(snapshots, p, w) .. MaxRevisions
           Measured == OneRequest => \A f \in B!Findings :
                          (issues[f].baseline # NoImpact /\ issues'[f].impact # NoImpact)
                             => issues'[f].baseline = issues[f].baseline
           Decided == \A f \in B!Findings :
                          (issues[f].status # "none" /\ issues'[f].status # issues[f].status)
                             => \E r \in Reqs : reqs[r].pc = "triage" /\ issues'[f].status = reqs[r].next
<1>1. ASSUME Inv, Next PROVE Advances
    <2>1. CASE Searching
        BY <1>1, <2>1, StoredMoves DEF Inv, WorkInv, TypeInv
    <2>2. CASE ~ Searching
        <3>1. metrics' = metrics /\ snapshots' = snapshots
            BY <1>1, <2>2 DEF Next, Working, Mailing, PlanChanges, searchVars
        <3>2. \A p \in Properties, w \in S!Weeks : metrics[p][w] \in Nat /\ Stored(snapshots, p, w) \in 0 .. MaxRevisions
            <4>1. metrics \in [Properties -> [S!Weeks -> 0 .. MaxRevisions]] /\ snapshots \in Seq(Snapshot)
                BY <1>1 DEF Inv, WorkInv, TypeInv, SearchInv, S!SearchTypes, Snapshot
            <4> QED BY <4>1, StoredIs
        <3> QED BY <3>1, <3>2, ReportsAssumption
    <2> QED BY <2>1, <2>2
<1>2. ASSUME Inv, Next PROVE Measured /\ Decided
    <2>1. CASE Working
        BY <1>2, <2>1, BaselineKept, TriageKept DEF Inv, WorkInv, TypeInv
    <2>2. CASE ~ Working
        BY <1>2, <2>2 DEF Next, Searching, Mailing, PlanChanges, backlogVars
    <2> QED BY <2>1, <2>2
<1>3. ASSUME Inv PROVE AuditsReadInForce /\ TasksAgree
    BY <1>3, InForceRead, FewDuplicates DEF Inv, WorkInv, TypeInv, Together, TasksAgree
<1>4. Inv /\ [Next]_vars => [Advances]_vars /\ [Measured]_vars /\ [Decided]_vars
    BY <1>1, <1>2
<1> QED BY <1>3, <1>4, InvHolds, PTL DEF Spec, WorkIsKept, EvidenceKept, StoredAdvances, BaselinesKept, TriageSurvives

(* Everyone picked by the execution that settled a digest was mailed, nobody more   *)
(* often than its job runs; while executions do not overlap, a settled digest stays *)
(* settled, is mailed to nobody and told of once.                                   *)
THEOREM DigestsArrive == Spec => DigestsDelivered
<1> DEFINE StaysQuiet == setting.slots <= 1 => \A d \in Digests :
                            /\ D!Settled(d) => mailed'[d] = mailed[d] /\ rows'[d] = rows[d]
                            /\ notices'[d] <= 1
<1>1. ASSUME Inv PROVE DigestsReachAll /\ FewCopies
    <2> USE DEF Inv, DigestInv
    <2>1. DigestsReachAll
        <3>1. smtp \in BOOLEAN /\ \A s \in Slots : execs[s].digest \in Digests
            BY <1>1 DEF D!DigestTypes, D!Exec
        <3> QED BY <1>1, <3>1 DEF DigestsReachAll, Mailed, D!At
    <2>2. ASSUME NEW d \in Digests, NEW m \in Members PROVE mailed[d][m] <= D!Executions
        <3>1. mailed[d][m] + Cardinality(MayMail(d, m)) <= Taken(jobs[d]) /\ mailed[d][m] \in Nat
            BY <1>1 DEF CopiesTaken, D!DigestTypes
        <3>2. Taken(jobs[d]) \in Nat /\ Taken(jobs[d]) <= D!Executions
            BY <1>1, JobsMove DEF Locked, D!DigestTypes
        <3>3. D!Executions \in Nat
            BY QueueAssumption DEF D!QueueAssumption, D!Executions
        <3> QED BY <3>1, <3>2, <3>3, MayMailFinite
    <2> QED BY <2>1, <2>2 DEF FewCopies
<1>2. ASSUME Inv, Next, Inv' PROVE StaysQuiet
    <2> SUFFICES ASSUME setting.slots <= 1, NEW d \in Digests
                 PROVE  /\ D!Settled(d) => mailed'[d] = mailed[d] /\ rows'[d] = rows[d]
                        /\ notices'[d] <= 1
        OBVIOUS
    <2>1. setting' = setting
        BY <1>2, TogetherStep DEF Inv, DigestInv
    <2>2. notices'[d] <= 1
        <3>1. notices'[d] <= IF D!Settled(d)' THEN 1 ELSE 0
            BY <1>2, <2>1 DEF Inv, DigestInv, Unsettled
        <3>2. notices'[d] \in Nat
            BY <1>2 DEF Inv, DigestInv, D!DigestTypes
        <3> QED BY <3>1, <3>2
    <2>3. CASE ~ Mailing
        BY <1>2, <2>2, <2>3 DEF Next, Searching, Working, PlanChanges, digestVars
    <2>4. CASE Mailing
        <3>1. Quiet \/ \E s \in Slots : Taking(s) \/ Leaving(s) \/ AtWork(s)
            BY <1>2, <2>4, MailingIs DEF Inv, DigestInv
        <3>2. CASE Quiet \/ \E s \in Slots : Taking(s) \/ Leaving(s)
            BY <2>2, <3>2 DEF Quiet, Taking, TakesUp, Leaving, LetsGo
        <3>3. ASSUME NEW s \in Slots, AtWork(s), D!Settled(d) PROVE mailed'[d] = mailed[d] /\ rows'[d] = rows[d]
            <4>1. execs[s].pc \in {"gather", "digest", "alert", "settle"}
                BY <3>3 DEF AtWork, D!Gather, D!SendDigest, D!DigestSent, D!AlertsSent, D!Settle, D!At
            <4>2. execs[s].digest # d /\ execs[s].digest \in Digests
                BY <1>2, <3>3, <4>1 DEF Inv, DigestInv, Unsettled, D!DigestTypes, D!Exec
            <4>3. mailed \in [Digests -> [Members -> Nat]] /\ rows \in [Digests -> D!Statuses]
                BY <1>2 DEF Inv, DigestInv, D!DigestTypes
            <4> QED BY <3>3, <4>2, <4>3 DEF AtWork, D!Gather, D!SendDigest, D!DigestSent, D!AlertsSent, D!Settle
        <3> QED BY <2>2, <3>1, <3>2, <3>3
    <2> QED BY <2>3, <2>4
<1>3. Inv /\ Inv' /\ [Next]_vars => [StaysQuiet]_vars
    BY <1>2
<1> QED BY <1>1, <1>3, InvHolds, PTL DEF Spec, DigestsDelivered, SettledStaysQuiet

-----------------------------------------------------------------------------
(* Steps as the in-memory repository takes them *)

LEMMA SameWithout == \A list, rest : Dev!Without(list, rest) = S!Without(list, rest)
BY DEF Dev!Without, S!Without

DevIssue(row) == [status |-> row.status, audit |-> row.audit]
DevTask(t) == [of |-> t.source[2], status |-> t.status, outcome |-> t.outcome, late |-> t.late]
DevIssues == [f \in B!Findings |-> DevIssue(issues[f])]
DevTasks == [i \in AuditTasks |-> DevTask(tasks[i])]

LEMMA WorkSame == ASSUME UNCHANGED <<audits, issues, tasks>> PROVE UNCHANGED Dev!workVars
<1>1. AuditTasks' = AuditTasks
    BY DEF AuditTasks
<1> QED BY <1>1 DEF Dev!workVars

LEMMA SearchingMatches ==
    ASSUME SearchInv, Searching
    PROVE  Dev!Next \/ UNCHANGED Dev!devVars
<1>1. UNCHANGED Dev!workVars
    BY WorkSame DEF Searching, backlogVars
<1>2. ASSUME NEW p \in Properties, S!Use(p) PROVE Dev!Next
    <2>1. connections' = <<p>> \o S!Without(connections, {p}) /\ UNCHANGED <<metrics, snapshots>>
        BY <1>2 DEF S!Use
    <2>2. Dev!UpsertConnection(p)
        BY <1>1, <2>1, SameWithout DEF Dev!UpsertConnection
    <2> QED BY <2>2 DEF Dev!Next, Dev!Searching
<1>3. ASSUME NEW s \in Syncs, S!StoreMetrics(s) PROVE Dev!Next \/ UNCHANGED Dev!devVars
    <2> DEFINE sync == syncs[s]
    <2>1. sync \in S!Sync /\ sync.pc = "store" /\ sync.property \in Properties
        BY <1>3 DEF SearchInv, S!SearchTypes, S!StoreMetrics
    <2>2. sync.week \in S!Weeks /\ sync.got.rev \in 0 .. MaxRevisions
        BY <2>1 DEF S!Sync, S!Report
    <2>3. CASE sync.got.page = "empty"
        BY <1>1, <1>3, <2>3 DEF S!StoreMetrics, Dev!devVars, Dev!gscVars
    <2>4. CASE sync.got.page # "empty"
        <3>1. Dev!UpsertDailyMetrics(sync.property, sync.week, sync.got.rev)
            BY <1>1, <1>3, <2>4 DEF S!StoreMetrics, Dev!UpsertDailyMetrics
        <3> QED BY <2>1, <2>2, <3>1 DEF Dev!Next, Dev!Searching
    <2> QED BY <2>3, <2>4
<1>4. ASSUME NEW s \in Syncs, S!StoreInsights(s) PROVE Dev!Next
    <2> DEFINE sync == syncs[s]
               own == S!InsightsOf(sync.property, sync.week)
               row == [property |-> sync.property, week |-> sync.week, report |-> sync.got]
               added == IF sync.got.page = "empty" THEN <<>> ELSE <<row>>
    <2>1. sync \in S!Sync /\ sync.pc = "store" /\ sync.property \in Properties /\ snapshots \in Seq(Snapshot)
        BY <1>4 DEF SearchInv, S!SearchTypes, S!StoreInsights, Snapshot
    <2>2. sync.week \in S!Weeks /\ sync.got \in S!Report
        BY <2>1 DEF S!Sync
    <2>3. S!Without(snapshots, own) \in Seq(Snapshot)
        BY <2>1, WithoutKeeps
    <2>4. snapshots' = added \o S!Without(snapshots, own) /\ UNCHANGED <<connections, metrics>>
        <3>1. snapshots' = IF sync.got.page = "empty" THEN S!Without(snapshots, own) ELSE <<row>> \o S!Without(snapshots, own)
            BY <1>4 DEF S!StoreInsights
        <3>2. <<>> \o S!Without(snapshots, own) = S!Without(snapshots, own)
            BY <2>3, ConcatEmptySeq
        <3> QED BY <1>4, <3>1, <3>2 DEF S!StoreInsights
    <2>5. own = {n \in Dev!ToSet(snapshots) : n.property = sync.property /\ n.week = sync.week}
        BY SameSets DEF S!InsightsOf
    <2>6. Dev!ReplaceSearchInsights(sync.property, sync.week, added)
        BY <1>1, <2>4, <2>5, SameWithout DEF Dev!ReplaceSearchInsights
    <2>7. added \in {<<>>} \cup {<<[property |-> sync.property, week |-> sync.week, report |-> rep]>> : rep \in S!Report}
        BY <2>2
    <2> QED BY <2>1, <2>2, <2>6, <2>7 DEF Dev!Next, Dev!Searching
<1>5. ASSUME UNCHANGED <<connections, metrics, snapshots>> PROVE UNCHANGED Dev!devVars
    BY <1>1, <1>5 DEF Dev!devVars, Dev!gscVars
<1>6. \/ \E p \in Properties : S!Use(p)
      \/ \E s \in Syncs : S!StoreMetrics(s) \/ S!StoreInsights(s)
      \/ UNCHANGED <<connections, metrics, snapshots>>
    BY DEF Searching, S!Connect, S!SelectProperty, S!Revise, S!SyncRead, S!SyncQuery, S!SyncFails, S!WeekPasses
<1> QED BY <1>2, <1>3, <1>4, <1>5, <1>6

LEMMA DevWorks ==
    /\ \A generated \in SUBSET B!Findings : Dev!CreateAudit(generated) => Dev!Next
    /\ \A f \in B!Findings : Dev!CreateTask(f) => Dev!Next
    /\ \A f \in B!Findings, status \in B!IssueStatuses : Dev!UpdateIssueStatus(f, status) => Dev!Next
    /\ \A a \in 1 .. audits, status \in B!IssueStatuses : Dev!CreateTasks(a, status) => Dev!Next
    /\ \A i \in AuditTasks, status \in B!TaskStatuses : Dev!UpdateStatus(i, status) => Dev!Next
    /\ \A i \in AuditTasks, flag \in BOOLEAN : Dev!UpdateOutcome(i, flag) \/ Dev!UpdateDueDate(i, flag) => Dev!Next
<1>1. DOMAIN DevTasks = AuditTasks
    BY DEF DevTasks
<1> QED BY <1>1, Zenon DEF Dev!Next, Dev!Working, DevTasks, DevTask, B!IssueStatuses, B!TaskStatuses

LEMMA RowTyped == ASSUME NEW list \in Seq(TaskRow), NEW i \in DOMAIN list PROVE list[i] \in TaskRow
BY LenProperties, ElementOfSeq

LEMMA DevRows ==
    ASSUME BacklogTypes
    PROVE  /\ \A f \in B!Findings : Dev!TaskOf(f) = B!Rows(<<"audit", f>>)
           /\ \A f \in B!Findings : DevIssues[f].status = issues[f].status /\ DevIssues[f].audit = issues[f].audit
           /\ \A i \in AuditTasks : /\ DevTasks[i].status = tasks[i].status /\ DevTasks[i].outcome = tasks[i].outcome
                                    /\ DevTasks[i].late = tasks[i].late
<1>1. \A f \in B!Findings : DevIssues[f].status = issues[f].status /\ DevIssues[f].audit = issues[f].audit
    BY DEF DevIssues, DevIssue
<1>2. \A i \in AuditTasks : /\ DevTasks[i].of = tasks[i].source[2] /\ DevTasks[i].status = tasks[i].status
                            /\ DevTasks[i].outcome = tasks[i].outcome /\ DevTasks[i].late = tasks[i].late
    BY DEF DevTasks, DevTask
<1>3. ASSUME NEW f \in B!Findings PROVE Dev!TaskOf(f) = B!Rows(<<"audit", f>>)
    <2>1. Dev!TaskOf(f) = {i \in AuditTasks : DevTasks[i].of = f}
        BY DEF Dev!TaskOf, DevTasks, DevTask
    <2>2. \A i \in DOMAIN tasks : tasks[i].source \in B!Sources
        <3>1. \A i \in DOMAIN tasks : tasks[i] \in TaskRow
            BY RowTyped DEF BacklogTypes
        <3> QED BY <3>1 DEF TaskRow
    <2>3. \A s \in B!Sources : (s[1] = "audit" /\ s[2] = f) <=> s = <<"audit", f>>
        BY DEF B!Sources
    <2> QED BY <1>2, <2>1, <2>2, <2>3 DEF AuditTasks, B!Rows
<1> QED BY <1>1, <1>2, <1>3

LEMMA AuditMatches == ASSUME BacklogTypes, NEW r \in Reqs, B!AuditWrite(r), UNCHANGED searchVars PROVE Dev!Next
<1>0. PICK of \in SUBSET B!Findings : of = reqs[r].of
    BY AuditWritten
<1> DEFINE Seen(f) == [status |-> IF DevIssues[f].status = "none" THEN "OPEN" ELSE DevIssues[f].status, audit |-> audits + 1]
<1>1. /\ audits' = audits + 1 /\ tasks' = tasks
      /\ \A f \in B!Findings : IF f \in of
                               THEN /\ issues'[f].status = IF issues[f].status = "none" THEN "OPEN" ELSE issues[f].status
                                    /\ issues'[f].audit = audits + 1
                               ELSE issues'[f] = issues[f]
    BY <1>0, AuditWritten DEF B!AuditWrite
<1>2. \A f \in B!Findings : DevIssue(issues'[f]) = IF f \notin of THEN DevIssue(issues[f]) ELSE Seen(f)
    BY <1>1, DevRows DEF DevIssue
<1>3. DevIssues' = [f \in B!Findings |-> IF f \notin of THEN DevIssues[f] ELSE Seen(f)]
    BY <1>2 DEF DevIssues, DevIssue
<1>4. AuditTasks' = AuditTasks /\ DevTasks' = DevTasks
    BY <1>1 DEF AuditTasks, DevTasks
<1>5. Dev!CreateAudit(of)
    BY <1>1, <1>3, <1>4 DEF Dev!CreateAudit, Dev!gscVars, DevIssues, DevIssue, DevTasks, DevTask, searchVars
<1> QED BY <1>5, DevWorks

LEMMA TriageMatches == ASSUME BacklogTypes, NEW r \in Reqs, B!TriageWrite(r), UNCHANGED searchVars PROVE Dev!Next
<1>0. PICK next \in B!IssueStatuses : next = reqs[r].next
    BY TriageWritten
<1>1. PICK g \in B!Findings : reqs[r].of = {g} /\ issues[g].status # "none"
    BY TriageWritten
<1>2. \A f \in B!Findings : issues'[f].audit = issues[f].audit /\ issues'[f].status = IF f = g THEN next ELSE issues[f].status
    BY <1>0, <1>1, TriageWritten
<1>3. DevIssues' = [DevIssues EXCEPT ![g].status = next]
    <2>1. \A f \in B!Findings : DevIssue(issues'[f]) = IF f = g THEN [DevIssue(issues[f]) EXCEPT !.status = next] ELSE DevIssue(issues[f])
        BY <1>2 DEF DevIssue
    <2> QED BY <2>1 DEF DevIssues
<1>4. tasks' = tasks /\ audits' = audits /\ AuditTasks' = AuditTasks /\ DevTasks' = DevTasks
    BY DEF B!TriageWrite, AuditTasks, DevTasks
<1>5. Dev!UpdateIssueStatus(g, next)
    BY <1>1, <1>3, <1>4 DEF Dev!UpdateIssueStatus, Dev!gscVars, DevIssues, DevIssue, DevTasks, DevTask, searchVars
<1> QED BY <1>1, <1>5, DevWorks

DevRow == [of: B!Findings, status: B!TaskStatuses, outcome: BOOLEAN, late: BOOLEAN]
Marked(row, next, flag) == [row EXCEPT !.status = next, !.outcome = flag]

LEMMA RowMarked ==
    ASSUME NEW old \in DevRow, NEW next \in B!TaskStatuses, NEW flag \in BOOLEAN
    PROVE  Marked(old, next, flag) = [of |-> old.of, status |-> next, outcome |-> flag, late |-> old.late]
<1> DEFINE new == Marked(old, next, flag)
<1> USE DEF Marked, DevRow
<1>1. new \in DevRow
    OBVIOUS
<1>2. new.of = old.of /\ new.status = next /\ new.outcome = flag /\ new.late = old.late
    OBVIOUS
<1> HIDE DEF new
<1>3. new = [of |-> new.of, status |-> new.status, outcome |-> new.outcome, late |-> new.late]
    BY <1>1
<1>4. new = [of |-> old.of, status |-> next, outcome |-> flag, late |-> old.late]
    BY <1>2, <1>3
<1> QED BY <1>4 DEF new

LEMMA ChangeMatches ==
    ASSUME BacklogTypes, OutcomesRead, OneRequest, UNCHANGED searchVars,
           NEW r \in Reqs, B!StatusWrite(r) \/ B!OutcomeWrite(r) \/ B!DueWrite(r)
    PROVE  Dev!Next \/ UNCHANGED Dev!devVars
<1>0. PICK next : next = reqs[r].next
    OBVIOUS
<1>1. PICK i \in DOMAIN tasks : reqs[r].of = {i} /\ (reqs[r].pc = "status" => next \in B!TaskStatuses)
    <2>1. reqs[r].pc \in {"status", "outcome", "due"}
        BY DEF B!StatusWrite, B!OutcomeWrite, B!DueWrite
    <2> QED BY <1>0, <2>1 DEF BacklogTypes, Asks, B!IdleReq
<1>2. /\ DOMAIN tasks' = DOMAIN tasks
      /\ \A j \in DOMAIN tasks : tasks'[j].source = tasks[j].source /\ (j # i => tasks'[j] = tasks[j])
    BY <1>1, ChangedIs
<1>3. audits' = audits /\ issues' = issues /\ DevIssues' = DevIssues
    BY DEF B!StatusWrite, B!OutcomeWrite, B!DueWrite, B!Set, DevIssues
<1>4. AuditTasks' = AuditTasks
    BY <1>2 DEF AuditTasks
<1>5. tasks[i] \in TaskRow /\ tasks'[i] \in TaskRow
    BY <1>1, <1>2, ChangedIs, RowTyped DEF BacklogTypes
<1>6. CASE i \notin AuditTasks
    <2>1. DevTasks' = DevTasks
        BY <1>2, <1>4, <1>6 DEF DevTasks, AuditTasks
    <2> QED BY <1>3, <2>1 DEF Dev!devVars, Dev!gscVars, Dev!workVars, DevTasks, DevTask, searchVars
<1>7. CASE i \in AuditTasks
    <2>1. \A j \in AuditTasks : j # i => DevTask(tasks'[j]) = DevTasks[j]
        BY <1>2 DEF DevTasks, AuditTasks
    <2>2. DevTasks' = [DevTasks EXCEPT ![i] = DevTask(tasks'[i])]
        BY <1>4, <2>1 DEF DevTasks
    <2> DEFINE old == DevTasks[i]
    <2>3. old = [of |-> tasks[i].source[2], status |-> tasks[i].status, outcome |-> tasks[i].outcome, late |-> tasks[i].late]
        BY <1>7 DEF DevTasks, DevTask
    <2>4. CASE B!StatusWrite(r)
        <3>1. /\ tasks'[i].status = next /\ tasks'[i].late = tasks[i].late /\ tasks'[i].source = tasks[i].source
              /\ (tasks'[i].outcome <=> next = "DONE" /\ tasks[i].outcome)
            BY <1>0, <1>1, <1>2, <2>4, ChangedIs
        <3>2. tasks'[i].outcome \in BOOLEAN /\ tasks[i].outcome \in BOOLEAN
            BY <1>5 DEF TaskRow
        <3>3. tasks'[i].outcome = (next = "DONE" /\ tasks[i].outcome)
            BY <3>1, <3>2
        <3>4. DevTask(tasks'[i]) = [old EXCEPT !.status = next, !.outcome = next = "DONE" /\ @]
            <4> DEFINE flag == next = "DONE" /\ tasks[i].outcome
            <4>1. old.outcome = tasks[i].outcome
                BY <2>3
            <4>2. [old EXCEPT !.status = next, !.outcome = next = "DONE" /\ @] = Marked(old, next, flag)
                BY <2>3, <4>1 DEF Marked
            <4> HIDE DEF flag
            <4>3. old \in DevRow
                <5>1. tasks[i].source \in B!Sources /\ tasks[i].source[1] = "audit"
                    BY <1>5, <1>7 DEF TaskRow, AuditTasks
                <5>2. tasks[i].source[2] \in B!Findings
                    BY <5>1 DEF B!Sources
                <5> QED BY <1>5, <2>3, <5>2 DEF TaskRow, DevRow
            <4>4. flag \in BOOLEAN /\ next \in B!TaskStatuses
                BY <1>1, <2>4 DEF B!StatusWrite, flag
            <4> HIDE DEF old, flag
            <4>5. Marked(old, next, flag) = [of |-> old.of, status |-> next, outcome |-> flag, late |-> old.late]
                BY <4>3, <4>4, RowMarked
            <4> QED BY <2>3, <3>1, <3>3, <4>2, <4>5 DEF DevTask, flag, old
        <3>5. DevTasks' = [DevTasks EXCEPT ![i].status = next, ![i].outcome = next = "DONE" /\ @]
            BY <2>2, <3>4
        <3>6. Dev!UpdateStatus(i, next)
            BY <1>3, <3>5 DEF Dev!UpdateStatus, Dev!gscVars, DevIssues, DevIssue, DevTasks, DevTask, searchVars
        <3>7. next \in B!TaskStatuses
            BY <1>1, <2>4 DEF B!StatusWrite
        <3> QED BY <1>7, <3>6, <3>7, DevWorks
    <2>5. CASE B!OutcomeWrite(r)
        <3>1. /\ tasks'[i].status = tasks[i].status /\ tasks'[i].late = tasks[i].late /\ tasks'[i].source = tasks[i].source
              /\ (tasks'[i].outcome <=> next = "verified")
            BY <1>0, <1>1, <1>2, <2>5, ChangedIs
        <3>2. tasks'[i].outcome \in BOOLEAN
            BY <1>5 DEF TaskRow
        <3>3. PICK flag \in BOOLEAN : tasks'[i].outcome = flag
            BY <3>2
        <3>4. DevTask(tasks'[i]) = [old EXCEPT !.outcome = flag]
            BY <2>3, <3>1, <3>3 DEF DevTask
        <3>5. DevTasks' = [DevTasks EXCEPT ![i].outcome = flag]
            BY <2>2, <3>4
        <3>6. tasks[i].status = "DONE" /\ DevTasks[i].status = "DONE"
            BY <1>1, <1>7, <2>5, DevRows DEF OutcomesRead, B!OutcomeWrite
        <3>7. Dev!UpdateOutcome(i, flag)
            BY <1>3, <3>5, <3>6 DEF Dev!UpdateOutcome, Dev!gscVars, DevIssues, DevIssue, DevTasks, DevTask, searchVars
        <3> QED BY <1>7, <3>7, DevWorks
    <2>6. CASE B!DueWrite(r)
        <3>1. /\ tasks'[i].status = tasks[i].status /\ tasks'[i].outcome = tasks[i].outcome /\ tasks'[i].source = tasks[i].source
              /\ (tasks'[i].late <=> next = "past")
            BY <1>0, <1>1, <1>2, <2>6, ChangedIs
        <3>2. tasks'[i].late \in BOOLEAN
            BY <1>5 DEF TaskRow
        <3>3. PICK flag \in BOOLEAN : tasks'[i].late = flag
            BY <3>2
        <3>4. DevTask(tasks'[i]) = [old EXCEPT !.late = flag]
            BY <2>3, <3>1, <3>3 DEF DevTask
        <3>5. DevTasks' = [DevTasks EXCEPT ![i].late = flag]
            BY <2>2, <3>4
        <3>6. Dev!UpdateDueDate(i, flag)
            BY <1>3, <3>5 DEF Dev!UpdateDueDate, Dev!gscVars, DevIssues, DevIssue, DevTasks, DevTask, searchVars
        <3> QED BY <1>7, <3>6, DevWorks
    <2> QED BY <2>4, <2>5, <2>6
<1> QED BY <1>6, <1>7

LEMMA TaskIs == \A s, tag : /\ B!Task(s, tag).source = s /\ B!Task(s, tag).status = "TODO"
                            /\ B!Task(s, tag).outcome = FALSE /\ B!Task(s, tag).late = FALSE
BY DEF B!Task

LEMMA TasksAdded ==
    ASSUME BacklogTypes, NEW r \in Reqs, B!CreateWrite(r), UNCHANGED searchVars,
           NEW found \in SUBSET B!Findings, reqs[r].of \ reqs[r].found = {<<"audit", f>> : f \in found}
    PROVE  Dev!AddTasks(found)
<1>1. /\ tasks \in Seq(TaskRow) /\ tasks' \in Seq(TaskRow)
      /\ \A i \in DOMAIN tasks : /\ i \in DOMAIN tasks' /\ tasks'[i].source = tasks[i].source
                                 /\ tasks'[i].status = tasks[i].status /\ tasks'[i].outcome = tasks[i].outcome
                                 /\ tasks'[i].late = tasks[i].late
    BY Created DEF BacklogTypes
<1> DEFINE new == reqs[r].of \ reqs[r].found
           added == DOMAIN tasks' \ DOMAIN tasks
<1>2. PICK at \in Bijection(new, added) : \A s \in new : tasks'[at[s]] = B!Task(s, reqs[r].tags[s])
    BY Created
<1>3. /\ at \in [new -> added] /\ (\A s, t \in new : at[s] = at[t] => s = t) /\ \A i \in added : \E s \in new : at[s] = i
    BY <1>2 DEF Bijection, Injection, Surjection, IsInjective
<1>4. \A s \in new : /\ tasks'[at[s]].source = s /\ tasks'[at[s]].status = "TODO"
                     /\ tasks'[at[s]].outcome = FALSE /\ tasks'[at[s]].late = FALSE
    BY <1>2, TaskIs
<1>5. \A s \in new : s[1] = "audit" /\ s[2] \in found /\ s = <<"audit", s[2]>>
    OBVIOUS
<1> HIDE DEF new
<1>6. AuditTasks' = AuditTasks \cup added
    <2>1. AuditTasks' = {i \in DOMAIN tasks' : tasks'[i].source[1] = "audit"}
        BY DEF AuditTasks
    <2>2. \A i \in added : tasks'[i].source[1] = "audit"
        BY <1>3, <1>4, <1>5
    <2> QED BY <1>1, <2>1, <2>2 DEF AuditTasks
<1>7. added \cap AuditTasks = {}
    BY DEF AuditTasks
<1> DEFINE id == [f \in found |-> at[<<"audit", f>>]]
<1>8. \A f \in found : <<"audit", f>> \in new
    BY DEF new
<1>9. id \in Dev!Bijection(found, added)
    <2>1. id \in [found -> added]
        BY <1>3, <1>8
    <2>2. \A f, g \in found : id[f] = id[g] => f = g
        BY <1>3, <1>8
    <2>3. \A i \in added : \E f \in found : id[f] = i
        BY <1>3, <1>5
    <2> QED BY <2>1, <2>2, <2>3 DEF Dev!Bijection, Dev!Injection, Dev!Surjection, Dev!IsInjective
<1>10. \A f \in found : DevTask(tasks'[id[f]]) = [of |-> f, status |-> "TODO", outcome |-> FALSE, late |-> FALSE]
    <2> SUFFICES ASSUME NEW f \in found
                 PROVE  DevTask(tasks'[id[f]]) = [of |-> f, status |-> "TODO", outcome |-> FALSE, late |-> FALSE]
        OBVIOUS
    <2> DEFINE s == <<"audit", f>>
    <2>1. id[f] = at[s] /\ s \in new /\ s[2] = f
        BY <1>8
    <2> HIDE DEF s, id
    <2>2. /\ tasks'[id[f]].source = s /\ tasks'[id[f]].status = "TODO"
          /\ tasks'[id[f]].outcome = FALSE /\ tasks'[id[f]].late = FALSE
        BY <1>4, <2>1
    <2> QED BY <2>1, <2>2 DEF DevTask
<1>11. \A i \in AuditTasks : DevTask(tasks'[i]) = DevTask(tasks[i])
    BY <1>1 DEF DevTask, AuditTasks
<1>12. audits' = audits /\ issues' = issues /\ DevIssues' = DevIssues
    BY DEF B!CreateWrite, DevIssues
<1>13. DevTasks' = [i \in AuditTasks \cup added |-> DevTask(tasks'[i])]
    BY <1>6 DEF DevTasks, DevTask
<1>14. /\ \A i \in AuditTasks : i \in DOMAIN DevTasks' /\ DevTasks'[i] = DevTasks[i]
       /\ DOMAIN DevTasks' \ DOMAIN DevTasks = added
       /\ \A f \in found : DevTasks'[id[f]] = Dev!NewTask(f)
    <2>1. DOMAIN DevTasks = AuditTasks /\ \A i \in AuditTasks : DevTasks[i] = DevTask(tasks[i])
        BY DEF DevTasks
    <2>2. \A f \in found : id[f] \in added
        BY <1>3, <1>8
    <2> HIDE DEF added, id
    <2> QED BY <1>7, <1>10, <1>11, <1>13, <2>1, <2>2 DEF Dev!NewTask
<1> HIDE DEF added, id
<1> QED BY <1>9, <1>12, <1>14 DEF Dev!AddTasks, Dev!gscVars, DevIssues, DevIssue, DevTasks, DevTask, searchVars

LEMMA CreateMatches ==
    ASSUME BacklogTypes, CreatesAsRead, OneRequest, UNCHANGED searchVars, NEW r \in Reqs, B!CreateWrite(r)
    PROVE  Dev!Next \/ UNCHANGED Dev!devVars
<1> DEFINE of == reqs[r].of
           missing == {s \in of : B!Rows(s) = {}}
<1>1. reqs[r].of \ reqs[r].found = missing
    BY DEF CreatesAsRead, B!CreateWrite
<1>2. \/ \E f \in B!Findings : of = {<<"audit", f>>} /\ issues[f].status # "none"
      \/ \E a \in 1 .. audits, st \in B!IssueStatuses : of = FromAudit(a, st)
      \/ \E c \in Signals \cup {Chance} : of = {<<"candidate", c>>}
    BY DEF CreatesAsRead, B!CreateWrite
<1>3. ASSUME missing = {} \/ \E c : missing = {<<"candidate", c>>} PROVE UNCHANGED Dev!devVars
    <2>1. \A i \in DOMAIN tasks : /\ i \in DOMAIN tasks' /\ tasks'[i].source = tasks[i].source
                                  /\ tasks'[i].status = tasks[i].status /\ tasks'[i].outcome = tasks[i].outcome
                                  /\ tasks'[i].late = tasks[i].late
        BY Created
    <2>0. \E at \in Bijection(reqs[r].of \ reqs[r].found, DOMAIN tasks' \ DOMAIN tasks) :
             \A s \in reqs[r].of \ reqs[r].found : tasks'[at[s]] = B!Task(s, reqs[r].tags[s])
        BY Created
    <2> HIDE DEF missing
    <2>2. PICK at \in Bijection(missing, DOMAIN tasks' \ DOMAIN tasks) :
             \A s \in missing : tasks'[at[s]] = B!Task(s, reqs[r].tags[s])
        BY <1>1, <2>0
    <2>3. \A i \in DOMAIN tasks' \ DOMAIN tasks : \E s \in missing : at[s] = i
        BY <2>2 DEF Bijection, Surjection
    <2>4. \A s \in missing : s[1] = "candidate" /\ tasks'[at[s]].source = s
        BY <1>3, <2>2, TaskIs
    <2>5. \A i \in DOMAIN tasks' \ DOMAIN tasks : tasks'[i].source[1] # "audit"
        BY <2>3, <2>4
    <2>6. AuditTasks' = AuditTasks
        BY <2>1, <2>5 DEF AuditTasks
    <2>7. DevTasks' = DevTasks
        BY <2>1, <2>6 DEF DevTasks, DevTask, AuditTasks
    <2>8. audits' = audits /\ issues' = issues
        BY DEF B!CreateWrite
    <2> QED BY <2>7, <2>8 DEF Dev!devVars, Dev!gscVars, Dev!workVars, DevTasks, DevTask, searchVars
<1>4. ASSUME NEW f \in B!Findings, of = {<<"audit", f>>}, issues[f].status # "none", missing # {} PROVE Dev!Next
    <2>1. reqs[r].of \ reqs[r].found = {<<"audit", g>> : g \in {f}} /\ B!Rows(<<"audit", f>>) = {}
        BY <1>1, <1>4
    <2>2. Dev!AddTasks({f})
        BY <2>1, TasksAdded
    <2>3. Dev!TaskOf(f) = {} /\ DevIssues[f].status # "none"
        BY <1>4, <2>1, DevRows
    <2>4. Dev!CreateTask(f)
        BY <2>2, <2>3 DEF Dev!CreateTask, DevIssues, DevIssue
    <2> QED BY <2>4, DevWorks
<1>5. ASSUME NEW a \in 1 .. audits, NEW st \in B!IssueStatuses, of = FromAudit(a, st) PROVE Dev!Next
    <2>0. PICK found \in SUBSET B!Findings :
             found = {f \in B!Findings : issues[f].audit = a /\ issues[f].status = st /\ B!Rows(<<"audit", f>>) = {}}
        OBVIOUS
    <2>1. reqs[r].of \ reqs[r].found = {<<"audit", f>> : f \in found}
        BY <1>1, <1>5, <2>0 DEF FromAudit
    <2>2. Dev!AddTasks(found)
        BY <2>1, TasksAdded
    <2>3. found = {f \in B!Findings : DevIssues[f].audit = a /\ DevIssues[f].status = st /\ Dev!TaskOf(f) = {}}
        BY <2>0, DevRows
    <2>4. Dev!CreateTasks(a, st)
        BY <2>2, <2>3 DEF Dev!CreateTasks, Dev!AddTasks, DevIssues, DevIssue
    <2> QED BY <2>4, DevWorks
<1>6. ASSUME NEW c, of = {<<"candidate", c>>} PROVE missing = {} \/ missing = {<<"candidate", c>>}
    BY <1>6
<1> QED BY <1>2, <1>3, <1>4, <1>5, <1>6

(* While requests do not meet, every step is one of the in-memory repository, or     *)
(* leaves what it keeps as it was.                                                   *)
THEOREM DevReportsMatched == Spec => MatchesDevReports
<1>1. ASSUME Inv, Next, OneRequest PROVE Dev!Next \/ UNCHANGED Dev!devVars
    <2> USE DEF Inv, WorkInv, TypeInv
    <2>1. CASE Searching
        BY <1>1, <2>1, SearchingMatches
    <2>2. CASE Working
        <3>1. UNCHANGED searchVars
            BY <2>2 DEF Working
        <3>2. ASSUME NEW r \in Reqs, Writes(r) PROVE Dev!Next \/ UNCHANGED Dev!devVars
            BY <1>1, <3>1, <3>2, AuditMatches, TriageMatches, ChangeMatches, CreateMatches DEF Writes
        <3>3. ASSUME NEW r \in Reqs, Asking(r) \/ B!Abandon(r) PROVE UNCHANGED <<audits, issues, tasks>>
            BY <3>3 DEF Asking, Begins, B!Abandon
        <3>4. ASSUME NEW f \in Signals, B!ContentChanges(f) PROVE UNCHANGED <<audits, issues, tasks>>
            BY <3>4 DEF B!ContentChanges
        <3>5. ASSUME UNCHANGED <<audits, issues, tasks>> PROVE UNCHANGED Dev!devVars
            <4>1. UNCHANGED Dev!workVars
                BY <3>5, WorkSame
            <4> QED BY <3>1, <4>1 DEF Dev!devVars, Dev!gscVars, searchVars
        <3> QED BY <2>2, <3>2, <3>3, <3>4, <3>5, WorkingIs
    <2>3. CASE Mailing \/ PlanChanges
        <3>1. UNCHANGED Dev!workVars /\ UNCHANGED searchVars
            BY <2>3, WorkSame DEF Mailing, PlanChanges, backlogVars
        <3> QED BY <3>1 DEF Dev!devVars, Dev!gscVars, searchVars
    <2> QED BY <1>1, <2>1, <2>2, <2>3 DEF Next
<1>2. ASSUME UNCHANGED vars PROVE UNCHANGED Dev!devVars
    <2>1. UNCHANGED Dev!workVars /\ UNCHANGED searchVars
        BY <1>2, WorkSame DEF vars, backlogVars
    <2> QED BY <2>1 DEF Dev!devVars, Dev!gscVars, searchVars
<1>3. Inv /\ [Next]_vars => [OneRequest => Dev!Next]_(Dev!devVars)
    BY <1>1, <1>2
<1> QED BY <1>3, InvHolds, PTL DEF Spec, MatchesDevReports

=============================================================================
