------------------------- MODULE MonitoringProofs -------------------------
(***************************************************************************)
(* The records that scans of a URL leave are honest, for every page, any   *)
(* number of slots and every interleaving of jobs that overlap, die or     *)
(* are repeated.  What is saved is not inductive by itself: the invariant  *)
(* also speaks of what each slot still has to save.  Then: that the        *)
(* changes are told, the types, and that scans are made in time.           *)
(***************************************************************************)
EXTENDS Monitoring, FiniteSetTheorems, SequenceTheorems, NaturalsInduction, WellFoundedInduction, TLAPS

-----------------------------------------------------------------------------
(* Numbers and sequences *)

(* A non-empty set of numbers has a least one; what holds of 0 and of every *)
(* next number holds of all.                                                *)
LEMMA LeastOne ==
    ASSUME NEW S \in SUBSET Nat, S # {}
    PROVE  \E k \in S : \A j \in S : k <= j
<1>1. \E k \in S : \A j \in S : ~ (<<j, k>> \in OpToRel(<, Nat))
    BY NatLessThanWellFounded, WFMin
<1>2. OpToRel(<, Nat) = {ss \in Nat \X Nat : ss[1] < ss[2]}
    BY DEF OpToRel
<1>3. PICK k \in S : \A j \in S : ~ (<<j, k>> \in {ss \in Nat \X Nat : ss[1] < ss[2]})
    BY <1>1, <1>2
<1>4. ASSUME NEW j \in S PROVE k <= j
    <2>1. j \in Nat /\ k \in Nat /\ <<j, k>> \in Nat \X Nat
        OBVIOUS
    <2>2. ~ (j < k)
        BY <1>3, <2>1
    <2> QED BY <2>1, <2>2
<1> QED BY <1>4

LEMMA OneAfterTheOther ==
    ASSUME NEW S, 0 \in S, \A n \in Nat : n \in S => n + 1 \in S
    PROVE  Nat \subseteq S
<1> SUFFICES ASSUME Nat \ S # {} PROVE FALSE
    OBVIOUS
<1>1. PICK k \in Nat \ S : \A j \in Nat \ S : k <= j
    BY LeastOne
<1>2. k # 0 /\ k - 1 \in Nat
    BY <1>1
<1>3. k - 1 \in S
    BY <1>1, <1>2
<1> QED BY <1>1, <1>2, <1>3

(* What is in one of two sequences is in both together. *)
Has(a, W) == \E k \in DOMAIN a : a[k] \in W
AtMostOne(a, W) == \A k, l \in DOMAIN a : a[k] \in W /\ a[l] \in W => k = l

LEMMA TogetherHas ==
    ASSUME NEW S, NEW a \in Seq(S), NEW b \in Seq(S), NEW W
    PROVE  /\ Has(a \o b, W) <=> Has(a, W) \/ Has(b, W)
           /\ AtMostOne(a, W) /\ ~Has(b, W) => AtMostOne(a \o b, W)
           /\ ~Has(a, W) /\ AtMostOne(b, W) => AtMostOne(a \o b, W)
<1> DEFINE c == a \o b
<1>1. /\ DOMAIN a = 1 .. Len(a) /\ DOMAIN b = 1 .. Len(b) /\ DOMAIN c = 1 .. Len(a) + Len(b)
      /\ Len(a) \in Nat /\ Len(b) \in Nat
      /\ \A k \in 1 .. Len(a) : c[k] = a[k]
      /\ \A k \in 1 .. Len(b) : c[Len(a) + k] = b[k]
    BY ConcatProperties, LenProperties
<1> HIDE DEF c
<1>2. ASSUME NEW k \in DOMAIN c
      PROVE  \/ k \in DOMAIN a /\ c[k] = a[k]
             \/ k \notin DOMAIN a /\ k - Len(a) \in DOMAIN b /\ c[k] = b[k - Len(a)]
    <2>1. CASE k <= Len(a)
        BY <1>1, <2>1
    <2>2. CASE ~ (k <= Len(a))
        <3>1. k - Len(a) \in 1 .. Len(b) /\ Len(a) + (k - Len(a)) = k
            BY <1>1, <2>2
        <3>2. c[Len(a) + (k - Len(a))] = b[k - Len(a)]
            BY <1>1, <3>1
        <3> QED BY <1>1, <2>2, <3>1, <3>2
    <2> QED BY <2>1, <2>2
<1>3. Has(c, W) <=> Has(a, W) \/ Has(b, W)
    <2>1. \A k \in DOMAIN a : k \in DOMAIN c /\ c[k] = a[k]
        BY <1>1
    <2>2. \A k \in DOMAIN b : Len(a) + k \in DOMAIN c /\ c[Len(a) + k] = b[k]
        BY <1>1
    <2> QED BY <1>2, <2>1, <2>2 DEF Has
<1>4. AtMostOne(a, W) /\ ~Has(b, W) => AtMostOne(c, W)
    BY <1>2 DEF Has, AtMostOne
<1>5. ~Has(a, W) /\ AtMostOne(b, W) => AtMostOne(c, W)
    <2> SUFFICES ASSUME ~Has(a, W), AtMostOne(b, W), NEW k \in DOMAIN c, NEW l \in DOMAIN c, c[k] \in W, c[l] \in W
                 PROVE  k = l
        BY DEF AtMostOne
    <2>1. k - Len(a) \in DOMAIN b /\ c[k] = b[k - Len(a)] /\ l - Len(a) \in DOMAIN b /\ c[l] = b[l - Len(a)]
        BY <1>2 DEF Has
    <2>2. k - Len(a) = l - Len(a)
        BY <2>1 DEF AtMostOne
    <2> QED BY <1>1, <2>2
<1> QED BY <1>3, <1>4, <1>5 DEF c

-----------------------------------------------------------------------------
(* The rules *)

LEMMA FiveTogether ==
    ASSUME NEW S, NEW a \in Seq(S), NEW b \in Seq(S), NEW c \in Seq(S), NEW d \in Seq(S), NEW e \in Seq(S)
    PROVE  a \o b \o c \o d \o e \in Seq(S)
<1>1. a \o b \in Seq(S)
    BY ConcatProperties
<1>2. a \o b \o c \in Seq(S)
    BY <1>1, ConcatProperties
<1>3. a \o b \o c \o d \in Seq(S)
    BY <1>2, ConcatProperties
<1> QED BY <1>3, ConcatProperties

LEMMA SevenTogether ==
    ASSUME NEW S, NEW a \in Seq(S), NEW b \in Seq(S), NEW c \in Seq(S), NEW d \in Seq(S), NEW e \in Seq(S),
           NEW f \in Seq(S), NEW g \in Seq(S)
    PROVE  a \o b \o c \o d \o e \o f \o g \in Seq(S)
<1>1. a \o b \o c \o d \o e \in Seq(S)
    BY FiveTogether
<1>2. a \o b \o c \o d \o e \o f \in Seq(S)
    BY <1>1, ConcatProperties
<1> QED BY <1>2, ConcatProperties

(* The events that compare two given snapshots. *)
Compares(prev, cur) == {e \in DetectedEvent : e.from = prev /\ e.to = cur}

LEMMA WhenCompares ==
    ASSUME NEW prev \in SnapshotFields, NEW cur \in SnapshotFields, NEW cond,
           NEW type \in EventTypes, NEW severity \in Severities, NEW field \in Fields
    PROVE  When(cond, type, severity, field, prev, cur) \in Seq(Compares(prev, cur))
<1> DEFINE e == [type |-> type, severity |-> severity, field |-> field, from |-> prev, to |-> cur]
<1>1. e \in Compares(prev, cur)
    BY DEF Compares, DetectedEvent
<1> HIDE DEF e
<1>2. <<e>> \in Seq(Compares(prev, cur)) /\ <<>> \in Seq(Compares(prev, cur))
    BY <1>1
<1>3. When(cond, type, severity, field, prev, cur) \in {<<e>>, <<>>}
    BY DEF When, e
<1> QED BY <1>2, <1>3

LEMMA DiffCompares ==
    ASSUME NEW prev \in SnapshotFields, NEW cur \in SnapshotFields
    PROVE  Diff(prev, cur) \in Seq(Compares(prev, cur))
<1> DEFINE T == Seq(Compares(prev, cur))
<1> USE WhenCompares DEF EventTypes, Severities, Fields
<1>1. StatusEvents(prev, cur) \in T
    BY DEF StatusEvents
<1>2. When(prev.canonical # cur.canonical, "canonical_changed", "CRITICAL", "canonical", prev, cur) \in T
    OBVIOUS
<1>3. ASSUME NEW field \in Fields PROVE RobotsEvents(field, prev, cur) \in T
    BY DEF RobotsEvents
<1>4. LostEvents("hasGa4", "ga4_missing", prev, cur) \in T /\ LostEvents("hasGtm", "gtm_missing", prev, cur) \in T
    BY DEF LostEvents
<1>5. When(prev.other # cur.other, "other_changed", "INFO", "other", prev, cur) \in T
    OBVIOUS
<1>6. RobotsEvents("metaRobots", prev, cur) \in T /\ RobotsEvents("xRobotsTag", prev, cur) \in T
    BY <1>3
<1> QED BY <1>1, <1>2, <1>4, <1>5, <1>6, SevenTogether DEF Diff

(* The first of some positions is one of them. *)
LEMMA FirstIsIn ==
    ASSUME NEW S \in SUBSET Nat, S # {}
    PROVE  First(S) \in S
BY LeastOne DEF First

(* What the rules may find in events: positions of events they are about. *)
Founded(found) ==
    {c \in [rule : Rules, severity : Severities, events : SUBSET DOMAIN found] :
        c.events # {} /\ \A k \in c.events : found[k].type \in Evidence[c.rule]}

LEMMA CandidateFounded ==
    ASSUME NEW found \in Seq(DetectedEvent), NEW rule \in Rules, NEW severity \in Severities,
           NEW ks, ks \subseteq Positions(found, Evidence[rule]), ks # {}
    PROVE  Candidate(rule, severity, ks) \in Seq(Founded(found))
<1> DEFINE c == [rule |-> rule, severity |-> severity, events |-> ks]
<1>1. c \in Founded(found)
    BY DEF Founded, Positions
<1> HIDE DEF c
<1>2. <<c>> \in Seq(Founded(found))
    BY <1>1
<1> QED BY <1>2 DEF Candidate, c

LEMMA FirstFounded ==
    ASSUME NEW found \in Seq(DetectedEvent), NEW rule \in Rules, NEW severity \in Severities,
           NEW types, types \subseteq Evidence[rule], Positions(found, types) # {}
    PROVE  Candidate(rule, severity, {First(Positions(found, types))}) \in Seq(Founded(found))
<1>1. Positions(found, types) \subseteq Nat /\ Positions(found, types) \subseteq Positions(found, Evidence[rule])
    BY DEF Positions
<1>2. First(Positions(found, types)) \in Positions(found, types)
    BY <1>1, FirstIsIn
<1>3. {First(Positions(found, types))} \subseteq Positions(found, Evidence[rule])
    BY <1>1, <1>2
<1> QED BY <1>3, CandidateFounded

LEMMA DetectFounded ==
    ASSUME NEW found \in Seq(DetectedEvent), NEW traffic \in Traffic, NEW wp \in BOOLEAN
    PROVE  Detect(found, traffic, wp) \in Seq(Founded(found))
<1> DEFINE T == Seq(Founded(found))
<1>0. <<>> \in T
    OBVIOUS
<1>1. ASSUME NEW rule \in Rules, NEW severity \in Severities, NEW types, types \subseteq Evidence[rule]
      PROVE  FirstOf(found, types, rule, severity) \in T
    BY <1>0, <1>1, FirstFounded DEF FirstOf
<1>2. /\ FirstOf(found, {"page_became_noindex"}, "noindex", "CRITICAL") \in T
      /\ FirstOf(found, {"page_became_404"}, "not_found", "CRITICAL") \in T
      /\ FirstOf(found, {"canonical_changed"}, "canonical_traffic", "CRITICAL") \in T
      /\ FirstOf(found, {"canonical_changed"}, "canonical_traffic", "WARNING") \in T
    BY <1>1 DEF Evidence, Rules, Severities
<1>3. TrackingLost(found) \in T
    <2>1. Evidence["tracking_lost"] = {"ga4_missing", "gtm_missing"} /\ "tracking_lost" \in Rules /\ "CRITICAL" \in Severities
        BY DEF Evidence, Rules, Severities
    <2> QED BY <1>0, <2>1, CandidateFounded DEF TrackingLost
<1>4. WordPressChange(found) \in T
    <2>1. Evidence["wordpress_change"] = WordPressTypes /\ "wordpress_change" \in Rules
          /\ "CRITICAL" \in Severities /\ "WARNING" \in Severities
        BY DEF Evidence, Rules, Severities
    <2>2. CASE Positions(found, WordPressTypes) = {}
        BY <1>0, <2>2 DEF WordPressChange
    <2>3. CASE Positions(found, WordPressTypes) # {}
        <3>1. \A severity \in Severities :
                Candidate("wordpress_change", severity, {First(Positions(found, WordPressTypes))}) \in T
            BY <2>1, <2>3, FirstFounded
        <3> QED BY <2>1, <2>3, <3>1 DEF WordPressChange
    <2> QED BY <2>2, <2>3
<1>5. (IF wp THEN WordPressChange(found) ELSE <<>>) \in T
    BY <1>0, <1>4
<1>6. (IF traffic = "none" THEN <<>>
       ELSE FirstOf(found, {"canonical_changed"}, "canonical_traffic",
                    IF traffic = "high" THEN "CRITICAL" ELSE "WARNING")) \in T
    BY <1>0, <1>2
<1> QED BY <1>2, <1>3, <1>5, <1>6, FiveTogether DEF Detect

-----------------------------------------------------------------------------
(* What the rules miss and what they repeat *)

Typed(types) == {e \in DetectedEvent : e.type \in types}
LossTypes == {"page_became_404", "page_became_noindex"}

LEMMA NextHas ==
    ASSUME NEW a \in Seq(DetectedEvent), NEW b \in Seq(DetectedEvent), NEW W
    PROVE  a \o b \in Seq(DetectedEvent) /\ (Has(a \o b, W) <=> Has(a, W) \/ Has(b, W))
BY ConcatProperties, TogetherHas

Single(type, severity, field, prev, cur) ==
    <<[type |-> type, severity |-> severity, field |-> field, from |-> prev, to |-> cur]>>

LEMMA NothingHas == (\A S : <<>> \in Seq(S)) /\ \A W : ~Has(<<>>, W)
BY DEF Has

LEMMA SingleHas ==
    ASSUME NEW prev \in SnapshotFields, NEW cur \in SnapshotFields,
           NEW type \in EventTypes, NEW severity \in Severities, NEW field \in Fields, NEW types
    PROVE  /\ Single(type, severity, field, prev, cur) \in Seq(DetectedEvent)
           /\ Has(Single(type, severity, field, prev, cur), Typed(types)) <=> type \in types
<1> DEFINE e == [type |-> type, severity |-> severity, field |-> field, from |-> prev, to |-> cur]
<1>1. e \in DetectedEvent /\ e.type = type
    BY DEF DetectedEvent
<1>2. Single(type, severity, field, prev, cur) = <<e>>
    BY DEF Single
<1> HIDE DEF e
<1>3. /\ <<e>> \in Seq(DetectedEvent) /\ <<>> \in Seq(DetectedEvent)
      /\ DOMAIN <<e>> = {1} /\ <<e>>[1] = e /\ DOMAIN <<>> = {}
    BY <1>1
<1> QED BY <1>1, <1>2, <1>3 DEF Has, Typed

(* A page that went away, and only such a page, gives its event; a page    *)
(* lost to search gives one of two.                                        *)
LEMMA DiffTells ==
    ASSUME NEW prev \in SnapshotFields, NEW cur \in SnapshotFields
    PROVE  /\ Has(Diff(prev, cur), Typed({"page_became_404"})) <=> prev.httpStatus < 400 /\ cur.httpStatus = 404
           /\ Lost(prev, cur) => Has(Diff(prev, cur), Typed(LossTypes))
<1>0. /\ prev.httpStatus \in Nat /\ cur.httpStatus \in Nat
      /\ prev.hasGa4 \in BOOLEAN /\ cur.hasGa4 \in BOOLEAN /\ prev.hasGtm \in BOOLEAN /\ cur.hasGtm \in BOOLEAN
    BY RulesAssumption DEF SnapshotFields
<1> DEFINE down == prev.httpStatus < 400 /\ cur.httpStatus >= 400
           became(field) == prev[field] \notin Noindex /\ cur[field] \in Noindex
<1>1. ASSUME NEW types
      PROVE  /\ StatusEvents(prev, cur) \in Seq(DetectedEvent)
             /\ Has(StatusEvents(prev, cur), Typed(types)) <=>
                  /\ prev.httpStatus # cur.httpStatus
                  /\ (IF down /\ cur.httpStatus = 404 THEN "page_became_404" ELSE "http_status_changed") \in types
    <2> DEFINE type == IF down /\ cur.httpStatus = 404 THEN "page_became_404" ELSE "http_status_changed"
               severity == IF down THEN "CRITICAL" ELSE "WARNING"
    <2>1. type \in EventTypes /\ severity \in Severities /\ "httpStatus" \in Fields
        BY DEF EventTypes, Severities, Fields
    <2>2. StatusEvents(prev, cur) = IF prev.httpStatus # cur.httpStatus
                                    THEN Single(type, severity, "httpStatus", prev, cur) ELSE <<>>
        BY DEF StatusEvents, When, Single
    <2> HIDE DEF type, severity
    <2>3. CASE prev.httpStatus # cur.httpStatus
        <3>1. /\ Single(type, severity, "httpStatus", prev, cur) \in Seq(DetectedEvent)
              /\ Has(Single(type, severity, "httpStatus", prev, cur), Typed(types)) <=> type \in types
            BY <2>1, SingleHas
        <3> QED BY <2>2, <2>3, <3>1 DEF type
    <2>4. CASE prev.httpStatus = cur.httpStatus
        BY <2>2, <2>4, NothingHas
    <2> QED BY <2>3, <2>4
<1>2. ASSUME NEW types, NEW field \in {"metaRobots", "xRobotsTag"}
      PROVE  /\ RobotsEvents(field, prev, cur) \in Seq(DetectedEvent)
             /\ Has(RobotsEvents(field, prev, cur), Typed(types)) <=>
                  /\ prev[field] # cur[field]
                  /\ (IF became(field) THEN "page_became_noindex" ELSE "robots_changed") \in types
    <2> DEFINE type == IF became(field) THEN "page_became_noindex" ELSE "robots_changed"
               severity == IF became(field) THEN "CRITICAL" ELSE "WARNING"
    <2>1. type \in EventTypes /\ severity \in Severities /\ field \in Fields
        BY DEF EventTypes, Severities, Fields
    <2>2. RobotsEvents(field, prev, cur) = IF prev[field] # cur[field]
                                           THEN Single(type, severity, field, prev, cur) ELSE <<>>
        BY DEF RobotsEvents, When, Single
    <2> HIDE DEF type, severity
    <2>3. CASE prev[field] # cur[field]
        <3>1. /\ Single(type, severity, field, prev, cur) \in Seq(DetectedEvent)
              /\ Has(Single(type, severity, field, prev, cur), Typed(types)) <=> type \in types
            BY <2>1, SingleHas
        <3> QED BY <2>2, <2>3, <3>1 DEF type
    <2>4. CASE prev[field] = cur[field]
        BY <2>2, <2>4, NothingHas
    <2> QED BY <2>3, <2>4
<1> HIDE DEF down, became
<1> DEFINE canonical == When(prev.canonical # cur.canonical, "canonical_changed", "CRITICAL", "canonical", prev, cur)
           other == When(prev.other # cur.other, "other_changed", "INFO", "other", prev, cur)
           ga4 == LostEvents("hasGa4", "ga4_missing", prev, cur)
           gtm == LostEvents("hasGtm", "gtm_missing", prev, cur)
           robots(field) == RobotsEvents(field, prev, cur)
<1>3. ASSUME NEW types
      PROVE  /\ canonical \in Seq(DetectedEvent) /\ other \in Seq(DetectedEvent)
             /\ Has(canonical, Typed(types)) => "canonical_changed" \in types
             /\ Has(other, Typed(types)) => "other_changed" \in types
    <2>1. /\ canonical = IF prev.canonical # cur.canonical
                         THEN Single("canonical_changed", "CRITICAL", "canonical", prev, cur) ELSE <<>>
          /\ other = IF prev.other # cur.other THEN Single("other_changed", "INFO", "other", prev, cur) ELSE <<>>
        BY DEF When, Single
    <2>2. ASSUME NEW type \in EventTypes, NEW severity \in Severities, NEW field \in Fields
          PROVE  /\ Single(type, severity, field, prev, cur) \in Seq(DetectedEvent)
                 /\ Has(Single(type, severity, field, prev, cur), Typed(types)) <=> type \in types
        BY SingleHas
    <2>3. /\ "canonical_changed" \in EventTypes /\ "other_changed" \in EventTypes
          /\ "CRITICAL" \in Severities /\ "INFO" \in Severities /\ "canonical" \in Fields /\ "other" \in Fields
        BY DEF EventTypes, Severities, Fields
    <2> HIDE DEF canonical, other
    <2>4. canonical \in Seq(DetectedEvent) /\ (Has(canonical, Typed(types)) => "canonical_changed" \in types)
        BY <2>1, <2>2, <2>3, NothingHas
    <2>5. other \in Seq(DetectedEvent) /\ (Has(other, Typed(types)) => "other_changed" \in types)
        BY <2>1, <2>2, <2>3, NothingHas
    <2> QED BY <2>4, <2>5
<1>4. ASSUME NEW types
      PROVE  /\ ga4 \in Seq(DetectedEvent) /\ gtm \in Seq(DetectedEvent)
             /\ Has(ga4, Typed(types)) => "ga4_missing" \in types
             /\ Has(gtm, Typed(types)) => "gtm_missing" \in types
    <2>1. ASSUME NEW field \in {"hasGa4", "hasGtm"}, NEW type
          PROVE  LostEvents(field, type, prev, cur) = IF prev[field] /\ ~cur[field]
                                                      THEN Single(type, "CRITICAL", field, prev, cur) ELSE <<>>
        BY DEF LostEvents, When, Single
    <2>2. /\ ga4 = IF prev["hasGa4"] /\ ~cur["hasGa4"] THEN Single("ga4_missing", "CRITICAL", "hasGa4", prev, cur) ELSE <<>>
          /\ gtm = IF prev["hasGtm"] /\ ~cur["hasGtm"] THEN Single("gtm_missing", "CRITICAL", "hasGtm", prev, cur) ELSE <<>>
        BY <2>1
    <2>3. ASSUME NEW type \in EventTypes, NEW severity \in Severities, NEW field \in Fields
          PROVE  /\ Single(type, severity, field, prev, cur) \in Seq(DetectedEvent)
                 /\ Has(Single(type, severity, field, prev, cur), Typed(types)) <=> type \in types
        BY SingleHas
    <2>4. /\ "ga4_missing" \in EventTypes /\ "gtm_missing" \in EventTypes
          /\ "CRITICAL" \in Severities /\ "hasGa4" \in Fields /\ "hasGtm" \in Fields
        BY DEF EventTypes, Severities, Fields
    <2> HIDE DEF ga4, gtm
    <2>5. ga4 \in Seq(DetectedEvent) /\ (Has(ga4, Typed(types)) => "ga4_missing" \in types)
        BY <2>2, <2>3, <2>4, NothingHas
    <2>6. gtm \in Seq(DetectedEvent) /\ (Has(gtm, Typed(types)) => "gtm_missing" \in types)
        BY <2>2, <2>3, <2>4, NothingHas
    <2> QED BY <2>5, <2>6
<1>5. Diff(prev, cur) = StatusEvents(prev, cur) \o canonical \o robots("metaRobots") \o robots("xRobotsTag")
                        \o ga4 \o gtm \o other
    BY DEF Diff
<1> HIDE DEF canonical, other, ga4, gtm, robots
<1>6. ASSUME NEW types
      PROVE  Has(Diff(prev, cur), Typed(types)) <=>
               \/ Has(StatusEvents(prev, cur), Typed(types)) \/ Has(canonical, Typed(types))
               \/ Has(robots("metaRobots"), Typed(types)) \/ Has(robots("xRobotsTag"), Typed(types))
               \/ Has(ga4, Typed(types)) \/ Has(gtm, Typed(types)) \/ Has(other, Typed(types))
    <2>1. robots("metaRobots") \in Seq(DetectedEvent) /\ robots("xRobotsTag") \in Seq(DetectedEvent)
        BY <1>2 DEF robots
    <2>2. StatusEvents(prev, cur) \in Seq(DetectedEvent)
        BY <1>1
    <2>3. canonical \in Seq(DetectedEvent) /\ other \in Seq(DetectedEvent)
        BY <1>3
    <2>4. ga4 \in Seq(DetectedEvent) /\ gtm \in Seq(DetectedEvent)
        BY <1>4
    <2> DEFINE status == StatusEvents(prev, cur)
               meta == robots("metaRobots")
               header == robots("xRobotsTag")
    <2> HIDE DEF status, meta, header
    <2>5. Has(status \o canonical \o meta \o header \o ga4 \o gtm \o other, Typed(types)) <=>
            \/ Has(status, Typed(types)) \/ Has(canonical, Typed(types)) \/ Has(meta, Typed(types))
            \/ Has(header, Typed(types)) \/ Has(ga4, Typed(types)) \/ Has(gtm, Typed(types)) \/ Has(other, Typed(types))
        <3>1. status \in Seq(DetectedEvent) /\ meta \in Seq(DetectedEvent) /\ header \in Seq(DetectedEvent)
            BY <2>1, <2>2 DEF status, meta, header
        <3> DEFINE W == Typed(types)
                   two == status \o canonical
                   three == two \o meta
                   four == three \o header
                   five == four \o ga4
                   six == five \o gtm
                   seven == six \o other
        <3> HIDE DEF W
        <3>2. two \in Seq(DetectedEvent) /\ (Has(two, W) <=> Has(status, W) \/ Has(canonical, W))
            BY <2>3, <3>1, NextHas
        <3> HIDE DEF two
        <3>3. three \in Seq(DetectedEvent) /\ (Has(three, W) <=> Has(two, W) \/ Has(meta, W))
            BY <3>1, <3>2, NextHas
        <3> HIDE DEF three
        <3>4. four \in Seq(DetectedEvent) /\ (Has(four, W) <=> Has(three, W) \/ Has(header, W))
            BY <3>1, <3>3, NextHas
        <3> HIDE DEF four
        <3>5. five \in Seq(DetectedEvent) /\ (Has(five, W) <=> Has(four, W) \/ Has(ga4, W))
            BY <2>4, <3>4, NextHas
        <3> HIDE DEF five
        <3>6. six \in Seq(DetectedEvent) /\ (Has(six, W) <=> Has(five, W) \/ Has(gtm, W))
            BY <2>4, <3>5, NextHas
        <3> HIDE DEF six
        <3>7. Has(seven, W) <=> Has(six, W) \/ Has(other, W)
            BY <2>3, <3>6, NextHas
        <3> QED BY <3>2, <3>3, <3>4, <3>5, <3>6, <3>7 DEF two, three, four, five, six, W
    <2> QED BY <1>5, <2>5 DEF status, meta, header
<1>7. Has(Diff(prev, cur), Typed({"page_became_404"})) <=> prev.httpStatus < 400 /\ cur.httpStatus = 404
    <2> DEFINE types == {"page_became_404"}
    <2>1. Has(StatusEvents(prev, cur), Typed(types)) <=> prev.httpStatus < 400 /\ cur.httpStatus = 404
        <3>1. Has(StatusEvents(prev, cur), Typed(types)) <=>
                /\ prev.httpStatus # cur.httpStatus
                /\ (IF down /\ cur.httpStatus = 404 THEN "page_became_404" ELSE "http_status_changed") \in types
            BY <1>1
        <3> QED BY <1>0, <3>1 DEF down
    <2>2. ~Has(robots("metaRobots"), Typed(types)) /\ ~Has(robots("xRobotsTag"), Typed(types))
        BY <1>2 DEF robots
    <2>3. ~Has(canonical, Typed(types)) /\ ~Has(other, Typed(types)) /\ ~Has(ga4, Typed(types)) /\ ~Has(gtm, Typed(types))
        BY <1>3, <1>4
    <2> QED BY <1>6, <2>1, <2>2, <2>3
<1>8. ASSUME Lost(prev, cur) PROVE Has(Diff(prev, cur), Typed(LossTypes))
    <2>1. CASE prev.httpStatus < 400 /\ cur.httpStatus = 404
        <3>1. Has(StatusEvents(prev, cur), Typed(LossTypes))
            BY <1>0, <1>1, <2>1 DEF down, LossTypes
        <3> QED BY <1>6, <3>1
    <2>2. ASSUME NEW field \in {"metaRobots", "xRobotsTag"}, prev[field] \notin Noindex, cur[field] \in Noindex
          PROVE  Has(robots(field), Typed(LossTypes))
        BY <1>2, <2>2 DEF robots, became, LossTypes
    <2>3. CASE ~Noindexed(prev) /\ Noindexed(cur)
        <3>1. \/ prev["metaRobots"] \notin Noindex /\ cur["metaRobots"] \in Noindex
              \/ prev["xRobotsTag"] \notin Noindex /\ cur["xRobotsTag"] \in Noindex
            BY <2>3 DEF Noindexed
        <3>2. Has(robots("metaRobots"), Typed(LossTypes)) \/ Has(robots("xRobotsTag"), Typed(LossTypes))
            BY <2>2, <3>1
        <3> QED BY <1>6, <3>2
    <2> QED BY <1>8, <2>1, <2>3 DEF Lost
<1> QED BY <1>7, <1>8

(* Candidates that report a loss, and candidates of one rule. *)
Candidates(found) == [rule : Rules, severity : Severities, events : SUBSET DOMAIN found]
OfRule(found, rule) == {c \in Candidates(found) : c.rule = rule}
LossCandidates(found) == {c \in Candidates(found) : c.severity = "CRITICAL" /\ c.rule \in {"noindex", "not_found"}}

LEMMA FirstOfTells ==
    ASSUME NEW found \in Seq(DetectedEvent), NEW types, NEW rule \in Rules, NEW severity \in Severities
    PROVE  /\ FirstOf(found, types, rule, severity) \in Seq(Candidates(found))
           /\ \A W : AtMostOne(FirstOf(found, types, rule, severity), W)
           /\ rule # "not_found" => ~Has(FirstOf(found, types, rule, severity), OfRule(found, "not_found"))
           /\ severity = "CRITICAL" /\ rule \in {"noindex", "not_found"} /\ Has(found, Typed(types))
                => Has(FirstOf(found, types, rule, severity), LossCandidates(found))
<1> DEFINE ks == Positions(found, types)
           c == [rule |-> rule, severity |-> severity, events |-> {First(ks)}]
<1>1. FirstOf(found, types, rule, severity) = IF ks = {} THEN <<>> ELSE <<c>>
    BY DEF FirstOf, Candidate
<1>2. ks \subseteq DOMAIN found /\ ks \subseteq Nat /\ (Has(found, Typed(types)) => ks # {})
    BY DEF Positions, Has, Typed
<1>3. ks # {} => c \in Candidates(found) /\ c.rule = rule /\ c.severity = severity
    BY <1>2, FirstIsIn DEF Candidates
<1> HIDE DEF ks, c
<1>4. /\ <<>> \in Seq(Candidates(found)) /\ (c \in Candidates(found) => <<c>> \in Seq(Candidates(found)))
      /\ DOMAIN <<c>> = {1} /\ <<c>>[1] = c /\ DOMAIN <<>> = {}
    OBVIOUS
<1>5. \A W : AtMostOne(FirstOf(found, types, rule, severity), W)
    BY <1>1, <1>4 DEF AtMostOne
<1>6. rule # "not_found" => ~Has(FirstOf(found, types, rule, severity), OfRule(found, "not_found"))
    BY <1>1, <1>3, <1>4 DEF Has, OfRule
<1>7. severity = "CRITICAL" /\ rule \in {"noindex", "not_found"} /\ Has(found, Typed(types))
        => Has(FirstOf(found, types, rule, severity), LossCandidates(found))
    BY <1>1, <1>2, <1>3, <1>4 DEF Has, LossCandidates
<1> QED BY <1>1, <1>3, <1>4, <1>5, <1>6, <1>7

(* A loss among the events is reported, a page that went away once. *)
LEMMA DetectTells ==
    ASSUME NEW found \in Seq(DetectedEvent), NEW traffic \in Traffic, NEW wp \in BOOLEAN
    PROVE  /\ Has(found, Typed(LossTypes)) => Has(Detect(found, traffic, wp), LossCandidates(found))
           /\ AtMostOne(Detect(found, traffic, wp), OfRule(found, "not_found"))
<1> DEFINE C == Candidates(found)
           W == OfRule(found, "not_found")
           a == FirstOf(found, {"page_became_noindex"}, "noindex", "CRITICAL")
           b == FirstOf(found, {"page_became_404"}, "not_found", "CRITICAL")
           c == TrackingLost(found)
           d == IF traffic = "none" THEN <<>>
                ELSE FirstOf(found, {"canonical_changed"}, "canonical_traffic",
                             IF traffic = "high" THEN "CRITICAL" ELSE "WARNING")
           e == IF wp THEN WordPressChange(found) ELSE <<>>
<1>0. /\ {"noindex", "not_found", "tracking_lost", "canonical_traffic", "wordpress_change"} \subseteq Rules
      /\ "CRITICAL" \in Severities /\ "WARNING" \in Severities
    BY DEF Rules, Severities
<1>1. Detect(found, traffic, wp) = a \o b \o c \o d \o e
    BY DEF Detect
<1>2. <<>> \in Seq(C) /\ ~Has(<<>>, W)
    BY DEF Has
<1>3. a \in Seq(C) /\ b \in Seq(C) /\ ~Has(a, W) /\ AtMostOne(b, W)
    BY <1>0, FirstOfTells
<1>4. Has(found, Typed(LossTypes)) => Has(a, LossCandidates(found)) \/ Has(b, LossCandidates(found))
    <2>1. Has(found, Typed(LossTypes)) => Has(found, Typed({"page_became_noindex"})) \/ Has(found, Typed({"page_became_404"}))
        BY DEF Has, Typed, LossTypes
    <2> QED BY <1>0, <2>1, FirstOfTells
<1>5. ASSUME NEW rule \in Rules, rule # "not_found", NEW severity \in Severities, NEW ks \in SUBSET DOMAIN found
      PROVE  Candidate(rule, severity, ks) \in Seq(C) /\ ~Has(Candidate(rule, severity, ks), W)
    <2> DEFINE r == [rule |-> rule, severity |-> severity, events |-> ks]
    <2>1. r \in C /\ r.rule = rule
        BY DEF Candidates
    <2> HIDE DEF r
    <2>2. <<r>> \in Seq(C) /\ DOMAIN <<r>> = {1} /\ <<r>>[1] = r
        BY <2>1
    <2> QED BY <1>5, <2>1, <2>2 DEF Candidate, r, Has, OfRule
<1>6. c \in Seq(C) /\ ~Has(c, W)
    <2>1. Positions(found, {"ga4_missing", "gtm_missing"}) \in SUBSET DOMAIN found
        BY DEF Positions
    <2>2. CASE Positions(found, {"ga4_missing", "gtm_missing"}) = {}
        BY <1>2, <2>2 DEF TrackingLost
    <2>3. CASE Positions(found, {"ga4_missing", "gtm_missing"}) # {}
        <3>1. c = Candidate("tracking_lost", "CRITICAL", Positions(found, {"ga4_missing", "gtm_missing"}))
            BY <2>3 DEF TrackingLost
        <3> QED BY <1>0, <1>5, <2>1, <3>1
    <2> QED BY <2>2, <2>3
<1>7. d \in Seq(C) /\ ~Has(d, W)
    BY <1>0, <1>2, FirstOfTells
<1>8. e \in Seq(C) /\ ~Has(e, W)
    <2> DEFINE ks == Positions(found, WordPressTypes)
               severity == IF found[First(ks)].severity = "CRITICAL" THEN "CRITICAL" ELSE "WARNING"
    <2>1. WordPressChange(found) = IF ks = {} THEN <<>> ELSE Candidate("wordpress_change", severity, {First(ks)})
        BY DEF WordPressChange
    <2>2. severity \in Severities
        BY <1>0
    <2>3. ks # {} => {First(ks)} \in SUBSET DOMAIN found
        BY FirstIsIn DEF Positions
    <2> HIDE DEF ks, severity
    <2>4. WordPressChange(found) \in Seq(C) /\ ~Has(WordPressChange(found), W)
        BY <1>0, <1>2, <1>5, <2>1, <2>2, <2>3
    <2> QED BY <1>2, <2>4
<1> HIDE DEF C, W, a, b, c, d, e
<1>9. /\ a \o b \in Seq(C) /\ a \o b \o c \in Seq(C) /\ a \o b \o c \o d \in Seq(C)
    BY <1>3, <1>6, <1>7, ConcatProperties
<1>10. Has(found, Typed(LossTypes)) => Has(Detect(found, traffic, wp), LossCandidates(found))
    <2> DEFINE L == LossCandidates(found)
    <2> SUFFICES ASSUME Has(a, L) \/ Has(b, L) PROVE Has(a \o b \o c \o d \o e, L)
        BY <1>1, <1>4
    <2> HIDE DEF L
    <2>1. Has(a \o b, L)
        BY <1>3, TogetherHas
    <2>2. Has(a \o b \o c, L)
        BY <1>6, <1>9, <2>1, TogetherHas
    <2>3. Has(a \o b \o c \o d, L)
        BY <1>7, <1>9, <2>2, TogetherHas
    <2> DEFINE x == a \o b \o c \o d
    <2>4. x \in Seq(C) /\ Has(x, L)
        BY <1>9, <2>3
    <2> HIDE DEF x
    <2>5. Has(x \o e, L)
        BY <1>8, <2>4, TogetherHas
    <2> QED BY <2>5 DEF x
<1>11. AtMostOne(a \o b \o c \o d \o e, W)
    <2>1. AtMostOne(a \o b, W)
        BY <1>3, TogetherHas
    <2>2. AtMostOne(a \o b \o c, W)
        BY <1>6, <1>9, <2>1, TogetherHas
    <2>3. AtMostOne(a \o b \o c \o d, W)
        BY <1>7, <1>9, <2>2, TogetherHas
    <2> DEFINE x == a \o b \o c \o d
    <2>4. x \in Seq(C) /\ AtMostOne(x, W)
        BY <1>9, <2>3
    <2> HIDE DEF x
    <2>5. AtMostOne(x \o e, W)
        BY <1>8, <2>4, TogetherHas
    <2> QED BY <2>5 DEF x
<1> QED BY <1>1, <1>10, <1>11 DEF W

-----------------------------------------------------------------------------
(* The records *)

(* What the argument needs of the types. *)
RecordTypes ==
    /\ setting \in Settings
    /\ page \in Versions
    /\ snapshots \in Seq([fields : Versions, isBaseline : BOOLEAN, at : Nat])
    /\ events \in Seq(DetectedEvent)
    /\ clock \in Nat
    /\ runs \in [Slots -> Run]

(* What a snapshot saved another shows. *)
Shown(e, saved) ==
    \E j \in DOMAIN saved : \E i \in 1 .. j - 1 :
        e.from = saved[i].fields /\ e.to = saved[j].fields

Cited(r, told) ==
    /\ r.events # {}
    /\ \A k \in r.events : k \in DOMAIN told /\ told[k].type \in Evidence[r.rule]

(* What a slot still has to save is as good as what is saved. *)
Honest(run, saved, told) ==
    /\ run.previous # <<>> => \E i \in DOMAIN saved : run.previous[1] = saved[i].fields
    /\ \A k \in DOMAIN run.todo : Shown(run.todo[k], saved)
    /\ \A k \in DOMAIN run.ids : run.ids[k] \in DOMAIN told
    /\ \A k \in DOMAIN run.found : Cited(run.found[k], told)
    /\ run.pc = "events" => run.todo # <<>>
    /\ run.pc = "regressions" => run.found # <<>>

RunsHonest == \A s \in Slots : Honest(runs[s], snapshots, events)

RecordInv == RecordTypes /\ HonestTimeline /\ RegressionEvidence /\ RunsHonest

LEMMA RunType ==
    /\ IdleRun \in Run /\ IdleRun.pc = "idle" /\ IdleRun.previous = <<>> /\ IdleRun.todo = <<>>
    /\ IdleRun.ids = <<>> /\ IdleRun.found = <<>>
    /\ \A run \in Run : /\ run.previous \in Seq(Versions) /\ run.fields \in Versions
                        /\ run.todo \in Seq(DetectedEvent) /\ run.ids \in Seq(Nat) /\ run.found \in Seq(Found)
                        /\ run.job \in JobIds
<1>1. (CHOOSE v \in Versions : TRUE) \in Versions
    BY MonitoringAssumption
<1>2. <<"scheduled", 0>> \in JobIds
    BY MonitoringAssumption DEF JobIds, Windows
<1> QED BY <1>1, <1>2 DEF IdleRun, Run

LEMMA IdleHonest == Honest(IdleRun, snapshots, events)
BY RunType DEF Honest

RunBecomes(s, run) == runs' = [runs EXCEPT ![s] = run]

LEMMA RunMoves ==
    ASSUME RecordTypes, NEW s \in Slots, NEW run \in Run, RunBecomes(s, run)
    PROVE  /\ runs' \in [Slots -> Run]
           /\ \A q \in Slots : runs'[q] = IF q = s THEN run ELSE runs[q]
BY DEF RecordTypes, RunBecomes

(* What was saved stays saved, in its place. *)
Grow == /\ DOMAIN snapshots \subseteq DOMAIN snapshots'
        /\ \A i \in DOMAIN snapshots : snapshots'[i] = snapshots[i]
        /\ DOMAIN events \subseteq DOMAIN events'
        /\ \A k \in DOMAIN events : events'[k] = events[k]

LEMMA GrowKeeps ==
    ASSUME RecordTypes, Grow
    PROVE  /\ \A e : Shown(e, snapshots) => Shown(e, snapshots')
           /\ \A r : Cited(r, events) => Cited(r, events')
           /\ \A run : Honest(run, snapshots, events) => Honest(run, snapshots', events')
<1>1. DOMAIN snapshots = 1 .. Len(snapshots) /\ Len(snapshots) \in Nat
    BY DEF RecordTypes
<1>2. ASSUME NEW e, Shown(e, snapshots) PROVE Shown(e, snapshots')
    <2>1. PICK j \in DOMAIN snapshots : \E i \in 1 .. j - 1 :
              e.from = snapshots[i].fields /\ e.to = snapshots[j].fields
        BY <1>2 DEF Shown
    <2>2. PICK i \in 1 .. j - 1 : e.from = snapshots[i].fields /\ e.to = snapshots[j].fields
        BY <2>1
    <2>3. i \in DOMAIN snapshots
        BY <1>1, <2>1
    <2>4. snapshots'[i] = snapshots[i] /\ snapshots'[j] = snapshots[j] /\ j \in DOMAIN snapshots'
        BY <2>1, <2>3 DEF Grow
    <2> QED BY <2>2, <2>4 DEF Shown
<1>3. ASSUME NEW r, Cited(r, events) PROVE Cited(r, events')
    BY <1>3 DEF Cited, Grow
<1>4. ASSUME NEW run, Honest(run, snapshots, events) PROVE Honest(run, snapshots', events')
    <2>1. run.previous # <<>> => \E i \in DOMAIN snapshots' : run.previous[1] = snapshots'[i].fields
        BY <1>4 DEF Honest, Grow
    <2>2. \A k \in DOMAIN run.ids : run.ids[k] \in DOMAIN events'
        BY <1>4 DEF Honest, Grow
    <2> QED BY <1>2, <1>3, <1>4, <2>1, <2>2 DEF Honest
<1> QED BY <1>2, <1>3, <1>4

(* A step that saves nothing and moves one slot. *)
LEMMA SlotKeeps ==
    ASSUME RecordInv, NEW s \in Slots, NEW run \in Run, RunBecomes(s, run), Honest(run, snapshots, events),
           UNCHANGED <<setting, page, clock, snapshots, events, regressions>>
    PROVE  RecordInv'
<1>1. /\ runs' \in [Slots -> Run]
      /\ \A q \in Slots : runs'[q] = IF q = s THEN run ELSE runs[q]
    BY RunMoves DEF RecordInv
<1>2. Grow
    BY DEF Grow
<1>3. RecordTypes' /\ HonestTimeline' /\ RegressionEvidence'
    BY <1>1 DEF RecordInv, RecordTypes, HonestTimeline, RegressionEvidence
<1>4. RunsHonest'
    BY <1>1, <1>2, GrowKeeps DEF RecordInv, RunsHonest
<1> QED BY <1>3, <1>4 DEF RecordInv

LEMMA SettleKeeps ==
    ASSUME RecordInv, NEW s \in Slots, NEW outcome, Settle(s, outcome), UNCHANGED <<outside, rows>>
    PROVE  RecordInv'
<1>1. RunBecomes(s, IdleRun)
    BY DEF Settle, RunBecomes
<1> QED BY <1>1, SlotKeeps, RunType, IdleHonest DEF outside, rows

(* A job begins with the latest snapshot, and crawls the page. *)
LEMMA BeginKeeps ==
    ASSUME RecordInv, NEW s \in Slots, (\E j \in JobIds : TakeJob(s, j)) \/ Crawl(s)
    PROVE  RecordInv'
<1>0. runs[s] \in Run /\ Honest(runs[s], snapshots, events) /\ page \in Versions
    BY DEF RecordInv, RecordTypes, RunsHonest
<1>1. ASSUME NEW j \in JobIds, TakeJob(s, j) PROVE RecordInv'
    <2> DEFINE run == [IdleRun EXCEPT !.pc = "crawl", !.job = j, !.holds = TRUE, !.previous = Latest]
    <2>1. Latest \in Seq(Versions) /\ (Latest # <<>> => \E i \in DOMAIN snapshots : Latest[1] = snapshots[i].fields)
        <3>1. CASE snapshots = <<>>
            BY <3>1 DEF Latest
        <3>2. CASE snapshots # <<>>
            <4>1. snapshots \in Seq([fields : Versions, isBaseline : BOOLEAN, at : Nat])
                BY DEF RecordInv, RecordTypes
            <4>2. Len(snapshots) \in DOMAIN snapshots /\ Len(snapshots) \in 1 .. Len(snapshots)
                BY <3>2, <4>1, EmptySeq, LenProperties
            <4>3. snapshots[Len(snapshots)] \in [fields : Versions, isBaseline : BOOLEAN, at : Nat]
                BY <4>1, <4>2, ElementOfSeq
            <4> QED BY <3>2, <4>2, <4>3 DEF Latest
        <3> QED BY <3>1, <3>2
    <2> HIDE DEF Latest
    <2>2. run \in Run /\ run.previous = Latest /\ run.pc = "crawl" /\ run.todo = <<>> /\ run.ids = <<>> /\ run.found = <<>>
        BY <2>1, RunType DEF Run
    <2>3. RunBecomes(s, run)
        BY <1>1 DEF TakeJob, RunBecomes
    <2> HIDE DEF run
    <2>4. Honest(run, snapshots, events)
        BY <2>1, <2>2 DEF Honest
    <2> QED BY <1>1, <2>2, <2>3, <2>4, SlotKeeps DEF TakeJob, outside, rows
<1>2. CASE Crawl(s)
    <2> DEFINE run == [runs[s] EXCEPT !.pc = "snapshot", !.fields = page]
    <2>1. /\ run \in Run /\ run.pc = "snapshot" /\ run.previous = runs[s].previous
          /\ run.todo = runs[s].todo /\ run.ids = runs[s].ids /\ run.found = runs[s].found
        BY <1>0 DEF Run
    <2>2. RunBecomes(s, run)
        BY <1>2 DEF Crawl, RunBecomes
    <2> HIDE DEF run
    <2>3. Honest(run, snapshots, events)
        BY <1>0, <2>1 DEF Honest
    <2> QED BY <1>2, <2>1, <2>2, <2>3, SlotKeeps DEF Crawl, outside, rows
<1> QED BY <1>1, <1>2

(* The new snapshot comes after the one the job read, and the differences  *)
(* compare these two.                                                      *)
LEMMA SnapshotKeeps ==
    ASSUME RecordInv, NEW s \in Slots, SaveSnapshot(s)
    PROVE  RecordInv'
<1> DEFINE old == runs[s]
           first == old.previous = <<>>
           found == IF first THEN <<>> ELSE Diff(old.previous[1], old.fields)
           row == [fields |-> old.fields, isBaseline |-> first, at |-> clock]
           run == [old EXCEPT !.pc = IF found = <<>> THEN "ack" ELSE "events", !.todo = found]
<1>1. old \in Run /\ Honest(old, snapshots, events)
    BY DEF RecordInv, RecordTypes, RunsHonest
<1>2. row \in [fields : Versions, isBaseline : BOOLEAN, at : Nat]
    BY <1>1, RunType DEF RecordInv, RecordTypes
<1>3. /\ snapshots' = Append(snapshots, row) /\ RunBecomes(s, run)
      /\ UNCHANGED <<setting, page, clock, events, regressions>>
    BY DEF SaveSnapshot, RunBecomes, outside
<1>4. /\ snapshots \in Seq([fields : Versions, isBaseline : BOOLEAN, at : Nat])
      /\ events \in Seq(DetectedEvent)
    BY DEF RecordInv, RecordTypes
<1>5. row.fields = old.fields
    OBVIOUS
<1> HIDE DEF row
<1>6. /\ snapshots' \in Seq([fields : Versions, isBaseline : BOOLEAN, at : Nat])
      /\ DOMAIN snapshots' = 1 .. Len(snapshots) + 1 /\ DOMAIN snapshots = 1 .. Len(snapshots)
      /\ \A i \in DOMAIN snapshots : snapshots'[i] = snapshots[i]
      /\ snapshots'[Len(snapshots) + 1] = row /\ Len(snapshots) \in Nat
    BY <1>2, <1>3, <1>4, AppendProperties, LenProperties
<1>7. Grow
    BY <1>3, <1>6 DEF Grow
<1>8. found \in Seq(DetectedEvent) /\ \A k \in DOMAIN found : Shown(found[k], snapshots')
    <2>1. CASE first
        BY <2>1
    <2>2. CASE ~first
        <3>1. PICK i \in DOMAIN snapshots : old.previous[1] = snapshots[i].fields
            BY <1>1, <2>2 DEF Honest
        <3>2. old.previous[1] \in SnapshotFields /\ old.fields \in SnapshotFields
            BY <1>1, <2>2, RunType, MonitoringAssumption
        <3>3. found \in Seq(Compares(old.previous[1], old.fields))
            BY <2>2, <3>2, DiffCompares
        <3> HIDE DEF found
        <3>4. \A k \in DOMAIN found : found[k].from = old.previous[1] /\ found[k].to = old.fields
            BY <3>3, LenProperties DEF Compares
        <3>5. i \in 1 .. (Len(snapshots) + 1) - 1 /\ Len(snapshots) + 1 \in DOMAIN snapshots'
            BY <1>6, <3>1
        <3>6. snapshots'[i].fields = old.previous[1] /\ snapshots'[Len(snapshots) + 1].fields = old.fields
            BY <1>5, <1>6, <3>1
        <3>7. \A k \in DOMAIN found : Shown(found[k], snapshots')
            BY <3>4, <3>5, <3>6 DEF Shown
        <3>8. Compares(old.previous[1], old.fields) \subseteq DetectedEvent
            BY DEF Compares
        <3>9. found \in Seq(DetectedEvent)
            BY <3>3, <3>8, SeqMonotonic
        <3> QED BY <3>7, <3>9
    <2> QED BY <2>1, <2>2
<1> HIDE DEF found
<1>9. /\ run \in Run /\ run.todo = found /\ (run.pc = "events" => found # <<>>) /\ run.pc \in {"ack", "events"}
      /\ run.previous = old.previous /\ run.ids = old.ids /\ run.found = old.found
    BY <1>1, <1>8 DEF Run
<1> HIDE DEF run, old
<1>10. Honest(run, snapshots', events')
    <2>1. Honest(old, snapshots', events')
        BY <1>1, <1>7, GrowKeeps DEF RecordInv
    <2> QED BY <1>8, <1>9, <2>1 DEF Honest
<1>11. runs' \in [Slots -> Run] /\ \A q \in Slots : runs'[q] = IF q = s THEN run ELSE runs[q]
    BY <1>3, <1>9, RunMoves DEF RecordInv
<1>12. RecordTypes'
    BY <1>3, <1>6, <1>11 DEF RecordInv, RecordTypes
<1>13. \A k \in DOMAIN events : Shown(events[k], snapshots)
    BY DEF RecordInv, HonestTimeline, Shown
<1>14. HonestTimeline'
    <2>1. \A k \in DOMAIN events : Shown(events[k], snapshots')
        BY <1>7, <1>13, GrowKeeps DEF RecordInv
    <2>2. \A k \in DOMAIN events' : Shown(events'[k], snapshots')
        BY <1>3, <2>1
    <2> QED BY <2>2 DEF HonestTimeline, Shown
<1>15. RegressionEvidence'
    BY <1>3 DEF RecordInv, RegressionEvidence
<1>16. RunsHonest'
    BY <1>7, <1>10, <1>11, GrowKeeps DEF RecordInv, RunsHonest
<1> QED BY <1>12, <1>14, <1>15, <1>16 DEF RecordInv

(* The first event of a slot becomes a row. *)
LEMMA EventKeeps ==
    ASSUME RecordInv, NEW s \in Slots, SaveEvent(s)
    PROVE  RecordInv'
<1> DEFINE old == runs[s]
           run == [old EXCEPT !.pc = IF Tail(old.todo) = <<>> THEN "detect" ELSE "events",
                              !.todo = Tail(old.todo), !.ids = Append(old.ids, Len(events) + 1)]
<1>1. old \in Run /\ Honest(old, snapshots, events) /\ old.pc = "events" /\ old.todo # <<>>
    BY DEF RecordInv, RecordTypes, RunsHonest, Honest, SaveEvent
<1>2. /\ events' = Append(events, Head(old.todo)) /\ RunBecomes(s, run)
      /\ UNCHANGED <<setting, page, clock, snapshots, regressions>>
    BY DEF SaveEvent, RunBecomes, outside
<1>3. events \in Seq(DetectedEvent) /\ Len(events) \in Nat
    BY DEF RecordInv, RecordTypes
<1>4. old.todo \in Seq(DetectedEvent) /\ old.ids \in Seq(Nat)
    BY <1>1, RunType
<1> HIDE DEF old
<1>5. /\ Head(old.todo) \in DetectedEvent /\ Tail(old.todo) \in Seq(DetectedEvent)
      /\ Head(old.todo) = old.todo[1] /\ 1 \in DOMAIN old.todo
      /\ \A k \in DOMAIN Tail(old.todo) : k + 1 \in DOMAIN old.todo /\ Tail(old.todo)[k] = old.todo[k + 1]
    BY <1>1, <1>4
<1>6. /\ events' \in Seq(DetectedEvent) /\ DOMAIN events' = 1 .. Len(events) + 1 /\ DOMAIN events = 1 .. Len(events)
      /\ \A k \in DOMAIN events : events'[k] = events[k]
      /\ events'[Len(events) + 1] = old.todo[1]
    BY <1>2, <1>3, <1>5, AppendProperties, LenProperties
<1>7. Grow
    BY <1>2, <1>6 DEF Grow
<1>8. /\ run \in Run /\ run.pc \in {"detect", "events"} /\ (run.pc = "events" => run.todo # <<>>)
      /\ run.todo = Tail(old.todo) /\ run.ids = Append(old.ids, Len(events) + 1)
      /\ run.previous = old.previous /\ run.found = old.found
    <2> DEFINE ids == Append(old.ids, Len(events) + 1)  todo == Tail(old.todo)
    <2>1. ids \in Seq(Nat)
        BY <1>3, <1>4, AppendProperties
    <2>2. todo \in Seq(DetectedEvent)
        BY <1>5
    <2> HIDE DEF ids, todo
    <2>3. [old EXCEPT !.pc = IF todo = <<>> THEN "detect" ELSE "events", !.todo = todo, !.ids = ids] \in Run
        BY <1>1, <2>1, <2>2 DEF Run
    <2>4. run = [old EXCEPT !.pc = IF todo = <<>> THEN "detect" ELSE "events", !.todo = todo, !.ids = ids]
        BY DEF todo, ids
    <2> HIDE DEF run
    <2>5. /\ run.pc = (IF todo = <<>> THEN "detect" ELSE "events") /\ run.todo = todo /\ run.ids = ids
          /\ run.previous = old.previous /\ run.found = old.found
        BY <1>1, <2>4 DEF Run
    <2> QED BY <2>3, <2>4, <2>5 DEF todo, ids
<1> HIDE DEF run
<1>9. Honest(old, snapshots, events')
    BY <1>1, <1>2, <1>7, GrowKeeps DEF RecordInv
<1>10. Honest(run, snapshots, events')
    <2>1. \A k \in DOMAIN run.todo : Shown(run.todo[k], snapshots)
        BY <1>5, <1>8, <1>9 DEF Honest
    <2>2. \A k \in DOMAIN run.ids : run.ids[k] \in DOMAIN events'
        <3>1. \A k \in DOMAIN old.ids : old.ids[k] \in DOMAIN events'
            BY <1>9 DEF Honest
        <3>2. ASSUME NEW k \in DOMAIN run.ids PROVE run.ids[k] \in DOMAIN events'
            <4>1. run.ids[k] = Len(events) + 1 \/ (k \in DOMAIN old.ids /\ run.ids[k] = old.ids[k])
                BY <1>3, <1>4, <1>8, <3>2
            <4> QED BY <1>3, <1>6, <3>1, <4>1
        <3> QED BY <3>2
    <2> QED BY <1>8, <1>9, <2>1, <2>2 DEF Honest
<1>11. runs' \in [Slots -> Run] /\ \A q \in Slots : runs'[q] = IF q = s THEN run ELSE runs[q]
    BY <1>2, <1>8, RunMoves DEF RecordInv
<1>12. RecordTypes'
    BY <1>2, <1>6, <1>11 DEF RecordInv, RecordTypes
<1>13. HonestTimeline'
    <2>1. \A k \in DOMAIN events : Shown(events[k], snapshots)
        BY DEF RecordInv, HonestTimeline, Shown
    <2>2. Shown(old.todo[1], snapshots)
        BY <1>1, <1>5 DEF Honest
    <2>3. \A k \in DOMAIN events' : Shown(events'[k], snapshots)
        BY <1>3, <1>6, <2>1, <2>2
    <2> QED BY <1>2, <2>3 DEF HonestTimeline, Shown
<1>14. RegressionEvidence'
    BY <1>2, <1>6 DEF RecordInv, RegressionEvidence
<1>15. RunsHonest'
    BY <1>2, <1>7, <1>10, <1>11, GrowKeeps DEF RecordInv, RunsHonest
<1> QED BY <1>12, <1>13, <1>14, <1>15 DEF RecordInv

(* The events of a run are found by their rows although other runs save    *)
(* theirs in between, and what the rules find cites these rows.            *)
LEMMA DetectKeeps ==
    ASSUME RecordInv, NEW s \in Slots, DetectRegressions(s)
    PROVE  RecordInv'
<1> DEFINE old == runs[s]
           ids == old.ids
           own == [k \in DOMAIN ids |-> events[ids[k]]]
<1>1. old \in Run /\ Honest(old, snapshots, events)
    BY DEF RecordInv, RecordTypes, RunsHonest
<1>2. ids \in Seq(Nat) /\ DOMAIN ids = 1 .. Len(ids) /\ Len(ids) \in Nat /\ events \in Seq(DetectedEvent)
    BY <1>1, RunType, LenProperties DEF RecordInv, RecordTypes
<1>3. \A k \in DOMAIN ids : ids[k] \in DOMAIN events
    BY <1>1 DEF Honest
<1>4. own \in Seq(DetectedEvent) /\ DOMAIN own = DOMAIN ids
    <2>1. \A k \in 1 .. Len(ids) : events[ids[k]] \in DetectedEvent
        BY <1>2, <1>3
    <2> QED BY <1>2, <2>1
<1>5. PICK signal \in setting.signals :
          LET found == Detect(own, signal[1], signal[2])
              cited == [k \in DOMAIN found |-> [found[k] EXCEPT !.events = {ids[n] : n \in @}]]
          IN  runs' = [runs EXCEPT ![s].pc = IF found = <<>> THEN "ack" ELSE "regressions", ![s].found = cited]
    BY DEF DetectRegressions
<1>6. signal \in Traffic \X BOOLEAN
    BY MonitoringAssumption DEF RecordInv, RecordTypes, Setting
<1> DEFINE found == Detect(own, signal[1], signal[2])
           cited == [k \in DOMAIN found |-> [found[k] EXCEPT !.events = {ids[n] : n \in @}]]
           run == [old EXCEPT !.pc = IF found = <<>> THEN "ack" ELSE "regressions", !.found = cited]
<1>7. RunBecomes(s, run)
    BY <1>5 DEF RunBecomes
<1>8. found \in Seq(Founded(own)) /\ DOMAIN found = 1 .. Len(found) /\ Len(found) \in Nat
    <2>1. found \in Seq(Founded(own))
        BY <1>4, <1>6, DetectFounded
    <2> QED BY <2>1, LenProperties
<1> HIDE DEF found
<1>9. ASSUME NEW k \in DOMAIN found
      PROVE  /\ cited[k] \in Found /\ Cited(cited[k], events)
    <2> DEFINE c == found[k]
    <2>1. /\ c \in [rule : Rules, severity : Severities, events : SUBSET DOMAIN own]
          /\ c.events # {} /\ \A n \in c.events : own[n].type \in Evidence[c.rule]
        <3>1. c \in Founded(own)
            BY <1>8, ElementOfSeq
        <3> QED BY <3>1 DEF Founded
    <2> DEFINE kept == {ids[n] : n \in c.events}
    <2> HIDE DEF c
    <2>2. \A n \in c.events : n \in DOMAIN ids /\ own[n] = events[ids[n]]
        BY <1>4, <2>1
    <2>3. kept \subseteq Nat /\ kept # {} /\ \A r \in kept : r \in DOMAIN events /\ events[r].type \in Evidence[c.rule]
        <3>1. \A n \in c.events : ids[n] \in Nat
            BY <1>2, <2>2, ElementOfSeq
        <3>2. \A n \in c.events : ids[n] \in DOMAIN events /\ events[ids[n]].type \in Evidence[c.rule]
            BY <1>3, <2>1, <2>2
        <3> QED BY <2>1, <3>1, <3>2
    <2>4. cited[k] = [c EXCEPT !.events = kept]
        BY DEF c
    <2> HIDE DEF kept
    <2>5. cited[k] = [rule |-> c.rule, severity |-> c.severity, events |-> kept]
        BY <2>1, <2>4
    <2> HIDE DEF cited
    <2> QED BY <2>1, <2>3, <2>5 DEF Found, Cited
<1>10. cited \in Seq(Found) /\ DOMAIN cited = DOMAIN found /\ (cited = <<>> => found = <<>>)
    <2>1. DOMAIN cited = DOMAIN found
        OBVIOUS
    <2>2. cited \in [1 .. Len(found) -> Found]
        BY <1>8, <1>9
    <2>3. cited \in Seq(Found)
        BY <1>8, <2>2
    <2>4. found # <<>> => 1 \in DOMAIN cited
        BY <1>8, <2>1, EmptySeq
    <2>5. cited = <<>> => found = <<>>
        <3>1. 1 \notin DOMAIN <<>>
            OBVIOUS
        <3> HIDE DEF cited
        <3> QED BY <2>4, <3>1
    <2> QED BY <2>1, <2>3, <2>5
<1> HIDE DEF cited
<1>11. /\ run \in Run /\ run.found = cited /\ run.pc \in {"ack", "regressions"}
       /\ run.pc = "regressions" => found # <<>>
       /\ run.previous = old.previous /\ run.todo = old.todo /\ run.ids = old.ids
    BY <1>1, <1>10 DEF Run
<1> HIDE DEF run, old
<1>12. Honest(run, snapshots, events)
    BY <1>1, <1>9, <1>10, <1>11 DEF Honest
<1> QED BY <1>7, <1>11, <1>12, SlotKeeps DEF DetectRegressions, outside, rows

LEMMA RegressionKeeps ==
    ASSUME RecordInv, NEW s \in Slots, SaveRegression(s)
    PROVE  RecordInv'
<1> DEFINE old == runs[s]
           run == [old EXCEPT !.pc = IF Tail(old.found) = <<>> THEN "ack" ELSE "regressions",
                              !.found = Tail(old.found)]
<1>1. old \in Run /\ Honest(old, snapshots, events) /\ old.pc = "regressions" /\ old.found # <<>>
    BY DEF RecordInv, RecordTypes, RunsHonest, Honest, SaveRegression
<1>2. /\ regressions' = regressions \cup {Head(old.found)} /\ RunBecomes(s, run)
      /\ UNCHANGED <<setting, page, clock, snapshots, events>>
    BY DEF SaveRegression, RunBecomes, outside
<1>3. old.found \in Seq(Found)
    BY <1>1, RunType
<1> HIDE DEF old
<1>4. /\ Tail(old.found) \in Seq(Found) /\ Head(old.found) = old.found[1] /\ 1 \in DOMAIN old.found
      /\ \A k \in DOMAIN Tail(old.found) : k + 1 \in DOMAIN old.found /\ Tail(old.found)[k] = old.found[k + 1]
    BY <1>1, <1>3
<1>5. /\ run \in Run /\ run.pc \in {"ack", "regressions"} /\ (run.pc = "regressions" => run.found # <<>>)
      /\ run.found = Tail(old.found) /\ run.previous = old.previous /\ run.todo = old.todo /\ run.ids = old.ids
    <2> DEFINE rest == Tail(old.found)
    <2>1. rest \in Seq(Found)
        BY <1>4
    <2> HIDE DEF rest
    <2>2. [old EXCEPT !.pc = IF rest = <<>> THEN "ack" ELSE "regressions", !.found = rest] \in Run
        BY <1>1, <2>1 DEF Run
    <2>3. run = [old EXCEPT !.pc = IF rest = <<>> THEN "ack" ELSE "regressions", !.found = rest]
        BY DEF rest
    <2> HIDE DEF run
    <2>4. /\ run.pc = (IF rest = <<>> THEN "ack" ELSE "regressions") /\ run.found = rest
          /\ run.previous = old.previous /\ run.todo = old.todo /\ run.ids = old.ids
        BY <1>1, <2>3 DEF Run
    <2> QED BY <2>2, <2>3, <2>4 DEF rest
<1> HIDE DEF run
<1>6. Cited(old.found[1], events) /\ \A k \in DOMAIN run.found : Cited(run.found[k], events)
    BY <1>1, <1>4, <1>5 DEF Honest
<1>7. Honest(run, snapshots, events)
    BY <1>1, <1>5, <1>6 DEF Honest
<1>8. runs' \in [Slots -> Run] /\ \A q \in Slots : runs'[q] = IF q = s THEN run ELSE runs[q]
    BY <1>2, <1>5, RunMoves DEF RecordInv
<1>9. RecordTypes' /\ HonestTimeline'
    BY <1>2, <1>8 DEF RecordInv, RecordTypes, HonestTimeline
<1>10. RegressionEvidence'
    BY <1>2, <1>4, <1>6 DEF RecordInv, RegressionEvidence, Cited
<1>11. RunsHonest'
    BY <1>2, <1>7, <1>8 DEF RecordInv, RunsHonest
<1> QED BY <1>9, <1>10, <1>11 DEF RecordInv

LEMMA RecordStep == ASSUME RecordInv, [Next]_vars PROVE RecordInv'
<1> USE DEF outside, rows
<1>1. CASE UNCHANGED vars
    BY <1>1 DEF vars, RecordInv, RecordTypes, HonestTimeline, RegressionEvidence, RunsHonest
<1>2. CASE Rescan \/ SetActive \/ ScheduleScan \/ Tick \/ PageChanges
    <2>1. UNCHANGED <<setting, snapshots, events, regressions, runs>>
        BY <1>2 DEF Rescan, SetActive, ScheduleScan, Tick, PageChanges
    <2>2. page' \in Versions /\ clock' \in Nat
        BY <1>2, MonitoringAssumption DEF Rescan, SetActive, ScheduleScan, Tick, PageChanges, RecordInv, RecordTypes, Setting
    <2> QED BY <2>1, <2>2 DEF RecordInv, RecordTypes, HonestTimeline, RegressionEvidence, RunsHonest
<1>3. ASSUME NEW s \in Slots, SlotStep(s) PROVE RecordInv'
    <2>1. runs[s] \in Run /\ Honest(runs[s], snapshots, events)
        BY DEF RecordInv, RecordTypes, RunsHonest
    <2>2. CASE \E j \in JobIds : RejectJob(s, j)
        BY <2>2 DEF RejectJob, RecordInv, RecordTypes, HonestTimeline, RegressionEvidence, RunsHonest
    <2>3. CASE (\E j \in JobIds : TakeJob(s, j)) \/ Crawl(s)
        BY <2>3, BeginKeeps
    <2>4. CASE CrawlFails(s) \/ CompleteJob(s) \/ JobFails(s) \/ WorkerCrash(s)
        BY <2>4, SettleKeeps DEF CrawlFails, CompleteJob, JobFails, WorkerCrash
    <2>5. CASE SaveSnapshot(s) \/ SaveEvent(s) \/ DetectRegressions(s) \/ SaveRegression(s)
        BY <2>5, SnapshotKeeps, EventKeeps, DetectKeeps, RegressionKeeps
    <2>6. CASE LoseLock(s)
        <3> DEFINE run == [runs[s] EXCEPT !.holds = FALSE]
        <3>1. /\ run \in Run /\ run.pc = runs[s].pc /\ run.previous = runs[s].previous
              /\ run.todo = runs[s].todo /\ run.ids = runs[s].ids /\ run.found = runs[s].found
            BY <2>1 DEF Run
        <3>2. RunBecomes(s, run)
            BY <2>6 DEF LoseLock, RunBecomes
        <3> HIDE DEF run
        <3>3. Honest(run, snapshots, events)
            BY <2>1, <3>1 DEF Honest
        <3> QED BY <2>6, <3>1, <3>2, <3>3, SlotKeeps DEF LoseLock
    <2> QED BY <1>3, <2>2, <2>3, <2>4, <2>5, <2>6 DEF SlotStep
<1> QED BY <1>1, <1>2, <1>3 DEF Next

LEMMA RecordInit == ASSUME Init PROVE RecordInv
<1>1. setting \in Settings /\ page \in Versions /\ clock \in Nat
    BY MonitoringAssumption DEF Init, Setting
<1>2. \A s \in Slots : runs[s] = IdleRun
    BY DEF Init
<1>3. runs \in [Slots -> Run]
    BY RunType DEF Init
<1>4. snapshots = <<>> /\ events = <<>> /\ regressions = {}
    BY DEF Init
<1>5. RecordTypes
    BY <1>1, <1>3, <1>4 DEF RecordTypes
<1>6. HonestTimeline /\ RegressionEvidence
    BY <1>4 DEF HonestTimeline, RegressionEvidence
<1>7. RunsHonest
    BY <1>2, IdleHonest DEF RunsHonest
<1> QED BY <1>5, <1>6, <1>7 DEF RecordInv

(***************************************************************************)
(* Whatever jobs overlap, die and are repeated: every event on the         *)
(* timeline compares a recorded snapshot with an earlier one, and every    *)
(* regression cites recorded events its rule is about (runScan,            *)
(* diffSnapshots, detectRegressions).                                      *)
(***************************************************************************)
THEOREM RecordsAreHonest == Spec => []HonestRecords
<1>1. Init => RecordInv
    BY RecordInit
<1>2. RecordInv /\ [Next]_vars => RecordInv'
    BY RecordStep
<1>3. RecordInv => HonestRecords
    BY DEF RecordInv, HonestRecords
<1> QED BY <1>1, <1>2, <1>3, PTL DEF Spec

-----------------------------------------------------------------------------
(* The timeline *)

(* The recursive definition of the ideal timeline is one: a function on    *)
(* all numbers meets it.                                                   *)
UpTo(saved) == CHOOSE f : f = [n \in Nat |-> IF n < 2 THEN <<>>
                                 ELSE f[n - 1] \o Diff(saved[n - 1].fields, saved[n].fields)]

LEMMA UpToUnfolds ==
    ASSUME NEW saved
    PROVE  UpTo(saved) = [n \in Nat |-> IF n < 2 THEN <<>>
                           ELSE UpTo(saved)[n - 1] \o Diff(saved[n - 1].fields, saved[n].fields)]
<1> DEFINE Join(x, n) == x \o Diff(saved[n - 1].fields, saved[n].fields)
           Step(f, n) == IF n < 2 THEN <<>> ELSE Join(f[n - 1], n)
           Meets(n, g) == g = [i \in 0 .. n |-> Step(g, i)]
<1>0. UpTo(saved) = CHOOSE f : f = [n \in Nat |-> Step(f, n)]
    BY DEF UpTo
<1> HIDE DEF Join
<1>1. \A n \in Nat : \E g : Meets(n, g)
    <2> DEFINE S == {n \in Nat : \E g : Meets(n, g)}
    <2>1. 0 \in S
        <3>1. Meets(0, [i \in 0 .. 0 |-> <<>>])
            OBVIOUS
        <3> QED BY <3>1
    <2>2. ASSUME NEW n \in Nat, n \in S PROVE n + 1 \in S
        <3>1. PICK g : Meets(n, g)
            BY <2>2
        <3> DEFINE h == [i \in 0 .. n + 1 |-> IF i = n + 1 THEN Step(g, i) ELSE g[i]]
        <3>2. ASSUME NEW i \in 0 .. n + 1 PROVE h[i] = Step(h, i)
            <4>1. CASE i < 2
                BY <3>1, <4>1
            <4>2. CASE ~ (i < 2)
                <5>1. i - 1 \in 0 .. n /\ i - 1 # n + 1 /\ i - 1 \in 0 .. n + 1
                    BY <4>2
                <5>2. h[i - 1] = g[i - 1]
                    BY <5>1
                <5>3. h[i] = Step(g, i)
                    BY <3>1
                <5> QED BY <5>2, <5>3, <4>2
            <4> QED BY <4>1, <4>2
        <3>3. DOMAIN h = 0 .. n + 1
            OBVIOUS
        <3>4. h = [i \in 0 .. n + 1 |-> h[i]]
            OBVIOUS
        <3> HIDE DEF h
        <3>5. Meets(n + 1, h)
            BY <3>2, <3>4
        <3> QED BY <3>5
    <2> HIDE DEF S
    <2>3. Nat \subseteq S
        BY <2>1, <2>2, OneAfterTheOther
    <2> QED BY <2>3 DEF S
<1>2. ASSUME NEW n \in Nat, NEW m \in Nat, n <= m, NEW g, Meets(n, g), NEW h, Meets(m, h)
      PROVE  \A i \in 0 .. n : g[i] = h[i]
    <2> DEFINE S == {i \in Nat : i <= n => g[i] = h[i]}
    <2>1. 0 \in S
        BY <1>2
    <2>2. ASSUME NEW i \in Nat, i \in S PROVE i + 1 \in S
        <3> SUFFICES ASSUME i + 1 <= n PROVE g[i + 1] = h[i + 1]
            OBVIOUS
        <3>1. g[i] = h[i] /\ i + 1 \in 0 .. n /\ i + 1 \in 0 .. m /\ (i + 1) - 1 = i
            BY <1>2, <2>2
        <3>2. g[i + 1] = Step(g, i + 1) /\ h[i + 1] = Step(h, i + 1)
            BY <1>2, <3>1
        <3> QED BY <3>1, <3>2
    <2> HIDE DEF S
    <2>3. Nat \subseteq S
        BY <2>1, <2>2, OneAfterTheOther
    <2> QED BY <2>3 DEF S
<1> DEFINE Part(n) == CHOOSE g : Meets(n, g)
           whole == [n \in Nat |-> Part(n)[n]]
<1>3. \A n \in Nat : Meets(n, Part(n))
    BY <1>1
<1> HIDE DEF Part
<1>4. ASSUME NEW n \in Nat PROVE whole[n] = Step(whole, n)
    <2>1. Part(n)[n] = Step(Part(n), n)
        BY <1>3
    <2>2. CASE n < 2
        BY <2>1, <2>2
    <2>3. CASE ~ (n < 2)
        <3>1. n - 1 \in Nat /\ n - 1 <= n /\ n - 1 \in 0 .. n - 1
            BY <2>3
        <3>2. Meets(n - 1, Part(n - 1)) /\ Meets(n, Part(n))
            BY <1>3, <3>1
        <3> HIDE DEF Meets
        <3>3. Part(n - 1)[n - 1] = Part(n)[n - 1]
            BY <1>2, <3>1, <3>2
        <3> QED BY <2>1, <2>3, <3>1, <3>3
    <2> QED BY <2>2, <2>3
<1>5. whole = [n \in Nat |-> whole[n]]
    OBVIOUS
<1> HIDE DEF whole
<1>6. whole = [n \in Nat |-> Step(whole, n)]
    BY <1>4, <1>5
<1>7. UpTo(saved) = [n \in Nat |-> Step(UpTo(saved), n)]
    BY <1>0, <1>6
<1> QED BY <1>7 DEF Join

LEMMA UpToAt ==
    ASSUME NEW saved, NEW i \in Nat
    PROVE  UpTo(saved)[i] = IF i < 2 THEN <<>>
                            ELSE UpTo(saved)[i - 1] \o Diff(saved[i - 1].fields, saved[i].fields)
<1> DEFINE F == UpTo(saved)
<1>1. F = [n \in Nat |-> IF n < 2 THEN <<>> ELSE F[n - 1] \o Diff(saved[n - 1].fields, saved[n].fields)]
    BY UpToUnfolds
<1> HIDE DEF F
<1>2. F[i] = IF i < 2 THEN <<>> ELSE F[i - 1] \o Diff(saved[i - 1].fields, saved[i].fields)
    BY <1>1
<1> QED BY <1>2 DEF F

LEMMA DifferencesGrow ==
    ASSUME NEW T, NEW saved \in Seq(T), NEW row \in T
    PROVE  /\ Differences(<<>>) = <<>>
           /\ Differences(Append(saved, row)) =
                IF saved = <<>> THEN <<>>
                ELSE Differences(saved) \o Diff(saved[Len(saved)].fields, row.fields)
<1> DEFINE more == Append(saved, row)
           f == UpTo(saved)
           g == UpTo(more)
           n == Len(saved)
<1>0. \A some : Differences(some) = UpTo(some)[Len(some)]
    BY DEF Differences, UpTo
<1>1. /\ n \in Nat /\ Len(more) = n + 1 /\ (n = 0 <=> saved = <<>>)
      /\ \A i \in 1 .. n : more[i] = saved[i]
      /\ more[n + 1] = row
    BY AppendProperties, EmptySeq
<1> HIDE DEF more
<1>2. /\ \A i \in Nat : f[i] = IF i < 2 THEN <<>> ELSE f[i - 1] \o Diff(saved[i - 1].fields, saved[i].fields)
      /\ \A i \in Nat : g[i] = IF i < 2 THEN <<>> ELSE g[i - 1] \o Diff(more[i - 1].fields, more[i].fields)
    BY UpToAt
<1> HIDE DEF f, g
<1> DEFINE S == {i \in Nat : i <= n => f[i] = g[i]}
<1>3. 0 \in S
    BY <1>2
<1>4. ASSUME NEW i \in Nat, i \in S PROVE i + 1 \in S
    <2> SUFFICES ASSUME i + 1 <= n PROVE f[i + 1] = g[i + 1]
        OBVIOUS
    <2>1. f[i] = g[i] /\ i + 1 \in Nat /\ (i + 1) - 1 = i
        BY <1>1, <1>4
    <2>2. CASE i + 1 < 2
        BY <1>2, <2>1, <2>2
    <2>3. CASE ~ (i + 1 < 2)
        <3>1. i \in 1 .. n /\ i + 1 \in 1 .. n
            BY <1>1, <2>3
        <3>2. more[i] = saved[i] /\ more[i + 1] = saved[i + 1]
            BY <1>1, <3>1
        <3>3. /\ f[i + 1] = f[i] \o Diff(saved[i].fields, saved[i + 1].fields)
              /\ g[i + 1] = g[i] \o Diff(more[i].fields, more[i + 1].fields)
            BY <1>2, <2>1, <2>3
        <3> QED BY <2>1, <3>2, <3>3
    <2> QED BY <2>2, <2>3
<1> HIDE DEF S
<1>5. Nat \subseteq S
    BY <1>3, <1>4, OneAfterTheOther
<1>6. f[n] = g[n]
    BY <1>1, <1>5 DEF S
<1>7. Differences(more) = g[n + 1] /\ Differences(saved) = f[n]
    BY <1>0, <1>1 DEF f, g
<1>8. ASSUME saved = <<>> PROVE Differences(more) = <<>>
    <2>1. g[n + 1] = <<>>
        BY <1>1, <1>2, <1>8
    <2> QED BY <1>7, <2>1
<1>9. ASSUME saved # <<>> PROVE Differences(more) = Differences(saved) \o Diff(saved[n].fields, row.fields)
    <2>1. ~ (n + 1 < 2) /\ n \in 1 .. n /\ n + 1 \in Nat /\ (n + 1) - 1 = n
        BY <1>1, <1>9
    <2>2. g[n + 1] = g[n] \o Diff(more[n].fields, more[n + 1].fields)
        BY <1>2, <2>1
    <2>3. more[n] = saved[n] /\ more[n + 1] = row
        BY <1>1, <2>1
    <2> QED BY <1>6, <1>7, <2>2, <2>3
<1>10. Differences(<<>>) = <<>>
    <2>1. ASSUME NEW some, NEW i \in Nat, i < 2 PROVE UpTo(some)[i] = <<>>
        BY <2>1, UpToAt
    <2>2. \A some : UpTo(some)[0] = <<>>
        BY <2>1
    <2> QED BY <1>0, <2>2
<1> QED BY <1>8, <1>9, <1>10 DEF more

(***************************************************************************)
(* A run at a time                                                         *)
(*                                                                         *)
(* While at most one slot works and none loses its lock, what is recorded  *)
(* and what that slot still owes make up everything the page went through. *)
(***************************************************************************)
Row == [fields : Versions, isBaseline : BOOLEAN, at : Nat]

(* A job reads the latest snapshot and has saved no event before its own. *)
Reads(run, saved) ==
    run.pc \in {"crawl", "snapshot"} =>
        /\ run.previous = IF saved = <<>> THEN <<>> ELSE <<saved[Len(saved)].fields>>
        /\ run.ids = <<>>

(* The events it saves compare the last two snapshots. *)
AboutLast(e, saved) == e.from = saved[Len(saved) - 1].fields /\ e.to = saved[Len(saved)].fields

TellsLast(run, saved, told) ==
    /\ run.pc \in {"events", "detect"} =>
           /\ Len(saved) >= 2
           /\ \A k \in DOMAIN run.todo : AboutLast(run.todo[k], saved)
           /\ \A k \in DOMAIN run.ids : AboutLast(told[run.ids[k]], saved)
    /\ run.pc = "detect" => run.todo = <<>>

FindsOneNotFound(run) ==
    run.pc = "regressions" =>
        \A k, l \in DOMAIN run.found :
            run.found[k].rule = "not_found" /\ run.found[l].rule = "not_found" => k = l

(* An event of one of these types is saved or still to save, its rules not *)
(* yet applied.                                                            *)
Awaits(run, told, types) ==
    /\ run.pc \in {"events", "detect"}
    /\ \/ \E k \in DOMAIN run.todo : run.todo[k].type \in types
       \/ \E k \in DOMAIN run.ids : told[run.ids[k]].type \in types

(* A page gone that is not yet reported is owed by the run. *)
NotFounds(reported) == {r \in reported : r.rule = "not_found"}
GoneSteps(saved) ==
    {i \in 1 .. Len(saved) - 1 : saved[i].fields.httpStatus < 400 /\ saved[i + 1].fields.httpStatus = 404}

OwesNotFound(run, told) ==
    \/ Awaits(run, told, {"page_became_404"})
    \/ run.pc = "regressions" /\ \E k \in DOMAIN run.found : run.found[k].rule = "not_found"

NotFoundsCounted(run, saved, told, reported) ==
    /\ IsFiniteSet(NotFounds(reported))
    /\ Cardinality(NotFounds(reported)) <= Cardinality(GoneSteps(saved))
    /\ OwesNotFound(run, told) => Cardinality(NotFounds(reported)) + 1 <= Cardinality(GoneSteps(saved))

(* A loss that is not yet reported is the last one, and owed by the run. *)
ReportsLoss(r, i, saved, told) ==
    /\ r.severity = "CRITICAL" /\ r.rule \in {"noindex", "not_found"}
    /\ \E k \in r.events : told[k].from = saved[i].fields /\ told[k].to = saved[i + 1].fields

OwesLoss(run, saved, told) ==
    \/ Awaits(run, told, LossTypes)
    \/ run.pc = "regressions" /\ \E k \in DOMAIN run.found : ReportsLoss(run.found[k], Len(saved) - 1, saved, told)

LossesOwed(run, saved, told, reported) ==
    \A i \in 1 .. Len(saved) - 1 :
        Lost(saved[i].fields, saved[i + 1].fields) =>
            \/ \E r \in reported : ReportsLoss(r, i, saved, told)
            \/ i = Len(saved) - 1 /\ OwesLoss(run, saved, told)

(* The timeline with what the run still has to save is complete. *)
TimelineOwed(run, saved, told) ==
    IF run.pc = "events" THEN told \o run.todo = Differences(saved) ELSE told = Differences(saved)

FirstIsBaseline(saved) == \A k \in DOMAIN saved : saved[k].isBaseline <=> k = 1

ToldBy(run, saved, told, reported) ==
    /\ Reads(run, saved) /\ TellsLast(run, saved, told) /\ FindsOneNotFound(run)
    /\ FirstIsBaseline(saved)
    /\ NotFoundsCounted(run, saved, told, reported)
    /\ NothingLost => TimelineOwed(run, saved, told) /\ LossesOwed(run, saved, told, reported)

(* The run at work, an idle one if there is none. *)
AtWork(run) ==
    \/ run = IdleRun /\ Quiet
    \/ \E s \in Slots : run = runs[s] /\ \A q \in Slots : q # s => runs[q].pc = "idle"

Told == \E run \in Run : AtWork(run) /\ ToldBy(run, snapshots, events, regressions)

LEMMA IdleOwesNothing ==
    ASSUME NEW old, NEW run, NEW saved, NEW told, NEW reported, ToldBy(old, saved, told, reported),
           old.pc \in {"idle", "ack"} \/ (NothingLost => old.pc = "crawl"), run.pc = "idle"
    PROVE  ToldBy(run, saved, told, reported)
BY DEF ToldBy, Reads, TellsLast, FindsOneNotFound, NotFoundsCounted, TimelineOwed, LossesOwed, OwesLoss,
       OwesNotFound, Awaits

(* Sets of steps at which the page went away grow with the snapshots. *)
LEMMA GoneGrows ==
    ASSUME NEW saved \in Seq(Row), NEW row \in Row
    PROVE  LET went == /\ Len(saved) >= 1
                       /\ saved[Len(saved)].fields.httpStatus < 400 /\ row.fields.httpStatus = 404
           IN  /\ Cardinality(GoneSteps(saved)) \in Nat
               /\ Cardinality(GoneSteps(Append(saved, row))) =
                    IF went THEN Cardinality(GoneSteps(saved)) + 1 ELSE Cardinality(GoneSteps(saved))
<1> DEFINE n == Len(saved)
           more == Append(saved, row)
           went == n >= 1 /\ saved[n].fields.httpStatus < 400 /\ row.fields.httpStatus = 404
<1>1. /\ n \in Nat /\ Len(more) = n + 1 /\ more[n + 1] = row /\ \A i \in 1 .. n : more[i] = saved[i]
    BY AppendProperties
<1> HIDE DEF more
<1>2. GoneSteps(saved) \subseteq 1 .. n /\ n \notin GoneSteps(saved)
    BY <1>1 DEF GoneSteps
<1>3. IsFiniteSet(GoneSteps(saved)) /\ Cardinality(GoneSteps(saved)) \in Nat
    <2>1. IsFiniteSet(1 .. n)
        <3>1. 1 \in Int /\ n \in Int
            BY <1>1
        <3> HIDE DEF n, went
        <3> QED BY ONLY <3>1, FS_Interval
    <2>2. IsFiniteSet(GoneSteps(saved))
        BY <1>2, <2>1, FS_Subset
    <2> QED BY <2>2, FS_CardinalityType
<1>4. GoneSteps(more) = IF went THEN GoneSteps(saved) \cup {n} ELSE GoneSteps(saved)
    <2> DEFINE gone(i) == more[i].fields.httpStatus < 400 /\ more[i + 1].fields.httpStatus = 404
    <2>1. GoneSteps(more) = {i \in 1 .. n : gone(i)}
        BY <1>1 DEF GoneSteps
    <2>2. GoneSteps(saved) = {i \in 1 .. n - 1 : gone(i)}
        <3>1. \A i \in 1 .. n - 1 : i \in 1 .. n /\ i + 1 \in 1 .. n
            BY <1>1
        <3>2. \A i \in 1 .. n - 1 : more[i] = saved[i] /\ more[i + 1] = saved[i + 1]
            BY <1>1, <3>1
        <3> QED BY <1>1, <3>2 DEF GoneSteps
    <2>3. n \in 1 .. n => (gone(n) <=> went)
        BY <1>1
    <2> HIDE DEF gone, went
    <2>4. 1 .. n = IF n >= 1 THEN (1 .. n - 1) \cup {n} ELSE 1 .. n - 1
        <3>1. \A i \in Int : i \in 1 .. n <=> i \in 1 .. n - 1 \/ (n >= 1 /\ i = n)
            BY <1>1
        <3>2. 1 .. n \subseteq Int /\ 1 .. n - 1 \subseteq Int /\ n \in Int
            BY <1>1
        <3> QED BY <3>1, <3>2
    <2>5. ~ (n >= 1) => ~went
        BY DEF went
    <2>6. n >= 1 => n \in 1 .. n
        BY <1>1
    <2> QED BY <2>1, <2>2, <2>3, <2>4, <2>5, <2>6
<1>5. Cardinality(GoneSteps(saved) \cup {n}) = Cardinality(GoneSteps(saved)) + 1
    BY <1>2, <1>3, FS_AddElement
<1> QED BY <1>3, <1>4, <1>5 DEF more

LEMMA SnapshotTold ==
    ASSUME NEW saved \in Seq(Row), NEW told \in Seq(DetectedEvent), NEW reported, NEW old \in Run, NEW run \in Run,
           NEW row \in Row, NEW found, old.pc = "snapshot", ToldBy(old, saved, told, reported),
           row.fields = old.fields, row.isBaseline <=> old.previous = <<>>,
           found = IF old.previous = <<>> THEN <<>> ELSE Diff(old.previous[1], old.fields),
           run.pc = IF found = <<>> THEN "ack" ELSE "events", run.todo = found, run.ids = old.ids
    PROVE  ToldBy(run, Append(saved, row), told, reported)
<1> DEFINE n == Len(saved)
           more == Append(saved, row)
           last == saved[n].fields
<1>1. /\ n \in Nat /\ Len(more) = n + 1 /\ more[n + 1] = row /\ \A i \in 1 .. n : more[i] = saved[i]
      /\ DOMAIN saved = 1 .. n /\ DOMAIN more = 1 .. n + 1 /\ (saved = <<>> <=> n = 0)
    BY AppendProperties, LenProperties, EmptySeq
<1> HIDE DEF more
<1>2. /\ old.previous = IF saved = <<>> THEN <<>> ELSE <<last>>
      /\ old.ids = <<>>
    BY DEF ToldBy, Reads
<1>3. /\ old.previous = <<>> <=> n = 0
      /\ n # 0 => old.previous[1] = last
    BY <1>1, <1>2
<1>4. n # 0 => n \in 1 .. n /\ saved[n] \in Row /\ last \in Versions
    <2>1. n # 0 => n \in 1 .. n
        BY <1>1
    <2>2. n # 0 => saved[n] \in Row
        BY <2>1, ElementOfSeq
    <2> QED BY <2>1, <2>2 DEF Row
<1>5. found = IF n = 0 THEN <<>> ELSE Diff(last, row.fields)
    BY <1>3
<1>6. row.fields \in SnapshotFields /\ (n # 0 => last \in SnapshotFields)
    BY <1>4, MonitoringAssumption DEF Row
<1> HIDE DEF last
<1>7. found \in Seq(DetectedEvent) /\ \A k \in DOMAIN found : found[k].from = last /\ found[k].to = row.fields
    <2>1. CASE n = 0
        <3>1. found = <<>>
            BY <1>5, <2>1
        <3>2. <<>> \in Seq(DetectedEvent) /\ DOMAIN <<>> = {}
            OBVIOUS
        <3> QED BY <3>1, <3>2
    <2>2. CASE n # 0
        <3>1. found \in Seq(Compares(last, row.fields))
            BY <1>5, <1>6, <2>2, DiffCompares
        <3>2. \A k \in DOMAIN found : found[k] \in Compares(last, row.fields)
            BY <3>1, LenProperties, ElementOfSeq
        <3>3. Compares(last, row.fields) \subseteq DetectedEvent
            BY DEF Compares
        <3>4. found \in Seq(DetectedEvent)
            BY <3>1, <3>3, SeqMonotonic
        <3> QED BY <3>2, <3>4 DEF Compares
    <2> QED BY <2>1, <2>2
<1>8. run.pc \in {"ack", "events"} /\ (run.pc = "events" <=> found # <<>>) /\ DOMAIN run.ids = {}
    BY <1>2
<1>9. Reads(run, more) /\ FindsOneNotFound(run)
    BY <1>8 DEF Reads, FindsOneNotFound
<1>10. TellsLast(run, more, told)
    <2>1. run.pc = "events" => n # 0
        BY <1>5, <1>8
    <2>2. run.pc = "events" => more[Len(more) - 1].fields = last /\ more[Len(more)].fields = row.fields
        <3>1. Len(more) - 1 = n
            BY <1>1
        <3> QED BY <1>1, <1>4, <2>1, <3>1 DEF last
    <2>3. run.pc = "events" => Len(more) >= 2
        BY <1>1, <2>1
    <2> QED BY <1>7, <1>8, <2>2, <2>3 DEF TellsLast, AboutLast
<1>11. FirstIsBaseline(more)
    <2>1. \A k \in 1 .. n : more[k].isBaseline <=> k = 1
        BY <1>1 DEF ToldBy, FirstIsBaseline
    <2>2. more[n + 1].isBaseline <=> n + 1 = 1
        BY <1>1, <1>3
    <2> QED BY <1>1, <2>1, <2>2 DEF FirstIsBaseline
<1>12. NotFoundsCounted(run, more, told, reported)
    <2> DEFINE went == n >= 1 /\ last.httpStatus < 400 /\ row.fields.httpStatus = 404
    <2>1. /\ Cardinality(GoneSteps(saved)) \in Nat
          /\ Cardinality(GoneSteps(more)) = IF went THEN Cardinality(GoneSteps(saved)) + 1 ELSE Cardinality(GoneSteps(saved))
        BY GoneGrows DEF last, more
    <2>2. OwesNotFound(run, told) => went
        <3> SUFFICES ASSUME OwesNotFound(run, told) PROVE went
            OBVIOUS
        <3>1. PICK k \in DOMAIN found : found[k].type = "page_became_404"
            BY <1>8 DEF OwesNotFound, Awaits
        <3>2. found[k] \in DetectedEvent
            BY <1>7, LenProperties, ElementOfSeq
        <3>3. Has(found, Typed({"page_became_404"})) /\ n # 0
            <4>1. found[k] \in Typed({"page_became_404"})
                BY <3>1, <3>2 DEF Typed
            <4>2. n # 0
                BY <1>5
            <4> QED BY <4>1, <4>2 DEF Has
        <3>4. last.httpStatus < 400 /\ row.fields.httpStatus = 404
            BY <1>5, <1>6, <3>3, DiffTells
        <3> QED BY <1>1, <3>3, <3>4
    <2> HIDE DEF went
    <2>3. /\ IsFiniteSet(NotFounds(reported))
          /\ Cardinality(NotFounds(reported)) <= Cardinality(GoneSteps(saved))
        BY DEF ToldBy, NotFoundsCounted
    <2>4. Cardinality(NotFounds(reported)) \in Nat
        BY <2>3, FS_CardinalityType
    <2> QED BY <2>1, <2>2, <2>3, <2>4 DEF NotFoundsCounted
<1>13. ASSUME NothingLost PROVE TimelineOwed(run, more, told)
    <2>1. told = Differences(saved)
        BY <1>13 DEF ToldBy, TimelineOwed
    <2>2. saved = <<>> <=> n = 0
        BY EmptySeq
    <2>3. Differences(more) = IF saved = <<>> THEN <<>> ELSE Differences(saved) \o Diff(saved[n].fields, row.fields)
        BY ONLY DifferencesGrow DEF more
    <2>4. Differences(more) = IF n = 0 THEN <<>> ELSE Differences(saved) \o Diff(last, row.fields)
        BY <2>2, <2>3 DEF last
    <2>5. n = 0 => told = <<>>
        BY <2>1, <2>2, DifferencesGrow
    <2>6. told \o found = Differences(more)
        <3>1. n = 0 => told \o found = <<>>
            BY <1>5, <2>5
        <3> QED BY <1>5, <2>1, <2>4, <3>1
    <2>7. found = <<>> => told \o found = told
        BY ConcatEmptySeq
    <2> QED BY <1>8, <2>6, <2>7 DEF TimelineOwed
<1>14. ASSUME NothingLost PROVE LossesOwed(run, more, told, reported)
    <2> SUFFICES ASSUME NEW i \in 1 .. Len(more) - 1, Lost(more[i].fields, more[i + 1].fields)
                 PROVE  \/ \E r \in reported : ReportsLoss(r, i, more, told)
                        \/ i = Len(more) - 1 /\ OwesLoss(run, more, told)
        BY DEF LossesOwed
    <2>1. CASE i # n
        <3>1. i \in 1 .. n - 1 /\ more[i] = saved[i] /\ more[i + 1] = saved[i + 1]
            BY <1>1, <2>1
        <3>2. ~OwesLoss(old, saved, told)
            BY DEF OwesLoss, Awaits
        <3>3. \E r \in reported : ReportsLoss(r, i, saved, told)
            BY <1>14, <3>1, <3>2 DEF ToldBy, LossesOwed
        <3> QED BY <3>1, <3>3 DEF ReportsLoss
    <2>2. CASE i = n
        <3>1. Len(more) - 1 = n /\ n # 0
            BY <1>1, <2>2
        <3>2. Lost(last, row.fields)
            BY <1>1, <1>4, <2>2, <3>1 DEF last
        <3>3. Has(found, Typed(LossTypes))
            BY <1>5, <1>6, <3>1, <3>2, DiffTells
        <3>4. Awaits(run, told, LossTypes)
            <4>1. PICK k \in DOMAIN found : found[k].type \in LossTypes
                BY <3>3 DEF Has, Typed
            <4>2. found # <<>>
                BY <4>1
            <4> QED BY <1>8, <4>1, <4>2 DEF Awaits
        <3> QED BY <2>2, <3>1, <3>4 DEF OwesLoss
    <2> QED BY <2>1, <2>2
<1> QED BY <1>9, <1>10, <1>11, <1>12, <1>13, <1>14 DEF ToldBy, more

(* The first of what is to save can be saved first. *)
LEMMA HeadMoves ==
    ASSUME NEW S, NEW a \in Seq(S), NEW b \in Seq(S), b # <<>>
    PROVE  Append(a, Head(b)) \o Tail(b) = a \o b
<1>1. Head(b) \in S /\ Tail(b) \in Seq(S) /\ <<Head(b)>> \in Seq(S)
    BY HeadTailProperties
<1>2. <<Head(b)>> \o Tail(b) = b
    <2> DEFINE h == <<Head(b)>>
               c == h \o Tail(b)
    <2>1. c \in Seq(S) /\ Len(c) = Len(b)
        BY <1>1, ConcatProperties, HeadTailProperties
    <2>2. ASSUME NEW i \in 1 .. Len(b) PROVE c[i] = b[i]
        OBVIOUS
    <2> HIDE DEF c
    <2> QED BY <2>1, <2>2, SeqEqual
<1>3. Append(a, Head(b)) = a \o <<Head(b)>>
    BY <1>1, AppendIsConcat
<1> QED BY <1>1, <1>2, <1>3, ConcatAssociative

(* A loss that was reported stays so when more is told. *)
LEMMA ReportsStay ==
    ASSUME NEW told \in Seq(DetectedEvent), NEW e \in DetectedEvent, NEW saved, NEW i, NEW r, r.events \subseteq DOMAIN told,
           ReportsLoss(r, i, saved, told)
    PROVE  ReportsLoss(r, i, saved, Append(told, e))
<1>1. \A k \in DOMAIN told : Append(told, e)[k] = told[k]
    BY AppendProperties, LenProperties
<1> QED BY <1>1 DEF ReportsLoss

LEMMA EventTold ==
    ASSUME NEW saved, NEW told \in Seq(DetectedEvent), NEW reported, NEW old \in Run, NEW run \in Run,
           old.pc = "events", old.todo # <<>>, ToldBy(old, saved, told, reported),
           \A k \in DOMAIN old.ids : old.ids[k] \in DOMAIN told,
           \A r \in reported : r.events \subseteq DOMAIN told,
           run.pc = IF Tail(old.todo) = <<>> THEN "detect" ELSE "events",
           run.todo = Tail(old.todo), run.ids = Append(old.ids, Len(told) + 1)
    PROVE  ToldBy(run, saved, Append(told, Head(old.todo)), reported)
<1> DEFINE more == Append(told, Head(old.todo))
<1>0. old.todo \in Seq(DetectedEvent) /\ old.ids \in Seq(Nat)
    BY RunType
<1>1. /\ Head(old.todo) \in DetectedEvent /\ Tail(old.todo) \in Seq(DetectedEvent)
      /\ Head(old.todo) = old.todo[1] /\ 1 \in DOMAIN old.todo
      /\ \A k \in DOMAIN Tail(old.todo) : k + 1 \in DOMAIN old.todo /\ Tail(old.todo)[k] = old.todo[k + 1]
      /\ \A k \in DOMAIN old.todo : k = 1 \/ (k - 1 \in DOMAIN Tail(old.todo) /\ Tail(old.todo)[k - 1] = old.todo[k])
    <2> DEFINE first == Head(old.todo)
               rest == Tail(old.todo)
               m == Len(old.todo)
    <2>1. /\ first \in DetectedEvent /\ rest \in Seq(DetectedEvent) /\ first = old.todo[1]
          /\ Len(rest) = m - 1 /\ m \in Nat /\ m # 0 /\ \A k \in 1 .. m - 1 : rest[k] = old.todo[k + 1]
        BY <1>0, HeadTailProperties, EmptySeq
    <2>2. DOMAIN old.todo = 1 .. m /\ DOMAIN rest = 1 .. m - 1
        BY <1>0, <2>1, LenProperties
    <2> HIDE DEF first, rest, m
    <2>3. \A k \in 1 .. m : k = 1 \/ (k - 1 \in 1 .. m - 1 /\ rest[k - 1] = old.todo[k])
        <3> SUFFICES ASSUME NEW k \in 1 .. m, k # 1 PROVE k - 1 \in 1 .. m - 1 /\ rest[k - 1] = old.todo[k]
            OBVIOUS
        <3>1. k - 1 \in 1 .. m - 1 /\ (k - 1) + 1 = k
            BY <2>1
        <3>2. rest[k - 1] = old.todo[(k - 1) + 1]
            BY <2>1, <3>1
        <3> QED BY <3>1, <3>2
    <2>4. 1 \in 1 .. m /\ \A k \in 1 .. m - 1 : k + 1 \in 1 .. m
        BY <2>1
    <2>5. \A k \in DOMAIN rest : k + 1 \in DOMAIN old.todo /\ rest[k] = old.todo[k + 1]
        BY <2>1, <2>2, <2>4
    <2>6. \A k \in DOMAIN old.todo : k = 1 \/ (k - 1 \in DOMAIN rest /\ rest[k - 1] = old.todo[k])
        BY <2>2, <2>3
    <2> QED BY <2>1, <2>2, <2>4, <2>5, <2>6 DEF first, rest
<1>2. /\ Len(told) \in Nat /\ DOMAIN told = 1 .. Len(told) /\ DOMAIN more = 1 .. Len(told) + 1
      /\ \A k \in DOMAIN told : more[k] = told[k]
      /\ more[Len(told) + 1] = old.todo[1] /\ more \in Seq(DetectedEvent)
    BY <1>1, AppendProperties, LenProperties
<1> HIDE DEF more
(* The rows it saved are the rows it had saved and the new one. *)
<1>3. /\ \A k \in DOMAIN run.ids : \/ k \in DOMAIN old.ids /\ more[run.ids[k]] = told[old.ids[k]]
                                   \/ more[run.ids[k]] = old.todo[1]
      /\ \A k \in DOMAIN old.ids : k \in DOMAIN run.ids /\ more[run.ids[k]] = told[old.ids[k]]
      /\ \E k \in DOMAIN run.ids : more[run.ids[k]] = old.todo[1]
    <2> DEFINE m == Len(old.ids)
    <2>1. Len(told) + 1 \in Nat
        BY <1>2
    <2>2. /\ m \in Nat /\ DOMAIN old.ids = 1 .. m /\ DOMAIN run.ids = 1 .. m + 1
          /\ run.ids[m + 1] = Len(told) + 1 /\ \A k \in 1 .. m : run.ids[k] = old.ids[k]
        BY <1>0, <2>1, AppendProperties, LenProperties
    <2>3. \A k \in 1 .. m : more[run.ids[k]] = told[old.ids[k]]
        BY <1>2, <2>2
    <2>4. more[run.ids[m + 1]] = old.todo[1] /\ m + 1 \in DOMAIN run.ids
        BY <1>2, <2>2
    <2>5. \A k \in DOMAIN run.ids : k \in 1 .. m \/ k = m + 1
        BY <2>2
    <2> HIDE DEF m
    <2> QED BY <2>2, <2>3, <2>4, <2>5
<1>4. run.pc \in {"detect", "events"} /\ (run.pc = "detect" => run.todo = <<>>) /\ (run.pc = "events" <=> run.todo # <<>>)
    OBVIOUS
<1>5. Reads(run, saved) /\ FindsOneNotFound(run)
    BY <1>4 DEF Reads, FindsOneNotFound
<1>6. TellsLast(run, saved, more)
    <2>1. /\ Len(saved) >= 2 /\ \A k \in DOMAIN old.todo : AboutLast(old.todo[k], saved)
          /\ \A k \in DOMAIN old.ids : AboutLast(told[old.ids[k]], saved)
        BY DEF ToldBy, TellsLast
    <2>2. \A k \in DOMAIN run.todo : AboutLast(run.todo[k], saved)
        BY <1>1, <2>1
    <2>3. \A k \in DOMAIN run.ids : AboutLast(more[run.ids[k]], saved)
        BY <1>1, <1>3, <2>1
    <2> QED BY <1>4, <2>1, <2>2, <2>3 DEF TellsLast
(* It awaits what it awaited. *)
<1>7. ASSUME NEW types PROVE Awaits(run, more, types) <=> Awaits(old, told, types)
    <2>1. ASSUME NEW k \in DOMAIN run.todo, run.todo[k].type \in types PROVE Awaits(old, told, types)
        BY <1>1, <2>1 DEF Awaits
    <2>2. ASSUME NEW k \in DOMAIN run.ids, more[run.ids[k]].type \in types PROVE Awaits(old, told, types)
        BY <1>1, <1>3, <2>2 DEF Awaits
    <2>3. ASSUME NEW k \in DOMAIN old.todo, old.todo[k].type \in types PROVE Awaits(run, more, types)
        <3>1. CASE k = 1
            BY <1>3, <1>4, <2>3, <3>1 DEF Awaits
        <3>2. CASE k # 1
            BY <1>1, <1>4, <2>3, <3>2 DEF Awaits
        <3> QED BY <3>1, <3>2
    <2>4. ASSUME NEW k \in DOMAIN old.ids, told[old.ids[k]].type \in types PROVE Awaits(run, more, types)
        BY <1>3, <1>4, <2>4 DEF Awaits
    <2> QED BY <2>1, <2>2, <2>3, <2>4 DEF Awaits
<1>8. NotFoundsCounted(run, saved, more, reported)
    <2>1. OwesNotFound(run, more) => OwesNotFound(old, told)
        BY <1>4, <1>7 DEF OwesNotFound
    <2> QED BY <2>1 DEF ToldBy, NotFoundsCounted
<1>9. ASSUME NothingLost PROVE TimelineOwed(run, saved, more)
    <2>1. told \o old.todo = Differences(saved)
        BY <1>9 DEF ToldBy, TimelineOwed
    <2>2. more \o Tail(old.todo) = told \o old.todo
        BY <1>0, HeadMoves DEF more
    <2>3. Tail(old.todo) = <<>> => more \o Tail(old.todo) = more
        BY <1>2, ConcatEmptySeq
    <2> QED BY <2>1, <2>2, <2>3 DEF TimelineOwed
<1>10. ASSUME NothingLost PROVE LossesOwed(run, saved, more, reported)
    <2>1. OwesLoss(old, saved, told) => OwesLoss(run, saved, more)
        BY <1>7 DEF OwesLoss
    <2>2. \A i : \A r \in reported : ReportsLoss(r, i, saved, told) => ReportsLoss(r, i, saved, more)
        BY <1>1, ReportsStay DEF more
    <2> QED BY <1>10, <2>1, <2>2 DEF ToldBy, LossesOwed
<1> QED BY <1>5, <1>6, <1>8, <1>9, <1>10 DEF ToldBy, more

(* The rules were applied to the events the run had saved, and what they   *)
(* found is to be saved with the rows of these events.                     *)
Detected(old, run, told, own, traffic, wp, found, cited) ==
    /\ own \in Seq(DetectedEvent) /\ DOMAIN own = DOMAIN old.ids
    /\ \A k \in DOMAIN own : own[k] = told[old.ids[k]]
    /\ traffic \in Traffic /\ wp \in BOOLEAN /\ found = Detect(own, traffic, wp)
    /\ DOMAIN cited = DOMAIN found
    /\ \A k \in DOMAIN found : /\ cited[k].rule = found[k].rule /\ cited[k].severity = found[k].severity
                               /\ \A n \in found[k].events : old.ids[n] \in cited[k].events
    /\ run.pc = IF found = <<>> THEN "ack" ELSE "regressions"
    /\ run.found = cited

LEMMA DetectTold ==
    ASSUME NEW saved \in Seq(Row), NEW told \in Seq(DetectedEvent), NEW reported, NEW old \in Run, NEW run \in Run,
           old.pc = "detect", ToldBy(old, saved, told, reported),
           NEW own, NEW traffic, NEW wp, NEW found, NEW cited, Detected(old, run, told, own, traffic, wp, found, cited)
    PROVE  ToldBy(run, saved, told, reported)
<1>1. own \in Seq(DetectedEvent) /\ DOMAIN own = DOMAIN old.ids /\ \A k \in DOMAIN own : own[k] = told[old.ids[k]]
    BY DEF Detected
<1>2. /\ found = Detect(own, traffic, wp) /\ traffic \in Traffic /\ wp \in BOOLEAN /\ DOMAIN cited = DOMAIN found
      /\ \A k \in DOMAIN found : /\ cited[k].rule = found[k].rule /\ cited[k].severity = found[k].severity
                                 /\ \A n \in found[k].events : old.ids[n] \in cited[k].events
      /\ run.pc = (IF found = <<>> THEN "ack" ELSE "regressions") /\ run.found = cited
    BY DEF Detected
<1>3. \A k \in DOMAIN found : found[k] \in Founded(own)
    <2>1. found \in Seq(Founded(own))
        BY <1>1, <1>2, DetectFounded
    <2> QED BY <2>1, LenProperties, ElementOfSeq
<1>4. /\ Has(own, Typed(LossTypes)) => Has(found, LossCandidates(own))
      /\ AtMostOne(found, OfRule(own, "not_found"))
    BY <1>1, <1>2, DetectTells
<1>5. old.todo = <<>> /\ Len(saved) >= 2 /\ \A k \in DOMAIN old.ids : AboutLast(told[old.ids[k]], saved)
    BY DEF ToldBy, TellsLast
<1>6. \A k \in DOMAIN found :
        /\ found[k] \in Candidates(own) /\ found[k].events # {} /\ found[k].events \subseteq DOMAIN own
        /\ \A n \in found[k].events : own[n].type \in Evidence[found[k].rule]
    BY <1>3 DEF Founded, Candidates
<1>7. Reads(run, saved) /\ TellsLast(run, saved, told)
    BY <1>2 DEF Reads, TellsLast
<1>8. FindsOneNotFound(run)
    <2> SUFFICES ASSUME NEW k \in DOMAIN found, NEW l \in DOMAIN found,
                        found[k].rule = "not_found", found[l].rule = "not_found"
                 PROVE  k = l
        BY <1>2 DEF FindsOneNotFound
    <2>1. found[k] \in OfRule(own, "not_found") /\ found[l] \in OfRule(own, "not_found")
        BY <1>6 DEF OfRule
    <2> QED BY <1>4, <2>1 DEF AtMostOne
<1>9. NotFoundsCounted(run, saved, told, reported)
    <2>1. ASSUME OwesNotFound(run, told) PROVE OwesNotFound(old, told)
        <3>1. PICK k \in DOMAIN found : found[k].rule = "not_found"
            BY <1>2, <2>1 DEF OwesNotFound, Awaits
        <3>2. PICK n \in found[k].events : TRUE
            BY <1>6
        <3>3. n \in DOMAIN old.ids /\ own[n].type \in Evidence["not_found"] /\ own[n] = told[old.ids[n]]
            BY <1>1, <1>6, <3>1, <3>2
        <3>4. told[old.ids[n]].type \in {"page_became_404"}
            BY <3>3 DEF Evidence
        <3> QED BY <3>3, <3>4 DEF OwesNotFound, Awaits
    <2> QED BY <2>1 DEF ToldBy, NotFoundsCounted
<1>10. NothingLost => TimelineOwed(run, saved, told)
    BY <1>2 DEF ToldBy, TimelineOwed
<1>11. ASSUME OwesLoss(old, saved, told) PROVE OwesLoss(run, saved, told)
    <2>1. PICK k \in DOMAIN old.ids : told[old.ids[k]].type \in LossTypes
        BY <1>5, <1>11 DEF OwesLoss, Awaits
    <2>2. own[k] \in DetectedEvent /\ k \in DOMAIN own /\ own[k].type \in LossTypes
        BY <1>1, <2>1, LenProperties, ElementOfSeq
    <2>3. Has(own, Typed(LossTypes))
        BY <2>2 DEF Has, Typed
    <2>4. PICK l \in DOMAIN found : found[l].severity = "CRITICAL" /\ found[l].rule \in {"noindex", "not_found"}
        BY <1>4, <2>3 DEF Has, LossCandidates
    <2>5. PICK n \in found[l].events : n \in DOMAIN old.ids
        BY <1>1, <1>6, <2>4
    <2>6. old.ids[n] \in cited[l].events /\ AboutLast(told[old.ids[n]], saved)
        BY <1>2, <1>5, <2>4, <2>5
    <2>7. (Len(saved) - 1) + 1 = Len(saved)
        BY LenProperties
    <2>8. ReportsLoss(cited[l], Len(saved) - 1, saved, told)
        BY <1>2, <2>4, <2>6, <2>7 DEF ReportsLoss, AboutLast
    <2>9. found # <<>>
        BY <2>4
    <2> QED BY <1>2, <2>4, <2>8, <2>9 DEF OwesLoss
<1>12. NothingLost => LossesOwed(run, saved, told, reported)
    BY <1>11 DEF ToldBy, LossesOwed
<1>13. FirstIsBaseline(saved)
    BY DEF ToldBy
<1> QED BY <1>7, <1>8, <1>9, <1>10, <1>12, <1>13 DEF ToldBy

LEMMA RegressionTold ==
    ASSUME NEW saved, NEW told, NEW reported, NEW old \in Run, NEW run \in Run,
           old.pc = "regressions", old.found # <<>>, ToldBy(old, saved, told, reported),
           run.pc = IF Tail(old.found) = <<>> THEN "ack" ELSE "regressions", run.found = Tail(old.found)
    PROVE  ToldBy(run, saved, told, reported \cup {Head(old.found)})
<1> DEFINE first == Head(old.found)
           rest == Tail(old.found)
<1>0. old.found \in Seq(Found)
    BY RunType
<1>1. /\ first = old.found[1] /\ 1 \in DOMAIN old.found
      /\ \A k \in DOMAIN rest : k \in Nat \ {0} /\ k + 1 \in DOMAIN old.found /\ rest[k] = old.found[k + 1]
      /\ \A k \in DOMAIN old.found : k = 1 \/ (k - 1 \in DOMAIN rest /\ rest[k - 1] = old.found[k])
    <2> DEFINE m == Len(old.found)
    <2>1. /\ rest \in Seq(Found) /\ first = old.found[1]
          /\ Len(rest) = m - 1 /\ m \in Nat /\ m # 0 /\ \A k \in 1 .. m - 1 : rest[k] = old.found[k + 1]
        BY <1>0, HeadTailProperties, EmptySeq
    <2>2. DOMAIN old.found = 1 .. m /\ DOMAIN rest = 1 .. m - 1
        BY <1>0, <2>1, LenProperties
    <2> HIDE DEF first, rest, m
    <2>3. \A k \in 1 .. m : k = 1 \/ (k - 1 \in 1 .. m - 1 /\ rest[k - 1] = old.found[k])
        <3> SUFFICES ASSUME NEW k \in 1 .. m, k # 1 PROVE k - 1 \in 1 .. m - 1 /\ rest[k - 1] = old.found[k]
            OBVIOUS
        <3>1. k - 1 \in 1 .. m - 1 /\ (k - 1) + 1 = k
            BY <2>1
        <3>2. rest[k - 1] = old.found[(k - 1) + 1]
            BY <2>1, <3>1
        <3> QED BY <3>1, <3>2
    <2>4. 1 \in 1 .. m /\ \A k \in 1 .. m - 1 : k \in Nat \ {0} /\ k + 1 \in 1 .. m
        BY <2>1
    <2>5. \A k \in DOMAIN rest : k \in Nat \ {0} /\ k + 1 \in DOMAIN old.found /\ rest[k] = old.found[k + 1]
        BY <2>1, <2>2, <2>4
    <2>6. \A k \in DOMAIN old.found : k = 1 \/ (k - 1 \in DOMAIN rest /\ rest[k - 1] = old.found[k])
        BY <2>2, <2>3
    <2> QED BY <2>1, <2>2, <2>4, <2>5, <2>6
<1>2. run.pc = (IF rest = <<>> THEN "ack" ELSE "regressions") /\ run.found = rest
    OBVIOUS
<1> HIDE DEF first, rest
<1>3. Reads(run, saved) /\ TellsLast(run, saved, told)
    BY <1>2 DEF Reads, TellsLast
<1>4. \A k, l \in DOMAIN old.found : old.found[k].rule = "not_found" /\ old.found[l].rule = "not_found" => k = l
    BY DEF ToldBy, FindsOneNotFound
<1>5. FindsOneNotFound(run)
    <2> SUFFICES ASSUME NEW k \in DOMAIN rest, NEW l \in DOMAIN rest, rest[k].rule = "not_found", rest[l].rule = "not_found"
                 PROVE  k = l
        BY <1>2 DEF FindsOneNotFound
    <2>1. k + 1 = l + 1
        BY <1>1, <1>4
    <2> QED BY <1>1, <2>1
<1>6. NotFoundsCounted(run, saved, told, reported \cup {first})
    <2> DEFINE N == NotFounds(reported)
               G == Cardinality(GoneSteps(saved))
    <2>1. /\ IsFiniteSet(N) /\ Cardinality(N) <= G
          /\ OwesNotFound(old, told) => Cardinality(N) + 1 <= G
        BY DEF ToldBy, NotFoundsCounted
    <2>2. Cardinality(N) \in Nat
        BY <2>1, FS_CardinalityType
    <2>3. NotFounds(reported \cup {first}) = IF first.rule = "not_found" THEN N \cup {first} ELSE N
        BY DEF NotFounds
    <2>4. OwesNotFound(run, told) => \E k \in DOMAIN rest : rest[k].rule = "not_found"
        BY <1>2 DEF OwesNotFound, Awaits
    <2> HIDE DEF N, G
    <2>5. CASE first.rule = "not_found"
        <3>1. OwesNotFound(old, told)
            BY <1>1, <2>5 DEF OwesNotFound
        <3>2. ~OwesNotFound(run, told)
            <4>1. ASSUME NEW k \in DOMAIN rest, rest[k].rule = "not_found" PROVE FALSE
                <5>1. k + 1 = 1
                    BY <1>1, <1>4, <2>5, <4>1
                <5> QED BY <1>1, <5>1
            <4> QED BY <2>4, <4>1
        <3>3. /\ IsFiniteSet(N \cup {first})
              /\ Cardinality(N \cup {first}) = Cardinality(N) \/ Cardinality(N \cup {first}) = Cardinality(N) + 1
            BY <2>1, FS_AddElement
        <3> QED BY <2>1, <2>2, <2>3, <2>5, <3>1, <3>2, <3>3 DEF NotFoundsCounted, G
    <2>6. CASE first.rule # "not_found"
        <3>1. OwesNotFound(run, told) => OwesNotFound(old, told)
            BY <1>1, <2>4 DEF OwesNotFound
        <3> QED BY <2>1, <2>3, <2>6, <3>1 DEF NotFoundsCounted, G
    <2> QED BY <2>5, <2>6
<1>7. NothingLost => TimelineOwed(run, saved, told)
    BY <1>2 DEF ToldBy, TimelineOwed
<1>8. NothingLost => LossesOwed(run, saved, told, reported \cup {first})
    <2> SUFFICES ASSUME NothingLost, NEW i \in 1 .. Len(saved) - 1, Lost(saved[i].fields, saved[i + 1].fields)
                 PROVE  \/ \E r \in reported \cup {first} : ReportsLoss(r, i, saved, told)
                        \/ i = Len(saved) - 1 /\ OwesLoss(run, saved, told)
        BY DEF LossesOwed
    <2>1. \/ \E r \in reported : ReportsLoss(r, i, saved, told)
          \/ i = Len(saved) - 1 /\ OwesLoss(old, saved, told)
        BY DEF ToldBy, LossesOwed
    <2>2. ASSUME i = Len(saved) - 1, NEW k \in DOMAIN old.found, ReportsLoss(old.found[k], Len(saved) - 1, saved, told)
          PROVE  ReportsLoss(first, i, saved, told) \/ OwesLoss(run, saved, told)
        <3>1. CASE k = 1
            BY <1>1, <2>2, <3>1
        <3>2. CASE k # 1
            <4>1. k - 1 \in DOMAIN rest /\ rest[k - 1] = old.found[k]
                BY <1>1, <3>2
            <4>2. rest # <<>>
                BY <4>1
            <4> QED BY <1>2, <2>2, <4>1, <4>2 DEF OwesLoss
        <3> QED BY <3>1, <3>2
    <2>3. OwesLoss(old, saved, told) => \E k \in DOMAIN old.found : ReportsLoss(old.found[k], Len(saved) - 1, saved, told)
        BY DEF OwesLoss, Awaits
    <2> QED BY <2>1, <2>2, <2>3
<1>9. FirstIsBaseline(saved)
    BY DEF ToldBy
<1> QED BY <1>3, <1>5, <1>6, <1>7, <1>8, <1>9 DEF ToldBy, first

LEMMA BusyTold ==
    ASSUME Told, NEW s \in Slots, runs[s].pc # "idle"
    PROVE  /\ ToldBy(runs[s], snapshots, events, regressions)
           /\ \A q \in Slots : q # s => runs[q].pc = "idle"
BY DEF Told, AtWork, Quiet

LEMMA ToldMoves ==
    ASSUME RecordTypes, NEW s \in Slots, NEW run \in Run, RunBecomes(s, run), setting' = setting,
           \A q \in Slots : q # s => runs[q].pc = "idle",
           ToldBy(run, snapshots', events', regressions')
    PROVE  Told'
<1>1. \A q \in Slots : runs'[q] = IF q = s THEN run ELSE runs[q]
    BY RunMoves
<1>2. AtWork(run)'
    BY <1>1 DEF AtWork
<1>3. ToldBy(run, snapshots, events, regressions)'
    BY DEF ToldBy, NothingLost, OneAtATime
<1> QED BY <1>2, <1>3 DEF Told

(* Only one slot works. *)
LEMMA TakeTold ==
    ASSUME RecordInv, OneAtATime, Told, NEW s \in Slots, NEW j \in JobIds, TakeJob(s, j)
    PROVE  Told'
<1> DEFINE run == [IdleRun EXCEPT !.pc = "crawl", !.job = j, !.holds = TRUE, !.previous = Latest]
           busy == {t \in Slots : runs[t].pc # "idle"}
<1>1. PICK old \in Run : AtWork(old) /\ ToldBy(old, snapshots, events, regressions)
    BY DEF Told
<1>2. busy = {}
    <2>1. Cardinality(busy) < 1
        BY DEF TakeJob, OneAtATime
    <2>2. ASSUME NEW t \in busy PROVE FALSE
        <3>1. busy = {t}
            BY <2>2, BusyTold
        <3>2. Cardinality(busy) = 1
            BY <3>1, FS_Singleton
        <3> QED BY <2>1, <3>2
    <2> QED BY <2>2
<1>3. old.pc = "idle" /\ \A q \in Slots : runs[q].pc = "idle"
    BY <1>1, <1>2, RunType DEF AtWork
<1>4. RunBecomes(s, run) /\ UNCHANGED <<setting, snapshots, events, regressions>>
    BY DEF TakeJob, RunBecomes, outside, rows
<1>5. Latest \in Seq(Versions)
    <2>1. snapshots \in Seq(Row)
        BY DEF RecordInv, RecordTypes, Row
    <2>2. CASE snapshots = <<>>
        BY <2>2 DEF Latest
    <2>3. CASE snapshots # <<>>
        <3>1. Len(snapshots) \in 1 .. Len(snapshots)
            BY <2>1, <2>3, EmptySeq
        <3>2. snapshots[Len(snapshots)] \in Row
            BY <2>1, <3>1, ElementOfSeq
        <3> QED BY <2>3, <3>2 DEF Latest, Row
    <2> QED BY <2>2, <2>3
<1>6. Latest = IF snapshots = <<>> THEN <<>> ELSE <<snapshots[Len(snapshots)].fields>>
    BY DEF Latest
<1> HIDE DEF Latest
<1>7. run \in Run /\ run.pc = "crawl" /\ run.previous = Latest /\ run.ids = <<>>
    BY <1>5, RunType DEF Run
<1> HIDE DEF run
<1>8. ToldBy(run, snapshots, events, regressions)
    BY <1>1, <1>3, <1>6, <1>7 DEF ToldBy, Reads, TellsLast, FindsOneNotFound, NotFoundsCounted, TimelineOwed,
       LossesOwed, OwesLoss, OwesNotFound, Awaits
<1> QED BY <1>3, <1>4, <1>7, <1>8, ToldMoves DEF RecordInv

LEMMA CrawlTold ==
    ASSUME RecordInv, Told, NEW s \in Slots, Crawl(s)
    PROVE  Told'
<1> DEFINE old == runs[s]
           run == [old EXCEPT !.pc = "snapshot", !.fields = page]
<1>1. old \in Run /\ page \in Versions /\ old.pc = "crawl"
    BY DEF RecordInv, RecordTypes, Crawl
<1>2. /\ ToldBy(old, snapshots, events, regressions)
      /\ \A q \in Slots : q # s => runs[q].pc = "idle"
    BY <1>1, BusyTold
<1>3. RunBecomes(s, run) /\ UNCHANGED <<setting, snapshots, events, regressions>>
    BY DEF Crawl, RunBecomes, outside, rows
<1> HIDE DEF old
<1>4. run \in Run /\ run.pc = "snapshot" /\ run.previous = old.previous /\ run.ids = old.ids
    BY <1>1 DEF Run
<1> HIDE DEF run
<1>5. ToldBy(run, snapshots, events, regressions)
    BY <1>1, <1>2, <1>4 DEF ToldBy, Reads, TellsLast, FindsOneNotFound, NotFoundsCounted, TimelineOwed,
       LossesOwed, OwesLoss, OwesNotFound, Awaits
<1> QED BY <1>2, <1>3, <1>4, <1>5, ToldMoves DEF RecordInv

LEMMA SettleTold ==
    ASSUME RecordInv, Told, NEW s \in Slots,
           CrawlFails(s) \/ CompleteJob(s) \/ JobFails(s) \/ WorkerCrash(s)
    PROVE  Told'
<1>1. runs[s].pc # "idle" /\ RunBecomes(s, IdleRun) /\ UNCHANGED <<setting, snapshots, events, regressions>>
    BY DEF CrawlFails, CompleteJob, JobFails, WorkerCrash, Settle, RunBecomes, outside, rows
<1>2. /\ ToldBy(runs[s], snapshots, events, regressions)
      /\ \A q \in Slots : q # s => runs[q].pc = "idle"
    BY <1>1, BusyTold
<1>3. runs[s].pc = "ack" \/ (NothingLost => runs[s].pc = "crawl")
    <2>1. JobFails(s) \/ WorkerCrash(s) => ~NothingLost
        BY DEF JobFails, WorkerCrash, NothingLost
    <2> QED BY <2>1 DEF CrawlFails, CompleteJob
<1>4. ToldBy(IdleRun, snapshots, events, regressions)
    BY <1>2, <1>3, RunType, IdleOwesNothing
<1> QED BY <1>1, <1>2, <1>4, RunType, ToldMoves DEF RecordInv

LEMMA SaveSnapshotTold ==
    ASSUME RecordInv, Told, NEW s \in Slots, SaveSnapshot(s)
    PROVE  Told'
<1> DEFINE old == runs[s]
           found == IF old.previous = <<>> THEN <<>> ELSE Diff(old.previous[1], old.fields)
           row == [fields |-> old.fields, isBaseline |-> old.previous = <<>>, at |-> clock]
           run == [old EXCEPT !.pc = IF found = <<>> THEN "ack" ELSE "events", !.todo = found]
<1>1. /\ old \in Run /\ Honest(old, snapshots, events) /\ old.pc = "snapshot"
      /\ snapshots \in Seq(Row) /\ events \in Seq(DetectedEvent) /\ clock \in Nat
    BY DEF RecordInv, RecordTypes, RunsHonest, SaveSnapshot, Row
<1>2. /\ ToldBy(old, snapshots, events, regressions)
      /\ \A q \in Slots : q # s => runs[q].pc = "idle"
    BY <1>1, BusyTold
<1>3. /\ snapshots' = Append(snapshots, row) /\ RunBecomes(s, run)
      /\ UNCHANGED <<setting, events, regressions>>
    BY DEF SaveSnapshot, RunBecomes, outside
<1> HIDE DEF old
<1>4. row \in Row /\ row.fields = old.fields /\ (row.isBaseline <=> old.previous = <<>>)
    BY <1>1, RunType DEF Row
<1> HIDE DEF row
<1>5. found \in Seq(DetectedEvent)
    <2>1. CASE old.previous = <<>>
        <3>1. found = <<>> /\ <<>> \in Seq(DetectedEvent)
            BY <2>1
        <3> QED BY <3>1
    <2>2. CASE old.previous # <<>>
        <3>1. old.previous \in Seq(Versions) /\ 1 \in 1 .. Len(old.previous)
            BY <1>1, <2>2, RunType, EmptySeq
        <3>2. old.previous[1] \in SnapshotFields /\ old.fields \in SnapshotFields
            BY <1>1, <3>1, ElementOfSeq, RunType, MonitoringAssumption
        <3>3. Diff(old.previous[1], old.fields) \in Seq(Compares(old.previous[1], old.fields))
            BY <3>2, DiffCompares
        <3>4. Compares(old.previous[1], old.fields) \subseteq DetectedEvent
            BY DEF Compares
        <3>5. Diff(old.previous[1], old.fields) \in Seq(DetectedEvent)
            BY <3>3, <3>4, SeqMonotonic
        <3> QED BY <2>2, <3>5
    <2> QED BY <2>1, <2>2
<1>6. found = IF old.previous = <<>> THEN <<>> ELSE Diff(old.previous[1], old.fields)
    OBVIOUS
<1> HIDE DEF found
<1>7. /\ run \in Run /\ run.pc = (IF found = <<>> THEN "ack" ELSE "events") /\ run.todo = found
      /\ run.ids = old.ids
    BY <1>1, <1>5 DEF Run
<1> HIDE DEF run
<1>8. ToldBy(run, Append(snapshots, row), events, regressions)
    BY <1>1, <1>2, <1>4, <1>6, <1>7, SnapshotTold
<1> QED BY <1>2, <1>3, <1>7, <1>8, ToldMoves DEF RecordInv

LEMMA SaveEventTold ==
    ASSUME RecordInv, Told, NEW s \in Slots, SaveEvent(s)
    PROVE  Told'
<1> DEFINE old == runs[s]
           rest == Tail(old.todo)
           ids == Append(old.ids, Len(events) + 1)
           run == [old EXCEPT !.pc = IF rest = <<>> THEN "detect" ELSE "events", !.todo = rest, !.ids = ids]
<1>1. /\ old \in Run /\ Honest(old, snapshots, events) /\ old.pc = "events" /\ old.todo # <<>>
      /\ events \in Seq(DetectedEvent)
    BY DEF RecordInv, RecordTypes, RunsHonest, Honest, SaveEvent
<1>2. /\ ToldBy(old, snapshots, events, regressions)
      /\ \A q \in Slots : q # s => runs[q].pc = "idle"
    BY <1>1, BusyTold
<1>3. /\ events' = Append(events, Head(old.todo)) /\ RunBecomes(s, run)
      /\ UNCHANGED <<setting, snapshots, regressions>>
    BY DEF SaveEvent, RunBecomes, outside
<1>4. /\ \A k \in DOMAIN old.ids : old.ids[k] \in DOMAIN events
      /\ \A r \in regressions : r.events \subseteq DOMAIN events
    BY <1>1 DEF Honest, RecordInv, RegressionEvidence
<1> HIDE DEF old
<1>5. rest \in Seq(DetectedEvent) /\ ids \in Seq(Nat)
    <2>1. old.todo \in Seq(DetectedEvent) /\ old.ids \in Seq(Nat) /\ Len(events) + 1 \in Nat
        BY <1>1, RunType, LenProperties
    <2> QED BY <1>1, <2>1, HeadTailProperties, AppendProperties
<1>6. rest = Tail(old.todo) /\ ids = Append(old.ids, Len(events) + 1)
    OBVIOUS
<1> HIDE DEF rest, ids
<1>7. /\ run \in Run /\ run.pc = (IF rest = <<>> THEN "detect" ELSE "events") /\ run.todo = rest
      /\ run.ids = ids
    BY <1>1, <1>5 DEF Run
<1> HIDE DEF run
<1>8. ToldBy(run, snapshots, Append(events, Head(old.todo)), regressions)
    BY <1>1, <1>2, <1>4, <1>6, <1>7, EventTold
<1> QED BY <1>2, <1>3, <1>7, <1>8, ToldMoves DEF RecordInv

LEMMA DetectRegressionsTold ==
    ASSUME RecordInv, RecordInv', Told, NEW s \in Slots, DetectRegressions(s)
    PROVE  Told'
<1> DEFINE old == runs[s]
           own == [k \in DOMAIN old.ids |-> events[old.ids[k]]]
<1>1. /\ old \in Run /\ Honest(old, snapshots, events) /\ old.pc = "detect"
      /\ snapshots \in Seq(Row) /\ events \in Seq(DetectedEvent)
    BY DEF RecordInv, RecordTypes, RunsHonest, DetectRegressions, Row
<1>2. /\ ToldBy(old, snapshots, events, regressions)
      /\ \A q \in Slots : q # s => runs[q].pc = "idle"
    BY <1>1, BusyTold
<1>3. PICK signal \in setting.signals :
          LET found == Detect(own, signal[1], signal[2])
              cited == [k \in DOMAIN found |-> [found[k] EXCEPT !.events = {old.ids[n] : n \in @}]]
          IN  runs' = [runs EXCEPT ![s].pc = IF found = <<>> THEN "ack" ELSE "regressions", ![s].found = cited]
    BY DEF DetectRegressions
<1>4. signal \in Traffic \X BOOLEAN
    BY MonitoringAssumption DEF RecordInv, RecordTypes, Setting
<1> DEFINE found == Detect(own, signal[1], signal[2])
           cited == [k \in DOMAIN found |-> [found[k] EXCEPT !.events = {old.ids[n] : n \in @}]]
           run == [old EXCEPT !.pc = IF found = <<>> THEN "ack" ELSE "regressions", !.found = cited]
<1>5. RunBecomes(s, run) /\ UNCHANGED <<setting, snapshots, events, regressions>>
    <2>1. RunBecomes(s, run)
        BY ONLY <1>3 DEF RunBecomes
    <2>2. UNCHANGED <<setting, snapshots, events, regressions>>
        BY DEF DetectRegressions, outside, rows
    <2> QED BY <2>1, <2>2
<1>6. \A k \in DOMAIN old.ids : old.ids[k] \in DOMAIN events
    BY <1>1 DEF Honest
<1>7. own \in Seq(DetectedEvent)
    <2>1. old.ids \in Seq(Nat)
        BY <1>1, RunType
    <2>2. DOMAIN old.ids = 1 .. Len(old.ids) /\ Len(old.ids) \in Nat
        BY <2>1, LenProperties
    <2>3. \A k \in 1 .. Len(old.ids) : events[old.ids[k]] \in DetectedEvent
        BY <1>1, <1>6, <2>2, LenProperties, ElementOfSeq
    <2> QED BY <2>2, <2>3
<1>8. \A k \in DOMAIN found : found[k] \in Founded(own)
    <2>1. found \in Seq(Founded(own))
        BY <1>4, <1>7, DetectFounded
    <2> HIDE DEF found, own
    <2> QED BY <2>1, LenProperties, ElementOfSeq
<1>9. /\ found = Detect(own, signal[1], signal[2]) /\ signal[1] \in Traffic /\ signal[2] \in BOOLEAN
      /\ DOMAIN own = DOMAIN old.ids /\ \A k \in DOMAIN own : own[k] = events[old.ids[k]]
    BY <1>4
<1>10. run \in Run
    <2>1. runs' \in [Slots -> Run]
        BY DEF RecordInv, RecordTypes
    <2>2. runs'[s] = run
        BY <1>5 DEF RunBecomes, RecordInv, RecordTypes
    <2> HIDE DEF run
    <2> QED BY <2>1, <2>2
<1> HIDE DEF own, found
<1>11. DOMAIN cited = DOMAIN found
    OBVIOUS
<1>12. \A k \in DOMAIN found : /\ cited[k].rule = found[k].rule /\ cited[k].severity = found[k].severity
                               /\ cited[k].events = {old.ids[n] : n \in found[k].events}
    BY <1>8 DEF Founded
<1> HIDE DEF cited
<1>13. run.pc = (IF found = <<>> THEN "ack" ELSE "regressions") /\ run.found = cited
    BY <1>1 DEF Run
<1> HIDE DEF run, old
<1>14. ToldBy(run, snapshots, events, regressions)
    <2> DEFINE traffic == signal[1]
               wp == signal[2]
    <2>1. traffic \in Traffic /\ wp \in BOOLEAN /\ found = Detect(own, traffic, wp)
        BY <1>9
    <2>2. \A k \in DOMAIN found : /\ cited[k].rule = found[k].rule /\ cited[k].severity = found[k].severity
                                  /\ \A n \in found[k].events : old.ids[n] \in cited[k].events
        BY <1>12
    <2> HIDE DEF traffic, wp
    <2>3. Detected(old, run, events, own, traffic, wp, found, cited)
        BY <1>7, <1>9, <1>11, <1>13, <2>1, <2>2 DEF Detected
    <2> QED BY <1>1, <1>2, <1>10, <2>3, DetectTold
<1> QED BY <1>2, <1>5, <1>10, <1>14, ToldMoves DEF RecordInv

LEMMA SaveRegressionTold ==
    ASSUME RecordInv, Told, NEW s \in Slots, SaveRegression(s)
    PROVE  Told'
<1> DEFINE old == runs[s]
           rest == Tail(old.found)
           run == [old EXCEPT !.pc = IF rest = <<>> THEN "ack" ELSE "regressions", !.found = rest]
<1>1. old \in Run /\ Honest(old, snapshots, events) /\ old.pc = "regressions" /\ old.found # <<>>
    BY DEF RecordInv, RecordTypes, RunsHonest, Honest, SaveRegression
<1>2. /\ ToldBy(old, snapshots, events, regressions)
      /\ \A q \in Slots : q # s => runs[q].pc = "idle"
    BY <1>1, BusyTold
<1>3. /\ regressions' = regressions \cup {Head(old.found)} /\ RunBecomes(s, run)
      /\ UNCHANGED <<setting, snapshots, events>>
    BY DEF SaveRegression, RunBecomes, outside
<1> HIDE DEF old
<1>4. rest \in Seq(Found) /\ rest = Tail(old.found)
    BY <1>1, RunType, HeadTailProperties
<1> HIDE DEF rest
<1>5. /\ run \in Run /\ run.pc = (IF rest = <<>> THEN "ack" ELSE "regressions") /\ run.found = rest
    BY <1>1, <1>4 DEF Run
<1> HIDE DEF run
<1>6. ToldBy(run, snapshots, events, regressions \cup {Head(old.found)})
    BY <1>1, <1>2, <1>4, <1>5, RegressionTold
<1> QED BY <1>2, <1>3, <1>5, <1>6, ToldMoves DEF RecordInv

TellInv == RecordInv /\ (OneAtATime => Told)

LEMMA TellInit == ASSUME Init PROVE TellInv
<1>1. RecordInv
    BY RecordInit
<1>2. /\ snapshots = <<>> /\ events = <<>> /\ regressions = {}
      /\ \A s \in Slots : runs[s] = IdleRun
    BY DEF Init
<1>3. AtWork(IdleRun)
    BY <1>2, RunType DEF AtWork, Quiet
<1>4. DOMAIN <<>> = {} /\ Len(<<>>) = 0
    OBVIOUS
<1>5. FirstIsBaseline(<<>>)
    BY <1>4 DEF FirstIsBaseline
<1>6. NotFounds({}) = {} /\ GoneSteps(<<>>) = {}
    <2>1. 1 .. 0 - 1 = {}
        OBVIOUS
    <2> QED BY <1>4, <2>1 DEF NotFounds, GoneSteps
<1>7. ~OwesNotFound(IdleRun, <<>>)
    BY RunType DEF OwesNotFound, Awaits
<1>8. NotFoundsCounted(IdleRun, <<>>, <<>>, {})
    <2>1. IsFiniteSet({}) /\ Cardinality({}) = 0
        BY FS_EmptySet
    <2> QED BY <1>6, <1>7, <2>1 DEF NotFoundsCounted
<1>9. Differences(<<>>) = <<>>
    <2>1. Row # {}
        <3>1. [fields |-> CHOOSE v \in Versions : TRUE, isBaseline |-> TRUE, at |-> 0] \in Row
            BY MonitoringAssumption DEF Row
        <3> QED BY <3>1
    <2>2. <<>> \in Seq(Row)
        OBVIOUS
    <2> QED BY <2>1, <2>2, DifferencesGrow
<1>10. TimelineOwed(IdleRun, <<>>, <<>>)
    BY <1>9, RunType DEF TimelineOwed
<1>11. LossesOwed(IdleRun, <<>>, <<>>, {})
    <2>1. 1 .. 0 - 1 = {}
        OBVIOUS
    <2> QED BY <1>4, <2>1 DEF LossesOwed
<1>12. Reads(IdleRun, <<>>) /\ TellsLast(IdleRun, <<>>, <<>>) /\ FindsOneNotFound(IdleRun)
    BY RunType DEF Reads, TellsLast, FindsOneNotFound
<1>13. ToldBy(IdleRun, <<>>, <<>>, {})
    BY <1>5, <1>8, <1>10, <1>11, <1>12 DEF ToldBy
<1> QED BY <1>1, <1>2, <1>3, <1>13, RunType DEF TellInv, Told

LEMMA TellStep == ASSUME TellInv, [Next]_vars PROVE TellInv'
<1>1. RecordInv /\ RecordInv'
    BY RecordStep DEF TellInv
<1>2. setting' = setting
    <2>1. CASE UNCHANGED vars \/ Rescan \/ SetActive \/ ScheduleScan \/ Tick \/ PageChanges
        BY ONLY <2>1 DEF vars, Rescan, SetActive, ScheduleScan, Tick, PageChanges
    <2>2. ASSUME NEW s \in Slots, SlotStep(s) PROVE setting' = setting
        <3>1. ASSUME NEW j \in JobIds, RejectJob(s, j) \/ TakeJob(s, j) PROVE setting' = setting
            BY ONLY <3>1 DEF RejectJob, TakeJob, outside
        <3>2. CASE \/ Crawl(s) \/ CrawlFails(s) \/ SaveSnapshot(s) \/ SaveEvent(s) \/ DetectRegressions(s)
                   \/ SaveRegression(s) \/ CompleteJob(s) \/ JobFails(s) \/ WorkerCrash(s) \/ LoseLock(s)
            BY ONLY <3>2 DEF Crawl, CrawlFails, SaveSnapshot, SaveEvent, DetectRegressions, SaveRegression,
               CompleteJob, JobFails, WorkerCrash, LoseLock, outside
        <3> QED BY <2>2, <3>1, <3>2 DEF SlotStep
    <2> QED BY <2>1, <2>2 DEF Next
<1>3. SUFFICES ASSUME OneAtATime PROVE Told'
    BY <1>1, <1>2 DEF TellInv, OneAtATime
<1>4. Told
    BY <1>3 DEF TellInv
<1>5. ASSUME UNCHANGED <<setting, snapshots, events, regressions, runs>> PROVE Told'
    BY <1>4, <1>5 DEF Told, AtWork, Quiet, ToldBy, NothingLost, OneAtATime
<1>6. CASE UNCHANGED vars
    BY <1>5, <1>6 DEF vars
<1>7. CASE Rescan \/ SetActive \/ ScheduleScan \/ Tick \/ PageChanges
    BY <1>5, <1>7 DEF Rescan, SetActive, ScheduleScan, Tick, PageChanges, rows
<1>8. ASSUME NEW s \in Slots, SlotStep(s) PROVE Told'
    <2>1. ASSUME NEW j \in JobIds, RejectJob(s, j) PROVE Told'
        BY <1>5, <2>1 DEF RejectJob, outside, rows
    <2>2. ASSUME NEW j \in JobIds, TakeJob(s, j) PROVE Told'
        BY <1>1, <1>3, <1>4, <2>2, TakeTold
    <2>3. CASE Crawl(s) \/ SaveSnapshot(s) \/ SaveEvent(s) \/ DetectRegressions(s) \/ SaveRegression(s)
        BY <1>1, <1>4, <2>3, CrawlTold, SaveSnapshotTold, SaveEventTold, DetectRegressionsTold, SaveRegressionTold
    <2>4. CASE CrawlFails(s) \/ CompleteJob(s) \/ JobFails(s) \/ WorkerCrash(s)
        BY <1>1, <1>4, <2>4, SettleTold
    <2>5. CASE LoseLock(s)
        BY <1>3, <2>5 DEF LoseLock, OneAtATime
    <2> QED BY <1>8, <2>1, <2>2, <2>3, <2>4, <2>5 DEF SlotStep
<1> QED BY <1>6, <1>7, <1>8 DEF Next

LEMMA TellInvTells == ASSUME TellInv PROVE ChangesAreTold
<1>1. NothingLost => OneAtATime
    BY DEF NothingLost
<1>2. CASE ~OneAtATime
    BY <1>1, <1>2 DEF ChangesAreTold, TimelineComplete, OneBaseline, RegressionsMatchChanges, LossRaisesRegression,
       RegressionPerChange
<1>3. CASE OneAtATime
    <2>1. PICK run \in Run : AtWork(run) /\ ToldBy(run, snapshots, events, regressions)
        BY <1>3 DEF TellInv, Told
    <2>2. Quiet => run.pc = "idle"
        BY <2>1, RunType DEF AtWork, Quiet
    <2>3. OneBaseline
        BY <2>1 DEF OneBaseline, ToldBy, FirstIsBaseline
    <2>4. NothingLost => EveryCrawlIsDiffed
        BY <2>1, <2>2 DEF EveryCrawlIsDiffed, ToldBy, TimelineOwed
    <2>5. RegressionPerChange
        <3>1. GoneSteps(snapshots) = {i \in Steps : Adjacent(i)[1].httpStatus < 400 /\ Adjacent(i)[2].httpStatus = 404}
            BY DEF GoneSteps, Steps, Adjacent
        <3> QED BY <2>1, <3>1 DEF RegressionPerChange, ToldBy, NotFoundsCounted, NotFounds
    <2>6. LossRaisesRegression
        <3> SUFFICES ASSUME NothingLost, Quiet, NEW i \in Steps, Lost(Adjacent(i)[1], Adjacent(i)[2])
                     PROVE  \E r \in regressions :
                                /\ r.severity = "CRITICAL" /\ r.rule \in {"noindex", "not_found"}
                                /\ \E k \in r.events : <<events[k].from, events[k].to>> = Adjacent(i)
            BY DEF LossRaisesRegression
        <3>1. ~OwesLoss(run, snapshots, events)
            BY <2>2 DEF OwesLoss, Awaits
        <3>2. i \in 1 .. Len(snapshots) - 1 /\ Lost(snapshots[i].fields, snapshots[i + 1].fields)
            BY DEF Steps, Adjacent
        <3>3. PICK r \in regressions : ReportsLoss(r, i, snapshots, events)
            BY <2>1, <3>1, <3>2 DEF ToldBy, LossesOwed
        <3> QED BY <3>3 DEF ReportsLoss, Adjacent
    <2> QED BY <2>3, <2>4, <2>5, <2>6 DEF ChangesAreTold, TimelineComplete, RegressionsMatchChanges
<1> QED BY <1>2, <1>3

(***************************************************************************)
(* While one slot works at a time and nothing fails after a snapshot was   *)
(* saved, the timeline is the differences of all consecutive snapshots in  *)
(* order, every loss to search between two of them has its critical        *)
(* regression, and even if scans die and are repeated a page that went     *)
(* away is reported once and only the first snapshot is a baseline         *)
(* (createMonitoringCreateSnapshotHandler, diffSnapshots,                  *)
(* detectRegressions).                                                     *)
(***************************************************************************)
THEOREM ChangesTold == Spec => []ChangesAreTold
<1>1. Init => TellInv
    BY TellInit
<1>2. TellInv /\ [Next]_vars => TellInv'
    BY TellStep
<1>3. TellInv => ChangesAreTold
    BY TellInvTells
<1> QED BY <1>1, <1>2, <1>3, PTL DEF Spec

-----------------------------------------------------------------------------
(* The types *)

LEMMA DividedAlike ==
    ASSUME NEW a \in Nat, NEW b \in Nat, a <= b, NEW n \in Nat \ {0}
    PROVE  a \div n \in Nat /\ b \div n \in Nat /\ a \div n <= b \div n
<1> DEFINE p == a \div n
           q == b \div n
<1>1. /\ p \in Nat /\ q \in Nat /\ p * n <= a /\ b < (q + 1) * n
    OBVIOUS
<1> HIDE DEF p, q
<1>2. ASSUME q + 1 <= p PROVE FALSE
    <2>1. PICK d \in Nat : p = (q + 1) + d
        <3>1. p - (q + 1) \in Nat /\ p = (q + 1) + (p - (q + 1))
            BY <1>1, <1>2
        <3> QED BY <3>1
    <2>2. p * n = (q + 1) * n + d * n /\ d * n >= 0 /\ (q + 1) * n \in Nat
        BY <1>1, <2>1
    <2> QED BY <1>1, <2>2
<1>3. p <= q
    BY <1>1, <1>2
<1> QED BY <1>1, <1>3 DEF p, q

LEMMA JobMoves ==
    ASSUME NEW job \in Job
    PROVE  /\ Add(job) \in Job /\ Take(job) \in Job /\ Finish(job) \in Job
           /\ Throw(job) \in Job /\ Stall(job) \in Job
<1>1. /\ job.state \in JobStates /\ job.attempts \in 0 .. Attempts /\ job.stalls \in 0 .. MaxStalls
      /\ Attempts \in Nat /\ MaxStalls \in Nat
    BY QueueAssumption DEF Job
<1>2. ASSUME NEW state \in JobStates PROVE [job EXCEPT !.state = state] \in Job
    BY DEF Job
<1>3. Add(job) \in Job /\ Take(job) \in Job /\ Finish(job) \in Job
    BY <1>1, <1>2 DEF Add, Take, Finish, Job, JobStates, NoJob
<1>4. Throw(job) \in Job
    <2>1. CASE job.attempts + 1 < Attempts
        <3>1. job.attempts + 1 \in 0 .. Attempts
            BY <1>1, <2>1
        <3> QED BY <2>1, <3>1 DEF Throw, Job, JobStates
    <2>2. CASE ~ (job.attempts + 1 < Attempts)
        <3>1. Attempts \in 0 .. Attempts
            BY <1>1
        <3> QED BY <2>2, <3>1 DEF Throw, Job, JobStates
    <2> QED BY <2>1, <2>2
<1>5. Stall(job) \in Job
    <2>1. CASE job.stalls < MaxStalls
        <3>1. job.stalls + 1 \in 0 .. MaxStalls
            BY <1>1, <2>1
        <3> QED BY <2>1, <3>1 DEF Stall, Job, JobStates
    <2>2. CASE ~ (job.stalls < MaxStalls)
        BY <2>2 DEF Stall, Job, JobStates
    <2> QED BY <2>1, <2>2
<1> QED BY <1>3, <1>4, <1>5

LEMMA JobsMove ==
    ASSUME jobs \in [JobIds -> Job], NEW j \in JobIds, NEW job \in Job, jobs' = [jobs EXCEPT ![j] = job]
    PROVE  jobs' \in [JobIds -> Job]
OBVIOUS

LEMMA SettleJobs ==
    ASSUME TypeOK, NEW s \in Slots, NEW outcome \in Job, Settle(s, outcome)
    PROVE  jobs' \in [JobIds -> Job]
<1>1. runs[s].job \in JobIds
    BY RunType DEF TypeOK
<1> QED BY <1>1, JobsMove DEF Settle, TypeOK

LEMMA TypeStep == ASSUME RecordInv, TypeOK, [Next]_vars PROVE TypeOK'
<1> USE DEF outside, rows
<1>1. setting' \in Settings /\ page' \in Versions /\ events' \in Seq(DetectedEvent) /\ runs' \in [Slots -> Run]
    BY RecordStep DEF RecordInv, RecordTypes
<1>2. /\ setting.clock \in 0 .. MaxClock /\ setting.rescans \in 0 .. MaxRescans
      /\ MaxClock \in Nat /\ MaxRescans \in Nat /\ Interval \in Nat \ {0}
    BY MonitoringAssumption DEF TypeOK, Setting
<1>3. clock \in Nat /\ clock <= MaxClock
    BY <1>2 DEF TypeOK
<1>4. Window \in Nat /\ Window <= MaxClock \div Interval /\ MaxClock \div Interval \in Nat
    BY <1>2, <1>3, DividedAlike DEF Window
<1>5. ASSUME NEW j \in JobIds PROVE jobs[j] \in Job
    BY DEF TypeOK
<1> DEFINE Rest == /\ active' \in BOOLEAN /\ clock' \in 0 .. MaxClock
                   /\ lastTick' \in 0 .. 1 + MaxClock \div Interval
                   /\ snapshots' \in Seq(Snapshot) /\ regressions' \in SUBSET Found
                   /\ rescans' \in 0 .. MaxRescans /\ jobs' \in [JobIds -> Job]
<1>6. SUFFICES Rest
    BY <1>1 DEF TypeOK
<1>7. CASE UNCHANGED vars
    BY <1>7 DEF vars, TypeOK
<1>8. CASE Rescan
    <2>1. rescans + 1 \in 1 .. MaxRescans /\ rescans + 1 \in 0 .. MaxRescans
        BY <1>2, <1>8 DEF Rescan, TypeOK
    <2>2. <<"manual", rescans + 1>> \in JobIds
        BY <2>1 DEF JobIds
    <2>3. jobs' \in [JobIds -> Job]
        BY <1>5, <1>8, <2>2, JobMoves, JobsMove DEF Rescan, TypeOK
    <2> QED BY <1>8, <2>1, <2>3 DEF Rescan, TypeOK
<1>9. CASE SetActive \/ PageChanges
    BY <1>9 DEF SetActive, PageChanges, TypeOK
<1>10. CASE ScheduleScan
    <2>1. <<"scheduled", Window>> \in JobIds
        BY <1>4 DEF JobIds, Windows
    <2>2. jobs' \in [JobIds -> Job]
        BY <1>5, <1>10, <2>1, JobMoves, JobsMove DEF ScheduleScan, TypeOK
    <2>3. Window + 1 \in 0 .. 1 + MaxClock \div Interval
        BY <1>4
    <2> HIDE DEF Window
    <2> QED BY <1>10, <2>2, <2>3 DEF ScheduleScan, TypeOK
<1>11. CASE Tick
    BY <1>2, <1>3, <1>11 DEF Tick, TypeOK
<1>12. ASSUME NEW s \in Slots, SlotStep(s) PROVE Rest
    <2>1. runs[s] \in Run /\ runs[s].job \in JobIds /\ jobs[runs[s].job] \in Job
        BY <1>5, RunType DEF TypeOK
    <2>2. ASSUME NEW j \in JobIds, RejectJob(s, j) \/ TakeJob(s, j) PROVE Rest
        BY <1>5, <2>2, JobMoves, JobsMove DEF RejectJob, TakeJob, TypeOK
    <2>3. CASE Crawl(s) \/ SaveEvent(s) \/ DetectRegressions(s)
        BY <2>3 DEF Crawl, SaveEvent, DetectRegressions, TypeOK
    <2>4. CASE CrawlFails(s) \/ CompleteJob(s) \/ JobFails(s) \/ WorkerCrash(s)
        <3>1. jobs' \in [JobIds -> Job]
            BY <2>1, <2>4, JobMoves, SettleJobs DEF CrawlFails, CompleteJob, JobFails, WorkerCrash
        <3> QED BY <2>4, <3>1 DEF CrawlFails, CompleteJob, JobFails, WorkerCrash, TypeOK
    <2>5. CASE SaveSnapshot(s)
        <3> DEFINE row == [fields |-> runs[s].fields, isBaseline |-> runs[s].previous = <<>>, at |-> clock]
        <3>1. row \in Snapshot
            BY <2>1, RunType DEF TypeOK, Snapshot
        <3>2. snapshots' = Append(snapshots, row)
            BY <2>5 DEF SaveSnapshot
        <3> HIDE DEF row
        <3>3. snapshots' \in Seq(Snapshot)
            BY <3>1, <3>2, AppendProperties DEF TypeOK
        <3> QED BY <2>5, <3>3 DEF SaveSnapshot, TypeOK
    <2>6. CASE SaveRegression(s)
        <3>1. runs[s].found # <<>> /\ runs[s].found \in Seq(Found)
            BY <2>1, <2>6, RunType DEF RecordInv, RunsHonest, Honest, SaveRegression
        <3>2. Head(runs[s].found) \in Found
            BY <3>1, HeadTailProperties
        <3> QED BY <2>6, <3>2 DEF SaveRegression, TypeOK
    <2>7. CASE LoseLock(s)
        BY <2>1, <2>7, JobMoves, JobsMove DEF LoseLock, TypeOK
    <2> QED BY <1>12, <2>2, <2>3, <2>4, <2>5, <2>6, <2>7 DEF SlotStep
<1> QED BY <1>7, <1>8, <1>9, <1>10, <1>11, <1>12 DEF Next

LEMMA TypeInit == ASSUME Init PROVE TypeOK
<1>1. /\ setting \in Settings /\ page \in Versions /\ events \in Seq(DetectedEvent) /\ runs \in [Slots -> Run]
    BY RecordInit DEF RecordInv, RecordTypes
<1>2. NoJob \in Job
    BY QueueAssumption DEF NoJob, Job, JobStates
<1>3. jobs \in [JobIds -> Job]
    BY <1>2 DEF Init
<1>4. MaxClock \in Nat /\ MaxClock \div Interval \in Nat /\ MaxRescans \in Nat
    BY MonitoringAssumption, DividedAlike
<1>5. 0 \in 0 .. MaxClock /\ 0 \in 0 .. 1 + MaxClock \div Interval /\ 0 \in 0 .. MaxRescans
    BY <1>4
<1>6. snapshots \in Seq(Snapshot) /\ regressions \in SUBSET Found /\ active \in BOOLEAN
    BY DEF Init
<1>7. clock = 0 /\ lastTick = 0 /\ rescans = 0
    BY DEF Init
<1> QED BY <1>1, <1>3, <1>5, <1>6, <1>7 DEF TypeOK

(***************************************************************************)
(* Every record has its type: no job takes more attempts or stalls than    *)
(* the queue allows, no window or manual rescan is without its job id, and *)
(* no scan saves a row it has not.                                         *)
(***************************************************************************)
THEOREM ScanTypesHold == Spec => []TypeOK
<1>1. Init => RecordInv /\ TypeOK
    BY RecordInit, TypeInit
<1>2. RecordInv /\ TypeOK /\ [Next]_vars => RecordInv' /\ TypeOK'
    BY RecordStep, TypeStep
<1> QED BY <1>1, <1>2, PTL DEF Spec

-----------------------------------------------------------------------------
(* Scans are made in time *)

WindowJob == <<"scheduled", Window>>
Scanning(s) == runs[s].pc \in {"crawl", "snapshot"} /\ runs[s].job = WindowJob

(* While nothing fails, the window has a scan, a scan that is under way, or none *)
(* that it needs; jobs of windows to come are unknown, and a slot works on a job  *)
(* of its own.                                                                    *)
WindowServed ==
    lastTick = Window + 1 =>
        \/ ScannedSince(Window - 1)
        \/ jobs[WindowJob].state = "waiting"
        \/ \E s \in Slots : Scanning(s)

JobsOfTheirOwn ==
    /\ \A s \in Slots : runs[s].pc # "idle" => runs[s].holds /\ jobs[runs[s].job].state = "active"
    /\ \A s, t \in Slots : (runs[s].pc # "idle" /\ runs[t].pc # "idle" /\ runs[s].job = runs[t].job) => s = t

InTime ==
    /\ active
    /\ lastTick <= Window + 1
    /\ \A w \in Windows : w >= lastTick => jobs[<<"scheduled", w>>].state = "absent"
    /\ JobsOfTheirOwn
    /\ WindowServed

(* A window begins when its number says. *)
LEMMA WindowBegins ==
    ASSUME TypeOK
    PROVE  /\ clock \in Nat /\ Interval \in Nat \ {0} /\ Window \in Windows /\ Window \in Nat
           /\ Window * Interval \in Nat /\ Window * Interval <= clock
           /\ (Window - 1) * Interval = Window * Interval - Interval
<1>1. clock \in Nat /\ clock <= MaxClock /\ MaxClock \in Nat /\ Interval \in Nat \ {0}
    BY MonitoringAssumption DEF TypeOK
<1>2. Window \in Nat /\ Window \in Windows
    BY <1>1, DividedAlike DEF Window, Windows
<1>3. Window * Interval \in Nat /\ Window * Interval <= clock
    BY <1>1 DEF Window
<1> HIDE DEF Window
<1>4. (Window - 1) * Interval = Window * Interval - Interval
    BY <1>1, <1>2
<1> QED BY <1>1, <1>2, <1>3, <1>4

LEMMA InTimeAtFirst == ASSUME Init PROVE InTime
<1>1. Window \in Nat /\ clock = 0
    BY MonitoringAssumption, DividedAlike DEF Init, Window
<1>2. \A j \in JobIds : jobs[j].state = "absent"
    BY DEF Init, NoJob
<1>3. \A w \in Windows : <<"scheduled", w>> \in JobIds
    BY DEF JobIds
<1>4. \A s \in Slots : runs[s].pc = "idle"
    BY RunType DEF Init
<1>5. active /\ lastTick = 0
    BY DEF Init
<1> QED BY <1>1, <1>2, <1>3, <1>4, <1>5 DEF InTime, JobsOfTheirOwn, WindowServed

(* What happens outside the slots. *)
LEMMA OutsideInTime ==
    ASSUME TypeOK, InTime, NothingFails, Rescan \/ SetActive \/ ScheduleScan \/ Tick \/ PageChanges
    PROVE  InTime'
<1> USE DEF rows
<1>1. /\ clock \in Nat /\ Interval \in Nat \ {0} /\ Window \in Windows /\ Window \in Nat
      /\ Window * Interval \in Nat /\ Window * Interval <= clock
      /\ (Window - 1) * Interval = Window * Interval - Interval
    BY WindowBegins
<1>2. CASE SetActive \/ PageChanges
    <2>1. /\ active' = active /\ lastTick' = lastTick /\ jobs' = jobs /\ runs' = runs /\ snapshots' = snapshots /\ clock' = clock
        BY <1>2 DEF SetActive, PageChanges, NothingFails
    <2> QED BY <2>1 DEF InTime, JobsOfTheirOwn, WindowServed, WindowJob, Scanning, Window, ScannedSince
<1>3. CASE Rescan
    <2>0. rescans + 1 \in 1 .. MaxRescans
        BY <1>3, MonitoringAssumption DEF Rescan, TypeOK, Setting
    <2>1. <<"manual", rescans + 1>> \in JobIds /\ jobs[<<"manual", rescans + 1>>] \in Job
        BY <2>0 DEF JobIds, TypeOK
    <2>2. \A j \in JobIds : /\ j # <<"manual", rescans + 1>> => jobs'[j] = jobs[j]
                            /\ jobs[j].state # "absent" => jobs'[j] = jobs[j]
        BY <1>3, <2>1 DEF Rescan, Add, TypeOK
    <2>3. \A w \in Windows : <<"scheduled", w>> \in JobIds /\ jobs'[<<"scheduled", w>>] = jobs[<<"scheduled", w>>]
        BY <2>2 DEF JobIds
    <2>4. \A s \in Slots : runs[s].job \in JobIds
        BY RunType DEF TypeOK
    <2>5. active' = active /\ lastTick' = lastTick /\ runs' = runs /\ snapshots' = snapshots /\ clock' = clock
        BY <1>3 DEF Rescan
    <2>6. Window' = Window /\ WindowJob' = WindowJob /\ jobs'[WindowJob] = jobs[WindowJob]
        BY <1>1, <2>3, <2>5 DEF Window, WindowJob
    <2>7. WindowServed'
        BY <2>5, <2>6 DEF InTime, WindowServed, Scanning, ScannedSince
    <2>8. JobsOfTheirOwn'
        BY <2>2, <2>4, <2>5 DEF InTime, JobsOfTheirOwn
    <2> QED BY <2>3, <2>5, <2>6, <2>7, <2>8 DEF InTime
<1>4. CASE ScheduleScan
    <2>1. /\ active' = active /\ runs' = runs /\ snapshots' = snapshots /\ clock' = clock
          /\ lastTick <= Window /\ lastTick' = Window + 1
          /\ jobs' = IF Due THEN [jobs EXCEPT ![WindowJob] = Add(@)] ELSE jobs
        BY <1>4 DEF ScheduleScan, InTime, WindowJob
    <2>2. Window' = Window /\ WindowJob' = WindowJob
        BY <2>1 DEF Window, WindowJob
    <2>3. lastTick \in Nat
        BY DEF TypeOK
    <2>4. WindowJob \in JobIds /\ jobs[WindowJob].state = "absent"
        BY <1>1, <2>1, <2>3 DEF InTime, JobIds, WindowJob
    <2>5. \A j \in JobIds : j # WindowJob => jobs'[j] = jobs[j]
        BY <2>1, <2>4 DEF TypeOK
    <2>6. JobsOfTheirOwn'
        <3>1. \A s \in Slots : runs[s].pc # "idle" => runs[s].job \in JobIds /\ runs[s].job # WindowJob
            BY <2>4, RunType DEF TypeOK, InTime, JobsOfTheirOwn
        <3> QED BY <2>1, <2>5, <3>1 DEF InTime, JobsOfTheirOwn
    <2>7. \A w \in Windows : w >= lastTick' => jobs'[<<"scheduled", w>>].state = "absent"
        <3> SUFFICES ASSUME NEW w \in Windows, w >= Window + 1 PROVE jobs'[<<"scheduled", w>>].state = "absent"
            BY <2>1
        <3>1. w \in Nat
            BY MonitoringAssumption, DividedAlike DEF Windows
        <3> HIDE DEF Window
        <3>2. w >= lastTick /\ w # Window
            BY <1>1, <2>1, <2>3, <3>1
        <3>3. <<"scheduled", w>> \in JobIds /\ <<"scheduled", w>> # WindowJob
            BY <3>2 DEF JobIds, WindowJob
        <3> QED BY <2>5, <3>2, <3>3 DEF InTime
    <2>8. WindowServed'
        <3>1. CASE Due
            <4>1. jobs'[WindowJob].state = "waiting"
                BY <2>1, <2>4, <3>1 DEF Add, NoJob, TypeOK
            <4> QED BY <2>2, <4>1 DEF WindowServed
        <3>2. CASE ~ Due
            <4>1. snapshots # <<>> /\ ~ (snapshots[Len(snapshots)].at + Interval < clock)
                BY <3>2 DEF Due
            <4>2. snapshots[Len(snapshots)].at \in Nat
                <5>1. snapshots \in Seq(Snapshot)
                    BY DEF TypeOK
                <5>2. Len(snapshots) \in 1 .. Len(snapshots)
                    BY <4>1, <5>1, EmptySeq, LenProperties
                <5>3. snapshots[Len(snapshots)] \in Snapshot
                    BY <5>1, <5>2, ElementOfSeq
                <5>4. snapshots[Len(snapshots)].at \in 0 .. MaxClock
                    BY <5>3 DEF Snapshot
                <5> QED BY <5>4, MonitoringAssumption
            <4>3. snapshots[Len(snapshots)].at >= (Window - 1) * Interval
                BY <1>1, <4>1, <4>2
            <4> QED BY <2>1, <2>2, <4>1, <4>3 DEF WindowServed, ScannedSince
        <3> QED BY <3>1, <3>2
    <2>9. lastTick' <= Window' + 1
        BY <1>1, <2>1, <2>2
    <2> QED BY <2>1, <2>6, <2>7, <2>8, <2>9 DEF InTime
<1>5. CASE Tick
    <2>1. /\ active' = active /\ lastTick' = lastTick /\ jobs' = jobs /\ runs' = runs /\ snapshots' = snapshots
          /\ clock' = clock + 1
        BY <1>5 DEF Tick
    <2>2. Window' \in Nat /\ Window <= Window'
        BY <1>1, <2>1, DividedAlike DEF Window
    <2>3. lastTick \in Nat /\ lastTick <= Window + 1
        BY DEF TypeOK, InTime
    <2>4. lastTick <= Window' + 1 /\ (Window' # Window => lastTick # Window' + 1)
        <3> DEFINE next == Window'
        <3>1. Window \in Nat /\ next \in Nat /\ Window <= next
            BY <1>1, <2>2
        <3> HIDE DEF next
        <3>2. lastTick <= next + 1 /\ (next # Window => lastTick # next + 1)
            BY <2>3, <3>1
        <3> QED BY <3>2 DEF next
    <2>5. WindowServed'
        <3>1. CASE Window' = Window
            BY <2>1, <3>1 DEF InTime, WindowServed, WindowJob, Scanning, ScannedSince
        <3>2. CASE Window' # Window
            <4>1. lastTick' # Window' + 1
                BY <2>1, <2>4, <3>2
            <4> QED BY <4>1 DEF WindowServed
        <3> QED BY <3>1, <3>2
    <2> QED BY <2>1, <2>4, <2>5 DEF InTime, JobsOfTheirOwn
<1> QED BY <1>2, <1>3, <1>4, <1>5

(* A slot takes a job, goes on with its scan, or ends it. *)
LEMMA SlotInTime ==
    ASSUME RecordInv, TypeOK, InTime, NothingFails, NEW s \in Slots, SlotStep(s)
    PROVE  InTime'
<1> USE DEF outside, rows
<1>0. /\ runs \in [Slots -> Run] /\ jobs \in [JobIds -> Job] /\ \A q \in Slots : runs[q].job \in JobIds
      /\ IdleRun.pc = "idle" /\ WindowJob \in JobIds
      /\ \A w \in Windows : <<"scheduled", w>> \in JobIds
    BY RunType, WindowBegins DEF TypeOK, JobIds, WindowJob
<1>1. /\ clock \in Nat /\ Interval \in Nat \ {0} /\ Window \in Nat
      /\ Window * Interval \in Nat /\ Window * Interval <= clock
      /\ (Window - 1) * Interval = Window * Interval - Interval
    BY WindowBegins
<1>2. active' = active /\ clock' = clock /\ lastTick' = lastTick
    BY DEF SlotStep, RejectJob, TakeJob, Crawl, CrawlFails, SaveSnapshot, SaveEvent, DetectRegressions,
           SaveRegression, CompleteJob, JobFails, WorkerCrash, LoseLock
<1>3. Window' = Window /\ WindowJob' = WindowJob
    BY <1>2 DEF Window, WindowJob
<1>4. ~ CrawlFails(s) /\ ~ JobFails(s) /\ ~ WorkerCrash(s) /\ ~ LoseLock(s) /\ \A j \in JobIds : ~ RejectJob(s, j)
    BY DEF CrawlFails, JobFails, WorkerCrash, LoseLock, RejectJob, NothingFails, InTime
<1> DEFINE Kept == /\ \A w \in Windows : w >= lastTick => jobs'[<<"scheduled", w>>].state = "absent"
                   /\ JobsOfTheirOwn' /\ WindowServed'
<1>5. ASSUME NEW j \in JobIds, TakeJob(s, j) PROVE Kept
    <2> DEFINE run == [IdleRun EXCEPT !.pc = "crawl", !.job = j, !.holds = TRUE, !.previous = Latest]
    <2>1. run.pc = "crawl" /\ run.job = j /\ run.holds
        BY DEF IdleRun
    <2> HIDE DEF run
    <2>2. runs' = [runs EXCEPT ![s] = run] /\ jobs' = [jobs EXCEPT ![j] = Take(jobs[j])]
        BY <1>5 DEF TakeJob, run
    <2>3. jobs[j].state = "waiting" /\ runs[s].pc = "idle" /\ snapshots' = snapshots
        BY <1>5 DEF TakeJob
    <2>4. /\ \A q \in Slots : runs'[q] = IF q = s THEN run ELSE runs[q]
          /\ \A i \in JobIds : i # j => jobs'[i] = jobs[i]
          /\ jobs'[j].state = "active"
        BY <1>0, <2>2 DEF Take, Job
    <2>5. \A q \in Slots : runs[q].pc # "idle" => runs[q].job # j
        BY <2>3 DEF InTime, JobsOfTheirOwn
    <2>6. JobsOfTheirOwn'
        BY <1>0, <2>1, <2>3, <2>4, <2>5 DEF InTime, JobsOfTheirOwn
    <2>7. \A w \in Windows : w >= lastTick => jobs'[<<"scheduled", w>>].state = "absent"
        BY <1>0, <2>3, <2>4 DEF InTime
    <2>8. WindowServed'
        <3>1. ASSUME jobs[WindowJob].state = "waiting" PROVE jobs'[WindowJob].state = "waiting" \/ Scanning(s)'
            BY <1>0, <1>3, <2>1, <2>4, <3>1 DEF Scanning
        <3>2. ASSUME NEW q \in Slots, Scanning(q) PROVE Scanning(q)'
            BY <1>3, <2>3, <2>4, <3>2 DEF Scanning
        <3> QED BY <1>2, <1>3, <2>3, <3>1, <3>2 DEF InTime, WindowServed, ScannedSince
    <2> QED BY <2>6, <2>7, <2>8
<1>6. ASSUME Crawl(s) \/ SaveSnapshot(s) \/ SaveEvent(s) \/ DetectRegressions(s) \/ SaveRegression(s) PROVE Kept
    <2>1. jobs' = jobs
        BY <1>6 DEF Crawl, SaveSnapshot, SaveEvent, DetectRegressions, SaveRegression
    <2>2. /\ runs[s].pc # "idle" /\ \A q \in Slots : q # s => runs'[q] = runs[q]
          /\ runs'[s].pc # "idle" /\ runs'[s].job = runs[s].job /\ runs'[s].holds = runs[s].holds
          /\ runs[s].pc = "crawl" => runs'[s].pc = "snapshot"
        <3>1. CASE Crawl(s)
            BY <1>0, <3>1 DEF Crawl, Run
        <3>2. CASE SaveSnapshot(s)
            BY <1>0, <3>2 DEF SaveSnapshot, Run
        <3>3. CASE SaveEvent(s)
            BY <1>0, <3>3 DEF SaveEvent, Run
        <3>4. CASE DetectRegressions(s)
            <4>1. PICK pc, found : runs' = [runs EXCEPT ![s].pc = pc, ![s].found = found] /\ pc \in {"ack", "regressions"}
                BY <3>4 DEF DetectRegressions
            <4>2. runs[s].pc = "detect" /\ runs[s] \in Run
                BY <1>0, <3>4 DEF DetectRegressions
            <4> QED BY <1>0, <4>1, <4>2 DEF Run
        <3>5. CASE SaveRegression(s)
            BY <1>0, <3>5 DEF SaveRegression, Run
        <3> QED BY <1>6, <3>1, <3>2, <3>3, <3>4, <3>5
    <2>3. JobsOfTheirOwn'
        BY <2>1, <2>2 DEF InTime, JobsOfTheirOwn
    <2>4. WindowServed'
        <3>1. CASE SaveSnapshot(s)
            <4> DEFINE row == [fields |-> runs[s].fields, isBaseline |-> runs[s].previous = <<>>, at |-> clock]
            <4>1. snapshots' = Append(snapshots, row) /\ row.at = clock
                BY <3>1 DEF SaveSnapshot
            <4> HIDE DEF row
            <4>2. snapshots \in Seq(Snapshot)
                BY DEF TypeOK
            <4>3. Len(snapshots') = Len(snapshots) + 1 /\ snapshots'[Len(snapshots) + 1] = row /\ Len(snapshots) \in Nat
                BY <4>1, <4>2, AppendProperties
            <4>4. snapshots' # <<>> /\ snapshots'[Len(snapshots')].at = clock
                BY <4>1, <4>3
            <4>5. clock >= (Window - 1) * Interval
                BY <1>1
            <4> QED BY <1>3, <4>4, <4>5 DEF WindowServed, ScannedSince
        <3>2. CASE ~ SaveSnapshot(s)
            <4>1. snapshots' = snapshots /\ (runs[s].pc # "snapshot")
                BY <1>6, <3>2 DEF Crawl, SaveEvent, DetectRegressions, SaveRegression
            <4>2. ASSUME NEW q \in Slots, Scanning(q) PROVE Scanning(q)'
                BY <1>3, <2>2, <4>1, <4>2 DEF Scanning
            <4> QED BY <1>2, <1>3, <2>1, <4>1, <4>2 DEF InTime, WindowServed, ScannedSince
        <3> QED BY <3>1, <3>2
    <2> QED BY <2>1, <2>3, <2>4 DEF InTime
<1>7. ASSUME CompleteJob(s) PROVE Kept
    <2>1. runs[s].pc = "ack" /\ snapshots' = snapshots /\ runs[s].holds /\ jobs[runs[s].job].state = "active"
        BY <1>7 DEF CompleteJob, InTime, JobsOfTheirOwn
    <2>2. jobs' = [jobs EXCEPT ![runs[s].job] = Finish(jobs[runs[s].job])] /\ runs' = [runs EXCEPT ![s] = IdleRun]
        BY <1>7, <2>1 DEF CompleteJob, Settle
    <2>3. /\ \A q \in Slots : runs'[q] = IF q = s THEN IdleRun ELSE runs[q]
          /\ \A i \in JobIds : i # runs[s].job => jobs'[i] = jobs[i]
        BY <1>0, <2>2
    <2>4. JobsOfTheirOwn'
        BY <1>0, <2>1, <2>3 DEF InTime, JobsOfTheirOwn
    <2>5. \A w \in Windows : w >= lastTick => jobs'[<<"scheduled", w>>].state = "absent"
        BY <1>0, <2>1, <2>3 DEF InTime
    <2>6. WindowServed'
        <3>1. ASSUME jobs[WindowJob].state = "waiting" PROVE jobs'[WindowJob].state = "waiting"
            BY <1>0, <2>1, <2>3, <3>1
        <3>2. ASSUME NEW q \in Slots, Scanning(q) PROVE Scanning(q)'
            BY <1>3, <2>1, <2>3, <3>2 DEF Scanning
        <3> QED BY <1>2, <1>3, <2>1, <3>1, <3>2 DEF InTime, WindowServed, ScannedSince
    <2> QED BY <2>4, <2>5, <2>6
<1>8. Kept
    BY <1>4, <1>5, <1>6, <1>7 DEF SlotStep
<1>9. lastTick' <= Window' + 1
    BY <1>2, <1>3 DEF InTime
<1> QED BY <1>2, <1>8, <1>9 DEF InTime

(***************************************************************************)
(* As long as nothing fails, for any interval, any number of slots and     *)
(* however often a member asks for a rescan: when a window ends, the URL   *)
(* was scanned in it or in the one before                                  *)
(* (createMonitoringScanDispatchHandler).                                  *)
(***************************************************************************)
THEOREM ScannedInTime == Spec => RescannedEveryOtherWindow
<1> DEFINE KeptInv == RecordInv /\ TypeOK /\ (NothingFails => InTime)
           Ending == NothingFails /\ clock' # clock /\ clock' \div Interval # Window => ScannedSince(Window - 1)
<1>1. Init => KeptInv
    BY RecordInit, TypeInit, InTimeAtFirst
<1>2. KeptInv /\ [Next]_vars => KeptInv'
    <2> SUFFICES ASSUME RecordInv, TypeOK, NothingFails => InTime, [Next]_vars, NothingFails' PROVE InTime'
        BY RecordStep, TypeStep
    <2>1. setting' = setting
        BY DEF Next, vars, Rescan, SetActive, ScheduleScan, Tick, PageChanges, SlotStep, RejectJob, TakeJob, Crawl, CrawlFails,
               SaveSnapshot, SaveEvent, DetectRegressions, SaveRegression, CompleteJob, JobFails, WorkerCrash, LoseLock, outside
    <2>2. NothingFails /\ InTime
        BY <2>1 DEF NothingFails
    <2>3. CASE UNCHANGED vars
        BY <2>2, <2>3 DEF vars, InTime, JobsOfTheirOwn, WindowServed, WindowJob, Scanning, Window, ScannedSince
    <2>4. CASE Next
        BY <2>2, <2>4, OutsideInTime, SlotInTime DEF Next
    <2> QED BY <2>3, <2>4
<1>3. KeptInv /\ [Next]_vars => [Ending]_vars
    <2> SUFFICES ASSUME RecordInv, TypeOK, InTime, NothingFails, [Next]_vars, clock' # clock, clock' \div Interval # Window
                 PROVE  ScannedSince(Window - 1)
        OBVIOUS
    <2>1. Tick
        BY DEF Next, vars, Rescan, SetActive, ScheduleScan, PageChanges, SlotStep, RejectJob, TakeJob, Crawl, CrawlFails,
               SaveSnapshot, SaveEvent, DetectRegressions, SaveRegression, CompleteJob, JobFails, WorkerCrash, LoseLock, outside
    <2>2. lastTick = Window + 1 /\ \A j \in JobIds : ~ Queued(jobs[j])
        BY <2>1 DEF Tick, CaughtUp, NothingFails
    <2>3. WindowJob \in JobIds
        BY WindowBegins DEF WindowJob, JobIds
    <2>4. jobs[WindowJob].state # "waiting"
        BY <2>2, <2>3 DEF Queued
    <2>5. ASSUME NEW s \in Slots, Scanning(s) PROVE FALSE
        BY <2>2, <2>3, <2>5 DEF Scanning, InTime, JobsOfTheirOwn, Queued
    <2> QED BY <2>2, <2>4, <2>5 DEF InTime, WindowServed
<1> QED BY <1>1, <1>2, <1>3, PTL DEF Spec, RescannedEveryOtherWindow
=============================================================================
