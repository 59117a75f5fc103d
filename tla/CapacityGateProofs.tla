------------------------- MODULE CapacityGateProofs -------------------------
(***************************************************************************)
(* The limit of CapacityGate is overrun by at most one thing per further   *)
(* request.  What is held is not inductive: the requests in flight may all *)
(* still create something, so the invariant bounds what is foreseen.       *)
(***************************************************************************)
EXTENDS CapacityGate, FiniteSetTheorems, TLAPS

InFlight == {q \in Reqs : pending[q] # Nothing}

(* A set that is foreseen already, or shrinks, keeps the bound. *)
LEMMA Shrinks ==
    ASSUME NEW S, NEW T, IsFiniteSet(S), T \subseteq S, NEW n \in Int, Cardinality(S) <= n
    PROVE  Cardinality(T) <= n
<1>1. Cardinality(T) <= Cardinality(S) /\ IsFiniteSet(T)
    BY FS_Subset
<1>2. Cardinality(T) \in Nat /\ Cardinality(S) \in Nat
    BY <1>1, FS_CardinalityType
<1> QED BY <1>1, <1>2

IInv == GateTypes /\ ForeseenBounded

LEMMA TypesKept == ASSUME GateParameters, GateTypes, [Next]_gateVars PROVE GateTypes'
<1>1. CASE UNCHANGED gateVars
    BY <1>1 DEF GateTypes, gateVars
<1>2. CASE \E r \in Reqs, t \in Things : Pass(r, t) \/ Renew(r, t)
    BY <1>2 DEF GateTypes, Pass, Renew
<1>3. ASSUME NEW r \in Reqs, Create(r) PROVE GateTypes'
    BY <1>3 DEF GateTypes, Create
<1>4. ASSUME NEW r \in Reqs, GiveUp(r) PROVE GateTypes'
    BY <1>4 DEF GateTypes, GiveUp
<1>5. CASE \E t \in Things : Release(t)
    BY <1>5 DEF GateTypes, Release
<1> QED BY <1>1, <1>2, <1>3, <1>4, <1>5 DEF Next

LEMMA ForeseenFinite == ASSUME GateParameters, GateTypes PROVE IsFiniteSet(Foreseen)
<1>1. Foreseen \subseteq Things
    BY DEF Foreseen, GateTypes
<1> QED BY <1>1, FS_Subset DEF GateParameters

(* Only a request that passes the gate adds to what is foreseen, and then  *)
(* fewer than Cap things are held and every request wants at most one.     *)
LEMMA PassBounded ==
    ASSUME GateParameters, GateTypes, NEW r \in Reqs, NEW t \in Things, Pass(r, t)
    PROVE  ForeseenBounded'
<1> DEFINE W == {pending'[q] : q \in InFlight'}
<1>1. GateTypes'
    BY TypesKept DEF Next
<1>2. IsFiniteSet(W) /\ Cardinality(W) <= Cardinality(Reqs)
    <2>1. DEFINE f == [q \in InFlight' |-> pending'[q]]
    <2>2. f \in Surjection(InFlight', W)
        BY DEF Surjection
    <2>3. IsFiniteSet(InFlight') /\ Cardinality(InFlight') <= Cardinality(Reqs)
        BY FS_Subset DEF InFlight, GateParameters
    <2>4. IsFiniteSet(W) /\ Cardinality(W) <= Cardinality(InFlight')
        BY <2>2, <2>3, FS_Surjection
    <2>5. Cardinality(W) \in Nat /\ Cardinality(InFlight') \in Nat /\ Cardinality(Reqs) \in Nat
        BY <2>3, <2>4, FS_CardinalityType DEF GateParameters
    <2> QED BY <2>3, <2>4, <2>5
<1>3. IsFiniteSet(held) /\ Cardinality(held) \in Nat /\ Cardinality(held) < Cap
    BY FS_Subset, FS_CardinalityType DEF GateTypes, GateParameters, Pass
<1>4. Foreseen' = held \cup W
    BY DEF Foreseen, InFlight, Pass
<1>5. IsFiniteSet(held \cap W)
    BY <1>3, FS_Subset
<1>6. /\ Cardinality(held \cup W) = Cardinality(held) + Cardinality(W) - Cardinality(held \cap W)
      /\ Cardinality(held \cap W) \in Nat /\ Cardinality(W) \in Nat /\ Cardinality(Reqs) \in Nat
    BY <1>2, <1>3, <1>5, FS_Union, FS_CardinalityType DEF GateParameters
<1>7. Cardinality(held \cup W) <= Cap + Cardinality(Reqs) - 1
    BY <1>2, <1>3, <1>6 DEF GateParameters
<1> QED BY <1>4, <1>7 DEF ForeseenBounded

LEMMA OthersBounded ==
    ASSUME GateParameters, IInv, Foreseen' \subseteq Foreseen
    PROVE  ForeseenBounded'
<1>1. Cardinality(Reqs) \in Nat /\ Cap \in Nat
    BY FS_CardinalityType DEF GateParameters
<1>2. Cardinality(Foreseen') <= Cap + Cardinality(Reqs) - 1
    BY <1>1, ForeseenFinite, Shrinks DEF IInv, ForeseenBounded
<1> QED BY <1>2 DEF ForeseenBounded

LEMMA BoundKept == ASSUME GateParameters, IInv, [Next]_gateVars PROVE IInv'
<1>1. GateTypes'
    BY TypesKept DEF IInv
<1>2. ForeseenBounded'
    <2>1. CASE UNCHANGED gateVars
        BY <2>1, OthersBounded DEF gateVars, Foreseen
    <2>2. ASSUME NEW r \in Reqs, NEW t \in Things, Pass(r, t) PROVE ForeseenBounded'
        BY <2>2, PassBounded DEF IInv
    <2>3. ASSUME NEW r \in Reqs, NEW t \in Things, Renew(r, t) PROVE ForeseenBounded'
        BY <2>3, OthersBounded DEF IInv, GateTypes, Renew, Foreseen
    <2>4. ASSUME NEW r \in Reqs, Create(r) PROVE ForeseenBounded'
        BY <2>4, OthersBounded DEF IInv, GateTypes, Create, Foreseen
    <2>5. ASSUME NEW r \in Reqs, GiveUp(r) PROVE ForeseenBounded'
        BY <2>5, OthersBounded DEF IInv, GateTypes, GiveUp, Foreseen
    <2>6. ASSUME NEW t \in Things, Release(t) PROVE ForeseenBounded'
        BY <2>6, OthersBounded DEF IInv, GateTypes, Release, Foreseen
    <2> QED BY <2>1, <2>2, <2>3, <2>4, <2>5, <2>6 DEF Next
<1> QED BY <1>1, <1>2 DEF IInv

LEMMA InitBounded == ASSUME GateParameters, Init PROVE IInv
<1>1. GateTypes
    BY DEF Init, GateTypes
<1>2. Foreseen = held
    BY DEF Init, Foreseen
<1>3. Cardinality(Reqs) \in Nat /\ Cardinality(Reqs) # 0
    BY FS_CardinalityType, FS_EmptySet DEF GateParameters
<1>4. Cardinality(held) \in Nat /\ Cardinality(held) <= Cap /\ Cap \in Nat
    BY <1>1, FS_Subset, FS_CardinalityType DEF GateTypes, GateParameters, Init
<1> QED BY <1>1, <1>2, <1>3, <1>4 DEF IInv, ForeseenBounded

LEMMA HeldBounded == ASSUME GateParameters, IInv PROVE NoFurtherOverrun
<1>1. Cardinality(Reqs) \in Nat /\ Cap \in Nat
    BY FS_CardinalityType DEF GateParameters
<1>2. held \subseteq Foreseen
    BY DEF Foreseen
<1>3. Cardinality(held) <= Cap + Cardinality(Reqs) - 1
    BY <1>1, <1>2, ForeseenFinite, Shrinks DEF IInv, ForeseenBounded
<1> QED BY <1>3 DEF NoFurtherOverrun

(***************************************************************************)
(* However many things, requests and steps: a limit that is counted first  *)
(* and used later (inviteMember, createMonitoredUrlForSite,                *)
(* updateMonitoredUrlStatus) is overrun by at most one thing for each      *)
(* further request in flight.                                              *)
(***************************************************************************)
THEOREM OverrunBounded == ASSUME GateParameters PROVE Spec => []NoFurtherOverrun
<1>1. Init => IInv
    BY InitBounded
<1>2. IInv /\ [Next]_gateVars => IInv'
    BY BoundKept
<1>3. IInv => NoFurtherOverrun
    BY HeldBounded
<1> QED BY <1>1, <1>2, <1>3, PTL DEF Spec
=============================================================================
