---------------------------- MODULE CapacityGate ----------------------------
(***************************************************************************)
(* What the limits of the product promise, whatever they limit (members or *)
(* sites of an organization, monitored URLs of a site): a request          *)
(* counts what is held, and if that is below the limit it creates one more *)
(* in a later transaction.  Counting and creating are separate steps, so   *)
(* requests handled together may all pass on the same count; what is left  *)
(* of the limit is NoFurtherOverrun.                                       *)
(***************************************************************************)
EXTENDS Integers, FiniteSets

CONSTANTS
    Things,     \* what is limited
    Reqs,       \* requests that may be in flight together
    Nothing,    \* a request that is not about to create anything
    Cap         \* the largest limit any request is held to

(* What the constants may be; every instance meets it. *)
GateParameters ==
    /\ IsFiniteSet(Things) /\ IsFiniteSet(Reqs) /\ Reqs # {}
    /\ Nothing \notin Things
    /\ Cap \in Nat

VARIABLES
    held,       \* the things that count towards the limit
    pending     \* what each request is about to create

gateVars == <<held, pending>>

Init ==
    /\ held \in SUBSET Things /\ Cardinality(held) <= Cap
    /\ pending = [r \in Reqs |-> Nothing]

(* The count is below the limit: the request goes on to create `t'. *)
Pass(r, t) ==
    /\ pending[r] = Nothing /\ Cardinality(held) < Cap
    /\ pending' = [pending EXCEPT ![r] = t]
    /\ UNCHANGED held

(* A request that renews something that counts already is not counted. *)
Renew(r, t) ==
    /\ pending[r] = Nothing /\ t \in held
    /\ pending' = [pending EXCEPT ![r] = t]
    /\ UNCHANGED held

Create(r) ==
    /\ pending[r] # Nothing
    /\ held' = held \cup {pending[r]}
    /\ pending' = [pending EXCEPT ![r] = Nothing]

GiveUp(r) ==
    /\ pending' = [pending EXCEPT ![r] = Nothing]
    /\ UNCHANGED held

Release(t) ==
    /\ held' = held \ {t}
    /\ UNCHANGED pending

Next ==
    \/ \E r \in Reqs, t \in Things : Pass(r, t) \/ Renew(r, t)
    \/ \E r \in Reqs : Create(r) \/ GiveUp(r)
    \/ \E t \in Things : Release(t)

Spec == Init /\ [][Next]_gateVars

GateTypes ==
    /\ held \in SUBSET Things
    /\ pending \in [Reqs -> Things \cup {Nothing}]

(* What will count once every request in flight has finished. *)
Foreseen == held \cup {pending[r] : r \in {q \in Reqs : pending[q] # Nothing}}

(***************************************************************************)
(* The limit is overrun by at most one thing for each further request in   *)
(* flight; in particular a limit holds exactly when requests are handled   *)
(* one at a time.  Models the count-then-create of inviteMember and of     *)
(* createMonitoredUrlForSite.                                              *)
(***************************************************************************)
NoFurtherOverrun == Cardinality(held) <= Cap + Cardinality(Reqs) - 1

ForeseenBounded == Cardinality(Foreseen) <= Cap + Cardinality(Reqs) - 1
=============================================================================
