----------------------------- MODULE MCWorkspace -----------------------------
(* Small instances of Workspace: four people, two Stripe customers, limits *)
(* of two (trial) and three members and of one (trial) and two sites.      *)
EXTENDS Workspace, TLC

CONSTANTS ann, bob, cat, dan, r1, r2, u1, u2, u3, w1, w2, w3, cus1, cus2, code1, code2

Kinds ==
    {[customer |-> cus1, status |-> s, plan |-> "STARTER", known |-> TRUE]
        : s \in {"ACTIVE", "PAST_DUE", "CANCELED"}}
    \cup {[customer |-> cus2, status |-> "ACTIVE", plan |-> "STARTER", known |-> TRUE],
          [customer |-> cus1, status |-> "ACTIVE", plan |-> "PRO", known |-> FALSE]}

SeatsOf == [TRIAL |-> 2, STARTER |-> 3]
SitesOf == [TRIAL |-> 1, STARTER |-> 2]

Status(s) == {kind \in Kinds : kind.customer = cus1 /\ kind.known /\ kind.status = s}

Quiet == [slots |-> 1, events |-> 0, kinds |-> {}, links |-> 0, codes |-> 0, urls |-> 0, sites |-> 0,
          still |-> FALSE]

(* Invitations, roles and sites under a changing subscription, one request at a time. *)
Inviting == [Quiet EXCEPT !.events = 1, !.kinds = Status("ACTIVE") \cup Status("PAST_DUE"), !.links = 3]
Adding == [Quiet EXCEPT !.events = 2, !.kinds = Status("ACTIVE") \cup Status("PAST_DUE"), !.sites = 3]

(* Two requests together, one of which may be the upgrade. *)
InvitingTogether == [Quiet EXCEPT !.slots = 2, !.events = 1, !.kinds = Status("ACTIVE"), !.links = 2]
AddingTogether == [InvitingTogether EXCEPT !.links = 0, !.sites = 4]

(* Webhooks, replays and plan codes. *)
Paying == [Quiet EXCEPT !.events = 3, !.kinds = {k \in Kinds : k.known}, !.codes = 1]
PayingTogether == [Quiet EXCEPT !.slots = 2, !.events = 2, !.kinds = Status("ACTIVE") \cup Status("CANCELED")]

Watching == [Quiet EXCEPT !.urls = 4]
WatchingTogether == [Watching EXCEPT !.slots = 2]

(* Requests that do not meet, without Stripe, while time stands still. *)
Still == [Quiet EXCEPT !.links = 2, !.codes = 1, !.sites = 2, !.still = TRUE]
StillWatching == [Watching EXCEPT !.codes = 1, !.still = TRUE]

Environments == {Inviting, Adding, InvitingTogether, AddingTogether, Paying, PayingTogether,
                 Watching, WatchingTogether, Still, StillWatching}

Interchangeable ==
    Permutations({bob, cat, dan}) \cup Permutations({r1, r2}) \cup Permutations({w1, w2, w3})
=============================================================================
