----------------------------- MODULE Memberships -----------------------------
(***************************************************************************)
(* The members of one organization: inviting, resending, canceling and     *)
(* accepting an invitation, changing a role (app-repository.ts).  Every    *)
(* handler reads its rows, decides, and writes in a later transaction that *)
(* does not look at the status again, so a request is a Read step and a    *)
(* Write step.  What billing allows is an input, the variable seatLimit:   *)
(* 0 while the organization is read-only, else the plan's users limit.     *)
(* A token is the number of the link that carries it; createInviteToken    *)
(* never draws the same one twice.                                         *)
(* Site scopes, activity logs and notifications are left out.              *)
(***************************************************************************)
EXTENDS Integers, FiniteSets, Sequences

CONSTANTS
    People,         \* accounts, each with its e-mail address
    Founder,        \* the account that created the organization
    Reqs            \* requests that may be in flight together

VARIABLES
    seatLimit,      \* input: users the billing context allows now
    members,        \* OrganizationMember row of each person, status "none" without one
    links,          \* whom each invitation link went to, in the order they were issued
    reqs            \* handlers between their reads and their transaction

memberVars == <<members, links, reqs>>

Roles == {"OWNER", "ADMIN", "VIEWER"}       \* VIEWER stands for the roles without members:manage
Assignable == Roles \ {"OWNER"}

Member == [status: {"none", "INVITED", "ACTIVE", "CANCELED"}, role: Roles,
           token: Nat, fresh: BOOLEAN]

Absent == [status |-> "none", role |-> "VIEWER", token |-> 0, fresh |-> FALSE]

Request == [pc: {"idle", "invite", "resend", "cancel", "accept", "role"}, person: People,
            role: Roles, token: Nat]

Idle == [pc |-> "idle", person |-> Founder, role |-> "VIEWER", token |-> 0]

TypeOK ==
    /\ members \in [People -> Member]
    /\ links \in Seq(People)
    /\ reqs \in [Reqs -> Request]

Init ==
    /\ members = [p \in People |-> IF p = Founder THEN [Absent EXCEPT !.status = "ACTIVE", !.role = "OWNER"]
                                                  ELSE Absent]
    /\ links = <<>>
    /\ reqs = [r \in Reqs |-> Idle]

(* requireDbOrganizationAccess with members:invite or members:manage *)
Manages(p) == members[p].status = "ACTIVE" /\ members[p].role \in {"OWNER", "ADMIN"}

Counted == {p \in People : members[p].status \notin {"none", "CANCELED"}}

Busy == {r \in Reqs : reqs[r].pc # "idle"}

Begin(r, pc, p, role, k) ==
    /\ reqs[r].pc = "idle"
    /\ reqs' = [reqs EXCEPT ![r] = [pc |-> pc, person |-> p, role |-> role, token |-> k]]
    /\ UNCHANGED <<members, links>>

End(r) == reqs' = [reqs EXCEPT ![r] = Idle]

(* createInviteToken for p: the link is mailed and only its hash is kept. *)
Issue(p) == links' = Append(links, p)
NewToken == Len(links) + 1

-----------------------------------------------------------------------------
InviteRead(r, by, p, role) ==
    /\ Manages(by) /\ role \in Assignable
    /\ members[p].status = "none"
    /\ Cardinality(Counted) < seatLimit
    /\ Begin(r, "invite", p, role, 0)

(* The unique index over organization and user refuses a second row. *)
InviteWrite(r) ==
    LET p == reqs[r].person
    IN  /\ reqs[r].pc = "invite"
        /\ \/ /\ members[p].status = "none"
              /\ members' = [members EXCEPT ![p] = [status |-> "INVITED", role |-> reqs[r].role,
                                                    token |-> NewToken, fresh |-> TRUE]]
              /\ Issue(p)
           \/ /\ members[p].status # "none"
              /\ UNCHANGED <<members, links>>
        /\ End(r)

ResendRead(r, by, p) ==
    /\ Manages(by) /\ members[p].status = "INVITED"
    /\ Begin(r, "resend", p, "VIEWER", 0)

ResendOldHash(r) ==                             \* mutant: a new link is mailed, the old hash is kept
    LET p == reqs[r].person
    IN  /\ reqs[r].pc = "resend"
        /\ members' = [members EXCEPT ![p].fresh = TRUE]
        /\ Issue(p)
        /\ End(r)

ResendWrite(r) ==
    LET p == reqs[r].person
    IN  /\ reqs[r].pc = "resend"
        /\ members' = [members EXCEPT ![p].token = NewToken, ![p].fresh = TRUE]
        /\ Issue(p)
        /\ End(r)

CancelAnyMember(r, by, p) ==                    \* mutant: no check that the invitation is pending
    /\ Manages(by) /\ p # Founder /\ members[p].status # "none"
    /\ Begin(r, "cancel", p, "VIEWER", 0)

CancelRead(r, by, p) ==
    /\ Manages(by) /\ members[p].status = "INVITED"
    /\ Begin(r, "cancel", p, "VIEWER", 0)

CancelDeletes(r) ==                             \* mutant: a status the schema does not have
    /\ reqs[r].pc = "cancel"
    /\ members' = [members EXCEPT ![reqs[r].person].status = "REMOVED"]
    /\ UNCHANGED links
    /\ End(r)

CancelWrite(r) ==
    /\ reqs[r].pc = "cancel"
    /\ members' = [members EXCEPT ![reqs[r].person] =
           [@ EXCEPT !.status = "CANCELED", !.token = 0, !.fresh = FALSE]]
    /\ UNCHANGED links
    /\ End(r)

(* The row is found by the token's hash; the signed-in e-mail is the row's. *)
AcceptRead(r, p, k) ==
    /\ members[p].token = k /\ members[p].status = "INVITED" /\ members[p].fresh
    /\ Begin(r, "accept", p, "VIEWER", k)

AcceptWrite(r) ==
    /\ reqs[r].pc = "accept"
    /\ members' = [members EXCEPT ![reqs[r].person] =
           [@ EXCEPT !.status = "ACTIVE", !.token = 0, !.fresh = FALSE]]
    /\ UNCHANGED links
    /\ End(r)

RoleOfAnyone(r, by, p, role) ==                 \* mutant: the owner's role is not protected
    /\ Manages(by) /\ role \in Assignable
    /\ p # by /\ members[p].status # "none"
    /\ Begin(r, "role", p, role, 0)

RoleRead(r, by, p, role) ==
    /\ Manages(by) /\ role \in Assignable
    /\ p # by /\ members[p].status # "none" /\ members[p].role # "OWNER"
    /\ Begin(r, "role", p, role, 0)

RoleWrite(r) ==
    /\ reqs[r].pc = "role"
    /\ members' = [members EXCEPT ![reqs[r].person].role = reqs[r].role]
    /\ UNCHANGED links
    /\ End(r)

(* inviteExpiresAt passes. *)
LinkExpires(p) ==
    /\ members[p].fresh
    /\ members' = [members EXCEPT ![p].fresh = FALSE]
    /\ UNCHANGED <<links, reqs>>

(* The server process ends between a handler's reads and its transaction. *)
Abandon(r) ==
    /\ reqs[r].pc # "idle"
    /\ End(r)
    /\ UNCHANGED <<members, links>>

Next ==
    \/ \E r \in Reqs, by \in People, p \in People :
          \/ \E role \in Assignable : InviteRead(r, by, p, role) \/ RoleRead(r, by, p, role)
          \/ ResendRead(r, by, p) \/ CancelRead(r, by, p)
    \/ \E r \in Reqs, p \in People, k \in DOMAIN links : AcceptRead(r, p, k)
    \/ \E r \in Reqs : InviteWrite(r) \/ ResendWrite(r) \/ CancelWrite(r) \/ AcceptWrite(r)
                       \/ RoleWrite(r) \/ Abandon(r)
    \/ \E p \in People : LinkExpires(p)

Spec == Init /\ [][Next]_memberVars
=============================================================================
