--------------------------- MODULE WorkspaceProofs ---------------------------
(***************************************************************************)
(* For every number of people, URLs, sites, codes and requests in flight,  *)
(* any plans and whatever Stripe sends: the types, the founder stays the   *)
(* owner, and the three limited resources implement CapacityGate.  Where   *)
(* requests are handled one at a time: decisions about invitations are     *)
(* final, plans are kept, subscriptions follow the ledger, and the whole   *)
(* does what the in-memory repository does.                                *)
(***************************************************************************)
EXTENDS Workspace, FiniteSetTheorems, SequenceTheorems, WellFoundedInduction, TLAPS

-----------------------------------------------------------------------------
(* The owner *)

(* No request in flight is about the founder: each was let in on a row that *)
(* is absent, INVITED or not an OWNER's.                                    *)
SparesFounder == \A r \in Reqs : reqs[r].pc # "idle" => reqs[r].person # Founder

FounderOwns ==
    /\ members[Founder].status = "ACTIVE" /\ members[Founder].role = "OWNER"
    /\ \A p \in People \ {Founder} : members[p].role # "OWNER"

(* Roles a request writes are assignable ones. *)
AssignsRoles == \A r \in Reqs : reqs[r].role # "OWNER"

OwnerInv == M!TypeOK /\ SparesFounder /\ FounderOwns /\ AssignsRoles

LEMMA MembersStep ==
    ASSUME OwnerInv, M!Next
    PROVE  OwnerInv'
<1> USE WorkspaceAssumption DEF OwnerInv, M!TypeOK, M!Member, M!Request, M!Roles,
        SparesFounder, FounderOwns, AssignsRoles
<1>1. ASSUME NEW r \in Reqs, NEW pc \in {"invite", "resend", "cancel", "accept", "role"},
             NEW p \in People \ {Founder}, NEW role \in M!Assignable, NEW k \in Nat,
             M!Begin(r, pc, p, role, k)
      PROVE  OwnerInv'
    BY <1>1 DEF M!Begin, M!Assignable
<1>2. ASSUME NEW r \in Reqs, NEW by \in People, NEW p \in People, NEW role \in M!Assignable,
             M!InviteRead(r, by, p, role) \/ M!RoleRead(r, by, p, role)
      PROVE  OwnerInv'
    <2>1. p # Founder
        BY <1>2 DEF M!InviteRead, M!RoleRead
    <2> QED BY <1>1, <1>2, <2>1 DEF M!InviteRead, M!RoleRead
<1>3. ASSUME NEW r \in Reqs, NEW by \in People, NEW p \in People,
             M!ResendRead(r, by, p) \/ M!CancelRead(r, by, p)
      PROVE  OwnerInv'
    <2>1. p # Founder
        BY <1>3 DEF M!ResendRead, M!CancelRead
    <2> QED BY <1>1, <1>3, <2>1 DEF M!ResendRead, M!CancelRead, M!Assignable
<1>4. ASSUME NEW r \in Reqs, NEW p \in People, NEW k \in DOMAIN links, M!AcceptRead(r, p, k)
      PROVE  OwnerInv'
    <2>1. p # Founder /\ k \in Nat
        BY <1>4 DEF M!AcceptRead
    <2> QED BY <1>1, <1>4, <2>1 DEF M!AcceptRead, M!Assignable
<1>5. ASSUME NEW r \in Reqs, reqs[r].pc # "idle", NEW row \in M!Member, row.role # "OWNER",
             members' = [members EXCEPT ![reqs[r].person] = row], links' \in Seq(People), M!End(r)
      PROVE  OwnerInv'
    <2>1. reqs[r].person \in People \ {Founder}
        BY <1>5
    <2>2. members' \in [People -> M!Member] /\ FounderOwns'
        BY <1>5, <2>1
    <2>3. reqs' \in [Reqs -> M!Request] /\ SparesFounder' /\ AssignsRoles'
        BY <1>5 DEF M!End, M!Idle
    <2> QED BY <1>5, <2>2, <2>3
<1>6. ASSUME NEW r \in Reqs, M!InviteWrite(r) PROVE OwnerInv'
    <2> DEFINE p == reqs[r].person
               row == [status |-> "INVITED", role |-> reqs[r].role, token |-> M!NewToken, fresh |-> TRUE]
    <2>1. CASE members[p].status = "none"
        <3>1. M!NewToken \in Nat
            BY DEF M!NewToken
        <3>2. reqs[r].role \in M!Roles /\ reqs[r].role # "OWNER"
            OBVIOUS
        <3>3. row \in M!Member /\ row.role # "OWNER"
            BY <3>1, <3>2
        <3>4. links' \in Seq(People)
            <4>1. p \in People /\ links \in Seq(People)
                OBVIOUS
            <4>2. links' = Append(links, p)
                BY <1>6, <2>1 DEF M!InviteWrite, M!Issue
            <4> HIDE DEF p
            <4> QED BY <4>1, <4>2
        <3> QED BY <1>5, <1>6, <2>1, <3>3, <3>4 DEF M!InviteWrite
    <2>2. CASE members[p].status # "none"
        <3>1. UNCHANGED <<members, links>> /\ M!End(r)
            BY <1>6, <2>2 DEF M!InviteWrite
        <3> QED BY <3>1 DEF M!End, M!Idle
    <2> QED BY <2>1, <2>2
<1>7. ASSUME NEW r \in Reqs, M!ResendWrite(r) PROVE OwnerInv'
    <2> DEFINE p == reqs[r].person
               row == [members[p] EXCEPT !.token = M!NewToken, !.fresh = TRUE]
    <2>1. members[p] \in M!Member /\ members[p].role # "OWNER"
        BY <1>7 DEF M!ResendWrite
    <2>2. M!NewToken \in Nat
        BY DEF M!NewToken
    <2>3. row \in M!Member /\ row.role # "OWNER"
        BY <2>1, <2>2
    <2>4. links' \in Seq(People)
        BY <1>7 DEF M!ResendWrite, M!Issue
    <2>5. members' = [members EXCEPT ![p] = row]
        BY <1>7, <2>1 DEF M!ResendWrite
    <2> QED BY <1>5, <1>7, <2>3, <2>4, <2>5 DEF M!ResendWrite
<1>8. ASSUME NEW r \in Reqs, M!CancelWrite(r) PROVE OwnerInv'
    <2> DEFINE p == reqs[r].person
               row == [members[p] EXCEPT !.status = "CANCELED", !.token = 0, !.fresh = FALSE]
    <2>1. members[p] \in M!Member /\ members[p].role # "OWNER"
        BY <1>8 DEF M!CancelWrite
    <2>2. row \in M!Member /\ row.role # "OWNER"
        BY <2>1
    <2>3. members' = [members EXCEPT ![p] = row]
        BY <1>8 DEF M!CancelWrite
    <2> QED BY <1>5, <1>8, <2>2, <2>3 DEF M!CancelWrite
<1>9. ASSUME NEW r \in Reqs, M!AcceptWrite(r) PROVE OwnerInv'
    <2> DEFINE p == reqs[r].person
               row == [members[p] EXCEPT !.status = "ACTIVE", !.token = 0, !.fresh = FALSE]
    <2>1. members[p] \in M!Member /\ members[p].role # "OWNER"
        BY <1>9 DEF M!AcceptWrite
    <2>2. row \in M!Member /\ row.role # "OWNER"
        BY <2>1
    <2>3. members' = [members EXCEPT ![p] = row]
        BY <1>9 DEF M!AcceptWrite
    <2> QED BY <1>5, <1>9, <2>2, <2>3 DEF M!AcceptWrite
<1>10. ASSUME NEW r \in Reqs, M!RoleWrite(r) PROVE OwnerInv'
    <2> DEFINE p == reqs[r].person
               row == [members[p] EXCEPT !.role = reqs[r].role]
    <2>1. members[p] \in M!Member
        BY <1>10 DEF M!RoleWrite
    <2>2. row \in M!Member /\ row.role # "OWNER"
        BY <2>1
    <2>3. members' = [members EXCEPT ![p] = row]
        BY <1>10, <2>1 DEF M!RoleWrite
    <2> QED BY <1>5, <1>10, <2>2, <2>3 DEF M!RoleWrite
<1>11. ASSUME NEW r \in Reqs, M!Abandon(r) PROVE OwnerInv'
    BY <1>11 DEF M!Abandon, M!End, M!Idle
<1>12. ASSUME NEW p \in People, M!LinkExpires(p) PROVE OwnerInv'
    <2>1. members[p] \in M!Member
        OBVIOUS
    <2>2. [members[p] EXCEPT !.fresh = FALSE] \in M!Member
        BY <2>1
    <2>3. members' = [members EXCEPT ![p] = [members[p] EXCEPT !.fresh = FALSE]]
        BY <1>12 DEF M!LinkExpires
    <2>4. members' \in [People -> M!Member]
        BY <2>2, <2>3
    <2>5. \A q \in People : members'[q].status = members[q].status /\ members'[q].role = members[q].role
        BY <2>1, <2>3
    <2>6. UNCHANGED <<links, reqs>>
        BY <1>12 DEF M!LinkExpires
    <2>7. M!TypeOK' /\ SparesFounder' /\ AssignsRoles'
        BY <2>4, <2>6
    <2>8. FounderOwns'
        BY <2>5
    <2> QED BY <2>7, <2>8
<1> QED BY <1>2, <1>3, <1>4, <1>6, <1>7, <1>8, <1>9, <1>10, <1>11, <1>12 DEF M!Next

LEMMA MembersFixed ==
    ASSUME OwnerInv, UNCHANGED memberVars
    PROVE  OwnerInv'
BY DEF OwnerInv, M!TypeOK, SparesFounder, FounderOwns, AssignsRoles, memberVars

LEMMA OwnerInit == ASSUME Init PROVE OwnerInv
<1> USE WorkspaceAssumption DEF Init, M!Init, M!Member, M!Roles, M!Absent
<1> DEFINE owner == [M!Absent EXCEPT !.status = "ACTIVE", !.role = "OWNER"]
<1>1. M!Absent \in M!Member /\ owner \in M!Member /\ owner.status = "ACTIVE" /\ owner.role = "OWNER"
    OBVIOUS
<1>2. members \in [People -> M!Member] /\ FounderOwns
    BY <1>1 DEF FounderOwns
<1>3. reqs \in [Reqs -> M!Request] /\ SparesFounder /\ AssignsRoles
    BY DEF M!Idle, M!Request, SparesFounder, AssignsRoles
<1>4. links \in Seq(People)
    OBVIOUS
<1> QED BY <1>2, <1>3, <1>4 DEF OwnerInv, M!TypeOK

LEMMA OwnerKept == ASSUME OwnerInv, [Next]_vars PROVE OwnerInv'
<1>1. CASE UNCHANGED vars
    BY <1>1, MembersFixed DEF vars
<1>2. CASE M!Next
    BY <1>2, MembersStep
<1>3. CASE UNCHANGED memberVars
    BY <1>3, MembersFixed
<1> QED BY <1>1, <1>2, <1>3 DEF Next, memberVars

LEMMA AlwaysOwner == Spec => []OwnerInv
BY OwnerInit, OwnerKept, PTL DEF Spec

(***************************************************************************)
(* The founder is the organization's one active OWNER at all times,        *)
(* whatever invitations, cancellations and role changes are handled        *)
(* together (updateMemberRole, cancelInvite, inviteMember).                *)
(***************************************************************************)
THEOREM OwnerStays == Spec => []OneOwner
<1>1. OwnerInv => OneOwner
    BY WorkspaceAssumption DEF OwnerInv, FounderOwns, OneOwner
<1> QED BY <1>1, AlwaysOwner, PTL

-----------------------------------------------------------------------------
(* The limits *)

(* The rows the refinement reads, and what of a request it depends on. *)
LEMMA SeatLimitBounded == SeatLimit \in 0..MaxSeats
BY WorkspaceAssumption DEF SeatLimit, Limit

LEMMA SiteLimitBounded == SiteLimit \in 0..MaxSites
BY WorkspaceAssumption DEF SiteLimit, Limit

LEMMA CountedFinite == IsFiniteSet(M!Counted) /\ Cardinality(M!Counted) \in Nat
<1>1. M!Counted \in SUBSET People
    BY DEF M!Counted
<1> QED BY <1>1, WorkspaceAssumption, FS_Subset, FS_CardinalityType

(* Each instance has a copy of FiniteSets; the copies agree. *)
LEMMA OneCardinality ==
    \A T : /\ M!Cardinality(T) = Cardinality(T) /\ SeatGate!Cardinality(T) = Cardinality(T)
           /\ U!Cardinality(T) = Cardinality(T) /\ UrlGate!Cardinality(T) = Cardinality(T)
           /\ S!Cardinality(T) = Cardinality(T) /\ SiteGate!Cardinality(T) = Cardinality(T)
BY DEF Cardinality, M!Cardinality, SeatGate!Cardinality, U!Cardinality, UrlGate!Cardinality,
       S!Cardinality, SiteGate!Cardinality

(* A step that leaves every status, and every request that is joining       *)
(* someone, as it was is a step the gate does not see.                      *)
LEMMA GateUnchanged ==
    ASSUME M!Counted' = M!Counted, Joining' = Joining
    PROVE  UNCHANGED SeatGate!gateVars
BY DEF SeatGate!gateVars

LEMMA SeatStep ==
    ASSUME OwnerInv, M!Next
    PROVE  [SeatGate!Next]_(SeatGate!gateVars)
<1> USE WorkspaceAssumption DEF OwnerInv, M!TypeOK
<1>1. ASSUME NEW r \in Reqs, NEW by \in People, NEW p \in People, NEW role \in M!Assignable,
             M!InviteRead(r, by, p, role)
      PROVE  SeatGate!Pass(r, p)
    <2>1. Joining[r] = NoPerson /\ Joining' = [Joining EXCEPT ![r] = p] /\ M!Counted' = M!Counted
        BY <1>1 DEF M!InviteRead, M!Begin, Joining, M!Counted
    <2>2. Cardinality(M!Counted) < MaxSeats
        BY <1>1, SeatLimitBounded, CountedFinite, OneCardinality DEF M!InviteRead
    <2> QED BY <2>1, <2>2, OneCardinality DEF SeatGate!Pass
<1>2. ASSUME NEW r \in Reqs, NEW p \in People, NEW k \in DOMAIN links, M!AcceptRead(r, p, k)
      PROVE  SeatGate!Renew(r, p)
    <2>1. Joining[r] = NoPerson /\ Joining' = [Joining EXCEPT ![r] = p] /\ M!Counted' = M!Counted
        BY <1>2 DEF M!AcceptRead, M!Begin, Joining, M!Counted
    <2>2. p \in M!Counted
        BY <1>2 DEF M!AcceptRead, M!Counted
    <2> QED BY <2>1, <2>2 DEF SeatGate!Renew
<1>3. ASSUME NEW r \in Reqs, NEW pc \in {"resend", "cancel", "role"}, NEW p, NEW role, NEW k,
             M!Begin(r, pc, p, role, k)
      PROVE  UNCHANGED SeatGate!gateVars
    <2>1. M!Counted' = M!Counted /\ Joining' = Joining
        BY <1>3 DEF M!Begin, Joining, M!Counted
    <2> QED BY <2>1, GateUnchanged
<1>4. ASSUME NEW r \in Reqs, M!End(r)
      PROVE  Joining' = [Joining EXCEPT ![r] = NoPerson]
    BY <1>4 DEF M!End, M!Idle, Joining
<1>5. ASSUME NEW r \in Reqs, reqs[r].pc \notin {"invite", "accept"}, M!End(r), M!Counted' = M!Counted
      PROVE  UNCHANGED SeatGate!gateVars
    <2>1. Joining' = Joining
        BY <1>4, <1>5 DEF Joining
    <2> QED BY <1>5, <2>1, GateUnchanged
<1>6. ASSUME NEW r \in Reqs, M!InviteWrite(r) PROVE SeatGate!Create(r) \/ SeatGate!GiveUp(r)
    <2>1. Joining[r] = reqs[r].person /\ Joining[r] # NoPerson /\ Joining' = [Joining EXCEPT ![r] = NoPerson]
        BY <1>4, <1>6 DEF M!InviteWrite, Joining, M!Request
    <2>2. CASE members[reqs[r].person].status = "none"
        <3>1. M!Counted' = M!Counted \cup {reqs[r].person}
            BY <1>6, <2>2 DEF M!InviteWrite, M!Counted, M!Request
        <3> QED BY <2>1, <3>1 DEF SeatGate!Create
    <2>3. CASE members[reqs[r].person].status # "none"
        <3>1. M!Counted' = M!Counted
            BY <1>6, <2>3 DEF M!InviteWrite, M!Counted
        <3> QED BY <2>1, <3>1 DEF SeatGate!GiveUp
    <2> QED BY <2>2, <2>3
<1>7. ASSUME NEW r \in Reqs, M!ResendWrite(r) PROVE UNCHANGED SeatGate!gateVars
    <2>1. M!Counted' = M!Counted
        BY <1>7 DEF M!ResendWrite, M!Counted, M!Member
    <2> QED BY <1>5, <1>7, <2>1 DEF M!ResendWrite
<1>8. ASSUME NEW r \in Reqs, M!CancelWrite(r) PROVE SeatGate!Release(reqs[r].person)
    <2>1. M!Counted' = M!Counted \ {reqs[r].person}
        BY <1>8 DEF M!CancelWrite, M!Counted, M!Member
    <2>2. Joining' = Joining
        BY <1>4, <1>8 DEF M!CancelWrite, Joining
    <2> QED BY <2>1, <2>2 DEF SeatGate!Release
<1>9. ASSUME NEW r \in Reqs, M!AcceptWrite(r) PROVE SeatGate!Create(r)
    <2>1. Joining[r] = reqs[r].person /\ Joining[r] # NoPerson /\ Joining' = [Joining EXCEPT ![r] = NoPerson]
        BY <1>4, <1>9 DEF M!AcceptWrite, Joining, M!Request
    <2>2. M!Counted' = M!Counted \cup {reqs[r].person}
        BY <1>9 DEF M!AcceptWrite, M!Counted, M!Member, M!Request
    <2> QED BY <2>1, <2>2 DEF SeatGate!Create
<1>10. ASSUME NEW r \in Reqs, M!RoleWrite(r) PROVE UNCHANGED SeatGate!gateVars
    <2>1. M!Counted' = M!Counted
        BY <1>10 DEF M!RoleWrite, M!Counted, M!Member
    <2> QED BY <1>5, <1>10, <2>1 DEF M!RoleWrite
<1>11. ASSUME NEW r \in Reqs, M!Abandon(r) PROVE SeatGate!GiveUp(r)
    <2>1. M!Counted' = M!Counted /\ M!End(r)
        BY <1>11 DEF M!Abandon, M!Counted
    <2> QED BY <1>4, <2>1 DEF SeatGate!GiveUp
<1>12. ASSUME NEW p \in People, M!LinkExpires(p) PROVE UNCHANGED SeatGate!gateVars
    <2>1. M!Counted' = M!Counted
        BY <1>12 DEF M!LinkExpires, M!Counted, M!Member
    <2>2. Joining' = Joining
        BY <1>12 DEF M!LinkExpires, Joining
    <2> QED BY <2>1, <2>2, GateUnchanged
<1>13. ASSUME NEW r \in Reqs, NEW by \in People, NEW p \in People, NEW role \in M!Assignable,
              M!RoleRead(r, by, p, role) \/ M!ResendRead(r, by, p) \/ M!CancelRead(r, by, p)
       PROVE  UNCHANGED SeatGate!gateVars
    BY <1>3, <1>13 DEF M!RoleRead, M!ResendRead, M!CancelRead
<1>14. "VIEWER" \in M!Assignable
    BY DEF M!Assignable, M!Roles
<1>15. ASSUME NEW r \in Reqs PROVE reqs[r].person \in People
    BY DEF M!Request
<1> QED BY <1>1, <1>2, <1>6, <1>7, <1>8, <1>9, <1>10, <1>11, <1>12, <1>13, <1>14, <1>15
    DEF M!Next, SeatGate!Next

LEMMA SeatsInit == ASSUME Init PROVE SeatGate!Init
<1>1. M!Counted = {Founder}
    BY WorkspaceAssumption DEF Init, M!Init, M!Absent, M!Counted
<1>2. Joining = [r \in Reqs |-> NoPerson]
    BY DEF Init, M!Init, M!Idle, Joining
<1>3. Cardinality({Founder}) = 1
    BY FS_Singleton
<1> QED BY <1>1, <1>2, <1>3, WorkspaceAssumption, OneCardinality DEF SeatGate!Init

(***************************************************************************)
(* The members of an organization implement CapacityGate with the largest  *)
(* plan's limit, whatever billing allows at each moment (inviteMember,     *)
(* acceptInvite, cancelInvite).                                            *)
(***************************************************************************)
THEOREM SeatsAreGated == Spec => SeatsImplementGate
<1>1. Init => SeatGate!Init
    BY SeatsInit
<1>2. OwnerInv /\ [Next]_vars => [SeatGate!Next]_(SeatGate!gateVars)
    <2> SUFFICES ASSUME OwnerInv, [Next]_vars PROVE [SeatGate!Next]_(SeatGate!gateVars)
        OBVIOUS
    <2>1. CASE M!Next
        BY <2>1, SeatStep
    <2>2. CASE UNCHANGED memberVars
        BY <2>2, GateUnchanged DEF memberVars, M!Counted, Joining
    <2> QED BY <2>1, <2>2 DEF Next, vars, memberVars
<1> QED BY <1>1, <1>2, AlwaysOwner, PTL DEF Spec, SeatsImplementGate, SeatGate!Spec

LEMMA UrlTypesKept == ASSUME U!UrlTypes, U!Next PROVE U!UrlTypes'
<1> USE DEF U!UrlTypes, U!UrlRequest
<1>1. ASSUME NEW r \in UrlReqs, NEW u \in Urls, NEW pc \in {"create", "resume", "pause"}, U!Begin(r, pc, u)
      PROVE  U!UrlTypes'
    BY <1>1 DEF U!Begin
<1>2. ASSUME NEW r \in UrlReqs, U!End(r) PROVE urlReqs' \in [UrlReqs -> U!UrlRequest]
    BY <1>2 DEF U!End, U!IdleUrl
<1>3. ASSUME NEW r \in UrlReqs, U!CreateWrite(r) \/ U!ResumeWrite(r) \/ U!PauseWrite(r) \/ U!AbandonUrl(r)
      PROVE  U!UrlTypes'
    <2>1. watched' \in [Urls -> {"none", "active", "paused"}]
        BY <1>3 DEF U!CreateWrite, U!ResumeWrite, U!PauseWrite, U!AbandonUrl
    <2>2. U!End(r)
        BY <1>3 DEF U!CreateWrite, U!ResumeWrite, U!PauseWrite, U!AbandonUrl
    <2> QED BY <1>2, <2>1, <2>2
<1> QED BY <1>1, <1>3 DEF U!Next, U!CreateRead, U!ResumeRead, U!PauseRead

(* What a request is about to write is a URL. *)
UrlInv ==
    /\ U!UrlTypes
    /\ \A r \in UrlReqs : urlReqs[r].pc # "idle" => urlReqs[r].url \in Urls

LEMMA UrlInvKept == ASSUME UrlInv, [Next]_vars PROVE UrlInv'
<1>1. CASE U!Next
    <2>1. U!UrlTypes'
        BY <1>1, UrlTypesKept DEF UrlInv
    <2>2. ASSUME NEW r \in UrlReqs, NEW u \in Urls, NEW pc, U!Begin(r, pc, u)
          PROVE  UrlInv'
        BY <2>1, <2>2 DEF UrlInv, U!Begin, U!UrlTypes
    <2>3. ASSUME NEW r \in UrlReqs, U!End(r) PROVE UrlInv'
        BY <2>1, <2>3 DEF UrlInv, U!End, U!IdleUrl, U!UrlTypes
    <2> QED BY <1>1, <2>2, <2>3 DEF U!Next, U!CreateRead, U!ResumeRead, U!PauseRead, U!CreateWrite,
            U!ResumeWrite, U!PauseWrite, U!AbandonUrl
<1>2. CASE UNCHANGED urlVars
    BY <1>2 DEF UrlInv, U!UrlTypes, urlVars
<1> QED BY <1>1, <1>2 DEF Next, vars, urlVars

LEMMA UrlStep ==
    ASSUME UrlInv, U!Next
    PROVE  [UrlGate!Next]_(UrlGate!gateVars)
<1> USE WorkspaceAssumption DEF UrlInv, U!UrlTypes
<1>1. IsFiniteSet(U!Active) /\ Cardinality(U!Active) \in Nat
    BY FS_Subset, FS_CardinalityType DEF U!Active
<1>2. ASSUME NEW r \in UrlReqs, NEW u \in Urls, U!CreateRead(r, u) PROVE UrlGate!Pass(r, u)
    <2>1. Starting[r] = NoUrl /\ Starting' = [Starting EXCEPT ![r] = u] /\ U!Active' = U!Active
        BY <1>2 DEF U!CreateRead, U!Begin, Starting, U!Active
    <2>2. Cardinality(U!Active) < MaxActive
        BY <1>2, OneCardinality DEF U!CreateRead
    <2> QED BY <2>1, <2>2, OneCardinality DEF UrlGate!Pass
<1>3. ASSUME NEW r \in UrlReqs, NEW u \in Urls, U!ResumeRead(r, u)
      PROVE  UrlGate!Pass(r, u) \/ UrlGate!Renew(r, u)
    <2>1. Starting[r] = NoUrl /\ Starting' = [Starting EXCEPT ![r] = u] /\ U!Active' = U!Active
        BY <1>3 DEF U!ResumeRead, U!Begin, Starting, U!Active
    <2>2. CASE watched[u] = "active"
        BY <2>1, <2>2 DEF UrlGate!Renew, U!Active
    <2>3. CASE watched[u] = "paused"
        <3>1. Cardinality(U!Active) < MaxActive
            BY <1>3, <2>3, OneCardinality DEF U!ResumeRead
        <3> QED BY <2>1, <3>1, OneCardinality DEF UrlGate!Pass
    <2> QED BY <1>3, <2>2, <2>3 DEF U!ResumeRead
<1>4. ASSUME NEW r \in UrlReqs, NEW u \in Urls, U!PauseRead(r, u) PROVE UNCHANGED UrlGate!gateVars
    <2>1. Starting' = Starting /\ U!Active' = U!Active
        BY <1>4 DEF U!PauseRead, U!Begin, Starting, U!Active
    <2> QED BY <2>1 DEF UrlGate!gateVars
<1>5. ASSUME NEW r \in UrlReqs, U!End(r) PROVE Starting' = [Starting EXCEPT ![r] = NoUrl]
    BY <1>5 DEF U!End, U!IdleUrl, Starting
<1>6. ASSUME NEW r \in UrlReqs, U!CreateWrite(r) PROVE UrlGate!Create(r) \/ UrlGate!GiveUp(r)
    <2>1. Starting[r] = urlReqs[r].url /\ Starting[r] # NoUrl /\ Starting' = [Starting EXCEPT ![r] = NoUrl]
        BY <1>5, <1>6 DEF U!CreateWrite, Starting
    <2>2. CASE watched[urlReqs[r].url] = "none"
        <3>1. U!Active' = U!Active \cup {urlReqs[r].url}
            BY <1>6, <2>2 DEF U!CreateWrite, U!Active
        <3> QED BY <2>1, <3>1 DEF UrlGate!Create
    <2>3. CASE watched[urlReqs[r].url] # "none"
        <3>1. U!Active' = U!Active
            BY <1>6, <2>3 DEF U!CreateWrite, U!Active
        <3> QED BY <2>1, <3>1 DEF UrlGate!GiveUp
    <2> QED BY <2>2, <2>3
<1>7. ASSUME NEW r \in UrlReqs, U!ResumeWrite(r) PROVE UrlGate!Create(r)
    <2>1. Starting[r] = urlReqs[r].url /\ Starting[r] # NoUrl /\ Starting' = [Starting EXCEPT ![r] = NoUrl]
        BY <1>5, <1>7 DEF U!ResumeWrite, Starting
    <2>2. U!Active' = U!Active \cup {urlReqs[r].url}
        BY <1>7 DEF U!ResumeWrite, U!Active
    <2> QED BY <2>1, <2>2 DEF UrlGate!Create
<1>8. ASSUME NEW r \in UrlReqs, U!PauseWrite(r) PROVE UrlGate!Release(urlReqs[r].url)
    <2>1. Starting' = Starting
        BY <1>5, <1>8 DEF U!PauseWrite, Starting
    <2>2. U!Active' = U!Active \ {urlReqs[r].url}
        BY <1>8 DEF U!PauseWrite, U!Active
    <2> QED BY <2>1, <2>2 DEF UrlGate!Release
<1>9. ASSUME NEW r \in UrlReqs, U!AbandonUrl(r) PROVE UrlGate!GiveUp(r)
    <2>1. U!Active' = U!Active /\ U!End(r)
        BY <1>9 DEF U!AbandonUrl, U!Active
    <2> QED BY <1>5, <2>1 DEF UrlGate!GiveUp
<1>10. ASSUME NEW r \in UrlReqs, U!PauseWrite(r) PROVE urlReqs[r].url \in Urls
    BY <1>10 DEF U!PauseWrite
<1> QED BY <1>2, <1>3, <1>4, <1>6, <1>7, <1>8, <1>9, <1>10 DEF U!Next, UrlGate!Next

LEMMA UrlsInit == ASSUME Init PROVE UrlInv /\ UrlGate!Init
<1>1. U!Active = {}
    BY DEF Init, U!Init, U!Active
<1>2. Starting = [r \in UrlReqs |-> NoUrl]
    BY DEF Init, U!Init, U!IdleUrl, Starting
<1>3. Cardinality({}) = 0
    BY FS_EmptySet
<1>4. UrlInv
    BY DEF Init, U!Init, U!IdleUrl, UrlInv, U!UrlTypes, U!UrlRequest
<1> QED BY <1>1, <1>2, <1>3, <1>4, WorkspaceAssumption, OneCardinality DEF UrlGate!Init

(***************************************************************************)
(* The active monitored URLs of a site implement CapacityGate with the     *)
(* per-site limit, although a resume of an active row is not counted       *)
(* (createMonitoredUrlForSite, updateMonitoredUrlStatus).                  *)
(***************************************************************************)
THEOREM UrlsAreGated == Spec => UrlsImplementGate
<1>1. Init => UrlInv /\ UrlGate!Init
    BY UrlsInit
<1>2. UrlInv /\ [Next]_vars => UrlInv'
    BY UrlInvKept
<1>3. UrlInv /\ [Next]_vars => [UrlGate!Next]_(UrlGate!gateVars)
    <2> SUFFICES ASSUME UrlInv, [Next]_vars PROVE [UrlGate!Next]_(UrlGate!gateVars)
        OBVIOUS
    <2>1. CASE U!Next
        BY <2>1, UrlStep
    <2>2. CASE UNCHANGED urlVars
        BY <2>2 DEF urlVars, U!Active, Starting, UrlGate!gateVars
    <2> QED BY <2>1, <2>2 DEF Next, vars, urlVars
<1> QED BY <1>1, <1>2, <1>3, PTL DEF Spec, UrlsImplementGate, UrlGate!Spec

(* Sites are never removed, and the requests the gate sees are all there are. *)
LEMMA SiteTypesKept == ASSUME S!SiteTypes, [Next]_vars PROVE S!SiteTypes'
<1> USE DEF S!SiteTypes
<1>1. CASE S!Next
    BY <1>1 DEF S!Next, S!SiteRead, S!SiteWrite, S!AbandonSite
<1>2. CASE UNCHANGED siteVars
    BY <1>2 DEF siteVars
<1> QED BY <1>1, <1>2 DEF Next, vars, siteVars

LEMMA SiteStep ==
    ASSUME S!SiteTypes, S!Next
    PROVE  SiteGate!Next
<1> USE WorkspaceAssumption DEF S!SiteTypes
<1>1. IsFiniteSet(sites) /\ Cardinality(sites) \in Nat
    BY FS_Subset, FS_CardinalityType
<1>2. ASSUME NEW r \in SiteReqs, NEW s \in SiteUrls, S!SiteRead(r, s) PROVE SiteGate!Pass(r, s)
    <2>1. Cardinality(sites) < MaxSites
        BY <1>1, <1>2, SiteLimitBounded, OneCardinality DEF S!SiteRead
    <2> QED BY <1>2, <2>1, OneCardinality DEF S!SiteRead, SiteGate!Pass
<1>3. ASSUME NEW r \in SiteReqs, S!SiteWrite(r) PROVE SiteGate!Create(r)
    BY <1>3 DEF S!SiteWrite, SiteGate!Create
<1>4. ASSUME NEW r \in SiteReqs, S!AbandonSite(r) PROVE SiteGate!GiveUp(r)
    BY <1>4 DEF S!AbandonSite, SiteGate!GiveUp
<1> QED BY <1>2, <1>3, <1>4 DEF S!Next, SiteGate!Next

LEMMA SitesInit == ASSUME Init PROVE S!SiteTypes /\ SiteGate!Init
<1>1. Cardinality({}) = 0
    BY FS_EmptySet
<1> QED BY <1>1, WorkspaceAssumption, OneCardinality DEF Init, S!Init, S!SiteTypes, SiteGate!Init

(***************************************************************************)
(* The sites of an organization implement CapacityGate with the largest    *)
(* plan's limit, whatever billing allows at each moment (createSite).      *)
(***************************************************************************)
THEOREM SitesAreGated == Spec => SitesImplementGate
<1>1. Init => S!SiteTypes /\ SiteGate!Init
    BY SitesInit
<1>2. S!SiteTypes /\ [Next]_vars => S!SiteTypes'
    BY SiteTypesKept
<1>3. S!SiteTypes /\ [Next]_vars => [SiteGate!Next]_(SiteGate!gateVars)
    <2> SUFFICES ASSUME S!SiteTypes, [Next]_vars PROVE [SiteGate!Next]_(SiteGate!gateVars)
        OBVIOUS
    <2>1. CASE S!Next
        BY <2>1, SiteStep
    <2>2. CASE UNCHANGED siteVars
        BY <2>2 DEF siteVars, SiteGate!gateVars
    <2> QED BY <2>1, <2>2 DEF Next, vars, siteVars
<1> QED BY <1>1, <1>2, <1>3, PTL DEF Spec, SitesImplementGate, SiteGate!Spec

(***************************************************************************)
(* All three limits of an organization are gates, for any plans, and any   *)
(* number of requests, webhook deliveries and things (inviteMember,        *)
(* createSite, createMonitoredUrlForSite).                                 *)
(***************************************************************************)
THEOREM LimitsAreGated == Spec => LimitsImplementGate
BY SeatsAreGated, SitesAreGated, UrlsAreGated DEF LimitsImplementGate

SB == INSTANCE CapacityGateProofs WITH
    Things <- People, Nothing <- NoPerson, Cap <- MaxSeats, held <- M!Counted, pending <- Joining

(***************************************************************************)
(* However invitations, acceptances and cancellations of an organization   *)
(* are handled together, its counted members exceed the largest plan's     *)
(* limit by at most one per further request in flight (SECURITY.md:112     *)
(* asks for the limit itself, which one request at a time keeps).          *)
(***************************************************************************)
THEOREM SeatsBounded == Spec => [](Cardinality(M!Counted) <= MaxSeats + Cardinality(Reqs) - 1)
<1>1. SB!GateParameters
    BY WorkspaceAssumption DEF SB!GateParameters, SB!IsFiniteSet, IsFiniteSet
<1>2. SB!Spec => []SB!NoFurtherOverrun
    BY <1>1, SB!OverrunBounded
<1>3. SeatGate!Init => SB!Init
    BY DEF SeatGate!Init, SB!Init, SeatGate!Cardinality, SB!Cardinality
<1>4. [SeatGate!Next]_(SeatGate!gateVars) => [SB!Next]_(SB!gateVars)
    BY DEF SeatGate!Next, SB!Next, SeatGate!gateVars, SB!gateVars, SeatGate!Pass, SB!Pass, SeatGate!Renew,
           SB!Renew, SeatGate!Create, SB!Create, SeatGate!GiveUp, SB!GiveUp, SeatGate!Release, SB!Release,
           SeatGate!Cardinality, SB!Cardinality
<1>5. SeatsImplementGate => SB!Spec
    BY <1>3, <1>4, PTL DEF SeatsImplementGate, SeatGate!Spec, SB!Spec
<1>6. SB!NoFurtherOverrun => Cardinality(M!Counted) <= MaxSeats + Cardinality(Reqs) - 1
    BY DEF SB!NoFurtherOverrun, SB!Cardinality, Cardinality
<1> QED BY <1>2, <1>5, <1>6, SeatsAreGated, PTL

STB == INSTANCE CapacityGateProofs WITH
    Things <- SiteUrls, Reqs <- SiteReqs, Nothing <- NoSite, Cap <- MaxSites, held <- sites, pending <- siteReqs

(***************************************************************************)
(* However many sites are created together and whatever the plan becomes   *)
(* meanwhile, an organization has at most one site over the largest plan's *)
(* limit for each further request in flight (createSite).                  *)
(***************************************************************************)
THEOREM SitesBounded == Spec => [](Cardinality(sites) <= MaxSites + Cardinality(SiteReqs) - 1)
<1>1. STB!GateParameters
    BY WorkspaceAssumption DEF STB!GateParameters, STB!IsFiniteSet, IsFiniteSet
<1>2. STB!Spec => []STB!NoFurtherOverrun
    BY <1>1, STB!OverrunBounded
<1>3. SiteGate!Init => STB!Init
    BY DEF SiteGate!Init, STB!Init, SiteGate!Cardinality, STB!Cardinality
<1>4. [SiteGate!Next]_(SiteGate!gateVars) => [STB!Next]_(STB!gateVars)
    BY DEF SiteGate!Next, STB!Next, SiteGate!gateVars, STB!gateVars, SiteGate!Pass, STB!Pass, SiteGate!Renew,
           STB!Renew, SiteGate!Create, STB!Create, SiteGate!GiveUp, STB!GiveUp, SiteGate!Release, STB!Release,
           SiteGate!Cardinality, STB!Cardinality
<1>5. SitesImplementGate => STB!Spec
    BY <1>3, <1>4, PTL DEF SitesImplementGate, SiteGate!Spec, STB!Spec
<1>6. STB!NoFurtherOverrun => Cardinality(sites) <= MaxSites + Cardinality(SiteReqs) - 1
    BY DEF STB!NoFurtherOverrun, STB!Cardinality, Cardinality
<1> QED BY <1>2, <1>5, <1>6, SitesAreGated, PTL

UB == INSTANCE CapacityGateProofs WITH
    Things <- Urls, Reqs <- UrlReqs, Nothing <- NoUrl, Cap <- MaxActive, held <- U!Active, pending <- Starting

(***************************************************************************)
(* However URLs are added, paused and resumed together, a site monitors at *)
(* most one URL over its limit for each further request in flight          *)
(* (createMonitoredUrlForSite, updateMonitoredUrlStatus).                  *)
(***************************************************************************)
THEOREM UrlsBounded == Spec => [](Cardinality(U!Active) <= MaxActive + Cardinality(UrlReqs) - 1)
<1>1. UB!GateParameters
    BY WorkspaceAssumption DEF UB!GateParameters, UB!IsFiniteSet, IsFiniteSet
<1>2. UB!Spec => []UB!NoFurtherOverrun
    BY <1>1, UB!OverrunBounded
<1>3. UrlGate!Init => UB!Init
    BY DEF UrlGate!Init, UB!Init, UrlGate!Cardinality, UB!Cardinality
<1>4. [UrlGate!Next]_(UrlGate!gateVars) => [UB!Next]_(UB!gateVars)
    BY DEF UrlGate!Next, UB!Next, UrlGate!gateVars, UB!gateVars, UrlGate!Pass, UB!Pass, UrlGate!Renew,
           UB!Renew, UrlGate!Create, UB!Create, UrlGate!GiveUp, UB!GiveUp, UrlGate!Release, UB!Release,
           UrlGate!Cardinality, UB!Cardinality
<1>5. UrlsImplementGate => UB!Spec
    BY <1>3, <1>4, PTL DEF UrlsImplementGate, UrlGate!Spec, UB!Spec
<1>6. UB!NoFurtherOverrun => Cardinality(U!Active) <= MaxActive + Cardinality(UrlReqs) - 1
    BY DEF UB!NoFurtherOverrun, UB!Cardinality, Cardinality
<1> QED BY <1>2, <1>5, <1>6, UrlsAreGated, PTL

-----------------------------------------------------------------------------
(* Requests one at a time *)

(* Where the setting allows one request, at most one is in flight. *)
Alone == OneAtATime => InFlight <= 1

LEMMA BusyFinite ==
    /\ IsFiniteSet(M!Busy) /\ IsFiniteSet(B!BusyCalls)
    /\ IsFiniteSet(U!BusyUrls) /\ IsFiniteSet(S!BusySites)
<1>1. M!Busy \in SUBSET Reqs /\ B!BusyCalls \in SUBSET Calls
    BY DEF M!Busy, B!BusyCalls
<1>2. U!BusyUrls \in SUBSET UrlReqs /\ S!BusySites \in SUBSET SiteReqs
    BY DEF U!BusyUrls, S!BusySites
<1> QED BY <1>1, <1>2, WorkspaceAssumption, FS_Subset

LEMMA AloneInit == ASSUME Init PROVE Alone
<1>1. M!Busy = {} /\ B!BusyCalls = {} /\ U!BusyUrls = {} /\ S!BusySites = {}
    BY DEF Init, M!Init, M!Idle, M!Busy, B!Init, B!IdleCall, B!BusyCalls, U!Init, U!IdleUrl, U!BusyUrls,
           S!Init, S!BusySites
<1>2. Cardinality({}) = 0
    BY FS_EmptySet
<1> QED BY <1>1, <1>2 DEF Alone, InFlight

LEMMA AloneKept == ASSUME Alone, [Next]_vars PROVE Alone'
<1>1. CASE Next
    BY <1>1 DEF Alone, OneAtATime, Next, Within
<1>2. CASE UNCHANGED vars
    BY <1>2 DEF Alone, OneAtATime, InFlight, M!Busy, B!BusyCalls, U!BusyUrls, S!BusySites, vars, memberVars,
                billingVars, urlVars, siteVars
<1> QED BY <1>1, <1>2

(* A finite set of at most one element. *)
LEMMA AtMostOne ==
    ASSUME NEW T, IsFiniteSet(T), Cardinality(T) <= 1, NEW x \in T, NEW y \in T
    PROVE  x = y
<1>1. Cardinality(T) = 0 \/ Cardinality(T) = 1
    BY FS_CardinalityType
<1>2. CASE Cardinality(T) = 0
    BY <1>2, FS_EmptySet
<1>3. CASE Cardinality(T) = 1
    <2>1. PICK z : T = {z}
        BY <1>3, FS_Singleton
    <2> QED BY <2>1
<1> QED BY <1>1, <1>2, <1>3

(* What is in flight is all there is. *)
LEMMA Apart ==
    ASSUME Alone, OneAtATime
    PROVE  /\ \A x \in M!Busy, y \in M!Busy : x = y
           /\ \A x \in B!BusyCalls, y \in B!BusyCalls : x = y
           /\ \A x \in U!BusyUrls, y \in U!BusyUrls : x = y
           /\ \A x \in S!BusySites, y \in S!BusySites : x = y
           /\ M!Busy # {} => B!BusyCalls = {}
           /\ S!BusySites # {} => B!BusyCalls = {}
<1> DEFINE m == Cardinality(M!Busy)
           b == Cardinality(B!BusyCalls)
           u == Cardinality(U!BusyUrls)
           s == Cardinality(S!BusySites)
<1>1. m \in Nat /\ b \in Nat /\ u \in Nat /\ s \in Nat
    BY BusyFinite, FS_CardinalityType
<1>2. m + b + u + s <= 1
    BY DEF Alone, InFlight
<1>3. m <= 1 /\ b <= 1 /\ u <= 1 /\ s <= 1 /\ (m = 0 \/ b = 0) /\ (s = 0 \/ b = 0)
    BY <1>1, <1>2
<1>4. /\ m = 0 => M!Busy = {}
      /\ b = 0 => B!BusyCalls = {}
      /\ s = 0 => S!BusySites = {}
    BY BusyFinite, FS_EmptySet
<1>5. /\ \A x \in M!Busy, y \in M!Busy : x = y
      /\ \A x \in B!BusyCalls, y \in B!BusyCalls : x = y
      /\ \A x \in U!BusyUrls, y \in U!BusyUrls : x = y
      /\ \A x \in S!BusySites, y \in S!BusySites : x = y
    BY <1>3, BusyFinite, AtMostOne
<1> QED BY <1>3, <1>4, <1>5

-----------------------------------------------------------------------------
(* Subscription rows *)

Keys == {B!NoKey} \cup Codes \cup {kind.customer : kind \in EventKinds}
Plans == DOMAIN Seats \cap DOMAIN SiteCaps

Row == [id: Nat, provider: {"none", "stripe", "grant"}, key: Keys, status: B!Statuses, plan: Plans]

(* There is always a row; the ids are the numbers of the rows, in any order. *)
RowsInv ==
    /\ rows \in Seq(Row) /\ Len(rows) >= 1
    /\ \A i \in 1..Len(rows) : rows[i].id \in 1..Len(rows)
    /\ \A i, j \in 1..Len(rows) : rows[i].id = rows[j].id => i = j
    /\ \A n \in 1..Len(rows) : \E i \in 1..Len(rows) : rows[i].id = n

LEMMA RowsLength == RowsInv => /\ Len(rows) \in Nat /\ DOMAIN rows = 1..Len(rows)
                               /\ \A i \in 1..Len(rows) : rows[i] \in Row /\ rows[i].id \in 1..Len(rows)
<1> SUFFICES ASSUME RowsInv
             PROVE  /\ Len(rows) \in Nat /\ DOMAIN rows = 1..Len(rows)
                    /\ \A i \in 1..Len(rows) : rows[i] \in Row /\ rows[i].id \in 1..Len(rows)
    OBVIOUS
<1>1. rows \in Seq(Row) /\ \A i \in 1..Len(rows) : rows[i].id \in 1..Len(rows)
    BY DEF RowsInv
<1>2. Len(rows) \in Nat /\ DOMAIN rows = 1..Len(rows) /\ \A i \in 1..Len(rows) : rows[i] \in Row
    BY <1>1
<1> QED BY <1>1, <1>2

LEMMA RowsLengthNext == RowsInv' => Len(rows') \in Nat
<1>1. (RowsInv => Len(rows) \in Nat)'
    BY RowsLength, PTL
<1> QED BY <1>1

LEMMA RowsFixed == ASSUME RowsInv, UNCHANGED rows PROVE RowsInv' /\ Len(rows') >= Len(rows)
<1>1. Len(rows) \in Nat /\ Len(rows') = Len(rows)
    BY DEF RowsInv
<1>2. RowsInv' = RowsInv
    BY DEF RowsInv
<1> QED BY <1>1, <1>2

(* What events, codes and requests in flight refer to is there. *)
Code == [issued: BOOLEAN, revoked: BOOLEAN, redeemed: BOOLEAN]
Call == [pc: {"idle", "webhook", "redeem", "revoke"}, event: Nat, row: Nat, code: {B!NoKey} \cup Codes]

CallFits(call) ==
    /\ call \in Call
    /\ call.event \in {0} \cup 1..Len(sent)
    /\ call.row \in {0} \cup 1..Len(rows)
    /\ call.pc = "webhook" => call.event # 0
    /\ call.pc \in {"redeem", "revoke"} => call.code \in Codes

LedgerFits ==
    /\ sent \in Seq(EventKinds)
    /\ ledger \in Seq(Nat) /\ \A i \in 1..Len(ledger) : ledger[i] \in 1..Len(sent)

CodesFit == codes \in [Codes -> Code] /\ trialOver \in BOOLEAN

CallsFit ==
    /\ calls = [c \in Calls |-> calls[c]]
    /\ \A c \in Calls : CallFits(calls[c])

CallsInv == LedgerFits /\ CodesFit /\ CallsFit

BillingInv == RowsInv /\ CallsInv

(* The largest of some numbers up to n. *)
LEMMA Largest ==
    ASSUME NEW n \in Nat, NEW T, T \subseteq 1..n, T # {}
    PROVE  /\ B!Max(T) \in T /\ \A y \in T : y <= B!Max(T)
           /\ \A x \in T : (\A y \in T : y <= x) => B!Max(T) = x
<1> DEFINE R == {n - y : y \in T}
<1>1. R \subseteq Nat /\ R # {}
    <2>1. \A y \in T : n - y \in Nat
        OBVIOUS
    <2>2. PICK y \in T : TRUE
        OBVIOUS
    <2>3. n - y \in R
        BY <2>2
    <2> QED BY <2>1, <2>3
<1>2. \E z \in R : \A y \in R : ~(<<y, z>> \in OpToRel(<, Nat))
    BY <1>1, WFMin, NatLessThanWellFounded
<1>3. PICK z \in R : \A y \in R : ~(y < z)
    BY <1>1, <1>2 DEF OpToRel
<1>4. PICK x \in T : z = n - x
    OBVIOUS
<1>5. \A y \in T : x >= y
    <2> TAKE y \in T
    <2>1. ~(n - y < n - x)
        BY <1>3, <1>4
    <2> QED BY <2>1
<1>6. \A y \in T : y \in Int
    OBVIOUS
<1>7. B!Max(T) \in T /\ \A y \in T : B!Max(T) >= y
    BY <1>5 DEF B!Max
<1>8. \A y \in T : y <= B!Max(T)
    BY <1>6, <1>7
<1>9. ASSUME NEW u \in T, \A y \in T : y <= u PROVE B!Max(T) = u
    <2>1. B!Max(T) <= u /\ u <= B!Max(T) /\ u \in Int /\ B!Max(T) \in Int
        BY <1>6, <1>7, <1>8, <1>9
    <2> QED BY <2>1
<1> QED BY <1>7, <1>8, <1>9

(* A sequence whose element at `at' is replaced by x at the end. *)
LEMMA MovedToEnd ==
    ASSUME NEW T, NEW s \in Seq(T), NEW at \in 1..Len(s), NEW x \in T
    PROVE  LET t == Append(B!RemoveAt(s, at), x)
           IN  /\ t \in Seq(T) /\ Len(t) = Len(s) /\ t[Len(s)] = x
               /\ \A j \in 1..(Len(s) - 1) : t[j] = IF j < at THEN s[j] ELSE s[j + 1]
<1> DEFINE a == SubSeq(s, 1, at - 1)
           b == SubSeq(s, at + 1, Len(s))
<1>1. /\ a \in Seq(T) /\ Len(a) = at - 1
      /\ \A i \in 1..(at - 1) : a[i] = s[i]
    <2>1. \A i \in 1..(at - 1) : s[i] \in T
        OBVIOUS
    <2> QED BY <2>1, SubSeqProperties
<1>2. /\ b \in Seq(T) /\ Len(b) = Len(s) - at
      /\ \A i \in 1..(Len(s) - at) : b[i] = s[at + i]
    <2>1. \A i \in (at + 1)..Len(s) : s[i] \in T
        OBVIOUS
    <2> QED BY <2>1, SubSeqProperties
<1> HIDE DEF a, b
<1>3. /\ a \o b \in Seq(T) /\ Len(a \o b) = Len(s) - 1
      /\ \A i \in 1..(Len(s) - 1) : (a \o b)[i] = IF i < at THEN s[i] ELSE s[i + 1]
    <2>1. /\ a \o b \in Seq(T) /\ Len(a \o b) = Len(a) + Len(b)
          /\ \A i \in 1..(Len(a) + Len(b)) : (a \o b)[i] = IF i <= Len(a) THEN a[i] ELSE b[i - Len(a)]
        BY <1>1, <1>2, ConcatProperties
    <2>2. Len(a \o b) = Len(s) - 1
        BY <1>1, <1>2, <2>1
    <2>3. ASSUME NEW i \in 1..(Len(s) - 1), i < at PROVE (a \o b)[i] = s[i]
        BY <1>1, <1>2, <2>1, <2>3
    <2>4. ASSUME NEW i \in 1..(Len(s) - 1), ~(i < at) PROVE (a \o b)[i] = s[i + 1]
        <3>1. i - Len(a) \in 1..(Len(s) - at) /\ at + (i - Len(a)) = i + 1 /\ ~(i <= Len(a))
            BY <1>1, <2>4
        <3>2. (a \o b)[i] = b[i - Len(a)]
            BY <1>1, <1>2, <2>1, <3>1
        <3> QED BY <1>2, <3>1, <3>2
    <2> QED BY <2>1, <2>2, <2>3, <2>4
<1>4. B!RemoveAt(s, at) = a \o b
    BY DEF B!RemoveAt, a, b
<1> DEFINE m == a \o b
<1> HIDE DEF m
<1>5. m \in Seq(T) /\ Len(m) = Len(s) - 1
      /\ \A i \in 1..(Len(s) - 1) : m[i] = IF i < at THEN s[i] ELSE s[i + 1]
    BY <1>3 DEF m
<1>6. /\ Append(m, x) \in Seq(T) /\ Len(Append(m, x)) = Len(s) /\ Append(m, x)[Len(s)] = x
      /\ \A j \in 1..(Len(s) - 1) : Append(m, x)[j] = m[j]
    BY <1>5
<1> QED BY <1>4, <1>5, <1>6 DEF m

(* Updating a row moves it to the end and keeps the others in order. *)
MovesRow(id, status, plan, at) ==
    /\ rows[at].id = id
    /\ rows' \in Seq(Row) /\ Len(rows') = Len(rows)
    /\ rows'[Len(rows)] = [rows[at] EXCEPT !.status = status, !.plan = plan]
    /\ \A j \in 1..(Len(rows) - 1) : rows'[j] = IF j < at THEN rows[j] ELSE rows[j + 1]

LEMMA Updated ==
    ASSUME RowsInv, NEW id \in 1..Len(rows), NEW status \in B!Statuses, NEW plan \in Plans,
           B!Update(id, status, plan)
    PROVE  \E at \in 1..Len(rows) : MovesRow(id, status, plan, at)
<1> DEFINE at == CHOOSE i \in DOMAIN rows : rows[i].id = id
           x == [rows[at] EXCEPT !.status = status, !.plan = plan]
<1>1. at \in 1..Len(rows) /\ rows[at].id = id
    <2>1. \E i \in 1..Len(rows) : rows[i].id = id
        BY DEF RowsInv
    <2>2. DOMAIN rows = 1..Len(rows)
        BY DEF RowsInv
    <2> QED BY <2>1, <2>2
<1>2. rows \in Seq(Row)
    BY DEF RowsInv
<1>3. rows' = Append(B!RemoveAt(rows, at), x)
    BY DEF B!Update
<1> HIDE DEF at
<1>4. x \in Row
    <2>1. rows[at] \in Row
        BY <1>1, <1>2
    <2> QED BY <2>1 DEF Row
<1> HIDE DEF x
<1>5. /\ rows' \in Seq(Row) /\ Len(rows') = Len(rows) /\ rows'[Len(rows)] = x
      /\ \A j \in 1..(Len(rows) - 1) : rows'[j] = IF j < at THEN rows[j] ELSE rows[j + 1]
    <2> DEFINE t == Append(B!RemoveAt(rows, at), x)
    <2>1. at \in 1..Len(rows)
        BY <1>1
    <2>2. /\ t \in Seq(Row) /\ Len(t) = Len(rows) /\ t[Len(rows)] = x
          /\ \A j \in 1..(Len(rows) - 1) : t[j] = IF j < at THEN rows[j] ELSE rows[j + 1]
        BY <1>2, <1>4, <2>1, MovedToEnd
    <2> HIDE DEF t
    <2>3. rows' = t
        BY <1>3 DEF t
    <2> QED BY <2>2, <2>3
<1> QED BY <1>1, <1>5 DEF x, MovesRow

LEMMA UpdateKeepsRows ==
    ASSUME RowsInv, NEW id \in 1..Len(rows), NEW status \in B!Statuses, NEW plan \in Plans,
           B!Update(id, status, plan)
    PROVE  RowsInv' /\ Len(rows') = Len(rows)
<1>1. PICK at \in 1..Len(rows) : MovesRow(id, status, plan, at)
    BY Updated
<1> DEFINE n == Len(rows)
           from(j) == IF j = n THEN at ELSE IF j < at THEN j ELSE j + 1
<1>2. n \in Nat /\ n >= 1 /\ rows \in Seq(Row)
    BY DEF RowsInv
<1>3. \A j \in 1..n : from(j) \in 1..n
    BY <1>2
<1>4. \A j, k \in 1..n : from(j) = from(k) => j = k
    BY <1>2
<1>5. \A k \in 1..n : \E j \in 1..n : from(j) = k
    <2> TAKE k \in 1..n
    <2>1. CASE k = at
        BY <1>2, <2>1
    <2>2. CASE k < at
        BY <1>2, <2>2
    <2>3. CASE k > at
        <3>1. k - 1 \in 1..n /\ from(k - 1) = k
            BY <1>2, <2>3
        <3> QED BY <3>1
    <2> QED BY <1>2, <2>1, <2>2, <2>3
<1>6. \A j \in 1..n : rows'[j].id = rows[from(j)].id
    <2>1. rows[at] \in Row
        BY <1>2
    <2>2. rows'[n].id = rows[at].id
        BY <1>1, <2>1 DEF Row, MovesRow
    <2>3. ASSUME NEW j \in 1..n, j # n PROVE rows'[j] = rows[from(j)]
        BY <1>1, <1>2, <2>3 DEF MovesRow
    <2> QED BY <2>2, <2>3
<1> HIDE DEF from
<1>7. /\ \A i \in 1..n : rows[i].id \in 1..n
      /\ \A i, j \in 1..n : rows[i].id = rows[j].id => i = j
      /\ \A k \in 1..n : \E i \in 1..n : rows[i].id = k
    BY DEF RowsInv
<1> HIDE DEF n
<1>8. \A i \in 1..n : rows'[i].id \in 1..n
    BY <1>3, <1>6, <1>7
<1>9. \A i, j \in 1..n : rows'[i].id = rows'[j].id => i = j
    <2> SUFFICES ASSUME NEW i \in 1..n, NEW j \in 1..n, rows'[i].id = rows'[j].id PROVE i = j
        OBVIOUS
    <2>1. from(i) \in 1..n /\ from(j) \in 1..n /\ rows[from(i)].id = rows[from(j)].id
        BY <1>3, <1>6
    <2>2. from(i) = from(j)
        BY <1>7, <2>1, Zenon
    <2> QED BY <1>4, <2>2
<1>10. \A m \in 1..n : \E i \in 1..n : rows'[i].id = m
    <2> TAKE m \in 1..n
    <2>1. PICK k \in 1..n : rows[k].id = m
        BY <1>7
    <2>2. PICK i \in 1..n : from(i) = k
        BY <1>5
    <2> QED BY <1>6, <2>1, <2>2
<1>11. rows' \in Seq(Row) /\ Len(rows') = n
    BY <1>1 DEF MovesRow, n
<1> QED BY <1>2, <1>8, <1>9, <1>10, <1>11 DEF RowsInv, n

LEMMA Inserted ==
    ASSUME RowsInv, NEW row, B!Insert(row), [row EXCEPT !.id = Len(rows) + 1] \in Row
    PROVE  /\ RowsInv' /\ Len(rows') = Len(rows) + 1
           /\ rows'[Len(rows) + 1] = [row EXCEPT !.id = Len(rows) + 1]
           /\ \A j \in 1..Len(rows) : rows'[j] = rows[j]
<1> DEFINE n == Len(rows)
           x == [row EXCEPT !.id = Len(rows) + 1]
<1>1. n \in Nat /\ rows \in Seq(Row) /\ x \in Row
    BY DEF RowsInv
<1>2. x.id = n + 1
    <2>1. "id" \in DOMAIN row
        BY <1>1 DEF Row
    <2> QED BY <2>1
<1>3. rows' = Append(rows, x)
    BY DEF B!Insert
<1> HIDE DEF x
<1>4. rows' \in Seq(Row) /\ Len(rows') = n + 1 /\ rows'[n + 1] = x /\ \A j \in 1..n : rows'[j] = rows[j]
    BY <1>1, <1>3
<1>5. \A i \in 1..(n + 1) : rows'[i].id = IF i = n + 1 THEN n + 1 ELSE rows[i].id
    BY <1>1, <1>2, <1>4
<1>6. /\ \A i \in 1..n : rows[i].id \in 1..n
      /\ \A i, j \in 1..n : rows[i].id = rows[j].id => i = j
      /\ \A k \in 1..n : \E i \in 1..n : rows[i].id = k
    BY DEF RowsInv
<1> HIDE DEF n
<1>7. ASSUME NEW i \in 1..(n + 1) PROVE rows'[i].id \in 1..(n + 1) /\ (rows'[i].id = n + 1 => i = n + 1)
    <2>1. CASE i = n + 1
        BY <1>1, <1>5, <2>1
    <2>2. CASE i # n + 1
        <3>1. i \in 1..n
            BY <1>1, <2>2
        <3>2. rows'[i].id = rows[i].id /\ rows[i].id \in 1..n
            BY <1>1, <1>5, <1>6, <3>1
        <3> QED BY <1>1, <3>2
    <2> QED BY <2>1, <2>2
<1>8. \A i, j \in 1..(n + 1) : rows'[i].id = rows'[j].id => i = j
    <2> SUFFICES ASSUME NEW i \in 1..(n + 1), NEW j \in 1..(n + 1), rows'[i].id = rows'[j].id PROVE i = j
        OBVIOUS
    <2>1. CASE i \in 1..n /\ j \in 1..n
        <3>1. rows[i].id = rows[j].id
            BY <1>1, <1>5, <2>1
        <3> QED BY <1>6, <2>1, <3>1, Zenon
    <2>2. CASE ~(i \in 1..n /\ j \in 1..n)
        <3>1. i = n + 1 \/ j = n + 1
            BY <1>1, <2>2
        <3>2. rows'[i].id = n + 1
            BY <1>1, <1>5, <3>1
        <3> QED BY <1>7, <3>2
    <2> QED BY <2>1, <2>2
<1>9. \A k \in 1..(n + 1) : \E i \in 1..(n + 1) : rows'[i].id = k
    <2> TAKE k \in 1..(n + 1)
    <2>1. CASE k = n + 1
        BY <1>1, <1>5, <2>1
    <2>2. CASE k # n + 1
        <3>1. k \in 1..n
            BY <1>1, <2>2
        <3>2. PICK i \in 1..n : rows[i].id = k
            BY <1>6, <3>1
        <3> QED BY <1>1, <1>5, <3>2
    <2> QED BY <2>1, <2>2
<1>10. RowsInv'
    BY <1>1, <1>4, <1>7, <1>8, <1>9 DEF RowsInv
<1> QED BY <1>4, <1>10 DEF x, n

LEMMA BillingInit == ASSUME Init PROVE BillingInv
<1>1. B!Trial \in Row
    BY WorkspaceAssumption DEF B!Trial, Row, Keys, Plans, B!Statuses
<1>2. rows = <<B!Trial>> /\ Len(rows) = 1 /\ rows[1].id = 1 /\ rows \in Seq(Row)
    BY <1>1 DEF Init, B!Init, B!Trial
<1>3. RowsInv
    BY <1>2 DEF RowsInv
<1>4. LedgerFits /\ CodesFit
    <2>1. sent = <<>> /\ ledger = <<>> /\ Len(ledger) = 0
        BY DEF Init, B!Init
    <2>2. LedgerFits
        BY <2>1 DEF LedgerFits
    <2>3. CodesFit
        BY DEF Init, B!Init, CodesFit, Code
    <2> QED BY <2>2, <2>3
<1>5. CallsFit
    <2>1. B!IdleCall \in Call /\ CallFits(B!IdleCall)
        BY DEF B!IdleCall, Call, CallFits
    <2> QED BY <2>1 DEF Init, B!Init, CallsFit
<1> QED BY <1>3, <1>4, <1>5 DEF BillingInv, CallsInv

(* What a known event says can be stored. *)
LEMMA KnownEvents ==
    ASSUME LedgerFits, NEW e \in 1..Len(sent)
    PROVE  /\ sent[e].known \in BOOLEAN /\ sent[e].status \in B!Statuses /\ sent[e].customer \in Keys
           /\ sent[e].known => sent[e].plan \in Plans
<1>1. sent[e] \in EventKinds
    BY DEF LedgerFits
<1> QED BY <1>1, WorkspaceAssumption DEF B!Statuses, Keys, Plans

LEMMA RowFound ==
    ASSUME RowsInv, NEW customer
    PROVE  B!RowOf(customer) \in {0} \cup 1..Len(rows)
<1> DEFINE its == {i \in DOMAIN rows : rows[i].provider = "stripe" /\ rows[i].key = customer}
<1>1. CASE its = {}
    BY <1>1 DEF B!RowOf
<1>2. CASE its # {}
    <2>1. Len(rows) \in Nat /\ its \subseteq 1..Len(rows)
        BY RowsLength
    <2>2. B!Max(its) \in its
        BY <1>2, <2>1, Largest
    <2>3. B!RowOf(customer) = rows[B!Max(its)].id
        BY <1>2 DEF B!RowOf
    <2> HIDE DEF its
    <2> QED BY <2>1, <2>2, <2>3, RowsLength
<1> QED BY <1>1, <1>2

LEMMA CallsOpened ==
    ASSUME CallsInv, NEW c \in Calls, NEW call, B!Open(c, call), CallFits(call)
    PROVE  CallsInv'
<1>1. UNCHANGED <<sent, ledger, rows, codes, trialOver>> /\ calls' = [calls EXCEPT ![c] = call]
    BY DEF B!Open
<1>2. LedgerFits' /\ CodesFit'
    BY <1>1 DEF CallsInv, LedgerFits, CodesFit
<1>3. CallsFit'
    <2>1. \A d \in Calls : calls'[d] = IF d = c THEN call ELSE calls[d]
        BY <1>1 DEF CallsInv, CallsFit
    <2>2. calls' = [d \in Calls |-> calls'[d]]
        BY <1>1 DEF CallsInv, CallsFit
    <2>3. \A d \in Calls : CallFits(calls'[d])
        BY <2>1 DEF CallsInv, CallsFit
    <2>4. \A d \in Calls : CallFits(calls[d])'
        BY <1>1, <2>3 DEF CallFits
    <2> QED BY <2>2, <2>4 DEF CallsFit
<1> QED BY <1>2, <1>3 DEF CallsInv

LEMMA CallsClosed ==
    ASSUME CallsInv, RowsInv, NEW c \in Calls, B!Close(c), RowsInv', Len(rows') >= Len(rows),
           UNCHANGED sent, LedgerFits', CodesFit'
    PROVE  CallsInv'
<1>1. calls' = [calls EXCEPT ![c] = B!IdleCall] /\ sent' = sent
    BY DEF B!Close
<1>2. Len(rows) \in Nat /\ Len(rows') \in Nat
    BY RowsLength, RowsLengthNext
<1>3. \A d \in Calls : calls'[d] = IF d = c THEN B!IdleCall ELSE calls[d]
    BY <1>1 DEF CallsInv, CallsFit
<1>4. calls' = [d \in Calls |-> calls'[d]]
    BY <1>1 DEF CallsInv, CallsFit
<1>5. \A d \in Calls : CallFits(calls[d])'
    <2> SUFFICES ASSUME NEW d \in Calls PROVE CallFits(calls[d])'
        OBVIOUS
    <2>1. CASE d = c
        BY <1>1, <1>2, <1>3, <2>1 DEF CallFits, B!IdleCall, Call
    <2>2. CASE d # c
        <3>1. CallFits(calls[d]) /\ calls'[d] = calls[d]
            BY <1>3, <2>2 DEF CallsInv, CallsFit
        <3>2. calls[d].row \in {0} \cup 1..Len(rows')
            BY <1>2, <3>1 DEF CallFits
        <3> QED BY <1>1, <3>1, <3>2 DEF CallFits
    <2> QED BY <2>1, <2>2
<1> QED BY <1>4, <1>5 DEF CallsInv, CallsFit

LEMMA BillingKept == ASSUME RowsInv, CallsInv, B!Next PROVE RowsInv' /\ CallsInv'
<1>1. ASSUME NEW kind \in EventKinds, B!StripeEmits(kind) PROVE RowsInv' /\ CallsInv'
    <2>1. sent' \in Seq(EventKinds) /\ Len(sent') = Len(sent) + 1 /\ Len(sent) \in Nat
        BY <1>1 DEF B!StripeEmits, CallsInv, LedgerFits
    <2>2. UNCHANGED <<ledger, rows, codes, trialOver, calls>>
        BY <1>1 DEF B!StripeEmits
    <2>3. LedgerFits'
        <3>1. \A i \in 1..Len(ledger) : ledger[i] \in 1..Len(sent')
            BY <2>1 DEF CallsInv, LedgerFits
        <3> QED BY <2>1, <2>2, <3>1 DEF CallsInv, LedgerFits
    <2>4. \A c \in Calls : CallFits(calls[c])'
        <3> SUFFICES ASSUME NEW c \in Calls PROVE CallFits(calls[c])'
            OBVIOUS
        <3>1. CallFits(calls[c])
            BY DEF CallsInv, CallsFit
        <3>2. calls[c].event \in {0} \cup 1..Len(sent')
            BY <2>1, <3>1 DEF CallFits
        <3> QED BY <2>2, <3>1, <3>2 DEF CallFits
    <2>5. CallsFit' /\ CodesFit'
        BY <2>2, <2>4 DEF CallsInv, CallsFit, CodesFit
    <2> QED BY <2>2, <2>3, <2>5, RowsFixed DEF CallsInv
<1>2. ASSUME NEW c \in Calls, NEW call, B!Open(c, call), CallFits(call) PROVE RowsInv' /\ CallsInv'
    <2>1. rows' = rows
        BY <1>2 DEF B!Open
    <2> QED BY <1>2, <2>1, CallsOpened, RowsFixed
<1>3. ASSUME NEW c \in Calls, NEW e \in DOMAIN sent, B!WebhookRead(c, e) PROVE RowsInv' /\ CallsInv'
    <2> DEFINE row == B!RowOf(sent[e].customer)
               call == [B!IdleCall EXCEPT !.pc = "webhook", !.event = e, !.row = row]
    <2>1. e \in 1..Len(sent) /\ Len(sent) \in Nat /\ Len(rows) \in Nat
        BY RowsLength DEF CallsInv, LedgerFits
    <2>2. row \in {0} \cup 1..Len(rows)
        BY RowFound
    <2>3. B!Open(c, call)
        BY <1>3 DEF B!WebhookRead
    <2> HIDE DEF row
    <2>4. row \in Nat /\ e \in Nat /\ e # 0
        BY <2>1, <2>2
    <2>5. call \in Call /\ call.pc = "webhook" /\ call.event = e /\ call.row = row
        BY <2>4 DEF B!IdleCall, Call
    <2> HIDE DEF call
    <2>6. CallFits(call)
        BY <2>1, <2>2, <2>4, <2>5 DEF CallFits
    <2> QED BY <1>2, <2>3, <2>6
<1>4. ASSUME NEW c \in Calls, NEW k \in Codes, B!RedeemRead(c, k) \/ B!RevokeRead(c, k)
      PROVE  RowsInv' /\ CallsInv'
    <2>1. PICK pc \in {"redeem", "revoke"} : B!Open(c, [B!IdleCall EXCEPT !.pc = pc, !.code = k])
        BY <1>4 DEF B!RedeemRead, B!RevokeRead
    <2> DEFINE call == [B!IdleCall EXCEPT !.pc = pc, !.code = k]
    <2>2. call \in Call /\ call.event = 0 /\ call.row = 0 /\ call.pc = pc /\ call.code = k
        BY DEF B!IdleCall, Call
    <2> HIDE DEF call
    <2>3. CallFits(call)
        BY <2>2 DEF CallFits
    <2> QED BY <1>2, <2>1, <2>3 DEF call
<1>5. ASSUME NEW c \in Calls, B!Close(c), RowsInv', Len(rows') >= Len(rows), UNCHANGED sent,
             LedgerFits', CodesFit'
      PROVE  RowsInv' /\ CallsInv'
    BY <1>5, CallsClosed
<1>6. ASSUME NEW c \in Calls, B!WebhookWrite(c) PROVE RowsInv' /\ CallsInv'
    <2> DEFINE e == calls[c].event
               kind == sent[e]
    <2>1. CallFits(calls[c]) /\ calls[c].pc = "webhook"
        BY <1>6 DEF B!WebhookWrite, CallsInv, CallsFit
    <2>2. e \in 1..Len(sent)
        BY <2>1 DEF CallFits
    <2>3. e \in Nat /\ Len(rows) \in Nat
        BY <2>2, RowsLength DEF CallsInv, LedgerFits
    <2>4. /\ kind.known \in BOOLEAN /\ kind.status \in B!Statuses /\ kind.customer \in Keys
          /\ kind.known => kind.plan \in Plans
        BY <2>2, KnownEvents DEF CallsInv
    <2>5. B!Close(c) /\ UNCHANGED <<sent, codes, trialOver>>
        BY <1>6 DEF B!WebhookWrite
    <2>6. ledger' = ledger \/ ledger' = Append(ledger, e)
        BY <1>6 DEF B!WebhookWrite
    <2>7. \/ UNCHANGED rows
          \/ kind.known /\ calls[c].row # 0 /\ B!Update(calls[c].row, kind.status, kind.plan)
          \/ kind.known /\ B!Insert([id |-> 0, provider |-> "stripe", key |-> kind.customer,
                                     status |-> kind.status, plan |-> kind.plan])
        BY <1>6 DEF B!WebhookWrite
    <2>8. CodesFit'
        BY <2>5 DEF CallsInv, CodesFit
    <2> HIDE DEF e, kind
    <2>9. LedgerFits'
        <3>1. ledger \in Seq(Nat) /\ \A i \in 1..Len(ledger) : ledger[i] \in 1..Len(sent)
            BY DEF CallsInv, LedgerFits
        <3>2. ledger' \in Seq(Nat) /\ \A i \in 1..Len(ledger') : ledger'[i] \in 1..Len(sent)
            <4>1. CASE ledger' = Append(ledger, e)
                <5>1. ledger' \in Seq(Nat) /\ Len(ledger') = Len(ledger) + 1 /\ Len(ledger) \in Nat
                    BY <2>3, <3>1, <4>1
                <5>3. \A i \in 1..Len(ledger) : ledger'[i] = ledger[i]
                    BY <2>3, <3>1, <4>1
                <5>4. ledger'[Len(ledger) + 1] = e
                    BY <2>3, <3>1, <4>1
                <5>5. ASSUME NEW i \in 1..Len(ledger') PROVE i \in 1..Len(ledger) \/ i = Len(ledger) + 1
                    BY <5>1
                <5> QED BY <2>2, <3>1, <5>1, <5>3, <5>4, <5>5
            <4> QED BY <2>6, <3>1, <4>1
        <3> QED BY <2>5, <3>2 DEF CallsInv, LedgerFits
    <2>10. RowsInv' /\ Len(rows') >= Len(rows)
        <3>1. CASE UNCHANGED rows
            BY <3>1, RowsFixed
        <3>2. CASE kind.known /\ calls[c].row # 0 /\ B!Update(calls[c].row, kind.status, kind.plan)
            <4>1. calls[c].row \in 1..Len(rows) /\ kind.plan \in Plans
                BY <2>1, <2>4, <3>2 DEF CallFits
            <4>2. RowsInv' /\ Len(rows') = Len(rows)
                BY <2>4, <3>2, <4>1, UpdateKeepsRows
            <4> QED BY <2>3, <4>2
        <3>3. CASE kind.known /\ B!Insert([id |-> 0, provider |-> "stripe", key |-> kind.customer,
                                           status |-> kind.status, plan |-> kind.plan])
            <4> DEFINE row == [id |-> 0, provider |-> "stripe", key |-> kind.customer,
                               status |-> kind.status, plan |-> kind.plan]
            <4>1. [row EXCEPT !.id = Len(rows) + 1] \in Row
                BY <2>3, <2>4, <3>3 DEF Row
            <4> HIDE DEF row
            <4>2. RowsInv' /\ Len(rows') = Len(rows) + 1
                BY <3>3, <4>1, Inserted DEF row
            <4> QED BY <2>3, <4>2
        <3> QED BY <2>7, <3>1, <3>2, <3>3
    <2> QED BY <1>5, <2>5, <2>8, <2>9, <2>10
<1>7. ASSUME NEW c \in Calls, B!RedeemWrite(c) PROVE RowsInv' /\ CallsInv'
    <2> DEFINE row == [id |-> 0, provider |-> "grant", key |-> calls[c].code, status |-> "ACTIVE",
                       plan |-> GrantPlan]
    <2>1. calls[c].code \in Codes /\ Len(rows) \in Nat
        BY <1>7, RowsLength DEF B!RedeemWrite, CallsInv, CallsFit, CallFits
    <2>2. [row EXCEPT !.id = Len(rows) + 1] \in Row
        BY <2>1, WorkspaceAssumption DEF Row, Keys, Plans, B!Statuses
    <2>3. B!Insert(row) /\ B!Close(c) /\ UNCHANGED <<sent, ledger, trialOver>>
        BY <1>7 DEF B!RedeemWrite
    <2> HIDE DEF row
    <2>4. RowsInv' /\ Len(rows') = Len(rows) + 1
        BY <2>2, <2>3, Inserted
    <2>5. CodesFit' /\ LedgerFits'
        BY <1>7, <2>3 DEF B!RedeemWrite, CallsInv, CodesFit, LedgerFits, Code
    <2>6. Len(rows') >= Len(rows)
        BY <2>1, <2>4
    <2> QED BY <1>5, <2>3, <2>4, <2>5, <2>6
<1>8. ASSUME NEW c \in Calls, B!RevokeWrite(c) \/ B!AbandonCall(c) PROVE RowsInv' /\ CallsInv'
    <2>1. B!Close(c) /\ UNCHANGED <<sent, ledger, rows, trialOver>>
        BY <1>8 DEF B!RevokeWrite, B!AbandonCall
    <2>2. CodesFit'
        <3>1. codes \in [Codes -> Code] /\ trialOver' \in BOOLEAN
            BY <2>1 DEF CallsInv, CodesFit
        <3>2. CASE B!RevokeWrite(c)
            <4>1. codes' = [codes EXCEPT ![calls[c].code] = [codes[calls[c].code] EXCEPT !.revoked = TRUE]]
                BY <3>2 DEF B!RevokeWrite
            <4>2. \A k \in Codes : [codes[k] EXCEPT !.revoked = TRUE] \in Code
                BY <3>1 DEF Code
            <4> QED BY <3>1, <4>1, <4>2 DEF CodesFit
        <3>3. CASE B!AbandonCall(c)
            BY <3>1, <3>3 DEF B!AbandonCall, CodesFit
        <3> QED BY <1>8, <3>2, <3>3
    <2>3. LedgerFits'
        BY <2>1 DEF CallsInv, LedgerFits
    <2> QED BY <1>5, <2>1, <2>2, <2>3, RowsFixed
<1>9. ASSUME UNCHANGED <<sent, ledger, rows, calls>>, CodesFit' PROVE RowsInv' /\ CallsInv'
    <2>1. LedgerFits' /\ CallsFit'
        BY <1>9 DEF CallsInv, LedgerFits, CallsFit, CallFits
    <2> QED BY <1>9, <2>1, RowsFixed DEF CallsInv
<1>10. ASSUME NEW k \in Codes, B!IssueCode(k) PROVE RowsInv' /\ CallsInv'
    <2>1. UNCHANGED <<sent, ledger, rows, calls>> /\ CodesFit'
        BY <1>10 DEF B!IssueCode, CallsInv, CodesFit, Code
    <2> QED BY <1>9, <2>1
<1>11. CASE B!TrialEnds
    <2>1. UNCHANGED <<sent, ledger, rows, calls>> /\ CodesFit'
        BY <1>11 DEF B!TrialEnds, CallsInv, CodesFit
    <2> QED BY <1>9, <2>1
<1> QED BY <1>1, <1>3, <1>4, <1>6, <1>7, <1>8, <1>10, <1>11 DEF B!Next

LEMMA BillingFixed == ASSUME BillingInv, UNCHANGED billingVars PROVE BillingInv'
<1>1. CallsInv'
    BY DEF BillingInv, CallsInv, LedgerFits, CodesFit, CallsFit, CallFits, billingVars
<1>2. RowsInv'
    BY RowsFixed DEF BillingInv, billingVars
<1> QED BY <1>1, <1>2 DEF BillingInv

LEMMA BillingStep == ASSUME BillingInv, [Next]_vars PROVE BillingInv'
<1>1. CASE B!Next
    BY <1>1, BillingKept DEF BillingInv
<1>2. CASE UNCHANGED billingVars
    BY <1>2, BillingFixed
<1> QED BY <1>1, <1>2 DEF Next, vars, billingVars

(***************************************************************************)
(* Every member, link, event, subscription row, code, URL and request is   *)
(* of its type at all times; no request refers to an event or a row that   *)
(* is not there (applyBillingWebhookUpdate updates by primary key).        *)
(***************************************************************************)
THEOREM TypesKept == Spec => []TypeOK
<1>1. Init => OwnerInv /\ BillingInv /\ UrlInv /\ S!SiteTypes
    BY OwnerInit, BillingInit, UrlsInit, SitesInit
<1>2. OwnerInv /\ BillingInv /\ UrlInv /\ S!SiteTypes /\ [Next]_vars
          => (OwnerInv /\ BillingInv /\ UrlInv /\ S!SiteTypes)'
    BY OwnerKept, BillingStep, UrlInvKept, SiteTypesKept
<1>3. BillingInv => B!BillingTypes
    <2> SUFFICES ASSUME BillingInv PROVE B!BillingTypes
        OBVIOUS
    <2> USE DEF BillingInv
    <2>1. /\ sent \in Seq(EventKinds) /\ \A i \in DOMAIN ledger : ledger[i] \in DOMAIN sent
          /\ DOMAIN sent = 1..Len(sent)
        BY DEF CallsInv, LedgerFits
    <2>2. \A i \in DOMAIN rows : /\ rows[i].provider \in {"none", "stripe", "grant"}
                                 /\ rows[i].status \in B!Statuses
                                 /\ rows[i].id \in DOMAIN rows
        BY RowsLength DEF Row
    <2>3. calls \in [Calls -> [pc: {"idle", "webhook", "redeem", "revoke"}, event: {0} \cup DOMAIN sent,
                               row: {0} \cup DOMAIN rows, code: {B!NoKey} \cup Codes]]
        <3>1. \A c \in Calls : calls[c] \in [pc: {"idle", "webhook", "redeem", "revoke"},
                                             event: {0} \cup DOMAIN sent, row: {0} \cup DOMAIN rows,
                                             code: {B!NoKey} \cup Codes]
            BY <2>1, RowsLength DEF CallsInv, CallsFit, CallFits, Call
        <3>2. calls = [c \in Calls |-> calls[c]]
            BY DEF CallsInv, CallsFit
        <3> QED BY <3>1, <3>2
    <2> QED BY <2>1, <2>2, <2>3 DEF B!BillingTypes, CallsInv, CodesFit, Code
<1>4. OwnerInv /\ BillingInv /\ UrlInv /\ S!SiteTypes => TypeOK
    BY <1>3 DEF OwnerInv, UrlInv, TypeOK
<1> QED BY <1>1, <1>2, <1>4, PTL DEF Spec

-----------------------------------------------------------------------------
(* Decisions about invitations *)

LatestLink(p, k) ==
    /\ k \in 1..Len(links) /\ links[k] = p
    /\ \A i \in 1..Len(links) : links[i] = p => i <= k

(* A pending invitation has the last link that went to its person, and no  *)
(* other row has one.                                                      *)
TokensInv ==
    \A p \in People : /\ (members[p].token # 0) <=> (members[p].status = "INVITED")
                      /\ members[p].status = "INVITED" => LatestLink(p, members[p].token)

(* What a request read of the member is still so. *)
MemberAsRead(r) ==
    /\ reqs[r].pc = "invite" => members[reqs[r].person].status = "none"
    /\ reqs[r].pc \in {"resend", "cancel", "accept"} => members[reqs[r].person].status = "INVITED"
    /\ reqs[r].pc = "accept" => members[reqs[r].person].token = reqs[r].token

MembersAsRead == \A r \in Reqs : MemberAsRead(r)

(* There is still room for whom a request is about to invite. *)
SeatsAsRead ==
    \A r \in Reqs :
        reqs[r].pc = "invite" => InForce /\ Cardinality(M!Counted) < Seats[B!Current.plan]

DecisionInv == OneAtATime => TokensInv /\ MembersAsRead /\ SeatsAsRead

(* A limit above zero is the plan's, and the subscription is in force. *)
LEMMA PositiveLimit ==
    ASSUME RowsInv
    PROVE  /\ B!Current.plan \in DOMAIN Seats /\ B!Current.plan \in DOMAIN SiteCaps
           /\ \A n \in Nat : n < SeatLimit => InForce /\ n < Seats[B!Current.plan]
           /\ \A n \in Nat : n < SiteLimit => InForce /\ n < SiteCaps[B!Current.plan]
           /\ Seats[B!Current.plan] \in Nat /\ SiteCaps[B!Current.plan] \in Nat
<1>1. B!Current \in Row
    BY DEF RowsInv, B!Current, B!Last
<1>2. B!Current.plan \in DOMAIN Seats /\ B!Current.plan \in DOMAIN SiteCaps
    BY <1>1 DEF Row, Plans
<1>3. /\ SeatLimit = IF B!FullAccess THEN Seats[B!Current.plan] ELSE 0
      /\ SiteLimit = IF B!FullAccess THEN SiteCaps[B!Current.plan] ELSE 0
    BY <1>2 DEF SeatLimit, SiteLimit, Limit
<1>4. B!FullAccess => InForce
    BY DEF B!FullAccess, InForce
<1>5. Seats[B!Current.plan] \in Nat /\ SiteCaps[B!Current.plan] \in Nat
    BY <1>2, WorkspaceAssumption
<1> QED BY <1>2, <1>3, <1>4, <1>5

LEMMA DecisionInit == ASSUME Init PROVE DecisionInv
<1>1. \A r \in Reqs : reqs[r].pc = "idle"
    BY DEF Init, M!Init, M!Idle
<1>2. \A p \in People : members[p].token = 0 /\ members[p].status # "INVITED"
    BY DEF Init, M!Init, M!Absent
<1> QED BY <1>1, <1>2 DEF DecisionInv, TokensInv, MembersAsRead, MemberAsRead, SeatsAsRead

(* What a member step shows the rest of the workspace. *)
CountedWithinPlan ==
    ~(M!Counted' \subseteq M!Counted) => InForce /\ Cardinality(M!Counted') <= Seats[B!Current.plan]

Settled ==
    \A p \in People : members[p].status \in {"ACTIVE", "CANCELED"} => members'[p].status = members[p].status

(* Once the one request has written, none is in flight. *)
LEMMA NoneLeft ==
    ASSUME Alone, OneAtATime, M!TypeOK, NEW r \in Reqs, reqs[r].pc # "idle", M!End(r)
    PROVE  \A q \in Reqs : reqs'[q].pc = "idle"
<1>1. \A q \in Reqs : reqs[q].pc # "idle" => q = r
    BY Apart DEF M!Busy
<1> QED BY <1>1 DEF M!End, M!Idle, M!TypeOK

LEMMA DecisionRead ==
    ASSUME OwnerInv, BillingInv, TokensInv, MembersAsRead, SeatsAsRead, UNCHANGED rows,
           NEW r \in Reqs, NEW by \in People, NEW p \in People,
           \/ \E role \in M!Assignable : M!InviteRead(r, by, p, role) \/ M!RoleRead(r, by, p, role)
           \/ M!ResendRead(r, by, p) \/ M!CancelRead(r, by, p)
           \/ \E k \in DOMAIN links : M!AcceptRead(r, p, k)
    PROVE  /\ TokensInv' /\ MembersAsRead' /\ SeatsAsRead' /\ Settled /\ CountedWithinPlan
<1> DEFINE q == reqs'[r]
<1>1. UNCHANGED <<members, links>> /\ \A s \in Reqs \ {r} : reqs'[s] = reqs[s]
    BY DEF M!InviteRead, M!RoleRead, M!ResendRead, M!CancelRead, M!AcceptRead, M!Begin, OwnerInv, M!TypeOK
<1>2. /\ q.person = p
      /\ q.pc = "invite" => members[p].status = "none" /\ M!Cardinality(M!Counted) < SeatLimit
      /\ q.pc \in {"resend", "cancel", "accept"} => members[p].status = "INVITED"
      /\ q.pc = "accept" => members[p].token = q.token
    BY DEF M!InviteRead, M!RoleRead, M!ResendRead, M!CancelRead, M!AcceptRead, M!Begin, OwnerInv, M!TypeOK
<1> HIDE DEF q
<1>3. MembersAsRead'
    <2>1. MemberAsRead(r)'
        BY <1>1, <1>2 DEF MemberAsRead, q
    <2>2. ASSUME NEW s \in Reqs \ {r} PROVE MemberAsRead(s)'
        BY <1>1, <2>2 DEF MemberAsRead, MembersAsRead
    <2> QED BY <2>1, <2>2 DEF MembersAsRead
<1>4. M!Counted' = M!Counted
    BY <1>1 DEF M!Counted
<1>5. SeatsAsRead'
    <2>1. B!Current' = B!Current /\ InForce' = InForce
        BY DEF B!Current, B!Last, InForce
    <2>2. ASSUME q.pc = "invite" PROVE InForce /\ Cardinality(M!Counted) < Seats[B!Current.plan]
        BY <1>2, <2>2, CountedFinite, OneCardinality, PositiveLimit DEF BillingInv
    <2> QED BY <1>1, <1>4, <2>1, <2>2 DEF SeatsAsRead, q
<1>6. TokensInv'
    BY <1>1 DEF TokensInv, LatestLink
<1> QED BY <1>1, <1>3, <1>4, <1>5, <1>6 DEF Settled, CountedWithinPlan

(* Mailing a link to p gives p, and nobody else, a later one. *)
LEMMA Mailed ==
    ASSUME links \in Seq(People), NEW p \in People, links' = Append(links, p)
    PROVE  /\ \A k : k = Len(links) + 1 => LatestLink(p, k)'
           /\ \A o \in People \ {p}, k \in 1..Len(links) : LatestLink(o, k) => LatestLink(o, k)'
<1>1. /\ Len(links) \in Nat /\ Len(links') = Len(links) + 1 /\ links'[Len(links) + 1] = p
      /\ \A i \in 1..Len(links) : links'[i] = links[i]
    OBVIOUS
<1>2. \A i \in 1..Len(links') : i \in 1..Len(links) \/ i = Len(links) + 1
    BY <1>1
<1>3. ASSUME NEW o \in People \ {p}, NEW k \in 1..Len(links), LatestLink(o, k) PROVE LatestLink(o, k)'
    <2>1. k \in 1..Len(links') /\ links'[k] = o
        BY <1>1, <1>3 DEF LatestLink
    <2>2. ASSUME NEW i \in 1..Len(links'), links'[i] = o PROVE i <= k
        <3>1. i \in 1..Len(links) /\ links[i] = o
            BY <1>1, <1>2, <2>2
        <3> QED BY <1>3, <3>1 DEF LatestLink
    <2> QED BY <2>1, <2>2 DEF LatestLink
<1>4. ASSUME NEW k, k = Len(links) + 1 PROVE LatestLink(p, k)'
    BY <1>1, <1>4 DEF LatestLink
<1> QED BY <1>3, <1>4

LEMMA DecisionWrite ==
    ASSUME OwnerInv, RowsInv, TokensInv, MembersAsRead, SeatsAsRead, UNCHANGED rows, NEW r \in Reqs,
           \/ M!InviteWrite(r) \/ M!ResendWrite(r) \/ M!CancelWrite(r) \/ M!AcceptWrite(r)
           \/ M!RoleWrite(r) \/ M!Abandon(r)
    PROVE  TokensInv' /\ Settled /\ CountedWithinPlan
<1>0. PICK p \in People : p = reqs[r].person
    BY DEF OwnerInv, M!TypeOK, M!Request
<1>1. members \in [People -> M!Member] /\ links \in Seq(People)
    BY DEF OwnerInv, M!TypeOK
<1>2. MemberAsRead(r)
    BY DEF MembersAsRead
<1>3. ASSUME UNCHANGED <<members, links>> PROVE TokensInv' /\ Settled /\ CountedWithinPlan
    BY <1>3 DEF TokensInv, LatestLink, Settled, CountedWithinPlan, M!Counted
<1>4. ASSUME NEW row, members' = [members EXCEPT ![p] = row], links' = Append(links, p),
             members[p].status \notin {"ACTIVE", "CANCELED"},
             row.status = "INVITED", row.token = M!NewToken
      PROVE  TokensInv' /\ Settled
    <2>1. Len(links) \in Nat /\ row.token = Len(links) + 1 /\ row.token # 0
        BY <1>1, <1>4 DEF M!NewToken
    <2>2. members'[p] = row /\ \A o \in People \ {p} : members'[o] = members[o]
        BY <1>1, <1>4
    <2>3. LatestLink(p, row.token)'
        BY <1>1, <1>4, <2>1, Mailed
    <2>4. ASSUME NEW o \in People \ {p}, members[o].status = "INVITED"
          PROVE  LatestLink(o, members[o].token)'
        <3>1. LatestLink(o, members[o].token) /\ members[o].token \in 1..Len(links)
            BY <2>4 DEF TokensInv, LatestLink
        <3> QED BY <1>1, <1>4, <3>1, Mailed
    <2> QED BY <1>4, <2>1, <2>2, <2>3, <2>4 DEF TokensInv, Settled
<1>5. ASSUME NEW row, members' = [members EXCEPT ![p] = row], UNCHANGED links, row.status # "INVITED",
             row.token = 0, members[p].status = "INVITED"
      PROVE  TokensInv' /\ Settled
    <2>1. members'[p] = row /\ \A o \in People \ {p} : members'[o] = members[o]
        BY <1>1, <1>5
    <2>2. ASSUME NEW o \in People \ {p}
          PROVE  /\ (members'[o].token # 0) <=> (members'[o].status = "INVITED")
                 /\ members'[o].status = "INVITED" => LatestLink(o, members[o].token)'
        BY <1>5, <2>1 DEF TokensInv, LatestLink
    <2> QED BY <1>5, <2>1, <2>2 DEF TokensInv, Settled
<1>6. ASSUME M!Counted' = M!Counted PROVE CountedWithinPlan
    BY <1>6 DEF CountedWithinPlan
<1>7. CASE M!InviteWrite(r)
    <2>1. CASE members[p].status = "none"
        <3> DEFINE row == [status |-> "INVITED", role |-> reqs[r].role, token |-> M!NewToken, fresh |-> TRUE]
        <3>1. members' = [members EXCEPT ![p] = row] /\ links' = Append(links, p) /\ reqs[r].pc = "invite"
            BY <1>0, <1>7, <2>1 DEF M!InviteWrite, M!Issue
        <3>2. row.status = "INVITED" /\ row.token = M!NewToken
            OBVIOUS
        <3> HIDE DEF row
        <3>3. M!Counted' = M!Counted \cup {p}
            BY <1>1, <2>1, <3>1, <3>2 DEF M!Counted
        <3>7. TokensInv' /\ Settled
            BY <1>4, <2>1, <3>1, <3>2
        <3>4. Cardinality(M!Counted') <= Cardinality(M!Counted) + 1 /\ Cardinality(M!Counted) \in Nat
            <4>1. /\ IsFiniteSet(M!Counted) /\ Cardinality(M!Counted) \in Nat
                  /\ Cardinality(M!Counted \cup {p}) \in {Cardinality(M!Counted), Cardinality(M!Counted) + 1}
                BY CountedFinite, FS_AddElement
            <4> QED BY <3>3, <4>1
        <3>5. InForce /\ Cardinality(M!Counted) < Seats[B!Current.plan]
            BY <3>1 DEF SeatsAsRead
        <3>6. Cardinality(M!Counted') <= Seats[B!Current.plan]
            <4>1. Cardinality(M!Counted') \in Nat
                BY <3>3, CountedFinite, FS_AddElement, FS_CardinalityType
            <4> QED BY <3>4, <3>5, <4>1, PositiveLimit
        <3> QED BY <3>5, <3>6, <3>7 DEF CountedWithinPlan
    <2>2. CASE members[p].status # "none"
        BY <1>0, <1>3, <1>7, <2>2 DEF M!InviteWrite
    <2> QED BY <2>1, <2>2
<1>8. CASE M!ResendWrite(r)
    <2> DEFINE row == [members[p] EXCEPT !.token = M!NewToken, !.fresh = TRUE]
    <2>1. members[p].status = "INVITED" /\ members[p] \in M!Member
        BY <1>0, <1>1, <1>2, <1>8 DEF M!ResendWrite, MemberAsRead
    <2>2. row.status = "INVITED" /\ row.token = M!NewToken
        BY <2>1 DEF M!Member
    <2>3. members' = [members EXCEPT ![p] = row] /\ links' = Append(links, p)
        BY <1>0, <1>1, <1>8, <2>1 DEF M!ResendWrite, M!Issue
    <2> HIDE DEF row
    <2>4. TokensInv' /\ Settled
        BY <1>4, <2>1, <2>2, <2>3
    <2>5. M!Counted' = M!Counted
        BY <1>1, <2>1, <2>2, <2>3 DEF M!Counted
    <2> QED BY <1>6, <2>4, <2>5
<1>9. CASE M!CancelWrite(r)
    <2> DEFINE row == [members[p] EXCEPT !.status = "CANCELED", !.token = 0, !.fresh = FALSE]
    <2>1. members[p].status = "INVITED" /\ members[p] \in M!Member
        BY <1>0, <1>1, <1>2, <1>9 DEF M!CancelWrite, MemberAsRead
    <2>2. row.status = "CANCELED" /\ row.token = 0
        BY <2>1 DEF M!Member
    <2>3. members' = [members EXCEPT ![p] = row] /\ UNCHANGED links
        BY <1>0, <1>9 DEF M!CancelWrite
    <2> HIDE DEF row
    <2>4. TokensInv' /\ Settled
        BY <1>5, <2>1, <2>2, <2>3
    <2>5. M!Counted' \subseteq M!Counted
        BY <1>1, <2>2, <2>3 DEF M!Counted
    <2> QED BY <2>4, <2>5 DEF CountedWithinPlan
<1>10. CASE M!AcceptWrite(r)
    <2> DEFINE row == [members[p] EXCEPT !.status = "ACTIVE", !.token = 0, !.fresh = FALSE]
    <2>1. members[p].status = "INVITED" /\ members[p] \in M!Member
        BY <1>0, <1>1, <1>2, <1>10 DEF M!AcceptWrite, MemberAsRead
    <2>2. row.status = "ACTIVE" /\ row.token = 0
        BY <2>1 DEF M!Member
    <2>3. members' = [members EXCEPT ![p] = row] /\ UNCHANGED links
        BY <1>0, <1>10 DEF M!AcceptWrite
    <2> HIDE DEF row
    <2>4. TokensInv' /\ Settled
        BY <1>5, <2>1, <2>2, <2>3
    <2>5. M!Counted' = M!Counted
        BY <1>1, <2>1, <2>2, <2>3 DEF M!Counted
    <2> QED BY <1>6, <2>4, <2>5
<1>11. CASE M!RoleWrite(r)
    <2>1. UNCHANGED links /\ members' = [members EXCEPT ![p] = [members[p] EXCEPT !.role = reqs[r].role]]
        BY <1>0, <1>1, <1>11 DEF M!RoleWrite
    <2>2. \A o \in People : members'[o].status = members[o].status /\ members'[o].token = members[o].token
        BY <1>1, <2>1 DEF M!Member
    <2>3. TokensInv' /\ Settled
        BY <2>1, <2>2 DEF TokensInv, LatestLink, Settled
    <2>4. M!Counted' = M!Counted
        BY <2>2 DEF M!Counted
    <2> QED BY <1>6, <2>3, <2>4
<1>12. CASE M!Abandon(r)
    BY <1>3, <1>12 DEF M!Abandon
<1> QED BY <1>7, <1>8, <1>9, <1>10, <1>11, <1>12

LEMMA LinkExpiry ==
    ASSUME M!TypeOK, NEW p \in People, M!LinkExpires(p)
    PROVE  /\ \A o \in People : members'[o].status = members[o].status /\ members'[o].token = members[o].token
           /\ UNCHANGED <<links, reqs>> /\ M!Counted' = M!Counted
<1>1. members \in [People -> M!Member] /\ members' = [members EXCEPT ![p] = [members[p] EXCEPT !.fresh = FALSE]]
    BY DEF M!TypeOK, M!LinkExpires
<1>2. \A o \in People : members'[o].status = members[o].status /\ members'[o].token = members[o].token
    BY <1>1 DEF M!Member
<1> QED BY <1>2 DEF M!LinkExpires, M!Counted

(* A step of billing does not change the rows while a request about members *)
(* or sites is in flight.                                                   *)
LEMMA BillingStill ==
    ASSUME Alone, OneAtATime, B!Next, M!Busy # {} \/ S!BusySites # {}
    PROVE  UNCHANGED rows
<1>1. \A c \in Calls : calls[c].pc = "idle"
    BY Apart DEF B!BusyCalls
<1>2. ASSUME NEW c \in Calls PROVE ~B!WebhookWrite(c) /\ ~B!RedeemWrite(c) /\ ~B!RevokeWrite(c) /\ ~B!AbandonCall(c)
    BY <1>1 DEF B!WebhookWrite, B!RedeemWrite, B!RevokeWrite, B!AbandonCall
<1> QED BY <1>2 DEF B!Next, B!StripeEmits, B!WebhookRead, B!RedeemRead, B!RevokeRead, B!Open, B!IssueCode,
            B!TrialEnds

LEMMA DecisionMembers ==
    ASSUME OwnerInv, BillingInv, Alone, OneAtATime, TokensInv, MembersAsRead, SeatsAsRead,
           M!Next, UNCHANGED rows
    PROVE  TokensInv' /\ MembersAsRead' /\ SeatsAsRead' /\ Settled /\ CountedWithinPlan
<1>1. ASSUME NEW r \in Reqs,
             \/ M!InviteWrite(r) \/ M!ResendWrite(r) \/ M!CancelWrite(r) \/ M!AcceptWrite(r)
             \/ M!RoleWrite(r) \/ M!Abandon(r)
      PROVE  TokensInv' /\ MembersAsRead' /\ SeatsAsRead' /\ Settled /\ CountedWithinPlan
    <2>1. TokensInv' /\ Settled /\ CountedWithinPlan
        BY <1>1, DecisionWrite DEF BillingInv
    <2>2. reqs[r].pc # "idle" /\ M!End(r)
        BY <1>1 DEF M!InviteWrite, M!ResendWrite, M!CancelWrite, M!AcceptWrite, M!RoleWrite, M!Abandon
    <2>3. \A q \in Reqs : reqs'[q].pc = "idle"
        BY <2>2, NoneLeft DEF OwnerInv
    <2>4. MembersAsRead' /\ SeatsAsRead'
        BY <2>3 DEF MembersAsRead, MemberAsRead, SeatsAsRead
    <2> QED BY <2>1, <2>4
<1>2. ASSUME NEW p \in People, M!LinkExpires(p)
      PROVE  TokensInv' /\ MembersAsRead' /\ SeatsAsRead' /\ Settled /\ CountedWithinPlan
    <2>1. /\ \A o \in People : members'[o].status = members[o].status /\ members'[o].token = members[o].token
          /\ UNCHANGED <<links, reqs>> /\ M!Counted' = M!Counted
        BY <1>2, LinkExpiry DEF OwnerInv
    <2>2. TokensInv' /\ Settled /\ CountedWithinPlan
        BY <2>1 DEF TokensInv, LatestLink, Settled, CountedWithinPlan
    <2>3. MembersAsRead'
        <3>1. \A r \in Reqs : reqs[r].person \in People
            BY DEF OwnerInv, M!TypeOK, M!Request
        <3> QED BY <2>1, <3>1 DEF MembersAsRead, MemberAsRead
    <2>4. SeatsAsRead'
        BY <2>1 DEF SeatsAsRead, InForce, B!Current, B!Last
    <2> QED BY <2>2, <2>3, <2>4
<1> QED BY <1>1, <1>2, DecisionRead DEF M!Next

LEMMA DecisionKept ==
    ASSUME OwnerInv, BillingInv, Alone, OneAtATime, TokensInv, MembersAsRead, SeatsAsRead, [Next]_vars
    PROVE  TokensInv' /\ MembersAsRead' /\ SeatsAsRead' /\ Settled /\ CountedWithinPlan
<1>1. CASE M!Next /\ UNCHANGED billingVars
    BY <1>1, DecisionMembers DEF billingVars
<1>2. CASE UNCHANGED memberVars /\ (B!Next \/ UNCHANGED rows)
    <2>1. TokensInv' /\ MembersAsRead' /\ Settled /\ CountedWithinPlan
        BY <1>2 DEF memberVars, TokensInv, LatestLink, MembersAsRead, MemberAsRead, Settled, CountedWithinPlan,
                    M!Counted
    <2>2. ASSUME NEW r \in Reqs, reqs[r].pc = "invite" PROVE UNCHANGED rows
        BY <1>2, <2>2, BillingStill DEF M!Busy
    <2>3. SeatsAsRead'
        BY <1>2, <2>2 DEF SeatsAsRead, memberVars, M!Counted, InForce, B!Current, B!Last
    <2> QED BY <2>1, <2>3
<1> QED BY <1>1, <1>2 DEF Next, vars, memberVars, billingVars

(* The parts of the workspace's invariant that hold whatever is allowed.   *)
WorkInv == OwnerInv /\ BillingInv /\ UrlInv /\ S!SiteTypes /\ Alone

LEMMA WorkInit == ASSUME Init PROVE WorkInv
BY OwnerInit, BillingInit, UrlsInit, SitesInit, AloneInit DEF WorkInv

LEMMA WorkKept == ASSUME WorkInv, [Next]_vars PROVE WorkInv'
BY OwnerKept, BillingStep, UrlInvKept, SiteTypesKept, AloneKept DEF WorkInv

LEMMA DecisionAlways == Spec => [](WorkInv /\ DecisionInv)
<1>1. Init => WorkInv /\ DecisionInv
    BY WorkInit, DecisionInit
<1>2. WorkInv /\ DecisionInv /\ [Next]_vars => (WorkInv /\ DecisionInv)'
    <2> SUFFICES ASSUME WorkInv, DecisionInv, [Next]_vars PROVE (WorkInv /\ DecisionInv)'
        OBVIOUS
    <2>1. OneAtATime' => OneAtATime
        BY DEF OneAtATime, Next, vars
    <2> QED BY <2>1, WorkKept, DecisionKept DEF DecisionInv, WorkInv
<1> QED BY <1>1, <1>2, PTL DEF Spec

(***************************************************************************)
(* Requests handled one at a time, for any people, plans, bounds and       *)
(* whatever Stripe sends: an invitation is accepted or canceled once and   *)
(* for all, only with the last link that was mailed, and then no link is   *)
(* left (resendInvite, cancelInvite, acceptInvite; SECURITY.md:18).        *)
(***************************************************************************)
THEOREM DecidedOnce == Spec => DecisionsAreFinal
<1>1. DecisionInv => TokensArePending
    BY DEF DecisionInv, TokensInv, TokensArePending
<1>2. WorkInv /\ DecisionInv /\ [Next]_vars
        => [OneAtATime => \A p \in People :
              members[p].status \in {"ACTIVE", "CANCELED"} => members'[p].status = members[p].status]_vars
    BY DecisionKept DEF DecisionInv, WorkInv, Settled
<1>3. WorkInv /\ DecisionInv
        => (OneAtATime => \A r \in Reqs :
              (reqs[r].pc = "accept" /\ members' # members)
                 => /\ links[reqs[r].token] = reqs[r].person
                    /\ \A i \in DOMAIN links : links[i] = reqs[r].person => i <= reqs[r].token)
    <2> SUFFICES ASSUME WorkInv, DecisionInv, OneAtATime, NEW r \in Reqs, reqs[r].pc = "accept"
                 PROVE  /\ links[reqs[r].token] = reqs[r].person
                        /\ \A i \in DOMAIN links : links[i] = reqs[r].person => i <= reqs[r].token
        OBVIOUS
    <2>1. reqs[r].person \in People /\ DOMAIN links = 1..Len(links)
        BY DEF WorkInv, OwnerInv, M!TypeOK, M!Request
    <2>2. members[reqs[r].person].status = "INVITED" /\ members[reqs[r].person].token = reqs[r].token
        BY DEF DecisionInv, MembersAsRead, MemberAsRead
    <2>3. LatestLink(reqs[r].person, reqs[r].token)
        BY <2>1, <2>2 DEF DecisionInv, TokensInv
    <2> QED BY <2>1, <2>3 DEF LatestLink
<1> QED BY <1>1, <1>2, <1>3, DecisionAlways, PTL DEF Spec, DecisionsAreFinal, StatusesStay, LatestLinkOnly

-----------------------------------------------------------------------------
(* Limits, one request at a time *)

(* There is still room for the site a request is about to add. *)
SitesAsRead ==
    \A r \in SiteReqs :
        siteReqs[r] # NoSite => InForce /\ Cardinality(sites) < SiteCaps[B!Current.plan]

SitesWithin == sites' # sites => InForce /\ Cardinality(sites') <= SiteCaps[B!Current.plan]

LEMMA SitesKept ==
    ASSUME WorkInv, OneAtATime, SitesAsRead, [Next]_vars
    PROVE  SitesAsRead' /\ SitesWithin
<1> USE DEF WorkInv
<1>1. IsFiniteSet(sites) /\ Cardinality(sites) \in Nat
    BY WorkspaceAssumption, FS_Subset, FS_CardinalityType DEF S!SiteTypes
<1>2. CASE S!Next /\ UNCHANGED rows
    <2>1. B!Current' = B!Current /\ InForce' = InForce
        BY <1>2 DEF InForce, B!Current, B!Last
    <2>2. ASSUME NEW r \in SiteReqs, NEW s \in SiteUrls, S!SiteRead(r, s)
          PROVE  SitesAsRead' /\ SitesWithin
        <3>1. InForce /\ Cardinality(sites) < SiteCaps[B!Current.plan]
            BY <1>1, <2>2, OneCardinality, PositiveLimit DEF S!SiteRead, BillingInv
        <3>2. sites' = sites
            BY <2>2 DEF S!SiteRead
        <3> QED BY <2>1, <3>1, <3>2 DEF SitesAsRead, SitesWithin
    <2>3. ASSUME NEW r \in SiteReqs, siteReqs[r] # NoSite, siteReqs' = [siteReqs EXCEPT ![r] = NoSite]
          PROVE  SitesAsRead'
        <3>1. \A q \in SiteReqs : siteReqs[q] # NoSite => q = r
            BY <2>3, Apart DEF S!BusySites
        <3>2. \A q \in SiteReqs : siteReqs'[q] = NoSite
            BY <2>3, <3>1 DEF S!SiteTypes
        <3> QED BY <3>2 DEF SitesAsRead
    <2>4. ASSUME NEW r \in SiteReqs, S!SiteWrite(r) PROVE SitesAsRead' /\ SitesWithin
        <3>1. InForce /\ Cardinality(sites) < SiteCaps[B!Current.plan]
            BY <2>4 DEF S!SiteWrite, SitesAsRead
        <3>2. sites' = sites \cup {siteReqs[r]}
            BY <2>4 DEF S!SiteWrite
        <3>3. Cardinality(sites \cup {siteReqs[r]}) \in {Cardinality(sites), Cardinality(sites) + 1}
            BY <1>1, FS_AddElement
        <3>4. Cardinality(sites') <= SiteCaps[B!Current.plan]
            BY <1>1, <3>1, <3>2, <3>3, PositiveLimit DEF BillingInv
        <3> QED BY <2>3, <2>4, <3>1, <3>4 DEF S!SiteWrite, SitesWithin
    <2>5. ASSUME NEW r \in SiteReqs, S!AbandonSite(r) PROVE SitesAsRead' /\ SitesWithin
        BY <2>3, <2>5 DEF S!AbandonSite, SitesWithin
    <2> QED BY <1>2, <2>2, <2>4, <2>5 DEF S!Next
<1>3. CASE UNCHANGED siteVars /\ (B!Next \/ UNCHANGED rows)
    <2>1. ASSUME NEW r \in SiteReqs, siteReqs[r] # NoSite PROVE UNCHANGED rows
        BY <1>3, <2>1, BillingStill DEF S!BusySites
    <2> QED BY <1>3, <2>1 DEF SitesAsRead, SitesWithin, siteVars, InForce, B!Current, B!Last
<1> QED BY <1>2, <1>3 DEF Next, vars, siteVars, billingVars

(* There is still room for the URL a request is about to activate. *)
UrlsAsRead ==
    /\ Cardinality(U!Active) <= MaxActive
    /\ \A r \in UrlReqs :
          /\ urlReqs[r].pc = "create" => Cardinality(U!Active) < MaxActive
          /\ urlReqs[r].pc = "resume" =>
                watched[urlReqs[r].url] = "active" \/ Cardinality(U!Active) < MaxActive

LEMMA UrlsKept ==
    ASSUME WorkInv, OneAtATime, UrlsAsRead, [Next]_vars
    PROVE  UrlsAsRead'
<1> USE DEF WorkInv
<1>0. UrlInv /\ U!UrlTypes
    BY DEF UrlInv
<1>1. IsFiniteSet(U!Active) /\ Cardinality(U!Active) \in Nat /\ MaxActive \in Nat
    <2>1. U!Active \in SUBSET Urls
        BY DEF U!Active
    <2> QED BY <2>1, WorkspaceAssumption, FS_Subset, FS_CardinalityType
<1>2. ASSUME NEW T, NEW u, T \subseteq U!Active \cup {u}
      PROVE  /\ Cardinality(T) \in Nat
             /\ Cardinality(T) <= Cardinality(U!Active) + 1
             /\ u \in U!Active => Cardinality(T) <= Cardinality(U!Active)
    <2>1. /\ IsFiniteSet(U!Active \cup {u})
          /\ Cardinality(U!Active \cup {u})
                = IF u \in U!Active THEN Cardinality(U!Active) ELSE Cardinality(U!Active) + 1
        BY <1>1, FS_AddElement
    <2>2. IsFiniteSet(T) /\ Cardinality(T) <= Cardinality(U!Active \cup {u}) /\ Cardinality(T) \in Nat
        BY <1>2, <2>1, FS_Subset, FS_CardinalityType
    <2> QED BY <1>1, <2>1, <2>2
<1>3. ASSUME NEW r \in UrlReqs, NEW u \in Urls,
             U!CreateRead(r, u) \/ U!ResumeRead(r, u) \/ U!PauseRead(r, u)
      PROVE  UrlsAsRead'
    <2>1. watched' = watched /\ U!Active' = U!Active
        BY <1>3 DEF U!CreateRead, U!ResumeRead, U!PauseRead, U!Begin, U!Active
    <2>2. /\ \A q \in UrlReqs \ {r} : urlReqs'[q] = urlReqs[q]
          /\ urlReqs'[r].url = u
          /\ urlReqs'[r].pc = "create" => Cardinality(U!Active) < MaxActive
          /\ urlReqs'[r].pc = "resume" =>
                watched[u] # "none" /\ (watched[u] = "paused" => Cardinality(U!Active) < MaxActive)
        BY <1>0, <1>3, OneCardinality
           DEF U!CreateRead, U!ResumeRead, U!PauseRead, U!Begin, U!UrlTypes
    <2>3. watched[u] \in {"none", "active", "paused"}
        BY <1>0 DEF U!UrlTypes
    <2>4. urlReqs'[r].pc = "resume" => watched[urlReqs'[r].url] = "active" \/ Cardinality(U!Active) < MaxActive
        BY <2>2, <2>3
    <2>5. ASSUME NEW q \in UrlReqs
          PROVE  /\ urlReqs'[q].pc = "create" => Cardinality(U!Active) < MaxActive
                 /\ urlReqs'[q].pc = "resume" =>
                       watched[urlReqs'[q].url] = "active" \/ Cardinality(U!Active) < MaxActive
        <3>1. CASE q = r
            BY <2>2, <2>4, <3>1
        <3>2. CASE q # r
            BY <2>2, <3>2 DEF UrlsAsRead
        <3> QED BY <3>1, <3>2
    <2> QED BY <2>1, <2>5 DEF UrlsAsRead
<1>4. ASSUME NEW r \in UrlReqs, urlReqs[r].pc # "idle", U!End(r), Cardinality(U!Active') <= MaxActive
      PROVE  UrlsAsRead'
    <2>1. \A q \in UrlReqs : urlReqs[q].pc # "idle" => q = r
        BY <1>4, Apart DEF U!BusyUrls
    <2>2. \A q \in UrlReqs : urlReqs'[q].pc = "idle"
        BY <1>0, <1>4, <2>1 DEF U!End, U!IdleUrl, U!UrlTypes
    <2> QED BY <1>4, <2>2 DEF UrlsAsRead
<1>5. ASSUME NEW r \in UrlReqs, U!CreateWrite(r) PROVE UrlsAsRead'
    <2>1. U!Active' \subseteq U!Active \cup {urlReqs[r].url}
        BY <1>0, <1>5 DEF U!CreateWrite, U!Active, U!UrlTypes
    <2>2. Cardinality(U!Active) < MaxActive /\ urlReqs[r].pc # "idle" /\ U!End(r)
        BY <1>5 DEF U!CreateWrite, UrlsAsRead
    <2>3. Cardinality(U!Active') <= MaxActive
        BY <1>1, <1>2, <2>1, <2>2
    <2> QED BY <1>4, <2>2, <2>3
<1>6. ASSUME NEW r \in UrlReqs, U!ResumeWrite(r) PROVE UrlsAsRead'
    <2>1. U!Active' \subseteq U!Active \cup {urlReqs[r].url}
        BY <1>0, <1>6 DEF U!ResumeWrite, U!Active, U!UrlTypes
    <2>2. urlReqs[r].pc = "resume" /\ U!End(r) /\ urlReqs[r].url \in Urls
        BY <1>6 DEF U!ResumeWrite, UrlInv
    <2>3. urlReqs[r].url \in U!Active \/ Cardinality(U!Active) < MaxActive
        BY <2>2 DEF UrlsAsRead, U!Active
    <2>4. Cardinality(U!Active') <= MaxActive
        BY <1>1, <1>2, <2>1, <2>3 DEF UrlsAsRead
    <2> QED BY <1>4, <2>2, <2>4
<1>7. ASSUME NEW r \in UrlReqs, U!PauseWrite(r) \/ U!AbandonUrl(r) PROVE UrlsAsRead'
    <2>1. U!Active' \subseteq U!Active
        BY <1>0, <1>7 DEF U!PauseWrite, U!AbandonUrl, U!Active, U!UrlTypes
    <2>2. urlReqs[r].pc # "idle" /\ U!End(r)
        BY <1>7 DEF U!PauseWrite, U!AbandonUrl
    <2>3. Cardinality(U!Active') \in Nat /\ Cardinality(U!Active') <= Cardinality(U!Active)
        BY <1>1, <2>1, FS_Subset, FS_CardinalityType
    <2>4. Cardinality(U!Active') <= MaxActive
        BY <1>1, <2>3 DEF UrlsAsRead
    <2> QED BY <1>4, <2>2, <2>4
<1>8. CASE UNCHANGED urlVars
    BY <1>8 DEF UrlsAsRead, urlVars, U!Active
<1> QED BY <1>3, <1>5, <1>6, <1>7, <1>8 DEF Next, vars, urlVars, U!Next

LimitsInv == OneAtATime => SitesAsRead /\ UrlsAsRead

LEMMA LimitsInit == ASSUME Init PROVE LimitsInv
<1>1. \A r \in SiteReqs : siteReqs[r] = NoSite
    BY DEF Init, S!Init
<1>2. U!Active = {} /\ \A r \in UrlReqs : urlReqs[r].pc = "idle"
    BY DEF Init, U!Init, U!IdleUrl, U!Active
<1>3. Cardinality({}) = 0 /\ MaxActive \in Nat
    BY FS_EmptySet, WorkspaceAssumption
<1> QED BY <1>1, <1>2, <1>3 DEF LimitsInv, SitesAsRead, UrlsAsRead

LEMMA LimitsAlways == Spec => [](WorkInv /\ LimitsInv)
<1>1. Init => WorkInv /\ LimitsInv
    BY WorkInit, LimitsInit
<1>2. WorkInv /\ LimitsInv /\ [Next]_vars => (WorkInv /\ LimitsInv)'
    <2>1. [Next]_vars => (OneAtATime' => OneAtATime)
        BY DEF OneAtATime, Next, vars
    <2> QED BY <2>1, WorkKept, SitesKept, UrlsKept DEF LimitsInv
<1> QED BY <1>1, <1>2, PTL DEF Spec

(***************************************************************************)
(* Requests handled one at a time, for any plans, limits and bounds and    *)
(* whatever Stripe sends: an organization gains a member or a site only    *)
(* while its subscription is in force and within its plan, and no site has *)
(* more active URLs than the cap (inviteMember, createSite,                *)
(* createMonitoredUrlForSite; SECURITY.md:112).                            *)
(***************************************************************************)
THEOREM PlansAreKept == Spec => WithinLimits
<1>1. LimitsInv => UrlsWithinCap
    BY DEF LimitsInv, UrlsAsRead, UrlsWithinCap
<1>2. WorkInv /\ LimitsInv /\ [Next]_vars
        => [(OneAtATime /\ sites' # sites)
               => InForce /\ Cardinality(sites') <= SiteCaps[B!Current.plan]]_vars
    BY SitesKept DEF LimitsInv, SitesWithin
<1>3. WorkInv /\ DecisionInv /\ [Next]_vars
        => [(OneAtATime /\ ~(M!Counted' \subseteq M!Counted))
               => InForce /\ Cardinality(M!Counted') <= Seats[B!Current.plan]]_vars
    BY DecisionKept DEF DecisionInv, WorkInv, CountedWithinPlan
<1> QED BY <1>1, <1>2, <1>3, DecisionAlways, LimitsAlways, PTL
    DEF Spec, WithinLimits, SeatsWithinPlan, SitesWithinPlan

-----------------------------------------------------------------------------
(* Rows, events and codes *)

Of(provider, key) == {i \in 1..Len(rows) : rows[i].provider = provider /\ rows[i].key = key}

About(customer) ==
    {i \in 1..Len(ledger) : sent[ledger[i]].known /\ sent[ledger[i]].customer = customer}

Opened(customer) == \E i \in About(customer) : sent[ledger[i]].status # "CANCELED"

(* Row i says what the event stored last for the customer says. *)
Follows(i, customer) ==
    LET latest == sent[ledger[B!Max(About(customer))]]
    IN  rows[i].status = latest.status /\ rows[i].plan = latest.plan

CustomerInv(customer) ==
    /\ ~Opened(customer) => Of("stripe", customer) = {}
    /\ Opened(customer) => \E i \in 1..Len(rows) : Of("stripe", customer) = {i} /\ Follows(i, customer)

CodeInv(k) ==
    /\ codes[k].redeemed => \E i \in 1..Len(rows) : Of("grant", k) = {i}
    /\ ~codes[k].redeemed => Of("grant", k) = {}
    /\ ~(codes[k].redeemed /\ codes[k].revoked)

(* What a delivery or a request read of the rows and codes is still so. *)
CallAsRead(c) ==
    /\ calls[c].pc = "webhook" => calls[c].row = B!RowOf(sent[calls[c].event].customer)
    /\ calls[c].pc = "redeem" => ~codes[calls[c].code].redeemed /\ ~codes[calls[c].code].revoked
    /\ calls[c].pc = "revoke" => ~codes[calls[c].code].redeemed

Customers == {kind.customer : kind \in EventKinds}

StoredInv == (\A x \in Customers : CustomerInv(x)) /\ (\A k \in Codes : CodeInv(k))

CallsAsRead == \A c \in Calls : CallAsRead(c)

(* The lookup finds the customer's one row. *)
LEMMA Lookup ==
    ASSUME RowsInv, NEW x
    PROVE  /\ Of("stripe", x) = {} => B!RowOf(x) = 0
           /\ \A i \in 1..Len(rows) : Of("stripe", x) = {i} => B!RowOf(x) = rows[i].id
<1> DEFINE its == {i \in DOMAIN rows : rows[i].provider = "stripe" /\ rows[i].key = x}
<1>1. its = Of("stripe", x) /\ Len(rows) \in Nat
    BY RowsLength DEF Of
<1>2. B!RowOf(x) = IF its = {} THEN 0 ELSE rows[B!Max(its)].id
    BY DEF B!RowOf
<1> HIDE DEF its
<1>3. ASSUME NEW i \in 1..Len(rows), its = {i} PROVE B!Max(its) = i
    <2>1. \A y \in its : y <= i
        BY <1>1, <1>3
    <2> QED BY <1>1, <1>3, <2>1, Largest
<1> QED BY <1>1, <1>2, <1>3

LEMMA OfInserted ==
    ASSUME RowsInv, NEW row, Len(rows') = Len(rows) + 1, rows'[Len(rows) + 1] = row,
           \A j \in 1..Len(rows) : rows'[j] = rows[j],
           NEW provider, NEW key
    PROVE  /\ row.provider = provider /\ row.key = key => Of(provider, key)' = Of(provider, key) \cup {Len(rows) + 1}
           /\ ~(row.provider = provider /\ row.key = key) => Of(provider, key)' = Of(provider, key)
<1> DEFINE n == Len(rows)
<1>1. n \in Nat
    BY RowsLength
<1>2. \A j : j \in 1..Len(rows') <=> (j \in 1..n \/ j = n + 1)
    BY <1>1
<1>3. n + 1 \notin 1..n
    BY <1>1
<1> HIDE DEF n
<1>4. \A j : j \in Of(provider, key)' <=>
                (j \in Of(provider, key) \/ (j = n + 1 /\ row.provider = provider /\ row.key = key))
    BY <1>2, <1>3 DEF Of, n
<1> QED BY <1>4 DEF n

(* An update keeps the rows of everyone in number, and the others' content. *)
LEMMA OfUpdated ==
    ASSUME RowsInv, NEW id, NEW status \in B!Statuses, NEW plan \in Plans, NEW at \in 1..Len(rows),
           MovesRow(id, status, plan, at), NEW provider, NEW key
    PROVE  /\ Of(provider, key) = {} => Of(provider, key)' = {}
           /\ \A i \in 1..Len(rows) :
                 Of(provider, key) = {i}
                   => \E j \in 1..Len(rows) :
                         /\ Of(provider, key)' = {j}
                         /\ i = at => rows'[j].status = status /\ rows'[j].plan = plan
                         /\ i # at => rows'[j] = rows[i]
<1> DEFINE n == Len(rows)
           from(j) == IF j = n THEN at ELSE IF j < at THEN j ELSE j + 1
           to(i) == IF i = at THEN n ELSE IF i < at THEN i ELSE i - 1
<1>1. n \in Nat /\ n >= 1 /\ rows \in Seq(Row) /\ at \in 1..n /\ Len(rows') = n
    BY DEF RowsInv, MovesRow
<1>2. \A j \in 1..n : from(j) \in 1..n
    BY <1>1
<1>3. \A i \in 1..n : to(i) \in 1..n /\ from(to(i)) = i
    BY <1>1
<1>4. \A i, j \in 1..n : from(j) = i => j = to(i)
    BY <1>1
<1>5. rows[at] \in Row
    BY <1>1
<1>6. rows'[n] = [rows[at] EXCEPT !.status = status, !.plan = plan]
    BY DEF MovesRow
<1>7. /\ rows'[n].provider = rows[at].provider /\ rows'[n].key = rows[at].key
      /\ rows'[n].status = status /\ rows'[n].plan = plan
    BY <1>5, <1>6 DEF Row
<1>8. ASSUME NEW j \in 1..n, j # n PROVE rows'[j] = rows[from(j)]
    BY <1>1, <1>8 DEF MovesRow
<1>9. \A j \in 1..n : rows'[j].provider = rows[from(j)].provider /\ rows'[j].key = rows[from(j)].key
    BY <1>7, <1>8
<1>10. to(at) = n /\ \A i \in 1..n : i # at => to(i) # n
    BY <1>1
<1> HIDE DEF from, to
<1>11. Of(provider, key)' = {j \in 1..n : from(j) \in Of(provider, key)}
    BY <1>1, <1>2, <1>9 DEF Of
<1> HIDE DEF n
<1>12. ASSUME NEW i \in 1..n, Of(provider, key) = {i}
       PROVE  \E j \in 1..n :
                 /\ Of(provider, key)' = {j}
                 /\ i = at => rows'[j].status = status /\ rows'[j].plan = plan
                 /\ i # at => rows'[j] = rows[i]
    <2>1. to(i) \in 1..n /\ from(to(i)) = i /\ \A j \in 1..n : from(j) = i => j = to(i)
        BY <1>3, <1>4
    <2>2. Of(provider, key)' = {to(i)}
        BY <1>11, <1>12, <2>1
    <2>3. i = at => rows'[to(i)].status = status /\ rows'[to(i)].plan = plan
        BY <1>7, <1>10
    <2>4. i # at => rows'[to(i)] = rows[i]
        BY <1>8, <1>10, <2>1
    <2> QED BY <2>1, <2>2, <2>3, <2>4
<1> QED BY <1>11, <1>12 DEF n

LEMMA LatestFound ==
    ASSUME LedgerFits, NEW x, Opened(x)
    PROVE  B!Max(About(x)) \in About(x) /\ About(x) \subseteq 1..Len(ledger)
<1>1. Len(ledger) \in Nat
    BY DEF LedgerFits
<1>2. About(x) \subseteq 1..Len(ledger)
    BY DEF About
<1>3. About(x) # {}
    BY DEF Opened
<1> QED BY <1>1, <1>2, <1>3, Largest

(* Events that are not a customer's leave what is stored of it as it is. *)
LEMMA AboutSame ==
    ASSUME LedgerFits, NEW x, About(x)' = About(x),
           \A i \in About(x) : sent'[ledger'[i]] = sent[ledger[i]]
    PROVE  /\ Opened(x)' = Opened(x)
           /\ Opened(x) => \A i, j : rows'[j] = rows[i] => Follows(j, x)' = Follows(i, x)
<1>1. Opened(x)' = Opened(x)
    BY DEF Opened
<1>2. ASSUME Opened(x), NEW i, NEW j, rows'[j] = rows[i] PROVE Follows(j, x)' = Follows(i, x)
    <2> DEFINE m == B!Max(About(x))
    <2>1. m \in About(x) /\ m' = m
        BY <1>2, LatestFound DEF B!Max
    <2>2. sent'[ledger'[m]] = sent[ledger[m]]
        BY <2>1
    <2> QED BY <1>2, <2>1, <2>2 DEF Follows
<1> QED BY <1>1, <1>2

LEMMA SameLedger ==
    ASSUME LedgerFits, UNCHANGED ledger, \A i \in 1..Len(sent) : sent'[i] = sent[i], NEW x
    PROVE  About(x)' = About(x) /\ \A i \in About(x) : sent'[ledger'[i]] = sent[ledger[i]]
<1>1. \A i \in 1..Len(ledger) : sent'[ledger[i]] = sent[ledger[i]]
    BY DEF LedgerFits
<1> QED BY <1>1 DEF About

LEMMA LedgerAppended ==
    ASSUME LedgerFits, UNCHANGED sent, NEW e \in Nat, ledger' = Append(ledger, e), NEW x
    PROVE  /\ \A i \in About(x) : sent'[ledger'[i]] = sent[ledger[i]]
           /\ ~(sent[e].known /\ sent[e].customer = x) => About(x)' = About(x)
           /\ (sent[e].known /\ sent[e].customer = x) =>
                 /\ Opened(x)' <=> (Opened(x) \/ sent[e].status # "CANCELED")
                 /\ \A i : Follows(i, x)' <=> (rows'[i].status = sent[e].status /\ rows'[i].plan = sent[e].plan)
<1> DEFINE n == Len(ledger)
<1>1. /\ n \in Nat /\ Len(ledger') = n + 1 /\ ledger'[n + 1] = e
      /\ \A i \in 1..n : ledger'[i] = ledger[i]
    BY DEF LedgerFits
<1>2. \A i : i \in 1..(n + 1) <=> (i \in 1..n \/ i = n + 1)
    BY <1>1
<1>3. n + 1 \notin 1..n
    BY <1>1
<1>4. \A i \in About(x) : i \in 1..n /\ sent'[ledger'[i]] = sent[ledger[i]]
    BY <1>1 DEF About
<1>5. \A i : i \in About(x)' <=>
                (i \in About(x) \/ (i = n + 1 /\ sent[e].known /\ sent[e].customer = x))
    <2>1. About(x)' = {i \in 1..(n + 1) : sent[ledger'[i]].known /\ sent[ledger'[i]].customer = x}
        BY <1>1 DEF About
    <2>2. About(x) = {i \in 1..n : sent[ledger[i]].known /\ sent[ledger[i]].customer = x}
        BY DEF About
    <2> HIDE DEF n
    <2> QED BY <1>1, <1>2, <1>3, <2>1, <2>2
<1> HIDE DEF n
<1>6. ASSUME sent[e].known, sent[e].customer = x
      PROVE  /\ Opened(x)' <=> (Opened(x) \/ sent[e].status # "CANCELED")
             /\ \A i : Follows(i, x)' <=> (rows'[i].status = sent[e].status /\ rows'[i].plan = sent[e].plan)
    <2>1. About(x)' = About(x) \cup {n + 1}
        BY <1>5, <1>6
    <2>2. Opened(x)' <=> (Opened(x) \/ sent[e].status # "CANCELED")
        BY <1>1, <1>4, <2>1 DEF Opened
    <2>3. (B!Max(About(x)))' = n + 1
        <3> DEFINE T == About(x) \cup {n + 1}
        <3>1. n + 1 \in Nat /\ T \subseteq 1..(n + 1) /\ T # {} /\ n + 1 \in T
            BY <1>1, <1>2, <1>4
        <3>2. \A y \in T : y <= n + 1
            BY <1>1, <3>1
        <3> HIDE DEF T
        <3>3. B!Max(T) = n + 1
            BY <3>1, <3>2, Largest
        <3> QED BY <2>1, <3>3 DEF T, B!Max
    <2>4. ASSUME NEW i
          PROVE  Follows(i, x)' <=> (rows'[i].status = sent[e].status /\ rows'[i].plan = sent[e].plan)
        BY <1>1, <2>3 DEF Follows
    <2> QED BY <2>2, <2>4
<1>7. ~(sent[e].known /\ sent[e].customer = x) => About(x)' = About(x)
    BY <1>5
<1> QED BY <1>4, <1>6, <1>7

LEMMA StoredInit == ASSUME Init PROVE StoredInv /\ CallsAsRead
<1>1. Len(ledger) = 0 /\ Len(rows) = 1 /\ rows[1].provider = "none"
    BY DEF Init, B!Init, B!Trial
<1>2. \A x : About(x) = {} /\ Of("stripe", x) = {} /\ Of("grant", x) = {}
    BY <1>1 DEF About, Of
<1>3. \A x : ~Opened(x)
    BY <1>2 DEF Opened
<1>4. \A k \in Codes : ~codes[k].redeemed
    BY DEF Init, B!Init
<1>5. \A c \in Calls : calls[c].pc = "idle"
    BY DEF Init, B!Init, B!IdleCall
<1> QED BY <1>2, <1>3, <1>4, <1>5 DEF StoredInv, CustomerInv, CodeInv, CallsAsRead, CallAsRead

LEMMA CustomerSame ==
    ASSUME LedgerFits, NEW x, CustomerInv(x), UNCHANGED rows, About(x)' = About(x),
           \A i \in About(x) : sent'[ledger'[i]] = sent[ledger[i]]
    PROVE  CustomerInv(x)'
<1>1. Opened(x)' = Opened(x) /\ (Opened(x) => \A i : Follows(i, x)' = Follows(i, x))
    <2>1. \A i : rows'[i] = rows[i]
        OBVIOUS
    <2> QED BY <2>1, AboutSame
<1>2. Of("stripe", x)' = Of("stripe", x)
    BY DEF Of
<1> QED BY <1>1, <1>2 DEF CustomerInv

LEMMA CodeSame ==
    ASSUME UNCHANGED rows, NEW k, CodeInv(k), codes'[k].redeemed = codes[k].redeemed,
           codes'[k].revoked => codes[k].revoked \/ ~codes[k].redeemed
    PROVE  CodeInv(k)'
<1>1. Of("grant", k)' = Of("grant", k)
    BY DEF Of
<1> QED BY <1>1 DEF CodeInv

LEMMA StoredSame ==
    ASSUME LedgerFits, StoredInv, UNCHANGED <<ledger, rows>>, \A i \in 1..Len(sent) : sent'[i] = sent[i],
           \A k \in Codes : /\ codes'[k].redeemed = codes[k].redeemed
                            /\ codes'[k].revoked => codes[k].revoked \/ ~codes[k].redeemed
    PROVE  StoredInv'
<1>1. ASSUME NEW x \in Customers PROVE CustomerInv(x)'
    BY SameLedger, CustomerSame DEF StoredInv
<1>2. ASSUME NEW k \in Codes PROVE CodeInv(k)'
    BY CodeSame DEF StoredInv
<1> QED BY <1>1, <1>2 DEF StoredInv, Customers

(* What the lookup of a delivery says of the rows of its customer. *)
LEMMA LookedUp ==
    ASSUME RowsInv, NEW x, CustomerInv(x)
    PROVE  /\ B!RowOf(x) = 0 => ~Opened(x) /\ Of("stripe", x) = {}
           /\ B!RowOf(x) # 0 => /\ Opened(x)
                                /\ \E i \in 1..Len(rows) : Of("stripe", x) = {i} /\ rows[i].id = B!RowOf(x)
<1>1. \A i \in 1..Len(rows) : rows[i].id # 0
    BY RowsLength
<1> QED BY <1>1, Lookup DEF CustomerInv

LEMMA StoredUpdate ==
    ASSUME RowsInv, LedgerFits, StoredInv, NEW e \in 1..Len(sent), UNCHANGED <<sent, codes>>,
           ledger' = Append(ledger, e), sent[e].known, B!RowOf(sent[e].customer) # 0,
           B!Update(B!RowOf(sent[e].customer), sent[e].status, sent[e].plan)
    PROVE  StoredInv'
<1>1. PICK y \in Customers : y = sent[e].customer
    <2>1. sent[e] \in EventKinds
        BY DEF LedgerFits
    <2> QED BY <2>1 DEF Customers
<1>2. e \in Nat
    OBVIOUS
<1>3. PICK i \in 1..Len(rows) : Of("stripe", y) = {i} /\ rows[i].id = B!RowOf(y)
    BY <1>1, LookedUp DEF StoredInv
<1>4. Opened(y)
    BY <1>1, LookedUp DEF StoredInv
<1>5. sent[e].status \in B!Statuses /\ sent[e].plan \in Plans
    BY KnownEvents
<1>6. MovesRow(B!RowOf(y), sent[e].status, sent[e].plan, i)
    <2>1. PICK at \in 1..Len(rows) : MovesRow(B!RowOf(y), sent[e].status, sent[e].plan, at)
        <3>1. B!RowOf(y) \in 1..Len(rows)
            BY <1>3, RowsLength
        <3> QED BY <1>1, <1>5, <3>1, Updated
    <2>2. rows[at].id = rows[i].id
        BY <1>3, <2>1 DEF MovesRow
    <2>3. at = i
        BY <2>2 DEF RowsInv
    <2> QED BY <2>1, <2>3
<1>7. Len(rows') = Len(rows)
    BY <1>6 DEF MovesRow
<1>8. ASSUME NEW provider, NEW key
      PROVE  /\ Of(provider, key) = {} => Of(provider, key)' = {}
             /\ \A o \in 1..Len(rows) :
                   Of(provider, key) = {o}
                     => \E j \in 1..Len(rows) :
                           /\ Of(provider, key)' = {j}
                           /\ o = i => rows'[j].status = sent[e].status /\ rows'[j].plan = sent[e].plan
                           /\ o # i => rows'[j] = rows[o]
    BY <1>5, <1>6, OfUpdated
<1>9. CustomerInv(y)'
    <2>1. PICK j \in 1..Len(rows) : /\ Of("stripe", y)' = {j}
                                   /\ rows'[j].status = sent[e].status /\ rows'[j].plan = sent[e].plan
        BY <1>3, <1>8
    <2>2. Opened(y)' /\ Follows(j, y)'
        BY <1>1, <1>2, <1>4, <2>1, LedgerAppended
    <2> QED BY <1>7, <2>1, <2>2 DEF CustomerInv
<1>10. ASSUME NEW x \in Customers \ {y} PROVE CustomerInv(x)'
    <2>1. About(x)' = About(x) /\ \A o \in About(x) : sent'[ledger'[o]] = sent[ledger[o]]
        BY <1>1, <1>2, LedgerAppended
    <2>2. /\ Opened(x)' = Opened(x)
          /\ Opened(x) => \A o, j : rows'[j] = rows[o] => Follows(j, x)' = Follows(o, x)
        BY <2>1, AboutSame
    <2>3. CustomerInv(x)
        BY DEF StoredInv
    <2>4. CASE ~Opened(x)
        BY <1>8, <2>2, <2>3, <2>4 DEF CustomerInv
    <2>5. CASE Opened(x)
        <3>1. PICK o \in 1..Len(rows) : Of("stripe", x) = {o} /\ Follows(o, x)
            BY <2>3, <2>5 DEF CustomerInv
        <3>2. o # i
            BY <1>3, <3>1 DEF Of
        <3>3. PICK j \in 1..Len(rows) : Of("stripe", x)' = {j} /\ rows'[j] = rows[o]
            BY <1>8, <3>1, <3>2
        <3> QED BY <1>7, <2>2, <2>5, <3>1, <3>3 DEF CustomerInv
    <2> QED BY <2>4, <2>5
<1>11. ASSUME NEW k \in Codes PROVE CodeInv(k)'
    <2>1. CodeInv(k) /\ codes' = codes
        BY DEF StoredInv
    <2>2. CASE codes[k].redeemed
        <3>1. PICK o \in 1..Len(rows) : Of("grant", k) = {o}
            BY <2>1, <2>2 DEF CodeInv
        <3>2. PICK j \in 1..Len(rows) : Of("grant", k)' = {j}
            BY <1>8, <3>1
        <3> QED BY <1>7, <2>1, <2>2, <3>2 DEF CodeInv
    <2>3. CASE ~codes[k].redeemed
        BY <1>8, <2>1, <2>3 DEF CodeInv
    <2> QED BY <2>2, <2>3
<1> QED BY <1>9, <1>10, <1>11 DEF StoredInv, Customers

LEMMA StoredInsert ==
    ASSUME RowsInv, LedgerFits, StoredInv, NEW e \in 1..Len(sent), UNCHANGED <<sent, codes>>,
           ledger' = Append(ledger, e), sent[e].known, B!RowOf(sent[e].customer) = 0,
           sent[e].status # "CANCELED",
           B!Insert([id |-> 0, provider |-> "stripe", key |-> sent[e].customer,
                     status |-> sent[e].status, plan |-> sent[e].plan])
    PROVE  StoredInv'
<1>1. PICK y \in Customers : y = sent[e].customer
    <2>1. sent[e] \in EventKinds
        BY DEF LedgerFits
    <2> QED BY <2>1 DEF Customers
<1>2. e \in Nat /\ Len(rows) \in Nat
    BY RowsLength
<1> DEFINE new == [id |-> 0, provider |-> "stripe", key |-> sent[e].customer,
                   status |-> sent[e].status, plan |-> sent[e].plan]
<1>3. PICK row \in Row : row = [new EXCEPT !.id = Len(rows) + 1]
    <2>1. [new EXCEPT !.id = Len(rows) + 1] \in Row
        BY <1>2, KnownEvents DEF Row
    <2> QED BY <2>1
<1>4. row.provider = "stripe" /\ row.key = y /\ row.status = sent[e].status /\ row.plan = sent[e].plan
    BY <1>1, <1>3
<1> HIDE DEF new
<1>5. /\ Len(rows') = Len(rows) + 1 /\ rows'[Len(rows) + 1] = row
      /\ \A j \in 1..Len(rows) : rows'[j] = rows[j]
    BY <1>3, Inserted DEF new
<1>6. ASSUME NEW provider, NEW key
      PROVE  /\ row.provider = provider /\ row.key = key
                   => Of(provider, key)' = Of(provider, key) \cup {Len(rows) + 1}
             /\ ~(row.provider = provider /\ row.key = key) => Of(provider, key)' = Of(provider, key)
    BY <1>5, OfInserted
<1>7. CustomerInv(y)'
    <2>0. PICK n \in Nat : n = Len(rows) + 1
        BY <1>2
    <2>1. Of("stripe", y) = {}
        BY <1>1, LookedUp DEF StoredInv
    <2>2. Of("stripe", y)' = {n}
        BY <1>4, <1>6, <2>0, <2>1
    <2>3. Opened(y)' /\ Follows(n, y)'
        <3>1. rows'[n].status = sent[e].status /\ rows'[n].plan = sent[e].plan
            BY <1>4, <1>5, <2>0
        <3>2. Opened(y)' /\ \A i : Follows(i, y)' <=> (rows'[i].status = sent[e].status /\ rows'[i].plan = sent[e].plan)
            BY <1>1, <1>2, LedgerAppended
        <3> QED BY <3>1, <3>2
    <2> QED BY <1>2, <1>5, <2>0, <2>2, <2>3 DEF CustomerInv
<1>8. ASSUME NEW x \in Customers \ {y} PROVE CustomerInv(x)'
    <2>1. About(x)' = About(x) /\ \A o \in About(x) : sent'[ledger'[o]] = sent[ledger[o]]
        BY <1>1, <1>2, LedgerAppended
    <2>2. /\ Opened(x)' = Opened(x)
          /\ Opened(x) => \A o, j : rows'[j] = rows[o] => Follows(j, x)' = Follows(o, x)
        BY <2>1, AboutSame
    <2>3. Of("stripe", x)' = Of("stripe", x)
        BY <1>4, <1>6
    <2>4. CustomerInv(x) /\ 1..Len(rows) \subseteq 1..Len(rows')
        BY <1>2, <1>5 DEF StoredInv
    <2>5. \A o \in 1..Len(rows) : Opened(x) => Follows(o, x)' = Follows(o, x)
        BY <1>5, <2>2
    <2> QED BY <2>2, <2>3, <2>4, <2>5 DEF CustomerInv
<1>9. ASSUME NEW k \in Codes PROVE CodeInv(k)'
    <2>1. Of("grant", k)' = Of("grant", k)
        BY <1>4, <1>6
    <2>2. CodeInv(k) /\ codes' = codes /\ 1..Len(rows) \subseteq 1..Len(rows')
        BY <1>2, <1>5 DEF StoredInv
    <2> QED BY <2>1, <2>2 DEF CodeInv
<1> QED BY <1>7, <1>8, <1>9 DEF StoredInv, Customers

LEMMA StoredWebhook ==
    ASSUME RowsInv, CallsInv, StoredInv, CallsAsRead, NEW c \in Calls, B!WebhookWrite(c)
    PROVE  StoredInv'
<1> DEFINE e == calls[c].event
<1>1. /\ calls[c].pc = "webhook" /\ CallFits(calls[c]) /\ LedgerFits
      /\ calls[c].row = B!RowOf(sent[e].customer)
    BY DEF B!WebhookWrite, CallsInv, CallsFit, CallsAsRead, CallAsRead
<1>2. PICK d \in 1..Len(sent) : d = e
    BY <1>1 DEF CallFits
<1>3. UNCHANGED <<sent, codes>>
    BY DEF B!WebhookWrite
<1>4. CASE UNCHANGED <<ledger, rows>>
    BY <1>1, <1>3, <1>4, StoredSame
<1>5. CASE ledger' = Append(ledger, d) /\ UNCHANGED rows
           /\ (~sent[d].known \/ (sent[d].status = "CANCELED" /\ B!RowOf(sent[d].customer) = 0))
    <2>1. ASSUME NEW x \in Customers PROVE CustomerInv(x)'
        <3>1. CustomerInv(x) /\ d \in Nat
            BY DEF StoredInv
        <3>2. CASE ~(sent[d].known /\ sent[d].customer = x)
            <4>1. About(x)' = About(x) /\ \A i \in About(x) : sent'[ledger'[i]] = sent[ledger[i]]
                BY <1>1, <1>3, <1>5, <3>1, <3>2, LedgerAppended
            <4> QED BY <1>1, <1>5, <3>1, <4>1, CustomerSame
        <3>3. CASE sent[d].known /\ sent[d].customer = x
            <4>1. ~Opened(x) /\ Of("stripe", x) = {}
                BY <1>5, <3>1, <3>3, LookedUp
            <4>2. ~Opened(x)'
                BY <1>1, <1>3, <1>5, <3>1, <3>3, <4>1, LedgerAppended
            <4>3. Of("stripe", x)' = {}
                BY <1>5, <4>1 DEF Of
            <4> QED BY <4>2, <4>3 DEF CustomerInv
        <3> QED BY <3>2, <3>3
    <2>2. ASSUME NEW k \in Codes PROVE CodeInv(k)'
        BY <1>3, <1>5, CodeSame DEF StoredInv
    <2> QED BY <2>1, <2>2 DEF StoredInv, Customers
<1>6. CASE ledger' = Append(ledger, d) /\ sent[d].known /\ B!RowOf(sent[d].customer) # 0
           /\ B!Update(B!RowOf(sent[d].customer), sent[d].status, sent[d].plan)
    BY <1>1, <1>3, <1>6, StoredUpdate
<1>7. CASE ledger' = Append(ledger, d) /\ sent[d].known /\ B!RowOf(sent[d].customer) = 0
           /\ sent[d].status # "CANCELED"
           /\ B!Insert([id |-> 0, provider |-> "stripe", key |-> sent[d].customer,
                        status |-> sent[d].status, plan |-> sent[d].plan])
    BY <1>1, <1>3, <1>7, StoredInsert
<1> QED BY <1>1, <1>2, <1>4, <1>5, <1>6, <1>7 DEF B!WebhookWrite

LEMMA StoredRedeem ==
    ASSUME RowsInv, CallsInv, StoredInv, CallsAsRead, NEW c \in Calls, B!RedeemWrite(c)
    PROVE  StoredInv'
<1>1. PICK k \in Codes : k = calls[c].code
    BY DEF B!RedeemWrite, CallsInv, CallsFit, CallFits
<1>2. ~codes[k].redeemed /\ ~codes[k].revoked /\ Len(rows) \in Nat /\ LedgerFits
    BY <1>1, RowsLength DEF B!RedeemWrite, CallsAsRead, CallAsRead, CallsInv
<1>3. /\ UNCHANGED <<sent, ledger>> /\ codes' = [codes EXCEPT ![k].redeemed = TRUE]
      /\ B!Insert([id |-> 0, provider |-> "grant", key |-> k, status |-> "ACTIVE", plan |-> GrantPlan])
    BY <1>1 DEF B!RedeemWrite
<1> DEFINE new == [id |-> 0, provider |-> "grant", key |-> k, status |-> "ACTIVE", plan |-> GrantPlan]
<1>4. PICK row \in Row : row = [new EXCEPT !.id = Len(rows) + 1]
    <2>1. [new EXCEPT !.id = Len(rows) + 1] \in Row
        BY <1>2, WorkspaceAssumption DEF Row, Keys, Plans, B!Statuses
    <2> QED BY <2>1
<1>5. row.provider = "grant" /\ row.key = k
    BY <1>4
<1> HIDE DEF new
<1>6. /\ Len(rows') = Len(rows) + 1 /\ rows'[Len(rows) + 1] = row
      /\ \A j \in 1..Len(rows) : rows'[j] = rows[j]
    BY <1>3, <1>4, Inserted DEF new
<1>7. PICK n \in Nat : n = Len(rows) + 1
    BY <1>2
<1>8. ASSUME NEW provider, NEW key
      PROVE  /\ row.provider = provider /\ row.key = key => Of(provider, key)' = Of(provider, key) \cup {n}
             /\ ~(row.provider = provider /\ row.key = key) => Of(provider, key)' = Of(provider, key)
    BY <1>6, <1>7, OfInserted
<1>9. 1..Len(rows) \subseteq 1..Len(rows') /\ n \in 1..Len(rows')
    BY <1>2, <1>6, <1>7
<1>10. ASSUME NEW x \in Customers PROVE CustomerInv(x)'
    <2>1. About(x)' = About(x) /\ \A o \in About(x) : sent'[ledger'[o]] = sent[ledger[o]]
        BY <1>2, <1>3, SameLedger
    <2>2. /\ Opened(x)' = Opened(x)
          /\ Opened(x) => \A o, j : rows'[j] = rows[o] => Follows(j, x)' = Follows(o, x)
        BY <1>2, <2>1, AboutSame
    <2>3. Of("stripe", x)' = Of("stripe", x)
        BY <1>5, <1>8
    <2>4. \A o \in 1..Len(rows) : Opened(x) => Follows(o, x)' = Follows(o, x)
        BY <1>6, <2>2
    <2>5. CustomerInv(x)
        BY DEF StoredInv
    <2> QED BY <1>9, <2>2, <2>3, <2>4, <2>5 DEF CustomerInv
<1>11. CodeInv(k)'
    <2>1. CodeInv(k)
        BY DEF StoredInv
    <2>2. Of("grant", k)' = {n}
        BY <1>2, <1>5, <1>8, <2>1 DEF CodeInv
    <2>3. codes'[k].redeemed /\ ~codes'[k].revoked
        BY <1>2, <1>3 DEF CallsInv, CodesFit, Code
    <2> QED BY <1>9, <2>2, <2>3 DEF CodeInv
<1>12. ASSUME NEW o \in Codes \ {k} PROVE CodeInv(o)'
    <2>1. Of("grant", o)' = Of("grant", o)
        BY <1>5, <1>8
    <2>2. CodeInv(o) /\ codes'[o] = codes[o]
        BY <1>3 DEF StoredInv, CallsInv, CodesFit
    <2> QED BY <1>9, <2>1, <2>2 DEF CodeInv
<1> QED BY <1>10, <1>11, <1>12 DEF StoredInv, Customers

LEMMA StoredKept ==
    ASSUME RowsInv, CallsInv, StoredInv, CallsAsRead, Alone, OneAtATime, B!Next
    PROVE  StoredInv' /\ CallsAsRead'
<1>1. LedgerFits /\ Len(sent) \in Nat /\ \A c \in Calls : CallFits(calls[c])
    BY DEF CallsInv, LedgerFits, CallsFit
<1>2. ASSUME NEW c \in Calls, calls[c].pc # "idle", B!Close(c) PROVE CallsAsRead'
    <2>1. \A d \in Calls : calls[d].pc # "idle" => d = c
        BY <1>2, Apart DEF B!BusyCalls
    <2>2. \A d \in Calls : calls'[d].pc = "idle"
        BY <1>2, <2>1 DEF B!Close, B!IdleCall, CallsInv, CallsFit
    <2> QED BY <2>2 DEF CallsAsRead, CallAsRead
<1>3. ASSUME NEW c \in Calls, B!WebhookWrite(c) PROVE StoredInv' /\ CallsAsRead'
    BY <1>2, <1>3, StoredWebhook DEF B!WebhookWrite
<1>4. ASSUME NEW c \in Calls, B!RedeemWrite(c) PROVE StoredInv' /\ CallsAsRead'
    BY <1>2, <1>4, StoredRedeem DEF B!RedeemWrite
<1>5. ASSUME NEW c \in Calls, B!RevokeWrite(c) PROVE StoredInv' /\ CallsAsRead'
    <2>1. ~codes[calls[c].code].redeemed /\ calls[c].code \in Codes /\ calls[c].pc # "idle" /\ B!Close(c)
        BY <1>1, <1>5 DEF B!RevokeWrite, CallsAsRead, CallAsRead, CallFits
    <2>2. UNCHANGED <<sent, ledger, rows>> /\ codes' = [codes EXCEPT ![calls[c].code].revoked = TRUE]
        BY <1>5 DEF B!RevokeWrite
    <2>3. \A k \in Codes : /\ codes'[k].redeemed = codes[k].redeemed
                           /\ codes'[k].revoked => codes[k].revoked \/ ~codes[k].redeemed
        BY <2>1, <2>2 DEF CallsInv, CodesFit, Code
    <2> QED BY <1>1, <1>2, <2>1, <2>2, <2>3, StoredSame
<1>6. ASSUME NEW c \in Calls, B!AbandonCall(c) PROVE StoredInv' /\ CallsAsRead'
    BY <1>1, <1>2, <1>6, StoredSame DEF B!AbandonCall
<1>7. ASSUME UNCHANGED <<ledger, rows, calls>>, \A i \in 1..Len(sent) : sent'[i] = sent[i],
             \A k \in Codes : codes'[k].redeemed = codes[k].redeemed /\ codes'[k].revoked = codes[k].revoked
      PROVE  StoredInv' /\ CallsAsRead'
    <2>1. StoredInv'
        BY <1>1, <1>7, StoredSame
    <2>2. ASSUME NEW c \in Calls PROVE CallAsRead(c)'
        <3>1. \A x : B!RowOf(x)' = B!RowOf(x)
            BY <1>7 DEF B!RowOf, B!Max
        <3>2. CallAsRead(c) /\ CallFits(calls[c])
            BY <1>1 DEF CallsAsRead
        <3>3. calls[c].pc = "webhook" => sent'[calls[c].event] = sent[calls[c].event]
            BY <1>7, <3>2 DEF CallFits
        <3>4. calls[c].pc = "webhook" => calls[c].row = B!RowOf(sent'[calls[c].event].customer)
            BY <3>2, <3>3 DEF CallAsRead
        <3> QED BY <1>7, <3>1, <3>2, <3>4 DEF CallAsRead, CallFits
    <2> QED BY <2>1, <2>2 DEF CallsAsRead
<1>8. ASSUME NEW kind \in EventKinds, B!StripeEmits(kind) PROVE StoredInv' /\ CallsAsRead'
    BY <1>1, <1>7, <1>8 DEF B!StripeEmits, LedgerFits
<1>9. ASSUME NEW k \in Codes, B!IssueCode(k) PROVE StoredInv' /\ CallsAsRead'
    <2>1. \A o \in Codes : codes'[o].redeemed = codes[o].redeemed /\ codes'[o].revoked = codes[o].revoked
        BY <1>9 DEF B!IssueCode, CallsInv, CodesFit, Code
    <2> QED BY <1>7, <1>9, <2>1 DEF B!IssueCode
<1>10. CASE B!TrialEnds
    BY <1>7, <1>10 DEF B!TrialEnds
<1>11. ASSUME NEW c \in Calls, UNCHANGED <<sent, ledger, rows, codes>>, CallAsRead(c)',
              \A d \in Calls \ {c} : calls'[d] = calls[d]
       PROVE  StoredInv' /\ CallsAsRead'
    <2>1. StoredInv'
        BY <1>1, <1>11, StoredSame
    <2>2. ASSUME NEW d \in Calls \ {c} PROVE CallAsRead(d)'
        <3>1. \A x : B!RowOf(x)' = B!RowOf(x)
            BY <1>11 DEF B!RowOf, B!Max
        <3> QED BY <1>11, <3>1 DEF CallsAsRead, CallAsRead
    <2> QED BY <1>11, <2>1, <2>2 DEF CallsAsRead
<1>12. ASSUME NEW c \in Calls, NEW call, B!Open(c, call)
       PROVE  /\ UNCHANGED <<sent, ledger, rows, codes>> /\ calls'[c] = call
              /\ \A d \in Calls \ {c} : calls'[d] = calls[d]
    BY <1>12 DEF B!Open, CallsInv, CallsFit
<1>13. ASSUME NEW c \in Calls, NEW e \in DOMAIN sent, B!WebhookRead(c, e) PROVE StoredInv' /\ CallsAsRead'
    <2> DEFINE call == [B!IdleCall EXCEPT !.pc = "webhook", !.event = e, !.row = B!RowOf(sent[e].customer)]
    <2>1. /\ UNCHANGED <<sent, ledger, rows, codes>> /\ calls'[c] = call
          /\ \A d \in Calls \ {c} : calls'[d] = calls[d]
        BY <1>12, <1>13 DEF B!WebhookRead
    <2>2. call.pc = "webhook" /\ call.event = e /\ call.row = B!RowOf(sent[e].customer)
        BY DEF B!IdleCall
    <2>3. \A x : B!RowOf(x)' = B!RowOf(x)
        BY <2>1 DEF B!RowOf, B!Max
    <2> HIDE DEF call
    <2>4. CallAsRead(c)'
        BY <2>1, <2>2, <2>3 DEF CallAsRead
    <2> QED BY <1>11, <2>1, <2>4
<1>14. ASSUME NEW c \in Calls, NEW k \in Codes, B!RedeemRead(c, k) \/ B!RevokeRead(c, k)
       PROVE  StoredInv' /\ CallsAsRead'
    <2>1. PICK pc \in {"redeem", "revoke"} :
              /\ B!Open(c, [B!IdleCall EXCEPT !.pc = pc, !.code = k])
              /\ ~codes[k].redeemed /\ (pc = "redeem" => ~codes[k].revoked)
        BY <1>14 DEF B!RedeemRead, B!RevokeRead
    <2> DEFINE call == [B!IdleCall EXCEPT !.pc = pc, !.code = k]
    <2>2. call.pc = pc /\ call.code = k
        BY DEF B!IdleCall
    <2> HIDE DEF call
    <2>3. /\ UNCHANGED <<sent, ledger, rows, codes>> /\ calls'[c] = call
          /\ \A d \in Calls \ {c} : calls'[d] = calls[d]
        BY <1>12, <2>1 DEF call
    <2>4. CallAsRead(c)'
        BY <2>1, <2>2, <2>3 DEF CallAsRead
    <2> QED BY <1>11, <2>3, <2>4
<1> QED BY <1>3, <1>4, <1>5, <1>6, <1>8, <1>9, <1>10, <1>13, <1>14 DEF B!Next

LedgerInv == OneAtATime => StoredInv /\ CallsAsRead

LEMMA LedgerKept == ASSUME WorkInv, LedgerInv, [Next]_vars PROVE LedgerInv'
<1> SUFFICES ASSUME OneAtATime' PROVE (StoredInv /\ CallsAsRead)'
    BY DEF LedgerInv
<1>1. OneAtATime /\ StoredInv /\ CallsAsRead
    BY DEF LedgerInv, OneAtATime, Next, vars
<1>2. CASE B!Next
    BY <1>1, <1>2, StoredKept DEF WorkInv, BillingInv
<1>3. CASE UNCHANGED billingVars
    <2>1. LedgerFits /\ UNCHANGED <<sent, ledger, rows, codes, calls>>
        BY <1>3 DEF WorkInv, BillingInv, CallsInv, billingVars
    <2>2. StoredInv'
        BY <1>1, <2>1, StoredSame
    <2>3. \A x : B!RowOf(x)' = B!RowOf(x)
        BY <2>1 DEF B!RowOf, B!Max
    <2> QED BY <1>1, <2>1, <2>2, <2>3 DEF CallsAsRead, CallAsRead
<1> QED BY <1>2, <1>3 DEF Next, vars, billingVars

LEMMA LedgerAlways == Spec => [](WorkInv /\ LedgerInv)
<1>1. Init => WorkInv /\ LedgerInv
    BY WorkInit, StoredInit DEF LedgerInv
<1>2. WorkInv /\ LedgerInv /\ [Next]_vars => (WorkInv /\ LedgerInv)'
    BY WorkKept, LedgerKept
<1> QED BY <1>1, <1>2, PTL DEF Spec

LEMMA CustomersServed == ASSUME WorkInv, LedgerInv PROVE RowsOfCustomers
<1>1. DOMAIN ledger = 1..Len(ledger) /\ DOMAIN rows = 1..Len(rows)
    BY RowsLength DEF WorkInv, BillingInv, CallsInv, LedgerFits
<1>2. ASSUME OneAtATime, NEW x \in Customers
      PROVE  LET about == {i \in DOMAIN ledger : sent[ledger[i]].known /\ sent[ledger[i]].customer = x}
                 mine == {i \in DOMAIN rows : rows[i].provider = "stripe" /\ rows[i].key = x}
                 opened == \E i \in about : sent[ledger[i]].status # "CANCELED"
                 latest == sent[ledger[Max(about)]]
             IN  IF ~opened THEN mine = {}
                 ELSE \E i \in mine : /\ mine = {i}
                                      /\ rows[i].status = latest.status /\ rows[i].plan = latest.plan
    <2> DEFINE about == {i \in DOMAIN ledger : sent[ledger[i]].known /\ sent[ledger[i]].customer = x}
               mine == {i \in DOMAIN rows : rows[i].provider = "stripe" /\ rows[i].key = x}
    <2>1. about = About(x) /\ mine = Of("stripe", x)
        BY <1>1 DEF About, Of
    <2>2. CustomerInv(x)
        BY <1>2 DEF LedgerInv, StoredInv
    <2>3. Max(about) = B!Max(About(x))
        BY <2>1 DEF Max, B!Max
    <2>4. (\E i \in about : sent[ledger[i]].status # "CANCELED") <=> Opened(x)
        BY <2>1 DEF Opened
    <2> HIDE DEF about, mine
    <2>5. IF ~Opened(x) THEN mine = {}
          ELSE \E i \in mine : /\ mine = {i}
                               /\ rows[i].status = sent[ledger[Max(about)]].status
                               /\ rows[i].plan = sent[ledger[Max(about)]].plan
        <3>1. CASE Opened(x)
            <4>1. PICK i \in 1..Len(rows) : Of("stripe", x) = {i} /\ Follows(i, x)
                BY <2>2, <3>1 DEF CustomerInv
            <4> QED BY <2>1, <2>3, <3>1, <4>1 DEF Follows
        <3> QED BY <2>1, <2>2, <3>1 DEF CustomerInv
    <2> QED BY <2>4, <2>5 DEF about, mine
<1> QED BY <1>2 DEF RowsOfCustomers, Customers

LEMMA CodesServed == ASSUME WorkInv, LedgerInv PROVE CodesPayOnce
<1> SUFFICES ASSUME OneAtATime, NEW k \in Codes
             PROVE  /\ Cardinality(Of("grant", k)) = IF codes[k].redeemed THEN 1 ELSE 0
                    /\ ~(codes[k].redeemed /\ codes[k].revoked)
    <2>1. DOMAIN rows = 1..Len(rows)
        BY RowsLength DEF WorkInv, BillingInv
    <2> QED BY <2>1 DEF CodesPayOnce, Of
<1>1. CodeInv(k)
    BY DEF LedgerInv, StoredInv
<1>2. Cardinality({}) = 0 /\ \A i : Cardinality({i}) = 1
    BY FS_EmptySet, FS_Singleton
<1> QED BY <1>1, <1>2 DEF CodeInv

LEMMA ReplayIgnored ==
    ASSUME WorkInv, [Next]_vars, NEW c \in Calls, calls[c].pc = "webhook", calls'[c].pc = "idle",
           calls[c].event \in ToSet(ledger)
    PROVE  rows' = rows
<1>1. ASSUME NEW d \in Calls, B!Close(d) PROVE d = c
    BY <1>1 DEF B!Close, WorkInv, BillingInv, CallsInv, CallsFit
<1>2. ASSUME NEW d \in Calls, B!WebhookWrite(d) PROVE rows' = rows
    <2>1. d = c
        BY <1>1, <1>2 DEF B!WebhookWrite
    <2>2. calls[c].event \in B!ToSet(ledger)
        BY DEF ToSet, B!ToSet
    <2> QED BY <1>2, <2>1, <2>2 DEF B!WebhookWrite
<1>3. ASSUME NEW d \in Calls, B!RedeemWrite(d) PROVE rows' = rows
    BY <1>1, <1>3 DEF B!RedeemWrite
<1>4. CASE B!Next
    BY <1>2, <1>3, <1>4 DEF B!Next, B!StripeEmits, B!WebhookRead, B!RedeemRead, B!RevokeRead, B!Open, B!RevokeWrite,
                            B!AbandonCall, B!IssueCode, B!TrialEnds
<1> QED BY <1>4 DEF Next, vars, billingVars

(***************************************************************************)
(* For any customers, codes, plans and events, however often and in        *)
(* whatever order Stripe delivers them: a customer has at most one row,    *)
(* and it says what the event stored last for the customer said; a code    *)
(* pays for one subscription and a revoked one for none (webhooks and      *)
(* redemptions handled one at a time); and a replayed event changes no     *)
(* subscription, however many deliveries are handled together              *)
(* (applyBillingWebhookUpdate, redeemPlanGrantCode, revokePlanGrantCode;   *)
(* SECURITY.md:111).                                                       *)
(***************************************************************************)
THEOREM LedgerIsFollowed == Spec => RowsFollowLedger
<1>1. WorkInv /\ LedgerInv => RowsOfCustomers /\ CodesPayOnce
    BY CustomersServed, CodesServed
<1>2. WorkInv /\ LedgerInv /\ [Next]_vars
        => [\A c \in Calls :
              (calls[c].pc = "webhook" /\ calls'[c].pc = "idle" /\ calls[c].event \in ToSet(ledger))
                 => rows' = rows]_vars
    BY ReplayIgnored
<1> QED BY <1>1, <1>2, LedgerAlways, PTL DEF Spec, RowsFollowLedger, ReplaysChangeNothing

-----------------------------------------------------------------------------
(* The in-memory repository *)

(* Each instance has a copy of FiniteSets and of Last; the copies agree. *)
LEMMA DevCardinality == \A T : Dev!Cardinality(T) = Cardinality(T)
BY DEF Cardinality, Dev!Cardinality

(* Without Stripe a row is the trial or a grant. *)
RowsCalm ==
    \A i \in 1..Len(rows) : \/ rows[i].provider = "none" /\ rows[i].status = "TRIALING"
                            \/ rows[i].provider = "grant" /\ rows[i].status = "ACTIVE"

CodesIssued ==
    /\ \A k \in Codes : codes[k].revoked \/ codes[k].redeemed => codes[k].issued
    /\ \A c \in Calls : calls[c].pc \in {"redeem", "revoke"} => codes[calls[c].code].issued

BillingCalm == Len(sent) = 0 /\ RowsCalm /\ CodesIssued

(* What a request was let in on is still so when it writes. *)
MemberCalm(r) ==
    /\ reqs[r].pc = "invite" => Cardinality(M!Counted) < SeatLimit
    /\ reqs[r].pc = "accept" => members[reqs[r].person].fresh
    /\ reqs[r].pc = "role" => members[reqs[r].person].status # "none"

MembersCalm == \A r \in Reqs : MemberCalm(r)

SitesCalm == \A r \in SiteReqs : siteReqs[r] # NoSite => Cardinality(sites) < SiteLimit

UrlsCalm == \A r \in UrlReqs : urlReqs[r].pc \in {"resume", "pause"} => watched[urlReqs[r].url] # "none"

CalmInv == Undisturbed => BillingCalm /\ MembersCalm /\ SitesCalm /\ UrlsCalm

(* A trial or grant row gives access until the trial is over. *)
LEMMA LimitsAgree ==
    ASSUME RowsInv, RowsCalm
    PROVE  SeatLimit = Dev!Limit(Seats) /\ SiteLimit = Dev!Limit(SiteCaps)
<1> DEFINE n == Len(rows)
<1>1. n \in 1..n /\ B!Current = rows[n] /\ Dev!ActiveSubscription = rows[n]
    BY RowsLength DEF RowsInv, B!Current, B!Last, Dev!ActiveSubscription, Dev!Last
<1>2. rows[n].plan \in DOMAIN Seats /\ rows[n].plan \in DOMAIN SiteCaps
    BY <1>1, RowsLength DEF Row, Plans
<1>3. \/ rows[n].provider = "none" /\ rows[n].status = "TRIALING"
      \/ rows[n].provider = "grant" /\ rows[n].status = "ACTIVE"
    BY <1>1 DEF RowsCalm
<1> HIDE DEF n
<1>4. B!FullAccess <=> ~Dev!ReadOnly
    BY <1>1, <1>3 DEF B!FullAccess, B!LocalTrialExpired, Dev!ReadOnly
<1> QED BY <1>1, <1>2, <1>4 DEF SeatLimit, SiteLimit, Limit, Dev!Limit

LEMMA CalmInit == ASSUME Init PROVE CalmInv
<1>1. Len(sent) = 0 /\ Len(rows) = 1 /\ rows[1].provider = "none" /\ rows[1].status = "TRIALING"
    BY DEF Init, B!Init, B!Trial
<1>2. \A k \in Codes : ~codes[k].revoked /\ ~codes[k].redeemed
    BY DEF Init, B!Init
<1>3. \A c \in Calls : calls[c].pc = "idle"
    BY DEF Init, B!Init, B!IdleCall
<1>4. \A r \in Reqs : reqs[r].pc = "idle"
    BY DEF Init, M!Init, M!Idle
<1>5. \A r \in SiteReqs : siteReqs[r] = NoSite
    BY DEF Init, S!Init
<1>6. \A r \in UrlReqs : urlReqs[r].pc = "idle"
    BY DEF Init, U!Init, U!IdleUrl
<1>7. RowsCalm /\ CodesIssued
    BY <1>1, <1>2, <1>3 DEF RowsCalm, CodesIssued
<1> QED BY <1>1, <1>4, <1>5, <1>6, <1>7 DEF CalmInv, BillingCalm, MembersCalm, MemberCalm, SitesCalm, UrlsCalm

(* Time passes between requests. *)
LEMMA TimeAlone ==
    ASSUME setting.still, Next, TimePasses
    PROVE  /\ \A r \in Reqs : reqs[r].pc = "idle"
           /\ \A c \in Calls : calls[c].pc = "idle"
           /\ \A r \in SiteReqs : siteReqs[r] = NoSite
           /\ \A r \in UrlReqs : urlReqs[r].pc = "idle"
<1> DEFINE m == Cardinality(M!Busy)
           b == Cardinality(B!BusyCalls)
           u == Cardinality(U!BusyUrls)
           s == Cardinality(S!BusySites)
<1>1. m \in Nat /\ b \in Nat /\ u \in Nat /\ s \in Nat
    BY BusyFinite, FS_CardinalityType
<1>2. ~(m + b + u + s > 0)
    BY DEF Next, InFlight
<1>3. m = 0 /\ b = 0 /\ u = 0 /\ s = 0
    BY <1>1, <1>2
<1>4. M!Busy = {} /\ B!BusyCalls = {} /\ U!BusyUrls = {} /\ S!BusySites = {}
    BY <1>3, BusyFinite, FS_EmptySet
<1> QED BY <1>4 DEF M!Busy, B!BusyCalls, U!BusyUrls, S!BusySites

(* No limit changes while a request about members or sites is in flight. *)
LEMMA LimitsStill ==
    ASSUME Alone, OneAtATime, setting.still, Next, B!Next, M!Busy # {} \/ S!BusySites # {}
    PROVE  SeatLimit' = SeatLimit /\ SiteLimit' = SiteLimit
<1>1. UNCHANGED rows
    BY BillingStill
<1>2. ~B!TrialEnds
    BY TimeAlone DEF TimePasses, M!Busy, S!BusySites
<1>3. \A c \in Calls : calls[c].pc = "idle"
    BY Apart DEF B!BusyCalls
<1>4. UNCHANGED trialOver
    BY <1>2 DEF B!Next, B!StripeEmits, B!WebhookRead, B!RedeemRead, B!RevokeRead, B!Open, B!IssueCode,
                B!WebhookWrite, B!RedeemWrite, B!RevokeWrite, B!AbandonCall
<1> QED BY <1>1, <1>4 DEF SeatLimit, SiteLimit, Limit, B!Current, B!Last, B!FullAccess, B!LocalTrialExpired

(* The one request about billing closes: none is in flight. *)
LEMMA CallsGone ==
    ASSUME Alone, OneAtATime, CallsInv, NEW c \in Calls, calls[c].pc # "idle", B!Close(c)
    PROVE  \A d \in Calls : calls'[d].pc = "idle"
<1>1. \A d \in Calls : calls[d].pc # "idle" => d = c
    BY Apart DEF B!BusyCalls
<1> QED BY <1>1 DEF B!Close, B!IdleCall, CallsInv, CallsFit

LEMMA IssuedAsInDev ==
    ASSUME CallsInv, CodesIssued, NEW k \in Codes, B!IssueCode(k), UNCHANGED <<members, links, sites, watched>>
    PROVE  Dev!CreatePlanGrantCode(k)
<1> DEFINE code == [codes[k] EXCEPT !.issued = TRUE]
<1>1. codes[k] \in Code /\ ~codes[k].issued /\ ~codes[k].revoked /\ ~codes[k].redeemed
    BY DEF CallsInv, CodesFit, CodesIssued, B!IssueCode
<1>2. code \in Code /\ code.issued = TRUE /\ code.revoked = FALSE /\ code.redeemed = FALSE
    BY <1>1 DEF Code
<1>3. codes' = [codes EXCEPT ![k] = code]
    BY DEF B!IssueCode
<1> HIDE DEF code
<1>4. code = [issued |-> TRUE, revoked |-> FALSE, redeemed |-> FALSE]
    BY <1>2 DEF Code
<1> QED BY <1>1, <1>3, <1>4 DEF Dev!CreatePlanGrantCode, Dev!SetCode, B!IssueCode

LEMMA RedeemedAsInDev ==
    ASSUME RowsInv, CallsInv, CodesIssued, CallsAsRead, NEW c \in Calls, B!RedeemWrite(c),
           UNCHANGED <<members, links, sites, watched>>
    PROVE  /\ \E k \in Codes : Dev!RedeemPlanGrantCode(k) /\ codes' = [codes EXCEPT ![k].redeemed = TRUE]
                               /\ codes[k].issued
           /\ RowsCalm => RowsCalm'
<1>1. PICK k \in Codes : k = calls[c].code
    BY DEF B!RedeemWrite, CallsInv, CallsFit, CallFits
<1>2. /\ codes[k].issued /\ ~codes[k].redeemed /\ ~codes[k].revoked /\ Len(rows) \in Nat
      /\ UNCHANGED trialOver
    BY <1>1, RowsLength DEF B!RedeemWrite, CallsAsRead, CallAsRead, CodesIssued
<1> DEFINE new == [id |-> 0, provider |-> "grant", key |-> k, status |-> "ACTIVE", plan |-> GrantPlan]
<1>3. codes' = [codes EXCEPT ![k].redeemed = TRUE] /\ B!Insert(new)
    BY <1>1 DEF B!RedeemWrite
<1>4. PICK row \in Row : row = [new EXCEPT !.id = Len(rows) + 1]
    <2>1. [new EXCEPT !.id = Len(rows) + 1] \in Row
        BY <1>2, WorkspaceAssumption DEF Row, Keys, Plans, B!Statuses
    <2> QED BY <2>1
<1>5. /\ row.id = Len(rows) + 1 /\ row.provider = "grant" /\ row.key = k
      /\ row.status = "ACTIVE" /\ row.plan = GrantPlan
    BY <1>4
<1> HIDE DEF new
<1>6. row = [id |-> Len(rows) + 1, provider |-> "grant", key |-> k, status |-> "ACTIVE", plan |-> GrantPlan]
    BY <1>5 DEF Row
<1>7. rows' = Append(rows, row)
    BY <1>3, <1>4 DEF B!Insert
<1>8. Dev!RedeemPlanGrantCode(k)
    BY <1>2, <1>3, <1>6, <1>7 DEF Dev!RedeemPlanGrantCode, Dev!SetCode
<1>9. /\ Len(rows') = Len(rows) + 1 /\ rows'[Len(rows) + 1] = row
      /\ \A j \in 1..Len(rows) : rows'[j] = rows[j]
    BY <1>3, <1>4, Inserted
<1>10. ASSUME RowsCalm PROVE RowsCalm'
    <2>1. \A i \in 1..Len(rows') : i \in 1..Len(rows) \/ i = Len(rows) + 1
        BY <1>2, <1>9
    <2> QED BY <1>5, <1>9, <1>10, <2>1 DEF RowsCalm
<1> QED BY <1>2, <1>3, <1>8, <1>10

LEMMA BillingAsInDev ==
    ASSUME WorkInv, CallsAsRead, BillingCalm, Undisturbed, Next, B!Next,
           UNCHANGED <<memberVars, urlVars, siteVars>>
    PROVE  BillingCalm' /\ (Dev!Next \/ UNCHANGED Dev!devVars)
<1>1. UNCHANGED <<members, links, sites, watched>>
    BY DEF memberVars, urlVars, siteVars
<1>2. RowsInv /\ CallsInv /\ RowsCalm /\ CodesIssued /\ Len(sent) = 0 /\ Alone /\ OneAtATime
    BY DEF WorkInv, BillingInv, BillingCalm, Undisturbed
<1>3. \A c \in Calls : calls[c].pc # "webhook"
    BY <1>2 DEF CallsInv, CallsFit, CallFits
<1>4. ASSUME NEW kind, B!StripeEmits(kind) PROVE FALSE
    <2>1. Len(sent') = 1
        BY <1>2, <1>4 DEF B!StripeEmits, CallsInv, LedgerFits
    <2> QED BY <2>1 DEF Next, Within, Undisturbed
<1>5. ASSUME NEW c \in Calls, NEW e \in DOMAIN sent PROVE FALSE
    BY <1>2 DEF CallsInv, LedgerFits
<1>6. ASSUME UNCHANGED <<sent, rows, codes>>, \A c \in Calls : calls'[c].pc = "idle" \/ calls'[c] = calls[c]
      PROVE  BillingCalm'
    BY <1>2, <1>6 DEF BillingCalm, RowsCalm, CodesIssued
<1>7. ASSUME NEW c \in Calls, NEW k \in Codes, B!RedeemRead(c, k) \/ B!RevokeRead(c, k)
      PROVE  BillingCalm' /\ UNCHANGED Dev!devVars
    <2>1. PICK pc \in {"redeem", "revoke"} : B!Open(c, [B!IdleCall EXCEPT !.pc = pc, !.code = k])
        BY <1>7 DEF B!RedeemRead, B!RevokeRead
    <2>2. codes[k].issued
        BY <1>7 DEF B!RedeemRead, B!RevokeRead
    <2>3. UNCHANGED <<sent, rows, codes, trialOver>>
        BY <2>1 DEF B!Open
    <2>4. calls'[c].code = k /\ \A d \in Calls \ {c} : calls'[d] = calls[d]
        BY <1>2, <2>1 DEF B!Open, B!IdleCall, CallsInv, CallsFit
    <2>5. CodesIssued'
        BY <1>2, <2>2, <2>3, <2>4 DEF CodesIssued
    <2> QED BY <1>1, <1>2, <2>3, <2>5 DEF BillingCalm, RowsCalm, Dev!devVars
<1>8. ASSUME NEW c \in Calls, B!WebhookWrite(c) PROVE FALSE
    BY <1>3, <1>8 DEF B!WebhookWrite
<1>9. ASSUME NEW c \in Calls, B!RedeemWrite(c) PROVE BillingCalm' /\ Dev!Next
    <2>1. PICK k \in Codes : /\ Dev!RedeemPlanGrantCode(k) /\ codes' = [codes EXCEPT ![k].redeemed = TRUE]
                             /\ codes[k].issued
        BY <1>1, <1>2, <1>9, RedeemedAsInDev
    <2>2. RowsCalm'
        BY <1>1, <1>2, <1>9, RedeemedAsInDev
    <2>3. \A d \in Calls : calls'[d].pc = "idle"
        BY <1>2, <1>9, CallsGone DEF B!RedeemWrite
    <2>4. \A j \in Codes : codes'[j].revoked \/ codes'[j].redeemed => codes'[j].issued
        BY <1>2, <2>1 DEF CodesIssued, CallsInv, CodesFit, Code
    <2>5. Len(sent') = 0
        BY <1>2, <1>9 DEF B!RedeemWrite
    <2> QED BY <2>1, <2>2, <2>3, <2>4, <2>5 DEF BillingCalm, CodesIssued, Dev!Next
<1>10. ASSUME NEW c \in Calls, B!RevokeWrite(c) PROVE BillingCalm' /\ Dev!Next
    <2>1. PICK k \in Codes : k = calls[c].code
        BY <1>2, <1>10 DEF B!RevokeWrite, CallsInv, CallsFit, CallFits
    <2>2. codes[k].issued /\ ~codes[k].redeemed
        BY <1>2, <1>10, <2>1 DEF B!RevokeWrite, CallsAsRead, CallAsRead, CodesIssued
    <2>3. codes' = [codes EXCEPT ![k].revoked = TRUE] /\ UNCHANGED <<sent, rows, trialOver>>
        BY <1>10, <2>1 DEF B!RevokeWrite
    <2>4. Dev!RevokePlanGrantCode(k)
        BY <1>1, <2>2, <2>3 DEF Dev!RevokePlanGrantCode, Dev!SetCode
    <2>5. \A d \in Calls : calls'[d].pc = "idle"
        BY <1>2, <1>10, CallsGone DEF B!RevokeWrite
    <2>6. \A j \in Codes : codes'[j].revoked \/ codes'[j].redeemed => codes'[j].issued
        BY <1>2, <2>2, <2>3 DEF CodesIssued, CallsInv, CodesFit, Code
    <2> QED BY <1>2, <2>3, <2>4, <2>5, <2>6 DEF BillingCalm, RowsCalm, CodesIssued, Dev!Next
<1>11. ASSUME NEW c \in Calls, B!AbandonCall(c) PROVE BillingCalm' /\ UNCHANGED Dev!devVars
    <2>1. \A d \in Calls : calls'[d].pc = "idle"
        BY <1>2, <1>11, CallsGone DEF B!AbandonCall
    <2> QED BY <1>1, <1>6, <1>11, <2>1 DEF B!AbandonCall, Dev!devVars
<1>12. ASSUME NEW k \in Codes, B!IssueCode(k) PROVE BillingCalm' /\ Dev!Next
    <2>1. Dev!CreatePlanGrantCode(k)
        BY <1>1, <1>2, <1>12, IssuedAsInDev
    <2>2. UNCHANGED <<sent, rows, calls>> /\ codes' = [codes EXCEPT ![k].issued = TRUE]
        BY <1>12 DEF B!IssueCode
    <2>3. CodesIssued'
        <3>1. \A j \in Codes : /\ codes[j].issued => codes'[j].issued
                               /\ codes'[j].revoked \/ codes'[j].redeemed => codes[j].revoked \/ codes[j].redeemed
            BY <2>2 DEF CallsInv, CodesFit, Code, WorkInv, BillingInv
        <3>2. \A d \in Calls : calls[d].pc \in {"redeem", "revoke"} => calls[d].code \in Codes
            BY <1>2 DEF CallsInv, CallsFit, CallFits
        <3> QED BY <1>2, <2>2, <3>1, <3>2 DEF CodesIssued
    <2> QED BY <1>2, <2>1, <2>2, <2>3 DEF BillingCalm, RowsCalm, Dev!Next
<1>13. CASE B!TrialEnds
    <2>1. UNCHANGED <<sent, rows, codes, calls>> /\ ~trialOver /\ trialOver' = TRUE
        BY <1>13 DEF B!TrialEnds
    <2>2. Dev!TimePasses
        BY <1>1, <2>1 DEF Dev!TimePasses
    <2> QED BY <1>6, <2>1, <2>2 DEF Dev!Next
<1> QED BY <1>4, <1>5, <1>7, <1>8, <1>9, <1>10, <1>11, <1>12, <1>13 DEF B!Next

(* What the founder may do, everyone may have done. *)
LEMMA FounderManages == ASSUME OwnerInv PROVE Founder \in People /\ Dev!MayManage(Founder)
BY WorkspaceAssumption DEF OwnerInv, FounderOwns, Dev!MayManage

LEMMA MembersReadCalm ==
    ASSUME OwnerInv, MembersCalm, UNCHANGED <<rows, trialOver>>,
           NEW r \in Reqs, NEW by \in People, NEW p \in People,
           \/ \E role \in M!Assignable : M!InviteRead(r, by, p, role) \/ M!RoleRead(r, by, p, role)
           \/ M!ResendRead(r, by, p) \/ M!CancelRead(r, by, p)
           \/ \E k \in DOMAIN links : M!AcceptRead(r, p, k)
    PROVE  MembersCalm' /\ UNCHANGED <<members, links>>
<1> DEFINE q == reqs'[r]
<1>1. UNCHANGED <<members, links>> /\ \A s \in Reqs \ {r} : reqs'[s] = reqs[s]
    BY DEF M!InviteRead, M!RoleRead, M!ResendRead, M!CancelRead, M!AcceptRead, M!Begin, OwnerInv, M!TypeOK
<1>2. /\ q.person = p
      /\ q.pc = "invite" => M!Cardinality(M!Counted) < SeatLimit
      /\ q.pc = "accept" => members[p].fresh
      /\ q.pc = "role" => members[p].status # "none"
    BY DEF M!InviteRead, M!RoleRead, M!ResendRead, M!CancelRead, M!AcceptRead, M!Begin, OwnerInv, M!TypeOK
<1> HIDE DEF q
<1>3. M!Counted' = M!Counted /\ SeatLimit' = SeatLimit
    BY <1>1 DEF M!Counted, SeatLimit, Limit, B!Current, B!Last, B!FullAccess, B!LocalTrialExpired
<1>4. MemberCalm(r)'
    BY <1>1, <1>2, <1>3, OneCardinality DEF MemberCalm, q
<1>5. ASSUME NEW s \in Reqs \ {r} PROVE MemberCalm(s)'
    BY <1>1, <1>3 DEF MemberCalm, MembersCalm
<1> QED BY <1>1, <1>4, <1>5 DEF MembersCalm

LEMMA MemberWrites ==
    ASSUME WorkInv, TokensInv, MembersAsRead, MembersCalm, RowsCalm,
           UNCHANGED <<rows, trialOver, codes, sites, watched>>, NEW r \in Reqs,
           M!InviteWrite(r) \/ M!ResendWrite(r) \/ M!CancelWrite(r) \/ M!AcceptWrite(r) \/ M!RoleWrite(r)
    PROVE  Dev!Next
<1>0. PICK p \in People : p = reqs[r].person
    BY DEF WorkInv, OwnerInv, M!TypeOK, M!Request
<1>1. members \in [People -> M!Member] /\ OwnerInv /\ RowsInv
    BY DEF WorkInv, BillingInv, OwnerInv, M!TypeOK
<1>2. MemberAsRead(r) /\ MemberCalm(r)
    BY DEF MembersAsRead, MembersCalm
<1>3. Founder \in People /\ Dev!MayManage(Founder)
    BY <1>1, FounderManages
<1>4. /\ reqs[r].role \in {"ADMIN", "VIEWER"}
      /\ reqs[r].pc # "idle" => p # Founder /\ members[p].role # "OWNER"
    BY <1>0, <1>1 DEF OwnerInv, AssignsRoles, SparesFounder, FounderOwns, M!TypeOK, M!Request, M!Roles
<1>5. Dev!Members = M!Counted
    BY <1>1 DEF Dev!Members, M!Counted, M!Member
<1>6. Dev!Token = M!NewToken
    BY DEF Dev!Token, M!NewToken
<1>7. CASE M!InviteWrite(r)
    <2>1. members[p].status = "none" /\ Cardinality(M!Counted) < SeatLimit
        BY <1>0, <1>2, <1>7 DEF M!InviteWrite, MemberAsRead, MemberCalm
    <2>2. Dev!Cardinality(Dev!Members) < Dev!Limit(Seats)
        BY <1>1, <1>5, <2>1, LimitsAgree, DevCardinality
    <2>3. /\ members' = [members EXCEPT ![p] = [status |-> "INVITED", role |-> reqs[r].role,
                                                token |-> M!NewToken, fresh |-> TRUE]]
          /\ links' = Append(links, p)
        BY <1>0, <1>7, <2>1 DEF M!InviteWrite, M!Issue
    <2>4. Dev!InviteMember(Founder, p, reqs[r].role)
        BY <1>3, <1>6, <2>1, <2>2, <2>3 DEF Dev!InviteMember, Dev!Mail
    <2> QED BY <1>3, <1>4, <2>4 DEF Dev!Next
<1>8. CASE M!ResendWrite(r)
    <2>1. Dev!ResendInvite(Founder, p)
        BY <1>0, <1>2, <1>3, <1>6, <1>8 DEF M!ResendWrite, M!Issue, MemberAsRead, Dev!ResendInvite, Dev!Mail
    <2> QED BY <1>3, <2>1 DEF Dev!Next
<1>9. CASE M!CancelWrite(r)
    <2>1. Dev!CancelInvite(Founder, p)
        BY <1>0, <1>2, <1>3, <1>9 DEF M!CancelWrite, MemberAsRead, Dev!CancelInvite
    <2> QED BY <1>3, <2>1 DEF Dev!Next
<1>10. CASE M!AcceptWrite(r)
    <2>1. members[p].status = "INVITED" /\ members[p].fresh
        BY <1>0, <1>2, <1>10 DEF M!AcceptWrite, MemberAsRead, MemberCalm
    <2>2. members[p].token \in DOMAIN links
        <3>1. members[p].token \in 1..Len(links) /\ links \in Seq(People)
            BY <2>1 DEF TokensInv, LatestLink, WorkInv, OwnerInv, M!TypeOK
        <3> QED BY <3>1
    <2>3. Dev!AcceptInvite(p, members[p].token)
        BY <1>0, <1>10, <2>1 DEF M!AcceptWrite, Dev!AcceptInvite
    <2> QED BY <2>2, <2>3 DEF Dev!Next
<1>11. CASE M!RoleWrite(r)
    <2>1. members[p].status # "none" /\ p # Founder /\ members[p].role # "OWNER"
        BY <1>0, <1>2, <1>4, <1>11 DEF M!RoleWrite, MemberCalm
    <2>2. Dev!UpdateMemberRole(Founder, p, reqs[r].role)
        BY <1>0, <1>3, <1>11, <2>1 DEF M!RoleWrite, Dev!UpdateMemberRole
    <2> QED BY <1>3, <1>4, <2>2 DEF Dev!Next
<1> QED BY <1>7, <1>8, <1>9, <1>10, <1>11

LEMMA MembersAsInDev ==
    ASSUME WorkInv, TokensInv, MembersAsRead, MembersCalm, RowsCalm, Undisturbed, Next, M!Next,
           UNCHANGED <<billingVars, urlVars, siteVars>>
    PROVE  MembersCalm' /\ (Dev!Next \/ UNCHANGED Dev!devVars)
<1>1. UNCHANGED <<rows, trialOver, codes, sites, watched>>
    BY DEF billingVars, urlVars, siteVars
<1>2. ASSUME NEW r \in Reqs, NEW by \in People, NEW p \in People,
             \/ \E role \in M!Assignable : M!InviteRead(r, by, p, role) \/ M!RoleRead(r, by, p, role)
             \/ M!ResendRead(r, by, p) \/ M!CancelRead(r, by, p)
             \/ \E k \in DOMAIN links : M!AcceptRead(r, p, k)
      PROVE  MembersCalm' /\ UNCHANGED Dev!devVars
    <2>1. MembersCalm' /\ UNCHANGED <<members, links>>
        BY <1>1, <1>2, MembersReadCalm DEF WorkInv
    <2> QED BY <1>1, <2>1 DEF Dev!devVars
<1>3. ASSUME NEW r \in Reqs, reqs[r].pc # "idle", M!End(r) PROVE MembersCalm'
    <2>1. \A q \in Reqs : reqs'[q].pc = "idle"
        BY <1>3, NoneLeft DEF WorkInv, OwnerInv, Undisturbed
    <2> QED BY <2>1 DEF MembersCalm, MemberCalm
<1>4. ASSUME NEW r \in Reqs,
             M!InviteWrite(r) \/ M!ResendWrite(r) \/ M!CancelWrite(r) \/ M!AcceptWrite(r) \/ M!RoleWrite(r)
      PROVE  MembersCalm' /\ Dev!Next
    <2>1. MembersCalm'
        BY <1>3, <1>4 DEF M!InviteWrite, M!ResendWrite, M!CancelWrite, M!AcceptWrite, M!RoleWrite
    <2> QED BY <1>1, <1>4, <2>1, MemberWrites
<1>5. ASSUME NEW r \in Reqs, M!Abandon(r) PROVE MembersCalm' /\ UNCHANGED Dev!devVars
    BY <1>1, <1>3, <1>5 DEF M!Abandon, Dev!devVars
<1>6. ASSUME NEW p \in People, M!LinkExpires(p) PROVE MembersCalm' /\ Dev!Next
    <2>1. \A r \in Reqs : reqs[r].pc = "idle"
        BY <1>6, TimeAlone DEF TimePasses, Undisturbed
    <2>2. reqs' = reqs /\ UNCHANGED links
        BY <1>6 DEF M!LinkExpires
    <2>3. Dev!TimePasses
        BY <1>1, <1>6, <2>2 DEF M!LinkExpires, Dev!TimePasses
    <2> QED BY <2>1, <2>2, <2>3 DEF MembersCalm, MemberCalm, Dev!Next
<1> QED BY <1>2, <1>4, <1>5, <1>6 DEF M!Next

LEMMA SitesAsInDev ==
    ASSUME WorkInv, SitesCalm, RowsCalm, Undisturbed, Next, S!Next,
           UNCHANGED <<billingVars, memberVars, urlVars>>
    PROVE  SitesCalm' /\ (Dev!Next \/ UNCHANGED Dev!devVars)
<1>1. /\ UNCHANGED <<members, links, rows, codes, trialOver, watched>>
      /\ RowsInv /\ S!SiteTypes /\ Alone /\ OneAtATime
    BY DEF billingVars, memberVars, urlVars, WorkInv, BillingInv, Undisturbed
<1>2. SiteLimit' = SiteLimit
    BY <1>1 DEF SiteLimit, Limit, B!Current, B!Last, B!FullAccess, B!LocalTrialExpired
<1>3. ASSUME NEW r \in SiteReqs, NEW s \in SiteUrls, S!SiteRead(r, s)
      PROVE  SitesCalm' /\ UNCHANGED Dev!devVars
    <2>1. sites' = sites /\ Cardinality(sites) < SiteLimit
        BY <1>3, OneCardinality DEF S!SiteRead
    <2> QED BY <1>1, <1>2, <2>1 DEF SitesCalm, Dev!devVars
<1>4. ASSUME NEW r \in SiteReqs, siteReqs[r] # NoSite, siteReqs' = [siteReqs EXCEPT ![r] = NoSite]
      PROVE  SitesCalm'
    <2>1. \A q \in SiteReqs : siteReqs[q] # NoSite => q = r
        BY <1>1, <1>4, Apart DEF S!BusySites
    <2>2. \A q \in SiteReqs : siteReqs'[q] = NoSite
        BY <1>1, <1>4, <2>1 DEF S!SiteTypes
    <2> QED BY <2>2 DEF SitesCalm
<1>5. ASSUME NEW r \in SiteReqs, S!SiteWrite(r) PROVE SitesCalm' /\ (Dev!Next \/ UNCHANGED Dev!devVars)
    <2>1. PICK s \in SiteUrls : s = siteReqs[r]
        BY <1>1, <1>5 DEF S!SiteWrite, S!SiteTypes
    <2>2. sites' = sites \cup {s} /\ SitesCalm'
        BY <1>4, <1>5, <2>1 DEF S!SiteWrite
    <2>3. CASE s \in sites
        <3>1. sites' = sites
            BY <2>2, <2>3
        <3> QED BY <1>1, <2>2, <3>1 DEF Dev!devVars
    <2>4. CASE s \notin sites
        <3>1. Dev!Cardinality(sites) < Dev!Limit(SiteCaps)
            BY <1>1, <1>5, LimitsAgree, DevCardinality DEF SitesCalm, S!SiteWrite
        <3>2. Dev!CreateSite(s)
            BY <1>1, <2>2, <2>4, <3>1 DEF Dev!CreateSite
        <3> QED BY <2>2, <3>2 DEF Dev!Next
    <2> QED BY <2>3, <2>4
<1>6. ASSUME NEW r \in SiteReqs, S!AbandonSite(r) PROVE SitesCalm' /\ UNCHANGED Dev!devVars
    BY <1>1, <1>4, <1>6 DEF S!AbandonSite, Dev!devVars
<1> QED BY <1>3, <1>5, <1>6 DEF S!Next

LEMMA UrlsAsInDev ==
    ASSUME WorkInv, UrlsAsRead, UrlsCalm, Undisturbed, Next, U!Next,
           UNCHANGED <<billingVars, memberVars, siteVars>>
    PROVE  UrlsCalm' /\ (Dev!Next \/ UNCHANGED Dev!devVars)
<1>1. /\ UNCHANGED <<members, links, rows, codes, trialOver, sites>>
      /\ UrlInv /\ U!UrlTypes /\ Alone /\ OneAtATime
    BY DEF billingVars, memberVars, siteVars, WorkInv, Undisturbed, UrlInv
<1>2. Dev!ActiveUrls = U!Active
    BY DEF Dev!ActiveUrls, U!Active
<1>3. ASSUME NEW r \in UrlReqs, NEW u \in Urls, U!CreateRead(r, u) \/ U!ResumeRead(r, u) \/ U!PauseRead(r, u)
      PROVE  UrlsCalm' /\ UNCHANGED Dev!devVars
    <2>1. /\ watched' = watched /\ \A q \in UrlReqs \ {r} : urlReqs'[q] = urlReqs[q]
          /\ urlReqs'[r].url = u
          /\ urlReqs'[r].pc \in {"resume", "pause"} => watched[u] # "none"
        BY <1>1, <1>3 DEF U!CreateRead, U!ResumeRead, U!PauseRead, U!Begin, U!UrlTypes
    <2>2. ASSUME NEW q \in UrlReqs, urlReqs'[q].pc \in {"resume", "pause"}
          PROVE  watched'[urlReqs'[q].url] # "none"
        BY <2>1, <2>2 DEF UrlsCalm
    <2> QED BY <1>1, <2>1, <2>2 DEF UrlsCalm, Dev!devVars
<1>4. ASSUME NEW r \in UrlReqs, urlReqs[r].pc # "idle", U!End(r) PROVE UrlsCalm'
    <2>1. \A q \in UrlReqs : urlReqs[q].pc # "idle" => q = r
        BY <1>1, <1>4, Apart DEF U!BusyUrls
    <2>2. \A q \in UrlReqs : urlReqs'[q].pc = "idle"
        BY <1>1, <1>4, <2>1 DEF U!End, U!IdleUrl, U!UrlTypes
    <2> QED BY <2>2 DEF UrlsCalm
<1>5. ASSUME NEW r \in UrlReqs, U!CreateWrite(r) PROVE UrlsCalm' /\ (Dev!Next \/ UNCHANGED Dev!devVars)
    <2>1. PICK u \in Urls : u = urlReqs[r].url
        BY <1>1, <1>5 DEF U!CreateWrite, UrlInv
    <2>2. UrlsCalm'
        BY <1>4, <1>5 DEF U!CreateWrite
    <2>3. CASE watched[u] = "none"
        <3>1. Dev!Cardinality(Dev!ActiveUrls) < MaxActive
            BY <1>2, <1>5, DevCardinality DEF U!CreateWrite, UrlsAsRead
        <3>2. Dev!CreateMonitoredUrl(u)
            BY <1>1, <1>5, <2>1, <2>3, <3>1 DEF U!CreateWrite, Dev!CreateMonitoredUrl
        <3> QED BY <2>2, <3>2 DEF Dev!Next
    <2>4. CASE watched[u] # "none"
        BY <1>1, <1>5, <2>1, <2>2, <2>4 DEF U!CreateWrite, Dev!devVars
    <2> QED BY <2>3, <2>4
<1>6. ASSUME NEW r \in UrlReqs, U!ResumeWrite(r) \/ U!PauseWrite(r) PROVE UrlsCalm' /\ Dev!Next
    <2>1. PICK u \in Urls : u = urlReqs[r].url
        BY <1>1, <1>6 DEF U!ResumeWrite, U!PauseWrite, UrlInv
    <2>2. UrlsCalm' /\ watched[u] # "none"
        BY <1>4, <1>6, <2>1 DEF U!ResumeWrite, U!PauseWrite, UrlsCalm
    <2>3. CASE U!ResumeWrite(r)
        <3>1. watched[u] = "active" \/ Dev!Cardinality(Dev!ActiveUrls) < MaxActive
            BY <1>2, <2>1, <2>3, DevCardinality DEF U!ResumeWrite, UrlsAsRead
        <3>2. Dev!UpdateMonitoredUrlStatus(u, "active")
            BY <1>1, <2>1, <2>2, <2>3, <3>1 DEF U!ResumeWrite, Dev!UpdateMonitoredUrlStatus
        <3> QED BY <2>2, <3>2 DEF Dev!Next
    <2>4. CASE U!PauseWrite(r)
        <3>1. Dev!UpdateMonitoredUrlStatus(u, "paused")
            BY <1>1, <2>1, <2>2, <2>4 DEF U!PauseWrite, Dev!UpdateMonitoredUrlStatus
        <3> QED BY <2>2, <3>1 DEF Dev!Next
    <2> QED BY <1>6, <2>3, <2>4
<1>7. ASSUME NEW r \in UrlReqs, U!AbandonUrl(r) PROVE UrlsCalm' /\ UNCHANGED Dev!devVars
    BY <1>1, <1>4, <1>7 DEF U!AbandonUrl, Dev!devVars
<1> QED BY <1>3, <1>5, <1>6, <1>7 DEF U!Next

LEMMA BillingCalmSame == ASSUME BillingCalm, UNCHANGED billingVars PROVE BillingCalm'
BY DEF BillingCalm, RowsCalm, CodesIssued, billingVars

(* Another component's step leaves what was read of the members as it is. *)
LEMMA MembersCalmSame ==
    ASSUME MembersCalm, UNCHANGED memberVars, M!Busy # {} => SeatLimit' = SeatLimit PROVE MembersCalm'
<1>1. UNCHANGED <<members, reqs>> /\ M!Counted' = M!Counted
    BY DEF memberVars, M!Counted
<1>2. ASSUME NEW r \in Reqs PROVE MemberCalm(r)'
    <2>1. MemberCalm(r)
        BY DEF MembersCalm
    <2>2. reqs[r].pc = "invite" => SeatLimit' = SeatLimit
        BY DEF M!Busy
    <2> QED BY <1>1, <2>1, <2>2 DEF MemberCalm
<1> QED BY <1>2 DEF MembersCalm

LEMMA SitesCalmSame ==
    ASSUME SitesCalm, UNCHANGED siteVars, S!BusySites # {} => SiteLimit' = SiteLimit PROVE SitesCalm'
<1>1. \A r \in SiteReqs : siteReqs[r] # NoSite => SiteLimit' = SiteLimit
    BY DEF S!BusySites
<1> QED BY <1>1 DEF SitesCalm, siteVars

LEMMA UrlsCalmSame == ASSUME UrlsCalm, UNCHANGED urlVars PROVE UrlsCalm'
BY DEF UrlsCalm, urlVars

LEMMA LimitsSame == ASSUME UNCHANGED billingVars PROVE SeatLimit' = SeatLimit /\ SiteLimit' = SiteLimit
BY DEF billingVars, SeatLimit, SiteLimit, Limit, B!Current, B!Last, B!FullAccess, B!LocalTrialExpired

LEMMA CalmKept ==
    ASSUME WorkInv, DecisionInv, LimitsInv, LedgerInv, CalmInv, Undisturbed, [Next]_vars
    PROVE  /\ BillingCalm' /\ MembersCalm' /\ SitesCalm' /\ UrlsCalm'
           /\ Dev!Next \/ UNCHANGED Dev!devVars
<1>1. /\ TokensInv /\ MembersAsRead /\ UrlsAsRead /\ CallsAsRead
      /\ BillingCalm /\ MembersCalm /\ SitesCalm /\ UrlsCalm /\ RowsCalm
      /\ Alone /\ OneAtATime /\ setting.still
    BY DEF DecisionInv, LimitsInv, LedgerInv, CalmInv, Undisturbed, WorkInv, BillingCalm
<1>2. CASE Next /\ B!Next /\ UNCHANGED <<memberVars, urlVars, siteVars>>
    <2>1. M!Busy # {} \/ S!BusySites # {} => SeatLimit' = SeatLimit /\ SiteLimit' = SiteLimit
        BY <1>1, <1>2, LimitsStill
    <2>2. MembersCalm' /\ SitesCalm' /\ UrlsCalm'
        BY <1>1, <1>2, <2>1, MembersCalmSame, SitesCalmSame, UrlsCalmSame
    <2> QED BY <1>1, <1>2, <2>2, BillingAsInDev
<1>3. CASE Next /\ M!Next /\ UNCHANGED <<billingVars, urlVars, siteVars>>
    <2>1. BillingCalm' /\ SitesCalm' /\ UrlsCalm'
        BY <1>1, <1>3, LimitsSame, BillingCalmSame, SitesCalmSame, UrlsCalmSame
    <2> QED BY <1>1, <1>3, <2>1, MembersAsInDev
<1>4. CASE Next /\ U!Next /\ UNCHANGED <<billingVars, memberVars, siteVars>>
    <2>1. BillingCalm' /\ MembersCalm' /\ SitesCalm'
        BY <1>1, <1>4, LimitsSame, BillingCalmSame, MembersCalmSame, SitesCalmSame
    <2> QED BY <1>1, <1>4, <2>1, UrlsAsInDev
<1>5. CASE Next /\ S!Next /\ UNCHANGED <<billingVars, memberVars, urlVars>>
    <2>1. BillingCalm' /\ MembersCalm' /\ UrlsCalm'
        BY <1>1, <1>5, LimitsSame, BillingCalmSame, MembersCalmSame, UrlsCalmSame
    <2> QED BY <1>1, <1>5, <2>1, SitesAsInDev
<1>6. CASE UNCHANGED vars
    <2>1. UNCHANGED <<memberVars, billingVars, urlVars, siteVars>>
        BY <1>6 DEF vars
    <2>2. UNCHANGED Dev!devVars
        BY <2>1 DEF memberVars, billingVars, urlVars, siteVars, Dev!devVars
    <2> QED BY <1>1, <2>1, <2>2, LimitsSame, BillingCalmSame, MembersCalmSame, SitesCalmSame, UrlsCalmSame
<1> QED BY <1>2, <1>3, <1>4, <1>5, <1>6 DEF Next

LEMMA CalmAlways == Spec => [](WorkInv /\ DecisionInv /\ LimitsInv /\ LedgerInv /\ CalmInv)
<1>1. Init => CalmInv
    BY CalmInit
<1>2. WorkInv /\ DecisionInv /\ LimitsInv /\ LedgerInv /\ CalmInv /\ [Next]_vars => CalmInv'
    <2> SUFFICES ASSUME WorkInv, DecisionInv, LimitsInv, LedgerInv, CalmInv, [Next]_vars, Undisturbed'
                 PROVE  (BillingCalm /\ MembersCalm /\ SitesCalm /\ UrlsCalm)'
        BY DEF CalmInv
    <2>1. Undisturbed
        BY DEF Undisturbed, OneAtATime, Next, vars
    <2> QED BY <2>1, CalmKept
<1> QED BY <1>1, <1>2, DecisionAlways, LimitsAlways, LedgerAlways, PTL DEF Spec

LEMMA DevInitially == ASSUME Init PROVE Dev!Init
BY DEF Init, B!Init, B!Trial, B!NoKey, M!Init, M!Absent, U!Init, S!Init, Dev!Init, Dev!Nobody

(***************************************************************************)
(* For any people, codes, plans, sites, URLs and bounds: handled one at a  *)
(* time, with no event from Stripe and while time stands still, each       *)
(* request of the database repository writes what one operation of the     *)
(* in-memory repository writes, from the same rows, or writes nothing      *)
(* (app-repository.ts, dev-store.ts).                                      *)
(***************************************************************************)
THEOREM DevStoreMatched == Spec => MatchesDevStore
<1>1. WorkInv /\ DecisionInv /\ LimitsInv /\ LedgerInv /\ CalmInv /\ [Next]_vars
        => [Undisturbed => Dev!Next]_(Dev!devVars)
    BY CalmKept
<1> QED BY <1>1, DevInitially, CalmAlways, PTL DEF Spec, MatchesDevStore
=============================================================================
