------------------------------ MODULE Workspace ------------------------------
(***************************************************************************)
(* An organization's workspace: its subscriptions decide how many members  *)
(* and sites it may have and whether it may add any, and its sites have a  *)
(* cap on monitored URLs.  Composes Subscriptions, Memberships, Sites and  *)
(* MonitoredUrls; the three resources that are limited implement           *)
(* CapacityGate, and as long as requests do not meet the whole implements  *)
(* DevStore.                                                               *)
(***************************************************************************)
EXTENDS Integers, FiniteSets, Sequences, SequencesExt

CONSTANTS
    People, Founder, NoPerson, Reqs,
    EventKinds, Codes, GrantPlan, Calls,
    Urls, NoUrl, UrlReqs, MaxActive,
    SiteUrls, NoSite, SiteReqs,
    Seats,          \* the users limit of each plan
    MaxSeats,       \* the largest of them
    SiteCaps,       \* the sites limit of each plan
    MaxSites,       \* the largest of them
    Settings        \* environments: requests in flight, events and their kinds, links, codes,
                    \* URLs, sites, and whether time stands still while a request is handled

(* An event is known when its plan is one of the code's (normalizePlanCode). *)
ASSUME WorkspaceAssumption ==
    /\ IsFiniteSet(People) /\ Founder \in People /\ NoPerson \notin People
    /\ IsFiniteSet(Reqs) /\ Reqs # {}
    /\ IsFiniteSet(Urls) /\ NoUrl \notin Urls
    /\ IsFiniteSet(UrlReqs) /\ UrlReqs # {}
    /\ MaxActive \in Nat
    /\ MaxSeats \in Nat /\ MaxSeats >= 1
    /\ "TRIAL" \in DOMAIN Seats
    /\ \A plan \in DOMAIN Seats : Seats[plan] \in 0..MaxSeats
    /\ IsFiniteSet(SiteUrls) /\ NoSite \notin SiteUrls
    /\ IsFiniteSet(SiteReqs) /\ SiteReqs # {}
    /\ MaxSites \in Nat
    /\ "TRIAL" \in DOMAIN SiteCaps
    /\ \A plan \in DOMAIN SiteCaps : SiteCaps[plan] \in 0..MaxSites
    /\ IsFiniteSet(Calls)
    /\ \A kind \in EventKinds : /\ kind.known \in BOOLEAN
                                /\ kind.status \in {"TRIALING", "ACTIVE", "PAST_DUE", "CANCELED", "INCOMPLETE"}
                                /\ kind.known => kind.plan \in DOMAIN Seats \cap DOMAIN SiteCaps
    /\ GrantPlan \in DOMAIN Seats \cap DOMAIN SiteCaps

VARIABLES
    members, links, reqs,
    sent, ledger, rows, codes, trialOver, calls,
    watched, urlReqs,
    sites, siteReqs,
    setting         \* the environment of this behaviour, chosen at the start

B == INSTANCE Subscriptions

(* What getDbBillingLimitContext lets a request count up to.  A plan the   *)
(* code does not know counts as an unexpired trial.                        *)
Limit(limits) ==
    LET plan == B!Current.plan
    IN  IF plan \notin DOMAIN limits THEN limits["TRIAL"]
        ELSE IF B!FullAccess THEN limits[plan] ELSE 0

SeatLimit == Limit(Seats)
SiteLimit == Limit(SiteCaps)

M == INSTANCE Memberships WITH seatLimit <- SeatLimit
S == INSTANCE Sites WITH siteLimit <- SiteLimit
U == INSTANCE MonitoredUrls

memberVars == <<members, links, reqs>>
billingVars == <<sent, ledger, rows, codes, trialOver, calls>>
urlVars == <<watched, urlReqs>>
siteVars == <<sites, siteReqs>>
vars == <<memberVars, billingVars, urlVars, siteVars, setting>>

Init == B!Init /\ M!Init /\ U!Init /\ S!Init /\ setting \in Settings

InFlight ==
    Cardinality(M!Busy) + Cardinality(B!BusyCalls) + Cardinality(U!BusyUrls) + Cardinality(S!BusySites)

TimePasses == B!TrialEnds \/ \E p \in People : M!LinkExpires(p)

(* Bounds of the environment: each is a parameter of the setting. *)
Within ==
    /\ InFlight <= setting.slots
    /\ Len(sent) <= setting.events /\ ToSet(sent) \subseteq setting.kinds
    /\ Len(links) <= setting.links
    /\ Cardinality({k \in Codes : codes[k].issued}) <= setting.codes
    /\ Cardinality({u \in Urls : watched[u] # "none"}) + Cardinality(U!BusyUrls) <= setting.urls
    /\ Cardinality(sites) + Cardinality(S!BusySites) <= setting.sites

Next ==
    /\ \/ B!Next /\ UNCHANGED <<memberVars, urlVars, siteVars>>
       \/ M!Next /\ UNCHANGED <<billingVars, urlVars, siteVars>>
       \/ U!Next /\ UNCHANGED <<billingVars, memberVars, siteVars>>
       \/ S!Next /\ UNCHANGED <<billingVars, memberVars, urlVars>>
    /\ UNCHANGED setting
    /\ Within'
    /\ (setting.still /\ InFlight > 0) => ~TimePasses

Spec == Init /\ [][Next]_vars

TypeOK == M!TypeOK /\ B!BillingTypes /\ U!UrlTypes /\ S!SiteTypes

OneAtATime == setting.slots = 1

-----------------------------------------------------------------------------
(* Members *)

(***************************************************************************)
(* The founder stays the organization's one active OWNER, whatever         *)
(* administrators do together: nobody can demote, cancel or replace the    *)
(* owner (updateMemberRole, cancelInvite, inviteMember).                   *)
(***************************************************************************)
OneOwner ==
    \A p \in People : (members[p].role = "OWNER" /\ members[p].status = "ACTIVE") <=> p = Founder

(***************************************************************************)
(* Requests handled one at a time: a pending invitation has a token and    *)
(* nobody else has one; a decision is final, so an active member stays     *)
(* active and a canceled invitation stays canceled.                        *)
(***************************************************************************)
TokensArePending ==
    OneAtATime => \A p \in People : (members[p].token # 0) <=> (members[p].status = "INVITED")

StatusesStay ==
    [][OneAtATime => \A p \in People :
          members[p].status \in {"ACTIVE", "CANCELED"} => members'[p].status = members[p].status]_vars

(***************************************************************************)
(* Requests handled one at a time: whoever joins does so with the last     *)
(* link that was mailed to them, so a resent invitation kills the earlier  *)
(* links (SECURITY.md:18).                                                 *)
(***************************************************************************)
LatestLinkOnly ==
    [][OneAtATime => \A r \in Reqs :
          (reqs[r].pc = "accept" /\ members' # members)
             => /\ links[reqs[r].token] = reqs[r].person
                /\ \A i \in DOMAIN links : links[i] = reqs[r].person => i <= reqs[r].token]_vars

(* An invitation is decided once, and with its last link; then no link is left. *)
DecisionsAreFinal == []TokensArePending /\ StatusesStay /\ LatestLinkOnly

(***************************************************************************)
(* Requests handled one at a time: an organization gains a member or a     *)
(* site only while its subscription is in force and within the plan it is  *)
(* on (SECURITY.md:112), and a site never has more active monitored URLs   *)
(* than the limit.  A trial may end in the middle of a request.            *)
(***************************************************************************)
InForce == B!Current.status \in {"ACTIVE", "TRIALING"}

SeatsWithinPlan ==
    [][(OneAtATime /\ ~(M!Counted' \subseteq M!Counted))
          => InForce /\ Cardinality(M!Counted') <= Seats[B!Current.plan]]_vars

SitesWithinPlan ==
    [][(OneAtATime /\ sites' # sites)
          => InForce /\ Cardinality(sites') <= SiteCaps[B!Current.plan]]_vars

UrlsWithinCap == OneAtATime => Cardinality(U!Active) <= MaxActive

WithinLimits == SeatsWithinPlan /\ SitesWithinPlan /\ []UrlsWithinCap

(***************************************************************************)
(* Requests handled together: members, sites and active URLs implement     *)
(* CapacityGate with the largest limit, so each further request in flight  *)
(* lets at most one more in (inviteMember, createSite,                     *)
(* createMonitoredUrlForSite).                                             *)
(***************************************************************************)
Joining == [r \in Reqs |-> IF reqs[r].pc \in {"invite", "accept"} THEN reqs[r].person ELSE NoPerson]

SeatGate == INSTANCE CapacityGate WITH
    Things <- People, Nothing <- NoPerson, Cap <- MaxSeats, held <- M!Counted, pending <- Joining

SeatsImplementGate == SeatGate!Spec

SiteGate == INSTANCE CapacityGate WITH
    Things <- SiteUrls, Reqs <- SiteReqs, Nothing <- NoSite, Cap <- MaxSites, held <- sites,
    pending <- siteReqs

SitesImplementGate == SiteGate!Spec

Starting == [r \in UrlReqs |-> IF urlReqs[r].pc \in {"create", "resume"} THEN urlReqs[r].url ELSE NoUrl]

UrlGate == INSTANCE CapacityGate WITH
    Things <- Urls, Reqs <- UrlReqs, Nothing <- NoUrl, Cap <- MaxActive, held <- U!Active,
    pending <- Starting

UrlsImplementGate == UrlGate!Spec

LimitsImplementGate == SeatsImplementGate /\ SitesImplementGate /\ UrlsImplementGate

-----------------------------------------------------------------------------
(***************************************************************************)
(* Handled one at a time, with no event from Stripe and while time stands  *)
(* still, every request does what one operation of the in-memory           *)
(* repository does, or nothing: what the tests show of the one holds of    *)
(* the other.                                                              *)
(***************************************************************************)
Dev == INSTANCE DevStore WITH subscriptions <- rows

Undisturbed == OneAtATime /\ setting.events = 0 /\ setting.still

MatchesDevStore == Dev!Init /\ [][Undisturbed => Dev!Next]_(Dev!devVars)

-----------------------------------------------------------------------------
(* Billing *)

(***************************************************************************)
(* Webhooks and redemptions handled one at a time: a Stripe customer has   *)
(* at most one row, and it says what the event stored last for this        *)
(* customer said, however often and in whatever order events are           *)
(* delivered (SECURITY.md:111: replayed events cannot repeat mutations).   *)
(***************************************************************************)
RowsOfCustomers ==
    OneAtATime => \A customer \in {kind.customer : kind \in EventKinds} :
        LET about == {i \in DOMAIN ledger : sent[ledger[i]].known /\ sent[ledger[i]].customer = customer}
            mine == {i \in DOMAIN rows : rows[i].provider = "stripe" /\ rows[i].key = customer}
            opened == \E i \in about : sent[ledger[i]].status # "CANCELED"
            latest == sent[ledger[Max(about)]]
        IN  IF ~opened THEN mine = {}
            ELSE \E i \in mine : /\ mine = {i}
                                 /\ rows[i].status = latest.status /\ rows[i].plan = latest.plan

(***************************************************************************)
(* Deliveries of one event handled together: the event changes the         *)
(* subscriptions once; a delivery that finds it stored changes nothing,    *)
(* also when both looked before either stored it (SECURITY.md:111).        *)
(***************************************************************************)
ReplaysChangeNothing ==
    [][\A c \in Calls :
          (calls[c].pc = "webhook" /\ calls'[c].pc = "idle" /\ calls[c].event \in ToSet(ledger))
             => rows' = rows]_vars

(***************************************************************************)
(* Redemptions and revocations handled one at a time: a code pays for one  *)
(* subscription, and a revoked code for none (redeemPlanGrantCode,         *)
(* revokePlanGrantCode).                                                   *)
(***************************************************************************)
CodesPayOnce ==
    OneAtATime => \A k \in Codes :
        LET bought == {i \in DOMAIN rows : rows[i].provider = "grant" /\ rows[i].key = k}
        IN  /\ Cardinality(bought) = IF codes[k].redeemed THEN 1 ELSE 0
            /\ ~(codes[k].redeemed /\ codes[k].revoked)

(* Whatever Stripe sends and members redeem, and however often, the rows say so. *)
RowsFollowLedger == []RowsOfCustomers /\ ReplaysChangeNothing /\ []CodesPayOnce

(***************************************************************************)
(* An organization that holds a granted plan has full access: schema.prisma*)
(* says of PlanGrantCode "so a granted plan gets full access through the   *)
(* existing entitlement path with no special-casing there".                *)
(***************************************************************************)
GrantGivesAccess ==
    (\E i \in DOMAIN rows : rows[i].provider = "grant" /\ rows[i].status = "ACTIVE") => B!FullAccess

=============================================================================
