------------------------------- MODULE DevStore -------------------------------
(***************************************************************************)
(* The in-memory repository (dev-store.ts), which stands in for the        *)
(* database in tests and local work.  Nothing in it waits between a check  *)
(* and the write it allows, so each operation is one step.  It is the      *)
(* specification that the database repository implements as long as        *)
(* requests do not meet: its members, plan codes, sites and monitored URLs.*)
(* Stripe's webhooks it ignores (applyBillingWebhookUpdate).               *)
(***************************************************************************)
EXTENDS Integers, FiniteSets, Sequences, SequencesExt

CONSTANTS
    People, Founder,
    Codes, GrantPlan,
    SiteUrls, Urls, MaxActive,
    Seats, SiteCaps     \* the users and the sites limit of each plan

VARIABLES
    members,        \* member of each person, status "none" without one
    links,          \* whom each invitation link went to; a token is the number of its link
    subscriptions,  \* the most recently updated last
    codes,
    trialOver,      \* trialEndsAt has passed
    sites,
    watched         \* "none", "active" or "paused" for each URL

devVars == <<members, links, subscriptions, codes, trialOver, sites, watched>>

Nobody == [status |-> "none", role |-> "VIEWER", token |-> 0, fresh |-> FALSE]

Init ==
    /\ members = [p \in People |-> IF p = Founder THEN [Nobody EXCEPT !.status = "ACTIVE", !.role = "OWNER"]
                                                  ELSE Nobody]
    /\ links = <<>>
    /\ subscriptions = <<[id |-> 1, provider |-> "none", key |-> "none", status |-> "TRIALING", plan |-> "TRIAL"]>>
    /\ codes = [k \in Codes |-> [issued |-> FALSE, revoked |-> FALSE, redeemed |-> FALSE]]
    /\ trialOver = FALSE
    /\ sites = {}
    /\ watched = [u \in Urls |-> "none"]

(* getActiveDevSubscription; without Stripe a row is a trial or a grant *)
ActiveSubscription == Last(subscriptions)

ReadOnly == ActiveSubscription.status = "TRIALING" /\ trialOver

Limit(limits) == IF ReadOnly THEN 0 ELSE limits[ActiveSubscription.plan]

(* requireOrganizationAccess *)
MayManage(p) == members[p].status = "ACTIVE" /\ members[p].role \in {"OWNER", "ADMIN"}

Members == {p \in People : members[p].status \in {"INVITED", "ACTIVE"}}

(* createInviteToken: the new link's number, and whom it is mailed to *)
Mail(p) == links' = Append(links, p)
Token == Len(links) + 1

InviteMember(by, p, role) ==
    /\ MayManage(by) /\ members[p].status = "none"
    /\ Cardinality(Members) < Limit(Seats)
    /\ members' = [members EXCEPT ![p] = [status |-> "INVITED", role |-> role, token |-> Token, fresh |-> TRUE]]
    /\ Mail(p)
    /\ UNCHANGED <<subscriptions, codes, trialOver, sites, watched>>

ResendInvite(by, p) ==
    /\ MayManage(by) /\ members[p].status = "INVITED"
    /\ members' = [members EXCEPT ![p].token = Token, ![p].fresh = TRUE]
    /\ Mail(p)
    /\ UNCHANGED <<subscriptions, codes, trialOver, sites, watched>>

CancelInvite(by, p) ==
    /\ MayManage(by) /\ members[p].status = "INVITED"
    /\ members' = [members EXCEPT ![p] = [@ EXCEPT !.status = "CANCELED", !.token = 0, !.fresh = FALSE]]
    /\ UNCHANGED <<links, subscriptions, codes, trialOver, sites, watched>>

AcceptInvite(p, k) ==
    /\ members[p].status = "INVITED" /\ members[p].token = k /\ members[p].fresh
    /\ members' = [members EXCEPT ![p] = [@ EXCEPT !.status = "ACTIVE", !.token = 0, !.fresh = FALSE]]
    /\ UNCHANGED <<links, subscriptions, codes, trialOver, sites, watched>>

UpdateMemberRole(by, p, role) ==
    /\ MayManage(by) /\ p # by
    /\ members[p].status # "none" /\ members[p].role # "OWNER"
    /\ members' = [members EXCEPT ![p].role = role]
    /\ UNCHANGED <<links, subscriptions, codes, trialOver, sites, watched>>

-----------------------------------------------------------------------------
CreateSite(s) ==
    /\ s \notin sites /\ Cardinality(sites) < Limit(SiteCaps)
    /\ sites' = sites \cup {s}
    /\ UNCHANGED <<members, links, subscriptions, codes, trialOver, watched>>

ActiveUrls == {u \in Urls : watched[u] = "active"}

CreateMonitoredUrl(u) ==
    /\ watched[u] = "none" /\ Cardinality(ActiveUrls) < MaxActive
    /\ watched' = [watched EXCEPT ![u] = "active"]
    /\ UNCHANGED <<members, links, subscriptions, codes, trialOver, sites>>

UpdateMonitoredUrlStatus(u, status) ==
    /\ watched[u] # "none"
    /\ (status = "active" /\ watched[u] = "paused") => Cardinality(ActiveUrls) < MaxActive
    /\ watched' = [watched EXCEPT ![u] = status]
    /\ UNCHANGED <<members, links, subscriptions, codes, trialOver, sites>>

-----------------------------------------------------------------------------
SetCode(k, code) ==
    /\ codes' = [codes EXCEPT ![k] = code]
    /\ UNCHANGED <<members, links, trialOver, sites, watched>>

CreatePlanGrantCode(k) ==
    /\ ~codes[k].issued
    /\ SetCode(k, [issued |-> TRUE, revoked |-> FALSE, redeemed |-> FALSE])
    /\ UNCHANGED subscriptions

RevokePlanGrantCode(k) ==
    /\ codes[k].issued /\ ~codes[k].redeemed
    /\ SetCode(k, [codes[k] EXCEPT !.revoked = TRUE])
    /\ UNCHANGED subscriptions

RedeemPlanGrantCode(k) ==
    /\ codes[k].issued /\ ~codes[k].revoked /\ ~codes[k].redeemed
    /\ SetCode(k, [codes[k] EXCEPT !.redeemed = TRUE])
    /\ subscriptions' = Append(subscriptions, [id |-> Len(subscriptions) + 1, provider |-> "grant", key |-> k,
                                               status |-> "ACTIVE", plan |-> GrantPlan])

(* Time passes: the trial ends, an invitation expires. *)
TimePasses ==
    /\ \/ ~trialOver /\ trialOver' = TRUE /\ UNCHANGED members
       \/ \E p \in People : /\ members[p].fresh
                            /\ members' = [members EXCEPT ![p].fresh = FALSE]
                            /\ UNCHANGED trialOver
    /\ UNCHANGED <<links, subscriptions, codes, sites, watched>>

Next ==
    \/ \E by \in People, p \in People :
          \/ ResendInvite(by, p) \/ CancelInvite(by, p)
          \/ \E role \in {"ADMIN", "VIEWER"} : InviteMember(by, p, role) \/ UpdateMemberRole(by, p, role)
    \/ \E p \in People, k \in DOMAIN links : AcceptInvite(p, k)
    \/ \E s \in SiteUrls : CreateSite(s)
    \/ \E u \in Urls : CreateMonitoredUrl(u) \/ \E s \in {"active", "paused"} : UpdateMonitoredUrlStatus(u, s)
    \/ \E k \in Codes : CreatePlanGrantCode(k) \/ RevokePlanGrantCode(k) \/ RedeemPlanGrantCode(k)
    \/ TimePasses

Spec == Init /\ [][Next]_devVars
=============================================================================
