-------------------------------- MODULE Sites --------------------------------
(***************************************************************************)
(* The sites of one organization (createSite of app-repository.ts): the    *)
(* billing context is read in one transaction, which counts the sites, and *)
(* the site is inserted in another, which does not count again.  A site is *)
(* known by its normalized URL and is never removed.  Whoever asks may add *)
(* sites: the founder always may.                                          *)
(***************************************************************************)
EXTENDS Integers, FiniteSets

CONSTANTS
    SiteUrls,
    NoSite,         \* the site of a request that is not in flight
    SiteReqs        \* requests that may be in flight together

VARIABLES
    siteLimit,      \* input: sites the billing context allows now, 0 while read-only
    sites,          \* Site rows
    siteReqs        \* what each handler between count and insert is about to insert

siteVars == <<sites, siteReqs>>

SiteTypes ==
    /\ sites \in SUBSET SiteUrls
    /\ siteReqs \in [SiteReqs -> SiteUrls \cup {NoSite}]

Init ==
    /\ sites = {}
    /\ siteReqs = [r \in SiteReqs |-> NoSite]

BusySites == {r \in SiteReqs : siteReqs[r] # NoSite}

SiteAtLimit(r, s) ==                            \* mutant: the last site is given twice
    /\ siteReqs[r] = NoSite /\ Cardinality(sites) <= siteLimit
    /\ siteReqs' = [siteReqs EXCEPT ![r] = s]
    /\ UNCHANGED sites

(* A URL that has a site already is only noticed when it is inserted. *)
SiteRead(r, s) ==
    /\ siteReqs[r] = NoSite /\ Cardinality(sites) < siteLimit
    /\ siteReqs' = [siteReqs EXCEPT ![r] = s]
    /\ UNCHANGED sites

(* The unique index over organization and URL refuses a second row. *)
SiteWrite(r) ==
    /\ siteReqs[r] # NoSite
    /\ sites' = sites \cup {siteReqs[r]}
    /\ siteReqs' = [siteReqs EXCEPT ![r] = NoSite]

AbandonSite(r) ==
    /\ siteReqs[r] # NoSite
    /\ siteReqs' = [siteReqs EXCEPT ![r] = NoSite]
    /\ UNCHANGED sites

Next ==
    \/ \E r \in SiteReqs, s \in SiteUrls : SiteRead(r, s)
    \/ \E r \in SiteReqs : SiteWrite(r) \/ AbandonSite(r)

Spec == Init /\ [][Next]_siteVars
=============================================================================
