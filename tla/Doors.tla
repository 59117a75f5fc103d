-------------------------------- MODULE Doors --------------------------------
(***************************************************************************)
(* A call of one user at the doors of the dashboard: an API route, a       *)
(* server action or a page.  It takes the door's steps in order until one  *)
(* refuses or fails.  Between any two of them the session may end and an   *)
(* owner may change the member's role or sites; and also inside an         *)
(* operation, which reads the membership once, before the statements and   *)
(* the transaction that do its work (requireDbOrganizationAccess).         *)
(*                                                                         *)
(* The user is a member of one organization with two sites, and calls the  *)
(* API for the first of them; a page chooses among those it may show.      *)
(***************************************************************************)
EXTENDS RateLimits, ApiRoutes, ServerActions, Pages, FiniteSets

VARIABLES
    live,           \* the user's sessions, by number; a number is not used again
    member,         \* the OrganizationMember row of the user
    call,           \* the call in flight, or how the last one ended
    moves,          \* what happened to the member or the session while a call was in flight
    setting         \* doors, roles and scopes at the start, roles given later, bound on moves, one
                    \* call or many

doorVars == <<now, buckets, passes, member, call, moves>>
vars == <<live, doorVars, setting>>

Sites == {"this", "other"}
Scopes == {{}, {"this"}, {"other"}}             \* none named: all of them
Credentials == {"origin", "signature", "admin"}

Member == [active: BOOLEAN, role: RoleNames, scope: Scopes]

Idle ==
    [state |-> "idle", door |-> 0, at |-> 1, session |-> 0, lacks |-> "none", site |-> "this",
     role |-> "", charged |-> FALSE, cleared |-> FALSE, changed |-> FALSE, kept |-> "", seen |-> {}]

Init ==
    /\ LimitsInit
    /\ member \in [active: BOOLEAN, role: setting.roles, scope: setting.scopes]
    /\ member.role = "OWNER" => member.active
    /\ call = Idle
    /\ moves = 0

AllDoors == ApiDoors \o ActionDoors \o PageDoors

(* All doors but those that ask nothing and do nothing, or a limited one. *)
Offered ==
    CASE setting.doors = "none" -> {}
      [] setting.doors = "all" -> {n \in DOMAIN AllDoors : AllDoors[n] # <<>>}
      [] setting.doors = "login" -> {n \in DOMAIN AllDoors : AllDoors[n] = LoginRoute[1]}

Visible(m) == IF m.scope = {} THEN Sites ELSE m.scope

(* mutant: an invitation is enough *)
EntitledOnceInvited(m, step, site) ==
    /\ HasPermission(m.role, step.permission)
    /\ step.scoped => site \in Visible(m)

(* requireDbOrganizationAccess *)
Entitled(m, step, site) ==
    /\ m.active
    /\ HasPermission(m.role, step.permission)
    /\ step.scoped => site \in Visible(m)

-----------------------------------------------------------------------------
(* The steps of a call *)

(* What does not matter once a call was answered is forgotten. *)
Ending(state) ==
    [Idle EXCEPT !.state = state, !.role = call.role, !.changed = call.changed, !.seen = call.seen]

Answered(state) == call' = Ending(state)

Step == AllDoors[call.door][call.at]

(* The call is done with a step, which leaves it as it says. *)
Done(left) ==
    IF left.at = Len(AllDoors[left.door]) THEN call' = [Idle EXCEPT !.state = "done"]
    ELSE call' = [left EXCEPT !.at = @ + 1, !.cleared = FALSE]

Arrive(door, session, lacks) ==
    /\ lacks # (IF session = 0 THEN "admin" ELSE "signature")
    /\ call' = [Idle EXCEPT !.state = "running", !.door = door, !.session = session,
                            !.lacks = lacks, !.seen = {member}]
    /\ UNCHANGED <<now, buckets, passes, member, moves, setting>>

Running(kind) == call.state = "running" /\ Step.kind = kind

Credential ==
    /\ call.state = "running" /\ Step.kind \in Credentials
    /\ IF call.lacks = Step.kind THEN Answered("refused") ELSE Done(call)
    /\ UNCHANGED <<now, buckets, passes, member, moves, setting>>

FindSession ==
    /\ Running("session")
    /\ IF call.session \in live THEN Done(call) ELSE Answered("refused")
    /\ UNCHANGED <<now, buckets, passes, member, moves, setting>>

Meters(process) ==
    /\ Running("quota")
    /\ \E stores \in Counting(process), passed \in BOOLEAN :
          /\ Charge(Step.name, stores, passed)
          /\ IF passed THEN Done([call EXCEPT !.charged = TRUE]) ELSE Answered("refused")
    /\ UNCHANGED <<member, moves, setting>>

(* mutant: any member is shown what the page reads *)
WantedByMembers(step) == step.gate \in {"", "data"} \/ call.role # ""

(* Whether the data or the role found before call for the step. *)
Wanted(step) ==
    CASE step.gate \in {"", "data"} -> TRUE
      [] step.gate = "organization" -> call.role # ""
      [] OTHER -> call.role # "" /\ HasPermission(call.role, step.gate)

Skip ==
    /\ Running("operation") /\ ~call.cleared
    /\ Step.gate # ""
    /\ Step.gate = "organization" => ~Wanted(Step)
    /\ Done(call)
    /\ UNCHANGED <<now, buckets, passes, member, moves, setting>>

Check ==
    /\ Running("operation") /\ ~call.cleared
    /\ Wanted(Step)
    /\ IF Step.permission = "" \/ Entitled(member, Step, call.site)
       THEN call' = [call EXCEPT !.cleared = TRUE]
       ELSE Answered("refused")
    /\ UNCHANGED <<now, buckets, passes, member, moves, setting>>

(* The summaries give the role and the sites of the first organization. *)
Summarize ==
    IF member.active
    THEN \E site \in Visible(member) :
            Done([call EXCEPT !.role = member.role, !.site = site])
    ELSE Done(call)

CarryOut ==
    /\ Running("operation") /\ call.cleared
    /\ IF Step.name = ListOrganizations.name THEN Summarize
       ELSE Done([call EXCEPT !.changed = @ \/ Step.changes])
    /\ UNCHANGED <<now, buckets, passes, member, moves, setting>>

(* The operation finds that it cannot be done before it has changed        *)
(* anything, or its transaction aborts.                                    *)
Fail ==
    /\ Running("operation") /\ call.cleared
    /\ Step.fails
    /\ Answered("failed")
    /\ UNCHANGED <<now, buckets, passes, member, moves, setting>>

(* The operation fails after a change of its own is committed: answering a *)
(* link that is overdue, or handing a job to a queue that answers with an  *)
(* error.                                                                  *)
FailHalfway ==
    /\ Running("operation") /\ call.cleared
    /\ Step.halfway
    /\ call' = [Ending("failed") EXCEPT !.kept = Step.name]
    /\ UNCHANGED <<now, buckets, passes, member, moves, setting>>

-----------------------------------------------------------------------------
(* What owners do to the member meanwhile *)

Becomes(m) ==
    /\ call.state = "running" /\ moves < setting.moves
    /\ m # member
    /\ member' = m
    /\ call' = [call EXCEPT !.seen = @ \cup {m}]
    /\ moves' = moves + 1
    /\ UNCHANGED <<now, buckets, passes, setting>>

ChangeRole(role) ==
    /\ member.role # "OWNER" /\ role # "OWNER"
    /\ Becomes([member EXCEPT !.role = role])

ChangeScope(scope) ==
    /\ member.role # "OWNER"
    /\ Becomes([member EXCEPT !.scope = scope])

Join ==
    /\ ~member.active
    /\ Becomes([member EXCEPT !.active = TRUE])

(* Calls and their quotas as time goes on; a single call takes none. *)
Elapse ==
    /\ setting.again
    /\ \/ Pass
       \/ \E process \in Processes : Restart(process)
    /\ UNCHANGED <<member, call, moves, setting>>

Waiting == call.state = "idle" \/ (setting.again /\ call.state # "running")

Next ==
    \/ /\ Waiting
       /\ \E door \in Offered, session \in (IF live = {} THEN {0} ELSE live),
             lacks \in Credentials \cup {"none"} : Arrive(door, session, lacks)
    \/ Credential \/ FindSession \/ Skip \/ Check \/ CarryOut \/ Fail \/ FailHalfway
    \/ \E process \in Processes : Meters(process)
    \/ \E role \in setting.next : ChangeRole(role)
    \/ \E scope \in Scopes : ChangeScope(scope)
    \/ Join
    \/ Elapse

(* Sessions come and go, and what else the user does counts as a move. *)
Elsewhere == UNCHANGED <<now, buckets, passes, member, call, setting>>

Spec == Init /\ [][(Next /\ UNCHANGED live) \/ Elsewhere]_vars

-----------------------------------------------------------------------------
TypeOK ==
    /\ member \in Member
    /\ call.state \in {"idle", "running", "refused", "failed", "done"}
    /\ call.role \in RoleNames \cup {""} /\ call.site \in Sites
    /\ call.seen \subseteq Member
    /\ call.state = "running" => call.at \in DOMAIN AllDoors[call.door]
    /\ \A key \in DOMAIN buckets : buckets[key].count \in 1..(Limit + 1)

(* An operation is carried out, be it halfway: the call was cleared for it *)
(* and goes on, or keeps what it changed.                                  *)
CarriesOut == call.cleared /\ ~call'.cleared /\ (call'.state = "failed" => call'.kept # "")

Performed == [Step EXCEPT !.gate = ""]

(* What the documents say an operation asks for, in the site's scope or not. *)
Documented ==
    {[permission |-> "audit:run", sites |-> TRUE, of |-> {CreateAudit, UpdateAuditIssue}],
     [permission |-> "audit:read", sites |-> TRUE, of |-> {ListAudits, ListAuditIssues}],
     [permission |-> "backlog:update", sites |-> TRUE,
      of |-> {CreateTaskFromCandidate, CreateTaskFromIssue, CreateTasksFromAudit,
              UpdateTaskStatus, UpdateTaskAssignment}],
     [permission |-> "backlog:read", sites |-> TRUE,
      of |-> {ListTasks, ListTaskActivity, ListRecommendations}],
     [permission |-> "content_operation:preview", sites |-> TRUE,
      of |-> {PreviewOperation, ListOperations, DryRunOperation}],
     [permission |-> "content_operation:confirm", sites |-> TRUE,
      of |-> {ConfirmOperation, StartOperation, FinishOperation, RollbackOperation,
              RetryOperation}],
     [permission |-> "organization:read", sites |-> FALSE,
      of |-> {ListNotifications, UpdateNotification, MarkAllNotificationsRead}],
     [permission |-> "billing:read", sites |-> FALSE, of |-> {GetBillingOverview}],
     [permission |-> "billing:manage", sites |-> FALSE,
      of |-> {GetCheckoutContext, GetPortalContext}],
     [permission |-> "site:read", sites |-> TRUE, of |-> {GetGscOverview}],
     [permission |-> "integration:manage", sites |-> TRUE,
      of |-> {OfferGsc, GetGscSecret, UpsertGscConnection, SelectGscProperty, UpsertGscMetrics,
              ReplaceGscInsights}],
     [permission |-> "integration:manage", sites |-> FALSE, of |-> {CreateChallenge}]}

(* What belongs to the owners and administrators, and to billing. *)
Managing ==
    {InviteMember, ResendInvite, CancelInvite, UpdateMemberRole, UpdateMemberSiteScope, CreateSite}
Billing == {GetCheckoutContext, GetPortalContext, RedeemPlanGrant}
Platform == {ListUsers, ListPlanGrants, CreatePlanGrant, RevokePlanGrant}

(* What a viewer may write: the own news, and credits for a summary of recommendations. *)
OwnNews ==
    {UpdateNotification, MarkAllNotificationsRead, UpdateDeliveryPreference, ListRecommendations}

(* What is changed by a page that is opened, or by who signs what they send. *)
Unprompted ==
    {ListRecommendations, VerifyEmail, Exchange, Disconnect, AcceptSync, AcceptEvents,
     ApplyBillingWebhook, UpsertGscConnection}

Permits(m, step, site) ==
    /\ m.active
    /\ \A d \in Documented :
          step \in d.of => /\ HasPermission(m.role, d.permission)
                           /\ d.sites => site \in Visible(m)
    /\ step \in Managing => m.role \in {"OWNER", "ADMIN"}
    /\ m.role = "VIEWER" /\ step.changes => step \in OwnNews
    /\ m.role = "EDITOR" => step \notin Billing

(***************************************************************************)
(* An operation that asks for a permission is only carried out when the    *)
(* membership, as it was at some time since the call arrived, was active,  *)
(* had that permission and included the site, if the operation looks.      *)
(***************************************************************************)
CheckedFirst ==
    [][CarriesOut => \/ Step.permission = ""
                     \/ \E m \in call.seen : Entitled(m, Step, call.site)]_doorVars

(***************************************************************************)
(* Whatever an operation does for a member, the member was allowed to have *)
(* it done at some time since the call arrived: active, with the           *)
(* permission the documents ask for, the site among theirs, no viewer who  *)
(* changes anything and no editor near billing; signed in, and a change    *)
(* asked for from one of our own pages or signed.  The platform's          *)
(* operations are carried out for its owners only.                         *)
(***************************************************************************)
CallsAllowed ==
    /\ CheckedFirst
    /\ [][CarriesOut =>
          /\ Performed.permission # "" => /\ \E m \in call.seen : Permits(m, Performed, call.site)
                                          /\ call.session # 0
          /\ Performed \in Platform => call.lacks # "admin"
          /\ Performed.changes /\ call.lacks = "origin" =>
                Performed \in Unprompted]_doorVars

(***************************************************************************)
(* What the documents list as limited is only carried out for a call that  *)
(* was counted, the plugin's and the provider's calls before their         *)
(* signature is verified; and a store lets no more than WindowBound pass.  *)
(***************************************************************************)
Limited ==
    {Register, Login, RequestReset, ResetPassword, StartTwoFactor, ConfirmTwoFactor,
     DisableTwoFactor, InviteMember, ResendInvite, AcceptInvite, PreviewOperation,
     DryRunOperation, ConfirmOperation, StartOperation, FinishOperation, RollbackOperation,
     RetryOperation, CreateMonitoredUrl, RescanMonitoredUrl, CreateChallenge, Exchange,
     Disconnect, AcceptSync, AcceptEvents, GetMonitoring, ApplyBillingWebhook}

Verifying ==
    /\ call.state = "running" /\ Step.kind = "signature"
    /\ Last(AllDoors[call.door]) # UpsertGscConnection

QuotaHolds ==
    /\ [](WindowBound /\ (Verifying => call.charged))
    /\ [][CarriesOut /\ Performed \in Limited => call.charged]_doorVars

(* Operations whose change may stand although they fail: a link is EXPIRED *)
(* or an answer half recorded; an operation is RUNNING, or what a job has  *)
(* made of it; a scan is queued.                                           *)
ChangeMayStand ==
    {RespondToApproval, StartOperation, RollbackOperation, RetryOperation, RescanMonitoredUrl}

(***************************************************************************)
(* No call is left half done between its operations, although these commit *)
(* one by one and the member may change in between: what was carried out   *)
(* before one that is refused or fails has changed nothing.  The one that  *)
(* fails has changed nothing either, unless it is in ChangeMayStand.       *)
(***************************************************************************)
RefusedMeansUnchanged ==
    /\ call.state \in {"refused", "failed"} => ~call.changed
    /\ call.kept # "" => /\ call.state = "failed"
                         /\ call.kept \in {operation.name : operation \in ChangeMayStand}

(***************************************************************************)
(* A page that found the member's role makes no read which that member is  *)
(* refused, unless the member changes while the page is being made.        *)
(***************************************************************************)
PagesOpen ==
    (call.state = "refused" /\ call.role # "") => Cardinality(call.seen) > 1

(* Who is refused is refused before anything was done or shown. *)
RefusalsComeFirst == RefusedMeansUnchanged /\ PagesOpen

-----------------------------------------------------------------------------
(***************************************************************************)
(* What there is to read off the doors themselves, whoever calls and       *)
(* whatever happens meanwhile.                                             *)
(***************************************************************************)
Kinds == Credentials \cup {"session", "quota", "operation"}

Steps == [kind: Kinds, name: STRING, permission: STRING, scoped: BOOLEAN, changes: BOOLEAN,
          fails: BOOLEAN, halfway: BOOLEAN, gate: STRING]

DoorsAreMade ==
    /\ AllDoors \in Seq(Seq(Steps))
    /\ LoginRoute[1] # <<>>

Behind(door, n, kind) == \E k \in 1..(n - 1) : door[k].kind = kind

(* An operation has the steps before it that it needs. *)
Guarded(door, n) ==
    LET step == [door[n] EXCEPT !.gate = ""]
    IN  /\ step.permission # "" => Behind(door, n, "session")
        /\ step \in Platform => Behind(door, n, "admin")
        /\ step.changes /\ step \notin Unprompted => Behind(door, n, "origin")
        /\ step \in Limited => Behind(door, n, "quota")

(* Its permission is no less than the documents ask for. *)
Suffices(door, n) ==
    LET step == [door[n] EXCEPT !.gate = ""]
    IN  \A m \in Member, site \in Sites :
            (m.active /\ HasPermission(m.role, step.permission) /\ (step.scoped => site \in Visible(m)))
                => Permits(m, step, site)

DoorsAreGuarded ==
    \A door \in ToSet(AllDoors) : \A n \in DOMAIN door :
        /\ door[n].kind = "operation" => Guarded(door, n)
        /\ door[n].kind = "operation" /\ door[n].permission # "" => Suffices(door, n)
        /\ door[n].kind = "signature" /\ Last(door) # UpsertGscConnection => Behind(door, n, "quota")

(* After a change nothing follows that could be refused or fail. *)
ChangesComeLast ==
    \A door \in ToSet(AllDoors) : \A n, k \in DOMAIN door :
        (n < k /\ door[n].kind = "operation" /\ door[n].changes) =>
            /\ door[k].kind = "operation" /\ ~door[k].fails
            /\ door[k].permission # "" =>
                  /\ door[n].permission # "" /\ ~door[k].scoped
                  /\ \A role \in RoleNames : HasPermission(role, door[k].permission)

(* Only operations that are known for it keep a change although they fail. *)
FewKeepChanges ==
    \A door \in ToSet(AllDoors) : \A n \in DOMAIN door :
        door[n].halfway => /\ door[n].fails
                           /\ [door[n] EXCEPT !.gate = ""] \in ChangeMayStand

(* A page reads for a role what that role has, and for a site the member sees. *)
PagesAskWhatRolesHave ==
    \A door \in ToSet(AllDoors) : \A n, k \in DOMAIN door :
        (n < k /\ door[n].name = ListOrganizations.name) =>
            /\ door[k].kind = "operation"
            /\ \A role \in RoleNames :
                  (door[k].permission # ""
                   /\ (door[k].gate \in {"", "data", "organization"} \/ HasPermission(role, door[k].gate)))
                      => HasPermission(role, door[k].permission)

DoorsAreSound ==
    DoorsAreMade /\ DoorsAreGuarded /\ ChangesComeLast /\ FewKeepChanges /\ PagesAskWhatRolesHave
==============================================================================
