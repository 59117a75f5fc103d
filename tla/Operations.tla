----------------------------- MODULE Operations -----------------------------
(***************************************************************************)
(* What a request is made of.  A handler, a server action or a page is a   *)
(* sequence of steps, taken in order until one of them refuses: checks of  *)
(* the request itself and operations of the repository and its neighbours. *)
(* An operation begins by reading the caller's membership                  *)
(* (requireDbOrganizationAccess): it names the permission it asks for, and *)
(* its site when it compares that with the member's site scope.  What the  *)
(* operations do is in the modules of their components; here an operation  *)
(* reads or changes.                                                       *)
(***************************************************************************)
EXTENDS SequencesExt

(* What the roles of an organization's members permit (rbac.ts). *)

Permissions ==
    {"organization:read", "organization:update", "members:invite", "members:manage",
     "billing:read", "billing:manage", "site:create", "site:read", "site:update", "site:delete",
     "audit:read", "audit:run", "backlog:read", "backlog:update", "content_operation:preview",
     "content_operation:confirm", "integration:manage", "monitoring:read", "monitoring:manage"}

Viewing == {"organization:read", "site:read", "audit:read", "backlog:read", "monitoring:read"}
Writing == Viewing \cup {"backlog:update"}
Editing == Writing \cup {"content_operation:preview"}

RolePermissions ==
    [OWNER |-> Permissions,
     ADMIN |-> Permissions \ {"billing:manage"},
     SEO_MANAGER |-> Editing \cup {"site:update", "audit:run", "content_operation:confirm",
                                   "integration:manage", "monitoring:manage"},
     EDITOR |-> Editing,
     WRITER |-> Writing,
     VIEWER |-> Viewing,
     BILLING_MANAGER |-> {"organization:read", "billing:read", "billing:manage"}]

RoleNames == DOMAIN RolePermissions

HasPermission(role, permission) == permission \in RolePermissions[role]

-----------------------------------------------------------------------------

Plain(kind) ==
    [kind |-> kind, name |-> "", permission |-> "", scoped |-> FALSE, changes |-> FALSE,
     fails |-> FALSE, halfway |-> FALSE, gate |-> ""]

Origin == Plain("origin")           \* the Origin header names a host of ours
Session == Plain("session")         \* getCurrentUser finds a session
Signature == Plain("signature")     \* what was sent is signed: by the plugin, Stripe or ourselves
Admin == Plain("admin")             \* the address is on the platform's list of owners
Quota(policy) == [Plain("quota") EXCEPT !.name = policy]

Operation(name) == [Plain("operation") EXCEPT !.name = name, !.fails = TRUE]

Open(name) == Operation(name)
Own(name) == [Operation(name) EXCEPT !.changes = TRUE]
Sure(name) == [Own(name) EXCEPT !.fails = FALSE]
Read(name, permission) == [Operation(name) EXCEPT !.permission = permission]
Summary(name, permission) == [Read(name, permission) EXCEPT !.fails = FALSE]
Change(name, permission) == [Read(name, permission) EXCEPT !.changes = TRUE]
SiteRead(name, permission) == [Read(name, permission) EXCEPT !.scoped = TRUE]
SiteChange(name, permission) == [Change(name, permission) EXCEPT !.scoped = TRUE]

(* An operation that may fail after it has committed a change: it throws    *)
(* on purpose, or hands a job to the queue, which may answer with an error *)
(* also when it took the job.                                              *)
Halfway(step) == [step EXCEPT !.halfway = TRUE]

(* Whoever calls need not be signed in: who wants to be, or holds a token. *)
Visit(policy, steps) == <<Origin, Quota(policy)>> \o steps

(* A step that is only taken when what was read before calls for it. *)
Maybe(step) == [step EXCEPT !.gate = "data"]

-----------------------------------------------------------------------------

(* Organizations, members and their preferences *)
ListOrganizations        == Open("listOrganizationSummariesForUser")

GetOrganization          == Summary("getOrganizationSummary", "organization:read")
CreateOrganization       == Own("createOrganization")
ListActivity             == Read("listActivityLogsForOrganization", "organization:read")
ListMembers              == Read("listMembersForOrganization", "organization:read")
InviteMember             == Change("inviteMember", "members:invite")
ResendInvite             == Change("resendInvite", "members:invite")
CancelInvite             == Change("cancelInvite", "members:manage")
AcceptInvite             == Own("acceptInvite")
UpdateMemberRole         == Change("updateMemberRole", "members:manage")
UpdateMemberSiteScope    == Change("updateMemberSiteScope", "members:manage")
ListNotifications        == Read("listNotificationsForOrganization", "organization:read")
MarkAllNotificationsRead == Change("markAllNotificationsRead", "organization:read")
UpdateNotification       == Change("updateNotificationReadState", "organization:read")
GetDeliveryPreference    == Read("getDeliveryPreference", "organization:read")
UpdateDeliveryPreference == Change("updateDeliveryPreference", "organization:read")
GetClientReport          == Read("getClientReport", "organization:read")

(* Plans *)
GetBillingOverview       == Read("getBillingOverviewForOrganization", "billing:read")
GetCheckoutContext       == Read("getBillingCheckoutContext", "billing:manage")
GetPortalContext         == Read("getBillingPortalContext", "billing:manage")
ApplyBillingWebhook      == Own("applyBillingWebhookUpdate")
CreatePlanGrant          == Own("createPlanGrantCode")
ListPlanGrants           == Open("listPlanGrantCodes")
RevokePlanGrant          == Own("revokePlanGrantCode")
RedeemPlanGrant          == Change("redeemPlanGrantCode", "billing:manage")
ListUsers                == Open("listUsersForPlatformAdmin")

(* Sites and what was read from them *)
ListSites                == Read("listSitesForOrganization", "site:read")
CreateSite               == Change("createSite", "site:create")
ListContent              == SiteRead("listSyncedContentForSite", "site:read")
ListContentUrls          == SiteRead("listSyncedContentUrlsForSite", "site:read")
GetContent               == SiteRead("getSyncedContentItem", "site:read")
GetContentTrust          == SiteRead("getContentTrustEvidence", "site:read")
GetGscOverview           == SiteRead("getGscConnectionOverviewForSite", "site:read")
OfferGsc                 == SiteRead("buildGscConnectAction", "integration:manage")
GetGscSecret             == SiteRead("getGscConnectionSecretForSite", "integration:manage")
UpsertGscConnection      == SiteChange("upsertGscConnection", "integration:manage")
SelectGscProperty        == SiteChange("selectGscConnectionProperty", "integration:manage")
ListGscMetrics           == SiteRead("listGscDailyMetrics", "site:read")
UpsertGscMetrics         == SiteChange("upsertGscDailyMetrics", "integration:manage")
ListGscInsights          == SiteRead("listGscSearchInsights", "site:read")
ReplaceGscInsights       == SiteChange("replaceGscSearchInsights", "integration:manage")
CreateChallenge          == Change("createPluginConnectionChallenge", "integration:manage")
DisconnectPlugin         == Change("disconnectPluginConnection", "integration:manage")

(* Audits, the backlog and recommendations *)
ListRecommendations      == SiteChange("listAssistantRecommendationsForSite", "backlog:read")
ListAudits               == SiteRead("listAuditsForSite", "audit:read")
CreateAudit              == SiteChange("createAuditForSite", "audit:run")
ListAuditIssues          == SiteRead("listAuditIssuesForAudit", "audit:read")
UpdateAuditIssue         == SiteChange("updateAuditIssueStatus", "audit:run")
CreateTaskFromCandidate  == SiteChange("createBacklogTaskFromCandidate", "backlog:update")
CreateTaskFromIssue      == SiteChange("createBacklogTaskFromAuditIssue", "backlog:update")

CreateTasksFromAudit     == SiteChange("createBacklogTasksFromAudit", "backlog:update")
ListTasks                == SiteRead("listBacklogTasksForSite", "backlog:read")
UpdateTaskStatus         == SiteChange("updateBacklogTaskStatus", "backlog:update")
UpdateTaskAssignment     == SiteChange("updateBacklogTaskAssignment", "backlog:update")
UpdateTaskOutcome        == SiteChange("updateBacklogTaskOutcome", "backlog:update")
ListComments             == SiteRead("listBacklogTaskComments", "backlog:read")
ListTaskActivity         == SiteRead("listBacklogTaskActivity", "backlog:read")
CreateComment            == SiteChange("createBacklogTaskComment", "backlog:update")

(* Monitoring *)
ListMonitoredUrls        == SiteRead("listMonitoredUrlsForSite", "monitoring:read")
CreateMonitoredUrl       == SiteChange("createMonitoredUrlForSite", "monitoring:manage")
RescanMonitoredUrl       == Halfway(SiteChange("rescanMonitoredUrl", "monitoring:manage"))
UpdateMonitoredUrlStatus == SiteChange("updateMonitoredUrlStatus", "monitoring:manage")
UpdateMonitoredUrlLabel  == SiteChange("updateMonitoredUrlLabel", "monitoring:manage")
ListEvents               == SiteRead("listEventsForSite", "monitoring:read")
ListRegressions          == SiteRead("listRegressionsForSite", "monitoring:read")
UpdateRegression         == SiteChange("updateRegressionStatus", "monitoring:manage")

(* Safe operations *)
ListOperations           == SiteRead("listBulkOperationsForSite", "content_operation:preview")
PreviewOperation         == SiteChange("createBulkOperationPreview", "content_operation:preview")
DryRunOperation          == SiteChange("runBulkOperationDryRun", "content_operation:preview")
ConfirmOperation         == SiteChange("confirmBulkOperation", "content_operation:confirm")
StartOperation           == Halfway(SiteChange("startBulkOperation", "content_operation:confirm"))
FinishOperation          == SiteChange("finishBulkOperation", "content_operation:confirm")
RollbackOperation        == Halfway(SiteChange("rollbackBulkOperation", "content_operation:confirm"))
RetryOperation           == Halfway(SiteChange("retryBulkOperation", "content_operation:confirm"))
RequestApproval          == SiteChange("requestOperationApproval", "content_operation:confirm")
RespondToApproval        == Halfway(Own("respondToOperationApproval"))
GetApproval              == Open("getPublicOperationApproval")

(* Accounts *)
Register                 == Own("registerWithPassword")
SendVerification         == Sure("createEmailVerificationRequestForUser")
VerifyEmail              == Own("verifyEmailToken")
Login                    == Own("loginWithPassword")
Logout                   == Own("logoutCurrentSession")
RequestReset             == Own("createPasswordResetRequest")
ResetPassword            == Own("resetPasswordWithToken")
StartTwoFactor           == Own("startTwoFactorEnrollment")
ConfirmTwoFactor         == Own("confirmTwoFactorEnrollment")
DisableTwoFactor         == Own("disableTwoFactorForUser")
GetTwoFactor             == Open("getTwoFactorStatusForUser")

(* The plugin's side *)
Exchange                 == Own("exchangePluginConnectionChallenge")
Disconnect               == Own("disconnectAuthenticatedPluginConnection")
AcceptSync               == Own("acceptPluginSyncBatch")
AcceptEvents             == Own("acceptPluginSystemEventBatch")
GetMonitoring            == Open("getPluginMonitoringSummary")
=============================================================================
