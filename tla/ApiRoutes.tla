------------------------------ MODULE ApiRoutes ------------------------------
(***************************************************************************)
(* The HTTP API: for each route file the ways its handlers take, one       *)
(* sequence of steps for each operation a handler may choose.  Reading the *)
(* body and the answers are left out; a body that does not parse is an     *)
(* operation that fails.                                                   *)
(***************************************************************************)
EXTENDS Operations

Browse(steps) == <<Session>> \o steps                               \* GET handlers
Submit(steps) == <<Origin, Session>> \o steps                       \* POST, PATCH and PUT handlers
Meter(policy, steps) == <<Origin, Session, Quota(policy)>> \o steps
Count(policy, steps) == <<Quota(policy)>> \o steps
Sign(policy, steps) == <<Quota(policy), Signature>> \o steps
Return(steps) == <<Signature, Session>> \o steps                    \* back from Google

HealthRoute            == <<<<>>>>

(* Accounts; whoever calls need not be signed in *)
RegisterRoute          == <<Visit("auth-register", <<Register, SendVerification>>)>>
LoginRoute             == <<Visit("auth-login", <<Login>>)>>
LogoutRoute            == <<<<Origin, Logout>>>>
ResetRequestRoute      == <<Visit("auth-password-reset", <<RequestReset>>)>>
ResetConfirmRoute      == <<Visit("auth-password-reset", <<ResetPassword>>)>>

(* The plugin and the payment provider, who sign what they send *)
ExchangeRoute          == <<Count("plugin-exchange", <<Exchange>>)>>
DisconnectRoute        == <<Sign("plugin-disconnect", <<Disconnect>>)>>
SyncRoute              == <<Sign("plugin-sync", <<AcceptSync>>)>>
SystemEventsRoute      == <<Sign("plugin-system-events", <<AcceptEvents>>)>>
MonitoringSummaryRoute == <<Sign("plugin-monitoring-read", <<GetMonitoring>>)>>
StripeRoute            == <<Sign("billing-webhook", <<ApplyBillingWebhook>>)>>
ChallengesRoute        == <<Meter("plugin-challenge", <<CreateChallenge>>)>>

(* Organizations and members *)
OrganizationsRoute     == <<Browse(<<ListOrganizations>>), Submit(<<CreateOrganization>>)>>
OrganizationRoute      == <<Browse(<<GetOrganization>>)>>
ActivityRoute          == <<Browse(<<ListActivity>>)>>
MembersRoute ==
    <<Browse(<<ListMembers>>),
      Meter("invite-send", <<InviteMember, GetOrganization>>)>>
MemberRoute            == <<Submit(<<UpdateMemberRole>>)>>
ResendRoute            == <<Meter("invite-send", <<ResendInvite, GetOrganization>>)>>
CancelRoute            == <<Submit(<<CancelInvite>>)>>
AcceptRoute            == <<Meter("invite-accept", <<AcceptInvite>>)>>
NotificationsRoute     == <<Browse(<<ListNotifications>>), Submit(<<MarkAllNotificationsRead>>)>>
NotificationRoute      == <<Submit(<<UpdateNotification>>)>>
PreferencesRoute       == <<Browse(<<GetDeliveryPreference>>), Submit(<<UpdateDeliveryPreference>>)>>
ClientReportRoute      == <<Browse(<<GetClientReport>>)>>
BillingRoute           == <<Browse(<<GetBillingOverview>>)>>
CheckoutRoute          == <<Submit(<<GetCheckoutContext>>)>>
PortalRoute            == <<Submit(<<GetPortalContext>>)>>

(* Sites, their content and Search Console *)
SitesRoute             == <<Browse(<<ListSites>>), Submit(<<CreateSite>>)>>
ContentRoute           == <<Browse(<<ListContent>>)>>
ContentItemRoute       == <<Browse(<<GetContent, GetContentTrust>>)>>
GscRoute               == <<Browse(<<GetGscOverview>>)>>
GscStartRoute          == <<Browse(<<OfferGsc>>)>>
GscCallbackRoute       == <<Return(<<UpsertGscConnection>>)>>
GscPropertiesRoute     == <<Browse(<<GetGscSecret>>), Submit(<<GetGscSecret, SelectGscProperty>>)>>
GscMetricsRoute        == <<Browse(<<ListGscMetrics>>), Submit(<<GetGscSecret, UpsertGscMetrics>>)>>
GscInsightsRoute       == <<Browse(<<ListGscInsights>>), Submit(<<GetGscSecret, ReplaceGscInsights>>)>>
GscOpportunitiesRoute  == <<Browse(<<ListGscInsights, Maybe(ListContentUrls)>>)>>
GscTrafficLossRoute ==
    <<Browse(<<ListGscMetrics, ListGscInsights, Maybe(ListGscInsights), Maybe(ListContentUrls)>>)>>

(* Audits and the backlog *)
RecommendationsRoute   == <<Browse(<<ListRecommendations>>)>>
AuditsRoute            == <<Browse(<<ListAudits>>), Submit(<<CreateAudit>>)>>
AuditIssuesRoute       == <<Browse(<<ListAuditIssues>>)>>
AuditExportRoute       == <<Browse(<<ListAuditIssues>>)>>
AuditIssueRoute        == <<Submit(<<UpdateAuditIssue>>)>>
TasksRoute ==
    <<Browse(<<ListTasks>>),
      Submit(<<CreateTasksFromAudit>>),
      Submit(<<CreateTaskFromIssue>>),
      Submit(<<CreateTaskFromCandidate>>)>>
TasksExportRoute       == <<Browse(<<ListTasks>>)>>
TaskRoute ==
    <<Submit(<<UpdateTaskOutcome>>),
      Submit(<<UpdateTaskAssignment>>),
      Submit(<<UpdateTaskStatus>>)>>
TaskActivityRoute      == <<Browse(<<ListTaskActivity>>)>>
TaskCommentsRoute      == <<Browse(<<ListComments>>), Submit(<<CreateComment>>)>>

(* Monitoring *)
MonitoredUrlsRoute ==
    <<Browse(<<ListMonitoredUrls>>),
      Meter("monitoring-crawl", <<CreateMonitoredUrl>>)>>
MonitoredUrlRoute      == <<Submit(<<UpdateMonitoredUrlStatus>>)>>
RescanRoute            == <<Meter("monitoring-crawl", <<RescanMonitoredUrl>>)>>
EventsRoute            == <<Browse(<<ListEvents>>)>>
RegressionsRoute       == <<Browse(<<ListRegressions>>)>>
RegressionRoute        == <<Submit(<<UpdateRegression>>)>>

(* Safe operations *)
OperationsRoute        == <<Browse(<<ListOperations>>), Meter("bulk-operation", <<PreviewOperation>>)>>
DryRunRoute            == <<Meter("bulk-operation", <<DryRunOperation>>)>>
ConfirmRoute           == <<Meter("bulk-operation", <<ConfirmOperation>>)>>
StartRoute             == <<Meter("bulk-operation", <<StartOperation>>)>>
ResultRoute            == <<Meter("bulk-operation", <<FinishOperation>>)>>
RollbackRoute          == <<Meter("bulk-operation", <<RollbackOperation>>)>>
RetryRoute             == <<Meter("bulk-operation", <<RetryOperation>>)>>

ApiDoors ==
    FlattenSeq(<<HealthRoute, RegisterRoute, LoginRoute, LogoutRoute, ResetRequestRoute,
                 ResetConfirmRoute, ExchangeRoute, DisconnectRoute, SyncRoute,
                 SystemEventsRoute, MonitoringSummaryRoute, StripeRoute, ChallengesRoute,
                 OrganizationsRoute, OrganizationRoute, ActivityRoute, MembersRoute,
                 MemberRoute, ResendRoute, CancelRoute, AcceptRoute, NotificationsRoute,
                 NotificationRoute, PreferencesRoute, ClientReportRoute, BillingRoute,
                 CheckoutRoute, PortalRoute, SitesRoute, ContentRoute, ContentItemRoute,
                 GscRoute, GscStartRoute, GscCallbackRoute, GscPropertiesRoute,
                 GscMetricsRoute, GscInsightsRoute, GscOpportunitiesRoute,
                 GscTrafficLossRoute, RecommendationsRoute, AuditsRoute, AuditIssuesRoute,
                 AuditExportRoute, AuditIssueRoute, TasksRoute, TasksExportRoute,
                 TaskRoute, TaskActivityRoute, TaskCommentsRoute, MonitoredUrlsRoute,
                 MonitoredUrlRoute, RescanRoute, EventsRoute, RegressionsRoute,
                 RegressionRoute, OperationsRoute, DryRunRoute, ConfirmRoute, StartRoute,
                 ResultRoute, RollbackRoute, RetryRoute>>)
=============================================================================
