-------------------------------- MODULE Pages --------------------------------
(***************************************************************************)
(* The pages that read for a user.  The pages of the workspace are views   *)
(* of one function: it lists the user's organizations, takes the role in   *)
(* the first of them and a site the user may see, and then makes only the  *)
(* reads that role permits, as each of them would otherwise throw and lose *)
(* the page.                                                               *)
(***************************************************************************)
EXTENDS Operations

(* A read that is gated by a permission of the role found before. *)
Shown(permission, read) == [read EXCEPT !.gate = permission]

OpenWorkspace ==
    <<Session, GetTwoFactor, ListOrganizations, Shown("organization", ListMembers)>>

ShowSearchConsole ==
    <<Shown("billing:read", GetBillingOverview), Shown("site:read", GetGscOverview),
      Shown("site:read", ListGscMetrics), Shown("site:read", ListGscInsights),
      Shown("site:read", ListGscInsights), Shown("site:read", ListGscInsights),
      Shown("site:read", ListContentUrls)>>

ShowWork ==
    <<Shown("site:read", ListContent), Shown("backlog:read", ListTasks),
      Shown("content_operation:preview", ListOperations), Shown("audit:read", ListAudits),
      Shown("audit:read", ListAuditIssues), Shown("audit:read", ListAuditIssues)>>

ShowMonitoring ==
    <<Shown("monitoring:read", ListMonitoredUrls), Shown("monitoring:read", ListEvents),
      Shown("monitoring:read", ListRegressions), Shown("monitoring:read", ListRegressions)>>

ShowContent == <<Shown("site:read", GetContent), Shown("site:read", GetContentTrust)>>

ShowNews ==
    <<Shown("organization", ListNotifications), Shown("organization", ListNotifications),
      Shown("organization", GetDeliveryPreference), Shown("backlog:read", ListRecommendations)>>

WorkspacePage ==
    OpenWorkspace \o ShowSearchConsole \o ShowWork \o ShowMonitoring \o ShowContent \o ShowNews

GrantsPage  == <<Session, Admin, ListPlanGrants>>
UsersPage   == <<Session, Admin, ListUsers>>
ApprovePage == <<GetApproval>>
VerifyPage  == <<VerifyEmail>>

PageDoors == <<WorkspacePage, GrantsPage, UsersPage, ApprovePage, VerifyPage>>
=============================================================================
