---------------------------- MODULE ServerActions ----------------------------
(***************************************************************************)
(* The server actions behind the forms of the dashboard, in the groups     *)
(* they are written in.  They look for the session before they look at the *)
(* origin.                                                                 *)
(***************************************************************************)
EXTENDS Operations

Act(steps) == <<Session, Origin>> \o steps
ActMeter(policy, steps) == <<Session, Origin, Quota(policy)>> \o steps

OrganizationActions == <<Act(<<CreateOrganization>>), Act(<<CreateSite>>)>>
ConnectionActions   == <<Act(<<DisconnectPlugin>>), ActMeter("plugin-challenge", <<CreateChallenge>>)>>
BillingActions      == <<Act(<<GetCheckoutContext>>), Act(<<GetPortalContext>>)>>
GscActions ==
    <<Act(<<GetGscSecret, UpsertGscMetrics>>),
      Act(<<GetGscSecret, ReplaceGscInsights>>)>>
InviteActions ==
    <<ActMeter("invite-send", <<InviteMember, GetOrganization>>),
      ActMeter("invite-send", <<ResendInvite, GetOrganization>>),
      Act(<<CancelInvite>>)>>
PlanGrantActions ==
    <<<<Session, Admin, Origin, Quota("plan-grant-create"), CreatePlanGrant>>,
      <<Session, Admin, Origin, RevokePlanGrant>>>>
RedeemAction        == <<ActMeter("plan-grant-redeem", <<RedeemPlanGrant>>)>>
MemberActions ==
    <<ActMeter("invite-accept", <<AcceptInvite>>),
      Act(<<UpdateMemberRole>>),
      Act(<<UpdateMemberSiteScope>>)>>
AuditAction         == <<Act(<<CreateAudit>>)>>
MonitoringActions ==
    <<ActMeter("monitoring-crawl", <<CreateMonitoredUrl>>),
      ActMeter("monitoring-crawl", <<RescanMonitoredUrl>>),
      Act(<<UpdateMonitoredUrlStatus>>),
      Act(<<UpdateMonitoredUrlLabel>>),
      Act(<<UpdateRegression>>)>>
BacklogActions ==
    <<Act(<<UpdateAuditIssue>>),
      Act(<<CreateTaskFromIssue>>),
      Act(<<CreateTasksFromAudit>>),
      Act(<<CreateTaskFromCandidate>>),
      Act(<<UpdateTaskStatus>>),
      Act(<<UpdateTaskAssignment>>),
      Act(<<CreateComment>>)>>
PreviewAction       == <<ActMeter("bulk-operation", <<PreviewOperation>>)>>
OutcomeAction       == <<Act(<<UpdateTaskOutcome>>)>>
ExecutionActions ==
    <<ActMeter("bulk-operation", <<DryRunOperation>>),
      ActMeter("bulk-operation", <<ConfirmOperation>>),
      ActMeter("bulk-operation", <<StartOperation>>)>>
ApprovalActions ==
    <<ActMeter("operation-approval-request", <<RequestApproval>>),
      Visit("operation-approval-respond", <<RespondToApproval>>)>>
ResultActions ==
    <<ActMeter("bulk-operation", <<FinishOperation>>),
      ActMeter("bulk-operation", <<RollbackOperation>>),
      ActMeter("bulk-operation", <<RetryOperation>>)>>
PreferenceActions ==
    <<Act(<<UpdateNotification>>),
      Act(<<MarkAllNotificationsRead>>),
      Act(<<UpdateDeliveryPreference>>)>>
SignInActions ==
    <<Visit("auth-register", <<Register, SendVerification>>),
      Visit("auth-login", <<Login>>)>>
TwoFactorActions ==
    <<ActMeter("auth-2fa", <<StartTwoFactor>>),
      ActMeter("auth-2fa", <<ConfirmTwoFactor>>),
      ActMeter("auth-2fa", <<DisableTwoFactor>>)>>
ResetActions ==
    <<Visit("auth-password-reset", <<RequestReset>>),
      Visit("auth-password-reset", <<ResetPassword>>)>>
LogoutAction        == <<<<Origin, Logout>>>>

ActionDoors ==
    FlattenSeq(<<OrganizationActions, ConnectionActions, BillingActions, GscActions,
                 InviteActions, PlanGrantActions, RedeemAction, MemberActions, AuditAction,
                 MonitoringActions, BacklogActions, PreviewAction, OutcomeAction,
                 ExecutionActions, ApprovalActions, ResultActions, PreferenceActions,
                 SignInActions, TwoFactorActions, ResetActions, LogoutAction>>)
=============================================================================
