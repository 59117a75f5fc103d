---------------------------- MODULE Subscriptions ----------------------------
(***************************************************************************)
(* The subscriptions of one organization: the local trial it starts with,  *)
(* the rows Stripe's webhooks create and update                            *)
(* (applyBillingWebhookUpdate), the rows redeemed plan codes create        *)
(* (redeemPlanGrantCode), and the access the most recently updated row     *)
(* gives (resolveCommercialAccess).  Stripe delivers an event at least     *)
(* once and in no particular order.                                        *)
(***************************************************************************)
EXTENDS Integers, FiniteSets, Sequences, SequencesExt

CONSTANTS
    EventKinds,     \* what a Stripe event may say: [customer, status, plan, known]
    Codes,          \* plan grant codes
    GrantPlan,      \* the plan a code grants
    Calls           \* webhook deliveries and requests that may be in flight together

VARIABLES
    sent,           \* events Stripe has emitted; the index is the event id
    ledger,         \* ids of the BillingWebhookEvent rows, in the order they were stored
    rows,           \* Subscription rows, the most recently updated last
    codes,          \* PlanGrantCode row of each code
    trialOver,      \* trialEndsAt of the local trial has passed
    calls           \* handlers between their reads and their writes

billingVars == <<sent, ledger, rows, codes, trialOver, calls>>

NoKey == "none"

(* `provider' and `key' (Stripe customer or code) tell the rows apart; `id' *)
(* is the primary key.                                                      *)
Trial == [id |-> 1, provider |-> "none", key |-> NoKey, status |-> "TRIALING", plan |-> "TRIAL"]

IdleCall == [pc |-> "idle", event |-> 0, row |-> 0, code |-> NoKey]

Init ==
    /\ sent = <<>> /\ ledger = <<>>
    /\ rows = <<Trial>>
    /\ codes = [c \in Codes |-> [issued |-> FALSE, revoked |-> FALSE, redeemed |-> FALSE]]
    /\ trialOver = FALSE
    /\ calls = [c \in Calls |-> IdleCall]

Statuses == {"TRIALING", "ACTIVE", "PAST_DUE", "CANCELED", "INCOMPLETE"}

BillingTypes ==
    /\ sent \in Seq(EventKinds)
    /\ \A i \in DOMAIN ledger : ledger[i] \in DOMAIN sent
    /\ \A i \in DOMAIN rows : /\ rows[i].provider \in {"none", "stripe", "grant"}
                              /\ rows[i].status \in Statuses
                              /\ rows[i].id \in DOMAIN rows
    /\ codes \in [Codes -> [issued: BOOLEAN, revoked: BOOLEAN, redeemed: BOOLEAN]]
    /\ trialOver \in BOOLEAN
    /\ calls \in [Calls -> [pc: {"idle", "webhook", "redeem", "revoke"}, event: {0} \cup DOMAIN sent,
                            row: {0} \cup DOMAIN rows, code: {NoKey} \cup Codes]]

-----------------------------------------------------------------------------
(* The row getDbCommercialAccess and getDbBillingLimitContext read. *)
Current == Last(rows)

LocalTrialExpired(row) == row.provider = "none" /\ row.status = "TRIALING" /\ trialOver

FullAccess == Current.status \in {"ACTIVE", "TRIALING"} /\ ~LocalTrialExpired(Current)

BusyCalls == {c \in Calls : calls[c].pc # "idle"}

Open(c, call) ==
    /\ calls[c].pc = "idle"
    /\ calls' = [calls EXCEPT ![c] = call]
    /\ UNCHANGED <<sent, ledger, rows, codes, trialOver>>

Close(c) == calls' = [calls EXCEPT ![c] = IdleCall]

Insert(row) == rows' = Append(rows, [row EXCEPT !.id = Len(rows) + 1])

(* Updating a row makes it the most recently updated one. *)
Update(id, status, plan) ==
    LET at == CHOOSE i \in DOMAIN rows : rows[i].id = id
    IN  rows' = Append(RemoveAt(rows, at), [rows[at] EXCEPT !.status = status, !.plan = plan])

-----------------------------------------------------------------------------
StripeEmits(kind) ==
    /\ sent' = Append(sent, kind)
    /\ UNCHANGED <<ledger, rows, codes, trialOver, calls>>

(* The row of the event's customer that was updated last, 0 without one. *)
RowOf(customer) ==
    LET its == {i \in DOMAIN rows : rows[i].provider = "stripe" /\ rows[i].key = customer}
    IN  IF its = {} THEN 0 ELSE rows[Max(its)].id

WebhookRead(c, e) ==
    /\ e \in DOMAIN sent
    /\ Open(c, [IdleCall EXCEPT !.pc = "webhook", !.event = e, !.row = RowOf(sent[e].customer)])

WebhookUpserts(c) ==                            \* mutant: a replay finds its event row and goes on
    LET e == calls[c].event
        kind == sent[e]
    IN  /\ calls[c].pc = "webhook"
        /\ ledger' = IF e \in ToSet(ledger) THEN ledger ELSE Append(ledger, e)
        /\ IF kind.known /\ calls[c].row # 0 THEN Update(calls[c].row, kind.status, kind.plan)
           ELSE IF kind.known /\ kind.status # "CANCELED"
                THEN Insert([id |-> 0, provider |-> "stripe", key |-> kind.customer,
                             status |-> kind.status, plan |-> kind.plan])
                ELSE UNCHANGED rows
        /\ Close(c)
        /\ UNCHANGED <<sent, codes, trialOver>>

(* The unique index over provider and event id aborts the transaction of a *)
(* replay; an event of an unknown organization or plan, and a cancellation *)
(* with nothing to cancel, is stored and otherwise ignored.                *)
WebhookWrite(c) ==
    LET e == calls[c].event
        kind == sent[e]
    IN  /\ calls[c].pc = "webhook"
        /\ \/ /\ e \in ToSet(ledger)
              /\ UNCHANGED <<ledger, rows>>
           \/ /\ e \notin ToSet(ledger)
              /\ ledger' = Append(ledger, e)
              /\ \/ /\ ~kind.known \/ (kind.status = "CANCELED" /\ calls[c].row = 0)
                    /\ UNCHANGED rows
                 \/ /\ kind.known /\ calls[c].row # 0
                    /\ Update(calls[c].row, kind.status, kind.plan)
                 \/ /\ kind.known /\ calls[c].row = 0 /\ kind.status # "CANCELED"
                    /\ Insert([id |-> 0, provider |-> "stripe", key |-> kind.customer,
                               status |-> kind.status, plan |-> kind.plan])
        /\ Close(c)
        /\ UNCHANGED <<sent, codes, trialOver>>

IssueCode(k) ==
    /\ ~codes[k].issued
    /\ codes' = [codes EXCEPT ![k].issued = TRUE]
    /\ UNCHANGED <<sent, ledger, rows, trialOver, calls>>

RedeemRead(c, k) ==
    /\ codes[k].issued /\ ~codes[k].revoked /\ ~codes[k].redeemed
    /\ Open(c, [IdleCall EXCEPT !.pc = "redeem", !.code = k])

RedeemWrite(c) ==
    /\ calls[c].pc = "redeem"
    /\ Insert([id |-> 0, provider |-> "grant", key |-> calls[c].code,
               status |-> "ACTIVE", plan |-> GrantPlan])
    /\ codes' = [codes EXCEPT ![calls[c].code].redeemed = TRUE]
    /\ Close(c)
    /\ UNCHANGED <<sent, ledger, trialOver>>

RevokeRead(c, k) ==
    /\ codes[k].issued /\ ~codes[k].redeemed
    /\ Open(c, [IdleCall EXCEPT !.pc = "revoke", !.code = k])

RevokeWrite(c) ==
    /\ calls[c].pc = "revoke"
    /\ codes' = [codes EXCEPT ![calls[c].code].revoked = TRUE]
    /\ Close(c)
    /\ UNCHANGED <<sent, ledger, rows, trialOver>>

TrialEnds ==
    /\ ~trialOver
    /\ trialOver' = TRUE
    /\ UNCHANGED <<sent, ledger, rows, codes, calls>>

(* The server process ends before the transaction commits. *)
AbandonCall(c) ==
    /\ calls[c].pc # "idle"
    /\ Close(c)
    /\ UNCHANGED <<sent, ledger, rows, codes, trialOver>>

Next ==
    \/ \E kind \in EventKinds : StripeEmits(kind)
    \/ \E c \in Calls, e \in DOMAIN sent : WebhookRead(c, e)
    \/ \E c \in Calls, k \in Codes : RedeemRead(c, k) \/ RevokeRead(c, k)
    \/ \E c \in Calls : WebhookWrite(c) \/ RedeemWrite(c) \/ RevokeWrite(c) \/ AbandonCall(c)
    \/ \E k \in Codes : IssueCode(k)
    \/ TrialEnds

Spec == Init /\ [][Next]_billingVars
=============================================================================
