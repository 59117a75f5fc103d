--------------------------- MODULE PluginConnection ---------------------------
(***************************************************************************)
(* How a WordPress plugin is connected to its site's row in the SaaS, and  *)
(* disconnected again: plugin-connection.ts on the SaaS side, Plugin.php,  *)
(* ApiClient.php and ConnectionStore.php on the other.  A member issues a  *)
(* challenge; the plugin exchanges it for a token, which replaces the one  *)
(* before; either side may disconnect.  Each handler reads first and       *)
(* writes in a later transaction, and the plugin acts on the answer only   *)
(* if it arrives.  Tokens are numbered in the order they are made; what    *)
(* hashing and signing add is that nobody has a token it was not given.    *)
(***************************************************************************)
EXTENDS Integers, Sequences, SequencesExt

CONSTANTS
    Challenges,
    NoChallenge,
    Calls           \* requests that may be in flight together

VARIABLES
    challenge,      \* row of each challenge: usedAt and expiresAt
    connection,     \* WordPressConnection row: newest token (0: no row), and not disconnected
    siteStatus,     \* Site.status
    stored,         \* the plugin's sccc_connection option: its token, 0 when there is none
    scheduled,      \* whether the plugin's recurring sync is scheduled
    calls,          \* requests between their steps
    minted,         \* history: the challenge each token was made for
    before,         \* history: challenges issued before the last disconnection
    drifted         \* history: SaaS has changed the connection since the plugin was last told

saasVars == <<challenge, connection, siteStatus, minted, before>>
wpVars == <<stored, scheduled>>
connectionVars == <<saasVars, wpVars, calls, drifted>>

ChallengeStates == {"none", "open", "expired", "used"}
SiteStatuses == {"PENDING_CONNECTION", "CONNECTED", "DISCONNECTED"}

Call == [pc: {"idle", "exchange", "answer", "authenticated", "site", "disconnect", "told"},
         by: {"user", "plugin"},
         challenge: Challenges \cup {NoChallenge},
         token: Nat,
         live: BOOLEAN,                 \* the connection as it was read
         status: SiteStatuses]          \* the site as it was read

Idle == [pc |-> "idle", by |-> "user", challenge |-> NoChallenge, token |-> 0, live |-> FALSE,
         status |-> "PENDING_CONNECTION"]

ConnectionTypes ==
    /\ challenge \in [Challenges -> ChallengeStates]
    /\ minted \in Seq(Challenges)
    /\ connection \in [token: 0..Len(minted), live: BOOLEAN]
    /\ siteStatus \in SiteStatuses
    /\ stored \in 0..Len(minted) /\ scheduled \in BOOLEAN
    /\ calls \in [Calls -> Call]
    /\ before \in SUBSET Challenges
    /\ drifted \in BOOLEAN

Init ==
    /\ challenge = [c \in Challenges |-> "none"]
    /\ connection = [token |-> 0, live |-> FALSE]
    /\ siteStatus = "PENDING_CONNECTION"
    /\ stored = 0 /\ scheduled = FALSE
    /\ calls = [r \in Calls |-> Idle]
    /\ minted = <<>> /\ before = {} /\ drifted = FALSE

BusyConnecting == {r \in Calls : calls[r].pc # "idle"}

(* A signed request that carries `token' is let through. *)
Authenticates(token) == connection.live /\ connection.token = token

Finish(r) == calls' = [calls EXCEPT ![r] = Idle]

-----------------------------------------------------------------------------
(* Challenges *)

IssueChallenge(c) ==
    /\ challenge[c] = "none"
    /\ challenge' = [challenge EXCEPT ![c] = "open"]
    /\ UNCHANGED <<connection, siteStatus, minted, before, wpVars, calls, drifted>>

(* Ten minutes have passed. *)
ChallengeExpires(c) ==
    /\ challenge[c] = "open"
    /\ challenge' = [challenge EXCEPT ![c] = "expired"]
    /\ UNCHANGED <<connection, siteStatus, minted, before, wpVars, calls, drifted>>

(* The plugin has posted the challenge; one that is not open is refused. *)
ExchangeRead(r, c) ==
    /\ calls[r].pc = "idle" /\ challenge[c] = "open"
    /\ calls' = [calls EXCEPT ![r] = [Idle EXCEPT !.pc = "exchange", !.by = "plugin", !.challenge = c]]
    /\ UNCHANGED <<saasVars, wpVars, drifted>>

(* The transaction looks at neither the challenge nor the connection again. *)
ExchangeWrite(r) ==
    LET token == Len(minted) + 1
    IN  /\ calls[r].pc = "exchange"
        /\ challenge' = [challenge EXCEPT ![calls[r].challenge] = "used"]
        /\ connection' = [token |-> token, live |-> TRUE]
        /\ siteStatus' = "CONNECTED"
        /\ minted' = Append(minted, calls[r].challenge)
        /\ calls' = [calls EXCEPT ![r].pc = "answer", ![r].token = token]
        /\ drifted' = TRUE
        /\ UNCHANGED <<before, wpVars>>

(* The answer arrives: the plugin stores the token and schedules its sync. *)
ExchangeSaved(r) ==
    /\ calls[r].pc = "answer"
    /\ stored' = calls[r].token
    /\ scheduled' = TRUE
    /\ drifted' = FALSE
    /\ Finish(r)
    /\ UNCHANGED saasVars

-----------------------------------------------------------------------------
(* Disconnecting *)

(* The administrator disconnects in WordPress; the signed request is let through. *)
PluginAsks(r) ==
    /\ calls[r].pc = "idle" /\ stored # 0 /\ Authenticates(stored)
    /\ calls' = [calls EXCEPT ![r] = [Idle EXCEPT !.pc = "authenticated", !.by = "plugin"]]
    /\ UNCHANGED <<saasVars, wpVars, drifted>>

(* markPluginConnectionDisconnected, for the plugin or for a member, looks *)
(* up the site and includes its connection: the site's row first,          *)
SiteRead(r) ==
    /\ calls[r].pc \in {"idle", "authenticated"}
    /\ calls' = [calls EXCEPT ![r].pc = "site", ![r].status = siteStatus]
    /\ UNCHANGED <<saasVars, wpVars, drifted>>

(* then the connection's; a site that has none is refused. *)
ConnectionRead(r) ==
    /\ calls[r].pc = "site"
    /\ calls' = [calls EXCEPT ![r] = IF connection.token = 0
                                       THEN Idle
                                       ELSE [@ EXCEPT !.pc = "disconnect", !.live = connection.live]]
    /\ UNCHANGED <<saasVars, wpVars, drifted>>

DisconnectKeepsStatus(r) ==                     \* mutant: the site's status is left as it is
    /\ calls[r].pc = "disconnect"
    /\ IF calls[r].live
         THEN /\ connection' = [connection EXCEPT !.live = FALSE]
              /\ challenge' = [c \in Challenges |-> IF challenge[c] = "none" THEN "none" ELSE "used"]
              /\ before' = {c \in Challenges : challenge[c] # "none"}
              /\ drifted' = TRUE
         ELSE UNCHANGED <<connection, challenge, before, drifted>>
    /\ calls' = [calls EXCEPT ![r] = IF @.by = "plugin" THEN [Idle EXCEPT !.pc = "told", !.by = "plugin"] ELSE Idle]
    /\ UNCHANGED <<siteStatus, minted, wpVars>>

DisconnectSparesChallenges(r) ==                \* mutant: open challenges still connect
    /\ calls[r].pc = "disconnect"
    /\ IF calls[r].live
         THEN /\ connection' = [connection EXCEPT !.live = FALSE]
              /\ siteStatus' = "DISCONNECTED"
              /\ before' = {c \in Challenges : challenge[c] # "none"}
              /\ drifted' = TRUE
         ELSE /\ siteStatus' = IF calls[r].status # "DISCONNECTED" THEN "DISCONNECTED" ELSE siteStatus
              /\ UNCHANGED <<connection, before, drifted>>
    /\ calls' = [calls EXCEPT ![r] = IF @.by = "plugin" THEN [Idle EXCEPT !.pc = "told", !.by = "plugin"] ELSE Idle]
    /\ UNCHANGED <<challenge, minted, wpVars>>

(* What was read decides: when the connection was found disconnected, only *)
(* the status of the site is written, whatever has been connected since.   *)
(* Every challenge that has not been used is marked used, the expired ones *)
(* too.                                                                    *)
DisconnectWrite(r) ==
    /\ calls[r].pc = "disconnect"
    /\ IF calls[r].live
         THEN /\ connection' = [connection EXCEPT !.live = FALSE]
              /\ challenge' = [c \in Challenges |-> IF challenge[c] = "none" THEN "none" ELSE "used"]
              /\ siteStatus' = "DISCONNECTED"
              /\ before' = {c \in Challenges : challenge[c] # "none"}
              /\ drifted' = TRUE
         ELSE /\ siteStatus' = IF calls[r].status # "DISCONNECTED" THEN "DISCONNECTED" ELSE siteStatus
              /\ UNCHANGED <<connection, challenge, before, drifted>>
    /\ calls' = [calls EXCEPT ![r] = IF @.by = "plugin" THEN [Idle EXCEPT !.pc = "told", !.by = "plugin"] ELSE Idle]
    /\ UNCHANGED <<minted, wpVars>>

(* The answer arrives: the plugin forgets the connection it has by now. *)
PluginForgets(r) ==
    /\ calls[r].pc = "told"
    /\ stored' = 0 /\ scheduled' = FALSE
    /\ drifted' = FALSE
    /\ Finish(r)
    /\ UNCHANGED saasVars

-----------------------------------------------------------------------------

(* A request or its answer is lost, or the server stops: the plugin keeps what it has. *)
CallLost(r) ==
    /\ calls[r].pc # "idle"
    /\ Finish(r)
    /\ UNCHANGED <<saasVars, wpVars, drifted>>

(* Any page of the site: the recurring sync is scheduled while there is a  *)
(* connection and canceled while there is none.                            *)
EnsureSchedule ==
    /\ scheduled # (stored # 0)
    /\ scheduled' = (stored # 0)
    /\ UNCHANGED <<saasVars, stored, calls, drifted>>

Next ==
    \/ \E c \in Challenges : IssueChallenge(c) \/ ChallengeExpires(c)
    \/ \E r \in Calls, c \in Challenges : ExchangeRead(r, c)
    \/ \E r \in Calls : \/ ExchangeWrite(r) \/ ExchangeSaved(r)
                        \/ PluginAsks(r) \/ SiteRead(r) \/ ConnectionRead(r) \/ DisconnectWrite(r)
                        \/ PluginForgets(r)
                        \/ CallLost(r)
    \/ EnsureSchedule

Spec == Init /\ [][Next]_connectionVars
=============================================================================
