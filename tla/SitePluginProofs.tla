--------------------------- MODULE SitePluginProofs ---------------------------
(***************************************************************************)
(* What holds of a site and its plugin for every number of challenges,     *)
(* requests, posts, runs, audits and updates: the types of their state;    *)
(* that the status of the site follows its connection, and both sides      *)
(* agree on it; what overlapping syncs may still write; what the plugin    *)
(* tells; and how the copy of the content advances.                        *)
(***************************************************************************)
EXTENDS SitePlugin, FiniteSetTheorems, FunctionTheorems, SequenceTheorems, WellFoundedInduction, TLAPS

-----------------------------------------------------------------------------
(* The connection *)

(* A request that is about to disconnect has found a connection. *)
ReadsRight ==
    \A r \in Calls :
        /\ calls[r].token <= Len(minted)
        /\ calls[r].pc = "exchange" => calls[r].challenge \in Challenges
        /\ calls[r].pc = "disconnect" => minted # <<>>

ConnectionInv == P!ConnectionTypes /\ NeverOverstated /\ ReadsRight

LEMMA CallTypes ==
    /\ P!Idle \in P!Call
    /\ \A call \in P!Call :
          /\ call.pc \in {"idle", "exchange", "answer", "authenticated", "site", "disconnect", "told"}
          /\ call.by \in {"user", "plugin"} /\ call.challenge \in Challenges \cup {NoChallenge}
          /\ call.token \in Nat /\ call.live \in BOOLEAN /\ call.status \in P!SiteStatuses
BY DEF P!Idle, P!Call, P!SiteStatuses

Becomes(r, call) == calls' = [calls EXCEPT ![r] = call]

LEMMA CallMoves ==
    ASSUME NEW r \in Calls, NEW call \in P!Call, calls \in [Calls -> P!Call], Becomes(r, call)
    PROVE  /\ calls' \in [Calls -> P!Call]
           /\ \A q \in Calls : calls'[q] = IF q = r THEN call ELSE calls[q]
BY DEF Becomes

LEMMA ConnectionStep ==
    ASSUME ConnectionInv, P!Next
    PROVE  ConnectionInv'
<1>0. /\ challenge \in [Challenges -> P!ChallengeStates] /\ minted \in Seq(Challenges)
      /\ connection \in [token: 0..Len(minted), live: BOOLEAN]
      /\ siteStatus \in P!SiteStatuses /\ stored \in 0..Len(minted) /\ scheduled \in BOOLEAN
      /\ calls \in [Calls -> P!Call] /\ before \in SUBSET Challenges /\ drifted \in BOOLEAN
      /\ Len(minted) \in Nat /\ (minted = <<>> <=> Len(minted) = 0)
      /\ P!Idle \in P!Call /\ P!Idle.pc = "idle" /\ P!Idle.token = 0
      /\ NeverOverstated /\ ReadsRight
    BY CallTypes DEF ConnectionInv, P!ConnectionTypes, P!Idle
<1>f. \A r \in Calls : P!Finish(r) => Becomes(r, P!Idle)
    BY DEF P!Finish, Becomes
<1> USE DEF ConnectionInv, P!ConnectionTypes
<1>1. ASSUME NEW c \in Challenges, P!IssueChallenge(c) \/ P!ChallengeExpires(c) PROVE ConnectionInv'
    BY <1>0, <1>1 DEF P!IssueChallenge, P!ChallengeExpires, P!wpVars, P!ChallengeStates,
       NeverOverstated, ReadsRight
(* A step that only moves its own request. *)
<1>2. ASSUME NEW r \in Calls, NEW call \in P!Call, Becomes(r, call),
             UNCHANGED <<challenge, connection, siteStatus, minted, before>>,
             stored' \in 0..Len(minted), scheduled' \in BOOLEAN, drifted' \in BOOLEAN,
             call.token <= Len(minted), call.pc = "exchange" => call.challenge \in Challenges,
             call.pc = "disconnect" => minted # <<>>
      PROVE  ConnectionInv'
    <2>1. /\ calls' \in [Calls -> P!Call]
          /\ \A q \in Calls : calls'[q] = IF q = r THEN call ELSE calls[q]
        BY <1>0, <1>2, CallMoves
    <2> QED BY <1>0, <1>2, <2>1 DEF NeverOverstated, ReadsRight
<1>3. ASSUME NEW r \in Calls, NEW c \in Challenges, P!ExchangeRead(r, c) PROVE ConnectionInv'
    <2> DEFINE call == [P!Idle EXCEPT !.pc = "exchange", !.by = "plugin", !.challenge = c]
    <2>1. call \in P!Call /\ call.pc = "exchange" /\ call.challenge = c /\ call.token = 0
        BY <1>0 DEF P!Call
    <2>2. Becomes(r, call)
        BY <1>3 DEF P!ExchangeRead, Becomes
    <2> HIDE DEF call
    <2> QED BY <1>0, <1>2, <1>3, <2>1, <2>2 DEF P!ExchangeRead, P!saasVars, P!wpVars
<1>4. ASSUME NEW r \in Calls, P!ExchangeWrite(r) PROVE ConnectionInv'
    <2> DEFINE call == [calls[r] EXCEPT !.pc = "answer", !.token = Len(minted) + 1]
    <2>1. /\ calls[r] \in P!Call /\ calls[r].challenge \in Challenges \cup {NoChallenge}
          /\ Len(minted) + 1 \in Nat
        BY <1>0, CallTypes
    <2>2. call \in P!Call /\ call.pc = "answer" /\ call.token = Len(minted) + 1
        BY <1>0, <2>1 DEF P!Call
    <2>3. Becomes(r, call)
        BY <1>4 DEF P!ExchangeWrite, Becomes
    <2> HIDE DEF call
    <2>4. /\ calls' \in [Calls -> P!Call]
          /\ \A q \in Calls : calls'[q] = IF q = r THEN call ELSE calls[q]
        BY <1>0, <2>2, <2>3, CallMoves
    <2>5. calls[r].challenge \in Challenges
        BY <1>0, <1>4 DEF P!ExchangeWrite, ReadsRight
    <2>6. minted' \in Seq(Challenges) /\ Len(minted') = Len(minted) + 1 /\ minted' # <<>>
        BY <1>0, <1>4, <2>5 DEF P!ExchangeWrite
    <2>7. /\ connection' = [token |-> Len(minted) + 1, live |-> TRUE] /\ siteStatus' = "CONNECTED"
          /\ challenge' \in [Challenges -> P!ChallengeStates] /\ drifted' = TRUE
          /\ UNCHANGED <<before, stored, scheduled>>
        BY <1>0, <1>4, <2>5 DEF P!ExchangeWrite, P!wpVars, P!ChallengeStates
    <2>8. P!ConnectionTypes'
        BY <1>0, <2>4, <2>6, <2>7 DEF P!SiteStatuses
    <2>9. \A q \in Calls : calls'[q].token <= Len(minted')
        <3>1. \A q \in Calls : calls[q].token \in Nat /\ calls[q].token <= Len(minted)
            BY <1>0, CallTypes DEF ReadsRight
        <3> QED BY <1>0, <2>2, <2>4, <2>6, <3>1
    <2>10. NeverOverstated' /\ ReadsRight'
        BY <1>0, <2>2, <2>4, <2>6, <2>7, <2>9 DEF NeverOverstated, ReadsRight
    <2> QED BY <2>8, <2>10
<1>5. ASSUME NEW r \in Calls, P!ExchangeSaved(r) \/ P!PluginForgets(r) \/ P!CallLost(r) PROVE ConnectionInv'
    <2>1. Becomes(r, P!Idle) /\ UNCHANGED <<challenge, connection, siteStatus, minted, before>>
        BY <1>f, <1>5 DEF P!ExchangeSaved, P!PluginForgets, P!CallLost, P!saasVars
    <2>2. calls[r].token \in 0..Len(minted)
        BY <1>0, CallTypes DEF ReadsRight
    <2>3. stored' \in {stored, 0, calls[r].token} /\ scheduled' \in BOOLEAN /\ drifted' \in BOOLEAN
        BY <1>0, <1>5 DEF P!ExchangeSaved, P!PluginForgets, P!CallLost, P!wpVars
    <2>4. stored' \in 0..Len(minted)
        BY <1>0, <2>2, <2>3
    <2> QED BY <1>0, <1>2, <2>1, <2>3, <2>4
<1>6. ASSUME NEW r \in Calls, P!PluginAsks(r) PROVE ConnectionInv'
    <2> DEFINE call == [P!Idle EXCEPT !.pc = "authenticated", !.by = "plugin"]
    <2>1. call \in P!Call /\ call.pc = "authenticated" /\ call.token = 0
        BY <1>0 DEF P!Call
    <2>2. Becomes(r, call)
        BY <1>6 DEF P!PluginAsks, Becomes
    <2> HIDE DEF call
    <2> QED BY <1>0, <1>2, <1>6, <2>1, <2>2 DEF P!PluginAsks, P!saasVars, P!wpVars
<1>7. ASSUME NEW r \in Calls, P!SiteRead(r) PROVE ConnectionInv'
    <2> DEFINE call == [calls[r] EXCEPT !.pc = "site", !.status = siteStatus]
    <2>1. calls[r] \in P!Call /\ calls[r].token <= Len(minted)
        BY <1>0 DEF ReadsRight
    <2>2. call \in P!Call /\ call.pc = "site" /\ call.token = calls[r].token
        BY <1>0, <2>1 DEF P!Call
    <2>3. Becomes(r, call)
        BY <1>7 DEF P!SiteRead, Becomes
    <2> HIDE DEF call
    <2> QED BY <1>0, <1>2, <1>7, <2>1, <2>2, <2>3 DEF P!SiteRead, P!saasVars, P!wpVars
<1>8. ASSUME NEW r \in Calls, P!ConnectionRead(r) PROVE ConnectionInv'
    <2> DEFINE found == [calls[r] EXCEPT !.pc = "disconnect", !.live = connection.live]
               call == IF connection.token = 0 THEN P!Idle ELSE found
    <2>1. calls[r] \in P!Call /\ connection.live \in BOOLEAN /\ calls[r].token <= Len(minted)
        BY <1>0 DEF ReadsRight
    <2>2. found \in P!Call /\ found.pc = "disconnect" /\ found.token = calls[r].token
        BY <2>1 DEF P!Call
    <2>3. connection.token # 0 => minted # <<>>
        BY <1>0
    <2>4. Becomes(r, call)
        BY <1>8 DEF P!ConnectionRead, Becomes
    <2> HIDE DEF found
    <2>5. call \in P!Call /\ call.token <= Len(minted) /\ call.pc # "exchange"
          /\ (call.pc = "disconnect" => minted # <<>>)
        BY <1>0, <2>1, <2>2, <2>3
    <2> HIDE DEF call
    <2> QED BY <1>0, <1>2, <1>8, <2>4, <2>5 DEF P!ConnectionRead, P!saasVars, P!wpVars
<1>9. ASSUME NEW r \in Calls, P!DisconnectWrite(r) PROVE ConnectionInv'
    <2> DEFINE call == IF calls[r].by = "plugin" THEN [P!Idle EXCEPT !.pc = "told", !.by = "plugin"] ELSE P!Idle
    <2>1. call \in P!Call /\ call.pc \in {"told", "idle"} /\ call.token = 0
        BY <1>0 DEF P!Call
    <2>2. Becomes(r, call)
        BY <1>9 DEF P!DisconnectWrite, Becomes
    <2> HIDE DEF call
    <2>3. /\ calls' \in [Calls -> P!Call]
          /\ \A q \in Calls : calls'[q] = IF q = r THEN call ELSE calls[q]
        BY <1>0, <2>1, <2>2, CallMoves
    <2>4. minted # <<>>
        BY <1>0, <1>9 DEF P!DisconnectWrite, ReadsRight
    <2>5. CASE calls[r].live
        <3>1. /\ connection' = [connection EXCEPT !.live = FALSE] /\ before' \in SUBSET Challenges
              /\ challenge' = [c \in Challenges |-> IF challenge[c] = "none" THEN "none" ELSE "used"]
              /\ siteStatus' = "DISCONNECTED" /\ drifted' = TRUE /\ UNCHANGED <<minted, stored, scheduled>>
            BY <1>9, <2>5 DEF P!DisconnectWrite, P!wpVars
        <3>2. challenge' \in [Challenges -> P!ChallengeStates]
            BY <3>1 DEF P!ChallengeStates
        <3>3. connection' \in [token: 0..Len(minted), live: BOOLEAN] /\ ~connection'.live
            BY <1>0, <3>1
        <3> QED BY <1>0, <2>1, <2>3, <2>4, <3>1, <3>2, <3>3 DEF NeverOverstated, ReadsRight, P!SiteStatuses
    <2>6. CASE ~calls[r].live
        <3>1. /\ UNCHANGED <<challenge, connection, before, drifted, minted, stored, scheduled>>
              /\ siteStatus' \in {siteStatus, "DISCONNECTED"}
            BY <1>9, <2>6 DEF P!DisconnectWrite, P!wpVars
        <3> QED BY <1>0, <2>1, <2>3, <2>4, <3>1 DEF NeverOverstated, ReadsRight, P!SiteStatuses
    <2> QED BY <2>5, <2>6
<1>10. CASE P!EnsureSchedule
    <2>1. UNCHANGED <<challenge, connection, siteStatus, minted, before, stored, calls, drifted>> /\ scheduled' \in BOOLEAN
        BY <1>10 DEF P!EnsureSchedule, P!saasVars
    <2> QED BY <1>0, <2>1 DEF NeverOverstated, ReadsRight
<1> QED BY <1>1, <1>3, <1>4, <1>5, <1>6, <1>7, <1>8, <1>9, <1>10 DEF P!Next

LEMMA ConnectionInit == ASSUME Init PROVE ConnectionInv
<1>1. P!ConnectionTypes
    <2>1. minted \in Seq(Challenges) /\ Len(minted) = 0
        BY DEF Init, P!Init
    <2>2. calls \in [Calls -> P!Call]
        BY CallTypes DEF Init, P!Init
    <2>3. connection \in [token: 0..Len(minted), live: BOOLEAN]
        BY <2>1 DEF Init, P!Init
    <2>4. challenge \in [Challenges -> P!ChallengeStates]
        BY DEF Init, P!Init, P!ChallengeStates
    <2> QED BY <2>1, <2>2, <2>3, <2>4 DEF Init, P!Init, P!ConnectionTypes, P!SiteStatuses
<1>2. NeverOverstated
    BY DEF Init, P!Init, NeverOverstated
<1>3. ReadsRight
    BY DEF Init, P!Init, ReadsRight, P!Idle
<1> QED BY <1>1, <1>2, <1>3 DEF ConnectionInv

LEMMA ConnectionAside == ASSUME ConnectionInv, UNCHANGED connectionVars PROVE ConnectionInv'
<1>1. UNCHANGED <<challenge, connection, siteStatus, stored, scheduled, calls, minted, before, drifted>>
    BY DEF connectionVars
<1> QED BY <1>1 DEF ConnectionInv, P!ConnectionTypes, NeverOverstated, ReadsRight

LEMMA ConnectionInvStep == ASSUME ConnectionInv, [Next]_vars PROVE ConnectionInv'
<1>1. CASE Connecting
    BY <1>1, ConnectionStep DEF Connecting
<1>2. CASE Syncing \/ Auditing \/ Reporting
    BY <1>2, ConnectionAside DEF Syncing, Auditing, Reporting
<1>3. CASE UNCHANGED vars
    BY <1>3, ConnectionAside DEF vars
<1> QED BY <1>1, <1>2, <1>3 DEF Next

(***************************************************************************)
(* Requests handled one at a time: what a request has found out about the  *)
(* connection, or was answered, is still so, a connection in force is      *)
(* shown, the newest token is the last one made, and a challenge that made *)
(* a token, or was there when the site was disconnected, is used.          *)
(***************************************************************************)
OneByOne == \A q, r \in P!BusyConnecting : q = r

UpToDate(call, existing, exchanged) ==
    /\ call.pc = "exchange" => existing[call.challenge] # "used"
    /\ call.pc = "answer" => exchanged.live /\ call.token = exchanged.token
    /\ call.pc = "disconnect" => call.live = exchanged.live
    /\ call.pc = "told" => ~exchanged.live

OneRequest ==
    /\ connection.token = Len(minted)
    /\ \A c \in before \cup ToSet(minted) : challenge[c] = "used"
    /\ ~drifted => stored = IF connection.live THEN connection.token ELSE 0
    /\ connection.live => siteStatus = "CONNECTED"
    /\ \A r \in Calls : UpToDate(calls[r], challenge, connection)

RequestsInv == setting.calls = 1 => OneByOne /\ OneRequest

LEMMA OneRequestStep ==
    ASSUME ConnectionInv, OneByOne, OneRequest, P!Next, OneByOne'
    PROVE  /\ OneRequest'
           /\ minted' # minted => Last(minted') \notin before \cup ToSet(minted)
<1>0. /\ challenge \in [Challenges -> P!ChallengeStates] /\ minted \in Seq(Challenges)
      /\ connection \in [token: 0..Len(minted), live: BOOLEAN]
      /\ calls \in [Calls -> P!Call] /\ before \in SUBSET Challenges /\ drifted \in BOOLEAN
      /\ Len(minted) \in Nat /\ ReadsRight
      /\ P!Idle \in P!Call /\ P!Idle.pc = "idle"
    BY CallTypes DEF ConnectionInv, P!ConnectionTypes, P!Idle
<1>t. /\ ToSet(minted) \subseteq Challenges
      /\ \A c \in Challenges : ToSet(Append(minted, c)) \subseteq ToSet(minted) \cup {c}
                               /\ Last(Append(minted, c)) = c /\ Len(Append(minted, c)) = Len(minted) + 1
    <2>1. ToSet(minted) \subseteq Challenges
        BY <1>0 DEF ToSet
    <2>2. ASSUME NEW c \in Challenges
          PROVE  /\ ToSet(Append(minted, c)) \subseteq ToSet(minted) \cup {c}
                 /\ Last(Append(minted, c)) = c /\ Len(Append(minted, c)) = Len(minted) + 1
        <3> DEFINE longer == Append(minted, c)
        <3>1. /\ Len(longer) = Len(minted) + 1 /\ DOMAIN longer = 1..Len(minted) + 1
              /\ DOMAIN minted = 1..Len(minted)
              /\ \A i \in 1..Len(minted) : longer[i] = minted[i]
              /\ longer[Len(minted) + 1] = c
            BY <1>0
        <3> HIDE DEF longer
        <3>2. ASSUME NEW i \in DOMAIN longer PROVE longer[i] \in ToSet(minted) \cup {c}
            <4>1. i \in 1..Len(minted) \/ i = Len(minted) + 1
                BY <1>0, <3>1
            <4> QED BY <3>1, <4>1 DEF ToSet
        <3>3. ToSet(longer) \subseteq ToSet(minted) \cup {c}
            BY <3>2 DEF ToSet
        <3> QED BY <3>1, <3>3 DEF Last, longer
    <2> QED BY <2>1, <2>2
(* The other requests are idle. *)
<1>i. ASSUME NEW r \in Calls, NEW call, Becomes(r, call), calls[r].pc # "idle" \/ calls'[r].pc # "idle"
      PROVE  \A q \in Calls : q # r => calls[q].pc = "idle" /\ calls'[q] = calls[q]
    <2>1. /\ \A q \in Calls : q # r => calls'[q] = calls[q]
        BY <1>0, <1>i DEF Becomes
    <2> QED BY <1>i, <2>1 DEF OneByOne, P!BusyConnecting
<1>n. \A q \in Calls : calls'[q].pc = "idle" => UpToDate(calls'[q], challenge', connection')
    BY DEF UpToDate
<1>1. ASSUME NEW c \in Challenges, P!IssueChallenge(c) \/ P!ChallengeExpires(c)
      PROVE  OneRequest' /\ minted' = minted
    <2>1. /\ UNCHANGED <<connection, siteStatus, minted, before, stored, calls, drifted>> /\ challenge[c] \in {"none", "open"}
          /\ \A d \in Challenges : challenge'[d] = IF d = c THEN challenge'[c] ELSE challenge[d]
          /\ challenge'[c] \in {"open", "expired"}
        BY <1>0, <1>1 DEF P!IssueChallenge, P!ChallengeExpires, P!wpVars
    <2>2. \A d \in before \cup ToSet(minted) : challenge'[d] = "used"
        BY <1>0, <1>t, <2>1 DEF OneRequest
    <2>3. \A r \in Calls : UpToDate(calls[r], challenge', connection)
        <3> TAKE r \in Calls
        <3>1. calls[r].pc = "exchange" => challenge'[calls[r].challenge] # "used"
            BY <1>0, <2>1 DEF OneRequest, UpToDate, ReadsRight
        <3> QED BY <3>1 DEF OneRequest, UpToDate
    <2> QED BY <2>1, <2>2, <2>3 DEF OneRequest
(* A step of a request that leaves what both sides hold. *)
<1>2. ASSUME NEW r \in Calls, NEW call, Becomes(r, call), UpToDate(call, challenge, connection),
             UNCHANGED <<challenge, connection, minted, before>>, connection.live => siteStatus' = siteStatus,
             ~drifted' => stored' = IF connection.live THEN connection.token ELSE 0
      PROVE  OneRequest' /\ minted' = minted
    <2>1. \A q \in Calls : calls'[q] = IF q = r THEN call ELSE calls[q]
        BY <1>0, <1>2 DEF Becomes
    <2>2. \A q \in Calls : UpToDate(calls'[q], challenge, connection)
        BY <1>2, <2>1 DEF OneRequest
    <2> QED BY <1>2, <2>2 DEF OneRequest
<1>3. ASSUME NEW r \in Calls, NEW c \in Challenges, P!ExchangeRead(r, c) PROVE OneRequest' /\ minted' = minted
    <2> DEFINE call == [P!Idle EXCEPT !.pc = "exchange", !.by = "plugin", !.challenge = c]
    <2>1. call.pc = "exchange" /\ call.challenge = c
        BY DEF P!Idle
    <2>2. Becomes(r, call) /\ challenge[c] = "open" /\ UNCHANGED <<challenge, connection, siteStatus, minted, before, stored, drifted>>
        BY <1>3 DEF P!ExchangeRead, Becomes, P!saasVars, P!wpVars
    <2> HIDE DEF call
    <2> QED BY <1>2, <2>1, <2>2 DEF UpToDate, OneRequest
<1>4. ASSUME NEW r \in Calls, P!ExchangeWrite(r)
      PROVE  OneRequest' /\ Last(minted') \notin before \cup ToSet(minted)
    <2> DEFINE call == [calls[r] EXCEPT !.pc = "answer", !.token = Len(minted) + 1]
               c == calls[r].challenge
    <2>1. /\ calls[r].pc = "exchange" /\ c \in Challenges /\ calls[r] \in P!Call
        BY <1>0, <1>4 DEF P!ExchangeWrite, ReadsRight
    <2>2. Becomes(r, call) /\ call.pc = "answer" /\ call.token = Len(minted) + 1
        BY <1>4, <2>1 DEF P!ExchangeWrite, Becomes, P!Call
    <2>3. /\ connection' = [token |-> Len(minted) + 1, live |-> TRUE] /\ minted' = Append(minted, c)
          /\ siteStatus' = "CONNECTED" /\ UNCHANGED before /\ drifted' = TRUE
          /\ \A d \in Challenges : challenge'[d] = IF d = c THEN "used" ELSE challenge[d]
        BY <1>0, <1>4 DEF P!ExchangeWrite
    <2> HIDE DEF call
    <2>4. calls'[r] = call
        BY <1>0, <2>2 DEF Becomes
    <2>5. \A q \in Calls : UpToDate(calls'[q], challenge', connection')
        <3>1. UpToDate(call, challenge', connection')
            BY <2>2, <2>3 DEF UpToDate
        <3>2. \A q \in Calls : q # r => calls'[q].pc = "idle"
            BY <1>i, <2>1, <2>2
        <3> QED BY <1>n, <2>4, <3>1, <3>2
    <2>6. \A d \in before \cup ToSet(minted') : challenge'[d] = "used"
        BY <1>0, <1>t, <2>1, <2>3 DEF OneRequest
    <2>7. Last(minted') = c /\ Len(minted') = Len(minted) + 1
        BY <1>t, <2>1, <2>3
    <2>8. c \notin before \cup ToSet(minted)
        BY <2>1 DEF OneRequest, UpToDate
    <2> QED BY <2>3, <2>5, <2>6, <2>7, <2>8 DEF OneRequest
<1>5. ASSUME NEW r \in Calls, P!ExchangeSaved(r) \/ P!PluginForgets(r) \/ P!CallLost(r)
      PROVE  OneRequest' /\ minted' = minted
    <2>1. /\ Becomes(r, P!Idle) /\ UNCHANGED <<challenge, connection, siteStatus, minted, before>>
        BY <1>5 DEF P!ExchangeSaved, P!PluginForgets, P!CallLost, P!saasVars, P!Finish, Becomes
    <2>2. ~drifted' => stored' = IF connection.live THEN connection.token ELSE 0
        <3>1. UpToDate(calls[r], challenge, connection) /\ (~drifted => stored = IF connection.live THEN connection.token ELSE 0)
            BY DEF OneRequest
        <3>2. CASE P!ExchangeSaved(r)
            BY <3>1, <3>2 DEF P!ExchangeSaved, UpToDate
        <3>3. CASE P!PluginForgets(r)
            BY <3>1, <3>3 DEF P!PluginForgets, UpToDate
        <3>4. CASE P!CallLost(r)
            BY <3>1, <3>4 DEF P!CallLost, P!wpVars
        <3> QED BY <1>5, <3>2, <3>3, <3>4
    <2>3. UpToDate(P!Idle, challenge, connection)
        BY <1>0 DEF UpToDate
    <2> QED BY <1>2, <2>1, <2>2, <2>3
<1>6. ASSUME NEW r \in Calls, P!PluginAsks(r) PROVE OneRequest' /\ minted' = minted
    <2> DEFINE call == [P!Idle EXCEPT !.pc = "authenticated", !.by = "plugin"]
    <2>1. call.pc = "authenticated"
        BY DEF P!Idle
    <2>2. Becomes(r, call) /\ UNCHANGED <<challenge, connection, siteStatus, minted, before, stored, drifted>>
        BY <1>6 DEF P!PluginAsks, Becomes, P!saasVars, P!wpVars
    <2> HIDE DEF call
    <2> QED BY <1>2, <2>1, <2>2 DEF UpToDate, OneRequest
<1>7. ASSUME NEW r \in Calls, P!SiteRead(r) PROVE OneRequest' /\ minted' = minted
    <2> DEFINE call == [calls[r] EXCEPT !.pc = "site", !.status = siteStatus]
    <2>1. call.pc = "site"
        <3>1. calls[r] \in P!Call
            BY <1>0
        <3> QED BY <3>1 DEF P!Call
    <2>2. Becomes(r, call) /\ UNCHANGED <<challenge, connection, siteStatus, minted, before, stored, drifted>>
        BY <1>7 DEF P!SiteRead, Becomes, P!saasVars, P!wpVars
    <2> HIDE DEF call
    <2> QED BY <1>2, <2>1, <2>2 DEF UpToDate, OneRequest
<1>8. ASSUME NEW r \in Calls, P!ConnectionRead(r) PROVE OneRequest' /\ minted' = minted
    <2> DEFINE found == [calls[r] EXCEPT !.pc = "disconnect", !.live = connection.live]
               call == IF connection.token = 0 THEN P!Idle ELSE found
    <2>1. found.pc = "disconnect" /\ found.live = connection.live
        <3>1. calls[r] \in P!Call
            BY <1>0
        <3> QED BY <3>1 DEF P!Call
    <2>2. Becomes(r, call) /\ UNCHANGED <<challenge, connection, siteStatus, minted, before, stored, drifted>>
        BY <1>8 DEF P!ConnectionRead, Becomes, P!saasVars, P!wpVars
    <2> HIDE DEF found
    <2>3. UpToDate(call, challenge, connection)
        BY <1>0, <2>1 DEF UpToDate
    <2> HIDE DEF call
    <2> QED BY <1>2, <2>2, <2>3 DEF OneRequest
<1>9. ASSUME NEW r \in Calls, P!DisconnectWrite(r) PROVE OneRequest' /\ minted' = minted
    <2> DEFINE call == IF calls[r].by = "plugin" THEN [P!Idle EXCEPT !.pc = "told", !.by = "plugin"] ELSE P!Idle
    <2>1. call.pc \in {"told", "idle"}
        BY DEF P!Idle
    <2>2. Becomes(r, call) /\ calls[r].pc = "disconnect" /\ UNCHANGED <<minted, stored>>
        BY <1>9 DEF P!DisconnectWrite, Becomes, P!wpVars
    <2> HIDE DEF call
    <2>3. calls[r].live = connection.live
        BY <2>2 DEF OneRequest, UpToDate
    <2>4. CASE ~calls[r].live
        <3>1. UNCHANGED <<connection, challenge, before, drifted>>
            BY <1>9, <2>4 DEF P!DisconnectWrite
        <3> QED BY <1>2, <2>1, <2>2, <2>3, <2>4, <3>1 DEF UpToDate, OneRequest
    <2>5. CASE calls[r].live
        <3>1. /\ connection' = [connection EXCEPT !.live = FALSE] /\ drifted' = TRUE
              /\ challenge' = [c \in Challenges |-> IF challenge[c] = "none" THEN "none" ELSE "used"]
              /\ before' = {c \in Challenges : challenge[c] # "none"}
            BY <1>9, <2>5 DEF P!DisconnectWrite
        <3>2. connection'.token = connection.token /\ connection'.live = FALSE
            BY <1>0, <3>1
        <3>3. calls'[r] = call /\ \A q \in Calls : q # r => calls'[q].pc = "idle"
            BY <1>0, <1>i, <2>2 DEF Becomes
        <3>4. \A q \in Calls : UpToDate(calls'[q], challenge', connection')
            <4>1. UpToDate(call, challenge', connection')
                BY <2>1, <3>2 DEF UpToDate
            <4> QED BY <1>n, <3>3, <4>1
        <3>5. \A c \in before' \cup ToSet(minted) : challenge'[c] = "used"
            BY <1>0, <1>t, <3>1 DEF OneRequest
        <3> QED BY <2>2, <3>1, <3>2, <3>4, <3>5 DEF OneRequest
    <2> QED BY <2>4, <2>5
<1>10. CASE P!EnsureSchedule
    <2>1. UNCHANGED <<challenge, connection, siteStatus, minted, before, stored, calls, drifted>>
        BY <1>10 DEF P!EnsureSchedule, P!saasVars
    <2> QED BY <2>1 DEF OneRequest
<1> QED BY <1>1, <1>3, <1>4, <1>5, <1>6, <1>7, <1>8, <1>9, <1>10 DEF P!Next

LEMMA RequestsInit == ASSUME Init PROVE RequestsInv
<1>1. /\ minted = <<>> /\ before = {} /\ drifted = FALSE /\ stored = 0
      /\ connection = [token |-> 0, live |-> FALSE] /\ calls = [r \in Calls |-> P!Idle]
    BY DEF Init, P!Init
<1>2. P!BusyConnecting = {}
    BY <1>1 DEF P!BusyConnecting, P!Idle
<1>3. \A r \in Calls : UpToDate(calls[r], challenge, connection)
    BY <1>1 DEF UpToDate, P!Idle
<1>4. ToSet(minted) = {} /\ Len(minted) = 0
    BY <1>1 DEF ToSet
<1> QED BY <1>1, <1>2, <1>3, <1>4 DEF RequestsInv, OneByOne, OneRequest

LEMMA RequestsAside == ASSUME RequestsInv, UNCHANGED <<connectionVars, setting>> PROVE RequestsInv'
<1>1. UNCHANGED <<challenge, connection, siteStatus, stored, calls, minted, before, drifted, setting>>
    BY DEF connectionVars
<1> QED BY <1>1 DEF RequestsInv, OneByOne, OneRequest, P!BusyConnecting

LEMMA AtMostOne ==
    ASSUME NEW S, IsFiniteSet(S), Cardinality(S) <= 1
    PROVE  \A x, y \in S : x = y
<1> SUFFICES ASSUME NEW x \in S, NEW y \in S, x # y PROVE FALSE
    OBVIOUS
<1>1. IsFiniteSet({x, y}) /\ Cardinality({x, y}) = 2
    <2>1. IsFiniteSet({x}) /\ Cardinality({x}) = 1
        BY FS_Singleton
    <2>2. IsFiniteSet({x} \cup {y}) /\ Cardinality({x} \cup {y}) = Cardinality({x}) + 1
        BY <2>1, FS_AddElement
    <2>3. {x} \cup {y} = {x, y}
        OBVIOUS
    <2> QED BY <2>1, <2>2, <2>3
<1>2. Cardinality({x, y}) <= Cardinality(S) /\ Cardinality(S) \in Nat
    BY FS_Subset, FS_CardinalityType
<1> QED BY <1>1, <1>2

LEMMA RequestsStep == ASSUME ConnectionInv, RequestsInv, [Next]_vars PROVE RequestsInv'
<1>1. CASE UNCHANGED vars
    BY <1>1, RequestsAside DEF vars
<1>2. CASE Next
    <2>1. UNCHANGED setting /\ Cardinality(P!BusyConnecting') <= setting'.calls
        BY <1>2 DEF Next, Within
    <2>2. CASE Connecting
        <3> SUFFICES ASSUME setting'.calls = 1 PROVE OneByOne' /\ OneRequest'
            BY DEF RequestsInv
        <3>1. IsFiniteSet(P!BusyConnecting')
            BY SyncAssumption, FS_Subset DEF P!BusyConnecting
        <3>2. OneByOne'
            BY <2>1, <3>1, AtMostOne DEF OneByOne
        <3> QED BY <2>1, <2>2, <3>2, OneRequestStep DEF Connecting, RequestsInv
    <2>3. CASE Syncing \/ Auditing \/ Reporting
        BY <2>1, <2>3, RequestsAside DEF Syncing, Auditing, Reporting
    <2> QED BY <1>2, <2>2, <2>3 DEF Next
<1> QED BY <1>1, <1>2

(***************************************************************************)
(* Whatever requests are handled together, the status of a site never      *)
(* claims a connection it does not have; and a connection it has is shown  *)
(* while requests are handled one at a time (StatusFollowsConnection).     *)
(***************************************************************************)
THEOREM StatusFollows == Spec => []StatusFollowsConnection
<1>1. Init => ConnectionInv /\ RequestsInv
    BY ConnectionInit, RequestsInit
<1>2. ConnectionInv /\ RequestsInv /\ [Next]_vars => ConnectionInv' /\ RequestsInv'
    BY ConnectionInvStep, RequestsStep
<1>3. ConnectionInv /\ RequestsInv => StatusFollowsConnection
    BY DEF ConnectionInv, RequestsInv, OneRequest, StatusFollowsConnection, ConnectionShown
<1> QED BY <1>1, <1>2, <1>3, PTL DEF Spec

(***************************************************************************)
(* Requests handled one at a time: between requests the site and the SaaS  *)
(* hold the same token, unless a member disconnected the site or an answer *)
(* was lost; and a challenge connects once, and not any more when it was   *)
(* issued before the site was disconnected (exchangePluginChallenge,       *)
(* markPluginConnectionDisconnected).                                      *)
(***************************************************************************)
THEOREM SidesAgree == Spec => BothSidesAgree
<1>1. Init => ConnectionInv /\ RequestsInv
    BY ConnectionInit, RequestsInit
<1>2. ConnectionInv /\ RequestsInv /\ [Next]_vars => ConnectionInv' /\ RequestsInv'
    BY ConnectionInvStep, RequestsStep
<1>3. ConnectionInv /\ RequestsInv => Agreement
    BY DEF RequestsInv, OneRequest, Agreement
<1>4. ConnectionInv /\ RequestsInv /\ RequestsInv' /\ [Next]_vars =>
          [(setting.calls = 1 /\ minted' # minted) => Last(minted') \notin before \cup ToSet(minted)]_vars
    <2> SUFFICES ASSUME ConnectionInv, RequestsInv, RequestsInv', Next, setting.calls = 1, minted' # minted
                 PROVE  Last(minted') \notin before \cup ToSet(minted)
        OBVIOUS
    <2>1. Connecting /\ UNCHANGED setting
        BY DEF Next, Syncing, Auditing, Reporting, connectionVars
    <2>2. OneByOne /\ OneRequest /\ OneByOne'
        BY <2>1 DEF RequestsInv
    <2> QED BY <2>1, <2>2, OneRequestStep DEF Connecting
<1> QED BY <1>1, <1>2, <1>3, <1>4, PTL DEF Spec, BothSidesAgree, ChallengesConnectOnce

-----------------------------------------------------------------------------
(* The copy of the content *)

(* Each instance has a copy of FiniteSets; the copies agree. *)
LEMMA OneCardinality == \A T : C!Cardinality(T) = Cardinality(T)
BY DEF Cardinality, C!Cardinality

(* So many sets of at most so many elements have so many together. *)
LEMMA UnionBound ==
    ASSUME NEW W, IsFiniteSet(W), NEW In, NEW B \in Nat,
           \A q \in W : IsFiniteSet(In[q]) /\ Cardinality(In[q]) <= B
    PROVE  LET U == UNION {In[q] : q \in W}
           IN  IsFiniteSet(U) /\ Cardinality(U) <= Cardinality(W) * B
<1> DEFINE U == UNION {In[q] : q \in W}
           Onto(q) == CHOOSE f : f \in Bijection(1..Cardinality(In[q]), In[q])
           Of(u) == CHOOSE q \in W : u \in In[q]
           At(u) == CHOOSE k \in 1..B : k \in 1..Cardinality(In[Of(u)]) /\ Onto(Of(u))[k] = u
           Place == [u \in U |-> <<Of(u), At(u)>>]
<1>1. ASSUME NEW q \in W
      PROVE  Onto(q) \in Bijection(1..Cardinality(In[q]), In[q]) /\ Cardinality(In[q]) \in Nat
    <2>1. Cardinality(In[q]) \in Nat /\ ExistsBijection(1..Cardinality(In[q]), In[q])
        BY FS_CardinalityType
    <2>2. \E f : f \in Bijection(1..Cardinality(In[q]), In[q])
        BY <2>1 DEF ExistsBijection
    <2> QED BY <2>1, <2>2
<1>2. ASSUME NEW u \in U PROVE Of(u) \in W /\ u \in In[Of(u)]
    OBVIOUS
<1> HIDE DEF Of, Onto
<1>3. ASSUME NEW u \in U PROVE At(u) \in 1..B /\ Onto(Of(u))[At(u)] = u
    <2>1. Of(u) \in W /\ u \in In[Of(u)]
        BY <1>2
    <2>2. \E k \in 1..Cardinality(In[Of(u)]) : Onto(Of(u))[k] = u
        BY <1>1, <2>1 DEF Bijection, Surjection
    <2>3. \E k \in 1..B : k \in 1..Cardinality(In[Of(u)]) /\ Onto(Of(u))[k] = u
        BY <1>1, <2>1, <2>2
    <2> QED BY <2>3
<1> HIDE DEF At
<1>4. Place \in [U -> W \X (1..B)]
    BY <1>2, <1>3
<1>5. ASSUME NEW u \in U, NEW v \in U, Place[u] = Place[v] PROVE u = v
    <2>1. Of(u) = Of(v) /\ At(u) = At(v)
        BY <1>5
    <2> QED BY <1>3, <2>1
<1>6. Place \in Injection(U, W \X (1..B))
    BY <1>4, <1>5, Fun_IsInj
<1>7. IsFiniteSet(1..B) /\ Cardinality(1..B) = B
    BY FS_Interval
<1>8. IsFiniteSet(W \X (1..B)) /\ Cardinality(W \X (1..B)) = Cardinality(W) * B
    BY <1>7, FS_Product
<1> QED BY <1>6, <1>8, FS_Injection

Before(p) == {q \in C!Existing : q < p}

LEMMA Positions ==
    /\ C!Existing \subseteq Posts /\ IsFiniteSet(C!Existing) /\ \A p \in C!Existing : p \in Nat
    /\ \A p \in C!Existing : /\ IsFiniteSet(Before(p)) /\ Cardinality(Before(p)) \in Nat
                              /\ C!Position(p) = Cardinality(Before(p))
    /\ \A p, q \in C!Existing : p < q => C!Position(p) < C!Position(q)
    /\ \A p, q \in C!Existing : C!Position(p) = C!Position(q) => p = q
<1> USE SyncAssumption
<1>1. C!Existing \subseteq Posts /\ IsFiniteSet(C!Existing)
    BY FS_Subset DEF C!Existing
<1>2. ASSUME NEW p \in C!Existing
      PROVE  IsFiniteSet(Before(p)) /\ Cardinality(Before(p)) \in Nat /\ C!Position(p) = Cardinality(Before(p))
    <2>1. IsFiniteSet(Before(p))
        BY <1>1, FS_Subset DEF Before
    <2>2. Cardinality(Before(p)) \in Nat
        BY <2>1, FS_CardinalityType
    <2>3. C!Position(p) = C!Cardinality(Before(p))
        BY DEF C!Position, Before
    <2>4. C!Cardinality(Before(p)) = Cardinality(Before(p))
        BY OneCardinality
    <2> QED BY <2>1, <2>2, <2>3, <2>4
<1>3. ASSUME NEW p \in C!Existing, NEW q \in C!Existing, p < q PROVE C!Position(p) < C!Position(q)
    <2>1. \A o \in C!Existing : o \in Nat
        BY <1>1
    <2>2. Before(p) \cup {p} \subseteq Before(q) /\ p \notin Before(p)
        <3>1. \A o \in C!Existing : o < p => o < q
            BY <1>3, <2>1
        <3>2. ~(p < p)
            BY <2>1
        <3> QED BY <1>3, <3>1, <3>2 DEF Before
    <2>3. Cardinality(Before(p) \cup {p}) = Cardinality(Before(p)) + 1
        BY <1>2, <2>2, FS_AddElement
    <2>4. Cardinality(Before(p) \cup {p}) <= Cardinality(Before(q))
        BY <1>2, <2>2, FS_Subset
    <2> QED BY <1>2, <2>3, <2>4
<1>4. \A p \in C!Existing, q \in C!Existing : C!Position(p) = C!Position(q) => p = q
    <2> SUFFICES ASSUME NEW p \in C!Existing, NEW q \in C!Existing, p # q PROVE C!Position(p) # C!Position(q)
        OBVIOUS
    <2>1. p \in Nat /\ q \in Nat /\ C!Position(p) \in Nat /\ C!Position(q) \in Nat
        BY <1>1, <1>2
    <2> QED BY <1>3, <2>1
<1> QED BY <1>1, <1>2, <1>3, <1>4

LEMMA PageFits ==
    ASSUME NEW offset \in Nat
    PROVE  IsFiniteSet(C!Page(offset)) /\ Cardinality(C!Page(offset)) <= BatchSize
<1> USE SyncAssumption
<1> DEFINE Place == [p \in C!Page(offset) |-> C!Position(p)]
           Places == offset..(offset + BatchSize - 1)
<1>5. C!Page(offset) \subseteq C!Existing /\ \A p \in C!Page(offset) : C!Position(p) \in Places
    BY DEF C!Page
<1>6. Place \in Injection(C!Page(offset), Places)
    <2>1. Place \in [C!Page(offset) -> Places]
        BY <1>5
    <2>2. \A p, q \in C!Page(offset) : Place[p] = Place[q] => p = q
        BY <1>5, Positions
    <2> QED BY <2>1, <2>2, Fun_IsInj
<1>7. IsFiniteSet(Places) /\ Cardinality(Places) = BatchSize
    BY FS_Interval
<1> QED BY <1>6, <1>7, FS_Injection

(* Every position up to that of a post is the position of a post. *)
LEMMA Reaches ==
    ASSUME NEW p \in C!Existing, NEW k \in Nat, k <= C!Position(p)
    PROVE  \E q \in C!Existing : C!Position(q) = k
<1> DEFINE From == {x \in C!Existing : C!Position(x) >= k}
<1>1. /\ \A x \in C!Existing : x \in Nat /\ C!Position(x) \in Nat
      /\ p \in From /\ From \subseteq Nat
    BY Positions
<1>2. \E q \in From : \A x \in From : ~(<<x, q>> \in OpToRel(<, Nat))
    BY <1>1, WFMin, NatLessThanWellFounded
<1>3. PICK q \in From : \A x \in From : ~(x < q)
    BY <1>1, <1>2 DEF OpToRel
<1>4. \A x \in Before(q) : x \in C!Existing /\ C!Position(x) \in 0..(k - 1)
    <2> SUFFICES ASSUME NEW x \in Before(q) PROVE x \in C!Existing /\ C!Position(x) \in 0..(k - 1)
        OBVIOUS
    <2>1. x \in C!Existing /\ x < q /\ C!Position(x) \in Nat
        BY <1>1 DEF Before
    <2>2. ~(C!Position(x) >= k)
        BY <1>3, <2>1
    <2> QED BY <2>1, <2>2
<1> DEFINE Place == [x \in Before(q) |-> C!Position(x)]
<1>5. Place \in Injection(Before(q), 0..(k - 1))
    <2>1. Place \in [Before(q) -> 0..(k - 1)]
        BY <1>4
    <2>2. \A x, y \in Before(q) : Place[x] = Place[y] => x = y
        BY <1>4, Positions
    <2> QED BY <2>1, <2>2, Fun_IsInj
<1>6. IsFiniteSet(0..(k - 1)) /\ Cardinality(0..(k - 1)) = k
    BY FS_Interval
<1>7. Cardinality(Before(q)) <= k
    BY <1>5, <1>6, FS_Injection
<1>8. C!Position(q) <= k
    BY <1>3, <1>7, Positions
<1> QED BY <1>1, <1>3, <1>8

(* A page with posts after it is full. *)
LEMMA PageFull ==
    ASSUME NEW offset \in Nat, NEW p \in C!Existing, C!Position(p) >= offset + BatchSize
    PROVE  Cardinality(C!Page(offset)) = BatchSize
<1> USE SyncAssumption
<1> DEFINE Places == offset..(offset + BatchSize - 1)
           At(k) == CHOOSE q \in C!Existing : C!Position(q) = k
           Post == [k \in Places |-> At(k)]
<1>1. ASSUME NEW k \in Places PROVE At(k) \in C!Page(offset) /\ C!Position(At(k)) = k
    <2>1. k \in Nat /\ k <= C!Position(p)
        BY Positions
    <2>2. At(k) \in C!Existing /\ C!Position(At(k)) = k
        BY <2>1, Reaches
    <2> QED BY <2>2 DEF C!Page
<1> HIDE DEF At
<1>2. Post \in Injection(Places, C!Page(offset))
    <2>1. Post \in [Places -> C!Page(offset)]
        BY <1>1
    <2>2. \A i, j \in Places : Post[i] = Post[j] => i = j
        BY <1>1
    <2> QED BY <2>1, <2>2, Fun_IsInj
<1>3. IsFiniteSet(Places) /\ Cardinality(Places) = BatchSize
    BY FS_Interval
<1>4. IsFiniteSet(C!Page(offset)) /\ Cardinality(C!Page(offset)) <= BatchSize
    BY PageFits
<1>5. Cardinality(Places) <= Cardinality(C!Page(offset))
    BY <1>2, <1>4, FS_Injection
<1>6. Cardinality(C!Page(offset)) \in Nat
    BY <1>4, FS_CardinalityType
<1> QED BY <1>3, <1>4, <1>5, <1>6

-----------------------------------------------------------------------------

(* What a run is made of; its findings do not matter here. *)
Shaped(run) ==
    run = [pc |-> run.pc, token |-> run.token, offset |-> run.offset, more |-> run.more,
           findings |-> run.findings, batch |-> run.batch, stable |-> run.stable]

Brought(run) == {p \in Posts : run.batch[p].rev # 0}

(* A run under way has a token, and a batch of no more than BatchSize posts. *)
Sound(run) ==
    /\ Shaped(run)
    /\ run.pc \in {"idle", "collect", "send", "accept", "write"}
    /\ run.offset \in Nat
    /\ run.pc # "idle" => run.token # 0
    /\ Cardinality(Brought(run)) <= BatchSize

RunsSound ==
    /\ setting \in Settings
    /\ runs = [r \in Runs |-> runs[r]]
    /\ \A r \in Runs : Sound(runs[r])

LetThrough == {r \in Runs : runs[r].pc \in {"accept", "write"}}
Writing == {r \in Runs : runs[r].pc = "write"}

(* The batches that were let through before the site was disconnected. *)
FewAreLate ==
    /\ late \in Nat
    /\ IF connection.live THEN late = 0 ELSE late + Cardinality(LetThrough) <= setting.runs

(* What is held once every batch that was found to fit is written. *)
Foreseen == C!Held \cup UNION {C!Incoming(r) : r \in Writing}
FewArePages == Foreseen # {} => Cardinality(Foreseen) <= setting.pages + (setting.runs - 1) * BatchSize

FewRuns == Cardinality(C!BusySyncing) <= setting.runs
SyncInv == RunsSound /\ FewRuns /\ FewAreLate /\ FewArePages

RunBecomes(r, run) == runs' = [runs EXCEPT ![r] = run]

LEMMA RunMoves ==
    ASSUME NEW r \in Runs, NEW run, RunsSound, RunBecomes(r, run), Sound(run), UNCHANGED setting
    PROVE  /\ RunsSound'
           /\ \A q \in Runs : runs'[q] = IF q = r THEN run ELSE runs[q]
<1>1. \A q \in Runs : runs'[q] = IF q = r THEN run ELSE runs[q]
    BY DEF RunBecomes, RunsSound
<1>2. runs' = [q \in Runs |-> runs'[q]]
    BY DEF RunBecomes, RunsSound
<1>3. \A q \in Runs : Sound(runs'[q])
    BY <1>1 DEF RunsSound
<1> QED BY <1>1, <1>2, <1>3 DEF RunsSound

LEMMA Finite ==
    /\ \A S \in SUBSET Runs : IsFiniteSet(S) /\ Cardinality(S) \in Nat
    /\ \A S \in SUBSET Posts : IsFiniteSet(S) /\ Cardinality(S) \in Nat
    /\ \A S \in SUBSET Runs : \A T \in SUBSET S : Cardinality(T) <= Cardinality(S)
    /\ \A S \in SUBSET Posts : \A T \in SUBSET S : Cardinality(T) <= Cardinality(S)
<1>1. IsFiniteSet(Posts) /\ IsFiniteSet(Runs)
    BY SyncAssumption
<1>2. \A S \in SUBSET Runs : IsFiniteSet(S) /\ Cardinality(S) \in Nat
    BY <1>1, FS_Subset, FS_CardinalityType
<1>3. \A S \in SUBSET Posts : IsFiniteSet(S) /\ Cardinality(S) \in Nat
    BY <1>1, FS_Subset, FS_CardinalityType
<1> QED BY <1>2, <1>3, FS_Subset

LEMMA Blank ==
    /\ Sound(C!NotSyncing) /\ C!NotSyncing.pc = "idle" /\ Brought(C!NotSyncing) = {}
    /\ \A p \in Posts : C!NoBatch[p].rev = 0
<1>1. \A p \in Posts : C!NoBatch[p].rev = 0
    BY DEF C!NoBatch, C!Absent
<1>2. Brought(C!NotSyncing) = {} /\ C!NotSyncing.pc = "idle"
    BY <1>1 DEF Brought, C!NotSyncing
<1>3. Cardinality({}) <= BatchSize
    BY FS_EmptySet, SyncAssumption
<1> QED BY <1>1, <1>2, <1>3 DEF Sound, Shaped, C!NotSyncing

(* The batch of a run is a page. *)
LEMMA BatchFits ==
    ASSUME NEW r \in Runs, runs[r].offset \in Nat
    PROVE  Cardinality({p \in Posts : C!BatchOf(r)[p].rev # 0}) <= BatchSize
<1> DEFINE N == {p \in Posts : C!BatchOf(r)[p].rev # 0}
           G == C!Page(runs[r].offset)
<1>1. N \subseteq G
    BY DEF C!BatchOf, C!Absent
<1>2. IsFiniteSet(G) /\ Cardinality(G) <= BatchSize
    BY PageFits
<1>3. IsFiniteSet(N) /\ Cardinality(N) <= Cardinality(G)
    BY <1>1, <1>2, FS_Subset
<1>4. Cardinality(N) \in Nat /\ Cardinality(G) \in Nat /\ BatchSize \in Nat
    BY <1>2, <1>3, FS_CardinalityType, SyncAssumption
<1> QED BY <1>2, <1>3, <1>4

(* A step that foresees nothing more. *)
LEMMA PagesKeep ==
    ASSUME SyncInv, Foreseen' \subseteq Foreseen, UNCHANGED setting
    PROVE  FewArePages'
<1>1. Foreseen \subseteq Posts
    BY DEF Foreseen, C!Held, C!Incoming
<1>2. /\ Cardinality(Foreseen') <= Cardinality(Foreseen)
      /\ Cardinality(Foreseen') \in Nat /\ Cardinality(Foreseen) \in Nat
    BY <1>1, Finite
<1>3. setting.pages \in Nat /\ setting.runs \in Nat /\ BatchSize \in Nat
    BY SyncAssumption DEF SyncInv, RunsSound
<1>4. CASE Foreseen = {}
    BY <1>4 DEF FewArePages
<1>5. CASE Foreseen # {}
    <2>1. setting.pages + (setting.runs - 1) * BatchSize \in Int
        BY <1>3
    <2>2. Cardinality(Foreseen) <= setting.pages + (setting.runs - 1) * BatchSize
        BY <1>5 DEF SyncInv, FewArePages
    <2>3. Cardinality(Foreseen') <= setting.pages + (setting.runs - 1) * BatchSize
        BY <1>2, <2>1, <2>2
    <2> QED BY <2>3 DEF FewArePages
<1> QED BY <1>4, <1>5

LEMMA LateKeeps ==
    ASSUME SyncInv, LetThrough' \subseteq LetThrough, UNCHANGED <<late, connection, setting>>
    PROVE  FewAreLate'
<1>1. Cardinality(LetThrough') <= Cardinality(LetThrough)
    BY Finite DEF LetThrough
<1>2. Cardinality(LetThrough') \in Nat /\ Cardinality(LetThrough) \in Nat
    BY Finite DEF LetThrough
<1>3. setting.runs \in Nat
    BY SyncAssumption DEF SyncInv, RunsSound
<1> QED BY <1>1, <1>2, <1>3 DEF SyncInv, FewAreLate

(* A step of one run that brings nothing new. *)
LEMMA RunKeeps ==
    ASSUME SyncInv, NEW r \in Runs, NEW run, RunBecomes(r, run), Sound(run),
           run.pc = "write" => runs[r].pc = "write" /\ Brought(run) = Brought(runs[r]),
           run.pc \in {"accept", "write"} => runs[r].pc \in {"accept", "write"},
           UNCHANGED <<rows, late, connection, setting>>
    PROVE  RunsSound' /\ FewAreLate' /\ FewArePages'
<1>1. RunsSound' /\ \A q \in Runs : runs'[q] = IF q = r THEN run ELSE runs[q]
    BY RunMoves DEF SyncInv
<1>2. LetThrough' \subseteq LetThrough /\ Writing' \subseteq Writing
    BY <1>1 DEF LetThrough, Writing
<1>3. \A q \in Writing' : C!Incoming(q)' = C!Incoming(q)
    BY <1>1 DEF Writing, Brought, C!Incoming
<1>4. Foreseen' \subseteq Foreseen
    BY <1>2, <1>3 DEF Foreseen, C!Held
<1> QED BY <1>1, <1>2, <1>4, PagesKeep, LateKeeps

(***************************************************************************)
(* The batch that is found to fit is counted with what is held; the other  *)
(* runs that are about to write bring a batch each.                        *)
(***************************************************************************)
LEMMA FitsBounded ==
    ASSUME SyncInv, NEW r \in Runs, C!CapacityRead(r), Cardinality(C!BusySyncing') <= setting.runs,
           UNCHANGED <<late, connection, setting>>
    PROVE  RunsSound' /\ FewAreLate' /\ FewArePages'
<1> DEFINE run == [runs[r] EXCEPT !.pc = "write"]
           In == [q \in Writing |-> C!Incoming(q)]
           TheOthers == UNION {In[q] : q \in Writing}
<1>1. Sound(runs[r]) /\ runs[r].pc = "accept" /\ r \notin Writing
    BY DEF SyncInv, RunsSound, C!CapacityRead, Writing
<1>2. Sound(run) /\ run.pc = "write" /\ Brought(run) = Brought(runs[r])
    BY <1>1 DEF Sound, Shaped, Brought
<1>3. RunBecomes(r, run)
    BY DEF C!CapacityRead, RunBecomes
<1> HIDE DEF run
<1>4. RunsSound' /\ \A q \in Runs : runs'[q] = IF q = r THEN run ELSE runs[q]
    BY <1>2, <1>3, RunMoves DEF SyncInv
<1>5. LetThrough' = LetThrough /\ Writing' = Writing \cup {r}
    BY <1>1, <1>2, <1>4 DEF LetThrough, Writing
<1>6. \A q \in Runs : C!Incoming(q)' = C!Incoming(q)
    BY <1>2, <1>4 DEF Brought, C!Incoming
<1>7. Foreseen' = (C!Held \cup C!Incoming(r)) \cup TheOthers
    <2>1. C!Held' = C!Held /\ Writing \subseteq Runs
        BY DEF C!Held, C!CapacityRead, Writing
    <2>2. Foreseen' = C!Held' \cup UNION {C!Incoming(q)' : q \in Writing'}
        BY DEF Foreseen
    <2>3. {C!Incoming(q)' : q \in Writing'} = {In[q] : q \in Writing} \cup {C!Incoming(r)}
        BY <1>5, <1>6, <2>1
    <2> QED BY <2>1, <2>2, <2>3
<1>8. setting.pages \in Nat /\ setting.runs \in Nat /\ BatchSize \in Nat
    BY SyncAssumption DEF SyncInv, RunsSound
<1>9. Cardinality(C!Held \cup C!Incoming(r)) <= setting.pages
    BY OneCardinality DEF C!CapacityRead
<1>10. Cardinality(TheOthers) <= Cardinality(Writing) * BatchSize
    <2>1. \A q \in Writing : IsFiniteSet(In[q]) /\ Cardinality(In[q]) <= BatchSize
        BY Finite DEF SyncInv, RunsSound, Sound, Brought, C!Incoming, Writing
    <2>2. IsFiniteSet(Writing)
        BY Finite DEF Writing
    <2> HIDE DEF In
    <2> QED BY <1>8, <2>1, <2>2, UnionBound
<1>11. Cardinality(Writing) \in Nat /\ Cardinality(Writing) <= setting.runs - 1
    <2>1. Writing \cup {r} \subseteq C!BusySyncing' /\ C!BusySyncing' \subseteq Runs
        BY <1>5 DEF Writing, C!BusySyncing
    <2>2. Cardinality(Writing \cup {r}) <= Cardinality(C!BusySyncing') /\ Cardinality(C!BusySyncing') \in Nat
        BY <2>1, Finite
    <2>3. IsFiniteSet(Writing) /\ Cardinality(Writing) \in Nat
        BY Finite DEF Writing
    <2>4. Cardinality(Writing \cup {r}) = Cardinality(Writing) + 1
        BY <1>1, <2>3, FS_AddElement
    <2> QED BY <1>8, <2>2, <2>3, <2>4
<1>12. Cardinality(Writing) * BatchSize <= (setting.runs - 1) * BatchSize
    BY <1>8, <1>11
<1>13. Cardinality(Foreseen') <= Cardinality(C!Held \cup C!Incoming(r)) + Cardinality(TheOthers)
    <2>1. C!Held \cup C!Incoming(r) \subseteq Posts /\ TheOthers \subseteq Posts
        BY DEF C!Held, C!Incoming
    <2>2. /\ IsFiniteSet(C!Held \cup C!Incoming(r)) /\ IsFiniteSet(TheOthers)
          /\ Cardinality((C!Held \cup C!Incoming(r)) \cap TheOthers) \in Nat
          /\ Cardinality(C!Held \cup C!Incoming(r)) \in Nat /\ Cardinality(TheOthers) \in Nat
        BY <2>1, Finite
    <2> HIDE DEF TheOthers
    <2>3. Cardinality((C!Held \cup C!Incoming(r)) \cup TheOthers)
            = Cardinality(C!Held \cup C!Incoming(r)) + Cardinality(TheOthers)
              - Cardinality((C!Held \cup C!Incoming(r)) \cap TheOthers)
        BY <2>2, FS_Union
    <2> QED BY <1>7, <2>2, <2>3
<1>14. FewArePages'
    <2>1. /\ Cardinality(Foreseen') \in Nat /\ Cardinality(TheOthers) \in Nat
          /\ Cardinality(C!Held \cup C!Incoming(r)) \in Nat
        BY <1>7, Finite DEF C!Held, C!Incoming
    <2>2. Cardinality(Writing) * BatchSize \in Int /\ (setting.runs - 1) * BatchSize \in Int
        BY <1>8, <1>11
    <2> HIDE DEF TheOthers
    <2>3. Cardinality(Foreseen') <= setting.pages + (setting.runs - 1) * BatchSize
        BY <1>8, <1>9, <1>10, <1>12, <1>13, <2>1, <2>2
    <2> QED BY <2>3 DEF FewArePages
<1> QED BY <1>4, <1>5, <1>14, LateKeeps

(* A batch is taken over: what was foreseen of it is held now. *)
LEMMA TakeOverKeeps ==
    ASSUME SyncInv, NEW r \in Runs, TakeOver(r), UNCHANGED <<connection, setting>>
    PROVE  RunsSound' /\ FewAreLate' /\ FewArePages'
<1> DEFINE run == IF C!LastBatch(r) THEN C!NotSyncing
                  ELSE [runs[r] EXCEPT !.pc = "collect", !.offset = C!NextOffset(r), !.batch = C!NoBatch]
<1>1. Sound(runs[r]) /\ runs[r].pc = "write" /\ C!AcceptWrite(r)
    BY DEF SyncInv, RunsSound, TakeOver, C!AcceptWrite
<1>2. Sound(run) /\ run.pc \in {"idle", "collect"}
    <2>1. CASE C!LastBatch(r)
        BY <2>1, Blank
    <2>2. CASE ~C!LastBatch(r)
        <3>1. run = [pc |-> "collect", token |-> runs[r].token, offset |-> C!NextOffset(r), more |-> runs[r].more,
                     findings |-> runs[r].findings, batch |-> C!NoBatch, stable |-> runs[r].stable]
            BY <1>1, <2>2 DEF Sound, Shaped
        <3>2. Shaped(run) /\ Brought(run) = {} /\ run.pc = "collect" /\ run.token # 0 /\ run.offset = C!NextOffset(r)
            BY <1>1, <3>1, Blank DEF Sound, Shaped, Brought
        <3>3. C!NextOffset(r) \in Nat
            BY <1>1, SyncAssumption DEF Sound, C!NextOffset
        <3>4. Cardinality({}) <= BatchSize
            BY FS_EmptySet, SyncAssumption
        <3> HIDE DEF run
        <3> QED BY <3>2, <3>3, <3>4 DEF Sound
    <2> QED BY <2>1, <2>2
<1>3. RunBecomes(r, run)
    BY <1>1 DEF C!AcceptWrite, RunBecomes
<1> HIDE DEF run
<1>4. RunsSound' /\ \A q \in Runs : runs'[q] = IF q = r THEN run ELSE runs[q]
    BY <1>2, <1>3, RunMoves DEF SyncInv
<1>5. LetThrough' = LetThrough \ {r} /\ Writing' = Writing \ {r} /\ r \in LetThrough /\ r \in Writing
    BY <1>1, <1>2, <1>4 DEF LetThrough, Writing
<1>6. \A q \in Writing' : C!Incoming(q)' = C!Incoming(q)
    BY <1>4, <1>5 DEF Writing, C!Incoming
<1>7. C!Held' \subseteq C!Held \cup C!Incoming(r)
    BY <1>1 DEF C!AcceptWrite, C!Held, C!Incoming
<1>8. Foreseen' \subseteq Foreseen
    BY <1>5, <1>6, <1>7 DEF Foreseen
<1>9. FewAreLate'
    <2>1. IsFiniteSet(LetThrough) /\ Cardinality(LetThrough) \in Nat
        BY Finite DEF LetThrough
    <2>2. Cardinality(LetThrough') = Cardinality(LetThrough) - 1
        BY <1>5, <2>1, FS_RemoveElement
    <2>3. setting.runs \in Nat /\ late' = (IF connection.live THEN 0 ELSE late + 1)
        BY SyncAssumption DEF SyncInv, RunsSound, TakeOver
    <2> QED BY <2>1, <2>2, <2>3 DEF SyncInv, FewAreLate
<1> QED BY <1>4, <1>8, <1>9, PagesKeep

(* What a run is after it has begun, and after it has collected a batch. *)
Beginning(idle, token, found, existing) ==
    [idle EXCEPT !.pc = "collect", !.token = token, !.findings = found, !.stable = existing]
Collecting(old, batch, more) == [old EXCEPT !.pc = "send", !.batch = batch, !.more = more]

LEMMA Begun ==
    ASSUME NEW token, NEW found, NEW existing, token # 0,
           NEW idle, Shaped(idle), idle.offset = 0, idle.batch = C!NoBatch,
           NEW run, run = Beginning(idle, token, found, existing)
    PROVE  /\ Sound(run) /\ run.pc = "collect" /\ run.offset = 0
           /\ run.findings = found /\ run.batch = C!NoBatch /\ run.stable = existing
<1>1. run = [pc |-> "collect", token |-> token, offset |-> 0, more |-> idle.more,
             findings |-> found, batch |-> C!NoBatch, stable |-> existing]
    BY DEF Shaped, Beginning
<1>2. Shaped(run) /\ run.pc = "collect" /\ run.token = token /\ run.offset = 0 /\ Brought(run) = {}
    BY <1>1, Blank DEF Shaped, Brought
<1>3. Cardinality({}) <= BatchSize
    BY FS_EmptySet, SyncAssumption
<1>4. run.findings = found /\ run.batch = C!NoBatch /\ run.stable = existing
    BY <1>1
<1> QED BY <1>2, <1>3, <1>4 DEF Sound

LEMMA Collected ==
    ASSUME NEW old, Sound(old), old.pc # "idle", NEW batch, NEW more,
           Cardinality({p \in Posts : batch[p].rev # 0}) <= BatchSize,
           NEW run, run = Collecting(old, batch, more)
    PROVE  /\ Sound(run) /\ run.pc = "send" /\ run.offset = old.offset /\ run.more = more
           /\ run.findings = old.findings /\ run.batch = batch /\ run.stable = old.stable
<1>1. run = [pc |-> "send", token |-> old.token, offset |-> old.offset, more |-> more,
             findings |-> old.findings, batch |-> batch, stable |-> old.stable]
    BY DEF Sound, Shaped, Collecting
<1>2. Shaped(run) /\ run.pc = "send" /\ run.token = old.token /\ run.offset = old.offset
    BY <1>1 DEF Shaped
<1>3. Brought(run) = {p \in Posts : batch[p].rev # 0}
    BY <1>1 DEF Brought
<1>4. run.more = more /\ run.findings = old.findings /\ run.batch = batch /\ run.stable = old.stable
    BY <1>1
<1> QED BY <1>2, <1>3, <1>4 DEF Sound

LEMMA GoOnKeeps ==
    ASSUME SyncInv, NEW r \in Runs, StartRun(r) \/ GoOn(r) \/ Losing(r), FewRuns',
           UNCHANGED <<connection, stored, setting>>
    PROVE  RunsSound' /\ FewAreLate' /\ FewArePages'
<1> USE DEF SyncInv
<1>0. Sound(runs[r])
    BY DEF RunsSound
<1>1. CASE StartRun(r)
    <2> DEFINE run == Beginning(C!NotSyncing, stored, A!FindingsForSync, C!Existing)
    <2>1. Sound(run) /\ run.pc = "collect"
        <3>1. stored # 0
            BY <1>1 DEF StartRun, C!RunStart
        <3>2. Shaped(C!NotSyncing) /\ C!NotSyncing.offset = 0 /\ C!NotSyncing.batch = C!NoBatch
            BY DEF Shaped, C!NotSyncing
        <3> QED BY <3>1, <3>2, Begun
    <2>2. RunBecomes(r, run) /\ UNCHANGED <<rows, late>>
        BY <1>1 DEF StartRun, C!RunStart, RunBecomes, Beginning
    <2> HIDE DEF run
    <2> QED BY <2>1, <2>2, RunKeeps
<1>2. CASE C!Collect(r) /\ UNCHANGED late
    <2>1. CASE C!Page(runs[r].offset) = {}
        BY <1>2, <2>1, Blank, RunKeeps DEF C!Collect, RunBecomes
    <2>2. CASE C!Page(runs[r].offset) # {}
        <3> DEFINE full == C!Cardinality(C!Page(runs[r].offset)) = BatchSize
                   run == Collecting(runs[r], C!BatchOf(r), full)
        <3>1. RunBecomes(r, run) /\ UNCHANGED rows
            BY <1>2, <2>2 DEF C!Collect, RunBecomes, Collecting
        <3> HIDE DEF full
        <3>2. Sound(run) /\ run.pc = "send"
            <4>1. Cardinality({p \in Posts : C!BatchOf(r)[p].rev # 0}) <= BatchSize
                BY <1>0, BatchFits DEF Sound
            <4> QED BY <1>0, <1>2, <4>1, Collected DEF C!Collect
        <3> HIDE DEF run
        <3> QED BY <1>2, <3>1, <3>2, RunKeeps
    <2> QED BY <2>1, <2>2
(* Only a run with the token in force is let through, so the site is        *)
(* connected.                                                              *)
<1>3. CASE C!BatchAuthenticated(r) /\ UNCHANGED late
    <2> DEFINE run == [runs[r] EXCEPT !.pc = "accept"]
    <2>1. Sound(run) /\ run.pc = "accept" /\ Brought(run) = Brought(runs[r])
        BY <1>0, <1>3 DEF Sound, Shaped, Brought, C!BatchAuthenticated
    <2>2. RunBecomes(r, run) /\ UNCHANGED rows /\ connection.live
        BY <1>0, <1>3 DEF C!BatchAuthenticated, RunBecomes, Sound
    <2> HIDE DEF run
    <2>3. RunsSound' /\ \A q \in Runs : runs'[q] = IF q = r THEN run ELSE runs[q]
        BY <2>1, <2>2, RunMoves
    <2>4. FewAreLate'
        BY <1>3, <2>2 DEF FewAreLate
    <2>5. Writing' \subseteq Writing /\ \A q \in Writing' : C!Incoming(q)' = C!Incoming(q)
        BY <2>1, <2>3 DEF Writing, Brought, C!Incoming
    <2>6. Foreseen' \subseteq Foreseen
        BY <2>2, <2>5 DEF Foreseen, C!Held
    <2> QED BY <2>3, <2>4, <2>6, PagesKeep
<1>4. CASE C!CapacityRead(r) /\ UNCHANGED late
    BY <1>4, FitsBounded DEF FewRuns
<1>5. CASE C!Refused(r) /\ UNCHANGED late
    BY <1>5, Blank, RunKeeps DEF C!Refused, RunBecomes
<1>6. CASE TakeOver(r)
    BY <1>6, TakeOverKeeps
<1>7. CASE Losing(r)
    BY <1>7, Blank, RunKeeps DEF Losing, C!RunLost, RunBecomes
<1> QED BY <1>1, <1>2, <1>3, <1>4, <1>5, <1>6, <1>7 DEF GoOn, C!RunStep

(* A connection request moves no run; it may disconnect the site.          *)
LEMMA ConnectingKeeps ==
    ASSUME SyncInv, Connecting, UNCHANGED setting
    PROVE  RunsSound' /\ FewAreLate' /\ FewArePages'
<1>1. UNCHANGED <<post, rows, runs>> /\ late' = (IF connection'.live THEN 0 ELSE late)
    BY DEF Connecting, syncVars
<1>2. RunsSound'
    BY <1>1 DEF SyncInv, RunsSound
<1>3. LetThrough' = LetThrough /\ Foreseen' = Foreseen
    BY <1>1 DEF LetThrough, Foreseen, Writing, C!Held, C!Incoming
<1>4. FewAreLate'
    <2>1. Cardinality(LetThrough) \in Nat /\ Cardinality(LetThrough) <= Cardinality(C!BusySyncing)
        BY Finite DEF LetThrough, C!BusySyncing
    <2>2. Cardinality(C!BusySyncing) \in Nat /\ Cardinality(C!BusySyncing) <= setting.runs /\ setting.runs \in Nat
        BY Finite, SyncAssumption DEF C!BusySyncing, SyncInv, FewRuns, RunsSound
    <2>3. late \in Nat /\ (IF connection.live THEN late = 0 ELSE late + Cardinality(LetThrough) <= setting.runs)
        BY DEF SyncInv, FewAreLate
    <2>4. late' \in Nat /\ (IF connection'.live THEN late' = 0 ELSE late' + Cardinality(LetThrough) <= setting.runs)
        BY <1>1, <2>1, <2>2, <2>3
    <2> QED BY <1>3, <2>4 DEF FewAreLate
<1> QED BY <1>2, <1>3, <1>4, PagesKeep

LEMMA AsideKeeps ==
    ASSUME SyncInv, UNCHANGED <<rows, runs, late, connection, setting>>
    PROVE  RunsSound' /\ FewAreLate' /\ FewArePages' /\ FewRuns'
<1>1. RunsSound' /\ FewRuns'
    BY DEF SyncInv, RunsSound, FewRuns, C!BusySyncing
<1>2. LetThrough' = LetThrough /\ Foreseen' = Foreseen
    BY DEF LetThrough, Foreseen, Writing, C!Held, C!Incoming
<1> QED BY <1>1, <1>2, PagesKeep, LateKeeps

(* An edit changes what a run could not miss, which does not matter here.  *)
LEMMA EditKeeps ==
    ASSUME SyncInv, NEW p \in Posts, NEW kind, C!EditPost(p, kind), UNCHANGED <<late, connection, setting>>
    PROVE  RunsSound' /\ FewAreLate' /\ FewArePages'
<1>1. \A r \in Runs : Sound(runs[r])
    BY DEF SyncInv, RunsSound
<1>2. \A r \in Runs : \E left : runs'[r] = [runs[r] EXCEPT !.stable = left]
    BY DEF C!EditPost
<1>3. \A r \in Runs : Sound(runs'[r]) /\ runs'[r].pc = runs[r].pc /\ runs'[r].batch = runs[r].batch
    <2> TAKE r \in Runs
    <2> DEFINE old == runs[r]  new == runs'[r]
    <2>1. PICK left : new = [old EXCEPT !.stable = left]
        BY <1>2
    <2>2. Sound(old)
        BY <1>1
    <2> HIDE DEF old, new
    <2>3. new = [pc |-> old.pc, token |-> old.token, offset |-> old.offset, more |-> old.more,
                 findings |-> old.findings, batch |-> old.batch, stable |-> left]
        BY <2>1, <2>2 DEF Sound, Shaped
    <2>4. Sound(new) /\ new.pc = old.pc /\ new.batch = old.batch
        BY <2>2, <2>3 DEF Sound, Shaped, Brought
    <2> QED BY <2>4 DEF old, new
<1>4. runs' = [r \in Runs |-> runs'[r]]
    BY DEF C!EditPost
<1>5. RunsSound'
    BY <1>3, <1>4 DEF SyncInv, RunsSound
<1>6. LetThrough' = LetThrough /\ Writing' = Writing /\ Writing \subseteq Runs
    BY <1>3 DEF LetThrough, Writing
<1>7. \A r \in Writing : C!Incoming(r)' = C!Incoming(r)
    BY <1>3 DEF Writing, C!Incoming
<1>8. C!Held' = C!Held
    BY DEF C!EditPost, C!Held
<1>9. Foreseen' \subseteq Foreseen
    BY <1>6, <1>7, <1>8 DEF Foreseen
<1> QED BY <1>5, <1>6, <1>9, PagesKeep, LateKeeps

LEMMA SyncStep == ASSUME SyncInv, [Next]_vars PROVE SyncInv'
<1>1. CASE UNCHANGED vars
    BY <1>1, AsideKeeps DEF vars, syncVars, connectionVars, SyncInv
<1>2. CASE Next
    <2>1. UNCHANGED setting /\ FewRuns'
        BY <1>2 DEF Next, Within, FewRuns
    <2>2. CASE Connecting
        BY <2>1, <2>2, ConnectingKeeps DEF SyncInv
    <2>3. CASE Syncing
        <3>1. UNCHANGED <<connection, stored>>
            BY <2>3 DEF Syncing, connectionVars
        <3>2. CASE C!Author /\ UNCHANGED <<late, losses>>
            BY <2>1, <3>1, <3>2, EditKeeps DEF C!Author, SyncInv
        <3>3. ASSUME NEW r \in Runs, StartRun(r) \/ GoOn(r) \/ Losing(r) PROVE SyncInv'
            BY <2>1, <3>1, <3>3, GoOnKeeps DEF SyncInv
        <3> QED BY <2>3, <3>2, <3>3 DEF Syncing
    <2>4. CASE Auditing \/ Reporting
        BY <2>1, <2>4, AsideKeeps DEF Auditing, Reporting, syncVars, connectionVars, SyncInv
    <2> QED BY <1>2, <2>2, <2>3, <2>4 DEF Next
<1> QED BY <1>1, <1>2

LEMMA SyncInit == ASSUME Init PROVE SyncInv
<1>1. \A r \in Runs : runs[r] = C!NotSyncing
    BY DEF Init, C!Init
<1>2. RunsSound
    BY <1>1, Blank DEF Init, C!Init, RunsSound
<1>3. C!BusySyncing = {} /\ LetThrough = {} /\ Writing = {}
    BY <1>1, Blank DEF C!BusySyncing, LetThrough, Writing
<1>4. Foreseen = {}
    BY <1>3 DEF Foreseen, Init, C!Init, C!Held, C!NoRow
<1>5. Cardinality({}) = 0 /\ setting.runs \in Nat
    BY FS_EmptySet, SyncAssumption DEF Init
<1>6. FewRuns
    BY <1>3, <1>5 DEF FewRuns
<1>7. FewAreLate
    BY <1>3, <1>5 DEF FewAreLate, Init
<1>8. FewArePages
    BY <1>4 DEF FewArePages
<1> QED BY <1>2, <1>6, <1>7, <1>8 DEF SyncInv

(***************************************************************************)
(* Once a site is disconnected at most the batches already let through are *)
(* taken over, and overlapping runs overrun the plan's limit on pages by   *)
(* at most a batch for each further run (authenticatePluginSyncRequest and *)
(* assertSyncedUrlCapacity come before the writing transaction).           *)
(***************************************************************************)
THEOREM SyncBounded == Spec => []SyncWithinBounds
<1>1. Init => SyncInv
    BY SyncInit
<1>2. SyncInv /\ [Next]_vars => SyncInv'
    BY SyncStep
<1>3. SyncInv => SyncWithinBounds
    <2> SUFFICES ASSUME SyncInv PROVE SyncWithinBounds
        OBVIOUS
    <2>1. setting.runs \in Nat /\ setting.pages \in Nat /\ BatchSize \in Nat
        BY SyncAssumption DEF SyncInv, RunsSound
    <2>2. DisconnectStopsSync
        <3>1. Cardinality(LetThrough) \in Nat
            BY Finite DEF LetThrough
        <3> QED BY <2>1, <3>1 DEF SyncInv, FewAreLate, DisconnectStopsSync
    <2>3. PagesWithinPlan
        <3>1. C!Held \subseteq Foreseen /\ Foreseen \subseteq Posts
            BY DEF Foreseen, C!Held, C!Incoming
        <3>2. /\ Cardinality(C!Held) <= Cardinality(Foreseen)
              /\ Cardinality(C!Held) \in Nat /\ Cardinality(Foreseen) \in Nat
            BY <3>1, Finite
        <3>3. CASE C!Held # {}
            <4>1. Cardinality(Foreseen) <= setting.pages + (setting.runs - 1) * BatchSize
                BY <3>1, <3>3 DEF SyncInv, FewArePages
            <4>2. setting.pages + (setting.runs - 1) * BatchSize \in Int
                BY <2>1
            <4>3. Cardinality(C!Held) <= setting.pages + (setting.runs - 1) * BatchSize
                BY <3>2, <4>1, <4>2
            <4> QED BY <4>3 DEF PagesWithinPlan
        <3> QED BY <3>3 DEF PagesWithinPlan
    <2> QED BY <2>2, <2>3 DEF SyncWithinBounds
<1> QED BY <1>1, <1>2, <1>3, PTL DEF Spec

-----------------------------------------------------------------------------
(* The audits *)

Runner == [pc: {"idle", "collected"}, items: [Posts -> A!Verdicts]]
Admin == [pc: {"idle", "rule"}, post: Posts \cup {0}, ignore: BOOLEAN, audit: A!Audit]

PostTypes == post \in [Posts -> [kind: C!Kinds, rev: Nat]]

LEMMA AuditRecords ==
    /\ A!Nothing \in [Posts -> A!Verdicts]
    /\ A!NotRunning \in Runner /\ A!NotRunning.pc = "idle"
    /\ A!NotChanging \in Admin /\ A!NotChanging.pc = "idle"
    /\ \A one \in A!Audit : one.items \in [Posts -> A!Verdicts] /\ one.number \in Nat
    /\ \A one \in Runner : one.pc \in {"idle", "collected"} /\ one.items \in [Posts -> A!Verdicts]
    /\ \A one \in Admin : one.ignore \in BOOLEAN /\ one.audit \in A!Audit
<1>1. A!Nothing \in [Posts -> A!Verdicts]
    BY DEF A!Nothing, A!Verdicts
<1>2. A!NotRunning \in Runner /\ A!NotRunning.pc = "idle"
    BY <1>1 DEF A!NotRunning, Runner
<1>3. A!NotChanging \in Admin /\ A!NotChanging.pc = "idle"
    BY <1>1 DEF A!NotChanging, Admin, A!Audit
<1>4. \A one \in A!Audit : one.items \in [Posts -> A!Verdicts] /\ one.number \in Nat
    BY DEF A!Audit
<1>5. \A one \in Runner : one.pc \in {"idle", "collected"} /\ one.items \in [Posts -> A!Verdicts]
    BY DEF Runner
<1>6. \A one \in Admin : one.ignore \in BOOLEAN /\ one.audit \in A!Audit
    BY DEF Admin
<1> QED BY <1>1, <1>2, <1>3, <1>4, <1>5, <1>6

LEMMA VerdictTypes == ASSUME PostTypes PROVE [p \in Posts |-> A!Verdict(p)] \in [Posts -> A!Verdicts]
<1>1. ASSUME NEW p \in Posts PROVE A!Verdict(p) \in A!Verdicts
    <2>1. post[p].kind \in {"none", "draft", "good", "bad"}
        BY DEF PostTypes, C!Kinds
    <2>2. CASE post[p].kind \in {"none", "draft"}
        BY <2>2 DEF A!Verdict, A!Verdicts
    <2>3. CASE post[p].kind = "good"
        BY <2>3 DEF A!Verdict, A!Verdicts
    <2>4. CASE post[p].kind = "bad"
        BY <2>4 DEF A!Verdict, A!Verdicts
    <2> QED BY <2>1, <2>2, <2>3, <2>4
<1> QED BY <1>1

LEMMA NotedTypes ==
    ASSUME NEW read \in A!Audit, NEW p, NEW ignore
    PROVE  /\ [read EXCEPT !.items[p] = IF ignore THEN "ignored" ELSE "active"] \in A!Audit
           /\ [read EXCEPT !.items[p] = IF ignore THEN "ignored" ELSE "active"].number = read.number
           /\ [read EXCEPT !.items[p] = IF ignore THEN "ignored" ELSE "active"].items
                  = [read.items EXCEPT ![p] = IF ignore THEN "ignored" ELSE "active"]
<1> DEFINE verdict == IF ignore THEN "ignored" ELSE "active"
<1>1. verdict \in A!Verdicts
    BY DEF A!Verdicts
<1> HIDE DEF verdict
<1>2. /\ [read EXCEPT !.items[p] = verdict] \in A!Audit
      /\ [read EXCEPT !.items[p] = verdict].number = read.number
      /\ [read EXCEPT !.items[p] = verdict].items = [read.items EXCEPT ![p] = verdict]
    BY <1>1 DEF A!Audit
<1> QED BY <1>2 DEF verdict

LEMMA AuditTypesKeep == ASSUME A!AuditTypes, PostTypes, A!Next PROVE A!AuditTypes'
<1>0. /\ audit \in A!Audit /\ due \in BOOLEAN /\ rules \in SUBSET Posts
      /\ runner \in [Auditors -> Runner] /\ admin \in [Admins -> Admin]
    BY DEF A!AuditTypes, Runner, Admin
<1>g. \A status \in {"none", "queued", "complete", "error"} : [audit EXCEPT !.status = status] \in A!Audit
    BY <1>0 DEF A!Audit
<1>k. /\ audit' \in A!Audit /\ due' \in BOOLEAN /\ rules' \in SUBSET Posts
      /\ runner' \in [Auditors -> Runner] /\ admin' \in [Admins -> Admin]
      => A!AuditTypes'
    BY DEF A!AuditTypes, Runner, Admin
<1>1. CASE A!QueueAudit
    BY <1>0, <1>1, <1>g, <1>k DEF A!QueueAudit
<1>2. ASSUME NEW a \in Auditors, A!AuditQueued(a) \/ A!AuditScheduled(a) PROVE A!AuditTypes'
    <2> DEFINE found == [pc |-> "collected", items |-> [p \in Posts |-> A!Verdict(p)]]
    <2>1. found \in Runner
        BY VerdictTypes DEF Runner
    <2>2. runner' = [runner EXCEPT ![a] = found] /\ UNCHANGED <<rules, admin>>
        BY <1>2 DEF A!AuditQueued, A!AuditScheduled, A!Collect
    <2> HIDE DEF found
    <2>3. due' \in BOOLEAN
        BY <1>0, <1>2 DEF A!AuditQueued, A!AuditScheduled
    <2>4. audit' \in {audit, [audit EXCEPT !.status = "queued"]}
        BY <1>2 DEF A!AuditQueued, A!AuditScheduled, A!Collect
    <2> QED BY <1>0, <1>g, <1>k, <2>1, <2>2, <2>3, <2>4
<1>3. ASSUME NEW a \in Auditors, A!AuditComplete(a) \/ A!AuditFail(a) \/ A!AuditKilled(a) PROVE A!AuditTypes'
    <2>1. runner' \in [Auditors -> Runner] /\ UNCHANGED <<due, rules, admin>>
        BY <1>0, <1>3, AuditRecords DEF A!AuditComplete, A!AuditFail, A!AuditKilled
    <2>2. runner[a].items \in [Posts -> A!Verdicts] /\ A!Nothing \in [Posts -> A!Verdicts]
        BY <1>0, AuditRecords
    <2>3. CASE A!AuditComplete(a)
        BY <1>0, <1>k, <2>1, <2>2, <2>3 DEF A!AuditComplete, A!Audit
    <2>4. CASE A!AuditFail(a)
        BY <1>0, <1>k, <2>1, <2>2, <2>4 DEF A!AuditFail, A!Audit
    <2>5. CASE A!AuditKilled(a)
        BY <1>0, <1>k, <2>1, <2>5 DEF A!AuditKilled
    <2> QED BY <1>3, <2>3, <2>4, <2>5
<1>4. ASSUME NEW h \in Admins, NEW p \in Posts, NEW ignore \in BOOLEAN, A!RuleSaved(h, p, ignore) PROVE A!AuditTypes'
    <2> DEFINE saved == [pc |-> "rule", post |-> p, ignore |-> ignore, audit |-> audit]
    <2>1. saved \in Admin
        BY <1>0 DEF Admin
    <2>2. admin' = [admin EXCEPT ![h] = saved] /\ UNCHANGED <<audit, due, runner>> /\ rules' \in SUBSET Posts
        BY <1>0, <1>4 DEF A!RuleSaved
    <2> HIDE DEF saved
    <2> QED BY <1>0, <1>k, <2>1, <2>2
<1>5. ASSUME NEW h \in Admins, A!RuleNoted(h) PROVE A!AuditTypes'
    <2>1. admin[h].audit \in A!Audit
        BY <1>0, AuditRecords
    <2>2. audit' \in A!Audit
        BY <1>5, <2>1, NotedTypes DEF A!RuleNoted
    <2>3. admin' \in [Admins -> Admin] /\ UNCHANGED <<due, rules, runner>>
        BY <1>0, <1>5, AuditRecords DEF A!RuleNoted
    <2> QED BY <1>0, <1>k, <2>2, <2>3
<1> QED BY <1>1, <1>2, <1>3, <1>4, <1>5 DEF A!Next

Alone == \A x, y \in A!BusyAuditing : x = y

(* Audits and rules one at a time: nothing that is ignored on purpose is    *)
(* found by the run under way, nor said by the stored audit, unless the     *)
(* change of that rule has still to be noted; and what is noted then is     *)
(* the stored audit.                                                       *)
Intended(verdicts, ignored) == \A q \in ignored : verdicts[q] # "active"

Noting(h) == h \in Admins /\ admin[h].pc = "rule"

ToNote(change, ignored, number) ==
    /\ change.post \in Posts
    /\ change.audit.items[change.post] \in {"active", "ignored"}
    /\ Intended(change.audit.items, ignored \ {change.post})
    /\ change.ignore <=> change.post \in ignored
    /\ change.audit.number = number

OneAudit ==
    /\ \A a \in Auditors : runner[a].pc = "collected" => Intended(runner[a].items, rules)
    /\ \A q \in rules : audit.items[q] = "active" => \E h \in Admins : Noting(h) /\ admin[h].post = q
    /\ \A h \in Admins : Noting(h) => ToNote(admin[h], rules, audit.number)

AuditInv == A!AuditTypes /\ (setting.auditing = 1 => Alone /\ OneAudit)

LEMMA AuditBusy ==
    /\ \A a \in Auditors : runner[a].pc # "idle" => a \in A!BusyAuditing
    /\ \A h \in Admins : admin[h].pc # "idle" => h \in A!BusyAuditing
    /\ \A x \in A!BusyAuditing : (x \in Auditors /\ runner[x].pc # "idle") \/ (x \in Admins /\ admin[x].pc # "idle")
    /\ \A a \in Auditors, h \in Admins : a # h
<1>1. \A a \in Auditors, h \in Admins : a # h
    BY SyncAssumption
<1>2. \A a \in Auditors : runner[a].pc # "idle" => a \in A!BusyAuditing
    BY DEF A!BusyAuditing
<1>3. \A h \in Admins : admin[h].pc # "idle" => h \in A!BusyAuditing
    BY DEF A!BusyAuditing
<1>4. \A x \in A!BusyAuditing : (x \in Auditors /\ runner[x].pc # "idle") \/ (x \in Admins /\ admin[x].pc # "idle")
    BY DEF A!BusyAuditing
<1> QED BY <1>1, <1>2, <1>3, <1>4

(* While an audit runs, and while none does, no rule is being changed. *)
LEMMA Quiet ==
    ASSUME A!AuditTypes, Alone, OneAudit,
           (\E a \in Auditors : runner[a].pc = "collected") \/ A!BusyAuditing = {}
    PROVE  (\A h \in Admins : ~Noting(h)) /\ Intended(audit.items, rules)
<1>1. \A h \in Admins : ~Noting(h)
    BY AuditBusy DEF Alone, Noting
<1> QED BY <1>1 DEF OneAudit, Intended

LEMMA OneAuditKeeps ==
    ASSUME A!AuditTypes, PostTypes, Alone, OneAudit, A!Next, Alone'
    PROVE  OneAudit' /\ audit.number <= audit'.number
<1>0. /\ audit \in A!Audit /\ due \in BOOLEAN /\ rules \in SUBSET Posts
      /\ runner \in [Auditors -> Runner] /\ admin \in [Admins -> Admin]
      /\ audit.number \in Nat /\ audit.items \in [Posts -> A!Verdicts]
    BY AuditRecords DEF A!AuditTypes, Runner, Admin
(* A step that leaves the rules, their changes and what the audit says. *)
<1>1. ASSUME UNCHANGED <<rules, admin>>, audit'.items = audit.items, audit'.number = audit.number,
             \A a \in Auditors : runner'[a].pc = "collected" =>
                 runner'[a] = runner[a] \/ Intended(runner'[a].items, rules)
      PROVE  OneAudit' /\ audit.number <= audit'.number
    <2>1. \A a \in Auditors : runner'[a].pc = "collected" => Intended(runner'[a].items, rules)
        BY <1>1 DEF OneAudit
    <2>2. \A h : Noting(h)' <=> Noting(h)
        BY <1>1 DEF Noting
    <2>3. \A h \in Admins : Noting(h)' => ToNote(admin'[h], rules', audit'.number)
        BY <1>1, <2>2 DEF OneAudit
    <2>4. \A q \in rules' : audit'.items[q] = "active" => \E h \in Admins : Noting(h)' /\ admin'[h].post = q
        BY <1>1, <2>2 DEF OneAudit
    <2> QED BY <1>0, <1>1, <2>1, <2>3, <2>4 DEF OneAudit
<1>2. CASE A!QueueAudit
    BY <1>0, <1>1, <1>2 DEF A!QueueAudit, A!Audit
<1>3. ASSUME NEW a \in Auditors, A!AuditQueued(a) \/ A!AuditScheduled(a)
      PROVE  OneAudit' /\ audit.number <= audit'.number
    <2> DEFINE found == [pc |-> "collected", items |-> [p \in Posts |-> A!Verdict(p)]]
    <2>1. runner' = [runner EXCEPT ![a] = found] /\ UNCHANGED <<rules, admin>>
        BY <1>3 DEF A!AuditQueued, A!AuditScheduled, A!Collect
    <2>2. audit' \in {audit, [audit EXCEPT !.status = "queued"]}
        BY <1>3 DEF A!AuditQueued, A!AuditScheduled, A!Collect
    <2>3. audit'.items = audit.items /\ audit'.number = audit.number
        BY <1>0, <2>2 DEF A!Audit
    <2>4. Intended(found.items, rules)
        <3> SUFFICES ASSUME NEW q \in rules PROVE A!Verdict(q) # "active"
            BY <1>0 DEF Intended
        <3>1. post[q].kind \in {"none", "draft", "good", "bad"}
            BY <1>0 DEF PostTypes, C!Kinds
        <3>2. CASE post[q].kind \in {"none", "draft"}
            BY <3>2 DEF A!Verdict
        <3>3. CASE post[q].kind = "good"
            BY <3>3 DEF A!Verdict
        <3>4. CASE post[q].kind = "bad"
            BY <3>4 DEF A!Verdict
        <3> QED BY <3>1, <3>2, <3>3, <3>4
    <2> HIDE DEF found
    <2>5. \A b \in Auditors : runner'[b] = IF b = a THEN found ELSE runner[b]
        BY <1>0, <2>1
    <2> QED BY <1>1, <2>1, <2>3, <2>4, <2>5
<1>4. ASSUME NEW a \in Auditors, A!AuditComplete(a) \/ A!AuditFail(a) \/ A!AuditKilled(a)
      PROVE  OneAudit' /\ audit.number <= audit'.number
    <2>1. /\ UNCHANGED <<rules, admin>> /\ runner[a].pc = "collected"
          /\ \A b \in Auditors : runner'[b] = IF b = a THEN A!NotRunning ELSE runner[b]
        BY <1>0, <1>4 DEF A!AuditComplete, A!AuditFail, A!AuditKilled
    <2>2. (\A h \in Admins : ~Noting(h)) /\ Intended(audit.items, rules) /\ Intended(runner[a].items, rules)
        BY <2>1, Quiet DEF OneAudit
    <2>3. Intended(A!Nothing, rules)
        BY <1>0 DEF A!Nothing, Intended
    <2>4. \A b \in Auditors : runner'[b].pc = "collected" => Intended(runner'[b].items, rules)
        BY <2>1, AuditRecords DEF OneAudit
    <2>5. \A h \in Admins : ~Noting(h)'
        BY <2>1, <2>2 DEF Noting
    <2>6. Intended(audit'.items, rules) /\ audit.number <= audit'.number
        <3>1. CASE A!AuditComplete(a)
            BY <1>0, <2>2, <3>1 DEF A!AuditComplete
        <3>2. CASE A!AuditFail(a)
            <4>1. audit'.items = A!Nothing /\ audit'.number = audit.number
                BY <1>0, <3>2 DEF A!AuditFail, A!Audit
            <4> QED BY <1>0, <2>3, <4>1
        <3>3. CASE A!AuditKilled(a)
            BY <1>0, <2>2, <3>3 DEF A!AuditKilled
        <3> QED BY <1>4, <3>1, <3>2, <3>3
    <2> QED BY <2>1, <2>4, <2>5, <2>6 DEF OneAudit, Intended
<1>5. ASSUME NEW h \in Admins, NEW p \in Posts, NEW ignore \in BOOLEAN, A!RuleSaved(h, p, ignore)
      PROVE  OneAudit' /\ audit.number <= audit'.number
    <2> DEFINE saved == [pc |-> "rule", post |-> p, ignore |-> ignore, audit |-> audit]
    <2>1. /\ UNCHANGED <<audit, due, runner>> /\ audit.items[p] \in {"active", "ignored"}
          /\ rules' = IF ignore THEN rules \cup {p} ELSE rules \ {p}
          /\ \A g \in Admins : admin'[g] = IF g = h THEN saved ELSE admin[g]
        BY <1>0, <1>5 DEF A!RuleSaved
    <2>2. saved.pc = "rule" /\ saved.post = p /\ saved.ignore = ignore /\ saved.audit = audit
        OBVIOUS
    <2> HIDE DEF saved
    <2>3. h \in A!BusyAuditing'
        BY <2>1, <2>2 DEF A!BusyAuditing
    <2>4. \A a \in Auditors : runner[a].pc = "idle"
        <3> SUFFICES ASSUME NEW a \in Auditors, runner[a].pc # "idle" PROVE FALSE
            OBVIOUS
        <3>1. a \in A!BusyAuditing'
            BY <2>1 DEF A!BusyAuditing
        <3> QED BY <2>3, <3>1, AuditBusy DEF Alone
    <2>5. \A g \in Admins : g # h => admin[g].pc = "idle"
        <3> SUFFICES ASSUME NEW g \in Admins, g # h, admin[g].pc # "idle" PROVE FALSE
            OBVIOUS
        <3>1. g \in A!BusyAuditing'
            BY <2>1 DEF A!BusyAuditing
        <3> QED BY <2>3, <3>1 DEF Alone
    <2>6. A!BusyAuditing = {}
        BY <1>5, <2>4, <2>5, AuditBusy DEF A!RuleSaved
    <2>7. Intended(audit.items, rules)
        BY <2>6, Quiet
    <2>8. Noting(h)' /\ admin'[h].post = p /\ \A g \in Admins : Noting(g)' => g = h
        BY <2>1, <2>2, <2>5 DEF Noting
    <2>9. Intended(audit.items, rules' \ {p}) /\ (ignore <=> p \in rules')
        BY <2>1, <2>7 DEF Intended
    <2>10. \A q \in rules' : audit'.items[q] = "active" => \E g \in Admins : Noting(g)' /\ admin'[g].post = q
        BY <2>1, <2>8, <2>9 DEF Intended
    <2>11. \A a \in Auditors : runner'[a].pc # "collected"
        BY <2>1, <2>4
    <2>12. ToNote(saved, rules', audit.number)
        BY <2>1, <2>2, <2>9 DEF ToNote
    <2>13. \A g \in Admins : Noting(g)' => ToNote(admin'[g], rules', audit'.number)
        BY <2>1, <2>8, <2>12
    <2>14. OneAudit'
        BY <2>10, <2>11, <2>13 DEF OneAudit
    <2> QED BY <1>0, <2>1, <2>14
<1>6. ASSUME NEW h \in Admins, A!RuleNoted(h)
      PROVE  OneAudit' /\ audit.number <= audit'.number
    <2> DEFINE read == admin[h].audit  p == admin[h].post
               verdict == IF admin[h].ignore THEN "ignored" ELSE "active"
    <2>1. /\ UNCHANGED <<due, rules, runner>> /\ Noting(h)
          /\ \A g \in Admins : admin'[g] = IF g = h THEN A!NotChanging ELSE admin[g]
        BY <1>0, <1>6 DEF A!RuleNoted, Noting
    <2>2. /\ p \in Posts /\ read.items[p] \in {"active", "ignored"} /\ Intended(read.items, rules \ {p})
          /\ admin[h].ignore <=> p \in rules
          /\ read.number = audit.number
        BY <2>1 DEF OneAudit, ToNote
    <2>3. read \in A!Audit /\ read.items \in [Posts -> A!Verdicts]
        BY <1>0, AuditRecords
    <2>4. audit'.number = audit.number /\ audit'.items = [read.items EXCEPT ![p] = verdict]
        <3>1. audit' = [read EXCEPT !.items[p] = verdict]
            BY <1>6, <2>2 DEF A!RuleNoted
        <3> QED BY <2>2, <2>3, <3>1, NotedTypes
    <2>5. Intended(audit'.items, rules)
        BY <1>0, <2>2, <2>3, <2>4 DEF Intended
    <2>6. (\A a \in Auditors : runner[a].pc # "collected") /\ \A g \in Admins : ~Noting(g)'
        <3>1. h \in A!BusyAuditing
            BY <2>1, AuditBusy DEF Noting
        <3>2. \A a \in Auditors : runner[a].pc = "idle"
            BY <3>1, AuditBusy DEF Alone
        <3>3. \A g \in Admins : g # h => admin[g].pc = "idle"
            BY <3>1, AuditBusy DEF Alone
        <3> QED BY <2>1, <3>2, <3>3, AuditRecords DEF Noting
    <2> QED BY <1>0, <2>1, <2>4, <2>5, <2>6 DEF OneAudit, Intended
<1> QED BY <1>2, <1>3, <1>4, <1>5, <1>6 DEF A!Next

(* Findings that are ignored on purpose are not said of a post. *)
LEMMA IgnoredLeftOut == ASSUME AuditInv PROVE IgnoredStaysOut
<1> SUFFICES ASSUME setting.auditing = 1, A!BusyAuditing = {},
                    NEW p \in DOMAIN A!FindingsForSync \cap rules
             PROVE  ~A!FindingsForSync[p].bad
    BY DEF IgnoredStaysOut
<1>1. Intended(audit.items, rules)
    BY Quiet DEF AuditInv
<1>2. A!FindingsForSync[p].bad = (audit.items[p] = "active")
    BY DEF A!FindingsForSync
<1> QED BY <1>1, <1>2 DEF Intended

LEMMA AuditInit == ASSUME Init PROVE AuditInv
<1>1. /\ audit = [status |-> "none", items |-> A!Nothing, number |-> 0] /\ due = FALSE /\ rules = {}
      /\ runner = [a \in Auditors |-> A!NotRunning] /\ admin = [h \in Admins |-> A!NotChanging]
    BY DEF Init, A!Init
<1>2. audit \in A!Audit
    BY <1>1, AuditRecords DEF A!Audit
<1>3. A!AuditTypes
    <2>1. runner \in [Auditors -> Runner] /\ admin \in [Admins -> Admin]
        BY <1>1, AuditRecords
    <2>2. due \in BOOLEAN /\ rules \in SUBSET Posts
        BY <1>1
    <2> QED BY <1>2, <2>1, <2>2 DEF A!AuditTypes, Runner, Admin
<1>4. A!BusyAuditing = {}
    BY <1>1, AuditRecords DEF A!BusyAuditing
<1>5. OneAudit
    BY <1>1, AuditRecords DEF OneAudit, Noting
<1> QED BY <1>3, <1>4, <1>5 DEF AuditInv, Alone

LEMMA AuditAside == ASSUME AuditInv, UNCHANGED <<auditVars, setting>> PROVE AuditInv'
<1>1. UNCHANGED <<audit, due, rules, runner, admin, setting>>
    BY DEF auditVars
<1>2. A!AuditTypes'
    BY <1>1 DEF AuditInv, A!AuditTypes
<1>3. Alone => Alone'
    BY <1>1 DEF Alone, A!BusyAuditing
<1>4. OneAudit => OneAudit'
    BY <1>1 DEF OneAudit, Noting
<1> QED BY <1>1, <1>2, <1>3, <1>4 DEF AuditInv

-----------------------------------------------------------------------------
(* The updates *)

(* An event tells of a version that is remembered by now, and of the one   *)
(* before or of none.                                                      *)
Told(change, remembered) ==
    /\ change \in E!Change
    /\ change.new <= remembered[change.of]
    /\ change.old \in {0, change.new - 1}

Same(one, other) == one.of = other.of /\ one.new = other.new
Distinct(events) == \A i, j \in DOMAIN events : Same(events[i], events[j]) => i = j

(* Nothing is told twice by the events that wait and those that were sent. *)
TellsOnce(waiting, sent, remembered) ==
    /\ \A i \in DOMAIN waiting : Told(waiting[i], remembered)
    /\ \A i \in DOMAIN sent : Told(sent[i], remembered)
    /\ Distinct(waiting) /\ Distinct(sent)
    /\ \A i \in DOMAIN waiting : \A j \in DOMAIN sent : ~Same(waiting[i], sent[j])

(* What is remembered of WordPress is behind by at most the update whose   *)
(* hooks still have to run; of a plugin it is nothing or its version.      *)
Remembering ==
    /\ hooks = 0 => known[WpCore] \in {0, version[WpCore]}
    /\ hooks = 1 => known[WpCore] = version[WpCore]
    /\ hooks = 2 => known[WpCore] \in {0, version[WpCore] - 1, version[WpCore]}
    /\ \A p \in WpPlugins : known[p] \in {0, version[p]}

EventsInv == E!EventTypes /\ Remembering /\ TellsOnce(queued, timeline, known)

Grows(old, new) == \A c \in E!Components : old[c] <= new[c]

LEMMA ToldKeeps ==
    ASSUME NEW old \in [E!Components -> Nat], NEW new \in [E!Components -> Nat], Grows(old, new),
           NEW waiting \in Seq(E!Change), NEW sent \in Seq(E!Change), TellsOnce(waiting, sent, old)
    PROVE  TellsOnce(waiting, sent, new)
<1>1. ASSUME NEW change, Told(change, old) PROVE Told(change, new)
    <2>1. change.of \in E!Components /\ change.new \in Nat
        BY <1>1 DEF Told, E!Change
    <2>2. old[change.of] <= new[change.of] /\ old[change.of] \in Nat /\ new[change.of] \in Nat
        BY <2>1 DEF Grows
    <2> QED BY <1>1, <2>1, <2>2 DEF Told
<1> QED BY <1>1 DEF TellsOnce

(* An event joins those that wait when it tells of a version that was not  *)
(* remembered yet.                                                         *)
LEMMA Queueing ==
    ASSUME NEW old \in [E!Components -> Nat], NEW new \in [E!Components -> Nat], Grows(old, new),
           NEW waiting \in Seq(E!Change), NEW sent \in Seq(E!Change), TellsOnce(waiting, sent, old),
           NEW change, Told(change, new), old[change.of] < change.new
    PROVE  Append(waiting, change) \in Seq(E!Change) /\ TellsOnce(Append(waiting, change), sent, new)
<1>1. TellsOnce(waiting, sent, new)
    BY ToldKeeps
<1>2. change \in E!Change /\ change.of \in E!Components /\ change.new \in Nat
    BY DEF Told, E!Change
<1>3. ASSUME NEW other, Told(other, old) PROVE ~Same(other, change) /\ ~Same(change, other)
    <2>1. other.new \in Nat /\ other.new <= old[other.of]
        BY <1>3 DEF Told, E!Change
    <2>2. old[change.of] \in Nat
        BY <1>2
    <2> QED BY <1>2, <2>1, <2>2 DEF Same
<1> DEFINE longer == Append(waiting, change)
<1>4. /\ longer \in Seq(E!Change) /\ Len(longer) = Len(waiting) + 1 /\ Len(waiting) \in Nat
      /\ DOMAIN longer = 1..Len(waiting) + 1 /\ DOMAIN waiting = 1..Len(waiting)
      /\ \A i \in DOMAIN waiting : longer[i] = waiting[i]
      /\ longer[Len(waiting) + 1] = change
    BY <1>2
<1> HIDE DEF longer
<1>5. \A i \in DOMAIN longer : Told(longer[i], new)
    <2> TAKE i \in DOMAIN longer
    <2>1. i \in DOMAIN waiting \/ i = Len(waiting) + 1
        BY <1>4
    <2> QED BY <1>1, <1>4, <2>1 DEF TellsOnce
<1>6. Distinct(longer)
    <2> SUFFICES ASSUME NEW i \in DOMAIN longer, NEW j \in DOMAIN longer, Same(longer[i], longer[j]) PROVE i = j
        BY DEF Distinct
    <2>1. (i \in DOMAIN waiting \/ i = Len(waiting) + 1) /\ (j \in DOMAIN waiting \/ j = Len(waiting) + 1)
        BY <1>4
    <2>2. CASE i \in DOMAIN waiting /\ j \in DOMAIN waiting
        BY <1>4, <2>2 DEF TellsOnce, Distinct
    <2>3. CASE i \in DOMAIN waiting /\ j = Len(waiting) + 1
        BY <1>3, <1>4, <2>3 DEF TellsOnce
    <2>4. CASE i = Len(waiting) + 1 /\ j \in DOMAIN waiting
        BY <1>3, <1>4, <2>4 DEF TellsOnce
    <2> QED BY <2>1, <2>2, <2>3, <2>4
<1>7. \A i \in DOMAIN longer : \A j \in DOMAIN sent : ~Same(longer[i], sent[j])
    <2> TAKE i \in DOMAIN longer
    <2> TAKE j \in DOMAIN sent
    <2>1. i \in DOMAIN waiting \/ i = Len(waiting) + 1
        BY <1>4
    <2>2. CASE i \in DOMAIN waiting
        BY <1>4, <2>2 DEF TellsOnce
    <2>3. CASE i = Len(waiting) + 1
        BY <1>3, <1>4, <2>3 DEF TellsOnce
    <2> QED BY <2>1, <2>2, <2>3
<1> QED BY <1>1, <1>4, <1>5, <1>6, <1>7 DEF TellsOnce, longer

(* An event is sent or dropped. *)
LEMMA Sending ==
    ASSUME NEW remembered, NEW waiting \in Seq(E!Change), NEW sent \in Seq(E!Change),
           TellsOnce(waiting, sent, remembered), NEW n \in DOMAIN waiting
    PROVE  /\ E!RemoveAt(waiting, n) \in Seq(E!Change) /\ Append(sent, waiting[n]) \in Seq(E!Change)
           /\ TellsOnce(E!RemoveAt(waiting, n), sent, remembered)
           /\ TellsOnce(E!RemoveAt(waiting, n), Append(sent, waiting[n]), remembered)
<1> DEFINE left == E!RemoveAt(waiting, n)
           longer == Append(sent, waiting[n])
           At(i) == IF i < n THEN i ELSE i + 1
<1>1. n \in 1..Len(waiting) /\ Len(waiting) \in Nat /\ DOMAIN waiting = 1..Len(waiting)
    OBVIOUS
<1>2. /\ left \in Seq(E!Change) /\ Len(left) = Len(waiting) - 1
      /\ \A i \in 1..Len(waiting) - 1 : left[i] = waiting[At(i)]
    <2> DEFINE front == SubSeq(waiting, 1, n - 1)  back == SubSeq(waiting, n + 1, Len(waiting))
    <2>1. front \in Seq(E!Change) /\ Len(front) = n - 1 /\ \A i \in 1..n - 1 : front[i] = waiting[i]
        BY <1>1
    <2>2. /\ back \in Seq(E!Change) /\ Len(back) = Len(waiting) - n
          /\ \A i \in 1..Len(waiting) - n : back[i] = waiting[n + i]
        <3>1. \A i \in n + 1..Len(waiting) : waiting[i] \in E!Change
            BY <1>1
        <3>2. /\ back \in Seq(E!Change)
              /\ Len(back) = IF n + 1 <= Len(waiting) THEN Len(waiting) - (n + 1) + 1 ELSE 0
              /\ \A i \in 1..Len(waiting) - (n + 1) + 1 : back[i] = waiting[n + 1 + i - 1]
            BY <1>1, <3>1, SubSeqProperties
        <3>3. Len(back) = Len(waiting) - n
            BY <1>1, <3>2
        <3>4. ASSUME NEW i \in 1..Len(waiting) - n PROVE back[i] = waiting[n + i]
            <4>1. i \in 1..Len(waiting) - (n + 1) + 1 /\ n + 1 + i - 1 = n + i
                BY <1>1
            <4> HIDE DEF back
            <4> QED BY <3>2, <4>1
        <3> QED BY <3>2, <3>3, <3>4
    <2>3. left = front \o back
        BY DEF E!RemoveAt
    <2> HIDE DEF front, back, left
    <2>4. left \in Seq(E!Change) /\ Len(left) = Len(waiting) - 1
        <3>1. front \o back \in Seq(E!Change) /\ Len(front \o back) = Len(front) + Len(back)
            BY <2>1, <2>2, ConcatProperties
        <3> QED BY <1>1, <2>1, <2>2, <2>3, <3>1
    <2>5. \A i \in 1..Len(waiting) - 1 : left[i] = IF i <= n - 1 THEN front[i] ELSE back[i - (n - 1)]
        <3>1. \A i \in 1..Len(front) + Len(back) :
                  (front \o back)[i] = IF i <= Len(front) THEN front[i] ELSE back[i - Len(front)]
            BY <2>1, <2>2, ConcatProperties
        <3>2. Len(front) + Len(back) = Len(waiting) - 1
            BY <1>1, <2>1, <2>2
        <3> QED BY <2>1, <2>3, <3>1, <3>2
    <2>6. \A i \in 1..Len(waiting) - 1 : left[i] = waiting[At(i)]
        <3> TAKE i \in 1..Len(waiting) - 1
        <3>1. CASE i < n
            BY <1>1, <2>1, <2>5, <3>1
        <3>2. CASE ~(i < n)
            <4>1. i - (n - 1) \in 1..Len(waiting) - n /\ n + (i - (n - 1)) = i + 1
                BY <1>1, <3>2
            <4>2. left[i] = back[i - (n - 1)]
                BY <1>1, <2>5, <3>2
            <4>3. back[i - (n - 1)] = waiting[n + (i - (n - 1))]
                BY <2>2, <4>1
            <4> QED BY <3>2, <4>1, <4>2, <4>3
        <3> QED BY <3>1, <3>2
    <2> QED BY <2>4, <2>6
<1> HIDE DEF left
<1>3. DOMAIN left = 1..Len(waiting) - 1
    BY <1>1, <1>2
<1>4. \A i \in DOMAIN left : left[i] = waiting[At(i)] /\ At(i) \in DOMAIN waiting /\ At(i) # n
    BY <1>1, <1>2, <1>3
<1>5. \A i, j \in DOMAIN left : At(i) = At(j) => i = j
    BY <1>1, <1>3
<1>6. /\ longer \in Seq(E!Change) /\ Len(longer) = Len(sent) + 1 /\ Len(sent) \in Nat
      /\ DOMAIN longer = 1..Len(sent) + 1 /\ DOMAIN sent = 1..Len(sent)
      /\ \A i \in DOMAIN sent : longer[i] = sent[i]
      /\ longer[Len(sent) + 1] = waiting[n]
    BY <1>1
<1> HIDE DEF longer, At
<1>7. \A i \in DOMAIN longer : i \in DOMAIN sent \/ i = Len(sent) + 1
    BY <1>6
<1>8. Distinct(left) /\ \A i \in DOMAIN left : Told(left[i], remembered)
    BY <1>4, <1>5 DEF TellsOnce, Distinct
<1>9. \A i \in DOMAIN left : (\A j \in DOMAIN sent : ~Same(left[i], sent[j])) /\ ~Same(left[i], waiting[n])
    BY <1>4 DEF TellsOnce, Distinct
<1>10. TellsOnce(left, sent, remembered)
    BY <1>8, <1>9 DEF TellsOnce
<1>11. \A i \in DOMAIN longer : Told(longer[i], remembered)
    BY <1>6, <1>7 DEF TellsOnce
<1>12. Distinct(longer)
    <2>1. \A i \in DOMAIN sent : ~Same(sent[i], waiting[n]) /\ ~Same(waiting[n], sent[i])
        BY DEF TellsOnce, Same
    <2> QED BY <1>6, <1>7, <2>1 DEF TellsOnce, Distinct
<1>13. \A i \in DOMAIN left : \A j \in DOMAIN longer : ~Same(left[i], longer[j])
    BY <1>6, <1>7, <1>9
<1> QED BY <1>2, <1>6, <1>8, <1>10, <1>11, <1>12, <1>13 DEF TellsOnce, left, longer

LEMMA EventStep == ASSUME EventsInv, E!Next PROVE EventsInv'
<1>0. /\ version \in [E!Components -> Nat] /\ known \in [E!Components -> Nat] /\ seeded \in BOOLEAN
      /\ hooks \in 0..2 /\ queued \in Seq(E!Change) /\ timeline \in Seq(E!Change)
      /\ Remembering /\ TellsOnce(queued, timeline, known)
    BY DEF EventsInv, E!EventTypes
<1>c. /\ WpCore \in E!Components /\ WpCore \notin WpPlugins
      /\ \A c \in E!Components : c = WpCore \/ c \in WpPlugins
      /\ \A p \in WpPlugins : p \in E!Components /\ p # WpCore
    BY SyncAssumption DEF E!Components
<1>1. CASE E!EnsureBaseline
    <2>1. UNCHANGED <<version, hooks, queued, timeline>> /\ seeded' \in BOOLEAN
        BY <1>1 DEF E!EnsureBaseline
    <2>2. /\ known' \in [E!Components -> Nat]
          /\ known'[WpCore] = IF known[WpCore] = 0 THEN version[WpCore] ELSE known[WpCore]
          /\ \A p \in WpPlugins : known'[p] = IF seeded THEN known[p] ELSE version[p]
        BY <1>0, <1>1, <1>c DEF E!EnsureBaseline
    <2>3. Grows(known, known')
        <3>1. ASSUME NEW p \in WpPlugins PROVE known[p] <= known'[p]
            <4>1. version[p] \in Nat /\ known[p] \in {0, version[p]} /\ known'[p] \in {known[p], version[p]}
                BY <1>0, <1>c, <2>2 DEF Remembering
            <4> QED BY <4>1
        <3>2. known[WpCore] <= known'[WpCore]
            BY <1>0, <1>c, <2>2
        <3> QED BY <1>c, <3>1, <3>2 DEF Grows
    <2>4. TellsOnce(queued, timeline, known')
        BY <1>0, <2>2, <2>3, ToldKeeps
    <2>5. Remembering'
        BY <1>0, <1>c, <2>1, <2>2 DEF Remembering
    <2> QED BY <1>0, <2>1, <2>2, <2>4, <2>5 DEF EventsInv, E!EventTypes
<1>2. CASE E!UpdateCore
    <2>1. UNCHANGED <<known, seeded, queued, timeline>> /\ hooks = 0 /\ hooks' = 2
        BY <1>2 DEF E!UpdateCore
    <2>2. /\ version' \in [E!Components -> Nat] /\ version'[WpCore] = version[WpCore] + 1
          /\ \A p \in WpPlugins : version'[p] = version[p]
        BY <1>0, <1>2, <1>c DEF E!UpdateCore
    <2>3. Remembering'
        BY <1>0, <1>c, <2>1, <2>2 DEF Remembering
    <2> QED BY <1>0, <2>1, <2>2, <2>3 DEF EventsInv, E!EventTypes
<1>3. CASE E!CoreHook
    <2> DEFINE change == [of |-> WpCore, old |-> known[WpCore], new |-> version[WpCore]]
    <2>1. UNCHANGED <<version, seeded, timeline>> /\ hooks \in {1, 2} /\ hooks' = hooks - 1
        BY <1>0, <1>3 DEF E!CoreHook
    <2>2. CASE known[WpCore] = version[WpCore]
        <3>1. UNCHANGED <<known, queued>>
            BY <1>3, <2>2 DEF E!CoreHook
        <3>2. Remembering'
            BY <1>0, <2>1, <2>2, <3>1 DEF Remembering
        <3> QED BY <1>0, <2>1, <3>1, <3>2 DEF EventsInv, E!EventTypes
    <2>3. CASE known[WpCore] # version[WpCore]
        <3>1. /\ known' = [known EXCEPT ![WpCore] = version[WpCore]]
              /\ queued' = queued \/ queued' = Append(queued, change)
            BY <1>3, <2>3 DEF E!CoreHook, E!Queue, E!Remembered
        <3>2. /\ known' \in [E!Components -> Nat] /\ known'[WpCore] = version[WpCore]
              /\ \A p \in WpPlugins : known'[p] = known[p]
            BY <1>0, <1>c, <3>1
        <3>3. known[WpCore] \in Nat /\ version[WpCore] \in Nat /\ known[WpCore] \in {0, version[WpCore] - 1}
            BY <1>0, <1>c, <2>1, <2>3 DEF Remembering
        <3>4. known[WpCore] < version[WpCore]
            BY <2>3, <3>3
        <3>5. Grows(known, known')
            <4>1. ASSUME NEW p \in WpPlugins PROVE known[p] <= known'[p]
                BY <1>0, <1>c, <3>2
            <4>2. known[WpCore] <= known'[WpCore]
                BY <3>2, <3>3, <3>4
            <4> QED BY <1>c, <4>1, <4>2 DEF Grows
        <3>6. Told(change, known') /\ known[change.of] < change.new
            BY <1>c, <3>2, <3>3, <3>4 DEF Told, E!Change
        <3> HIDE DEF change
        <3>7. queued' \in Seq(E!Change) /\ TellsOnce(queued', timeline, known')
            <4>1. TellsOnce(queued, timeline, known')
                BY <1>0, <3>2, <3>5, ToldKeeps
            <4>2. /\ Append(queued, change) \in Seq(E!Change)
                  /\ TellsOnce(Append(queued, change), timeline, known')
                BY <1>0, <3>2, <3>5, <3>6, Queueing
            <4> QED BY <1>0, <3>1, <4>1, <4>2
        <3>8. Remembering'
            BY <1>0, <1>c, <2>1, <3>2 DEF Remembering
        <3> QED BY <1>0, <2>1, <3>2, <3>7, <3>8 DEF EventsInv, E!EventTypes
    <2> QED BY <2>2, <2>3
<1>4. ASSUME NEW p \in WpPlugins, E!UpdatePlugin(p) PROVE EventsInv'
    <2> DEFINE change == [of |-> p, old |-> known[p], new |-> version[p] + 1]
    <2>1. UNCHANGED <<hooks, timeline>> /\ seeded' \in BOOLEAN /\ p \in E!Components /\ p # WpCore
        BY <1>4, <1>c DEF E!UpdatePlugin
    <2>2. queued' = queued \/ queued' = Append(queued, change)
        BY <1>4 DEF E!UpdatePlugin, E!Queue
    <2>3. /\ version' \in [E!Components -> Nat] /\ known' \in [E!Components -> Nat]
          /\ version'[p] = version[p] + 1 /\ known'[p] = version[p] + 1
          /\ \A c \in E!Components \ {p} : version'[c] = version[c] /\ known'[c] = known[c]
        BY <1>0, <1>4, <2>1 DEF E!UpdatePlugin
    <2>4. known[p] \in {0, version[p]} /\ version[p] \in Nat /\ known[p] < version[p] + 1
        BY <1>0, <2>1 DEF Remembering
    <2>5. Grows(known, known')
        <3>1. ASSUME NEW c \in E!Components \ {p} PROVE known[c] <= known'[c]
            BY <1>0, <2>3
        <3>2. known[p] \in Nat /\ known[p] <= known'[p]
            BY <2>3, <2>4
        <3> QED BY <3>1, <3>2 DEF Grows
    <2>6. Told(change, known') /\ known[change.of] < change.new
        BY <2>1, <2>3, <2>4 DEF Told, E!Change
    <2> HIDE DEF change
    <2>7. queued' \in Seq(E!Change) /\ TellsOnce(queued', timeline, known')
        <3>1. TellsOnce(queued, timeline, known')
            BY <1>0, <2>3, <2>5, ToldKeeps
        <3>2. /\ Append(queued, change) \in Seq(E!Change)
              /\ TellsOnce(Append(queued, change), timeline, known')
            BY <1>0, <2>3, <2>5, <2>6, Queueing
        <3> QED BY <1>0, <2>2, <3>1, <3>2
    <2>8. Remembering'
        BY <1>0, <1>c, <2>1, <2>3 DEF Remembering
    <2> QED BY <1>0, <2>1, <2>3, <2>7, <2>8 DEF EventsInv, E!EventTypes
<1>5. ASSUME NEW i \in DOMAIN queued, NEW arrives \in BOOLEAN, E!Deliver(i, arrives) PROVE EventsInv'
    <2>1. /\ UNCHANGED <<version, known, seeded, hooks>>
          /\ queued' = E!RemoveAt(queued, i)
          /\ timeline' = timeline \/ timeline' = Append(timeline, queued[i])
        BY <1>5 DEF E!Deliver
    <2>2. queued' \in Seq(E!Change) /\ timeline' \in Seq(E!Change) /\ TellsOnce(queued', timeline', known)
        BY <1>0, <2>1, Sending
    <2>3. Remembering'
        BY <1>0, <2>1 DEF Remembering
    <2> QED BY <1>0, <2>1, <2>2, <2>3 DEF EventsInv, E!EventTypes
<1> QED BY <1>1, <1>2, <1>3, <1>4, <1>5 DEF E!Next

LEMMA EventInit == ASSUME Init PROVE EventsInv
<1>1. /\ version = [c \in E!Components |-> 1] /\ known = [c \in E!Components |-> 0] /\ seeded = FALSE
      /\ hooks = 0 /\ queued = <<>> /\ timeline = <<>>
    BY DEF Init, E!Init
<1>2. <<>> \in Seq(E!Change) /\ DOMAIN <<>> = {}
    OBVIOUS
<1>3. TellsOnce(queued, timeline, known)
    BY <1>1, <1>2 DEF TellsOnce, Distinct
<1>4. Remembering
    BY <1>1 DEF Remembering, E!Components
<1>5. version \in [E!Components -> Nat] /\ known \in [E!Components -> Nat] /\ hooks \in 0..2 /\ seeded \in BOOLEAN
    <2> DEFINE all == E!Components
    <2>1. /\ version = [c \in all |-> 1] /\ known = [c \in all |-> 0]
        BY <1>1
    <2> HIDE DEF all
    <2>2. version \in [all -> Nat] /\ known \in [all -> Nat]
        BY <2>1
    <2>3. hooks \in 0..2
        BY <1>1
    <2>4. seeded \in BOOLEAN
        BY <1>1
    <2> QED BY <2>2, <2>3, <2>4 DEF all
<1>6. queued \in Seq(E!Change) /\ timeline \in Seq(E!Change)
    BY <1>1, <1>2
<1> QED BY <1>3, <1>4, <1>5, <1>6 DEF EventsInv, E!EventTypes

LEMMA EventsAside == ASSUME EventsInv, UNCHANGED eventVars PROVE EventsInv'
<1>1. UNCHANGED <<version, known, seeded, hooks, queued, timeline>>
    BY DEF eventVars
<1> QED BY <1>1 DEF EventsInv, E!EventTypes, Remembering

LEMMA EventsToldOnce == ASSUME EventsInv PROVE UpdatesToldOnce
<1> DEFINE told == timeline \o queued
           T == Len(timeline)
           Q == Len(queued)
<1>1. queued \in Seq(E!Change) /\ timeline \in Seq(E!Change) /\ TellsOnce(queued, timeline, known)
    BY DEF EventsInv, E!EventTypes
<1>2. T \in Nat /\ Q \in Nat /\ DOMAIN timeline = 1..T /\ DOMAIN queued = 1..Q
    BY <1>1
<1>3. /\ told \in Seq(E!Change) /\ DOMAIN told = 1..T + Q
      /\ \A i \in 1..T + Q : told[i] = IF i <= T THEN timeline[i] ELSE queued[i - T]
    BY <1>1, <1>2, ConcatProperties
<1> HIDE DEF told, T, Q
<1>4. \A i \in DOMAIN told : \/ i \in 1..T /\ told[i] = timeline[i]
                             \/ i - T \in 1..Q /\ told[i] = queued[i - T]
    BY <1>2, <1>3
<1>5. \A i \in DOMAIN told : told[i].old \in {0, told[i].new - 1}
    BY <1>1, <1>2, <1>4 DEF TellsOnce, Told
<1>6. ASSUME NEW i \in DOMAIN told, NEW j \in DOMAIN told, Same(told[i], told[j]) PROVE i = j
    <2>0. i \in Int /\ j \in Int
        BY <1>2, <1>3
    <2>1. CASE i \in 1..T /\ told[i] = timeline[i] /\ j \in 1..T /\ told[j] = timeline[j]
        BY <1>1, <1>2, <1>6, <2>1 DEF TellsOnce, Distinct
    <2>2. CASE i - T \in 1..Q /\ told[i] = queued[i - T] /\ j - T \in 1..Q /\ told[j] = queued[j - T]
        <3>1. i - T = j - T
            BY <1>1, <1>2, <1>6, <2>2 DEF TellsOnce, Distinct
        <3> QED BY <1>2, <2>0, <3>1
    <2>3. CASE i \in 1..T /\ told[i] = timeline[i] /\ j - T \in 1..Q /\ told[j] = queued[j - T]
        BY <1>1, <1>2, <1>6, <2>3 DEF TellsOnce, Same
    <2>4. CASE i - T \in 1..Q /\ told[i] = queued[i - T] /\ j \in 1..T /\ told[j] = timeline[j]
        BY <1>1, <1>2, <1>6, <2>4 DEF TellsOnce, Same
    <2> QED BY <1>4, <2>1, <2>2, <2>3, <2>4
<1> QED BY <1>5, <1>6 DEF UpdatesToldOnce, Same, told

-----------------------------------------------------------------------------
(* What the plugin tells *)

LEMMA PostStep == ASSUME PostTypes, [Next]_vars PROVE PostTypes'
<1>1. CASE \E p \in Posts, kind \in C!Kinds : C!EditPost(p, kind)
    <2> PICK p \in Posts, kind \in C!Kinds : C!EditPost(p, kind)
        BY <1>1
    <2>1. [kind |-> kind, rev |-> post[p].rev + 1] \in [kind: C!Kinds, rev: Nat]
        BY DEF PostTypes
    <2> QED BY <2>1 DEF C!EditPost, PostTypes
<1>2. CASE UNCHANGED post
    BY <1>2 DEF PostTypes
<1>3. Next => (\E p \in Posts, kind \in C!Kinds : C!EditPost(p, kind)) \/ UNCHANGED post
    <2>1. Connecting \/ Auditing \/ Reporting => UNCHANGED post
        BY DEF Connecting, Auditing, Reporting, A!Next, syncVars
    <2>2. Syncing => (\E p \in Posts, kind \in C!Kinds : C!EditPost(p, kind)) \/ UNCHANGED post
        BY DEF Syncing, C!Author, StartRun, GoOn, TakeOver, Losing, C!RunStart, C!RunStep, C!AcceptWrite, C!RunLost,
           C!Collect, C!BatchAuthenticated, C!CapacityRead, C!Refused
    <2> QED BY <2>1, <2>2 DEF Next
<1> QED BY <1>1, <1>2, <1>3 DEF vars, syncVars

LEMMA PostInit == ASSUME Init PROVE PostTypes
BY DEF Init, C!Init, PostTypes, C!Kinds

LEMMA AuditStep == ASSUME AuditInv, PostTypes, [Next]_vars PROVE AuditInv' /\ (setting.auditing = 1 => audit.number <= audit'.number)
<1>1. audit \in A!Audit /\ audit.number \in Nat
    BY AuditRecords DEF AuditInv, A!AuditTypes
<1>2. CASE UNCHANGED <<auditVars, setting>>
    BY <1>1, <1>2, AuditAside DEF auditVars
<1>3. CASE Next /\ Auditing
    <2>1. UNCHANGED setting /\ Cardinality(A!BusyAuditing') <= setting'.auditing /\ A!Next
        BY <1>3 DEF Next, Within, Auditing
    <2>2. A!AuditTypes'
        BY <2>1, AuditTypesKeep DEF AuditInv
    <2>3. ASSUME setting.auditing = 1 PROVE Alone' /\ OneAudit' /\ audit.number <= audit'.number
        <3>1. IsFiniteSet(A!BusyAuditing')
            <4>1. A!BusyAuditing' \subseteq Auditors \cup Admins
                BY DEF A!BusyAuditing
            <4> QED BY <4>1, SyncAssumption, FS_Union, FS_Subset
        <3>2. Alone'
            BY <2>1, <2>3, <3>1, AtMostOne DEF Alone
        <3> QED BY <2>1, <2>3, <3>2, OneAuditKeeps DEF AuditInv
    <2> QED BY <2>1, <2>2, <2>3 DEF AuditInv
<1>4. Next /\ ~Auditing => UNCHANGED <<auditVars, setting>>
    BY DEF Next, Connecting, Syncing, Reporting
<1> QED BY <1>2, <1>3, <1>4 DEF vars

LEMMA EventsStep == ASSUME EventsInv, [Next]_vars PROVE EventsInv'
<1>1. CASE UNCHANGED eventVars
    BY <1>1, EventsAside
<1>2. CASE Next /\ Reporting
    BY <1>2, EventStep DEF Reporting
<1>3. Next /\ ~Reporting => UNCHANGED eventVars
    BY DEF Next, Connecting, Syncing, Auditing
<1> QED BY <1>1, <1>2, <1>3 DEF vars

(***************************************************************************)
(* Audits and rules one at a time, what the next sync says leaves out what *)
(* is ignored on purpose (handleFindingRule, applyIgnoredRules); and the   *)
(* timeline tells of each update once, with the version it replaced        *)
(* (onCoreUpdated, reportPluginChange).                                    *)
(***************************************************************************)
THEOREM TellsTheTruth == Spec => []PluginTells
<1>1. Init => AuditInv /\ PostTypes /\ EventsInv
    BY AuditInit, PostInit, EventInit
<1>2. AuditInv /\ PostTypes /\ EventsInv /\ [Next]_vars => AuditInv' /\ PostTypes' /\ EventsInv'
    BY AuditStep, PostStep, EventsStep
<1>3. AuditInv /\ EventsInv => PluginTells
    BY IgnoredLeftOut, EventsToldOnce DEF PluginTells
<1> QED BY <1>1, <1>2, <1>3, PTL DEF Spec

-----------------------------------------------------------------------------
(* How the copy advances *)

(* What a run carries, and that it is never newer than the post.           *)
Carries(run, posts) ==
    /\ run.batch \in [Posts -> C!Item]
    /\ DOMAIN run.findings \subseteq Posts /\ \A p \in DOMAIN run.findings : run.findings[p] \in C!Evidence
    /\ run.stable \subseteq Posts
    /\ \A p \in Posts : run.batch[p].rev <= posts[p].rev

Loaded(run) == run.pc \in {"send", "accept", "write"}

(* The position of a post among given ones (Position). *)
Place(p, posts) == Cardinality({q \in Posts : posts[q].kind # "none" /\ q < p})

LEMMA PlaceIsPosition == \A p : C!Position(p) = Place(p, post)
<1> TAKE p
<1>1. {q \in C!Existing : q < p} = {q \in Posts : post[q].kind # "none" /\ q < p}
    BY DEF C!Existing
<1> QED BY <1>1, OneCardinality DEF C!Position, Place

(***************************************************************************)
(* One run at a time: the posts it cannot miss are there; those before its *)
(* offset are brought over, and its batch has those of its page as they    *)
(* are; when the page was not full, none comes after it.                   *)
(***************************************************************************)
Covers(run, posts, copy) ==
    run.pc # "idle" => \A p \in run.stable :
        /\ posts[p].kind # "none"
        /\ Place(p, posts) < run.offset => copy[p].rev = posts[p].rev
        /\ Loaded(run) =>
              /\ run.batch[p].rev \in {0, posts[p].rev}
              /\ Place(p, posts) \in run.offset..(run.offset + BatchSize - 1) => run.batch[p].rev = posts[p].rev
              /\ ~run.more => Place(p, posts) < run.offset + BatchSize

(* What it brings is no older than the copy. *)
Renews(run, copy) ==
    Loaded(run) => \A p \in Posts : run.batch[p].rev # 0 => copy[p].rev <= run.batch[p].rev

(* What it says of an audit is of one no earlier than the copy knows.      *)
Informs(run, copy, number) ==
    run.pc # "idle" =>
        /\ \A p \in DOMAIN run.findings : copy[p].evidence.audit <= run.findings[p].audit
                                          /\ run.findings[p].audit <= number
        /\ Loaded(run) => \A p \in Posts : run.batch[p].findings =>
               p \in DOMAIN run.findings /\ run.batch[p].evidence = run.findings[p]

CopyTypes ==
    /\ PostTypes /\ rows \in [Posts -> C!Row] /\ losses \in Nat
    /\ \A p \in Posts : post[p].kind # "none" => post[p].rev # 0
    /\ \A p \in Posts : rows[p].rev <= post[p].rev
    /\ \A r \in Runs : Carries(runs[r], post)

OneRun == setting.runs = 1
OneAtATime == setting.runs = 1 /\ setting.auditing = 1

CopyInv ==
    /\ CopyTypes
    /\ OneRun => \A r \in Runs : Covers(runs[r], post, rows) /\ Renews(runs[r], rows)
    /\ OneAtATime => /\ \A p \in Posts : rows[p].evidence.audit <= audit.number
                     /\ \A r \in Runs : Informs(runs[r], rows, audit.number)

LEMMA CopyRecords ==
    /\ C!NoEvidence \in C!Evidence /\ C!NoEvidence.audit = 0
    /\ C!NoRow \in C!Row /\ C!NoRow.rev = 0 /\ C!NoRow.evidence = C!NoEvidence
    /\ C!Absent \in C!Item /\ C!Absent.rev = 0
    /\ C!NoBatch \in [Posts -> C!Item] /\ \A p \in Posts : C!NoBatch[p].rev = 0
    /\ \A one \in C!Evidence : one.audit \in Nat
    /\ \A one \in C!Row : one.rev \in Nat /\ one.evidence \in C!Evidence
    /\ \A one \in C!Item : one.rev \in Nat /\ one.evidence \in C!Evidence
<1>1. C!NoEvidence \in C!Evidence /\ C!NoEvidence.audit = 0
    BY DEF C!NoEvidence, C!Evidence
<1>2. C!NoRow \in C!Row /\ C!NoRow.rev = 0 /\ C!NoRow.evidence = C!NoEvidence
    BY <1>1 DEF C!NoRow, C!Row
<1>3. C!Absent \in C!Item /\ C!Absent.rev = 0
    BY <1>1 DEF C!Absent, C!Item
<1>4. C!NoBatch \in [Posts -> C!Item] /\ \A p \in Posts : C!NoBatch[p].rev = 0
    BY <1>3 DEF C!NoBatch
<1>5. \A one \in C!Evidence : one.audit \in Nat
    BY DEF C!Evidence
<1>6. \A one \in C!Row : one.rev \in Nat /\ one.evidence \in C!Evidence
    BY DEF C!Row
<1>7. \A one \in C!Item : one.rev \in Nat /\ one.evidence \in C!Evidence
    BY DEF C!Item
<1> QED BY <1>1, <1>2, <1>3, <1>4, <1>5, <1>6, <1>7

(* A run that is not under way promises nothing. *)
LEMMA AtRest ==
    ASSUME CopyTypes
    PROVE  /\ Carries(C!NotSyncing, post)
           /\ Covers(C!NotSyncing, post, rows) /\ Renews(C!NotSyncing, rows)
           /\ \A number : Informs(C!NotSyncing, rows, number)
<1>1. \A p \in Posts : post[p].rev \in Nat
    BY DEF CopyTypes, PostTypes
<1>2. C!NotSyncing.pc = "idle" /\ C!NotSyncing.batch = C!NoBatch /\ C!NotSyncing.stable = {}
      /\ C!NotSyncing.findings = C!NoFindings /\ DOMAIN C!NoFindings = {}
    BY DEF C!NotSyncing, C!NoFindings
<1> QED BY <1>1, <1>2, CopyRecords DEF Carries, Covers, Renews, Informs, Loaded

(* A step of one run that brings nothing over. *)
LEMMA RunGoesOn ==
    ASSUME CopyInv, RunsSound, NEW r \in Runs, NEW run, RunBecomes(r, run),
           UNCHANGED <<post, rows, audit, setting>>, losses' \in Nat,
           Carries(run, post),
           OneRun => Covers(run, post, rows) /\ Renews(run, rows),
           OneAtATime => Informs(run, rows, audit.number)
    PROVE  CopyInv'
<1>1. \A q \in Runs : runs'[q] = IF q = r THEN run ELSE runs[q]
    BY DEF RunBecomes, RunsSound
<1>2. CopyTypes'
    BY <1>1 DEF CopyInv, CopyTypes, PostTypes
<1>3. OneRun' => \A q \in Runs : Covers(runs'[q], post', rows') /\ Renews(runs'[q], rows')
    BY <1>1 DEF CopyInv, OneRun
<1>4. OneAtATime' => /\ \A p \in Posts : rows'[p].evidence.audit <= audit'.number
                     /\ \A q \in Runs : Informs(runs'[q], rows', audit'.number)
    BY <1>1 DEF CopyInv, OneAtATime
<1> QED BY <1>2, <1>3, <1>4 DEF CopyInv

LEMMA RestKeeps ==
    ASSUME CopyInv, RunsSound, NEW r \in Runs, RunBecomes(r, C!NotSyncing),
           UNCHANGED <<post, rows, audit, setting>>, losses' \in Nat
    PROVE  CopyInv'
BY AtRest, RunGoesOn DEF CopyInv

LEMMA StartKeeps ==
    ASSUME CopyInv, RunsSound, A!AuditTypes, NEW r \in Runs, C!RunStart(r),
           UNCHANGED <<audit, setting, losses>>
    PROVE  CopyInv'
<1> DEFINE idle == C!NotSyncing
           run == Beginning(idle, stored, A!FindingsForSync, C!Existing)
<1>0. Shaped(idle) /\ idle.offset = 0 /\ idle.batch = C!NoBatch
    BY DEF Shaped, C!NotSyncing
<1>2. RunBecomes(r, run) /\ UNCHANGED <<post, rows>>
    BY DEF C!RunStart, RunBecomes, Beginning
<1>3. /\ run.pc = "collect" /\ run.offset = 0 /\ run.findings = A!FindingsForSync
      /\ run.batch = C!NoBatch /\ run.stable = C!Existing
    <2>1. stored # 0
        BY DEF C!RunStart
    <2> HIDE DEF idle
    <2> QED BY <1>0, <2>1, Begun
<1> HIDE DEF run
<1>4. audit.number \in Nat
    BY AuditRecords DEF A!AuditTypes
<1>5. /\ DOMAIN A!FindingsForSync \subseteq Posts
      /\ \A p \in DOMAIN A!FindingsForSync : /\ A!FindingsForSync[p] \in C!Evidence
                                             /\ A!FindingsForSync[p].audit = audit.number
    BY <1>4 DEF A!FindingsForSync, C!Evidence
<1>6. Carries(run, post)
    <2>1. \A p \in Posts : post[p].rev \in Nat
        BY DEF CopyInv, CopyTypes, PostTypes
    <2> QED BY <1>3, <1>5, <2>1, CopyRecords DEF Carries, C!Existing
<1>7. Covers(run, post, rows)
    <2>1. \A p \in C!Existing : p \in Posts /\ post[p].kind # "none" /\ ~(Place(p, post) < 0)
        BY Positions, PlaceIsPosition DEF C!Existing
    <2> QED BY <1>3, <2>1 DEF Covers, Loaded
<1>8. Renews(run, rows) /\ ~Loaded(run)
    BY <1>3 DEF Renews, Loaded
<1>9. OneAtATime => Informs(run, rows, audit.number)
    BY <1>3, <1>4, <1>5, <1>8 DEF Informs, CopyInv
<1> QED BY <1>2, <1>6, <1>7, <1>8, <1>9, RunGoesOn DEF CopyInv, CopyTypes

(* The batch of a run is its page as it is. *)
LEMMA BatchIs ==
    ASSUME CopyTypes, NEW r \in Runs, runs[r].offset \in Nat
    PROVE  /\ C!BatchOf(r) \in [Posts -> C!Item]
           /\ \A p \in Posts :
                 /\ C!BatchOf(r)[p].rev = IF p \in C!Page(runs[r].offset) THEN post[p].rev ELSE 0
                 /\ C!BatchOf(r)[p].findings =>
                        p \in DOMAIN runs[r].findings /\ C!BatchOf(r)[p].evidence = runs[r].findings[p]
<1>1. \A p \in Posts : post[p].rev \in Nat
    BY DEF CopyTypes, PostTypes
<1>2. \A p \in DOMAIN runs[r].findings : runs[r].findings[p] \in C!Evidence
    BY DEF CopyTypes, Carries
<1>3. ASSUME NEW p \in Posts
      PROVE  /\ C!BatchOf(r)[p] \in C!Item
             /\ C!BatchOf(r)[p].rev = IF p \in C!Page(runs[r].offset) THEN post[p].rev ELSE 0
             /\ C!BatchOf(r)[p].findings =>
                    p \in DOMAIN runs[r].findings /\ C!BatchOf(r)[p].evidence = runs[r].findings[p]
    <2>1. CASE p \notin C!Page(runs[r].offset)
        <3>1. C!BatchOf(r)[p] = C!Absent
            BY <2>1 DEF C!BatchOf
        <3>2. C!Absent.findings = FALSE
            BY DEF C!Absent
        <3> QED BY <2>1, <3>1, <3>2, CopyRecords
    <2>2. CASE p \in C!Page(runs[r].offset) /\ p \in DOMAIN runs[r].findings
        <3>1. C!BatchOf(r)[p] = [rev |-> post[p].rev, findings |-> TRUE, evidence |-> runs[r].findings[p]]
            BY <2>2 DEF C!BatchOf
        <3> QED BY <1>1, <1>2, <2>2, <3>1 DEF C!Item
    <2>3. CASE p \in C!Page(runs[r].offset) /\ p \notin DOMAIN runs[r].findings
        <3>1. C!BatchOf(r)[p] = [rev |-> post[p].rev, findings |-> FALSE, evidence |-> C!NoEvidence]
            BY <2>3 DEF C!BatchOf
        <3> QED BY <1>1, <2>3, <3>1, CopyRecords DEF C!Item
    <2> QED BY <2>1, <2>2, <2>3
<1>4. C!BatchOf(r) \in [Posts -> C!Item]
    BY <1>3 DEF C!BatchOf
<1> QED BY <1>3, <1>4

(* When a page is not full, no post comes after it. *)
LEMMA LastPage ==
    ASSUME NEW offset \in Nat, C!Cardinality(C!Page(offset)) # BatchSize, NEW p \in C!Existing
    PROVE  /\ C!Position(p) < offset + BatchSize
           /\ C!Page(offset) = {} => C!Position(p) < offset
<1>1. C!Position(p) \in Nat /\ BatchSize \in Nat
    BY Positions, SyncAssumption
<1>2. C!Position(p) < offset + BatchSize
    BY <1>1, OneCardinality, PageFull
<1>3. C!Position(p) \in offset..(offset + BatchSize - 1) => p \in C!Page(offset)
    BY DEF C!Page
<1> QED BY <1>1, <1>2, <1>3

LEMMA CollectKeeps ==
    ASSUME CopyInv, RunsSound, NEW r \in Runs, C!Collect(r), UNCHANGED <<audit, setting, losses>>
    PROVE  CopyInv'
<1>0. /\ Sound(runs[r]) /\ runs[r].pc = "collect" /\ UNCHANGED <<post, rows>> /\ runs[r].offset \in Nat
      /\ losses' \in Nat
    BY DEF RunsSound, Sound, C!Collect, CopyInv, CopyTypes
<1>1. CASE C!Page(runs[r].offset) = {}
    BY <1>0, <1>1, RestKeeps DEF C!Collect, RunBecomes
<1>2. CASE C!Page(runs[r].offset) # {}
    <2> DEFINE old == runs[r]
    <2> DEFINE full == C!Cardinality(C!Page(old.offset)) = BatchSize
               run == Collecting(old, C!BatchOf(r), full)
    <2>1. RunBecomes(r, run)
        BY <1>2 DEF C!Collect, RunBecomes, Collecting
    <2>2. Cardinality({p \in Posts : C!BatchOf(r)[p].rev # 0}) <= BatchSize /\ Sound(old) /\ old.pc # "idle"
        BY <1>0, BatchFits
    <2> HIDE DEF full, old
    <2>3. /\ run.pc = "send" /\ run.offset = old.offset /\ run.more = full /\ run.findings = old.findings
          /\ run.batch = C!BatchOf(r) /\ run.stable = old.stable
        BY <2>2, Collected
    <2> HIDE DEF run
    <2> USE DEF old
    <2>9. Loaded(run)
        BY <2>3 DEF Loaded
    <2>4. Carries(old, post) /\ CopyTypes /\ (\A p \in Posts : post[p].rev \in Nat)
        BY DEF CopyInv, CopyTypes, PostTypes
    <2>5. Carries(run, post)
        BY <1>0, <2>3, <2>4, BatchIs DEF Carries
    <2>6. ASSUME OneRun PROVE Covers(run, post, rows) /\ Renews(run, rows)
        <3>1. Covers(old, post, rows)
            BY <2>6 DEF CopyInv
        <3>2. ASSUME NEW p \in run.stable
              PROVE  /\ post[p].kind # "none"
                     /\ Place(p, post) < run.offset => rows[p].rev = post[p].rev
                     /\ run.batch[p].rev \in {0, post[p].rev}
                     /\ Place(p, post) \in run.offset..(run.offset + BatchSize - 1) => run.batch[p].rev = post[p].rev
                     /\ ~run.more => Place(p, post) < run.offset + BatchSize
            <4>1. p \in old.stable /\ p \in Posts
                BY <2>3, <2>4 DEF Carries
            <4>2. post[p].kind # "none" /\ (Place(p, post) < old.offset => rows[p].rev = post[p].rev)
                BY <1>0, <3>1, <4>1 DEF Covers
            <4>3. p \in C!Existing /\ C!Position(p) = Place(p, post)
                BY <4>1, <4>2, PlaceIsPosition DEF C!Existing
            <4>4. C!BatchOf(r)[p].rev = IF p \in C!Page(old.offset) THEN post[p].rev ELSE 0
                BY <1>0, <2>4, <4>1, BatchIs
            <4>5. Place(p, post) \in old.offset..(old.offset + BatchSize - 1) => p \in C!Page(old.offset)
                BY <4>3 DEF C!Page
            <4>6. ~full => Place(p, post) < old.offset + BatchSize
                BY <1>0, <4>3, LastPage DEF full
            <4> QED BY <2>3, <4>2, <4>4, <4>5, <4>6
        <3>3. Covers(run, post, rows)
            BY <3>2 DEF Covers
        <3>4. Renews(run, rows)
            BY <1>0, <2>3, <2>9, <2>4, BatchIs DEF Renews, CopyTypes
        <3> QED BY <3>3, <3>4
    <2>7. ASSUME OneAtATime PROVE Informs(run, rows, audit.number)
        <3>1. Informs(old, rows, audit.number)
            BY <2>7 DEF CopyInv
        <3> QED BY <1>0, <2>3, <2>9, <2>4, <3>1, BatchIs DEF Informs
    <2> QED BY <1>0, <2>1, <2>5, <2>6, <2>7, RunGoesOn
<1> QED BY <1>1, <1>2

LEMMA MoveKeeps ==
    ASSUME CopyInv, RunsSound, NEW r \in Runs, C!BatchAuthenticated(r) \/ C!CapacityRead(r),
           UNCHANGED <<audit, setting, losses>>
    PROVE  CopyInv'
<1> DEFINE old == runs[r]
<1>1. PICK next \in {"accept", "write"} : runs' = [runs EXCEPT ![r].pc = next]
    BY DEF C!BatchAuthenticated, C!CapacityRead
<1>2. /\ Sound(old) /\ Loaded(old) /\ old.pc # "idle" /\ UNCHANGED <<post, rows>> /\ losses' \in Nat
    BY DEF RunsSound, C!BatchAuthenticated, C!CapacityRead, Loaded, CopyInv, CopyTypes
<1> DEFINE run == [old EXCEPT !.pc = next]
<1>3. RunBecomes(r, run)
    BY <1>1 DEF RunBecomes
<1>4. run = [pc |-> next, token |-> old.token, offset |-> old.offset, more |-> old.more,
             findings |-> old.findings, batch |-> old.batch, stable |-> old.stable]
    BY <1>2 DEF Sound, Shaped
<1> HIDE DEF run, old
<1>5. /\ run.pc = next /\ run.offset = old.offset /\ run.more = old.more /\ run.findings = old.findings
      /\ run.batch = old.batch /\ run.stable = old.stable /\ Loaded(run) /\ run.pc # "idle"
    BY <1>4 DEF Loaded
<1>6. Carries(old, post) => Carries(run, post)
    BY <1>5 DEF Carries
<1>7. Covers(old, post, rows) => Covers(run, post, rows)
    BY <1>2, <1>5 DEF Covers
<1>8. Renews(old, rows) => Renews(run, rows)
    BY <1>2, <1>5 DEF Renews
<1>9. Informs(old, rows, audit.number) => Informs(run, rows, audit.number)
    BY <1>2, <1>5 DEF Informs
<1> QED BY <1>2, <1>3, <1>6, <1>7, <1>8, <1>9, RunGoesOn DEF CopyInv, CopyTypes, old

(* A batch is taken over: what it has of a post replaces the copy.         *)
LEMMA WriteIs ==
    ASSUME CopyTypes, NEW r \in Runs, C!AcceptWrite(r)
    PROVE  /\ rows' \in [Posts -> C!Row] /\ UNCHANGED post
           /\ \A p \in Posts :
                 /\ runs[r].batch[p].rev = 0 => rows'[p] = rows[p]
                 /\ runs[r].batch[p].rev # 0 =>
                       /\ rows'[p].rev = runs[r].batch[p].rev
                       /\ rows'[p].evidence = IF runs[r].batch[p].findings THEN runs[r].batch[p].evidence
                                                                           ELSE rows[p].evidence
<1>1. runs[r].batch \in [Posts -> C!Item] /\ rows \in [Posts -> C!Row]
    BY DEF CopyTypes, Carries
<1>2. ASSUME NEW p \in Posts
      PROVE  C!Upsert(rows[p], runs[r].batch[p]) \in C!Row
    <2>1. runs[r].batch[p] \in C!Item /\ rows[p] \in C!Row
        BY <1>1
    <2> QED BY <2>1, CopyRecords DEF C!Upsert, C!Row
<1>3. rows' = [p \in Posts |-> IF p \in C!Incoming(r) THEN C!Upsert(rows[p], runs[r].batch[p]) ELSE rows[p]]
    BY DEF C!AcceptWrite
<1>4. \A p \in Posts : p \in C!Incoming(r) <=> runs[r].batch[p].rev # 0
    BY DEF C!Incoming
<1>5. rows' \in [Posts -> C!Row]
    BY <1>1, <1>2, <1>3
<1>6. \A p \in Posts : /\ p \notin C!Incoming(r) => rows'[p] = rows[p]
                       /\ p \in C!Incoming(r) => rows'[p] = C!Upsert(rows[p], runs[r].batch[p])
    BY <1>3
<1>7. UNCHANGED post
    BY DEF C!AcceptWrite
<1> QED BY <1>4, <1>5, <1>6, <1>7 DEF C!Upsert

(* With one run, what it could not miss is the copy of the post once its   *)
(* last batch is taken over, and its page at least otherwise.              *)
LEMMA WriteCovers ==
    ASSUME CopyInv, RunsSound, NEW r \in Runs, C!AcceptWrite(r), OneRun, NEW p \in runs[r].stable
    PROVE  /\ p \in Posts /\ post[p].kind # "none"
           /\ Place(p, post) < runs[r].offset + BatchSize => rows'[p].rev = post[p].rev
           /\ ~runs[r].more => rows'[p].rev = post[p].rev
<1>0. /\ Covers(runs[r], post, rows) /\ Loaded(runs[r]) /\ runs[r].pc # "idle" /\ p \in Posts
      /\ runs[r].offset \in Nat /\ BatchSize \in Nat
    BY SyncAssumption DEF CopyInv, CopyTypes, Carries, Loaded, C!AcceptWrite, RunsSound, Sound
<1>1. /\ post[p].kind # "none" /\ post[p].rev # 0
      /\ Place(p, post) < runs[r].offset => rows[p].rev = post[p].rev
      /\ runs[r].batch[p].rev \in {0, post[p].rev}
      /\ Place(p, post) \in runs[r].offset..(runs[r].offset + BatchSize - 1) => runs[r].batch[p].rev = post[p].rev
      /\ ~runs[r].more => Place(p, post) < runs[r].offset + BatchSize
    BY <1>0 DEF Covers, CopyInv, CopyTypes
<1>2. Place(p, post) \in Nat
    <2>1. p \in C!Existing
        BY <1>0, <1>1 DEF C!Existing
    <2> QED BY <2>1, Positions, PlaceIsPosition
<1>3. rows'[p].rev \in {rows[p].rev, post[p].rev} /\ (runs[r].batch[p].rev = post[p].rev => rows'[p].rev = post[p].rev)
    BY <1>0, <1>1, WriteIs DEF CopyInv
<1>4. Place(p, post) < runs[r].offset + BatchSize => rows'[p].rev = post[p].rev
    BY <1>0, <1>1, <1>2, <1>3
<1> QED BY <1>0, <1>1, <1>4

(* Nor does the copy go back. *)
LEMMA WriteAdvances ==
    ASSUME CopyInv, RunsSound, NEW r \in Runs, C!AcceptWrite(r), NEW p \in Posts
    PROVE  /\ rows'[p].rev <= post[p].rev
           /\ OneRun => rows[p].rev <= rows'[p].rev
           /\ (OneAtATime /\ audit.number \in Nat) =>
                 /\ rows[p].evidence.audit <= rows'[p].evidence.audit
                 /\ rows'[p].evidence.audit <= audit.number
                 /\ p \in DOMAIN runs[r].findings => rows'[p].evidence.audit <= runs[r].findings[p].audit
<1>0. /\ CopyTypes /\ Loaded(runs[r]) /\ runs[r].pc # "idle"
      /\ rows[p].rev \in Nat /\ rows[p].evidence \in C!Evidence /\ rows[p].evidence.audit \in Nat
      /\ rows[p].rev <= post[p].rev /\ runs[r].batch[p].rev <= post[p].rev
    BY CopyRecords DEF CopyInv, CopyTypes, Carries, Loaded, C!AcceptWrite
<1>1. /\ runs[r].batch[p].rev = 0 => rows'[p] = rows[p]
      /\ runs[r].batch[p].rev # 0 =>
            /\ rows'[p].rev = runs[r].batch[p].rev
            /\ rows'[p].evidence = IF runs[r].batch[p].findings THEN runs[r].batch[p].evidence ELSE rows[p].evidence
    BY <1>0, WriteIs
<1>2. rows'[p].rev <= post[p].rev
    BY <1>0, <1>1
<1>3. ASSUME OneRun PROVE rows[p].rev <= rows'[p].rev
    <2>1. Renews(runs[r], rows)
        BY <1>3 DEF CopyInv
    <2> QED BY <1>0, <1>1, <2>1 DEF Renews
<1>4. ASSUME OneAtATime, audit.number \in Nat
      PROVE  /\ rows[p].evidence.audit <= rows'[p].evidence.audit
             /\ rows'[p].evidence.audit <= audit.number
             /\ p \in DOMAIN runs[r].findings => rows'[p].evidence.audit <= runs[r].findings[p].audit
    <2>1. Informs(runs[r], rows, audit.number) /\ rows[p].evidence.audit <= audit.number
        BY <1>4 DEF CopyInv
    <2>2. \A q \in DOMAIN runs[r].findings : runs[r].findings[q].audit \in Nat
        BY <1>0, CopyRecords DEF CopyTypes, Carries
    <2>3. /\ p \in DOMAIN runs[r].findings => /\ rows[p].evidence.audit <= runs[r].findings[p].audit
                                              /\ runs[r].findings[p].audit <= audit.number
          /\ runs[r].batch[p].findings =>
                p \in DOMAIN runs[r].findings /\ runs[r].batch[p].evidence = runs[r].findings[p]
        BY <1>0, <2>1 DEF Informs
    <2>4. \/ rows'[p].evidence = rows[p].evidence
          \/ p \in DOMAIN runs[r].findings /\ rows'[p].evidence = runs[r].findings[p]
        BY <1>1, <2>3
    <2> QED BY <1>0, <1>4, <2>1, <2>2, <2>3, <2>4
<1> QED BY <1>2, <1>3, <1>4

LEMMA WriteKeeps ==
    ASSUME CopyInv, RunsSound, audit.number \in Nat, NEW r \in Runs, C!AcceptWrite(r),
           OneRun => \A q \in Runs : q # r => runs[q].pc = "idle",
           UNCHANGED <<audit, setting, losses>>
    PROVE  CopyInv'
<1> DEFINE old == runs[r]
           run == IF C!LastBatch(r) THEN C!NotSyncing
                  ELSE [old EXCEPT !.pc = "collect", !.offset = C!NextOffset(r), !.batch = C!NoBatch]
<1>0. CopyTypes /\ Sound(old) /\ Carries(old, post) /\ UNCHANGED post
    BY WriteIs DEF CopyInv, CopyTypes, RunsSound
<1>1. \A q \in Runs : runs'[q] = IF q = r THEN run ELSE runs[q]
    BY DEF C!AcceptWrite, RunsSound
<1>3. \/ run = C!NotSyncing
      \/ /\ run.pc = "collect" /\ run.offset = old.offset + BatchSize /\ run.batch = C!NoBatch
         /\ run.findings = old.findings /\ run.stable = old.stable
    <2>1. ASSUME ~C!LastBatch(r)
          PROVE run = [pc |-> "collect", token |-> old.token, offset |-> C!NextOffset(r), more |-> old.more,
                       findings |-> old.findings, batch |-> C!NoBatch, stable |-> old.stable]
        BY <1>0, <2>1 DEF Sound, Shaped
    <2> QED BY <2>1 DEF C!NextOffset
<1> HIDE DEF run
<1>4. Carries(run, post)
    <2>1. \A p \in Posts : post[p].rev \in Nat
        BY <1>0 DEF CopyTypes, PostTypes
    <2> QED BY <1>0, <1>3, <2>1, AtRest, CopyRecords DEF Carries
<1>5. ASSUME NEW copy, run.pc # "idle" PROVE run.pc = "collect" /\ ~Loaded(run) /\ run # C!NotSyncing
    BY <1>3, <1>5 DEF Loaded, C!NotSyncing
<1>6. CopyTypes'
    BY <1>0, <1>1, <1>4, WriteIs, WriteAdvances DEF CopyTypes, PostTypes
<1>7. ASSUME OneRun, NEW q \in Runs PROVE Covers(runs'[q], post', rows') /\ Renews(runs'[q], rows')
    <2>1. CASE q # r
        BY <1>1, <1>7, <2>1 DEF Covers, Renews, Loaded
    <2>2. CASE q = r
        <3>1. Renews(run, rows')
            BY <1>3, <1>5 DEF Renews, Loaded, C!NotSyncing
        <3>2. Covers(run, post, rows')
            <4> SUFFICES ASSUME run.pc # "idle", NEW p \in run.stable
                         PROVE post[p].kind # "none" /\ (Place(p, post) < run.offset => rows'[p].rev = post[p].rev)
                BY <1>5 DEF Covers
            <4>1. run.offset = old.offset + BatchSize /\ p \in old.stable
                BY <1>3, <1>5
            <4> QED BY <1>7, <4>1, WriteCovers
        <3> QED BY <1>0, <1>1, <2>2, <3>1, <3>2
    <2> QED BY <2>1, <2>2
<1>8. ASSUME OneAtATime
      PROVE  /\ \A p \in Posts : rows'[p].evidence.audit <= audit.number
             /\ \A q \in Runs : Informs(runs'[q], rows', audit.number)
    <2>1. \A p \in Posts : rows'[p].evidence.audit <= audit.number
        BY <1>8, WriteAdvances
    <2>2. ASSUME NEW q \in Runs PROVE Informs(runs'[q], rows', audit.number)
        <3>1. CASE q # r
            BY <1>1, <1>8, <3>1 DEF Informs, OneAtATime, OneRun, Loaded
        <3>2. CASE q = r
            <4> SUFFICES ASSUME run.pc # "idle", NEW p \in DOMAIN run.findings
                         PROVE  /\ rows'[p].evidence.audit <= run.findings[p].audit
                                /\ run.findings[p].audit <= audit.number
                BY <1>1, <1>5, <3>2 DEF Informs
            <4>1. run.findings = old.findings /\ p \in DOMAIN old.findings /\ p \in Posts
                BY <1>0, <1>3, <1>5 DEF Carries
            <4>2. old.findings[p].audit <= audit.number
                <5>1. Informs(old, rows, audit.number) /\ old.pc # "idle"
                    BY <1>8 DEF CopyInv, C!AcceptWrite
                <5> QED BY <4>1, <5>1 DEF Informs
            <4> QED BY <1>8, <4>1, <4>2, WriteAdvances
        <3> QED BY <3>1, <3>2
    <2> QED BY <2>1, <2>2
<1> QED BY <1>6, <1>7, <1>8 DEF CopyInv, OneRun, OneAtATime

(* An edit spares a post when it leaves it where it is, as it is.          *)
LEMMA EditSpares ==
    ASSUME PostTypes, NEW p \in Posts, NEW kind \in C!Kinds, C!EditPost(p, kind), NEW r \in Runs,
           runs[r].stable \subseteq Posts, Shaped(runs[r])
    PROVE  /\ runs'[r].stable \subseteq runs[r].stable
           /\ \A q \in runs'[r].stable : post'[q] = post[q] /\ Place(q, post') = Place(q, post)
           /\ runs'[r].pc = runs[r].pc /\ runs'[r].offset = runs[r].offset /\ runs'[r].more = runs[r].more
           /\ runs'[r].findings = runs[r].findings /\ runs'[r].batch = runs[r].batch
<1> DEFINE old == runs[r]
           toggled == (kind = "none") # (post[p].kind = "none")
           left == IF toggled THEN {q \in old.stable : q < p} ELSE old.stable \ {p}
<1>1. runs'[r] = [old EXCEPT !.stable = left]
    BY DEF C!EditPost
<1>2. \A q \in Posts : post'[q] = IF q = p THEN [kind |-> kind, rev |-> post[p].rev + 1] ELSE post[q]
    BY DEF C!EditPost, PostTypes
<1>3. Shaped(old) /\ old.stable \subseteq Posts /\ p \in Nat /\ Posts \subseteq Nat
    BY SyncAssumption
<1> HIDE DEF old, left
<1>4. runs'[r] = [pc |-> old.pc, token |-> old.token, offset |-> old.offset, more |-> old.more,
                  findings |-> old.findings, batch |-> old.batch, stable |-> left]
    BY <1>1, <1>3 DEF Shaped
<1>5. /\ runs'[r].pc = old.pc /\ runs'[r].offset = old.offset /\ runs'[r].more = old.more
      /\ runs'[r].findings = old.findings /\ runs'[r].batch = old.batch /\ runs'[r].stable = left
    BY <1>4
<1>6. left \subseteq old.stable /\ p \notin left
    BY <1>3 DEF left
<1>7. ASSUME NEW q \in left PROVE post'[q] = post[q] /\ Place(q, post') = Place(q, post)
    <2>1. q \in Posts /\ q # p /\ q \in Nat
        BY <1>3, <1>6, <1>7
    <2>2. \A o \in Posts : o < q => (post'[o].kind # "none" <=> post[o].kind # "none")
        <3> SUFFICES ASSUME NEW o \in Posts, o < q, o = p PROVE post'[o].kind # "none" <=> post[o].kind # "none"
            BY <1>2
        <3>1. ~toggled
            BY <1>3, <1>7, <2>1 DEF left
        <3>2. post'[o].kind = kind
            BY <1>2
        <3> QED BY <3>1, <3>2
    <2>3. {o \in Posts : post'[o].kind # "none" /\ o < q} = {o \in Posts : post[o].kind # "none" /\ o < q}
        BY <2>2
    <2> QED BY <1>2, <2>1, <2>3 DEF Place
<1> QED BY <1>5, <1>6, <1>7 DEF old

LEMMA EditKeepsCopy ==
    ASSUME CopyInv, RunsSound, NEW p \in Posts, NEW kind \in C!Kinds, C!EditPost(p, kind),
           UNCHANGED <<audit, setting, losses>>
    PROVE  CopyInv'
<1>0. /\ CopyTypes /\ PostTypes /\ UNCHANGED rows
      /\ \A r \in Runs : Carries(runs[r], post) /\ Shaped(runs[r])
    BY DEF CopyInv, CopyTypes, RunsSound, Sound, C!EditPost
<1>1. ASSUME NEW r \in Runs
      PROVE  /\ runs'[r].stable \subseteq runs[r].stable
             /\ \A q \in runs'[r].stable : post'[q] = post[q] /\ Place(q, post') = Place(q, post)
             /\ runs'[r].pc = runs[r].pc /\ runs'[r].offset = runs[r].offset /\ runs'[r].more = runs[r].more
             /\ runs'[r].findings = runs[r].findings /\ runs'[r].batch = runs[r].batch
    BY <1>0, EditSpares DEF Carries
<1>2. /\ PostTypes'
      /\ \A q \in Posts : post[q].rev \in Nat /\ post'[q].rev \in Nat /\ post[q].rev <= post'[q].rev
      /\ \A q \in Posts : post'[q].kind # "none" => post'[q].rev # 0
    <2>1. [kind |-> kind, rev |-> post[p].rev + 1] \in [kind: C!Kinds, rev: Nat] /\ post[p].rev \in Nat
        BY <1>0 DEF PostTypes
    <2>2. \A q \in Posts : post'[q] = IF q = p THEN [kind |-> kind, rev |-> post[p].rev + 1] ELSE post[q]
        BY <1>0 DEF C!EditPost, PostTypes
    <2>3. PostTypes'
        BY <1>0, <2>1 DEF C!EditPost, PostTypes
    <2>4. \A q \in Posts : post[q].rev \in Nat
        BY <1>0 DEF PostTypes
    <2>5. \A q \in Posts : post[q].kind # "none" => post[q].rev # 0
        BY <1>0 DEF CopyTypes
    <2> QED BY <2>1, <2>2, <2>3, <2>4, <2>5
<1>3. \A r \in Runs : Carries(runs'[r], post')
    <2> TAKE r \in Runs
    <2>1. \A q \in Posts : runs[r].batch[q].rev \in Nat /\ runs[r].batch[q].rev <= post[q].rev
        BY <1>0, CopyRecords DEF Carries
    <2>2. \A q \in Posts : runs[r].batch[q].rev <= post'[q].rev
        BY <1>2, <2>1
    <2> QED BY <1>0, <1>1, <2>2 DEF Carries
<1>4. CopyTypes'
    <2>1. \A q \in Posts : rows[q].rev \in Nat /\ rows[q].rev <= post[q].rev
        BY <1>0, CopyRecords DEF CopyTypes
    <2>2. \A q \in Posts : rows'[q].rev <= post'[q].rev
        BY <1>0, <1>2, <2>1
    <2> QED BY <1>0, <1>2, <1>3, <2>2 DEF CopyTypes
<1>5. ASSUME OneRun, NEW r \in Runs PROVE Covers(runs'[r], post', rows') /\ Renews(runs'[r], rows')
    <2>1. Covers(runs[r], post, rows) /\ Renews(runs[r], rows)
        BY <1>5 DEF CopyInv
    <2>2. Loaded(runs'[r]) <=> Loaded(runs[r])
        BY <1>1 DEF Loaded
    <2>3. Renews(runs'[r], rows')
        BY <1>0, <1>1, <2>1, <2>2 DEF Renews
    <2>4. Covers(runs'[r], post', rows')
        BY <1>0, <1>1, <2>1, <2>2 DEF Covers
    <2> QED BY <2>3, <2>4
<1>6. ASSUME OneAtATime, NEW r \in Runs PROVE Informs(runs'[r], rows', audit.number)
    <2>1. Informs(runs[r], rows, audit.number)
        BY <1>6 DEF CopyInv
    <2>2. Loaded(runs'[r]) <=> Loaded(runs[r])
        BY <1>1 DEF Loaded
    <2> QED BY <1>0, <1>1, <2>1, <2>2 DEF Informs
<1> QED BY <1>0, <1>4, <1>5, <1>6 DEF CopyInv, OneRun, OneAtATime

(* Another audit: what is known of the ones before is still of earlier ones. *)
LEMMA AuditKeepsCopy ==
    ASSUME CopyInv, A!AuditTypes, audit'.number \in Nat, OneAtATime => audit.number <= audit'.number,
           UNCHANGED <<post, rows, runs, setting>>, losses' \in Nat
    PROVE  CopyInv'
<1>0. CopyTypes /\ CopyTypes' /\ audit.number \in Nat
    BY AuditRecords DEF CopyInv, CopyTypes, PostTypes, A!AuditTypes
<1>1. OneRun => \A r \in Runs : Covers(runs'[r], post', rows') /\ Renews(runs'[r], rows')
    BY DEF CopyInv
<1>2. ASSUME OneAtATime
      PROVE  /\ \A p \in Posts : rows'[p].evidence.audit <= audit'.number
             /\ \A r \in Runs : Informs(runs'[r], rows', audit'.number)
    <2>1. \A p \in Posts : rows[p].evidence.audit \in Nat /\ rows[p].evidence.audit <= audit.number
        BY <1>0, <1>2, CopyRecords DEF CopyInv, CopyTypes
    <2>2. ASSUME NEW r \in Runs PROVE Informs(runs[r], rows, audit'.number)
        <3>1. \A q \in DOMAIN runs[r].findings : runs[r].findings[q].audit \in Nat
            BY <1>0, CopyRecords DEF CopyTypes, Carries
        <3>2. Informs(runs[r], rows, audit.number)
            BY <1>2 DEF CopyInv
        <3> QED BY <1>0, <1>2, <3>1, <3>2 DEF Informs
    <2> QED BY <1>0, <1>2, <2>1, <2>2
<1> QED BY <1>0, <1>1, <1>2 DEF CopyInv, OneRun, OneAtATime

LEMMA CopyInit == ASSUME Init PROVE CopyInv
<1>1. /\ \A r \in Runs : runs[r] = C!NotSyncing
      /\ rows = [p \in Posts |-> C!NoRow] /\ losses = 0 /\ PostTypes
    BY PostInit DEF Init, C!Init
<1>2. \A p \in Posts : post[p].kind # "none" => post[p].rev # 0
    BY DEF Init, C!Init
<1>3. \A p \in Posts : post[p].rev \in Nat
    BY <1>1 DEF PostTypes
<1>4. Carries(C!NotSyncing, post)
    <2>1. C!NotSyncing.batch = C!NoBatch /\ C!NotSyncing.stable = {} /\ DOMAIN C!NotSyncing.findings = {}
        BY DEF C!NotSyncing, C!NoFindings
    <2> QED BY <1>3, <2>1, CopyRecords DEF Carries
<1>5. CopyTypes
    BY <1>1, <1>2, <1>3, <1>4, CopyRecords DEF CopyTypes
<1>6. audit.number \in Nat
    BY AuditInit, AuditRecords DEF AuditInv, A!AuditTypes
<1>7. \A p \in Posts : rows[p].evidence.audit = 0
    BY <1>1, CopyRecords
<1> QED BY <1>1, <1>5, <1>6, <1>7, AtRest DEF CopyInv

(* At most one run is under way when the setting says so. *)
LEMMA OthersRest ==
    ASSUME FewRuns, RunsSound, OneRun, NEW r \in Runs, runs[r].pc # "idle"
    PROVE  \A q \in Runs : q # r => runs[q].pc = "idle"
<1>1. IsFiniteSet(C!BusySyncing)
    BY Finite DEF C!BusySyncing
<1>2. \A x, y \in C!BusySyncing : x = y
    BY <1>1, AtMostOne DEF FewRuns, OneRun
<1> QED BY <1>2 DEF C!BusySyncing

LEMMA CopyStep == ASSUME SyncInv, AuditInv, CopyInv, [Next]_vars PROVE CopyInv'
<1>0. RunsSound /\ FewRuns /\ A!AuditTypes /\ audit.number \in Nat /\ losses \in Nat
    BY AuditRecords DEF SyncInv, AuditInv, A!AuditTypes, CopyInv, CopyTypes
<1>1. CASE UNCHANGED <<post, rows, runs, audit, setting, losses>>
    BY <1>0, <1>1, AuditKeepsCopy
<1>2. CASE Next /\ Auditing
    <2>1. UNCHANGED <<post, rows, runs, setting, losses>>
        BY <1>2 DEF Next, Auditing, A!Next
    <2>2. /\ audit'.number \in Nat
          /\ setting.auditing = 1 => audit.number <= audit'.number
        <3>1. AuditInv' /\ (setting.auditing = 1 => audit.number <= audit'.number)
            BY <1>2, AuditStep DEF CopyInv, CopyTypes
        <3>2. audit' \in A!Audit
            BY <3>1 DEF AuditInv, A!AuditTypes, A!Audit, A!Verdicts
        <3> QED BY <3>1, <3>2, AuditRecords
    <2> QED BY <1>0, <2>1, <2>2, AuditKeepsCopy DEF OneAtATime
<1>3. CASE Next /\ Syncing
    <2>1. UNCHANGED <<audit, setting>>
        BY <1>3 DEF Next, Syncing, auditVars
    <2>2. CASE C!Author /\ UNCHANGED <<late, losses>>
        BY <1>0, <2>1, <2>2, EditKeepsCopy DEF C!Author
    <2>3. ASSUME NEW r \in Runs, StartRun(r) \/ GoOn(r) \/ Losing(r) PROVE CopyInv'
        <3>1. CASE StartRun(r)
            BY <1>0, <2>1, <3>1, StartKeeps DEF StartRun
        <3>2. CASE C!Collect(r) /\ UNCHANGED losses
            BY <1>0, <2>1, <3>2, CollectKeeps
        <3>3. CASE (C!BatchAuthenticated(r) \/ C!CapacityRead(r)) /\ UNCHANGED losses
            BY <1>0, <2>1, <3>3, MoveKeeps
        <3>4. CASE C!Refused(r) /\ UNCHANGED losses
            BY <1>0, <2>1, <3>4, RestKeeps DEF C!Refused, RunBecomes
        <3>5. CASE TakeOver(r)
            <4>1. OneRun => \A q \in Runs : q # r => runs[q].pc = "idle"
                BY <1>0, <3>5, OthersRest DEF TakeOver, C!AcceptWrite
            <4> QED BY <1>0, <2>1, <3>5, <4>1, WriteKeeps DEF TakeOver
        <3>6. CASE Losing(r)
            <4>1. RunBecomes(r, C!NotSyncing) /\ UNCHANGED <<post, rows>> /\ losses' \in Nat
                BY <1>0, <3>6 DEF Losing, C!RunLost, RunBecomes
            <4> QED BY <1>0, <2>1, <4>1, RestKeeps
        <3> QED BY <2>3, <3>1, <3>2, <3>3, <3>4, <3>5, <3>6 DEF GoOn, C!RunStep
    <2> QED BY <1>3, <2>2, <2>3 DEF Syncing
<1>4. CASE Next /\ (Connecting \/ Reporting)
    <2>1. UNCHANGED <<post, rows, runs, audit, setting, losses>>
        BY <1>4 DEF Next, Connecting, Reporting, syncVars, auditVars
    <2> QED BY <1>1, <2>1
<1> QED BY <1>1, <1>2, <1>3, <1>4 DEF Next, vars, syncVars, auditVars

(* A run that ends without a failure. *)
LEMMA RunEnds ==
    ASSUME SyncInv, AuditInv, CopyInv, Next, OneRun, NEW r \in Runs,
           runs[r].pc \in {"collect", "write"}, runs'[r].pc = "idle", losses' = losses,
           NEW p \in runs[r].stable, Reached(p)
    PROVE  rows'[p].rev = post[p].rev
<1>0. /\ RunsSound /\ runs[r].offset \in Nat /\ losses \in Nat /\ BatchSize \in Nat \ {0} /\ MaxBatches \in Nat
      /\ p \in Posts /\ C!Position(p) = Place(p, post) /\ Covers(runs[r], post, rows)
    BY SyncAssumption, PlaceIsPosition DEF SyncInv, RunsSound, Sound, CopyInv, CopyTypes, Carries
<1>1. p \in C!Existing
    BY <1>0 DEF Covers, C!Existing
<1>2. PICK q \in Runs : StartRun(q) \/ GoOn(q) \/ Losing(q)
    <2>1. Connecting \/ Auditing \/ Reporting => UNCHANGED runs
        BY DEF Connecting, Auditing, Reporting, syncVars
    <2>2. \A k \in Posts, kind \in C!Kinds : C!EditPost(k, kind) => runs'[r].pc = runs[r].pc
        <3> SUFFICES ASSUME NEW k \in Posts, NEW kind \in C!Kinds, C!EditPost(k, kind) PROVE runs'[r].pc = runs[r].pc
            OBVIOUS
        <3> QED BY <1>0, EditSpares DEF CopyInv, CopyTypes, Carries, RunsSound, Sound
    <2> QED BY <2>1, <2>2 DEF Next, Syncing, C!Author
<1>3. q = r
    <2>1. \E run : runs' = [runs EXCEPT ![q] = run]
        BY <1>2 DEF StartRun, GoOn, TakeOver, Losing, C!RunStart, C!RunStep, C!AcceptWrite, C!RunLost,
           C!Collect, C!BatchAuthenticated, C!CapacityRead, C!Refused
    <2> QED BY <1>0, <2>1 DEF RunsSound
<1>4. CASE C!Collect(r)
    <2>1. C!Page(runs[r].offset) = {}
        <3> SUFFICES ASSUME C!Page(runs[r].offset) # {} PROVE runs'[r].pc = "send"
            OBVIOUS
        <3> DEFINE full == C!Cardinality(C!Page(runs[r].offset)) = BatchSize
                   run == Collecting(runs[r], C!BatchOf(r), full)
        <3>1. runs' = [runs EXCEPT ![r] = run]
            BY <1>4 DEF C!Collect, Collecting
        <3>2. runs'[r] = run
            BY <1>0, <3>1 DEF RunsSound
        <3>3. Sound(runs[r]) /\ runs[r].pc # "idle" /\ Cardinality({o \in Posts : C!BatchOf(r)[o].rev # 0}) <= BatchSize
            BY <1>0, <1>4, BatchFits DEF RunsSound, C!Collect
        <3> HIDE DEF full
        <3> QED BY <3>2, <3>3, Collected
    <2>2. C!Cardinality(C!Page(runs[r].offset)) # BatchSize
        BY <1>0, <2>1, OneCardinality, FS_EmptySet
    <2>3. Place(p, post) < runs[r].offset
        BY <1>0, <1>1, <2>1, <2>2, LastPage
    <2> QED BY <1>0, <1>4, <2>3 DEF Covers, C!Collect
<1>5. CASE C!AcceptWrite(r)
    <2>1. C!LastBatch(r)
        <3> SUFFICES ASSUME ~C!LastBatch(r) PROVE runs'[r].pc = "collect"
            OBVIOUS
        <3> QED BY <1>0, <1>5 DEF C!AcceptWrite, RunsSound, Sound, Shaped
    <2>2. CASE ~runs[r].more
        BY <1>0, <1>5, <2>2, WriteCovers
    <2>3. CASE C!NextOffset(r) >= MaxBatches * BatchSize
        <3>1. Place(p, post) \in Nat /\ Place(p, post) < MaxBatches * BatchSize /\ MaxBatches * BatchSize \in Nat
            BY <1>0, <1>1, Positions DEF Reached
        <3>2. Place(p, post) < runs[r].offset + BatchSize
            BY <1>0, <2>3, <3>1 DEF C!NextOffset
        <3> QED BY <1>0, <1>5, <3>2, WriteCovers
    <2> QED BY <2>1, <2>2, <2>3 DEF C!LastBatch
<1>6. CASE Losing(r)
    BY <1>0, <1>6 DEF Losing
<1>7. ~(StartRun(r) \/ C!BatchAuthenticated(r) \/ C!CapacityRead(r) \/ C!Refused(r))
    BY DEF StartRun, C!RunStart, C!BatchAuthenticated, C!CapacityRead, C!Refused
<1> QED BY <1>2, <1>3, <1>4, <1>5, <1>6, <1>7 DEF GoOn, C!RunStep, TakeOver

LEMMA NeverBack ==
    ASSUME SyncInv, AuditInv, CopyInv, Next, OneAtATime, NEW p \in Posts
    PROVE  rows'[p].rev >= rows[p].rev /\ rows'[p].evidence.audit >= rows[p].evidence.audit
<1>0. /\ RunsSound /\ audit.number \in Nat /\ CopyTypes
      /\ rows[p].rev \in Nat /\ rows[p].evidence.audit \in Nat
    BY AuditRecords, CopyRecords DEF SyncInv, AuditInv, A!AuditTypes, CopyInv, CopyTypes
<1>1. CASE \E r \in Runs : C!AcceptWrite(r)
    <2> PICK r \in Runs : C!AcceptWrite(r)
        BY <1>1
    <2>1. rows'[p] \in C!Row
        BY <1>0, WriteIs
    <2>2. rows'[p].rev \in Nat /\ rows'[p].evidence.audit \in Nat
        BY <2>1, CopyRecords
    <2> QED BY <1>0, <2>2, WriteAdvances DEF OneAtATime, OneRun
<1>2. CASE UNCHANGED rows
    BY <1>0, <1>2
<1>3. (\E r \in Runs : C!AcceptWrite(r)) \/ UNCHANGED rows
    <2>1. Connecting \/ Auditing \/ Reporting => UNCHANGED rows
        BY DEF Connecting, Auditing, Reporting, syncVars
    <2>2. Syncing => (\E r \in Runs : C!AcceptWrite(r)) \/ UNCHANGED rows
        BY DEF Syncing, C!Author, C!EditPost, StartRun, GoOn, TakeOver, Losing, C!RunStart, C!RunStep, C!RunLost,
           C!Collect, C!BatchAuthenticated, C!CapacityRead, C!Refused
    <2> QED BY <2>1, <2>2 DEF Next
<1> QED BY <1>1, <1>2, <1>3

LEMMA CopyAlways == Spec => [](SyncInv /\ AuditInv /\ CopyInv)
<1>1. Init => SyncInv /\ AuditInv /\ CopyInv
    BY SyncInit, AuditInit, CopyInit
<1>2. SyncInv /\ AuditInv /\ CopyInv /\ [Next]_vars => SyncInv' /\ AuditInv' /\ CopyInv'
    <2>1. CopyInv => PostTypes
        BY DEF CopyInv, CopyTypes
    <2> QED BY <2>1, SyncStep, AuditStep, CopyStep
<1> QED BY <1>1, <1>2, PTL DEF Spec

(***************************************************************************)
(* A run handled by itself that ends without a failure has brought over    *)
(* every post within MAX_SYNC_BATCHES that it could not miss               *)
(* (SyncScheduler::runSync, collectBatch); runs and audits one at a time,  *)
(* the copy of a post and its findings never go back                       *)
(* (preserveAcceptedLocalFindings).                                        *)
(***************************************************************************)
THEOREM CopyOnlyAdvances == Spec => CopyAdvances
<1>1. SyncInv /\ AuditInv /\ CopyInv /\ [Next]_vars =>
          [\A r \in Runs :
              (setting.runs = 1 /\ runs[r].pc \in {"collect", "write"} /\ runs'[r].pc = "idle" /\ losses' = losses)
                  => \A p \in runs[r].stable : Reached(p) => rows'[p].rev = post[p].rev]_vars
    BY RunEnds DEF OneRun
<1>2. SyncInv /\ AuditInv /\ CopyInv /\ [Next]_vars =>
          [(setting.runs = 1 /\ setting.auditing = 1) => \A p \in Posts :
              /\ rows'[p].rev >= rows[p].rev
              /\ rows'[p].evidence.audit >= rows[p].evidence.audit]_vars
    BY NeverBack DEF OneAtATime
<1> QED BY <1>1, <1>2, CopyAlways, PTL DEF Spec, CopyAdvances, RunCoversContent, CopyNeverGoesBack

(* The state of the four components has its types, for every number of     *)
(* challenges, requests, posts, runs, audits and updates.                  *)
THEOREM TypesHold == Spec => []TypeOK
<1>1. Init => ConnectionInv /\ EventsInv
    BY ConnectionInit, EventInit
<1>2. ConnectionInv /\ EventsInv /\ [Next]_vars => ConnectionInv' /\ EventsInv'
    BY ConnectionInvStep, EventsStep
<1>3. ConnectionInv /\ EventsInv /\ AuditInv /\ CopyInv => TypeOK
    <2> SUFFICES ASSUME ConnectionInv, EventsInv, AuditInv, CopyInv PROVE TypeOK
        OBVIOUS
    <2>1. C!SyncTypes
        <3>1. post \in [Posts -> [kind: C!Kinds, rev: Nat]] /\ rows \in [Posts -> C!Row]
            BY DEF CopyInv, CopyTypes, PostTypes
        <3>2. \A r \in Runs : \A p \in Posts : runs[r].batch[p].rev \in Nat
            BY CopyRecords DEF CopyInv, CopyTypes, Carries
        <3>3. \A r \in Runs : DOMAIN runs[r].findings \subseteq Posts /\ runs[r].stable \subseteq Posts
            BY DEF CopyInv, CopyTypes, Carries
        <3> QED BY <3>1, <3>2, <3>3 DEF C!SyncTypes
    <2> QED BY <2>1 DEF ConnectionInv, EventsInv, AuditInv, TypeOK
<1> QED BY <1>1, <1>2, <1>3, CopyAlways, PTL DEF Spec
=============================================================================
