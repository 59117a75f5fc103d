------------------------------- MODULE Entrance -------------------------------
(***************************************************************************)
(* One account together with its owner's calls to the dashboard: a call    *)
(* arrives with the cookie of one of the account's sessions, and is        *)
(* answered for as long as that session has not ended.                     *)
(***************************************************************************)
EXTENDS Accounts, RateLimits

VARIABLES member, call, moves

D == INSTANCE Doors WITH live <- {s.number : s \in sessions}

(***************************************************************************)
(* What is said of the doors is read off the tables of steps, which depend *)
(* on no constant.  A setting has roles, scopes and doors there are.       *)
(***************************************************************************)
ASSUME EntranceAssumption ==
    /\ D!DoorsAreSound
    /\ \A s \in Settings :
          /\ s.doors \in {"none", "all", "login"}
          /\ s.roles \subseteq D!RoleNames /\ s.next \subseteq D!RoleNames
          /\ s.scopes \subseteq D!Scopes

account == <<user, sessions, opened, resets, mails, issued, clock, reqs>>
calls == <<limitVars, member, call, moves>>
everything == <<vars, calls>>

EntranceInit == Init /\ D!Init

(* A setting bounds the links that are mailed and the sessions that calls   *)
(* come with, and what may happen while a call is in flight.                *)
AccountStep ==
    /\ Next
    /\ Len(resets') <= setting.links
    /\ opened' + Cardinality(Busy') <= setting.sessions
    /\ IF call.state = "running" THEN moves < setting.moves /\ moves' = moves + 1
       ELSE UNCHANGED moves
    /\ UNCHANGED <<limitVars, member, call>>

CallStep == D!Next /\ UNCHANGED account

EntranceSpec == EntranceInit /\ [][AccountStep \/ CallStep]_everything

(* The type invariant of both. *)
EntranceTypes == TypeOK /\ D!TypeOK

CallsAllowed == D!CallsAllowed
QuotaHolds == D!QuotaHolds
RefusalsComeFirst == D!RefusalsComeFirst
===============================================================================
