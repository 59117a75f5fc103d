------------------------------- MODULE Accounts -------------------------------
(***************************************************************************)
(* One account and whoever uses it: registering, logging in and out, the   *)
(* second factor, resetting the password and verifying the address         *)
(* (auth.ts, two-factor.ts, totp.ts, password-reset.ts,                    *)
(* email-verification.ts).  Every handler reads the account, decides, and  *)
(* writes in later statements, so a request is a Read step and its writes. *)
(*                                                                         *)
(* A password is a number: the reset link that set it, or one of           *)
(* FirstPasswords for the one registered with.  A TOTP code is the secret  *)
(* it was made from and its time step; secrets are numbered as they are    *)
(* generated, and 0 is none.  twoFactorSecret and twoFactorEnabledAt are   *)
(* always written together and are one field here.  Hashing, encryption    *)
(* and the collision of two codes are left out.                            *)
(***************************************************************************)
EXTENDS Integers, FiniteSets, Sequences

CONSTANTS
    Reqs,           \* requests that may be in flight together
    MaxClock,       \* bound: time steps of 30 seconds
    MaxSecrets,     \* bound: secrets generated
    MaxSessions,    \* bound: sessions opened
    MaxLinks,       \* bound: reset links and verification links mailed
    Settings        \* environments: requests in flight, what they do, the account at the start

ASSUME AccountsAssumption ==
    /\ IsFiniteSet(Reqs)
    /\ MaxClock \in Nat /\ MaxSecrets \in Nat /\ MaxSessions \in Nat /\ MaxLinks \in Nat

VARIABLES
    user,           \* the User row
    sessions,       \* Session rows, and the password and the code each was opened with
    opened,         \* sessions opened so far; a session's number is its token
    resets,         \* PasswordResetToken rows, in the order they were mailed
    mails,          \* EmailVerificationToken rows, likewise
    issued,         \* secrets generated so far
    clock,          \* the time step it is
    reqs,           \* handlers between their reads and their writes
    setting         \* the environment of this behaviour

vars == <<user, sessions, opened, resets, mails, issued, clock, reqs, setting>>

FirstPasswords == {-1, 0}
NoCounter == -1
NoCode == [secret |-> 0, counter |-> NoCounter]

Code == [secret: Nat, counter: Nat \cup {NoCounter}]
Session == [number: Nat, password: Int, code: Code]
Link == [used: BOOLEAN, fresh: BOOLEAN]

User == [state: {"absent", "invited", "registered"}, password: Int, verified: BOOLEAN,
         secret: Nat, pending: Nat, last: Nat \cup {NoCounter}]

Request == [pc: {"idle", "register", "code", "session", "enroll", "confirm", "disable",
                 "ask", "reset", "mail", "verify", "spend"},
            password: Int, code: Code, link: Nat, found: BOOLEAN]

Idle == [pc |-> "idle", password |-> 0, code |-> NoCode, link |-> 0, found |-> FALSE]

TypeOK ==
    /\ user \in User
    /\ \A s \in sessions : s \in Session /\ s.number <= opened
    /\ opened \in Nat /\ issued \in Nat /\ clock \in Nat
    /\ resets \in Seq(Link) /\ mails \in Seq(Link)
    /\ reqs \in [Reqs -> Request]

Blank == [state |-> "absent", password |-> 0, verified |-> FALSE, secret |-> 0, pending |-> 0,
          last |-> NoCounter]

(* An enrolled account has confirmed secret 1 with the code of step 0. *)
Init ==
    /\ setting \in Settings
    /\ \/ setting.start \in {"absent", "invited", "registered"}
          /\ user = [Blank EXCEPT !.state = setting.start]
          /\ issued = 0
       \/ setting.start = "enrolled"
          /\ user = [Blank EXCEPT !.state = "registered", !.secret = 1, !.last = 0]
          /\ issued = 1
    /\ sessions = {} /\ opened = 0
    /\ resets = <<>> /\ mails = <<>>
    /\ clock = 1
    /\ reqs = [r \in Reqs |-> Idle]

Busy == {r \in Reqs : reqs[r].pc # "idle"}

Begin(r, act, request) ==
    /\ act \in setting.acts
    /\ reqs[r].pc = "idle"
    /\ reqs' = [reqs EXCEPT ![r] = request]
    /\ UNCHANGED <<user, sessions, opened, resets, mails, issued, clock, setting>>

Go(r, pc) == reqs' = [reqs EXCEPT ![r].pc = pc]
End(r) == reqs' = [reqs EXCEPT ![r] = Idle]

-----------------------------------------------------------------------------
(* Codes *)

(* What an authenticator can show; a code is valid one step early or late. *)
Codes == [secret: 1..issued, counter: {c \in (clock - 1)..(clock + 1) : c >= 0}]

(* verifyTotpCode: `last' is the counter of the last code that was used *)
Verifies(secret, code, last) ==
    /\ code.secret = secret
    /\ code.counter > last
    /\ code.counter \in (clock - 1)..(clock + 1)

-----------------------------------------------------------------------------
(* Registering and logging in *)

RegisterRead(r, password) ==
    /\ user.state # "registered"
    /\ Begin(r, "register", [Idle EXCEPT !.pc = "register", !.password = password,
                                         !.found = user.state = "invited"])

(* An invited account is updated by id; a new one is inserted, unless the   *)
(* unique index over addresses finds another.                               *)
RegisterWrite(r) ==
    /\ reqs[r].pc = "register"
    /\ \/ /\ reqs[r].found \/ user.state = "absent"
          /\ user' = [user EXCEPT !.state = "registered", !.password = reqs[r].password]
          /\ Go(r, "session")
       \/ /\ ~reqs[r].found /\ user.state # "absent"
          /\ End(r)
          /\ UNCHANGED user
    /\ UNCHANGED <<sessions, opened, resets, mails, issued, clock, setting>>

(* Whoever logs in knows the password of the moment. *)
LoginRead(r, code) ==
    /\ user.state = "registered"
    /\ \/ /\ user.secret = 0 /\ code = NoCode
          /\ Begin(r, "login", [Idle EXCEPT !.pc = "session", !.password = user.password])
       \/ /\ user.secret # 0 /\ Verifies(user.secret, code, user.last)
          /\ Begin(r, "login", [Idle EXCEPT !.pc = "code", !.password = user.password, !.code = code])

LoginCodeUnconditional(r) ==                    \* mutant: the counter is stored without looking again
    /\ reqs[r].pc = "code"
    /\ user' = [user EXCEPT !.last = reqs[r].code.counter]
    /\ Go(r, "session")
    /\ UNCHANGED <<sessions, opened, resets, mails, issued, clock, setting>>

(* The update only finds the row while its counter is null or older. *)
LoginCode(r) ==
    LET counter == reqs[r].code.counter
    IN  /\ reqs[r].pc = "code"
        /\ \/ /\ user.last = NoCounter \/ user.last < counter
              /\ user' = [user EXCEPT !.last = counter]
              /\ Go(r, "session")
           \/ /\ user.last # NoCounter /\ user.last >= counter
              /\ End(r)
              /\ UNCHANGED user
        /\ UNCHANGED <<sessions, opened, resets, mails, issued, clock, setting>>

(* createSessionCookie *)
OpenSession(r) ==
    /\ reqs[r].pc = "session" /\ opened < MaxSessions
    /\ opened' = opened + 1
    /\ sessions' = sessions \cup
           {[number |-> opened + 1, password |-> reqs[r].password, code |-> reqs[r].code]}
    /\ End(r)
    /\ UNCHANGED <<user, resets, mails, issued, clock, setting>>

(* logoutCurrentSession, or getCurrentUser of a session that has expired *)
EndSession(s) ==
    /\ "logout" \in setting.acts
    /\ sessions' = sessions \ {s}
    /\ UNCHANGED <<user, opened, resets, mails, issued, clock, reqs, setting>>

-----------------------------------------------------------------------------
(* The second factor; its handlers need a session *)

EnrollRead(r) ==
    /\ sessions # {} /\ user.secret = 0
    /\ Begin(r, "enroll", [Idle EXCEPT !.pc = "enroll"])

EnrollWrite(r) ==
    /\ reqs[r].pc = "enroll" /\ issued < MaxSecrets
    /\ issued' = issued + 1
    /\ user' = [user EXCEPT !.pending = issued + 1]
    /\ End(r)
    /\ UNCHANGED <<sessions, opened, resets, mails, clock, setting>>

ConfirmRead(r, code) ==
    /\ sessions # {} /\ user.secret = 0 /\ user.pending # 0
    /\ Verifies(user.pending, code, NoCounter)
    /\ Begin(r, "enroll", [Idle EXCEPT !.pc = "confirm", !.code = code])

(* The secret that was read is enabled, whichever is pending by now. *)
ConfirmWrite(r) ==
    /\ reqs[r].pc = "confirm"
    /\ user' = [user EXCEPT !.secret = reqs[r].code.secret, !.pending = 0, !.last = reqs[r].code.counter]
    /\ End(r)
    /\ UNCHANGED <<sessions, opened, resets, mails, issued, clock, setting>>

DisableWithAnyCode(r, code) ==                  \* mutant: a code of any secret will do
    /\ sessions # {} /\ user.secret # 0
    /\ Verifies(code.secret, code, user.last)
    /\ Begin(r, "disable", [Idle EXCEPT !.pc = "disable", !.code = code])

DisableRead(r, code) ==
    /\ sessions # {} /\ user.secret # 0
    /\ Verifies(user.secret, code, user.last)
    /\ Begin(r, "disable", [Idle EXCEPT !.pc = "disable", !.code = code])

DisableToNull(r) ==                             \* mutant: the counter is set to what the client calls null
    /\ reqs[r].pc = "disable"
    /\ user' = [user EXCEPT !.secret = 0, !.pending = 0, !.last = -2]
    /\ End(r)
    /\ UNCHANGED <<sessions, opened, resets, mails, issued, clock, setting>>

DisableWrite(r) ==
    /\ reqs[r].pc = "disable"
    /\ user' = [user EXCEPT !.secret = 0, !.pending = 0, !.last = NoCounter]
    /\ End(r)
    /\ UNCHANGED <<sessions, opened, resets, mails, issued, clock, setting>>

-----------------------------------------------------------------------------
(* Links that are mailed *)

Fresh == [used |-> FALSE, fresh |-> TRUE]
Open(links) == {k \in DOMAIN links : ~links[k].used}

Spent(links, K) == [k \in DOMAIN links |-> IF k \in K THEN [links[k] EXCEPT !.used = TRUE] ELSE links[k]]

(* createPasswordResetRequest: the transaction marks the links that are     *)
(* committed when it begins, and then inserts its own.                      *)
AskReset(r) ==
    /\ user.state = "registered"
    /\ Begin(r, "reset", [Idle EXCEPT !.pc = "ask", !.link = Len(resets)])

MailReset(r) ==
    /\ reqs[r].pc = "ask" /\ Len(resets) < MaxLinks
    /\ resets' = Append(Spent(resets, 1..reqs[r].link), Fresh)
    /\ End(r)
    /\ UNCHANGED <<user, sessions, opened, mails, issued, clock, setting>>

ResetRead(r, k) ==
    /\ ~resets[k].used /\ resets[k].fresh
    /\ Begin(r, "reset", [Idle EXCEPT !.pc = "reset", !.link = k])

ResetKeepsSessions(r) ==                        \* mutant: who is logged in stays logged in
    /\ reqs[r].pc = "reset"
    /\ user' = [user EXCEPT !.password = reqs[r].link, !.verified = TRUE]
    /\ resets' = Spent(resets, Open(resets))
    /\ End(r)
    /\ UNCHANGED <<sessions, opened, mails, issued, clock, setting>>

(* A link that reached its reader verifies the address as well. *)
ResetWrite(r) ==
    /\ reqs[r].pc = "reset"
    /\ user' = [user EXCEPT !.password = reqs[r].link, !.verified = TRUE]
    /\ resets' = Spent(resets, Open(resets))
    /\ sessions' = {}
    /\ End(r)
    /\ UNCHANGED <<opened, mails, issued, clock, setting>>

(* createEmailVerificationRequestForUser *)
AskMail(r) ==
    /\ user.state = "registered" /\ ~user.verified
    /\ Begin(r, "verify", [Idle EXCEPT !.pc = "mail", !.link = Len(mails)])

MailLink(r) ==
    /\ reqs[r].pc = "mail" /\ Len(mails) < MaxLinks
    /\ mails' = Append(Spent(mails, 1..reqs[r].link), Fresh)
    /\ End(r)
    /\ UNCHANGED <<user, sessions, opened, resets, issued, clock, setting>>

(* A verified account accepts any of its links again and spends it. *)
VerifyRead(r, k) ==
    \/ /\ user.verified
       /\ Begin(r, "verify", [Idle EXCEPT !.pc = "spend", !.link = k])
    \/ /\ ~user.verified /\ ~mails[k].used /\ mails[k].fresh
       /\ Begin(r, "verify", [Idle EXCEPT !.pc = "verify", !.link = k])

VerifyWrite(r) ==
    /\ \/ /\ reqs[r].pc = "verify"
          /\ user' = [user EXCEPT !.verified = TRUE]
          /\ mails' = Spent(mails, Open(mails))
       \/ /\ reqs[r].pc = "spend"
          /\ mails' = Spent(mails, {reqs[r].link})
          /\ UNCHANGED user
    /\ End(r)
    /\ UNCHANGED <<sessions, opened, resets, issued, clock, setting>>

-----------------------------------------------------------------------------
ResetExpires(k) ==
    /\ resets[k].fresh
    /\ resets' = [resets EXCEPT ![k].fresh = FALSE]
    /\ UNCHANGED <<user, sessions, opened, mails, issued, clock, reqs, setting>>

MailExpires(k) ==
    /\ mails[k].fresh
    /\ mails' = [mails EXCEPT ![k].fresh = FALSE]
    /\ UNCHANGED <<user, sessions, opened, resets, issued, clock, reqs, setting>>

Tick ==
    /\ issued > 0 /\ clock < MaxClock
    /\ clock' = clock + 1
    /\ UNCHANGED <<user, sessions, opened, resets, mails, issued, reqs, setting>>

(* The server process ends in the middle of a request. *)
Abandon(r) ==
    /\ reqs[r].pc # "idle"
    /\ End(r)
    /\ UNCHANGED <<user, sessions, opened, resets, mails, issued, clock, setting>>

Next ==
    /\ \/ \E r \in Reqs :
             \/ \E password \in FirstPasswords : RegisterRead(r, password)
             \/ \E code \in Codes : ConfirmRead(r, code) \/ DisableRead(r, code)
             \/ \E code \in Codes \cup {NoCode} : LoginRead(r, code)
             \/ \E k \in DOMAIN resets : ResetRead(r, k)
             \/ \E k \in DOMAIN mails : VerifyRead(r, k)
             \/ EnrollRead(r) \/ AskReset(r) \/ AskMail(r)
             \/ RegisterWrite(r) \/ LoginCode(r) \/ OpenSession(r)
             \/ EnrollWrite(r) \/ ConfirmWrite(r) \/ DisableWrite(r)
             \/ MailReset(r) \/ ResetWrite(r) \/ MailLink(r) \/ VerifyWrite(r)
             \/ Abandon(r)
       \/ \E s \in sessions : EndSession(s)
       \/ \E k \in DOMAIN resets : ResetExpires(k)
       \/ \E k \in DOMAIN mails : MailExpires(k)
       \/ Tick
    /\ Cardinality(Busy') <= setting.slots

Spec == Init /\ [][Next]_vars

-----------------------------------------------------------------------------
OneAtATime == setting.slots = 1

(* While nobody enrolls or disables, requests may meet as they like. *)
Settled == setting.acts \cap {"enroll", "disable"} = {}

(***************************************************************************)
(* A code opens one session, although two logins with it both read a       *)
(* counter that is older (loginWithPassword); also a code that confirmed   *)
(* an enrollment.  A double confirmation may set the counter back, and a   *)
(* disabled factor forgets it, so those are checked one at a time.         *)
(***************************************************************************)
CodesOpenOneSession ==
    (Settled \/ OneAtATime) =>
        \A s, t \in sessions : (s.code = t.code /\ s.code # NoCode) => s = t

(***************************************************************************)
(* Requests handled one at a time: every session was opened with the       *)
(* password in force, so a reset ends all others; and of the links that    *)
(* were mailed only the last is open.                                      *)
(***************************************************************************)
SessionsFollowPassword == OneAtATime => \A s \in sessions : s.password = user.password

LastLinkOnly ==
    OneAtATime => Open(resets) \subseteq {Len(resets)} /\ Open(mails) \subseteq {Len(mails)}

(***************************************************************************)
(* Requests handled one at a time: a registered account's password is only *)
(* replaced by that of a link mailed later, so no link works twice.        *)
(***************************************************************************)
PasswordAdvances ==
    [][(OneAtATime /\ user.state = "registered" /\ user'.password # user.password)
          => user'.password > user.password]_vars

ResetsEndTheOld == [](SessionsFollowPassword /\ LastLinkOnly) /\ PasswordAdvances

(***************************************************************************)
(* Requests handled one at a time: while the second factor is on, a new    *)
(* session took a code of it, and only a code of it turns it off; it is    *)
(* turned on with a secret that was shown to work.  The latter holds       *)
(* however requests meet.                                                  *)
(***************************************************************************)
CodesAreAskedFor ==
    [][OneAtATime => \A s \in sessions' \ sessions : s.code.secret = user.secret]_vars

SecretsAreProved ==
    [][user'.secret # user.secret =>
          \E r \in Reqs : IF user'.secret # 0 THEN reqs[r].code.secret = user'.secret
                          ELSE OneAtATime => reqs[r].code.secret = user.secret]_vars

SecondFactorHolds == CodesAreAskedFor /\ SecretsAreProved
=============================================================================
