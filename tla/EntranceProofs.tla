---------------------------- MODULE EntranceProofs ----------------------------
(***************************************************************************)
(* What holds of an account for every number of requests, codes and links; *)
(* of the calls to the dashboard for every number of requests, sessions    *)
(* and changes of the member; and of the rate limiter for every limit,     *)
(* window and number of processes.  What it takes of the doors is in       *)
(* DoorsAreSound, which TLC evaluates.                                     *)
(***************************************************************************)
EXTENDS Entrance, FiniteSetTheorems, TLAPS

-----------------------------------------------------------------------------
(* However requests meet *)

(* A code was made from a secret that was generated. *)
Real(code) == code = NoCode \/ (code.secret \in 1..issued /\ code.counter \in Nat)

Shaped ==
    /\ TypeOK
    /\ \A s \in sessions : Real(s.code)
    /\ \A r \in Reqs : Real(reqs[r].code)
    /\ user.secret <= issued /\ user.pending <= issued
    /\ user.state # "registered" => user.secret = 0 /\ sessions = {}

(* What stays true of a request once it has read the account. *)
Founded(request) ==
    /\ request.pc \in {"code", "confirm", "disable"} => request.code # NoCode
    /\ request.pc \in {"code", "session", "enroll", "confirm", "disable"} => user.state = "registered"
    /\ request.pc = "register" => request.code = NoCode /\ request.password <= 0
    /\ request.pc = "reset" => request.link \in DOMAIN resets

Standing == Shaped /\ \A r \in Reqs : Founded(reqs[r])

-----------------------------------------------------------------------------
(* One request at a time *)

Single == \A r, q \in Reqs : reqs[r].pc # "idle" /\ reqs[q].pc # "idle" => r = q

(* What a request has read is still what the account says. *)
Faithful(request) ==
    /\ request.pc = "register" => user.state # "registered"
    /\ request.pc \in {"code", "session"} => request.password = user.password
    /\ request.pc \in {"code", "session", "disable"} => request.code.secret = user.secret
    /\ request.pc \in {"enroll", "confirm"} => user.secret = 0
    /\ request.pc = "confirm" => request.code.secret = user.pending
    /\ request.pc = "ask" => request.link = Len(resets)
    /\ request.pc = "mail" => request.link = Len(mails)
    /\ request.pc = "reset" => request.link \in Open(resets)

(* The password is that of a link before any that is still open; a secret  *)
(* that is pending was in no code so far.                                  *)
Orderly ==
    /\ \A s \in sessions : s.password = user.password
    /\ Open(resets) \subseteq {Len(resets)} /\ Open(mails) \subseteq {Len(mails)}
    /\ user.password <= Len(resets) /\ \A k \in Open(resets) : user.password < k
    /\ user.pending # 0 => user.secret = 0
    /\ \A s \in sessions : s.code = NoCode \/ s.code.secret # user.pending

Alone == OneAtATime => Single /\ Orderly /\ \A r \in Reqs : Faithful(reqs[r])

-----------------------------------------------------------------------------
(* Requests one at a time, or no enrolling *)

(* The code of a session that is being opened is used up. *)
Kept(request) ==
    /\ Settled => request.pc \notin {"enroll", "confirm", "disable"}
    /\ request.pc \in {"code", "session"} => request.code.secret = user.secret
    /\ request.pc = "register" => user.secret = 0
    /\ request.pc = "session" /\ request.code # NoCode =>
           request.code.counter <= user.last /\ \A s \in sessions : s.code # request.code

Recorded ==
    Settled \/ OneAtATime =>
        /\ \A r \in Reqs : Kept(reqs[r])
        /\ \A s \in sessions :
               s.code = NoCode \/ s.code.secret # user.secret \/ s.code.counter <= user.last
        /\ \A r, q \in Reqs : reqs[r].pc = "session" /\ reqs[q].pc = "session" /\ reqs[r].code # NoCode
                              => r = q \/ reqs[r].code # reqs[q].code
        /\ \A s, t \in sessions : s.code = t.code /\ s.code # NoCode => s = t

-----------------------------------------------------------------------------
(* The steps of a request *)

(* A step is a request's read, its write, or no request's. *)
Reads(r) ==
    \/ \E password \in FirstPasswords : RegisterRead(r, password)
    \/ \E code \in Codes : ConfirmRead(r, code) \/ DisableRead(r, code)
    \/ \E code \in Codes \cup {NoCode} : LoginRead(r, code)
    \/ \E k \in DOMAIN resets : ResetRead(r, k)
    \/ \E k \in DOMAIN mails : VerifyRead(r, k)
    \/ EnrollRead(r) \/ AskReset(r) \/ AskMail(r)

Writes(r) ==
    \/ RegisterWrite(r) \/ LoginCode(r) \/ OpenSession(r) \/ EnrollWrite(r) \/ ConfirmWrite(r)
    \/ DisableWrite(r) \/ MailReset(r) \/ ResetWrite(r) \/ MailLink(r) \/ VerifyWrite(r)
    \/ Abandon(r)

LEMMA RequestTypes ==
    /\ Idle \in Request /\ NoCode \in Code
    /\ \A p \in FirstPasswords : p \in Int /\ p <= 0
BY DEF Idle, Request, NoCode, Code, NoCounter, FirstPasswords

LEMMA CodesAreReal ==
    ASSUME Shaped
    PROVE  \A code \in Codes : code \in Code /\ Real(code) /\ code # NoCode
BY DEF Shaped, TypeOK, Codes, Code, Real, NoCode

LEMMA BeginStands ==
    ASSUME NEW r \in Reqs, NEW act, NEW request \in Request, Standing,
           Begin(r, act, request), Real(request.code), Founded(request)
    PROVE  Standing'
BY DEF Begin, Standing, Shaped, TypeOK, Real, Founded

Becomes(r, request) == reqs' = [reqs EXCEPT ![r] = request]

(* A write keeps the rows well formed and ends the request, or lets it open *)
(* a session of a registered account.                                      *)
LEMMA WriteStands ==
    ASSUME NEW r \in Reqs, NEW request \in Request, Standing,
           Becomes(r, request), Real(request.code), clock' = clock,
           request.pc = "idle" \/ (request.pc = "session" /\ user'.state = "registered"),
           user' \in User, user'.secret <= issued', user'.pending <= issued',
           user'.state # "registered" => user'.secret = 0 /\ sessions' = {},
           user.state = "registered" => user'.state = "registered",
           opened' \in Nat, opened <= opened', issued' \in Nat, issued <= issued',
           \A s \in sessions' : s \in sessions \/ (s \in Session /\ s.number <= opened' /\ Real(s.code)),
           resets' \in Seq(Link), mails' \in Seq(Link), DOMAIN resets \subseteq DOMAIN resets'
    PROVE  Standing'
<1>1. \A code : Real(code) => Real(code)'
    BY DEF Standing, Shaped, TypeOK, Real
<1>2. reqs' \in [Reqs -> Request] /\ \A q \in Reqs : q # r => reqs'[q] = reqs[q]
    BY DEF Standing, Shaped, TypeOK, Becomes
<1>3. reqs'[r] = request
    BY DEF Standing, Shaped, TypeOK, Becomes
<1>4. (\A s \in sessions : s \in Session /\ s.number <= opened /\ Real(s.code))'
    <2>1. \A s \in sessions : s \in Session /\ s.number <= opened /\ Real(s.code) /\ s.number \in Nat
        BY DEF Standing, Shaped, TypeOK, Session
    <2> QED BY <1>1, <2>1 DEF Standing, Shaped, TypeOK
<1>5. (\A q \in Reqs : Real(reqs[q].code))'
    BY <1>1, <1>2, <1>3 DEF Standing, Shaped
<1>6. Shaped'
    BY <1>2, <1>4, <1>5 DEF Standing, Shaped, TypeOK
<1>7. (\A q \in Reqs : Founded(reqs[q]))'
    BY <1>2, <1>3 DEF Standing, Founded
<1> QED BY <1>6, <1>7 DEF Standing

LEMMA SpentLinks ==
    ASSUME NEW links \in Seq(Link), NEW K
    PROVE  /\ Spent(links, K) \in Seq(Link)
           /\ Len(Spent(links, K)) = Len(links)
           /\ DOMAIN Spent(links, K) = DOMAIN links
           /\ Open(Spent(links, K)) = Open(links) \ K
<1>1. ASSUME NEW k \in DOMAIN links
      PROVE  /\ [links[k] EXCEPT !.used = TRUE] \in Link
             /\ [links[k] EXCEPT !.used = TRUE].used
    <2>1. links[k] \in Link
        OBVIOUS
    <2> QED BY <2>1 DEF Link
<1>2. Spent(links, K) = [k \in 1..Len(links) |-> IF k \in K THEN [links[k] EXCEPT !.used = TRUE] ELSE links[k]]
    BY DEF Spent
<1>3. \A k \in 1..Len(links) : (IF k \in K THEN [links[k] EXCEPT !.used = TRUE] ELSE links[k]) \in Link
    BY <1>1
<1>4. Spent(links, K) \in Seq(Link) /\ Len(Spent(links, K)) = Len(links)
    BY <1>2, <1>3
<1> QED BY <1>1, <1>2, <1>4 DEF Open

(* A request that begins. *)
Grounded(request) ==
    /\ request \in Request /\ request.pc # "idle" /\ Real(request.code)
    /\ Founded(request) /\ Faithful(request) /\ Kept(request)
    /\ request.pc = "session" => request.code = NoCode

LEMMA ReadsBegin ==
    ASSUME Standing, NEW r \in Reqs, Reads(r)
    PROVE  \E act, request : Begin(r, act, request) /\ Grounded(request)
<1> DEFINE Goal == \E act, request : Begin(r, act, request) /\ Grounded(request)
<1>0. /\ Standing /\ Shaped /\ user \in User
      /\ sessions # {} => user.state = "registered"
      /\ DOMAIN resets \subseteq Nat /\ DOMAIN mails \subseteq Nat
      /\ Len(resets) \in Nat /\ Len(mails) \in Nat
      /\ user.state # "registered" => user.secret = 0
    BY DEF Standing, Shaped, TypeOK
<1>1. ASSUME NEW password \in FirstPasswords, RegisterRead(r, password) PROVE Goal
    <2> DEFINE request == [Idle EXCEPT !.pc = "register", !.password = password,
                                       !.found = user.state = "invited"]
    <2>1. Begin(r, "register", request)
        BY <1>1 DEF RegisterRead
    <2>2. request \in Request
        BY RequestTypes DEF Idle, Request, Code, User
    <2>3. /\ request.pc # "idle" /\ Real(request.code)
          /\ Founded(request) /\ Faithful(request)
          /\ request.pc = "session" => request.code = NoCode
        BY RequestTypes, <1>1 DEF RegisterRead, Idle, Real, Founded, Faithful
    <2>4. Kept(request)
        BY <1>0, RequestTypes, <1>1 DEF RegisterRead, Idle, Kept
    <2> HIDE DEF request
    <2> QED BY <2>1, <2>2, <2>3, <2>4 DEF Grounded
<1>2. ASSUME NEW code \in Codes, ConfirmRead(r, code) PROVE Goal
    <2> DEFINE request == [Idle EXCEPT !.pc = "confirm", !.code = code]
    <2>1. Begin(r, "enroll", request)
        BY <1>2 DEF ConfirmRead
    <2>2. request \in Request
        BY <1>0, RequestTypes, CodesAreReal DEF Idle, Request, Code, User
    <2>3. /\ request.pc # "idle" /\ Real(request.code)
          /\ Founded(request) /\ Faithful(request)
          /\ request.pc = "session" => request.code = NoCode
        BY <1>0, RequestTypes, CodesAreReal, <1>2 DEF ConfirmRead, Idle, Real, Founded, Faithful, Verifies, NoCode
    <2>4. Kept(request)
        BY <1>0, RequestTypes, CodesAreReal, <1>2 DEF ConfirmRead, Idle, Kept, Begin, Settled
    <2> HIDE DEF request
    <2> QED BY <2>1, <2>2, <2>3, <2>4 DEF Grounded
<1>3. ASSUME NEW code \in Codes, DisableRead(r, code) PROVE Goal
    <2> DEFINE request == [Idle EXCEPT !.pc = "disable", !.code = code]
    <2>1. Begin(r, "disable", request)
        BY <1>3 DEF DisableRead
    <2>2. request \in Request
        BY <1>0, RequestTypes, CodesAreReal DEF Idle, Request, Code, User
    <2>3. /\ request.pc # "idle" /\ Real(request.code)
          /\ Founded(request) /\ Faithful(request)
          /\ request.pc = "session" => request.code = NoCode
        BY <1>0, RequestTypes, CodesAreReal, <1>3 DEF DisableRead, Idle, Real, Founded, Faithful, Verifies, NoCode
    <2>4. Kept(request)
        BY <1>0, RequestTypes, CodesAreReal, <1>3 DEF DisableRead, Idle, Kept, Begin, Settled
    <2> HIDE DEF request
    <2> QED BY <2>1, <2>2, <2>3, <2>4 DEF Grounded
<1>4. ASSUME NEW code \in Codes \cup {NoCode}, LoginRead(r, code), user.secret = 0 PROVE Goal
    <2> DEFINE request == [Idle EXCEPT !.pc = "session", !.password = user.password]
    <2>1. Begin(r, "login", request)
        BY <1>4 DEF LoginRead
    <2>2. request \in Request
        BY <1>0, RequestTypes DEF Idle, Request, Code, User
    <2>3. /\ request.pc # "idle" /\ Real(request.code)
          /\ Founded(request) /\ Faithful(request)
          /\ request.pc = "session" => request.code = NoCode
        BY <1>0, RequestTypes, <1>4 DEF LoginRead, Idle, Real, Founded, Faithful, Verifies, NoCode
    <2>4. Kept(request)
        BY <1>0, RequestTypes, <1>4 DEF LoginRead, Idle, Kept, Verifies, NoCode
    <2> HIDE DEF request
    <2> QED BY <2>1, <2>2, <2>3, <2>4 DEF Grounded
<1>5. ASSUME NEW code \in Codes, LoginRead(r, code), user.secret # 0 PROVE Goal
    <2> DEFINE request == [Idle EXCEPT !.pc = "code", !.password = user.password, !.code = code]
    <2>1. Begin(r, "login", request)
        BY <1>5 DEF LoginRead
    <2>2. request \in Request
        BY <1>0, RequestTypes, CodesAreReal DEF Idle, Request, Code, User
    <2>3. /\ request.pc # "idle" /\ Real(request.code)
          /\ Founded(request) /\ Faithful(request)
          /\ request.pc = "session" => request.code = NoCode
        BY <1>0, RequestTypes, CodesAreReal, <1>5 DEF LoginRead, Idle, Real, Founded, Faithful, Verifies, NoCode
    <2>4. Kept(request)
        BY <1>0, RequestTypes, CodesAreReal, <1>5 DEF LoginRead, Idle, Kept, Verifies, NoCode
    <2> HIDE DEF request
    <2> QED BY <2>1, <2>2, <2>3, <2>4 DEF Grounded
<1>6. ASSUME LoginRead(r, NoCode) PROVE user.secret = 0
    BY <1>6 DEF LoginRead, Verifies, NoCode
<1>7. ASSUME NEW k \in DOMAIN resets, ResetRead(r, k) PROVE Goal
    <2> DEFINE request == [Idle EXCEPT !.pc = "reset", !.link = k]
    <2>1. Begin(r, "reset", request)
        BY <1>7 DEF ResetRead
    <2>2. request \in Request
        BY <1>0, RequestTypes DEF Idle, Request, Code, User
    <2>3. /\ request.pc # "idle" /\ Real(request.code)
          /\ Founded(request) /\ Faithful(request)
          /\ request.pc = "session" => request.code = NoCode
        BY <1>0, RequestTypes, <1>7 DEF ResetRead, Idle, Real, Founded, Faithful, Open
    <2>4. Kept(request)
        BY <1>0, RequestTypes, <1>7 DEF ResetRead, Idle, Kept
    <2> HIDE DEF request
    <2> QED BY <2>1, <2>2, <2>3, <2>4 DEF Grounded
<1>8. ASSUME NEW k \in DOMAIN mails, NEW pc \in {"spend", "verify"},
             Begin(r, "verify", [Idle EXCEPT !.pc = pc, !.link = k]) PROVE Goal
    <2> DEFINE request == [Idle EXCEPT !.pc = pc, !.link = k]
    <2>1. Begin(r, "verify", request)
        BY <1>8 DEF VerifyRead
    <2>2. request \in Request
        BY <1>0, RequestTypes DEF Idle, Request, Code, User
    <2>3. /\ request.pc # "idle" /\ Real(request.code)
          /\ Founded(request) /\ Faithful(request)
          /\ request.pc = "session" => request.code = NoCode
        BY <1>0, RequestTypes, <1>8 DEF VerifyRead, Idle, Real, Founded, Faithful
    <2>4. Kept(request)
        BY <1>0, RequestTypes, <1>8 DEF VerifyRead, Idle, Kept
    <2> HIDE DEF request
    <2> QED BY <2>1, <2>2, <2>3, <2>4 DEF Grounded
<1>9. ASSUME EnrollRead(r) PROVE Goal
    <2> DEFINE request == [Idle EXCEPT !.pc = "enroll"]
    <2>1. Begin(r, "enroll", request)
        BY <1>9 DEF EnrollRead
    <2>2. request \in Request
        BY <1>0, RequestTypes DEF Idle, Request, Code, User
    <2>3. /\ request.pc # "idle" /\ Real(request.code)
          /\ Founded(request) /\ Faithful(request)
          /\ request.pc = "session" => request.code = NoCode
        BY <1>0, RequestTypes, <1>9 DEF EnrollRead, Idle, Real, Founded, Faithful
    <2>4. Kept(request)
        BY <1>0, RequestTypes, <1>9 DEF EnrollRead, Idle, Kept, Begin, Settled
    <2> HIDE DEF request
    <2> QED BY <2>1, <2>2, <2>3, <2>4 DEF Grounded
<1>10. ASSUME AskReset(r) PROVE Goal
    <2> DEFINE request == [Idle EXCEPT !.pc = "ask", !.link = Len(resets)]
    <2>1. Begin(r, "reset", request)
        BY <1>10 DEF AskReset
    <2>2. request \in Request
        BY <1>0, RequestTypes DEF Idle, Request, Code, User
    <2>3. /\ request.pc # "idle" /\ Real(request.code)
          /\ Founded(request) /\ Faithful(request)
          /\ request.pc = "session" => request.code = NoCode
        BY <1>0, RequestTypes, <1>10 DEF AskReset, Idle, Real, Founded, Faithful
    <2>4. Kept(request)
        BY <1>0, RequestTypes, <1>10 DEF AskReset, Idle, Kept
    <2> HIDE DEF request
    <2> QED BY <2>1, <2>2, <2>3, <2>4 DEF Grounded
<1>11. ASSUME AskMail(r) PROVE Goal
    <2> DEFINE request == [Idle EXCEPT !.pc = "mail", !.link = Len(mails)]
    <2>1. Begin(r, "verify", request)
        BY <1>11 DEF AskMail
    <2>2. request \in Request
        BY <1>0, RequestTypes DEF Idle, Request, Code, User
    <2>3. /\ request.pc # "idle" /\ Real(request.code)
          /\ Founded(request) /\ Faithful(request)
          /\ request.pc = "session" => request.code = NoCode
        BY <1>0, RequestTypes, <1>11 DEF AskMail, Idle, Real, Founded, Faithful
    <2>4. Kept(request)
        BY <1>0, RequestTypes, <1>11 DEF AskMail, Idle, Kept
    <2> HIDE DEF request
    <2> QED BY <2>1, <2>2, <2>3, <2>4 DEF Grounded
<1>12. ASSUME NEW k \in DOMAIN mails, VerifyRead(r, k) PROVE Goal
    BY <1>8, <1>12 DEF VerifyRead
<1> QED BY <1>1, <1>2, <1>3, <1>4, <1>5, <1>6, <1>7, <1>9, <1>10, <1>11, <1>12 DEF Reads

LEMMA StandingReads ==
    ASSUME Standing, NEW r \in Reqs, Reads(r)
    PROVE  Standing'
BY ReadsBegin, BeginStands DEF Grounded

LEMMA StandingWrites ==
    ASSUME Standing, NEW r \in Reqs, Writes(r)
    PROVE  Standing'
<1> DEFINE onward == [reqs[r] EXCEPT !.pc = "session"]
<1>0. /\ Founded(reqs[r]) /\ Real(reqs[r].code)
      /\ user \in User /\ reqs[r] \in Request /\ reqs[r].code \in Code /\ reqs[r].link \in Nat
      /\ reqs[r].password \in Int
      /\ issued \in Nat /\ opened \in Nat /\ resets \in Seq(Link) /\ mails \in Seq(Link)
      /\ user.secret <= issued /\ user.pending <= issued
      /\ user.state # "registered" => user.secret = 0 /\ sessions = {}
    BY DEF Standing, Shaped, TypeOK, Request
<1>i. /\ Idle \in Request /\ Real(Idle.code) /\ Idle.pc = "idle"
      /\ End(r) => Becomes(r, Idle)
    BY RequestTypes DEF Idle, Real, End, Becomes
<1>g. /\ onward \in Request /\ onward.code = reqs[r].code /\ onward.pc = "session"
      /\ Go(r, "session") => Becomes(r, onward)
    BY <1>0 DEF Request, Go, Becomes
<1>e. ASSUME NEW links \in Seq(Link), NEW K
      PROVE  /\ Append(Spent(links, K), Fresh) \in Seq(Link)
             /\ DOMAIN links \subseteq DOMAIN Append(Spent(links, K), Fresh)
             /\ Spent(links, K) \in Seq(Link) /\ DOMAIN Spent(links, K) = DOMAIN links
    <2>1. Spent(links, K) \in Seq(Link) /\ Len(Spent(links, K)) = Len(links) /\ Fresh \in Link
        BY SpentLinks DEF Fresh, Link
    <2> QED BY <2>1, SpentLinks
<1> HIDE DEF onward
<1>1. ASSUME RegisterWrite(r) PROVE Standing'
    <2>1. /\ user' \in User /\ user'.secret = user.secret /\ user'.pending = user.pending
          /\ user' = user \/ user'.state = "registered"
        BY <1>0, <1>1 DEF RegisterWrite, User
    <2>2. CASE End(r)
        BY <1>0, <1>1, <1>i, <2>1, <2>2, WriteStands DEF RegisterWrite
    <2>3. CASE Go(r, "session") /\ user'.state = "registered"
        BY <1>0, <1>1, <1>g, <2>1, <2>3, WriteStands DEF RegisterWrite
    <2> QED BY <1>0, <1>1, <2>2, <2>3 DEF RegisterWrite, User
<1>2. ASSUME LoginCode(r) PROVE Standing'
    <2>1. /\ user' \in User /\ user'.secret = user.secret /\ user'.pending = user.pending
          /\ user'.state = user.state
        BY <1>0, <1>2 DEF LoginCode, User, Code
    <2>2. CASE End(r)
        BY <1>0, <1>2, <1>i, <2>1, <2>2, WriteStands DEF LoginCode
    <2>3. CASE Go(r, "session")
        <3>2. user.state = "registered"
            BY <1>0, <1>2 DEF LoginCode, Founded
        <3> QED BY <1>0, <1>2, <1>g, <2>1, <2>3, <3>2, WriteStands DEF LoginCode
    <2> QED BY <1>2, <2>2, <2>3 DEF LoginCode
<1>3. ASSUME OpenSession(r) PROVE Standing'
    <2>1. [number |-> opened + 1, password |-> reqs[r].password, code |-> reqs[r].code] \in Session
        BY <1>0 DEF Session
    <2>2. user.state = "registered"
        BY <1>0, <1>3 DEF OpenSession, Founded
    <2> QED BY <1>0, <1>3, <1>i, <2>1, <2>2, WriteStands DEF OpenSession
<1>4. ASSUME EnrollWrite(r) PROVE Standing'
    <2>1. /\ user' \in User /\ user'.secret = user.secret /\ user'.pending = issued + 1
          /\ user'.state = user.state /\ user.secret \in Nat
        <3>1. issued + 1 \in Nat /\ user.secret \in Nat
            BY <1>0 DEF User
        <3> QED BY <1>0, <1>4, <3>1 DEF EnrollWrite, User
    <2>2. /\ issued' \in Nat /\ issued <= issued' /\ user'.secret <= issued' /\ user'.pending <= issued'
        BY <1>0, <1>4, <2>1 DEF EnrollWrite
    <2> QED BY SMTT(30), <1>0, <1>4, <1>i, <2>1, <2>2, WriteStands DEF EnrollWrite
<1>5. ASSUME ConfirmWrite(r) PROVE Standing'
    <2>1. /\ reqs[r].code.secret \in Nat /\ reqs[r].code.secret <= issued
          /\ reqs[r].code.counter \in Nat \cup {NoCounter} /\ user.state = "registered"
        BY <1>0, <1>5 DEF ConfirmWrite, Founded, Real, Code
    <2>2. /\ user' \in User /\ user'.secret = reqs[r].code.secret /\ user'.pending = 0
          /\ user'.state = user.state
        BY <1>0, <1>5, <2>1 DEF ConfirmWrite, User
    <2> QED BY <1>0, <1>5, <1>i, <2>1, <2>2, WriteStands DEF ConfirmWrite
<1>6. ASSUME DisableWrite(r) PROVE Standing'
    <2>1. user' \in User /\ user'.secret = 0 /\ user'.pending = 0 /\ user'.state = user.state
        BY <1>0, <1>6 DEF DisableWrite, User
    <2> QED BY <1>0, <1>6, <1>i, <2>1, WriteStands DEF DisableWrite
<1>7. ASSUME MailReset(r) PROVE Standing'
    BY <1>0, <1>7, <1>i, <1>e, WriteStands DEF MailReset
<1>8. ASSUME ResetWrite(r) PROVE Standing'
    <2>1. /\ user' \in User /\ user'.secret = user.secret /\ user'.pending = user.pending
          /\ user'.state = user.state
        <3>1. reqs[r].link \in Int
            BY <1>0
        <3> QED BY <1>0, <1>8, <3>1 DEF ResetWrite, User
    <2> QED BY <1>0, <1>8, <1>i, <1>e, <2>1, WriteStands DEF ResetWrite
<1>9. ASSUME MailLink(r) PROVE Standing'
    BY <1>0, <1>9, <1>i, <1>e, WriteStands DEF MailLink
<1>10. ASSUME VerifyWrite(r) PROVE Standing'
    <2>1. /\ user' \in User /\ user'.secret = user.secret /\ user'.pending = user.pending
          /\ user'.state = user.state
        BY <1>0, <1>10 DEF VerifyWrite, User
    <2> QED BY SMTT(30), <1>0, <1>10, <1>i, <1>e, <2>1, WriteStands DEF VerifyWrite
<1>11. ASSUME Abandon(r) PROVE Standing'
    BY <1>0, <1>11, <1>i, WriteStands DEF Abandon
<1> QED BY <1>1, <1>2, <1>3, <1>4, <1>5, <1>6, <1>7, <1>8, <1>9, <1>10, <1>11 DEF Writes

(* Nobody's request moves. *)
Around ==
    \/ \E s \in sessions : EndSession(s)
    \/ \E k \in DOMAIN resets : ResetExpires(k)
    \/ \E k \in DOMAIN mails : MailExpires(k)
    \/ Tick

LEMMA ExpiredLinks ==
    ASSUME NEW links \in Seq(Link), NEW k \in DOMAIN links
    PROVE  /\ [links EXCEPT ![k].fresh = FALSE] \in Seq(Link)
           /\ Len([links EXCEPT ![k].fresh = FALSE]) = Len(links)
           /\ Open([links EXCEPT ![k].fresh = FALSE]) = Open(links)
<1> DEFINE expired == [links[k] EXCEPT !.fresh = FALSE]
           after == [links EXCEPT ![k] = expired]
<1>1. links[k] \in Link
    OBVIOUS
<1>2. expired \in Link /\ expired.used = links[k].used
    BY <1>1 DEF Link
<1> HIDE DEF expired
<1>3. after \in Seq(Link) /\ Len(after) = Len(links) /\ DOMAIN after = DOMAIN links
    BY <1>2
<1>4. \A j \in DOMAIN links : after[j].used = links[j].used
    BY <1>2
<1>5. Open(after) = Open(links)
    BY <1>3, <1>4 DEF Open
<1> QED BY <1>3, <1>5 DEF expired

LEMMA AroundStands ==
    ASSUME Standing, Around \/ UNCHANGED vars
    PROVE  Standing'
<1>0. /\ Shaped /\ resets \in Seq(Link) /\ mails \in Seq(Link)
      /\ \A r \in Reqs : Founded(reqs[r])
    BY DEF Standing, Shaped, TypeOK
<1>1. ASSUME NEW s \in sessions, EndSession(s) PROVE Standing'
    BY <1>0, <1>1 DEF EndSession, Standing, Shaped, TypeOK, Real, Founded
<1>2. ASSUME NEW k \in DOMAIN resets, ResetExpires(k) PROVE Standing'
    <2>1. resets' \in Seq(Link) /\ DOMAIN resets' = DOMAIN resets
        BY <1>0, <1>2, ExpiredLinks DEF ResetExpires
    <2> QED BY <1>0, <1>2, <2>1 DEF ResetExpires, Standing, Shaped, TypeOK, Real, Founded
<1>3. ASSUME NEW k \in DOMAIN mails, MailExpires(k) PROVE Standing'
    <2>1. mails' \in Seq(Link)
        BY <1>0, <1>3, ExpiredLinks DEF MailExpires
    <2> QED BY <1>0, <1>3, <2>1 DEF MailExpires, Standing, Shaped, TypeOK, Real, Founded
<1>4. CASE Tick
    BY <1>0, <1>4 DEF Tick, Standing, Shaped, TypeOK, Real, Founded
<1>5. CASE UNCHANGED vars
    BY <1>0, <1>5 DEF vars, Standing, Shaped, TypeOK, Real, Founded
<1> QED BY <1>1, <1>2, <1>3, <1>4, <1>5 DEF Around

LEMMA InitStands == Init => Standing
<1> SUFFICES ASSUME Init PROVE Standing
    OBVIOUS
<1>1. /\ user \in User /\ user.secret <= issued /\ user.pending <= issued
      /\ user.state # "registered" => user.secret = 0
      /\ issued \in Nat
    <2>1. Blank \in User /\ Blank.secret = 0 /\ Blank.pending = 0
        BY DEF Blank, User
    <2> HIDE DEF Blank
    <2>2. CASE /\ setting.start \in {"absent", "invited", "registered"} /\ issued = 0
               /\ user = [Blank EXCEPT !.state = setting.start]
        BY <2>1, <2>2 DEF User
    <2>3. CASE user = [Blank EXCEPT !.state = "registered", !.secret = 1, !.last = 0] /\ issued = 1
        <3>1. user = [state |-> "registered", password |-> 0, verified |-> FALSE, secret |-> 1, pending |-> 0,
                      last |-> 0]
            BY <2>3 DEF Blank
        <3>2. user \in User
            BY <3>1 DEF User, NoCounter
        <3>3. user.secret = 1 /\ user.pending = 0 /\ user.state = "registered"
            BY <3>1
        <3> QED BY <2>3, <3>2, <3>3
    <2> QED BY <2>2, <2>3 DEF Init
<1>2. /\ reqs \in [Reqs -> Request] /\ \A r \in Reqs : reqs[r] = Idle
      /\ Real(Idle.code) /\ Idle.pc = "idle"
    BY RequestTypes DEF Init, Real, Idle
<1> QED BY <1>1, <1>2 DEF Init, Standing, Shaped, TypeOK, Founded

LEMMA Steps == Next => (\E r \in Reqs : Reads(r) \/ Writes(r)) \/ Around
BY DEF Next, Reads, Writes, Around

-----------------------------------------------------------------------------
(* One request at a time *)

NoOther(r) == \A q \in Reqs \ {r} : reqs[q].pc = "idle"

LEMMA OneBusy ==
    ASSUME NEW B, IsFiniteSet(B), Cardinality(B) <= 1, NEW r \in B, NEW q \in B
    PROVE  r = q
<1> SUFFICES ASSUME r # q PROVE FALSE
    OBVIOUS
<1>1. IsFiniteSet({r, q}) /\ Cardinality({r, q}) = 2
    <2>1. IsFiniteSet({r}) /\ Cardinality({r}) = 1
        BY FS_Singleton
    <2>2. {r, q} = {r} \cup {q} /\ q \notin {r}
        OBVIOUS
    <2>3. IsFiniteSet({r} \cup {q}) /\ Cardinality({r} \cup {q}) = Cardinality({r}) + 1
        BY <2>1, <2>2, FS_AddElement
    <2> QED BY <2>1, <2>2, <2>3
<1>2. {r, q} \subseteq B
    OBVIOUS
<1> QED BY <1>1, <1>2, FS_Subset, FS_CardinalityType

LEMMA NextSingle ==
    ASSUME Next, OneAtATime
    PROVE  Single'
<1>1. IsFiniteSet(Busy') /\ Cardinality(Busy') <= 1
    BY AccountsAssumption, FS_Subset DEF Next, OneAtATime, Busy
<1> QED BY <1>1, OneBusy DEF Single, Busy

LEMMA BecomesFaithful ==
    ASSUME Standing, NEW r \in Reqs, NEW request \in Request, Becomes(r, request), NoOther(r),
           Faithful(request)'
    PROVE  (\A q \in Reqs : Faithful(reqs[q]))'
BY DEF Standing, Shaped, TypeOK, Becomes, NoOther, Faithful

LEMMA ReadAlone ==
    ASSUME Standing, Alone, OneAtATime, Single', NEW r \in Reqs, Reads(r)
    PROVE  Alone'
<1>1. PICK act, request : Begin(r, act, request) /\ Grounded(request)
    BY ReadsBegin
<1>2. reqs' = [reqs EXCEPT ![r] = request] /\ reqs \in [Reqs -> Request]
    BY <1>1 DEF Begin, Standing, Shaped, TypeOK
<1>3. \A q \in Reqs : reqs'[q] = IF q = r THEN request ELSE reqs[q]
    BY <1>2
<1>4. (\A q \in Reqs : Faithful(reqs[q]))'
    BY <1>1, <1>3 DEF Begin, Grounded, Faithful, Alone
<1>5. Orderly'
    BY <1>1 DEF Begin, Orderly, Alone, Open
<1> QED BY <1>4, <1>5 DEF Alone

LEMMA WriteAlone ==
    ASSUME Standing, Alone, OneAtATime, Single', NEW r \in Reqs, Writes(r)
    PROVE  Alone'
<1>0. /\ Orderly /\ Faithful(reqs[r]) /\ Founded(reqs[r]) /\ Real(reqs[r].code)
      /\ user \in User /\ reqs[r] \in Request /\ reqs[r].code \in Code /\ reqs[r].link \in Nat
      /\ reqs \in [Reqs -> Request] /\ reqs[r].password \in Int
      /\ issued \in Nat /\ resets \in Seq(Link) /\ mails \in Seq(Link)
      /\ Len(resets) \in Nat /\ Len(mails) \in Nat
      /\ user.state # "registered" => user.secret = 0 /\ sessions = {}
      /\ \A s \in sessions : Real(s.code)
    BY DEF Standing, Shaped, TypeOK, Request, Alone
<1>1. NoOther(r)
    BY DEF Alone, Single, NoOther, Writes, RegisterWrite, LoginCode, OpenSession, EnrollWrite,
       ConfirmWrite, DisableWrite, MailReset, ResetWrite, MailLink, VerifyWrite, Abandon
<1>2. ASSUME End(r), Orderly' PROVE Alone'
    <2>1. \A q \in Reqs : reqs'[q].pc = "idle"
        BY <1>0, <1>1, <1>2 DEF End, NoOther, Idle
    <2> QED BY <1>2, <2>1 DEF Alone, Faithful
<1>3. ASSUME Go(r, "session"), Orderly', reqs[r].password = user'.password,
             reqs[r].code.secret = user'.secret
      PROVE  Alone'
    <2>1. /\ \A q \in Reqs \ {r} : reqs'[q].pc = "idle"
          /\ reqs'[r].pc = "session" /\ reqs'[r].password = reqs[r].password
          /\ reqs'[r].code = reqs[r].code
        BY <1>0, <1>1, <1>3 DEF Go, NoOther, Request
    <2> QED BY <1>3, <2>1 DEF Alone, Faithful
<1>4. ASSUME NEW links \in Seq(Link), Open(links) \subseteq {Len(links)}
      PROVE  /\ Open(Append(Spent(links, 1..Len(links)), Fresh)) = {Len(links) + 1}
             /\ Len(Append(Spent(links, 1..Len(links)), Fresh)) = Len(links) + 1
             /\ \A K : Len(Spent(links, K)) = Len(links) /\ Open(Spent(links, K)) = Open(links) \ K
    <2> DEFINE spent == Spent(links, 1..Len(links))
    <2>1. spent \in Seq(Link) /\ Len(spent) = Len(links) /\ Open(spent) = {} /\ Len(links) \in Nat
        BY SpentLinks DEF Open
    <2>2. Fresh \in Link /\ ~Fresh.used
        BY DEF Fresh, Link
    <2> HIDE DEF spent
    <2>3. /\ Len(Append(spent, Fresh)) = Len(links) + 1
          /\ DOMAIN Append(spent, Fresh) = 1..(Len(links) + 1)
          /\ Append(spent, Fresh)[Len(links) + 1] = Fresh
          /\ \A k \in 1..Len(links) : Append(spent, Fresh)[k] = spent[k]
        BY <2>1, <2>2
    <2>4. \A k \in 1..Len(links) : spent[k].used
        BY <2>1 DEF Open
    <2>5. Open(Append(spent, Fresh)) = {Len(links) + 1}
        BY <2>1, <2>2, <2>3, <2>4 DEF Open
    <2> QED BY <2>3, <2>5, SpentLinks DEF spent
<1>5. ASSUME RegisterWrite(r) PROVE Alone'
    <2>1. CASE End(r) /\ UNCHANGED user
        <3>1. Orderly'
            BY <1>0, <1>5, <2>1 DEF RegisterWrite, Orderly, Open
        <3> QED BY <1>2, <2>1, <3>1
    <2>2. CASE /\ user' = [user EXCEPT !.state = "registered", !.password = reqs[r].password]
               /\ Go(r, "session")
        <3>1. /\ user'.password = reqs[r].password /\ user'.secret = user.secret
              /\ user'.pending = user.pending /\ user.secret = 0 /\ sessions = {}
              /\ reqs[r].code = NoCode /\ reqs[r].password <= 0
            BY <1>0, <1>5, <2>2 DEF User, RegisterWrite, Faithful, Founded
        <3>2. DOMAIN resets \subseteq Nat \ {0}
            BY <1>0
        <3>3. Orderly'
            BY <1>0, <1>5, <3>1, <3>2 DEF RegisterWrite, Orderly, Open
        <3> QED BY <1>0, <1>3, <2>2, <3>1, <3>3 DEF NoCode
    <2> QED BY <1>5, <2>1, <2>2 DEF RegisterWrite
<1>6. ASSUME LoginCode(r) PROVE Alone'
    <2>1. /\ user'.password = user.password /\ user'.secret = user.secret
          /\ user'.pending = user.pending
        BY <1>0, <1>6 DEF LoginCode, User
    <2>2. Orderly'
        BY <1>0, <1>6, <2>1 DEF LoginCode, Orderly, Open
    <2>3. reqs[r].password = user'.password /\ reqs[r].code.secret = user'.secret
        BY <1>0, <1>6, <2>1 DEF LoginCode, Faithful
    <2> QED BY <1>2, <1>3, <1>6, <2>2, <2>3 DEF LoginCode
<1>7. ASSUME OpenSession(r) PROVE Alone'
    <2>1. reqs[r].password = user.password /\ reqs[r].code.secret = user.secret
        BY <1>0, <1>7 DEF OpenSession, Faithful
    <2>2. reqs[r].code = NoCode \/ reqs[r].code.secret # user.pending
        BY <1>0, <2>1 DEF Real, Orderly
    <2>3. Orderly'
        BY <1>0, <1>7, <2>1, <2>2 DEF OpenSession, Orderly, Open
    <2> QED BY <1>2, <1>7, <2>3 DEF OpenSession
<1>8. ASSUME EnrollWrite(r) PROVE Alone'
    <2>1. /\ user'.password = user.password /\ user'.secret = user.secret
          /\ user'.pending = issued + 1 /\ user.secret = 0
        BY <1>0, <1>8 DEF EnrollWrite, User, Faithful
    <2>2. \A s \in sessions : s.code = NoCode \/ s.code.secret # issued + 1
        BY <1>0 DEF Real
    <2>3. Orderly'
        BY <1>0, <1>8, <2>1, <2>2 DEF EnrollWrite, Orderly, Open
    <2> QED BY <1>2, <1>8, <2>3 DEF EnrollWrite
<1>9. ASSUME ConfirmWrite(r) \/ DisableWrite(r) PROVE Alone'
    <2>1. user'.password = user.password /\ user'.pending = 0
        BY <1>0, <1>9 DEF ConfirmWrite, DisableWrite, User
    <2>2. \A s \in sessions : s.code = NoCode \/ s.code.secret # 0
        BY <1>0 DEF Real
    <2>3. Orderly'
        BY <1>0, <1>9, <2>1, <2>2 DEF ConfirmWrite, DisableWrite, Orderly, Open
    <2> QED BY <1>2, <1>9, <2>3 DEF ConfirmWrite, DisableWrite
<1>10. ASSUME MailReset(r) PROVE Alone'
    <2>1. Open(resets') = {Len(resets) + 1} /\ Len(resets') = Len(resets) + 1
        BY <1>0, <1>4, <1>10 DEF MailReset, Faithful, Orderly
    <2>2. user.password <= Len(resets) /\ user.password \in Int
        BY <1>0 DEF Orderly, User
    <2>3. Orderly'
        BY <1>0, <1>10, <2>1, <2>2 DEF MailReset, Orderly, Open
    <2> QED BY <1>2, <1>10, <2>3 DEF MailReset
<1>11. ASSUME MailLink(r) PROVE Alone'
    <2>1. Open(mails') = {Len(mails) + 1} /\ Len(mails') = Len(mails) + 1
        BY <1>0, <1>4, <1>11 DEF MailLink, Faithful, Orderly
    <2>2. Orderly'
        BY <1>0, <1>11, <2>1 DEF MailLink, Orderly, Open
    <2> QED BY <1>2, <1>11, <2>2 DEF MailLink
<1>12. ASSUME ResetWrite(r) PROVE Alone'
    <2>1. Open(resets') = {} /\ Len(resets') = Len(resets)
        BY <1>0, <1>4, <1>12 DEF ResetWrite, Orderly
    <2>2. /\ user'.password = reqs[r].link /\ user'.secret = user.secret /\ user'.pending = user.pending
          /\ reqs[r].link = Len(resets)
        BY <1>0, <1>12 DEF ResetWrite, User, Faithful, Orderly
    <2>3. Orderly'
        BY <1>0, <1>12, <2>1, <2>2 DEF ResetWrite, Orderly, Open
    <2> QED BY <1>2, <1>12, <2>3 DEF ResetWrite
<1>13. ASSUME VerifyWrite(r) PROVE Alone'
    <2>1. Open(mails') \subseteq Open(mails) /\ Len(mails') = Len(mails)
        BY <1>0, <1>4, <1>13 DEF VerifyWrite, Orderly
    <2>2. /\ user'.password = user.password /\ user'.secret = user.secret
          /\ user'.pending = user.pending
        BY <1>0, <1>13 DEF VerifyWrite, User
    <2>3. Orderly'
        BY <1>0, <1>13, <2>1, <2>2 DEF VerifyWrite, Orderly
    <2> QED BY <1>2, <1>13, <2>3 DEF VerifyWrite
<1>14. ASSUME Abandon(r) PROVE Alone'
    <2>1. Orderly'
        BY <1>0, <1>14 DEF Abandon, Orderly, Open
    <2> QED BY <1>2, <1>14, <2>1 DEF Abandon
<1> QED BY <1>5, <1>6, <1>7, <1>8, <1>9, <1>10, <1>11, <1>12, <1>13, <1>14 DEF Writes

LEMMA AroundAlone ==
    ASSUME Standing, Alone, OneAtATime, Around \/ UNCHANGED vars
    PROVE  Alone'
<1>0. resets \in Seq(Link) /\ mails \in Seq(Link)
    BY DEF Standing, Shaped, TypeOK
<1> USE DEF Alone, Single, Orderly, Faithful
<1>1. ASSUME NEW s \in sessions, EndSession(s) PROVE Alone'
    BY <1>1 DEF EndSession, Open
<1>2. ASSUME NEW k \in DOMAIN resets, ResetExpires(k) PROVE Alone'
    <2>1. Open(resets') = Open(resets) /\ Len(resets') = Len(resets)
        BY <1>0, <1>2, ExpiredLinks DEF ResetExpires
    <2>2. Open(mails') = Open(mails)
        BY <1>2 DEF ResetExpires, Open
    <2> QED BY <1>2, <2>1, <2>2 DEF ResetExpires
<1>3. ASSUME NEW k \in DOMAIN mails, MailExpires(k) PROVE Alone'
    <2>1. Open(mails') = Open(mails) /\ Len(mails') = Len(mails)
        BY <1>0, <1>3, ExpiredLinks DEF MailExpires
    <2>2. Open(resets') = Open(resets)
        BY <1>3 DEF MailExpires, Open
    <2> QED BY <1>3, <2>1, <2>2 DEF MailExpires
<1>4. CASE Tick
    BY <1>4 DEF Tick, Open
<1>5. CASE UNCHANGED vars
    BY <1>5 DEF vars, Open
<1> QED BY <1>1, <1>2, <1>3, <1>4, <1>5 DEF Around

LEMMA SettingStays == [Next]_vars => setting' = setting
<1>1. Around => setting' = setting
    BY DEF Around, EndSession, ResetExpires, MailExpires, Tick
<1>2. ASSUME NEW r \in Reqs, Reads(r) PROVE setting' = setting
    BY <1>2 DEF Reads, RegisterRead, ConfirmRead, DisableRead, LoginRead, ResetRead, VerifyRead, EnrollRead, AskReset,
                AskMail, Begin
<1>3. ASSUME NEW r \in Reqs, Writes(r) PROVE setting' = setting
    BY <1>3 DEF Writes, RegisterWrite, LoginCode, OpenSession, EnrollWrite, ConfirmWrite, DisableWrite,
                MailReset, ResetWrite, MailLink, VerifyWrite, Abandon
<1> QED BY <1>1, <1>2, <1>3, Steps DEF vars

LEMMA NextAlone ==
    ASSUME Standing, Alone, [Next]_vars
    PROVE  Alone'
<1> SUFFICES ASSUME OneAtATime' PROVE Alone'
    BY DEF Alone
<1>1. OneAtATime
    BY SettingStays DEF OneAtATime
<1> QED BY <1>1, Steps, NextSingle, ReadAlone, WriteAlone, AroundAlone

LEMMA InitAlone == Init => Alone
<1> SUFFICES ASSUME Init PROVE Alone
    OBVIOUS
<1>1. /\ sessions = {} /\ resets = <<>> /\ mails = <<>>
      /\ \A r \in Reqs : reqs[r].pc = "idle"
    BY DEF Init, Idle
<1>2. user.password = 0 /\ user.pending = 0
    BY DEF Init, Blank
<1>3. Single /\ \A r \in Reqs : Faithful(reqs[r])
    BY <1>1 DEF Single, Faithful
<1>4. Open(resets) = {} /\ Open(mails) = {} /\ Len(resets) = 0
    BY <1>1 DEF Open
<1>5. Orderly
    BY <1>1, <1>2, <1>4 DEF Orderly
<1> QED BY <1>3, <1>5 DEF Alone

-----------------------------------------------------------------------------
(* Codes *)

LEMMA ReadRecorded ==
    ASSUME Standing, Recorded, Settled \/ OneAtATime, NEW r \in Reqs, Reads(r)
    PROVE  Recorded'
<1>1. PICK act, request : Begin(r, act, request) /\ Grounded(request)
    BY ReadsBegin
<1>2. reqs' = [reqs EXCEPT ![r] = request] /\ reqs \in [Reqs -> Request]
    BY <1>1 DEF Begin, Standing, Shaped, TypeOK
<1>3. \A q \in Reqs : reqs'[q] = IF q = r THEN request ELSE reqs[q]
    BY <1>2
<1>4. request.pc = "session" => request.code = NoCode
    BY <1>1 DEF Grounded
<1>5. (\A q \in Reqs : Kept(reqs[q]))'
    BY <1>1, <1>3 DEF Begin, Grounded, Kept, Recorded, Settled
<1> QED BY <1>1, <1>3, <1>4, <1>5 DEF Begin, Recorded

LEMMA WriteRecorded ==
    ASSUME Standing, Alone, Recorded, Settled \/ OneAtATime, NEW r \in Reqs, Writes(r)
    PROVE  Recorded'
<1>0. /\ Kept(reqs[r]) /\ Founded(reqs[r]) /\ Real(reqs[r].code)
      /\ user \in User /\ reqs[r] \in Request /\ reqs[r].code \in Code
      /\ reqs \in [Reqs -> Request]
      /\ issued \in Nat
      /\ user.state # "registered" => user.secret = 0 /\ sessions = {}
      /\ \A s \in sessions : Real(s.code)
      /\ \A q \in Reqs : Real(reqs[q].code) /\ Kept(reqs[q])
    BY DEF Standing, Shaped, TypeOK, Request, Recorded
<1>1. ASSUME End(r), sessions' \subseteq sessions, setting' = setting, user'.secret = user.secret,
             user'.last = user.last
      PROVE  Recorded'
    <2>1. \A q \in Reqs : reqs'[q] = IF q = r THEN Idle ELSE reqs[q]
        BY <1>0, <1>1 DEF End
    <2> QED BY <1>0, <1>1, <2>1 DEF Recorded, Kept, Idle, Settled, OneAtATime
<1>g. ASSUME Go(r, "session"), UNCHANGED <<sessions, setting>>, user'.secret = user.secret,
             user.last <= user'.last, reqs[r].code.secret = user.secret,
             reqs[r].code = NoCode \/ (/\ reqs[r].code.counter <= user'.last
                                       /\ user.last < reqs[r].code.counter),
             user'.last \in Int, reqs[r].pc # "session"
      PROVE  Recorded'
    <2>1. \A q \in Reqs : IF q = r THEN reqs'[q].code = reqs[q].code /\ reqs'[q].pc = "session"
                         ELSE reqs'[q] = reqs[q]
        BY <1>0, <1>g DEF Go, Request
    <2>c. \A code \in Code : code.counter \in Int
        BY DEF Code, NoCounter
    <2>k. /\ \A q \in Reqs : reqs[q].code.counter \in Int
          /\ \A s \in sessions : s.code.counter \in Int
        <3>1. /\ reqs \in [Reqs -> Request]
              /\ \A s \in sessions : s \in Session
            BY <1>0 DEF Standing, Shaped, TypeOK
        <3> QED BY ONLY <3>1, <2>c DEF Request, Session
    <2>u. user.last \in Int
        BY <1>0 DEF Standing, Shaped, TypeOK, User, NoCounter
    <2>2. /\ \A q \in Reqs : reqs[q].code.counter \in Int
          /\ \A s \in sessions : s.code.counter \in Int
          /\ user.last \in Int
        BY ONLY <2>k, <2>u
    <2>3. reqs[r].code # NoCode => \A s \in sessions : s.code # reqs[r].code
        BY <1>0, <1>g, <2>2 DEF Recorded
    <2>4. reqs[r].code # NoCode =>
              \A q \in Reqs : reqs[q].pc = "session" => reqs[q].code # reqs[r].code
        BY <1>0, <1>g, <2>2 DEF Kept
    <2>5. (\A q \in Reqs : Kept(reqs[q]))'
        BY <1>0, <1>g, <2>1, <2>2, <2>3 DEF Kept, Settled
    <2>6. \A s \in sessions' : s.code = NoCode \/ s.code.secret # user'.secret \/ s.code.counter <= user'.last
        BY <1>g, <2>2 DEF Recorded
    <2> QED BY <1>g, <2>1, <2>4, <2>5, <2>6 DEF Recorded
<1>2. ASSUME RegisterWrite(r) PROVE Recorded'
    <2>1. user'.secret = user.secret /\ user'.last = user.last
        BY <1>0, <1>2 DEF RegisterWrite, User
    <2>2. user.last \in Int /\ user.secret = 0 /\ reqs[r].code = NoCode
        BY <1>0, <1>2 DEF RegisterWrite, User, Kept, Founded, NoCounter
    <2> QED BY <1>1, <1>2, <1>g, <2>1, <2>2 DEF RegisterWrite, NoCode
<1>3. ASSUME LoginCode(r) PROVE Recorded'
    <2>1. reqs[r].code.counter \in Nat /\ reqs[r].code.secret = user.secret
        BY <1>0, <1>3 DEF LoginCode, Founded, Real, Kept
    <2>2. user.last \in Int /\ (user.last = NoCounter => user.last < reqs[r].code.counter)
        BY <1>0, <2>1 DEF User, NoCounter
    <2>3. CASE user' = [user EXCEPT !.last = reqs[r].code.counter] /\ Go(r, "session")
               /\ user.last < reqs[r].code.counter
        <3>1. user'.secret = user.secret /\ user'.last = reqs[r].code.counter
            BY <1>0, <2>3 DEF User
        <3> QED BY <1>3, <1>g, <2>1, <2>2, <2>3, <3>1 DEF LoginCode
    <2>4. CASE End(r) /\ UNCHANGED user
        BY <1>1, <1>3, <2>4 DEF LoginCode
    <2> QED BY <1>3, <2>2, <2>3, <2>4 DEF LoginCode
<1>4. ASSUME OpenSession(r) PROVE Recorded'
    <2> DEFINE new == [number |-> opened + 1, password |-> reqs[r].password, code |-> reqs[r].code]
    <2>1. \A q \in Reqs : reqs'[q] = IF q = r THEN Idle ELSE reqs[q]
        BY <1>0, <1>4 DEF OpenSession, End
    <2>2. new.code = reqs[r].code /\ sessions' = sessions \cup {new}
        BY <1>4 DEF OpenSession
    <2> HIDE DEF new
    <2>3. \A q \in Reqs \ {r} : reqs[q].pc = "session" /\ reqs[q].code # NoCode => reqs[q].code # new.code
        BY <1>0, <1>4, <2>2 DEF OpenSession, Recorded
    <2>4. new.code # NoCode => \A s \in sessions : s.code # new.code
        BY <1>0, <1>4, <2>2 DEF OpenSession, Kept
    <2>5. new.code = NoCode \/ new.code.secret # user.secret \/ new.code.counter <= user.last
        BY <1>0, <1>4, <2>2 DEF OpenSession, Kept
    <2>6. (\A q \in Reqs : Kept(reqs[q]))'
        BY <1>0, <1>4, <2>1, <2>2, <2>3 DEF OpenSession, Kept, Idle, Settled
    <2>7. \A s, t \in sessions' : s.code = t.code /\ s.code # NoCode => s = t
        BY <2>2, <2>4 DEF Recorded
    <2>8. \A q, p \in Reqs : reqs'[q].pc = "session" /\ reqs'[p].pc = "session" /\ reqs'[q].code # NoCode
                           => q = p \/ reqs'[q].code # reqs'[p].code
        BY <2>1 DEF Recorded, Idle
    <2> QED BY <1>4, <2>2, <2>5, <2>6, <2>7, <2>8 DEF Recorded, OpenSession
<1>5. ASSUME ConfirmWrite(r) PROVE Recorded'
    <2>1. OneAtATime /\ NoOther(r)
        BY <1>0, <1>5 DEF ConfirmWrite, Kept, Alone, Single, NoOther
    <2>2. \A q \in Reqs : reqs'[q].pc = "idle"
        BY <1>0, <1>5, <2>1 DEF ConfirmWrite, End, NoOther, Idle
    <2>3. user'.secret = user.pending
        BY <1>0, <1>5, <2>1 DEF ConfirmWrite, Alone, Faithful, User
    <2>4. \A s \in sessions : s.code = NoCode \/ s.code.secret # user'.secret
        BY <2>1, <2>3 DEF Alone, Orderly
    <2> QED BY <1>5, <2>2, <2>4 DEF ConfirmWrite, Recorded, Kept
<1>6. ASSUME DisableWrite(r) PROVE Recorded'
    <2>1. OneAtATime /\ NoOther(r)
        BY <1>0, <1>6 DEF DisableWrite, Kept, Alone, Single, NoOther
    <2>2. \A q \in Reqs : reqs'[q].pc = "idle"
        BY <1>0, <1>6, <2>1 DEF DisableWrite, End, NoOther, Idle
    <2>3. user'.secret = 0
        BY <1>0, <1>6 DEF DisableWrite, User
    <2>4. \A s \in sessions : s.code = NoCode \/ s.code.secret # user'.secret
        BY <1>0, <2>3 DEF Real
    <2> QED BY <1>6, <2>2, <2>4 DEF DisableWrite, Recorded, Kept
<1>7. CASE EnrollWrite(r) \/ MailReset(r) \/ ResetWrite(r) \/ MailLink(r) \/ VerifyWrite(r) \/ Abandon(r)
    <2>1. user'.secret = user.secret /\ user'.last = user.last
        BY <1>0, <1>7 DEF EnrollWrite, MailReset, ResetWrite, MailLink, VerifyWrite, Abandon, User
    <2> QED BY <1>1, <1>7, <2>1 DEF EnrollWrite, MailReset, ResetWrite, MailLink, VerifyWrite, Abandon
<1> QED BY <1>2, <1>3, <1>4, <1>5, <1>6, <1>7 DEF Writes

LEMMA NextRecorded ==
    ASSUME Standing, Alone, Recorded, [Next]_vars
    PROVE  Recorded'
<1> SUFFICES ASSUME Settled' \/ OneAtATime' PROVE Recorded'
    BY DEF Recorded
<1>1. Settled \/ OneAtATime
    BY SettingStays DEF Settled, OneAtATime
<1>2. ASSUME Around \/ UNCHANGED vars PROVE Recorded'
    BY <1>2 DEF Around, EndSession, ResetExpires, MailExpires, Tick, vars, Recorded, Kept, Settled, OneAtATime
<1> QED BY <1>1, <1>2, Steps, ReadRecorded, WriteRecorded

LEMMA InitRecorded == Init => Recorded
BY DEF Init, Idle, Recorded, Kept

-----------------------------------------------------------------------------
(* The theorems *)

Invariant == Standing /\ Alone /\ Recorded

LEMMA InvariantHolds == Spec => []Invariant
<1>1. Init => Invariant
    BY InitStands, InitAlone, InitRecorded DEF Invariant
<1>2. Standing /\ [Next]_vars => Standing'
    BY Steps, StandingReads, StandingWrites, AroundStands
<1>3. Invariant /\ [Next]_vars => Invariant'
    BY <1>2, NextAlone, NextRecorded DEF Invariant
<1> QED BY <1>1, <1>3, PTL DEF Spec

(* Rows are well formed: a counter is a step of the clock or none, and     *)
(* every session has a number and a code of its own.                       *)
THEOREM TypesHold == Spec => []TypeOK
<1>1. Invariant => TypeOK
    BY DEF Invariant, Standing, Shaped
<1> QED BY InvariantHolds, <1>1, PTL

(* One code never opens two sessions, although two logins read the same    *)
(* counter (loginWithPassword).                                            *)
THEOREM CodesAreUsedOnce == Spec => []CodesOpenOneSession
<1>1. Invariant => CodesOpenOneSession
    BY DEF Invariant, Recorded, CodesOpenOneSession
<1> QED BY InvariantHolds, <1>1, PTL

(* A reset ends every session of the password it replaces and spends every *)
(* link that was mailed (resetPasswordWithToken).                          *)
THEOREM ResetsReplace == Spec => ResetsEndTheOld
<1>1. Invariant => SessionsFollowPassword /\ LastLinkOnly
    BY DEF Invariant, Alone, Orderly, SessionsFollowPassword, LastLinkOnly
<1>2. Invariant /\ [Next]_vars =>
          [(OneAtATime /\ user.state = "registered" /\ user'.password # user.password)
              => user'.password > user.password]_vars
    <2> SUFFICES ASSUME Invariant, Next, OneAtATime, user.state = "registered",
                        user'.password # user.password
                 PROVE  user'.password > user.password
        BY DEF vars
    <2>1. user \in User /\ Orderly /\ \A r \in Reqs : Faithful(reqs[r])
        BY DEF Invariant, Standing, Shaped, TypeOK, Alone
    <2>2. PICK r \in Reqs : ResetWrite(r)
        BY ZenonT(90), <2>1, Steps DEF Around, EndSession, ResetExpires, MailExpires, Tick, Reads, Writes,
           RegisterRead, ConfirmRead, DisableRead, LoginRead, ResetRead, VerifyRead, EnrollRead,
           AskReset, AskMail, Begin, RegisterWrite, LoginCode, OpenSession, EnrollWrite,
           ConfirmWrite, DisableWrite, MailReset, MailLink, VerifyWrite, Abandon, User, Faithful
    <2>3. user'.password = reqs[r].link /\ reqs[r].link \in Open(resets)
        BY <2>1, <2>2 DEF ResetWrite, Faithful, User
    <2> QED BY <2>1, <2>3 DEF Orderly
<1> QED BY InvariantHolds, <1>1, <1>2, PTL DEF Spec, ResetsEndTheOld, PasswordAdvances

(* While the second factor is on, a session takes a code of it and only a  *)
(* code of it turns it off; it is turned on with a secret that was proved. *)
THEOREM SecondFactorIsAskedFor == Spec => SecondFactorHolds
<1>1. Invariant /\ [Next]_vars =>
          [OneAtATime => \A s \in sessions' \ sessions : s.code.secret = user.secret]_vars
    <2> SUFFICES ASSUME Invariant, Next, OneAtATime, NEW s \in sessions' \ sessions
                 PROVE  s.code.secret = user.secret
        BY DEF vars
    <2>1. PICK r \in Reqs : OpenSession(r)
        BY ZenonT(90), Steps DEF Around, EndSession, ResetExpires, MailExpires, Tick, Reads, Writes,
           RegisterRead, ConfirmRead, DisableRead, LoginRead, ResetRead, VerifyRead, EnrollRead,
           AskReset, AskMail, Begin, RegisterWrite, LoginCode, EnrollWrite, ConfirmWrite,
           DisableWrite, MailReset, ResetWrite, MailLink, VerifyWrite, Abandon
    <2>2. s.code = reqs[r].code
        BY <2>1 DEF OpenSession
    <2> QED BY <2>1, <2>2 DEF Invariant, Alone, Faithful, OpenSession
<1>2. Invariant /\ [Next]_vars =>
          [user'.secret # user.secret =>
              \E r \in Reqs : IF user'.secret # 0 THEN reqs[r].code.secret = user'.secret
                             ELSE OneAtATime => reqs[r].code.secret = user.secret]_vars
    <2> SUFFICES ASSUME Invariant, Next, user'.secret # user.secret
                 PROVE  \E r \in Reqs : IF user'.secret # 0 THEN reqs[r].code.secret = user'.secret
                                       ELSE OneAtATime => reqs[r].code.secret = user.secret
        BY DEF vars
    <2>1. user \in User
        BY DEF Invariant, Standing, Shaped, TypeOK
    <2>2. PICK r \in Reqs : ConfirmWrite(r) \/ DisableWrite(r)
        BY ZenonT(90), <2>1, Steps DEF Around, EndSession, ResetExpires, MailExpires, Tick, Reads, Writes,
           RegisterRead, ConfirmRead, DisableRead, LoginRead, ResetRead, VerifyRead, EnrollRead,
           AskReset, AskMail, Begin, RegisterWrite, LoginCode, OpenSession, EnrollWrite,
           MailReset, ResetWrite, MailLink, VerifyWrite, Abandon, User
    <2>3. CASE ConfirmWrite(r)
        <3>1. reqs[r].code.secret # 0
            BY <2>3 DEF ConfirmWrite, Invariant, Standing, Shaped, Founded, Real
        <3> QED BY <2>1, <2>3, <3>1 DEF ConfirmWrite, User
    <2>4. CASE DisableWrite(r)
        BY <2>1, <2>4 DEF DisableWrite, User, Invariant, Alone, Faithful
    <2> QED BY <2>2, <2>3, <2>4
<1> QED BY InvariantHolds, <1>1, <1>2, PTL
        DEF Spec, SecondFactorHolds, CodesAreAskedFor, SecretsAreProved

-----------------------------------------------------------------------------
(* Together with the doors *)

(* A call leaves the account as it is; and the environment is fixed. *)
LEMMA CallsKeepTheAccount == CallStep => UNCHANGED vars
<1> SUFFICES ASSUME CallStep PROVE setting' = setting
    BY DEF CallStep, account, vars
<1>1. CASE D!Elapse
    BY <1>1 DEF D!Elapse
<1>2. CASE D!Credential \/ D!FindSession \/ D!Skip \/ D!Check \/ D!CarryOut \/ D!Fail \/ D!FailHalfway
    BY <1>2 DEF D!Credential, D!FindSession, D!Skip, D!Check, D!CarryOut, D!Fail, D!FailHalfway
<1>3. ASSUME NEW process, D!Meters(process) PROVE setting' = setting
    BY <1>3 DEF D!Meters
<1>4. ASSUME NEW m, D!Becomes(m) PROVE setting' = setting
    BY <1>4 DEF D!Becomes
<1>5. ASSUME NEW x, D!ChangeRole(x) \/ D!ChangeScope(x) \/ D!Join PROVE setting' = setting
    BY <1>5, <1>4 DEF D!ChangeRole, D!ChangeScope, D!Join
<1>6. ASSUME NEW door, NEW session, NEW lacks, D!Arrive(door, session, lacks)
      PROVE  setting' = setting
    BY <1>6 DEF D!Arrive
<1> QED BY <1>1, <1>2, <1>3, <1>5, <1>6 DEF CallStep, D!Next

(***************************************************************************)
(* Calls at the doors leave the account as it is (Entrance), so whatever   *)
(* holds of the account by itself holds of it there.                       *)
(***************************************************************************)
THEOREM EntranceKeepsAccounts == EntranceSpec => Spec
<1>1. EntranceInit => Init
    BY DEF EntranceInit
<1>2. [AccountStep \/ CallStep]_everything => [Next]_vars
    BY CallsKeepTheAccount DEF AccountStep, everything
<1> QED BY <1>1, <1>2, PTL DEF EntranceSpec, Spec
-----------------------------------------------------------------------------
(* The doors *)

Door(c) == D!AllDoors[c.door]

LEMMA StepsOfDoors ==
    ASSUME NEW d \in DOMAIN D!AllDoors
    PROVE  /\ D!AllDoors[d] \in D!ToSet(D!AllDoors)
           /\ D!AllDoors[d] \in Seq(D!Steps)
           /\ DOMAIN D!AllDoors[d] = 1..Len(D!AllDoors[d])
           /\ \A n \in DOMAIN D!AllDoors[d] : D!AllDoors[d][n] \in D!Steps
<1>1. D!AllDoors \in Seq(Seq(D!Steps))
    BY EntranceAssumption DEF D!DoorsAreSound, D!DoorsAreMade
<1>2. D!AllDoors[d] \in Seq(D!Steps)
    BY <1>1
<1>3. D!AllDoors[d] \in D!ToSet(D!AllDoors)
    BY DEF D!ToSet
<1> QED BY <1>2, <1>3

(* Taking the gate of a step away leaves the rest of it. *)
LEMMA Ungated ==
    ASSUME NEW step \in D!Steps
    PROVE  LET same == [step EXCEPT !.gate = ""]
           IN  /\ same.permission = step.permission /\ same.changes = step.changes
               /\ same.scoped = step.scoped
    BY DEF D!Steps

-----------------------------------------------------------------------------
(* What is known of a call *)

IsCall(c) ==
    c \in [state : {c.state}, door : {c.door}, at : {c.at}, session : {c.session},
           lacks : {c.lacks}, site : {c.site}, role : {c.role}, charged : {c.charged},
           cleared : {c.cleared}, changed : {c.changed}, kept : {c.kept}, seen : {c.seen}]

Typed(c, m) ==
    /\ IsCall(c)
    /\ c.state \in {"idle", "running", "refused", "failed", "done"}
    /\ c.cleared \in BOOLEAN /\ c.charged \in BOOLEAN /\ c.changed \in BOOLEAN
    /\ c.role \in D!RoleNames \cup {""} /\ c.site \in D!Sites
    /\ c.lacks \in D!Credentials \cup {"none"}
    /\ c.seen \subseteq D!Member /\ IsFiniteSet(c.seen)
    /\ c.state = "running" => /\ c.door \in DOMAIN D!AllDoors /\ c.at \in DOMAIN Door(c)
                              /\ m \in c.seen

(* A step that was taken found what it looked for. *)
Taken(c, n) ==
    /\ Door(c)[n].kind # c.lacks
    /\ Door(c)[n].kind = "session" => c.session # 0
    /\ Door(c)[n].kind = "quota" => c.charged

(* A call that has changed something did so at a step before, as an active *)
(* member when the step asked for a permission.                            *)
ByAMember(c, m, n) ==
    /\ Door(c)[n].kind = "operation" /\ Door(c)[n].changes
    /\ Door(c)[n].permission # "" => m.active

(* A role was found by listing the organizations, and is still the one     *)
(* that was found unless the member has changed.                           *)
RoleFound(c, m) ==
    /\ \E n \in 1..(c.at - 1) : Door(c)[n].name = D!ListOrganizations.name
    /\ c.seen = {m} => m.active /\ m.role = c.role /\ c.site \in D!Visible(m)

(* A call that is cleared for its step had a member who was entitled to it. *)
ClearedFor(c, m) ==
    LET step == Door(c)[c.at]
    IN  /\ step.kind = "operation"
        /\ step.permission = "" \/ \E seen \in c.seen : D!Entitled(seen, step, c.site)
        /\ step.permission # "" => m.active

UnderWay(c, m) ==
    c.state = "running" =>
        /\ \A n \in 1..(c.at - 1) : Taken(c, n)
        /\ c.changed => \E n \in 1..(c.at - 1) : ByAMember(c, m, n)
        /\ c.role # "" => RoleFound(c, m)
        /\ c.cleared => ClearedFor(c, m)

MayStand == {operation.name : operation \in D!ChangeMayStand}

Ended(c) ==
    /\ c.cleared => c.state = "running"
    /\ c.state \in {"refused", "failed"} => ~c.changed
    /\ c.kept # "" => c.state = "failed" /\ c.kept \in MayStand
    /\ c.state = "refused" /\ c.role # "" => \E x, y \in c.seen : x # y

Sound(c, m) == Typed(c, m) /\ UnderWay(c, m) /\ Ended(c)

(* Answering a call: it has changed nothing, and a page that is refused    *)
(* has met two forms of the member.                                        *)
LEMMA AnsweredIsSound ==
    ASSUME Typed(call, member), NEW state \in {"refused", "failed"}, D!Answered(state),
           ~call.changed,
           (state = "refused" /\ call.role # "") => \E x, y \in call.seen : x # y
    PROVE  Sound(call', member')
<1>1. /\ IsCall(call') /\ call'.state = state /\ call'.role = call.role /\ call'.changed = call.changed
      /\ call'.seen = call.seen /\ call'.cleared = FALSE /\ call'.charged = FALSE
      /\ call'.site = "this" /\ call'.lacks = "none" /\ call'.kept = ""
    BY DEF D!Answered, D!Ending, D!Idle, IsCall
<1>2. Typed(call', member')
    BY <1>1 DEF Typed, D!Sites
<1>3. UnderWay(call', member') /\ Ended(call')
    BY <1>1 DEF UnderWay, Ended
<1> QED BY <1>2, <1>3 DEF Sound

(* A call that is not under way, and has done nothing that matters. *)
LEMMA AtRestIsSound ==
    ASSUME NEW c, NEW m, IsCall(c), c.state \in {"idle", "done"}, c.role = "", c.changed = FALSE, c.seen = {},
           c.cleared = FALSE, c.charged = FALSE, c.site = "this", c.lacks = "none", c.kept = ""
    PROVE  Sound(c, m)
<1>1. Typed(c, m)
    BY FS_EmptySet DEF Typed, D!Sites
<1>2. UnderWay(c, m) /\ Ended(c)
    BY DEF UnderWay, Ended
<1> QED BY <1>1, <1>2 DEF Sound

LEMMA IdleIsSound == \A m : Sound(D!Idle, m)
<1> DEFINE c == D!Idle
<1>1. /\ IsCall(c) /\ c.state = "idle" /\ c.role = "" /\ c.changed = FALSE /\ c.seen = {}
      /\ c.cleared = FALSE /\ c.charged = FALSE /\ c.site = "this" /\ c.lacks = "none" /\ c.kept = ""
    BY DEF D!Idle, IsCall
<1> HIDE DEF c
<1>2. \A m : Sound(c, m)
    BY <1>1, AtRestIsSound
<1> QED BY <1>2 DEF c

LEMMA DoneWithIsSound == \A m : Sound([D!Idle EXCEPT !.state = "done"], m)
<1> DEFINE c == [D!Idle EXCEPT !.state = "done"]
<1>1. /\ IsCall(c) /\ c.state = "done" /\ c.role = "" /\ c.changed = FALSE /\ c.seen = {}
      /\ c.cleared = FALSE /\ c.charged = FALSE /\ c.site = "this" /\ c.lacks = "none" /\ c.kept = ""
    BY DEF D!Idle, IsCall
<1> HIDE DEF c
<1>2. \A m : Sound(c, m)
    BY <1>1, AtRestIsSound
<1> QED BY <1>2 DEF c

(* The member who is met is not the only one who was seen. *)
LEMMA TwoWereSeen ==
    ASSUME Typed(call, member), call.state = "running", call.seen # {member}
    PROVE  \E x, y \in call.seen : x # y
    BY DEF Typed

LEMMA StepBefore ==
    ASSUME NEW d \in DOMAIN D!AllDoors, NEW at \in DOMAIN D!AllDoors[d], NEW n \in 1..(at - 1)
    PROVE  n \in DOMAIN D!AllDoors[d] /\ n < at
<1>1. DOMAIN D!AllDoors[d] = 1..Len(D!AllDoors[d]) /\ D!AllDoors[d] \in Seq(D!Steps)
    BY StepsOfDoors
<1>2. Len(D!AllDoors[d]) \in Nat
    BY <1>1
<1> QED BY <1>1, <1>2

(* What follows a change is not refused and does not fail. *)
LEMMA AfterAChange ==
    ASSUME Sound(call, member), call.state = "running", call.changed
    PROVE  /\ D!Step.kind = "operation" /\ ~D!Step.fails
           /\ D!Step.permission = "" \/ D!Entitled(member, D!Step, call.site)
<1> DEFINE door == Door(call)
<1>1. /\ call.door \in DOMAIN D!AllDoors /\ call.at \in DOMAIN door
      /\ member \in D!Member
    BY DEF Sound, Typed
<1>2. PICK n \in 1..(call.at - 1) : ByAMember(call, member, n)
    BY DEF Sound, UnderWay
<1>3. door \in D!ToSet(D!AllDoors)
    BY <1>1, StepsOfDoors DEF Door
<1>4. n \in DOMAIN door /\ n < call.at /\ door[n].kind = "operation" /\ door[n].changes
    <2>1. n \in DOMAIN door /\ n < call.at
        BY <1>1, <1>2, StepBefore DEF Door
    <2> QED BY <1>2, <2>1 DEF ByAMember
<1>5. /\ door[call.at].kind = "operation" /\ ~door[call.at].fails
      /\ door[call.at].permission # "" =>
            /\ door[n].permission # "" /\ ~door[call.at].scoped
            /\ \A role \in D!RoleNames : D!HasPermission(role, door[call.at].permission)
    <2> HIDE DEF door
    <2> QED BY <1>1, <1>3, <1>4, EntranceAssumption DEF D!DoorsAreSound, D!ChangesComeLast
<1>6. D!Step = door[call.at]
    BY DEF D!Step, Door
<1>7. door[n].permission # "" => member.active
    BY <1>2 DEF ByAMember
<1>8. member.role \in D!RoleNames
    BY <1>1 DEF D!Member
<1> QED BY <1>5, <1>6, <1>7, <1>8 DEF D!Entitled

(* Nor does a page refuse the member whose role it found. *)
LEMMA OnAPage ==
    ASSUME Sound(call, member), call.state = "running", call.role # ""
    PROVE  /\ D!Step.kind = "operation"
           /\ (call.seen = {member} /\ D!Wanted(D!Step))
                => (D!Step.permission = "" \/ D!Entitled(member, D!Step, call.site))
<1> DEFINE door == Door(call)
<1>1. /\ call.door \in DOMAIN D!AllDoors /\ call.at \in DOMAIN door
      /\ call.role \in D!RoleNames
    BY DEF Sound, Typed
<1>2. RoleFound(call, member)
    BY DEF Sound, UnderWay
<1>3. PICK n \in 1..(call.at - 1) : door[n].name = D!ListOrganizations.name
    BY <1>2 DEF RoleFound
<1>4. door \in D!ToSet(D!AllDoors)
    BY <1>1, StepsOfDoors DEF Door
<1>5. n \in DOMAIN door /\ n < call.at
    BY <1>1, <1>3, StepBefore DEF Door
<1>6. /\ door[call.at].kind = "operation"
      /\ (door[call.at].permission # ""
            /\ (\/ door[call.at].gate \in {"", "data", "organization"}
                \/ D!HasPermission(call.role, door[call.at].gate)))
             => D!HasPermission(call.role, door[call.at].permission)
    <2> HIDE DEF door
    <2> QED BY <1>1, <1>3, <1>4, <1>5, EntranceAssumption DEF D!DoorsAreSound, D!PagesAskWhatRolesHave
<1>7. D!Step = door[call.at]
    BY DEF D!Step, Door
<1>8. D!Wanted(D!Step) => \/ D!Step.gate \in {"", "data", "organization"}
                          \/ D!HasPermission(call.role, D!Step.gate)
    BY DEF D!Wanted
<1>9. call.seen = {member} => member.active /\ member.role = call.role /\ call.site \in D!Visible(member)
    BY <1>2 DEF RoleFound
<1> QED BY <1>6, <1>7, <1>8, <1>9 DEF D!Entitled

(* A call that is done with a step, and what it takes along. *)
TakesAlong(left) ==
    /\ IsCall(left)
    /\ left.state = call.state /\ left.door = call.door /\ left.at = call.at
    /\ left.session = call.session /\ left.lacks = call.lacks /\ left.seen = call.seen
    /\ left.charged \in BOOLEAN /\ left.changed \in BOOLEAN /\ left.kept = call.kept
    /\ left.role \in D!RoleNames \cup {""} /\ left.site \in D!Sites
    /\ call.charged => left.charged
    /\ left.changed => call.changed \/ ByAMember(call, member, call.at)
    /\ left.role # "" =>
          \/ left.role = call.role /\ left.site = call.site
          \/ /\ Door(call)[call.at].name = D!ListOrganizations.name
             /\ member.active /\ member.role = left.role /\ left.site \in D!Visible(member)

(* What is known of the steps before is known of the step that is done. *)
LEMMA GoneOn ==
    ASSUME Sound(call, member), call.state = "running", NEW left, TakesAlong(left), Taken(left, call.at),
           NEW next, IsCall(next), next.at = left.at + 1, next.cleared = FALSE, next.state = left.state,
           next.door = left.door, next.session = left.session, next.lacks = left.lacks, next.seen = left.seen,
           next.charged = left.charged, next.changed = left.changed, next.role = left.role,
           next.site = left.site, next.kept = left.kept, left.at # Len(Door(call))
    PROVE  Sound(next, member)
<1>0. /\ Typed(call, member) /\ UnderWay(call, member)
      /\ Door(next) = Door(call) /\ Door(left) = Door(call)
    BY DEF Sound, Door, TakesAlong
<1>1. /\ call.door \in DOMAIN D!AllDoors /\ call.at \in 1..Len(Door(call)) /\ Len(Door(call)) \in Nat
      /\ DOMAIN Door(call) = 1..Len(Door(call)) /\ member \in call.seen
    <2>1. call.door \in DOMAIN D!AllDoors /\ call.at \in DOMAIN Door(call) /\ member \in call.seen
        BY <1>0 DEF Typed
    <2> QED BY <2>1, StepsOfDoors DEF Door
<1>2. next.at = call.at + 1 /\ next.at \in DOMAIN Door(next)
    <2>1. left.at = call.at /\ call.at # Len(Door(call))
        BY <1>0 DEF TakesAlong
    <2>2. call.at + 1 \in 1..Len(Door(call))
        <3> DEFINE at == call.at
                   length == Len(Door(call))
        <3>1. at \in 1..length /\ length \in Nat /\ at # length
            BY <1>1, <2>1
        <3>2. at + 1 \in 1..length
            <4> HIDE DEF at, length
            <4> QED BY <3>1
        <3> QED BY <3>2
    <2> QED BY <1>0, <1>1, <2>1, <2>2
<1>3. Typed(next, member)
    <2>1. next.seen \subseteq D!Member /\ IsFiniteSet(next.seen) /\ next.lacks \in D!Credentials \cup {"none"}
        BY <1>0 DEF Typed, TakesAlong
    <2> QED BY <1>1, <1>2, <2>1 DEF Typed, TakesAlong
<1>4. \A n \in 1..(next.at - 1) : n = call.at \/ n \in 1..(call.at - 1)
    BY <1>1, <1>2
<1>5. call.at \in 1..(next.at - 1) /\ \A n \in 1..(call.at - 1) : n \in 1..(next.at - 1)
    BY <1>1, <1>2
<1>6. ASSUME NEW n \in 1..(next.at - 1) PROVE Taken(next, n)
    <2>1. n = call.at => Taken(next, n)
        BY <1>0 DEF Taken
    <2>2. n \in 1..(call.at - 1) => Taken(call, n)
        BY <1>0 DEF UnderWay
    <2>3. Taken(call, n) => Taken(next, n)
        BY <1>0 DEF Taken, TakesAlong
    <2> QED BY <1>4, <2>1, <2>2, <2>3
<1>7. ASSUME next.changed PROVE \E n \in 1..(next.at - 1) : ByAMember(next, member, n)
    <2>1. \A n : ByAMember(call, member, n) => ByAMember(next, member, n)
        BY <1>0 DEF ByAMember
    <2>2. call.changed \/ ByAMember(call, member, call.at)
        BY <1>7 DEF TakesAlong
    <2>3. call.changed => \E n \in 1..(call.at - 1) : ByAMember(call, member, n)
        BY <1>0 DEF UnderWay
    <2> QED BY <1>5, <2>1, <2>2, <2>3
<1>8. ASSUME next.role # "" PROVE RoleFound(next, member)
    <2>1. CASE next.role = call.role /\ next.site = call.site
        <3>1. RoleFound(call, member)
            BY <1>0, <1>8, <2>1 DEF UnderWay
        <3> QED BY <1>0, <1>5, <2>1, <3>1 DEF RoleFound, TakesAlong
    <2>2. CASE /\ Door(call)[call.at].name = D!ListOrganizations.name
               /\ member.active /\ member.role = next.role /\ next.site \in D!Visible(member)
        BY <1>0, <1>5, <2>2 DEF RoleFound
    <2> QED BY <1>8, <2>1, <2>2 DEF TakesAlong
<1>9. UnderWay(next, member)
    BY <1>6, <1>7, <1>8 DEF UnderWay
<1>10. Ended(next)
    BY DEF Sound, Ended, TakesAlong
<1> QED BY <1>3, <1>9, <1>10 DEF Sound

LEMMA DoneIsSound ==
    ASSUME Sound(call, member), call.state = "running", member' = member,
           NEW left, TakesAlong(left), Taken(left, call.at), D!Done(left)
    PROVE  Sound(call', member')
<1>1. CASE left.at = Len(D!AllDoors[left.door])
    BY <1>1, DoneWithIsSound DEF D!Done
<1>2. CASE left.at # Len(D!AllDoors[left.door])
    <2>1. call' = [left EXCEPT !.at = @ + 1, !.cleared = FALSE]
        BY <1>2 DEF D!Done
    <2>2. /\ IsCall(call') /\ call'.at = left.at + 1 /\ call'.cleared = FALSE /\ call'.state = left.state
          /\ call'.door = left.door /\ call'.session = left.session /\ call'.lacks = left.lacks
          /\ call'.seen = left.seen /\ call'.charged = left.charged /\ call'.changed = left.changed
          /\ call'.role = left.role /\ call'.site = left.site /\ call'.kept = left.kept
        BY <2>1 DEF IsCall, TakesAlong
    <2>3. left.at # Len(Door(call))
        BY <1>2 DEF Door, TakesAlong
    <2> QED BY <2>2, <2>3, GoneOn
<1> QED BY <1>1, <1>2

-----------------------------------------------------------------------------
(* The steps of a call *)

OwnSessions == \A s \in sessions : s.number # 0

CallInv == setting \in Settings /\ member \in D!Member /\ OwnSessions /\ Sound(call, member)

(* A call that takes a step takes itself along. *)
LEMMA Along ==
    ASSUME Typed(call, member) PROVE TakesAlong(call)
    BY DEF Typed, TakesAlong

LEMMA ArriveSound ==
    ASSUME CallInv, NEW door \in D!Offered, NEW session, NEW lacks \in D!Credentials \cup {"none"},
           D!Arrive(door, session, lacks)
    PROVE  Sound(call', member')
<1>1. /\ IsCall(call') /\ call'.state = "running" /\ call'.door = door /\ call'.at = 1
      /\ call'.lacks = lacks /\ call'.seen = {member} /\ call'.site = "this" /\ call'.role = ""
      /\ call'.charged = FALSE /\ call'.cleared = FALSE /\ call'.changed = FALSE /\ member' = member
      /\ call'.kept = ""
    BY DEF D!Arrive, D!Idle, IsCall
<1>2. door \in DOMAIN D!AllDoors /\ D!AllDoors[door] # <<>>
    <2>1. setting.doors \in {"none", "all", "login"} /\ D!LoginRoute[1] # <<>>
        BY EntranceAssumption DEF CallInv, D!DoorsAreSound, D!DoorsAreMade
    <2> QED BY <2>1 DEF D!Offered
<1>3. 1 \in DOMAIN D!AllDoors[door]
    <2>1. D!AllDoors[door] \in Seq(D!Steps) /\ DOMAIN D!AllDoors[door] = 1..Len(D!AllDoors[door])
        BY <1>2, StepsOfDoors
    <2> QED BY <1>2, <2>1
<1>4. {member} \subseteq D!Member /\ IsFiniteSet({member})
    BY FS_Singleton DEF CallInv
<1>5. Typed(call', member')
    BY <1>1, <1>2, <1>3, <1>4 DEF Typed, D!Sites, Door
<1>6. UnderWay(call', member')
    <2>1. \A n \in 1..(1 - 1) : FALSE
        OBVIOUS
    <2>2. \A n \in 1..(call'.at - 1) : Taken(call', n)
        BY <1>1, <2>1
    <2> QED BY <1>1, <2>2 DEF UnderWay
<1>7. Ended(call')
    BY <1>1 DEF Ended
<1> QED BY <1>5, <1>6, <1>7 DEF Sound

(* Who is refused before an operation has changed nothing, and is on no page. *)
LEMMA RefusedBefore ==
    ASSUME Sound(call, member), call.state = "running", D!Step.kind # "operation", D!Answered("refused")
    PROVE  Sound(call', member')
    BY AfterAChange, OnAPage, AnsweredIsSound DEF Sound

LEMMA CredentialSound ==
    ASSUME Sound(call, member), D!Credential PROVE Sound(call', member')
<1>1. call.state = "running" /\ D!Step.kind \in D!Credentials /\ member' = member
    BY DEF D!Credential
<1>2. CASE call.lacks = D!Step.kind
    BY <1>1, <1>2, RefusedBefore DEF D!Credential, D!Credentials
<1>3. CASE call.lacks # D!Step.kind
    <2>1. Taken(call, call.at)
        BY <1>1, <1>3 DEF Taken, D!Step, Door, D!Credentials
    <2>2. D!Done(call)
        BY <1>3 DEF D!Credential
    <2> QED BY <1>1, <2>1, <2>2, Along, DoneIsSound DEF Sound
<1> QED BY <1>2, <1>3

LEMMA FindSessionSound ==
    ASSUME Sound(call, member), OwnSessions, D!FindSession PROVE Sound(call', member')
<1>1. call.state = "running" /\ D!Step.kind = "session" /\ member' = member
    BY DEF D!FindSession, D!Running
<1>2. CASE call.session \in {s.number : s \in sessions}
    <2>1. call.session # 0 /\ "session" # call.lacks
        BY <1>2 DEF OwnSessions, Sound, Typed, D!Credentials
    <2>2. Taken(call, call.at)
        BY <1>1, <2>1 DEF Taken, D!Step, Door
    <2>3. D!Done(call)
        BY <1>2 DEF D!FindSession
    <2> QED BY <1>1, <2>2, <2>3, Along, DoneIsSound DEF Sound
<1>3. CASE call.session \notin {s.number : s \in sessions}
    BY <1>1, <1>3, RefusedBefore DEF D!FindSession
<1> QED BY <1>2, <1>3

LEMMA MetersSound ==
    ASSUME Sound(call, member), NEW process, D!Meters(process) PROVE Sound(call', member')
<1>1. call.state = "running" /\ D!Step.kind = "quota" /\ member' = member
    BY DEF D!Meters, D!Running
<1>2. PICK passed \in BOOLEAN :
          IF passed THEN D!Done([call EXCEPT !.charged = TRUE]) ELSE D!Answered("refused")
    BY DEF D!Meters
<1>3. CASE passed
    <2> DEFINE left == [call EXCEPT !.charged = TRUE]
    <2>1. TakesAlong(left) /\ left.charged /\ left.door = call.door /\ left.lacks = call.lacks
        BY DEF Sound, Typed, TakesAlong, IsCall
    <2>2. "quota" # call.lacks
        BY DEF Sound, Typed, D!Credentials
    <2>3. Taken(left, call.at)
        BY <1>1, <2>1, <2>2 DEF Taken, D!Step, Door
    <2> QED BY <1>1, <1>2, <1>3, <2>1, <2>3, DoneIsSound
<1>4. CASE ~passed
    BY <1>1, <1>2, <1>4, RefusedBefore
<1> QED BY <1>3, <1>4

(* An operation that is skipped or done finds nothing it lacks. *)
LEMMA OperationTaken ==
    ASSUME Typed(call, member), D!Step.kind = "operation",
           NEW left, left.door = call.door, left.lacks = call.lacks
    PROVE  Taken(left, call.at)
<1>1. "operation" # call.lacks
    BY DEF Typed, D!Credentials
<1> QED BY <1>1 DEF Taken, D!Step, Door

LEMMA SkipSound ==
    ASSUME Sound(call, member), D!Skip PROVE Sound(call', member')
    BY Along, OperationTaken, DoneIsSound DEF D!Skip, D!Running, Sound

LEMMA CheckSound ==
    ASSUME Sound(call, member), D!Check PROVE Sound(call', member')
<1>1. /\ call.state = "running" /\ D!Step.kind = "operation" /\ D!Wanted(D!Step) /\ member' = member
      /\ Typed(call, member) /\ UnderWay(call, member) /\ Ended(call)
    BY DEF D!Check, D!Running, Sound
<1>2. CASE D!Step.permission = "" \/ D!Entitled(member, D!Step, call.site)
    <2>1. call' = [call EXCEPT !.cleared = TRUE]
        BY <1>2 DEF D!Check
    <2>2. /\ IsCall(call') /\ call'.cleared = TRUE /\ call'.state = call.state /\ call'.door = call.door
          /\ call'.at = call.at /\ call'.session = call.session /\ call'.lacks = call.lacks
          /\ call'.site = call.site /\ call'.role = call.role /\ call'.charged = call.charged
          /\ call'.changed = call.changed /\ call'.seen = call.seen /\ Door(call') = Door(call)
          /\ call'.kept = call.kept
        BY <1>1, <2>1 DEF Typed, IsCall, Door
    <2>3. Typed(call', member')
        BY <1>1, <2>2 DEF Typed
    <2>4. ClearedFor(call', member')
        <3>1. member \in call.seen
            BY <1>1 DEF Typed
        <3>2. D!Step = Door(call')[call'.at]
            BY <2>2 DEF D!Step, Door
        <3>3. D!Step.permission = "" \/ member.active
            BY <1>2 DEF D!Entitled
        <3> QED BY <1>1, <1>2, <2>2, <3>1, <3>2, <3>3 DEF ClearedFor
    <2>5. UnderWay(call', member')
        <3>1. \A n : Taken(call, n) => Taken(call', n)
            BY <2>2 DEF Taken
        <3>2. \A n : ByAMember(call, member, n) => ByAMember(call', member', n)
            BY <1>1, <2>2 DEF ByAMember
        <3>3. RoleFound(call, member) => RoleFound(call', member')
            BY <1>1, <2>2 DEF RoleFound
        <3> QED BY <1>1, <2>2, <2>4, <3>1, <3>2, <3>3 DEF UnderWay
    <2>6. Ended(call')
        BY <1>1, <2>2 DEF Ended
    <2> QED BY <2>3, <2>5, <2>6 DEF Sound
<1>3. CASE ~(D!Step.permission = "" \/ D!Entitled(member, D!Step, call.site))
    <2>1. D!Answered("refused")
        BY <1>3 DEF D!Check
    <2>2. ~call.changed
        BY <1>1, <1>3, AfterAChange
    <2>3. call.role # "" => \E x, y \in call.seen : x # y
        BY <1>1, <1>3, OnAPage, TwoWereSeen
    <2> QED BY <1>1, <2>1, <2>2, <2>3, AnsweredIsSound
<1> QED BY <1>2, <1>3

LEMMA CarryOutSound ==
    ASSUME Sound(call, member), D!CarryOut PROVE Sound(call', member')
<1>1. /\ call.state = "running" /\ D!Step.kind = "operation" /\ call.cleared /\ member' = member
      /\ Typed(call, member) /\ ClearedFor(call, member) /\ D!Step = Door(call)[call.at]
    BY DEF D!CarryOut, D!Running, Sound, UnderWay, D!Step, Door
<1>2. CASE D!Step.name = D!ListOrganizations.name
    <2>1. CASE member.active
        <3>1. PICK site \in D!Visible(member) :
                  D!Done([call EXCEPT !.role = member.role, !.site = site])
            BY <1>2, <2>1 DEF D!CarryOut, D!Summarize
        <3> DEFINE left == [call EXCEPT !.role = member.role, !.site = site]
        <3>2. /\ IsCall(left) /\ left.state = call.state /\ left.door = call.door /\ left.at = call.at
              /\ left.session = call.session /\ left.lacks = call.lacks /\ left.seen = call.seen
              /\ left.charged = call.charged /\ left.changed = call.changed /\ left.role = member.role
              /\ left.site = site /\ left.kept = call.kept
            BY <1>1 DEF Typed, IsCall
        <3>3. member \in D!Member
            BY <1>1 DEF Typed
        <3>4. member.role \in D!RoleNames /\ site \in D!Sites
            BY <3>3 DEF D!Member, D!Visible, D!Scopes, D!Sites
        <3> HIDE DEF left
        <3>5. TakesAlong(left)
            BY <1>1, <1>2, <2>1, <3>2, <3>4 DEF Typed, TakesAlong
        <3>6. Taken(left, call.at)
            BY <1>1, <3>2, OperationTaken
        <3> QED BY <1>1, <3>1, <3>5, <3>6, DoneIsSound DEF left
    <2>2. CASE ~member.active
        BY <1>1, <1>2, <2>2, Along, OperationTaken, DoneIsSound DEF D!CarryOut, D!Summarize
    <2> QED BY <2>1, <2>2
<1>3. CASE D!Step.name # D!ListOrganizations.name
    <2> DEFINE left == [call EXCEPT !.changed = @ \/ D!Step.changes]
    <2>1. D!Done(left)
        BY <1>3 DEF D!CarryOut
    <2>2. /\ IsCall(left) /\ left.state = call.state /\ left.door = call.door /\ left.at = call.at
          /\ left.session = call.session /\ left.lacks = call.lacks /\ left.seen = call.seen
          /\ left.charged = call.charged /\ left.changed = (call.changed \/ D!Step.changes)
          /\ left.role = call.role /\ left.site = call.site /\ left.kept = call.kept
        BY <1>1 DEF Typed, IsCall
    <2>3. D!Step.changes \in BOOLEAN
        BY <1>1, StepsOfDoors DEF Typed, Door, D!Steps
    <2> HIDE DEF left
    <2>4. left.changed \in BOOLEAN /\ (left.changed => call.changed \/ ByAMember(call, member, call.at))
        BY <1>1, <2>2, <2>3 DEF Typed, ByAMember, ClearedFor
    <2>5. TakesAlong(left)
        BY <1>1, <2>2, <2>4 DEF Typed, TakesAlong
    <2>6. Taken(left, call.at)
        BY <1>1, <2>2, OperationTaken
    <2> QED BY <1>1, <2>1, <2>5, <2>6, DoneIsSound
<1> QED BY <1>2, <1>3

LEMMA FailSound ==
    ASSUME Sound(call, member), D!Fail PROVE Sound(call', member')
<1>1. D!Step.fails /\ call.state = "running" /\ D!Answered("failed")
    BY DEF D!Fail, D!Running
<1> QED BY <1>1, AfterAChange, AnsweredIsSound DEF Sound

(* What an operation that fails has kept is what may stand. *)
LEMMA FailHalfwaySound ==
    ASSUME Sound(call, member), D!FailHalfway PROVE Sound(call', member')
<1>1. /\ call.state = "running" /\ D!Step.halfway /\ D!Step.kind = "operation"
      /\ call' = [D!Ending("failed") EXCEPT !.kept = D!Step.name]
      /\ Typed(call, member)
    BY DEF D!FailHalfway, D!Running, Sound
<1>2. /\ D!Step = Door(call)[call.at] /\ D!Step \in D!Steps
      /\ Door(call) \in D!ToSet(D!AllDoors) /\ call.at \in DOMAIN Door(call)
    BY <1>1, StepsOfDoors DEF Typed, D!Step, Door
<1>3. D!Step.name \in MayStand
    <2> DEFINE same == [D!Step EXCEPT !.gate = ""]
    <2>1. same \in D!ChangeMayStand
        BY <1>1, <1>2, EntranceAssumption DEF D!DoorsAreSound, D!FewKeepChanges
    <2>2. same.name = D!Step.name
        BY <1>2 DEF D!Steps
    <2> HIDE DEF same
    <2> QED BY <2>1, <2>2 DEF MayStand
<1>4. D!Step.fails
    BY <1>1, <1>2, EntranceAssumption DEF D!DoorsAreSound, D!FewKeepChanges
<1>5. ~call.changed
    BY <1>1, <1>4, AfterAChange
<1>6. /\ IsCall(call') /\ call'.state = "failed" /\ call'.role = call.role /\ call'.changed = call.changed
      /\ call'.seen = call.seen /\ call'.cleared = FALSE /\ call'.charged = FALSE
      /\ call'.site = "this" /\ call'.lacks = "none" /\ call'.kept = D!Step.name
    BY <1>1 DEF D!Ending, D!Idle, IsCall
<1>7. Typed(call', member')
    BY <1>1, <1>6 DEF Typed, D!Sites
<1>8. UnderWay(call', member') /\ Ended(call')
    BY <1>3, <1>5, <1>6 DEF UnderWay, Ended
<1> QED BY <1>7, <1>8 DEF Sound

LEMMA BecomesSound ==
    ASSUME Sound(call, member), NEW m \in D!Member, member.active => m.active, D!Becomes(m)
    PROVE  Sound(call', member')
<1>1. /\ call.state = "running" /\ member' = m /\ m # member
      /\ call' = [call EXCEPT !.seen = @ \cup {m}]
      /\ Typed(call, member) /\ UnderWay(call, member) /\ Ended(call)
    BY DEF D!Becomes, Sound
<1>2. /\ IsCall(call') /\ call'.cleared = call.cleared /\ call'.state = call.state /\ call'.door = call.door
      /\ call'.at = call.at /\ call'.session = call.session /\ call'.lacks = call.lacks
      /\ call'.site = call.site /\ call'.role = call.role /\ call'.charged = call.charged
      /\ call'.changed = call.changed /\ call'.seen = call.seen \cup {m} /\ Door(call') = Door(call)
      /\ call'.kept = call.kept
    BY <1>1 DEF Typed, IsCall, Door
<1>3. Typed(call', member')
    <2>1. IsFiniteSet(call.seen \cup {m}) /\ call.seen \cup {m} \subseteq D!Member
        BY <1>1, FS_AddElement DEF Typed
    <2> QED BY <1>1, <1>2, <2>1 DEF Typed
<1>4. UnderWay(call', member')
    <2>1. \A n : Taken(call, n) => Taken(call', n)
        BY <1>2 DEF Taken
    <2>2. \A n : ByAMember(call, member, n) => ByAMember(call', member', n)
        BY <1>1, <1>2 DEF ByAMember
    <2>3. RoleFound(call, member) => RoleFound(call', member')
        <3>1. call'.seen # {member'}
            BY <1>1, <1>2 DEF Typed
        <3> QED BY <1>2, <3>1 DEF RoleFound
    <2>4. ClearedFor(call, member) => ClearedFor(call', member')
        BY <1>1, <1>2 DEF ClearedFor
    <2> QED BY <1>1, <1>2, <2>1, <2>2, <2>3, <2>4 DEF UnderWay
<1>5. Ended(call')
    BY <1>1, <1>2 DEF Ended
<1> QED BY <1>3, <1>4, <1>5 DEF Sound

(* The member stays one of those there may be, and is never made inactive. *)
LEMMA MemberStep ==
    ASSUME CallInv, D!Next
    PROVE  member' \in D!Member /\ (member' = member \/ (D!Becomes(member') /\ (member.active => member'.active)))
<1>0. member \in D!Member /\ setting.next \subseteq D!RoleNames
    BY EntranceAssumption DEF CallInv
<1>1. D!Credential \/ D!FindSession \/ D!Skip \/ D!Check \/ D!CarryOut \/ D!Fail \/ D!FailHalfway \/ D!Elapse => member' = member
    BY DEF D!Credential, D!FindSession, D!Skip, D!Check, D!CarryOut, D!Fail, D!FailHalfway, D!Elapse
<1>2. ASSUME NEW process, D!Meters(process) PROVE member' = member
    BY <1>2 DEF D!Meters
<1>3. ASSUME NEW door, NEW session, NEW lacks, D!Arrive(door, session, lacks) PROVE member' = member
    BY <1>3 DEF D!Arrive
<1>4. ASSUME NEW role \in setting.next, D!ChangeRole(role)
      PROVE  member' \in D!Member /\ D!Becomes(member') /\ (member.active => member'.active)
    <2>1. [member EXCEPT !.role = role] \in D!Member /\ [member EXCEPT !.role = role].active = member.active
        BY <1>0 DEF D!Member
    <2> QED BY <1>4, <2>1 DEF D!ChangeRole, D!Becomes
<1>5. ASSUME NEW scope \in D!Scopes, D!ChangeScope(scope)
      PROVE  member' \in D!Member /\ D!Becomes(member') /\ (member.active => member'.active)
    <2>1. [member EXCEPT !.scope = scope] \in D!Member /\ [member EXCEPT !.scope = scope].active = member.active
        BY <1>0 DEF D!Member
    <2> QED BY <1>5, <2>1 DEF D!ChangeScope, D!Becomes
<1>6. ASSUME D!Join PROVE member' \in D!Member /\ D!Becomes(member') /\ (member.active => member'.active)
    <2>1. [member EXCEPT !.active = TRUE] \in D!Member /\ [member EXCEPT !.active = TRUE].active
        BY <1>0 DEF D!Member
    <2> QED BY <1>6, <2>1 DEF D!Join, D!Becomes
<1> QED BY <1>0, <1>1, <1>2, <1>3, <1>4, <1>5, <1>6 DEF D!Next

LEMMA CallStepSound ==
    ASSUME CallInv, D!Next PROVE Sound(call', member')
<1>0. Sound(call, member) /\ OwnSessions
    BY DEF CallInv
<1>1. CASE D!Credential \/ D!FindSession \/ D!Skip \/ D!Check \/ D!CarryOut \/ D!Fail \/ D!FailHalfway
    BY <1>0, <1>1, CredentialSound, FindSessionSound, SkipSound, CheckSound, CarryOutSound,
       FailSound, FailHalfwaySound
<1>2. ASSUME NEW process, D!Meters(process) PROVE Sound(call', member')
    BY <1>0, <1>2, MetersSound
<1>3. ASSUME NEW door \in D!Offered, NEW session, NEW lacks \in D!Credentials \cup {"none"},
             D!Arrive(door, session, lacks)
      PROVE  Sound(call', member')
    BY <1>3, ArriveSound
<1>4. CASE D!Elapse
    BY <1>0, <1>4 DEF D!Elapse
<1>5. ASSUME NEW m, D!Becomes(m) PROVE Sound(call', member')
    <2>1. member' = m /\ m # member
        BY <1>5 DEF D!Becomes
    <2> QED BY <1>0, <1>5, <2>1, MemberStep, BecomesSound
<1>6. D!Join => \E m : D!Becomes(m)
    BY DEF D!Join
<1>7. ASSUME NEW x, D!ChangeRole(x) \/ D!ChangeScope(x) PROVE \E m : D!Becomes(m)
    BY <1>7 DEF D!ChangeRole, D!ChangeScope
<1> QED BY <1>1, <1>2, <1>3, <1>4, <1>5, <1>6, <1>7 DEF D!Next

(* Sessions are numbered from one. *)
LEMMA SessionsNumbered ==
    ASSUME TypeOK, OwnSessions, [Next]_vars PROVE OwnSessions'
<1>1. \A s \in sessions' : s \in sessions \/ s.number = opened + 1
    <2>1. (\E r \in Reqs : OpenSession(r)) \/ sessions' \subseteq sessions
        BY ZenonT(90), Steps DEF Around, EndSession, ResetExpires, MailExpires, Tick, Reads, Writes,
           RegisterRead, ConfirmRead, DisableRead, LoginRead, ResetRead, VerifyRead, EnrollRead,
           AskReset, AskMail, Begin, RegisterWrite, LoginCode, EnrollWrite, ConfirmWrite,
           DisableWrite, MailReset, ResetWrite, MailLink, VerifyWrite, Abandon, vars
    <2> QED BY <2>1 DEF OpenSession
<1> QED BY <1>1 DEF TypeOK, OwnSessions

-----------------------------------------------------------------------------
(* The rate limiter *)

(* Each instance has a copy of FiniteSets; the copies agree. *)
LEMMA OneCardinality == \A T : D!Cardinality(T) = Cardinality(T)
BY DEF D!Cardinality, Cardinality

Bucket == [count: 1..(Limit + 1), resetAt: Int]
Passed == [at: Int, nth: 1..Limit]

Begun(bucket) == bucket.resetAt - Window

(***************************************************************************)
(* Of what passed within the last Window, the calls of the bucket there is *)
(* have different numbers up to its count, and those of the bucket before  *)
(* it different numbers as well; the first call of a bucket passed when it *)
(* began, so that of the bucket before is too long ago.                    *)
(***************************************************************************)
Tallied(done, bucket, time) ==
    /\ done \subseteq Passed
    /\ \A p \in done : time - Window < p.at /\ p.at < bucket.resetAt
    /\ \A p \in done : p.at >= Begun(bucket) => p.nth <= bucket.count
    /\ \A p \in done : p.nth = 1 => p.at = Begun(bucket)
    /\ \A p, q \in done : (p.nth = q.nth /\ (p.at >= Begun(bucket) <=> q.at >= Begun(bucket))) => p = q

LimitsInv ==
    /\ now \in Nat /\ DOMAIN passes \subseteq DOMAIN buckets
    /\ \A key \in DOMAIN buckets : buckets[key] \in Bucket /\ Begun(buckets[key]) <= now
    /\ \A key \in DOMAIN passes : Tallied(passes[key], buckets[key], now)

(* Sets of numbered passes have no more elements than there are numbers. *)
LEMMA NumbersBound ==
    ASSUME NEW S, S \subseteq Passed, NEW low \in 1..2,
           \A p \in S : p.nth \in low..Limit, \A p, q \in S : p.nth = q.nth => p = q
    PROVE  IsFiniteSet(S) /\ Cardinality(S) <= Limit + 1 - low
<1> DEFINE f == [p \in S |-> p.nth]
<1>1. f \in Injection(S, low..Limit)
    BY DEF Injection, IsInjective
<1>2. IsFiniteSet(low..Limit) /\ Cardinality(low..Limit) = Limit + 1 - low
    <2>1. low \in Int /\ Limit \in Int /\ low <= Limit + 1
        BY LimitsAssumption
    <2>2. /\ IsFiniteSet(low..Limit)
          /\ Cardinality(low..Limit) = IF low > Limit THEN 0 ELSE Limit - low + 1
        BY <2>1, FS_Interval
    <2>3. (IF low > Limit THEN 0 ELSE Limit - low + 1) = Limit + 1 - low
        BY <2>1
    <2> QED BY <2>2, <2>3
<1> QED BY <1>1, <1>2, FS_Injection

LEMMA TallyBound ==
    ASSUME NEW done, NEW bucket \in Bucket, NEW time, Tallied(done, bucket, time)
    PROVE  Cardinality(done) <= 2 * Limit - 1
<1> DEFINE start == Begun(bucket)
           recent == {p \in done : p.at >= start}
           earlier == {p \in done : ~(p.at >= start)}
<1>0. Limit \in Nat \ {0} /\ start \in Int
    BY LimitsAssumption DEF Bucket, Begun
<1>1. IsFiniteSet(recent) /\ Cardinality(recent) <= Limit
    <2>1. recent \subseteq Passed /\ \A p \in recent : p.nth \in 1..Limit
        BY DEF Tallied, Passed
    <2>2. \A p, q \in recent : p.nth = q.nth => p = q
        BY DEF Tallied
    <2> HIDE DEF recent
    <2> QED BY <1>0, <2>1, <2>2, NumbersBound
<1>2. IsFiniteSet(earlier) /\ Cardinality(earlier) <= Limit - 1
    <2>1. \A p \in earlier : p.nth \in 1..Limit /\ p.nth # 1
        BY <1>0 DEF Tallied, Passed
    <2>2. earlier \subseteq Passed /\ \A p \in earlier : p.nth \in 2..Limit
        BY <1>0, <2>1 DEF Tallied
    <2>3. \A p, q \in earlier : p.nth = q.nth => p = q
        BY DEF Tallied
    <2> HIDE DEF earlier
    <2> QED BY <1>0, <2>2, <2>3, NumbersBound
<1>3. done = recent \cup earlier
    OBVIOUS
<1>4. Cardinality(recent) \in Nat /\ Cardinality(earlier) \in Nat /\ Cardinality(recent \cap earlier) \in Nat
    BY <1>1, <1>2, FS_CardinalityType, FS_Intersection
<1> HIDE DEF recent, earlier
<1>5. Cardinality(done) = Cardinality(recent) + Cardinality(earlier) - Cardinality(recent \cap earlier)
    BY <1>1, <1>2, <1>3, FS_Union
<1> QED BY <1>0, <1>1, <1>2, <1>4, <1>5

(* One call more of a bucket, or the first of another. *)
NumbersLeft(done, bucket) ==
    /\ \A p \in done : p.at >= Begun(bucket) => p.nth < bucket.count
    /\ bucket.count = 1 => Begun(bucket) = now

LEMMA OneMoreCall ==
    ASSUME LimitsInv, NEW key
    PROVE  LET bucket == D!Incremented(key)
               done == D!PassesOf(key)
           IN  /\ bucket \in Bucket /\ Begun(bucket) <= now /\ now < bucket.resetAt
               /\ Tallied(done, bucket, now)
               /\ bucket.count <= Limit => NumbersLeft(done, bucket)
<1> DEFINE bucket == D!Incremented(key)
           done == D!PassesOf(key)
<1>0. Limit \in Nat \ {0} /\ Window \in Nat \ {0} /\ now \in Nat
    BY LimitsAssumption DEF LimitsInv
<1>1. done = {} \/ (key \in DOMAIN buckets /\ Tallied(done, buckets[key], now))
    BY DEF LimitsInv, D!PassesOf
<1>2. CASE D!Unexpired(key)
    <2> DEFINE old == buckets[key]
    <2>1. old \in Bucket /\ Begun(old) <= now /\ now < old.resetAt
        BY <1>2 DEF D!Unexpired, LimitsInv
    <2>2. bucket = [old EXCEPT !.count = IF @ > Limit THEN @ ELSE @ + 1]
        BY <1>2 DEF D!Incremented
    <2>3. /\ bucket.count = (IF old.count > Limit THEN old.count ELSE old.count + 1)
          /\ bucket.resetAt = old.resetAt /\ bucket \in Bucket
        BY <1>0, <2>1, <2>2 DEF Bucket
    <2>4. old.count \in 1..(Limit + 1) /\ Begun(bucket) = Begun(old) /\ old.count <= bucket.count
        BY <1>0, <2>1, <2>3 DEF Bucket, Begun
    <2>5. \A p \in done : p.at >= Begun(old) => (p.nth \in 1..Limit /\ p.nth <= old.count)
        BY <1>1 DEF Tallied, Passed
    <2> HIDE DEF old, bucket, done
    <2>6. Tallied(done, bucket, now)
        <3>1. CASE done = {}
            BY <3>1 DEF Tallied
        <3>2. CASE Tallied(done, old, now)
            <4>1. \A p \in done : p.at >= Begun(bucket) => p.nth <= bucket.count
                BY <1>0, <2>3, <2>4, <2>5
            <4> QED BY <2>3, <2>4, <3>2, <4>1 DEF Tallied
        <3> QED BY <1>1, <3>1, <3>2 DEF old
    <2>7. bucket.count <= Limit => NumbersLeft(done, bucket)
        BY <1>0, <2>3, <2>4, <2>5 DEF NumbersLeft
    <2> QED BY <2>1, <2>3, <2>4, <2>6, <2>7 DEF bucket, done
<1>3. CASE ~D!Unexpired(key)
    <2>1. bucket = [count |-> 1, resetAt |-> now + Window]
        BY <1>3 DEF D!Incremented
    <2>2. bucket \in Bucket /\ bucket.count = 1 /\ bucket.resetAt = now + Window /\ Begun(bucket) = now
        BY <1>0, <2>1 DEF Bucket, Begun
    <2>3. \A p \in done : /\ p \in Passed /\ p.at \in Int /\ now - Window < p.at /\ p.at < now
                          /\ p.nth # 1
        <3> SUFFICES ASSUME NEW p \in done PROVE /\ p \in Passed /\ p.at \in Int
                                                 /\ now - Window < p.at /\ p.at < now /\ p.nth # 1
            OBVIOUS
        <3>1. key \in DOMAIN buckets /\ Tallied(done, buckets[key], now)
            BY <1>1
        <3>2. /\ p \in Passed /\ now - Window < p.at /\ p.at < buckets[key].resetAt
              /\ p.nth = 1 => p.at = Begun(buckets[key])
            BY <3>1 DEF Tallied
        <3>3. buckets[key].resetAt \in Int /\ ~(buckets[key].resetAt > now)
            BY <1>3, <3>1 DEF D!Unexpired, LimitsInv, Bucket
        <3>4. p.at \in Int
            BY <3>2 DEF Passed
        <3>5. Begun(buckets[key]) = buckets[key].resetAt - Window
            BY DEF Begun
        <3> QED BY <1>0, <3>2, <3>3, <3>4, <3>5
    <2>4. \A p, q \in done : (p.nth = q.nth) => p = q
        <3>1. CASE done = {}
            BY <3>1
        <3>2. CASE key \in DOMAIN buckets /\ Tallied(done, buckets[key], now)
            <4>1. \A p \in done : p.at >= Begun(buckets[key])
                <5>1. Begun(buckets[key]) <= now - Window /\ Begun(buckets[key]) \in Int
                    BY <1>0, <1>3, <3>2 DEF D!Unexpired, LimitsInv, Bucket, Begun
                <5> QED BY <1>0, <2>3, <5>1
            <4> QED BY <3>2, <4>1 DEF Tallied
        <3> QED BY <1>1, <3>1, <3>2
    <2> HIDE DEF bucket, done
    <2>5. Tallied(done, bucket, now)
        <3>1. \A p \in done : ~(p.at >= Begun(bucket)) /\ p.at < bucket.resetAt
            BY <1>0, <2>2, <2>3
        <3> QED BY <2>3, <2>4, <3>1 DEF Tallied
    <2>6. NumbersLeft(done, bucket)
        BY <1>0, <2>2, <2>3 DEF NumbersLeft
    <2>7. Begun(bucket) <= now /\ now < bucket.resetAt
        BY <1>0, <2>2
    <2> QED BY <2>2, <2>5, <2>6, <2>7 DEF bucket, done
<1> QED BY <1>2, <1>3

LEMMA Admitted ==
    ASSUME NEW done, NEW bucket \in Bucket, Tallied(done, bucket, now), now \in Nat, NumbersLeft(done, bucket),
           bucket.count <= Limit, Begun(bucket) <= now, now < bucket.resetAt
    PROVE  Tallied(done \cup {[at |-> now, nth |-> bucket.count]}, bucket, now)
<1> DEFINE new == [at |-> now, nth |-> bucket.count]
<1>0. /\ Limit \in Nat \ {0} /\ Window \in Nat \ {0} /\ now \in Int
      /\ bucket.count \in 1..Limit /\ Begun(bucket) \in Int
    BY LimitsAssumption DEF Bucket, Begun
<1>1. new \in Passed /\ new.at = now /\ new.nth = bucket.count
    BY <1>0 DEF Passed
<1> HIDE DEF new
<1>2. now - Window < new.at /\ new.at < bucket.resetAt /\ new.at >= Begun(bucket)
    BY <1>0, <1>1
<1>3. \A p \in done : p.at >= Begun(bucket) => p.nth # new.nth
    <2>1. \A p \in done : p \in Passed
        BY DEF Tallied
    <2> QED BY <1>0, <1>1, <2>1 DEF NumbersLeft, Passed
<1>4. new.nth = 1 => new.at = Begun(bucket)
    BY <1>1 DEF NumbersLeft
<1>5. new.nth <= bucket.count
    BY <1>0, <1>1
<1>6. \A p, q \in done \cup {new} :
          (p.nth = q.nth /\ (p.at >= Begun(bucket) <=> q.at >= Begun(bucket))) => p = q
    BY <1>2, <1>3 DEF Tallied
<1>7. Tallied(done \cup {new}, bucket, now)
    BY <1>1, <1>2, <1>4, <1>5, <1>6 DEF Tallied
<1> QED BY <1>7 DEF new

LEMMA ChargeKeeps ==
    ASSUME LimitsInv, NEW policy, NEW process, NEW stores \in D!Counting(process), NEW passed \in BOOLEAN,
           D!Charge(policy, stores, passed)
    PROVE  LimitsInv'
<1> DEFINE keys == {[store |-> store, policy |-> policy] : store \in D!ToSet(stores)}
           key == [store |-> D!Last(stores), policy |-> policy]
<1>1. /\ passed = D!Allowed(D!Incremented(key))
      /\ buckets' = [k \in DOMAIN buckets \cup keys |-> IF k \in keys THEN D!Incremented(k) ELSE buckets[k]]
      /\ passes' = IF passed
                   THEN [k \in DOMAIN passes \cup {key} |->
                             IF k = key
                             THEN D!PassesOf(key) \cup {[at |-> now, nth |-> D!Incremented(key).count]}
                             ELSE passes[k]]
                   ELSE passes
      /\ now' = now
    BY DEF D!Charge
<1>2. key \in keys
    <2>1. D!Last(stores) \in D!ToSet(stores)
        BY DEF D!Counting, D!Last, D!ToSet
    <2> QED BY <2>1
<1> HIDE DEF keys, key
<1>3. \A k : LET bucket == D!Incremented(k)
             IN  /\ bucket \in Bucket /\ Begun(bucket) <= now /\ now < bucket.resetAt
                 /\ Tallied(D!PassesOf(k), bucket, now)
                 /\ bucket.count <= Limit => NumbersLeft(D!PassesOf(k), bucket)
    BY OneMoreCall
<1>4. DOMAIN passes' \subseteq DOMAIN buckets'
    BY <1>1, <1>2 DEF LimitsInv
<1>5. \A k \in DOMAIN buckets' : buckets'[k] \in Bucket /\ Begun(buckets'[k]) <= now'
    BY <1>1, <1>3 DEF LimitsInv
<1>6. ASSUME NEW k \in DOMAIN passes' PROVE Tallied(passes'[k], buckets'[k], now')
    <2>1. buckets'[k] = IF k \in keys THEN D!Incremented(k) ELSE buckets[k]
        BY <1>1, <1>4
    <2>2. CASE passed /\ k = key
        <3>1. D!Incremented(key).count <= Limit
            BY <1>1, <2>2 DEF D!Allowed
        <3>2. Tallied(D!PassesOf(key) \cup {[at |-> now, nth |-> D!Incremented(key).count]},
                      D!Incremented(key), now)
            BY <1>3, <3>1, Admitted DEF LimitsInv
        <3> QED BY <1>1, <1>2, <2>1, <2>2, <3>2
    <2>3. CASE ~(passed /\ k = key)
        <3>1. k \in DOMAIN passes /\ passes'[k] = passes[k] /\ D!PassesOf(k) = passes[k]
            BY <1>1, <2>3 DEF D!PassesOf
        <3> QED BY <1>1, <1>3, <2>1, <3>1 DEF LimitsInv
    <2> QED BY <2>2, <2>3
<1> QED BY <1>1, <1>4, <1>5, <1>6 DEF LimitsInv

LEMMA ElapseKeeps ==
    ASSUME LimitsInv, D!Elapse PROVE LimitsInv'
<1>0. Window \in Nat /\ now \in Nat
    BY LimitsAssumption DEF LimitsInv
<1>1. CASE D!Pass
    <2>1. /\ now' = now + 1 /\ buckets' = buckets
          /\ passes' = [key \in DOMAIN passes |-> {pass \in passes[key] : pass.at > now' - Window}]
        BY <1>1 DEF D!Pass
    <2>2. ASSUME NEW key \in DOMAIN buckets PROVE buckets[key] \in Bucket /\ Begun(buckets[key]) <= now'
        <3>1. buckets[key] \in Bucket /\ Begun(buckets[key]) <= now
            BY DEF LimitsInv
        <3>2. Begun(buckets[key]) \in Int
            BY <1>0, <3>1 DEF Bucket, Begun
        <3> QED BY <1>0, <2>1, <3>1, <3>2
    <2>3. ASSUME NEW key \in DOMAIN passes PROVE Tallied(passes'[key], buckets[key], now')
        <3>1. passes'[key] = {pass \in passes[key] : pass.at > now' - Window}
            BY <2>1
        <3>2. Tallied(passes[key], buckets[key], now)
            BY DEF LimitsInv
        <3>3. \A pass \in passes'[key] : now' - Window < pass.at
            <4>1. \A pass \in passes'[key] : pass.at \in Int /\ pass.at > now' - Window
                BY <3>1, <3>2 DEF Tallied, Passed
            <4> QED BY <1>0, <2>1, <4>1
        <3> QED BY <3>1, <3>2, <3>3 DEF Tallied
    <2>4. now' \in Nat /\ DOMAIN passes' = DOMAIN passes
        BY <1>0, <2>1
    <2>5. DOMAIN passes' \subseteq DOMAIN buckets'
        BY <2>1, <2>4 DEF LimitsInv
    <2>6. \A key \in DOMAIN buckets' : buckets'[key] \in Bucket /\ Begun(buckets'[key]) <= now'
        BY <2>1, <2>2
    <2>7. \A key \in DOMAIN passes' : Tallied(passes'[key], buckets'[key], now')
        BY <2>1, <2>3, <2>4
    <2> QED BY <2>4, <2>5, <2>6, <2>7 DEF LimitsInv
<1>2. ASSUME NEW process, D!Restart(process) PROVE LimitsInv'
    <2>1. /\ now' = now
          /\ buckets' = [key \in {k \in DOMAIN buckets : k.store # process} |-> buckets[key]]
          /\ passes' = [key \in {k \in DOMAIN passes : k.store # process} |-> passes[key]]
        BY <1>2 DEF D!Restart
    <2> QED BY <2>1 DEF LimitsInv
<1> QED BY <1>1, <1>2 DEF D!Elapse

LEMMA LimitsStep ==
    ASSUME LimitsInv, D!Next PROVE LimitsInv'
<1>1. CASE D!Credential \/ D!FindSession \/ D!Skip \/ D!Check \/ D!CarryOut \/ D!Fail \/ D!FailHalfway
    BY <1>1 DEF D!Credential, D!FindSession, D!Skip, D!Check, D!CarryOut, D!Fail, D!FailHalfway, LimitsInv
<1>2. ASSUME NEW process, D!Meters(process) PROVE LimitsInv'
    BY <1>2, ChargeKeeps DEF D!Meters
<1>3. ASSUME NEW door, NEW session, NEW lacks, D!Arrive(door, session, lacks) PROVE LimitsInv'
    BY <1>3 DEF D!Arrive, LimitsInv
<1>4. ASSUME NEW m, D!Becomes(m) PROVE LimitsInv'
    BY <1>4 DEF D!Becomes, LimitsInv
<1>5. ASSUME NEW x, D!ChangeRole(x) \/ D!ChangeScope(x) \/ D!Join PROVE \E m : D!Becomes(m)
    BY <1>5 DEF D!ChangeRole, D!ChangeScope, D!Join
<1> QED BY <1>1, <1>2, <1>3, <1>4, <1>5, ElapseKeeps DEF D!Next

LEMMA LimitsBegin == D!Init => LimitsInv
<1> SUFFICES ASSUME D!Init PROVE LimitsInv
    OBVIOUS
<1>1. now = 0 /\ buckets = <<>> /\ passes = <<>>
    BY DEF D!Init, D!LimitsInit
<1>2. DOMAIN buckets = {} /\ DOMAIN passes = {}
    BY <1>1
<1> QED BY <1>1, <1>2 DEF LimitsInv

-----------------------------------------------------------------------------
(* The theorems *)

EntranceInv == CallInv /\ LimitsInv

LEMMA EntranceBegins == EntranceInit => EntranceInv
<1> SUFFICES ASSUME EntranceInit PROVE EntranceInv
    OBVIOUS
<1>1. setting \in Settings /\ sessions = {} /\ call = D!Idle
    BY DEF EntranceInit, Init, D!Init
<1>2. member \in D!Member
    <2>1. member \in [active : BOOLEAN, role : setting.roles, scope : setting.scopes]
        BY DEF EntranceInit, D!Init
    <2>2. setting.roles \subseteq D!RoleNames /\ setting.scopes \subseteq D!Scopes
        BY <1>1, EntranceAssumption
    <2> QED BY <2>1, <2>2 DEF D!Member
<1>3. Sound(call, member)
    BY <1>1, IdleIsSound
<1> QED BY <1>1, <1>2, <1>3, LimitsBegin DEF EntranceInv, CallInv, OwnSessions, EntranceInit

LEMMA EntranceStep ==
    ASSUME EntranceInv, TypeOK, [AccountStep \/ CallStep]_everything
    PROVE  EntranceInv'
<1>0. CallInv /\ LimitsInv
    BY DEF EntranceInv
<1>1. CASE CallStep
    <2>1. UNCHANGED vars /\ D!Next
        BY <1>1, CallsKeepTheAccount DEF CallStep
    <2>2. sessions' = sessions /\ setting' = setting
        BY <2>1 DEF vars
    <2> QED BY <1>0, <2>1, <2>2, MemberStep, CallStepSound, LimitsStep DEF EntranceInv, CallInv, OwnSessions
<1>2. CASE AccountStep \/ UNCHANGED everything
    <2>1. [Next]_vars /\ UNCHANGED <<limitVars, member, call>>
        BY <1>2 DEF AccountStep, everything, calls
    <2>2. OwnSessions' /\ setting' = setting
        BY <1>0, <2>1, SessionsNumbered, SettingStays DEF CallInv
    <2> QED BY <1>0, <2>1, <2>2 DEF EntranceInv, CallInv, LimitsInv, limitVars
<1> QED BY <1>1, <1>2

LEMMA EntranceAlways == Spec /\ EntranceSpec => [](TypeOK /\ EntranceInv)
<1>1. TypeOK /\ EntranceInv /\ [AccountStep \/ CallStep]_everything => EntranceInv'
    BY EntranceStep
<1> QED BY <1>1, EntranceBegins, TypesHold, PTL DEF EntranceSpec

(* What carrying out a step knows. *)
LEMMA StepKnown ==
    ASSUME EntranceInv, call.state = "running"
    PROVE  LET door == Door(call)
           IN  /\ D!Step = door[call.at] /\ D!Step \in D!Steps
               /\ door \in D!ToSet(D!AllDoors) /\ call.at \in DOMAIN door
               /\ \A n \in 1..(call.at - 1) : Taken(call, n)
<1>1. call.door \in DOMAIN D!AllDoors /\ call.at \in DOMAIN Door(call)
    BY DEF EntranceInv, CallInv, Sound, Typed
<1> QED BY <1>1, StepsOfDoors DEF EntranceInv, CallInv, Sound, UnderWay, D!Step, Door

LEMMA Carried ==
    ASSUME EntranceInv, D!CarriesOut
    PROVE  /\ call.state = "running" /\ ClearedFor(call, member) /\ D!Step = Door(call)[call.at]
           /\ D!Step.kind = "operation"
           /\ D!Guarded(Door(call), call.at)
           /\ D!Step.permission # "" => D!Suffices(Door(call), call.at)
           /\ D!Performed = [Door(call)[call.at] EXCEPT !.gate = ""]
           /\ D!Performed.permission = D!Step.permission /\ D!Performed.changes = D!Step.changes
           /\ D!Performed.scoped = D!Step.scoped
<1>1. call.state = "running" /\ ClearedFor(call, member)
    BY DEF EntranceInv, CallInv, Sound, UnderWay, Ended, D!CarriesOut
<1>2. /\ D!Step = Door(call)[call.at] /\ D!Step \in D!Steps
      /\ Door(call) \in D!ToSet(D!AllDoors) /\ call.at \in DOMAIN Door(call)
    BY <1>1, StepKnown
<1>3. D!Step.kind = "operation"
    BY <1>1, <1>2 DEF ClearedFor
<1>4. D!Guarded(Door(call), call.at) /\ (D!Step.permission # "" => D!Suffices(Door(call), call.at))
    BY <1>2, <1>3, EntranceAssumption DEF D!DoorsAreSound, D!DoorsAreGuarded
<1>5. D!Performed = [D!Step EXCEPT !.gate = ""]
    BY DEF D!Performed
<1> QED BY <1>1, <1>2, <1>3, <1>4, <1>5, Ungated

(* The member who was entitled to a step is one whom the documents allow it. *)
LEMMA Documented ==
    ASSUME EntranceInv, D!CarriesOut, D!Performed.permission # ""
    PROVE  \E m \in call.seen : D!Entitled(m, D!Step, call.site) /\ D!Permits(m, D!Performed, call.site)
<1>1. PICK m \in call.seen : D!Entitled(m, D!Step, call.site)
    BY Carried DEF ClearedFor
<1>2. m \in D!Member /\ call.site \in D!Sites
    BY DEF EntranceInv, CallInv, Sound, Typed
<1>3. /\ m.active /\ D!HasPermission(m.role, D!Performed.permission)
      /\ D!Performed.scoped => call.site \in D!Visible(m)
    BY <1>1, Carried DEF D!Entitled
<1>4. D!Suffices(Door(call), call.at) /\ D!Performed = [Door(call)[call.at] EXCEPT !.gate = ""]
    BY Carried
<1>5. D!Permits(m, D!Performed, call.site)
    BY <1>2, <1>3, <1>4 DEF D!Suffices
<1> QED BY <1>1, <1>5

(***************************************************************************)
(* Whatever an operation does for a member, the member was entitled to it  *)
(* and allowed it by the documents at some time since the call arrived,    *)
(* however the member and the sessions change while it is answered         *)
(* (requireDbOrganizationAccess, assertSameOrigin, getCurrentUser).        *)
(***************************************************************************)
THEOREM CallsAreAllowed == EntranceSpec => CallsAllowed
<1>1. EntranceInv /\ D!CarriesOut =>
          \/ D!Step.permission = ""
          \/ \E m \in call.seen : D!Entitled(m, D!Step, call.site)
    BY Carried DEF ClearedFor
<1>2. EntranceInv /\ D!CarriesOut =>
          /\ D!Performed.permission # "" => /\ \E m \in call.seen : D!Permits(m, D!Performed, call.site)
                                            /\ call.session # 0
          /\ D!Performed \in D!Platform => call.lacks # "admin"
          /\ D!Performed.changes /\ call.lacks = "origin" => D!Performed \in D!Unprompted
    <2> SUFFICES ASSUME EntranceInv, D!CarriesOut
                 PROVE  /\ D!Performed.permission # "" =>
                              /\ \E m \in call.seen : D!Permits(m, D!Performed, call.site)
                              /\ call.session # 0
                        /\ D!Performed \in D!Platform => call.lacks # "admin"
                        /\ D!Performed.changes /\ call.lacks = "origin" => D!Performed \in D!Unprompted
        OBVIOUS
    <2>1. \A n \in 1..(call.at - 1) : Taken(call, n)
        BY Carried, StepKnown
    <2>2. /\ D!Performed.permission # "" => D!Behind(Door(call), call.at, "session")
          /\ D!Performed \in D!Platform => D!Behind(Door(call), call.at, "admin")
          /\ (D!Performed.changes /\ D!Performed \notin D!Unprompted)
                => D!Behind(Door(call), call.at, "origin")
        BY Carried DEF D!Guarded
    <2>3. /\ D!Behind(Door(call), call.at, "session") => call.session # 0
          /\ D!Behind(Door(call), call.at, "admin") => call.lacks # "admin"
          /\ D!Behind(Door(call), call.at, "origin") => call.lacks # "origin"
        BY <2>1 DEF Taken, D!Behind
    <2> QED BY <2>2, <2>3, Documented
<1> QED BY <1>1, <1>2, EntranceAlways, EntranceKeepsAccounts, PTL DEF CallsAllowed, D!CallsAllowed, D!CheckedFirst

(***************************************************************************)
(* What the documents list as limited is only carried out for a call that  *)
(* was counted, the signed calls before their signature is verified; and a *)
(* store lets no more than twice the limit less one pass in a period of    *)
(* one Window, although its window does not slide (checkRateLimit).        *)
(***************************************************************************)
THEOREM QuotasHold == EntranceSpec => QuotaHolds
<1>1. EntranceInv => D!WindowBound
    <2> SUFFICES ASSUME EntranceInv, NEW key \in DOMAIN passes
                 PROVE  D!Cardinality(passes[key]) <= 2 * Limit - 1
        BY DEF D!WindowBound
    <2>1. Tallied(passes[key], buckets[key], now) /\ buckets[key] \in Bucket
        BY DEF EntranceInv, LimitsInv
    <2> QED BY <2>1, TallyBound, OneCardinality
<1>2. EntranceInv => (D!Verifying => call.charged)
    <2> SUFFICES ASSUME EntranceInv, D!Verifying PROVE call.charged
        OBVIOUS
    <2>1. /\ call.state = "running" /\ D!Step.kind = "signature"
          /\ D!Last(Door(call)) # D!UpsertGscConnection
        BY DEF D!Verifying, Door
    <2>2. /\ D!Step = Door(call)[call.at] /\ Door(call) \in D!ToSet(D!AllDoors) /\ call.at \in DOMAIN Door(call)
          /\ \A n \in 1..(call.at - 1) : Taken(call, n)
        BY <2>1, StepKnown
    <2>3. D!Behind(Door(call), call.at, "quota")
        BY <2>1, <2>2, EntranceAssumption DEF D!DoorsAreSound, D!DoorsAreGuarded
    <2> QED BY <2>2, <2>3 DEF Taken, D!Behind
<1>3. EntranceInv /\ D!CarriesOut /\ D!Performed \in D!Limited => call.charged
    <2> SUFFICES ASSUME EntranceInv, D!CarriesOut, D!Performed \in D!Limited PROVE call.charged
        OBVIOUS
    <2>1. D!Behind(Door(call), call.at, "quota")
        BY Carried DEF D!Guarded
    <2> QED BY <2>1, Carried, StepKnown DEF Taken, D!Behind
<1> QED BY <1>1, <1>2, <1>3, EntranceAlways, EntranceKeepsAccounts, PTL DEF QuotaHolds, D!QuotaHolds

(***************************************************************************)
(* What was carried out before an operation that is refused or fails has   *)
(* changed nothing, although each operation checks the member anew and the *)
(* member may change between them.  The operation that fails has changed   *)
(* nothing either, but for the five that may fail after a change of their  *)
(* own is committed (ChangeMayStand: an answer to a link, a start, a       *)
(* rollback, a retry, a rescan).  And a page makes no read that is refused *)
(* to the member it found.                                                 *)
(***************************************************************************)
THEOREM RefusedFirst == EntranceSpec => []RefusalsComeFirst
<1>1. EntranceInv => RefusalsComeFirst
    <2> SUFFICES ASSUME EntranceInv PROVE D!RefusedMeansUnchanged /\ D!PagesOpen
        BY DEF RefusalsComeFirst, D!RefusalsComeFirst
    <2>1. Typed(call, member) /\ Ended(call)
        BY DEF EntranceInv, CallInv, Sound
    <2>2. ASSUME call.state = "refused", call.role # "" PROVE D!Cardinality(call.seen) > 1
        <3>1. IsFiniteSet(call.seen)
            BY <2>1 DEF Typed
        <3>2. PICK x, y \in call.seen : x # y
            BY <2>1, <2>2 DEF Ended
        <3>3. Cardinality(call.seen) # 0 /\ Cardinality(call.seen) # 1 /\ Cardinality(call.seen) \in Nat
            BY <3>1, <3>2, FS_EmptySet, FS_Singleton, FS_CardinalityType
        <3> QED BY <3>3, OneCardinality
    <2> QED BY <2>1, <2>2 DEF Ended, MayStand, D!RefusedMeansUnchanged, D!PagesOpen
<1> QED BY <1>1, EntranceAlways, EntranceKeepsAccounts, PTL

(* The account, the call and the buckets are well typed, and a call is at  *)
(* a step of its door.                                                     *)
THEOREM EntranceTypesHold == EntranceSpec => []EntranceTypes
<1>1. TypeOK /\ EntranceInv => EntranceTypes
    <2> SUFFICES ASSUME TypeOK, EntranceInv PROVE D!TypeOK
        BY DEF EntranceTypes
    <2>1. member \in D!Member /\ Typed(call, member)
        BY DEF EntranceInv, CallInv, Sound
    <2>2. \A key \in DOMAIN buckets : buckets[key].count \in 1..(Limit + 1)
        BY DEF EntranceInv, LimitsInv, Bucket
    <2> QED BY <2>1, <2>2 DEF Typed, Door, D!TypeOK
<1> QED BY <1>1, EntranceAlways, EntranceKeepsAccounts, PTL
================================================================================
