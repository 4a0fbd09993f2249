-------------------------- MODULE UserProofs --------------------------
(***************************************************************************)
(* Proofs about what is a user's: the sessions of the mini programs, for   *)
(* any number of users, programs, requests, sessions and pairs of tokens,  *)
(* and a goal, for any requests, workers, days, tasks, limits and tries.    *)
(***************************************************************************)
EXTENDS Sessions, Goals, FiniteSetTheorems, WellFoundedInduction, TLAPS

(* Sessions.                                                               *)

SessionRow == [user : Users \cup {None}, pair : Pairs \cup {0}, status : SessionStatus]
Ended == {"over", "revoked", "deleted"}

\* A request that is renewing the pair of its program.
Renewing(r) == call[r].at \in {"refresh", "rotate", "renewed", "refused"}

\* A pair that somebody holds has a session, which is a user's.
Issued ==
  /\ \A p \in Pairs : sessionOf[p] # 0 => session[sessionOf[p]].status # "none"
  /\ \A s \in Ids : session[s].status # "none" => session[s].user \in Users
  /\ \A c \in Clients : login[c].at = "made" => sessionOf[login[c].pair] # 0
  /\ \A r \in Calls :
       /\ call[r].at = "sent" /\ call[r].pair # 0 => sessionOf[call[r].pair] # 0
       /\ Renewing(r) => call[r].pair # 0 /\ sessionOf[call[r].pair] # 0

\* A session is used by one program, or by the login that has just made it.
Uses(c, s) ==
  \/ stored[c] # 0 /\ sessionOf[stored[c]] = s
  \/ \E r \in CallsOf(c) : Renewing(r) /\ sessionOf[call[r].pair] = s
Gets(c, s) == login[c].at = "made" /\ sessionOf[login[c].pair] = s
Apart == \A c, d \in Clients, s \in Ids :
  /\ Uses(c, s) /\ Uses(d, s) => c = d
  /\ Gets(c, s) /\ Gets(d, s) => c = d
  /\ ~(Uses(c, s) /\ Gets(d, s))

\* A program renews once at a time.
OneRenews ==
  /\ \A r \in Calls : Renewing(r) => refreshing[Caller[r]]
  /\ \A r, q \in Calls : Renewing(r) /\ Renewing(q) /\ Caller[r] = Caller[q] => r = q

\* What a program is about to store is what its session takes.
Takes(p) == session[sessionOf[p]].pair = p
Newest ==
  /\ \A c \in Clients : login[c].at = "made" => Takes(login[c].pair)
  /\ \A r \in Calls : call[r].at = "renewed" => Takes(call[r].pair)

\* What a program does, by what it holds: whoever is logged out has no token, and
\* while it renews or logs out, it holds the pair that it renews or ends.
Way(c) ==
  /\ login[c] # Silent => ~loggedIn[c]
  /\ ~torn[c] =>
       /\ ~loggedIn[c] => stored[c] = 0
       /\ refreshing[c] => logout[c] = Silent /\ stored[c] # 0
       /\ logout[c] # Silent => stored[c] # 0
       /\ logout[c].at = "sent" => logout[c].pair = stored[c]
InHand(r) ==
  ~torn[Caller[r]] /\ Renewing(r) /\ call[r].at # "renewed" => call[r].pair = stored[Caller[r]]
Working == (\A c \in Clients : Way(c)) /\ (\A r \in Calls : InHand(r))

\* Whoever is logging in has a binding, or lost it or its account meanwhile.
FoundIsBound ==
  /\ \A c \in Clients : login[c].at = "found" =>
       LET u == login[c].user IN binding[u] # None \/ mixed[u] \/ account[u] = "deleted"
  /\ \A s \in Ids : session[s].status = "active" => account[session[s].user] # "deleted"

Tokens == SessionsTypeOK /\ Issued /\ Apart /\ OneRenews
Programs == Newest /\ Working /\ HoldsCurrent /\ LogoutRevokes
Bindings == FoundIsBound /\ ActiveIsBound
SessionsInv == Tokens /\ Programs /\ Bindings

(***************************************************************************)
(* Data.                                                                   *)
(***************************************************************************)
\* What the proofs use of the assumption on the constants.
LEMMA Owners ==
  /\ \A c \in Clients : WechatOf[c] \in Wechats /\ WechatOf[c] # None
  /\ \A r \in Calls : Caller[r] \in Clients
  /\ MaxSessions \in Nat /\ MaxPairs \in Nat /\ MaxMishaps \in Nat
BY SessionsAssumption

\* Sessions and pairs are numbers from 1; 0 is none of them.
LEMMA Positive == (\A s \in Ids : s \in Nat /\ s # 0) /\ (\A p \in Pairs : p \in Nat /\ p # 0)
BY Owners DEF Ids, Pairs

\* What a request, a login and a logout remember, by where they are.
LEMMA CallIs ==
  ASSUME call \in [Calls -> Call], NEW r \in Calls
  PROVE  /\ call[r].at \in {"idle", "sent", "refresh", "rotate", "renewed", "refused", "admitted",
                            "ok", "401", "queued"}
         /\ call[r].at = "idle" => call[r] = Silent
         /\ call[r].at # "idle" => call[r].kind \in Kind
         /\ Renewing(r) \/ call[r].at = "sent" => call[r].pair \in Pairs \cup {0}
         /\ call[r].at = "admitted" => call[r].user \in Users
<1>1. call[r] \in Call
  OBVIOUS
<1> QED
  BY <1>1 DEF Call, Silent, Renewing
LEMMA LoginIs ==
  ASSUME login \in [Clients -> Login], NEW c \in Clients
  PROVE  /\ login[c].at \in {"idle", "asked", "offered", "found", "made"}
         /\ login[c].at = "idle" <=> login[c] = Silent
         /\ login[c].at = "found" => login[c].user \in Users
         /\ login[c].at = "made" => login[c].pair \in Pairs
<1>1. login[c] \in Login
  OBVIOUS
<1> QED
  BY <1>1 DEF Login, Silent
LEMMA LogoutIs ==
  ASSUME logout \in [Clients -> Logout], NEW c \in Clients
  PROVE  /\ logout[c].at \in {"idle", "back", "sent"}
         /\ logout[c].at = "idle" <=> logout[c] = Silent
         /\ logout[c].at = "sent" => logout[c].pair \in Pairs
<1>1. logout[c] \in Logout
  OBVIOUS
<1> QED
  BY <1>1 DEF Logout, Silent

(***************************************************************************)
(* How the rows of the sessions change.                                    *)
(***************************************************************************)
\* Sessions end at most.
Ending ==
  /\ sessionOf' = sessionOf
  /\ session' \in [Ids -> SessionRow]
  /\ \A s \in Ids : /\ session'[s].user = session[s].user /\ session'[s].pair = session[s].pair
                    /\ session'[s].status = session[s].status \/ session'[s].status \in Ended
                    /\ session'[s].status # "none" => session[s].status # "none" \/ session[s].user \in Users

\* A login makes the session s with the pair p.
Creates(c, s, p) ==
  /\ login[c].at = "found" /\ account[login[c].user] = "active"
  /\ session[s].status = "none" /\ sessionOf[p] = 0
  /\ session' = [session EXCEPT ![s] = [user |-> login[c].user, pair |-> p, status |-> "active"]]
  /\ sessionOf' = [sessionOf EXCEPT ![p] = s]
  /\ login' = [login EXCEPT ![c] = [at |-> "made", pair |-> p]]
  /\ UNCHANGED <<account, binding, mixed, expired, call, logout, torn, program, mishaps>>

\* A request renews the pair of its session by p.
Renews(r, p) ==
  LET s == sessionOf[call[r].pair] IN
  /\ call[r].at = "rotate" /\ sessionOf[p] = 0
  /\ session' = [session EXCEPT ![s].pair = p]
  /\ sessionOf' = [sessionOf EXCEPT ![p] = s]
  /\ call' = [call EXCEPT ![r] = [at |-> "renewed", kind |-> call[r].kind, pair |-> p]]
  /\ UNCHANGED <<account, binding, mixed, expired, login, logout, torn, program, mishaps>>

Unmade == UNCHANGED <<session, sessionOf>>

\* The renewal of a row fails, or it takes a pair that is new.
LEMMA RefreshWritesDoes ==
  ASSUME NEW r \in Calls, RefreshWrites(r)
  PROVE  \/ Unmade /\ CallStep(r, Stage(r, "refused"))
         \/ \E p \in Pairs : Renews(r, p)
<1>1. ASSUME NEW p \in Pairs
      PROVE  [Stage(r, "renewed") EXCEPT !.pair = p] = [at |-> "renewed", kind |-> call[r].kind, pair |-> p]
  BY DEF Stage
<1>2. CASE session[sessionOf[call[r].pair]].status = "deleted" \/ ~\E p \in Pairs : Fresh(p)
  BY <1>2 DEF RefreshWrites, Unmade
<1>3. CASE ~(session[sessionOf[call[r].pair]].status = "deleted" \/ ~\E p \in Pairs : Fresh(p))
  <2> DEFINE t == sessionOf[call[r].pair]
  <2>1. PICK p \in Pairs : /\ Fresh(p)
                           /\ session' = [session EXCEPT ![t].pair = p]
                           /\ Issues(p, t)
                           /\ CallStep(r, [Stage(r, "renewed") EXCEPT !.pair = p])
    BY <1>3 DEF RefreshWrites
  <2>2. call' = [call EXCEPT ![r] = [at |-> "renewed", kind |-> call[r].kind, pair |-> p]]
    BY <2>1, <1>1 DEF CallStep
  <2>3. Renews(r, p)
    BY <2>1, <2>2 DEF RefreshWrites, Fresh, Issues, CallStep, Renews, program
  <2> QED
    BY <2>3
<1> QED
  BY <1>2, <1>3

LEMMA CreateSessionDoes ==
  ASSUME NEW c \in Clients, CreateSession(c)
  PROVE  \E s \in Ids, p \in Pairs : Creates(c, s, p)
BY DEF CreateSession, Creatable, FirstFree, Fresh, Issues, LoginStep, Creates

\* What every step does to the rows of the sessions.
LEMMA RowsChange ==
  ASSUME SessionsTypeOK, Issued, [SessionsNext]_sessionsVars
  PROVE  \/ Ending
         \/ \E c \in Clients, s \in Ids, p \in Pairs : CreateSession(c) /\ Creates(c, s, p)
         \/ \E r \in Calls, p \in Pairs : RefreshWrites(r) /\ Renews(r, p)
<1> DEFINE Goal == \/ Ending
                   \/ \E c \in Clients, s \in Ids, p \in Pairs : CreateSession(c) /\ Creates(c, s, p)
                   \/ \E r \in Calls, p \in Pairs : RefreshWrites(r) /\ Renews(r, p)
<1>0. session \in [Ids -> SessionRow]
  BY DEF SessionsTypeOK, SessionRow
<1>1. Unmade => Goal
  BY <1>0 DEF Unmade, Ending
<1>2. ASSUME NEW u \in Users, DeleteAccount(u) PROVE Ending
  BY <1>0, <1>2 DEF DeleteAccount, Ending, SessionRow, SessionStatus, Ended
<1>3. ASSUME NEW s \in Ids, EndOfSession(s) PROVE Ending
  BY <1>0, <1>3 DEF EndOfSession, Ending, SessionRow, SessionStatus, Ended
<1>4. ASSUME NEW r \in Calls, Unbind(r) PROVE Ending
  <2>1. call[r].user \in Users
    BY <1>4, CallIs DEF Unbind, SessionsTypeOK
  <2> QED
    BY <1>0, <1>4, <2>1 DEF Unbind, Revoked, Ending, SessionRow, SessionStatus, Ended
<1>5. ASSUME NEW c \in Clients, LogoutWechatMiniProgram(c) PROVE Ending
  BY <1>0, <1>5 DEF LogoutWechatMiniProgram, Ending, SessionRow, SessionStatus, Ended
<1>6. ASSUME NEW c \in Clients, CreateSession(c)
      PROVE  \E s \in Ids, p \in Pairs : Creates(c, s, p)
  BY <1>6, CreateSessionDoes
<1>7. ASSUME NEW r \in Calls, RefreshWrites(r)
      PROVE  Unmade \/ \E p \in Pairs : Renews(r, p)
  BY <1>7, RefreshWritesDoes
<1> HIDE DEF Goal
<1>8. ASSUME NEW u \in Users, WebRegister(u) \/ WebUnbind(u) \/ DeleteAccount(u) PROVE Goal
  BY <1>1, <1>2, <1>8 DEF WebRegister, WebUnbind, Unmade, Goal
<1>9. ASSUME NEW c \in Clients,
             \/ HandleWechatLogin(c) \/ LoginWechatMiniProgram(c) \/ OfferExpires(c)
             \/ LoggedIn(c) \/ LoginFails(c) \/ LoseLogin(c)
             \/ \E u \in Users : Bind(c, u)
             \/ HandleLogout(c) \/ LoseLogout(c) \/ LoggedOut(c) \/ Restart(c)
      PROVE  Unmade
  BY <1>9 DEF HandleWechatLogin, LoginWechatMiniProgram, OfferExpires, LoggedIn, LoginFails, LoseLogin,
     Bind, HandleLogout, LoseLogout, LoggedOut, Restart, Unmade, rows
<1>10. ASSUME NEW r \in Calls,

                              \/ Guard(r) \/ UnbindRefused(r) \/ Answered(r) \/ Unauthorized(r) \/ RefreshReads(r) \/ Renewed(r)
              \/ RefreshFails(r) \/ Lose(r) \/ LoseRefresh(r)
              \/ \E kind \in Kind : Request(r, kind)
       PROVE  Unmade
  BY <1>10 DEF Guard, UnbindRefused, Answered, Unauthorized, RefreshReads, Renewed, RefreshFails,
     Lose, LoseRefresh,
     Request, Unmade, rows
<1>11. ASSUME NEW p \in Pairs, Expire(p) PROVE Unmade
  BY <1>11 DEF Expire, Unmade, rows
<1>12. ASSUME UNCHANGED sessionsVars PROVE Unmade
  BY <1>12 DEF sessionsVars, rows, Unmade
<1>13. ASSUME NEW c \in Clients, CreateSession(c) PROVE Goal
  BY <1>6, <1>13 DEF Goal
<1>14. ASSUME NEW r \in Calls, RefreshWrites(r) PROVE Goal
  BY <1>1, <1>7, <1>14 DEF Goal
<1>15. Ending => Goal
  BY DEF Goal
<1>16. ASSUME NEW r \in Calls, CallSteps(r) PROVE Goal
  BY <1>1, <1>4, <1>10, <1>14, <1>15, <1>16 DEF CallSteps
<1>17. ASSUME NEW c \in Clients,
              \/ HandleWechatLogin(c) \/ LoginWechatMiniProgram(c) \/ OfferExpires(c) \/ CreateSession(c)
              \/ LoggedIn(c) \/ LoginFails(c) \/ LoseLogin(c)
              \/ \E u \in Users : Bind(c, u)
              \/ HandleLogout(c) \/ LogoutWechatMiniProgram(c) \/ LoseLogout(c) \/ LoggedOut(c)
              \/ Restart(c)
       PROVE  Goal
  BY <1>17, <1>1, <1>5, <1>9, <1>13, <1>15
<1>18. ASSUME NEW r \in Calls,
              \/ CallSteps(r) \/ Lose(r) \/ LoseRefresh(r)
              \/ \E kind \in Kind : Request(r, kind)
       PROVE  Goal
  BY <1>18, <1>1, <1>10, <1>16
<1>19. ASSUME NEW s \in Ids, EndOfSession(s) PROVE Goal
  BY <1>3, <1>15, <1>19
<1>20. ASSUME NEW p \in Pairs, Expire(p) PROVE Goal
  BY <1>1, <1>11, <1>20
<1>21. Goal
  <2>1. CASE SessionsNext
    BY <2>1, <1>8, <1>17, <1>18, <1>19, <1>20 DEF SessionsNext
  <2>2. CASE UNCHANGED sessionsVars
    BY <2>2, <1>12, <1>1
  <2> QED
    BY <2>1, <2>2
<1> QED
  BY <1>21 DEF Goal


(***************************************************************************)
(* Types.                                                                  *)
(***************************************************************************)
Shape ==
  /\ account \in [Users -> {"none", "active", "deleted"}]
  /\ binding \in [Users -> Wechats \cup {None}]
  /\ loggedIn \in [Clients -> BOOLEAN]
  /\ refreshing \in [Clients -> BOOLEAN]
  /\ call \in [Calls -> Call]
  /\ login \in [Clients -> Login]
  /\ logout \in [Clients -> Logout]
  /\ torn \in [Clients -> BOOLEAN]
  /\ mixed \in [Users -> BOOLEAN]
  /\ mishaps \in 0..MaxMishaps

\* What steps put into the variables is of their types.
LEMMA StepsAre ==
  /\ Silent \in Call /\ Silent \in Login /\ Silent \in Logout
  /\ \A k \in Kind, at \in {"ok", "401", "queued"} : [at |-> at, kind |-> k] \in Call
  /\ \A k \in Kind, p \in Pairs \cup {0}, at \in {"sent", "refresh", "rotate", "renewed", "refused"} :
       [at |-> at, kind |-> k, pair |-> p] \in Call
  /\ \A k \in Kind, u \in Users : [at |-> "admitted", kind |-> k, user |-> u] \in Call
  /\ [at |-> "asked"] \in Login /\ [at |-> "offered"] \in Login
  /\ \A u \in Users : [at |-> "found", user |-> u] \in Login
  /\ \A p \in Pairs : [at |-> "made", pair |-> p] \in Login
  /\ [at |-> "back"] \in Logout /\ \A p \in Pairs : [at |-> "sent", pair |-> p] \in Logout
BY DEF Silent, Call, Login, Logout

\* What a login step, a step of a request and logging out do to the types.
LEMMA LoginShape ==
  ASSUME Shape, NEW c \in Clients, NEW v \in Login, LoginStep(c, v)
  PROVE  /\ login' \in [Clients -> Login]
         /\ call' = call /\ logout' = logout /\ torn' = torn /\ mixed' = mixed
BY DEF Shape, LoginStep
LEMMA CallShape ==
  ASSUME Shape, NEW r \in Calls, NEW v \in Call, CallStep(r, v)
  PROVE  call' \in [Calls -> Call] /\ loggedIn' = loggedIn /\ login' = login
BY DEF Shape, CallStep
LEMMA LogsOutShape ==
  ASSUME SessionsTypeOK, NEW c \in Clients, LogsOut(c)
  PROVE  /\ loggedIn' \in [Clients -> BOOLEAN] /\ logout' \in [Clients -> Logout]
         /\ torn' \in [Clients -> BOOLEAN]
<1>1. stored[c] # 0 => [at |-> "sent", pair |-> stored[c]] \in Logout
  BY StepsAre DEF SessionsTypeOK
<1>2. loggedIn' \in [Clients -> BOOLEAN] /\ torn' \in [Clients -> BOOLEAN]
  BY DEF LogsOut, SessionsTypeOK
<1>3. logout' \in [Clients -> Logout]
  BY <1>1 DEF LogsOut, SessionsTypeOK
<1> QED
  BY <1>2, <1>3

\* The steps of requests keep the types.
LEMMA CallsShape ==
  ASSUME SessionsTypeOK, Issued, NEW r \in Calls,
         \/ CallSteps(r) \/ Lose(r) \/ LoseRefresh(r)
         \/ \E kind \in Kind : Request(r, kind)
  PROVE  Shape'
<1>0. Shape /\ stored \in [Clients -> Pairs \cup {0}] /\ Caller[r] \in Clients
  BY Owners DEF SessionsTypeOK, Shape
<1>1. call \in [Calls -> Call]
  BY DEF SessionsTypeOK
<1>2. ASSUME NEW kind \in Kind, Request(r, kind) PROVE Shape'
  BY <1>0, <1>2, StepsAre, CallShape DEF Request, rows, Shape
<1>3. CASE Guard(r)
  <2>1. call[r].pair \in Pairs \cup {0} /\ call[r].kind \in Kind
    BY <1>1, <1>3, CallIs DEF Guard
  <2>2. SessionActive(call[r].pair) => session[sessionOf[call[r].pair]].user \in Users
    BY <1>3, <2>1 DEF Guard, SessionActive, Issued, SessionsTypeOK
  <2>3. PICK v \in Call : CallStep(r, v)
    BY <1>3, <2>1, <2>2, StepsAre DEF Guard
  <2>4. call' \in [Calls -> Call] /\ loggedIn' = loggedIn /\ login' = login
    BY <1>0, <2>3, CallShape
  <2> QED
    BY <1>0, <1>3, <2>4 DEF Guard, rows, Shape
<1>3a. CASE UnbindRefused(r)
  <2>1. CallStep(r, [at |-> "401", kind |-> "unbind"]) /\ [at |-> "401", kind |-> "unbind"] \in Call
    BY <1>3a, StepsAre DEF UnbindRefused, Kind
  <2>2. call' \in [Calls -> Call] /\ loggedIn' = loggedIn /\ login' = login
    BY <1>0, <2>1, CallShape
  <2> QED
    BY <1>0, <1>3a, <2>2 DEF UnbindRefused, rows, Shape
<1>4. CASE Unbind(r)
  <2>1. CallStep(r, [at |-> "ok", kind |-> "unbind"]) /\ [at |-> "ok", kind |-> "unbind"] \in Call
    BY <1>4, StepsAre DEF Unbind, Kind
  <2>2. call' \in [Calls -> Call] /\ loggedIn' = loggedIn /\ login' = login
    BY <1>0, <2>1, CallShape
  <2>3. call[r].user \in Users
    BY <1>1, <1>4, CallIs DEF Unbind
  <2>4. binding' \in [Users -> Wechats \cup {None}]
    BY <1>0, <1>4, <2>3 DEF Unbind, Shape
  <2>5. mixed' \in [Users -> BOOLEAN]
    <3>1. (mixed[call[r].user] \/ LoggingIn(call[r].user)) \in BOOLEAN
      BY <1>0, <2>3 DEF Shape, LoggingIn
    <3> QED
      BY <1>0, <1>4, <2>3, <3>1 DEF Unbind, Shape
  <2> QED
    BY <1>0, <1>4, <2>2, <2>4, <2>5 DEF Unbind, Shape
<1>5. CASE Answered(r)
  BY <1>0, <1>5, LogsOutShape, StepsAre DEF Answered, rows, Shape
<1>6. CASE Unauthorized(r)
  <2> DEFINE c == Caller[r]
             kind == call[r].kind
  <2>1. kind \in Kind
    BY <1>1, <1>6, CallIs DEF Unauthorized
  <2>2. call' \in [Calls -> Call] /\ loggedIn' = loggedIn /\ login' = login
    BY <1>0, <1>6, <2>1, StepsAre, CallShape DEF Unauthorized
  <2>3. refreshing' \in [Clients -> BOOLEAN] /\ torn' \in [Clients -> BOOLEAN]
    BY <1>0, <1>6 DEF Unauthorized, Shape
  <2> QED
    BY <1>0, <1>6, <2>2, <2>3 DEF Unauthorized, rows, Shape
<1>7. CASE RefreshReads(r) \/ RefreshWrites(r) \/ LoseRefresh(r)
  <2>1. call[r].kind \in Kind /\ call[r].pair \in Pairs \cup {0}
    BY <1>1, <1>7, CallIs DEF RefreshReads, RefreshWrites, LoseRefresh, Renewing
  <2>2. \A at \in {"rotate", "refused", "renewed"} : Stage(r, at) \in Call
    BY <2>1, StepsAre DEF Stage
  <2>3. ASSUME NEW p \in Pairs PROVE [Stage(r, "renewed") EXCEPT !.pair = p] \in Call
    <3>1. [Stage(r, "renewed") EXCEPT !.pair = p] = [at |-> "renewed", kind |-> call[r].kind, pair |-> p]
      BY DEF Stage
    <3>2. [at |-> "renewed", kind |-> call[r].kind, pair |-> p] \in Call
      BY <2>1, StepsAre
    <3> QED
      BY <3>1, <3>2
  <2>4. PICK v \in Call : CallStep(r, v)
    BY <1>7, <2>2, <2>3 DEF RefreshReads, RefreshWrites, LoseRefresh
  <2>5. call' \in [Calls -> Call] /\ loggedIn' = loggedIn /\ login' = login
    BY <1>0, <2>4, CallShape
  <2>6. torn' \in [Clients -> BOOLEAN] /\ mishaps' \in 0..MaxMishaps
    <3>1. CASE RefreshReads(r) \/ RefreshWrites(r)
      BY <1>0, <3>1 DEF RefreshReads, RefreshWrites, Shape
    <3>2. CASE LoseRefresh(r)
      BY <1>0, <3>2, Owners DEF LoseRefresh, Shape
    <3> QED
      BY <1>7, <3>1, <3>2
  <2> QED
    BY <1>0, <1>7, <2>5, <2>6 DEF RefreshReads, RefreshWrites, LoseRefresh, rows, Shape
<1>8. CASE Renewed(r)
  <2>1. call[r].pair \in Pairs \cup {0}
    BY <1>1, <1>8, CallIs DEF Renewed, Renewing
  <2>2. \A q \in Calls : call[q].at \in {"renewed", "queued"}
          => [at |-> "sent", kind |-> call[q].kind, pair |-> call[r].pair] \in Call
    BY <1>1, <2>1, CallIs, StepsAre
  <2>3. call' \in [Calls -> Call]
    BY <1>1, <1>8, <2>2 DEF Renewed, Released
  <2> QED
    BY <1>0, <1>8, <2>3 DEF Renewed, rows, Shape
<1>9. CASE RefreshFails(r)
  <2>1. call' \in [Calls -> Call]
    BY <1>1, <1>9, StepsAre DEF RefreshFails, Released
  <2> QED
    BY <1>0, <1>9, <2>1 DEF RefreshFails, rows, Shape
<1>10. CASE Lose(r)
  BY <1>0, <1>10, StepsAre, CallShape, Owners DEF Lose, rows, Shape
<1> QED
  BY <1>2, <1>3, <1>3a, <1>4, <1>5, <1>6, <1>7, <1>8, <1>9, <1>10 DEF CallSteps


\* Steps of a program, of a user's account and of time keep the types.
LEMMA ProgramsShape ==
  ASSUME SessionsTypeOK, NEW c \in Clients,
         \/ HandleWechatLogin(c) \/ LoginWechatMiniProgram(c) \/ OfferExpires(c) \/ CreateSession(c)
         \/ LoggedIn(c) \/ LoginFails(c) \/ LoseLogin(c)
         \/ \E u \in Users : Bind(c, u)
         \/ HandleLogout(c) \/ LogoutWechatMiniProgram(c) \/ LoseLogout(c) \/ LoggedOut(c)
         \/ Restart(c)
  PROVE  Shape'
<1>0. Shape
  BY DEF SessionsTypeOK, Shape
<1>1. CASE HandleWechatLogin(c) \/ OfferExpires(c) \/ LoginFails(c)
  <2>1. PICK v \in Login : LoginStep(c, v)
    BY <1>1, StepsAre DEF HandleWechatLogin, OfferExpires, LoginFails
  <2> QED
    BY <1>0, <1>1, <2>1, LoginShape DEF HandleWechatLogin, OfferExpires, LoginFails, Shape, rows, program
<1>2. CASE LoginWechatMiniProgram(c)
  <2>1. PICK w \in exchangeWechatCode(c) :
          LoginStep(c, IF w = None THEN Silent
                       ELSE IF findActiveWechatBinding(w) = {} THEN [at |-> "offered"]
                       ELSE [at |-> "found", user |-> CHOOSE u \in findActiveWechatBinding(w) : TRUE])
    BY <1>2 DEF LoginWechatMiniProgram
  <2> DEFINE u == CHOOSE u \in findActiveWechatBinding(w) : TRUE
             v == IF w = None THEN Silent
                  ELSE IF findActiveWechatBinding(w) = {} THEN [at |-> "offered"]
                  ELSE [at |-> "found", user |-> u]
  <2>2. findActiveWechatBinding(w) # {} => u \in Users
    BY DEF findActiveWechatBinding
  <2> HIDE DEF u
  <2>3. v \in Login
    BY <2>2, StepsAre
  <2>4. LoginStep(c, v)
    BY <2>1 DEF u
  <2> HIDE DEF v
  <2> QED
    BY <1>0, <1>2, <2>3, <2>4, LoginShape DEF LoginWechatMiniProgram, Shape, rows, program
<1>3. CASE CreateSession(c)
  <2>1. PICK p \in Pairs : LoginStep(c, [at |-> "made", pair |-> p])
    BY <1>3 DEF CreateSession
  <2>2. [at |-> "made", pair |-> p] \in Login
    BY StepsAre
  <2> QED
    BY <1>0, <1>3, <2>1, <2>2, LoginShape DEF CreateSession, Shape, program
<1>4. CASE LoggedIn(c)
  BY <1>0, <1>4, StepsAre, LoginShape DEF LoggedIn, Shape, rows
<1>5. CASE LoseLogin(c)
  BY <1>0, <1>5, StepsAre, LoginShape, Owners DEF LoseLogin, Shape, rows, program
<1>6. ASSUME NEW u \in Users, Bind(c, u) PROVE Shape'
  <2>1. [at |-> "found", user |-> u] \in Login
    BY StepsAre
  <2> QED
    BY <1>0, <1>6, <2>1, LoginShape, Owners DEF Bind, upsertWechatBindingForUser, Shape, program
<1>7. CASE HandleLogout(c)
  BY <1>0, <1>7, LogsOutShape DEF HandleLogout, Shape, rows
<1>8. CASE LogoutWechatMiniProgram(c)
  BY <1>0, <1>8, StepsAre DEF LogoutWechatMiniProgram, Shape, program
<1>9. CASE LoseLogout(c)
  BY <1>0, <1>9, StepsAre, Owners DEF LoseLogout, Shape, rows, program
<1>10. CASE LoggedOut(c)
  BY <1>0, <1>10, StepsAre DEF LoggedOut, Shape, rows
<1>11. CASE Restart(c)
  <2>1. call' \in [Calls -> Call]
    BY <1>0, <1>11, StepsAre DEF Restart, Shape
  <2>2. loggedIn' \in [Clients -> BOOLEAN] /\ refreshing' \in [Clients -> BOOLEAN]
    BY <1>0, <1>11 DEF Restart, Shape
  <2>3. login' \in [Clients -> Login] /\ logout' \in [Clients -> Logout] /\ mishaps' \in 0..MaxMishaps
    BY <1>0, <1>11, StepsAre, Owners DEF Restart, Shape
  <2>4. torn' \in [Clients -> BOOLEAN]
    <3>1. (torn[c] \/ refreshing[c] \/ logout[c] # Silent) \in BOOLEAN
      BY <1>0 DEF Shape
    <3> QED
      BY <1>0, <1>11, <3>1 DEF Restart, Shape
  <2> QED
    BY <1>0, <1>11, <2>1, <2>2, <2>3, <2>4 DEF Restart, Shape, rows
<1> QED
  BY <1>1, <1>2, <1>3, <1>4, <1>5, <1>6, <1>7, <1>8, <1>9, <1>10, <1>11
LEMMA AccountsShape ==
  ASSUME SessionsTypeOK,
         \/ \E u \in Users : WebRegister(u) \/ WebUnbind(u) \/ DeleteAccount(u)
         \/ \E p \in Pairs : Expire(p)
         \/ \E s \in Ids : EndOfSession(s)
  PROVE  Shape'
<1>0. Shape
  BY DEF SessionsTypeOK, Shape
<1>1. ASSUME NEW u \in Users, WebRegister(u) PROVE Shape'
  BY <1>0, <1>1 DEF WebRegister, Shape, program
<1>2. ASSUME NEW u \in Users, WebUnbind(u) PROVE Shape'
  <2>1. (mixed[u] \/ HasSession(u) \/ LoggingIn(u)) \in BOOLEAN
    BY <1>0 DEF Shape, HasSession, LoggingIn
  <2> QED
    BY <1>0, <1>2, <2>1 DEF WebUnbind, Shape, program
<1>3. ASSUME NEW u \in Users, DeleteAccount(u) PROVE Shape'
  BY <1>0, <1>3 DEF DeleteAccount, Shape, program
<1>4. ASSUME NEW p \in Pairs, Expire(p) PROVE Shape'
  BY <1>0, <1>4 DEF Expire, Shape, program, rows
<1>5. ASSUME NEW s \in Ids, EndOfSession(s) PROVE Shape'
  BY <1>0, <1>5 DEF EndOfSession, Shape, program
<1> QED
  BY <1>1, <1>2, <1>3, <1>4, <1>5
LEMMA ShapeKept ==
  ASSUME SessionsTypeOK, Issued, [SessionsNext]_sessionsVars
  PROVE  Shape'
<1>1. CASE UNCHANGED sessionsVars
  BY <1>1 DEF SessionsTypeOK, Shape, sessionsVars, rows, program
<1> QED
  BY <1>1, CallsShape, ProgramsShape, AccountsShape DEF SessionsNext

(***************************************************************************)
(* How what the programs hold changes.                                     *)
(***************************************************************************)
\* Nobody begins to renew, and nobody has a newer pair.
NoneStarts == \A r \in Calls : Renewing(r)' =>
  /\ Renewing(r) /\ call'[r].pair = call[r].pair
  /\ call'[r].at = "renewed" => call[r].at = "renewed"
  /\ call[r].at = "renewed" => call'[r].at = "renewed" \/ torn'[Caller[r]]

\* A request begins to renew the pair that its program holds.
Opening(r) ==
  LET c == Caller[r] IN
  /\ stored[c] # 0 /\ ~refreshing[c]
  /\ refreshing' = [refreshing EXCEPT ![c] = TRUE]
  /\ torn' = [torn EXCEPT ![c] = torn[c] \/ logout[c] # Silent]
  /\ call' = [call EXCEPT ![r] = [at |-> "refresh", kind |-> call[r].kind, pair |-> stored[c]]]
  /\ UNCHANGED <<rows, expired, loggedIn, login, stored, logout, mixed, mishaps>>

\* What every step does to the requests that renew.
LEMMA CallsChange ==
  ASSUME SessionsTypeOK, [SessionsNext]_sessionsVars
  PROVE  \/ NoneStarts
         \/ \E r \in Calls : Opening(r)
         \/ \E r \in Calls, p \in Pairs : RefreshWrites(r) /\ Renews(r, p)
<1> DEFINE Goal == \/ NoneStarts
                   \/ \E r \in Calls : Opening(r)
                   \/ \E r \in Calls, p \in Pairs : RefreshWrites(r) /\ Renews(r, p)
<1>0. call \in [Calls -> Call]
  BY DEF SessionsTypeOK
<1>1. ASSUME call' = call PROVE Goal
  BY <1>1 DEF NoneStarts, Renewing
<1>2. ASSUME NEW r \in Calls, NEW v, CallStep(r, v),
             v.at \notin {"refresh", "rotate", "renewed", "refused"}
      PROVE  NoneStarts
  BY <1>0, <1>2 DEF NoneStarts, Renewing, CallStep
<1> HIDE DEF Goal
<1>G. NoneStarts => Goal
  BY DEF Goal
<1>3. ASSUME NEW r \in Calls, NEW kind \in Kind, Request(r, kind) PROVE Goal
  BY <1>2, <1>3, <1>G DEF Request
<1>4. ASSUME NEW r \in Calls, Guard(r) PROVE Goal
  BY <1>2, <1>4, <1>G DEF Guard
<1>4a. ASSUME NEW r \in Calls, UnbindRefused(r) PROVE Goal
  BY <1>2, <1>4a, <1>G DEF UnbindRefused
<1>5. ASSUME NEW r \in Calls, Unbind(r) PROVE Goal
  BY <1>2, <1>5, <1>G DEF Unbind
<1>6. ASSUME NEW r \in Calls, Lose(r) PROVE Goal
  BY <1>2, <1>6, <1>G DEF Lose, Silent
<1>7. ASSUME NEW r \in Calls, Answered(r) PROVE Goal
  BY <1>0, <1>7, <1>G DEF Answered, NoneStarts, Renewing, Silent
<1>8. ASSUME NEW r \in Calls, Unauthorized(r) PROVE Goal
  <2>1. CASE stored[Caller[r]] = 0 \/ refreshing[Caller[r]]
    BY <1>2, <1>8, <1>G, <2>1 DEF Unauthorized, Silent
  <2>2. CASE stored[Caller[r]] # 0 /\ ~refreshing[Caller[r]]
    BY <1>8, <2>2 DEF Unauthorized, Opening, CallStep, Goal
  <2> QED
    BY <2>1, <2>2
<1>9. ASSUME NEW r \in Calls, RefreshReads(r) \/ LoseRefresh(r) PROVE Goal
  <2>1. PICK at \in {"rotate", "refused"} : CallStep(r, Stage(r, at))
    BY <1>9 DEF RefreshReads, LoseRefresh
  <2>2. call' = [call EXCEPT ![r] = [at |-> at, kind |-> call[r].kind, pair |-> call[r].pair]]
    BY <2>1 DEF CallStep, Stage
  <2>3. Renewing(r)
    BY <1>9 DEF RefreshReads, LoseRefresh, Renewing
  <2>4. call[r].at = "renewed" => torn'[Caller[r]]
    BY <1>9, Owners DEF RefreshReads, LoseRefresh, SessionsTypeOK
  <2> QED
    BY <1>0, <2>2, <2>3, <2>4, <1>G DEF NoneStarts, Renewing
<1>10. ASSUME NEW r \in Calls, RefreshWrites(r) PROVE Goal
  <2>1. CASE \E p \in Pairs : Renews(r, p)
    BY <1>10, <2>1 DEF Goal
  <2>2. CASE CallStep(r, Stage(r, "refused"))
    <3>1. call' = [call EXCEPT ![r] = [at |-> "refused", kind |-> call[r].kind, pair |-> call[r].pair]]
      BY <2>2 DEF CallStep, Stage
    <3> QED
      BY <1>0, <1>10, <3>1, <1>G DEF RefreshWrites, NoneStarts, Renewing
  <2> QED
    BY <1>10, <2>1, <2>2, RefreshWritesDoes
<1>11. ASSUME NEW r \in Calls, Renewed(r) \/ RefreshFails(r) PROVE Goal
  <2>1. CASE Renewed(r)
    BY <1>0, <2>1, <1>G DEF Renewed, Released, NoneStarts, Renewing
  <2>2. CASE RefreshFails(r)
    BY <1>0, <2>2, <1>G DEF RefreshFails, Released, NoneStarts, Renewing, Silent
  <2> QED
    BY <1>11, <2>1, <2>2
<1>12. ASSUME NEW c \in Clients, Restart(c) PROVE Goal
  BY <1>0, <1>12, <1>G DEF Restart, NoneStarts, Renewing, Silent
<1>13. ASSUME NEW c \in Clients,
              \/ HandleWechatLogin(c) \/ LoginWechatMiniProgram(c) \/ OfferExpires(c) \/ CreateSession(c)
              \/ LoggedIn(c) \/ LoginFails(c) \/ LoseLogin(c)
              \/ \E u \in Users : Bind(c, u)
              \/ HandleLogout(c) \/ LogoutWechatMiniProgram(c) \/ LoseLogout(c) \/ LoggedOut(c)
       PROVE  call' = call
  BY <1>13 DEF HandleWechatLogin, LoginWechatMiniProgram, OfferExpires, CreateSession, LoggedIn, LoginFails,
     LoseLogin, Bind, HandleLogout, LogoutWechatMiniProgram, LoseLogout, LoggedOut, LoginStep
<1>14. ASSUME \/ \E u \in Users : WebRegister(u) \/ WebUnbind(u) \/ DeleteAccount(u)
              \/ \E p \in Pairs : Expire(p)
              \/ \E s \in Ids : EndOfSession(s)
       PROVE  call' = call
  BY <1>14 DEF WebRegister, WebUnbind, DeleteAccount, Expire, EndOfSession
<1>15. ASSUME NEW c \in Clients,
              \/ HandleWechatLogin(c) \/ LoginWechatMiniProgram(c) \/ OfferExpires(c) \/ CreateSession(c)
              \/ LoggedIn(c) \/ LoginFails(c) \/ LoseLogin(c)
              \/ \E u \in Users : Bind(c, u)
              \/ HandleLogout(c) \/ LogoutWechatMiniProgram(c) \/ LoseLogout(c) \/ LoggedOut(c)
              \/ Restart(c)
       PROVE  Goal
  BY <1>1, <1>12, <1>13, <1>15 DEF Goal
<1>16. ASSUME NEW r \in Calls,
              \/ CallSteps(r) \/ Lose(r) \/ LoseRefresh(r)
              \/ \E kind \in Kind : Request(r, kind)
       PROVE  Goal
  BY <1>3, <1>4, <1>4a, <1>5, <1>6, <1>7, <1>8, <1>9, <1>10, <1>11, <1>16 DEF CallSteps
<1>17. Goal
  <2>1. CASE SessionsNext
    BY <2>1, <1>1, <1>14, <1>15, <1>16 DEF SessionsNext, Goal
  <2>2. CASE UNCHANGED sessionsVars
    BY <2>2, <1>1 DEF sessionsVars, Goal
  <2> QED
    BY <2>1, <2>2
<1> QED
  BY <1>17 DEF Goal


\* What every step does to the tokens that programs store: they are kept or cleared,
\* or set by a login or a renewal.
Cleared(c) == stored' = [stored EXCEPT ![c] = 0]
LEMMA StoredChange ==
  ASSUME [SessionsNext]_sessionsVars
  PROVE  \/ stored' = stored
         \/ \E c \in Clients : LoggedOut(c) /\ Cleared(c)
         \/ \E r \in Calls : RefreshFails(r) /\ Cleared(Caller[r])
         \/ \E c \in Clients : LoggedIn(c)
         \/ \E r \in Calls : Renewed(r)
<1> DEFINE Goal == \/ stored' = stored
                   \/ \E c \in Clients : LoggedOut(c) /\ Cleared(c)
                   \/ \E r \in Calls : RefreshFails(r) /\ Cleared(Caller[r])
                   \/ \E c \in Clients : LoggedIn(c)
                   \/ \E r \in Calls : Renewed(r)
<1>1. ASSUME NEW c \in Clients, LoggedOut(c) PROVE Goal
  BY <1>1 DEF LoggedOut, Cleared
<1>2. ASSUME NEW r \in Calls, RefreshFails(r) PROVE Goal
  BY <1>2 DEF RefreshFails, Cleared
<1>3. ASSUME NEW c \in Clients,
             \/ HandleWechatLogin(c) \/ LoginWechatMiniProgram(c) \/ OfferExpires(c) \/ CreateSession(c)
             \/ LoginFails(c) \/ LoseLogin(c)
             \/ \E u \in Users : Bind(c, u)
             \/ HandleLogout(c) \/ LogoutWechatMiniProgram(c) \/ LoseLogout(c) \/ Restart(c)
      PROVE  stored' = stored
  BY <1>3 DEF HandleWechatLogin, LoginWechatMiniProgram, OfferExpires, CreateSession, LoginFails,
     LoseLogin, Bind, HandleLogout, LogoutWechatMiniProgram, LoseLogout, Restart, program
<1>4. ASSUME NEW r \in Calls,
              \/ Guard(r) \/ UnbindRefused(r) \/ Unbind(r) \/ Answered(r) \/ Unauthorized(r)
              \/ RefreshReads(r) \/ RefreshWrites(r) \/ Lose(r) \/ LoseRefresh(r)
              \/ \E kind \in Kind : Request(r, kind)
       PROVE  stored' = stored
  BY <1>4 DEF Guard, UnbindRefused, Unbind, Answered, Unauthorized, RefreshReads, RefreshWrites,
     Lose, LoseRefresh, Request
<1>5. ASSUME \/ \E u \in Users : WebRegister(u) \/ WebUnbind(u) \/ DeleteAccount(u)
             \/ \E p \in Pairs : Expire(p)
             \/ \E s \in Ids : EndOfSession(s)
             \/ UNCHANGED sessionsVars
       PROVE  stored' = stored
  BY <1>5 DEF WebRegister, WebUnbind, DeleteAccount, Expire, EndOfSession, sessionsVars, program
<1>6. stored' = stored => Goal
  OBVIOUS
<1>7. ASSUME NEW c \in Clients, LoggedIn(c) PROVE Goal
  BY <1>7
<1>8. ASSUME NEW r \in Calls, Renewed(r) PROVE Goal
  BY <1>8
<1> HIDE DEF Goal
<1>9. ASSUME NEW c \in Clients,
             \/ HandleWechatLogin(c) \/ LoginWechatMiniProgram(c) \/ OfferExpires(c) \/ CreateSession(c)
             \/ LoggedIn(c) \/ LoginFails(c) \/ LoseLogin(c)
             \/ \E u \in Users : Bind(c, u)
             \/ HandleLogout(c) \/ LogoutWechatMiniProgram(c) \/ LoseLogout(c) \/ LoggedOut(c)
             \/ Restart(c)
      PROVE  Goal
  BY <1>1, <1>3, <1>6, <1>7, <1>9
<1>10. ASSUME NEW r \in Calls,
              \/ CallSteps(r) \/ Lose(r) \/ LoseRefresh(r)
              \/ \E kind \in Kind : Request(r, kind)
       PROVE  Goal
  BY <1>2, <1>4, <1>6, <1>8, <1>10 DEF CallSteps
<1>11. Goal
  BY <1>5, <1>6, <1>9, <1>10 DEF SessionsNext
<1> QED
  BY <1>11 DEF Goal

\* A pair that is issued stays so, and the session it is of is never free again.
LEMMA RowsKept ==
  ASSUME SessionsTypeOK, Issued, [SessionsNext]_sessionsVars
  PROVE  /\ session' \in [Ids -> SessionRow]
         /\ sessionOf' \in [Pairs -> Ids \cup {0}]
         /\ \A p \in Pairs : sessionOf[p] # 0 => sessionOf'[p] = sessionOf[p]
         /\ \A s \in Ids : session[s].status # "none" =>
              session'[s].status # "none" /\ session'[s].user = session[s].user
         /\ \A s \in Ids : session[s].status \in Ended => session'[s].status # "active"
<1>0. /\ session \in [Ids -> SessionRow] /\ sessionOf \in [Pairs -> Ids \cup {0}]
      /\ call \in [Calls -> Call] /\ login \in [Clients -> Login]
  BY DEF SessionsTypeOK, SessionRow
<1>1. CASE Ending
  BY <1>0, <1>1 DEF Ending, Ended
<1>2. ASSUME NEW c \in Clients, NEW s \in Ids, NEW p \in Pairs, Creates(c, s, p)
      PROVE  /\ session' \in [Ids -> SessionRow]
             /\ sessionOf' \in [Pairs -> Ids \cup {0}]
             /\ \A q \in Pairs : sessionOf[q] # 0 => sessionOf'[q] = sessionOf[q]
             /\ \A t \in Ids : session[t].status # "none" => session'[t] = session[t]
  <2>1. login[c].user \in Users
    BY <1>0, <1>2, LoginIs DEF Creates
  <2>2. [user |-> login[c].user, pair |-> p, status |-> "active"] \in SessionRow
    BY <2>1 DEF SessionRow, SessionStatus
  <2> QED
    BY <1>0, <1>2, <2>2 DEF Creates
<1>3. ASSUME NEW r \in Calls, NEW p \in Pairs, Renews(r, p)
      PROVE  /\ session' \in [Ids -> SessionRow]
             /\ sessionOf' \in [Pairs -> Ids \cup {0}]
             /\ \A q \in Pairs : sessionOf[q] # 0 => sessionOf'[q] = sessionOf[q]
             /\ \A t \in Ids : session'[t].status = session[t].status /\ session'[t].user = session[t].user
  <2>1. sessionOf[call[r].pair] \in Ids
    BY <1>0, <1>3, CallIs DEF Renews, Renewing, Issued
  <2> QED
    BY <1>0, <1>3, <2>1 DEF Renews, SessionRow
<1> QED
  BY <1>1, <1>2, <1>3, RowsChange DEF Ended

\* Whatever a program stores is an issued pair.
LEMMA StoredKept ==
  ASSUME SessionsTypeOK, Issued, [SessionsNext]_sessionsVars
  PROVE  stored' \in [Clients -> {p \in Pairs : sessionOf'[p] # 0} \cup {0}]
<1>0. /\ stored \in [Clients -> {p \in Pairs : sessionOf[p] # 0} \cup {0}]
      /\ call \in [Calls -> Call] /\ login \in [Clients -> Login]
      /\ \A p \in Pairs : sessionOf[p] # 0 => sessionOf'[p] # 0
  BY RowsKept DEF SessionsTypeOK
<1>1. CASE stored' = stored
  BY <1>0, <1>1
<1>2. ASSUME NEW c \in Clients, Cleared(c)
      PROVE  stored' \in [Clients -> {p \in Pairs : sessionOf'[p] # 0} \cup {0}]
  BY <1>0, <1>2 DEF Cleared
<1>3. ASSUME NEW c \in Clients, LoggedIn(c)
      PROVE  stored' \in [Clients -> {p \in Pairs : sessionOf'[p] # 0} \cup {0}]
  <2>1. login[c].pair \in Pairs /\ sessionOf[login[c].pair] # 0
    BY <1>0, <1>3, LoginIs DEF LoggedIn, Issued
  <2> QED
    BY <1>0, <1>3, <2>1 DEF LoggedIn
<1>4. ASSUME NEW r \in Calls, Renewed(r)
      PROVE  stored' \in [Clients -> {p \in Pairs : sessionOf'[p] # 0} \cup {0}]
  <2>1. call[r].pair \in Pairs /\ sessionOf[call[r].pair] # 0
    BY <1>0, <1>4, CallIs DEF Renewed, Renewing, Issued
  <2> QED
    BY <1>0, <1>4, <2>1 DEF Renewed
<1> QED
  BY <1>1, <1>2, <1>3, <1>4, StoredChange, Owners
LEMMA ExpiredKept ==
  ASSUME SessionsTypeOK, Issued, [SessionsNext]_sessionsVars
  PROVE  expired' \subseteq {p \in Pairs : sessionOf'[p] # 0}
<1>0. expired \subseteq {p \in Pairs : sessionOf[p] # 0} /\ \A p \in Pairs : sessionOf[p] # 0 => sessionOf'[p] # 0
  BY RowsKept DEF SessionsTypeOK
<1>1. ASSUME NEW p \in Pairs, Expire(p) PROVE sessionOf[p] # 0
  <2>1. CASE \E c \in Clients : stored[c] = p
    BY <2>1, Positive DEF SessionsTypeOK
  <2>2. CASE \E r \in Calls : call[r].at = "sent" /\ call[r].pair = p
    BY <2>2, Positive DEF Issued
  <2> QED
    BY <1>1, <2>1, <2>2 DEF Expire, Held
<1>2. ASSUME NEW p \in Pairs, Expire(p) PROVE expired' \subseteq {q \in Pairs : sessionOf'[q] # 0}
  BY <1>0, <1>1, <1>2 DEF Expire
<1>3. ASSUME NEW c \in Clients,
             \/ HandleWechatLogin(c) \/ LoginWechatMiniProgram(c) \/ OfferExpires(c) \/ CreateSession(c)
             \/ LoggedIn(c) \/ LoginFails(c) \/ LoseLogin(c)
             \/ \E u \in Users : Bind(c, u)
             \/ HandleLogout(c) \/ LogoutWechatMiniProgram(c) \/ LoseLogout(c) \/ LoggedOut(c)
             \/ Restart(c)
      PROVE  expired' = expired
  BY <1>3 DEF HandleWechatLogin, LoginWechatMiniProgram, OfferExpires, CreateSession, LoggedIn, LoginFails,
     LoseLogin, Bind, HandleLogout, LogoutWechatMiniProgram, LoseLogout, LoggedOut, Restart, LoginStep
<1>4. ASSUME NEW r \in Calls,
              \/ CallSteps(r) \/ Lose(r) \/ LoseRefresh(r)
              \/ \E kind \in Kind : Request(r, kind)
       PROVE  expired' = expired
  BY <1>4, RefreshWritesDoes DEF CallSteps, Guard, UnbindRefused, Unbind, Answered, Unauthorized,
     RefreshReads, Renews,
     Renewed, RefreshFails, Lose, LoseRefresh, Request, CallStep
<1>5. ASSUME \/ \E u \in Users : WebRegister(u) \/ WebUnbind(u) \/ DeleteAccount(u)
             \/ \E s \in Ids : EndOfSession(s)
             \/ UNCHANGED sessionsVars
       PROVE  expired' = expired
  BY <1>5 DEF WebRegister, WebUnbind, DeleteAccount, EndOfSession, sessionsVars
<1>6. expired' = expired => expired' \subseteq {q \in Pairs : sessionOf'[q] # 0}
  BY <1>0
<1> QED
  BY <1>2, <1>3, <1>4, <1>5, <1>6 DEF SessionsNext

\* The types hold in every state.
LEMMA TypesKept ==
  ASSUME SessionsTypeOK, Issued, [SessionsNext]_sessionsVars
  PROVE  SessionsTypeOK'
BY ShapeKept, RowsKept, StoredKept, ExpiredKept DEF SessionsTypeOK, Shape, SessionRow

\* What every step does to the logins: those that find an account or make a session
\* do so by one step of theirs.
LEMMA LoginChange ==
  ASSUME SessionsTypeOK, [SessionsNext]_sessionsVars, NEW c \in Clients
  PROVE  \/ login'[c] = login[c]
         \/ login'[c].at \in {"idle", "asked", "offered"}
         \/ LoginWechatMiniProgram(c) \/ (\E u \in Users : Bind(c, u)) \/ CreateSession(c)
<1> DEFINE Goal == \/ login'[c] = login[c]
                   \/ login'[c].at \in {"idle", "asked", "offered"}
                   \/ LoginWechatMiniProgram(c) \/ (\E u \in Users : Bind(c, u)) \/ CreateSession(c)
<1>0. login \in [Clients -> Login]
  BY DEF SessionsTypeOK
<1>1. ASSUME NEW d \in Clients, NEW v, LoginStep(d, v), d # c PROVE Goal
  BY <1>0, <1>1 DEF LoginStep
<1>2. ASSUME NEW d \in Clients, NEW v, LoginStep(d, v), v.at \in {"idle", "asked", "offered"} PROVE Goal
  BY <1>0, <1>2 DEF LoginStep
<1>3. ASSUME NEW d \in Clients,
             HandleWechatLogin(d) \/ OfferExpires(d) \/ LoggedIn(d) \/ LoginFails(d) \/ LoseLogin(d)
      PROVE  Goal
  <2> HIDE DEF Goal
  <2>1. PICK v : LoginStep(d, v) /\ v.at \in {"idle", "asked", "offered"}
    BY <1>3 DEF HandleWechatLogin, OfferExpires, LoggedIn, LoginFails, LoseLogin, Silent
  <2> QED
    BY <1>2, <2>1
<1>4. ASSUME NEW d \in Clients, CreateSession(d) PROVE Goal
  <2>1. CASE d = c
    BY <1>4, <2>1
  <2>2. CASE d # c
    <3> HIDE DEF Goal
    <3> QED
      BY <1>1, <1>4, <2>2 DEF CreateSession
  <2> QED
    BY <2>1, <2>2
<1>5. ASSUME NEW d \in Clients, LoginWechatMiniProgram(d) PROVE Goal
  <2>1. CASE d = c
    BY <1>5, <2>1
  <2>2. CASE d # c
    <3> HIDE DEF Goal
    <3> QED
      BY <1>1, <1>5, <2>2 DEF LoginWechatMiniProgram
  <2> QED
    BY <2>1, <2>2
<1>6. ASSUME NEW d \in Clients, NEW u \in Users, Bind(d, u) PROVE Goal
  <2>1. CASE d = c
    BY <1>6, <2>1
  <2>2. CASE d # c
    <3> HIDE DEF Goal
    <3> QED
      BY <1>1, <1>6, <2>2 DEF Bind
  <2> QED
    BY <2>1, <2>2
<1>7. ASSUME NEW d \in Clients, Restart(d) PROVE Goal
  BY <1>0, <1>7 DEF Restart, Silent
<1>8. ASSUME NEW d \in Clients, HandleLogout(d) \/ LogoutWechatMiniProgram(d) \/ LoseLogout(d) \/ LoggedOut(d)
      PROVE  login' = login
  BY <1>8 DEF HandleLogout, LogoutWechatMiniProgram, LoseLogout, LoggedOut
<1>9. ASSUME NEW r \in Calls,
              \/ CallSteps(r) \/ Lose(r) \/ LoseRefresh(r)
              \/ \E kind \in Kind : Request(r, kind)
      PROVE  login' = login
  BY <1>9, RefreshWritesDoes DEF CallSteps, Guard, UnbindRefused, Unbind, Answered, Unauthorized,
     RefreshReads, Renews,
     Renewed, RefreshFails, Lose, LoseRefresh, Request, CallStep
<1>10. ASSUME \/ \E u \in Users : WebRegister(u) \/ WebUnbind(u) \/ DeleteAccount(u)
              \/ \E p \in Pairs : Expire(p)
              \/ \E s \in Ids : EndOfSession(s)
              \/ UNCHANGED sessionsVars
       PROVE  login' = login
  BY <1>10 DEF WebRegister, WebUnbind, DeleteAccount, Expire, EndOfSession, sessionsVars
<1>11. login' = login => Goal
  OBVIOUS
<1> HIDE DEF Goal
<1>12. ASSUME NEW d \in Clients,
             \/ HandleWechatLogin(d) \/ LoginWechatMiniProgram(d) \/ OfferExpires(d) \/ CreateSession(d)
             \/ LoggedIn(d) \/ LoginFails(d) \/ LoseLogin(d)
             \/ \E u \in Users : Bind(d, u)
             \/ HandleLogout(d) \/ LogoutWechatMiniProgram(d) \/ LoseLogout(d) \/ LoggedOut(d)
             \/ Restart(d)
      PROVE  Goal
  BY <1>3, <1>4, <1>5, <1>6, <1>7, <1>8, <1>11, <1>12
<1>13. Goal
  BY <1>9, <1>10, <1>11, <1>12 DEF SessionsNext
<1> QED
  BY <1>13 DEF Goal

\* A request is sent with what its program stores or has just renewed.
LEMMA SentChange ==
  ASSUME SessionsTypeOK, [SessionsNext]_sessionsVars, NEW r \in Calls, call'[r].at = "sent"
  PROVE  \/ call'[r] = call[r]
         \/ call'[r].pair = stored[Caller[r]]
         \/ \E q \in Calls : call[q].at = "renewed" /\ call'[r].pair = call[q].pair
<1> DEFINE Goal == \/ call'[r] = call[r]
                   \/ call'[r].pair = stored[Caller[r]]
                   \/ \E q \in Calls : call[q].at = "renewed" /\ call'[r].pair = call[q].pair
<1>0. call \in [Calls -> Call]
  BY DEF SessionsTypeOK
<1>1. ASSUME NEW q \in Calls, NEW v, CallStep(q, v), v.at # "sent" PROVE Goal
  BY <1>0, <1>1 DEF CallStep
<1>2. ASSUME NEW q \in Calls, NEW kind \in Kind, Request(q, kind) PROVE Goal
  BY <1>0, <1>2 DEF Request, CallStep
<1>3. ASSUME NEW q \in Calls, Renewed(q) PROVE Goal
  BY <1>0, <1>3 DEF Renewed, Released
<1>4. ASSUME NEW q \in Calls, RefreshFails(q) PROVE Goal
  BY <1>0, <1>4 DEF RefreshFails, Released, Silent
<1>5. ASSUME NEW q \in Calls, Answered(q) PROVE Goal
  BY <1>0, <1>5 DEF Answered, Silent
<1>6. ASSUME NEW c \in Clients, Restart(c) PROVE Goal
  BY <1>0, <1>6 DEF Restart, Silent
<1>7. call' = call => Goal
  OBVIOUS
<1> HIDE DEF Goal
<1>8. ASSUME NEW q \in Calls, Guard(q) \/ UnbindRefused(q) \/ Unbind(q) \/ Unauthorized(q) \/ Lose(q)
      PROVE  Goal
  <2>1. PICK v : CallStep(q, v) /\ v.at # "sent"
    BY <1>8 DEF Guard, UnbindRefused, Unbind, Unauthorized, Lose, Silent
  <2> QED
    BY <1>1, <2>1
<1>9. ASSUME NEW q \in Calls, RefreshReads(q) \/ LoseRefresh(q) PROVE Goal
  <2>1. PICK at \in {"rotate", "refused"} : CallStep(q, Stage(q, at))
    BY <1>9 DEF RefreshReads, LoseRefresh
  <2>2. Stage(q, at).at # "sent"
    BY DEF Stage
  <2> QED
    BY <1>1, <2>1, <2>2
<1>10. ASSUME NEW q \in Calls, RefreshWrites(q) PROVE Goal
  <2>1. CASE CallStep(q, Stage(q, "refused"))
    <3>1. Stage(q, "refused").at # "sent"
      BY DEF Stage
    <3> QED
      BY <1>1, <2>1, <3>1
  <2>2. CASE \E p \in Pairs : Renews(q, p)
    BY <1>0, <2>2 DEF Renews, Goal
  <2> QED
    BY <1>10, <2>1, <2>2, RefreshWritesDoes
<1>11. ASSUME NEW d \in Clients,
             \/ HandleWechatLogin(d) \/ LoginWechatMiniProgram(d) \/ OfferExpires(d) \/ CreateSession(d)
             \/ LoggedIn(d) \/ LoginFails(d) \/ LoseLogin(d)
             \/ \E u \in Users : Bind(d, u)
             \/ HandleLogout(d) \/ LogoutWechatMiniProgram(d) \/ LoseLogout(d) \/ LoggedOut(d)
      PROVE  call' = call
  BY <1>11 DEF HandleWechatLogin, LoginWechatMiniProgram, OfferExpires, CreateSession, LoggedIn, LoginFails,
     LoseLogin, Bind, HandleLogout, LogoutWechatMiniProgram, LoseLogout, LoggedOut, LoginStep
<1>12. ASSUME \/ \E u \in Users : WebRegister(u) \/ WebUnbind(u) \/ DeleteAccount(u)
              \/ \E p \in Pairs : Expire(p)
              \/ \E s \in Ids : EndOfSession(s)
              \/ UNCHANGED sessionsVars
       PROVE  call' = call
  BY <1>12 DEF WebRegister, WebUnbind, DeleteAccount, Expire, EndOfSession, sessionsVars
<1>13. ASSUME NEW q \in Calls,
              \/ CallSteps(q) \/ Lose(q) \/ LoseRefresh(q)
              \/ \E kind \in Kind : Request(q, kind)
       PROVE  Goal
  BY <1>2, <1>3, <1>4, <1>5, <1>8, <1>9, <1>10, <1>13 DEF CallSteps
<1>14. ASSUME NEW d \in Clients,
             \/ HandleWechatLogin(d) \/ LoginWechatMiniProgram(d) \/ OfferExpires(d) \/ CreateSession(d)
             \/ LoggedIn(d) \/ LoginFails(d) \/ LoseLogin(d)
             \/ \E u \in Users : Bind(d, u)
             \/ HandleLogout(d) \/ LogoutWechatMiniProgram(d) \/ LoseLogout(d) \/ LoggedOut(d)
             \/ Restart(d)
       PROVE  Goal
  BY <1>6, <1>7, <1>11, <1>14
<1>15. Goal
  BY <1>7, <1>12, <1>13, <1>14 DEF SessionsNext
<1> QED
  BY <1>15 DEF Goal

\* Whoever begins or ends a renewal says so.
LEMMA RefreshingChange ==
  ASSUME SessionsTypeOK, [SessionsNext]_sessionsVars, NEW c \in Clients, refreshing[c], ~refreshing'[c]
  PROVE  \/ \E r \in CallsOf(c) : Renewed(r) \/ RefreshFails(r)
         \/ Restart(c)
<1> DEFINE Goal == (\E r \in CallsOf(c) : Renewed(r) \/ RefreshFails(r)) \/ Restart(c)
<1>0. refreshing \in [Clients -> BOOLEAN]
  BY DEF SessionsTypeOK
<1>1. ASSUME NEW r \in Calls, Renewed(r) \/ RefreshFails(r) PROVE Goal
  BY <1>0, <1>1 DEF Renewed, RefreshFails, CallsOf
<1>2. ASSUME NEW d \in Clients, Restart(d) PROVE Goal
  BY <1>0, <1>2 DEF Restart
<1> HIDE DEF Goal
<1>3. ASSUME NEW r \in Calls, Unauthorized(r) PROVE Goal
  BY <1>0, <1>3, Owners DEF Unauthorized
<1>4. ASSUME NEW r \in Calls,

                              \/ Guard(r) \/ UnbindRefused(r) \/ Unbind(r) \/ Answered(r) \/ RefreshReads(r) \/ RefreshWrites(r)
              \/ Lose(r) \/ LoseRefresh(r)
              \/ \E kind \in Kind : Request(r, kind)
      PROVE  refreshing' = refreshing
  BY <1>4 DEF Guard, UnbindRefused, Unbind, Answered, RefreshReads, RefreshWrites, Lose, LoseRefresh, Request
<1>5. ASSUME NEW d \in Clients,
             \/ HandleWechatLogin(d) \/ LoginWechatMiniProgram(d) \/ OfferExpires(d) \/ CreateSession(d)
             \/ LoggedIn(d) \/ LoginFails(d) \/ LoseLogin(d)
             \/ \E u \in Users : Bind(d, u)
             \/ HandleLogout(d) \/ LogoutWechatMiniProgram(d) \/ LoseLogout(d) \/ LoggedOut(d)
      PROVE  refreshing' = refreshing
  BY <1>5 DEF HandleWechatLogin, LoginWechatMiniProgram, OfferExpires, CreateSession, LoggedIn, LoginFails,
     LoseLogin, Bind, HandleLogout, LogoutWechatMiniProgram, LoseLogout, LoggedOut, program
<1>6. ASSUME \/ \E u \in Users : WebRegister(u) \/ WebUnbind(u) \/ DeleteAccount(u)
             \/ \E p \in Pairs : Expire(p)
             \/ \E s \in Ids : EndOfSession(s)
             \/ UNCHANGED sessionsVars
       PROVE  refreshing' = refreshing
  BY <1>6 DEF WebRegister, WebUnbind, DeleteAccount, Expire, EndOfSession, sessionsVars, program
<1>7. ASSUME NEW r \in Calls,
              \/ CallSteps(r) \/ Lose(r) \/ LoseRefresh(r)
              \/ \E kind \in Kind : Request(r, kind)
       PROVE  Goal
  BY <1>1, <1>3, <1>4, <1>7 DEF CallSteps
<1>8. ASSUME NEW d \in Clients,
             \/ HandleWechatLogin(d) \/ LoginWechatMiniProgram(d) \/ OfferExpires(d) \/ CreateSession(d)
             \/ LoggedIn(d) \/ LoginFails(d) \/ LoseLogin(d)
             \/ \E u \in Users : Bind(d, u)
             \/ HandleLogout(d) \/ LogoutWechatMiniProgram(d) \/ LoseLogout(d) \/ LoggedOut(d)
             \/ Restart(d)
       PROVE  Goal
  BY <1>2, <1>5, <1>8
<1>9. Goal
  BY <1>6, <1>7, <1>8 DEF SessionsNext
<1> QED
  BY <1>9 DEF Goal

(***************************************************************************)
(* Pairs and sessions belong to one program.                               *)
(***************************************************************************)
\* What is held stays issued.
LEMMA IssuedKept ==
  ASSUME SessionsTypeOK, Issued, [SessionsNext]_sessionsVars
  PROVE  Issued'
<1>0. /\ session \in [Ids -> SessionRow] /\ sessionOf \in [Pairs -> Ids \cup {0}]
      /\ call \in [Calls -> Call] /\ login \in [Clients -> Login]
      /\ \A c \in Clients : stored[c] # 0 => stored[c] \in Pairs /\ sessionOf[stored[c]] # 0
  BY DEF SessionsTypeOK, SessionRow
<1>1. \A p \in Pairs : sessionOf'[p] # 0 => session'[sessionOf'[p]].status # "none"
  <2>1. CASE Ending
    BY <1>0, <2>1, RowsKept DEF Ending, Issued
  <2>2. ASSUME NEW c \in Clients, NEW s \in Ids, NEW p \in Pairs, Creates(c, s, p)
        PROVE  \A q \in Pairs : sessionOf'[q] # 0 => session'[sessionOf'[q]].status # "none"
    BY <1>0, <2>2 DEF Creates, Issued
  <2>3. ASSUME NEW r \in Calls, NEW p \in Pairs, Renews(r, p)
        PROVE  \A q \in Pairs : sessionOf'[q] # 0 => session'[sessionOf'[q]].status # "none"
    <3>1. call[r].pair \in Pairs /\ sessionOf[call[r].pair] # 0
      BY <1>0, <2>3, CallIs DEF Renews, Renewing, Issued
    <3> QED
      BY <1>0, <2>3, <3>1 DEF Renews, Issued, SessionRow
  <2> QED
    BY <2>1, <2>2, <2>3, RowsChange
<1>2. \A s \in Ids : session'[s].status # "none" => session'[s].user \in Users
  <2>1. CASE Ending
    BY <2>1 DEF Ending, Issued
  <2>2. ASSUME NEW c \in Clients, NEW s \in Ids, NEW p \in Pairs, Creates(c, s, p)
        PROVE  \A t \in Ids : session'[t].status # "none" => session'[t].user \in Users
    <3>1. login[c].user \in Users
      BY <1>0, <2>2, LoginIs DEF Creates
    <3> QED
      BY <1>0, <2>2, <3>1 DEF Creates, Issued
  <2>3. ASSUME NEW r \in Calls, NEW p \in Pairs, Renews(r, p)
        PROVE  \A t \in Ids : session'[t].status # "none" => session'[t].user \in Users
    BY <1>0, <2>3 DEF Renews, Issued, SessionRow
  <2> QED
    BY <2>1, <2>2, <2>3, RowsChange
<1>3. ASSUME NEW c \in Clients, login'[c].at = "made" PROVE sessionOf'[login'[c].pair] # 0
  <2>1. CASE login'[c] = login[c]
    BY <1>0, <1>3, <2>1, LoginIs, RowsKept DEF Issued
  <2>2. CASE CreateSession(c)
    <3>1. PICK s \in Ids, p \in Pairs : Creates(c, s, p)
      BY <2>2, CreateSessionDoes
    <3> QED
      BY <1>0, <3>1, Positive DEF Creates
  <2>3. CASE LoginWechatMiniProgram(c)
    BY <1>0, <1>3, <2>3 DEF LoginWechatMiniProgram, LoginStep, Silent
  <2>4. ASSUME NEW u \in Users, Bind(c, u) PROVE FALSE
    BY <1>0, <1>3, <2>4 DEF Bind, LoginStep
  <2> QED
    BY <1>3, <2>1, <2>2, <2>3, <2>4, LoginChange
<1>4. ASSUME NEW r \in Calls, call'[r].at = "sent", call'[r].pair # 0 PROVE sessionOf'[call'[r].pair] # 0
  <2>1. CASE call'[r] = call[r]
    BY <1>0, <1>4, <2>1, CallIs, RowsKept DEF Issued
  <2>2. CASE call'[r].pair = stored[Caller[r]]
    BY <1>0, <1>4, <2>2, Owners, RowsKept
  <2>3. ASSUME NEW q \in Calls, call[q].at = "renewed", call'[r].pair = call[q].pair
        PROVE  sessionOf'[call'[r].pair] # 0
    BY <1>0, <1>4, <2>3, CallIs, RowsKept DEF Issued, Renewing
  <2> QED
    BY <1>4, <2>1, <2>2, <2>3, SentChange
<1>5. ASSUME NEW r \in Calls, Renewing(r)' PROVE call'[r].pair # 0 /\ sessionOf'[call'[r].pair] # 0
  <2>1. CASE NoneStarts
    BY <1>0, <1>5, <2>1, CallIs, RowsKept DEF NoneStarts, Issued
  <2>2. ASSUME NEW q \in Calls, Opening(q) PROVE call'[r].pair # 0 /\ sessionOf'[call'[r].pair] # 0
    <3>1. Renewing(r)' => call'[r].pair = stored[Caller[q]] \/ (Renewing(r) /\ call'[r] = call[r])
      BY <1>0, <2>2 DEF Opening, Renewing
    <3>2. stored[Caller[q]] \in Pairs /\ sessionOf[stored[Caller[q]]] # 0 /\ stored[Caller[q]] # 0
      BY <1>0, <2>2, Owners DEF Opening
    <3> QED
      BY <1>0, <1>5, <3>1, <3>2, CallIs, RowsKept DEF Issued
  <2>3. ASSUME NEW q \in Calls, NEW p \in Pairs, Renews(q, p)
        PROVE  call'[r].pair # 0 /\ sessionOf'[call'[r].pair] # 0
    <3>1. call[q].pair \in Pairs /\ sessionOf[call[q].pair] # 0
      BY <1>0, <2>3, CallIs DEF Renews, Renewing, Issued
    <3>2. r # q => Renewing(r) /\ call'[r] = call[r]
      BY <1>0, <1>5, <2>3 DEF Renews, Renewing
    <3>3. CASE r = q
      BY <1>0, <2>3, <3>1, <3>3, Positive DEF Renews
    <3>4. CASE r # q
      BY <1>0, <3>2, <3>4, CallIs, RowsKept DEF Issued
    <3> QED
      BY <3>3, <3>4
  <2> QED
    BY <2>1, <2>2, <2>3, CallsChange
<1> QED
  BY <1>1, <1>2, <1>3, <1>4, <1>5 DEF Issued


\* A program comes to use a session by having it made in its own login; a session
\* that is used or got has a row.
LEMMA UsedIsTaken ==
  ASSUME SessionsTypeOK, Issued, NEW c \in Clients, NEW s \in Ids, Uses(c, s) \/ Gets(c, s)
  PROVE  session[s].status # "none"
<1>1. CASE stored[c] # 0 /\ sessionOf[stored[c]] = s
  BY <1>1, Positive DEF SessionsTypeOK, Issued
<1>2. ASSUME NEW r \in CallsOf(c), Renewing(r), sessionOf[call[r].pair] = s PROVE session[s].status # "none"
  BY <1>2, CallIs, Positive DEF SessionsTypeOK, Issued, CallsOf
<1>3. CASE Gets(c, s)
  BY <1>3, LoginIs, Positive DEF SessionsTypeOK, Issued, Gets
<1> QED
  BY <1>1, <1>2, <1>3 DEF Uses
LEMMA UsesChange ==
  ASSUME SessionsTypeOK, Issued, [SessionsNext]_sessionsVars, NEW c \in Clients, NEW s \in Ids, Uses(c, s)'
  PROVE  Uses(c, s) \/ (LoggedIn(c) /\ Gets(c, s))
<1>0. /\ sessionOf \in [Pairs -> Ids \cup {0}]
      /\ call \in [Calls -> Call] /\ login \in [Clients -> Login]
      /\ stored \in [Clients -> Pairs \cup {0}]
      /\ \A d \in Clients : stored[d] # 0 => stored[d] \in Pairs /\ sessionOf[stored[d]] # 0
  BY DEF SessionsTypeOK
<1>1. ASSUME stored'[c] # 0, sessionOf'[stored'[c]] = s PROVE Uses(c, s) \/ (LoggedIn(c) /\ Gets(c, s))
  <2>1. CASE stored'[c] = stored[c]
    BY <1>0, <1>1, <2>1, RowsKept DEF Uses
  <2>2. ASSUME NEW d \in Clients, Cleared(d) PROVE stored'[c] = stored[c]
    BY <1>0, <1>1, <2>2 DEF Cleared
  <2>3. ASSUME NEW d \in Clients, LoggedIn(d) PROVE Uses(c, s) \/ (LoggedIn(c) /\ Gets(c, s))
    <3>1. CASE d = c
      <4>1. login[c].at = "made" /\ login[c].pair \in Pairs /\ sessionOf[login[c].pair] # 0
        BY <1>0, <2>3, <3>1, LoginIs DEF LoggedIn, Issued
      <4>2. sessionOf'[login[c].pair] = sessionOf[login[c].pair]
        BY <4>1, RowsKept
      <4> QED
        BY <1>0, <1>1, <2>3, <3>1, <4>1, <4>2 DEF LoggedIn, Gets
    <3>2. CASE d # c
      BY <1>0, <2>1, <2>3, <3>2 DEF LoggedIn
    <3> QED
      BY <3>1, <3>2
  <2>4. ASSUME NEW r \in Calls, Renewed(r) PROVE Uses(c, s)
    <3>1. CASE c = Caller[r]
      <4>1. Renewing(r) /\ call[r].pair \in Pairs /\ sessionOf[call[r].pair] # 0
        BY <1>0, <2>4, CallIs DEF Renewed, Renewing, Issued
      <4>2. sessionOf'[call[r].pair] = sessionOf[call[r].pair]
        BY <4>1, RowsKept
      <4> QED
        BY <1>0, <1>1, <2>4, <3>1, <4>1, <4>2 DEF Renewed, Uses, CallsOf
    <3>2. CASE c # Caller[r]
      <4>1. stored'[c] = stored[c]
        BY <1>0, <2>4, <3>2 DEF Renewed
      <4> QED
        BY <1>0, <1>1, <4>1, RowsKept DEF Uses
    <3> QED
      BY <3>1, <3>2
  <2> QED
    BY <2>1, <2>2, <2>3, <2>4, StoredChange, Owners
<1>2. ASSUME NEW r \in CallsOf(c), Renewing(r)', sessionOf'[call'[r].pair] = s PROVE Uses(c, s)
  <2>0. r \in Calls /\ Caller[r] = c
    BY DEF CallsOf
  <2>1. CASE NoneStarts
    <3>1. Renewing(r) /\ call'[r].pair = call[r].pair
      BY <1>2, <2>0, <2>1 DEF NoneStarts
    <3>2. call[r].pair \in Pairs /\ sessionOf[call[r].pair] # 0
      BY <1>0, <2>0, <3>1, CallIs DEF Issued
    <3> QED
      BY <1>2, <3>1, <3>2, RowsKept DEF Uses
  <2>2. ASSUME NEW q \in Calls, Opening(q) PROVE Uses(c, s)
    <3>1. CASE r = q
      BY <1>0, <1>2, <2>0, <2>2, <3>1, RowsKept DEF Opening, Uses
    <3>2. CASE r # q
      <4>1. Renewing(r) /\ call'[r] = call[r]
        BY <1>0, <1>2, <2>0, <2>2, <3>2 DEF Opening, Renewing
      <4>2. call[r].pair \in Pairs /\ sessionOf[call[r].pair] # 0
        BY <1>0, <2>0, <4>1, CallIs DEF Issued
      <4> QED
        BY <1>2, <4>1, <4>2, RowsKept DEF Uses
    <3> QED
      BY <3>1, <3>2
  <2>3. ASSUME NEW q \in Calls, NEW p \in Pairs, Renews(q, p) PROVE Uses(c, s)
    <3>1. CASE r = q
      BY <1>0, <1>2, <2>0, <2>3, <3>1 DEF Renews, Renewing, Uses
    <3>2. CASE r # q
      <4>1. Renewing(r) /\ call'[r] = call[r]
        BY <1>0, <1>2, <2>0, <2>3, <3>2 DEF Renews, Renewing
      <4>2. call[r].pair \in Pairs /\ sessionOf[call[r].pair] # 0
        BY <1>0, <2>0, <4>1, CallIs DEF Issued
      <4> QED
        BY <1>2, <4>1, <4>2, RowsKept DEF Uses
    <3> QED
      BY <3>1, <3>2
  <2> QED
    BY <2>1, <2>2, <2>3, CallsChange
<1>3. (stored'[c] # 0 /\ sessionOf'[stored'[c]] = s)
      \/ \E r \in CallsOf(c) : Renewing(r)' /\ sessionOf'[call'[r].pair] = s
  BY DEF Uses, CallsOf
<1> QED
  BY <1>1, <1>2, <1>3
LEMMA GetsChange ==
  ASSUME SessionsTypeOK, Issued, [SessionsNext]_sessionsVars, NEW c \in Clients, NEW s \in Ids, Gets(c, s)'
  PROVE  Gets(c, s) \/ \E p \in Pairs : Creates(c, s, p)
<1>0. /\ sessionOf \in [Pairs -> Ids \cup {0}] /\ login \in [Clients -> Login]
      /\ login'[c].at = "made" /\ sessionOf'[login'[c].pair] = s
  BY DEF SessionsTypeOK, Gets
<1>1. CASE login'[c] = login[c]
  <2>1. login[c].pair \in Pairs /\ sessionOf[login[c].pair] # 0
    BY <1>0, <1>1, LoginIs DEF Issued
  <2> QED
    BY <1>0, <1>1, <2>1, RowsKept DEF Gets
<1>2. CASE CreateSession(c)
  <2>1. PICK t \in Ids, p \in Pairs : Creates(c, t, p)
    BY <1>2, CreateSessionDoes
  <2>2. s = t
    BY <1>0, <2>1 DEF Creates
  <2> QED
    BY <2>1, <2>2
<1>3. CASE LoginWechatMiniProgram(c)
  BY <1>0, <1>3 DEF LoginWechatMiniProgram, LoginStep, Silent
<1>4. ASSUME NEW u \in Users, Bind(c, u) PROVE FALSE
  BY <1>0, <1>4 DEF Bind, LoginStep
<1> QED
  BY <1>0, <1>1, <1>2, <1>3, <1>4, LoginChange

\* A session is one program's, and of one of its logins until that has ended.
LEMMA ApartKept ==
  ASSUME SessionsTypeOK, Issued, Apart, [SessionsNext]_sessionsVars
  PROVE  Apart'
<1> SUFFICES ASSUME NEW c \in Clients, NEW d \in Clients, NEW s \in Ids
             PROVE  /\ Uses(c, s)' /\ Uses(d, s)' => c = d
                    /\ Gets(c, s)' /\ Gets(d, s)' => c = d
                    /\ ~(Uses(c, s)' /\ Gets(d, s)')
  BY DEF Apart
<1>1. \A e \in Clients : LoggedIn(e) => ~Gets(e, s)'
  BY DEF LoggedIn, LoginStep, Gets, Silent, SessionsTypeOK
<1>2. \A e \in Clients, p \in Pairs : Creates(e, s, p) => \A f \in Clients : ~Uses(f, s) /\ ~Gets(f, s)
  BY UsedIsTaken DEF Creates
<1>3. \A e, f \in Clients, p, q \in Pairs : Creates(e, s, p) /\ Creates(f, s, q) => e = f
  BY DEF Creates, Silent, SessionsTypeOK
<1>4. \A e \in Clients : Uses(e, s)' => Uses(e, s) \/ (LoggedIn(e) /\ Gets(e, s))
  BY UsesChange
<1>5. \A e \in Clients : Gets(e, s)' => Gets(e, s) \/ \E p \in Pairs : Creates(e, s, p)
  BY GetsChange
<1>6. /\ Uses(c, s) /\ Uses(d, s) => c = d
      /\ Gets(c, s) /\ Gets(d, s) => c = d
      /\ ~(Uses(c, s) /\ Gets(d, s)) /\ ~(Uses(d, s) /\ Gets(c, s))
  BY DEF Apart
<1> QED
  BY <1>1, <1>2, <1>3, <1>4, <1>5, <1>6

\* One renewal at a time.
LEMMA OneRenewsKept ==
  ASSUME SessionsTypeOK, OneRenews, [SessionsNext]_sessionsVars
  PROVE  OneRenews'
<1>0. /\ call \in [Calls -> Call] /\ refreshing \in [Clients -> BOOLEAN]
  BY DEF SessionsTypeOK
<1>1. CASE NoneStarts
  <2>1. ASSUME NEW r \in Calls, Renewing(r)' PROVE refreshing'[Caller[r]]
    <3>1. Renewing(r) /\ refreshing[Caller[r]]
      BY <1>1, <2>1 DEF NoneStarts, OneRenews
    <3>2. ASSUME NEW q \in CallsOf(Caller[r]), Renewed(q) \/ RefreshFails(q) PROVE FALSE
      <4>1. q \in Calls /\ q = r
        BY <3>1, <3>2 DEF CallsOf, Renewed, RefreshFails, Renewing, OneRenews
      <4>2. call'[r].at \in {"sent", "idle"}
        BY <1>0, <3>2, <4>1 DEF Renewed, RefreshFails, Released, Silent
      <4> QED
        BY <2>1, <4>2 DEF Renewing
    <3>3. ASSUME Restart(Caller[r]) PROVE FALSE
      BY <1>0, <2>1, <3>3 DEF Restart, Renewing, Silent
    <3> QED
      BY <3>1, <3>2, <3>3, RefreshingChange, Owners
  <2>2. \A r, q \in Calls : Renewing(r)' /\ Renewing(q)' /\ Caller[r] = Caller[q] => r = q
    BY <1>1 DEF NoneStarts, OneRenews
  <2> QED
    BY <2>1, <2>2 DEF OneRenews
<1>2. ASSUME NEW q \in Calls, Opening(q) PROVE OneRenews'
  <2>1. \A r \in Calls : Caller[r] = Caller[q] => ~Renewing(r)
    BY <1>2 DEF Opening, OneRenews
  <2>2. \A r \in Calls : Renewing(r)' => r = q \/ (Renewing(r) /\ Caller[r] # Caller[q])
    BY <1>0, <1>2, <2>1 DEF Opening, Renewing
  <2>3. \A c \in Clients : refreshing'[c] = (refreshing[c] \/ c = Caller[q])
    BY <1>0, <1>2, Owners DEF Opening
  <2> QED
    BY <2>2, <2>3, Owners DEF OneRenews
<1>3. ASSUME NEW q \in Calls, NEW p \in Pairs, Renews(q, p) PROVE OneRenews'
  <2>1. \A r \in Calls : Renewing(r)' => Renewing(r)
    BY <1>0, <1>3 DEF Renews, Renewing
  <2>2. refreshing' = refreshing
    BY <1>3 DEF Renews, program
  <2> QED
    BY <2>1, <2>2 DEF OneRenews
<1> QED
  BY <1>1, <1>2, <1>3, CallsChange

LEMMA TokensKept ==
  ASSUME Tokens, [SessionsNext]_sessionsVars
  PROVE  Tokens'
BY TypesKept, IssuedKept, ApartKept, OneRenewsKept DEF Tokens


(***************************************************************************)
(* What a program does.                                                    *)
(***************************************************************************)
\* What is left alone stays so.
SameWay(c) ==
  /\ login'[c] = login[c] /\ loggedIn'[c] = loggedIn[c] /\ torn'[c] = torn[c]
  /\ stored'[c] = stored[c] /\ refreshing'[c] = refreshing[c] /\ logout'[c] = logout[c]
LEMMA SameKept ==
  ASSUME NEW c \in Clients, Way(c), SameWay(c)
  PROVE  Way(c)'
BY DEF Way, SameWay

\* A login goes on.
LEMMA LoginWay ==
  ASSUME SessionsTypeOK, \A c \in Clients : Way(c), NEW c \in Clients, NEW d \in Clients,
         \/ HandleWechatLogin(d) \/ LoginWechatMiniProgram(d) \/ OfferExpires(d) \/ CreateSession(d)
         \/ LoggedIn(d) \/ LoginFails(d) \/ LoseLogin(d)
         \/ \E u \in Users : Bind(d, u)
  PROVE  Way(c)'
<1>0. /\ login \in [Clients -> Login] /\ stored \in [Clients -> Pairs \cup {0}]
      /\ loggedIn \in [Clients -> BOOLEAN]
      /\ Way(c) /\ Way(d)
  BY DEF SessionsTypeOK
<1>1. CASE LoggedIn(d)
  <2>1. login[d] # Silent /\ login[d].pair \in Pairs /\ login[d].pair # 0
    BY <1>0, <1>1, LoginIs, Positive DEF LoggedIn, Silent
  <2>2. CASE c = d
    BY <1>0, <1>1, <2>1, <2>2 DEF LoggedIn, LoginStep, Way, Silent
  <2>3. CASE c # d
    BY <1>0, <1>1, <2>3, SameKept DEF LoggedIn, LoginStep, SameWay
  <2> QED
    BY <2>2, <2>3
<1>2. CASE ~LoggedIn(d)
  <2>1. PICK v : LoginStep(d, v) /\ UNCHANGED program
    BY <1>2 DEF HandleWechatLogin, LoginWechatMiniProgram, OfferExpires, CreateSession, LoginFails, LoseLogin, Bind
  <2>2. ~loggedIn[d]
    <3>1. CASE HandleWechatLogin(d)
      BY <3>1 DEF HandleWechatLogin
    <3>2. CASE ~HandleWechatLogin(d)
      <4>1. login[d].at \in {"asked", "offered", "found", "made"}
        BY <1>2, <3>2 DEF LoginWechatMiniProgram, OfferExpires, CreateSession, LoginFails, LoseLogin, Bind
      <4>2. login[d] # Silent
        BY <4>1 DEF Silent
      <4> QED
        BY <1>0, <4>2 DEF Way
    <3> QED
      BY <3>1, <3>2
  <2>3. CASE c = d
    BY <1>0, <2>1, <2>2, <2>3 DEF LoginStep, program, Way
  <2>4. CASE c # d
    BY <1>0, <2>1, <2>4, SameKept DEF LoginStep, program, SameWay
  <2> QED
    BY <2>3, <2>4
<1> QED
  BY <1>1, <1>2

\* A logout goes on, or the program is started again.
LEMMA LogsOutWay ==
  ASSUME SessionsTypeOK, \A c \in Clients : Way(c), NEW c \in Clients, NEW d \in Clients,
         LogsOut(d), logout[d] = Silent, UNCHANGED <<stored, refreshing, login>>
  PROVE  Way(c)'
<1>0. /\ loggedIn \in [Clients -> BOOLEAN] /\ torn \in [Clients -> BOOLEAN]
      /\ refreshing \in [Clients -> BOOLEAN] /\ logout \in [Clients -> Logout]
      /\ Way(c) /\ Way(d)
  BY DEF SessionsTypeOK
<1>1. CASE c # d
  BY <1>0, <1>1, SameKept DEF LogsOut, SameWay
<1>2. CASE c = d /\ stored[d] = 0
  BY <1>0, <1>2 DEF LogsOut, Way
<1>3. CASE c = d /\ stored[d] # 0
  <2>1. /\ loggedIn'[c] = loggedIn[c] /\ logout'[c] = [at |-> "sent", pair |-> stored[c]]
        /\ torn'[c] = (torn[c] \/ refreshing[c])
    BY <1>0, <1>3 DEF LogsOut
  <2> QED
    BY <1>0, <1>3, <2>1 DEF Way, Silent
<1> QED
  BY <1>1, <1>2, <1>3
LEMMA LogoutWay ==
  ASSUME SessionsTypeOK, \A c \in Clients : Way(c), NEW c \in Clients, NEW d \in Clients,
         HandleLogout(d) \/ LogoutWechatMiniProgram(d) \/ LoseLogout(d) \/ LoggedOut(d) \/ Restart(d)
  PROVE  Way(c)'
<1>0. /\ loggedIn \in [Clients -> BOOLEAN] /\ torn \in [Clients -> BOOLEAN]
      /\ refreshing \in [Clients -> BOOLEAN] /\ logout \in [Clients -> Logout]
      /\ stored \in [Clients -> Pairs \cup {0}] /\ login \in [Clients -> Login]
      /\ Way(c) /\ Way(d)
  BY DEF SessionsTypeOK
<1>1. CASE HandleLogout(d)
  BY <1>1, LogsOutWay DEF HandleLogout
<1>2. CASE LogoutWechatMiniProgram(d)
  <2>1. CASE c = d
    BY <1>0, <1>2, <2>1 DEF LogoutWechatMiniProgram, program, Way, Silent
  <2>2. CASE c # d
    BY <1>0, <1>2, <2>2, SameKept DEF LogoutWechatMiniProgram, program, SameWay
  <2> QED
    BY <2>1, <2>2
<1>3. CASE LoseLogout(d)
  <2>1. CASE c = d
    BY <1>0, <1>3, <2>1 DEF LoseLogout, program, Way
  <2>2. CASE c # d
    BY <1>0, <1>3, <2>2, SameKept DEF LoseLogout, program, SameWay
  <2> QED
    BY <2>1, <2>2
<1>4. CASE LoggedOut(d)
  <2>1. CASE c = d
    BY <1>0, <1>4, <2>1 DEF LoggedOut, Way, Silent
  <2>2. CASE c # d
    BY <1>0, <1>4, <2>2, SameKept DEF LoggedOut, SameWay
  <2> QED
    BY <2>1, <2>2
<1>5. CASE Restart(d)
  <2>1. CASE c = d
    BY <1>0, <1>5, <2>1 DEF Restart, Way, Silent
  <2>2. CASE c # d
    BY <1>0, <1>5, <2>2, SameKept DEF Restart, SameWay
  <2> QED
    BY <2>1, <2>2
<1> QED
  BY <1>1, <1>2, <1>3, <1>4, <1>5

\* A request goes on.
LEMMA RequestWay ==
  ASSUME SessionsTypeOK, Issued, OneRenews, \A c \in Clients : Way(c), NEW c \in Clients, NEW r \in Calls,
         \/ CallSteps(r) \/ Lose(r) \/ LoseRefresh(r)
         \/ \E kind \in Kind : Request(r, kind)
  PROVE  Way(c)'
<1> DEFINE d == Caller[r]
<1>0. /\ loggedIn \in [Clients -> BOOLEAN] /\ torn \in [Clients -> BOOLEAN]
      /\ refreshing \in [Clients -> BOOLEAN] /\ logout \in [Clients -> Logout]
      /\ stored \in [Clients -> Pairs \cup {0}] /\ call \in [Calls -> Call]
      /\ d \in Clients
      /\ Way(c) /\ Way(d)
  BY Owners DEF SessionsTypeOK
<1> HIDE DEF d
<1>1. CASE \/ Guard(r) \/ UnbindRefused(r) \/ Unbind(r) \/ RefreshReads(r) \/ RefreshWrites(r) \/ Lose(r)
           \/ \E kind \in Kind : Request(r, kind)
  <2>1. UNCHANGED <<stored, refreshing, logout, torn, loggedIn, login>>
    BY <1>1, RefreshWritesDoes
       DEF Guard, UnbindRefused, Unbind, RefreshReads, RefreshWrites, Renews, Lose, Request, CallStep, program
  <2> QED
    BY <1>0, <2>1, SameKept DEF SameWay
<1>2. CASE LoseRefresh(r)
  <2>1. CASE c = d
    BY <1>0, <1>2, <2>1 DEF LoseRefresh, CallStep, Way, d
  <2>2. CASE c # d
    BY <1>0, <1>2, <2>2, SameKept DEF LoseRefresh, CallStep, SameWay, d
  <2> QED
    BY <2>1, <2>2
<1>3. CASE Unauthorized(r)
  <2>1. UNCHANGED <<stored, logout, loggedIn, login>>
    BY <1>3 DEF Unauthorized, CallStep
  <2>2. CASE UNCHANGED <<refreshing, torn>>
    BY <1>0, <2>1, <2>2, SameKept DEF SameWay
  <2>3. CASE stored[d] # 0 /\ refreshing' = [refreshing EXCEPT ![d] = TRUE]
             /\ torn' = [torn EXCEPT ![d] = @ \/ logout[d] # Silent]
    <3>1. CASE c = d
      <4>1. refreshing'[c] /\ (torn'[c] = (torn[c] \/ logout[c] # Silent))
        BY <1>0, <2>3, <3>1
      <4> QED
        BY <1>0, <2>1, <2>3, <3>1, <4>1 DEF Way
    <3>2. CASE c # d
      BY <1>0, <2>1, <2>3, <3>2, SameKept DEF SameWay
    <3> QED
      BY <3>1, <3>2
  <2> QED
    BY <1>3, <2>2, <2>3 DEF Unauthorized, d
<1>4. CASE Answered(r)
  <2>1. UNCHANGED <<stored, refreshing, login>>
    BY <1>4 DEF Answered
  <2>2. CASE LogsOut(d) /\ logout[d] = Silent
    BY <1>0, <2>1, <2>2, LogsOutWay
  <2>3. CASE UNCHANGED <<loggedIn, logout, torn>>
    BY <1>0, <2>1, <2>3, SameKept DEF SameWay
  <2> QED
    BY <1>4, <2>2, <2>3 DEF Answered, d
<1>5. CASE Renewed(r) \/ RefreshFails(r)
  <2>1. Renewing(r) /\ refreshing[d]
    BY <1>5 DEF Renewed, RefreshFails, Renewing, OneRenews, d
  <2>2. call[r].pair \in Pairs /\ call[r].pair # 0
    BY <1>0, <2>1, CallIs DEF Issued
  <2>3. CASE c = d
    <3>1. UNCHANGED <<loggedIn, login, logout, torn>> /\ ~refreshing'[d]
      BY <1>0, <1>5 DEF Renewed, RefreshFails, d
    <3>2. stored'[d] = call[r].pair \/ stored'[d] = 0
      BY <1>0, <1>5 DEF Renewed, RefreshFails, d
    <3> QED
      BY <1>0, <2>1, <2>3, <3>1, <3>2, LogoutIs DEF Way, Silent
  <2>4. CASE c # d
    BY <1>0, <1>5, <2>4, SameKept DEF Renewed, RefreshFails, SameWay, d
  <2> QED
    BY <2>3, <2>4
<1> QED
  BY <1>1, <1>2, <1>3, <1>4, <1>5 DEF CallSteps
LEMMA WaysKept ==
  ASSUME Tokens, Working, [SessionsNext]_sessionsVars
  PROVE  \A c \in Clients : Way(c)'
<1> SUFFICES ASSUME NEW c \in Clients PROVE Way(c)'
  OBVIOUS
<1>0. SessionsTypeOK /\ Issued /\ OneRenews /\ (\A d \in Clients : Way(d))
  BY DEF Tokens, Working
<1>1. CASE \/ \E u \in Users : WebRegister(u) \/ WebUnbind(u) \/ DeleteAccount(u)
           \/ \E p \in Pairs : Expire(p)
           \/ \E s \in Ids : EndOfSession(s)
           \/ UNCHANGED sessionsVars
  <2>1. UNCHANGED <<program, login, logout, torn>>
    BY <1>1 DEF WebRegister, WebUnbind, DeleteAccount, Expire, EndOfSession, sessionsVars
  <2> QED
    BY <1>0, <2>1, SameKept DEF program, SameWay
<1> QED
  BY <1>0, <1>1, LoginWay, LogoutWay, RequestWay DEF SessionsNext


\* A program that is torn stays so.
LEMMA TornKept ==
  ASSUME SessionsTypeOK, [SessionsNext]_sessionsVars, NEW c \in Clients, torn[c]
  PROVE  torn'[c]
<1>0. torn \in [Clients -> BOOLEAN]
  BY DEF SessionsTypeOK
<1>1. ASSUME NEW d \in Clients, LogsOut(d) PROVE torn'[c]
  BY <1>0, <1>1 DEF LogsOut
<1>2. ASSUME NEW r \in Calls, Answered(r) PROVE torn'[c]
  BY <1>1, <1>2, Owners DEF Answered
<1>3. ASSUME NEW r \in Calls, Unauthorized(r) PROVE torn'[c]
  BY <1>0, <1>3 DEF Unauthorized
<1>4. ASSUME NEW r \in Calls, LoseRefresh(r) PROVE torn'[c]
  BY <1>0, <1>4 DEF LoseRefresh
<1>5. ASSUME NEW d \in Clients, HandleLogout(d) \/ LoseLogout(d) \/ Restart(d) PROVE torn'[c]
  <2>1. CASE HandleLogout(d)
    BY <1>1, <2>1 DEF HandleLogout
  <2>2. CASE LoseLogout(d)
    BY <1>0, <2>2 DEF LoseLogout
  <2>3. CASE Restart(d)
    BY <1>0, <2>3 DEF Restart
  <2> QED
    BY <1>5, <2>1, <2>2, <2>3
<1>6. ASSUME NEW d \in Clients,
             \/ HandleWechatLogin(d) \/ LoginWechatMiniProgram(d) \/ OfferExpires(d) \/ CreateSession(d)
             \/ LoggedIn(d) \/ LoginFails(d) \/ LoseLogin(d)
             \/ \E u \in Users : Bind(d, u)
             \/ LogoutWechatMiniProgram(d) \/ LoggedOut(d)
      PROVE  torn' = torn
  BY <1>6 DEF HandleWechatLogin, LoginWechatMiniProgram, OfferExpires, CreateSession, LoggedIn, LoginFails,
     LoseLogin, Bind, LogoutWechatMiniProgram, LoggedOut, LoginStep
<1>7. ASSUME NEW r \in Calls,
             \/ Guard(r) \/ UnbindRefused(r) \/ Unbind(r) \/ RefreshReads(r) \/ RefreshWrites(r) \/ Lose(r)
             \/ Renewed(r) \/ RefreshFails(r)
             \/ \E kind \in Kind : Request(r, kind)
      PROVE  torn' = torn
  BY <1>7 DEF Guard, UnbindRefused, Unbind, RefreshReads, RefreshWrites, Lose, Renewed, RefreshFails, Request
<1>8. ASSUME \/ \E u \in Users : WebRegister(u) \/ WebUnbind(u) \/ DeleteAccount(u)
             \/ \E p \in Pairs : Expire(p)
             \/ \E s \in Ids : EndOfSession(s)
             \/ UNCHANGED sessionsVars
      PROVE  torn' = torn
  BY <1>8 DEF WebRegister, WebUnbind, DeleteAccount, Expire, EndOfSession, sessionsVars
<1>9. ASSUME NEW d \in Clients,
             \/ HandleWechatLogin(d) \/ LoginWechatMiniProgram(d) \/ OfferExpires(d) \/ CreateSession(d)
             \/ LoggedIn(d) \/ LoginFails(d) \/ LoseLogin(d)
             \/ \E u \in Users : Bind(d, u)
             \/ HandleLogout(d) \/ LogoutWechatMiniProgram(d) \/ LoseLogout(d) \/ LoggedOut(d)
             \/ Restart(d)
      PROVE  torn'[c]
  BY <1>5, <1>6, <1>9
<1>10. ASSUME NEW r \in Calls,
              \/ CallSteps(r) \/ Lose(r) \/ LoseRefresh(r)
              \/ \E kind \in Kind : Request(r, kind)
       PROVE  torn'[c]
  BY <1>2, <1>3, <1>4, <1>7, <1>10 DEF CallSteps
<1> QED
  BY <1>8, <1>9, <1>10 DEF SessionsNext

\* An answer to a logout comes from the server, or is lost.
LEMMA LogoutChange ==
  ASSUME SessionsTypeOK, [SessionsNext]_sessionsVars, NEW c \in Clients, logout'[c].at = "back"
  PROVE  logout[c].at = "back" \/ LogoutWechatMiniProgram(c) \/ LoseLogout(c)
<1>0. logout \in [Clients -> Logout]
  BY DEF SessionsTypeOK
<1>1. ASSUME NEW d \in Clients, LogsOut(d) PROVE logout[c].at = "back"
  <2>1. CASE stored[d] # 0 /\ c = d
    BY <1>0, <1>1, <2>1 DEF LogsOut
  <2>2. CASE stored[d] = 0 \/ c # d
    BY <1>0, <1>1, <2>2 DEF LogsOut
  <2> QED
    BY <2>1, <2>2
<1>2. ASSUME NEW r \in Calls, Answered(r) PROVE logout[c].at = "back"
  BY <1>1, <1>2, Owners DEF Answered
<1>3. ASSUME NEW d \in Clients, HandleLogout(d) PROVE logout[c].at = "back"
  BY <1>1, <1>3 DEF HandleLogout
<1>4. ASSUME NEW d \in Clients, LoggedOut(d) \/ Restart(d) PROVE logout[c].at = "back"
  BY <1>0, <1>4 DEF LoggedOut, Restart, Silent
<1>5. ASSUME NEW d \in Clients, LogoutWechatMiniProgram(d) \/ LoseLogout(d), d # c PROVE logout[c].at = "back"
  BY <1>0, <1>5 DEF LogoutWechatMiniProgram, LoseLogout
<1>6. ASSUME NEW d \in Clients,
             \/ HandleWechatLogin(d) \/ LoginWechatMiniProgram(d) \/ OfferExpires(d) \/ CreateSession(d)
             \/ LoggedIn(d) \/ LoginFails(d) \/ LoseLogin(d)
             \/ \E u \in Users : Bind(d, u)
      PROVE  logout' = logout
  BY <1>6 DEF HandleWechatLogin, LoginWechatMiniProgram, OfferExpires, CreateSession, LoggedIn, LoginFails,
     LoseLogin, Bind, LoginStep
<1>7. ASSUME NEW r \in Calls,
             \/ Guard(r) \/ UnbindRefused(r) \/ Unbind(r) \/ RefreshReads(r) \/ RefreshWrites(r) \/ Lose(r)
             \/ Renewed(r) \/ RefreshFails(r) \/ Unauthorized(r) \/ LoseRefresh(r)
             \/ \E kind \in Kind : Request(r, kind)
      PROVE  logout' = logout
  BY <1>7 DEF Guard, UnbindRefused, Unbind, RefreshReads, RefreshWrites, Lose, Renewed,
     RefreshFails, Unauthorized,
     LoseRefresh, Request
<1>8. ASSUME \/ \E u \in Users : WebRegister(u) \/ WebUnbind(u) \/ DeleteAccount(u)
             \/ \E p \in Pairs : Expire(p)
             \/ \E s \in Ids : EndOfSession(s)
             \/ UNCHANGED sessionsVars
      PROVE  logout' = logout
  BY <1>8 DEF WebRegister, WebUnbind, DeleteAccount, Expire, EndOfSession, sessionsVars
<1>9. ASSUME NEW d \in Clients,
             \/ HandleWechatLogin(d) \/ LoginWechatMiniProgram(d) \/ OfferExpires(d) \/ CreateSession(d)
             \/ LoggedIn(d) \/ LoginFails(d) \/ LoseLogin(d)
             \/ \E u \in Users : Bind(d, u)
             \/ HandleLogout(d) \/ LogoutWechatMiniProgram(d) \/ LoseLogout(d) \/ LoggedOut(d)
             \/ Restart(d)
      PROVE  logout[c].at = "back" \/ LogoutWechatMiniProgram(c) \/ LoseLogout(c)
  <2>1. CASE d = c /\ (LogoutWechatMiniProgram(d) \/ LoseLogout(d))
    BY <2>1
  <2>2. CASE d # c /\ (LogoutWechatMiniProgram(d) \/ LoseLogout(d))
    BY <1>5, <2>2
  <2>3. CASE ~(LogoutWechatMiniProgram(d) \/ LoseLogout(d))
    BY <1>3, <1>4, <1>6, <1>9, <2>3
  <2> QED
    BY <2>1, <2>2, <2>3
<1>10. ASSUME NEW r \in Calls,
              \/ CallSteps(r) \/ Lose(r) \/ LoseRefresh(r)
              \/ \E kind \in Kind : Request(r, kind)
       PROVE  logout[c].at = "back"
  BY <1>2, <1>7, <1>10 DEF CallSteps
<1> QED
  BY <1>8, <1>9, <1>10 DEF SessionsNext

\* What a request that is renewing holds, its program holds.
LEMMA InHandKept ==
  ASSUME Tokens, Working, [SessionsNext]_sessionsVars
  PROVE  \A r \in Calls : InHand(r)'
<1> SUFFICES ASSUME NEW r \in Calls, ~torn'[Caller[r]], Renewing(r)', call'[r].at # "renewed"
             PROVE  call'[r].pair = stored'[Caller[r]]
  BY DEF InHand
<1> DEFINE c == Caller[r]
<1>0. /\ SessionsTypeOK /\ Issued /\ OneRenews /\ c \in Clients /\ Way(c) /\ InHand(r)
      /\ call \in [Calls -> Call] /\ stored \in [Clients -> Pairs \cup {0}]
      /\ login \in [Clients -> Login] /\ logout \in [Clients -> Logout]
  BY Owners DEF Tokens, Working, SessionsTypeOK
<1>1. ~torn[c]
  BY <1>0, TornKept
<1>2. CASE NoneStarts
  <2>1. Renewing(r) /\ call'[r].pair = call[r].pair /\ call[r].at # "renewed"
    BY <1>2 DEF NoneStarts
  <2>2. call[r].pair = stored[c] /\ refreshing[c]
    BY <1>0, <1>1, <2>1 DEF InHand, OneRenews
  <2>3. logout[c] = Silent /\ loggedIn[c]
    BY <1>0, <1>1, <2>2 DEF Way
  <2>4. ASSUME NEW d \in Clients, LoggedOut(d) \/ LoggedIn(d) PROVE stored'[c] = stored[c]
    <3>1. d # c
      BY <1>0, <2>3, <2>4 DEF LoggedOut, LoggedIn, Silent, Way
    <3> QED
      BY <1>0, <2>4, <3>1 DEF LoggedOut, LoggedIn
  <2>5. ASSUME NEW q \in Calls, Renewed(q) \/ RefreshFails(q) PROVE stored'[c] = stored[c]
    <3>1. CASE Caller[q] = c
      <4>1. q = r
        BY <1>0, <2>1, <2>5, <3>1 DEF Renewed, RefreshFails, Renewing, OneRenews
      <4>2. call'[r].at \in {"sent", "idle"}
        BY <1>0, <2>5, <4>1 DEF Renewed, RefreshFails, Released, Silent
      <4> QED
        BY <4>2 DEF Renewing
    <3>2. CASE Caller[q] # c
      BY <1>0, <2>5, <3>2 DEF Renewed, RefreshFails
    <3> QED
      BY <3>1, <3>2
  <2>6. stored'[c] = stored[c]
    BY <2>4, <2>5, StoredChange
  <2> QED
    BY <2>1, <2>2, <2>6
<1>3. ASSUME NEW q \in Calls, Opening(q) PROVE call'[r].pair = stored'[c]
  <2>1. CASE r = q
    BY <1>0, <1>3, <2>1 DEF Opening
  <2>2. CASE r # q
    <3>1. call'[r] = call[r] /\ stored' = stored
      BY <1>0, <1>3, <2>2 DEF Opening
    <3> QED
      BY <1>0, <1>1, <3>1 DEF InHand, Renewing
  <2> QED
    BY <2>1, <2>2
<1>4. ASSUME NEW q \in Calls, NEW p \in Pairs, Renews(q, p) PROVE call'[r].pair = stored'[c]
  <2>1. r # q /\ stored' = stored
    BY <1>0, <1>4 DEF Renews, program
  <2>2. call'[r] = call[r]
    BY <1>0, <1>4, <2>1 DEF Renews
  <2> QED
    BY <1>0, <1>1, <2>1, <2>2 DEF InHand, Renewing
<1> QED
  BY <1>0, <1>2, <1>3, <1>4, CallsChange
LEMMA WorkingKept ==
  ASSUME Tokens, Working, [SessionsNext]_sessionsVars
  PROVE  Working'
BY WaysKept, InHandKept DEF Working


(***************************************************************************)
(* The pair a session takes.                                               *)
(***************************************************************************)
\* A session takes the pair it took, unless one of its requests renews it.
LEMMA TakesKept ==
  ASSUME SessionsTypeOK, Issued, [SessionsNext]_sessionsVars, NEW p \in Pairs, sessionOf[p] # 0, Takes(p),
         \A q \in Calls : sessionOf[call[q].pair] = sessionOf[p] => call[q].at # "rotate"
  PROVE  sessionOf'[p] = sessionOf[p] /\ session'[sessionOf'[p]].pair = p
<1>0. /\ session \in [Ids -> SessionRow] /\ sessionOf \in [Pairs -> Ids \cup {0}]
      /\ sessionOf'[p] = sessionOf[p] /\ sessionOf[p] \in Ids
  BY RowsKept DEF SessionsTypeOK, SessionRow
<1>1. CASE Ending
  BY <1>0, <1>1 DEF Ending, Takes
<1>2. ASSUME NEW c \in Clients, NEW s \in Ids, NEW q \in Pairs, Creates(c, s, q)
      PROVE  session'[sessionOf[p]].pair = p
  <2>1. s # sessionOf[p]
    BY <1>2 DEF Creates, Issued
  <2> QED
    BY <1>0, <1>2, <2>1 DEF Creates, Takes
<1>3. ASSUME NEW r \in Calls, NEW q \in Pairs, Renews(r, q)
      PROVE  session'[sessionOf[p]].pair = p
  <2>1. sessionOf[call[r].pair] # sessionOf[p]
    BY <1>3 DEF Renews
  <2> QED
    BY <1>0, <1>3, <2>1 DEF Renews, Takes
<1> QED
  BY <1>0, <1>1, <1>2, <1>3, RowsChange

\* What is about to be stored stays what its session takes.
LEMMA NewestKept ==
  ASSUME Tokens, Newest, [SessionsNext]_sessionsVars
  PROVE  Newest'
<1>0. /\ SessionsTypeOK /\ Issued /\ Apart /\ OneRenews
      /\ session \in [Ids -> SessionRow] /\ sessionOf \in [Pairs -> Ids \cup {0}]
      /\ call \in [Calls -> Call] /\ login \in [Clients -> Login]
  BY DEF Tokens, SessionsTypeOK, SessionRow
<1>1. ASSUME NEW c \in Clients, login'[c].at = "made" PROVE session'[sessionOf'[login'[c].pair]].pair = login'[c].pair
  <2>1. CASE login'[c] = login[c]
    <3> DEFINE p == login[c].pair
    <3>1. p \in Pairs /\ sessionOf[p] \in Ids /\ sessionOf[p] # 0 /\ Takes(p) /\ Gets(c, sessionOf[p])
      BY <1>0, <1>1, <2>1, LoginIs DEF Issued, Newest, Gets
    <3>2. ASSUME NEW q \in Calls, sessionOf[call[q].pair] = sessionOf[p], call[q].at = "rotate" PROVE FALSE
      <4>1. Uses(Caller[q], sessionOf[p])
        BY <3>2, Owners DEF Uses, CallsOf, Renewing
      <4> QED
        BY <1>0, <3>1, <4>1, Owners DEF Apart
    <3>3. session'[sessionOf'[p]].pair = p
      BY <1>0, <3>1, <3>2, TakesKept
    <3> QED
      BY <2>1, <3>3
  <2>2. CASE CreateSession(c)
    <3>1. PICK s \in Ids, p \in Pairs : Creates(c, s, p)
      BY <2>2, CreateSessionDoes
    <3>2. login'[c].pair = p /\ sessionOf'[p] = s /\ session'[s].pair = p
      BY <1>0, <3>1 DEF Creates
    <3> QED
      BY <3>2
  <2>3. CASE LoginWechatMiniProgram(c)
    BY <1>0, <1>1, <2>3 DEF LoginWechatMiniProgram, LoginStep, Silent
  <2>4. ASSUME NEW u \in Users, Bind(c, u) PROVE FALSE
    BY <1>0, <1>1, <2>4 DEF Bind, LoginStep
  <2> QED
    BY <1>0, <1>1, <2>1, <2>2, <2>3, <2>4, LoginChange
<1>2. ASSUME NEW r \in Calls, call'[r].at = "renewed" PROVE session'[sessionOf'[call'[r].pair]].pair = call'[r].pair
  <2>1. ASSUME call[r].at = "renewed", call'[r].pair = call[r].pair
        PROVE  session'[sessionOf'[call'[r].pair]].pair = call'[r].pair
    <3> DEFINE p == call[r].pair
    <3>1. p \in Pairs /\ sessionOf[p] \in Ids /\ sessionOf[p] # 0 /\ Takes(p) /\ Uses(Caller[r], sessionOf[p])
      BY <1>0, <2>1, CallIs DEF Issued, Newest, Uses, CallsOf, Renewing
    <3>2. ASSUME NEW q \in Calls, sessionOf[call[q].pair] = sessionOf[p], call[q].at = "rotate" PROVE FALSE
      <4>1. Uses(Caller[q], sessionOf[p])
        BY <3>2, Owners DEF Uses, CallsOf, Renewing
      <4>2. Caller[q] = Caller[r]
        BY <1>0, <3>1, <4>1, Owners DEF Apart
      <4> QED
        BY <1>0, <2>1, <3>2, <4>2 DEF OneRenews, Renewing
    <3>3. session'[sessionOf'[p]].pair = p
      BY <1>0, <3>1, <3>2, TakesKept
    <3> QED
      BY <2>1, <3>3
  <2>2. CASE NoneStarts
    BY <1>2, <2>1, <2>2 DEF NoneStarts, Renewing
  <2>3. ASSUME NEW q \in Calls, Opening(q) PROVE call[r].at = "renewed" /\ call'[r].pair = call[r].pair
    BY <1>0, <1>2, <2>3 DEF Opening
  <2>4. ASSUME NEW q \in Calls, NEW p \in Pairs, Renews(q, p)
        PROVE  session'[sessionOf'[call'[r].pair]].pair = call'[r].pair
    <3>1. CASE r = q
      <4>1. sessionOf[call[q].pair] \in Ids
        BY <1>0, <2>4, CallIs DEF Renews, Renewing, Issued
      <4> QED
        BY <1>0, <2>4, <3>1, <4>1 DEF Renews, SessionRow
    <3>2. CASE r # q
      <4>1. call'[r] = call[r]
        BY <1>0, <2>4, <3>2 DEF Renews
      <4> QED
        BY <1>2, <2>1, <4>1
    <3> QED
      BY <3>1, <3>2
  <2> QED
    BY <1>0, <2>1, <2>2, <2>3, <2>4, CallsChange
<1> QED
  BY <1>1, <1>2 DEF Newest, Takes

\* An issued session that is active was so before.
LEMMA ActiveBefore ==
  ASSUME SessionsTypeOK, Issued, [SessionsNext]_sessionsVars, NEW p \in Pairs, sessionOf[p] # 0,
         session'[sessionOf'[p]].status = "active"
  PROVE  session[sessionOf[p]].status = "active"
<1>1. /\ session \in [Ids -> SessionRow] /\ sessionOf[p] \in Ids
      /\ sessionOf'[p] = sessionOf[p] /\ session[sessionOf[p]].status # "none"
  BY RowsKept DEF SessionsTypeOK, SessionRow, Issued
<1>2. session[sessionOf[p]].status \in SessionStatus
  BY <1>1 DEF SessionRow
<1> QED
  BY <1>1, <1>2, RowsKept DEF SessionStatus, Ended

\* Whoever is not renewing holds what its session takes.
LEMMA HoldsCurrentKept ==
  ASSUME Tokens, Newest, Working, HoldsCurrent, [SessionsNext]_sessionsVars
  PROVE  HoldsCurrent'
<1> SUFFICES ASSUME NEW c \in Clients, ~torn'[c], ~refreshing'[c], stored'[c] # 0,
                    session'[sessionOf'[stored'[c]]].status = "active"
             PROVE  session'[sessionOf'[stored'[c]]].pair = stored'[c]
  BY DEF HoldsCurrent, SessionActive
<1>0. /\ SessionsTypeOK /\ Issued /\ Apart /\ OneRenews /\ Way(c) /\ ~torn[c]
      /\ session \in [Ids -> SessionRow] /\ sessionOf \in [Pairs -> Ids \cup {0}]
      /\ call \in [Calls -> Call] /\ login \in [Clients -> Login]
      /\ refreshing \in [Clients -> BOOLEAN] /\ torn \in [Clients -> BOOLEAN]
      /\ stored \in [Clients -> Pairs \cup {0}]
      /\ \A d \in Clients : stored[d] # 0 => stored[d] \in Pairs /\ sessionOf[stored[d]] # 0
  BY TornKept DEF Tokens, Working, SessionsTypeOK, SessionRow
<1>1. ASSUME NEW d \in Clients, LoggedIn(d), c = d PROVE session'[sessionOf'[stored'[c]]].pair = stored'[c]
  <2>1. stored'[c] = login[c].pair /\ session' = session /\ sessionOf' = sessionOf
    BY <1>0, <1>1 DEF LoggedIn, rows
  <2> QED
    BY <1>1, <2>1 DEF LoggedIn, Newest, Takes
<1>2. ASSUME NEW r \in Calls, Renewed(r), c = Caller[r] PROVE session'[sessionOf'[stored'[c]]].pair = stored'[c]
  <2>1. stored'[c] = call[r].pair /\ session' = session /\ sessionOf' = sessionOf
    BY <1>0, <1>2 DEF Renewed, rows
  <2> QED
    BY <1>2, <2>1 DEF Renewed, Newest, Takes
<1>3. ASSUME stored'[c] = stored[c], ~refreshing[c] PROVE session'[sessionOf'[stored'[c]]].pair = stored'[c]
  <2> DEFINE p == stored[c]
  <2>1. p \in Pairs /\ p # 0 /\ sessionOf[p] # 0 /\ sessionOf[p] \in Ids /\ Uses(c, sessionOf[p])
    BY <1>0, <1>3 DEF Uses
  <2>2. SessionActive(p)
    BY <1>0, <1>3, <2>1, ActiveBefore DEF SessionActive
  <2>3. Takes(p)
    BY <1>0, <1>3, <2>1, <2>2 DEF HoldsCurrent, Takes
  <2>4. ASSUME NEW q \in Calls, sessionOf[call[q].pair] = sessionOf[p], call[q].at = "rotate" PROVE FALSE
    <3>1. Uses(Caller[q], sessionOf[p]) /\ Renewing(q)
      BY <2>4, Owners DEF Uses, CallsOf, Renewing
    <3>2. Caller[q] = c
      BY <1>0, <2>1, <3>1, Owners DEF Apart
    <3> QED
      BY <1>0, <1>3, <3>1, <3>2 DEF OneRenews
  <2>5. session'[sessionOf'[p]].pair = p
    BY <1>0, <2>1, <2>3, <2>4, TakesKept
  <2> QED
    BY <1>3, <2>5
<1>4. ASSUME NEW d \in Clients, Cleared(d) PROVE stored'[c] = stored[c]
  BY <1>0, <1>4 DEF Cleared
<1>5. ASSUME NEW d \in Clients, LoggedIn(d), c # d PROVE stored'[c] = stored[c]
  BY <1>0, <1>5 DEF LoggedIn
<1>6. ASSUME NEW r \in Calls, Renewed(r), c # Caller[r] PROVE stored'[c] = stored[c]
  BY <1>0, <1>6 DEF Renewed
<1>7. ASSUME refreshing[c] PROVE session'[sessionOf'[stored'[c]]].pair = stored'[c]
  <2>1. ASSUME Restart(c) PROVE FALSE
    BY <1>0, <1>7, <2>1 DEF Restart
  <2>2. ASSUME NEW r \in CallsOf(c), RefreshFails(r) PROVE FALSE
    BY <1>0, <2>2 DEF RefreshFails, CallsOf
  <2>3. ASSUME NEW r \in CallsOf(c), Renewed(r) PROVE session'[sessionOf'[stored'[c]]].pair = stored'[c]
    BY <1>2, <2>3 DEF CallsOf
  <2> QED
    BY <1>0, <1>7, <2>1, <2>2, <2>3, RefreshingChange
<1> QED
  BY <1>0, <1>1, <1>2, <1>3, <1>4, <1>5, <1>6, <1>7, StoredChange, Owners

\* A logout that has its answer has ended the session.
LEMMA LogoutRevokesKept ==
  ASSUME Tokens, Working, HoldsCurrent, LogoutRevokes, [SessionsNext]_sessionsVars
  PROVE  LogoutRevokes'
<1> SUFFICES ASSUME NEW c \in Clients, ~torn'[c], logout'[c].at = "back", stored'[c] # 0,
                    session'[sessionOf'[stored'[c]]].status = "active"
             PROVE  FALSE
  BY DEF LogoutRevokes, SessionActive
<1>0. /\ SessionsTypeOK /\ Issued /\ OneRenews /\ Way(c) /\ ~torn[c]
      /\ session \in [Ids -> SessionRow] /\ sessionOf \in [Pairs -> Ids \cup {0}]
      /\ call \in [Calls -> Call] /\ login \in [Clients -> Login]
      /\ logout \in [Clients -> Logout] /\ torn \in [Clients -> BOOLEAN]
      /\ stored \in [Clients -> Pairs \cup {0}]
      /\ \A d \in Clients : stored[d] # 0 => stored[d] \in Pairs /\ sessionOf[stored[d]] # 0
  BY TornKept DEF Tokens, Working, SessionsTypeOK, SessionRow
<1>1. ASSUME LoseLogout(c) PROVE FALSE
  BY <1>0, <1>1 DEF LoseLogout
<1>2. ASSUME LogoutWechatMiniProgram(c) PROVE FALSE
  <2>1. /\ logout[c].pair = stored[c] /\ stored' = stored /\ sessionOf' = sessionOf
        /\ stored[c] # 0 /\ ~refreshing[c]
    BY <1>0, <1>2 DEF LogoutWechatMiniProgram, program, Way, Silent
  <2>2. sessionOf[stored[c]] \in Ids
    BY <1>0, <2>1
  <2>3. session[sessionOf[stored[c]]].status = "active"
    BY <1>0, <2>1, ActiveBefore
  <2>4. session[sessionOf[stored[c]]].pair = stored[c]
    BY <1>0, <2>1, <2>3 DEF HoldsCurrent, SessionActive
  <2>5. session'[sessionOf[stored[c]]].status = "revoked"
    BY <1>0, <1>2, <2>1, <2>2, <2>3, <2>4 DEF LogoutWechatMiniProgram, SessionRow
  <2> QED
    BY <2>1, <2>5
<1>3. ASSUME logout[c].at = "back" PROVE FALSE
  <2>1. ~refreshing[c] /\ loggedIn[c] /\ login[c] = Silent
    BY <1>0, <1>3 DEF Way, Silent
  <2>2. ASSUME NEW d \in Clients, LoggedOut(d) \/ LoggedIn(d) PROVE stored'[c] = stored[c]
    <3>1. CASE d = c
      BY <1>0, <2>1, <2>2, <3>1 DEF LoggedOut, LoggedIn, Silent
    <3>2. CASE d # c
      BY <1>0, <2>2, <3>2 DEF LoggedOut, LoggedIn
    <3> QED
      BY <3>1, <3>2
  <2>3. ASSUME NEW q \in Calls, Renewed(q) \/ RefreshFails(q) PROVE stored'[c] = stored[c]
    <3>1. Caller[q] # c
      BY <1>0, <2>1, <2>3 DEF Renewed, RefreshFails, OneRenews, Renewing
    <3> QED
      BY <1>0, <2>3, <3>1 DEF Renewed, RefreshFails
  <2>4. stored'[c] = stored[c]
    BY <2>2, <2>3, StoredChange
  <2>5. session[sessionOf[stored[c]]].status = "active"
    BY <1>0, <2>4, ActiveBefore
  <2> QED
    BY <1>0, <1>3, <2>4, <2>5 DEF LogoutRevokes, SessionActive
<1> QED
  BY <1>0, <1>1, <1>2, <1>3, LogoutChange


(***************************************************************************)
(* Bindings.                                                               *)
(***************************************************************************)
Bound(u) == binding[u] # None \/ mixed[u]
BoundAfter(u) == binding'[u] # None \/ mixed'[u]

\* A binding is lost by a step of its user's, and what that may meet is noted.
LEMMA BoundChange ==
  ASSUME SessionsTypeOK, [SessionsNext]_sessionsVars, NEW u \in Users, Bound(u)
  PROVE  \/ BoundAfter(u)
         \/ WebUnbind(u) /\ ~LoggingIn(u) /\ ~HasSession(u)
         \/ \E r \in Calls : Unbind(r) /\ call[r].user = u /\ ~LoggingIn(u)
         \/ DeleteAccount(u)
<1> DEFINE Goal == \/ BoundAfter(u)
                   \/ WebUnbind(u) /\ ~LoggingIn(u) /\ ~HasSession(u)
                   \/ \E r \in Calls : Unbind(r) /\ call[r].user = u /\ ~LoggingIn(u)
                   \/ DeleteAccount(u)
<1>0. /\ binding \in [Users -> Wechats \cup {None}] /\ mixed \in [Users -> BOOLEAN]
      /\ call \in [Calls -> Call]
  BY DEF SessionsTypeOK
<1>1. ASSUME NEW v \in Users, WebUnbind(v) PROVE Goal
  <2>1. CASE u = v
    <3>1. mixed'[u] = (mixed[u] \/ HasSession(u) \/ LoggingIn(u))
      BY <1>0, <1>1, <2>1 DEF WebUnbind
    <3> QED
      BY <1>1, <2>1, <3>1 DEF Bound, BoundAfter
  <2>2. CASE u # v
    BY <1>0, <1>1, <2>2 DEF WebUnbind, Bound, BoundAfter
  <2> QED
    BY <2>1, <2>2
<1>2. ASSUME NEW r \in Calls, Unbind(r) PROVE Goal
  <2>1. CASE u = call[r].user
    <3>1. mixed'[u] = (mixed[u] \/ LoggingIn(u))
      BY <1>0, <1>2, <2>1 DEF Unbind
    <3> QED
      BY <1>2, <2>1, <3>1 DEF Bound, BoundAfter
  <2>2. CASE u # call[r].user
    BY <1>0, <1>2, <2>2 DEF Unbind, Bound, BoundAfter
  <2> QED
    BY <2>1, <2>2
<1>3. ASSUME NEW v \in Users, DeleteAccount(v) PROVE Goal
  <2>1. CASE u = v
    BY <1>3, <2>1
  <2>2. CASE u # v
    BY <1>0, <1>3, <2>2 DEF DeleteAccount, Bound, BoundAfter
  <2> QED
    BY <2>1, <2>2
<1>4. ASSUME NEW c \in Clients, NEW v \in Users, Bind(c, v) PROVE Goal
  <2>1. mixed' = mixed /\ (u # v => binding'[u] = binding[u]) /\ (u = v => binding'[u] # None)
    BY <1>0, <1>4, Owners DEF Bind, upsertWechatBindingForUser, LoginStep
  <2> QED
    BY <2>1 DEF Bound, BoundAfter
<1>5. UNCHANGED <<binding, mixed>> => Goal
  BY DEF Bound, BoundAfter
<1> HIDE DEF Goal
<1>6. ASSUME NEW d \in Clients,
             \/ HandleWechatLogin(d) \/ LoginWechatMiniProgram(d) \/ OfferExpires(d) \/ CreateSession(d)
             \/ LoggedIn(d) \/ LoginFails(d) \/ LoseLogin(d)
             \/ HandleLogout(d) \/ LogoutWechatMiniProgram(d) \/ LoseLogout(d) \/ LoggedOut(d)
             \/ Restart(d)
      PROVE  UNCHANGED <<binding, mixed>>
  BY <1>6 DEF HandleWechatLogin, LoginWechatMiniProgram, OfferExpires, CreateSession, LoggedIn, LoginFails,
     LoseLogin, HandleLogout, LogoutWechatMiniProgram, LoseLogout, LoggedOut, Restart, LoginStep, rows
<1>7. ASSUME NEW r \in Calls,
             \/ Guard(r) \/ UnbindRefused(r) \/ Answered(r) \/ RefreshReads(r) \/ RefreshWrites(r) \/ Lose(r)
             \/ Renewed(r) \/ RefreshFails(r) \/ Unauthorized(r) \/ LoseRefresh(r)
             \/ \E kind \in Kind : Request(r, kind)
      PROVE  UNCHANGED <<binding, mixed>>
  BY <1>7 DEF Guard, UnbindRefused, Answered, RefreshReads, RefreshWrites, Lose, Renewed,
     RefreshFails, Unauthorized,
     LoseRefresh, Request, rows
<1>8. ASSUME \/ \E v \in Users : WebRegister(v)
             \/ \E p \in Pairs : Expire(p)
             \/ \E s \in Ids : EndOfSession(s)
             \/ UNCHANGED sessionsVars
      PROVE  UNCHANGED <<binding, mixed>>
  BY <1>8 DEF WebRegister, Expire, EndOfSession, sessionsVars, rows
<1>9. ASSUME NEW d \in Clients,
             \/ HandleWechatLogin(d) \/ LoginWechatMiniProgram(d) \/ OfferExpires(d) \/ CreateSession(d)
             \/ LoggedIn(d) \/ LoginFails(d) \/ LoseLogin(d)
             \/ \E v \in Users : Bind(d, v)
             \/ HandleLogout(d) \/ LogoutWechatMiniProgram(d) \/ LoseLogout(d) \/ LoggedOut(d)
             \/ Restart(d)
      PROVE  Goal
  BY <1>4, <1>5, <1>6, <1>9
<1>10. ASSUME NEW r \in Calls,
              \/ CallSteps(r) \/ Lose(r) \/ LoseRefresh(r)
              \/ \E kind \in Kind : Request(r, kind)
       PROVE  Goal
  BY <1>2, <1>5, <1>7, <1>10 DEF CallSteps
<1>11. Goal
  BY <1>1, <1>3, <1>5, <1>8, <1>9, <1>10 DEF SessionsNext
<1> QED
  BY <1>11 DEF Goal

\* An account is deleted by its user, and for good.
LEMMA AccountChange ==
  ASSUME SessionsTypeOK, [SessionsNext]_sessionsVars, NEW u \in Users
  PROVE  /\ account[u] = "deleted" => account'[u] = "deleted"
         /\ account'[u] = "deleted" => account[u] = "deleted" \/ DeleteAccount(u)
<1> DEFINE Goal == /\ account[u] = "deleted" => account'[u] = "deleted"
                   /\ account'[u] = "deleted" => account[u] = "deleted" \/ DeleteAccount(u)
<1>0. account \in [Users -> {"none", "active", "deleted"}]
  BY DEF SessionsTypeOK
<1>1. ASSUME NEW v \in Users, WebRegister(v) PROVE Goal
  BY <1>0, <1>1 DEF WebRegister
<1>2. ASSUME NEW v \in Users, DeleteAccount(v) PROVE Goal
  <2>1. CASE u = v
    BY <1>0, <1>2, <2>1 DEF DeleteAccount
  <2>2. CASE u # v
    <3>1. account'[u] = account[u]
      BY <1>0, <1>2, <2>2 DEF DeleteAccount
    <3> QED
      BY <3>1
  <2> QED
    BY <2>1, <2>2
<1>3. ASSUME NEW c \in Clients, NEW v \in Users, Bind(c, v) PROVE Goal
  BY <1>0, <1>3 DEF Bind
<1>4. account' = account => Goal
  OBVIOUS
<1> HIDE DEF Goal
<1>5. ASSUME NEW d \in Clients,
             \/ HandleWechatLogin(d) \/ LoginWechatMiniProgram(d) \/ OfferExpires(d) \/ CreateSession(d)
             \/ LoggedIn(d) \/ LoginFails(d) \/ LoseLogin(d)
             \/ HandleLogout(d) \/ LogoutWechatMiniProgram(d) \/ LoseLogout(d) \/ LoggedOut(d)
             \/ Restart(d)
      PROVE  account' = account
  BY <1>5 DEF HandleWechatLogin, LoginWechatMiniProgram, OfferExpires, CreateSession, LoggedIn, LoginFails,
     LoseLogin, HandleLogout, LogoutWechatMiniProgram, LoseLogout, LoggedOut, Restart, rows
<1>6. ASSUME NEW r \in Calls,
              \/ CallSteps(r) \/ Lose(r) \/ LoseRefresh(r)
              \/ \E kind \in Kind : Request(r, kind)
      PROVE  account' = account
  BY <1>6 DEF CallSteps, Guard, UnbindRefused, Unbind, Answered, RefreshReads, RefreshWrites, Lose,
     Renewed, RefreshFails,
     Unauthorized, LoseRefresh, Request, rows
<1>7. ASSUME \/ \E v \in Users : WebUnbind(v)
             \/ \E p \in Pairs : Expire(p)
             \/ \E s \in Ids : EndOfSession(s)
             \/ UNCHANGED sessionsVars
      PROVE  account' = account
  BY <1>7 DEF WebUnbind, Expire, EndOfSession, sessionsVars, rows
<1>8. ASSUME NEW d \in Clients,
             \/ HandleWechatLogin(d) \/ LoginWechatMiniProgram(d) \/ OfferExpires(d) \/ CreateSession(d)
             \/ LoggedIn(d) \/ LoginFails(d) \/ LoseLogin(d)
             \/ \E v \in Users : Bind(d, v)
             \/ HandleLogout(d) \/ LogoutWechatMiniProgram(d) \/ LoseLogout(d) \/ LoggedOut(d)
             \/ Restart(d)
      PROVE  Goal
  BY <1>3, <1>4, <1>5, <1>8
<1>9. Goal
  BY <1>1, <1>2, <1>4, <1>6, <1>7, <1>8 DEF SessionsNext
<1> QED
  BY <1>9 DEF Goal

\* A login finds an account that is bound, or was a moment ago.
LEMMA FoundIsBoundKept ==
  ASSUME Tokens, FoundIsBound, [SessionsNext]_sessionsVars
  PROVE  FoundIsBound'
<1>0. /\ SessionsTypeOK /\ Issued
      /\ session \in [Ids -> SessionRow] /\ login \in [Clients -> Login]
      /\ account \in [Users -> {"none", "active", "deleted"}]
      /\ binding \in [Users -> Wechats \cup {None}]
  BY DEF Tokens, SessionsTypeOK, SessionRow
<1>1. ASSUME NEW c \in Clients, login'[c].at = "found"
      PROVE  LET u == login'[c].user IN binding'[u] # None \/ mixed'[u] \/ account'[u] = "deleted"
  <2>1. CASE login'[c] = login[c]
    <3> DEFINE u == login[c].user
    <3>1. u \in Users /\ LoggingIn(u) /\ (Bound(u) \/ account[u] = "deleted")
      BY <1>0, <1>1, <2>1, LoginIs DEF LoggingIn, FoundIsBound, Bound, BoundAfter
    <3>2. CASE account[u] = "deleted"
      BY <1>0, <2>1, <3>1, <3>2, AccountChange
    <3>3. CASE Bound(u)
      <4>1. DeleteAccount(u) => account'[u] = "deleted"
        BY <1>0, <3>1 DEF DeleteAccount
      <4>2. BoundAfter(u) \/ account'[u] = "deleted"
        BY <1>0, <3>1, <3>3, <4>1, BoundChange
      <4> QED
        BY <2>1, <4>2 DEF Bound, BoundAfter
    <3> QED
      BY <3>1, <3>2, <3>3
  <2>2. CASE LoginWechatMiniProgram(c)
    <3>1. PICK w \in exchangeWechatCode(c) :
            LoginStep(c, IF w = None THEN Silent
                         ELSE IF findActiveWechatBinding(w) = {} THEN [at |-> "offered"]
                         ELSE [at |-> "found", user |-> CHOOSE u \in findActiveWechatBinding(w) : TRUE])
      BY <2>2 DEF LoginWechatMiniProgram
    <3> DEFINE u == CHOOSE u \in findActiveWechatBinding(w) : TRUE
    <3>2. findActiveWechatBinding(w) # {} => binding[u] = w
      BY DEF findActiveWechatBinding
    <3>3. login'[c] = IF w = None THEN Silent
                      ELSE IF findActiveWechatBinding(w) = {} THEN [at |-> "offered"]
                      ELSE [at |-> "found", user |-> u]
      BY <1>0, <3>1 DEF LoginStep
    <3> HIDE DEF u
    <3>4. w # None /\ findActiveWechatBinding(w) # {} /\ login'[c].user = u
      BY <1>1, <3>3 DEF Silent
    <3> QED
      BY <2>2, <3>2, <3>4 DEF LoginWechatMiniProgram, rows
  <2>3. ASSUME NEW u \in Users, Bind(c, u) PROVE login'[c].user = u /\ binding'[u] # None
    BY <1>0, <2>3, Owners DEF Bind, LoginStep, upsertWechatBindingForUser
  <2>4. CASE CreateSession(c)
    <3>1. PICK s \in Ids, p \in Pairs : Creates(c, s, p)
      BY <2>4, CreateSessionDoes
    <3> QED
      BY <1>0, <1>1, <3>1 DEF Creates
  <2> QED
    BY <1>0, <1>1, <2>1, <2>2, <2>3, <2>4, LoginChange
<1>2. ASSUME NEW s \in Ids, session'[s].status = "active" PROVE account'[session'[s].user] # "deleted"
  <2>1. CASE Ending
    <3>1. session[s].status = "active" /\ session'[s].user = session[s].user
      BY <1>2, <2>1 DEF Ending, Ended
    <3>2. session[s].user \in Users /\ account[session[s].user] # "deleted"
      BY <1>0, <3>1 DEF Issued, FoundIsBound
    <3>3. ~DeleteAccount(session[s].user)
      BY <1>0, <1>2 DEF DeleteAccount, SessionRow
    <3> QED
      BY <1>0, <3>1, <3>2, <3>3, AccountChange
  <2>2. ASSUME NEW c \in Clients, NEW t \in Ids, NEW p \in Pairs, Creates(c, t, p)
        PROVE  account'[session'[s].user] # "deleted"
    BY <1>0, <1>2, <2>2 DEF Creates, FoundIsBound
  <2>3. ASSUME NEW r \in Calls, NEW p \in Pairs, Renews(r, p)
        PROVE  account'[session'[s].user] # "deleted"
    BY <1>0, <1>2, <2>3 DEF Renews, FoundIsBound, SessionRow
  <2> QED
    BY <1>0, <2>1, <2>2, <2>3, RowsChange
<1> QED
  BY <1>1, <1>2 DEF FoundIsBound

\* A session that is active is of a user with a binding.
LEMMA ActiveIsBoundKept ==
  ASSUME Tokens, Bindings, [SessionsNext]_sessionsVars
  PROVE  ActiveIsBound'
<1> SUFFICES ASSUME NEW s \in Ids, session'[s].status = "active" PROVE BoundAfter(session'[s].user)
  BY DEF ActiveIsBound, Bound, BoundAfter
<1>0. /\ SessionsTypeOK /\ Issued /\ FoundIsBound /\ ActiveIsBound
      /\ session \in [Ids -> SessionRow] /\ login \in [Clients -> Login]
      /\ call \in [Calls -> Call]
  BY DEF Tokens, Bindings, SessionsTypeOK, SessionRow
<1>1. CASE Ending
  <2> DEFINE u == session[s].user
  <2>1. session[s].status = "active" /\ session'[s].user = u
    BY <1>1 DEF Ending, Ended
  <2>2. u \in Users /\ Bound(u) /\ HasSession(u)
    BY <1>0, <2>1 DEF Issued, ActiveIsBound, Bound, BoundAfter, HasSession
  <2>3. ASSUME NEW r \in Calls, Unbind(r), call[r].user = u PROVE FALSE
    BY <1>0, <2>1, <2>3 DEF Unbind, Revoked, SessionRow
  <2>4. ~DeleteAccount(u)
    BY <1>0 DEF DeleteAccount, SessionRow
  <2>5. BoundAfter(u)
    BY <1>0, <2>2, <2>3, <2>4, BoundChange
  <2> QED
    BY <2>1, <2>5
<1>2. ASSUME NEW c \in Clients, NEW t \in Ids, NEW p \in Pairs, Creates(c, t, p)
      PROVE  BoundAfter(session'[s].user)
  <2>1. UNCHANGED <<binding, mixed>>
    BY <1>2 DEF Creates
  <2>2. Bound(session'[s].user)
    BY <1>0, <1>2 DEF Creates, FoundIsBound, ActiveIsBound, Bound, BoundAfter
  <2> QED
    BY <2>1, <2>2 DEF Bound, BoundAfter
<1>3. ASSUME NEW r \in Calls, NEW p \in Pairs, Renews(r, p)
      PROVE  BoundAfter(session'[s].user)
  <2>1. UNCHANGED <<binding, mixed>>
    BY <1>3 DEF Renews
  <2>2. Bound(session'[s].user)
    BY <1>0, <1>3 DEF Renews, ActiveIsBound, Bound, BoundAfter, SessionRow
  <2> QED
    BY <2>1, <2>2 DEF Bound, BoundAfter
<1> QED
  BY <1>0, <1>1, <1>2, <1>3, RowsChange


(***************************************************************************)
(* The theorems.                                                           *)
(***************************************************************************)
\* In the beginning nobody holds anything.
LEMMA SessionsInvInit ==
  ASSUME SessionsInit
  PROVE  SessionsInv
<1>1. SessionsTypeOK
  BY Owners, StepsAre DEF SessionsInit, SessionsTypeOK, SessionStatus
<1>2. (\A r \in Calls : ~Renewing(r) /\ call[r].at = "idle") /\ (\A c \in Clients : login[c].at = "idle")
  BY DEF SessionsInit, Renewing, Silent
<1>3. Issued /\ Apart /\ OneRenews
  BY <1>2 DEF SessionsInit, Issued, Apart, Uses, Gets, OneRenews, CallsOf
<1>4. Newest /\ Working
  BY <1>2 DEF SessionsInit, Newest, Working, Way, InHand, Silent
<1>5. HoldsCurrent /\ LogoutRevokes
  BY <1>2 DEF SessionsInit, HoldsCurrent, LogoutRevokes, Silent
<1>6. FoundIsBound /\ ActiveIsBound
  BY <1>2 DEF SessionsInit, FoundIsBound, ActiveIsBound
<1> QED
  BY <1>1, <1>3, <1>4, <1>5, <1>6 DEF SessionsInv, Tokens, Programs, Bindings
LEMMA SessionsInvNext ==
  ASSUME SessionsInv, [SessionsNext]_sessionsVars
  PROVE  SessionsInv'
<1>1. Tokens'
  BY TokensKept DEF SessionsInv
<1>2. Programs'
  BY NewestKept, WorkingKept, HoldsCurrentKept, LogoutRevokesKept DEF SessionsInv, Programs
<1>3. Bindings'
  BY FoundIsBoundKept, ActiveIsBoundKept DEF SessionsInv, Bindings
<1> QED
  BY <1>1, <1>2, <1>3 DEF SessionsInv

\* The invariant: pairs and sessions belong to one program, which renews once at a time and
\* is about to store only what its session takes.
THEOREM SessionsInvariant == SessionsSpec => []SessionsInv
<1>1. SessionsInit => SessionsInv
  BY SessionsInvInit
<1>2. SessionsInv /\ [SessionsNext]_sessionsVars => SessionsInv'
  BY SessionsInvNext
<1> QED
  BY <1>1, <1>2, PTL DEF SessionsSpec

\* A program that is not renewing its pair holds the one its session takes, unless it is torn:
\* an answer to it was lost or its logout met a renewal (refreshWechatMiniProgramSession,
\* tryRefreshAndRetry).  No active session is left of a binding that was undone, unless its user
\* is mixed: a login was under way (auth.service.ts:955) or the web client undid it
\* (unbindWechatMiniProgram).
THEOREM TokensAgreeHolds == SessionsSpec => []TokensAgree
<1>1. SessionsInv => TokensAgree
  BY DEF SessionsInv, Tokens, Programs, Bindings, TokensAgree
<1> QED
  BY <1>1, SessionsInvariant, PTL

\* What has ended is not active again, whoever was renewing it; and a logout that was answered
\* has ended the session and left the program no token, unless the program is torn: a renewal was
\* under way, whose hash the logout does not find (auth.service.ts:342), or an answer was lost
\* (logoutMiniProgram, logoutWechatMiniProgram).
THEOREM LogoutIsFinalHolds == SessionsSpec => LogoutIsFinal
<1>1. SessionsInv => LogoutRevokes /\ StaysLoggedOut
  BY DEF SessionsInv, Programs, Working, Way, StaysLoggedOut
<1>2. SessionsInv /\ [SessionsNext]_sessionsVars =>
        [\A s \in Ids : session[s].status \in {"over", "revoked", "deleted"}
           => session'[s].status # "active"]_sessionsVars
  BY RowsKept DEF SessionsInv, Tokens, Ended
<1> QED
  BY <1>1, <1>2, SessionsInvariant, PTL DEF SessionsSpec, LogoutIsFinal, EndedStays

\* A program loses its tokens by a logout, or because the server refused the pair that it
\* holds, and by no older refusal (clearTokens).
LEMMA LosesByRefusal ==
  ASSUME SessionsInv, [SessionsNext]_sessionsVars, NEW c \in Clients, stored[c] # 0, stored'[c] = 0, ~torn[c]
  PROVE  \/ logout[c].at = "back"
         \/ \E r \in CallsOf(c) : call[r].at = "refused" /\ call[r].pair = stored[c]
<1>0. /\ SessionsTypeOK /\ Issued /\ Working
      /\ stored \in [Clients -> Pairs \cup {0}] /\ call \in [Calls -> Call] /\ login \in [Clients -> Login]
  BY DEF SessionsInv, Tokens, Programs, SessionsTypeOK
<1>1. ASSUME NEW d \in Clients, LoggedOut(d), Cleared(d) PROVE logout[c].at = "back"
  BY <1>0, <1>1 DEF LoggedOut, Cleared
<1>2. ASSUME NEW r \in Calls, RefreshFails(r), Cleared(Caller[r])
      PROVE  \E q \in CallsOf(c) : call[q].at = "refused" /\ call[q].pair = stored[c]
  <2>1. Caller[r] = c
    BY <1>0, <1>2 DEF Cleared
  <2> QED
    BY <1>0, <1>2, <2>1 DEF RefreshFails, CallsOf, Working, InHand, Renewing
<1>3. ASSUME NEW d \in Clients, LoggedIn(d) PROVE FALSE
  BY <1>0, <1>3, LoginIs, Positive DEF LoggedIn
<1>4. ASSUME NEW r \in Calls, Renewed(r) PROVE FALSE
  <2>1. call[r].pair # 0
    BY <1>0, <1>4 DEF Renewed, Renewing, Issued
  <2> QED
    BY <1>0, <1>4, <2>1 DEF Renewed
<1> QED
  BY <1>1, <1>2, <1>3, <1>4, StoredChange

\* A program that is not torn loses its tokens by its logout or the refusal of these very tokens,
\* see LosesByRefusal.
THEOREM KeepsTokensHolds == SessionsSpec => KeepsTokens
<1>1. SessionsInv /\ [SessionsNext]_sessionsVars =>
        [\A c \in Clients : stored[c] # 0 /\ stored'[c] = 0 /\ ~torn[c] =>
           \/ logout[c].at = "back"
           \/ \E r \in CallsOf(c) : call[r].at = "refused" /\ call[r].pair = stored[c]]_sessionsVars
  BY LosesByRefusal
<1> QED
  BY <1>1, SessionsInvariant, PTL DEF SessionsSpec, KeepsTokens
-----------------------------------------------------------------------------
(* Goals.                                                                  *)

\* The steps of each kind of request and of job.
Ways ==
  ({"none"} \X {"idle"})
  \cup ({"settle", "get"} \X {"tasks", "settle", "exists", "find", "create", "attach", "compose", "write",
                              "record", "recorded"})
  \cup ({"get"} \X {"get", "goal"}) \cup ({"restart"} \X {"restart"})
  \cup ({"rescue"} \X {"context", "existing", "deviation", "deviate", "create", "attach", "persist", "recorded"})
  \cup ({"health"} \X {"context", "deviation", "deviate", "snapshot"})
  \cup ({"report", "later"} \X {"create", "attach"}) \cup ({"trend"} \X {"previous", "publish"})
  \cup ({"milestone", "checkin"} \X {"complete"}) \cup ({"backfill"} \X {"events"})
  \cup ({"cancel"} \X {"cancel"}) \cup ({"admin"} \X {"requeue", "requeued"})
  \cup ({"failureJob"} \X {"owner", "attempt", "compose", "write", "retry", "succeed", "fail"})
  \cup ({"rescueJob"} \X {"context", "existing", "deviation", "deviate", "running", "persist", "succeed", "fail"})
  \cup ({"healthJob"} \X {"running", "context", "deviation", "deviate", "snapshot", "succeed", "fail"})
  \cup ({"trendJob"} \X {"running", "range", "previous", "publish", "succeed", "fail"})
  \cup ({"otherJob"} \X {"fail"})

\* A runner is at a step of what it does, and does what is its own.
Who == \A r \in Runners :
  /\ <<run[r].does, run[r].at>> \in Ways
  /\ r \in Workers => run[r].does \in Jobs \cup {"none"}
  /\ r \in Requests => run[r].does \in {mix[r], "none"}

\* What has overlapped is known to have met.
Overlap == \A r, q \in Runners :
  r # q /\ run[r].at # "idle" /\ run[q].at # "idle" => Meeting(run[r].does, run[q].does) \subseteq met

\* What a runner has read or found is there.
Knows(r) ==
  /\ run[r].event <= Len(deviation)
  /\ run[r].does \in {"rescue", "rescueJob"} => run[r].found \in {0} \cup DOMAIN rescue
  /\ run[r].at = "recorded" =>
       \/ run[r].found = 0
       \/ run[r].does # "rescue" /\ run[r].found \in DOMAIN job /\ job[run[r].found].type = "FAILURE"
  /\ run[r].at = "deviate" => run[r].reason \in ReasonSet
  /\ run[r].does = "checkin" => run[r].task \in Tasks
  /\ run[r].does \in {"trend", "trendJob", "later"} => run[r].kind \in Trends
  /\ run[r].does \in {"health", "healthJob"} /\ run[r].at \in {"deviation", "deviate", "snapshot"} => run[r].count <= 100
  /\ run[r].does \in Jobs \cup {"cancel", "admin"} \/ run[r].at = "attach" => run[r].job \in DOMAIN job
  /\ run[r].does = "rescue" /\ run[r].at = "persist" => ~async
  /\ run[r].does = "backfill" => run[r].todo # <<>>
Known == \A r \in Runners : Knows(r)

\* The queue and the types of the jobs that a kind of work is for.
QueueFor(does) == IF does \in {"healthJob", "trendJob"} THEN "reports" ELSE "ai-jobs"
TypesFor(does) ==
  IF does = "failureJob" THEN {"FAILURE"} ELSE IF does = "rescueJob" THEN {"RESCUE"} ELSE {"HEALTH"} \cup Trends

\* A worker serves an entry that is its own, and does what the job is for.
Serves(w) == run[w].at # "idle" =>
  /\ queue[<<QueueFor(run[w].does), run[w].job>>] = "active"
  /\ job[run[w].job].type \in TypesFor(run[w].does)
Distinct == \A v, w \in Workers : v # w /\ run[v].at # "idle" /\ run[w].at # "idle" =>
  <<QueueFor(run[v].does), run[v].job>> # <<QueueFor(run[w].does), run[w].job>>
ReportsQueue == \A j \in DOMAIN job : queue[<<"reports", j>>] # "none" => job[j].type \in {"HEALTH"} \cup Trends
Entries == (\A w \in Workers : Serves(w)) /\ Distinct /\ ReportsQueue

\* Each request makes one job at most.
Making == {r \in Requests : run[r].at \notin {"idle", "attach"}}
Counted == Len(job) + Cardinality(Making) <= asked

Sound == TypeOK /\ Who /\ Overlap /\ Known /\ Entries /\ Counted

\* While settlements do not overlap, a settlement has read the status that is, and no backfill
\* brings another outcome; unless a milestone changes during a backfill, it brings only what is.
Outcomes == GrowthEvent("FAILED") \cup GrowthEvent("COMPLETED")
SettlesWhatIs == "settlement" \notin met =>
  \A r \in Runners :
    /\ run[r].at \in {"tasks", "settle"} => run[r].status = goal.status
    /\ run[r].does = "backfill" =>
         \A i \in DOMAIN run[r].todo : run[r].todo[i] \cap Outcomes \subseteq GrowthEvent(goal.status)
BringsWhatIs == met \cap {"settlement", "timeline"} = {} =>
  \A r \in Runners : run[r].does = "backfill" =>
    \A i \in DOMAIN run[r].todo : run[r].todo[i] \subseteq DerivedEvents
Timeline == OutcomeRecorded /\ EventsDerived /\ SettlesWhatIs /\ BringsWhatIs

\* What a trend report has read of the snapshots is so.
TrendSeen == "trend" \notin met =>
  \A r \in Runners :
    /\ run[r].at \in {"previous", "publish"} => run[r].trend.average = TrendAverage(run[r].kind, run[r].day)
    /\ run[r].at = "publish" => run[r].trend.previous = TrendPrevious(run[r].kind, run[r].day)

\* A job is as whoever is at it has left or found it.
JobSeen == "job" \notin met =>
  \A r \in Runners :
    /\ run[r].does \in {"failureJob", "rescueJob"} => job[run[r].job].status \in Active
    /\ run[r].at = "recorded" /\ run[r].found # 0 => job[run[r].found].status = "SUCCEEDED"
    /\ run[r].does = "cancel" => job[run[r].job].status = "QUEUED"
    /\ run[r].does = "admin" => job[run[r].job].status = "FAILED"

\* One report job is open at most, and none when one is about to be made.
ReportJobs == met \cap {"settlement", "job"} = {} /\ (\A r \in Requests : mix[r] # "admin") =>
  /\ \A i, j \in ActiveReportJobs : i = j
  /\ \A r \in Runners : run[r].at = "create" /\ run[r].does \in {"settle", "get"} => ActiveReportJobs = {}

\* One rescue task of a day is open at most, and none when one is about to be made.
Makes(does) == does = "rescueJob" \/ (does = "rescue" /\ ~async)
RescueSeen == "rescue" \notin met =>
  /\ \A d \in Days : \A i, k \in Pending(d) : i = k
  /\ \A r \in Runners :
       Makes(run[r].does) /\ run[r].at \in {"deviation", "deviate", "running", "persist"} /\ run[r].found = 0 =>
         Pending(run[r].day) = {}

\* Deviations differ, no day is later than the one of who looks for one, and what it found is so.
Deviating == {"rescue", "rescueJob", "health", "healthJob"}
DeviationSeen ==
  /\ \A e \in DOMAIN deviation : deviation[e].day <= day
  /\ "deviation" \notin met =>
       /\ \A e, f \in DOMAIN deviation : e # f => deviation[e] # deviation[f]
       /\ \A r \in Runners : run[r].does \in Deviating /\ run[r].at \in {"existing", "deviation", "deviate"} =>
            /\ run[r].day <= day /\ \A e \in DOMAIN deviation : deviation[e].day <= run[r].day
            /\ run[r].at = "deviate" =>
                 LET row == [day |-> run[r].day, reason |-> run[r].reason] IN
                 IF run[r].event = 0 THEN \A e \in DOMAIN deviation : deviation[e] # row
                 ELSE deviation[run[r].event] = row

(***************************************************************************)
(* How runners move.                                                       *)
(***************************************************************************)
\* The types of the rows.
RowTypes ==
  /\ <<mix, async>> \in Mixes /\ day \in Days /\ goal \in [status : Status, used : Nat]
  /\ plan \in [Planned -> BOOLEAN]
  /\ rescue \in Seq([day : Days, done : BOOLEAN, event : 0..Len(deviation)])
  /\ deviation \in Seq([day : Days, reason : ReasonSet])
  /\ job \in Seq([type : JobType, status : JobStatus, tries : Nat]) /\ DOMAIN job \subseteq JobIds
  /\ queue \in [Queues \X JobIds -> {"none", "waiting", "active"}]
  /\ \A q \in Queues, j \in JobIds : queue[<<q, j>>] # "none" => j \in DOMAIN job
  /\ report \in BOOLEAN /\ milestone \in BOOLEAN /\ events \subseteq Event
  /\ snapshot \in [Days -> NoHealth..100] /\ artifact \in [Trends \X Days -> Trend \cup {Absent}]
  /\ asked \in {0} \cup Asked /\ restarts \in Nat /\ faults \in 0..MaxFaults
LEMMA TypesAre == TypeOK <=> RowTypes /\ run \in [Runners -> Run] /\ met \subseteq Areas
BY DEF TypeOK, RowTypes

\* The constants.
LEMMA Constant ==
  /\ Requests \cap Workers = {} /\ IsFiniteSet(Requests) /\ IsFiniteSet(Planned)
  /\ FirstDay \in Nat /\ LastDay \in Nat /\ EndDay \in Nat /\ FirstDay <= LastDay /\ Planned \subseteq Nat
  /\ Allowed \in Nat /\ MaxTries \in Nat /\ MaxFaults \in Nat /\ MaxReports \in Nat
  /\ Trends \subseteq {"WEEKLY_TREND", "MONTHLY_TREND"} /\ \A t \in Trends : TrendDays[t] \in Nat \ {0}
  /\ \A m \in Mixes : MaxAsks[m] \in Nat /\ 1..MaxAsks[m] \subseteq Asked
  /\ Asked \subseteq Nat \ {0}
<1>1. Allowed \in Nat /\ MaxTries \in Nat /\ MaxFaults \in Nat /\ MaxReports \in Nat
  BY GoalsAssumption
<1>2. FirstDay \in Nat /\ LastDay \in Nat /\ EndDay \in Nat /\ FirstDay <= LastDay /\ Planned \subseteq Nat
  BY GoalsAssumption
<1>3. Trends \subseteq {"WEEKLY_TREND", "MONTHLY_TREND"} /\ \A t \in Trends : TrendDays[t] \in Nat \ {0}
  BY GoalsAssumption DEF Trends
<1>4. \A m \in Mixes : MaxAsks[m] \in Nat
  BY GoalsAssumption
<1>5. \A m \in Mixes : 1..MaxAsks[m] \subseteq Asked
  BY Zenon DEF Asked
<1>6. Asked \subseteq Nat \ {0}
  <2> SUFFICES ASSUME NEW i \in Asked PROVE i \in Nat \ {0}
    OBVIOUS
  <2>1. PICK m \in Mixes : i \in 1..MaxAsks[m]
    BY Zenon DEF Asked
  <2> QED
    BY <2>1, <1>4
<1> QED
  BY <1>1, <1>2, <1>3, <1>4, <1>5, <1>6, GoalsAssumption

\* The runner r, at a step, goes on with n in its hands, or ends with it.
Moves(r, n) ==
  /\ r \in Runners /\ run[r].at # "idle" /\ n \in Run
  /\ <<n.does, n.at>> \in Ways /\ n.does \in {run[r].does, "none"}
  /\ run' = [run EXCEPT ![r] = n] /\ met' = met /\ mix' = mix /\ async' = async
\* The runner r, at rest, begins with n.
Starts(r, n) ==
  /\ r \in Runners /\ run[r].at = "idle" /\ n \in Run /\ n.at # "idle" /\ <<n.does, n.at>> \in Ways
  /\ r \in Workers => n.does \in Jobs
  /\ r \in Requests => n.does = mix[r]
  /\ run' = [run EXCEPT ![r] = n] /\ mix' = mix /\ async' = async
  /\ met' = met \cup UNION {Meeting(n.does, run[q].does) : q \in Busy \ {r}}

\* What is done is done somewhere; who does nothing is idle.
LEMMA WaysIdle == \A d, a : <<d, a>> \in Ways => (d = "none" <=> a = "idle")
BY DEF Ways

\* Whoever moves keeps what it does.
LEMMA MoverWho ==
  ASSUME TypeOK, Who, Overlap, NEW r, NEW n, Moves(r, n) \/ Starts(r, n)
  PROVE  /\ run' \in [Runners -> Run] /\ Who' /\ Overlap'
         /\ met' \subseteq Areas /\ met \subseteq met'
<1>1. run' \in [Runners -> Run]
  BY DEF TypeOK, Moves, Starts
<1>2. Who'
  BY <1>1, WaysIdle DEF TypeOK, Moves, Starts, Who
<1>3. \A x, y : Meeting(x, y) \subseteq Areas /\ Meeting(x, y) = Meeting(y, x)
  BY DEF Meeting
<1>4. CASE Moves(r, n)
  <2>1. met' = met /\ met \subseteq Areas
    BY <1>4 DEF Moves, TypeOK
  <2>2. \A q \in Runners : run'[q].at # "idle" => run[q].at # "idle" /\ run'[q].does = run[q].does
    BY <1>4, WaysIdle DEF Moves, TypeOK, Who
  <2>3. \A a, b \in Runners : a # b /\ run'[a].at # "idle" /\ run'[b].at # "idle" =>
          Meeting(run'[a].does, run'[b].does) \subseteq met'
    BY <2>1, <2>2 DEF Overlap
  <2>4. async' = async
    BY <1>4 DEF Moves
  <2>5. Overlap'
    BY <2>3, <2>4 DEF Overlap, Meeting
  <2> QED
    BY <1>1, <1>2, <2>1, <2>5
<1>5. CASE Starts(r, n)
  <2> DEFINE M == {Meeting(n.does, run[q].does) : q \in Busy \ {r}}
  <2>1. met' = met \cup UNION M /\ met \subseteq Areas
    BY <1>5, Zenon DEF TypeOK, Starts
  <2>2. \A a \in M : a \subseteq Areas
    <3> TAKE a \in M
    <3>1. PICK q \in Busy \ {r} : a = Meeting(n.does, run[q].does)
      BY Zenon
    <3> QED
      BY <3>1, <1>3, Zenon
  <2>3. \A q \in Runners : q # r /\ run[q].at # "idle" => Meeting(n.does, run[q].does) \in M
    BY Zenon DEF Busy
  <2>4. \A q \in Runners : q # r => run'[q] = run[q]
    BY <1>5 DEF Starts, TypeOK
  <2>5. run'[r] = n
    BY <1>5 DEF Starts, TypeOK
  <2> HIDE DEF M
  <2>6. met' \subseteq Areas /\ met \subseteq met'
    BY <2>1, <2>2
  <2>7. \A q \in Runners : q # r /\ run[q].at # "idle" => Meeting(n.does, run[q].does) \subseteq met'
    BY <2>1, <2>3
  <2>8. ASSUME NEW a \in Runners, NEW b \in Runners, a # b, run'[a].at # "idle", run'[b].at # "idle"
        PROVE  Meeting(run'[a].does, run'[b].does) \subseteq met'
    <3>1. CASE a = r
      BY <3>1, <2>4, <2>5, <2>7, <2>8
    <3>2. CASE b = r
      <4>1. Meeting(n.does, run[a].does) \subseteq met'
        BY <3>2, <2>4, <2>7, <2>8
      <4>2. Meeting(n.does, run[a].does) = Meeting(run[a].does, n.does)
        BY <1>3
      <4> QED
        BY <3>2, <4>1, <4>2, <2>4, <2>5, <2>8
    <3>3. CASE a # r /\ b # r
      BY <3>3, <2>4, <2>6, <2>8 DEF Overlap
    <3> QED
      BY <3>1, <3>2, <3>3
  <2>9. async' = async
    BY <1>5 DEF Starts
  <2>10. Overlap'
    BY <2>8, <2>9 DEF Overlap, Meeting
  <2> QED
    BY <1>1, <1>2, <2>6, <2>10
<1> QED
  BY <1>1, <1>2, <1>4, <1>5

\* Rows come and stay.
Grow ==
  /\ Len(deviation) <= Len(deviation') /\ DOMAIN rescue \subseteq DOMAIN rescue'
  /\ DOMAIN job \subseteq DOMAIN job' /\ \A j \in DOMAIN job : job'[j].type = job[j].type

\* Whoever does not move knows what it knew.
LEMMA StepSound ==
  ASSUME Sound, NEW r, NEW n, Moves(r, n) \/ Starts(r, n), RowTypes', Grow, Knows(r)', Entries', Counted'
  PROVE  Sound'
<1>1. TypeOK /\ Who /\ Overlap /\ Known
  BY DEF Sound
<1>2. run' \in [Runners -> Run] /\ Who' /\ Overlap' /\ met' \subseteq Areas
  BY <1>1, MoverWho
<1>3. ASSUME NEW q \in Runners, q # r PROVE Knows(q)'
  <2>1. run'[q] = run[q] /\ run[q] \in Run /\ async' = async
    BY <1>1, <1>3 DEF Moves, Starts, TypeOK
  <2>2. Knows(q)
    BY <1>1 DEF Known
  <2>3. Len(deviation) \in Nat /\ Len(deviation') \in Nat /\ run[q].event \in Nat
    <3>1. deviation \in Seq([day : Days, reason : ReasonSet]) /\ deviation' \in Seq([day : Days, reason : ReasonSet])
      BY <1>1 DEF TypeOK, RowTypes
    <3> QED
      BY <3>1, <2>1 DEF Run
  <2>4. Tasks \subseteq Tasks'
    BY DEF Grow, Tasks
  <2> QED
    BY <2>1, <2>2, <2>3, <2>4 DEF Knows, Grow
<1>4. Known'
  BY <1>3 DEF Known
<1>5. TypeOK'
  BY <1>2 DEF TypeOK, RowTypes
<1> QED
  BY <1>2, <1>4, <1>5 DEF Sound

\* Nothing is changed but the runner.
Rows == <<day, goal, tasks, care, job, report, timeline, artifact, restarts, asked, faults>>

\* The queue keeps what is served.
Still == \A q \in Queues, j \in JobIds : queue[<<q, j>>] = "active" => queue'[<<q, j>>] = "active"

\* Workers at work go on with the job they have.
LEMMA EntriesStay ==
  ASSUME Sound, Grow, Still, ReportsQueue',
         \A w \in Workers : run'[w].at # "idle" =>
           run[w].at # "idle" /\ run'[w].does = run[w].does /\ run'[w].job = run[w].job
  PROVE  Entries'
<1>1. TypeOK /\ Who /\ Known /\ Entries
  BY DEF Sound
<1>2. \A w \in Workers : run'[w].at # "idle" =>
        run[w].at # "idle" /\ run'[w].does = run[w].does /\ run'[w].job = run[w].job
  OBVIOUS
<1>3. \A w \in Workers : run[w].at # "idle" => run[w].job \in DOMAIN job /\ run[w].job \in JobIds
  BY <1>1, WaysIdle DEF Who, Known, Knows, TypeOK, Runners, JobIds
<1>4. \A w \in Workers : QueueFor(run[w].does) \in Queues
  BY DEF QueueFor, Queues
<1>5. ASSUME NEW w \in Workers PROVE Serves(w)'
  <2> SUFFICES ASSUME run'[w].at # "idle" PROVE Serves(w)'
    BY DEF Serves
  <2>1. Serves(w)
    BY <1>1 DEF Entries
  <2>2. queue'[<<QueueFor(run[w].does), run[w].job>>] = "active"
    BY <2>1, <1>2, <1>3, <1>4 DEF Serves, Still
  <2>3. job'[run[w].job].type \in TypesFor(run[w].does)
    BY <2>1, <1>2, <1>3 DEF Serves, Grow
  <2> QED
    BY <1>2, <2>2, <2>3 DEF Serves, QueueFor, TypesFor
<1>6. Distinct'
  BY <1>1, <1>2 DEF Entries, Distinct, QueueFor
<1> QED
  BY <1>5, <1>6 DEF Entries

LEMMA EntriesOn ==
  ASSUME Sound, NEW r, NEW n, Moves(r, n), n.does = run[r].does, n.job = run[r].job, Grow, Still, ReportsQueue'
  PROVE  Entries'
<1>1. \A w \in Workers : run'[w].at # "idle" =>
        run[w].at # "idle" /\ run'[w].does = run[w].does /\ run'[w].job = run[w].job
  BY DEF Sound, Moves, TypeOK, Runners
<1> QED
  BY <1>1, EntriesStay

\* Sequences of rows.
LEMMA SeqIs ==
  ASSUME NEW S, NEW s \in Seq(S)
  PROVE  /\ Len(s) \in Nat /\ DOMAIN s = 1..Len(s) /\ \A i \in DOMAIN s : s[i] \in S
         /\ \A x \in S : /\ Append(s, x) \in Seq(S) /\ Len(Append(s, x)) = Len(s) + 1
                        /\ DOMAIN Append(s, x) = 1..(Len(s) + 1)
                        /\ Append(s, x)[Len(s) + 1] = x /\ \A i \in 1..Len(s) : Append(s, x)[i] = s[i]
         /\ \A i \in DOMAIN s, x \in S : /\ [s EXCEPT ![i] = x] \in Seq(S)
                                       /\ Len([s EXCEPT ![i] = x]) = Len(s)
                                       /\ DOMAIN [s EXCEPT ![i] = x] = DOMAIN s
OBVIOUS

\* The rows of the sequences.
LEMMA Lengths ==
  ASSUME TypeOK
  PROVE  /\ Len(job) \in Nat /\ DOMAIN job = 1..Len(job) /\ asked \in Nat /\ day \in Nat
         /\ Len(rescue) \in Nat /\ DOMAIN rescue = 1..Len(rescue)
         /\ Len(deviation) \in Nat /\ DOMAIN deviation = 1..Len(deviation)
         /\ \A j \in DOMAIN job : job[j] \in [type : JobType, status : JobStatus, tries : Nat] /\ j \in JobIds
         /\ \A i \in DOMAIN rescue : rescue[i] \in [day : Days, done : BOOLEAN, event : 0..Len(deviation)]
         /\ \A e \in DOMAIN deviation : deviation[e] \in [day : Days, reason : ReasonSet]
         /\ \A r \in Runners : run[r] \in Run
<1>1. job \in Seq([type : JobType, status : JobStatus, tries : Nat]) /\ DOMAIN job \subseteq JobIds
  BY DEF TypeOK
<1>2. /\ Len(job) \in Nat /\ DOMAIN job = 1..Len(job)
      /\ \A j \in DOMAIN job : job[j] \in [type : JobType, status : JobStatus, tries : Nat]
  <2> DEFINE S == [type : JobType, status : JobStatus, tries : Nat]
  <2>1. job \in Seq(S)
    BY <1>1
  <2> HIDE DEF S
  <2>2. Len(job) \in Nat /\ DOMAIN job = 1..Len(job) /\ \A j \in DOMAIN job : job[j] \in S
    BY <2>1, SeqIs
  <2> QED
    BY <2>2 DEF S
<1>3. rescue \in Seq([day : Days, done : BOOLEAN, event : 0..Len(deviation)])
  BY DEF TypeOK
<1>4. /\ Len(rescue) \in Nat /\ DOMAIN rescue = 1..Len(rescue)
      /\ \A i \in DOMAIN rescue : rescue[i] \in [day : Days, done : BOOLEAN, event : 0..Len(deviation)]
  <2> DEFINE S == [day : Days, done : BOOLEAN, event : 0..Len(deviation)]
  <2>1. rescue \in Seq(S)
    BY <1>3
  <2> HIDE DEF S
  <2>2. Len(rescue) \in Nat /\ DOMAIN rescue = 1..Len(rescue) /\ \A j \in DOMAIN rescue : rescue[j] \in S
    BY <2>1, SeqIs
  <2> QED
    BY <2>2 DEF S
<1>5. deviation \in Seq([day : Days, reason : ReasonSet])
  BY DEF TypeOK
<1>6. /\ Len(deviation) \in Nat /\ DOMAIN deviation = 1..Len(deviation)
      /\ \A e \in DOMAIN deviation : deviation[e] \in [day : Days, reason : ReasonSet]
  <2> DEFINE S == [day : Days, reason : ReasonSet]
  <2>1. deviation \in Seq(S)
    BY <1>5
  <2> HIDE DEF S
  <2>2. Len(deviation) \in Nat /\ DOMAIN deviation = 1..Len(deviation) /\ \A j \in DOMAIN deviation : deviation[j] \in S
    BY <2>1, SeqIs
  <2> QED
    BY <2>2 DEF S
<1>7. asked \in {0} \cup Asked /\ day \in Days
  BY DEF TypeOK
<1>8. asked \in Nat /\ day \in Nat
  BY <1>7, Constant DEF Days
<1>9. \A r \in Runners : run[r] \in Run
  BY DEF TypeOK
<1> QED
  BY <1>1, <1>2, <1>4, <1>6, <1>8, <1>9

\* Requests of a finite set.
LEMMA MakingIs ==
  /\ IsFiniteSet(Making) /\ Cardinality(Making) \in Nat
  /\ IsFiniteSet(Making') /\ Cardinality(Making') \in Nat
<1>1. Making \subseteq Requests /\ Making' \subseteq Requests
  BY DEF Making
<1> QED
  BY <1>1, Constant, FS_Subset, FS_CardinalityType

\* A request that goes on or ends makes no other job.
LEMMA CountOn ==
  ASSUME Sound, NEW r, NEW n, Moves(r, n), run[r].at = "attach" => n.at = "idle",
         Len(job') = Len(job), asked' = asked
  PROVE  Counted'
<1>1. Making' \subseteq Making
  BY DEF Making, Moves, Sound, TypeOK
<1>2. Cardinality(Making') <= Cardinality(Making)
  BY <1>1, MakingIs, FS_Subset
<1>3. Len(job) \in Nat /\ asked \in Nat
  BY Lengths DEF Sound
<1> QED
  BY <1>2, <1>3, MakingIs DEF Sound, Counted

\* The steps of a handler, one by one.
LEMMA StepIs ==
  /\ "goal" \in Step /\ "tasks" \in Step /\ "settle" \in Step /\ "exists" \in Step /\ "find" \in Step
  /\ "create" \in Step /\ "attach" \in Step /\ "compose" \in Step /\ "write" \in Step /\ "record" \in Step
  /\ "recorded" \in Step /\ "get" \in Step /\ "owner" \in Step /\ "attempt" \in Step /\ "retry" \in Step
  /\ "fail" \in Step /\ "succeed" \in Step /\ "context" \in Step /\ "existing" \in Step /\ "deviation" \in Step
  /\ "deviate" \in Step /\ "running" \in Step /\ "persist" \in Step /\ "snapshot" \in Step /\ "complete" \in Step
  /\ "events" \in Step /\ "restart" \in Step /\ "cancel" \in Step /\ "requeue" \in Step /\ "requeued" \in Step
  /\ "range" \in Step /\ "previous" \in Step /\ "publish" \in Step
BY DEF Step

\* Who rests.
LEMMA IdleIs == Idle \in Run /\ Idle.at = "idle" /\ Idle.does = "none" /\ <<Idle.does, Idle.at>> \in Ways
<1>1. FirstDay \in Days
  BY Constant DEF Days
<1>2. NoTrend \in Trend /\ NoHealth \in NoHealth..100
  BY DEF NoTrend, Trend, NoHealth
<1>3. <<>> \in Seq(SUBSET Event)
  OBVIOUS
<1>4. Idle \in Run
  BY <1>1, <1>2, <1>3 DEF Idle, Run, Step, Status, NoTask
<1> QED
  BY <1>4 DEF Idle, Ways

\* The types of the queue.
QueueTypes ==
  /\ queue \in [Queues \X JobIds -> {"none", "waiting", "active"}]
  /\ \A q \in Queues, j \in JobIds : queue[<<q, j>>] # "none" => j \in DOMAIN job

\* A runner ends, and gives back the entry it serves.
LEMMA EndSound ==
  ASSUME Sound, NEW r \in Runners, run[r].at # "idle", NEW E, E \subseteq {"none", "waiting"}, Ends(r, E),
         mix' = mix, async' = async, QueueTypes' => RowTypes', Grow, Moves(r, Idle) => Counted'
  PROVE  Sound'
<1>1. TypeOK /\ Who /\ Known /\ Entries
  BY DEF Sound
<1>2. Moves(r, Idle)
  BY IdleIs DEF Moves, Ends
<1>3. r \in Workers => run[r].job \in DOMAIN job /\ run[r].job \in JobIds
  BY <1>1, WaysIdle DEF Who, Known, Knows, TypeOK
<1>4. QueueFor(run[r].does) \in Queues
  BY DEF QueueFor, Queues
<1> DEFINE e == <<QueueFor(run[r].does), run[r].job>>
<1>5. r \in Workers => /\ e \in Queues \X JobIds /\ queue[e] = "active"
                      /\ \E v \in {"none", "waiting"} : queue' = [queue EXCEPT ![e] = v]
  BY <1>1, <1>3, <1>4 DEF Ends, QueueFor, Entries, Serves
<1>6. r \notin Workers => queue' = queue
  BY DEF Ends
<1> HIDE DEF e
<1>7. queue \in [Queues \X JobIds -> {"none", "waiting", "active"}]
  BY <1>1 DEF TypeOK
<1>8. queue' \in [Queues \X JobIds -> {"none", "waiting", "active"}]
  BY <1>5, <1>6, <1>7
<1>9. \A p \in Queues \X JobIds : queue[p] = "none" => queue'[p] = "none"
  BY <1>5, <1>6, <1>7
<1>10. \A p \in Queues \X JobIds : queue[p] = "active" /\ (r \in Workers => p # e) => queue'[p] = "active"
  BY <1>5, <1>6, <1>7
<1>11. QueueTypes'
  BY <1>1, <1>8, <1>9 DEF QueueTypes, TypeOK, Grow
<1>12. ReportsQueue'
  <2> SUFFICES ASSUME NEW j \in DOMAIN job', queue'[<<"reports", j>>] # "none"
               PROVE  job'[j].type \in {"HEALTH"} \cup Trends
    BY DEF ReportsQueue
  <2>1. j \in JobIds
    BY <1>11 DEF RowTypes
  <2>2. <<"reports", j>> \in Queues \X JobIds
    BY <2>1 DEF Queues
  <2>3. queue[<<"reports", j>>] # "none"
    BY <2>2, <1>9
  <2>4. j \in DOMAIN job
    BY <1>1, <2>1, <2>3 DEF TypeOK, Queues
  <2> QED
    BY <2>3, <2>4, <1>1 DEF Entries, ReportsQueue, Grow
<1>13. \A w \in Workers : run'[w].at # "idle" => w # r /\ run[w].at # "idle" /\ run'[w] = run[w]
  BY <1>1, <1>2, IdleIs DEF Moves, TypeOK, Runners
<1>14. ASSUME NEW w \in Workers PROVE Serves(w)'
  <2> SUFFICES ASSUME run'[w].at # "idle" PROVE Serves(w)'
    BY DEF Serves
  <2>1. w # r /\ run[w].at # "idle" /\ run'[w] = run[w] /\ Serves(w)
    BY <1>1, <1>13 DEF Entries
  <2>2. run[w].job \in DOMAIN job /\ run[w].job \in JobIds /\ QueueFor(run[w].does) \in Queues
    BY <1>1, <2>1, WaysIdle DEF Who, Known, Knows, TypeOK, Runners, QueueFor, Queues
  <2>3. r \in Workers => <<QueueFor(run[w].does), run[w].job>> # e
    BY <1>1, <2>1 DEF Entries, Distinct, e
  <2>4. queue'[<<QueueFor(run[w].does), run[w].job>>] = "active"
    BY <2>1, <2>2, <2>3, <1>10 DEF Serves
  <2>5. job'[run[w].job].type \in TypesFor(run[w].does)
    BY <2>1, <2>2 DEF Serves, Grow
  <2> QED
    BY <2>1, <2>4, <2>5 DEF Serves, QueueFor, TypesFor
<1>15. Distinct'
  BY <1>1, <1>13 DEF Entries, Distinct, QueueFor
<1>16. Knows(r)'
  <2>1. run'[r] = Idle
    BY <1>1, <1>2 DEF Moves, TypeOK
  <2>2. Len(deviation') \in Nat
    <3>1. deviation' \in Seq([day : Days, reason : ReasonSet])
      BY <1>11 DEF RowTypes
    <3> QED
      BY <3>1
  <2> QED
    BY <2>1, <2>2 DEF Knows, Idle, Jobs
<1> QED
  BY <1>2, <1>11, <1>12, <1>14, <1>15, <1>16, StepSound DEF Entries

\* A runner goes on.
LEMMA OnSound ==
  ASSUME Sound, NEW r, NEW n, Moves(r, n), n.does = run[r].does, n.job = run[r].job, run[r].at # "attach",
         RowTypes', Grow, Still, ReportsQueue', Len(job') = Len(job), asked' = asked, Knows(r)'
  PROVE  Sound'
BY EntriesOn, CountOn, StepSound

\* A runner goes on and leaves the rows alone.
LEMMA WalkSound ==
  ASSUME Sound, NEW r, NEW n, Moves(r, n), n.does = run[r].does, n.job = run[r].job, run[r].at # "attach",
         UNCHANGED Rows, UNCHANGED queue, Knows(r)'
  PROVE  Sound'
<1>1. TypeOK /\ Entries
  BY DEF Sound
<1>2. UNCHANGED <<mix, async, day, goal, plan, rescue, deviation, snapshot, job, queue, report, milestone, events,
                  artifact, restarts, asked, faults>>
  BY DEF Rows, tasks, care, timeline, Moves
<1>3. RowTypes'
  BY <1>1, <1>2 DEF TypeOK, RowTypes
<1>4. Grow /\ Still
  BY <1>1, <1>2, Lengths DEF Grow, Still
<1>5. ReportsQueue'
  BY <1>1, <1>2 DEF Entries, ReportsQueue
<1> QED
  BY <1>2, <1>3, <1>4, <1>5, OnSound

\* A runner ends and leaves the rows alone.
LEMMA DoneSound ==
  ASSUME Sound, NEW r \in Runners, run[r].at # "idle", NEW E, E \subseteq {"none", "waiting"}, Ends(r, E),
         UNCHANGED <<mix, async>>, UNCHANGED <<day, goal, tasks, care, job, report, timeline, artifact, asked>>,
         restarts' \in Nat, faults' \in 0..MaxFaults
  PROVE  Sound'
<1>1. TypeOK
  BY DEF Sound
<1>2. UNCHANGED <<mix, async, day, goal, plan, rescue, deviation, snapshot, job, report, milestone, events,
                  artifact, asked>>
  BY DEF tasks, care, timeline
<1>3. QueueTypes' => RowTypes'
  BY <1>1, <1>2 DEF TypeOK, RowTypes, QueueTypes
<1>4. Grow
  BY <1>1, <1>2, Lengths DEF Grow
<1>5. Moves(r, Idle) => Counted'
  BY <1>2, CountOn, IdleIs
<1> QED
  BY <1>2, <1>3, <1>4, <1>5, EndSound

\* A runner goes to a step that asks nothing of what it knows.
Free == Step \ {"idle", "attach", "recorded", "deviation", "deviate", "snapshot", "persist"}
LEMMA GoesSound ==
  ASSUME Sound, NEW r \in Runners, NEW to \in Free, run[r].at \notin {"idle", "attach"}, Goes(r, to),
         <<run[r].does, to>> \in Ways, UNCHANGED <<mix, async>>, UNCHANGED Rows, UNCHANGED queue
  PROVE  Sound'
<1> DEFINE n == [run[r] EXCEPT !.at = to]
<1>1. run[r] \in Run /\ run \in [Runners -> Run] /\ Knows(r)
  BY DEF Sound, TypeOK, Known
<1>2. n \in Run /\ n.at = to /\ n.does = run[r].does /\ n.job = run[r].job
  BY <1>1 DEF Run, Free
<1>3. Moves(r, n)
  BY <1>2 DEF Moves, Goes
<1>4. run'[r] = n
  BY <1>1 DEF Goes
<1>5. UNCHANGED <<deviation, rescue, job, async>>
  BY DEF Rows, tasks, care
<1>6. Knows(r)'
  BY <1>1, <1>4, <1>5 DEF Knows, Run, Free, Tasks
<1> QED
  BY <1>2, <1>3, <1>6, WalkSound

\* Runners that only read.
LEMMA Unmoved == \A r : Unchanged(r) /\ UNCHANGED <<goal, tasks, care, job, report, timeline>> =>
  UNCHANGED <<mix, async>> /\ UNCHANGED Rows
BY DEF Unchanged, Rows

LEMMA ReturnsSound ==
  ASSUME Sound, NEW r \in Runners, run[r].at # "idle", Returns(r), UNCHANGED <<mix, async>>, UNCHANGED Rows
  PROVE  Sound'
BY DoneSound DEF Returns, Rows, Sound, TypeOK

\* The steps of settlements, reports and their jobs that only read.
LEMMA ReportExistsSound == ASSUME Sound, NEW r \in Runners, ReportExists(r) PROVE Sound'
<1>1. <<run[r].does, run[r].at>> \in Ways
  BY DEF Sound, Who
<1>2. UNCHANGED <<mix, async>> /\ UNCHANGED Rows /\ UNCHANGED queue
  BY Unmoved DEF ReportExists, jobs
<1>3. \A to \in {"find", "compose"} : to \in Free /\ <<run[r].does, to>> \in Ways
  BY <1>1 DEF ReportExists, At, Ways, Free, Step
<1>4. \E to \in {"find", "compose"} : Goes(r, to)
  BY DEF ReportExists
<1> QED
  BY <1>2, <1>3, <1>4, GoesSound DEF ReportExists, At

LEMMA FindReportJobSound == ASSUME Sound, NEW r \in Runners, FindReportJob(r) PROVE Sound'
<1>1. <<run[r].does, run[r].at>> \in Ways
  BY DEF Sound, Who
<1>2. UNCHANGED <<mix, async>> /\ UNCHANGED Rows
  BY Unmoved DEF FindReportJob
<1>3. "create" \in Free /\ <<run[r].does, "create">> \in Ways
  BY <1>1 DEF FindReportJob, At, Ways, Free, Step
<1>4. CASE Returns(r)
  BY <1>2, <1>4, ReturnsSound DEF FindReportJob, At
<1>5. CASE Goes(r, "create") /\ UNCHANGED queue
  BY <1>2, <1>3, <1>5, GoesSound DEF FindReportJob, At
<1> QED
  BY <1>4, <1>5 DEF FindReportJob

LEMMA GetReportSound == ASSUME Sound, NEW r \in Runners, GetReport(r) PROVE Sound'
<1>1. <<run[r].does, run[r].at>> \in Ways
  BY DEF Sound, Who
<1>2. UNCHANGED <<mix, async>> /\ UNCHANGED Rows
  BY Unmoved DEF GetReport
<1>3. \A to \in {"compose", "goal"} : to \in Free /\ <<run[r].does, to>> \in Ways
  BY <1>1 DEF GetReport, At, Ways, Free, Step
<1>4. CASE Returns(r)
  BY <1>2, <1>4, ReturnsSound DEF GetReport, At
<1>5. CASE UNCHANGED queue /\ \E to \in {"compose", "goal"} : Goes(r, to)
  BY <1>2, <1>3, <1>5, GoesSound DEF GetReport, At
<1> QED
  BY <1>4, <1>5 DEF GetReport

LEMMA FailureOwnerSound == ASSUME Sound, NEW w \in Runners, FailureOwner(w) PROVE Sound'
<1>1. <<run[w].does, run[w].at>> \in Ways
  BY DEF Sound, Who
<1>2. UNCHANGED <<mix, async>> /\ UNCHANGED Rows /\ UNCHANGED queue
  BY Unmoved DEF FailureOwner, jobs
<1>3. \A to \in {"attempt", "fail"} : to \in Free /\ <<run[w].does, to>> \in Ways
  BY <1>1 DEF FailureOwner, At, Ways, Free, Step
<1>4. \E to \in {"attempt", "fail"} : Goes(w, to)
  BY DEF FailureOwner
<1> QED
  BY <1>2, <1>3, <1>4, GoesSound DEF FailureOwner, At

LEMMA FailureFailsSound == ASSUME Sound, NEW w \in Runners, FailureFails(w) PROVE Sound'
<1>1. UNCHANGED <<mix, async>> /\ UNCHANGED Rows /\ UNCHANGED queue
  BY Unmoved DEF FailureFails, jobs
<1>2. "retry" \in Free /\ <<run[w].does, "retry">> \in Ways
  BY DEF FailureFails, At, Ways, Free, Step
<1> QED
  BY <1>1, <1>2, GoesSound DEF FailureFails, At

LEMMA CareFailsSound == ASSUME Sound, NEW w \in Runners, CareFails(w) PROVE Sound'
<1>1. <<run[w].does, run[w].at>> \in Ways /\ run[w].does \in Jobs \cup {"none"}
  BY DEF Sound, Who, CareFails
<1>2. UNCHANGED <<mix, async>> /\ UNCHANGED Rows /\ UNCHANGED queue
  BY Unmoved DEF CareFails, jobs
<1>3. "fail" \in Free /\ <<run[w].does, "fail">> \in Ways
  BY <1>1 DEF CareFails, At, Ways, Free, Step, Jobs
<1> QED
  BY <1>2, <1>3, GoesSound DEF CareFails

\* What a runner knows is about what it is at.
LEMMA KeepsSound ==
  ASSUME Sound, NEW r \in Runners, NEW n \in Run, run[r].at \notin {"idle", "attach"}, Keeps(r, n),
         n.does = run[r].does, n.job = run[r].job, <<n.does, n.at>> \in Ways,
         UNCHANGED <<mix, async>>, UNCHANGED Rows, UNCHANGED queue,
         run'[r] = n => Knows(r)'
  PROVE  Sound'
<1>1. Moves(r, n)
  BY DEF Moves, Keeps
<1>2. run'[r] = n
  BY DEF Keeps, Sound, TypeOK
<1> QED
  BY <1>1, <1>2, WalkSound

LEMMA SettleAgainSound == ASSUME Sound, NEW r \in Runners, SettleAgain(r) PROVE Sound'
<1> DEFINE n == [run[r] EXCEPT !.at = "tasks", !.status = goal.status]
<1>1. <<run[r].does, run[r].at>> \in Ways /\ run[r] \in Run /\ Knows(r) /\ goal.status \in Status
  BY DEF Sound, Who, TypeOK, Known
<1>2. UNCHANGED <<mix, async>> /\ UNCHANGED Rows /\ UNCHANGED queue
  BY Unmoved DEF SettleAgain, jobs
<1>3. n \in Run
  BY <1>1, StepIs DEF Run
<1>4. n.does = run[r].does /\ n.job = run[r].job /\ n.at = "tasks"
  BY <1>1 DEF Run
<1>5. <<n.does, n.at>> \in Ways
  BY <1>1, <1>4 DEF SettleAgain, At, Ways
<1>6. run'[r] = n => Knows(r)'
  BY <1>1, <1>2 DEF Knows, Run, Rows, tasks, care, Tasks
<1> QED
  BY <1>2, <1>3, <1>4, <1>5, <1>6, KeepsSound DEF SettleAgain, At

\* Tasks and their days are finitely many.
LEMMA TasksFinite ==
  ASSUME TypeOK
  PROVE  /\ IsFiniteSet(Tasks) /\ \A T \in SUBSET Tasks : IsFiniteSet(T) /\ Cardinality(T) \in Nat
         /\ \A t \in Tasks : DateOf(t) \in Nat /\ IsTaskCompleted(t) \in BOOLEAN
         /\ Cardinality(MissedTaskDays) \in Nat
<1> DEFINE P == {<<"plan", d>> : d \in Planned}
           R == {<<"rescue", i>> : i \in 1..Len(rescue)}
           f == [d \in Planned |-> <<"plan", d>>]
           g == [i \in 1..Len(rescue) |-> <<"rescue", i>>]
<1>1. IsFiniteSet(P)
  <2>1. f \in Surjection(Planned, P)
    BY DEF Surjection
  <2> QED
    BY <2>1, FS_Surjection, Constant
<1>2. IsFiniteSet(R)
  <2>1. g \in Surjection(1..Len(rescue), R)
    BY DEF Surjection
  <2>2. Len(rescue) \in Nat
    BY Lengths
  <2>3. IsFiniteSet(1..Len(rescue))
    BY <2>2, FS_Interval
  <2> HIDE DEF g, R
  <2> QED
    BY <2>1, <2>3, FS_Surjection
<1>3. Tasks = P \cup R
  BY Lengths DEF Tasks
<1>4. IsFiniteSet(Tasks)
  BY <1>1, <1>2, <1>3, FS_Union
<1>5. \A T \in SUBSET Tasks : IsFiniteSet(T) /\ Cardinality(T) \in Nat
  BY <1>4, FS_Subset, FS_CardinalityType
<1>6. ASSUME NEW t \in Tasks PROVE DateOf(t) \in Planned \cup Days /\ IsTaskCompleted(t) \in BOOLEAN
  <2>1. CASE t \in P
    <3>1. PICK d \in Planned : t = <<"plan", d>>
      BY <2>1
    <3>2. plan[d] \in BOOLEAN
      BY <3>1 DEF TypeOK
    <3> QED
      BY <3>1, <3>2 DEF DateOf, IsTaskCompleted
  <2>2. CASE t \in R
    <3>1. PICK i \in DOMAIN rescue : t = <<"rescue", i>>
      BY <2>2, Lengths
    <3>2. rescue[i].day \in Days /\ rescue[i].done \in BOOLEAN
      BY Lengths
    <3> QED
      BY <3>1, <3>2 DEF DateOf, IsTaskCompleted
  <2> QED
    BY <1>3, <1>6, <2>1, <2>2
<1>7. IsFiniteSet(Planned \cup Days) /\ Planned \cup Days \subseteq Nat
  <2>1. IsFiniteSet(Days) /\ Days \subseteq Nat
    BY Constant, FS_Interval DEF Days
  <2> QED
    BY <2>1, Constant, FS_Union
<1>8. MissedTaskDays \subseteq Planned \cup Days
  BY <1>6 DEF MissedTaskDays
<1>9. Cardinality(MissedTaskDays) \in Nat
  BY <1>7, <1>8, FS_Subset, FS_CardinalityType
<1> QED
  BY <1>4, <1>5, <1>6, <1>7, <1>9

LEMMA SettleTasksSound == ASSUME Sound, NEW r \in Runners, SettleTasks(r) PROVE Sound'
<1> DEFINE n == [run[r] EXCEPT !.at = "settle", !.count = Cardinality(MissedTaskDays), !.day = day]
<1>1. <<run[r].does, run[r].at>> \in Ways /\ run[r] \in Run /\ Knows(r) /\ day \in Days
  BY DEF Sound, Who, TypeOK, Known
<1>2. UNCHANGED <<mix, async>> /\ UNCHANGED Rows /\ UNCHANGED queue
  BY Unmoved DEF SettleTasks, jobs
<1>3. Cardinality(MissedTaskDays) \in Nat
  BY TasksFinite DEF Sound
<1>4. n \in Run
  BY <1>1, <1>3, StepIs DEF Run
<1>5. n.does = run[r].does /\ n.job = run[r].job /\ n.at = "settle"
  BY <1>1 DEF Run
<1>6. <<n.does, n.at>> \in Ways /\ run[r].does \in {"settle", "get"}
  BY <1>1, <1>5 DEF SettleTasks, At, Ways
<1>7. run'[r] = n => Knows(r)'
  BY <1>1, <1>2, <1>6 DEF Knows, Run, Rows, tasks, care, Tasks
<1> QED
  BY <1>2, <1>4, <1>5, <1>6, <1>7, KeepsSound DEF SettleTasks, At

LEMMA ReportReadSound == ASSUME Sound, NEW r \in Runners, ReportRead(r) PROVE Sound'
<1> DEFINE n == [run[r] EXCEPT !.at = "write", !.found = IF report THEN 1 ELSE 0]
<1>1. <<run[r].does, run[r].at>> \in Ways /\ run[r] \in Run /\ Knows(r)
  BY DEF Sound, Who, TypeOK, Known
<1>2. UNCHANGED <<mix, async>> /\ UNCHANGED Rows /\ UNCHANGED queue
  BY Unmoved DEF ReportRead, jobs
<1>3. n \in Run
  <2> DEFINE f == IF report THEN 1 ELSE 0
  <2>1. f \in Nat
    OBVIOUS
  <2>2. n = [run[r] EXCEPT !.at = "write", !.found = f]
    OBVIOUS
  <2> HIDE DEF f, n
  <2> QED
    BY <1>1, <2>1, <2>2, StepIs DEF Run
<1>4. n.does = run[r].does /\ n.job = run[r].job /\ n.at = "write"
  BY <1>1 DEF Run
<1>5. <<n.does, n.at>> \in Ways /\ run[r].does \in {"settle", "get", "failureJob"}
  BY <1>1, <1>4 DEF ReportRead, At, Ways
<1>6. run'[r] = n => Knows(r)'
  BY <1>1, <1>2, <1>5 DEF Knows, Run, Rows, tasks, care, Tasks
<1> QED
  BY <1>2, <1>3, <1>4, <1>5, <1>6, KeepsSound DEF ReportRead, At

\* The greatest of some positions.
LEMMA GreatestIs ==
  ASSUME NEW n \in Nat, NEW S, S \subseteq 1..n
  PROVE  IF S = {} THEN Greatest(S) = 0 ELSE Greatest(S) \in S /\ \A m \in S : m <= Greatest(S)
<1> SUFFICES ASSUME S # {} PROVE Greatest(S) \in S /\ \A m \in S : m <= Greatest(S)
  BY DEF Greatest
<1> DEFINE T == {n - m : m \in S}
<1>1. T \subseteq Nat /\ T # {}
  <2>1. \A m \in S : n - m \in Nat
    OBVIOUS
  <2> QED
    BY <2>1, Zenon
<1>2. PICK x \in T : \A y \in T : <<y, x>> \notin OpToRel(<, Nat)
  <2> HIDE DEF T
  <2> QED
    BY <1>1, WFMin, NatLessThanWellFounded
<1>3. \A y \in T : ~(y < x)
  <2> HIDE DEF T
  <2> QED
    BY <1>1, <1>2 DEF OpToRel
<1>4. PICK k \in S : x = n - k
  BY <1>2
<1>5. \A m \in S : m <= k
  <2> TAKE m \in S
  <2>1. n - m \in T
    OBVIOUS
  <2>2. ~(n - m < n - k)
    BY <1>3, <1>4, <2>1
  <2> QED
    BY <2>2
<1> QED
  BY <1>5 DEF Greatest

\* What is found by a place is a place or nothing.
LEMMA PlacesAre ==
  ASSUME TypeOK
  PROVE  /\ \A S \in SUBSET DOMAIN job : Greatest(S) \in S \/ (S = {} /\ Greatest(S) = 0)
         /\ \A S \in SUBSET DOMAIN rescue : Greatest(S) \in S \/ (S = {} /\ Greatest(S) = 0)
         /\ \A S \in SUBSET DOMAIN deviation : Greatest(S) \in S \/ (S = {} /\ Greatest(S) = 0)
<1>1. \A n \in Nat : \A S \in SUBSET (1..n) : Greatest(S) \in S \/ (S = {} /\ Greatest(S) = 0)
  BY GreatestIs
<1> QED
  BY <1>1, Lengths

LEMMA RecordReadSound == ASSUME Sound, NEW r \in Runners, RecordRead(r) PROVE Sound'
<1> DEFINE S == {j \in DOMAIN job : job[j].type = "FAILURE" /\ job[j].status = "SUCCEEDED"}
           n == [run[r] EXCEPT !.at = "recorded", !.found = Greatest(S)]
<1>1. <<run[r].does, run[r].at>> \in Ways /\ run[r] \in Run /\ Knows(r)
  BY DEF Sound, Who, TypeOK, Known
<1>2. UNCHANGED <<mix, async>> /\ UNCHANGED Rows /\ UNCHANGED queue
  BY Unmoved DEF RecordRead, jobs
<1>3. Greatest(S) = 0 \/ (Greatest(S) \in DOMAIN job /\ job[Greatest(S)].type = "FAILURE")
  BY PlacesAre DEF Sound
<1>4. Greatest(S) \in Nat
  BY <1>3, Lengths DEF Sound
<1> DEFINE g == Greatest(S)
<1> HIDE DEF g
<1>5. n = [run[r] EXCEPT !.at = "recorded", !.found = g]
  BY DEF g
<1>6. n \in Run /\ n.does = run[r].does /\ n.job = run[r].job /\ n.at = "recorded" /\ n.found = g
  <2>1. g \in Nat
    BY <1>4 DEF g
  <2> HIDE DEF n
  <2>2. n \in Run
    BY <1>1, <1>5, <2>1, StepIs DEF Run
  <2> QED
    BY <1>1, <1>5, <2>2 DEF Run
<1>7. Keeps(r, n)
  BY DEF RecordRead
<1> HIDE DEF n
<1>8. <<n.does, n.at>> \in Ways /\ run[r].does \in {"settle", "get"}
  BY <1>1, <1>6 DEF RecordRead, At, Ways
<1>9. run'[r] = n => Knows(r)'
  BY <1>1, <1>2, <1>3, <1>5, <1>6, <1>8 DEF Knows, Run, Rows, tasks, care, Tasks, g
<1> QED
  BY <1>2, <1>6, <1>7, <1>8, <1>9, KeepsSound DEF RecordRead, At

\* The rows of jobs change, the jobs stay.
JobKept ==
  /\ job' \in Seq([type : JobType, status : JobStatus, tries : Nat])
  /\ DOMAIN job' = DOMAIN job /\ Len(job') = Len(job) /\ \A k \in DOMAIN job : job'[k].type = job[k].type
LEMMA JobWritten ==
  ASSUME TypeOK, NEW j \in DOMAIN job, NEW t, t = job[j].type, NEW s \in JobStatus, NEW tries \in Nat,
         job' = [job EXCEPT ![j] = [type |-> t, status |-> s, tries |-> tries]]
  PROVE  JobKept
<1> DEFINE S == [type : JobType, status : JobStatus, tries : Nat]
           row == [type |-> t, status |-> s, tries |-> tries]
<1>1. job \in Seq(S)
  BY DEF TypeOK
<1>2. row \in S /\ row.type = job[j].type
  BY Lengths
<1>3. job' = [job EXCEPT ![j] = row]
  OBVIOUS
<1> HIDE DEF S, row
<1>4. job' \in Seq(S) /\ DOMAIN job' = DOMAIN job /\ Len(job') = Len(job)
  BY <1>1, <1>2, <1>3, SeqIs
<1>5. \A k \in DOMAIN job : job'[k].type = job[k].type
  BY <1>1, <1>2, <1>3
<1> QED
  BY <1>4, <1>5 DEF JobKept, S

Else == <<mix, async, day, goal, tasks, care, report, timeline, artifact, restarts, asked, faults>>
LEMMA JobKeeps ==
  ASSUME Sound, JobKept, UNCHANGED Else
  PROVE  /\ QueueTypes' => RowTypes'
         /\ UNCHANGED queue => RowTypes' /\ Still /\ ReportsQueue'
         /\ Grow /\ Len(job') = Len(job) /\ asked' = asked /\ mix' = mix /\ async' = async
<1>1. TypeOK /\ Entries
  BY DEF Sound
<1>2. UNCHANGED <<mix, async, day, goal, plan, rescue, deviation, snapshot, report, milestone, events, artifact,
                  restarts, asked, faults>>
  BY DEF Else, tasks, care, timeline
<1>3. QueueTypes' => RowTypes'
  BY <1>1, <1>2 DEF TypeOK, RowTypes, QueueTypes, JobKept
<1>4. Grow
  BY <1>1, <1>2, Lengths DEF Grow, JobKept
<1>5. UNCHANGED queue => QueueTypes' /\ Still /\ ReportsQueue'
  BY <1>1 DEF TypeOK, QueueTypes, JobKept, Still, Entries, ReportsQueue
<1> QED
  BY <1>2, <1>3, <1>4, <1>5 DEF JobKept

\* A job's row is written at the last step.
LEMMA JobEndSound ==
  ASSUME Sound, NEW r \in Runners, run[r].at # "idle", NEW E, E \subseteq {"none", "waiting"}, Ends(r, E),
         JobKept, UNCHANGED Else
  PROVE  Sound'
<1>1. Moves(r, Idle) => Counted'
  BY JobKeeps, CountOn, IdleIs
<1> QED
  BY <1>1, JobKeeps, EndSound

\* A job's row is written on the way.
LEMMA JobOnSound ==
  ASSUME Sound, NEW r \in Runners, NEW n \in Run, run[r].at \notin {"idle", "attach"}, Keeps(r, n),
         n.does = run[r].does, n.job = run[r].job, <<n.does, n.at>> \in Ways,
         JobKept, UNCHANGED Else, UNCHANGED queue, run'[r] = n => Knows(r)'
  PROVE  Sound'
<1>1. Moves(r, n)
  BY JobKeeps DEF Moves, Keeps
<1>2. run'[r] = n
  BY DEF Keeps, Sound, TypeOK
<1> QED
  BY <1>1, <1>2, JobKeeps, OnSound

\* Whoever has a job has its row.
LEMMA HasJob ==
  ASSUME Sound, NEW r \in Runners, run[r].does \in Jobs \cup {"cancel", "admin"} \/ run[r].at = "attach"
  PROVE  run[r].job \in DOMAIN job /\ run[r].job \in JobIds /\ job[run[r].job].type \in JobType
         /\ job[run[r].job].tries \in Nat
BY Lengths DEF Sound, Known, Knows

\* The steps that write a job's row.
LEMMA CancelWriteSound == ASSUME Sound, NEW r \in Runners, CancelWrite(r) PROVE Sound'
<1>1. <<run[r].does, run[r].at>> \in Ways /\ TypeOK
  BY DEF Sound, Who
<1>2. run[r].does \in Jobs \cup {"cancel", "admin"}
  BY <1>1 DEF CancelWrite, At, Ways
<1>3. UNCHANGED Else
  BY DEF CancelWrite, Unchanged, Else
<1>4. JobKept
  BY <1>1, <1>2, HasJob, JobWritten DEF CancelWrite, JobBecomes, JobStatus
<1> QED
  BY <1>3, <1>4, JobEndSound DEF CancelWrite, At, Returns

LEMMA AdminWriteSound == ASSUME Sound, NEW r \in Runners, AdminWrite(r) PROVE Sound'
<1>1. <<run[r].does, run[r].at>> \in Ways /\ TypeOK
  BY DEF Sound, Who
<1>2. run[r].does \in Jobs \cup {"cancel", "admin"}
  BY <1>1 DEF AdminWrite, At, Ways
<1>3. UNCHANGED Else
  BY DEF AdminWrite, Unchanged, Else
<1>4. JobKept
  BY <1>1, <1>2, HasJob, JobWritten DEF AdminWrite, JobStatus
<1> QED
  BY <1>3, <1>4, JobEndSound DEF AdminWrite, At, Returns

LEMMA JobFailsSound == ASSUME Sound, NEW w \in Runners, JobFails(w) PROVE Sound'
<1>1. <<run[w].does, run[w].at>> \in Ways /\ TypeOK
  BY DEF Sound, Who
<1>2. run[w].does \in Jobs \cup {"cancel", "admin"}
  BY <1>1 DEF JobFails, At, Ways, Jobs
<1>3. UNCHANGED Else
  BY DEF JobFails, Unchanged, Else
<1>4. JobKept
  BY <1>1, <1>2, HasJob, JobWritten DEF JobFails, JobBecomes, JobStatus
<1>5. \E E \in {{"none"}, {"none", "waiting"}} : Ends(w, E)
  BY DEF JobFails, Returns, Throws
<1> QED
  BY <1>3, <1>4, <1>5, JobEndSound DEF JobFails, At

LEMMA JobSucceedsSound == ASSUME Sound, NEW w \in Runners, JobSucceeds(w) PROVE Sound'
<1>1. <<run[w].does, run[w].at>> \in Ways /\ TypeOK
  BY DEF Sound, Who
<1>2. run[w].does \in Jobs \cup {"cancel", "admin"}
  BY <1>1 DEF JobSucceeds, At, Ways, Jobs
<1>3. UNCHANGED Else
  BY DEF JobSucceeds, Unchanged, Else
<1>4. JobKept
  BY <1>1, <1>2, HasJob, JobWritten DEF JobSucceeds, JobBecomes, JobStatus
<1> QED
  BY <1>3, <1>4, JobEndSound DEF JobSucceeds, At, Returns

LEMMA JobRunsSound == ASSUME Sound, NEW w \in Runners, JobRuns(w) PROVE Sound'
<1>1. <<run[w].does, run[w].at>> \in Ways /\ TypeOK /\ run[w] \in Run /\ Knows(w)
  BY DEF Sound, Who, Known, TypeOK
<1>2. run[w].does \in {"rescueJob", "healthJob", "trendJob"}
  BY <1>1 DEF JobRuns, At, Ways
<1>3. UNCHANGED Else /\ UNCHANGED queue
  BY DEF JobRuns, Unchanged, Else
<1>4. JobKept
  <2>1. job[run[w].job].tries + 1 \in Nat /\ run[w].job \in DOMAIN job
    BY <1>2, HasJob DEF Jobs
  <2> QED
    BY <1>1, <2>1, JobWritten DEF JobRuns, JobStatus
<1>5. PICK to \in {"context", "range", "persist"} :
        /\ Goes(w, to) /\ <<run[w].does, to>> \in Ways /\ (to = "persist" => run[w].does = "rescueJob")
  <2>1. CASE run[w].does = "rescueJob"
    BY <2>1 DEF JobRuns, Ways
  <2>2. CASE run[w].does = "healthJob"
    BY <2>2 DEF JobRuns, Ways
  <2>3. CASE run[w].does = "trendJob"
    BY <2>3 DEF JobRuns, Ways
  <2> QED
    BY <1>2, <2>1, <2>2, <2>3
<1> DEFINE n == [run[w] EXCEPT !.at = to]
<1>6. n \in Run /\ n.does = run[w].does /\ n.job = run[w].job /\ n.at = to
  BY <1>1, StepIs DEF Run
<1>7. run'[w] = n => Knows(w)'
  BY <1>1, <1>2, <1>3, <1>4, <1>5 DEF Knows, Run, Else, tasks, care, Tasks, JobKept, Jobs
<1> QED
  BY <1>3, <1>4, <1>5, <1>6, <1>7, JobOnSound DEF JobRuns, At, Goes, Keeps

LEMMA FailureAttemptSound == ASSUME Sound, NEW w \in Runners, FailureAttempt(w) PROVE Sound'
<1>1. <<run[w].does, run[w].at>> \in Ways /\ TypeOK /\ run[w] \in Run /\ Knows(w)
  BY DEF Sound, Who, Known, TypeOK
<1>2. run[w].does = "failureJob" /\ At(w, "attempt")
  BY <1>1 DEF FailureAttempt, At, Ways
<1>3. UNCHANGED Else /\ UNCHANGED queue
  BY DEF FailureAttempt, Unchanged, Else
<1> DEFINE tries == job[run[w].job].tries + 1
           n == [run[w] EXCEPT !.at = "compose", !.count = tries]
<1>4. tries \in Nat /\ run[w].job \in DOMAIN job
  BY <1>2, HasJob DEF Jobs
<1>5. CASE run[w].count < MaxTries
  <2>1. JobKept
    BY <1>1, <1>4, <1>5, JobWritten DEF FailureAttempt, JobStatus
  <2>2. Keeps(w, n)
    BY <1>5 DEF FailureAttempt
  <2> HIDE DEF tries
  <2>3. n \in Run
    BY <1>1, <1>4, StepIs DEF Run
  <2>4. n.does = run[w].does /\ n.job = run[w].job /\ n.at = "compose" /\ <<n.does, n.at>> \in Ways
    BY <1>1, <1>2 DEF Run, Ways
  <2>5. run'[w] = n => Knows(w)'
    BY <1>1, <1>2, <1>3, <2>1 DEF Knows, Run, Else, tasks, care, Tasks, JobKept, Jobs
  <2> QED
    BY <1>2, <1>3, <2>1, <2>2, <2>3, <2>4, <2>5, JobOnSound DEF At
<1>6. CASE ~(run[w].count < MaxTries)
  <2>1. UNCHANGED Rows /\ Goes(w, "fail")
    BY <1>3, <1>6 DEF FailureAttempt, Rows, Else
  <2>2. "fail" \in Free /\ <<run[w].does, "fail">> \in Ways
    BY <1>2 DEF Free, Step, Ways
  <2> QED
    BY <1>2, <1>3, <2>1, <2>2, GoesSound DEF At, Else
<1> QED
  BY <1>5, <1>6

LEMMA FailureRetrySound == ASSUME Sound, NEW w \in Runners, FailureRetry(w) PROVE Sound'
<1>1. <<run[w].does, run[w].at>> \in Ways /\ TypeOK /\ run[w] \in Run /\ Knows(w)
  BY DEF Sound, Who, Known, TypeOK
<1>2. run[w].does = "failureJob" /\ At(w, "retry")
  BY <1>1 DEF FailureRetry, At, Ways
<1>3. UNCHANGED Else
  BY DEF FailureRetry, Unchanged, Else
<1>4. job[run[w].job].tries \in Nat /\ run[w].job \in DOMAIN job
  BY <1>2, HasJob DEF Jobs
<1>5. JobKept
  BY <1>1, <1>4, JobWritten DEF FailureRetry, JobBecomes, JobStatus
<1>6. CASE Returns(w)
  BY <1>2, <1>3, <1>5, <1>6, JobEndSound DEF At, Returns
<1>7. CASE Goes(w, "attempt") /\ UNCHANGED queue
  <2> DEFINE n == [run[w] EXCEPT !.at = "attempt"]
  <2>1. n \in Run /\ n.does = run[w].does /\ n.job = run[w].job /\ n.at = "attempt"
    BY <1>1, StepIs DEF Run
  <2>2. <<n.does, n.at>> \in Ways
    BY <1>2, <2>1 DEF Ways
  <2>3. run'[w] = n => Knows(w)'
    BY <1>1, <1>2, <1>3, <1>5 DEF Knows, Run, Else, tasks, care, Tasks, JobKept, Jobs
  <2> QED
    BY <1>2, <1>3, <1>5, <1>7, <2>1, <2>2, <2>3, JobOnSound DEF At, Goes, Keeps
<1> QED
  BY <1>6, <1>7 DEF FailureRetry

\* An entry is added for a job that is there.
LEMMA EnqueuedIs ==
  ASSUME TypeOK, NEW q \in Queues, NEW j \in DOMAIN job, queue' \in {queue, Enqueued(q, j)}, job' = job
  PROVE  /\ QueueTypes' /\ Still
         /\ ReportsQueue /\ (q = "reports" => job[j].type \in {"HEALTH"} \cup Trends) => ReportsQueue'
<1>1. <<q, j>> \in Queues \X JobIds /\ queue \in [Queues \X JobIds -> {"none", "waiting", "active"}]
  BY Lengths DEF TypeOK
<1> DEFINE e == <<q, j>>
<1>2. queue' = queue \/ queue' = [queue EXCEPT ![e] = IF queue[e] = "none" THEN "waiting" ELSE queue[e]]
  BY DEF Enqueued
<1> HIDE DEF e
<1>3. e \in Queues \X JobIds
  BY <1>1 DEF e
<1>4. queue' \in [Queues \X JobIds -> {"none", "waiting", "active"}]
  BY <1>1, <1>2, <1>3
<1>5. \A p \in Queues \X JobIds :
        /\ queue[p] = "active" => queue'[p] = "active"
        /\ queue[p] = "none" /\ p # e => queue'[p] = "none"
  BY <1>1, <1>2, <1>3
<1>6. \A i \in JobIds, x \in Queues : <<x, i>> \in Queues \X JobIds /\ (<<x, i>> = e <=> x = q /\ i = j)
  BY DEF e
<1>7. QueueTypes'
  BY <1>4, <1>5, <1>6 DEF QueueTypes, TypeOK
<1>8. Still
  <2> SUFFICES ASSUME NEW x \in Queues, NEW i \in JobIds, queue[<<x, i>>] = "active"
               PROVE  queue'[<<x, i>>] = "active"
    BY DEF Still
  <2> DEFINE p == <<x, i>>
  <2>1. p \in Queues \X JobIds /\ queue[p] = "active"
    OBVIOUS
  <2> HIDE DEF p
  <2>2. queue'[p] = "active"
    BY <1>5, <2>1
  <2> QED
    BY <2>2 DEF p
<1>9. "reports" \in Queues /\ DOMAIN job \subseteq JobIds
  BY DEF Queues, TypeOK
<1>10. ASSUME ReportsQueue, q = "reports" => job[j].type \in {"HEALTH"} \cup Trends PROVE ReportsQueue'
  BY <1>5, <1>6, <1>9, <1>10 DEF ReportsQueue
<1> QED
  BY <1>7, <1>8, <1>10

LEMMA AttachSound == ASSUME Sound, NEW r \in Runners, Attach(r) PROVE Sound'
<1>1. <<run[r].does, run[r].at>> \in Ways /\ TypeOK /\ Entries /\ (r \in Workers => run[r].does \in Jobs \cup {"none"})
  BY DEF Sound, Who
<1>2. r \notin Workers /\ At(r, "attach")
  BY <1>1 DEF Attach, At, Ways, Jobs
<1>3. run[r].job \in DOMAIN job
  BY <1>2, HasJob DEF At
<1>4. QueueOf(run[r].job) \in Queues /\
      (QueueOf(run[r].job) = "reports" => job[run[r].job].type \in {"HEALTH"} \cup Trends)
  BY DEF QueueOf, Queues
<1>5. UNCHANGED <<mix, async, day, goal, plan, rescue, deviation, snapshot, job, report, milestone, events,
                  artifact, restarts, asked, faults>>
  BY DEF Attach, Unchanged, tasks, care, timeline
<1>6. QueueTypes' /\ Still /\ ReportsQueue'
  BY <1>1, <1>3, <1>4, <1>5, EnqueuedIs DEF Attach, Entries
<1>7. RowTypes' /\ Grow
  BY <1>1, <1>5, <1>6, Lengths DEF TypeOK, RowTypes, QueueTypes, Grow
<1>8. Moves(r, Idle)
  BY <1>2, <1>5, IdleIs DEF Moves, Attach, Keeps, At
<1>9. run'[r] = Idle
  BY <1>1, <1>8 DEF Moves, TypeOK
<1>10. Entries'
  BY <1>1, <1>2, <1>6, <1>7, <1>8, EntriesStay DEF Moves, TypeOK, Runners
<1>11. Counted'
  BY <1>5, <1>8, CountOn, IdleIs
<1>12. Knows(r)'
  BY <1>1, <1>5, <1>9, Lengths DEF Knows, Idle, Jobs
<1> QED
  BY <1>7, <1>8, <1>10, <1>11, <1>12, StepSound

LEMMA AdminEnqueueSound == ASSUME Sound, NEW r \in Runners, AdminEnqueue(r) PROVE Sound'
<1>1. <<run[r].does, run[r].at>> \in Ways /\ TypeOK /\ Entries /\ run[r] \in Run /\ Knows(r)
  BY DEF Sound, Who, Known, TypeOK
<1>2. run[r].does = "admin" /\ At(r, "requeue")
  BY <1>1 DEF AdminEnqueue, At, Ways
<1>3. run[r].job \in DOMAIN job
  BY <1>2, HasJob DEF At
<1>4. UNCHANGED <<mix, async, day, goal, plan, rescue, deviation, snapshot, job, report, milestone, events,
                  artifact, restarts, asked, faults>>
  BY DEF AdminEnqueue, Unchanged, tasks, care, timeline
<1>5. QueueTypes' /\ Still /\ ReportsQueue'
  BY <1>1, <1>3, <1>4, EnqueuedIs DEF AdminEnqueue, Entries, Queues
<1>6. RowTypes' /\ Grow
  BY <1>1, <1>4, <1>5, Lengths DEF TypeOK, RowTypes, QueueTypes, Grow
<1> DEFINE n == [run[r] EXCEPT !.at = "requeued"]
<1>7. n \in Run /\ n.does = run[r].does /\ n.job = run[r].job /\ n.at = "requeued"
  BY <1>1, StepIs DEF Run
<1>8. <<n.does, n.at>> \in Ways
  BY <1>2, <1>7 DEF Ways
<1>9. Moves(r, n)
  BY <1>2, <1>4, <1>7, <1>8 DEF Moves, AdminEnqueue, Goes, At
<1>10. run'[r] = n
  BY <1>1, <1>9 DEF Moves, TypeOK
<1>11. Knows(r)'
  BY <1>1, <1>2, <1>4, <1>10 DEF Knows, Run, Tasks, Jobs
<1> QED
  BY <1>2, <1>4, <1>5, <1>6, <1>7, <1>9, <1>11, OnSound DEF At

LEMMA ReportWriteSound == ASSUME Sound, NEW r \in Runners, ReportWrite(r) PROVE Sound'
<1>1. <<run[r].does, run[r].at>> \in Ways /\ TypeOK /\ Entries /\ run[r] \in Run /\ Knows(r)
  BY DEF Sound, Who, Known, TypeOK
<1>2. UNCHANGED <<mix, async, day, goal, plan, rescue, deviation, snapshot, job, milestone, events,
                  artifact, restarts, asked, faults>>
  BY DEF ReportWrite, Unchanged, tasks, care, timeline
<1>3. CASE Returns(r) /\ UNCHANGED report
  BY <1>2, <1>3, ReturnsSound DEF ReportWrite, At, Rows, tasks, care, timeline
<1>4. CASE report' \in BOOLEAN /\ UNCHANGED queue /\ \E to \in {"retry", "succeed", "record"} :
             Goes(r, to) /\ <<run[r].does, to>> \in Ways
  <2>1. PICK to \in {"retry", "succeed", "record"} : Goes(r, to) /\ <<run[r].does, to>> \in Ways
    BY <1>4
  <2> DEFINE n == [run[r] EXCEPT !.at = to]
  <2>2. n \in Run /\ n.does = run[r].does /\ n.job = run[r].job /\ n.at = to
    BY <1>1, StepIs DEF Run
  <2>3. Moves(r, n)
    BY <1>2, <2>1, <2>2 DEF Moves, ReportWrite, Goes, At
  <2>4. run'[r] = n
    BY <1>1, <2>3 DEF Moves, TypeOK
  <2>5. RowTypes' /\ Grow /\ Still /\ ReportsQueue'
    BY <1>1, <1>2, <1>4, Lengths DEF TypeOK, RowTypes, Grow, Still, Entries, ReportsQueue
  <2>6. Knows(r)'
    BY <1>1, <1>2, <2>4 DEF Knows, Run, Tasks
  <2> QED
    BY <1>2, <2>2, <2>3, <2>5, <2>6, OnSound DEF ReportWrite, At
<1>5. CASE run[r].does = "failureJob"
  <2>1. <<run[r].does, "retry">> \in Ways /\ <<run[r].does, "succeed">> \in Ways
    BY <1>5 DEF Ways
  <2>2. report \in BOOLEAN
    BY <1>1 DEF TypeOK
  <2> QED
    BY <1>4, <1>5, <2>1, <2>2 DEF ReportWrite
<1>6. CASE run[r].does # "failureJob"
  <2>1. <<run[r].does, "record">> \in Ways
    BY <1>1, <1>6 DEF ReportWrite, At, Ways
  <2> QED
    BY <1>3, <1>4, <1>6, <2>1 DEF ReportWrite
<1> QED
  BY <1>5, <1>6

\* A runner that changes rows other than jobs, at the last step and on the way.
LEMMA RowsEndSound ==
  ASSUME Sound, NEW r \in Runners, run[r].at # "idle", NEW E, E \subseteq {"none", "waiting"}, Ends(r, E),
         UNCHANGED <<mix, async, job, asked>>, QueueTypes' => RowTypes',
         Len(deviation) <= Len(deviation'), DOMAIN rescue \subseteq DOMAIN rescue'
  PROVE  Sound'
<1>1. Grow
  BY DEF Grow
<1>2. Moves(r, Idle) => Counted'
  BY CountOn, IdleIs
<1> QED
  BY <1>1, <1>2, EndSound

LEMMA RowsOnSound ==
  ASSUME Sound, NEW r \in Runners, NEW n \in Run, run[r].at \notin {"idle", "attach"}, Keeps(r, n),
         n.does = run[r].does, n.job = run[r].job, <<n.does, n.at>> \in Ways,
         UNCHANGED <<mix, async, job, asked, queue>>, QueueTypes' => RowTypes',
         Len(deviation) <= Len(deviation'), DOMAIN rescue \subseteq DOMAIN rescue',
         run'[r] = n => Knows(r)'
  PROVE  Sound'
<1>1. Grow
  BY DEF Grow
<1>2. Moves(r, n)
  BY DEF Moves, Keeps
<1>3. run'[r] = n
  BY DEF Keeps, Sound, TypeOK
<1>4. QueueTypes' /\ Still /\ ReportsQueue'
  BY DEF Sound, TypeOK, QueueTypes, Still, Entries, ReportsQueue
<1> QED
  BY <1>1, <1>2, <1>3, <1>4, OnSound

\* The events of a status, a task, a deviation and a report.
LEMMA EventsAre ==
  /\ \A s : GrowthEvent(s) \subseteq Event
  /\ MilestoneReached \subseteq Event
  /\ TypeOK => Tasks \subseteq Task
  /\ \A t \in Task : {<<"TASK_COMPLETED", t>>, <<"RESCUE_TASK_CREATED", t>>, <<"RESCUE_TASK_COMPLETED", t>>} \subseteq Event
  /\ \A e \in Nat \ {0} : <<"DEVIATION_DETECTED", e>> \in Event
  /\ \A p \in Trends \X Days : <<"REPORT_GENERATED", p>> \in Event
<1>1. \A s : GrowthEvent(s) \subseteq Event
  BY DEF GrowthEvent, Event
<1>2. MilestoneReached \subseteq Event
  BY DEF MilestoneReached, Event
<1>3. ASSUME TypeOK PROVE Tasks \subseteq Task
  <2>1. DOMAIN rescue \subseteq Nat \ {0}
    BY <1>3, Lengths
  <2> QED
    BY <2>1 DEF Tasks, Task
<1>4. \A t \in Task : {<<"TASK_COMPLETED", t>>, <<"RESCUE_TASK_CREATED", t>>, <<"RESCUE_TASK_COMPLETED", t>>} \subseteq Event
  <2>1. \A t \in Task, a \in {"TASK_COMPLETED", "RESCUE_TASK_CREATED", "RESCUE_TASK_COMPLETED"} : <<a, t>> \in Event
    BY DEF Event
  <2> QED
    BY <2>1
<1>5. \A e \in Nat \ {0} : <<"DEVIATION_DETECTED", e>> \in Event
  BY Zenon DEF Event
<1>6. \A p \in Trends \X Days : <<"REPORT_GENERATED", p>> \in Event
  BY Zenon DEF Event
<1> QED
  BY <1>1, <1>2, <1>3, <1>4, <1>5, <1>6

LEMMA SettleWriteSound == ASSUME Sound, NEW r \in Runners, SettleWrite(r) PROVE Sound'
<1> DEFINE next == Settled(run[r].status, run[r].count, run[r].day)
<1>1. <<run[r].does, run[r].at>> \in Ways /\ TypeOK /\ run[r] \in Run /\ Knows(r) /\ run[r].at = "settle"
  BY DEF Sound, Who, TypeOK, Known, SettleWrite, At
<1>2. next \in Status /\ run[r].count \in Nat
  BY <1>1 DEF Settled, Run, Status, Closed
<1>3. UNCHANGED <<mix, async, day, plan, rescue, deviation, snapshot, job, report, milestone,
                  artifact, restarts, asked, faults>>
  BY DEF SettleWrite, Unchanged, tasks, care
<1>4. goal' \in [status : Status, used : Nat] /\ events' \subseteq Event
  BY <1>1, <1>2, EventsAre DEF SettleWrite, TypeOK
<1>5. QueueTypes' => RowTypes'
  BY <1>1, <1>3, <1>4 DEF QueueTypes, RowTypes, TypeOK
<1>6. Len(deviation) <= Len(deviation') /\ DOMAIN rescue \subseteq DOMAIN rescue'
  BY <1>1, <1>3, Lengths
<1>7. CASE Returns(r)
  BY <1>1, <1>3, <1>5, <1>6, <1>7, RowsEndSound DEF Returns
<1>8. CASE Goes(r, "exists") /\ UNCHANGED queue
  <2> DEFINE n == [run[r] EXCEPT !.at = "exists"]
  <2>1. n \in Run /\ n.does = run[r].does /\ n.job = run[r].job /\ n.at = "exists"
    BY <1>1, StepIs DEF Run
  <2>2. <<n.does, n.at>> \in Ways /\ run[r].does \in {"settle", "get"}
    BY <1>1, <2>1 DEF Ways
  <2>3. run'[r] = n => Knows(r)'
    BY <1>1, <1>3, <2>2 DEF Knows, Run, Tasks
  <2> QED
    BY <1>1, <1>3, <1>5, <1>6, <1>8, <2>1, <2>2, <2>3, RowsOnSound DEF Goes, Keeps
<1> QED
  BY <1>7, <1>8 DEF SettleWrite

LEMMA RestartCreateSound == ASSUME Sound, NEW r \in Runners, RestartCreate(r) PROVE Sound'
<1>1. restarts' \in Nat /\ faults' \in 0..MaxFaults
  BY DEF RestartCreate, Sound, TypeOK
<1> QED
  BY <1>1, DoneSound DEF RestartCreate, Returns, At

LEMMA DiesSound == ASSUME Sound, NEW r \in Runners, Dies(r) PROVE Sound'
<1>1. restarts' \in Nat /\ faults' \in 0..MaxFaults
  BY Constant DEF Dies, Sound, TypeOK
<1>2. \E E \in {{"none"}, {"none", "waiting"}} : Ends(r, E)
  BY DEF Dies, Throws
<1> QED
  BY <1>1, <1>2, DoneSound DEF Dies

LEMMA MilestoneWriteSound == ASSUME Sound, NEW r \in Runners, MilestoneWrite(r) PROVE Sound'
<1>1. TypeOK
  BY DEF Sound
<1>2. UNCHANGED <<mix, async, day, goal, plan, rescue, deviation, snapshot, job, report,
                  artifact, restarts, asked, faults>>
  BY DEF MilestoneWrite, Unchanged, tasks, care
<1>3. events' \subseteq Event /\ milestone' \in BOOLEAN
  BY <1>1, EventsAre DEF MilestoneWrite, TypeOK
<1>4. QueueTypes' => RowTypes'
  BY <1>1, <1>2, <1>3 DEF QueueTypes, RowTypes, TypeOK
<1> QED
  BY <1>1, <1>2, <1>4, Lengths, RowsEndSound DEF MilestoneWrite, At, Returns

LEMMA BackfillWriteSound == ASSUME Sound, NEW r \in Runners, BackfillWrite(r) PROVE Sound'
<1>1. <<run[r].does, run[r].at>> \in Ways /\ TypeOK /\ run[r] \in Run /\ Knows(r) /\ run[r].at = "events"
  BY DEF Sound, Who, TypeOK, Known, BackfillWrite, At
<1>2. UNCHANGED <<mix, async, day, goal, plan, rescue, deviation, snapshot, job, report, milestone,
                  artifact, restarts, asked, faults>>
  BY DEF BackfillWrite, Unchanged, tasks, care
<1>3. run[r].todo \in Seq(SUBSET Event) /\ run[r].does = "backfill"
  BY <1>1 DEF Run, Ways
<1>4. /\ Head(run[r].todo) \subseteq Event /\ Tail(run[r].todo) \in Seq(SUBSET Event)
      /\ Len(run[r].todo) # 1 => Tail(run[r].todo) # <<>>
  <2> DEFINE s == run[r].todo
  <2>1. s \in Seq(SUBSET Event) /\ s # <<>>
    BY <1>1, <1>3 DEF Knows
  <2> HIDE DEF s
  <2>2. Head(s) \in SUBSET Event /\ Tail(s) \in Seq(SUBSET Event) /\ (Len(s) # 1 => Tail(s) # <<>>)
    <3>1. Head(s) \in SUBSET Event
      BY <2>1
    <3>2. Tail(s) \in Seq(SUBSET Event)
      BY <2>1
    <3>3. ASSUME Len(s) # 1 PROVE Tail(s) # <<>>
      <4>1. Len(Tail(s)) = Len(s) - 1 /\ Len(s) \in Nat
        BY <2>1
      <4>2. Len(s) # 0 /\ Len(<<>>) = 0
        BY <2>1
      <4>3. Len(Tail(s)) # Len(<<>>)
        BY <3>3, <4>1, <4>2
      <4> QED
        BY <4>3
    <3> QED
      BY <3>1, <3>2, <3>3
  <2> QED
    BY <2>2 DEF s
<1>5. events' \subseteq Event
  BY <1>1, <1>4 DEF BackfillWrite, TypeOK
<1>6. QueueTypes' => RowTypes'
  BY <1>1, <1>2, <1>5 DEF QueueTypes, RowTypes, TypeOK
<1>7. Len(deviation) <= Len(deviation') /\ DOMAIN rescue \subseteq DOMAIN rescue'
  BY <1>1, <1>2, Lengths
<1>8. CASE Len(run[r].todo) = 1
  BY <1>1, <1>2, <1>6, <1>7, <1>8, RowsEndSound DEF Returns, BackfillWrite
<1>9. CASE Len(run[r].todo) # 1
  <2> DEFINE t == Tail(run[r].todo)
             n == [run[r] EXCEPT !.todo = t]
  <2>1. t \in Seq(SUBSET Event) /\ t # <<>>
    BY <1>4, <1>9
  <2>2. Keeps(r, n) /\ UNCHANGED queue
    BY <1>9 DEF BackfillWrite
  <2> HIDE DEF t
  <2>3. n \in Run
    BY <1>1, <2>1 DEF Run
  <2>4. n.does = run[r].does /\ n.job = run[r].job /\ n.at = run[r].at /\ n.todo = t
    BY <1>1 DEF Run
  <2>5. run'[r] = n => Knows(r)'
    BY <1>1, <1>2, <1>3, <2>1, <2>4 DEF Knows, Run, Tasks
  <2> QED
    BY <1>1, <1>2, <1>6, <1>7, <2>2, <2>3, <2>4, <2>5, RowsOnSound
<1> QED
  BY <1>8, <1>9

\* Workers do jobs, requests do not.
LEMMA WorkersDo ==
  ASSUME Sound, NEW r \in Runners
  PROVE  /\ r \in Workers => r \notin Requests /\ run[r].does \in Jobs \cup {"none"}
         /\ r \in Requests => run[r].does \in Kinds \cup {"none"}
<1>1. mix \in [Requests -> Kinds]
  BY GoalsAssumption DEF Sound, TypeOK
<1> QED
  BY <1>1, Constant DEF Sound, Who

\* A job that a request makes has an id, and is counted.
LEMMA RoomFor ==
  ASSUME Sound, NEW r \in Requests, run[r].at \notin {"idle", "attach"}
  PROVE  Len(job) + 1 \in JobIds
<1>1. Cardinality({r}) <= Cardinality(Making) /\ Cardinality({r}) = 1
  BY MakingIs, FS_Subset, FS_Singleton DEF Making
<1>2. Len(job) \in Nat /\ asked \in Nat /\ asked \in {0} \cup Asked
  BY Lengths DEF Sound, TypeOK
<1>3. Len(job) + 1 <= asked
  BY <1>1, <1>2, MakingIs DEF Sound, Counted
<1>4. PICK m \in Mixes : asked \in 1..MaxAsks[m]
  BY <1>2, <1>3 DEF Asked
<1>5. Len(job) + 1 \in 1..MaxAsks[m]
  BY <1>2, <1>3, <1>4, Constant
<1> QED
  BY <1>4, <1>5, Constant DEF JobIds

LEMMA OneMore ==
  ASSUME Sound, NEW r \in Requests, run[r].at \notin {"idle", "attach"}, NEW n, Moves(r, n),
         n.at \in {"idle", "attach"}, Len(job') = Len(job) + 1, asked' = asked
  PROVE  Counted'
<1>1. r \in Making
  BY DEF Making
<1>2. Making' = Making \ {r}
  BY DEF Making, Moves, Sound, TypeOK
<1>3. Cardinality(Making') = Cardinality(Making) - 1
  BY <1>1, <1>2, MakingIs, FS_RemoveElement
<1>4. Len(job) \in Nat /\ asked \in Nat /\ Len(job) + Cardinality(Making) <= asked
  BY Lengths DEF Sound, Counted
<1>5. Len(job') + Cardinality(Making') <= asked'
  BY <1>3, <1>4, MakingIs
<1> QED
  BY <1>5 DEF Counted

LEMMA JobAdded ==
  ASSUME Sound, NEW t \in JobType, NEW s \in JobStatus, NEW tries \in Nat, Len(job) + 1 \in JobIds,
         job' = Append(job, [type |-> t, status |-> s, tries |-> tries]), UNCHANGED Else
  PROVE  /\ Len(job') = Len(job) + 1 /\ DOMAIN job' = DOMAIN job \cup {Len(job) + 1}
         /\ \A k \in DOMAIN job : job'[k] = job[k]
         /\ job'[Len(job) + 1] = [type |-> t, status |-> s, tries |-> tries]
         /\ QueueTypes' => RowTypes'
         /\ Grow /\ mix' = mix /\ async' = async /\ asked' = asked
<1> DEFINE S == [type : JobType, status : JobStatus, tries : Nat]
           row == [type |-> t, status |-> s, tries |-> tries]
<1>1. job \in Seq(S) /\ TypeOK
  BY DEF Sound, TypeOK
<1>2. row \in S
  OBVIOUS
<1>3. job' = Append(job, row)
  OBVIOUS
<1> HIDE DEF S, row
<1>4. /\ job' \in Seq(S) /\ Len(job') = Len(job) + 1 /\ DOMAIN job' = 1..(Len(job) + 1) /\ DOMAIN job = 1..Len(job)
      /\ job'[Len(job) + 1] = row /\ \A k \in DOMAIN job : job'[k] = job[k] /\ Len(job) \in Nat
  BY <1>1, <1>2, <1>3, SeqIs
<1>5. DOMAIN job' = DOMAIN job \cup {Len(job) + 1}
  BY <1>4
<1>6. UNCHANGED <<mix, async, day, goal, plan, rescue, deviation, snapshot, report, milestone, events, artifact,
                  restarts, asked, faults>>
  BY DEF Else, tasks, care, timeline
<1>7. job' \in Seq([type : JobType, status : JobStatus, tries : Nat]) /\ DOMAIN job' \subseteq JobIds
  BY <1>1, <1>4, <1>5 DEF S, TypeOK
<1>8. QueueTypes' => RowTypes'
  BY <1>1, <1>6, <1>7 DEF TypeOK, RowTypes, QueueTypes
<1>9. Grow
  BY <1>1, <1>4, <1>5, <1>6, Lengths DEF Grow
<1> QED
  BY <1>4, <1>5, <1>6, <1>8, <1>9 DEF row

LEMMA CreateJobSound == ASSUME Sound, NEW r \in Runners, CreateJob(r) PROVE Sound'
<1>1. /\ <<run[r].does, run[r].at>> \in Ways /\ TypeOK /\ run[r] \in Run /\ Knows(r) /\ run[r].at = "create"
      /\ Entries
  BY DEF Sound, Who, TypeOK, Known, CreateJob, At
<1>2. run[r].does \in {"settle", "get", "rescue", "report", "later"}
  BY <1>1 DEF Ways
<1>3. r \in Requests /\ r \notin Workers
  BY <1>2, WorkersDo, Constant DEF Jobs, Runners
<1>4. JobTypeOf(r) \in JobType
  BY <1>1, <1>2 DEF JobTypeOf, JobType, Knows
<1>5. UNCHANGED Else /\ UNCHANGED queue
  BY DEF CreateJob, Unchanged, Else
<1> DEFINE k == Len(job) + 1
           n == [run[r] EXCEPT !.at = "attach", !.job = k]
<1>6. /\ k \in Nat /\ n.does = run[r].does /\ n.job = k /\ n.at = "attach" /\ n.event = run[r].event
      /\ n.found = run[r].found /\ n.kind = run[r].kind
  BY <1>1, Lengths DEF Run
<1>7. Keeps(r, n)
  BY DEF CreateJob
<1> HIDE DEF k
<1>8. <<n.does, n.at>> \in Ways
  BY <1>2, <1>6 DEF Ways
<1>9. run' = [run EXCEPT ![r] = n]
  BY <1>7 DEF Keeps
<1>10. k \in JobIds
  BY <1>1, <1>3, RoomFor DEF k
<1>11. n \in Run
  BY <1>1, <1>10, StepIs DEF Run, JobIds
<1>12. Moves(r, n)
  BY <1>1, <1>5, <1>6, <1>7, <1>8, <1>11 DEF Moves, Keeps, Else
<1>13. /\ Len(job') = Len(job) + 1 /\ DOMAIN job' = DOMAIN job \cup {k}
       /\ \A i \in DOMAIN job : job'[i] = job[i]
       /\ QueueTypes' => RowTypes'
       /\ Grow /\ mix' = mix /\ async' = async /\ asked' = asked
  BY <1>4, <1>5, <1>10, JobAdded DEF CreateJob, JobStatus, k
<1>14. Counted'
  BY <1>1, <1>3, <1>6, <1>12, <1>13, OneMore
<1>15. QueueTypes' /\ Still /\ ReportsQueue'
  <2>1. QueueTypes' /\ Still
    BY <1>1, <1>5, <1>13 DEF TypeOK, QueueTypes, Still
  <2>2. \A i \in DOMAIN job' : queue'[<<"reports", i>>] # "none" =>
          i \in DOMAIN job /\ queue[<<"reports", i>>] # "none" /\ job'[i] = job[i]
    BY <1>1, <1>5, <1>10, <1>13 DEF TypeOK, Queues
  <2> QED
    BY <1>1, <2>1, <2>2 DEF Entries, ReportsQueue
<1>16. \A w \in Workers : run'[w] = run[w]
  BY <1>1, <1>3, <1>9 DEF TypeOK, Runners
<1>17. Entries'
  BY <1>13, <1>15, <1>16, EntriesStay
<1>18. run'[r] = n
  BY <1>1, <1>9 DEF TypeOK
<1>19. Knows(r)'
  <2>1. UNCHANGED <<deviation, rescue>>
    BY <1>5 DEF Else, tasks, care
  <2> HIDE DEF n
  <2> QED
    BY <1>1, <1>2, <1>6, <1>13, <1>18, <2>1 DEF Knows
<1> QED
  BY <1>12, <1>13, <1>14, <1>15, <1>17, <1>19, StepSound

LEMMA RecordWriteSound == ASSUME Sound, NEW r \in Runners, RecordWrite(r) PROVE Sound'
<1>1. /\ <<run[r].does, run[r].at>> \in Ways /\ TypeOK /\ run[r] \in Run /\ Knows(r) /\ run[r].at = "recorded"
  BY DEF Sound, Who, TypeOK, Known, RecordWrite, At
<1>2. run[r].does \in {"settle", "get", "rescue"}
  BY <1>1 DEF Ways
<1>3. r \in Requests /\ r \notin Workers
  BY <1>2, WorkersDo, Constant DEF Jobs, Runners
<1>4. UNCHANGED Else /\ Returns(r)
  BY DEF RecordWrite, Unchanged, Else
<1> DEFINE t == IF run[r].does = "rescue" THEN "RESCUE" ELSE "FAILURE"
           done == [type |-> t, status |-> "SUCCEEDED", tries |-> 1]
<1>5. t \in JobType /\ "SUCCEEDED" \in JobStatus
  BY DEF JobType, JobStatus
<1>6. CASE run[r].found = 0
  <2>1. job' = Append(job, done)
    BY <1>6 DEF RecordWrite
  <2>2. Moves(r, Idle)
    BY <1>1, <1>4, IdleIs DEF Moves, Returns, Ends, Else
  <2>3. Len(job) + 1 \in JobIds
    BY <1>1, <1>3, RoomFor
  <2>4. Len(job') = Len(job) + 1 /\ (QueueTypes' => RowTypes') /\ Grow /\ mix' = mix /\ async' = async /\ asked' = asked
    BY <1>4, <1>5, <2>1, <2>3, JobAdded
  <2>5. Counted'
    BY <1>1, <1>3, <2>2, <2>4, OneMore, IdleIs
  <2> QED
    BY <1>1, <1>4, <2>4, <2>5, EndSound DEF Returns
<1>7. CASE run[r].found # 0
  <2>1. run[r].found \in DOMAIN job /\ job[run[r].found].type = "FAILURE" /\ t = "FAILURE"
    BY <1>1, <1>2, <1>7 DEF Knows
  <2>2. job' = [job EXCEPT ![run[r].found] = done]
    BY <1>7 DEF RecordWrite
  <2>3. JobKept
    BY <1>1, <1>5, <2>1, <2>2, JobWritten
  <2> QED
    BY <1>1, <1>4, <2>3, JobEndSound DEF Returns
<1> QED
  BY <1>6, <1>7

\* A row of the rescue tasks changes or is added.
RescueType == [day : Days, done : BOOLEAN, event : 0..Len(deviation)]
LEMMA RescueWritten ==
  ASSUME TypeOK, NEW row \in RescueType, deviation' = deviation
  PROVE  /\ \A i \in DOMAIN rescue : rescue' = [rescue EXCEPT ![i] = row] =>
              rescue' \in Seq([day : Days, done : BOOLEAN, event : 0..Len(deviation)])' /\ DOMAIN rescue' = DOMAIN rescue
         /\ rescue' = Append(rescue, row) =>
              /\ rescue' \in Seq([day : Days, done : BOOLEAN, event : 0..Len(deviation)])'
              /\ DOMAIN rescue' = DOMAIN rescue \cup {Len(rescue) + 1} /\ Len(rescue) + 1 \in Nat \ {0}
              /\ rescue'[Len(rescue) + 1] = row /\ \A i \in DOMAIN rescue : rescue'[i] = rescue[i]
<1>1. rescue \in Seq(RescueType)
  BY DEF TypeOK, RescueType
<1>2. RescueType' = RescueType
  BY DEF RescueType
<1> DEFINE S == RescueType
<1> HIDE DEF S
<1>3. rescue \in Seq(S) /\ row \in S
  BY <1>1 DEF S
<1>4. \A i \in DOMAIN rescue : rescue' = [rescue EXCEPT ![i] = row] => rescue' \in Seq(S) /\ DOMAIN rescue' = DOMAIN rescue
  BY <1>3, SeqIs
<1>5. rescue' = Append(rescue, row) =>
        /\ rescue' \in Seq(S) /\ DOMAIN rescue' = DOMAIN rescue \cup {Len(rescue) + 1} /\ Len(rescue) + 1 \in Nat \ {0}
        /\ rescue'[Len(rescue) + 1] = row /\ \A i \in DOMAIN rescue : rescue'[i] = rescue[i]
  <2>1. Len(rescue) \in Nat /\ DOMAIN rescue = 1..Len(rescue)
    BY <1>3
  <2>2. rescue' = Append(rescue, row) =>
          /\ rescue' \in Seq(S) /\ DOMAIN rescue' = 1..(Len(rescue) + 1)
          /\ rescue'[Len(rescue) + 1] = row /\ \A i \in 1..Len(rescue) : rescue'[i] = rescue[i]
    BY <1>3, SeqIs
  <2> QED
    BY <2>1, <2>2
<1>6. S = RescueType'
  BY <1>2 DEF S
<1> QED
  BY <1>4, <1>5, <1>6 DEF RescueType

LEMMA CheckinWriteSound == ASSUME Sound, NEW r \in Runners, CheckinWrite(r) PROVE Sound'
<1>1. TypeOK /\ run[r] \in Run /\ Knows(r) /\ run[r].at = "complete" /\ run[r].does = "checkin"
  BY DEF Sound, TypeOK, Known, CheckinWrite, At
<1> DEFINE t == run[r].task
<1>2. t \in Tasks /\ t \in Task
  BY <1>1, EventsAre DEF Knows
<1>3. UNCHANGED <<mix, async, day, goal, deviation, snapshot, job, report, milestone,
                  artifact, restarts, asked, faults>>
  BY DEF CheckinWrite, Unchanged, care
<1>4. events' \subseteq Event
  <2>1. <<"TASK_COMPLETED", t>> \in Event /\ <<"RESCUE_TASK_COMPLETED", t>> \in Event
    BY <1>2, EventsAre
  <2>2. events' \subseteq events \cup {<<"TASK_COMPLETED", t>>, <<"RESCUE_TASK_COMPLETED", t>>}
    BY DEF CheckinWrite
  <2> QED
    BY <1>1, <2>1, <2>2 DEF TypeOK
<1>5. /\ plan' \in [Planned -> BOOLEAN] /\ DOMAIN rescue' = DOMAIN rescue
      /\ rescue' \in Seq([day : Days, done : BOOLEAN, event : 0..Len(deviation)])'
  <2>1. CASE t[1] = "plan"
    BY <1>1, <1>3, <2>1 DEF CheckinWrite, TypeOK
  <2>2. CASE t[1] # "plan"
    <3>1. PICK i \in DOMAIN rescue : t = <<"rescue", i>>
      BY <1>2, <2>2 DEF Tasks
    <3> DEFINE row == [day |-> rescue[i].day, done |-> TRUE, event |-> rescue[i].event]
    <3>2. rescue' = [rescue EXCEPT ![i] = row] /\ plan' = plan
      BY <2>2, <3>1 DEF CheckinWrite
    <3>3. row \in RescueType
      BY <1>1, Lengths DEF RescueType
    <3> QED
      BY <1>1, <1>3, <3>2, <3>3, RescueWritten DEF TypeOK
  <2> QED
    BY <2>1, <2>2
<1>6. QueueTypes' => RowTypes'
  BY <1>1, <1>3, <1>4, <1>5 DEF QueueTypes, RowTypes, TypeOK
<1>7. Len(deviation) <= Len(deviation')
  BY <1>1, <1>3, Lengths
<1> QED
  BY <1>1, <1>3, <1>5, <1>6, <1>7, RowsEndSound DEF CheckinWrite, Returns

LEMMA PersistRescueSound == ASSUME Sound, NEW r \in Runners, PersistRescue(r) PROVE Sound'
<1>1. /\ <<run[r].does, run[r].at>> \in Ways /\ TypeOK /\ run[r] \in Run /\ Knows(r) /\ run[r].at = "persist"
      /\ run[r].event \in 0..Len(deviation) /\ run[r].day \in Days
  <2>1. /\ <<run[r].does, run[r].at>> \in Ways /\ TypeOK /\ run[r] \in Run /\ Knows(r) /\ run[r].at = "persist"
    BY DEF Sound, Who, TypeOK, Known, PersistRescue, At
  <2>2. run[r].event \in Nat /\ run[r].event <= Len(deviation) /\ Len(deviation) \in Nat /\ run[r].day \in Days
    BY <2>1, Lengths DEF Knows, Run
  <2> QED
    BY <2>1, <2>2
<1>2. run[r].does \in {"rescue", "rescueJob"} /\ (run[r].does = "rescueJob" <=> r \in Workers)
  <2>1. run[r].does \in {"rescue", "rescueJob"}
    BY <1>1 DEF Ways
  <2> QED
    BY <2>1, WorkersDo DEF Runners, Kinds, Jobs
<1>3. UNCHANGED <<mix, async, day, goal, plan, deviation, snapshot, job, queue, report, milestone,
                  artifact, restarts, asked, faults>>
  BY DEF PersistRescue, Unchanged, care, jobs
<1> DEFINE i == run[r].found
           k == IF i = 0 THEN Len(rescue) + 1 ELSE i
<1>4. i \in {0} \cup DOMAIN rescue /\ Len(rescue) \in Nat /\ DOMAIN rescue = 1..Len(rescue)
  BY <1>1, <1>2, Lengths DEF Knows
<1>5. events' \subseteq Event
  <2>1. <<"rescue", k>> \in Task
    BY <1>4 DEF Task
  <2>2. <<"RESCUE_TASK_CREATED", <<"rescue", k>>>> \in Event
    BY <2>1, EventsAre
  <2>3. events' = events \cup {<<"RESCUE_TASK_CREATED", <<"rescue", k>>>>}
    BY DEF PersistRescue
  <2> QED
    BY <1>1, <2>2, <2>3 DEF TypeOK
<1>6. /\ DOMAIN rescue \subseteq DOMAIN rescue'
      /\ rescue' \in Seq([day : Days, done : BOOLEAN, event : 0..Len(deviation)])'
  <2>1. CASE i = 0
    <3> DEFINE row == [day |-> run[r].day, done |-> FALSE, event |-> run[r].event]
    <3>1. row \in RescueType
      BY <1>1 DEF RescueType
    <3>2. rescue' = Append(rescue, row)
      BY <2>1 DEF PersistRescue
    <3> QED
      BY <1>1, <1>3, <3>1, <3>2, RescueWritten
  <2>2. CASE i # 0 /\ rescue[i].event # 0
    BY <1>1, <1>3, <2>2 DEF PersistRescue, TypeOK
  <2>3. CASE i # 0 /\ rescue[i].event = 0
    <3> DEFINE row == [day |-> rescue[i].day, done |-> rescue[i].done, event |-> run[r].event]
    <3>1. row \in RescueType /\ i \in DOMAIN rescue
      BY <1>1, <1>4, <2>3, Lengths DEF RescueType
    <3>2. rescue' = [rescue EXCEPT ![i] = row]
      BY <2>3 DEF PersistRescue
    <3> QED
      BY <1>1, <1>3, <3>1, <3>2, RescueWritten
  <2> QED
    BY <2>1, <2>2, <2>3
<1>7. QueueTypes' => RowTypes'
  BY <1>1, <1>3, <1>5, <1>6 DEF QueueTypes, RowTypes, TypeOK
<1>8. Len(deviation) <= Len(deviation')
  BY <1>1, <1>3, Lengths
<1> DEFINE to == IF r \in Workers THEN "succeed" ELSE "recorded"
           n == [run[r] EXCEPT !.at = to, !.found = 0]
<1>9. to \in {"succeed", "recorded"} /\ <<run[r].does, to>> \in Ways
  BY <1>2 DEF Ways
<1>10. Keeps(r, n)
  BY DEF PersistRescue
<1> HIDE DEF to
<1>11. n \in Run /\ n.does = run[r].does /\ n.job = run[r].job /\ n.at = to
  BY <1>1, <1>9, StepIs DEF Run
<1>12. run'[r] = n => Knows(r)'
  BY <1>1, <1>2, <1>3, <1>9 DEF Knows, Run
<1> QED
  BY <1>1, <1>3, <1>6, <1>7, <1>8, <1>9, <1>10, <1>11, <1>12, RowsOnSound

\* A method that looks at a deviation goes on to what is its own.
LEMMA OnwardIs ==
  ASSUME NEW r, run[r].does \in {"rescue", "rescueJob", "health", "healthJob"}
  PROVE  /\ <<run[r].does, Onward(r)>> \in Ways /\ Onward(r) \in {"snapshot", "running", "create", "persist"}
         /\ run[r].does = "rescue" /\ Onward(r) = "persist" => ~async
         /\ Onward(r) = "snapshot" <=> run[r].does \in {"health", "healthJob"}
BY DEF Onward, Rescues, Ways

LEMMA WriteDeviationSound == ASSUME Sound, NEW r \in Runners, WriteDeviation(r) PROVE Sound'
<1>1. /\ <<run[r].does, run[r].at>> \in Ways /\ TypeOK /\ run[r] \in Run /\ Knows(r) /\ run[r].at = "deviate"
      /\ run[r].event \in Nat /\ run[r].event <= Len(deviation) /\ run[r].reason \in ReasonSet /\ day \in Days
  BY Lengths DEF Sound, Who, TypeOK, Known, WriteDeviation, At, Knows, Run
<1>2. run[r].does \in {"rescue", "rescueJob", "health", "healthJob"}
  BY <1>1 DEF Ways
<1>3. UNCHANGED <<mix, async, day, goal, plan, rescue, snapshot, job, queue, report, milestone,
                  artifact, restarts, asked, faults>>
  BY DEF WriteDeviation, Unchanged, tasks, jobs
<1> DEFINE D == [day : Days, reason : ReasonSet]
           row == [day |-> day, reason |-> run[r].reason]
           e == IF run[r].event = 0 THEN Len(deviation) + 1 ELSE run[r].event
           to == Onward(r)
           n == [run[r] EXCEPT !.at = to, !.event = e]
<1>4. deviation \in Seq(D) /\ Len(deviation) \in Nat /\ DOMAIN deviation = 1..Len(deviation)
  BY <1>1, Lengths DEF TypeOK
<1>5. row \in D
  BY <1>1
<1>6. deviation' = IF e > Len(deviation) THEN Append(deviation, row) ELSE [deviation EXCEPT ![e] = row]
  BY DEF WriteDeviation
<1>7. Keeps(r, n) /\ events' = events \cup {<<"DEVIATION_DETECTED", e>>}
  BY DEF WriteDeviation
<1>8. e \in Nat \ {0} /\ (e > Len(deviation) => e = Len(deviation) + 1)
  BY <1>1, <1>4
<1> HIDE DEF D, row, e, to
<1>9. deviation' \in Seq(D) /\ Len(deviation') \in Nat /\ Len(deviation) <= Len(deviation') /\ e <= Len(deviation')
  <2>1. CASE e > Len(deviation)
    BY <1>4, <1>5, <1>6, <1>8, <2>1, SeqIs
  <2>2. CASE ~(e > Len(deviation))
    <3>1. e \in DOMAIN deviation
      BY <1>4, <1>8, <2>2
    <3> QED
      BY <1>4, <1>5, <1>6, <1>8, <2>2, <3>1, SeqIs
  <2> QED
    BY <2>1, <2>2
<1>10. rescue' \in Seq([day : Days, done : BOOLEAN, event : 0..Len(deviation)])'
  <2> DEFINE S == RescueType'
  <2>1. \A i \in DOMAIN rescue : rescue[i] \in S
    BY <1>1, <1>4, <1>9, Lengths DEF RescueType
  <2>2. rescue \in [1..Len(rescue) -> S] /\ Len(rescue) \in Nat
    <3> DEFINE T == RescueType
    <3>1. rescue \in Seq(T)
      BY <1>1 DEF TypeOK, RescueType
    <3> HIDE DEF S, T
    <3>2. Len(rescue) \in Nat /\ rescue \in [1..Len(rescue) -> T]
      BY <3>1
    <3> QED
      BY <2>1, <3>2
  <2> HIDE DEF S
  <2>3. rescue \in Seq(S)
    BY <2>2
  <2> QED
    BY <1>3, <2>3 DEF S, RescueType
<1>11. events' \subseteq Event
  BY <1>1, <1>7, <1>8, EventsAre DEF TypeOK
<1>12. QueueTypes' => RowTypes'
  BY <1>1, <1>3, <1>9, <1>10, <1>11 DEF QueueTypes, RowTypes, TypeOK, D
<1>13. <<run[r].does, to>> \in Ways /\ to \in {"snapshot", "running", "create", "persist"}
       /\ (run[r].does = "rescue" /\ to = "persist" => ~async)
  BY <1>2, OnwardIs DEF to
<1>14. n \in Run /\ n.does = run[r].does /\ n.job = run[r].job /\ n.at = to /\ n.event = e
  BY <1>1, <1>8, <1>13, StepIs DEF Run
<1>15. run'[r] = n => Knows(r)'
  BY <1>1, <1>2, <1>3, <1>9, <1>13, <1>14 DEF Knows, Run
<1> QED
  BY <1>1, <1>3, <1>7, <1>9, <1>12, <1>13, <1>14, <1>15, RowsOnSound

\* Shares and averages are per cent.
LEMMA Percent == \A t \in Nat, n \in Nat \ {0} : t <= 100 * n => (2 * t + n) \div (2 * n) \in 0..100
<1> TAKE t \in Nat, n \in Nat \ {0}
<1> HAVE t <= 100 * n
<1> DEFINE a == 2 * t + n
           b == 2 * n
<1>1. a \in Nat /\ b \in Nat \ {0} /\ a < 101 * b
  OBVIOUS
<1> HIDE DEF a, b
<1>2. a \div b \in Int /\ 0 <= a \div b
  BY <1>1
<1>3. a \div b < 101
  BY <1>1
<1> QED
  BY <1>2, <1>3 DEF a, b

LEMMA AverageIs ==
  ASSUME TypeOK, NEW from, NEW to
  PROVE  Average(from, to) \in NoHealth..100
<1> DEFINE kept == {d \in Days \cap from..to : snapshot[d] # NoHealth}
           pairs == {p \in kept \X (1..100) : p[2] <= snapshot[p[1]]}
<1>1. IsFiniteSet(kept) /\ Cardinality(kept) \in Nat
  <2>1. IsFiniteSet(Days)
    BY Constant, FS_Interval DEF Days
  <2> QED
    BY <2>1, FS_Subset, FS_CardinalityType
<1>2. IsFiniteSet(kept \X (1..100)) /\ Cardinality(kept \X (1..100)) = Cardinality(kept) * 100
  <2> HIDE DEF kept
  <2>1. IsFiniteSet(1..100) /\ Cardinality(1..100) = 100
    <3>1. \A a, b \in Int : IsFiniteSet(a..b) /\ Cardinality(a..b) = IF a > b THEN 0 ELSE b - a + 1
      BY FS_Interval
    <3> DEFINE S == 1..100
    <3>2. 1 \in Int /\ 100 \in Int
      OBVIOUS
    <3>3. IsFiniteSet(S) /\ Cardinality(S) = IF 1 > 100 THEN 0 ELSE 100 - 1 + 1
      BY <3>1, <3>2, Zenon
    <3> HIDE DEF S
    <3>4. IsFiniteSet(S) /\ Cardinality(S) = 100
      BY <3>3
    <3> QED
      BY <3>4 DEF S
  <2> QED
    BY <1>1, <2>1, FS_Product
<1>3. Cardinality(pairs) \in Nat /\ Cardinality(pairs) <= 100 * Cardinality(kept)
  <2>1. pairs \subseteq kept \X (1..100)
    OBVIOUS
  <2> HIDE DEF kept, pairs
  <2> QED
    BY <1>1, <1>2, <2>1, FS_Subset, FS_CardinalityType
<1>4. kept # {} => Cardinality(kept) # 0
  <2> HIDE DEF kept
  <2> QED
    BY <1>1, FS_EmptySet
<1>5. Average(from, to) = IF kept = {} THEN NoHealth
                          ELSE (2 * Cardinality(pairs) + Cardinality(kept)) \div (2 * Cardinality(kept))
  BY DEF Average
<1> HIDE DEF kept, pairs
<1>6. CASE kept = {}
  BY <1>5, <1>6 DEF NoHealth
<1>7. CASE kept # {}
  <2> DEFINE t == Cardinality(pairs)
             n == Cardinality(kept)
  <2>1. t \in Nat /\ n \in Nat \ {0} /\ t <= 100 * n
    BY <1>1, <1>3, <1>4, <1>7
  <2>2. Average(from, to) = (2 * t + n) \div (2 * n)
    BY <1>5, <1>7
  <2> HIDE DEF t, n
  <2>3. (2 * t + n) \div (2 * n) \in 0..100
    BY <2>1, Percent
  <2> QED
    BY <2>2, <2>3 DEF NoHealth
<1> QED
  BY <1>6, <1>7

LEMMA RateIs ==
  ASSUME TypeOK, NEW T, T \subseteq Tasks
  PROVE  CompletionRate(T) \in Int
<1> DEFINE D == {t \in T : IsTaskCompleted(t)}
<1>1. Cardinality(T) \in Nat /\ IsFiniteSet(T) /\ Cardinality(D) \in Nat
  BY TasksFinite
<1>2. T # {} => Cardinality(T) # 0
  BY <1>1, FS_EmptySet
<1>3. CompletionRate(T) = IF T = {} THEN 0 ELSE (200 * Cardinality(D) + Cardinality(T)) \div (2 * Cardinality(T))
  BY DEF CompletionRate
<1> HIDE DEF D
<1>4. \A a \in Nat, b \in Nat \ {0} : a \div b \in Int
  OBVIOUS
<1> QED
  BY <1>1, <1>2, <1>3, <1>4

\* The parts of the health, and the health.
LEMMA ToleranceIs == TypeOK => Tolerance \in Nat
BY Constant DEF TypeOK, Tolerance

LEMMA StreakIs == \A d \in Nat : StreakDays(d) \in Nat
<1> TAKE d \in Nat
<1>1. IsFiniteSet(0..d)
  BY FS_Interval
<1>2. {e \in 0..d : \A f \in e..d : \E t \in On({f}) : IsTaskCompleted(t)} \subseteq 0..d
  OBVIOUS
<1> QED
  BY <1>1, <1>2, FS_Subset, FS_CardinalityType DEF StreakDays

LEMMA RiskIs == \A d, low : RiskCount(d, low) \in Nat
<1> TAKE d, low
<1> DEFINE A == {n \in 1..4 : \/ n = 1 /\ CompletionRate(On(WeekRange(d))) < 60
                              \/ n = 2 /\ StreakDays(d) = 0
                              \/ n = 3 /\ "LOW_SCORE" \in low
                              \/ n = 4 /\ Tolerance <= 1}
           B == DeviationReasons(d, low) \cap {"LOW_INVESTMENT", "TASK_DELAY"}
<1>1. A \subseteq 1..4 /\ IsFiniteSet(1..4)
  <2>1. A \subseteq 1..4
    OBVIOUS
  <2>2. 1 \in Int /\ 4 \in Int
    OBVIOUS
  <2>3. IsFiniteSet(1..4)
    BY <2>2, FS_Interval, Zenon
  <2> QED
    BY <2>1, <2>3
<1>2. B \subseteq {"LOW_INVESTMENT", "TASK_DELAY"} /\ IsFiniteSet({"LOW_INVESTMENT", "TASK_DELAY"})
  <2>1. {"LOW_INVESTMENT", "TASK_DELAY"} = {"LOW_INVESTMENT"} \cup {"TASK_DELAY"}
    OBVIOUS
  <2>2. IsFiniteSet({"LOW_INVESTMENT"}) /\ IsFiniteSet({"TASK_DELAY"})
    BY FS_Singleton
  <2>3. B \subseteq {"LOW_INVESTMENT", "TASK_DELAY"}
    OBVIOUS
  <2> QED
    BY <2>1, <2>2, <2>3, FS_Union
<1>3. RiskCount(d, low) = Cardinality(A) + Cardinality(B)
  BY DEF RiskCount
<1> HIDE DEF A, B
<1>4. Cardinality(A) \in Nat /\ Cardinality(B) \in Nat
  BY <1>1, <1>2, FS_Subset, FS_CardinalityType
<1> QED
  BY <1>3, <1>4

LEMMA HealthIs ==
  ASSUME TypeOK, NEW d \in Days, NEW low
  PROVE  HealthPoints(d, low) \in Int /\ HealthScore(d, low) \in 0..100
<1>1. CompletionRate(On({d})) \in Int /\ CompletionRate(On(WeekRange(d))) \in Int
  BY RateIs DEF On
<1>2. d \in Nat
  BY Constant DEF Days
<1>3. StreakDays(d) \in Int /\ Tolerance \in Int /\ RiskCount(d, low) \in Int
  BY <1>2, StreakIs, ToleranceIs, RiskIs
<1>4. \A a, b \in Int : Lesser(a, b) \in Int
  BY DEF Lesser
<1>5. HealthPoints(d, low) \in Int
  <2> DEFINE x == CompletionRate(On({d}))
             y == CompletionRate(On(WeekRange(d)))
             s == Lesser(15, 3 * StreakDays(d))
             u == Lesser(10, 2 * Tolerance)
             k == RiskCount(d, low)
  <2>1. x \in Int /\ y \in Int /\ s \in Int /\ u \in Int /\ k \in Int
    <3>1. 3 * StreakDays(d) \in Int /\ 2 * Tolerance \in Int
      BY <1>3
    <3>2. s \in Int /\ u \in Int
      <4>1. 15 \in Int /\ 10 \in Int
        OBVIOUS
      <4> QED
        BY <1>4, <3>1, <4>1, Zenon
    <3> QED
      BY <1>1, <1>3, <3>2
  <2>2. HealthPoints(d, low) = 2000 + 22 * x + 28 * y + 100 * s + 25 * (IF "LOW_SCORE" \in low THEN 50 ELSE 70)
                               + 100 * u - 600 * k
    BY DEF HealthPoints
  <2> HIDE DEF x, y, s, u, k
  <2> QED
    BY <2>1, <2>2
<1>6. (HealthPoints(d, low) + 50) \div 100 \in Int
  BY <1>5
<1> QED
  BY <1>5, <1>6 DEF HealthScore, Lesser

LEMMA ReasonIs ==
  ASSUME NEW d, NEW low \in Signals
  PROVE  PrimaryReason(d, low) \in ReasonSet \cup {"NONE"}
<1> DEFINE reasons == DeviationReasons(d, low)
           P(i) == Reasons[i] \in reasons /\ \A k \in 1..(i - 1) : Reasons[k] \notin reasons
<1>1. reasons \subseteq {Reasons[1], Reasons[2], Reasons[3], Reasons[4]}
  BY GoalsAssumption DEF DeviationReasons, Reasons
<1>2. ASSUME reasons # {} PROVE \E i \in 1..4 : P(i)
  <2> HIDE DEF reasons
  <2>1. CASE Reasons[1] \in reasons
    BY <2>1
  <2>2. CASE Reasons[1] \notin reasons /\ Reasons[2] \in reasons
    BY <2>2
  <2>3. CASE Reasons[1] \notin reasons /\ Reasons[2] \notin reasons /\ Reasons[3] \in reasons
    BY <2>3
  <2>4. CASE Reasons[1] \notin reasons /\ Reasons[2] \notin reasons /\ Reasons[3] \notin reasons /\ Reasons[4] \in reasons
    BY <2>4
  <2> QED
    BY <1>1, <1>2, <2>1, <2>2, <2>3, <2>4
<1>3. PrimaryReason(d, low) = IF reasons = {} THEN "NONE" ELSE Reasons[CHOOSE i \in 1..4 : P(i)]
  BY DEF PrimaryReason
<1> HIDE DEF reasons, P
<1>4. CASE reasons = {}
  BY <1>3, <1>4
<1>5. CASE reasons # {}
  <2>1. (CHOOSE i \in 1..4 : P(i)) \in 1..4
    BY <1>2, <1>5
  <2> QED
    BY <1>3, <1>5, <2>1 DEF ReasonSet
<1> QED
  BY <1>4, <1>5

\* The steps of health, rescue and trends that read.
LEMMA ContextSound == ASSUME Sound, NEW r \in Runners, Context(r) PROVE Sound'
<1>1. <<run[r].does, run[r].at>> \in Ways /\ TypeOK /\ run[r] \in Run /\ Knows(r) /\ run[r].at = "context" /\ day \in Days
  BY DEF Sound, Who, TypeOK, Known, Context, At
<1>2. UNCHANGED <<mix, async>> /\ UNCHANGED Rows
  BY Unmoved DEF Context
<1>3. /\ run[r].does \in {"rescue", "rescueJob", "health", "healthJob"}
      /\ (run[r].does = "rescueJob" <=> r \in Workers) \/ ~Rescues(r)
  <2>1. run[r].does \in {"rescue", "rescueJob", "health", "healthJob"}
    BY <1>1 DEF Ways
  <2> QED
    BY <2>1, WorkersDo DEF Runners, Kinds, Jobs, Rescues
<1>4. CASE Rescues(r) /\ goal.status # "ACTIVE"
  <2>1. CASE r \in Workers
    <3>1. <<run[r].does, "fail">> \in Ways /\ "fail" \in Free
      BY <1>3, <1>4, <2>1 DEF Ways, Free, Step
    <3> QED
      BY <1>1, <1>2, <1>4, <2>1, <3>1, GoesSound DEF Context
  <2>2. CASE r \notin Workers
    BY <1>1, <1>2, <1>4, <2>2, ReturnsSound DEF Context
  <2> QED
    BY <2>1, <2>2
<1>5. CASE ~(Rescues(r) /\ goal.status # "ACTIVE")
  <2>1. PICK low \in Signals :
          Keeps(r, [run[r] EXCEPT !.at = IF Rescues(r) THEN "existing" ELSE "deviation",
                      !.day = day, !.reason = PrimaryReason(day, low),
                      !.count = IF Rescues(r) THEN 0 ELSE HealthScore(day, low)])
    BY <1>5 DEF Context
  <2>2. UNCHANGED queue
    BY <1>5 DEF Context
  <2> DEFINE to == IF Rescues(r) THEN "existing" ELSE "deviation"
             why == PrimaryReason(day, low)
             score == IF Rescues(r) THEN 0 ELSE HealthScore(day, low)
             n == [run[r] EXCEPT !.at = to, !.day = day, !.reason = why, !.count = score]
  <2>3. why \in ReasonSet \cup {"NONE"} /\ score \in 0..100
    BY <1>1, ReasonIs, HealthIs
  <2>4. <<run[r].does, to>> \in Ways /\ to \in {"existing", "deviation"}
    BY <1>1 DEF Rescues, Ways
  <2>5. Keeps(r, n)
    BY <2>1
  <2> HIDE DEF to, why, score
  <2>6. n \in Run /\ n.does = run[r].does /\ n.job = run[r].job /\ n.at = to /\ n.count = score /\ n.found = run[r].found
        /\ n.event = run[r].event /\ n.task = run[r].task /\ n.kind = run[r].kind /\ n.todo = run[r].todo
    <3>1. n = [run[r] EXCEPT !.at = to, !.day = day, !.reason = why, !.count = score]
      OBVIOUS
    <3> HIDE DEF n
    <3>2. n \in Run
      <4>1. to \in Step /\ score \in Nat
        BY <2>3, <2>4 DEF Step
      <4> QED
        BY <1>1, <2>3, <3>1, <4>1 DEF Run
    <3>3. /\ n.does = run[r].does /\ n.job = run[r].job /\ n.at = to /\ n.count = score /\ n.found = run[r].found
          /\ n.event = run[r].event /\ n.task = run[r].task /\ n.kind = run[r].kind /\ n.todo = run[r].todo
      BY <1>1, <3>1 DEF Run
    <3> QED
      BY <3>2, <3>3
  <2>7. UNCHANGED <<deviation, rescue, job>>
    BY <1>2 DEF Rows, tasks, care
  <2>8. n.count <= 100
    BY <2>3, <2>6
  <2> HIDE DEF n
  <2>9. run'[r] = n => Knows(r)'
    BY <1>1, <1>2, <2>4, <2>6, <2>7, <2>8 DEF Knows, Tasks
  <2> QED
    BY <1>1, <1>2, <2>2, <2>4, <2>5, <2>6, <2>9, KeepsSound
<1> QED
  BY <1>4, <1>5

LEMMA ExistingRescueSound == ASSUME Sound, NEW r \in Runners, ExistingRescue(r) PROVE Sound'
<1>1. <<run[r].does, run[r].at>> \in Ways /\ TypeOK /\ run[r] \in Run /\ Knows(r) /\ run[r].at = "existing"
  BY DEF Sound, Who, TypeOK, Known, ExistingRescue, At
<1>2. UNCHANGED <<mix, async>> /\ UNCHANGED Rows /\ UNCHANGED queue
  BY Unmoved DEF ExistingRescue, jobs
<1>3. run[r].does \in {"rescue", "rescueJob"}
  BY <1>1 DEF Ways
<1> DEFINE i == Greatest(Pending(run[r].day))
           e == IF i = 0 THEN 0 ELSE rescue[i].event
           to == IF e # 0 THEN Onward(r) ELSE "deviation"
           n == [run[r] EXCEPT !.at = to, !.found = i, !.event = e]
<1>4. i \in {0} \cup DOMAIN rescue
  <2>1. Pending(run[r].day) \in SUBSET DOMAIN rescue
    BY DEF Pending
  <2> QED
    BY <1>1, <2>1, PlacesAre
<1>5. i \in Nat /\ e \in Nat /\ e <= Len(deviation) /\ Len(deviation) \in Nat
  BY <1>1, <1>4, Lengths
<1>6. <<run[r].does, to>> \in Ways /\ to \in {"deviation", "running", "create", "persist"}
      /\ (run[r].does = "rescue" /\ to = "persist" => ~async)
  BY <1>3, OnwardIs DEF Ways
<1>7. Keeps(r, n)
  BY DEF ExistingRescue
<1> HIDE DEF i, e, to
<1>8. n \in Run /\ n.does = run[r].does /\ n.job = run[r].job /\ n.at = to /\ n.found = i /\ n.event = e /\ n.kind = run[r].kind
      /\ n.task = run[r].task /\ n.todo = run[r].todo
  <2>1. n = [run[r] EXCEPT !.at = to, !.found = i, !.event = e]
    OBVIOUS
  <2> HIDE DEF n
  <2>2. n \in Run
    BY <1>1, <1>5, <1>6, <2>1, StepIs DEF Run
  <2>3. /\ n.does = run[r].does /\ n.job = run[r].job /\ n.at = to /\ n.found = i /\ n.event = e
        /\ n.kind = run[r].kind /\ n.task = run[r].task /\ n.todo = run[r].todo
    BY <1>1, <2>1 DEF Run
  <2> QED
    BY <2>2, <2>3
<1>9. UNCHANGED <<deviation, rescue, job>>
  BY <1>2 DEF Rows, tasks, care
<1> HIDE DEF n
<1>10. run'[r] = n => Knows(r)'
  BY <1>1, <1>2, <1>3, <1>4, <1>5, <1>6, <1>8, <1>9 DEF Knows, Tasks
<1> QED
  BY <1>1, <1>2, <1>6, <1>7, <1>8, <1>10, KeepsSound

LEMMA FindDeviationSound == ASSUME Sound, NEW r \in Runners, FindDeviation(r) PROVE Sound'
<1>1. <<run[r].does, run[r].at>> \in Ways /\ TypeOK /\ run[r] \in Run /\ Knows(r) /\ run[r].at = "deviation"
  BY DEF Sound, Who, TypeOK, Known, FindDeviation, At
<1>2. UNCHANGED <<mix, async>> /\ UNCHANGED Rows /\ UNCHANGED queue
  BY Unmoved DEF FindDeviation, jobs
<1>3. run[r].does \in {"rescue", "rescueJob", "health", "healthJob"}
  BY <1>1 DEF Ways
<1>4. UNCHANGED <<deviation, rescue, job>>
  BY <1>2 DEF Rows, tasks, care
<1>5. CASE run[r].reason = "NONE"
  <2> DEFINE to == Onward(r)
             n == [run[r] EXCEPT !.at = to]
  <2>1. <<run[r].does, to>> \in Ways /\ to \in {"snapshot", "running", "create", "persist"}
        /\ (run[r].does = "rescue" /\ to = "persist" => ~async)
    BY <1>3, OnwardIs
  <2>2. Keeps(r, n)
    BY <1>5 DEF FindDeviation, Goes, Keeps
  <2> HIDE DEF to
  <2>3. n \in Run /\ n.does = run[r].does /\ n.job = run[r].job /\ n.at = to
    BY <1>1, <2>1, StepIs DEF Run
  <2>4. run'[r] = n => Knows(r)'
    BY <1>1, <1>2, <1>3, <1>4, <2>1, <2>3 DEF Knows, Run, Tasks
  <2> QED
    BY <1>1, <1>2, <2>1, <2>2, <2>3, <2>4, KeepsSound
<1>6. CASE run[r].reason # "NONE"
  <2> DEFINE S == {e \in DOMAIN deviation : deviation[e] = [day |-> run[r].day, reason |-> run[r].reason]}
             g == Greatest(S)
             n == [run[r] EXCEPT !.at = "deviate", !.event = g]
  <2>1. g \in {0} \cup DOMAIN deviation
    BY <1>1, PlacesAre
  <2>2. Keeps(r, n)
    BY <1>6 DEF FindDeviation
  <2> HIDE DEF g
  <2>3. g \in Nat /\ g <= Len(deviation)
    BY <1>1, <2>1, Lengths
  <2>4. n \in Run /\ n.does = run[r].does /\ n.job = run[r].job /\ n.at = "deviate" /\ n.event = g /\ n.reason = run[r].reason
        /\ run[r].reason \in ReasonSet
    BY <1>1, <1>6, <2>3, StepIs DEF Run
  <2>5. <<n.does, n.at>> \in Ways
    BY <1>3, <2>4 DEF Ways
  <2>6. run'[r] = n => Knows(r)'
    BY <1>1, <1>2, <1>3, <1>4, <2>3, <2>4 DEF Knows, Run, Tasks
  <2> QED
    BY <1>1, <1>2, <2>2, <2>4, <2>5, <2>6, KeepsSound
<1> QED
  BY <1>5, <1>6

LEMMA TrendReadSound == ASSUME Sound, NEW w \in Runners, TrendRead(w) PROVE Sound'
<1>1. <<run[w].does, run[w].at>> \in Ways /\ TypeOK /\ run[w] \in Run /\ Knows(w) /\ run[w].at = "range" /\ day \in Days
  BY DEF Sound, Who, TypeOK, Known, TrendRead, At
<1>2. UNCHANGED <<mix, async>> /\ UNCHANGED Rows /\ UNCHANGED queue
  BY Unmoved DEF TrendRead, jobs
<1>3. run[w].does = "trendJob"
  BY <1>1 DEF Ways
<1> DEFINE a == TrendAverage(run[w].kind, day)
           both == [average |-> a, previous |-> NoHealth]
           n == [run[w] EXCEPT !.at = "previous", !.day = day, !.trend = both]
<1>4. a \in NoHealth..100
  BY <1>1, AverageIs DEF TrendAverage
<1> HIDE DEF a
<1>5. both \in Trend
  BY <1>4 DEF Trend, NoHealth
<1>6. Keeps(w, n)
  BY DEF TrendRead, a
<1> HIDE DEF both
<1>7. n \in Run /\ n.does = run[w].does /\ n.job = run[w].job /\ n.at = "previous"
  BY <1>1, <1>5, StepIs DEF Run
<1>8. <<n.does, n.at>> \in Ways
  BY <1>3, <1>7 DEF Ways
<1>9. UNCHANGED <<deviation, rescue, job>>
  BY <1>2 DEF Rows, tasks, care
<1>10. run'[w] = n => Knows(w)'
  BY <1>1, <1>2, <1>3, <1>9 DEF Knows, Run, Tasks
<1> QED
  BY <1>1, <1>2, <1>6, <1>7, <1>8, <1>10, KeepsSound

LEMMA TrendReadPreviousSound == ASSUME Sound, NEW r \in Runners, TrendReadPrevious(r) PROVE Sound'
<1>1. <<run[r].does, run[r].at>> \in Ways /\ TypeOK /\ run[r] \in Run /\ Knows(r) /\ run[r].at = "previous"
  BY DEF Sound, Who, TypeOK, Known, TrendReadPrevious, At
<1>2. UNCHANGED <<mix, async>> /\ UNCHANGED Rows /\ UNCHANGED queue
  BY Unmoved DEF TrendReadPrevious, jobs
<1>3. run[r].does \in {"trend", "trendJob"}
  BY <1>1 DEF Ways
<1> DEFINE a == TrendPrevious(run[r].kind, run[r].day)
           both == [average |-> run[r].trend.average, previous |-> a]
           n == [run[r] EXCEPT !.at = "publish", !.trend = both]
<1>4. a \in NoHealth..100
  BY <1>1, AverageIs DEF TrendPrevious
<1> HIDE DEF a
<1>5. both \in Trend
  BY <1>1, <1>4 DEF Trend, Run
<1>6. Keeps(r, n)
  BY DEF TrendReadPrevious, a
<1> HIDE DEF both
<1>7. n \in Run /\ n.does = run[r].does /\ n.job = run[r].job /\ n.at = "publish"
  BY <1>1, <1>5, StepIs DEF Run
<1>8. <<n.does, n.at>> \in Ways
  BY <1>3, <1>7 DEF Ways
<1>9. UNCHANGED <<deviation, rescue, job>>
  BY <1>2 DEF Rows, tasks, care
<1>10. run'[r] = n => Knows(r)'
  BY <1>1, <1>2, <1>3, <1>9 DEF Knows, Run, Tasks
<1> QED
  BY <1>1, <1>2, <1>6, <1>7, <1>8, <1>10, KeepsSound

\* The steps that write a snapshot and a trend report.
LEMMA WriteSnapshotSound == ASSUME Sound, NEW r \in Runners, WriteSnapshot(r) PROVE Sound'
<1>1. /\ <<run[r].does, run[r].at>> \in Ways /\ TypeOK /\ run[r] \in Run /\ Knows(r) /\ run[r].at = "snapshot"
      /\ run[r].day \in Days
  BY DEF Sound, Who, TypeOK, Known, WriteSnapshot, At, Run
<1>2. run[r].does \in {"health", "healthJob"}
  BY <1>1 DEF Ways
<1>3. UNCHANGED <<mix, async, day, goal, plan, rescue, deviation, job, report, milestone, events,
                  artifact, restarts, asked, faults>>
  BY DEF WriteSnapshot, Unchanged, tasks, timeline
<1>4. run[r].count \in NoHealth..100
  <2>1. run[r].count \in Nat
    BY <1>1 DEF Run
  <2>2. run[r].count <= 100
    BY <1>1, <1>2 DEF Knows
  <2> QED
    BY <2>1, <2>2 DEF NoHealth
<1>5. snapshot' \in [Days -> NoHealth..100]
  BY <1>1, <1>4 DEF WriteSnapshot, TypeOK
<1>6. QueueTypes' => RowTypes'
  BY <1>1, <1>3, <1>5 DEF QueueTypes, RowTypes, TypeOK
<1>7. Len(deviation) <= Len(deviation') /\ DOMAIN rescue \subseteq DOMAIN rescue'
  BY <1>1, <1>3, Lengths
<1>8. CASE r \in Workers
  <2> DEFINE n == [run[r] EXCEPT !.at = "succeed"]
  <2>1. Keeps(r, n) /\ UNCHANGED queue
    BY <1>8 DEF WriteSnapshot, Goes, Keeps
  <2>2. n \in Run /\ n.does = run[r].does /\ n.job = run[r].job /\ n.at = "succeed"
    BY <1>1, StepIs DEF Run
  <2>3. run[r].does = "healthJob"
    BY <1>2, <1>8, WorkersDo DEF Jobs
  <2>4. <<n.does, n.at>> \in Ways
    BY <2>2, <2>3 DEF Ways
  <2>5. run'[r] = n => Knows(r)'
    BY <1>1, <1>3, <2>3 DEF Knows, Run, Tasks
  <2> QED
    BY <1>1, <1>3, <1>6, <1>7, <2>1, <2>2, <2>4, <2>5, RowsOnSound
<1>9. CASE r \notin Workers
  BY <1>1, <1>3, <1>6, <1>7, <1>9, RowsEndSound DEF WriteSnapshot, Returns
<1> QED
  BY <1>8, <1>9

LEMMA TrendWriteSound == ASSUME Sound, NEW r \in Runners, TrendWrite(r) PROVE Sound'
<1>1. /\ <<run[r].does, run[r].at>> \in Ways /\ TypeOK /\ run[r] \in Run /\ Knows(r) /\ run[r].at = "publish"
      /\ run[r].day \in Days /\ run[r].trend \in Trend
  BY DEF Sound, Who, TypeOK, Known, TrendWrite, At, Run
<1>2. run[r].does \in {"trend", "trendJob"} /\ (run[r].does = "trendJob" <=> r \in Workers)
  <2>1. run[r].does \in {"trend", "trendJob"}
    BY <1>1 DEF Ways
  <2> QED
    BY <2>1, WorkersDo DEF Runners, Kinds, Jobs
<1>3. UNCHANGED <<mix, async, day, goal, plan, rescue, deviation, snapshot, job, report, milestone,
                  restarts, asked, faults>>
  BY DEF TrendWrite, tasks, care
<1> DEFINE period == <<run[r].kind, run[r].day>>
<1>4. period \in Trends \X Days
  BY <1>1, <1>2 DEF Knows
<1>5. /\ artifact' = [artifact EXCEPT ![period] = run[r].trend] \/ artifact' = artifact
      /\ events' = events \cup {<<"REPORT_GENERATED", period>>} \/ events' = events
      /\ \/ r \in Workers /\ UNCHANGED queue /\ \E to \in {"succeed", "fail"} : Goes(r, to)
         \/ r \notin Workers /\ Returns(r)
  BY DEF TrendWrite
<1>6. <<"REPORT_GENERATED", period>> \in Event
  BY <1>4, EventsAre
<1> HIDE DEF period
<1>7. artifact' \in [Trends \X Days -> Trend \cup {Absent}] /\ events' \subseteq Event
  BY <1>1, <1>4, <1>5, <1>6 DEF TypeOK
<1>8. QueueTypes' => RowTypes'
  BY <1>1, <1>3, <1>7 DEF QueueTypes, RowTypes, TypeOK
<1>9. Len(deviation) <= Len(deviation') /\ DOMAIN rescue \subseteq DOMAIN rescue'
  BY <1>1, <1>3, Lengths
<1>10. CASE r \in Workers
  <2>1. PICK to \in {"succeed", "fail"} : Goes(r, to)
    BY <1>5, <1>10
  <2> DEFINE n == [run[r] EXCEPT !.at = to]
  <2>2. Keeps(r, n) /\ UNCHANGED queue
    BY <1>5, <1>10, <2>1 DEF Goes, Keeps
  <2>3. n \in Run /\ n.does = run[r].does /\ n.job = run[r].job /\ n.at = to
    BY <1>1, StepIs DEF Run
  <2>4. <<n.does, n.at>> \in Ways
    BY <1>2, <1>10, <2>3 DEF Ways
  <2>5. run'[r] = n => Knows(r)'
    BY <1>1, <1>2, <1>3, <1>10 DEF Knows, Run, Tasks
  <2> QED
    BY <1>1, <1>3, <1>8, <1>9, <2>2, <2>3, <2>4, <2>5, RowsOnSound
<1>11. CASE r \notin Workers
  BY <1>1, <1>3, <1>5, <1>8, <1>9, <1>11, RowsEndSound DEF Returns
<1> QED
  BY <1>10, <1>11

\* Nobody moves.
LEMMA StaysSound ==
  ASSUME Sound, run' = run, met \subseteq met', met' \subseteq Areas, UNCHANGED <<mix, async, job, asked>>,
         RowTypes', Len(deviation) <= Len(deviation'), DOMAIN rescue \subseteq DOMAIN rescue', Still, ReportsQueue'
  PROVE  Sound'
<1>1. TypeOK /\ Who /\ Overlap /\ Known /\ Counted
  BY DEF Sound
<1>2. Grow
  BY DEF Grow
<1>3. TypeOK'
  BY <1>1 DEF TypeOK, RowTypes
<1>4. Who' /\ Overlap' /\ Counted'
  <2>1. Who'
    BY <1>1 DEF Who
  <2>2. Counted'
    BY <1>1 DEF Counted, Making
  <2>3. \A r, q \in Runners : r # q /\ run'[r].at # "idle" /\ run'[q].at # "idle" =>
          Meeting(run'[r].does, run'[q].does) \subseteq met'
    BY <1>1 DEF Overlap
  <2>4. async' = async
    OBVIOUS
  <2>5. Overlap'
    <3> SUFFICES ASSUME NEW r \in Runners, NEW q \in Runners, r # q, run'[r].at # "idle", run'[q].at # "idle"
                 PROVE  (Meeting(run[r].does, run[q].does) \subseteq met)'
      BY DEF Overlap
    <3>1. Meeting(run'[r].does, run'[q].does) \subseteq met'
      BY <2>3
    <3> QED
      BY <2>4, <3>1 DEF Meeting
  <2> QED
    BY <2>1, <2>2, <2>5
<1>5. ASSUME NEW r \in Runners PROVE Knows(r)'
  <2>1. Knows(r) /\ run[r] \in Run /\ run'[r] = run[r] /\ async' = async /\ job' = job
    BY <1>1 DEF Known, TypeOK
  <2>2. Len(deviation) \in Nat /\ Len(deviation') \in Nat /\ run[r].event \in Nat
    <3>1. deviation' \in Seq([day : Days, reason : ReasonSet])
      BY DEF RowTypes
    <3> QED
      BY <1>1, <2>1, <3>1, Lengths DEF Run
  <2>3. Tasks \subseteq Tasks'
    BY <1>2 DEF Grow, Tasks
  <2> QED
    BY <1>2, <2>1, <2>2, <2>3 DEF Knows, Grow
<1>6. Entries'
  BY <1>2, EntriesStay
<1> QED
  BY <1>3, <1>4, <1>5, <1>6 DEF Sound, Known

LEMMA StutterSound == ASSUME Sound, UNCHANGED vars PROVE Sound'
<1>1. UNCHANGED <<mix, async, day, goal, plan, rescue, deviation, snapshot, job, queue, report, milestone, events,
                  artifact, restarts, asked, run, met, faults>>
  BY DEF vars, tasks, care, jobs, timeline
<1>2. TypeOK /\ Entries
  BY DEF Sound
<1>3. RowTypes' /\ met' \subseteq Areas
  BY <1>1, <1>2 DEF TypeOK, RowTypes
<1>4. Still /\ ReportsQueue' /\ Len(deviation) <= Len(deviation')
  BY <1>1, <1>2, Lengths DEF Still, Entries, ReportsQueue
<1> QED
  BY <1>1, <1>3, <1>4, StaysSound

LEMMA ConfirmSound == ASSUME Sound, Confirm PROVE Sound'
<1>1. UNCHANGED <<mix, async, day, plan, rescue, deviation, snapshot, job, queue, report, milestone, events,
                  artifact, restarts, asked, run, faults>>
  BY DEF Confirm, tasks, care, jobs, timeline
<1>2. TypeOK /\ Entries
  BY DEF Sound
<1>3. goal' \in [status : Status, used : Nat] /\ met' \subseteq Areas /\ met \subseteq met'
  BY <1>2 DEF Confirm, TypeOK, Status, Areas
<1>4. RowTypes'
  BY <1>1, <1>2, <1>3 DEF TypeOK, RowTypes
<1>5. Still /\ ReportsQueue' /\ Len(deviation) <= Len(deviation')
  BY <1>1, <1>2, Lengths DEF Still, Entries, ReportsQueue
<1> QED
  BY <1>1, <1>3, <1>4, <1>5, StaysSound

LEMMA TickSound == ASSUME Sound, Tick PROVE Sound'
<1>1. UNCHANGED <<mix, async, goal, plan, rescue, deviation, snapshot, job, queue, report, milestone, events,
                  artifact, restarts, asked, run, met, faults>>
  BY DEF Tick, tasks, care, jobs, timeline
<1>2. TypeOK /\ Entries
  BY DEF Sound
<1>3. day' \in Days /\ met' \subseteq Areas
  BY <1>1, <1>2, Constant DEF Tick, TypeOK, Days
<1>4. RowTypes'
  BY <1>1, <1>2, <1>3 DEF TypeOK, RowTypes
<1>5. Still /\ ReportsQueue' /\ Len(deviation) <= Len(deviation')
  BY <1>1, <1>2, Lengths DEF Still, Entries, ReportsQueue
<1> QED
  BY <1>1, <1>3, <1>4, <1>5, StaysSound

LEMMA ReconcileSound == ASSUME Sound, NEW j \in DOMAIN job, Reconcile(j) PROVE Sound'
<1>1. UNCHANGED <<mix, async, day, goal, plan, rescue, deviation, snapshot, job, report, milestone, events,
                  artifact, restarts, asked, run, met, faults>>
  BY DEF Reconcile, tasks, care, timeline
<1>2. TypeOK /\ Entries
  BY DEF Sound
<1>3. QueueOf(j) \in Queues /\ (QueueOf(j) = "reports" => job[j].type \in {"HEALTH"} \cup Trends)
  BY DEF QueueOf, Queues
<1>4. QueueTypes' /\ Still /\ ReportsQueue'
  BY <1>1, <1>2, <1>3, EnqueuedIs DEF Reconcile, Entries
<1>5. RowTypes' /\ met' \subseteq Areas
  BY <1>1, <1>2, <1>4 DEF TypeOK, RowTypes, QueueTypes
<1>6. Len(deviation) <= Len(deviation')
  BY <1>1, <1>2, Lengths
<1> QED
  BY <1>1, <1>4, <1>5, <1>6, StaysSound

\* A worker takes an entry, or puts it away.
LEMMA DoesIs ==
  ASSUME TypeOK, ReportsQueue, NEW q \in Queues, NEW j \in DOMAIN job, queue[<<q, j>>] = "waiting"
  PROVE  /\ Does(q, j) \in Jobs /\ QueueFor(Does(q, j)) = q /\ job[j].type \in TypesFor(Does(q, j))
         /\ <<Does(q, j), FirstStep(q, j)>> \in Ways
         /\ FirstStep(q, j) \in {"owner", "context", "running", "fail"}
         /\ KindOf(j) \in Trends \cup {"none"} /\ (Does(q, j) = "trendJob" => KindOf(j) \in Trends)
<1>1. job[j].type \in {"FAILURE", "RESCUE", "HEALTH"} \cup Trends
  BY Lengths DEF JobType
<1>2. q = "reports" => job[j].type \in {"HEALTH"} \cup Trends
  BY DEF ReportsQueue
<1>3. Trends \subseteq {"WEEKLY_TREND", "MONTHLY_TREND"}
  BY Constant
<1>4. Does(q, j) =
        IF q = "reports" THEN (IF job[j].type = "HEALTH" THEN "healthJob" ELSE "trendJob")
        ELSE IF job[j].type = "FAILURE" THEN "failureJob" ELSE IF job[j].type = "RESCUE" THEN "rescueJob" ELSE "otherJob"
  BY <1>1, <1>3 DEF Does
<1>5. Does(q, j) \in Jobs /\ QueueFor(Does(q, j)) = q /\ job[j].type \in TypesFor(Does(q, j))
  BY <1>1, <1>2, <1>3, <1>4 DEF Jobs, QueueFor, TypesFor, Queues
<1>6. <<Does(q, j), FirstStep(q, j)>> \in Ways /\ FirstStep(q, j) \in {"owner", "context", "running", "fail"}
  <2>1. CASE Does(q, j) = "failureJob"
    BY <2>1 DEF FirstStep, Ways
  <2>2. CASE Does(q, j) = "rescueJob"
    BY <2>2 DEF FirstStep, Ways
  <2>3. CASE Does(q, j) = "healthJob"
    BY <2>3 DEF FirstStep, Ways
  <2>4. CASE Does(q, j) = "trendJob"
    BY <2>4 DEF FirstStep, Ways
  <2>5. CASE Does(q, j) = "otherJob"
    BY <2>5 DEF FirstStep, Ways
  <2> QED
    BY <1>5, <2>1, <2>2, <2>3, <2>4, <2>5 DEF Jobs
<1>7. Does(q, j) = "trendJob" => job[j].type \in Trends
  BY <1>2, <1>4
<1> QED
  BY <1>5, <1>6, <1>7 DEF KindOf

LEMMA WorkerTakesSound ==
  ASSUME Sound, NEW w \in Workers, NEW q \in Queues, NEW j \in DOMAIN job, WorkerTakes(w, q, j) PROVE Sound'
<1>1. UNCHANGED <<mix, async, day, goal, plan, rescue, deviation, snapshot, job, report, milestone, events,
                  artifact, restarts, asked, faults>>
  BY DEF WorkerTakes, Unchanged, tasks, care, timeline
<1>2. TypeOK /\ Who /\ Known /\ Entries /\ Counted /\ w \in Runners
  BY DEF Sound, Runners
<1> DEFINE e == <<q, j>>
<1>3. e \in Queues \X JobIds /\ queue[e] = "waiting" /\ queue \in [Queues \X JobIds -> {"none", "waiting", "active"}]
  BY <1>2, Lengths DEF WorkerTakes, TypeOK
<1>4. \E v \in {"none", "waiting", "active"} : queue' = [queue EXCEPT ![e] = v]
  BY DEF WorkerTakes
<1>5. QueueTypes' /\ Still /\ ReportsQueue'
  <2> HIDE DEF e
  <2>1. queue' \in [Queues \X JobIds -> {"none", "waiting", "active"}]
    BY <1>3, <1>4
  <2>2. \A p \in Queues \X JobIds : p # e => queue'[p] = queue[p]
    BY <1>3, <1>4
  <2>3. \A p \in Queues \X JobIds :
          /\ queue[p] = "active" => queue'[p] = "active"
          /\ queue[p] = "none" => queue'[p] = "none"
    BY <1>3, <2>2
  <2>4. \A x \in Queues, i \in JobIds :
          /\ queue[<<x, i>>] = "active" => queue'[<<x, i>>] = "active"
          /\ queue'[<<x, i>>] # "none" => queue[<<x, i>>] # "none"
    <3> TAKE x \in Queues, i \in JobIds
    <3> DEFINE p == <<x, i>>
    <3>1. p \in Queues \X JobIds
      OBVIOUS
    <3> HIDE DEF p
    <3>2. /\ queue[p] = "active" => queue'[p] = "active"
          /\ queue'[p] # "none" => queue[p] # "none"
      BY <2>3, <3>1
    <3> QED
      BY <3>2 DEF p
  <2>5. QueueTypes' /\ Still
    BY <1>1, <1>2, <2>1, <2>4 DEF QueueTypes, TypeOK, Still
  <2>6. ReportsQueue'
    BY <1>1, <1>2, <2>4, Lengths DEF Entries, ReportsQueue, Queues
  <2> QED
    BY <2>5, <2>6
<1>6. RowTypes' /\ Len(deviation) <= Len(deviation') /\ Grow
  BY <1>1, <1>2, <1>5, Lengths DEF TypeOK, RowTypes, QueueTypes, Grow
<1>7. CASE UNCHANGED <<run, met>>
  BY <1>1, <1>2, <1>5, <1>6, <1>7, StaysSound DEF TypeOK
<1> DEFINE n == [Idle EXCEPT !.at = FirstStep(q, j), !.does = Does(q, j), !.job = j,
                             !.count = job[j].tries, !.kind = KindOf(j)]
<1>8. CASE Begins(w, n) /\ queue' = [queue EXCEPT ![e] = "active"]
  <2>1. /\ Does(q, j) \in Jobs /\ QueueFor(Does(q, j)) = q /\ job[j].type \in TypesFor(Does(q, j))
        /\ <<Does(q, j), FirstStep(q, j)>> \in Ways
        /\ FirstStep(q, j) \in {"owner", "context", "running", "fail"}
        /\ KindOf(j) \in Trends \cup {"none"} /\ (Does(q, j) = "trendJob" => KindOf(j) \in Trends)
    BY <1>2, <1>3, DoesIs DEF Entries
  <2>2. job[j].tries \in Nat /\ j \in JobIds /\ DOMAIN job' = DOMAIN job
    BY <1>1, <1>2, Lengths
  <2> DEFINE at == FirstStep(q, j)
             does == Does(q, j)
             kind == KindOf(j)
             tries == job[j].tries
  <2>3. n = [Idle EXCEPT !.at = at, !.does = does, !.job = j, !.count = tries, !.kind = kind]
    OBVIOUS
  <2>4. /\ does \in Jobs /\ at \in Step \ {"idle", "attach"} /\ kind \in Trends \cup {"none"} /\ j \in Asked /\ tries \in Nat
        /\ at \in {"owner", "context", "running", "fail"} /\ (does = "trendJob" => kind \in Trends)
    BY <2>1, <2>2 DEF Step, JobIds
  <2> HIDE DEF n, at, does, kind, tries
  <2>5. n \in Run
    BY <2>3, <2>4, IdleIs DEF Run
  <2>6. n.at = at /\ n.does = does /\ n.job = j /\ n.kind = kind /\ n.event = 0 /\ n.found = 0
    BY <2>3 DEF Idle
  <2>7. Starts(w, n)
    <3>1. run[w].at = "idle" /\ run' = [run EXCEPT ![w] = n]
          /\ met' = met \cup UNION {Meeting(n.does, run[x].does) : x \in Busy \ {w}}
      BY <1>8 DEF Begins
    <3>2. w \notin Requests
      BY Constant
    <3>3. <<n.does, n.at>> \in Ways
      BY <2>1, <2>6 DEF at, does
    <3> QED
      BY <1>1, <1>2, <2>4, <2>5, <2>6, <3>1, <3>2, <3>3 DEF Starts
  <2>8. run' = [run EXCEPT ![w] = n] /\ run \in [Runners -> Run] /\ run[w].at = "idle"
    BY <1>2, <2>7 DEF Starts, TypeOK
  <2>9. run'[w] = n /\ \A v \in Workers : v # w => run'[v] = run[v]
    BY <1>2, <2>8 DEF Runners
  <2>10. ASSUME NEW v \in Workers, v # w, run[v].at # "idle"
         PROVE  /\ QueueFor(run[v].does) \in Queues /\ run[v].job \in JobIds
                /\ queue[<<QueueFor(run[v].does), run[v].job>>] = "active" /\ <<QueueFor(run[v].does), run[v].job>> # e
    <3>1. queue[<<QueueFor(run[v].does), run[v].job>>] = "active"
      BY <1>2, <2>10 DEF Entries, Serves
    <3>2. run[v].job \in JobIds
      BY <1>2, <2>10, WaysIdle DEF Who, Known, Knows, TypeOK, Runners
    <3> QED
      BY <1>3, <3>1, <3>2 DEF QueueFor, Queues
  <2>11. ASSUME NEW v \in Workers PROVE Serves(v)'
    <3>1. CASE v = w
      <4>1. queue'[e] = "active"
        BY <1>3, <1>8
      <4>2. run'[v].job = j /\ run'[v].does = does
        BY <2>6, <2>9, <3>1
      <4>3. QueueFor(does) = q /\ job'[j].type \in TypesFor(does)
        BY <1>1, <2>1 DEF does
      <4> QED
        BY <4>1, <4>2, <4>3 DEF Serves, QueueFor, TypesFor
    <3>2. CASE v # w
      <4> SUFFICES ASSUME run'[v].at # "idle" PROVE Serves(v)'
        BY DEF Serves
      <4>1. run'[v] = run[v] /\ run[v].at # "idle" /\ Serves(v)
        BY <1>2, <2>9, <3>2 DEF Entries
      <4>2. queue'[<<QueueFor(run[v].does), run[v].job>>] = "active"
        BY <1>5, <2>10, <3>2, <4>1 DEF Still
      <4> QED
        BY <1>1, <4>1, <4>2 DEF Serves, QueueFor, TypesFor
    <3> QED
      BY <3>1, <3>2
  <2>12. Distinct'
    <3> SUFFICES ASSUME NEW u \in Workers, NEW v \in Workers, u # v, run'[u].at # "idle", run'[v].at # "idle"
                 PROVE  <<QueueFor(run'[u].does), run'[u].job>> # <<QueueFor(run'[v].does), run'[v].job>>
      BY DEF Distinct, QueueFor
    <3>1. QueueFor(n.does) = q /\ n.job = j
      BY <2>1, <2>6 DEF does
    <3>2. CASE u = w
      BY <2>9, <2>10, <3>1, <3>2
    <3>3. CASE v = w
      BY <2>9, <2>10, <3>1, <3>3
    <3>4. CASE u # w /\ v # w
      BY <1>2, <2>9, <3>4 DEF Entries, Distinct
    <3> QED
      BY <3>2, <3>3, <3>4
  <2>13. Knows(w)'
    <3>1. Len(deviation') \in Nat
      BY <1>1, <1>2, Lengths
    <3> QED
      BY <2>2, <2>4, <2>6, <2>9, <3>1 DEF Knows, Jobs
  <2>14. Counted'
    <3>1. w \notin Requests
      BY Constant
    <3>2. Making' = Making
      BY <1>2, <2>8, <3>1 DEF Making, Runners
    <3> QED
      BY <1>1, <1>2, <3>2 DEF Counted
  <2> QED
    BY <1>5, <1>6, <2>7, <2>11, <2>12, <2>13, <2>14, StepSound DEF Entries
<1> QED
  BY <1>7, <1>8 DEF WorkerTakes

\* A request begins.
LEMMA AsksSound ==
  ASSUME Sound, NEW r, NEW kind \in Kinds, NEW first \in Run, Asks(r, kind, first),
         first.at \in Free, <<kind, first.at>> \in Ways, first.event = 0,
         kind = "rescue" => first.found = 0, kind = "checkin" => first.task \in Tasks,
         kind \in {"trend", "later"} => first.kind \in Trends,
         kind \in {"cancel", "admin"} => first.job \in DOMAIN job, kind = "backfill" => first.todo # <<>>
  PROVE  Sound'
<1> DEFINE n == [first EXCEPT !.does = kind]
<1>1. TypeOK /\ Entries /\ Counted /\ mix \in [Requests -> Kinds]
  BY GoalsAssumption DEF Sound, TypeOK
<1>2. /\ r \in Requests /\ r \in Runners /\ r \notin Workers /\ mix[r] = kind
      /\ asked < MaxAsks[<<mix, async>>] /\ asked' = asked + 1
  BY Constant DEF Asks, Runners
<1>3. UNCHANGED <<mix, async, day, goal, plan, rescue, deviation, snapshot, job, queue, report, milestone, events,
                  artifact, restarts, faults>>
  BY DEF Asks, tasks, care, jobs, timeline
<1>4. /\ n \in Run /\ n.does = kind /\ n.at = first.at /\ n.event = 0 /\ n.found = first.found /\ n.task = first.task
      /\ n.kind = first.kind /\ n.job = first.job /\ n.todo = first.todo
  BY DEF Run
<1>5. /\ run[r].at = "idle" /\ run' = [run EXCEPT ![r] = n]
      /\ met' = met \cup UNION {Meeting(n.does, run[q].does) : q \in Busy \ {r}}
  BY DEF Asks, Begins
<1> HIDE DEF n
<1>6. n.at \in Free /\ <<n.does, n.at>> \in Ways /\ n.at \notin {"idle", "attach"}
  BY <1>4 DEF Free
<1>7. Starts(r, n)
  BY <1>2, <1>3, <1>4, <1>5, <1>6 DEF Starts
<1>8. run'[r] = n /\ \A q \in Runners : q # r => run'[q] = run[q]
  BY <1>1, <1>2, <1>5 DEF TypeOK
<1>9. asked \in Nat /\ asked' \in {0} \cup Asked
  <2>1. asked \in Nat /\ <<mix, async>> \in Mixes
    BY <1>1, Lengths DEF TypeOK
  <2>2. MaxAsks[<<mix, async>>] \in Nat /\ 1..MaxAsks[<<mix, async>>] \subseteq Asked
    BY <2>1, Constant
  <2>3. asked' \in 1..MaxAsks[<<mix, async>>]
    BY <1>2, <2>1, <2>2
  <2> QED
    BY <2>1, <2>2, <2>3
<1>10. RowTypes'
  BY <1>1, <1>3, <1>9 DEF TypeOK, RowTypes
<1>11. Grow /\ Still /\ ReportsQueue'
  BY <1>1, <1>3, Lengths DEF Grow, Still, Entries, ReportsQueue
<1>12. Entries'
  <2>1. \A w \in Workers : run'[w] = run[w]
    BY <1>2, <1>8 DEF Runners
  <2> QED
    BY <1>11, <2>1, EntriesStay
<1>13. Counted'
  <2>1. Making' = Making \cup {r} /\ r \notin Making
    BY <1>2, <1>5, <1>6, <1>8 DEF Making, Runners
  <2>2. Cardinality(Making') = Cardinality(Making) + 1
    BY <2>1, MakingIs, FS_AddElement
  <2>3. Len(job) \in Nat /\ job' = job
    BY <1>1, <1>3, Lengths
  <2> QED
    BY <1>1, <1>2, <1>9, <2>2, <2>3, MakingIs DEF Counted
<1>14. Knows(r)'
  <2>1. UNCHANGED <<deviation, rescue, job, async>> /\ Len(deviation) \in Nat
    BY <1>1, <1>3, Lengths
  <2>2. kind \notin Jobs \cup {"rescueJob", "trendJob", "healthJob"} /\ n.at \notin {"attach", "recorded", "deviation", "deviate", "snapshot", "persist"}
    BY <1>4 DEF Kinds, Jobs, Free
  <2> QED
    BY <1>4, <1>8, <2>1, <2>2 DEF Knows, Tasks
<1> QED
  BY <1>7, <1>10, <1>11, <1>12, <1>13, <1>14, StepSound

\* The events that follow from the rows are events.
LEMMA DerivedIs ==
  ASSUME TypeOK
  PROVE  Derived \in Seq(SUBSET Event) /\ Derived # <<>> /\ DerivedEvents \subseteq Event
<1>1. TaskEvents \subseteq Event
  <2>1. \A t \in Tasks, a \in {"TASK_COMPLETED", "RESCUE_TASK_CREATED", "RESCUE_TASK_COMPLETED"} : <<a, t>> \in Event
    BY EventsAre
  <2> QED
    BY <2>1 DEF TaskEvents
<1>2. DeviationEvents \subseteq Event
  <2>1. DOMAIN deviation \subseteq Nat \ {0}
    BY Lengths
  <2> QED
    BY <2>1, EventsAre DEF DeviationEvents
<1>3. ReportEvents \subseteq Event
  BY EventsAre DEF ReportEvents, Published
<1>4. GrowthEvent(goal.status) \subseteq Event /\ (IF milestone THEN MilestoneReached ELSE {}) \subseteq Event
  BY EventsAre
<1> DEFINE a == GrowthEvent(goal.status)
           b == IF milestone THEN MilestoneReached ELSE {}
<1> HIDE DEF a, b
<1>5. Derived = <<a, b, TaskEvents, DeviationEvents, ReportEvents>>
  BY DEF Derived, a, b
<1>6. a \in SUBSET Event /\ b \in SUBSET Event
  BY <1>4 DEF a, b
<1>7. Derived \in Seq(SUBSET Event) /\ Derived # <<>> /\ DOMAIN Derived = 1..5
  BY <1>1, <1>2, <1>3, <1>5, <1>6
<1>8. \A i \in DOMAIN Derived : Derived[i] \subseteq Event
  BY <1>7, SeqIs
<1> QED
  BY <1>7, <1>8 DEF DerivedEvents

LEMMA AsksAllSound ==
  ASSUME Sound, NEW r \in Requests,
         \/ SettleRead(r) \/ GetRead(r) \/ RestartRead(r) \/ RescueAsked(r) \/ HealthAsked(r) \/ ReportAsked(r)
         \/ TrendAsked(r) \/ TrendQueued(r) \/ MilestoneRead(r) \/ BackfillRead(r)
         \/ \E t \in Tasks : CheckinRead(r, t)
         \/ \E j \in DOMAIN job : CancelRead(r, j) \/ AdminRead(r, j)
  PROVE  Sound'
<1>1. TypeOK /\ goal.status \in Status
  BY DEF Sound, TypeOK
<1>2. Idle \in Run /\ Idle.event = 0 /\ Idle.found = 0
  BY IdleIs DEF Idle
<1>3. CASE SettleRead(r)
  <2> DEFINE f == [Idle EXCEPT !.at = "tasks", !.status = goal.status]
  <2>1. f \in Run /\ f.at = "tasks" /\ f.event = 0 /\ f.found = 0
    BY <1>1, <1>2, StepIs DEF Run
  <2>2. Asks(r, "settle", f)
    BY <1>3 DEF SettleRead
  <2> HIDE DEF f
  <2> QED
    BY <2>1, <2>2, AsksSound DEF Kinds, Free, Step, Ways
<1>4. CASE GetRead(r)
  <2> DEFINE f == [Idle EXCEPT !.at = "get", !.status = goal.status]
  <2>1. f \in Run /\ f.at = "get" /\ f.event = 0 /\ f.found = 0
    BY <1>1, <1>2, StepIs DEF Run
  <2>2. Asks(r, "get", f)
    BY <1>4 DEF GetRead
  <2> HIDE DEF f
  <2> QED
    BY <2>1, <2>2, AsksSound DEF Kinds, Free, Step, Ways
<1>5. CASE RestartRead(r)
  <2> DEFINE f == [Idle EXCEPT !.at = "restart"]
  <2>1. f \in Run /\ f.at = "restart" /\ f.event = 0 /\ f.found = 0
    BY <1>1, <1>2, StepIs DEF Run
  <2>2. Asks(r, "restart", f)
    BY <1>5 DEF RestartRead
  <2> HIDE DEF f
  <2> QED
    BY <2>1, <2>2, AsksSound DEF Kinds, Free, Step, Ways
<1>6. ASSUME NEW kind \in {"rescue", "health"}, Asks(r, kind, [Idle EXCEPT !.at = "context"]) PROVE Sound'
  <2> DEFINE f == [Idle EXCEPT !.at = "context"]
  <2>1. f \in Run /\ f.at = "context" /\ f.event = 0 /\ f.found = 0
    BY <1>1, <1>2, StepIs DEF Run
  <2>2. Asks(r, kind, f)
    BY <1>6
  <2> HIDE DEF f
  <2> QED
    BY <2>1, <2>2, AsksSound DEF Kinds, Free, Step, Ways
<1>7. CASE ReportAsked(r)
  <2> DEFINE f == [Idle EXCEPT !.at = "create"]
  <2>1. f \in Run /\ f.at = "create" /\ f.event = 0 /\ f.found = 0
    BY <1>1, <1>2, StepIs DEF Run
  <2>2. Asks(r, "report", f)
    BY <1>7 DEF ReportAsked
  <2> HIDE DEF f
  <2> QED
    BY <2>1, <2>2, AsksSound DEF Kinds, Free, Step, Ways
<1>8. CASE TrendAsked(r)
  <2>1. PICK kind \in Trends, last \in Days :
          Asks(r, "trend", [Idle EXCEPT !.at = "previous", !.kind = kind, !.day = last,
                              !.trend = [average |-> TrendAverage(kind, last), previous |-> NoHealth]])
    BY <1>8 DEF TrendAsked
  <2> DEFINE a == TrendAverage(kind, last)
             both == [average |-> a, previous |-> NoHealth]
             f == [Idle EXCEPT !.at = "previous", !.kind = kind, !.day = last, !.trend = both]
  <2>2. a \in NoHealth..100
    BY <1>1, AverageIs DEF TrendAverage
  <2>3. Asks(r, "trend", f)
    BY <2>1
  <2> HIDE DEF a
  <2>4. both \in Trend
    BY <2>2 DEF Trend, NoHealth
  <2> HIDE DEF both
  <2>5. f \in Run /\ f.at = "previous" /\ f.event = 0 /\ f.found = 0 /\ f.kind = kind
    BY <1>2, <2>4, StepIs DEF Run
  <2> HIDE DEF f
  <2> QED
    BY <2>3, <2>5, AsksSound DEF Kinds, Free, Step, Ways
<1>9. CASE TrendQueued(r)
  <2>1. PICK kind \in Trends : Asks(r, "later", [Idle EXCEPT !.at = "create", !.kind = kind])
    BY <1>9 DEF TrendQueued
  <2> DEFINE f == [Idle EXCEPT !.at = "create", !.kind = kind]
  <2>2. f \in Run /\ f.at = "create" /\ f.event = 0 /\ f.found = 0 /\ f.kind = kind
    BY <1>2, StepIs DEF Run
  <2>3. Asks(r, "later", f)
    BY <2>1
  <2> HIDE DEF f
  <2> QED
    BY <2>2, <2>3, AsksSound DEF Kinds, Free, Step, Ways
<1>10. CASE MilestoneRead(r)
  <2> DEFINE g == IF milestone THEN 0 ELSE 1
             f == [Idle EXCEPT !.at = "complete", !.found = g]
  <2>1. g \in Nat
    OBVIOUS
  <2>2. Asks(r, "milestone", f)
    BY <1>10 DEF MilestoneRead
  <2> HIDE DEF g
  <2>3. f \in Run /\ f.at = "complete" /\ f.event = 0
    BY <1>2, <2>1, StepIs DEF Run
  <2> HIDE DEF f
  <2> QED
    BY <2>2, <2>3, AsksSound DEF Kinds, Free, Step, Ways
<1>11. CASE BackfillRead(r)
  <2> DEFINE f == [Idle EXCEPT !.at = "events", !.todo = Derived]
  <2>1. f \in Run /\ f.at = "events" /\ f.event = 0 /\ f.todo = Derived
    BY <1>1, <1>2, DerivedIs, StepIs DEF Run
  <2>2. Asks(r, "backfill", f)
    BY <1>11 DEF BackfillRead
  <2>3. f.todo # <<>>
    BY <1>1, <2>1, DerivedIs
  <2> HIDE DEF f
  <2> QED
    BY <2>1, <2>2, <2>3, AsksSound DEF Kinds, Free, Step, Ways
<1>12. ASSUME NEW t \in Tasks, CheckinRead(r, t) PROVE Sound'
  <2> DEFINE f == [Idle EXCEPT !.at = "complete", !.task = t]
  <2>1. f \in Run /\ f.at = "complete" /\ f.event = 0 /\ f.task = t
    BY <1>1, <1>2, EventsAre, StepIs DEF Run
  <2>2. Asks(r, "checkin", f)
    BY <1>12 DEF CheckinRead
  <2> HIDE DEF f
  <2> QED
    BY <2>1, <2>2, AsksSound DEF Kinds, Free, Step, Ways
<1>13. ASSUME NEW j \in DOMAIN job, CancelRead(r, j) PROVE Sound'
  <2> DEFINE f == [Idle EXCEPT !.at = "cancel", !.job = j]
  <2>1. f \in Run /\ f.at = "cancel" /\ f.event = 0 /\ f.job = j
    <3>1. j \in Asked
      BY <1>1, Lengths DEF JobIds
    <3> QED
      BY <1>2, <3>1, StepIs DEF Run
  <2>2. Asks(r, "cancel", f)
    BY <1>13 DEF CancelRead
  <2> HIDE DEF f
  <2> QED
    BY <2>1, <2>2, AsksSound DEF Kinds, Free, Step, Ways
<1>14. ASSUME NEW j \in DOMAIN job, AdminRead(r, j) PROVE Sound'
  <2> DEFINE f == [Idle EXCEPT !.at = "requeue", !.job = j]
  <2>1. f \in Run /\ f.at = "requeue" /\ f.event = 0 /\ f.job = j
    <3>1. j \in Asked
      BY <1>1, Lengths DEF JobIds
    <3> QED
      BY <1>2, <3>1, StepIs DEF Run
  <2>2. Asks(r, "admin", f)
    BY <1>14 DEF AdminRead
  <2> HIDE DEF f
  <2> QED
    BY <2>1, <2>2, AsksSound DEF Kinds, Free, Step, Ways
<1>15. CASE RescueAsked(r) \/ HealthAsked(r)
  BY <1>6, <1>15 DEF RescueAsked, HealthAsked
<1> QED
  BY <1>3, <1>4, <1>5, <1>7, <1>8, <1>9, <1>10, <1>11, <1>12, <1>13, <1>14, <1>15

\* A step of a runner.
LEMMA StepsSound == ASSUME Sound, NEW r \in Runners, Steps(r) PROVE Sound'
BY SettleAgainSound, SettleTasksSound, SettleWriteSound, ReportExistsSound, FindReportJobSound,
   CreateJobSound, AttachSound, ReportReadSound, ReportWriteSound, RecordReadSound, RecordWriteSound,
   GetReportSound, RestartCreateSound, FailureOwnerSound, FailureAttemptSound, FailureFailsSound, FailureRetrySound,
   JobFailsSound, JobSucceedsSound, JobRunsSound, CareFailsSound,
   ContextSound, ExistingRescueSound, FindDeviationSound, WriteDeviationSound,
   PersistRescueSound, WriteSnapshotSound, TrendReadSound, TrendReadPreviousSound, TrendWriteSound,
   MilestoneWriteSound, BackfillWriteSound, CheckinWriteSound,
   CancelWriteSound, AdminEnqueueSound, AdminWriteSound DEF Steps

\* The rows and who works on them stay as they are said to be.
LEMMA SoundNext == Sound /\ [Next]_vars => Sound'
<1> SUFFICES ASSUME Sound, [Next]_vars PROVE Sound'
  OBVIOUS
<1>1. CASE UNCHANGED vars
  BY <1>1, StutterSound
<1>2. CASE Next
  BY <1>2, AsksAllSound, StepsSound, DiesSound, WorkerTakesSound, ReconcileSound, ConfirmSound, TickSound DEF Next
<1> QED
  BY <1>1, <1>2

LEMMA SoundInit == Init => Sound
<1> SUFFICES ASSUME Init PROVE Sound
  OBVIOUS
<1>1. \A r \in Runners : run[r] = Idle
  BY DEF Init
<1>2. run \in [Runners -> Run] /\ Idle.at = "idle" /\ Idle.does = "none"
  BY IdleIs DEF Init
<1>3. RowTypes /\ met \subseteq Areas
  <2>1. <<mix, async>> \in Mixes
    <3>1. PICK m \in Mixes : mix = m[1] /\ async = m[2]
      BY DEF Init
    <3>2. m \in [Requests -> Kinds] \X BOOLEAN
      BY GoalsAssumption
    <3>3. m = <<m[1], m[2]>>
      BY <3>2
    <3> QED
      BY <3>1, <3>3
  <2>2. day \in Days /\ goal \in [status : Status, used : Nat] /\ plan \in [Planned -> BOOLEAN]
    BY Constant DEF Init, Status, Days
  <2>3. rescue = <<>> /\ deviation = <<>> /\ job = <<>> /\ DOMAIN job = {}
    BY DEF Init
  <2>4. rescue \in Seq([day : Days, done : BOOLEAN, event : 0..Len(deviation)])
    BY <2>3
  <2>5. deviation \in Seq([day : Days, reason : ReasonSet]) /\ job \in Seq([type : JobType, status : JobStatus, tries : Nat])
    BY <2>3
  <2>6. /\ queue \in [Queues \X JobIds -> {"none", "waiting", "active"}]
        /\ \A q \in Queues, j \in JobIds : queue[<<q, j>>] # "none" => j \in DOMAIN job
    BY DEF Init
  <2>7. report \in BOOLEAN /\ milestone \in BOOLEAN /\ events \subseteq Event /\ met \subseteq Areas
    BY DEF Init
  <2>8. snapshot \in [Days -> NoHealth..100] /\ artifact \in [Trends \X Days -> Trend \cup {Absent}]
    BY DEF Init, NoHealth
  <2>9. asked \in {0} \cup Asked /\ restarts \in Nat /\ faults \in 0..MaxFaults
    BY Constant DEF Init
  <2> QED
    BY <2>1, <2>2, <2>3, <2>4, <2>5, <2>6, <2>7, <2>8, <2>9 DEF RowTypes
<1>4. Len(deviation) = 0 /\ Len(job) = 0 /\ DOMAIN job = {} /\ asked = 0
  BY DEF Init
<1>5. \A r \in Runners : Knows(r)
  BY <1>1, <1>4 DEF Knows, Idle, Jobs
<1>6. Who /\ Overlap
  BY <1>1, IdleIs DEF Who, Overlap, Runners
<1>7. Entries
  BY <1>1, <1>2, <1>4 DEF Entries, Serves, Distinct, ReportsQueue, Runners
<1>8. Making = {}
  BY <1>1, <1>2 DEF Making, Runners
<1>9. Counted
  BY <1>4, <1>8, FS_EmptySet DEF Counted
<1> QED
  BY <1>2, <1>3, <1>5, <1>6, <1>7, <1>9, TypesAre DEF Sound, Known

(***************************************************************************)
(* What the steps do to runners and rows.                                  *)
(***************************************************************************)
\* The step that follows a step.
Flow ==
  ({"goal"} \X {"tasks"}) \cup ({"tasks"} \X {"settle"}) \cup ({"settle"} \X {"exists"})
  \cup ({"exists"} \X {"find", "compose"}) \cup ({"find"} \X {"create"}) \cup ({"create"} \X {"attach"})
  \cup ({"compose"} \X {"write", "retry"}) \cup ({"write"} \X {"retry", "succeed", "record"})
  \cup ({"record"} \X {"recorded"}) \cup ({"get"} \X {"compose", "goal"})
  \cup ({"owner"} \X {"attempt", "fail"}) \cup ({"attempt"} \X {"compose", "fail"}) \cup ({"retry"} \X {"attempt"})
  \cup ({"running"} \X {"context", "range", "persist"})
  \cup ({"context"} \X {"existing", "deviation", "fail"})
  \cup ({"existing"} \X {"deviation", "snapshot", "running", "create", "persist"})
  \cup ({"deviation"} \X {"deviate", "snapshot", "running", "create", "persist"})
  \cup ({"deviate"} \X {"snapshot", "running", "create", "persist", "fail"})
  \cup ({"persist"} \X {"succeed", "recorded", "fail"}) \cup ({"snapshot"} \X {"succeed", "fail"})
  \cup ({"range"} \X {"previous", "fail"}) \cup ({"previous"} \X {"publish"}) \cup ({"publish"} \X {"succeed", "fail"})
  \cup ({"events"} \X {"events"}) \cup ({"requeue"} \X {"requeued"})

\* What r has in its hands changes where it reads.
Reads(r) ==
  /\ \A q \in Runners \ {r} : run'[q] = run[q]
  /\ \/ run'[r] = Idle
     \/ /\ <<run[r].at, run'[r].at>> \in Flow /\ run'[r].does = run[r].does
        /\ run'[r].task = run[r].task /\ run'[r].kind = run[r].kind
        /\ run[r].at # "create" => run'[r].job = run[r].job
        /\ run[r].at # "goal" => run'[r].status = run[r].status
        /\ run[r].at \notin {"tasks", "context", "range"} => run'[r].day = run[r].day
        /\ run[r].at # "context" => run'[r].reason = run[r].reason
        /\ run[r].at \notin {"compose", "record", "existing", "persist"} => run'[r].found = run[r].found
        /\ run[r].at \notin {"existing", "deviation", "deviate"} => run'[r].event = run[r].event
        /\ run[r].at \notin {"range", "previous"} => run'[r].trend = run[r].trend
        /\ run[r].at # "events" => run'[r].todo = run[r].todo

\* Rows change where r writes.
Writes(r) ==
  /\ UNCHANGED <<mix, async, day, met, asked>>
  /\ run[r].at # "settle" => goal' = goal
  /\ run[r].at # "complete" => plan' = plan /\ milestone' = milestone
  /\ run[r].at \notin {"persist", "complete"} => rescue' = rescue
  /\ run[r].at # "deviate" => deviation' = deviation
  /\ run[r].at # "snapshot" => snapshot' = snapshot
  /\ run[r].at # "publish" => artifact' = artifact
  /\ run[r].at \notin {"settle", "deviate", "persist", "publish", "complete", "events"} => events' = events
  /\ run[r].at \notin {"create", "recorded", "attempt", "retry", "fail", "succeed", "running", "cancel", "requeued"} =>
       job' = job

\* What r does at a step.
Acts(r) ==
  /\ run[r].at = "goal" => SettleAgain(r)
  /\ run[r].at = "tasks" => SettleTasks(r)
  /\ run[r].at = "settle" => SettleWrite(r)
  /\ run[r].at = "find" => FindReportJob(r)
  /\ run[r].at = "create" => CreateJob(r)
  /\ run[r].at = "attach" => Attach(r)
  /\ run[r].at = "record" => RecordRead(r)
  /\ run[r].at = "recorded" => RecordWrite(r)
  /\ run[r].at = "attempt" => FailureAttempt(r)
  /\ run[r].at = "retry" => FailureRetry(r)
  /\ run[r].at = "fail" => JobFails(r)
  /\ run[r].at = "succeed" => JobSucceeds(r)
  /\ run[r].at = "running" => JobRuns(r)
  /\ run[r].at = "context" => Context(r) \/ CareFails(r)
  /\ run[r].at = "existing" => ExistingRescue(r)
  /\ run[r].at = "deviation" => FindDeviation(r)
  /\ run[r].at = "deviate" => WriteDeviation(r) \/ CareFails(r)
  /\ run[r].at = "persist" => PersistRescue(r) \/ CareFails(r)
  /\ run[r].at = "snapshot" => WriteSnapshot(r) \/ CareFails(r)
  /\ run[r].at = "range" => TrendRead(r) \/ CareFails(r)
  /\ run[r].at = "previous" => TrendReadPrevious(r)
  /\ run[r].at = "publish" => TrendWrite(r) \/ CareFails(r)
  /\ run[r].at = "complete" => MilestoneWrite(r) \/ CheckinWrite(r)
  /\ run[r].at = "events" => BackfillWrite(r)
  /\ run[r].at = "cancel" => CancelWrite(r)
  /\ run[r].at = "requeued" => AdminWrite(r)

\* A runner ends or goes on: the others do not move.
LEMMA MoveIs ==
  ASSUME Sound, NEW r \in Runners, NEW n, Keeps(r, n)
  PROVE  run'[r] = n /\ met' = met /\ \A q \in Runners \ {r} : run'[q] = run[q]
BY DEF Sound, TypeOK, Keeps

LEMMA EndIs ==
  ASSUME Sound, NEW r \in Runners, NEW E, Ends(r, E)
  PROVE  run'[r] = Idle /\ met' = met /\ \A q \in Runners \ {r} : run'[q] = run[q]
BY DEF Sound, TypeOK, Ends

LEMMA GoIs ==
  ASSUME Sound, NEW r \in Runners, NEW to, Goes(r, to)
  PROVE  /\ run'[r] = [run[r] EXCEPT !.at = to] /\ met' = met /\ \A q \in Runners \ {r} : run'[q] = run[q]
BY DEF Sound, TypeOK, Goes

\* The step of each action, and what it leaves alone.
LEMMA SettleAgainFlow == ASSUME Sound, NEW r \in Runners, SettleAgain(r) PROVE Reads(r) /\ Writes(r) /\ Acts(r)
<1>1. run[r].at \in {"goal"} /\ run[r] \in Run
  BY DEF SettleAgain, At, Sound, TypeOK
<1> DEFINE n == [run[r] EXCEPT !.at = "tasks", !.status = goal.status]
<1>2. Keeps(r, n)
  BY DEF SettleAgain
<1>3. run'[r] = n /\ met' = met /\ \A q \in Runners \ {r} : run'[q] = run[q]
  BY <1>2, MoveIs
<1>4. Reads(r)
  BY <1>1, <1>3 DEF Reads, Flow, Run
<1>5. Writes(r)
  BY <1>1, <1>3 DEF Writes, SettleAgain, Unchanged, tasks, care, jobs, timeline
<1> QED
  BY <1>1, <1>4, <1>5 DEF Acts

LEMMA SettleTasksFlow == ASSUME Sound, NEW r \in Runners, SettleTasks(r) PROVE Reads(r) /\ Writes(r) /\ Acts(r)
<1>1. run[r].at \in {"tasks"} /\ run[r] \in Run
  BY DEF SettleTasks, At, Sound, TypeOK
<1> DEFINE n == [run[r] EXCEPT !.at = "settle", !.count = Cardinality(MissedTaskDays), !.day = day]
<1>2. Keeps(r, n)
  BY DEF SettleTasks
<1>3. run'[r] = n /\ met' = met /\ \A q \in Runners \ {r} : run'[q] = run[q]
  BY <1>2, MoveIs
<1>4. Reads(r)
  BY <1>1, <1>3 DEF Reads, Flow, Run
<1>5. Writes(r)
  BY <1>1, <1>3 DEF Writes, SettleTasks, Unchanged, tasks, care, jobs, timeline
<1> QED
  BY <1>1, <1>4, <1>5 DEF Acts

LEMMA SettleWriteFlow == ASSUME Sound, NEW r \in Runners, SettleWrite(r) PROVE Reads(r) /\ Writes(r) /\ Acts(r)
<1>1. run[r].at \in {"settle"} /\ run[r] \in Run
  BY DEF SettleWrite, At, Sound, TypeOK
<1>2. Returns(r) \/ \E to \in {"exists"} : Goes(r, to)
  BY DEF SettleWrite
<1>3. /\ met' = met /\ \A q \in Runners \ {r} : run'[q] = run[q]
      /\ run'[r] = Idle \/ \E to \in {"exists"} : run'[r] = [run[r] EXCEPT !.at = to]
  BY <1>2, GoIs, EndIs DEF Returns
<1>4. Reads(r)
  BY <1>1, <1>3 DEF Reads, Flow, Run
<1>5. Writes(r)
  BY <1>1, <1>3 DEF Writes, SettleWrite, Unchanged, tasks, care, jobs, timeline
<1> QED
  BY <1>1, <1>4, <1>5 DEF Acts

LEMMA ReportExistsFlow == ASSUME Sound, NEW r \in Runners, ReportExists(r) PROVE Reads(r) /\ Writes(r) /\ Acts(r)
<1>1. run[r].at \in {"exists"} /\ run[r] \in Run
  BY DEF ReportExists, At, Sound, TypeOK
<1>2. \E to \in {"find", "compose"} : Goes(r, to)
  BY DEF ReportExists
<1>3. /\ met' = met /\ \A q \in Runners \ {r} : run'[q] = run[q]
      /\ \E to \in {"find", "compose"} : run'[r] = [run[r] EXCEPT !.at = to]
  BY <1>2, GoIs
<1>4. Reads(r)
  BY <1>1, <1>3 DEF Reads, Flow, Run
<1>5. Writes(r)
  BY <1>1, <1>3 DEF Writes, ReportExists, Unchanged, tasks, care, jobs, timeline
<1> QED
  BY <1>1, <1>4, <1>5 DEF Acts

LEMMA FindReportJobFlow == ASSUME Sound, NEW r \in Runners, FindReportJob(r) PROVE Reads(r) /\ Writes(r) /\ Acts(r)
<1>1. run[r].at \in {"find"} /\ run[r] \in Run
  BY DEF FindReportJob, At, Sound, TypeOK
<1>2. Returns(r) \/ \E to \in {"create"} : Goes(r, to)
  BY DEF FindReportJob
<1>3. /\ met' = met /\ \A q \in Runners \ {r} : run'[q] = run[q]
      /\ run'[r] = Idle \/ \E to \in {"create"} : run'[r] = [run[r] EXCEPT !.at = to]
  BY <1>2, GoIs, EndIs DEF Returns
<1>4. Reads(r)
  BY <1>1, <1>3 DEF Reads, Flow, Run
<1>5. Writes(r)
  BY <1>1, <1>3 DEF Writes, FindReportJob, Unchanged, tasks, care, jobs, timeline
<1> QED
  BY <1>1, <1>4, <1>5 DEF Acts

LEMMA CreateJobFlow == ASSUME Sound, NEW r \in Runners, CreateJob(r) PROVE Reads(r) /\ Writes(r) /\ Acts(r)
<1>1. run[r].at \in {"create"} /\ run[r] \in Run
  BY DEF CreateJob, At, Sound, TypeOK
<1> DEFINE n == [run[r] EXCEPT !.at = "attach", !.job = Len(job) + 1]
<1>2. Keeps(r, n)
  BY DEF CreateJob
<1>3. run'[r] = n /\ met' = met /\ \A q \in Runners \ {r} : run'[q] = run[q]
  BY <1>2, MoveIs
<1>4. Reads(r)
  BY <1>1, <1>3 DEF Reads, Flow, Run
<1>5. Writes(r)
  BY <1>1, <1>3 DEF Writes, CreateJob, Unchanged, tasks, care, jobs, timeline
<1> QED
  BY <1>1, <1>4, <1>5 DEF Acts

LEMMA AttachFlow == ASSUME Sound, NEW r \in Runners, Attach(r) PROVE Reads(r) /\ Writes(r) /\ Acts(r)
<1>1. run[r].at \in {"attach"} /\ run[r] \in Run
  BY DEF Attach, At, Sound, TypeOK
<1> DEFINE n == Idle
<1>2. Keeps(r, n)
  BY DEF Attach
<1>3. run'[r] = n /\ met' = met /\ \A q \in Runners \ {r} : run'[q] = run[q]
  BY <1>2, MoveIs
<1>4. Reads(r)
  BY <1>1, <1>3 DEF Reads, Flow, Run
<1>5. Writes(r)
  BY <1>1, <1>3 DEF Writes, Attach, Unchanged, tasks, care, jobs, timeline
<1> QED
  BY <1>1, <1>4, <1>5 DEF Acts

LEMMA ReportReadFlow == ASSUME Sound, NEW r \in Runners, ReportRead(r) PROVE Reads(r) /\ Writes(r) /\ Acts(r)
<1>1. run[r].at \in {"compose"} /\ run[r] \in Run
  BY DEF ReportRead, At, Sound, TypeOK
<1> DEFINE n == [run[r] EXCEPT !.at = "write", !.found = IF report THEN 1 ELSE 0]
<1>2. Keeps(r, n)
  BY DEF ReportRead
<1>3. run'[r] = n /\ met' = met /\ \A q \in Runners \ {r} : run'[q] = run[q]
  BY <1>2, MoveIs
<1>4. Reads(r)
  BY <1>1, <1>3 DEF Reads, Flow, Run
<1>5. Writes(r)
  BY <1>1, <1>3 DEF Writes, ReportRead, Unchanged, tasks, care, jobs, timeline
<1> QED
  BY <1>1, <1>4, <1>5 DEF Acts

LEMMA ReportWriteFlow == ASSUME Sound, NEW r \in Runners, ReportWrite(r) PROVE Reads(r) /\ Writes(r) /\ Acts(r)
<1>1. run[r].at \in {"write"} /\ run[r] \in Run
  BY DEF ReportWrite, At, Sound, TypeOK
<1>2. Returns(r) \/ \E to \in {"retry", "succeed", "record"} : Goes(r, to)
  BY DEF ReportWrite
<1>3. /\ met' = met /\ \A q \in Runners \ {r} : run'[q] = run[q]
      /\ run'[r] = Idle \/ \E to \in {"retry", "succeed", "record"} : run'[r] = [run[r] EXCEPT !.at = to]
  BY <1>2, GoIs, EndIs DEF Returns
<1>4. Reads(r)
  BY <1>1, <1>3 DEF Reads, Flow, Run
<1>5. Writes(r)
  BY <1>1, <1>3 DEF Writes, ReportWrite, Unchanged, tasks, care, jobs, timeline
<1> QED
  BY <1>1, <1>4, <1>5 DEF Acts

LEMMA RecordReadFlow == ASSUME Sound, NEW r \in Runners, RecordRead(r) PROVE Reads(r) /\ Writes(r) /\ Acts(r)
<1>1. run[r].at \in {"record"} /\ run[r] \in Run
  BY DEF RecordRead, At, Sound, TypeOK
<1> DEFINE n == [run[r] EXCEPT !.at = "recorded", !.found =
          Greatest({j \in DOMAIN job : job[j].type = "FAILURE" /\ job[j].status = "SUCCEEDED"})]
<1>2. Keeps(r, n)
  BY DEF RecordRead
<1>3. run'[r] = n /\ met' = met /\ \A q \in Runners \ {r} : run'[q] = run[q]
  BY <1>2, MoveIs
<1>4. Reads(r)
  BY <1>1, <1>3 DEF Reads, Flow, Run
<1>5. Writes(r)
  BY <1>1, <1>3 DEF Writes, RecordRead, Unchanged, tasks, care, jobs, timeline
<1> QED
  BY <1>1, <1>4, <1>5 DEF Acts

LEMMA RecordWriteFlow == ASSUME Sound, NEW r \in Runners, RecordWrite(r) PROVE Reads(r) /\ Writes(r) /\ Acts(r)
<1>1. run[r].at \in {"recorded"} /\ run[r] \in Run
  BY DEF RecordWrite, At, Sound, TypeOK
<1>3. run'[r] = Idle /\ met' = met /\ \A q \in Runners \ {r} : run'[q] = run[q]
  BY EndIs DEF RecordWrite, Returns
<1>4. Reads(r)
  BY <1>3 DEF Reads
<1>5. Writes(r)
  BY <1>1, <1>3 DEF Writes, RecordWrite, Unchanged, tasks, care, jobs, timeline
<1> QED
  BY <1>1, <1>4, <1>5 DEF Acts

LEMMA GetReportFlow == ASSUME Sound, NEW r \in Runners, GetReport(r) PROVE Reads(r) /\ Writes(r) /\ Acts(r)
<1>1. run[r].at \in {"get"} /\ run[r] \in Run
  BY DEF GetReport, At, Sound, TypeOK
<1>2. Returns(r) \/ \E to \in {"compose", "goal"} : Goes(r, to)
  BY DEF GetReport
<1>3. /\ met' = met /\ \A q \in Runners \ {r} : run'[q] = run[q]
      /\ run'[r] = Idle \/ \E to \in {"compose", "goal"} : run'[r] = [run[r] EXCEPT !.at = to]
  BY <1>2, GoIs, EndIs DEF Returns
<1>4. Reads(r)
  BY <1>1, <1>3 DEF Reads, Flow, Run
<1>5. Writes(r)
  BY <1>1, <1>3 DEF Writes, GetReport, Unchanged, tasks, care, jobs, timeline
<1> QED
  BY <1>1, <1>4, <1>5 DEF Acts

LEMMA RestartCreateFlow == ASSUME Sound, NEW r \in Runners, RestartCreate(r) PROVE Reads(r) /\ Writes(r) /\ Acts(r)
<1>1. run[r].at \in {"restart"} /\ run[r] \in Run
  BY DEF RestartCreate, At, Sound, TypeOK
<1>3. run'[r] = Idle /\ met' = met /\ \A q \in Runners \ {r} : run'[q] = run[q]
  BY EndIs DEF RestartCreate, Returns
<1>4. Reads(r)
  BY <1>3 DEF Reads
<1>5. Writes(r)
  BY <1>1, <1>3 DEF Writes, RestartCreate, Unchanged, tasks, care, jobs, timeline
<1> QED
  BY <1>1, <1>4, <1>5 DEF Acts

LEMMA FailureOwnerFlow == ASSUME Sound, NEW r \in Runners, FailureOwner(r) PROVE Reads(r) /\ Writes(r) /\ Acts(r)
<1>1. run[r].at \in {"owner"} /\ run[r] \in Run
  BY DEF FailureOwner, At, Sound, TypeOK
<1>2. \E to \in {"attempt", "fail"} : Goes(r, to)
  BY DEF FailureOwner
<1>3. /\ met' = met /\ \A q \in Runners \ {r} : run'[q] = run[q]
      /\ \E to \in {"attempt", "fail"} : run'[r] = [run[r] EXCEPT !.at = to]
  BY <1>2, GoIs
<1>4. Reads(r)
  BY <1>1, <1>3 DEF Reads, Flow, Run
<1>5. Writes(r)
  BY <1>1, <1>3 DEF Writes, FailureOwner, Unchanged, tasks, care, jobs, timeline
<1> QED
  BY <1>1, <1>4, <1>5 DEF Acts

LEMMA FailureAttemptFlow == ASSUME Sound, NEW r \in Runners, FailureAttempt(r) PROVE Reads(r) /\ Writes(r) /\ Acts(r)
<1>1. run[r].at \in {"attempt"} /\ run[r] \in Run
  BY DEF FailureAttempt, At, Sound, TypeOK
<1>2. PICK n : Keeps(r, n) /\ \/ n = [run[r] EXCEPT !.at = "fail"]
                              \/ \E c : n = [run[r] EXCEPT !.at = "compose", !.count = c]
  BY DEF FailureAttempt, Goes, Keeps
<1>3. run'[r] = n /\ met' = met /\ \A q \in Runners \ {r} : run'[q] = run[q]
  BY <1>2, MoveIs
<1>4. Reads(r)
  <2>1. <<"attempt", "fail">> \in Flow /\ <<"attempt", "compose">> \in Flow
    BY DEF Flow
  <2> QED
    BY <1>1, <1>2, <1>3, <2>1 DEF Reads, Run
<1>5. Writes(r)
  BY <1>1, <1>3 DEF Writes, FailureAttempt, Unchanged, tasks, care, jobs, timeline
<1> QED
  BY <1>1, <1>4, <1>5 DEF Acts

LEMMA FailureFailsFlow == ASSUME Sound, NEW r \in Runners, FailureFails(r) PROVE Reads(r) /\ Writes(r) /\ Acts(r)
<1>1. run[r].at \in {"compose"} /\ run[r] \in Run
  BY DEF FailureFails, At, Sound, TypeOK
<1>2. \E to \in {"retry"} : Goes(r, to)
  BY DEF FailureFails
<1>3. /\ met' = met /\ \A q \in Runners \ {r} : run'[q] = run[q]
      /\ \E to \in {"retry"} : run'[r] = [run[r] EXCEPT !.at = to]
  BY <1>2, GoIs
<1>4. Reads(r)
  BY <1>1, <1>3 DEF Reads, Flow, Run
<1>5. Writes(r)
  BY <1>1, <1>3 DEF Writes, FailureFails, Unchanged, tasks, care, jobs, timeline
<1> QED
  BY <1>1, <1>4, <1>5 DEF Acts

LEMMA FailureRetryFlow == ASSUME Sound, NEW r \in Runners, FailureRetry(r) PROVE Reads(r) /\ Writes(r) /\ Acts(r)
<1>1. run[r].at \in {"retry"} /\ run[r] \in Run
  BY DEF FailureRetry, At, Sound, TypeOK
<1>2. Returns(r) \/ \E to \in {"attempt"} : Goes(r, to)
  BY DEF FailureRetry
<1>3. /\ met' = met /\ \A q \in Runners \ {r} : run'[q] = run[q]
      /\ run'[r] = Idle \/ \E to \in {"attempt"} : run'[r] = [run[r] EXCEPT !.at = to]
  BY <1>2, GoIs, EndIs DEF Returns
<1>4. Reads(r)
  BY <1>1, <1>3 DEF Reads, Flow, Run
<1>5. Writes(r)
  BY <1>1, <1>3 DEF Writes, FailureRetry, Unchanged, tasks, care, jobs, timeline
<1> QED
  BY <1>1, <1>4, <1>5 DEF Acts

LEMMA JobFailsFlow == ASSUME Sound, NEW r \in Runners, JobFails(r) PROVE Reads(r) /\ Writes(r) /\ Acts(r)
<1>1. run[r].at \in {"fail"} /\ run[r] \in Run
  BY DEF JobFails, At, Sound, TypeOK
<1>3. run'[r] = Idle /\ met' = met /\ \A q \in Runners \ {r} : run'[q] = run[q]
  BY EndIs DEF JobFails, Returns, Throws
<1>4. Reads(r)
  BY <1>3 DEF Reads
<1>5. Writes(r)
  BY <1>1, <1>3 DEF Writes, JobFails, Unchanged, tasks, care, jobs, timeline
<1> QED
  BY <1>1, <1>4, <1>5 DEF Acts

LEMMA JobSucceedsFlow == ASSUME Sound, NEW r \in Runners, JobSucceeds(r) PROVE Reads(r) /\ Writes(r) /\ Acts(r)
<1>1. run[r].at \in {"succeed"} /\ run[r] \in Run
  BY DEF JobSucceeds, At, Sound, TypeOK
<1>3. run'[r] = Idle /\ met' = met /\ \A q \in Runners \ {r} : run'[q] = run[q]
  BY EndIs DEF JobSucceeds, Returns
<1>4. Reads(r)
  BY <1>3 DEF Reads
<1>5. Writes(r)
  BY <1>1, <1>3 DEF Writes, JobSucceeds, Unchanged, tasks, care, jobs, timeline
<1> QED
  BY <1>1, <1>4, <1>5 DEF Acts

LEMMA JobRunsFlow == ASSUME Sound, NEW r \in Runners, JobRuns(r) PROVE Reads(r) /\ Writes(r) /\ Acts(r)
<1>1. run[r].at \in {"running"} /\ run[r] \in Run
  BY DEF JobRuns, At, Sound, TypeOK
<1>2. PICK to \in {"context", "range", "persist"} : Goes(r, to)
  <2>1. run[r].does = "healthJob" \/ run[r].does = "trendJob" \/ (run[r].does # "healthJob" /\ run[r].does # "trendJob")
    OBVIOUS
  <2> QED
    BY <2>1 DEF JobRuns
<1> DEFINE n == [run[r] EXCEPT !.at = to]
<1>3. run'[r] = n /\ met' = met /\ \A q \in Runners \ {r} : run'[q] = run[q]
  BY <1>2, GoIs
<1>4. Reads(r)
  BY <1>1, <1>2, <1>3 DEF Reads, Flow, Run
<1>5. Writes(r)
  BY <1>1, <1>3 DEF Writes, JobRuns, Unchanged, tasks, care, jobs, timeline
<1> QED
  BY <1>1, <1>4, <1>5 DEF Acts

LEMMA CareFailsFlow == ASSUME Sound, NEW r \in Runners, CareFails(r) PROVE Reads(r) /\ Writes(r) /\ Acts(r)
<1>1. run[r].at \in {"context", "deviate", "persist", "snapshot", "range", "publish"} /\ run[r] \in Run
  BY DEF CareFails, At, Sound, TypeOK
<1>2. \E to \in {"fail"} : Goes(r, to)
  BY DEF CareFails
<1>3. /\ met' = met /\ \A q \in Runners \ {r} : run'[q] = run[q]
      /\ \E to \in {"fail"} : run'[r] = [run[r] EXCEPT !.at = to]
  BY <1>2, GoIs
<1>4. Reads(r)
  BY <1>1, <1>3 DEF Reads, Flow, Run
<1>5. Writes(r)
  BY <1>1, <1>3 DEF Writes, CareFails, Unchanged, tasks, care, jobs, timeline
<1> QED
  BY <1>1, <1>4, <1>5 DEF Acts

LEMMA ContextFlow == ASSUME Sound, NEW r \in Runners, Context(r) PROVE Reads(r) /\ Writes(r) /\ Acts(r)
<1>1. run[r].at \in {"context"} /\ run[r] \in Run
  BY DEF Context, At, Sound, TypeOK
<1>2. PICK n : /\ n = Idle \/ n = [run[r] EXCEPT !.at = "fail"]
                  \/ \E to \in {"existing", "deviation"} : \E d, w, c :
                       n = [run[r] EXCEPT !.at = to, !.day = d, !.reason = w, !.count = c]
               /\ Keeps(r, n)
  <2>1. CASE Returns(r)
    BY <2>1 DEF Returns, Ends, Keeps
  <2>2. CASE Goes(r, "fail")
    BY <2>2 DEF Goes, Keeps
  <2>3. CASE \E low \in Signals :
               Keeps(r, [run[r] EXCEPT !.at = IF Rescues(r) THEN "existing" ELSE "deviation",
                           !.day = day, !.reason = PrimaryReason(day, low),
                           !.count = IF Rescues(r) THEN 0 ELSE HealthScore(day, low)])
    <3>1. PICK low \in Signals :
               Keeps(r, [run[r] EXCEPT !.at = IF Rescues(r) THEN "existing" ELSE "deviation",
                           !.day = day, !.reason = PrimaryReason(day, low),
                           !.count = IF Rescues(r) THEN 0 ELSE HealthScore(day, low)])
      BY <2>3
    <3> DEFINE to == IF Rescues(r) THEN "existing" ELSE "deviation"
               w == PrimaryReason(day, low)
               c == IF Rescues(r) THEN 0 ELSE HealthScore(day, low)
               n == [run[r] EXCEPT !.at = to, !.day = day, !.reason = w, !.count = c]
    <3>2. Keeps(r, n) /\ to \in {"existing", "deviation"}
      BY <3>1
    <3>3. n = [run[r] EXCEPT !.at = to, !.day = day, !.reason = w, !.count = c]
      OBVIOUS
    <3> HIDE DEF to, w, c, n
    <3> QED
      BY <3>2, <3>3
  <2> QED
    BY <2>1, <2>2, <2>3 DEF Context
<1>3. run'[r] = n /\ met' = met /\ \A q \in Runners \ {r} : run'[q] = run[q]
  BY <1>2, MoveIs
<1>4. Reads(r)
  <2>1. CASE n = Idle
    BY <1>3, <2>1 DEF Reads
  <2>2. CASE n = [run[r] EXCEPT !.at = "fail"]
    BY <1>1, <1>3, <2>2 DEF Reads, Flow, Run
  <2>3. ASSUME NEW to \in {"existing", "deviation"}, NEW d, NEW w, NEW c,
               n = [run[r] EXCEPT !.at = to, !.day = d, !.reason = w, !.count = c]
        PROVE  Reads(r)
    BY <1>1, <1>3, <2>3 DEF Reads, Flow, Run
  <2> QED
    BY <1>2, <2>1, <2>2, <2>3
<1>5. Writes(r)
  BY <1>1, <1>3 DEF Writes, Context, Unchanged, tasks, care, jobs, timeline
<1> QED
  BY <1>1, <1>4, <1>5 DEF Acts

LEMMA ExistingRescueFlow == ASSUME Sound, NEW r \in Runners, ExistingRescue(r) PROVE Reads(r) /\ Writes(r) /\ Acts(r)
<1>1. run[r].at \in {"existing"} /\ run[r] \in Run
  BY DEF ExistingRescue, At, Sound, TypeOK
<1> DEFINE i == Greatest(Pending(run[r].day))
           e == IF i = 0 THEN 0 ELSE rescue[i].event
           to == IF e # 0 THEN Onward(r) ELSE "deviation"
           n == [run[r] EXCEPT !.at = to, !.found = i, !.event = e]
<1>2. Keeps(r, n) /\ to \in {"deviation", "snapshot", "running", "create", "persist"}
  BY DEF ExistingRescue, Onward
<1>3. run'[r] = n /\ met' = met /\ \A q \in Runners \ {r} : run'[q] = run[q]
  BY <1>2, MoveIs
<1> HIDE DEF i, e, to
<1>4. Reads(r)
  BY <1>1, <1>2, <1>3 DEF Reads, Flow, Run
<1>5. Writes(r)
  BY <1>1, <1>3 DEF Writes, ExistingRescue, Unchanged, tasks, care, jobs, timeline
<1> QED
  BY <1>1, <1>4, <1>5 DEF Acts

LEMMA FindDeviationFlow == ASSUME Sound, NEW r \in Runners, FindDeviation(r) PROVE Reads(r) /\ Writes(r) /\ Acts(r)
<1>1. run[r].at \in {"deviation"} /\ run[r] \in Run
  BY DEF FindDeviation, At, Sound, TypeOK
<1>2. PICK n : /\ Keeps(r, n)
               /\ \/ \E to \in {"snapshot", "running", "create", "persist"} : n = [run[r] EXCEPT !.at = to]
                  \/ \E e : n = [run[r] EXCEPT !.at = "deviate", !.event = e]
  <2>1. Onward(r) \in {"snapshot", "running", "create", "persist"}
    BY DEF Onward
  <2> QED
    BY <2>1 DEF FindDeviation, Goes, Keeps
<1>3. run'[r] = n /\ met' = met /\ \A q \in Runners \ {r} : run'[q] = run[q]
  BY <1>2, MoveIs
<1>4. Reads(r)
  <2>1. ASSUME NEW to \in {"snapshot", "running", "create", "persist"}, n = [run[r] EXCEPT !.at = to] PROVE Reads(r)
    BY <1>1, <1>3, <2>1 DEF Reads, Flow, Run
  <2>2. ASSUME NEW e, n = [run[r] EXCEPT !.at = "deviate", !.event = e] PROVE Reads(r)
    BY <1>1, <1>3, <2>2 DEF Reads, Flow, Run
  <2> QED
    BY <1>2, <2>1, <2>2
<1>5. Writes(r)
  BY <1>1, <1>3 DEF Writes, FindDeviation, Unchanged, tasks, care, jobs, timeline
<1> QED
  BY <1>1, <1>4, <1>5 DEF Acts

LEMMA WriteDeviationFlow == ASSUME Sound, NEW r \in Runners, WriteDeviation(r) PROVE Reads(r) /\ Writes(r) /\ Acts(r)
<1>1. run[r].at \in {"deviate"} /\ run[r] \in Run
  BY DEF WriteDeviation, At, Sound, TypeOK
<1> DEFINE e == IF run[r].event = 0 THEN Len(deviation) + 1 ELSE run[r].event
           to == Onward(r)
           n == [run[r] EXCEPT !.at = to, !.event = e]
<1>2. Keeps(r, n) /\ to \in {"snapshot", "running", "create", "persist"}
  BY DEF WriteDeviation, Onward
<1>3. run'[r] = n /\ met' = met /\ \A q \in Runners \ {r} : run'[q] = run[q]
  BY <1>2, MoveIs
<1> HIDE DEF e, to
<1>4. Reads(r)
  BY <1>1, <1>2, <1>3 DEF Reads, Flow, Run
<1>5. Writes(r)
  BY <1>1, <1>3 DEF Writes, WriteDeviation, Unchanged, tasks, care, jobs, timeline
<1> QED
  BY <1>1, <1>4, <1>5 DEF Acts

LEMMA PersistRescueFlow == ASSUME Sound, NEW r \in Runners, PersistRescue(r) PROVE Reads(r) /\ Writes(r) /\ Acts(r)
<1>1. run[r].at \in {"persist"} /\ run[r] \in Run
  BY DEF PersistRescue, At, Sound, TypeOK
<1> DEFINE to == IF r \in Workers THEN "succeed" ELSE "recorded"
           n == [run[r] EXCEPT !.at = to, !.found = 0]
<1>2. Keeps(r, n) /\ to \in {"succeed", "recorded"}
  BY DEF PersistRescue
<1>3. run'[r] = n /\ met' = met /\ \A q \in Runners \ {r} : run'[q] = run[q]
  BY <1>2, MoveIs
<1> HIDE DEF to
<1>4. Reads(r)
  BY <1>1, <1>2, <1>3 DEF Reads, Flow, Run
<1>5. Writes(r)
  BY <1>1, <1>3 DEF Writes, PersistRescue, Unchanged, tasks, care, jobs, timeline
<1> QED
  BY <1>1, <1>4, <1>5 DEF Acts

LEMMA WriteSnapshotFlow == ASSUME Sound, NEW r \in Runners, WriteSnapshot(r) PROVE Reads(r) /\ Writes(r) /\ Acts(r)
<1>1. run[r].at \in {"snapshot"} /\ run[r] \in Run
  BY DEF WriteSnapshot, At, Sound, TypeOK
<1>2. Returns(r) \/ \E to \in {"succeed"} : Goes(r, to)
  BY DEF WriteSnapshot
<1>3. /\ met' = met /\ \A q \in Runners \ {r} : run'[q] = run[q]
      /\ run'[r] = Idle \/ \E to \in {"succeed"} : run'[r] = [run[r] EXCEPT !.at = to]
  BY <1>2, GoIs, EndIs DEF Returns
<1>4. Reads(r)
  BY <1>1, <1>3 DEF Reads, Flow, Run
<1>5. Writes(r)
  BY <1>1, <1>3 DEF Writes, WriteSnapshot, Unchanged, tasks, care, jobs, timeline
<1> QED
  BY <1>1, <1>4, <1>5 DEF Acts

LEMMA TrendReadFlow == ASSUME Sound, NEW r \in Runners, TrendRead(r) PROVE Reads(r) /\ Writes(r) /\ Acts(r)
<1>1. run[r].at \in {"range"} /\ run[r] \in Run
  BY DEF TrendRead, At, Sound, TypeOK
<1> DEFINE n == [run[r] EXCEPT !.at = "previous", !.day = day,
          !.trend = [average |-> TrendAverage(run[r].kind, day), previous |-> NoHealth]]
<1>2. Keeps(r, n)
  BY DEF TrendRead
<1>3. run'[r] = n /\ met' = met /\ \A q \in Runners \ {r} : run'[q] = run[q]
  BY <1>2, MoveIs
<1>4. Reads(r)
  BY <1>1, <1>3 DEF Reads, Flow, Run
<1>5. Writes(r)
  BY <1>1, <1>3 DEF Writes, TrendRead, Unchanged, tasks, care, jobs, timeline
<1> QED
  BY <1>1, <1>4, <1>5 DEF Acts

LEMMA TrendReadPreviousFlow == ASSUME Sound, NEW r \in Runners, TrendReadPrevious(r) PROVE Reads(r) /\ Writes(r) /\ Acts(r)
<1>1. run[r].at \in {"previous"} /\ run[r] \in Run
  BY DEF TrendReadPrevious, At, Sound, TypeOK
<1> DEFINE n == [run[r] EXCEPT !.at = "publish",
          !.trend = [average |-> @.average, previous |-> TrendPrevious(run[r].kind, run[r].day)]]
<1>2. Keeps(r, n)
  BY DEF TrendReadPrevious
<1>3. run'[r] = n /\ met' = met /\ \A q \in Runners \ {r} : run'[q] = run[q]
  BY <1>2, MoveIs
<1>4. Reads(r)
  BY <1>1, <1>3 DEF Reads, Flow, Run
<1>5. Writes(r)
  BY <1>1, <1>3 DEF Writes, TrendReadPrevious, Unchanged, tasks, care, jobs, timeline
<1> QED
  BY <1>1, <1>4, <1>5 DEF Acts

LEMMA TrendWriteFlow == ASSUME Sound, NEW r \in Runners, TrendWrite(r) PROVE Reads(r) /\ Writes(r) /\ Acts(r)
<1>1. run[r].at \in {"publish"} /\ run[r] \in Run
  BY DEF TrendWrite, At, Sound, TypeOK
<1>2. Returns(r) \/ \E to \in {"succeed", "fail"} : Goes(r, to)
  BY DEF TrendWrite
<1>3. /\ met' = met /\ \A q \in Runners \ {r} : run'[q] = run[q]
      /\ run'[r] = Idle \/ \E to \in {"succeed", "fail"} : run'[r] = [run[r] EXCEPT !.at = to]
  BY <1>2, GoIs, EndIs DEF Returns
<1>4. Reads(r)
  BY <1>1, <1>3 DEF Reads, Flow, Run
<1>5. Writes(r)
  BY <1>1, <1>3 DEF Writes, TrendWrite, Unchanged, tasks, care, jobs, timeline
<1> QED
  BY <1>1, <1>4, <1>5 DEF Acts

LEMMA MilestoneWriteFlow == ASSUME Sound, NEW r \in Runners, MilestoneWrite(r) PROVE Reads(r) /\ Writes(r) /\ Acts(r)
<1>1. run[r].at \in {"complete"} /\ run[r] \in Run
  BY DEF MilestoneWrite, At, Sound, TypeOK
<1>3. run'[r] = Idle /\ met' = met /\ \A q \in Runners \ {r} : run'[q] = run[q]
  BY EndIs DEF MilestoneWrite, Returns
<1>4. Reads(r)
  BY <1>3 DEF Reads
<1>5. Writes(r)
  BY <1>1, <1>3 DEF Writes, MilestoneWrite, Unchanged, tasks, care, jobs, timeline
<1> QED
  BY <1>1, <1>4, <1>5 DEF Acts

LEMMA BackfillWriteFlow == ASSUME Sound, NEW r \in Runners, BackfillWrite(r) PROVE Reads(r) /\ Writes(r) /\ Acts(r)
<1>1. run[r].at \in {"events"} /\ run[r] \in Run
  BY DEF BackfillWrite, At, Sound, TypeOK
<1>2. PICK n : Keeps(r, n) /\ (n = Idle \/ \E t : n = [run[r] EXCEPT !.todo = t])
  BY DEF BackfillWrite, Returns, Ends, Keeps
<1>3. run'[r] = n /\ met' = met /\ \A q \in Runners \ {r} : run'[q] = run[q]
  BY <1>2, MoveIs
<1>4. Reads(r)
  BY <1>1, <1>2, <1>3 DEF Reads, Flow, Run
<1>5. Writes(r)
  BY <1>1, <1>3 DEF Writes, BackfillWrite, Unchanged, tasks, care, jobs, timeline
<1> QED
  BY <1>1, <1>4, <1>5 DEF Acts

LEMMA CheckinWriteFlow == ASSUME Sound, NEW r \in Runners, CheckinWrite(r) PROVE Reads(r) /\ Writes(r) /\ Acts(r)
<1>1. run[r].at \in {"complete"} /\ run[r] \in Run
  BY DEF CheckinWrite, At, Sound, TypeOK
<1>3. run'[r] = Idle /\ met' = met /\ \A q \in Runners \ {r} : run'[q] = run[q]
  BY EndIs DEF CheckinWrite, Returns
<1>4. Reads(r)
  BY <1>3 DEF Reads
<1>5. Writes(r)
  BY <1>1, <1>3 DEF Writes, CheckinWrite, Unchanged, tasks, care, jobs, timeline
<1> QED
  BY <1>1, <1>4, <1>5 DEF Acts

LEMMA CancelWriteFlow == ASSUME Sound, NEW r \in Runners, CancelWrite(r) PROVE Reads(r) /\ Writes(r) /\ Acts(r)
<1>1. run[r].at \in {"cancel"} /\ run[r] \in Run
  BY DEF CancelWrite, At, Sound, TypeOK
<1>3. run'[r] = Idle /\ met' = met /\ \A q \in Runners \ {r} : run'[q] = run[q]
  BY EndIs DEF CancelWrite, Returns
<1>4. Reads(r)
  BY <1>3 DEF Reads
<1>5. Writes(r)
  BY <1>1, <1>3 DEF Writes, CancelWrite, Unchanged, tasks, care, jobs, timeline
<1> QED
  BY <1>1, <1>4, <1>5 DEF Acts

LEMMA AdminEnqueueFlow == ASSUME Sound, NEW r \in Runners, AdminEnqueue(r) PROVE Reads(r) /\ Writes(r) /\ Acts(r)
<1>1. run[r].at \in {"requeue"} /\ run[r] \in Run
  BY DEF AdminEnqueue, At, Sound, TypeOK
<1>2. \E to \in {"requeued"} : Goes(r, to)
  BY DEF AdminEnqueue
<1>3. /\ met' = met /\ \A q \in Runners \ {r} : run'[q] = run[q]
      /\ \E to \in {"requeued"} : run'[r] = [run[r] EXCEPT !.at = to]
  BY <1>2, GoIs
<1>4. Reads(r)
  BY <1>1, <1>3 DEF Reads, Flow, Run
<1>5. Writes(r)
  BY <1>1, <1>3 DEF Writes, AdminEnqueue, Unchanged, tasks, care, jobs, timeline
<1> QED
  BY <1>1, <1>4, <1>5 DEF Acts

LEMMA AdminWriteFlow == ASSUME Sound, NEW r \in Runners, AdminWrite(r) PROVE Reads(r) /\ Writes(r) /\ Acts(r)
<1>1. run[r].at \in {"requeued"} /\ run[r] \in Run
  BY DEF AdminWrite, At, Sound, TypeOK
<1>3. run'[r] = Idle /\ met' = met /\ \A q \in Runners \ {r} : run'[q] = run[q]
  BY EndIs DEF AdminWrite, Returns
<1>4. Reads(r)
  BY <1>3 DEF Reads
<1>5. Writes(r)
  BY <1>1, <1>3 DEF Writes, AdminWrite, Unchanged, tasks, care, jobs, timeline
<1> QED
  BY <1>1, <1>4, <1>5 DEF Acts

LEMMA StepsFlow == ASSUME Sound, NEW r \in Runners, Steps(r) PROVE Reads(r) /\ Writes(r) /\ Acts(r)
BY SettleAgainFlow, SettleTasksFlow, SettleWriteFlow, ReportExistsFlow, FindReportJobFlow,
   CreateJobFlow, AttachFlow, ReportReadFlow, ReportWriteFlow, RecordReadFlow,
   RecordWriteFlow, GetReportFlow, RestartCreateFlow, FailureOwnerFlow, FailureAttemptFlow,
   FailureFailsFlow, FailureRetryFlow, JobFailsFlow, JobSucceedsFlow, JobRunsFlow,
   CareFailsFlow, ContextFlow, ExistingRescueFlow, FindDeviationFlow, WriteDeviationFlow,
   PersistRescueFlow, WriteSnapshotFlow, TrendReadFlow, TrendReadPreviousFlow, TrendWriteFlow,
   MilestoneWriteFlow, BackfillWriteFlow, CheckinWriteFlow, CancelWriteFlow, AdminEnqueueFlow,
   AdminWriteFlow DEF Steps

\* What a runner begins with is read at once.
Begun(r) ==
  /\ run'[r].at \in {"tasks", "get", "restart", "context", "create", "previous", "complete", "events", "cancel",
                     "requeue", "owner", "running", "fail"}
  /\ run'[r].at = "tasks" => run'[r].status = goal.status
  /\ run'[r].at = "create" => run'[r].does \in {"report", "later"}
  /\ run'[r].at = "previous" => run'[r].trend.average = TrendAverage(run'[r].kind, run'[r].day)
  /\ run'[r].does = "backfill" => run'[r].todo = Derived
  /\ run'[r].does = "cancel" => run'[r].job \in DOMAIN job /\ job[run'[r].job].status = "QUEUED"
  /\ run'[r].does = "admin" => run'[r].job \in DOMAIN job /\ job[run'[r].job].status = "FAILED"
  /\ run'[r].does \in {"failureJob", "rescueJob"} =>
       run'[r].at # "running" /\ run'[r].job \in DOMAIN job /\ job[run'[r].job].status = "QUEUED"

\* The rows that the properties are about.
Facts == <<mix, async, goal, plan, rescue, deviation, job, milestone, events, snapshot, artifact>>

\* A runner begins, or ends without more.
Starting(r) ==
  /\ run[r].at = "idle" /\ (\A q \in Runners \ {r} : run'[q] = run[q])
  /\ met \subseteq met' /\ UNCHANGED Facts /\ day' = day /\ Begun(r)
Leaving(r) ==
  /\ run'[r] = Idle /\ (\A q \in Runners \ {r} : run'[q] = run[q])
  /\ met' = met /\ UNCHANGED Facts /\ day' = day
\* Nobody moves.
Resting == run' = run /\ met \subseteq met' /\ UNCHANGED Facts /\ day' \in Nat /\ day <= day'

Started(r, kind, first) ==
  /\ run[r].at = "idle" /\ run'[r] = [first EXCEPT !.does = kind] /\ (\A q \in Runners \ {r} : run'[q] = run[q])
  /\ met \subseteq met' /\ UNCHANGED Facts /\ day' = day
LEMMA AskingIs ==
  ASSUME Sound, NEW r \in Requests, NEW kind, NEW first, Asks(r, kind, first)
  PROVE  Started(r, kind, first)
<1>1. /\ run[r].at = "idle" /\ run' = [run EXCEPT ![r] = [first EXCEPT !.does = kind]]
      /\ met \subseteq met' /\ UNCHANGED Facts /\ day' = day
  BY DEF Asks, Begins, Facts, tasks, care, jobs, timeline
<1>2. run \in [Runners -> Run] /\ r \in Runners
  BY DEF Sound, TypeOK, Runners
<1> QED
  BY <1>1, <1>2 DEF Started

LEMMA AsksFlow ==
  ASSUME Sound, NEW r \in Requests,
         \/ SettleRead(r) \/ GetRead(r) \/ RestartRead(r) \/ RescueAsked(r) \/ HealthAsked(r) \/ ReportAsked(r)
         \/ TrendAsked(r) \/ TrendQueued(r) \/ MilestoneRead(r) \/ BackfillRead(r)
         \/ \E t \in Tasks : CheckinRead(r, t)
         \/ \E j \in DOMAIN job : CancelRead(r, j) \/ AdminRead(r, j)
  PROVE  Starting(r)
<1>2. CASE SettleRead(r)
  <2> DEFINE f == [Idle EXCEPT !.at = "tasks", !.status = goal.status]
  <2>1. Asks(r, "settle", f)
    BY <1>2 DEF SettleRead
  <2>2. Started(r, "settle", f)
    BY <2>1, AskingIs
  <2> QED
    BY <2>2 DEF Started, Starting, Begun, Idle, Jobs
<1>3. CASE GetRead(r)
  <2> DEFINE f == [Idle EXCEPT !.at = "get", !.status = goal.status]
  <2>1. Asks(r, "get", f)
    BY <1>3 DEF GetRead
  <2>2. Started(r, "get", f)
    BY <2>1, AskingIs
  <2> QED
    BY <2>2 DEF Started, Starting, Begun, Idle, Jobs
<1>4. CASE RestartRead(r)
  <2> DEFINE f == [Idle EXCEPT !.at = "restart"]
  <2>1. Asks(r, "restart", f)
    BY <1>4 DEF RestartRead
  <2>2. Started(r, "restart", f)
    BY <2>1, AskingIs
  <2> QED
    BY <2>2 DEF Started, Starting, Begun, Idle, Jobs
<1>5. CASE RescueAsked(r)
  <2> DEFINE f == [Idle EXCEPT !.at = "context"]
  <2>1. Asks(r, "rescue", f)
    BY <1>5 DEF RescueAsked
  <2>2. Started(r, "rescue", f)
    BY <2>1, AskingIs
  <2> QED
    BY <2>2 DEF Started, Starting, Begun, Idle, Jobs
<1>6. CASE HealthAsked(r)
  <2> DEFINE f == [Idle EXCEPT !.at = "context"]
  <2>1. Asks(r, "health", f)
    BY <1>6 DEF HealthAsked
  <2>2. Started(r, "health", f)
    BY <2>1, AskingIs
  <2> QED
    BY <2>2 DEF Started, Starting, Begun, Idle, Jobs
<1>7. CASE ReportAsked(r)
  <2> DEFINE f == [Idle EXCEPT !.at = "create"]
  <2>1. Asks(r, "report", f)
    BY <1>7 DEF ReportAsked
  <2>2. Started(r, "report", f)
    BY <2>1, AskingIs
  <2> QED
    BY <2>2 DEF Started, Starting, Begun, Idle, Jobs
<1>8. CASE MilestoneRead(r)
  <2> DEFINE f == [Idle EXCEPT !.at = "complete", !.found = IF milestone THEN 0 ELSE 1]
  <2>1. Asks(r, "milestone", f)
    BY <1>8 DEF MilestoneRead
  <2>2. Started(r, "milestone", f)
    BY <2>1, AskingIs
  <2> QED
    BY <2>2 DEF Started, Starting, Begun, Idle, Jobs
<1>9. CASE BackfillRead(r)
  <2> DEFINE f == [Idle EXCEPT !.at = "events", !.todo = Derived]
  <2>1. Asks(r, "backfill", f)
    BY <1>9 DEF BackfillRead
  <2>2. Started(r, "backfill", f)
    BY <2>1, AskingIs
  <2> QED
    BY <2>2 DEF Started, Starting, Begun, Idle, Jobs
<1>10. ASSUME NEW kind \in Trends, NEW last \in Days,
             Asks(r, "trend", [Idle EXCEPT !.at = "previous", !.kind = kind, !.day = last,
                                !.trend = [average |-> TrendAverage(kind, last), previous |-> NoHealth]])
      PROVE  Starting(r)
  <2> DEFINE f == [Idle EXCEPT !.at = "previous", !.kind = kind, !.day = last,
                             !.trend = [average |-> TrendAverage(kind, last), previous |-> NoHealth]]
  <2>1. Asks(r, "trend", f)
    BY <1>10 DEF Trends
  <2>2. Started(r, "trend", f)
    BY <2>1, AskingIs
  <2> QED
    BY <2>2 DEF Started, Starting, Begun, Idle, Jobs
<1>11. ASSUME NEW kind \in Trends, Asks(r, "later", [Idle EXCEPT !.at = "create", !.kind = kind]) PROVE Starting(r)
  <2> DEFINE f == [Idle EXCEPT !.at = "create", !.kind = kind]
  <2>1. Asks(r, "later", f)
    BY <1>11 DEF Trends
  <2>2. Started(r, "later", f)
    BY <2>1, AskingIs
  <2> QED
    BY <2>2 DEF Started, Starting, Begun, Idle, Jobs
<1>12. ASSUME NEW t \in Tasks, CheckinRead(r, t) PROVE Starting(r)
  <2> DEFINE f == [Idle EXCEPT !.at = "complete", !.task = t]
  <2>1. Asks(r, "checkin", f)
    BY <1>12 DEF CheckinRead
  <2>2. Started(r, "checkin", f)
    BY <2>1, AskingIs
  <2> QED
    BY <2>2 DEF Started, Starting, Begun, Idle, Jobs
<1>13. ASSUME NEW j \in DOMAIN job, CancelRead(r, j) PROVE Starting(r)
  <2> DEFINE f == [Idle EXCEPT !.at = "cancel", !.job = j]
  <2>1. Asks(r, "cancel", f)
    BY <1>13 DEF CancelRead
  <2>2. Started(r, "cancel", f)
    BY <2>1, AskingIs
  <2> QED
    BY <2>2, <1>13 DEF Started, Starting, Begun, Idle, Jobs, CancelRead
<1>14. ASSUME NEW j \in DOMAIN job, AdminRead(r, j) PROVE Starting(r)
  <2> DEFINE f == [Idle EXCEPT !.at = "requeue", !.job = j]
  <2>1. Asks(r, "admin", f)
    BY <1>14 DEF AdminRead
  <2>2. Started(r, "admin", f)
    BY <2>1, AskingIs
  <2> QED
    BY <2>2, <1>14 DEF Started, Starting, Begun, Idle, Jobs, AdminRead
<1> QED
  BY <1>2, <1>3, <1>4, <1>5, <1>6, <1>7, <1>8, <1>9, <1>10, <1>11, <1>12, <1>13, <1>14 DEF TrendAsked, TrendQueued

LEMMA TakesFlow ==
  ASSUME Sound, NEW w \in Workers, NEW q \in Queues, NEW j \in DOMAIN job, WorkerTakes(w, q, j)
  PROVE  Starting(w) \/ Resting
<1>1. UNCHANGED Facts /\ day' = day
  BY DEF WorkerTakes, Unchanged, Facts, tasks, care, timeline
<1>2. TypeOK /\ Entries /\ run \in [Runners -> Run] /\ w \in Runners /\ day \in Nat
  BY Lengths DEF Sound, TypeOK, Runners
<1>3. CASE UNCHANGED <<run, met>>
  BY <1>1, <1>2, <1>3 DEF Resting
<1> DEFINE n == [Idle EXCEPT !.at = FirstStep(q, j), !.does = Does(q, j), !.job = j,
                             !.count = job[j].tries, !.kind = KindOf(j)]
<1>4. CASE /\ Begins(w, n) /\ queue[<<q, j>>] = "waiting"
           /\ IF q = "reports" THEN job[j].status # "CANCELLED" ELSE job[j].status = "QUEUED"
  <2>1. /\ Does(q, j) \in Jobs /\ QueueFor(Does(q, j)) = q
        /\ FirstStep(q, j) \in {"owner", "context", "running", "fail"}
        /\ <<Does(q, j), FirstStep(q, j)>> \in Ways
    BY <1>2, <1>4, DoesIs DEF Entries
  <2>2. n.at = FirstStep(q, j) /\ n.does = Does(q, j) /\ n.job = j
    BY DEF Idle
  <2> HIDE DEF n
  <2>3. run[w].at = "idle" /\ run'[w] = n /\ (\A p \in Runners \ {w} : run'[p] = run[p]) /\ met \subseteq met'
    BY <1>2, <1>4 DEF Begins
  <2>4. ASSUME n.does \in {"failureJob", "rescueJob"} PROVE n.at # "running" /\ job[n.job].status = "QUEUED"
    <3>1. q = "ai-jobs"
      BY <2>1, <2>2, <2>4 DEF QueueFor
    <3>2. n.at # "running"
      BY <2>2, <2>4 DEF FirstStep
    <3> QED
      BY <1>4, <2>2, <3>1, <3>2
  <2>5. Begun(w)
    BY <2>1, <2>2, <2>3, <2>4 DEF Begun, Jobs
  <2> QED
    BY <1>1, <2>3, <2>5 DEF Starting
<1> QED
  BY <1>3, <1>4 DEF WorkerTakes

\* Whatever happens, a runner takes a step, begins or ends, or nobody moves.
LEMMA NextFlow ==
  ASSUME Sound, [Next]_vars
  PROVE  \/ \E r \in Runners : Steps(r) \/ Starting(r) \/ Leaving(r)
         \/ Resting \/ Confirm
<1>1. day \in Nat
  BY Lengths DEF Sound
<1>2. CASE UNCHANGED vars
  BY <1>1, <1>2 DEF vars, tasks, care, jobs, timeline, Resting, Facts
<1>3. ASSUME NEW r \in Runners, Dies(r) PROVE Leaving(r)
  <2>1. run'[r] = Idle /\ met' = met /\ \A q \in Runners \ {r} : run'[q] = run[q]
    BY <1>3, EndIs DEF Dies, Throws
  <2> QED
    BY <1>3, <2>1 DEF Dies, Leaving, Facts, tasks, care, timeline
<1>4. ASSUME NEW j \in DOMAIN job, Reconcile(j) PROVE Resting
  BY <1>1, <1>4 DEF Reconcile, Resting, Facts, tasks, care, timeline
<1>5. ASSUME Tick PROVE Resting
  BY <1>1, <1>5 DEF Tick, Resting, Facts, tasks, care, timeline, jobs
<1>6. Requests \subseteq Runners /\ Workers \subseteq Runners
  BY DEF Runners
<1> QED
  BY <1>2, <1>3, <1>4, <1>5, <1>6, AsksFlow, TakesFlow DEF Next

(***************************************************************************)
(* The timeline.                                                           *)
(***************************************************************************)
\* The events that follow from the rows; outcomes are among those of the status.
MilestoneEvents == IF milestone THEN MilestoneReached ELSE {}
LEMMA DerivedSum ==
  /\ DerivedEvents = GrowthEvent(goal.status) \cup MilestoneEvents \cup TaskEvents \cup DeviationEvents \cup ReportEvents
  /\ \A s : GrowthEvent(s) \subseteq Outcomes
  /\ (MilestoneEvents \cup TaskEvents \cup DeviationEvents \cup ReportEvents) \cap Outcomes = {}
<1> DEFINE g == GrowthEvent(goal.status)
<1>1. Derived = <<g, MilestoneEvents, TaskEvents, DeviationEvents, ReportEvents>>
  BY DEF Derived, MilestoneEvents
<1> HIDE DEF g
<1>2. DOMAIN Derived = 1..5 /\ Derived[1] = g /\ Derived[2] = MilestoneEvents /\ Derived[3] = TaskEvents
      /\ Derived[4] = DeviationEvents /\ Derived[5] = ReportEvents
  BY <1>1
<1>3. DerivedEvents = g \cup MilestoneEvents \cup TaskEvents \cup DeviationEvents \cup ReportEvents
  <2>1. \A i \in DOMAIN Derived : i = 1 \/ i = 2 \/ i = 3 \/ i = 4 \/ i = 5
    BY <1>2
  <2>2. 1 \in DOMAIN Derived /\ 2 \in DOMAIN Derived /\ 3 \in DOMAIN Derived /\ 4 \in DOMAIN Derived /\ 5 \in DOMAIN Derived
    BY <1>2
  <2> QED
    BY <1>2, <2>1, <2>2, Zenon DEF DerivedEvents
<1>4. \A s : GrowthEvent(s) \subseteq Outcomes
  BY DEF GrowthEvent, Outcomes
<1>5. \A o \in Outcomes : o = <<"GOAL_FAILED", 0>> \/ o = <<"GOAL_COMPLETED", 0>>
  BY DEF GrowthEvent, Outcomes
<1>6. \A o \in MilestoneEvents \cup TaskEvents \cup DeviationEvents \cup ReportEvents :
        \E a \in {"MILESTONE_REACHED", "TASK_COMPLETED", "RESCUE_TASK_CREATED", "RESCUE_TASK_COMPLETED",
                  "DEVIATION_DETECTED", "REPORT_GENERATED"} : \E x : o = <<a, x>>
  <2>1. \A o \in MilestoneEvents : o = <<"MILESTONE_REACHED", 0>>
    BY DEF MilestoneEvents, MilestoneReached
  <2>2. \A o \in TaskEvents : \E a \in {"TASK_COMPLETED", "RESCUE_TASK_CREATED", "RESCUE_TASK_COMPLETED"} : \E x : o = <<a, x>>
    BY DEF TaskEvents
  <2>3. \A o \in DeviationEvents : \E x : o = <<"DEVIATION_DETECTED", x>>
    BY DEF DeviationEvents
  <2>4. \A o \in ReportEvents : \E x : o = <<"REPORT_GENERATED", x>>
    BY DEF ReportEvents
  <2> QED
    BY <2>1, <2>2, <2>3, <2>4
<1>7. (MilestoneEvents \cup TaskEvents \cup DeviationEvents \cup ReportEvents) \cap Outcomes = {}
  BY <1>5, <1>6
<1> QED
  BY <1>3, <1>4, <1>7 DEF g

LEMMA PartsStay ==
  /\ goal' = goal => GrowthEvent(goal.status)' = GrowthEvent(goal.status)
  /\ milestone' = milestone => MilestoneEvents' = MilestoneEvents
  /\ plan' = plan /\ rescue' = rescue => TaskEvents' = TaskEvents
  /\ deviation' = deviation => DeviationEvents' = DeviationEvents
  /\ artifact' = artifact => ReportEvents' = ReportEvents
<1>1. goal' = goal => GrowthEvent(goal.status)' = GrowthEvent(goal.status)
  BY DEF GrowthEvent
<1>2. milestone' = milestone => MilestoneEvents' = MilestoneEvents
  BY DEF MilestoneEvents, MilestoneReached
<1>3. plan' = plan /\ rescue' = rescue => TaskEvents' = TaskEvents
  BY DEF TaskEvents, Tasks, IsTaskCompleted
<1>4. deviation' = deviation => DeviationEvents' = DeviationEvents
  BY DEF DeviationEvents
<1>5. artifact' = artifact => ReportEvents' = ReportEvents
  BY DEF ReportEvents, Published
<1> QED
  BY <1>1, <1>2, <1>3, <1>4, <1>5

\* A settlement goes on with the status that is, a backfill with what it has read or reads.
StatusKept == \A q \in Runners : run'[q].at \in {"tasks", "settle"} =>
  run'[q].status = goal.status \/ (run[q].at \in {"tasks", "settle"} /\ run'[q].status = run[q].status)
TodoKept == \A q \in Runners : run'[q].does = "backfill" =>
  \/ run'[q].todo = Derived
  \/ run[q].does = "backfill" /\ \A i \in DOMAIN run'[q].todo : \E k \in DOMAIN run[q].todo : run'[q].todo[i] = run[q].todo[k]

LEMMA TodoSeen ==
  ASSUME Timeline, TodoKept, NEW q \in Runners, run'[q].does = "backfill", NEW i \in DOMAIN run'[q].todo
  PROVE  /\ "settlement" \notin met => run'[q].todo[i] \cap Outcomes \subseteq GrowthEvent(goal.status)
         /\ met \cap {"settlement", "timeline"} = {} => run'[q].todo[i] \subseteq DerivedEvents
<1>1. CASE run'[q].todo = Derived
  <2>1. Derived[i] \subseteq DerivedEvents
    BY <1>1 DEF DerivedEvents
  <2> QED
    BY <1>1, <2>1, DerivedSum
<1>2. CASE run[q].does = "backfill" /\ \A j \in DOMAIN run'[q].todo : \E k \in DOMAIN run[q].todo : run'[q].todo[j] = run[q].todo[k]
  BY <1>2 DEF Timeline, SettlesWhatIs, BringsWhatIs
<1> QED
  BY <1>1, <1>2 DEF TodoKept

\* Events are added that the rows give as well.
LEMMA TimelineGrows ==
  ASSUME Timeline, goal' = goal, met \subseteq met', StatusKept, TodoKept,
         NEW X, events' = events \cup X, "settlement" \notin met => X \cap Outcomes \subseteq GrowthEvent(goal.status),
         DerivedEvents \subseteq DerivedEvents',
         met \cap {"settlement", "timeline"} = {} => DerivedEvents' = DerivedEvents \cup X
  PROVE  Timeline'
<1>1. GrowthEvent(goal.status)' = GrowthEvent(goal.status) /\ Outcomes' = Outcomes
  BY PartsStay DEF Outcomes, GrowthEvent
<1>2. OutcomeRecorded'
  <2>1. GrowthEvent(goal.status) \subseteq events'
    BY DEF Timeline, OutcomeRecorded
  <2>2. "settlement" \notin met => events' \cap Outcomes = GrowthEvent(goal.status)
    BY <2>1, DerivedSum DEF Timeline, OutcomeRecorded, Outcomes
  <2> QED
    BY <1>1, <2>1, <2>2 DEF OutcomeRecorded, Outcomes
<1>3. EventsDerived'
  BY DEF EventsDerived, Timeline
<1>4. SettlesWhatIs'
  <2> SUFFICES ASSUME "settlement" \notin met', NEW q \in Runners
               PROVE  /\ run'[q].at \in {"tasks", "settle"} => run'[q].status = goal'.status
                      /\ run'[q].does = "backfill" =>
                           \A i \in DOMAIN run'[q].todo : run'[q].todo[i] \cap Outcomes' \subseteq GrowthEvent(goal.status)'
    BY DEF SettlesWhatIs
  <2>1. "settlement" \notin met
    OBVIOUS
  <2>2. run'[q].at \in {"tasks", "settle"} => run'[q].status = goal'.status
    BY <2>1 DEF StatusKept, Timeline, SettlesWhatIs
  <2>3. ASSUME run'[q].does = "backfill", NEW i \in DOMAIN run'[q].todo
        PROVE  run'[q].todo[i] \cap Outcomes \subseteq GrowthEvent(goal.status)
    BY <2>1, <2>3, TodoSeen
  <2> QED
    BY <1>1, <2>2, <2>3
<1>5. BringsWhatIs'
  <2> SUFFICES ASSUME met' \cap {"settlement", "timeline"} = {}, NEW q \in Runners, run'[q].does = "backfill",
                      NEW i \in DOMAIN run'[q].todo
               PROVE  run'[q].todo[i] \subseteq DerivedEvents'
    BY DEF BringsWhatIs
  <2>1. met \cap {"settlement", "timeline"} = {}
    OBVIOUS
  <2> QED
    BY <2>1, TodoSeen
<1> QED
  BY <1>2, <1>3, <1>4, <1>5 DEF Timeline

LEMMA DerivedNext ==
  /\ DerivedEvents' = GrowthEvent(goal.status)' \cup MilestoneEvents' \cup TaskEvents' \cup DeviationEvents' \cup ReportEvents'
  /\ (\A s : GrowthEvent(s) \subseteq Outcomes)'
  /\ ((MilestoneEvents \cup TaskEvents \cup DeviationEvents \cup ReportEvents) \cap Outcomes = {})'
<1>1. (/\ DerivedEvents = GrowthEvent(goal.status) \cup MilestoneEvents \cup TaskEvents \cup DeviationEvents \cup ReportEvents
       /\ \A s : GrowthEvent(s) \subseteq Outcomes
       /\ (MilestoneEvents \cup TaskEvents \cup DeviationEvents \cup ReportEvents) \cap Outcomes = {})'
  BY DerivedSum, PTL
<1> QED
  BY <1>1

\* A step that reads keeps the status and what a backfill has read.
LEMMA StepKeeps ==
  ASSUME Sound, NEW r \in Runners, Reads(r), Acts(r)
  PROVE  StatusKept /\ TodoKept
<1>1. run \in [Runners -> Run] /\ run[r] \in Run /\ run[r].at \in Step /\ Known
  BY DEF Sound, TypeOK, Run
<1>2. \A q \in Runners \ {r} : run'[q] = run[q]
  BY DEF Reads
<1>3. Idle.at = "idle" /\ Idle.does = "none"
  BY DEF Idle
<1>4. run[r].at = "goal" => run'[r].status = goal.status
  <2> SUFFICES ASSUME run[r].at = "goal" PROVE run'[r].status = goal.status
    OBVIOUS
  <2> DEFINE n == [run[r] EXCEPT !.at = "tasks", !.status = goal.status]
  <2>1. Keeps(r, n)
    BY DEF Acts, SettleAgain
  <2>2. run'[r] = n
    BY <2>1, MoveIs
  <2> QED
    BY <1>1, <2>2 DEF Run
<1>5. ASSUME run'[r] # Idle, run'[r].at \in {"tasks", "settle"}
      PROVE  run'[r].status = goal.status \/ (run[r].at \in {"tasks", "settle"} /\ run'[r].status = run[r].status)
  <2>1. <<run[r].at, run'[r].at>> \in Flow /\ (run[r].at # "goal" => run'[r].status = run[r].status)
    BY <1>5 DEF Reads
  <2>2. run[r].at \in {"goal", "tasks"}
    BY <1>5, <2>1 DEF Flow
  <2> QED
    BY <1>4, <2>1, <2>2
<1>6. StatusKept
  BY <1>2, <1>3, <1>5 DEF StatusKept
<1>7. ASSUME run'[r] # Idle, run'[r].does = "backfill"
      PROVE  /\ run[r].does = "backfill"
             /\ \A i \in DOMAIN run'[r].todo : \E k \in DOMAIN run[r].todo : run'[r].todo[i] = run[r].todo[k]
  <2>1. run[r].does = "backfill" /\ (run[r].at # "events" => run'[r].todo = run[r].todo)
    BY <1>7 DEF Reads
  <2>2. CASE run[r].at = "events"
    <3>1. run[r].todo # <<>> /\ run[r].todo \in Seq(SUBSET Event)
      BY <1>1, <2>1 DEF Known, Knows, Run
    <3> DEFINE n == [run[r] EXCEPT !.todo = Tail(run[r].todo)]
    <3>2. Returns(r) \/ Keeps(r, n)
      BY <2>2, Zenon DEF Acts, BackfillWrite
    <3>3. run'[r] = n
      BY <1>7, <3>2, MoveIs, EndIs DEF Returns
    <3>4. run'[r].todo = Tail(run[r].todo)
      BY <1>1, <3>3 DEF Run
    <3>5. \A s \in Seq(SUBSET Event) : s # <<>> =>
            \A i \in DOMAIN Tail(s) : i + 1 \in DOMAIN s /\ Tail(s)[i] = s[i + 1]
      OBVIOUS
    <3> QED
      BY <2>1, <3>1, <3>4, <3>5
  <2> QED
    BY <2>1, <2>2
<1>8. TodoKept
  <2> SUFFICES ASSUME NEW q \in Runners, run'[q].does = "backfill"
               PROVE  run[q].does = "backfill" /\ \A i \in DOMAIN run'[q].todo : \E k \in DOMAIN run[q].todo : run'[q].todo[i] = run[q].todo[k]
    BY DEF TodoKept
  <2>1. CASE q = r
    BY <2>1, <1>3, <1>7
  <2>2. CASE q # r
    BY <2>2, <1>2
  <2> QED
    BY <2>1, <2>2
<1> QED
  BY <1>6, <1>8

LEMMA OthersKeep ==
  ASSUME \/ \E r \in Runners : Starting(r) \/ Leaving(r)
         \/ run' = run
  PROVE  StatusKept /\ TodoKept
<1>1. Idle.at = "idle" /\ Idle.does = "none"
  BY DEF Idle
<1>2. CASE run' = run
  BY <1>2 DEF StatusKept, TodoKept
<1>3. ASSUME NEW r \in Runners, Leaving(r) PROVE StatusKept /\ TodoKept
  BY <1>1, <1>3 DEF Leaving, StatusKept, TodoKept
<1>4. ASSUME NEW r \in Runners, Starting(r) PROVE StatusKept /\ TodoKept
  <2>1. \A q \in Runners \ {r} : run'[q] = run[q]
    BY <1>4 DEF Starting
  <2>2. run'[r].at # "settle" /\ (run'[r].at = "tasks" => run'[r].status = goal.status)
    BY <1>4 DEF Starting, Begun
  <2>3. run'[r].does = "backfill" => run'[r].todo = Derived
    BY <1>4 DEF Starting, Begun
  <2> QED
    BY <2>1, <2>2, <2>3 DEF StatusKept, TodoKept
<1> QED
  BY <1>2, <1>3, <1>4

\* Nothing that the timeline is about changes.
LEMMA TimelineStays ==
  ASSUME Timeline, StatusKept, TodoKept, met \subseteq met',
         UNCHANGED <<goal, milestone, plan, rescue, deviation, artifact, events>>
  PROVE  Timeline'
<1>1. DerivedEvents' = DerivedEvents
  BY DerivedSum, DerivedNext, PartsStay
<1> QED
  BY <1>1, TimelineGrows

LEMMA TimelineQuiet ==
  ASSUME Sound, Timeline,
         \/ \E r \in Runners :
              \/ Starting(r) \/ Leaving(r)
              \/ /\ Steps(r)
                 /\ run[r].at \notin {"settle", "deviate", "persist", "publish", "complete", "events"}
         \/ Resting
  PROVE  Timeline'
<1>1. CASE Resting
  BY <1>1, OthersKeep, TimelineStays DEF Resting, Facts
<1>2. ASSUME NEW r \in Runners, Starting(r) \/ Leaving(r) PROVE Timeline'
  BY <1>2, OthersKeep, TimelineStays DEF Starting, Leaving, Facts
<1>3. ASSUME NEW r \in Runners, Steps(r),
             run[r].at \notin {"settle", "deviate", "persist", "publish", "complete", "events"}
      PROVE  Timeline'
  <2>1. Reads(r) /\ Writes(r) /\ Acts(r)
    BY <1>3, StepsFlow
  <2>2. StatusKept /\ TodoKept
    BY <2>1, StepKeeps
  <2> QED
    BY <1>3, <2>1, <2>2, TimelineStays DEF Writes
<1> QED
  BY <1>1, <1>2, <1>3

\* What a rescue task that is kept or made leaves of the tasks.
LEMMA PersistIs ==
  ASSUME Sound, NEW r \in Runners, PersistRescue(r), NEW k, k = IF run[r].found = 0 THEN Len(rescue) + 1 ELSE run[r].found
  PROVE  /\ run[r].found \in {0} \cup DOMAIN rescue
         /\ DOMAIN rescue' = DOMAIN rescue \cup {k}
         /\ \A i \in DOMAIN rescue : rescue'[i].day = rescue[i].day /\ rescue'[i].done = rescue[i].done
         /\ run[r].found = 0 => k \notin DOMAIN rescue /\ rescue'[k].done = FALSE /\ rescue'[k].day = run[r].day
         /\ run[r].found # 0 => k \in DOMAIN rescue
<1>1. /\ <<run[r].does, run[r].at>> \in Ways /\ TypeOK /\ run[r] \in Run /\ Knows(r) /\ run[r].at = "persist"
  BY DEF Sound, Who, TypeOK, Known, PersistRescue, At
<1>2. run[r].does \in {"rescue", "rescueJob"}
  BY <1>1 DEF Ways
<1> DEFINE i == run[r].found
<1>3. i \in {0} \cup DOMAIN rescue /\ Len(rescue) \in Nat /\ DOMAIN rescue = 1..Len(rescue)
  BY <1>1, <1>2, Lengths DEF Knows
<1>4. deviation' = deviation
  BY DEF PersistRescue, Unchanged, care
<1>5. run[r].event \in 0..Len(deviation) /\ run[r].day \in Days
  <2>1. run[r].event \in Nat /\ run[r].event <= Len(deviation) /\ Len(deviation) \in Nat /\ run[r].day \in Days
    BY <1>1, Lengths DEF Knows, Run
  <2> QED
    BY <2>1
<1>6. CASE i = 0
  <2> DEFINE row == [day |-> run[r].day, done |-> FALSE, event |-> run[r].event]
  <2>1. row \in RescueType
    BY <1>5 DEF RescueType
  <2>2. rescue' = Append(rescue, row)
    BY <1>6 DEF PersistRescue
  <2>3. /\ DOMAIN rescue' = DOMAIN rescue \cup {Len(rescue) + 1}
        /\ rescue'[Len(rescue) + 1] = row /\ \A m \in DOMAIN rescue : rescue'[m] = rescue[m]
    BY <1>1, <1>4, <2>1, <2>2, RescueWritten
  <2>4. k = Len(rescue) + 1 /\ k \notin DOMAIN rescue
    BY <1>3, <1>6
  <2> QED
    BY <1>3, <1>6, <2>3, <2>4
<1>7. CASE i # 0 /\ rescue[i].event # 0
  BY <1>3, <1>7 DEF PersistRescue
<1>8. CASE i # 0 /\ rescue[i].event = 0
  <2> DEFINE row == [day |-> rescue[i].day, done |-> rescue[i].done, event |-> run[r].event]
  <2>1. row \in RescueType /\ i \in DOMAIN rescue
    BY <1>1, <1>3, <1>5, <1>8, Lengths DEF RescueType
  <2>2. rescue' = [rescue EXCEPT ![i] = row]
    BY <1>8 DEF PersistRescue
  <2>3. \A m \in DOMAIN rescue : rescue'[m] = IF m = i THEN row ELSE rescue[m]
    BY <2>1, <2>2
  <2>4. DOMAIN rescue' = DOMAIN rescue
    BY <2>2
  <2> QED
    BY <1>3, <1>8, <2>1, <2>3, <2>4
<1> QED
  BY <1>6, <1>7, <1>8

\* What a check-in does to the tasks.
LEMMA CheckinIs ==
  ASSUME Sound, NEW r \in Runners, CheckinWrite(r)
  PROVE  /\ run[r].task \in Tasks /\ DOMAIN rescue' = DOMAIN rescue /\ Tasks' = Tasks
         /\ \A i \in DOMAIN rescue : rescue'[i].day = rescue[i].day
         /\ \A i \in DOMAIN rescue : rescue'[i].done <=> rescue[i].done \/ run[r].task = <<"rescue", i>>
         /\ \A t \in Tasks : IsTaskCompleted(t)' <=> IsTaskCompleted(t) \/ run[r].task = t
<1>1. TypeOK /\ run[r] \in Run /\ Knows(r) /\ run[r].at = "complete" /\ run[r].does = "checkin"
  BY DEF Sound, TypeOK, Known, CheckinWrite, At
<1> DEFINE u == run[r].task
<1>2. u \in Tasks
  BY <1>1 DEF Knows
<1>3. CASE u[1] = "plan"
  <2>1. PICK d \in Planned : u = <<"plan", d>>
    BY <1>2, <1>3 DEF Tasks
  <2>2. plan' = [plan EXCEPT ![d] = TRUE] /\ rescue' = rescue
    BY <1>3, <2>1 DEF CheckinWrite
  <2>3. Tasks' = Tasks
    BY <2>2 DEF Tasks
  <2>4. \A e \in Planned : plan'[e] <=> plan[e] \/ e = d
    BY <1>1, <2>2 DEF TypeOK
  <2>5. ASSUME NEW t \in Tasks PROVE IsTaskCompleted(t)' <=> IsTaskCompleted(t) \/ u = t
    <3>1. CASE t[1] = "plan"
      <4>1. PICK e \in Planned : t = <<"plan", e>>
        BY <3>1 DEF Tasks
      <4>2. IsTaskCompleted(t) = plan[e] /\ IsTaskCompleted(t)' = plan'[e] /\ (u = t <=> e = d)
        BY <2>1, <4>1 DEF IsTaskCompleted
      <4> QED
        BY <2>4, <4>2
    <3>2. CASE t[1] # "plan"
      BY <1>3, <2>2, <3>2 DEF IsTaskCompleted
    <3> QED
      BY <3>1, <3>2
  <2>6. \A i : u # <<"rescue", i>>
    BY <2>1
  <2> QED
    BY <1>2, <2>2, <2>3, <2>5, <2>6
<1>4. CASE u[1] # "plan"
  <2>1. PICK i \in DOMAIN rescue : u = <<"rescue", i>>
    BY <1>2, <1>4 DEF Tasks
  <2> DEFINE row == [day |-> rescue[i].day, done |-> TRUE, event |-> rescue[i].event]
  <2>2. rescue' = [rescue EXCEPT ![i] = row] /\ plan' = plan
    BY <1>4, <2>1 DEF CheckinWrite
  <2>3. DOMAIN rescue' = DOMAIN rescue /\ \A k \in DOMAIN rescue : rescue'[k] = IF k = i THEN row ELSE rescue[k]
    BY <2>2
  <2>4. Tasks' = Tasks
    BY <2>3 DEF Tasks
  <2>5. \A k \in DOMAIN rescue : rescue'[k].day = rescue[k].day
    BY <2>3
  <2>6. \A k \in DOMAIN rescue : rescue'[k].done <=> rescue[k].done \/ k = i
    BY <2>3
  <2>7. \A k : u = <<"rescue", k>> <=> k = i
    BY <2>1
  <2>8. ASSUME NEW t \in Tasks PROVE IsTaskCompleted(t)' <=> IsTaskCompleted(t) \/ u = t
    <3>1. CASE t[1] = "plan"
      BY <1>4, <2>2, <3>1 DEF IsTaskCompleted
    <3>2. CASE t[1] # "plan"
      <4>1. PICK k \in DOMAIN rescue : t = <<"rescue", k>>
        BY <3>2 DEF Tasks
      <4>2. IsTaskCompleted(t) = rescue[k].done /\ IsTaskCompleted(t)' = rescue'[k].done /\ (u = t <=> k = i)
        BY <2>7, <4>1 DEF IsTaskCompleted
      <4> QED
        BY <2>6, <4>2
    <3> QED
      BY <3>1, <3>2
  <2> QED
    BY <1>2, <2>3, <2>4, <2>5, <2>6, <2>7, <2>8
<1> QED
  BY <1>3, <1>4

\* The events of the tasks, one by one.
LEMMA TaskEventsAre == \A e : e \in TaskEvents <=>
  \E t \in Tasks :
    \/ e = <<"RESCUE_TASK_CREATED", t>> /\ t[1] = "rescue"
    \/ e = <<"TASK_COMPLETED", t>> /\ IsTaskCompleted(t)
    \/ e = <<"RESCUE_TASK_COMPLETED", t>> /\ t[1] = "rescue" /\ IsTaskCompleted(t)
BY DEF TaskEvents
LEMMA TaskEventsNext == (\A e : e \in TaskEvents <=>
  \E t \in Tasks :
    \/ e = <<"RESCUE_TASK_CREATED", t>> /\ t[1] = "rescue"
    \/ e = <<"TASK_COMPLETED", t>> /\ IsTaskCompleted(t)
    \/ e = <<"RESCUE_TASK_COMPLETED", t>> /\ t[1] = "rescue" /\ IsTaskCompleted(t))'
BY DEF TaskEvents

\* A step of a request or worker that brings more events.
LEMMA StepGrows ==
  ASSUME Sound, Timeline, NEW r \in Runners, Steps(r), goal' = goal,
         NEW X, events' = events \cup X, X \cap Outcomes = {},
         DerivedEvents' = DerivedEvents \cup X
  PROVE  Timeline'
<1>1. Reads(r) /\ Writes(r) /\ Acts(r)
  BY StepsFlow
<1>2. StatusKept /\ TodoKept
  BY <1>1, StepKeeps
<1>3. met' = met
  BY <1>1 DEF Writes
<1> QED
  BY <1>2, <1>3, TimelineGrows

LEMMA PersistTimeline ==
  ASSUME Sound, Timeline, NEW r \in Runners, Steps(r), PersistRescue(r)
  PROVE  Timeline'
<1>0. PICK k : k = IF run[r].found = 0 THEN Len(rescue) + 1 ELSE run[r].found
  OBVIOUS
<1> DEFINE X == {<<"RESCUE_TASK_CREATED", <<"rescue", k>>>>}
<1>1. goal' = goal /\ plan' = plan /\ milestone' = milestone /\ deviation' = deviation /\ artifact' = artifact
      /\ events' = events \cup X
  BY <1>0 DEF PersistRescue, Unchanged, care
<1>2. /\ DOMAIN rescue' = DOMAIN rescue \cup {k}
      /\ \A i \in DOMAIN rescue : rescue'[i].done = rescue[i].done
      /\ k \in DOMAIN rescue \/ rescue'[k].done = FALSE
  BY <1>0, PersistIs
<1>3. X \cap Outcomes = {}
  BY DEF Outcomes, GrowthEvent
<1>4. Tasks' = Tasks \cup {<<"rescue", k>>}
  BY <1>2 DEF Tasks
<1>5. \A t \in Tasks : IsTaskCompleted(t)' = IsTaskCompleted(t)
  BY <1>1, <1>2 DEF IsTaskCompleted, Tasks
<1> DEFINE v == <<"rescue", k>>
<1>6. v[1] = "rescue" /\ (v \in Tasks \/ ~IsTaskCompleted(v)')
  <2>1. CASE k \in DOMAIN rescue
    BY <2>1 DEF Tasks
  <2>2. CASE rescue'[k].done = FALSE
    <3>1. v[1] # "plan" /\ v[2] = k
      OBVIOUS
    <3> QED
      BY <2>2, <3>1 DEF IsTaskCompleted
  <2> QED
    BY <1>2, <2>1, <2>2
<1> HIDE DEF v
<1>7. TaskEvents' = TaskEvents \cup X
  <2>1. Tasks' = Tasks \cup {v} /\ X = {<<"RESCUE_TASK_CREATED", v>>}
    BY <1>4 DEF v
  <2>2. \A e : e \in TaskEvents' => e \in TaskEvents \cup X
    BY <2>1, <1>5, <1>6, TaskEventsAre, TaskEventsNext
  <2>3. \A e : e \in TaskEvents => e \in TaskEvents'
    BY <2>1, <1>5, TaskEventsAre, TaskEventsNext
  <2>4. \A e : e \in X => e \in TaskEvents'
    BY <2>1, <1>6, TaskEventsNext
  <2> QED
    BY <2>2, <2>3, <2>4
<1>8. DerivedEvents' = DerivedEvents \cup X
  BY <1>1, <1>7, DerivedSum, DerivedNext, PartsStay
<1> QED
  BY <1>1, <1>3, <1>8, StepGrows

LEMMA CheckinTimeline ==
  ASSUME Sound, Timeline, NEW r \in Runners, Steps(r), CheckinWrite(r)
  PROVE  Timeline'
<1> DEFINE u == run[r].task
           X == {<<"TASK_COMPLETED", u>>} \cup (IF u[1] = "rescue" THEN {<<"RESCUE_TASK_COMPLETED", u>>} ELSE {})
<1>1. goal' = goal /\ milestone' = milestone /\ deviation' = deviation /\ artifact' = artifact
      /\ events' = events \cup X
  BY DEF CheckinWrite, Unchanged, care
<1>2. u \in Tasks /\ Tasks' = Tasks /\ \A t \in Tasks : IsTaskCompleted(t)' <=> IsTaskCompleted(t) \/ u = t
  BY CheckinIs
<1>3. \A e : e \in X <=> e = <<"TASK_COMPLETED", u>> \/ (e = <<"RESCUE_TASK_COMPLETED", u>> /\ u[1] = "rescue")
  OBVIOUS
<1> HIDE DEF u, X
<1>4. X \cap Outcomes = {}
  BY <1>3 DEF Outcomes, GrowthEvent
<1>5. TaskEvents' = TaskEvents \cup X
  <2>1. \A e : e \in TaskEvents' => e \in TaskEvents \cup X
    BY <1>2, <1>3, TaskEventsAre, TaskEventsNext
  <2>2. \A e : e \in TaskEvents => e \in TaskEvents'
    BY <1>2, TaskEventsAre, TaskEventsNext
  <2>3. \A e : e \in X => e \in TaskEvents'
    BY <1>2, <1>3, TaskEventsAre, TaskEventsNext
  <2> QED
    BY <2>1, <2>2, <2>3
<1>6. DerivedEvents' = DerivedEvents \cup X
  BY <1>1, <1>5, DerivedSum, DerivedNext, PartsStay
<1> QED
  BY <1>1, <1>4, <1>6, StepGrows

\* What a deviation that is found or new leaves of the deviations.
Detected(r) == [day |-> day, reason |-> run[r].reason]
LEMMA DeviateIs ==
  ASSUME Sound, NEW r \in Runners, WriteDeviation(r), NEW e, e = IF run[r].event = 0 THEN Len(deviation) + 1 ELSE run[r].event
  PROVE  /\ run[r].event \in {0} \cup DOMAIN deviation
         /\ DOMAIN deviation' = DOMAIN deviation \cup {e}
         /\ deviation'[e] = Detected(r)
         /\ \A f \in DOMAIN deviation : f # e => deviation'[f] = deviation[f]
         /\ run[r].event = 0 => e \notin DOMAIN deviation
<1>1. TypeOK /\ run[r] \in Run /\ Knows(r) /\ run[r].at = "deviate"
  BY DEF Sound, TypeOK, Known, WriteDeviation, At
<1>2. /\ run[r].event \in Nat /\ run[r].event <= Len(deviation) /\ Len(deviation) \in Nat
      /\ DOMAIN deviation = 1..Len(deviation)
  BY <1>1, Lengths DEF Knows, Run
<1> DEFINE row == [day |-> day, reason |-> run[r].reason]
           S == [day : Days, reason : ReasonSet]
<1>3. row \in S /\ deviation \in Seq(S)
  BY <1>1 DEF Knows, TypeOK
<1>4. deviation' = IF e > Len(deviation) THEN Append(deviation, row) ELSE [deviation EXCEPT ![e] = row]
  BY DEF WriteDeviation
<1> HIDE DEF row, S
<1>5. row = Detected(r)
  BY DEF row, Detected
<1>6. CASE run[r].event = 0
  <2>0. e = Len(deviation) + 1 /\ e > Len(deviation)
    BY <1>2, <1>6
  <2>1. e = Len(deviation) + 1 /\ deviation' = Append(deviation, row)
    BY <1>4, <2>0
  <2>2. /\ DOMAIN deviation' = 1..(Len(deviation) + 1)
        /\ deviation'[Len(deviation) + 1] = row /\ \A f \in 1..Len(deviation) : deviation'[f] = deviation[f]
    BY <1>3, <2>1, SeqIs
  <2> QED
    BY <1>2, <1>6, <2>1, <2>2, <1>5
<1>7. CASE run[r].event # 0
  <2>0. e = run[r].event /\ e \in DOMAIN deviation /\ ~(e > Len(deviation))
    BY <1>2, <1>7
  <2>1. e = run[r].event /\ e \in DOMAIN deviation /\ deviation' = [deviation EXCEPT ![e] = row]
    BY <1>4, <2>0
  <2> QED
    BY <2>1, <1>7, <1>5
<1> QED
  BY <1>6, <1>7

LEMMA DeviateTimeline ==
  ASSUME Sound, Timeline, NEW r \in Runners, Steps(r), WriteDeviation(r)
  PROVE  Timeline'
<1>0. PICK e : e = IF run[r].event = 0 THEN Len(deviation) + 1 ELSE run[r].event
  OBVIOUS
<1> DEFINE X == {<<"DEVIATION_DETECTED", e>>}
<1>1. goal' = goal /\ plan' = plan /\ rescue' = rescue /\ milestone' = milestone /\ artifact' = artifact
      /\ events' = events \cup X
  BY <1>0 DEF WriteDeviation, Unchanged, tasks
<1>2. DOMAIN deviation' = DOMAIN deviation \cup {e}
  BY <1>0, DeviateIs
<1>3. X \cap Outcomes = {}
  BY DEF Outcomes, GrowthEvent
<1>4. DeviationEvents' = DeviationEvents \cup X
  BY <1>2 DEF DeviationEvents
<1>5. DerivedEvents' = DerivedEvents \cup X
  BY <1>1, <1>4, DerivedSum, DerivedNext, PartsStay
<1> QED
  BY <1>1, <1>3, <1>5, StepGrows

\* A report that is stored is one.
LEMMA PublishIs ==
  ASSUME Sound, NEW r \in Runners, TrendWrite(r)
  PROVE  \/ UNCHANGED <<artifact, events>>
         \/ /\ <<run[r].kind, run[r].day>> \in Trends \X Days
            /\ artifact' = [artifact EXCEPT ![<<run[r].kind, run[r].day>>] = run[r].trend]
            /\ events' = events \cup {<<"REPORT_GENERATED", <<run[r].kind, run[r].day>>>>}
            /\ Published' = Published \cup {<<run[r].kind, run[r].day>>}
<1>1. /\ <<run[r].does, run[r].at>> \in Ways /\ TypeOK /\ run[r] \in Run /\ Knows(r) /\ run[r].at = "publish"
  BY DEF Sound, Who, TypeOK, Known, TrendWrite, At
<1>2. run[r].does \in {"trend", "trendJob"}
  BY <1>1 DEF Ways
<1> DEFINE p == <<run[r].kind, run[r].day>>
<1>3. p \in Trends \X Days /\ run[r].trend \in Trend
  BY <1>1, <1>2 DEF Knows, Run
<1>4. run[r].trend # Absent
  BY <1>3 DEF Trend, Absent, NoHealth
<1>5. artifact \in [Trends \X Days -> Trend \cup {Absent}]
  BY <1>1 DEF TypeOK
<1>6. ASSUME artifact' = [artifact EXCEPT ![p] = run[r].trend] PROVE Published' = Published \cup {p}
  BY <1>3, <1>4, <1>5, <1>6 DEF Published, Absent
<1> QED
  BY <1>3, <1>6 DEF TrendWrite

LEMMA PublishTimeline ==
  ASSUME Sound, Timeline, NEW r \in Runners, Steps(r), TrendWrite(r)
  PROVE  Timeline'
<1>0. PICK p : p = <<run[r].kind, run[r].day>>
  OBVIOUS
<1>1. goal' = goal /\ plan' = plan /\ rescue' = rescue /\ milestone' = milestone /\ deviation' = deviation
  BY DEF TrendWrite, tasks, care
<1>2. CASE UNCHANGED <<artifact, events>>
  <2>1. DerivedEvents' = DerivedEvents \cup {}
    BY <1>1, <1>2, DerivedSum, DerivedNext, PartsStay
  <2> QED
    BY <1>1, <1>2, <2>1, StepGrows
<1>3. CASE events' = events \cup {<<"REPORT_GENERATED", p>>} /\ Published' = Published \cup {p}
  <2> DEFINE X == {<<"REPORT_GENERATED", p>>}
  <2>1. ReportEvents' = ReportEvents \cup X
    BY <1>3 DEF ReportEvents
  <2>2. X \cap Outcomes = {}
    BY DEF Outcomes, GrowthEvent
  <2>3. DerivedEvents' = DerivedEvents \cup X
    BY <1>1, <2>1, DerivedSum, DerivedNext, PartsStay
  <2> QED
    BY <1>1, <1>3, <2>2, <2>3, StepGrows
<1> QED
  BY <1>0, <1>2, <1>3, PublishIs

LEMMA BackfillTimeline ==
  ASSUME Sound, Timeline, NEW r \in Runners, Steps(r), BackfillWrite(r)
  PROVE  Timeline'
<1>1. /\ <<run[r].does, run[r].at>> \in Ways /\ TypeOK /\ run[r] \in Run /\ Knows(r) /\ run[r].at = "events"
  BY DEF Sound, Who, TypeOK, Known, BackfillWrite, At
<1>2. run[r].does = "backfill"
  BY <1>1 DEF Ways
<1>3. run[r].todo \in Seq(SUBSET Event) /\ run[r].todo # <<>>
  BY <1>1, <1>2 DEF Knows, Run
<1>4. 1 \in DOMAIN run[r].todo /\ Head(run[r].todo) = run[r].todo[1]
  BY <1>3
<1> DEFINE X == run[r].todo[1]
<1>5. "settlement" \notin met => X \cap Outcomes \subseteq GrowthEvent(goal.status)
  BY <1>2, <1>4 DEF Timeline, SettlesWhatIs
<1>6. met \cap {"settlement", "timeline"} = {} => X \subseteq DerivedEvents
  BY <1>2, <1>4 DEF Timeline, BringsWhatIs
<1>7. events' = events \cup X /\ UNCHANGED <<goal, milestone, plan, rescue, deviation, artifact>>
  BY <1>4 DEF BackfillWrite, Unchanged, tasks, care
<1>8. DerivedEvents' = DerivedEvents
  BY <1>7, DerivedSum, DerivedNext, PartsStay
<1>9. Reads(r) /\ Writes(r) /\ Acts(r)
  BY StepsFlow
<1>10. StatusKept /\ TodoKept /\ met' = met
  BY <1>9, StepKeeps DEF Writes
<1> HIDE DEF X
<1> QED
  BY <1>5, <1>6, <1>7, <1>8, <1>10, TimelineGrows

LEMMA MilestoneTimeline ==
  ASSUME Sound, Timeline, NEW r \in Runners, Steps(r), MilestoneWrite(r)
  PROVE  Timeline'
<1>1. run[r].at = "complete" /\ run[r].does = "milestone" /\ Overlap /\ Who
  BY DEF Sound, MilestoneWrite, At
<1>2. UNCHANGED <<goal, plan, rescue, deviation, artifact>>
  BY DEF MilestoneWrite, Unchanged, tasks, care
<1>3. MilestoneReached' = MilestoneReached /\ MilestoneReached \cap Outcomes = {}
  BY DEF MilestoneReached, Outcomes, GrowthEvent
<1>4. CASE run[r].found = 1
  <2>1. events' = events \cup MilestoneReached /\ milestone' = TRUE
    BY <1>4 DEF MilestoneWrite
  <2>2. MilestoneEvents' = MilestoneReached /\ MilestoneEvents \subseteq MilestoneReached
    BY <1>3, <2>1 DEF MilestoneEvents
  <2>3. DerivedEvents' = DerivedEvents \cup MilestoneReached
    BY <1>2, <2>2, DerivedSum, DerivedNext, PartsStay
  <2> QED
    BY <1>2, <1>3, <2>1, <2>3, StepGrows
<1>5. CASE run[r].found # 1
  <2> DEFINE G == GrowthEvent(goal.status)
             M == MilestoneReached
             R == TaskEvents \cup DeviationEvents \cup ReportEvents
  <2>1. events' = events \ M /\ milestone' = FALSE
    BY <1>5 DEF MilestoneWrite
  <2>2. MilestoneEvents' = {} /\ MilestoneEvents \subseteq M
    BY <1>3, <2>1 DEF MilestoneEvents
  <2>3. Reads(r) /\ Writes(r) /\ Acts(r)
    BY StepsFlow
  <2>4. StatusKept /\ TodoKept /\ met' = met
    BY <2>3, StepKeeps DEF Writes
  <2>5. G' = G /\ Outcomes' = Outcomes
    BY <1>2, PartsStay DEF Outcomes, GrowthEvent
  <2>6. G \cap M = {} /\ R \cap M = {}
    <3>1. G \cap M = {}
      BY <1>3, DerivedSum
    <3>2. \A e \in M : e = <<"MILESTONE_REACHED", 0>>
      BY DEF MilestoneReached
    <3>3. <<"MILESTONE_REACHED", 0>> \notin TaskEvents
      BY TaskEventsAre
    <3>4. <<"MILESTONE_REACHED", 0>> \notin DeviationEvents
      BY DEF DeviationEvents
    <3>5. <<"MILESTONE_REACHED", 0>> \notin ReportEvents
      BY DEF ReportEvents
    <3> QED
      BY <3>1, <3>2, <3>3, <3>4, <3>5
  <2>7. DerivedEvents' = G \cup R /\ DerivedEvents = G \cup MilestoneEvents \cup R
    BY <1>2, <2>2, <2>5, DerivedSum, DerivedNext, PartsStay
  <2> HIDE DEF G, M, R
  <2>8. OutcomeRecorded'
    <3>1. G \subseteq events /\ ("settlement" \notin met => events \cap Outcomes = G)
      BY DEF Timeline, OutcomeRecorded, G, Outcomes
    <3>2. M \cap Outcomes = {}
      BY <1>3 DEF M
    <3>3. G \subseteq events' /\ ("settlement" \notin met => events' \cap Outcomes = G)
      BY <3>1, <3>2, <2>1, <2>6
    <3> QED
      BY <3>3, <2>4, <2>5 DEF OutcomeRecorded, G, Outcomes
  <2>9. EventsDerived'
    BY <2>1, <2>2, <2>4, <2>6, <2>7 DEF EventsDerived, Timeline
  <2>10. SettlesWhatIs'
    <3> SUFFICES ASSUME "settlement" \notin met', NEW q \in Runners
                 PROVE  /\ run'[q].at \in {"tasks", "settle"} => run'[q].status = goal'.status
                        /\ run'[q].does = "backfill" =>
                             \A i \in DOMAIN run'[q].todo : run'[q].todo[i] \cap Outcomes' \subseteq GrowthEvent(goal.status)'
      BY DEF SettlesWhatIs
    <3>1. run'[q].at \in {"tasks", "settle"} => run'[q].status = goal'.status
      BY <1>2, <2>4 DEF StatusKept, Timeline, SettlesWhatIs
    <3>2. ASSUME run'[q].does = "backfill", NEW i \in DOMAIN run'[q].todo
          PROVE  run'[q].todo[i] \cap Outcomes \subseteq GrowthEvent(goal.status)
      BY <2>4, <3>2, TodoSeen
    <3> QED
      BY <2>5, <3>1, <3>2 DEF G
  <2>11. BringsWhatIs'
    <3> SUFFICES ASSUME "timeline" \notin met', NEW q \in Runners, run'[q].does = "backfill"
                 PROVE  FALSE
      BY DEF BringsWhatIs
    <3>1. q # r /\ run'[q] = run[q]
      BY <1>1, <2>3 DEF Reads, Idle
    <3>2. run[q].at # "idle"
      BY <1>1, <3>1, WaysIdle DEF Who
    <3>3. Meeting("milestone", "backfill") \subseteq met
      BY <1>1, <3>1, <3>2 DEF Overlap
    <3>4. "timeline" \in Meeting("milestone", "backfill")
      BY DEF Meeting, Areas
    <3> QED
      BY <2>4, <3>3, <3>4
  <2> QED
    BY <2>8, <2>9, <2>10, <2>11 DEF Timeline
<1> QED
  BY <1>4, <1>5

\* The status of the goal moves on, with its event.
LEMMA TimelineTurns ==
  ASSUME Timeline, TodoKept, met \subseteq met', UNCHANGED <<milestone, plan, rescue, deviation, artifact>>,
         events' = events \cup GrowthEvent(goal.status)',
         "settlement" \notin met' =>
           /\ GrowthEvent(goal.status) \subseteq GrowthEvent(goal.status)'
           /\ \A q \in Runners : run'[q].at \in {"tasks", "settle"} => run'[q].status = goal'.status
  PROVE  Timeline'
<1> DEFINE G == GrowthEvent(goal.status)
           R == MilestoneEvents \cup TaskEvents \cup DeviationEvents \cup ReportEvents
<1>1. Outcomes' = Outcomes /\ G' \subseteq Outcomes
  BY DEF Outcomes, GrowthEvent
<1>2. DerivedEvents = G \cup R /\ DerivedEvents' = G' \cup R
  BY DerivedSum, DerivedNext, PartsStay
<1>3. OutcomeRecorded'
  <2>1. "settlement" \notin met => events \cap Outcomes = G
    BY DEF Timeline, OutcomeRecorded, Outcomes
  <2>2. "settlement" \notin met' => events' \cap Outcomes = G'
    <3> HIDE DEF G
    <3> QED
      BY <1>1, <2>1 DEF G
  <2> QED
    BY <1>1, <2>2 DEF OutcomeRecorded, Outcomes
<1>4. EventsDerived'
  BY <1>2 DEF EventsDerived, Timeline
<1>5. ASSUME NEW q \in Runners, run'[q].does = "backfill", NEW i \in DOMAIN run'[q].todo
      PROVE  /\ "settlement" \notin met' => run'[q].todo[i] \cap Outcomes \subseteq G'
             /\ met' \cap {"settlement", "timeline"} = {} => run'[q].todo[i] \subseteq DerivedEvents'
  <2>1. /\ "settlement" \notin met => run'[q].todo[i] \cap Outcomes \subseteq G
        /\ met \cap {"settlement", "timeline"} = {} => run'[q].todo[i] \subseteq DerivedEvents
    BY <1>5, TodoSeen
  <2> HIDE DEF G, R
  <2>2. "settlement" \notin met' => G \subseteq G'
    BY DEF G
  <2> QED
    BY <1>2, <2>1, <2>2
<1>6. SettlesWhatIs'
  BY <1>1, <1>5 DEF SettlesWhatIs
<1>7. BringsWhatIs'
  BY <1>5 DEF BringsWhatIs
<1> QED
  BY <1>3, <1>4, <1>6, <1>7 DEF Timeline

\* Whoever is about to settle does so.
LEMMA SettlersAre == ASSUME Sound, NEW q \in Runners, run[q].at \in {"tasks", "settle"} PROVE run[q].does \in {"settle", "get"}
<1>1. <<run[q].does, run[q].at>> \in Ways
  BY DEF Sound, Who
<1> QED
  BY <1>1 DEF Ways

LEMMA SettleTimeline ==
  ASSUME Sound, Timeline, NEW r \in Runners, Steps(r), SettleWrite(r)
  PROVE  Timeline'
<1>1. run[r].at = "settle" /\ run[r].does \in {"settle", "get"} /\ Overlap /\ goal.status \in Status
  BY SettlersAre DEF Sound, SettleWrite, At, TypeOK
<1> DEFINE next == Settled(run[r].status, run[r].count, run[r].day)
<1>2. goal'.status = next /\ events' = events \cup GrowthEvent(next)
      /\ UNCHANGED <<milestone, plan, rescue, deviation, artifact>>
  BY DEF SettleWrite, Unchanged, tasks, care
<1>3. GrowthEvent(goal.status)' = GrowthEvent(next)
  BY <1>2 DEF GrowthEvent
<1>4. Reads(r) /\ Writes(r) /\ Acts(r)
  BY StepsFlow
<1>5. TodoKept /\ met' = met
  BY <1>4, StepKeeps DEF Writes
<1>6. ASSUME "settlement" \notin met PROVE GrowthEvent(goal.status) \subseteq GrowthEvent(next)
  <2>1. run[r].status = goal.status
    BY <1>1, <1>6 DEF Timeline, SettlesWhatIs
  <2>2. next = goal.status \/ goal.status = "ACTIVE"
    BY <2>1 DEF Settled
  <2> QED
    BY <2>2 DEF GrowthEvent
<1>7. ASSUME "settlement" \notin met, NEW q \in Runners, run'[q].at \in {"tasks", "settle"} PROVE FALSE
  <2>1. CASE q = r
    BY <1>1, <1>4, <1>7, <2>1 DEF Reads, Flow, Idle
  <2>2. CASE q # r
    <3>1. run[q].does \in {"settle", "get"} /\ run[q].at # "idle"
      BY <1>4, <1>7, <2>2, SettlersAre DEF Reads
    <3>2. Meeting(run[q].does, run[r].does) \subseteq met
      BY <1>1, <2>2, <3>1 DEF Overlap
    <3>3. "settlement" \in Meeting(run[q].does, run[r].does)
      BY <1>1, <3>1 DEF Meeting, Areas
    <3> QED
      BY <1>7, <3>2, <3>3
  <2> QED
    BY <2>1, <2>2
<1> HIDE DEF next
<1> QED
  BY <1>2, <1>3, <1>5, <1>6, <1>7, TimelineTurns

LEMMA ConfirmTimeline == ASSUME Sound, Timeline, Confirm PROVE Timeline'
<1>1. goal.status = "DRAFT" /\ goal'.status = "ACTIVE" /\ run' = run
      /\ UNCHANGED <<milestone, plan, rescue, deviation, artifact, events>>
  BY DEF Confirm, tasks, care, timeline
<1>2. GrowthEvent(goal.status) = {} /\ GrowthEvent(goal.status)' = {}
  BY <1>1 DEF GrowthEvent
<1>3. met \subseteq met'
  BY DEF Confirm
<1>4. ASSUME "settlement" \notin met', NEW q \in Runners, run'[q].at \in {"tasks", "settle"} PROVE FALSE
  <2>1. run[q].does \in {"settle", "get"} /\ q \in Busy
    BY <1>1, <1>4, SettlersAre DEF Busy
  <2> QED
    BY <1>4, <2>1 DEF Confirm
<1> QED
  BY <1>1, <1>2, <1>3, <1>4, OthersKeep, TimelineTurns

LEMMA TimelineNext == ASSUME Sound, Timeline, [Next]_vars PROVE Timeline'
<1>1. ASSUME NEW r \in Runners, Steps(r) PROVE Timeline'
  <2>1. Reads(r) /\ Writes(r) /\ Acts(r)
    BY <1>1, StepsFlow
  <2>2. StatusKept /\ TodoKept
    BY <2>1, StepKeeps
  <2>3. CareFails(r) => Timeline'
    BY <2>1, <2>2, TimelineStays DEF CareFails, Unchanged, tasks, care, timeline, Writes
  <2> QED
    BY <1>1, <2>1, <2>3, TimelineQuiet, PersistTimeline, CheckinTimeline, DeviateTimeline, PublishTimeline,
       BackfillTimeline, MilestoneTimeline, SettleTimeline DEF Acts
<1> QED
  BY <1>1, NextFlow, TimelineQuiet, ConfirmTimeline

LEMMA TimelineInit == Init => Timeline
<1> SUFFICES ASSUME Init PROVE Timeline
  OBVIOUS
<1>1. goal.status = "DRAFT" /\ events = {} /\ rescue = <<>> /\ deviation = <<>> /\ milestone = FALSE
  BY DEF Init
<1>2. \A r \in Runners : run[r].at = "idle" /\ run[r].does = "none"
  BY DEF Init, Idle
<1>3. GrowthEvent(goal.status) = {} /\ MilestoneEvents = {} /\ DeviationEvents = {}
  BY <1>1 DEF GrowthEvent, MilestoneEvents, DeviationEvents
<1>4. TaskEvents = {}
  <2>1. DOMAIN rescue = {}
    BY <1>1
  <2>2. \A t \in Tasks : t[1] = "plan" /\ t[2] \in Planned
    BY <2>1 DEF Tasks
  <2>3. \A t \in Tasks : ~IsTaskCompleted(t)
    BY <2>2 DEF IsTaskCompleted, Init
  <2>4. \A e : e \notin TaskEvents
    BY <2>2, <2>3, TaskEventsAre
  <2> QED
    BY <2>4
<1>5. ReportEvents = {}
  BY DEF Init, ReportEvents, Published
<1>6. DerivedEvents = {}
  BY <1>3, <1>4, <1>5, DerivedSum
<1> QED
  BY <1>1, <1>2, <1>3, <1>6 DEF Timeline, OutcomeRecorded, EventsDerived, SettlesWhatIs, BringsWhatIs

(***************************************************************************)
(* Trend reports.                                                          *)
(***************************************************************************)
\* Averages are those of the snapshots.
LEMMA TrendsStay ==
  snapshot' = snapshot =>
    \A k, d : TrendAverage(k, d)' = TrendAverage(k, d) /\ TrendPrevious(k, d)' = TrendPrevious(k, d)
BY DEF TrendAverage, TrendPrevious, Average

\* What q has read of the trend is so.
Trendy(q) ==
  /\ run[q].at \in {"previous", "publish"} => run[q].trend.average = TrendAverage(run[q].kind, run[q].day)
  /\ run[q].at = "publish" => run[q].trend.previous = TrendPrevious(run[q].kind, run[q].day)

LEMMA TrendyKept ==
  ASSUME NEW q \in Runners, snapshot' = snapshot,
         /\ run'[q].at \in {"previous", "publish"} => run'[q].trend.average = TrendAverage(run'[q].kind, run'[q].day)
         /\ run'[q].at = "publish" => run'[q].trend.previous = TrendPrevious(run'[q].kind, run'[q].day)
  PROVE  Trendy(q)'
<1>1. PICK k : k = run'[q].kind
  OBVIOUS
<1>2. PICK d : d = run'[q].day
  OBVIOUS
<1>3. TrendAverage(k, d)' = TrendAverage(k, d) /\ TrendPrevious(k, d)' = TrendPrevious(k, d)
  BY TrendsStay
<1> QED
  BY <1>1, <1>2, <1>3 DEF Trendy, TrendAverage, TrendPrevious, Average

\* Whoever writes a snapshot or reads the trend is known.
LEMMA TrendersAre ==
  ASSUME Sound, NEW q \in Runners
  PROVE  /\ run[q].at \in {"range", "previous", "publish"} => run[q].does \in {"trend", "trendJob"}
         /\ run[q].at = "snapshot" => run[q].does \in {"health", "healthJob"}
<1>1. <<run[q].does, run[q].at>> \in Ways
  BY DEF Sound, Who
<1> QED
  BY <1>1 DEF Ways

LEMMA TrendSteps ==
  ASSUME Sound, TrendSeen, NEW r \in Runners, Steps(r), "trend" \notin met, NEW q \in Runners
  PROVE  Trendy(q)'
<1>1. Reads(r) /\ Writes(r) /\ Acts(r) /\ run[r] \in Run /\ Overlap
  BY StepsFlow DEF Sound, TypeOK
<1>2. Trendy(q)
  BY DEF TrendSeen, Trendy
<1>3. CASE snapshot' = snapshot /\ q # r
  BY <1>1, <1>2, <1>3, TrendyKept DEF Reads, Trendy
<1>4. CASE snapshot' # snapshot
  <2>1. WriteSnapshot(r) /\ run[r].at = "snapshot"
    BY <1>1, <1>4 DEF Writes, Acts, CareFails, care
  <2>2. q # r => run[q].at \notin {"previous", "publish"}
    <3> SUFFICES ASSUME q # r, run[q].at \in {"previous", "publish"} PROVE FALSE
      OBVIOUS
    <3>1. run[q].does \in {"trend", "trendJob"} /\ run[r].does \in {"health", "healthJob"}
      BY <2>1, TrendersAre
    <3>2. Meeting(run[q].does, run[r].does) \subseteq met
      BY <1>1, <2>1 DEF Overlap
    <3>3. "trend" \in Meeting(run[q].does, run[r].does)
      BY <3>1 DEF Meeting, Areas
    <3> QED
      BY <3>2, <3>3
  <2>3. run'[q].at \notin {"previous", "publish"}
    BY <1>1, <2>1, <2>2 DEF Reads, Flow, Idle
  <2> QED
    BY <2>3 DEF Trendy
<1>5. CASE snapshot' = snapshot /\ q = r
  <2> SUFFICES ASSUME run'[r].at \in {"previous", "publish"} PROVE Trendy(r)'
    BY <1>5 DEF Trendy
  <2>1. run[r].at \in {"range", "previous"}
    BY <1>1 DEF Reads, Flow, Idle
  <2>2. CASE TrendRead(r)
    <3> DEFINE n == [run[r] EXCEPT !.at = "previous", !.day = day,
                       !.trend = [average |-> TrendAverage(run[r].kind, day), previous |-> NoHealth]]
    <3>1. run'[r] = n
      BY <2>2, MoveIs DEF TrendRead
    <3>2. n.at = "previous" /\ n.kind = run[r].kind /\ n.day = day /\ n.trend.average = TrendAverage(run[r].kind, day)
      BY <1>1 DEF Run
    <3> QED
      BY <1>5, <3>1, <3>2, TrendyKept
  <2>3. CASE TrendReadPrevious(r)
    <3> DEFINE n == [run[r] EXCEPT !.at = "publish",
                 !.trend = [average |-> run[r].trend.average, previous |-> TrendPrevious(run[r].kind, run[r].day)]]
    <3>1. run'[r] = n /\ run[r].at = "previous"
      BY <2>3, MoveIs DEF TrendReadPrevious, At
    <3>2. /\ n.at = "publish" /\ n.kind = run[r].kind /\ n.day = run[r].day
          /\ n.trend.average = run[r].trend.average /\ n.trend.previous = TrendPrevious(run[r].kind, run[r].day)
      BY <1>1 DEF Run
    <3>3. run[r].trend.average = TrendAverage(run[r].kind, run[r].day)
      BY <1>2, <1>5, <3>1 DEF Trendy
    <3> QED
      BY <1>5, <3>1, <3>2, <3>3, TrendyKept
  <2>4. ~CareFails(r)
    <3> SUFFICES ASSUME CareFails(r) PROVE FALSE
      OBVIOUS
    <3>1. Goes(r, "fail")
      BY DEF CareFails
    <3>2. run'[r] = [run[r] EXCEPT !.at = "fail"]
      BY <3>1, GoIs
    <3>3. run'[r].at = "fail"
      BY <1>1, <3>2 DEF Run
    <3> QED
      BY <1>5, <3>3
  <2> QED
    BY <1>1, <2>1, <2>2, <2>3, <2>4 DEF Acts
<1> QED
  BY <1>3, <1>4, <1>5

LEMMA TrendNext == ASSUME Sound, TrendSeen, [Next]_vars PROVE TrendSeen'
<1> SUFFICES ASSUME "trend" \notin met', NEW q \in Runners PROVE Trendy(q)'
  BY DEF TrendSeen, Trendy
<1>1. ASSUME NEW r \in Runners, Steps(r) PROVE Trendy(q)'
  <2>1. met' = met
    BY <1>1, StepsFlow DEF Writes
  <2> QED
    BY <1>1, <2>1, TrendSteps
<1>2. ASSUME met \subseteq met', snapshot' = snapshot, run'[q] = run[q] PROVE Trendy(q)'
  <2>1. Trendy(q)
    BY <1>2 DEF TrendSeen, Trendy
  <2> QED
    BY <1>2, <2>1, TrendyKept DEF Trendy
<1>3. ASSUME NEW r \in Runners, Starting(r) PROVE Trendy(q)'
  <2>1. snapshot' = snapshot /\ met \subseteq met'
    BY <1>3 DEF Starting, Facts
  <2>2. CASE q = r
    <3>1. /\ run'[q].at # "publish"
          /\ run'[q].at = "previous" => run'[q].trend.average = TrendAverage(run'[q].kind, run'[q].day)
      BY <1>3, <2>2 DEF Starting, Begun
    <3> QED
      BY <2>1, <3>1, TrendyKept
  <2>3. CASE q # r
    BY <1>2, <1>3, <2>1, <2>3 DEF Starting
  <2> QED
    BY <2>2, <2>3
<1>4. ASSUME NEW r \in Runners, Leaving(r) PROVE Trendy(q)'
  <2>1. CASE q = r
    BY <1>4, <2>1 DEF Leaving, Trendy, Idle
  <2>2. CASE q # r
    BY <1>2, <1>4, <2>2 DEF Leaving, Facts
  <2> QED
    BY <2>1, <2>2
<1>5. Resting \/ Confirm => Trendy(q)'
  BY <1>2 DEF Resting, Facts, Confirm, care
<1> QED
  BY <1>1, <1>3, <1>4, <1>5, NextFlow

\* Twice the days of a report back is the average of as many days before.
LEMMA TrendReadIs == ASSUME Sound, TrendSeen PROVE TrendIsRead
<1> SUFFICES ASSUME NEW r \in Runners, run[r].at = "publish", "trend" \notin met
             PROVE  LET last == run[r].day
                        days == TrendDays[run[r].kind]
                        both == [average |-> TrendAverage(run[r].kind, last),
                                 previous |-> TrendAverage(run[r].kind, last - days)]
                    IN Direction(run[r].trend) = Direction(both) /\ run[r].trend.average = both.average
  BY DEF TrendIsRead, At
<1>1. run[r] \in Run /\ Knows(r) /\ run[r].does \in {"trend", "trendJob"}
  BY TrendersAre DEF Sound, TypeOK, Known
<1>2. run[r].trend \in Trend /\ run[r].day \in Int /\ TrendDays[run[r].kind] \in Int
  <2>1. run[r].trend \in Trend /\ run[r].day \in Days /\ run[r].kind \in Trends
    BY <1>1 DEF Run, Knows
  <2>2. \A t \in Trends : TrendDays[t] \in Nat \ {0}
    BY Constant
  <2>3. TrendDays[run[r].kind] \in Int
    BY <2>1, <2>2
  <2>4. run[r].day \in Int
    BY <2>1 DEF Days
  <2> QED
    BY <2>1, <2>3, <2>4
<1>3. /\ run[r].trend.average = TrendAverage(run[r].kind, run[r].day)
      /\ run[r].trend.previous = TrendPrevious(run[r].kind, run[r].day)
  BY DEF TrendSeen
<1> DEFINE last == run[r].day
           days == TrendDays[run[r].kind]
<1>4. TrendAverage(run[r].kind, last - days) = TrendPrevious(run[r].kind, last)
  <2>1. last - days - days + 1 = last - 2 * days + 1
    BY <1>2
  <2> QED
    BY <2>1 DEF TrendAverage, TrendPrevious
<1>5. run[r].trend = [average |-> TrendAverage(run[r].kind, last), previous |-> TrendAverage(run[r].kind, last - days)]
  BY <1>2, <1>3, <1>4 DEF Trend
<1> QED
  BY <1>3, <1>5

(***************************************************************************)
(* Jobs.                                                                   *)
(***************************************************************************)
\* A job is added, or one changes its status.
Added(s, t) ==
  /\ DOMAIN job' = DOMAIN job \cup {Len(job) + 1} /\ Len(job) + 1 \notin DOMAIN job
  /\ \A k \in DOMAIN job : job'[k] = job[k]
  /\ job'[Len(job) + 1].status = s /\ job'[Len(job) + 1].type = t
Changed(j, s) ==
  /\ j \in DOMAIN job /\ DOMAIN job' = DOMAIN job /\ \A k \in DOMAIN job : k # j => job'[k] = job[k]
  /\ job'[j].status = s /\ job'[j].type = job[j].type

LEMMA ChangedIs ==
  ASSUME TypeOK, NEW j \in DOMAIN job, NEW t, t = job[j].type, NEW s, NEW tries,
         job' = [job EXCEPT ![j] = [type |-> t, status |-> s, tries |-> tries]]
  PROVE  Changed(j, s)
<1> DEFINE row == [type |-> t, status |-> s, tries |-> tries]
<1>1. job' = [job EXCEPT ![j] = row] /\ row.type = job[j].type /\ row.status = s
  OBVIOUS
<1> HIDE DEF row
<1>2. DOMAIN job' = DOMAIN job /\ job'[j] = row /\ \A k \in DOMAIN job : k # j => job'[k] = job[k]
  BY <1>1
<1> QED
  BY <1>1, <1>2 DEF Changed

LEMMA AddedIs ==
  ASSUME TypeOK, NEW t \in JobType, NEW s \in JobStatus, NEW tries \in Nat,
         job' = Append(job, [type |-> t, status |-> s, tries |-> tries])
  PROVE  Added(s, t)
<1> DEFINE S == [type : JobType, status : JobStatus, tries : Nat]
           row == [type |-> t, status |-> s, tries |-> tries]
<1>1. job \in Seq(S) /\ row \in S /\ job' = Append(job, row) /\ row.type = t /\ row.status = s
  BY DEF TypeOK
<1> HIDE DEF S, row
<1>2. /\ DOMAIN job' = 1..(Len(job) + 1) /\ DOMAIN job = 1..Len(job) /\ Len(job) \in Nat
      /\ job'[Len(job) + 1] = row /\ \A k \in DOMAIN job : job'[k] = job[k]
  BY <1>1, SeqIs
<1>3. DOMAIN job' = DOMAIN job \cup {Len(job) + 1} /\ Len(job) + 1 \notin DOMAIN job
  BY <1>2
<1> QED
  BY <1>1, <1>2, <1>3 DEF Added

\* What a step does to the jobs.
JobStep(r) ==
  \/ job' = job
  \/ run[r].at = "create" /\ Added("QUEUED", JobTypeOf(r))
  \/ run[r].at = "recorded" /\ run[r].found = 0 /\ \E t \in JobType : Added("SUCCEEDED", t)
  \/ run[r].at = "recorded" /\ run[r].found # 0 /\ Changed(run[r].found, "SUCCEEDED") /\ run'[r] = Idle
  \/ /\ run[r].does \in Jobs \cup {"cancel", "admin"}
     /\ \E s \in JobStatus : Changed(run[r].job, s) /\ (run'[r] = Idle \/ s \in Active)

LEMMA JobStepIs == ASSUME Sound, NEW r \in Runners, Steps(r) PROVE JobStep(r)
<1>1. /\ <<run[r].does, run[r].at>> \in Ways /\ TypeOK /\ run[r] \in Run /\ Knows(r)
  BY DEF Sound, Who, TypeOK, Known
<1>2. Reads(r) /\ Writes(r) /\ Acts(r)
  BY StepsFlow
<1>3. CASE run[r].at = "create"
  <2>1. run[r].does \in {"settle", "get", "rescue", "report", "later"}
    BY <1>1, <1>3 DEF Ways
  <2>2. JobTypeOf(r) \in JobType
    BY <1>1, <2>1 DEF JobTypeOf, JobType, Knows
  <2>3. PICK t : t = JobTypeOf(r)
    OBVIOUS
  <2>4. job' = Append(job, [type |-> t, status |-> "QUEUED", tries |-> 0])
    BY <1>2, <1>3, <2>3 DEF Acts, CreateJob
  <2>5. Added("QUEUED", t)
    BY <1>1, <2>2, <2>3, <2>4, AddedIs DEF JobStatus
  <2> QED
    BY <1>3, <2>3, <2>5 DEF JobStep
<1>4. CASE run[r].at = "recorded"
  <2>1. RecordWrite(r) /\ run'[r] = Idle
    BY <1>2, <1>4, EndIs DEF Acts, RecordWrite, Returns
  <2> DEFINE type == IF run[r].does = "rescue" THEN "RESCUE" ELSE "FAILURE"
  <2>2. PICK t \in JobType : t = type
    BY DEF JobType
  <2>3. CASE run[r].found = 0
    <3>1. job' = Append(job, [type |-> t, status |-> "SUCCEEDED", tries |-> 1])
      BY <2>1, <2>2, <2>3 DEF RecordWrite
    <3>2. Added("SUCCEEDED", t)
      BY <1>1, <3>1, AddedIs DEF JobStatus
    <3> QED
      BY <1>4, <2>3, <3>2 DEF JobStep
  <2>4. CASE run[r].found # 0
    <3>1. run[r].found \in DOMAIN job /\ job[run[r].found].type = t
      BY <1>1, <1>4, <2>2, <2>4 DEF Knows
    <3>2. job' = [job EXCEPT ![run[r].found] = [type |-> t, status |-> "SUCCEEDED", tries |-> 1]]
      BY <2>1, <2>2, <2>4 DEF RecordWrite
    <3>3. Changed(run[r].found, "SUCCEEDED")
      BY <1>1, <3>1, <3>2, ChangedIs
    <3> QED
      BY <1>4, <2>1, <2>4, <3>3 DEF JobStep
  <2> QED
    BY <2>3, <2>4
<1>5. CASE run[r].at \in {"attempt", "retry", "fail", "succeed", "running", "cancel", "requeued"}
  <2>1. run[r].does \in Jobs \cup {"cancel", "admin"}
    BY <1>1, <1>5 DEF Ways, Jobs
  <2> DEFINE j == run[r].job
  <2>2. j \in DOMAIN job
    BY <2>1, HasJob
  <2> HIDE DEF j
  <2>3. \A s \in JobStatus : \A n : job' = [job EXCEPT ![j] = [type |-> job[j].type, status |-> s, tries |-> n]] => Changed(j, s)
    BY <1>1, <2>2, ChangedIs
  <2>4. \A s \in JobStatus : JobBecomes(j, s) => Changed(j, s)
    BY <2>3 DEF JobBecomes
  <2>5. \A E : Ends(r, E) => run'[r] = Idle
    BY EndIs
  <2>6. job' = job \/ \E s \in JobStatus : Changed(j, s) /\ (run'[r] = Idle \/ s \in Active)
    <3>1. CASE run[r].at = "attempt"
      <4>1. "RUNNING" \in JobStatus \cap Active
        BY DEF JobStatus, Active
      <4>2. job' = job \/ \E n : job' = [job EXCEPT ![j] = [type |-> job[j].type, status |-> "RUNNING", tries |-> n]]
        BY <1>2, <3>1 DEF Acts, FailureAttempt, j
      <4> QED
        BY <2>3, <4>1, <4>2
    <3>2. CASE run[r].at = "retry"
      <4>1. "RETRYING" \in JobStatus \cap Active /\ "FAILED" \in JobStatus
        BY DEF JobStatus, Active
      <4>2. (JobBecomes(j, "FAILED") /\ run'[r] = Idle) \/ JobBecomes(j, "RETRYING")
        BY <1>2, <2>5, <3>2 DEF Acts, FailureRetry, j, Returns
      <4> QED
        BY <2>4, <4>1, <4>2
    <3>3. CASE run[r].at = "fail"
      <4>1. "FAILED" \in JobStatus
        BY DEF JobStatus
      <4>2. JobBecomes(j, "FAILED") /\ run'[r] = Idle
        BY <1>2, <2>5, <3>3 DEF Acts, JobFails, j, Returns, Throws
      <4> QED
        BY <2>4, <4>1, <4>2
    <3>4. CASE run[r].at = "succeed"
      <4>1. "SUCCEEDED" \in JobStatus
        BY DEF JobStatus
      <4>2. JobBecomes(j, "SUCCEEDED") /\ run'[r] = Idle
        BY <1>2, <2>5, <3>4 DEF Acts, JobSucceeds, j, Returns
      <4> QED
        BY <2>4, <4>1, <4>2
    <3>5. CASE run[r].at = "running"
      <4>1. "RUNNING" \in JobStatus \cap Active
        BY DEF JobStatus, Active
      <4>2. \E n : job' = [job EXCEPT ![j] = [type |-> job[j].type, status |-> "RUNNING", tries |-> n]]
        BY <1>2, <3>5 DEF Acts, JobRuns, j
      <4> QED
        BY <2>3, <4>1, <4>2
    <3>6. CASE run[r].at = "cancel"
      <4>1. "CANCELLED" \in JobStatus
        BY DEF JobStatus
      <4>2. JobBecomes(j, "CANCELLED") /\ run'[r] = Idle
        BY <1>2, <2>5, <3>6 DEF Acts, CancelWrite, j, Returns
      <4> QED
        BY <2>4, <4>1, <4>2
    <3>7. CASE run[r].at = "requeued"
      <4>1. "QUEUED" \in JobStatus \cap Active
        BY DEF JobStatus, Active
      <4>2. job' = [job EXCEPT ![j] = [type |-> job[j].type, status |-> "QUEUED", tries |-> 0]]
        BY <1>2, <3>7 DEF Acts, AdminWrite, j
      <4> QED
        BY <2>3, <4>1, <4>2
    <3> QED
      BY <1>5, <3>1, <3>2, <3>3, <3>4, <3>5, <3>6, <3>7
  <2> QED
    BY <2>1, <2>6 DEF JobStep, j
<1>6. CASE run[r].at \notin {"create", "recorded", "attempt", "retry", "fail", "succeed", "running", "cancel", "requeued"}
  BY <1>2, <1>6 DEF Writes, JobStep
<1> QED
  BY <1>3, <1>4, <1>5, <1>6

\* The job that q is at is as q has left or found it.
JobFor(q) ==
  /\ run[q].does \in {"failureJob", "rescueJob"} => job[run[q].job].status \in Active
  /\ run[q].at = "recorded" /\ run[q].found # 0 => job[run[q].found].status = "SUCCEEDED"
  /\ run[q].does = "cancel" => job[run[q].job].status = "QUEUED"
  /\ run[q].does = "admin" => job[run[q].job].status = "FAILED"
\* What it refers to is there.
LEMMA JobForHas ==
  ASSUME Sound, NEW q \in Runners
  PROVE  /\ run[q].does \in {"failureJob", "rescueJob", "cancel", "admin"} => run[q].job \in DOMAIN job
         /\ run[q].at = "recorded" /\ run[q].found # 0 =>
              run[q].found \in DOMAIN job /\ job[run[q].found].type = "FAILURE" /\ run[q].does \in {"settle", "get"}
         /\ run[q].does \in Jobs => q \in Workers /\ run[q].at # "idle"
         /\ run[q].does \in {"cancel", "admin"} => run[q].at # "idle"
<1>1. Knows(q) /\ <<run[q].does, run[q].at>> \in Ways
  BY DEF Sound, Known, Who
<1>2. run[q].does \in {"failureJob", "rescueJob", "cancel", "admin"} => run[q].job \in DOMAIN job
  BY <1>1 DEF Knows, Jobs
<1>3. run[q].at = "recorded" => run[q].does \in {"settle", "get", "rescue"}
  BY <1>1 DEF Ways
<1>4. run[q].does \in Jobs => q \in Workers
  BY WorkersDo DEF Runners, Jobs, Kinds
<1>5. run[q].does # "none" => run[q].at # "idle"
  BY <1>1, WaysIdle
<1> QED
  BY <1>1, <1>2, <1>3, <1>4, <1>5 DEF Knows, Jobs

\* Two at work on jobs have different ones.
LEMMA JobsDiffer ==
  ASSUME Sound, "job" \notin met, NEW q \in Runners, NEW r \in Runners, q # r,
         run[r].does \in Jobs \cup {"cancel", "admin"}
  PROVE  /\ run[q].does \notin {"cancel", "admin"}
         /\ run[q].does \in {"failureJob", "rescueJob"} => run[q].job # run[r].job
<1>1. Overlap /\ Entries
  BY DEF Sound
<1>2. run[r].at # "idle"
  BY JobForHas
<1>3. ASSUME run[q].does \in {"cancel", "admin"} \/ (run[r].does \in {"cancel", "admin"} /\ run[q].does \in Jobs) PROVE FALSE
  <2>1. run[q].at # "idle"
    BY <1>3, JobForHas
  <2>2. Meeting(run[q].does, run[r].does) \subseteq met
    BY <1>1, <1>2, <2>1 DEF Overlap
  <2>3. "job" \in Meeting(run[q].does, run[r].does)
    BY <1>3 DEF Meeting, Areas
  <2> QED
    BY <2>2, <2>3
<1>4. ASSUME run[q].does \in {"failureJob", "rescueJob"}, run[q].job = run[r].job PROVE FALSE
  <2>1. run[r].does \in Jobs /\ run[q].does \in Jobs
    BY <1>3, <1>4 DEF Jobs
  <2>2. q \in Workers /\ r \in Workers /\ run[q].at # "idle" /\ run[r].at # "idle"
    BY <2>1, JobForHas
  <2>3. Serves(q) /\ Serves(r) /\ Distinct
    BY <1>1, <2>2 DEF Entries
  <2>4. QueueFor(run[q].does) # QueueFor(run[r].does)
    BY <1>4, <2>2, <2>3 DEF Distinct
  <2>5. run[r].does \in {"healthJob", "trendJob"}
    BY <1>4, <2>4 DEF QueueFor
  <2>6. job[run[r].job].type \in TypesFor(run[r].does) /\ job[run[r].job].type \in TypesFor(run[q].does)
    BY <1>4, <2>2, <2>3 DEF Serves
  <2>7. Trends \subseteq {"WEEKLY_TREND", "MONTHLY_TREND"}
    BY Constant
  <2> QED
    BY <1>4, <2>5, <2>6, <2>7 DEF TypesFor
<1> QED
  BY <1>3, <1>4

\* Whoever does a job of a failure's or rescue's type does one of those.
LEMMA TypeDoes ==
  ASSUME Sound, NEW r \in Runners, run[r].does \in Jobs, job[run[r].job].type \in {"FAILURE", "RESCUE"}
  PROVE  /\ run[r].does \in {"failureJob", "rescueJob"}
         /\ job[run[r].job].type = "FAILURE" => run[r].does = "failureJob"
<1>1. Serves(r) /\ run[r].at # "idle"
  BY JobForHas DEF Sound, Entries
<1>2. job[run[r].job].type \in TypesFor(run[r].does)
  BY <1>1 DEF Serves
<1>3. Trends \subseteq {"WEEKLY_TREND", "MONTHLY_TREND"}
  BY Constant
<1> QED
  BY <1>2, <1>3 DEF TypesFor

LEMMA JobForSteps ==
  ASSUME Sound, JobSeen, NEW r \in Runners, Steps(r), "job" \notin met, NEW q \in Runners
  PROVE  JobFor(q)'
<1>1. Reads(r) /\ Writes(r) /\ Acts(r) /\ run[r] \in Run /\ JobStep(r) /\ <<run[r].does, run[r].at>> \in Ways
  BY StepsFlow, JobStepIs DEF Sound, TypeOK, Who
<1>2. JobFor(q) /\ JobFor(r)
  BY DEF JobSeen, JobFor
<1>3. CASE q # r
  <2>1. run'[q] = run[q]
    BY <1>1, <1>3 DEF Reads
  <2>2. CASE \A k \in DOMAIN job : job'[k].status = job[k].status
    BY <1>2, <2>1, <2>2, JobForHas DEF JobFor
  <2>3. CASE run[r].does \in Jobs \cup {"cancel", "admin"} /\ \E s : Changed(run[r].job, s)
    <3>1. /\ run[q].does \notin {"cancel", "admin"}
          /\ run[q].does \in {"failureJob", "rescueJob"} => run[q].job # run[r].job
      BY <1>3, <2>3, JobsDiffer
    <3>2. \A k \in DOMAIN job : k # run[r].job => job'[k] = job[k]
      BY <2>3 DEF Changed
    <3>3. ASSUME run[q].at = "recorded", run[q].found # 0 PROVE run[q].found # run[r].job
      <4> SUFFICES ASSUME run[q].found = run[r].job PROVE FALSE
        OBVIOUS
      <4>1. job[run[r].job].type = "FAILURE" /\ job[run[r].job].status = "SUCCEEDED"
        BY <1>2, <3>3, JobForHas DEF JobFor
      <4>2. run[r].does \in Jobs => run[r].does = "failureJob"
        BY <4>1, TypeDoes
      <4> QED
        BY <1>2, <2>3, <4>1, <4>2 DEF JobFor, Active
    <3> QED
      BY <1>2, <2>1, <3>1, <3>2, <3>3, JobForHas DEF JobFor
  <2>4. ASSUME run[r].at = "recorded", run[r].found # 0, Changed(run[r].found, "SUCCEEDED")
        PROVE  \A k \in DOMAIN job : job'[k].status = job[k].status
    BY <1>2, <2>4 DEF JobFor, Changed
  <2>5. \A s, t : Added(s, t) => \A k \in DOMAIN job : job'[k].status = job[k].status
    BY DEF Added
  <2> QED
    BY <1>1, <2>2, <2>3, <2>4, <2>5 DEF JobStep
<1>4. CASE q = r /\ run'[r] = Idle
  BY <1>4 DEF JobFor, Idle
<1>5. CASE q = r /\ run'[r] # Idle
  <2>1. <<run[r].at, run'[r].at>> \in Flow /\ run'[r].does = run[r].does /\ (run[r].at # "create" => run'[r].job = run[r].job)
    BY <1>1, <1>5 DEF Reads
  <2>2. ASSUME run[r].does \in {"failureJob", "rescueJob"} PROVE job'[run'[r].job].status \in Active
    <3>1. run[r].at \notin {"create", "recorded"}
      BY <1>1, <2>2 DEF Ways
    <3>2. job' = job \/ \E s \in JobStatus : Changed(run[r].job, s) /\ s \in Active
      BY <1>1, <1>5, <3>1 DEF JobStep
    <3> QED
      BY <1>2, <1>5, <2>1, <2>2, <3>1, <3>2 DEF JobFor, Changed
  <2>3. ASSUME run'[r].at = "recorded", run'[r].found # 0 PROVE job'[run'[r].found].status = "SUCCEEDED"
    <3>1. run[r].at \in {"record", "persist"}
      BY <2>1, <2>3 DEF Flow
    <3>2. job' = job
      BY <1>1, <3>1 DEF Writes
    <3>3. CASE run[r].at = "record"
      <4> DEFINE S == {j \in DOMAIN job : job[j].type = "FAILURE" /\ job[j].status = "SUCCEEDED"}
                 n == [run[r] EXCEPT !.at = "recorded", !.found = Greatest(S)]
      <4>1. Keeps(r, n)
        BY <1>1, <3>3 DEF Acts, RecordRead
      <4>2. run'[r].found = Greatest(S)
        <5>1. run'[r] = n
          BY <4>1, MoveIs
        <5> HIDE DEF S
        <5> QED
          BY <1>1, <5>1 DEF Run
      <4>3. Greatest(S) \in S
        <5>1. Greatest(S) \in S \/ Greatest(S) = 0
          BY PlacesAre DEF Sound
        <5> QED
          BY <2>3, <4>2, <5>1
      <4> QED
        BY <3>2, <4>2, <4>3
    <3>4. CASE run[r].at = "persist"
      <4>1. PersistRescue(r) \/ CareFails(r)
        BY <1>1, <3>4 DEF Acts
      <4>2. CASE CareFails(r)
        <5>1. run'[r] = [run[r] EXCEPT !.at = "fail"]
          BY <4>2, GoIs DEF CareFails
        <5> QED
          BY <1>1, <2>3, <5>1 DEF Run
      <4>3. CASE PersistRescue(r)
        <5> DEFINE to == IF r \in Workers THEN "succeed" ELSE "recorded"
                   n == [run[r] EXCEPT !.at = to, !.found = 0]
        <5>1. Keeps(r, n)
          BY <4>3 DEF PersistRescue
        <5>2. run'[r] = n
          BY <5>1, MoveIs
        <5> HIDE DEF to
        <5>3. run'[r].found = 0
          BY <1>1, <5>2 DEF Run
        <5> QED
          BY <2>3, <5>3
      <4> QED
        BY <4>1, <4>2, <4>3
    <3> QED
      BY <3>1, <3>3, <3>4
  <2>4. run[r].does # "cancel"
    BY <1>1, <2>1 DEF Ways, Flow
  <2>5. ASSUME run[r].does = "admin" PROVE job'[run'[r].job].status = "FAILED"
    <3>1. run[r].at = "requeue"
      BY <1>1, <2>1, <2>5 DEF Ways, Flow
    <3>2. job' = job /\ run'[r].job = run[r].job
      BY <1>1, <2>1, <3>1 DEF Writes
    <3> QED
      BY <1>2, <2>5, <3>2 DEF JobFor
  <2> QED
    BY <1>5, <2>1, <2>2, <2>3, <2>4, <2>5 DEF JobFor
<1> QED
  BY <1>3, <1>4, <1>5

LEMMA JobNext == ASSUME Sound, JobSeen, [Next]_vars PROVE JobSeen'
<1> SUFFICES ASSUME "job" \notin met', NEW q \in Runners PROVE JobFor(q)'
  BY DEF JobSeen, JobFor
<1>1. ASSUME NEW r \in Runners, Steps(r) PROVE JobFor(q)'
  <2>1. met' = met
    BY <1>1, StepsFlow DEF Writes
  <2> QED
    BY <1>1, <2>1, JobForSteps
<1>2. ASSUME met \subseteq met', job' = job, run'[q] = run[q] PROVE JobFor(q)'
  <2>1. JobFor(q)
    BY <1>2 DEF JobSeen, JobFor
  <2> QED
    BY <1>2, <2>1 DEF JobFor
<1>3. ASSUME NEW r \in Runners, Starting(r) PROVE JobFor(q)'
  <2>1. job' = job /\ met \subseteq met'
    BY <1>3 DEF Starting, Facts
  <2>2. CASE q = r
    <3>1. Begun(r)
      BY <1>3 DEF Starting
    <3>2. run'[r].at # "recorded"
      BY <3>1 DEF Begun
    <3>3. run'[r].does \in {"failureJob", "rescueJob"} => job[run'[r].job].status = "QUEUED"
      BY <3>1 DEF Begun
    <3>4. /\ run'[r].does = "cancel" => job[run'[r].job].status = "QUEUED"
          /\ run'[r].does = "admin" => job[run'[r].job].status = "FAILED"
      BY <3>1 DEF Begun
    <3> QED
      BY <2>1, <2>2, <3>2, <3>3, <3>4 DEF JobFor, Active
  <2>3. CASE q # r
    BY <1>2, <1>3, <2>1, <2>3 DEF Starting
  <2> QED
    BY <2>2, <2>3
<1>4. ASSUME NEW r \in Runners, Leaving(r) PROVE JobFor(q)'
  <2>1. CASE q = r
    BY <1>4, <2>1 DEF Leaving, JobFor, Idle
  <2>2. CASE q # r
    BY <1>2, <1>4, <2>2 DEF Leaving, Facts
  <2> QED
    BY <2>1, <2>2
<1>5. Resting \/ Confirm => JobFor(q)'
  BY <1>2 DEF Resting, Facts, Confirm, jobs
<1> QED
  BY <1>1, <1>3, <1>4, <1>5, NextFlow

\* What has ended stays ended.
LEMMA EndedStep ==
  ASSUME Sound, JobSeen, [Next]_vars, NEW j \in DOMAIN job,
         job[j].type \in {"FAILURE", "RESCUE"}, job[j].status \in {"SUCCEEDED", "CANCELLED"}, "job" \notin met
  PROVE  job'[j].status = job[j].status
<1>1. ASSUME NEW r \in Runners, Steps(r) PROVE job'[j].status = job[j].status
  <2>1. JobStep(r) /\ JobFor(r)
    BY <1>1, JobStepIs DEF JobSeen, JobFor
  <2>2. \A s, t : Added(s, t) => job'[j].status = job[j].status
    BY DEF Added
  <2>3. ASSUME run[r].at = "recorded", run[r].found # 0, Changed(run[r].found, "SUCCEEDED") PROVE job'[j].status = job[j].status
    BY <2>1, <2>3 DEF JobFor, Changed
  <2>4. ASSUME run[r].does \in Jobs \cup {"cancel", "admin"}, NEW s, Changed(run[r].job, s) PROVE job'[j].status = job[j].status
    <3>1. CASE j # run[r].job
      BY <2>4, <3>1 DEF Changed
    <3>2. CASE j = run[r].job
      <4>1. run[r].does \in Jobs => run[r].does \in {"failureJob", "rescueJob"}
        BY <3>2, TypeDoes
      <4> QED
        BY <2>1, <2>4, <3>2, <4>1 DEF JobFor, Active
    <3> QED
      BY <3>1, <3>2
  <2> QED
    BY <2>1, <2>2, <2>3, <2>4 DEF JobStep
<1>2. job' = job => job'[j].status = job[j].status
  OBVIOUS
<1> QED
  BY <1>1, <1>2, NextFlow DEF Starting, Leaving, Resting, Facts, Confirm, jobs

\* Report jobs become no more but by a settlement that makes one.
OneReport ==
  /\ \A i, j \in ActiveReportJobs : i = j
  /\ \A r \in Runners : run[r].at = "create" /\ run[r].does \in {"settle", "get"} => ActiveReportJobs = {}
LEMMA ReportSteps ==
  ASSUME Sound, JobSeen, OneReport, NEW r \in Runners, Steps(r), met \cap {"settlement", "job"} = {},
         \A q \in Requests : mix[q] # "admin"
  PROVE  OneReport'
<1>1. /\ Reads(r) /\ Writes(r) /\ Acts(r) /\ run[r] \in Run /\ <<run[r].does, run[r].at>> \in Ways
      /\ JobStep(r) /\ JobFor(r) /\ Overlap /\ Knows(r)
  BY StepsFlow, JobStepIs DEF Sound, TypeOK, Who, JobSeen, JobFor, Known
<1>2. run[r].does # "admin"
  <2>1. "admin" \notin Jobs \cup {"none"}
    BY DEF Jobs
  <2> QED
    BY <2>1 DEF Sound, Who, Runners
<1>3. Active' = Active /\ "SUCCEEDED" \notin Active
  BY DEF Active
<1>4. CASE run[r].at = "create" /\ JobTypeOf(r) = "FAILURE"
  <2>1. run[r].does \in {"settle", "get"}
    <3>1. run[r].does \in {"settle", "get", "rescue", "report", "later"}
      BY <1>1, <1>4 DEF Ways
    <3>2. Trends \subseteq {"WEEKLY_TREND", "MONTHLY_TREND"}
      BY Constant
    <3> QED
      BY <1>1, <1>4, <3>1, <3>2 DEF JobTypeOf, Knows
  <2>2. ActiveReportJobs = {} /\ JobStep(r)
    BY <1>1, <1>4, <2>1 DEF OneReport
  <2>3. ASSUME NEW i \in ActiveReportJobs' PROVE i = Len(job) + 1
    <3>1. i \in DOMAIN job' /\ job'[i].type = "FAILURE" /\ job'[i].status \in Active
      BY <1>3, <2>3 DEF ActiveReportJobs
    <3>2. job' = job \/ \E s, t : Added(s, t)
      BY <1>4, <2>1, <2>2 DEF JobStep, Jobs
    <3> QED
      BY <2>2, <3>1, <3>2 DEF Added, ActiveReportJobs
  <2>4. ASSUME NEW q \in Runners, run'[q].at = "create", run'[q].does \in {"settle", "get"} PROVE FALSE
    <3>1. CASE q = r
      BY <1>1, <1>4, <2>4, <3>1 DEF Reads, Flow, Idle
    <3>2. CASE q # r
      <4>1. run[q] = run'[q]
        BY <1>1, <3>2 DEF Reads
      <4>2. Meeting(run[q].does, run[r].does) \subseteq met
        BY <1>1, <1>4, <2>4, <3>2, <4>1 DEF Overlap
      <4>3. "settlement" \in Meeting(run[q].does, run[r].does)
        BY <2>1, <2>4, <4>1 DEF Meeting, Areas
      <4> QED
        BY <4>2, <4>3
    <3> QED
      BY <3>1, <3>2
  <2> QED
    BY <2>3, <2>4 DEF OneReport
<1>5. CASE ~(run[r].at = "create" /\ JobTypeOf(r) = "FAILURE")
  <2>1. ActiveReportJobs' \subseteq ActiveReportJobs
    <3> SUFFICES ASSUME NEW i, i \in DOMAIN job', job'[i].type = "FAILURE", job'[i].status \in Active
                 PROVE  i \in DOMAIN job /\ job[i].type = "FAILURE" /\ job[i].status \in Active
      BY <1>3 DEF ActiveReportJobs
    <3>1. CASE job' = job
      BY <3>1
    <3>2. ASSUME NEW s, NEW t, Added(s, t), t # "FAILURE" \/ s = "SUCCEEDED"
          PROVE  i \in DOMAIN job /\ job[i].type = "FAILURE" /\ job[i].status \in Active
      BY <1>3, <3>2 DEF Added
    <3>3. ASSUME Changed(run[r].found, "SUCCEEDED")
          PROVE  i \in DOMAIN job /\ job[i].type = "FAILURE" /\ job[i].status \in Active
      BY <1>3, <3>3 DEF Changed
    <3>4. ASSUME run[r].does \in Jobs \cup {"cancel", "admin"}, NEW s, Changed(run[r].job, s)
          PROVE  i \in DOMAIN job /\ job[i].type = "FAILURE" /\ job[i].status \in Active
      <4>1. CASE i # run[r].job
        BY <3>4, <4>1 DEF Changed
      <4>2. CASE i = run[r].job
        <5>1. i \in DOMAIN job /\ job[i].type = "FAILURE"
          BY <3>4, <4>2 DEF Changed
        <5>2. run[r].does \in {"failureJob", "cancel"}
          BY <1>2, <3>4, <4>2, <5>1, TypeDoes
        <5> QED
          BY <1>1, <4>2, <5>1, <5>2 DEF JobFor, Active
      <4> QED
        BY <4>1, <4>2
    <3> QED
      BY <1>1, <1>5, <3>1, <3>2, <3>3, <3>4 DEF JobStep
  <2>2. ASSUME NEW q \in Runners, run'[q].at = "create", run'[q].does \in {"settle", "get"}
        PROVE  ActiveReportJobs = {}
    <3>1. CASE q # r
      BY <1>1, <2>2, <3>1 DEF Reads, OneReport
    <3>2. CASE q = r
      <4>1. <<run[r].at, "create">> \in Flow /\ run[r].does \in {"settle", "get"}
        BY <1>1, <2>2, <3>2 DEF Reads, Idle
      <4>2. run[r].at = "find"
        BY <1>1, <4>1 DEF Flow, Ways
      <4>3. FindReportJob(r)
        BY <1>1, <4>2 DEF Acts
      <4>4. Returns(r) => run'[r] = Idle
        BY EndIs DEF Returns
      <4> QED
        BY <2>2, <3>2, <4>3, <4>4 DEF FindReportJob, Idle
    <3> QED
      BY <3>1, <3>2
  <2> QED
    BY <2>1, <2>2 DEF OneReport
<1> QED
  BY <1>4, <1>5

LEMMA ReportNext == ASSUME Sound, JobSeen, ReportJobs, [Next]_vars PROVE ReportJobs'
<1> SUFFICES ASSUME met' \cap {"settlement", "job"} = {}, \A r \in Requests : mix'[r] # "admin"
             PROVE  OneReport'
  BY DEF ReportJobs, OneReport
<1>1. ASSUME met \subseteq met', mix' = mix PROVE OneReport /\ met \cap {"settlement", "job"} = {} /\ \A q \in Requests : mix[q] # "admin"
  BY <1>1 DEF ReportJobs, OneReport
<1>2. ASSUME NEW r \in Runners, Steps(r) PROVE OneReport'
  <2>1. met' = met /\ mix' = mix
    BY <1>2, StepsFlow DEF Writes
  <2> QED
    BY <1>1, <1>2, <2>1, ReportSteps
<1>3. job' = job => ActiveReportJobs' = ActiveReportJobs
  BY DEF ActiveReportJobs, Active
<1>4. ASSUME NEW r \in Runners, Starting(r) PROVE OneReport'
  <2>1. job' = job /\ met \subseteq met' /\ mix' = mix
    BY <1>4 DEF Starting, Facts
  <2>2. run'[r].at = "create" => run'[r].does \notin {"settle", "get"}
    BY <1>4 DEF Starting, Begun
  <2> QED
    BY <1>1, <1>3, <1>4, <2>1, <2>2 DEF Starting, OneReport
<1>5. ASSUME NEW r \in Runners, Leaving(r) PROVE OneReport'
  <2>1. job' = job /\ met \subseteq met' /\ mix' = mix
    BY <1>5 DEF Leaving, Facts
  <2>2. run'[r].at # "create"
    BY <1>5 DEF Leaving, Idle
  <2> QED
    BY <1>1, <1>3, <1>5, <2>1, <2>2 DEF Leaving, OneReport
<1>6. ASSUME Resting \/ Confirm PROVE OneReport'
  <2>1. job' = job /\ met \subseteq met' /\ mix' = mix /\ run' = run
    BY <1>6 DEF Resting, Facts, Confirm, jobs
  <2> QED
    BY <1>1, <1>3, <2>1 DEF OneReport
<1> QED
  BY <1>2, <1>4, <1>5, <1>6, NextFlow

\* One at most, counted.
LEMMA AtMostOne ==
  ASSUME NEW S, \A i, j \in S : i = j
  PROVE  Cardinality(S) <= 1
<1>1. CASE S = {}
  BY <1>1, FS_EmptySet
<1>2. CASE S # {}
  <2>1. PICK i : i \in S
    BY <1>2
  <2>2. S = {i}
    BY <2>1
  <2>3. Cardinality({i}) = 1
    BY FS_Singleton
  <2>4. Cardinality(S) = 1
    BY <2>2, <2>3
  <2> QED
    BY <2>4
<1> QED
  BY <1>1, <1>2
LEMMA OneReportIs == ReportJobs => OneReportJob
BY AtMostOne DEF ReportJobs, OneReportJob

(***************************************************************************)
(* Rescue tasks and deviations.                                            *)
(***************************************************************************)
\* What is read of the goal is of today.
LEMMA ContextIs ==
  ASSUME Sound, NEW r \in Runners, Steps(r), run[r].at = "context", run'[r] # Idle
  PROVE  \/ run'[r].at = "fail"
         \/ run'[r].at = (IF Rescues(r) THEN "existing" ELSE "deviation") /\ run'[r].day = day
<1>1. (Context(r) \/ CareFails(r)) /\ run[r] \in Run
  BY StepsFlow DEF Acts, Sound, TypeOK
<1>2. \A to : Goes(r, to) => run'[r].at = to
  <2> SUFFICES ASSUME NEW to, Goes(r, to) PROVE run'[r].at = to
    OBVIOUS
  <2>1. run'[r] = [run[r] EXCEPT !.at = to]
    BY GoIs
  <2> QED
    BY <1>1, <2>1 DEF Run
<1>3. \A E : Ends(r, E) => run'[r] = Idle
  BY EndIs
<1>4. CASE \E low \in Signals :
             Keeps(r, [run[r] EXCEPT !.at = IF Rescues(r) THEN "existing" ELSE "deviation",
                         !.day = day, !.reason = PrimaryReason(day, low),
                         !.count = IF Rescues(r) THEN 0 ELSE HealthScore(day, low)])
  <2>1. PICK low \in Signals :
             Keeps(r, [run[r] EXCEPT !.at = IF Rescues(r) THEN "existing" ELSE "deviation",
                         !.day = day, !.reason = PrimaryReason(day, low),
                         !.count = IF Rescues(r) THEN 0 ELSE HealthScore(day, low)])
    BY <1>4
  <2> DEFINE to == IF Rescues(r) THEN "existing" ELSE "deviation"
             w == PrimaryReason(day, low)
             c == IF Rescues(r) THEN 0 ELSE HealthScore(day, low)
             n == [run[r] EXCEPT !.at = to, !.day = day, !.reason = w, !.count = c]
  <2>2. Keeps(r, n)
    BY <2>1
  <2>3. run'[r] = n
    BY <2>2, MoveIs
  <2>4. n = [run[r] EXCEPT !.at = to, !.day = day, !.reason = w, !.count = c]
    OBVIOUS
  <2> HIDE DEF to, w, c, n
  <2>5. run'[r].at = to /\ run'[r].day = day
    BY <1>1, <2>3, <2>4 DEF Run
  <2> QED
    BY <2>5 DEF to
<1> QED
  BY <1>1, <1>2, <1>3, <1>4 DEF Context, CareFails, Returns

\* The rescue tasks to be done are no more, unless one is made.
LEMMA PendingSteps ==
  ASSUME Sound, NEW r \in Runners, Steps(r)
  PROVE  \/ PersistRescue(r) /\ run[r].found = 0
         \/ \A d : Pending(d)' \subseteq Pending(d)
<1>1. Writes(r) /\ Acts(r)
  BY StepsFlow
<1>2. rescue' = rescue => \A d : Pending(d)' \subseteq Pending(d)
  BY DEF Pending
<1>3. ASSUME PersistRescue(r), run[r].found # 0 PROVE \A d : Pending(d)' \subseteq Pending(d)
  <2>1. PICK k : k = IF run[r].found = 0 THEN Len(rescue) + 1 ELSE run[r].found
    OBVIOUS
  <2>2. /\ DOMAIN rescue' = DOMAIN rescue
        /\ \A i \in DOMAIN rescue : rescue'[i].day = rescue[i].day /\ rescue'[i].done = rescue[i].done
    BY <1>3, <2>1, PersistIs
  <2> QED
    BY <2>2 DEF Pending
<1>4. ASSUME CheckinWrite(r) PROVE \A d : Pending(d)' \subseteq Pending(d)
  <2>1. /\ DOMAIN rescue' = DOMAIN rescue
        /\ \A i \in DOMAIN rescue : rescue'[i].day = rescue[i].day
        /\ \A i \in DOMAIN rescue : rescue[i].done => rescue'[i].done
    BY <1>4, CheckinIs
  <2> QED
    BY <2>1 DEF Pending
<1>5. CareFails(r) => rescue' = rescue
  BY DEF CareFails, tasks
<1>6. MilestoneWrite(r) => rescue' = rescue
  BY DEF MilestoneWrite, tasks
<1> QED
  BY <1>1, <1>2, <1>3, <1>4, <1>5, <1>6 DEF Writes, Acts

RescueFor(q) ==
  Makes(run[q].does) /\ run[q].at \in {"deviation", "deviate", "running", "persist"} /\ run[q].found = 0 =>
    Pending(run[q].day) = {}
OneTask == \A d \in Days : \A i, k \in Pending(d) : i = k

LEMMA RescueKept ==
  ASSUME NEW q \in Runners, RescueFor(q), \A d : Pending(d)' \subseteq Pending(d), async' = async, run'[q] = run[q]
  PROVE  RescueFor(q)'
<1>1. PICK d : d = run[q].day
  OBVIOUS
<1>2. Pending(d) = {} => Pending(d)' = {}
  OBVIOUS
<1>3. Pending(run[q].day)' = Pending(d)'
  BY <1>1 DEF Pending
<1> QED
  BY <1>1, <1>2, <1>3 DEF RescueFor, Makes

LEMMA RescueSteps ==
  ASSUME Sound, RescueSeen, NEW r \in Runners, Steps(r), "rescue" \notin met, NEW q \in Runners
  PROVE  RescueFor(q)' /\ OneTask'
<1>1. /\ Reads(r) /\ Writes(r) /\ Acts(r) /\ run[r] \in Run /\ Overlap
      /\ <<run[r].does, run[r].at>> \in Ways /\ Knows(r)
  BY StepsFlow DEF Sound, TypeOK, Who, Known
<1>2. RescueFor(q) /\ RescueFor(r) /\ OneTask
  BY DEF RescueSeen, RescueFor, OneTask
<1>3. async' = async
  BY <1>1 DEF Writes
<1>4. CASE PersistRescue(r) /\ run[r].found = 0
  <2>1. PICK k : k = IF run[r].found = 0 THEN Len(rescue) + 1 ELSE run[r].found
    OBVIOUS
  <2>2. /\ DOMAIN rescue' = DOMAIN rescue \cup {k}
        /\ \A i \in DOMAIN rescue : rescue'[i].day = rescue[i].day /\ rescue'[i].done = rescue[i].done
        /\ rescue'[k].day = run[r].day
    BY <1>4, <2>1, PersistIs
  <2>3. run[r].at = "persist"
    BY <1>4 DEF PersistRescue, At
  <2>4. Makes(run[r].does)
    BY <1>1, <2>3 DEF Ways, Makes, Knows
  <2>5. Pending(run[r].day) = {}
    BY <1>2, <1>4, <2>3, <2>4 DEF RescueFor
  <2>6. PICK e : e = run[r].day
    OBVIOUS
  <2>7. \A d : Pending(d)' \subseteq Pending(d) \cup {k}
    BY <2>2 DEF Pending
  <2>8. \A d : d # e => Pending(d)' \subseteq Pending(d)
    BY <2>2, <2>6 DEF Pending
  <2>9. Days' = Days
    BY DEF Days
  <2>10. OneTask'
    <3> SUFFICES ASSUME NEW d \in Days, NEW i \in Pending(d)', NEW j \in Pending(d)' PROVE i = j
      BY <2>9 DEF OneTask
    <3>1. CASE d = e
      BY <2>5, <2>6, <2>7, <3>1
    <3>2. CASE d # e
      BY <1>2, <2>8, <3>2 DEF OneTask
    <3> QED
      BY <3>1, <3>2
  <2>11. RescueFor(q)'
    <3>1. CASE q = r
      BY <1>1, <2>3, <3>1 DEF Reads, Flow, RescueFor, Idle
    <3>2. CASE q # r
      <4>1. run'[q] = run[q]
        BY <1>1, <3>2 DEF Reads
      <4>2. ASSUME Makes(run[q].does), run[q].at # "idle" PROVE FALSE
        <5>1. Meeting(run[q].does, run[r].does) \subseteq met
          BY <1>1, <2>3, <3>2, <4>2 DEF Overlap
        <5>2. "rescue" \in Meeting(run[q].does, run[r].does)
          BY <2>4, <4>2 DEF Meeting, Areas, Makes
        <5> QED
          BY <5>1, <5>2
      <4> QED
        BY <1>3, <4>1, <4>2 DEF RescueFor, Makes
    <3> QED
      BY <3>1, <3>2
  <2> QED
    BY <2>10, <2>11
<1>5. CASE \A d : Pending(d)' \subseteq Pending(d)
  <2>1. Days' = Days
    BY DEF Days
  <2>2. OneTask'
    BY <1>2, <1>5, <2>1 DEF OneTask
  <2>3. RescueFor(q)'
    <3>1. CASE q # r
      BY <1>1, <1>2, <1>3, <1>5, <3>1, RescueKept DEF Reads
    <3>2. CASE q = r
      <4> SUFFICES ASSUME Makes(run'[r].does), run'[r].at \in {"deviation", "deviate", "running", "persist"}, run'[r].found = 0
                   PROVE  (Pending(run[r].day) = {})'
        BY <1>3, <3>2 DEF RescueFor, Makes
      <4>1. run'[r] # Idle
        BY DEF Idle
      <4>2. run'[r].does = run[r].does /\ <<run[r].at, run'[r].at>> \in Flow
        BY <1>1, <4>1 DEF Reads
      <4>3. run[r].does \in {"rescue", "rescueJob"}
        BY <4>2 DEF Makes
      <4>4. run[r].at # "context"
        BY <4>1, <4>3, ContextIs DEF Rescues
      <4>5. run[r].at \in {"existing", "deviation", "deviate", "running"}
        BY <4>2, <4>4 DEF Flow
      <4>6. run'[r].day = run[r].day
        BY <1>1, <4>1, <4>5 DEF Reads
      <4>7. Pending(run[r].day) = {}
        <5>1. CASE run[r].at = "existing"
          <6> DEFINE i == Greatest(Pending(run[r].day))
                     e == IF i = 0 THEN 0 ELSE rescue[i].event
                     to == IF e # 0 THEN Onward(r) ELSE "deviation"
                     n == [run[r] EXCEPT !.at = to, !.found = i, !.event = e]
          <6>1. Keeps(r, n)
            BY <1>1, <5>1 DEF Acts, ExistingRescue
          <6>2. run'[r] = n
            BY <6>1, MoveIs
          <6>3. i \in Pending(run[r].day) \/ Pending(run[r].day) = {}
            BY PlacesAre DEF Sound, Pending
          <6>4. 0 \notin DOMAIN rescue
            BY Lengths DEF Sound
          <6> HIDE DEF i, e, to
          <6>5. run'[r].found = i
            BY <1>1, <6>2 DEF Run
          <6> QED
            BY <6>3, <6>4, <6>5 DEF Pending
        <5>2. CASE run[r].at # "existing"
          <6>1. run'[r].found = run[r].found
            BY <1>1, <4>1, <4>5, <5>2 DEF Reads
          <6> QED
            BY <1>2, <1>3, <4>2, <4>5, <5>2, <6>1 DEF RescueFor, Makes
        <5> QED
          BY <5>1, <5>2
      <4>8. PICK d : d = run[r].day
        OBVIOUS
      <4>9. Pending(d)' = {}
        BY <1>5, <4>7, <4>8
      <4> QED
        BY <4>6, <4>8, <4>9 DEF Pending
    <3> QED
      BY <3>1, <3>2
  <2> QED
    BY <2>2, <2>3
<1> QED
  BY <1>4, <1>5, PendingSteps

LEMMA RescueNext == ASSUME Sound, RescueSeen, [Next]_vars PROVE RescueSeen'
<1> SUFFICES ASSUME "rescue" \notin met' PROVE (\A q \in Runners : RescueFor(q)') /\ OneTask'
  BY DEF RescueSeen, RescueFor, OneTask
<1>1. ASSUME NEW r \in Runners, Steps(r) PROVE (\A q \in Runners : RescueFor(q)') /\ OneTask'
  <2>1. met' = met
    BY <1>1, StepsFlow DEF Writes
  <2> QED
    BY <1>1, <2>1, RescueSteps
<1>2. ASSUME met \subseteq met', rescue' = rescue, async' = async
      PROVE  OneTask' /\ \A q \in Runners : run'[q] = run[q] => RescueFor(q)'
  <2>1. OneTask /\ \A q \in Runners : RescueFor(q)
    BY <1>2 DEF RescueSeen, RescueFor, OneTask
  <2>2. \A d : Pending(d)' = Pending(d)
    BY <1>2 DEF Pending
  <2>3. Days' = Days
    BY DEF Days
  <2> QED
    BY <1>2, <2>1, <2>2, <2>3, RescueKept DEF OneTask
<1>3. ASSUME NEW r \in Runners, Starting(r) PROVE (\A q \in Runners : RescueFor(q)') /\ OneTask'
  <2>1. rescue' = rescue /\ async' = async /\ met \subseteq met'
    BY <1>3 DEF Starting, Facts
  <2>2. RescueFor(r)'
    <3>1. run'[r].at \notin {"deviation", "deviate", "persist"}
      BY <1>3 DEF Starting, Begun
    <3>2. Makes(run'[r].does) => run'[r].at # "running"
      <4>1. "running" = run'[r].at => run'[r].does \notin {"rescue", "rescueJob"}
        <5>1. <<run'[r].does, run'[r].at>> \in Ways
          BY SoundNext DEF Sound, Who
        <5>2. run'[r].does = "rescueJob" => run'[r].at # "running"
          BY <1>3 DEF Starting, Begun
        <5> QED
          BY <5>1, <5>2 DEF Ways
      <4> QED
        BY <4>1 DEF Makes
    <3> QED
      BY <2>1, <3>1, <3>2 DEF RescueFor, Makes
  <2> QED
    BY <1>2, <1>3, <2>1, <2>2 DEF Starting
<1>4. ASSUME NEW r \in Runners, Leaving(r) PROVE (\A q \in Runners : RescueFor(q)') /\ OneTask'
  <2>1. rescue' = rescue /\ async' = async /\ met \subseteq met'
    BY <1>4 DEF Leaving, Facts
  <2>2. RescueFor(r)'
    BY <1>4 DEF Leaving, RescueFor, Idle
  <2> QED
    BY <1>2, <1>4, <2>1, <2>2 DEF Leaving
<1>5. Resting \/ Confirm => (\A q \in Runners : RescueFor(q)') /\ OneTask'
  BY <1>2 DEF Resting, Facts, Confirm, tasks
<1> QED
  BY <1>1, <1>3, <1>4, <1>5, NextFlow

LEMMA OneRescueIs == RescueSeen => OneRescue
BY AtMostOne DEF RescueSeen, OneRescue

\* What q has found of the deviations is so.
DeviationFor(q) ==
  run[q].does \in Deviating /\ run[q].at \in {"existing", "deviation", "deviate"} =>
    /\ run[q].day <= day /\ \A e \in DOMAIN deviation : deviation[e].day <= run[q].day
    /\ run[q].at = "deviate" =>
         LET row == [day |-> run[q].day, reason |-> run[q].reason] IN
         IF run[q].event = 0 THEN \A e \in DOMAIN deviation : deviation[e] # row
         ELSE deviation[run[q].event] = row
Differ == \A e, f \in DOMAIN deviation : e # f => deviation[e] # deviation[f]
UpTo == \A e \in DOMAIN deviation : deviation[e].day <= day

LEMMA DeviatingAre ==
  ASSUME Sound, NEW r \in Runners, run[r].at \in {"existing", "deviation", "deviate"}
  PROVE  run[r].does \in Deviating
<1>1. <<run[r].does, run[r].at>> \in Ways
  BY DEF Sound, Who
<1> QED
  BY <1>1 DEF Ways, Deviating

\* The deviations stay.
LEMMA DeviationKept ==
  ASSUME Sound, NEW q \in Runners, DeviationFor(q), deviation' = deviation, day' \in Nat, day <= day', run'[q] = run[q]
  PROVE  DeviationFor(q)'
<1>1. run[q].day \in Nat /\ day \in Nat
  <2>1. run[q].day \in Days
    BY DEF Sound, TypeOK, Run
  <2>2. FirstDay \in Nat
    BY Constant
  <2> QED
    BY <2>1, <2>2, Lengths DEF Days, Sound
<1>2. Deviating' = Deviating
  BY DEF Deviating
<1>3. run[q].day <= day => run[q].day <= day'
  BY <1>1
<1> QED
  BY <1>2, <1>3 DEF DeviationFor

LEMMA DeviateLeaves ==
  ASSUME Sound, NEW r \in Runners, WriteDeviation(r), NEW e, e = IF run[r].event = 0 THEN Len(deviation) + 1 ELSE run[r].event,
         NEW f \in DOMAIN deviation, f # e
  PROVE  deviation'[f] = deviation[f]
BY DeviateIs

LEMMA DeviationSteps ==
  ASSUME Sound, DeviationSeen, NEW r \in Runners, Steps(r), "deviation" \notin met, NEW q \in Runners
  PROVE  DeviationFor(q)' /\ Differ'
<1>1. /\ Reads(r) /\ Writes(r) /\ Acts(r) /\ run[r] \in Run /\ Overlap
      /\ <<run[r].does, run[r].at>> \in Ways /\ Knows(r)
  BY StepsFlow DEF Sound, TypeOK, Who, Known
<1>2. DeviationFor(q) /\ DeviationFor(r) /\ Differ /\ UpTo
  BY DEF DeviationSeen, DeviationFor, Differ, UpTo
<1>3. day' = day /\ day \in Nat /\ run[r].day \in Nat
  <2>1. run[r].day \in Days
    BY <1>1 DEF Run
  <2>2. FirstDay \in Nat
    BY Constant
  <2> QED
    BY <1>1, <2>1, <2>2, Lengths DEF Days, Sound, Writes
<1>4. CASE WriteDeviation(r)
  <2>1. PICK e : e = IF run[r].event = 0 THEN Len(deviation) + 1 ELSE run[r].event
    OBVIOUS
  <2>2. /\ DOMAIN deviation' = DOMAIN deviation \cup {e}
        /\ deviation'[e] = Detected(r)
        /\ \A f \in DOMAIN deviation : f # e => deviation'[f] = deviation[f]
        /\ run[r].event = 0 => e \notin DOMAIN deviation
        /\ run[r].event # 0 => e = run[r].event /\ e \in DOMAIN deviation
    <3>1. /\ DOMAIN deviation' = DOMAIN deviation \cup {e}
          /\ deviation'[e] = Detected(r)
      BY <1>4, <2>1, DeviateIs
    <3>2. \A f \in DOMAIN deviation : f # e => deviation'[f] = deviation[f]
      <4> SUFFICES ASSUME NEW f \in DOMAIN deviation, f # e PROVE deviation'[f] = deviation[f]
        OBVIOUS
      <4> QED
        BY <1>4, <2>1, DeviateLeaves
    <3>3. run[r].event = 0 => e \notin DOMAIN deviation
      BY <1>4, <2>1, DeviateIs
    <3>4. run[r].event # 0 => e = run[r].event /\ e \in DOMAIN deviation
      <4>1. run[r].event \in {0} \cup DOMAIN deviation
        BY <1>4, <2>1, DeviateIs
      <4> QED
        BY <2>1, <4>1
    <3> QED
      BY <3>1, <3>2, <3>3, <3>4
  <2>3. run[r].at = "deviate" /\ run[r].does \in Deviating
    BY <1>4, DeviatingAre DEF WriteDeviation, At
  <2>4. /\ run[r].day <= day /\ \A f \in DOMAIN deviation : deviation[f].day <= run[r].day
        /\ LET old == [day |-> run[r].day, reason |-> run[r].reason] IN
           IF run[r].event = 0 THEN \A f \in DOMAIN deviation : deviation[f] # old
           ELSE deviation[run[r].event] = old
    BY <1>2, <2>3 DEF DeviationFor
  <2>5. \A f \in DOMAIN deviation : deviation[f].day \in Nat
    <3>1. \A f \in DOMAIN deviation : deviation[f].day \in Days
      BY Lengths DEF Sound
    <3>2. FirstDay \in Nat
      BY Constant
    <3> QED
      BY <3>1, <3>2 DEF Days
  <2> DEFINE row == [day |-> day, reason |-> run[r].reason]
  <2>6. \A f \in DOMAIN deviation : f # e => deviation[f] # row
    <3> SUFFICES ASSUME NEW f \in DOMAIN deviation, f # e, deviation[f] = row PROVE FALSE
      OBVIOUS
    <3>1. deviation[f].day = day
      OBVIOUS
    <3>2. run[r].day = day
      BY <1>3, <2>4, <3>1
    <3>3. run[r].event # 0
      BY <2>4, <3>2
    <3>4. deviation[e] = row /\ e \in DOMAIN deviation
      BY <2>2, <2>4, <3>2, <3>3
    <3> QED
      BY <1>2, <3>4 DEF Differ
  <2>7. deviation'[e] = row
    BY <2>2 DEF Detected
  <2> HIDE DEF row
  <2>8. Differ'
    BY <1>2, <2>2, <2>6, <2>7 DEF Differ
  <2>9. DeviationFor(q)'
    <3>1. CASE q = r
      BY <1>1, <2>3, <3>1 DEF Reads, Flow, DeviationFor, Idle
    <3>2. CASE q # r
      <4>1. run'[q] = run[q]
        BY <1>1, <3>2 DEF Reads
      <4>2. ASSUME run[q].does \in Deviating, run[q].at \in {"existing", "deviation", "deviate"} PROVE FALSE
        <5>1. Meeting(run[q].does, run[r].does) \subseteq met
          BY <1>1, <2>3, <3>2, <4>2 DEF Overlap
        <5>2. "deviation" \in Meeting(run[q].does, run[r].does)
          BY <2>3, <4>2 DEF Meeting, Areas, Deviating
        <5> QED
          BY <5>1, <5>2
      <4> QED
        BY <4>1, <4>2 DEF DeviationFor, Deviating
    <3> QED
      BY <3>1, <3>2
  <2> QED
    BY <2>8, <2>9
<1>5. CASE ~WriteDeviation(r)
  <2>1. deviation' = deviation
    BY <1>1, <1>5 DEF Writes, Acts, CareFails, care
  <2>2. Differ'
    BY <1>2, <2>1 DEF Differ
  <2>3. CASE q # r
    BY <1>1, <1>2, <1>3, <2>1, <2>2, <2>3, DeviationKept DEF Reads
  <2>4. CASE q = r
    <3> SUFFICES ASSUME run'[r].does \in Deviating, run'[r].at \in {"existing", "deviation", "deviate"}
                 PROVE  DeviationFor(r)'
      BY <2>2, <2>4 DEF DeviationFor, Deviating
    <3>1. run'[r] # Idle
      BY DEF Idle
    <3>2. run'[r].does = run[r].does /\ <<run[r].at, run'[r].at>> \in Flow
      BY <1>1, <3>1 DEF Reads
    <3>3. run[r].at \in {"context", "existing", "deviation"}
      BY <3>2 DEF Flow
    <3>4. CASE run[r].at = "context"
      <4>1. run'[r].at # "fail"
        OBVIOUS
      <4>2. run'[r].day = day /\ run'[r].at # "deviate"
        BY <3>1, <3>4, <4>1, ContextIs
      <4> QED
        BY <1>2, <1>3, <2>1, <4>2 DEF DeviationFor, UpTo
    <3>5. CASE run[r].at \in {"existing", "deviation"}
      <4>1. run'[r].day = run[r].day /\ run'[r].reason = run[r].reason
        BY <1>1, <3>1, <3>5 DEF Reads
      <4>2. run[r].day <= day /\ \A e \in DOMAIN deviation : deviation[e].day <= run[r].day
        BY <1>2, <3>2, <3>5 DEF DeviationFor
      <4>3. ASSUME run'[r].at = "deviate"
            PROVE  LET row == [day |-> run[r].day, reason |-> run[r].reason] IN
                   IF run'[r].event = 0 THEN \A e \in DOMAIN deviation : deviation[e] # row
                   ELSE deviation[run'[r].event] = row
        <5>1. run[r].at = "deviation"
          BY <3>2, <3>5, <4>3 DEF Flow
        <5> DEFINE row == [day |-> run[r].day, reason |-> run[r].reason]
                   S == {e \in DOMAIN deviation : deviation[e] = row}
                   g == Greatest(S)
                   n == [run[r] EXCEPT !.at = "deviate", !.event = g]
        <5>2. FindDeviation(r)
          BY <1>1, <5>1 DEF Acts
        <5>3. ~Goes(r, Onward(r))
          <6> SUFFICES ASSUME Goes(r, Onward(r)) PROVE FALSE
            OBVIOUS
          <6>1. run'[r] = [run[r] EXCEPT !.at = Onward(r)]
            BY GoIs
          <6>2. run'[r].at = Onward(r)
            BY <1>1, <6>1 DEF Run
          <6> QED
            BY <4>3, <6>2 DEF Onward
        <5>4. Keeps(r, n)
          BY <5>2, <5>3 DEF FindDeviation
        <5>5. run'[r] = n
          BY <5>4, MoveIs
        <5>6. g \in S \/ (S = {} /\ g = 0)
          BY PlacesAre DEF Sound
        <5> HIDE DEF g
        <5>7. run'[r].event = g
          BY <1>1, <5>5 DEF Run
        <5>8. 0 \notin DOMAIN deviation
          BY Lengths DEF Sound
        <5> QED
          BY <5>6, <5>7, <5>8
      <4> QED
        BY <1>3, <2>1, <4>1, <4>2, <4>3 DEF DeviationFor
    <3> QED
      BY <3>3, <3>4, <3>5
  <2> QED
    BY <2>2, <2>3, <2>4
<1> QED
  BY <1>4, <1>5

LEMMA DeviationNext == ASSUME Sound, DeviationSeen, [Next]_vars PROVE DeviationSeen'
<1>0. UpTo /\ ("deviation" \notin met => Differ /\ \A q \in Runners : DeviationFor(q))
  BY DEF DeviationSeen, DeviationFor, Differ, UpTo
<1> SUFFICES UpTo' /\ ("deviation" \notin met' => Differ' /\ \A q \in Runners : DeviationFor(q)')
  BY DEF DeviationSeen, DeviationFor, Differ, UpTo
<1>1. ASSUME NEW r \in Runners, Steps(r) PROVE UpTo' /\ ("deviation" \notin met' => Differ' /\ \A q \in Runners : DeviationFor(q)')
  <2>1. met' = met /\ day' = day /\ day \in Nat /\ Acts(r) /\ Writes(r)
    BY <1>1, StepsFlow, Lengths DEF Writes, Sound
  <2>2. CASE WriteDeviation(r)
    <3>1. PICK e : e = IF run[r].event = 0 THEN Len(deviation) + 1 ELSE run[r].event
      OBVIOUS
    <3>2. /\ DOMAIN deviation' = DOMAIN deviation \cup {e} /\ deviation'[e].day = day
          /\ \A f \in DOMAIN deviation : f # e => deviation'[f] = deviation[f]
      <4>1. DOMAIN deviation' = DOMAIN deviation \cup {e} /\ deviation'[e] = Detected(r)
        BY <2>2, <3>1, DeviateIs
      <4>2. ASSUME NEW f \in DOMAIN deviation, f # e PROVE deviation'[f] = deviation[f]
        BY <2>2, <3>1, <4>2, DeviateLeaves
      <4> QED
        BY <4>1, <4>2 DEF Detected
    <3> QED
      BY <1>0, <1>1, <2>1, <3>2, DeviationSteps DEF UpTo
  <2>3. CASE ~WriteDeviation(r)
    <3>1. deviation' = deviation
      BY <2>1, <2>3 DEF Writes, Acts, CareFails, care
    <3> QED
      BY <1>0, <1>1, <2>1, <3>1, DeviationSteps DEF UpTo
  <2> QED
    BY <2>2, <2>3
<1>2. ASSUME met \subseteq met', deviation' = deviation, day' \in Nat, day <= day'
      PROVE  UpTo' /\ ("deviation" \notin met' => Differ' /\ \A q \in Runners : run'[q] = run[q] => DeviationFor(q)')
  <2>1. UpTo'
    <3>1. day \in Nat /\ \A e \in DOMAIN deviation : deviation[e].day \in Days
      BY Lengths DEF Sound
    <3>2. FirstDay \in Nat
      BY Constant
    <3>3. \A e \in DOMAIN deviation : deviation[e].day \in Nat
      BY <3>1, <3>2 DEF Days
    <3> QED
      BY <1>0, <1>2, <3>1, <3>3 DEF UpTo
  <2> QED
    BY <1>0, <1>2, <2>1, DeviationKept DEF Differ
<1>3. ASSUME NEW r \in Runners, Starting(r) PROVE UpTo' /\ ("deviation" \notin met' => Differ' /\ \A q \in Runners : DeviationFor(q)')
  <2>1. deviation' = deviation /\ met \subseteq met' /\ day' = day /\ day \in Nat
    BY <1>3, Lengths DEF Starting, Facts, Sound
  <2>2. DeviationFor(r)'
    BY <1>3 DEF Starting, Begun, DeviationFor
  <2> QED
    BY <1>2, <1>3, <2>1, <2>2 DEF Starting
<1>4. ASSUME NEW r \in Runners, Leaving(r) PROVE UpTo' /\ ("deviation" \notin met' => Differ' /\ \A q \in Runners : DeviationFor(q)')
  <2>1. deviation' = deviation /\ met \subseteq met' /\ day' = day /\ day \in Nat
    BY <1>4, Lengths DEF Leaving, Facts, Sound
  <2>2. DeviationFor(r)'
    BY <1>4 DEF Leaving, DeviationFor, Idle
  <2> QED
    BY <1>2, <1>4, <2>1, <2>2 DEF Leaving
<1>5. Resting \/ Confirm => UpTo' /\ ("deviation" \notin met' => Differ' /\ \A q \in Runners : DeviationFor(q)')
  <2>1. day \in Nat
    BY Lengths DEF Sound
  <2> QED
    BY <1>2, <2>1 DEF Resting, Facts, Confirm, care
<1> QED
  BY <1>1, <1>3, <1>4, <1>5, NextFlow

LEMMA DeviationPerDayIs == DeviationSeen => DeviationPerDay
BY DEF DeviationSeen, DeviationPerDay

\* At the start nobody has read anything and there is no row.
LEMMA SeenInit == Init => TrendSeen /\ JobSeen /\ ReportJobs /\ RescueSeen /\ DeviationSeen
<1> SUFFICES ASSUME Init PROVE TrendSeen /\ JobSeen /\ ReportJobs /\ RescueSeen /\ DeviationSeen
  OBVIOUS
<1>1. \A r \in Runners : run[r] = Idle
  BY DEF Init
<1>2. \A r \in Runners : run[r].at = "idle" /\ run[r].does = "none"
  BY <1>1 DEF Idle
<1>3. DOMAIN job = {} /\ DOMAIN rescue = {} /\ DOMAIN deviation = {}
  BY DEF Init
<1>4. TrendSeen
  BY <1>2 DEF TrendSeen
<1>5. JobSeen
  BY <1>2 DEF JobSeen
<1>6. ReportJobs
  BY <1>2, <1>3 DEF ReportJobs, ActiveReportJobs
<1>7. RescueSeen
  BY <1>2, <1>3 DEF RescueSeen, Pending
<1>8. DeviationSeen
  BY <1>2, <1>3 DEF DeviationSeen
<1> QED
  BY <1>4, <1>5, <1>6, <1>7, <1>8

\* What is closed stays closed.
LEMMA ClosedStep ==
  ASSUME Sound, Timeline, [Next]_vars, goal.status \in Closed, "settlement" \notin met
  PROVE  goal'.status = goal.status
<1>1. ASSUME NEW r \in Runners, Steps(r) PROVE goal'.status = goal.status
  <2>1. Acts(r) /\ Writes(r)
    BY <1>1, StepsFlow
  <2>2. CASE SettleWrite(r)
    <3>1. run[r].at = "settle"
      BY <2>2 DEF SettleWrite, At
    <3>2. run[r].status = goal.status
      BY <3>1 DEF Timeline, SettlesWhatIs
    <3>3. goal'.status = Settled(run[r].status, run[r].count, run[r].day)
      BY <2>2 DEF SettleWrite
    <3>4. goal.status # "ACTIVE"
      BY DEF Closed
    <3> QED
      BY <3>2, <3>3, <3>4 DEF Settled
  <2>3. CASE ~SettleWrite(r)
    BY <2>1, <2>3 DEF Writes, Acts
  <2> QED
    BY <2>2, <2>3
<1>2. ASSUME NEW r \in Runners, Starting(r) \/ Leaving(r) PROVE goal' = goal
  BY <1>2 DEF Starting, Leaving, Facts
<1>3. Resting => goal' = goal
  BY DEF Resting, Facts
<1>4. ~Confirm
  BY DEF Confirm, Closed
<1> QED
  BY <1>1, <1>2, <1>3, <1>4, NextFlow

(***************************************************************************)
(* Health.                                                                 *)
(***************************************************************************)
\* Tasks keep their dates and none that is completed is opened again.
Helping == /\ Tasks' = Tasks /\ goal' = goal
           /\ \A t \in Tasks : DateOf(t)' = DateOf(t) /\ (IsTaskCompleted(t) => IsTaskCompleted(t)')

LEMMA OnStays == ASSUME Helping, NEW S PROVE On(S)' = On(S)
BY DEF Helping, On

LEMMA DivGrows == \A a, b \in Nat, n \in Nat \ {0} : a <= b => a \div n <= b \div n
OBVIOUS

\* The share of what is completed does not fall.
LEMMA RateGrows ==
  ASSUME TypeOK, TypeOK', Helping, NEW S
  PROVE  /\ CompletionRate(On(S)) \in Int /\ CompletionRate(On(S))' \in Int
         /\ CompletionRate(On(S)) <= CompletionRate(On(S))'
<1>1. PICK T : T = On(S)
  OBVIOUS
<1>2. T = On(S)' /\ T \subseteq Tasks /\ T \subseteq Tasks'
  BY <1>1, OnStays DEF On, Helping
<1>3. PICK D : D = {t \in T : IsTaskCompleted(t)}
  OBVIOUS
<1>4. PICK E : E = {t \in T : IsTaskCompleted(t)'}
  OBVIOUS
<1>5. D \subseteq E /\ E \subseteq T
  BY <1>2, <1>3, <1>4 DEF Helping
<1>6. IsFiniteSet(T) /\ Cardinality(T) \in Nat
  BY <1>2, TasksFinite
<1>7. IsFiniteSet(E) /\ Cardinality(D) \in Nat /\ Cardinality(E) \in Nat /\ Cardinality(D) <= Cardinality(E)
  BY <1>5, <1>6, FS_Subset, FS_CardinalityType
<1>8. T # {} => Cardinality(T) # 0
  BY <1>6, FS_EmptySet
<1>9. CompletionRate(On(S)) = IF T = {} THEN 0 ELSE (200 * Cardinality(D) + Cardinality(T)) \div (2 * Cardinality(T))
  BY <1>1, <1>3 DEF CompletionRate
<1>10. CompletionRate(On(S))' = IF T = {} THEN 0 ELSE (200 * Cardinality(E) + Cardinality(T)) \div (2 * Cardinality(T))
  BY <1>2, <1>4 DEF CompletionRate
<1>11. CASE T = {}
  BY <1>9, <1>10, <1>11
<1>12. CASE T # {}
  <2> DEFINE a == 200 * Cardinality(D) + Cardinality(T)
             b == 200 * Cardinality(E) + Cardinality(T)
             n == 2 * Cardinality(T)
  <2>1. a \in Nat /\ b \in Nat /\ n \in Nat \ {0} /\ a <= b
    BY <1>6, <1>7, <1>8, <1>12
  <2>2. CompletionRate(On(S)) = a \div n /\ CompletionRate(On(S))' = b \div n
    BY <1>9, <1>10, <1>12
  <2> HIDE DEF a, b, n
  <2>3. a \div n \in Int /\ b \div n \in Int
    BY <2>1
  <2> QED
    BY <2>1, <2>2, <2>3, DivGrows
<1> QED
  BY <1>11, <1>12

\* No day of the streak is lost.
LEMMA StreakGrows ==
  ASSUME Helping, NEW d \in Nat
  PROVE  StreakDays(d) \in Nat /\ StreakDays(d)' \in Nat /\ StreakDays(d) <= StreakDays(d)'
<1>1. PICK A : A = {e \in 0..d : \A f \in e..d : \E t \in On({f}) : IsTaskCompleted(t)}
  OBVIOUS
<1>2. PICK B : B = {e \in 0..d : \A f \in e..d : \E t \in On({f}) : IsTaskCompleted(t)'}
  OBVIOUS
<1>3. A \subseteq B /\ B \subseteq 0..d
  <2>1. \A f : \A t \in On({f}) : IsTaskCompleted(t) => IsTaskCompleted(t)'
    BY DEF Helping, On
  <2> QED
    BY <1>1, <1>2, <2>1
<1>4. IsFiniteSet(0..d)
  BY FS_Interval
<1>5. IsFiniteSet(B) /\ Cardinality(A) \in Nat /\ Cardinality(B) \in Nat /\ Cardinality(A) <= Cardinality(B)
  BY <1>3, <1>4, FS_Subset, FS_CardinalityType
<1>6. StreakDays(d) = Cardinality(A)
  BY <1>1 DEF StreakDays
<1>7. StreakDays(d)' = Cardinality(B)
  <2>1. \A f : On({f})' = On({f})
    BY OnStays
  <2> QED
    BY <1>2, <2>1 DEF StreakDays
<1> QED
  BY <1>5, <1>6, <1>7

\* No risk is added.
LEMMA RiskFalls ==
  ASSUME TypeOK, TypeOK', Helping, NEW d \in Nat, NEW low
  PROVE  /\ RiskCount(d, low) \in Nat /\ RiskCount(d, low)' \in Nat
         /\ RiskCount(d, low)' <= RiskCount(d, low)
<1>1. PICK W : W = WeekRange(d)
  OBVIOUS
<1>2. PICK x : x = CompletionRate(On(W))
  OBVIOUS
<1>3. PICK y : y = CompletionRate(On(W))'
  OBVIOUS
<1>4. PICK s : s = StreakDays(d)
  OBVIOUS
<1>5. PICK u : u = StreakDays(d)'
  OBVIOUS
<1>6. x \in Int /\ y \in Int /\ x <= y /\ s \in Nat /\ u \in Nat /\ s <= u
  BY <1>2, <1>3, <1>4, <1>5, RateGrows, StreakGrows
<1>7. PICK z : z = Tolerance
  OBVIOUS
<1>8. z = Tolerance'
  BY <1>7 DEF Tolerance, Helping
<1>9. PICK A : A = {n \in 1..4 : \/ n = 1 /\ x < 60
                                 \/ n = 2 /\ s = 0
                                 \/ n = 3 /\ "LOW_SCORE" \in low
                                 \/ n = 4 /\ z <= 1}
  OBVIOUS
<1>10. PICK B : B = {n \in 1..4 : \/ n = 1 /\ y < 60
                                  \/ n = 2 /\ u = 0
                                  \/ n = 3 /\ "LOW_SCORE" \in low
                                  \/ n = 4 /\ z <= 1}
  OBVIOUS
<1>11. B \subseteq A /\ A \subseteq 1..4
  <2>1. y < 60 => x < 60
    BY <1>6
  <2>2. u = 0 => s = 0
    BY <1>6
  <2> QED
    BY <1>9, <1>10, <2>1, <2>2
<1>12. PICK F : F = DeviationReasons(d, low) \cap {"LOW_INVESTMENT", "TASK_DELAY"}
  OBVIOUS
<1>13. PICK G : G = DeviationReasons(d, low)' \cap {"LOW_INVESTMENT", "TASK_DELAY"}
  OBVIOUS
<1>14. G \subseteq F /\ F \subseteq {"LOW_INVESTMENT", "TASK_DELAY"}
  <2>1. Overdue(d)' # {} => Overdue(d) # {}
    BY DEF Overdue, Helping
  <2>2. "TASK_DELAY" \in DeviationReasons(d, low)' => "TASK_DELAY" \in DeviationReasons(d, low)
    BY <2>1 DEF DeviationReasons
  <2>3. "LOW_INVESTMENT" \in DeviationReasons(d, low)' => "LOW_INVESTMENT" \in DeviationReasons(d, low)
    BY DEF DeviationReasons
  <2> QED
    BY <1>12, <1>13, <2>2, <2>3
<1>15. IsFiniteSet(1..4)
  <2>1. 1 \in Int /\ 4 \in Int
    OBVIOUS
  <2> QED
    BY <2>1, FS_Interval, Zenon
<1>16. IsFiniteSet({"LOW_INVESTMENT", "TASK_DELAY"})
  <2>1. {"LOW_INVESTMENT", "TASK_DELAY"} = {"LOW_INVESTMENT"} \cup {"TASK_DELAY"}
    OBVIOUS
  <2>2. IsFiniteSet({"LOW_INVESTMENT"}) /\ IsFiniteSet({"TASK_DELAY"})
    BY FS_Singleton
  <2> QED
    BY <2>1, <2>2, FS_Union
<1>17. /\ Cardinality(A) \in Nat /\ Cardinality(B) \in Nat /\ Cardinality(B) <= Cardinality(A)
       /\ Cardinality(F) \in Nat /\ Cardinality(G) \in Nat /\ Cardinality(G) <= Cardinality(F)
  <2>1. IsFiniteSet(A) /\ IsFiniteSet(F)
    BY <1>11, <1>14, <1>15, <1>16, FS_Subset
  <2> QED
    BY <1>11, <1>14, <2>1, FS_Subset, FS_CardinalityType
<1>18. RiskCount(d, low) = Cardinality(A) + Cardinality(F)
  BY <1>1, <1>2, <1>4, <1>7, <1>9, <1>12 DEF RiskCount
<1>19. RiskCount(d, low)' = Cardinality(B) + Cardinality(G)
  <2>1. W = WeekRange(d)'
    BY <1>1 DEF WeekRange
  <2>2. y = CompletionRate(On(WeekRange(d)))'
    BY <1>1, <1>3
  <2> QED
    BY <2>2, <1>5, <1>8, <1>10, <1>13 DEF RiskCount
<1> QED
  BY <1>17, <1>18, <1>19

\* To complete a task never lowers the health.
LEMMA HealthGrows ==
  ASSUME TypeOK, TypeOK', Helping, NEW d \in Nat, NEW low
  PROVE  HealthScore(d, low)' >= HealthScore(d, low)
<1>1. PICK W : W = WeekRange(d)
  OBVIOUS
<1>2. PICK x : x = CompletionRate(On({d}))
  OBVIOUS
<1>3. PICK y : y = CompletionRate(On({d}))'
  OBVIOUS
<1>4. PICK v : v = CompletionRate(On(W))
  OBVIOUS
<1>5. PICK w : w = CompletionRate(On(W))'
  OBVIOUS
<1>6. PICK s : s = StreakDays(d)
  OBVIOUS
<1>7. PICK u : u = StreakDays(d)'
  OBVIOUS
<1>8. PICK k : k = RiskCount(d, low)
  OBVIOUS
<1>9. PICK l : l = RiskCount(d, low)'
  OBVIOUS
<1>10. PICK z : z = Tolerance
  OBVIOUS
<1>11. z = Tolerance' /\ z \in Nat
  BY <1>10, ToleranceIs DEF Tolerance, Helping
<1>12. /\ x \in Int /\ y \in Int /\ x <= y /\ v \in Int /\ w \in Int /\ v <= w
       /\ s \in Nat /\ u \in Nat /\ s <= u /\ k \in Nat /\ l \in Nat /\ l <= k
  BY <1>2, <1>3, <1>4, <1>5, <1>6, <1>7, <1>8, <1>9, RateGrows, StreakGrows, RiskFalls
<1>13. PICK f : f = 25 * (IF "LOW_SCORE" \in low THEN 50 ELSE 70)
  OBVIOUS
<1>14. f \in Int
  BY <1>13
<1>15. PICK p : p = HealthPoints(d, low)
  OBVIOUS
<1>16. PICK q : q = HealthPoints(d, low)'
  OBVIOUS
<1>17. p = 2000 + 22 * x + 28 * v + 100 * Lesser(15, 3 * s) + f + 100 * Lesser(10, 2 * z) - 600 * k
  BY <1>1, <1>2, <1>4, <1>6, <1>8, <1>10, <1>13, <1>15 DEF HealthPoints
<1>18. q = 2000 + 22 * y + 28 * w + 100 * Lesser(15, 3 * u) + f + 100 * Lesser(10, 2 * z) - 600 * l
  BY <1>1, <1>3, <1>5, <1>7, <1>9, <1>11, <1>13, <1>16 DEF HealthPoints
<1>19. /\ Lesser(15, 3 * s) \in Int /\ Lesser(15, 3 * u) \in Int /\ Lesser(15, 3 * s) <= Lesser(15, 3 * u)
       /\ Lesser(10, 2 * z) \in Int
  <2>1. PICK a : a = 3 * s
    OBVIOUS
  <2>2. PICK b : b = 3 * u
    OBVIOUS
  <2>3. PICK c : c = 2 * z
    OBVIOUS
  <2>4. a \in Int /\ b \in Int /\ a <= b /\ c \in Int
    BY <1>11, <1>12, <2>1, <2>2, <2>3
  <2>5. Lesser(15, a) \in Int /\ Lesser(15, b) \in Int /\ Lesser(15, a) <= Lesser(15, b) /\ Lesser(10, c) \in Int
    BY <2>4 DEF Lesser
  <2> QED
    BY <2>1, <2>2, <2>3, <2>5
<1>20. p \in Int /\ q \in Int /\ p <= q
  BY <1>12, <1>14, <1>17, <1>18, <1>19
<1>21. (p + 50) \div 100 \in Int /\ (q + 50) \div 100 \in Int /\ (p + 50) \div 100 <= (q + 50) \div 100
  BY <1>20
<1>22. HealthScore(d, low) = LET score == (p + 50) \div 100 IN IF score < 0 THEN 0 ELSE Lesser(100, score)
  BY <1>15 DEF HealthScore
<1>23. HealthScore(d, low)' = LET score == (q + 50) \div 100 IN IF score < 0 THEN 0 ELSE Lesser(100, score)
  BY <1>16 DEF HealthScore
<1> QED
  BY <1>21, <1>22, <1>23 DEF Lesser

\* What changes the tasks keeps their dates, the goal and the day.
LEMMA HelpingStep ==
  ASSUME Sound, [Next]_vars, tasks' # tasks, DOMAIN rescue' = DOMAIN rescue,
         \A t \in Tasks : IsTaskCompleted(t) => IsTaskCompleted(t)'
  PROVE  Helping /\ day' = day
<1>1. ASSUME NEW r \in Runners, Steps(r) PROVE goal' = goal /\ day' = day /\ \A i \in DOMAIN rescue : rescue'[i].day = rescue[i].day
  <2>1. Writes(r) /\ Acts(r)
    BY <1>1, StepsFlow
  <2>2. goal' = goal /\ day' = day
    <3>1. run[r].at # "settle"
      <4> SUFFICES ASSUME run[r].at = "settle" PROVE FALSE
        OBVIOUS
      <4>1. SettleWrite(r)
        BY <2>1 DEF Acts
      <4> QED
        BY <4>1 DEF SettleWrite
    <3> QED
      BY <2>1, <3>1 DEF Writes
  <2>3. CASE PersistRescue(r)
    <3>1. PICK k : k = IF run[r].found = 0 THEN Len(rescue) + 1 ELSE run[r].found
      OBVIOUS
    <3> QED
      BY <2>2, <2>3, <3>1, PersistIs
  <2>4. CASE CheckinWrite(r)
    BY <2>2, <2>4, CheckinIs
  <2>5. CASE ~PersistRescue(r) /\ ~CheckinWrite(r)
    <3>1. rescue' = rescue
      BY <2>1, <2>5 DEF Writes, Acts, CareFails, MilestoneWrite, tasks
    <3> QED
      BY <2>2, <3>1
  <2> QED
    BY <2>3, <2>4, <2>5
<1>2. \A r \in Runners : ~Starting(r) /\ ~Leaving(r)
  BY DEF Starting, Leaving, Facts, tasks
<1>3. ~Resting /\ ~Confirm
  BY DEF Resting, Facts, Confirm, tasks
<1>4. goal' = goal /\ day' = day /\ \A i \in DOMAIN rescue : rescue'[i].day = rescue[i].day
  BY <1>1, <1>2, <1>3, NextFlow
<1>5. Tasks' = Tasks
  BY DEF Tasks
<1>6. \A t \in Tasks : DateOf(t)' = DateOf(t)
  BY <1>4 DEF Tasks, DateOf
<1> QED
  BY <1>4, <1>5, <1>6 DEF Helping

(***************************************************************************)
(* The invariant and what follows from it.                                 *)
(***************************************************************************)
\* The inductive invariant.
Carried == Sound /\ Timeline /\ TrendSeen /\ JobSeen /\ ReportJobs /\ RescueSeen /\ DeviationSeen

LEMMA CarriedNext == Carried /\ [Next]_vars => Carried'
<1> SUFFICES ASSUME Carried, [Next]_vars PROVE Carried'
  OBVIOUS
<1>1. Sound /\ Timeline /\ TrendSeen /\ JobSeen /\ ReportJobs /\ RescueSeen /\ DeviationSeen
  BY DEF Carried
<1>2. Sound' /\ Timeline'
  BY <1>1, SoundNext, TimelineNext
<1>3. TrendSeen' /\ JobSeen' /\ ReportJobs'
  BY <1>1, TrendNext, JobNext, ReportNext
<1>4. RescueSeen' /\ DeviationSeen'
  BY <1>1, RescueNext, DeviationNext
<1> QED
  BY <1>2, <1>3, <1>4 DEF Carried

LEMMA CarriedAlways == Spec => []Carried
<1>1. Init => Carried
  BY SoundInit, TimelineInit, SeenInit DEF Carried
<1>2. Carried /\ [Next]_vars => Carried'
  BY CarriedNext
<1> QED
  BY <1>1, <1>2, PTL DEF Spec

\* The timeline tells what the rows of the goal say, and trend reports what its snapshots
\* do, whoever writes them and however the requests and workers of a goal interleave, but for
\* the overlaps that met counts: of settlements, of a backfill with a milestone's change, of
\* reports with each other or with a snapshot.
THEOREM TimelineMatchesHolds == Spec => []TimelineMatches
<1>1. Carried => TimelineMatches
  <2> SUFFICES ASSUME Carried PROVE TimelineMatches
    OBVIOUS
  <2>1. TypeOK /\ OutcomeRecorded /\ EventsDerived
    BY DEF Carried, Sound, Timeline
  <2>2. TrendIsRead
    BY TrendReadIs DEF Carried
  <2> QED
    BY <2>1, <2>2 DEF TimelineMatches
<1> QED
  BY <1>1, CarriedAlways, PTL

\* However often requests, workers and administrators ask for it and whatever dies in
\* between, nothing is made twice: no report job, no rescue task of a day, no deviation, as
\* long as no two of those that make the same thing overlap, and, for report jobs, no
\* cancellation overlaps with a worker and no administrator revives one.
THEOREM NothingTwiceHolds == Spec => []NothingTwice
<1>1. Carried => NothingTwice
  BY OneReportIs, OneRescueIs, DeviationPerDayIs DEF Carried, NothingTwice
<1> QED
  BY <1>1, CarriedAlways, PTL

\* What has ended stays ended: the outcome of a goal, unless settlements or a settlement and a
\* confirmation overlap (goals.service.ts:1855), and the jobs of reports on failures and of
\* rescue, whose entries a worker may take up again, unless a cancellation or retry overlaps.
THEOREM EndStaysHolds == Spec => EndStays
<1>1. Carried /\ [Next]_vars => [goal.status \in Closed /\ "settlement" \notin met => goal'.status = goal.status]_goal
  BY ClosedStep DEF Carried
<1>2. Carried /\ [Next]_vars =>
        [\A j \in DOMAIN job :
           job[j].type \in {"FAILURE", "RESCUE"} /\ job[j].status \in {"SUCCEEDED", "CANCELLED"} /\ "job" \notin met
             => job'[j].status = job[j].status]_job
  <2> SUFFICES ASSUME Carried, [Next]_vars, NEW j \in DOMAIN job,
                      job[j].type \in {"FAILURE", "RESCUE"}, job[j].status \in {"SUCCEEDED", "CANCELLED"}, "job" \notin met
               PROVE  job'[j].status = job[j].status
    OBVIOUS
  <2> QED
    BY EndedStep DEF Carried
<1>3. Spec => ClosedStays
  BY <1>1, CarriedAlways, PTL DEF Spec, ClosedStays
<1>4. Spec => EndedJobStays
  BY <1>2, CarriedAlways, PTL DEF Spec, EndedJobStays
<1> QED
  BY <1>3, <1>4 DEF EndStays

\* To complete a task never lowers the health of the day, whatever the check-ins say and
\* whichever day the task was planned for.
THEOREM CompletionHelpsHolds == Spec => CompletionHelps
<1>1. Carried /\ Carried' /\ [Next]_vars =>
        [/\ tasks' # tasks
         /\ DOMAIN rescue' = DOMAIN rescue
         /\ \A t \in Tasks : IsTaskCompleted(t) => IsTaskCompleted(t)'
         => \A low \in Signals : HealthScore(day, low)' >= HealthScore(day, low)]_tasks
  <2> SUFFICES ASSUME Carried, Carried', [Next]_vars, tasks' # tasks, DOMAIN rescue' = DOMAIN rescue,
                      \A t \in Tasks : IsTaskCompleted(t) => IsTaskCompleted(t)', NEW low \in Signals
               PROVE  HealthScore(day, low)' >= HealthScore(day, low)
    OBVIOUS
  <2>1. Sound /\ TypeOK /\ TypeOK'
    BY DEF Carried, Sound
  <2>2. Helping /\ day' = day
    BY <2>1, HelpingStep
  <2>3. PICK d : d = day
    OBVIOUS
  <2>4. d \in Nat
    BY <2>1, <2>3, Lengths
  <2>5. HealthScore(d, low)' >= HealthScore(d, low)
    BY <2>1, <2>2, <2>4, HealthGrows
  <2>6. HealthScore(d, low) = HealthScore(day, low)
    BY <2>3
  <2>7. HealthScore(d, low)' = HealthScore(day, low)'
    BY <2>2, <2>3
  <2> QED
    BY <2>5, <2>6, <2>7
<1> QED
  BY <1>1, CarriedAlways, PTL DEF Spec, CompletionHelps
=============================================================================
