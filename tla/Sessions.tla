------------------------------ MODULE Sessions ------------------------------
(***************************************************************************)
(* Sessions of the WeChat mini program: the server's accounts, bindings    *)
(* and client sessions (auth.service.ts, auth.guard.ts) and the programs   *)
(* that hold their tokens (miniapp/utils/api.ts and its pages).            *)
(*                                                                         *)
(* A session is made or renewed with a pair of tokens.  The access token   *)
(* is signed and valid until it expires or its session ends; the refresh   *)
(* token is valid as long as the session's row holds its hash.  A pair is  *)
(* a number here.  A program renews its pair when an answer is 401, one    *)
(* renewal at a time, and asks again.                                      *)
(*                                                                         *)
(* Left out: passwords, the forms' checks, the profile in an answer, the   *)
(* sessions of the web client, which have no row.                          *)
(***************************************************************************)
EXTENDS Integers, FiniteSets

CONSTANTS
  Users, Wechats,
  Clients,      \* mini programs
  Calls,        \* requests of a program: [Calls -> Clients] is Caller
  WechatOf, Caller,
  None,
  MaxSessions, MaxPairs, MaxMishaps  \* bounds

ASSUME SessionsAssumption ==
  /\ WechatOf \in [Clients -> Wechats] /\ Caller \in [Calls -> Clients]
  /\ None \notin Wechats
  /\ MaxSessions \in Nat /\ MaxPairs \in Nat /\ MaxMishaps \in Nat

Ids == 1..MaxSessions
Pairs == 1..MaxPairs

VARIABLES
  account,   \* [Users -> {"none", "active", "deleted"}]
  binding,   \* [Users -> Wechats \cup {None}]
  session,   \* [Ids -> SessionRow]
  sessionOf, \* [Pairs -> Ids \cup {0}]: the session a pair was made for, 0 for none
  expired,   \* the pairs whose access token has expired
  stored,    \* [Clients -> Pairs \cup {0}]: accessToken and refreshToken
  loggedIn,  \* [Clients -> BOOLEAN]
  refreshing,\* [Clients -> BOOLEAN]: isRefreshing
  call,      \* [Calls -> Call]
  login,     \* [Clients -> Login]
  logout,    \* [Clients -> Logout]
  torn,      \* [Clients -> BOOLEAN]: its logout met a renewal, or an answer was lost
  mixed,     \* [Users -> BOOLEAN]: unbound during a login, or by the web client
  mishaps

rows == <<account, binding, session, sessionOf>>
program == <<stored, loggedIn, refreshing>>
sessionsVars == <<rows, expired, program, call, login, logout, torn, mixed, mishaps>>
-----------------------------------------------------------------------------
SessionStatus == {"none", "active", "over", "revoked", "deleted"}
Kind == {"read", "unbind"}
Silent == [at |-> "idle"]
Call == [at : {"idle"}]
        \cup [at : {"sent", "refresh", "rotate", "renewed", "refused"}, kind : Kind,
              pair : Pairs \cup {0}]
        \cup [at : {"admitted"}, kind : Kind, user : Users]
        \cup [at : {"ok", "401", "queued"}, kind : Kind]
Login == [at : {"idle", "asked", "offered"}]
         \cup [at : {"found"}, user : Users] \cup [at : {"made"}, pair : Pairs]
Logout == [at : {"idle", "back"}] \cup [at : {"sent"}, pair : Pairs]

SessionsTypeOK ==
  /\ account \in [Users -> {"none", "active", "deleted"}]
  /\ binding \in [Users -> Wechats \cup {None}]
  /\ session \in [Ids -> [user : Users \cup {None}, pair : Pairs \cup {0}, status : SessionStatus]]
  /\ sessionOf \in [Pairs -> Ids \cup {0}]
  /\ expired \subseteq {p \in Pairs : sessionOf[p] # 0}
  /\ stored \in [Clients -> {p \in Pairs : sessionOf[p] # 0} \cup {0}]
  /\ loggedIn \in [Clients -> BOOLEAN]
  /\ refreshing \in [Clients -> BOOLEAN]
  /\ call \in [Calls -> Call]
  /\ login \in [Clients -> Login]
  /\ logout \in [Clients -> Logout]
  /\ torn \in [Clients -> BOOLEAN]
  /\ mixed \in [Users -> BOOLEAN]
  /\ mishaps \in 0..MaxMishaps

SessionsInit ==
  /\ account = [u \in Users |-> "none"]
  /\ binding = [u \in Users |-> None]
  /\ session = [s \in Ids |-> [user |-> None, pair |-> 0, status |-> "none"]]
  /\ sessionOf = [p \in Pairs |-> 0]
  /\ expired = {}
  /\ stored = [c \in Clients |-> 0]
  /\ loggedIn = [c \in Clients |-> FALSE]
  /\ refreshing = [c \in Clients |-> FALSE]
  /\ call = [r \in Calls |-> Silent]
  /\ login = [c \in Clients |-> Silent]
  /\ logout = [c \in Clients |-> Silent]
  /\ torn = [c \in Clients |-> FALSE]
  /\ mixed = [u \in Users |-> FALSE]
  /\ mishaps = 0
-----------------------------------------------------------------------------
(* Accounts and bindings, on the server.                                    *)

\* The pair is made with the session's row or written to it.
Fresh(p) == sessionOf[p] = 0 /\ \A q \in Pairs : sessionOf[q] = 0 => p <= q

LoggingIn(u) == \E c \in Clients : login[c].at = "found" /\ login[c].user = u
HasSession(u) == \E s \in Ids : session[s].user = u /\ session[s].status = "active"

\* Mutant of Revoked: one session, the oldest.
RevokedOne(u) ==
  [s \in Ids |-> IF session[s].user = u /\ \A q \in Ids : session[q].user = u => s <= q
                 THEN [session[s] EXCEPT !.status = "revoked"] ELSE session[s]]

Revoked(u) ==
  [s \in Ids |-> IF session[s].user = u /\ session[s].status # "deleted"
                 THEN [session[s] EXCEPT !.status = "revoked"] ELSE session[s]]

\* POST /auth/register, by the web client.
WebRegister(u) ==
  /\ account[u] = "none"
  /\ account' = [account EXCEPT ![u] = "active"]
  /\ UNCHANGED <<binding, session, sessionOf, expired, program, call, login, logout, torn,
                 mixed, mishaps>>

\* NotificationsService.unbindWechat, from the web client: the row goes, the
\* sessions stay.
WebUnbind(u) ==
  /\ binding[u] # None
  /\ binding' = [binding EXCEPT ![u] = None]
  /\ mixed' = [mixed EXCEPT ![u] = @ \/ HasSession(u) \/ LoggingIn(u)]
  /\ UNCHANGED <<account, session, sessionOf, expired, program, call, login, logout, torn, mishaps>>

\* deleteCurrentUser; the rows of the user go with it.
DeleteAccount(u) ==
  /\ account[u] = "active"
  /\ account' = [account EXCEPT ![u] = "deleted"]
  /\ binding' = [binding EXCEPT ![u] = None]
  /\ session' = [s \in Ids |-> IF session[s].user = u THEN [session[s] EXCEPT !.status = "deleted"]
                               ELSE session[s]]
  /\ UNCHANGED <<sessionOf, expired, program, call, login, logout, torn, mixed, mishaps>>

\* Time passes for an access token that is still held, or for a session.
Held(p) == (\E c \in Clients : stored[c] = p)
           \/ \E r \in Calls : call[r].at = "sent" /\ call[r].pair = p
Expire(p) ==
  /\ Held(p) /\ p \notin expired
  /\ expired' = expired \cup {p}
  /\ UNCHANGED <<rows, program, call, login, logout, torn, mixed, mishaps>>
EndOfSession(s) ==
  /\ session[s].status = "active"
  /\ session' = [session EXCEPT ![s].status = "over"]
  /\ UNCHANGED <<account, binding, sessionOf, expired, program, call, login, logout, torn,
                 mixed, mishaps>>
-----------------------------------------------------------------------------
(* Logging in, on the login page.                                           *)

LoginStep(c, step) ==
  /\ login' = [login EXCEPT ![c] = step]
  /\ UNCHANGED <<expired, call, logout, torn, mixed>>

HandleWechatLogin(c) ==
  /\ ~loggedIn[c] /\ login[c].at \in {"idle", "offered"}
  /\ LoginStep(c, [at |-> "asked"])
  /\ UNCHANGED <<rows, program, mishaps>>

\* The WeChat account that a code stands for, None if WeChat takes it for no code.
exchangeWechatCode(c) == {None, WechatOf[c]}

findActiveWechatBinding(w) == {u \in Users : binding[u] = w}

\* loginWechatMiniProgram: who is bound to the WeChat account of c, or an offer to
\* bind it; an error is shown for a code that is refused.
LoginWechatMiniProgram(c) ==
  /\ login[c].at = "asked"
  /\ \E w \in exchangeWechatCode(c) :
       LoginStep(c, IF w = None THEN Silent
                    ELSE IF findActiveWechatBinding(w) = {} THEN [at |-> "offered"]
                    ELSE [at |-> "found", user |-> CHOOSE u \in findActiveWechatBinding(w) : TRUE])
  /\ UNCHANGED <<rows, program, mishaps>>

\* The token of an offer runs out: from then on verifyWechatBindToken refuses what the
\* form sends, and the user has to log in again.
OfferExpires(c) ==
  /\ login[c].at = "offered"
  /\ LoginStep(c, Silent)
  /\ UNCHANGED <<rows, program, mishaps>>

\* The row of the user is overwritten; a WeChat account is bound once.
upsertWechatBindingForUser(u, w) ==
  /\ findActiveWechatBinding(w) \subseteq {u}
  /\ binding' = [binding EXCEPT ![u] = w]

\* bindWechatMiniProgramExisting, registerWechatMiniProgram: a new account and its
\* binding are written together.
Bind(c, u) ==
  /\ login[c].at = "offered"
  /\ account[u] \in {"active", "none"}
  /\ account' = [account EXCEPT ![u] = "active"]
  /\ upsertWechatBindingForUser(u, WechatOf[c])
  /\ LoginStep(c, [at |-> "found", user |-> u])
  /\ UNCHANGED <<session, sessionOf, program, mishaps>>

FirstFree(s) ==
  session[s].status = "none" /\ \A q \in Ids : session[q].status = "none" => s <= q
Creatable(u) ==
  account[u] = "active" /\ (\E s \in Ids : FirstFree(s)) /\ \E p \in Pairs : Fresh(p)

\* buildWechatSessionResponse: the access token names the session.
Issues(p, s) == sessionOf' = [sessionOf EXCEPT ![p] = s]

\* createWechatMiniProgramSession; no session for a row that is gone.
CreateSession(c) ==
  /\ login[c].at = "found" /\ Creatable(login[c].user)
  /\ \E s \in Ids, p \in Pairs :
       /\ FirstFree(s) /\ Fresh(p)
       /\ session' = [session EXCEPT ![s] = [user |-> login[c].user, pair |-> p,
                                             status |-> "active"]]
       /\ Issues(p, s)
       /\ LoginStep(c, [at |-> "made", pair |-> p])
  /\ UNCHANGED <<account, binding, program, mishaps>>

\* setTokens; or an error is shown: the bound, a deleted account.
LoggedIn(c) ==
  /\ login[c].at = "made"
  /\ stored' = [stored EXCEPT ![c] = login[c].pair]
  /\ loggedIn' = [loggedIn EXCEPT ![c] = TRUE]
  /\ LoginStep(c, Silent)
  /\ UNCHANGED <<rows, refreshing, mishaps>>
LoginFails(c) ==
  /\ login[c].at = "found" /\ ~Creatable(login[c].user)
  /\ LoginStep(c, Silent)
  /\ UNCHANGED <<rows, program, mishaps>>
LoseLogin(c) ==
  /\ login[c].at \in {"asked", "made"} /\ mishaps < MaxMishaps
  /\ mishaps' = mishaps + 1
  /\ LoginStep(c, Silent)
  /\ UNCHANGED <<rows, program>>
-----------------------------------------------------------------------------
(* Requests.                                                                *)

CallsOf(c) == {r \in Calls : Caller[r] = c}

CallStep(r, step) ==
  /\ call' = [call EXCEPT ![r] = step]
  /\ UNCHANGED <<expired, loggedIn, login>>

\* request: a page, or confirmUnbind, asks with the token that is stored.
Request(r, kind) ==
  LET c == Caller[r] IN
  /\ call[r] = Silent /\ loggedIn[c]
  /\ CallStep(r, [at |-> "sent", kind |-> kind, pair |-> stored[c]])
  /\ UNCHANGED <<rows, stored, refreshing, logout, torn, mixed, mishaps>>

SessionActive(p) == p # 0 /\ session[sessionOf[p]].status = "active"

\* SessionTokenService.verify, of a token that the service has signed.
Verified(p) == p # 0 /\ p \notin expired

\* AuthGuard, assertClientSessionActive.
Guard(r) ==
  /\ call[r].at = "sent"
  /\ LET p == call[r].pair
         kind == call[r].kind
         admits == Verified(p) /\ SessionActive(p)
     IN \/ ~admits /\ CallStep(r, [at |-> "401", kind |-> kind])
        \/ admits /\ kind = "read" /\ CallStep(r, [at |-> "ok", kind |-> kind])
        \/ /\ admits /\ kind = "unbind"
           /\ CallStep(r, [at |-> "admitted", kind |-> kind, user |-> session[sessionOf[p]].user])
  /\ UNCHANGED <<rows, stored, refreshing, logout, torn, mixed, mishaps>>

\* unbindWechatMiniProgram, once its session is found active, looks the user up again.
UnbindRefused(r) ==
  /\ call[r].at = "admitted" /\ account[call[r].user] # "active"
  /\ CallStep(r, [at |-> "401", kind |-> "unbind"])
  /\ UNCHANGED <<rows, stored, refreshing, logout, torn, mixed, mishaps>>
Unbind(r) ==
  /\ call[r].at = "admitted" /\ account[call[r].user] = "active"
  /\ LET u == call[r].user IN
     /\ binding' = [binding EXCEPT ![u] = None]
     /\ session' = Revoked(u)
     /\ mixed' = [mixed EXCEPT ![u] = @ \/ LoggingIn(u)]
  /\ CallStep(r, [at |-> "ok", kind |-> "unbind"])
  /\ UNCHANGED <<account, sessionOf, stored, refreshing, logout, torn, mishaps>>

\* logoutMiniProgram asks with the token that is stored; without one it is done.
LogsOut(c) ==
  \/ /\ stored[c] = 0
     /\ loggedIn' = [loggedIn EXCEPT ![c] = FALSE]
     /\ UNCHANGED <<logout, torn>>
  \/ /\ stored[c] # 0
     /\ logout' = [logout EXCEPT ![c] = [at |-> "sent", pair |-> stored[c]]]
     /\ torn' = [torn EXCEPT ![c] = @ \/ refreshing[c]]
     /\ UNCHANGED loggedIn

\* confirmUnbind goes on with logging out.
Answered(r) ==
  /\ call[r].at = "ok"
  /\ IF call[r].kind = "unbind" /\ logout[Caller[r]] = Silent THEN LogsOut(Caller[r])
     ELSE UNCHANGED <<loggedIn, logout, torn>>
  /\ call' = [call EXCEPT ![r] = Silent]
  /\ UNCHANGED <<rows, expired, stored, refreshing, login, mixed, mishaps>>

\* A request or its answer is lost: the call fails, whatever the server did.
Lose(r) ==
  /\ call[r].at \in {"sent", "ok", "401"} /\ mishaps < MaxMishaps
  /\ mishaps' = mishaps + 1
  /\ CallStep(r, Silent)
  /\ UNCHANGED <<rows, stored, refreshing, logout, torn, mixed>>
-----------------------------------------------------------------------------
(* tryRefreshAndRetry.                                                      *)

\* Mutant of Unauthorized: nobody waits for a renewal under way.
UnauthorizedAgain(r) ==
  LET c == Caller[r]
      kind == call[r].kind
  IN
  /\ call[r].at = "401"
  /\ \/ stored[c] = 0 /\ CallStep(r, Silent) /\ UNCHANGED <<refreshing, torn>>
     \/ /\ stored[c] # 0
        /\ refreshing' = [refreshing EXCEPT ![c] = TRUE]
        /\ torn' = [torn EXCEPT ![c] = @ \/ logout[c] # Silent]
        /\ CallStep(r, [at |-> "refresh", kind |-> kind, pair |-> stored[c]])
  /\ UNCHANGED <<rows, stored, logout, mixed, mishaps>>

Unauthorized(r) ==
  LET c == Caller[r]
      kind == call[r].kind
  IN
  /\ call[r].at = "401"
  /\ \/ stored[c] = 0 /\ CallStep(r, Silent) /\ UNCHANGED <<refreshing, torn>>
     \/ /\ stored[c] # 0 /\ refreshing[c]
        /\ CallStep(r, [at |-> "queued", kind |-> kind]) /\ UNCHANGED <<refreshing, torn>>
     \/ /\ stored[c] # 0 /\ ~refreshing[c]
        /\ refreshing' = [refreshing EXCEPT ![c] = TRUE]
        /\ torn' = [torn EXCEPT ![c] = @ \/ logout[c] # Silent]
        /\ CallStep(r, [at |-> "refresh", kind |-> kind, pair |-> stored[c]])
  /\ UNCHANGED <<rows, stored, logout, mixed, mishaps>>

Stage(r, at) == [at |-> at, kind |-> call[r].kind, pair |-> call[r].pair]

\* refreshWechatMiniProgramSession looks the hash up.
RefreshReads(r) ==
  /\ call[r].at = "refresh"
  /\ LET p == call[r].pair IN
     CallStep(r, Stage(r, IF SessionActive(p) /\ session[sessionOf[p]].pair = p THEN "rotate" ELSE "refused"))
  /\ UNCHANGED <<rows, stored, refreshing, logout, torn, mixed, mishaps>>

\* The row is updated by its id.  No pair left is an error of the server.
RefreshWrites(r) ==
  /\ call[r].at = "rotate"
  /\ LET s == sessionOf[call[r].pair] IN
     IF session[s].status = "deleted" \/ ~\E p \in Pairs : Fresh(p)
     THEN CallStep(r, Stage(r, "refused")) /\ UNCHANGED <<session, sessionOf>>
     ELSE \E p \in Pairs :
            /\ Fresh(p)
            /\ session' = [session EXCEPT ![s].pair = p]
            /\ Issues(p, s)
            /\ CallStep(r, [Stage(r, "renewed") EXCEPT !.pair = p])
  /\ UNCHANGED <<account, binding, stored, refreshing, logout, torn, mixed, mishaps>>

\* The queue is emptied: those that wait get the step given.
Released(r, c, step(_)) ==
  [q \in Calls |-> IF q = r \/ (q \in CallsOf(c) /\ call[q].at = "queued") THEN step(q)
                   ELSE call[q]]

\* setTokens, and everybody asks again.
Renewed(r) ==
  LET c == Caller[r]
      again(q) == [at |-> "sent", kind |-> call[q].kind, pair |-> call[r].pair]
  IN
  /\ call[r].at = "renewed"
  /\ stored' = [stored EXCEPT ![c] = call[r].pair]
  /\ call' = Released(r, c, again)
  /\ refreshing' = [refreshing EXCEPT ![c] = FALSE]
  /\ UNCHANGED <<rows, expired, loggedIn, login, logout, torn, mixed, mishaps>>

\* clearTokens, and everybody fails.
RefreshFails(r) ==
  LET c == Caller[r]
      fail(q) == Silent
  IN
  /\ call[r].at = "refused"
  /\ stored' = [stored EXCEPT ![c] = 0]
  /\ call' = Released(r, c, fail)
  /\ refreshing' = [refreshing EXCEPT ![c] = FALSE]
  /\ UNCHANGED <<rows, expired, loggedIn, login, logout, torn, mixed, mishaps>>

LoseRefresh(r) ==
  /\ call[r].at \in {"refresh", "renewed"} /\ mishaps < MaxMishaps
  /\ mishaps' = mishaps + 1
  /\ torn' = [torn EXCEPT ![Caller[r]] = TRUE]
  /\ CallStep(r, Stage(r, "refused"))
  /\ UNCHANGED <<rows, stored, refreshing, logout, mixed>>
-----------------------------------------------------------------------------
(* Logging out.                                                             *)

HandleLogout(c) ==
  /\ loggedIn[c] /\ logout[c] = Silent
  /\ LogsOut(c)
  /\ UNCHANGED <<rows, expired, stored, refreshing, call, login, mixed, mishaps>>

\* logoutWechatMiniProgram: the session that holds the hash and is active.
LogoutWechatMiniProgram(c) ==
  /\ logout[c].at = "sent"
  /\ session' = [s \in Ids |-> IF session[s].pair = logout[c].pair /\ session[s].status = "active"
                               THEN [session[s] EXCEPT !.status = "revoked"] ELSE session[s]]
  /\ logout' = [logout EXCEPT ![c] = [at |-> "back"]]
  /\ UNCHANGED <<account, binding, sessionOf, expired, program, call, login, torn, mixed, mishaps>>

LoseLogout(c) ==
  /\ logout[c].at = "sent" /\ mishaps < MaxMishaps
  /\ mishaps' = mishaps + 1
  /\ logout' = [logout EXCEPT ![c] = [at |-> "back"]]
  /\ torn' = [torn EXCEPT ![c] = TRUE]
  /\ UNCHANGED <<rows, expired, program, call, login, mixed>>

\* Mutant of LoggedOut: the tokens are left to the next login.
LoggedOutOnly(c) ==
  /\ logout[c].at = "back"
  /\ loggedIn' = [loggedIn EXCEPT ![c] = FALSE]
  /\ logout' = [logout EXCEPT ![c] = Silent]
  /\ UNCHANGED <<rows, expired, stored, refreshing, call, login, torn, mixed, mishaps>>

\* clearTokens, whatever the answer, and the login page.
LoggedOut(c) ==
  /\ logout[c].at = "back"
  /\ stored' = [stored EXCEPT ![c] = 0]
  /\ loggedIn' = [loggedIn EXCEPT ![c] = FALSE]
  /\ logout' = [logout EXCEPT ![c] = Silent]
  /\ UNCHANGED <<rows, expired, refreshing, call, login, torn, mixed, mishaps>>

\* The program is closed and started again, with what its storage holds.
Restart(c) ==
  /\ mishaps < MaxMishaps
  /\ mishaps' = mishaps + 1
  /\ loggedIn' = [loggedIn EXCEPT ![c] = stored[c] # 0]
  /\ refreshing' = [refreshing EXCEPT ![c] = FALSE]
  /\ call' = [r \in Calls |-> IF Caller[r] = c THEN Silent ELSE call[r]]
  /\ login' = [login EXCEPT ![c] = Silent]
  /\ logout' = [logout EXCEPT ![c] = Silent]
  /\ torn' = [torn EXCEPT ![c] = @ \/ refreshing[c] \/ logout[c] # Silent]
  /\ UNCHANGED <<rows, expired, stored, mixed>>
-----------------------------------------------------------------------------
CallSteps(r) ==
  \/ Guard(r) \/ UnbindRefused(r) \/ Unbind(r) \/ Answered(r) \/ Unauthorized(r)
  \/ RefreshReads(r) \/ RefreshWrites(r) \/ Renewed(r) \/ RefreshFails(r)

SessionsNext ==
  \/ \E u \in Users : WebRegister(u) \/ WebUnbind(u) \/ DeleteAccount(u)
  \/ \E p \in Pairs : Expire(p)
  \/ \E s \in Ids : EndOfSession(s)
  \/ \E c \in Clients :
       \/ HandleWechatLogin(c) \/ LoginWechatMiniProgram(c) \/ OfferExpires(c) \/ CreateSession(c)
       \/ LoggedIn(c) \/ LoginFails(c) \/ LoseLogin(c)
       \/ \E u \in Users : Bind(c, u)
       \/ HandleLogout(c) \/ LogoutWechatMiniProgram(c) \/ LoseLogout(c) \/ LoggedOut(c)
       \/ Restart(c)
  \/ \E r \in Calls :
       \/ CallSteps(r) \/ Lose(r) \/ LoseRefresh(r)
       \/ \E kind \in Kind : Request(r, kind)

SessionsSpec == SessionsInit /\ [][SessionsNext]_sessionsVars

-----------------------------------------------------------------------------
(* Properties.                                                              *)

\* A program that is not renewing its pair holds the one its session takes: it can
\* renew again.  Not after a renewal's answer was lost, or met a logout.
HoldsCurrent ==
  \A c \in Clients :
    LET p == stored[c] IN
    ~torn[c] /\ ~refreshing[c] /\ p # 0 /\ SessionActive(p) => session[sessionOf[p]].pair = p

\* A logout that was answered has ended the session of the tokens it then clears.
\* Not when a renewal was under way (torn): it writes another hash, and the logout by the
\* old one (auth.service.ts:342) finds no session.  Nor when an answer was lost.
LogoutRevokes ==
  \A c \in Clients : ~torn[c] /\ logout[c].at = "back" => ~SessionActive(stored[c])

\* No token comes back after a logout, but of a program that is torn.
StaysLoggedOut == \A c \in Clients : ~torn[c] /\ ~loggedIn[c] => stored[c] = 0

\* A session is active only for a user with a binding: unbinding ends them all.  Not of a
\* user who was logging in meanwhile (auth.service.ts:955) or was unbound by the web
\* client, which leaves the sessions: mixed.
ActiveIsBound ==
  \A s \in Ids : session[s].status = "active" =>
    binding[session[s].user] # None \/ mixed[session[s].user]

\* What is over or revoked is not active again, whoever was renewing it.
EndedStays ==
  [][\A s \in Ids : session[s].status \in {"over", "revoked", "deleted"}
       => session'[s].status # "active"]_sessionsVars

\* A program loses its tokens by logging out or because the server refused these
\* tokens, and by nothing older.  Not one that is torn: its logout met a renewal, which
\* may bring a pair back or clear a newer one, or an answer to it was lost.
KeepsTokens ==
  [][\A c \in Clients : stored[c] # 0 /\ stored'[c] = 0 /\ ~torn[c] =>
       \/ logout[c].at = "back"
       \/ \E r \in CallsOf(c) : call[r].at = "refused" /\ call[r].pair = stored[c]]_sessionsVars

\* A program that does not renew can go on with what it holds, and no session outlives
\* the binding it was made for: outside the programs that are torn and the users that
\* are mixed.
TokensAgree == SessionsTypeOK /\ HoldsCurrent /\ ActiveIsBound

\* A logout of a program that is not torn ends the session and leaves it no token; and
\* what ended, in whatever way and beside any renewal, is not made active again.
LogoutIsFinal == [](LogoutRevokes /\ StaysLoggedOut) /\ EndedStays
=============================================================================
