------------------------------- MODULE AuthTokens -------------------------------
(***************************************************************************)
(* The token life cycle of the auth service: login, refreshToken and       *)
(* logout of services/auth-service AuthService, the JwtService that signs  *)
(* and verifies the tokens, and the two tables they write, refresh_tokens  *)
(* and sessions.  validateToken writes nothing and looks at neither table. *)
(*                                                                         *)
(* A request is served by one of several replicas; every await in its      *)
(* handler lets another request run, so a request is a small process whose *)
(* steps are its awaits.  A $transaction that only writes rows by key is   *)
(* one step; the transaction of logout is two, because Postgres runs it    *)
(* at Read Committed and each of its statements has a snapshot of its own. *)
(*                                                                         *)
(* E-mail, tenant and roles are functions of the user here: no RPC changes *)
(* them once the user is registered.                                       *)
(***************************************************************************)
EXTENDS Integers, FiniteSets

CONSTANTS
  Users,       \* registered, active users
  Requests,    \* slots for requests in flight
  AccessTTL,   \* JWT_ACCESS_TOKEN_EXPIRATION, in ticks
  RefreshTTL,  \* JWT_REFRESH_TOKEN_EXPIRATION, in ticks
  MaxTime,     \* bound: the last second the model runs through
  NoToken,     \* "no token yet" in a request
  NoUser       \* "no user yet" in a request

\* A token is its payload: the signature is deterministic and there is no
\* nonce, so two tokens signed for one user in one second are one string.
Token == [sub : Users, type : {"access", "refresh"}, iat : 0 .. MaxTime]

ASSUME TimesAssumption ==
  AccessTTL \in Nat \ {0} /\ RefreshTTL \in Nat \ {0} /\ MaxTime \in Nat
ASSUME NoTokenAssumption == NoToken \notin Token
ASSUME NoUserAssumption == NoUser \notin Users

VARIABLES
  now,        \* the clock, in the seconds of iat and exp
  stored,     \* rows of refresh_tokens, never deleted
  revoked,    \* those with isRevoked
  sessions,   \* rows of sessions: the token, and the login that made it
  req,        \* what each request in flight knows
  held,       \* tokens that were answered to a client
  \* The rest is history, read by no step:
  answers,    \* login and refresh transactions committed
  exchanged,  \* the refreshes committed
  loggedOut,  \* refresh tokens revoked by a logout
  destroyed   \* sessions deleted by a logout

vars == <<now, stored, revoked, sessions, req, held,
          answers, exchanged, loggedOut, destroyed>>
--------------------------------------------------------------------------------
RefreshToken == {t \in Token : t.type = "refresh"}
Session == [token : Token, login : Token]

Idle == [pc |-> "idle", sub |-> NoUser, old |-> NoToken,
         access |-> NoToken, refresh |-> NoToken, hit |-> {}, seen |-> {},
         alone |-> TRUE]

\* What a request knows: the user, the token to exchange, the pair it signed,
\* and for a logout the rows it revokes and the tokens answered before it.
Request ==
  [pc : {"idle", "check", "signAccess", "signRefresh", "commit", "revoke", "delete"},
   sub : Users \cup {NoUser}, old : Token \cup {NoToken},
   access : Token \cup {NoToken}, refresh : Token \cup {NoToken},
   hit : SUBSET Token, seen : SUBSET Token, alone : BOOLEAN]

Exp(t) == t.iat + (IF t.type = "access" THEN AccessTTL ELSE RefreshTTL)

\* verifyAsync: a token verifies strictly before its exp, whatever its type.
Verifies(t) == now < Exp(t)

\* Mutant: the where clause forgets the user.
Live_AllUsers(u) == stored \ revoked

Live(u) == {t \in stored \ revoked : t.sub = u}

\* Mutant: only the sessions that have not expired.
SessionsOf_Unexpired(u) == {s \in sessions : s.token.sub = u /\ Verifies(s.token)}

SessionsOf(u) == {s \in sessions : s.token.sub = u}

\* Mutant: refresh_tokens.token is not unique.
FreshRefresh_NotUnique(r) == TRUE

\* The unique constraints on refresh_tokens.token and on sessions.token.
FreshRefresh(r) == req[r].refresh \notin stored
FreshSession(r) == \A s \in sessions : s.token # req[r].access

Init ==
  /\ now = 0
  /\ stored = {} /\ revoked = {} /\ sessions = {}
  /\ req = [r \in Requests |-> Idle]
  /\ held = {} /\ answers = 0
  /\ exchanged = {} /\ loggedOut = {} /\ destroyed = {}

Tables == <<stored, revoked, sessions>>
History == <<answers, exchanged, loggedOut, destroyed>>

\* A step of r that changes only what r knows.
Move(r, next) ==
  /\ req' = [req EXCEPT ![r] = next]
  /\ UNCHANGED <<now, Tables, held, History>>

\* r begins for user u.  The field alone is history: it says that no other
\* request of the user has been in flight since r began.
Peers(r, u) == {q \in Requests \ {r} : req[q].sub = u}

Begin(r, u, first) ==
  /\ req[r].pc = "idle"
  /\ req' = [q \in Requests |->
       IF q = r THEN [first EXCEPT !.sub = u, !.alone = Peers(r, u) = {}]
       ELSE IF q \in Peers(r, u) THEN [req[q] EXCEPT !.alone = FALSE]
       ELSE req[q]]
  /\ UNCHANGED <<now, Tables, held, History>>

Tick ==
  /\ now < MaxTime
  /\ now' = now + 1
  /\ UNCHANGED <<Tables, req, held, History>>
--------------------------------------------------------------------------------
(* generateTokenPair: the access token and then the refresh token, each     *)
(* signed with the second it is signed in.                                  *)

SignAccess(r) ==
  /\ req[r].pc = "signAccess"
  /\ Move(r, [req[r] EXCEPT !.pc = "signRefresh",
       !.access = [sub |-> req[r].sub, type |-> "access", iat |-> now]])

SignRefresh(r) ==
  /\ req[r].pc = "signRefresh"
  /\ Move(r, [req[r] EXCEPT !.pc = "commit",
       !.refresh = [sub |-> req[r].sub, type |-> "refresh", iat |-> now]])

\* The transaction of r has committed and r answers with its pair.  An answer
\* that is lost (the gateway gave up, the replica died) is one that the
\* client never uses.
Answer(r) ==
  /\ answers' = answers + 1
  /\ held' = held \cup {req[r].access, req[r].refresh}
  /\ req' = [req EXCEPT ![r] = Idle]
--------------------------------------------------------------------------------
(* login: the credentials are read and checked, the pair is signed, and one *)
(* transaction stores the refresh token and the session.                    *)

LoginStart(r, u) ==
  Begin(r, u, [Idle EXCEPT !.pc = "signAccess"])

LoginCommit(r) ==
  /\ req[r].pc = "commit"
  /\ req[r].old = NoToken
  /\ FreshRefresh(r)
  /\ FreshSession(r)
  /\ stored' = stored \cup {req[r].refresh}
  /\ sessions' = sessions \cup
       {[token |-> req[r].access, login |-> req[r].refresh]}
  /\ Answer(r)
  /\ UNCHANGED <<now, revoked, exchanged, loggedOut, destroyed>>
--------------------------------------------------------------------------------
(* refreshToken: the token is verified, its row is read, the pair is signed, *)
(* and one transaction revokes the row and stores the new one.  The update  *)
(* of that transaction does not look at isRevoked again.                    *)

RefreshStart(r, t) ==
  /\ Verifies(t)
  /\ Begin(r, t.sub, [Idle EXCEPT !.pc = "check", !.old = t])

\* Mutant: any token that verifies is exchanged.
RefreshCheck_NoLookup(r) ==
  /\ req[r].pc = "check"
  /\ Move(r, [req[r] EXCEPT !.pc = "signAccess"])

RefreshCheck(r) ==
  /\ req[r].pc = "check"
  /\ req[r].old \in Live(req[r].sub)
  /\ now <= Exp(req[r].old)
  /\ Move(r, [req[r] EXCEPT !.pc = "signAccess"])

RefreshRejected(r) ==
  /\ req[r].pc = "check"
  /\ \/ req[r].old \notin Live(req[r].sub)
     \/ Exp(req[r].old) <= now
  /\ Move(r, Idle)

\* Mutant: the old row is left alone.
RevokeOld_Forgotten(r) == UNCHANGED revoked

RevokeOld(r) == revoked' = revoked \cup {req[r].old}

RefreshCommit(r) ==
  /\ req[r].pc = "commit"
  /\ req[r].old # NoToken
  /\ FreshRefresh(r)
  /\ RevokeOld(r)
  /\ stored' = stored \cup {req[r].refresh}
  /\ exchanged' = exchanged \cup
       {[old |-> req[r].old, new |-> req[r].refresh, alone |-> req[r].alone]}
  /\ Answer(r)
  /\ UNCHANGED <<now, sessions, loggedOut, destroyed>>

\* A unique constraint refuses the transaction of a login or a refresh.
CommitRefused(r) ==
  /\ req[r].pc = "commit"
  /\ \/ ~FreshRefresh(r)
     \/ req[r].old = NoToken /\ ~FreshSession(r)
  /\ Move(r, Idle)
--------------------------------------------------------------------------------
(* logout: a token of either type is verified; then one transaction revokes *)
(* the live refresh tokens its first statement sees and deletes the         *)
(* sessions its second statement sees.                                      *)

LogoutStart(r, t) ==
  /\ Verifies(t)
  /\ Begin(r, t.sub, [Idle EXCEPT !.pc = "revoke",
       !.seen = {k \in held : k.sub = t.sub /\ k.type = "refresh"}])

\* Mutant: update instead of updateMany.
LogoutRevoke_One(r) ==
  /\ req[r].pc = "revoke"
  /\ \E h \in SUBSET Live(req[r].sub) :
       /\ Cardinality(h) <= 1
       /\ Move(r, [req[r] EXCEPT !.pc = "delete", !.hit = h])

LogoutRevoke(r) ==
  /\ req[r].pc = "revoke"
  /\ Move(r, [req[r] EXCEPT !.pc = "delete", !.hit = Live(req[r].sub)])

LogoutDelete(r) ==
  /\ req[r].pc = "delete"
  /\ revoked' = revoked \cup req[r].hit
  /\ sessions' = sessions \ SessionsOf(req[r].sub)
  /\ loggedOut' = loggedOut \cup (req[r].hit \ revoked)
  /\ destroyed' = destroyed \cup
       {[session |-> s, alone |-> req[r].alone] : s \in SessionsOf(req[r].sub)}
  /\ req' = [req EXCEPT ![r] = Idle]
  /\ UNCHANGED <<now, stored, held, answers, exchanged>>
--------------------------------------------------------------------------------
\* A request fails before it commits: wrong password, a database error, a
\* transaction timeout, the end of the replica.  Nothing it did remains.
Abort(r) ==
  /\ req[r].pc # "idle"
  /\ Move(r, Idle)

Proceed(r) ==
  \/ SignAccess(r) \/ SignRefresh(r)
  \/ LoginCommit(r) \/ RefreshCommit(r) \/ CommitRefused(r)
  \/ RefreshCheck(r) \/ RefreshRejected(r)
  \/ LogoutRevoke(r) \/ LogoutDelete(r)

Start(r) ==
  \/ \E u \in Users : LoginStart(r, u)
  \/ \E t \in held : RefreshStart(r, t) \/ LogoutStart(r, t)

Next == Tick \/ \E r \in Requests : Start(r) \/ Proceed(r) \/ Abort(r)

Spec == Init /\ [][Next]_vars
--------------------------------------------------------------------------------
Spent == {e.old : e \in exchanged}

TypeOK ==
  /\ now \in 0 .. MaxTime
  /\ stored \subseteq Token
  /\ revoked \subseteq stored
  /\ sessions \subseteq Session
  /\ held \subseteq Token
  /\ answers \in Nat
  /\ exchanged \subseteq [old : stored, new : stored, alone : BOOLEAN]
  /\ loggedOut \subseteq stored
  /\ destroyed \subseteq [session : Session, alone : BOOLEAN]
  /\ req \in [Requests -> Request]

\* No two answered logins or refreshes ever returned one refresh token,
\* although the token of a user depends on nothing but the second: the
\* transaction that would store it again is refused.
OneRowPerAnswer == Cardinality(stored) = answers

\* A refresh token is dead exactly when a refresh exchanged it or a logout
\* revoked it: no committed refresh leaves its token usable, and no token of
\* anybody dies as a side effect of another request.
RevokedHasCause == revoked = Spent \cup loggedOut

\* refreshToken never looks at the type of the token it is given; still what
\* is exchanged is a refresh token, for a refresh token of the same user.
ExchangeKeepsKind == \A e \in exchanged :
  /\ e.old.type = "refresh" /\ e.new.type = "refresh"
  /\ e.old.sub = e.new.sub

\* The statements of logout are not atomic with respect to logins, but their
\* order (tokens, then sessions) is safe on this side: no session outlives
\* the revocation of the refresh token of its login by a logout.
SessionGoneWithToken == \A s \in sessions : s.login \notin loggedOut

\* What the two tables say of each other and of the past, whatever overlapped:
\* every answer has a token of its own, tokens die of an exchange or a logout
\* only, an exchange stays with its user and its kind, and no session outlives
\* the logout of its token.
TablesAgree ==
  OneRowPerAnswer /\ RevokedHasCause /\ ExchangeKeepsKind /\ SessionGoneWithToken

\* What a client may rely on: when a logout of r commits, every refresh token
\* of the user that had reached a client before the logout began is dead,
\* however many logins and refreshes overlapped the logout.
LogoutKillsHeld == [][\A r \in Requests :
  LogoutDelete(r) => req[r].seen \subseteq revoked']_vars

\* A client whose requests do not overlap gets what the documents say of
\* rotation: a refresh that ran alone is the only exchange of its token, and
\* no later one can fork the chain again.
AloneNeverForks == \A e, f \in exchanged :
  e.alone /\ e.old = f.old => e = f

\* And a logout that ran alone is whole: it destroys no session whose login
\* stored a refresh token that is still alive.
AloneLogoutWhole == \A d \in destroyed :
  d.alone => d.session.login \in revoked

\* What requests that do not overlap can rely on.
AloneIsWhole == AloneNeverForks /\ AloneLogoutWhole

\* The token store keeps the promise of TokenLedger.
Life == [t \in RefreshToken |->
  IF t \in revoked THEN "dead" ELSE IF t \in stored THEN "live" ELSE "absent"]
Ledger == INSTANCE TokenLedger WITH Token <- RefreshToken, life <- Life
LedgerSpec == Ledger!Spec
================================================================================
