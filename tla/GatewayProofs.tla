------------------------------ MODULE GatewayProofs ------------------------------
(***************************************************************************)
(* The safety of Gateway for any tokens, tenants, requests and lifetimes.  *)
(*                                                                         *)
(* The invariant IInv has, beside the types, that an entry of the cache is *)
(* the payload of its own token (CacheInv), and what a protected request   *)
(* carries on its way through the guard (Local).                           *)
(***************************************************************************)
EXTENDS Gateway, TLAPS

CacheInv == \A k \in Tokens : cache[k].payload \in {k, NoToken}

\* The request has passed the AuthGuard.
Passed(q) == q.pc \in {"throttle", "pipe", "call"}

\* A protected request on its way has a token and a tenant; from the fill on its
\* user is the owner of the token; once it has passed, the tenants agree.
Local(q) ==
  (q.pc \in {"lookup", "verify", "fill", "match"} \/ Passed(q)) /\ ~IsPublic(q.route) =>
    /\ q.token \in Tokens /\ q.tenant \in Tenants
    /\ q.pc \in {"fill", "match"} \/ Passed(q) => q.user = q.token
    /\ Passed(q) => q.tenant = TenantOf[q.token]

\* Public routes do not enter the guard.
Guarded(q) == q.pc \in {"lookup", "verify", "fill", "match"} => ~IsPublic(q.route)

IInv == TypeOK /\ CacheInv /\ \A r \in Requests : Local(req[r]) /\ Guarded(req[r])
--------------------------------------------------------------------------------
\* The middleware lets no protected route through without a tenant: what it
\* lets through has three parts, and the route of the employees has one.
LEMMA NoGap == ASSUME NEW route \in Routes, SkipsTenant(route) PROVE IsPublic(route)
<1>1. route \in {"login", "health", "employees"}
  BY DEF Routes, Path
<1>2. CASE route = "employees"
  <2>1. Path[route] = <<"employees">>
    BY <1>2 DEF Path
  <2>2. PICK p \in {<<"api", "auth", "register">>, <<"api", "auth", "login">>, <<"api", "docs">>} :
          IsPrefix(p, <<"employees">>)
    BY <2>1 DEF SkipsTenant
  <2>3. Len(p) \in {2, 3} /\ Len(<<"employees">>) = 1
    BY <2>2
  <2>4. Len(p) <= Len(<<"employees">>)
    BY <2>2 DEF IsPrefix
  <2> QED
    BY <2>3, <2>4
<1> QED
  BY <1>1, <1>2 DEF IsPublic

\* An answer carries nothing.
LEMMA AnsweredIs ==
  ASSUME NEW route \in Routes, NEW status \in Statuses
  PROVE  /\ Answered(route, status) \in Request
         /\ Local(Answered(route, status)) /\ Guarded(Answered(route, status))
BY DEF Answered, Request, Statuses, Passed, Local, Guarded

LEMMA InitIInv == Init => IInv
<1> SUFFICES ASSUME Init PROVE IInv
  OBVIOUS
<1>0. "login" \in Routes
  BY DEF Routes, Path
<1>1. cache \in [Tokens -> Entry] /\ CacheInv
  BY LivesAssumption DEF Init, NoEntry, Entry, CacheInv
<1>2. left \in [Tokens -> 0 .. Life]
  BY LivesAssumption DEF Init
<1> DEFINE first == [Answered("login", 0) EXCEPT !.pc = "idle"]
<1>3. first \in Request /\ Local(first) /\ Guarded(first)
  BY <1>0 DEF Answered, Request, Statuses, Passed, Local, Guarded
<1>4. req = [r \in Requests |-> first]
  BY DEF Init
<1> HIDE DEF first
<1> QED
  BY <1>1, <1>2, <1>3, <1>4 DEF IInv, TypeOK

\* A request that moves alone: it must be right where it comes to.
LEMMA MoveIInv ==
  ASSUME IInv, NEW r \in Requests, NEW next \in Request, Move(r, next),
         Local(next), Guarded(next)
  PROVE  IInv'
<1>1. /\ req' = [req EXCEPT ![r] = next] /\ left' = left /\ cache' = cache
      /\ req \in [Requests -> Request]
  BY DEF Move, IInv, TypeOK
<1>2. TypeOK' /\ CacheInv'
  BY <1>1 DEF IInv, TypeOK, CacheInv
<1>3. \A q \in Requests : req'[q] = next \/ req'[q] = req[q]
  BY <1>1
<1>4. \A q \in Requests : Local(req'[q]) /\ Guarded(req'[q])
  BY <1>3 DEF IInv
<1> QED
  BY <1>2, <1>4 DEF IInv

\* A request that goes on with the owner of its token as its user.
LEMMA UserIInv ==
  ASSUME IInv, NEW r \in Requests, NEW pc \in {"fill", "match"}, ~IsPublic(req[r].route),
         req[r].token \in Tokens, req[r].tenant \in Tenants,
         Move(r, [req[r] EXCEPT !.pc = pc, !.user = req[r].token])
  PROVE  IInv'
<1> DEFINE moved == [req[r] EXCEPT !.pc = pc]
           next == [moved EXCEPT !.user = req[r].token]
<1>0. req[r] \in Request
  BY DEF IInv, TypeOK
<1>1. Move(r, next)
  BY <1>0 DEF Request
<1>2. /\ moved \in Request /\ moved.pc = pc /\ moved.route = req[r].route
      /\ moved.token = req[r].token /\ moved.tenant = req[r].tenant
  BY <1>0 DEF Request
<1> HIDE DEF moved
<1>3. /\ next \in Request /\ next.pc = moved.pc /\ next.user = req[r].token
      /\ next.route = moved.route /\ next.token = moved.token /\ next.tenant = moved.tenant
  BY <1>2 DEF Request
<1> HIDE DEF next
<1>4. Local(next) /\ Guarded(next)
  BY <1>2, <1>3 DEF Local, Passed, Guarded
<1> QED
  BY <1>1, <1>3, <1>4, MoveIInv

\* A request that is answered.
LEMMA AnswerIInv ==
  ASSUME IInv, NEW r \in Requests, NEW status \in Statuses, Answer(r, status)
  PROVE  IInv'
<1>1. req[r].route \in Routes
  BY DEF IInv, TypeOK, Request
<1> QED
  BY <1>1, AnsweredIs, MoveIInv DEF Answer

\* A request that has passed the AuthGuard goes on with what it carries.
LEMMA OnwardIInv ==
  ASSUME IInv, NEW r \in Requests, Passed(req[r]), NEW pc \in {"pipe", "call"},
         Move(r, [req[r] EXCEPT !.pc = pc])
  PROVE  IInv'
<1> DEFINE next == [req[r] EXCEPT !.pc = pc]
<1>0. req[r] \in Request /\ Local(req[r])
  BY DEF IInv, TypeOK
<1>1. /\ next \in Request /\ next.pc = pc /\ next.route = req[r].route
      /\ next.token = req[r].token /\ next.tenant = req[r].tenant /\ next.user = req[r].user
  BY <1>0 DEF Request
<1> HIDE DEF next
<1>2. Local(next) /\ Guarded(next)
  BY <1>0, <1>1 DEF Local, Passed, Guarded
<1> QED
  BY <1>1, <1>2, MoveIInv DEF next

\* ValidationPipe.
LEMMA ValidateIInv == ASSUME IInv, NEW r \in Requests, Validate(r) PROVE IInv'
<1>1. CASE Answer(r, 400)
  BY <1>1, AnswerIInv DEF Statuses
<1>2. CASE Move(r, [req[r] EXCEPT !.pc = "call"])
  BY <1>2, OnwardIInv DEF Validate, Passed
<1> QED
  BY <1>1, <1>2 DEF Validate

\* TenantMiddleware, and the guard up to its first await.
LEMMA ArriveIInv ==
  ASSUME IInv, NEW r \in Requests, NEW route \in Routes, NEW t \in Tokens \cup {NoToken},
         NEW tenant \in Tenants \cup {NoTenant}, Arrive(r, route, t, tenant)
  PROVE  IInv'
<1> DEFINE came == [pc |-> "lookup", route |-> route, token |-> t,
                    tenant |-> tenant, user |-> NoToken, status |-> 0]
           refused == tenant = NoTenant /\ ~SkipsTenant(route)
<1>1. \/ Move(r, Answered(route, 400))
      \/ ~refused /\ IsPublic(route) /\ Move(r, [came EXCEPT !.pc = "throttle"])
      \/ Move(r, Answered(route, 401))
      \/ ~refused /\ ~IsPublic(route) /\ t # NoToken /\ Move(r, came)
  BY DEF Arrive
<1>2. CASE Move(r, Answered(route, 400)) \/ Move(r, Answered(route, 401))
  BY <1>2, AnsweredIs, MoveIInv DEF Statuses
<1>3. CASE IsPublic(route) /\ Move(r, [came EXCEPT !.pc = "throttle"])
  <2> DEFINE next == [came EXCEPT !.pc = "throttle"]
  <2>1. next \in Request /\ next.route = route /\ next.pc = "throttle"
    BY DEF Request, Statuses
  <2> HIDE DEF next
  <2>2. Local(next) /\ Guarded(next)
    BY <1>3, <2>1 DEF Local, Passed, Guarded
  <2> QED
    BY <1>3, <2>1, <2>2, MoveIInv DEF next
<1>4. CASE ~refused /\ ~IsPublic(route) /\ t # NoToken /\ Move(r, came)
  <2>1. came \in Request
    BY DEF Request, Statuses
  <2>2. Local(came) /\ Guarded(came)
    BY <1>4, NoGap DEF Local, Passed, Guarded
  <2> HIDE DEF came
  <2> QED
    BY <1>4, <2>1, <2>2, MoveIInv
<1> QED
  BY <1>1, <1>2, <1>3, <1>4

\* The steps of the guard.
LEMMA GuardIInv == ASSUME IInv, NEW r \in Requests, Guard(r) PROVE IInv'
<1>0. /\ req \in [Requests -> Request] /\ req[r] \in Request /\ Local(req[r]) /\ Guarded(req[r])
      /\ cache \in [Tokens -> Entry]
  BY DEF IInv, TypeOK
<1>1. CASE Lookup(r)
  <2>1. req[r].token \in Tokens /\ req[r].tenant \in Tenants /\ req[r].pc = "lookup" /\ ~IsPublic(req[r].route)
    BY <1>0, <1>1 DEF Lookup, Local, Passed, Guarded
  <2>2. cache[req[r].token].payload \in {req[r].token, NoToken}
    BY <2>1 DEF IInv, CacheInv
  <2>3. \/ Move(r, [req[r] EXCEPT !.pc = "verify"])
        \/ Move(r, [req[r] EXCEPT !.pc = "match", !.user = req[r].token])
    BY <1>1, <2>2 DEF Lookup, CacheKey
  <2>4. CASE Move(r, [req[r] EXCEPT !.pc = "match", !.user = req[r].token])
    BY <2>1, <2>4, UserIInv
  <2>5. CASE Move(r, [req[r] EXCEPT !.pc = "verify"])
    <3> DEFINE next == [req[r] EXCEPT !.pc = "verify"]
    <3>1. /\ next \in Request /\ next.pc = "verify" /\ next.route = req[r].route
          /\ next.token = req[r].token /\ next.tenant = req[r].tenant
      BY <1>0 DEF Request
    <3> HIDE DEF next
    <3>2. Local(next) /\ Guarded(next)
      BY <2>1, <3>1 DEF Local, Passed, Guarded
    <3> QED
      BY <2>5, <3>1, <3>2, MoveIInv DEF next
  <2> QED
    BY <2>1, <2>3, <2>4, <2>5
<1>2. CASE Verify(r)
  <2>1. CASE Answer(r, 401)
    BY <2>1, AnswerIInv DEF Statuses
  <2>2. CASE Move(r, [req[r] EXCEPT !.pc = "fill", !.user = req[r].token])
    <3>1. req[r].pc = "verify" /\ ~IsPublic(req[r].route) /\ req[r].token \in Tokens /\ req[r].tenant \in Tenants
      BY <1>0, <1>2 DEF Verify, Local, Passed, Guarded
    <3> QED
      BY <2>2, <3>1, UserIInv
  <2> QED
    BY <1>2, <2>1, <2>2 DEF Verify
<1>3. CASE Fill(r)
  <2>1. /\ req[r].pc = "fill" /\ ~IsPublic(req[r].route) /\ req[r].token \in Tokens
        /\ req[r].user = req[r].token /\ req[r].tenant \in Tenants
    BY <1>0, <1>3 DEF Fill, Local, Passed, Guarded
  <2> DEFINE next == [req[r] EXCEPT !.pc = "match"]
             entry == [payload |-> req[r].token, left |-> CacheTTL]
  <2>2. /\ req' = [req EXCEPT ![r] = next] /\ left' = left
        /\ cache' = [cache EXCEPT ![req[r].token] = entry]
    BY <1>3, <2>1 DEF Fill, CacheKey
  <2>3. entry \in Entry
    BY <2>1, LivesAssumption DEF Entry
  <2>4. cache' \in [Tokens -> Entry] /\ CacheInv'
    <3>1. \A k \in Tokens : cache'[k] = IF k = req[r].token THEN entry ELSE cache[k]
      BY <1>0, <2>2
    <3> QED
      BY <1>0, <2>2, <2>3, <3>1 DEF IInv, CacheInv
  <2>5. /\ next \in Request /\ next.pc = "match" /\ next.user = next.token /\ next.route = req[r].route
        /\ next.token = req[r].token /\ next.tenant = req[r].tenant
    BY <1>0, <2>1 DEF Request
  <2> HIDE DEF next
  <2>6. Local(next) /\ Guarded(next)
    BY <2>1, <2>5 DEF Local, Passed, Guarded
  <2>7. \A q \in Requests : req'[q] = next \/ req'[q] = req[q]
    BY <1>0, <2>2
  <2>8. \A q \in Requests : Local(req'[q]) /\ Guarded(req'[q])
    BY <2>6, <2>7 DEF IInv
  <2>9. req' \in [Requests -> Request]
    BY <1>0, <2>2, <2>5
  <2> QED
    BY <2>2, <2>4, <2>8, <2>9 DEF IInv, TypeOK
<1>4. CASE Match(r)
  <2>1. CASE Answer(r, 401)
    BY <2>1, AnswerIInv DEF Statuses
  <2>2. CASE req[r].tenant = TenantOf[req[r].user] /\ Move(r, [req[r] EXCEPT !.pc = "throttle"])
    <3> DEFINE next == [req[r] EXCEPT !.pc = "throttle"]
    <3>1. /\ req[r].pc = "match" /\ ~IsPublic(req[r].route) /\ req[r].token \in Tokens
          /\ req[r].user = req[r].token /\ req[r].tenant \in Tenants
      BY <1>0, <1>4 DEF Match, Local, Passed, Guarded
    <3>2. /\ next \in Request /\ next.pc = "throttle" /\ next.user = next.token /\ next.route = req[r].route
          /\ next.token = req[r].token /\ next.tenant = req[r].tenant
      BY <1>0, <3>1 DEF Request
    <3> HIDE DEF next
    <3>3. Local(next) /\ Guarded(next)
      BY <2>2, <3>1, <3>2 DEF Local, Passed, Guarded
    <3> QED
      BY <2>2, <3>2, <3>3, MoveIInv DEF next
  <2>3. req[r].tenant # NoTenant
    BY <1>0, <1>4, NoneAssumption DEF Match, Local, Passed, Guarded
  <2> QED
    BY <1>4, <2>1, <2>2, <2>3 DEF Match
<1>5. CASE Throttle(r)
  <2>1. CASE Answer(r, 429)
    BY <2>1, AnswerIInv DEF Statuses
  <2>2. CASE Move(r, [req[r] EXCEPT !.pc = "pipe"])
    BY <1>5, <2>2, OnwardIInv DEF Throttle, Passed
  <2> QED
    BY <1>5, <2>1, <2>2 DEF Throttle
<1> QED
  BY <1>1, <1>2, <1>3, <1>4, <1>5 DEF Guard

\* Time passes: an entry goes or stays what it is.
LEMMA TickIInv == ASSUME IInv, Tick PROVE IInv'
<1>1. left \in [Tokens -> 0 .. Life] /\ cache \in [Tokens -> Entry] /\ req' = req
  BY DEF IInv, TypeOK, Tick
<1>2. left' \in [Tokens -> 0 .. Life]
  <2>1. \A n \in 0 .. Life : Aged(n) \in 0 .. Life
    BY LivesAssumption DEF Aged
  <2>2. left' = [t \in Tokens |-> Aged(left[t])]
    BY DEF Tick
  <2> QED
    BY <1>1, <2>1, <2>2
<1>3. \A k \in Tokens : cache'[k] = IF cache[k].left <= 1 THEN NoEntry ELSE [cache[k] EXCEPT !.left = @ - 1]
  BY DEF Tick
<1>4. ASSUME NEW k \in Tokens PROVE cache'[k] \in Entry /\ cache'[k].payload \in {k, NoToken}
  <2>1. cache[k] \in Entry /\ cache[k].payload \in {k, NoToken}
    BY <1>1 DEF IInv, CacheInv
  <2>2. CASE cache[k].left <= 1
    <3>1. cache'[k] = [payload |-> NoToken, left |-> 0]
      BY <1>3, <2>2 DEF NoEntry
    <3>2. 0 \in 0 .. CacheTTL
      BY LivesAssumption
    <3> QED
      BY <3>1, <3>2 DEF Entry
  <2>3. CASE ~(cache[k].left <= 1)
    <3>1. cache'[k] = [cache[k] EXCEPT !.left = @ - 1]
      BY <1>3, <2>3
    <3>2. cache[k].left - 1 \in 0 .. CacheTTL
      BY <2>1, <2>3, LivesAssumption DEF Entry
    <3> QED
      BY <2>1, <3>1, <3>2 DEF Entry
  <2> QED
    BY <2>2, <2>3
<1>5. cache' \in [Tokens -> Entry]
  <2>1. cache' = [k \in Tokens |-> cache'[k]]
    BY DEF Tick
  <2> QED
    BY <1>4, <2>1
<1> QED
  BY <1>1, <1>2, <1>4, <1>5 DEF IInv, TypeOK, CacheInv

\* The invariant is kept by every step.
LEMMA NextIInv == IInv /\ [Next]_vars => IInv'
<1> SUFFICES ASSUME IInv, [Next]_vars PROVE IInv'
  OBVIOUS
<1>1. CASE UNCHANGED vars
  BY <1>1 DEF IInv, TypeOK, CacheInv, vars
<1>2. CASE Tick
  BY <1>2, TickIInv
<1>3. ASSUME NEW r \in Requests, NEW route \in Routes, NEW t \in Tokens \cup {NoToken},
             NEW tenant \in {ResolveTenant(header, subdomain) :
                             header, subdomain \in Tenants \cup {NoTenant}},
             Arrive(r, route, t, tenant)
      PROVE  IInv'
  <2>1. tenant \in Tenants \cup {NoTenant}
    BY DEF ResolveTenant
  <2> QED
    BY <1>3, <2>1, ArriveIInv
<1>4. ASSUME NEW r \in Requests, Guard(r) PROVE IInv'
  BY <1>4, GuardIInv
<1>5. ASSUME NEW r \in Requests, GuardFails(r) \/ Reply(r) \/ Timeout(r) PROVE IInv'
  BY <1>5, AnswerIInv DEF GuardFails, Reply, Timeout, Statuses
<1>6. ASSUME NEW r \in Requests, Validate(r) PROVE IInv'
  BY <1>6, ValidateIInv
<1> QED
  BY <1>1, <1>2, <1>3, <1>4, <1>5, <1>6 DEF Next

LEMMA Invariance == Spec => []IInv
BY InitIInv, NextIInv, PTL DEF Spec

\* TypeOK holds in every reachable state.
THEOREM TypeCorrect == Spec => []TypeOK
BY Invariance, PTL DEF IInv

\* OwnTenantOnly: a protected request reaches a service only as the owner of its
\* token and for the tenant of that owner, whatever the requests that share the
\* cache with it.
THEOREM TenantSafe == Spec => []OwnTenantOnly
<1>1. IInv => OwnTenantOnly
  BY DEF IInv, Local, Passed, OwnTenantOnly
<1> QED
  BY <1>1, Invariance, PTL
--------------------------------------------------------------------------------
(* Expired tokens.                                                          *)

\* What a step that changes something does to an expired token and its entry.
Fades(t) ==
  /\ Expired(t)'
  /\ cache[t].payload = NoToken => cache'[t].payload = NoToken
  /\ cache'[t].left <= cache[t].left
  /\ req' = req => cache'[t].left < cache[t].left \/ cache[t].left = 0

\* A request that moves alone, and is not about to enter the token.
LEMMA FadesMove ==
  ASSUME IInv, NEW t \in Tokens, Expired(t), NEW r \in Requests, NEW next, Move(r, next),
         vars' # vars, next.token = t => next.pc # "fill"
  PROVE  Fades(t)
<1>1. req' = [req EXCEPT ![r] = next] /\ left' = left /\ cache' = cache /\ req' # req
  BY DEF Move, vars
<1>2. \A q \in Requests : req'[q] = next \/ req'[q] = req[q]
  BY <1>1 DEF IInv, TypeOK
<1>3. Expired(t)'
  BY <1>1, <1>2 DEF Expired
<1>4. cache[t].left \in Nat
  BY LivesAssumption DEF IInv, TypeOK, Entry
<1> QED
  BY <1>1, <1>3, <1>4 DEF Fades

\* A request that is answered carries no token.
LEMMA FadesAnswer ==
  ASSUME IInv, NEW t \in Tokens, Expired(t), NEW r \in Requests, NEW route, NEW status,
         Move(r, Answered(route, status)), vars' # vars
  PROVE  Fades(t)
<1>1. Answered(route, status).pc # "fill"
  BY DEF Answered
<1> QED
  BY <1>1, FadesMove

\* A request that goes on elsewhere than to the fill.
LEMMA FadesOn ==
  ASSUME IInv, NEW t \in Tokens, Expired(t), NEW r \in Requests,
         NEW pc \in {"verify", "match", "throttle", "pipe", "call"}, NEW user,
         \/ Move(r, [req[r] EXCEPT !.pc = pc])
         \/ Move(r, [req[r] EXCEPT !.pc = pc, !.user = user]),
         vars' # vars
  PROVE  Fades(t)
<1>1. req[r] \in Request
  BY DEF IInv, TypeOK
<1>2. CASE Move(r, [req[r] EXCEPT !.pc = pc])
  <2> DEFINE next == [req[r] EXCEPT !.pc = pc]
  <2>1. next.pc # "fill"
    BY <1>1 DEF Request
  <2> QED
    BY <1>2, <2>1, FadesMove
<1>3. CASE Move(r, [req[r] EXCEPT !.pc = pc, !.user = user])
  <2> DEFINE next == [req[r] EXCEPT !.pc = pc, !.user = user]
  <2>1. next.pc # "fill"
    BY <1>1 DEF Request
  <2> QED
    BY <1>3, <2>1, FadesMove
<1> QED
  BY <1>2, <1>3

\* A request that arrives looks its token up first.
LEMMA FadesArrive ==
  ASSUME IInv, NEW t \in Tokens, Expired(t), NEW r \in Requests, NEW route, NEW token, NEW tenant,
         Arrive(r, route, token, tenant), vars' # vars
  PROVE  Fades(t)
<1> DEFINE came == [pc |-> "lookup", route |-> route, token |-> token,
                    tenant |-> tenant, user |-> NoToken, status |-> 0]
<1>1. \/ \E status : Move(r, Answered(route, status))
      \/ Move(r, [came EXCEPT !.pc = "throttle"])
      \/ Move(r, came)
  BY DEF Arrive
<1>2. [came EXCEPT !.pc = "throttle"].pc # "fill" /\ came.pc # "fill"
  OBVIOUS
<1> HIDE DEF came
<1>3. CASE Move(r, [came EXCEPT !.pc = "throttle"])
  BY <1>2, <1>3, FadesMove
<1>4. CASE Move(r, came)
  BY <1>2, <1>4, FadesMove
<1> QED
  BY <1>1, <1>3, <1>4, FadesAnswer

\* The guard verifies only what has not expired, and enters only what it has
\* verified.
LEMMA FadesGuard ==
  ASSUME IInv, NEW t \in Tokens, Expired(t), NEW r \in Requests, Guard(r), vars' # vars
  PROVE  Fades(t)
<1>0. req[r] \in Request /\ req \in [Requests -> Request] /\ cache \in [Tokens -> Entry]
  BY DEF IInv, TypeOK
<1>1. CASE Lookup(r)
  <2>1. CASE Move(r, [req[r] EXCEPT !.pc = "verify"])
    BY <2>1, FadesOn
  <2>2. ASSUME NEW user, Move(r, [req[r] EXCEPT !.pc = "match", !.user = user]) PROVE Fades(t)
    BY <2>2, FadesOn
  <2> QED
    BY <1>1, <2>1, <2>2 DEF Lookup
<1>2. CASE Verify(r)
  <2>1. CASE Answer(r, 401)
    BY <2>1, FadesAnswer DEF Answer
  <2>2. CASE left[req[r].token] > 0 /\ Move(r, [req[r] EXCEPT !.pc = "fill", !.user = req[r].token])
    <3> DEFINE next == [req[r] EXCEPT !.pc = "fill", !.user = req[r].token]
    <3>1. next.token # t
      BY <1>0, <2>2 DEF Request, Expired
    <3> QED
      BY <2>2, <3>1, FadesMove
  <2> QED
    BY <1>2, <2>1, <2>2 DEF Verify
<1>3. CASE Fill(r)
  <2>1. /\ req[r].pc = "fill" /\ req[r].token # t
        /\ cache' = [cache EXCEPT ![req[r].token] = [payload |-> req[r].user, left |-> CacheTTL]]
        /\ req' = [req EXCEPT ![r].pc = "match"] /\ left' = left
    BY <1>3 DEF Fill, CacheKey, Expired
  <2>2. cache'[t] = cache[t]
    BY <1>0, <2>1
  <2>3. req'[r].pc = "match" /\ \A q \in Requests : q # r => req'[q] = req[q]
    BY <1>0, <2>1 DEF Request
  <2>4. Expired(t)'
    BY <2>1, <2>3 DEF Expired
  <2>5. cache[t].left \in Nat
    BY <1>0, LivesAssumption DEF Entry
  <2>6. req' # req
    <3>1. req[r].pc # req'[r].pc
      BY <2>1, <2>3
    <3> QED
      BY <3>1
  <2> QED
    BY <2>2, <2>4, <2>5, <2>6 DEF Fades
<1>4. CASE Match(r)
  <2>1. CASE Answer(r, 401)
    BY <2>1, FadesAnswer DEF Answer
  <2>2. CASE Move(r, [req[r] EXCEPT !.pc = "throttle"])
    BY <2>2, FadesOn
  <2> QED
    BY <1>4, <2>1, <2>2 DEF Match
<1>5. CASE Throttle(r)
  <2>1. CASE Answer(r, 429)
    BY <2>1, FadesAnswer DEF Answer
  <2>2. CASE Move(r, [req[r] EXCEPT !.pc = "pipe"])
    BY <2>2, FadesOn
  <2> QED
    BY <1>5, <2>1, <2>2 DEF Throttle
<1> QED
  BY <1>1, <1>2, <1>3, <1>4, <1>5 DEF Guard

\* Time passes: an expired token stays expired, and its entry gets older.
LEMMA FadesTick == ASSUME IInv, NEW t \in Tokens, Expired(t), Tick PROVE Fades(t)
<1>1. left'[t] = 0 /\ req' = req
  BY DEF Tick, Aged, Expired
<1>2. cache'[t] = IF cache[t].left <= 1 THEN NoEntry ELSE [cache[t] EXCEPT !.left = @ - 1]
  BY DEF Tick
<1>3. cache[t] \in Entry /\ cache[t].left \in Nat
  BY LivesAssumption DEF IInv, TypeOK, Entry
<1>4. /\ cache[t].payload = NoToken => cache'[t].payload = NoToken
      /\ cache'[t].left < cache[t].left \/ (cache[t].left = 0 /\ cache'[t].left = 0)
      /\ cache'[t].left <= cache[t].left
  BY <1>2, <1>3 DEF NoEntry, Entry
<1>5. Expired(t)'
  BY <1>1 DEF Expired
<1> QED
  BY <1>4, <1>5 DEF Fades

\* ExpiredFades: the safe half of EventuallyShutOut.  However many requests use
\* an expired token, it is not verified again and its entry only gets older.
THEOREM FadesSafe == Spec => ExpiredFades
<1>1. ASSUME IInv, [Next]_vars, vars' # vars, NEW t \in Tokens, Expired(t) PROVE Fades(t)
  <2>1. ASSUME NEW r \in Requests, GuardFails(r) \/ Reply(r) \/ Timeout(r) PROVE Fades(t)
    BY <1>1, <2>1, FadesAnswer DEF GuardFails, Reply, Timeout, Answer
  <2>2. ASSUME NEW r \in Requests, Validate(r) PROVE Fades(t)
    <3>1. CASE Answer(r, 400)
      BY <1>1, <2>2, <3>1, FadesAnswer DEF Answer
    <3>2. CASE Move(r, [req[r] EXCEPT !.pc = "call"])
      BY <1>1, <2>2, <3>2, FadesOn
    <3> QED
      BY <2>2, <3>1, <3>2 DEF Validate
  <2> QED
    BY <1>1, <2>1, <2>2, FadesArrive, FadesGuard, FadesTick DEF Next
<1>2. IInv /\ [Next]_vars => [\A t \in Tokens : Expired(t) =>
        /\ Expired(t)'
        /\ cache[t].payload = NoToken => cache'[t].payload = NoToken
        /\ cache'[t].left <= cache[t].left
        /\ req' = req => cache'[t].left < cache[t].left \/ cache[t].left = 0]_vars
  BY <1>1 DEF Fades
<1> QED
  BY <1>2, Invariance, PTL DEF Spec, ExpiredFades
--------------------------------------------------------------------------------
(* The safety under EveryRequestAnswered.                                   *)

\* How many steps a request has before it at most.
StepsLeft(pc) ==
  CASE pc = "lookup" -> 7 [] pc = "verify" -> 6 [] pc = "fill" -> 5 [] pc = "match" -> 4
    [] pc = "throttle" -> 3 [] pc = "pipe" -> 2 [] pc = "call" -> 1
    [] pc \in {"idle", "answered"} -> 0

\* Guards, pipe, call and timeout: each step takes a request nearer to its answer
\* and none leads back, whichever of them comes first, and no other request and
\* no tick touches it.
EveryRequestNearer == [][\A r \in Requests : req'[r] # req[r] =>
  req[r].pc \in {"idle", "answered"} \/ StepsLeft(req'[r].pc) < StepsLeft(req[r].pc)]_vars

\* EveryRequestNearer holds, for any number of requests.
THEOREM NearerSafe == Spec => EveryRequestNearer
<1>1. ASSUME IInv, [Next]_vars, NEW r \in Requests, req'[r] # req[r],
             req[r].pc \notin {"idle", "answered"}
      PROVE  StepsLeft(req'[r].pc) < StepsLeft(req[r].pc)
  <2>0. req \in [Requests -> Request]
    BY <1>1 DEF IInv, TypeOK
  <2>a. ASSUME NEW pc, NEW user, \/ Move(r, [req[r] EXCEPT !.pc = pc])
                                 \/ Move(r, [req[r] EXCEPT !.pc = pc, !.user = user])
        PROVE  req'[r].pc = pc
    <3>1. req[r] \in Request
      BY <2>0
    <3>2. [req[r] EXCEPT !.pc = pc].pc = pc /\ [req[r] EXCEPT !.pc = pc, !.user = user].pc = pc
      BY <3>1 DEF Request
    <3> QED
      BY <2>0, <2>a, <3>2 DEF Move
  <2>b. ASSUME NEW q \in Requests, NEW route \in Routes, NEW t \in Tokens \cup {NoToken},
               NEW tenant, Arrive(q, route, t, tenant)
        PROVE  FALSE
    <3>1. q # r
      BY <1>1, <2>b DEF Arrive
    <3>2. \A next : Move(q, next) => req'[r] = req[r]
      BY <2>0, <3>1 DEF Move
    <3> QED
      BY <1>1, <2>b, <3>2 DEF Arrive
  <2>1. \A q \in Requests : \A next : Move(q, next) =>
          (q # r => req'[r] = req[r]) /\ (q = r => req'[r] = next)
    BY <2>0 DEF Move
  <2>2. \A q \in Requests : \A status : Answer(q, status) =>
          (q # r => req'[r] = req[r]) /\ (q = r => req'[r].pc = "answered")
    BY <2>1 DEF Answer, Answered
  <2>3. PICK q \in Requests : Guard(q) \/ GuardFails(q) \/ Validate(q) \/ Reply(q) \/ Timeout(q)
    BY <1>1, <2>b DEF Next, Tick, vars
  <2>4. CASE q # r
    <3>1. \A next : req' = [req EXCEPT ![q] = next] => req'[r] = req[r]
      BY <2>0, <2>4
    <3>2. CASE Guard(q)
      BY <1>1, <3>1, <3>2 DEF Guard, Lookup, Verify, Fill, Match, Throttle, Move, Answer
    <3>3. CASE GuardFails(q) \/ Validate(q) \/ Reply(q) \/ Timeout(q)
      BY <1>1, <3>1, <3>3 DEF GuardFails, Validate, Reply, Timeout, Move, Answer
    <3> QED
      BY <2>3, <3>2, <3>3
  <2>5. CASE q = r
    <3>1. req[r] \in Request
      BY <2>0
    <3>2. CASE Lookup(r)
      <4>1. req[r].pc = "lookup" /\ req'[r].pc \in {"verify", "match"}
        BY <2>a, <3>2 DEF Lookup
      <4> QED
        BY <4>1 DEF StepsLeft
    <3>3. CASE Verify(r)
      <4>1. req[r].pc = "verify" /\ req'[r].pc \in {"fill", "answered"}
        BY <2>a, <2>2, <3>3 DEF Verify
      <4> QED
        BY <4>1 DEF StepsLeft
    <3>4. CASE Fill(r)
      <4>1. req[r].pc = "fill" /\ req'[r].pc = "match"
        BY <2>0, <3>1, <3>4 DEF Fill, Request
      <4> QED
        BY <4>1 DEF StepsLeft
    <3>5. CASE Match(r)
      <4>1. req[r].pc = "match" /\ req'[r].pc \in {"throttle", "answered"}
        BY <2>a, <2>2, <3>5 DEF Match
      <4> QED
        BY <4>1 DEF StepsLeft
    <3>6. CASE Throttle(r)
      <4>1. req[r].pc = "throttle" /\ req'[r].pc \in {"pipe", "answered"}
        BY <2>a, <2>2, <3>6 DEF Throttle
      <4> QED
        BY <4>1 DEF StepsLeft
    <3>7. CASE Validate(r)
      <4>1. req[r].pc = "pipe" /\ req'[r].pc \in {"call", "answered"}
        BY <2>a, <2>2, <3>7 DEF Validate
      <4> QED
        BY <4>1 DEF StepsLeft
    <3>8. CASE GuardFails(r) \/ Reply(r) \/ Timeout(r)
      <4>1. req[r].pc \in {"lookup", "fill", "pipe", "call"} /\ req'[r].pc = "answered"
        BY <2>2, <3>8 DEF GuardFails, Reply, Timeout
      <4> QED
        BY <4>1 DEF StepsLeft
    <3> QED
      BY <2>3, <2>5, <3>2, <3>3, <3>4, <3>5, <3>6, <3>7, <3>8 DEF Guard
  <2> QED
    BY <2>4, <2>5
<1>2. IInv /\ [Next]_vars => [\A r \in Requests : req'[r] # req[r] =>
        req[r].pc \in {"idle", "answered"} \/ StepsLeft(req'[r].pc) < StepsLeft(req[r].pc)]_vars
  BY <1>1
<1> QED
  BY <1>2, Invariance, PTL DEF Spec, EveryRequestNearer
================================================================================
