--------------------------------- MODULE Gateway ---------------------------------
(***************************************************************************)
(* The way of a request through the api-gateway: TenantMiddleware, the     *)
(* AuthGuard with its payload cache in Redis, the ThrottlerGuard, and with *)
(* the TimeoutInterceptor around them the ValidationPipe and the gRPC call *)
(* of the controller.  Many requests are under way at once, in one or      *)
(* several replicas that share the Redis cache; each await is a step.      *)
(*                                                                         *)
(* The counters of the ThrottlerGuard are kept by a library, per replica   *)
(* and client, and bodies are data: who is refused there is left open.     *)
(*                                                                         *)
(* Time is kept as what remains: of each token until its exp, and of each  *)
(* cache entry until Redis drops it.                                       *)
(***************************************************************************)
EXTENDS Integers, FiniteSets, SequencesExt

CONSTANTS
  Requests,   \* slots for HTTP requests in flight
  Tokens,     \* access tokens with a valid signature
  Tenants,
  TenantOf,   \* the tenant in the payload of each token
  Life,       \* ticks a token lives at most
  CacheTTL,   \* CACHE_TTL of the guard, in ticks
  NoToken, NoTenant

ASSUME TenantOfAssumption == TenantOf \in [Tokens -> Tenants]
ASSUME LivesAssumption == Life \in Nat \ {0} /\ CacheTTL \in Nat \ {0}
ASSUME NoneAssumption == NoToken \notin Tokens /\ NoTenant \notin Tenants

VARIABLES
  left,    \* of each token: the ticks until its exp
  cache,   \* the entries jwt:<hash>: a payload and the ticks it stays
  req      \* of each request: where it is and what it carries

vars == <<left, cache, req>>
--------------------------------------------------------------------------------
\* The routes, where their controllers are mounted.  There is no global prefix.
Path == [login     |-> <<"auth", "login">>,
         health    |-> <<"health">>,
         employees |-> <<"employees">>]

Routes == DOMAIN Path

IsPublic(route) == route \in {"login", "health"}

\* What TenantMiddleware lets through without a tenant.
SkipsTenant(route) ==
  \E p \in {<<"api", "auth", "register">>, <<"api", "auth", "login">>, <<"api", "docs">>} :
    IsPrefix(p, Path[route])

Statuses == {0, 200, 400, 401, 408, 429, 500}

Request ==
  [pc : {"idle", "lookup", "verify", "fill", "match", "throttle", "pipe", "call", "answered"},
   route : Routes, token : Tokens \cup {NoToken}, tenant : Tenants \cup {NoTenant},
   user : Tokens \cup {NoToken}, status : Statuses]

Entry == [payload : Tokens \cup {NoToken}, left : 0 .. CacheTTL]

NoEntry == [payload |-> NoToken, left |-> 0]

\* Mutant: the key is the beginning of the token, the same for all.
CacheKey_Prefix(t) == CHOOSE k \in Tokens : TRUE

\* SHA-256 of the whole token.
CacheKey(t) == t

\* A request that is over: what it carried is forgotten.
Answered(route, status) ==
  [pc |-> "answered", route |-> route, token |-> NoToken, tenant |-> NoTenant,
   user |-> NoToken, status |-> status]

Init ==
  /\ left \in [Tokens -> 1 .. Life]
  /\ cache = [k \in Tokens |-> NoEntry]
  /\ req = [r \in Requests |->
       [Answered("login", 0) EXCEPT !.pc = "idle"]]

\* Mutant: no end at zero.
Aged_NoFloor(n) == n - 1

Aged(n) == IF n = 0 THEN 0 ELSE n - 1

Tick ==
  /\ left' = [t \in Tokens |-> Aged(left[t])]
  /\ cache' = [k \in Tokens |-> IF cache[k].left <= 1 THEN NoEntry
                                ELSE [cache[k] EXCEPT !.left = @ - 1]]
  /\ UNCHANGED req

\* A step of r alone.
Move(r, next) == req' = [req EXCEPT ![r] = next] /\ UNCHANGED <<left, cache>>

Answer(r, status) == Move(r, Answered(req[r].route, status))
--------------------------------------------------------------------------------
\* The tenant of a request: the header, or else the subdomain of the host.  No
\* route of the gateway has a tenantId in its path.
ResolveTenant(header, subdomain) == IF header # NoTenant THEN header ELSE subdomain

\* TenantMiddleware, and the guard up to its first await.
Arrive(r, route, t, tenant) ==
  /\ req[r].pc \in {"idle", "answered"}
  /\ LET came == [pc |-> "lookup", route |-> route, token |-> t,
                  tenant |-> tenant, user |-> NoToken, status |-> 0]
         refused == tenant = NoTenant /\ ~SkipsTenant(route)
     IN  \/ /\ refused
            /\ Move(r, Answered(route, 400))
         \/ /\ ~refused /\ IsPublic(route)
            /\ Move(r, [came EXCEPT !.pc = "throttle"])
         \/ /\ ~refused /\ ~IsPublic(route) /\ t = NoToken
            /\ Move(r, Answered(route, 401))
         \/ /\ ~refused /\ ~IsPublic(route) /\ t # NoToken
            /\ Move(r, came)

\* Mutant: a hit starts the five minutes anew.
Lookup_Sliding(r) ==
  /\ req[r].pc = "lookup"
  /\ LET e == cache[CacheKey(req[r].token)]
     IN  /\ req' = [req EXCEPT ![r] = IF e.payload = NoToken
                      THEN [@ EXCEPT !.pc = "verify"]
                      ELSE [@ EXCEPT !.pc = "match", !.user = e.payload]]
         /\ cache' = IF e.payload = NoToken THEN cache
                     ELSE [cache EXCEPT ![CacheKey(req[r].token)].left = CacheTTL]
         /\ UNCHANGED left

Lookup(r) ==
  /\ req[r].pc = "lookup"
  /\ LET e == cache[CacheKey(req[r].token)]
     IN  \/ /\ e.payload = NoToken
            /\ Move(r, [req[r] EXCEPT !.pc = "verify"])
         \/ /\ e.payload # NoToken
            /\ Move(r, [req[r] EXCEPT !.pc = "match", !.user = e.payload])

\* Mutant: the signature is checked and the exp is not.
Verify_AnyAge(r) ==
  /\ req[r].pc = "verify"
  /\ Move(r, [req[r] EXCEPT !.pc = "fill", !.user = req[r].token])

\* JwtValidationService.validateToken: the type of the token is not looked at.
Verify(r) ==
  /\ req[r].pc = "verify"
  /\ \/ left[req[r].token] > 0
        /\ Move(r, [req[r] EXCEPT !.pc = "fill", !.user = req[r].token])
     \/ left[req[r].token] = 0 /\ Answer(r, 401)

Fill(r) ==
  /\ req[r].pc = "fill"
  /\ cache' = [cache EXCEPT ![CacheKey(req[r].token)] =
                 [payload |-> req[r].user, left |-> CacheTTL]]
  /\ req' = [req EXCEPT ![r].pc = "match"]
  /\ UNCHANGED left

\* Any other error of the guard, Redis being out of reach for one.
GuardFails(r) == req[r].pc \in {"lookup", "fill"} /\ Answer(r, 401)

Match(r) ==
  /\ req[r].pc = "match"
  /\ LET mismatch == req[r].tenant # NoTenant /\ req[r].tenant # TenantOf[req[r].user]
     IN  \/ mismatch /\ Answer(r, 401)
         \/ ~mismatch /\ Move(r, [req[r] EXCEPT !.pc = "throttle"])

\* ThrottlerGuard comes second: what the AuthGuard refuses is not counted.
Throttle(r) ==
  /\ req[r].pc = "throttle"
  /\ Answer(r, 429) \/ Move(r, [req[r] EXCEPT !.pc = "pipe"])

\* ValidationPipe, the first under the clock of the interceptor.
Validate(r) ==
  /\ req[r].pc = "pipe"
  /\ Answer(r, 400) \/ Move(r, [req[r] EXCEPT !.pc = "call"])

\* The service behind the gateway answers, well or with an error...
Reply(r) == req[r].pc = "call" /\ \E s \in {200, 500} : Answer(r, s)

\* Mutant: the interceptor only watches the public routes.
Timeout_Public(r) ==
  req[r].pc \in {"pipe", "call"} /\ IsPublic(req[r].route) /\ Answer(r, 408)

\* ...or the TimeoutInterceptor answers in its place.  The guards run before
\* the interceptors, so their awaits are not under this clock.
Timeout(r) == req[r].pc \in {"pipe", "call"} /\ Answer(r, 408)

Guard(r) == Lookup(r) \/ Verify(r) \/ Fill(r) \/ Match(r) \/ Throttle(r)

Next ==
  \/ Tick
  \/ \E r \in Requests :
       \/ \E route \in Routes, t \in Tokens \cup {NoToken} :
            \E tenant \in {ResolveTenant(header, subdomain) :
                          header, subdomain \in Tenants \cup {NoTenant}} :
              Arrive(r, route, t, tenant)
       \/ Guard(r) \/ GuardFails(r) \/ Validate(r) \/ Reply(r) \/ Timeout(r)

Spec == Init /\ [][Next]_vars

\* Time passes, the event loop resumes the guards, Redis commands return, and
\* the timer of the interceptor fires.  The services behind owe nothing.
FairSpec ==
  /\ Spec
  /\ WF_vars(Tick)
  /\ \A r \in Requests : WF_vars(Guard(r)) /\ WF_vars(Timeout(r))
--------------------------------------------------------------------------------
TypeOK ==
  /\ left \in [Tokens -> 0 .. Life]
  /\ cache \in [Tokens -> Entry]
  /\ req \in [Requests -> Request]

\* A protected request reaches a service only as the owner of the token it
\* carries, and always for the tenant of that owner: the cache never hands one
\* user's payload to another, and the middleware leaves no gap for the guard.
OwnTenantOnly == \A r \in Requests :
  req[r].pc = "call" /\ ~IsPublic(req[r].route) =>
    req[r].user = req[r].token /\ req[r].tenant = TenantOf[req[r].token]

\* The cache lets a token in after its exp, but not for ever: requests that
\* keep using an expired token cannot keep its entry alive.
EventuallyShutOut == \A t \in Tokens :
  <>[](\A r \in Requests : req[r].token = t /\ ~IsPublic(req[r].route) => req[r].pc # "match")

\* An expired token that no guard has verified and is about to enter in the cache.
Expired(t) == left[t] = 0 /\ \A r \in Requests : req[r].token = t => req[r].pc # "fill"

\* What makes it so: an expired token is not verified any more, and however often
\* it is found in the cache, its entry only gets older, with every tick.
ExpiredFades == [][\A t \in Tokens : Expired(t) =>
  /\ Expired(t)'
  /\ cache[t].payload = NoToken => cache'[t].payload = NoToken
  /\ cache'[t].left <= cache[t].left
  /\ req' = req => cache'[t].left < cache[t].left \/ cache[t].left = 0]_vars

\* Every request is answered, also when the service it calls never replies.
EveryRequestAnswered == \A r \in Requests :
  req[r].pc \notin {"idle", "answered"} ~> req[r].pc = "answered"
================================================================================
