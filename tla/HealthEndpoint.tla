------------------------------ MODULE HealthEndpoint ------------------------------
(***************************************************************************)
(* The route /health of a service: the executor of the service names its   *)
(* checks, each check asks an indicator of libs/health, and                *)
(* BaseHealthController lets terminus put the outcomes together.           *)
(*                                                                         *)
(* What is wrong with a service and with what it depends on is a set of    *)
(* faults.                                                                 *)
(***************************************************************************)
EXTENDS Integers

Faults == {"stopped", "database_down", "database_hung", "redis_down", "redis_hung",
           "heap_high", "rss_high", "peer_down"}

Indicators == {"database", "redis", "heap", "rss", "peer"}

\* A hung dependency costs the five seconds that the caller waits, too.
Race(broken, hung) == IF hung THEN "late" ELSE IF broken THEN "down" ELSE "up"

\* DatabaseHealthIndicator.pingCheck: an error is caught and returned.  A ping of
\* less than a millisecond gives 0, which is taken for a failure.
PingCheck(f, ms) == Race("database_down" \in f \/ ms = 0, "database_hung" \in f)

\* RedisHealthIndicator.isHealthy: likewise.
RedisIsHealthy(f) == Race("redis_down" \in f, "redis_hung" \in f)

\* MemoryHealthIndicator.checkHeap: an error is thrown.
CheckHeap(f) == IF "heap_high" \in f THEN "throws" ELSE "up"

\* MemoryHealthIndicator.checkRSS
CheckRSS(f) == IF "rss_high" \in f THEN "throws" ELSE "up"

\* GrpcHealthIndicator.isHealthy: the stub is there, whatever the peer does, and
\* the services of proto/ have no method check.
GrpcIsHealthy(f) == "up"

\* What the ping of the database takes, in whole milliseconds: none, or some.
PingTimes == {0, 1}

Outcome(check, f, ms) ==
  CASE check = "database" -> PingCheck(f, ms)
    [] check = "redis" -> RedisIsHealthy(f)
    [] check = "heap" -> CheckHeap(f)
    [] check = "rss" -> CheckRSS(f)
    [] check = "peer" -> GrpcIsHealthy(f)

\* HealthCheckService.check: every check ends before the answer.  What one throws
\* makes the answer an error; what one returns does not, "down" included.  The
\* answer to a check that is late comes before or after the prober gives up.
Replies(outcomes) ==
  {IF "throws" \in outcomes THEN "error" ELSE "ok"}
    \cup (IF "late" \in outcomes THEN {"none"} ELSE {})

Answers(checks, f) ==
  IF "stopped" \in f THEN {"refused"}
  ELSE UNION {Replies({Outcome(c, f, ms) : c \in checks}) : ms \in PingTimes}
================================================================================
