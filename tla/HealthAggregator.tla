----------------------------- MODULE HealthAggregator -----------------------------
(***************************************************************************)
(* The health-aggregator-service: PollingService probes the /health route  *)
(* of every enabled service, StorageService keeps the snapshots in memory, *)
(* AggregatorService judges the system by the latest ones, and             *)
(* MetricsUpdaterService copies the judgement into gauges.                 *)
(*                                                                         *)
(* A poll cycle probes the services in parallel and saves its snapshots    *)
(* together, when the last answer is in.  A check by hand goes its own way *)
(* and may overtake it.  Answers come within the timeout of five seconds,  *)
(* the cron fires every ten: two poll cycles do not overlap.               *)
(***************************************************************************)
EXTENDS HealthEndpoint, FiniteSets, SequencesExt

CONSTANTS
  Services,    \* the enabled services of the registry
  Critical,    \* the critical ones
  Serving,     \* the services that serve HTTP
  TenantBound, \* the services that answer no request without a tenant
  HealthChecks,\* of each service: the indicators that its /health asks
  MayFail,     \* of each service: the sets of faults that it may have
  Checks,      \* slots for checks by hand
  MaxHistory,  \* maxSnapshotsPerService
  MaxSaved,    \* bound: snapshots of a service that the history variable keeps
  NoService

ASSUME ServicesAssumption ==
  IsFiniteSet(Services) /\ Critical \subseteq Services /\ NoService \notin Services
ASSUME EndpointsAssumption ==
  /\ Serving \subseteq Services /\ TenantBound \subseteq Services
  /\ HealthChecks \in [Services -> SUBSET Indicators] /\ MayFail \in [Services -> SUBSET SUBSET Faults]
ASSUME MaxHistoryAssumption == MaxHistory \in Nat \ {0}
ASSUME MaxSavedAssumption == MaxSaved \in Nat /\ MaxSaved >= MaxHistory

VARIABLES
  faults,     \* of each service: what is wrong with it and what it depends on
  listening,  \* onModuleInit is over: the HTTP server accepts requests
  probe,      \* of each service: its probe in the poll cycle
  check,      \* checks by hand: the service and the answer
  snapshots,  \* the Map of StorageService
  gauge,      \* service_health_status
  saved       \* history: the last snapshots saved of each service

vars == <<faults, listening, probe, check, snapshots, gauge, saved>>
--------------------------------------------------------------------------------
Statuses == {"healthy", "unhealthy"}

\* Mutant: the oldest snapshots are kept.
Saved_Oldest(list, status) ==
  LET all == Append(list, status)
  IN  IF Len(all) > MaxHistory THEN SubSeq(all, 1, MaxHistory) ELSE all

\* saveHealthSnapshot: push, then slice(-MaxHistory).
Saved(list, status) ==
  LET all == Append(list, status)
  IN  IF Len(all) > MaxHistory THEN SubSeq(all, Len(all) - MaxHistory + 1, Len(all)) ELSE all

\* getLatestSnapshotsForAllServices; "unknown" where there is none.
Latest(s) == IF snapshots[s] = <<>> THEN "unknown" ELSE Last(snapshots[s])

HealthyServices == {s \in Services : Latest(s) = "healthy"}

\* Math.round((healthyCount / totalServices) * 100)
Score(healthy, total) ==
  IF total = 0 THEN 0 ELSE (200 * healthy + total) \div (2 * total)

HealthScore == Score(Cardinality(HealthyServices), Cardinality(Services))

\* Mutant: half of the services will do.
Status_NotCritical ==
  IF HealthScore = 100 THEN "healthy" ELSE IF HealthScore >= 50 THEN "degraded" ELSE "unhealthy"

\* getAggregateHealth
Status ==
  IF HealthScore = 100 THEN "healthy"
  ELSE IF HealthScore >= 50 /\ Critical \subseteq HealthyServices THEN "degraded"
  ELSE "unhealthy"

\* getSystemStatus
CriticalServicesHealthy == Critical \subseteq HealthyServices
--------------------------------------------------------------------------------
\* What GET healthUrl may come to.  No controller is behind the TenantMiddleware.
ProbeAnswers(s) ==
  IF s \notin Serving THEN {"refused"}
  ELSE IF s \in TenantBound /\ "stopped" \notin faults[s] THEN {"error"}
  ELSE Answers(HealthChecks[s], faults[s])

\* Mutant: a third status, for a service that does not answer in time.
Judged_Unknown(answer) ==
  IF answer = "ok" THEN "healthy" ELSE IF answer = "none" THEN "unknown" ELSE "unhealthy"

\* pollService: axios rejects what is not 2xx, and the timeout what is late.
Judged(answer) == IF answer = "ok" THEN "healthy" ELSE "unhealthy"

\* What a process starts with; onModuleInit has called pollAllServices.
Booted ==
  [listening |-> FALSE, probe |-> [s \in Services |-> "pending"],
   check |-> [c \in Checks |-> [service |-> NoService, answer |-> "none"]],
   snapshots |-> [s \in Services |-> <<>>], gauge |-> [s \in Services |-> 0]]

Init ==
  /\ faults = [s \in Services |-> {}]
  /\ listening = Booted.listening /\ probe = Booted.probe /\ check = Booted.check
  /\ snapshots = Booted.snapshots /\ gauge = Booted.gauge
  /\ saved = Booted.snapshots

\* The history is in memory: a new process begins with none.
Restart ==
  /\ listening' = Booted.listening /\ probe' = Booted.probe /\ check' = Booted.check
  /\ snapshots' = Booted.snapshots /\ gauge' = Booted.gauge
  /\ saved' = Booted.snapshots
  /\ UNCHANGED faults

\* Faults come and go.
Change(s) ==
  /\ \E f \in MayFail[s] \cup {{}} : faults' = [faults EXCEPT ![s] = f]
  /\ UNCHANGED <<listening, probe, check, snapshots, gauge, saved>>

\* Mutant: a service that has failed is not probed again.
PollStart_SkipFailed ==
  /\ listening /\ \A s \in Services : probe[s] = "none"
  /\ probe' = [s \in Services |-> IF Latest(s) = "unhealthy" THEN "unhealthy" ELSE "pending"]
  /\ UNCHANGED <<faults, listening, check, snapshots, gauge, saved>>

\* pollAllServices, by cron.  Cron jobs start after onModuleInit.
PollStart ==
  /\ listening /\ \A s \in Services : probe[s] = "none"
  /\ probe' = [s \in Services |-> "pending"]
  /\ UNCHANGED <<faults, listening, check, snapshots, gauge, saved>>

\* Mutant: the server listens while the first poll is under way.
PollAnswer_Listening(s) ==
  /\ probe[s] = "pending"
  /\ \E answer \in ProbeAnswers(s) : probe' = [probe EXCEPT ![s] = Judged(answer)]
  /\ listening' = TRUE
  /\ UNCHANGED <<faults, check, snapshots, gauge, saved>>

PollAnswer(s) ==
  /\ probe[s] = "pending"
  /\ \E answer \in ProbeAnswers(s) : probe' = [probe EXCEPT ![s] = Judged(answer)]
  /\ UNCHANGED <<faults, listening, check, snapshots, gauge, saved>>

Kept(list, status) == LET all == Append(list, status)
                      IN  IF Len(all) > MaxSaved THEN Tail(all) ELSE all

\* All probes are settled: save the snapshots.
PollSave ==
  /\ \A s \in Services : probe[s] \in Statuses
  /\ snapshots' = [s \in Services |-> Saved(snapshots[s], probe[s])]
  /\ saved' = [s \in Services |-> Kept(saved[s], probe[s])]
  /\ probe' = [s \in Services |-> "none"]
  /\ listening' = TRUE
  /\ UNCHANGED <<faults, check, gauge>>

\* pollServiceByName
CheckStart(c, s) ==
  /\ listening /\ check[c].service = NoService
  /\ check' = [check EXCEPT ![c] = [service |-> s, answer |-> "none"]]
  /\ UNCHANGED <<faults, listening, probe, snapshots, gauge, saved>>

CheckAnswer(c) ==
  /\ check[c].service # NoService /\ check[c].answer = "none"
  /\ \E answer \in ProbeAnswers(check[c].service) :
       check' = [check EXCEPT ![c].answer = Judged(answer)]
  /\ UNCHANGED <<faults, listening, probe, snapshots, gauge, saved>>

CheckSave(c) ==
  LET s == check[c].service
      status == check[c].answer
  IN  /\ status \in Statuses
      /\ snapshots' = [snapshots EXCEPT ![s] = Saved(@, status)]
      /\ saved' = [saved EXCEPT ![s] = Kept(@, status)]
      /\ check' = [check EXCEPT ![c] = [service |-> NoService, answer |-> "none"]]
      /\ UNCHANGED <<faults, listening, probe, gauge>>

\* Mutant: the gauge of every service gets the verdict on the system.
UpdateMetrics_Verdict ==
  /\ gauge' = [s \in Services |-> IF Status = "healthy" THEN 1 ELSE 0]
  /\ UNCHANGED <<faults, listening, probe, check, snapshots, saved>>

\* updateMetrics: at startup and by cron.  Unknown counts as unhealthy.
UpdateMetrics ==
  /\ gauge' = [s \in Services |-> IF Latest(s) = "healthy" THEN 1 ELSE 0]
  /\ UNCHANGED <<faults, listening, probe, check, snapshots, saved>>

Poll == PollStart \/ (\E s \in Services : PollAnswer(s)) \/ PollSave

Check(c) == CheckAnswer(c) \/ CheckSave(c)

Next ==
  \/ Restart
  \/ \E s \in Services : Change(s) \/ \E c \in Checks : CheckStart(c, s)
  \/ Poll \/ UpdateMetrics
  \/ \E c \in Checks : Check(c)

Spec == Init /\ [][Next]_vars

\* The cron jobs fire for ever, and every probe is answered or times out.
FairSpec ==
  /\ Spec /\ WF_vars(Poll) /\ WF_vars(UpdateMetrics)
  /\ \A c \in Checks : WF_vars(Check(c))
--------------------------------------------------------------------------------
TypeOK ==
  /\ faults \in [Services -> SUBSET Faults] /\ listening \in BOOLEAN
  /\ probe \in [Services -> {"none", "pending"} \cup Statuses]
  /\ check \in [Checks -> [service : Services \cup {NoService},
                           answer : {"none"} \cup Statuses]]
  /\ snapshots \in [Services -> Seq(Statuses)] /\ saved \in [Services -> Seq(Statuses)]
  /\ gauge \in [Services -> {0, 1}]

\* The history holds exactly the most recent snapshots, in the order they were
\* saved, by poll cycles and by checks: no more than the limit, none missing.
KeepsTheLatest == \A s \in Services :
  /\ Len(snapshots[s]) <= MaxHistory
  /\ IsSuffix(snapshots[s], saved[s])
  /\ Len(saved[s]) <= MaxHistory => snapshots[s] = saved[s]

\* A system is called healthy only when every service is, and is not called
\* degraded while a critical service is down or unknown; and whoever can ask for
\* the verdict gets one from probes: no service is unknown once the server
\* listens, also after a restart.
VerdictHonest ==
  /\ Status = "healthy" => HealthyServices = Services
  /\ Status = "degraded" => CriticalServicesHealthy
  /\ listening => \A s \in Services : Latest(s) # "unknown"

\* What a probe cannot miss: the process is stopped, or a check of memory throws.
Fatal(s) == {"stopped"} \cup (IF "heap" \in HealthChecks[s] THEN {"heap_high"} ELSE {})
                       \cup (IF "rss" \in HealthChecks[s] THEN {"rss_high"} ELSE {})

\* All that is known and on its way about a service says the same: the latest
\* snapshot, the gauge, and the probes that a poll cycle or a check still holds.
Told(s, status) ==
  /\ Latest(s) = status /\ gauge[s] = IF status = "healthy" THEN 1 ELSE 0
  /\ probe[s] \in {"none", "pending", status}
  /\ \A c \in Checks : check[c].service = s => check[c].answer \in {"none", status}

\* What is told of a service that has nothing wrong, or something fatal, stays
\* told, whatever polls and checks overtake each other, until its faults change
\* or the aggregator restarts.
TellingStays == [][listening' => \A s \in Serving \ TenantBound :
  /\ Told(s, "healthy") /\ faults[s] = {} => Told(s, "healthy")'
  /\ Told(s, "unhealthy") /\ faults[s] \cap Fatal(s) # {} => Told(s, "unhealthy")']_vars

\* When a service has nothing wrong for good, or something fatal, and the
\* aggregator stops restarting, the latest snapshot and the gauge come to tell so,
\* and stay so, although a check by hand may be overtaken by an older probe.
EventuallyTold == \A s \in Serving \ TenantBound :
  /\ <>[](listening /\ faults[s] = {}) => <>[](Latest(s) = "healthy" /\ gauge[s] = 1)
  /\ <>[](listening /\ faults[s] \cap Fatal(s) # {}) => <>[](Latest(s) = "unhealthy" /\ gauge[s] = 0)

\* A system in which nothing is wrong is in the end called healthy, the verdict
\* that getSystemStatus words as "All services are healthy".
WellIsCalledHealthy ==
  <>[](listening /\ \A s \in Services : faults[s] = {}) => <>[](Status = "healthy")
================================================================================
