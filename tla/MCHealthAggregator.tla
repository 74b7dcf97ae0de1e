--------------------------- MODULE MCHealthAggregator ---------------------------
\* Two instances of HealthAggregator: a critical service and another that can be
\* reached, as the documents describe them, and the registry as it is wired.
EXTENDS HealthAggregator, ServiceRegistry

\* A database that hangs; one that is down or hangs, with a heap above its limit.
SomeFaults == (auth :> {{"database_hung"}})
  @@ (employee :> {{"database_down", "heap_high"}, {"database_hung", "heap_high"}})

TwoChecks == [s \in {auth, employee} |-> ExecutorChecks[s]]

NoFaults == [s \in Enabled |-> {}]
================================================================================
