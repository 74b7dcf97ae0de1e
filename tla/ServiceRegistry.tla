------------------------------ MODULE ServiceRegistry ------------------------------
(***************************************************************************)
(* The services that SERVICE_REGISTRY of the health-aggregator names, what *)
(* each checks for /health, and what stands between a probe and the route. *)
(***************************************************************************)
EXTENDS HealthEndpoint, TLC

CONSTANTS gateway, auth, employee

\* getEnabledServices: all are enabled.
Enabled == {gateway, auth, employee}

\* getCriticalServices: all are critical.
CriticalServices == {gateway, auth, employee}

\* ApiGatewayHealthExecutor.getHealthChecks
GatewayChecks == {"redis", "heap", "rss", "peer"}

\* AuthServiceHealthExecutor.getHealthChecks
AuthChecks == {"database"}

\* EmployeeServiceHealthExecutor.getHealthChecks
EmployeeChecks == {"database", "heap", "rss"}

ExecutorChecks == (gateway :> GatewayChecks) @@ (auth :> AuthChecks) @@ (employee :> EmployeeChecks)

\* Who serves HTTP.  The others are gRPC microservices: createMicroservice alone
\* registers no routes, their HealthController included.
ServeHttp == {gateway}

\* The TenantMiddleware is applied to every route of the gateway, /health too, and
\* the host of healthUrl has no subdomain: a probe without X-Tenant-ID is refused.
WantTenant == {gateway}
================================================================================
