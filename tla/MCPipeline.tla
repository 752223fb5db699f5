----------------------------- MODULE MCPipeline -----------------------------
(* Pipeline with every built-in route and chains of up to three global     *)
(* layers: none, the usual one, recovery on either side of the log, two    *)
(* logs.                                                                   *)
EXTENDS Pipeline

MCGlobals ==
    {<<>>, <<"recover">>, <<"log">>, <<"log", "metrics", "recover">>,
     <<"recover", "metrics", "log">>, <<"log", "log">>}

(* MetricsMiddleware does not depend on the route: one setting of it each. *)
MCRoutes ==
    {[to |-> "app", report |-> "none", accessLogs |-> FALSE, metricsForEndpoint |-> FALSE]}
    \cup [to : {"health"}, report : {"none", "json", "html"},
          accessLogs : BOOLEAN, metricsForEndpoint : BOOLEAN]
    \cup [to : {"metrics", "profiler"}, report : {"none"},
          accessLogs : BOOLEAN, metricsForEndpoint : {TRUE}]

MCRPCChains == {<<>>, <<"log", "metrics">>, <<"metrics", "log">>, <<"log", "log">>}
=============================================================================
