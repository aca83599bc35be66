---------------------- MODULE MCOrchestratorLifecycle ----------------------
(* Both env.IsLocal() settings are initial states;                     *)
(* at most three errors are counted (Start, Close, telemetry).          *)
EXTENDS OrchestratorLifecycle

MCMaxErrors == 3
=============================================================================
