------------------------ MODULE OrchestratorLifecycle ------------------------
(***************************************************************************)
(* Start-up and shutdown of the orchestrator process                       *)
(* (packages/orchestrator/main.go, internal/server/main.go).               *)
(*                                                                         *)
(* main builds the Service (server.New) and starts three goroutines under  *)
(* one WaitGroup: the service goroutine runs srv.Start (which starts the   *)
(* DNS and gRPC goroutines and only then stores srv.shutdown.op), the      *)
(* close goroutine waits for the signal context and calls srv.Close (a     *)
(* sync.Once that runs shutdown.op if it is set) and then closes           *)
(* telemetrySignal, and, outside local mode, the telemetry goroutine waits *)
(* for telemetrySignal.  main exits with the error count once all three    *)
(* are done.  A failed Start cancels the root context, which also ends the *)
(* signal context.  shutdown.op is written by one goroutine and read by    *)
(* another without synchronisation; the model lets the read see either     *)
(* value, by interleaving the write and the read.                          *)
(***************************************************************************)
EXTENDS Naturals

CONSTANTS
    MaxErrors   \* bound on exitCode

VARIABLES
    local,      \* env.IsLocal(): no telemetry exporter goroutine
    phase,      \* "new", "running", "fatal" (log.Fatalf), "crashed", "exited"
    sigDone,    \* the signal context is done (SIGINT/SIGTERM or cancel())
    spc,        \* service goroutine: "start", "listen", "setOp", "deferred", "done"
    cpc,        \* close goroutine: "wait", "close", "done"
    tpc,        \* telemetry goroutine: "wait", "done"
    dns,        \* the DNS goroutine has been started
    serving,    \* the gRPC Serve goroutine has been started
    op,         \* srv.shutdown.op: "nil", "set" or "ran" (set to nil after running)
    graceful,   \* GracefulStop has run
    telemetrySignal, \* telemetrySignal has been closed
    exitCode,   \* exitCode
    startErr,   \* srv.Start returned an error
    closeSkipped \* Close found shutdown.op nil and did nothing

vars == <<local, phase, sigDone, spc, cpc, tpc, dns, serving, op, graceful,
          telemetrySignal, exitCode, startErr, closeSkipped>>

(* The domain of every variable (the type of the Go state it stands for). *)
TypeOK ==
    /\ local \in BOOLEAN
    /\ phase \in {"new", "running", "fatal", "crashed", "exited"}
    /\ sigDone \in BOOLEAN
    /\ spc \in {"start", "listen", "setOp", "deferred", "done"}
    /\ cpc \in {"wait", "close", "done"}
    /\ tpc \in {"wait", "done"}
    /\ {dns, serving, graceful, telemetrySignal, startErr, closeSkipped}
          \subseteq BOOLEAN
    /\ op \in {"nil", "set", "ran"}
    /\ exitCode \in 0..MaxErrors

Init ==
    /\ local \in BOOLEAN
    /\ phase = "new"
    /\ sigDone = FALSE
    /\ spc = "start"
    /\ cpc = "wait"
    /\ tpc = IF local THEN "done" ELSE "wait"
    /\ dns = FALSE
    /\ serving = FALSE
    /\ op = "nil"
    /\ graceful = FALSE
    /\ telemetrySignal = FALSE
    /\ exitCode = 0
    /\ startErr = FALSE
    /\ closeSkipped = FALSE

AddError(e) == exitCode' = IF e THEN exitCode + 1 ELSE exitCode

Running == phase = "running"

-----------------------------------------------------------------------------
(* server.New: on error main calls log.Fatalf, which exits at once        *)
(* without running the deferred wg.Wait; otherwise the goroutines start.  *)
NewServer ==
    /\ phase = "new"
    /\ \E ok \in BOOLEAN : phase' = IF ok THEN "running" ELSE "fatal"
    /\ UNCHANGED <<local, sigDone, spc, cpc, tpc, dns, serving, op, graceful,
                   telemetrySignal, exitCode, startErr, closeSkipped>>

(* srv.Start: the services are initialised (New succeeded), so the DNS     *)
(* goroutine is started.                                                   *)
StartDNS ==
    /\ Running /\ spc = "start"
    /\ dns' = TRUE
    /\ spc' = "listen"
    /\ UNCHANGED <<local, phase, sigDone, cpc, tpc, serving, op, graceful,
                   telemetrySignal, exitCode, startErr, closeSkipped>>

(* net.Listen: on failure Start returns the error, which the service      *)
(* goroutine counts; on success the gRPC Serve goroutine is started.      *)
Listen ==
    /\ Running /\ spc = "listen"
    /\ \/ /\ serving' = TRUE
          /\ spc' = "setOp"
          /\ UNCHANGED <<exitCode, startErr>>
       \/ /\ startErr' = TRUE
          /\ AddError(TRUE)
          /\ spc' = "deferred"
          /\ UNCHANGED serving
    /\ UNCHANGED <<local, phase, sigDone, cpc, tpc, dns, op, graceful,
                   telemetrySignal, closeSkipped>>

(* srv.shutdown.op = ...; return nil *)
SetOp ==
    /\ Running /\ spc = "setOp"
    /\ op' = "set"
    /\ spc' = "deferred"
    /\ UNCHANGED <<local, phase, sigDone, cpc, tpc, dns, serving, graceful,
                   telemetrySignal, exitCode, startErr, closeSkipped>>

(* Mutant of ServiceDeferred: the deferred function forgets cancel(). *)
ServiceDeferredNoCancel ==
    /\ Running /\ spc = "deferred"
    /\ spc' = "done"
    /\ UNCHANGED <<local, phase, sigDone, cpc, tpc, dns, serving, op, graceful,
                   telemetrySignal, exitCode, startErr, closeSkipped>>

(* The service goroutine's deferred function: after an error, if the      *)
(* signal context is not done, cancel() the root context; then wg.Done.   *)
ServiceDeferred ==
    /\ Running /\ spc = "deferred"
    /\ sigDone' = (sigDone \/ startErr)
    /\ spc' = "done"
    /\ UNCHANGED <<local, phase, cpc, tpc, dns, serving, op, graceful,
                   telemetrySignal, exitCode, startErr, closeSkipped>>

(* The close goroutine: <-sig.Done(), then srv.Close(ctx) and the         *)
(* deferred close(telemetrySignal).  Close runs the once-function: with   *)
(* op nil it returns nil; otherwise op runs GracefulStop, lis.Close and   *)
(* dns.Close, whose joined error is counted, and op is set to nil.        *)
CloseService ==
    /\ Running /\ cpc = "wait"
    /\ sigDone
    /\ \/ /\ op = "nil"
          /\ closeSkipped' = TRUE
          /\ UNCHANGED <<op, graceful, exitCode>>
       \/ /\ op = "set"
          /\ op' = "ran"
          /\ graceful' = TRUE
          /\ \E e \in BOOLEAN : AddError(e)
          /\ UNCHANGED closeSkipped
    /\ telemetrySignal' = TRUE
    /\ cpc' = "done"
    /\ UNCHANGED <<local, phase, sigDone, spc, tpc, dns, serving, startErr>>

(* The telemetry goroutine: <-telemetrySignal, then the exporter shutdown, *)
(* whose error is counted.                                                 *)
TelemetryShutdown ==
    /\ Running /\ tpc = "wait"
    /\ telemetrySignal
    /\ \E e \in BOOLEAN : AddError(e)
    /\ tpc' = "done"
    /\ UNCHANGED <<local, phase, sigDone, spc, cpc, dns, serving, op, graceful,
                   telemetrySignal, startErr, closeSkipped>>

(* wg.Wait() returns and main calls os.Exit(exitCode). *)
Exit ==
    /\ Running
    /\ spc = "done" /\ cpc = "done" /\ tpc = "done"
    /\ phase' = "exited"
    /\ UNCHANGED <<local, sigDone, spc, cpc, tpc, dns, serving, op, graceful,
                   telemetrySignal, exitCode, startErr, closeSkipped>>

-----------------------------------------------------------------------------
(* Environment: SIGINT/SIGTERM may arrive at any time. *)
Signal ==
    /\ phase \in {"new", "running"}
    /\ ~sigDone
    /\ sigDone' = TRUE
    /\ UNCHANGED <<local, phase, spc, cpc, tpc, dns, serving, op, graceful,
                   telemetrySignal, exitCode, startErr, closeSkipped>>

(* dns.Start or grpc.Serve fails before shutdown: their goroutines call   *)
(* log.Panic, which no recover covers, and the process dies.              *)
ChildPanic ==
    /\ Running
    /\ (dns \/ serving) /\ ~graceful
    /\ phase' = "crashed"
    /\ UNCHANGED <<local, sigDone, spc, cpc, tpc, dns, serving, op, graceful,
                   telemetrySignal, exitCode, startErr, closeSkipped>>

ServiceStep == StartDNS \/ Listen \/ SetOp \/ ServiceDeferred

Next ==
    \/ NewServer \/ ServiceStep \/ CloseService \/ TelemetryShutdown \/ Exit
    \/ Signal \/ ChildPanic

(* Every goroutine, and main, is scheduled fairly; signals and panics are *)
(* not bound to happen.                                                    *)
Spec ==
    /\ Init /\ [][Next]_vars
    /\ WF_vars(NewServer) /\ WF_vars(ServiceStep) /\ WF_vars(CloseService)
    /\ WF_vars(TelemetryShutdown) /\ WF_vars(Exit)

-----------------------------------------------------------------------------
(* Once a signal arrives or Start fails, the process terminates: every    *)
(* goroutine under the WaitGroup finishes and main exits (or a child      *)
(* goroutine's panic, or log.Fatalf in main, kills it).                                            *)
TerminatesOnSignalOrStartFailure ==
    (sigDone \/ startErr) ~> phase \in {"exited", "crashed", "fatal"}

(* The comment in Service.Close: shutdown.op is nil at Close "only ... if *)
(* there was an error during startup".                                    *)
CloseSkipsOnlyAfterStartupError ==
    closeSkipped => startErr

=============================================================================
