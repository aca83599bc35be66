-------------------------- MODULE LocalClientHealth --------------------------
(***************************************************************************)
(* The API's view of the local template manager's health                   *)
(* (packages/api/internal/template-manager): the health-sync goroutine     *)
(* (localClientPeriodicHealthSync) writes localClientStatus under          *)
(* localClientMutex.Lock, and request goroutines read it in                *)
(* getBuilderClient, which holds localClientMutex.RLock for the whole      *)
(* local branch and reads the status through GetLocalClientStatus, which   *)
(* takes the same RLock again.                                             *)
(*                                                                         *)
(* sync.RWMutex is modelled by what Go does: once a writer has called      *)
(* Lock, no new RLock succeeds until that writer has unlocked, and the     *)
(* writer waits for the readers already inside.  A nested                  *)
(* GetLocalClientStatus call (RLock, read, RUnlock) is one step: it can    *)
(* run exactly when no writer is waiting or holding the lock.              *)
(***************************************************************************)
EXTENDS Naturals

CONSTANTS
    Callers         \* goroutines calling getBuilderClient(nil, nil, placement)

(* infogrpc.ServiceInfoStatus values *)
Healthy == "OrchestratorHealthy"
Draining == "OrchestratorDraining"
Unhealthy == "OrchestratorUnhealthy"
Statuses == {Healthy, Draining, Unhealthy}

VARIABLES
    status,     \* tm.localClientStatus
    readers,    \* callers holding the outer RLock of getBuilderClient
    writer,     \* the health goroutine's Lock: "none", "waiting" or "held"
    newStatus,  \* the status the health goroutine is about to store
    hpc,        \* the health goroutine's program counter
    cpc,        \* cpc[c]: caller c's program counter
    placement,  \* placement[c]: the placement argument of c's call
    result      \* result[c]: "client" or "error", once decided

vars == <<status, readers, writer, newStatus, hpc, cpc, placement, result>>

(* The domain of every variable (the type of the Go state it stands for). *)
TypeOK ==
    /\ status \in Statuses
    /\ readers \subseteq Callers
    /\ writer \in {"none", "waiting", "held"}
    /\ newStatus \in Statuses
    /\ hpc \in {"rpc", "lock", "acquire"}
    /\ cpc \in [Callers -> {"idle", "rlock", "logStatus", "placementCheck",
                            "unhealthyCheck", "return"}]
    /\ placement \in [Callers -> BOOLEAN]
    /\ result \in [Callers -> {"none", "client", "error"}]

(* New starts with OrchestratorUnhealthy; the first health check is the    *)
(* first step of the health goroutine.                                     *)
Init ==
    /\ status = Unhealthy
    /\ readers = {}
    /\ writer = "none"
    /\ newStatus = Unhealthy
    /\ hpc = "rpc"
    /\ cpc = [c \in Callers |-> "idle"]
    /\ placement = [c \in Callers |-> FALSE]
    /\ result = [c \in Callers |-> "none"]

(* An RLock can be taken: no writer waits for or holds the mutex. *)
CanRLock == writer = "none"

-----------------------------------------------------------------------------
(* A caller enters getBuilderClient with clusterID or nodeID nil:         *)
(* CreateTemplate passes placement = TRUE, DeleteBuild, GetStatus and      *)
(* GetLogs pass FALSE.                                                     *)
Call(c, p) ==
    /\ cpc[c] = "idle"
    /\ cpc' = [cpc EXCEPT ![c] = "rlock"]
    /\ placement' = [placement EXCEPT ![c] = p]
    /\ result' = [result EXCEPT ![c] = "none"]
    /\ UNCHANGED <<status, readers, writer, newStatus, hpc>>

(* Mutant of OuterRLock: getBuilderClient without its own RLock, reading *)
(* the status only through GetLocalClientStatus.                          *)
OuterRLockMissing(c) ==
    /\ cpc[c] = "rlock"
    /\ cpc' = [cpc EXCEPT ![c] = "logStatus"]
    /\ UNCHANGED <<status, readers, writer, newStatus, hpc, placement, result>>

(* tm.localClientMutex.RLock() with `defer RUnlock()`. *)
OuterRLock(c) ==
    /\ cpc[c] = "rlock"
    /\ CanRLock
    /\ readers' = readers \cup {c}
    /\ cpc' = [cpc EXCEPT ![c] = "logStatus"]
    /\ UNCHANGED <<status, writer, newStatus, hpc, placement, result>>

(* The zap field tm.GetLocalClientStatus().String() of the log line is    *)
(* evaluated whatever the log level: a nested RLock.                      *)
LogStatus(c) ==
    /\ cpc[c] = "logStatus"
    /\ CanRLock
    /\ cpc' = [cpc EXCEPT ![c] = "placementCheck"]
    /\ UNCHANGED <<status, readers, writer, newStatus, hpc, placement, result>>

(* `placement && GetLocalClientStatus() != Healthy`: the status is read   *)
(* (a nested RLock) only when placement is true.                          *)
PlacementCheck(c) ==
    /\ cpc[c] = "placementCheck"
    /\ \/ /\ ~placement[c]
          /\ cpc' = [cpc EXCEPT ![c] = "unhealthyCheck"]
          /\ UNCHANGED result
       \/ /\ placement[c]
          /\ CanRLock
          /\ IF status # Healthy
             THEN /\ cpc' = [cpc EXCEPT ![c] = "return"]
                  /\ result' = [result EXCEPT ![c] = "error"]
             ELSE /\ cpc' = [cpc EXCEPT ![c] = "unhealthyCheck"]
                  /\ UNCHANGED result
    /\ UNCHANGED <<status, readers, writer, newStatus, hpc, placement>>

(* `GetLocalClientStatus() == Unhealthy` (a nested RLock) returns          *)
(* ErrLocalTemplateManagerNotAvailable, otherwise the local client.       *)
UnhealthyCheck(c) ==
    /\ cpc[c] = "unhealthyCheck"
    /\ CanRLock
    /\ cpc' = [cpc EXCEPT ![c] = "return"]
    /\ result' = [result EXCEPT ![c] =
                     IF status = Unhealthy THEN "error" ELSE "client"]
    /\ UNCHANGED <<status, readers, writer, newStatus, hpc, placement>>

(* The deferred RUnlock runs as getBuilderClient returns. *)
Return(c) ==
    /\ cpc[c] = "return"
    /\ readers' = readers \ {c}
    /\ cpc' = [cpc EXCEPT ![c] = "idle"]
    /\ UNCHANGED <<status, writer, newStatus, hpc, placement, result>>

-----------------------------------------------------------------------------
(* localClientHealthSync: the ServiceInfo call either fails (status       *)
(* Unhealthy) or returns the service's status; each tick repeats it.      *)
HealthRPC ==
    /\ hpc = "rpc"
    /\ \E s \in Statuses : newStatus' = s
    /\ hpc' = "lock"
    /\ UNCHANGED <<status, readers, writer, cpc, placement, result>>

(* setLocalClientStatus: localClientMutex.Lock().  From here on new       *)
(* RLocks block.                                                           *)
WriterLock ==
    /\ hpc = "lock"
    /\ writer = "none"
    /\ writer' = "waiting"
    /\ hpc' = "acquire"
    /\ UNCHANGED <<status, readers, newStatus, cpc, placement, result>>

(* The writer gets the mutex once the readers inside have left, stores    *)
(* the status and unlocks.                                                 *)
WriterSetUnlock ==
    /\ hpc = "acquire"
    /\ writer = "waiting"
    /\ readers = {}
    /\ status' = newStatus
    /\ writer' = "none"
    /\ hpc' = "rpc"
    /\ UNCHANGED <<readers, newStatus, cpc, placement, result>>

-----------------------------------------------------------------------------
CallerStep(c) ==
    \/ OuterRLock(c) \/ LogStatus(c) \/ PlacementCheck(c)
    \/ UnhealthyCheck(c) \/ Return(c)

HealthStep == HealthRPC \/ WriterLock \/ WriterSetUnlock

Next ==
    \/ \E c \in Callers :
          \/ \E p \in BOOLEAN : Call(c, p)
          \/ CallerStep(c)
    \/ HealthStep

(* Goroutines are scheduled fairly; requests need not arrive. *)
Spec ==
    /\ Init /\ [][Next]_vars
    /\ \A c \in Callers : WF_vars(CallerStep(c))
    /\ WF_vars(HealthStep)

-----------------------------------------------------------------------------
(* getBuilderClient hands out the local client for a build placement only *)
(* when the local template manager is healthy, and the status cannot      *)
(* change while the call runs: when it returns the client for a           *)
(* placement, the status is still Healthy.                                *)
PlacementOnlyWhenHealthy ==
    \A c \in Callers :
        cpc[c] = "return" /\ placement[c] /\ result[c] = "client"
            => status = Healthy

=============================================================================
