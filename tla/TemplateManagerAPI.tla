------------------------- MODULE TemplateManagerAPI -------------------------
(***************************************************************************)
(* The build-start handler composed with the template-manager client it    *)
(* calls (packages/api/internal/template-manager/template_manager.go).     *)
(* DeleteBuilds calls DeleteBuild for each running build, and each         *)
(* DeleteBuild, like CreateTemplate, first obtains the builder client      *)
(* through getBuilderClient, which reads the local template manager's      *)
(* health under localClientMutex.  The request goroutines of the handler   *)
(* are the callers of getBuilderClient; the health-sync goroutine runs     *)
(* beside them.                                                             *)
(*                                                                         *)
(* The two components are instances: H (LocalClientHealth, its status      *)
(* renamed tmStatus) and B (TemplateBuildStart).  The handler's steps that *)
(* do not call the template manager are B's; the DeleteBuilds loop and the *)
(* two outcomes of getBuilderClient inside CreateTemplate are defined here. *)
(***************************************************************************)
EXTENDS Naturals, FiniteSets

CONSTANTS
    Requests,   \* concurrent build-start requests
    Builds,     \* the builds of one template
    None

VARIABLES
    tmStatus, readers, writer, newStatus, hpc, cpc, placement, result,
    status, tmRunning, created, rpc, target, loaded, others

H == INSTANCE LocalClientHealth WITH Callers <- Requests, status <- tmStatus
B == INSTANCE TemplateBuildStart

hvars == <<tmStatus, readers, writer, newStatus, hpc, cpc, placement, result>>
bvars == <<status, tmRunning, created, rpc, target, loaded, others>>
vars == <<hvars, bvars>>

Init == H!Init /\ B!Init

(* Request r's call of getBuilderClient has returned. *)
Returned(r) == cpc[r] = "idle" /\ result[r] # "none"

(* The returned client or error is consumed by the calling function. *)
Consume(r) == result' = [result EXCEPT ![r] = "none"]

-----------------------------------------------------------------------------
(* DeleteBuild and CreateTemplate call getBuilderClient(nil, nil,         *)
(* placement): placement is false for a delete, true for a create.        *)
CallBuilderClient(r) ==
    /\ rpc[r] \in {"cancel", "create"}
    /\ result[r] = "none"
    /\ H!Call(r, rpc[r] = "create")
    /\ UNCHANGED bvars

(* One iteration of DeleteBuilds: DeleteBuild for one of the running      *)
(* builds.  A getBuilderClient error, or a TemplateBuildDelete error,     *)
(* returns from DeleteBuilds and the handler answers 500; otherwise the   *)
(* build is cancelled on the template manager and the loop goes on.       *)
DeleteBuildStep(r) ==
    /\ rpc[r] = "cancel"
    /\ Returned(r)
    /\ Consume(r)
    /\ \/ /\ result[r] = "error"
          /\ B!Fail(r)
          /\ UNCHANGED <<tmRunning, others>>
       \/ /\ result[r] = "client"
          /\ \E b \in others[r] :
                \/ /\ tmRunning' = tmRunning \ {b}
                   /\ others' = [others EXCEPT ![r] = @ \ {b}]
                   /\ B!Goto(r, IF others'[r] = {} THEN "check" ELSE "cancel")
                \/ /\ B!Fail(r)
                   /\ UNCHANGED <<tmRunning, others>>
    /\ UNCHANGED <<tmStatus, readers, writer, newStatus, hpc, cpc, placement,
                   status, created, target, loaded>>

(* CreateTemplate with the builder client: the TemplateCreate RPC and the *)
(* handler's reaction to its outcome.                                      *)
CreateWithBuilder(r) ==
    /\ Returned(r) /\ result[r] = "client"
    /\ B!CreateTemplate(r)
    /\ Consume(r)
    /\ UNCHANGED <<tmStatus, readers, writer, newStatus, hpc, cpc, placement>>

(* CreateTemplate returns an error before any RPC: NewVersionInfo fails   *)
(* (before getBuilderClient is called) or getBuilderClient returns an     *)
(* error.  The handler stores failed, which may itself fail, and returns. *)
CreateNoBuilder(r) ==
    /\ rpc[r] = "create"
    /\ cpc[r] = "idle" /\ result[r] \in {"none", "error"}
    /\ \/ status' = [status EXCEPT ![target[r]] = "failed"]
       \/ UNCHANGED status
    /\ B!Fail(r)
    /\ Consume(r)
    /\ UNCHANGED <<tmStatus, readers, writer, newStatus, hpc, cpc, placement,
                   tmRunning, created, target, loaded, others>>

-----------------------------------------------------------------------------
(* Every step of request r's goroutine. *)
RequestStep(r) ==
    \/ /\ \/ \E b \in Builds : B!LoadBuild(r, b)
          \/ B!QueryRunning(r) \/ B!CheckWaiting(r) \/ B!SetBuilding(r)
       /\ UNCHANGED hvars
    \/ CallBuilderClient(r)
    \/ H!CallerStep(r) /\ UNCHANGED bvars
    \/ DeleteBuildStep(r) \/ CreateWithBuilder(r) \/ CreateNoBuilder(r)

HealthStep == H!HealthStep /\ UNCHANGED bvars

BuildEnds == \E b \in Builds : B!BuildEnds(b) /\ UNCHANGED hvars

Next == (\E r \in Requests : RequestStep(r)) \/ HealthStep \/ BuildEnds

(* The Go scheduler runs every runnable goroutine: each request goroutine *)
(* and the health-sync goroutine.  Builds need not end.                   *)
Spec ==
    /\ Init /\ [][Next]_vars
    /\ \A r \in Requests : WF_vars(RequestStep(r))
    /\ WF_vars(HealthStep)

-----------------------------------------------------------------------------
(* The handler's comment on SetStatus(building): a build the DB shows as  *)
(* building has been accepted by the template manager, also when the      *)
(* builder client was refused or a DeleteBuild failed on the way.         *)
BuildingOnlyAfterCreate == B!BuildingOnlyAfterCreate

(* "build placement requires healthy template builder": a create that     *)
(* gets the local client got it while the status was Healthy.             *)
PlacementOnlyWhenHealthy == H!PlacementOnlyWhenHealthy

(* "only waiting builds can be triggered": each build is started on the   *)
(* template manager at most once.                                          *)
BuildStartedOnce == B!BuildStartedOnce

(* "make sure there is no other build in progress for the same template":*)
(* the template manager runs at most one build of the template at a time. *)
OneBuildInProgress == B!OneBuildInProgress

(* Every build-start request is answered: the handler returns, through    *)
(* getBuilderClient and its RLocks, whatever the health goroutine does.   *)
BuildRequestAnswered ==
    \A r \in Requests : rpc[r] # "idle" ~> rpc[r] = "done"

=============================================================================
