------------------------- MODULE TemplateBuildStart -------------------------
(***************************************************************************)
(* The API handler that triggers a template build after the image push,   *)
(* PostTemplatesTemplateIDBuildsBuildID (packages/api/internal/handlers/   *)
(* template_start_build.go), for the builds of one template, with its      *)
(* calls into the template manager client (DeleteBuilds, CreateTemplate).  *)
(*                                                                         *)
(* Each request runs in its own goroutine:                                 *)
(*   load the template with the requested build (one DB read),             *)
(*   query the template's other builds in status waiting or building,      *)
(*   delete those on the template manager (stopping at the first error),   *)
(*   check that the build, as loaded, is waiting,                          *)
(*   CreateTemplate on the template manager (on error: status failed),     *)
(*   set the DB status to building, answer 202.                            *)
(* The DB rows and the template manager's running builds are shared; the   *)
(* checks and the writes are separate steps.                               *)
(***************************************************************************)
EXTENDS Naturals, FiniteSets

CONSTANTS
    Requests,   \* concurrent HTTP requests
    Builds,     \* the builds (env_builds rows) of one template
    None

Statuses == {"waiting", "building", "failed"}

VARIABLES
    status,     \* status[b]: env_builds.status in the DB
    tmRunning,  \* builds running on the template manager
    created,    \* created[b]: TemplateCreate calls accepted for build b
    rpc,        \* rpc[r]: request r's program counter
    target,     \* target[r]: the build request r triggers
    loaded,     \* loaded[r]: the status of target[r] as read by r's first query
    others      \* others[r]: the concurrently running builds r found

vars == <<status, tmRunning, created, rpc, target, loaded, others>>

(* The domain of every variable (the type of the Go state it stands for). *)
TypeOK ==
    /\ status \in [Builds -> Statuses]
    /\ tmRunning \subseteq Builds
    /\ created \in [Builds -> Nat]
    /\ rpc \in [Requests -> {"idle", "query", "cancel", "check", "create",
                             "setBuilding", "done"}]
    /\ target \in [Requests -> Builds \cup {None}]
    /\ loaded \in [Requests -> Statuses \cup {None}]
    /\ others \in [Requests -> SUBSET Builds]

(* The builds were created waiting by the earlier POST /templates call. *)
Init ==
    /\ status = [b \in Builds |-> "waiting"]
    /\ tmRunning = {}
    /\ created = [b \in Builds |-> 0]
    /\ rpc = [r \in Requests |-> "idle"]
    /\ target = [r \in Requests |-> None]
    /\ loaded = [r \in Requests |-> None]
    /\ others = [r \in Requests |-> {}]

Goto(r, l) == rpc' = [rpc EXCEPT ![r] = l]

(* An early return: an error response, nothing else changes. *)
Fail(r) == Goto(r, "done")

-----------------------------------------------------------------------------
(* Parse the build ID, get the user's teams, load the template with the   *)
(* build (Env.Query().WithBuilds(...).Only), check the team's access.     *)
(* Any of these may fail with an error response.                          *)
LoadBuild(r, b) ==
    /\ rpc[r] = "idle"
    /\ target' = [target EXCEPT ![r] = b]
    /\ \/ /\ loaded' = [loaded EXCEPT ![r] = status[b]]
          /\ Goto(r, "query")
       \/ /\ Fail(r)
          /\ UNCHANGED loaded
    /\ UNCHANGED <<status, tmRunning, created, others>>

(* EnvBuild.Query() for the template's other builds in status waiting or  *)
(* building; a DB error answers 500.                                      *)
QueryRunning(r) ==
    /\ rpc[r] = "query"
    /\ \/ /\ others' = [others EXCEPT ![r] =
                 {b \in Builds \ {target[r]} :
                     status[b] \in {"waiting", "building"}}]
          /\ Goto(r, IF others'[r] = {} THEN "check" ELSE "cancel")
       \/ /\ Fail(r)
          /\ UNCHANGED others
    /\ UNCHANGED <<status, tmRunning, created, target, loaded>>

(* templateManager.DeleteBuilds: TemplateBuildDelete for each build in    *)
(* turn, returning at the first error (500); the DB rows are not touched. *)
CancelRunning(r) ==
    /\ rpc[r] = "cancel"
    /\ \/ /\ tmRunning' = tmRunning \ others[r]
          /\ Goto(r, "check")
       \/ /\ \E deleted \in SUBSET others[r] :
                /\ deleted # others[r]
                /\ tmRunning' = tmRunning \ deleted
          /\ Fail(r)
    /\ UNCHANGED <<status, created, target, loaded, others>>

(* "only waiting builds can be triggered": the check reads the build as   *)
(* loaded by the first query.  Then a team in a cluster whose build has no *)
(* cluster node answers 500 (a property of the rows, chosen here).        *)
CheckWaiting(r) ==
    /\ rpc[r] = "check"
    /\ \/ loaded[r] = "waiting" /\ Goto(r, "create")
       \/ Fail(r)
    /\ loaded[r] # "waiting" => Fail(r)
    /\ UNCHANGED <<status, tmRunning, created, target, loaded, others>>

(* Mutant of CreateTemplate: the error path stores building, not failed. *)
CreateTemplateWrongStatus(r) ==
    LET b == target[r] IN
    /\ rpc[r] = "create"
    /\ tmRunning' = tmRunning
    /\ created' = created
    /\ status' = [status EXCEPT ![b] = "building"]
    /\ Fail(r)
    /\ UNCHANGED <<target, loaded, others>>

(* templateManager.CreateTemplate.  On success the template manager runs  *)
(* the build.  On error the handler sets the status to failed; the error  *)
(* may come after the template manager accepted the build (a deadline).   *)
CreateTemplate(r) ==
    LET b == target[r] IN
    /\ rpc[r] = "create"
    /\ \/ /\ tmRunning' = tmRunning \cup {b}
          /\ created' = [created EXCEPT ![b] = @ + 1]
          /\ Goto(r, "setBuilding")
          /\ UNCHANGED status
       \/ /\ \E accepted \in BOOLEAN :
                /\ tmRunning' = IF accepted THEN tmRunning \cup {b}
                                ELSE tmRunning
                /\ created' = IF accepted THEN [created EXCEPT ![b] = @ + 1]
                              ELSE created
          /\ \/ status' = [status EXCEPT ![b] = "failed"]
             \/ UNCHANGED status  \* SetStatus(failed) fails: logged
          /\ Fail(r)
    /\ UNCHANGED <<target, loaded, others>>

(* SetStatus(building) after the build was triggered, then 202 and the     *)
(* background BuildStatusSync.  If SetStatus fails the handler returns.    *)
SetBuilding(r) ==
    /\ rpc[r] = "setBuilding"
    /\ \/ status' = [status EXCEPT ![target[r]] = "building"]
       \/ UNCHANGED status
    /\ Goto(r, "done")
    /\ UNCHANGED <<tmRunning, created, target, loaded, others>>

(* Environment: a build on the template manager ends. *)
BuildEnds(b) ==
    /\ b \in tmRunning
    /\ tmRunning' = tmRunning \ {b}
    /\ UNCHANGED <<status, created, rpc, target, loaded, others>>

Next ==
    \/ \E r \in Requests :
          \/ \E b \in Builds : LoadBuild(r, b)
          \/ QueryRunning(r) \/ CancelRunning(r) \/ CheckWaiting(r)
          \/ CreateTemplate(r) \/ SetBuilding(r)
    \/ \E b \in Builds : BuildEnds(b)

Spec == Init /\ [][Next]_vars

-----------------------------------------------------------------------------
(* The comment on SetStatus: "status building must be set after build is  *)
(* triggered".  A build the DB shows as building has been accepted by the *)
(* template manager.                                                       *)
BuildingOnlyAfterCreate ==
    \A b \in Builds : status[b] = "building" => created[b] >= 1

(* "only waiting builds can be triggered": each build is started on the   *)
(* template manager at most once.                                          *)
BuildStartedOnce ==
    \A b \in Builds : created[b] <= 1


(* "make sure there is no other build in progress for the same template": *)
(* the handler cancels the template's other waiting or building builds    *)
(* before it starts its own, so the template manager runs at most one     *)
(* build of the template at a time.                                        *)
OneBuildInProgress == Cardinality(tmRunning) <= 1

=============================================================================
