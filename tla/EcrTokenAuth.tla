---------------------------- MODULE EcrTokenAuth ----------------------------
(***************************************************************************)
(* The docker reverse proxy on AWS (packages/docker-reverse-proxy): start- *)
(* up (CheckRequired, InitAWSConfig under sync.Once, NewStore), the        *)
(* routing of main's handler, and the token endpoint HandleAWSECRToken,    *)
(* which first ensures the template's ECR repository exists               *)
(* (DescribeRepositories, then CreateRepository when it is missing) and    *)
(* then fetches an ECR authorization token.                                *)
(*                                                                         *)
(* net/http serves every request in its own goroutine, so the token        *)
(* requests interleave; the ECR repositories are the shared state.  Each   *)
(* AWS call may fail (a throttle, a network error, expired credentials):   *)
(* such a failure is a fault, recorded per request.  Request contents are  *)
(* abstracted to the features the routing and the scope parsing test.      *)
(***************************************************************************)
EXTENDS Naturals

CONSTANTS
    Requests,   \* concurrent HTTP requests
    Templates,  \* template IDs
    None

(* The features of a request that main's handler and HandleAWSECRToken    *)
(* test: the path ("upload" is /v2/e2b/custom-envs/<id>/blobs/uploads/..), *)
(* the method, whether an Authorization header is present, and the token  *)
(* scope: empty, without a template ID, or naming a template.             *)
Paths == {"health", "upload", "token", "login", "other"}
Methods == {"GET", "POST", "PATCH"}
Scopes == {"", "noTemplate"} \cup Templates
Inputs == [path : Paths, method : Methods, auth : BOOLEAN, scope : Scopes]

Answers == {"none", "health", "upload", "notFound", "unauthorized", "login",
            "proxy", "token", "ensureFailed", "tokenFailed"}

VARIABLES
    phase,      \* the process: "start", "store", "serving" or "fatal"
    repos,      \* the ECR repositories <AWS_ECR_REPOSITORY_NAME>/<template>
    req,        \* req[r]: request r's input, or None before it arrives
    pc,         \* pc[r]: "idle", "describe", "create", "authToken", "done"
    ans,        \* ans[r]: the handler that answered r, or the failure
    fault       \* fault[r]: an AWS call of r returned an error

vars == <<phase, repos, req, pc, ans, fault>>

(* The domain of every variable (the type of the Go state it stands for). *)
TypeOK ==
    /\ phase \in {"start", "store", "serving", "fatal"}
    /\ repos \subseteq Templates
    /\ req \in [Requests -> Inputs \cup {None}]
    /\ pc \in [Requests -> {"idle", "describe", "create", "authToken", "done"}]
    /\ ans \in [Requests -> Answers]
    /\ fault \in [Requests -> BOOLEAN]

(* Some templates already have their repository from earlier pushes. *)
Init ==
    /\ phase = "start"
    /\ repos \in SUBSET Templates
    /\ req = [r \in Requests |-> None]
    /\ pc = [r \in Requests |-> "idle"]
    /\ ans = [r \in Requests |-> "none"]
    /\ fault = [r \in Requests |-> FALSE]

(* main's handler: which branch serves a request (CLOUD_PROVIDER=aws). *)
Route(q) ==
    CASE q.path = "health"                          -> "health"
      [] q.method = "PATCH" /\ q.path = "upload"    -> "upload"
      [] q.path = "token" /\ q.method = "POST"      -> "notFound"
      [] ~q.auth                                    -> "unauthorized"
      [] q.path = "token"                           -> "token"
      [] q.path = "login"                           -> "login"
      [] OTHER                                      -> "proxy"

(* Request r ends with answer a; an AWS error sets its fault flag. *)
Finish(r, a, f) ==
    /\ pc' = [pc EXCEPT ![r] = "done"]
    /\ ans' = [ans EXCEPT ![r] = a]
    /\ fault' = [fault EXCEPT ![r] = f]

Goto(r, l) == pc' = [pc EXCEPT ![r] = l] /\ UNCHANGED <<ans, fault>>

-----------------------------------------------------------------------------
(* main: CheckRequired.  On AWS it calls InitAWSConfig, whose sync.Once  *)
(* builds the session (region from the environment or EC2 metadata,      *)
(* static credentials if given), takes the account ID from the            *)
(* environment or STS and settles the region and registry host; an error *)
(* is kept in awsConfigErr.  Any error, or a missing variable, is          *)
(* log.Fatal.  Afterwards every GetAWSSession gets the cached session and  *)
(* a nil error.                                                            *)
StartupConfig ==
    /\ phase = "start"
    /\ \E ok \in BOOLEAN : phase' = IF ok THEN "store" ELSE "fatal"
    /\ UNCHANGED <<repos, req, pc, ans, fault>>

(* NewStore: the DB client and, on AWS, GetAWSRegistryHost for the proxy's *)
(* target (log.Fatal on error); then main listens.                        *)
StartupStore ==
    /\ phase = "store"
    /\ \E ok \in BOOLEAN : phase' = IF ok THEN "serving" ELSE "fatal"
    /\ UNCHANGED <<repos, req, pc, ans, fault>>

(* A request arrives and main's handler routes it.  /v2/token goes to     *)
(* store.GetToken, which is not in this tree and is taken to be the AWS    *)
(* token endpoint HandleAWSECRToken (its only possible caller).  A scope  *)
(* repository:<base>/<id>:... with a template ID first ensures the       *)
(* repository.  Every other branch answers without touching the         *)
(* repositories.                                                          *)
Receive(r, q) ==
    /\ phase = "serving"
    /\ pc[r] = "idle"
    /\ req' = [req EXCEPT ![r] = q]
    /\ IF Route(q) # "token" THEN Finish(r, Route(q), FALSE)
       ELSE IF q.scope \in Templates THEN Goto(r, "describe")
       ELSE Goto(r, "authToken")
    /\ UNCHANGED <<phase, repos>>

(* EnsureECRRepositoryExists: DescribeRepositories.  The repository       *)
(* exists: done; RepositoryNotFoundException: create it; any other error: *)
(* the handler answers 500.                                               *)
Describe(r) ==
    LET t == req[r].scope IN
    /\ pc[r] = "describe"
    /\ \/ t \in repos /\ Goto(r, "authToken")
       \/ t \notin repos /\ Goto(r, "create")
       \/ Finish(r, "ensureFailed", TRUE)
    /\ UNCHANGED <<phase, repos, req>>

(* CreateRepository.  If the repository appeared since the describe,      *)
(* ECR answers RepositoryAlreadyExistsException, which the code returns   *)
(* as an error like any other: the handler answers 500.                   *)
CreateRepo(r) ==
    LET t == req[r].scope IN
    /\ pc[r] = "create"
    /\ \/ /\ t \notin repos
          /\ repos' = repos \cup {t}
          /\ Goto(r, "authToken")
       \/ /\ t \in repos
          /\ Finish(r, "ensureFailed", FALSE)
          /\ UNCHANGED repos
       \/ /\ Finish(r, "ensureFailed", TRUE)
          /\ UNCHANGED repos
    /\ UNCHANGED <<phase, req>>

(* GetAWSECRAuthToken and the response: the cached session (given a      *)
(* region from GetAWSRegion when it has none), GetAuthorizationToken, the *)
(* check for authorization data, the token test request (logged only),    *)
(* the base64 and "user:password" checks, and the JSON response.  An      *)
(* error in any call answers 500.                                          *)
AuthToken(r) ==
    /\ pc[r] = "authToken"
    /\ \/ Finish(r, "token", FALSE)
       \/ Finish(r, "tokenFailed", TRUE)
    /\ UNCHANGED <<phase, repos, req>>

RequestStep(r) ==
    \/ \E q \in Inputs : Receive(r, q)
    \/ Describe(r) \/ CreateRepo(r) \/ AuthToken(r)

Next == StartupConfig \/ StartupStore \/ \E r \in Requests : RequestStep(r)

Spec == Init /\ [][Next]_vars

-----------------------------------------------------------------------------
(* EnsureECRRepositoryExists "checks if the ECR repository exists and     *)
(* creates it if it doesn't": it fails a token request only when an AWS   *)
(* call failed, never because the repository is there.                    *)
EnsureFailsOnlyOnAWSError ==
    \A r \in Requests : ans[r] = "ensureFailed" => fault[r]

=============================================================================
