------------------------ MODULE TemplateCacheContract ------------------------
(***************************************************************************)
(* What the template cache promises its callers (spec sections 4.5 and 5), *)
(* with no clock, no ttlcache items and no construction of Templates that  *)
(* never enter the cache:                                                  *)
(*                                                                         *)
(*  - a key maps to at most one Template, the current one, until it        *)
(*    expires;                                                             *)
(*  - getOrCreate returns the current Template, or inserts a new one when  *)
(*    there is none; insert-if-absent is atomic, so a current Template is  *)
(*    never replaced;                                                      *)
(*  - each Template that enters the cache has its Fetch started once, as   *)
(*    it enters;                                                           *)
(*  - the eviction hook closes only Templates that are no longer current,  *)
(*    each once.                                                           *)
(***************************************************************************)
EXTENDS FiniteSets

CONSTANTS Sandboxes, Keys, Instances, None

VARIABLES
    current,    \* current[k]: the Template served for k, or None
    made,       \* the Templates that ever entered the cache
    fetched,    \* the Templates whose Fetch was started
    closed,     \* the Templates closed by the eviction hook
    served      \* served[s]: the Template getOrCreate returned to s, or None

cvars == <<current, made, fetched, closed, served>>

Init ==
    /\ current = [k \in Keys |-> None]
    /\ made = {} /\ fetched = {} /\ closed = {}
    /\ served = [s \in Sandboxes |-> None]

(* Templates that were current once, are no longer, and are not closed. *)
Retired == made \ ({current[k] : k \in Keys} \cup closed)

(* A new Template i enters under k, which has no current Template; its    *)
(* Fetch starts.  Entering closes nothing.                                 *)
Enter(k, i) ==
    /\ current[k] = None
    /\ i \in Instances \ made
    /\ current' = [current EXCEPT ![k] = i]
    /\ made' = made \cup {i}
    /\ fetched' = fetched \cup {i}
    /\ UNCHANGED closed

(* getOrCreate: the current Template, or a new one. *)
GetOrCreate(s, k) ==
    /\ served[s] = None
    /\ \/ /\ current[k] # None
          /\ served' = [served EXCEPT ![s] = current[k]]
          /\ UNCHANGED <<current, made, fetched, closed>>
       \/ \E i \in Instances \ made :
             /\ Enter(k, i)
             /\ served' = [served EXCEPT ![s] = i]

(* addSnapshot, when no Template is current for its key. *)
Publish(k) == \E i \in Instances \ made : Enter(k, i) /\ UNCHANGED served

(* TTL expiry: one or more keys lose their current Template at once. *)
Expire ==
    /\ current' # current
    /\ \A k \in Keys : current'[k] \in {current[k], None}
    /\ UNCHANGED <<made, fetched, closed, served>>

(* The eviction hook closes a Template that is no longer current. *)
Close ==
    /\ \E i \in Retired : closed' = closed \cup {i}
    /\ UNCHANGED <<current, made, fetched, served>>

(* The caller is done with its Template. *)
Release(s) ==
    /\ served[s] # None
    /\ served' = [served EXCEPT ![s] = None]
    /\ UNCHANGED <<current, made, fetched, closed>>

Next ==
    \/ \E s \in Sandboxes : Release(s) \/ \E k \in Keys : GetOrCreate(s, k)
    \/ \E k \in Keys : Publish(k)
    \/ Expire
    \/ Close

Spec == Init /\ [][Next]_cvars

=============================================================================
