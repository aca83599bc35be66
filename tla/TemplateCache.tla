---------------------------- MODULE TemplateCache ----------------------------
(***************************************************************************)
(* The orchestrator's template cache (packages/orchestrator/internal/      *)
(* sandbox/template/cache.go): a ttlcache of Template values keyed by the  *)
(* template's cache key, shared by the goroutines that serve sandbox       *)
(* requests.                                                               *)
(*                                                                         *)
(*  - GetTemplate, storage mode: construct a storage Template, GetOrSet    *)
(*    it, and start `go Fetch` only if it was not found.                   *)
(*  - GetTemplate, mock mode (MOCK_SANDBOX=true): Get, and on a miss       *)
(*    construct a mock Template and Set it: two separate cache calls.      *)
(*  - AddSnapshot: add the non-NoDiff diffs to the DiffStore, then         *)
(*    GetOrSet a Template that already carries its headers.                *)
(*  - the ttlcache janitor (`go cache.Start()`) evicts expired items; the  *)
(*    OnEviction hook calls Template.Close().                              *)
(*                                                                         *)
(* Time is a tick counter; an item expires when now > its expiry, and a    *)
(* hit (Get or a found GetOrSet) refreshes the expiry to now + TTL, the    *)
(* ttlcache default.  A sandbox holds the Template it obtained for at most *)
(* MaxLifetime ticks: the code relies on TTL exceeding that lifetime       *)
(* (comment on templateExpiration) instead of reference counting.          *)
(***************************************************************************)
EXTENDS Naturals, FiniteSets

CONSTANTS
    Sandboxes,      \* goroutines serving sandbox requests
    Keys,           \* template cache keys, Files().CacheKey()
    SnapshotKeys,   \* keys of snapshot identities (isSnapshot = true)
    Modes,          \* the values os.Getenv("MOCK_SANDBOX") == "true" may take
    TTL,            \* templateExpiration, in ticks
    MaxLifetime,    \* longest time a sandbox keeps using its Template
    MaxTime,        \* bound on the clock
    MaxInstances,   \* bound on the number of Template values constructed
    None            \* model value: no Template

ASSUME SnapshotKeys \subseteq Keys
ASSUME Modes \subseteq BOOLEAN
ASSUME {TTL, MaxLifetime, MaxTime, MaxInstances} \subseteq Nat

Instances == 1..MaxInstances
ArtifactKinds == {"Memfile", "Rootfs"}
Diffs == {"NoDiff", "LocalDiff"}      \* build.Diff: NoDiff or a real diff

VARIABLES
    entry,      \* entry[k]: the Template the ttlcache holds under k, or None
    expiresAt,  \* expiresAt[k]: expiry time of the item under k
    now,        \* the clock
    nextInst,   \* how many Template values have been constructed
    tmpl,       \* tmpl[i]: key, variant and headers of Template i
    fetch,      \* fetch[i]: whether `go Fetch` was started for Template i
                \* ("running"); its end and outcome are never read here
    closes,     \* closes[i]: how many times Close() ran on Template i
    diffStore,  \* the <<key, kind>> pairs added to the DiffStore
    pc,         \* pc[s]: where goroutine s is
    want,       \* want[s]: the key s is working on
    held,       \* held[s]: the Template sandbox s runs from, or None
    startedAt,  \* startedAt[s]: when sandbox s obtained held[s]
    carry,      \* carry[s]: artifact kinds with a real diff in s's AddSnapshot
    cached,     \* history: the Templates ever inserted into the cache
    mock        \* os.Getenv("MOCK_SANDBOX") == "true", fixed for the process

vars == <<entry, expiresAt, now, nextInst, tmpl, fetch, closes, diffStore,
          pc, want, held, startedAt, carry, cached, mock>>

NoTemplate == [key |-> None, variant |-> "none", headers |-> FALSE,
               carries |-> {}]

(* The domain of every variable (the type of the Go state it stands for). *)
TypeOK ==
    /\ entry \in [Keys -> Instances \cup {None}]
    /\ expiresAt \in [Keys -> 0..(MaxTime + TTL)]
    /\ now \in 0..MaxTime
    /\ nextInst \in 0..MaxInstances
    /\ tmpl \in [Instances -> [key : Keys \cup {None},
                               variant : {"none", "storage", "mock"},
                               headers : BOOLEAN,
                               carries : SUBSET ArtifactKinds]]
    /\ fetch \in [Instances -> {"none", "running"}]
    /\ closes \in [Instances -> Nat]
    /\ diffStore \subseteq Keys \X ArtifactKinds
    /\ pc \in [Sandboxes -> {"idle", "mockSet", "running", "snapInsert"}]
    /\ want \in [Sandboxes -> Keys \cup {None}]
    /\ held \in [Sandboxes -> Instances \cup {None}]
    /\ startedAt \in [Sandboxes -> 0..MaxTime]
    /\ carry \in [Sandboxes -> SUBSET ArtifactKinds]
    /\ cached \subseteq Instances
    /\ mock \in BOOLEAN

Init ==
    /\ entry = [k \in Keys |-> None]
    /\ expiresAt = [k \in Keys |-> 0]
    /\ now = 0
    /\ nextInst = 0
    /\ tmpl = [i \in Instances |-> NoTemplate]
    /\ fetch = [i \in Instances |-> "none"]
    /\ closes = [i \in Instances |-> 0]
    /\ diffStore = {}
    /\ pc = [s \in Sandboxes |-> "idle"]
    /\ want = [s \in Sandboxes |-> None]
    /\ held = [s \in Sandboxes |-> None]
    /\ startedAt = [s \in Sandboxes |-> 0]
    /\ carry = [s \in Sandboxes |-> {}]
    /\ cached = {}
    /\ mock \in Modes

-----------------------------------------------------------------------------
(* ttlcache: an item is visible to Get and GetOrSet until it expires.      *)
Live(k) == entry[k] # None /\ now <= expiresAt[k]

(* A hit refreshes the item's expiry (touch on hit, the ttlcache default). *)
Touch(k) == expiresAt' = [expiresAt EXCEPT ![k] = now + TTL]

(* ttlcache's set puts Template i under k.  An item still stored under k, *)
(* expired or not, is updated in place: no eviction, so OnEviction does    *)
(* not run and the Template it held is not closed.                         *)
Insert(k, i) ==
    /\ entry' = [entry EXCEPT ![k] = i]
    /\ Touch(k)
    /\ UNCHANGED closes
    /\ cached' = cached \cup {i}

(* Construct Template number i; the constructor does not touch the cache. *)
Construct(i, k, variant, headers, carries) ==
    tmpl' = [tmpl EXCEPT ![i] = [key |-> k, variant |-> variant,
                                 headers |-> headers, carries |-> carries]]

(* newMockTemplate: a Template with no storage behind it (its Close does   *)
(* nothing), constructed for key k.                                        *)
NewMockTemplate(i, k) == Construct(i, k, "mock", FALSE, {})

(* Sandbox s starts running from Template i. *)
StartOn(s, i) ==
    /\ pc' = [pc EXCEPT ![s] = "running"]
    /\ held' = [held EXCEPT ![s] = i]
    /\ startedAt' = [startedAt EXCEPT ![s] = now]
    /\ want' = [want EXCEPT ![s] = None]

-----------------------------------------------------------------------------
(* Mutants of GetTemplate.  AlwaysSet: Set in place of GetOrSet, so a   *)
(* live item is overwritten (no eviction) and every caller starts Fetch.  *)
(* NoTouch: the cache built WithDisableTouchOnHit, a hit keeps the old    *)
(* expiry.                                                                *)
GetTemplateAlwaysSet(s, k) ==
    LET i == nextInst + 1 IN
    /\ ~mock
    /\ pc[s] = "idle"
    /\ nextInst < MaxInstances
    /\ nextInst' = i
    /\ Construct(i, k, "storage", FALSE, {})
    /\ Insert(k, i)
    /\ fetch' = [fetch EXCEPT ![i] = "running"]
    /\ StartOn(s, i)
    /\ UNCHANGED <<now, diffStore, carry>>

GetTemplateNoTouch(s, k) ==
    LET i == nextInst + 1 IN
    /\ ~mock
    /\ pc[s] = "idle"
    /\ nextInst < MaxInstances
    /\ nextInst' = i
    /\ Construct(i, k, "storage", FALSE, {})
    /\ \/ /\ Live(k)
          /\ StartOn(s, entry[k])
          /\ UNCHANGED <<entry, expiresAt, closes, cached, fetch>>
       \/ /\ ~Live(k)
          /\ Insert(k, i)
          /\ fetch' = [fetch EXCEPT ![i] = "running"]
          /\ StartOn(s, i)
    /\ UNCHANGED <<now, diffStore, carry>>

(* GetTemplate, storage mode: newTemplateFromStorage constructs a Template *)
(* (when it fails, the error is returned and nothing changes); GetOrSet   *)
(* either returns (and touches) the live item or inserts the new one, and *)
(* only then is `go Fetch` started.                                       *)
GetTemplate(s, k) ==
    LET i == nextInst + 1 IN
    /\ ~mock
    /\ pc[s] = "idle"
    /\ nextInst < MaxInstances
    /\ nextInst' = i
    /\ Construct(i, k, "storage", FALSE, {})
    /\ \/ /\ Live(k)
          /\ Touch(k)
          /\ StartOn(s, entry[k])
          /\ UNCHANGED <<entry, closes, cached, fetch>>
       \/ /\ ~Live(k)
          /\ Insert(k, i)
          /\ fetch' = [fetch EXCEPT ![i] = "running"]
          /\ StartOn(s, i)
    /\ UNCHANGED <<now, diffStore, carry>>

(* GetTemplate, mock mode, first call: c.cache.Get(cacheKey).  A hit       *)
(* returns the cached Template; a miss goes on to construct a mock one.    *)
MockGet(s, k) ==
    /\ mock
    /\ pc[s] = "idle"
    /\ \/ /\ Live(k)
          /\ Touch(k)
          /\ StartOn(s, entry[k])
       \/ /\ ~Live(k)
          /\ pc' = [pc EXCEPT ![s] = "mockSet"]
          /\ want' = [want EXCEPT ![s] = k]
          /\ UNCHANGED <<expiresAt, held, startedAt>>
    /\ UNCHANGED <<entry, now, nextInst, tmpl, fetch, closes, diffStore,
                   carry, cached>>

(* GetTemplate, mock mode, second call: newMockTemplate, then              *)
(* c.cache.Set(cacheKey, mockTemplate), which overwrites any item stored  *)
(* under the key in place and returns the item it set.                     *)
MockSet(s) ==
    LET k == want[s]
        i == nextInst + 1
    IN
    /\ pc[s] = "mockSet"
    /\ nextInst < MaxInstances
    /\ nextInst' = i
    /\ NewMockTemplate(i, k)
    /\ Insert(k, i)
    /\ StartOn(s, i)
    /\ UNCHANGED <<now, fetch, diffStore, carry>>

(* Mutant of AddSnapshotDiffs: the rootfs switch tests memfileDiff, so a *)
(* real rootfs diff next to a NoDiff memfile is never added.              *)
AddSnapshotDiffsWrongSwitch(s, k, memfileDiff, rootfsDiff) ==
    LET real == {a \in ArtifactKinds : memfileDiff # "NoDiff"}
    IN
    /\ ~mock
    /\ pc[s] = "idle"
    /\ k \in SnapshotKeys
    /\ diffStore' = diffStore \cup {<<k, a>> : a \in real}
    /\ pc' = [pc EXCEPT ![s] = "snapInsert"]
    /\ want' = [want EXCEPT ![s] = k]
    /\ carry' = [carry EXCEPT ![s] = {a \in ArtifactKinds :
                     (IF a = "Memfile" THEN memfileDiff ELSE rootfsDiff)
                        # "NoDiff"}]
    /\ UNCHANGED <<entry, expiresAt, now, nextInst, tmpl, fetch, closes,
                   held, startedAt, cached>>

(* AddSnapshot, first part: each diff that is not *build.NoDiff is added   *)
(* to the DiffStore under (buildId, kind).  In mock mode AddSnapshot       *)
(* returns nil at once and changes nothing.                                *)
AddSnapshotDiffs(s, k, memfileDiff, rootfsDiff) ==
    LET real == {a \in ArtifactKinds :
                   (IF a = "Memfile" THEN memfileDiff ELSE rootfsDiff)
                      # "NoDiff"}
    IN
    /\ ~mock
    /\ pc[s] = "idle"
    /\ k \in SnapshotKeys
    /\ diffStore' = diffStore \cup {<<k, a>> : a \in real}
    /\ pc' = [pc EXCEPT ![s] = "snapInsert"]
    /\ want' = [want EXCEPT ![s] = k]
    /\ carry' = [carry EXCEPT ![s] = real]
    /\ UNCHANGED <<entry, expiresAt, now, nextInst, tmpl, fetch, closes,
                   held, startedAt, cached>>

(* Mutant of AddSnapshotInsert: Set in place of GetOrSet, the "inserts (or *)
(* replaces)" of the spec, so a live item is overwritten in place.         *)
AddSnapshotInsertReplace(s) ==
    LET k == want[s]
        i == nextInst + 1
    IN
    /\ pc[s] = "snapInsert"
    /\ nextInst < MaxInstances
    /\ nextInst' = i
    /\ Construct(i, k, "storage", TRUE, carry[s])
    /\ Insert(k, i)
    /\ fetch' = [fetch EXCEPT ![i] = "running"]
    /\ pc' = [pc EXCEPT ![s] = "idle"]
    /\ want' = [want EXCEPT ![s] = None]
    /\ carry' = [carry EXCEPT ![s] = {}]
    /\ UNCHANGED <<now, diffStore, held, startedAt>>

(* AddSnapshot, second part: construct a Template with the headers in hand *)
(* and GetOrSet it; `go Fetch` only if it was not found.                   *)
AddSnapshotInsert(s) ==
    LET k == want[s]
        i == nextInst + 1
    IN
    /\ pc[s] = "snapInsert"
    /\ nextInst < MaxInstances
    /\ nextInst' = i
    /\ Construct(i, k, "storage", TRUE, carry[s])
    /\ \/ /\ Live(k)
          /\ Touch(k)
          /\ UNCHANGED <<entry, closes, cached, fetch>>
       \/ /\ ~Live(k)
          /\ Insert(k, i)
          /\ fetch' = [fetch EXCEPT ![i] = "running"]
    /\ pc' = [pc EXCEPT ![s] = "idle"]
    /\ want' = [want EXCEPT ![s] = None]
    /\ carry' = [carry EXCEPT ![s] = {}]
    /\ UNCHANGED <<now, diffStore, held, startedAt>>

(* AddSnapshot, second part, when newTemplateFromStorage fails: the error  *)
(* is returned and the diffs already added stay in the DiffStore.          *)
AddSnapshotInsertFails(s) ==
    /\ pc[s] = "snapInsert"
    /\ pc' = [pc EXCEPT ![s] = "idle"]
    /\ want' = [want EXCEPT ![s] = None]
    /\ carry' = [carry EXCEPT ![s] = {}]
    /\ UNCHANGED <<entry, expiresAt, now, nextInst, tmpl, fetch, closes,
                   diffStore, held, startedAt, cached>>

(* The ttlcache janitor deletes an expired item; OnEviction calls Close(). *)
Evict(k) ==
    /\ entry[k] # None
    /\ now > expiresAt[k]
    /\ entry' = [entry EXCEPT ![k] = None]
    /\ closes' = [closes EXCEPT ![entry[k]] = @ + 1]
    /\ UNCHANGED <<expiresAt, now, nextInst, tmpl, fetch, diffStore, pc,
                   want, held, startedAt, carry, cached>>

-----------------------------------------------------------------------------
(* Environment: the sandbox stops using its Template, and the clock.      *)
StopSandbox(s) ==
    /\ pc[s] = "running"
    /\ pc' = [pc EXCEPT ![s] = "idle"]
    /\ held' = [held EXCEPT ![s] = None]
    /\ startedAt' = [startedAt EXCEPT ![s] = 0]
    /\ UNCHANGED <<entry, expiresAt, now, nextInst, tmpl, fetch, closes,
                   diffStore, want, carry, cached>>

(* Time passes, but no sandbox outlives MaxLifetime. *)
Tick ==
    /\ now < MaxTime
    /\ \A s \in Sandboxes :
          pc[s] = "running" => now + 1 <= startedAt[s] + MaxLifetime
    /\ now' = now + 1
    /\ UNCHANGED <<entry, expiresAt, nextInst, tmpl, fetch, closes,
                   diffStore, pc, want, held, startedAt, carry, cached>>

(* The environment variable is read on every call, but nothing in the     *)
(* process changes it.                                                     *)
Next ==
    /\ UNCHANGED mock
    /\ \/ \E s \in Sandboxes, k \in Keys :
             \/ GetTemplate(s, k)
             \/ MockGet(s, k)
             \/ \E md, rd \in Diffs : AddSnapshotDiffs(s, k, md, rd)
       \/ \E s \in Sandboxes :
             \/ MockSet(s) \/ AddSnapshotInsert(s) \/ AddSnapshotInsertFails(s)
             \/ StopSandbox(s)
       \/ \E k \in Keys : Evict(k)
       \/ Tick

Spec == Init /\ [][Next]_vars

-----------------------------------------------------------------------------
(* Stampede safety (GetTemplate, GetOrSet and `go Fetch`): two sandboxes   *)
(* running the same key from Templates that are both still open run from   *)
(* the same Template, and the only Templates whose Fetch was started are   *)
(* the ones that went into the cache.                                      *)
StampedeSafety ==
    /\ \A s1, s2 \in Sandboxes :
          ( /\ pc[s1] = "running" /\ pc[s2] = "running"
            /\ tmpl[held[s1]].key = tmpl[held[s2]].key
            /\ closes[held[s1]] = 0 /\ closes[held[s2]] = 0 )
          => held[s1] = held[s2]
    /\ \A i \in Instances : fetch[i] # "none" => i \in cached

(* The same in storage mode, the mode in which GetTemplate uses GetOrSet.  *)
(* (In mock mode the Get and the Set are two calls: see StampedeSafety.)   *)
StorageStampedeSafety == ~mock => StampedeSafety

(* The TTL policy of templateExpiration: no sandbox is still running from  *)
(* a Template that the eviction hook has closed.                           *)
NoReadAfterClose ==
    \A s \in Sandboxes : pc[s] = "running" => closes[held[s]] = 0

(* AddSnapshot adds the diffs before it publishes the Template: a cached   *)
(* Template built from headers in hand finds every diff it carries in the  *)
(* DiffStore.                                                              *)
SnapshotDiffsResolvable ==
    \A k \in Keys :
        entry[k] # None /\ tmpl[entry[k]].headers =>
            \A a \in tmpl[entry[k]].carries : <<k, a>> \in diffStore

(* The cache seen through the contract of spec sections 4.5 and 5: a key  *)
(* is current while its item is live, a sandbox is served the Template it  *)
(* runs from (held[s] is None unless s runs), and a Template is closed    *)
(* once Close has run on it.                                               *)
Contract == INSTANCE TemplateCacheContract WITH
    current <- [k \in Keys |-> IF Live(k) THEN entry[k] ELSE None],
    made <- cached,
    fetched <- {i \in Instances : fetch[i] # "none"},
    closed <- {i \in Instances : closes[i] > 0},
    served <- held

(* In storage mode every step of GetTemplate, AddSnapshot, the janitor and *)
(* the clock is a step of the contract: GetOrSet never replaces a live     *)
(* Template, Fetch starts exactly for the Templates that enter the cache,  *)
(* TTL expiry only removes, and OnEviction closes only Templates no longer *)
(* current.  (Mock mode, with its Get then Set, is outside the contract:  *)
(* a second mock Template has no Fetch and a no-op Close.)  The stuttering *)
(* case is tested first only because it is the cheaper one for TLC.       *)
CacheRefinesContract ==
    /\ ~mock => Contract!Init
    /\ [][mock \/ UNCHANGED Contract!cvars \/ Contract!Next]_Contract!cvars

(* The spec (section 4.5) says AddSnapshot "inserts (or replaces)" the     *)
(* cache entry for the snapshot: when AddSnapshot returns nil (it          *)
(* constructed its Template), the cached Template for its key is one built *)
(* from the headers it was given.                                          *)
SnapshotInstalled ==
    [][\A s \in Sandboxes :
          pc[s] = "snapInsert" /\ pc'[s] = "idle" /\ nextInst' # nextInst =>
              entry'[want[s]] # None /\ tmpl'[entry'[want[s]]].headers]_vars

=============================================================================
