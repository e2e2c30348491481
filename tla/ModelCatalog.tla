---------------------------- MODULE ModelCatalog ----------------------------
(***************************************************************************)
(* The two caches of what the upstream publishes: the model registry of    *)
(* src/domain/models.ts, refetched by every GET /v1/models and once at     *)
(* boot, and the account profile of src/domain/account.ts, fetched once    *)
(* by the first chat and again by ?refresh=1.                              *)
(*                                                                         *)
(* Upstream's data has a version.  A fetch is answered with the version of *)
(* that moment and its answer lands later; between the two other fetches   *)
(* may be asked, answered and land.                                        *)
(***************************************************************************)
EXTENDS Naturals, Sequences, FiniteSets

CONSTANTS
    Client,         \* concurrent callers
    Boot,           \* the eager refresh of index.ts, one of them
    NoClient,
    MaxVersion,     \* bound: versions upstream publishes
    Catalog         \* the entries of each version, in order; 0 is FALLBACK_MODELS

(* What a model's values of the constants satisfy.                          *)
CatalogConstantsOK ==
    /\ Boot \in Client /\ NoClient \notin Client
    /\ MaxVersion \in Nat \ {0}

VARIABLES
    published,      \* the version upstream has
    registry,       \* `registry`: a version, 0 before the first success
    inflight,       \* the client whose fetch `inflight` of models.ts is
    cachedProfile,  \* `cachedProfile`: a version, 0 for null
    inflightProfile,\* the client whose fetch `inflight` of account.ts is
    askPc,          \* where each client is
    op,             \* what it calls: refreshRegistry, ensureProfile, refreshProfile
    answer,         \* the version its own fetch brought, 0 for none or a failure
    \* history
    since,          \* the version published when it called refreshProfile
    got,            \* the version that call returned, 0 for null
    advertised      \* what /v1/models has listed: ids with an effort or without

catalogVars == <<registry, inflight, advertised>>
profileVars == <<cachedProfile, inflightProfile>>
client == <<askPc, op, answer, since, got>>
modelVars == <<published, catalogVars, profileVars, client>>

Version == 1..MaxVersion
AskPc == {"idle", "asked", "answered", "joined", "landed"}
Op == {"list", "ensure", "refresh"}

IdsOf(v) == {Catalog[v][i].id : i \in DOMAIN Catalog[v]}
LevelsOf(id, v) ==
    UNION {Catalog[v][i].levels : i \in {j \in DOMAIN Catalog[v] : Catalog[v][j].id = id}}
NoLevel == "none"

(* handleModels lists each model, and once more with each effort level.     *)
Listing(v) == UNION {{<<id, l>> : l \in LevelsOf(id, v) \cup {NoLevel}} : id \in IdsOf(v)}

(* What /v1/models may list at all.                                         *)
Listable == UNION {Listing(v) : v \in 0..MaxVersion}

CatalogInit ==
    /\ published = 1
    /\ registry = 0 /\ inflight = Boot
    /\ cachedProfile = 0 /\ inflightProfile = NoClient
    /\ askPc = [k \in Client |-> IF k = Boot THEN "asked" ELSE "idle"]
    /\ op = [k \in Client |-> "list"]
    /\ answer = [k \in Client |-> 0]
    /\ since = [k \in Client |-> 1]
    /\ got = [k \in Client |-> 0]
    /\ advertised = {}

Publish ==
    /\ published < MaxVersion
    /\ published' = published + 1
    /\ UNCHANGED <<catalogVars, profileVars, client>>

----------------------------------------------------------------------------
(* Fetches.                                                                 *)

(* Client k calls o and is at step p of it.                                 *)
Ask(k, o, p) ==
    /\ askPc[k] = "idle"
    /\ askPc' = [askPc EXCEPT ![k] = p]
    /\ op' = [op EXCEPT ![k] = o]
    /\ answer' = [answer EXCEPT ![k] = 0]
    /\ since' = [since EXCEPT ![k] = IF o = "refresh" THEN published ELSE 1]
    /\ got' = [got EXCEPT ![k] = 0]

(* Upstream answers; what has not come back may still fail (Fail below).    *)
UpstreamAnswers(k) ==
    /\ askPc[k] = "asked"
    /\ askPc' = [askPc EXCEPT ![k] = "answered"]
    /\ answer' = [answer EXCEPT ![k] = published]
    /\ UNCHANGED <<published, catalogVars, profileVars, op, since, got>>

(* The clients in S are done.                                               *)
Done(S) ==
    /\ askPc' = [k \in Client |-> IF k \in S THEN "idle" ELSE askPc[k]]
    /\ UNCHANGED <<op, since>>

(* refreshProfile returns version v to client k.                            *)
Give(k, v) == Done({k}) /\ got' = [got EXCEPT ![k] = v]

(* The clients awaiting the promise that client k's fetch will settle.      *)
Sharing(k) == {k} \cup {j \in Client : askPc[j] = "joined" /\ op[j] = op[k]}

\* Mutant of RefreshRegistry: concurrent refreshes do not share one fetch.
RefreshRegistryUnshared(k) ==
    /\ Ask(k, "list", "asked")
    /\ inflight' = k
    /\ UNCHANGED <<published, registry, advertised, profileVars>>

RefreshRegistry(k) ==
    /\ IF inflight = NoClient
       THEN Ask(k, "list", "asked") /\ inflight' = k
       ELSE Ask(k, "list", "joined") /\ UNCHANGED inflight
    /\ UNCHANGED <<published, registry, advertised, profileVars>>

(* handleModels lists what refreshRegistry returns.                         *)
RegistryLands(k) ==
    /\ askPc[k] = "answered" /\ op[k] = "list"
    /\ registry' = answer[k]
    /\ inflight' = NoClient
    /\ advertised' = advertised \cup Listing(answer[k])
    /\ Done(Sharing(k))
    /\ UNCHANGED <<published, profileVars, answer, got>>

RegistryFails(k) ==
    /\ askPc[k] \in {"asked", "answered"} /\ op[k] = "list"
    /\ inflight' = NoClient
    /\ advertised' = advertised \cup Listing(registry)
    /\ Done(Sharing(k))
    /\ answer' = [answer EXCEPT ![k] = 0]
    /\ UNCHANGED <<published, registry, profileVars, got>>

(* With a profile in the cache ensureProfile changes nothing.               *)
EnsureProfile(k) ==
    /\ cachedProfile = 0
    /\ IF inflightProfile = NoClient
       THEN Ask(k, "ensure", "asked") /\ inflightProfile' = k
       ELSE Ask(k, "ensure", "joined") /\ UNCHANGED inflightProfile
    /\ UNCHANGED <<published, catalogVars, cachedProfile>>

RefreshProfile(k) ==
    /\ Ask(k, "refresh", "asked")
    /\ UNCHANGED <<published, catalogVars, profileVars>>

(* fetchProfile caches its answer itself; a refresh that it returns to is   *)
(* resumed only then.                                                       *)
ProfileLands(k) ==
    /\ askPc[k] = "answered" /\ op[k] \in {"ensure", "refresh"}
    /\ cachedProfile' = answer[k]
    /\ IF op[k] = "ensure"
       THEN Done(Sharing(k)) /\ inflightProfile' = NoClient
       ELSE /\ askPc' = [askPc EXCEPT ![k] = "landed"]
            /\ UNCHANGED <<inflightProfile, op, since>>
    /\ UNCHANGED <<published, catalogVars, answer, got>>

\* Mutant of ProfileReturns: the second assignment of refreshProfile is dropped.
ProfileReturnsCache(k) ==
    /\ askPc[k] = "landed"
    /\ Give(k, cachedProfile)
    /\ UNCHANGED <<published, catalogVars, profileVars, answer>>

ProfileReturns(k) ==
    /\ askPc[k] = "landed"
    /\ cachedProfile' = answer[k]
    /\ Give(k, answer[k])
    /\ UNCHANGED <<published, catalogVars, inflightProfile, answer>>

(* fetchProfile returns null; a refresh then returns the cache.             *)
ProfileFails(k) ==
    /\ askPc[k] \in {"asked", "answered"} /\ op[k] \in {"ensure", "refresh"}
    /\ IF op[k] = "ensure"
       THEN Done(Sharing(k)) /\ inflightProfile' = NoClient /\ UNCHANGED got
       ELSE Give(k, cachedProfile) /\ UNCHANGED inflightProfile
    /\ answer' = [answer EXCEPT ![k] = 0]
    /\ UNCHANGED <<published, catalogVars, cachedProfile>>

CatalogNext ==
    \/ Publish
    \/ \E k \in Client :
         \/ UpstreamAnswers(k)
         \/ RefreshRegistry(k) \/ RegistryLands(k) \/ RegistryFails(k)
         \/ EnsureProfile(k) \/ RefreshProfile(k)
         \/ ProfileLands(k) \/ ProfileReturns(k) \/ ProfileFails(k)

CatalogSpec == CatalogInit /\ [][CatalogNext]_modelVars

----------------------------------------------------------------------------
CatalogTypeOK ==
    /\ published \in Version
    /\ registry \in 0..MaxVersion /\ cachedProfile \in 0..MaxVersion
    /\ inflight \in Client \cup {NoClient}
    /\ inflightProfile \in Client \cup {NoClient}
    /\ askPc \in [Client -> AskPc]
    /\ op \in [Client -> Op]
    /\ answer \in [Client -> 0..MaxVersion]
    /\ since \in [Client -> Version]
    /\ got \in [Client -> 0..MaxVersion]
    /\ advertised \subseteq Listable

(* The registry never goes back to an older catalog, whatever the order in  *)
(* which refreshes are asked and answered: there is never more than one.    *)
CatalogNeverGoesBack == [][registry' >= registry]_modelVars

(* ?refresh=1 answers with a profile no older than upstream's when it was   *)
(* asked for, if its fetch succeeds, though an older answer to another      *)
(* request may have landed on the cache in between.                         *)
ForcedRefreshIsFresh ==
    \A k \in Client :
        op[k] = "refresh" /\ answer[k] # 0 /\ got[k] # 0 => got[k] >= since[k]
=============================================================================
