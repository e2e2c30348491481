------------------------------- MODULE Serving -------------------------------
(***************************************************************************)
(* How the gateway serves the dashboard (src/http/server.ts, static.ts and *)
(* compression.ts), from a directory that deployments replace, through     *)
(* caches, to tabs that load a chunk of their build long after they were   *)
(* opened (src/ui/src/routes/metrics.tsx, lib/chunk-load-error.ts and      *)
(* components/layout/metrics-route-error.tsx).                             *)
(*                                                                         *)
(* The cache, a browser's or a proxy's, stands for any number of caches:   *)
(* it keeps what it may keep, and answers as HTTP has it.                  *)
(***************************************************************************)
EXTENDS Naturals, FiniteSets

CONSTANTS
    Tab,            \* tabs of browsers
    Accepts,        \* by tab: the encodings of its Accept-Encoding
    ChunkOf,        \* by build: the charts' chunk, named by its content
    MaxDeploys      \* bound: builds put in place

(* What a model's values of the constants satisfy.                          *)
ConstantsOK ==
    /\ MaxDeploys \in Nat /\ DOMAIN ChunkOf \subseteq Nat \ {0}
    /\ \A t \in Tab : Accepts[t] \subseteq {"br", "gzip"}

VARIABLES
    dist,           \* the build in src/ui/dist; NoBuild while there is none
    deploys,        \* builds put in place so far
    cache,          \* responses kept: url, Vary, the request's encodings, response
    tabs            \* by tab: what it shows, its build, the response it got last

vars == <<dist, deploys, cache, tabs>>

Build == DOMAIN ChunkOf
NoBuild == 0
Page == [kind |-> "page"]               \* "/" and the client's routes
Chunk(b) == [kind |-> "asset", chunk |-> ChunkOf[b]]
Api(kind, key) == [kind |-> kind, key |-> key]
Asked == {Api(k, key) : k \in {"json", "stream", "export", "unknown"}, key \in BOOLEAN}

Response(status, type, body) ==
    [status |-> status, type |-> type, body |-> body, attachment |-> FALSE,
     cached |-> FALSE, encoding |-> "identity", vary |-> FALSE]
Nothing == Response(0, "none", NoBuild)

Init ==
    /\ dist \in Build /\ deploys = 0 /\ cache = {}
    /\ tabs = [t \in Tab |-> [at |-> "closed", build |-> NoBuild, got |-> Nothing]]

----------------------------------------------------------------------------
(* static.ts.                                                               *)

\* Mutant of CacheControlFor: the page may be kept like the assets.
CacheControlForAll(url) == url.kind \in {"page", "asset"}

(* Assets are kept for a year, the page is revalidated, which fetches it.   *)
CacheControlFor(url) == url.kind = "asset"

ServeStatic(url) ==
    IF url.kind = "asset"
    THEN IF dist # NoBuild /\ url.chunk = ChunkOf[dist]
         THEN [Response(200, "text/javascript", url.chunk) EXCEPT !.cached = CacheControlFor(url)]
         ELSE Response(404, "application/json", NoBuild)
    ELSE IF dist # NoBuild
         THEN [Response(200, "text/html", dist) EXCEPT !.cached = CacheControlFor(url)]
         ELSE Response(503, "application/json", NoBuild)

----------------------------------------------------------------------------
(* compression.ts.                                                          *)

Compressible == {"application/json", "text/html", "text/javascript"}
IsNegotiable(res) == ~res.attachment /\ res.type \in Compressible

NegotiateEncoding(accepts) ==
    IF "br" \in accepts THEN "br" ELSE IF "gzip" \in accepts THEN "gzip" ELSE "identity"

(* Compression may throw: what has been read is sent as it was, without a   *)
(* Vary.                                                                    *)
MaybeCompress(accepts, res) ==
    IF ~IsNegotiable(res) THEN {res}
    ELSE LET encoding == NegotiateEncoding(accepts)
         IN  {[res EXCEPT !.encoding = encoding, !.vary = TRUE]}
             \cup (IF encoding = "identity" THEN {} ELSE {res})

----------------------------------------------------------------------------
(* server.ts: a request without a key is refused before all else, and what  *)
(* is owned by the API does not fall back to the page.                      *)
Dispatch(url) ==
    CASE url.kind \in {"page", "asset"} -> ServeStatic(url)
      [] url.kind = "json"    -> Response(200, "application/json", NoBuild)
      [] url.kind = "stream"  -> Response(200, "text/event-stream", NoBuild)
      [] url.kind = "export"  -> [Response(200, "application/json", NoBuild)
                                    EXCEPT !.attachment = TRUE]
      [] url.kind = "unknown" -> Response(404, "application/json", NoBuild)

HandleRequest(accepts, url) ==
    IF url.kind \notin {"page", "asset"} /\ ~url.key
    THEN {Response(401, "application/json", NoBuild)}
    ELSE MaybeCompress(accepts, Dispatch(url))

(* What is kept is used where Vary allows; what is served may be kept.      *)
Kept(accepts, url) ==
    {e \in cache : e.url = url /\ (e.res.vary => e.accepts = accepts)}
Served(t, url) ==
    IF Kept(Accepts[t], url) # {} THEN {e.res : e \in Kept(Accepts[t], url)}
    ELSE HandleRequest(Accepts[t], url)
Keep(t, url, res) ==
    cache' = IF res.cached
             THEN cache \cup {[url |-> url, accepts |-> Accepts[t], res |-> res]} ELSE cache

----------------------------------------------------------------------------
(* build_ui of deploy/auto-deploy.sh: the old build is moved away before    *)
(* the new one comes.                                                       *)
MoveAway ==
    /\ dist # NoBuild /\ deploys < MaxDeploys
    /\ dist' = NoBuild /\ deploys' = deploys + 1 /\ UNCHANGED <<cache, tabs>>

PutInPlace(b) == dist = NoBuild /\ dist' = b /\ UNCHANGED <<deploys, cache, tabs>>

----------------------------------------------------------------------------
(* A tab.                                                                   *)

Shows(t, res) ==
    tabs' = [tabs EXCEPT ![t] =
        IF res.status = 200 THEN [at |-> "page", build |-> res.body, got |-> res]
        ELSE [at |-> "unavailable", build |-> NoBuild, got |-> res]]

Open(t) ==
    /\ tabs[t].at \in {"closed", "unavailable"}
    /\ \E res \in Served(t, Page) : Keep(t, Page, res) /\ Shows(t, res)
    /\ UNCHANGED <<dist, deploys>>

(* The metrics page imports its charts: lazy() keeps a failure for good.    *)
ImportCharts(t) ==
    /\ tabs[t].at = "page"
    /\ \E res \in Served(t, Chunk(tabs[t].build)) :
         /\ Keep(t, Chunk(tabs[t].build), res)
         /\ tabs' = [tabs EXCEPT ![t].at = IF res.status = 200 THEN "charts" ELSE "failed",
                                 ![t].got = res]
    /\ UNCHANGED <<dist, deploys>>

(* MetricsRouteError: a failed import reloads the page.                     *)
Reload(t) ==
    /\ tabs[t].at = "failed"
    /\ \E res \in Served(t, Page) : Keep(t, Page, res) /\ Shows(t, res)
    /\ UNCHANGED <<dist, deploys>>

Ask(t, url) ==
    /\ tabs[t].at = "charts"
    /\ \E res \in Served(t, url) : Keep(t, url, res) /\ tabs' = [tabs EXCEPT ![t].got = res]
    /\ UNCHANGED <<dist, deploys>>

Next ==
    \/ MoveAway \/ \E b \in Build : PutInPlace(b)
    \/ \E t \in Tab : \/ Open(t) \/ ImportCharts(t) \/ Reload(t)
                      \/ \E url \in Asked : Ask(t, url)

(* The browser goes on with what it is loading.                             *)
Fairness == \A t \in Tab : WF_vars(ImportCharts(t)) /\ WF_vars(Reload(t))

Spec == Init /\ [][Next]_vars /\ Fairness

----------------------------------------------------------------------------
TypeOK ==
    /\ dist \in Build \cup {NoBuild} /\ deploys \in 0..MaxDeploys
    /\ \A t \in Tab :
         /\ tabs[t].at \in {"closed", "page", "charts", "failed", "unavailable"}
         /\ tabs[t].build \in Build \cup {NoBuild}

(* Every tab can read what it got, from the gateway or a cache, and no      *)
(* stream, export or refusal has been read into memory to compress it.      *)
Readable ==
    \A t \in Tab :
        /\ tabs[t].got.encoding \in Accepts[t] \cup {"identity"}
        /\ (tabs[t].got.attachment \/ tabs[t].got.type = "text/event-stream"
              \/ tabs[t].got.status = 401) => tabs[t].got.encoding = "identity"
        /\ tabs[t].at = "charts" /\ tabs[t].got.type = "text/javascript" =>
             tabs[t].got.body = ChunkOf[tabs[t].build]

(* Tabs read what they get, and one that asks for a chunk that a deployment *)
(* has taken away does not reload for ever: it comes to its charts, with    *)
(* the build of that time, or to the gateway's word that there is none      *)
(* (metrics-route-error.tsx lines 7-18, static.ts lines 56-63).             *)
DashboardLoads ==
    /\ []Readable
    /\ \A t \in Tab : tabs[t].at = "failed" ~> tabs[t].at \in {"charts", "unavailable"}
=============================================================================
