--------------------------- MODULE TelemetryReads ---------------------------
(***************************************************************************)
(* What the dashboard is told of the recorded requests: the list, with its *)
(* filters and its search (queryRequests and the route over it), the usage *)
(* per API key, the key's detail page, which adds the same columns up by   *)
(* itself (ui lib/keys-metrics.ts), the keys' last use, the export, and    *)
(* the metrics of a window, of src/observability/storage.ts and the routes *)
(* of src/http/routes/telemetry.                                           *)
(*                                                                         *)
(* How rows are written, and may fail to be, is RequestStore; here a row   *)
(* appears, gets its tokens and its end.  Reads change nothing: they are   *)
(* operators.  Times are the clock's ticks.                                *)
(***************************************************************************)
EXTENDS Paging, FiniteSets

CONSTANTS
    Key,            \* ids of API keys
    Kind,           \* kinds of requests: path, whether they use tokens, their words
    Tokens,         \* tokens a request may use
    End,            \* ends of a request: status and duration
    Word,           \* words of bodies, and search terms
    Prefixed,       \* <<term, word>>: the word begins with the term
    Inside,         \* <<term, word>>: the term occurs in the word
    UsageWindow,    \* DEFAULT_USAGE_WINDOW_MS
    SampleCap,      \* SAMPLE_CAP
    ListLimit,      \* the limit of the key's page
    PageMax,        \* the most a list answers, 1000
    ExportMax,      \* MAX_ROWS of the export, 100000
    Asked,          \* limits a client may ask for
    MaxRows, MaxTime \* bounds: requests, ticks

(* What a model's values of the constants satisfy.                          *)
ConstantsOK ==
    /\ {UsageWindow, SampleCap, ListLimit, PageMax, ExportMax, MaxRows, MaxTime} \subseteq Nat
    /\ ListLimit <= PageMax /\ PageMax <= ExportMax /\ Asked \subseteq Int \ {0}
    /\ Key \subseteq Nat \ {0} /\ Tokens \subseteq Nat
    /\ Prefixed \subseteq Inside /\ \A w \in Word : <<w, w>> \in Prefixed

VARIABLES
    now,
    rows            \* the table `requests`, by id

vars == <<now, rows>>

NoKey == 0
Null == -1

Init == now = 0 /\ rows = <<>>

----------------------------------------------------------------------------
(* The table.                                                               *)

Tick == now < MaxTime /\ now' = now + 1 /\ UNCHANGED rows

Insert(kind, key) ==
    /\ Len(rows) < MaxRows
    /\ rows' = Append(rows, [kind |-> kind, key |-> key, at |-> now, input |-> Null,
                             output |-> Null, status |-> Null, duration |-> Null])
    /\ UNCHANGED now

(* Both token columns come in one update.                                   *)
Uses(i, in, out) ==
    /\ rows[i].kind.infers /\ rows[i].input = Null
    /\ rows' = [rows EXCEPT ![i].input = in, ![i].output = out]
    /\ UNCHANGED now

Ends(i, end) ==
    /\ rows[i].status = Null
    /\ rows' = [rows EXCEPT ![i].status = end.status, ![i].duration = end.duration]
    /\ UNCHANGED now

Next ==
    \/ Tick
    \/ \E kind \in Kind, key \in Key \cup {NoKey} : Insert(kind, key)
    \/ \E i \in DOMAIN rows :
         \/ \E in \in Tokens, out \in Tokens : Uses(i, in, out)
         \/ \E end \in End : Ends(i, end)

Spec == Init /\ [][Next]_vars

----------------------------------------------------------------------------
(* The list: buildRequestWhere over what the route makes of its parameters. *)

NoFilters == [path |-> "any", apiKeyId |-> Null, status |-> {}, from |-> 0,
              search |-> "none", indexed |-> FALSE]

(* withRequestSearch: MATCH where there is an index and it does not throw,  *)
(* LIKE otherwise.                                                          *)
Found(r, f) ==
    f.search # "none" =>
        \E w \in r.kind.words : <<f.search, w>> \in (IF f.indexed THEN Prefixed ELSE Inside)

Matches(r, f) ==
    /\ f.path \in {"any", r.kind.path}
    /\ f.apiKeyId \in {Null, r.key}
    /\ f.status = {} \/ r.status \in f.status
    /\ r.at >= f.from
    /\ Found(r, f)
Where(f) == {i \in DOMAIN rows : Matches(rows[i], f)}

CountRequests(f) == Cardinality(Where(f))

ById(f) == SelectSeq([i \in DOMAIN rows |-> i], LAMBDA i : Matches(rows[i], f))

\* Mutant of QueryRequests: the rows of the limit are the oldest.
QueryRequestsOldest(f, page) == Paged(ById(f), [page EXCEPT !.order = "asc"])

QueryRequests(f, page) == Paged(ById(f), page)
TelemetryRequests(f, asked) ==
    LET page == Page(asked, ListLimit, PageMax)
    IN  [total |-> CountRequests(f), limit |-> page.limit, items |-> QueryRequests(f, page)]

\* Mutant of Exported: the export has no status filter either.
ExportedAny(f) == [f EXCEPT !.apiKeyId = Null, !.status = {}]

(* The filters _handleTelemetryExport makes of the parameters that the list *)
(* takes: there is none of the API key.                                     *)
Exported(f) == [f EXCEPT !.apiKeyId = Null]
Export(f, asked) == QueryRequests(Exported(f), Page(asked, ExportMax, ExportMax))

----------------------------------------------------------------------------
(* Sums.                                                                    *)

Total(is, column) == FoldSet(LAMBDA i, sum : Max({0, rows[i][column]}) + sum, 0, is)

(* getUsageByApiKey.                                                        *)
ResolveUsageTimeFrom == now - UsageWindow
GetUsageByApiKey(k) ==
    LET is == {i \in DOMAIN rows : /\ rows[i].key = k /\ rows[i].input # Null
                                   /\ rows[i].at >= ResolveUsageTimeFrom}
    IN  [requests |-> Cardinality(is), in |-> Total(is, "input"), out |-> Total(is, "output")]

(* listApiKeys' last_used_at, of all rows.                                  *)
LastUsedAt(k) == Max({Null} \cup {rows[i].at : i \in {j \in DOMAIN rows : rows[j].key = k}})

(* deriveKeyMetrics over what the key's page asks for.                      *)
DeriveKeyMetrics(k) ==
    LET is == Range(TelemetryRequests([NoFilters EXCEPT !.apiKeyId = k],
                        [limit |-> ListLimit, offset |-> 0, order |-> "desc"]).items)
    IN  [requests |-> Cardinality(is), in |-> Total(is, "input"), out |-> Total(is, "output"),
         failed |-> Cardinality({i \in is : rows[i].status >= 400}),
         last |-> Max({Null} \cup {rows[i].at : i \in is})]

(* getMetrics of a window.                                                  *)
Since(window) == {i \in DOMAIN rows : rows[i].at >= now - window}
Durations(window) ==
    LET timed == SelectSeq(rows, LAMBDA r : r.duration # Null /\ r.at >= now - window)
        sample == Paged(timed, [limit |-> SampleCap, offset |-> 0, order |-> "desc"])
    IN  SortSeq([n \in DOMAIN sample |-> sample[n].duration], LAMBDA a, b : a < b)
Percentile(ds, pct) == IF ds = <<>> THEN 0 ELSE ds[1 + (Len(ds) * pct) \div 100]
GetMetrics(window) ==
    LET is == Since(window)
        ds == Durations(window)
        statuses == {rows[i].status : i \in is}
    IN  [requests |-> Cardinality(is),
         byStatus |-> [s \in statuses |-> Cardinality({i \in is : rows[i].status = s})],
         in |-> Total(is, "input"), out |-> Total(is, "output"),
         errors |-> Cardinality({i \in is : rows[i].status >= 500}),
         p50 |-> Percentile(ds, 50), p95 |-> Percentile(ds, 95), p99 |-> Percentile(ds, 99)]

----------------------------------------------------------------------------
TypeOK ==
    /\ now \in 0..MaxTime /\ Len(rows) <= MaxRows
    /\ \A i \in DOMAIN rows : /\ rows[i].kind \in Kind /\ rows[i].key \in Key \cup {NoKey}
                              /\ rows[i].at \in 0..now

(* The key's page and the usage route add up the same tokens while the page *)
(* reaches back as far as the window, though one counts running and         *)
(* administrative requests and the other does not; beyond its limit the     *)
(* page counts no more than there is, and its last activity is still the    *)
(* key's last use.                                                          *)
KeyPagesAgree ==
    \A k \in Key :
        LET usage == GetUsageByApiKey(k)
            page == DeriveKeyMetrics(k)
            all == Where([NoFilters EXCEPT !.apiKeyId = k])
        IN  /\ page.last = LastUsedAt(k)
            /\ page.requests < ListLimit => usage.in <= page.in /\ usage.out <= page.out
            /\ (Cardinality(all) <= ListLimit
                  /\ \A i \in all : rows[i].at >= ResolveUsageTimeFrom) =>
                 /\ usage.in = page.in /\ usage.out = page.out
                 /\ usage.requests <= page.requests

(* The metrics of a window account for every request of it once, do not     *)
(* fall as the window widens, and contain what the keys' usage reports.     *)
MetricsAccount ==
    LET wider == GetMetrics(MaxTime) IN
    \A w \in 0..MaxTime :
        LET m == GetMetrics(w)
        IN  /\ m.requests = FoldSet(LAMBDA s, sum : m.byStatus[s] + sum, 0, DOMAIN m.byStatus)
            /\ m.in <= wider.in /\ m.requests <= wider.requests
            /\ m.p50 <= m.p95 /\ m.p95 <= m.p99
            /\ FoldSet(LAMBDA k, sum : GetUsageByApiKey(k).in + sum, 0, Key) <= wider.in

(* Whatever limit is asked for, and in either order, a filtered list is     *)
(* paged through completely, and the export of the same parameters gives,   *)
(* up to its most, all that the list without its key filter counts: of a    *)
(* list of one key the first of its rows, in their order, among those of    *)
(* the other keys.                                                          *)
ListComplete ==
    \A order \in {"asc", "desc"}, limit \in Asked, k \in Key \cup {Null},
       by \in {[NoFilters EXCEPT !.status = s] : s \in {{}, {200}}}
              \cup {[NoFilters EXCEPT !.search = w, !.indexed = i] : w \in Word, i \in BOOLEAN} :
        LET f == [by EXCEPT !.apiKeyId = k]
            list(offset) == TelemetryRequests(f, [limit |-> limit, offset |-> offset,
                                                  order |-> order])
            listed == Pages(list)
            exported == Export(f, [limit |-> Absent, offset |-> 0, order |-> order])
            ofKey == SelectSeq(exported, LAMBDA i : k \in {Null, rows[i].key})
        IN  /\ Len(listed) = CountRequests(f)
            /\ Len(exported) = Min({ExportMax, CountRequests(by)})
            /\ IsPrefix(ofKey, listed)

(* However requests run, end and age, the reads of the dashboard agree.     *)
ReadsAgree == KeyPagesAgree /\ MetricsAccount /\ ListComplete
=============================================================================
