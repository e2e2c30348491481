------------------------------- MODULE SignIn -------------------------------
(***************************************************************************)
(* How the dashboard asks its operator for an API key (src/ui/src/lib/     *)
(* auth.ts, lib/api.ts, main.tsx, AuthGate of routes/__root.tsx and the    *)
(* replay button): a 401 opens the prompt, the submitted key is stored and *)
(* every query fetched again, while answers to the key before it are still *)
(* on their way and keys are revoked.                                      *)
(*                                                                         *)
(* The query cache is a library: a query is fetched once at a time, an     *)
(* invalidation replaces a fetch only where there are data to keep         *)
(* meanwhile, and a fetch goes on when its page is left.                   *)
(***************************************************************************)
EXTENDS Naturals

CONSTANTS
    Query,          \* queries of the pages
    MaxKeys,        \* keys the operator holds: 1..MaxKeys
    MaxSubmits      \* bound: keys submitted

(* What a model's values of the constants satisfy.                          *)
SignConstantsOK == {MaxKeys, MaxSubmits} \subseteq Nat

VARIABLES
    valid,          \* keys the gateway accepts
    stored,         \* localStorage
    active,         \* authStore: the prompt is open
    queries,        \* by query: mounted, data, last outcome, fetch, failures
    replay,         \* the replay's raw fetch, and its error
    submits,        \* keys submitted so far
    waived          \* history: queries whose 401 the operator closed the prompt on

signVars == <<valid, stored, active, queries, replay, submits, waived>>

Key == 1..MaxKeys
NoKey == 0
Outcome == {"none", "ok", "unauthorized", "error"}

(* A fetch: the key it carries, from localStorage as it is sent, and its    *)
(* status once the gateway has seen it.                                     *)
NoFetch == [key |-> NoKey, status |-> 0]
Sent(key) == [key |-> key, status |-> 1]
Pending(f) == f # NoFetch
Statuses == {200, 401, 500}
Fetch == [key : Key \cup {NoKey}, status : {0, 1} \cup Statuses]

SignInit ==
    /\ valid = Key /\ stored = NoKey /\ active = FALSE
    /\ queries = [q \in Query |-> [mounted |-> FALSE, data |-> FALSE, last |-> "none",
                                   fetch |-> NoFetch, failures |-> 0]]
    /\ replay = NoFetch
    /\ submits = 0 /\ waived = {}

(* authStore.requireKey: nothing if it is open already.                     *)
RequireKey == active' = TRUE

----------------------------------------------------------------------------
(* Queries.                                                                 *)

Fetched(s) == [s EXCEPT !.fetch = Sent(stored), !.failures = 0]

(* A page is opened, a window focused or an interval over: what is stale    *)
(* or has failed is fetched, unless it is on its way.                       *)
Show(q) ==
    /\ queries' = [queries EXCEPT ![q] =
         IF Pending(@.fetch) THEN [@ EXCEPT !.mounted = TRUE]
         ELSE [Fetched(@) EXCEPT !.mounted = TRUE]]
    /\ waived' = IF Pending(queries[q].fetch) THEN waived ELSE waived \ {q}
    /\ UNCHANGED <<valid, stored, active, replay, submits>>

Leave(q) ==
    /\ queries[q].mounted
    /\ queries' = [queries EXCEPT ![q].mounted = FALSE]
    /\ UNCHANGED <<valid, stored, active, replay, submits, waived>>

(* getJson and the retry rule: one retry, and none of a 401, which opens    *)
(* the prompt.                                                              *)
GetJsonReturns(q) ==
    LET s == queries[q] IN
    /\ s.fetch.status \in Statuses
    /\ queries' = [queries EXCEPT ![q] =
         CASE s.fetch.status = 200 -> [@ EXCEPT !.data = TRUE, !.last = "ok", !.fetch = NoFetch]
           [] s.fetch.status = 401 -> [@ EXCEPT !.last = "unauthorized", !.fetch = NoFetch]
           [] OTHER -> IF s.failures < 1
                       THEN [@ EXCEPT !.fetch = Sent(stored), !.failures = 1]
                       ELSE [@ EXCEPT !.last = "error", !.fetch = NoFetch]]
    /\ IF s.fetch.status = 401 THEN RequireKey ELSE UNCHANGED active
    /\ UNCHANGED <<valid, stored, replay, submits, waived>>

----------------------------------------------------------------------------
(* The replay, which is no query.  Mutations of the keys page carry the key *)
(* as well, but their 401 is only their own error: they are ApiKeys'.       *)

(* The replay's fetch carries the key and opens the prompt by itself.       *)
StartReplay ==
    /\ ~Pending(replay) /\ replay' = Sent(stored)
    /\ UNCHANGED <<valid, stored, active, queries, submits, waived>>

ReplayReturns ==
    /\ replay.status \in Statuses
    /\ replay' = NoFetch
    /\ IF replay.status = 401 THEN RequireKey ELSE UNCHANGED active
    /\ UNCHANGED <<valid, stored, queries, submits, waived>>

(* Its component is gone.                                                   *)
ReplayAborted ==
    /\ Pending(replay) /\ replay' = NoFetch
    /\ UNCHANGED <<valid, stored, active, queries, submits, waived>>

----------------------------------------------------------------------------
(* The gateway answers a request by the keys of that moment; whether the    *)
(* replay fails in another way does not matter here.                        *)
Gated(f, status) == [f EXCEPT !.status = IF f.key \in valid THEN status ELSE 401]

GatewayAnswers ==
    /\ \/ \E q \in Query, status \in {200, 500} :
            /\ queries[q].fetch.status = 1
            /\ queries' = [queries EXCEPT ![q].fetch = Gated(@, status)]
            /\ UNCHANGED replay
       \/ replay.status = 1 /\ replay' = Gated(replay, 200) /\ UNCHANGED queries
    /\ UNCHANGED <<valid, stored, active, submits, waived>>

KeyRevoked(k) ==
    /\ k \in valid /\ valid' = valid \ {k}
    /\ UNCHANGED <<stored, active, queries, replay, submits, waived>>

----------------------------------------------------------------------------
(* The prompt.                                                              *)

\* Mutant of Invalidate: queries are left to their next interval.
InvalidateNothing(q, key) == queries[q]

(* invalidateQueries: those on screen are fetched again with the new key;   *)
(* a first fetch that is on its way is left to answer.                      *)
Invalidate(q, key) ==
    LET s == queries[q] IN
    IF s.mounted /\ (s.data \/ ~Pending(s.fetch))
    THEN [s EXCEPT !.fetch = Sent(key), !.failures = 0]
    ELSE s

(* handleSubmit.                                                            *)
Submit(key) ==
    /\ active /\ submits < MaxSubmits
    /\ stored' = key /\ active' = FALSE
    /\ queries' = [q \in Query |-> Invalidate(q, key)]
    /\ submits' = submits + 1
    /\ waived' = {q \in waived : ~queries[q].mounted}
    /\ UNCHANGED <<valid, replay>>

(* authStore.dismiss, by the dialog's own means.                            *)
Dismiss ==
    /\ active /\ active' = FALSE
    /\ waived' = waived \cup {q \in Query : queries[q].last = "unauthorized"}
    /\ UNCHANGED <<valid, stored, queries, replay, submits>>

SignNext ==
    \/ \E q \in Query : Show(q) \/ Leave(q) \/ GetJsonReturns(q)
    \/ StartReplay \/ ReplayReturns \/ ReplayAborted
    \/ GatewayAnswers
    \/ \E k \in Key : KeyRevoked(k) \/ Submit(k)
    \/ Dismiss

SignSpec == SignInit /\ [][SignNext]_signVars

----------------------------------------------------------------------------
SignTypeOK ==
    /\ valid \in SUBSET Key /\ stored \in Key \cup {NoKey} /\ active \in BOOLEAN
    /\ queries \in [Query -> [mounted : BOOLEAN, data : BOOLEAN, last : Outcome,
                              fetch : Fetch, failures : {0, 1}]]
    /\ replay \in Fetch
    /\ submits \in 0..MaxSubmits /\ waived \in SUBSET Query

(* A query on screen that failed for want of a key is being fetched again,  *)
(* or the prompt is open, or the operator has closed it on that failure:    *)
(* a 401 that arrives after the key was replaced, from whichever request,   *)
(* opens it again (main.tsx lines 44-50, __root.tsx lines 170-180).         *)
NeverStranded ==
    \A q \in Query :
        queries[q].mounted /\ queries[q].last = "unauthorized" /\ ~Pending(queries[q].fetch) =>
          active \/ q \in waived
=============================================================================
