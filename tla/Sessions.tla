------------------------------ MODULE Sessions ------------------------------
(***************************************************************************)
(* The session views of the dashboard: the list of recent chat requests    *)
(* grouped into conversations (ui lib/sessions.ts, session-query.ts), and  *)
(* the page of one conversation with a cache entry per turn                *)
(* (routes/s.$sessionId.tsx), fed by the telemetry routes while the        *)
(* requests still run.                                                     *)
(*                                                                         *)
(* A request is its number in the order of the timestamps; its key is the  *)
(* hash of its first user text, as the list gives it, or NoText, when it   *)
(* has none; times count from the first request, in parts of the idle      *)
(* window.  The text of a row is taken to be one from the start: where the *)
(* upstream body begins otherwise than the client's, it is the upstream    *)
(* body's.  A body is asked until the final update of the row has landed,  *)
(* then whole.  The query library is modelled by what the page asks of it. *)
(***************************************************************************)
EXTENDS Naturals, Sequences, SequencesExt

CONSTANTS
    MaxRequests,    \* bound: requests recorded
    MaxTime,        \* bound: the last timestamp
    FirstMessage,   \* hashes of first user texts
    MaxIdle,        \* maxIdleMinutes
    ListLimit       \* the limit of the grouping query

(* What a model's values of the constants satisfy.                          *)
SessionConstantsOK == {MaxRequests, MaxTime, MaxIdle, ListLimit} \subseteq Nat

VARIABLES
    recorded,       \* the rows, oldest first: key, time, body
    listed,         \* the cached answer of the grouping query: how many rows it saw
    session,        \* the first request of the opened conversation; 0, no page
    conversation,   \* the turns the page resolves it to; {}, not found
    cache,          \* per request: the body under ["session-turn", id], or none
    refetching,     \* turns whose background refetch is under way
    shown           \* the turns the page shows whole

sessionVars == <<recorded, listed, session, conversation, cache, refetching, shown>>

NoText == "no text"
Recorded == 1..Len(recorded)
TurnBody == {"none", "asked", "whole"}

SessionInit ==
    /\ recorded = <<>> /\ listed = 0 /\ session = 0 /\ conversation = {}
    /\ cache = [r \in 1..MaxRequests |-> "none"]
    /\ refetching = {} /\ shown = {}

----------------------------------------------------------------------------
(* groupIntoConversations, over the newest ListLimit of the first n rows.   *)

Window(n) == {r \in 1..n : r + ListLimit > n}

(* The rows the loop does not skip: those with a first user text.           *)
Chats(n) == {r \in Window(n) : recorded[r].key # NoText}

(* byKey's conversation of r's key when the loop comes to r is the one the  *)
(* last request of that key is in.                                          *)
Earlier(n, r) == {q \in Chats(n) : q < r /\ recorded[q].key = recorded[r].key}
Previous(n, r) == CHOOSE q \in Earlier(n, r) : \A p \in Earlier(n, r) : p <= q

\* Mutant of GroupHead: the idle time is counted from the group's start.
GroupHeadOfStart(n) ==
    LET head[r \in 1..n] ==
          IF \/ Earlier(n, r) = {}
             \/ recorded[r].time - recorded[head[Previous(n, r)]].time > MaxIdle
          THEN r ELSE head[Previous(n, r)]
    IN  head

(* The first request of the conversation each row with a text is put in:    *)
(* the open one of its key within the idle window, or a new one.            *)
GroupHead(n) ==
    LET head[r \in 1..n] ==
          IF \/ Earlier(n, r) = {}
             \/ recorded[r].time - recorded[Previous(n, r)].time > MaxIdle
          THEN r ELSE head[Previous(n, r)]
    IN  head

(* The page resolves its session id, the key and the first trace of a       *)
(* group, to the group's turns; to none, when no group has it.              *)
Resolved(n, id) ==
    IF id \in Chats(n)
    THEN LET head == GroupHead(n) IN {r \in Chats(n) : head[r] = id}
    ELSE {}

----------------------------------------------------------------------------
(* The gateway: rows appear, and get their final update in any order.       *)

Record ==
    /\ Len(recorded) < MaxRequests
    /\ \E k \in FirstMessage \cup {NoText}, t \in 0..MaxTime :
         /\ IF recorded = <<>> THEN t = 0 ELSE Last(recorded).time <= t
         /\ recorded' = Append(recorded, [key |-> k, time |-> t, body |-> "asked"])
    /\ UNCHANGED <<listed, session, conversation, cache, refetching, shown>>

Complete ==
    /\ \E r \in Recorded :
         /\ recorded[r].body = "asked"
         /\ recorded' = [recorded EXCEPT ![r].body = "whole"]
    /\ UNCHANGED <<listed, session, conversation, cache, refetching, shown>>

----------------------------------------------------------------------------
(* The page.                                                                *)

(* The grouping query answers, at its interval or on a visit.               *)
PollList ==
    /\ listed # Len(recorded)
    /\ listed' = Len(recorded)
    /\ conversation' = Resolved(listed', session)
    /\ UNCHANGED <<recorded, session, cache, refetching, shown>>

OpenPage ==
    /\ session = 0
    /\ \E r \in Chats(listed) : session' = GroupHead(listed)[r]
    /\ conversation' = Resolved(listed, session')
    /\ UNCHANGED <<recorded, listed, cache, refetching, shown>>

ClosePage ==
    /\ session # 0
    /\ session' = 0 /\ conversation' = {}
    /\ shown' = {}
    /\ UNCHANGED <<recorded, listed, cache, refetching>>

(* turnStaleTime: only the last turn is ever stale.                         *)
Stale(turns, r) == \A q \in turns : q <= r

\* Mutant of PollTurns: the turns query has no refetchInterval.
PollTurnsOnce ==
    /\ conversation # {} /\ shown = {}
    /\ LET body(r) == IF cache[r] = "none" THEN recorded[r].body ELSE cache[r]
       IN  /\ cache' = [r \in DOMAIN cache |-> IF r \in conversation THEN body(r) ELSE cache[r]]
           /\ shown' = {r \in conversation : body(r) = "whole"}
    /\ UNCHANGED <<recorded, listed, session, conversation, refetching>>

(* The turns query: ensureQueryData per turn fetches what is not cached and *)
(* gives what is; revalidateIfStale refetches the last turn behind it.      *)
PollTurns ==
    LET turns == conversation
        body(r) == IF cache[r] = "none" THEN recorded[r].body ELSE cache[r]
    IN  /\ turns # {}
        /\ cache' = [r \in DOMAIN cache |-> IF r \in turns THEN body(r) ELSE cache[r]]
        /\ shown' = {r \in turns : body(r) = "whole"}
        /\ refetching' = refetching \cup {r \in turns : cache[r] # "none" /\ Stale(turns, r)}
        /\ UNCHANGED <<recorded, listed, session, conversation>>

RefetchAnswers(r) ==
    /\ r \in refetching
    /\ cache' = [cache EXCEPT ![r] = recorded[r].body]
    /\ refetching' = refetching \ {r}
    /\ UNCHANGED <<recorded, listed, session, conversation, shown>>

(* gcTime after its last fetch an entry goes: no observer holds it.         *)
Collect(r) ==
    /\ cache[r] # "none" /\ r \notin refetching
    /\ cache' = [cache EXCEPT ![r] = "none"]
    /\ UNCHANGED <<recorded, listed, session, conversation, refetching, shown>>

SessionNext ==
    \/ Record \/ Complete \/ PollList \/ OpenPage \/ ClosePage
    \/ PollTurns
    \/ \E r \in 1..MaxRequests : RefetchAnswers(r) \/ Collect(r)

(* Polls, refetches and garbage-collection timers fire.                     *)
SessionFairness ==
    /\ WF_sessionVars(PollList) /\ WF_sessionVars(PollTurns)
    /\ \A r \in 1..MaxRequests : WF_sessionVars(RefetchAnswers(r)) /\ WF_sessionVars(Collect(r))

SessionSpec == SessionInit /\ [][SessionNext]_sessionVars /\ SessionFairness

----------------------------------------------------------------------------
SessionTypeOK ==
    /\ recorded \in Seq([key : FirstMessage \cup {NoText}, time : 0..MaxTime, body : TurnBody \ {"none"}])
    /\ listed \in 0..MaxRequests /\ session \in 0..MaxRequests
    /\ cache \in [1..MaxRequests -> TurnBody] /\ shown \subseteq 1..MaxRequests
    /\ refetching \subseteq 1..MaxRequests /\ conversation \subseteq Window(listed)

(* Two listed requests with a first user text are one conversation exactly  *)
(* when a chain of requests of their key links them without an idle gap     *)
(* (sessions.ts lines 5-13), however the conversations of other keys and    *)
(* the requests without a text lie between.                                 *)
GroupedByActivity ==
    LET head == GroupHead(listed)
        linked(a, b) ==
            \A r \in Chats(listed) : a <= r /\ r < b /\ recorded[r].key = recorded[a].key =>
                \E s \in (r + 1)..b : /\ recorded[s].key = recorded[a].key
                                      /\ recorded[s].time - recorded[r].time <= MaxIdle
    IN  \A a, b \in Chats(listed) : a < b =>
            (head[a] = head[b] <=> recorded[a].key = recorded[b].key /\ linked(a, b))

(* An open page comes to show every turn of its conversation whole once the *)
(* row is, even a turn that was fetched incomplete, as the last one, and    *)
(* turned into a prior one, cached with an infinite staleTime, before its   *)
(* answer was recorded.                                                     *)
ShownWholeInTheEnd ==
    \A r \in 1..MaxRequests :
        r \in conversation /\ recorded[r].body = "whole"
            ~> r \notin conversation \/ r \in shown
=============================================================================
