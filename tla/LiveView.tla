------------------------------ MODULE LiveView ------------------------------
(***************************************************************************)
(* The live view of the dashboard (src/ui/src/routes/live.tsx) and what    *)
(* feeds it: emit and the event bus, the telemetry stream route, the hook  *)
(* useEventStream with its ring buffer, side buffer and reconnects, and    *)
(* the history query whose answer the page puts under the live events.     *)
(*                                                                         *)
(* An event is its number in the order of emission; the newest comes first *)
(* in every list.  A click and the render it causes are one step: React    *)
(* flushes a click's updates before the next message.                      *)
(***************************************************************************)
EXTENDS Naturals, Sequences, SequencesExt

CONSTANTS
    MaxEmitted,      \* bound: events emitted
    MaxLosses,      \* bound: connections lost
    MaxMounts,      \* bound: visits to the page
    BufferSize,     \* bufferSize
    HistoryLimit    \* the limit of the history query

(* What a model's values of the constants satisfy.                          *)
LiveConstantsOK ==
    /\ {MaxEmitted, MaxLosses, MaxMounts} \subseteq Nat
    /\ {BufferSize, HistoryLimit} \subseteq Nat \ {0}

VARIABLES
    emitted,        \* events emitted so far; SQLite has them all
    subscribed,     \* the connection's subscriber is in `subs`
    wire,           \* events sent to the client and not yet dispatched
    mounts,         \* visits so far
    mounted,        \* the page is shown
    source,         \* the EventSource: none, waiting (backoff), connecting, open
    losses,
    history,        \* the history query: none, fetching, or its cached answer
    live,           \* `events`
    pending,        \* `pendingRef`
    paused,
    \* history variables
    received,       \* all events dispatched since the mount or the last clear
    shownBefore     \* what the page showed when it was last left

page == <<mounts, mounted, history, shownBefore>>
stream == <<subscribed, wire, source, losses>>
buffers == <<live, pending, paused, received>>
liveVars == <<emitted, page, stream, buffers>>

Take(list, n) == SubSeq(list, 1, IF Len(list) < n THEN Len(list) ELSE n)

(* queryEvents, newest first.                                               *)
Newest(n) == Take([i \in 1..emitted |-> emitted + 1 - i], n)

LiveInit ==
    /\ emitted = 0
    /\ subscribed = FALSE /\ wire = <<>> /\ source = "none" /\ losses = 0
    /\ mounts = 0 /\ mounted = FALSE /\ history = [at |-> "none"]
    /\ live = <<>> /\ pending = <<>> /\ paused = FALSE
    /\ received = <<>> /\ shownBefore = {}

----------------------------------------------------------------------------
(* The server.                                                              *)

(* emit: the row first, then the bus; every subscriber enqueues a frame.    *)
Emit ==
    /\ emitted < MaxEmitted
    /\ emitted' = emitted + 1
    /\ wire' = IF subscribed THEN Append(wire, emitted + 1) ELSE wire
    /\ UNCHANGED <<page, buffers, subscribed, source, losses>>

(* The route's start subscribes, and the client's onopen follows.           *)
Open ==
    /\ source = "connecting"
    /\ source' = "open" /\ subscribed' = TRUE
    /\ UNCHANGED <<emitted, page, buffers, wire, losses>>

----------------------------------------------------------------------------
(* The hook.                                                                *)

\* Mutant of Buffered: the side buffer is capped at half the ring buffer.
BufferedHalf(ev) ==
    IF paused
    THEN pending' = Take(<<ev>> \o pending, BufferSize \div 2) /\ UNCHANGED live
    ELSE live' = Take(<<ev>> \o live, BufferSize) /\ UNCHANGED pending

(* appendEvent.                                                             *)
Buffered(ev) ==
    IF paused
    THEN pending' = Take(<<ev>> \o pending, 2 * BufferSize) /\ UNCHANGED live
    ELSE live' = Take(<<ev>> \o live, BufferSize) /\ UNCHANGED pending

Dispatch ==
    /\ source = "open" /\ wire # <<>>
    /\ wire' = Tail(wire)
    /\ Buffered(Head(wire))
    /\ received' = <<Head(wire)>> \o received
    /\ UNCHANGED <<emitted, page, subscribed, source, losses, paused>>

Pause ==
    /\ mounted /\ ~paused
    /\ paused' = TRUE
    /\ UNCHANGED <<emitted, page, stream, live, pending, received>>

Resume ==
    /\ mounted /\ paused
    /\ paused' = FALSE
    /\ live' = Take(pending \o live, BufferSize)
    /\ pending' = <<>>
    /\ UNCHANGED <<emitted, page, stream, received>>

Clear ==
    /\ mounted /\ received # <<>>
    /\ live' = <<>> /\ pending' = <<>> /\ received' = <<>>
    /\ UNCHANGED <<emitted, page, stream, paused>>

(* onerror: close and wait for the backoff timer; frames on their way are   *)
(* gone, and the server's cancel unsubscribes.                              *)
Lost ==
    /\ source \in {"connecting", "open"} /\ losses < MaxLosses
    /\ source' = "waiting" /\ losses' = losses + 1
    /\ subscribed' = FALSE /\ wire' = <<>>
    /\ UNCHANGED <<emitted, page, buffers>>

Reconnect ==
    /\ source = "waiting"
    /\ source' = "connecting"
    /\ UNCHANGED <<emitted, page, buffers, subscribed, wire, losses>>

----------------------------------------------------------------------------
(* The page.                                                                *)

Base == IF history.at = "cached" THEN history.events ELSE <<>>

(* Live events that the history holds too are shown once, in the history.   *)
Unseen ==
    LET inBase == {Base[i] : i \in DOMAIN Base}
        kept[n \in 0..Len(live)] ==
          IF n = 0 THEN <<>>
          ELSE IF live[n] \in inBase THEN kept[n-1] ELSE Append(kept[n-1], live[n])
    IN  kept[Len(live)]
Merged == Unseen \o Base

Shown == {Merged[i] : i \in DOMAIN Merged}

(* The hook connects; the query runs unless its answer is still cached:     *)
(* staleTime is Infinity.                                                   *)
Mount ==
    /\ ~mounted /\ mounts < MaxMounts
    /\ mounted' = TRUE /\ mounts' = mounts + 1
    /\ history' = IF history.at = "none" THEN [at |-> "fetching"] ELSE history
    /\ source' = "connecting"
    /\ live' = <<>> /\ pending' = <<>> /\ paused' = FALSE /\ received' = <<>>
    /\ UNCHANGED <<emitted, subscribed, wire, losses, shownBefore>>

HistoryAnswers ==
    /\ history.at = "fetching"
    /\ history' = [at |-> "cached", events |-> Newest(HistoryLimit)]
    /\ UNCHANGED <<emitted, mounts, mounted, shownBefore, stream, buffers>>

(* The hook's cleanup clears the timer and closes the source.               *)
Unmount ==
    /\ mounted
    /\ mounted' = FALSE
    /\ source' = "none" /\ subscribed' = FALSE /\ wire' = <<>>
    /\ shownBefore' = Shown
    /\ UNCHANGED <<emitted, mounts, history, losses, buffers>>

(* gcTime after the page was left.                                          *)
CacheExpires ==
    /\ ~mounted /\ history.at = "cached"
    /\ history' = [at |-> "none"]
    /\ UNCHANGED <<emitted, mounts, mounted, shownBefore, stream, buffers>>

LiveNext ==
    \/ Emit \/ Open \/ Dispatch \/ Pause \/ Resume \/ Clear \/ Lost \/ Reconnect
    \/ Mount \/ HistoryAnswers \/ Unmount \/ CacheExpires

LiveSpec == LiveInit /\ [][LiveNext]_liveVars

----------------------------------------------------------------------------
Events == 1..MaxEmitted

LiveTypeOK ==
    /\ emitted \in 0..MaxEmitted
    /\ subscribed \in BOOLEAN /\ mounted \in BOOLEAN /\ paused \in BOOLEAN
    /\ source \in {"none", "waiting", "connecting", "open"}
    /\ losses \in 0..MaxLosses /\ mounts \in 0..MaxMounts
    /\ wire \in Seq(Events) /\ received \in Seq(Events)
    /\ live \in Seq(Events) /\ Len(live) <= BufferSize
    /\ pending \in Seq(Events) /\ Len(pending) <= 2 * BufferSize
    /\ history.at \in {"none", "fetching", "cached"}
    /\ shownBefore \subseteq Events

(* "Pause/resume with a side buffer so the UI can stop moving without       *)
(* dropping events" (useEventStream lines 37-38): however pauses, caps and  *)
(* reconnects fall, what the buffers would show on resume is what they      *)
(* would show had nobody paused: the newest events received.                *)
PauseIsTransparent ==
    Take(pending \o live, BufferSize) = Take(received, BufferSize)

(* The merged list shows no event twice, whichever of history and stream    *)
(* came first, and newest first as long as the history reaches back to the  *)
(* oldest live event.                                                       *)
MergedInOrder ==
    LET gapless == Base = <<>> \/ Len(Base) < HistoryLimit \/
                   \A i \in DOMAIN live : live[i] >= Base[Len(Base)]
    IN  /\ \A i, j \in DOMAIN Merged : i # j => Merged[i] # Merged[j]
        /\ gapless => \A i, j \in DOMAIN Merged : i < j => Merged[i] > Merged[j]

(* "Historical backfill from SQLite - survives navigation" (live.tsx lines  *)
(* 48-53): coming back to the page, with the history loaded, shows what it  *)
(* showed before, as far as the limit reaches.  The code keeps the answer   *)
(* of the first visit and drops the live events of it.                      *)
SurvivesNavigation ==
    mounted /\ history.at = "cached" /\ MaxEmitted <= HistoryLimit =>
        shownBefore \subseteq Shown

(* What the page shows is what it received, whatever the operator did.      *)
ShownAsReceived == PauseIsTransparent /\ MergedInOrder
=============================================================================
