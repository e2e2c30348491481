---------------------------- MODULE StreamRelay ----------------------------
(***************************************************************************)
(* streamAnthropicToOpenai of src/transform/streaming.ts: one loop reads   *)
(* the upstream event stream and writes chunks for the client, while the   *)
(* runtime may abort the request signal, call cancel(), tick the           *)
(* keep-alive interval and fire the force-close timer.                     *)
(*                                                                         *)
(* The JavaScript event loop runs one callback at a time, so the others    *)
(* move only while the read loop awaits reader.read() (pc = "read") or has *)
(* left (pc = "done").  Events are their kinds; a chunk of bytes is the    *)
(* sequence of events it completes and perhaps one more whose newline has  *)
(* not come yet.                                                           *)
(***************************************************************************)
EXTENDS Naturals, SequencesExt

CONSTANTS
    MaxEvents,      \* bound: events the upstream sends
    MaxChunk        \* bound: events in one chunk of bytes

ASSUME MaxEventsAssumption == MaxEvents \in Nat
ASSUME MaxChunkAssumption == MaxChunk \in Nat

VARIABLES
    \* the upstream response (external)
    upstream,           \* "open", "ended" or "failed"
    block,              \* the content block it is in, "none", or "final" after message_delta
    events,             \* events sent (bounds the model)
    owed,               \* those of them a client is to see
    \* the relay
    pc,                 \* where start() is: "read", "lines", "flush", "done"
    lines,              \* complete lines not yet processed
    buffer,             \* the line retained by lines.pop(): empty or one event
    closed,             \* `closed`
    readerReleased,     \* `readerReleased`
    keepAlive,          \* keepAliveInterval is set
    inToolUse,          \* `inToolUse`, with toolUseBlockIndex
    thinking,           \* activeThinkingBlock is set
    pendingCancel,      \* `pendingCancel`
    timer,              \* pendingCancelTimer: "none", "armed", or "queued" to run
    graceOver,          \* PENDING_CANCEL_TIMEOUT_MS have passed since cancel()
    cancels,            \* calls of reader.cancel()
    \* the client side (the runtime)
    out,                \* the ReadableStream the client reads
    aborted,            \* signal.aborted
    written             \* data chunks enqueued

upstreamVars == <<upstream, block, events, owed>>
loopVars == <<pc, lines, buffer, readerReleased>>
parserVars == <<inToolUse, thinking>>
cancelVars == <<pendingCancel, graceOver>>
vars == <<upstreamVars, loopVars, parserVars, cancelVars, closed, keepAlive,
          timer, cancels, out, aborted, written>>

Block == {"tool", "thinking", "text"}       \* a block's start, and being in it
Event == Block \cup {"delta", "stop", "final"}

Init ==
    /\ upstream = "open" /\ block = "none" /\ events = 0 /\ owed = 0
    /\ pc = "read" /\ lines = <<>> /\ buffer = <<>>
    /\ readerReleased = FALSE
    /\ inToolUse = FALSE /\ thinking = FALSE
    /\ pendingCancel = FALSE /\ graceOver = FALSE
    /\ closed = FALSE /\ keepAlive = TRUE
    /\ timer = "none" /\ cancels = 0
    /\ out = "readable" /\ aborted = FALSE /\ written = 0

TypeOK ==
    /\ upstream \in {"open", "ended", "failed"}
    /\ block \in Block \cup {"none", "final"}
    /\ events \in 0 .. MaxEvents /\ owed \in 0 .. events
    /\ pc \in {"read", "lines", "flush", "done"}
    /\ lines \in Seq(Event) /\ buffer \in Seq(Event) /\ Len(buffer) <= 1
    /\ out \in {"readable", "draining", "closed", "errored", "cancelled"}
    /\ timer \in {"none", "armed", "queued"}
    /\ {readerReleased, inToolUse, thinking, pendingCancel, graceOver, closed,
        keepAlive, aborted} \subseteq BOOLEAN
    /\ cancels \in Nat /\ written \in 0 .. owed

----------------------------------------------------------------------------
(* The upstream's protocol: blocks one after another, then message_delta.  *)
Follows(b, e) ==
    \/ b = "none" /\ e \in Block \cup {"final"}
    \/ b \in Block /\ e \in {"delta", "stop"}

After(b, e) ==
    CASE e \in Block -> e
      [] e = "delta" -> b
      [] e = "stop"  -> "none"
      [] e = "final" -> "final"

(* The events a client is to see as a chunk.                               *)
Visible(b, e) == e \in {"tool", "delta", "final"} \/ (e = "stop" /\ b = "thinking")

(* Where the events of es bring the upstream, one after another: the block  *)
(* it is in, and the events that a client is to see.                        *)
Sent(es) ==
    LET at[i \in 0 .. Len(es)] ==
          IF i = 0 THEN [block |-> block, owed |-> owed]
          ELSE [block |-> After(at[i-1].block, es[i]),
                owed  |-> at[i-1].owed + (IF Visible(at[i-1].block, es[i]) THEN 1 ELSE 0)]
    IN  at

Legal(es) == \A i \in DOMAIN es : Follows(Sent(es)[i-1].block, es[i])

----------------------------------------------------------------------------
(* The controller (external): enqueue() throws unless it is readable.      *)
CanEnqueue == out = "readable"

(* controller.close(), with whatever is still queued, and .error(err).     *)
CloseOutput == out' = IF CanEnqueue THEN "draining" ELSE out
ErrorOutput == out' = IF CanEnqueue THEN "errored" ELSE out

(* safeEnqueue: what it returns, and what it does with a data chunk.       *)
Accepts == ~closed /\ (pendingCancel \/ (~aborted /\ CanEnqueue))

Enqueue ==
    /\ closed' = ~Accepts
    /\ written' = IF Accepts /\ ~pendingCancel THEN written + 1 ELSE written

(* clearPendingCancelTimer: a callback that is about to run stays queued.  *)
ClearTimer ==
    \/ timer' = "none"
    \/ timer = "queued" /\ timer' = "queued"

(* The loop is left: the finally block.                                    *)
Finish ==
    /\ pc' = "done"
    /\ readerReleased' = TRUE
    /\ keepAlive' = FALSE
    /\ ClearTimer

Stay == UNCHANGED <<keepAlive, timer, readerReleased, cancels>>

(* Whether a tool block is open after an event, and whether processEvent   *)
(* writes a chunk for it.                                                  *)
ToolOpenAfter(e) == e = "tool" \/ (inToolUse /\ e # "stop")
Writes(e) == e \in {"tool", "delta", "final"} \/ (e = "stop" /\ thinking)

(* processEvent: what it tracks, what it writes, whether it says "break".  *)
Track(e) ==
    /\ inToolUse' = ToolOpenAfter(e)
    /\ thinking' = (e = "thinking" \/ (thinking /\ e # "stop"))

Write(e) == IF Writes(e) THEN Enqueue ELSE UNCHANGED <<closed, written>>

Breaks(e) == Writes(e) /\ ~Accepts

(* Leaves the loop with reader.cancel(), after a deferred cancel.          *)
ForceClose ==
    /\ closed' = TRUE
    /\ cancels' = cancels + 1
    /\ Finish

----------------------------------------------------------------------------
(* reader.read() gives bytes that hold the events es.                      *)
Receive(es) ==
    /\ pc = "read" /\ upstream = "open" /\ cancels = 0
    /\ events + Len(es) <= MaxEvents
    /\ Legal(es)
    /\ block' = Sent(es)[Len(es)].block
    /\ owed' = Sent(es)[Len(es)].owed
    /\ events' = events + Len(es)
    /\ pc' = "lines"
    /\ UNCHANGED <<upstream, parserVars, cancelVars, closed, out, aborted, written>>
    /\ Stay

Chunk == UNION {[1 .. n -> Event] : n \in 0 .. MaxChunk}

\* Mutant of ReadChunk: the retained line is appended to, not replaced.
ReadChunkAppends ==
    \E es \in Chunk \ {<<>>}, cut \in BOOLEAN :
        /\ Receive(es)
        /\ buffer' = IF cut THEN Append(buffer, Last(es)) ELSE buffer
        /\ lines' = IF cut THEN Front(es) ELSE es

(* They complete the retained line, and their last line is retained if its *)
(* newline has not come.                                                   *)
ReadChunk ==
    \E es \in Chunk, cut \in BOOLEAN :
        /\ es # <<>> \/ (buffer # <<>> /\ ~cut)
        /\ Receive(es)
        /\ buffer' = IF cut THEN <<Last(es)>> ELSE <<>>
        /\ lines' = buffer \o (IF cut THEN Front(es) ELSE es)

(* The two ends of a turn of a loop over lines: a refused write leaves it, *)
(* any other event makes way for the next line.                            *)
BreakOut(e) == Breaks(e) /\ Write(e) /\ Finish /\ UNCHANGED <<lines, cancels>>
PassOn(e) == ~Breaks(e) /\ Write(e) /\ lines' = Tail(lines) /\ UNCHANGED pc /\ Stay

(* A turn of the read loop's for; ends: the event calls for a force-close. *)
TakeLine(e, ends) ==
    /\ Track(e)
    /\ \/ BreakOut(e)
       \/ ~Breaks(e) /\ ends /\ ForceClose /\ UNCHANGED <<lines, written>>
       \/ ~ends /\ PassOn(e)
    /\ UNCHANGED <<upstreamVars, buffer, cancelVars, out, aborted>>

(* The end of the tool block for which a cancel was deferred closes.       *)
ProcessLine ==
    /\ pc = "lines" /\ lines # <<>>
    /\ TakeLine(Head(lines), pendingCancel /\ ~ToolOpenAfter(Head(lines)))

(* The lines of a chunk are done: the while condition, then the budget of  *)
(* a deferred cancel (elapsed > budget: not yet in its last millisecond),  *)
(* then the next read.                                                     *)
NextRead ==
    /\ pc = "lines" /\ lines = <<>>
    /\ \/ closed /\ Finish /\ UNCHANGED <<lines, closed, cancels>>
       \/ ~closed /\ pendingCancel /\ graceOver /\ ForceClose /\ UNCHANGED lines
       \/ ~closed /\ pc' = "read" /\ UNCHANGED <<lines, closed>> /\ Stay
    /\ UNCHANGED <<upstreamVars, buffer, parserVars, cancelVars, out, aborted, written>>

(* reader.read() says done: the upstream ended, or reader.cancel() ended   *)
(* the pending read.  If not closed the relay flushes the lines in rest.   *)
FinishReading(rest) ==
    /\ pc = "read"
    /\ \/ cancels > 0 /\ UNCHANGED upstream
       \/ cancels = 0 /\ upstream = "open" /\ upstream' = "ended"
    /\ \/ closed /\ Finish /\ UNCHANGED <<lines, buffer>>
       \/ /\ ~closed
          /\ pc' = "flush" /\ readerReleased' = TRUE
          /\ lines' = rest /\ buffer' = <<>>
          /\ UNCHANGED <<keepAlive, timer>>
    /\ UNCHANGED <<block, events, owed, parserVars, cancelVars, closed, cancels, out,
                   aborted, written>>

\* Mutant of ReadDone: the retained line is not flushed.
ReadDoneDropsTail == FinishReading(<<>>)

ReadDone == FinishReading(buffer)

(* One line of the flush; a refused write ends the stream unterminated.    *)
FlushLine ==
    /\ pc = "flush" /\ lines # <<>>
    /\ LET e == Head(lines) IN Track(e) /\ (BreakOut(e) \/ PassOn(e))
    /\ UNCHANGED <<upstreamVars, buffer, cancelVars, out, aborted>>

(* The flush is done: "data: [DONE]" and controller.close().               *)
EndStream ==
    /\ pc = "flush" /\ lines = <<>>
    /\ closed' = ~Accepts
    /\ CloseOutput
    /\ Finish
    /\ UNCHANGED <<upstreamVars, lines, buffer, parserVars, cancelVars, cancels,
                   aborted, written>>

(* reader.read() rejects: the client sees an error unless it has left.     *)
ReadFails ==
    /\ pc = "read" /\ upstream = "open" /\ cancels = 0
    /\ upstream' = "failed"
    /\ IF closed THEN UNCHANGED out ELSE ErrorOutput
    /\ Finish
    /\ UNCHANGED <<block, events, owed, lines, buffer, parserVars, cancelVars, closed,
                   cancels, aborted, written>>

----------------------------------------------------------------------------
(* The keep-alive interval: a comment, which notices an abort on its way.  *)
KeepAlive ==
    /\ keepAlive /\ pc = "read"
    /\ closed' = ~Accepts
    /\ UNCHANGED <<upstreamVars, loopVars, parserVars, cancelVars, keepAlive, timer,
                   cancels, out, aborted, written>>

(* The client goes away: signal.aborted flips.                             *)
Abort ==
    /\ ~aborted /\ pc \in {"read", "done"}
    /\ aborted' = TRUE
    /\ UNCHANGED <<upstreamVars, loopVars, parserVars, cancelVars, closed, keepAlive,
                   timer, cancels, out, written>>

(* The client takes the last queued chunk of a finished stream.            *)
Drain ==
    /\ out = "draining"
    /\ out' = "closed"
    /\ UNCHANGED <<upstreamVars, loopVars, parserVars, cancelVars, closed, keepAlive,
                   timer, cancels, aborted, written>>

(* cancel() outside a tool block.                                          *)
CancelNow ==
    /\ closed' = TRUE
    /\ keepAlive' = FALSE
    /\ ClearTimer
    /\ cancels' = cancels + 1
    /\ UNCHANGED <<pendingCancel, graceOver>>

(* cancel() inside one: deferred, with the force-close timer armed.        *)
DeferCancel ==
    /\ pendingCancel' = TRUE
    /\ timer' = "armed"
    /\ UNCHANGED <<graceOver, closed, keepAlive, cancels>>

\* Mutant of Cancel: the deferred cancel arms no timer.
CancelUntimed ==
    /\ out \in {"readable", "draining"} /\ pc \in {"read", "done"}
    /\ out' = "cancelled"
    /\ \/ inToolUse /\ pendingCancel' = TRUE /\ UNCHANGED <<timer, graceOver, closed, keepAlive, cancels>>
       \/ ~inToolUse /\ CancelNow
    /\ UNCHANGED <<upstreamVars, loopVars, parserVars, aborted, written>>

(* The runtime calls cancel(): once, and only on a stream not yet over.    *)
Cancel ==
    /\ out \in {"readable", "draining"} /\ pc \in {"read", "done"}
    /\ out' = "cancelled"
    /\ \/ inToolUse /\ DeferCancel
       \/ ~inToolUse /\ CancelNow
    /\ UNCHANGED <<upstreamVars, loopVars, parserVars, aborted, written>>

(* PENDING_CANCEL_TIMEOUT_MS later the timer's callback is due.            *)
GraceEnds ==
    /\ timer = "armed"
    /\ timer' = "queued" /\ graceOver' = TRUE
    /\ UNCHANGED <<upstreamVars, loopVars, parserVars, pendingCancel, closed, keepAlive,
                   cancels, out, aborted, written>>

\* Mutant of ForceTimer: it trusts clearTimeout and checks nothing.
ForceTimerUnguarded ==
    /\ timer = "queued" /\ pc \in {"read", "done"}
    /\ timer' = "none"
    /\ closed' = TRUE /\ readerReleased' = TRUE /\ keepAlive' = FALSE /\ cancels' = cancels + 1
    /\ UNCHANGED <<upstreamVars, pc, lines, buffer, parserVars, cancelVars, out, aborted, written>>

(* The timer's callback: nothing if closed or released, else force-close.  *)
ForceTimer ==
    /\ timer = "queued" /\ pc \in {"read", "done"}
    /\ timer' = "none"
    /\ IF closed \/ readerReleased
       THEN UNCHANGED <<closed, readerReleased, keepAlive, cancels>>
       ELSE /\ closed' = TRUE
            /\ readerReleased' = TRUE
            /\ keepAlive' = FALSE
            /\ cancels' = cancels + 1
    /\ UNCHANGED <<upstreamVars, pc, lines, buffer, parserVars, cancelVars, out, aborted, written>>

----------------------------------------------------------------------------
Loop == ProcessLine \/ NextRead \/ FlushLine \/ EndStream
Reads == ReadChunk \/ ReadDone \/ ReadFails
Client == Abort \/ Cancel \/ Drain
Timers == KeepAlive \/ GraceEnds \/ ForceTimer

Next == Loop \/ Reads \/ Client \/ Timers

SafetySpec == Init /\ [][Next]_vars

(* The event loop runs what is ready: the loop's synchronous steps, a read *)
(* that reader.cancel() has ended, timers.  Nothing is owed by the client, *)
(* nor by the upstream, which may stall for ever.                          *)
Fairness ==
    /\ WF_vars(Loop)
    /\ WF_vars(ReadDone /\ cancels > 0)
    /\ WF_vars(GraceEnds)
    /\ WF_vars(ForceTimer)

Spec == SafetySpec /\ Fairness

----------------------------------------------------------------------------
(* The reader is never cancelled twice, by whichever two of cancel(), the  *)
(* loop's two force-closes and the timer meet: the reason for the flag     *)
(* readerReleased (streaming.ts lines 52-57).                              *)
CancelledOnce == cancels <= 1

(* A stream that ends with [DONE] delivered every chunk the upstream's     *)
(* events called for, however its bytes were cut and even if the last line *)
(* lacked its newline (the end-of-stream flush).                           *)
NothingDropped == (out \in {"draining", "closed"} /\ ~closed) => written = owed

(* The relay closes only on a client that has gone.                        *)
ClosedOnlyWhenGone == closed => aborted \/ out = "cancelled"

(* When a deferred cancel ends with the relay letting the upstream go, the *)
(* tool block it was deferred for is complete in what was read, unless the *)
(* grace period ran out.                                                   *)
ToolCallCompleted == (pc = "done" /\ pendingCancel /\ cancels > 0 /\ ~graceOver) => ~inToolUse

(* After cancel() the relay ends, even if the upstream never sends another *)
(* byte: the loop is left, the keep-alive stopped and the upstream over or *)
(* let go.  Not if a write noticed the abort first while a tool block was  *)
(* open (see ForceTimerFrees).                                             *)
LetGo ==
    (out = "cancelled" /\ ~(closed /\ inToolUse)) ~>
        (pc = "done" /\ ~keepAlive /\ (upstream # "open" \/ cancels > 0))

(* What lines 355-357 promise of the force-close timer: "This timer        *)
(* enforces the ceiling regardless: it cancels the upstream reader and     *)
(* stops the keepalive even when no further bytes ever arrive".  It does   *)
(* not if a keep-alive noticed the abort before cancel() came.             *)
ForceTimerFrees == [][ForceTimer => ~keepAlive' /\ (cancels' > 0 \/ pc = "done")]_vars


(* However cancel(), abort, the loop and the timers meet: a relay lets go   *)
(* of upstream once, for a client that has gone, and not in the middle of   *)
(* the tool call it waits for.                                              *)
LetsGoProperly == CancelledOnce /\ ClosedOnlyWhenGone /\ ToolCallCompleted
=============================================================================
