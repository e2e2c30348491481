------------------------- MODULE StreamRelayProofs -------------------------
(***************************************************************************)
(* What holds of the stream relay for any number of events and any chunk   *)
(* size: it lets its client and the upstream go properly, by an invariant  *)
(* of its flags, and drops nothing, by one of what it holds.               *)
(***************************************************************************)
EXTENDS StreamRelay, NaturalsInduction, WellFoundedInduction, SequenceTheorems, TLAPS

FlagTypes ==
    /\ readerReleased \in BOOLEAN /\ inToolUse \in BOOLEAN /\ closed \in BOOLEAN
    /\ pendingCancel \in BOOLEAN /\ graceOver \in BOOLEAN /\ aborted \in BOOLEAN
    /\ pc \in {"read", "lines", "flush", "done"}
    /\ out \in {"readable", "draining", "closed", "errored", "cancelled"}
    /\ timer \in {"none", "armed", "queued"}
    /\ cancels \in {0, 1}

(* A deferred cancel is a cancel, and only it has a timer.                 *)
Deferral ==
    /\ pendingCancel => out = "cancelled"
    /\ timer # "none" => pendingCancel
    /\ timer = "queued" => graceOver

(* The reader is cancelled for a client that has left, together with       *)
(* closing, and never while the loop still has lines to process.           *)
Cancelling ==
    /\ cancels = 1 => closed /\ out = "cancelled"
    /\ pc \in {"lines", "flush"} => cancels = 0
    /\ (cancels = 1 /\ pendingCancel /\ ~graceOver) => ~inToolUse

(* The output ends only as the loop does, or by cancel().                  *)
OutputOpen == pc # "done" => out \in {"readable", "cancelled"}

RelayInv ==
    /\ FlagTypes
    /\ Deferral
    /\ Cancelling
    /\ OutputOpen
    /\ ClosedOnlyWhenGone

LEMMA RelayInvInit == Init => RelayInv
  <1> SUFFICES ASSUME Init PROVE RelayInv
    OBVIOUS
  <1>1. FlagTypes
    BY DEF Init, FlagTypes
  <1>2. Deferral
    BY DEF Init, Deferral
  <1>3. Cancelling
    BY DEF Init, Cancelling
  <1>4. OutputOpen /\ ClosedOnlyWhenGone
    BY DEF Init, OutputOpen, ClosedOnlyWhenGone
  <1> QED  BY <1>1, <1>2, <1>3, <1>4 DEF RelayInv

(* What a data chunk, [DONE] or a comment can do to `closed`.              *)
LEMMA AcceptsSound ==
  ASSUME RelayInv, pc # "done", ~Accepts
  PROVE  closed \/ aborted \/ out = "cancelled"
  BY DEF RelayInv, FlagTypes, OutputOpen, Accepts, CanEnqueue

(* The steps of the read loop.                                             *)
LEMMA RelayInvLoop ==
  ASSUME RelayInv, Loop
  PROVE  RelayInv'
  <1> USE DEF RelayInv, FlagTypes, Deferral, Cancelling, OutputOpen, ClosedOnlyWhenGone
  <1>1. CASE ProcessLine
    <2> DEFINE e == Head(lines)
    <2>0. /\ pc = "lines" /\ cancels = 0 /\ inToolUse' \in BOOLEAN
          /\ inToolUse' = ToolOpenAfter(e)
          /\ UNCHANGED <<pendingCancel, graceOver, out, aborted>>
      BY <1>1 DEF ProcessLine, TakeLine, Track, ToolOpenAfter, cancelVars
    <2>1. CASE BreakOut(e)
      BY <2>0, <2>1, AcceptsSound DEF BreakOut, Breaks, Write, Enqueue, Finish, ClearTimer
    <2>2. CASE ~Breaks(e) /\ pendingCancel /\ ~ToolOpenAfter(e) /\ ForceClose
      BY <2>0, <2>2 DEF ForceClose, Finish, ClearTimer
    <2>3. CASE PassOn(e)
      <3>1. UNCHANGED <<pc, timer, readerReleased, cancels>>
        BY <2>3 DEF PassOn, Stay
      <3>2. closed' \in BOOLEAN /\ ClosedOnlyWhenGone'
        BY <2>0, <2>3, AcceptsSound DEF PassOn, Write, Enqueue
      <3> QED  BY <2>0, <3>1, <3>2
    <2> QED  BY <1>1, <2>1, <2>2, <2>3 DEF ProcessLine, TakeLine
  <1>2. CASE NextRead
    <2>0. /\ pc = "lines" /\ cancels = 0
          /\ UNCHANGED <<inToolUse, pendingCancel, graceOver, out, aborted>>
      BY <1>2 DEF NextRead, parserVars, cancelVars
    <2>1. CASE closed /\ Finish /\ UNCHANGED <<closed, cancels>>
      BY <2>0, <2>1 DEF Finish, ClearTimer
    <2>2. CASE pendingCancel /\ graceOver /\ ForceClose
      BY <2>0, <2>2 DEF ForceClose, Finish, ClearTimer
    <2>3. CASE pc' = "read" /\ UNCHANGED closed /\ Stay
      BY <2>0, <2>3 DEF Stay
    <2> QED  BY <1>2, <2>1, <2>2, <2>3 DEF NextRead
  <1>3. CASE FlushLine
    <2> DEFINE e == Head(lines)
    <2>0. /\ pc = "flush" /\ cancels = 0 /\ inToolUse' \in BOOLEAN
          /\ UNCHANGED <<pendingCancel, graceOver, out, aborted>>
      BY <1>3 DEF FlushLine, Track, ToolOpenAfter, cancelVars
    <2>1. CASE BreakOut(e)
      BY <2>0, <2>1, AcceptsSound DEF BreakOut, Breaks, Write, Enqueue, Finish, ClearTimer
    <2>2. CASE PassOn(e)
      <3>1. UNCHANGED <<pc, timer, readerReleased, cancels>>
        BY <2>2 DEF PassOn, Stay
      <3>2. closed' \in BOOLEAN /\ ClosedOnlyWhenGone'
        BY <2>0, <2>2, AcceptsSound DEF PassOn, Write, Enqueue
      <3> QED  BY <2>0, <3>1, <3>2
    <2> QED  BY <1>3, <2>1, <2>2 DEF FlushLine
  <1>4. CASE EndStream
    BY <1>4, AcceptsSound
       DEF EndStream, CloseOutput, CanEnqueue, Finish, ClearTimer, parserVars, cancelVars
  <1> QED  BY <1>1, <1>2, <1>3, <1>4 DEF Loop

(* What the upstream's reader answers.                                     *)
LEMMA RelayInvReads ==
  ASSUME RelayInv, Reads
  PROVE  RelayInv'
  <1> USE DEF RelayInv, FlagTypes, Deferral, Cancelling, OutputOpen, ClosedOnlyWhenGone
  <1>1. CASE ReadChunk
    BY <1>1 DEF ReadChunk, Receive, Stay, parserVars, cancelVars
  <1>2. CASE ReadDone
    BY <1>2 DEF ReadDone, FinishReading, Finish, ClearTimer, parserVars, cancelVars
  <1>3. CASE ReadFails
    BY <1>3 DEF ReadFails, ErrorOutput, CanEnqueue, Finish, ClearTimer, parserVars, cancelVars
  <1> QED  BY <1>1, <1>2, <1>3 DEF Reads

(* The client's steps, and cancel().                                       *)
LEMMA RelayInvClient ==
  ASSUME RelayInv, Client
  PROVE  RelayInv'
  <1> USE DEF RelayInv, FlagTypes, Deferral, Cancelling, OutputOpen, ClosedOnlyWhenGone
  <1>1. CASE Abort
    BY <1>1 DEF Abort, loopVars, parserVars, cancelVars
  <1>2. CASE Drain
    BY <1>2 DEF Drain, loopVars, parserVars, cancelVars
  <1>3. CASE Cancel
    <2>1. CASE DeferCancel
      BY <1>3, <2>1 DEF Cancel, DeferCancel, loopVars, parserVars
    <2>2. CASE CancelNow
      BY <1>3, <2>2 DEF Cancel, CancelNow, ClearTimer, loopVars, parserVars
    <2> QED  BY <1>3, <2>1, <2>2 DEF Cancel
  <1> QED  BY <1>1, <1>2, <1>3 DEF Client

(* The keep-alive interval and the force-close timer.                      *)
LEMMA RelayInvTimers ==
  ASSUME RelayInv, Timers
  PROVE  RelayInv'
  <1> USE DEF RelayInv, FlagTypes, Deferral, Cancelling, OutputOpen, ClosedOnlyWhenGone
  <1>1. CASE KeepAlive
    <2>1. cancels = 1 => ~Accepts
      BY DEF Accepts
    <2> QED
      BY <1>1, <2>1, AcceptsSound DEF KeepAlive, Accepts, loopVars, parserVars, cancelVars
  <1>2. CASE GraceEnds
    BY <1>2 DEF GraceEnds, loopVars, parserVars
  <1>3. CASE ForceTimer
    <2>0. /\ graceOver /\ pendingCancel /\ pc \in {"read", "done"} /\ timer' = "none"
          /\ UNCHANGED <<pc, inToolUse, pendingCancel, graceOver, out, aborted>>
      BY <1>3 DEF ForceTimer, parserVars, cancelVars
    <2>1. CASE closed \/ readerReleased
      BY <1>3, <2>0, <2>1 DEF ForceTimer
    <2>2. CASE ~(closed \/ readerReleased)
      <3>1. cancels = 0 /\ cancels' = 1 /\ closed' = TRUE /\ readerReleased' = TRUE
        BY <1>3, <2>2 DEF ForceTimer
      <3> QED  BY <2>0, <3>1
    <2> QED  BY <2>1, <2>2
  <1> QED  BY <1>1, <1>2, <1>3 DEF Timers

(* The relay's flags agree with one another in every reachable state.      *)
THEOREM RelayInvariant == Spec => []RelayInv
  <1>1. RelayInv /\ [Next]_vars => RelayInv'
    <2> SUFFICES ASSUME RelayInv, [Next]_vars PROVE RelayInv'
      OBVIOUS
    <2>1. CASE Next
      BY <2>1, RelayInvLoop, RelayInvReads, RelayInvClient, RelayInvTimers DEF Next
    <2>2. CASE UNCHANGED vars
      BY <2>2 DEF vars, loopVars, parserVars, cancelVars, RelayInv, FlagTypes, Deferral,
                  Cancelling, OutputOpen, ClosedOnlyWhenGone
    <2> QED  BY <2>1, <2>2
  <1> QED  BY RelayInvInit, <1>1, PTL DEF Spec, SafetySpec

(* No two of cancel(), the loop's force-closes and the force-close timer   *)
(* both cancel the upstream reader (streaming.ts lines 52-57).             *)
THEOREM RelayCancelsOnce == Spec => []CancelledOnce
  <1>1. RelayInv => CancelledOnce
    BY DEF RelayInv, FlagTypes, CancelledOnce
  <1> QED  BY <1>1, RelayInvariant, PTL

(* A relay whose client is there is never closed.                          *)
THEOREM RelayServesClients == Spec => []ClosedOnlyWhenGone
  <1>1. RelayInv => ClosedOnlyWhenGone
    BY DEF RelayInv
  <1> QED  BY <1>1, RelayInvariant, PTL

(* A deferred cancel that lets the upstream go within the grace period has *)
(* read the tool block to its end (streaming.ts lines 59-60).              *)
THEOREM RelayCompletesToolCall == Spec => []ToolCallCompleted
  <1>1. RelayInv => ToolCallCompleted
    BY DEF RelayInv, FlagTypes, Cancelling, ToolCallCompleted
  <1> QED  BY <1>1, RelayInvariant, PTL

(* However cancel(), abort, the loop and the timers meet, the relay lets    *)
(* the upstream go properly.                                                *)
THEOREM RelayLetsGoProperly == Spec => []LetsGoProperly
  <1> QED  BY RelayCancelsOnce, RelayServesClients, RelayCompletesToolCall, PTL
           DEF LetsGoProperly

----------------------------------------------------------------------------
(* Nothing is dropped.  What a relay that has not left still holds, lines   *)
(* and the retained one, leads from where its parser is to where the        *)
(* upstream is, and the events on that way are the ones owed and not yet    *)
(* written.                                                                 *)

Kind == Block \cup {"none", "final"}
Position == [block : Kind, owed : Nat]

(* The positions q are those of the events es, one after another.           *)
Along(q, es) ==
    \A i \in 1 .. Len(es) :
        /\ Follows(q[i-1].block, es[i])
        /\ q[i].block = After(q[i-1].block, es[i])
        /\ q[i].owed = q[i-1].owed + (IF Visible(q[i-1].block, es[i]) THEN 1 ELSE 0)

Waiting == lines \o buffer

Parsed(position) ==
    /\ inToolUse = (position.block = "tool") /\ thinking = (position.block = "thinking")
    /\ written <= position.owed
    /\ ~closed /\ ~pendingCancel => written = position.owed

WayAhead ==
    \E q \in [0 .. Len(Waiting) -> Position] :
        /\ Along(q, Waiting) /\ Parsed(q[0])
        /\ q[Len(Waiting)].block = block /\ q[Len(Waiting)].owed = owed

Counts ==
    /\ lines \in Seq(Event) /\ buffer \in Seq(Event) /\ Len(buffer) <= 1
    /\ upstream \in {"open", "ended", "failed"} /\ block \in Kind
    /\ events \in 0 .. MaxEvents /\ owed \in 0 .. events /\ written \in 0 .. owed
    /\ thinking \in BOOLEAN /\ keepAlive \in BOOLEAN

Held ==
    /\ pc = "read" => lines = <<>>
    /\ pc = "flush" => buffer = <<>>

Delivered == out \in {"draining", "closed"} /\ ~closed => written = owed

WayInv == Counts /\ Held /\ (pc # "done" => WayAhead) /\ Delivered

----------------------------------------------------------------------------
(* Induction over the natural numbers, for a set.                           *)
LEMMA SetInduction ==
  ASSUME NEW S, 0 \in S, \A n \in Nat : n \in S => n + 1 \in S
  PROVE  Nat \subseteq S
<1> DEFINE Less == {ss \in Nat \X Nat : ss[1] < ss[2]}
<1>1. IsWellFoundedOn(Less, Nat)
  BY NatLessThanWellFounded, Zenon DEF OpToRel
<1> SUFFICES ASSUME Nat \ S # {} PROVE FALSE
  OBVIOUS
<1>2. PICK i \in Nat \ S : \A j \in Nat \ S : ~(<<j, i>> \in Less)
  <2>1. Nat \ S \subseteq Nat
    OBVIOUS
  <2> QED
    BY <1>1, <2>1, WFMin
<1>3. i # 0 /\ i - 1 \in Nat /\ i - 1 < i
  BY <1>2
<1>4. i - 1 \in S
  <2>1. <<i - 1, i>> \in Nat \X Nat /\ <<i - 1, i>>[1] = i - 1 /\ <<i - 1, i>>[2] = i
    BY <1>3
  <2> QED
    BY <1>2, <1>3, <2>1
<1> QED
  BY <1>2, <1>3, <1>4

(* A step of the upstream.                                                  *)
LEMMA StepsOn ==
  ASSUME NEW b \in Kind, NEW e \in Event
  PROVE  After(b, e) \in Kind
  BY DEF Kind, Event, Block, After

Moved(p, e) == [block |-> After(p.block, e),
                owed |-> p.owed + (IF Visible(p.block, e) THEN 1 ELSE 0)]

LEMMA NextPosition ==
  ASSUME NEW p \in Position, NEW e \in Event
  PROVE  /\ Moved(p, e) \in Position
         /\ Moved(p, e).block = After(p.block, e)
         /\ Moved(p, e).owed = p.owed + (IF Visible(p.block, e) THEN 1 ELSE 0)
<1>1. After(p.block, e) \in Kind
  BY StepsOn DEF Position
<1>2. p.owed + (IF Visible(p.block, e) THEN 1 ELSE 0) \in Nat
  BY DEF Position
<1> QED
  BY <1>1, <1>2 DEF Moved, Position

(* The positions of a chunk's events, as Sent computes them.                *)
LEMMA SentAlong ==
  ASSUME NEW es \in Seq(Event), block \in Kind, owed \in Nat
  PROVE  /\ Sent(es) \in [0 .. Len(es) -> Position]
         /\ Sent(es)[0] = [block |-> block, owed |-> owed]
         /\ \A i \in 1 .. Len(es) : Sent(es)[i] = Moved(Sent(es)[i-1], es[i])
<1> DEFINE start == [block |-> block, owed |-> owed]
           Computes(n, f) ==
              f = [i \in 0 .. n |-> IF i = 0 THEN start
                                    ELSE [block |-> After(f[i-1].block, es[i]),
                                          owed  |-> f[i-1].owed + (IF Visible(f[i-1].block, es[i]) THEN 1 ELSE 0)]]
           Good(n, f) ==
              /\ f \in [0 .. n -> Position] /\ f[0] = start
              /\ \A i \in 1 .. n : f[i] = Moved(f[i-1], es[i])
           S == {n \in Nat : n <= Len(es) => \E f : Good(n, f)}
<1>0. start \in Position
  BY DEF Position
<1> HIDE DEF start
<1>1. 0 \in S
  <2>1. Good(0, [i \in 0 .. 0 |-> start])
    BY <1>0
  <2> QED
    BY <2>1
<1>2. ASSUME NEW n \in Nat, n \in S PROVE n + 1 \in S
  <2> SUFFICES ASSUME n + 1 <= Len(es) PROVE \E f : Good(n + 1, f)
    OBVIOUS
  <2>1. n <= Len(es) /\ n + 1 \in 1 .. Len(es) /\ es[n + 1] \in Event
    BY <1>2
  <2>2. PICK f : Good(n, f)
    BY <1>2, <2>1
  <2> DEFINE g == [i \in 0 .. n + 1 |-> IF i <= n THEN f[i] ELSE Moved(f[n], es[n + 1])]
  <2>3. f[n] \in Position
    BY <2>2
  <2>4. Moved(f[n], es[n + 1]) \in Position
    BY <2>1, <2>3, NextPosition
  <2>5. g \in [0 .. n + 1 -> Position]
    BY <2>2, <2>4
  <2>6. g[0] = start
    BY <2>2
  <2>7. ASSUME NEW i \in 1 .. n + 1 PROVE g[i] = Moved(g[i-1], es[i])
    <3>1. CASE i <= n
      BY <2>2, <3>1
    <3>2. CASE i = n + 1
      BY <3>2
    <3> QED
      BY <3>1, <3>2
  <2> QED
    BY <2>5, <2>6, <2>7
<1>3. Len(es) \in S
  <2> HIDE DEF S
  <2> QED
    BY <1>1, <1>2, SetInduction
<1>4. PICK f : Good(Len(es), f)
  BY <1>3
<1>5. Computes(Len(es), f)
  <2>1. \A i \in 0 .. Len(es) : f[i] = IF i = 0 THEN start ELSE Moved(f[i-1], es[i])
    BY <1>4, SMTT(30)
  <2> QED
    BY <1>4, <2>1 DEF Moved
<1>6. Computes(Len(es), Sent(es))
  BY <1>5 DEF Sent, start
<1> DEFINE h == Sent(es)
<1>7. h[0] = start /\ DOMAIN h = 0 .. Len(es) /\ h = [i \in 0 .. Len(es) |-> h[i]]
  BY <1>6
<1>8. ASSUME NEW i \in 1 .. Len(es) PROVE h[i] = Moved(h[i-1], es[i])
  <2>1. i \in 0 .. Len(es) /\ i # 0
    OBVIOUS
  <2>2. h = [j \in 0 .. Len(es) |-> IF j = 0 THEN start
                                    ELSE [block |-> After(h[j-1].block, es[j]),
                                          owed  |-> h[j-1].owed + (IF Visible(h[j-1].block, es[j]) THEN 1 ELSE 0)]]
    BY <1>6
  <2> HIDE DEF h
  <2> QED
    BY <2>1, <2>2 DEF Moved
<1> DEFINE T == {n \in Nat : n <= Len(es) => h[n] \in Position}
<1> HIDE DEF h
<1>9. 0 \in T
  BY <1>0, <1>7
<1>10. ASSUME NEW n \in Nat, n \in T PROVE n + 1 \in T
  <2> SUFFICES ASSUME n + 1 <= Len(es) PROVE h[n + 1] \in Position
    OBVIOUS
  <2>1. n <= Len(es) /\ n + 1 \in 1 .. Len(es) /\ es[n + 1] \in Event /\ (n + 1) - 1 = n
    OBVIOUS
  <2>2. h[n + 1] = Moved(h[n], es[n + 1]) /\ h[n] \in Position
    BY <1>8, <1>10, <2>1
  <2> QED
    BY <2>1, <2>2, NextPosition
<1>11. Nat \subseteq T
  <2> HIDE DEF T
  <2> QED
    BY <1>9, <1>10, SetInduction
<1>12. \A i \in 0 .. Len(es) : h[i] \in Position
  BY <1>11
<1>13. h \in [0 .. Len(es) -> Position]
  BY <1>7, <1>12
<1> QED
  BY <1>7, <1>8, <1>13 DEF h, start

LEMMA LegalAlong ==
  ASSUME NEW es \in Seq(Event), block \in Kind, owed \in Nat, Legal(es)
  PROVE  /\ Sent(es) \in [0 .. Len(es) -> Position] /\ Along(Sent(es), es)
         /\ Sent(es)[0].block = block /\ Sent(es)[0].owed = owed
<1>1. ASSUME NEW i \in 1 .. Len(es)
      PROVE  /\ Follows(Sent(es)[i-1].block, es[i])
             /\ Sent(es)[i].block = After(Sent(es)[i-1].block, es[i])
             /\ Sent(es)[i].owed = Sent(es)[i-1].owed
                    + (IF Visible(Sent(es)[i-1].block, es[i]) THEN 1 ELSE 0)
  <2>1. es[i] \in Event /\ i - 1 \in 0 .. Len(es) /\ i \in DOMAIN es
    OBVIOUS
  <2>2. Sent(es)[i-1] \in Position /\ Sent(es)[i] = Moved(Sent(es)[i-1], es[i])
    BY <2>1, SentAlong
  <2> QED
    BY <2>1, <2>2, NextPosition DEF Legal
<1>2. Sent(es) \in [0 .. Len(es) -> Position] /\ Sent(es)[0] = [block |-> block, owed |-> owed]
  BY SentAlong
<1> QED
  BY <1>1, <1>2 DEF Along

(* What is owed grows by at most one for each event.                        *)
LEMMA OwedGrows ==
  ASSUME NEW es \in Seq(Event), NEW q \in [0 .. Len(es) -> Position], Along(q, es)
  PROVE  q[0].owed <= q[Len(es)].owed /\ q[Len(es)].owed <= q[0].owed + Len(es)
<1> DEFINE S == {n \in Nat : n <= Len(es) => q[0].owed <= q[n].owed /\ q[n].owed <= q[0].owed + n}
<1>1. 0 \in S
  <2>1. q[0] \in Position
    OBVIOUS
  <2> QED
    BY <2>1 DEF Position
<1>2. ASSUME NEW n \in Nat, n \in S PROVE n + 1 \in S
  <2> SUFFICES ASSUME n + 1 <= Len(es)
               PROVE  q[0].owed <= q[n + 1].owed /\ q[n + 1].owed <= q[0].owed + (n + 1)
    OBVIOUS
  <2>1. n + 1 \in 1 .. Len(es) /\ (n + 1) - 1 = n /\ n \in 0 .. Len(es) /\ 0 \in 0 .. Len(es)
    OBVIOUS
  <2>2. q[n].owed \in Nat /\ q[0].owed \in Nat
    BY <2>1 DEF Position
  <2>3. q[n + 1].owed = q[n].owed + (IF Visible(q[n].block, es[n + 1]) THEN 1 ELSE 0)
    BY <2>1 DEF Along
  <2>4. q[0].owed <= q[n].owed /\ q[n].owed <= q[0].owed + n
    BY <1>2
  <2>5. CASE Visible(q[n].block, es[n + 1])
    BY <2>2, <2>3, <2>4, <2>5
  <2>6. CASE ~Visible(q[n].block, es[n + 1])
    BY <2>2, <2>3, <2>4, <2>6
  <2> QED
    BY <2>5, <2>6
<1>3. Len(es) \in S
  <2> HIDE DEF S
  <2> QED
    BY <1>1, <1>2, SetInduction
<1> QED
  BY <1>3

(* A way and another from where it ends make one way.                       *)
LEMMA WaysJoin ==
  ASSUME NEW es \in Seq(Event), NEW q \in [0 .. Len(es) -> Position], Along(q, es),
         NEW fs \in Seq(Event), NEW r \in [0 .. Len(fs) -> Position], Along(r, fs),
         r[0] = q[Len(es)]
  PROVE  \E w \in [0 .. Len(es \o fs) -> Position] :
            Along(w, es \o fs) /\ w[0] = q[0] /\ w[Len(es \o fs)] = r[Len(fs)]
<1> DEFINE n == Len(es)
           m == Len(fs)
           w == [i \in 0 .. n + m |-> IF i <= n THEN q[i] ELSE r[i - n]]
<1>1. Len(es \o fs) = n + m /\ n \in Nat /\ m \in Nat
  OBVIOUS
<1>2. w \in [0 .. n + m -> Position]
  <2>1. \A i \in 0 .. n + m : ~(i <= n) => i - n \in 0 .. m
    BY <1>1
  <2> QED
    BY <1>1, <2>1
<1>3. ASSUME NEW i \in 1 .. n + m
      PROVE  /\ Follows(w[i-1].block, (es \o fs)[i])
             /\ w[i].block = After(w[i-1].block, (es \o fs)[i])
             /\ w[i].owed = w[i-1].owed + (IF Visible(w[i-1].block, (es \o fs)[i]) THEN 1 ELSE 0)
  <2>1. CASE i <= n
    <3>1. w[i-1] = q[i-1] /\ w[i] = q[i] /\ (es \o fs)[i] = es[i] /\ i \in 1 .. n
      BY <1>1, <2>1
    <3> QED
      BY <3>1 DEF Along
  <2>2. CASE ~(i <= n)
    <3>1. (es \o fs)[i] = fs[i - n] /\ w[i] = r[i - n] /\ i - n \in 1 .. m
      BY <1>1, <2>2
    <3>2. w[i-1] = r[(i - n) - 1]
      <4>1. CASE i - 1 <= n
        <5>1. i - 1 = n /\ (i - n) - 1 = 0 /\ i - 1 \in 0 .. n + m
          BY <1>1, <2>2, <4>1
        <5> QED
          BY <1>1, <5>1
      <4>2. CASE ~(i - 1 <= n)
        <5>1. i - 1 \in 0 .. n + m /\ (i - 1) - n = (i - n) - 1
          BY <1>1
        <5> QED
          BY <1>1, <4>2, <5>1
      <4> QED
        BY <4>1, <4>2
    <3> QED
      BY <3>1, <3>2 DEF Along
  <2> QED
    BY <2>1, <2>2
<1>4. w[0] = q[0] /\ w[n + m] = r[m]
  <2>1. CASE m = 0
    BY <1>1, <2>1
  <2>2. CASE m # 0
    BY <1>1, <2>2
  <2> QED
    BY <2>1, <2>2
<1> HIDE DEF w
<1>5. Along(w, es \o fs)
  BY <1>1, <1>3 DEF Along
<1> QED
  BY <1>1, <1>2, <1>4, <1>5

(* The way after its first event.                                           *)
LEMMA WayOn ==
  ASSUME NEW es \in Seq(Event), es # <<>>, NEW q \in [0 .. Len(es) -> Position], Along(q, es)
  PROVE  \E w \in [0 .. Len(Tail(es)) -> Position] :
            Along(w, Tail(es)) /\ w[0] = q[1] /\ w[Len(Tail(es))] = q[Len(es)]
<1> DEFINE n == Len(es)
           w == [i \in 0 .. n - 1 |-> q[i + 1]]
<1>1. n \in Nat \ {0} /\ Len(Tail(es)) = n - 1
  BY EmptySeq
<1>2. w \in [0 .. n - 1 -> Position] /\ w[0] = q[1] /\ w[n - 1] = q[n]
  BY <1>1
<1>3. ASSUME NEW i \in 1 .. n - 1
      PROVE  /\ Follows(w[i-1].block, Tail(es)[i])
             /\ w[i].block = After(w[i-1].block, Tail(es)[i])
             /\ w[i].owed = w[i-1].owed + (IF Visible(w[i-1].block, Tail(es)[i]) THEN 1 ELSE 0)
  <2>1. w[i-1] = q[(i + 1) - 1] /\ w[i] = q[i + 1] /\ Tail(es)[i] = es[i + 1] /\ i + 1 \in 1 .. n
    BY <1>1
  <2> QED
    BY <2>1 DEF Along
<1> HIDE DEF w
<1>4. Along(w, Tail(es))
  BY <1>1, <1>3 DEF Along
<1> QED
  BY <1>1, <1>2, <1>4

LEMMA WayInvInit == Init => WayInv
<1> SUFFICES ASSUME Init PROVE WayInv
  OBVIOUS
<1>1. Counts /\ Held /\ Delivered
  <2>1. 0 \in 0 .. MaxEvents /\ 0 \in 0 .. 0
    BY MaxEventsAssumption
  <2>2. <<>> \in Seq(Event) /\ Len(<<>>) <= 1
    OBVIOUS
  <2> QED
    BY <2>1, <2>2 DEF Init, Counts, Held, Delivered, Kind
<1>2. Waiting = <<>> /\ Len(Waiting) = 0
  BY DEF Init, Waiting
<1> DEFINE q == [i \in 0 .. 0 |-> [block |-> "none", owed |-> 0]]
<1>3. q \in [0 .. 0 -> Position] /\ q[0].block = "none" /\ q[0].owed = 0
  BY DEF Position, Kind
<1> HIDE DEF q
<1>4. Along(q, Waiting)
  BY <1>2 DEF Along
<1>5. Parsed(q[0])
  <2>1. inToolUse = FALSE /\ thinking = FALSE /\ written = 0
    BY DEF Init
  <2>2. (q[0].block = "tool") = FALSE /\ (q[0].block = "thinking") = FALSE
    BY <1>3
  <2>3. written <= q[0].owed /\ written = q[0].owed
    BY <1>3, <2>1
  <2> QED
    BY <2>1, <2>2, <2>3 DEF Parsed
<1>6. WayAhead
  BY <1>2, <1>3, <1>4, <1>5 DEF WayAhead, Init
<1> QED
  BY <1>1, <1>6 DEF WayInv

(* A step that moves neither the upstream nor the parser, nor what waits.   *)
LEMMA WayStays ==
  ASSUME WayAhead, UNCHANGED <<inToolUse, thinking, written, block, owed>>, Waiting' = Waiting,
         closed => closed', pendingCancel => pendingCancel'
  PROVE  WayAhead'
<1>1. PICK q \in [0 .. Len(Waiting) -> Position] :
         /\ Along(q, Waiting) /\ Parsed(q[0])
         /\ q[Len(Waiting)].block = block /\ q[Len(Waiting)].owed = owed
  BY DEF WayAhead
<1>2. Parsed(q[0])'
  BY <1>1 DEF Parsed
<1> QED
  BY <1>1, <1>2 DEF WayAhead

(* The next event of what waits is processed, and its chunk not refused.    *)
LEMMA EventPasses ==
  ASSUME FlagTypes, Counts, WayAhead, lines # <<>>, Track(Head(lines)), PassOn(Head(lines)),
         UNCHANGED <<buffer, block, owed, pendingCancel>>
  PROVE  WayAhead' /\ written' \in 0 .. owed
<1> DEFINE e == Head(lines)
<1>1. Waiting \in Seq(Event) /\ Waiting # <<>> /\ Waiting[1] = e /\ e \in Event
      /\ Tail(Waiting) = Tail(lines) \o buffer /\ Len(Waiting) \in Nat \ {0}
  BY DEF Counts, Waiting
<1>2. Waiting' = Tail(Waiting)
  BY <1>1 DEF Waiting, PassOn
<1>3. PICK q \in [0 .. Len(Waiting) -> Position] :
         /\ Along(q, Waiting) /\ Parsed(q[0])
         /\ q[Len(Waiting)].block = block /\ q[Len(Waiting)].owed = owed
  BY DEF WayAhead
<1>4. /\ Follows(q[0].block, e) /\ q[1].block = After(q[0].block, e)
      /\ q[1].owed = q[0].owed + (IF Visible(q[0].block, e) THEN 1 ELSE 0)
  BY <1>1, <1>3 DEF Along
<1>5. q[0].block \in Kind /\ q[0].owed \in Nat /\ q[1] \in Position
  <2>1. 0 \in 0 .. Len(Waiting) /\ 1 \in 0 .. Len(Waiting)
    BY <1>1
  <2>2. q[0] \in Position /\ q[1] \in Position
    BY <1>3, <2>1
  <2> QED
    BY <2>2 DEF Position
<1>6. Writes(e) <=> Visible(q[0].block, e)
  BY <1>3 DEF Writes, Visible, Parsed
<1>7. inToolUse' = (q[1].block = "tool") /\ thinking' = (q[1].block = "thinking")
  BY <1>1, <1>3, <1>4, <1>5
     DEF Track, ToolOpenAfter, Parsed, Follows, After, Event, Block, Kind
<1>8. /\ written' <= q[1].owed /\ written' \in Nat
      /\ ~closed' /\ ~pendingCancel' => written' = q[1].owed
  <2>1. written \in Nat
    BY DEF Counts
  <2>2. CASE Writes(e)
    <3>1. Accepts /\ closed' = FALSE /\ q[1].owed = q[0].owed + 1
          /\ written' = IF ~pendingCancel THEN written + 1 ELSE written
      BY <1>4, <1>6, <2>2 DEF PassOn, Breaks, Write, Enqueue
    <3>2. ~closed
      BY <3>1 DEF Accepts
    <3> QED
      BY <1>3, <1>5, <2>1, <3>1, <3>2 DEF Parsed
  <2>3. CASE ~Writes(e)
    <3>1. UNCHANGED <<closed, written>> /\ q[1].owed = q[0].owed
      BY <1>4, <1>5, <1>6, <2>3 DEF PassOn, Write
    <3> QED
      BY <1>3, <2>1, <3>1 DEF Parsed
  <2> QED
    BY <2>2, <2>3
<1>9. Parsed(q[1])'
  BY <1>7, <1>8 DEF Parsed
<1>10. PICK w \in [0 .. Len(Tail(Waiting)) -> Position] :
         Along(w, Tail(Waiting)) /\ w[0] = q[1] /\ w[Len(Tail(Waiting))] = q[Len(Waiting)]
  BY <1>1, <1>3, WayOn
<1>11. Tail(Waiting) \in Seq(Event)
  BY <1>1
<1>12. q[1].owed <= owed
  BY <1>3, <1>10, <1>11, OwedGrows
<1>13. written' \in 0 .. owed
  BY <1>5, <1>8, <1>12 DEF Counts, Position
<1>14. WayAhead'
  BY <1>2, <1>3, <1>9, <1>10 DEF WayAhead
<1> QED
  BY <1>13, <1>14

LEMMA WayInvLoop ==
  ASSUME RelayInv, WayInv, Loop
  PROVE  WayInv'
<1>0. FlagTypes /\ OutputOpen /\ Counts /\ Held /\ (pc # "done" => WayAhead) /\ Delivered
  BY DEF RelayInv, WayInv
<1>1. ASSUME lines # <<>>, pc \in {"lines", "flush"}, Track(Head(lines)),
             BreakOut(Head(lines)) \/ PassOn(Head(lines)),
             UNCHANGED <<upstreamVars, buffer, cancelVars, out, aborted>>
      PROVE  WayInv'
  <2>1. out' \notin {"draining", "closed"}
    BY <1>0, <1>1 DEF OutputOpen
  <2>2. lines' \in Seq(Event)
    BY <1>0, <1>1 DEF BreakOut, PassOn, Counts
  <2>3. thinking' \in BOOLEAN
    BY <1>1 DEF Track
  <2>4. keepAlive' \in BOOLEAN
    BY <1>0, <1>1 DEF BreakOut, PassOn, Finish, Stay, Counts
  <2>5. CASE BreakOut(Head(lines))
    <3>1. pc' = "done" /\ written' = written
      BY <1>0, <2>5 DEF BreakOut, Breaks, Write, Enqueue, Finish
    <3> QED
      BY <1>0, <1>1, <2>1, <2>2, <2>3, <2>4, <3>1
         DEF WayInv, Counts, Held, Delivered, upstreamVars, cancelVars
  <2>6. CASE PassOn(Head(lines))
    <3>1. UNCHANGED <<buffer, block, owed, pendingCancel>>
      BY <1>1 DEF upstreamVars, cancelVars
    <3>2. WayAhead' /\ written' \in 0 .. owed
      BY <1>0, <1>1, <2>6, <3>1, EventPasses
    <3>3. pc' = pc
      BY <2>6 DEF PassOn
    <3> QED
      BY <1>0, <1>1, <2>1, <2>2, <2>3, <2>4, <3>2, <3>3
         DEF WayInv, Counts, Held, Delivered, upstreamVars, cancelVars
  <2> QED
    BY <1>1, <2>5, <2>6
<1>2. CASE ProcessLine
  <2> DEFINE e == Head(lines)
  <2>1. CASE BreakOut(e) \/ PassOn(e)
    BY <1>1, <1>2, <2>1 DEF ProcessLine, TakeLine
  <2>2. CASE ForceClose /\ UNCHANGED <<lines, written>>
    <3>1. pc' = "done" /\ keepAlive' = FALSE /\ closed' = TRUE
      BY <2>2 DEF ForceClose, Finish
    <3>2. thinking' \in BOOLEAN
      BY <1>2 DEF ProcessLine, TakeLine, Track
    <3> QED
      BY <1>0, <1>2, <2>2, <3>1, <3>2
         DEF ProcessLine, TakeLine, WayInv, Counts, Held, Delivered, upstreamVars
  <2> QED
    BY <1>2, <2>1, <2>2 DEF ProcessLine, TakeLine
<1>3. CASE FlushLine
  BY <1>1, <1>3 DEF FlushLine
<1>4. CASE NextRead
  <2>1. UNCHANGED <<lines, buffer, upstream, block, events, owed, thinking, written, out>>
    BY <1>4 DEF NextRead, upstreamVars, parserVars
  <2>2. pc' \in {"done", "read"} /\ lines = <<>> /\ keepAlive' \in BOOLEAN /\ pc = "lines"
        /\ (closed => closed')
    <3>1. CASE closed /\ Finish /\ UNCHANGED closed
      BY <1>0, <1>4, <3>1 DEF NextRead, Finish
    <3>2. CASE ~closed /\ ForceClose
      BY <1>0, <1>4, <3>2 DEF NextRead, ForceClose, Finish
    <3>3. CASE pc' = "read" /\ UNCHANGED closed /\ Stay
      BY <1>0, <1>4, <3>3 DEF NextRead, Stay, Counts
    <3> QED
      BY <1>4, <3>1, <3>2, <3>3 DEF NextRead
  <2>3. WayAhead'
    <3>1. Waiting' = Waiting /\ UNCHANGED <<inToolUse, pendingCancel>>
      BY <1>4, <2>1 DEF NextRead, parserVars, cancelVars, Waiting
    <3> QED
      BY <1>0, <2>1, <2>2, <3>1, WayStays
  <2> QED
    BY <1>0, <2>1, <2>2, <2>3 DEF WayInv, Counts, Held, Delivered
<1>5. CASE EndStream
  <2>1. /\ pc' = "done" /\ keepAlive' = FALSE /\ pc = "flush" /\ Waiting = <<>>
        /\ UNCHANGED <<lines, buffer, upstream, block, events, owed, thinking, written, pendingCancel>>
    BY <1>0, <1>5 DEF EndStream, Finish, Held, Waiting, upstreamVars, parserVars, cancelVars
  <2>2. Delivered'
    <3> SUFFICES ASSUME out' \in {"draining", "closed"}, ~closed' PROVE written = owed
      BY <2>1 DEF Delivered
    <3>1. out # "cancelled"
      BY <1>5 DEF EndStream, CloseOutput, CanEnqueue
    <3>2. ~closed /\ ~pendingCancel
      BY <1>5, <3>1 DEF EndStream, Accepts, RelayInv, Deferral
    <3>3. PICK q \in [0 .. Len(Waiting) -> Position] :
            Parsed(q[0]) /\ q[Len(Waiting)].owed = owed
      BY <1>0, <2>1 DEF WayAhead
    <3> QED
      BY <2>1, <3>2, <3>3 DEF Parsed
  <2> QED
    BY <1>0, <2>1, <2>2 DEF WayInv, Counts, Held
<1> QED
  BY <1>2, <1>3, <1>4, <1>5 DEF Loop

LEMMA WayInvReads ==
  ASSUME RelayInv, WayInv, Reads
  PROVE  WayInv'
<1>0. FlagTypes /\ OutputOpen /\ Counts /\ Held /\ (pc # "done" => WayAhead) /\ Delivered
  BY DEF RelayInv, WayInv
<1>1. CASE ReadChunk
  <2>1. PICK es \in Chunk, cut \in BOOLEAN :
          /\ es # <<>> \/ (buffer # <<>> /\ ~cut)
          /\ Receive(es)
          /\ buffer' = IF cut THEN <<Last(es)>> ELSE <<>>
          /\ lines' = buffer \o (IF cut THEN Front(es) ELSE es)
    BY <1>1 DEF ReadChunk
  <2>2. es \in Seq(Event) /\ Len(es) \in Nat
    BY MaxChunkAssumption DEF Chunk
  <2>3. cut => es # <<>>
    BY <2>1
  <2>4. /\ buffer' \in Seq(Event) /\ Len(buffer') <= 1 /\ lines' \in Seq(Event)
        /\ Waiting' = buffer \o es
    <3>1. CASE cut
      <4>1. /\ Last(es) \in Event /\ Front(es) \in Seq(Event) /\ Front(es) \o <<Last(es)>> = es
        BY <2>2, <2>3, <3>1, EmptySeq DEF Last, Front
      <4>2. buffer' = <<Last(es)>> /\ lines' = buffer \o Front(es)
        BY <2>1, <3>1
      <4>3. (buffer \o Front(es)) \o <<Last(es)>> = buffer \o (Front(es) \o <<Last(es)>>)
        BY <1>0, <4>1 DEF Counts
      <4>4. Waiting' = buffer \o es
        BY <4>1, <4>2, <4>3 DEF Waiting
      <4>5. buffer' \in Seq(Event) /\ Len(buffer') <= 1
        BY <4>1, <4>2
      <4>6. lines' \in Seq(Event)
        BY <1>0, <4>1, <4>2 DEF Counts
      <4> QED
        BY <4>4, <4>5, <4>6
    <3>2. CASE ~cut
      <4>1. buffer' = <<>> /\ lines' = buffer \o es
        BY <2>1, <3>2
      <4>2. buffer \o es \in Seq(Event) /\ (buffer \o es) \o <<>> = buffer \o es
        BY <1>0, <2>2 DEF Counts
      <4>3. Waiting' = buffer \o es
        BY <4>1, <4>2 DEF Waiting
      <4>4. buffer' \in Seq(Event) /\ Len(buffer') <= 1
        BY <4>1
      <4> QED
        BY <4>1, <4>2, <4>3, <4>4
    <3> QED
      BY <3>1, <3>2
  <2>5. /\ pc = "read" /\ pc' = "lines" /\ events + Len(es) <= MaxEvents /\ Legal(es)
        /\ block' = Sent(es)[Len(es)].block /\ owed' = Sent(es)[Len(es)].owed
        /\ events' = events + Len(es)
        /\ UNCHANGED <<upstream, inToolUse, thinking, pendingCancel, closed, out, written, keepAlive>>
    BY <2>1 DEF Receive, Stay, parserVars, cancelVars
  <2>6. block \in Kind /\ owed \in Nat /\ events \in Nat /\ owed <= events /\ written <= owed
    BY <1>0, MaxEventsAssumption DEF Counts
  <2>7. /\ Sent(es) \in [0 .. Len(es) -> Position] /\ Along(Sent(es), es)
        /\ Sent(es)[0].block = block /\ Sent(es)[0].owed = owed
    BY <2>2, <2>5, <2>6, LegalAlong
  <2>8. Sent(es)[Len(es)] \in Position /\ Sent(es)[0] \in Position
    BY <2>2, <2>7
  <2>9. owed <= owed' /\ owed' <= owed + Len(es) /\ owed' \in Nat /\ block' \in Kind
    BY <2>2, <2>5, <2>7, <2>8, OwedGrows DEF Position
  <2>10. Counts'
    <3>1. events' \in 0 .. MaxEvents /\ owed' \in 0 .. events' /\ written' \in 0 .. owed'
      BY <1>0, <2>2, <2>5, <2>6, <2>9, MaxEventsAssumption DEF Counts
    <3> QED
      BY <1>0, <2>4, <2>5, <2>9, <3>1 DEF Counts
  <2>11. WayAhead'
    <3>1. Waiting = buffer /\ buffer \in Seq(Event)
      BY <1>0, <2>5 DEF Held, Waiting, Counts
    <3>2. PICK q \in [0 .. Len(buffer) -> Position] :
            /\ Along(q, buffer) /\ Parsed(q[0])
            /\ q[Len(buffer)].block = block /\ q[Len(buffer)].owed = owed
      BY <1>0, <2>5, <3>1 DEF WayAhead
    <3>3. Sent(es)[0] = q[Len(buffer)]
      <4>1. q[Len(buffer)] \in Position
        BY <3>1
      <4> QED
        BY <2>7, <2>8, <3>2, <4>1 DEF Position
    <3>4. PICK w \in [0 .. Len(buffer \o es) -> Position] :
            Along(w, buffer \o es) /\ w[0] = q[0] /\ w[Len(buffer \o es)] = Sent(es)[Len(es)]
      BY <2>2, <2>7, <3>1, <3>2, <3>3, WaysJoin
    <3>5. Parsed(w[0])'
      BY <2>5, <3>2, <3>4 DEF Parsed
    <3> QED
      BY <2>4, <2>5, <3>4, <3>5 DEF WayAhead
  <2>12. Delivered'
    BY <1>0, <2>5 DEF OutputOpen, Delivered
  <2> QED
    BY <2>5, <2>10, <2>11, <2>12 DEF WayInv, Held
<1>2. CASE ReadDone
  <2>1. /\ pc = "read" /\ UNCHANGED <<block, events, owed, inToolUse, thinking, pendingCancel, closed, out, written>>
        /\ upstream' \in {"open", "ended", "failed"}
    BY <1>0, <1>2 DEF ReadDone, FinishReading, parserVars, cancelVars, Counts
  <2>2. CASE closed /\ Finish /\ UNCHANGED <<lines, buffer>>
    BY <1>0, <2>1, <2>2 DEF Finish, WayInv, Counts, Held, Delivered
  <2>3. CASE pc' = "flush" /\ lines' = buffer /\ buffer' = <<>> /\ UNCHANGED keepAlive
    <3>1. Waiting' = Waiting
      BY <1>0, <2>1, <2>3 DEF Held, Waiting, Counts
    <3>2. WayAhead'
      BY <1>0, <2>1, <3>1, WayStays
    <3> QED
      BY <1>0, <2>1, <2>3, <3>2 DEF WayInv, Counts, Held, Delivered
  <2> QED
    BY <1>2, <2>2, <2>3 DEF ReadDone, FinishReading
<1>3. CASE ReadFails
  <2>1. /\ pc = "read" /\ pc' = "done" /\ keepAlive' = FALSE /\ upstream' = "failed"
        /\ UNCHANGED <<block, events, owed, lines, buffer, thinking, closed, written>>
    BY <1>3 DEF ReadFails, Finish, parserVars
  <2>2. out' \notin {"draining", "closed"}
    BY <1>0, <1>3, <2>1 DEF ReadFails, ErrorOutput, OutputOpen
  <2> QED
    BY <1>0, <2>1, <2>2 DEF WayInv, Counts, Held, Delivered
<1> QED
  BY <1>1, <1>2, <1>3 DEF Reads

LEMMA WayInvRest ==
  ASSUME RelayInv, WayInv, Client \/ Timers
  PROVE  WayInv'
<1>0. FlagTypes /\ OutputOpen /\ Counts /\ Held /\ (pc # "done" => WayAhead) /\ Delivered
  BY DEF RelayInv, WayInv
<1>1. /\ UNCHANGED <<pc, lines, buffer, upstream, block, events, owed, inToolUse, thinking, written>>
      /\ (pendingCancel => pendingCancel') /\ keepAlive' \in BOOLEAN
  <2> USE <1>0 DEF upstreamVars, loopVars, parserVars, cancelVars, Counts
  <2>1. CASE Abort
    BY <2>1 DEF Abort
  <2>2. CASE Drain
    BY <2>2 DEF Drain
  <2>3. CASE Cancel
    <3>1. CASE DeferCancel
      BY <2>3, <3>1 DEF Cancel, DeferCancel
    <3>2. CASE CancelNow
      BY <2>3, <3>2 DEF Cancel, CancelNow
    <3> QED
      BY <2>3, <3>1, <3>2 DEF Cancel
  <2>4. CASE KeepAlive
    BY <2>4 DEF KeepAlive
  <2>5. CASE GraceEnds
    BY <2>5 DEF GraceEnds
  <2>6. CASE ForceTimer
    BY <2>6 DEF ForceTimer
  <2> QED
    BY <2>1, <2>2, <2>3, <2>4, <2>5, <2>6 DEF Client, Timers
<1>2. closed => closed'
  BY <1>0 DEF Client, Timers, Abort, Drain, Cancel, CancelNow, DeferCancel, KeepAlive, GraceEnds,
       ForceTimer, Accepts
<1>3. Waiting' = Waiting
  BY <1>1 DEF Waiting
<1>4. pc' # "done" => WayAhead'
  BY <1>0, <1>1, <1>2, <1>3, WayStays
<1>5. out' \in {"draining", "closed"} => out \in {"draining", "closed"}
  BY <1>0 DEF Client, Timers, Abort, Drain, Cancel, CancelNow, DeferCancel, KeepAlive, GraceEnds,
       ForceTimer
<1>6. FlagTypes'
  BY RelayInvClient, RelayInvTimers DEF RelayInv
<1> QED
  BY <1>0, <1>1, <1>2, <1>4, <1>5, <1>6 DEF WayInv, Counts, Held, Delivered, FlagTypes

LEMMA WayInvariant == Spec => [](RelayInv /\ WayInv)
<1>1. RelayInv /\ WayInv /\ [Next]_vars => WayInv'
  <2> SUFFICES ASSUME RelayInv, WayInv, [Next]_vars PROVE WayInv'
    OBVIOUS
  <2>1. CASE Next
    BY <2>1, WayInvLoop, WayInvReads, WayInvRest DEF Next
  <2>2. CASE UNCHANGED vars
    <3>1. UNCHANGED <<inToolUse, thinking, written, block, owed, closed, pendingCancel, pc, lines, buffer,
                      upstream, events, keepAlive, out>> /\ Waiting' = Waiting
      BY <2>2 DEF vars, upstreamVars, loopVars, parserVars, cancelVars, Waiting
    <3>2. pc # "done" => WayAhead'
      BY <3>1, WayStays DEF WayInv
    <3> QED
      BY <3>1, <3>2 DEF WayInv, Counts, Held, Delivered
  <2> QED
    BY <2>1, <2>2
<1> QED
  BY WayInvInit, <1>1, RelayInvariant, PTL DEF Spec, SafetySpec

(* The relay's variables keep their types; no more is written than owed.    *)
THEOREM RelayTypeCorrect == Spec => []TypeOK
<1>1. RelayInv /\ WayInv => TypeOK
  BY DEF RelayInv, FlagTypes, WayInv, Counts, TypeOK, Kind
<1> QED
  BY <1>1, WayInvariant, PTL

(* A stream that ends with [DONE] has delivered all it owed, for any number *)
(* of events, cut into any chunks.                                          *)
THEOREM RelayDropsNothing == Spec => []NothingDropped
<1>1. WayInv => NothingDropped
  BY DEF WayInv, Delivered, NothingDropped
<1> QED
  BY <1>1, WayInvariant, PTL

============================================================================
