------------------------------- MODULE Answers -------------------------------
(***************************************************************************)
(* One answer of the upstream, as four readers get it: a client that asked *)
(* for a stream (processEvent of src/transform/streaming.ts, event by      *)
(* event), one that asked for the whole (anthropicToOpenai), a client of   *)
(* the completions route (src/http/routes/completions.ts, both ways), and  *)
(* the dashboard, which reconstructs it from the recorded event bytes      *)
(* (src/ui/src/lib/sse-parser.ts).                                         *)
(*                                                                         *)
(* Text is a sequence of pieces, numbered as upstream sends them; 0 is a   *)
(* piece without characters, and what is no piece is negative.  How bytes  *)
(* are cut into lines is StreamRelay.                                      *)
(***************************************************************************)
EXTENDS Integers, Sequences, SequencesExt

CONSTANTS
    Original,       \* wire name of a tool -> the client's name (the tool map)
    StopReason,     \* stop reasons upstream may give
    StartUsage,     \* [input, cached, creation]: usage in message_start
    OutputTokens,   \* output tokens in message_delta
    MaxBlocks,      \* bound: content blocks
    MaxPieces       \* bound: deltas

(* What a model's values of the constants satisfy.                          *)
AnswerConstantsOK ==
    /\ {MaxBlocks, MaxPieces} \subseteq Nat /\ OutputTokens \subseteq Nat
    /\ "none" \notin StopReason
    /\ StartUsage \subseteq [input : Nat, cached : Nat, creation : Nat]

VARIABLES
    message,        \* the message as upstream has it: blocks, usage, stop, open
    pieces,         \* deltas sent
    events,         \* the events sent, which are the recorded response body
    relay           \* what processEvent keeps, and the chunks it wrote

answerVars == <<message, pieces, events, relay>>

NoBlock == [type |-> "none", text |-> <<>>, signature |-> <<>>, index |-> 0]
NoName == ""
AnswerType == {"text", "thinking", "redacted_thinking", "tool_use"}
NoUsage == [input |-> 0, cached |-> 0, creation |-> 0]

AnswerInit ==
    /\ message = [blocks |-> <<>>, usage |-> NoUsage,
                  output |-> 0, stop |-> "none", open |-> FALSE]
    /\ pieces = 0 /\ events = <<>>
    /\ relay = [toolIndex |-> -1, active |-> NoBlock, sentRole |-> FALSE,
                usage |-> NoUsage, chunks |-> <<>>]

----------------------------------------------------------------------------
(* What all readers use.                                                    *)

(* filter.                                                                  *)
Those(s, good(_)) ==
    FlattenSeq([i \in DOMAIN s |-> IF good(s[i]) THEN <<s[i]>> ELSE <<>>])

(* Concatenation leaves no trace of an empty piece.                         *)
Legible(ps) == Those(ps, LAMBDA p : p # 0)

ToFinishReason(stop) ==
    CASE stop \in {"max_tokens", "model_context_window_exceeded"} -> "length"
      [] stop = "tool_use" -> "tool_calls"
      [] stop = "refusal" -> "content_filter"
      [] OTHER -> "stop"

BuildOpenAiUsage(u, output) ==
    [prompt |-> u.input, completion |-> output, total |-> u.input + output,
     cached |-> u.cached, creation |-> u.creation]

(* A block of `thinking` or `redacted_thinking` as it is passed through.    *)
Raw(b) == [type |-> b.type, text |-> Legible(b.text), signature |-> Legible(b.signature)]

IsThinking(b) == b.type \in {"thinking", "redacted_thinking"}
OfType(bs, t) == Those(bs, LAMBDA b : b.type = t)
Thoughts(bs) == Those(bs, IsThinking)
Texts(bs) == [i \in DOMAIN bs |-> Legible(bs[i].text)]

(* join("\n\n").                                                            *)
Separator == -1
Joined(texts) ==
    FlattenSeq([i \in DOMAIN texts |-> IF i = 1 THEN texts[i] ELSE <<Separator>> \o texts[i]])
Unseparated(t) == Those(t, LAMBDA p : p # Separator)

(* The arguments of a call without input: {}, where they are written whole. *)
NoInput == <<-2>>
Arguments(b) == IF Legible(b.text) = <<>> THEN NoInput ELSE Legible(b.text)
CallOf(b, name) == [id |-> b.id, name |-> name, args |-> Arguments(b)]

----------------------------------------------------------------------------
(* processEvent: the chunks that an event makes, and what it leaves behind. *)

ChunkOf(kind, at, val, role) == [kind |-> kind, at |-> at, val |-> val, role |-> role]

(* A chunk of text, thinking or a call has the role, if none had it yet.    *)
Enqueue(s, kind, at, val) == [s EXCEPT !.chunks = Append(@, ChunkOf(kind, at, val, "none"))]
EnqueueRole(s, kind, at, val) ==
    [s EXCEPT !.chunks = Append(@, ChunkOf(kind, at, val,
                                           IF s.sentRole THEN "none" ELSE "assistant")),
              !.sentRole = TRUE]

ActiveOf(ev) == [type |-> ev.block.type, text |-> ev.block.text,
                 signature |-> ev.block.signature, index |-> ev.index]

\* Mutant of BlockStarts: a tool call takes the index of the one before.
BlockStartsUnnumbered(s, ev) ==
    IF ev.block.type = "tool_use"
    THEN EnqueueRole(s, "tool", s.toolIndex,
                     [id |-> ev.block.id, name |-> Original[ev.block.name]])
    ELSE IF IsThinking(ev.block) THEN [s EXCEPT !.active = ActiveOf(ev)]
    ELSE s

BlockStarts(s, ev) ==
    CASE ev.block.type = "tool_use" ->
           EnqueueRole([s EXCEPT !.toolIndex = @ + 1], "tool", s.toolIndex + 1,
                       [id |-> ev.block.id, name |-> Original[ev.block.name]])
      [] IsThinking(ev.block) -> [s EXCEPT !.active = ActiveOf(ev)]
      [] OTHER -> s

BlockStops(s, ev) ==
    IF s.active # NoBlock /\ s.active.index = ev.index
    THEN [Enqueue(s, "details", 0, Raw(s.active)) EXCEPT !.active = NoBlock]
    ELSE s

BlockDelta(s, ev) ==
    CASE ev.kind = "input_json_delta" /\ ev.piece # 0 ->
           Enqueue(s, "args", s.toolIndex, ev.piece)
      [] ev.kind = "thinking_delta" /\ s.active.type = "thinking" ->
           EnqueueRole([s EXCEPT !.active.text = Append(@, ev.piece)], "reasoning", 0, ev.piece)
      [] ev.kind = "signature_delta" /\ s.active # NoBlock ->
           [s EXCEPT !.active.signature = Append(@, ev.piece)]
      [] ev.kind = "text_delta" /\ ev.piece # 0 -> EnqueueRole(s, "content", 0, ev.piece)
      [] OTHER -> s

ProcessEvent(s, ev) ==
    CASE ev.type = "message_start" -> [s EXCEPT !.usage = ev.usage]
      [] ev.type = "content_block_start" -> BlockStarts(s, ev)
      [] ev.type = "content_block_delta" -> BlockDelta(s, ev)
      [] ev.type = "content_block_stop" -> BlockStops(s, ev)
      [] ev.type = "message_delta" ->
           Enqueue(s, "finish", 0, [reason |-> ToFinishReason(ev.stop),
                                    usage |-> BuildOpenAiUsage(s.usage, ev.output)])

----------------------------------------------------------------------------
(* The upstream: a message, block by block.                                 *)

SendEvent(ev) == events' = Append(events, ev) /\ relay' = ProcessEvent(relay, ev)
Ended == message.stop # "none"
Current == message.blocks[Len(message.blocks)]

MessageStarts(u) ==
    /\ events = <<>>
    /\ message' = [message EXCEPT !.usage = u]
    /\ SendEvent([type |-> "message_start", usage |-> u])
    /\ UNCHANGED pieces

(* Redacted thinking is whole in its first event.                           *)
Starts(t, name) ==
    /\ t = "tool_use" <=> name \in DOMAIN Original
    /\ events # <<>> /\ ~message.open /\ ~Ended /\ Len(message.blocks) < MaxBlocks
    /\ LET i == Len(message.blocks) + 1
           b == [type |-> t, id |-> i, name |-> name, signature |-> <<>>,
                 text |-> IF t = "redacted_thinking" THEN <<-2 - i>> ELSE <<>>]
       IN  /\ message' = [message EXCEPT !.blocks = Append(@, b), !.open = TRUE]
           /\ SendEvent([type |-> "content_block_start", index |-> i, block |-> b])
    /\ UNCHANGED pieces

DeltaOf(t) ==
    CASE t = "text" -> {"text_delta"}
      [] t = "thinking" -> {"thinking_delta", "signature_delta"}
      [] t = "tool_use" -> {"input_json_delta"}
      [] OTHER -> {}

(* A delta adds to the signature of a block, or to its text.                *)
Grown(b, kind, p) ==
    IF kind = "signature_delta" THEN [b EXCEPT !.signature = Append(@, p)]
                                ELSE [b EXCEPT !.text = Append(@, p)]

(* The first delta of a tool's input may be without characters.             *)
Delta(kind, empty) ==
    /\ message.open /\ pieces < MaxPieces /\ kind \in DeltaOf(Current.type)
    /\ empty => kind = "input_json_delta" /\ Current.text = <<>>
    /\ pieces' = pieces + 1
    /\ LET i == Len(message.blocks)
           p == IF empty THEN 0 ELSE pieces + 1
       IN  /\ message' = [message EXCEPT !.blocks[i] = Grown(@, kind, p)]
           /\ SendEvent([type |-> "content_block_delta", index |-> i, kind |-> kind,
                         piece |-> p])

Stops ==
    /\ message.open
    /\ message' = [message EXCEPT !.open = FALSE]
    /\ SendEvent([type |-> "content_block_stop", index |-> Len(message.blocks)])
    /\ UNCHANGED pieces

MessageEnds(stop, output) ==
    /\ events # <<>> /\ ~message.open /\ ~Ended
    /\ message' = [message EXCEPT !.stop = stop, !.output = output]
    /\ SendEvent([type |-> "message_delta", stop |-> stop, output |-> output])
    /\ UNCHANGED pieces

AnswerNext ==
    \/ \E u \in StartUsage : MessageStarts(u)
    \/ \E t \in AnswerType, n \in DOMAIN Original \cup {NoName} : Starts(t, n)
    \/ \E k \in UNION {DeltaOf(t) : t \in AnswerType}, empty \in BOOLEAN : Delta(k, empty)
    \/ Stops
    \/ \E stop \in StopReason, n \in OutputTokens : MessageEnds(stop, n)

AnswerSpec == AnswerInit /\ [][AnswerNext]_answerVars

----------------------------------------------------------------------------
(* The readers.                                                             *)

(* anthropicToOpenai.                                                       *)
AnthropicToOpenai ==
    LET bs == message.blocks
        texts == OfType(bs, "text")
        tools == OfType(bs, "tool_use")
        raws == Thoughts(bs)
    IN  [content |-> IF texts = <<>> THEN <<>> ELSE Legible(texts[1].text),
         reasoning |-> Joined(Texts(OfType(bs, "thinking"))),
         details |-> [i \in DOMAIN raws |-> Raw(raws[i])],
         tools |-> [i \in DOMAIN tools |-> CallOf(tools[i], Original[tools[i].name])],
         finish |-> ToFinishReason(message.stop),
         usage |-> BuildOpenAiUsage(message.usage, message.output)]

(* What an OpenAI client puts together from the chunks: calls by index.  A  *)
(* call's arguments begin as "" and nothing is written for those without    *)
(* characters.                                                              *)
Of(kind) == Those(relay.chunks, LAMBDA c : c.kind = kind)
ArgsAt(at) == Those(relay.chunks, LAMBDA c : c.kind = "args" /\ c.at = at)
Vals(cs) == [i \in DOMAIN cs |-> cs[i].val]
Assembled ==
    LET tools == Of("tool")
        args(i) == Vals(ArgsAt(tools[i].at))
        finish == Last(Of("finish")).val
    IN  [content |-> Vals(Of("content")),
         reasoning |-> Legible(Vals(Of("reasoning"))),
         details |-> Vals(Of("details")),
         tools |-> [i \in DOMAIN tools |->
                      [id |-> tools[i].val.id, name |-> tools[i].val.name, args |-> args(i)]],
         finish |-> finish.reason, usage |-> finish.usage]

(* parseAnthropicSSEResponse: blocks by index, taken over when they stop.   *)
Reconstruct(s, ev) ==
    CASE ev.type = "message_start" -> [s EXCEPT !.usage = ev.usage]
      [] ev.type = "content_block_start" ->
           [s EXCEPT !.byIndex = [i \in DOMAIN @ \cup {ev.index} |->
                                    IF i = ev.index THEN ev.block ELSE @[i]]]
      [] ev.type = "content_block_delta" /\ ev.index \in DOMAIN s.byIndex ->
           IF ev.kind = "signature_delta"
           THEN [s EXCEPT !.byIndex[ev.index].signature = Append(@, ev.piece)]
           ELSE [s EXCEPT !.byIndex[ev.index].text = Append(@, ev.piece)]
      [] ev.type = "content_block_stop" /\ ev.index \in DOMAIN s.byIndex ->
           [s EXCEPT !.taken = Append(@, s.byIndex[ev.index])]
      [] ev.type = "message_delta" -> [s EXCEPT !.stop = ev.stop, !.output = ev.output]
      [] OTHER -> s
NothingYet == [byIndex |-> <<>>, taken |-> <<>>, stop |-> "none", output |-> 0, usage |-> NoUsage]
Reconstructed(evs) ==
    LET s[n \in 0..Len(evs)] ==
            IF n = 0 THEN NothingYet ELSE Reconstruct(s[n - 1], evs[n])
    IN  s[Len(evs)]
ParseAnthropicSSEResponse ==
    LET s == Reconstructed(events)
        texts == OfType(s.taken, "text")
        tools == OfType(s.taken, "tool_use")
        raws == Thoughts(s.taken)
    IN  [content |-> FlattenSeq(Texts(texts)),
         reasoning |-> Joined(Those(Texts(OfType(s.taken, "thinking")), LAMBDA t : t # <<>>)),
         details |-> [i \in DOMAIN raws |-> Raw(raws[i])],
         tools |-> [i \in DOMAIN tools |-> CallOf(tools[i], tools[i].name)],
         stop |-> s.stop,
         usage |-> [prompt |-> s.usage.input, completion |-> s.output,
                    total |-> s.usage.input + s.output]]

(* chatChunkToTextChunkStream and reshapeToTextCompletion: text and reason. *)
TextChunk(c) == [text |-> IF c.kind = "content" THEN <<c.val>> ELSE <<>>,
                 finish |-> IF c.kind = "finish" THEN c.val.reason ELSE "none"]
TextStreamed ==
    LET cs == [i \in DOMAIN relay.chunks |-> TextChunk(relay.chunks[i])]
    IN  [text |-> FlattenSeq([i \in DOMAIN cs |-> cs[i].text]), finish |-> cs[Len(cs)].finish]
ReshapeToTextCompletion ==
    [text |-> AnthropicToOpenai.content, finish |-> AnthropicToOpenai.finish]

----------------------------------------------------------------------------
AnswerTypeOK ==
    /\ pieces \in 0..MaxPieces /\ Len(message.blocks) <= MaxBlocks
    /\ message.stop \in StopReason \cup {"none"}
    /\ relay.toolIndex \in -1..MaxBlocks - 1
    /\ relay.active.type \in {"none", "thinking", "redacted_thinking"}

OneText == Len(OfType(message.blocks, "text")) <= 1

(* A whole answer is the same to whoever reads it: what a streaming client  *)
(* puts together, what a client that did not ask for a stream is given and  *)
(* what the dashboard reconstructs agree on text, thinking with its         *)
(* signatures, calls with their arguments, finish reason and usage, however *)
(* blocks and deltas alternate; the role is sent once.  But for this: of    *)
(* several texts, the one that did not ask for a stream gets the first; a   *)
(* call without input has the arguments "" in a stream and {} elsewhere;    *)
(* the dashboard shows the tools' wire names; and a stream has no separator *)
(* between thinking blocks.                                                 *)
AnswersAgree ==
    Ended =>
      LET plain == AnthropicToOpenai
          streamed == Assembled
          shown == ParseAnthropicSSEResponse
      IN  /\ streamed.content = shown.content /\ TextStreamed.text = shown.content
          /\ IsPrefix(plain.content, streamed.content)
          /\ OneText => plain.content = streamed.content
          /\ streamed.reasoning = Unseparated(plain.reasoning)
          /\ Unseparated(shown.reasoning) = streamed.reasoning
          /\ streamed.details = plain.details /\ shown.details = plain.details
          /\ [i \in DOMAIN streamed.tools |->
                [streamed.tools[i] EXCEPT !.args = IF @ = <<>> THEN NoInput ELSE @]] = plain.tools
          /\ [i \in DOMAIN shown.tools |-> [shown.tools[i] EXCEPT !.name = Original[@]]]
               = plain.tools
          /\ streamed.finish = plain.finish /\ ToFinishReason(shown.stop) = plain.finish
          /\ streamed.usage = plain.usage
          /\ shown.usage.prompt = plain.usage.prompt /\ shown.usage.total = plain.usage.total
          /\ shown.usage.completion = plain.usage.completion
          /\ TextStreamed.finish = ReshapeToTextCompletion.finish
          /\ Len(Those(relay.chunks, LAMBDA c : c.role = "assistant")) <= 1
=============================================================================
