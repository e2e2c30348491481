---------------------------- MODULE Conversation ----------------------------
(***************************************************************************)
(* A client's conversation through POST /v1/chat/completions and what      *)
(* openaiToAnthropic of src/transform/openai-to-anthropic.ts makes of it:  *)
(* the history grows by user turns, upstream's replies with tool calls     *)
(* (under the names of src/domain/tool-mapping.ts) and tool results, some  *)
(* of them late or never given, and loses messages to compaction.  The     *)
(* whole history is sanitized, translated, repaired and marked for caching *)
(* again for every request.                                                *)
(*                                                                         *)
(* What a text says is one of "text", "empty" (no character), "blank"      *)
(* (white space), "placeholder", "system" (the client's system prompt); an *)
(* image is one that can be sent or "bad".                                 *)
(***************************************************************************)
EXTENDS ToolPairRepair, FiniteSets, Functions

CONSTANTS
    Canonical,          \* the client's tool names in code-unit order, each with
                        \* the words that mapToolName makes its wire name of, and
                        \* those of the wire name it is itself; <<>>, none
    ToolSets,           \* the sets of tools a client may declare
    UserContent,        \* what a user turn may hold: [shape, content]
    MaxMessages,        \* bound: length of the history
    MaxToolCalls        \* bound: tool calls in one behaviour

Images == {"image", "input_image"}

(* What a client puts into a user turn: texts and pictures.                 *)
ContentPart ==
    [type : {"text"} \cup Images, id : {NoId}, says : {"text", "empty", "blank", "bad"},
     marked : BOOLEAN]

(* What a model's values of the constants satisfy: the tools have names of  *)
(* their own, a declared tool is one of them, and a user turn is a string   *)
(* or an array of parts.                                                    *)
TalkConstantsOK ==
    /\ MaxMessages \in Nat \ {0} /\ MaxToolCalls \in Nat
    /\ Len(Canonical) \in Nat /\ DOMAIN Canonical = 1..Len(Canonical)
    /\ \A i \in DOMAIN Canonical :
         LET base == Canonical[i].base
         IN  Len(base) \in Nat \ {0} /\ base = [j \in 1..Len(base) |-> base[j]]
    /\ \A set \in ToolSets : set \subseteq {Canonical[i].name : i \in DOMAIN Canonical}
    /\ UserContent \subseteq [shape : {"string", "blocks"}, content : Seq(ContentPart)]
    /\ \A c \in UserContent : c.shape = "string" =>
         \E part \in ContentPart : part.type = "text" /\ c.content = <<part>>

VARIABLES
    tools,              \* `body.tools`: the names the client declares
    hasSystem,          \* it sends a system prompt
    talked,             \* `body.messages`, the system prompt left out
    toolCalls           \* tool calls upstream has made

talkVars == <<tools, hasSystem, talked, toolCalls>>

Name == {Canonical[i].name : i \in DOMAIN Canonical}
EntryOf(n) == Canonical[CHOOSE i \in DOMAIN Canonical : Canonical[i].name = n]
CanonicalOf(n) == EntryOf(n).base
WireOf(n) == EntryOf(n).wire

NewMessage(role, shape, content) ==
    [role |-> role, shape |-> shape, content |-> content, calls |-> <<>>, id |-> NoId]

----------------------------------------------------------------------------
(* tool-mapping.ts.  A map is `forward`; `reverse` is its inverse.  A wire  *)
(* name is what follows mcp_, as words: those of a base, and the number     *)
(* that sets it apart from one in use.  "agent" is <<"Agent">>, "agent_2"   *)
(* is <<"Agent", 2>>, which is also the second name for an "Agent".  A name *)
(* that is itself a wire name in use is sent as it is and not recorded.     *)
Wire(base, k) == IF k = 1 THEN base ELSE Append(base, k)
Added(map, n, wire) == [m \in DOMAIN map \cup {n} |-> IF m = n THEN wire ELSE map[m]]

\* Mutant of MapToolName: the wire names in use are not looked at.
MapToolNameClobbering(map, n) ==
    IF n \in DOMAIN map THEN map ELSE Added(map, n, Wire(CanonicalOf(n), 1))

MapToolName(map, n) ==
    IF n \in DOMAIN map \/ WireOf(n) \in Range(map) THEN map
    ELSE LET Free(k) == Wire(CanonicalOf(n), k) \notin Range(map)
             k == CHOOSE j \in 1..(Cardinality(DOMAIN map) + 1) :
                    Free(j) /\ \A i \in 1..(j - 1) : ~Free(i)
         IN  Added(map, n, Wire(CanonicalOf(n), k))

SentName(map, n) == IF n \in DOMAIN map THEN map[n] ELSE WireOf(n)

(* Those of the names that are wanted, one after the other.                 *)
MapToolNames(map, names, wanted) ==
    LET after[i \in 0..Len(names)] ==
          IF i = 0 THEN map
          ELSE IF names[i] \in wanted THEN MapToolName(after[i - 1], names[i])
          ELSE after[i - 1]
    IN  after[Len(names)]

\* Mutant of UnmapToolName: the prefix is stripped without a look at the map.
UnmapToolNameStripped(map, wire) == Head(wire)

(* unmapToolName: a wire name this request never mapped loses its prefix.   *)
UnmapToolName(map, wire) ==
    IF wire \in Range(map)
    THEN CHOOSE n \in DOMAIN map : map[n] = wire
    ELSE Head(wire)

----------------------------------------------------------------------------
(* sanitizeOpenAIMessages.                                                  *)

EmptyTextBlock(b) == b.type = "text" /\ b.says \in {"empty", "blank"}
EmptyMessage == <<Text("placeholder")>>
WithoutEmptyText(blocks) == Only(blocks, {b \in ToSet(blocks) : ~EmptyTextBlock(b)})

SanitizeAssistant(m) ==
    LET kept == WithoutEmptyText(BlocksOf(m))
    IN  CASE m.shape = "string"                     -> <<m>>
          [] m.shape # "string" /\ kept = <<>> /\ m.calls = <<>> -> <<>>
          [] OTHER                                  -> <<WithBlocks(m, kept)>>

SanitizeUser(m) ==
    LET kept == WithoutEmptyText(m.content)
    IN  CASE m.shape = "string" /\ kept # <<>> -> <<m>>
          [] m.shape = "string" /\ kept = <<>> -> <<[m EXCEPT !.content = EmptyMessage]>>
          [] m.shape # "string" /\ kept = <<>> -> <<WithBlocks(m, EmptyMessage)>>
          [] m.shape # "string" /\ kept # <<>> -> <<WithBlocks(m, kept)>>

SanitizeMessage(m) ==
    CASE m.role = "assistant" -> SanitizeAssistant(m)
      [] m.role = "user"      -> SanitizeUser(m)
      [] m.role = "tool"      -> <<m>>

Sanitize(ms) == Rewrite(ms, LAMBDA i : SanitizeMessage(ms[i]))

----------------------------------------------------------------------------
(* The translation loop of openaiToAnthropic.                               *)

(* toAnthropicContentBlocks: images that cannot be sent are dropped.        *)
ToAnthropicContentBlocks(blocks) ==
    Only(blocks, {b \in ToSet(blocks) : ~(b.type \in Images /\ b.says = "bad")})

ToolUse(call) == Block("tool_use", call.id, call.name)

(* Only a text without characters is left out: sanitizing has dropped white *)
(* space from arrays, and left a string of it.                              *)
NoCharacters(b) == b.type = "text" /\ b.says = "empty"
WithCharacters(blocks) == Only(blocks, {b \in ToSet(blocks) : ~NoCharacters(b)})

AssistantBlocks(m) ==
    WithCharacters(IF m.shape = "string" THEN m.content
                   ELSE ToAnthropicContentBlocks(m.content))
    \o [i \in 1..Len(m.calls) |-> ToolUse(m.calls[i])]

Translated(role, shape, content) == [role |-> role, shape |-> shape, content |-> content]

(* A run of tool messages, not interrupted by another, is one user turn:    *)
(* `_batch` is true of a turn whose first block is a result.                *)
IsBatch(ms) ==
    ms # <<>> /\ Last(ms).role = "user" /\ BlocksOf(Last(ms)) # <<>>
              /\ Last(ms).content[1].type = "tool_result"

TranslateMessage(ms, m) ==
    IF m.role = "tool"
    THEN LET result == Block("tool_result", m.id, m.content[1].says)
         IN  IF IsBatch(ms)
             THEN [ms EXCEPT ![Len(ms)].content = Append(@, result)]
             ELSE Append(ms, Translated("user", "blocks", <<result>>))
    ELSE IF m.role = "assistant" /\ m.calls # <<>>
    THEN Append(ms, Translated("assistant", "blocks", AssistantBlocks(m)))
    ELSE Append(ms, Translated(m.role, m.shape,
                               IF m.shape = "string" THEN m.content
                               ELSE ToAnthropicContentBlocks(m.content)))

Translate(ms) ==
    LET after[i \in 0..Len(ms)] ==
          IF i = 0 THEN <<>> ELSE TranslateMessage(after[i - 1], ms[i])
    IN  after[Len(ms)]

(* The client's system prompt is put before the first text of the first     *)
(* user turn, or at the head of a turn that has none.                       *)
PrependSystem(ms) ==
    LET users == {i \in 1..Len(ms) : ms[i].role = "user"}
        u == CHOOSE i \in users : \A j \in users : i <= j
        texts == {j \in 1..Len(ms[u].content) : ms[u].content[j].type = "text"}
        t == CHOOSE j \in texts : \A k \in texts : j <= k
    IN  IF ~hasSystem \/ users = {} THEN ms
        ELSE IF texts # {} THEN [ms EXCEPT ![u].content[t].says = "system"]
        ELSE [ms EXCEPT ![u].content = <<Text("system")>> \o @]

----------------------------------------------------------------------------
(* cache_control: what clients set is cleared, then the last block of the   *)
(* last two user turns is marked.                                           *)

StripClientCacheControl(ms) ==
    [i \in 1..Len(ms) |->
       [ms[i] EXCEPT !.content = [j \in DOMAIN @ |-> [@[j] EXCEPT !.marked = FALSE]]]]

ApplyCacheBreakpoints(ms, budget) ==
    LET users == {i \in 1..Len(ms) : ms[i].role = "user"}
        chosen == {i \in users : Cardinality({j \in users : j > i}) < IF budget >= 2 THEN 2 ELSE budget}
    IN  [i \in 1..Len(ms) |->
           IF i \in chosen /\ ms[i].content # <<>>
           THEN WithBlocks(ms[i], [ms[i].content EXCEPT ![Len(ms[i].content)].marked = TRUE])
           ELSE ms[i]]

(* The markers on the identity block of system[] and on the last tool.      *)
FixedMarkers(identity) == (IF identity THEN 1 ELSE 0) + (IF tools # {} THEN 1 ELSE 0)

Planned(ms, identity) ==
    ApplyCacheBreakpoints(StripClientCacheControl(ms), 4 - FixedMarkers(identity))

(* The messages before their repair; ApplyToolRepair and Planned make of    *)
(* them `messages` of the body that openaiToAnthropic returns.              *)
Translation == PrependSystem(Translate(Sanitize(talked)))

(* The names of the history's calls are mapped before those of the tools,  *)
(* which are mapped in code-unit order, whatever order they were sent in.   *)
CalledNames(m) == [j \in 1..Len(m.calls) |-> m.calls[j].name]
MapCalls(ms) ==
    LET after[i \in 0..Len(ms)] ==
          IF i = 0 THEN <<>> ELSE MapToolNames(after[i - 1], CalledNames(ms[i]), Name)
    IN  after[Len(ms)]

SortedTools == [i \in 1..Len(Canonical) |-> Canonical[i].name]
ToolMap == MapToolNames(MapCalls(talked), SortedTools, tools)

----------------------------------------------------------------------------
(* The conversation.                                                        *)

TalkInit ==
    /\ tools \in ToolSets
    /\ hasSystem \in BOOLEAN
    /\ talked = <<>>
    /\ toolCalls = 0

Add(m) == Len(talked) < MaxMessages /\ talked' = Append(talked, m)

UserTurn ==
    /\ \E c \in UserContent : Add(NewMessage("user", c.shape, c.content))
    /\ UNCHANGED <<tools, hasSystem, toolCalls>>

(* anthropicToOpenai gives the reply's text, which may be white space, or   *)
(* null, for which some clients keep "".  A client that keeps thinking      *)
(* blocks sends them as blocks.                                             *)
ReplyContent ==
    {[shape |-> "string", content |-> <<Text(says)>>] : says \in {"text", "blank", "empty"}}
    \cup {[shape |-> "null", content |-> <<>>],
          [shape |-> "blocks", content |-> <<Block("thinking", NoId, "text")>>]}

(* The reply, its calls under the client's names.                           *)
Reply ==
    /\ talked # <<>> /\ Last(talked).role # "assistant"
    /\ LET map == ToolMap
       IN  \E names \in BoundedSeq(tools, 2), c \in ReplyContent :
             /\ toolCalls + Len(names) <= MaxToolCalls
             /\ Add([NewMessage("assistant", c.shape, c.content) EXCEPT !.calls =
                       [i \in 1..Len(names) |->
                          [id |-> toolCalls + i,
                           name |-> UnmapToolName(map, SentName(map, names[i]))]]])
             /\ toolCalls' = toolCalls + Len(names)
    /\ UNCHANGED <<tools, hasSystem>>

(* The client runs a tool it was asked to run, now or long after.           *)
ToolResult ==
    /\ \E id \in 1..toolCalls :
         /\ \A i \in DOMAIN talked : talked[i].id # id
         /\ Add([NewMessage("tool", "string", <<Text("text")>>) EXCEPT !.id = id])
    /\ UNCHANGED <<tools, hasSystem, toolCalls>>

(* The client compacts its history: some message is gone.                   *)
Compact ==
    /\ \E i \in DOMAIN talked : talked' = RemoveAt(talked, i)
    /\ UNCHANGED <<tools, hasSystem, toolCalls>>

TalkNext == UserTurn \/ Reply \/ ToolResult \/ Compact

TalkSpec == TalkInit /\ [][TalkNext]_talkVars

----------------------------------------------------------------------------
ToolCall == [id : 1..MaxToolCalls, name : Name]

(* What a message may say, by who says it.                                  *)
AsSaid(m) ==
    CASE m.role = "user"      -> [shape |-> m.shape, content |-> m.content] \in UserContent
      [] m.role = "tool"      -> m.shape = "string" /\ m.content = <<Text("text")>>
      [] m.role = "assistant" -> [shape |-> m.shape, content |-> m.content] \in ReplyContent
ChatMessage ==
    {m \in [role : {"user", "assistant", "tool"}, shape : {"string", "blocks", "null"},
            content : Seq(ContentPart \cup {Block("thinking", NoId, "text")}),
            calls : Seq(ToolCall), id : 0..MaxToolCalls] : AsSaid(m)}

TalkTypeOK ==
    /\ tools \in ToolSets /\ hasSystem \in BOOLEAN
    /\ talked \in Seq(ChatMessage) /\ Len(talked) <= MaxMessages
    /\ toolCalls \in 0..MaxToolCalls

(* A turn that thinks goes upstream with all its uses or not at all: its    *)
(* signature does not survive a rewrite.                                    *)
ThinkingKeptWhole(before, repaired) ==
    \A m \in ToSet(repaired) : HasThinkingBlock(m) => m \in ToSet(before)

(* Nothing but results stands before a result in its turn, save the         *)
(* client's system prompt: when the first user turn is one of results, it   *)
(* is put at its head.                                                      *)
MayLead(b) ==
    b.type = "tool_result" \/ (hasSystem /\ b.type = "text" /\ b.says = "system")
ResultsLead(content) ==
    \A k \in DOMAIN content : content[k].type = "tool_result" =>
      \A j \in 1..(k - 1) : MayLead(content[j])

(* No text block without a character goes upstream, and no white space but  *)
(* what an assistant said as a string.                                      *)
WellFormed(ms) ==
    \A m \in ToSet(ms) :
      /\ m.shape = "blocks" => \A b \in ToSet(m.content) : ~NoCharacters(b)
      /\ \A b \in ToSet(m.content) : EmptyTextBlock(b) => m.role = "assistant"
      /\ ResultsLead(m.content)

(* There are never more than the four cache breakpoints upstream allows,    *)
(* whatever clients set.                                                    *)
MarksWithin(ms, identity) ==
    LET marked(i) == {j \in DOMAIN ms[i].content : ms[i].content[j].marked}
    IN  FixedMarkers(identity)
          + Cardinality(UNION {{<<i, j>> : j \in marked(i)} : i \in DOMAIN ms}) <= 4

(* Whatever the history's calls have taken before, every tool the client    *)
(* declares goes upstream under a wire name of its own, and a call of that  *)
(* name comes back to the client under the name it declared.  The exception *)
(* is a tool whose own name is the wire name that another one was given: it *)
(* is sent under that name, too, and its calls come back as the other's.    *)
ToolNamesRoundTrip ==
    LET map == ToolMap
        Shadowed(n) == n \notin DOMAIN map /\ WireOf(n) \in Range(map)
    IN  \A n \in tools : ~Shadowed(n) =>
          /\ UnmapToolName(map, SentName(map, n)) = n
          /\ \A m \in tools \ {n} : SentName(map, m) = SentName(map, n) => Shadowed(m)

(* However a history was interrupted, answered late or compacted, what goes *)
(* upstream in either repair mode pairs every tool_use with a result in the *)
(* next message and every result with a use in the previous one, is well    *)
(* formed, and has no thinking that no longer fits its signature; dropping  *)
(* reaches its fixed point within the passes it allows itself.              *)
HistoriesSound ==
    LET before == Translation
    IN  \A mode \in {"placeholder", "drop"} :
          LET repaired == ApplyToolRepair(before, mode)
          IN  /\ Paired(repaired)
              /\ ThinkingKeptWhole(before, repaired)
              /\ WellFormed(repaired)
              /\ \A identity \in BOOLEAN : MarksWithin(Planned(repaired, identity), identity)
=============================================================================
