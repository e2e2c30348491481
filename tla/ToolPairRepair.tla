--------------------------- MODULE ToolPairRepair ---------------------------
(***************************************************************************)
(* applyToolRepair of src/transform/repair-tool-pairs.ts: upstream rejects *)
(* a tool_use whose result is not in the next message and a tool_result    *)
(* whose use is not in the previous one, so an interrupted or compacted    *)
(* history is repaired, by inventing results or by dropping halves.        *)
(*                                                                         *)
(* A message has a role, a shape (a string or an array of blocks) and its  *)
(* blocks; a string is one text block.  A block has a type, the id of the  *)
(* call it belongs to if it has one, what it says, and whether it carries  *)
(* cache_control.                                                          *)
(***************************************************************************)
EXTENDS Naturals, Sequences, SequencesExt

NoId == 0
Block(type, id, says) == [type |-> type, id |-> id, says |-> says, marked |-> FALSE]
Text(says) == Block("text", NoId, says)
PlaceholderResult(id) == Block("tool_result", id, "placeholder")

(* The elements of a sequence that belong to a set, in their order.         *)
Only(s, good) ==
    FlattenSeq([i \in 1..Len(s) |-> IF s[i] \in good THEN <<s[i]>> ELSE <<>>])

(* Blocks are looked at in arrays only.                                     *)
BlocksOf(m) == IF m.shape = "blocks" THEN m.content ELSE <<>>

IdsOfType(m, type) == {b.id : b \in {c \in ToSet(BlocksOf(m)) : c.type = type}}
UseIds(m) == IdsOfType(m, "tool_use")
ResultIds(m) == IdsOfType(m, "tool_result")

HasThinkingBlock(m) ==
    m.role = "assistant" /\ \E b \in ToSet(BlocksOf(m)) : b.type = "thinking"

ToolUseHasAdjacentResult(ms, i, id) == i < Len(ms) /\ id \in ResultIds(ms[i + 1])
ToolResultHasAdjacentUse(ms, i, id) == i > 1 /\ id \in UseIds(ms[i - 1])

WithBlocks(m, blocks) == [m EXCEPT !.shape = "blocks", !.content = blocks]

(* Each message becomes a sequence of none, one or two.                     *)
Rewrite(ms, F(_)) == FlattenSeq([i \in 1..Len(ms) |-> F(i)])

----------------------------------------------------------------------------
(* TOOL_REPAIR_MODE=drop.                                                   *)

Matched(ms, i) ==
    {b \in ToSet(BlocksOf(ms[i])) :
       /\ b.type = "tool_use" => ToolUseHasAdjacentResult(ms, i, b.id)
       /\ b.type = "tool_result" => ToolResultHasAdjacentUse(ms, i, b.id)}

DropMessage(ms, i) ==
    LET m == ms[i]
        kept == Only(BlocksOf(m), Matched(ms, i))
        orphanUse == \E id \in UseIds(m) : ~ToolUseHasAdjacentResult(ms, i, id)
    IN  IF kept = BlocksOf(m) THEN <<m>>
        ELSE IF kept = <<>> \/ (orphanUse /\ HasThinkingBlock(m)) THEN <<>>
        ELSE <<WithBlocks(m, kept)>>

DropPass(ms) == Rewrite(ms, LAMBDA i : DropMessage(ms, i))

\* Mutant of RepairToolPairs: one pass and no fixed point.
RepairToolPairsOnce(ms) == DropPass(ms)

(* A pass that changes nothing is a fixed point: those after it do not      *)
(* matter.                                                                  *)
DropPasses(ms, passes) ==
    LET after[k \in 0..passes] == IF k = 0 THEN ms ELSE DropPass(after[k - 1])
    IN  after[passes]

RepairToolPairs(ms) == DropPasses(ms, Len(ms) + 2)

----------------------------------------------------------------------------
(* The default: results whose use is gone are stripped, and every use that  *)
(* still lacks one gets a placeholder, at the head of the user turn after   *)
(* it or in a turn of its own.                                              *)

StripMessage(ms, i) ==
    LET m == ms[i]
        kept == Only(BlocksOf(m), {b \in ToSet(BlocksOf(m)) :
                  b.type = "tool_result" => ToolResultHasAdjacentUse(ms, i, b.id)})
    IN  IF kept = BlocksOf(m) THEN <<m>>
        ELSE IF kept = <<>> THEN <<>> ELSE <<WithBlocks(m, kept)>>

StripOrphanResults(ms) == Rewrite(ms, LAMBDA i : StripMessage(ms, i))

(* Placeholders for the uses of message i that have no result, in order.    *)
Missing(ms, i) ==
    LET uses == Only(BlocksOf(ms[i]), {b \in ToSet(BlocksOf(ms[i])) :
                  b.type = "tool_use" /\ ~ToolUseHasAdjacentResult(ms, i, b.id)})
    IN  [j \in 1..Len(uses) |-> PlaceholderResult(uses[j].id)]

(* A user turn, led by the placeholders the uses before it lack.            *)
Answering(ms, i) ==
    LET m == ms[i]
        before == IF i > 1 /\ m.role = "user" THEN Missing(ms, i - 1) ELSE <<>>
        said == Only(m.content, {b \in ToSet(m.content) : m.shape = "string" => b.says # "empty"})
    IN  IF before = <<>> THEN m ELSE WithBlocks(m, before \o said)

AnswerMessage(ms, i) ==
    LET after == IF i < Len(ms) /\ ms[i + 1].role = "user" THEN <<>> ELSE Missing(ms, i)
    IN  IF after = <<>> THEN <<Answering(ms, i)>>
        ELSE <<Answering(ms, i), [role |-> "user", shape |-> "blocks", content |-> after]>>

AddPlaceholders(ms) == Rewrite(ms, LAMBDA i : AnswerMessage(ms, i))

SynthesizeMissingToolResults(ms) == AddPlaceholders(StripOrphanResults(ms))

ApplyToolRepair(ms, mode) ==
    IF mode = "drop" THEN RepairToolPairs(ms) ELSE SynthesizeMissingToolResults(ms)

(* What upstream asks of a history.                                         *)
Paired(ms) ==
    \A i \in 1..Len(ms) :
      /\ \A id \in UseIds(ms[i]) : ToolUseHasAdjacentResult(ms, i, id)
      /\ \A id \in ResultIds(ms[i]) : ToolResultHasAdjacentUse(ms, i, id)
=============================================================================
