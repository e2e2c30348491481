------------------------------ MODULE MCSafety ------------------------------
(* The parts that owe nothing but safety, one to a behaviour: the loop of   *)
(* upstream calls, the catalogs, the translation of a conversation, the     *)
(* options of a request, the answers, the request records and their         *)
(* sessions, the API keys, the date filter and the dashboard's sign-in,     *)
(* which this module extends, and what is read of the records, which it     *)
(* instantiates.  The parts share no state, so a behaviour that interleaved *)
(* two would show no more.                                                  *)
EXTENDS UpstreamCall, ModelResolution, Conversation, RequestOptions, Answers, RequestStore,
        Sessions, ApiKeys, DateRange, SignIn, Integers, Sequences, TLC

CONSTANTS c1, c2,                   \* two calls for one model
          eager, k2, k3,            \* the eager refresh and two clients
          t1, t2                    \* two requests

VARIABLES subject,
          clock, table,
          tick, came, journal, thrown, ended, troubles, unwritten, lost

readVars == <<clock, table>>
logVars == <<tick, came, journal, thrown, ended, troubles, unwritten, lost>>

MCCall == {c1, c2}
MCModelIds == {"opus"}
MCModelOf == [c \in MCCall |-> "opus"]
MCLongBetas == {"interleaved-thinking"}
MCToken == {1, 2}

----------------------------------------------------------------------------
MCText(says, shape, marked) ==
    [shape |-> shape,
     content |-> <<[type |-> "text", id |-> 0, says |-> says, marked |-> marked]>>]
MCBadImage == [type |-> "image", id |-> 0, says |-> "bad", marked |-> TRUE]
MCPasted == MCText("text", "blocks", TRUE).content
            \o MCText("blank", "blocks", TRUE).content \o <<MCBadImage>>

MCTool(name, base, wire) == [name |-> name, base |-> base, wire |-> wire]
MCCanonical == <<MCTool("mcp_Agent", <<"Agent">>, <<"Agent">>),
                 MCTool("task", <<"Agent">>, <<>>)>>
MCToolSets == {{"mcp_Agent", "task"}, {}}
MCUser == {MCText("empty", "string", FALSE), [shape |-> "blocks", content |-> MCPasted]}

----------------------------------------------------------------------------
(* Three versions of the catalog: the fallback one, one without its opus and *)
(* with a fast one, and an answer that lists nothing.                       *)
MCModel(id, family, dated, fast, levels) ==
    [id |-> id, family |-> family, dated |-> dated, fast |-> fast, levels |-> levels]
MCCatalog ==
    0 :> <<MCModel("opus-5", "opus", FALSE, FALSE, {"high"}),
           MCModel("sonnet-4-6", "sonnet", FALSE, FALSE, {"low", "high"}),
           MCModel("haiku-4-5-d", "haiku", TRUE, FALSE, {})>> @@
    1 :> <<MCModel("opus-5-fast", "opus", FALSE, TRUE, {"high"}),
           MCModel("haiku-5-d", "haiku", TRUE, FALSE, {})>> @@
    2 :> <<>>
MCClient == {eager, k2, k3}
MCFamily == {"opus", "sonnet", "haiku"}
MCAlias == [f \in MCFamily |-> "opus-5"]
MCUnpublished == {"new"}

MCLabel == {"a", "b"}

MCTrace == {t1, t2}
MCKind == t1 :> "chatStream" @@ t2 :> "fim"

MCFirst == {"k1", "k2"}

----------------------------------------------------------------------------
MCOriginal == "mcp_A" :> "a" @@ "mcp_B" :> "b"
MCStopReason == {"tool_use", "refusal"}
MCStartUsage == {[input |-> 3, cached |-> 1, creation |-> 0]}
MCOutputTokens == {4}

(* Requests that combine options that meet: those of the model, pictures,   *)
(* how tools are chosen, and what shares the budget of marks.               *)
MCPlain ==
    [route |-> "chat", model |-> "new", suffix |-> "unset", effort |-> "unset",
     structured |-> FALSE, temperature |-> "unset", maxTokens |-> 0, image |-> FALSE,
     tools |-> {}, history |-> {}, choice |-> "unset", parallel |-> TRUE,
     identity |-> "unset", runtime |-> "unset", stop |-> {}, users |-> 1, errors |-> 0]
MCRoute == {"chat", "completions", "count"}
MCAsked == {"new", "old", "gone"}
MCOfModel ==
    {[MCPlain EXCEPT !.model = m, !.suffix = s, !.effort = e, !.structured = x,
                     !.temperature = t, !.route = r] :
        m \in MCAsked, s \in {"unset", "high"}, e \in {"unset", "default", "max"},
        x \in BOOLEAN, t \in {"unset", "0"}, r \in MCRoute}
MCOfImage ==
    {[MCPlain EXCEPT !.model = m, !.image = TRUE, !.errors = e, !.route = r] :
        m \in MCAsked, e \in {0, 2}, r \in MCRoute}
MCOfTools ==
    {[MCPlain EXCEPT !.tools = {"f"}, !.history = h, !.choice = c, !.parallel = p] :
        h \in {{}, {"g"}}, c \in {"none", "required", "f", "g", "unset"}, p \in BOOLEAN}
MCOfMarks ==
    {[MCPlain EXCEPT !.tools = t, !.choice = "f", !.users = u, !.identity = i,
                     !.runtime = y, !.route = r, !.stop = {"", "end"}] :
        t \in {{}, {"f"}}, u \in {0, 2}, i \in {"on", "off"}, y \in {"unset", "text"},
        r \in MCRoute}
MCRequest == MCOfModel \cup MCOfImage \cup MCOfTools \cup MCOfMarks
MCEntry(id, supports, levels) ==
    [id |-> id, supports |-> supports, levels |-> levels, maxTokens |-> 8]
MCLive == {{MCEntry("new", {"adaptive", "effort", "image"}, {"high"}), MCEntry("old", {}, {"max"})},
           {MCEntry("new", {}, {"high"})}}
MCRefusal == {304, 400, 529}
MCModern == {"new"}
MCOlder == {"old"}

MCReadKind == {[path |-> "/v1/chat/completions", infers |-> TRUE, words |-> {"claude"}],
               [path |-> "/api/keys", infers |-> FALSE, words |-> {}]}
MCReadKey == {1}
MCTokens == {2}
MCEnd == {[status |-> 200, duration |-> 1], [status |-> 500, duration |-> 4]}
MCWord == {"claude", "laude"}
MCPrefixed == {<<w, w>> : w \in MCWord}
MCOne == {1}
MCInside == MCPrefixed \cup {<<"laude", "claude">>}
Reads == INSTANCE TelemetryReads WITH
    now <- clock, rows <- table, Key <- MCReadKey, Kind <- MCReadKind,
    Tokens <- MCTokens, End <- MCEnd, Word <- MCWord, Prefixed <- MCPrefixed,
    Inside <- MCInside, UsageWindow <- 0, SampleCap <- 2, ListLimit <- 2, PageMax <- 2,
    ExportMax <- 2, Asked <- MCOne, MaxRows <- 3, MaxTime <- 1

MCMany == {9}
MCFinish == {[status |-> 200, threw |-> FALSE], [status |-> 500, threw |-> TRUE]}
Journal == INSTANCE EventLog WITH
    now <- tick, requests <- came, events <- journal, End <- MCFinish,
    PageDefault <- 2, PageMax <- 3, ExportMax <- 4, Asked <- MCMany,
    MaxRequests <- 2, MaxTroubles <- 1, MaxFaults <- 1, MaxTime <- 1

(* A day of six hours, and changes at every hour of three days.             *)
MCOffset == {-2, -1}
MCHour == 0..21
MCDate == {6, 12}

MCQuery == {"requests"}

ASSUME MCConstantsOK ==
    /\ CallConstantsOK /\ TalkConstantsOK /\ CatalogConstantsOK /\ KeyConstantsOK
    /\ StoreConstantsOK /\ SessionConstantsOK /\ AnswerConstantsOK
    /\ OptionConstantsOK /\ Reads!ConstantsOK /\ Journal!ConstantsOK
    /\ DateConstantsOK /\ SignConstantsOK /\ ResolutionConstantsOK

----------------------------------------------------------------------------
MCInit ==
    /\ subject \in {"calls", "talk", "models", "keys", "store", "session",
                    "answers", "options", "reads", "log", "dates", "sign"}
    /\ CallInit /\ CatalogInit /\ StoreInit /\ SessionInit
    /\ TalkInit /\ (hasSystem <=> tools # {}) /\ (subject = "talk" \/ tools = {})
    /\ KeyInit /\ keys[1].label = "a"
    /\ AnswerInit /\ OptionInit /\ Reads!Init /\ Journal!Init /\ SignInit
    /\ DateInit
    /\ subject = "dates" \/ (zone = [before |-> -1, after |-> -1, at |-> 0]
                              /\ row = [sec |-> 0, ms |-> 0])

MCCalls ==
    /\ subject = "calls"
    /\ UNCHANGED <<subject, talkVars, modelVars, keyVars, storeVars, sessionVars,
                   answerVars, optionVars, readVars, logVars, dateVars, signVars>>
    /\ CallNext

MCTalk ==
    /\ subject = "talk"
    /\ UNCHANGED <<subject, callVars, modelVars, keyVars, storeVars, sessionVars,
                   answerVars, optionVars, readVars, logVars, dateVars, signVars>>
    /\ TalkNext

MCModels ==
    /\ subject = "models"
    /\ UNCHANGED <<subject, callVars, talkVars, keyVars, storeVars, sessionVars,
                   answerVars, optionVars, readVars, logVars, dateVars, signVars>>
    /\ CatalogNext

MCKeys ==
    /\ subject = "keys"
    /\ UNCHANGED <<subject, callVars, talkVars, modelVars, storeVars, sessionVars,
                   answerVars, optionVars, readVars, logVars, dateVars, signVars>>
    /\ KeyNext

MCStore ==
    /\ subject = "store"
    /\ UNCHANGED <<subject, callVars, talkVars, modelVars, keyVars, sessionVars,
                   answerVars, optionVars, readVars, logVars, dateVars, signVars>>
    /\ StoreNext

MCSession ==
    /\ subject = "session"
    /\ UNCHANGED <<subject, callVars, talkVars, modelVars, keyVars, storeVars,
                   answerVars, optionVars, readVars, logVars, dateVars, signVars>>
    /\ SessionNext

MCAnswers ==
    /\ subject = "answers"
    /\ UNCHANGED <<subject, callVars, talkVars, modelVars, keyVars, storeVars,
                   sessionVars, optionVars, readVars, logVars, dateVars, signVars>>
    /\ AnswerNext

MCOptions ==
    /\ subject = "options"
    /\ UNCHANGED <<subject, callVars, talkVars, modelVars, keyVars, storeVars,
                   sessionVars, answerVars, readVars, logVars, dateVars, signVars>>
    /\ OptionNext

MCReads ==
    /\ subject = "reads"
    /\ UNCHANGED <<subject, callVars, talkVars, modelVars, keyVars, storeVars,
                   sessionVars, answerVars, optionVars, logVars, dateVars, signVars>>
    /\ Reads!Next

MCLog ==
    /\ subject = "log"
    /\ UNCHANGED <<subject, callVars, talkVars, modelVars, keyVars, storeVars,
                   sessionVars, answerVars, optionVars, readVars, dateVars, signVars>>
    /\ Journal!Next

MCDates ==
    /\ subject = "dates"
    /\ UNCHANGED <<subject, callVars, talkVars, modelVars, keyVars, storeVars,
                   sessionVars, answerVars, optionVars, readVars, logVars, signVars>>
    /\ DateNext

MCSigns ==
    /\ subject = "sign"
    /\ UNCHANGED <<subject, callVars, talkVars, modelVars, keyVars, storeVars,
                   sessionVars, answerVars, optionVars, readVars, logVars, dateVars>>
    /\ SignNext

MCNext ==
    \/ MCCalls \/ MCTalk \/ MCModels \/ MCKeys \/ MCStore \/ MCSession
    \/ MCAnswers \/ MCOptions \/ MCReads \/ MCLog \/ MCDates \/ MCSigns

MCSpec ==
    /\ MCInit
    /\ [][MCNext]_<<subject, callVars, talkVars, modelVars, keyVars, storeVars,
                     sessionVars, answerVars, optionVars, readVars, logVars, dateVars, signVars>>

MCTypeOK ==
    CASE subject = "calls"   -> CallTypeOK
      [] subject = "talk"    -> TalkTypeOK
      [] subject = "models"  -> CatalogTypeOK
      [] subject = "keys"    -> KeyTypeOK
      [] subject = "store"   -> StoreTypeOK
      [] subject = "session" -> SessionTypeOK
      [] subject = "answers" -> AnswerTypeOK
      [] subject = "options" -> OptionTypeOK
      [] subject = "reads"   -> Reads!TypeOK
      [] subject = "log"     -> Journal!TypeOK
      [] subject = "dates"   -> DateTypeOK
      [] subject = "sign"    -> SignTypeOK

(* The properties of the parts that are instantiated, as their modules state *)
(* them; those of the others are in scope and hold where nothing moves.     *)
ReadsAgree ==
    /\ subject = "reads" => Reads!ReadsAgree
    /\ subject = "log" => Journal!LogAgrees
=============================================================================
