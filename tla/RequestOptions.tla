--------------------------- MODULE RequestOptions ---------------------------
(***************************************************************************)
(* The options of a request (src/transform/openai-to-anthropic.ts, all but *)
(* its messages, which are Conversation), by what src/domain/models.ts     *)
(* knows of the model: upstream's catalog once a fetch has succeeded, the  *)
(* fallback catalog before.  Three routes send what comes of it: chat,     *)
(* completions, and the token count, which projects it                     *)
(* (src/http/routes/tokens.ts).                                            *)
(***************************************************************************)
EXTENDS Naturals, Sequences, FiniteSets, FiniteSetsExt

CONSTANTS
    Modern, Older,  \* ids of FALLBACK_MODELS, with and without capabilities
    Live,           \* catalogs upstream may publish: the raw entry of each id
    Request,        \* requests clients make
    Failure         \* statuses upstream may refuse a token count with

(* A request's fields; "unset" is an absent one.                            *)
RequestFields == {"route", "model", "suffix", "effort", "structured", "temperature",
                  "maxTokens", "image", "tools", "history", "choice", "parallel",
                  "identity", "runtime", "stop", "users", "errors"}

(* What a model's values of the constants satisfy: a request has its fields *)
(* and counts, a catalog an entry for each id, as indexById leaves it, and  *)
(* no level is named like what OutputConfig says besides.                   *)
OptionConstantsOK ==
    /\ Modern \cap Older = {}
    /\ \A q \in Request :
         /\ q = [f \in RequestFields |-> q[f]]
         /\ {q.structured, q.image, q.parallel} \subseteq BOOLEAN
         /\ {q.maxTokens, q.users, q.errors} \subseteq Nat
    /\ \A catalog \in Live :
         /\ \A a, b \in catalog : a.id = b.id => a = b
         /\ \A raw \in catalog : raw.levels \cap {"unset", "format"} = {}
    /\ Failure \subseteq 300..599

VARIABLES
    liveCatalog,    \* {} for null, or {the catalog}
    request,        \* the request of this behaviour
    outcome,        \* what went upstream, or a refusal
    reply,          \* the status of a token count's answer; 0, none
    \* history
    declared,       \* that catalog as upstream put it
    counted         \* upstream has counted

optionVars == <<liveCatalog, request, outcome, reply, declared, counted>>

Unset == "unset"
NoRequest == [route |-> Unset]
Nothing == [sent |-> FALSE, status |-> 0]
Refused == [sent |-> FALSE, status |-> 400]

OptionInit ==
    /\ liveCatalog = {} /\ declared = {}
    /\ request = NoRequest /\ outcome = Nothing
    /\ reply = 0 /\ counted = FALSE

----------------------------------------------------------------------------
(* The registry.                                                            *)

MakeFallback(id) ==
    [id |-> id, adaptive |-> id \in Modern, outputEffort |-> id \in Modern,
     levels |-> IF id \in Modern THEN {"low", "medium", "high", "max"} ELSE {},
     image |-> FALSE, maxOutput |-> 0]
FallbackModels == {MakeFallback(id) : id \in Modern \cup Older}

(* What a model supports upstream says flag by flag; a level counts only    *)
(* under a supported effort.                                                *)
ExtractEffortLevels(raw) == IF "effort" \in raw.supports THEN raw.levels ELSE {}
Normalize(raw) ==
    [id |-> raw.id, adaptive |-> "adaptive" \in raw.supports,
     outputEffort |-> "effort" \in raw.supports, levels |-> ExtractEffortLevels(raw),
     image |-> "image" \in raw.supports, maxOutput |-> raw.maxTokens]

Refreshed(catalog) ==
    /\ request = NoRequest
    /\ liveCatalog' = {{Normalize(raw) : raw \in catalog}}
    /\ declared' = {catalog}
    /\ UNCHANGED <<request, outcome, reply, counted>>

CurrentCatalog == IF liveCatalog = {} THEN FallbackModels ELSE UNION liveCatalog
Entry(id) == {e \in CurrentCatalog : e.id = id}

\* Mutant of GetModelCapabilities: fallback data counts as verified.
GetModelCapabilitiesTrusting(id) ==
    [adaptive |-> \E e \in Entry(id) : e.adaptive,
     outputEffort |-> \E e \in Entry(id) : e.outputEffort,
     image |-> \E e \in Entry(id) : e.image,
     verified |-> Entry(id) # {}]

GetModelCapabilities(id) ==
    [adaptive |-> \E e \in Entry(id) : e.adaptive,
     outputEffort |-> \E e \in Entry(id) : e.outputEffort,
     image |-> \E e \in Entry(id) : e.image,
     verified |-> Entry(id) # {} /\ liveCatalog # {}]
GetEffortLevels(id) == UNION {e.levels : e \in Entry(id)}

(* An undeclared limit is 0.                                                *)
GetModelLimits(id) == Max({0} \cup {e.maxOutput : e \in Entry(id)})

----------------------------------------------------------------------------
(* openaiToAnthropic.                                                       *)

(* resolveModelVariant's effort: a level of the model, or none.             *)
SuffixEffort(q) == IF q.suffix \in GetEffortLevels(q.model) THEN q.suffix ELSE Unset

ResolveEffort(q) ==
    LET requested == IF q.effort # Unset THEN q.effort ELSE SuffixEffort(q)
    IN  IF requested \in GetEffortLevels(q.model) THEN requested ELSE Unset

ImageRefused(q) ==
    LET caps == GetModelCapabilities(q.model)
    IN  q.image /\ ~caps.image /\ caps.verified

Thinks(q) == GetModelCapabilities(q.model).adaptive /\ ~q.structured

Temperature(q) ==
    IF Thinks(q) THEN "1"
    ELSE IF q.temperature # Unset THEN q.temperature
    ELSE IF q.structured THEN "1" ELSE Unset

OutputConfig(q) ==
    IF q.structured THEN "format"
    ELSE IF GetModelCapabilities(q.model).outputEffort THEN ResolveEffort(q) ELSE Unset

(* CLAUDE_CODE_IDENTITY is off unless the environment turns it on.          *)
IncludeIdentity(q) == q.identity = "on"

(* system[]: billing first, the runtime's text last and never marked.       *)
System(q) ==
    <<[says |-> "billing", marked |-> FALSE]>>
    \o (IF IncludeIdentity(q) THEN <<[says |-> "identity", marked |-> TRUE]>> ELSE <<>>)
    \o (IF q.runtime = "text" THEN <<[says |-> "runtime", marked |-> FALSE]>> ELSE <<>>)

(* The marks on the last user messages take what system and tools leave.    *)
Budget(q) == 4 - (IF IncludeIdentity(q) THEN 1 ELSE 0) - (IF q.tools # {} THEN 1 ELSE 0)
MessageMarks(q) ==
    IF Budget(q) <= 0 \/ q.users = 0 THEN 0
    ELSE IF Budget(q) >= 2 /\ q.users >= 2 THEN 2 ELSE 1

(* The map also has the names of calls in the history.                      *)
Mapped(q) == q.tools \cup q.history
ToolChoice(q) ==
    IF q.tools = {} THEN [type |-> Unset, serial |-> FALSE]
    ELSE IF q.choice = "none" THEN [type |-> "none", serial |-> FALSE]
    ELSE IF q.choice = "required" THEN [type |-> "any", serial |-> ~q.parallel]
    ELSE IF q.choice \in Mapped(q)
         THEN [type |-> "tool", name |-> q.choice, serial |-> ~q.parallel]
    ELSE [type |-> "auto", serial |-> ~q.parallel]

(* The sequences a request asks to stop at, as a set.                       *)
StopSequences(q) == q.stop \ {""}

OpenaiToAnthropic(q) ==
    [sent |-> TRUE, model |-> q.model,
     maxTokens |-> IF q.maxTokens # 0 THEN q.maxTokens
                   ELSE IF GetModelLimits(q.model) # 0 THEN GetModelLimits(q.model) ELSE 64000,
     system |-> System(q), messageMarks |-> MessageMarks(q), users |-> q.users,
     temperature |-> Temperature(q), thinking |-> Thinks(q), outputConfig |-> OutputConfig(q),
     tools |-> q.tools, choice |-> ToolChoice(q), stop |-> StopSequences(q), image |-> q.image]

----------------------------------------------------------------------------
(* The routes.                                                              *)

\* config.ts line 38.
MaxConsecutiveToolErrors == 2

(* buildFimMessages and chatBody of handleCompletions: one user message,    *)
(* no tools, no effort, no identity, whatever else the body says.           *)
Completion ==
    [users |-> 1, tools |-> {}, history |-> {}, choice |-> Unset, parallel |-> TRUE,
     effort |-> Unset, structured |-> FALSE, image |-> FALSE, identity |-> "off",
     runtime |-> Unset]
ChatBody(q) == [f \in DOMAIN q |-> IF f \in DOMAIN Completion THEN Completion[f] ELSE q[f]]

(* Keys beyond COUNT_TOKENS_ALLOWED_KEYS are dropped, and the marks on      *)
(* system and messages; those on tools are not.                             *)
ProjectForCountTokens(b) ==
    [b EXCEPT !.system = [i \in DOMAIN @ |-> [@[i] EXCEPT !.marked = FALSE]],
              !.messageMarks = 0, !.maxTokens = 0, !.temperature = Unset,
              !.thinking = FALSE, !.outputConfig = Unset, !.stop = {}]

(* A request is answered by the registry of the moment: nothing awaits      *)
(* between its reads.  It leaves nothing to another one.                    *)
Answered(q, o) ==
    /\ request = NoRequest /\ request' = q /\ outcome' = o
    /\ UNCHANGED <<liveCatalog, declared, reply, counted>>

Chat(q) ==
    /\ q.route = "chat"
    /\ Answered(q, IF q.errors >= MaxConsecutiveToolErrors \/ ImageRefused(q) THEN Refused
                   ELSE OpenaiToAnthropic(q))

Completions(q) ==
    /\ q.route = "completions"
    /\ Answered(q, OpenaiToAnthropic(ChatBody(q)))

TokensCount(q) ==
    /\ q.route = "count"
    /\ Answered(q, IF ImageRefused(q) THEN Refused
                   ELSE ProjectForCountTokens(OpenaiToAnthropic(q)))

(* countTokens answers or throws; the route forwards a status that is one   *)
(* of an error.                                                             *)
ReplyTo(refusal) == IF refusal >= 400 THEN refusal ELSE 502
CountWaits == outcome.sent /\ request.route = "count" /\ reply = 0

CountTokens ==
    /\ CountWaits
    /\ reply' = 200 /\ counted' = TRUE
    /\ UNCHANGED <<liveCatalog, declared, request, outcome>>

CountTokensRefused ==
    /\ CountWaits
    /\ \E refusal \in Failure : reply' = ReplyTo(refusal)
    /\ UNCHANGED <<liveCatalog, declared, request, outcome, counted>>

(* An answer without a number is upstream's 500; no credential, or none of  *)
(* an answer, the route's own.                                              *)
CountTokensFails ==
    /\ CountWaits
    /\ reply' = 500
    /\ UNCHANGED <<liveCatalog, declared, request, outcome, counted>>

OptionNext ==
    \/ CountTokens \/ CountTokensRefused \/ CountTokensFails
    \/ \E catalog \in Live : Refreshed(catalog)
    \/ \E q \in Request : Chat(q) \/ Completions(q) \/ TokensCount(q)

OptionSpec == OptionInit /\ [][OptionNext]_optionVars

----------------------------------------------------------------------------
OptionTypeOK ==
    /\ declared \in SUBSET Live /\ Cardinality(liveCatalog) = Cardinality(declared)
    /\ Cardinality(liveCatalog) <= 1
    /\ reply \in {0, 200} \cup 400..599 /\ counted \in BOOLEAN
    /\ request \in Request \cup {NoRequest}
    /\ outcome.sent \in BOOLEAN

(* What upstream takes for a model: what it published, flag by flag, or,    *)
(* before it did, what the fallback catalog says of the ids it names.       *)
Takes(id, flag, level) ==
    IF declared = {}
    THEN flag \in {"adaptive", "effort"} /\ id \in Modern
    ELSE \E raw \in UNION declared :
            /\ raw.id = id /\ flag \in raw.supports
            /\ flag = "effort" => level \in raw.levels

(* Thinking goes with temperature 1 and without a schema, an effort is a    *)
(* level of the model as declared and never beside a schema, marks are at   *)
(* most four and never on the runtime's text, a call that must not run is   *)
(* not told to run serially, and no stop sequence is empty.                 *)
ThinkingFits(o) ==
    o.thinking => /\ o.temperature = "1" /\ o.outputConfig # "format"
                  /\ Takes(o.model, "adaptive", Unset)
EffortFits(o) ==
    o.outputConfig \notin {Unset, "format"} => Takes(o.model, "effort", o.outputConfig)
SystemFits(o) ==
    /\ o.system[1].says = "billing"
    /\ \A i \in DOMAIN o.system : o.system[i].says = "runtime" => ~o.system[i].marked
    /\ Cardinality({i \in DOMAIN o.system : o.system[i].marked}) + o.messageMarks
         + (IF o.tools # {} THEN 1 ELSE 0) <= 4
ChoiceFits(o) ==
    /\ o.choice.type = "none" => ~o.choice.serial
    /\ o.choice.type # Unset => o.tools # {}
    /\ "" \notin o.stop
BodyConsistent(o) == ThinkingFits(o) /\ EffortFits(o) /\ SystemFits(o) /\ ChoiceFits(o)

(* A picture is refused only when upstream's own catalog says the model     *)
(* takes none: what is not known is forwarded.                              *)
ImagesFailOpen ==
    request.route \in {"chat", "count"} /\ request.image
        /\ (request.route = "chat" => request.errors < MaxConsecutiveToolErrors) =>
      (~outcome.sent <=>
         \E raw \in UNION declared : raw.id = request.model /\ "image" \notin raw.supports)

Bare(o) ==
    /\ o.messageMarks = 0 /\ ~o.thinking /\ o.outputConfig = Unset
    /\ \A i \in DOMAIN o.system : ~o.system[i].marked

(* What the count is asked for is the chat's system, messages and tools,    *)
(* and it succeeds exactly when upstream counted.                           *)
CountsTheChat ==
    outcome.sent /\ request.route = "count" => (reply = 200 <=> counted) /\ Bare(outcome)

(* Whatever a client combines and whatever catalog is in force, the body    *)
(* that goes upstream is one it takes (openai-to-anthropic.ts lines         *)
(* 684-760, tokens.ts lines 50-55), and only a picture that is known not to *)
(* be taken is refused.                                                     *)
OptionsAccepted == (outcome.sent => BodyConsistent(outcome)) /\ ImagesFailOpen /\ CountsTheChat
=============================================================================
