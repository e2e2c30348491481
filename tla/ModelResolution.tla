--------------------------- MODULE ModelResolution ---------------------------
(***************************************************************************)
(* resolveModel of src/domain/models.ts: what a client's model string      *)
(* means by the registry of the moment, which ModelCatalog keeps.          *)
(***************************************************************************)
EXTENDS ModelCatalog

CONSTANTS
    Family,         \* sonnet, opus, haiku, fable
    StaticAlias,    \* STATIC_ALIASES
    DefaultId,      \* claude-sonnet-4-6
    Unpublished     \* claude-* ids a client may name though no catalog has them

(* Resolution of a client's model string in catalog version v.  An input   *)
(* has a name (an id, a family, or neither) and an effort suffix; the       *)
(* openai/ and claude-local/ prefixes are stripped and tell nothing apart.  *)

\* "gpt-4" and the like: not a claude- id and not a family
Foreign == "foreign"
ClaudeId == UNION {IdsOf(v) : v \in 0..MaxVersion} \cup Unpublished

(* A catalog is an array of models, and neither a family nor a foreign name *)
(* starts with claude-.                                                     *)
ResolutionConstantsOK ==
    /\ \A v \in 0..MaxVersion : Len(Catalog[v]) \in Nat /\ DOMAIN Catalog[v] = 1..Len(Catalog[v])
    /\ (Family \cup {Foreign}) \cap ClaudeId = {}

(* Fast variants are no answer to a family; an undated id is preferred, and *)
(* of those the first in the catalog's order.                               *)
FamilyMembers(f, v) ==
    {i \in DOMAIN Catalog[v] : Catalog[v][i].family = f /\ ~Catalog[v][i].fast}

First(places) == CHOOSE i \in places : \A j \in places : i <= j

ResolveFamilyAlias(f, v) ==
    LET members == FamilyMembers(f, v)
        undated == {i \in members : ~Catalog[v][i].dated}
    IN  Catalog[v][First(IF undated # {} THEN undated ELSE members)].id

(* STATIC_ALIASES, then the default or the head of the catalog.             *)
LastResort(name, v) ==
    IF name \in Family /\ StaticAlias[name] \in IdsOf(v) THEN StaticAlias[name]
    ELSE IF DefaultId \in IdsOf(v) \/ Catalog[v] = <<>> THEN DefaultId
    ELSE Head(Catalog[v]).id

\* Mutant of ResolveModel: an id the catalog does not have gets the default.
ResolveModelMasking(name, v) ==
    IF name \in IdsOf(v) THEN name
    ELSE IF name \in Family /\ FamilyMembers(name, v) # {} THEN ResolveFamilyAlias(name, v)
    ELSE LastResort(name, v)

ResolveModel(name, v) ==
    IF name \in IdsOf(v) THEN name
    ELSE IF name \in Family /\ FamilyMembers(name, v) # {} THEN ResolveFamilyAlias(name, v)
    ELSE IF name \in ClaudeId THEN name
    ELSE LastResort(name, v)

(* resolveModelVariant: a suffix the model does not support is dropped.     *)
ResolveModelVariant(name, level, v) ==
    LET id == ResolveModel(name, v)
    IN  [id |-> id, effort |-> IF level \in LevelsOf(id, v) THEN level ELSE NoLevel]

----------------------------------------------------------------------------
(* The ids and efforts of all listings that mean themselves in a version,   *)
(* and the versions in which every other name gets a model of the registry. *)
MeanThemselves ==
    [v \in 0..MaxVersion |->
       {e \in Listable :
          ResolveModelVariant(e[1], e[2], v) =
            [id |-> e[1], effort |-> IF e[2] \in LevelsOf(e[1], v) THEN e[2] ELSE NoLevel]}]
AnswerAnyName ==
    {v \in 0..MaxVersion : Catalog[v] # <<>> =>
       \A name \in Family \cup {Foreign} : ResolveModel(name, v) \in IdsOf(v)}

(* An id that /v1/models once listed still means that model to a chat,      *)
(* though the registry has been replaced since or has forgotten it, and its *)
(* effort is kept while the model has it; a family or foreign name gets a   *)
(* model the registry lists.                                                *)
ListedResolves == advertised \subseteq MeanThemselves[registry] /\ registry \in AnswerAnyName
=============================================================================
