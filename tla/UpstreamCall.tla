---------------------------- MODULE UpstreamCall ----------------------------
(***************************************************************************)
(* callAnthropic of src/upstream/anthropic-client.ts: one client request   *)
(* sent upstream in a loop whose every turn consumes one of four budgets   *)
(* (401 recoveries, beta exclusions, one token re-read, rate-limit         *)
(* retries), with the per-model set of refused betas of beta-exclusion.ts  *)
(* that all calls of a model share.                                        *)
(*                                                                         *)
(* A step is the code between two awaits.  An answer is what the code      *)
(* distinguishes of a response: its status, and whether it is a            *)
(* long-context error, an entitlement denial, or asks for a wait above     *)
(* MAX_RETRY_AFTER_MS ("capped").  The store and the memory of the         *)
(* credentials are CredentialRefresh's: other calls, processes and the CLI *)
(* change them at any time, so here a read of them gives any token.        *)
(***************************************************************************)
EXTENDS Naturals, FiniteSets

CONSTANTS
    Call,           \* calls of callAnthropic
    Model,          \* model ids
    ModelOf,        \* the model each call is for
    LongBetas,      \* LONG_CONTEXT_BETAS
    Token,          \* access tokens
    NoToken,        \* no usable credential
    MaxAuth,        \* MAX_AUTH_RECOVERY_ATTEMPTS
    MaxRetries      \* MAX_RETRIES

(* What a model's values of the constants satisfy.                          *)
CallConstantsOK ==
    /\ ModelOf \in [Call -> Model]
    /\ IsFiniteSet(LongBetas)
    /\ NoToken \notin Token
    /\ MaxAuth \in Nat /\ MaxRetries \in Nat

Response ==
    [status : {200, 400, 401, 429, 500, 529}, body : {"plain"}]
    \cup [status : {400, 429}, body : {"long"}]
    \cup [status : {429}, body : {"entitlement"}]
    \cup [status : {429, 529}, body : {"capped"}]

VARIABLES
    \* shared by all calls of the process
    excluded,       \* `excludedBetas`
    \* a call
    pc,             \* where it is
    token,          \* `token`
    tracked,        \* its `excluded` is the model's own set, not a fresh empty one
    exclusions,     \* the betas counted by `betaExclusionAttempts`
    auth,           \* `authRecoveryAttempts`
    retries,        \* `rateLimitRetries`
    rotationChecked,
    sent,           \* the long-context betas on its last request
    result,         \* how it ended
    \* history
    warned,         \* betas the model had refused before the call began, and its own
    requests        \* requests it has sent, counted to one above the bound

budgets == <<exclusions, auth, retries, rotationChecked>>
call == <<pc, token, tracked, budgets, sent, result, warned, requests>>
callVars == <<excluded, call>>

Pc == {"idle", "ready", "waiting", "refreshing", "backoff", "ended"}
Result == {"none", "ok", "long", "error"}

M(c) == ModelOf[c]

(* One request to begin with, one per unit of the four budgets.             *)
RequestBound == 2 + MaxAuth + Cardinality(LongBetas) + MaxRetries

CallInit ==
    /\ excluded = [m \in Model |-> {}]
    /\ pc = [c \in Call |-> "idle"]
    /\ token \in [Call -> {NoToken}]
    /\ tracked = [c \in Call |-> FALSE]
    /\ exclusions = [c \in Call |-> {}]
    /\ auth = [c \in Call |-> 0]
    /\ retries = [c \in Call |-> 0]
    /\ rotationChecked = [c \in Call |-> FALSE]
    /\ sent = [c \in Call |-> {}]
    /\ result = [c \in Call |-> "none"]
    /\ warned = [c \in Call |-> {}]
    /\ requests = [c \in Call |-> 0]

(* The fetch at the head of the loop, with buildHeaders: the betas in the   *)
(* call's `excluded` are filtered out of the header.                        *)
Post(c, view) ==
    /\ pc' = [pc EXCEPT ![c] = "waiting"]
    /\ sent' = [sent EXCEPT ![c] = LongBetas \ view]
    /\ requests' = [requests EXCEPT ![c] = IF @ > RequestBound THEN @ ELSE @ + 1]

View(c) == IF tracked[c] THEN excluded[M(c)] ELSE {}

Finish(c, r) ==
    /\ pc' = [pc EXCEPT ![c] = "ended"]
    /\ result' = [result EXCEPT ![c] = r]

Start(c) ==
    /\ pc[c] = "idle"
    /\ token' \in {[token EXCEPT ![c] = t] : t \in Token}
    /\ tracked' = [tracked EXCEPT ![c] = excluded[M(c)] # {}]
    /\ warned' = [warned EXCEPT ![c] = excluded[M(c)]]
    /\ Post(c, excluded[M(c)])
    /\ UNCHANGED <<excluded, budgets, result>>

----------------------------------------------------------------------------
(* What the loop does with an answer, in the order of the code.             *)

Waiting(c) == pc[c] = "waiting"

Succeed(c, a) ==
    /\ Waiting(c) /\ a.status = 200
    /\ Finish(c, "ok")
    /\ UNCHANGED <<excluded, token, tracked, budgets, sent, warned, requests>>

FetchThrows(c) ==
    /\ Waiting(c)
    /\ Finish(c, "error")
    /\ UNCHANGED <<excluded, token, tracked, budgets, sent, warned, requests>>

(* A 401 within its budget: recoverRejectedToken adopts the stored token    *)
(* when it is another than the rejected one, else forces a refresh.         *)
Recover(c, a) ==
    /\ Waiting(c) /\ a.status = 401 /\ auth[c] < MaxAuth
    /\ auth' = [auth EXCEPT ![c] = @ + 1]
    /\ \/ /\ token' \in {[token EXCEPT ![c] = t] : t \in Token \ {token[c]}}
          /\ pc' = [pc EXCEPT ![c] = "ready"]
       \/ /\ pc' = [pc EXCEPT ![c] = "refreshing"]
          /\ UNCHANGED token
    /\ UNCHANGED <<excluded, tracked, exclusions, retries, rotationChecked,
                   sent, result, warned, requests>>

(* The forced refresh brings another token, or nothing new: then the        *)
(* original 401 is surfaced.                                                *)
RefreshReturns(c) ==
    /\ pc[c] = "refreshing"
    /\ \E t \in Token \cup {NoToken} :
         IF t \in Token \ {token[c]}
         THEN /\ token' = [token EXCEPT ![c] = t]
              /\ pc' = [pc EXCEPT ![c] = "ready"]
              /\ UNCHANGED result
         ELSE Finish(c, "error") /\ UNCHANGED token
    /\ UNCHANGED <<excluded, tracked, budgets, sent, warned, requests>>

Resend(c) ==
    /\ pc[c] = "ready"
    /\ Post(c, View(c))
    /\ UNCHANGED <<excluded, token, tracked, budgets, result, warned>>

(* betaExclusionAttempts < LONG_CONTEXT_BETAS.length, and getNextBetaToExclude *)
(* has one.  The list has one entry, so its order does not matter.             *)
Excludable(c, a) ==
    /\ a.body = "long"
    /\ Cardinality(exclusions[c]) < Cardinality(LongBetas)
    /\ excluded[M(c)] # LongBetas

\* Mutant of Exclude: `excluded` is not read again after addExcludedBeta.
ExcludeUnread(c, a) ==
    /\ Waiting(c) /\ Excludable(c, a)
    /\ \E b \in LongBetas \ excluded[M(c)] :
         /\ excluded' = [excluded EXCEPT ![M(c)] = @ \cup {b}]
         /\ exclusions' = [exclusions EXCEPT ![c] = @ \cup {b}]
         /\ warned' = [warned EXCEPT ![c] = @ \cup {b}]
         /\ Post(c, IF tracked[c] THEN excluded'[M(c)] ELSE {})
    /\ UNCHANGED <<token, tracked, auth, retries, rotationChecked, result>>

Exclude(c, a) ==
    /\ Waiting(c) /\ Excludable(c, a)
    /\ \E b \in LongBetas \ excluded[M(c)] :
         /\ excluded' = [excluded EXCEPT ![M(c)] = @ \cup {b}]
         /\ exclusions' = [exclusions EXCEPT ![c] = @ \cup {b}]
         /\ warned' = [warned EXCEPT ![c] = @ \cup {b}]
         /\ Post(c, excluded'[M(c)])
    /\ tracked' = [tracked EXCEPT ![c] = TRUE]
    /\ UNCHANGED <<token, auth, retries, rotationChecked, result>>

(* credits_required: surfaced as 403 without backoff or rotation.           *)
Deny(c, a) ==
    /\ Waiting(c) /\ a.body = "entitlement"
    /\ Finish(c, "error")
    /\ UNCHANGED <<excluded, token, tracked, budgets, sent, warned, requests>>

(* The rate limit may be over elsewhere: the stored token is read again,    *)
(* once, and a changed one is tried at once.                                *)
RotationDue(c, a) ==
    a.status = 429 /\ a.body # "entitlement" /\ ~Excludable(c, a) /\ ~rotationChecked[c]

Adopt(c) ==
    /\ token' \in {[token EXCEPT ![c] = t] : t \in Token \ {token[c]}}
    /\ Post(c, View(c))

TokenRotated(c, a) ==
    /\ Waiting(c) /\ RotationDue(c, a)
    /\ rotationChecked' = [rotationChecked EXCEPT ![c] = TRUE]
    /\ Adopt(c)
    /\ UNCHANGED <<excluded, tracked, exclusions, auth, retries, result, warned>>

(* The error to surface when nothing is left to try.                        *)
Fail(c, a) == Finish(c, IF a.body = "long" THEN "long" ELSE "error")

(* Neither a success, a 401 that is recovered, an exclusion, a denial nor   *)
(* a rotation: what remains is backoff or the error itself.                 *)
Unresolved(c, a) ==
    /\ Waiting(c)
    /\ a.status # 200
    /\ ~(a.status = 401 /\ auth[c] < MaxAuth)
    /\ ~Excludable(c, a) /\ a.body # "entitlement"

BackOff(c, a) ==
    /\ Unresolved(c, a)
    /\ rotationChecked' = [rotationChecked EXCEPT ![c] = @ \/ RotationDue(c, a)]
    /\ IF a.status \in {429, 529} /\ retries[c] < MaxRetries
       THEN IF a.body = "capped"
            THEN Finish(c, "error") /\ UNCHANGED retries
            ELSE /\ pc' = [pc EXCEPT ![c] = "backoff"]
                 /\ retries' = [retries EXCEPT ![c] = @ + 1]
                 /\ result' = [result EXCEPT ![c] = IF a.body = "long" THEN "long" ELSE "error"]
       ELSE Fail(c, a) /\ UNCHANGED retries
    /\ UNCHANGED <<excluded, token, tracked, exclusions, auth, sent, warned, requests>>

(* sleepUnlessAborted resolves.  By its timer: the loop goes round.  By the *)
(* client's abort, even one from before: the answer that led here is        *)
(* surfaced.                                                                *)
Wake(c) ==
    /\ pc[c] = "backoff"
    /\ Post(c, View(c))
    /\ result' = [result EXCEPT ![c] = "none"]
    /\ UNCHANGED <<excluded, token, tracked, budgets, warned>>

AbortedAsleep(c) ==
    /\ pc[c] = "backoff"
    /\ pc' = [pc EXCEPT ![c] = "ended"]
    /\ UNCHANGED <<excluded, token, tracked, budgets, sent, result, warned, requests>>

CallAnswered(c) ==
    \/ FetchThrows(c)
    \/ \E a \in Response :
         \/ Succeed(c, a) \/ Recover(c, a) \/ Exclude(c, a) \/ Deny(c, a)
         \/ TokenRotated(c, a) \/ BackOff(c, a)

Proceed(c) == Start(c) \/ CallAnswered(c) \/ RefreshReturns(c) \/ Resend(c)
              \/ Wake(c) \/ AbortedAsleep(c)

CallNext == \E c \in Call : Proceed(c)

CallSpec == CallInit /\ [][CallNext]_callVars

----------------------------------------------------------------------------
CallTypeOK ==
    /\ excluded \in [Model -> SUBSET LongBetas]
    /\ pc \in [Call -> Pc]
    /\ token \in [Call -> Token \cup {NoToken}]
    /\ tracked \in [Call -> BOOLEAN]
    /\ exclusions \in [Call -> SUBSET LongBetas]
    /\ auth \in [Call -> 0..MaxAuth]
    /\ retries \in [Call -> 0..MaxRetries]
    /\ rotationChecked \in [Call -> BOOLEAN]
    /\ sent \in [Call -> SUBSET LongBetas]
    /\ result \in [Call -> Result]
    /\ warned \in [Call -> SUBSET LongBetas]
    /\ requests \in [Call -> Nat]

(* A call never sends again a beta it has seen refused, nor one its model   *)
(* had refused before the call began, whichever budget the resend came      *)
(* from and whichever set object its `excluded` is.                         *)
NoRefusedBetaResent == \A c \in Call : pc[c] = "waiting" => sent[c] \cap warned[c] = {}

(* A call that ends on a long-context error has left nothing to drop: the   *)
(* model's whole list is excluded for the calls after it.                   *)
LongContextExhausts ==
    \A c \in Call : pc[c] = "ended" /\ result[c] = "long" => excluded[M(c)] = LongBetas

(* "Every `continue` consumes a bounded budget" (line 103): however the     *)
(* answers alternate, a call sends at most one request per unit of the four *)
(* budgets, after the first.                                                *)
RequestsBounded == \A c \in Call : requests[c] <= RequestBound

(* All three for any order of answers to calls that share the model's list. *)
RetriesSound == NoRefusedBetaResent /\ LongContextExhausts /\ RequestsBounded
=============================================================================
