---------------------------- MODULE UpstreamProofs ----------------------------
(* What goes upstream and what is known of it, for any number of calls,     *)
(* clients, models, betas and versions of the catalog, and any answers.     *)
(*                                                                          *)
(* The retry loop of callAnthropic resends no refused beta, gives up on a   *)
(* long context only when nothing is left to drop, and sends at most one    *)
(* request per unit of its budgets.  The registry of models never goes      *)
(* back, what it has listed keeps its meaning, and a forced refresh of the  *)
(* profile is answered with a fresh one.  Whatever a request combines, the  *)
(* body that goes upstream is one the catalog's model takes.  Proofs of the *)
(* properties of UpstreamCall, ModelCatalog, ModelResolution and            *)
(* RequestOptions.                                                          *)
EXTENDS UpstreamCall, ModelResolution, RequestOptions,
        FiniteSetTheorems, SequenceTheorems, WellFoundedInduction, TLAPS

(* The call's variables are of their types.                                 *)
LEMMA CallTypeInit == ASSUME CallConstantsOK, CallInit PROVE CallTypeOK
<1>1. token \in [Call -> Token \cup {NoToken}]
  BY DEF CallInit
<1>2. auth \in [Call -> 0..MaxAuth] /\ retries \in [Call -> 0..MaxRetries]
  BY DEF CallInit, CallConstantsOK
<1> QED
  BY <1>1, <1>2 DEF CallInit, CallTypeOK, Pc, Result

LEMMA PostType ==
  ASSUME CallTypeOK, NEW c \in Call, NEW view \in SUBSET LongBetas, Post(c, view)
  PROVE  /\ pc' \in [Call -> Pc]
         /\ sent' \in [Call -> SUBSET LongBetas]
         /\ requests' \in [Call -> Nat]
<1>1. pc' \in [Call -> Pc]
  BY DEF Post, CallTypeOK, Pc
<1>2. sent' \in [Call -> SUBSET LongBetas]
  BY DEF Post, CallTypeOK
<1>3. (IF requests[c] > RequestBound THEN requests[c] ELSE requests[c] + 1) \in Nat
  BY DEF CallTypeOK
<1>4. requests' \in [Call -> Nat]
  BY <1>3 DEF Post, CallTypeOK
<1> QED
  BY <1>1, <1>2, <1>4

LEMMA ViewType == ASSUME CallConstantsOK, CallTypeOK, NEW c \in Call
                  PROVE  View(c) \in SUBSET LongBetas /\ excluded[M(c)] \in SUBSET LongBetas
  BY DEF View, CallTypeOK, M, CallConstantsOK

LEMMA EndType ==
  ASSUME CallTypeOK, NEW c \in Call, NEW r \in Result, Finish(c, r)
  PROVE  pc' \in [Call -> Pc] /\ result' \in [Call -> Result]
  BY DEF Finish, CallTypeOK, Pc

LEMMA CallTypeNext == ASSUME CallConstantsOK, CallTypeOK, [CallNext]_callVars PROVE CallTypeOK'
<1>1. ASSUME NEW c \in Call, Start(c) PROVE CallTypeOK'
  <2>1. excluded[M(c)] \in SUBSET LongBetas
    BY ViewType
  <2>2. pc' \in [Call -> Pc] /\ sent' \in [Call -> SUBSET LongBetas] /\ requests' \in [Call -> Nat]
    BY <1>1, <2>1, PostType DEF Start
  <2>3. token' \in [Call -> Token \cup {NoToken}]
    BY <1>1 DEF Start, CallTypeOK
  <2>4. tracked' \in [Call -> BOOLEAN]
    BY <1>1 DEF Start, CallTypeOK
  <2>5. warned' \in [Call -> SUBSET LongBetas]
    BY <1>1, <2>1 DEF Start, CallTypeOK
  <2> QED
    BY <1>1, <2>2, <2>3, <2>4, <2>5 DEF Start, CallTypeOK, budgets
<1>2. ASSUME NEW c \in Call, NEW a \in Response, Succeed(c, a) PROVE CallTypeOK'
  BY <1>2, EndType DEF Succeed, Result, CallTypeOK, budgets
<1>3. ASSUME NEW c \in Call, FetchThrows(c) PROVE CallTypeOK'
  BY <1>3, EndType DEF FetchThrows, Result, CallTypeOK, budgets
<1>4. ASSUME NEW c \in Call, NEW a \in Response, Recover(c, a) PROVE CallTypeOK'
  <2>1. pc' \in [Call -> Pc] /\ token' \in [Call -> Token \cup {NoToken}]
    BY <1>4 DEF Recover, CallTypeOK, Pc
  <2>2. auth[c] + 1 \in 0..MaxAuth
    BY <1>4 DEF Recover, CallTypeOK, CallConstantsOK
  <2>3. auth' \in [Call -> 0..MaxAuth]
    BY <1>4, <2>2 DEF Recover, CallTypeOK
  <2> QED
    BY <1>4, <2>1, <2>3 DEF Recover, CallTypeOK
<1>5. ASSUME NEW c \in Call, RefreshReturns(c) PROVE CallTypeOK'
  <2>1. PICK t \in Token \cup {NoToken} :
          IF t \in Token \ {token[c]}
          THEN token' = [token EXCEPT ![c] = t] /\ pc' = [pc EXCEPT ![c] = "ready"] /\ UNCHANGED result
          ELSE Finish(c, "error") /\ UNCHANGED token
    BY <1>5 DEF RefreshReturns
  <2>2. pc' \in [Call -> Pc] /\ result' \in [Call -> Result]
    BY <2>1, EndType DEF CallTypeOK, Pc, Result
  <2>3. token' \in [Call -> Token \cup {NoToken}]
    BY <2>1 DEF CallTypeOK
  <2> QED
    BY <1>5, <2>2, <2>3 DEF RefreshReturns, CallTypeOK, budgets
<1>6. ASSUME NEW c \in Call, Resend(c) PROVE CallTypeOK'
  <2>1. pc' \in [Call -> Pc] /\ sent' \in [Call -> SUBSET LongBetas] /\ requests' \in [Call -> Nat]
    BY <1>6, ViewType, PostType DEF Resend
  <2> QED
    BY <1>6, <2>1 DEF Resend, CallTypeOK, budgets
<1>7. ASSUME NEW c \in Call, NEW a \in Response, Exclude(c, a) PROVE CallTypeOK'
  <2>1. PICK b \in LongBetas \ excluded[M(c)] :
          /\ excluded' = [excluded EXCEPT ![M(c)] = @ \cup {b}]
          /\ exclusions' = [exclusions EXCEPT ![c] = @ \cup {b}]
          /\ warned' = [warned EXCEPT ![c] = @ \cup {b}]
          /\ Post(c, excluded'[M(c)])
    BY <1>7 DEF Exclude
  <2>2. excluded' \in [Model -> SUBSET LongBetas]
    BY <2>1 DEF CallTypeOK
  <2>3. exclusions' \in [Call -> SUBSET LongBetas] /\ warned' \in [Call -> SUBSET LongBetas]
    BY <2>1 DEF CallTypeOK
  <2>4. excluded'[M(c)] \in SUBSET LongBetas
    BY <2>2 DEF M, CallConstantsOK
  <2>5. pc' \in [Call -> Pc] /\ sent' \in [Call -> SUBSET LongBetas] /\ requests' \in [Call -> Nat]
    BY <2>1, <2>4, PostType
  <2>6. tracked' \in [Call -> BOOLEAN]
    BY <1>7 DEF Exclude, CallTypeOK
  <2> QED
    BY <1>7, <2>2, <2>3, <2>5, <2>6 DEF Exclude, CallTypeOK
<1>8. ASSUME NEW c \in Call, NEW a \in Response, Deny(c, a) PROVE CallTypeOK'
  BY <1>8, EndType DEF Deny, Result, CallTypeOK, budgets
<1>9. ASSUME NEW c \in Call, NEW a \in Response, TokenRotated(c, a) PROVE CallTypeOK'
  <2>1. pc' \in [Call -> Pc] /\ sent' \in [Call -> SUBSET LongBetas] /\ requests' \in [Call -> Nat]
    BY <1>9, ViewType, PostType DEF TokenRotated, Adopt
  <2>2. token' \in [Call -> Token \cup {NoToken}]
    BY <1>9 DEF TokenRotated, Adopt, CallTypeOK
  <2>3. rotationChecked' \in [Call -> BOOLEAN]
    BY <1>9 DEF TokenRotated, CallTypeOK
  <2> QED
    BY <1>9, <2>1, <2>2, <2>3 DEF TokenRotated, CallTypeOK
<1>10. ASSUME NEW c \in Call, NEW a \in Response, BackOff(c, a) PROVE CallTypeOK'
  <2>1. rotationChecked' = [rotationChecked EXCEPT ![c] = @ \/ RotationDue(c, a)]
    BY <1>10 DEF BackOff
  <2>2. rotationChecked' \in [Call -> BOOLEAN]
    <3>1. (rotationChecked[c] \/ RotationDue(c, a)) \in BOOLEAN
      OBVIOUS
    <3> QED
      BY <2>1, <3>1 DEF CallTypeOK
  <2>3. pc' \in [Call -> Pc] /\ result' \in [Call -> Result] /\ retries' \in [Call -> 0..MaxRetries]
    <3>1. CASE a.status \in {429, 529} /\ retries[c] < MaxRetries /\ a.body # "capped"
      <4>1. retries[c] + 1 \in 0..MaxRetries
        BY <3>1 DEF CallTypeOK, CallConstantsOK
      <4>2. retries' \in [Call -> 0..MaxRetries]
        BY <1>10, <3>1, <4>1 DEF BackOff, CallTypeOK
      <4> QED
        BY <1>10, <3>1, <4>2 DEF BackOff, CallTypeOK, Pc, Result
    <3>2. CASE ~(a.status \in {429, 529} /\ retries[c] < MaxRetries /\ a.body # "capped")
      <4>1. \E r \in Result : Finish(c, r)
        BY <1>10, <3>2 DEF BackOff, Fail, Result
      <4>2. retries' = retries
        BY <1>10, <3>2 DEF BackOff
      <4> QED
        BY <4>1, <4>2, EndType DEF CallTypeOK
    <3> QED
      BY <3>1, <3>2
  <2> QED
    BY <1>10, <2>2, <2>3 DEF BackOff, CallTypeOK
<1>11. ASSUME NEW c \in Call, Wake(c) PROVE CallTypeOK'
  <2>1. pc' \in [Call -> Pc] /\ sent' \in [Call -> SUBSET LongBetas] /\ requests' \in [Call -> Nat]
    BY <1>11, ViewType, PostType DEF Wake
  <2>2. result' \in [Call -> Result]
    BY <1>11 DEF Wake, CallTypeOK, Result
  <2> QED
    BY <1>11, <2>1, <2>2 DEF Wake, CallTypeOK, budgets
<1>12. ASSUME NEW c \in Call, AbortedAsleep(c) PROVE CallTypeOK'
  BY <1>12 DEF AbortedAsleep, CallTypeOK, budgets, Pc
<1>13. CASE UNCHANGED callVars
  BY <1>13 DEF callVars, call, budgets, CallTypeOK
<1> QED
  BY <1>1, <1>2, <1>3, <1>4, <1>5, <1>6, <1>7, <1>8, <1>9, <1>10, <1>11, <1>12, <1>13
     DEF CallNext, Proceed, CallAnswered

(* The variables of callAnthropic and the sets of refused betas are of      *)
(* their types after any answers.                                           *)
THEOREM CallTypeCorrect == ASSUME CallConstantsOK PROVE CallSpec => []CallTypeOK
<1>1. CallInit => CallTypeOK
  BY CallTypeInit
<1>2. CallTypeOK /\ [CallNext]_callVars => CallTypeOK'
  BY CallTypeNext
<1> QED
  BY <1>1, <1>2, PTL DEF CallSpec
----------------------------------------------------------------------------
(* Why no refused beta is sent again: what the call has seen refused is in  *)
(* its model's set, which only grows; and a call whose `excluded` is not    *)
(* that set has seen nothing refused.  A long-context error that no         *)
(* exclusion answers means the set is full.                                 *)
Seen(c) ==
    /\ exclusions[c] \subseteq excluded[M(c)]
    /\ warned[c] \subseteq excluded[M(c)]
    /\ ~tracked[c] => warned[c] = {}
    /\ pc[c] = "waiting" => sent[c] \cap warned[c] = {}
    /\ result[c] = "long" => excluded[M(c)] = LongBetas

SeenAll == \A c \in Call : Seen(c)

LEMMA SeenPost ==
  ASSUME CallTypeOK, NEW c \in Call, NEW view, Post(c, view)
  PROVE  sent'[c] \cap view = {} /\ \A d \in Call \ {c} : sent'[d] = sent[d] /\ pc'[d] = pc[d]
  BY DEF Post, CallTypeOK

LEMMA SeenView ==
  ASSUME NEW c \in Call, Seen(c) PROVE warned[c] \subseteq View(c)
  BY DEF Seen, View

(* The calls that take no part in a step keep what they have seen, since    *)
(* the sets of their models do not shrink.                                  *)
LEMMA SeenOthers ==
  ASSUME CallConstantsOK, CallTypeOK, CallTypeOK', NEW d \in Call, Seen(d),
         excluded[M(d)] \subseteq excluded'[M(d)],
         exclusions'[d] = exclusions[d], warned'[d] = warned[d], tracked'[d] = tracked[d],
         pc'[d] = pc[d], sent'[d] = sent[d], result'[d] = result[d]
  PROVE  Seen(d)'
<1>1. excluded'[M(d)] \in SUBSET LongBetas
  BY DEF CallTypeOK, CallConstantsOK, M
<1> QED
  BY <1>1 DEF Seen, M

(* An action of c that leaves the sets of its model and what it has seen.   *)
LEMMA SeenQuietly ==
  ASSUME CallConstantsOK, CallTypeOK, CallTypeOK', SeenAll, NEW c \in Call,
         UNCHANGED <<excluded, exclusions, warned, tracked>>,
         \A d \in Call \ {c} : pc'[d] = pc[d] /\ sent'[d] = sent[d] /\ result'[d] = result[d],
         pc'[c] = "waiting" => sent'[c] \cap warned[c] = {},
         result'[c] = "long" => excluded[M(c)] = LongBetas
  PROVE  SeenAll'
<1>1. ASSUME NEW d \in Call \ {c} PROVE Seen(d)'
  BY SeenOthers DEF SeenAll
<1>2. Seen(c)'
  BY DEF SeenAll, Seen, M
<1> QED
  BY <1>1, <1>2 DEF SeenAll

LEMMA SeenEnd ==
  ASSUME CallConstantsOK, CallTypeOK, CallTypeOK', SeenAll, NEW c \in Call, NEW r, Finish(c, r),
         UNCHANGED <<excluded, exclusions, warned, tracked, sent>>,
         r = "long" => excluded[M(c)] = LongBetas
  PROVE  SeenAll'
<1>1. pc'[c] = "ended" /\ result'[c] = r
  BY DEF Finish, CallTypeOK
<1>2. \A d \in Call \ {c} : pc'[d] = pc[d] /\ sent'[d] = sent[d] /\ result'[d] = result[d]
  BY DEF Finish, CallTypeOK
<1> QED
  BY <1>1, <1>2, SeenQuietly

(* A long-context error that cannot be excluded: every beta has been.       *)
LEMMA NothingLeft ==
  ASSUME CallConstantsOK, CallTypeOK, NEW c \in Call, Seen(c), NEW a, a.body = "long",
         ~Excludable(c, a)
  PROVE  excluded[M(c)] = LongBetas
<1>1. exclusions[c] \in SUBSET LongBetas /\ excluded[M(c)] \in SUBSET LongBetas
  BY ViewType DEF CallTypeOK
<1>2. IsFiniteSet(LongBetas)
  BY DEF CallConstantsOK
<1>3. /\ Cardinality(exclusions[c]) \in Nat
      /\ Cardinality(LongBetas) \in Nat
      /\ Cardinality(exclusions[c]) <= Cardinality(LongBetas)
      /\ Cardinality(LongBetas) = Cardinality(exclusions[c]) => LongBetas = exclusions[c]
  BY <1>1, <1>2, FS_Subset, FS_CardinalityType
<1>4. CASE ~(Cardinality(exclusions[c]) < Cardinality(LongBetas))
  <2>1. LongBetas = exclusions[c]
    BY <1>3, <1>4
  <2> QED
    BY <2>1, <1>1 DEF Seen
<1>5. CASE Cardinality(exclusions[c]) < Cardinality(LongBetas)
  BY <1>5 DEF Excludable
<1> QED
  BY <1>4, <1>5

LEMMA SeenNext == ASSUME CallConstantsOK, CallTypeOK, CallTypeOK', SeenAll, [CallNext]_callVars PROVE SeenAll'
<1>1. ASSUME NEW c \in Call, Start(c) PROVE SeenAll'
  <2>1. ASSUME NEW d \in Call \ {c} PROVE Seen(d)'
    <3>1. pc'[d] = pc[d] /\ sent'[d] = sent[d]
      BY <1>1, SeenPost DEF Start
    <3>2. warned'[d] = warned[d] /\ tracked'[d] = tracked[d]
      BY <1>1 DEF Start, CallTypeOK
    <3> QED
      BY <1>1, <3>1, <3>2, SeenOthers DEF Start, SeenAll, budgets
  <2>2. Seen(c)'
    <3>1. warned'[c] = excluded[M(c)] /\ tracked'[c] = (excluded[M(c)] # {})
      BY <1>1 DEF Start, CallTypeOK
    <3>2. sent'[c] \cap excluded[M(c)] = {}
      BY <1>1, SeenPost DEF Start
    <3> QED
      BY <1>1, <3>1, <3>2 DEF Start, Seen, SeenAll, budgets, M
  <2> QED
    BY <2>1, <2>2 DEF SeenAll
<1>2. ASSUME NEW c \in Call, NEW a \in Response, Succeed(c, a) \/ Deny(c, a) PROVE SeenAll'
  BY <1>2, SeenEnd DEF Succeed, Deny, budgets
<1>3. ASSUME NEW c \in Call, FetchThrows(c) PROVE SeenAll'
  BY <1>3, SeenEnd DEF FetchThrows, budgets
<1>4. ASSUME NEW c \in Call, NEW a \in Response, Recover(c, a) PROVE SeenAll'
  <2>1. pc'[c] # "waiting" /\ \A d \in Call \ {c} : pc'[d] = pc[d]
    BY <1>4 DEF Recover, CallTypeOK
  <2>2. result'[c] = "long" => excluded[M(c)] = LongBetas
    BY <1>4 DEF Recover, SeenAll, Seen
  <2> QED
    BY <1>4, <2>1, <2>2, SeenQuietly DEF Recover
<1>5. ASSUME NEW c \in Call, RefreshReturns(c) PROVE SeenAll'
  <2>1. UNCHANGED <<excluded, exclusions, warned, tracked, sent>>
    BY <1>5 DEF RefreshReturns, budgets
  <2>2. CASE Finish(c, "error")
    BY <2>1, <2>2, SeenEnd
  <2>3. CASE pc' = [pc EXCEPT ![c] = "ready"] /\ UNCHANGED result
    <3>1. pc'[c] # "waiting" /\ \A d \in Call \ {c} : pc'[d] = pc[d]
      BY <2>3 DEF CallTypeOK
    <3> QED
      BY <2>1, <2>3, <3>1, SeenQuietly DEF SeenAll, Seen
  <2> QED
    BY <1>5, <2>2, <2>3 DEF RefreshReturns
<1>6. ASSUME NEW c \in Call, Post(c, View(c)),
             UNCHANGED <<excluded, exclusions, warned, tracked>>,
             result' = result \/ result' = [result EXCEPT ![c] = "none"]
      PROVE  SeenAll'
  <2>1. sent'[c] \cap View(c) = {} /\ \A d \in Call \ {c} : sent'[d] = sent[d] /\ pc'[d] = pc[d]
    BY <1>6, SeenPost
  <2>2. sent'[c] \cap warned[c] = {}
    BY <2>1, SeenView DEF SeenAll
  <2>3. /\ result'[c] = "long" => excluded[M(c)] = LongBetas
        /\ \A d \in Call \ {c} : result'[d] = result[d]
    BY <1>6 DEF SeenAll, Seen, CallTypeOK
  <2> QED
    BY <1>6, <2>1, <2>2, <2>3, SeenQuietly
<1>7. ASSUME NEW c \in Call, Resend(c) \/ Wake(c) PROVE SeenAll'
  BY <1>6, <1>7 DEF Resend, Wake, budgets
<1>8. ASSUME NEW c \in Call, NEW a \in Response, TokenRotated(c, a) PROVE SeenAll'
  BY <1>6, <1>8 DEF TokenRotated, Adopt
<1>9. ASSUME NEW c \in Call, NEW a \in Response, Exclude(c, a) PROVE SeenAll'
  <2>1. PICK b \in LongBetas \ excluded[M(c)] :
          /\ excluded' = [excluded EXCEPT ![M(c)] = @ \cup {b}]
          /\ exclusions' = [exclusions EXCEPT ![c] = @ \cup {b}]
          /\ warned' = [warned EXCEPT ![c] = @ \cup {b}]
          /\ Post(c, excluded'[M(c)])
    BY <1>9 DEF Exclude
  <2>2. tracked' = [tracked EXCEPT ![c] = TRUE] /\ result' = result
    BY <1>9 DEF Exclude
  <2>3. ASSUME NEW d \in Call \ {c} PROVE Seen(d)'
    <3>1. excluded[M(d)] \subseteq excluded'[M(d)]
      BY <2>1 DEF CallTypeOK, M, CallConstantsOK
    <3>2. pc'[d] = pc[d] /\ sent'[d] = sent[d]
      BY <2>1, SeenPost
    <3>3. exclusions'[d] = exclusions[d] /\ warned'[d] = warned[d] /\ tracked'[d] = tracked[d]
      BY <2>1, <2>2 DEF CallTypeOK
    <3> QED
      BY <2>2, <3>1, <3>2, <3>3, SeenOthers DEF SeenAll
  <2>4. Seen(c)'
    <3>1. excluded'[M(c)] = excluded[M(c)] \cup {b}
      BY <2>1 DEF CallTypeOK, M, CallConstantsOK
    <3>2. exclusions'[c] = exclusions[c] \cup {b} /\ warned'[c] = warned[c] \cup {b}
      BY <2>1 DEF CallTypeOK
    <3>3. sent'[c] \cap excluded'[M(c)] = {}
      BY <2>1, SeenPost
    <3>4. tracked'[c] = TRUE /\ result'[c] = result[c]
      BY <2>2 DEF CallTypeOK
    <3>5. excluded[M(c)] # LongBetas
      OBVIOUS
    <3>6. Seen(c)
      BY DEF SeenAll
    <3>7. exclusions'[c] \subseteq excluded'[M(c)] /\ warned'[c] \subseteq excluded'[M(c)]
      BY <3>1, <3>2, <3>6 DEF Seen
    <3>8. result'[c] # "long"
      BY <3>4, <3>5, <3>6 DEF Seen
    <3> QED
      BY <3>3, <3>4, <3>7, <3>8 DEF Seen, M
  <2> QED
    BY <2>3, <2>4 DEF SeenAll
<1>10. ASSUME NEW c \in Call, NEW a \in Response, BackOff(c, a) PROVE SeenAll'
  <2>1. UNCHANGED <<excluded, exclusions, warned, tracked, sent>>
    BY <1>10 DEF BackOff
  <2>2. a.body = "long" => excluded[M(c)] = LongBetas
    BY <1>10, NothingLeft DEF BackOff, Unresolved, SeenAll
  <2>3. CASE a.status \in {429, 529} /\ retries[c] < MaxRetries /\ a.body # "capped"
    <3>1. /\ pc' = [pc EXCEPT ![c] = "backoff"]
          /\ result' = [result EXCEPT ![c] = IF a.body = "long" THEN "long" ELSE "error"]
      BY <1>10, <2>3 DEF BackOff
    <3>2. pc'[c] = "backoff" /\ result'[c] = (IF a.body = "long" THEN "long" ELSE "error")
      BY <3>1 DEF CallTypeOK
    <3>3. \A d \in Call \ {c} : pc'[d] = pc[d] /\ result'[d] = result[d]
      BY <3>1 DEF CallTypeOK
    <3> QED
      BY <2>1, <2>2, <3>2, <3>3, SeenQuietly
  <2>4. CASE ~(a.status \in {429, 529} /\ retries[c] < MaxRetries /\ a.body # "capped")
    <3>1. \/ Finish(c, "error")
          \/ Finish(c, IF a.body = "long" THEN "long" ELSE "error")
      BY <1>10, <2>4 DEF BackOff, Fail
    <3> QED
      BY <2>1, <2>2, <3>1, SeenEnd
  <2> QED
    BY <2>3, <2>4
<1>11. ASSUME NEW c \in Call, AbortedAsleep(c) PROVE SeenAll'
  <2>1. pc'[c] # "waiting" /\ \A d \in Call \ {c} : pc'[d] = pc[d]
    BY <1>11 DEF AbortedAsleep, CallTypeOK
  <2> QED
    BY <1>11, <2>1, SeenQuietly DEF AbortedAsleep, budgets, SeenAll, Seen
<1>12. CASE UNCHANGED callVars
  BY <1>12 DEF callVars, call, budgets, SeenAll, Seen, M
<1> QED
  BY <1>1, <1>2, <1>3, <1>4, <1>5, <1>7, <1>8, <1>9, <1>10, <1>11, <1>12
     DEF CallNext, Proceed, CallAnswered
----------------------------------------------------------------------------
(* Why the requests are bounded: each resend, the pending one included, has *)
(* been paid from a budget.                                                 *)
Pending(c) == IF pc[c] \in {"idle", "ready", "refreshing", "backoff"} THEN 1 ELSE 0
Once(c) == IF rotationChecked[c] THEN 1 ELSE 0
Used(c) == Cardinality(exclusions[c]) + auth[c] + retries[c] + Once(c)
Paid(c) == requests[c] + Pending(c) <= 1 + Used(c)

PaidAll == \A c \in Call : Paid(c)

LEMMA UsedType ==
  ASSUME CallConstantsOK, CallTypeOK, NEW c \in Call
  PROVE  /\ Cardinality(exclusions[c]) \in Nat /\ auth[c] \in Nat /\ retries[c] \in Nat
         /\ Once(c) \in Nat /\ requests[c] \in Nat /\ Pending(c) \in Nat
         /\ Used(c) <= RequestBound - 1
         /\ RequestBound \in Nat
<1>1. exclusions[c] \in SUBSET LongBetas /\ IsFiniteSet(LongBetas)
  BY DEF CallTypeOK, CallConstantsOK
<1>2. /\ Cardinality(exclusions[c]) \in Nat
      /\ Cardinality(LongBetas) \in Nat
      /\ Cardinality(exclusions[c]) <= Cardinality(LongBetas)
  BY <1>1, FS_Subset, FS_CardinalityType
<1>3. auth[c] \in 0..MaxAuth /\ retries[c] \in 0..MaxRetries /\ requests[c] \in Nat
  BY DEF CallTypeOK
<1>4. Once(c) \in {0, 1} /\ Pending(c) \in {0, 1}
  BY DEF Once, Pending
<1>5. MaxAuth \in Nat /\ MaxRetries \in Nat
  BY DEF CallConstantsOK
<1> QED
  BY <1>2, <1>3, <1>4, <1>5 DEF Used, RequestBound

(* A step in which c pays nothing and asks for nothing.                     *)
LEMMA PaidOthers ==
  ASSUME NEW d \in Call, Paid(d),
         pc'[d] = pc[d], exclusions'[d] = exclusions[d], auth'[d] = auth[d],
         retries'[d] = retries[d], rotationChecked'[d] = rotationChecked[d],
         requests'[d] = requests[d]
  PROVE  Paid(d)'
  BY DEF Paid, Pending, Used, Once

LEMMA PaidPost ==
  ASSUME CallConstantsOK, CallTypeOK, NEW c \in Call, NEW view, Post(c, view)
  PROVE  /\ pc'[c] = "waiting" /\ Pending(c)' = 0
         /\ requests'[c] <= requests[c] + 1
         /\ \A d \in Call \ {c} : pc'[d] = pc[d] /\ requests'[d] = requests[d]
<1>1. pc'[c] = "waiting"
  BY DEF Post, CallTypeOK
<1>2. requests'[c] = (IF requests[c] > RequestBound THEN requests[c] ELSE requests[c] + 1)
  BY DEF Post, CallTypeOK
<1>3. requests[c] \in Nat
  BY DEF CallTypeOK
<1>4. \A d \in Call \ {c} : pc'[d] = pc[d] /\ requests'[d] = requests[d]
  BY DEF Post, CallTypeOK
<1> QED
  BY <1>1, <1>2, <1>3, <1>4 DEF Pending

(* A resend that was pending.                                               *)
LEMMA PaidResend ==
  ASSUME CallConstantsOK, CallTypeOK, CallTypeOK', PaidAll, NEW c \in Call, NEW view, Post(c, view),
         Pending(c) = 1, UNCHANGED <<exclusions, auth, retries, rotationChecked>>
  PROVE  PaidAll'
<1>1. Used(c)' = Used(c)
  BY DEF Used, Once
<1>2. Used(c) \in Int
  BY UsedType DEF Used
<1>3. requests[c] \in Nat /\ requests'[c] \in Nat
  BY DEF CallTypeOK
<1>4. Paid(c)'
  BY <1>1, <1>2, <1>3, PaidPost DEF Paid, PaidAll
<1>5. ASSUME NEW d \in Call \ {c} PROVE Paid(d)'
  BY PaidPost, PaidOthers DEF PaidAll
<1> QED
  BY <1>4, <1>5 DEF PaidAll

(* A step to the end, or from one place without a pending resend to another. *)
LEMMA PaidEnd ==
  ASSUME CallConstantsOK, CallTypeOK, CallTypeOK', PaidAll, NEW c \in Call,
         Pending(c)' = 0, \A d \in Call \ {c} : pc'[d] = pc[d],
         UNCHANGED <<exclusions, auth, retries, requests>>,
         \A d \in Call \ {c} : rotationChecked'[d] = rotationChecked[d],
         rotationChecked[c] => rotationChecked'[c]
  PROVE  PaidAll'
<1>1. Once(c) <= Once(c)'
  BY DEF Once
<1>2. Once(c) \in Nat /\ Once(c)' \in Nat
  BY DEF Once
<1>3. Paid(c)'
  BY <1>1, <1>2, UsedType DEF Paid, PaidAll, Used
<1>4. ASSUME NEW d \in Call \ {c} PROVE Paid(d)'
  BY PaidOthers DEF PaidAll
<1> QED
  BY <1>3, <1>4 DEF PaidAll

LEMMA PaidNext ==
  ASSUME CallConstantsOK, CallTypeOK, CallTypeOK', SeenAll, PaidAll, [CallNext]_callVars
  PROVE  PaidAll'
<1>1. ASSUME NEW c \in Call, Start(c) PROVE PaidAll'
  BY <1>1, PaidResend DEF Start, Pending, budgets
<1>2. ASSUME NEW c \in Call, NEW a \in Response, Succeed(c, a) \/ Deny(c, a) PROVE PaidAll'
  <2>1. pc'[c] = "ended" /\ \A d \in Call \ {c} : pc'[d] = pc[d]
    BY <1>2 DEF Succeed, Deny, Finish, CallTypeOK
  <2>2. Pending(c)' = 0
    BY <2>1 DEF Pending
  <2>3. UNCHANGED <<exclusions, auth, retries, rotationChecked, requests>>
    BY <1>2 DEF Succeed, Deny, budgets
  <2> QED
    BY <2>1, <2>2, <2>3, PaidEnd
<1>3. ASSUME NEW c \in Call, FetchThrows(c) PROVE PaidAll'
  <2>1. pc'[c] = "ended" /\ \A d \in Call \ {c} : pc'[d] = pc[d]
    BY <1>3 DEF FetchThrows, Finish, CallTypeOK
  <2>2. Pending(c)' = 0
    BY <2>1 DEF Pending
  <2>3. UNCHANGED <<exclusions, auth, retries, rotationChecked, requests>>
    BY <1>3 DEF FetchThrows, budgets
  <2> QED
    BY <2>1, <2>2, <2>3, PaidEnd
<1>4. ASSUME NEW c \in Call, NEW a \in Response, Recover(c, a) PROVE PaidAll'
  <2>1. pc'[c] \in {"ready", "refreshing"} /\ \A d \in Call \ {c} : pc'[d] = pc[d]
    BY <1>4 DEF Recover, CallTypeOK
  <2>2. auth'[c] = auth[c] + 1 /\ \A d \in Call \ {c} : auth'[d] = auth[d]
    BY <1>4 DEF Recover, CallTypeOK
  <2>3. Pending(c)' = 1 /\ Pending(c) = 0
    BY <1>4, <2>1 DEF Pending, Recover, Waiting
  <2>4. UNCHANGED <<exclusions, retries, rotationChecked, requests>>
    BY <1>4 DEF Recover
  <2>5. Once(c)' = Once(c)
    BY <2>4 DEF Once
  <2>6. Paid(c)'
    BY <2>2, <2>3, <2>4, <2>5, UsedType DEF Paid, PaidAll, Used
  <2>7. ASSUME NEW d \in Call \ {c} PROVE Paid(d)'
    BY <2>1, <2>2, <2>4, PaidOthers DEF PaidAll
  <2> QED
    BY <2>6, <2>7 DEF PaidAll
<1>5. ASSUME NEW c \in Call, RefreshReturns(c) PROVE PaidAll'
  <2>1. UNCHANGED <<exclusions, auth, retries, rotationChecked, requests>>
    BY <1>5 DEF RefreshReturns, budgets
  <2>2. CASE Finish(c, "error")
    <3>1. pc'[c] = "ended" /\ \A d \in Call \ {c} : pc'[d] = pc[d]
      BY <2>2 DEF Finish, CallTypeOK
    <3>2. Pending(c)' = 0
      BY <3>1 DEF Pending
    <3> QED
      BY <2>1, <3>1, <3>2, PaidEnd
  <2>3. CASE pc' = [pc EXCEPT ![c] = "ready"]
    <3>1. pc'[c] = "ready" /\ \A d \in Call \ {c} : pc'[d] = pc[d]
      BY <2>3 DEF CallTypeOK
    <3>2. Pending(c)' = Pending(c)
      BY <1>5, <3>1 DEF Pending, RefreshReturns
    <3>3. Paid(c)'
      BY <2>1, <3>2 DEF Paid, PaidAll, Used, Once
    <3>4. ASSUME NEW d \in Call \ {c} PROVE Paid(d)'
      BY <2>1, <3>1, PaidOthers DEF PaidAll
    <3> QED
      BY <3>3, <3>4 DEF PaidAll
  <2> QED
    BY <1>5, <2>2, <2>3 DEF RefreshReturns
<1>6. ASSUME NEW c \in Call, Resend(c) \/ Wake(c) PROVE PaidAll'
  <2>1. Pending(c) = 1
    BY <1>6 DEF Pending, Resend, Wake
  <2>2. \E view : Post(c, view)
    BY <1>6 DEF Resend, Wake
  <2>3. UNCHANGED <<exclusions, auth, retries, rotationChecked>>
    BY <1>6 DEF Resend, Wake, budgets
  <2> QED
    BY <2>1, <2>2, <2>3, PaidResend
<1>7. ASSUME NEW c \in Call, NEW a \in Response, Exclude(c, a) PROVE PaidAll'
  <2>1. PICK b \in LongBetas \ excluded[M(c)] :
          /\ exclusions' = [exclusions EXCEPT ![c] = @ \cup {b}]
          /\ Post(c, excluded'[M(c)])
    BY <1>7 DEF Exclude
  <2>2. exclusions'[c] = exclusions[c] \cup {b} /\ \A d \in Call \ {c} : exclusions'[d] = exclusions[d]
    BY <2>1 DEF CallTypeOK
  <2>3. b \notin exclusions[c]
    BY DEF SeenAll, Seen
  <2>4. IsFiniteSet(exclusions[c])
    BY FS_Subset DEF CallTypeOK, CallConstantsOK
  <2>5. Cardinality(exclusions'[c]) = Cardinality(exclusions[c]) + 1
    BY <2>2, <2>3, <2>4, FS_AddElement
  <2>6. UNCHANGED <<auth, retries, rotationChecked>>
    BY <1>7 DEF Exclude
  <2>7. Once(c)' = Once(c)
    BY <2>6 DEF Once
  <2>8. Pending(c) = 0
    BY <1>7 DEF Pending, Exclude, Waiting
  <2>9. Paid(c)'
    <3>1. requests[c] \in Nat /\ requests'[c] \in Nat
      BY DEF CallTypeOK
    <3>2. requests'[c] <= requests[c] + 1 /\ Pending(c)' = 0
      BY <2>1, PaidPost
    <3>3. Paid(c)
      BY DEF PaidAll
    <3> QED
      BY <2>5, <2>6, <2>7, <2>8, <3>1, <3>2, <3>3, UsedType DEF Paid, Used
  <2>10. ASSUME NEW d \in Call \ {c} PROVE Paid(d)'
    BY <2>1, <2>2, <2>6, PaidPost, PaidOthers DEF PaidAll
  <2> QED
    BY <2>9, <2>10 DEF PaidAll
<1>8. ASSUME NEW c \in Call, NEW a \in Response, TokenRotated(c, a) PROVE PaidAll'
  <2>1. /\ rotationChecked'[c] = TRUE /\ rotationChecked[c] = FALSE
        /\ \A d \in Call \ {c} : rotationChecked'[d] = rotationChecked[d]
    BY <1>8 DEF TokenRotated, RotationDue, CallTypeOK
  <2>2. Post(c, View(c)) /\ UNCHANGED <<exclusions, auth, retries>>
    BY <1>8 DEF TokenRotated, Adopt
  <2>3. Once(c)' = 1 /\ Once(c) = 0
    BY <2>1 DEF Once
  <2>4. Pending(c) = 0
    BY <1>8 DEF Pending, TokenRotated, Waiting
  <2>5. Paid(c)'
    <3>1. requests[c] \in Nat /\ requests'[c] \in Nat
      BY DEF CallTypeOK
    <3>2. requests'[c] <= requests[c] + 1 /\ Pending(c)' = 0
      BY <2>2, PaidPost
    <3>3. Paid(c)
      BY DEF PaidAll
    <3> QED
      BY <2>2, <2>3, <2>4, <3>1, <3>2, <3>3, UsedType DEF Paid, Used
  <2>6. ASSUME NEW d \in Call \ {c} PROVE Paid(d)'
    BY <2>1, <2>2, PaidPost, PaidOthers DEF PaidAll
  <2> QED
    BY <2>5, <2>6 DEF PaidAll
<1>9. ASSUME NEW c \in Call, NEW a \in Response, BackOff(c, a) PROVE PaidAll'
  <2>1. UNCHANGED <<exclusions, auth, requests>>
    BY <1>9 DEF BackOff
  <2>2. rotationChecked[c] => rotationChecked'[c]
    BY <1>9 DEF BackOff, CallTypeOK
  <2>3. \A d \in Call \ {c} : rotationChecked'[d] = rotationChecked[d]
    BY <1>9 DEF BackOff, CallTypeOK
  <2>4. CASE a.status \in {429, 529} /\ retries[c] < MaxRetries /\ a.body # "capped"
    <3>1. pc' = [pc EXCEPT ![c] = "backoff"] /\ retries' = [retries EXCEPT ![c] = @ + 1]
      BY <1>9, <2>4 DEF BackOff
    <3>2. /\ pc'[c] = "backoff" /\ retries'[c] = retries[c] + 1
          /\ \A d \in Call \ {c} : pc'[d] = pc[d] /\ retries'[d] = retries[d]
      BY <3>1 DEF CallTypeOK
    <3>3. Pending(c) = 0 /\ Pending(c)' = 1
      BY <1>9, <3>2 DEF Pending, BackOff, Unresolved, Waiting
    <3>4. Once(c) <= Once(c)' /\ Once(c) \in Nat /\ Once(c)' \in Nat
      BY <2>2 DEF Once
    <3>5. Paid(c)'
      BY <2>1, <3>2, <3>3, <3>4, UsedType DEF Paid, PaidAll, Used
    <3>6. ASSUME NEW d \in Call \ {c} PROVE Paid(d)'
      BY <2>1, <2>3, <3>2, PaidOthers DEF PaidAll
    <3> QED
      BY <3>5, <3>6 DEF PaidAll
  <2>5. CASE ~(a.status \in {429, 529} /\ retries[c] < MaxRetries /\ a.body # "capped")
    <3>1. (\E r : Finish(c, r)) /\ UNCHANGED retries
      BY <1>9, <2>5 DEF BackOff, Fail
    <3>2. pc'[c] = "ended" /\ \A d \in Call \ {c} : pc'[d] = pc[d]
      BY <3>1 DEF Finish, CallTypeOK
    <3>3. Pending(c)' = 0
      BY <3>2 DEF Pending
    <3> QED
      BY <2>1, <2>2, <2>3, <3>1, <3>2, <3>3, PaidEnd
  <2> QED
    BY <2>4, <2>5
<1>10. ASSUME NEW c \in Call, AbortedAsleep(c) PROVE PaidAll'
  <2>1. pc'[c] = "ended" /\ \A d \in Call \ {c} : pc'[d] = pc[d]
    BY <1>10 DEF AbortedAsleep, CallTypeOK
  <2>2. Pending(c)' = 0
    BY <2>1 DEF Pending
  <2>3. UNCHANGED <<exclusions, auth, retries, rotationChecked, requests>>
    BY <1>10 DEF AbortedAsleep, budgets
  <2> QED
    BY <2>1, <2>2, <2>3, PaidEnd
<1>11. CASE UNCHANGED callVars
  BY <1>11 DEF callVars, call, budgets, PaidAll, Paid, Pending, Used, Once
<1> QED
  BY <1>1, <1>2, <1>3, <1>4, <1>5, <1>6, <1>7, <1>8, <1>9, <1>10, <1>11
     DEF CallNext, Proceed, CallAnswered

LEMMA PaidInit == ASSUME CallConstantsOK, CallInit PROVE SeenAll /\ PaidAll
<1>1. ASSUME NEW c \in Call PROVE Seen(c)
  BY DEF CallInit, Seen
<1>2. ASSUME NEW c \in Call PROVE Paid(c)
  <2>1. Cardinality(exclusions[c]) = 0
    BY FS_EmptySet DEF CallInit
  <2>2. auth[c] = 0 /\ retries[c] = 0 /\ requests[c] = 0 /\ ~rotationChecked[c]
    BY DEF CallInit
  <2>3. Once(c) = 0 /\ Pending(c) \in {0, 1}
    BY <2>2 DEF Once, Pending
  <2> QED
    BY <2>1, <2>2, <2>3 DEF Paid, Used
<1> QED
  BY <1>1, <1>2 DEF SeenAll, PaidAll

LEMMA SoundFromInvariant ==
  ASSUME CallConstantsOK, CallTypeOK, SeenAll, PaidAll
  PROVE  RetriesSound
<1>1. NoRefusedBetaResent /\ LongContextExhausts
  BY DEF NoRefusedBetaResent, LongContextExhausts, SeenAll, Seen
<1>2. RequestsBounded
  <2>1. ASSUME NEW c \in Call PROVE requests[c] <= RequestBound
    <3>1. Paid(c)
      BY DEF PaidAll
    <3>2. Used(c) \in Int
      BY UsedType DEF Used
    <3> QED
      BY <3>1, <3>2, UsedType DEF Paid
  <2> QED
    BY <2>1 DEF RequestsBounded
<1> QED
  BY <1>1, <1>2 DEF RetriesSound

(* However the answers to any number of calls alternate, no call sends a    *)
(* beta it has seen refused, none ends on a long-context error while a beta *)
(* is left to drop, and none sends more requests than its budgets allow.    *)
THEOREM RetriesAreSound == ASSUME CallConstantsOK PROVE CallSpec => []RetriesSound
<1>1. CallInit => CallTypeOK /\ SeenAll /\ PaidAll
  BY CallTypeInit, PaidInit
<1>2. CallTypeOK /\ SeenAll /\ PaidAll /\ [CallNext]_callVars => (CallTypeOK /\ SeenAll /\ PaidAll)'
  BY CallTypeNext, SeenNext, PaidNext
<1>3. CallTypeOK /\ SeenAll /\ PaidAll => RetriesSound
  BY SoundFromInvariant
<1> QED
  BY <1>1, <1>2, <1>3, PTL DEF CallSpec

----------------------------------------------------------------------------
(* The caches and the clients are of their types.                           *)
LEMMA CatalogTypeInit == ASSUME CatalogConstantsOK, CatalogInit PROVE CatalogTypeOK
<1>1. 1 \in Version /\ 0 \in 0..MaxVersion
  BY DEF Version, CatalogConstantsOK
<1>2. askPc \in [Client -> AskPc] /\ op \in [Client -> Op]
  BY DEF CatalogInit, AskPc, Op
<1> QED
  BY <1>1, <1>2 DEF CatalogInit, CatalogTypeOK, CatalogConstantsOK

LEMMA CallType ==
  ASSUME CatalogConstantsOK, CatalogTypeOK, NEW k \in Client, NEW o \in Op, NEW p \in AskPc, Ask(k, o, p)
  PROVE  /\ askPc' \in [Client -> AskPc] /\ op' \in [Client -> Op]
         /\ answer' \in [Client -> 0..MaxVersion]
         /\ since' \in [Client -> Version]
         /\ got' \in [Client -> 0..MaxVersion]
<1>1. 1 \in Version /\ 0 \in 0..MaxVersion
  BY DEF Version, CatalogConstantsOK
<1>2. askPc' \in [Client -> AskPc] /\ op' \in [Client -> Op]
  BY DEF Ask, CatalogTypeOK
<1>3. answer' \in [Client -> 0..MaxVersion] /\ got' \in [Client -> 0..MaxVersion]
  BY <1>1 DEF Ask, CatalogTypeOK
<1>4. since' \in [Client -> Version]
  BY <1>1 DEF Ask, CatalogTypeOK
<1> QED
  BY <1>2, <1>3, <1>4

LEMMA DoneType ==
  ASSUME CatalogTypeOK, NEW S, Done(S)
  PROVE  /\ askPc' \in [Client -> AskPc] /\ op' \in [Client -> Op] /\ since' \in [Client -> Version]
  BY DEF Done, CatalogTypeOK, AskPc

LEMMA ListingType ==
  ASSUME NEW v \in 0..MaxVersion, advertised \subseteq Listable
  PROVE  advertised \cup Listing(v) \subseteq Listable
  BY DEF Listable

LEMMA CatalogTypeNext == ASSUME CatalogConstantsOK, CatalogTypeOK, [CatalogNext]_modelVars PROVE CatalogTypeOK'
<1>0. advertised \subseteq Listable
  BY DEF CatalogTypeOK, Listable
<1>1. CASE Publish
  <2>1. published' \in Version
    BY <1>1 DEF Publish, CatalogTypeOK, Version, CatalogConstantsOK
  <2> QED
    BY <1>1, <2>1 DEF Publish, CatalogTypeOK, catalogVars, profileVars, client
<1>2. ASSUME NEW k \in Client, UpstreamAnswers(k) PROVE CatalogTypeOK'
  <2>1. published \in 0..MaxVersion
    BY DEF CatalogTypeOK, Version
  <2>2. answer' \in [Client -> 0..MaxVersion]
    BY <1>2, <2>1 DEF UpstreamAnswers, CatalogTypeOK
  <2>3. askPc' \in [Client -> AskPc]
    BY <1>2 DEF UpstreamAnswers, CatalogTypeOK, AskPc
  <2> QED
    BY <1>2, <2>2, <2>3 DEF UpstreamAnswers, CatalogTypeOK, catalogVars, profileVars
<1>3. ASSUME NEW k \in Client, RefreshRegistry(k) PROVE CatalogTypeOK'
  <2>1. \E p \in AskPc : Ask(k, "list", p)
    BY <1>3 DEF RefreshRegistry, AskPc
  <2>2. "list" \in Op
    BY DEF Op
  <2>3. inflight' \in Client \cup {NoClient}
    BY <1>3 DEF RefreshRegistry, CatalogTypeOK
  <2>4. /\ askPc' \in [Client -> AskPc] /\ op' \in [Client -> Op]
        /\ answer' \in [Client -> 0..MaxVersion]
        /\ since' \in [Client -> Version]
        /\ got' \in [Client -> 0..MaxVersion]
    BY <2>1, <2>2, CallType
  <2> QED
    BY <1>3, <2>3, <2>4 DEF RefreshRegistry, CatalogTypeOK, profileVars
<1>4. ASSUME NEW k \in Client, RegistryLands(k) PROVE CatalogTypeOK'
  <2>1. answer[k] \in 0..MaxVersion
    BY DEF CatalogTypeOK
  <2>2. advertised' \subseteq Listable
    BY <1>4, <1>0, <2>1, ListingType DEF RegistryLands
  <2>3. askPc' \in [Client -> AskPc] /\ op' \in [Client -> Op] /\ since' \in [Client -> Version]
    BY <1>4, DoneType DEF RegistryLands
  <2> QED
    BY <1>4, <2>1, <2>2, <2>3 DEF RegistryLands, CatalogTypeOK, profileVars, Listable
<1>5. ASSUME NEW k \in Client, RegistryFails(k) PROVE CatalogTypeOK'
  <2>1. advertised' \subseteq Listable
    BY <1>5, <1>0, ListingType DEF RegistryFails, CatalogTypeOK
  <2>2. askPc' \in [Client -> AskPc] /\ op' \in [Client -> Op] /\ since' \in [Client -> Version]
    BY <1>5, DoneType DEF RegistryFails
  <2>3. answer' \in [Client -> 0..MaxVersion]
    BY <1>5 DEF RegistryFails, CatalogTypeOK, CatalogConstantsOK
  <2> QED
    BY <1>5, <2>1, <2>2, <2>3 DEF RegistryFails, CatalogTypeOK, profileVars, Listable
<1>6. ASSUME NEW k \in Client, EnsureProfile(k) \/ RefreshProfile(k) PROVE CatalogTypeOK'
  <2>1. \E o \in Op, p \in AskPc : Ask(k, o, p)
    BY <1>6 DEF EnsureProfile, RefreshProfile, Op, AskPc
  <2>2. inflightProfile' \in Client \cup {NoClient}
    BY <1>6 DEF EnsureProfile, RefreshProfile, profileVars, CatalogTypeOK
  <2>3. /\ askPc' \in [Client -> AskPc] /\ op' \in [Client -> Op]
        /\ answer' \in [Client -> 0..MaxVersion]
        /\ since' \in [Client -> Version]
        /\ got' \in [Client -> 0..MaxVersion]
    BY <2>1, CallType
  <2> QED
    BY <1>6, <2>2, <2>3 DEF EnsureProfile, RefreshProfile, CatalogTypeOK, profileVars, catalogVars
<1>7. ASSUME NEW k \in Client, ProfileLands(k) PROVE CatalogTypeOK'
  <2>1. askPc' \in [Client -> AskPc] /\ op' \in [Client -> Op] /\ since' \in [Client -> Version]
    <3>1. CASE op[k] = "ensure"
      BY <1>7, <3>1, DoneType DEF ProfileLands
    <3>2. CASE op[k] # "ensure"
      BY <1>7, <3>2 DEF ProfileLands, CatalogTypeOK, AskPc
    <3> QED
      BY <3>1, <3>2
  <2>2. inflightProfile' \in Client \cup {NoClient}
    BY <1>7 DEF ProfileLands, CatalogTypeOK
  <2> QED
    BY <1>7, <2>1, <2>2 DEF ProfileLands, CatalogTypeOK, catalogVars
<1>8. ASSUME NEW k \in Client, ProfileReturns(k) PROVE CatalogTypeOK'
  <2>1. askPc' \in [Client -> AskPc] /\ op' \in [Client -> Op] /\ since' \in [Client -> Version]
    BY <1>8, DoneType DEF ProfileReturns, Give
  <2>2. answer[k] \in 0..MaxVersion
    BY DEF CatalogTypeOK
  <2>3. got' \in [Client -> 0..MaxVersion]
    BY <1>8, <2>2 DEF ProfileReturns, Give, CatalogTypeOK
  <2> QED
    BY <1>8, <2>1, <2>2, <2>3 DEF ProfileReturns, CatalogTypeOK, catalogVars
<1>9. ASSUME NEW k \in Client, ProfileFails(k) PROVE CatalogTypeOK'
  <2>1. \E S : Done(S)
    BY <1>9 DEF ProfileFails, Give
  <2>2. askPc' \in [Client -> AskPc] /\ op' \in [Client -> Op] /\ since' \in [Client -> Version]
    BY <2>1, DoneType
  <2>3. got' \in [Client -> 0..MaxVersion]
    BY <1>9 DEF ProfileFails, Give, CatalogTypeOK
  <2>4. inflightProfile' \in Client \cup {NoClient}
    BY <1>9 DEF ProfileFails, CatalogTypeOK
  <2>5. answer' \in [Client -> 0..MaxVersion]
    BY <1>9 DEF ProfileFails, CatalogTypeOK, CatalogConstantsOK
  <2> QED
    BY <1>9, <2>2, <2>3, <2>4, <2>5 DEF ProfileFails, CatalogTypeOK, catalogVars
<1>10. CASE UNCHANGED modelVars
  BY <1>10 DEF modelVars, catalogVars, profileVars, client, CatalogTypeOK
<1> QED
  BY <1>1, <1>2, <1>3, <1>4, <1>5, <1>6, <1>7, <1>8, <1>9, <1>10 DEF CatalogNext

(* Registry, profile and clients stay of their types, whatever lands when.  *)
THEOREM CatalogTypeCorrect == ASSUME CatalogConstantsOK PROVE CatalogSpec => []CatalogTypeOK
<1>1. CatalogInit => CatalogTypeOK
  BY CatalogTypeInit
<1>2. CatalogTypeOK /\ [CatalogNext]_modelVars => CatalogTypeOK'
  BY CatalogTypeNext
<1> QED
  BY <1>1, <1>2, PTL DEF CatalogSpec

----------------------------------------------------------------------------
(* Why the registry never goes back: a client that fetches it is the one    *)
(* `inflight` stands for, and its answer is no older than the registry it   *)
(* will replace.                                                            *)
Fetches(k) == op[k] = "list" /\ askPc[k] \in {"asked", "answered"}
OneFetch == \A k \in Client : Fetches(k) => inflight = k
AnswerKept ==
    /\ registry <= published
    /\ \A k \in Client :
         /\ answer[k] <= published
         /\ op[k] = "list" /\ askPc[k] = "answered" => registry <= answer[k]

(* Why a forced refresh is fresh: what its own fetch brings was published   *)
(* after it was asked for, and is what it returns.                          *)
Fresh(k) ==
    op[k] = "refresh" =>
        /\ since[k] <= published
        /\ answer[k] # 0 => since[k] <= answer[k]
        /\ askPc[k] \in {"asked", "answered", "landed"} => got[k] = 0
        /\ got[k] # 0 /\ answer[k] # 0 => got[k] = answer[k]

CatalogInv == OneFetch /\ AnswerKept /\ \A k \in Client : Fresh(k)

LEMMA CatalogInvInit == ASSUME CatalogConstantsOK, CatalogInit PROVE CatalogInv
  BY DEF CatalogInit, CatalogInv, OneFetch, AnswerKept, Fetches, Fresh

LEMMA CallAt ==
  ASSUME CatalogTypeOK, NEW k \in Client, NEW o, NEW p, Ask(k, o, p)
  PROVE  /\ askPc'[k] = p /\ op'[k] = o /\ answer'[k] = 0 /\ got'[k] = 0
         /\ o = "refresh" => since'[k] = published
         /\ \A j \in Client \ {k} :
              /\ askPc'[j] = askPc[j] /\ op'[j] = op[j] /\ answer'[j] = answer[j]
              /\ since'[j] = since[j] /\ got'[j] = got[j]
  BY DEF Ask, CatalogTypeOK

(* The others' parts of the invariant, when nothing was published and the   *)
(* registry did not move.                                                   *)
LEMMA FreshOther ==
  ASSUME NEW j \in Client, Fresh(j), published' = published,
         askPc'[j] = askPc[j] \/ askPc'[j] = "idle", op'[j] = op[j], answer'[j] = answer[j],
         since'[j] = since[j], got'[j] = got[j]
  PROVE  Fresh(j)'
  BY DEF Fresh

LEMMA NatFacts ==
  ASSUME CatalogConstantsOK, CatalogTypeOK
  PROVE  /\ published \in Nat /\ registry \in Nat /\ 0 <= published
         /\ \A k \in Client : answer[k] \in Nat /\ since[k] \in Nat /\ got[k] \in Nat
<1>1. published \in 1..MaxVersion /\ registry \in 0..MaxVersion
  BY DEF CatalogTypeOK, Version
<1>2. \A k \in Client : answer[k] \in 0..MaxVersion /\ since[k] \in 1..MaxVersion
                        /\ got[k] \in 0..MaxVersion
  BY DEF CatalogTypeOK, Version
<1> QED
  BY <1>1, <1>2 DEF CatalogConstantsOK

LEMMA CatalogInvNext == ASSUME CatalogConstantsOK, CatalogTypeOK, CatalogTypeOK', CatalogInv, [CatalogNext]_modelVars PROVE CatalogInv'
<1>0. NoClient \notin Client
  BY DEF CatalogConstantsOK
<1>1. CASE Publish
  <2>1. published' = published + 1
    BY <1>1 DEF Publish
  <2>2. UNCHANGED <<catalogVars, profileVars, client>>
    BY <1>1 DEF Publish
  <2>3. OneFetch'
    BY <2>2 DEF catalogVars, client, CatalogInv, OneFetch, Fetches
  <2>4. AnswerKept'
    BY <2>1, <2>2, NatFacts DEF catalogVars, client, CatalogInv, AnswerKept
  <2>5. ASSUME NEW k \in Client PROVE Fresh(k)'
    BY <2>1, <2>2, NatFacts DEF client, CatalogInv, Fresh
  <2> QED
    BY <2>3, <2>4, <2>5 DEF CatalogInv
<1>2. ASSUME NEW k \in Client, UpstreamAnswers(k) PROVE CatalogInv'
  <2>1. /\ askPc[k] = "asked" /\ askPc'[k] = "answered" /\ answer'[k] = published
        /\ \A j \in Client \ {k} : askPc'[j] = askPc[j] /\ answer'[j] = answer[j]
    BY <1>2 DEF UpstreamAnswers, CatalogTypeOK
  <2>2. UNCHANGED <<published, registry, inflight, op, since, got>>
    BY <1>2 DEF UpstreamAnswers, catalogVars
  <2>3. OneFetch'
    BY <2>1, <2>2 DEF CatalogInv, OneFetch, Fetches
  <2>4. AnswerKept'
    BY <2>1, <2>2, NatFacts DEF CatalogInv, AnswerKept
  <2>5. ASSUME NEW j \in Client PROVE Fresh(j)'
    BY <2>1, <2>2 DEF CatalogInv, Fresh
  <2> QED
    BY <2>3, <2>4, <2>5 DEF CatalogInv
<1>3. ASSUME NEW k \in Client, NEW o \in Op, NEW p \in {"asked", "joined"}, Ask(k, o, p),
             UNCHANGED <<published, registry>>,
             o = "list" => \/ inflight = NoClient /\ p = "asked" /\ inflight' = k
                           \/ p = "joined" /\ inflight' = inflight,
             o # "list" => inflight' = inflight
      PROVE  CatalogInv'
  <2>1. OneFetch'
    <3>1. ASSUME NEW j \in Client \ {k}, Fetches(j)' PROVE inflight' = j
      <4>1. Fetches(j)
        BY <1>3, <3>1, CallAt DEF Fetches
      <4>2. inflight = j
        BY <4>1 DEF CatalogInv, OneFetch
      <4> QED
        BY <1>0, <1>3, <4>2
    <3>2. Fetches(k)' => inflight' = k
      BY <1>3, CallAt DEF Fetches
    <3> QED
      BY <3>1, <3>2 DEF OneFetch
  <2>2. AnswerKept'
    BY <1>3, CallAt, NatFacts DEF CatalogInv, AnswerKept
  <2>3. ASSUME NEW j \in Client PROVE Fresh(j)'
    <3>1. CASE j = k
      BY <1>3, <3>1, CallAt, NatFacts DEF Fresh
    <3>2. CASE j # k
      BY <1>3, <3>2, CallAt, FreshOther DEF CatalogInv
    <3> QED
      BY <3>1, <3>2
  <2> QED
    BY <2>1, <2>2, <2>3 DEF CatalogInv
<1>4. ASSUME NEW k \in Client, RefreshRegistry(k) PROVE CatalogInv'
  <2>1. "list" \in Op
    BY DEF Op
  <2> QED
    BY <1>3, <1>4, <2>1 DEF RefreshRegistry
<1>5. ASSUME NEW k \in Client, EnsureProfile(k) PROVE CatalogInv'
  <2>1. "ensure" \in Op
    BY DEF Op
  <2> QED
    BY <1>3, <1>5, <2>1 DEF EnsureProfile, catalogVars
<1>6. ASSUME NEW k \in Client, RefreshProfile(k) PROVE CatalogInv'
  <2>1. "refresh" \in Op
    BY DEF Op
  <2> QED
    BY <1>3, <1>6, <2>1 DEF RefreshProfile, catalogVars
<1>7. ASSUME NEW k \in Client, RegistryLands(k) \/ RegistryFails(k) PROVE CatalogInv'
  <2>1. inflight = k /\ op[k] = "list"
    BY <1>7 DEF RegistryLands, RegistryFails, CatalogInv, OneFetch, Fetches
  <2>2. /\ inflight' = NoClient
        /\ UNCHANGED <<published, op, since, got>>
        /\ \A j \in Client : askPc'[j] = askPc[j] \/ askPc'[j] = "idle"
        /\ askPc'[k] = "idle"
    BY <1>7 DEF RegistryLands, RegistryFails, Done, Sharing
  <2>3. OneFetch'
    BY <1>0, <2>1, <2>2 DEF CatalogInv, OneFetch, Fetches
  <2>4. \A j \in Client \ {k} : answer'[j] = answer[j]
    BY <1>7 DEF RegistryLands, RegistryFails, CatalogTypeOK
  <2>5. answer'[k] = 0 \/ answer'[k] = answer[k]
    BY <1>7 DEF RegistryLands, RegistryFails, CatalogTypeOK
  <2>6. registry' = registry \/ registry' = answer[k]
    BY <1>7 DEF RegistryLands, RegistryFails
  <2>7. registry' <= published'
    BY <2>2, <2>6 DEF CatalogInv, AnswerKept
  <2>8. \A j \in Client : answer'[j] <= published'
    BY <2>2, <2>4, <2>5, NatFacts DEF CatalogInv, AnswerKept
  <2>9. \A j \in Client : ~(op'[j] = "list" /\ askPc'[j] = "answered")
    BY <1>0, <2>1, <2>2 DEF CatalogInv, OneFetch, Fetches
  <2>10. ASSUME NEW j \in Client PROVE Fresh(j)'
    <3>1. CASE j = k
      BY <2>1, <2>2, <3>1 DEF Fresh
    <3>2. CASE j # k
      BY <2>2, <2>4, <3>2, FreshOther DEF CatalogInv
    <3> QED
      BY <3>1, <3>2
  <2> QED
    BY <2>3, <2>7, <2>8, <2>9, <2>10 DEF CatalogInv, AnswerKept
<1>8. ASSUME NEW k \in Client, ProfileLands(k) \/ ProfileReturns(k) \/ ProfileFails(k)
      PROVE  CatalogInv'
  <2>1. UNCHANGED <<published, registry, inflight, op, since>>
    BY <1>8 DEF ProfileLands, ProfileReturns, ProfileFails, Done, Give, catalogVars
  <2>2. \A j \in Client \ {k} : answer'[j] = answer[j] /\ got'[j] = got[j]
    BY <1>8 DEF ProfileLands, ProfileReturns, ProfileFails, Done, Give, CatalogTypeOK
  <2>3. \A j \in Client \ {k} : askPc'[j] = askPc[j] \/ askPc'[j] = "idle"
    BY <1>8 DEF ProfileLands, ProfileReturns, ProfileFails, Done, Give, CatalogTypeOK
  <2>4. askPc'[k] \in {"idle", "landed"}
    BY <1>8 DEF ProfileLands, ProfileReturns, ProfileFails, Done, Give, Sharing, CatalogTypeOK
  <2>5. answer'[k] = 0 \/ answer'[k] = answer[k]
    BY <1>8 DEF ProfileLands, ProfileReturns, ProfileFails, CatalogTypeOK
  <2>6. OneFetch'
    BY <2>1, <2>3, <2>4 DEF CatalogInv, OneFetch, Fetches
  <2>7. AnswerKept'
    BY <2>1, <2>2, <2>3, <2>4, <2>5, NatFacts DEF CatalogInv, AnswerKept
  <2>8. ASSUME NEW j \in Client PROVE Fresh(j)'
    <3>1. CASE j # k
      BY <2>1, <2>2, <2>3, <3>1, FreshOther DEF CatalogInv
    <3>2. CASE j = k /\ ProfileLands(k)
      BY <2>1, <2>4, <3>2 DEF ProfileLands, CatalogInv, Fresh
    <3>3. CASE j = k /\ ProfileReturns(k)
      <4>1. askPc'[k] = "idle" /\ got'[k] = answer[k] /\ answer'[k] = answer[k]
        BY <3>3 DEF ProfileReturns, Give, Done, CatalogTypeOK
      <4> QED
        BY <2>1, <3>3, <4>1 DEF CatalogInv, Fresh
    <3>4. CASE j = k /\ ProfileFails(k)
      <4>1. askPc'[k] = "idle" /\ answer'[k] = 0
        BY <3>4 DEF ProfileFails, Give, Done, Sharing, CatalogTypeOK
      <4> QED
        BY <2>1, <3>4, <4>1 DEF CatalogInv, Fresh
    <3> QED
      BY <1>8, <3>1, <3>2, <3>3, <3>4
  <2> QED
    BY <2>6, <2>7, <2>8 DEF CatalogInv
<1>9. CASE UNCHANGED modelVars
  BY <1>9 DEF modelVars, catalogVars, client, CatalogInv, OneFetch, AnswerKept, Fetches, Fresh
<1> QED
  BY <1>1, <1>2, <1>4, <1>5, <1>6, <1>7, <1>8, <1>9 DEF CatalogNext

LEMMA CatalogInvCorrect == ASSUME CatalogConstantsOK PROVE CatalogSpec => [](CatalogTypeOK /\ CatalogInv)
<1>1. CatalogInit => CatalogTypeOK /\ CatalogInv
  BY CatalogTypeInit, CatalogInvInit
<1>2. CatalogTypeOK /\ CatalogInv /\ [CatalogNext]_modelVars => (CatalogTypeOK /\ CatalogInv)'
  BY CatalogTypeNext, CatalogInvNext
<1> QED
  BY <1>1, <1>2, PTL DEF CatalogSpec

(* A forced refresh whose fetch succeeded returns a profile no older than   *)
(* upstream's when it was asked for, whatever other fetches land meanwhile. *)
THEOREM ForcedRefreshesAreFresh == ASSUME CatalogConstantsOK PROVE CatalogSpec => []ForcedRefreshIsFresh
<1>1. CatalogTypeOK /\ CatalogInv => ForcedRefreshIsFresh
  BY DEF CatalogInv, Fresh, ForcedRefreshIsFresh
<1> QED
  BY <1>1, CatalogInvCorrect, PTL

(* No order in which the registry is refreshed and answered replaces it by  *)
(* an older catalog.                                                        *)
THEOREM RegistryNeverGoesBack == ASSUME CatalogConstantsOK PROVE CatalogSpec => CatalogNeverGoesBack
<1>1. ASSUME CatalogTypeOK, CatalogInv, [CatalogNext]_modelVars PROVE registry' >= registry
  <2>1. CASE registry' = registry
    BY <1>1, <2>1, NatFacts
  <2>2. ASSUME NEW k \in Client, RegistryLands(k) PROVE registry' >= registry
    <3>1. registry' = answer[k] /\ registry <= answer[k]
      BY <1>1, <2>2 DEF RegistryLands, CatalogInv, AnswerKept
    <3> QED
      BY <1>1, <3>1, NatFacts
  <2>3. registry' = registry \/ \E k \in Client : RegistryLands(k)
    BY <1>1 DEF CatalogNext, modelVars, Publish, UpstreamAnswers, RefreshRegistry, RegistryFails, EnsureProfile,
         RefreshProfile, ProfileLands, ProfileReturns, ProfileFails, catalogVars
  <2> QED
    BY <2>1, <2>2, <2>3
<1>2. CatalogTypeOK /\ CatalogInv /\ [CatalogNext]_modelVars => [registry' >= registry]_modelVars
  BY <1>1
<1> QED
  BY <1>2, CatalogInvCorrect, PTL DEF CatalogSpec, CatalogNeverGoesBack

----------------------------------------------------------------------------
(* The least of a set of places in a list is one of them, and before all.   *)
LEMMA LeastPlace ==
  ASSUME NEW places \in SUBSET Nat, places # {}
  PROVE  First(places) \in places /\ \A j \in places : First(places) <= j
<1> DEFINE Less == {ss \in Nat \X Nat : ss[1] < ss[2]}
<1>1. IsWellFoundedOn(Less, Nat)
  BY NatLessThanWellFounded, Zenon DEF OpToRel
<1>2. PICK i \in places : \A j \in places : ~(<<j, i>> \in Less)
  BY <1>1, WFMin
<1>3. ASSUME NEW j \in places PROVE i <= j
  <2>1. <<j, i>> \in Nat \X Nat /\ <<j, i>>[1] = j /\ <<j, i>>[2] = i
    OBVIOUS
  <2>2. ~(j < i)
    BY <1>2, <2>1
  <2> QED
    BY <2>2
<1> QED
  BY <1>3 DEF First

LEMMA FamilyAliasIsListed ==
  ASSUME ResolutionConstantsOK, NEW v \in 0..MaxVersion, NEW f, FamilyMembers(f, v) # {}
  PROVE  ResolveFamilyAlias(f, v) \in IdsOf(v)
<1>1. FamilyMembers(f, v) \subseteq DOMAIN Catalog[v] /\ DOMAIN Catalog[v] \subseteq Nat
  BY DEF FamilyMembers, ResolutionConstantsOK
<1> DEFINE undated == {i \in FamilyMembers(f, v) : ~Catalog[v][i].dated}
           choice == IF undated # {} THEN undated ELSE FamilyMembers(f, v)
<1>2. choice \subseteq DOMAIN Catalog[v] /\ choice # {}
  BY <1>1
<1>3. First(choice) \in DOMAIN Catalog[v]
  BY <1>1, <1>2, LeastPlace
<1>4. ResolveFamilyAlias(f, v) = Catalog[v][First(choice)].id
  BY DEF ResolveFamilyAlias
<1> QED
  BY <1>3, <1>4 DEF IdsOf

(* What a chat means by an id that some catalog has, and by any other name. *)
LEMMA IdsMeanThemselves ==
  ASSUME ResolutionConstantsOK, NEW v \in 0..MaxVersion, NEW id \in ClaudeId
  PROVE  ResolveModel(id, v) = id
  BY DEF ResolveModel, ResolutionConstantsOK

LEMMA NamesAreAnswered ==
  ASSUME ResolutionConstantsOK, NEW v \in 0..MaxVersion, Catalog[v] # <<>>,
         NEW name \in Family \cup {Foreign}
  PROVE  ResolveModel(name, v) \in IdsOf(v)
<1>1. name \notin ClaudeId
  BY DEF ResolutionConstantsOK
<1>2. Catalog[v][1].id \in IdsOf(v)
  <2>1. 1 \in DOMAIN Catalog[v]
    BY DEF ResolutionConstantsOK
  <2> QED
    BY <2>1 DEF IdsOf
<1>3. LastResort(name, v) \in IdsOf(v)
  BY <1>2 DEF LastResort
<1> QED
  BY <1>1, <1>3, FamilyAliasIsListed DEF ResolveModel

(* A chat may name any id that /v1/models has ever listed, with its effort, *)
(* whatever catalogs have come since and in whatever order refreshes land,  *)
(* and a family or a foreign name gets a model of a catalog that has any.   *)
THEOREM ListedIdsResolve ==
  ASSUME CatalogConstantsOK, ResolutionConstantsOK PROVE CatalogSpec => []ListedResolves
<1>1. CatalogTypeOK => ListedResolves
  <2> SUFFICES ASSUME CatalogTypeOK PROVE ListedResolves
    OBVIOUS
  <2>1. registry \in 0..MaxVersion
    BY DEF CatalogTypeOK
  <2>2. ASSUME NEW e \in Listable PROVE e \in MeanThemselves[registry]
    <3>1. e[1] \in ClaudeId
      BY DEF Listable, Listing, ClaudeId
    <3>2. ResolveModel(e[1], registry) = e[1]
      BY <2>1, <3>1, IdsMeanThemselves
    <3> QED
      BY <2>1, <3>2 DEF MeanThemselves, ResolveModelVariant
  <2>3. registry \in AnswerAnyName
    BY <2>1, NamesAreAnswered DEF AnswerAnyName
  <2> QED
    BY <2>2, <2>3 DEF ListedResolves, CatalogTypeOK
<1>2. CatalogSpec => []CatalogTypeOK
  BY CatalogTypeCorrect
<1> QED
  BY <1>1, <1>2, PTL
----------------------------------------------------------------------------
(* The options of a request.  What GetModelCapabilities answers is what     *)
(* upstream declared of the id, or what the fallback catalog says.          *)

Mirror ==
    /\ declared = {} \/ \E catalog \in Live : declared = {catalog}
    /\ liveCatalog = {{Normalize(raw) : raw \in catalog} : catalog \in declared}

LEMMA CatalogInForce ==
  ASSUME Mirror
  PROVE  \/ declared = {} /\ liveCatalog = {} /\ CurrentCatalog = FallbackModels
         \/ \E catalog \in Live : /\ declared = {catalog} /\ UNION declared = catalog
                                  /\ liveCatalog # {}
                                  /\ CurrentCatalog = {Normalize(raw) : raw \in catalog}
<1>1. CASE declared = {}
  BY <1>1 DEF Mirror, CurrentCatalog
<1>2. ASSUME NEW catalog \in Live, declared = {catalog}
      PROVE  /\ UNION declared = catalog /\ liveCatalog # {}
             /\ CurrentCatalog = {Normalize(raw) : raw \in catalog}
  <2> DEFINE normal == {Normalize(raw) : raw \in catalog}
  <2>1. liveCatalog = {normal}
    BY <1>2 DEF Mirror
  <2> HIDE DEF normal
  <2>2. UNION liveCatalog = normal /\ liveCatalog # {}
    BY <2>1
  <2> QED
    BY <1>2, <2>2 DEF CurrentCatalog, normal
<1> QED
  BY <1>1, <1>2 DEF Mirror

(* Upstream, or the fallback catalog, says so of the model.                 *)
Declares(id, flag) == \E raw \in UNION declared : raw.id = id /\ flag \in raw.supports
Allows(id, level) ==
    \E raw \in UNION declared : raw.id = id /\ "effort" \in raw.supports /\ level \in raw.levels

LEMMA Capabilities ==
  ASSUME OptionConstantsOK, Mirror, NEW id
  PROVE  /\ GetModelCapabilities(id).adaptive =>
              IF declared = {} THEN id \in Modern ELSE Declares(id, "adaptive")
         /\ \A level \in GetEffortLevels(id) :
              /\ IF declared = {} THEN id \in Modern ELSE Allows(id, level)
              /\ level \notin {"unset", "format"}
         /\ ~GetModelCapabilities(id).image /\ GetModelCapabilities(id).verified <=>
              \E raw \in UNION declared : raw.id = id /\ "image" \notin raw.supports
<1> DEFINE caps == GetModelCapabilities(id)
<1>1. /\ caps.adaptive <=> \E e \in CurrentCatalog : e.id = id /\ e.adaptive
      /\ caps.image <=> \E e \in CurrentCatalog : e.id = id /\ e.image
      /\ caps.verified <=> liveCatalog # {} /\ \E e \in CurrentCatalog : e.id = id
      /\ \A level \in GetEffortLevels(id) : \E e \in CurrentCatalog : e.id = id /\ level \in e.levels
  BY DEF GetModelCapabilities, GetEffortLevels, Entry
<1> HIDE DEF caps
<1>2. CASE declared = {} /\ liveCatalog = {} /\ CurrentCatalog = FallbackModels
  <2>1. ASSUME NEW e \in FallbackModels
        PROVE  /\ e.adaptive => e.id \in Modern
               /\ \A level \in e.levels : e.id \in Modern /\ level \notin {"unset", "format"}
    <3>1. PICK m \in Modern \cup Older : e = MakeFallback(m)
      BY DEF FallbackModels
    <3>2. MakeFallback(m).id = m /\ (MakeFallback(m).adaptive <=> m \in Modern)
      BY DEF MakeFallback
    <3>3. MakeFallback(m).levels = IF m \in Modern THEN {"low", "medium", "high", "max"} ELSE {}
      BY DEF MakeFallback
    <3> QED
      BY <3>1, <3>2, <3>3
  <2> QED
    BY <1>1, <1>2, <2>1 DEF caps
<1>3. ASSUME NEW catalog \in Live, declared = {catalog}, UNION declared = catalog, liveCatalog # {},
             CurrentCatalog = {Normalize(raw) : raw \in catalog}
      PROVE  /\ caps.adaptive => Declares(id, "adaptive")
             /\ \A level \in GetEffortLevels(id) :
                  Allows(id, level) /\ level \notin {"unset", "format"}
             /\ ~caps.image /\ caps.verified <=>
                  \E raw \in catalog : raw.id = id /\ "image" \notin raw.supports
  <2>1. ASSUME NEW raw \in catalog
        PROVE  /\ Normalize(raw).id = raw.id
               /\ Normalize(raw).adaptive <=> "adaptive" \in raw.supports
               /\ Normalize(raw).image <=> "image" \in raw.supports
               /\ \A level \in Normalize(raw).levels : "effort" \in raw.supports /\ level \in raw.levels
    BY DEF Normalize, ExtractEffortLevels
  <2>2. /\ \A a, b \in catalog : a.id = b.id => a = b
        /\ \A raw \in catalog : raw.levels \cap {"unset", "format"} = {}
    BY DEF OptionConstantsOK
  <2>3. caps.adaptive => Declares(id, "adaptive")
    BY <1>1, <1>3, <2>1 DEF Declares
  <2>4. ASSUME NEW level \in GetEffortLevels(id)
        PROVE  Allows(id, level) /\ level \notin {"unset", "format"}
    <3>1. PICK e \in CurrentCatalog : e.id = id /\ level \in e.levels
      BY <1>1, <2>4
    <3>2. PICK raw \in catalog : e = Normalize(raw)
      BY <1>3
    <3>3. raw.id = id /\ "effort" \in raw.supports /\ level \in raw.levels
      BY <2>1, <3>1, <3>2
    <3> QED
      BY <1>3, <2>2, <3>3 DEF Allows
  <2>5. caps.image <=> \E raw \in catalog : raw.id = id /\ "image" \in raw.supports
    BY <1>1, <1>3, <2>1
  <2>6. caps.verified <=> \E raw \in catalog : raw.id = id
    BY <1>1, <1>3, <2>1
  <2> QED
    BY <2>2, <2>3, <2>4, <2>5, <2>6
<1>4. declared = {} \/ \E catalog \in Live : declared = {catalog}
  BY DEF Mirror
<1>5. CASE \E catalog \in Live : /\ declared = {catalog} /\ UNION declared = catalog
                                 /\ liveCatalog # {}
                                 /\ CurrentCatalog = {Normalize(raw) : raw \in catalog}
  <2>1. PICK catalog \in Live : /\ declared = {catalog} /\ UNION declared = catalog
                                /\ liveCatalog # {}
                                /\ CurrentCatalog = {Normalize(raw) : raw \in catalog}
    BY <1>5
  <2>2. declared # {}
    BY <2>1
  <2> QED
    BY <1>3, <2>1, <2>2 DEF caps
<1> QED
  BY <1>2, <1>5, CatalogInForce

(* What the transform and the projection count on of a request.             *)
Valid(q) == q.structured \in BOOLEAN /\ q.parallel \in BOOLEAN /\ q.users \in Nat

(* system[] has its billing line first and at most one mark, on the         *)
(* identity.                                                                *)
Billing == [says |-> "billing", marked |-> FALSE]
Identity == [says |-> "identity", marked |-> TRUE]
Runtime == [says |-> "runtime", marked |-> FALSE]

LEMMA Lines ==
  /\ Billing.says = "billing" /\ Identity.says = "identity" /\ Runtime.says = "runtime"
  /\ Billing.marked = FALSE /\ Identity.marked = TRUE /\ Runtime.marked = FALSE
  BY DEF Billing, Identity, Runtime

LEMMA Joined ==
  ASSUME NEW a, NEW b, NEW c
  PROVE  /\ <<a>> \o <<b>> = <<a, b>> /\ <<a, b>> \o <<c>> = <<a, b, c>>
         /\ <<a>> \o <<>> = <<a>> /\ <<a, b>> \o <<>> = <<a, b>>
<1> DEFINE S == {a, b, c}
<1>1. /\ <<a>> \in Seq(S) /\ <<b>> \in Seq(S) /\ <<c>> \in Seq(S)
      /\ <<a, b>> \in Seq(S) /\ <<a, b, c>> \in Seq(S)
  OBVIOUS
<1>2. /\ Len(<<a>>) = 1 /\ Len(<<b>>) = 1 /\ Len(<<c>>) = 1
      /\ Len(<<a, b>>) = 2 /\ Len(<<a, b, c>>) = 3
  OBVIOUS
<1> HIDE DEF S
<1>3. <<a>> \o <<b>> = <<a, b>>
  <2>1. /\ <<a>> \o <<b>> \in Seq(S) /\ Len(<<a>> \o <<b>>) = 2
        /\ \A i \in 1..2 : (<<a>> \o <<b>>)[i] = IF i <= 1 THEN <<a>>[i] ELSE <<b>>[i - 1]
    BY <1>1, <1>2, ConcatProperties
  <2>2. \A i \in 1..2 : (<<a>> \o <<b>>)[i] = <<a, b>>[i]
    BY <2>1
  <2> QED
    BY <1>1, <1>2, <2>1, <2>2, SeqEqual
<1>4. <<a, b>> \o <<c>> = <<a, b, c>>
  <2>1. /\ <<a, b>> \o <<c>> \in Seq(S) /\ Len(<<a, b>> \o <<c>>) = 3
        /\ \A i \in 1..3 : (<<a, b>> \o <<c>>)[i] = IF i <= 2 THEN <<a, b>>[i] ELSE <<c>>[i - 2]
    BY <1>1, <1>2, ConcatProperties
  <2>2. \A i \in 1..3 : (<<a, b>> \o <<c>>)[i] = <<a, b, c>>[i]
    BY <2>1
  <2> QED
    BY <1>1, <1>2, <2>1, <2>2, SeqEqual
<1> QED
  BY <1>1, <1>3, <1>4, ConcatEmptySeq

LEMMA SystemIs ==
  ASSUME NEW q
  PROVE  System(q) = IF IncludeIdentity(q)
                     THEN IF q.runtime = "text" THEN <<Billing, Identity, Runtime>>
                          ELSE <<Billing, Identity>>
                     ELSE IF q.runtime = "text" THEN <<Billing, Runtime>> ELSE <<Billing>>
<1>1. System(q) = <<Billing>> \o (IF IncludeIdentity(q) THEN <<Identity>> ELSE <<>>)
                    \o (IF q.runtime = "text" THEN <<Runtime>> ELSE <<>>)
  BY DEF System, Billing, Identity, Runtime
<1> QED
  BY <1>1, Joined

LEMMA SystemFacts ==
  ASSUME NEW q
  PROVE  /\ 1 \in DOMAIN System(q) /\ System(q)[1].says = "billing"
         /\ \A i \in DOMAIN System(q) :
              /\ System(q)[i] \in {Billing, Identity, Runtime}
              /\ System(q)[i] = Identity => i = 2 /\ IncludeIdentity(q)
<1>1. Billing # Identity /\ Runtime # Identity
  BY Lines
<1>2. System(q) \in {<<Billing, Identity, Runtime>>, <<Billing, Identity>>, <<Billing, Runtime>>,
                     <<Billing>>}
      /\ (~IncludeIdentity(q) => System(q) \in {<<Billing, Runtime>>, <<Billing>>})
  BY SystemIs
<1> QED
  BY <1>1, <1>2, Lines

LEMMA MarksOfSystem ==
  ASSUME NEW q
  PROVE  /\ \A i \in DOMAIN System(q) : System(q)[i].says = "runtime" => ~System(q)[i].marked
         /\ {i \in DOMAIN System(q) : System(q)[i].marked} \subseteq {2}
         /\ ~IncludeIdentity(q) => {i \in DOMAIN System(q) : System(q)[i].marked} = {}
<1>1. ASSUME NEW i \in DOMAIN System(q), System(q)[i].marked
      PROVE  System(q)[i] = Identity
  BY <1>1, SystemFacts, Lines
<1>2. Identity.says # "runtime"
  BY Lines
<1> QED
  BY <1>1, <1>2, SystemFacts

LEMMA MarksFit ==
  ASSUME NEW q, Valid(q)
  PROVE  Cardinality({i \in DOMAIN System(q) : System(q)[i].marked}) + MessageMarks(q)
           + (IF q.tools # {} THEN 1 ELSE 0) <= 4
<1> DEFINE Marked == {i \in DOMAIN System(q) : System(q)[i].marked}
           identity == IF IncludeIdentity(q) THEN 1 ELSE 0
           last == IF q.tools # {} THEN 1 ELSE 0
<1>1. Marked \subseteq {2} /\ (~IncludeIdentity(q) => Marked = {})
  BY MarksOfSystem
<1> HIDE DEF Marked
<1>2. Cardinality(Marked) \in Nat /\ Cardinality(Marked) <= identity
  <2>1. CASE Marked = {}
    BY <2>1, FS_EmptySet
  <2>2. CASE Marked = {2}
    <3>1. Cardinality(Marked) = 1
      BY <2>2, FS_Singleton
    <3>2. identity = 1
      BY <1>1, <2>2
    <3> QED
      BY <3>1, <3>2
  <2> QED
    BY <1>1, <2>1, <2>2
<1>3. identity \in 0..1 /\ last \in 0..1 /\ Budget(q) = 4 - identity - last
  BY DEF Budget
<1> HIDE DEF identity, last
<1>4. MessageMarks(q) \in Nat /\ MessageMarks(q) <= Budget(q)
  BY <1>3 DEF MessageMarks, Valid
<1>5. Cardinality(Marked) + MessageMarks(q) + last <= 4
  BY <1>2, <1>3, <1>4
<1> QED
  BY <1>5 DEF Marked, last

LEMMA BodySound ==
  ASSUME OptionConstantsOK, Mirror, NEW q, Valid(q)
  PROVE  BodyConsistent(OpenaiToAnthropic(q)) /\ OpenaiToAnthropic(q).sent = TRUE
<1> DEFINE o == OpenaiToAnthropic(q)
<1>1. /\ o.sent = TRUE /\ o.model = q.model /\ o.system = System(q) /\ o.messageMarks = MessageMarks(q)
      /\ o.temperature = Temperature(q) /\ o.thinking = Thinks(q) /\ o.outputConfig = OutputConfig(q)
      /\ o.tools = q.tools /\ o.choice = ToolChoice(q) /\ o.stop = StopSequences(q)
  BY DEF OpenaiToAnthropic
<1> HIDE DEF o
<1>2. OutputConfig(q) \notin {Unset, "format"} => OutputConfig(q) \in GetEffortLevels(q.model)
  BY DEF OutputConfig, ResolveEffort
<1>3. OutputConfig(q) = "format" => q.structured
  <2>1. "format" \notin GetEffortLevels(q.model)
    BY Capabilities
  <2> QED
    BY <2>1 DEF OutputConfig, ResolveEffort, Unset
<1>4. ThinkingFits(o)
  <2>1. Thinks(q) => /\ GetModelCapabilities(q.model).adaptive
                     /\ Temperature(q) = "1" /\ ~q.structured
    BY DEF Thinks, Temperature
  <2>2. GetModelCapabilities(q.model).adaptive => Takes(q.model, "adaptive", Unset)
    BY Capabilities DEF Declares, Takes
  <2> QED
    BY <1>1, <1>3, <2>1, <2>2 DEF ThinkingFits
<1>5. EffortFits(o)
  <2>1. \A level \in GetEffortLevels(q.model) : Takes(q.model, "effort", level)
    BY Capabilities DEF Allows, Takes
  <2> QED
    BY <1>1, <1>2, <2>1 DEF EffortFits
<1>6. SystemFits(o)
  BY <1>1, SystemFacts, MarksOfSystem, MarksFit DEF SystemFits
<1>7. ChoiceFits(o)
  <2>1. /\ ToolChoice(q).type = "none" => ~ToolChoice(q).serial
        /\ ToolChoice(q).type # Unset => q.tools # {}
    BY DEF ToolChoice, Unset
  <2>2. "" \notin StopSequences(q)
    BY DEF StopSequences
  <2>3. o.choice = ToolChoice(q) /\ o.tools = q.tools /\ o.stop = StopSequences(q)
    BY <1>1
  <2> QED
    BY <2>1, <2>2, <2>3, Zenon DEF ChoiceFits
<1> QED
  BY <1>1, <1>4, <1>5, <1>6, <1>7 DEF BodyConsistent, o

LEMMA ProjectionSound ==
  ASSUME OptionConstantsOK, Mirror, NEW q, Valid(q)
  PROVE  LET o == ProjectForCountTokens(OpenaiToAnthropic(q))
         IN  BodyConsistent(o) /\ Bare(o) /\ o.sent = TRUE
<1> DEFINE b == OpenaiToAnthropic(q)
           o == ProjectForCountTokens(b)
<1>1. b.system = System(q) /\ b.sent
  BY DEF OpenaiToAnthropic
<1>2. /\ o.sent = TRUE /\ o.messageMarks = 0 /\ o.thinking = FALSE
      /\ o.outputConfig = Unset /\ o.tools = b.tools /\ o.choice = b.choice /\ o.stop = {}
      /\ o.system = [i \in DOMAIN b.system |-> [b.system[i] EXCEPT !.marked = FALSE]]
  BY DEF OpenaiToAnthropic, ProjectForCountTokens
<1>3. BodyConsistent(b)
  BY BodySound
<1> HIDE DEF b, o
<1>4. ASSUME NEW i \in DOMAIN b.system
      PROVE  o.system[i].marked = FALSE /\ o.system[i].says = b.system[i].says
  <2>1. b.system[i] \in {Billing, Identity, Runtime}
    BY <1>1, SystemFacts
  <2>2. o.system[i] = [b.system[i] EXCEPT !.marked = FALSE]
    BY <1>2
  <2> QED
    BY <2>1, <2>2 DEF Billing, Identity, Runtime
<1>5. DOMAIN o.system = DOMAIN b.system
  BY <1>2
<1>6. Bare(o)
  BY <1>2, <1>4, <1>5 DEF Bare
<1>7. SystemFits(o)
  <2>1. o.system[1].says = "billing"
    <3>1. 1 \in DOMAIN b.system /\ b.system[1].says = "billing"
      BY <1>1, SystemFacts
    <3> QED
      BY <1>4, <3>1, Zenon
  <2>2. {i \in DOMAIN o.system : o.system[i].marked} = {}
    BY <1>4, <1>5
  <2>3. Cardinality({i \in DOMAIN o.system : o.system[i].marked}) + o.messageMarks
          + (IF o.tools # {} THEN 1 ELSE 0) <= 4
    BY <1>2, <2>2, FS_EmptySet, SMTT(30)
  <2>4. \A i \in DOMAIN o.system : o.system[i].says = "runtime" => ~o.system[i].marked
    <3>1. \A i \in DOMAIN o.system : o.system[i].marked = FALSE
      BY <1>4, <1>5
    <3> QED
      BY <3>1, Zenon
  <2> QED
    BY <2>1, <2>3, <2>4, Zenon DEF SystemFits
<1>8. ThinkingFits(o) /\ EffortFits(o)
  BY <1>2 DEF ThinkingFits, EffortFits
<1>9. ChoiceFits(o)
  <2>1. o.choice = b.choice /\ o.tools = b.tools /\ "" \notin o.stop
    BY <1>2
  <2>2. ChoiceFits(b)
    BY <1>3 DEF BodyConsistent
  <2> QED
    BY <2>1, <2>2, Zenon DEF ChoiceFits
<1> QED
  BY <1>2, <1>6, <1>7, <1>8, <1>9 DEF BodyConsistent, o, b

(* A decision stands while the catalog does.                                *)
LEMMA Stands ==
  ASSUME NEW o, outcome' = o, declared' = declared
  PROVE  (BodyConsistent(outcome))' <=> BodyConsistent(o)
<1>1. (ThinkingFits(outcome))' <=> ThinkingFits(o)
  BY DEF ThinkingFits, Takes
<1>2. (EffortFits(outcome))' <=> EffortFits(o)
  BY DEF EffortFits, Takes
<1>3. (SystemFits(outcome))' <=> SystemFits(o)
  BY DEF SystemFits
<1>4. (ChoiceFits(outcome))' <=> ChoiceFits(o)
  BY DEF ChoiceFits
<1> QED
  BY <1>1, <1>2, <1>3, <1>4 DEF BodyConsistent

(* Nothing is decided before a request has come, and what was decided goes  *)
(* on holding: no catalog lands within a request.                           *)
Undecided == request = NoRequest => outcome = Nothing /\ reply = 0 /\ ~counted
OptionInv ==
    /\ Mirror /\ Undecided /\ OptionsAccepted
    /\ request \in Request \cup {NoRequest} /\ outcome.sent \in BOOLEAN
    /\ reply \in {0, 200} \cup 400..599 /\ counted \in BOOLEAN

LEMMA RequestFacts ==
  ASSUME OptionConstantsOK, NEW q \in Request
  PROVE  /\ q # NoRequest /\ Valid(q) /\ Valid(ChatBody(q))
         /\ q.image \in BOOLEAN /\ q.errors \in Nat
<1>1. /\ q = [f \in RequestFields |-> q[f]]
      /\ q.structured \in BOOLEAN /\ q.parallel \in BOOLEAN /\ q.image \in BOOLEAN
      /\ q.users \in Nat /\ q.errors \in Nat
  BY DEF OptionConstantsOK
<1>2. q # NoRequest
  <2>1. "users" \in DOMAIN q
    BY <1>1 DEF RequestFields
  <2>2. "users" \notin DOMAIN NoRequest
    BY DEF NoRequest
  <2> QED
    BY <2>1, <2>2
<1>3. Valid(ChatBody(q))
  <2>1. \A f \in {"structured", "parallel", "users"} : ChatBody(q)[f] = Completion[f]
    BY <1>1 DEF ChatBody, Completion, RequestFields
  <2>2. Completion.structured = FALSE /\ Completion.parallel = TRUE /\ Completion.users = 1
    BY DEF Completion
  <2>3. /\ ChatBody(q).structured = FALSE /\ ChatBody(q).parallel = TRUE
        /\ ChatBody(q).users = 1
    BY <2>1, <2>2, Zenon
  <2>4. ChatBody(q).users \in Nat
    BY <2>3, <2>2
  <2> QED
    BY <2>3, <2>4, Zenon DEF Valid
<1> QED
  BY <1>1, <1>2, <1>3 DEF Valid

(* What a route does with a request, and whether it is right on pictures.   *)
Verdict(q, o) ==
    q.route \in {"chat", "count"} /\ q.image
        /\ (q.route = "chat" => q.errors < MaxConsecutiveToolErrors) =>
      (~o.sent <=> \E raw \in UNION declared : raw.id = q.model /\ "image" \notin raw.supports)

LEMMA Decides ==
  ASSUME OptionConstantsOK, OptionInv, NEW q \in Request, NEW o, Answered(q, o),
         o = Refused \/ (o.sent = TRUE /\ BodyConsistent(o)),
         q.route = "count" /\ o # Refused => Bare(o),
         Verdict(q, o)
  PROVE  OptionInv'
<1> USE DEF OptionInv
<1>1. /\ request' = q /\ outcome' = o /\ request = NoRequest
      /\ liveCatalog' = liveCatalog /\ declared' = declared /\ reply' = reply /\ counted' = counted
  BY DEF Answered
<1>2. reply = 0 /\ ~counted
  BY <1>1 DEF Undecided
<1>3. Mirror'
  BY <1>1 DEF Mirror
<1>4. Refused.sent = FALSE
  BY DEF Refused
<1>5. (outcome.sent => BodyConsistent(outcome))'
  <2>1. o.sent => BodyConsistent(o)
    BY <1>4
  <2> QED
    BY <1>1, <2>1, Stands
<1>6. ImagesFailOpen'
  BY <1>1 DEF ImagesFailOpen, Verdict
<1>7. CountsTheChat'
  <2>1. o.sent => o # Refused
    BY <1>4
  <2> QED
    BY <1>1, <1>2, <2>1 DEF CountsTheChat, Bare
<1>8. OptionsAccepted'
  BY <1>5, <1>6, <1>7 DEF OptionsAccepted
<1>9. Undecided' /\ outcome'.sent \in BOOLEAN
  BY <1>1, <1>4, RequestFacts DEF Undecided
<1> QED
  BY <1>1, <1>3, <1>8, <1>9

LEMMA PicturesJudged ==
  ASSUME OptionConstantsOK, Mirror, NEW q
  PROVE  ImageRefused(q) <=>
           q.image /\ \E raw \in UNION declared : raw.id = q.model /\ "image" \notin raw.supports
  BY Capabilities, Zenon DEF ImageRefused

LEMMA OptionStep == ASSUME OptionConstantsOK, OptionInv, [OptionNext]_optionVars PROVE OptionInv'
<1> USE DEF OptionInv
<1>1. ASSUME NEW catalog \in Live, Refreshed(catalog) PROVE OptionInv'
  <2>1. /\ declared' = {catalog} /\ liveCatalog' = {{Normalize(raw) : raw \in catalog}}
        /\ request' = request /\ outcome' = outcome /\ reply' = reply /\ counted' = counted
        /\ request = NoRequest /\ outcome = Nothing
    BY <1>1 DEF Refreshed, Undecided
  <2>2. Mirror'
    BY <2>1 DEF Mirror
  <2>3. Nothing.sent = FALSE /\ NoRequest.route = "unset"
    BY DEF NoRequest, Nothing, Unset
  <2>4. OptionsAccepted'
    BY <2>1, <2>3 DEF OptionsAccepted, ImagesFailOpen, CountsTheChat
  <2> QED
    BY <2>1, <2>2, <2>4 DEF Undecided
<1>2. ASSUME NEW q \in Request, Chat(q) PROVE OptionInv'
  <2>1. CASE q.errors >= MaxConsecutiveToolErrors \/ ImageRefused(q)
    <3>1. Answered(q, Refused) /\ q.route = "chat"
      BY <1>2, <2>1 DEF Chat
    <3>2. Refused.sent = FALSE
      BY DEF Refused
    <3>3. Verdict(q, Refused)
      <4>1. q.errors \in Nat /\ MaxConsecutiveToolErrors \in Nat
        BY RequestFacts DEF MaxConsecutiveToolErrors
      <4>2. CASE q.errors >= MaxConsecutiveToolErrors
        BY <3>1, <4>1, <4>2 DEF Verdict
      <4>3. CASE ImageRefused(q)
        BY <3>2, <4>3, PicturesJudged DEF Verdict
      <4> QED
        BY <2>1, <4>2, <4>3
    <3> QED
      BY <3>1, <3>3, Decides
  <2>2. CASE ~(q.errors >= MaxConsecutiveToolErrors \/ ImageRefused(q))
    <3> DEFINE o == OpenaiToAnthropic(q)
    <3>1. BodyConsistent(o) /\ o.sent = TRUE
      BY BodySound, RequestFacts
    <3>2. Answered(q, o) /\ q.route = "chat"
      BY <1>2, <2>2 DEF Chat
    <3> HIDE DEF o
    <3>3. Verdict(q, o)
      BY <2>2, <3>1, PicturesJudged DEF Verdict
    <3> QED
      BY <3>1, <3>2, <3>3, Decides
  <2> QED
    BY <2>1, <2>2
<1>3. ASSUME NEW q \in Request, Completions(q) PROVE OptionInv'
  <2> DEFINE o == OpenaiToAnthropic(ChatBody(q))
  <2>1. BodyConsistent(o) /\ o.sent = TRUE
    BY BodySound, RequestFacts
  <2>2. Answered(q, o) /\ q.route = "completions"
    BY <1>3 DEF Completions
  <2> HIDE DEF o
  <2>3. Verdict(q, o)
    BY <2>2 DEF Verdict
  <2> QED
    BY <2>1, <2>2, <2>3, Decides
<1>4. ASSUME NEW q \in Request, TokensCount(q) PROVE OptionInv'
  <2>1. CASE ImageRefused(q)
    <3>1. Answered(q, Refused) /\ Refused.sent = FALSE
      BY <1>4, <2>1 DEF TokensCount, Refused
    <3>2. Verdict(q, Refused)
      BY <2>1, <3>1, PicturesJudged DEF Verdict
    <3> QED
      BY <3>1, <3>2, Decides
  <2>2. CASE ~ImageRefused(q)
    <3> DEFINE o == ProjectForCountTokens(OpenaiToAnthropic(q))
    <3>1. BodyConsistent(o) /\ Bare(o) /\ o.sent = TRUE
      BY ProjectionSound, RequestFacts
    <3>2. Answered(q, o)
      BY <1>4, <2>2 DEF TokensCount
    <3> HIDE DEF o
    <3>3. Verdict(q, o)
      BY <2>2, <3>1, PicturesJudged DEF Verdict
    <3> QED
      BY <3>1, <3>2, <3>3, Decides
  <2> QED
    BY <2>1, <2>2
<1>5. CASE CountTokens \/ CountTokensRefused \/ CountTokensFails
  <2>1. /\ liveCatalog' = liveCatalog /\ declared' = declared
        /\ request' = request /\ outcome' = outcome /\ CountWaits
    BY <1>5 DEF CountTokens, CountTokensRefused, CountTokensFails
  <2>2. ~counted
    BY <2>1 DEF CountWaits, OptionsAccepted, CountsTheChat
  <2>3. (reply' = 200 <=> counted') /\ counted' \in BOOLEAN /\ reply' \in {0, 200} \cup 400..599
    <3>1. CASE CountTokens
      BY <3>1 DEF CountTokens
    <3>2. CASE CountTokensRefused
      <4>1. PICK refusal \in Failure : reply' = ReplyTo(refusal)
        BY <3>2 DEF CountTokensRefused
      <4>2. reply' \in 400..599
        BY <4>1 DEF ReplyTo, OptionConstantsOK
      <4> QED
        BY <2>2, <3>2, <4>2 DEF CountTokensRefused
    <3>3. CASE CountTokensFails
      BY <2>2, <3>3 DEF CountTokensFails
    <3> QED
      BY <1>5, <3>1, <3>2, <3>3
  <2>4. request # NoRequest
    <3>1. Nothing.sent = FALSE
      BY DEF Nothing
    <3> QED
      BY <2>1, <3>1 DEF CountWaits, Undecided
  <2>5. Mirror' /\ Undecided'
    BY <2>1, <2>4 DEF Mirror, Undecided
  <2>6. (outcome.sent => BodyConsistent(outcome))'
    BY <2>1, Stands DEF OptionsAccepted
  <2>7. ImagesFailOpen'
    BY <2>1 DEF OptionsAccepted, ImagesFailOpen
  <2>8. CountsTheChat'
    BY <2>1, <2>3 DEF OptionsAccepted, CountsTheChat, Bare
  <2> QED
    BY <2>1, <2>3, <2>5, <2>6, <2>7, <2>8 DEF OptionsAccepted
<1>6. CASE UNCHANGED optionVars
  <2>1. /\ liveCatalog' = liveCatalog /\ declared' = declared /\ request' = request
        /\ outcome' = outcome /\ reply' = reply /\ counted' = counted
    BY <1>6 DEF optionVars
  <2>2. (outcome.sent => BodyConsistent(outcome))'
    BY <2>1, Stands DEF OptionsAccepted
  <2>3. ImagesFailOpen' /\ CountsTheChat'
    BY <2>1 DEF OptionsAccepted, ImagesFailOpen, CountsTheChat, Bare
  <2>4. Mirror' /\ Undecided'
    BY <2>1 DEF Mirror, Undecided
  <2> QED
    BY <2>1, <2>2, <2>3, <2>4 DEF OptionsAccepted
<1> QED
  BY <1>1, <1>2, <1>3, <1>4, <1>5, <1>6 DEF OptionNext

LEMMA OptionInitially == OptionInit => OptionInv
<1> SUFFICES ASSUME OptionInit PROVE OptionInv
  OBVIOUS
<1>1. /\ liveCatalog = {} /\ declared = {} /\ request = NoRequest /\ outcome = Nothing
      /\ reply = 0 /\ counted = FALSE
  BY DEF OptionInit
<1>2. outcome.sent = FALSE /\ request.route = "unset"
  BY <1>1 DEF Nothing, NoRequest, Unset
<1>3. OptionsAccepted
  BY <1>1, <1>2 DEF OptionsAccepted, ImagesFailOpen, CountsTheChat
<1>4. Mirror /\ Undecided
  BY <1>1 DEF Mirror, Undecided
<1> QED
  BY <1>1, <1>2, <1>3, <1>4 DEF OptionInv

LEMMA OptionInvariant == ASSUME OptionConstantsOK PROVE OptionSpec => []OptionInv
<1>1. OptionInit => OptionInv
  BY OptionInitially
<1>2. OptionInv /\ [OptionNext]_optionVars => OptionInv'
  BY OptionStep
<1> QED
  BY <1>1, <1>2, PTL DEF OptionSpec

(* The catalog in force, the request and its outcome keep their types; a    *)
(* catalog is in force exactly when one was fetched (models.ts).            *)
THEOREM OptionTypeCorrect == ASSUME OptionConstantsOK PROVE OptionSpec => []OptionTypeOK
<1>1. ASSUME OptionInv PROVE OptionTypeOK
  <2>1. \/ declared = {} /\ liveCatalog = {}
        \/ \E catalog \in Live : \E normal : declared = {catalog} /\ liveCatalog = {normal}
    <3>1. ASSUME NEW catalog \in Live, declared = {catalog}
          PROVE  liveCatalog = {{Normalize(raw) : raw \in catalog}}
      BY <1>1, <3>1 DEF OptionInv, Mirror
    <3> QED
      BY <1>1, <3>1, ZenonT(60) DEF OptionInv, Mirror
  <2>2. Cardinality(liveCatalog) = Cardinality(declared) /\ Cardinality(liveCatalog) <= 1
    <3>1. CASE declared = {} /\ liveCatalog = {}
      <4>1. Cardinality({}) = 0
        BY FS_EmptySet
      <4> QED
        BY <3>1, <4>1
    <3>2. ASSUME NEW a, NEW b, declared = {a}, liveCatalog = {b}
          PROVE  Cardinality(liveCatalog) = Cardinality(declared) /\ Cardinality(liveCatalog) <= 1
      <4>1. Cardinality({a}) = 1 /\ Cardinality({b}) = 1
        BY FS_Singleton
      <4> QED
        BY <3>2, <4>1
    <3> QED
      BY <2>1, <3>1, <3>2
  <2>3. declared \in SUBSET Live
    BY <2>1
  <2> QED
    BY <1>1, <2>2, <2>3 DEF OptionInv, OptionTypeOK
<1> QED
  BY <1>1, OptionInvariant, PTL

(* For any catalogs and any requests, the body that goes upstream is one it *)
(* takes, only a picture that is known not to be taken is refused, and the  *)
(* token count is asked of the chat's own body (openaiToAnthropic,          *)
(* assertImageCapability, projectForCountTokens).                           *)
THEOREM OptionsAlwaysAccepted == ASSUME OptionConstantsOK PROVE OptionSpec => []OptionsAccepted
<1>1. OptionInv => OptionsAccepted
  BY DEF OptionInv
<1> QED
  BY <1>1, OptionInvariant, PTL
===============================================================================
