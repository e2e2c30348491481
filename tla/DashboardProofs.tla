--------------------------- MODULE DashboardProofs ---------------------------
(* The dashboard, for any number of queries, keys and submissions, events,  *)
(* visits and lost connections, requests and times: a page that was refused *)
(* never stays without a way to sign in (SignIn), the live view shows what  *)
(* it received (LiveView), the requests are grouped into conversations by   *)
(* their activity (Sessions), and what an answer says of a key is what its  *)
(* row is, and a revocation is final, for any number of calls under way and *)
(* other processes (ApiKeys).                                               *)
EXTENDS SignIn, ApiKeys, LiveView, Sessions,
        NaturalsInduction, WellFoundedInduction, SequenceTheorems, TLAPS

----------------------------------------------------------------------------
(* Signing in.                                                              *)

QueryState ==
    [mounted : BOOLEAN, data : BOOLEAN, last : Outcome, fetch : Fetch, failures : {0, 1}]

(* What a query's fetch is, and what becomes of it.                         *)
LEMMA NoFetchType == NoFetch \in Fetch
  BY DEF NoFetch, Fetch, NoKey

LEMMA SentType ==
  ASSUME NEW key \in Key \cup {NoKey} PROVE Sent(key) \in Fetch /\ Pending(Sent(key))
  BY DEF Sent, Fetch, Pending, NoFetch

LEMMA GatedType ==
  ASSUME NEW f \in Fetch, NEW s \in {200, 500}
  PROVE  Gated(f, s) \in Fetch /\ Pending(Gated(f, s))
  BY DEF Gated, Fetch, Statuses, Pending, NoFetch

(* The dashboard's state is of its types.                                   *)
LEMMA TypeInit == ASSUME SignConstantsOK, SignInit PROVE SignTypeOK
<1>1. queries \in [Query -> QueryState]
  BY NoFetchType DEF SignInit, QueryState, Outcome
<1>2. valid \in SUBSET Key /\ stored \in Key \cup {NoKey} /\ active \in BOOLEAN
  BY DEF SignInit
<1>3. replay \in Fetch
  BY NoFetchType DEF SignInit
<1>4. submits \in 0..MaxSubmits /\ waived \in SUBSET Query
  BY DEF SignInit, SignConstantsOK
<1> QED
  BY <1>1, <1>2, <1>3, <1>4 DEF SignTypeOK, QueryState

LEMMA TypeNext == ASSUME SignConstantsOK, SignTypeOK, [SignNext]_signVars PROVE SignTypeOK'
<1>0. stored \in Key \cup {NoKey}
  BY DEF SignTypeOK
<1>1. queries \in [Query -> QueryState]
  BY DEF SignTypeOK, QueryState
<1>2. ASSUME NEW q \in Query, Show(q) PROVE SignTypeOK'
  <2>1. Fetched(queries[q]) \in QueryState
    BY <1>1, <1>0, SentType DEF Fetched, QueryState
  <2>2. queries' \in [Query -> QueryState]
    BY <1>1, <1>2, <2>1 DEF Show, QueryState
  <2> QED
    BY <1>2, <2>2 DEF Show, SignTypeOK, QueryState
<1>3. ASSUME NEW q \in Query, Leave(q) PROVE SignTypeOK'
  <2>1. queries' \in [Query -> QueryState]
    BY <1>1, <1>3 DEF Leave, QueryState
  <2> QED
    BY <1>3, <2>1 DEF Leave, SignTypeOK, QueryState
<1>4. ASSUME NEW q \in Query, GetJsonReturns(q) PROVE SignTypeOK'
  <2> DEFINE s == queries[q]
  <2>1. s \in QueryState
    BY <1>1
  <2>2. [s EXCEPT !.data = TRUE, !.last = "ok", !.fetch = NoFetch] \in QueryState
    BY <2>1, NoFetchType DEF QueryState, Outcome
  <2>3. [s EXCEPT !.last = "unauthorized", !.fetch = NoFetch] \in QueryState
    BY <2>1, NoFetchType DEF QueryState, Outcome
  <2>4. [s EXCEPT !.fetch = Sent(stored), !.failures = 1] \in QueryState
    BY <2>1, <1>0, SentType DEF QueryState
  <2>5. [s EXCEPT !.last = "error", !.fetch = NoFetch] \in QueryState
    BY <2>1, NoFetchType DEF QueryState, Outcome
  <2>6. queries' \in [Query -> QueryState]
    BY <1>1, <1>4, <2>2, <2>3, <2>4, <2>5 DEF GetJsonReturns
  <2>7. active' \in BOOLEAN
    BY <1>4 DEF GetJsonReturns, RequireKey, SignTypeOK
  <2> QED
    BY <1>4, <2>6, <2>7 DEF GetJsonReturns, SignTypeOK, QueryState
<1>5. ASSUME StartReplay \/ ReplayReturns \/ ReplayAborted PROVE SignTypeOK'
  <2>1. replay' \in Fetch
    BY <1>5, <1>0, NoFetchType, SentType DEF StartReplay, ReplayReturns, ReplayAborted, SignTypeOK
  <2>2. active' \in BOOLEAN
    BY <1>5 DEF StartReplay, ReplayReturns, ReplayAborted, RequireKey, SignTypeOK
  <2> QED
    BY <1>5, <2>1, <2>2 DEF StartReplay, ReplayReturns, ReplayAborted, SignTypeOK
<1>6. ASSUME GatewayAnswers PROVE SignTypeOK'
  <2>1. ASSUME NEW q \in Query, NEW status \in {200, 500},
               queries' = [queries EXCEPT ![q].fetch = Gated(@, status)]
        PROVE  queries' \in [Query -> QueryState]
    BY <1>1, <2>1, GatedType DEF QueryState
  <2>2. queries' \in [Query -> QueryState]
    BY <1>1, <1>6, <2>1 DEF GatewayAnswers
  <2>3. replay' \in Fetch
    BY <1>6, GatedType DEF GatewayAnswers, SignTypeOK
  <2> QED
    BY <1>6, <2>2, <2>3 DEF GatewayAnswers, SignTypeOK, QueryState
<1>7. ASSUME NEW k \in Key, KeyRevoked(k) PROVE SignTypeOK'
  BY <1>7 DEF KeyRevoked, SignTypeOK
<1>8. ASSUME NEW k \in Key, Submit(k) PROVE SignTypeOK'
  <2>1. Sent(k) \in Fetch
    BY SentType
  <2>2. ASSUME NEW q \in Query PROVE Invalidate(q, k) \in QueryState
    BY <1>1, <2>1 DEF Invalidate, QueryState
  <2>3. queries' \in [Query -> QueryState]
    BY <1>8, <2>2 DEF Submit
  <2>4. submits' \in 0..MaxSubmits
    BY <1>8 DEF Submit, SignTypeOK, SignConstantsOK
  <2> QED
    BY <1>8, <2>3, <2>4 DEF Submit, SignTypeOK, QueryState
<1>9. ASSUME Dismiss PROVE SignTypeOK'
  BY <1>9 DEF Dismiss, SignTypeOK
<1>10. CASE UNCHANGED signVars
  BY <1>10 DEF signVars, SignTypeOK
<1> QED
  BY <1>2, <1>3, <1>4, <1>5, <1>6, <1>7, <1>8, <1>9, <1>10 DEF SignNext

THEOREM TypeCorrect == ASSUME SignConstantsOK PROVE SignSpec => []SignTypeOK
<1>1. SignInit => SignTypeOK
  BY TypeInit
<1>2. SignTypeOK /\ [SignNext]_signVars => SignTypeOK'
  BY TypeNext
<1> QED
  BY <1>1, <1>2, PTL DEF SignSpec

----------------------------------------------------------------------------
(* A query that is on screen, refused, and not on its way again.            *)
Stuck(s) == s.mounted /\ s.last = "unauthorized" /\ ~Pending(s.fetch)

LEMMA StrandedInit == ASSUME SignInit PROVE NeverStranded
  BY DEF SignInit, NeverStranded

(* No step strands a query: a step that makes it stuck opens the prompt,    *)
(* and one that closes the prompt fetches it again or waives it.            *)
LEMMA StrandedNext ==
  ASSUME SignConstantsOK, SignTypeOK, NeverStranded, [SignNext]_signVars
  PROVE  NeverStranded'
<1>0. stored \in Key \cup {NoKey}
  BY DEF SignTypeOK
<1>1. queries \in [Query -> QueryState]
  BY DEF SignTypeOK, QueryState
<1> SUFFICES ASSUME NEW p \in Query, Stuck(queries'[p]) PROVE active' \/ p \in waived'
  BY DEF NeverStranded, Stuck
<1>2. Stuck(queries[p]) => active \/ p \in waived
  BY DEF NeverStranded, Stuck
<1>3. ASSUME NEW q \in Query, Show(q) PROVE active' \/ p \in waived'
  <2>1. Pending(Fetched(queries[q]).fetch)
    BY <1>1, <1>0, SentType DEF Fetched, QueryState
  <2>2. CASE p = q
    <3>1. Pending(queries'[p].fetch)
      BY <1>1, <1>3, <2>1, <2>2 DEF Show, QueryState, Fetched
    <3> QED
      BY <3>1 DEF Stuck
  <2>3. CASE p # q
    <3>1. queries'[p] = queries[p] /\ active' = active
      BY <1>1, <1>3, <2>3 DEF Show
    <3>2. p \in waived => p \in waived'
      BY <1>3, <2>3 DEF Show
    <3> QED
      BY <1>2, <3>1, <3>2
  <2> QED
    BY <2>2, <2>3
<1>4. ASSUME NEW q \in Query, Leave(q) PROVE active' \/ p \in waived'
  <2>1. p # q
    BY <1>1, <1>4 DEF Leave, Stuck, QueryState
  <2> QED
    BY <1>1, <1>2, <1>4, <2>1 DEF Leave
<1>5. ASSUME NEW q \in Query, GetJsonReturns(q) PROVE active' \/ p \in waived'
  <2>1. CASE queries[q].fetch.status = 401
    BY <1>5, <2>1 DEF GetJsonReturns, RequireKey
  <2>2. CASE queries[q].fetch.status # 401 /\ p # q
    <3>1. queries'[p] = queries[p]
      BY <1>1, <1>5, <2>2 DEF GetJsonReturns
    <3> QED
      BY <1>2, <1>5, <2>2, <3>1 DEF GetJsonReturns
  <2>3. CASE queries[q].fetch.status # 401 /\ p = q
    <3> DEFINE s == queries[q]
    <3>1. s \in QueryState
      BY <1>1
    <3>2. \/ queries'[p] = [s EXCEPT !.data = TRUE, !.last = "ok", !.fetch = NoFetch]
          \/ queries'[p] = [s EXCEPT !.fetch = Sent(stored), !.failures = 1]
          \/ queries'[p] = [s EXCEPT !.last = "error", !.fetch = NoFetch]
      BY <1>1, <1>5, <2>3 DEF GetJsonReturns
    <3>3. ~Stuck([s EXCEPT !.data = TRUE, !.last = "ok", !.fetch = NoFetch])
      BY <3>1 DEF Stuck, QueryState
    <3>4. ~Stuck([s EXCEPT !.fetch = Sent(stored), !.failures = 1])
      BY <3>1, <1>0, SentType DEF Stuck, QueryState
    <3>5. ~Stuck([s EXCEPT !.last = "error", !.fetch = NoFetch])
      BY <3>1 DEF Stuck, QueryState
    <3> QED
      BY <3>2, <3>3, <3>4, <3>5
  <2> QED
    BY <2>1, <2>2, <2>3
<1>6. ASSUME StartReplay \/ ReplayReturns \/ ReplayAborted PROVE active' \/ p \in waived'
  BY <1>2, <1>6 DEF StartReplay, ReplayReturns, ReplayAborted, RequireKey
<1>7. ASSUME GatewayAnswers PROVE active' \/ p \in waived'
  <2>1. ASSUME NEW q \in Query, NEW status \in {200, 500}, p = q,
               queries' = [queries EXCEPT ![q].fetch = Gated(@, status)]
        PROVE  FALSE
    <3>1. Pending(Gated(queries[q].fetch, status))
      BY <1>1, GatedType DEF QueryState
    <3>2. queries'[p].fetch = Gated(queries[q].fetch, status)
      BY <1>1, <2>1 DEF QueryState
    <3> QED
      BY <3>1, <3>2 DEF Stuck
  <2>2. queries'[p] = queries[p]
    BY <1>1, <1>7, <2>1 DEF GatewayAnswers
  <2> QED
    BY <1>2, <1>7, <2>2 DEF GatewayAnswers
<1>8. ASSUME NEW k \in Key, KeyRevoked(k) PROVE active' \/ p \in waived'
  BY <1>2, <1>8 DEF KeyRevoked
<1>9. ASSUME NEW k \in Key, Submit(k) PROVE active' \/ p \in waived'
  <2> DEFINE s == queries[p]
  <2>1. s \in QueryState
    BY <1>1
  <2>2. queries'[p] = Invalidate(p, k)
    BY <1>9 DEF Submit
  <2>3. CASE s.mounted /\ (s.data \/ ~Pending(s.fetch))
    <3>1. queries'[p] = [s EXCEPT !.fetch = Sent(k), !.failures = 0]
      BY <2>2, <2>3 DEF Invalidate
    <3>2. queries'[p].fetch = Sent(k)
      BY <2>1, <3>1 DEF QueryState
    <3> QED
      BY <3>2, SentType DEF Stuck
  <2>4. CASE ~(s.mounted /\ (s.data \/ ~Pending(s.fetch)))
    <3>1. queries'[p] = s
      BY <2>2, <2>4 DEF Invalidate
    <3> QED
      BY <2>4, <3>1 DEF Stuck
  <2> QED
    BY <2>3, <2>4
<1>10. ASSUME Dismiss PROVE active' \/ p \in waived'
  BY <1>10 DEF Dismiss, Stuck
<1>11. CASE UNCHANGED signVars
  BY <1>2, <1>11 DEF signVars
<1> QED
  BY <1>3, <1>4, <1>5, <1>6, <1>7, <1>8, <1>9, <1>10, <1>11 DEF SignNext

(* A query on screen that was refused is fetched again, or the prompt is    *)
(* open, or the operator has closed it on that failure.                     *)
THEOREM NeverLeftWithoutSignIn == ASSUME SignConstantsOK PROVE SignSpec => []NeverStranded
<1>1. SignInit => SignTypeOK /\ NeverStranded
  BY TypeInit, StrandedInit
<1>2. SignTypeOK /\ NeverStranded /\ [SignNext]_signVars => SignTypeOK' /\ NeverStranded'
  BY TypeNext, StrandedNext
<1> QED
  BY <1>1, <1>2, PTL DEF SignSpec

----------------------------------------------------------------------------
(* The live view.                                                           *)

(* The first n places of two lists are the same.                            *)
Same(s, t, n) ==
    \A i \in 1..n : (i <= Len(s) <=> i <= Len(t)) /\ (i <= Len(s) => s[i] = t[i])

LEMMA Taken ==
  ASSUME NEW S, NEW s \in Seq(S), NEW n \in Nat
  PROVE  /\ Take(s, n) \in Seq(S)
         /\ Len(Take(s, n)) = (IF Len(s) < n THEN Len(s) ELSE n)
         /\ Len(Take(s, n)) <= n /\ Len(Take(s, n)) <= Len(s)
         /\ \A i \in 1..Len(Take(s, n)) : Take(s, n)[i] = s[i]
<1> DEFINE m == IF Len(s) < n THEN Len(s) ELSE n
<1>1. m \in Nat /\ m <= Len(s) /\ m <= n /\ Len(s) \in Nat
  OBVIOUS
<1>2. /\ SubSeq(s, 1, m) \in Seq(S) /\ Len(SubSeq(s, 1, m)) = m
      /\ \A i \in 1..m : SubSeq(s, 1, m)[i] = s[i]
  BY <1>1
<1> QED
  BY <1>1, <1>2 DEF Take

LEMMA TakenSame ==
  ASSUME NEW S, NEW s \in Seq(S), NEW t \in Seq(S), NEW n \in Nat
  PROVE  Take(s, n) = Take(t, n) <=> Same(s, t, n)
<1> DEFINE a == Take(s, n)
           b == Take(t, n)
<1>1. /\ a \in Seq(S) /\ Len(a) = (IF Len(s) < n THEN Len(s) ELSE n)
      /\ \A i \in 1..Len(a) : a[i] = s[i]
  BY Taken
<1>2. /\ b \in Seq(S) /\ Len(b) = (IF Len(t) < n THEN Len(t) ELSE n)
      /\ \A i \in 1..Len(b) : b[i] = t[i]
  BY Taken
<1>3. Len(s) \in Nat /\ Len(t) \in Nat
  OBVIOUS
<1> HIDE DEF a, b
<1>4. ASSUME a = b, NEW i \in 1..n
      PROVE  (i <= Len(s) <=> i <= Len(t)) /\ (i <= Len(s) => s[i] = t[i])
  BY <1>1, <1>2, <1>3, <1>4
<1>5. ASSUME Same(s, t, n) PROVE a = b
  <2>1. Len(a) = Len(b)
    <3>1. CASE Len(s) < n /\ Len(t) < n
      <4>1. ~(Len(s) < Len(t))
        <5> SUFFICES ASSUME Len(s) < Len(t) PROVE FALSE
          OBVIOUS
        <5>1. Len(s) + 1 \in 1..n /\ Len(s) + 1 <= Len(t) /\ ~(Len(s) + 1 <= Len(s))
          BY <1>3, <3>1
        <5> QED
          BY <1>5, <5>1 DEF Same
      <4>2. ~(Len(t) < Len(s))
        <5> SUFFICES ASSUME Len(t) < Len(s) PROVE FALSE
          OBVIOUS
        <5>1. Len(t) + 1 \in 1..n /\ Len(t) + 1 <= Len(s) /\ ~(Len(t) + 1 <= Len(t))
          BY <1>3, <3>1
        <5> QED
          BY <1>5, <5>1 DEF Same
      <4> QED
        BY <1>1, <1>2, <1>3, <4>1, <4>2
    <3>2. CASE ~(Len(s) < n) \/ ~(Len(t) < n)
      <4>1. CASE n = 0
        BY <1>1, <1>2, <1>3, <4>1
      <4>2. CASE n # 0
        <5>1. n \in 1..n
          BY <4>2
        <5>2. n <= Len(s) <=> n <= Len(t)
          BY <1>5, <5>1 DEF Same
        <5> QED
          BY <1>1, <1>2, <1>3, <3>2, <5>2
      <4> QED
        BY <4>1, <4>2
    <3> QED
      BY <3>1, <3>2
  <2>2. \A i \in 1..Len(a) : a[i] = b[i]
    BY <1>1, <1>2, <1>3, <1>5, <2>1 DEF Same
  <2> QED
    BY <1>1, <1>2, <2>1, <2>2, SeqEqual
<1> QED
  BY <1>4, <1>5 DEF Same, a, b

LEMMA SameTransitive ==
  ASSUME NEW S, NEW s \in Seq(S), NEW t \in Seq(S), NEW u \in Seq(S), NEW n \in Nat,
         Same(s, t, n), Same(t, u, n)
  PROVE  Same(s, u, n)
  BY DEF Same

(* Cutting at n or later leaves the first n places.                         *)
LEMMA CutSame ==
  ASSUME NEW S, NEW s \in Seq(S), NEW l \in Seq(S), NEW m \in Nat, NEW n \in 0..m
  PROVE  Same(Take(s, m) \o l, s \o l, n)
<1> DEFINE a == Take(s, m)
<1>1. /\ a \in Seq(S) /\ Len(a) = (IF Len(s) < m THEN Len(s) ELSE m)
      /\ \A i \in 1..Len(a) : a[i] = s[i]
  BY Taken
<1> HIDE DEF a
<1>2. CASE Len(s) < m
  <2>1. a = s
    BY <1>1, <1>2, SeqEqual
  <2> QED
    BY <2>1 DEF Same, a
<1>3. CASE ~(Len(s) < m)
  <2> SUFFICES ASSUME NEW i \in 1..n
               PROVE  i <= Len(a \o l) /\ i <= Len(s \o l) /\ (a \o l)[i] = (s \o l)[i]
    BY DEF Same, a
  <2>1. i \in 1..Len(a) /\ i \in 1..Len(s)
    BY <1>1, <1>3
  <2>2. (a \o l)[i] = a[i] /\ (s \o l)[i] = s[i]
    BY <1>1, <2>1
  <2>3. i <= Len(a \o l) /\ i <= Len(s \o l)
    BY <1>1, <2>1
  <2> QED
    BY <1>1, <2>1, <2>2, <2>3
<1> QED
  BY <1>2, <1>3

LEMMA PushSame ==
  ASSUME NEW S, NEW s \in Seq(S), NEW t \in Seq(S), NEW e \in S, NEW n \in Nat, Same(s, t, n)
  PROVE  Same(<<e>> \o s, <<e>> \o t, n)
<1> SUFFICES ASSUME NEW i \in 1..n
             PROVE  /\ i <= Len(<<e>> \o s) <=> i <= Len(<<e>> \o t)
                    /\ i <= Len(<<e>> \o s) => (<<e>> \o s)[i] = (<<e>> \o t)[i]
  BY DEF Same
<1>1. Len(<<e>> \o s) = Len(s) + 1 /\ Len(<<e>> \o t) = Len(t) + 1
  OBVIOUS
<1>2. CASE i = 1
  BY <1>1, <1>2
<1>3. CASE i # 1
  <2>1. i - 1 \in 1..n
    BY <1>3
  <2>2. (i - 1 <= Len(s) <=> i - 1 <= Len(t)) /\ (i - 1 <= Len(s) => s[i - 1] = t[i - 1])
    BY <2>1 DEF Same
  <2>3. i <= Len(<<e>> \o s) => (<<e>> \o s)[i] = s[i - 1]
    BY <1>1, <1>3
  <2>4. i <= Len(<<e>> \o t) => (<<e>> \o t)[i] = t[i - 1]
    BY <1>1, <1>3
  <2> QED
    BY <1>1, <2>1, <2>2, <2>3, <2>4
<1> QED
  BY <1>2, <1>3

----------------------------------------------------------------------------
(* Every list is in the order of emission, and what is on the wire is newer *)
(* than what has been received; the history is what was emitted by its      *)
(* answer.                                                                  *)
Falling(s) == \A i, j \in 1..Len(s) : i < j => s[i] > s[j]
Rising(s) == \A i, j \in 1..Len(s) : i < j => s[i] < s[j]
Newer(s, t) == \A i \in 1..Len(s), j \in 1..Len(t) : s[i] > t[j]
Emitted(s) == \A i \in 1..Len(s) : s[i] <= emitted

InOrder ==
    /\ Falling(pending) /\ Falling(live) /\ Rising(wire)
    /\ Newer(pending, live) /\ Newer(wire, pending) /\ Newer(wire, live)
    /\ Emitted(pending) /\ Emitted(live) /\ Emitted(wire)

(* The last k events, newest first, as far as the history's limit goes.     *)
Answered(k) == Take([i \in 1..k |-> k + 1 - i], HistoryLimit)

HistoryOK == history.at = "cached" => \E k \in 0..MaxEmitted : history.events = Answered(k)

Transparent ==
    /\ ~paused => pending = <<>>
    /\ Same(pending \o live, received, BufferSize)

LiveInv == LiveTypeOK /\ InOrder /\ HistoryOK /\ Transparent

LEMMA LiveInitially == ASSUME LiveConstantsOK PROVE LiveInit => LiveInv
<1> SUFFICES ASSUME LiveInit PROVE LiveInv
  OBVIOUS
<1>1. <<>> \in Seq(Events) /\ Len(<<>>) = 0 /\ <<>> \o <<>> = <<>>
  OBVIOUS
<1>2. 0 \in 0..MaxEmitted /\ 0 \in 0..MaxLosses /\ 0 \in 0..MaxMounts /\ 0 <= BufferSize
      /\ 0 <= 2 * BufferSize /\ BufferSize \in Nat
  BY DEF LiveConstantsOK
<1>3. LiveTypeOK
  BY <1>1, <1>2 DEF LiveInit, LiveTypeOK
<1>4. InOrder
  BY <1>1 DEF LiveInit, InOrder, Falling, Rising, Newer, Emitted
<1>5. HistoryOK
  BY DEF LiveInit, HistoryOK
<1>6. Transparent
  BY <1>1, <1>2 DEF LiveInit, Transparent, Same
<1> QED
  BY <1>3, <1>4, <1>5, <1>6 DEF LiveInv

(* A cut list keeps its order.                                              *)
LEMMA CutOrder ==
  ASSUME NEW s \in Seq(Events), NEW t \in Seq(Events), NEW m \in Nat
  PROVE  /\ Falling(s) => Falling(Take(s, m))
         /\ Newer(s, t) => Newer(Take(s, m), t)
         /\ Newer(t, s) => Newer(t, Take(s, m))
         /\ Emitted(s) => Emitted(Take(s, m))
<1> DEFINE a == Take(s, m)
<1>1. a \in Seq(Events) /\ Len(a) <= Len(s) /\ \A i \in 1..Len(a) : a[i] = s[i]
  BY Taken
<1> HIDE DEF a
<1>2. \A i \in 1..Len(a) : i \in 1..Len(s)
  BY <1>1
<1> QED
  BY <1>1, <1>2 DEF Falling, Newer, Emitted, a

(* A newer event in front of a list keeps its order, as does a newer list.  *)
LEMMA PushOrder ==
  ASSUME NEW s \in Seq(Events), NEW t \in Seq(Events), NEW e \in Events
  PROVE  /\ Falling(s) /\ Newer(<<e>>, s) => Falling(<<e>> \o s)
         /\ Newer(s, t) /\ Newer(<<e>>, t) => Newer(<<e>> \o s, t)
         /\ Newer(t, s) /\ Newer(t, <<e>>) => Newer(t, <<e>> \o s)
         /\ Emitted(s) /\ e <= emitted => Emitted(<<e>> \o s)
<1> DEFINE a == <<e>> \o s
<1>1. Len(a) = Len(s) + 1 /\ Len(s) \in Nat /\ 1 \in 1..Len(<<e>>) /\ <<e>>[1] = e
  OBVIOUS
<1>2. a[1] = e
  OBVIOUS
<1>3. \A i \in 1..Len(a) : i # 1 => i - 1 \in 1..Len(s) /\ a[i] = s[i - 1]
  OBVIOUS
<1> HIDE DEF a
<1>4. ASSUME Falling(s), Newer(<<e>>, s) PROVE Falling(a)
  <2> SUFFICES ASSUME NEW i \in 1..Len(a), NEW j \in 1..Len(a), i < j PROVE a[i] > a[j]
    BY DEF Falling
  <2>1. j # 1 /\ j - 1 \in 1..Len(s) /\ a[j] = s[j - 1]
    BY <1>1, <1>3
  <2>2. CASE i = 1
    BY <1>1, <1>2, <1>4, <2>1, <2>2 DEF Newer
  <2>3. CASE i # 1
    <3>1. i - 1 \in 1..Len(s) /\ a[i] = s[i - 1] /\ i - 1 < j - 1
      BY <1>1, <1>3, <2>3
    <3> QED
      BY <1>4, <2>1, <3>1 DEF Falling
  <2> QED
    BY <2>2, <2>3
<1>5. ASSUME Newer(s, t), Newer(<<e>>, t) PROVE Newer(a, t)
  <2> SUFFICES ASSUME NEW i \in 1..Len(a), NEW j \in 1..Len(t) PROVE a[i] > t[j]
    BY DEF Newer
  <2>1. CASE i = 1
    BY <1>1, <1>2, <1>5, <2>1 DEF Newer
  <2>2. CASE i # 1
    BY <1>3, <1>5, <2>2 DEF Newer
  <2> QED
    BY <2>1, <2>2
<1>6. ASSUME Newer(t, s), Newer(t, <<e>>) PROVE Newer(t, a)
  <2> SUFFICES ASSUME NEW i \in 1..Len(t), NEW j \in 1..Len(a) PROVE t[i] > a[j]
    BY DEF Newer
  <2>1. CASE j = 1
    BY <1>1, <1>2, <1>6, <2>1 DEF Newer
  <2>2. CASE j # 1
    BY <1>3, <1>6, <2>2 DEF Newer
  <2> QED
    BY <2>1, <2>2
<1>7. ASSUME Emitted(s), e <= emitted PROVE Emitted(a)
  BY <1>1, <1>2, <1>3, <1>7 DEF Emitted
<1> QED
  BY <1>4, <1>5, <1>6, <1>7 DEF a

LEMMA JoinOrder ==
  ASSUME NEW s \in Seq(Events), NEW t \in Seq(Events)
  PROVE  /\ Falling(s) /\ Falling(t) /\ Newer(s, t) => Falling(s \o t)
         /\ \A u \in Seq(Events) : Newer(u, s) /\ Newer(u, t) => Newer(u, s \o t)
         /\ Emitted(s) /\ Emitted(t) => Emitted(s \o t)
<1> DEFINE a == s \o t
<1>1. Len(a) = Len(s) + Len(t) /\ Len(s) \in Nat /\ Len(t) \in Nat
  OBVIOUS
<1>2. \A i \in 1..Len(a) : i <= Len(s) => i \in 1..Len(s) /\ a[i] = s[i]
  OBVIOUS
<1>3. \A i \in 1..Len(a) : ~(i <= Len(s)) => i - Len(s) \in 1..Len(t) /\ a[i] = t[i - Len(s)]
  OBVIOUS
<1> HIDE DEF a
<1>4. ASSUME Falling(s), Falling(t), Newer(s, t) PROVE Falling(a)
  <2> SUFFICES ASSUME NEW i \in 1..Len(a), NEW j \in 1..Len(a), i < j PROVE a[i] > a[j]
    BY DEF Falling
  <2>1. CASE j <= Len(s)
    BY <1>1, <1>2, <1>4, <2>1 DEF Falling
  <2>2. CASE ~(j <= Len(s)) /\ i <= Len(s)
    BY <1>1, <1>2, <1>3, <1>4, <2>2 DEF Newer
  <2>3. CASE ~(i <= Len(s))
    <3>1. i - Len(s) < j - Len(s) /\ ~(j <= Len(s))
      BY <1>1, <2>3
    <3> QED
      BY <1>3, <1>4, <2>3, <3>1 DEF Falling
  <2> QED
    BY <1>1, <2>1, <2>2, <2>3
<1>5. ASSUME NEW u \in Seq(Events), Newer(u, s), Newer(u, t) PROVE Newer(u, a)
  BY <1>2, <1>3, <1>5 DEF Newer
<1>6. ASSUME Emitted(s), Emitted(t) PROVE Emitted(a)
  BY <1>2, <1>3, <1>6 DEF Emitted
<1> QED
  BY <1>4, <1>5, <1>6 DEF a

----------------------------------------------------------------------------
(* An event is dispatched.                                                  *)
LEMMA DispatchSound == ASSUME LiveConstantsOK, LiveInv, Dispatch PROVE LiveInv'
<1> DEFINE ev == Head(wire)
<1>1. /\ wire \in Seq(Events) /\ wire # <<>> /\ received \in Seq(Events)
      /\ live \in Seq(Events) /\ pending \in Seq(Events) /\ Len(pending) <= 2 * BufferSize
      /\ Len(live) <= BufferSize
      /\ BufferSize \in Nat /\ 2 * BufferSize \in Nat /\ BufferSize \in 0..2 * BufferSize
  BY SMTT(30) DEF LiveInv, LiveTypeOK, Dispatch, LiveConstantsOK
<1>2. /\ wire' = Tail(wire) /\ received' = <<ev>> \o received
      /\ UNCHANGED <<emitted, page, subscribed, source, losses, paused>>
      /\ IF paused
         THEN pending' = Take(<<ev>> \o pending, 2 * BufferSize) /\ UNCHANGED live
         ELSE live' = Take(<<ev>> \o live, BufferSize) /\ UNCHANGED pending
  BY DEF Dispatch, Buffered
<1>3. ev \in Events /\ ev = wire[1] /\ 1 \in 1..Len(wire) /\ Tail(wire) \in Seq(Events)
      /\ Len(Tail(wire)) = Len(wire) - 1 /\ \A i \in 1..Len(Tail(wire)) : Tail(wire)[i] = wire[i + 1]
  BY <1>1, EmptySeq
<1>4. received' \in Seq(Events)
  BY <1>1, <1>2, <1>3
<1>5. /\ Falling(pending) /\ Falling(live) /\ Rising(wire) /\ Newer(pending, live)
      /\ Newer(wire, pending) /\ Newer(wire, live)
      /\ Emitted(pending) /\ Emitted(live) /\ Emitted(wire)
  BY DEF LiveInv, InOrder
<1>6. Newer(<<ev>>, pending) /\ Newer(<<ev>>, live) /\ ev <= emitted
  BY <1>1, <1>3, <1>5 DEF Newer, Emitted
<1>7. Rising(wire') /\ Newer(wire', <<ev>>) /\ Newer(wire', pending) /\ Newer(wire', live) /\ Emitted(wire')
  <2>1. \A i \in 1..Len(wire') : i + 1 \in 1..Len(wire) /\ wire'[i] = wire[i + 1] /\ 1 < i + 1
    BY <1>1, <1>2, <1>3
  <2>2. Rising(wire')
    BY <1>5, <2>1 DEF Rising
  <2>3. Newer(wire', <<ev>>)
    BY <1>1, <1>3, <1>5, <2>1 DEF Rising, Newer, Events
  <2>4. Newer(wire', pending) /\ Newer(wire', live)
    BY <1>5, <2>1 DEF Newer
  <2>5. Emitted(wire')
    BY <1>2, <1>5, <2>1 DEF Emitted
  <2> QED
    BY <2>2, <2>3, <2>4, <2>5
<1>8. CASE paused
  <2> DEFINE front == <<ev>> \o pending
  <2>1. front \in Seq(Events) /\ pending' = Take(front, 2 * BufferSize) /\ live' = live /\ paused' = paused
    BY <1>1, <1>2, <1>3, <1>8
  <2>2. Falling(front) /\ Newer(front, live) /\ Newer(wire', front) /\ Emitted(front)
    BY <1>1, <1>2, <1>3, <1>5, <1>6, <1>7, PushOrder
  <2> HIDE DEF front
  <2>3. /\ pending' \in Seq(Events) /\ Len(pending') <= 2 * BufferSize
    BY <1>1, <2>1, Taken
  <2>4. InOrder'
    <3>1. Falling(pending') /\ Newer(pending', live) /\ Newer(wire', pending') /\ Emitted(pending')
      BY <1>1, <1>2, <1>3, <2>1, <2>2, CutOrder
    <3> QED
      BY <1>2, <1>5, <1>7, <2>1, <3>1 DEF InOrder, Emitted
  <2>5. Same(pending' \o live', received', BufferSize)
    <3>1. Same(pending' \o live, front \o live, BufferSize)
      BY <1>1, <2>1, CutSame
    <3>2. front \o live = <<ev>> \o (pending \o live) /\ pending \o live \in Seq(Events)
      BY <1>1, <1>3 DEF front
    <3>3. Same(pending \o live, received, BufferSize)
      BY DEF LiveInv, Transparent
    <3>4. Same(<<ev>> \o (pending \o live), <<ev>> \o received, BufferSize)
      BY <1>1, <1>3, <3>2, <3>3, PushSame
    <3>5. pending' \o live \in Seq(Events) /\ front \o live \in Seq(Events)
      BY <1>1, <2>1, <2>3
    <3>6. Same(pending' \o live, <<ev>> \o received, BufferSize)
      BY <1>1, <1>2, <1>4, <3>1, <3>2, <3>4, <3>5, SameTransitive
    <3> QED
      BY <1>2, <2>1, <3>6
  <2>6. LiveTypeOK'
    BY <1>1, <1>2, <1>3, <1>4, <2>1, <2>3 DEF LiveInv, LiveTypeOK, page
  <2>7. HistoryOK'
    BY <1>2 DEF LiveInv, HistoryOK, page, Answered
  <2> QED
    BY <1>8, <2>1, <2>4, <2>5, <2>6, <2>7 DEF LiveInv, Transparent
<1>9. CASE ~paused
  <2> DEFINE front == <<ev>> \o live
  <2>1. front \in Seq(Events) /\ live' = Take(front, BufferSize) /\ pending' = pending /\ paused' = paused
        /\ pending = <<>>
    BY <1>1, <1>2, <1>3, <1>9 DEF LiveInv, Transparent
  <2>2. Falling(front) /\ Newer(wire', front) /\ Emitted(front)
    BY <1>1, <1>2, <1>3, <1>5, <1>6, <1>7, PushOrder
  <2>0. front \o <<>> = front /\ live \o <<>> = live /\ <<>> \o live = live
    BY <1>1, <2>1
  <2> HIDE DEF front
  <2>3. live' \in Seq(Events) /\ Len(live') <= BufferSize
    BY <1>1, <2>1, Taken
  <2>4. InOrder'
    <3>1. Falling(live') /\ Newer(wire', live') /\ Emitted(live')
      BY <1>1, <1>2, <1>3, <2>1, <2>2, CutOrder
    <3>2. Newer(pending', live') /\ Falling(pending')
      BY <2>1 DEF Newer, Falling
    <3> QED
      BY <1>2, <1>5, <1>7, <2>1, <3>1, <3>2 DEF InOrder, Emitted
  <2>5. Same(pending' \o live', received', BufferSize)
    <3>1. Same(Take(front, BufferSize) \o <<>>, front \o <<>>, BufferSize)
      <4>1. <<>> \in Seq(Events) /\ BufferSize \in 0..BufferSize
        BY <1>1
      <4> QED
        BY <1>1, <2>1, <4>1, CutSame
    <3>2. Same(live', front, BufferSize)
      BY <2>0, <2>1, <2>3, <3>1
    <3>3. Same(live, received, BufferSize)
      BY <2>0, <2>1 DEF LiveInv, Transparent
    <3>4. Same(front, <<ev>> \o received, BufferSize)
      BY <1>1, <1>3, <3>3, PushSame DEF front
    <3>5. pending' \o live' = live'
      BY <2>1, <2>3
    <3> QED
      <4>1. Same(live', <<ev>> \o received, BufferSize)
        BY <1>1, <1>2, <1>4, <2>1, <2>3, <3>2, <3>4, SameTransitive
      <4> QED
        BY <1>2, <3>5, <4>1
  <2>6. LiveTypeOK'
    BY <1>1, <1>2, <1>3, <1>4, <2>1, <2>3 DEF LiveInv, LiveTypeOK, page
  <2>7. HistoryOK'
    BY <1>2 DEF LiveInv, HistoryOK, page, Answered
  <2> QED
    BY <1>9, <2>1, <2>4, <2>5, <2>6, <2>7 DEF LiveInv, Transparent
<1> QED
  BY <1>8, <1>9

(* An event is emitted.                                                     *)
LEMMA EmitSound == ASSUME LiveConstantsOK, LiveInv, Emit PROVE LiveInv'
<1>1. /\ emitted < MaxEmitted /\ emitted' = emitted + 1 /\ emitted \in Nat /\ emitted + 1 \in Events
      /\ emitted' \in 0..MaxEmitted /\ MaxEmitted \in Nat
      /\ wire' = (IF subscribed THEN Append(wire, emitted + 1) ELSE wire)
      /\ UNCHANGED <<page, buffers, subscribed, source, losses>>
  BY DEF Emit, LiveInv, LiveTypeOK, LiveConstantsOK, Events
<1>2. UNCHANGED <<mounts, mounted, history, shownBefore, live, pending, paused, received>>
  BY <1>1 DEF page, buffers
<1>3. /\ Falling(pending) /\ Falling(live) /\ Rising(wire) /\ Newer(pending, live)
      /\ Newer(wire, pending) /\ Newer(wire, live)
      /\ Emitted(pending) /\ Emitted(live) /\ Emitted(wire)
  BY DEF LiveInv, InOrder
<1>4. wire \in Seq(Events) /\ live \in Seq(Events) /\ pending \in Seq(Events)
  BY DEF LiveInv, LiveTypeOK
<1>5. wire' \in Seq(Events) /\ Rising(wire') /\ Newer(wire', pending) /\ Newer(wire', live) /\ Emitted(wire)'
  <2>1. CASE ~subscribed
    BY <1>1, <1>3, <1>4, <2>1 DEF Emitted, Events
  <2>2. CASE subscribed
    <3>1. /\ wire' \in Seq(Events) /\ Len(wire') = Len(wire) + 1 /\ Len(wire) \in Nat
          /\ wire'[Len(wire) + 1] = emitted + 1
          /\ \A i \in 1..Len(wire) : wire'[i] = wire[i]
      BY <1>1, <1>4, <2>2
    <3>2. \A i \in 1..Len(wire) : wire[i] \in Nat /\ wire[i] < emitted + 1
      BY <1>1, <1>3, <1>4 DEF Emitted, Events
    <3>3. \A i \in 1..Len(wire') : i = Len(wire) + 1 \/ i \in 1..Len(wire)
      BY <3>1
    <3>4. Rising(wire')
      <4> SUFFICES ASSUME NEW i \in 1..Len(wire'), NEW j \in 1..Len(wire'), i < j
                   PROVE  wire'[i] < wire'[j]
        BY DEF Rising
      <4>1. i \in 1..Len(wire)
        BY <3>1
      <4>2. CASE j = Len(wire) + 1
        BY <3>1, <3>2, <4>1, <4>2
      <4>3. CASE j \in 1..Len(wire)
        BY <1>3, <3>1, <4>1, <4>3 DEF Rising
      <4> QED
        BY <3>3, <4>2, <4>3
    <3>5. ASSUME NEW l \in Seq(Events), Newer(wire, l), Emitted(l)
          PROVE  Newer(wire', l)
      <4> SUFFICES ASSUME NEW i \in 1..Len(wire'), NEW j \in 1..Len(l) PROVE wire'[i] > l[j]
        BY DEF Newer
      <4>1. l[j] \in Events /\ l[j] <= emitted
        BY <3>5 DEF Emitted
      <4>4. l[j] \in Nat
        BY <4>1 DEF Events
      <4>2. CASE i = Len(wire) + 1
        BY <1>1, <3>1, <4>1, <4>2, <4>4
      <4>3. CASE i \in 1..Len(wire)
        BY <3>1, <3>5, <4>3 DEF Newer
      <4> QED
        BY <3>3, <4>2, <4>3
    <3>6. Emitted(wire)'
      BY <1>1, <3>1, <3>2, <3>3 DEF Emitted
    <3> QED
      BY <1>3, <1>4, <3>1, <3>4, <3>5, <3>6
  <2> QED
    BY <2>1, <2>2
<1>6. Emitted(pending)' /\ Emitted(live)'
  <2>1. ASSUME NEW l \in Seq(Events), Emitted(l), NEW i \in 1..Len(l)
        PROVE  l[i] <= emitted + 1
    <3>1. l[i] \in Events /\ l[i] <= emitted
      BY <2>1 DEF Emitted
    <3> QED
      BY <1>1, <3>1 DEF Events
  <2> QED
    BY <1>1, <1>2, <1>3, <1>4, <2>1 DEF Emitted
<1>7. InOrder'
  BY <1>2, <1>3, <1>5, <1>6 DEF InOrder
<1>8. LiveTypeOK'
  BY <1>1, <1>2, <1>5 DEF LiveInv, LiveTypeOK
<1>9. HistoryOK' /\ Transparent'
  BY <1>2 DEF LiveInv, HistoryOK, Answered, Transparent
<1> QED
  BY <1>7, <1>8, <1>9 DEF LiveInv

(* The side buffer is put in front.                                         *)
LEMMA ResumeSound == ASSUME LiveConstantsOK, LiveInv, Resume PROVE LiveInv'
<1> DEFINE all == pending \o live
<1>1. /\ paused' = FALSE /\ live' = Take(all, BufferSize) /\ pending' = <<>>
      /\ UNCHANGED <<emitted, page, stream, received>>
  BY DEF Resume
<1>2. UNCHANGED <<mounts, mounted, history, shownBefore, subscribed, wire, source, losses>>
  BY <1>1 DEF page, stream
<1>3. /\ Falling(pending) /\ Falling(live) /\ Rising(wire) /\ Newer(pending, live)
      /\ Newer(wire, pending) /\ Newer(wire, live)
      /\ Emitted(pending) /\ Emitted(live) /\ Emitted(wire)
  BY DEF LiveInv, InOrder
<1>4. /\ wire \in Seq(Events) /\ live \in Seq(Events) /\ pending \in Seq(Events)
      /\ received \in Seq(Events) /\ all \in Seq(Events) /\ BufferSize \in Nat
  BY DEF LiveInv, LiveTypeOK, LiveConstantsOK
<1>5. Falling(all) /\ Newer(wire, all) /\ Emitted(all)
  BY <1>3, <1>4, JoinOrder
<1> HIDE DEF all
<1>6. live' \in Seq(Events) /\ Len(live') <= BufferSize
  BY <1>1, <1>4, Taken
<1>7. Falling(live') /\ Newer(wire, live') /\ Emitted(live')
  BY <1>1, <1>4, <1>5, CutOrder
<1>8. InOrder'
  <2>1. Falling(pending') /\ Newer(pending', live') /\ Newer(wire, pending') /\ Emitted(pending')
    BY <1>1 DEF Falling, Newer, Emitted
  <2> QED
    BY <1>1, <1>2, <1>3, <1>7, <2>1 DEF InOrder, Emitted
<1>9. Transparent'
  <2>1. <<>> \in Seq(Events) /\ BufferSize \in 0..BufferSize /\ all \o <<>> = all
        /\ Take(all, BufferSize) \o <<>> = live' /\ pending' \o live' = live'
    BY <1>1, <1>4, <1>6
  <2>2. Same(Take(all, BufferSize) \o <<>>, all \o <<>>, BufferSize)
    BY <1>4, <2>1, CutSame
  <2>3. Same(all, received, BufferSize)
    BY DEF LiveInv, Transparent, all
  <2>4. Same(live', received, BufferSize)
    BY <1>4, <1>6, <2>1, <2>2, <2>3, SameTransitive
  <2> QED
    BY <1>1, <2>1, <2>4 DEF Transparent
<1>10. LiveTypeOK'
  <2>1. <<>> \in Seq(Events) /\ Len(<<>>) <= 2 * BufferSize
    BY <1>4
  <2> QED
    BY <1>1, <1>2, <1>6, <2>1 DEF LiveInv, LiveTypeOK
<1>11. HistoryOK'
  BY <1>2 DEF LiveInv, HistoryOK, Answered
<1> QED
  BY <1>8, <1>9, <1>10, <1>11 DEF LiveInv

(* The buffers are emptied, on a click or a visit.                          *)
LEMMA EmptySound ==
  ASSUME LiveConstantsOK, LiveInv, live' = <<>>, pending' = <<>>, received' = <<>>, paused' \in BOOLEAN,
         UNCHANGED <<emitted, subscribed, wire, losses, shownBefore>>,
         source' \in {"none", "waiting", "connecting", "open"}, mounts' \in 0..MaxMounts, mounted' \in BOOLEAN,
         history' = history \/ history'.at = "fetching"
  PROVE  LiveInv'
<1>1. <<>> \in Seq(Events) /\ Len(<<>>) = 0 /\ <<>> \o <<>> = <<>> /\ 0 <= BufferSize /\ 0 <= 2 * BufferSize
  BY DEF LiveConstantsOK
<1>2. LiveTypeOK'
  BY <1>1 DEF LiveInv, LiveTypeOK
<1>3. InOrder'
  BY <1>1 DEF LiveInv, InOrder, Falling, Newer, Emitted
<1>4. HistoryOK'
  BY DEF LiveInv, HistoryOK, Answered
<1>5. Transparent'
  BY <1>1 DEF Transparent, Same
<1> QED
  BY <1>2, <1>3, <1>4, <1>5 DEF LiveInv

----------------------------------------------------------------------------
(* What the page shows: the live events the history does not hold, in the   *)
(* order of the live list, on top of the history.                           *)

(* Induction over the set of the numbers at which a statement holds.        *)
LEMMA SetInduction ==
  ASSUME NEW T, 0 \in T, \A n \in Nat : n \in T => n + 1 \in T
  PROVE  Nat \subseteq T
<1> DEFINE Less == {ss \in Nat \X Nat : ss[1] < ss[2]}
<1>1. IsWellFoundedOn(Less, Nat)
  BY NatLessThanWellFounded, Zenon DEF OpToRel
<1> SUFFICES ASSUME Nat \ T # {} PROVE FALSE
  OBVIOUS
<1>2. PICK i \in Nat \ T : \A j \in Nat \ T : ~(<<j, i>> \in Less)
  <2>1. Nat \ T \subseteq Nat
    OBVIOUS
  <2> QED
    BY <1>1, <2>1, WFMin
<1>3. i # 0 /\ i - 1 \in Nat /\ i - 1 < i
  BY <1>2
<1>4. i - 1 \in T
  <2>1. <<i - 1, i>> \in Nat \X Nat /\ <<i - 1, i>>[1] = i - 1 /\ <<i - 1, i>>[2] = i
    BY <1>3
  <2> QED
    BY <1>2, <1>3, <2>1
<1> QED
  BY <1>2, <1>3, <1>4

InBase == {Base[i] : i \in DOMAIN Base}

(* One more place of the live list is looked at.                            *)
Kept(s, n) == IF live[n] \in InBase THEN s ELSE Append(s, live[n])

(* What is kept of the first n places.                                      *)
Selected(s, n) ==
    /\ s \in Seq(Events) /\ Falling(s)
    /\ \A j \in 1..Len(s) : s[j] \notin InBase /\ \E m \in 1..n : s[j] = live[m]

LEMMA KeptSelected ==
  ASSUME live \in Seq(Events), Falling(live), NEW n \in Nat, n + 1 <= Len(live),
         NEW s, Selected(s, n)
  PROVE  Selected(Kept(s, n + 1), n + 1)
<1>1. s \in Seq(Events) /\ Len(s) \in Nat /\ n + 1 \in 1..Len(live) /\ live[n + 1] \in Events
  BY DEF Selected
<1>2. \A j \in 1..Len(s) : s[j] \notin InBase /\ \E m \in 1..n + 1 : s[j] = live[m]
  BY DEF Selected
<1>3. CASE live[n + 1] \in InBase
  BY <1>1, <1>2, <1>3 DEF Kept, Selected
<1>4. CASE live[n + 1] \notin InBase
  <2> DEFINE t == Append(s, live[n + 1])
  <2>1. /\ t \in Seq(Events) /\ Len(t) = Len(s) + 1 /\ t[Len(s) + 1] = live[n + 1]
        /\ \A j \in 1..Len(s) : t[j] = s[j]
    BY <1>1
  <2> HIDE DEF t
  <2>2. \A j \in 1..Len(t) : j = Len(s) + 1 \/ j \in 1..Len(s)
    BY <1>1, <2>1
  <2>3. \A j \in 1..Len(s) : s[j] > live[n + 1]
    <3> SUFFICES ASSUME NEW j \in 1..Len(s) PROVE s[j] > live[n + 1]
      OBVIOUS
    <3>1. PICK m \in 1..n : s[j] = live[m]
      BY DEF Selected
    <3>2. m \in 1..Len(live) /\ m < n + 1
      BY <1>1
    <3> QED
      BY <1>1, <3>1, <3>2 DEF Falling
  <2>4. Falling(t)
    <3> SUFFICES ASSUME NEW i \in 1..Len(t), NEW j \in 1..Len(t), i < j PROVE t[i] > t[j]
      BY DEF Falling
    <3>1. i \in 1..Len(s)
      BY <1>1, <2>1
    <3>2. CASE j = Len(s) + 1
      BY <2>1, <2>3, <3>1, <3>2
    <3>3. CASE j \in 1..Len(s)
      BY <2>1, <3>1, <3>3 DEF Falling, Selected
    <3> QED
      BY <2>2, <3>2, <3>3
  <2>5. \A j \in 1..Len(t) : t[j] \notin InBase /\ \E m \in 1..n + 1 : t[j] = live[m]
    <3> SUFFICES ASSUME NEW j \in 1..Len(t)
                 PROVE  t[j] \notin InBase /\ \E m \in 1..n + 1 : t[j] = live[m]
      OBVIOUS
    <3>1. CASE j = Len(s) + 1
      BY <1>4, <2>1, <3>1
    <3>2. CASE j \in 1..Len(s)
      BY <1>2, <2>1, <3>2
    <3> QED
      BY <2>2, <3>1, <3>2
  <2>6. Selected(t, n + 1)
    BY <2>1, <2>4, <2>5 DEF Selected
  <2> QED
    BY <1>4, <2>6 DEF Kept, t
<1> QED
  BY <1>3, <1>4

LEMMA UnseenSelected ==
  ASSUME live \in Seq(Events), Falling(live)
  PROVE  Selected(Unseen, Len(live))
<1> DEFINE Good(n, f) ==
              /\ f = [i \in 0..n |-> f[i]] /\ f[0] = <<>>
              /\ \A i \in 1..n : f[i] = Kept(f[i - 1], i)
              /\ \A i \in 0..n : Selected(f[i], i)
           T == {n \in Nat : n <= Len(live) => \E f : Good(n, f)}
<1>0. Selected(<<>>, 0)
  <2>1. <<>> \in Seq(Events) /\ Len(<<>>) = 0
    OBVIOUS
  <2> QED
    BY <2>1 DEF Selected, Falling
<1>1. 0 \in T
  <2> DEFINE g == [i \in 0..0 |-> <<>>]
  <2>1. Good(0, g)
    BY <1>0
  <2> QED
    BY <2>1
<1>2. ASSUME NEW n \in Nat, n \in T PROVE n + 1 \in T
  <2> SUFFICES ASSUME n + 1 <= Len(live) PROVE \E f : Good(n + 1, f)
    OBVIOUS
  <2>1. n <= Len(live) /\ Len(live) \in Nat
    BY <1>2
  <2>2. PICK f : Good(n, f)
    BY <1>2, <2>1
  <2> DEFINE last == Kept(f[n], n + 1)
             g == [i \in 0..n + 1 |-> IF i <= n THEN f[i] ELSE last]
  <2>3. Selected(last, n + 1)
    BY <2>2, KeptSelected
  <2>4. g[0] = <<>> /\ g = [i \in 0..n + 1 |-> g[i]]
    BY <2>2
  <2>5. ASSUME NEW i \in 1..n + 1 PROVE g[i] = Kept(g[i - 1], i)
    <3>1. CASE i <= n
      <4>1. g[i] = f[i] /\ g[i - 1] = f[i - 1] /\ i \in 1..n
        BY <3>1
      <4> QED
        BY <2>2, <4>1
    <3>2. CASE i = n + 1
      <4>1. g[i] = last /\ g[i - 1] = f[n]
        BY <3>2
      <4> QED
        BY <3>2, <4>1
    <3> QED
      BY <3>1, <3>2
  <2>6. ASSUME NEW i \in 0..n + 1 PROVE Selected(g[i], i)
    <3>1. CASE i <= n
      <4>1. g[i] = f[i] /\ i \in 0..n
        BY <3>1
      <4> QED
        BY <2>2, <4>1
    <3>2. CASE i = n + 1
      <4>1. g[i] = last
        BY <3>2
      <4> QED
        BY <2>3, <3>2, <4>1
    <3> QED
      BY <3>1, <3>2
  <2> HIDE DEF g
  <2> QED
    BY <2>4, <2>5, <2>6
<1>3. Len(live) \in T
  <2> HIDE DEF T
  <2> QED
    BY <1>1, <1>2, SetInduction
<1>4. PICK f : Good(Len(live), f)
  BY <1>3
<1> DEFINE Computes(h) ==
       h = [n \in 0..Len(live) |->
              IF n = 0 THEN <<>>
              ELSE IF live[n] \in InBase THEN h[n-1] ELSE Append(h[n-1], live[n])]
<1>5. Computes(f)
  <2>1. \A n \in 0..Len(live) : f[n] = IF n = 0 THEN <<>> ELSE Kept(f[n-1], n)
    <3>1. f[0] = <<>> /\ \A n \in 1..Len(live) : f[n] = Kept(f[n-1], n)
      BY <1>4, SMTT(30)
    <3>2. Len(live) \in Nat
      OBVIOUS
    <3>3. ASSUME NEW n \in 0..Len(live), n # 0 PROVE n \in 1..Len(live)
      BY <3>2, <3>3
    <3> QED
      BY <3>1, <3>3
  <2> QED
    BY <1>4, <2>1 DEF Kept
<1> DEFINE chosen == CHOOSE h : Computes(h)
<1>6. Computes(chosen)
  BY <1>5
<1>7. Unseen = chosen[Len(live)]
  BY DEF Unseen, InBase
<1> HIDE DEF chosen
<1>8. chosen[0] = <<>> /\ \A n \in 1..Len(live) : chosen[n] = Kept(chosen[n-1], n)
  <2> DEFINE c == chosen
  <2>1. c = [n \in 0..Len(live) |->
              IF n = 0 THEN <<>>
              ELSE IF live[n] \in InBase THEN c[n-1] ELSE Append(c[n-1], live[n])]
    BY <1>6
  <2> HIDE DEF c
  <2> DEFINE v(n) == IF n = 0 THEN <<>>
                     ELSE IF live[n] \in InBase THEN c[n-1] ELSE Append(c[n-1], live[n])
  <2>2. c = [n \in 0..Len(live) |-> v(n)]
    BY <2>1
  <2>3. v(0) = <<>> /\ \A n \in 1..Len(live) : v(n) = Kept(c[n-1], n)
    BY DEF Kept
  <2> HIDE DEF v
  <2>4. 0 \in 0..Len(live) /\ \A n \in 1..Len(live) : n \in 0..Len(live)
    OBVIOUS
  <2>5. \A n \in 0..Len(live) : c[n] = v(n)
    BY <2>2
  <2> QED
    BY <2>3, <2>4, <2>5 DEF c
<1> DEFINE R == {n \in Nat : n <= Len(live) => Selected(chosen[n], n)}
<1>9. 0 \in R
  BY <1>0, <1>8
<1>10. ASSUME NEW n \in Nat, n \in R PROVE n + 1 \in R
  <2> SUFFICES ASSUME n + 1 <= Len(live) PROVE Selected(chosen[n + 1], n + 1)
    OBVIOUS
  <2>1. Selected(chosen[n], n) /\ n + 1 \in 1..Len(live)
    BY <1>10
  <2>2. chosen[n + 1] = Kept(chosen[n], n + 1)
    BY <1>8, <2>1
  <2> QED
    BY <2>1, <2>2, KeptSelected
<1>11. Len(live) \in R
  <2> HIDE DEF R
  <2> QED
    BY <1>9, <1>10, SetInduction
<1> QED
  BY <1>7, <1>11

LEMMA AnsweredFacts ==
  ASSUME LiveConstantsOK, NEW k \in 0..MaxEmitted
  PROVE  /\ Answered(k) \in Seq(Events)
         /\ Len(Answered(k)) = IF k < HistoryLimit THEN k ELSE HistoryLimit
         /\ \A i \in 1..Len(Answered(k)) : Answered(k)[i] = k + 1 - i
<1> DEFINE all == [i \in 1..k |-> k + 1 - i]
<1>1. k \in Nat /\ MaxEmitted \in Nat /\ HistoryLimit \in Nat
  BY DEF LiveConstantsOK
<1>2. \A i \in 1..k : k + 1 - i \in Events
  BY <1>1 DEF Events
<1>3. all \in Seq(Events) /\ Len(all) = k /\ \A i \in 1..k : all[i] = k + 1 - i
  BY <1>1, <1>2
<1> HIDE DEF all
<1>4. /\ Take(all, HistoryLimit) \in Seq(Events)
      /\ Len(Take(all, HistoryLimit)) = IF Len(all) < HistoryLimit THEN Len(all) ELSE HistoryLimit
      /\ Len(Take(all, HistoryLimit)) <= Len(all)
      /\ \A i \in 1..Len(Take(all, HistoryLimit)) : Take(all, HistoryLimit)[i] = all[i]
  BY <1>1, <1>3, Taken
<1>5. Answered(k) = Take(all, HistoryLimit)
  BY DEF Answered, all
<1>6. \A i \in 1..Len(Answered(k)) : i \in 1..k
  BY <1>1, <1>3, <1>4, <1>5
<1> QED
  BY <1>3, <1>4, <1>5, <1>6

(* The history's rows fall, and when it does not reach back to the first    *)
(* event it is full.                                                        *)
LEMMA BaseFacts ==
  ASSUME LiveConstantsOK, HistoryOK
  PROVE  /\ Base \in Seq(Events) /\ Falling(Base) /\ InBase = {Base[i] : i \in 1..Len(Base)}
         /\ \A e \in Events \ InBase :
               Base # <<>> /\ (Len(Base) < HistoryLimit \/ e >= Base[Len(Base)])
               => \A i \in 1..Len(Base) : e > Base[i]
<1>1. CASE history.at # "cached"
  <2>1. Base = <<>>
    BY <1>1 DEF Base
  <2> QED
    BY <2>1 DEF Falling, InBase
<1>2. CASE history.at = "cached"
  <2>1. PICK k \in 0..MaxEmitted : Base = Answered(k)
    BY <1>2 DEF HistoryOK, Base
  <2>2. k \in Nat /\ HistoryLimit \in Nat /\ HistoryLimit > 0 /\ MaxEmitted \in Nat
    BY DEF LiveConstantsOK
  <2>3. /\ Base \in Seq(Events) /\ Len(Base) = (IF k < HistoryLimit THEN k ELSE HistoryLimit)
        /\ \A i \in 1..Len(Base) : Base[i] = k + 1 - i
    BY <2>1, AnsweredFacts
  <2>4. Falling(Base)
    BY <2>2, <2>3 DEF Falling
  <2>5. InBase = {Base[i] : i \in 1..Len(Base)}
    BY <2>3 DEF InBase
  <2>6. ASSUME NEW e \in Events \ InBase, Base # <<>>, Len(Base) < HistoryLimit \/ e >= Base[Len(Base)],
               NEW i \in 1..Len(Base)
        PROVE  e > Base[i]
    <3>1. e \in Nat /\ e >= 1 /\ Len(Base) \in Nat /\ Len(Base) >= 1 /\ Len(Base) \in 1..Len(Base)
      BY <2>3, <2>6 DEF Events
    <3>2. e >= k + 1 - Len(Base)
      BY <2>2, <2>3, <2>6, <3>1
    <3>3. e > k
      <4> SUFFICES ASSUME e <= k PROVE FALSE
        BY <2>2, <3>1
      <4>1. k + 1 - e \in 1..Len(Base) /\ k + 1 - (k + 1 - e) = e
        BY <2>2, <3>1, <3>2
      <4>2. Base[k + 1 - e] = e
        BY <2>3, <4>1
      <4> QED
        BY <2>5, <2>6, <4>1, <4>2
    <3>4. Base[i] = k + 1 - i /\ i >= 1 /\ i \in Nat
      BY <2>3, <3>1
    <3> QED
      BY <2>2, <3>1, <3>3, <3>4
  <2> QED
    BY <2>3, <2>4, <2>5, <2>6
<1> QED
  BY <1>1, <1>2

LEMMA MergedFacts ==
  ASSUME LiveConstantsOK, LiveInv
  PROVE  Merged \in Seq(Events) /\ MergedInOrder
<1>1. /\ Base \in Seq(Events) /\ Falling(Base) /\ InBase = {Base[i] : i \in 1..Len(Base)}
      /\ \A e \in Events \ InBase :
            Base # <<>> /\ (Len(Base) < HistoryLimit \/ e >= Base[Len(Base)])
            => \A i \in 1..Len(Base) : e > Base[i]
  BY BaseFacts DEF LiveInv
<1>2. live \in Seq(Events) /\ Falling(live)
  BY DEF LiveInv, LiveTypeOK, InOrder
<1>3. /\ Unseen \in Seq(Events) /\ Falling(Unseen)
      /\ \A j \in 1..Len(Unseen) : Unseen[j] \notin InBase /\ \E m \in 1..Len(live) : Unseen[j] = live[m]
  BY <1>2, UnseenSelected DEF Selected
<1> DEFINE u == Unseen
           b == Base
           a == u \o b
<1>4. Merged = a
  BY DEF Merged
<1>5. u \in Seq(Events) /\ b \in Seq(Events) /\ a \in Seq(Events)
      /\ DOMAIN a = 1..Len(a) /\ DOMAIN b = 1..Len(b) /\ DOMAIN live = 1..Len(live)
      /\ Len(a) = Len(u) + Len(b) /\ Len(u) \in Nat /\ Len(b) \in Nat
  BY <1>1, <1>2, <1>3
<1> HIDE DEF u, b
<1>6. \A i \in 1..Len(a) : i <= Len(u) => i \in 1..Len(u) /\ a[i] = u[i]
  BY <1>5
<1>7. \A i \in 1..Len(a) : ~(i <= Len(u)) => i - Len(u) \in 1..Len(b) /\ a[i] = b[i - Len(u)]
  BY <1>5
<1> HIDE DEF a
<1>8. \A i \in 1..Len(u) : u[i] \in Events \ InBase
  BY <1>3, <1>5 DEF u
<1>9. \A i \in 1..Len(b) : b[i] \in InBase
  BY <1>1 DEF b
<1>10. Falling(u) /\ Falling(b)
  BY <1>1, <1>3 DEF u, b
<1>11. \A i \in 1..Len(a) : a[i] \in Nat
  <2>1. \A i \in 1..Len(a) : a[i] \in Events
    BY <1>5
  <2> QED
    BY <2>1 DEF Events
<1>12. ASSUME NEW i \in 1..Len(a), NEW j \in 1..Len(a), i < j PROVE a[i] # a[j]
  <2>1. CASE j <= Len(u)
    <3>1. i \in 1..Len(u) /\ a[i] = u[i] /\ j \in 1..Len(u) /\ a[j] = u[j]
      BY <1>5, <1>6, <1>12, <2>1
    <3>2. a[i] > a[j]
      BY <1>10, <1>12, <3>1 DEF Falling
    <3> QED
      BY <1>11, <3>2
  <2>2. CASE i <= Len(u) /\ ~(j <= Len(u))
    BY <1>6, <1>7, <1>8, <1>9, <2>2
  <2>3. CASE ~(i <= Len(u))
    <3>1. ~(j <= Len(u)) /\ i - Len(u) < j - Len(u)
      BY <1>5, <1>12, <2>3
    <3>2. a[i] > a[j]
      BY <1>7, <1>10, <2>3, <3>1 DEF Falling
    <3> QED
      BY <1>11, <3>2
  <2> QED
    BY <2>1, <2>2, <2>3
<1>13. \A i, j \in 1..Len(a) : i # j => a[i] # a[j]
  <2> SUFFICES ASSUME NEW i \in 1..Len(a), NEW j \in 1..Len(a), i # j PROVE a[i] # a[j]
    OBVIOUS
  <2>1. i < j \/ j < i
    OBVIOUS
  <2> QED
    BY <1>12, <2>1
<1>14. ASSUME Base = <<>> \/ Len(Base) < HistoryLimit \/ \A i \in DOMAIN live : live[i] >= Base[Len(Base)],
              NEW i \in 1..Len(a), NEW j \in 1..Len(a), i < j
       PROVE  a[i] > a[j]
  <2>1. CASE j <= Len(u)
    <3>1. i \in 1..Len(u) /\ a[i] = u[i] /\ j \in 1..Len(u) /\ a[j] = u[j]
      BY <1>5, <1>6, <1>14, <2>1
    <3> QED
      BY <1>10, <1>14, <3>1 DEF Falling
  <2>2. CASE i <= Len(u) /\ ~(j <= Len(u))
    <3>1. i \in 1..Len(u) /\ a[i] = u[i] /\ j - Len(u) \in 1..Len(b) /\ a[j] = b[j - Len(u)]
      BY <1>6, <1>7, <2>2
    <3>2. b # <<>>
      BY <3>1
    <3>3. PICK m \in 1..Len(live) : u[i] = live[m]
      BY <1>3, <3>1 DEF u
    <3>4. Len(b) < HistoryLimit \/ u[i] >= b[Len(b)]
      BY <1>5, <1>14, <3>2, <3>3 DEF b
    <3>5. \A k \in 1..Len(b) : u[i] > b[k]
      <4>1. u[i] \in Events \ InBase
        BY <1>8, <3>1
      <4> QED
        BY <1>1, <3>2, <3>4, <4>1 DEF b
    <3> QED
      BY <3>1, <3>5
  <2>3. CASE ~(i <= Len(u))
    <3>1. ~(j <= Len(u)) /\ i - Len(u) < j - Len(u)
      BY <1>5, <1>14, <2>3
    <3> QED
      BY <1>7, <1>10, <2>3, <3>1 DEF Falling
  <2> QED
    BY <2>1, <2>2, <2>3
<1>15. \A i, j \in DOMAIN Merged : i # j => Merged[i] # Merged[j]
  BY <1>4, <1>5, <1>13
<1>16. (Base = <<>> \/ Len(Base) < HistoryLimit \/ \A i \in DOMAIN live : live[i] >= Base[Len(Base)])
       => \A i, j \in DOMAIN Merged : i < j => Merged[i] > Merged[j]
  BY <1>4, <1>5, <1>14
<1> QED
  BY <1>4, <1>5, <1>15, <1>16 DEF MergedInOrder

----------------------------------------------------------------------------
LEMMA LiveStep == ASSUME LiveConstantsOK, LiveInv, [LiveNext]_liveVars PROVE LiveInv'
<1>1. CASE Emit
  BY <1>1, EmitSound
<1>2. CASE Dispatch
  BY <1>2, DispatchSound
<1>3. CASE Resume
  BY <1>3, ResumeSound
<1>4. CASE Clear
  BY <1>4, EmptySound DEF Clear, page, stream, LiveInv, LiveTypeOK
<1>5. CASE Mount
  <2>1. mounts' \in 0..MaxMounts
    BY <1>5, SMTT(30) DEF Mount, LiveInv, LiveTypeOK, LiveConstantsOK
  <2> QED
    BY <1>5, <2>1, EmptySound DEF Mount
<1>6. CASE Open \/ Pause \/ Reconnect
  <2>1. /\ UNCHANGED <<emitted, wire, live, pending, received, history, shownBefore, mounts, mounted, losses>>
        /\ source' \in {"none", "waiting", "connecting", "open"}
        /\ subscribed' \in BOOLEAN /\ paused' \in BOOLEAN /\ (~paused' => ~paused)
    BY <1>6 DEF Open, Pause, Reconnect, page, stream, buffers, LiveInv, LiveTypeOK
  <2>2. LiveTypeOK'
    BY <2>1 DEF LiveInv, LiveTypeOK
  <2>3. InOrder'
    BY <2>1 DEF LiveInv, InOrder, Emitted
  <2>4. HistoryOK' /\ Transparent'
    BY <2>1 DEF LiveInv, HistoryOK, Answered, Transparent
  <2> QED
    BY <2>2, <2>3, <2>4 DEF LiveInv
<1>7. CASE Lost \/ Unmount
  <2>1. /\ UNCHANGED <<emitted, live, pending, received, paused, history>>
        /\ wire' = <<>> /\ subscribed' = FALSE
        /\ source' \in {"none", "waiting"} /\ mounts' = mounts /\ mounted' \in BOOLEAN
        /\ losses' \in 0..MaxLosses
    <3>1. mounted \in BOOLEAN /\ losses \in 0..MaxLosses /\ MaxLosses \in Nat
      BY DEF LiveInv, LiveTypeOK, LiveConstantsOK
    <3>2. CASE Lost
      BY <3>1, <3>2 DEF Lost, page, buffers
    <3>3. CASE Unmount
      BY <3>1, <3>3 DEF Unmount, buffers
    <3> QED
      BY <1>7, <3>2, <3>3
  <2>2. shownBefore' \subseteq Events
    <3>1. CASE Lost
      BY <3>1 DEF Lost, page, LiveInv, LiveTypeOK
    <3>2. CASE Unmount
      <4>1. Merged \in Seq(Events)
        BY MergedFacts
      <4>2. Shown \subseteq Events
        <5>1. \A i \in DOMAIN Merged : Merged[i] \in Events
          BY <4>1
        <5> QED
          BY <5>1 DEF Shown
      <4> QED
        BY <3>2, <4>2 DEF Unmount
    <3> QED
      BY <1>7, <3>1, <3>2
  <2>3. <<>> \in Seq(Events) /\ Len(<<>>) = 0
    OBVIOUS
  <2>4. LiveTypeOK'
    BY <2>1, <2>2, <2>3 DEF LiveInv, LiveTypeOK
  <2>5. InOrder'
    BY <2>1, <2>3 DEF LiveInv, InOrder, Rising, Newer, Emitted
  <2>6. HistoryOK' /\ Transparent'
    BY <2>1 DEF LiveInv, HistoryOK, Answered, Transparent
  <2> QED
    BY <2>4, <2>5, <2>6 DEF LiveInv
<1>8. CASE HistoryAnswers \/ CacheExpires
  <2>1. UNCHANGED <<emitted, wire, live, pending, received, paused, shownBefore, mounts, mounted, losses,
                    source, subscribed>>
    BY <1>8 DEF HistoryAnswers, CacheExpires, stream, buffers
  <2>2. /\ history'.at \in {"none", "cached"}
        /\ history'.at = "cached" => history'.events = Answered(emitted)
    BY <1>8 DEF HistoryAnswers, CacheExpires, Newest, Answered
  <2>3. LiveTypeOK'
    BY <2>1, <2>2 DEF LiveInv, LiveTypeOK
  <2>4. InOrder'
    BY <2>1 DEF LiveInv, InOrder, Emitted
  <2>5. HistoryOK'
    <3>1. emitted \in 0..MaxEmitted
      BY DEF LiveInv, LiveTypeOK
    <3> QED
      BY <2>2, <3>1 DEF HistoryOK, Answered
  <2>6. Transparent'
    BY <2>1 DEF LiveInv, Transparent
  <2> QED
    BY <2>3, <2>4, <2>5, <2>6 DEF LiveInv
<1>9. CASE UNCHANGED liveVars
  <2>1. UNCHANGED <<emitted, wire, live, pending, received, paused, shownBefore, mounts, mounted, losses,
                    source, subscribed, history>>
    BY <1>9 DEF liveVars, page, stream, buffers
  <2>2. LiveTypeOK'
    BY <2>1 DEF LiveInv, LiveTypeOK
  <2>3. InOrder'
    BY <2>1 DEF LiveInv, InOrder, Emitted
  <2>4. HistoryOK' /\ Transparent'
    BY <2>1 DEF LiveInv, HistoryOK, Answered, Transparent
  <2> QED
    BY <2>2, <2>3, <2>4 DEF LiveInv
<1> QED
  BY <1>1, <1>2, <1>3, <1>4, <1>5, <1>6, <1>7, <1>8, <1>9 DEF LiveNext

LEMMA LiveInvariant == ASSUME LiveConstantsOK PROVE LiveSpec => []LiveInv
<1>1. LiveInit => LiveInv
  BY LiveInitially
<1>2. LiveInv /\ [LiveNext]_liveVars => LiveInv'
  BY LiveStep
<1> QED
  BY <1>1, <1>2, PTL DEF LiveSpec

LEMMA LiveShows == ASSUME LiveConstantsOK PROVE LiveInv => ShownAsReceived
<1> SUFFICES ASSUME LiveInv PROVE ShownAsReceived
  OBVIOUS
<1>1. MergedInOrder
  BY MergedFacts
<1>2. /\ pending \in Seq(Events) /\ live \in Seq(Events) /\ received \in Seq(Events)
      /\ BufferSize \in Nat /\ Same(pending \o live, received, BufferSize)
  BY DEF LiveInv, LiveTypeOK, Transparent, LiveConstantsOK
<1>3. pending \o live \in Seq(Events)
  BY <1>2
<1>4. PauseIsTransparent
  BY <1>2, <1>3, TakenSame DEF PauseIsTransparent
<1> QED
  BY <1>1, <1>4 DEF ShownAsReceived

(* The state of the live view keeps its type: the ring buffer and the side  *)
(* buffer of useEventStream stay within their caps.                         *)
THEOREM LiveTypeCorrect == ASSUME LiveConstantsOK PROVE LiveSpec => []LiveTypeOK
<1>1. LiveInv => LiveTypeOK
  BY DEF LiveInv
<1> QED
  BY <1>1, LiveInvariant, PTL

(* Pausing never changes what the operator ends up seeing: on resume the    *)
(* buffers show the newest events received, and the list merged with the    *)
(* history shows no event twice, newest first as far as the history reaches *)
(* (appendEvent and resume of useEventStream, mergedEvents of live.tsx).    *)
THEOREM PauseLosesNothing == ASSUME LiveConstantsOK PROVE LiveSpec => []ShownAsReceived
  BY LiveInvariant, LiveShows, PTL

----------------------------------------------------------------------------
(* The sessions: rows are grouped by the order and the times they have.     *)

TurnRow == [key : FirstMessage \cup {NoText}, time : 0..MaxTime, body : TurnBody \ {"none"}]

RowsOK ==
    /\ recorded \in Seq(TurnRow)
    /\ \A i, j \in 1..Len(recorded) : i <= j => recorded[i].time <= recorded[j].time

LEMMA RowFacts ==
  ASSUME SessionConstantsOK, RowsOK, NEW r \in 1..Len(recorded)
  PROVE  /\ recorded[r] \in TurnRow /\ recorded[r].body \in TurnBody
         /\ recorded[r].time \in 0..MaxTime /\ recorded[r].time \in Nat
<1>1. recorded[r] \in TurnRow
  BY DEF RowsOK
<1>2. recorded[r].time \in 0..MaxTime /\ recorded[r].body \in TurnBody \ {"none"}
  BY <1>1 DEF TurnRow
<1>3. 0..MaxTime \subseteq Nat
  BY DEF SessionConstantsOK
<1> QED
  BY <1>1, <1>2, <1>3

(* A set of numbers with a bound has a greatest one, if it has any.         *)
LEMMA Greatest ==
  ASSUME NEW S, S \subseteq Nat, S # {}, NEW n \in Nat, \A q \in S : q <= n
  PROVE  \E m \in S : \A q \in S : q <= m
<1> DEFINE U == {u \in Nat : \A q \in S : q <= u}
           Less == {ss \in Nat \X Nat : ss[1] < ss[2]}
<1>1. IsWellFoundedOn(Less, Nat)
  BY NatLessThanWellFounded, Zenon DEF OpToRel
<1>2. PICK m \in U : \A u \in U : ~(<<u, m>> \in Less)
  <2>1. U \subseteq Nat /\ n \in U
    OBVIOUS
  <2> HIDE DEF U
  <2> QED
    BY <1>1, <2>1, WFMin
<1>3. m \in S
  <2> SUFFICES ASSUME m \notin S PROVE FALSE
    OBVIOUS
  <2>1. m \in Nat /\ \A q \in S : q \in Nat /\ q <= m /\ q # m
    BY <1>2
  <2>2. m # 0
    <3>1. PICK q : q \in S
      OBVIOUS
    <3> QED
      BY <2>1, <3>1
  <2>3. m - 1 \in U
    BY <2>1, <2>2
  <2>4. <<m - 1, m>> \in Nat \X Nat /\ <<m - 1, m>>[1] = m - 1 /\ <<m - 1, m>>[2] = m /\ m - 1 < m
    BY <2>1, <2>2
  <2> QED
    BY <1>2, <2>3, <2>4
<1> QED
  BY <1>2, <1>3

LEMMA WindowFacts ==
  ASSUME SessionConstantsOK, NEW n \in Nat
  PROVE  /\ Window(n) \subseteq 1..n
         /\ \A q \in Window(n), r \in 1..n : q <= r => r \in Window(n)
<1>1. ListLimit \in Nat
  BY DEF SessionConstantsOK
<1> QED
  BY <1>1 DEF Window

LEMMA ChatFacts ==
  ASSUME SessionConstantsOK, NEW n \in Nat
  PROVE  /\ Chats(n) \subseteq 1..n /\ Chats(n) \subseteq Window(n)
         /\ \A q \in Chats(n) : recorded[q].key # NoText
         /\ \A q \in Chats(n), r \in 1..n :
              q <= r /\ recorded[r].key = recorded[q].key => r \in Chats(n)
  BY WindowFacts DEF Chats

(* The conversation of a row's key that is open is its predecessor's.       *)
LEMMA PreviousFacts ==
  ASSUME SessionConstantsOK, NEW n \in Nat, NEW r \in 1..n, Earlier(n, r) # {}
  PROVE  /\ Previous(n, r) \in Chats(n) /\ Previous(n, r) < r
         /\ recorded[Previous(n, r)].key = recorded[r].key
         /\ \A q \in Chats(n) : q < r /\ recorded[q].key = recorded[r].key => q <= Previous(n, r)
<1> DEFINE S == Earlier(n, r)
<1>1. S \subseteq Nat /\ S # {} /\ \A q \in S : q <= n
  BY ChatFacts DEF Earlier
<1> HIDE DEF S
<1>2. \E m \in S : \A q \in S : q <= m
  BY <1>1, Greatest
<1>3. Previous(n, r) \in S /\ \A q \in S : q <= Previous(n, r)
  BY <1>2 DEF Previous, S
<1>4. /\ Previous(n, r) \in Chats(n) /\ Previous(n, r) < r
      /\ recorded[Previous(n, r)].key = recorded[r].key
  BY <1>3 DEF S, Earlier
<1>5. ASSUME NEW q \in Chats(n), q < r, recorded[q].key = recorded[r].key PROVE q <= Previous(n, r)
  BY <1>3, <1>5 DEF S, Earlier
<1> QED
  BY <1>4, <1>5

(* A row opens a conversation of its own.                                   *)
OpensOwn(n, r) ==
    \/ Earlier(n, r) = {}
    \/ recorded[r].time - recorded[Previous(n, r)].time > MaxIdle

(* GroupHead is what its rule says.                                         *)
LEMMA HeadFacts ==
  ASSUME SessionConstantsOK, NEW n \in Nat
  PROVE  \A r \in 1..n :
           GroupHead(n)[r] = IF OpensOwn(n, r) THEN r ELSE GroupHead(n)[Previous(n, r)]
<1> DEFINE Rule(f, r) == IF OpensOwn(n, r) THEN r ELSE f[Previous(n, r)]
           Good(m, f) == f = [r \in 1..m |-> f[r]] /\ \A r \in 1..m : f[r] = Rule(f, r)
           T == {m \in Nat : m <= n => \E f : Good(m, f)}
<1>1. 0 \in T
  <2>1. Good(0, [r \in 1..0 |-> r])
    OBVIOUS
  <2> QED
    BY <2>1
<1>2. ASSUME NEW m \in Nat, m \in T PROVE m + 1 \in T
  <2> SUFFICES ASSUME m + 1 <= n PROVE \E f : Good(m + 1, f)
    OBVIOUS
  <2>1. m <= n
    OBVIOUS
  <2>2. PICK f : Good(m, f)
    BY <1>2, <2>1
  <2> DEFINE last == Rule(f, m + 1)
             g == [r \in 1..m + 1 |-> IF r <= m THEN f[r] ELSE last]
  <2>3. g = [r \in 1..m + 1 |-> g[r]]
    OBVIOUS
  <2>4. \A r \in 1..m + 1 : g[r] = IF r <= m THEN f[r] ELSE last
    OBVIOUS
  <2> HIDE DEF g
  <2>5. ASSUME NEW r \in 1..m + 1 PROVE g[r] = Rule(g, r)
    <3>1. r \in 1..n
      BY <2>1
    <3>2. CASE OpensOwn(n, r)
      <4>1. CASE r <= m
        <5>1. r \in 1..m /\ g[r] = f[r]
          BY <2>4, <4>1
        <5>2. f[r] = r
          BY <2>2, <3>2, <5>1
        <5> QED
          BY <3>2, <5>1, <5>2
      <4>2. CASE r = m + 1
        BY <2>4, <3>2, <4>2
      <4> QED
        BY <4>1, <4>2
    <3>3. CASE ~OpensOwn(n, r)
      <4>1. Previous(n, r) \in 1..m
        <5>1. Previous(n, r) \in Chats(n) /\ Previous(n, r) < r
          BY <3>1, <3>3, PreviousFacts DEF OpensOwn
        <5> QED
          BY <5>1, ChatFacts
      <4>2. g[Previous(n, r)] = f[Previous(n, r)]
        BY <2>4, <4>1
      <4>3. CASE r <= m
        <5>1. r \in 1..m /\ g[r] = f[r]
          BY <2>4, <4>3
        <5>2. f[r] = f[Previous(n, r)]
          BY <2>2, <3>3, <5>1
        <5> QED
          BY <3>3, <4>2, <5>1, <5>2
      <4>4. CASE r = m + 1
        BY <2>4, <3>3, <4>2, <4>4
      <4> QED
        BY <4>3, <4>4
    <3> QED
      BY <3>2, <3>3
  <2> QED
    BY <2>3, <2>5
<1>3. n \in T
  <2> HIDE DEF T
  <2> QED
    BY <1>1, <1>2, SetInduction
<1>4. PICK f : Good(n, f)
  BY <1>3
<1> DEFINE Computes(h) ==
       h = [r \in 1..n |->
              IF \/ Earlier(n, r) = {}
                 \/ recorded[r].time - recorded[Previous(n, r)].time > MaxIdle
              THEN r ELSE h[Previous(n, r)]]
<1>5. Computes(f)
  BY <1>4 DEF OpensOwn
<1> DEFINE c == CHOOSE h : Computes(h)
<1>6. Computes(c)
  BY <1>5
<1>7. GroupHead(n) = c
  BY DEF GroupHead
<1> HIDE DEF c
<1> DEFINE v(r) == IF \/ Earlier(n, r) = {}
                      \/ recorded[r].time - recorded[Previous(n, r)].time > MaxIdle
                   THEN r ELSE c[Previous(n, r)]
<1>8. c = [r \in 1..n |-> v(r)]
  BY <1>6
<1>9. \A r \in 1..n : v(r) = Rule(c, r)
  BY DEF OpensOwn
<1> HIDE DEF v
<1>10. \A r \in 1..n : c[r] = v(r)
  BY <1>8
<1> QED
  BY <1>7, <1>9, <1>10

(* A chain of rows of one key without an idle gap, as the property has it.  *)
Linked(n, a, b) ==
    \A r \in Chats(n) : a <= r /\ r < b /\ recorded[r].key = recorded[a].key =>
        \E s \in (r + 1)..b : /\ recorded[s].key = recorded[a].key
                              /\ recorded[s].time - recorded[r].time <= MaxIdle

(* What is claimed of a row b: the head of its conversation is an earlier   *)
(* row of the window with its key, and a row before it is in its            *)
(* conversation exactly when a chain links them.                            *)
Grouped(n, b) ==
    b \in Chats(n) =>
      /\ GroupHead(n)[b] \in Chats(n) /\ GroupHead(n)[b] <= b
      /\ recorded[GroupHead(n)[b]].key = recorded[b].key
      /\ \A a \in Chats(n) : a < b =>
           (GroupHead(n)[a] = GroupHead(n)[b]
              <=> recorded[a].key = recorded[b].key /\ Linked(n, a, b))

LEMMA GroupedStep ==
  ASSUME SessionConstantsOK, RowsOK, NEW n \in 0..Len(recorded), NEW b \in 1..n,
         \A c \in 1..n : c < b => Grouped(n, c)
  PROVE  Grouped(n, b)
<1> SUFFICES ASSUME b \in Chats(n)
             PROVE  /\ GroupHead(n)[b] \in Chats(n) /\ GroupHead(n)[b] <= b
                    /\ recorded[GroupHead(n)[b]].key = recorded[b].key
                    /\ \A a \in Chats(n) : a < b =>
                         (GroupHead(n)[a] = GroupHead(n)[b]
                            <=> recorded[a].key = recorded[b].key /\ Linked(n, a, b))
  BY DEF Grouped
<1> DEFINE head == GroupHead(n)
           key(r) == recorded[r].key
           p == Previous(n, b)
<1>1. n \in Nat /\ n <= Len(recorded) /\ Chats(n) \subseteq 1..n
      /\ \A q \in Chats(n), r \in 1..n : q <= r /\ key(r) = key(q) => r \in Chats(n)
  BY ChatFacts DEF RowsOK
<1>2. \A r \in 1..n : head[r] = IF OpensOwn(n, r) THEN r ELSE head[Previous(n, r)]
  BY <1>1, HeadFacts
<1>3. MaxIdle \in Nat /\ \A r \in 1..n : recorded[r].time \in Nat
  <2>1. \A r \in 1..n : r \in 1..Len(recorded)
    BY <1>1
  <2> QED
    BY <2>1, RowFacts DEF SessionConstantsOK
<1>4. ASSUME NEW a \in Chats(n), a < b
      PROVE  /\ head[a] \in Chats(n) /\ head[a] <= a /\ key(head[a]) = key(a)
             /\ a \in 1..n
  BY <1>1, <1>4 DEF Grouped
<1>5. CASE Earlier(n, b) = {}
  <2>1. head[b] = b
    BY <1>2, <1>5 DEF OpensOwn
  <2>2. ASSUME NEW a \in Chats(n), a < b
        PROVE  head[a] # head[b] /\ key(a) # key(b)
    <3>1. head[a] \in Chats(n) /\ head[a] <= a /\ a \in 1..n
      BY <1>4, <2>2
    <3>2. head[a] # b
      BY <1>1, <2>2, <3>1
    <3>3. key(a) # key(b)
      BY <1>5, <2>2 DEF Earlier
    <3> QED
      BY <2>1, <3>2, <3>3
  <2> QED
    BY <2>1, <2>2
<1>6. CASE Earlier(n, b) # {}
  <2>1. /\ p \in Chats(n) /\ p < b /\ key(p) = key(b) /\ p \in 1..n
        /\ \A q \in Chats(n) : q < b /\ key(q) = key(b) => q <= p
    BY <1>1, <1>6, PreviousFacts
  <2> HIDE DEF p
  <2>2. CASE recorded[b].time - recorded[p].time > MaxIdle
    <3>1. head[b] = b
      BY <1>2, <2>2 DEF OpensOwn, p
    <3>2. ASSUME NEW a \in Chats(n), a < b
          PROVE  head[a] # head[b] /\ (key(a) = key(b) => ~Linked(n, a, b))
      <4>1. head[a] \in Chats(n) /\ head[a] <= a /\ a \in 1..n
        BY <1>4, <3>2
      <4>2. head[a] # b
        BY <1>1, <3>2, <4>1
      <4>3. ASSUME key(a) = key(b), Linked(n, a, b) PROVE FALSE
        <5>1. a <= p
          BY <2>1, <3>2, <4>3
        <5>2. PICK s \in (p + 1)..b : /\ key(s) = key(a)
                                      /\ recorded[s].time - recorded[p].time <= MaxIdle
          BY <2>1, <4>3, <5>1 DEF Linked
        <5>3. s \in Chats(n) /\ s \in 1..n /\ p < s
          <6>1. s \in 1..n /\ p < s /\ p <= s
            BY <1>1, <2>1, <5>2
          <6>2. recorded[s].key = recorded[p].key
            BY <2>1, <4>3, <5>2
          <6> QED
            BY <1>1, <2>1, <6>1, <6>2
        <5>4. ~(s < b)
          BY <1>1, <2>1, <4>3, <5>2, <5>3
        <5>5. s = b
          BY <5>2, <5>4
        <5> QED
          BY <1>3, <2>1, <2>2, <5>2, <5>5
      <4> QED
        BY <3>1, <4>2, <4>3
    <3> QED
      BY <3>1, <3>2
  <2>3. CASE ~(recorded[b].time - recorded[p].time > MaxIdle)
    <3>0. recorded[b].time - recorded[p].time <= MaxIdle
      BY <1>3, <2>1, <2>3
    <3>1. head[b] = head[p]
      BY <1>2, <1>6, <2>3 DEF OpensOwn, p
    <3>2. head[p] \in Chats(n) /\ head[p] <= p /\ key(head[p]) = key(p)
      BY <1>4, <2>1
    <3>3. head[b] \in Chats(n) /\ head[b] <= b /\ key(head[b]) = key(b)
      BY <1>1, <2>1, <3>1, <3>2
    <3>4. ASSUME NEW a \in Chats(n), a < b
          PROVE  head[a] = head[b] <=> key(a) = key(b) /\ Linked(n, a, b)
      <4>0. a \in 1..n /\ key(head[a]) = key(a)
        BY <1>4, <3>4
      <4>1. CASE a > p
        <5>1. key(a) # key(b)
          BY <1>1, <2>1, <3>4, <4>0, <4>1
        <5> QED
          BY <3>3, <4>0, <5>1
      <4>2. CASE a = p
        <5>1. Linked(n, a, b)
          <6> SUFFICES ASSUME NEW r \in Chats(n), a <= r, r < b, key(r) = key(a)
                       PROVE  \E s \in (r + 1)..b : /\ key(s) = key(a)
                                                    /\ recorded[s].time - recorded[r].time <= MaxIdle
            BY DEF Linked
          <6>1. r = p
            BY <1>1, <2>1, <4>2
          <6>2. b \in (r + 1)..b
            BY <2>1, <6>1
          <6> QED
            BY <2>1, <3>0, <4>2, <6>1, <6>2
        <5> QED
          BY <2>1, <3>1, <4>2, <5>1
      <4>3. CASE a < p
        <5>1. head[a] = head[p] <=> key(a) = key(p) /\ Linked(n, a, p)
          BY <2>1, <4>3 DEF Grouped
        <5>2. ASSUME key(a) = key(b) PROVE Linked(n, a, p) <=> Linked(n, a, b)
          <6>1. ASSUME Linked(n, a, p) PROVE Linked(n, a, b)
            <7> SUFFICES ASSUME NEW r \in Chats(n), a <= r, r < b, key(r) = key(a)
                         PROVE  \E s \in (r + 1)..b : /\ key(s) = key(a)
                                                      /\ recorded[s].time - recorded[r].time <= MaxIdle
              BY DEF Linked
            <7>1. r <= p /\ r \in 1..n
              BY <1>1, <2>1, <5>2
            <7>2. CASE r < p
              <8>1. PICK s \in (r + 1)..p : /\ key(s) = key(a)
                                            /\ recorded[s].time - recorded[r].time <= MaxIdle
                BY <6>1, <7>2 DEF Linked
              <8>2. s \in (r + 1)..b
                BY <2>1, <7>1, <8>1
              <8> QED
                BY <8>1, <8>2
            <7>3. CASE r = p
              <8>1. b \in (r + 1)..b
                BY <2>1, <7>3
              <8> QED
                BY <2>1, <3>0, <5>2, <7>3, <8>1
            <7> QED
              BY <2>1, <7>1, <7>2, <7>3
          <6>2. ASSUME Linked(n, a, b) PROVE Linked(n, a, p)
            <7> SUFFICES ASSUME NEW r \in Chats(n), a <= r, r < p, key(r) = key(a)
                         PROVE  \E s \in (r + 1)..p : /\ key(s) = key(a)
                                                      /\ recorded[s].time - recorded[r].time <= MaxIdle
              BY DEF Linked
            <7>0. r \in 1..n /\ r < b
              BY <1>1, <2>1
            <7>1. PICK s \in (r + 1)..b : /\ key(s) = key(a)
                                          /\ recorded[s].time - recorded[r].time <= MaxIdle
              BY <6>2, <7>0 DEF Linked
            <7>2. CASE s <= p
              <8>1. s \in (r + 1)..p
                BY <2>1, <7>0, <7>1, <7>2
              <8> QED
                BY <7>1, <8>1
            <7>3. CASE ~(s <= p)
              <8>1. s \in 1..n /\ s \in Chats(n) /\ p \in (r + 1)..p
                BY <1>1, <2>1, <7>0, <7>1, <7>3
              <8>2. s = b
                BY <1>1, <2>1, <5>2, <7>1, <7>3, <8>1
              <8>3. recorded[p].time <= recorded[b].time
                <9>1. p \in 1..Len(recorded) /\ b \in 1..Len(recorded) /\ p <= b
                  BY <1>1, <2>1
                <9> QED
                  BY <9>1 DEF RowsOK
              <8>4. recorded[p].time - recorded[r].time <= MaxIdle
                BY <1>3, <2>1, <7>0, <7>1, <8>2, <8>3
              <8> QED
                BY <2>1, <5>2, <8>1, <8>4
            <7> QED
              BY <7>2, <7>3
          <6> QED
            BY <6>1, <6>2
        <5> QED
          BY <2>1, <3>1, <5>1, <5>2
      <4> QED
        BY <1>1, <2>1, <4>0, <4>1, <4>2, <4>3
    <3> QED
      BY <3>3, <3>4
  <2> QED
    BY <2>2, <2>3
<1> QED
  BY <1>5, <1>6

LEMMA AllGrouped ==
  ASSUME SessionConstantsOK, RowsOK, NEW n \in 0..Len(recorded)
  PROVE  \A b \in 1..n : Grouped(n, b)
<1> DEFINE T == {m \in Nat : \A b \in 1..n : b <= m => Grouped(n, b)}
<1>0. n \in Nat
  BY DEF RowsOK
<1>1. 0 \in T
  OBVIOUS
<1>2. ASSUME NEW m \in Nat, m \in T PROVE m + 1 \in T
  <2> SUFFICES ASSUME NEW b \in 1..n, b <= m + 1 PROVE Grouped(n, b)
    OBVIOUS
  <2>1. \A c \in 1..n : c < b => Grouped(n, c)
    BY <1>2
  <2> QED
    BY <2>1, GroupedStep
<1>3. n \in T
  <2> HIDE DEF T
  <2> QED
    BY <1>0, <1>1, <1>2, SetInduction
<1> QED
  BY <1>0, <1>3

SessionInv ==
    /\ SessionTypeOK /\ RowsOK
    /\ listed <= Len(recorded) /\ Len(recorded) <= MaxRequests
    /\ refetching \subseteq 1..Len(recorded)

LEMMA SessionInitially == ASSUME SessionConstantsOK PROVE SessionInit => SessionInv
<1> SUFFICES ASSUME SessionInit PROVE SessionInv
  OBVIOUS
<1>1. recorded = <<>> /\ Len(<<>>) = 0 /\ <<>> \in Seq(TurnRow)
  BY DEF SessionInit
<1>2. MaxRequests \in Nat /\ 0 \in 0..MaxRequests /\ "none" \in TurnBody
  BY DEF SessionConstantsOK, TurnBody
<1>3. RowsOK
  BY <1>1 DEF RowsOK
<1>4. SessionTypeOK
  BY <1>1, <1>2 DEF SessionInit, SessionTypeOK
<1> QED
  BY <1>1, <1>2, <1>3, <1>4 DEF SessionInit, SessionInv

(* A row is appended or completed: what is known of the rows stays.         *)
LEMMA RowsGrow ==
  ASSUME SessionConstantsOK, SessionInv, Record \/ Complete
  PROVE  /\ RowsOK' /\ Len(recorded)' \in Nat
         /\ Len(recorded) <= Len(recorded)' /\ Len(recorded)' <= MaxRequests
<1>1. /\ recorded \in Seq(TurnRow) /\ Len(recorded) \in Nat /\ MaxRequests \in Nat /\ MaxTime \in Nat
      /\ Len(recorded) <= MaxRequests
      /\ \A i, j \in 1..Len(recorded) : i <= j => recorded[i].time <= recorded[j].time
  BY DEF SessionInv, RowsOK, SessionConstantsOK
<1>2. CASE Record
  <2>1. PICK k \in FirstMessage \cup {NoText}, t \in 0..MaxTime :
             /\ IF recorded = <<>> THEN t = 0 ELSE Last(recorded).time <= t
             /\ recorded' = Append(recorded, [key |-> k, time |-> t, body |-> "asked"])
    BY <1>2 DEF Record
  <2> DEFINE row == [key |-> k, time |-> t, body |-> "asked"]
  <2>2. row \in TurnRow /\ row.time = t
    BY DEF TurnRow, TurnBody
  <2> HIDE DEF row
  <2>3. /\ recorded' \in Seq(TurnRow) /\ Len(recorded') = Len(recorded) + 1
        /\ recorded'[Len(recorded) + 1] = row
        /\ \A i \in 1..Len(recorded) : recorded'[i] = recorded[i]
    BY <1>1, <2>1, <2>2 DEF row
  <2>4. \A i \in 1..Len(recorded) : recorded[i].time \in 0..MaxTime
    BY RowFacts DEF SessionInv
  <2>5. \A i \in 1..Len(recorded) : recorded[i].time <= t
    <3> SUFFICES ASSUME NEW i \in 1..Len(recorded) PROVE recorded[i].time <= t
      OBVIOUS
    <3>1. recorded # <<>> /\ Len(recorded) \in 1..Len(recorded)
      BY <1>1
    <3>2. recorded[Len(recorded)].time <= t
      BY <2>1, <3>1 DEF Last
    <3>3. recorded[i].time <= recorded[Len(recorded)].time
      BY <1>1, <3>1
    <3> QED
      BY <2>4, <3>1, <3>2, <3>3
  <2>6. \A i, j \in 1..Len(recorded') : i <= j => recorded'[i].time <= recorded'[j].time
    <3> SUFFICES ASSUME NEW i \in 1..Len(recorded'), NEW j \in 1..Len(recorded'), i <= j
                 PROVE  recorded'[i].time <= recorded'[j].time
      OBVIOUS
    <3>1. CASE j = Len(recorded) + 1 /\ i = Len(recorded) + 1
      BY <2>2, <2>3, <3>1
    <3>2. CASE j = Len(recorded) + 1 /\ i # Len(recorded) + 1
      <4>1. i \in 1..Len(recorded)
        BY <1>1, <2>3, <3>2
      <4> QED
        BY <2>2, <2>3, <2>5, <3>2, <4>1
    <3>3. CASE j # Len(recorded) + 1
      <4>1. i \in 1..Len(recorded) /\ j \in 1..Len(recorded)
        BY <1>1, <2>3, <3>3
      <4> QED
        BY <1>1, <2>3, <4>1
    <3> QED
      BY <3>1, <3>2, <3>3
  <2>7. Len(recorded) < MaxRequests
    BY <1>2 DEF Record
  <2> QED
    BY <1>1, <2>3, <2>6, <2>7 DEF RowsOK
<1>3. CASE Complete
  <2>1. PICK r \in Recorded : recorded' = [recorded EXCEPT ![r].body = "whole"]
    BY <1>3 DEF Complete
  <2>2. r \in 1..Len(recorded) /\ recorded[r] \in TurnRow
    BY <2>1, RowFacts DEF Recorded, SessionInv
  <2> DEFINE row == [recorded[r] EXCEPT !.body = "whole"]
  <2>3. row \in TurnRow /\ row.time = recorded[r].time
    BY <2>2 DEF TurnRow, TurnBody
  <2> HIDE DEF row
  <2>4. recorded' = [recorded EXCEPT ![r] = row]
    BY <2>1 DEF row
  <2>5. /\ recorded' \in Seq(TurnRow) /\ Len(recorded') = Len(recorded)
        /\ \A i \in 1..Len(recorded) : recorded'[i] = IF i = r THEN row ELSE recorded[i]
    BY <1>1, <2>2, <2>3, <2>4
  <2>6. \A i \in 1..Len(recorded) : recorded'[i].time = recorded[i].time
    BY <2>3, <2>5
  <2> QED
    BY <1>1, <2>5, <2>6 DEF RowsOK
<1> QED
  BY <1>2, <1>3

LEMMA SessionStep == ASSUME SessionConstantsOK, SessionInv, [SessionNext]_sessionVars PROVE SessionInv'
<1>1. /\ RowsOK /\ Len(recorded) \in Nat /\ MaxRequests \in Nat /\ listed \in 0..Len(recorded)
      /\ listed \in Nat /\ Len(recorded) <= MaxRequests /\ refetching \subseteq 1..Len(recorded)
      /\ session \in 0..MaxRequests /\ cache \in [1..MaxRequests -> TurnBody]
      /\ shown \subseteq 1..MaxRequests /\ conversation \subseteq Window(listed)
  <2>1. /\ RowsOK /\ Len(recorded) <= MaxRequests /\ refetching \subseteq 1..Len(recorded)
        /\ listed <= Len(recorded) /\ SessionTypeOK
    BY DEF SessionInv
  <2>2. /\ session \in 0..MaxRequests /\ cache \in [1..MaxRequests -> TurnBody]
        /\ shown \subseteq 1..MaxRequests /\ conversation \subseteq Window(listed)
        /\ listed \in 0..MaxRequests
    BY <2>1 DEF SessionTypeOK
  <2>3. MaxRequests \in Nat
    BY DEF SessionConstantsOK
  <2>4. Len(recorded) \in Nat
    <3>1. recorded \in Seq(TurnRow)
      BY <2>1 DEF RowsOK
    <3> QED
      BY <3>1
  <2>5. listed \in 0..Len(recorded) /\ listed \in Nat
    BY <2>1, <2>2, <2>3, <2>4
  <2> QED
    BY <2>1, <2>2, <2>3, <2>4, <2>5
<1>2. /\ Window(listed) \subseteq 1..listed /\ 1..listed \subseteq 1..Len(recorded)
      /\ 1..Len(recorded) \subseteq 1..MaxRequests
  <2>1. Window(listed) \subseteq 1..listed
    BY <1>1, WindowFacts
  <2> QED
    BY <1>1, <2>1
<1>3. \A r \in 1..Len(recorded) : recorded[r].body \in TurnBody
  BY RowFacts DEF SessionInv
<1>4. CASE Record \/ Complete
  <2>1. UNCHANGED <<listed, session, conversation, cache, refetching, shown>>
    BY <1>4 DEF Record, Complete
  <2>2. /\ RowsOK' /\ Len(recorded)' \in Nat
        /\ Len(recorded) <= Len(recorded)' /\ Len(recorded)' <= MaxRequests
    BY <1>4, RowsGrow
  <2>3. listed' <= Len(recorded)' /\ refetching' \subseteq 1..Len(recorded)'
    BY <1>1, <2>1, <2>2
  <2>4. (recorded \in Seq(TurnRow))' /\ Window(listed)' = Window(listed)
    BY <2>1, <2>2 DEF RowsOK, Window
  <2>5. SessionTypeOK'
    BY <1>1, <1>2, <2>1, <2>4 DEF SessionTypeOK, TurnRow
  <2> QED
    BY <2>2, <2>3, <2>5 DEF SessionInv
<1>5. ASSUME UNCHANGED recorded, listed' \in 0..Len(recorded), session' \in 0..MaxRequests,
             cache' \in [1..MaxRequests -> TurnBody], shown' \subseteq 1..MaxRequests,
             refetching' \subseteq 1..Len(recorded), conversation' \subseteq Window(listed)'
      PROVE  SessionInv'
  <2>1. RowsOK' /\ Len(recorded)' = Len(recorded)
    BY <1>1, <1>5 DEF RowsOK
  <2>2. (recorded \in Seq(TurnRow))' /\ listed' \in 0..MaxRequests /\ refetching' \subseteq 1..MaxRequests
    BY <1>1, <1>2, <1>5, <2>1 DEF RowsOK
  <2>3. SessionTypeOK'
    BY <1>1, <1>5, <2>2 DEF SessionTypeOK, TurnRow
  <2> QED
    BY <1>1, <1>5, <2>1, <2>3 DEF SessionInv
<1>6. CASE PollList
  <2>1. /\ UNCHANGED <<recorded, session, cache, refetching, shown>> /\ listed' = Len(recorded)
        /\ conversation' = Resolved(listed', session)
    BY <1>6 DEF PollList
  <2>2. Resolved(listed', session) \subseteq Window(listed')
    BY DEF Resolved, Chats
  <2>3. Window(listed') = Window(listed)'
    BY DEF Window
  <2> QED
    BY <1>1, <1>5, <2>1, <2>2, <2>3
<1>7. CASE OpenPage
  <2>0. Chats(listed) \subseteq Window(listed)
    BY DEF Chats
  <2>1. PICK r \in Chats(listed) : session' = GroupHead(listed)[r]
    BY <1>7 DEF OpenPage
  <2>2. /\ UNCHANGED <<recorded, listed, cache, refetching, shown>>
        /\ conversation' = Resolved(listed, session')
    BY <1>7 DEF OpenPage
  <2>3. GroupHead(listed)[r] \in Chats(listed)
    BY <1>1, <1>2, <2>0, <2>1, AllGrouped DEF Grouped
  <2>4. session' \in 0..MaxRequests
    BY <1>1, <1>2, <2>0, <2>1, <2>3
  <2>5. Resolved(listed, session') \subseteq Window(listed) /\ Window(listed)' = Window(listed)
    BY <2>0, <2>2 DEF Resolved, Window
  <2> QED
    BY <1>1, <1>5, <2>2, <2>4, <2>5
<1>8. CASE ClosePage
  BY <1>1, <1>5, <1>8 DEF ClosePage
<1>9. CASE PollTurns
  <2> DEFINE body(r) == IF cache[r] = "none" THEN recorded[r].body ELSE cache[r]
  <2>1. /\ UNCHANGED <<recorded, listed, session, conversation>>
        /\ cache' = [r \in DOMAIN cache |-> IF r \in conversation THEN body(r) ELSE cache[r]]
        /\ shown' = {r \in conversation : body(r) = "whole"}
        /\ refetching' = refetching \cup {r \in conversation : cache[r] # "none" /\ Stale(conversation, r)}
    BY <1>9 DEF PollTurns
  <2>2. DOMAIN cache = 1..MaxRequests /\ \A r \in conversation : r \in 1..Len(recorded)
    BY <1>1, <1>2
  <2>3. \A r \in 1..MaxRequests : (IF r \in conversation THEN body(r) ELSE cache[r]) \in TurnBody
    BY <1>1, <1>3, <2>2
  <2> HIDE DEF body
  <2>4. cache' \in [1..MaxRequests -> TurnBody]
    BY <2>1, <2>2, <2>3
  <2>5. shown' \subseteq 1..MaxRequests /\ refetching' \subseteq 1..Len(recorded)
    BY <1>1, <1>2, <2>1, <2>2
  <2>6. conversation' \subseteq Window(listed)'
    BY <1>1, <2>1 DEF Window
  <2> QED
    BY <1>1, <1>5, <2>1, <2>4, <2>5, <2>6
<1>10. ASSUME NEW r \in 1..MaxRequests, RefetchAnswers(r) \/ Collect(r) PROVE SessionInv'
  <2>1. UNCHANGED <<recorded, listed, session, conversation, shown>> /\ refetching' \subseteq refetching
    BY <1>10 DEF RefetchAnswers, Collect
  <2>2. cache' \in [1..MaxRequests -> TurnBody]
    <3>1. CASE RefetchAnswers(r)
      BY <1>1, <1>3, <3>1 DEF RefetchAnswers
    <3>2. CASE Collect(r)
      BY <1>1, <3>2 DEF Collect, TurnBody
    <3> QED
      BY <1>10, <3>1, <3>2
  <2>3. conversation' \subseteq Window(listed)'
    BY <1>1, <2>1 DEF Window
  <2> QED
    BY <1>1, <1>5, <2>1, <2>2, <2>3
<1>11. CASE UNCHANGED sessionVars
  <2>1. UNCHANGED <<recorded, listed, session, conversation, cache, refetching, shown>>
    BY <1>11 DEF sessionVars
  <2>2. Window(listed)' = Window(listed)
    BY <2>1 DEF Window
  <2> QED
    BY <1>1, <1>5, <2>1, <2>2
<1> QED
  BY <1>4, <1>6, <1>7, <1>8, <1>9, <1>10, <1>11 DEF SessionNext

LEMMA SessionInvariant == ASSUME SessionConstantsOK PROVE SessionSpec => []SessionInv
<1>1. SessionInit => SessionInv
  BY SessionInitially
<1>2. SessionInv /\ [SessionNext]_sessionVars => SessionInv'
  BY SessionStep
<1> QED
  BY <1>1, <1>2, PTL DEF SessionSpec

(* The rows, the page, its cache and its refetches keep their types: a      *)
(* refetch is only ever of a row that exists, and the open conversation is  *)
(* of rows that were listed (s.$sessionId.tsx, session-turns.ts).           *)
THEOREM SessionTypeCorrect == ASSUME SessionConstantsOK PROVE SessionSpec => []SessionTypeOK
<1>1. SessionInv => SessionTypeOK
  BY DEF SessionInv
<1> QED
  BY <1>1, SessionInvariant, PTL

(* groupIntoConversations puts two rows with a first text into one          *)
(* conversation exactly when a chain of rows of their key links them        *)
(* without an idle gap, whatever rows without a text lie between, for any   *)
(* number of rows, keys and times, and any limit of the list.               *)
THEOREM SessionsAreGrouped == ASSUME SessionConstantsOK PROVE SessionSpec => []GroupedByActivity
<1>1. ASSUME SessionInv PROVE GroupedByActivity
  <2>1. RowsOK /\ listed \in 0..Len(recorded) /\ listed \in Nat
    BY <1>1 DEF SessionInv, RowsOK, SessionTypeOK, SessionConstantsOK
  <2>2. \A b \in 1..listed : Grouped(listed, b)
    BY <2>1, AllGrouped
  <2>3. Chats(listed) \subseteq 1..listed
    BY <2>1, ChatFacts
  <2> SUFFICES ASSUME NEW a \in Chats(listed), NEW b \in Chats(listed), a < b
               PROVE  GroupHead(listed)[a] = GroupHead(listed)[b]
                        <=> recorded[a].key = recorded[b].key /\ Linked(listed, a, b)
    BY DEF GroupedByActivity, Linked
  <2> QED
    BY <2>2, <2>3 DEF Grouped
<1> QED
  BY <1>1, SessionInvariant, PTL

----------------------------------------------------------------------------
(* The keys page and the keys.                                              *)

(* The rows are a list, and what the statements do to it.                   *)
Rows(n) == [1..n -> RowType]

LEMMA RowsAreAList ==
  ASSUME NEW s
  PROVE  s \in Seq(RowType) <=> Len(s) \in Nat /\ s \in Rows(Len(s)) /\ DOMAIN s = 1..Len(s)
  BY LenProperties, SeqDef DEF Rows

LEMMA ListOfRows ==
  ASSUME NEW n \in Nat, NEW s \in Rows(n)
  PROVE  s \in Seq(RowType) /\ Len(s) = n /\ DOMAIN s = 1..n
  BY SeqDef, LenProperties DEF Rows

LEMMA OneRow == ASSUME NEW S, NEW r \in S PROVE <<r>> \in Seq(S) /\ Len(<<r>>) = 1
  OBVIOUS

LEMMA RowFields ==
  ASSUME NEW secret \in Secret, NEW l \in Label, NEW admin \in BOOLEAN
  PROVE  Row(secret, l, admin) \in RowType
  BY DEF Row, RowType

(* A new row, a changed row, and the revocation as the code writes it.      *)
LEMMA Added ==
  ASSUME KeyConstantsOK, KeyTypeOK, NEW l \in Label, NEW admin \in BOOLEAN, InsertApiKey(l, admin)
  PROVE  /\ keys' \in Seq(RowType) /\ Len(keys') = Len(keys) + 1 /\ Len(keys') \in 1..MaxRows
         /\ minted' = minted + 1 /\ minted' \in Secret
         /\ \A i \in DOMAIN keys : i \in DOMAIN keys' /\ keys'[i] = keys[i]
         /\ Len(keys') \in DOMAIN keys'
         /\ keys'[Len(keys')] = Row(minted', l, admin)
<1>1. Len(keys) \in Nat /\ minted \in Nat /\ MaxMinted \in Nat /\ MaxRows \in Nat
  BY DEF KeyTypeOK, Secret, KeyConstantsOK
<1>2. minted' = minted + 1 /\ minted' \in Secret /\ Len(keys) < MaxRows
  BY <1>1 DEF InsertApiKey, KeyTypeOK, Secret
<1>3. Row(minted', l, admin) \in RowType
  BY <1>2, RowFields
<1>4. keys' = Append(keys, Row(minted', l, admin))
  BY <1>2 DEF InsertApiKey
<1>5. /\ keys' \in Seq(RowType) /\ Len(keys') = Len(keys) + 1
      /\ \A i \in 1..Len(keys) : keys'[i] = keys[i]
      /\ keys'[Len(keys) + 1] = Row(minted', l, admin)
  BY <1>3, <1>4, AppendProperties DEF KeyTypeOK
<1>6. DOMAIN keys = 1..Len(keys) /\ DOMAIN keys' = 1..Len(keys')
  BY <1>5, LenProperties DEF KeyTypeOK
<1> QED
  BY <1>1, <1>2, <1>5, <1>6 DEF KeyTypeOK

LEMMA Changed ==
  ASSUME KeyTypeOK, NEW i \in DOMAIN keys, NEW r \in RowType, keys' = [keys EXCEPT ![i] = r]
  PROVE  /\ keys' \in Seq(RowType) /\ Len(keys') \in 1..MaxRows /\ DOMAIN keys' = DOMAIN keys
         /\ keys'[i] = r
         /\ \A j \in DOMAIN keys : j # i => keys'[j] = keys[j]
<1>1. keys \in Rows(Len(keys)) /\ Len(keys) \in Nat /\ DOMAIN keys = 1..Len(keys)
  BY RowsAreAList DEF KeyTypeOK
<1>2. keys' \in Rows(Len(keys))
  BY <1>1 DEF Rows
<1>3. keys' \in Seq(RowType) /\ Len(keys') = Len(keys) /\ DOMAIN keys' = 1..Len(keys)
  BY <1>1, <1>2, ListOfRows
<1> QED
  BY <1>1, <1>3 DEF KeyTypeOK

LEMMA Revoked ==
  ASSUME KeyTypeOK, NEW c \in AdminCall, Revoke(c)
  PROVE  /\ keys' \in Seq(RowType) /\ Len(keys') \in 1..MaxRows /\ DOMAIN keys' = DOMAIN keys
         /\ \A j \in DOMAIN keys : keys[j].revoked => keys'[j] = keys[j]
<1>1. keys \in Rows(Len(keys)) /\ Len(keys) \in Nat /\ DOMAIN keys = 1..Len(keys)
  BY RowsAreAList DEF KeyTypeOK
<1>2. \A j \in DOMAIN keys : /\ [keys[j] EXCEPT !.revoked = TRUE] \in RowType
                             /\ keys[j].revoked => [keys[j] EXCEPT !.revoked = TRUE] = keys[j]
  BY <1>1 DEF Rows, RowType
<1>3. keys' = [j \in DOMAIN keys |->
                 IF j = calls[c].id THEN [keys[j] EXCEPT !.revoked = TRUE] ELSE keys[j]]
  BY DEF Revoke
<1>4. keys' \in Rows(Len(keys))
  BY <1>1, <1>2, <1>3 DEF Rows
<1>5. keys' \in Seq(RowType) /\ Len(keys') = Len(keys) /\ DOMAIN keys' = 1..Len(keys)
  BY <1>1, <1>4, ListOfRows
<1> QED
  BY <1>1, <1>2, <1>3, <1>5 DEF KeyTypeOK

(* What an answer leaves in the call, and what a page sends.                *)
LEMMA AnswerType ==
  ASSUME KeyTypeOK, NEW c \in AdminCall, NEW full \in 0..MaxMinted, NEW ok \in BOOLEAN,
         CallEnds(c, full, ok)
  PROVE  /\ calls' \in [AdminCall -> CallType]
         /\ calls'[c].full = full
         /\ \A d \in AdminCall : d # c => calls'[d] = calls[d]
<1> DEFINE answered == [calls[c] EXCEPT !.step = "done", !.full = full, !.ok = ok]
<1>1. calls \in [AdminCall -> CallType] /\ calls[c] \in CallType
  BY DEF KeyTypeOK
<1>2. answered \in CallType /\ answered.full = full
  BY <1>1 DEF CallType
<1>3. calls' = [calls EXCEPT ![c] = answered]
  BY <1>1 DEF CallEnds
<1> HIDE DEF answered
<1> QED
  BY <1>1, <1>2, <1>3

LEMMA CallFields ==
  ASSUME KeyConstantsOK
  PROVE  /\ None \in 0..MaxMinted /\ None \in 0..NewKey /\ NewKey \in 0..NewKey
         /\ NoCall \in CallType /\ NoCall.full = None /\ Closed \in DialogType
  BY DEF KeyConstantsOK, None, NewKey, NoCall, CallType, Closed, DialogType, Ops, Dialogs

LEMMA SendType ==
  ASSUME KeyConstantsOK, KeyTypeOK, NEW o \in Ops, NEW id \in 0..NewKey, Send(o, id)
  PROVE  /\ calls' \in [AdminCall -> CallType]
         /\ \A c \in AdminCall : calls'[c] = calls[c] \/ calls'[c].full = None
<1>1. PICK c \in AdminCall :
        calls' = [calls EXCEPT ![c] =
           [NoCall EXCEPT !.op = o, !.id = id, !.key = pageKey, !.step = "sent",
                        !.heard = o # "rename"]]
  BY DEF Send
<1>2. pageKey \in 0..MaxMinted /\ (o # "rename") \in BOOLEAN
  BY DEF KeyTypeOK, Secret
<1>3. /\ [NoCall EXCEPT !.op = o, !.id = id, !.key = pageKey, !.step = "sent",
                      !.heard = o # "rename"] \in CallType
      /\ [NoCall EXCEPT !.op = o, !.id = id, !.key = pageKey, !.step = "sent",
                      !.heard = o # "rename"].full = None
  BY <1>2, CallFields DEF CallType, NoCall
<1> QED
  BY <1>1, <1>3 DEF KeyTypeOK

(* The variables are of their types.                                        *)
LEMMA KeysTypeInit == ASSUME KeyConstantsOK, KeyInit PROVE KeyTypeOK
<1>1. PICK l \in Label : keys = <<Row(1, l, TRUE)>>
  BY DEF KeyInit
<1>2. 1 \in Secret
  BY DEF Secret, KeyConstantsOK
<1>3. Row(1, l, TRUE) \in RowType
  BY <1>2, RowFields
<1>4. keys \in Seq(RowType) /\ Len(keys) = 1
  BY <1>1, <1>3, OneRow, Zenon
<1>5. 1 \in 1..MaxRows
  BY DEF KeyConstantsOK
<1> QED
  BY <1>2, <1>4, <1>5, CallFields DEF KeyInit, KeyTypeOK

LEMMA KeysTypeNext == ASSUME KeyConstantsOK, KeyTypeOK, [KeyNext]_keyVars PROVE KeyTypeOK'
<1>0. /\ \A l \in Label, admin \in BOOLEAN :
           InsertApiKey(l, admin) => minted' \in Secret /\ keys' \in Seq(RowType) /\ Len(keys') \in 1..MaxRows
      /\ None \in 0..MaxMinted /\ MaxMinted \in Nat
      /\ \A secret \in Secret : secret \in 0..MaxMinted
      /\ minted < MaxMinted => minted + 1 \in Secret
  BY Added, CallFields DEF Secret, KeyConstantsOK, KeyTypeOK
<1>k. keys \in Rows(Len(keys)) /\ Len(keys) \in Nat /\ DOMAIN keys = 1..Len(keys)
  BY RowsAreAList DEF KeyTypeOK
<1>r. \A i \in DOMAIN keys :
        /\ keys[i] \in RowType /\ i \in 0..NewKey /\ keys[i].secret \in Secret
        /\ \A l \in Label : [keys[i] EXCEPT !.label = l] \in RowType
        /\ \A secret \in Secret : [keys[i] EXCEPT !.secret = secret] \in RowType
        /\ [keys[i] EXCEPT !.revoked = TRUE] \in RowType
  <2> SUFFICES ASSUME NEW i \in DOMAIN keys
               PROVE  /\ keys[i] \in RowType /\ i \in 0..NewKey /\ keys[i].secret \in Secret
                      /\ \A l \in Label : [keys[i] EXCEPT !.label = l] \in RowType
                      /\ \A secret \in Secret : [keys[i] EXCEPT !.secret = secret] \in RowType
                      /\ [keys[i] EXCEPT !.revoked = TRUE] \in RowType
    OBVIOUS
  <2>1. keys[i] \in RowType
    BY <1>k DEF Rows
  <2>2. i \in 0..NewKey
    BY <1>k DEF KeyTypeOK, KeyConstantsOK, NewKey
  <2> QED
    BY <2>1, <2>2 DEF RowType
<1>1. ASSUME NEW c \in AdminCall, Refuse(c) \/ LoseAnswer(c) PROVE KeyTypeOK'
  <2>1. calls' \in [AdminCall -> CallType]
    BY <1>0, <1>1, AnswerType DEF Refuse, LoseAnswer
  <2> QED
    BY <1>1, <2>1 DEF Refuse, LoseAnswer, KeyTypeOK
<1>2. ASSUME NEW c \in AdminCall, Create(c) PROVE KeyTypeOK'
  <2>1. CASE \E l \in Label : InsertApiKey(l, FALSE) /\ CallEnds(c, minted', TRUE)
    <3>1. minted' \in Secret /\ keys' \in Seq(RowType) /\ Len(keys') \in 1..MaxRows
      BY <1>0, <2>1
    <3>2. calls' \in [AdminCall -> CallType]
      BY <1>0, <2>1, <3>1, AnswerType
    <3> QED
      BY <1>2, <3>1, <3>2 DEF Create, KeyTypeOK
  <2>2. CASE UNCHANGED <<keys, minted>> /\ CallEnds(c, None, FALSE)
    <3>1. calls' \in [AdminCall -> CallType]
      BY <1>0, <2>2, AnswerType
    <3> QED
      BY <1>2, <2>2, <3>1 DEF Create, KeyTypeOK
  <2> QED
    BY <1>2, <2>1, <2>2 DEF Create
<1>3. ASSUME NEW c \in AdminCall, Revoke(c) PROVE KeyTypeOK'
  <2>1. calls' \in [AdminCall -> CallType]
    BY <1>0, <1>3, AnswerType DEF Revoke
  <2> QED
    BY <1>3, <2>1, Revoked DEF Revoke, KeyTypeOK
<1>4. ASSUME NEW c \in AdminCall, Classify(c) PROVE KeyTypeOK'
  <2>1. CASE calls' = [calls EXCEPT ![c].step = "classified"]
    <3>1. calls' \in [AdminCall -> CallType]
      BY <2>1 DEF KeyTypeOK, CallType
    <3> QED
      BY <1>4, <3>1 DEF Classify, KeyTypeOK
  <2>2. CASE CallEnds(c, None, FALSE)
    <3>1. calls' \in [AdminCall -> CallType]
      BY <1>0, <2>2, AnswerType
    <3> QED
      BY <1>4, <3>1 DEF Classify, KeyTypeOK
  <2> QED
    BY <1>4, <2>1, <2>2 DEF Classify
<1>5. ASSUME NEW c \in AdminCall, Rename(c) PROVE KeyTypeOK'
  <2>1. calls' \in [AdminCall -> CallType]
    BY <1>0, <1>5, AnswerType DEF Rename
  <2>2. keys' \in Seq(RowType) /\ Len(keys') \in 1..MaxRows
    <3>1. PICK l \in Label :
            keys' = IF Active(calls[c].id) THEN [keys EXCEPT ![calls[c].id].label = l] ELSE keys
      BY <1>5 DEF Rename
    <3>2. CASE Active(calls[c].id)
      BY <1>r, <3>1, <3>2, Changed DEF Active
    <3> QED
      BY <3>1, <3>2 DEF KeyTypeOK
  <2> QED
    BY <1>5, <2>1, <2>2 DEF Rename, KeyTypeOK
<1>6. ASSUME NEW c \in AdminCall, Rotate(c) PROVE KeyTypeOK'
  <2>1. minted' \in Secret
    BY <1>0, <1>6 DEF Rotate
  <2>2. calls' \in [AdminCall -> CallType]
    BY <1>0, <1>6, <2>1, AnswerType DEF Rotate
  <2>3. keys' \in Seq(RowType) /\ Len(keys') \in 1..MaxRows
    <3>1. CASE Active(calls[c].id)
      BY <1>6, <1>r, <2>1, <3>1, Changed DEF Rotate, Active
    <3> QED
      BY <1>6, <3>1 DEF Rotate, KeyTypeOK
  <2> QED
    BY <1>6, <2>1, <2>2, <2>3 DEF Rotate, KeyTypeOK
<1>7. ASSUME NEW c \in AdminCall, Deliver(c) PROVE KeyTypeOK'
  <2>1. calls' \in [AdminCall -> CallType]
    BY <1>7, CallFields DEF Deliver, KeyTypeOK
  <2>2. /\ calls[c].full \in 0..MaxMinted
        /\ \A d \in Dialogs : dialog[d] \in DialogType
    BY DEF KeyTypeOK, CallType
  <2>4. dialog' \in [Dialogs -> DialogType]
    <3>1. PICK d : d = calls[c].op
      OBVIOUS
    <3>2. dialog \in [Dialogs -> DialogType]
      BY DEF KeyTypeOK
    <3>3. ASSUME NEW x, d \in Dialogs => x \in DialogType PROVE [dialog EXCEPT ![d] = x] \in [Dialogs -> DialogType]
      BY <3>2, <3>3
    <3>4. Closed \in DialogType
      BY CallFields
    <3>5. dialog' = dialog \/ \E x : (d \in Dialogs => x \in DialogType) /\ dialog' = [dialog EXCEPT ![d] = x]
      <4>1. CASE ~calls[c].heard
        BY <1>7, <4>1 DEF Deliver
      <4>2. CASE calls[c].heard
        <5>1. dialog' = [dialog EXCEPT ![d] =
                CASE ~calls[c].ok -> [dialog[d] EXCEPT !.submitting = FALSE]
                  [] calls[c].ok /\ d = "revoke" -> Closed
                  [] OTHER -> [dialog[d] EXCEPT !.shown = calls[c].full, !.submitting = FALSE]]
          BY <1>7, <3>1, <4>2 DEF Deliver
        <5>2. CASE ~calls[c].ok
          <6>1. PICK x : x = [dialog[d] EXCEPT !.submitting = FALSE]
            OBVIOUS
          <6>2. ASSUME d \in Dialogs PROVE x \in DialogType
            <7>1. PICK y \in DialogType : y = dialog[d]
              BY <2>2, <6>2
            <7>2. [y EXCEPT !.submitting = FALSE] \in DialogType
              BY DEF DialogType
            <7> QED
              BY <6>1, <7>1, <7>2
          <6> QED
            BY <5>1, <5>2, <6>1, <6>2
        <5>3. CASE calls[c].ok /\ d = "revoke"
          BY <3>4, <5>1, <5>3
        <5>4. CASE calls[c].ok /\ d # "revoke"
          <6>1. PICK x : x = [dialog[d] EXCEPT !.shown = calls[c].full, !.submitting = FALSE]
            OBVIOUS
          <6>2. ASSUME d \in Dialogs PROVE x \in DialogType
            <7>1. PICK y \in DialogType : y = dialog[d]
              BY <2>2, <6>2
            <7>2. [y EXCEPT !.shown = calls[c].full, !.submitting = FALSE] \in DialogType
              BY <2>2 DEF DialogType
            <7> QED
              BY <6>1, <7>1, <7>2
          <6> QED
            BY <5>1, <5>4, <6>1, <6>2
        <5> QED
          BY <5>2, <5>3, <5>4
      <4> QED
        BY <4>1, <4>2
    <3> QED
      BY <3>2, <3>3, <3>5
  <2> QED
    BY <1>7, <2>1, <2>4 DEF Deliver, KeyTypeOK
<1>8. CASE IssueOnHost
  BY <1>0, <1>8 DEF IssueOnHost, KeyTypeOK
<1>9. CASE Elsewhere
  <2>1. PICK i \in DOMAIN keys :
          \/ keys' = [keys EXCEPT ![i].revoked = TRUE] /\ UNCHANGED minted
          \/ \E l \in Label : keys' = [keys EXCEPT ![i].label = l] /\ UNCHANGED minted
          \/ /\ minted < MaxMinted /\ minted' = minted + 1
             /\ keys' = [keys EXCEPT ![i].secret = minted']
    BY <1>9 DEF Elsewhere
  <2>2. minted' \in Secret
    BY <1>0, <2>1 DEF KeyTypeOK
  <2>3. keys' \in Seq(RowType) /\ Len(keys') \in 1..MaxRows
    BY <1>r, <2>1, <2>2, Changed
  <2> QED
    BY <1>9, <2>2, <2>3 DEF Elsewhere, KeyTypeOK
<1>10. ASSUME NEW d \in Dialogs, OpenDialog(d) \/ SubmitDialog(d) \/ DismissDialog(d) PROVE KeyTypeOK'
  <2>1. CASE OpenDialog(d)
    <3>1. PICK t \in 0..NewKey : dialog' = [dialog EXCEPT ![d].target = t]
      BY <1>r, <2>1, CallFields DEF OpenDialog
    <3>2. dialog' \in [Dialogs -> DialogType]
      BY <3>1 DEF KeyTypeOK, DialogType
    <3> QED
      BY <2>1, <3>2 DEF OpenDialog, KeyTypeOK
  <2>2. CASE SubmitDialog(d)
    <3>1. dialog[d].target \in 0..NewKey /\ d \in Ops
      BY DEF KeyTypeOK, DialogType, Ops
    <3>2. calls' \in [AdminCall -> CallType]
      BY <2>2, <3>1, SendType DEF SubmitDialog
    <3>3. dialog' \in [Dialogs -> DialogType]
      BY <2>2 DEF SubmitDialog, KeyTypeOK, DialogType
    <3> QED
      BY <2>2, <3>2, <3>3 DEF SubmitDialog, KeyTypeOK
  <2>3. CASE DismissDialog(d)
    BY <2>3, CallFields DEF DismissDialog, KeyTypeOK
  <2> QED
    BY <1>10, <2>1, <2>2, <2>3
<1>11. CASE SubmitLabel
  <2>1. calls' \in [AdminCall -> CallType]
    BY <1>11, <1>r, SendType DEF SubmitLabel, Ops
  <2> QED
    BY <1>11, <2>1 DEF SubmitLabel, KeyTypeOK
<1>12. CASE LeavePage
  <2>1. calls' \in [AdminCall -> CallType]
    BY <1>12 DEF LeavePage, KeyTypeOK, CallType
  <2> QED
    BY <1>12, <2>1, CallFields DEF LeavePage, KeyTypeOK
<1>13. CASE SignIn
  BY <1>13, <1>r DEF SignIn, KeyTypeOK
<1>14. CASE UNCHANGED keyVars
  BY <1>14 DEF keyVars, KeyTypeOK
<1> QED
  BY <1>1, <1>2, <1>3, <1>4, <1>5, <1>6, <1>7, <1>8, <1>9, <1>10, <1>11, <1>12, <1>13, <1>14 DEF KeyNext

THEOREM KeysTypeCorrect == ASSUME KeyConstantsOK PROVE KeySpec => []KeyTypeOK
<1>1. KeyInit => KeyTypeOK
  BY KeysTypeInit
<1>2. KeyTypeOK /\ [KeyNext]_keyVars => KeyTypeOK'
  BY KeysTypeNext
<1> QED
  BY <1>1, <1>2, PTL DEF KeySpec

(* No statement touches a revoked row, whatever was looked up before.       *)
LEMMA RevokedRowsStay ==
  ASSUME KeyConstantsOK, KeyTypeOK, [KeyNext]_keyVars, NEW i \in DOMAIN keys, keys[i].revoked
  PROVE  i \in DOMAIN keys' /\ keys'[i] = keys[i]
<1>1. ASSUME NEW c \in AdminCall, Create(c) PROVE i \in DOMAIN keys' /\ keys'[i] = keys[i]
  BY <1>1, Added DEF Create
<1>2. CASE IssueOnHost
  BY <1>2, Added DEF IssueOnHost
<1>3. ASSUME NEW c \in AdminCall, Revoke(c) PROVE i \in DOMAIN keys' /\ keys'[i] = keys[i]
  BY <1>3, Revoked
<1>4. ASSUME NEW j \in DOMAIN keys, ~keys[j].revoked, NEW x, keys' = [keys EXCEPT ![j] = x]
      PROVE  i \in DOMAIN keys' /\ keys'[i] = keys[i]
  BY <1>4
<1>5. ASSUME NEW c \in AdminCall, Rename(c) \/ Rotate(c)
      PROVE  i \in DOMAIN keys' /\ keys'[i] = keys[i]
  BY <1>4, <1>5 DEF Rename, Rotate, Active
<1>6. CASE Elsewhere
  BY <1>4, <1>6 DEF Elsewhere, Active
<1>7. CASE UNCHANGED keys
  BY <1>7
<1>8. ASSUME NEW c \in AdminCall, Refuse(c) \/ Classify(c) \/ LoseAnswer(c) \/ Deliver(c)
      PROVE  UNCHANGED keys
  BY <1>8 DEF Refuse, Classify, LoseAnswer, Deliver
<1>9. ASSUME NEW d \in Dialogs, OpenDialog(d) \/ SubmitDialog(d) \/ DismissDialog(d)
      PROVE  UNCHANGED keys
  BY <1>9 DEF OpenDialog, SubmitDialog, DismissDialog
<1>10. CASE SubmitLabel \/ LeavePage \/ SignIn \/ UNCHANGED keyVars
  BY <1>7, <1>10 DEF SubmitLabel, LeavePage, SignIn, keyVars
<1> QED
  BY <1>1, <1>2, <1>3, <1>5, <1>6, <1>7, <1>8, <1>9, <1>10 DEF KeyNext

(* A plaintext enters a call only with the statement that stored it.        *)
LEMMA AnswersAreStored ==
  ASSUME KeyConstantsOK, KeyTypeOK, [KeyNext]_keyVars, NEW c \in AdminCall,
         calls'[c].full # None, calls[c].full = None
  PROVE  \E i \in DOMAIN keys' :
            /\ keys'[i].secret = calls'[c].full /\ ~keys'[i].revoked
            /\ calls[c].op = "rotate" => i = calls[c].id
<1> DEFINE Stored == \E i \in DOMAIN keys' :
                        /\ keys'[i].secret = calls'[c].full /\ ~keys'[i].revoked
                        /\ calls[c].op = "rotate" => i = calls[c].id
<1>0. None \in 0..MaxMinted /\ \A secret \in Secret : secret \in 0..MaxMinted
  BY CallFields DEF Secret, KeyConstantsOK
<1>k. keys \in Rows(Len(keys)) /\ Len(keys) \in Nat /\ DOMAIN keys = 1..Len(keys)
  BY RowsAreAList DEF KeyTypeOK
<1>1. ASSUME NEW d \in AdminCall, NEW ok \in BOOLEAN, CallEnds(d, None, ok) PROVE Stored
  BY <1>0, <1>1, AnswerType
<1>2. ASSUME NEW d \in AdminCall, Create(d) PROVE Stored
  <2>1. CASE CallEnds(d, None, FALSE)
    BY <1>1, <2>1
  <2>2. ASSUME NEW l \in Label, InsertApiKey(l, FALSE), CallEnds(d, minted', TRUE) PROVE Stored
    <3>1. minted' \in Secret /\ Len(keys') \in DOMAIN keys'
          /\ keys'[Len(keys')] = Row(minted', l, FALSE)
      BY <2>2, Added
    <3>2. c = d /\ calls'[c].full = minted'
      BY <1>0, <2>2, <3>1, AnswerType
    <3>3. calls[c].op # "rotate"
      BY <1>2, <3>2 DEF Create
    <3> QED
      BY <3>1, <3>2, <3>3 DEF Row
  <2> QED
    BY <1>2, <2>1, <2>2 DEF Create
<1>3. ASSUME NEW d \in AdminCall, Rotate(d) PROVE Stored
  <2>1. CASE Active(calls[d].id)
    <3>1. calls[d].id \in DOMAIN keys /\ ~keys[calls[d].id].revoked
      BY <2>1 DEF Active
    <3>2. minted' \in Secret
      BY <1>3 DEF Rotate, Secret, KeyTypeOK, KeyConstantsOK
    <3>3. c = d /\ calls'[c].full = minted'
      BY <1>0, <1>3, <2>1, <3>2, AnswerType DEF Rotate
    <3>4. keys' = [keys EXCEPT ![calls[c].id].secret = minted']
      BY <1>3, <2>1, <3>3 DEF Rotate
    <3>5. keys[calls[c].id] \in RowType
      BY <1>k, <3>1, <3>3 DEF Rows
    <3>6. keys'[calls[c].id].secret = minted' /\ ~keys'[calls[c].id].revoked
          /\ calls[c].id \in DOMAIN keys'
      BY <3>1, <3>3, <3>4, <3>5 DEF RowType
    <3> QED
      BY <3>3, <3>6
  <2>2. CASE ~Active(calls[d].id)
    BY <1>1, <1>3, <2>2 DEF Rotate
  <2> QED
    BY <2>1, <2>2
<1>4. ASSUME NEW d \in AdminCall, Refuse(d) \/ LoseAnswer(d) \/ Revoke(d) \/ Rename(d) PROVE Stored
  BY <1>1, <1>4 DEF Refuse, LoseAnswer, Revoke, Rename
<1>5. ASSUME NEW d \in AdminCall, Classify(d) PROVE Stored
  <2>1. CASE calls' = [calls EXCEPT ![d].step = "classified"]
    <3>1. calls[c] \in CallType /\ calls'[c].full = calls[c].full
      BY <2>1 DEF KeyTypeOK, CallType
    <3> QED
      BY <3>1
  <2> QED
    BY <1>1, <1>5, <2>1 DEF Classify
<1>6. ASSUME NEW d \in AdminCall, Deliver(d) PROVE Stored
  BY <1>6, CallFields DEF Deliver, KeyTypeOK
<1>7. ASSUME NEW d \in Dialogs, SubmitDialog(d) PROVE Stored
  <2>1. d \in Ops /\ dialog[d].target \in 0..NewKey
    BY DEF Ops, KeyTypeOK, DialogType
  <2> QED
    BY <1>7, <2>1, SendType DEF SubmitDialog
<1>8. CASE SubmitLabel
  <2>1. \A i \in DOMAIN keys : i \in 0..NewKey
    BY <1>k DEF KeyTypeOK, KeyConstantsOK, NewKey
  <2> QED
    BY <1>8, <2>1, SendType DEF SubmitLabel, Ops
<1>9. CASE LeavePage
  BY <1>9 DEF LeavePage, KeyTypeOK, CallType
<1>10. CASE UNCHANGED calls
  BY <1>10
<1> QED
  BY <1>2, <1>3, <1>4, <1>5, <1>6, <1>7, <1>8, <1>9, <1>10
  DEF KeyNext, IssueOnHost, Elsewhere, OpenDialog, DismissDialog, SignIn, keyVars

(* A key that an answer hands out works when it is handed out, and a        *)
(* revoked key stays as it was: for any number of keys, of calls under way, *)
(* of other processes and pages, and of plaintexts.                         *)
THEOREM KeysStayHonoured == ASSUME KeyConstantsOK PROVE KeySpec => KeysHonoured
<1>1. KeyTypeOK /\ [KeyNext]_keyVars =>
        [\A i \in DOMAIN keys : keys[i].revoked => i \in DOMAIN keys' /\ keys'[i] = keys[i]]_keyVars
  BY RevokedRowsStay
<1>2. KeyTypeOK /\ [KeyNext]_keyVars =>
        [\A c \in AdminCall : calls'[c].full # None /\ calls[c].full = None =>
           \E i \in DOMAIN keys' :
              /\ keys'[i].secret = calls'[c].full /\ ~keys'[i].revoked
              /\ calls[c].op = "rotate" => i = calls[c].id]_keyVars
  BY AnswersAreStored
<1> QED
  BY <1>1, <1>2, KeysTypeCorrect, PTL
  DEF KeySpec, KeysHonoured, RevokedIsFinal, HandedOutAuthenticates
=============================================================================
