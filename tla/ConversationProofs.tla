------------------------- MODULE ConversationProofs -------------------------
(* What goes upstream of a client's conversation and what its readers get   *)
(* of the answer, for any clients' tools, names and contents and histories  *)
(* and answers of any length.                                               *)
(*                                                                          *)
(* Each pass over a history is a join of what it makes of each message:     *)
(* where the parts come to lie in it says which neighbours a turn keeps.    *)
(* So dropping ends paired, because a pass that removes no message leaves   *)
(* all tool calls paired, and each of the others makes the history shorter; *)
(* stripping leaves every result its use; placeholders answer every use     *)
(* left.  Turns stay fit to be sent through all of it, the cache            *)
(* breakpoints are at most four, and the tools' names come back.            *)
(*                                                                          *)
(* What an answer's readers have grows with every event as the blocks do:   *)
(* the chunks tell all that the blocks have said (Told), the dashboard has  *)
(* the blocks themselves (Has), and the reason and the usage come last      *)
(* (EndTold).  Proofs of the properties of ToolPairRepair, Conversation and *)
(* Answers.                                                                 *)
EXTENDS Conversation, Answers,
        FiniteSetTheorems, SequenceTheorems, WellFoundedInduction, TLAPS

(* Induction over the natural numbers, by a set.                            *)
LEMMA SetInduction ==
  ASSUME NEW T, 0 \in T, \A n \in Nat : n \in T => n + 1 \in T
  PROVE  Nat \subseteq T
<1> DEFINE Less == {ss \in Nat \X Nat : ss[1] < ss[2]}
<1>1. IsWellFoundedOn(Less, Nat)
  BY NatLessThanWellFounded, Zenon DEF OpToRel
<1> SUFFICES ASSUME Nat \ T # {} PROVE FALSE
  OBVIOUS
<1>2. PICK i \in Nat \ T : \A j \in Nat \ T : ~(<<j, i>> \in Less)
  <2>1. Nat \ T \subseteq Nat
    OBVIOUS
  <2> QED
    BY <1>1, <2>1, WFMin
<1>3. i # 0 /\ i - 1 \in Nat /\ i - 1 < i
  BY <1>2
<1>4. i - 1 \in T
  <2>1. <<i - 1, i>> \in Nat \X Nat /\ <<i - 1, i>>[1] = i - 1 /\ <<i - 1, i>>[2] = i
    BY <1>3
  <2> QED
    BY <1>2, <1>3, <2>1
<1> QED
  BY <1>2, <1>3, <1>4

----------------------------------------------------------------------------
(* Sequences of sequences.  f joins the first of seqs, place by place.      *)
Joins(f, seqs) ==
    \A i \in 1..Len(seqs) : f[i] = IF i = 1 THEN seqs[i] ELSE f[i - 1] \o seqs[i]

(* Flattening joins one sequence after the other.                           *)
LEMMA JoinedInTurn ==
  ASSUME NEW seqs, Len(seqs) \in Nat \ {0}
  PROVE  \E f : Joins(f, seqs) /\ FlattenSeq(seqs) = f[Len(seqs)]
<1> DEFINE N == Len(seqs)
           Rule(f, i) == IF i = 1 THEN seqs[i] ELSE f[i - 1] \o seqs[i]
           Good(m, f) == f = [i \in 1..m |-> f[i]] /\ \A i \in 1..m : f[i] = Rule(f, i)
           T == {m \in Nat : \E f : Good(m, f)}
<1>1. 0 \in T
  <2> DEFINE g == [i \in 1..0 |-> seqs[i]]
  <2>1. Good(0, g)
    OBVIOUS
  <2> QED
    BY <2>1
<1>2. ASSUME NEW m \in Nat, m \in T PROVE m + 1 \in T
  <2>1. PICK f : Good(m, f)
    BY <1>2
  <2> DEFINE last == Rule(f, m + 1)
             g == [i \in 1..m + 1 |-> IF i <= m THEN f[i] ELSE last]
  <2>2. g = [i \in 1..m + 1 |-> g[i]]
    OBVIOUS
  <2>3. \A i \in 1..m + 1 : g[i] = IF i <= m THEN f[i] ELSE last
    OBVIOUS
  <2> HIDE DEF g
  <2>4. ASSUME NEW i \in 1..m + 1 PROVE g[i] = Rule(g, i)
    <3>1. CASE i = 1
      <4>1. CASE m = 0
        <5>1. g[i] = last
          BY <2>3, <3>1, <4>1
        <5> QED
          BY <3>1, <4>1, <5>1
      <4>2. CASE m # 0
        <5>1. 1 \in 1..m /\ g[1] = f[1]
          BY <2>3, <4>2
        <5>2. f[1] = Rule(f, 1)
          BY <2>1, <5>1
        <5> QED
          BY <3>1, <5>1, <5>2
      <4> QED
        BY <4>1, <4>2
    <3>2. CASE i # 1
      <4>1. i - 1 \in 1..m /\ g[i - 1] = f[i - 1]
        BY <2>3, <3>2
      <4>2. Rule(g, i) = Rule(f, i)
        BY <4>1
      <4>3. CASE i <= m
        <5>1. i \in 1..m /\ g[i] = f[i]
          BY <2>3, <4>3
        <5>2. f[i] = Rule(f, i)
          BY <2>1, <5>1
        <5> QED
          BY <4>2, <5>1, <5>2
      <4>4. CASE i = m + 1
        BY <2>3, <4>2, <4>4
      <4> QED
        BY <4>3, <4>4
    <3> QED
      BY <3>1, <3>2
  <2>5. Good(m + 1, g)
    BY <2>2, <2>4
  <2> HIDE DEF Good
  <2> QED
    BY <2>5
<1>3. N \in T
  <2> HIDE DEF T
  <2> QED
    BY <1>1, <1>2, SetInduction
<1>4. PICK f : Good(N, f)
  BY <1>3
<1> DEFINE Computes(h) ==
       h = [i \in 1..Len(seqs) |-> IF i = 1 THEN seqs[i] ELSE h[i - 1] \o seqs[i]]
           c == CHOOSE h : Computes(h)
           value(i) == IF i = 1 THEN seqs[i] ELSE f[i - 1] \o seqs[i]
<1>5. Computes(f)
  <2>1. f = [i \in 1..Len(seqs) |-> f[i]] /\ \A i \in 1..Len(seqs) : f[i] = value(i)
    BY <1>4
  <2> HIDE DEF value
  <2>2. f = [i \in 1..Len(seqs) |-> value(i)]
    BY <2>1
  <2> QED
    BY <2>2 DEF value
<1>6. Computes(c)
  BY <1>5
<1>7. FlattenSeq(seqs) = c[Len(seqs)]
  BY DEF FlattenSeq
<1> HIDE DEF c
<1> DEFINE step(i) == IF i = 1 THEN seqs[i] ELSE c[i - 1] \o seqs[i]
<1>8. \A i \in 1..Len(seqs) : c[i] = step(i)
  <2>1. c = [i \in 1..Len(seqs) |-> step(i)]
    BY <1>6
  <2> HIDE DEF step
  <2> QED
    BY <2>1
<1> QED
  BY <1>7, <1>8 DEF Joins

(* t is the first m of seqs, each from the place after off[i - 1].          *)
Flattens(t, seqs, m, off) ==
    /\ off[0] = 0 /\ \A i \in 0..m : off[i] \in Nat
    /\ \A i \in 1..m : off[i] = off[i - 1] + Len(seqs[i])
    /\ Len(t) = off[m]
    /\ \A i \in 1..m : \A j \in 1..Len(seqs[i]) :
         off[i - 1] + j \in 1..Len(t) /\ t[off[i - 1] + j] = seqs[i][j]
    /\ \A k \in 1..Len(t) : \E i \in 1..m : \E j \in 1..Len(seqs[i]) : k = off[i - 1] + j

(* The first of the sequences, and one more of them.                        *)
LEMMA FlattensOne ==
  ASSUME NEW S, NEW seqs, seqs[1] \in Seq(S)
  PROVE  \E off : Flattens(seqs[1], seqs, 1, off)
<1> DEFINE off == [i \in 0..1 |-> IF i = 0 THEN 0 ELSE Len(seqs[1])]
<1>1. off[0] = 0 /\ off[1] = Len(seqs[1]) /\ Len(seqs[1]) \in Nat
  OBVIOUS
<1>2. 1..1 = {1} /\ 0..1 = {0, 1} /\ 1 - 1 = 0
  OBVIOUS
<1> HIDE DEF off
<1>3. Flattens(seqs[1], seqs, 1, off)
  BY <1>1, <1>2 DEF Flattens
<1> QED
  BY <1>3

(* Where a sequence of l elements lies behind a others.                     *)
LEMMA Shifted ==
  ASSUME NEW a \in Nat, NEW l \in Nat, NEW j \in 1..l
  PROVE  a + j \in 1..a + l /\ ~(a + j <= a) /\ (a + j) - a = j
  OBVIOUS

LEMMA FlattensMore ==
  ASSUME NEW S, NEW seqs, NEW m \in Nat \ {0}, NEW last \in Seq(S), last = seqs[m + 1],
         NEW t \in Seq(S), NEW old, Flattens(t, seqs, m, old)
  PROVE  \E off : Flattens(t \o last, seqs, m + 1, off)
<1> DEFINE off == [i \in 0..m + 1 |-> IF i <= m THEN old[i] ELSE old[m] + Len(last)]
           u == t \o last
<1>1. m \in 0..m /\ old[m] \in Nat /\ Len(t) = old[m] /\ Len(last) \in Nat
  BY DEF Flattens
<1>2. /\ Len(u) = old[m] + Len(last)
      /\ \A j \in 1..old[m] : u[j] = t[j]
      /\ \A j \in 1..Len(last) : u[old[m] + j] = last[j]
  <2>1. /\ Len(u) = Len(t) + Len(last)
        /\ \A i \in 1..Len(t) + Len(last) : u[i] = IF i <= Len(t) THEN t[i] ELSE last[i - Len(t)]
    BY ConcatProperties
  <2> HIDE DEF u
  <2>2. ASSUME NEW j \in 1..old[m] PROVE u[j] = t[j]
    BY <1>1, <2>1
  <2>3. ASSUME NEW j \in 1..Len(last) PROVE u[old[m] + j] = last[j]
    <3>1. old[m] + j \in 1..old[m] + Len(last) /\ ~(old[m] + j <= old[m]) /\ (old[m] + j) - old[m] = j
      BY <1>1, Shifted
    <3> QED
      BY <1>1, <2>1, <3>1
  <2> QED
    BY <1>1, <2>1, <2>2, <2>3
<1>3. (\A i \in 0..m : off[i] = old[i]) /\ off[m + 1] = old[m] + Len(last)
  OBVIOUS
<1> HIDE DEF off, u
<1>4. \A i \in 1..m : i \in 0..m /\ i - 1 \in 0..m /\ off[i] = old[i] /\ off[i - 1] = old[i - 1]
  BY <1>3
<1>5. off[0] = 0 /\ \A i \in 0..m + 1 : off[i] \in Nat
  <2>1. 0 \in 0..m /\ old[0] = 0 /\ \A i \in 0..m : old[i] \in Nat
    BY DEF Flattens
  <2> QED
    BY <1>1, <1>3, <2>1
<1>6. ASSUME NEW i \in 1..m + 1 PROVE off[i] = off[i - 1] + Len(seqs[i])
  <2>1. CASE i \in 1..m
    <3>1. old[i] = old[i - 1] + Len(seqs[i])
      BY <2>1 DEF Flattens
    <3> QED
      BY <1>4, <2>1, <3>1
  <2>2. CASE i = m + 1
    BY <1>1, <1>3, <2>2
  <2> QED
    BY <2>1, <2>2
<1>7. ASSUME NEW i \in 1..m + 1, NEW j \in 1..Len(seqs[i])
      PROVE  off[i - 1] + j \in 1..Len(u) /\ u[off[i - 1] + j] = seqs[i][j]
  <2>1. CASE i \in 1..m
    <3>1. old[i - 1] + j \in 1..old[m] /\ t[old[i - 1] + j] = seqs[i][j]
      BY <1>1, <2>1 DEF Flattens
    <3>2. off[i - 1] = old[i - 1]
      BY <1>4, <2>1
    <3> QED
      BY <1>1, <1>2, <3>1, <3>2, SMTT(30)
  <2>2. CASE i = m + 1
    <3>1. seqs[i] = last /\ off[i - 1] = old[m] /\ j \in 1..Len(last)
      BY <1>1, <1>3, <2>2
    <3>2. old[m] + j \in 1..old[m] + Len(last)
      BY <1>1, <3>1, Shifted
    <3>3. u[old[m] + j] = last[j]
      BY <1>2, <3>1
    <3> QED
      BY <1>2, <3>1, <3>2, <3>3
  <2> QED
    BY <2>1, <2>2
<1>8. ASSUME NEW k \in 1..Len(u)
      PROVE  \E i \in 1..m + 1 : \E j \in 1..Len(seqs[i]) : k = off[i - 1] + j
  <2>1. CASE k \in 1..old[m]
    <3>1. PICK i \in 1..m : \E j \in 1..Len(seqs[i]) : k = old[i - 1] + j
      BY <1>1, <2>1 DEF Flattens
    <3>2. off[i - 1] = old[i - 1] /\ i \in 1..m + 1
      BY <1>4
    <3> QED
      BY <3>1, <3>2
  <2>2. CASE k > old[m]
    <3>1. k - old[m] \in 1..Len(last) /\ off[m] = old[m]
      BY <1>1, <1>2, <1>3, <2>2
    <3>2. m + 1 \in 1..m + 1 /\ (m + 1) - 1 = m /\ k = off[m] + (k - old[m])
      BY <1>1, <1>2, <3>1
    <3> QED
      BY <3>1, <3>2
  <2> QED
    BY <1>1, <1>2, <2>1, <2>2
<1>9. Flattens(u, seqs, m + 1, off)
  <2>1. Len(u) = off[m + 1]
    BY <1>2, <1>3
  <2> QED
    BY <1>5, <1>6, <1>7, <1>8, <2>1 DEF Flattens
<1> QED
  BY <1>9 DEF u

(* What flattening a sequence of sequences gives.                           *)
LEMMA Flattened ==
  ASSUME NEW S, NEW seqs \in Seq(Seq(S))
  PROVE  FlattenSeq(seqs) \in Seq(S) /\ \E off : Flattens(FlattenSeq(seqs), seqs, Len(seqs), off)
<1>1. Len(seqs) \in Nat /\ \A i \in 1..Len(seqs) : seqs[i] \in Seq(S)
  OBVIOUS
<1>2. CASE Len(seqs) = 0
  <2>1. FlattenSeq(seqs) = <<>> /\ seqs = <<>>
    BY <1>2 DEF FlattenSeq
  <2>2. [i \in 0..0 |-> 0][0] = 0 /\ Len(<<>>) = 0 /\ 1..0 = {} /\ 0..0 = {0}
    OBVIOUS
  <2>3. Flattens(<<>>, <<>>, 0, [i \in 0..0 |-> 0])
    BY <2>2 DEF Flattens
  <2> QED
    BY <2>1, <2>2, <2>3
<1>3. CASE Len(seqs) # 0
  <2>1. PICK f : Joins(f, seqs) /\ FlattenSeq(seqs) = f[Len(seqs)]
    BY <1>1, <1>3, JoinedInTurn
  <2> DEFINE T == {m \in Nat : m # 0 /\ m <= Len(seqs) =>
                      f[m] \in Seq(S) /\ \E off : Flattens(f[m], seqs, m, off)}
  <2>2. 0 \in T
    OBVIOUS
  <2>3. ASSUME NEW m \in Nat, m \in T PROVE m + 1 \in T
    <3>1. CASE m = 0 /\ m + 1 <= Len(seqs)
      <4>1. 1 \in 1..Len(seqs) /\ m + 1 = 1
        BY <1>1, <3>1
      <4>2. f[1] = seqs[1] /\ seqs[1] \in Seq(S)
        BY <1>1, <2>1, <4>1 DEF Joins
      <4>3. \E off : Flattens(f[1], seqs, 1, off)
        BY <4>2, FlattensOne
      <4> QED
        BY <3>1, <4>1, <4>2, <4>3
    <3>2. CASE m # 0 /\ m + 1 <= Len(seqs)
      <4>1. m + 1 \in 1..Len(seqs) /\ m + 1 # 1 /\ (m + 1) - 1 = m /\ m <= Len(seqs)
        BY <1>1, <3>2
      <4>2. f[m + 1] = f[m] \o seqs[m + 1] /\ seqs[m + 1] \in Seq(S)
        BY <1>1, <2>1, <4>1 DEF Joins
      <4>3. f[m] \in Seq(S) /\ \E old : Flattens(f[m], seqs, m, old)
        BY <2>3, <3>2, <4>1
      <4>4. PICK old : Flattens(f[m], seqs, m, old)
        BY <4>3
      <4>5. f[m + 1] \in Seq(S) /\ \E off : Flattens(f[m + 1], seqs, m + 1, off)
        <5> DEFINE last == seqs[m + 1]
        <5>1. last \in Seq(S) /\ last = seqs[m + 1] /\ m \in Nat \ {0}
          BY <3>2, <4>2
        <5> HIDE DEF last
        <5>2. \E off : Flattens(f[m] \o last, seqs, m + 1, off)
          BY <4>3, <4>4, <5>1, FlattensMore
        <5>3. f[m] \o last \in Seq(S)
          BY <4>3, <5>1, ConcatProperties
        <5> QED
          BY <4>2, <5>1, <5>2, <5>3
      <4> QED
        BY <4>5
    <3> QED
      BY <3>1, <3>2
  <2>4. Len(seqs) \in T
    <3> HIDE DEF T
    <3> QED
      BY <1>1, <2>2, <2>3, SetInduction
  <2> QED
    BY <1>1, <1>3, <2>1, <2>4
<1> QED
  BY <1>1, <1>2, <1>3

----------------------------------------------------------------------------
(* Where the parts of a join lie.                                           *)

(* Offsets do not fall, grow by one where every sequence has one element,   *)
(* and by no more than one where none has two.                              *)
LEMMA OffsetsGrow ==
  ASSUME NEW t, NEW seqs, NEW n \in Nat, NEW off, Flattens(t, seqs, n, off),
         \A i \in 1..n : Len(seqs[i]) \in Nat,
         NEW i \in 0..n, NEW j \in 0..n, i <= j
  PROVE  off[i] <= off[j]
<1> DEFINE T == {d \in Nat : i + d <= n => off[i] <= off[i + d]}
<1>1. 0 \in T
  <2>1. i + 0 = i /\ off[i] \in Nat
    BY DEF Flattens
  <2> QED
    BY <2>1
<1>2. ASSUME NEW d \in Nat, d \in T PROVE d + 1 \in T
  <2> SUFFICES ASSUME i + (d + 1) <= n PROVE off[i] <= off[i + (d + 1)]
    OBVIOUS
  <2>1. i + (d + 1) \in 1..n /\ (i + (d + 1)) - 1 = i + d /\ i + d \in 0..n /\ i + d <= n
    OBVIOUS
  <2>2. /\ off[i + (d + 1)] = off[i + d] + Len(seqs[i + (d + 1)])
        /\ off[i] \in Nat /\ off[i + d] \in Nat /\ Len(seqs[i + (d + 1)]) \in Nat
    BY <2>1 DEF Flattens
  <2>3. off[i] <= off[i + d]
    BY <1>2, <2>1
  <2> QED
    BY <2>2, <2>3
<1>3. j - i \in T
  <2> HIDE DEF T
  <2>1. j - i \in Nat
    OBVIOUS
  <2> QED
    BY <1>1, <1>2, <2>1, SetInduction
<1>4. i + (j - i) = j
  OBVIOUS
<1> QED
  BY <1>3, <1>4

LEMMA OneMoreAtMost ==
  ASSUME NEW a \in Nat, NEW b \in Nat, NEW d \in Nat, NEW l \in {0, 1}, b <= a + d
  PROVE  b + l <= a + (d + 1)
  OBVIOUS

LEMMA OffsetsThin ==
  ASSUME NEW t, NEW seqs, NEW n \in Nat, NEW off, Flattens(t, seqs, n, off),
         \A i \in 1..n : Len(seqs[i]) \in {0, 1},
         NEW i \in 0..n, NEW j \in 0..n, i <= j
  PROVE  off[j] <= off[i] + (j - i)
<1> DEFINE T == {d \in Nat : i + d <= n => off[i + d] <= off[i] + d}
<1>1. 0 \in T
  <2>1. i + 0 = i /\ off[i] \in Nat
    BY DEF Flattens
  <2> QED
    BY <2>1
<1>2. ASSUME NEW d \in Nat, d \in T PROVE d + 1 \in T
  <2> SUFFICES ASSUME i + (d + 1) <= n PROVE off[i + (d + 1)] <= off[i] + (d + 1)
    OBVIOUS
  <2>1. i + (d + 1) \in 1..n /\ (i + (d + 1)) - 1 = i + d /\ i + d \in 0..n /\ i + d <= n
    OBVIOUS
  <2>2. /\ off[i + (d + 1)] = off[i + d] + Len(seqs[i + (d + 1)])
        /\ off[i] \in Nat /\ off[i + d] \in Nat /\ Len(seqs[i + (d + 1)]) \in {0, 1}
    BY <2>1 DEF Flattens
  <2>3. off[i + d] <= off[i] + d
    BY <1>2, <2>1
  <2> QED
    BY <2>2, <2>3, OneMoreAtMost
<1>3. j - i \in T
  <2> HIDE DEF T
  <2>1. j - i \in Nat
    OBVIOUS
  <2> QED
    BY <1>1, <1>2, <2>1, SetInduction
<1>4. i + (j - i) = j
  OBVIOUS
<1> QED
  BY <1>3, <1>4

OneEach(seqs, n) == \A i \in 1..n : Len(seqs[i]) = 1

(* Where every sequence has one element, the i-th lies at i.                *)
LEMMA OffsetsAll ==
  ASSUME NEW t, NEW seqs, NEW n \in Nat, NEW off, Flattens(t, seqs, n, off),
         OneEach(seqs, n), NEW k \in 0..n
  PROVE  off[k] = k
<1> DEFINE T == {d \in Nat : d <= n => off[d] = d}
<1>1. 0 \in T
  BY DEF Flattens
<1>2. ASSUME NEW d \in Nat, d \in T PROVE d + 1 \in T
  <2> SUFFICES ASSUME d + 1 <= n PROVE off[d + 1] = d + 1
    OBVIOUS
  <2>1. d + 1 \in 1..n /\ (d + 1) - 1 = d /\ d <= n
    OBVIOUS
  <2>2. off[d + 1] = off[d] + Len(seqs[d + 1])
    BY <2>1 DEF Flattens
  <2> QED
    BY <1>2, <2>1, <2>2 DEF OneEach
<1>3. Nat \subseteq T
  <2> HIDE DEF T
  <2> QED
    BY <1>1, <1>2, SetInduction
<1> QED
  BY <1>3

(* Where every sequence has one element, flattening gives those.            *)
FirstOfEach(t, seqs, n) == Len(t) = n /\ \A i \in 1..n : t[i] = seqs[i][1]

LEMMA AllKept ==
  ASSUME NEW t, NEW seqs, NEW n \in Nat, NEW off, Flattens(t, seqs, n, off), OneEach(seqs, n)
  PROVE  FirstOfEach(t, seqs, n)
<1>1. \A i \in 0..n : off[i] = i
  BY OffsetsAll
<1>2. Len(t) = n
  BY <1>1 DEF Flattens
<1>3. ASSUME NEW i \in 1..n PROVE t[i] = seqs[i][1]
  <2>1. i - 1 \in 0..n /\ (i - 1) + 1 = i /\ Len(seqs[i]) = 1
    BY DEF OneEach
  <2>2. 1 \in 1..Len(seqs[i]) /\ off[i - 1] + 1 = i
    BY <1>1, <2>1
  <2> QED
    BY <2>2 DEF Flattens
<1> QED
  BY <1>2, <1>3 DEF FirstOfEach

(* What Only keeps: those elements, in their order, and everything if they  *)
(* are all good.                                                            *)
InOrder(s, t) ==
    \A k \in 1..Len(t) : \A j \in 1..(k - 1) :
      \E p \in 1..Len(s) : \E q \in 1..Len(s) : p < q /\ s[p] = t[j] /\ s[q] = t[k]

(* Sequences are what they have at their places.                            *)
LEMMA SameSeq ==
  ASSUME NEW B, NEW s \in Seq(B), NEW t \in Seq(B), Len(s) = Len(t),
         \A i \in 1..Len(s) : t[i] = s[i]
  PROVE  t = s
  OBVIOUS

(* The elements of a sequence.                                              *)
LEMMA InToSet ==
  ASSUME NEW B, NEW s \in Seq(B)
  PROVE  /\ \A x : x \in ToSet(s) <=> \E i \in 1..Len(s) : x = s[i]
         /\ ToSet(s) \subseteq B /\ (s = <<>> <=> ToSet(s) = {})
         /\ Len(s) \in Nat /\ DOMAIN s = 1..Len(s)
  BY DEF ToSet

LEMMA OneLong == ASSUME NEW x PROVE Len(<<x>>) = 1 /\ <<x>>[1] = x
  OBVIOUS

LEMMA InOneOrNone == ASSUME NEW l, NEW j \in 1..l PROVE (l = 1 => j = 1) /\ l # 0
  OBVIOUS

LEMMA NotBefore ==
  ASSUME NEW a \in Nat, NEW b \in Nat, b <= a PROVE ~(a + 1 < b + 1)
  OBVIOUS

(* Only leaves the good ones.                                               *)
LEMMA OnlyKeeps ==
  ASSUME NEW B, NEW s \in Seq(B), NEW good
  PROVE  /\ Only(s, good) \in Seq(B)
         /\ ToSet(Only(s, good)) = ToSet(s) \cap good
         /\ ToSet(s) \subseteq good => Only(s, good) = s
         /\ InOrder(s, Only(s, good))
<1> DEFINE seqs == [i \in 1..Len(s) |-> IF s[i] \in good THEN <<s[i]>> ELSE <<>>]
           t == Only(s, good)
<1>0. PICK n \in Nat : n = Len(s)
  OBVIOUS
<1>1. n \in Nat /\ \A i \in 1..n : s[i] \in B
  BY <1>0
<1>2. seqs \in Seq(Seq(B)) /\ Len(seqs) = n
  <2>1. \A i \in 1..n : (IF s[i] \in good THEN <<s[i]>> ELSE <<>>) \in Seq(B)
    BY <1>1
  <2> QED
    BY <1>0, <1>1, <2>1
<1>3. \A i \in 1..n : seqs[i] = IF s[i] \in good THEN <<s[i]>> ELSE <<>>
  BY <1>0
<1>4. t = FlattenSeq(seqs)
  BY DEF Only
<1> HIDE DEF seqs, t
<1>5. \A i \in 1..n : /\ s[i] \in good => Len(seqs[i]) = 1 /\ seqs[i][1] = s[i]
                      /\ s[i] \notin good => Len(seqs[i]) = 0
  BY <1>3, OneLong
<1>6. t \in Seq(B)
  BY <1>2, <1>4, Flattened
<1>7. PICK off : Flattens(t, seqs, n, off)
  BY <1>2, <1>4, Flattened
<1>8. \A i \in 1..n : Len(seqs[i]) \in {0, 1}
  BY <1>5
<1>9. Len(t) \in Nat /\ DOMAIN t = 1..Len(t) /\ DOMAIN s = 1..n
  BY <1>0, <1>6
<1>10. ASSUME NEW k \in 1..Len(t)
       PROVE  \E i \in 1..n : s[i] \in good /\ k = off[i - 1] + 1 /\ t[k] = s[i]
  <2>1. PICK i \in 1..n : \E j \in 1..Len(seqs[i]) : k = off[i - 1] + j
    BY <1>7 DEF Flattens
  <2>2. PICK j \in 1..Len(seqs[i]) : k = off[i - 1] + j
    BY <2>1
  <2>3. s[i] \in good /\ j = 1 /\ seqs[i][1] = s[i]
    BY <1>5, <2>2, InOneOrNone
  <2>4. t[off[i - 1] + j] = seqs[i][j]
    BY <1>7 DEF Flattens
  <2> QED
    BY <2>2, <2>3, <2>4
<1>11. ASSUME NEW i \in 1..n, s[i] \in good
       PROVE  off[i - 1] + 1 \in 1..Len(t) /\ t[off[i - 1] + 1] = s[i]
  <2>1. 1 \in 1..Len(seqs[i]) /\ seqs[i][1] = s[i]
    BY <1>5, <1>11
  <2> QED
    BY <1>7, <2>1 DEF Flattens
<1>12. ToSet(t) = ToSet(s) \cap good
  <2>1. ASSUME NEW x, x \in ToSet(t) PROVE x \in ToSet(s) \cap good
    <3>1. PICK k \in 1..Len(t) : x = t[k]
      BY <1>6, <2>1, InToSet
    <3>2. PICK i \in 1..n : s[i] \in good /\ t[k] = s[i]
      BY <1>10
    <3> QED
      BY <1>0, <3>1, <3>2, InToSet
  <2>2. ASSUME NEW x, x \in ToSet(s) \cap good PROVE x \in ToSet(t)
    <3>1. PICK i \in 1..n : x = s[i]
      BY <1>0, <2>2, InToSet
    <3>2. off[i - 1] + 1 \in 1..Len(t) /\ t[off[i - 1] + 1] = x
      BY <1>11, <2>2, <3>1
    <3> QED
      BY <1>6, <3>2, InToSet
  <2> QED
    BY <2>1, <2>2
<1>13. ASSUME ToSet(s) \subseteq good PROVE t = s
  <2>1. \A i \in 1..n : s[i] \in good
    BY <1>0, <1>13, InToSet
  <2>2. OneEach(seqs, n)
    BY <1>5, <2>1 DEF OneEach
  <2>3. FirstOfEach(t, seqs, n)
    BY <1>7, <2>2, AllKept
  <2>4. Len(t) = n /\ \A i \in 1..n : t[i] = s[i]
    BY <1>5, <2>1, <2>3 DEF FirstOfEach
  <2> QED
    BY <1>0, <1>6, <2>4, SameSeq
<1>14. InOrder(s, t)
  <2>1. ASSUME NEW k \in 1..Len(t), NEW j \in 1..(k - 1)
        PROVE  \E p \in 1..n : \E q \in 1..n : p < q /\ s[p] = t[j] /\ s[q] = t[k]
    <3>1. j \in 1..Len(t) /\ j < k
      BY <1>9
    <3>2. PICK p \in 1..n : j = off[p - 1] + 1 /\ t[j] = s[p]
      BY <1>10, <3>1
    <3>3. PICK q \in 1..n : k = off[q - 1] + 1 /\ t[k] = s[q]
      BY <1>10
    <3>4. p - 1 \in 0..n /\ q - 1 \in 0..n /\ off[p - 1] \in Nat /\ off[q - 1] \in Nat
      <4>1. p - 1 \in 0..n /\ q - 1 \in 0..n
        BY <1>1
      <4> QED
        BY <1>7, <4>1 DEF Flattens
    <3>5. ASSUME q <= p PROVE FALSE
      <4>1. q - 1 <= p - 1 /\ \A i \in 1..n : Len(seqs[i]) \in Nat
        BY <1>1, <1>8, <3>5
      <4>2. off[q - 1] <= off[p - 1]
        BY <1>1, <1>7, <3>4, <4>1, OffsetsGrow
      <4> QED
        BY <3>1, <3>2, <3>3, <3>4, <4>2, NotBefore
    <3>6. p < q
      BY <1>1, <3>5
    <3> QED
      BY <3>2, <3>3, <3>6
  <2> QED
    BY <1>0, <2>1 DEF InOrder
<1> QED
  BY <1>6, <1>12, <1>13, <1>14 DEF t

(* A sequence that gives nothing shortens what flattening gives.            *)
Thin(seqs, n) == \A i \in 1..n : Len(seqs[i]) \in {0, 1}

LEMMA ThinShrinks ==
  ASSUME NEW t, NEW seqs, NEW n \in Nat, NEW off, Flattens(t, seqs, n, off), Thin(seqs, n),
         NEW i \in 1..n, Len(seqs[i]) = 0
  PROVE  Len(t) \in Nat /\ Len(t) < n
<1>1. i - 1 \in 0..n /\ i \in 0..n /\ 0 \in 0..n /\ n \in 0..n /\ i <= n /\ 0 <= i - 1
  OBVIOUS
<1>2. off[0] = 0 /\ off[i - 1] \in Nat /\ off[i] \in Nat /\ off[n] \in Nat /\ Len(t) = off[n]
  BY <1>1 DEF Flattens
<1>3. off[i] = off[i - 1] + 0
  BY DEF Flattens
<1>4. off[i - 1] <= off[0] + ((i - 1) - 0)
  BY <1>1, OffsetsThin DEF Thin
<1>5. off[n] <= off[i] + (n - i)
  BY <1>1, OffsetsThin DEF Thin
<1> QED
  BY <1>2, <1>3, <1>4, <1>5

(* k is the place of the j-th element of the i-th sequence, and what comes  *)
(* before and after it there comes before and after it in t.                *)
PlacedAt(t, seqs, n, k, i, j) ==
    /\ j \in 1..Len(seqs[i]) /\ t[k] = seqs[i][j]
    /\ j < Len(seqs[i]) => k < Len(t) /\ t[k + 1] = seqs[i][j + 1]
    /\ j = Len(seqs[i]) /\ i < n /\ 1 \in 1..Len(seqs[i + 1]) =>
         k < Len(t) /\ t[k + 1] = seqs[i + 1][1]
    /\ j > 1 => k > 1 /\ t[k - 1] = seqs[i][j - 1]
    /\ j = 1 /\ i > 1 /\ 1 \in 1..Len(seqs[i - 1]) =>
         k > 1 /\ t[k - 1] = seqs[i - 1][Len(seqs[i - 1])]

(* Every element of what flattening gives has such a place.                 *)
LEMMA PlaceOf ==
  ASSUME NEW t, NEW seqs, NEW n \in Nat, NEW off, Flattens(t, seqs, n, off),
         \A i \in 1..n : Len(seqs[i]) \in Nat, NEW k \in 1..Len(t)
  PROVE  \E i \in 1..n : \E j \in Nat : PlacedAt(t, seqs, n, k, i, j)
<1>1. \A i \in 1..n : \A j \in 1..Len(seqs[i]) :
        off[i - 1] + j \in 1..Len(t) /\ t[off[i - 1] + j] = seqs[i][j]
  BY DEF Flattens
<1>2. n \in 0..n /\ Len(t) \in Nat
  BY DEF Flattens
<1>3. PICK i \in 1..n : \E j \in 1..Len(seqs[i]) : k = off[i - 1] + j
  BY DEF Flattens
<1>4. PICK j \in 1..Len(seqs[i]) : k = off[i - 1] + j
  BY <1>3
<1>5. PICK o \in Nat : o = off[i - 1]
  <2>1. i - 1 \in 0..n
    OBVIOUS
  <2> QED
    BY <2>1 DEF Flattens
<1>6. PICK l \in Nat : l = Len(seqs[i])
  OBVIOUS
<1>7. j \in 1..l /\ j \in Nat /\ k = o + j /\ t[k] = seqs[i][j]
  BY <1>1, <1>4, <1>5, <1>6, SMTT(30)
<1>8. ASSUME j < l PROVE k < Len(t) /\ t[k + 1] = seqs[i][j + 1]
  <2>1. j + 1 \in 1..l /\ k + 1 = o + (j + 1)
    BY <1>7, <1>8
  <2>2. k + 1 \in 1..Len(t) /\ t[k + 1] = seqs[i][j + 1]
    BY <1>1, <1>5, <1>6, <2>1, SMTT(30)
  <2> QED
    BY <1>2, <2>2
<1>9. ASSUME j = l, i < n, 1 \in 1..Len(seqs[i + 1])
      PROVE  k < Len(t) /\ t[k + 1] = seqs[i + 1][1]
  <2>1. i + 1 \in 1..n /\ (i + 1) - 1 = i
    BY <1>9
  <2>2. off[i] = off[i - 1] + Len(seqs[i])
    BY DEF Flattens
  <2>3. off[i] = k
    BY <1>5, <1>6, <1>7, <1>9, <2>2
  <2>4. k + 1 \in 1..Len(t) /\ t[k + 1] = seqs[i + 1][1]
    BY <1>1, <1>9, <2>1, <2>3
  <2> QED
    BY <1>2, <2>4
<1>10. ASSUME j > 1 PROVE k > 1 /\ t[k - 1] = seqs[i][j - 1]
  <2>1. j - 1 \in 1..l /\ k - 1 = o + (j - 1)
    BY <1>7, <1>10
  <2>2. k - 1 \in 1..Len(t) /\ t[k - 1] = seqs[i][j - 1]
    BY <1>1, <1>5, <1>6, <2>1
  <2> QED
    BY <1>2, <2>2
<1>11. ASSUME j = 1, i > 1, 1 \in 1..Len(seqs[i - 1])
       PROVE  k > 1 /\ t[k - 1] = seqs[i - 1][Len(seqs[i - 1])]
  <2>1. i - 1 \in 1..n
    BY <1>11
  <2>2. PICK q \in Nat : q = Len(seqs[i - 1])
    BY <2>1
  <2>3. PICK r \in Nat : r = off[(i - 1) - 1]
    <3>1. (i - 1) - 1 \in 0..n
      BY <1>11
    <3> QED
      BY <3>1 DEF Flattens
  <2>4. off[i - 1] = off[(i - 1) - 1] + Len(seqs[i - 1])
    BY <2>1 DEF Flattens
  <2>5. q \in 1..q /\ k - 1 = r + q
    BY <1>5, <1>7, <1>11, <2>2, <2>3, <2>4
  <2>6. k - 1 \in 1..Len(t) /\ t[k - 1] = seqs[i - 1][q]
    BY <1>1, <2>1, <2>2, <2>3, <2>5
  <2> QED
    BY <1>2, <2>2, <2>6
<1>12. PlacedAt(t, seqs, n, k, i, j)
  BY <1>6, <1>7, <1>8, <1>9, <1>10, <1>11 DEF PlacedAt
<1> QED
  BY <1>7, <1>12

(* Nothing is longer than it was, and what is as long has lost nothing.     *)
LEMMA ThinKeepsLength ==
  ASSUME NEW t, NEW seqs, NEW n \in Nat, NEW off, Flattens(t, seqs, n, off), Thin(seqs, n)
  PROVE  Len(t) \in Nat /\ Len(t) <= n /\ (Len(t) = n => OneEach(seqs, n))
<1>1. CASE \E i \in 1..n : Len(seqs[i]) = 0
  <2>1. PICK i \in 1..n : Len(seqs[i]) = 0
    BY <1>1
  <2>2. Len(t) \in Nat /\ Len(t) < n
    BY <2>1, ThinShrinks
  <2> QED
    BY <2>2
<1>2. CASE ~\E i \in 1..n : Len(seqs[i]) = 0
  <2>1. OneEach(seqs, n)
    BY <1>2 DEF OneEach, Thin
  <2>2. Len(t) = n
    BY <2>1, AllKept DEF FirstOfEach
  <2> QED
    BY <2>1, <2>2
<1> QED
  BY <1>1, <1>2

----------------------------------------------------------------------------
(* Turns that are fit to be sent, but for the pairing of their calls.       *)

(* The turns of the Messages API over some blocks, and what makes one of    *)
(* them fit to be sent once its calls and results are paired.               *)
Turn(B) == [role : {"user", "assistant"}, shape : {"string", "blocks"}, content : Seq(B)]
Voiced(role, s) == \A b \in ToSet(s) : EmptyTextBlock(b) => role = "assistant"
Sendable(m) ==
    /\ m.shape = "string" => \A b \in ToSet(m.content) : b.type = "text"
    /\ m.shape = "blocks" => \A b \in ToSet(m.content) : ~NoCharacters(b)
    /\ Voiced(m.role, m.content)
    /\ m.role = "assistant" => \A b \in ToSet(m.content) : b.type # "tool_result"
    /\ ResultsLead(m.content)
FitTurn(B) == {m \in Turn(B) : Sendable(m)}

(* What has no character is not white space either.                         *)
LEMMA NoneIsEmpty == ASSUME NEW b, NoCharacters(b) PROVE EmptyTextBlock(b)
  BY DEF NoCharacters, EmptyTextBlock

(* The fields of a turn, and of one that has got other blocks.              *)
LEMMA TurnFields ==
  ASSUME NEW B, NEW m \in Turn(B)
  PROVE  /\ m.role \in {"user", "assistant"} /\ m.shape \in {"string", "blocks"}
         /\ m.content \in Seq(B) /\ BlocksOf(m) \in Seq(B)
         /\ m.shape = "blocks" => BlocksOf(m) = m.content
         /\ m.shape = "string" => BlocksOf(m) = <<>>
  BY DEF Turn, BlocksOf

LEMMA WithBlocksFields ==
  ASSUME NEW B, NEW m \in Turn(B), NEW blocks \in Seq(B), NEW r, r = WithBlocks(m, blocks)
  PROVE  /\ r \in Turn(B) /\ r.role = m.role /\ r.shape = "blocks"
         /\ r.content = blocks /\ BlocksOf(r) = blocks
<1>1. r = [role |-> m.role, shape |-> "blocks", content |-> blocks]
  BY DEF Turn, WithBlocks
<1> QED
  BY <1>1 DEF Turn, BlocksOf

(* Leaving elements out keeps the results in the lead.                      *)
LEMMA StillLead ==
  ASSUME NEW B, NEW s \in Seq(B), NEW t \in Seq(B), InOrder(s, t), ToSet(t) \subseteq ToSet(s),
         ResultsLead(s)
  PROVE  ResultsLead(t)
<1>1. DOMAIN t = 1..Len(t) /\ DOMAIN s = 1..Len(s) /\ Len(s) \in Nat /\ Len(t) \in Nat
  BY InToSet
<1>2. ASSUME NEW k \in 1..Len(t), t[k].type = "tool_result", NEW j \in 1..(k - 1)
      PROVE  MayLead(t[j])
  <2>1. PICK p \in 1..Len(s), q \in 1..Len(s) : p < q /\ s[p] = t[j] /\ s[q] = t[k]
    BY DEF InOrder
  <2>2. p \in 1..(q - 1)
    BY <2>1
  <2> QED
    BY <1>1, <1>2, <2>1, <2>2 DEF ResultsLead
<1> QED
  BY <1>1, <1>2 DEF ResultsLead

(* r is m with no more than its good blocks.                                *)
Keeps(m, r, good) ==
    r.role = m.role /\ ToSet(BlocksOf(r)) = ToSet(BlocksOf(m)) \cap good

(* A fit turn that loses some blocks, none of them texts, stays fit.        *)
LEMMA KeptSome ==
  ASSUME NEW B, NEW m \in FitTurn(B), NEW good, NEW kept, kept = Only(BlocksOf(m), good),
         \A b \in ToSet(BlocksOf(m)) : b.type = "text" => b \in good,
         kept # BlocksOf(m), NEW r, r = WithBlocks(m, kept)
  PROVE  r \in FitTurn(B) /\ Keeps(m, r, good)
<1>1. m \in Turn(B) /\ Sendable(m)
  BY DEF FitTurn
<1>2. BlocksOf(m) \in Seq(B)
  BY <1>1, TurnFields
<1>3. kept \in Seq(B) /\ ToSet(kept) = ToSet(BlocksOf(m)) \cap good /\ InOrder(BlocksOf(m), kept)
  BY <1>2, OnlyKeeps
<1>4. /\ r \in Turn(B) /\ r.role = m.role /\ r.shape = "blocks"
      /\ r.content = kept /\ BlocksOf(r) = kept
  BY <1>1, <1>3, WithBlocksFields
<1>5. m.shape = "blocks" /\ BlocksOf(m) = m.content
  <2>1. ASSUME m.shape = "string" PROVE FALSE
    <3>1. BlocksOf(m) = <<>>
      BY <1>1, <2>1, TurnFields
    <3>2. ToSet(kept) = {}
      BY <1>2, <1>3, <3>1, InToSet
    <3>3. kept = <<>>
      BY <1>3, <3>2, InToSet
    <3> QED
      BY <3>1, <3>3
  <2> QED
    BY <1>1, <2>1, TurnFields
<1>6. ToSet(r.content) \subseteq ToSet(m.content)
  BY <1>3, <1>4, <1>5
<1>7. ResultsLead(r.content)
  <2>1. ResultsLead(kept)
    BY <1>1, <1>2, <1>3, <1>5, StillLead DEF Sendable
  <2> QED
    BY <1>4, <2>1
<1>8. Sendable(r)
  BY <1>1, <1>4, <1>5, <1>6, <1>7 DEF Sendable, Voiced
<1> QED
  BY <1>3, <1>4, <1>8 DEF FitTurn, Keeps

(* Nothing is lost if all is good, and everything if nothing is.            *)
LEMMA KeptAll ==
  ASSUME NEW B, NEW m \in Turn(B), NEW good
  PROVE  /\ Only(BlocksOf(m), good) = BlocksOf(m) <=> ToSet(BlocksOf(m)) \subseteq good
         /\ Only(BlocksOf(m), good) = <<>> <=> ToSet(BlocksOf(m)) \cap good = {}
<1>1. BlocksOf(m) \in Seq(B)
  BY TurnFields
<1>2. /\ Only(BlocksOf(m), good) \in Seq(B)
      /\ ToSet(Only(BlocksOf(m), good)) = ToSet(BlocksOf(m)) \cap good
      /\ ToSet(BlocksOf(m)) \subseteq good => Only(BlocksOf(m), good) = BlocksOf(m)
  BY <1>1, OnlyKeeps
<1>3. Only(BlocksOf(m), good) = <<>> <=> ToSet(Only(BlocksOf(m), good)) = {}
  BY <1>2, InToSet
<1> QED
  BY <1>2, <1>3

----------------------------------------------------------------------------
(* TOOL_REPAIR_MODE=drop: repairToolPairs.                                  *)
LEMMA Ids ==
  ASSUME NEW m
  PROVE  /\ \A id : id \in UseIds(m) <=>
              \E b \in ToSet(BlocksOf(m)) : b.type = "tool_use" /\ b.id = id
         /\ \A id : id \in ResultIds(m) <=>
              \E b \in ToSet(BlocksOf(m)) : b.type = "tool_result" /\ b.id = id
  BY DEF UseIds, ResultIds, IdsOfType

(* Dropping, message by message.                                            *)
LEMMA DropOne ==
  ASSUME NEW B, NEW ms, NEW i, ms[i] \in FitTurn(B)
  PROVE  \/ /\ DropMessage(ms, i) = <<>> /\ ~(ToSet(BlocksOf(ms[i])) \subseteq Matched(ms, i))
         \/ \E r \in FitTurn(B) :
              /\ DropMessage(ms, i) = <<r>> /\ Keeps(ms[i], r, Matched(ms, i))
              /\ HasThinkingBlock(r) => r = ms[i]
              /\ ToSet(BlocksOf(ms[i])) \subseteq Matched(ms, i) => r = ms[i]
<1> DEFINE m == ms[i]
           good == Matched(ms, i)
           kept == Only(BlocksOf(m), good)
           r == WithBlocks(m, kept)
           orphanUse == \E id \in UseIds(m) : ~ToolUseHasAdjacentResult(ms, i, id)
<1>1. m \in FitTurn(B) /\ m \in Turn(B) /\ Sendable(m)
  BY DEF FitTurn
<1>2. DropMessage(ms, i) =
        IF kept = BlocksOf(m) THEN <<m>>
        ELSE IF kept = <<>> \/ (orphanUse /\ HasThinkingBlock(m)) THEN <<>> ELSE <<r>>
  BY DEF DropMessage
<1>3. \A b \in ToSet(BlocksOf(m)) :
        b \in good <=> /\ b.type = "tool_use" => ToolUseHasAdjacentResult(ms, i, b.id)
                       /\ b.type = "tool_result" => ToolResultHasAdjacentUse(ms, i, b.id)
  BY DEF Matched
<1>4. orphanUse <=> \E b \in ToSet(BlocksOf(m)) :
                      b.type = "tool_use" /\ ~ToolUseHasAdjacentResult(ms, i, b.id)
  BY Ids
<1>5. \A b \in ToSet(BlocksOf(m)) : m.role = "assistant" => b.type # "tool_result"
  <2>1. m.shape = "blocks" => BlocksOf(m) = m.content
    BY <1>1, TurnFields
  <2>2. m.shape = "string" => ToSet(BlocksOf(m)) = {}
    BY <1>1, TurnFields, InToSet
  <2>3. m.shape \in {"string", "blocks"}
    BY <1>1, TurnFields
  <2> QED
    BY <1>1, <2>1, <2>2, <2>3 DEF Sendable
<1>6. kept = BlocksOf(m) <=> ToSet(BlocksOf(m)) \subseteq good
  BY <1>1, KeptAll
<1> HIDE DEF good, orphanUse, m
<1>7. CASE kept = BlocksOf(m)
  <2>1. DropMessage(ms, i) = <<m>>
    BY <1>2, <1>7
  <2>2. Keeps(m, m, good)
    BY <1>6, <1>7 DEF Keeps
  <2> QED
    BY <1>1, <2>1, <2>2 DEF m, good
<1>8. CASE kept # BlocksOf(m) /\ (kept = <<>> \/ (orphanUse /\ HasThinkingBlock(m)))
  <2>1. DropMessage(ms, i) = <<>>
    BY <1>2, <1>8
  <2>2. ~(ToSet(BlocksOf(m)) \subseteq good)
    BY <1>6, <1>8
  <2> QED
    BY <2>1, <2>2 DEF m, good
<1>9. CASE kept # BlocksOf(m) /\ ~(kept = <<>> \/ (orphanUse /\ HasThinkingBlock(m)))
  <2>1. DropMessage(ms, i) = <<r>>
    BY <1>2, <1>9
  <2>2. \A b \in ToSet(BlocksOf(m)) : b.type = "text" => b \in good
    BY <1>3
  <2>3. r \in FitTurn(B) /\ Keeps(m, r, good)
    <3> HIDE DEF r
    <3>1. r = WithBlocks(m, kept)
      BY DEF r
    <3> HIDE DEF kept
    <3>2. kept = Only(BlocksOf(m), good)
      BY DEF kept
    <3> QED
      BY <1>1, <1>9, <2>2, <3>1, <3>2, KeptSome
  <2>4. ~HasThinkingBlock(r)
    <3> SUFFICES ASSUME HasThinkingBlock(r) PROVE FALSE
      OBVIOUS
    <3>1. m.role = "assistant" /\ HasThinkingBlock(m)
      BY <2>3 DEF HasThinkingBlock, Keeps
    <3>2. PICK b \in ToSet(BlocksOf(m)) : b \notin good
      BY <1>6, <1>9
    <3>3. b.type = "tool_use" /\ ~ToolUseHasAdjacentResult(ms, i, b.id)
      BY <1>3, <1>5, <3>1, <3>2
    <3> QED
      BY <1>4, <1>9, <3>1, <3>3
  <2>5. ~(ToSet(BlocksOf(m)) \subseteq good)
    BY <1>6, <1>9
  <2> QED
    BY <2>1, <2>3, <2>4, <2>5 DEF m, good
<1> QED
  BY <1>7, <1>8, <1>9

(* If nothing had to go, what is left is paired: the two halves of a pair   *)
(* are matched by each other.                                               *)
LEMMA KeptArePaired ==
  ASSUME NEW ms, NEW t, NEW n \in Nat, Len(ms) = n, Len(t) = n,
         \A i \in 1..n : Keeps(ms[i], t[i], Matched(ms, i))
  PROVE  Paired(t)
<1>1. ASSUME NEW i \in 1..n, NEW id, id \in UseIds(t[i]) PROVE ToolUseHasAdjacentResult(t, i, id)
  <2>1. PICK b \in ToSet(BlocksOf(t[i])) : b.type = "tool_use" /\ b.id = id
    BY <1>1, Ids
  <2>2. b \in ToSet(BlocksOf(ms[i])) /\ b \in Matched(ms, i)
    BY <2>1 DEF Keeps
  <2>3. i < n /\ id \in ResultIds(ms[i + 1]) /\ id \in UseIds(ms[i])
    <3>1. ToolUseHasAdjacentResult(ms, i, b.id)
      BY <2>1, <2>2 DEF Matched
    <3> QED
      BY <2>1, <2>2, <3>1, Ids DEF ToolUseHasAdjacentResult
  <2>4. i + 1 \in 1..n /\ (i + 1) - 1 = i /\ i + 1 > 1
    BY <2>3
  <2>5. PICK c \in ToSet(BlocksOf(ms[i + 1])) : c.type = "tool_result" /\ c.id = id
    BY <2>3, Ids
  <2>6. c \in Matched(ms, i + 1)
    BY <2>3, <2>4, <2>5 DEF Matched, ToolResultHasAdjacentUse
  <2>7. c \in ToSet(BlocksOf(t[i + 1]))
    BY <2>4, <2>5, <2>6 DEF Keeps
  <2> QED
    BY <2>3, <2>5, <2>7, Ids DEF ToolUseHasAdjacentResult
<1>2. ASSUME NEW i \in 1..n, NEW id, id \in ResultIds(t[i]) PROVE ToolResultHasAdjacentUse(t, i, id)
  <2>1. PICK b \in ToSet(BlocksOf(t[i])) : b.type = "tool_result" /\ b.id = id
    BY <1>2, Ids
  <2>2. b \in ToSet(BlocksOf(ms[i])) /\ b \in Matched(ms, i)
    BY <2>1 DEF Keeps
  <2>3. i > 1 /\ id \in UseIds(ms[i - 1]) /\ id \in ResultIds(ms[i])
    <3>1. ToolResultHasAdjacentUse(ms, i, b.id)
      BY <2>1, <2>2 DEF Matched
    <3> QED
      BY <2>1, <2>2, <3>1, Ids DEF ToolResultHasAdjacentUse
  <2>4. i - 1 \in 1..n /\ (i - 1) + 1 = i /\ i - 1 < n
    BY <2>3
  <2>5. PICK c \in ToSet(BlocksOf(ms[i - 1])) : c.type = "tool_use" /\ c.id = id
    BY <2>3, Ids
  <2>6. c \in Matched(ms, i - 1)
    BY <2>3, <2>4, <2>5 DEF Matched, ToolUseHasAdjacentResult
  <2>7. c \in ToSet(BlocksOf(t[i - 1]))
    BY <2>4, <2>5, <2>6 DEF Keeps
  <2> QED
    BY <2>3, <2>5, <2>7, Ids DEF ToolResultHasAdjacentUse
<1> QED
  BY <1>1, <1>2 DEF Paired

(* What Rewrite makes of one message after the other.                       *)
LEMMA Rewritten ==
  ASSUME NEW T, NEW n \in Nat, NEW seqs \in Seq(Seq(T)), Len(seqs) = n
  PROVE  /\ FlattenSeq(seqs) \in Seq(T)
         /\ \E off : Flattens(FlattenSeq(seqs), seqs, n, off)
  BY Flattened

(* What a pass gives: a turn thinks only if it is untouched, and when the   *)
(* pass has removed no message, all is paired.                              *)
Dropped(ms, t) ==
    /\ Len(t) <= Len(ms) /\ (Len(t) = Len(ms) => Paired(t))
    /\ (Paired(ms) => t = ms)
    /\ ThinkingKeptWhole(ms, t)

(* One pass of dropping.                                                    *)
LEMMA DropPassGives ==
  ASSUME NEW B, NEW ms \in Seq(FitTurn(B))
  PROVE  DropPass(ms) \in Seq(FitTurn(B)) /\ Dropped(ms, DropPass(ms))
<1> DEFINE seqs == [i \in 1..Len(ms) |-> DropMessage(ms, i)]
           t == DropPass(ms)
           T == FitTurn(B)
<1>1. PICK n \in Nat : n = Len(ms)
  OBVIOUS
<1>2. \A i \in 1..n : ms[i] \in T
  BY <1>1
<1>3. t = FlattenSeq(seqs)
  BY DEF DropPass, Rewrite
<1>4. \A i \in 1..n : DropMessage(ms, i) \in Seq(T)
  <2> HIDE DEF T
  <2>1. (\A r \in T : <<r>> \in Seq(T)) /\ <<>> \in Seq(T)
    OBVIOUS
  <2>2. ASSUME NEW i \in 1..n PROVE DropMessage(ms, i) \in Seq(T)
    <3>1. DropMessage(ms, i) = <<>> \/ \E r \in T : DropMessage(ms, i) = <<r>>
      BY <1>2, DropOne DEF T
    <3>2. CASE DropMessage(ms, i) = <<>>
      BY <2>1, <3>2, Zenon
    <3>3. ASSUME NEW r \in T, DropMessage(ms, i) = <<r>> PROVE DropMessage(ms, i) \in Seq(T)
      BY <2>1, <3>3, Zenon
    <3> QED
      BY <3>1, <3>2, <3>3
  <2> QED
    BY <2>2
<1>5. seqs \in Seq(Seq(T)) /\ Len(seqs) = n
  BY <1>1, <1>4
<1>6. \A i \in 1..n : seqs[i] = DropMessage(ms, i)
  BY <1>1
<1> HIDE DEF seqs, t, T
<1>7. t \in Seq(T)
  BY <1>3, <1>5, Rewritten
<1>8. PICK off : Flattens(t, seqs, n, off)
  BY <1>3, <1>5, Rewritten
<1>9. ASSUME NEW i \in 1..n
      PROVE  \/ Len(seqs[i]) = 0 /\ ~(ToSet(BlocksOf(ms[i])) \subseteq Matched(ms, i))
             \/ /\ Len(seqs[i]) = 1 /\ Keeps(ms[i], seqs[i][1], Matched(ms, i))
                /\ HasThinkingBlock(seqs[i][1]) => seqs[i][1] = ms[i]
                /\ ToSet(BlocksOf(ms[i])) \subseteq Matched(ms, i) => seqs[i][1] = ms[i]
  <2>1. CASE DropMessage(ms, i) = <<>> /\ ~(ToSet(BlocksOf(ms[i])) \subseteq Matched(ms, i))
    BY <1>6, <2>1
  <2>2. ASSUME NEW r \in T, DropMessage(ms, i) = <<r>>, Keeps(ms[i], r, Matched(ms, i)),
               HasThinkingBlock(r) => r = ms[i],
               ToSet(BlocksOf(ms[i])) \subseteq Matched(ms, i) => r = ms[i]
        PROVE  /\ Len(seqs[i]) = 1 /\ Keeps(ms[i], seqs[i][1], Matched(ms, i))
               /\ HasThinkingBlock(seqs[i][1]) => seqs[i][1] = ms[i]
               /\ ToSet(BlocksOf(ms[i])) \subseteq Matched(ms, i) => seqs[i][1] = ms[i]
    <3>1. Len(seqs[i]) = 1 /\ seqs[i][1] = r
      BY <1>6, <2>2, OneLong
    <3> QED
      BY <2>2, <3>1
  <2> QED
    BY <1>2, <2>1, <2>2, DropOne DEF T
<1>10. Thin(seqs, n)
  BY <1>9 DEF Thin
<1>11. Len(t) \in Nat /\ Len(t) <= n /\ (Len(t) = n => OneEach(seqs, n))
  BY <1>8, <1>10, ThinKeepsLength
<1>12. ASSUME Len(t) = n PROVE Paired(t)
  <2>1. OneEach(seqs, n)
    BY <1>11, <1>12
  <2>2. FirstOfEach(t, seqs, n)
    BY <1>8, <2>1, AllKept
  <2>3. \A i \in 1..n : Keeps(ms[i], t[i], Matched(ms, i))
    BY <1>9, <2>1, <2>2 DEF OneEach, FirstOfEach
  <2> QED
    BY <1>1, <1>12, <2>3, KeptArePaired
<1>13. ASSUME Paired(ms) PROVE t = ms
  <2>1. ASSUME NEW i \in 1..n PROVE ToSet(BlocksOf(ms[i])) \subseteq Matched(ms, i)
    BY <1>1, <1>13, Ids DEF Paired, Matched
  <2>2. \A i \in 1..n : Len(seqs[i]) = 1 /\ seqs[i][1] = ms[i]
    BY <1>9, <2>1
  <2>3. OneEach(seqs, n)
    BY <2>2 DEF OneEach
  <2>4. FirstOfEach(t, seqs, n)
    BY <1>8, <2>3, AllKept
  <2>5. Len(t) = Len(ms) /\ \A i \in 1..Len(ms) : t[i] = ms[i]
    BY <1>1, <2>2, <2>4 DEF FirstOfEach
  <2> QED
    BY <1>7, <2>5, SameSeq DEF T
<1>14. ASSUME NEW m \in ToSet(t), HasThinkingBlock(m) PROVE m \in ToSet(ms)
  <2>1. PICK k \in 1..Len(t) : m = t[k]
    BY <1>7, InToSet
  <2>2. PICK i \in 1..n : \E j \in 1..Len(seqs[i]) : k = off[i - 1] + j
    BY <1>8 DEF Flattens
  <2>3. PICK j \in 1..Len(seqs[i]) : k = off[i - 1] + j
    BY <2>2
  <2>4. t[k] = seqs[i][j]
    BY <1>8, <2>3 DEF Flattens
  <2>5. j = 1 /\ Len(seqs[i]) = 1
    BY <1>9, <2>3, InOneOrNone
  <2>6. m = ms[i]
    BY <1>9, <1>14, <2>1, <2>4, <2>5
  <2> QED
    BY <1>1, <2>6, InToSet
<1> QED
  BY <1>1, <1>7, <1>11, <1>12, <1>13, <1>14 DEF t, T, Dropped, ThinkingKeptWhole

(* f gives what is left after each pass.                                    *)
AfterEach(f, ms, passes) ==
    f[0] = ms /\ \A k \in 1..passes : f[k] = DropPass(f[k - 1])

(* The passes come one after the other.                                     *)
LEMMA PassesInTurn ==
  ASSUME NEW ms, NEW passes \in Nat
  PROVE  \E f : AfterEach(f, ms, passes) /\ DropPasses(ms, passes) = f[passes]
<1> DEFINE Rule(f, k) == IF k = 0 THEN ms ELSE DropPass(f[k - 1])
           Good(m, f) == f = [k \in 0..m |-> f[k]] /\ \A k \in 0..m : f[k] = Rule(f, k)
           T == {m \in Nat : \E f : Good(m, f)}
<1>1. 0 \in T
  <2> DEFINE g == [k \in 0..0 |-> ms]
  <2>1. Good(0, g)
    OBVIOUS
  <2> QED
    BY <2>1
<1>2. ASSUME NEW m \in Nat, m \in T PROVE m + 1 \in T
  <2>1. PICK f : Good(m, f)
    BY <1>2
  <2> DEFINE last == DropPass(f[m])
             g == [k \in 0..m + 1 |-> IF k <= m THEN f[k] ELSE last]
  <2>2. g = [k \in 0..m + 1 |-> g[k]]
    OBVIOUS
  <2>3. \A k \in 0..m + 1 : g[k] = IF k <= m THEN f[k] ELSE last
    OBVIOUS
  <2> HIDE DEF g
  <2>4. ASSUME NEW k \in 0..m + 1 PROVE g[k] = Rule(g, k)
    <3>1. CASE k = 0
      <4>1. 0 \in 0..m /\ g[0] = f[0]
        BY <2>3
      <4> QED
        BY <2>1, <3>1, <4>1
    <3>2. CASE k # 0
      <4>1. k - 1 \in 0..m /\ g[k - 1] = f[k - 1]
        BY <2>3, <3>2
      <4>2. CASE k <= m
        <5>1. k \in 0..m /\ g[k] = f[k]
          BY <2>3, <4>2
        <5>2. f[k] = Rule(f, k)
          BY <2>1, <5>1
        <5> QED
          BY <3>2, <4>1, <5>1, <5>2
      <4>3. CASE k = m + 1
        <5>1. g[k] = last /\ k - 1 = m
          BY <2>3, <4>3
        <5> QED
          BY <3>2, <4>1, <5>1
      <4> QED
        BY <4>2, <4>3
    <3> QED
      BY <3>1, <3>2
  <2>5. Good(m + 1, g)
    BY <2>2, <2>4
  <2> HIDE DEF Good
  <2> QED
    BY <2>5
<1>3. passes \in T
  <2> HIDE DEF T
  <2> QED
    BY <1>1, <1>2, SetInduction
<1>4. PICK f : Good(passes, f)
  BY <1>3
<1> DEFINE Computes(h) == h = [k \in 0..passes |-> IF k = 0 THEN ms ELSE DropPass(h[k - 1])]
           c == CHOOSE h : Computes(h)
           value(k) == IF k = 0 THEN ms ELSE DropPass(f[k - 1])
<1>5. Computes(f)
  <2>1. f = [k \in 0..passes |-> f[k]] /\ \A k \in 0..passes : f[k] = value(k)
    BY <1>4
  <2> HIDE DEF value
  <2>2. f = [k \in 0..passes |-> value(k)]
    BY <2>1
  <2> QED
    BY <2>2 DEF value
<1>6. Computes(c)
  BY <1>5
<1>7. DropPasses(ms, passes) = c[passes]
  BY DEF DropPasses
<1> HIDE DEF c
<1> DEFINE step(k) == IF k = 0 THEN ms ELSE DropPass(c[k - 1])
<1>8. \A k \in 0..passes : c[k] = step(k)
  <2>1. c = [k \in 0..passes |-> step(k)]
    BY <1>6
  <2> HIDE DEF step
  <2> QED
    BY <2>1
<1>9. AfterEach(c, ms, passes)
  <2>1. 0 \in 0..passes /\ \A k \in 1..passes : k \in 0..passes /\ k # 0
    OBVIOUS
  <2> QED
    BY <1>8, <2>1 DEF AfterEach
<1> QED
  BY <1>7, <1>9

(* A length that shrinks has shrunk by one.                                 *)
LEMMA OneLess ==
  ASSUME NEW n \in Nat, NEW k \in Nat, NEW a \in Nat, NEW b \in Nat,
         a <= n - k, b <= a, b # a
  PROVE  b <= n - (k + 1)
  OBVIOUS

(* Each pass removes a message or leaves the history paired, and a paired   *)
(* one is left alone: the passes allowed are enough.                        *)
LEMMA RepairGives ==
  ASSUME NEW B, NEW ms \in Seq(FitTurn(B))
  PROVE  /\ RepairToolPairs(ms) \in Seq(FitTurn(B))
         /\ Paired(RepairToolPairs(ms)) /\ ThinkingKeptWhole(ms, RepairToolPairs(ms))
<1>1. PICK n \in Nat : n = Len(ms)
  OBVIOUS
<1>2. PICK f : AfterEach(f, ms, n + 2) /\ DropPasses(ms, n + 2) = f[n + 2]
  <2>1. n + 2 \in Nat
    OBVIOUS
  <2> QED
    BY <2>1, PassesInTurn
<1> DEFINE Done(k) == /\ f[k] \in Seq(FitTurn(B)) /\ ThinkingKeptWhole(ms, f[k])
                      /\ Paired(f[k]) \/ Len(f[k]) <= n - k
           T == {k \in Nat : k <= n + 2 => Done(k)}
<1>3. 0 \in T
  BY <1>1, <1>2 DEF ThinkingKeptWhole, AfterEach
<1>4. ASSUME NEW k \in Nat, k \in T PROVE k + 1 \in T
  <2> SUFFICES ASSUME k + 1 <= n + 2 PROVE Done(k + 1)
    OBVIOUS
  <2>1. k + 1 \in 1..(n + 2) /\ (k + 1) - 1 = k /\ k <= n + 2
    OBVIOUS
  <2>2. f[k + 1] = DropPass(f[k]) /\ Done(k)
    BY <1>2, <1>4, <2>1 DEF AfterEach
  <2>3. f[k + 1] \in Seq(FitTurn(B)) /\ Dropped(f[k], f[k + 1])
    BY <2>2, DropPassGives
  <2>4. ThinkingKeptWhole(ms, f[k + 1])
    BY <2>2, <2>3 DEF ThinkingKeptWhole, Dropped
  <2>5. Len(f[k]) \in Nat /\ Len(f[k + 1]) \in Nat
    BY <2>2, <2>3, InToSet
  <2>6. Paired(f[k + 1]) \/ Len(f[k + 1]) <= n - (k + 1)
    <3>1. CASE Paired(f[k])
      BY <2>3, <3>1 DEF Dropped
    <3>2. CASE Len(f[k]) <= n - k
      <4>1. Len(f[k + 1]) <= Len(f[k]) /\ (Len(f[k + 1]) = Len(f[k]) => Paired(f[k + 1]))
        BY <2>3 DEF Dropped
      <4> QED
        BY <2>5, <3>2, <4>1, OneLess
    <3> QED
      BY <2>2, <3>1, <3>2
  <2> QED
    BY <2>3, <2>4, <2>6
<1>5. n + 2 \in T
  <2> HIDE DEF T
  <2> QED
    BY <1>3, <1>4, SetInduction
<1>6. Done(n + 2)
  BY <1>5
<1>7. Len(f[n + 2]) \in Nat
  BY <1>6, InToSet
<1>8. Paired(f[n + 2])
  BY <1>6, <1>7
<1>9. RepairToolPairs(ms) = f[n + 2]
  BY <1>1, <1>2 DEF RepairToolPairs
<1> QED
  BY <1>6, <1>8, <1>9

----------------------------------------------------------------------------
(* The default: synthesizeMissingToolResults.                               *)

(* Stripping, message by message: a message with a use stays.               *)
Unstripped(ms, i) ==
    {b \in ToSet(BlocksOf(ms[i])) : b.type = "tool_result" => ToolResultHasAdjacentUse(ms, i, b.id)}

(* The model gives no results.                                              *)
LEMMA NoResults ==
  ASSUME NEW B, NEW m \in FitTurn(B), m.role = "assistant"
  PROVE  \A b \in ToSet(BlocksOf(m)) : b.type # "tool_result"
<1>1. m \in Turn(B) /\ Sendable(m)
  BY DEF FitTurn
<1>2. m.shape = "blocks" => BlocksOf(m) = m.content
  BY <1>1, TurnFields
<1>3. m.shape = "string" => ToSet(BlocksOf(m)) = {}
  BY <1>1, TurnFields, InToSet
<1>4. m.shape \in {"string", "blocks"}
  BY <1>1, TurnFields
<1> QED
  BY <1>1, <1>2, <1>3, <1>4 DEF Sendable

(* What stripping makes of one message.                                     *)
LEMMA StripOne ==
  ASSUME NEW B, NEW ms, NEW i, ms[i] \in FitTurn(B)
  PROVE  \/ StripMessage(ms, i) = <<>> /\ UseIds(ms[i]) = {}
         \/ \E r \in FitTurn(B) :
              /\ StripMessage(ms, i) = <<r>> /\ Keeps(ms[i], r, Unstripped(ms, i))
              /\ HasThinkingBlock(r) => r = ms[i]
<1> DEFINE m == ms[i]
           good == Unstripped(ms, i)
           kept == Only(BlocksOf(m), good)
           r == WithBlocks(m, kept)
<1>1. m \in FitTurn(B) /\ m \in Turn(B) /\ Sendable(m)
  BY DEF FitTurn
<1>2. StripMessage(ms, i) =
        IF kept = BlocksOf(m) THEN <<m>> ELSE IF kept = <<>> THEN <<>> ELSE <<r>>
  BY DEF StripMessage, Unstripped
<1>3. \A b \in ToSet(BlocksOf(m)) :
        b \in good <=> (b.type = "tool_result" => ToolResultHasAdjacentUse(ms, i, b.id))
  BY DEF Unstripped
<1>4. /\ kept = BlocksOf(m) <=> ToSet(BlocksOf(m)) \subseteq good
      /\ kept = <<>> <=> ToSet(BlocksOf(m)) \cap good = {}
  BY <1>1, KeptAll
<1> HIDE DEF good, m
<1>5. CASE kept = BlocksOf(m)
  <2>1. StripMessage(ms, i) = <<m>>
    BY <1>2, <1>5
  <2>2. Keeps(m, m, good)
    BY <1>4, <1>5 DEF Keeps
  <2> QED
    BY <1>1, <2>1, <2>2 DEF m, good
<1>6. CASE kept # BlocksOf(m) /\ kept = <<>>
  <2>1. StripMessage(ms, i) = <<>>
    BY <1>2, <1>6
  <2>2. UseIds(m) = {}
    BY <1>3, <1>4, <1>6, Ids
  <2> QED
    BY <2>1, <2>2 DEF m
<1>7. CASE kept # BlocksOf(m) /\ kept # <<>>
  <2>1. StripMessage(ms, i) = <<r>>
    BY <1>2, <1>7
  <2>2. \A b \in ToSet(BlocksOf(m)) : b.type = "text" => b \in good
    BY <1>3
  <2>3. r \in FitTurn(B) /\ Keeps(m, r, good)
    <3> HIDE DEF r
    <3>1. r = WithBlocks(m, kept)
      BY DEF r
    <3> HIDE DEF kept
    <3>2. kept = Only(BlocksOf(m), good)
      BY DEF kept
    <3> QED
      BY <1>1, <1>7, <2>2, <3>1, <3>2, KeptSome
  <2>4. ~HasThinkingBlock(r)
    <3> SUFFICES ASSUME HasThinkingBlock(r) PROVE FALSE
      OBVIOUS
    <3>1. m.role = "assistant"
      BY <2>3 DEF HasThinkingBlock, Keeps
    <3>2. \A b \in ToSet(BlocksOf(m)) : b.type # "tool_result"
      BY <1>1, <3>1, NoResults
    <3> QED
      BY <1>3, <1>4, <1>7, <3>2
  <2> QED
    BY <2>1, <2>3, <2>4 DEF m, good
<1> QED
  BY <1>5, <1>6, <1>7

(* After stripping every result follows its use.                            *)
ResultsHaveUses(ms) ==
    \A k \in 1..Len(ms) : \A id \in ResultIds(ms[k]) : ToolResultHasAdjacentUse(ms, k, id)

(* What stripping leaves of a history.                                      *)
LEMMA StripGives ==
  ASSUME NEW B, NEW ms \in Seq(FitTurn(B)), NEW t, t = StripOrphanResults(ms)
  PROVE  t \in Seq(FitTurn(B)) /\ ResultsHaveUses(t) /\ ThinkingKeptWhole(ms, t)
<1> DEFINE seqs == [i \in 1..Len(ms) |-> StripMessage(ms, i)]
           T == FitTurn(B)
<1>1. PICK n \in Nat : n = Len(ms)
  OBVIOUS
<1>2. \A i \in 1..n : ms[i] \in T
  BY <1>1
<1>3. t = FlattenSeq(seqs)
  BY DEF StripOrphanResults, Rewrite
<1>4. ASSUME NEW i \in 1..n PROVE StripMessage(ms, i) \in Seq(T)
  <2> HIDE DEF T
  <2>1. (\A r \in T : <<r>> \in Seq(T)) /\ <<>> \in Seq(T)
    OBVIOUS
  <2>2. StripMessage(ms, i) = <<>> \/ \E r \in T : StripMessage(ms, i) = <<r>>
    BY <1>2, StripOne DEF T
  <2>3. CASE StripMessage(ms, i) = <<>>
    BY <2>1, <2>3, Zenon
  <2>4. ASSUME NEW r \in T, StripMessage(ms, i) = <<r>> PROVE StripMessage(ms, i) \in Seq(T)
    BY <2>1, <2>4, Zenon
  <2> QED
    BY <2>2, <2>3, <2>4
<1>5. seqs \in Seq(Seq(T)) /\ Len(seqs) = n
  BY <1>1, <1>4
<1>6. \A i \in 1..n : seqs[i] = StripMessage(ms, i)
  BY <1>1
<1> HIDE DEF seqs, T
<1>7. t \in Seq(T)
  BY <1>3, <1>5, Rewritten
<1>8. PICK off : Flattens(t, seqs, n, off)
  BY <1>3, <1>5, Rewritten
<1>9. ASSUME NEW i \in 1..n
      PROVE  \/ Len(seqs[i]) = 0 /\ UseIds(ms[i]) = {}
             \/ /\ Len(seqs[i]) = 1 /\ Keeps(ms[i], seqs[i][1], Unstripped(ms, i))
                /\ HasThinkingBlock(seqs[i][1]) => seqs[i][1] = ms[i]
  <2>1. CASE StripMessage(ms, i) = <<>> /\ UseIds(ms[i]) = {}
    BY <1>6, <2>1
  <2>2. ASSUME NEW r \in T, StripMessage(ms, i) = <<r>>, Keeps(ms[i], r, Unstripped(ms, i)),
               HasThinkingBlock(r) => r = ms[i]
        PROVE  /\ Len(seqs[i]) = 1 /\ Keeps(ms[i], seqs[i][1], Unstripped(ms, i))
               /\ HasThinkingBlock(seqs[i][1]) => seqs[i][1] = ms[i]
    <3>1. Len(seqs[i]) = 1 /\ seqs[i][1] = r
      BY <1>6, <2>2, OneLong
    <3> QED
      BY <2>2, <3>1
  <2> QED
    BY <1>2, <2>1, <2>2, StripOne DEF T
<1>10. ASSUME NEW k \in 1..Len(t)
       PROVE  \E i \in 1..n : /\ PlacedAt(t, seqs, n, k, i, 1) /\ Len(seqs[i]) = 1
                              /\ t[k] = seqs[i][1]
  <2>1. \A i \in 1..n : Len(seqs[i]) \in Nat
    BY <1>9
  <2>2. PICK i \in 1..n : \E j \in Nat : PlacedAt(t, seqs, n, k, i, j)
    BY <1>8, <2>1, PlaceOf
  <2>3. PICK j \in Nat : PlacedAt(t, seqs, n, k, i, j)
    BY <2>2
  <2>4. j \in 1..Len(seqs[i]) /\ t[k] = seqs[i][j]
    BY <2>3 DEF PlacedAt
  <2>5. j = 1 /\ Len(seqs[i]) = 1
    BY <1>9, <2>4, InOneOrNone
  <2> QED
    BY <2>3, <2>4, <2>5
<1>11. ASSUME NEW k \in 1..Len(t), NEW id \in ResultIds(t[k])
       PROVE  ToolResultHasAdjacentUse(t, k, id)
  <2>1. PICK i \in 1..n : PlacedAt(t, seqs, n, k, i, 1) /\ Len(seqs[i]) = 1 /\ t[k] = seqs[i][1]
    BY <1>10
  <2>2. PICK b \in ToSet(BlocksOf(t[k])) : b.type = "tool_result" /\ b.id = id
    BY Ids
  <2>3. b \in Unstripped(ms, i)
    BY <1>9, <2>1, <2>2 DEF Keeps
  <2>4. i > 1 /\ id \in UseIds(ms[i - 1])
    BY <2>2, <2>3 DEF Unstripped, ToolResultHasAdjacentUse
  <2>5. i - 1 \in 1..n
    BY <2>4
  <2>6. Len(seqs[i - 1]) = 1 /\ Keeps(ms[i - 1], seqs[i - 1][1], Unstripped(ms, i - 1))
    BY <1>9, <2>4, <2>5
  <2>7. k > 1 /\ t[k - 1] = seqs[i - 1][1]
    BY <2>1, <2>4, <2>6 DEF PlacedAt
  <2>8. PICK c \in ToSet(BlocksOf(ms[i - 1])) : c.type = "tool_use" /\ c.id = id
    BY <2>4, Ids
  <2>9. c \in Unstripped(ms, i - 1)
    BY <2>8 DEF Unstripped
  <2>10. c \in ToSet(BlocksOf(t[k - 1]))
    BY <2>6, <2>7, <2>8, <2>9 DEF Keeps
  <2> QED
    BY <2>7, <2>8, <2>10, Ids DEF ToolResultHasAdjacentUse
<1>12. ASSUME NEW m \in ToSet(t), HasThinkingBlock(m) PROVE m \in ToSet(ms)
  <2>1. PICK k \in 1..Len(t) : m = t[k]
    BY <1>7, InToSet
  <2>2. PICK i \in 1..n : Len(seqs[i]) = 1 /\ t[k] = seqs[i][1]
    BY <1>10
  <2>3. m = ms[i]
    BY <1>9, <1>12, <2>1, <2>2
  <2> QED
    BY <1>1, <2>3, InToSet
<1> QED
  BY <1>7, <1>11, <1>12 DEF T, ResultsHaveUses, ThinkingKeptWhole

(* A placeholder for any block is a block.                                  *)
Answerable(B) == \A b \in B : PlaceholderResult(b.id) \in B

(* The elements of two sequences in one.                                    *)
LEMMA ToSetConcat ==
  ASSUME NEW B, NEW s \in Seq(B), NEW t \in Seq(B)
  PROVE  s \o t \in Seq(B) /\ ToSet(s \o t) = ToSet(s) \cup ToSet(t)
<1>1. PICK n \in Nat : n = Len(s)
  OBVIOUS
<1>2. PICK l \in Nat : l = Len(t)
  OBVIOUS
<1> DEFINE u == s \o t
<1>3. /\ u \in Seq(B) /\ Len(u) = n + l
      /\ \A i \in 1..n + l : u[i] = IF i <= n THEN s[i] ELSE t[i - n]
  BY <1>1, <1>2, ConcatProperties
<1> HIDE DEF u
<1>4. ASSUME NEW x, x \in ToSet(u) PROVE x \in ToSet(s) \cup ToSet(t)
  <2>1. PICK i \in 1..n + l : x = u[i]
    BY <1>3, <1>4, InToSet
  <2>2. CASE i <= n
    <3>1. i \in 1..n /\ x = s[i]
      BY <1>3, <2>1, <2>2
    <3> QED
      BY <1>1, <3>1, InToSet
  <2>3. CASE ~(i <= n)
    <3>1. i - n \in 1..l /\ x = t[i - n]
      BY <1>3, <2>1, <2>3
    <3> QED
      BY <1>2, <3>1, InToSet
  <2> QED
    BY <2>2, <2>3
<1>5. ASSUME NEW x, x \in ToSet(s) PROVE x \in ToSet(u)
  <2>1. PICK i \in 1..n : x = s[i]
    BY <1>1, <1>5, InToSet
  <2>2. i \in 1..n + l /\ i <= n
    OBVIOUS
  <2>3. x = u[i]
    BY <1>3, <2>1, <2>2
  <2> QED
    BY <1>3, <2>2, <2>3, InToSet
<1>6. ASSUME NEW x, x \in ToSet(t) PROVE x \in ToSet(u)
  <2>1. PICK i \in 1..l : x = t[i]
    BY <1>2, <1>6, InToSet
  <2>2. n + i \in 1..n + l /\ ~(n + i <= n) /\ (n + i) - n = i
    OBVIOUS
  <2>3. x = u[n + i]
    BY <1>3, <2>1, <2>2
  <2> QED
    BY <1>3, <2>2, <2>3, InToSet
<1> QED
  BY <1>3, <1>4, <1>5, <1>6 DEF u

(* What leads with results goes on leading with them behind more of them,   *)
(* or behind the system prompt.                                             *)
AllResults(s) == \A b \in ToSet(s) : b.type = "tool_result"
AllLead(s) == \A b \in ToSet(s) : MayLead(b)

LEMMA LeadConcat ==
  ASSUME NEW B, NEW s \in Seq(B), NEW t \in Seq(B), AllLead(s), ResultsLead(t)
  PROVE  ResultsLead(s \o t)
<1>1. PICK n \in Nat : n = Len(s)
  OBVIOUS
<1>2. PICK l \in Nat : l = Len(t)
  OBVIOUS
<1> DEFINE u == s \o t
<1>3. /\ u \in Seq(B) /\ Len(u) = n + l
      /\ \A i \in 1..n + l : u[i] = IF i <= n THEN s[i] ELSE t[i - n]
  BY <1>1, <1>2, ConcatProperties
<1> HIDE DEF u
<1>4. DOMAIN u = 1..n + l /\ DOMAIN t = 1..l
  BY <1>2, <1>3, InToSet
<1>5. \A i \in 1..n : MayLead(s[i])
  BY <1>1, InToSet DEF AllLead
<1>6. ASSUME NEW k \in 1..n + l, u[k].type = "tool_result", NEW j \in 1..(k - 1)
      PROVE  MayLead(u[j])
  <2>1. j \in 1..n + l /\ j \in Nat /\ k \in Nat /\ j < k
    OBVIOUS
  <2>2. CASE j <= n
    <3>1. j \in 1..n /\ u[j] = s[j]
      BY <1>3, <2>1, <2>2
    <3> QED
      BY <1>5, <3>1
  <2>3. CASE ~(j <= n)
    <3>1. ~(k <= n) /\ k - n \in 1..l /\ j - n \in 1..((k - n) - 1)
      BY <2>1, <2>3
    <3>2. u[k] = t[k - n] /\ u[j] = t[j - n]
      BY <1>3, <2>1, <2>3, <3>1
    <3> QED
      BY <1>4, <1>6, <3>1, <3>2 DEF ResultsLead
  <2> QED
    BY <2>2, <2>3
<1>7. ResultsLead(u)
  BY <1>4, <1>6 DEF ResultsLead
<1> QED
  BY <1>7 DEF u

(* No results or nothing but results: they lead.                            *)
LEMMA LeadWithout ==
  ASSUME NEW B, NEW s \in Seq(B), \A b \in ToSet(s) : b.type # "tool_result"
  PROVE  ResultsLead(s)
  BY InToSet DEF ResultsLead

LEMMA LeadAll ==
  ASSUME NEW B, NEW s \in Seq(B), AllResults(s)
  PROVE  ResultsLead(s)
<1>1. DOMAIN s = 1..Len(s) /\ Len(s) \in Nat /\ \A i \in 1..Len(s) : MayLead(s[i])
  BY InToSet DEF AllResults, MayLead
<1> QED
  BY <1>1 DEF ResultsLead

(* The uses of a message that lack a result, and what answers them.         *)
Lacks(ms, i, id) == id \in UseIds(ms[i]) /\ ~ToolUseHasAdjacentResult(ms, i, id)

(* A placeholder is a result, and says something.                           *)
LEMMA PlaceholderIs ==
  ASSUME NEW id
  PROVE  /\ PlaceholderResult(id).type = "tool_result" /\ PlaceholderResult(id).id = id
         /\ ~EmptyTextBlock(PlaceholderResult(id))
  BY DEF PlaceholderResult, Block, EmptyTextBlock

(* The placeholders of a message answer what it lacks.                      *)
LEMMA MissingIs ==
  ASSUME NEW B, Answerable(B), NEW ms, NEW i, ms[i] \in Turn(B), NEW s, s = Missing(ms, i)
  PROVE  /\ s \in Seq(B) /\ AllResults(s)
         /\ \A b \in ToSet(s) : ~EmptyTextBlock(b) /\ Lacks(ms, i, b.id)
         /\ \A id : Lacks(ms, i, id) => \E b \in ToSet(s) : b.type = "tool_result" /\ b.id = id
<1> DEFINE blocks == BlocksOf(ms[i])
           good == {b \in ToSet(blocks) :
                      b.type = "tool_use" /\ ~ToolUseHasAdjacentResult(ms, i, b.id)}
           uses == Only(blocks, good)
<1>1. s = [j \in 1..Len(uses) |-> PlaceholderResult(uses[j].id)]
  BY DEF Missing
<1>2. blocks \in Seq(B)
  BY TurnFields
<1>3. uses \in Seq(B) /\ ToSet(uses) = good
  <2>1. uses \in Seq(B) /\ ToSet(uses) = ToSet(blocks) \cap good
    <3> HIDE DEF good
    <3> QED
      BY <1>2, OnlyKeeps
  <2> QED
    BY <2>1
<1>4. \A b : b \in good <=> b \in ToSet(blocks) /\ b.type = "tool_use" /\ Lacks(ms, i, b.id)
  BY Ids DEF Lacks
<1>5. \A id : Lacks(ms, i, id) => \E b \in good : b.id = id
  BY <1>4, Ids DEF Lacks
<1> HIDE DEF uses, good, blocks
<1>6. PICK n \in Nat : n = Len(uses)
  BY <1>3
<1>7. \A j \in 1..n : uses[j] \in B /\ uses[j] \in good
  BY <1>3, <1>6, InToSet
<1>8. \A j \in 1..n : PlaceholderResult(uses[j].id) \in B
  BY <1>7 DEF Answerable
<1>9. s \in Seq(B) /\ Len(s) = n /\ \A j \in 1..n : s[j] = PlaceholderResult(uses[j].id)
  <2> DEFINE v(j) == PlaceholderResult(uses[j].id)
  <2>1. \A j \in 1..n : v(j) \in B
    BY <1>8
  <2>2. s = [j \in 1..n |-> v(j)]
    BY <1>1, <1>6
  <2> HIDE DEF v
  <2>3. s \in Seq(B) /\ Len(s) = n /\ \A j \in 1..n : s[j] = v(j)
    BY <2>1, <2>2
  <2> QED
    BY <2>3 DEF v
<1>10. \A b : b \in ToSet(s) <=> \E j \in 1..n : b = PlaceholderResult(uses[j].id)
  BY <1>9, InToSet
<1>11. ASSUME NEW b \in ToSet(s)
       PROVE  b.type = "tool_result" /\ ~EmptyTextBlock(b) /\ Lacks(ms, i, b.id)
  <2>1. PICK j \in 1..n : b = PlaceholderResult(uses[j].id)
    BY <1>10
  <2> QED
    BY <1>4, <1>7, <2>1, PlaceholderIs
<1>12. ASSUME NEW id, Lacks(ms, i, id) PROVE \E b \in ToSet(s) : b.type = "tool_result" /\ b.id = id
  <2>1. PICK c \in good : c.id = id
    BY <1>5, <1>12
  <2>2. PICK j \in 1..n : c = uses[j]
    BY <1>3, <1>6, <2>1, InToSet
  <2>3. PlaceholderResult(uses[j].id) \in ToSet(s)
    BY <1>10
  <2> QED
    BY <2>1, <2>2, <2>3, PlaceholderIs
<1> QED
  BY <1>9, <1>11, <1>12 DEF AllResults

(* What Answering makes of a turn: the results it has, and those the uses   *)
(* of the turn before lack.                                                 *)
Answers(ms, i, r) ==
    /\ r.role = ms[i].role /\ UseIds(r) = UseIds(ms[i])
    /\ \A id : id \in ResultIds(r) <=>
         id \in ResultIds(ms[i]) \/ (i > 1 /\ ms[i].role = "user" /\ Lacks(ms, i - 1, id))
    /\ HasThinkingBlock(r) => r = ms[i]

(* A turn answered is fit, and is what it was and the placeholders.         *)
LEMMA AnsweringGives ==
  ASSUME NEW B, Answerable(B), NEW ms, NEW n \in Nat, \A j \in 1..n : ms[j] \in FitTurn(B),
         NEW i \in 1..n, NEW r, r = Answering(ms, i)
  PROVE  r \in FitTurn(B) /\ Answers(ms, i, r)
<1> DEFINE m == ms[i]
           before == IF i > 1 /\ m.role = "user" THEN Missing(ms, i - 1) ELSE <<>>
           good == {b \in ToSet(m.content) : m.shape = "string" => b.says # "empty"}
           said == Only(m.content, good)
<1>1. r = IF before = <<>> THEN m ELSE WithBlocks(m, before \o said)
  BY DEF Answering
<1>2. m \in FitTurn(B) /\ m \in Turn(B) /\ Sendable(m)
  BY DEF FitTurn
<1>3. i > 1 /\ m.role = "user" =>
        /\ before \in Seq(B) /\ AllResults(before)
        /\ \A b \in ToSet(before) : ~EmptyTextBlock(b) /\ Lacks(ms, i - 1, b.id)
        /\ \A id : Lacks(ms, i - 1, id) => \E b \in ToSet(before) : b.type = "tool_result" /\ b.id = id
  <2> SUFFICES ASSUME i > 1, m.role = "user"
               PROVE  /\ before \in Seq(B) /\ AllResults(before)
                      /\ \A b \in ToSet(before) : ~EmptyTextBlock(b) /\ Lacks(ms, i - 1, b.id)
                      /\ \A id : Lacks(ms, i - 1, id) =>
                           \E b \in ToSet(before) : b.type = "tool_result" /\ b.id = id
    OBVIOUS
  <2>1. i - 1 \in 1..n
    OBVIOUS
  <2>2. ms[i - 1] \in Turn(B)
    BY <2>1 DEF FitTurn
  <2>3. before = Missing(ms, i - 1)
    OBVIOUS
  <2> HIDE DEF before
  <2> QED
    BY <2>2, <2>3, MissingIs
<1>4. ~(i > 1 /\ m.role = "user") => before = <<>>
  OBVIOUS
<1> HIDE DEF before
<1>5. m.content \in Seq(B)
  BY <1>2, TurnFields
<1>6. /\ said \in Seq(B) /\ ToSet(said) = ToSet(m.content) \cap good
      /\ ToSet(m.content) \subseteq good => said = m.content
  <2> HIDE DEF good
  <2> QED
    BY <1>5, OnlyKeeps
<1>7. \A b : b \in good <=> b \in ToSet(m.content) /\ (m.shape = "string" => b.says # "empty")
  OBVIOUS
<1> HIDE DEF good, said, m
<1>8. CASE before = <<>>
  <2>1. r = m
    BY <1>1, <1>8
  <2>2. i > 1 /\ m.role = "user" => \A id : ~Lacks(ms, i - 1, id)
    <3>1. ToSet(<<>>) = {}
      BY DEF ToSet
    <3> QED
      BY <1>3, <1>8, <3>1
  <2> QED
    BY <1>2, <2>1, <2>2 DEF m, Answers
<1>9. CASE before # <<>>
  <2>1. i > 1 /\ m.role = "user"
    BY <1>4, <1>9
  <2>2. /\ before \in Seq(B) /\ AllResults(before)
        /\ \A b \in ToSet(before) : ~EmptyTextBlock(b) /\ Lacks(ms, i - 1, b.id)
        /\ \A id : Lacks(ms, i - 1, id) => \E b \in ToSet(before) : b.type = "tool_result" /\ b.id = id
    BY <1>3, <2>1
  <2> DEFINE all == before \o said
  <2>3. all \in Seq(B) /\ ToSet(all) = ToSet(before) \cup ToSet(said)
    BY <1>6, <2>2, ToSetConcat
  <2>4. r = WithBlocks(m, all)
    BY <1>1, <1>9
  <2>5. ResultsLead(said) => ResultsLead(all)
    <3>1. AllLead(before)
      BY <2>2 DEF AllResults, AllLead, MayLead
    <3> QED
      BY <1>6, <2>2, <3>1, LeadConcat
  <2> HIDE DEF all
  <2>6. r \in Turn(B) /\ r.role = m.role /\ r.shape = "blocks" /\ r.content = all /\ BlocksOf(r) = all
    BY <1>2, <2>3, <2>4, WithBlocksFields
  <2>7. /\ \A b \in ToSet(said) : b \in ToSet(m.content) /\ ~EmptyTextBlock(b)
        /\ \A b \in ToSet(BlocksOf(m)) : b \in ToSet(said)
        /\ \A b \in ToSet(said) : b.type # "text" => b \in ToSet(BlocksOf(m))
        /\ ResultsLead(said)
    <3>1. \A b \in ToSet(said) : b \in ToSet(m.content) /\ ~EmptyTextBlock(b)
      BY <1>2, <1>6, <2>1 DEF Sendable, Voiced
    <3>2. CASE m.shape = "blocks"
      <4>1. said = m.content /\ BlocksOf(m) = m.content
        BY <1>2, <1>6, <1>7, <3>2, TurnFields
      <4> QED
        BY <1>2, <3>1, <4>1 DEF Sendable
    <3>3. CASE m.shape = "string"
      <4>1. ToSet(BlocksOf(m)) = {}
        BY <1>2, <3>3, TurnFields, InToSet
      <4>2. \A b \in ToSet(said) : b.type = "text"
        BY <1>2, <1>6, <3>3 DEF Sendable
      <4>3. ResultsLead(said)
        <5>1. \A b \in ToSet(said) : b.type # "tool_result"
          BY <4>2
        <5> QED
          BY <1>6, <5>1, LeadWithout
      <4> QED
        BY <3>1, <4>1, <4>2, <4>3
    <3> QED
      BY <1>2, <3>2, <3>3, TurnFields
  <2>8. Sendable(r)
    <3>1. \A b \in ToSet(r.content) : ~EmptyTextBlock(b)
      BY <2>2, <2>3, <2>6, <2>7
    <3>2. ResultsLead(r.content)
      BY <2>5, <2>6, <2>7
    <3>3. r.role # "assistant"
      BY <2>1, <2>6
    <3> QED
      BY <2>6, <3>1, <3>2, <3>3, NoneIsEmpty DEF Sendable, Voiced
  <2>9. \A b \in ToSet(before) : b.type = "tool_result"
    BY <2>2 DEF AllResults
  <2>10. \A b \in ToSet(BlocksOf(r)) : b \in ToSet(before) \/ b.type = "text" \/ b \in ToSet(BlocksOf(m))
    BY <2>3, <2>6, <2>7
  <2>11. ToSet(before) \subseteq ToSet(BlocksOf(r)) /\ ToSet(BlocksOf(m)) \subseteq ToSet(BlocksOf(r))
    BY <2>3, <2>6, <2>7
  <2>12. UseIds(r) = UseIds(m)
    <3>1. \A id : id \in UseIds(r) <=> id \in UseIds(m)
      BY <2>9, <2>10, <2>11, Ids
    <3> QED
      BY <3>1
  <2>13. \A id : id \in ResultIds(r) <=> id \in ResultIds(m) \/ Lacks(ms, i - 1, id)
    <3>1. ASSUME NEW id, id \in ResultIds(r) PROVE id \in ResultIds(m) \/ Lacks(ms, i - 1, id)
      <4>1. PICK b \in ToSet(BlocksOf(r)) : b.type = "tool_result" /\ b.id = id
        BY <3>1, Ids
      <4> QED
        BY <2>2, <2>10, <4>1, Ids
    <3>2. ASSUME NEW id, id \in ResultIds(m) PROVE id \in ResultIds(r)
      BY <2>11, <3>2, Ids
    <3>3. ASSUME NEW id, Lacks(ms, i - 1, id) PROVE id \in ResultIds(r)
      BY <2>2, <2>11, <3>3, Ids
    <3> QED
      BY <3>1, <3>2, <3>3
  <2>14. ~HasThinkingBlock(r)
    BY <2>1, <2>6 DEF HasThinkingBlock
  <2> QED
    BY <2>1, <2>6, <2>8, <2>12, <2>13, <2>14 DEF FitTurn, Answers, m
<1> QED
  BY <1>8, <1>9

(* A turn of placeholders.                                                  *)
LEMMA OwnTurn ==
  ASSUME NEW B, Answerable(B), NEW ms, NEW i, ms[i] \in Turn(B), NEW s, s = Missing(ms, i),
         NEW r, r = [role |-> "user", shape |-> "blocks", content |-> s]
  PROVE  /\ r \in FitTurn(B) /\ ~HasThinkingBlock(r) /\ UseIds(r) = {}
         /\ \A id : id \in ResultIds(r) <=> Lacks(ms, i, id)
<1>1. /\ s \in Seq(B) /\ AllResults(s)
      /\ \A b \in ToSet(s) : ~EmptyTextBlock(b) /\ Lacks(ms, i, b.id)
      /\ \A id : Lacks(ms, i, id) => \E b \in ToSet(s) : b.type = "tool_result" /\ b.id = id
  BY MissingIs
<1>2. r \in Turn(B) /\ r.role = "user" /\ r.shape = "blocks" /\ r.content = s /\ BlocksOf(r) = s
  BY <1>1 DEF Turn, BlocksOf
<1>3. Sendable(r)
  <2>1. ResultsLead(s)
    BY <1>1, LeadAll
  <2> QED
    BY <1>1, <1>2, <2>1, NoneIsEmpty DEF Sendable, Voiced
<1>4. UseIds(r) = {}
  BY <1>1, <1>2, Ids DEF AllResults
<1>5. \A id : id \in ResultIds(r) <=> Lacks(ms, i, id)
  BY <1>1, <1>2, Ids
<1> QED
  BY <1>2, <1>3, <1>4, <1>5 DEF FitTurn, HasThinkingBlock

(* What stands for message i once it is answered: itself, and a turn of     *)
(* placeholders if no user turn follows that could take them.               *)
TakesThem(ms, n, i) == i < n /\ ms[i + 1].role = "user"
AnsweredBy(ms, n, i, q) ==
    /\ Len(q) \in {1, 2} /\ Answers(ms, i, q[1])
    /\ TakesThem(ms, n, i) => Len(q) = 1
    /\ Len(q) = 1 /\ ~TakesThem(ms, n, i) => \A id : ~Lacks(ms, i, id)
    /\ Len(q) = 2 => /\ ~HasThinkingBlock(q[2]) /\ UseIds(q[2]) = {}
                     /\ \A id : id \in ResultIds(q[2]) <=> Lacks(ms, i, id)

LEMMA TwoLong == ASSUME NEW x, NEW y PROVE Len(<<x, y>>) = 2 /\ <<x, y>>[1] = x /\ <<x, y>>[2] = y
  OBVIOUS

(* What the second pass makes of one message.                               *)
LEMMA AnswerOne ==
  ASSUME NEW B, Answerable(B), NEW ms, NEW n \in Nat, Len(ms) = n,
         \A j \in 1..n : ms[j] \in FitTurn(B), NEW i \in 1..n, NEW q, q = AnswerMessage(ms, i)
  PROVE  q \in Seq(FitTurn(B)) /\ AnsweredBy(ms, n, i, q)
<1> DEFINE T == FitTurn(B)
           r == Answering(ms, i)
           s == Missing(ms, i)
           o == [role |-> "user", shape |-> "blocks", content |-> s]
           after == IF i < Len(ms) /\ ms[i + 1].role = "user" THEN <<>> ELSE s
<1>1. q = IF after = <<>> THEN <<r>>
          ELSE <<r, [role |-> "user", shape |-> "blocks", content |-> after]>>
  BY DEF AnswerMessage
<1>2. r \in T /\ Answers(ms, i, r)
  BY AnsweringGives
<1>3. ms[i] \in Turn(B)
  BY DEF FitTurn
<1>4. /\ s \in Seq(B)
      /\ \A id : Lacks(ms, i, id) => \E b \in ToSet(s) : b.type = "tool_result" /\ b.id = id
  <2> HIDE DEF s
  <2>1. s = Missing(ms, i)
    BY DEF s
  <2> QED
    BY <1>3, <2>1, MissingIs
<1>5. /\ o \in T /\ ~HasThinkingBlock(o) /\ UseIds(o) = {}
      /\ \A id : id \in ResultIds(o) <=> Lacks(ms, i, id)
  <2> HIDE DEF s, T
  <2>1. s = Missing(ms, i)
    BY DEF s
  <2> HIDE DEF o
  <2>2. o = [role |-> "user", shape |-> "blocks", content |-> s]
    BY DEF o
  <2> QED
    BY <1>3, <2>1, <2>2, OwnTurn DEF T
<1>6. after = IF TakesThem(ms, n, i) THEN <<>> ELSE s
  BY DEF TakesThem
<1> HIDE DEF after, r, s, T
<1>7. <<r>> \in Seq(T) /\ (o \in T => <<r, o>> \in Seq(T))
  <2> HIDE DEF o
  <2> QED
    BY <1>2
<1>8. CASE after = <<>>
  <2>1. q = <<r>>
    BY <1>1, <1>8
  <2>2. Len(q) = 1 /\ q[1] = r
    BY <2>1, OneLong
  <2>3. ~TakesThem(ms, n, i) => \A id : ~Lacks(ms, i, id)
    <3>1. ToSet(<<>>) = {}
      BY DEF ToSet
    <3> QED
      BY <1>4, <1>6, <1>8, <3>1
  <2> QED
    BY <1>2, <1>7, <2>1, <2>2, <2>3 DEF AnsweredBy, T
<1>9. CASE after # <<>>
  <2>1. ~TakesThem(ms, n, i) /\ after = s
    BY <1>6, <1>9
  <2>2. q = <<r, o>>
    BY <1>1, <1>9, <2>1
  <2> HIDE DEF o
  <2>3. Len(q) = 2 /\ q[1] = r /\ q[2] = o
    BY <2>2, TwoLong
  <2> QED
    BY <1>2, <1>5, <1>7, <2>1, <2>2, <2>3 DEF AnsweredBy, T
<1> QED
  BY <1>8, <1>9

(* The two places of a message.                                             *)
LEMMA OneOrTwo ==
  ASSUME NEW l \in {1, 2}, NEW j \in 1..l
  PROVE  /\ j = 1 \/ (j = 2 /\ l = 2)
         /\ 1 \in 1..l
  OBVIOUS

(* A history whose results all have uses is paired once it is answered.     *)
LEMMA AddGives ==
  ASSUME NEW B, Answerable(B), NEW ms \in Seq(FitTurn(B)), ResultsHaveUses(ms),
         NEW t, t = AddPlaceholders(ms)
  PROVE  t \in Seq(FitTurn(B)) /\ Paired(t) /\ ThinkingKeptWhole(ms, t)
<1> DEFINE seqs == [i \in 1..Len(ms) |-> AnswerMessage(ms, i)]
           T == FitTurn(B)
<1>1. PICK n \in Nat : n = Len(ms)
  OBVIOUS
<1>2. \A i \in 1..n : ms[i] \in T
  BY <1>1
<1>3. t = FlattenSeq(seqs)
  BY DEF AddPlaceholders, Rewrite
<1>4. ASSUME NEW i \in 1..n
      PROVE  AnswerMessage(ms, i) \in Seq(T) /\ AnsweredBy(ms, n, i, AnswerMessage(ms, i))
  <2> HIDE DEF T
  <2>1. PICK q : q = AnswerMessage(ms, i)
    OBVIOUS
  <2>2. q \in Seq(FitTurn(B)) /\ AnsweredBy(ms, n, i, q)
    BY <1>1, <1>2, <2>1, AnswerOne DEF T
  <2> QED
    BY <2>1, <2>2 DEF T
<1>5. seqs \in Seq(Seq(T)) /\ Len(seqs) = n
  BY <1>1, <1>4
<1>6. \A i \in 1..n : seqs[i] = AnswerMessage(ms, i)
  BY <1>1
<1> HIDE DEF seqs, T
<1>7. t \in Seq(T)
  BY <1>3, <1>5, Rewritten
<1>8. PICK off : Flattens(t, seqs, n, off)
  BY <1>3, <1>5, Rewritten
<1>9. \A i \in 1..n : AnsweredBy(ms, n, i, seqs[i])
  BY <1>4, <1>6
<1>10. \A i \in 1..n : Len(seqs[i]) \in {1, 2} /\ 1 \in 1..Len(seqs[i])
  <2>1. \A i \in 1..n : Len(seqs[i]) \in {1, 2}
    BY <1>9 DEF AnsweredBy
  <2>2. \A l \in {1, 2} : 1 \in 1..l
    OBVIOUS
  <2> QED
    BY <2>1, <2>2, Zenon
<1>11. \A i \in 1..n : \A id : id \in ResultIds(ms[i]) => ms[i].role = "user"
  <2>1. ASSUME NEW i \in 1..n, NEW id, id \in ResultIds(ms[i]) PROVE ms[i].role = "user"
    <3>1. ms[i] \in FitTurn(B) /\ ms[i].role \in {"user", "assistant"}
      BY <1>2, TurnFields DEF FitTurn, T
    <3> QED
      BY <2>1, <3>1, NoResults, Ids
  <2> QED
    BY <2>1
<1>12. ASSUME NEW k \in 1..Len(t)
       PROVE  \E i \in 1..n : \/ PlacedAt(t, seqs, n, k, i, 1) /\ t[k] = seqs[i][1]
                              \/ /\ PlacedAt(t, seqs, n, k, i, 2) /\ t[k] = seqs[i][2]
                                 /\ Len(seqs[i]) = 2
  <2>1. \A i \in 1..n : Len(seqs[i]) \in Nat
    BY <1>10
  <2>2. PICK i \in 1..n : \E j \in Nat : PlacedAt(t, seqs, n, k, i, j)
    BY <1>8, <2>1, PlaceOf
  <2>3. PICK j \in Nat : PlacedAt(t, seqs, n, k, i, j)
    BY <2>2
  <2>4. j \in 1..Len(seqs[i]) /\ t[k] = seqs[i][j]
    BY <2>3 DEF PlacedAt
  <2>5. j = 1 \/ (j = 2 /\ Len(seqs[i]) = 2)
    BY <1>10, <2>4, OneOrTwo
  <2> QED
    BY <2>3, <2>4, <2>5
<1>13. ASSUME NEW k \in 1..Len(t), NEW id \in UseIds(t[k]) PROVE ToolUseHasAdjacentResult(t, k, id)
  <2>1. PICK i \in 1..n : \/ PlacedAt(t, seqs, n, k, i, 1) /\ t[k] = seqs[i][1]
                          \/ t[k] = seqs[i][2] /\ Len(seqs[i]) = 2
    BY <1>12
  <2>2. PlacedAt(t, seqs, n, k, i, 1) /\ t[k] = seqs[i][1]
    BY <1>9, <2>1 DEF AnsweredBy
  <2>3. id \in UseIds(ms[i])
    BY <1>9, <2>2 DEF AnsweredBy, Answers
  <2>4. CASE TakesThem(ms, n, i)
    <3>1. i + 1 \in 1..n /\ (i + 1) - 1 = i /\ i + 1 > 1 /\ i < n /\ ms[i + 1].role = "user"
      BY <2>4 DEF TakesThem
    <3>2. Len(seqs[i]) = 1 /\ 1 \in 1..Len(seqs[i + 1])
      BY <1>9, <1>10, <2>4, <3>1 DEF AnsweredBy
    <3>3. k < Len(t) /\ t[k + 1] = seqs[i + 1][1]
      BY <2>2, <3>1, <3>2 DEF PlacedAt
    <3>4. Answers(ms, i + 1, t[k + 1])
      BY <1>9, <3>1, <3>3 DEF AnsweredBy
    <3>5. id \in ResultIds(ms[i + 1]) \/ Lacks(ms, (i + 1) - 1, id)
      BY <1>1, <2>3, <3>1 DEF Lacks, ToolUseHasAdjacentResult
    <3>6. id \in ResultIds(t[k + 1])
      BY <3>1, <3>4, <3>5 DEF Answers
    <3> QED
      BY <3>3, <3>6 DEF ToolUseHasAdjacentResult
  <2>5. CASE ~TakesThem(ms, n, i)
    <3>1. Lacks(ms, i, id)
      <4> SUFFICES ASSUME ToolUseHasAdjacentResult(ms, i, id) PROVE FALSE
        BY <2>3 DEF Lacks
      <4>1. i < n /\ id \in ResultIds(ms[i + 1])
        BY <1>1 DEF ToolUseHasAdjacentResult
      <4>2. i + 1 \in 1..n
        BY <4>1
      <4> QED
        BY <1>11, <2>5, <4>1, <4>2 DEF TakesThem
    <3>2. Len(seqs[i]) = 2
      BY <1>9, <2>5, <3>1 DEF AnsweredBy
    <3>3. k < Len(t) /\ t[k + 1] = seqs[i][2]
      <4>1. 1 < Len(seqs[i]) /\ 1 + 1 = 2
        BY <3>2
      <4> QED
        BY <2>2, <4>1 DEF PlacedAt
    <3>4. id \in ResultIds(t[k + 1])
      BY <1>9, <3>1, <3>2, <3>3 DEF AnsweredBy
    <3> QED
      BY <3>3, <3>4 DEF ToolUseHasAdjacentResult
  <2> QED
    BY <2>4, <2>5
<1>14. ASSUME NEW k \in 1..Len(t), NEW id \in ResultIds(t[k]) PROVE ToolResultHasAdjacentUse(t, k, id)
  <2>1. PICK i \in 1..n : \/ PlacedAt(t, seqs, n, k, i, 1) /\ t[k] = seqs[i][1]
                          \/ /\ PlacedAt(t, seqs, n, k, i, 2) /\ t[k] = seqs[i][2]
                             /\ Len(seqs[i]) = 2
    BY <1>12
  <2>2. CASE PlacedAt(t, seqs, n, k, i, 1) /\ t[k] = seqs[i][1]
    <3>1. id \in ResultIds(ms[i]) \/ (i > 1 /\ ms[i].role = "user" /\ Lacks(ms, i - 1, id))
      BY <1>9, <2>2 DEF AnsweredBy, Answers
    <3>2. i > 1 /\ ms[i].role = "user" /\ id \in UseIds(ms[i - 1])
      <4>1. CASE id \in ResultIds(ms[i])
        BY <1>1, <1>11, <4>1 DEF ResultsHaveUses, ToolResultHasAdjacentUse
      <4>2. CASE i > 1 /\ ms[i].role = "user" /\ Lacks(ms, i - 1, id)
        BY <4>2 DEF Lacks
      <4> QED
        BY <3>1, <4>1, <4>2
    <3>3. i - 1 \in 1..n /\ (i - 1) + 1 = i /\ i - 1 < n
      BY <3>2
    <3>4. Len(seqs[i - 1]) = 1
      BY <1>9, <3>2, <3>3 DEF AnsweredBy, TakesThem
    <3>5. k > 1 /\ t[k - 1] = seqs[i - 1][1]
      BY <1>10, <2>2, <3>2, <3>3, <3>4 DEF PlacedAt
    <3>6. id \in UseIds(t[k - 1])
      BY <1>9, <3>2, <3>3, <3>5 DEF AnsweredBy, Answers
    <3> QED
      BY <3>5, <3>6 DEF ToolResultHasAdjacentUse
  <2>3. CASE PlacedAt(t, seqs, n, k, i, 2) /\ t[k] = seqs[i][2] /\ Len(seqs[i]) = 2
    <3>1. Lacks(ms, i, id)
      BY <1>9, <2>3 DEF AnsweredBy
    <3>2. k > 1 /\ t[k - 1] = seqs[i][1]
      <4>1. 2 > 1 /\ 2 - 1 = 1
        OBVIOUS
      <4> QED
        BY <2>3, <4>1 DEF PlacedAt
    <3>3. id \in UseIds(t[k - 1])
      BY <1>9, <3>1, <3>2 DEF AnsweredBy, Answers, Lacks
    <3> QED
      BY <3>2, <3>3 DEF ToolResultHasAdjacentUse
  <2> QED
    BY <2>1, <2>2, <2>3
<1>15. ASSUME NEW m \in ToSet(t), HasThinkingBlock(m) PROVE m \in ToSet(ms)
  <2>1. PICK k \in 1..Len(t) : m = t[k]
    BY <1>7, InToSet
  <2>2. PICK i \in 1..n : t[k] = seqs[i][1] \/ (t[k] = seqs[i][2] /\ Len(seqs[i]) = 2)
    BY <1>12
  <2>3. m = ms[i]
    BY <1>9, <1>15, <2>1, <2>2 DEF AnsweredBy, Answers
  <2> QED
    BY <1>1, <2>3, InToSet
<1> QED
  BY <1>7, <1>13, <1>14, <1>15 DEF T, Paired, ThinkingKeptWhole

----------------------------------------------------------------------------
(* cache_control: applyCacheBreakpoints.                                     *)
LEMMA LeastElement ==
  ASSUME NEW S \in SUBSET Nat, S # {}
  PROVE  \E a \in S : \A j \in S : a <= j
<1> DEFINE T == {m \in Nat : \A k \in S : m <= k}
<1>1. 0 \in T
  OBVIOUS
<1>2. CASE \A m \in Nat : m \in T => m + 1 \in T
  <2>1. Nat \subseteq T
    <3> HIDE DEF T
    <3> QED
      BY <1>1, <1>2, SetInduction
  <2>2. PICK k \in S : TRUE
    OBVIOUS
  <2>3. k + 1 \in T
    BY <2>1
  <2> QED
    BY <2>2, <2>3
<1>3. CASE ~\A m \in Nat : m \in T => m + 1 \in T
  <2>1. PICK m \in Nat : m \in T /\ m + 1 \notin T
    BY <1>3
  <2>2. PICK k \in S : ~(m + 1 <= k)
    BY <2>1
  <2>3. k = m
    BY <2>1, <2>2
  <2> QED
    BY <2>1, <2>3
<1> QED
  BY <1>2, <1>3

(* Sets of two at most.                                                     *)
LEMMA TwoAtMost ==
  ASSUME NEW U, NEW x, NEW y, U \subseteq {x, y}
  PROVE  Cardinality(U) \in Nat /\ Cardinality(U) <= 2
<1>1. IsFiniteSet({x}) /\ Cardinality({x}) = 1
  BY FS_Singleton
<1>2. /\ IsFiniteSet({x} \cup {y})
      /\ Cardinality({x} \cup {y}) = IF y \in {x} THEN Cardinality({x}) ELSE Cardinality({x}) + 1
  BY <1>1, FS_AddElement
<1>3. U \subseteq {x} \cup {y}
  OBVIOUS
<1>4. IsFiniteSet(U) /\ Cardinality(U) <= Cardinality({x} \cup {y})
  BY <1>2, <1>3, FS_Subset
<1>5. Cardinality(U) \in Nat
  BY <1>4, FS_CardinalityType
<1> QED
  BY <1>1, <1>2, <1>4, <1>5

(* Only two have less than two after them.                                  *)
FewAfter(users, chosen) == \A i \in chosen : Cardinality({j \in users : j > i}) < 2

LEMMA LastTwo ==
  ASSUME NEW n \in Nat, NEW users \in SUBSET (1..n),
         NEW chosen \in SUBSET users,
         FewAfter(users, chosen)
  PROVE  \E a, b : chosen \subseteq {a, b}
<1>1. CASE chosen = {}
  BY <1>1
<1>2. CASE chosen # {}
  <2>1. PICK a \in chosen : \A j \in chosen : a <= j
    <3>1. chosen \in SUBSET Nat
      OBVIOUS
    <3> QED
      BY <1>2, <3>1, LeastElement
  <2> DEFINE R == {j \in users : j > a}
  <2>2. IsFiniteSet(R)
    <3>1. IsFiniteSet(1..n)
      BY FS_Interval
    <3>2. R \subseteq 1..n
      OBVIOUS
    <3> QED
      BY <3>1, <3>2, FS_Subset
  <2>3. Cardinality(R) \in Nat /\ Cardinality(R) < 2
    BY <2>2, FS_CardinalityType DEF FewAfter
  <2>4. chosen \subseteq {a} \cup R
    BY <2>1
  <2> HIDE DEF R
  <2>5. CASE Cardinality(R) = 0
    <3>1. R = {}
      BY <2>2, <2>5, FS_EmptySet
    <3> QED
      BY <2>4, <3>1
  <2>6. CASE Cardinality(R) = 1
    <3>1. PICK b : R = {b}
      BY <2>2, <2>6, FS_Singleton
    <3>2. chosen \subseteq {a, b}
      BY <2>4, <3>1
    <3> QED
      BY <3>2
  <2> QED
    BY <2>3, <2>5, <2>6
<1> QED
  BY <1>1, <1>2

(* The identity block and the last tool take two marks at most.             *)
LEMMA FixedAtMostTwo ==
  ASSUME NEW identity \in BOOLEAN
  PROVE  FixedMarkers(identity) \in {0, 1, 2}
  BY DEF FixedMarkers

(* Blocks that carry a mark or not.                                         *)
Markable(B) == \A b \in B : b = [type |-> b.type, id |-> b.id, says |-> b.says, marked |-> b.marked]

(* A block without its mark.                                                *)
LEMMA Unmarked ==
  ASSUME NEW b, b = [type |-> b.type, id |-> b.id, says |-> b.says, marked |-> b.marked]
  PROVE  [b EXCEPT !.marked = FALSE].marked = FALSE
  OBVIOUS

Unmarks(s) ==
    \A i \in 1..Len(s) :
      /\ DOMAIN s[i].content = 1..Len(s[i].content)
      /\ s[i] = [role |-> s[i].role, shape |-> s[i].shape, content |-> s[i].content]
      /\ \A j \in DOMAIN s[i].content : s[i].content[j].marked = FALSE

(* What clients mark is cleared.                                            *)
LEMMA StrippedMarks ==
  ASSUME NEW B, Markable(B), NEW ms \in Seq(Turn(B)), NEW s, s = StripClientCacheControl(ms)
  PROVE  Len(s) = Len(ms) /\ Unmarks(s)
<1>1. PICK n \in Nat : n = Len(ms)
  OBVIOUS
<1> DEFINE v(i) == [ms[i] EXCEPT !.content = [j \in DOMAIN @ |-> [@[j] EXCEPT !.marked = FALSE]]]
<1>2. s = [i \in 1..n |-> v(i)]
  BY <1>1 DEF StripClientCacheControl
<1>3. Len(s) = n /\ DOMAIN s = 1..n /\ \A i \in 1..n : s[i] = v(i)
  <2> HIDE DEF v
  <2> QED
    BY <1>2
<1>4. ASSUME NEW i \in 1..n
      PROVE  /\ DOMAIN s[i].content = 1..Len(s[i].content)
             /\ s[i] = [role |-> s[i].role, shape |-> s[i].shape, content |-> s[i].content]
             /\ \A j \in DOMAIN s[i].content : s[i].content[j].marked = FALSE
  <2>1. ms[i] \in Turn(B)
    BY <1>1
  <2> DEFINE m == ms[i]
             c == m.content
             w(j) == [c[j] EXCEPT !.marked = FALSE]
             d == [j \in DOMAIN c |-> w(j)]
  <2>2. c \in Seq(B)
    BY <2>1, TurnFields
  <2>3. m = [role |-> m.role, shape |-> m.shape, content |-> c]
    BY <2>1 DEF Turn
  <2>4. v(i) = [m EXCEPT !.content = d]
    OBVIOUS
  <2> HIDE DEF d, c
  <2>5. v(i) = [role |-> m.role, shape |-> m.shape, content |-> d]
    BY <2>3, <2>4
  <2> HIDE DEF v, m
  <2>6. /\ s[i].content = d
        /\ s[i] = [role |-> s[i].role, shape |-> s[i].shape, content |-> s[i].content]
    BY <1>3, <2>5
  <2>7. PICK l \in Nat : DOMAIN c = 1..l
    BY <2>2, InToSet
  <2>8. \A j \in 1..l : w(j).marked = FALSE
    BY <2>2, <2>7, InToSet, Unmarked DEF Markable
  <2> HIDE DEF w
  <2>9. d = [j \in 1..l |-> w(j)]
    BY <2>7 DEF d
  <2>10. Len(d) = l /\ DOMAIN d = 1..l /\ \A j \in 1..l : d[j] = w(j)
    BY <2>9
  <2>11. \A j \in DOMAIN d : d[j].marked = FALSE
    BY <2>8, <2>10, Zenon
  <2> QED
    BY <2>6, <2>10, <2>11
<1> QED
  BY <1>1, <1>3, <1>4 DEF Unmarks

(* What the plan marks: the last blocks of two turns.                       *)
MarksTwo(p, s, n, a, b) ==
    /\ DOMAIN p = 1..n
    /\ \A i \in 1..n : \A j \in DOMAIN p[i].content :
         p[i].content[j].marked => (i = a \/ i = b) /\ j = Len(s[i].content)

(* The plan marks no other places than these.                               *)
LEMMA MarkedAt ==
  ASSUME NEW n \in Nat, NEW s, Len(s) = n, Unmarks(s), NEW budget, budget \in {2, 3, 4},
         NEW p, p = ApplyCacheBreakpoints(s, budget)
  PROVE  \E a, b : MarksTwo(p, s, n, a, b)
<1> DEFINE users == {i \in 1..n : s[i].role = "user"}
           chosen == {i \in users : Cardinality({j \in users : j > i}) < 2}
           L(i) == Len(s[i].content)
           marked(i) == WithBlocks(s[i], [s[i].content EXCEPT ![L(i)].marked = TRUE])
           v(i) == IF i \in chosen /\ s[i].content # <<>> THEN marked(i) ELSE s[i]
<1>1. p = [i \in 1..n |-> v(i)]
  <2>1. (IF budget >= 2 THEN 2 ELSE budget) = 2
    OBVIOUS
  <2> QED
    BY <2>1 DEF ApplyCacheBreakpoints
<1>2. PICK a, b : chosen \subseteq {a, b}
  <2>1. users \in SUBSET (1..n)
    OBVIOUS
  <2> HIDE DEF users
  <2>2. chosen \in SUBSET users /\ FewAfter(users, chosen)
    BY DEF FewAfter
  <2> HIDE DEF chosen
  <2> QED
    BY <2>1, <2>2, LastTwo
<1>3. DOMAIN p = 1..n /\ \A i \in 1..n : p[i] = v(i)
  <2> HIDE DEF v
  <2> QED
    BY <1>1
<1>4. ASSUME NEW i \in 1..n, NEW j \in DOMAIN p[i].content, p[i].content[j].marked
      PROVE  (i = a \/ i = b) /\ j = L(i)
  <2>1. /\ s[i] = [role |-> s[i].role, shape |-> s[i].shape, content |-> s[i].content]
        /\ \A k \in DOMAIN s[i].content : s[i].content[k].marked = FALSE
    BY DEF Unmarks
  <2>2. i \in chosen /\ s[i].content # <<>>
    <3> SUFFICES ASSUME ~(i \in chosen /\ s[i].content # <<>>) PROVE FALSE
      OBVIOUS
    <3>1. p[i] = s[i]
      BY <1>3
    <3>2. j \in DOMAIN s[i].content /\ s[i].content[j].marked
      BY <1>4, <3>1, Zenon
    <3> QED
      BY <2>1, <3>2, Zenon
  <2>3. p[i] = marked(i)
    BY <1>3, <2>2
  <2> DEFINE c == s[i].content
             d == [c EXCEPT ![L(i)].marked = TRUE]
  <2>4. p[i].content = d
    <3>1. marked(i) = WithBlocks(s[i], d)
      OBVIOUS
    <3> HIDE DEF d, marked
    <3>2. WithBlocks(s[i], d).content = d
      BY <2>1 DEF WithBlocks
    <3> QED
      BY <2>3, <3>1, <3>2
  <2>5. DOMAIN d = DOMAIN c /\ \A k \in DOMAIN c : k # L(i) => d[k] = c[k]
    OBVIOUS
  <2> HIDE DEF d, c
  <2>6. j \in DOMAIN c /\ d[j].marked
    BY <1>4, <2>4, <2>5, Zenon
  <2>7. \A k \in DOMAIN c : c[k].marked = FALSE
    BY <2>1 DEF c
  <2>8. j = L(i)
    BY <2>5, <2>6, <2>7, Zenon
  <2> QED
    BY <1>2, <2>2, <2>8
<1>5. MarksTwo(p, s, n, a, b)
  BY <1>3, <1>4 DEF MarksTwo
<1> QED
  BY <1>5

(* Two marks in the messages and two elsewhere are four.                    *)
LEMMA TwoMarksFit ==
  ASSUME NEW n \in Nat, NEW s, NEW p, NEW a, NEW b, MarksTwo(p, s, n, a, b),
         NEW identity \in BOOLEAN
  PROVE  MarksWithin(p, identity)
<1> DEFINE marked(i) == {j \in DOMAIN p[i].content : p[i].content[j].marked}
           U == UNION {{<<i, j>> : j \in marked(i)} : i \in DOMAIN p}
<1>1. FixedMarkers(identity) \in {0, 1, 2}
  BY FixedAtMostTwo
<1>2. FixedMarkers(identity) + Cardinality(U) <= 4 => MarksWithin(p, identity)
  BY DEF MarksWithin
<1>3. U \subseteq {<<a, Len(s[a].content)>>, <<b, Len(s[b].content)>>}
  <2> SUFFICES ASSUME NEW u \in U
               PROVE  u = <<a, Len(s[a].content)>> \/ u = <<b, Len(s[b].content)>>
    OBVIOUS
  <2>1. PICK i \in 1..n : u \in {<<i, j>> : j \in marked(i)}
    BY DEF MarksTwo
  <2>2. PICK j \in marked(i) : u = <<i, j>>
    BY <2>1
  <2>3. (i = a \/ i = b) /\ j = Len(s[i].content)
    BY <2>2, Zenon DEF MarksTwo
  <2> QED
    BY <2>2, <2>3
<1> HIDE DEF U
<1>4. Cardinality(U) \in Nat /\ Cardinality(U) <= 2
  BY <1>3, TwoAtMost
<1> QED
  BY <1>1, <1>2, <1>4

(* So the plan is within its budget.                                        *)
LEMMA PlanFits ==
  ASSUME NEW B, Markable(B), NEW ms \in Seq(Turn(B)), NEW identity \in BOOLEAN
  PROVE  MarksWithin(Planned(ms, identity), identity)
<1>1. PICK n \in Nat : n = Len(ms)
  OBVIOUS
<1>2. PICK budget : budget = 4 - FixedMarkers(identity)
  OBVIOUS
<1>3. budget \in {2, 3, 4}
  BY <1>2, FixedAtMostTwo
<1>4. PICK s : s = StripClientCacheControl(ms)
  OBVIOUS
<1>5. Len(s) = n /\ Unmarks(s)
  BY <1>1, <1>4, StrippedMarks
<1>6. PICK p : p = ApplyCacheBreakpoints(s, budget)
  OBVIOUS
<1>7. \E a, b : MarksTwo(p, s, n, a, b)
  BY <1>3, <1>5, <1>6, MarkedAt
<1>8. MarksWithin(p, identity)
  BY <1>7, TwoMarksFit
<1> QED
  BY <1>2, <1>4, <1>6, <1>8 DEF Planned

----------------------------------------------------------------------------
(* What clients say, and what sanitizeOpenAIMessages leaves of it.          *)

(* The blocks of a translation, and the turns of one: of results only, or   *)
(* without any.                                                             *)
BlockType == {"text", "image", "input_image", "thinking", "tool_use", "tool_result"}
Said == {"text", "empty", "blank", "bad", "placeholder", "system"} \cup Name
TalkBlock == [type : BlockType, id : Nat, says : Said, marked : BOOLEAN]
NoneResults(s) == \A b \in ToSet(s) : b.type # "tool_result"
TalkTurn == {m \in FitTurn(TalkBlock) : AllResults(m.content) \/ NoneResults(m.content)}

(* Blocks of a translation.                                                 *)
LEMMA BlockIs ==
  ASSUME NEW type \in BlockType, NEW id \in Nat, NEW says \in Said
  PROVE  /\ Block(type, id, says) \in TalkBlock
         /\ Block(type, id, says).type = type /\ Block(type, id, says).says = says
<1> HIDE DEF Said, BlockType
<1> QED
  BY DEF Block, TalkBlock

LEMMA TalkBlocksOK == Answerable(TalkBlock) /\ Markable(TalkBlock)
<1>1. ASSUME NEW b \in TalkBlock PROVE PlaceholderResult(b.id) \in TalkBlock
  <2>1. b.id \in Nat
    BY DEF TalkBlock
  <2>2. "tool_result" \in BlockType /\ "placeholder" \in Said
    BY DEF BlockType, Said
  <2> QED
    BY <2>1, <2>2, BlockIs DEF PlaceholderResult
<1>2. ASSUME NEW b \in TalkBlock
      PROVE  b = [type |-> b.type, id |-> b.id, says |-> b.says, marked |-> b.marked]
  BY DEF TalkBlock
<1> QED
  BY <1>1, <1>2 DEF Answerable, Markable

(* A turn without results.                                                  *)
Speech(shape, c) ==
    /\ shape \in {"string", "blocks"} /\ c \in Seq(TalkBlock) /\ NoneResults(c)
    /\ shape = "string" => \A b \in ToSet(c) : b.type = "text"
    /\ shape = "blocks" => \A b \in ToSet(c) : ~NoCharacters(b)

(* Speech is translated to a turn that is fit.                              *)
LEMMA SpeechIsATurn ==
  ASSUME NEW role \in {"user", "assistant"}, NEW shape, NEW c, Speech(shape, c),
         Voiced(role, c), NEW r, r = Translated(role, shape, c)
  PROVE  r \in TalkTurn
<1>1. r.role = role /\ r.shape = shape /\ r.content = c /\ r \in Turn(TalkBlock)
  <2> HIDE DEF TalkBlock
  <2> QED
    BY DEF Translated, Turn, Speech
<1>2. ResultsLead(c)
  BY LeadWithout DEF Speech, NoneResults
<1>3. Sendable(r)
  BY <1>1, <1>2 DEF Sendable, Speech, NoneResults, Voiced
<1> QED
  BY <1>1, <1>3 DEF TalkTurn, FitTurn, Speech

(* Speech with some of its blocks left out.                                 *)
LEMMA LessSpeech ==
  ASSUME NEW c \in Seq(TalkBlock), NEW good
  PROVE  /\ Only(c, good) \in Seq(TalkBlock)
         /\ ToSet(Only(c, good)) = ToSet(c) \cap good
  BY OnlyKeeps

(* What is left of a message when the history was sanitized.                *)
TalkCall == [id : Nat, name : Name]
CleanMessage(m) ==
    /\ m = [role |-> m.role, shape |-> m.shape, content |-> m.content, calls |-> m.calls, id |-> m.id]
    /\ m.id \in Nat /\ m.calls \in Seq(TalkCall)
    /\ \/ m.role = "tool" /\ m.content = <<Text("text")>>
       \/ /\ m.role \in {"user", "assistant"}
          /\ Speech(m.shape, m.content) /\ Voiced(m.role, m.content)
Talk == [role : {"user", "assistant", "tool"}, shape : {"string", "blocks", "null"},
         content : Seq(TalkBlock), calls : Seq(TalkCall), id : Nat]
CleanTalk == {m \in Talk : CleanMessage(m)}

(* One element, one text.                                                   *)
LEMMA ToSetOne == ASSUME NEW x PROVE ToSet(<<x>>) = {x}
<1>1. DOMAIN <<x>> = {1} /\ <<x>>[1] = x
  OBVIOUS
<1> QED
  BY <1>1 DEF ToSet

LEMMA TextIs ==
  ASSUME NEW says \in Said
  PROVE  /\ Text(says) \in TalkBlock /\ Text(says).type = "text" /\ Text(says).says = says
         /\ <<Text(says)>> \in Seq(TalkBlock) /\ ToSet(<<Text(says)>>) = {Text(says)}
<1>1. Text(says) \in TalkBlock /\ Text(says).type = "text" /\ Text(says).says = says
  <2>1. "text" \in BlockType /\ NoId \in Nat
    BY DEF BlockType, NoId
  <2> QED
    BY <2>1, BlockIs DEF Text
<1> DEFINE x == Text(says)
<1> HIDE DEF x
<1>3. ToSet(<<x>>) = {x}
  BY ToSetOne
<1>4. x \in TalkBlock => <<x>> \in Seq(TalkBlock)
  <2> HIDE DEF TalkBlock
  <2> QED
    OBVIOUS
<1> QED
  BY <1>1, <1>3, <1>4 DEF x

LEMMA SomeTextIs == "text" \in Said /\ "placeholder" \in Said /\ "system" \in Said
  BY DEF Said

(* A message of the conversation, as it came.                               *)
LEMMA ChatIsTalk ==
  ASSUME TalkConstantsOK, TalkTypeOK, NEW m \in ChatMessage
  PROVE  /\ m \in Talk /\ AsSaid(m)
         /\ m = [role |-> m.role, shape |-> m.shape, content |-> m.content, calls |-> m.calls, id |-> m.id]
         /\ m.id \in Nat /\ m.calls \in Seq(TalkCall)
         /\ m.role \in {"user", "assistant", "tool"} /\ m.shape \in {"string", "blocks", "null"}
         /\ m.content \in Seq(TalkBlock)
         /\ \A b \in ToSet(m.content) : b.type \in {"text", "image", "input_image", "thinking"}
<1> DEFINE P == ContentPart \cup {Block("thinking", NoId, "text")}
<1>1. /\ m.role \in {"user", "assistant", "tool"} /\ m.shape \in {"string", "blocks", "null"}
      /\ m.content \in Seq(P) /\ m.calls \in Seq(ToolCall) /\ m.id \in 0..MaxToolCalls /\ AsSaid(m)
      /\ m = [role |-> m.role, shape |-> m.shape, content |-> m.content, calls |-> m.calls, id |-> m.id]
  <2> HIDE DEF P
  <2>1. m \in [role : {"user", "assistant", "tool"}, shape : {"string", "blocks", "null"},
               content : Seq(P), calls : Seq(ToolCall), id : 0..MaxToolCalls] /\ AsSaid(m)
    BY DEF ChatMessage, P
  <2> QED
    BY <2>1
<1>2. \A b \in P : b \in TalkBlock /\ b.type \in {"text", "image", "input_image", "thinking"}
  <2>1. ASSUME NEW b \in ContentPart
        PROVE  b \in TalkBlock /\ b.type \in {"text", "image", "input_image", "thinking"}
    BY DEF ContentPart, TalkBlock, BlockType, Said, Images, NoId
  <2>2. /\ Block("thinking", NoId, "text") \in TalkBlock
        /\ Block("thinking", NoId, "text").type = "thinking"
    <3>1. "thinking" \in BlockType /\ NoId \in Nat /\ "text" \in Said
      BY DEF BlockType, NoId, Said
    <3> QED
      BY <3>1, BlockIs
  <2> QED
    BY <2>1, <2>2
<1>3. ToolCall \subseteq TalkCall /\ 0..MaxToolCalls \subseteq Nat
  BY DEF ToolCall, TalkCall, TalkConstantsOK, TalkTypeOK, Name
<1> HIDE DEF P
<1>4. m.content \in Seq(TalkBlock) /\ m.calls \in Seq(TalkCall) /\ m.id \in Nat
  <2>1. P \subseteq TalkBlock
    BY <1>2
  <2> HIDE DEF TalkBlock, TalkCall, ToolCall
  <2> QED
    BY <1>1, <1>3, <2>1
<1>5. \A b \in ToSet(m.content) : b \in P
  BY <1>1, InToSet
<1>6. m \in Talk
  <2> HIDE DEF TalkBlock, TalkCall
  <2> QED
    BY <1>1, <1>4 DEF Talk
<1> QED
  BY <1>1, <1>2, <1>4, <1>5, <1>6

(* A message with other blocks.                                             *)
LEMMA TalkWithBlocks ==
  ASSUME NEW m \in Talk, NEW blocks \in Seq(TalkBlock), NEW r, r = WithBlocks(m, blocks)
  PROVE  /\ r \in Talk /\ r.role = m.role /\ r.shape = "blocks" /\ r.content = blocks
         /\ r.calls = m.calls /\ r.id = m.id
<1>1. r = [role |-> m.role, shape |-> "blocks", content |-> blocks, calls |-> m.calls, id |-> m.id]
  BY DEF Talk, WithBlocks
<1> HIDE DEF TalkBlock, TalkCall
<1> QED
  BY <1>1 DEF Talk

LEMMA TalkFields ==
  ASSUME NEW m \in Talk
  PROVE  /\ m = [role |-> m.role, shape |-> m.shape, content |-> m.content, calls |-> m.calls, id |-> m.id]
         /\ m.content \in Seq(TalkBlock) /\ m.calls \in Seq(TalkCall) /\ m.id \in Nat
<1> HIDE DEF TalkBlock, TalkCall
<1> QED
  BY DEF Talk

(* A user's or an assistant's message whose content is speech is clean.     *)
LEMMA SpeechIsClean ==
  ASSUME NEW m \in Talk, m.role \in {"user", "assistant"}, Speech(m.shape, m.content),
         Voiced(m.role, m.content)
  PROVE  m \in CleanTalk
  BY TalkFields DEF CleanTalk, CleanMessage

(* Speech has no empty text left in it, or at least none without characters. *)
LEMMA WithoutEmptyIs ==
  ASSUME NEW c \in Seq(TalkBlock), \A b \in ToSet(c) : b.type # "tool_result",
         NEW k, k = WithoutEmptyText(c)
  PROVE  /\ Speech("blocks", k) /\ \A role : Voiced(role, k)
         /\ k # <<>> => \E b \in ToSet(c) : ~EmptyTextBlock(b)
<1> DEFINE good == {b \in ToSet(c) : ~EmptyTextBlock(b)}
<1>1. \A b : b \in good <=> b \in ToSet(c) /\ ~EmptyTextBlock(b)
  OBVIOUS
<1>2. k = Only(c, good)
  BY DEF WithoutEmptyText
<1> HIDE DEF good
<1>3. k \in Seq(TalkBlock) /\ ToSet(k) = ToSet(c) \cap good
  BY <1>2, LessSpeech
<1>4. ToSet(k) = {} => k = <<>>
  BY <1>3, InToSet
<1> QED
  BY <1>1, <1>3, <1>4, NoneIsEmpty DEF Speech, NoneResults, Voiced

LEMMA WithCharactersIs ==
  ASSUME NEW c \in Seq(TalkBlock), \A b \in ToSet(c) : b.type # "tool_result",
         NEW k, k = WithCharacters(c)
  PROVE  Speech("blocks", k)
<1> DEFINE good == {b \in ToSet(c) : ~NoCharacters(b)}
<1>1. \A b : b \in good <=> b \in ToSet(c) /\ ~NoCharacters(b)
  OBVIOUS
<1>2. k = Only(c, good)
  BY DEF WithCharacters
<1> HIDE DEF good
<1>3. k \in Seq(TalkBlock) /\ ToSet(k) = ToSet(c) \cap good
  BY <1>2, LessSpeech
<1> QED
  BY <1>1, <1>3 DEF Speech, NoneResults

LEMMA PlaceholderSpeech ==
  /\ Speech("blocks", EmptyMessage) /\ Speech("string", EmptyMessage)
  /\ \A role : Voiced(role, EmptyMessage)
<1>1. /\ EmptyMessage \in Seq(TalkBlock) /\ ToSet(EmptyMessage) = {Text("placeholder")}
      /\ Text("placeholder").type = "text" /\ Text("placeholder").says = "placeholder"
  BY TextIs, SomeTextIs DEF EmptyMessage
<1> QED
  BY <1>1, NoneIsEmpty DEF Speech, NoneResults, EmptyTextBlock, Voiced

LEMMA TextSpeech == ASSUME NEW says \in Said PROVE Speech("string", <<Text(says)>>)
<1>1. /\ <<Text(says)>> \in Seq(TalkBlock) /\ ToSet(<<Text(says)>>) = {Text(says)}
      /\ Text(says).type = "text"
  BY TextIs
<1> QED
  BY <1>1 DEF Speech, NoneResults

(* What a client keeps of a reply.                                          *)
LEMMA ReplyIs ==
  ASSUME NEW c \in ReplyContent
  PROVE  \/ c.shape = "string" /\ \E says \in {"text", "blank", "empty"} : c.content = <<Text(says)>>
         \/ c.shape = "null" /\ c.content = <<>>
         \/ c.shape = "blocks" /\ c.content = <<Block("thinking", NoId, "text")>>
<1>1. CASE \E says \in {"text", "blank", "empty"} :
             c = [shape |-> "string", content |-> <<Text(says)>>]
  BY <1>1
<1>2. CASE c = [shape |-> "null", content |-> <<>>]
  BY <1>2
<1>3. CASE c = [shape |-> "blocks", content |-> <<Block("thinking", NoId, "text")>>]
  BY <1>3
<1> QED
  BY <1>1, <1>2, <1>3 DEF ReplyContent

(* What a user says.                                                        *)
LEMMA UserSays ==
  ASSUME TalkConstantsOK, NEW m, AsSaid(m), m.role = "user"
  PROVE  /\ m.shape \in {"string", "blocks"}
         /\ m.shape = "string" =>
              \E part : part.type = "text" /\ ToSet(m.content) = {part}
<1>1. PICK c \in UserContent : c = [shape |-> m.shape, content |-> m.content]
  BY DEF AsSaid
<1>2. c.shape = m.shape /\ c.content = m.content
  BY <1>1
<1>3. c.shape \in {"string", "blocks"}
  BY DEF TalkConstantsOK
<1>4. ASSUME m.shape = "string" PROVE \E part : part.type = "text" /\ ToSet(m.content) = {part}
  <2>1. PICK part \in ContentPart : part.type = "text" /\ m.content = <<part>>
    BY <1>2, <1>4 DEF TalkConstantsOK
  <2> QED
    BY <2>1, ToSetOne
<1> QED
  BY <1>2, <1>3, <1>4

(* What sanitizing leaves of one message.                                   *)
LEMMA SanitizeOne ==
  ASSUME TalkConstantsOK, TalkTypeOK, NEW m \in ChatMessage, NEW q, q = SanitizeMessage(m)
  PROVE  q = <<>> \/ \E r \in CleanTalk : q = <<r>>
<1>1. /\ m \in Talk /\ AsSaid(m) /\ m.role \in {"user", "assistant", "tool"}
      /\ m.shape \in {"string", "blocks", "null"}
      /\ m.content \in Seq(TalkBlock)
      /\ \A b \in ToSet(m.content) : b.type \in {"text", "image", "input_image", "thinking"}
  BY ChatIsTalk
<1>2. NoneResults(m.content) /\ \A b \in ToSet(m.content) : b.type # "tool_result"
  BY <1>1 DEF NoneResults
<1>3. CASE m.role = "tool"
  <2>1. q = <<m>>
    BY <1>3 DEF SanitizeMessage
  <2>2. m \in CleanTalk
    BY <1>1, <1>3, TalkFields DEF CleanTalk, CleanMessage, AsSaid
  <2> QED
    BY <2>1, <2>2
<1>4. CASE m.role = "user"
  <2>1. q = SanitizeUser(m)
    BY <1>4 DEF SanitizeMessage
  <2>2. PICK k : k = WithoutEmptyText(m.content)
    OBVIOUS
  <2>3. /\ Speech("blocks", k) /\ \A role : Voiced(role, k)
        /\ k # <<>> => \E b \in ToSet(m.content) : ~EmptyTextBlock(b)
    BY <1>1, <1>2, <2>2, WithoutEmptyIs
  <2>4. /\ m.shape \in {"string", "blocks"}
        /\ m.shape = "string" => \E part : part.type = "text" /\ ToSet(m.content) = {part}
    BY <1>1, <1>4, UserSays
  <2>5. CASE m.shape = "string" /\ k # <<>>
    <3>1. q = <<m>>
      BY <2>1, <2>2, <2>5 DEF SanitizeUser
    <3>2. Speech(m.shape, m.content) /\ Voiced(m.role, m.content)
      BY <1>1, <1>2, <2>3, <2>4, <2>5 DEF Speech, Voiced
    <3> QED
      BY <1>1, <1>4, <3>1, <3>2, SpeechIsClean
  <2>6. CASE m.shape = "string" /\ k = <<>>
    <3>1. PICK r : r = [m EXCEPT !.content = EmptyMessage]
      OBVIOUS
    <3>2. q = <<r>>
      BY <2>1, <2>2, <2>6, <3>1 DEF SanitizeUser
    <3>3. r = [role |-> m.role, shape |-> m.shape, content |-> EmptyMessage, calls |-> m.calls, id |-> m.id]
      BY <1>1, <3>1, TalkFields
    <3>4. EmptyMessage \in Seq(TalkBlock)
      BY PlaceholderSpeech DEF Speech
    <3>5. r \in Talk /\ r.role = m.role /\ r.shape = m.shape /\ r.content = EmptyMessage
      <4> HIDE DEF TalkBlock, TalkCall
      <4> QED
        BY <1>1, <3>3, <3>4 DEF Talk
    <3> QED
      BY <1>4, <2>6, <3>2, <3>5, PlaceholderSpeech, SpeechIsClean
  <2>7. CASE m.shape # "string" /\ k = <<>>
    <3>1. PICK r : r = WithBlocks(m, EmptyMessage)
      OBVIOUS
    <3>2. q = <<r>>
      BY <2>1, <2>2, <2>7, <3>1 DEF SanitizeUser
    <3>3. EmptyMessage \in Seq(TalkBlock)
      BY PlaceholderSpeech DEF Speech
    <3>4. r \in Talk /\ r.role = m.role /\ r.shape = "blocks" /\ r.content = EmptyMessage
      BY <1>1, <3>1, <3>3, TalkWithBlocks
    <3> QED
      BY <1>4, <3>2, <3>4, PlaceholderSpeech, SpeechIsClean
  <2>8. CASE m.shape # "string" /\ k # <<>>
    <3>1. PICK r : r = WithBlocks(m, k)
      OBVIOUS
    <3>2. q = <<r>>
      BY <2>1, <2>2, <2>8, <3>1 DEF SanitizeUser
    <3>3. k \in Seq(TalkBlock)
      BY <2>3 DEF Speech
    <3>4. r \in Talk /\ r.role = m.role /\ r.shape = "blocks" /\ r.content = k
      BY <1>1, <3>1, <3>3, TalkWithBlocks
    <3> QED
      BY <1>4, <2>3, <3>2, <3>4, SpeechIsClean
  <2> QED
    BY <2>5, <2>6, <2>7, <2>8
<1>5. CASE m.role = "assistant"
  <2>1. q = SanitizeAssistant(m)
    BY <1>5 DEF SanitizeMessage
  <2>2. PICK blocks : blocks = BlocksOf(m)
    OBVIOUS
  <2>3. blocks \in Seq(TalkBlock) /\ \A b \in ToSet(blocks) : b.type # "tool_result"
    <3>1. CASE m.shape = "blocks"
      BY <1>1, <1>2, <2>2, <3>1 DEF BlocksOf
    <3>2. CASE m.shape # "blocks"
      <4>1. blocks = <<>>
        BY <2>2, <3>2 DEF BlocksOf
      <4>2. ToSet(<<>>) = {} /\ <<>> \in Seq(TalkBlock)
        BY DEF ToSet
      <4> QED
        BY <4>1, <4>2
    <3> QED
      BY <3>1, <3>2
  <2>4. PICK k : k = WithoutEmptyText(blocks)
    OBVIOUS
  <2>5. Speech("blocks", k) /\ \A role : Voiced(role, k)
    BY <2>3, <2>4, WithoutEmptyIs
  <2>6. CASE m.shape = "string"
    <3>1. q = <<m>>
      BY <2>1, <2>6 DEF SanitizeAssistant
    <3>2. PICK says \in {"text", "blank", "empty"} : m.content = <<Text(says)>>
      <4>1. PICK c \in ReplyContent : c = [shape |-> m.shape, content |-> m.content]
        BY <1>1, <1>5 DEF AsSaid
      <4>2. c.shape = "string" /\ c.content = m.content
        BY <2>6, <4>1
      <4> QED
        BY <4>2, ReplyIs
    <3>3. Speech(m.shape, m.content) /\ Voiced(m.role, m.content)
      BY <1>5, <2>6, <3>2, TextSpeech DEF Said, Voiced
    <3> QED
      BY <1>1, <1>5, <3>1, <3>3, SpeechIsClean
  <2>7. CASE m.shape # "string"
    <3>1. q = <<>> \/ q = <<WithBlocks(m, k)>>
      BY <2>1, <2>2, <2>4, <2>7 DEF SanitizeAssistant
    <3>2. PICK r : r = WithBlocks(m, k)
      OBVIOUS
    <3>3. k \in Seq(TalkBlock)
      BY <2>5 DEF Speech
    <3>4. r \in Talk /\ r.role = m.role /\ r.shape = "blocks" /\ r.content = k
      BY <1>1, <3>2, <3>3, TalkWithBlocks
    <3>5. r \in CleanTalk
      BY <1>5, <2>5, <3>4, SpeechIsClean
    <3> QED
      BY <3>1, <3>2, <3>5
  <2> QED
    BY <2>6, <2>7
<1> QED
  BY <1>1, <1>3, <1>4, <1>5

(* The whole history, sanitized.                                            *)
LEMMA SanitizeGives ==
  ASSUME TalkConstantsOK, TalkTypeOK
  PROVE  Sanitize(talked) \in Seq(CleanTalk)
<1> DEFINE seqs == [i \in 1..Len(talked) |-> SanitizeMessage(talked[i])]
           T == CleanTalk
<1>1. PICK n \in Nat : n = Len(talked)
  BY DEF TalkTypeOK
<1>2. \A i \in 1..n : talked[i] \in ChatMessage
  BY <1>1 DEF TalkTypeOK
<1>3. Sanitize(talked) = FlattenSeq(seqs)
  BY DEF Sanitize, Rewrite
<1>4. ASSUME NEW i \in 1..n PROVE SanitizeMessage(talked[i]) \in Seq(T)
  <2>1. PICK q : q = SanitizeMessage(talked[i])
    OBVIOUS
  <2>2. q = <<>> \/ \E r \in T : q = <<r>>
    BY <1>2, <2>1, SanitizeOne
  <2> HIDE DEF T
  <2>3. (\A r \in T : <<r>> \in Seq(T)) /\ <<>> \in Seq(T)
    OBVIOUS
  <2>4. q \in Seq(T)
    BY <2>2, <2>3, Zenon
  <2> QED
    BY <2>1, <2>4
<1>5. seqs \in Seq(Seq(T)) /\ Len(seqs) = n
  BY <1>1, <1>4
<1> HIDE DEF seqs, T
<1>6. FlattenSeq(seqs) \in Seq(T)
  BY <1>5, Rewritten
<1> QED
  BY <1>3, <1>6 DEF T

----------------------------------------------------------------------------
(* The translation loop of openaiToAnthropic, and the system prompt.         *)

(* Speech without the pictures that cannot be sent.                         *)
LEMMA SendableSpeech ==
  ASSUME NEW c, Speech("blocks", c), NEW k, k = ToAnthropicContentBlocks(c)
  PROVE  Speech("blocks", k) /\ ToSet(k) \subseteq ToSet(c)
<1> DEFINE good == {b \in ToSet(c) : ~(b.type \in Images /\ b.says = "bad")}
<1>1. k = Only(c, good)
  BY DEF ToAnthropicContentBlocks
<1> HIDE DEF good
<1>2. c \in Seq(TalkBlock)
  BY DEF Speech
<1>3. k \in Seq(TalkBlock) /\ ToSet(k) = ToSet(c) \cap good
  BY <1>1, <1>2, LessSpeech
<1> QED
  BY <1>3 DEF Speech, NoneResults

LEMMA SpeechOf ==
  ASSUME NEW shape, NEW c, Speech(shape, c), NEW k,
         k = IF shape = "string" THEN c ELSE ToAnthropicContentBlocks(c)
  PROVE  Speech(shape, k) /\ ToSet(k) \subseteq ToSet(c)
<1>1. CASE shape = "string"
  BY <1>1
<1>2. CASE shape = "blocks"
  BY <1>2, SendableSpeech
<1> QED
  BY <1>1, <1>2 DEF Speech

(* An assistant's turn: what it says, and its calls.                        *)
LEMMA AssistantSpeech ==
  ASSUME NEW m, Speech(m.shape, m.content), m.calls \in Seq(TalkCall),
         NEW k, k = AssistantBlocks(m)
  PROVE  Speech("blocks", k)
<1> DEFINE x == IF m.shape = "string" THEN m.content ELSE ToAnthropicContentBlocks(m.content)
           said == WithCharacters(x)
           u(i) == ToolUse(m.calls[i])
           uses == [i \in 1..Len(m.calls) |-> ToolUse(m.calls[i])]
<1>1. k = said \o uses
  BY DEF AssistantBlocks
<1>2. Speech(m.shape, x)
  BY SpeechOf
<1>3. Speech("blocks", said)
  <2>1. x \in Seq(TalkBlock) /\ \A b \in ToSet(x) : b.type # "tool_result"
    BY <1>2 DEF Speech, NoneResults
  <2> HIDE DEF x
  <2> QED
    BY <2>1, WithCharactersIs
<1>4. PICK n \in Nat : n = Len(m.calls)
  OBVIOUS
<1>5. ASSUME NEW i \in 1..n
      PROVE  u(i) \in TalkBlock /\ u(i).type = "tool_use"
  <2>1. m.calls[i] \in TalkCall
    BY <1>4
  <2>2. m.calls[i].id \in Nat /\ m.calls[i].name \in Said
    BY <2>1 DEF TalkCall, Said
  <2>3. "tool_use" \in BlockType
    BY DEF BlockType
  <2> QED
    BY <2>2, <2>3, BlockIs DEF ToolUse
<1>6. uses = [i \in 1..n |-> u(i)]
  BY <1>4
<1> HIDE DEF u, uses
<1>7. uses \in Seq(TalkBlock) /\ Len(uses) = n /\ \A i \in 1..n : uses[i] = u(i)
  <2> HIDE DEF TalkBlock
  <2> QED
    BY <1>5, <1>6
<1>8. \A b \in ToSet(uses) : b.type = "tool_use"
  BY <1>5, <1>7, InToSet
<1>9. said \in Seq(TalkBlock)
  BY <1>3 DEF Speech
<1> HIDE DEF said
<1>10. k \in Seq(TalkBlock) /\ ToSet(k) = ToSet(said) \cup ToSet(uses)
  BY <1>1, <1>7, <1>9, ToSetConcat
<1> QED
  BY <1>3, <1>8, <1>10 DEF Speech, NoneResults, NoCharacters

(* A result, in a turn of its own or behind those of its batch.             *)
LEMMA ResultTurn ==
  ASSUME NEW c \in Seq(TalkBlock), AllResults(c), NEW m,
         m = [role |-> "user", shape |-> "blocks", content |-> c]
  PROVE  m \in TalkTurn
<1>1. m.role = "user" /\ m.shape = "blocks" /\ m.content = c /\ m \in Turn(TalkBlock)
  <2> HIDE DEF TalkBlock
  <2> QED
    BY DEF Turn
<1>2. ResultsLead(c)
  BY LeadAll
<1>3. Sendable(m)
  BY <1>1, <1>2 DEF Sendable, AllResults, EmptyTextBlock, NoCharacters, Voiced
<1> QED
  BY <1>1, <1>3 DEF TalkTurn, FitTurn

LEMMA ToSetAppend ==
  ASSUME NEW B, NEW c \in Seq(B), NEW r \in B
  PROVE  Append(c, r) \in Seq(B) /\ ToSet(Append(c, r)) = ToSet(c) \cup {r}
<1>1. PICK one : one = <<r>>
  OBVIOUS
<1>2. Append(c, r) = c \o one /\ one \in Seq(B)
  BY <1>1
<1>3. ToSet(one) = {r}
  BY <1>1, ToSetOne
<1>4. c \o one \in Seq(B) /\ ToSet(c \o one) = ToSet(c) \cup ToSet(one)
  BY <1>2, ToSetConcat
<1> QED
  BY <1>2, <1>3, <1>4

LEMMA ReplacedLast ==
  ASSUME NEW S, NEW s \in Seq(S), NEW x \in S, Len(s) \in 1..Len(s)
  PROVE  [s EXCEPT ![Len(s)] = x] \in Seq(S)
  BY ExceptSeq

(* One message more is translated to turns that are fit.                    *)
LEMMA TranslateOne ==
  ASSUME NEW ts \in Seq(TalkTurn), NEW m \in CleanTalk, NEW r, r = TranslateMessage(ts, m)
  PROVE  r \in Seq(TalkTurn)
<1>1. /\ m.id \in Nat /\ m.calls \in Seq(TalkCall)
      /\ \/ m.role = "tool" /\ m.content = <<Text("text")>>
         \/ /\ m.role \in {"user", "assistant"}
            /\ Speech(m.shape, m.content) /\ Voiced(m.role, m.content)
  BY DEF CleanTalk, CleanMessage
<1>2. \A x \in TalkTurn : Append(ts, x) \in Seq(TalkTurn)
  <2> HIDE DEF TalkTurn
  <2> QED
    OBVIOUS
<1>3. CASE m.role = "tool" /\ m.content = <<Text("text")>>
  <2>1. PICK result : result = Block("tool_result", m.id, m.content[1].says)
    OBVIOUS
  <2>2. result \in TalkBlock /\ result.type = "tool_result"
    <3>1. m.content[1].says = "text"
      <4>1. m.content[1] = Text("text")
        BY <1>3, OneLong
      <4> QED
        BY <4>1, TextIs, SomeTextIs
    <3>2. "tool_result" \in BlockType /\ "text" \in Said
      BY DEF BlockType, Said
    <3> QED
      BY <1>1, <2>1, <3>1, <3>2, BlockIs
  <2>3. CASE IsBatch(ts)
    <3>1. PICK l : l = Last(ts)
      OBVIOUS
    <3>2. /\ l \in TalkTurn /\ Len(ts) \in 1..Len(ts) /\ l = ts[Len(ts)]
      <4>1. ts # <<>>
        BY <2>3 DEF IsBatch
      <4>2. l = ts[Len(ts)]
        BY <3>1 DEF Last
      <4> HIDE DEF TalkTurn
      <4> QED
        BY <4>1, <4>2
    <3>3. l \in Turn(TalkBlock) /\ (AllResults(l.content) \/ NoneResults(l.content))
      BY <3>2 DEF TalkTurn, FitTurn
    <3>4. /\ l.role = "user" /\ BlocksOf(l) # <<>> /\ l.content[1].type = "tool_result"
      BY <2>3, <3>1 DEF IsBatch
    <3>5. l.shape = "blocks" /\ BlocksOf(l) = l.content /\ l.content \in Seq(TalkBlock)
      BY <3>3, <3>4, TurnFields
    <3>6. AllResults(l.content)
      <4>1. 1 \in 1..Len(l.content)
        BY <3>4, <3>5
      <4>2. l.content[1] \in ToSet(l.content)
        BY <3>5, <4>1, InToSet
      <4> QED
        BY <3>3, <3>4, <4>2 DEF NoneResults
    <3>7. PICK c : c = Append(l.content, result)
      OBVIOUS
    <3>8. c \in Seq(TalkBlock) /\ AllResults(c)
      BY <2>2, <3>5, <3>6, <3>7, ToSetAppend DEF AllResults
    <3>9. PICK x : x = [role |-> "user", shape |-> "blocks", content |-> c]
      OBVIOUS
    <3>10. x \in TalkTurn
      BY <3>8, <3>9, ResultTurn
    <3>11. x = [l EXCEPT !.content = c]
      BY <3>3, <3>4, <3>5, <3>9 DEF Turn
    <3>12. r = [ts EXCEPT ![Len(ts)] = x]
      <4>1. r = [ts EXCEPT ![Len(ts)].content = Append(@, result)]
        BY <1>3, <2>1, <2>3 DEF TranslateMessage
      <4>2. r = [ts EXCEPT ![Len(ts)] = [ts[Len(ts)] EXCEPT !.content = Append(ts[Len(ts)].content, result)]]
        BY <4>1
      <4> QED
        BY <3>2, <3>7, <3>11, <4>2
    <3> QED
      BY <3>2, <3>10, <3>12, ReplacedLast
  <2>4. CASE ~IsBatch(ts)
    <3>1. PICK x : x = [role |-> "user", shape |-> "blocks", content |-> <<result>>]
      OBVIOUS
    <3>2. r = Append(ts, x)
      BY <1>3, <2>1, <2>4, <3>1 DEF TranslateMessage, Translated
    <3>3. <<result>> \in Seq(TalkBlock) /\ AllResults(<<result>>)
      <4>1. ToSet(<<result>>) = {result}
        BY ToSetOne
      <4> HIDE DEF TalkBlock
      <4> QED
        BY <2>2, <4>1 DEF AllResults
    <3>4. x \in TalkTurn
      BY <3>1, <3>3, ResultTurn
    <3> QED
      BY <1>2, <3>2, <3>4
  <2> QED
    BY <2>3, <2>4
<1>4. CASE /\ m.role \in {"user", "assistant"}
           /\ Speech(m.shape, m.content) /\ Voiced(m.role, m.content)
  <2>1. CASE m.role = "assistant" /\ m.calls # <<>>
    <3>1. PICK x : x = Translated("assistant", "blocks", AssistantBlocks(m))
      OBVIOUS
    <3>2. r = Append(ts, x)
      BY <2>1, <3>1 DEF TranslateMessage
    <3>3. Speech("blocks", AssistantBlocks(m))
      BY <1>1, <1>4, AssistantSpeech
    <3>4. x \in TalkTurn
      BY <3>1, <3>3, SpeechIsATurn DEF Voiced
    <3> QED
      BY <1>2, <3>2, <3>4
  <2>2. CASE ~(m.role = "assistant" /\ m.calls # <<>>)
    <3>1. PICK k : k = IF m.shape = "string" THEN m.content ELSE ToAnthropicContentBlocks(m.content)
      OBVIOUS
    <3>2. PICK x : x = Translated(m.role, m.shape, k)
      OBVIOUS
    <3>3. r = Append(ts, x)
      BY <1>4, <2>2, <3>1, <3>2 DEF TranslateMessage
    <3>4. Speech(m.shape, k) /\ Voiced(m.role, k)
      BY <1>4, <3>1, SpeechOf DEF Voiced
    <3>5. x \in TalkTurn
      BY <1>4, <3>2, <3>4, SpeechIsATurn
    <3> QED
      BY <1>2, <3>3, <3>5
  <2> QED
    BY <2>1, <2>2
<1> QED
  BY <1>1, <1>3, <1>4

(* A function that is defined from place to place exists.                   *)
GoesOn(f, n, base, step) ==
    f[0] = base /\ \A k \in 1..n : f[k] = step[<<f[k - 1], k>>]

LEMMA Recursion ==
  ASSUME NEW S, NEW base \in S, NEW n \in Nat, NEW step \in [S \X (1..n) -> S]
  PROVE  \E f \in [0..n -> S] : GoesOn(f, n, base, step)
<1> DEFINE T == {m \in Nat : m <= n => \E f \in [0..m -> S] : GoesOn(f, m, base, step)}
<1>1. 0 \in T
  <2> DEFINE g == [k \in 0..0 |-> base]
  <2>1. g \in [0..0 -> S] /\ GoesOn(g, 0, base, step)
    BY DEF GoesOn
  <2> QED
    BY <2>1
<1>2. ASSUME NEW m \in Nat, m \in T PROVE m + 1 \in T
  <2> SUFFICES ASSUME m + 1 <= n PROVE \E g \in [0..m + 1 -> S] : GoesOn(g, m + 1, base, step)
    OBVIOUS
  <2>1. PICK f \in [0..m -> S] : GoesOn(f, m, base, step)
    <3>1. m <= n
      OBVIOUS
    <3> QED
      BY <1>2, <3>1
  <2>2. PICK last \in S : last = step[<<f[m], m + 1>>]
    <3>1. <<f[m], m + 1>> \in S \X (1..n)
      OBVIOUS
    <3> QED
      BY <3>1
  <2> DEFINE g == [k \in 0..m + 1 |-> IF k <= m THEN f[k] ELSE last]
  <2>3. /\ g \in [0..m + 1 -> S] /\ (\A k \in 0..m : g[k] = f[k]) /\ g[m + 1] = last
    OBVIOUS
  <2> HIDE DEF g
  <2>4. g[0] = base
    BY <2>1, <2>3 DEF GoesOn
  <2>5. ASSUME NEW k \in 1..m + 1 PROVE g[k] = step[<<g[k - 1], k>>]
    <3>1. CASE k = m + 1
      <4>1. k - 1 = m /\ m \in 0..m
        BY <3>1
      <4> QED
        BY <2>2, <2>3, <3>1, <4>1
    <3>2. CASE k \in 1..m
      <4>1. k \in 0..m /\ k - 1 \in 0..m
        BY <3>2
      <4>2. g[k] = f[k] /\ g[k - 1] = f[k - 1]
        BY <2>3, <4>1
      <4> QED
        BY <2>1, <3>2, <4>2 DEF GoesOn
    <3> QED
      BY <3>1, <3>2
  <2>6. GoesOn(g, m + 1, base, step)
    BY <2>4, <2>5 DEF GoesOn
  <2> QED
    BY <2>3, <2>6
<1>3. n \in T
  <2> HIDE DEF T
  <2> QED
    BY <1>1, <1>2, SetInduction
<1> QED
  BY <1>3

(* f gives the translation after each message.                              *)
TurnByTurn(f, ms) ==
    f[0] = <<>> /\ \A k \in 1..Len(ms) : f[k] = TranslateMessage(f[k - 1], ms[k])

LEMMA TranslatesInTurn ==
  ASSUME NEW ms \in Seq(CleanTalk)
  PROVE  \E f : TurnByTurn(f, ms) /\ Translate(ms) = f[Len(ms)]
<1>1. PICK n \in Nat : n = Len(ms)
  OBVIOUS
<1> DEFINE S == Seq(TalkTurn)
           step == [p \in S \X (1..n) |-> TranslateMessage(p[1], ms[p[2]])]
           v(h, k) == IF k = 0 THEN <<>> ELSE TranslateMessage(h[k - 1], ms[k])
           Computes(h) == h = [k \in 0..n |-> v(h, k)]
           c == CHOOSE h : Computes(h)
<1>2. \A x \in S, k \in 1..n : TranslateMessage(x, ms[k]) \in S
  <2> SUFFICES ASSUME NEW x \in S, NEW k \in 1..n PROVE TranslateMessage(x, ms[k]) \in S
    OBVIOUS
  <2>1. ms[k] \in CleanTalk
    BY <1>1
  <2> QED
    BY <2>1, TranslateOne
<1>a. \A x \in S, k \in 1..n : step[<<x, k>>] = TranslateMessage(x, ms[k])
  <2> HIDE DEF S
  <2> QED
    OBVIOUS
<1>3. step \in [S \X (1..n) -> S] /\ <<>> \in S
  <2>1. <<>> \in S
    <3> HIDE DEF TalkTurn
    <3> QED
      OBVIOUS
  <2> HIDE DEF S
  <2> QED
    BY <1>2, <2>1
<1> HIDE DEF step, S
<1>4. PICK f \in [0..n -> S] : GoesOn(f, n, <<>>, step)
  BY <1>3, Recursion
<1>5. \A k \in 0..n : f[k] = v(f, k)
  <2>1. ASSUME NEW k \in 1..n PROVE f[k] = TranslateMessage(f[k - 1], ms[k])
    <3>1. k - 1 \in 0..n
      OBVIOUS
    <3>2. f[k - 1] \in S
      BY <3>1
    <3>3. f[k] = step[<<f[k - 1], k>>]
      BY <1>4 DEF GoesOn
    <3> QED
      BY <1>a, <3>2, <3>3
  <2>2. f[0] = <<>>
    BY <1>4 DEF GoesOn
  <2> QED
    BY <2>1, <2>2
<1>6. Computes(f)
  <2> HIDE DEF v
  <2> QED
    BY <1>5
<1>7. Computes(c)
  BY <1>6
<1>8. Translate(ms) = c[n]
  BY <1>1 DEF Translate
<1> HIDE DEF c
<1>9. \A k \in 0..n : c[k] = v(c, k)
  <2> HIDE DEF v
  <2> QED
    BY <1>7
<1>10. TurnByTurn(c, ms)
  <2>1. 0 \in 0..n /\ \A k \in 1..n : k \in 0..n /\ k # 0
    OBVIOUS
  <2> QED
    BY <1>1, <1>9, <2>1 DEF TurnByTurn
<1> QED
  BY <1>1, <1>8, <1>10

(* The whole history, translated.                                           *)
LEMMA TranslateGives ==
  ASSUME NEW ms \in Seq(CleanTalk)
  PROVE  Translate(ms) \in Seq(TalkTurn)
<1>1. PICK n \in Nat : n = Len(ms)
  OBVIOUS
<1>2. PICK f : TurnByTurn(f, ms) /\ Translate(ms) = f[n]
  BY <1>1, TranslatesInTurn
<1> DEFINE T == {k \in Nat : k <= n => f[k] \in Seq(TalkTurn)}
<1>3. 0 \in T
  <2>1. f[0] = <<>>
    BY <1>2 DEF TurnByTurn
  <2> HIDE DEF TalkTurn
  <2>2. <<>> \in Seq(TalkTurn)
    OBVIOUS
  <2>3. f[0] \in Seq(TalkTurn)
    BY <2>1, <2>2
  <2> QED
    BY <2>3
<1>4. ASSUME NEW k \in Nat, k \in T PROVE k + 1 \in T
  <2> SUFFICES ASSUME k + 1 <= n PROVE f[k + 1] \in Seq(TalkTurn)
    OBVIOUS
  <2>1. k + 1 \in 1..n /\ (k + 1) - 1 = k /\ k <= n
    OBVIOUS
  <2>2. f[k] \in Seq(TalkTurn) /\ ms[k + 1] \in CleanTalk
    BY <1>1, <1>4, <2>1
  <2>3. f[k + 1] = TranslateMessage(f[k], ms[k + 1])
    BY <1>1, <1>2, <2>1 DEF TurnByTurn
  <2> QED
    BY <2>2, <2>3, TranslateOne
<1>5. n \in T
  <2> HIDE DEF T
  <2> QED
    BY <1>3, <1>4, SetInduction
<1> QED
  BY <1>2, <1>5

(* The system prompt goes into a user turn, as a text.                      *)
LEMMA ToSetReplaced ==
  ASSUME NEW B, NEW c \in Seq(B), NEW t \in 1..Len(c), NEW x \in B,
         NEW d, d = [c EXCEPT ![t] = x]
  PROVE  d \in Seq(B) /\ x \in ToSet(d) /\ \A b \in ToSet(d) : b = x \/ b \in ToSet(c)
<1>1. /\ d \in Seq(B) /\ Len(d) = Len(c)
      /\ \A j \in 1..Len(c) : d[j] = IF j = t THEN x ELSE c[j]
  BY ExceptSeq
<1>2. x \in ToSet(d)
  BY <1>1, InToSet
<1>3. ASSUME NEW b \in ToSet(d) PROVE b = x \/ b \in ToSet(c)
  <2>1. PICK j \in DOMAIN d : b = d[j]
    BY DEF ToSet
  <2>2. j \in 1..Len(c)
    BY <1>1, <2>1
  <2> QED
    BY <1>1, <2>1, <2>2, InToSet
<1> QED
  BY <1>1, <1>2, <1>3

LEMMA SystemTurn ==
  ASSUME NEW m \in FitTurn(TalkBlock), m.role = "user", NEW d \in Seq(TalkBlock), NEW x \in ToSet(d),
         x.type = "text", x.says = "system", \A b \in ToSet(d) : b = x \/ b \in ToSet(m.content),
         ResultsLead(d), NEW r, r = [m EXCEPT !.content = d]
  PROVE  r \in FitTurn(TalkBlock)
<1>1. m \in Turn(TalkBlock) /\ Sendable(m)
  BY DEF FitTurn
<1>2. r = [role |-> m.role, shape |-> m.shape, content |-> d]
  BY <1>1 DEF Turn
<1>3. r \in Turn(TalkBlock) /\ r.role = "user" /\ r.shape = m.shape /\ r.content = d
  <2> HIDE DEF TalkBlock
  <2> QED
    BY <1>1, <1>2 DEF Turn
<1>4. Sendable(r)
  BY <1>1, <1>3 DEF Sendable, Voiced, EmptyTextBlock, NoCharacters
<1> QED
  BY <1>3, <1>4 DEF FitTurn

(* The turn that takes the system prompt stays fit.                         *)
LEMMA PrependGives ==
  ASSUME NEW ms \in Seq(TalkTurn), NEW r, r = PrependSystem(ms)
  PROVE  r \in Seq(FitTurn(TalkBlock))
<1> DEFINE users == {i \in 1..Len(ms) : ms[i].role = "user"}
           u == CHOOSE i \in users : \A j \in users : i <= j
           texts == {j \in 1..Len(ms[u].content) : ms[u].content[j].type = "text"}
           t == CHOOSE j \in texts : \A k \in texts : j <= k
           F == FitTurn(TalkBlock)
<1>1. TalkTurn \subseteq F
  BY DEF TalkTurn
<1>2. ms \in Seq(F)
  <2> HIDE DEF TalkTurn, F
  <2> QED
    BY <1>1, SMTT(30)
<1>3. r = IF ~hasSystem \/ users = {} THEN ms
          ELSE IF texts # {} THEN [ms EXCEPT ![u].content[t].says = "system"]
          ELSE [ms EXCEPT ![u].content = <<Text("system")>> \o @]
  BY DEF PrependSystem
<1>4. ASSUME users # {} PROVE u \in users
  <2>1. users \in SUBSET Nat
    OBVIOUS
  <2> HIDE DEF users
  <2>2. \E i \in users : \A j \in users : i <= j
    BY <1>4, <2>1, LeastElement
  <2> QED
    BY <2>2
<1>5. ASSUME texts # {} PROVE t \in texts
  <2>1. texts \in SUBSET Nat
    OBVIOUS
  <2> HIDE DEF texts
  <2>2. \E j \in texts : \A k \in texts : j <= k
    BY <1>5, <2>1, LeastElement
  <2> QED
    BY <2>2
<1> HIDE DEF u, t
<1>6. CASE ~hasSystem \/ users = {}
  BY <1>2, <1>3, <1>6
<1>7. CASE ~(~hasSystem \/ users = {})
  <2>1. u \in 1..Len(ms) /\ ms[u].role = "user"
    BY <1>4, <1>7
  <2>2. PICK m \in F : m = ms[u] /\ (AllResults(m.content) \/ NoneResults(m.content))
    <3>1. ms[u] \in TalkTurn
      <4> HIDE DEF TalkTurn
      <4> QED
        BY <2>1
    <3> QED
      BY <1>2, <2>1, <3>1 DEF TalkTurn
  <2>3. m.content \in Seq(TalkBlock)
    <3>1. m \in Turn(TalkBlock)
      BY DEF FitTurn
    <3> QED
      BY <3>1, TurnFields
  <2>4. /\ Text("system") \in TalkBlock /\ Text("system").type = "text"
        /\ Text("system").says = "system" /\ <<Text("system")>> \in Seq(TalkBlock)
        /\ ToSet(<<Text("system")>>) = {Text("system")}
    BY TextIs, SomeTextIs
  <2>5. ASSUME NEW d, NEW x, d \in Seq(TalkBlock), x \in ToSet(d), x.type = "text", x.says = "system",
               \A b \in ToSet(d) : b = x \/ b \in ToSet(m.content), ResultsLead(d),
               r = [ms EXCEPT ![u] = [m EXCEPT !.content = d]]
        PROVE  r \in Seq(F)
    <3>1. PICK y : y = [m EXCEPT !.content = d]
      OBVIOUS
    <3>2. y \in F
      BY <2>1, <2>2, <2>5, <3>1, SystemTurn
    <3> HIDE DEF F
    <3> QED
      BY <1>2, <2>1, <2>5, <3>1, <3>2, ExceptSeq
  <2>6. CASE texts # {}
    <3>1. t \in 1..Len(m.content) /\ m.content[t].type = "text"
      BY <1>5, <2>2, <2>6
    <3>2. PICK b \in TalkBlock : b = m.content[t]
      <4> HIDE DEF TalkBlock
      <4> QED
        BY <2>3, <3>1
    <3>3. PICK x : x = [b EXCEPT !.says = "system"]
      OBVIOUS
    <3>4. x \in TalkBlock /\ x.type = "text" /\ x.says = "system"
      <4>1. x = [type |-> b.type, id |-> b.id, says |-> "system", marked |-> b.marked]
        BY <3>3 DEF TalkBlock
      <4>2. b.type = "text" /\ "system" \in Said
        BY <3>1, <3>2, SomeTextIs
      <4> HIDE DEF Said, BlockType
      <4>3. x \in TalkBlock
        BY <4>1, <4>2 DEF TalkBlock
      <4> QED
        BY <4>1, <4>2, <4>3
    <3>5. PICK d : d = [m.content EXCEPT ![t] = x]
      OBVIOUS
    <3>6. d \in Seq(TalkBlock) /\ x \in ToSet(d) /\ \A e \in ToSet(d) : e = x \/ e \in ToSet(m.content)
      BY <2>3, <3>1, <3>4, <3>5, ToSetReplaced
    <3>8. ResultsLead(d)
      <4>1. m.content[t] \in ToSet(m.content)
        BY <2>3, <3>1, InToSet
      <4>2. NoneResults(m.content)
        BY <2>2, <3>1, <4>1 DEF AllResults
      <4>3. \A e \in ToSet(d) : e.type # "tool_result"
        BY <3>4, <3>6, <4>2 DEF NoneResults
      <4> QED
        BY <3>6, <4>3, LeadWithout
    <3>7. r = [ms EXCEPT ![u] = [m EXCEPT !.content = d]]
      <4>1. r = [ms EXCEPT ![u].content[t].says = "system"]
        BY <1>3, <1>7, <2>6
      <4>2. r = [ms EXCEPT ![u] = [ms[u] EXCEPT !.content =
                  [ms[u].content EXCEPT ![t] = [ms[u].content[t] EXCEPT !.says = "system"]]]]
        BY <4>1
      <4> QED
        BY <2>2, <3>2, <3>3, <3>5, <4>2
    <3> QED
      BY <2>5, <3>4, <3>6, <3>7, <3>8
  <2>7. CASE texts = {}
    <3>1. PICK d : d = <<Text("system")>> \o m.content
      OBVIOUS
    <3>2. d \in Seq(TalkBlock) /\ ToSet(d) = {Text("system")} \cup ToSet(m.content)
      <4>1. PICK one : one = <<Text("system")>>
        OBVIOUS
      <4>a. one \in Seq(TalkBlock)
        BY <2>4, <4>1
      <4>2. one \o m.content \in Seq(TalkBlock) /\ ToSet(one \o m.content) = ToSet(one) \cup ToSet(m.content)
        BY <2>3, <4>a, ToSetConcat
      <4> QED
        BY <2>4, <3>1, <4>1, <4>2
    <3>4. ResultsLead(d)
      <4>1. PICK one : one = <<Text("system")>>
        OBVIOUS
      <4>2. one \in Seq(TalkBlock) /\ AllLead(one)
        BY <1>7, <2>4, <4>1 DEF AllLead, MayLead
      <4>3. ResultsLead(m.content)
        BY <2>2, <2>3, LeadAll, LeadWithout DEF NoneResults
      <4> QED
        BY <2>3, <3>1, <4>1, <4>2, <4>3, LeadConcat
    <3>3. r = [ms EXCEPT ![u] = [m EXCEPT !.content = d]]
      <4>1. r = [ms EXCEPT ![u].content = <<Text("system")>> \o @]
        BY <1>3, <1>7, <2>7
      <4>2. r = [ms EXCEPT ![u] = [ms[u] EXCEPT !.content = <<Text("system")>> \o ms[u].content]]
        BY <4>1
      <4> QED
        BY <2>2, <3>1, <4>2
    <3> QED
      BY <2>4, <2>5, <3>2, <3>3, <3>4
  <2> QED
    BY <2>6, <2>7
<1> QED
  BY <1>6, <1>7

(* What openaiToAnthropic has before its repair can be sent but for the     *)
(* pairing of its tool calls.                                               *)
LEMMA TranslationIsFit ==
  ASSUME TalkConstantsOK, TalkTypeOK
  PROVE  Translation \in Seq(FitTurn(TalkBlock))
<1>1. PICK clean : clean = Sanitize(talked)
  OBVIOUS
<1>2. clean \in Seq(CleanTalk)
  BY <1>1, SanitizeGives
<1>3. PICK turns : turns = Translate(clean)
  OBVIOUS
<1>4. turns \in Seq(TalkTurn)
  BY <1>2, <1>3, TranslateGives
<1>5. PICK r : r = PrependSystem(turns)
  OBVIOUS
<1>6. r \in Seq(FitTurn(TalkBlock))
  BY <1>4, <1>5, PrependGives
<1>7. r = Translation
  BY <1>1, <1>3, <1>5 DEF Translation
<1> QED
  BY <1>6, <1>7

LEMMA KeptWholeTwice ==
  ASSUME NEW a, NEW b, NEW c, ThinkingKeptWhole(a, b), ThinkingKeptWhole(b, c)
  PROVE  ThinkingKeptWhole(a, c)
  BY DEF ThinkingKeptWhole

(* Both modes of applyToolRepair leave a history upstream can be sent.      *)
LEMMA RepairedIsFit ==
  ASSUME NEW B, Answerable(B), NEW ms \in Seq(FitTurn(B)), NEW mode \in {"placeholder", "drop"},
         NEW t, t = ApplyToolRepair(ms, mode)
  PROVE  t \in Seq(FitTurn(B)) /\ Paired(t) /\ ThinkingKeptWhole(ms, t)
<1>1. CASE mode = "drop"
  <2>1. t = RepairToolPairs(ms)
    BY <1>1 DEF ApplyToolRepair
  <2> QED
    BY <2>1, RepairGives
<1>2. CASE mode = "placeholder"
  <2>1. PICK s : s = StripOrphanResults(ms)
    OBVIOUS
  <2>2. s \in Seq(FitTurn(B)) /\ ResultsHaveUses(s) /\ ThinkingKeptWhole(ms, s)
    BY <2>1, StripGives
  <2>3. t = AddPlaceholders(s)
    BY <1>2, <2>1 DEF ApplyToolRepair, SynthesizeMissingToolResults
  <2>4. t \in Seq(FitTurn(B)) /\ Paired(t) /\ ThinkingKeptWhole(s, t)
    BY <2>2, <2>3, AddGives
  <2> QED
    BY <2>2, <2>4, KeptWholeTwice
<1> QED
  BY <1>1, <1>2

(* Fit turns are well formed.                                               *)
LEMMA FitIsWellFormed ==
  ASSUME NEW B, NEW t \in Seq(FitTurn(B))
  PROVE  WellFormed(t)
<1>1. ASSUME NEW m \in ToSet(t)
      PROVE  /\ m.shape = "blocks" => \A b \in ToSet(m.content) : ~NoCharacters(b)
             /\ \A b \in ToSet(m.content) : EmptyTextBlock(b) => m.role = "assistant"
             /\ ResultsLead(m.content)
  <2>1. m \in FitTurn(B)
    <3> HIDE DEF FitTurn
    <3> QED
      BY DEF ToSet
  <2>2. Sendable(m)
    BY <2>1 DEF FitTurn
  <2> QED
    BY <2>2 DEF Sendable, Voiced
<1> QED
  BY <1>1 DEF WellFormed

LEMMA FitTurnsAreTurns ==
  ASSUME NEW B, NEW t \in Seq(FitTurn(B))
  PROVE  t \in Seq(Turn(B))
<1>1. FitTurn(B) \subseteq Turn(B)
  BY DEF FitTurn
<1> QED
  BY <1>1

(* What a type-correct history is sent as is sound.                         *)
LEMMA SoundHolds ==
  ASSUME TalkConstantsOK, TalkTypeOK
  PROVE  HistoriesSound
<1>1. PICK before : before = Translation
  OBVIOUS
<1>2. before \in Seq(FitTurn(TalkBlock))
  BY <1>1, TranslationIsFit
<1>3. ASSUME NEW mode \in {"placeholder", "drop"}
      PROVE  /\ Paired(ApplyToolRepair(before, mode))
             /\ ThinkingKeptWhole(before, ApplyToolRepair(before, mode))
             /\ WellFormed(ApplyToolRepair(before, mode))
             /\ \A identity \in BOOLEAN :
                  MarksWithin(Planned(ApplyToolRepair(before, mode), identity), identity)
  <2>1. PICK t : t = ApplyToolRepair(before, mode)
    OBVIOUS
  <2>2. t \in Seq(FitTurn(TalkBlock)) /\ Paired(t) /\ ThinkingKeptWhole(before, t)
    BY <1>2, <2>1, TalkBlocksOK, RepairedIsFit
  <2>3. WellFormed(t)
    BY <2>2, FitIsWellFormed
  <2>4. ASSUME NEW identity \in BOOLEAN PROVE MarksWithin(Planned(t, identity), identity)
    <3>1. t \in Seq(Turn(TalkBlock))
      BY <2>2, FitTurnsAreTurns
    <3> QED
      BY <3>1, TalkBlocksOK, PlanFits
  <2> QED
    BY <2>1, <2>2, <2>3, <2>4
<1> QED
  BY <1>1, <1>3 DEF HistoriesSound

----------------------------------------------------------------------------
(* The names of tools.  A map is good when it is finite, of names of the    *)
(* client's, and gives no wire name twice.                                  *)
Sound(map) ==
    /\ IsFiniteSet(DOMAIN map) /\ DOMAIN map \subseteq Name
    /\ \A m, n \in DOMAIN map : map[m] = map[n] => m = n

(* A name has a wire name once it is mapped, or is itself one in use.       *)
Known(map, n) == n \in DOMAIN map \/ WireOf(n) \in Range(map)

(* A map goes on with what it has.                                          *)
Extends(after, map) ==
    DOMAIN map \subseteq DOMAIN after /\ \A m \in DOMAIN map : after[m] = map[m]

LEMMA KnownStays ==
  ASSUME NEW map, NEW after, Extends(after, map), NEW n, Known(map, n)
  PROVE  Known(after, n)
<1>1. Range(map) \subseteq Range(after)
  BY DEF Extends, Range
<1> QED
  BY <1>1 DEF Extends, Known

(* The wire names of a base are all different.                              *)
LEMMA WiresDiffer ==
  ASSUME NEW base, Len(base) \in Nat, base = [j \in 1..Len(base) |-> base[j]],
         NEW x \in Nat \ {0}, NEW y \in Nat \ {0}, Wire(base, x) = Wire(base, y)
  PROVE  x = y
<1> DEFINE S == {base[j] : j \in 1..Len(base)} \cup Nat
<1>1. base \in Seq(S)
  BY IsASeq
<1> HIDE DEF S
<1>2. ASSUME NEW k \in Nat
      PROVE  /\ Append(base, k) \in Seq(S \cup Nat) /\ Len(Append(base, k)) = Len(base) + 1
             /\ Append(base, k)[Len(base) + 1] = k
  <2>1. base \in Seq(S \cup Nat)
    BY <1>1, SeqMonotonic
  <2> QED
    BY <2>1
<1>3. CASE x # 1 /\ y # 1
  BY <1>2, <1>3 DEF Wire
<1>4. CASE x = 1 /\ y # 1
  BY <1>2, <1>4 DEF Wire
<1>5. CASE x # 1 /\ y = 1
  BY <1>2, <1>5 DEF Wire
<1> QED
  BY <1>3, <1>4, <1>5

(* What ccCanonical makes of a name of the client's.                        *)
LEMMA BaseOfName ==
  ASSUME TalkConstantsOK, NEW n \in Name
  PROVE  Len(CanonicalOf(n)) \in Nat
         /\ CanonicalOf(n) = [j \in 1..Len(CanonicalOf(n)) |-> CanonicalOf(n)[j]]
<1>1. PICK i \in DOMAIN Canonical : Canonical[i].name = n
  BY DEF Name
<1> DEFINE c == CHOOSE k \in DOMAIN Canonical : Canonical[k].name = n
<1>2. c \in DOMAIN Canonical
  BY <1>1
<1>3. CanonicalOf(n) = Canonical[c].base
  BY DEF CanonicalOf, EntryOf
<1> HIDE DEF c
<1> QED
  BY <1>2, <1>3 DEF TalkConstantsOK

(* There are more numbers to try than names in use: one is free.            *)
LEMMA OneIsFree ==
  ASSUME NEW map, Sound(map), NEW base,
         Len(base) \in Nat, base = [j \in 1..Len(base) |-> base[j]]
  PROVE  \E k \in 1..(Cardinality(DOMAIN map) + 1) : Wire(base, k) \notin Range(map)
<1> DEFINE D == DOMAIN map
           N == Cardinality(D) + 1
<1>1. IsFiniteSet(D) /\ Cardinality(D) \in Nat
  BY FS_CardinalityType DEF Sound
<1>2. IsFiniteSet(1..N) /\ Cardinality(1..N) = N
  <2>1. N \in Int /\ ~(1 > N) /\ N - 1 + 1 = N
    BY <1>1
  <2> HIDE DEF N
  <2> QED
    BY <2>1, FS_Interval
<1> SUFFICES ASSUME \A k \in 1..N : Wire(base, k) \in Range(map) PROVE FALSE
  OBVIOUS
<1> DEFINE g == [k \in 1..N |-> CHOOSE n \in D : map[n] = Wire(base, k)]
<1>3. ASSUME NEW k \in 1..N PROVE g[k] \in D /\ map[g[k]] = Wire(base, k)
  <2>1. \E n \in D : map[n] = Wire(base, k)
    BY DEF Range
  <2> QED
    BY <2>1
<1>4. g \in [1..N -> D]
  BY <1>3
<1>5. Cardinality(D) < Cardinality(1..N)
  BY <1>1, <1>2
<1>6. PICK x, y \in 1..N : x # y /\ g[x] = g[y]
  <2> DEFINE places == 1..N
  <2>1. IsFiniteSet(places) /\ Cardinality(D) < Cardinality(places) /\ g \in [places -> D]
    BY <1>2, <1>4, <1>5
  <2>2. IsFiniteSet(D)
    BY <1>1
  <2> HIDE DEF g, D, places
  <2>3. \E x, y \in places : x # y /\ g[x] = g[y]
    BY <2>1, <2>2, FS_PigeonHole
  <2> QED
    BY <2>3 DEF places
<1> HIDE DEF g
<1>7. Wire(base, x) = Wire(base, y) /\ x \in Nat \ {0} /\ y \in Nat \ {0}
  BY <1>1, <1>3, <1>6
<1> QED
  BY <1>6, <1>7, WiresDiffer

(* mapToolName: the name has its wire name, the others keep theirs, and the *)
(* map stays good.                                                          *)
LEMMA MapsOne ==
  ASSUME TalkConstantsOK, NEW map, Sound(map), NEW n \in Name
  PROVE  /\ Sound(MapToolName(map, n)) /\ Known(MapToolName(map, n), n)
         /\ Extends(MapToolName(map, n), map)
<1>1. CASE Known(map, n)
  BY <1>1 DEF MapToolName, Known, Extends
<1>2. CASE ~Known(map, n)
  <2> DEFINE base == CanonicalOf(n)
             free == {j \in 1..(Cardinality(DOMAIN map) + 1) : Wire(base, j) \notin Range(map)}
             k == CHOOSE j \in 1..(Cardinality(DOMAIN map) + 1) :
                    /\ Wire(base, j) \notin Range(map)
                    /\ \A i \in 1..(j - 1) : ~(Wire(base, i) \notin Range(map))
             wire == Wire(base, k)
  <2>1. Cardinality(DOMAIN map) \in Nat
    BY FS_CardinalityType DEF Sound
  <2>2. Wire(base, k) \notin Range(map)
    <3>1. free \in SUBSET Nat /\ free # {}
      BY <2>1, OneIsFree, BaseOfName
    <3>2. PICK first \in free : \A j \in free : first <= j
      <4> HIDE DEF free
      <4> QED
        BY <3>1, LeastElement
    <3>3. \A i \in 1..(first - 1) : i \notin free
      BY <2>1, <3>2
    <3>4. \A i \in 1..(first - 1) : ~(Wire(base, i) \notin Range(map))
      BY <2>1, <3>2, <3>3
    <3> QED
      BY <3>2, <3>4
  <2>3. MapToolName(map, n) = Added(map, n, wire)
    BY <1>2 DEF MapToolName, Known
  <2> HIDE DEF base, free, k
  <2>4. /\ DOMAIN Added(map, n, wire) = DOMAIN map \cup {n}
        /\ \A m \in DOMAIN map \cup {n} :
             Added(map, n, wire)[m] = IF m = n THEN wire ELSE map[m]
    BY DEF Added
  <2>5. \A m \in DOMAIN map : map[m] # wire
    BY <2>2 DEF Range
  <2>6. IsFiniteSet(DOMAIN map \cup {n})
    BY FS_AddElement DEF Sound
  <2> HIDE DEF wire
  <2>7. n \notin DOMAIN map
    BY <1>2 DEF Known
  <2> DEFINE after == Added(map, n, wire)
  <2> HIDE DEF after
  <2>8. DOMAIN after = DOMAIN map \cup {n} /\ after[n] = wire
        /\ \A m \in DOMAIN map : after[m] = map[m]
    BY <2>4, <2>7 DEF after
  <2>9. Sound(after)
    BY <2>5, <2>6, <2>8 DEF Sound
  <2>10. Known(after, n) /\ Extends(after, map)
    BY <2>8 DEF Known, Extends
  <2> QED
    BY <2>3, <2>9, <2>10 DEF after
<1> QED
  BY <1>1, <1>2

(* f gives the maps after each of the names.                                *)
MapsAfter(f, map, names, wanted) ==
    /\ f[0] = map
    /\ \A i \in 1..Len(names) :
         f[i] = IF names[i] \in wanted THEN MapToolName(f[i - 1], names[i]) ELSE f[i - 1]

(* The maps after each name exist, and the last is the one asked for.       *)
LEMMA NamesInTurn ==
  ASSUME NEW map, NEW names, Len(names) \in Nat, NEW wanted
  PROVE  \E f : /\ MapToolNames(map, names, wanted) = f[Len(names)]
                /\ MapsAfter(f, map, names, wanted)
<1> DEFINE N == Len(names)
           Rule(f, i) == IF i = 0 THEN map
                         ELSE IF names[i] \in wanted THEN MapToolName(f[i - 1], names[i])
                         ELSE f[i - 1]
           Good(m, f) == f = [i \in 0..m |-> f[i]] /\ \A i \in 0..m : f[i] = Rule(f, i)
           T == {m \in Nat : \E f : Good(m, f)}
<1>1. 0 \in T
  <2>1. Good(0, [i \in 0..0 |-> map])
    OBVIOUS
  <2> QED
    BY <2>1
<1>2. ASSUME NEW m \in Nat, m \in T PROVE m + 1 \in T
  <2>1. PICK f : Good(m, f)
    BY <1>2
  <2> DEFINE last == Rule(f, m + 1)
             g == [i \in 0..m + 1 |-> IF i <= m THEN f[i] ELSE last]
  <2>2. g = [i \in 0..m + 1 |-> g[i]]
    OBVIOUS
  <2>3. \A i \in 0..m + 1 : g[i] = IF i <= m THEN f[i] ELSE last
    OBVIOUS
  <2> HIDE DEF g
  <2>4. ASSUME NEW i \in 0..m + 1 PROVE g[i] = Rule(g, i)
    <3>1. CASE i = 0
      <4>1. f[0] = map
        BY <2>1
      <4>2. g[0] = f[0]
        BY <2>3
      <4> QED
        BY <3>1, <4>1, <4>2
    <3>2. CASE i # 0
      <4>1. i - 1 \in 0..m /\ g[i - 1] = f[i - 1]
        BY <2>3, <3>2
      <4>2. Rule(g, i) = Rule(f, i)
        BY <4>1
      <4>3. CASE i <= m
        <5>1. i \in 0..m /\ g[i] = f[i]
          BY <2>3, <4>3
        <5>2. f[i] = Rule(f, i)
          BY <2>1, <5>1
        <5> QED
          BY <4>2, <5>1, <5>2
      <4>4. CASE i = m + 1
        BY <2>3, <4>2, <4>4
      <4> QED
        BY <4>3, <4>4
    <3> QED
      BY <3>1, <3>2
  <2>5. Good(m + 1, g)
    BY <2>2, <2>4
  <2> HIDE DEF Good
  <2> QED
    BY <2>5
<1>3. N \in T
  <2> HIDE DEF T
  <2> QED
    BY <1>1, <1>2, SetInduction
<1>4. PICK f : Good(N, f)
  BY <1>3
<1> DEFINE Computes(h) ==
       h = [i \in 0..Len(names) |->
              IF i = 0 THEN map
              ELSE IF names[i] \in wanted THEN MapToolName(h[i - 1], names[i])
              ELSE h[i - 1]]
           c == CHOOSE h : Computes(h)
<1>5. Computes(f)
  BY <1>4
<1>6. Computes(c)
  BY <1>5
<1>7. MapToolNames(map, names, wanted) = c[Len(names)]
  BY DEF MapToolNames
<1> HIDE DEF c
<1>8. \A i \in 0..N : c[i] = Rule(c, i)
  BY <1>6
<1>9. MapsAfter(c, map, names, wanted)
  BY <1>8 DEF MapsAfter
<1> QED
  BY <1>7, <1>9

(* A good map stays good, and every wanted name has a wire name.            *)
LEMMA MapsMany ==
  ASSUME TalkConstantsOK, NEW map, Sound(map), NEW names, Len(names) \in Nat, NEW wanted,
         \A i \in 1..Len(names) : names[i] \in wanted => names[i] \in Name
  PROVE  /\ Sound(MapToolNames(map, names, wanted))
         /\ \A i \in 1..Len(names) :
              names[i] \in wanted => Known(MapToolNames(map, names, wanted), names[i])
<1>1. PICK f : /\ MapToolNames(map, names, wanted) = f[Len(names)]
               /\ MapsAfter(f, map, names, wanted)
  BY NamesInTurn
<1> DEFINE Upto(m) == /\ Sound(f[m])
                      /\ \A i \in 1..m : names[i] \in wanted => Known(f[m], names[i])
           T == {m \in Nat : m <= Len(names) => Upto(m)}
<1>2. 0 \in T
  BY <1>1 DEF MapsAfter
<1>3. ASSUME NEW m \in Nat, m \in T PROVE m + 1 \in T
  <2> SUFFICES ASSUME m + 1 <= Len(names) PROVE Upto(m + 1)
    OBVIOUS
  <2>1. Upto(m)
    BY <1>3
  <2>2. f[m + 1] = IF names[m + 1] \in wanted THEN MapToolName(f[m], names[m + 1]) ELSE f[m]
    BY <1>1 DEF MapsAfter
  <2>3. m + 1 \in 1..Len(names)
    OBVIOUS
  <2>4. \A i \in 1..m + 1 : i \in 1..m \/ i = m + 1
    OBVIOUS
  <2>5. CASE names[m + 1] \in wanted
    <3>1. Sound(f[m + 1]) /\ Known(f[m + 1], names[m + 1]) /\ Extends(f[m + 1], f[m])
      BY <2>1, <2>2, <2>3, <2>5, MapsOne
    <3>2. \A i \in 1..m : names[i] \in wanted => Known(f[m + 1], names[i])
      BY <2>1, <3>1, KnownStays
    <3> QED
      BY <2>4, <3>1, <3>2
  <2>6. CASE names[m + 1] \notin wanted
    BY <2>1, <2>2, <2>4, <2>6
  <2> QED
    BY <2>5, <2>6
<1>4. Len(names) \in T
  <2> HIDE DEF T
  <2> QED
    BY <1>2, <1>3, SetInduction
<1> QED
  BY <1>1, <1>4

(* The maps after each message's calls, and the last of them.               *)
LEMMA CallsInTurn ==
  ASSUME NEW ms, Len(ms) \in Nat
  PROVE  \E f : /\ MapCalls(ms) = f[Len(ms)] /\ f[0] = <<>>
                /\ \A i \in 1..Len(ms) :
                     f[i] = MapToolNames(f[i - 1], CalledNames(ms[i]), Name)
<1> DEFINE N == Len(ms)
           Rule(f, i) == IF i = 0 THEN <<>>
                         ELSE MapToolNames(f[i - 1], CalledNames(ms[i]), Name)
           Good(m, f) == f = [i \in 0..m |-> f[i]] /\ \A i \in 0..m : f[i] = Rule(f, i)
           T == {m \in Nat : \E f : Good(m, f)}
<1>1. 0 \in T
  <2>1. Good(0, [i \in 0..0 |-> <<>>])
    OBVIOUS
  <2> QED
    BY <2>1
<1>2. ASSUME NEW m \in Nat, m \in T PROVE m + 1 \in T
  <2>1. PICK f : Good(m, f)
    BY <1>2
  <2> DEFINE last == Rule(f, m + 1)
             g == [i \in 0..m + 1 |-> IF i <= m THEN f[i] ELSE last]
  <2>2. g = [i \in 0..m + 1 |-> g[i]]
    OBVIOUS
  <2>3. \A i \in 0..m + 1 : g[i] = IF i <= m THEN f[i] ELSE last
    OBVIOUS
  <2> HIDE DEF g
  <2>4. ASSUME NEW i \in 0..m + 1 PROVE g[i] = Rule(g, i)
    <3>1. CASE i = 0
      <4>1. \A j \in 0..m : f[j] = Rule(f, j)
        BY <2>1
      <4>2. g[0] = f[0] /\ 0 \in 0..m
        BY <2>3
      <4>3. Rule(f, 0) = Rule(g, 0)
        OBVIOUS
      <4> HIDE DEF Rule
      <4> QED
        BY <3>1, <4>1, <4>2, <4>3
    <3>2. CASE i # 0
      <4>1. i - 1 \in 0..m /\ g[i - 1] = f[i - 1]
        BY <2>3, <3>2
      <4>2. Rule(g, i) = Rule(f, i)
        BY <4>1
      <4>3. CASE i <= m
        <5>1. i \in 0..m /\ g[i] = f[i]
          BY <2>3, <4>3
        <5>2. f[i] = Rule(f, i)
          BY <2>1, <5>1
        <5> QED
          BY <4>2, <5>1, <5>2
      <4>4. CASE i = m + 1
        BY <2>3, <4>2, <4>4
      <4> QED
        BY <4>3, <4>4
    <3> QED
      BY <3>1, <3>2
  <2>5. Good(m + 1, g)
    BY <2>2, <2>4
  <2> HIDE DEF Good
  <2> QED
    BY <2>5
<1>3. N \in T
  <2> HIDE DEF T
  <2> QED
    BY <1>1, <1>2, SetInduction
<1>4. PICK f : Good(N, f)
  BY <1>3
<1> DEFINE Computes(h) ==
       h = [i \in 0..Len(ms) |->
              IF i = 0 THEN <<>>
              ELSE MapToolNames(h[i - 1], CalledNames(ms[i]), Name)]
           c == CHOOSE h : Computes(h)
<1>5. Computes(f)
  BY <1>4
<1>6. Computes(c)
  BY <1>5
<1>7. MapCalls(ms) = c[Len(ms)]
  BY DEF MapCalls
<1> HIDE DEF c
<1>8. \A i \in 0..N : c[i] = Rule(c, i)
  BY <1>6
<1> QED
  BY <1>7, <1>8

(* What the history's calls leave is a good map, whoever made them.         *)
LEMMA CallsKeepSound ==
  ASSUME TalkConstantsOK, NEW ms, Len(ms) \in Nat,
         \A i \in 1..Len(ms) : Len(ms[i].calls) \in Nat
  PROVE  Sound(MapCalls(ms))
<1>1. PICK f : /\ MapCalls(ms) = f[Len(ms)] /\ f[0] = <<>>
               /\ \A i \in 1..Len(ms) :
                    f[i] = MapToolNames(f[i - 1], CalledNames(ms[i]), Name)
  BY CallsInTurn
<1> DEFINE T == {m \in Nat : m <= Len(ms) => Sound(f[m])}
<1>2. 0 \in T
  <2>1. DOMAIN <<>> = {} /\ IsFiniteSet({})
    BY FS_EmptySet
  <2> QED
    BY <1>1, <2>1 DEF Sound
<1>3. ASSUME NEW m \in Nat, m \in T PROVE m + 1 \in T
  <2> SUFFICES ASSUME m + 1 <= Len(ms) PROVE Sound(f[m + 1])
    OBVIOUS
  <2>1. m + 1 \in 1..Len(ms) /\ Sound(f[m])
    BY <1>3
  <2>2. f[m + 1] = MapToolNames(f[m], CalledNames(ms[m + 1]), Name)
    BY <1>1, <2>1
  <2> DEFINE names == CalledNames(ms[m + 1])
  <2>3. Len(names) \in Nat
    BY <2>1 DEF CalledNames
  <2> HIDE DEF names
  <2> QED
    BY <2>1, <2>2, <2>3, MapsMany DEF names
<1>4. Len(ms) \in T
  <2> HIDE DEF T
  <2> QED
    BY <1>2, <1>3, SetInduction
<1> QED
  BY <1>1, <1>4

(* The map a request builds is good and knows every tool it declares.       *)
LEMMA ToolMapSound ==
  ASSUME TalkConstantsOK, TalkTypeOK
  PROVE  Sound(ToolMap) /\ \A n \in tools : n \in Name /\ Known(ToolMap, n)
<1>1. Len(talked) \in Nat /\ \A i \in 1..Len(talked) : Len(talked[i].calls) \in Nat
  <2>1. talked \in Seq(ChatMessage)
    BY DEF TalkTypeOK
  <2>2. Len(talked) \in Nat /\ \A i \in 1..Len(talked) : talked[i] \in ChatMessage
    BY <2>1
  <2>3. ASSUME NEW m \in ChatMessage PROVE Len(m.calls) \in Nat
    BY DEF ChatMessage
  <2> QED
    BY <2>2, <2>3
<1>2. Sound(MapCalls(talked))
  BY <1>1, CallsKeepSound
<1>3. /\ Len(SortedTools) = Len(Canonical) /\ Len(SortedTools) \in Nat
      /\ \A i \in 1..Len(SortedTools) : SortedTools[i] = Canonical[i].name
  BY DEF TalkConstantsOK, SortedTools
<1>4. \A i \in 1..Len(SortedTools) : SortedTools[i] \in Name
  BY <1>3 DEF Name, TalkConstantsOK
<1>5. /\ Sound(MapToolNames(MapCalls(talked), SortedTools, tools))
      /\ \A i \in 1..Len(SortedTools) : SortedTools[i] \in tools =>
           Known(MapToolNames(MapCalls(talked), SortedTools, tools), SortedTools[i])
  BY <1>2, <1>3, <1>4, MapsMany
<1>6. ASSUME NEW n \in tools PROVE \E i \in 1..Len(SortedTools) : SortedTools[i] = n
  BY <1>3 DEF TalkConstantsOK, TalkTypeOK
<1> QED
  BY <1>4, <1>5, <1>6 DEF ToolMap

(* A wire name a good map gives comes back as the name it was given to.     *)
LEMMA Unmaps ==
  ASSUME NEW map, Sound(map), NEW n \in DOMAIN map
  PROVE  UnmapToolName(map, map[n]) = n
<1>1. map[n] \in Range(map)
  BY DEF Range
<1>2. \A m \in DOMAIN map : map[m] = map[n] <=> m = n
  BY DEF Sound
<1> QED
  BY <1>1, <1>2 DEF UnmapToolName

(* What a call of a tool comes back as is a name of the client's.           *)
LEMMA UnmapsToName ==
  ASSUME NEW map, Sound(map), NEW n, Known(map, n)
  PROVE  UnmapToolName(map, SentName(map, n)) \in Name
<1>1. CASE n \in DOMAIN map
  BY <1>1, Unmaps DEF SentName, Sound
<1>2. CASE n \notin DOMAIN map
  <2>1. SentName(map, n) = WireOf(n) /\ WireOf(n) \in Range(map)
    BY <1>2 DEF SentName, Known
  <2>2. \E m \in DOMAIN map : map[m] = WireOf(n)
    BY <2>1 DEF Range
  <2>3. PICK m \in DOMAIN map : UnmapToolName(map, WireOf(n)) = m
    BY <2>1, <2>2 DEF UnmapToolName
  <2> QED
    BY <2>1, <2>3 DEF Sound
<1> QED
  BY <1>1, <1>2

LEMMA RoundTrip ==
  ASSUME TalkConstantsOK, TalkTypeOK
  PROVE  ToolNamesRoundTrip
<1>1. PICK map : map = ToolMap
  OBVIOUS
<1>2. Sound(map) /\ \A n \in tools : Known(map, n)
  BY <1>1, ToolMapSound
<1>3. ASSUME NEW n \in tools, ~(n \notin DOMAIN map /\ WireOf(n) \in Range(map))
      PROVE  /\ UnmapToolName(map, SentName(map, n)) = n
             /\ \A m \in tools \ {n} : SentName(map, m) = SentName(map, n) =>
                  m \notin DOMAIN map /\ WireOf(m) \in Range(map)
  <2>1. n \in DOMAIN map /\ SentName(map, n) = map[n]
    BY <1>2, <1>3 DEF Known, SentName
  <2>2. UnmapToolName(map, map[n]) = n
    BY <1>2, <2>1, Unmaps
  <2>3. ASSUME NEW m \in tools \ {n}, SentName(map, m) = map[n]
        PROVE  m \notin DOMAIN map /\ WireOf(m) \in Range(map)
    <3>1. m \notin DOMAIN map
      BY <1>2, <2>1, <2>3 DEF Sound, SentName
    <3> QED
      BY <1>2, <3>1 DEF Known
  <2> QED
    BY <2>1, <2>2, <2>3
<1> QED
  BY <1>1, <1>3 DEF ToolNamesRoundTrip

(* A conversation begins with its bounds and kinds.                         *)
LEMMA TalkTypeInit == TalkConstantsOK /\ TalkInit => TalkTypeOK
BY DEF TalkConstantsOK, TalkInit, TalkTypeOK

(* A message is one of a chat when it says what its role may say.           *)
LEMMA ChatMessageIs ==
  ASSUME NEW role \in {"user", "assistant", "tool"}, NEW shape \in {"string", "blocks", "null"},
         NEW content \in Seq(ContentPart \cup {Block("thinking", NoId, "text")}),
         NEW calls \in Seq(ToolCall), NEW id \in 0..MaxToolCalls,
         NEW m, m = [role |-> role, shape |-> shape, content |-> content, calls |-> calls, id |-> id],
         AsSaid(m)
  PROVE  m \in ChatMessage
<1> DEFINE Part == ContentPart \cup {Block("thinking", NoId, "text")}
<1> HIDE DEF Part
<1>1. m \in [role : {"user", "assistant", "tool"}, shape : {"string", "blocks", "null"},
             content : Seq(Part), calls : Seq(ToolCall), id : 0..MaxToolCalls]
  BY DEF Part
<1> QED
  BY <1>1 DEF ChatMessage, Part

LEMMA NoCalls ==
  ASSUME TalkConstantsOK
  PROVE  <<>> \in Seq(ToolCall) /\ NoId \in 0..MaxToolCalls
  BY DEF NoId, TalkConstantsOK

(* A user turn of the client's.                                             *)
LEMMA UserMessage ==
  ASSUME TalkConstantsOK, NEW c \in UserContent
  PROVE  NewMessage("user", c.shape, c.content) \in ChatMessage
<1> DEFINE Part == ContentPart \cup {Block("thinking", NoId, "text")}
<1>1. /\ c.shape \in {"string", "blocks", "null"} /\ c.content \in Seq(ContentPart)
      /\ c = [shape |-> c.shape, content |-> c.content]
  <2>1. c \in [shape : {"string", "blocks"}, content : Seq(ContentPart)]
    BY DEF TalkConstantsOK
  <2> HIDE DEF ContentPart
  <2> QED
    BY <2>1
<1>2. c.content \in Seq(Part)
  <2>1. ContentPart \subseteq Part
    OBVIOUS
  <2> HIDE DEF Part, ContentPart
  <2> QED
    BY <1>1, <2>1
<1>3. PICK m : m = [role |-> "user", shape |-> c.shape, content |-> c.content, calls |-> <<>>, id |-> NoId]
  OBVIOUS
<1>4. AsSaid(m)
  <2>1. m.role = "user" /\ m.shape = c.shape /\ m.content = c.content
    BY <1>3
  <2> QED
    BY <1>1, <2>1 DEF AsSaid
<1>5. m \in ChatMessage
  BY <1>1, <1>2, <1>3, <1>4, NoCalls, ChatMessageIs
<1> QED
  BY <1>3, <1>5 DEF NewMessage

(* What the gateway or a tool says.                                         *)
LEMMA SaidParts ==
  /\ \A says \in {"text", "blank", "empty"} :
       <<Text(says)>> \in Seq(ContentPart \cup {Block("thinking", NoId, "text")})
  /\ <<Block("thinking", NoId, "text")>> \in Seq(ContentPart \cup {Block("thinking", NoId, "text")})
  /\ <<>> \in Seq(ContentPart \cup {Block("thinking", NoId, "text")})
<1>1. \A says \in {"text", "blank", "empty"} : Text(says) \in ContentPart
  BY DEF Text, Block, ContentPart
<1>2. ASSUME NEW x \in ContentPart
      PROVE  <<x>> \in Seq(ContentPart \cup {Block("thinking", NoId, "text")})
  <2> HIDE DEF ContentPart
  <2> QED
    OBVIOUS
<1>3. PICK y : y = Block("thinking", NoId, "text")
  OBVIOUS
<1> HIDE DEF ContentPart
<1> QED
  BY <1>1, <1>2, <1>3

LEMMA TalkTypeNext ==
  ASSUME TalkConstantsOK, TalkTypeOK, [TalkNext]_talkVars
  PROVE  TalkTypeOK'
<1>1. ASSUME tools' = tools, hasSystem' = hasSystem, toolCalls' \in 0..MaxToolCalls,
             talked' \in Seq(ChatMessage), Len(talked') <= MaxMessages
      PROVE  TalkTypeOK'
  <2>1. ChatMessage' = ChatMessage
    BY <1>1 DEF ChatMessage, ToolCall
  <2> QED
    BY <1>1, <2>1 DEF TalkTypeOK
<1>2. talked \in Seq(ChatMessage) /\ Len(talked) <= MaxMessages /\ toolCalls \in 0..MaxToolCalls
  BY DEF TalkTypeOK
<1>3. ASSUME NEW m \in ChatMessage, Add(m)
      PROVE  talked' \in Seq(ChatMessage) /\ Len(talked') <= MaxMessages
  BY <1>2, <1>3, AppendProperties DEF Add, TalkConstantsOK
<1>4. CASE UserTurn
  <2>1. PICK c \in UserContent : Add(NewMessage("user", c.shape, c.content))
    BY <1>4 DEF UserTurn
  <2>3. NewMessage("user", c.shape, c.content) \in ChatMessage
    BY UserMessage
  <2> QED
    BY <1>1, <1>2, <1>3, <1>4, <2>1, <2>3 DEF UserTurn
<1>5. CASE Reply
  <2> DEFINE map == ToolMap
             Calls(names) == [i \in 1..Len(names) |->
                                [id |-> toolCalls + i,
                                 name |-> UnmapToolName(map, SentName(map, names[i]))]]
  <2>1. PICK names \in BoundedSeq(tools, 2), c \in ReplyContent :
          /\ toolCalls + Len(names) <= MaxToolCalls
          /\ Add([NewMessage("assistant", c.shape, c.content) EXCEPT !.calls = Calls(names)])
          /\ toolCalls' = toolCalls + Len(names)
    BY <1>5 DEF Reply
  <2>2. Len(names) \in Nat /\ \A i \in 1..Len(names) : names[i] \in tools
    BY DEF BoundedSeq, SeqOf
  <2>3. Sound(map) /\ \A n \in tools : Known(map, n)
    BY ToolMapSound
  <2>4. ASSUME NEW i \in 1..Len(names)
        PROVE  [id |-> toolCalls + i, name |-> UnmapToolName(map, SentName(map, names[i]))] \in ToolCall
    <3>1. UnmapToolName(map, SentName(map, names[i])) \in Name
      BY <2>2, <2>3, UnmapsToName
    <3>2. toolCalls + i \in 1..MaxToolCalls
      BY <1>2, <2>1, <2>2 DEF TalkConstantsOK
    <3> QED
      BY <3>1, <3>2 DEF ToolCall
  <2>5. Calls(names) \in Seq(ToolCall)
    <3> DEFINE made(i) == [id |-> toolCalls + i, name |-> UnmapToolName(map, SentName(map, names[i]))]
               n == Len(names)
    <3>1. n \in Nat /\ \A i \in 1..n : made(i) \in ToolCall
      BY <2>2, <2>4
    <3> HIDE DEF made, n
    <3>2. [i \in 1..n |-> made(i)] \in Seq(ToolCall)
      BY <3>1
    <3> QED
      BY <3>2 DEF made, n
  <2> DEFINE Part == ContentPart \cup {Block("thinking", NoId, "text")}
  <2>6. /\ c.shape \in {"string", "blocks", "null"} /\ c.content \in Seq(Part)
        /\ [shape |-> c.shape, content |-> c.content] = c
    <3>1. c = [shape |-> c.shape, content |-> c.content]
      BY DEF ReplyContent
    <3> HIDE DEF Part, ReplyContent
    <3> QED
      BY <3>1, ReplyIs, SaidParts DEF Part
  <2> HIDE DEF map, Calls
  <2>7. [NewMessage("assistant", c.shape, c.content) EXCEPT !.calls = Calls(names)]
          \in ChatMessage
    <3>1. PICK m : m = [role |-> "assistant", shape |-> c.shape, content |-> c.content,
                        calls |-> Calls(names), id |-> NoId]
      OBVIOUS
    <3>2. AsSaid(m)
      <4>1. m.role = "assistant" /\ m.shape = c.shape /\ m.content = c.content
        BY <3>1
      <4> QED
        BY <2>6, <4>1 DEF AsSaid
    <3>3. m \in ChatMessage
      BY <2>5, <2>6, <3>1, <3>2, NoCalls, ChatMessageIs
    <3> QED
      BY <3>1, <3>3 DEF NewMessage
  <2>8. toolCalls' \in 0..MaxToolCalls
    BY <1>2, <2>1, <2>2 DEF TalkConstantsOK
  <2> QED
    BY <1>1, <1>3, <1>5, <2>1, <2>7, <2>8 DEF Reply
<1>6. CASE ToolResult
  <2>1. PICK id \in 1..toolCalls :
          Add([NewMessage("tool", "string", <<Text("text")>>) EXCEPT !.id = id])
    BY <1>6 DEF ToolResult
  <2>2. id \in 0..MaxToolCalls
    BY <1>2 DEF TalkConstantsOK
  <2>3. [NewMessage("tool", "string", <<Text("text")>>) EXCEPT !.id = id] \in ChatMessage
    <3>1. PICK m : m = [role |-> "tool", shape |-> "string", content |-> <<Text("text")>>,
                        calls |-> <<>>, id |-> id]
      OBVIOUS
    <3>2. AsSaid(m)
      BY <3>1 DEF AsSaid
    <3>3. m \in ChatMessage
      BY <2>2, <3>1, <3>2, NoCalls, SaidParts, ChatMessageIs
    <3> QED
      BY <3>1, <3>3 DEF NewMessage
  <2> QED
    BY <1>1, <1>2, <1>3, <1>6, <2>1, <2>3 DEF ToolResult
<1>7. CASE Compact
  <2>1. PICK i \in DOMAIN talked : talked' = RemoveAt(talked, i)
    BY <1>7 DEF Compact
  <2> DEFINE front == SubSeq(talked, 1, i - 1)
             back == SubSeq(talked, i + 1, Len(talked))
  <2>2. /\ i \in 1..Len(talked) /\ Len(talked) \in Nat
        /\ \A j \in 1..Len(talked) : talked[j] \in ChatMessage
    BY <1>2
  <2>3. front \in Seq(ChatMessage) /\ Len(front) = i - 1
    BY <2>2, SubSeqProperties
  <2>4. back \in Seq(ChatMessage) /\ Len(back) = Len(talked) - i
    <3>1. i + 1 \in Int /\ Len(talked) \in Int /\ \A j \in i + 1..Len(talked) : talked[j] \in ChatMessage
      BY <2>2
    <3>2. /\ back \in Seq(ChatMessage)
          /\ Len(back) = IF i + 1 <= Len(talked) THEN Len(talked) - (i + 1) + 1 ELSE 0
      BY <3>1, SubSeqProperties
    <3> HIDE DEF back
    <3> QED
      BY <2>2, <3>2
  <2>5. talked' = front \o back
    BY <2>1 DEF RemoveAt
  <2> HIDE DEF front, back
  <2>6. talked' \in Seq(ChatMessage) /\ Len(talked') = Len(talked) - 1
    BY <2>2, <2>3, <2>4, <2>5, ConcatProperties
  <2> QED
    BY <1>1, <1>2, <1>7, <2>2, <2>6 DEF Compact, TalkConstantsOK
<1>8. CASE UNCHANGED talkVars
  BY <1>1, <1>2, <1>8 DEF talkVars
<1> QED
  BY <1>4, <1>5, <1>6, <1>7, <1>8 DEF TalkNext

(* A conversation keeps its bounds and the kinds of its messages, and the   *)
(* names of its calls are names the client has: no wire name comes back     *)
(* with its prefix stripped.                                                *)
THEOREM TalkTypeCorrect ==
  ASSUME TalkConstantsOK
  PROVE  TalkSpec => []TalkTypeOK
<1>1. TalkInit => TalkTypeOK
  BY TalkTypeInit
<1>2. TalkTypeOK /\ [TalkNext]_talkVars => TalkTypeOK'
  BY TalkTypeNext
<1> QED
  BY <1>1, <1>2, PTL DEF TalkSpec

(* At every point of every conversation, each tool the client declares has  *)
(* a wire name of its own and comes back as itself, whatever tools share a  *)
(* base, end in another's number or are called mcp_..., unless its own name *)
(* is the wire name that another tool was given.                            *)
THEOREM ToolNamesAlwaysRoundTrip ==
  ASSUME TalkConstantsOK
  PROVE  TalkSpec => []ToolNamesRoundTrip
<1>1. TalkTypeOK => ToolNamesRoundTrip
  BY RoundTrip
<1> QED
  BY <1>1, TalkTypeCorrect, PTL

(* However a conversation's history was interrupted, answered late or       *)
(* compacted, and whatever its client says and marks, what openaiToAnthropic*)
(* sends of it in either repair mode is sound: every tool_use has a result  *)
(* in the next message and every result its use, no block is a text without *)
(* characters, results lead their turns behind nothing but the system       *)
(* prompt, thinking goes whole, and the cache breakpoints are at most four; *)
(* drop mode reaches its fixed point within the passes it allows itself.    *)
THEOREM HistoriesStaySound ==
  ASSUME TalkConstantsOK
  PROVE  TalkSpec => []HistoriesSound
<1>1. TalkTypeOK => HistoriesSound
  BY SoundHolds
<1> QED
  BY <1>1, TalkTypeCorrect, PTL

----------------------------------------------------------------------------
(* Sequences, by what their elements give.                                  *)

(* Induction over sequences, by a set.                                      *)
LEMMA SeqInduction ==
  ASSUME NEW S, NEW T, <<>> \in T,
         \A s \in Seq(S) : s \in T => \A x \in S : Append(s, x) \in T
  PROVE  Seq(S) \subseteq T
<1> DEFINE N == {n \in Nat : \A s \in Seq(S) : Len(s) = n => s \in T}
<1>1. 0 \in N
  <2> SUFFICES ASSUME NEW s \in Seq(S), Len(s) = 0 PROVE s \in T
    OBVIOUS
  <2>1. s = <<>>
    OBVIOUS
  <2> QED
    BY <2>1
<1>2. ASSUME NEW n \in Nat, n \in N PROVE n + 1 \in N
  <2> SUFFICES ASSUME NEW s \in Seq(S), Len(s) = n + 1 PROVE s \in T
    OBVIOUS
  <2>1. s # <<>>
    OBVIOUS
  <2>2. PICK u \in Seq(S), x \in S : s = Append(u, x)
    BY <2>1, SequenceEmptyOrAppend
  <2>3. Len(u) = n
    BY <2>2
  <2> QED
    BY <1>2, <2>2, <2>3
<1>3. Nat \subseteq N
  <2> HIDE DEF N
  <2> QED
    BY <1>1, <1>2, SetInduction
<1> QED
  <2> SUFFICES ASSUME NEW s \in Seq(S) PROVE s \in T
    OBVIOUS
  <2>1. Len(s) \in N
    BY <1>3
  <2> QED
    BY <2>1

LEMMA FlattenNothing == FlattenSeq(<<>>) = <<>>
  BY DEF FlattenSeq

(* One sequence more is flattened to the end.                               *)
LEMMA FlattenAppend ==
  ASSUME NEW S, NEW ss \in Seq(Seq(S)), NEW x \in Seq(S)
  PROVE  /\ FlattenSeq(Append(ss, x)) = FlattenSeq(ss) \o x
         /\ FlattenSeq(ss) \in Seq(S)
<1> DEFINE tt == Append(ss, x)
<1>0. PICK n \in Nat : n = Len(ss)
  OBVIOUS
<1>1. /\ Len(tt) = n + 1 /\ tt[n + 1] = x /\ \A i \in 1..n : tt[i] = ss[i]
      /\ FlattenSeq(ss) \in Seq(S)
  BY <1>0, Flattened
<1>2. CASE n = 0
  <2>0. ss = <<>>
    BY <1>0, <1>2, EmptySeq
  <2>1. ss = <<>> /\ FlattenSeq(ss) = <<>> /\ tt = <<x>>
    <3>1. FlattenSeq(<<>>) = <<>> /\ Append(<<>>, x) = <<x>>
      BY FlattenNothing
    <3> QED
      BY <2>0, <3>1
  <2> HIDE DEF tt
  <2>a. Len(tt) \in Nat \ {0}
    BY <1>1, <1>2
  <2>2. PICK f : Joins(f, tt) /\ FlattenSeq(tt) = f[Len(tt)]
    BY <2>a, JoinedInTurn
  <2>3. FlattenSeq(tt) = x
    <3>1. 1 \in 1..Len(tt) /\ Len(tt) = 1 /\ tt[1] = x
      BY <1>1, <1>2
    <3> QED
      BY <2>2, <3>1 DEF Joins
  <2>4. <<>> \o x = x
    OBVIOUS
  <2> QED
    BY <1>1, <2>1, <2>3, <2>4 DEF tt
<1>3. CASE n # 0
  <2> HIDE DEF tt
  <2>1. PICK f : Joins(f, tt) /\ FlattenSeq(tt) = f[Len(tt)]
    BY <1>1, JoinedInTurn
  <2>2. PICK g : Joins(g, ss) /\ FlattenSeq(ss) = g[Len(ss)]
    BY <1>0, <1>3, JoinedInTurn
  <2> DEFINE T == {i \in Nat : i \in 1..n => f[i] = g[i]}
  <2>3. 0 \in T
    OBVIOUS
  <2>4. ASSUME NEW i \in Nat, i \in T PROVE i + 1 \in T
    <3> SUFFICES ASSUME i + 1 \in 1..n PROVE f[i + 1] = g[i + 1]
      OBVIOUS
    <3>1. i + 1 \in 1..Len(tt) /\ i + 1 \in 1..Len(ss) /\ (i + 1) - 1 = i /\ tt[i + 1] = ss[i + 1]
      BY <1>0, <1>1
    <3>2. /\ f[i + 1] = IF i + 1 = 1 THEN tt[i + 1] ELSE f[i] \o tt[i + 1]
          /\ g[i + 1] = IF i + 1 = 1 THEN ss[i + 1] ELSE g[i] \o ss[i + 1]
      BY <2>1, <2>2, <3>1 DEF Joins
    <3>3. i + 1 # 1 => f[i] = g[i]
      BY <2>4
    <3> QED
      BY <3>1, <3>2, <3>3
  <2>5. n \in T
    <3> HIDE DEF T
    <3> QED
      BY <2>3, <2>4, SetInduction
  <2>6. n + 1 \in 1..Len(tt) /\ n + 1 # 1 /\ (n + 1) - 1 = n /\ n \in 1..n
    BY <1>1, <1>3
  <2>7. f[n + 1] = f[n] \o tt[n + 1]
    BY <2>1, <2>6 DEF Joins
  <2>8. f[n] = g[n]
    BY <2>5, <2>6
  <2> QED
    BY <1>0, <1>1, <2>1, <2>2, <2>7, <2>8 DEF tt
<1> QED
  BY <1>2, <1>3

(* What the elements of a sequence give, one after the other.               *)
EachOf(s, part) == FlattenSeq([i \in DOMAIN s |-> part[s[i]]])

LEMMA EachAppend ==
  ASSUME NEW C, NEW S, NEW part, \A d \in C : part[d] \in Seq(S),
         NEW cs \in Seq(C), NEW c \in C
  PROVE  /\ EachOf(Append(cs, c), part) = EachOf(cs, part) \o part[c]
         /\ EachOf(cs, part) \in Seq(S)
<1> DEFINE ss == [i \in DOMAIN cs |-> part[cs[i]]]
           ds == Append(cs, c)
           tt == [i \in DOMAIN ds |-> part[ds[i]]]
<1>0. PICK n \in Nat : n = Len(cs)
  OBVIOUS
<1>1. DOMAIN cs = 1..n /\ \A i \in 1..n : cs[i] \in C
  BY <1>0
<1>2. DOMAIN ds = 1..n + 1 /\ ds[n + 1] = c /\ \A i \in 1..n : ds[i] = cs[i]
  BY <1>0
<1>3. part[c] \in Seq(S) /\ \A i \in 1..n : part[cs[i]] \in Seq(S)
  BY <1>1
<1>4. ss \in Seq(Seq(S)) /\ Len(ss) = n /\ \A i \in 1..n : ss[i] = part[cs[i]]
  BY <1>1, <1>3
<1> HIDE DEF ds
<1>5. DOMAIN tt = 1..n + 1 /\ tt[n + 1] = part[c] /\ \A i \in 1..n : tt[i] = part[cs[i]]
  <2>1. (\A i \in 1..n : i \in 1..n + 1) /\ n + 1 \in 1..n + 1
    OBVIOUS
  <2>2. DOMAIN tt = 1..n + 1 /\ \A i \in 1..n + 1 : tt[i] = part[ds[i]]
    BY <1>2
  <2> HIDE DEF tt
  <2> QED
    BY <1>2, <2>1, <2>2
<1>6. tt = [i \in 1..n + 1 |-> tt[i]]
  BY <1>5
<1> HIDE DEF ss, tt
<1>7. Append(ss, part[c]) = tt
  <2> DEFINE uu == Append(ss, part[c])
  <2>1. uu \in Seq(Seq(S)) /\ Len(uu) = n + 1
    BY <1>3, <1>4
  <2>2. uu[n + 1] = part[c] /\ \A i \in 1..n : uu[i] = part[cs[i]]
    BY <1>3, <1>4
  <2> HIDE DEF uu
  <2>3. uu = [i \in 1..n + 1 |-> uu[i]]
    BY <2>1
  <2>4. \A i \in 1..n + 1 : i \in 1..n \/ i = n + 1
    OBVIOUS
  <2>5. \A i \in 1..n + 1 : uu[i] = tt[i]
    BY <1>5, <2>2, <2>4
  <2>6. uu = tt
    BY <1>6, <2>3, <2>5
  <2> QED
    BY <2>6 DEF uu
<1>8. FlattenSeq(tt) = FlattenSeq(ss) \o part[c] /\ FlattenSeq(ss) \in Seq(S)
  <2>1. FlattenSeq(Append(ss, part[c])) = FlattenSeq(ss) \o part[c] /\ FlattenSeq(ss) \in Seq(S)
    BY <1>3, <1>4, FlattenAppend
  <2> QED
    BY <1>7, <2>1
<1> QED
  BY <1>8 DEF ss, tt, ds, EachOf

(* Those elements of a sequence that are in G.                              *)
Within(s, G) == FlattenSeq([i \in DOMAIN s |-> IF s[i] \in G THEN <<s[i]>> ELSE <<>>])

LEMMA WithinAppend ==
  ASSUME NEW C, NEW G, NEW cs \in Seq(C), NEW c \in C
  PROVE  /\ Within(Append(cs, c), G) = IF c \in G THEN Append(Within(cs, G), c) ELSE Within(cs, G)
         /\ Within(cs, G) \in Seq(C)
<1> DEFINE ds == Append(cs, c)
<1>1. PICK part \in [C -> Seq(C)] : \A d \in C : part[d] = IF d \in G THEN <<d>> ELSE <<>>
  <2> DEFINE p == [d \in C |-> IF d \in G THEN <<d>> ELSE <<>>]
  <2>1. p \in [C -> Seq(C)] /\ \A d \in C : p[d] = IF d \in G THEN <<d>> ELSE <<>>
    OBVIOUS
  <2> QED
    BY <2>1
<1>2. ds \in Seq(C)
  OBVIOUS
<1>3. Within(cs, G) = EachOf(cs, part) /\ Within(ds, G) = EachOf(ds, part)
  <2> HIDE DEF ds
  <2>1. (\A i \in DOMAIN cs : cs[i] \in C) /\ \A i \in DOMAIN ds : ds[i] \in C
    BY <1>2
  <2>2. /\ [i \in DOMAIN cs |-> part[cs[i]]] = [i \in DOMAIN cs |-> IF cs[i] \in G THEN <<cs[i]>> ELSE <<>>]
        /\ [i \in DOMAIN ds |-> part[ds[i]]] = [i \in DOMAIN ds |-> IF ds[i] \in G THEN <<ds[i]>> ELSE <<>>]
    BY <1>1, <2>1
  <2> QED
    BY <2>2 DEF Within, EachOf
<1>4. part[c] = IF c \in G THEN <<c>> ELSE <<>>
  BY <1>1
<1>5. EachOf(ds, part) = EachOf(cs, part) \o part[c] /\ EachOf(cs, part) \in Seq(C)
  <2>1. \A d \in C : part[d] \in Seq(C)
    BY <1>1
  <2> QED
    BY <2>1, EachAppend
<1>6. Within(ds, G) = Within(cs, G) \o part[c] /\ Within(cs, G) \in Seq(C)
  BY <1>3, <1>5
<1>7. Within(cs, G) \o <<c>> = Append(Within(cs, G), c) /\ Within(cs, G) \o <<>> = Within(cs, G)
  BY <1>6, AppendIsConcat
<1> QED
  BY <1>4, <1>6, <1>7

LEMMA WithinNothing == ASSUME NEW G PROVE Within(<<>>, G) = <<>>
<1>1. [i \in DOMAIN <<>> |-> IF <<>>[i] \in G THEN <<(<<>>[i])>> ELSE <<>>] = <<>>
  OBVIOUS
<1> QED
  BY <1>1, FlattenNothing DEF Within

----------------------------------------------------------------------------
(* What an answer's events and blocks are made of.                          *)

Piece == Int \ {Separator}
AnswerName == DOMAIN Original \cup {NoName}
AnswerBlock == [type : AnswerType, id : Nat, name : AnswerName,
          signature : Seq(Piece), text : Seq(Piece)]
Usage == [input : Nat, cached : Nat, creation : Nat]
StopOrNone == StopReason \cup {"none"}
Message == [blocks : Seq(AnswerBlock), usage : Usage, output : Nat, stop : StopOrNone,
            open : BOOLEAN]

ActiveType == {"none", "thinking", "redacted_thinking"}
ActiveBlock == [type : ActiveType, text : Seq(Piece), signature : Seq(Piece), index : Nat]
RawBlock == [type : AnswerType, text : Seq(Piece), signature : Seq(Piece)]
Named == [id : Nat, name : {Original[n] : n \in DOMAIN Original}]
FinishReason == {"length", "tool_calls", "content_filter", "stop"}
Closing == [reason : FinishReason,
            usage : [prompt : Nat, completion : Nat, total : Nat, cached : Nat, creation : Nat]]
Value == Piece \cup RawBlock \cup Named \cup Closing
ChunkKind == {"tool", "args", "reasoning", "content", "details", "finish"}
Role == {"assistant", "none"}
Chunk == [kind : ChunkKind, at : Int, val : Value, role : Role]
Relay == [toolIndex : Int, active : ActiveBlock, sentRole : BOOLEAN, usage : Usage,
          chunks : Seq(Chunk)]

OfKind(kind) == {c \in Chunk : c.kind = kind}
ArgsTo(at) == {c \in Chunk : c.kind = "args" /\ c.at = at}
WithRole == {c \in Chunk : c.role = "assistant"}
Typed(type) == {b \in AnswerBlock : b.type = type}
Thinks == {b \in AnswerBlock : IsThinking(b)}

LEMMA ValsAppend ==
  ASSUME NEW cs \in Seq(Chunk), NEW c \in Chunk
  PROVE  /\ Vals(Append(cs, c)) = Append(Vals(cs), c.val)
         /\ Vals(cs) \in Seq(Value) /\ Len(Vals(cs)) = Len(cs)
<1>1. PICK n \in Nat : n = Len(cs)
  OBVIOUS
<1>2. c.val \in Value /\ \A i \in 1..n : cs[i].val \in Value
  <2>1. c \in Chunk /\ \A i \in 1..n : cs[i] \in Chunk
    BY <1>1
  <2> HIDE DEF Value
  <2>2. \A d \in Chunk : d.val \in Value
    BY DEF Chunk
  <2> QED
    BY <2>1, <2>2
<1> HIDE DEF Chunk, Value
<1>3. Vals(cs) \in Seq(Value) /\ Len(Vals(cs)) = n /\ \A i \in 1..n : Vals(cs)[i] = cs[i].val
  BY <1>1, <1>2 DEF Vals
<1> DEFINE us == Append(Vals(cs), c.val)
           ds == Append(cs, c)
           vs == Vals(ds)
<1>4. DOMAIN ds = 1..n + 1 /\ ds[n + 1] = c /\ \A i \in 1..n : ds[i] = cs[i]
  BY <1>1
<1> HIDE DEF ds
<1>5. vs = [i \in 1..n + 1 |-> ds[i].val]
  BY <1>4 DEF Vals
<1>6. us \in Seq(Value) /\ Len(us) = n + 1 /\ us[n + 1] = c.val /\ \A i \in 1..n : us[i] = cs[i].val
  BY <1>2, <1>3
<1> HIDE DEF us, vs
<1>7. us = [i \in 1..n + 1 |-> us[i]]
  BY <1>6
<1>8. \A i \in 1..n + 1 : us[i] = ds[i].val
  <2>1. \A i \in 1..n + 1 : i \in 1..n \/ i = n + 1
    OBVIOUS
  <2> QED
    BY <1>4, <1>6, <2>1
<1>9. us = vs
  BY <1>5, <1>7, <1>8
<1> QED
  BY <1>1, <1>3, <1>9 DEF us, vs, ds

(* What a client has of its chunks.                                         *)
Content(cs) == Vals(Within(cs, OfKind("content")))
Reasoning(cs) == Vals(Within(cs, OfKind("reasoning")))
Details(cs) == Vals(Within(cs, OfKind("details")))
Tools(cs) == Within(cs, OfKind("tool"))
ArgsOf(cs, at) == Vals(Within(cs, ArgsTo(at)))
Finishes(cs) == Vals(Within(cs, OfKind("finish")))
Roles(cs) == Within(cs, WithRole)

LEMMA ValsWithin ==
  ASSUME NEW cs \in Seq(Chunk), NEW c \in Chunk, NEW G
  PROVE  /\ Vals(Within(Append(cs, c), G)) = IF c \in G THEN Append(Vals(Within(cs, G)), c.val)
                                                        ELSE Vals(Within(cs, G))
         /\ Vals(Within(cs, G)) \in Seq(Value)
<1>1. /\ Within(Append(cs, c), G) = IF c \in G THEN Append(Within(cs, G), c) ELSE Within(cs, G)
      /\ Within(cs, G) \in Seq(Chunk)
  BY WithinAppend
<1> QED
  BY <1>1, ValsAppend

LEMMA ChunkAdds ==
  ASSUME NEW cs \in Seq(Chunk), NEW c \in Chunk
  PROVE  /\ Content(Append(cs, c)) =
              IF c.kind = "content" THEN Append(Content(cs), c.val) ELSE Content(cs)
         /\ Reasoning(Append(cs, c)) =
              IF c.kind = "reasoning" THEN Append(Reasoning(cs), c.val) ELSE Reasoning(cs)
         /\ Details(Append(cs, c)) =
              IF c.kind = "details" THEN Append(Details(cs), c.val) ELSE Details(cs)
         /\ Finishes(Append(cs, c)) =
              IF c.kind = "finish" THEN Append(Finishes(cs), c.val) ELSE Finishes(cs)
         /\ Tools(Append(cs, c)) =
              IF c.kind = "tool" THEN Append(Tools(cs), c) ELSE Tools(cs)
         /\ \A at : ArgsOf(Append(cs, c), at) =
              IF c.kind = "args" /\ c.at = at THEN Append(ArgsOf(cs, at), c.val)
                                              ELSE ArgsOf(cs, at)
         /\ Roles(Append(cs, c)) = IF c.role = "assistant" THEN Append(Roles(cs), c) ELSE Roles(cs)
<1>1. /\ \A k : c \in OfKind(k) <=> c.kind = k
      /\ \A at : c \in ArgsTo(at) <=> c.kind = "args" /\ c.at = at
      /\ c \in WithRole <=> c.role = "assistant"
  BY DEF OfKind, ArgsTo, WithRole
<1>2. Content(Append(cs, c)) =
        IF c.kind = "content" THEN Append(Content(cs), c.val) ELSE Content(cs)
  BY <1>1, ValsWithin DEF Content
<1>3. Reasoning(Append(cs, c)) =
        IF c.kind = "reasoning" THEN Append(Reasoning(cs), c.val) ELSE Reasoning(cs)
  BY <1>1, ValsWithin DEF Reasoning
<1>4. Details(Append(cs, c)) =
        IF c.kind = "details" THEN Append(Details(cs), c.val) ELSE Details(cs)
  BY <1>1, ValsWithin DEF Details
<1>5. Finishes(Append(cs, c)) =
        IF c.kind = "finish" THEN Append(Finishes(cs), c.val) ELSE Finishes(cs)
  BY <1>1, ValsWithin DEF Finishes
<1>6. Tools(Append(cs, c)) = IF c.kind = "tool" THEN Append(Tools(cs), c) ELSE Tools(cs)
  BY <1>1, WithinAppend DEF Tools
<1>7. ASSUME NEW at
      PROVE  ArgsOf(Append(cs, c), at) =
               IF c.kind = "args" /\ c.at = at THEN Append(ArgsOf(cs, at), c.val)
                                               ELSE ArgsOf(cs, at)
  BY <1>1, ValsWithin DEF ArgsOf
<1>8. Roles(Append(cs, c)) = IF c.role = "assistant" THEN Append(Roles(cs), c) ELSE Roles(cs)
  BY <1>1, WithinAppend DEF Roles
<1> QED
  BY <1>2, <1>3, <1>4, <1>5, <1>6, <1>7, <1>8

LEMMA ChunkTypes ==
  ASSUME NEW cs \in Seq(Chunk)
  PROVE  /\ Content(cs) \in Seq(Value) /\ Reasoning(cs) \in Seq(Value) /\ Details(cs) \in Seq(Value)
         /\ Finishes(cs) \in Seq(Value) /\ Tools(cs) \in Seq(Chunk) /\ Roles(cs) \in Seq(Chunk)
         /\ \A at : ArgsOf(cs, at) \in Seq(Value)
<1>0. CASE Chunk = {}
  <2>1. cs = <<>>
    BY <1>0, EmptySeq
  <2>2. \A G : Within(cs, G) = <<>>
    BY <2>1, WithinNothing
  <2>3. Vals(<<>>) = <<>>
    BY DEF Vals
  <2>4. \A G : Vals(Within(cs, G)) \in Seq(Value) /\ Within(cs, G) \in Seq(Chunk)
    BY <2>2, <2>3, EmptySeq
  <2> QED
    BY <2>4 DEF Content, Reasoning, Details, Finishes, Tools, Roles, ArgsOf
<1>1. CASE Chunk # {}
  <2>1. PICK c \in Chunk : TRUE
    BY <1>1
  <2> HIDE DEF Chunk
  <2>2. \A G : Vals(Within(cs, G)) \in Seq(Value) /\ Within(cs, G) \in Seq(Chunk)
    BY <2>1, ValsWithin, WithinAppend
  <2> QED
    BY <2>2 DEF Content, Reasoning, Details, Finishes, Tools, Roles, ArgsOf
<1> QED
  BY <1>0, <1>1

(* What a reader has of the blocks.                                         *)
Spoken(bs) == FlattenSeq(Texts(Within(bs, Typed("text"))))
Thought(bs) == FlattenSeq(Texts(Within(bs, Typed("thinking"))))
Raws(bs) == LET ts == Within(bs, Thinks) IN [i \in DOMAIN ts |-> Raw(ts[i])]
Calls(bs) == Within(bs, Typed("tool_use"))

LEMMA WrittenIs ==
  ASSUME NEW ps \in Seq(Piece), NEW p \in Piece
  PROVE  /\ Legible(Append(ps, p)) = IF p = 0 THEN Legible(ps) ELSE Append(Legible(ps), p)
         /\ Legible(ps) \in Seq(Piece)
<1> DEFINE G == Piece \ {0}
           qs == Append(ps, p)
<1>1. qs \in Seq(Piece)
  OBVIOUS
<1>2. ASSUME NEW s \in Seq(Piece) PROVE Legible(s) = Within(s, G)
  <2>1. \A i \in DOMAIN s : s[i] # 0 <=> s[i] \in G
    OBVIOUS
  <2> HIDE DEF G
  <2>2. [i \in DOMAIN s |-> IF s[i] # 0 THEN <<s[i]>> ELSE <<>>]
          = [i \in DOMAIN s |-> IF s[i] \in G THEN <<s[i]>> ELSE <<>>]
    BY <2>1
  <2> QED
    BY <2>2 DEF Legible, Those, Within
<1>3. p \in G <=> p # 0
  OBVIOUS
<1> HIDE DEF G
<1>4. /\ Within(Append(ps, p), G) = IF p \in G THEN Append(Within(ps, G), p) ELSE Within(ps, G)
      /\ Within(ps, G) \in Seq(Piece)
  BY WithinAppend
<1> QED
  BY <1>1, <1>2, <1>3, <1>4

LEMMA WrittenNothing == Legible(<<>>) = <<>>
<1>1. [i \in DOMAIN <<>> |-> IF <<>>[i] # 0 THEN <<(<<>>[i])>> ELSE <<>>] = <<>>
  OBVIOUS
<1> QED
  BY <1>1, FlattenNothing DEF Legible, Those

LEMMA IsWritten == ASSUME NEW ps \in Seq(Piece) PROVE Legible(ps) \in Seq(Piece)
<1>1. 0 \in Piece
  BY DEF Piece, Separator
<1> QED
  BY <1>1, WrittenIs

(* A mapping of one element more.                                           *)
LEMMA MapsAppend ==
  ASSUME NEW S, NEW V, NEW s \in Seq(S), NEW x \in S, NEW f, \A y \in S : f[y] \in V,
         NEW v, v = [i \in DOMAIN s |-> f[s[i]]],
         NEW w, w = [i \in DOMAIN Append(s, x) |-> f[Append(s, x)[i]]]
  PROVE  v \in Seq(V) /\ w = Append(v, f[x])
<1> DEFINE t == Append(s, x)
           u == Append(v, f[x])
<1>1. PICK n \in Nat : n = Len(s)
  OBVIOUS
<1>2. DOMAIN t = 1..n + 1 /\ t[n + 1] = x /\ \A i \in 1..n : t[i] = s[i] /\ s[i] \in S
  BY <1>1
<1> HIDE DEF t
<1>3. DOMAIN s = 1..n /\ f[x] \in V /\ \A i \in 1..n : f[s[i]] \in V
  BY <1>1, <1>2
<1>4. v \in Seq(V) /\ Len(v) = n /\ \A i \in 1..n : v[i] = f[s[i]]
  BY <1>3
<1>5. u \in Seq(V) /\ Len(u) = n + 1 /\ u[n + 1] = f[x] /\ \A i \in 1..n : u[i] = f[s[i]]
  BY <1>3, <1>4
<1> HIDE DEF u
<1>6. u = [i \in 1..n + 1 |-> u[i]]
  BY <1>5
<1>7. \A i \in 1..n + 1 : u[i] = f[t[i]]
  <2>1. \A i \in 1..n + 1 : i \in 1..n \/ i = n + 1
    OBVIOUS
  <2> QED
    BY <1>2, <1>5, <2>1
<1>8. w = [i \in 1..n + 1 |-> f[t[i]]]
  BY <1>2 DEF t
<1>9. u = w
  BY <1>6, <1>7, <1>8
<1> QED
  BY <1>4, <1>9 DEF u

LEMMA TextsAppend ==
  ASSUME NEW bs \in Seq(AnswerBlock), NEW b \in AnswerBlock
  PROVE  /\ Texts(Append(bs, b)) = Append(Texts(bs), Legible(b.text))
         /\ Texts(bs) \in Seq(Seq(Piece))
<1> DEFINE cs == Append(bs, b)
<1>1. PICK f : f = [y \in AnswerBlock |-> Legible(y.text)]
  OBVIOUS
<1>2. \A y \in AnswerBlock : f[y] = Legible(y.text) /\ f[y] \in Seq(Piece)
  <2>1. \A y \in AnswerBlock : y.text \in Seq(Piece)
    <3> HIDE DEF Piece
    <3> QED
      BY DEF AnswerBlock
  <2> QED
    BY <1>1, <2>1, IsWritten
<1> HIDE DEF AnswerBlock, Piece
<1>3. cs \in Seq(AnswerBlock)
  OBVIOUS
<1>4. ASSUME NEW s \in Seq(AnswerBlock) PROVE Texts(s) = [i \in DOMAIN s |-> f[s[i]]]
  <2>1. \A i \in DOMAIN s : s[i] \in AnswerBlock
    OBVIOUS
  <2> QED
    BY <1>2, <2>1 DEF Texts
<1>5. Texts(bs) \in Seq(Seq(Piece)) /\ Texts(cs) = Append(Texts(bs), f[b])
  <2>1. PICK v, w : v = [i \in DOMAIN bs |-> f[bs[i]]] /\ w = [i \in DOMAIN cs |-> f[cs[i]]]
    OBVIOUS
  <2> DEFINE V == Seq(Piece)
  <2>2. \A y \in AnswerBlock : f[y] \in V
    BY <1>2
  <2> HIDE DEF V
  <2>3. v \in Seq(V) /\ w = Append(v, f[b])
    BY <2>1, <2>2, MapsAppend, SMTT(30)
  <2>4. Texts(bs) = v /\ Texts(cs) = w
    <3> HIDE DEF cs
    <3> QED
      BY <1>3, <1>4, <2>1
  <2> QED
    BY <2>3, <2>4 DEF V
<1> QED
  BY <1>2, <1>5

LEMMA RawIs ==
  ASSUME NEW b \in AnswerBlock PROVE Raw(b) \in RawBlock
<1>1. b.type \in AnswerType /\ b.text \in Seq(Piece) /\ b.signature \in Seq(Piece)
  <2> HIDE DEF Piece, AnswerType
  <2> QED
    BY DEF AnswerBlock
<1>2. Legible(b.text) \in Seq(Piece) /\ Legible(b.signature) \in Seq(Piece)
  BY <1>1, IsWritten
<1> HIDE DEF Piece, AnswerType
<1> QED
  BY <1>1, <1>2 DEF Raw, RawBlock

LEMMA RawsAppend ==
  ASSUME NEW ts \in Seq(AnswerBlock), NEW b \in AnswerBlock
  PROVE  /\ [i \in DOMAIN Append(ts, b) |-> Raw(Append(ts, b)[i])]
              = Append([i \in DOMAIN ts |-> Raw(ts[i])], Raw(b))
         /\ [i \in DOMAIN ts |-> Raw(ts[i])] \in Seq(RawBlock)
<1> DEFINE us == Append(ts, b)
           raws(s) == [i \in DOMAIN s |-> Raw(s[i])]
<1>1. PICK f : f = [y \in AnswerBlock |-> Raw(y)]
  OBVIOUS
<1>2. \A y \in AnswerBlock : f[y] = Raw(y) /\ f[y] \in RawBlock
  BY <1>1, RawIs
<1> HIDE DEF AnswerBlock, RawBlock
<1>3. us \in Seq(AnswerBlock)
  OBVIOUS
<1>4. ASSUME NEW s \in Seq(AnswerBlock) PROVE raws(s) = [i \in DOMAIN s |-> f[s[i]]]
  <2>1. \A i \in DOMAIN s : s[i] \in AnswerBlock
    OBVIOUS
  <2> QED
    BY <1>2, <2>1
<1>5. PICK v, w : v = [i \in DOMAIN ts |-> f[ts[i]]] /\ w = [i \in DOMAIN us |-> f[us[i]]]
  OBVIOUS
<1>6. v \in Seq(RawBlock) /\ w = Append(v, f[b])
  BY <1>2, <1>5, MapsAppend
<1>7. raws(ts) = v /\ raws(us) = w
  <2> HIDE DEF us, raws
  <2> QED
    BY <1>3, <1>4, <1>5
<1> QED
  BY <1>2, <1>6, <1>7

LEMMA BlockAdds ==
  ASSUME NEW bs \in Seq(AnswerBlock), NEW b \in AnswerBlock
  PROVE  /\ Spoken(Append(bs, b)) =
              IF b.type = "text" THEN Spoken(bs) \o Legible(b.text) ELSE Spoken(bs)
         /\ Thought(Append(bs, b)) =
              IF b.type = "thinking" THEN Thought(bs) \o Legible(b.text) ELSE Thought(bs)
         /\ Raws(Append(bs, b)) = IF IsThinking(b) THEN Append(Raws(bs), Raw(b)) ELSE Raws(bs)
         /\ Calls(Append(bs, b)) = IF b.type = "tool_use" THEN Append(Calls(bs), b) ELSE Calls(bs)
         /\ Spoken(bs) \in Seq(Piece) /\ Thought(bs) \in Seq(Piece)
         /\ Raws(bs) \in Seq(RawBlock) /\ Calls(bs) \in Seq(AnswerBlock)
<1>1. (\A t : b \in Typed(t) <=> b.type = t) /\ (b \in Thinks <=> IsThinking(b))
  BY DEF Typed, Thinks
<1>2. \A G : /\ Within(Append(bs, b), G) = IF b \in G THEN Append(Within(bs, G), b) ELSE Within(bs, G)
             /\ Within(bs, G) \in Seq(AnswerBlock)
  BY WithinAppend
<1>3. b.text \in Seq(Piece)
  <2> HIDE DEF Piece
  <2> QED
    BY DEF AnswerBlock
<1>4. Legible(b.text) \in Seq(Piece)
  BY <1>3, IsWritten
<1> HIDE DEF AnswerBlock, Piece
<1>5. ASSUME NEW t
      PROVE  /\ FlattenSeq(Texts(Append(Within(bs, Typed(t)), b)))
                  = FlattenSeq(Texts(Within(bs, Typed(t)))) \o Legible(b.text)
             /\ FlattenSeq(Texts(Within(bs, Typed(t)))) \in Seq(Piece)
  <2>1. PICK ts \in Seq(AnswerBlock) : ts = Within(bs, Typed(t))
    BY <1>2
  <2>2. Texts(Append(ts, b)) = Append(Texts(ts), Legible(b.text)) /\ Texts(ts) \in Seq(Seq(Piece))
    BY TextsAppend
  <2>3. /\ FlattenSeq(Append(Texts(ts), Legible(b.text))) = FlattenSeq(Texts(ts)) \o Legible(b.text)
        /\ FlattenSeq(Texts(ts)) \in Seq(Piece)
    BY <1>4, <2>2, FlattenAppend
  <2> QED
    BY <2>1, <2>2, <2>3
<1>6. /\ Spoken(Append(bs, b)) =
           IF b.type = "text" THEN Spoken(bs) \o Legible(b.text) ELSE Spoken(bs)
      /\ Spoken(bs) \in Seq(Piece)
  BY <1>1, <1>2, <1>5 DEF Spoken
<1>7. /\ Thought(Append(bs, b)) =
           IF b.type = "thinking" THEN Thought(bs) \o Legible(b.text) ELSE Thought(bs)
      /\ Thought(bs) \in Seq(Piece)
  BY <1>1, <1>2, <1>5 DEF Thought
<1>8. /\ Raws(Append(bs, b)) = IF IsThinking(b) THEN Append(Raws(bs), Raw(b)) ELSE Raws(bs)
      /\ Raws(bs) \in Seq(RawBlock)
  <2>1. PICK ts \in Seq(AnswerBlock) : ts = Within(bs, Thinks)
    BY <1>2
  <2>2. /\ [i \in DOMAIN Append(ts, b) |-> Raw(Append(ts, b)[i])]
             = Append([i \in DOMAIN ts |-> Raw(ts[i])], Raw(b))
        /\ [i \in DOMAIN ts |-> Raw(ts[i])] \in Seq(RawBlock)
    BY RawsAppend
  <2>3. CASE IsThinking(b)
    <3>1. Within(Append(bs, b), Thinks) = Append(ts, b)
      BY <1>1, <1>2, <2>1, <2>3
    <3> QED
      BY <2>1, <2>2, <2>3, <3>1 DEF Raws
  <2>4. CASE ~IsThinking(b)
    <3>1. Within(Append(bs, b), Thinks) = ts
      BY <1>1, <1>2, <2>1, <2>4
    <3> QED
      BY <2>1, <2>2, <2>4, <3>1 DEF Raws
  <2> QED
    BY <2>3, <2>4
<1>9. /\ Calls(Append(bs, b)) = IF b.type = "tool_use" THEN Append(Calls(bs), b) ELSE Calls(bs)
      /\ Calls(bs) \in Seq(AnswerBlock)
  BY <1>1, <1>2 DEF Calls
<1> QED
  BY <1>6, <1>7, <1>8, <1>9

LEMMA NothingRead ==
  /\ Spoken(<<>>) = <<>> /\ Thought(<<>>) = <<>> /\ Raws(<<>>) = <<>> /\ Calls(<<>>) = <<>>
  /\ Content(<<>>) = <<>> /\ Reasoning(<<>>) = <<>> /\ Details(<<>>) = <<>>
  /\ Finishes(<<>>) = <<>> /\ Tools(<<>>) = <<>> /\ Roles(<<>>) = <<>>
  /\ \A at : ArgsOf(<<>>, at) = <<>>
<1>1. \A G : Within(<<>>, G) = <<>>
  BY WithinNothing
<1>2. FlattenSeq(<<>>) = <<>> /\ Texts(<<>>) = <<>> /\ Vals(<<>>) = <<>>
      /\ [i \in DOMAIN <<>> |-> Raw(<<>>[i])] = <<>>
  <2>1. FlattenSeq(<<>>) = <<>>
    BY FlattenNothing
  <2>2. Texts(<<>>) = <<>>
    BY DEF Texts
  <2>3. Vals(<<>>) = <<>>
    BY DEF Vals
  <2>4. [i \in DOMAIN <<>> |-> Raw(<<>>[i])] = <<>>
    OBVIOUS
  <2> QED
    BY <2>1, <2>2, <2>3, <2>4
<1>3. Spoken(<<>>) = <<>> /\ Thought(<<>>) = <<>> /\ Raws(<<>>) = <<>> /\ Calls(<<>>) = <<>>
  BY <1>1, <1>2, Zenon DEF Spoken, Thought, Raws, Calls
<1>4. /\ Content(<<>>) = <<>> /\ Reasoning(<<>>) = <<>> /\ Details(<<>>) = <<>>
      /\ Finishes(<<>>) = <<>> /\ Tools(<<>>) = <<>> /\ Roles(<<>>) = <<>>
      /\ \A at : ArgsOf(<<>>, at) = <<>>
  BY <1>1, <1>2, Zenon DEF Content, Reasoning, Details, Finishes, Tools, Roles, ArgsOf
<1> QED
  BY <1>3, <1>4

----------------------------------------------------------------------------
(* The dashboard takes the events one after the other.                      *)
EventByEvent(f, evs) ==
    f[0] = NothingYet /\ \A n \in 1..Len(evs) : f[n] = Reconstruct(f[n - 1], evs[n])

LEMMA ReconstructedInTurn ==
  ASSUME NEW evs, Len(evs) \in Nat
  PROVE  \E f : EventByEvent(f, evs) /\ Reconstructed(evs) = f[Len(evs)]
<1> DEFINE N == Len(evs)
           Rule(f, i) == IF i = 0 THEN NothingYet ELSE Reconstruct(f[i - 1], evs[i])
           Good(m, f) == f = [i \in 0..m |-> f[i]] /\ \A i \in 0..m : f[i] = Rule(f, i)
           T == {m \in Nat : \E f : Good(m, f)}
<1> HIDE DEF NothingYet
<1>1. 0 \in T
  <2> DEFINE g == [i \in 0..0 |-> NothingYet]
  <2>1. g = [i \in 0..0 |-> g[i]] /\ \A i \in 0..0 : i = 0 /\ g[i] = NothingYet
    OBVIOUS
  <2> HIDE DEF g
  <2>2. \A i \in 0..0 : g[i] = Rule(g, i)
    BY <2>1
  <2>3. Good(0, g)
    BY <2>1, <2>2
  <2> QED
    BY <2>3
<1>2. ASSUME NEW m \in Nat, m \in T PROVE m + 1 \in T
  <2>1. PICK f : Good(m, f)
    BY <1>2
  <2> DEFINE last == Rule(f, m + 1)
             g == [i \in 0..m + 1 |-> IF i <= m THEN f[i] ELSE last]
  <2>2. g = [i \in 0..m + 1 |-> g[i]]
    OBVIOUS
  <2>3. \A i \in 0..m + 1 : g[i] = IF i <= m THEN f[i] ELSE last
    OBVIOUS
  <2> HIDE DEF g
  <2>4. ASSUME NEW i \in 0..m + 1 PROVE g[i] = Rule(g, i)
    <3>1. CASE i = 0
      <4>1. g[0] = f[0] /\ f[0] = Rule(f, 0)
        BY <2>1, <2>3
      <4> QED
        BY <3>1, <4>1
    <3>2. CASE i # 0
      <4>1. i - 1 \in 0..m /\ g[i - 1] = f[i - 1]
        BY <2>3, <3>2
      <4>2. Rule(g, i) = Rule(f, i)
        BY <4>1
      <4>3. CASE i <= m
        <5>1. i \in 0..m /\ g[i] = f[i]
          BY <2>3, <4>3
        <5>2. f[i] = Rule(f, i)
          BY <2>1, <5>1
        <5> QED
          BY <4>2, <5>1, <5>2
      <4>4. CASE i = m + 1
        <5>1. g[i] = last
          BY <2>3, <4>4
        <5> QED
          BY <4>2, <4>4, <5>1
      <4> QED
        BY <4>3, <4>4
    <3> QED
      BY <3>1, <3>2
  <2>5. Good(m + 1, g)
    BY <2>2, <2>4
  <2> HIDE DEF Good
  <2> QED
    BY <2>5
<1>3. N \in T
  <2> HIDE DEF T
  <2> QED
    BY <1>1, <1>2, SetInduction
<1>4. PICK f : Good(N, f)
  BY <1>3
<1> DEFINE value(h, i) == IF i = 0 THEN NothingYet ELSE Reconstruct(h[i - 1], evs[i])
           Computes(h) == h = [i \in 0..Len(evs) |-> value(h, i)]
           c == CHOOSE h : Computes(h)
<1>5. Computes(f)
  <2>1. f = [i \in 0..Len(evs) |-> f[i]] /\ \A i \in 0..Len(evs) : f[i] = value(f, i)
    BY <1>4
  <2> HIDE DEF value
  <2> QED
    BY <2>1
<1>6. Computes(c)
  BY <1>5
<1>7. Reconstructed(evs) = c[Len(evs)]
  BY DEF Reconstructed
<1> HIDE DEF c
<1>8. \A i \in 0..Len(evs) : c[i] = value(c, i)
  <2> HIDE DEF value
  <2> QED
    BY <1>6
<1>9. EventByEvent(c, evs)
  <2>1. 0 \in 0..Len(evs) /\ \A i \in 1..Len(evs) : i \in 0..Len(evs) /\ i # 0
    OBVIOUS
  <2> QED
    BY <1>8, <2>1 DEF EventByEvent
<1> QED
  BY <1>7, <1>9

LEMMA Reconstructs ==
  ASSUME NEW S, NEW evs \in Seq(S), NEW e \in S
  PROVE  Reconstructed(Append(evs, e)) = Reconstruct(Reconstructed(evs), e)
<1> DEFINE ds == Append(evs, e)
<1>1. PICK n \in Nat : n = Len(evs)
  OBVIOUS
<1>2. Len(ds) = n + 1 /\ ds[n + 1] = e /\ \A i \in 1..n : ds[i] = evs[i]
  BY <1>1
<1> HIDE DEF ds
<1>3. PICK f : EventByEvent(f, evs) /\ Reconstructed(evs) = f[n]
  <2>1. Len(evs) \in Nat
    BY <1>1
  <2> QED
    BY <1>1, <2>1, ReconstructedInTurn
<1>4. PICK g : EventByEvent(g, ds) /\ Reconstructed(ds) = g[n + 1]
  <2>1. Len(ds) \in Nat
    BY <1>2
  <2> QED
    BY <1>2, <2>1, ReconstructedInTurn
<1> DEFINE T == {i \in Nat : i <= n => f[i] = g[i]}
<1>5. 0 \in T
  BY <1>3, <1>4 DEF EventByEvent
<1>6. ASSUME NEW i \in Nat, i \in T PROVE i + 1 \in T
  <2> SUFFICES ASSUME i + 1 <= n PROVE f[i + 1] = g[i + 1]
    OBVIOUS
  <2>1. /\ i + 1 \in 1..Len(evs) /\ i + 1 \in 1..Len(ds) /\ (i + 1) - 1 = i
        /\ ds[i + 1] = evs[i + 1] /\ f[i] = g[i]
    BY <1>1, <1>2, <1>6
  <2>2. f[i + 1] = Reconstruct(f[i], evs[i + 1])
    BY <1>3, <2>1 DEF EventByEvent
  <2>3. g[i + 1] = Reconstruct(g[i], ds[i + 1])
    BY <1>4, <2>1 DEF EventByEvent
  <2> QED
    BY <2>1, <2>2, <2>3
<1>7. f[n] = g[n]
  <2>1. n \in T
    <3> HIDE DEF T
    <3> QED
      BY <1>5, <1>6, SetInduction
  <2> QED
    BY <2>1
<1>8. g[n + 1] = Reconstruct(g[n], e)
  <2>1. n + 1 \in 1..Len(ds) /\ (n + 1) - 1 = n
    BY <1>2
  <2>2. g[n + 1] = Reconstruct(g[n], ds[n + 1])
    BY <1>4, <2>1 DEF EventByEvent
  <2> QED
    BY <1>2, <2>2
<1> QED
  BY <1>3, <1>4, <1>7, <1>8 DEF ds

LEMMA NothingReconstructed == Reconstructed(<<>>) = NothingYet
<1>1. Len(<<>>) = 0
  OBVIOUS
<1>2. PICK f : EventByEvent(f, <<>>) /\ Reconstructed(<<>>) = f[0]
  BY <1>1, ReconstructedInTurn
<1> QED
  BY <1>2 DEF EventByEvent

(* What the dashboard has: the blocks begun, and those that it took over.   *)
Has(bs, taken, stop, output, usage) ==
    [byIndex |-> bs, taken |-> taken, stop |-> stop, output |-> output, usage |-> usage]

LEMMA BlockFields ==
  ASSUME NEW b \in AnswerBlock
  PROVE  /\ b.type \in AnswerType /\ b.id \in Nat /\ b.name \in AnswerName
         /\ b.signature \in Seq(Piece) /\ b.text \in Seq(Piece)
         /\ b = [type |-> b.type, id |-> b.id, name |-> b.name,
                 signature |-> b.signature, text |-> b.text]
<1> HIDE DEF AnswerType, Piece, AnswerName
<1> QED
  BY DEF AnswerBlock

LEMMA GrownFields ==
  ASSUME NEW b \in AnswerBlock, NEW kind, NEW p
  PROVE  Grown(b, kind, p) =
           [type |-> b.type, id |-> b.id, name |-> b.name,
            signature |-> IF kind = "signature_delta" THEN Append(b.signature, p) ELSE b.signature,
            text |-> IF kind = "signature_delta" THEN b.text ELSE Append(b.text, p)]
<1>1. PICK t, i, m, g, x : b = [type |-> t, id |-> i, name |-> m, signature |-> g, text |-> x]
  BY BlockFields
<1>2. b.type = t /\ b.id = i /\ b.name = m /\ b.signature = g /\ b.text = x
  BY <1>1
<1> HIDE DEF AnswerBlock, Piece
<1>3. PICK y : y = Append(g, p)
  OBVIOUS
<1>4. PICK z : z = Append(x, p)
  OBVIOUS
<1>5. CASE kind = "signature_delta"
  <2>1. [b EXCEPT !.signature = y] = [type |-> t, id |-> i, name |-> m, signature |-> y, text |-> x]
    BY <1>1
  <2>2. Grown(b, kind, p) = [b EXCEPT !.signature = y]
    BY <1>2, <1>3, <1>5 DEF Grown
  <2> QED
    BY <1>2, <1>3, <1>5, <2>1, <2>2
<1>6. CASE kind # "signature_delta"
  <2>1. [b EXCEPT !.text = z] = [type |-> t, id |-> i, name |-> m, signature |-> g, text |-> z]
    BY <1>1
  <2>2. Grown(b, kind, p) = [b EXCEPT !.text = z]
    BY <1>2, <1>4, <1>6 DEF Grown
  <2> QED
    BY <1>2, <1>4, <1>6, <2>1, <2>2
<1> QED
  BY <1>5, <1>6

LEMMA GrownIs ==
  ASSUME NEW b \in AnswerBlock, NEW kind, NEW p \in Piece
  PROVE  Grown(b, kind, p) \in AnswerBlock
<1>1. /\ b.type \in AnswerType /\ b.id \in Nat /\ b.name \in AnswerName
      /\ b.signature \in Seq(Piece) /\ b.text \in Seq(Piece)
  BY BlockFields
<1> HIDE DEF AnswerType, Piece, AnswerName
<1>2. Append(b.signature, p) \in Seq(Piece) /\ Append(b.text, p) \in Seq(Piece)
  BY <1>1
<1>3. PICK g, x : /\ g = IF kind = "signature_delta" THEN Append(b.signature, p) ELSE b.signature
                  /\ x = IF kind = "signature_delta" THEN b.text ELSE Append(b.text, p)
  OBVIOUS
<1>4. Grown(b, kind, p) = [type |-> b.type, id |-> b.id, name |-> b.name, signature |-> g, text |-> x]
  BY <1>3, GrownFields
<1>5. g \in Seq(Piece) /\ x \in Seq(Piece)
  BY <1>1, <1>2, <1>3
<1> QED
  BY <1>1, <1>4, <1>5 DEF AnswerBlock

LEMMA HasMore ==
  ASSUME NEW bs \in Seq(AnswerBlock), NEW b \in AnswerBlock, NEW taken, NEW stop, NEW output, NEW usage
  PROVE  Reconstruct(Has(bs, taken, stop, output, usage),
                     [type |-> "content_block_start", index |-> Len(bs) + 1, block |-> b])
           = Has(Append(bs, b), taken, stop, output, usage)
<1> DEFINE cs == Append(bs, b)
           f == [i \in DOMAIN bs \cup {Len(bs) + 1} |-> IF i = Len(bs) + 1 THEN b ELSE bs[i]]
<1>1. PICK n \in Nat : n = Len(bs)
  OBVIOUS
<1> HIDE DEF AnswerBlock
<1>2. cs \in Seq(AnswerBlock) /\ Len(cs) = n + 1 /\ cs[n + 1] = b /\ \A i \in 1..n : cs[i] = bs[i]
  BY <1>1
<1>3. DOMAIN bs \cup {n + 1} = 1..n + 1 /\ \A i \in 1..n : i # n + 1
  BY <1>1
<1> HIDE DEF cs
<1>4. cs = [i \in 1..n + 1 |-> cs[i]]
  BY <1>2
<1>5. f = [i \in 1..n + 1 |-> IF i = n + 1 THEN b ELSE bs[i]]
  BY <1>1, <1>3
<1>6. \A i \in 1..n + 1 : cs[i] = IF i = n + 1 THEN b ELSE bs[i]
  <2>1. \A i \in 1..n + 1 : i \in 1..n \/ i = n + 1
    OBVIOUS
  <2> QED
    BY <1>2, <1>3, <2>1
<1>7. f = cs
  BY <1>4, <1>5, <1>6
<1> DEFINE s == Has(bs, taken, stop, output, usage)
           ev == [type |-> "content_block_start", index |-> Len(bs) + 1, block |-> b]
<1>8. Reconstruct(s, ev) = [s EXCEPT !.byIndex = f]
  BY DEF Reconstruct, Has
<1> HIDE DEF f
<1>9. [s EXCEPT !.byIndex = f] = Has(f, taken, stop, output, usage)
  BY DEF Has
<1> QED
  BY <1>7, <1>8, <1>9 DEF cs

LEMMA LastBlock ==
  ASSUME NEW done \in Seq(AnswerBlock), NEW b \in AnswerBlock
  PROVE  /\ Len(Append(done, b)) = Len(done) + 1 /\ Len(done) \in Nat
         /\ Append(done, b)[Len(done) + 1] = b
         /\ Len(done) + 1 \in DOMAIN Append(done, b)
         /\ Append(done, b) \in Seq(AnswerBlock)
<1> HIDE DEF AnswerBlock
<1> QED
  OBVIOUS

LEMMA LastGrows ==
  ASSUME NEW done \in Seq(AnswerBlock), NEW b \in AnswerBlock, NEW c \in AnswerBlock
  PROVE  [Append(done, b) EXCEPT ![Len(done) + 1] = c] = Append(done, c)
<1> DEFINE bs == Append(done, b)
           cs == Append(done, c)
           ds == [bs EXCEPT ![Len(done) + 1] = c]
<1>1. PICK n \in Nat : n = Len(done)
  OBVIOUS
<1> HIDE DEF AnswerBlock
<1>2. bs \in Seq(AnswerBlock) /\ Len(bs) = n + 1 /\ \A i \in 1..n : bs[i] = done[i]
  BY <1>1
<1>3. cs \in Seq(AnswerBlock) /\ Len(cs) = n + 1 /\ cs[n + 1] = c /\ \A i \in 1..n : cs[i] = done[i]
  BY <1>1
<1> HIDE DEF bs, cs
<1>4. cs = [i \in 1..n + 1 |-> cs[i]] /\ bs = [i \in 1..n + 1 |-> bs[i]]
  BY <1>2, <1>3
<1>5. ds = [i \in 1..n + 1 |-> IF i = n + 1 THEN c ELSE bs[i]]
  BY <1>1, <1>4
<1>6. \A i \in 1..n + 1 : cs[i] = IF i = n + 1 THEN c ELSE bs[i]
  <2>1. \A i \in 1..n + 1 : i \in 1..n \/ i = n + 1
    OBVIOUS
  <2>2. \A i \in 1..n : i # n + 1
    OBVIOUS
  <2> QED
    BY <1>2, <1>3, <2>1, <2>2
<1>7. ds = cs
  BY <1>4, <1>5, <1>6
<1> QED
  BY <1>7 DEF bs, cs

LEMMA HasGrown ==
  ASSUME NEW done \in Seq(AnswerBlock), NEW b \in AnswerBlock, NEW kind, NEW p \in Piece,
         NEW taken, NEW stop, NEW output, NEW usage
  PROVE  Reconstruct(Has(Append(done, b), taken, stop, output, usage),
                     [type |-> "content_block_delta", index |-> Len(done) + 1,
                      kind |-> kind, piece |-> p])
           = Has(Append(done, Grown(b, kind, p)), taken, stop, output, usage)
<1> DEFINE bs == Append(done, b)
           n == Len(done) + 1
           s == Has(bs, taken, stop, output, usage)
           ev == [type |-> "content_block_delta", index |-> n, kind |-> kind, piece |-> p]
           c == Grown(b, kind, p)
<1>1. bs[n] = b /\ n \in DOMAIN bs
  BY LastBlock
<1>2. [bs EXCEPT ![n] = c] = Append(done, c)
  BY GrownIs, LastGrows
<1> HIDE DEF bs, n, AnswerBlock, Piece
<1>4. CASE kind = "signature_delta"
  <2>1. c = [b EXCEPT !.signature = Append(@, p)]
    BY <1>4 DEF Grown
  <2>2. Reconstruct(s, ev) = [s EXCEPT !.byIndex = [bs EXCEPT ![n] = c]]
    <3>1. [bs EXCEPT ![n] = c] = [bs EXCEPT ![n].signature = Append(@, p)]
      BY <1>1, <2>1
    <3>2. Reconstruct(s, ev) = [s EXCEPT !.byIndex[n].signature = Append(@, p)]
      BY <1>1, <1>4 DEF Reconstruct, Has
    <3>3. [s EXCEPT !.byIndex[n].signature = Append(@, p)]
            = [s EXCEPT !.byIndex = [bs EXCEPT ![n].signature = Append(@, p)]]
      BY DEF Has
    <3> QED
      BY <3>1, <3>2, <3>3
  <2> HIDE DEF c
  <2>3. [s EXCEPT !.byIndex = [bs EXCEPT ![n] = c]] = Has([bs EXCEPT ![n] = c], taken, stop, output, usage)
    BY DEF Has
  <2> QED
    BY <1>2, <2>2, <2>3 DEF bs, n, c
<1>5. CASE kind # "signature_delta"
  <2>1. c = [b EXCEPT !.text = Append(@, p)]
    BY <1>5 DEF Grown
  <2>2. Reconstruct(s, ev) = [s EXCEPT !.byIndex = [bs EXCEPT ![n] = c]]
    <3>1. [bs EXCEPT ![n] = c] = [bs EXCEPT ![n].text = Append(@, p)]
      BY <1>1, <2>1
    <3>2. Reconstruct(s, ev) = [s EXCEPT !.byIndex[n].text = Append(@, p)]
      BY <1>1, <1>5 DEF Reconstruct, Has
    <3>3. [s EXCEPT !.byIndex[n].text = Append(@, p)]
            = [s EXCEPT !.byIndex = [bs EXCEPT ![n].text = Append(@, p)]]
      BY DEF Has
    <3> QED
      BY <3>1, <3>2, <3>3
  <2> HIDE DEF c
  <2>3. [s EXCEPT !.byIndex = [bs EXCEPT ![n] = c]] = Has([bs EXCEPT ![n] = c], taken, stop, output, usage)
    BY DEF Has
  <2> QED
    BY <1>2, <2>2, <2>3 DEF bs, n, c
<1> QED
  BY <1>4, <1>5

LEMMA HasTaken ==
  ASSUME NEW bs, NEW done, NEW stop, NEW output, NEW usage, NEW more
  PROVE  [Has(bs, done, stop, output, usage) EXCEPT !.taken = more]
           = Has(bs, more, stop, output, usage)
  BY DEF Has

LEMMA HasStopped ==
  ASSUME NEW done \in Seq(AnswerBlock), NEW b \in AnswerBlock,
         NEW stop, NEW output, NEW usage
  PROVE  Reconstruct(Has(Append(done, b), done, stop, output, usage),
                     [type |-> "content_block_stop", index |-> Len(done) + 1])
           = Has(Append(done, b), Append(done, b), stop, output, usage)
<1> DEFINE bs == Append(done, b)
           n == Len(done) + 1
           s == Has(bs, done, stop, output, usage)
           ev == [type |-> "content_block_stop", index |-> n]
<1>1. bs[n] = b /\ n \in DOMAIN bs
  BY LastBlock
<1> HIDE DEF n, AnswerBlock
<1>2. Reconstruct(s, ev) = [s EXCEPT !.taken = Append(@, b)]
  <2> HIDE DEF bs
  <2> QED
    BY <1>1 DEF Reconstruct, Has
<1> HIDE DEF bs
<1>3. [s EXCEPT !.taken = Append(@, b)] = Has(bs, Append(done, b), stop, output, usage)
  <2>1. PICK all : all = Append(done, b)
    OBVIOUS
  <2>2. [s EXCEPT !.taken = Append(@, b)] = [s EXCEPT !.taken = all]
    <3>1. s.taken = done
      BY DEF Has
    <3> QED
      BY <2>1, <3>1
  <2>3. [s EXCEPT !.taken = all] = Has(bs, all, stop, output, usage)
    BY HasTaken
  <2> QED
    BY <2>1, <2>2, <2>3
<1> QED
  BY <1>2, <1>3 DEF n, bs

LEMMA HasEnds ==
  ASSUME NEW bs, NEW taken, NEW stop, NEW output, NEW usage, NEW s, NEW o,
         NEW e, e.type = "message_delta", e.stop = s, e.output = o
  PROVE  Reconstruct(Has(bs, taken, stop, output, usage), e) = Has(bs, taken, s, o, usage)
<1>1. PICK w : w = Has(bs, taken, s, output, usage)
  OBVIOUS
<1>2. [Has(bs, taken, stop, output, usage) EXCEPT !.stop = s] = w
  BY <1>1 DEF Has
<1>3. [w EXCEPT !.output = o] = Has(bs, taken, s, o, usage)
  BY <1>1 DEF Has
<1>4. Reconstruct(Has(bs, taken, stop, output, usage), e)
        = [Has(bs, taken, stop, output, usage) EXCEPT !.stop = s, !.output = o]
  BY DEF Reconstruct
<1> QED
  BY <1>2, <1>3, <1>4

LEMMA HasUsage ==
  ASSUME NEW bs, NEW taken, NEW stop, NEW output, NEW usage, NEW u,
         NEW e, e.type = "message_start", e.usage = u
  PROVE  Reconstruct(Has(bs, taken, stop, output, usage), e) = Has(bs, taken, stop, output, u)
  BY DEF Reconstruct, Has

----------------------------------------------------------------------------
(* What the relay has: its state, and the chunks it wrote.                  *)
State(toolIndex, active, sentRole, usage, chunks) ==
    [toolIndex |-> toolIndex, active |-> active, sentRole |-> sentRole, usage |-> usage,
     chunks |-> chunks]

LEMMA RelayFields ==
  ASSUME NEW s \in Relay
  PROVE  /\ s.toolIndex \in Int /\ s.active \in ActiveBlock /\ s.sentRole \in BOOLEAN
         /\ s.usage \in Usage /\ s.chunks \in Seq(Chunk)
         /\ s = State(s.toolIndex, s.active, s.sentRole, s.usage, s.chunks)
<1> HIDE DEF ActiveBlock, Usage, Chunk
<1> QED
  BY DEF Relay, State

LEMMA StateIs ==
  ASSUME NEW toolIndex \in Int, NEW active \in ActiveBlock, NEW sentRole \in BOOLEAN,
         NEW usage \in Usage, NEW chunks \in Seq(Chunk)
  PROVE  State(toolIndex, active, sentRole, usage, chunks) \in Relay
<1> HIDE DEF ActiveBlock, Usage, Chunk
<1> QED
  BY DEF Relay, State

LEMMA ChunkIs ==
  ASSUME NEW kind \in ChunkKind, NEW at \in Int, NEW val \in Value, NEW role \in Role
  PROVE  /\ ChunkOf(kind, at, val, role) \in Chunk
         /\ ChunkOf(kind, at, val, role).kind = kind /\ ChunkOf(kind, at, val, role).at = at
         /\ ChunkOf(kind, at, val, role).val = val /\ ChunkOf(kind, at, val, role).role = role
<1> HIDE DEF ChunkKind, Value, Role
<1> QED
  BY DEF ChunkOf, Chunk

LEMMA Writes ==
  ASSUME NEW t, NEW a, NEW r, NEW u, NEW cs, NEW kind, NEW at, NEW val
  PROVE  Enqueue(State(t, a, r, u, cs), kind, at, val)
           = State(t, a, r, u, Append(cs, ChunkOf(kind, at, val, "none")))
<1> DEFINE s == State(t, a, r, u, cs)
<1>1. s.chunks = cs
  BY DEF State
<1>2. PICK ds : ds = Append(cs, ChunkOf(kind, at, val, "none"))
  OBVIOUS
<1>3. Enqueue(s, kind, at, val) = [s EXCEPT !.chunks = ds]
  <2> HIDE DEF s
  <2> QED
    BY <1>1, <1>2 DEF Enqueue
<1>4. [s EXCEPT !.chunks = ds] = State(t, a, r, u, ds)
  BY DEF State
<1> QED
  BY <1>2, <1>3, <1>4

LEMMA RoleIsSent ==
  ASSUME NEW t, NEW a, NEW r, NEW u, NEW cs, NEW q
  PROVE  [State(t, a, r, u, cs) EXCEPT !.sentRole = q] = State(t, a, q, u, cs)
  BY DEF State

(* TRUE and FALSE, as values.                                               *)
Yes == TRUE
No == FALSE
RoleAfter(r) == IF r THEN "none" ELSE "assistant"

LEMMA WritesRole ==
  ASSUME NEW t, NEW a, NEW r, NEW u, NEW cs, NEW kind, NEW at, NEW val
  PROVE  EnqueueRole(State(t, a, r, u, cs), kind, at, val)
           = State(t, a, Yes, u, Append(cs, ChunkOf(kind, at, val, RoleAfter(r))))
<1> DEFINE s == State(t, a, r, u, cs)
<1>1. s.chunks = cs /\ s.sentRole = r
  BY DEF State
<1>2. PICK ds : ds = Append(cs, ChunkOf(kind, at, val, RoleAfter(r)))
  OBVIOUS
<1>3. PICK yes : yes = Yes
  OBVIOUS
<1>4. [s EXCEPT !.chunks = ds, !.sentRole = yes] = State(t, a, yes, u, ds)
  <2>1. PICK w : w = [s EXCEPT !.chunks = ds]
    OBVIOUS
  <2>2. w = State(t, a, r, u, ds)
    BY <2>1 DEF State
  <2>3. [w EXCEPT !.sentRole = yes] = State(t, a, yes, u, ds)
    BY <2>2, RoleIsSent
  <2> HIDE DEF s
  <2> QED
    BY <2>1, <2>3
<1> HIDE DEF s
<1>5. EnqueueRole(s, kind, at, val) = [s EXCEPT !.chunks = ds, !.sentRole = yes]
  <2>1. (IF s.sentRole THEN "none" ELSE "assistant") = RoleAfter(r)
    BY <1>1 DEF RoleAfter
  <2> QED
    BY <1>1, <1>2, <1>3, <2>1 DEF EnqueueRole, Yes
<1> QED
  BY <1>2, <1>3, <1>4, <1>5 DEF s

(* What processEvent makes of each event.                                   *)
LEMMA ProcessesCall ==
  ASSUME NEW t, NEW a, NEW r, NEW u, NEW cs,
         NEW e, e.type = "content_block_start", e.block.type = "tool_use",
         NEW v, v = [id |-> e.block.id, name |-> Original[e.block.name]], NEW at, at = t + 1
  PROVE  ProcessEvent(State(t, a, r, u, cs), e)
           = State(at, a, Yes, u, Append(cs, ChunkOf("tool", at, v, RoleAfter(r))))
<1> DEFINE s == State(t, a, r, u, cs)
<1>1. s.toolIndex = t
  BY DEF State
<1>2. ProcessEvent(s, e) = BlockStarts(s, e)
  BY DEF ProcessEvent
<1>3. [s EXCEPT !.toolIndex = at] = State(at, a, r, u, cs)
  BY DEF State
<1>4. PICK w : w = [s EXCEPT !.toolIndex = at]
  OBVIOUS
<1> HIDE DEF s
<1>5. BlockStarts(s, e) = EnqueueRole(w, "tool", at, v)
  <2>1. PICK x : x = [s EXCEPT !.toolIndex = @ + 1]
    OBVIOUS
  <2>2. w = x /\ s.toolIndex + 1 = at
    BY <1>1, <1>4, <2>1
  <2>3. BlockStarts(s, e)
          = EnqueueRole([s EXCEPT !.toolIndex = @ + 1], "tool", s.toolIndex + 1,
                      [id |-> e.block.id, name |-> Original[e.block.name]])
    BY DEF BlockStarts, IsThinking
  <2>4. BlockStarts(s, e) = EnqueueRole(x, "tool", s.toolIndex + 1, v)
    BY <2>1, <2>3, Zenon
  <2> QED
    BY <2>2, <2>4, Zenon
<1>6. EnqueueRole(State(at, a, r, u, cs), "tool", at, v)
        = State(at, a, Yes, u, Append(cs, ChunkOf("tool", at, v, RoleAfter(r))))
  BY WritesRole
<1> QED
  BY <1>2, <1>3, <1>4, <1>5, <1>6 DEF s

LEMMA ProcessesThought ==
  ASSUME NEW t, NEW a, NEW r, NEW u, NEW cs,
         NEW e, e.type = "content_block_start", IsThinking(e.block)
  PROVE  ProcessEvent(State(t, a, r, u, cs), e) = State(t, ActiveOf(e), r, u, cs)
<1> DEFINE s == State(t, a, r, u, cs)
<1>1. ProcessEvent(s, e) = BlockStarts(s, e)
  BY DEF ProcessEvent
<1>2. PICK x : x = ActiveOf(e)
  OBVIOUS
<1>3. [s EXCEPT !.active = x] = State(t, x, r, u, cs)
  BY DEF State
<1> HIDE DEF s
<1>4. BlockStarts(s, e) = [s EXCEPT !.active = ActiveOf(e)]
  BY DEF BlockStarts, IsThinking
<1> QED
  BY <1>1, <1>2, <1>3, <1>4 DEF s

LEMMA ProcessesText ==
  ASSUME NEW s, NEW e, e.type = "content_block_start", e.block.type = "text"
  PROVE  ProcessEvent(s, e) = s
<1>1. ProcessEvent(s, e) = BlockStarts(s, e)
  BY DEF ProcessEvent
<1> QED
  BY <1>1 DEF BlockStarts, IsThinking

LEMMA ProcessesDelta ==
  ASSUME NEW t, NEW a, NEW r, NEW u, NEW cs,
         NEW e, e.type = "content_block_delta", NEW kind, e.kind = kind, NEW p, e.piece = p
  PROVE  /\ kind = "input_json_delta" /\ p # 0 =>
              ProcessEvent(State(t, a, r, u, cs), e)
                = State(t, a, r, u, Append(cs, ChunkOf("args", t, p, "none")))
         /\ kind = "input_json_delta" /\ p = 0 =>
              ProcessEvent(State(t, a, r, u, cs), e) = State(t, a, r, u, cs)
         /\ kind = "text_delta" /\ p # 0 =>
              ProcessEvent(State(t, a, r, u, cs), e)
                = State(t, a, Yes, u, Append(cs, ChunkOf("content", 0, p, RoleAfter(r))))
<1> DEFINE s == State(t, a, r, u, cs)
<1>1. s.toolIndex = t
  BY DEF State
<1>2. ProcessEvent(s, e) = BlockDelta(s, e)
  BY DEF ProcessEvent
<1>3. Enqueue(s, "args", t, p) = State(t, a, r, u, Append(cs, ChunkOf("args", t, p, "none")))
  BY Writes
<1>4. EnqueueRole(s, "content", 0, p)
        = State(t, a, Yes, u, Append(cs, ChunkOf("content", 0, p, RoleAfter(r))))
  BY WritesRole
<1> HIDE DEF s
<1>5. kind = "input_json_delta" /\ p # 0 => ProcessEvent(s, e) = Enqueue(s, "args", t, p)
  BY <1>1, <1>2 DEF BlockDelta
<1>6. kind = "input_json_delta" /\ p = 0 => ProcessEvent(s, e) = s
  BY <1>2 DEF BlockDelta
<1>7. kind = "text_delta" /\ p # 0 => ProcessEvent(s, e) = EnqueueRole(s, "content", 0, p)
  BY <1>2 DEF BlockDelta
<1> QED
  BY <1>3, <1>4, <1>5, <1>6, <1>7 DEF s

LEMMA ProcessesOutside ==
  ASSUME NEW t, NEW r, NEW u, NEW cs, NEW e, e.type = "content_block_stop"
  PROVE  ProcessEvent(State(t, NoBlock, r, u, cs), e) = State(t, NoBlock, r, u, cs)
<1> DEFINE s == State(t, NoBlock, r, u, cs)
<1>1. s.active = NoBlock
  BY DEF State
<1> HIDE DEF s
<1> QED
  BY <1>1 DEF ProcessEvent, BlockStops, s

LEMMA ProcessesStart ==
  ASSUME NEW t, NEW r, NEW u, NEW cs, NEW a, NEW n, NEW e, e.type = "message_start", e.usage = n
  PROVE  ProcessEvent(State(t, a, r, u, cs), e) = State(t, a, r, n, cs)
<1> DEFINE s == State(t, a, r, u, cs)
<1>1. [s EXCEPT !.usage = n] = State(t, a, r, n, cs)
  BY DEF State
<1> HIDE DEF s
<1>2. ProcessEvent(s, e) = [s EXCEPT !.usage = n]
  BY DEF ProcessEvent
<1> QED
  BY <1>1, <1>2 DEF s

LEMMA ProcessesEnd ==
  ASSUME NEW t, NEW a, NEW r, NEW u, NEW cs, NEW stop, NEW n,
         NEW v, v = [reason |-> ToFinishReason(stop), usage |-> BuildOpenAiUsage(u, n)]
  PROVE  ProcessEvent(State(t, a, r, u, cs), [type |-> "message_delta", stop |-> stop, output |-> n])
           = State(t, a, r, u, Append(cs, ChunkOf("finish", 0, v, "none")))
<1> DEFINE s == State(t, a, r, u, cs)
           e == [type |-> "message_delta", stop |-> stop, output |-> n]
<1>1. s.usage = u
  BY DEF State
<1>2. Enqueue(s, "finish", 0, v) = State(t, a, r, u, Append(cs, ChunkOf("finish", 0, v, "none")))
  BY Writes
<1> HIDE DEF s
<1>3. ProcessEvent(s, e) = Enqueue(s, "finish", 0, [reason |-> ToFinishReason(e.stop),
                                                 usage |-> BuildOpenAiUsage(s.usage, e.output)])
  BY DEF ProcessEvent
<1>4. e.stop = stop /\ e.output = n
  OBVIOUS
<1> HIDE DEF e
<1> QED
  BY <1>1, <1>2, <1>3, <1>4 DEF s, e

(* The block of thinking that the relay has open.                           *)
Opened(b, n) ==
    IF IsThinking(b)
    THEN [type |-> b.type, text |-> b.text, signature |-> b.signature, index |-> n]
    ELSE NoBlock

LEMMA OpenedFields ==
  ASSUME NEW b, NEW n, IsThinking(b)
  PROVE  /\ Opened(b, n) = [type |-> b.type, text |-> b.text, signature |-> b.signature,
                            index |-> n]
         /\ Opened(b, n).type = b.type /\ Opened(b, n).text = b.text
         /\ Opened(b, n).signature = b.signature /\ Opened(b, n).index = n
         /\ Opened(b, n) # NoBlock
<1>1. PICK a : a = [type |-> b.type, text |-> b.text, signature |-> b.signature, index |-> n]
  OBVIOUS
<1>2. Opened(b, n) = a
  BY <1>1 DEF Opened
<1>3. a.type = b.type /\ a.text = b.text /\ a.signature = b.signature /\ a.index = n
  BY <1>1
<1>4. NoBlock.type = "none" /\ b.type # "none"
  BY DEF NoBlock, IsThinking
<1> QED
  BY <1>1, <1>2, <1>3, <1>4

LEMMA OpenedGrows ==
  ASSUME NEW b \in AnswerBlock, NEW n, NEW kind, NEW p, IsThinking(b)
  PROVE  Opened(Grown(b, kind, p), n) =
           IF kind = "signature_delta"
           THEN [Opened(b, n) EXCEPT !.signature = Append(@, p)]
           ELSE [Opened(b, n) EXCEPT !.text = Append(@, p)]
<1>1. PICK t, g, x, a : /\ t = b.type /\ g = b.signature /\ x = b.text
                        /\ a = [type |-> t, text |-> x, signature |-> g, index |-> n]
  OBVIOUS
<1>2. a = Opened(b, n) /\ a.text = x /\ a.signature = g
  BY <1>1 DEF Opened
<1>3. PICK y, z : y = Append(g, p) /\ z = Append(x, p)
  OBVIOUS
<1>4. PICK d : d = Grown(b, kind, p)
  OBVIOUS
<1>5. PICK gg, xx : /\ gg = IF kind = "signature_delta" THEN y ELSE g
                    /\ xx = IF kind = "signature_delta" THEN x ELSE z
  OBVIOUS
<1>6. d.type = t /\ d.signature = gg /\ d.text = xx
  <2>1. d = [type |-> b.type, id |-> b.id, name |-> b.name, signature |-> gg, text |-> xx]
    BY <1>1, <1>3, <1>4, <1>5, GrownFields
  <2> QED
    BY <1>1, <2>1
<1>7. Opened(d, n) = [type |-> t, text |-> xx, signature |-> gg, index |-> n]
  BY <1>1, <1>6 DEF Opened, IsThinking
<1>8. [a EXCEPT !.signature = y] = [type |-> t, text |-> x, signature |-> y, index |-> n]
  BY <1>1
<1>9. [a EXCEPT !.text = z] = [type |-> t, text |-> z, signature |-> g, index |-> n]
  BY <1>1
<1>10. /\ [a EXCEPT !.signature = Append(@, p)] = [a EXCEPT !.signature = y]
       /\ [a EXCEPT !.text = Append(@, p)] = [a EXCEPT !.text = z]
  BY <1>2, <1>3
<1>11. /\ kind = "signature_delta" => Opened(d, n) = [a EXCEPT !.signature = Append(@, p)]
       /\ kind # "signature_delta" => Opened(d, n) = [a EXCEPT !.text = Append(@, p)]
  BY <1>5, <1>7, <1>8, <1>9, <1>10
<1> QED
  BY <1>2, <1>4, <1>11

(* The same, of what concerns a block of thinking that is open.             *)
LEMMA ProcessesThinking ==
  ASSUME NEW t, NEW b \in AnswerBlock, b.type = "thinking", NEW r, NEW u, NEW cs, NEW n,
         NEW p, NEW e, e.type = "content_block_delta", e.kind = "thinking_delta", e.piece = p
  PROVE  ProcessEvent(State(t, Opened(b, n), r, u, cs), e)
           = State(t, Opened(Grown(b, "thinking_delta", p), n), Yes, u,
                   Append(cs, ChunkOf("reasoning", 0, p, RoleAfter(r))))
<1>0. IsThinking(b)
  BY DEF IsThinking
<1>1. PICK a : a = Opened(b, n)
  OBVIOUS
<1>2. a.type = "thinking"
  BY <1>0, <1>1, OpenedFields
<1> DEFINE s == State(t, a, r, u, cs)
<1>3. s.active = a
  BY DEF State
<1>4. PICK x : x = [a EXCEPT !.text = Append(@, p)]
  OBVIOUS
<1>5. x = Opened(Grown(b, "thinking_delta", p), n)
  BY <1>0, <1>1, <1>4, OpenedGrows
<1>6. [s EXCEPT !.active.text = Append(@, p)] = State(t, x, r, u, cs)
  <2>1. [s EXCEPT !.active = x] = State(t, x, r, u, cs)
    BY DEF State
  <2> HIDE DEF s
  <2>2. [s EXCEPT !.active.text = Append(@, p)] = [s EXCEPT !.active = x]
    BY <1>3, <1>4
  <2> QED
    BY <2>1, <2>2
<1> HIDE DEF s
<1>7. ProcessEvent(s, e) = BlockDelta(s, e)
  BY DEF ProcessEvent
<1>8. BlockDelta(s, e) = EnqueueRole([s EXCEPT !.active.text = Append(@, p)], "reasoning", 0, p)
  BY <1>2, <1>3 DEF BlockDelta
<1>9. EnqueueRole(State(t, x, r, u, cs), "reasoning", 0, p)
        = State(t, x, Yes, u, Append(cs, ChunkOf("reasoning", 0, p, RoleAfter(r))))
  BY WritesRole
<1> QED
  BY <1>1, <1>5, <1>6, <1>7, <1>8, <1>9 DEF s

LEMMA ProcessesSignature ==
  ASSUME NEW t, NEW b \in AnswerBlock, b.type = "thinking", NEW r, NEW u, NEW cs, NEW n,
         NEW p, NEW e, e.type = "content_block_delta", e.kind = "signature_delta", e.piece = p
  PROVE  ProcessEvent(State(t, Opened(b, n), r, u, cs), e)
           = State(t, Opened(Grown(b, "signature_delta", p), n), r, u, cs)
<1>0. IsThinking(b)
  BY DEF IsThinking
<1>1. PICK a : a = Opened(b, n)
  OBVIOUS
<1>2. a # NoBlock
  BY <1>0, <1>1, OpenedFields
<1> DEFINE s == State(t, a, r, u, cs)
<1>3. s.active = a
  BY DEF State
<1>4. PICK x : x = [a EXCEPT !.signature = Append(@, p)]
  OBVIOUS
<1>5. x = Opened(Grown(b, "signature_delta", p), n)
  BY <1>0, <1>1, <1>4, OpenedGrows
<1>6. [s EXCEPT !.active.signature = Append(@, p)] = State(t, x, r, u, cs)
  <2>1. [s EXCEPT !.active = x] = State(t, x, r, u, cs)
    BY DEF State
  <2> HIDE DEF s
  <2>2. [s EXCEPT !.active.signature = Append(@, p)] = [s EXCEPT !.active = x]
    BY <1>3, <1>4
  <2> QED
    BY <2>1, <2>2
<1> HIDE DEF s
<1>7. ProcessEvent(s, e) = BlockDelta(s, e)
  BY DEF ProcessEvent
<1>8. BlockDelta(s, e) = [s EXCEPT !.active.signature = Append(@, p)]
  BY <1>2, <1>3 DEF BlockDelta
<1> QED
  BY <1>1, <1>5, <1>6, <1>7, <1>8 DEF s

LEMMA ProcessesStop ==
  ASSUME NEW t, NEW b \in AnswerBlock, IsThinking(b), NEW r, NEW u, NEW cs, NEW n,
         NEW e, e.type = "content_block_stop", e.index = n
  PROVE  ProcessEvent(State(t, Opened(b, n), r, u, cs), e)
           = State(t, NoBlock, r, u, Append(cs, ChunkOf("details", 0, Raw(b), "none")))
<1>1. PICK a : a = Opened(b, n)
  OBVIOUS
<1>2. /\ a # NoBlock /\ a.index = n /\ a.type = b.type /\ a.text = b.text
      /\ a.signature = b.signature
  BY <1>1, OpenedFields
<1> DEFINE s == State(t, a, r, u, cs)
<1>3. s.active = a
  BY DEF State
<1>4. Raw(a) = Raw(b)
  BY <1>2 DEF Raw
<1>5. PICK ds : ds = Append(cs, ChunkOf("details", 0, Raw(b), "none"))
  OBVIOUS
<1>6. Enqueue(s, "details", 0, Raw(b)) = State(t, a, r, u, ds)
  BY <1>5, Writes
<1>7. PICK x : x = NoBlock
  OBVIOUS
<1>8. [State(t, a, r, u, ds) EXCEPT !.active = x] = State(t, x, r, u, ds)
  BY DEF State
<1> HIDE DEF s
<1>9. ProcessEvent(s, e) = BlockStops(s, e)
  BY DEF ProcessEvent
<1>10. BlockStops(s, e) = [Enqueue(s, "details", 0, Raw(a)) EXCEPT !.active = NoBlock]
  BY <1>2, <1>3 DEF BlockStops
<1> QED
  BY <1>1, <1>4, <1>5, <1>6, <1>7, <1>8, <1>9, <1>10 DEF s

----------------------------------------------------------------------------
(* What the chunks tell of the blocks.                                      *)
CallsTold(calls, made, cs) ==
    /\ Len(made) = Len(calls)
    /\ \A i \in 1..Len(calls) :
         /\ made[i].at = i - 1
         /\ made[i].val = [id |-> calls[i].id, name |-> Original[calls[i].name]]
         /\ ArgsOf(cs, i - 1) = Legible(calls[i].text)
    /\ \A at \in Nat : at >= Len(calls) => ArgsOf(cs, at) = <<>>

Told(bs, done, cs) ==
    /\ Content(cs) = Spoken(bs)
    /\ Reasoning(cs) \in Seq(Piece) /\ Legible(Reasoning(cs)) = Thought(bs)
    /\ Details(cs) = Raws(done)
    /\ CallsTold(Calls(bs), Tools(cs), cs)

LEMMA ToldNothing == Told(<<>>, <<>>, <<>>)
<1>1. CallsTold(<<>>, <<>>, <<>>)
  <2>1. Len(<<>>) = 0 /\ \A i : i \notin 1..0
    OBVIOUS
  <2> QED
    BY <2>1, NothingRead DEF CallsTold
<1>2. <<>> \in Seq(Piece)
  OBVIOUS
<1> QED
  BY <1>1, <1>2, NothingRead, WrittenNothing DEF Told

(* A chunk that is no argument leaves what is told of the calls.            *)
LEMMA CallsLeft ==
  ASSUME NEW calls, NEW made, NEW cs \in Seq(Chunk), NEW c \in Chunk, c.kind # "args",
         CallsTold(calls, made, cs)
  PROVE  CallsTold(calls, made, Append(cs, c))
<1>1. \A at : ArgsOf(Append(cs, c), at) = ArgsOf(cs, at)
  BY ChunkAdds
<1> HIDE DEF Chunk
<1> QED
  BY <1>1 DEF CallsTold

LEMMA OneMore ==
  ASSUME NEW S, NEW s \in Seq(S), NEW x \in S, NEW n, n = Len(s)
  PROVE  /\ Len(Append(s, x)) = n + 1 /\ Append(s, x)[n + 1] = x
         /\ \A i \in 1..n : Append(s, x)[i] = s[i]
  OBVIOUS

LEMMA CallBegins ==
  ASSUME NEW calls \in Seq(AnswerBlock), NEW made \in Seq(Chunk), NEW cs \in Seq(Chunk),
         NEW b \in AnswerBlock, NEW c \in Chunk
  PROVE  /\ Legible(b.text) = <<>> /\ CallsTold(calls, made, cs)
         /\ c.kind = "tool" /\ c.at = Len(calls)
         /\ c.val = [id |-> b.id, name |-> Original[b.name]]
         => CallsTold(Append(calls, b), Append(made, c), Append(cs, c))
<1> DEFINE ds == Append(calls, b)
           us == Append(made, c)
           es == Append(cs, c)
<1>1. PICK n \in Nat : n = Len(calls)
  OBVIOUS
<1> HIDE DEF Chunk, AnswerBlock
<1>2. Len(ds) = n + 1 /\ ds[n + 1] = b /\ \A i \in 1..n : ds[i] = calls[i]
  BY <1>1, OneMore
<1>3. n = Len(made) => Len(us) = n + 1 /\ us[n + 1] = c /\ \A i \in 1..n : us[i] = made[i]
  BY <1>1, OneMore
<1>4. c.kind = "tool" => \A at : ArgsOf(es, at) = ArgsOf(cs, at)
  BY ChunkAdds
<1> HIDE DEF ds, us, es
<1> SUFFICES ASSUME Legible(b.text) = <<>>, CallsTold(calls, made, cs),
                    c.kind = "tool", c.at = n,
                    c.val = [id |-> b.id, name |-> Original[b.name]]
             PROVE  CallsTold(ds, us, es)
  BY <1>1 DEF ds, us, es
<1>5. n = Len(made)
  BY <1>1 DEF CallsTold
<1>6. ASSUME NEW i \in 1..n + 1
      PROVE  /\ us[i].at = i - 1
             /\ us[i].val = [id |-> ds[i].id, name |-> Original[ds[i].name]]
             /\ ArgsOf(es, i - 1) = Legible(ds[i].text)
  <2>1. CASE i \in 1..n
    <3>1. us[i] = made[i] /\ ds[i] = calls[i] /\ ArgsOf(es, i - 1) = ArgsOf(cs, i - 1)
      BY <1>2, <1>3, <1>4, <1>5, <2>1
    <3> QED
      BY <1>1, <2>1, <3>1 DEF CallsTold
  <2>2. CASE i = n + 1
    <3>1. (n + 1) - 1 = n /\ n >= Len(calls)
      BY <1>1
    <3>2. ArgsOf(es, n) = <<>>
      BY <1>4, <3>1 DEF CallsTold
    <3> QED
      BY <1>2, <1>3, <1>5, <2>2, <3>1, <3>2
  <2> QED
    BY <2>1, <2>2
<1>7. ASSUME NEW at \in Nat, at >= n + 1 PROVE ArgsOf(es, at) = <<>>
  BY <1>1, <1>4, <1>7 DEF CallsTold
<1> QED
  BY <1>2, <1>3, <1>5, <1>6, <1>7 DEF CallsTold

LEMMA CallGrows ==
  ASSUME NEW calls \in Seq(AnswerBlock), NEW made, NEW cs \in Seq(Chunk), NEW b \in AnswerBlock,
         NEW d \in AnswerBlock, d.id = b.id, d.name = b.name,
         NEW c \in Chunk, c.kind = "args", c.at = Len(calls),
         Legible(d.text) = Append(Legible(b.text), c.val),
         CallsTold(Append(calls, b), made, cs)
  PROVE  CallsTold(Append(calls, d), made, Append(cs, c))
<1>1. \A at : ArgsOf(Append(cs, c), at) = IF at = c.at THEN Append(ArgsOf(cs, at), c.val)
                                                       ELSE ArgsOf(cs, at)
  BY ChunkAdds
<1> DEFINE bs == Append(calls, b)
           ds == Append(calls, d)
           es == Append(cs, c)
<1>2. PICK n \in Nat : n = Len(calls)
  OBVIOUS
<1> HIDE DEF Chunk, AnswerBlock
<1>3. /\ Len(ds) = n + 1 /\ ds[n + 1] = d /\ \A i \in 1..n : ds[i] = bs[i]
      /\ Len(bs) = n + 1 /\ bs[n + 1] = b
  BY <1>2
<1> HIDE DEF bs, ds, es
<1>4. \A at : ArgsOf(es, at) = IF at = n THEN Append(ArgsOf(cs, at), c.val) ELSE ArgsOf(cs, at)
  BY <1>1, <1>2 DEF es
<1>0. CallsTold(bs, made, cs)
  BY DEF bs
<1>5. ASSUME NEW i \in 1..n + 1
      PROVE  /\ made[i].at = i - 1
             /\ made[i].val = [id |-> ds[i].id, name |-> Original[ds[i].name]]
             /\ ArgsOf(es, i - 1) = Legible(ds[i].text)
  <2>0. /\ made[i].at = i - 1
        /\ made[i].val = [id |-> bs[i].id, name |-> Original[bs[i].name]]
        /\ ArgsOf(cs, i - 1) = Legible(bs[i].text)
    BY <1>0, <1>3 DEF CallsTold
  <2>1. CASE i \in 1..n
    <3>1. i - 1 # n /\ ds[i] = bs[i]
      BY <1>3, <2>1
    <3> QED
      BY <1>4, <2>0, <3>1
  <2>2. CASE i = n + 1
    <3>1. (n + 1) - 1 = n
      OBVIOUS
    <3>2. ArgsOf(es, n) = Append(ArgsOf(cs, n), c.val)
      BY <1>4
    <3> QED
      BY <1>3, <2>0, <2>2, <3>1, <3>2
  <2> QED
    BY <2>1, <2>2
<1>6. ASSUME NEW at \in Nat, at >= n + 1 PROVE ArgsOf(es, at) = <<>>
  <2>1. ArgsOf(cs, at) = <<>> /\ at # n
    BY <1>0, <1>3, <1>6 DEF CallsTold
  <2> QED
    BY <1>4, <2>1
<1>7. Len(made) = n + 1
  BY <1>0, <1>3 DEF CallsTold
<1>8. CallsTold(ds, made, es)
  BY <1>3, <1>5, <1>6, <1>7 DEF CallsTold
<1> QED
  BY <1>8 DEF ds, es

LEMMA CallStays ==
  ASSUME NEW calls \in Seq(AnswerBlock), NEW made, NEW cs \in Seq(Chunk), NEW b \in AnswerBlock,
         NEW d \in AnswerBlock, d.id = b.id, d.name = b.name, Legible(d.text) = Legible(b.text),
         CallsTold(Append(calls, b), made, cs)
  PROVE  CallsTold(Append(calls, d), made, cs)
<1> DEFINE bs == Append(calls, b)
           ds == Append(calls, d)
<1>2. PICK n \in Nat : n = Len(calls)
  OBVIOUS
<1> HIDE DEF Chunk, AnswerBlock
<1>3. /\ Len(ds) = n + 1 /\ ds[n + 1] = d /\ \A i \in 1..n : ds[i] = bs[i]
      /\ Len(bs) = n + 1 /\ bs[n + 1] = b
  BY <1>2
<1> HIDE DEF bs, ds
<1>0. CallsTold(bs, made, cs)
  BY DEF bs
<1>5. ASSUME NEW i \in 1..n + 1
      PROVE  /\ made[i].at = i - 1
             /\ made[i].val = [id |-> ds[i].id, name |-> Original[ds[i].name]]
             /\ ArgsOf(cs, i - 1) = Legible(ds[i].text)
  <2>0. /\ made[i].at = i - 1
        /\ made[i].val = [id |-> bs[i].id, name |-> Original[bs[i].name]]
        /\ ArgsOf(cs, i - 1) = Legible(bs[i].text)
    BY <1>0, <1>3 DEF CallsTold
  <2>1. i \in 1..n \/ i = n + 1
    OBVIOUS
  <2> QED
    BY <1>3, <2>0, <2>1
<1>8. CallsTold(ds, made, cs)
  BY <1>0, <1>3, <1>5 DEF CallsTold
<1> QED
  BY <1>8 DEF ds

(* What a delta makes of what is written of a block.                        *)
LEMMA GrownWritten ==
  ASSUME NEW b \in AnswerBlock, NEW kind, NEW p \in Piece
  PROVE  /\ Grown(b, kind, p) \in AnswerBlock
         /\ Grown(b, kind, p).type = b.type /\ Grown(b, kind, p).id = b.id
         /\ Grown(b, kind, p).name = b.name
         /\ Legible(Grown(b, kind, p).text) =
              IF kind # "signature_delta" /\ p # 0 THEN Append(Legible(b.text), p)
                                                   ELSE Legible(b.text)
<1>1. b.text \in Seq(Piece)
  BY BlockFields
<1>2. Legible(Append(b.text, p)) = IF p = 0 THEN Legible(b.text) ELSE Append(Legible(b.text), p)
  BY <1>1, WrittenIs
<1>3. PICK g, x : /\ g = IF kind = "signature_delta" THEN Append(b.signature, p) ELSE b.signature
                  /\ x = IF kind = "signature_delta" THEN b.text ELSE Append(b.text, p)
  OBVIOUS
<1>4. PICK d : d = Grown(b, kind, p)
  OBVIOUS
<1>5. d \in AnswerBlock
  BY <1>4, GrownIs
<1>6. d = [type |-> b.type, id |-> b.id, name |-> b.name, signature |-> g, text |-> x]
  BY <1>3, <1>4, GrownFields
<1> HIDE DEF AnswerBlock, Piece
<1>7. d.type = b.type /\ d.id = b.id /\ d.name = b.name /\ d.text = x
  BY <1>6
<1>8. Legible(x) = IF kind # "signature_delta" /\ p # 0 THEN Append(Legible(b.text), p)
                                                        ELSE Legible(b.text)
  BY <1>2, <1>3
<1> QED
  BY <1>4, <1>5, <1>7, <1>8

----------------------------------------------------------------------------
(* How the chunks keep up with the blocks.                                  *)

(* A block that is no call begins without text, or is redacted thinking.    *)
LEMMA TellsStart ==
  ASSUME NEW done \in Seq(AnswerBlock), NEW b \in AnswerBlock, NEW cs \in Seq(Chunk),
         b.type # "tool_use", b.type \in {"text", "thinking"} => b.text = <<>>,
         Told(done, done, cs)
  PROVE  Told(Append(done, b), done, cs)
<1>1. /\ Spoken(Append(done, b)) =
           IF b.type = "text" THEN Spoken(done) \o Legible(b.text) ELSE Spoken(done)
      /\ Thought(Append(done, b)) =
           IF b.type = "thinking" THEN Thought(done) \o Legible(b.text) ELSE Thought(done)
      /\ Calls(Append(done, b)) = Calls(done)
      /\ Spoken(done) \in Seq(Piece) /\ Thought(done) \in Seq(Piece)
  BY BlockAdds
<1> HIDE DEF AnswerBlock, Chunk, Piece
<1>2. Spoken(done) \o <<>> = Spoken(done) /\ Thought(done) \o <<>> = Thought(done)
  BY <1>1
<1>3. Spoken(Append(done, b)) = Spoken(done) /\ Thought(Append(done, b)) = Thought(done)
  BY <1>1, <1>2, WrittenNothing
<1> QED
  BY <1>1, <1>3 DEF Told

LEMMA TellsCall ==
  ASSUME NEW done \in Seq(AnswerBlock), NEW b \in AnswerBlock, NEW cs \in Seq(Chunk),
         b.type = "tool_use", b.text = <<>>,
         NEW c \in Chunk, c.kind = "tool", c.at = Len(Calls(done)),
         c.val = [id |-> b.id, name |-> Original[b.name]],
         Told(done, done, cs)
  PROVE  Told(Append(done, b), done, Append(cs, c))
<1>1. /\ Spoken(Append(done, b)) = Spoken(done) /\ Thought(Append(done, b)) = Thought(done)
      /\ Calls(Append(done, b)) = Append(Calls(done), b) /\ Calls(done) \in Seq(AnswerBlock)
  BY BlockAdds
<1>2. /\ Content(Append(cs, c)) = Content(cs) /\ Reasoning(Append(cs, c)) = Reasoning(cs)
      /\ Details(Append(cs, c)) = Details(cs) /\ Tools(Append(cs, c)) = Append(Tools(cs), c)
  BY ChunkAdds
<1>3. Tools(cs) \in Seq(Chunk)
  BY ChunkTypes
<1>4. CallsTold(Calls(done), Tools(cs), cs) /\ Legible(b.text) = <<>>
  BY WrittenNothing DEF Told
<1> HIDE DEF AnswerBlock, Chunk, Piece
<1>5. CallsTold(Append(Calls(done), b), Append(Tools(cs), c), Append(cs, c))
  BY <1>1, <1>3, <1>4, CallBegins
<1> QED
  BY <1>1, <1>2, <1>5 DEF Told

LEMMA TellsText ==
  ASSUME NEW done \in Seq(AnswerBlock), NEW b \in AnswerBlock, NEW cs \in Seq(Chunk),
         NEW d \in AnswerBlock, d.type = b.type, b.type = "text",
         NEW p \in Piece, p # 0, Legible(d.text) = Append(Legible(b.text), p),
         NEW c \in Chunk, c.kind = "content", c.val = p,
         Told(Append(done, b), done, cs)
  PROVE  Told(Append(done, d), done, Append(cs, c))
<1>2. /\ Spoken(Append(done, b)) = Spoken(done) \o Legible(b.text)
      /\ Thought(Append(done, b)) = Thought(done) /\ Calls(Append(done, b)) = Calls(done)
      /\ Spoken(done) \in Seq(Piece)
  BY BlockAdds
<1>3. /\ Spoken(Append(done, d)) = Spoken(done) \o Legible(d.text)
      /\ Thought(Append(done, d)) = Thought(done) /\ Calls(Append(done, d)) = Calls(done)
  BY BlockAdds
<1>4. /\ Content(Append(cs, c)) = Append(Content(cs), p) /\ Reasoning(Append(cs, c)) = Reasoning(cs)
      /\ Details(Append(cs, c)) = Details(cs) /\ Tools(Append(cs, c)) = Tools(cs)
  BY ChunkAdds
<1>5. Legible(b.text) \in Seq(Piece)
  BY BlockFields, IsWritten
<1> HIDE DEF AnswerBlock, Chunk, Piece
<1>6. CallsTold(Calls(done), Tools(cs), Append(cs, c))
  <2>1. CallsTold(Calls(done), Tools(cs), cs)
    BY <1>2 DEF Told
  <2> QED
    BY <2>1, CallsLeft
<1>7. Spoken(done) \o Append(Legible(b.text), p) = Append(Spoken(done) \o Legible(b.text), p)
  BY <1>2, <1>5
<1> QED
  BY <1>2, <1>3, <1>4, <1>6, <1>7 DEF Told

LEMMA TellsThinking ==
  ASSUME NEW done \in Seq(AnswerBlock), NEW b \in AnswerBlock, NEW cs \in Seq(Chunk),
         NEW d \in AnswerBlock, d.type = b.type, b.type = "thinking",
         NEW p \in Piece, p # 0, Legible(d.text) = Append(Legible(b.text), p),
         NEW c \in Chunk, c.kind = "reasoning", c.val = p,
         Told(Append(done, b), done, cs)
  PROVE  Told(Append(done, d), done, Append(cs, c))
<1>2. /\ Thought(Append(done, b)) = Thought(done) \o Legible(b.text)
      /\ Spoken(Append(done, b)) = Spoken(done) /\ Calls(Append(done, b)) = Calls(done)
      /\ Thought(done) \in Seq(Piece)
  BY BlockAdds
<1>3. /\ Thought(Append(done, d)) = Thought(done) \o Legible(d.text)
      /\ Spoken(Append(done, d)) = Spoken(done) /\ Calls(Append(done, d)) = Calls(done)
  BY BlockAdds
<1>4. /\ Content(Append(cs, c)) = Content(cs) /\ Reasoning(Append(cs, c)) = Append(Reasoning(cs), p)
      /\ Details(Append(cs, c)) = Details(cs) /\ Tools(Append(cs, c)) = Tools(cs)
  BY ChunkAdds
<1>5. Legible(b.text) \in Seq(Piece)
  BY BlockFields, IsWritten
<1>6. Reasoning(cs) \in Seq(Piece) /\ Legible(Reasoning(cs)) = Thought(Append(done, b))
  BY DEF Told
<1>7. /\ Legible(Append(Reasoning(cs), p)) = Append(Legible(Reasoning(cs)), p)
      /\ Append(Reasoning(cs), p) \in Seq(Piece)
  <2>1. Legible(Append(Reasoning(cs), p)) = Append(Legible(Reasoning(cs)), p)
    BY <1>6, WrittenIs
  <2> HIDE DEF Piece
  <2>2. Append(Reasoning(cs), p) \in Seq(Piece)
    BY <1>6
  <2> QED
    BY <2>1, <2>2
<1> HIDE DEF AnswerBlock, Chunk, Piece
<1>8. CallsTold(Calls(done), Tools(cs), Append(cs, c))
  <2>1. CallsTold(Calls(done), Tools(cs), cs)
    BY <1>2 DEF Told
  <2> QED
    BY <2>1, CallsLeft
<1>9. Thought(done) \o Append(Legible(b.text), p) = Append(Thought(done) \o Legible(b.text), p)
  BY <1>2, <1>5
<1> QED
  BY <1>2, <1>3, <1>4, <1>6, <1>7, <1>8, <1>9 DEF Told

LEMMA TellsArgs ==
  ASSUME NEW done \in Seq(AnswerBlock), NEW b \in AnswerBlock, NEW cs \in Seq(Chunk),
         NEW d \in AnswerBlock, d.type = b.type, d.id = b.id, d.name = b.name,
         b.type = "tool_use", NEW p \in Piece, Legible(d.text) = Append(Legible(b.text), p),
         NEW c \in Chunk, c.kind = "args", c.val = p, c.at = Len(Calls(Append(done, b))) - 1,
         Told(Append(done, b), done, cs)
  PROVE  Told(Append(done, d), done, Append(cs, c))
<1>2. /\ Calls(Append(done, b)) = Append(Calls(done), b)
      /\ Spoken(Append(done, b)) = Spoken(done) /\ Thought(Append(done, b)) = Thought(done)
      /\ Calls(done) \in Seq(AnswerBlock)
  BY BlockAdds
<1>3. /\ Calls(Append(done, d)) = Append(Calls(done), d)
      /\ Spoken(Append(done, d)) = Spoken(done) /\ Thought(Append(done, d)) = Thought(done)
  BY BlockAdds
<1>4. /\ Content(Append(cs, c)) = Content(cs) /\ Reasoning(Append(cs, c)) = Reasoning(cs)
      /\ Details(Append(cs, c)) = Details(cs) /\ Tools(Append(cs, c)) = Tools(cs)
  BY ChunkAdds
<1> HIDE DEF AnswerBlock, Chunk, Piece
<1>5. c.at = Len(Calls(done))
  BY <1>2
<1>6. CallsTold(Append(Calls(done), b), Tools(cs), cs)
  BY <1>2 DEF Told
<1>7. CallsTold(Append(Calls(done), d), Tools(cs), Append(cs, c))
  BY <1>2, <1>5, <1>6, CallGrows
<1> QED
  BY <1>2, <1>3, <1>4, <1>7 DEF Told

(* A signature, and input without characters, tell nothing.                 *)
LEMMA TellsNothing ==
  ASSUME NEW done \in Seq(AnswerBlock), NEW b \in AnswerBlock, NEW cs \in Seq(Chunk),
         NEW d \in AnswerBlock, d.type = b.type, d.id = b.id, d.name = b.name,
         Legible(d.text) = Legible(b.text),
         Told(Append(done, b), done, cs)
  PROVE  Told(Append(done, d), done, cs)
<1>2. /\ Calls(Append(done, b)) =
           IF b.type = "tool_use" THEN Append(Calls(done), b) ELSE Calls(done)
      /\ Calls(Append(done, d)) =
           IF b.type = "tool_use" THEN Append(Calls(done), d) ELSE Calls(done)
      /\ Spoken(Append(done, b)) = Spoken(Append(done, d))
      /\ Thought(Append(done, b)) = Thought(Append(done, d))
      /\ Calls(done) \in Seq(AnswerBlock)
  <2>1. /\ Spoken(Append(done, b)) =
             IF b.type = "text" THEN Spoken(done) \o Legible(b.text) ELSE Spoken(done)
        /\ Thought(Append(done, b)) =
             IF b.type = "thinking" THEN Thought(done) \o Legible(b.text) ELSE Thought(done)
        /\ Calls(Append(done, b)) =
             IF b.type = "tool_use" THEN Append(Calls(done), b) ELSE Calls(done)
        /\ Calls(done) \in Seq(AnswerBlock)
    BY BlockAdds
  <2>2. /\ Spoken(Append(done, d)) =
             IF d.type = "text" THEN Spoken(done) \o Legible(d.text) ELSE Spoken(done)
        /\ Thought(Append(done, d)) =
             IF d.type = "thinking" THEN Thought(done) \o Legible(d.text) ELSE Thought(done)
        /\ Calls(Append(done, d)) =
             IF d.type = "tool_use" THEN Append(Calls(done), d) ELSE Calls(done)
    BY BlockAdds
  <2> QED
    BY <2>1, <2>2
<1> HIDE DEF AnswerBlock, Chunk, Piece
<1>3. CallsTold(Calls(Append(done, d)), Tools(cs), cs)
  <2>1. CASE b.type = "tool_use"
    <3>1. CallsTold(Append(Calls(done), b), Tools(cs), cs)
      BY <1>2, <2>1 DEF Told
    <3>2. CallsTold(Append(Calls(done), d), Tools(cs), cs)
      BY <1>2, <3>1, CallStays
    <3> QED
      BY <1>2, <2>1, <3>2
  <2>2. CASE b.type # "tool_use"
    BY <1>2, <2>2 DEF Told
  <2> QED
    BY <2>1, <2>2
<1> QED
  BY <1>2, <1>3 DEF Told

(* A block is told in full when it stops.                                   *)
LEMMA TellsStop ==
  ASSUME NEW done \in Seq(AnswerBlock), NEW b \in AnswerBlock, NEW cs \in Seq(Chunk),
         Told(Append(done, b), done, cs)
  PROVE  /\ ~IsThinking(b) => Told(Append(done, b), Append(done, b), cs)
         /\ \A c \in Chunk : IsThinking(b) /\ c.kind = "details" /\ c.val = Raw(b)
              => Told(Append(done, b), Append(done, b), Append(cs, c))
<1>1. Raws(Append(done, b)) = IF IsThinking(b) THEN Append(Raws(done), Raw(b)) ELSE Raws(done)
  BY BlockAdds
<1>2. \A c \in Chunk : c.kind = "details" =>
        /\ Content(Append(cs, c)) = Content(cs) /\ Reasoning(Append(cs, c)) = Reasoning(cs)
        /\ Details(Append(cs, c)) = Append(Details(cs), c.val) /\ Tools(Append(cs, c)) = Tools(cs)
  BY ChunkAdds
<1>3. \A c \in Chunk : c.kind = "details"
        => CallsTold(Calls(Append(done, b)), Tools(cs), Append(cs, c))
  <2> HIDE DEF Chunk
  <2> QED
    BY CallsLeft DEF Told
<1> HIDE DEF AnswerBlock, Chunk, Piece
<1>4. ~IsThinking(b) => Told(Append(done, b), Append(done, b), cs)
  BY <1>1 DEF Told
<1>5. ASSUME NEW c \in Chunk, IsThinking(b), c.kind = "details", c.val = Raw(b)
      PROVE  Told(Append(done, b), Append(done, b), Append(cs, c))
  BY <1>1, <1>2, <1>3, <1>5 DEF Told
<1> QED
  BY <1>4, <1>5

LEMMA TellsEnd ==
  ASSUME NEW bs, NEW done, NEW cs \in Seq(Chunk), NEW c \in Chunk, c.kind = "finish",
         Told(bs, done, cs)
  PROVE  Told(bs, done, Append(cs, c))
<1>1. /\ Content(Append(cs, c)) = Content(cs) /\ Reasoning(Append(cs, c)) = Reasoning(cs)
      /\ Details(Append(cs, c)) = Details(cs) /\ Tools(Append(cs, c)) = Tools(cs)
  BY ChunkAdds
<1>2. CallsTold(Calls(bs), Tools(cs), Append(cs, c))
  <2> HIDE DEF Chunk
  <2> QED
    BY CallsLeft DEF Told
<1> HIDE DEF Chunk, Piece
<1> QED
  BY <1>1, <1>2 DEF Told

----------------------------------------------------------------------------
(* The message, and what the upstream changes of it.                        *)
MessageOf(bs, usage, output, stop, open) ==
    [blocks |-> bs, usage |-> usage, output |-> output, stop |-> stop, open |-> open]

LEMMA MessageHas ==
  ASSUME NEW m \in Message
  PROVE  /\ m.blocks \in Seq(AnswerBlock) /\ m.usage \in Usage /\ m.output \in Nat
         /\ m.stop \in StopOrNone /\ m.open \in BOOLEAN
         /\ m = MessageOf(m.blocks, m.usage, m.output, m.stop, m.open)
<1> HIDE DEF AnswerBlock, Usage, StopOrNone
<1> QED
  BY DEF Message, MessageOf

LEMMA MessageIs ==
  ASSUME NEW bs \in Seq(AnswerBlock), NEW usage \in Usage, NEW output \in Nat,
         NEW stop \in StopOrNone, NEW open \in BOOLEAN
  PROVE  MessageOf(bs, usage, output, stop, open) \in Message
<1> HIDE DEF AnswerBlock, Usage, StopOrNone
<1> QED
  BY DEF Message, MessageOf

LEMMA MessageParts ==
  ASSUME NEW bs, NEW usage, NEW output, NEW stop, NEW open, NEW m,
         m = MessageOf(bs, usage, output, stop, open)
  PROVE  /\ m.blocks = bs /\ m.usage = usage /\ m.output = output /\ m.stop = stop
         /\ m.open = open
  BY DEF MessageOf

LEMMA MessageAdds ==
  ASSUME NEW bs, NEW usage, NEW output, NEW stop, NEW open, NEW x
  PROVE  [MessageOf(bs, usage, output, stop, open) EXCEPT !.blocks = x]
           = MessageOf(x, usage, output, stop, open)
  BY DEF MessageOf

LEMMA MessageOpens ==
  ASSUME NEW bs, NEW usage, NEW output, NEW stop, NEW open, NEW x
  PROVE  [MessageOf(bs, usage, output, stop, open) EXCEPT !.open = x]
           = MessageOf(bs, usage, output, stop, x)
  BY DEF MessageOf

LEMMA MessageBills ==
  ASSUME NEW bs, NEW usage, NEW output, NEW stop, NEW open, NEW x
  PROVE  [MessageOf(bs, usage, output, stop, open) EXCEPT !.usage = x]
           = MessageOf(bs, x, output, stop, open)
  BY DEF MessageOf

LEMMA MessageFinishes ==
  ASSUME NEW bs, NEW usage, NEW output, NEW stop, NEW open, NEW x
  PROVE  [MessageOf(bs, usage, output, stop, open) EXCEPT !.stop = x]
           = MessageOf(bs, usage, output, x, open)
  BY DEF MessageOf

LEMMA MessageCounts ==
  ASSUME NEW bs, NEW usage, NEW output, NEW stop, NEW open, NEW x
  PROVE  [MessageOf(bs, usage, output, stop, open) EXCEPT !.output = x]
           = MessageOf(bs, usage, x, stop, open)
  BY DEF MessageOf

LEMMA MessageGrows ==
  ASSUME NEW done \in Seq(AnswerBlock), NEW b \in AnswerBlock, NEW kind, NEW p \in Piece,
         NEW usage, NEW output, NEW stop, NEW open, NEW n, n = Len(done) + 1
  PROVE  [MessageOf(Append(done, b), usage, output, stop, open)
            EXCEPT !.blocks[n] = Grown(@, kind, p)]
           = MessageOf(Append(done, Grown(b, kind, p)), usage, output, stop, open)
<1> DEFINE bs == Append(done, b)
           m == MessageOf(bs, usage, output, stop, open)
<1>1. bs[n] = b
  BY LastBlock
<1>2. m.blocks = bs
  BY DEF MessageOf
<1>3. PICK c : c = Grown(b, kind, p)
  OBVIOUS
<1>4. [bs EXCEPT ![n] = c] = Append(done, c)
  BY <1>3, GrownIs, LastGrows
<1>5. PICK cs : cs = Append(done, c)
  OBVIOUS
<1> HIDE DEF AnswerBlock, Piece
<1>6. [m EXCEPT !.blocks = cs] = MessageOf(cs, usage, output, stop, open)
  BY DEF MessageOf
<1> HIDE DEF bs, m
<1>7. [m EXCEPT !.blocks[n] = Grown(@, kind, p)] = [m EXCEPT !.blocks = [bs EXCEPT ![n] = c]]
  BY <1>1, <1>2, <1>3
<1> QED
  BY <1>3, <1>4, <1>5, <1>6, <1>7 DEF bs, m

----------------------------------------------------------------------------
(* The invariant: what every reader has of the answer so far.               *)

(* The blocks that have stopped are all, or all but the last.               *)
Split(bs, open, active, done) ==
    \/ ~open /\ bs = done /\ active = NoBlock
    \/ open /\ \E b \in AnswerBlock : bs = Append(done, b) /\ active = Opened(b, Len(done) + 1)

Closed(m) == [reason |-> ToFinishReason(m.stop), usage |-> BuildOpenAiUsage(m.usage, m.output)]

(* The reason and the usage are sent once, and last.                        *)
EndTold(m, evs, cs) ==
    /\ m.stop = "none" => Finishes(cs) = <<>>
    /\ m.stop # "none" =>
         /\ ~m.open /\ evs # <<>>
         /\ \E before \in Seq(Chunk) :
              /\ cs = Append(before, ChunkOf("finish", 0, Closed(m), "none"))
              /\ Finishes(before) = <<>>

WellTyped ==
    /\ message \in Message /\ Len(message.blocks) <= MaxBlocks
    /\ pieces \in 0..MaxPieces
    /\ \E S : events \in Seq(S)
    /\ relay \in Relay

Agreed(done) ==
    /\ relay.usage = message.usage
    /\ relay.toolIndex = Len(Calls(message.blocks)) - 1
    /\ Len(Roles(relay.chunks)) = IF relay.sentRole THEN 1 ELSE 0
    /\ EndTold(message, events, relay.chunks)
    /\ Split(message.blocks, message.open, relay.active, done)
    /\ Told(message.blocks, done, relay.chunks)
    /\ Reconstructed(events)
         = Has(message.blocks, done, message.stop, message.output, message.usage)

AnswerInv == WellTyped /\ \E done \in Seq(AnswerBlock) : Agreed(done)

LEMMA RoleOnce ==
  ASSUME NEW cs \in Seq(Chunk), NEW c \in Chunk, NEW r \in BOOLEAN
  PROVE  Len(Roles(cs)) = (IF r THEN 1 ELSE 0) =>
         /\ c.role = "none" => Len(Roles(Append(cs, c))) = IF r THEN 1 ELSE 0
         /\ c.role = RoleAfter(r) => Len(Roles(Append(cs, c))) = 1
<1>1. Roles(Append(cs, c)) = IF c.role = "assistant" THEN Append(Roles(cs), c) ELSE Roles(cs)
  BY ChunkAdds
<1>2. Roles(cs) \in Seq(Chunk)
  BY ChunkTypes
<1> HIDE DEF Chunk
<1>3. Len(Append(Roles(cs), c)) = Len(Roles(cs)) + 1
  BY <1>2
<1>4. CASE r
  BY <1>1, <1>3, <1>4 DEF RoleAfter
<1>5. CASE ~r
  BY <1>1, <1>3, <1>5 DEF RoleAfter
<1> QED
  BY <1>4, <1>5

LEMMA CallCount ==
  ASSUME NEW bs \in Seq(AnswerBlock)
  PROVE  /\ Calls(bs) \in Seq(AnswerBlock) /\ Len(Calls(bs)) \in Nat
         /\ Len(Calls(bs)) - 1 \in Int
<1>1. Calls(bs) \in Seq(AnswerBlock)
  <2>1. CASE AnswerBlock = {}
    <3>1. bs = <<>>
      BY <2>1, EmptySeq
    <3>2. <<>> \in Seq(AnswerBlock)
      OBVIOUS
    <3> QED
      BY <3>1, <3>2, NothingRead
  <2>2. CASE AnswerBlock # {}
    <3>1. PICK b \in AnswerBlock : TRUE
      BY <2>2
    <3> QED
      BY <3>1, BlockAdds
  <2> QED
    BY <2>1, <2>2
<1> HIDE DEF AnswerBlock
<1> QED
  BY <1>1

LEMMA NotTheEnd ==
  ASSUME NEW cs \in Seq(Chunk), NEW c \in Chunk, c.kind # "finish"
  PROVE  Finishes(Append(cs, c)) = Finishes(cs)
  BY ChunkAdds

LEMMA EventSent ==
  ASSUME NEW evs, \E S : evs \in Seq(S), NEW e
  PROVE  /\ \E S : Append(evs, e) \in Seq(S)
         /\ Append(evs, e) # <<>>
         /\ Reconstructed(Append(evs, e)) = Reconstruct(Reconstructed(evs), e)
<1>1. PICK S : evs \in Seq(S)
  OBVIOUS
<1> DEFINE T == S \cup {e}
<1>2. evs \in Seq(T) /\ e \in T
  BY <1>1
<1> HIDE DEF T
<1>3. Reconstructed(Append(evs, e)) = Reconstruct(Reconstructed(evs), e)
  BY <1>2, Reconstructs
<1>4. Append(evs, e) \in Seq(T) /\ Append(evs, e) # <<>>
  BY <1>2
<1> QED
  BY <1>3, <1>4

(* The relay before the end: it has told all there is of these blocks.      *)
Carries(s, bs, active, usage, done) ==
    \E r \in BOOLEAN, cs \in Seq(Chunk) :
      /\ s = State(Len(Calls(bs)) - 1, active, r, usage, cs)
      /\ Len(Roles(cs)) = IF r THEN 1 ELSE 0
      /\ Finishes(cs) = <<>>
      /\ Told(bs, done, cs)

LEMMA AgreedCarries ==
  ASSUME NEW done \in Seq(AnswerBlock), WellTyped, Agreed(done), message.stop = "none"
  PROVE  Carries(relay, message.blocks, relay.active, message.usage, done)
<1>1. /\ relay.sentRole \in BOOLEAN /\ relay.chunks \in Seq(Chunk)
      /\ relay = State(relay.toolIndex, relay.active, relay.sentRole, relay.usage, relay.chunks)
  BY RelayFields DEF WellTyped
<1> HIDE DEF Chunk
<1>2. Finishes(relay.chunks) = <<>>
  BY DEF Agreed, EndTold
<1> QED
  BY <1>1, <1>2 DEF Carries, Agreed

(* An event on the way keeps the invariant if it keeps its parts.           *)
LEMMA Onward ==
  ASSUME NEW done \in Seq(AnswerBlock), WellTyped, Agreed(done), message.stop = "none",
         NEW bs \in Seq(AnswerBlock), NEW open \in BOOLEAN, NEW e, NEW more \in Seq(AnswerBlock),
         NEW active \in ActiveBlock, NEW usage \in Usage,
         message' = MessageOf(bs, usage, message.output, message.stop, open),
         Carries(relay', bs, active, usage, more),
         events' = Append(events, e), pieces' \in 0..MaxPieces,
         Len(bs) <= MaxBlocks, Split(bs, open, active, more),
         Reconstruct(Has(message.blocks, done, message.stop, message.output, message.usage), e)
           = Has(bs, more, message.stop, message.output, usage)
  PROVE  AnswerInv'
<1>1. /\ message.output \in Nat /\ message.stop \in StopOrNone
  BY MessageHas DEF WellTyped
<1>2. /\ message' \in Message /\ message'.blocks = bs /\ message'.usage = usage
      /\ message'.output = message.output /\ message'.stop = message.stop
      /\ message'.open = open
  <2>1. PICK m : m = MessageOf(bs, usage, message.output, message.stop, open)
    OBVIOUS
  <2>2. m \in Message
    BY <1>1, <2>1, MessageIs
  <2>3. /\ m.blocks = bs /\ m.usage = usage /\ m.output = message.output
        /\ m.stop = message.stop /\ m.open = open
    BY <2>1, MessageParts
  <2> QED
    BY <2>1, <2>2, <2>3
<1>3. PICK n \in Int : n = Len(Calls(bs)) - 1
  <2>1. Len(Calls(bs)) - 1 \in Int
    BY CallCount
  <2> QED
    BY <2>1, Zenon
<1>4. PICK r \in BOOLEAN, cs \in Seq(Chunk) :
        /\ relay' = State(Len(Calls(bs)) - 1, active, r, usage, cs)
        /\ Len(Roles(cs)) = (IF r THEN 1 ELSE 0) /\ Finishes(cs) = <<>> /\ Told(bs, more, cs)
  BY DEF Carries
<1>5. relay' \in Relay
  BY <1>1, <1>3, <1>4, StateIs
<1>6. /\ relay'.toolIndex = n /\ relay'.active = active /\ relay'.sentRole = r
      /\ relay'.usage = usage /\ relay'.chunks = cs
  BY <1>3, <1>4 DEF State
<1>7. /\ \E S : Append(events, e) \in Seq(S)
      /\ Reconstructed(Append(events, e)) = Reconstruct(Reconstructed(events), e)
  BY EventSent DEF WellTyped
<1>8. WellTyped'
  BY <1>2, <1>5, <1>7 DEF WellTyped
<1>9. EndTold(message, events, relay.chunks)'
  BY <1>2, <1>4, <1>6 DEF EndTold
<1>10. Reconstructed(events') = Has(bs, more, message.stop, message.output, usage)
  BY <1>7 DEF Agreed
<1>11. Agreed(more)'
  BY <1>2, <1>3, <1>4, <1>6, <1>9, <1>10 DEF Agreed
<1> QED
  BY <1>8, <1>11 DEF AnswerInv

LEMMA AnswerStarts == AnswerInit /\ AnswerConstantsOK => AnswerInv
<1> SUFFICES ASSUME AnswerInit, AnswerConstantsOK PROVE AnswerInv
  OBVIOUS
<1>1. message = MessageOf(<<>>, NoUsage, 0, "none", No) /\ relay = State(-1, NoBlock, No, NoUsage, <<>>)
  BY DEF AnswerInit, MessageOf, State, No
<1>2. NoUsage \in Usage
  BY DEF NoUsage, Usage
<1>3. <<>> \in Seq(AnswerBlock) /\ <<>> \in Seq(Chunk) /\ <<>> \in Seq(Piece)
  OBVIOUS
<1>4. NoBlock \in ActiveBlock
  BY <1>3 DEF NoBlock, ActiveBlock, ActiveType
<1>5. No \in BOOLEAN
  BY DEF No
<1>6. /\ message \in Message /\ message.blocks = <<>> /\ message.usage = NoUsage
      /\ message.output = 0 /\ message.stop = "none" /\ message.open = No
  <2>1. "none" \in StopOrNone
    BY DEF StopOrNone
  <2>2. message \in Message
    BY <1>1, <1>2, <1>3, <1>5, <2>1, MessageIs
  <2>3. /\ message.blocks = <<>> /\ message.usage = NoUsage /\ message.output = 0
        /\ message.stop = "none" /\ message.open = No
    BY <1>1, MessageParts
  <2> QED
    BY <2>2, <2>3
<1>7. relay \in Relay
  <2>1. PICK t \in Int : t = -1
    OBVIOUS
  <2>2. State(t, NoBlock, No, NoUsage, <<>>) \in Relay
    BY <1>2, <1>3, <1>4, <1>5, StateIs
  <2> QED
    BY <1>1, <2>1, <2>2
<1>8. /\ relay.toolIndex = -1 /\ relay.active = NoBlock /\ relay.sentRole = No
      /\ relay.usage = NoUsage /\ relay.chunks = <<>>
  BY <1>1 DEF State
<1>9. Len(<<>>) = 0
  OBVIOUS
<1>10. WellTyped
  <2>1. pieces \in 0..MaxPieces /\ 0 <= MaxBlocks /\ events \in Seq({})
    BY DEF AnswerInit, AnswerConstantsOK
  <2> QED
    BY <1>6, <1>7, <1>9, <2>1 DEF WellTyped
<1>11. Reconstructed(events) = Has(<<>>, <<>>, "none", 0, NoUsage)
  BY NothingReconstructed DEF AnswerInit, Has, NothingYet
<1>12. EndTold(message, events, relay.chunks)
  BY <1>6, <1>8, NothingRead DEF EndTold
<1>13. Split(message.blocks, message.open, relay.active, <<>>)
  BY <1>6, <1>8 DEF Split, No
<1>14. Told(message.blocks, <<>>, relay.chunks)
  BY <1>6, <1>8, ToldNothing
<1>15. /\ relay.toolIndex = Len(Calls(message.blocks)) - 1
       /\ Len(Roles(relay.chunks)) = IF relay.sentRole THEN 1 ELSE 0
  BY <1>6, <1>8, <1>9, NothingRead DEF No
<1>16. Agreed(<<>>)
  BY <1>6, <1>8, <1>11, <1>12, <1>13, <1>14, <1>15 DEF Agreed
<1> QED
  BY <1>3, <1>10, <1>16 DEF AnswerInv

----------------------------------------------------------------------------
(* The relay takes a block as it starts, grows and stops.                   *)
LEMMA RelayStarts ==
  ASSUME NEW done \in Seq(AnswerBlock), NEW b \in AnswerBlock, NEW s, NEW usage, NEW e,
         b.type # "redacted_thinking" => b.text = <<>>,
         b.type = "tool_use" => b.name \in DOMAIN Original,
         e = [type |-> "content_block_start", index |-> Len(done) + 1, block |-> b],
         Carries(s, done, NoBlock, usage, done)
  PROVE  Carries(ProcessEvent(s, e), Append(done, b), Opened(b, Len(done) + 1), usage, done)
<1>1. PICK n, t : n = Len(done) + 1 /\ t = Len(Calls(done)) - 1
  OBVIOUS
<1>2. PICK r \in BOOLEAN, cs \in Seq(Chunk) :
        /\ s = State(t, NoBlock, r, usage, cs)
        /\ Len(Roles(cs)) = (IF r THEN 1 ELSE 0) /\ Finishes(cs) = <<>> /\ Told(done, done, cs)
  BY <1>1 DEF Carries
<1>3. b.type \in AnswerType /\ b.id \in Nat
  BY BlockFields
<1>4. Calls(Append(done, b)) = IF b.type = "tool_use" THEN Append(Calls(done), b) ELSE Calls(done)
  BY BlockAdds
<1>5. Calls(done) \in Seq(AnswerBlock) /\ Len(Calls(done)) \in Nat
  BY CallCount
<1>0. e.type = "content_block_start" /\ e.block = b /\ e.index = n
  BY <1>1
<1>6. CASE b.type = "tool_use"
  <2>1. PICK v : v = [id |-> b.id, name |-> Original[b.name]]
    OBVIOUS
  <2>2. v \in Value
    BY <1>3, <1>6, <2>1 DEF Value, Named
  <2>3. PICK role : role = RoleAfter(r)
    OBVIOUS
  <2>4. Yes \in BOOLEAN /\ role \in Role
    BY <2>3 DEF Role, RoleAfter, Yes
  <2>5. PICK at \in Int : at = Len(Calls(done))
    BY <1>5
  <2>6. at = t + 1
    BY <1>1, <1>5, <2>5
  <2>7. PICK c : c = ChunkOf("tool", at, v, role)
    OBVIOUS
  <2>8. c \in Chunk /\ c.kind = "tool" /\ c.at = at /\ c.val = v /\ c.role = role
    <3>1. "tool" \in ChunkKind
      BY DEF ChunkKind
    <3> HIDE DEF Chunk, ChunkKind, Value, Role
    <3>2. ChunkOf("tool", at, v, role) \in Chunk
      BY <2>2, <2>4, <3>1, ChunkIs
    <3>3. /\ c.kind = "tool" /\ c.at = at
          /\ c.val = v /\ c.role = role
      BY <2>7 DEF ChunkOf
    <3> QED
      BY <2>7, <3>2, <3>3
  <2>9. ProcessEvent(s, e) = State(at, NoBlock, Yes, usage, Append(cs, c))
    BY <1>0, <1>2, <1>6, <2>1, <2>3, <2>6, <2>7, ProcessesCall
  <2> HIDE DEF AnswerBlock, Chunk
  <2>10. Append(cs, c) \in Seq(Chunk)
    BY <2>8
  <2>11. at = Len(Calls(Append(done, b))) - 1
    BY <1>4, <1>5, <1>6, <2>5
  <2>12. Told(Append(done, b), done, Append(cs, c))
    BY <1>2, <1>6, <2>1, <2>5, <2>8, TellsCall
  <2>13. Len(Roles(Append(cs, c))) = IF Yes THEN 1 ELSE 0
    BY <1>2, <2>3, <2>8, RoleOnce DEF Yes
  <2>14. Finishes(Append(cs, c)) = <<>>
    BY <1>2, <2>8, NotTheEnd
  <2>15. Opened(b, Len(done) + 1) = NoBlock
    BY <1>6 DEF Opened, IsThinking
  <2> QED
    BY <2>4, <2>9, <2>10, <2>11, <2>12, <2>13, <2>14, <2>15 DEF Carries
<1>7. CASE b.type # "tool_use"
  <2>1. Told(Append(done, b), done, cs)
    BY <1>2, <1>3, <1>7, TellsStart DEF AnswerType
  <2>2. ProcessEvent(s, e) = State(t, Opened(b, n), r, usage, cs)
    <3>1. CASE IsThinking(b)
      <4>1. ProcessEvent(s, e) = State(t, ActiveOf(e), r, usage, cs)
        BY <1>0, <1>2, <3>1, ProcessesThought
      <4> QED
        BY <1>0, <3>1, <4>1 DEF Opened, ActiveOf
    <3>2. CASE ~IsThinking(b)
      <4>1. b.type = "text"
        BY <1>3, <1>7, <3>2 DEF IsThinking, AnswerType
      <4>2. ProcessEvent(s, e) = s
        BY <1>0, <4>1, ProcessesText
      <4> QED
        BY <1>2, <3>2, <4>2 DEF Opened
    <3> QED
      BY <3>1, <3>2
  <2>3. Calls(Append(done, b)) = Calls(done)
    BY <1>4, <1>7
  <2> QED
    BY <1>1, <1>2, <2>1, <2>2, <2>3 DEF Carries
<1> QED
  BY <1>6, <1>7

(* The deltas that a block takes.                                           *)
LEMMA DeltaKinds ==
  ASSUME NEW kind, NEW t, kind \in DeltaOf(t)
  PROVE  \/ t = "text" /\ kind = "text_delta"
         \/ t = "thinking" /\ kind = "thinking_delta"
         \/ t = "thinking" /\ kind = "signature_delta"
         \/ t = "tool_use" /\ kind = "input_json_delta"
  BY DEF DeltaOf

LEMMA RelayGrows ==
  ASSUME NEW done \in Seq(AnswerBlock), NEW b \in AnswerBlock, NEW s, NEW usage, NEW e,
         NEW kind, NEW p \in Piece, NEW n, n = Len(done) + 1,
         kind \in DeltaOf(b.type), p = 0 => kind = "input_json_delta",
         e.type = "content_block_delta", e.kind = kind, e.piece = p,
         Carries(s, Append(done, b), Opened(b, n), usage, done)
  PROVE  Carries(ProcessEvent(s, e), Append(done, Grown(b, kind, p)),
                 Opened(Grown(b, kind, p), n), usage, done)
<1>0. PICK t \in Int : t = Len(Calls(Append(done, b))) - 1
  <2>1. Len(Calls(Append(done, b))) - 1 \in Int
    BY CallCount, LastBlock
  <2> QED
    BY <2>1, Zenon
<1>1. PICK d, a, w : d = Grown(b, kind, p) /\ a = Opened(d, n) /\ w = ProcessEvent(s, e)
  OBVIOUS
<1>2. PICK r \in BOOLEAN, cs \in Seq(Chunk) :
        /\ s = State(t, Opened(b, n), r, usage, cs)
        /\ Len(Roles(cs)) = (IF r THEN 1 ELSE 0) /\ Finishes(cs) = <<>>
        /\ Told(Append(done, b), done, cs)
  BY <1>0 DEF Carries
<1>3. /\ d \in AnswerBlock /\ d.type = b.type /\ d.id = b.id /\ d.name = b.name
      /\ Legible(d.text) =
           IF kind # "signature_delta" /\ p # 0 THEN Append(Legible(b.text), p) ELSE Legible(b.text)
  BY <1>1, GrownWritten
<1>4. t = Len(Calls(Append(done, d))) - 1
  <2>1. /\ Calls(Append(done, b)) =
             IF b.type = "tool_use" THEN Append(Calls(done), b) ELSE Calls(done)
        /\ Calls(Append(done, d)) =
             IF d.type = "tool_use" THEN Append(Calls(done), d) ELSE Calls(done)
        /\ Calls(done) \in Seq(AnswerBlock)
    BY <1>3, BlockAdds
  <2> HIDE DEF AnswerBlock
  <2>2. Len(Append(Calls(done), b)) = Len(Append(Calls(done), d))
    BY <2>1
  <2> QED
    BY <1>0, <1>3, <2>1, <2>2
<1>5. p \in Value /\ t \in Int
  BY DEF Value
<1>6. PICK role : role = RoleAfter(r)
  OBVIOUS
<1>7. Yes \in BOOLEAN /\ role \in Role /\ "none" \in Role
  BY <1>6 DEF Role, RoleAfter, Yes
(* What remains, when a chunk is written and when not.                      *)
<1>8. ASSUME NEW c \in Chunk, c.kind # "finish", Told(Append(done, d), done, Append(cs, c))
      PROVE  /\ c.role = "none" /\ w = State(t, a, r, usage, Append(cs, c))
                => Carries(w, Append(done, d), a, usage, done)
             /\ c.role = role /\ w = State(t, a, Yes, usage, Append(cs, c))
                => Carries(w, Append(done, d), a, usage, done)
  <2>1. /\ c.role = "none" => Len(Roles(Append(cs, c))) = IF r THEN 1 ELSE 0
        /\ c.role = role => Len(Roles(Append(cs, c))) = IF Yes THEN 1 ELSE 0
    BY <1>2, <1>6, RoleOnce DEF Yes
  <2>2. Finishes(Append(cs, c)) = <<>>
    BY <1>2, <1>8, NotTheEnd
  <2> HIDE DEF Chunk, AnswerBlock
  <2>3. Append(cs, c) \in Seq(Chunk)
    OBVIOUS
  <2> QED
    BY <1>4, <1>7, <1>8, <2>1, <2>2, <2>3 DEF Carries
<1>9. ASSUME w = State(t, a, r, usage, cs), Told(Append(done, d), done, cs)
      PROVE  Carries(w, Append(done, d), a, usage, done)
  BY <1>2, <1>4, <1>9 DEF Carries
<1>10. CASE b.type = "text" /\ kind = "text_delta"
  <2>1. p # 0
    BY <1>10
  <2>2. PICK c : c = ChunkOf("content", 0, p, role)
    OBVIOUS
  <2>3. c \in Chunk /\ c.kind = "content" /\ c.val = p /\ c.role = role
    BY <1>5, <1>7, <2>2, ChunkIs DEF ChunkKind
  <2>4. Opened(b, n) = NoBlock /\ a = NoBlock
    BY <1>1, <1>3, <1>10 DEF Opened, IsThinking
  <2>5. w = State(t, a, Yes, usage, Append(cs, c))
    BY <1>1, <1>2, <1>6, <1>10, <2>1, <2>2, <2>4, ProcessesDelta
  <2>6. Told(Append(done, d), done, Append(cs, c))
    BY <1>2, <1>3, <1>10, <2>1, <2>3, TellsText
  <2> QED
    BY <1>1, <1>7, <1>8, <2>3, <2>5, <2>6
<1>11. CASE b.type = "thinking" /\ kind = "thinking_delta"
  <2>1. p # 0
    BY <1>11
  <2>2. PICK c : c = ChunkOf("reasoning", 0, p, role)
    OBVIOUS
  <2>3. c \in Chunk /\ c.kind = "reasoning" /\ c.val = p /\ c.role = role
    BY <1>5, <1>7, <2>2, ChunkIs DEF ChunkKind
  <2>5. w = State(t, a, Yes, usage, Append(cs, c))
    BY <1>1, <1>2, <1>6, <1>11, <2>2, ProcessesThinking
  <2>6. Told(Append(done, d), done, Append(cs, c))
    BY <1>2, <1>3, <1>11, <2>1, <2>3, TellsThinking
  <2> QED
    BY <1>1, <1>7, <1>8, <2>3, <2>5, <2>6
<1>12. CASE b.type = "thinking" /\ kind = "signature_delta"
  <2>1. w = State(t, a, r, usage, cs)
    BY <1>1, <1>2, <1>12, ProcessesSignature
  <2>2. Told(Append(done, d), done, cs)
    BY <1>2, <1>3, <1>12, TellsNothing
  <2> QED
    BY <1>1, <1>9, <2>1, <2>2
<1>13. CASE b.type = "tool_use" /\ kind = "input_json_delta"
  <2>1. Opened(b, n) = NoBlock /\ a = NoBlock
    BY <1>1, <1>3, <1>13 DEF Opened, IsThinking
  <2>2. CASE p # 0
    <3>1. PICK c : c = ChunkOf("args", t, p, "none")
      OBVIOUS
    <3>2. c \in Chunk /\ c.kind = "args" /\ c.val = p /\ c.role = "none" /\ c.at = t
      BY <1>5, <1>7, <3>1, ChunkIs DEF ChunkKind
    <3>3. w = State(t, a, r, usage, Append(cs, c))
      BY <1>1, <1>2, <1>13, <2>1, <2>2, <3>1, ProcessesDelta
    <3>4. Told(Append(done, d), done, Append(cs, c))
      BY <1>0, <1>2, <1>3, <1>13, <2>2, <3>2, TellsArgs
    <3> QED
      BY <1>1, <1>8, <3>2, <3>3, <3>4
  <2>3. CASE p = 0
    <3>1. w = State(t, a, r, usage, cs)
      BY <1>1, <1>2, <1>13, <2>1, <2>3, ProcessesDelta
    <3>2. Told(Append(done, d), done, cs)
      BY <1>2, <1>3, <2>3, TellsNothing
    <3> QED
      BY <1>1, <1>9, <3>1, <3>2
  <2> QED
    BY <2>2, <2>3
<1> QED
  BY <1>10, <1>11, <1>12, <1>13, DeltaKinds

LEMMA RelayStops ==
  ASSUME NEW done \in Seq(AnswerBlock), NEW b \in AnswerBlock, NEW s, NEW usage, NEW e,
         NEW n, n = Len(done) + 1, e.type = "content_block_stop", e.index = n,
         Carries(s, Append(done, b), Opened(b, n), usage, done)
  PROVE  Carries(ProcessEvent(s, e), Append(done, b), NoBlock, usage, Append(done, b))
<1>1. PICK t, w : t = Len(Calls(Append(done, b))) - 1 /\ w = ProcessEvent(s, e)
  OBVIOUS
<1>2. PICK r \in BOOLEAN, cs \in Seq(Chunk) :
        /\ s = State(t, Opened(b, n), r, usage, cs)
        /\ Len(Roles(cs)) = (IF r THEN 1 ELSE 0) /\ Finishes(cs) = <<>>
        /\ Told(Append(done, b), done, cs)
  BY <1>1 DEF Carries
<1>3. CASE IsThinking(b)
  <2>1. PICK c : c = ChunkOf("details", 0, Raw(b), "none")
    OBVIOUS
  <2>2. Raw(b) \in Value /\ "none" \in Role
    BY RawIs DEF Value, Role
  <2>3. c \in Chunk /\ c.kind = "details" /\ c.val = Raw(b) /\ c.role = "none"
    BY <2>1, <2>2, ChunkIs DEF ChunkKind
  <2>4. w = State(t, NoBlock, r, usage, Append(cs, c))
    BY <1>1, <1>2, <1>3, <2>1, ProcessesStop
  <2>5. Told(Append(done, b), Append(done, b), Append(cs, c))
    BY <1>2, <1>3, <2>3, TellsStop
  <2>6. Len(Roles(Append(cs, c))) = IF r THEN 1 ELSE 0
    BY <1>2, <2>3, RoleOnce
  <2>7. Finishes(Append(cs, c)) = <<>>
    BY <1>2, <2>3, NotTheEnd
  <2> HIDE DEF Chunk, AnswerBlock
  <2>8. Append(cs, c) \in Seq(Chunk)
    BY <2>3
  <2> QED
    BY <1>1, <2>4, <2>5, <2>6, <2>7, <2>8 DEF Carries
<1>4. CASE ~IsThinking(b)
  <2>1. Opened(b, n) = NoBlock
    BY <1>4 DEF Opened
  <2>2. w = State(t, NoBlock, r, usage, cs)
    BY <1>1, <1>2, <2>1, ProcessesOutside
  <2>3. Told(Append(done, b), Append(done, b), cs)
    BY <1>2, <1>4, TellsStop
  <2> QED
    BY <1>1, <1>2, <2>2, <2>3 DEF Carries
<1> QED
  BY <1>3, <1>4

----------------------------------------------------------------------------
(* Every step keeps the invariant.                                          *)

LEMMA OpenedIs ==
  ASSUME NEW b \in AnswerBlock, NEW n \in Nat
  PROVE  Opened(b, n) \in ActiveBlock
<1>1. b.type \in AnswerType /\ b.text \in Seq(Piece) /\ b.signature \in Seq(Piece)
  BY BlockFields
<1>2. <<>> \in Seq(Piece)
  OBVIOUS
<1> HIDE DEF Piece, AnswerBlock, AnswerType
<1>3. CASE IsThinking(b)
  <2>1. b.type \in ActiveType
    BY <1>3 DEF ActiveType, IsThinking
  <2>2. Opened(b, n) = [type |-> b.type, text |-> b.text, signature |-> b.signature, index |-> n]
    BY <1>3 DEF Opened
  <2> HIDE DEF ActiveType
  <2> QED
    BY <1>1, <2>1, <2>2 DEF ActiveBlock
<1>4. CASE ~IsThinking(b)
  <2>1. "none" \in ActiveType
    BY DEF ActiveType
  <2> HIDE DEF ActiveType
  <2>2. NoBlock \in ActiveBlock
    BY <1>2, <2>1 DEF NoBlock, ActiveBlock
  <2> QED
    BY <1>4, <2>2 DEF Opened
<1> QED
  BY <1>3, <1>4

(* A block begins.                                                          *)
LEMMA BegunIs ==
  ASSUME NEW t \in AnswerType, NEW m \in AnswerName, NEW i \in Nat, NEW b,
         b = [type |-> t, id |-> i, name |-> m, signature |-> <<>>,
              text |-> IF t = "redacted_thinking" THEN <<-2 - i>> ELSE <<>>]
  PROVE  /\ b \in AnswerBlock /\ b.type = t /\ b.name = m
         /\ t # "redacted_thinking" => b.text = <<>>
<1>1. PICK p \in Piece : p = -2 - i
  <2>1. -2 - i \in Int /\ -2 - i # -1
    OBVIOUS
  <2> QED
    BY <2>1 DEF Piece, Separator
<1> HIDE DEF Piece, AnswerType, AnswerName
<1>2. <<p>> \in Seq(Piece) /\ <<>> \in Seq(Piece)
  OBVIOUS
<1>3. PICK x \in Seq(Piece) : x = IF t = "redacted_thinking" THEN <<p>> ELSE <<>>
  BY <1>2
<1>4. b = [type |-> t, id |-> i, name |-> m, signature |-> <<>>, text |-> x]
  BY <1>1, <1>3
<1>5. b.type = t /\ b.name = m /\ b.text = x
  BY <1>4
<1> QED
  BY <1>2, <1>3, <1>4, <1>5 DEF AnswerBlock

LEMMA StartsKeep ==
  ASSUME AnswerConstantsOK, AnswerInv, NEW t \in AnswerType, NEW m \in AnswerName, Starts(t, m)
  PROVE  AnswerInv'
<1>1. PICK done \in Seq(AnswerBlock) : Agreed(done)
  BY DEF AnswerInv
<1>2. WellTyped
  BY DEF AnswerInv
<1>3. /\ message.blocks \in Seq(AnswerBlock) /\ message.usage \in Usage
      /\ message = MessageOf(message.blocks, message.usage, message.output, message.stop,
                             message.open)
  BY <1>2, MessageHas DEF WellTyped
<1>4. ~message.open /\ message.stop = "none" /\ Len(message.blocks) < MaxBlocks
  BY DEF Starts, Ended
<1>5. message.blocks = done /\ relay.active = NoBlock
  BY <1>1, <1>4 DEF Agreed, Split
<1>6. PICK i : i = Len(message.blocks) + 1
  OBVIOUS
<1>7. PICK b : b = [type |-> t, id |-> i, name |-> m, signature |-> <<>>,
                    text |-> IF t = "redacted_thinking" THEN <<-2 - i>> ELSE <<>>]
  OBVIOUS
<1>8. i \in Nat /\ i = Len(done) + 1
  BY <1>3, <1>5, <1>6, LenProperties
<1>9. /\ b \in AnswerBlock /\ b.type = t /\ b.name = m
      /\ t # "redacted_thinking" => b.text = <<>>
  BY <1>7, <1>8, BegunIs
<1>10. PICK e : e = [type |-> "content_block_start", index |-> i, block |-> b]
  OBVIOUS
<1>11. /\ message' = [message EXCEPT !.blocks = Append(@, b), !.open = Yes]
       /\ events' = Append(events, e) /\ relay' = ProcessEvent(relay, e) /\ pieces' = pieces
       /\ t = "tool_use" => m \in DOMAIN Original
  BY <1>6, <1>7, <1>10 DEF Starts, SendEvent, Yes
<1>12. message' = MessageOf(Append(done, b), message.usage, message.output, message.stop, Yes)
  <2>1. PICK bs, u, o, s, f : /\ bs = Append(done, b) /\ u = message.usage /\ o = message.output
                              /\ s = message.stop /\ f = message.open
    OBVIOUS
  <2>2. message = MessageOf(done, u, o, s, f)
    BY <1>3, <1>5, <2>1
  <2>3. PICK w : w = [message EXCEPT !.blocks = bs]
    OBVIOUS
  <2>4. message' = [w EXCEPT !.open = Yes]
    BY <1>5, <1>11, <2>1, <2>3
  <2>5. w = MessageOf(bs, u, o, s, f)
    BY <2>2, <2>3, MessageAdds
  <2>6. [MessageOf(bs, u, o, s, f) EXCEPT !.open = Yes] = MessageOf(bs, u, o, s, Yes)
    BY MessageOpens
  <2> QED
    BY <2>1, <2>4, <2>5, <2>6
<1>13. Carries(relay', Append(done, b), Opened(b, Len(done) + 1), message.usage, done)
  <2>1. Carries(relay, done, NoBlock, message.usage, done)
    BY <1>1, <1>2, <1>4, <1>5, AgreedCarries
  <2>2. Carries(ProcessEvent(relay, e), Append(done, b), Opened(b, Len(done) + 1),
                message.usage, done)
    BY <1>8, <1>9, <1>10, <1>11, <2>1, RelayStarts
  <2> QED
    BY <1>11, <2>2
<1>14. Split(Append(done, b), Yes, Opened(b, Len(done) + 1), done)
  BY <1>9 DEF Split, Yes
<1>15. Append(done, b) \in Seq(AnswerBlock) /\ Len(Append(done, b)) <= MaxBlocks
  <2>1. /\ Append(done, b) \in Seq(AnswerBlock) /\ Len(Append(done, b)) = Len(done) + 1
        /\ Len(done) \in Nat
    BY <1>9, LastBlock
  <2>2. MaxBlocks \in Nat
    BY DEF AnswerConstantsOK
  <2> QED
    BY <1>4, <1>5, <2>1, <2>2
<1>16. Reconstruct(Has(message.blocks, done, message.stop, message.output, message.usage), e)
         = Has(Append(done, b), done, message.stop, message.output, message.usage)
  BY <1>5, <1>8, <1>9, <1>10, HasMore
<1>17. Opened(b, Len(done) + 1) \in ActiveBlock /\ Yes \in BOOLEAN
  BY <1>8, <1>9, OpenedIs DEF Yes
<1>18. pieces' \in 0..MaxPieces
  BY <1>2, <1>11 DEF WellTyped
<1> QED
  BY <1>1, <1>2, <1>3, <1>4, <1>11, <1>12, <1>13, <1>14, <1>15, <1>16, <1>17, <1>18, Onward

(* What is known of an answer with a block open.                            *)
LEMMA WhenOpen ==
  ASSUME WellTyped, NEW done \in Seq(AnswerBlock), Agreed(done), message.open
  PROVE  /\ message.stop = "none"
         /\ \E b \in AnswerBlock :
              /\ message.blocks = Append(done, b) /\ relay.active = Opened(b, Len(done) + 1)
              /\ message = MessageOf(Append(done, b), message.usage, message.output,
                                     message.stop, message.open)
              /\ Current = b /\ Len(message.blocks) = Len(done) + 1 /\ Len(done) \in Nat
<1>1. message.stop = "none"
  BY DEF Agreed, EndTold
<1>2. PICK b \in AnswerBlock :
        message.blocks = Append(done, b) /\ relay.active = Opened(b, Len(done) + 1)
  BY DEF Agreed, Split
<1>3. message = MessageOf(message.blocks, message.usage, message.output, message.stop,
                          message.open)
  BY MessageHas DEF WellTyped
<1>4. Len(message.blocks) = Len(done) + 1 /\ Len(done) \in Nat /\ Current = b
  BY <1>2, LastBlock DEF Current
<1> QED
  BY <1>1, <1>2, <1>3, <1>4

LEMMA DeltaKeeps ==
  ASSUME AnswerConstantsOK, AnswerInv, NEW kind, NEW empty \in BOOLEAN, Delta(kind, empty)
  PROVE  AnswerInv'
<1>1. PICK done \in Seq(AnswerBlock) : Agreed(done)
  BY DEF AnswerInv
<1>2. WellTyped
  BY DEF AnswerInv
<1>3. message.open /\ pieces < MaxPieces /\ kind \in DeltaOf(Current.type)
  BY DEF Delta
<1>4. message.stop = "none"
  BY <1>1, <1>2, <1>3, WhenOpen
<1>5. PICK b \in AnswerBlock :
        /\ message.blocks = Append(done, b) /\ relay.active = Opened(b, Len(done) + 1)
        /\ message = MessageOf(Append(done, b), message.usage, message.output,
                               message.stop, message.open)
        /\ Current = b /\ Len(message.blocks) = Len(done) + 1 /\ Len(done) \in Nat
  BY <1>1, <1>2, <1>3, WhenOpen
<1>6. PICK n \in Nat : n = Len(done) + 1
  BY <1>5
<1>7. pieces \in 0..MaxPieces /\ MaxPieces \in Nat
  BY <1>2 DEF WellTyped, AnswerConstantsOK
<1>8. PICK p \in Piece : p = IF empty THEN 0 ELSE pieces + 1
  <2>1. 0 \in Piece /\ pieces + 1 \in Piece
    BY <1>7 DEF Piece, Separator
  <2> QED
    BY <2>1
<1>9. p = 0 => kind = "input_json_delta"
  BY <1>7, <1>8 DEF Delta
<1>10. PICK e : e = [type |-> "content_block_delta", index |-> n, kind |-> kind, piece |-> p]
  OBVIOUS
<1>11. /\ message' = [message EXCEPT !.blocks[n] = Grown(@, kind, p)]
       /\ events' = Append(events, e) /\ relay' = ProcessEvent(relay, e) /\ pieces' = pieces + 1
  BY <1>5, <1>6, <1>8, <1>10 DEF Delta, SendEvent
<1>12. PICK d : d = Grown(b, kind, p)
  OBVIOUS
<1>13. d \in AnswerBlock
  BY <1>12, GrownIs
<1>14. message' = MessageOf(Append(done, d), message.usage, message.output, message.stop,
                            message.open)
  <2>1. PICK u, o, s, f : u = message.usage /\ o = message.output /\ s = message.stop /\ f = message.open
    OBVIOUS
  <2>2. message' = [MessageOf(Append(done, b), u, o, s, f) EXCEPT !.blocks[n] = Grown(@, kind, p)]
    BY <1>5, <1>11, <2>1
  <2>3. [MessageOf(Append(done, b), u, o, s, f) EXCEPT !.blocks[n] = Grown(@, kind, p)]
          = MessageOf(Append(done, d), u, o, s, f)
    BY <1>6, <1>12, MessageGrows
  <2> QED
    BY <2>1, <2>2, <2>3
<1>15. Carries(relay', Append(done, d), Opened(d, n), message.usage, done)
  <2>1. Carries(relay, Append(done, b), Opened(b, n), message.usage, done)
    BY <1>1, <1>2, <1>4, <1>5, <1>6, AgreedCarries
  <2>2. Carries(ProcessEvent(relay, e), Append(done, Grown(b, kind, p)),
                Opened(Grown(b, kind, p), n), message.usage, done)
    BY <1>3, <1>5, <1>6, <1>9, <1>10, <2>1, RelayGrows
  <2> QED
    BY <1>11, <1>12, <2>2
<1>16. Split(Append(done, d), message.open, Opened(d, n), done)
  BY <1>3, <1>6, <1>13 DEF Split
<1>17. Append(done, d) \in Seq(AnswerBlock) /\ Len(Append(done, d)) <= MaxBlocks
  <2>1. Append(done, d) \in Seq(AnswerBlock) /\ Len(Append(done, d)) = Len(done) + 1
    BY <1>13, LastBlock
  <2> QED
    BY <1>2, <1>5, <2>1 DEF WellTyped
<1>18. Reconstruct(Has(message.blocks, done, message.stop, message.output, message.usage), e)
         = Has(Append(done, d), done, message.stop, message.output, message.usage)
  BY <1>5, <1>6, <1>10, <1>12, HasGrown
<1>19. Opened(d, n) \in ActiveBlock
  BY <1>13, OpenedIs
<1>20. pieces' \in 0..MaxPieces
  BY <1>3, <1>7, <1>11
<1>21. message.usage \in Usage /\ message.open \in BOOLEAN
  BY <1>2, MessageHas DEF WellTyped
<1> QED
  BY <1>1, <1>2, <1>4, <1>11, <1>14, <1>15, <1>16, <1>17, <1>18, <1>19, <1>20, <1>21, Onward

LEMMA StopsKeep ==
  ASSUME AnswerConstantsOK, AnswerInv, Stops
  PROVE  AnswerInv'
<1>1. PICK done \in Seq(AnswerBlock) : Agreed(done)
  BY DEF AnswerInv
<1>2. WellTyped
  BY DEF AnswerInv
<1>3. message.open
  BY DEF Stops
<1>4. message.stop = "none"
  BY <1>1, <1>2, <1>3, WhenOpen
<1>5. PICK b \in AnswerBlock :
        /\ message.blocks = Append(done, b) /\ relay.active = Opened(b, Len(done) + 1)
        /\ message = MessageOf(Append(done, b), message.usage, message.output,
                               message.stop, message.open)
        /\ Current = b /\ Len(message.blocks) = Len(done) + 1 /\ Len(done) \in Nat
  BY <1>1, <1>2, <1>3, WhenOpen
<1>6. PICK n \in Nat : n = Len(done) + 1
  BY <1>5
<1>7. PICK e : e = [type |-> "content_block_stop", index |-> n]
  OBVIOUS
<1>8. /\ message' = [message EXCEPT !.open = No]
      /\ events' = Append(events, e) /\ relay' = ProcessEvent(relay, e) /\ pieces' = pieces
  BY <1>5, <1>6, <1>7 DEF Stops, SendEvent, No
<1>9. message' = MessageOf(Append(done, b), message.usage, message.output, message.stop, No)
  <2>1. PICK u, o, s, f : u = message.usage /\ o = message.output /\ s = message.stop /\ f = message.open
    OBVIOUS
  <2>2. message' = [MessageOf(Append(done, b), u, o, s, f) EXCEPT !.open = No]
    BY <1>5, <1>8, <2>1
  <2>3. [MessageOf(Append(done, b), u, o, s, f) EXCEPT !.open = No]
          = MessageOf(Append(done, b), u, o, s, No)
    BY MessageOpens
  <2> QED
    BY <2>1, <2>2, <2>3
<1>10. Carries(relay', Append(done, b), NoBlock, message.usage, Append(done, b))
  <2>1. Carries(relay, Append(done, b), Opened(b, n), message.usage, done)
    BY <1>1, <1>2, <1>4, <1>5, <1>6, AgreedCarries
  <2>2. Carries(ProcessEvent(relay, e), Append(done, b), NoBlock, message.usage, Append(done, b))
    BY <1>6, <1>7, <2>1, RelayStops
  <2> QED
    BY <1>8, <2>2
<1>11. Split(Append(done, b), No, NoBlock, Append(done, b))
  BY DEF Split, No
<1>12. Append(done, b) \in Seq(AnswerBlock) /\ Len(Append(done, b)) <= MaxBlocks
  BY <1>2, <1>5, LastBlock DEF WellTyped
<1>13. Reconstruct(Has(message.blocks, done, message.stop, message.output, message.usage), e)
         = Has(Append(done, b), Append(done, b), message.stop, message.output, message.usage)
  BY <1>5, <1>6, <1>7, HasStopped
<1>14. NoBlock \in ActiveBlock /\ No \in BOOLEAN
  <2>1. <<>> \in Seq(Piece)
    OBVIOUS
  <2> HIDE DEF Piece
  <2> QED
    BY <2>1 DEF NoBlock, ActiveBlock, ActiveType, No
<1>15. message.usage \in Usage /\ pieces' \in 0..MaxPieces
  BY <1>2, <1>8, MessageHas DEF WellTyped
<1> QED
  BY <1>1, <1>2, <1>4, <1>8, <1>9, <1>10, <1>11, <1>12, <1>13, <1>14, <1>15, Onward

LEMMA MessageStartsKeep ==
  ASSUME AnswerConstantsOK, AnswerInv, NEW u \in StartUsage, MessageStarts(u)
  PROVE  AnswerInv'
<1>1. PICK done \in Seq(AnswerBlock) : Agreed(done)
  BY DEF AnswerInv
<1>2. WellTyped
  BY DEF AnswerInv
<1>3. message.stop = "none"
  BY <1>1 DEF MessageStarts, Agreed, EndTold
<1>4. PICK bs, o, s, f : bs = message.blocks /\ o = message.output /\ s = message.stop /\ f = message.open
  OBVIOUS
<1>5. message = MessageOf(bs, message.usage, o, s, f) /\ bs \in Seq(AnswerBlock) /\ f \in BOOLEAN
  BY <1>2, <1>4, MessageHas DEF WellTyped
<1>6. PICK e : e = [type |-> "message_start", usage |-> u]
  OBVIOUS
<1>7. /\ message' = [message EXCEPT !.usage = u]
      /\ events' = Append(events, e) /\ relay' = ProcessEvent(relay, e) /\ pieces' = pieces
  BY <1>6 DEF MessageStarts, SendEvent
<1>8. message' = MessageOf(bs, u, o, s, f)
  BY <1>5, <1>7, MessageBills
<1>9. Carries(relay', bs, relay.active, u, done)
  <2>1. PICK r \in BOOLEAN, cs \in Seq(Chunk) :
          /\ relay = State(Len(Calls(bs)) - 1, relay.active, r, message.usage, cs)
          /\ Len(Roles(cs)) = (IF r THEN 1 ELSE 0) /\ Finishes(cs) = <<>> /\ Told(bs, done, cs)
    BY <1>1, <1>2, <1>3, <1>4, AgreedCarries DEF Carries
  <2>2. e.type = "message_start" /\ e.usage = u
    BY <1>6
  <2>3. PICK t, a : t = Len(Calls(bs)) - 1 /\ a = relay.active
    OBVIOUS
  <2>4. ProcessEvent(State(t, a, r, message.usage, cs), e) = State(t, a, r, u, cs)
    BY <2>2, ProcessesStart
  <2>5. relay' = State(Len(Calls(bs)) - 1, relay.active, r, u, cs)
    BY <1>7, <2>1, <2>3, <2>4
  <2> QED
    BY <2>1, <2>5 DEF Carries
<1>10. Split(bs, f, relay.active, done)
  BY <1>1, <1>4 DEF Agreed
<1>11. Reconstruct(Has(message.blocks, done, message.stop, message.output, message.usage), e)
         = Has(bs, done, message.stop, message.output, u)
  <2>1. e.type = "message_start" /\ e.usage = u
    BY <1>6
  <2> QED
    BY <1>4, <2>1, HasUsage
<1>12. relay.active \in ActiveBlock /\ u \in Usage /\ pieces' \in 0..MaxPieces /\ Len(bs) <= MaxBlocks
  BY <1>2, <1>4, <1>7, RelayFields DEF WellTyped, AnswerConstantsOK, Usage
<1> QED
  BY <1>1, <1>2, <1>3, <1>4, <1>5, <1>7, <1>8, <1>9, <1>10, <1>11, <1>12, Onward

LEMMA MessageEndsKeep ==
  ASSUME AnswerConstantsOK, AnswerInv, NEW stop \in StopReason, NEW n \in OutputTokens,
         MessageEnds(stop, n)
  PROVE  AnswerInv'
<1>1. PICK done \in Seq(AnswerBlock) : Agreed(done)
  BY DEF AnswerInv
<1>2. WellTyped
  BY DEF AnswerInv
<1>3. message.stop = "none" /\ message.open = No /\ n \in Nat /\ stop # "none"
      /\ stop \in StopOrNone
  <2>1. message.open \in BOOLEAN
    BY <1>2, MessageHas DEF WellTyped
  <2> QED
    BY <2>1 DEF MessageEnds, Ended, AnswerConstantsOK, StopOrNone, No
<1>4. PICK bs, o, u : bs = message.blocks /\ o = message.output /\ u = message.usage
  OBVIOUS
<1>5. /\ message = MessageOf(bs, u, o, "none", No)
      /\ bs \in Seq(AnswerBlock) /\ u \in Usage /\ o \in Nat
  BY <1>2, <1>3, <1>4, MessageHas DEF WellTyped
<1>6. PICK e : e = [type |-> "message_delta", stop |-> stop, output |-> n]
  OBVIOUS
<1>7. e.type = "message_delta" /\ e.stop = stop /\ e.output = n
  BY <1>6
<1>8. /\ message' = [message EXCEPT !.stop = stop, !.output = n]
      /\ events' = Append(events, e) /\ relay' = ProcessEvent(relay, e) /\ pieces' = pieces
  BY <1>6 DEF MessageEnds, SendEvent
<1>9. message' = MessageOf(bs, u, n, stop, No)
  <2>1. PICK w : w = [message EXCEPT !.stop = stop]
    OBVIOUS
  <2>2. message' = [w EXCEPT !.output = n]
    BY <1>8, <2>1
  <2>3. w = MessageOf(bs, u, o, stop, No)
    BY <1>5, <2>1, MessageFinishes
  <2> QED
    BY <2>2, <2>3, MessageCounts
<1>10. /\ message' \in Message /\ message'.blocks = bs /\ message'.usage = u
       /\ message'.output = n /\ message'.stop = stop /\ message'.open = No
  <2>1. PICK m : m = MessageOf(bs, u, n, stop, No)
    OBVIOUS
  <2>2. No \in BOOLEAN
    BY DEF No
  <2>3. m \in Message
    BY <1>3, <1>5, <2>1, <2>2, MessageIs
  <2>4. /\ m.blocks = bs /\ m.usage = u /\ m.output = n /\ m.stop = stop /\ m.open = No
    BY <2>1, MessageParts
  <2> QED
    BY <1>9, <2>1, <2>3, <2>4
<1>11. PICK t \in Int : t = Len(Calls(bs)) - 1
  <2>1. Len(Calls(bs)) - 1 \in Int
    BY <1>5, CallCount
  <2> QED
    BY <2>1, Zenon
<1>12. PICK a \in ActiveBlock, r \in BOOLEAN, cs \in Seq(Chunk) :
        /\ a = relay.active /\ relay = State(t, a, r, u, cs)
        /\ Len(Roles(cs)) = (IF r THEN 1 ELSE 0) /\ Finishes(cs) = <<>> /\ Told(bs, done, cs)
  <2>1. Carries(relay, bs, relay.active, u, done) /\ relay.active \in ActiveBlock
    BY <1>1, <1>2, <1>3, <1>4, AgreedCarries, RelayFields DEF WellTyped
  <2> QED
    BY <1>11, <2>1 DEF Carries
<1>13. PICK v : v = [reason |-> ToFinishReason(stop), usage |-> BuildOpenAiUsage(u, n)]
  OBVIOUS
<1>14. v \in Value
  <2>1. ToFinishReason(stop) \in FinishReason
    BY DEF ToFinishReason, FinishReason
  <2>2. u.input \in Nat /\ u.cached \in Nat /\ u.creation \in Nat /\ u.input + n \in Nat
    BY <1>3, <1>5 DEF Usage
  <2>3. v \in Closing
    BY <1>3, <1>13, <2>1, <2>2 DEF Closing, BuildOpenAiUsage
  <2> QED
    BY <2>3 DEF Value
<1>15. PICK c : c = ChunkOf("finish", 0, v, "none")
  OBVIOUS
<1>16. c \in Chunk /\ c.kind = "finish" /\ c.val = v /\ c.role = "none"
  BY <1>14, <1>15, ChunkIs DEF ChunkKind, Role
<1>17. relay' = State(t, a, r, u, Append(cs, c))
  BY <1>6, <1>8, <1>12, <1>13, <1>15, ProcessesEnd
<1>18. Append(cs, c) \in Seq(Chunk)
  <2> HIDE DEF Chunk
  <2> QED
    BY <1>16
<1>19. /\ relay' \in Relay /\ relay'.toolIndex = t /\ relay'.active = a /\ relay'.sentRole = r
       /\ relay'.usage = u /\ relay'.chunks = Append(cs, c)
  <2>1. relay' \in Relay
    BY <1>5, <1>17, <1>18, StateIs
  <2> QED
    BY <1>17, <2>1 DEF State
<1>20. /\ \E S : Append(events, e) \in Seq(S)
       /\ Append(events, e) # <<>>
       /\ Reconstructed(Append(events, e)) = Reconstruct(Reconstructed(events), e)
  BY <1>2, EventSent DEF WellTyped
<1>21. WellTyped'
  BY <1>2, <1>4, <1>8, <1>10, <1>19, <1>20 DEF WellTyped
<1>22. EndTold(message, events, relay.chunks)'
  <2>1. Closed(message') = v
    BY <1>10, <1>13 DEF Closed
  <2> HIDE DEF Chunk
  <2> QED
    BY <1>3, <1>8, <1>10, <1>12, <1>15, <1>19, <1>20, <2>1 DEF EndTold, No
<1>23. Reconstructed(events') = Has(bs, done, stop, n, u)
  <2>1. Reconstructed(events) = Has(bs, done, "none", o, u)
    BY <1>1, <1>3, <1>4 DEF Agreed
  <2> QED
    BY <1>7, <1>8, <1>20, <2>1, HasEnds
<1>24. Split(bs, No, a, done)
  BY <1>1, <1>3, <1>4, <1>12 DEF Agreed
<1>25. Told(bs, done, Append(cs, c))
  BY <1>12, <1>16, TellsEnd
<1>26. Len(Roles(Append(cs, c))) = IF r THEN 1 ELSE 0
  BY <1>12, <1>16, RoleOnce
<1>27. Agreed(done)'
  BY <1>10, <1>11, <1>19, <1>22, <1>23, <1>24, <1>25, <1>26 DEF Agreed
<1> QED
  BY <1>21, <1>27 DEF AnswerInv

LEMMA AnswerStutters ==
  ASSUME AnswerInv, UNCHANGED answerVars
  PROVE  AnswerInv'
<1>1. message' = message /\ pieces' = pieces /\ events' = events /\ relay' = relay
  BY DEF answerVars
<1> QED
  BY <1>1 DEF AnswerInv, WellTyped, Agreed

LEMMA AnswerKeeps ==
  ASSUME AnswerConstantsOK, AnswerInv, [AnswerNext]_answerVars
  PROVE  AnswerInv'
<1>1. CASE UNCHANGED answerVars
  BY <1>1, AnswerStutters
<1>2. CASE \E u \in StartUsage : MessageStarts(u)
  BY <1>2, MessageStartsKeep
<1>3. CASE \E t \in AnswerType, n \in DOMAIN Original \cup {NoName} : Starts(t, n)
  BY <1>3, StartsKeep DEF AnswerName
<1>4. CASE \E k \in UNION {DeltaOf(t) : t \in AnswerType}, empty \in BOOLEAN : Delta(k, empty)
  BY <1>4, DeltaKeeps
<1>5. CASE Stops
  BY <1>5, StopsKeep
<1>6. CASE \E stop \in StopReason, n \in OutputTokens : MessageEnds(stop, n)
  BY <1>6, MessageEndsKeep
<1> QED
  BY <1>1, <1>2, <1>3, <1>4, <1>5, <1>6 DEF AnswerNext

----------------------------------------------------------------------------
(* What the readers put together, in the terms of the invariant.            *)

LEMMA TypedIs ==
  ASSUME NEW bs \in Seq(AnswerBlock)
  PROVE  (\A t : OfType(bs, t) = Within(bs, Typed(t))) /\ Thoughts(bs) = Within(bs, Thinks)
<1>1. \A i \in DOMAIN bs : bs[i] \in AnswerBlock
  <2> HIDE DEF AnswerBlock
  <2> QED
    OBVIOUS
<1>2. ASSUME NEW t PROVE OfType(bs, t) = Within(bs, Typed(t))
  <2>1. \A i \in DOMAIN bs : bs[i].type = t <=> bs[i] \in Typed(t)
    BY <1>1 DEF Typed
  <2> HIDE DEF Typed
  <2>2. [i \in DOMAIN bs |-> IF bs[i].type = t THEN <<bs[i]>> ELSE <<>>]
          = [i \in DOMAIN bs |-> IF bs[i] \in Typed(t) THEN <<bs[i]>> ELSE <<>>]
    BY <2>1
  <2> QED
    BY <2>2 DEF OfType, Those, Within
<1>3. Thoughts(bs) = Within(bs, Thinks)
  <2>1. \A i \in DOMAIN bs : IsThinking(bs[i]) <=> bs[i] \in Thinks
    BY <1>1 DEF Thinks
  <2> HIDE DEF Thinks, IsThinking
  <2>2. [i \in DOMAIN bs |-> IF IsThinking(bs[i]) THEN <<bs[i]>> ELSE <<>>]
          = [i \in DOMAIN bs |-> IF bs[i] \in Thinks THEN <<bs[i]>> ELSE <<>>]
    BY <2>1
  <2> QED
    BY <2>2 DEF Thoughts, Those, Within
<1> QED
  BY <1>2, <1>3

LEMMA ChunksAre ==
  ASSUME NEW cs \in Seq(Chunk), relay.chunks = cs
  PROVE  /\ \A kind : Of(kind) = Within(cs, OfKind(kind))
         /\ \A at : ArgsAt(at) = Within(cs, ArgsTo(at))
         /\ Those(relay.chunks, LAMBDA c : c.role = "assistant") = Roles(cs)
<1>1. \A i \in DOMAIN cs : cs[i] \in Chunk
  <2> HIDE DEF Chunk
  <2> QED
    OBVIOUS
<1>2. ASSUME NEW kind PROVE Of(kind) = Within(cs, OfKind(kind))
  <2>1. \A i \in DOMAIN cs : cs[i].kind = kind <=> cs[i] \in OfKind(kind)
    BY <1>1 DEF OfKind
  <2> HIDE DEF OfKind
  <2>2. [i \in DOMAIN cs |-> IF cs[i].kind = kind THEN <<cs[i]>> ELSE <<>>]
          = [i \in DOMAIN cs |-> IF cs[i] \in OfKind(kind) THEN <<cs[i]>> ELSE <<>>]
    BY <2>1
  <2> QED
    BY <2>2 DEF Of, Those, Within
<1>3. ASSUME NEW at PROVE ArgsAt(at) = Within(cs, ArgsTo(at))
  <2>1. \A i \in DOMAIN cs : (cs[i].kind = "args" /\ cs[i].at = at) <=> cs[i] \in ArgsTo(at)
    BY <1>1 DEF ArgsTo
  <2> HIDE DEF ArgsTo
  <2>2. [i \in DOMAIN cs |-> IF cs[i].kind = "args" /\ cs[i].at = at THEN <<cs[i]>> ELSE <<>>]
          = [i \in DOMAIN cs |-> IF cs[i] \in ArgsTo(at) THEN <<cs[i]>> ELSE <<>>]
    BY <2>1
  <2> QED
    BY <2>2 DEF ArgsAt, Those, Within
<1>4. Those(relay.chunks, LAMBDA c : c.role = "assistant") = Roles(cs)
  <2>1. \A i \in DOMAIN cs : cs[i].role = "assistant" <=> cs[i] \in WithRole
    BY <1>1 DEF WithRole
  <2> HIDE DEF WithRole
  <2>2. [i \in DOMAIN cs |-> IF cs[i].role = "assistant" THEN <<cs[i]>> ELSE <<>>]
          = [i \in DOMAIN cs |-> IF cs[i] \in WithRole THEN <<cs[i]>> ELSE <<>>]
    BY <2>1
  <2> QED
    BY <2>2 DEF Roles, Those, Within
<1> QED
  BY <1>2, <1>3, <1>4

(* The parts of a sequence give the parts of what is in a set.              *)
LEMMA WithinConcat ==
  ASSUME NEW S, NEW G, NEW s \in Seq(S), NEW t \in Seq(S)
  PROVE  Within(s \o t, G) = Within(s, G) \o Within(t, G)
<1> DEFINE T == {u \in Seq(S) : Within(s \o u, G) = Within(s, G) \o Within(u, G)}
<1>0. \A u \in Seq(S) : S # {} => Within(u, G) \in Seq(S)
  BY WithinAppend
<1>1. <<>> \in T
  <2>1. s \o <<>> = s /\ <<>> \in Seq(S) /\ Within(<<>>, G) = <<>>
    BY WithinNothing
  <2>2. Within(s, G) \o <<>> = Within(s, G)
    <3>1. CASE S # {}
      BY <1>0, <3>1
    <3>2. CASE S = {}
      <4>1. s = <<>>
        BY <3>2, EmptySeq
      <4>2. <<>> \o <<>> = <<>>
        OBVIOUS
      <4> QED
        BY <2>1, <4>1, <4>2
    <3> QED
      BY <3>1, <3>2
  <2> QED
    BY <2>1, <2>2
<1>2. ASSUME NEW u \in Seq(S), u \in T, NEW x \in S PROVE Append(u, x) \in T
  <2>1. s \o Append(u, x) = Append(s \o u, x) /\ s \o u \in Seq(S) /\ Append(u, x) \in Seq(S)
    OBVIOUS
  <2>2. /\ Within(Append(s \o u, x), G)
             = IF x \in G THEN Append(Within(s \o u, G), x) ELSE Within(s \o u, G)
        /\ Within(Append(u, x), G) = IF x \in G THEN Append(Within(u, G), x) ELSE Within(u, G)
        /\ Within(s, G) \in Seq(S) /\ Within(u, G) \in Seq(S)
    <3>1. PICK v \in Seq(S) : v = s \o u
      BY <2>1
    <3>2. Within(Append(v, x), G) = IF x \in G THEN Append(Within(v, G), x) ELSE Within(v, G)
      BY WithinAppend
    <3>3. /\ Within(Append(u, x), G) = IF x \in G THEN Append(Within(u, G), x) ELSE Within(u, G)
          /\ Within(u, G) \in Seq(S)
      BY WithinAppend
    <3>4. Within(s, G) \in Seq(S)
      BY WithinAppend
    <3> QED
      BY <3>1, <3>2, <3>3, <3>4
  <2>3. Within(s, G) \o Append(Within(u, G), x) = Append(Within(s, G) \o Within(u, G), x)
    BY <2>2
  <2> QED
    BY <1>2, <2>1, <2>2, <2>3
<1>3. t \in T
  <2> HIDE DEF T
  <2> QED
    BY <1>1, <1>2, SeqInduction
<1> QED
  BY <1>3

LEMMA UnseparatedIs == ASSUME NEW s \in Seq(Int) PROVE Unseparated(s) = Within(s, Piece)
<1>1. \A i \in DOMAIN s : s[i] # Separator <=> s[i] \in Piece
  BY DEF Piece, Separator
<1> HIDE DEF Piece, Separator
<1>2. [i \in DOMAIN s |-> IF s[i] # Separator THEN <<s[i]>> ELSE <<>>]
        = [i \in DOMAIN s |-> IF s[i] \in Piece THEN <<s[i]>> ELSE <<>>]
  BY <1>1
<1> QED
  BY <1>2 DEF Unseparated, Those, Within

LEMMA UnseparatedPieces ==
  ASSUME NEW s \in Seq(Piece)
  PROVE  /\ s \in Seq(Int) /\ Unseparated(s) = s
         /\ <<Separator>> \o s \in Seq(Int) /\ Unseparated(<<Separator>> \o s) = s
<1> DEFINE T == {u \in Seq(Piece) : Within(u, Piece) = u}
<1>0. s \in Seq(Int) /\ Separator \in Int /\ Separator \notin Piece
  BY DEF Piece, Separator
<1>1. Within(s, Piece) = s
  <2> HIDE DEF Piece
  <2>1. <<>> \in T
    BY WithinNothing
  <2>2. ASSUME NEW u \in Seq(Piece), u \in T, NEW x \in Piece PROVE Append(u, x) \in T
    BY <2>2, WithinAppend
  <2>3. s \in T
    <3> HIDE DEF T
    <3> QED
      BY <2>1, <2>2, SeqInduction
  <2> QED
    BY <2>3
<1>2. Within(<<Separator>> \o s, Piece) = s
  <2>1. Within(<<Separator>>, Piece) = <<>>
    <3>1. Append(<<>>, Separator) = <<Separator>> /\ <<>> \in Seq(Int)
      OBVIOUS
    <3>2. PICK none \in Seq(Int), c \in Int : none = <<>> /\ c = Separator
      BY <1>0, <3>1
    <3> HIDE DEF Piece
    <3>3. Within(Append(none, c), Piece) = IF c \in Piece THEN Append(Within(none, Piece), c)
                                                          ELSE Within(none, Piece)
      BY WithinAppend
    <3> QED
      BY <1>0, <3>1, <3>2, <3>3, WithinNothing
  <2> HIDE DEF Piece, Separator
  <2>2. <<Separator>> \in Seq(Int) /\ <<>> \o s = s
    BY <1>0
  <2>3. Within(<<Separator>> \o s, Piece) = Within(<<Separator>>, Piece) \o Within(s, Piece)
    BY <1>0, <2>2, WithinConcat
  <2> QED
    BY <1>1, <2>1, <2>2, <2>3
<1> HIDE DEF Piece, Separator
<1>3. <<Separator>> \o s \in Seq(Int)
  BY <1>0
<1> QED
  BY <1>0, <1>1, <1>2, <1>3, UnseparatedIs

(* join: one text more is added behind a separator, if it is not the first. *)
LEMMA JoinedAppend ==
  ASSUME NEW ts \in Seq(Seq(Piece)), NEW x \in Seq(Piece)
  PROVE  /\ Joined(Append(ts, x)) = Joined(ts) \o (IF ts = <<>> THEN x ELSE <<Separator>> \o x)
         /\ Joined(ts) \in Seq(Int)
<1> DEFINE S == Seq(Piece)
           us == Append(ts, x)
           joint(s) == [i \in DOMAIN s |-> IF i = 1 THEN s[i] ELSE <<Separator>> \o s[i]]
           y == IF ts = <<>> THEN x ELSE <<Separator>> \o x
<1>1. PICK n \in Nat : n = Len(ts)
  OBVIOUS
<1>2. \A s \in S : s \in Seq(Int) /\ <<Separator>> \o s \in Seq(Int)
  BY UnseparatedPieces
<1> HIDE DEF S, Separator
<1>3. /\ DOMAIN ts = 1..n /\ (\A i \in 1..n : ts[i] \in S) /\ x \in S
      /\ DOMAIN us = 1..n + 1 /\ us[n + 1] = x /\ \A i \in 1..n : us[i] = ts[i]
  BY <1>1 DEF S
<1>4. n = 0 <=> ts = <<>>
  BY <1>1, EmptySeq
<1> HIDE DEF us
<1>5. y \in Seq(Int)
  BY <1>2, <1>3
<1>6. joint(ts) \in Seq(Seq(Int)) /\ Len(joint(ts)) = n
  <2>1. \A i \in 1..n : (IF i = 1 THEN ts[i] ELSE <<Separator>> \o ts[i]) \in Seq(Int)
    BY <1>2, <1>3
  <2> QED
    BY <1>3, <2>1
<1>7. joint(us) = Append(joint(ts), y)
  <2>1. PICK vs \in Seq(Seq(Int)) : vs = joint(ts) /\ Len(vs) = n
    BY <1>6
  <2>2. \A i \in 1..n : vs[i] = IF i = 1 THEN ts[i] ELSE <<Separator>> \o ts[i]
    BY <1>3, <2>1
  <2> HIDE DEF y
  <2>3. PICK ws : ws = Append(vs, y)
    OBVIOUS
  <2>4. ws \in Seq(Seq(Int)) /\ Len(ws) = n + 1 /\ ws[n + 1] = y /\ \A i \in 1..n : ws[i] = vs[i]
    BY <1>5, <2>1, <2>3
  <2>5. ws = [i \in 1..n + 1 |-> ws[i]]
    BY <2>4
  <2>6. \A i \in 1..n + 1 : ws[i] = IF i = 1 THEN us[i] ELSE <<Separator>> \o us[i]
    <3> TAKE i \in 1..n + 1
    <3>1. CASE i \in 1..n
      BY <1>3, <2>2, <2>4, <3>1
    <3>2. CASE i = n + 1
      <4>1. i = 1 <=> ts = <<>>
        BY <1>4, <3>2
      <4> QED
        BY <1>3, <2>4, <3>2, <4>1 DEF y
    <3> QED
      BY <3>1, <3>2
  <2>7. joint(us) = [i \in 1..n + 1 |-> IF i = 1 THEN us[i] ELSE <<Separator>> \o us[i]]
    BY <1>3
  <2>8. joint(us) = ws
    BY <2>5, <2>6, <2>7
  <2> QED
    BY <2>1, <2>3, <2>8
<1>8. /\ FlattenSeq(Append(joint(ts), y)) = FlattenSeq(joint(ts)) \o y
      /\ FlattenSeq(joint(ts)) \in Seq(Int)
  <2> HIDE DEF joint, y
  <2> QED
    BY <1>5, <1>6, FlattenAppend
<1>9. Joined(ts) = FlattenSeq(joint(ts)) /\ Joined(us) = FlattenSeq(joint(us))
  BY DEF Joined
<1> HIDE DEF joint, y
<1>10. Joined(us) = Joined(ts) \o y /\ Joined(ts) \in Seq(Int)
  BY <1>7, <1>8, <1>9
<1> QED
  BY <1>10 DEF us, y

(* Without its separators, what was joined is what was written.             *)
LEMMA UnseparatedJoined ==
  ASSUME NEW ts \in Seq(Seq(Piece)) PROVE Unseparated(Joined(ts)) = FlattenSeq(ts)
<1> DEFINE T == {us \in Seq(Seq(Piece)) : Unseparated(Joined(us)) = FlattenSeq(us)}
<1>1. <<>> \in T
  <2>1. [i \in DOMAIN <<>> |-> IF i = 1 THEN <<>>[i] ELSE <<Separator>> \o <<>>[i]] = <<>>
    OBVIOUS
  <2>2. Joined(<<>>) = <<>>
    BY <2>1, FlattenNothing DEF Joined
  <2>3. Unseparated(<<>>) = <<>>
    <3>1. <<>> \in Seq(Piece)
      OBVIOUS
    <3> QED
      BY <3>1, UnseparatedPieces
  <2> QED
    BY <2>2, <2>3, FlattenNothing
<1>2. ASSUME NEW us \in Seq(Seq(Piece)), us \in T, NEW x \in Seq(Piece)
      PROVE  Append(us, x) \in T
  <2>1. PICK y : y = IF us = <<>> THEN x ELSE <<Separator>> \o x
    OBVIOUS
  <2>2. y \in Seq(Int) /\ Unseparated(y) = x
    BY <2>1, UnseparatedPieces
  <2>3. Joined(Append(us, x)) = Joined(us) \o y /\ Joined(us) \in Seq(Int)
    BY <2>1, JoinedAppend
  <2>4. FlattenSeq(Append(us, x)) = FlattenSeq(us) \o x
    BY FlattenAppend
  <2>5. Joined(us) \o y \in Seq(Int)
    BY <2>2, <2>3
  <2> HIDE DEF Piece
  <2>6. Unseparated(Joined(us) \o y) = Unseparated(Joined(us)) \o Unseparated(y)
    <3>1. PICK J \in Seq(Int), K \in Seq(Int) : J = Joined(us) /\ K = Joined(us) \o y
      BY <2>3, <2>5
    <3>2. Within(J \o y, Piece) = Within(J, Piece) \o Within(y, Piece)
      BY <2>2, WithinConcat
    <3>3. /\ Unseparated(J) = Within(J, Piece) /\ Unseparated(K) = Within(K, Piece)
          /\ Unseparated(y) = Within(y, Piece)
      BY <2>2, UnseparatedIs
    <3> QED
      BY <3>1, <3>2, <3>3
  <2>7. Append(us, x) \in Seq(Seq(Piece))
    OBVIOUS
  <2> QED
    BY <1>2, <2>2, <2>3, <2>4, <2>6, <2>7
<1>3. ts \in T
  <2> HIDE DEF T
  <2> QED
    BY <1>1, <1>2, SeqInduction
<1> QED
  BY <1>3

LEMMA Filled ==
  ASSUME NEW ts \in Seq(Seq(Piece))
  PROVE  /\ Those(ts, LAMBDA t : t # <<>>) \in Seq(Seq(Piece))
         /\ FlattenSeq(Those(ts, LAMBDA t : t # <<>>)) = FlattenSeq(ts)
<1> DEFINE S == Seq(Piece)
           G == S \ {<<>>}
           T == {us \in Seq(S) : Within(us, G) \in Seq(S) /\ FlattenSeq(Within(us, G)) = FlattenSeq(us)}
<1>1. <<>> \in T
  <2>1. <<>> \in Seq(S) /\ Within(<<>>, G) = <<>>
    BY WithinNothing
  <2> QED
    BY <2>1
<1>2. ASSUME NEW us \in Seq(S), us \in T, NEW x \in S PROVE Append(us, x) \in T
  <2>1. Within(Append(us, x), G) = IF x \in G THEN Append(Within(us, G), x) ELSE Within(us, G)
    <3> HIDE DEF S, G
    <3> QED
      BY WithinAppend
  <2>2. PICK vs \in Seq(S) : vs = Within(us, G) /\ FlattenSeq(vs) = FlattenSeq(us)
    BY <1>2
  <2>3. /\ FlattenSeq(Append(vs, x)) = FlattenSeq(vs) \o x
        /\ FlattenSeq(Append(us, x)) = FlattenSeq(us) \o x /\ FlattenSeq(us) \in S
    BY FlattenAppend
  <2>4. Append(us, x) \in Seq(S) /\ Append(vs, x) \in Seq(S)
    <3> HIDE DEF S
    <3> QED
      OBVIOUS
  <2>5. CASE x \in G
    BY <2>1, <2>2, <2>3, <2>4, <2>5
  <2>6. CASE x \notin G
    <3>1. x = <<>>
      BY <2>6
    <3>2. FlattenSeq(us) \o <<>> = FlattenSeq(us)
      <4> HIDE DEF Piece
      <4> QED
        BY <2>3
    <3> QED
      BY <2>1, <2>2, <2>3, <2>4, <2>6, <3>1, <3>2
  <2> QED
    BY <2>5, <2>6
<1>3. ts \in T
  <2> HIDE DEF T, G, S
  <2>1. ts \in Seq(S)
    BY DEF S
  <2> QED
    BY <1>1, <1>2, <2>1, SeqInduction
<1>4. Those(ts, LAMBDA t : t # <<>>) = Within(ts, G)
  <2>1. \A i \in DOMAIN ts : ts[i] # <<>> <=> ts[i] \in G
    <3>1. \A i \in DOMAIN ts : ts[i] \in S
      <4> HIDE DEF Piece
      <4> QED
        OBVIOUS
    <3> QED
      BY <3>1
  <2> HIDE DEF G
  <2>2. [i \in DOMAIN ts |-> IF ts[i] # <<>> THEN <<ts[i]>> ELSE <<>>]
          = [i \in DOMAIN ts |-> IF ts[i] \in G THEN <<ts[i]>> ELSE <<>>]
    BY <2>1
  <2> QED
    BY <2>2 DEF Those, Within
<1> QED
  BY <1>3, <1>4

(* What was chosen of the blocks are blocks.                                *)
LEMMA BlocksWithin ==
  ASSUME NEW bs \in Seq(AnswerBlock), NEW G PROVE Within(bs, G) \in Seq(AnswerBlock)
<1>1. CASE AnswerBlock = {}
  <2>1. bs = <<>>
    BY <1>1, EmptySeq
  <2>2. <<>> \in Seq(AnswerBlock)
    OBVIOUS
  <2> QED
    BY <2>1, <2>2, WithinNothing
<1>2. CASE AnswerBlock # {}
  <2>1. PICK b \in AnswerBlock : TRUE
    BY <1>2
  <2> QED
    BY <2>1, WithinAppend
<1> QED
  BY <1>1, <1>2

LEMMA TextsAre ==
  ASSUME NEW ts \in Seq(AnswerBlock) PROVE Texts(ts) \in Seq(Seq(Piece))
<1>1. CASE AnswerBlock = {}
  <2>1. ts = <<>>
    BY <1>1, EmptySeq
  <2>2. Texts(<<>>) = <<>>
    BY DEF Texts
  <2>3. <<>> \in Seq(Seq(Piece))
    OBVIOUS
  <2> QED
    BY <2>1, <2>2, <2>3
<1>2. CASE AnswerBlock # {}
  <2>1. PICK b \in AnswerBlock : TRUE
    BY <1>2
  <2> QED
    BY <2>1, TextsAppend
<1> QED
  BY <1>1, <1>2

(* One text at most: all that is spoken is what the first one says.         *)
LEMMA OneSpoken ==
  ASSUME NEW bs \in Seq(AnswerBlock), NEW ts, ts = Within(bs, Typed("text")), Len(ts) <= 1
  PROVE  Spoken(bs) = IF ts = <<>> THEN <<>> ELSE Legible(ts[1].text)
<1>1. ts \in Seq(AnswerBlock)
  BY BlocksWithin
<1>2. CASE ts = <<>>
  <2>1. Texts(<<>>) = <<>>
    BY DEF Texts
  <2> QED
    BY <1>2, <2>1, FlattenNothing DEF Spoken
<1>3. CASE ts # <<>>
  <2>1. PICK b \in AnswerBlock : b = ts[1] /\ Len(ts) = 1 /\ ts = <<b>>
    <3> HIDE DEF AnswerBlock
    <3>1. PICK u \in Seq(AnswerBlock), b \in AnswerBlock : ts = Append(u, b)
      BY <1>1, <1>3, SequenceEmptyOrAppend
    <3>2. Len(ts) = Len(u) + 1 /\ Len(u) \in Nat
      BY <3>1
    <3>3. Len(u) = 0
      BY <3>2
    <3>4. u = <<>>
      BY <3>3, EmptySeq
    <3>5. ts = <<b>>
      BY <3>1, <3>4
    <3> QED
      BY <3>5
  <2>2. b.text \in Seq(Piece)
    BY BlockFields
  <2>3. PICK x \in Seq(Piece) : x = Legible(b.text)
    BY <2>2, IsWritten
  <2>4. Texts(ts) = <<x>>
    BY <2>1, <2>3 DEF Texts
  <2>5. FlattenSeq(<<x>>) = x
    <3>1. PICK none \in Seq(Seq(Piece)) : none = <<>>
      <4> DEFINE S == Seq(Piece)
      <4> HIDE DEF S
      <4>1. <<>> \in Seq(S)
        OBVIOUS
      <4> QED
        BY <4>1 DEF S
    <3>2. FlattenSeq(Append(none, x)) = FlattenSeq(none) \o x
      BY FlattenAppend
    <3>3. Append(none, x) = <<x>> /\ <<>> \o x = x
      <4> HIDE DEF Piece
      <4> QED
        BY <3>1
    <3> QED
      BY <3>1, <3>2, <3>3, FlattenNothing
  <2> QED
    BY <1>3, <2>1, <2>3, <2>4, <2>5 DEF Spoken
<1> QED
  BY <1>2, <1>3

(* One sequence begins another.                                             *)
LEMMA PrefixIs ==
  ASSUME NEW S, NEW s \in Seq(S), NEW t \in Seq(S), Len(s) <= Len(t),
         \A i \in 1..Len(s) : s[i] = t[i]
  PROVE  IsPrefix(s, t)
<1>1. PICK n \in Nat : n = Len(s)
  OBVIOUS
<1>2. SubSeq(s, 1, n) = [i \in 1..n |-> s[i]] /\ SubSeq(t, 1, n) = [i \in 1..n |-> t[i]]
  BY <1>1
<1> QED
  BY <1>1, <1>2 DEF IsPrefix

(* What the first text says begins what all of them say.                    *)
LEMMA FirstSpoken ==
  ASSUME NEW bs \in Seq(AnswerBlock), NEW ts, ts = Within(bs, Typed("text"))
  PROVE  IsPrefix(IF ts = <<>> THEN <<>> ELSE Legible(ts[1].text), Spoken(bs))
<1> DEFINE All(us) == FlattenSeq(Texts(us))
           first(us) == Legible(us[1].text)
           Begins(us) == /\ All(us) \in Seq(Piece)
                         /\ us # <<>> => /\ first(us) \in Seq(Piece) /\ Len(first(us)) <= Len(All(us))
                                         /\ \A i \in 1..Len(first(us)) : first(us)[i] = All(us)[i]
           T == {us \in Seq(AnswerBlock) : Begins(us)}
<1>0. Texts(<<>>) = <<>> /\ FlattenSeq(<<>>) = <<>>
  BY FlattenNothing DEF Texts
<1>1. <<>> \in T
  <2>1. <<>> \in Seq(AnswerBlock) /\ <<>> \in Seq(Piece)
    OBVIOUS
  <2> QED
    BY <1>0, <2>1
<1>2. ASSUME NEW us \in Seq(AnswerBlock), us \in T, NEW b \in AnswerBlock
      PROVE  Append(us, b) \in T
  <2>1. PICK all \in Seq(Piece) : all = All(us)
    BY <1>2
  <2>2. b.text \in Seq(Piece)
    BY BlockFields
  <2>3. PICK x \in Seq(Piece) : x = Legible(b.text)
    BY <2>2, IsWritten
  <2>4. All(Append(us, b)) = all \o x
    <3>1. Texts(Append(us, b)) = Append(Texts(us), x) /\ Texts(us) \in Seq(Seq(Piece))
      BY <2>3, TextsAppend
    <3>2. FlattenSeq(Append(Texts(us), x)) = FlattenSeq(Texts(us)) \o x
      BY <3>1, FlattenAppend
    <3> QED
      BY <2>1, <3>1, <3>2
  <2>5. Append(us, b) \in Seq(AnswerBlock)
    <3> HIDE DEF AnswerBlock
    <3> QED
      OBVIOUS
  <2>6. CASE us = <<>>
    <3>1. Append(us, b)[1] = b
      BY <2>6
    <3>2. all = <<>>
      BY <1>0, <2>1, <2>6
    <3>3. first(Append(us, b)) = x
      BY <2>3, <3>1
    <3>4. all \o x = x
      <4> HIDE DEF Piece
      <4> QED
        BY <3>2
    <3>5. PICK y : y = first(Append(us, b))
      OBVIOUS
    <3>6. PICK z : z = All(Append(us, b))
      OBVIOUS
    <3>7. y = x /\ z = x
      BY <2>4, <3>3, <3>4, <3>5, <3>6
    <3>8. y \in Seq(Piece) /\ z \in Seq(Piece) /\ Len(y) <= Len(z)
      <4> HIDE DEF Piece
      <4> QED
        BY <3>7
    <3> QED
      BY <2>5, <3>5, <3>6, <3>7, <3>8
  <2>7. CASE us # <<>>
    <3>1. PICK y \in Seq(Piece) : y = first(us)
      BY <1>2, <2>7
    <3>2. Len(y) <= Len(all) /\ \A i \in 1..Len(y) : y[i] = all[i]
      BY <1>2, <2>1, <2>7, <3>1
    <3>3. Append(us, b)[1] = us[1]
      <4> HIDE DEF AnswerBlock
      <4> QED
        BY <2>7
    <3>4. first(Append(us, b)) = y
      BY <3>1, <3>3
    <3>5. all \o x \in Seq(Piece) /\ Len(y) <= Len(all \o x)
          /\ \A i \in 1..Len(y) : y[i] = (all \o x)[i]
      <4> HIDE DEF Piece
      <4>1. PICK m \in Nat : m = Len(all)
        OBVIOUS
      <4>2. PICK n \in Nat : n = Len(x)
        OBVIOUS
      <4>3. all \o x \in Seq(Piece) /\ Len(all \o x) = m + n /\ \A i \in 1..m : (all \o x)[i] = all[i]
        BY <4>1, <4>2, ConcatProperties
      <4>4. PICK k \in Nat : k = Len(y)
        OBVIOUS
      <4>5. k <= m /\ \A i \in 1..k : i \in 1..m
        BY <3>2, <4>1, <4>4
      <4> QED
        BY <3>2, <4>3, <4>4, <4>5
    <3>6. PICK z : z = All(Append(us, b))
      OBVIOUS
    <3>7. z = all \o x
      BY <2>4, <3>6
    <3>8. PICK w : w = first(Append(us, b))
      OBVIOUS
    <3>9. w = y
      BY <3>4, <3>8
    <3> QED
      BY <2>5, <3>1, <3>5, <3>6, <3>7, <3>8, <3>9
  <2> QED
    BY <2>6, <2>7
<1>3. ts \in T
  <2>1. ts \in Seq(AnswerBlock)
    BY BlocksWithin
  <2> HIDE DEF T, AnswerBlock
  <2> QED
    BY <1>1, <1>2, <2>1, SeqInduction
<1>4. PICK all : all = Spoken(bs)
  OBVIOUS
<1>5. all = All(ts)
  BY <1>4 DEF Spoken
<1>6. PICK x : x = IF ts = <<>> THEN <<>> ELSE Legible(ts[1].text)
  OBVIOUS
<1>7. all \in Seq(Piece)
  BY <1>3, <1>5
<1>8. CASE ts = <<>>
  <2> HIDE DEF Piece
  <2>1. x = <<>> /\ <<>> \in Seq(Piece) /\ Len(<<>>) = 0 /\ Len(all) \in Nat
    BY <1>6, <1>7, <1>8
  <2>2. \A i \in 1..Len(x) : x[i] = all[i]
    BY <2>1
  <2>3. x \in Seq(Piece) /\ Len(x) <= Len(all)
    BY <2>1
  <2> QED
    BY <1>4, <1>6, <1>7, <2>2, <2>3, PrefixIs
<1>9. CASE ts # <<>>
  <2>1. x \in Seq(Piece) /\ Len(x) <= Len(all) /\ \A i \in 1..Len(x) : x[i] = all[i]
    BY <1>3, <1>5, <1>6, <1>9
  <2> QED
    BY <1>4, <1>6, <1>7, <2>1, PrefixIs
<1> QED
  BY <1>8, <1>9

(* The completions route streams the text that the chunks have.             *)
LEMMA TextOfChunks ==
  ASSUME NEW cs \in Seq(Chunk)
  PROVE  FlattenSeq([i \in DOMAIN cs |-> TextChunk(cs[i]).text]) = Content(cs)
<1>1. PICK part : \A c \in Chunk : /\ part[c] = TextChunk(c).text
                                   /\ part[c] = IF c.kind = "content" THEN <<c.val>> ELSE <<>>
                                   /\ part[c] \in Seq(Value)
  <2>1. PICK f : f = [c \in Chunk |-> TextChunk(c).text]
    OBVIOUS
  <2>2. ASSUME NEW c \in Chunk
        PROVE  /\ TextChunk(c).text = IF c.kind = "content" THEN <<c.val>> ELSE <<>>
               /\ TextChunk(c).text \in Seq(Value)
    <3>1. c.val \in Value
      <4> HIDE DEF Value
      <4> QED
        BY DEF Chunk
    <3> HIDE DEF Value, Chunk
    <3>2. TextChunk(c).text = IF c.kind = "content" THEN <<c.val>> ELSE <<>>
      BY DEF TextChunk
    <3> QED
      BY <3>1, <3>2
  <2> HIDE DEF Chunk, Value
  <2>3. \A c \in Chunk : f[c] = TextChunk(c).text
    BY <2>1
  <2> QED
    BY <2>2, <2>3
<1> DEFINE T == {es \in Seq(Chunk) : EachOf(es, part) = Content(es)}
<1>2. <<>> \in T
  <2>1. [i \in DOMAIN <<>> |-> part[<<>>[i]]] = <<>> /\ <<>> \in Seq(Chunk)
    OBVIOUS
  <2>2. EachOf(<<>>, part) = <<>>
    BY <2>1, FlattenNothing DEF EachOf
  <2> QED
    BY <2>1, <2>2, NothingRead
<1>3. ASSUME NEW es \in Seq(Chunk), es \in T, NEW c \in Chunk PROVE Append(es, c) \in T
  <2>1. EachOf(Append(es, c), part) = EachOf(es, part) \o part[c] /\ EachOf(es, part) \in Seq(Value)
    BY <1>1, EachAppend
  <2>2. Content(Append(es, c)) = IF c.kind = "content" THEN Append(Content(es), c.val) ELSE Content(es)
    BY ChunkAdds
  <2>3. Content(es) \in Seq(Value) /\ c.val \in Value
    <3>1. c.val \in Value
      <4> HIDE DEF Value
      <4> QED
        BY DEF Chunk
    <3> QED
      BY <3>1, ChunkTypes
  <2> HIDE DEF Value, Chunk
  <2>4. Content(es) \o <<c.val>> = Append(Content(es), c.val) /\ Content(es) \o <<>> = Content(es)
    BY <2>3, AppendIsConcat
  <2>5. Append(es, c) \in Seq(Chunk)
    OBVIOUS
  <2> QED
    BY <1>1, <1>3, <2>1, <2>2, <2>4, <2>5
<1>4. cs \in T
  <2> HIDE DEF T, Chunk
  <2> QED
    BY <1>2, <1>3, SeqInduction
<1>5. \A i \in DOMAIN cs : cs[i] \in Chunk
  <2> HIDE DEF Chunk
  <2> QED
    OBVIOUS
<1>6. [i \in DOMAIN cs |-> TextChunk(cs[i]).text] = [i \in DOMAIN cs |-> part[cs[i]]]
  BY <1>1, <1>5
<1> QED
  BY <1>4, <1>6 DEF EachOf

(* What each reader has of a whole answer.                                  *)

LEMMA PlainIs ==
  ASSUME NEW bs \in Seq(AnswerBlock), message.blocks = bs
  PROVE  /\ IsPrefix(AnthropicToOpenai.content, Spoken(bs))
         /\ OneText => AnthropicToOpenai.content = Spoken(bs)
         /\ Unseparated(AnthropicToOpenai.reasoning) = Thought(bs)
         /\ AnthropicToOpenai.details = Raws(bs)
         /\ AnthropicToOpenai.tools
              = [i \in DOMAIN Calls(bs) |-> CallOf(Calls(bs)[i], Original[Calls(bs)[i].name])]
         /\ AnthropicToOpenai.finish = ToFinishReason(message.stop)
         /\ AnthropicToOpenai.usage = BuildOpenAiUsage(message.usage, message.output)
<1>1. PICK ts, ks, hs, rs : /\ ts = Within(bs, Typed("text")) /\ ks = Within(bs, Typed("tool_use"))
                            /\ hs = Within(bs, Typed("thinking")) /\ rs = Within(bs, Thinks)
  OBVIOUS
<1>2. /\ OfType(bs, "text") = ts /\ OfType(bs, "tool_use") = ks /\ OfType(bs, "thinking") = hs
      /\ Thoughts(bs) = rs
  BY <1>1, TypedIs
<1>3. PICK c, r, d, k, f, u :
        /\ c = IF ts = <<>> THEN <<>> ELSE Legible(ts[1].text)
        /\ r = Joined(Texts(hs)) /\ d = [i \in DOMAIN rs |-> Raw(rs[i])]
        /\ k = [i \in DOMAIN ks |-> CallOf(ks[i], Original[ks[i].name])]
        /\ f = ToFinishReason(message.stop) /\ u = BuildOpenAiUsage(message.usage, message.output)
  OBVIOUS
<1>4. AnthropicToOpenai = [content |-> c, reasoning |-> r, details |-> d, tools |-> k,
                           finish |-> f, usage |-> u]
  BY <1>2, <1>3, Zenon DEF AnthropicToOpenai
<1>5. /\ AnthropicToOpenai.content = c /\ AnthropicToOpenai.reasoning = r
      /\ AnthropicToOpenai.details = d /\ AnthropicToOpenai.tools = k
      /\ AnthropicToOpenai.finish = f /\ AnthropicToOpenai.usage = u
  BY <1>4
<1>6. IsPrefix(c, Spoken(bs))
  BY <1>1, <1>3, FirstSpoken
<1>10. ASSUME OneText PROVE c = Spoken(bs)
  <2>1. Len(ts) <= 1
    BY <1>2, <1>10 DEF OneText
  <2> QED
    BY <1>1, <1>3, <2>1, OneSpoken
<1>7. Unseparated(r) = Thought(bs)
  <2>1. Texts(hs) \in Seq(Seq(Piece))
    BY <1>1, BlocksWithin, TextsAre
  <2>2. Unseparated(Joined(Texts(hs))) = FlattenSeq(Texts(hs))
    BY <2>1, UnseparatedJoined
  <2> QED
    BY <1>1, <1>3, <2>2 DEF Thought
<1>8. d = Raws(bs)
  BY <1>1, <1>3 DEF Raws
<1>9. ks = Calls(bs)
  BY <1>1 DEF Calls
<1> QED
  BY <1>3, <1>5, <1>6, <1>7, <1>8, <1>9, <1>10

LEMMA ShownIs ==
  ASSUME NEW bs \in Seq(AnswerBlock), NEW stop, NEW output, NEW usage,
         Reconstructed(events) = Has(bs, bs, stop, output, usage)
  PROVE  /\ ParseAnthropicSSEResponse.content = Spoken(bs)
         /\ Unseparated(ParseAnthropicSSEResponse.reasoning) = Thought(bs)
         /\ ParseAnthropicSSEResponse.details = Raws(bs)
         /\ ParseAnthropicSSEResponse.tools
              = [i \in DOMAIN Calls(bs) |-> CallOf(Calls(bs)[i], Calls(bs)[i].name)]
         /\ ParseAnthropicSSEResponse.stop = stop
         /\ ParseAnthropicSSEResponse.usage
              = [prompt |-> usage.input, completion |-> output, total |-> usage.input + output]
<1>1. PICK ts, ks, hs, rs : /\ ts = Within(bs, Typed("text")) /\ ks = Within(bs, Typed("tool_use"))
                            /\ hs = Within(bs, Typed("thinking")) /\ rs = Within(bs, Thinks)
  OBVIOUS
<1>2. /\ OfType(bs, "text") = ts /\ OfType(bs, "tool_use") = ks /\ OfType(bs, "thinking") = hs
      /\ Thoughts(bs) = rs
  BY <1>1, TypedIs
<1>3. PICK s : s = Reconstructed(events)
  OBVIOUS
<1>4. s.taken = bs /\ s.stop = stop /\ s.output = output /\ s.usage = usage
  BY <1>3 DEF Has
<1>5. PICK filled : filled = Those(Texts(hs), LAMBDA t : t # <<>>)
  OBVIOUS
<1>6. PICK c, r, d, k, u :
        /\ c = FlattenSeq(Texts(ts)) /\ r = Joined(filled)
        /\ d = [i \in DOMAIN rs |-> Raw(rs[i])]
        /\ k = [i \in DOMAIN ks |-> CallOf(ks[i], ks[i].name)]
        /\ u = [prompt |-> usage.input, completion |-> output, total |-> usage.input + output]
  OBVIOUS
<1>7. ParseAnthropicSSEResponse = [content |-> c, reasoning |-> r, details |-> d, tools |-> k,
                                   stop |-> stop, usage |-> u]
  BY <1>2, <1>3, <1>4, <1>5, <1>6, Zenon DEF ParseAnthropicSSEResponse
<1>8. /\ ParseAnthropicSSEResponse.content = c /\ ParseAnthropicSSEResponse.reasoning = r
      /\ ParseAnthropicSSEResponse.details = d /\ ParseAnthropicSSEResponse.tools = k
      /\ ParseAnthropicSSEResponse.stop = stop /\ ParseAnthropicSSEResponse.usage = u
  BY <1>7
<1>9. c = Spoken(bs)
  BY <1>1, <1>6 DEF Spoken
<1>10. Unseparated(r) = Thought(bs)
  <2>1. PICK xs \in Seq(Seq(Piece)) : xs = Texts(hs)
    BY <1>1, BlocksWithin, TextsAre
  <2>2. /\ Those(xs, LAMBDA t : t # <<>>) \in Seq(Seq(Piece))
        /\ FlattenSeq(Those(xs, LAMBDA t : t # <<>>)) = FlattenSeq(xs)
    BY Filled
  <2>3. filled \in Seq(Seq(Piece)) /\ FlattenSeq(filled) = FlattenSeq(Texts(hs))
    BY <1>5, <2>1, <2>2
  <2>4. Unseparated(Joined(filled)) = FlattenSeq(filled)
    BY <2>3, UnseparatedJoined
  <2> QED
    BY <1>1, <1>6, <2>3, <2>4 DEF Thought
<1>11. d = Raws(bs)
  BY <1>1, <1>6 DEF Raws
<1>12. ks = Calls(bs)
  BY <1>1 DEF Calls
<1> QED
  BY <1>6, <1>8, <1>9, <1>10, <1>11, <1>12

(* The reason and the usage are in the one chunk that closes the stream.    *)
LEMMA ClosingIs ==
  ASSUME NEW cs \in Seq(Chunk), NEW before \in Seq(Chunk), NEW c \in Chunk,
         cs = Append(before, c), c.kind = "finish", Finishes(before) = <<>>,
         relay.chunks = cs
  PROVE  /\ Last(Of("finish")).val = c.val
         /\ FlattenSeq([i \in DOMAIN cs |-> TextChunk(cs[i]).text]) = Content(cs)
         /\ TextStreamed = [text |-> Content(cs), finish |-> c.val.reason]
<1>1. PICK fs \in Seq(Chunk) : fs = Within(before, OfKind("finish"))
  BY WithinAppend
<1>2. c \in OfKind("finish")
  BY DEF OfKind
<1>3. Of("finish") = Append(fs, c)
  <2>1. Of("finish") = Within(cs, OfKind("finish"))
    BY ChunksAre
  <2>2. Within(Append(before, c), OfKind("finish")) = Append(fs, c)
    BY <1>1, <1>2, WithinAppend
  <2> QED
    BY <2>1, <2>2
<1> HIDE DEF Chunk
<1>4. Last(Append(fs, c)) = c
  <2>1. /\ Len(Append(fs, c)) = Len(fs) + 1 /\ Append(fs, c)[Len(fs) + 1] = c
    OBVIOUS
  <2> QED
    BY <2>1 DEF Last
<1>5. PICK n \in Nat : n = Len(before)
  OBVIOUS
<1>6. Len(cs) = n + 1 /\ cs[n + 1] = c /\ DOMAIN cs = 1..n + 1
  BY <1>5
<1>7. PICK es : es = [i \in DOMAIN cs |-> TextChunk(cs[i])]
  OBVIOUS
<1>8. Len(es) = n + 1 /\ es[n + 1] = TextChunk(c) /\ DOMAIN es = DOMAIN cs
  BY <1>6, <1>7
<1>9. FlattenSeq([i \in DOMAIN cs |-> TextChunk(cs[i]).text]) = Content(cs)
  BY TextOfChunks
<1>10. [i \in DOMAIN es |-> es[i].text] = [i \in DOMAIN cs |-> TextChunk(cs[i]).text]
  BY <1>7, <1>8
<1>11. es[n + 1].finish = c.val.reason
  BY <1>8 DEF TextChunk
<1>12. TextStreamed = [text |-> FlattenSeq([i \in DOMAIN es |-> es[i].text]),
                       finish |-> es[Len(es)].finish]
  BY <1>7 DEF TextStreamed
<1> QED
  BY <1>3, <1>4, <1>8, <1>9, <1>10, <1>11, <1>12

(* A call as the chunks tell it.                                            *)
StreamedCall(b) == [id |-> b.id, name |-> Original[b.name], args |-> Legible(b.text)]

LEMMA StreamedIs ==
  ASSUME NEW bs \in Seq(AnswerBlock), NEW cs \in Seq(Chunk), relay.chunks = cs, Told(bs, bs, cs)
  PROVE  /\ Assembled.content = Spoken(bs)
         /\ Assembled.reasoning = Thought(bs)
         /\ Assembled.details = Raws(bs)
         /\ Assembled.tools
              = [i \in DOMAIN Calls(bs) |-> StreamedCall(Calls(bs)[i])]
         /\ Assembled.finish = Last(Of("finish")).val.reason
         /\ Assembled.usage = Last(Of("finish")).val.usage
<1>1. PICK made \in Seq(Chunk) : made = Tools(cs)
  BY ChunkTypes
<1>2. /\ Of("tool") = made /\ Vals(Of("content")) = Content(cs)
      /\ Vals(Of("reasoning")) = Reasoning(cs) /\ Vals(Of("details")) = Details(cs)
      /\ \A at : Vals(ArgsAt(at)) = ArgsOf(cs, at)
  BY <1>1, ChunksAre DEF Tools, Content, Reasoning, Details, ArgsOf
<1> DEFINE told == Of("tool")
           args(i) == Vals(ArgsAt(told[i].at))
<1>3. PICK k : k = [i \in DOMAIN told |->
                      [id |-> told[i].val.id, name |-> told[i].val.name, args |-> args(i)]]
  OBVIOUS
<1>4. PICK c, r, d, f : /\ c = Vals(Of("content")) /\ r = Legible(Vals(Of("reasoning")))
                        /\ d = Vals(Of("details")) /\ f = Last(Of("finish")).val
  OBVIOUS
<1>5. Assembled = [content |-> c, reasoning |-> r, details |-> d, tools |-> k,
                  finish |-> f.reason, usage |-> f.usage]
  BY <1>3, <1>4, Zenon DEF Assembled
<1>6. /\ Assembled.content = c /\ Assembled.reasoning = r /\ Assembled.details = d
      /\ Assembled.tools = k /\ Assembled.finish = f.reason /\ Assembled.usage = f.usage
  BY <1>5
<1>7. c = Spoken(bs) /\ r = Thought(bs) /\ d = Raws(bs)
  BY <1>2, <1>4 DEF Told
<1>8. PICK calls \in Seq(AnswerBlock) : calls = Calls(bs)
  BY BlocksWithin DEF Calls
<1>9. CallsTold(calls, made, cs)
  BY <1>1, <1>8 DEF Told
<1>10. k = [i \in DOMAIN calls |-> StreamedCall(calls[i])]
  <2>1. k = [i \in DOMAIN made |->
               [id |-> made[i].val.id, name |-> made[i].val.name, args |-> ArgsOf(cs, made[i].at)]]
    BY <1>2, <1>3
  <2>2. DOMAIN made = DOMAIN calls /\ DOMAIN calls = 1..Len(calls)
    <3> HIDE DEF AnswerBlock, Chunk
    <3> QED
      BY <1>9 DEF CallsTold
  <2> HIDE DEF AnswerBlock, Chunk
  <2>3. ASSUME NEW i \in DOMAIN calls
        PROVE  [id |-> made[i].val.id, name |-> made[i].val.name,
                args |-> ArgsOf(cs, made[i].at)] = StreamedCall(calls[i])
    <3>1. /\ made[i].at = i - 1
          /\ made[i].val = [id |-> calls[i].id, name |-> Original[calls[i].name]]
          /\ ArgsOf(cs, i - 1) = Legible(calls[i].text)
      BY <1>9, <2>2 DEF CallsTold
    <3>2. made[i].val.id = calls[i].id /\ made[i].val.name = Original[calls[i].name]
      BY <3>1
    <3>3. ArgsOf(cs, made[i].at) = Legible(calls[i].text)
      BY <3>1
    <3> QED
      BY <3>2, <3>3 DEF StreamedCall
  <2> QED
    BY <2>1, <2>2, <2>3
<1> QED
  BY <1>4, <1>6, <1>7, <1>8, <1>10

LEMMA AgreedAnswers == AnswerInv => AnswersAgree
<1> SUFFICES ASSUME AnswerInv, Ended PROVE AnswersAgree
  BY DEF AnswersAgree
<1>1. PICK bs \in Seq(AnswerBlock) : Agreed(bs)
  BY DEF AnswerInv
<1>2. WellTyped
  BY DEF AnswerInv
<1>3. PICK cs \in Seq(Chunk) : cs = relay.chunks
  BY <1>2, RelayFields DEF WellTyped
<1>4. message.blocks = bs
  BY <1>1 DEF Agreed, EndTold, Split, Ended
<1>5. Told(bs, bs, cs)
  BY <1>1, <1>3, <1>4 DEF Agreed
<1>6. Reconstructed(events) = Has(bs, bs, message.stop, message.output, message.usage)
  BY <1>1, <1>4 DEF Agreed
<1>7. PICK before \in Seq(Chunk) :
        cs = Append(before, ChunkOf("finish", 0, Closed(message), "none")) /\ Finishes(before) = <<>>
  BY <1>1, <1>3 DEF Agreed, EndTold, Ended
<1>8. PICK c : c = ChunkOf("finish", 0, Closed(message), "none")
  OBVIOUS
<1>9. c.kind = "finish" /\ c.val = Closed(message)
  BY <1>8 DEF ChunkOf
<1>10. c \in Chunk
  <2> HIDE DEF Chunk
  <2>1. PICK n \in Nat : n = Len(before)
    OBVIOUS
  <2>2. Len(cs) = n + 1 /\ cs[n + 1] = c
    BY <1>7, <1>8, <2>1
  <2> QED
    BY <2>2
<1>11. Last(Of("finish")).val = c.val /\ TextStreamed = [text |-> Content(cs), finish |-> c.val.reason]
  BY <1>3, <1>7, <1>8, <1>9, <1>10, ClosingIs
<1>12. /\ c.val.reason = ToFinishReason(message.stop)
       /\ c.val.usage = BuildOpenAiUsage(message.usage, message.output)
  BY <1>9 DEF Closed
<1> DEFINE plain == AnthropicToOpenai
           streamed == Assembled
           shown == ParseAnthropicSSEResponse
<1>13. /\ IsPrefix(plain.content, Spoken(bs))
       /\ OneText => plain.content = Spoken(bs)
       /\ Unseparated(plain.reasoning) = Thought(bs)
       /\ plain.details = Raws(bs)
       /\ plain.tools = [i \in DOMAIN Calls(bs) |-> CallOf(Calls(bs)[i], Original[Calls(bs)[i].name])]
       /\ plain.finish = ToFinishReason(message.stop)
       /\ plain.usage = BuildOpenAiUsage(message.usage, message.output)
  BY <1>4, PlainIs
<1>14. /\ shown.content = Spoken(bs) /\ Unseparated(shown.reasoning) = Thought(bs)
       /\ shown.details = Raws(bs)
       /\ shown.tools = [i \in DOMAIN Calls(bs) |-> CallOf(Calls(bs)[i], Calls(bs)[i].name)]
       /\ shown.stop = message.stop
       /\ shown.usage = [prompt |-> message.usage.input, completion |-> message.output,
                         total |-> message.usage.input + message.output]
  BY <1>6, ShownIs
<1>15. /\ streamed.content = Spoken(bs) /\ streamed.reasoning = Thought(bs)
       /\ streamed.details = Raws(bs)
       /\ streamed.tools = [i \in DOMAIN Calls(bs) |-> StreamedCall(Calls(bs)[i])]
       /\ streamed.finish = ToFinishReason(message.stop)
       /\ streamed.usage = BuildOpenAiUsage(message.usage, message.output)
  BY <1>3, <1>5, <1>11, <1>12, StreamedIs
<1> HIDE DEF plain, streamed, shown
<1>16. [i \in DOMAIN shown.tools |-> [shown.tools[i] EXCEPT !.name = Original[@]]] = plain.tools
  <2>1. PICK calls : calls = Calls(bs)
    OBVIOUS
  <2>2. ASSUME NEW b PROVE [CallOf(b, b.name) EXCEPT !.name = Original[@]] = CallOf(b, Original[b.name])
    <3>1. PICK x, y, z : x = b.id /\ y = Arguments(b) /\ z = Original[b.name]
      OBVIOUS
    <3>2. CallOf(b, b.name) = [id |-> x, name |-> b.name, args |-> y]
      BY <3>1 DEF CallOf
    <3>3. [CallOf(b, b.name) EXCEPT !.name = Original[@]] = [CallOf(b, b.name) EXCEPT !.name = z]
      BY <3>1, <3>2
    <3>4. [CallOf(b, b.name) EXCEPT !.name = z] = [id |-> x, name |-> z, args |-> y]
      BY <3>2
    <3> QED
      BY <3>1, <3>3, <3>4 DEF CallOf
  <2>3. PICK k : k = shown.tools
    OBVIOUS
  <2>4. DOMAIN k = DOMAIN calls /\ \A i \in DOMAIN calls : k[i] = CallOf(calls[i], calls[i].name)
    BY <1>14, <2>1, <2>3
  <2>5. \A i \in DOMAIN calls : [k[i] EXCEPT !.name = Original[@]] = CallOf(calls[i], Original[calls[i].name])
    BY <2>2, <2>4
  <2> QED
    BY <1>13, <2>1, <2>3, <2>4, <2>5
<1>17. TextStreamed.text = Spoken(bs) /\ TextStreamed.finish = ReshapeToTextCompletion.finish
  <2>1. Content(cs) = Spoken(bs)
    BY <1>5 DEF Told
  <2> QED
    BY <1>11, <1>12, <1>13, <2>1 DEF ReshapeToTextCompletion, plain
<1>18. Len(Those(relay.chunks, LAMBDA x : x.role = "assistant")) <= 1
  <2>1. Those(relay.chunks, LAMBDA x : x.role = "assistant") = Roles(cs)
    BY <1>3, ChunksAre
  <2>2. Len(Roles(cs)) <= 1
    BY <1>1, <1>3 DEF Agreed
  <2> QED
    BY <2>1, <2>2
<1>19. /\ shown.usage.prompt = plain.usage.prompt /\ shown.usage.total = plain.usage.total
       /\ shown.usage.completion = plain.usage.completion
  BY <1>13, <1>14 DEF BuildOpenAiUsage
<1>20. [i \in DOMAIN streamed.tools |->
         [streamed.tools[i] EXCEPT !.args = IF @ = <<>> THEN NoInput ELSE @]] = plain.tools
  <2>1. PICK calls : calls = Calls(bs)
    OBVIOUS
  <2>2. ASSUME NEW b
        PROVE  [StreamedCall(b) EXCEPT !.args = IF @ = <<>> THEN NoInput ELSE @]
                 = CallOf(b, Original[b.name])
    <3>1. PICK x, y, z : x = b.id /\ y = Legible(b.text) /\ z = Original[b.name]
      OBVIOUS
    <3>2. StreamedCall(b) = [id |-> x, name |-> z, args |-> y]
      BY <3>1 DEF StreamedCall
    <3>3. PICK whole : whole = IF y = <<>> THEN NoInput ELSE y
      OBVIOUS
    <3>4. [StreamedCall(b) EXCEPT !.args = IF @ = <<>> THEN NoInput ELSE @]
            = [id |-> x, name |-> z, args |-> whole]
      BY <3>2, <3>3
    <3>5. CallOf(b, Original[b.name]) = [id |-> x, name |-> z, args |-> whole]
      BY <3>1, <3>3 DEF CallOf, Arguments
    <3> QED
      BY <3>4, <3>5
  <2>3. PICK k : k = streamed.tools
    OBVIOUS
  <2>4. DOMAIN k = DOMAIN calls /\ \A i \in DOMAIN calls : k[i] = StreamedCall(calls[i])
    BY <1>15, <2>1, <2>3
  <2>5. \A i \in DOMAIN calls :
          [k[i] EXCEPT !.args = IF @ = <<>> THEN NoInput ELSE @] = CallOf(calls[i], Original[calls[i].name])
    BY <2>2, <2>4
  <2> QED
    BY <1>13, <2>1, <2>3, <2>4, <2>5
<1>21. /\ streamed.content = shown.content /\ TextStreamed.text = shown.content
       /\ IsPrefix(plain.content, streamed.content)
       /\ OneText => plain.content = streamed.content
  BY <1>13, <1>14, <1>15, <1>17
<1>22. /\ streamed.reasoning = Unseparated(plain.reasoning)
       /\ Unseparated(shown.reasoning) = streamed.reasoning
       /\ streamed.details = plain.details /\ shown.details = plain.details
       /\ streamed.finish = plain.finish /\ ToFinishReason(shown.stop) = plain.finish
       /\ streamed.usage = plain.usage
  BY <1>13, <1>14, <1>15
<1> QED
  BY <1>16, <1>17, <1>18, <1>19, <1>20, <1>21, <1>22, Zenon
  DEF AnswersAgree, plain, streamed, shown

LEMMA WithinLength ==
  ASSUME NEW bs \in Seq(AnswerBlock), NEW G
  PROVE  Len(Within(bs, G)) \in Nat /\ Len(Within(bs, G)) <= Len(bs)
<1> DEFINE T == {cs \in Seq(AnswerBlock) : Len(Within(cs, G)) <= Len(cs)}
<1>1. <<>> \in T
  <2>1. <<>> \in Seq(AnswerBlock) /\ Len(<<>>) <= Len(<<>>)
    OBVIOUS
  <2> QED
    BY <2>1, WithinNothing
<1>2. ASSUME NEW cs \in Seq(AnswerBlock), cs \in T, NEW b \in AnswerBlock PROVE Append(cs, b) \in T
  <2>1. Within(Append(cs, b), G) = IF b \in G THEN Append(Within(cs, G), b) ELSE Within(cs, G)
    BY WithinAppend
  <2>2. PICK ds \in Seq(AnswerBlock) : ds = Within(cs, G)
    BY BlocksWithin
  <2> HIDE DEF AnswerBlock
  <2>3. /\ Len(Append(ds, b)) = Len(ds) + 1 /\ Len(Append(cs, b)) = Len(cs) + 1
        /\ Len(ds) \in Nat /\ Len(cs) \in Nat /\ Append(cs, b) \in Seq(AnswerBlock)
    OBVIOUS
  <2> QED
    BY <1>2, <2>1, <2>2, <2>3
<1>3. bs \in T
  <2> HIDE DEF T
  <2> QED
    BY <1>1, <1>2, SeqInduction
<1>4. PICK ds \in Seq(AnswerBlock) : ds = Within(bs, G)
  BY BlocksWithin
<1>5. Len(ds) \in Nat
  <2> HIDE DEF AnswerBlock
  <2> QED
    OBVIOUS
<1> QED
  BY <1>3, <1>4, <1>5

LEMMA AnswerTypes == AnswerConstantsOK /\ AnswerInv => AnswerTypeOK
<1> SUFFICES ASSUME AnswerConstantsOK, AnswerInv PROVE AnswerTypeOK
  OBVIOUS
<1>1. PICK done \in Seq(AnswerBlock) : Agreed(done)
  BY DEF AnswerInv
<1>2. WellTyped
  BY DEF AnswerInv
<1>3. message.blocks \in Seq(AnswerBlock) /\ message.stop \in StopOrNone
  BY <1>2, MessageHas DEF WellTyped
<1>4. relay.active.type \in ActiveType
  <2>1. relay.active \in ActiveBlock
    BY <1>2, RelayFields DEF WellTyped
  <2> HIDE DEF ActiveType, Piece
  <2> QED
    BY <2>1 DEF ActiveBlock
<1>5. relay.toolIndex \in -1..MaxBlocks - 1
  <2>1. Len(Calls(message.blocks)) \in Nat /\ Len(Calls(message.blocks)) <= Len(message.blocks)
    BY <1>3, WithinLength DEF Calls
  <2>2. Len(message.blocks) \in Nat
    <3> HIDE DEF AnswerBlock
    <3> QED
      BY <1>3
  <2>3. relay.toolIndex = Len(Calls(message.blocks)) - 1 /\ Len(message.blocks) <= MaxBlocks
    BY <1>1, <1>2 DEF Agreed, WellTyped
  <2>4. MaxBlocks \in Nat
    BY DEF AnswerConstantsOK
  <2> QED
    BY <2>1, <2>2, <2>3, <2>4
<1> QED
  BY <1>2, <1>3, <1>4, <1>5 DEF AnswerTypeOK, WellTyped, StopOrNone, ActiveType

(* The counts of an answer stay within their bounds at every step, and what *)
(* processEvent (src/transform/streaming.ts) keeps is as it should be: the  *)
(* index of the last call, and no block open but one of thinking.           *)
THEOREM AnswerTypeCorrect == AnswerConstantsOK => (AnswerSpec => []AnswerTypeOK)
<1> SUFFICES ASSUME AnswerConstantsOK PROVE AnswerSpec => []AnswerTypeOK
  OBVIOUS
<1>1. AnswerInit => AnswerInv
  BY AnswerStarts
<1>2. AnswerInv /\ [AnswerNext]_answerVars => AnswerInv'
  BY AnswerKeeps
<1>3. AnswerInv => AnswerTypeOK
  BY AnswerTypes
<1> QED
  BY <1>1, <1>2, <1>3, PTL DEF AnswerSpec

(* A whole answer is the same to whoever reads it: processEvent's stream    *)
(* (src/transform/streaming.ts), anthropicToOpenai's response, the          *)
(* completions route and the dashboard's reconstruction                     *)
(* (src/ui/src/lib/sse-parser.ts), for every tool map and every bound; but  *)
(* for the differences that AnswersAgree names: the first of several texts, *)
(* "" for {}, wire names and separators.                                    *)
THEOREM AnswersAlwaysAgree == AnswerConstantsOK => (AnswerSpec => []AnswersAgree)
<1> SUFFICES ASSUME AnswerConstantsOK PROVE AnswerSpec => []AnswersAgree
  OBVIOUS
<1>1. AnswerInit => AnswerInv
  BY AnswerStarts
<1>2. AnswerInv /\ [AnswerNext]_answerVars => AnswerInv'
  BY AnswerKeeps
<1>3. AnswerInv => AnswersAgree
  BY AgreedAnswers
<1> QED
  BY <1>1, <1>2, <1>3, PTL DEF AnswerSpec
=============================================================================
