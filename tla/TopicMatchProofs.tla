-------------------------- MODULE TopicMatchProofs --------------------------
(***************************************************************************)
(* Proofs about TopicMatch: what the two loops over the levels of a name   *)
(* decide, for filters and topics of every length and over any words.      *)
(***************************************************************************)
EXTENDS MCTopicMatch, WellFoundedInduction, TLAPS

-----------------------------------------------------------------------------
(* Induction over the natural numbers, on sets of them. *)

\* Every non-empty set of natural numbers has a least element.
LEMMA LeastElement ==
    ASSUME NEW S \in SUBSET Nat, S # {}
    PROVE  \E m \in S : \A k \in S : m <= k
<1> DEFINE Less == OpToRel(<, Nat)
<1>1. IsWellFoundedOn(Less, Nat)
  BY NatLessThanWellFounded
<1>2. \A i, j \in Nat : i < j => <<i, j>> \in Less
  BY DEF OpToRel
<1> HIDE DEF Less
<1>3. \E m \in S : \A k \in S : ~(<<k, m>> \in Less)
  BY <1>1, WFMin
<1>4. PICK m \in S : \A k \in S : ~(<<k, m>> \in Less)
  BY <1>3
<1>5. ASSUME NEW k \in S PROVE m <= k
  <2>1. m \in Nat /\ k \in Nat /\ ~(k < m)
    BY <1>2, <1>4
  <2> QED BY <2>1
<1> QED BY <1>5

\* Induction: a set of natural numbers that holds 0 and is closed under
\* successor holds them all.
LEMMA SetInduction ==
    ASSUME NEW P \in SUBSET Nat, 0 \in P, \A n \in P : n + 1 \in P
    PROVE  P = Nat
<1> SUFFICES ASSUME P # Nat PROVE FALSE
  OBVIOUS
<1>1. Nat \ P \in SUBSET Nat /\ Nat \ P # {}
  OBVIOUS
<1>2. PICK m \in Nat \ P : \A k \in Nat \ P : m <= k
  <2>1. \E m \in Nat \ P : \A k \in Nat \ P : m <= k
    BY <1>1, LeastElement
  <2> QED BY <2>1
<1>3. m # 0 /\ m - 1 \in Nat /\ m - 1 < m
  BY <1>2
<1>4. m - 1 \in P
  BY <1>2, <1>3
<1>5. (m - 1) + 1 = m
  BY <1>2
<1> QED BY <1>2, <1>4, <1>5

-----------------------------------------------------------------------------
(* tokenize. *)

KeptUpTo(name, g, n) ==
    g = [i \in 0..n |-> IF i = 0 THEN <<>>
                        ELSE IF IsToken(name[i]) THEN Append(g[i - 1], name[i]) ELSE g[i - 1]]

\* tokenize is defined by recursion over the name: what it keeps of the first n
\* pieces exists for every n,
LEMMA KeptExists ==
    ASSUME NEW name, NEW n \in Nat
    PROVE  \E g : KeptUpTo(name, g, n)
<1> DEFINE P == {k \in Nat : \E g : KeptUpTo(name, g, k)}
<1>1. 0 \in P
  <2> DEFINE g0 == [i \in 0..0 |-> <<>>]
  <2>1. KeptUpTo(name, g0, 0)
    BY DEF KeptUpTo
  <2> QED BY <2>1
<1>2. ASSUME NEW k \in P PROVE k + 1 \in P
  <2>1. PICK g : KeptUpTo(name, g, k)
    OBVIOUS
  <2> DEFINE new == IF IsToken(name[k + 1]) THEN Append(g[k], name[k + 1]) ELSE g[k]
             h == [i \in 0..(k + 1) |-> IF i = k + 1 THEN new ELSE g[i]]
  <2>2. KeptUpTo(name, h, k + 1)
    <3>1. k \in Nat /\ g = [i \in 0..k |-> IF i = 0 THEN <<>>
                        ELSE IF IsToken(name[i]) THEN Append(g[i - 1], name[i]) ELSE g[i - 1]]
      BY <2>1 DEF KeptUpTo
    <3>2. ASSUME NEW i \in 0..(k + 1)
          PROVE  h[i] = IF i = 0 THEN <<>>
                        ELSE IF IsToken(name[i]) THEN Append(h[i - 1], name[i]) ELSE h[i - 1]
      <4>1. CASE i = k + 1
        <5>1. h[i] = new /\ h[i - 1] = g[k] /\ i # 0
          BY <3>1, <4>1
        <5> QED BY <4>1, <5>1
      <4>2. CASE i # k + 1
        <5>1. i \in 0..k /\ h[i] = g[i] /\ (i # 0 => h[i - 1] = g[i - 1])
          BY <3>1, <4>2
        <5>2. g[i] = IF i = 0 THEN <<>>
                     ELSE IF IsToken(name[i]) THEN Append(g[i - 1], name[i]) ELSE g[i - 1]
          BY <3>1, <5>1
        <5> QED BY <5>1, <5>2
      <4> QED BY <4>1, <4>2
    <3> HIDE DEF new
    <3>3. h = [i \in 0..(k + 1) |-> h[i]]
      OBVIOUS
    <3> HIDE DEF h
    <3> QED BY <3>2, <3>3 DEF KeptUpTo
  <2> HIDE DEF h, new
  <2> QED BY <2>2
<1>3. P = Nat
  <2> HIDE DEF P
  <2>1. P \in SUBSET Nat
    BY DEF P
  <2> QED BY <1>1, <1>2, <2>1, SetInduction
<1> QED BY <1>3

Kept(name, n) == CHOOSE g : KeptUpTo(name, g, n)

LEMMA KeptIs ==
    ASSUME NEW name, NEW n \in Nat
    PROVE  KeptUpTo(name, Kept(name, n), n)
BY KeptExists DEF Kept

LEMMA TokenizeIs ==
    ASSUME NEW name, Len(name) \in Nat
    PROVE  tokenize(name) = Kept(name, Len(name))[Len(name)]
BY DEF tokenize, Kept, KeptUpTo

\* and depends on these pieces only.
LEMMA KeptAgree ==
    ASSUME NEW s, NEW t, NEW n \in Nat, NEW m \in Nat,
           \A i \in 1..n : s[i] = t[i], n <= m
    PROVE  \A i \in 0..n : Kept(s, n)[i] = Kept(t, m)[i]
<1> DEFINE P == {k \in Nat : k <= n => Kept(s, n)[k] = Kept(t, m)[k]}
<1>1. KeptUpTo(s, Kept(s, n), n) /\ KeptUpTo(t, Kept(t, m), m)
  BY KeptIs
<1>2. 0 \in P
  BY <1>1 DEF KeptUpTo
<1>3. ASSUME NEW k \in P PROVE k + 1 \in P
  <2>1. SUFFICES ASSUME k + 1 <= n PROVE Kept(s, n)[k + 1] = Kept(t, m)[k + 1]
    OBVIOUS
  <2>2. k \in Nat /\ Kept(s, n)[k] = Kept(t, m)[k]
    BY <2>1
  <2>3. k + 1 \in 0..n /\ k + 1 \in 0..m /\ k + 1 # 0 /\ (k + 1) - 1 = k /\ s[k + 1] = t[k + 1]
    BY <2>1
  <2>4. Kept(s, n)[k + 1] = IF IsToken(s[k + 1]) THEN Append(Kept(s, n)[k], s[k + 1]) ELSE Kept(s, n)[k]
    BY <1>1, <2>3 DEF KeptUpTo
  <2>5. Kept(t, m)[k + 1] = IF IsToken(t[k + 1]) THEN Append(Kept(t, m)[k], t[k + 1]) ELSE Kept(t, m)[k]
    BY <1>1, <2>3 DEF KeptUpTo
  <2> QED BY <2>2, <2>3, <2>4, <2>5
<1>4. P = Nat
  <2> HIDE DEF P
  <2>1. P \in SUBSET Nat
    BY DEF P
  <2> QED BY <1>2, <1>3, <2>1, SetInduction
<1> QED BY <1>4

LEMMA TokenizeEmpty == tokenize(<<>>) = <<>>
<1>1. Len(<<>>) = 0
  OBVIOUS
<1> QED BY <1>1, TokenizeIs, KeptIs DEF KeptUpTo

\* tokenize, piece by piece.
LEMMA TokenizeAppend ==
    ASSUME NEW W, NEW name \in Seq(W), NEW x
    PROVE  tokenize(Append(name, x))
           = IF IsToken(x) THEN Append(tokenize(name), x) ELSE tokenize(name)
<1> DEFINE n == Len(name)
           t == Append(name, x)
<1>1. n \in Nat /\ Len(t) = n + 1 /\ t[n + 1] = x /\ \A i \in 1..n : name[i] = t[i]
  OBVIOUS
<1> HIDE DEF n, t
<1>2. Kept(name, n)[n] = Kept(t, n + 1)[n]
  BY <1>1, KeptAgree
<1>3. Kept(t, n + 1)[n + 1] = IF IsToken(t[n + 1]) THEN Append(Kept(t, n + 1)[n], t[n + 1]) ELSE Kept(t, n + 1)[n]
  <2>1. n + 1 \in 0..(n + 1) /\ n + 1 # 0 /\ (n + 1) - 1 = n
    BY <1>1
  <2>2. KeptUpTo(t, Kept(t, n + 1), n + 1)
    BY <1>1, KeptIs
  <2> QED BY <2>1, <2>2 DEF KeptUpTo
<1>4. tokenize(t) = Kept(t, n + 1)[n + 1] /\ tokenize(name) = Kept(name, n)[n]
  BY <1>1, TokenizeIs DEF n
<1> QED BY <1>1, <1>2, <1>3, <1>4 DEF t

-----------------------------------------------------------------------------
(* The loop of Client::checkWildCards. *)

\* The levels before i that the walk passes are levels the filter covers.
LEMMA LivePassed ==
    ASSUME NEW W, NEW f \in Seq(W), NEW t \in Seq(W), NEW i \in Nat \ {0}, LiveReaches(f, t, i)
    PROVE  i <= Len(f) + 1 /\ Covers(f, t, i - 1)
<1>1. \A j \in 1..(i - 1) : j <= Len(f) /\ f[j] \in {"+", t[j]}
  BY DEF LiveReaches, LivePasses
<1>2. i <= Len(f) + 1
  <2>1. CASE i = 1
    BY <2>1
  <2>2. CASE i # 1
    BY <1>1, <2>2
  <2> QED BY <2>1, <2>2
<1> QED BY <1>1, <1>2 DEF Covers

\* And the walk passes every level that the filter covers.
LEMMA LivePassing ==
    ASSUME NEW W, NEW f \in Seq(W), NEW t \in Seq(W), IsTopic(t), NEW i \in Nat \ {0},
           i <= Len(f) + 1, i <= Len(t) + 1, Covers(f, t, i - 1)
    PROVE  LiveReaches(f, t, i)
<1> SUFFICES ASSUME NEW j \in 1..(i - 1) PROVE LivePasses(f, t, j)
  BY DEF LiveReaches
<1>1. j \in 1..Len(f) /\ j \in 1..Len(t)
  OBVIOUS
<1>2. f[j] \in {"+", t[j]} /\ t[j] # "#"
  BY <1>1 DEF Covers, IsTopic
<1> QED BY <1>1, <1>2 DEF LivePasses

LEMMA LiveWalkMatches ==
    ASSUME NEW W, NEW f \in Seq(W), NEW t \in Seq(W), IsFilter(f), IsTopic(t)
    PROVE  LiveWalk(f, t).matched <=> t # <<>> /\ Means(f, t) /\ ~ParentLevel(f, t)
<1> DEFINE Stops(i) == /\ LiveReaches(f, t, i)
                       /\ i <= Len(f)
                       /\ \/ f[i] = "#"
                          \/ i = Len(t) /\ i = Len(f) /\ f[i] \in {"+", t[i]}
<1>0. LiveWalk(f, t).matched <=> \E i \in 1..Len(t) : Stops(i)
  BY DEF LiveWalk
<1>1. ASSUME NEW i \in 1..Len(t), Stops(i) PROVE t # <<>> /\ Means(f, t) /\ ~ParentLevel(f, t)
  <2>1. i \in 1..Len(f) /\ Covers(f, t, i - 1)
    BY <1>1, LivePassed
  <2>2. t # <<>>
    OBVIOUS
  <2>3. CASE f[i] = "#"
    <3>1. i = Len(f)
      BY <2>1, <2>3 DEF IsFilter
    <3>2. f # <<>> /\ f[Len(f)] = "#" /\ Len(f) - 1 <= Len(t) /\ Covers(f, t, Len(f) - 1)
      BY <2>1, <2>3, <3>1
    <3>3. Len(f) # Len(t) + 1
      BY <3>1
    <3> QED BY <2>2, <3>2, <3>3 DEF Means, ParentLevel
  <2>4. CASE i = Len(t) /\ i = Len(f) /\ f[i] \in {"+", t[i]}
    <3>1. Covers(f, t, Len(f))
      BY <2>1, <2>4 DEF Covers
    <3>2. Len(f) = Len(t) /\ Len(f) # Len(t) + 1
      BY <2>4
    <3> QED BY <2>2, <3>1, <3>2 DEF Means, ParentLevel
  <2> QED BY <1>1, <2>3, <2>4
<1>2. ASSUME t # <<>>, Means(f, t), ~ParentLevel(f, t) PROVE \E i \in 1..Len(t) : Stops(i)
  <2>1. CASE Len(f) = Len(t) /\ Covers(f, t, Len(f))
    <3>1. Len(t) \in 1..Len(t) /\ Len(t) \in 1..Len(f)
      BY <1>2, <2>1
    <3>2. Covers(f, t, Len(t) - 1) /\ f[Len(t)] \in {"+", t[Len(t)]}
      BY <2>1, <3>1 DEF Covers
    <3>3. LiveReaches(f, t, Len(t))
      BY <3>1, <3>2, LivePassing
    <3> QED BY <2>1, <3>1, <3>2, <3>3
  <2>2. CASE /\ f # <<>> /\ f[Len(f)] = "#"
             /\ Len(f) - 1 <= Len(t) /\ Covers(f, t, Len(f) - 1)
    <3>1. Len(f) # Len(t) + 1
      BY <1>2 DEF ParentLevel
    <3>2. Len(f) \in 1..Len(t)
      BY <2>2, <3>1
    <3>3. LiveReaches(f, t, Len(f))
      BY <2>2, <3>2, LivePassing
    <3> QED BY <2>2, <3>2, <3>3
  <2> QED BY <1>2, <2>1, <2>2 DEF Means
<1> QED BY <1>0, <1>1, <1>2

LEMMA LiveWalkOverruns ==
    ASSUME NEW W, NEW f \in Seq(W), NEW t \in Seq(W), IsTopic(t)
    PROVE  LiveWalk(f, t).oob <=> Len(f) < Len(t) /\ Covers(f, t, Len(f))
<1>0. LiveWalk(f, t).oob <=> \E i \in 1..Len(t) : LiveReaches(f, t, i) /\ i > Len(f)
  BY DEF LiveWalk
<1>1. ASSUME NEW i \in 1..Len(t), LiveReaches(f, t, i), i > Len(f)
      PROVE  Len(f) < Len(t) /\ Covers(f, t, Len(f))
  <2>1. i <= Len(f) + 1 /\ Covers(f, t, i - 1)
    BY <1>1, LivePassed
  <2>2. i - 1 = Len(f)
    BY <1>1, <2>1
  <2> QED BY <2>1, <2>2
<1>2. ASSUME Len(f) < Len(t), Covers(f, t, Len(f))
      PROVE  \E i \in 1..Len(t) : LiveReaches(f, t, i) /\ i > Len(f)
  <2>1. Len(f) + 1 \in 1..Len(t) /\ Covers(f, t, (Len(f) + 1) - 1)
    BY <1>2
  <2>2. LiveReaches(f, t, Len(f) + 1)
    BY <2>1, LivePassing
  <2> QED BY <2>1, <2>2
<1> QED BY <1>0, <1>1, <1>2

-----------------------------------------------------------------------------
(* The loop of CTopicStorage::GetMatchedTopics. *)

\* The walk passes the levels it shares with the topic when the filter covers
\* them, and those beyond when they are '+'.
LEMMA RetainedPassing ==
    ASSUME NEW W, NEW f \in Seq(W), NEW t \in Seq(W), IsTopic(t), NEW i \in 1..Len(f)
    PROVE  RetainedReaches(f, t, i)
           <=> \A j \in 1..(i - 1) : IF j <= Len(t) THEN f[j] \in {"+", t[j]} ELSE f[j] = "+"
<1>1. ASSUME NEW j \in 1..(i - 1)
      PROVE  RetainedPasses(f, t, j)
             <=> IF j <= Len(t) THEN f[j] \in {"+", t[j]} ELSE f[j] = "+"
  <2>1. j <= Len(t) => t[j] # "#"
    BY DEF IsTopic
  <2> QED BY <2>1 DEF RetainedPasses
<1> QED BY <1>1 DEF RetainedReaches

LEMMA RetainedWalkMatches ==
    ASSUME NEW W, NEW f \in Seq(W), NEW t \in Seq(W), IsFilter(f), IsTopic(t)
    PROVE  RetainedWalk(f, t).matched <=> (f # <<>> /\ Means(f, t)) \/ PlusBeyond(f, t)
<1> DEFINE Stops(i) == /\ RetainedReaches(f, t, i)
                       /\ \/ f[i] = "#"
                          \/ i = Len(f) /\ i = Len(t) /\ f[i] \in {"+", t[i]}
<1>0. RetainedWalk(f, t).matched <=> \E i \in 1..Len(f) : Stops(i)
  BY DEF RetainedWalk
<1>1. ASSUME NEW i \in 1..Len(f), Stops(i)
      PROVE  (f # <<>> /\ Means(f, t)) \/ PlusBeyond(f, t)
  <2>0. f # <<>>
    OBVIOUS
  <2>1. \A j \in 1..(i - 1) : IF j <= Len(t) THEN f[j] \in {"+", t[j]} ELSE f[j] = "+"
    BY <1>1, RetainedPassing
  <2>2. CASE f[i] = "#"
    <3>1. i = Len(f)
      BY <2>2 DEF IsFilter
    <3>2. CASE Len(f) - 1 <= Len(t)
      <4>1. Covers(f, t, Len(f) - 1)
        BY <2>1, <3>1, <3>2 DEF Covers
      <4> QED BY <2>0, <2>2, <3>1, <3>2, <4>1 DEF Means
    <3>3. CASE Len(f) - 1 > Len(t)
      <4>1. Covers(f, t, Len(t))
        BY <2>1, <3>1, <3>3 DEF Covers
      <4>2. \A j \in (Len(t) + 1)..(Len(f) - 1) : f[j] = "+"
        BY <2>1, <3>1
      <4>3. Len(f) > Len(t) + 1
        BY <3>3
      <4> QED BY <2>2, <3>1, <4>1, <4>2, <4>3 DEF PlusBeyond
    <3> QED BY <3>2, <3>3
  <2>3. CASE i = Len(f) /\ i = Len(t) /\ f[i] \in {"+", t[i]}
    <3>1. Covers(f, t, Len(f))
      BY <2>1, <2>3 DEF Covers
    <3> QED BY <2>0, <2>3, <3>1 DEF Means
  <2> QED BY <1>1, <2>2, <2>3
<1>2. ASSUME f # <<>>, Means(f, t) PROVE \E i \in 1..Len(f) : Stops(i)
  <2>0. Len(f) \in 1..Len(f)
    BY <1>2
  <2>1. CASE Len(f) = Len(t) /\ Covers(f, t, Len(f))
    <3>1. f[Len(f)] \in {"+", t[Len(f)]}
      BY <2>0, <2>1 DEF Covers
    <3>2. RetainedReaches(f, t, Len(f))
      BY <2>0, <2>1, RetainedPassing DEF Covers
    <3> QED BY <2>0, <2>1, <3>1, <3>2
  <2>2. CASE f[Len(f)] = "#" /\ Len(f) - 1 <= Len(t) /\ Covers(f, t, Len(f) - 1)
    <3>1. \A j \in 1..(Len(f) - 1) : j <= Len(t) /\ f[j] \in {"+", t[j]}
      BY <2>2 DEF Covers
    <3>2. RetainedReaches(f, t, Len(f))
      BY <2>0, <3>1, RetainedPassing
    <3> QED BY <2>0, <2>2, <3>2
  <2> QED BY <1>2, <2>1, <2>2 DEF Means
<1>3. ASSUME PlusBeyond(f, t) PROVE \E i \in 1..Len(f) : Stops(i)
  <2>1. Len(f) \in 1..Len(f) /\ f[Len(f)] = "#"
    BY <1>3 DEF PlusBeyond
  <2>2. \A j \in 1..(Len(f) - 1) : IF j <= Len(t) THEN f[j] \in {"+", t[j]} ELSE f[j] = "+"
    BY <1>3 DEF PlusBeyond, Covers
  <2>3. RetainedReaches(f, t, Len(f))
    BY <2>1, <2>2, RetainedPassing
  <2> QED BY <2>1, <2>3
<1> QED BY <1>0, <1>1, <1>2, <1>3

LEMMA RetainedWalkOverruns ==
    ASSUME NEW W, NEW f \in Seq(W), NEW t \in Seq(W), IsTopic(t)
    PROVE  RetainedWalk(f, t).oob
           <=> \E n \in (Len(t) + 1)..Len(f) :
                  /\ f[n] # "+"
                  /\ Covers(f, t, Len(t))
                  /\ \A j \in (Len(t) + 1)..(n - 1) : f[j] = "+"
<1>0. RetainedWalk(f, t).oob
      <=> \E n \in 1..Len(f) : RetainedReaches(f, t, n) /\ f[n] # "+" /\ n > Len(t)
  BY DEF RetainedWalk
<1>1. ASSUME NEW n \in 1..Len(f), n > Len(t)
      PROVE  RetainedReaches(f, t, n)
             <=> Covers(f, t, Len(t)) /\ \A j \in (Len(t) + 1)..(n - 1) : f[j] = "+"
  <2>1. (\A j \in 1..(n - 1) : IF j <= Len(t) THEN f[j] \in {"+", t[j]} ELSE f[j] = "+")
        <=> (\A j \in 1..Len(t) : f[j] \in {"+", t[j]})
            /\ \A j \in (Len(t) + 1)..(n - 1) : f[j] = "+"
    BY <1>1
  <2> QED BY <2>1, RetainedPassing DEF Covers
<1>2. \A n : n \in (Len(t) + 1)..Len(f) <=> n \in 1..Len(f) /\ n > Len(t)
  OBVIOUS
<1> QED BY <1>0, <1>1, <1>2

-----------------------------------------------------------------------------
(* What the broker decides on the tokens of a filter and of a topic.        *)

\* Whatever separators stand between them, tokenize gives the words of a name:
\* of a topic no wildcard, of a filter '#' as the last one only, and of the two
\* filters that GetMatchedTopics knows by name '#' alone.
Tokenized ==
    /\ T \in Seq(Words) /\ F \in Seq(Words \union {"+", "#"}) /\ IsFilter(F)
    /\ filter \in {<<"#">>, <<"/", "#">>} => F = <<"#">>

LEMMA Tokens ==
    ASSUME Tokenized
    PROVE  \E W : F \in Seq(W) /\ T \in Seq(W) /\ IsFilter(F) /\ IsTopic(T)
<1> DEFINE W == Words \union {"+", "#"}
<1>1. F \in Seq(W) /\ T \in Seq(Words) /\ IsFilter(F)
  BY DEF Tokenized
<1>2. T \in Seq(W)
  BY <1>1
<1>3. IsTopic(T)
  BY <1>1, MCAssumption DEF IsTopic
<1> QED BY <1>1, <1>2, <1>3

\* Who receives a publication, of names whose tokens are words.
LEMMA LiveMatchesMeaningOfTokens == ASSUME Tokenized PROVE LiveMatchExact
<1>1. PICK W : F \in Seq(W) /\ T \in Seq(W) /\ IsFilter(F) /\ IsTopic(T)
  BY Tokens
<1>2. LiveWalk(F, T).matched <=> T # <<>> /\ Means(F, T) /\ ~ParentLevel(F, T)
  BY <1>1, LiveWalkMatches
<1>3. CASE filter = <<"#">> \/ topic = filter
  BY <1>3 DEF LiveMatchExact, checkWildCards
<1>4. CASE ~(filter = <<"#">> \/ topic = filter)
  <2>1. checkWildCards(filter, topic) = LiveWalk(F, T)
    BY <1>4 DEF checkWildCards, F, T
  <2> QED BY <1>2, <1>4, <2>1 DEF LiveMatchExact
<1> QED BY <1>3, <1>4

\* What checkWildCards reads too much, of names whose tokens are words.
LEMMA LiveOverrunsExactlyOfTokens == ASSUME Tokenized PROVE LiveOobExact
<1>1. PICK W : F \in Seq(W) /\ T \in Seq(W) /\ IsFilter(F) /\ IsTopic(T)
  BY Tokens
<1>2. LiveWalk(F, T).oob <=> Len(F) < Len(T) /\ Covers(F, T, Len(F))
  BY <1>1, LiveWalkOverruns
<1>3. CASE filter = <<"#">>
  <2>1. F = <<"#">>
    BY <1>3 DEF Tokenized
  <2>2. ASSUME Len(F) < Len(T) PROVE ~Covers(F, T, Len(F))
    <3>1. 1 \in 1..Len(T) /\ Len(F) = 1 /\ F[1] = "#"
      BY <1>1, <2>1, <2>2
    <3>2. T[1] # "#"
      BY <1>1, <3>1 DEF IsTopic
    <3> QED BY <3>1, <3>2 DEF Covers
  <2> QED BY <1>3, <2>2 DEF LiveOobExact, checkWildCards
<1>4. CASE filter # <<"#">> /\ topic = filter
  BY <1>4 DEF LiveOobExact, checkWildCards
<1>5. CASE filter # <<"#">> /\ topic # filter
  <2>1. checkWildCards(filter, topic) = LiveWalk(F, T)
    BY <1>5 DEF checkWildCards, F, T
  <2> QED BY <1>2, <1>5, <2>1 DEF LiveOobExact
<1> QED BY <1>3, <1>4, <1>5

\* Which retained topics a filter is given, of names whose tokens are words.
LEMMA RetainedMatchesMeaningOfTokens == ASSUME Tokenized PROVE RetainedMatchExact
<1>1. PICK W : F \in Seq(W) /\ T \in Seq(W) /\ IsFilter(F) /\ IsTopic(T)
  BY Tokens
<1>2. RetainedWalk(F, T).matched <=> (F # <<>> /\ Means(F, T)) \/ PlusBeyond(F, T)
  BY <1>1, RetainedWalkMatches
<1>3. CASE filter \in {<<"#">>, <<"/", "#">>}
  BY <1>3 DEF RetainedMatchExact, GetMatched
<1>4. CASE filter \notin {<<"#">>, <<"/", "#">>}
  <2>1. GetMatched(filter, topic) = RetainedWalk(F, T)
    BY <1>4 DEF GetMatched, F, T
  <2> QED BY <1>2, <1>4, <2>1 DEF RetainedMatchExact
<1> QED BY <1>3, <1>4

\* What GetMatchedTopics reads too much, of names whose tokens are words.
LEMMA RetainedOverrunsExactlyOfTokens == ASSUME Tokenized PROVE RetainedOobExact
<1>1. PICK W : F \in Seq(W) /\ T \in Seq(W) /\ IsFilter(F) /\ IsTopic(T)
  BY Tokens
<1>2. RetainedWalk(F, T).oob
      <=> \E n \in (Len(T) + 1)..Len(F) :
             /\ F[n] # "+"
             /\ Covers(F, T, Len(T))
             /\ \A j \in (Len(T) + 1)..(n - 1) : F[j] = "+"
  BY <1>1, RetainedWalkOverruns
<1>3. CASE filter \in {<<"#">>, <<"/", "#">>}
  BY <1>3 DEF RetainedOobExact, GetMatched
<1>4. CASE filter \notin {<<"#">>, <<"/", "#">>}
  <2>1. GetMatched(filter, topic) = RetainedWalk(F, T)
    BY <1>4 DEF GetMatched, F, T
  <2> QED BY <1>2, <1>4, <2>1 DEF RetainedOobExact
<1> QED BY <1>3, <1>4

\* Both loops, of names whose tokens are words.
LEMMA LoopsAgreeOfTokens == ASSUME Tokenized PROVE RetainedAgreesWithLive
<1> SUFFICES ASSUME Names, T # <<>>, ~ParentLevel(F, T), ~PlusBeyond(F, T)
             PROVE  GetMatched(filter, topic).matched <=> checkWildCards(filter, topic).matched
  BY DEF RetainedAgreesWithLive
<1>1. PICK W : F \in Seq(W) /\ T \in Seq(W) /\ IsFilter(F) /\ IsTopic(T)
  BY Tokens
<1>2. checkWildCards(filter, topic).matched
      <=> filter = topic \/ filter = <<"#">> \/ Means(F, T)
  BY LiveMatchesMeaningOfTokens DEF LiveMatchExact
<1>3. GetMatched(filter, topic).matched
      <=> filter \in {<<"#">>, <<"/", "#">>} \/ (F # <<>> /\ Means(F, T))
  BY RetainedMatchesMeaningOfTokens DEF RetainedMatchExact
<1>4. CASE filter \in {<<"#">>, <<"/", "#">>}
  <2>1. F = <<"#">>
    BY <1>4 DEF Tokenized
  <2>2. Len(T) \in Nat \ {0}
    BY <1>1
  <2>3. Len(F) = 1 /\ F # <<>> /\ F[Len(F)] = "#"
    BY <2>1
  <2>4. Covers(F, T, Len(F) - 1) /\ Len(F) - 1 <= Len(T)
    BY <2>2, <2>3 DEF Covers
  <2>5. Means(F, T)
    BY <2>3, <2>4 DEF Means
  <2> QED BY <1>2, <1>3, <1>4, <2>5
<1>5. CASE filter \notin {<<"#">>, <<"/", "#">>} /\ filter = topic
  <2>1. F = T
    BY <1>5 DEF F, T
  <2>2. Covers(F, T, Len(F)) /\ Len(F) = Len(T) /\ F # <<>>
    BY <2>1 DEF Covers
  <2> QED BY <1>2, <1>3, <1>5, <2>2 DEF Means
<1>6. CASE filter \notin {<<"#">>, <<"/", "#">>} /\ filter # topic
  <2>1. Means(F, T) => F # <<>>
    <3>1. ASSUME F = <<>> PROVE Len(F) = 0 /\ Len(F) # Len(T)
      BY <1>1, <3>1
    <3> QED BY <3>1 DEF Means
  <2> QED BY <1>2, <1>3, <1>6, <2>1
<1> QED BY <1>4, <1>5, <1>6

-----------------------------------------------------------------------------
(* The names that are built piece by piece, and their tokens. *)

Pieced == Words \union {"+", "#"} \union Cuts

\* A '#' ends a filter.
NameInv ==
    /\ filter \in Seq(Pieced) /\ topic \in Seq(Words \union Cuts)
    /\ \A i \in 1..Len(filter) : filter[i] = "#" => i = Len(filter)
    /\ T \in Seq(Words) /\ F \in Seq(Words \union {"+", "#"})
    /\ \A i \in 1..Len(F) : F[i] = "#" => i = Len(F)
    /\ (\A i \in 1..Len(filter) : filter[i] # "#") => \A i \in 1..Len(F) : F[i] # "#"

\* Which pieces are tokens.
LEMMA TokenPieces ==
    /\ \A w \in Words \union {"+", "#"} : IsToken(w)
    /\ \A c \in Cuts : ~IsToken(c) /\ c \notin {"+", "#"}
BY MCAssumption DEF IsToken, Separators

LEMMA NameInit == Init => NameInv
<1> SUFFICES ASSUME Init PROVE NameInv
  OBVIOUS
<1>1. filter = <<>> /\ topic = <<>> /\ F = <<>> /\ T = <<>>
  BY TokenizeEmpty DEF Init, F, T
<1>2. <<>> \in Seq(Pieced) /\ <<>> \in Seq(Words \union Cuts) /\ <<>> \in Seq(Words)
      /\ <<>> \in Seq(Words \union {"+", "#"}) /\ Len(<<>>) = 0
  OBVIOUS
<1> QED BY <1>1, <1>2 DEF NameInv

LEMMA NameFilter == NameInv /\ AddToFilter => NameInv'
<1> SUFFICES ASSUME NameInv, AddToFilter PROVE NameInv'
  OBVIOUS
<1>1. PICK w \in Words \union {"+", "#"} \union Cuts : filter' = Append(filter, w)
  BY DEF AddToFilter, Pieces
<1>2. topic' = topic /\ T' = T /\ \A i \in 1..Len(filter) : filter[i] # "#"
  BY DEF AddToFilter, T
<1>3. filter \in Seq(Pieced) /\ F \in Seq(Words \union {"+", "#"}) /\ \A i \in 1..Len(F) : F[i] # "#"
  BY <1>2 DEF NameInv
<1>4. F' = IF IsToken(w) THEN Append(F, w) ELSE F
  BY <1>1, <1>3, TokenizeAppend DEF F
<1>5. filter' \in Seq(Pieced) /\ \A i \in 1..Len(filter') : filter'[i] = "#" => i = Len(filter')
  <2>1. w \in Pieced
    BY DEF Pieced
  <2> QED BY <1>1, <1>2, <1>3, <2>1
<1>6. CASE w \in Cuts
  <2>1. F' = F
    BY <1>4, <1>6, TokenPieces
  <2> QED BY <1>2, <1>3, <1>5, <2>1 DEF NameInv
<1>7. CASE w \in Words \union {"+", "#"}
  <2>1. F' = Append(F, w)
    BY <1>4, <1>7, TokenPieces
  <2>2. F' \in Seq(Words \union {"+", "#"}) /\ \A i \in 1..Len(F') : F'[i] = "#" => i = Len(F')
    BY <1>3, <1>7, <2>1
  <2>3. (\A i \in 1..Len(filter') : filter'[i] # "#") => \A i \in 1..Len(F') : F'[i] # "#"
    <3>1. SUFFICES ASSUME \A i \in 1..Len(filter') : filter'[i] # "#" PROVE w # "#"
      BY <1>3, <2>1
    <3>2. Len(filter') \in 1..Len(filter') /\ filter'[Len(filter')] = w
      BY <1>1, <1>3
    <3> QED BY <3>1, <3>2
  <2> QED BY <1>2, <1>5, <2>2, <2>3 DEF NameInv
<1> QED BY <1>6, <1>7

LEMMA NameTopic == NameInv /\ AddToTopic => NameInv'
<1> SUFFICES ASSUME NameInv, AddToTopic PROVE NameInv'
  OBVIOUS
<1>1. PICK w \in Words \union Cuts : topic' = Append(topic, w)
  BY DEF AddToTopic, Pieces
<1>2. filter' = filter /\ F' = F
  BY DEF AddToTopic, F
<1>3. topic \in Seq(Words \union Cuts) /\ T \in Seq(Words)
  BY DEF NameInv
<1>4. topic' \in Seq(Words \union Cuts)
  BY <1>1, <1>3
<1>5. T' = IF IsToken(w) THEN Append(T, w) ELSE T
  BY <1>1, <1>3, TokenizeAppend DEF T
<1>6. T' \in Seq(Words)
  <2>1. IsToken(w) => w \in Words
    BY TokenPieces
  <2> QED BY <1>3, <1>5, <2>1
<1> QED BY <1>2, <1>4, <1>6 DEF NameInv

\* What tokenize gives of the two filters that GetMatchedTopics knows.
LEMMA HashAlone == tokenize(<<"#">>) = <<"#">> /\ tokenize(<<"/", "#">>) = <<"#">>
<1>1. IsToken("#") /\ ~IsToken("/")
  BY DEF IsToken, Separators
<1>2. <<>> \in Seq({"/", "#"}) /\ <<"/">> \in Seq({"/", "#"})
  OBVIOUS
<1>3. tokenize(Append(<<>>, "#")) = Append(<<>>, "#")
  BY <1>1, <1>2, TokenizeAppend, TokenizeEmpty
<1>4. tokenize(Append(<<>>, "/")) = <<>>
  BY <1>1, <1>2, TokenizeAppend, TokenizeEmpty
<1>5. tokenize(Append(<<"/">>, "#")) = Append(tokenize(<<"/">>), "#")
  BY <1>1, <1>2, TokenizeAppend
<1>6. /\ Append(<<>>, "#") = <<"#">> /\ Append(<<>>, "/") = <<"/">>
      /\ Append(<<"/">>, "#") = <<"/", "#">>
  <2> DEFINE s == Append(<<"/">>, "#")
             t == <<"/", "#">>
  <2>1. /\ s \in Seq({"/", "#"}) /\ Len(s) = 2 /\ s[1] = "/" /\ s[2] = "#"
        /\ t \in Seq({"/", "#"}) /\ Len(t) = 2 /\ t[1] = "/" /\ t[2] = "#"
    OBVIOUS
  <2> HIDE DEF s, t
  <2>2. \A i \in 1..2 : s[i] = t[i]
    BY <2>1
  <2>3. s = t
    BY <2>1, <2>2
  <2>4. Append(<<>>, "#") = <<"#">> /\ Append(<<>>, "/") = <<"/">>
    OBVIOUS
  <2> QED BY <2>3, <2>4 DEF s, t
<1> QED BY <1>3, <1>4, <1>5, <1>6

LEMMA NamesAreTokenized == NameInv => Tokenized
<1> SUFFICES ASSUME NameInv PROVE Tokenized
  OBVIOUS
<1>1. filter \in {<<"#">>, <<"/", "#">>} => F = <<"#">>
  BY HashAlone DEF F
<1> QED BY <1>1 DEF Tokenized, NameInv, IsFilter

LEMMA NamesHold == Spec => []NameInv
<1>1. NameInv /\ [Next]_vars => NameInv'
  <2>1. NameInv /\ UNCHANGED vars => NameInv'
    BY DEF vars, NameInv, F, T
  <2> QED BY <2>1, NameFilter, NameTopic DEF Next
<1> QED BY <1>1, NameInit, PTL DEF Spec

\* tokenize (functions.h, used by checkWildCards and GetMatchedTopics) gives the
\* words of a name of every length, whatever separators stand between them: of a
\* topic no wildcard, of a filter '#' as the last one only.
LEMMA NamesTokenized == Spec => []Tokenized
BY NamesHold, NamesAreTokenized, PTL

\* Client::checkWildCards: a publication goes to the subscriptions that mean its
\* topic and to no other, but for the parent of a '#', for filters and topics of
\* every length.
THEOREM LiveMatchesMeaning == Spec => []LiveMatchExact
BY NamesTokenized, LiveMatchesMeaningOfTokens, PTL

\* checkWildCards reads past the end of a filter's tokens exactly when they are
\* fewer than the topic's and cover its beginning.
THEOREM LiveOverrunsExactly == Spec => []LiveOobExact
BY NamesTokenized, LiveOverrunsExactlyOfTokens, PTL

\* CTopicStorage::GetMatchedTopics: a new subscription is given the retained
\* topics its filter means, and besides those that a '+' lets it take for longer
\* than they are.
THEOREM RetainedMatchesMeaning == Spec => []RetainedMatchExact
BY NamesTokenized, RetainedMatchesMeaningOfTokens, PTL

\* GetMatchedTopics reads past the end of a retained topic's tokens exactly when
\* the filter covers all of them and then, after '+' levels only, has another
\* level.
THEOREM RetainedOverrunsExactly == Spec => []RetainedOobExact
BY NamesTokenized, RetainedOverrunsExactlyOfTokens, PTL

\* The two loops agree: what a new subscription is given of the retained topics
\* is what it would have received live, but for a '#' beyond the end of the topic.
THEOREM LoopsAgree == Spec => []RetainedAgreesWithLive
BY NamesTokenized, LoopsAgreeOfTokens, PTL
=============================================================================
