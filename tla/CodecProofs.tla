---------------------------- MODULE CodecProofs ----------------------------
(***************************************************************************)
(* Proofs about Codec: what the broker writes is what the protocol says,   *)
(* and what it reads is what was sent, for packets of every length, with   *)
(* any number of properties and topics, whatever the width of a byte and   *)
(* whatever lies behind the packet in memory.                              *)
(*                                                                         *)
(* The loops of the code are recursive functions.  What such a function    *)
(* gives is proved in two steps: its equation has a solution for every     *)
(* bound, and the solution has the wanted form at every index; both are    *)
(* inductions on a set of natural numbers (SetInduction).                  *)
(***************************************************************************)
EXTENDS MCCodec, WellFoundedInduction, SequenceTheorems, TLAPS

-----------------------------------------------------------------------------
(* Arithmetic, and induction on sets of natural numbers. *)

\* Euclidean division.
LEMMA DivMod ==
    ASSUME NEW a \in Nat, NEW b \in Nat \ {0}
    PROVE  a = b * (a \div b) + (a % b)
OBVIOUS

\* The quotient is a natural number and the remainder a digit.
LEMMA DivModRange ==
    ASSUME NEW a \in Nat, NEW b \in Nat \ {0}
    PROVE  a \div b \in Nat /\ a % b \in 0..(b - 1)
OBVIOUS

\* Quotient and remainder are determined by the number.
LEMMA DivModUnique ==
    ASSUME NEW b \in Nat \ {0}, NEW q \in Nat, NEW r \in 0..(b - 1)
    PROVE  (b * q + r) \div b = q /\ (b * q + r) % b = r
OBVIOUS

\* Dividing twice is dividing by the product.
LEMMA DivDiv ==
    ASSUME NEW n \in Nat, NEW b \in Nat \ {0}, NEW c \in Nat \ {0}
    PROVE  (n \div b) \div c = n \div (b * c)
OBVIOUS

\* A quotient is smaller than its number.
LEMMA DivLess ==
    ASSUME NEW n \in Nat \ {0}, NEW b \in Nat, b >= 2
    PROVE  n \div b < n
OBVIOUS

\* A quotient is below c when the number is below b * c.
LEMMA DivBelow ==
    ASSUME NEW n \in Nat, NEW b \in Nat \ {0}, NEW c \in Nat \ {0}
    PROVE  n \div b < c <=> n < b * c
OBVIOUS

\* A number below the divisor is its own remainder.
LEMMA DivSmall ==
    ASSUME NEW n \in Nat, NEW b \in Nat \ {0}
    PROVE  n < b => n \div b = 0 /\ n % b = n
OBVIOUS

\* Every non-empty set of natural numbers has a least element.
LEMMA LeastElement ==
    ASSUME NEW S \in SUBSET Nat, S # {}
    PROVE  \E m \in S : \A k \in S : m <= k
<1> DEFINE Less == OpToRel(<, Nat)
<1>1. IsWellFoundedOn(Less, Nat)
  BY NatLessThanWellFounded
<1>2. \A i, j \in Nat : i < j => <<i, j>> \in Less
  BY DEF OpToRel
<1> HIDE DEF Less
<1>3. \E m \in S : \A k \in S : ~(<<k, m>> \in Less)
  BY <1>1, WFMin
<1>4. PICK m \in S : \A k \in S : ~(<<k, m>> \in Less)
  BY <1>3
<1>5. ASSUME NEW k \in S PROVE m <= k
  <2>1. m \in Nat /\ k \in Nat /\ ~(k < m)
    BY <1>2, <1>4
  <2> QED BY <2>1
<1> QED BY <1>5

\* Induction for sets: what holds of 0 and passes to the successor holds of all.
LEMMA SetInduction ==
    ASSUME NEW P \in SUBSET Nat, 0 \in P, \A n \in P : n + 1 \in P
    PROVE  P = Nat
<1> SUFFICES ASSUME P # Nat PROVE FALSE
  OBVIOUS
<1>1. Nat \ P \in SUBSET Nat /\ Nat \ P # {}
  OBVIOUS
<1>2. PICK m \in Nat \ P : \A k \in Nat \ P : m <= k
  <2>1. \E m \in Nat \ P : \A k \in Nat \ P : m <= k
    BY <1>1, LeastElement
  <2> QED BY <2>1
<1>3. m # 0 /\ m - 1 \in Nat /\ m - 1 < m
  BY <1>2
<1>4. m - 1 \in P
  BY <1>2, <1>3
<1>5. (m - 1) + 1 = m
  BY <1>2
<1> QED BY <1>2, <1>4, <1>5

-----------------------------------------------------------------------------
(* Variable-length integers. *)

\* The recursive function that CodeVarInt defines, the do-while loop of
\* CodeVarInt over the quotients of the value.
DigitsUpTo(g, n) ==
    g = [v \in 0..n |-> IF v < Radix THEN <<v>> ELSE <<(v % Radix) + Radix>> \o g[v \div Radix]]
\* The function itself.
Digits(n) == CHOOSE g : DigitsUpTo(g, n)

\* Its equation has a solution for every bound, by induction on the bound.
LEMMA DigitsExist ==
    ASSUME NEW n \in Nat
    PROVE  \E g : DigitsUpTo(g, n)
<1> DEFINE P == {k \in Nat : \E g : DigitsUpTo(g, k)}
<1>1. 0 \in P
  <2> DEFINE g0 == [v \in 0..0 |-> <<v>>]
  <2>1. DigitsUpTo(g0, 0)
    <3>1. \A v \in 0..0 : v < Radix
      BY RadixAssumption
    <3> QED BY <3>1 DEF DigitsUpTo
  <2> QED BY <2>1
<1>2. ASSUME NEW k \in P PROVE k + 1 \in P
  <2>1. PICK g : DigitsUpTo(g, k)
    OBVIOUS
  <2> DEFINE new == IF k + 1 < Radix THEN <<k + 1>> ELSE <<((k + 1) % Radix) + Radix>> \o g[(k + 1) \div Radix]
             h == [v \in 0..(k + 1) |-> IF v = k + 1 THEN new ELSE g[v]]
  <2>2. ASSUME NEW v \in 0..(k + 1)
        PROVE  h[v] = IF v < Radix THEN <<v>> ELSE <<(v % Radix) + Radix>> \o h[v \div Radix]
    <3>1. CASE v = k + 1
      <4>1. CASE v < Radix
        BY <3>1, <4>1
      <4>2. CASE ~(v < Radix)
        <5>1. v \div Radix \in 0..(k + 1) /\ v \div Radix # k + 1
          <6>1. v \in Nat \ {0} /\ Radix \in Nat \ {0} /\ Radix >= 2
            BY <3>1, RadixAssumption
          <6>2. v \div Radix < v /\ v \div Radix \in Nat
            BY <6>1, DivLess, DivModRange
          <6> QED BY <6>2, <3>1
        <5>2. h[v \div Radix] = g[v \div Radix]
          BY <5>1
        <5> QED BY <3>1, <4>2, <5>2
      <4> QED BY <4>1, <4>2
    <3>2. CASE v # k + 1
      <4>1. v \in 0..k /\ h[v] = g[v]
        BY <3>2
      <4>2. g[v] = IF v < Radix THEN <<v>> ELSE <<(v % Radix) + Radix>> \o g[v \div Radix]
        BY <2>1, <4>1 DEF DigitsUpTo
      <4>3. v >= Radix => h[v \div Radix] = g[v \div Radix]
        <5>1. SUFFICES ASSUME v >= Radix PROVE v \div Radix \in 0..k
          OBVIOUS
        <5>2. v \in Nat \ {0} /\ Radix \in Nat \ {0} /\ Radix >= 2
          BY <5>1, RadixAssumption
        <5>3. v \div Radix < v /\ v \div Radix \in Nat
          BY <5>2, DivLess, DivModRange
        <5> QED BY <5>3, <4>1
      <4>4. ~(v < Radix) => v >= Radix
        BY RadixAssumption
      <4> QED BY <4>1, <4>2, <4>3, <4>4
    <3> QED BY <3>1, <3>2
  <2> HIDE DEF new
  <2>3. h = [v \in 0..(k + 1) |-> h[v]]
    OBVIOUS
  <2> HIDE DEF h
  <2>4. DigitsUpTo(h, k + 1)
    BY <2>2, <2>3 DEF DigitsUpTo
  <2> QED BY <2>4
<1>3. P = Nat
  <2> HIDE DEF P
  <2>1. P \in SUBSET Nat
    BY DEF P
  <2> QED BY <1>1, <1>2, <2>1, SetInduction
<1> QED BY <1>3

\* One turn of the loop.
LEMMA DigitsStep ==
    ASSUME NEW n \in Nat, NEW v \in 0..n
    PROVE  Digits(n)[v] = IF v < Radix THEN <<v>> ELSE <<(v % Radix) + Radix>> \o Digits(n)[v \div Radix]
<1>1. DigitsUpTo(Digits(n), n)
  BY DigitsExist DEF Digits
<1> QED BY <1>1 DEF DigitsUpTo

\* CodeVarInt is that function at its value.
LEMMA CodeVarIntIs ==
    ASSUME NEW n \in Nat
    PROVE  CodeVarInt(n) = Digits(n)[n]
BY DEF CodeVarInt, Digits, DigitsUpTo

\* A number is in P when all smaller ones are: then all are.
LEMMA StrongInduction ==
    ASSUME NEW P \in SUBSET Nat, \A n \in Nat : (\A k \in Nat : k < n => k \in P) => n \in P
    PROVE  P = Nat
<1> SUFFICES ASSUME P # Nat PROVE FALSE
  OBVIOUS
<1>1. Nat \ P \in SUBSET Nat /\ Nat \ P # {}
  OBVIOUS
<1>2. \E m \in Nat \ P : \A k \in Nat \ P : m <= k
  BY <1>1, LeastElement
<1>3. PICK m \in Nat \ P : \A k \in Nat \ P : m <= k
  BY <1>2
<1>4. \A k \in Nat : k < m => k \in P
  BY <1>3
<1> QED BY <1>3, <1>4

\* A quotient by Radix is smaller.
LEMMA Quotient ==
    ASSUME NEW v \in Nat, v >= Radix
    PROVE  v \div Radix \in Nat /\ v \div Radix < v /\ v \div Radix >= 1 /\ v % Radix \in 0..(Radix - 1)
<1>1. v \in Nat \ {0} /\ Radix \in Nat \ {0} /\ Radix >= 2
  BY RadixAssumption
<1>2. v \div Radix < v /\ v \div Radix \in Nat /\ v % Radix \in 0..(Radix - 1)
  BY <1>1, DivLess, DivModRange
<1>3. v = Radix * (v \div Radix) + (v % Radix)
  BY <1>1, DivMod
<1>4. v \div Radix # 0
  <2>1. SUFFICES ASSUME v \div Radix = 0 PROVE FALSE
    OBVIOUS
  <2>2. Radix * 0 = 0
    BY <1>1
  <2>3. v = v % Radix
    BY <1>2, <1>3, <2>1, <2>2
  <2> QED BY <1>1, <1>2, <2>3
<1> QED BY <1>2, <1>4

\* The bound of the function does not matter to what it gives.
LEMMA DigitsAgree ==
    ASSUME NEW m \in Nat, NEW n \in Nat, m <= n
    PROVE  \A v \in 0..m : Digits(m)[v] = Digits(n)[v]
<1> DEFINE P == {v \in Nat : v <= m => Digits(m)[v] = Digits(n)[v]}
<1>1. ASSUME NEW v \in Nat, \A k \in Nat : k < v => k \in P PROVE v \in P
  <2>1. SUFFICES ASSUME v <= m PROVE Digits(m)[v] = Digits(n)[v]
    OBVIOUS
  <2>2. v \in 0..m /\ v \in 0..n
    BY <2>1
  <2>3. /\ Digits(m)[v] = IF v < Radix THEN <<v>> ELSE <<(v % Radix) + Radix>> \o Digits(m)[v \div Radix]
        /\ Digits(n)[v] = IF v < Radix THEN <<v>> ELSE <<(v % Radix) + Radix>> \o Digits(n)[v \div Radix]
    BY <2>2, DigitsStep
  <2>4. CASE v < Radix
    BY <2>3, <2>4
  <2>5. CASE ~(v < Radix)
    <3>1. v >= Radix
      BY <2>5, RadixAssumption
    <3>2. v \div Radix \in Nat /\ v \div Radix < v
      BY <3>1, Quotient
    <3>3. v \div Radix <= m
      BY <2>1, <3>2
    <3>4. v \div Radix \in P
      BY <1>1, <3>2
    <3>5. Digits(m)[v \div Radix] = Digits(n)[v \div Radix]
      BY <3>3, <3>4
    <3> QED BY <2>3, <2>5, <3>5
  <2> QED BY <2>4, <2>5
<1>2. P = Nat
  <2> HIDE DEF P
  <2>1. P \in SUBSET Nat
    BY DEF P
  <2> QED BY <1>1, <2>1, StrongInduction
<1> QED BY <1>2

\* CodeVarInt, digit by digit.
LEMMA CodeVarIntStep ==
    ASSUME NEW n \in Nat
    PROVE  CodeVarInt(n) = IF n < Radix THEN <<n>> ELSE <<(n % Radix) + Radix>> \o CodeVarInt(n \div Radix)
<1>1. n \in 0..n /\ CodeVarInt(n) = Digits(n)[n]
  BY CodeVarIntIs
<1>2. Digits(n)[n] = IF n < Radix THEN <<n>> ELSE <<(n % Radix) + Radix>> \o Digits(n)[n \div Radix]
  BY <1>1, DigitsStep
<1>3. CASE n < Radix
  BY <1>1, <1>2, <1>3
<1>4. CASE ~(n < Radix)
  <2> DEFINE q == n \div Radix
  <2>1. q \in Nat /\ q < n
    BY <1>4, Quotient, RadixAssumption
  <2>2. CodeVarInt(q) = Digits(q)[q]
    BY <2>1, CodeVarIntIs
  <2>3. Digits(q)[q] = Digits(n)[q]
    <3> HIDE DEF q
    <3> QED BY <2>1, DigitsAgree
  <2> QED BY <1>1, <1>2, <1>4, <2>2, <2>3
<1> QED BY <1>3, <1>4

\* A sequence with one element in front.
LEMMA ConsProperties ==
    ASSUME NEW S, NEW a \in S, NEW s \in Seq(S)
    PROVE  /\ <<a>> \o s \in Seq(S)
           /\ Len(<<a>> \o s) = 1 + Len(s)
           /\ (<<a>> \o s)[1] = a
           /\ \A i \in 1..Len(s) : (<<a>> \o s)[i + 1] = s[i]
<1>1. <<a>> \in Seq(S) /\ Len(<<a>>) = 1 /\ <<a>>[1] = a
  OBVIOUS
<1> QED BY <1>1, ConcatProperties

\* CodeVarInt writes at least one byte.
LEMMA CodeVarIntType ==
    ASSUME NEW n \in Nat
    PROVE  CodeVarInt(n) \in Seq(Nat) /\ Len(CodeVarInt(n)) >= 1
<1> DEFINE Ok(v) == CodeVarInt(v) \in Seq(Nat) /\ Len(CodeVarInt(v)) >= 1
           P == {v \in Nat : Ok(v)}
<1>1. ASSUME NEW v \in Nat, \A k \in Nat : k < v => Ok(k) PROVE Ok(v)
  <2>1. CASE v < Radix
    <3>1. CodeVarInt(v) = <<v>>
      BY <2>1, CodeVarIntStep
    <3> QED BY <3>1
  <2>2. CASE ~(v < Radix)
    <3>1. v >= Radix
      BY <2>2, RadixAssumption
    <3>2. v \div Radix \in Nat /\ v \div Radix < v /\ v % Radix \in 0..(Radix - 1)
      BY <3>1, Quotient
    <3>3. (v % Radix) + Radix \in Nat
      BY <3>2, RadixAssumption
    <3>4. Ok(v \div Radix)
      BY <1>1, <3>2
    <3>5. CodeVarInt(v) = <<(v % Radix) + Radix>> \o CodeVarInt(v \div Radix)
      BY <2>2, CodeVarIntStep
    <3>6. PICK a \in Nat : a = (v % Radix) + Radix
      BY <3>3
    <3>7. PICK s \in Seq(Nat) : s = CodeVarInt(v \div Radix)
      BY <3>4
    <3>8. <<a>> \o s \in Seq(Nat) /\ Len(<<a>> \o s) = 1 + Len(s)
      BY ConsProperties
    <3>9. Len(s) \in Nat
      OBVIOUS
    <3> QED BY <3>5, <3>6, <3>7, <3>8, <3>9
  <2> QED BY <2>1, <2>2
<1> HIDE DEF Ok
<1>2. P \in SUBSET Nat /\ \A v \in Nat : (\A k \in Nat : k < v => k \in P) => v \in P
  BY <1>1
<1> HIDE DEF P
<1>3. P = Nat
  BY <1>2, StrongInduction
<1> QED BY <1>3 DEF P, Ok

\* It writes one byte for each digit.
LEMMA CodeVarIntLen ==
    ASSUME NEW v \in Nat
    PROVE  /\ v < Radix => Len(CodeVarInt(v)) = 1
           /\ v >= Radix => Len(CodeVarInt(v)) = 1 + Len(CodeVarInt(v \div Radix))
<1>1. CASE v < Radix
  <2>1. CodeVarInt(v) = <<v>>
    BY <1>1, CodeVarIntStep
  <2>2. ~(v >= Radix)
    BY <1>1, RadixAssumption
  <2> QED BY <2>1, <2>2
<1>2. CASE ~(v < Radix)
  <2>1. v >= Radix
    BY <1>2, RadixAssumption
  <2>2. v \div Radix \in Nat /\ v % Radix \in 0..(Radix - 1)
    BY <2>1, Quotient
  <2>3. PICK a \in Nat : a = (v % Radix) + Radix
    BY <2>2, RadixAssumption
  <2>4. PICK s \in Seq(Nat) : s = CodeVarInt(v \div Radix)
    BY <2>2, CodeVarIntType
  <2>5. CodeVarInt(v) = <<a>> \o s
    BY <1>2, <2>3, <2>4, CodeVarIntStep
  <2>6. Len(<<a>> \o s) = 1 + Len(s)
    BY ConsProperties
  <2> QED BY <1>2, <2>4, <2>5, <2>6
<1> QED BY <1>1, <1>2

\* The recursive function that GetVarIntSize defines, which counts divisions.
CountUpTo(g, n) == g = [v \in 0..n |-> IF v = 0 THEN 0 ELSE 1 + g[v \div Radix]]
\* The function itself.
Count(n) == CHOOSE g : CountUpTo(g, n)

\* Its equation has a solution: the lengths that CodeVarInt gives.
LEMMA CountExists ==
    ASSUME NEW n \in Nat
    PROVE  \E g : CountUpTo(g, n)
<1> DEFINE g == [v \in 0..n |-> IF v = 0 THEN 0 ELSE Len(CodeVarInt(v))]
<1>1. ASSUME NEW v \in 0..n PROVE g[v] = IF v = 0 THEN 0 ELSE 1 + g[v \div Radix]
  <2>1. CASE v = 0
    BY <2>1
  <2>2. CASE v # 0 /\ v < Radix
    <3>1. v \div Radix = 0
      <4>1. v \in Nat /\ Radix \in Nat \ {0}
        BY RadixAssumption
      <4> QED BY <2>2, <4>1, DivSmall
    <3>2. Len(CodeVarInt(v)) = 1
      BY <2>2, CodeVarIntLen
    <3>3. g[0] = 0 /\ g[v] = Len(CodeVarInt(v))
      BY <2>2
    <3> QED BY <2>2, <3>1, <3>2, <3>3
  <2>3. CASE v # 0 /\ ~(v < Radix)
    <3>1. v >= Radix
      BY <2>3, RadixAssumption
    <3>2. v \div Radix \in Nat /\ v \div Radix < v /\ v \div Radix >= 1
      BY <3>1, Quotient
    <3>3. Len(CodeVarInt(v)) = 1 + Len(CodeVarInt(v \div Radix))
      BY <3>1, CodeVarIntLen
    <3>4. v \div Radix \in 0..n /\ v \div Radix # 0
      BY <3>2
    <3>5. g[v] = Len(CodeVarInt(v)) /\ g[v \div Radix] = Len(CodeVarInt(v \div Radix))
      BY <2>3, <3>4
    <3> QED BY <2>3, <3>3, <3>5
  <2> QED BY <2>1, <2>2, <2>3
<1>2. g = [v \in 0..n |-> g[v]]
  OBVIOUS
<1> HIDE DEF g
<1>3. CountUpTo(g, n)
  BY <1>1, <1>2 DEF CountUpTo
<1> QED BY <1>3

\* It counts the bytes that CodeVarInt writes.
LEMMA CountIs ==
    ASSUME NEW n \in Nat
    PROVE  \A v \in 0..n : Count(n)[v] = IF v = 0 THEN 0 ELSE Len(CodeVarInt(v))
<1> DEFINE Ok(v) == v <= n => Count(n)[v] = IF v = 0 THEN 0 ELSE Len(CodeVarInt(v))
           P == {v \in Nat : Ok(v)}
<1>1. \A v \in 0..n : Count(n)[v] = IF v = 0 THEN 0 ELSE 1 + Count(n)[v \div Radix]
  <2>1. CountUpTo(Count(n), n)
    BY CountExists DEF Count
  <2> QED BY <2>1 DEF CountUpTo
<1>2. ASSUME NEW v \in Nat, \A k \in Nat : k < v => Ok(k) PROVE Ok(v)
  <2>1. SUFFICES ASSUME v <= n PROVE Count(n)[v] = IF v = 0 THEN 0 ELSE Len(CodeVarInt(v))
    OBVIOUS
  <2>2. Count(n)[v] = IF v = 0 THEN 0 ELSE 1 + Count(n)[v \div Radix]
    BY <1>1, <2>1
  <2>3. CASE v = 0
    BY <2>2, <2>3
  <2>4. CASE v # 0 /\ v < Radix
    <3>1. v \div Radix = 0
      <4>1. v \in Nat /\ Radix \in Nat \ {0}
        BY RadixAssumption
      <4> QED BY <2>4, <4>1, DivSmall
    <3>2. Count(n)[0] = 0
      BY <1>1
    <3>3. Len(CodeVarInt(v)) = 1
      BY <2>4, CodeVarIntLen
    <3> QED BY <2>2, <2>4, <3>1, <3>2, <3>3
  <2>5. CASE v # 0 /\ ~(v < Radix)
    <3>1. v >= Radix
      BY <2>5, RadixAssumption
    <3>2. v \div Radix \in Nat /\ v \div Radix < v /\ v \div Radix >= 1
      BY <3>1, Quotient
    <3>3. Len(CodeVarInt(v)) = 1 + Len(CodeVarInt(v \div Radix))
      BY <3>1, CodeVarIntLen
    <3>4. Ok(v \div Radix) /\ v \div Radix <= n /\ v \div Radix # 0
      BY <1>2, <2>1, <3>2
    <3>5. Count(n)[v \div Radix] = Len(CodeVarInt(v \div Radix))
      BY <3>4
    <3> QED BY <2>2, <2>5, <3>3, <3>5
  <2> QED BY <2>3, <2>4, <2>5
<1> HIDE DEF Ok
<1>3. P \in SUBSET Nat /\ \A v \in Nat : (\A k \in Nat : k < v => k \in P) => v \in P
  BY <1>2
<1> HIDE DEF P
<1>4. P = Nat
  BY <1>3, StrongInduction
<1> QED BY <1>4 DEF P, Ok

\* GetVarIntSize counts what CodeVarInt writes.
LEMMA SizeOfVarInt ==
    ASSUME NEW n \in Nat
    PROVE  GetVarIntSize(n) = Len(CodeVarInt(n))
<1>1. GetVarIntSize(n) = IF n = 0 THEN 1 ELSE Count(n)[n]
  BY DEF GetVarIntSize, Count, CountUpTo
<1>2. n \in 0..n
  OBVIOUS
<1>3. Count(n)[n] = IF n = 0 THEN 0 ELSE Len(CodeVarInt(n))
  BY <1>2, CountIs
<1>4. CASE n = 0
  <2>1. n < Radix
    BY <1>4, RadixAssumption
  <2> QED BY <1>1, <1>4, <2>1, CodeVarIntLen
<1> QED BY <1>1, <1>3, <1>4

\* The three digits behind the first of n, and what they take to be 0.
LEMMA Quotients ==
    ASSUME NEW n \in Nat
    PROVE  /\ n \div Radix \in Nat /\ (n \div Radix) \div Radix \in Nat
           /\ ((n \div Radix) \div Radix) \div Radix \in Nat
           /\ (n \div Radix) \div Radix = n \div (Radix * Radix)
           /\ ((n \div Radix) \div Radix) \div Radix = n \div (Radix * Radix * Radix)
           /\ n \div Radix < Radix <=> n < Radix * Radix
           /\ (n \div Radix) \div Radix < Radix <=> n < Radix * Radix * Radix
           /\ ((n \div Radix) \div Radix) \div Radix < Radix <=> n < Radix * Radix * Radix * Radix
<1>1. Radix \in Nat \ {0}
  BY RadixAssumption
<1>2. PICK a \in Nat \ {0} : a = Radix * Radix
  <2>1. Radix * Radix \in Nat \ {0}
    BY <1>1
  <2> QED BY <2>1
<1>3. PICK b \in Nat \ {0} : b = a * Radix
  <2>1. a * Radix \in Nat \ {0}
    BY <1>1
  <2> QED BY <2>1
<1>4. PICK p \in Nat : p = n \div Radix
  BY <1>1, DivModRange
<1>5. PICK q \in Nat : q = p \div Radix
  BY <1>1, DivModRange
<1>6. PICK r \in Nat : r = q \div Radix
  BY <1>1, DivModRange
<1>7. q = n \div a
  BY <1>1, <1>2, <1>4, <1>5, DivDiv
<1>8. r = n \div b
  <2>1. (n \div a) \div Radix = n \div (a * Radix)
    BY <1>1, DivDiv
  <2> QED BY <2>1, <1>3, <1>6, <1>7
<1>9. (p < Radix <=> n < a) /\ (q < Radix <=> n < b) /\ (r < Radix <=> n < b * Radix)
  <2>1. p < Radix <=> n < Radix * Radix
    BY <1>1, <1>4, DivBelow
  <2>2. q < Radix <=> n < a * Radix
    BY <1>1, <1>7, DivBelow
  <2>3. r < Radix <=> n < b * Radix
    BY <1>1, <1>8, DivBelow
  <2> QED BY <2>1, <2>2, <2>3, <1>2, <1>3
<1> QED BY <1>2, <1>3, <1>4, <1>5, <1>6, <1>7, <1>8, <1>9

\* The bounds grow.
LEMMA LimitsGrow ==
    /\ Radix \in Nat /\ Radix * Radix \in Nat /\ Radix * Radix * Radix \in Nat
    /\ Radix * Radix * Radix * Radix \in Nat
    /\ Radix < Radix * Radix /\ Radix * Radix < Radix * Radix * Radix
    /\ Radix * Radix * Radix < Radix * Radix * Radix * Radix
<1>1. Radix \in Nat /\ Radix >= 5
  BY RadixAssumption
<1>2. ASSUME NEW x \in Nat, x >= 1 PROVE x * Radix \in Nat /\ x < x * Radix
  <2>1. PICK k \in Nat : Radix = 2 + k
    BY <1>1
  <2>2. PICK y \in Nat : y = x * k
    OBVIOUS
  <2>3. x * (2 + k) = x * 2 + x * k
    OBVIOUS
  <2>4. x * Radix = x + x + y
    BY <2>1, <2>2, <2>3
  <2> QED BY <1>2, <2>4
<1>3. PICK a \in Nat : a = Radix * Radix /\ Radix < a
  BY <1>1, <1>2
<1>4. PICK b \in Nat : b = a * Radix /\ a < b
  <2>1. a >= 1
    BY <1>1, <1>3
  <2> QED BY <1>2, <2>1
<1>5. b * Radix \in Nat /\ b < b * Radix
  <2>1. b >= 1
    BY <1>1, <1>3, <1>4
  <2> QED BY <1>2, <2>1
<1> QED BY <1>1, <1>3, <1>4, <1>5

\* A sequence of length 2 is the tuple of its elements.
LEMMA Tuple2 ==
    ASSUME NEW S, NEW s \in Seq(S), Len(s) = 2
    PROVE  s = <<s[1], s[2]>>
OBVIOUS

\* A sequence of length 3 is the tuple of its elements.
LEMMA Tuple3 ==
    ASSUME NEW S, NEW s \in Seq(S), Len(s) = 3
    PROVE  s = <<s[1], s[2], s[3]>>
OBVIOUS

\* A sequence of length 4 is the tuple of its elements.
LEMMA Tuple4 ==
    ASSUME NEW S, NEW s \in Seq(S), Len(s) = 4
    PROVE  s = <<s[1], s[2], s[3], s[4]>>
OBVIOUS

\* Putting an element in front of one element.
LEMMA Cons2 ==
    ASSUME NEW S, NEW a \in S, NEW b \in S
    PROVE  <<a>> \o <<b>> = <<a, b>>
<1> DEFINE s == <<b>>
           t == <<a>> \o s
<1>1. s \in Seq(S) /\ Len(s) = 1 /\ s[1] = b
  OBVIOUS
<1> HIDE DEF s
<1>2. t \in Seq(S) /\ Len(t) = 2 /\ t[1] = a /\ \A i \in 1..1 : t[i + 1] = s[i]
  <2>1. s \in Seq(S)
    BY <1>1
  <2>2. t \in Seq(S) /\ Len(t) = 1 + Len(s) /\ t[1] = a /\ \A i \in 1..Len(s) : t[i + 1] = s[i]
    BY <2>1, ConsProperties
  <2> QED BY <1>1, <2>2
<1> HIDE DEF t
<1>3. t[2] = b
  BY <1>1, <1>2
<1>4. t = <<a, b>>
  BY <1>2, <1>3, Tuple2
<1> QED BY <1>4 DEF t, s

\* Putting an element in front of two elements.
LEMMA Cons3 ==
    ASSUME NEW S, NEW a \in S, NEW b \in S, NEW c \in S
    PROVE  <<a>> \o <<b, c>> = <<a, b, c>>
<1> DEFINE s == <<b, c>>
           t == <<a>> \o s
<1>1. s \in Seq(S) /\ Len(s) = 2 /\ s[1] = b /\ s[2] = c
  OBVIOUS
<1> HIDE DEF s
<1>2. t \in Seq(S) /\ Len(t) = 3 /\ t[1] = a /\ \A i \in 1..2 : t[i + 1] = s[i]
  <2>1. s \in Seq(S)
    BY <1>1
  <2>2. t \in Seq(S) /\ Len(t) = 1 + Len(s) /\ t[1] = a /\ \A i \in 1..Len(s) : t[i + 1] = s[i]
    BY <2>1, ConsProperties
  <2> QED BY <1>1, <2>2
<1> HIDE DEF t
<1>3. t[2] = b /\ t[3] = c
  BY <1>1, <1>2
<1>4. t = <<a, b, c>>
  BY <1>2, <1>3, Tuple3
<1> QED BY <1>4 DEF t, s

\* Putting an element in front of three elements.
LEMMA Cons4 ==
    ASSUME NEW S, NEW a \in S, NEW b \in S, NEW c \in S, NEW d \in S
    PROVE  <<a>> \o <<b, c, d>> = <<a, b, c, d>>
<1> DEFINE s == <<b, c, d>>
           t == <<a>> \o s
<1>1. s \in Seq(S) /\ Len(s) = 3 /\ s[1] = b /\ s[2] = c /\ s[3] = d
  OBVIOUS
<1> HIDE DEF s
<1>2. t \in Seq(S) /\ Len(t) = 4 /\ t[1] = a /\ \A i \in 1..3 : t[i + 1] = s[i]
  <2>1. s \in Seq(S)
    BY <1>1
  <2>2. t \in Seq(S) /\ Len(t) = 1 + Len(s) /\ t[1] = a /\ \A i \in 1..Len(s) : t[i + 1] = s[i]
    BY <2>1, ConsProperties
  <2> QED BY <1>1, <2>2
<1> HIDE DEF t
<1>3. t[2] = b /\ t[3] = c /\ t[4] = d
  BY <1>1, <1>2
<1>4. t = <<a, b, c, d>>
  BY <1>2, <1>3, Tuple4
<1> QED BY <1>4 DEF t, s

\* What CodeVarInt writes for a number of one to four digits, and for a larger one.
LEMMA CodeVarIntForms ==
    ASSUME NEW n \in Nat, NEW p \in Nat, p = n \div Radix, NEW q \in Nat, q = p \div Radix,
           NEW r \in Nat, r = q \div Radix
    PROVE  /\ n < Radix => CodeVarInt(n) = <<n>>
           /\ n >= Radix /\ p < Radix => CodeVarInt(n) = <<(n % Radix) + Radix, p>>
           /\ n >= Radix /\ p >= Radix /\ q < Radix
              => CodeVarInt(n) = <<(n % Radix) + Radix, (p % Radix) + Radix, q>>
           /\ n >= Radix /\ p >= Radix /\ q >= Radix /\ r < Radix
              => CodeVarInt(n) = <<(n % Radix) + Radix, (p % Radix) + Radix, (q % Radix) + Radix, r>>
<1>1. \A v \in Nat : v < Radix => CodeVarInt(v) = <<v>>
  BY CodeVarIntStep
<1>2. \A v \in Nat : v >= Radix => /\ CodeVarInt(v) = <<(v % Radix) + Radix>> \o CodeVarInt(v \div Radix)
                                   /\ (v % Radix) + Radix \in Nat
  <2>1. SUFFICES ASSUME NEW v \in Nat, v >= Radix
                 PROVE  /\ CodeVarInt(v) = <<(v % Radix) + Radix>> \o CodeVarInt(v \div Radix)
                        /\ (v % Radix) + Radix \in Nat
    OBVIOUS
  <2>2. ~(v < Radix)
    BY <2>1, RadixAssumption
  <2>3. v % Radix \in 0..(Radix - 1)
    BY <2>1, Quotient
  <2>4. (v % Radix) + Radix \in Nat
    BY <2>3, RadixAssumption
  <2>5. CodeVarInt(v) = <<(v % Radix) + Radix>> \o CodeVarInt(v \div Radix)
    BY <2>2, CodeVarIntStep
  <2> QED BY <2>4, <2>5
<1>3. ASSUME n >= Radix, p < Radix PROVE CodeVarInt(n) = <<(n % Radix) + Radix, p>>
  <2>1. PICK a \in Nat : a = (n % Radix) + Radix
    BY <1>2, <1>3
  <2>2. CodeVarInt(n) = <<a>> \o <<p>>
    BY <1>1, <1>2, <1>3, <2>1
  <2> QED BY <2>1, <2>2, Cons2
<1>4. ASSUME n >= Radix, p >= Radix, q < Radix
      PROVE  CodeVarInt(n) = <<(n % Radix) + Radix, (p % Radix) + Radix, q>>
  <2>1. PICK a \in Nat : a = (n % Radix) + Radix
    BY <1>2, <1>4
  <2>2. PICK b \in Nat : b = (p % Radix) + Radix
    BY <1>2, <1>4
  <2>3. CodeVarInt(p) = <<b>> \o <<q>>
    <3>1. CodeVarInt(p) = <<(p % Radix) + Radix>> \o CodeVarInt(p \div Radix)
      BY <1>2, <1>4
    <3>2. CodeVarInt(q) = <<q>>
      BY <1>1, <1>4
    <3> QED BY <2>2, <3>1, <3>2
  <2>4. CodeVarInt(p) = <<b, q>>
    BY <2>3, Cons2
  <2>5. CodeVarInt(n) = <<a>> \o <<b, q>>
    BY <1>2, <1>4, <2>1, <2>4
  <2>6. CodeVarInt(n) = <<a, b, q>>
    BY <2>5, Cons3
  <2> QED BY <2>1, <2>2, <2>6
<1>5. ASSUME n >= Radix, p >= Radix, q >= Radix, r < Radix
      PROVE  CodeVarInt(n) = <<(n % Radix) + Radix, (p % Radix) + Radix, (q % Radix) + Radix, r>>
  <2>1. PICK a \in Nat : a = (n % Radix) + Radix
    BY <1>2, <1>5
  <2>2. PICK b \in Nat : b = (p % Radix) + Radix
    BY <1>2, <1>5
  <2>3. PICK c \in Nat : c = (q % Radix) + Radix
    BY <1>2, <1>5
  <2>4. CodeVarInt(q) = <<c>> \o <<r>>
    <3>1. CodeVarInt(q) = <<(q % Radix) + Radix>> \o CodeVarInt(q \div Radix)
      BY <1>2, <1>5
    <3>2. CodeVarInt(r) = <<r>>
      BY <1>1, <1>5
    <3> QED BY <2>3, <3>1, <3>2
  <2>5. CodeVarInt(q) = <<c, r>>
    BY <2>4, Cons2
  <2>6. CodeVarInt(p) = <<b>> \o <<c, r>>
    BY <1>2, <1>5, <2>2, <2>5
  <2>7. CodeVarInt(p) = <<b, c, r>>
    BY <2>6, Cons3
  <2>8. CodeVarInt(n) = <<a>> \o <<b, c, r>>
    BY <1>2, <1>5, <2>1, <2>7
  <2>9. CodeVarInt(n) = <<a, b, c, r>>
    <3>1. \A w, x, y, z \in Nat : <<w>> \o <<x, y, z>> = <<w, x, y, z>>
      BY Cons4, Zenon
    <3>2. <<a>> \o <<b, c, r>> = <<a, b, c, r>>
      BY <2>1, <2>2, <2>3, <3>1
    <3> QED BY <2>8, <3>2
  <2> QED BY <2>1, <2>2, <2>3, <2>9
<1> QED BY <1>1, <1>3, <1>4, <1>5

\* The least element is the minimum.
LEMMA MinIs ==
    ASSUME NEW S \in SUBSET Nat, NEW m \in S, \A y \in S : m <= y
    PROVE  Min(S) = m
<1>1. \E x \in S : \A y \in S : x <= y
  OBVIOUS
<1>2. Min(S) \in S /\ \A y \in S : Min(S) <= y
  BY <1>1 DEF Min
<1>3. Min(S) \in Nat /\ m \in Nat /\ Min(S) <= m /\ m <= Min(S)
  BY <1>2
<1> QED BY <1>3

\* The protocol's integer of k bytes.
LEMMA IntBytesOf ==
    ASSUME NEW n \in Nat, NEW k \in 1..4, n < Limits[k], \A j \in 1..(k - 1) : ~(n < Limits[j])
    PROVE  IntBytes(n) = [i \in 1..k |-> ((IF i = 1 THEN n ELSE n \div Limits[i - 1]) % Radix)
                                         + (IF i < k THEN Radix ELSE 0)]
<1> DEFINE S == {j \in 1..4 : n < Limits[j]}
<1>1. S \in SUBSET Nat /\ k \in S /\ \A y \in S : k <= y
  <2>1. ASSUME NEW y \in S PROVE k <= y
    <3>1. CASE y < k
      <4>1. y \in 1..(k - 1) /\ n < Limits[y]
        BY <3>1
      <4> QED BY <4>1
    <3> QED BY <3>1
  <2> QED BY <2>1
<1> HIDE DEF S
<1>2. Min(S) = k
  BY <1>1, MinIs
<1> QED BY <1>2 DEF IntBytes, S

\* A function on 1..k is a tuple.
LEMMA Function1 ==
    ASSUME NEW S, NEW g, g = [i \in 1..1 |-> g[i]], g[1] \in S
    PROVE  g \in Seq(S) /\ Len(g) = 1 /\ g = <<g[1]>>
<1>1. g \in Seq(S) /\ Len(g) = 1
  OBVIOUS
<1> QED BY <1>1

\* A function on 1..2 is a tuple.
LEMMA Function2 ==
    ASSUME NEW S, NEW g, g = [i \in 1..2 |-> g[i]], g[1] \in S, g[2] \in S
    PROVE  g \in Seq(S) /\ Len(g) = 2 /\ g = <<g[1], g[2]>>
<1>1. g \in Seq(S) /\ Len(g) = 2
  OBVIOUS
<1> QED BY <1>1, Tuple2

\* A function on 1..3 is a tuple.
LEMMA Function3 ==
    ASSUME NEW S, NEW g, g = [i \in 1..3 |-> g[i]], g[1] \in S, g[2] \in S, g[3] \in S
    PROVE  g \in Seq(S) /\ Len(g) = 3 /\ g = <<g[1], g[2], g[3]>>
<1>1. g \in Seq(S) /\ Len(g) = 3
  OBVIOUS
<1> QED BY <1>1, Tuple3

\* A function on 1..4 is a tuple.
LEMMA Function4 ==
    ASSUME NEW S, NEW g, g = [i \in 1..4 |-> g[i]], g[1] \in S, g[2] \in S, g[3] \in S, g[4] \in S
    PROVE  g \in Seq(S) /\ Len(g) = 4 /\ g = <<g[1], g[2], g[3], g[4]>>
<1>1. g \in Seq(S) /\ Len(g) = 4
  OBVIOUS
<1> QED BY <1>1, Tuple4

\* The bounds of the integers of one to four bytes.
LEMMA LimitsAre ==
    /\ Limits[1] = Radix /\ Limits[2] = Radix * Radix /\ Limits[3] = Radix * Radix * Radix
    /\ Limits[4] = Radix * Radix * Radix * Radix
BY DEF Limits

\* CodeVarInt writes the protocol's bytes.
LEMMA CodeVarIntExact ==
    ASSUME NEW n \in Nat, n < Limits[4]
    PROVE  CodeVarInt(n) = IntBytes(n)
<1>1. PICK p \in Nat : p = n \div Radix
  BY Quotients
<1>2. PICK q \in Nat : q = p \div Radix
  BY <1>1, Quotients
<1>3. PICK r \in Nat : r = q \div Radix
  BY <1>1, <1>2, Quotients
<1>4. /\ p = n \div Limits[1] /\ q = n \div Limits[2] /\ r = n \div Limits[3]
      /\ p < Radix <=> n < Limits[2]
      /\ q < Radix <=> n < Limits[3]
      /\ r < Radix
  BY <1>1, <1>2, <1>3, Quotients, LimitsAre
<1>5. /\ Limits[1] \in Nat /\ Limits[2] \in Nat /\ Limits[3] \in Nat
      /\ Limits[1] < Limits[2] /\ Limits[2] < Limits[3] /\ Limits[1] = Radix
  BY LimitsGrow, LimitsAre
<1>6. \A v \in Nat : (v % Radix) + Radix \in Nat /\ (v < Radix => v % Radix = v)
  <2>1. SUFFICES ASSUME NEW v \in Nat
                 PROVE  (v % Radix) + Radix \in Nat /\ (v < Radix => v % Radix = v)
    OBVIOUS
  <2>2. Radix \in Nat \ {0}
    BY RadixAssumption
  <2>3. v % Radix \in 0..(Radix - 1)
    BY <2>2, DivModRange
  <2>4. v < Radix => v % Radix = v
    BY <2>2, DivSmall
  <2> QED BY <2>2, <2>3, <2>4
<1> DEFINE f(k) == [i \in 1..k |-> ((IF i = 1 THEN n ELSE n \div Limits[i - 1]) % Radix)
                                   + (IF i < k THEN Radix ELSE 0)]
<1>7. CASE n < Radix
  <2>1. CodeVarInt(n) = <<n>>
    BY <1>1, <1>2, <1>3, <1>7, CodeVarIntForms
  <2>2. IntBytes(n) = f(1)
    <3>1. n < Limits[1]
      BY <1>5, <1>7
    <3> QED BY <3>1, IntBytesOf
  <2>3. f(1) = <<n>>
    <3>1. f(1) = [i \in 1..1 |-> f(1)[i]] /\ f(1)[1] = (n % Radix) + 0
      OBVIOUS
    <3>2. f(1)[1] = n
      BY <1>6, <1>7, <3>1
    <3> HIDE DEF f
    <3> QED BY <3>1, <3>2, Function1
  <2> QED BY <2>1, <2>2, <2>3
<1>8. CASE n >= Radix /\ p < Radix
  <2>1. CodeVarInt(n) = <<(n % Radix) + Radix, p>>
    BY <1>1, <1>2, <1>3, <1>8, CodeVarIntForms
  <2>2. IntBytes(n) = f(2)
    <3>1. n < Limits[2] /\ \A j \in 1..(2 - 1) : ~(n < Limits[j])
      BY <1>4, <1>5, <1>8
    <3> QED BY <3>1, IntBytesOf
  <2>3. f(2)[1] = (n % Radix) + Radix /\ f(2)[2] = p
    <3>1. f(2)[2] = (p % Radix) + 0
      BY <1>4
    <3>2. f(2)[1] = (n % Radix) + Radix
      OBVIOUS
    <3> QED BY <1>6, <1>8, <3>1, <3>2
  <2>4. f(2) = [i \in 1..2 |-> f(2)[i]] /\ f(2)[1] \in Nat /\ f(2)[2] \in Nat
    BY <1>6, <2>3
  <2> HIDE DEF f
  <2>5. f(2) = <<f(2)[1], f(2)[2]>>
    BY <2>4, Function2
  <2> QED BY <2>1, <2>2, <2>3, <2>5
<1>9. CASE n >= Radix /\ p >= Radix /\ q < Radix
  <2>1. CodeVarInt(n) = <<(n % Radix) + Radix, (p % Radix) + Radix, q>>
    BY <1>1, <1>2, <1>3, <1>9, CodeVarIntForms
  <2>2. IntBytes(n) = f(3)
    <3>1. n < Limits[3] /\ ~(p < Radix)
      BY <1>4, <1>5, <1>9, RadixAssumption
    <3>2. ~(n < Limits[1]) /\ ~(n < Limits[2])
      BY <1>4, <1>5, <1>9, <3>1
    <3>3. \A j \in 1..(3 - 1) : ~(n < Limits[j])
      <4>1. \A j \in 1..(3 - 1) : j = 1 \/ j = 2
        OBVIOUS
      <4> QED BY <3>2, <4>1
    <3> QED BY <3>1, <3>3, IntBytesOf
  <2>3. f(3)[1] = (n % Radix) + Radix /\ f(3)[2] = (p % Radix) + Radix /\ f(3)[3] = q
    <3>1. f(3)[3] = (q % Radix) + 0 /\ f(3)[2] = (p % Radix) + Radix
      BY <1>4
    <3>2. f(3)[1] = (n % Radix) + Radix
      OBVIOUS
    <3> QED BY <1>6, <1>9, <3>1, <3>2
  <2>4. f(3) = [i \in 1..3 |-> f(3)[i]] /\ f(3)[1] \in Nat /\ f(3)[2] \in Nat /\ f(3)[3] \in Nat
    BY <1>6, <2>3
  <2> HIDE DEF f
  <2>5. f(3) = <<f(3)[1], f(3)[2], f(3)[3]>>
    BY <2>4, Function3
  <2> QED BY <2>1, <2>2, <2>3, <2>5
<1>10. CASE n >= Radix /\ p >= Radix /\ q >= Radix
  <2>1. CodeVarInt(n) = <<(n % Radix) + Radix, (p % Radix) + Radix, (q % Radix) + Radix, r>>
    BY <1>1, <1>2, <1>3, <1>4, <1>10, CodeVarIntForms
  <2>2. IntBytes(n) = f(4)
    <3>1. ~(p < Radix) /\ ~(q < Radix)
      BY <1>10, RadixAssumption
    <3>2. ~(n < Limits[1]) /\ ~(n < Limits[2]) /\ ~(n < Limits[3])
      BY <1>4, <1>5, <1>10, <3>1
    <3>3. \A j \in 1..(4 - 1) : ~(n < Limits[j])
      <4>1. \A j \in 1..(4 - 1) : j = 1 \/ j = 2 \/ j = 3
        OBVIOUS
      <4> QED BY <3>2, <4>1
    <3> QED BY <3>3, IntBytesOf
  <2>3. /\ f(4)[1] = (n % Radix) + Radix /\ f(4)[2] = (p % Radix) + Radix
        /\ f(4)[3] = (q % Radix) + Radix /\ f(4)[4] = r
    <3>1. f(4)[4] = (r % Radix) + 0 /\ f(4)[3] = (q % Radix) + Radix /\ f(4)[2] = (p % Radix) + Radix
      BY <1>4
    <3>2. f(4)[1] = (n % Radix) + Radix
      OBVIOUS
    <3> QED BY <1>4, <1>6, <3>1, <3>2
  <2>4. f(4) = [i \in 1..4 |-> f(4)[i]] /\ f(4)[1] \in Nat /\ f(4)[2] \in Nat /\ f(4)[3] \in Nat /\ f(4)[4] \in Nat
    BY <1>6, <2>3
  <2> HIDE DEF f
  <2>5. f(4) = <<f(4)[1], f(4)[2], f(4)[3], f(4)[4]>>
    BY <2>4, Function4
  <2> QED BY <2>1, <2>2, <2>3, <2>5
<1>11. (n < Radix \/ n >= Radix) /\ (p < Radix \/ p >= Radix) /\ (q < Radix \/ q >= Radix)
  BY RadixAssumption
<1> QED BY <1>7, <1>8, <1>9, <1>10, <1>11

-----------------------------------------------------------------------------
(* Bytes in memory. *)

\* The bytes s lie at offset o.
Holds(mem, o, s) == \A i \in 1..Len(s) : At(mem, o + i - 1) = s[i]

\* DeCodeVarInt ends at the first byte without the continuation bit, when it is
\* one of the first four.
LEMMA DeCodeEnds ==
    ASSUME NEW mem, NEW o \in Nat, NEW n \in 0..3, At(mem, o + n) < Radix,
           \A i \in 0..(n - 1) : ~(At(mem, o + i) < Radix)
    PROVE  LET Digit(i) == IF i <= n THEN At(mem, o + i) % Radix ELSE 0
           IN  DeCodeVarInt(mem, o)
               = [ok |-> TRUE,
                  value |-> Digit(0) + Radix * (Digit(1) + Radix * (Digit(2) + Radix * Digit(3))),
                  size |-> n + 1]
<1> DEFINE last == {i \in 0..3 : At(mem, o + i) < Radix}
<1>1. last \in SUBSET Nat /\ n \in last /\ \A y \in last : n <= y
  <2>1. ASSUME NEW y \in last PROVE n <= y
    <3>1. CASE y < n
      <4>1. y \in 0..(n - 1) /\ At(mem, o + y) < Radix
        BY <3>1
      <4> QED BY <4>1
    <3> QED BY <3>1
  <2> QED BY <2>1
<1>2. last # {}
  BY <1>1
<1>3. Min(last) = n
  <2> HIDE DEF last
  <2> QED BY <1>1, MinIs
<1> QED BY <1>2, <1>3 DEF DeCodeVarInt

\* DeCodeVarInt refuses an integer whose first four bytes are all continued.
LEMMA DeCodeFails ==
    ASSUME NEW mem, NEW o \in Nat, \A i \in 0..3 : ~(At(mem, o + i) < Radix)
    PROVE  ~DeCodeVarInt(mem, o).ok
<1>1. {i \in 0..3 : At(mem, o + i) < Radix} = {}
  OBVIOUS
<1> QED BY <1>1 DEF DeCodeVarInt

\* The continuation bit does not change the digit.
LEMMA Continued ==
    ASSUME NEW v \in Nat
    PROVE  ((v % Radix) + Radix) % Radix = v % Radix /\ ~((v % Radix) + Radix < Radix) /\ (v % Radix) + Radix \in Nat
<1>1. Radix \in Nat \ {0}
  BY RadixAssumption
<1>2. v % Radix \in 0..(Radix - 1)
  BY <1>1, DivModRange
<1>3. PICK d \in 0..(Radix - 1) : d = v % Radix
  BY <1>2
<1>4. (Radix * 1 + d) % Radix = d
  BY <1>1, DivModUnique
<1>5. Radix * 1 + d = d + Radix
  BY <1>1
<1>6. (d + Radix) % Radix = d
  BY <1>4, <1>5
<1>7. ~(d + Radix < Radix) /\ d + Radix \in Nat
  BY <1>1
<1> QED BY <1>3, <1>6, <1>7

\* DeCodeVarInt gives back the number that CodeVarInt has written.
LEMMA DeCodeCoded ==
    ASSUME NEW n \in Nat, n < Limits[4], NEW mem, NEW o \in Nat, Holds(mem, o, CodeVarInt(n))
    PROVE  DeCodeVarInt(mem, o) = [ok |-> TRUE, value |-> n, size |-> Len(CodeVarInt(n))]
<1>1. PICK p \in Nat : p = n \div Radix
  BY Quotients
<1>2. PICK q \in Nat : q = p \div Radix
  BY <1>1, Quotients
<1>3. PICK r \in Nat : r = q \div Radix
  BY <1>1, <1>2, Quotients
<1>4. r < Radix
  BY <1>1, <1>2, <1>3, Quotients, LimitsAre
<1>5. Radix \in Nat \ {0} /\ Radix * 0 = 0
  BY RadixAssumption
<1>6. /\ n = Radix * p + (n % Radix) /\ p = Radix * q + (p % Radix) /\ q = Radix * r + (q % Radix)
      /\ n % Radix \in Nat /\ p % Radix \in Nat /\ q % Radix \in Nat
  <2>1. n = Radix * p + (n % Radix) /\ n % Radix \in Nat
    BY <1>1, <1>5, DivMod, DivModRange
  <2>2. p = Radix * q + (p % Radix) /\ p % Radix \in Nat
    BY <1>2, <1>5, DivMod, DivModRange
  <2>3. q = Radix * r + (q % Radix) /\ q % Radix \in Nat
    BY <1>3, <1>5, DivMod, DivModRange
  <2> QED BY <2>1, <2>2, <2>3
<1>7. \A v \in Nat : v < Radix => v % Radix = v
  BY <1>5, DivSmall
<1> DEFINE At0 == At(mem, o + 0)
           At1 == At(mem, o + 1)
           At2 == At(mem, o + 2)
           At3 == At(mem, o + 3)
<1>8. CASE n < Radix
  <2>1. CodeVarInt(n) = <<n>>
    BY <1>1, <1>2, <1>3, <1>8, CodeVarIntForms
  <2>2. At0 = n /\ Len(CodeVarInt(n)) = 1
    BY <2>1 DEF Holds
  <2>3. At0 < Radix /\ \A i \in 0..(0 - 1) : ~(At(mem, o + i) < Radix)
    BY <1>8, <2>2
  <2>4. DeCodeVarInt(mem, o)
        = [ok |-> TRUE, value |-> (At0 % Radix) + Radix * (0 + Radix * (0 + Radix * 0)), size |-> 1]
    BY <2>3, DeCodeEnds
  <2>5. At0 % Radix = n % Radix /\ n % Radix = n
    BY <1>7, <1>8, <2>2, Continued
  <2>6. (n % Radix) + Radix * (0 + Radix * (0 + Radix * 0)) = n
    BY <1>5, <1>6, <1>8, <2>5
  <2> QED BY <2>2, <2>4, <2>5, <2>6
<1>9. CASE n >= Radix /\ p < Radix
  <2>1. CodeVarInt(n) = <<(n % Radix) + Radix, p>>
    BY <1>1, <1>2, <1>3, <1>9, CodeVarIntForms
  <2>2. At0 = (n % Radix) + Radix /\ At1 = p /\ Len(CodeVarInt(n)) = 2
    BY <2>1 DEF Holds
  <2>3. At1 < Radix /\ \A i \in 0..(1 - 1) : ~(At(mem, o + i) < Radix)
    <3>1. \A i \in 0..(1 - 1) : i = 0
      OBVIOUS
    <3>2. ~(At0 < Radix)
      BY <2>2, Continued
    <3> QED BY <1>9, <2>2, <3>1, <3>2
  <2>4. DeCodeVarInt(mem, o)
        = [ok |-> TRUE, value |-> (At0 % Radix) + Radix * ((At1 % Radix) + Radix * (0 + Radix * 0)), size |-> 2]
    BY <2>3, DeCodeEnds
  <2>5. At0 % Radix = n % Radix /\ At1 % Radix = p % Radix /\ p % Radix = p
    BY <1>7, <1>9, <2>2, Continued
  <2>6. (n % Radix) + Radix * ((p % Radix) + Radix * (0 + Radix * 0)) = n
    BY <1>5, <1>6, <1>9, <2>5
  <2> QED BY <2>2, <2>4, <2>5, <2>6
<1>10. CASE n >= Radix /\ p >= Radix /\ q < Radix
  <2>1. CodeVarInt(n) = <<(n % Radix) + Radix, (p % Radix) + Radix, q>>
    BY <1>1, <1>2, <1>3, <1>10, CodeVarIntForms
  <2>2. At0 = (n % Radix) + Radix /\ At1 = (p % Radix) + Radix /\ At2 = q /\ Len(CodeVarInt(n)) = 3
    BY <2>1 DEF Holds
  <2>3. At2 < Radix /\ \A i \in 0..(2 - 1) : ~(At(mem, o + i) < Radix)
    <3>1. \A i \in 0..(2 - 1) : i = 0 \/ i = 1
      OBVIOUS
    <3>2. ~(At0 < Radix) /\ ~(At1 < Radix)
      BY <2>2, Continued
    <3> QED BY <1>10, <2>2, <3>1, <3>2
  <2>4. DeCodeVarInt(mem, o)
        = [ok |-> TRUE, value |-> (At0 % Radix) + Radix * ((At1 % Radix) + Radix * ((At2 % Radix) + Radix * 0)), size |-> 3]
    BY <2>3, DeCodeEnds
  <2>5. At0 % Radix = n % Radix /\ At1 % Radix = p % Radix /\ At2 % Radix = q % Radix /\ q % Radix = q
    BY <1>7, <1>10, <2>2, Continued
  <2>6. (n % Radix) + Radix * ((p % Radix) + Radix * ((q % Radix) + Radix * 0)) = n
    BY <1>5, <1>6, <1>10, <2>5
  <2> QED BY <2>2, <2>4, <2>5, <2>6
<1>11. CASE n >= Radix /\ p >= Radix /\ q >= Radix
  <2>1. CodeVarInt(n) = <<(n % Radix) + Radix, (p % Radix) + Radix, (q % Radix) + Radix, r>>
    BY <1>1, <1>2, <1>3, <1>11, <1>4, CodeVarIntForms
  <2>2. At0 = (n % Radix) + Radix /\ At1 = (p % Radix) + Radix /\ At2 = (q % Radix) + Radix /\ At3 = r /\ Len(CodeVarInt(n)) = 4
    BY <2>1 DEF Holds
  <2>3. At3 < Radix /\ \A i \in 0..(3 - 1) : ~(At(mem, o + i) < Radix)
    <3>1. \A i \in 0..(3 - 1) : i = 0 \/ i = 1 \/ i = 2
      OBVIOUS
    <3>2. ~(At0 < Radix) /\ ~(At1 < Radix) /\ ~(At2 < Radix)
      BY <2>2, Continued
    <3> QED BY <1>11, <1>4, <2>2, <3>1, <3>2
  <2>4. DeCodeVarInt(mem, o)
        = [ok |-> TRUE, value |-> (At0 % Radix) + Radix * ((At1 % Radix) + Radix * ((At2 % Radix) + Radix * (At3 % Radix))), size |-> 4]
    BY <2>3, DeCodeEnds
  <2>5. At0 % Radix = n % Radix /\ At1 % Radix = p % Radix /\ At2 % Radix = q % Radix /\ At3 % Radix = r % Radix /\ r % Radix = r
    BY <1>7, <1>11, <1>4, <2>2, Continued
  <2>6. (n % Radix) + Radix * ((p % Radix) + Radix * ((q % Radix) + Radix * (r % Radix))) = n
    BY <1>5, <1>6, <1>11, <1>4, <2>5
  <2> QED BY <2>2, <2>4, <2>5, <2>6
<1>12. (n < Radix \/ n >= Radix) /\ (p < Radix \/ p >= Radix) /\ (q < Radix \/ q >= Radix)
  BY <1>5
<1> QED BY <1>8, <1>9, <1>10, <1>11, <1>12

\* Behind the first byte of a large number come the bytes of its quotient.
LEMMA CodeVarIntCons ==
    ASSUME NEW v \in Nat, v >= Radix
    PROVE  /\ Len(CodeVarInt(v)) = 1 + Len(CodeVarInt(v \div Radix))
           /\ ~(CodeVarInt(v)[1] < Radix)
           /\ \A i \in 1..Len(CodeVarInt(v \div Radix)) :
                  CodeVarInt(v)[i + 1] = CodeVarInt(v \div Radix)[i]
<1>1. v \div Radix \in Nat /\ ~(v < Radix)
  BY Quotient, RadixAssumption
<1>2. PICK a \in Nat : a = (v % Radix) + Radix /\ ~(a < Radix)
  BY Continued
<1>3. PICK s \in Seq(Nat) : s = CodeVarInt(v \div Radix)
  BY <1>1, CodeVarIntType
<1>4. PICK t : t = <<a>> \o s
  OBVIOUS
<1>5. t = CodeVarInt(v)
  BY <1>1, <1>2, <1>3, <1>4, CodeVarIntStep
<1>6. Len(t) = 1 + Len(s) /\ t[1] = a /\ \A i \in 1..Len(s) : t[i + 1] = s[i]
  BY <1>4, ConsProperties
<1> QED BY <1>2, <1>3, <1>5, <1>6

\* A larger number has five bytes or more, and four of them are continued.
LEMMA CodeVarIntLong ==
    ASSUME NEW n \in Nat, ~(n < Limits[4])
    PROVE  Len(CodeVarInt(n)) >= 5 /\ \A i \in 1..4 : ~(CodeVarInt(n)[i] < Radix)
<1>1. PICK p \in Nat : p = n \div Radix
  BY Quotients
<1>2. PICK q \in Nat : q = p \div Radix
  BY <1>1, Quotients
<1>3. PICK r \in Nat : r = q \div Radix
  BY <1>1, <1>2, Quotients
<1>4. n >= Radix /\ p >= Radix /\ q >= Radix /\ r >= Radix
  <2>1. PICK a \in Nat, b \in Nat, c \in Nat :
             /\ a = Radix * Radix /\ b = Radix * Radix * Radix /\ c = Radix * Radix * Radix * Radix
             /\ Radix \in Nat /\ Radix < a /\ a < b /\ b < c
    BY LimitsGrow
  <2>2. ~(n < c)
    BY <2>1, LimitsAre
  <2>3. (p < Radix <=> n < a) /\ (q < Radix <=> n < b) /\ (r < Radix <=> n < c)
    BY <1>1, <1>2, <1>3, <2>1, Quotients
  <2>4. ~(n < b) /\ ~(n < a) /\ ~(n < Radix)
    BY <2>1, <2>2
  <2> QED BY <2>1, <2>2, <2>3, <2>4
<1>5. PICK u \in Nat : u = r \div Radix
  BY <1>4, Quotient
<1> DEFINE Long(v, k) == Len(CodeVarInt(v)) > k /\ \A i \in 1..k : ~(CodeVarInt(v)[i] < Radix)
<1>7. \A v \in Nat, k \in Nat :
          v >= Radix /\ Long(v \div Radix, k) => Long(v, k + 1)
  <2>1. SUFFICES ASSUME NEW v \in Nat, NEW k \in Nat, v >= Radix, Long(v \div Radix, k) PROVE Long(v, k + 1)
    OBVIOUS
  <2>2. v \div Radix \in Nat
    BY <2>1, Quotient
  <2>3. PICK s \in Seq(Nat) : s = CodeVarInt(v)
    BY CodeVarIntType
  <2>4. PICK t \in Seq(Nat) : t = CodeVarInt(v \div Radix)
    BY <2>2, CodeVarIntType
  <2>5. Len(s) = 1 + Len(t) /\ ~(s[1] < Radix) /\ \A i \in 1..Len(t) : s[i + 1] = t[i]
    BY <2>1, <2>3, <2>4, CodeVarIntCons
  <2>6. Len(t) > k /\ \A i \in 1..k : ~(t[i] < Radix)
    BY <2>1, <2>4 DEF Long
  <2>7. Len(s) > k + 1
    BY <2>5, <2>6
  <2>8. ASSUME NEW i \in 1..(k + 1) PROVE ~(s[i] < Radix)
    <3>1. CASE i = 1
      BY <2>5, <3>1
    <3>2. CASE i # 1
      <4>1. PICK j \in 1..k : i = j + 1
        BY <3>2
      <4>2. j \in 1..Len(t)
        BY <2>6
      <4> QED BY <2>5, <2>6, <4>1, <4>2
    <3> QED BY <3>1, <3>2
  <2> QED BY <2>3, <2>7, <2>8 DEF Long
<1>8. Long(u, 0)
  BY CodeVarIntType DEF Long
<1> HIDE DEF Long
<1>9. Long(r, 1)
  BY <1>4, <1>5, <1>7, <1>8
<1>10. Long(q, 2)
  BY <1>3, <1>4, <1>7, <1>9
<1>11. Long(p, 3)
  BY <1>2, <1>4, <1>7, <1>10
<1>12. Long(n, 4)
  BY <1>1, <1>4, <1>7, <1>11
<1>13. CodeVarInt(n) \in Seq(Nat)
  BY CodeVarIntType
<1> QED BY <1>12, <1>13 DEF Long

\* The bytes at the beginning of a packet are held at offset 0.
LEMMA HeldBySelf ==
    ASSUME NEW S, NEW s \in Seq(S), NEW b
    PROVE  Holds([data |-> s, rest |-> b], 0, s)
BY DEF Holds, At

\* Every integer, of every size.
LEMMA IntegersExact ==
    ASSUME NEW n \in Nat, NEW b
    PROVE  LET bytes == CodeVarInt(n)
               back  == DeCodeVarInt([data |-> bytes, rest |-> b], 0)
           IN  /\ GetVarIntSize(n) = Len(bytes)
               /\ IF n < Limits[4]
                  THEN /\ bytes = IntBytes(n)
                       /\ back = [ok |-> TRUE, value |-> n, size |-> Len(bytes)]
                  ELSE ~back.ok
<1> DEFINE bytes == CodeVarInt(n)
           mem == [data |-> bytes, rest |-> b]
<1>1. GetVarIntSize(n) = Len(bytes)
  BY SizeOfVarInt
<1>2. bytes \in Seq(Nat)
  BY CodeVarIntType
<1>3. CASE n < Limits[4]
  <2>1. bytes = IntBytes(n)
    BY <1>3, CodeVarIntExact
  <2>2. Holds(mem, 0, bytes)
    <3> HIDE DEF bytes
    <3> QED BY <1>2, HeldBySelf
  <2> HIDE DEF mem
  <2>3. DeCodeVarInt(mem, 0) = [ok |-> TRUE, value |-> n, size |-> Len(bytes)]
    BY <1>3, <2>2, DeCodeCoded
  <2> QED BY <1>1, <1>3, <2>1, <2>3 DEF mem
<1>4. CASE ~(n < Limits[4])
  <2>1. \A i \in 0..3 : At(mem, 0 + i) = bytes[i + 1] /\ ~(bytes[i + 1] < Radix)
    <3>1. Len(bytes) >= 5 /\ \A i \in 1..4 : ~(bytes[i] < Radix)
      BY <1>4, CodeVarIntLong
    <3> HIDE DEF bytes
    <3>2. SUFFICES ASSUME NEW i \in 0..3 PROVE At(mem, 0 + i) = bytes[i + 1] /\ ~(bytes[i + 1] < Radix)
      OBVIOUS
    <3>3. i + 1 \in 1..4 /\ 0 + i = i /\ i < Len(bytes)
      BY <1>2, <3>1
    <3> QED BY <3>1, <3>3 DEF At
  <2> HIDE DEF mem
  <2>2. ~DeCodeVarInt(mem, 0).ok
    BY <2>1, DeCodeFails
  <2> QED BY <1>1, <1>4, <2>2 DEF mem
<1> QED BY <1>3, <1>4

-----------------------------------------------------------------------------
(* The runs' property of the integers. *)

\* The integers under way are natural numbers.
IntegerInv == packet.kind = "INTEGER" => packet.value \in Nat

\* Every integer, of every size, is written by CodeVarInt as the protocol
\* prescribes, sized by GetVarIntSize, and read back by DeCodeVarInt, or refused
\* when it is too large: what the run checks up to MaxInt, with any MaxInt.
THEOREM IntegersCoded == Spec => []IntegerExact
<1>1. Init => IntegerInv
  BY DEF Init, NoPacket, IntegerInv
<1>2. IntegerInv /\ [Next]_vars => IntegerInv'
  <2>1. SUFFICES ASSUME IntegerInv, [Next]_vars PROVE IntegerInv'
    OBVIOUS
  <2>2. CASE Connect
    BY <2>2 DEF Connect, Take, IntegerInv
  <2>3. CASE Publish
    BY <2>3 DEF Publish, Take, IntegerInv
  <2>4. CASE Subscribe
    <3>1. packet'.kind \in {"SUBSCRIBE", "UNSUBSCRIBE"}
      BY <2>4 DEF Subscribe, Take
    <3> QED BY <3>1 DEF IntegerInv
  <2>5. CASE Answer
    BY <2>5 DEF Answer, Take, IntegerInv
  <2>6. CASE Integer
    BY <2>6, MCAssumption DEF Integer, Take, IntegerInv
  <2>7. CASE Done
    BY <2>7 DEF Done, NoPacket, IntegerInv
  <2>8. CASE UNCHANGED vars
    BY <2>1, <2>8 DEF vars, IntegerInv
  <2> QED BY <2>1, <2>2, <2>3, <2>4, <2>5, <2>6, <2>7, <2>8 DEF Next
<1>3. IntegerInv => IntegerExact
  <2>1. SUFFICES ASSUME IntegerInv, packet.kind = "INTEGER" PROVE IntegerExact
    BY DEF IntegerExact
  <2>2. packet.value \in Nat
    BY <2>1 DEF IntegerInv
  <2> QED BY <2>2, IntegersExact DEF IntegerExact, Mem
<1> QED BY <1>1, <1>2, <1>3, PTL DEF Spec

-----------------------------------------------------------------------------
(* Flattening. *)

\* The recursive function that FlattenSeq defines.
FlattenUpTo(f, ss, n) == f = [i \in 1..n |-> IF i = 1 THEN ss[i] ELSE f[i - 1] \o ss[i]]
\* The function itself.
Flatten(ss) == CHOOSE f : FlattenUpTo(f, ss, Len(ss))

\* Its equation has a solution for every bound.
LEMMA FlattenExists ==
    ASSUME NEW ss, NEW n \in Nat
    PROVE  \E f : FlattenUpTo(f, ss, n)
<1> DEFINE P == {k \in Nat : \E f : FlattenUpTo(f, ss, k)}
<1>1. 0 \in P
  <2> DEFINE f0 == [i \in 1..0 |-> ss[i]]
  <2>1. FlattenUpTo(f0, ss, 0)
    BY DEF FlattenUpTo
  <2> QED BY <2>1
<1>2. ASSUME NEW k \in P PROVE k + 1 \in P
  <2>1. PICK f : FlattenUpTo(f, ss, k)
    OBVIOUS
  <2> DEFINE new == IF k + 1 = 1 THEN ss[k + 1] ELSE f[k] \o ss[k + 1]
             h == [i \in 1..(k + 1) |-> IF i = k + 1 THEN new ELSE f[i]]
  <2>2. ASSUME NEW i \in 1..(k + 1)
        PROVE  h[i] = IF i = 1 THEN ss[i] ELSE h[i - 1] \o ss[i]
    <3>1. CASE i = k + 1
      <4>1. CASE i = 1
        BY <3>1, <4>1
      <4>2. CASE i # 1
        <5>1. i - 1 \in 1..(k + 1) /\ i - 1 # k + 1 /\ i - 1 = k
          BY <3>1, <4>2
        <5>2. h[i - 1] = f[k]
          BY <5>1
        <5> QED BY <3>1, <4>2, <5>2
      <4> QED BY <4>1, <4>2
    <3>2. CASE i # k + 1
      <4>1. i \in 1..k /\ h[i] = f[i]
        BY <3>2
      <4>2. f[i] = IF i = 1 THEN ss[i] ELSE f[i - 1] \o ss[i]
        BY <2>1, <4>1 DEF FlattenUpTo
      <4>3. i # 1 => h[i - 1] = f[i - 1]
        BY <4>1
      <4> QED BY <4>1, <4>2, <4>3
    <3> QED BY <3>1, <3>2
  <2> HIDE DEF new
  <2>3. h = [i \in 1..(k + 1) |-> h[i]]
    OBVIOUS
  <2> HIDE DEF h
  <2>4. FlattenUpTo(h, ss, k + 1)
    BY <2>2, <2>3 DEF FlattenUpTo
  <2> QED BY <2>4
<1>3. P = Nat
  <2> HIDE DEF P
  <2>1. P \in SUBSET Nat
    BY DEF P
  <2> QED BY <1>1, <1>2, <2>1, SetInduction
<1> QED BY <1>3

\* One part more.
LEMMA FlattenStep ==
    ASSUME NEW ss, Len(ss) \in Nat
    PROVE  \A i \in 1..Len(ss) :
               Flatten(ss)[i] = IF i = 1 THEN ss[i] ELSE Flatten(ss)[i - 1] \o ss[i]
<1>1. FlattenUpTo(Flatten(ss), ss, Len(ss))
  BY FlattenExists DEF Flatten
<1> QED BY <1>1 DEF FlattenUpTo

\* FlattenSeq is that function at the last part.
LEMMA FlattenSeqIs ==
    ASSUME NEW ss
    PROVE  FlattenSeq(ss) = IF Len(ss) = 0 THEN ss ELSE Flatten(ss)[Len(ss)]
BY DEF FlattenSeq, Flatten, FlattenUpTo

\* Where the parts of a flattened sequence lie.
Places(pos, ss) ==
    /\ pos \in [0..Len(ss) -> Nat]
    /\ pos[0] = 0
    /\ \A i \in 1..Len(ss) : pos[i] = pos[i - 1] + Len(ss[i])

\* A concatenation holds the elements of both parts.
LEMMA ConcatKeeps ==
    ASSUME NEW S, NEW s \in Seq(S), NEW t \in Seq(S)
    PROVE  /\ s \o t \in Seq(S) /\ Len(s \o t) = Len(s) + Len(t)
           /\ \A i \in 1..Len(s) : (s \o t)[i] = s[i]
           /\ \A i \in 1..Len(t) : (s \o t)[Len(s) + i] = t[i]
<1>1. Len(s) \in Nat /\ Len(t) \in Nat
  OBVIOUS
<1>2. \A i \in 1..Len(s) : i \in 1..(Len(s) + Len(t)) /\ i <= Len(s)
  BY <1>1
<1>3. \A i \in 1..Len(t) : /\ Len(s) + i \in 1..(Len(s) + Len(t)) /\ ~(Len(s) + i <= Len(s))
                           /\ (Len(s) + i) - Len(s) = i
  BY <1>1
<1> QED BY <1>2, <1>3, ConcatProperties

\* What does not fall from one index to the next does not fall over several.
LEMMA Grows ==
    ASSUME NEW n \in Nat, NEW pos \in [0..n -> Nat], \A i \in 1..n : pos[i - 1] <= pos[i]
    PROVE  \A j \in 0..n : \A i \in 0..j : pos[i] <= pos[j]
<1> DEFINE P == {k \in Nat : k \in 0..n => \A i \in 0..k : pos[i] <= pos[k]}
<1>1. 0 \in P
  <2>1. \A i \in 0..0 : i = 0
    OBVIOUS
  <2>2. 0 \in 0..n /\ pos[0] <= pos[0]
    OBVIOUS
  <2> QED BY <2>1, <2>2
<1>2. ASSUME NEW k \in P PROVE k + 1 \in P
  <2>1. SUFFICES ASSUME k + 1 \in 0..n, NEW i \in 0..(k + 1) PROVE pos[i] <= pos[k + 1]
    OBVIOUS
  <2>2. k \in Nat /\ k + 1 \in 1..n /\ k \in 0..n /\ (k + 1) - 1 = k
    BY <2>1
  <2>3. pos[k] <= pos[k + 1] /\ pos[k] \in Nat /\ pos[k + 1] \in Nat
    BY <2>2
  <2>4. CASE i = k + 1
    BY <2>3, <2>4
  <2>5. CASE i # k + 1
    <3>1. i \in 0..k /\ pos[i] <= pos[k]
      BY <2>2, <2>5
    <3>2. pos[i] \in Nat
      BY <3>1, <2>2
    <3> QED BY <2>3, <3>1, <3>2
  <2> QED BY <2>4, <2>5
<1>3. P = Nat
  <2> HIDE DEF P
  <2>1. P \in SUBSET Nat
    BY DEF P
  <2> QED BY <1>1, <1>2, <2>1, SetInduction
<1>4. SUFFICES ASSUME NEW j \in 0..n PROVE \A i \in 0..j : pos[i] <= pos[j]
  OBVIOUS
<1>5. j \in P
  <2>1. j \in Nat
    OBVIOUS
  <2> HIDE DEF P
  <2> QED BY <1>3, <2>1
<1> QED BY <1>5

\* The i-th part lies in f at its place.
PartAt(f, pos, ss, i) == \A j \in 1..Len(ss[i]) : f[pos[i - 1] + j] = ss[i][j]

\* n parts, their lengths, their places, and what comes of flattening them.
Laid(S, n, part, len, pos, f) ==
    /\ len \in [1..n -> Nat] /\ \A i \in 1..n : part[i] \in Seq(S) /\ Len(part[i]) = len[i]
    /\ pos \in [0..n -> Nat] /\ pos[0] = 0 /\ \A i \in 1..n : pos[i] = pos[i - 1] + len[i]
    /\ \A i \in 1..n : f[i] = IF i = 1 THEN part[i] ELSE f[i - 1] \o part[i]
\* Every part lies at its place.
LaidOut(S, n, part, len, pos, f) ==
    \A k \in 1..n :
        /\ f[k] \in Seq(S) /\ Len(f[k]) = pos[k]
        /\ \A i \in 1..k : \A j \in 1..len[i] : f[k][pos[i - 1] + j] = part[i][j]

\* Flattening leaves every part at its place, by induction on the parts.
LEMMA FlattenParts ==
    ASSUME NEW S, NEW n \in Nat, NEW part, NEW len, NEW pos, NEW f, Laid(S, n, part, len, pos, f)
    PROVE  LaidOut(S, n, part, len, pos, f)
<1>0. /\ len \in [1..n -> Nat] /\ \A i \in 1..n : part[i] \in Seq(S) /\ Len(part[i]) = len[i]
      /\ pos \in [0..n -> Nat] /\ pos[0] = 0 /\ \A i \in 1..n : pos[i] = pos[i - 1] + len[i]
      /\ \A i \in 1..n : f[i] = IF i = 1 THEN part[i] ELSE f[i - 1] \o part[i]
  BY DEF Laid
<1>1. \A i \in 1..n : pos[i] = pos[i - 1] + len[i] /\ pos[i - 1] \in Nat /\ pos[i] \in Nat /\ len[i] \in Nat
  BY <1>0
<1>2. \A j \in 0..n : \A i \in 0..j : pos[i] <= pos[j]
  <2>1. \A i \in 1..n : pos[i - 1] <= pos[i]
    BY <1>1
  <2> QED BY <1>0, <2>1, Grows
<1> DEFINE Part(g, i) == \A j \in 1..len[i] : g[pos[i - 1] + j] = part[i][j]
           Ok(k) == f[k] \in Seq(S) /\ Len(f[k]) = pos[k] /\ \A i \in 1..k : Part(f[k], i)
           P == {k \in Nat : k \in 1..n => Ok(k)}
<1> HIDE DEF Ok
<1>3. 0 \in P
  <2>1. 0 \in Nat /\ ~(0 \in 1..n)
    OBVIOUS
  <2> QED BY <2>1
<1>4. ASSUME NEW k \in P PROVE k + 1 \in P
  <2>1. SUFFICES ASSUME k + 1 \in 1..n PROVE Ok(k + 1)
    OBVIOUS
  <2>2. k \in 0..n /\ pos[k] \in Nat /\ pos[k + 1] = pos[k] + len[k + 1] /\ len[k + 1] \in Nat
    <3>1. k \in Nat /\ (k + 1) - 1 = k
      OBVIOUS
    <3> QED BY <1>1, <2>1, <3>1
  <2>3. PICK t \in Seq(S) : t = part[k + 1] /\ Len(t) = len[k + 1]
    BY <1>0, <2>1
  <2> HIDE DEF P
  <2>4. CASE k = 0
    <3>1. f[1] = t /\ pos[0] = 0 /\ pos[1] = Len(t)
      BY <1>0, <2>1, <2>2, <2>3, <2>4
    <3>2. ASSUME NEW i \in 1..1 PROVE Part(f[1], i)
      <4>1. i = 1 /\ i - 1 = 0
        OBVIOUS
      <4>2. Part(f[1], 1)
        <5>1. SUFFICES ASSUME NEW j \in 1..len[1] PROVE f[1][pos[1 - 1] + j] = part[1][j]
          OBVIOUS
        <5>2. pos[1 - 1] + j = j
          BY <3>1
        <5> QED BY <2>3, <2>4, <3>1, <5>2
      <4> QED BY <4>1, <4>2
    <3> QED BY <2>3, <2>4, <3>1, <3>2 DEF Ok
  <2>5. CASE k # 0
    <3>1. k \in 1..n
      BY <2>2, <2>5
    <3>2. Ok(k)
      BY <3>1 DEF P
    <3>3. f[k + 1] = f[k] \o part[k + 1]
      <4>1. k + 1 # 1 /\ (k + 1) - 1 = k
        BY <2>2, <2>5
      <4> QED BY <1>0, <2>1, <4>1
    <3>4. PICK s \in Seq(S) : s = f[k] /\ Len(s) = pos[k]
      BY <3>2 DEF Ok
    <3>5. /\ s \o t \in Seq(S) /\ Len(s \o t) = Len(s) + Len(t)
          /\ \A i \in 1..Len(s) : (s \o t)[i] = s[i]
          /\ \A i \in 1..Len(t) : (s \o t)[Len(s) + i] = t[i]
      BY ConcatKeeps
    <3>6. PICK u : u = s \o t
      OBVIOUS
    <3>7. u \in Seq(S) /\ Len(u) = pos[k + 1] /\ f[k + 1] = u
      BY <2>2, <2>3, <3>3, <3>4, <3>5, <3>6
    <3>8. (\A i \in 1..pos[k] : u[i] = s[i]) /\ \A i \in 1..len[k + 1] : u[pos[k] + i] = t[i]
      BY <2>3, <3>4, <3>5, <3>6
    <3>9. ASSUME NEW i \in 1..(k + 1) PROVE Part(u, i)
      <4>1. CASE i = k + 1
        <5>1. i - 1 = k
          BY <2>2, <4>1
        <5> QED BY <2>3, <3>8, <4>1, <5>1
      <4>2. CASE i # k + 1
        <5>1. i \in 1..k /\ i \in 1..n /\ i \in 0..k
          BY <2>2, <3>1, <4>2
        <5>2. Part(s, i)
          BY <3>2, <3>4, <5>1 DEF Ok
        <5>3. SUFFICES ASSUME NEW j \in 1..len[i] PROVE pos[i - 1] + j \in 1..pos[k]
          BY <3>8, <5>2
        <5>4. pos[i - 1] + len[i] = pos[i] /\ pos[i - 1] \in Nat /\ pos[i] \in Nat /\ len[i] \in Nat
          BY <5>1, <1>1
        <5>5. pos[i] <= pos[k]
          BY <2>2, <5>1, <1>2
        <5>6. PICK a \in Nat, b \in Nat, c \in Nat, d \in Nat :
                  a = pos[i - 1] /\ b = len[i] /\ c = pos[i] /\ d = pos[k]
          BY <2>2, <5>4
        <5>7. a + b = c /\ c <= d /\ j \in 1..b
          BY <5>4, <5>5, <5>6
        <5>8. a + j \in 1..d
          BY <5>7
        <5> QED BY <5>6, <5>8
      <4> QED BY <4>1, <4>2
    <3> QED BY <3>7, <3>9 DEF Ok
  <2> QED BY <2>2, <2>4, <2>5
<1>5. P = Nat
  <2> HIDE DEF P
  <2>1. P \in SUBSET Nat
    BY DEF P
  <2> QED BY <1>3, <1>4, <2>1, SetInduction
<1>6. SUFFICES ASSUME NEW k \in 1..n PROVE Ok(k)
  BY DEF Ok, LaidOut
<1>7. k \in P
  <2>1. k \in Nat
    OBVIOUS
  <2> HIDE DEF P
  <2> QED BY <1>5, <2>1
<1> QED BY <1>7

\* A flattened sequence is as long as its parts together, and they lie in order.
LEMMA Flattened ==
    ASSUME NEW S, NEW ss \in Seq(Seq(S)), NEW pos, Places(pos, ss)
    PROVE  /\ FlattenSeq(ss) \in Seq(S)
           /\ Len(FlattenSeq(ss)) = pos[Len(ss)]
           /\ \A i \in 1..Len(ss) : PartAt(FlattenSeq(ss), pos, ss, i)
<1>1. Len(ss) \in Nat /\ \A i \in 1..Len(ss) : ss[i] \in Seq(S) /\ Len(ss[i]) \in Nat
  OBVIOUS
<1>2. PICK n \in Nat : n = Len(ss)
  BY <1>1
<1> DEFINE len == [i \in 1..n |-> Len(ss[i])]
           f == Flatten(ss)
<1>3. len \in [1..n -> Nat]
  BY <1>1, <1>2
<1>4. \A i \in 1..n : ss[i] \in Seq(S) /\ Len(ss[i]) = len[i]
  BY <1>1, <1>2
<1> HIDE DEF len
<1>5. pos \in [0..n -> Nat] /\ pos[0] = 0
  BY <1>2 DEF Places
<1>10. \A i \in 1..n : pos[i] = pos[i - 1] + len[i]
  BY <1>2, <1>4 DEF Places
<1>6. \A i \in 1..n : f[i] = IF i = 1 THEN ss[i] ELSE f[i - 1] \o ss[i]
  BY <1>2, FlattenStep
<1> HIDE DEF f
<1>7. \A k \in 1..n :
          /\ f[k] \in Seq(S) /\ Len(f[k]) = pos[k]
          /\ \A i \in 1..k : \A j \in 1..len[i] : f[k][pos[i - 1] + j] = ss[i][j]
  <2> HIDE DEF len, f
  <2>1. Laid(S, n, ss, len, pos, f)
    BY <1>3, <1>4, <1>5, <1>6, <1>10 DEF Laid
  <2>2. LaidOut(S, n, ss, len, pos, f)
    BY <2>1, FlattenParts
  <2> QED BY <2>2 DEF LaidOut
<1>8. CASE n = 0
  <2>1. ss = <<>>
    BY <1>2, <1>8, EmptySeq
  <2>3. ss \in Seq(S)
    BY <2>1
  <2>2. FlattenSeq(ss) = ss
    BY <1>2, <1>8, FlattenSeqIs
  <2> QED BY <1>2, <1>5, <1>8, <2>1, <2>2, <2>3
<1>9. CASE n # 0
  <2>1. n \in 1..n
    BY <1>9
  <2>2. FlattenSeq(ss) = f[n]
    BY <1>2, <1>9, FlattenSeqIs DEF f
  <2>3. ASSUME NEW i \in 1..n PROVE PartAt(f[n], pos, ss, i)
    <3>1. \A j \in 1..len[i] : f[n][pos[i - 1] + j] = ss[i][j]
      BY <1>7, <2>1
    <3>2. len[i] = Len(ss[i])
      BY <1>4
    <3> QED BY <3>1, <3>2 DEF PartAt
  <2> QED BY <1>2, <1>7, <2>1, <2>2, <2>3
<1> QED BY <1>8, <1>9

-----------------------------------------------------------------------------
(* Sums of lengths. *)

\* The recursive function that adds up lengths.
SumsUpTo(u, len, n) == u = [i \in 0..n |-> IF i = 0 THEN 0 ELSE u[i - 1] + len[i]]

\* Its equation has a solution for every number of lengths.
LEMMA SumsExist ==
    ASSUME NEW len, NEW n \in Nat
    PROVE  \E u : SumsUpTo(u, len, n)
<1> DEFINE P == {k \in Nat : \E u : SumsUpTo(u, len, k)}
<1>1. 0 \in P
  <2> DEFINE u0 == [i \in 0..0 |-> 0]
  <2>1. SumsUpTo(u0, len, 0)
    <3>1. \A i \in 0..0 : i = 0
      OBVIOUS
    <3> QED BY <3>1 DEF SumsUpTo
  <2> QED BY <2>1
<1>2. ASSUME NEW k \in P PROVE k + 1 \in P
  <2>1. PICK u : SumsUpTo(u, len, k)
    OBVIOUS
  <2> DEFINE h == [i \in 0..(k + 1) |-> IF i = k + 1 THEN u[k] + len[k + 1] ELSE u[i]]
  <2>2. ASSUME NEW i \in 0..(k + 1)
        PROVE  h[i] = IF i = 0 THEN 0 ELSE h[i - 1] + len[i]
    <3>1. CASE i = k + 1
      <4>1. i # 0 /\ i - 1 \in 0..(k + 1) /\ i - 1 # k + 1 /\ i - 1 = k
        BY <3>1
      <4>2. h[i - 1] = u[k]
        BY <4>1
      <4> QED BY <3>1, <4>1, <4>2
    <3>2. CASE i # k + 1
      <4>1. i \in 0..k /\ h[i] = u[i]
        BY <3>2
      <4>2. u[i] = IF i = 0 THEN 0 ELSE u[i - 1] + len[i]
        BY <2>1, <4>1 DEF SumsUpTo
      <4>3. i # 0 => h[i - 1] = u[i - 1]
        BY <4>1
      <4> QED BY <4>1, <4>2, <4>3
    <3> QED BY <3>1, <3>2
  <2>3. h = [i \in 0..(k + 1) |-> h[i]]
    OBVIOUS
  <2> HIDE DEF h
  <2>4. SumsUpTo(h, len, k + 1)
    BY <2>2, <2>3 DEF SumsUpTo
  <2> QED BY <2>4
<1>3. P = Nat
  <2> HIDE DEF P
  <2>1. P \in SUBSET Nat
    BY DEF P
  <2> QED BY <1>1, <1>2, <2>1, SetInduction
<1> QED BY <1>3

\* The sums of the first lengths, each a natural number.
Sums(u, len, n) ==
    u \in [0..n -> Nat] /\ u[0] = 0 /\ \A i \in 1..n : u[i] = u[i - 1] + len[i]

\* Sums of natural numbers are natural numbers.
LEMMA SumsAre ==
    ASSUME NEW n \in Nat, NEW len \in [1..n -> Nat], NEW u, SumsUpTo(u, len, n)
    PROVE  Sums(u, len, n)
<1>1. \A i \in 0..n : u[i] = IF i = 0 THEN 0 ELSE u[i - 1] + len[i]
  BY DEF SumsUpTo
<1> DEFINE P == {k \in Nat : k \in 0..n => u[k] \in Nat}
<1>2. 0 \in P
  <2>1. u[0] = 0
    BY <1>1
  <2> QED BY <2>1
<1>3. ASSUME NEW k \in P PROVE k + 1 \in P
  <2>1. SUFFICES ASSUME k + 1 \in 0..n PROVE u[k + 1] \in Nat
    OBVIOUS
  <2>2. k \in 0..n /\ k + 1 # 0 /\ (k + 1) - 1 = k /\ k + 1 \in 1..n
    BY <2>1
  <2>3. u[k + 1] = u[k] + len[k + 1] /\ u[k] \in Nat /\ len[k + 1] \in Nat
    BY <1>1, <2>1, <2>2
  <2> QED BY <2>3
<1>4. P = Nat
  <2> HIDE DEF P
  <2>1. P \in SUBSET Nat
    BY DEF P
  <2> QED BY <1>2, <1>3, <2>1, SetInduction
<1>5. ASSUME NEW k \in 0..n PROVE u[k] \in Nat
  <2>1. k \in P
    <3>1. k \in Nat
      OBVIOUS
    <3> HIDE DEF P
    <3> QED BY <1>4, <3>1
  <2> QED BY <2>1
<1>6. u = [i \in 0..n |-> u[i]]
  BY DEF SumsUpTo
<1>7. u \in [0..n -> Nat]
  BY <1>5, <1>6
<1>8. \A i \in 1..n : i \in 0..n /\ i # 0
  OBVIOUS
<1> QED BY <1>1, <1>7, <1>8 DEF Sums

\* Every sequence of sequences has places for its parts.
LEMMA PlacesExist ==
    ASSUME NEW n \in Nat, NEW ss, Len(ss) = n, \A i \in 1..n : Len(ss[i]) \in Nat
    PROVE  \E pos : Places(pos, ss)
<1> DEFINE len == [i \in 1..n |-> Len(ss[i])]
<1>1. len \in [1..n -> Nat]
  OBVIOUS
<1>5. \A i \in 1..n : len[i] = Len(ss[i])
  OBVIOUS
<1> HIDE DEF len
<1>2. PICK u : SumsUpTo(u, len, n)
  BY SumsExist
<1>3. Sums(u, len, n)
  BY <1>1, <1>2, SumsAre
<1>4. Places(u, ss)
  BY <1>5, <1>3 DEF Places, Sums
<1> QED BY <1>4

-----------------------------------------------------------------------------
(* What the broker writes has the size it computes. *)

\* A byte has at least ten values, and a word the square of that.
LEMMA ByteFacts ==
    /\ Byte \in Nat \ {0} /\ Byte >= 10 /\ Word \in Nat \ {0} /\ Word >= 100 /\ Word = Byte * Byte
<1>1. PICK b \in Nat : b = Byte /\ b >= 10
  <2>1. 2 * Radix \in Nat /\ 2 * Radix >= 10
    BY RadixAssumption
  <2> QED BY <2>1 DEF Byte
<1>2. b * b >= 100 /\ b * b \in Nat
  <2>1. PICK k \in Nat : b = 10 + k
    BY <1>1
  <2>2. PICK m \in Nat : m = k * k
    OBVIOUS
  <2>3. (10 + k) * (10 + k) = 100 + 20 * k + m
    BY <2>2
  <2> QED BY <2>1, <2>3
<1> QED BY <1>1, <1>2 DEF Word

\* The table of the types of data, identifier by identifier.
LEMMA DataTypes ==
    /\ DOMAIN DataType = 1..9 /\ Len(DataType) = 9
    /\ DataType[1] = "byte" /\ DataType[2] = "byte" /\ DataType[3] = "byte"
    /\ DataType[4] = "four_byte" /\ DataType[5] = "mqtt_string" /\ DataType[6] = "two_byte"
    /\ DataType[7] = "binary_data" /\ DataType[8] = "mqtt_string_pair" /\ DataType[9] = "variable_int"
BY DEF DataType

\* A value of the type of an identifier.
HasType(type, v) ==
    CASE type \in {"byte", "two_byte", "four_byte", "variable_int"} -> v \in Nat
      [] type \in {"mqtt_string", "binary_data"} -> v \in Seq(Nat)
      [] type = "mqtt_string_pair" -> v = <<v[1], v[2]>> /\ v[1] \in Seq(Nat) /\ v[2] \in Seq(Nat)
\* A property of the table with a value of its type.
Typed(id, v) == id \in 1..9 /\ HasType(DataType[id], v)

\* An identifier of the table has one of the seven types.
LEMMA TypeOf ==
    ASSUME NEW id \in 1..9
    PROVE  DataType[id] \in {"byte", "two_byte", "four_byte", "mqtt_string", "binary_data",
                             "mqtt_string_pair", "variable_int"}
<1>1. id = 1 \/ id = 2 \/ id = 3 \/ id = 4 \/ id = 5 \/ id = 6 \/ id = 7 \/ id = 8 \/ id = 9
  OBVIOUS
<1> QED BY <1>1, DataTypes

\* A function on 1..n is a sequence.
LEMMA SeqOfFunction ==
    ASSUME NEW T, NEW n \in Nat, NEW g \in [1..n -> T]
    PROVE  g \in Seq(T) /\ Len(g) = n
OBVIOUS

\* The sequence s has n bytes.
HasLen(s, n) == s \in Seq(Nat) /\ n \in Nat /\ Len(s) = n

\* Lengths add up.
LEMMA LenConcat ==
    ASSUME NEW s, NEW t, NEW m, NEW n, HasLen(s, m), HasLen(t, n)
    PROVE  HasLen(s \o t, m + n)
<1>1. s \in Seq(Nat) /\ t \in Seq(Nat) /\ m \in Nat /\ n \in Nat /\ Len(s) = m /\ Len(t) = n
  BY DEF HasLen
<1>2. s \o t \in Seq(Nat) /\ Len(s \o t) = Len(s) + Len(t)
  BY <1>1, ConcatProperties
<1> QED BY <1>1, <1>2 DEF HasLen

\* A byte is one byte.
LEMMA LenByte ==
    ASSUME NEW v \in Nat
    PROVE  HasLen(<<v>>, 1)
BY DEF HasLen

\* htons makes two bytes.
LEMMA LenBig2 ==
    ASSUME NEW v \in Nat
    PROVE  HasLen(Big2(v), 2)
<1>1. Byte \in Nat \ {0}
  BY ByteFacts
<1>2. v \div Byte \in Nat
  BY <1>1, DivModRange
<1>3. (v \div Byte) % Byte \in Nat /\ v % Byte \in Nat
  BY <1>1, <1>2, DivModRange
<1> QED BY <1>3 DEF Big2, HasLen

\* htonl makes four bytes.
LEMMA LenBig4 ==
    ASSUME NEW v \in Nat
    PROVE  HasLen(Big4(v), 4)
<1>1. v \div Word \in Nat
  BY ByteFacts, DivModRange
<1>2. HasLen(Big2(v \div Word), 2) /\ HasLen(Big2(v), 2)
  BY <1>1, LenBig2
<1>3. HasLen(Big2(v \div Word) \o Big2(v), 2 + 2)
  BY <1>2, LenConcat
<1> QED BY <1>3 DEF Big4

\* A string is written with two bytes of length.
LEMMA LenString ==
    ASSUME NEW s \in Seq(Nat)
    PROVE  HasLen(SerializeString(s), 2 + Len(s))
<1>1. Len(s) % Word \in Nat
  <2>1. Len(s) \in Nat
    OBVIOUS
  <2> QED BY <2>1, ByteFacts, DivModRange
<1>2. HasLen(Big2(Len(s) % Word), 2)
  BY <1>1, LenBig2
<1>3. HasLen(s, Len(s))
  BY DEF HasLen
<1> QED BY <1>2, <1>3, LenConcat DEF SerializeString

\* A variable-length integer is written in the bytes that GetVarIntSize counts.
LEMMA LenVarInt ==
    ASSUME NEW v \in Nat
    PROVE  HasLen(CodeVarInt(v), GetVarIntSize(v))
<1>1. PICK s \in Seq(Nat) : s = CodeVarInt(v)
  BY CodeVarIntType
<1>2. Len(s) = GetVarIntSize(v)
  BY <1>1, SizeOfVarInt
<1>3. Len(s) \in Nat
  OBVIOUS
<1> QED BY <1>1, <1>2, <1>3 DEF HasLen

\* The value of a property is written in the bytes that Size counts, for each
\* of the seven types.
LEMMA Serialized ==
    ASSUME NEW id, NEW v, Typed(id, v)
    PROVE  HasLen(Serialize(id, v), Size(id, v))
<1>1. id \in 1..9
  BY DEF Typed
<1>2. PICK type : type = DataType[id]
  OBVIOUS
<1>3. HasType(type, v)
  BY <1>2 DEF Typed
<1>4. type \in {"byte", "two_byte", "four_byte", "mqtt_string", "binary_data", "mqtt_string_pair", "variable_int"}
  BY <1>1, <1>2, TypeOf
<1>5. CASE type = "byte"
  <2>1. v \in Nat /\ Serialize(id, v) = <<v>> /\ Size(id, v) = 1
    BY <1>2, <1>3, <1>5 DEF HasType, Serialize, Size
  <2> QED BY <2>1, LenByte
<1>6. CASE type = "two_byte"
  <2>1. v \in Nat /\ Serialize(id, v) = Big2(v) /\ Size(id, v) = 2
    BY <1>2, <1>3, <1>6 DEF HasType, Serialize, Size
  <2> QED BY <2>1, LenBig2
<1>7. CASE type = "four_byte"
  <2>1. v \in Nat /\ Serialize(id, v) = Big4(v) /\ Size(id, v) = 4
    BY <1>2, <1>3, <1>7 DEF HasType, Serialize, Size
  <2> QED BY <2>1, LenBig4
<1>8. CASE type \in {"mqtt_string", "binary_data"}
  <2>1. v \in Seq(Nat) /\ Serialize(id, v) = SerializeString(v) /\ Size(id, v) = 2 + Len(v)
    BY <1>2, <1>3, <1>8 DEF HasType, Serialize, Size
  <2> QED BY <2>1, LenString
<1>9. CASE type = "mqtt_string_pair"
  <2>1. /\ v[1] \in Seq(Nat) /\ v[2] \in Seq(Nat)
        /\ Serialize(id, v) = SerializeString(v[1]) \o SerializeString(v[2])
        /\ Size(id, v) = 2 + Len(v[1]) + 2 + Len(v[2])
    BY <1>2, <1>3, <1>9 DEF HasType, Serialize, Size
  <2>2. HasLen(SerializeString(v[1]), 2 + Len(v[1])) /\ HasLen(SerializeString(v[2]), 2 + Len(v[2]))
    BY <2>1, LenString
  <2>3. HasLen(SerializeString(v[1]) \o SerializeString(v[2]), (2 + Len(v[1])) + (2 + Len(v[2])))
    BY <2>2, LenConcat
  <2>4. PICK m \in Nat, n \in Nat : m = Len(v[1]) /\ n = Len(v[2])
    BY <2>1
  <2>5. (2 + m) + (2 + n) = 2 + m + 2 + n
    OBVIOUS
  <2> QED BY <2>1, <2>3, <2>4, <2>5
<1>10. CASE type = "variable_int"
  <2>1. v \in Nat /\ Serialize(id, v) = CodeVarInt(v) /\ Size(id, v) = GetVarIntSize(v)
    BY <1>2, <1>3, <1>10 DEF HasType, Serialize, Size
  <2> QED BY <2>1, LenVarInt
<1> QED BY <1>4, <1>5, <1>6, <1>7, <1>8, <1>9, <1>10

\* A chain of typed properties, and what each identifier takes of it.
IsChain(chain) == DOMAIN chain \subseteq 1..9 /\ \A id \in DOMAIN chain : Typed(id, chain[id])
\* The bytes that each identifier takes in a chain.
Takes(chain) == [id \in 1..9 |-> IF id \in DOMAIN chain THEN Size(id, chain[id]) + 1 ELSE 0]
\* The bytes of each identifier in a chain.
Parts(chain) == [id \in 1..9 |-> IF id \in DOMAIN chain THEN <<id>> \o Serialize(id, chain[id]) ELSE <<>>]

\* Each identifier is written in the bytes it takes.
LEMMA PartsTake ==
    ASSUME NEW chain, IsChain(chain)
    PROVE  /\ Takes(chain) \in [1..9 -> Nat]
           /\ \A id \in 1..9 : HasLen(Parts(chain)[id], Takes(chain)[id])
<1>1. ASSUME NEW id \in 1..9
      PROVE  HasLen(Parts(chain)[id], Takes(chain)[id])
  <2>1. CASE id \in DOMAIN chain
    <3>1. HasLen(Serialize(id, chain[id]), Size(id, chain[id]))
      BY <2>1, Serialized DEF IsChain
    <3>2. HasLen(<<id>>, 1)
      BY LenByte
    <3>3. HasLen(<<id>> \o Serialize(id, chain[id]), 1 + Size(id, chain[id]))
      BY <3>1, <3>2, LenConcat
    <3>4. PICK n \in Nat : n = Size(id, chain[id])
      BY <3>1 DEF HasLen
    <3>5. 1 + n = n + 1
      OBVIOUS
    <3>6. Takes(chain)[id] = Size(id, chain[id]) + 1
      BY <2>1 DEF Takes
    <3>7. Parts(chain)[id] = <<id>> \o Serialize(id, chain[id])
      BY <2>1 DEF Parts
    <3> QED BY <3>3, <3>4, <3>5, <3>6, <3>7
  <2>2. CASE id \notin DOMAIN chain
    <3>1. Takes(chain)[id] = 0 /\ Parts(chain)[id] = <<>>
      BY <2>2 DEF Takes, Parts
    <3>2. <<>> \in Seq(Nat) /\ Len(<<>>) = 0
      OBVIOUS
    <3> QED BY <3>1, <3>2 DEF HasLen
  <2> QED BY <2>1, <2>2
<1>2. \A id \in 1..9 : Takes(chain)[id] \in Nat
  BY <1>1 DEF HasLen
<1>3. Takes(chain) = [id \in 1..9 |-> Takes(chain)[id]]
  BY DEF Takes
<1> QED BY <1>1, <1>2, <1>3

\* The bytes of a chain behind its length.
ChainUpTo(u, chain) ==
    u = [id \in 0..Len(DataType) |->
            IF id = 0 THEN 0
            ELSE u[id - 1] + (IF id \in DOMAIN chain THEN Size(id, chain[id]) + 1 ELSE 0)]
\* The bytes of a chain before a uint16_t counts them.
ChainTotal(chain) == (CHOOSE u : ChainUpTo(u, chain))[Len(DataType)]

\* GetSize is that number as a uint16_t.
LEMMA ChainSize ==
    ASSUME NEW chain
    PROVE  GetSize(chain) = ChainTotal(chain) % Word
BY DEF GetSize, ChainTotal, ChainUpTo

\* GetSize adds up what the identifiers take.
LEMMA ChainUpToIs ==
    ASSUME NEW chain, NEW u
    PROVE  ChainUpTo(u, chain) <=> SumsUpTo(u, Takes(chain), 9)
<1>1. SUFFICES ASSUME NEW id \in 0..9
               PROVE  (IF id = 0 THEN 0 ELSE u[id - 1] + Takes(chain)[id])
                      = (IF id = 0 THEN 0
                         ELSE u[id - 1] + (IF id \in DOMAIN chain THEN Size(id, chain[id]) + 1 ELSE 0))
  BY DataTypes DEF SumsUpTo, ChainUpTo
<1>2. CASE id = 0
  BY <1>2
<1>3. CASE id # 0
  <2>1. id \in 1..9
    BY <1>3
  <2> QED BY <1>3, <2>1 DEF Takes
<1> QED BY <1>2, <1>3

\* The sums exist.
LEMMA ChainSums ==
    ASSUME NEW chain, IsChain(chain)
    PROVE  \E u : Sums(u, Takes(chain), 9) /\ ChainTotal(chain) = u[9]
<1>1. PICK u : u = CHOOSE v : ChainUpTo(v, chain)
  OBVIOUS
<1>2. SumsUpTo(u, Takes(chain), 9)
  <2>1. PICK v : SumsUpTo(v, Takes(chain), 9)
    <3>1. 9 \in Nat
      OBVIOUS
    <3> QED BY <3>1, SumsExist
  <2>2. ChainUpTo(v, chain)
    BY <2>1, ChainUpToIs
  <2>3. ChainUpTo(u, chain)
    BY <1>1, <2>2
  <2> QED BY <2>3, ChainUpToIs
<1>3. Sums(u, Takes(chain), 9)
  <2>1. 9 \in Nat
    OBVIOUS
  <2> QED BY <1>2, <2>1, PartsTake, SumsAre
<1>4. ChainTotal(chain) = u[9]
  BY <1>1, DataTypes DEF ChainTotal
<1> QED BY <1>3, <1>4

\* A chain that a uint16_t counts is written with the size it has.
LEMMA ChainSerialized ==
    ASSUME NEW chain, IsChain(chain), ChainTotal(chain) < Word
    PROVE  /\ GetSize(chain) = ChainTotal(chain)
           /\ HasLen(SerializeChain(chain), GetVarIntSize(GetSize(chain)) + GetSize(chain))
           /\ \E all : /\ HasLen(all, GetSize(chain))
                       /\ SerializeChain(chain) = CodeVarInt(GetSize(chain)) \o all
<1>1. PICK u : Sums(u, Takes(chain), 9) /\ ChainTotal(chain) = u[9]
  BY ChainSums
<1>2. u[9] \in Nat
  BY <1>1 DEF Sums
<1>3. GetSize(chain) = u[9]
  <2>1. u[9] % Word = u[9]
    BY <1>1, <1>2, ByteFacts, DivSmall
  <2> QED BY <1>1, <2>1, ChainSize
<1>4. Parts(chain) \in Seq(Seq(Nat)) /\ Len(Parts(chain)) = 9
  <2>1. \A id \in 1..9 : Parts(chain)[id] \in Seq(Nat)
    BY PartsTake DEF HasLen
  <2>2. Parts(chain) = [id \in 1..9 |-> Parts(chain)[id]]
    BY DEF Parts
  <2>3. PICK T : T = Seq(Nat)
    OBVIOUS
  <2>4. PICK g \in [1..9 -> T] : g = Parts(chain)
    BY <2>1, <2>2, <2>3
  <2>5. g \in Seq(T) /\ Len(g) = 9
    <3>1. 9 \in Nat
      OBVIOUS
    <3> QED BY <3>1, SeqOfFunction
  <2> QED BY <2>3, <2>4, <2>5
<1>5. Places(u, Parts(chain))
  <2>1. \A id \in 1..9 : Len(Parts(chain)[id]) = Takes(chain)[id]
    BY PartsTake DEF HasLen
  <2> QED BY <1>1, <1>4, <2>1 DEF Places, Sums
<1>6. PICK ss \in Seq(Seq(Nat)) : ss = Parts(chain) /\ Len(ss) = 9 /\ Places(u, ss)
  BY <1>4, <1>5
<1>7. FlattenSeq(ss) \in Seq(Nat) /\ Len(FlattenSeq(ss)) = u[9]
  BY <1>6, Flattened
<1>8. HasLen(FlattenSeq(Parts(chain)), GetSize(chain))
  BY <1>2, <1>3, <1>6, <1>7 DEF HasLen
<1>9. HasLen(CodeVarInt(GetSize(chain)), GetVarIntSize(GetSize(chain)))
  BY <1>2, <1>3, LenVarInt
<1>10. SerializeChain(chain) = CodeVarInt(GetSize(chain)) \o FlattenSeq(Parts(chain))
  BY DataTypes DEF SerializeChain, Parts
<1> QED BY <1>1, <1>3, <1>8, <1>9, <1>10, LenConcat

\* A variable header the broker makes.
IsHeader(vh) ==
    /\ IsChain(vh.chain) /\ ChainTotal(vh.chain) < Word
    /\ CASE vh.kind = "Connack" -> vh.flags \in Nat /\ vh.code \in Nat
         [] vh.kind = "Disconnect" -> vh.code \in Nat
         [] vh.kind = "Typical" -> vh.packet_id \in Nat /\ vh.code \in Nat
         [] vh.kind = "Suback" -> vh.packet_id \in Nat /\ vh.codes \in Seq(Nat)
         [] vh.kind = "Publish" -> vh.packet_id \in Nat /\ vh.topic \in Seq(Nat)
    /\ vh.kind \in {"Connack", "Disconnect", "Typical", "Suback", "Publish"}

\* A PUBLISH without a packet identifier is two bytes shorter than its size.
LEMMA HeaderSerialized ==
    ASSUME NEW vh, IsHeader(vh)
    PROVE  \E n \in Nat :
               /\ HasLen(SerializeHeader(vh), n)
               /\ HeaderSize(vh) = IF vh.kind = "Publish" /\ vh.packet_id = 0 THEN n + 2 ELSE n
<1>1. PICK chain : chain = vh.chain
  OBVIOUS
<1>2. PICK c \in Nat : /\ HasLen(SerializeChain(chain), c)
                       /\ GetVarIntSize(GetSize(chain)) \in Nat /\ GetSize(chain) \in Nat
                       /\ c = GetVarIntSize(GetSize(chain)) + GetSize(chain)
  <2>1. IsChain(chain) /\ ChainTotal(chain) < Word
    BY <1>1 DEF IsHeader
  <2>2. PICK u : Sums(u, Takes(chain), 9) /\ ChainTotal(chain) = u[9]
    BY <2>1, ChainSums
  <2>3. GetSize(chain) \in Nat
    BY <2>1, <2>2, ChainSerialized DEF Sums
  <2>4. GetVarIntSize(GetSize(chain)) \in Nat
    BY <2>3, LenVarInt DEF HasLen
  <2>5. HasLen(SerializeChain(chain), GetVarIntSize(GetSize(chain)) + GetSize(chain))
    BY <2>1, ChainSerialized
  <2> QED BY <2>3, <2>4, <2>5
<1>3. PICK f : f = FixedSize(vh)
  OBVIOUS
<1>4. f \in Nat => HeaderSize(vh) = f + c
  BY <1>1, <1>2, <1>3 DEF HeaderSize
<1>5. PICK sc : sc = SerializeChain(chain) /\ HasLen(sc, c)
  BY <1>2
<1>6. CASE vh.kind = "Connack"
  <2>1. vh.flags \in Nat /\ vh.code \in Nat /\ f = 2
    BY <1>3, <1>6 DEF IsHeader, FixedSize
  <2>2. HasLen(<<vh.flags, vh.code>>, 2)
    BY <2>1 DEF HasLen
  <2>3. SerializeHeader(vh) = <<vh.flags, vh.code>> \o sc
    BY <1>1, <1>5, <1>6 DEF SerializeHeader
  <2>4. HasLen(SerializeHeader(vh), 2 + c)
    BY <1>5, <2>2, <2>3, LenConcat
  <2> QED BY <1>4, <1>6, <2>1, <2>4
<1>7. CASE vh.kind = "Disconnect"
  <2>1. vh.code \in Nat /\ f = 1
    BY <1>3, <1>7 DEF IsHeader, FixedSize
  <2>2. HasLen(<<vh.code>>, 1)
    BY <2>1 DEF HasLen
  <2>3. SerializeHeader(vh) = <<vh.code>> \o sc
    BY <1>1, <1>5, <1>7 DEF SerializeHeader
  <2>4. HasLen(SerializeHeader(vh), 1 + c)
    BY <1>5, <2>2, <2>3, LenConcat
  <2> QED BY <1>4, <1>7, <2>1, <2>4
<1>8. CASE vh.kind = "Typical"
  <2>1. vh.packet_id \in Nat /\ vh.code \in Nat /\ f = 3
    BY <1>3, <1>8 DEF IsHeader, FixedSize
  <2>2. HasLen(<<vh.code>>, 1) /\ HasLen(Big2(vh.packet_id), 2)
    BY <2>1, LenByte, LenBig2
  <2>3. SerializeHeader(vh) = (Big2(vh.packet_id) \o <<vh.code>>) \o sc
    BY <1>1, <1>5, <1>8 DEF SerializeHeader
  <2>4. HasLen(Big2(vh.packet_id) \o <<vh.code>>, 2 + 1)
    BY <2>2, LenConcat
  <2>5. HasLen(SerializeHeader(vh), (2 + 1) + c)
    BY <1>5, <2>3, <2>4, LenConcat
  <2> QED BY <1>4, <1>8, <2>1, <2>5
<1>9. CASE vh.kind = "Suback"
  <2>1. vh.packet_id \in Nat /\ vh.codes \in Seq(Nat) /\ f = 2 + Len(vh.codes)
    BY <1>3, <1>9 DEF IsHeader, FixedSize
  <2>2. PICK k \in Nat : k = Len(vh.codes)
    BY <2>1
  <2>3. HasLen(Big2(vh.packet_id), 2) /\ HasLen(vh.codes, k)
    BY <2>1, <2>2, LenBig2 DEF HasLen
  <2>4. SerializeHeader(vh) = (Big2(vh.packet_id) \o sc) \o vh.codes
    BY <1>1, <1>5, <1>9 DEF SerializeHeader
  <2>5. HasLen(Big2(vh.packet_id) \o sc, 2 + c)
    BY <1>5, <2>3, LenConcat
  <2>6. HasLen(SerializeHeader(vh), (2 + c) + k)
    BY <2>3, <2>4, <2>5, LenConcat
  <2>7. f + c = (2 + c) + k /\ f \in Nat
    <3>1. f = 2 + k
      BY <2>1, <2>2
    <3> QED BY <3>1
  <2> QED BY <1>4, <1>9, <2>6, <2>7
<1>10. CASE vh.kind = "Publish"
  <2>1. vh.packet_id \in Nat /\ vh.topic \in Seq(Nat) /\ f = 2 + Len(vh.topic) + 2
    BY <1>3, <1>10 DEF IsHeader, FixedSize
  <2>2. PICK k \in Nat : k = Len(vh.topic)
    BY <2>1
  <2>3. HasLen(SerializeString(vh.topic), 2 + k)
    BY <2>1, <2>2, LenString
  <2>4. PICK id : id = IF vh.packet_id # 0 THEN Big2(vh.packet_id) ELSE <<>>
    OBVIOUS
  <2>5. PICK m \in Nat : HasLen(id, m) /\ m = IF vh.packet_id # 0 THEN 2 ELSE 0
    <3>1. CASE vh.packet_id # 0
      BY <2>1, <2>4, <3>1, LenBig2
    <3>2. CASE vh.packet_id = 0
      BY <2>4, <3>2 DEF HasLen
    <3> QED BY <3>1, <3>2
  <2>6. SerializeHeader(vh) = (SerializeString(vh.topic) \o id) \o sc
    BY <1>1, <1>5, <1>10, <2>4 DEF SerializeHeader
  <2>7. HasLen(SerializeString(vh.topic) \o id, (2 + k) + m)
    BY <2>3, <2>5, LenConcat
  <2>8. HasLen(SerializeHeader(vh), ((2 + k) + m) + c)
    BY <1>5, <2>6, <2>7, LenConcat
  <2>9. f + c = IF vh.packet_id = 0 THEN ((2 + k) + m) + c + 2 ELSE ((2 + k) + m) + c
    <3>1. f = (2 + k) + 2
      BY <2>1, <2>2
    <3>2. m = IF vh.packet_id = 0 THEN 0 ELSE 2
      BY <2>5
    <3> QED BY <3>1, <3>2
  <2>10. f \in Nat
    BY <2>1, <2>2
  <2> QED BY <1>4, <1>10, <2>8, <2>9, <2>10
<1> QED BY <1>6, <1>7, <1>8, <1>9, <1>10 DEF IsHeader

\* What is announced is what follows, and it fills the buffer.
LEMMA FramedIff ==
    ASSUME NEW body, NEW n \in Nat, HasLen(body, n), n < Limits[4], NEW remaining_len \in Nat
    PROVE  Framed([len |-> CodeVarInt(remaining_len), body |-> body,
                   size |-> remaining_len + GetVarIntSize(remaining_len) + 1])
           <=> remaining_len = n
<1>1. PICK k \in Nat : k = GetVarIntSize(remaining_len) /\ Len(CodeVarInt(remaining_len)) = k
  BY LenVarInt DEF HasLen
<1>2. Len(body) = n
  BY DEF HasLen
<1>3. remaining_len + k + 1 = 1 + k + n <=> remaining_len = n
  OBVIOUS
<1>4. CASE remaining_len = n
  <2>1. CodeVarInt(remaining_len) = IntBytes(n)
    BY <1>4, CodeVarIntExact
  <2> QED BY <1>1, <1>2, <1>3, <1>4, <2>1 DEF Framed
<1>5. CASE remaining_len # n
  BY <1>1, <1>2, <1>3, <1>5 DEF Framed
<1> QED BY <1>4, <1>5

\* The largest integer the protocol has is above every uint16_t.
LEMMA LimitsAbove ==
    Limits[4] \in Nat /\ Limits[4] >= Word + 500
<1>1. PICK r \in Nat : r = Radix /\ r >= 5
  BY RadixAssumption
<1>2. PICK a \in Nat : a = r * r
  OBVIOUS
<1>3. a >= 25
  <2>1. PICK k \in Nat : r = 5 + k
    BY <1>1
  <2>2. PICK m \in Nat : m = k * k
    OBVIOUS
  <2>3. (5 + k) * (5 + k) = 25 + 10 * k + m
    BY <2>2
  <2> QED BY <1>2, <2>1, <2>3
<1>4. PICK b \in Nat : b = a * a
  OBVIOUS
<1>5. b >= 4 * a + 500
  <2>1. PICK k \in Nat : a = 25 + k
    BY <1>3
  <2>2. PICK m \in Nat : m = k * k
    OBVIOUS
  <2>3. (25 + k) * (25 + k) = 625 + 50 * k + m
    BY <2>2
  <2> QED BY <1>4, <2>1, <2>3
<1>6. Limits[4] = b
  <2>1. r * r * r * r = (r * r) * (r * r)
    OBVIOUS
  <2> QED BY <1>1, <1>2, <1>4, <2>1, LimitsAre
<1>7. Word = 4 * a
  <2>1. (2 * r) * (2 * r) = 4 * (r * r)
    OBVIOUS
  <2> QED BY <1>1, <1>2, <2>1 DEF Word, Byte
<1> QED BY <1>5, <1>6, <1>7

\* An integer the protocol has is written in one to four bytes.
LEMMA VarIntSizeAtMost ==
    ASSUME NEW n \in Nat, n < Limits[4]
    PROVE  GetVarIntSize(n) \in 1..4
<1> DEFINE S == {j \in 1..4 : n < Limits[j]}
<1>1. S \in SUBSET Nat /\ S # {}
  <2>1. 4 \in S
    OBVIOUS
  <2>2. S \in SUBSET Nat
    OBVIOUS
  <2> QED BY <2>1, <2>2
<1> HIDE DEF S
<1>2. PICK k \in S : \A y \in S : k <= y
  BY <1>1, LeastElement
<1>3. Min(S) = k
  BY <1>1, <1>2, MinIs
<1>4. k \in 1..4
  BY <1>2 DEF S
<1>5. PICK g : g = IntBytes(n)
  OBVIOUS
<1>6. DOMAIN g = 1..k
  BY <1>3, <1>5 DEF IntBytes, S
<1>7. g \in Seq(Nat) /\ Len(g) = GetVarIntSize(n)
  BY <1>5, CodeVarIntExact, CodeVarIntType, SizeOfVarInt
<1>8. PICK m \in Nat : m = Len(g) /\ DOMAIN g = 1..m
  BY <1>7, LenProperties
<1>9. 1..m = 1..k
  BY <1>6, <1>8
<1>10. m = k
  <2>1. k \in 1..m
    BY <1>4, <1>9
  <2>2. m \in 1..k
    <3>1. m >= 1
      BY <1>4, <2>1
    <3>2. m \in 1..m
      BY <3>1
    <3> QED BY <1>9, <3>2
  <2> QED BY <1>4, <2>1, <2>2
<1> QED BY <1>4, <1>7, <1>8, <1>10

\* Every packet but PUBLISH is framed.
LEMMA AnswerFramed ==
    ASSUME NEW vh, IsHeader(vh), vh.kind # "Publish", HeaderSize(vh) < Limits[4]
    PROVE  Framed(CreateMqttPacket(vh))
<1>1. PICK n \in Nat : HasLen(SerializeHeader(vh), n) /\ HeaderSize(vh) = n
  BY HeaderSerialized
<1>2. PICK body : body = SerializeHeader(vh)
  OBVIOUS
<1>3. Framed([len |-> CodeVarInt(n), body |-> body, size |-> n + GetVarIntSize(n) + 1])
  BY <1>1, <1>2, FramedIff
<1> QED BY <1>1, <1>2, <1>3 DEF CreateMqttPacket

\* A chain without properties is its length, one byte 0.
LEMMA EmptyChain ==
    /\ IsChain(NoProperties) /\ ChainTotal(NoProperties) = 0 /\ GetSize(NoProperties) = 0
    /\ GetVarIntSize(0) = 1
<1>1. DOMAIN NoProperties = {}
  BY DEF NoProperties
<1>2. IsChain(NoProperties)
  BY <1>1 DEF IsChain
<1>3. PICK u : Sums(u, Takes(NoProperties), 9) /\ ChainTotal(NoProperties) = u[9]
  BY <1>2, ChainSums
<1>4. \A i \in 1..9 : Takes(NoProperties)[i] = 0
  BY <1>1 DEF Takes
<1>5. u[0] = 0 /\ \A i \in 1..9 : u[i - 1] \in Nat /\ u[i] = u[i - 1]
  BY <1>3, <1>4 DEF Sums
<1>6. u[1] = 0 /\ u[2] = 0 /\ u[3] = 0 /\ u[4] = 0 /\ u[5] = 0 /\ u[6] = 0 /\ u[7] = 0 /\ u[8] = 0 /\ u[9] = 0
  <2>1. u[1 - 1] = u[1] /\ u[2 - 1] = u[2] /\ u[3 - 1] = u[3] /\ u[4 - 1] = u[4] /\ u[5 - 1] = u[5]
    BY <1>5
  <2>2. u[6 - 1] = u[6] /\ u[7 - 1] = u[7] /\ u[8 - 1] = u[8] /\ u[9 - 1] = u[9]
    BY <1>5
  <2> QED BY <1>5, <2>1, <2>2
<1>7. ChainTotal(NoProperties) = 0
  BY <1>3, <1>6
<1>8. GetSize(NoProperties) = 0
  BY <1>2, <1>7, ByteFacts, ChainSerialized
<1>9. GetVarIntSize(0) = 1
  BY DEF GetVarIntSize
<1> QED BY <1>2, <1>7, <1>8, <1>9

\* A relayed message is framed if and only if it has QoS 0 or a packet id other
\* than 0: NotifyClients and CreateMqttPacket with what GenPacketID returns once
\* its uint16_t has come round.
THEOREM RelayFramed ==
    ASSUME NEW topic \in Seq(Nat), NEW message \in Seq(Nat), NEW qos, NEW packet_id \in Nat,
           5 + Len(topic) + Len(message) < Limits[4]
    PROVE  Framed(Relay(topic, qos, packet_id, message)) <=> (qos # 0 => packet_id # 0)
<1>1. PICK id \in Nat : id = IF qos = 0 THEN 0 ELSE packet_id
  OBVIOUS
<1>2. PICK vh : vh = [kind |-> "Publish", topic |-> topic, packet_id |-> id, chain |-> NoProperties]
  OBVIOUS
<1>3. vh.kind = "Publish" /\ vh.topic = topic /\ vh.packet_id = id /\ vh.chain = NoProperties
  BY <1>2
<1>4. IsHeader(vh)
  <2>1. ChainTotal(NoProperties) < Word
    BY EmptyChain, ByteFacts
  <2> QED BY <1>3, <2>1, EmptyChain DEF IsHeader
<1>5. PICK n \in Nat : /\ HasLen(SerializeHeader(vh), n)
                       /\ HeaderSize(vh) = IF id = 0 THEN n + 2 ELSE n
  BY <1>3, <1>4, HeaderSerialized
<1>6. PICK k \in Nat, m \in Nat : k = Len(topic) /\ m = Len(message) /\ 5 + k + m < Limits[4]
  OBVIOUS
<1>7. HeaderSize(vh) = 5 + k
  <2>1. FixedSize(vh) = 2 + k + 2
    BY <1>3, <1>6 DEF FixedSize
  <2>2. HeaderSize(vh) = 2 + k + 2 + 1 + 0
    BY <1>3, <2>1, EmptyChain DEF HeaderSize
  <2> QED BY <2>2
<1>8. HasLen(SerializeHeader(vh) \o message, n + m)
  <2>1. HasLen(message, m)
    BY <1>6 DEF HasLen
  <2> QED BY <1>5, <2>1, LenConcat
<1>9. PICK r \in Nat : r = HeaderSize(vh) + m - (IF qos = 0 THEN 2 ELSE 0)
  <2>1. 5 + k + m - (IF qos = 0 THEN 2 ELSE 0) \in Nat
    OBVIOUS
  <2> QED BY <1>7, <2>1
<1>10. PICK body : body = SerializeHeader(vh) \o message
  OBVIOUS
<1>11. n + m < Limits[4] /\ n + m \in Nat
  BY <1>5, <1>6, <1>7, LimitsAbove
<1>12. Framed([len |-> CodeVarInt(r), body |-> body, size |-> r + GetVarIntSize(r) + 1]) <=> r = n + m
  BY <1>8, <1>10, <1>11, FramedIff
<1>13. r = n + m <=> (qos # 0 => packet_id # 0)
  BY <1>1, <1>5, <1>7, <1>9
<1>14. Relay(topic, qos, packet_id, message)
       = [len |-> CodeVarInt(r), body |-> body, size |-> r + GetVarIntSize(r) + 1]
  BY <1>1, <1>2, <1>6, <1>9, <1>10 DEF Relay, CreatePublish
<1> QED BY <1>12, <1>13, <1>14

-----------------------------------------------------------------------------
(* What the broker reads where the protocol's bytes lie. *)

\* Where a concatenation lies, its parts lie one behind the other.
LEMMA HoldsConcat ==
    ASSUME NEW s, NEW t, NEW m, NEW n, HasLen(s, m), HasLen(t, n), NEW mem, NEW o \in Nat,
           Holds(mem, o, s \o t)
    PROVE  Holds(mem, o, s) /\ Holds(mem, o + m, t)
<1>1. s \in Seq(Nat) /\ t \in Seq(Nat) /\ m \in Nat /\ n \in Nat /\ Len(s) = m /\ Len(t) = n
  BY DEF HasLen
<1>2. /\ Len(s \o t) = Len(s) + Len(t)
      /\ \A i \in 1..Len(s) : (s \o t)[i] = s[i]
      /\ \A i \in 1..Len(t) : (s \o t)[Len(s) + i] = t[i]
  <2>1. PICK a \in Seq(Nat), c \in Seq(Nat) : a = s /\ c = t
    BY <1>1
  <2>2. /\ Len(a \o c) = Len(a) + Len(c)
        /\ \A i \in 1..Len(a) : (a \o c)[i] = a[i]
        /\ \A i \in 1..Len(c) : (a \o c)[Len(a) + i] = c[i]
    BY ConcatKeeps
  <2> QED BY <2>1, <2>2
<1>3. PICK u : u = s \o t
  OBVIOUS
<1>4. /\ \A i \in 1..(m + n) : At(mem, o + i - 1) = u[i]
      /\ \A i \in 1..m : u[i] = s[i]
      /\ \A i \in 1..n : u[m + i] = t[i]
  BY <1>1, <1>2, <1>3 DEF Holds
<1>5. ASSUME NEW i \in 1..m PROVE At(mem, o + i - 1) = s[i]
  <2>1. i \in 1..(m + n)
    BY <1>1
  <2> QED BY <1>4, <2>1
<1>6. ASSUME NEW i \in 1..n PROVE At(mem, (o + m) + i - 1) = t[i]
  <2>1. m + i \in 1..(m + n) /\ (o + m) + i - 1 = o + (m + i) - 1
    BY <1>1
  <2> QED BY <1>4, <2>1
<1> QED BY <1>1, <1>5, <1>6 DEF Holds

\* The bytes that lie in memory are read.
LEMMA ReadHeld ==
    ASSUME NEW s, NEW n, HasLen(s, n), NEW mem, NEW o \in Nat, Holds(mem, o, s)
    PROVE  Read(mem, o, n) = s
<1>1. s \in Seq(Nat) /\ n \in Nat /\ Len(s) = n
  BY DEF HasLen
<1>2. \A i \in 1..n : At(mem, o + i - 1) = s[i]
  BY <1>1 DEF Holds
<1>3. s = [i \in 1..n |-> s[i]]
  BY <1>1
<1> QED BY <1>2, <1>3 DEF Read

\* A byte is read.
LEMMA HeldByte ==
    ASSUME NEW v, NEW mem, NEW o \in Nat, Holds(mem, o, <<v>>)
    PROVE  At(mem, o) = v
<1>1. 1 \in 1..Len(<<v>>) /\ <<v>>[1] = v /\ o + 1 - 1 = o
  OBVIOUS
<1> QED BY <1>1 DEF Holds

\* Two bytes are read.
LEMMA HeldPair ==
    ASSUME NEW a, NEW b, NEW mem, NEW o \in Nat, Holds(mem, o, <<a, b>>)
    PROVE  At(mem, o) = a /\ At(mem, o + 1) = b
<1>1. 1 \in 1..Len(<<a, b>>) /\ 2 \in 1..Len(<<a, b>>) /\ o + 1 - 1 = o /\ o + 2 - 1 = o + 1
  OBVIOUS
<1>2. <<a, b>>[1] = a /\ <<a, b>>[2] = b
  OBVIOUS
<1> QED BY <1>1, <1>2 DEF Holds

\* Two bytes of a number, the high one first.
LEMMA HeldNumber ==
    ASSUME NEW v \in Nat, NEW mem, NEW o \in Nat, Holds(mem, o, <<v \div Byte, v % Byte>>)
    PROVE  ConvertToHost2Bytes(mem, o) = v
<1>1. PICK q \in Nat, r \in Nat, b \in Nat \ {0} : q = v \div Byte /\ r = v % Byte /\ b = Byte
  <2>1. Byte \in Nat \ {0}
    BY ByteFacts
  <2>2. v \div Byte \in Nat /\ v % Byte \in 0..(Byte - 1)
    BY <2>1, DivModRange
  <2> QED BY <2>1, <2>2
<1>2. v = b * q + r
  BY <1>1, DivMod
<1>3. At(mem, o) = q /\ At(mem, o + 1) = r
  BY <1>1, HeldPair
<1>4. q * b + r = b * q + r
  OBVIOUS
<1> QED BY <1>1, <1>2, <1>3, <1>4 DEF ConvertToHost2Bytes

\* A number of two bytes has two bytes.
LEMMA LenNumber ==
    ASSUME NEW v \in Nat
    PROVE  HasLen(<<v \div Byte, v % Byte>>, 2)
<1>1. PICK q \in Nat, r \in Nat : q = v \div Byte /\ r = v % Byte
  <2>1. Byte \in Nat \ {0}
    BY ByteFacts
  <2>2. v \div Byte \in Nat /\ v % Byte \in 0..(Byte - 1)
    BY <2>1, DivModRange
  <2> QED BY <2>1, <2>2
<1>2. HasLen(<<q, r>>, 2)
  BY DEF HasLen
<1> QED BY <1>1, <1>2

\* The protocol writes a string behind two bytes of length.
LEMMA StringLen ==
    ASSUME NEW s \in Seq(Nat)
    PROVE  HasLen(StringBytes(s), 2 + Len(s)) /\ HasLen(s, Len(s))
<1>1. HasLen(s, Len(s)) /\ Len(s) \in Nat
  BY DEF HasLen
<1>2. HasLen(<<Len(s) \div Byte, Len(s) % Byte>>, 2)
  BY <1>1, LenNumber
<1> QED BY <1>1, <1>2, LenConcat DEF StringBytes

\* Where a string lies, its length and then its bytes are read.
LEMMA StringHeld ==
    ASSUME NEW s \in Seq(Nat), NEW mem, NEW o \in Nat, Holds(mem, o, StringBytes(s))
    PROVE  /\ ConvertToHost2Bytes(mem, o) = Len(s)
           /\ Read(mem, o + 2, Len(s)) = s
<1>1. HasLen(s, Len(s)) /\ Len(s) \in Nat
  BY DEF HasLen
<1>2. HasLen(<<Len(s) \div Byte, Len(s) % Byte>>, 2)
  BY <1>1, LenNumber
<1>3. Holds(mem, o, <<Len(s) \div Byte, Len(s) % Byte>>) /\ Holds(mem, o + 2, s)
  BY <1>1, <1>2, HoldsConcat DEF StringBytes
<1>4. ConvertToHost2Bytes(mem, o) = Len(s)
  BY <1>1, <1>3, HeldNumber
<1>5. o + 2 \in Nat
  OBVIOUS
<1>6. Read(mem, o + 2, Len(s)) = s
  BY <1>1, <1>3, <1>5, ReadHeld
<1> QED BY <1>4, <1>6

\* The low byte of a number is that of its low half.
LEMMA LowByte ==
    ASSUME NEW v \in Nat
    PROVE  v % Byte = (v % Word) % Byte
<1>1. PICK b \in Nat \ {0} : b = Byte /\ Word = b * b
  BY ByteFacts
<1>2. PICK w \in Nat \ {0} : w = Word /\ w = b * b
  BY <1>1, ByteFacts
<1>3. PICK q \in Nat, l \in Nat : q = v \div w /\ l = v % w /\ v = w * q + l
  <2>1. v \div w \in Nat /\ v % w \in 0..(w - 1) /\ v = w * (v \div w) + (v % w)
    BY DivModRange, DivMod
  <2> QED BY <2>1
<1>4. PICK a \in Nat, c \in 0..(b - 1) : a = l \div b /\ c = l % b /\ l = b * a + c
  <2>1. l \div b \in Nat /\ l % b \in 0..(b - 1) /\ l = b * (l \div b) + (l % b)
    BY DivModRange, DivMod
  <2> QED BY <2>1
<1>5. PICK k \in Nat : k = b * q + a
  <2>1. b * q \in Nat
    OBVIOUS
  <2> QED BY <2>1
<1>6. v = b * k + c
  <2>1. (b * b) * q = b * (b * q)
    OBVIOUS
  <2>2. b * (b * q + a) = b * (b * q) + b * a
    OBVIOUS
  <2>3. PICK x \in Nat, y \in Nat : x = b * (b * q) /\ y = b * a
    OBVIOUS
  <2>4. v = x + (y + c)
    BY <1>2, <1>3, <1>4, <2>1, <2>3
  <2>5. b * k = x + y
    BY <1>5, <2>2, <2>3
  <2> QED BY <2>4, <2>5
<1>7. (b * k + c) % b = c
  BY DivModUnique
<1> QED BY <1>1, <1>2, <1>3, <1>4, <1>6, <1>7

\* Four bytes are read.
LEMMA HeldQuad ==
    ASSUME NEW a, NEW b, NEW c, NEW d, NEW mem, NEW o \in Nat, Holds(mem, o, <<a, b, c, d>>)
    PROVE  At(mem, o) = a /\ At(mem, o + 1) = b /\ At(mem, o + 2) = c /\ At(mem, o + 3) = d
<1>1. Len(<<a, b, c, d>>) = 4
  OBVIOUS
<1>2. 1 \in 1..4 /\ 2 \in 1..4 /\ 3 \in 1..4 /\ 4 \in 1..4
  OBVIOUS
<1>3. o + 1 - 1 = o /\ o + 2 - 1 = o + 1 /\ o + 3 - 1 = o + 2 /\ o + 4 - 1 = o + 3
  OBVIOUS
<1>4. <<a, b, c, d>>[1] = a /\ <<a, b, c, d>>[2] = b /\ <<a, b, c, d>>[3] = c /\ <<a, b, c, d>>[4] = d
  OBVIOUS
<1> QED BY <1>1, <1>2, <1>3, <1>4 DEF Holds

\* The four bytes of a number, the high one first.
FourBytes(v) == <<(v \div Word) \div Byte, (v \div Word) % Byte, (v % Word) \div Byte, v % Byte>>

\* ConvertToHost4Bytes reads a number of four bytes.
LEMMA HeldFourBytes ==
    ASSUME NEW v \in Nat, NEW mem, NEW o \in Nat, Holds(mem, o, FourBytes(v))
    PROVE  ConvertToHost4Bytes(mem, o) = v
<1>1. PICK b \in Nat \ {0}, w \in Nat \ {0} : b = Byte /\ w = Word
  BY ByteFacts
<1>2. PICK h \in Nat, l \in Nat : h = v \div w /\ l = v % w /\ v = w * h + l
  <2>1. v \div w \in Nat /\ v % w \in 0..(w - 1) /\ v = w * (v \div w) + (v % w)
    BY DivModRange, DivMod
  <2> QED BY <2>1
<1>3. v % b = l % b
  BY <1>1, <1>2, LowByte
<1>4. Holds(mem, o, <<h \div b, h % b, l \div b, l % b>>)
  BY <1>1, <1>2, <1>3 DEF FourBytes
<1>5. /\ At(mem, o) = h \div b /\ At(mem, o + 1) = h % b
      /\ At(mem, o + 2) = l \div b /\ At(mem, o + 3) = l % b
  BY <1>4, HeldQuad
<1>6. h = b * (h \div b) + (h % b) /\ l = b * (l \div b) + (l % b)
  BY DivMod
<1>7. PICK h1 \in Nat, h2 \in Nat, l1 \in Nat, l2 \in Nat :
          h1 = h \div b /\ h2 = h % b /\ l1 = l \div b /\ l2 = l % b
  <2>1. h \div b \in Nat /\ h % b \in 0..(b - 1) /\ l \div b \in Nat /\ l % b \in 0..(b - 1)
    BY DivModRange
  <2> QED BY <2>1
<1>8. h1 * b + h2 = h /\ l1 * b + l2 = l
  BY <1>6, <1>7
<1>9. o + 2 + 1 = o + 3
  OBVIOUS
<1>10. ConvertToHost2Bytes(mem, o) = h /\ ConvertToHost2Bytes(mem, o + 2) = l
  BY <1>1, <1>5, <1>7, <1>8, <1>9 DEF ConvertToHost2Bytes
<1>11. h * w + l = v
  BY <1>2
<1> QED BY <1>1, <1>10, <1>11 DEF ConvertToHost4Bytes

\* A number of four bytes has four bytes.
LEMMA LenFourBytes ==
    ASSUME NEW v \in Nat
    PROVE  HasLen(FourBytes(v), 4)
<1>1. Byte \in Nat \ {0} /\ Word \in Nat \ {0}
  BY ByteFacts
<1>2. PICK h \in Nat, l \in Nat : h = v \div Word /\ l = v % Word
  <2>1. v \div Word \in Nat /\ v % Word \in 0..(Word - 1)
    BY <1>1, DivModRange
  <2> QED BY <2>1
<1>3. PICK a \in Nat, b \in Nat, c \in Nat, d \in Nat :
          a = h \div Byte /\ b = h % Byte /\ c = l \div Byte /\ d = v % Byte
  <2>1. h \div Byte \in Nat /\ h % Byte \in 0..(Byte - 1) /\ l \div Byte \in Nat /\ v % Byte \in 0..(Byte - 1)
    BY <1>1, DivModRange
  <2> QED BY <2>1
<1>4. HasLen(<<a, b, c, d>>, 4)
  BY DEF HasLen
<1> QED BY <1>2, <1>3, <1>4 DEF FourBytes

\* A property the protocol allows.
IsProperty(p) ==
    Typed(p.id, p.value) /\ (DataType[p.id] = "variable_int" => p.value < Limits[4])

\* The bytes of its value.
ValueBytes(p) ==
    CASE DataType[p.id] = "byte" -> <<p.value>>
      [] DataType[p.id] = "two_byte" -> <<p.value \div Byte, p.value % Byte>>
      [] DataType[p.id] = "four_byte" -> FourBytes(p.value)
      [] DataType[p.id] \in {"mqtt_string", "binary_data"} -> StringBytes(p.value)
      [] DataType[p.id] = "mqtt_string_pair" ->
             StringBytes(p.value[1]) \o StringBytes(p.value[2])
      [] DataType[p.id] = "variable_int" -> IntBytes(p.value)

\* A property is its identifier and its value.
LEMMA PropertyBytesAre ==
    ASSUME NEW p
    PROVE  PropertyBytes(p) = <<p.id>> \o ValueBytes(p)
BY DEF PropertyBytes, ValueBytes, FourBytes

\* CreateProperty for each type of data.
LEMMA CreateByte ==
    ASSUME NEW mem, NEW o, At(mem, o) \in 1..9, DataType[At(mem, o)] = "byte"
    PROVE  CreateProperty(mem, o) = Property(mem, o, At(mem, o + 1), 2)
BY DataTypes DEF CreateProperty

\* CreateProperty of two bytes.
LEMMA CreateTwoByte ==
    ASSUME NEW mem, NEW o, At(mem, o) \in 1..9, DataType[At(mem, o)] = "two_byte"
    PROVE  CreateProperty(mem, o) = Property(mem, o, ConvertToHost2Bytes(mem, o + 1), 3)
BY DataTypes DEF CreateProperty

\* CreateProperty of four bytes.
LEMMA CreateFourByte ==
    ASSUME NEW mem, NEW o, At(mem, o) \in 1..9, DataType[At(mem, o)] = "four_byte"
    PROVE  CreateProperty(mem, o) = Property(mem, o, ConvertToHost4Bytes(mem, o + 1), 5)
BY DataTypes DEF CreateProperty

\* CreateProperty of a string or of binary data.
LEMMA CreateString ==
    ASSUME NEW mem, NEW o, At(mem, o) \in 1..9, DataType[At(mem, o)] \in {"mqtt_string", "binary_data"}
    PROVE  CreateProperty(mem, o) = LET len == ConvertToHost2Bytes(mem, o + 1)
                                     IN  Property(mem, o, Read(mem, o + 3, len), 3 + len)
BY DataTypes DEF CreateProperty

\* CreateProperty of a pair of strings.
LEMMA CreateStringPair ==
    ASSUME NEW mem, NEW o, At(mem, o) \in 1..9, DataType[At(mem, o)] = "mqtt_string_pair"
    PROVE  CreateProperty(mem, o) = LET len  == ConvertToHost2Bytes(mem, o + 1)
                                         len2 == ConvertToHost2Bytes(mem, o + 3 + len)
                                     IN  Property(mem, o,
                                                  <<Read(mem, o + 3, len), Read(mem, o + 5 + len, len2)>>,
                                                  5 + len + len2)
BY DataTypes DEF CreateProperty

\* CreateProperty of a variable-length integer.
LEMMA CreateVarInt ==
    ASSUME NEW mem, NEW o, At(mem, o) \in 1..9, DataType[At(mem, o)] = "variable_int",
           DeCodeVarInt(mem, o + 1).ok
    PROVE  CreateProperty(mem, o)
           = Property(mem, o, DeCodeVarInt(mem, o + 1).value, 1 + DeCodeVarInt(mem, o + 1).size)
BY DataTypes DEF CreateProperty

\* An integer of the protocol has the size that GetVarIntSize gives.
LEMMA IntBytesLen ==
    ASSUME NEW n \in Nat, n < Limits[4]
    PROVE  HasLen(IntBytes(n), GetVarIntSize(n)) /\ GetVarIntSize(n) \in 1..4
<1>1. IntBytes(n) = CodeVarInt(n)
  BY CodeVarIntExact
<1>2. HasLen(CodeVarInt(n), GetVarIntSize(n))
  BY LenVarInt
<1> QED BY <1>1, <1>2, VarIntSizeAtMost

\* Where an integer lies, DeCodeVarInt gives it and its size.
LEMMA IntBytesHeld ==
    ASSUME NEW n \in Nat, n < Limits[4], NEW mem, NEW o \in Nat, Holds(mem, o, IntBytes(n))
    PROVE  DeCodeVarInt(mem, o) = [ok |-> TRUE, value |-> n, size |-> GetVarIntSize(n)]
<1>1. IntBytes(n) = CodeVarInt(n)
  BY CodeVarIntExact
<1>2. DeCodeVarInt(mem, o) = [ok |-> TRUE, value |-> n, size |-> Len(CodeVarInt(n))]
  BY <1>1, DeCodeCoded
<1> QED BY <1>2, SizeOfVarInt

\* A property is read for what it is, by the bytes it takes.
Heard(mem, o, p, n) ==
    CreateProperty(mem, o) = [ok |-> TRUE, id |-> p.id, value |-> p.value, size |-> n % Byte]

\* Every property the protocol allows, of each of the seven types, is read by
\* CreateProperty for what it is; its size is what a uint8_t counts of its bytes.
LEMMA PropertyHeard ==
    ASSUME NEW p, IsProperty(p)
    PROVE  \E n \in Nat :
               /\ n >= 1 /\ HasLen(PropertyBytes(p), n)
               /\ \A mem : \A o \in Nat :
                      Holds(mem, o, PropertyBytes(p)) => Heard(mem, o, p, n)
<1>1. PICK id \in 1..9 : id = p.id
  BY DEF IsProperty, Typed
<1>2. PICK type : type = DataType[id]
  OBVIOUS
<1>3. PICK v : v = p.value
  OBVIOUS
<1>4. HasType(type, v) /\ (type = "variable_int" => v < Limits[4])
  BY <1>1, <1>2, <1>3 DEF IsProperty, Typed
<1>5. HasLen(<<id>>, 1)
  BY LenByte
<1>6. SUFFICES \E n \in Nat :
                   /\ HasLen(ValueBytes(p), n)
                   /\ \A mem : \A o \in Nat :
                          At(mem, o) = id /\ Holds(mem, o + 1, ValueBytes(p))
                          => CreateProperty(mem, o) = Property(mem, o, v, 1 + n)
  <2>1. PICK n \in Nat :
                   /\ HasLen(ValueBytes(p), n)
                   /\ \A mem : \A o \in Nat :
                          At(mem, o) = id /\ Holds(mem, o + 1, ValueBytes(p))
                          => CreateProperty(mem, o) = Property(mem, o, v, 1 + n)
    BY <1>6
  <2>2. HasLen(PropertyBytes(p), 1 + n)
    BY <1>1, <1>5, <2>1, LenConcat, PropertyBytesAre
  <2>3. ASSUME NEW mem, NEW o \in Nat, Holds(mem, o, PropertyBytes(p))
        PROVE  Heard(mem, o, p, 1 + n)
    <3>1. Holds(mem, o, <<id>>) /\ Holds(mem, o + 1, ValueBytes(p))
      BY <1>1, <1>5, <2>1, <2>3, HoldsConcat, PropertyBytesAre
    <3>2. At(mem, o) = id
      BY <3>1, HeldByte
    <3> QED BY <1>1, <1>3, <2>1, <3>1, <3>2 DEF Heard, Property
  <2>4. 1 + n \in Nat /\ 1 + n >= 1
    OBVIOUS
  <2> QED BY <2>2, <2>3, <2>4
<1>7. CASE type = "byte"
  <2>1. v \in Nat /\ ValueBytes(p) = <<v>>
    BY <1>1, <1>2, <1>3, <1>4, <1>7 DEF HasType, ValueBytes
  <2>2. HasLen(<<v>>, 1)
    BY <2>1, LenByte
  <2>3. ASSUME NEW mem, NEW o \in Nat, At(mem, o) = id, Holds(mem, o + 1, <<v>>)
        PROVE  CreateProperty(mem, o) = Property(mem, o, v, 1 + 1)
    <3>1. At(mem, o + 1) = v
      BY <2>3, HeldByte
    <3>3. CreateProperty(mem, o) = Property(mem, o, v, 2)
      BY <1>2, <1>7, <2>3, <3>1, CreateByte
    <3> QED BY <3>3
  <2> QED BY <2>1, <2>2, <2>3
<1>8. CASE type = "two_byte"
  <2>1. v \in Nat /\ ValueBytes(p) = <<v \div Byte, v % Byte>>
    BY <1>1, <1>2, <1>3, <1>4, <1>8 DEF HasType, ValueBytes
  <2>2. HasLen(<<v \div Byte, v % Byte>>, 2)
    BY <2>1, LenNumber
  <2>3. ASSUME NEW mem, NEW o \in Nat, At(mem, o) = id, Holds(mem, o + 1, <<v \div Byte, v % Byte>>)
        PROVE  CreateProperty(mem, o) = Property(mem, o, v, 1 + 2)
    <3>1. ConvertToHost2Bytes(mem, o + 1) = v
      BY <2>1, <2>3, HeldNumber
    <3>3. CreateProperty(mem, o) = Property(mem, o, v, 3)
      BY <1>2, <1>8, <2>3, <3>1, CreateTwoByte
    <3> QED BY <3>3
  <2> QED BY <2>1, <2>2, <2>3
<1>9. CASE type = "four_byte"
  <2>1. v \in Nat /\ ValueBytes(p) = FourBytes(v)
    BY <1>1, <1>2, <1>3, <1>4, <1>9 DEF HasType, ValueBytes
  <2>2. HasLen(FourBytes(v), 4)
    BY <2>1, LenFourBytes
  <2>3. ASSUME NEW mem, NEW o \in Nat, At(mem, o) = id, Holds(mem, o + 1, FourBytes(v))
        PROVE  CreateProperty(mem, o) = Property(mem, o, v, 1 + 4)
    <3>1. ConvertToHost4Bytes(mem, o + 1) = v
      BY <2>1, <2>3, HeldFourBytes
    <3>3. CreateProperty(mem, o) = Property(mem, o, v, 5)
      BY <1>2, <1>9, <2>3, <3>1, CreateFourByte
    <3> QED BY <3>3
  <2> QED BY <2>1, <2>2, <2>3
<1>10. CASE type \in {"mqtt_string", "binary_data"}
  <2>1. v \in Seq(Nat) /\ ValueBytes(p) = StringBytes(v)
    BY <1>1, <1>2, <1>3, <1>4, <1>10 DEF HasType, ValueBytes
  <2>2. PICK n \in Nat : n = Len(v) /\ HasLen(StringBytes(v), 2 + n)
    BY <2>1, StringLen DEF HasLen
  <2>3. ASSUME NEW mem, NEW o \in Nat, At(mem, o) = id, Holds(mem, o + 1, StringBytes(v))
        PROVE  CreateProperty(mem, o) = Property(mem, o, v, 1 + (2 + n))
    <3>1. ConvertToHost2Bytes(mem, o + 1) = n /\ Read(mem, (o + 1) + 2, n) = v
      BY <2>1, <2>2, <2>3, StringHeld
    <3>2. (o + 1) + 2 = o + 3 /\ 1 + (2 + n) = 3 + n
      OBVIOUS
    <3> QED BY <1>2, <1>10, <2>3, <3>1, <3>2, CreateString
  <2> QED BY <2>1, <2>2, <2>3
<1>11. CASE type = "mqtt_string_pair"
  <2>1. /\ v[1] \in Seq(Nat) /\ v[2] \in Seq(Nat) /\ v = <<v[1], v[2]>>
        /\ ValueBytes(p) = StringBytes(v[1]) \o StringBytes(v[2])
    BY <1>1, <1>2, <1>3, <1>4, <1>11 DEF HasType, ValueBytes
  <2>2. PICK s \in Seq(Nat), t \in Seq(Nat) : s = v[1] /\ t = v[2]
    BY <2>1
  <2>3. PICK m \in Nat, n \in Nat : /\ m = Len(s) /\ HasLen(StringBytes(s), 2 + m)
                                    /\ n = Len(t) /\ HasLen(StringBytes(t), 2 + n)
    BY StringLen DEF HasLen
  <2>4. HasLen(ValueBytes(p), (2 + m) + (2 + n))
    BY <2>1, <2>2, <2>3, LenConcat
  <2>5. ASSUME NEW mem, NEW o \in Nat, At(mem, o) = id, Holds(mem, o + 1, ValueBytes(p))
        PROVE  CreateProperty(mem, o) = Property(mem, o, v, 1 + ((2 + m) + (2 + n)))
    <3>1. Holds(mem, o + 1, StringBytes(s)) /\ Holds(mem, (o + 1) + (2 + m), StringBytes(t))
      <4>1. o + 1 \in Nat
        OBVIOUS
      <4>2. Holds(mem, o + 1, StringBytes(s) \o StringBytes(t))
        BY <2>1, <2>2, <2>5
      <4> QED BY <2>3, <4>1, <4>2, HoldsConcat
    <3>2. ConvertToHost2Bytes(mem, o + 1) = m /\ Read(mem, (o + 1) + 2, m) = s
      BY <2>3, <3>1, StringHeld
    <3>3. (o + 1) + 2 = o + 3 /\ (o + 1) + (2 + m) = o + 3 + m /\ (o + 3 + m) + 2 = o + 5 + m
          /\ 1 + ((2 + m) + (2 + n)) = 5 + m + n /\ o + 3 + m \in Nat
      OBVIOUS
    <3>4. ConvertToHost2Bytes(mem, o + 3 + m) = n /\ Read(mem, (o + 3 + m) + 2, n) = t
      BY <2>3, <3>1, <3>3, StringHeld
    <3>5. CreateProperty(mem, o)
          = Property(mem, o, <<Read(mem, o + 3, m), Read(mem, o + 5 + m, n)>>, 5 + m + n)
      BY <1>2, <1>11, <2>5, <3>2, <3>4, CreateStringPair
    <3> QED BY <2>1, <2>2, <3>2, <3>3, <3>4, <3>5
  <2> QED BY <2>4, <2>5
<1>12. CASE type = "variable_int"
  <2>1. v \in Nat /\ v < Limits[4] /\ ValueBytes(p) = IntBytes(v)
    BY <1>1, <1>2, <1>3, <1>4, <1>12 DEF HasType, ValueBytes
  <2>2. PICK n \in Nat : n = GetVarIntSize(v) /\ HasLen(IntBytes(v), n)
    BY <2>1, IntBytesLen DEF HasLen
  <2>3. ASSUME NEW mem, NEW o \in Nat, At(mem, o) = id, Holds(mem, o + 1, IntBytes(v))
        PROVE  CreateProperty(mem, o) = Property(mem, o, v, 1 + n)
    <3>1. PICK int : int = DeCodeVarInt(mem, o + 1)
      OBVIOUS
    <3>2. o + 1 \in Nat
      OBVIOUS
    <3>3. int = [ok |-> TRUE, value |-> v, size |-> n]
      BY <2>1, <2>2, <2>3, <3>1, <3>2, IntBytesHeld
    <3>4. int.ok /\ int.value = v /\ int.size = n
      BY <3>3
    <3>5. CreateProperty(mem, o) = Property(mem, o, int.value, 1 + int.size)
      BY <1>2, <1>12, <2>3, <3>1, <3>4, CreateVarInt
    <3> QED BY <3>4, <3>5
  <2> QED BY <2>1, <2>2, <2>3
<1>13. type \in {"byte", "two_byte", "four_byte", "mqtt_string", "binary_data", "mqtt_string_pair", "variable_int"}
  BY <1>2, TypeOf
<1> QED BY <1>7, <1>8, <1>9, <1>10, <1>11, <1>12, <1>13

-----------------------------------------------------------------------------
(* Chains of properties. *)

\* The chain after k properties.
First(ps, k) ==
    [id \in {ps[i].id : i \in 1..k} |-> ps[Min({i \in 1..k : ps[i].id = id})].value]

\* The chain before the first property is empty.
LEMMA FirstNone ==
    ASSUME NEW ps
    PROVE  First(ps, 0) = NoProperties
<1>1. {ps[i].id : i \in 1..0} = {}
  OBVIOUS
<1>2. DOMAIN NoProperties = {} /\ NoProperties = [x \in {} |-> NoProperties[x]]
  BY DEF NoProperties
<1> QED BY <1>1, <1>2 DEF First

\* AddProperty keeps the first property of each identifier.
LEMMA FirstStep ==
    ASSUME NEW ps, NEW k \in Nat
    PROVE  AddProperty(First(ps, k), ps[k + 1].id, ps[k + 1].value) = First(ps, k + 1)
<1> DEFINE ids == {ps[i].id : i \in 1..k}
           new == ps[k + 1].id
           Of(id, j) == {i \in 1..j : ps[i].id = id}
<1>1. {ps[i].id : i \in 1..(k + 1)} = ids \union {new}
  <2>1. \A i \in 1..(k + 1) : i \in 1..k \/ i = k + 1
    OBVIOUS
  <2>2. \A i \in 1..k : i \in 1..(k + 1)
    OBVIOUS
  <2>3. k + 1 \in 1..(k + 1)
    OBVIOUS
  <2> QED BY <2>1, <2>2, <2>3
<1>2. DOMAIN First(ps, k) = ids
  BY DEF First
<1>3. ASSUME NEW id \in ids PROVE Min(Of(id, k + 1)) = Min(Of(id, k))
  <2>1. Of(id, k) \in SUBSET Nat /\ Of(id, k) # {}
    OBVIOUS
  <2>2. PICK m \in Of(id, k) : \A y \in Of(id, k) : m <= y
    BY <2>1, LeastElement
  <2>3. Min(Of(id, k)) = m
    BY <2>1, <2>2, MinIs
  <2>4. m \in Of(id, k + 1) /\ Of(id, k + 1) \in SUBSET Nat
    BY <2>2
  <2>5. ASSUME NEW y \in Of(id, k + 1) PROVE m <= y
    <3>1. y \in 1..k \/ y = k + 1
      OBVIOUS
    <3>2. m \in 1..k
      OBVIOUS
    <3> QED BY <2>2, <3>1, <3>2
  <2>6. Min(Of(id, k + 1)) = m
    <3> HIDE DEF Of
    <3> QED BY <2>4, <2>5, MinIs
  <2> QED BY <2>3, <2>6
<1>4. ASSUME new \notin ids PROVE Min(Of(new, k + 1)) = k + 1
  <2>1. k + 1 \in Of(new, k + 1) /\ Of(new, k + 1) \in SUBSET Nat
    OBVIOUS
  <2>2. ASSUME NEW y \in Of(new, k + 1) PROVE k + 1 <= y
    <3>1. y \in 1..k \/ y = k + 1
      OBVIOUS
    <3>2. y \notin 1..k
      BY <1>4
    <3> QED BY <3>1, <3>2
  <2> HIDE DEF Of
  <2> QED BY <2>1, <2>2, MinIs
<1>5. First(ps, k + 1) = [id \in ids \union {new} |-> ps[Min(Of(id, k + 1))].value]
  BY <1>1 DEF First
<1>6. First(ps, k) = [id \in ids |-> ps[Min(Of(id, k))].value]
  BY DEF First
<1> HIDE DEF Of, new
<1>7. ASSUME NEW id \in ids \union {new}
      PROVE  (IF id \in ids THEN First(ps, k)[id] ELSE ps[k + 1].value) = ps[Min(Of(id, k + 1))].value
  <2>1. CASE id \in ids
    BY <1>3, <1>6, <2>1
  <2>2. CASE id \notin ids
    BY <1>4, <2>2
  <2> QED BY <2>1, <2>2
<1> HIDE DEF ids
<1> QED BY <1>2, <1>5, <1>7 DEF AddProperty, new

\* After the last property the chain is that of the packet.
LEMMA FirstAll ==
    ASSUME NEW ps
    PROVE  FirstOfEach(ps) = First(ps, Len(ps))
BY DEF FirstOfEach, First

\* The loop of Create.
WalkTurn(mem, o, len, s) ==
    LET property == CreateProperty(mem, o + len - s.left)
    IN  IF s.st # "ok" \/ s.left = 0 THEN s
        ELSE IF ~property.ok THEN [s EXCEPT !.st = "mqtt_property_err"]
        ELSE IF property.size \notin 1..s.left THEN [s EXCEPT !.st = "astray"]
        ELSE [s EXCEPT !.left = @ - property.size,
                       !.chain = AddProperty(@, property.id, property.value)]
\* Its turns, from none to n.
WalkUpTo(g, mem, o, len, n) ==
    g = [k \in 0..n |-> IF k = 0 THEN [st |-> "ok", left |-> len, chain |-> NoProperties]
                        ELSE WalkTurn(mem, o, len, g[k - 1])]

\* Walk is the last turn.
LEMMA WalkIs ==
    ASSUME NEW mem, NEW o, NEW len
    PROVE  Walk(mem, o, len) = (CHOOSE g : WalkUpTo(g, mem, o, len, len))[len]
BY DEF Walk, WalkUpTo, WalkTurn

\* The equation of the turns has a solution for every number of them.
LEMMA WalkExists ==
    ASSUME NEW mem, NEW o, NEW len, NEW n \in Nat
    PROVE  \E g : WalkUpTo(g, mem, o, len, n)
<1> DEFINE P == {k \in Nat : \E g : WalkUpTo(g, mem, o, len, k)}
<1>1. 0 \in P
  <2> DEFINE g0 == [k \in 0..0 |-> [st |-> "ok", left |-> len, chain |-> NoProperties]]
  <2>1. WalkUpTo(g0, mem, o, len, 0)
    <3>1. \A k \in 0..0 : k = 0
      OBVIOUS
    <3> QED BY <3>1 DEF WalkUpTo
  <2> QED BY <2>1
<1>2. ASSUME NEW j \in P PROVE j + 1 \in P
  <2>1. PICK g : WalkUpTo(g, mem, o, len, j)
    OBVIOUS
  <2> DEFINE h == [k \in 0..(j + 1) |-> IF k = j + 1 THEN WalkTurn(mem, o, len, g[j]) ELSE g[k]]
  <2>2. ASSUME NEW k \in 0..(j + 1)
        PROVE  h[k] = IF k = 0 THEN [st |-> "ok", left |-> len, chain |-> NoProperties]
                      ELSE WalkTurn(mem, o, len, h[k - 1])
    <3>1. CASE k = j + 1
      <4>1. k # 0 /\ k - 1 \in 0..(j + 1) /\ k - 1 # j + 1 /\ k - 1 = j
        BY <3>1
      <4>2. h[k - 1] = g[j]
        BY <4>1
      <4> QED BY <3>1, <4>1, <4>2
    <3>2. CASE k # j + 1
      <4>1. k \in 0..j /\ h[k] = g[k]
        BY <3>2
      <4>2. g[k] = IF k = 0 THEN [st |-> "ok", left |-> len, chain |-> NoProperties]
                   ELSE WalkTurn(mem, o, len, g[k - 1])
        BY <2>1, <4>1 DEF WalkUpTo
      <4>3. k # 0 => h[k - 1] = g[k - 1]
        BY <4>1
      <4> QED BY <4>1, <4>2, <4>3
    <3> QED BY <3>1, <3>2
  <2>3. h = [k \in 0..(j + 1) |-> h[k]]
    OBVIOUS
  <2> HIDE DEF h
  <2>4. WalkUpTo(h, mem, o, len, j + 1)
    BY <2>2, <2>3 DEF WalkUpTo
  <2> QED BY <2>4
<1>3. P = Nat
  <2> HIDE DEF P
  <2>1. P \in SUBSET Nat
    BY DEF P
  <2> QED BY <1>1, <1>2, <2>1, SetInduction
<1> QED BY <1>3

\* Properties the protocol allows, in any number.
IsProps(ps) == \E S : ps \in Seq(S) /\ \A x \in S : IsProperty(x)

\* The bytes of all properties, behind their length.
AllBytes(ps) == FlattenSeq([i \in 1..Len(ps) |-> PropertyBytes(ps[i])])

\* The lengths of the properties, where they lie, and what is heard there.
PropsLaid(ps, n, len, pos) ==
    /\ n \in Nat /\ n = Len(ps) /\ len \in [1..n -> Nat] /\ Sums(pos, len, n)
    /\ \A i \in 1..n : len[i] >= 1 /\ HasLen(PropertyBytes(ps[i]), len[i])
    /\ HasLen(AllBytes(ps), pos[n])
    /\ \A mem : \A o \in Nat :
           Holds(mem, o, AllBytes(ps)) => \A i \in 1..n : Heard(mem, o + pos[i - 1], ps[i], len[i])

\* A part that lies within what memory holds is held there.
LEMMA PartHeld ==
    ASSUME NEW f, NEW m, HasLen(f, m), NEW part, NEW n, HasLen(part, n), NEW p \in Nat,
           \A j \in 1..n : f[p + j] = part[j], p + n <= m, NEW mem, NEW o \in Nat, Holds(mem, o, f)
    PROVE  Holds(mem, o + p, part)
<1>1. m \in Nat /\ n \in Nat /\ Len(f) = m /\ Len(part) = n
  BY DEF HasLen
<1>2. ASSUME NEW j \in 1..n PROVE At(mem, (o + p) + j - 1) = part[j]
  <2>1. p + j \in 1..m /\ o + (p + j) - 1 = (o + p) + j - 1
    BY <1>1
  <2>2. At(mem, o + (p + j) - 1) = f[p + j]
    BY <1>1, <2>1 DEF Holds
  <2> QED BY <2>1, <2>2
<1> QED BY <1>1, <1>2 DEF Holds

\* Properties of any number have lengths and places, and each is heard at its own.
LEMMA PropsAreLaid ==
    ASSUME NEW ps, IsProps(ps)
    PROVE  \E n, len, pos : PropsLaid(ps, n, len, pos)
<1>1. PICK n \in Nat : n = Len(ps) /\ \A i \in 1..n : IsProperty(ps[i])
  <2>1. PICK S : ps \in Seq(S) /\ \A x \in S : IsProperty(x)
    BY DEF IsProps
  <2>2. Len(ps) \in Nat /\ \A i \in 1..Len(ps) : ps[i] \in S
    BY <2>1
  <2> QED BY <2>1, <2>2
<1> DEFINE Fit(i, k) == /\ k \in Nat /\ k >= 1 /\ HasLen(PropertyBytes(ps[i]), k)
                        /\ \A mem : \A o \in Nat :
                               Holds(mem, o, PropertyBytes(ps[i])) => Heard(mem, o, ps[i], k)
           len == [i \in 1..n |-> CHOOSE k : Fit(i, k)]
<1>2. ASSUME NEW i \in 1..n PROVE Fit(i, len[i])
  <2>1. \E k : Fit(i, k)
    BY <1>1, PropertyHeard
  <2> HIDE DEF Fit
  <2> QED BY <2>1
<1> HIDE DEF len
<1>3. len \in [1..n -> Nat]
  <2>1. \A i \in 1..n : len[i] \in Nat
    BY <1>2
  <2>2. len = [i \in 1..n |-> len[i]]
    BY DEF len
  <2> QED BY <2>1, <2>2
<1>4. PICK pos : Sums(pos, len, n)
  <2>1. PICK u : SumsUpTo(u, len, n)
    BY SumsExist
  <2>2. Sums(u, len, n)
    BY <1>3, <2>1, SumsAre
  <2> QED BY <2>2
<1>5. \A i \in 1..n : pos[i] = pos[i - 1] + len[i] /\ pos[i - 1] \in Nat /\ pos[i] \in Nat /\ len[i] \in Nat
  BY <1>3, <1>4 DEF Sums
<1> DEFINE ss == [i \in 1..n |-> PropertyBytes(ps[i])]
<1>6. \A i \in 1..n : ss[i] \in Seq(Nat) /\ Len(ss[i]) = len[i]
  BY <1>2 DEF HasLen
<1>7. PICK T : T = Seq(Nat)
  OBVIOUS
<1>8. ss \in [1..n -> T]
  BY <1>6, <1>7
<1> HIDE DEF ss
<1>9. ss \in Seq(T) /\ Len(ss) = n
  BY <1>8, SeqOfFunction
<1>10. Places(pos, ss)
  BY <1>4, <1>6, <1>9 DEF Places, Sums
<1>11. PICK f : f = AllBytes(ps)
  OBVIOUS
<1>12. f = FlattenSeq(ss)
  BY <1>1, <1>11 DEF AllBytes, ss
<1>13. f \in Seq(Nat) /\ Len(f) = pos[n] /\ \A i \in 1..n : PartAt(f, pos, ss, i)
  <2>1. ss \in Seq(Seq(Nat))
    BY <1>7, <1>9
  <2> QED BY <1>9, <1>10, <1>12, <2>1, Flattened
<1>14. HasLen(f, pos[n])
  <2>1. pos[n] \in Nat
    BY <1>4 DEF Sums
  <2> QED BY <1>13, <2>1 DEF HasLen
<1>15. ASSUME NEW mem, NEW o \in Nat, Holds(mem, o, f), NEW i \in 1..n
       PROVE  Heard(mem, o + pos[i - 1], ps[i], len[i])
  <2>1. PICK p \in Nat : p = pos[i - 1]
    BY <1>5
  <2>2. ss[i] = PropertyBytes(ps[i])
    BY DEF ss
  <2>3. HasLen(ss[i], len[i])
    BY <1>2, <2>2
  <2>4. \A j \in 1..len[i] : f[p + j] = ss[i][j]
    BY <1>6, <1>13, <2>1 DEF PartAt
  <2>5. p + len[i] <= pos[n]
    <3>1. \A j \in 1..n : pos[j - 1] <= pos[j]
      BY <1>5
    <3>2. pos \in [0..n -> Nat]
      BY <1>4 DEF Sums
    <3>3. \A k \in 0..n : \A j \in 0..k : pos[j] <= pos[k]
      BY <3>1, <3>2, Grows
    <3>4. n \in 0..n /\ i \in 0..n
      OBVIOUS
    <3>5. pos[i] <= pos[n]
      BY <3>3, <3>4
    <3> QED BY <1>5, <2>1, <3>5
  <2>6. Holds(mem, o + p, ss[i])
    BY <1>14, <1>15, <2>3, <2>4, <2>5, PartHeld
  <2>7. o + p \in Nat
    OBVIOUS
  <2> QED BY <1>2, <2>1, <2>2, <2>6, <2>7
<1>16. PropsLaid(ps, n, len, pos)
  <2>1. \A i \in 1..n : len[i] >= 1 /\ HasLen(PropertyBytes(ps[i]), len[i])
    BY <1>2
  <2> HIDE DEF Fit
  <2> QED BY <1>1, <1>3, <1>4, <1>11, <1>14, <1>15, <2>1 DEF PropsLaid
<1> QED BY <1>16

\* A property whose size a uint8_t counts is next, and the loop takes it.
IsNext(mem, o, len, p, size, x) ==
    size >= 1 /\ size < Byte /\ p + size <= len /\ Heard(mem, o + p, x, size)
\* The loop takes a property and goes on behind it.
IsTaken(mem, o, len, p, size, x, chain) ==
    WalkTurn(mem, o, len, [st |-> "ok", left |-> len - p, chain |-> chain])
    = [st |-> "ok", left |-> len - (p + size), chain |-> AddProperty(chain, x.id, x.value)]

\* One turn of the loop of Create takes the property that is next.
LEMMA WalkTurned ==
    ASSUME NEW mem, NEW o \in Nat, NEW len \in Nat, NEW p \in Nat, NEW size \in Nat, NEW x,
           IsNext(mem, o, len, p, size, x), NEW chain
    PROVE  IsTaken(mem, o, len, p, size, x, chain)
<1>0. size >= 1 /\ size < Byte /\ p + size <= len /\ Heard(mem, o + p, x, size)
  BY DEF IsNext
<1> DEFINE s == [st |-> "ok", left |-> len - p, chain |-> chain]
<1>1. PICK property : property = CreateProperty(mem, o + p)
  OBVIOUS
<1>2. size % Byte = size
  BY <1>0, ByteFacts, DivSmall
<1>3. property = [ok |-> TRUE, id |-> x.id, value |-> x.value, size |-> size]
  BY <1>0, <1>1, <1>2 DEF Heard
<1>4. o + len - s.left = o + p /\ s.left # 0 /\ s.left \in Nat /\ size \in 1..s.left
  BY <1>0
<1>5. WalkTurn(mem, o, len, s) = [s EXCEPT !.left = @ - size, !.chain = AddProperty(@, x.id, x.value)]
  <2>1. property.ok /\ property.id = x.id /\ property.value = x.value /\ property.size = size
    BY <1>3
  <2>2. s.st = "ok" /\ CreateProperty(mem, o + len - s.left) = property
    BY <1>1, <1>4
  <2>3. ~(s.st # "ok" \/ s.left = 0) /\ ~(property.size \notin 1..s.left)
    BY <1>4, <2>1, <2>2
  <2> HIDE DEF s
  <2>4. WalkTurn(mem, o, len, s)
        = [s EXCEPT !.left = @ - property.size, !.chain = AddProperty(@, property.id, property.value)]
    BY <2>1, <2>2, <2>3 DEF WalkTurn
  <2> QED BY <2>1, <2>4
<1>6. (len - p) - size = len - (p + size)
  OBVIOUS
<1> QED BY <1>5, <1>6 DEF IsTaken

\* The loop takes every property of a chain and ends with nothing left: by
\* induction on the properties, when a uint8_t counts the bytes of each.
LEMMA Walked ==
    ASSUME NEW ps, NEW n, NEW len, NEW pos, PropsLaid(ps, n, len, pos),
           \A i \in 1..n : len[i] < Byte, NEW mem, NEW o \in Nat, Holds(mem, o, AllBytes(ps))
    PROVE  Walk(mem, o, pos[n]) = [st |-> "ok", left |-> 0, chain |-> FirstOfEach(ps)]
<1>1. /\ n \in Nat /\ n = Len(ps) /\ len \in [1..n -> Nat] /\ Sums(pos, len, n)
      /\ \A i \in 1..n : len[i] >= 1
  BY DEF PropsLaid
<1>2. pos \in [0..n -> Nat] /\ pos[0] = 0 /\ \A i \in 1..n : pos[i] = pos[i - 1] + len[i]
  BY <1>1 DEF Sums
<1>3. \A i \in 1..n : /\ pos[i] = pos[i - 1] + len[i] /\ pos[i - 1] \in Nat /\ pos[i] \in Nat
                      /\ len[i] \in Nat /\ len[i] >= 1 /\ len[i] < Byte
  BY <1>1, <1>2
<1>4. \A k \in 0..n : \A j \in 0..k : pos[j] <= pos[k]
  <2>1. \A j \in 1..n : pos[j - 1] <= pos[j]
    BY <1>3
  <2> QED BY <1>1, <1>2, <2>1, Grows
<1>5. PICK total \in Nat : total = pos[n]
  BY <1>1, <1>2
<1>6. \A i \in 1..n : Heard(mem, o + pos[i - 1], ps[i], len[i])
  BY DEF PropsLaid
<1>7. PICK g : g = CHOOSE h : WalkUpTo(h, mem, o, total, total)
  OBVIOUS
<1>8. WalkUpTo(g, mem, o, total, total)
  BY <1>7, WalkExists
<1>9. /\ 0 \in 0..total /\ g[0] = [st |-> "ok", left |-> total, chain |-> NoProperties]
      /\ \A k \in 1..total : g[k] = WalkTurn(mem, o, total, g[k - 1])
  BY <1>8 DEF WalkUpTo
<1> DEFINE State(k) == [st |-> "ok", left |-> total - pos[k], chain |-> First(ps, k)]
           P == {k \in Nat : k \in 0..n => pos[k] >= k /\ g[k] = State(k)}
           Q == {k \in Nat : n + k \in 0..total => g[n + k] = State(n)}
<1>10. 0 \in P
  <2>1. total - pos[0] = total /\ First(ps, 0) = NoProperties
    BY <1>2, FirstNone
  <2> QED BY <1>2, <1>9, <2>1
<1>11. ASSUME NEW k \in P PROVE k + 1 \in P
  <2>1. SUFFICES ASSUME k + 1 \in 0..n PROVE pos[k + 1] >= k + 1 /\ g[k + 1] = State(k + 1)
    OBVIOUS
  <2>2. k \in Nat /\ k \in 0..n /\ k + 1 \in 1..n /\ (k + 1) - 1 = k
    BY <1>1, <2>1
  <2>3. pos[k] >= k /\ g[k] = State(k)
    BY <2>2
  <2>4. PICK p \in Nat, size \in Nat : p = pos[k] /\ size = len[k + 1] /\ pos[k + 1] = p + size
    BY <1>3, <2>2
  <2>5. size >= 1 /\ size < Byte /\ p + size <= total
    <3>1. size >= 1 /\ size < Byte
      BY <1>3, <2>2, <2>4
    <3>2. n \in 0..n /\ k + 1 \in 0..n
      BY <1>1, <2>2
    <3>3. pos[k + 1] <= pos[n]
      BY <1>4, <3>2
    <3> QED BY <1>5, <2>4, <3>1, <3>3
  <2>6. Heard(mem, o + p, ps[k + 1], size)
    BY <1>6, <2>2, <2>4
  <2>7. WalkTurn(mem, o, total, [st |-> "ok", left |-> total - p, chain |-> First(ps, k)])
        = [st |-> "ok", left |-> total - (p + size),
           chain |-> AddProperty(First(ps, k), ps[k + 1].id, ps[k + 1].value)]
    <3>1. PICK c, x : c = First(ps, k) /\ x = ps[k + 1]
      OBVIOUS
    <3>2. IsNext(mem, o, total, p, size, x)
      BY <2>5, <2>6, <3>1 DEF IsNext
    <3>3. IsTaken(mem, o, total, p, size, x, c)
      BY <3>2, WalkTurned
    <3> QED BY <3>1, <3>3 DEF IsTaken
  <2>8. k + 1 \in 1..total
    BY <2>2, <2>3, <2>4, <2>5
  <2>9. g[k + 1] = WalkTurn(mem, o, total, g[k])
    BY <1>9, <2>2, <2>8
  <2>10. AddProperty(First(ps, k), ps[k + 1].id, ps[k + 1].value) = First(ps, k + 1)
    BY <2>2, FirstStep
  <2>11. pos[k + 1] >= k + 1
    BY <2>2, <2>3, <2>4, <2>5
  <2> QED BY <2>3, <2>4, <2>7, <2>9, <2>10, <2>11
<1>12. P = Nat
  <2> HIDE DEF P
  <2>1. P \in SUBSET Nat
    BY DEF P
  <2> QED BY <1>10, <1>11, <2>1, SetInduction
<1>13. pos[n] >= n /\ g[n] = State(n)
  <2>1. n \in P /\ n \in 0..n
    <3> HIDE DEF P
    <3> QED BY <1>1, <1>12
  <2> QED BY <2>1
<1>14. State(n) = [st |-> "ok", left |-> 0, chain |-> First(ps, n)]
  BY <1>5
<1>15. 0 \in Q
  <2>1. n + 0 = n
    BY <1>1
  <2> QED BY <1>13, <2>1
<1>16. ASSUME NEW k \in Q PROVE k + 1 \in Q
  <2>1. SUFFICES ASSUME n + (k + 1) \in 0..total PROVE g[n + (k + 1)] = State(n)
    OBVIOUS
  <2>2. k \in Nat /\ n + k \in 0..total /\ n + (k + 1) \in 1..total /\ (n + (k + 1)) - 1 = n + k
    BY <1>1, <2>1
  <2>3. g[n + k] = State(n)
    BY <2>2
  <2>4. g[n + (k + 1)] = WalkTurn(mem, o, total, g[n + k])
    BY <1>9, <2>2
  <2>5. WalkTurn(mem, o, total, State(n)) = State(n)
    BY <1>14 DEF WalkTurn
  <2> QED BY <2>3, <2>4, <2>5
<1>17. Q = Nat
  <2> HIDE DEF Q
  <2>1. Q \in SUBSET Nat
    BY DEF Q
  <2> QED BY <1>15, <1>16, <2>1, SetInduction
<1>18. g[total] = State(n)
  <2>1. PICK k \in Nat : n + k = total
    <3>1. total - n \in Nat /\ n + (total - n) = total
      BY <1>1, <1>5, <1>13
    <3> QED BY <3>1
  <2>2. k \in Q
    <3> HIDE DEF Q
    <3> QED BY <1>17
  <2> QED BY <2>1, <2>2
<1>19. Walk(mem, o, total) = g[total]
  BY <1>7, WalkIs
<1> QED BY <1>1, <1>5, <1>14, <1>18, <1>19, FirstAll

\* The properties of a packet, as Create takes them in.
ChainHeard(ps, m) ==
    /\ m \in Nat /\ m >= 1 /\ HasLen(ChainBytes(ps), m)
    /\ \A mem, kept : \A o \in Nat :
           Holds(mem, o, ChainBytes(ps))
           => Create(kept, mem, o) = [st |-> "ok", chain |-> After(kept, ps), size |-> m]

\* A chain of any number of properties, each of a size that a uint8_t counts,
\* is taken in by Create as a whole, wherever it lies.
LEMMA ChainIsHeard ==
    ASSUME NEW ps, IsProps(ps), Counted(ps), Len(AllBytes(ps)) < Limits[4]
    PROVE  \E m \in Nat : ChainHeard(ps, m)
<1>1. PICK n, len, pos : PropsLaid(ps, n, len, pos)
  BY PropsAreLaid
<1>2. /\ n \in Nat /\ n = Len(ps) /\ len \in [1..n -> Nat] /\ Sums(pos, len, n)
      /\ \A i \in 1..n : len[i] >= 1 /\ HasLen(PropertyBytes(ps[i]), len[i])
      /\ HasLen(AllBytes(ps), pos[n])
  BY <1>1 DEF PropsLaid
<1>3. \A i \in 1..n : len[i] < Byte
  BY <1>2 DEF HasLen, Counted
<1>4. PICK all : \E total \in Nat : all = AllBytes(ps) /\ total = pos[n] /\ HasLen(all, total)
  <2>1. pos[n] \in Nat
    BY <1>2 DEF Sums
  <2> QED BY <1>2, <2>1
<1>4a. PICK total \in Nat : all = AllBytes(ps) /\ total = pos[n] /\ HasLen(all, total)
  BY <1>4
<1>5. total < Limits[4] /\ Len(all) = total
  BY <1>4a DEF HasLen
<1>6. PICK z \in Nat : z = GetVarIntSize(total) /\ z \in 1..4 /\ HasLen(IntBytes(total), z)
  BY <1>5, IntBytesLen
<1>7. ChainBytes(ps) = IntBytes(total) \o all
  BY <1>4a, <1>5 DEF ChainBytes, AllBytes
<1>8. HasLen(ChainBytes(ps), z + total)
  BY <1>4a, <1>6, <1>7, LenConcat
<1>9. total = 0 <=> ps = <<>>
  <2>1. CASE n = 0
    <3>1. ps = <<>>
      <4>1. PICK S : ps \in Seq(S)
        BY DEF IsProps
      <4> QED BY <1>2, <2>1, <4>1, EmptySeq
    <3>2. total = 0
      BY <1>2, <1>4a, <2>1 DEF Sums
    <3> QED BY <3>1, <3>2
  <2>2. CASE n # 0
    <3>1. ps # <<>>
      <4>1. Len(<<>>) = 0
        OBVIOUS
      <4> QED BY <1>2, <2>2, <4>1
    <3>2. n \in 1..n /\ n - 1 \in 0..n
      BY <1>2, <2>2
    <3>3. pos[n] = pos[n - 1] + len[n] /\ pos[n - 1] \in Nat /\ len[n] \in Nat /\ len[n] >= 1
      BY <1>2, <3>2 DEF Sums
    <3> QED BY <1>4a, <3>1, <3>3
  <2> QED BY <2>1, <2>2
<1>10. ASSUME NEW mem, NEW kept, NEW o \in Nat, Holds(mem, o, ChainBytes(ps))
       PROVE  Create(kept, mem, o) = [st |-> "ok", chain |-> After(kept, ps), size |-> z + total]
  <2>1. Holds(mem, o, IntBytes(total)) /\ Holds(mem, o + z, all)
    BY <1>4a, <1>6, <1>7, <1>10, HoldsConcat
  <2>2. DeCodeVarInt(mem, o) = [ok |-> TRUE, value |-> total, size |-> z]
    BY <1>5, <1>6, <2>1, IntBytesHeld
  <2>3. PICK d : d = DeCodeVarInt(mem, o) /\ d.ok /\ d.value = total /\ d.size = z
    BY <2>2
  <2>4. CASE total = 0
    <3>1. Create(kept, mem, o) = [st |-> "ok", chain |-> kept, size |-> z]
      BY <2>3, <2>4 DEF Create
    <3>2. After(kept, ps) = kept /\ z + total = z
      BY <1>9, <2>4 DEF After
    <3> QED BY <3>1, <3>2
  <2>5. CASE total # 0
    <3>1. o + z \in Nat
      OBVIOUS
    <3>2. Walk(mem, o + z, total) = [st |-> "ok", left |-> 0, chain |-> FirstOfEach(ps)]
      BY <1>1, <1>3, <1>4a, <2>1, <3>1, Walked
    <3>3. PICK w : w = Walk(mem, o + z, total) /\ w.st = "ok" /\ w.left = 0 /\ w.chain = FirstOfEach(ps)
      BY <3>2
    <3>4. Create(kept, mem, o) = [st |-> w.st, chain |-> w.chain, size |-> z + total - w.left]
      BY <2>3, <2>5, <3>3 DEF Create
    <3>5. After(kept, ps) = FirstOfEach(ps) /\ z + total - 0 = z + total
      BY <1>9, <2>5 DEF After
    <3> QED BY <3>3, <3>4, <3>5
  <2> QED BY <2>4, <2>5
<1>11. z + total \in Nat /\ z + total >= 1
  BY <1>6
<1>12. ChainHeard(ps, z + total)
  BY <1>8, <1>10, <1>11 DEF ChainHeard
<1> QED BY <1>11, <1>12

\* Two counted properties are not too many.
LEMMA FewAreShort ==
    ASSUME NEW ps, IsProps(ps), Counted(ps), Len(ps) <= 2
    PROVE  Len(AllBytes(ps)) < Limits[4]
<1>1. PICK n, len, pos : PropsLaid(ps, n, len, pos)
  BY PropsAreLaid
<1>2. /\ n \in Nat /\ n = Len(ps) /\ len \in [1..n -> Nat] /\ Sums(pos, len, n)
      /\ \A i \in 1..n : HasLen(PropertyBytes(ps[i]), len[i])
      /\ HasLen(AllBytes(ps), pos[n])
  BY <1>1 DEF PropsLaid
<1>3. \A i \in 1..n : len[i] < Byte /\ len[i] \in Nat /\ pos[i] = pos[i - 1] + len[i]
  BY <1>2 DEF HasLen, Counted, Sums
<1>4. pos[0] = 0 /\ Len(AllBytes(ps)) = pos[n]
  BY <1>2 DEF Sums, HasLen
<1>5. PICK b \in Nat : b = Byte /\ 2 * b <= Word
  <2>1. PICK b \in Nat : b = Byte /\ b >= 10 /\ Word = b * b
    BY ByteFacts
  <2>2. PICK k \in Nat : b = 2 + k
    BY <2>1
  <2>3. PICK y \in Nat : y = b * k
    BY <2>1
  <2>4. b * (2 + k) = b * 2 + b * k
    OBVIOUS
  <2> QED BY <2>1, <2>2, <2>3, <2>4
<1>6. 2 * b < Limits[4] /\ Limits[4] \in Nat
  BY <1>5, ByteFacts, LimitsAbove
<1>7. CASE n = 0
  BY <1>4, <1>6, <1>7
<1>8. CASE n = 1
  <2>1. pos[1] = pos[1 - 1] + len[1] /\ len[1] < Byte /\ len[1] \in Nat
    BY <1>3, <1>8
  <2> QED BY <1>4, <1>5, <1>6, <1>8, <2>1
<1>9. CASE n = 2
  <2>1. /\ pos[1] = pos[1 - 1] + len[1] /\ len[1] < Byte /\ len[1] \in Nat
        /\ pos[2] = pos[2 - 1] + len[2] /\ len[2] < Byte /\ len[2] \in Nat
    BY <1>3, <1>9
  <2>2. 1 - 1 = 0 /\ 2 - 1 = 1
    OBVIOUS
  <2>3. PICK x \in Nat, y \in Nat : x = len[1] /\ y = len[2]
    BY <2>1
  <2>4. x < b /\ y < b
    BY <1>5, <2>1, <2>3
  <2>5. pos[1] = x
    BY <1>4, <2>1, <2>2, <2>3
  <2>6. pos[2] = x + y
    BY <2>1, <2>2, <2>3, <2>5
  <2>7. x + y < Limits[4]
    BY <1>6, <2>4
  <2> QED BY <1>4, <1>9, <2>6, <2>7
<1>10. n = 0 \/ n = 1 \/ n = 2
  BY <1>2
<1> QED BY <1>7, <1>8, <1>9, <1>10

-----------------------------------------------------------------------------
(* The packets under way. *)

\* Properties that fit a chain.
ShortProps(ps) == IsProps(ps) /\ (Counted(ps) => Len(AllBytes(ps)) < Limits[4])

\* The packets of each kind.
IsPublish(p) ==
    /\ p.qos \in 0..2 /\ p.packet_id \in Nat /\ ShortProps(p.props)
    /\ p.topic \in Seq(Nat) /\ Len(p.topic) < Word
    /\ p.message \in Seq(Nat) /\ 5 + Len(p.topic) + Len(p.message) < Limits[4]
\* A topic with its options.
IsTopic(t) == t.name \in Seq(Nat) /\ t.options \in Nat /\ t = [name |-> t.name, options |-> t.options]
\* SUBSCRIBE or UNSUBSCRIBE: any number of topics of any length.
IsSubscribe(p) ==
    /\ p.packet_id \in Nat /\ ShortProps(p.props)
    /\ \E S : p.topics \in Seq(S) /\ \A t \in S : IsTopic(t)
\* CONNECT with any of will, user name and password.
IsConnect(p) ==
    /\ p.flags.will \in BOOLEAN /\ p.flags.name \in BOOLEAN /\ p.flags.pwd \in BOOLEAN
    /\ ShortProps(p.props) /\ p.id \in Seq(Nat)
    /\ ShortProps(p.will[1]) /\ p.will[2] \in Seq(Nat) /\ p.will[3] \in Seq(Nat)
    /\ p.name \in Seq(Nat) /\ p.pwd \in Seq(Nat)
\* An answer of the broker, short enough for the protocol.
IsAnswer(p) == IsHeader(p.vh) /\ p.vh.kind # "Publish" /\ HeaderSize(p.vh) < Limits[4]

\* The texts of the run are sequences of bytes.
LEMMA TextIs ==
    ASSUME NEW n \in Nat, NEW k \in Nat
    PROVE  Text(n, k) \in Seq(Nat) /\ Len(Text(n, k)) = n
<1>1. \A i \in 1..n : (3 * i + k) % Byte \in Nat
  <2> TAKE i \in 1..n
  <2>1. 3 * i + k \in Nat
    OBVIOUS
  <2> QED BY <2>1, DivModRange, ByteFacts
<1>2. Text(n, k) \in [1..n -> Nat]
  BY <1>1 DEF Text
<1> QED BY <1>2, SeqOfFunction

\* The largest integer of the run fits four bytes.
LEMMA IntegersReach ==
    624 < Limits[4]
<1>1. PICK r \in Nat : r = Radix /\ r >= 5 /\ Limits[4] = r * r * r * r
  BY RadixAssumption, LimitsAre
<1>2. PICK k \in Nat : r = 5 + k
  BY <1>1
<1>3. PICK s \in Nat : s = r * r /\ s >= 25
  <2>1. PICK y \in Nat : y = k * k
    OBVIOUS
  <2>2. (5 + k) * (5 + k) = 25 + 10 * k + k * k
    OBVIOUS
  <2> QED BY <1>2, <2>1, <2>2
<1>4. PICK j \in Nat : s = 25 + j
  BY <1>3
<1>5. r * r * r * r = s * s
  BY <1>3
<1>6. s * s >= 625
  <2>1. PICK y \in Nat : y = j * j
    OBVIOUS
  <2>2. (25 + j) * (25 + j) = 625 + 50 * j + j * j
    OBVIOUS
  <2> QED BY <1>4, <2>1, <2>2
<1>7. PICK l \in Nat : l = s * s
  OBVIOUS
<1> QED BY <1>1, <1>5, <1>6, <1>7

\* The properties of the run are properties the protocol allows.
LEMMA PropertiesAre ==
    ASSUME NEW p \in Properties
    PROVE  IsProperty(p)
<1>1. /\ retain_available = 1 /\ maximum_packet_size = 4 /\ topic_alias = 6
      /\ assigned_client_identifier = 5 /\ correlation_data = 7 /\ user_property = 8
      /\ subscription_identifier = 9
  BY DEF retain_available, maximum_packet_size, topic_alias, assigned_client_identifier,
         correlation_data, user_property, subscription_identifier
<1>2. CASE \E v \in Nat : p = [id |-> 1, value |-> v] \/ p = [id |-> 4, value |-> v] \/ p = [id |-> 6, value |-> v]
  <2>1. PICK v \in Nat : p = [id |-> 1, value |-> v] \/ p = [id |-> 4, value |-> v] \/ p = [id |-> 6, value |-> v]
    BY <1>2
  <2>2. p.value \in Nat /\ p.id \in 1..9
    BY <2>1
  <2>3. DataType[p.id] \in {"byte", "four_byte", "two_byte"}
    BY <2>1, DataTypes
  <2>4. HasType(DataType[p.id], p.value)
    BY <2>2, <2>3 DEF HasType
  <2> QED BY <2>2, <2>3, <2>4 DEF IsProperty, Typed
<1>3. CASE \E n \in Nat : p = [id |-> 5, value |-> Text(n, 2)]
  <2>1. PICK n \in Nat : p = [id |-> 5, value |-> Text(n, 2)]
    BY <1>3
  <2>2. p.value \in Seq(Nat) /\ p.id \in 1..9
    BY <2>1, TextIs
  <2>3. DataType[p.id] = "mqtt_string"
    BY <2>1, DataTypes
  <2>4. HasType(DataType[p.id], p.value)
    BY <2>2, <2>3 DEF HasType
  <2> QED BY <2>2, <2>3, <2>4 DEF IsProperty, Typed
<1>4. CASE \E n \in Nat : p = [id |-> 7, value |-> Text(n, 4)]
  <2>1. PICK n \in Nat : p = [id |-> 7, value |-> Text(n, 4)]
    BY <1>4
  <2>2. p.value \in Seq(Nat) /\ p.id \in 1..9
    BY <2>1, TextIs
  <2>3. DataType[p.id] = "binary_data"
    BY <2>1, DataTypes
  <2>4. HasType(DataType[p.id], p.value)
    BY <2>2, <2>3 DEF HasType
  <2> QED BY <2>2, <2>3, <2>4 DEF IsProperty, Typed
<1>5. CASE \E s, t \in Seq(Nat) : p = [id |-> 8, value |-> <<s, t>>]
  <2>1. PICK s \in Seq(Nat), t \in Seq(Nat) : p = [id |-> 8, value |-> <<s, t>>]
    BY <1>5
  <2>2. /\ p.value = <<p.value[1], p.value[2]>> /\ p.value[1] \in Seq(Nat) /\ p.value[2] \in Seq(Nat)
        /\ p.id \in 1..9
    BY <2>1
  <2>3. DataType[p.id] = "mqtt_string_pair"
    BY <2>1, DataTypes
  <2>4. HasType(DataType[p.id], p.value)
    BY <2>2, <2>3 DEF HasType
  <2> QED BY <2>2, <2>3, <2>4 DEF IsProperty, Typed
<1>6. CASE \E n \in 0..624 : p = [id |-> 9, value |-> n]
  <2>1. Limits[4] \in Nat
    BY LimitsAbove
  <2>2. PICK n \in 0..624 : p = [id |-> 9, value |-> n]
    BY <1>6
  <2>3. p.value \in Nat /\ p.id \in 1..9 /\ p.value < Limits[4]
    BY <2>1, <2>2, IntegersReach
  <2>4. DataType[p.id] = "variable_int"
    BY <2>2, DataTypes
  <2>5. HasType(DataType[p.id], p.value)
    BY <2>3, <2>4 DEF HasType
  <2> QED BY <2>3, <2>4, <2>5 DEF IsProperty, Typed
<1>7. \/ p = [id |-> 1, value |-> 7] \/ p = [id |-> 4, value |-> 4321] \/ p = [id |-> 6, value |-> 57]
      \/ \E n \in {0, 6, 7, 9} : p = [id |-> 5, value |-> Text(n, 2)]
      \/ \E n \in {1, 6, 8} : p = [id |-> 7, value |-> Text(n, 4)]
      \/ \E pair \in {<<Text(2, 1), Text(1, 5)>>, <<Text(1, 3), <<>>>>, <<Text(3, 0), Text(3, 1)>>} :
             p = [id |-> 8, value |-> pair]
      \/ \E n \in {0, 4, 5, 624} : p = [id |-> 9, value |-> n]
  BY <1>1 DEF Properties
<1>8. ASSUME NEW pair \in {<<Text(2, 1), Text(1, 5)>>, <<Text(1, 3), <<>>>>, <<Text(3, 0), Text(3, 1)>>}
      PROVE  \E s, t \in Seq(Nat) : pair = <<s, t>>
  <2>1. /\ Text(2, 1) \in Seq(Nat) /\ Text(1, 5) \in Seq(Nat) /\ Text(1, 3) \in Seq(Nat)
        /\ Text(3, 0) \in Seq(Nat) /\ Text(3, 1) \in Seq(Nat) /\ <<>> \in Seq(Nat)
    <3>1. \A n, k \in Nat : Text(n, k) \in Seq(Nat)
      BY TextIs
    <3>2. Text(2, 1) \in Seq(Nat) /\ Text(1, 5) \in Seq(Nat) /\ Text(1, 3) \in Seq(Nat)
      BY <3>1
    <3>3. Text(3, 0) \in Seq(Nat) /\ Text(3, 1) \in Seq(Nat)
      BY <3>1
    <3> QED BY <3>2, <3>3
  <2> QED BY <2>1
<1>9. \A v \in {7, 4321, 57, 0, 6, 9, 1, 8} : v \in Nat
  OBVIOUS
<1>10. CASE p = [id |-> 1, value |-> 7] \/ p = [id |-> 4, value |-> 4321] \/ p = [id |-> 6, value |-> 57]
  BY <1>2, <1>9, <1>10
<1>11. CASE \E n \in {0, 6, 7, 9} : p = [id |-> 5, value |-> Text(n, 2)]
  BY <1>3, <1>9, <1>11
<1>12. CASE \E n \in {1, 6, 8} : p = [id |-> 7, value |-> Text(n, 4)]
  BY <1>4, <1>9, <1>12
<1>13. CASE \E n \in {0, 4, 5, 624} : p = [id |-> 9, value |-> n]
  <2>1. \A n \in {0, 4, 5, 624} : n \in 0..624
    OBVIOUS
  <2>2. PICK n \in {0, 4, 5, 624} : p = [id |-> 9, value |-> n]
    BY <1>13
  <2>3. n \in 0..624
    BY <2>1
  <2>4. \E k \in 0..624 : p = [id |-> 9, value |-> k]
    BY <2>2, <2>3, Zenon
  <2> QED BY <1>6, <2>4, Zenon
<1> QED BY <1>5, <1>7, <1>8, <1>10, <1>11, <1>12, <1>13

\* Chains of a few properties.
LEMMA FewProps ==
    ASSUME NEW ps, NEW S, ps \in Seq(S), Len(ps) <= 2, \A x \in S : IsProperty(x)
    PROVE  ShortProps(ps)
<1>1. IsProps(ps)
  BY DEF IsProps
<1> QED BY <1>1, FewAreShort DEF ShortProps

\* Sequences of bounded length.
LEMMA BoundedIs ==
    ASSUME NEW S, NEW n \in Nat, NEW s \in SeqOf(S, n)
    PROVE  s \in Seq(S) /\ Len(s) <= n
<1>1. PICK m \in 0..n : s \in [1..m -> S]
  BY DEF SeqOf
<1>2. s \in Seq(S) /\ Len(s) = m
  BY <1>1, SeqOfFunction
<1> QED BY <1>1, <1>2

\* The chains of the run fit a packet.
LEMMA ChainsAre ==
    ASSUME NEW n \in 0..2, NEW ps \in Chains(n)
    PROVE  ShortProps(ps)
<1>1. ps \in SeqOf(Properties, n)
  BY DEF Chains, BoundedSeq
<1>2. ps \in Seq(Properties) /\ Len(ps) <= n
  BY <1>1, BoundedIs
<1>3. Len(ps) <= 2
  <2>1. Len(ps) \in Nat
    BY <1>2
  <2> QED BY <1>2, <2>1
<1> QED BY <1>2, <1>3, PropertiesAre, FewProps

\* So do those of its CONNECT.
LEMMA FewChainsAre ==
    ASSUME NEW ps \in FewChains
    PROVE  ShortProps(ps)
<1> DEFINE a == [id |-> subscription_identifier, value |-> 624]
           b == [id |-> correlation_data, value |-> Text(6, 4)]
           c == [id |-> retain_available, value |-> 7]
           d == [id |-> assigned_client_identifier, value |-> Text(8, 2)]
<1>1. a \in Properties /\ b \in Properties /\ c \in Properties
  <2>1. a \in {[id |-> subscription_identifier, value |-> n] : n \in {0, 4, 5, 624}}
    OBVIOUS
  <2>2. b \in {[id |-> correlation_data, value |-> Text(n, 4)] : n \in {1, 6, 8}}
    <3>1. 6 \in {1, 6, 8}
      OBVIOUS
    <3> QED BY <3>1
  <2> QED BY <2>1, <2>2 DEF Properties
<1>4. IsProperty(d)
  <2>1. d.id = 5 /\ d.value \in Seq(Nat)
    BY TextIs DEF assigned_client_identifier
  <2> HIDE DEF d
  <2>2. DataType[d.id] = "mqtt_string" /\ d.id \in 1..9
    BY <2>1, DataTypes
  <2>3. HasType(DataType[d.id], d.value)
    BY <2>1, <2>2 DEF HasType
  <2> QED BY <2>2, <2>3 DEF IsProperty, Typed
<1>2. ps \in {<<>>, <<a>>, <<b, c>>, <<d>>}
  BY DEF FewChains
<1> HIDE DEF a, b, c, d
<1> DEFINE S == Properties \union {d}
<1>5. \A x \in S : IsProperty(x)
  BY <1>4, PropertiesAre
<1>3. ps \in Seq(S) /\ Len(ps) <= 2
  <2>1. <<>> \in Seq(S) /\ <<a>> \in Seq(S) /\ <<b, c>> \in Seq(S) /\ <<d>> \in Seq(S)
    BY <1>1
  <2>2. Len(<<>>) <= 2 /\ Len(<<a>>) <= 2 /\ Len(<<b, c>>) <= 2 /\ Len(<<d>>) <= 2
    OBVIOUS
  <2> QED BY <1>2, <2>1, <2>2
<1> HIDE DEF S
<1> QED BY <1>3, <1>5, FewProps

\* Every PUBLISH of the run is one.
LEMMA PublishIs ==
    ASSUME NEW ps \in Chains(2), NEW q \in 0..2, NEW t \in {1, 13},
           NEW m \in {0, 3, Word - 1, Word, Word + 2}
    PROVE  IsPublish([kind |-> "PUBLISH", qos |-> q, packet_id |-> 6, props |-> ps,
                      topic |-> Text(t, 3), message |-> Text(m, 2)])
<1>1. PICK w \in Nat : w = Word /\ w >= 100
  BY ByteFacts
<1>2. t \in Nat /\ t <= 13 /\ m \in Nat /\ m <= w + 2
  BY <1>1
<1>3. PICK topic \in Seq(Nat) : topic = Text(t, 3) /\ Len(topic) = t
  BY <1>2, TextIs
<1>4. PICK message \in Seq(Nat) : message = Text(m, 2) /\ Len(message) = m
  BY <1>2, TextIs
<1>5. ShortProps(ps)
  BY ChainsAre
<1>6. Len(topic) < Word /\ 5 + Len(topic) + Len(message) < Limits[4]
  <2>1. PICK l \in Nat : l = Limits[4] /\ l >= w + 500
    BY <1>1, LimitsAbove
  <2>2. Len(topic) < w /\ 5 + Len(topic) + Len(message) < l
    <3>1. t < w /\ 5 + t + m < l
      BY <1>1, <1>2, <2>1
    <3> QED BY <1>3, <1>4, <3>1
  <2> QED BY <1>1, <2>1, <2>2
<1> QED BY <1>3, <1>4, <1>5, <1>6 DEF IsPublish

\* So is every SUBSCRIBE and UNSUBSCRIBE.
LEMMA SubscribeIs ==
    ASSUME NEW k, NEW ps \in Chains(1),
           NEW ts \in SeqOf({[name |-> Text(n, 4), options |-> o] : n \in {1, 12}, o \in {0, 1}}, 2)
    PROVE  IsSubscribe([kind |-> k, packet_id |-> 7, props |-> ps, topics |-> ts])
<1> DEFINE S == {[name |-> Text(n, 4), options |-> o] : n \in {1, 12}, o \in {0, 1}}
<1>1. ts \in Seq(S)
  <2>1. ts \in SeqOf(S, 2)
    OBVIOUS
  <2> HIDE DEF S
  <2> QED BY <2>1, BoundedIs
<1>2. ASSUME NEW t \in S PROVE IsTopic(t)
  <2>1. PICK n \in {1, 12}, o \in {0, 1} : t = [name |-> Text(n, 4), options |-> o]
    OBVIOUS
  <2>2. n \in Nat /\ o \in Nat
    OBVIOUS
  <2>3. Text(n, 4) \in Seq(Nat)
    BY <2>2, TextIs
  <2> QED BY <2>1, <2>2, <2>3 DEF IsTopic
<1>3. ShortProps(ps)
  BY ChainsAre
<1> HIDE DEF S
<1>4. \E T : ts \in Seq(T) /\ \A t \in T : IsTopic(t)
  BY <1>1, <1>2
<1> QED BY <1>3, <1>4 DEF IsSubscribe

\* So is every CONNECT.
LEMMA ConnectIs ==
    ASSUME NEW f \in Flags, NEW ps \in FewChains, NEW ws \in FewChains, NEW i \in Nat,
           NEW t \in Nat, NEW n \in Nat, NEW w \in Nat
    PROVE  IsConnect([kind |-> "CONNECT", flags |-> f, props |-> ps, id |-> Text(i, 1),
                      will |-> <<ws, Text(t, 6), Text(t + 1, 5)>>, name |-> Text(n, 7),
                      pwd |-> Text(w, 8)])
<1>1. f.will \in BOOLEAN /\ f.name \in BOOLEAN /\ f.pwd \in BOOLEAN
  BY DEF Flags
<1>2. ShortProps(ps) /\ ShortProps(ws)
  BY FewChainsAre
<1>3. i \in Nat /\ t \in Nat /\ t + 1 \in Nat /\ n \in Nat /\ w \in Nat
  OBVIOUS
<1>4. Text(i, 1) \in Seq(Nat) /\ Text(t, 6) \in Seq(Nat)
  BY <1>3, TextIs
<1>5. Text(t + 1, 5) \in Seq(Nat)
  BY <1>3, TextIs
<1>6. Text(n, 7) \in Seq(Nat) /\ Text(w, 8) \in Seq(Nat)
  BY <1>3, TextIs
<1> QED BY <1>1, <1>2, <1>4, <1>5, <1>6 DEF IsConnect

\* The CONNACK of an accepted CONNECT.
LEMMA ConnackChain ==
    ASSUME NEW flags, NEW random \in BOOLEAN, NEW id
    PROVE  LET chain == Connack(flags, random, id).chain
           IN  /\ DOMAIN chain = IF random THEN 1..5 ELSE 1..4
               /\ chain[1] = 1 /\ chain[2] = 1 /\ chain[3] = 0 /\ chain[4] = Word - 1
               /\ random => chain[5] = id
<1>1. /\ retain_available = 1 /\ wildcard_subscription_available = 2
      /\ shared_subscription_available = 3 /\ maximum_packet_size = 4
      /\ assigned_client_identifier = 5
  BY DEF retain_available, wildcard_subscription_available, shared_subscription_available,
         maximum_packet_size, assigned_client_identifier
<1>2. PICK w : w = Word - 1
  OBVIOUS
<1>3. PICK none : none = NoProperties /\ DOMAIN none = {}
  <2>1. DOMAIN NoProperties = {}
    BY DEF NoProperties
  <2> QED BY <2>1
<1>4. PICK retain : retain = AddProperty(none, 1, 1)
  OBVIOUS
<1>5. PICK size : size = AddProperty(retain, 4, w)
  OBVIOUS
<1>6. PICK wildcard : wildcard = AddProperty(size, 2, 1)
  OBVIOUS
<1>7. PICK shared : shared = AddProperty(wildcard, 3, 0)
  OBVIOUS
<1>8. PICK given : given = AddProperty(shared, 5, id)
  OBVIOUS
<1>9. DOMAIN retain = {1} /\ retain[1] = 1
  BY <1>3, <1>4 DEF AddProperty
<1>10. DOMAIN size = {1, 4} /\ size[1] = 1 /\ size[4] = w
  BY <1>5, <1>9 DEF AddProperty
<1>11. DOMAIN wildcard = {1, 2, 4} /\ wildcard[1] = 1 /\ wildcard[2] = 1 /\ wildcard[4] = w
  BY <1>6, <1>10 DEF AddProperty
<1>12. /\ DOMAIN shared = {1, 2, 3, 4}
       /\ shared[1] = 1 /\ shared[2] = 1 /\ shared[3] = 0 /\ shared[4] = w
  BY <1>7, <1>11 DEF AddProperty
<1>13. /\ DOMAIN given = {1, 2, 3, 4, 5}
       /\ given[1] = 1 /\ given[2] = 1 /\ given[3] = 0 /\ given[4] = w /\ given[5] = id
  BY <1>8, <1>12 DEF AddProperty
<1>14. Connack(flags, random, id).chain = IF random THEN given ELSE shared
  BY <1>1, <1>2, <1>3, <1>4, <1>5, <1>6, <1>7, <1>8 DEF Connack
<1>15. {1, 2, 3, 4, 5} = 1..5 /\ {1, 2, 3, 4} = 1..4
  OBVIOUS
<1>16. CASE random
  BY <1>2, <1>13, <1>14, <1>15, <1>16
<1>17. CASE ~random
  BY <1>2, <1>12, <1>14, <1>15, <1>17
<1> QED BY <1>16, <1>17

\* A chain of at most the five properties of CONNACK.
LEMMA ConnackTakes ==
    ASSUME NEW chain, IsChain(chain), NEW m \in 0..1, DOMAIN chain = IF m = 1 THEN 1..5 ELSE 1..4
    PROVE  ChainTotal(chain) = 11 + (IF m = 1 THEN 3 + Len(chain[5]) ELSE 0)
<1>1. PICK u : Sums(u, Takes(chain), 9) /\ ChainTotal(chain) = u[9]
  BY ChainSums
<1>2. PICK t : t = Takes(chain)
  OBVIOUS
<1>3. \A id \in 1..9 : t[id] = IF id \in DOMAIN chain THEN Size(id, chain[id]) + 1 ELSE 0
  BY <1>2 DEF Takes
<1>4. t[1] = 2 /\ t[2] = 2 /\ t[3] = 2 /\ t[4] = 5
  <2>1. 1 \in DOMAIN chain /\ 2 \in DOMAIN chain /\ 3 \in DOMAIN chain /\ 4 \in DOMAIN chain
    OBVIOUS
  <2>2. Size(1, chain[1]) = 1 /\ Size(2, chain[2]) = 1 /\ Size(3, chain[3]) = 1
    BY DataTypes DEF Size
  <2>3. Size(4, chain[4]) = 4
    BY DataTypes DEF Size
  <2> QED BY <1>3, <2>1, <2>2, <2>3
<1>5. PICK n \in Nat : t[5] = n /\ n = IF m = 1 THEN 3 + Len(chain[5]) ELSE 0
  <2>1. CASE m = 1
    <3>1. 5 \in DOMAIN chain
      BY <2>1
    <3>2. Size(5, chain[5]) = 2 + Len(chain[5])
      BY DataTypes DEF Size
    <3>3. chain[5] \in Seq(Nat)
      BY <3>1, DataTypes DEF IsChain, Typed, HasType
    <3>4. PICK l \in Nat : l = Len(chain[5])
      BY <3>3
    <3>5. t[5] = 3 + l
      BY <1>3, <3>1, <3>2, <3>4
    <3> QED BY <2>1, <3>4, <3>5
  <2>2. CASE m = 0
    <3>1. 5 \notin DOMAIN chain
      BY <2>2
    <3> QED BY <1>3, <2>2, <3>1
  <2> QED BY <2>1, <2>2
<1>6. t[6] = 0 /\ t[7] = 0 /\ t[8] = 0 /\ t[9] = 0
  <2>1. 6 \notin DOMAIN chain /\ 7 \notin DOMAIN chain /\ 8 \notin DOMAIN chain /\ 9 \notin DOMAIN chain
    OBVIOUS
  <2> QED BY <1>3, <2>1
<1>7. u[0] = 0 /\ \A i \in 1..9 : u[i] = u[i - 1] + t[i]
  BY <1>1, <1>2 DEF Sums
<1>8. u[1] = 2 /\ u[2] = 4 /\ u[3] = 6 /\ u[4] = 11
  <2>1. u[1] = u[1 - 1] + t[1] /\ u[2] = u[2 - 1] + t[2] /\ u[3] = u[3 - 1] + t[3] /\ u[4] = u[4 - 1] + t[4]
    BY <1>7
  <2>2. 1 - 1 = 0 /\ 2 - 1 = 1 /\ 3 - 1 = 2 /\ 4 - 1 = 3
    OBVIOUS
  <2> QED BY <1>4, <1>7, <2>1, <2>2
<1>9. u[5] = 11 + n
  <2>1. u[5] = u[5 - 1] + t[5] /\ 5 - 1 = 4
    BY <1>7
  <2> QED BY <1>5, <1>8, <2>1
<1>10. u[9] = 11 + n
  <2>1. u[6] = u[6 - 1] + t[6] /\ u[7] = u[7 - 1] + t[7] /\ u[8] = u[8 - 1] + t[8] /\ u[9] = u[9 - 1] + t[9]
    BY <1>7
  <2>2. 6 - 1 = 5 /\ 7 - 1 = 6 /\ 8 - 1 = 7 /\ 9 - 1 = 8
    OBVIOUS
  <2> QED BY <1>6, <1>9, <2>1, <2>2
<1> QED BY <1>1, <1>5, <1>10

\* A CONNACK is an answer, with or without an assigned client identifier.
LEMMA ConnackIs ==
    ASSUME NEW flags \in Nat, NEW random \in BOOLEAN, NEW id \in Seq(Nat), 14 + Len(id) < Word
    PROVE  IsAnswer([kind |-> "ANSWER", vh |-> Connack(flags, random, id)])
<1>1. PICK vh : vh = Connack(flags, random, id)
  OBVIOUS
<1>2. vh.kind = "Connack" /\ vh.flags = flags /\ vh.code = 0
  BY <1>1 DEF Connack
<1>3. PICK chain : chain = vh.chain
  OBVIOUS
<1>4. /\ DOMAIN chain = IF random THEN 1..5 ELSE 1..4
      /\ chain[1] = 1 /\ chain[2] = 1 /\ chain[3] = 0 /\ chain[4] = Word - 1
      /\ random => chain[5] = id
  BY <1>1, <1>3, ConnackChain
<1>5. PICK w \in Nat : w = Word /\ w >= 100
  BY ByteFacts
<1>6. IsChain(chain)
  <2>1. DOMAIN chain \subseteq 1..9
    BY <1>4
  <2>2. ASSUME NEW i \in DOMAIN chain PROVE Typed(i, chain[i])
    <3>1. i \in 1..9 /\ (i = 1 \/ i = 2 \/ i = 3 \/ i = 4 \/ (i = 5 /\ random))
      BY <1>4, <2>2
    <3>2. CASE i # 5
      <4>1. chain[i] \in Nat
        BY <1>4, <1>5, <3>1, <3>2
      <4>2. DataType[i] \in {"byte", "four_byte"}
        BY <3>1, <3>2, DataTypes
      <4>3. HasType(DataType[i], chain[i])
        BY <4>1, <4>2 DEF HasType
      <4> QED BY <3>1, <4>3 DEF Typed
    <3>3. CASE i = 5
      <4>1. chain[i] \in Seq(Nat)
        BY <1>4, <3>1, <3>3
      <4>2. DataType[i] = "mqtt_string"
        BY <3>3, DataTypes
      <4>3. HasType(DataType[i], chain[i])
        BY <4>1, <4>2 DEF HasType
      <4> QED BY <3>1, <4>3 DEF Typed
    <3> QED BY <3>2, <3>3
  <2> QED BY <2>1, <2>2 DEF IsChain
<1>7. PICK total \in Nat : total = ChainTotal(chain) /\ total < w
  <2>1. PICK l \in Nat : l = Len(id) /\ 14 + l < w
    BY <1>5
  <2>2. CASE random
    <3>1. ChainTotal(chain) = 11 + (3 + Len(chain[5]))
      BY <1>4, <1>6, <2>2, ConnackTakes
    <3> QED BY <1>4, <2>1, <2>2, <3>1
  <2>3. CASE ~random
    <3>1. ChainTotal(chain) = 11 + 0
      BY <1>4, <1>6, <2>3, ConnackTakes
    <3> QED BY <1>5, <3>1
  <2> QED BY <2>2, <2>3
<1>8. IsHeader(vh)
  BY <1>2, <1>3, <1>5, <1>6, <1>7 DEF IsHeader
<1>9. GetSize(chain) = total
  BY <1>5, <1>6, <1>7, ChainSerialized
<1>10. PICK l \in Nat : l = Limits[4] /\ l >= w + 500
  BY <1>5, LimitsAbove
<1>11. PICK z \in 1..4 : z = GetVarIntSize(total)
  <2>1. total < Limits[4]
    BY <1>7, <1>10
  <2> QED BY <2>1, VarIntSizeAtMost
<1>12. HeaderSize(vh) = 2 + z + total
  <2>1. FixedSize(vh) = 2
    BY <1>2 DEF FixedSize
  <2> QED BY <1>3, <1>9, <1>11, <2>1 DEF HeaderSize
<1>13. HeaderSize(vh) < Limits[4]
  <2>1. 2 + z + total < l
    BY <1>7, <1>10, <1>11
  <2> QED BY <1>10, <1>12, <2>1
<1> QED BY <1>1, <1>2, <1>8, <1>13 DEF IsAnswer

\* The other answers: they have no properties.
LEMMA PlainIs ==
    ASSUME NEW vh, vh.chain = NoProperties,
           \/ vh.kind = "Disconnect" /\ vh.code \in Nat
           \/ vh.kind = "Typical" /\ vh.packet_id \in Nat /\ vh.code \in Nat
           \/ vh.kind = "Suback" /\ vh.packet_id \in Nat /\ vh.codes \in Seq(Nat) /\ Len(vh.codes) < Word
    PROVE  IsAnswer([kind |-> "ANSWER", vh |-> vh])
<1>1. PICK w \in Nat : w = Word /\ w >= 100
  BY ByteFacts
<1>2. PICK l \in Nat : l = Limits[4] /\ l >= w + 500
  BY <1>1, LimitsAbove
<1>3. IsHeader(vh)
  <2>1. IsChain(vh.chain) /\ ChainTotal(vh.chain) < Word
    BY <1>1, EmptyChain
  <2>2. CASE vh.kind = "Disconnect"
    BY <2>1, <2>2 DEF IsHeader
  <2>3. CASE vh.kind = "Typical"
    BY <2>1, <2>3 DEF IsHeader
  <2>4. CASE vh.kind = "Suback"
    BY <2>1, <2>4 DEF IsHeader
  <2> QED BY <2>2, <2>3, <2>4
<1>4. HeaderSize(vh) = FixedSize(vh) + 1
  <2>1. HeaderSize(vh) = FixedSize(vh) + 1 + 0
    BY EmptyChain DEF HeaderSize
  <2>2. FixedSize(vh) \in Nat
    BY DEF FixedSize
  <2> QED BY <2>1, <2>2
<1>5. PICK n \in Nat : n = FixedSize(vh) /\ n <= w + 3
  <2>1. CASE vh.kind = "Disconnect"
    BY <2>1 DEF FixedSize
  <2>2. CASE vh.kind = "Typical"
    BY <2>2 DEF FixedSize
  <2>3. CASE vh.kind = "Suback"
    <3>1. FixedSize(vh) = 2 + Len(vh.codes)
      BY <2>3 DEF FixedSize
    <3>2. PICK k \in Nat : k = Len(vh.codes) /\ k < w
      BY <1>1, <2>3
    <3> QED BY <3>1, <3>2
  <2> QED BY <2>1, <2>2, <2>3
<1>6. HeaderSize(vh) < Limits[4]
  <2>1. n + 1 < l
    BY <1>2, <1>5
  <2> QED BY <1>2, <1>4, <1>5, <2>1
<1>7. vh.kind # "Publish"
  OBVIOUS
<1> QED BY <1>3, <1>6, <1>7 DEF IsAnswer

\* All answers of the run are answers.
LEMMA HeadersAre ==
    ASSUME NEW vh \in Headers
    PROVE  IsAnswer([kind |-> "ANSWER", vh |-> vh])
<1>1. PICK w \in Nat : w = Word /\ w >= 100
  BY ByteFacts
<1>2. \A n, k \in Nat : Text(n, k) \in Seq(Nat) /\ Len(Text(n, k)) = n
  BY TextIs
<1>3. CASE \E f \in 0..1, r \in BOOLEAN, n \in {1, 4, 11} : vh = Connack(f, r, Text(n, 1))
  <2>1. PICK f \in 0..1, r \in BOOLEAN, n \in {1, 4, 11} : vh = Connack(f, r, Text(n, 1))
    BY <1>3
  <2>2. n \in Nat /\ 14 + n < w
    BY <1>1
  <2>3. PICK id \in Seq(Nat) : id = Text(n, 1) /\ Len(id) = n
    BY <1>2, <2>2
  <2>4. 14 + Len(id) < Word /\ f \in Nat
    BY <1>1, <2>2, <2>3
  <2> QED BY <2>1, <2>3, <2>4, ConnackIs
<1>4. CASE \E c \in {1, 4} : vh = [kind |-> "Disconnect", code |-> c, chain |-> NoProperties]
  <2>1. vh.chain = NoProperties /\ vh.kind = "Disconnect" /\ vh.code \in Nat
    BY <1>4
  <2> QED BY <2>1, PlainIs
<1>5. CASE \E i \in {0, 9, 10, Word - 1} :
             vh = [kind |-> "Typical", packet_id |-> i, code |-> 0, chain |-> NoProperties]
  <2>1. vh.chain = NoProperties /\ vh.kind = "Typical" /\ vh.packet_id \in Nat /\ vh.code \in Nat
    BY <1>1, <1>5
  <2> QED BY <2>1, PlainIs
<1>6. CASE \E i \in {0, 9, 10}, n \in {1, 5, 30} :
             vh = [kind |-> "Suback", packet_id |-> i, codes |-> Text(n, 2), chain |-> NoProperties]
  <2>1. PICK i \in {0, 9, 10}, n \in {1, 5, 30} :
            vh = [kind |-> "Suback", packet_id |-> i, codes |-> Text(n, 2), chain |-> NoProperties]
    BY <1>6
  <2>2. i \in Nat /\ n \in Nat /\ n < w
    BY <1>1
  <2>3. PICK codes \in Seq(Nat) : codes = Text(n, 2) /\ Len(codes) = n
    BY <1>2, <2>2
  <2>4. vh.chain = NoProperties /\ vh.kind = "Suback" /\ vh.packet_id \in Nat /\ vh.codes = codes
    BY <2>1, <2>2, <2>3
  <2>5. vh.codes \in Seq(Nat) /\ Len(vh.codes) < Word
    BY <1>1, <2>2, <2>3, <2>4
  <2> QED BY <2>4, <2>5, PlainIs
<1> QED BY <1>3, <1>4, <1>5, <1>6 DEF Headers

\* The invariant: a packet is one of its kind.
PacketInv ==
    /\ packet.kind = "CONNECT" => IsConnect(packet)
    /\ packet.kind = "PUBLISH" => IsPublish(packet)
    /\ packet.kind \in {"SUBSCRIBE", "UNSUBSCRIBE"} => IsSubscribe(packet)
    /\ packet.kind = "ANSWER" => IsAnswer(packet)

\* Every packet under way is well-formed, so that what is proved below for every
\* well-formed packet holds in every state of the run.
THEOREM PacketsAre == Spec => []PacketInv
<1>1. Init => PacketInv
  BY DEF Init, NoPacket, PacketInv
<1>2. PacketInv /\ [Next]_vars => PacketInv'
  <2>1. SUFFICES ASSUME PacketInv, [Next]_vars PROVE PacketInv'
    OBVIOUS
  <2>2. CASE Connect
    <3>1. packet'.kind = "CONNECT"
      BY <2>2 DEF Connect, Take
    <3>2. IsConnect(packet')
      <4>1. PICK f \in Flags, ps \in FewChains, ws \in FewChains, i \in {0, 7, 8, 12},
                 t \in {1, 11}, n \in {0, 2, 7, 8}, w \in {0, 9} :
                     Take([kind |-> "CONNECT", flags |-> f, props |-> ps, id |-> Text(i, 1),
                           will |-> <<ws, Text(t, 6), Text(t + 1, 5)>>, name |-> Text(n, 7),
                           pwd |-> Text(w, 8)])
        BY <2>2 DEF Connect
      <4>2. PICK p : p = [kind |-> "CONNECT", flags |-> f, props |-> ps, id |-> Text(i, 1),
                          will |-> <<ws, Text(t, 6), Text(t + 1, 5)>>, name |-> Text(n, 7),
                          pwd |-> Text(w, 8)]
        OBVIOUS
      <4>3. i \in Nat /\ t \in Nat /\ n \in Nat /\ w \in Nat
        OBVIOUS
      <4>4. packet' = p
        BY <4>1, <4>2 DEF Take
      <4>5. IsConnect([kind |-> "CONNECT", flags |-> f, props |-> ps, id |-> Text(i, 1),
                       will |-> <<ws, Text(t, 6), Text(t + 1, 5)>>, name |-> Text(n, 7),
                       pwd |-> Text(w, 8)])
        <5> QED BY <4>3, ConnectIs
      <4> QED BY <4>2, <4>4, <4>5
    <3> QED BY <3>1, <3>2 DEF PacketInv
  <2>3. CASE Publish
    <3>1. packet'.kind = "PUBLISH"
      BY <2>3 DEF Publish, Take
    <3>2. IsPublish(packet')
      <4>1. PICK ps \in Chains(2), q \in 0..2, t \in {1, 13}, m \in {0, 3, Word - 1, Word, Word + 2} :
                     Take([kind |-> "PUBLISH", qos |-> q, packet_id |-> 6, props |-> ps,
                           topic |-> Text(t, 3), message |-> Text(m, 2)])
        BY <2>3 DEF Publish
      <4> QED BY <4>1, PublishIs, Zenon DEF Take
    <3> QED BY <3>1, <3>2 DEF PacketInv
  <2>4. CASE Subscribe
    <3>1. packet'.kind \in {"SUBSCRIBE", "UNSUBSCRIBE"}
      BY <2>4 DEF Subscribe, Take
    <3>2. IsSubscribe(packet')
      BY <2>4, SubscribeIs DEF Subscribe, Take
    <3> QED BY <3>1, <3>2 DEF PacketInv
  <2>5. CASE Answer
    <3>1. packet'.kind = "ANSWER"
      BY <2>5 DEF Answer, Take
    <3>2. IsAnswer(packet')
      BY <2>5, HeadersAre DEF Answer, Take
    <3> QED BY <3>1, <3>2 DEF PacketInv
  <2>6. CASE Integer
    BY <2>6 DEF Integer, Take, PacketInv
  <2>7. CASE Done
    BY <2>7 DEF Done, NoPacket, PacketInv
  <2>8. CASE UNCHANGED vars
    BY <2>1, <2>8 DEF vars, PacketInv
  <2> QED BY <2>1, <2>2, <2>3, <2>4, <2>5, <2>6, <2>7, <2>8 DEF Next
<1> QED BY <1>1, <1>2, PTL DEF Spec

\* Every packet the broker writes announces the number of bytes that follow and
\* fills its buffer, the assertions at the end of CreateMqttPacket; so does a
\* relayed message of any QoS with a packet id that is not 0.
THEOREM EveryAnswerFramed == Spec => []AnswersFramed
<1>1. PacketInv => AnswersFramed
  <2>1. ASSUME PacketInv, packet.kind = "ANSWER" PROVE Framed(CreateMqttPacket(packet.vh))
    <3>1. PICK vh : vh = packet.vh /\ IsHeader(vh) /\ vh.kind # "Publish" /\ HeaderSize(vh) < Limits[4]
      BY <2>1 DEF PacketInv, IsAnswer
    <3> QED BY <3>1, AnswerFramed
  <2>2. ASSUME PacketInv, packet.kind = "PUBLISH", NEW q \in 0..2, NEW i \in {1, Byte, Word - 1}
        PROVE  Framed(Relay(packet.topic, q, i, packet.message))
    <3>1. PICK topic \in Seq(Nat), message \in Seq(Nat) :
              topic = packet.topic /\ message = packet.message /\ 5 + Len(topic) + Len(message) < Limits[4]
      BY <2>2 DEF PacketInv, IsPublish
    <3>2. PICK w \in Nat : w = Word /\ w >= 100
      BY ByteFacts
    <3>3. PICK b \in Nat : b = Byte /\ b > 0
      BY ByteFacts
    <3>4. i \in Nat /\ i # 0
      BY <3>2, <3>3
    <3>5. Framed(Relay(topic, q, i, message)) <=> (q # 0 => i # 0)
      BY <3>1, <3>4, RelayFramed
    <3> QED BY <3>1, <3>4, <3>5
  <2> QED BY <2>1, <2>2 DEF AnswersFramed
<1> QED BY <1>1, PacketsAre, PTL

-----------------------------------------------------------------------------
(* A PUBLISH, heard and relayed. *)

\* On an empty chain, the properties of a packet are its first of each identifier.
LEMMA FirstOfSome ==
    ASSUME NEW ps, ShortProps(ps)
    PROVE  After(NoProperties, ps) = FirstOfEach(ps)
<1>1. CASE ps = <<>>
  <2>1. Len(ps) = 0
    BY <1>1
  <2>2. FirstOfEach(ps) = NoProperties
    BY <2>1, FirstAll, FirstNone
  <2> QED BY <1>1, <2>2 DEF After
<1>2. CASE ps # <<>>
  BY <1>2 DEF After
<1> QED BY <1>1, <1>2

\* Counted properties that fit a chain are taken in.
LEMMA ShortHeard ==
    ASSUME NEW ps, ShortProps(ps), Counted(ps)
    PROVE  \E m \in Nat : ChainHeard(ps, m)
BY ChainIsHeard DEF ShortProps

\* A remainder is not above its number.
LEMMA RemainderAtMost ==
    ASSUME NEW a \in Nat, NEW b \in Nat \ {0}
    PROVE  a % b \in Nat /\ a % b <= a
OBVIOUS

\* A prefix, element by element.
LEMMA Prefix ==
    ASSUME NEW s \in Seq(Nat), NEW k \in Nat, k <= Len(s)
    PROVE  SubSeq(s, 1, k) = [i \in 1..k |-> s[i]]
OBVIOUS

\* What is heard of a PUBLISH: of its payload, as many bytes as a uint16_t counts.
PublishAs(p, b) ==
    [topic     |-> p.topic,
     packet_id |-> IF p.qos > 0 THEN p.packet_id ELSE 0,
     st        |-> "ok",
     chain     |-> Copy(FirstOfEach(p.props), b),
     message   |-> SubSeq(p.message, 1, Len(p.message) % Word)]

\* HandleMqttPublish reads topic, packet identifier, properties and payload of
\* any PUBLISH whose properties a uint8_t counts.
LEMMA PublishHeard ==
    ASSUME NEW p, IsPublish(p), Counted(p.props), NEW b
    PROVE  /\ HandleMqttPublish(p.qos, [data |-> PublishBytes(p), rest |-> b]) = PublishAs(p, b)
           /\ Len(PublishBytes(p)) \in Nat /\ Len(PublishBytes(p)) >= Len(p.message)
<1>1. PICK topic \in Seq(Nat), t \in Nat : topic = p.topic /\ t = Len(topic)
  BY DEF IsPublish
<1>2. PICK message \in Seq(Nat), l \in Nat : message = p.message /\ l = Len(message)
  BY DEF IsPublish
<1>3. PICK qos \in 0..2, id \in Nat : qos = p.qos /\ id = p.packet_id
  BY DEF IsPublish
<1>4. PICK d \in Nat : d = IF qos > 0 THEN 2 ELSE 0
  OBVIOUS
<1>5. PICK ids : ids = (IF qos > 0 THEN <<0, id>> ELSE <<>>) /\ HasLen(ids, d)
  <2>1. HasLen(<<0, id>>, 2) /\ HasLen(<<>>, 0)
    BY DEF HasLen
  <2> QED BY <1>4, <2>1
<1>6. PICK m \in Nat : ChainHeard(p.props, m)
  BY ShortHeard DEF IsPublish
<1>7. PICK chain : chain = ChainBytes(p.props) /\ HasLen(chain, m)
  BY <1>6 DEF ChainHeard
<1>8. PICK name : name = StringBytes(topic) /\ HasLen(name, 2 + t)
  BY <1>1, StringLen
<1>9. PICK bytes : bytes = ((name \o ids) \o chain) \o message /\ bytes = PublishBytes(p)
  BY <1>1, <1>2, <1>3, <1>5, <1>7, <1>8 DEF PublishBytes
<1>10. HasLen(name \o ids, 2 + t + d)
  BY <1>5, <1>8, LenConcat
<1>11. HasLen((name \o ids) \o chain, 2 + t + d + m)
  BY <1>7, <1>10, LenConcat
<1>12. HasLen(message, l)
  BY <1>2 DEF HasLen
<1>13. HasLen(bytes, 2 + t + d + m + l)
  BY <1>9, <1>11, <1>12, LenConcat
<1>13a. PICK h \in Nat : h = 2 + t + d + m
  OBVIOUS
<1>13b. PICK head : head = (name \o ids) \o chain
  OBVIOUS
<1>14. PICK mem : mem = [data |-> bytes, rest |-> b]
  OBVIOUS
<1>15. Holds(mem, 0, bytes)
  <2>1. bytes \in Seq(Nat)
    BY <1>13 DEF HasLen
  <2> QED BY <1>14, <2>1, HeldBySelf
<1>16. Holds(mem, 0, (name \o ids) \o chain) /\ Holds(mem, 0 + (2 + t + d + m), message)
  <2>1. 0 \in Nat /\ HasLen(head, h) /\ Holds(mem, 0, head \o message)
    BY <1>9, <1>11, <1>13a, <1>13b, <1>15
  <2>2. Holds(mem, 0, head) /\ Holds(mem, 0 + h, message)
    BY <1>12, <2>1, HoldsConcat
  <2> QED BY <1>13a, <1>13b, <2>2
<1>17. Holds(mem, 0, name \o ids) /\ Holds(mem, 0 + (2 + t + d), chain)
  BY <1>7, <1>10, <1>16, HoldsConcat
<1>18. Holds(mem, 0, name) /\ Holds(mem, 0 + (2 + t), ids)
  BY <1>5, <1>8, <1>17, HoldsConcat
<1>19. ReadString(mem, 0) = topic
  <2>1. ConvertToHost2Bytes(mem, 0) = Len(topic) /\ Read(mem, 0 + 2, Len(topic)) = topic
    BY <1>8, <1>18, StringHeld
  <2> QED BY <2>1 DEF ReadString
<1>20. PICK at \in Nat : at = 2 + t + d
  OBVIOUS
<1>21. (IF qos > 0 THEN ConvertToHost2Bytes(mem, at - 2) ELSE 0) = IF qos > 0 THEN id ELSE 0
  <2>1. CASE qos > 0
    <3>1. at - 2 = 2 + t /\ 0 + (2 + t) = 2 + t /\ 2 + t \in Nat
      BY <1>4, <1>20, <2>1
    <3>2. PICK o \in Nat : o = 2 + t
      OBVIOUS
    <3>3. Holds(mem, o, <<0, id>>)
      BY <1>5, <1>18, <2>1, <3>1, <3>2
    <3>4. At(mem, o) = 0 /\ At(mem, o + 1) = id
      BY <3>3, HeldPair
    <3>5. 0 * Byte + id = id
      BY ByteFacts
    <3>6. ConvertToHost2Bytes(mem, o) = id
      BY <3>4, <3>5 DEF ConvertToHost2Bytes
    <3> QED BY <2>1, <3>1, <3>2, <3>6
  <2>2. CASE ~(qos > 0)
    BY <2>2
  <2> QED BY <2>1, <2>2
<1>22. Create(NoProperties, mem, at) = [st |-> "ok", chain |-> FirstOfEach(p.props), size |-> m]
  <2>1. Holds(mem, at, chain)
    BY <1>17, <1>20
  <2>2. Create(NoProperties, mem, at) = [st |-> "ok", chain |-> After(NoProperties, p.props), size |-> m]
    BY <1>6, <1>7, <2>1 DEF ChainHeard
  <2>3. ShortProps(p.props)
    BY DEF IsPublish
  <2> QED BY <2>2, <2>3, FirstOfSome
<1>23. PICK k \in Nat : k = l % Word /\ k <= l
  BY ByteFacts, RemainderAtMost
<1>24. PICK off \in Nat : off = at + m
  OBVIOUS
<1>25. PayloadLength(mem, off) = k
  <2>1. Len(mem.data) = 2 + t + d + m + l
    BY <1>13, <1>14 DEF HasLen
  <2>2. (2 + t + d + m + l) - off = l
    BY <1>20, <1>24
  <2> QED BY <1>23, <2>1, <2>2 DEF PayloadLength
<1>26. Read(mem, off, k) = SubSeq(message, 1, k)
  <2>1. Holds(mem, off, message)
    BY <1>16, <1>20, <1>24
  <2>2. \A i \in 1..k : At(mem, off + i - 1) = message[i]
    <3>1. \A i \in 1..k : i \in 1..Len(message)
      BY <1>2, <1>23
    <3> QED BY <2>1, <3>1 DEF Holds
  <2>3. SubSeq(message, 1, k) = [i \in 1..k |-> message[i]]
    <3>1. k <= Len(message)
      BY <1>2, <1>23
    <3> QED BY <3>1, Prefix
  <2>4. Read(mem, off, k) = [i \in 1..k |-> message[i]]
    BY <2>2 DEF Read
  <2> QED BY <2>3, <2>4
<1>27. 2 + Len(topic) + (IF qos > 0 THEN 2 ELSE 0) = at
  BY <1>1, <1>4, <1>20
<1>28. PICK c : c = FirstOfEach(p.props)
  OBVIOUS
<1>29. HandleMqttPublish(qos, mem)
       = [topic |-> topic, packet_id |-> IF qos > 0 THEN id ELSE 0, st |-> "ok",
          chain |-> Copy(c, b), message |-> SubSeq(message, 1, k)]
  <2>1. PICK x : x = Create(NoProperties, mem, at) /\ x.st = "ok" /\ x.chain = c /\ x.size = m
    <3>1. PICK x : x = Create(NoProperties, mem, at)
      OBVIOUS
    <3>2. x = [st |-> "ok", chain |-> c, size |-> m]
      BY <1>22, <1>28, <3>1
    <3>3. x.st = "ok" /\ x.chain = c /\ x.size = m
      BY <3>2
    <3> QED BY <3>1, <3>3
  <2>2. mem.rest = b
    BY <1>14
  <2>3. HandleMqttPublish(qos, mem)
        = [topic     |-> topic,
           packet_id |-> IF qos > 0 THEN ConvertToHost2Bytes(mem, at - 2) ELSE 0,
           st        |-> x.st,
           chain     |-> Copy(x.chain, mem.rest),
           message   |-> Read(mem, at + x.size, PayloadLength(mem, at + x.size))]
    BY <1>19, <1>27, <2>1, Zenon DEF HandleMqttPublish
  <2> QED BY <1>21, <1>24, <1>25, <1>26, <2>1, <2>2, <2>3
<1>30. Len(PublishBytes(p)) \in Nat /\ Len(PublishBytes(p)) >= Len(p.message)
  <2>1. PICK n \in Nat : n = 2 + t + d + m + l
    OBVIOUS
  <2>2. Len(PublishBytes(p)) = n /\ Len(p.message) = l
    BY <1>2, <1>9, <1>13, <2>1 DEF HasLen
  <2> QED BY <2>1, <2>2
<1> QED BY <1>1, <1>2, <1>3, <1>9, <1>14, <1>23, <1>28, <1>29, <1>30 DEF PublishAs

\* A number that fits is written as the protocol wants it.
LEMMA Big2Is ==
    ASSUME NEW v \in Nat, v < Word
    PROVE  Big2(v) = <<v \div Byte, v % Byte>>
<1>1. PICK b \in Nat \ {0} : b = Byte /\ Word = b * b
  BY ByteFacts
<1>2. PICK q \in Nat : q = v \div b
  BY DivModRange
<1>3. q < b
  BY <1>1, <1>2, DivBelow
<1>4. q % b = q
  BY <1>3, DivSmall
<1> QED BY <1>1, <1>2, <1>4 DEF Big2

\* So is a string whose length fits.
LEMMA SerializedIs ==
    ASSUME NEW s \in Seq(Nat), Len(s) < Word
    PROVE  SerializeString(s) = StringBytes(s)
<1>1. PICK l \in Nat : l = Len(s) /\ l < Word
  OBVIOUS
<1>2. l % Word = l
  BY <1>1, ByteFacts, DivSmall
<1>3. Big2(l) = <<l \div Byte, l % Byte>>
  BY <1>1, Big2Is
<1> QED BY <1>1, <1>2, <1>3 DEF SerializeString, StringBytes

\* No properties are one byte.
LEMMA NothingSerialized ==
    SerializeChain(NoProperties) = <<0>>
<1>1. PICK all : HasLen(all, 0) /\ SerializeChain(NoProperties) = CodeVarInt(0) \o all
  <2>1. ChainTotal(NoProperties) < Word
    BY EmptyChain, ByteFacts
  <2> QED BY <2>1, EmptyChain, ChainSerialized
<1>2. CodeVarInt(0) = <<0>>
  <2>1. 0 \in Nat /\ 0 < Radix
    BY RadixAssumption
  <2> QED BY <2>1, CodeVarIntStep
<1>3. all = <<>>
  BY <1>1 DEF HasLen
<1>4. <<0>> \o <<>> = <<0>>
  OBVIOUS
<1> QED BY <1>1, <1>2, <1>3, <1>4

\* A part of a packet, cut out of it.
LEMMA SubSeqHeld ==
    ASSUME NEW f, NEW m, HasLen(f, m), NEW part, NEW n, HasLen(part, n), NEW o \in Nat, o + n <= m,
           NEW b, Holds([data |-> f, rest |-> b], o, part)
    PROVE  SubSeq(f, o + 1, o + n) = part
<1>1. f \in Seq(Nat) /\ part \in Seq(Nat) /\ m \in Nat /\ n \in Nat /\ Len(f) = m /\ Len(part) = n
  BY DEF HasLen
<1>2. ASSUME NEW i \in 1..n PROVE f[o + i] = part[i]
  <2>1. PICK mem : mem = [data |-> f, rest |-> b]
    OBVIOUS
  <2>2. o + i - 1 < m /\ (o + i - 1) + 1 = o + i
    BY <1>1
  <2>3. At(mem, o + i - 1) = f[o + i]
    BY <1>1, <2>1, <2>2 DEF At
  <2>4. At(mem, o + i - 1) = part[i]
    BY <1>1, <2>1 DEF Holds
  <2> QED BY <2>3, <2>4
<1>3. PICK g : g = SubSeq(f, o + 1, o + n)
  OBVIOUS
<1>4. \A i \in (o + 1)..(o + n) : f[i] \in Nat
  BY <1>1
<1>5. g \in Seq(Nat) /\ Len(g) = n /\ \A i \in 1..n : g[i] = f[o + i]
  <2>1. o + 1 \in Int /\ o + n \in Int /\ (o + n) - (o + 1) + 1 = n
    BY <1>1
  <2>2. /\ g \in Seq(Nat)
        /\ Len(g) = IF o + 1 <= o + n THEN (o + n) - (o + 1) + 1 ELSE 0
        /\ \A i \in 1..((o + n) - (o + 1) + 1) : g[i] = f[(o + 1) + i - 1]
    BY <1>3, <1>4, <2>1, SubSeqProperties
  <2>3. \A i \in 1..n : (o + 1) + i - 1 = o + i
    BY <1>1
  <2>4. Len(g) = n
    BY <1>1, <2>2
  <2> QED BY <2>1, <2>2, <2>3, <2>4
<1>6. \A i \in 1..n : g[i] = part[i]
  BY <1>2, <1>5
<1>7. g = part
  <2>1. g \in Seq(Nat) /\ part \in Seq(Nat) /\ Len(g) = Len(part) /\ \A i \in 1..Len(g) : g[i] = part[i]
    BY <1>1, <1>5, <1>6
  <2> QED BY <2>1, SeqEqual
<1> QED BY <1>3, <1>7

\* What a subscriber reads of a relayed message.
LEMMA RelayRead ==
    ASSUME NEW topic \in Seq(Nat), Len(topic) < Word, NEW message \in Seq(Nat), NEW q \in 0..2,
           NEW i \in Nat, i < Word, q > 0 => i > 0
    PROVE  ReadPublish(q, Relay(topic, q, i, message))
           = [topic |-> topic, id |-> IF q > 0 THEN i ELSE 0, props |-> 0, message |-> message]
<1>1. PICK t \in Nat, l \in Nat : t = Len(topic) /\ l = Len(message)
  OBVIOUS
<1>2. PICK d \in Nat : d = IF q > 0 THEN 2 ELSE 0
  OBVIOUS
<1>3. PICK ids : ids = (IF q > 0 THEN <<i \div Byte, i % Byte>> ELSE <<>>) /\ HasLen(ids, d)
  <2>1. HasLen(<<i \div Byte, i % Byte>>, 2) /\ HasLen(<<>>, 0)
    BY LenNumber DEF HasLen
  <2> QED BY <1>2, <2>1
<1>4. PICK name : name = StringBytes(topic) /\ HasLen(name, 2 + t)
  BY <1>1, StringLen
<1>5. PICK body : body = ((name \o ids) \o <<0>>) \o message
  OBVIOUS
<1>6. Relay(topic, q, i, message).body = body
  <2>1. PICK id : id = IF q = 0 THEN 0 ELSE i
    OBVIOUS
  <2>2. (IF id # 0 THEN Big2(id) ELSE <<>>) = ids
    <3>1. CASE q > 0
      <4>1. id = i /\ id # 0
        BY <2>1, <3>1
      <4> QED BY <1>3, <3>1, <4>1, Big2Is
    <3>2. CASE ~(q > 0)
      <4>1. id = 0
        BY <2>1, <3>2
      <4> QED BY <1>3, <3>2, <4>1
    <3> QED BY <3>1, <3>2
  <2>3. PICK vh : vh = [kind |-> "Publish", topic |-> topic, packet_id |-> id, chain |-> NoProperties]
    OBVIOUS
  <2>4. SerializeHeader(vh) = (name \o ids) \o <<0>>
    <3>1. vh.kind = "Publish" /\ vh.topic = topic /\ vh.packet_id = id /\ vh.chain = NoProperties
      BY <2>3
    <3>2. SerializeHeader(vh)
          = (SerializeString(vh.topic) \o (IF vh.packet_id # 0 THEN Big2(vh.packet_id) ELSE <<>>))
            \o SerializeChain(vh.chain)
      BY <3>1 DEF SerializeHeader
    <3>3. SerializeString(topic) = name
      BY <1>4, SerializedIs
    <3> QED BY <2>2, <3>1, <3>2, <3>3, NothingSerialized
  <2>5. CreatePublish(vh, q, message).body = SerializeHeader(vh) \o message
    BY DEF CreatePublish
  <2>6. Relay(topic, q, i, message) = CreatePublish(vh, q, message)
    BY <2>1, <2>3 DEF Relay
  <2> QED BY <1>5, <2>4, <2>5, <2>6
<1>7. HasLen(name \o ids, 2 + t + d)
  BY <1>3, <1>4, LenConcat
<1>8. HasLen(<<0>>, 1) /\ HasLen(message, l)
  BY <1>1, LenByte DEF HasLen
<1>9. HasLen((name \o ids) \o <<0>>, 2 + t + d + 1)
  BY <1>7, <1>8, LenConcat
<1>10. PICK n \in Nat : n = 2 + t + d + 1 + l /\ HasLen(body, n)
  <2>1. HasLen(body, 2 + t + d + 1 + l)
    BY <1>5, <1>8, <1>9, LenConcat
  <2> QED BY <2>1
<1>11. PICK mem : mem = [data |-> body, rest |-> 0]
  OBVIOUS
<1>12. Holds(mem, 0, body)
  <2>1. body \in Seq(Nat)
    BY <1>10 DEF HasLen
  <2> QED BY <1>11, <2>1, HeldBySelf
<1>13. PICK head : head = (name \o ids) \o <<0>>
  OBVIOUS
<1>14. PICK h \in Nat : h = 2 + t + d + 1
  OBVIOUS
<1>15. Holds(mem, 0, head) /\ Holds(mem, 0 + h, message)
  <2>1. 0 \in Nat /\ HasLen(head, h) /\ Holds(mem, 0, head \o message)
    BY <1>5, <1>9, <1>12, <1>13, <1>14
  <2> QED BY <1>8, <2>1, HoldsConcat
<1>16. Holds(mem, 0, name \o ids) /\ Holds(mem, 0 + (2 + t + d), <<0>>)
  BY <1>7, <1>8, <1>13, <1>15, HoldsConcat
<1>17. Holds(mem, 0, name) /\ Holds(mem, 0 + (2 + t), ids)
  BY <1>3, <1>4, <1>16, HoldsConcat
<1>18. \A o \in Nat : o < n => At(mem, o) = body[o + 1]
  BY <1>10, <1>11 DEF At, HasLen
<1>19. body[1] * Byte + body[2] = t
  <2>1. ConvertToHost2Bytes(mem, 0) = t
    BY <1>1, <1>4, <1>17, StringHeld
  <2>2. At(mem, 0) = body[0 + 1] /\ At(mem, 0 + 1) = body[(0 + 1) + 1]
    BY <1>10, <1>18
  <2>3. 0 + 1 = 1 /\ 1 + 1 = 2
    OBVIOUS
  <2> QED BY <2>1, <2>2, <2>3 DEF ConvertToHost2Bytes
<1>20. SubSeq(body, 3, 2 + t) = topic
  <2>1. PICK lenb : lenb = <<t \div Byte, t % Byte>>
    OBVIOUS
  <2>2. HasLen(lenb, 2) /\ HasLen(topic, t) /\ name = lenb \o topic
    BY <1>1, <1>4, <2>1, LenNumber DEF StringBytes, HasLen
  <2>3. Holds(mem, 0 + 2, topic)
    BY <1>17, <2>2, HoldsConcat
  <2>4. PICK o \in Nat : o = 2 /\ o + t <= n /\ Holds(mem, o, topic) /\ o + 1 = 3
    BY <1>10, <2>3
  <2>5. SubSeq(body, o + 1, o + t) = topic
    <3>1. HasLen(body, n) /\ HasLen(topic, t) /\ o + t <= n
      BY <1>10, <2>2, <2>4
    <3>2. Holds([data |-> body, rest |-> 0], o, topic)
      BY <1>11, <2>4
    <3> QED BY <3>1, <3>2, SubSeqHeld
  <2> QED BY <2>4, <2>5
<1>21. q > 0 => body[3 + t] * Byte + body[4 + t] = i
  <2>1. SUFFICES ASSUME q > 0 PROVE body[3 + t] * Byte + body[4 + t] = i
    OBVIOUS
  <2>2. PICK o \in Nat : o = 2 + t
    OBVIOUS
  <2>3. Holds(mem, o, <<i \div Byte, i % Byte>>)
    BY <1>3, <1>17, <2>1, <2>2
  <2>4. ConvertToHost2Bytes(mem, o) = i
    BY <2>3, HeldNumber
  <2>5. o < n /\ o + 1 < n /\ o + 1 \in Nat /\ o + 1 = 3 + t /\ (o + 1) + 1 = 4 + t
    BY <1>2, <1>10, <2>1, <2>2
  <2>6. At(mem, o) = body[3 + t] /\ At(mem, o + 1) = body[4 + t]
    BY <1>18, <2>5
  <2> QED BY <2>4, <2>6 DEF ConvertToHost2Bytes
<1>22. PICK at \in Nat : at = 2 + t + d
  OBVIOUS
<1>23. body[at + 1] = 0
  <2>1. Holds(mem, at, <<0>>) /\ at < n
    BY <1>10, <1>16, <1>22
  <2>2. At(mem, at) = 0
    BY <2>1, HeldByte
  <2> QED BY <1>18, <2>1, <2>2
<1>24. SubSeq(body, at + 2, Len(body)) = message
  <2>1. PICK o \in Nat : o = at + 1
    OBVIOUS
  <2>2. Holds(mem, o, message) /\ o + 1 = at + 2 /\ o + l = n /\ o + l <= n
    BY <1>10, <1>14, <1>15, <1>22, <2>1
  <2>3. SubSeq(body, o + 1, o + l) = message
    <3>1. HasLen(body, n) /\ HasLen(message, l) /\ o + l <= n
      BY <1>8, <1>10, <2>2
    <3>2. Holds([data |-> body, rest |-> 0], o, message)
      BY <1>11, <2>2
    <3> QED BY <3>1, <3>2, SubSeqHeld
  <2> QED BY <1>10, <2>2, <2>3 DEF HasLen
<1>25. PICK out : out = Relay(topic, q, i, message) /\ out.body = body
  BY <1>6
<1>26. at = 2 + t + (IF q > 0 THEN 2 ELSE 0)
  BY <1>2, <1>22
<1>27. ReadPublish(q, out)
       = [topic |-> SubSeq(body, 3, 2 + t),
          id |-> IF q > 0 THEN body[3 + t] * Byte + body[4 + t] ELSE 0,
          props |-> body[at + 1], message |-> SubSeq(body, at + 2, Len(body))]
  BY <1>19, <1>25, <1>26, Zenon DEF ReadPublish
<1> QED BY <1>20, <1>21, <1>23, <1>24, <1>25, <1>27

\* Any PUBLISH whose properties a uint8_t counts, with a topic and a payload of
\* any length: HandleMqttPublish understands it, and subscribers of every QoS
\* read from the packet made by CreateMqttPacket its topic and its payload, of
\* the payload as much as a uint16_t counts.  Nothing is lost of a packet within
\* the maximum packet size of CONNACK.
THEOREM MessageRelayed ==
    ASSUME NEW p, IsPublish(p), Counted(p.props), NEW b
    PROVE  LET heard == HandleMqttPublish(p.qos, [data |-> PublishBytes(p), rest |-> b])
           IN  /\ heard.st = "ok"
               /\ \A q \in 0..2 : \A i \in 1..(Word - 1) :
                      ReadPublish(q, Relay(heard.topic, q, i, heard.message))
                      = [topic |-> p.topic, id |-> IF q > 0 THEN i ELSE 0, props |-> 0,
                         message |-> SubSeq(p.message, 1, Len(p.message) % Word)]
               /\ Len(PublishBytes(p)) <= Word - 1 => heard.message = p.message
<1>1. PICK heard : /\ heard = HandleMqttPublish(p.qos, [data |-> PublishBytes(p), rest |-> b])
                   /\ heard = PublishAs(p, b)
  BY PublishHeard
<1>2. PICK topic \in Seq(Nat) : topic = p.topic /\ Len(topic) < Word
  BY DEF IsPublish
<1>3. PICK message \in Seq(Nat), l \in Nat : message = p.message /\ l = Len(message)
  BY DEF IsPublish
<1>4. PICK k \in Nat : k = l % Word /\ k <= l
  BY ByteFacts, RemainderAtMost
<1>5. PICK cut : cut = SubSeq(message, 1, k)
  OBVIOUS
<1>6. cut \in Seq(Nat)
  <2>1. k <= Len(message)
    BY <1>3, <1>4
  <2>2. cut = [i \in 1..k |-> message[i]]
    BY <1>5, <2>1, Prefix
  <2>3. \A i \in 1..k : message[i] \in Nat
    BY <2>1
  <2>4. cut \in [1..k -> Nat]
    BY <2>2, <2>3
  <2> QED BY <2>4, SeqOfFunction
<1>7. heard.st = "ok" /\ heard.topic = topic /\ heard.message = cut
  <2>1. /\ heard.st = "ok" /\ heard.topic = p.topic
        /\ heard.message = SubSeq(p.message, 1, Len(p.message) % Word)
    BY <1>1 DEF PublishAs
  <2> QED BY <1>2, <1>3, <1>4, <1>5, <2>1
<1>8. ASSUME NEW q \in 0..2, NEW i \in 1..(Word - 1)
      PROVE  ReadPublish(q, Relay(topic, q, i, cut))
             = [topic |-> topic, id |-> IF q > 0 THEN i ELSE 0, props |-> 0, message |-> cut]
  <2>1. i \in Nat /\ i < Word /\ i > 0
    BY ByteFacts
  <2> QED BY <1>2, <1>6, <2>1, RelayRead
<1>9. Len(PublishBytes(p)) <= Word - 1 => cut = message
  <2>1. SUFFICES ASSUME Len(PublishBytes(p)) <= Word - 1 PROVE cut = message
    OBVIOUS
  <2>2. PICK n \in Nat : n = Len(PublishBytes(p)) /\ n >= l
    BY <1>3, PublishHeard
  <2>3. l < Word
    BY <2>1, <2>2, ByteFacts
  <2>4. k = l
    BY <1>4, <2>3, ByteFacts, DivSmall
  <2> QED BY <1>3, <1>5, <2>4, SubSeqFull
<1> QED BY <1>1, <1>2, <1>3, <1>4, <1>5, <1>7, <1>8, <1>9

\* What the run checks of PUBLISH holds of every packet under way: a message goes
\* from HandleMqttPublish through CreateMqttPacket to the subscriber unharmed, as
\* far as the uint16_t length of its payload goes.
THEOREM EveryMessageRelayed == Spec => []PublishRelayed
<1>1. PacketInv => PublishRelayed
  <2>1. SUFFICES ASSUME PacketInv, packet.kind = "PUBLISH", Counted(packet.props) PROVE PublishRelayed
    BY DEF PublishRelayed
  <2>2. IsPublish(packet)
    BY <2>1 DEF PacketInv
  <2>3. PICK heard : heard = HandleMqttPublish(packet.qos, [data |-> PublishBytes(packet), rest |-> rest])
    OBVIOUS
  <2>4. /\ heard.st = "ok"
        /\ \A q \in 0..2 : \A i \in 1..(Word - 1) :
               ReadPublish(q, Relay(heard.topic, q, i, heard.message))
               = [topic |-> packet.topic, id |-> IF q > 0 THEN i ELSE 0, props |-> 0,
                  message |-> SubSeq(packet.message, 1, Len(packet.message) % Word)]
        /\ Len(PublishBytes(packet)) <= Word - 1 => heard.message = packet.message
    BY <2>1, <2>2, <2>3, MessageRelayed, Zenon
  <2>5. \A i \in {1, Byte, Word - 1} : i \in 1..(Word - 1)
    <3>1. PICK y \in Nat : y = Byte /\ y >= 10 /\ Word = y * y
      BY ByteFacts
    <3>2. y * y >= y + 1
      <4>1. PICK k \in Nat : y = 2 + k
        BY <3>1
      <4>2. PICK z \in Nat : z = y * k
        OBVIOUS
      <4>3. y * (2 + k) = y * 2 + y * k
        OBVIOUS
      <4>4. y * y = y * 2 + z
        BY <4>1, <4>2, <4>3
      <4> QED BY <3>1, <4>2, <4>4
    <3>3. PICK w \in Nat : w = Word /\ w >= y + 1
      BY <3>1, <3>2
    <3> QED BY <3>1, <3>3
  <2> QED BY <2>3, <2>4, <2>5 DEF PublishRelayed, Mem
<1> QED BY <1>1, PacketsAre, PTL

\* The value of each identifier comes from a property with it.
LEMMA FirstIs ==
    ASSUME NEW ps, IsProps(ps), NEW id \in DOMAIN FirstOfEach(ps)
    PROVE  \E i \in 1..Len(ps) : ps[i].id = id /\ FirstOfEach(ps)[id] = ps[i].value
<1> DEFINE S == {i \in 1..Len(ps) : ps[i].id = id}
<1>1. S # {}
  BY DEF FirstOfEach
<1>2. S \in SUBSET Nat
  OBVIOUS
<1>3. PICK m \in S : \A k \in S : m <= k
  <2> HIDE DEF S
  <2> QED BY <1>1, <1>2, LeastElement
<1>4. Min(S) = m
  <2> HIDE DEF S
  <2> QED BY <1>2, <1>3, MinIs
<1>5. FirstOfEach(ps)[id] = ps[m].value
  BY <1>4 DEF FirstOfEach
<1> QED BY <1>3, <1>5

\* The copy of the chain that HandleMqttPublish makes, of any PUBLISH whose
\* properties a uint8_t counts: it has the identifiers that were sent and their
\* values, but binary data are two bytes longer than they were.
THEOREM ChainCopied ==
    ASSUME NEW p, IsPublish(p), Counted(p.props), NEW b
    PROVE  LET chain == HandleMqttPublish(p.qos, [data |-> PublishBytes(p), rest |-> b]).chain
               sent  == FirstOfEach(p.props)
           IN  /\ DOMAIN chain = DOMAIN sent
               /\ \A id \in DOMAIN sent :
                      IF DataType[id] = "binary_data"
                      THEN Len(chain[id]) = Len(sent[id]) + 2 /\ IsPrefix(sent[id], chain[id])
                      ELSE chain[id] = sent[id]
<1>1. PICK sent : sent = FirstOfEach(p.props)
  OBVIOUS
<1>2. PICK chain : chain = HandleMqttPublish(p.qos, [data |-> PublishBytes(p), rest |-> b]).chain
  OBVIOUS
<1>3. chain = Copy(sent, b)
  <2>1. PICK heard : heard = HandleMqttPublish(p.qos, [data |-> PublishBytes(p), rest |-> b])
    OBVIOUS
  <2>2. heard = PublishAs(p, b)
    BY <2>1, PublishHeard
  <2>3. PublishAs(p, b).chain = Copy(FirstOfEach(p.props), b)
    BY DEF PublishAs
  <2> QED BY <1>1, <1>2, <2>1, <2>2, <2>3
<1>4. DOMAIN chain = DOMAIN sent
  BY <1>3 DEF Copy
<1>5. ASSUME NEW id \in DOMAIN sent, DataType[id] = "binary_data"
      PROVE  Len(chain[id]) = Len(sent[id]) + 2 /\ IsPrefix(sent[id], chain[id])
  <2>1. chain[id] = sent[id] \o <<b, b>>
    BY <1>3, <1>5 DEF Copy, CopyProperty
  <2>2. IsProps(p.props)
    BY DEF IsPublish, ShortProps
  <2>3. PICK i \in 1..Len(p.props) : p.props[i].id = id /\ sent[id] = p.props[i].value
    BY <1>1, <2>2, FirstIs
  <2>4. IsProperty(p.props[i])
    BY <2>2, <2>3 DEF IsProps
  <2>5. sent[id] \in Seq(Nat)
    BY <1>5, <2>3, <2>4 DEF IsProperty, Typed, HasType
  <2>6. PICK S : S = Nat \union {b}
    OBVIOUS
  <2>7. PICK v \in Seq(S) : v = sent[id]
    BY <2>5, <2>6
  <2>8. <<b, b>> \in Seq(S) /\ Len(<<b, b>>) = 2
    BY <2>6
  <2>9. PICK t \in Seq(S) : t = v \o <<b, b>> /\ Len(t) = Len(v) + 2 /\ \A j \in 1..Len(v) : t[j] = v[j]
    <3>1. PICK u \in Seq(S) : u = <<b, b>> /\ Len(u) = 2
      BY <2>8
    <3>2. v \o u \in Seq(S) /\ Len(v \o u) = Len(v) + Len(u) /\ \A j \in 1..Len(v) : (v \o u)[j] = v[j]
      BY ConcatKeeps
    <3> QED BY <3>1, <3>2
  <2>10. IsPrefix(v, t)
    BY <2>9 DEF IsPrefix
  <2> QED BY <2>1, <2>7, <2>9, <2>10
<1>6. ASSUME NEW id \in DOMAIN sent, DataType[id] # "binary_data" PROVE chain[id] = sent[id]
  BY <1>3, <1>6 DEF Copy, CopyProperty
<1> QED BY <1>1, <1>2, <1>4, <1>5, <1>6

\* What the run checks of the copied chain holds of every PUBLISH under way:
\* binary data grow by two bytes in the copy constructor, all else is kept.
THEOREM EveryCopyExact == Spec => []CopyExact
<1>1. PacketInv => CopyExact
  <2>1. SUFFICES ASSUME PacketInv, packet.kind = "PUBLISH", Counted(packet.props) PROVE CopyExact
    BY DEF CopyExact
  <2>2. IsPublish(packet)
    BY <2>1 DEF PacketInv
  <2> QED BY <2>1, <2>2, ChainCopied DEF CopyExact, Mem
<1> QED BY <1>1, PacketsAre, PTL

-----------------------------------------------------------------------------
(* The topics of SUBSCRIBE and UNSUBSCRIBE. *)

\* The parts of a sequence lie in memory where their lengths put them.
PartsLie(ss, n, len, pos) ==
    /\ len \in [1..n -> Nat] /\ Sums(pos, len, n)
    /\ \A i \in 1..n : HasLen(ss[i], len[i])
    /\ HasLen(FlattenSeq(ss), pos[n])
    /\ \A mem : \A o \in Nat :
           Holds(mem, o, FlattenSeq(ss)) => \A i \in 1..n : Holds(mem, o + pos[i - 1], ss[i])

\* Sequences of bytes, one behind the other, lie where their lengths put them.
LEMMA PartsAreLaid ==
    ASSUME NEW n \in Nat, NEW ss, ss = [i \in 1..n |-> ss[i]], \A i \in 1..n : ss[i] \in Seq(Nat)
    PROVE  \E len, pos : PartsLie(ss, n, len, pos)
<1> DEFINE len == [i \in 1..n |-> Len(ss[i])]
<1>1. \A i \in 1..n : HasLen(ss[i], len[i]) /\ len[i] \in Nat
  BY DEF HasLen
<1>2. len \in [1..n -> Nat]
  BY <1>1
<1> HIDE DEF len
<1>3. PICK pos : Sums(pos, len, n)
  <2>1. PICK u : SumsUpTo(u, len, n)
    BY SumsExist
  <2>2. Sums(u, len, n)
    BY <1>2, <2>1, SumsAre
  <2> QED BY <2>2
<1>4. \A i \in 1..n : pos[i] = pos[i - 1] + len[i] /\ pos[i - 1] \in Nat /\ pos[i] \in Nat /\ len[i] \in Nat
  BY <1>2, <1>3 DEF Sums
<1>5. PICK T : T = Seq(Nat)
  OBVIOUS
<1>6. ss \in [1..n -> T]
  BY <1>5
<1>7. ss \in Seq(T) /\ Len(ss) = n
  BY <1>6, SeqOfFunction
<1>8. Places(pos, ss)
  BY <1>1, <1>3, <1>7 DEF Places, Sums, HasLen
<1>9. PICK f : f = FlattenSeq(ss)
  OBVIOUS
<1>10. f \in Seq(Nat) /\ Len(f) = pos[n] /\ \A i \in 1..n : PartAt(f, pos, ss, i)
  <2>1. ss \in Seq(Seq(Nat))
    BY <1>5, <1>7
  <2> QED BY <1>7, <1>8, <1>9, <2>1, Flattened
<1>11. HasLen(f, pos[n])
  <2>1. pos[n] \in Nat
    BY <1>3 DEF Sums
  <2> QED BY <1>10, <2>1 DEF HasLen
<1>12. ASSUME NEW mem, NEW o \in Nat, Holds(mem, o, f), NEW i \in 1..n
       PROVE  Holds(mem, o + pos[i - 1], ss[i])
  <2>1. PICK p \in Nat : p = pos[i - 1]
    BY <1>4
  <2>2. \A j \in 1..len[i] : f[p + j] = ss[i][j]
    BY <1>1, <1>10, <2>1 DEF PartAt, HasLen
  <2>3. p + len[i] <= pos[n]
    <3>1. \A j \in 1..n : pos[j - 1] <= pos[j]
      <4> TAKE j \in 1..n
      <4>1. PICK x \in Nat, y \in Nat : x = pos[j - 1] /\ y = len[j] /\ pos[j] = x + y
        BY <1>4
      <4>2. x <= x + y
        OBVIOUS
      <4> QED BY <4>1, <4>2
    <3>2. pos \in [0..n -> Nat]
      BY <1>3 DEF Sums
    <3>3. \A k \in 0..n : \A j \in 0..k : pos[j] <= pos[k]
      BY <3>1, <3>2, Grows
    <3>4. n \in 0..n /\ i \in 0..n
      OBVIOUS
    <3>5. pos[i] <= pos[n]
      BY <3>3, <3>4
    <3> QED BY <1>4, <2>1, <3>5
  <2>4. Holds(mem, o + p, ss[i])
    BY <1>1, <1>11, <1>12, <2>2, <2>3, PartHeld
  <2> QED BY <2>1, <2>4
<1> QED BY <1>1, <1>2, <1>3, <1>9, <1>11, <1>12 DEF PartsLie

\* A topic, its bytes, and what is heard of it; SUBSCRIBE has options.
TopicBytes(x, options) == StringBytes(x.name) \o IF options = 1 THEN <<x.options>> ELSE <<>>
\* What is heard: SUBSCRIBE keeps the options, UNSUBSCRIBE has none.
TopicHeard(x, options) == [name |-> x.name, options |-> IF options = 1 THEN x.options ELSE 0]

\* The loop of Topics.
TopicTurn(mem, options, s) ==
    LET len == ConvertToHost2Bytes(mem, s.offset)
    IN  IF s.offset >= Len(mem.data) THEN s
        ELSE [offset |-> s.offset + 2 + len + options,
              topics |-> Append(s.topics,
                  [name    |-> Read(mem, s.offset + 2, len),
                   options |-> IF options = 1 THEN At(mem, s.offset + 2 + len) ELSE 0])]
\* Its turns, from none to n.
TopicUpTo(g, mem, at, options, n) ==
    g = [k \in 0..n |-> IF k = 0 THEN [offset |-> at, topics |-> <<>>]
                        ELSE TopicTurn(mem, options, g[k - 1])]

\* Topics is the last turn.
LEMMA TopicsAre ==
    ASSUME NEW mem, NEW chain, NEW options
    PROVE  Topics(mem, chain, options)
           = [packet_id |-> ConvertToHost2Bytes(mem, 0), st |-> chain.st,
              topics |-> (CHOOSE g : TopicUpTo(g, mem, 2 + chain.size, options, Len(mem.data)))
                             [Len(mem.data)].topics]
BY DEF Topics, TopicUpTo, TopicTurn

\* The equation of the turns has a solution for every number of them.
LEMMA TopicExists ==
    ASSUME NEW mem, NEW at, NEW options, NEW n \in Nat
    PROVE  \E g : TopicUpTo(g, mem, at, options, n)
<1> DEFINE P == {k \in Nat : \E g : TopicUpTo(g, mem, at, options, k)}
<1>1. 0 \in P
  <2> DEFINE g0 == [k \in 0..0 |-> [offset |-> at, topics |-> <<>>]]
  <2>1. TopicUpTo(g0, mem, at, options, 0)
    <3>1. \A k \in 0..0 : k = 0
      OBVIOUS
    <3> QED BY <3>1 DEF TopicUpTo
  <2> QED BY <2>1
<1>2. ASSUME NEW j \in P PROVE j + 1 \in P
  <2>1. PICK g : TopicUpTo(g, mem, at, options, j)
    OBVIOUS
  <2> DEFINE h == [k \in 0..(j + 1) |-> IF k = j + 1 THEN TopicTurn(mem, options, g[j]) ELSE g[k]]
  <2>2. ASSUME NEW k \in 0..(j + 1)
        PROVE  h[k] = IF k = 0 THEN [offset |-> at, topics |-> <<>>]
                      ELSE TopicTurn(mem, options, h[k - 1])
    <3>1. CASE k = j + 1
      <4>1. k # 0 /\ k - 1 \in 0..(j + 1) /\ k - 1 # j + 1 /\ k - 1 = j
        BY <3>1
      <4>2. h[k - 1] = g[j]
        BY <4>1
      <4> QED BY <3>1, <4>1, <4>2
    <3>2. CASE k # j + 1
      <4>1. k \in 0..j /\ h[k] = g[k]
        BY <3>2
      <4>2. g[k] = IF k = 0 THEN [offset |-> at, topics |-> <<>>]
                   ELSE TopicTurn(mem, options, g[k - 1])
        BY <2>1, <4>1 DEF TopicUpTo
      <4>3. k # 0 => h[k - 1] = g[k - 1]
        BY <4>1
      <4> QED BY <4>1, <4>2, <4>3
    <3> QED BY <3>1, <3>2
  <2>3. h = [k \in 0..(j + 1) |-> h[k]]
    OBVIOUS
  <2> HIDE DEF h
  <2>4. TopicUpTo(h, mem, at, options, j + 1)
    BY <2>2, <2>3 DEF TopicUpTo
  <2> QED BY <2>4
<1>3. P = Nat
  <2> HIDE DEF P
  <2>1. P \in SUBSET Nat
    BY DEF P
  <2> QED BY <1>1, <1>2, <2>1, SetInduction
<1> QED BY <1>3

\* The bytes of a topic.
LEMMA TopicLen ==
    ASSUME NEW x, IsTopic(x), NEW options \in 0..1
    PROVE  \E l \in Nat : l = Len(x.name) /\ HasLen(TopicBytes(x, options), 2 + l + options)
<1>1. PICK name \in Seq(Nat), l \in Nat : name = x.name /\ l = Len(name) /\ x.options \in Nat
  BY DEF IsTopic
<1>2. HasLen(StringBytes(name), 2 + l)
  BY <1>1, StringLen
<1>3. PICK tail : tail = (IF options = 1 THEN <<x.options>> ELSE <<>>) /\ HasLen(tail, options)
  <2>1. HasLen(<<x.options>>, 1) /\ HasLen(<<>>, 0)
    BY <1>1 DEF HasLen
  <2> QED BY <2>1
<1>4. HasLen(StringBytes(name) \o tail, 2 + l + options)
  BY <1>2, <1>3, LenConcat
<1> QED BY <1>1, <1>3, <1>4 DEF TopicBytes

\* A topic is next, and the loop takes it.
TopicNext(mem, o, x, options, n) ==
    /\ IsTopic(x) /\ HasLen(TopicBytes(x, options), n)
    /\ Holds(mem, o, TopicBytes(x, options)) /\ ~(o >= Len(mem.data))
\* The loop takes a topic and goes on behind it.
TopicTaken(mem, o, x, options, n, ts) ==
    TopicTurn(mem, options, [offset |-> o, topics |-> ts])
    = [offset |-> o + n, topics |-> Append(ts, TopicHeard(x, options))]

\* One turn of the loop takes the topic that is next.
LEMMA TopicTurned ==
    ASSUME NEW x, NEW options \in 0..1, NEW n, NEW mem, NEW o \in Nat, TopicNext(mem, o, x, options, n),
           NEW ts
    PROVE  TopicTaken(mem, o, x, options, n, ts)
<1>0. /\ IsTopic(x) /\ HasLen(TopicBytes(x, options), n)
      /\ Holds(mem, o, TopicBytes(x, options)) /\ ~(o >= Len(mem.data))
  BY DEF TopicNext
<1>1. PICK name \in Seq(Nat), l \in Nat : name = x.name /\ l = Len(name) /\ x.options \in Nat
  <2>1. x.name \in Seq(Nat) /\ Len(x.name) \in Nat /\ x.options \in Nat
    BY <1>0 DEF IsTopic
  <2> QED BY <2>1
<1>2. HasLen(StringBytes(name), 2 + l)
  BY <1>1, StringLen
<1>3. PICK tail : tail = (IF options = 1 THEN <<x.options>> ELSE <<>>) /\ HasLen(tail, options)
  <2>1. HasLen(<<x.options>>, 1) /\ HasLen(<<>>, 0)
    BY <1>1 DEF HasLen
  <2> QED BY <2>1
<1>4. n = 2 + l + options
  <2>1. HasLen(TopicBytes(x, options), 2 + l + options)
    BY <1>0, <1>1, TopicLen
  <2> QED BY <1>0, <2>1 DEF HasLen
<1>5. Holds(mem, o, StringBytes(name)) /\ Holds(mem, o + (2 + l), tail)
  <2>1. Holds(mem, o, StringBytes(name) \o tail)
    BY <1>0, <1>1, <1>3 DEF TopicBytes
  <2> QED BY <1>2, <1>3, <2>1, HoldsConcat
<1>6. ConvertToHost2Bytes(mem, o) = l /\ Read(mem, o + 2, l) = name
  BY <1>1, <1>5, StringHeld
<1>7. (IF options = 1 THEN At(mem, o + 2 + l) ELSE 0) = IF options = 1 THEN x.options ELSE 0
  <2>1. CASE options = 1
    <3>1. PICK p \in Nat : p = o + (2 + l) /\ p = o + 2 + l
      OBVIOUS
    <3>2. Holds(mem, p, <<x.options>>)
      BY <1>3, <1>5, <2>1, <3>1
    <3> QED BY <3>1, <3>2, HeldByte
  <2>2. CASE options # 1
    BY <2>2
  <2> QED BY <2>1, <2>2
<1>8. o + 2 + l + options = o + n
  BY <1>4
<1>9. PICK s : s = [offset |-> o, topics |-> ts]
  OBVIOUS
<1>10. s.offset = o /\ s.topics = ts
  BY <1>9
<1>11. TopicTurn(mem, options, s)
       = [offset |-> o + 2 + l + options,
          topics |-> Append(ts, [name |-> name, options |-> IF options = 1 THEN At(mem, o + 2 + l) ELSE 0])]
  BY <1>0, <1>6, <1>10 DEF TopicTurn
<1> QED BY <1>1, <1>7, <1>8, <1>9, <1>11 DEF TopicHeard, TopicTaken

\* One topic more.
LEMMA AppendNext ==
    ASSUME NEW h, NEW k \in Nat
    PROVE  Append([i \in 1..k |-> h[i]], h[k + 1]) = [i \in 1..(k + 1) |-> h[i]]
<1>1. PICK S : S = {h[i] : i \in 1..(k + 1)}
  OBVIOUS
<1>2. \A i \in 1..(k + 1) : h[i] \in S
  BY <1>1
<1>3. PICK s : s = [i \in 1..k |-> h[i]]
  OBVIOUS
<1>4. s \in [1..k -> S]
  BY <1>2, <1>3
<1>5. s \in Seq(S) /\ Len(s) = k
  BY <1>4, SeqOfFunction
<1>6. PICK x \in S : x = h[k + 1]
  BY <1>2
<1>7. PICK t : t = [i \in 1..(k + 1) |-> h[i]]
  OBVIOUS
<1>8. t \in [1..(k + 1) -> S]
  BY <1>2, <1>7
<1>9. t \in Seq(S) /\ Len(t) = k + 1
  <2>1. k + 1 \in Nat
    OBVIOUS
  <2> QED BY <1>8, <2>1, SeqOfFunction
<1>10. PICK u \in Seq(S) : u = Append(s, x) /\ Len(u) = k + 1 /\ u[k + 1] = x /\ \A i \in 1..k : u[i] = s[i]
  <2>1. PICK u : u = Append(s, x)
    OBVIOUS
  <2>2. /\ u \in Seq(S) /\ Len(u) = Len(s) + 1
        /\ \A i \in 1..Len(s) : u[i] = s[i]
        /\ u[Len(s) + 1] = x
    BY <1>5, <2>1, AppendProperties
  <2> QED BY <1>5, <2>1, <2>2
<1>11. \A i \in 1..(k + 1) : u[i] = t[i]
  <2> TAKE i \in 1..(k + 1)
  <2>1. CASE i = k + 1
    BY <1>6, <1>7, <1>10, <2>1
  <2>2. CASE i # k + 1
    <3>1. i \in 1..k
      BY <2>2
    <3> QED BY <1>3, <1>7, <1>10, <3>1
  <2> QED BY <2>1, <2>2
<1>12. u = t
  BY <1>9, <1>10, <1>11, SeqEqual
<1> QED BY <1>3, <1>6, <1>7, <1>10, <1>12

\* All topics lie from offset at to the end of the packet.
TopicsLie(mem, at, ts, options, n, len, pos) ==
    /\ n = Len(ts) /\ len \in [1..n -> Nat] /\ Sums(pos, len, n)
    /\ \A i \in 1..n :
           /\ IsTopic(ts[i]) /\ HasLen(TopicBytes(ts[i], options), len[i]) /\ len[i] >= 1
           /\ Holds(mem, at + pos[i - 1], TopicBytes(ts[i], options))
    /\ Len(mem.data) = at + pos[n]

\* The loop takes all topics and stops at the end of the packet, by induction on
\* the topics.
LEMMA TopicsWalked ==
    ASSUME NEW n \in Nat, NEW at \in Nat, NEW options \in 0..1, NEW mem, NEW ts, NEW len, NEW pos,
           TopicsLie(mem, at, ts, options, n, len, pos), NEW chain, 2 + chain.size = at
    PROVE  Topics(mem, chain, options)
           = [packet_id |-> ConvertToHost2Bytes(mem, 0), st |-> chain.st,
              topics |-> [i \in 1..n |-> TopicHeard(ts[i], options)]]
<1>1. /\ len \in [1..n -> Nat] /\ Sums(pos, len, n)
      /\ \A i \in 1..n :
           /\ IsTopic(ts[i]) /\ HasLen(TopicBytes(ts[i], options), len[i]) /\ len[i] >= 1
           /\ Holds(mem, at + pos[i - 1], TopicBytes(ts[i], options))
      /\ Len(mem.data) = at + pos[n]
  BY DEF TopicsLie
<1>2. pos \in [0..n -> Nat] /\ pos[0] = 0
  BY <1>1 DEF Sums
<1>3. \A i \in 1..n : /\ pos[i] = pos[i - 1] + len[i] /\ pos[i - 1] \in Nat /\ pos[i] \in Nat
                      /\ len[i] \in Nat /\ len[i] >= 1
  BY <1>1 DEF Sums
<1>4. \A k \in 0..n : \A j \in 0..k : pos[j] <= pos[k]
  <2>1. \A j \in 1..n : pos[j - 1] <= pos[j]
    <3> TAKE j \in 1..n
    <3>1. PICK x \in Nat, y \in Nat : x = pos[j - 1] /\ y = len[j] /\ pos[j] = x + y
      BY <1>3
    <3> QED BY <3>1
  <2> QED BY <1>2, <2>1, Grows
<1>5. PICK total \in Nat : total = Len(mem.data) /\ total = at + pos[n]
  BY <1>1, <1>2
<1>6. PICK g : g = CHOOSE h : TopicUpTo(h, mem, at, options, total)
  OBVIOUS
<1>7. TopicUpTo(g, mem, at, options, total)
  BY <1>6, TopicExists
<1>8. /\ 0 \in 0..total /\ g[0] = [offset |-> at, topics |-> <<>>]
      /\ \A k \in 1..total : g[k] = TopicTurn(mem, options, g[k - 1])
  BY <1>7 DEF TopicUpTo
<1> DEFINE heard == [i \in 1..n |-> TopicHeard(ts[i], options)]
           State(k) == [offset |-> at + pos[k], topics |-> [i \in 1..k |-> heard[i]]]
           P == {k \in Nat : k \in 0..n => pos[k] >= k /\ g[k] = State(k)}
           Q == {k \in Nat : n + k \in 0..total => g[n + k] = State(n)}
<1>9. \A i \in 1..n : heard[i] = TopicHeard(ts[i], options)
  OBVIOUS
<1>10. [i \in 1..n |-> heard[i]] = heard
  OBVIOUS
<1> HIDE DEF heard
<1>11. 0 \in P
  <2>1. at + pos[0] = at /\ [i \in 1..0 |-> heard[i]] = <<>>
    BY <1>2
  <2> QED BY <1>2, <1>8, <2>1
<1>12. ASSUME NEW k \in P PROVE k + 1 \in P
  <2>1. SUFFICES ASSUME k + 1 \in 0..n PROVE pos[k + 1] >= k + 1 /\ g[k + 1] = State(k + 1)
    OBVIOUS
  <2>2. k \in Nat /\ k \in 0..n /\ k + 1 \in 1..n /\ (k + 1) - 1 = k
    BY <2>1
  <2>3. pos[k] >= k /\ g[k] = State(k)
    BY <2>2
  <2>4. PICK p \in Nat, size \in Nat : p = pos[k] /\ size = len[k + 1] /\ pos[k + 1] = p + size /\ size >= 1
    BY <1>3, <2>2
  <2>5. p + size <= pos[n] /\ pos[n] \in Nat
    <3>1. n \in 0..n /\ k + 1 \in 0..n
      BY <2>2
    <3>2. pos[k + 1] <= pos[n]
      BY <1>4, <3>1
    <3> QED BY <1>2, <2>4, <3>1, <3>2
  <2>6. PICK x, s : x = ts[k + 1] /\ s = [i \in 1..k |-> heard[i]]
    OBVIOUS
  <2>7. PICK o \in Nat : o = at + p
    OBVIOUS
  <2>8. IsTopic(x) /\ HasLen(TopicBytes(x, options), size) /\ Holds(mem, o, TopicBytes(x, options))
    BY <1>1, <2>2, <2>4, <2>6, <2>7
  <2>9. ~(o >= Len(mem.data))
    <3>1. PICK e \in Nat : e = pos[n] /\ p + size <= e /\ total = at + e
      BY <1>5, <2>5
    <3> HIDE DEF P, Q, State
    <3>2. p < e
      BY <2>4, <3>1
    <3>3. ~(o >= total)
      BY <2>7, <3>1, <3>2
    <3> QED BY <1>5, <3>3
  <2>10. TopicTurn(mem, options, [offset |-> o, topics |-> s])
         = [offset |-> o + size, topics |-> Append(s, TopicHeard(x, options))]
    <3> HIDE DEF P, Q, State
    <3>1. TopicNext(mem, o, x, options, size)
      BY <2>8, <2>9 DEF TopicNext
    <3>2. TopicTaken(mem, o, x, options, size, s)
      BY <3>1, TopicTurned
    <3> QED BY <3>2 DEF TopicTaken
  <2>11. k + 1 \in 1..total
    BY <1>5, <2>2, <2>3, <2>4, <2>5
  <2>12. g[k + 1] = TopicTurn(mem, options, g[k])
    BY <1>8, <2>2, <2>11
  <2>13. Append(s, heard[k + 1]) = [i \in 1..(k + 1) |-> heard[i]]
    BY <2>2, <2>6, AppendNext
  <2>14. heard[k + 1] = TopicHeard(x, options)
    BY <1>9, <2>2, <2>6
  <2>15. g[k] = [offset |-> o, topics |-> s]
    BY <2>3, <2>4, <2>6, <2>7
  <2>16. pos[k + 1] >= k + 1
    BY <2>2, <2>3, <2>4
  <2>17. o + size = at + pos[k + 1]
    BY <2>4, <2>7
  <2> QED BY <2>10, <2>12, <2>13, <2>14, <2>15, <2>16, <2>17
<1>13. P = Nat
  <2> HIDE DEF P
  <2>1. P \in SUBSET Nat
    BY DEF P
  <2> QED BY <1>11, <1>12, <2>1, SetInduction
<1>14. pos[n] >= n /\ g[n] = State(n)
  <2>1. n \in P /\ n \in 0..n
    <3> HIDE DEF P
    <3> QED BY <1>13
  <2> QED BY <2>1
<1>15. State(n) = [offset |-> total, topics |-> heard]
  BY <1>5, <1>10
<1>16. 0 \in Q
  <2>1. n + 0 = n
    OBVIOUS
  <2> QED BY <1>14, <2>1
<1>17. ASSUME NEW k \in Q PROVE k + 1 \in Q
  <2>1. SUFFICES ASSUME n + (k + 1) \in 0..total PROVE g[n + (k + 1)] = State(n)
    OBVIOUS
  <2>2. k \in Nat /\ n + k \in 0..total /\ n + (k + 1) \in 1..total /\ (n + (k + 1)) - 1 = n + k
    BY <2>1
  <2>3. g[n + k] = State(n)
    BY <2>2
  <2>4. g[n + (k + 1)] = TopicTurn(mem, options, g[n + k])
    BY <1>8, <2>2
  <2>5. TopicTurn(mem, options, State(n)) = State(n)
    BY <1>5, <1>15 DEF TopicTurn
  <2> QED BY <2>3, <2>4, <2>5
<1>18. Q = Nat
  <2> HIDE DEF Q
  <2>1. Q \in SUBSET Nat
    BY DEF Q
  <2> QED BY <1>16, <1>17, <2>1, SetInduction
<1>19. g[total] = State(n)
  <2>1. PICK k \in Nat : n + k = total
    <3>1. PICK x \in Nat : x = pos[n] /\ x >= n
      BY <1>2, <1>14
    <3>2. total - n \in Nat /\ n + (total - n) = total
      BY <1>5, <3>1
    <3> QED BY <3>2
  <2>2. k \in Q
    <3> HIDE DEF Q
    <3> QED BY <1>18
  <2> QED BY <2>1, <2>2
<1>20. g[total].topics = heard
  BY <1>15, <1>19
<1>21. Topics(mem, chain, options)
       = [packet_id |-> ConvertToHost2Bytes(mem, 0), st |-> chain.st, topics |-> g[total].topics]
  BY <1>5, <1>6, TopicsAre
<1> QED BY <1>20, <1>21 DEF heard

\* Any SUBSCRIBE or UNSUBSCRIBE whose properties a uint8_t counts, with any number
\* of topics of any length: the handler hears every topic, in order, and no other.
THEOREM SubscriptionHeard ==
    ASSUME NEW p, IsSubscribe(p), Counted(p.props), NEW b, NEW options \in 0..1,
           options = 1 <=> p.kind = "SUBSCRIBE"
    PROVE  LET mem == [data |-> SubscribeBytes(p), rest |-> b]
           IN  Topics(mem, Create(NoProperties, mem, 2), options)
               = [packet_id |-> p.packet_id, st |-> "ok",
                  topics |-> [i \in 1..Len(p.topics) |-> TopicHeard(p.topics[i], options)]]
<1>1. PICK id \in Nat : id = p.packet_id
  BY DEF IsSubscribe
<1>2a. PICK ts : ts = p.topics
  OBVIOUS
<1>2. PICK n \in Nat : ts = p.topics /\ n = Len(ts) /\ \A i \in 1..n : IsTopic(ts[i])
  <2>1. PICK S : p.topics \in Seq(S) /\ \A t \in S : IsTopic(t)
    BY DEF IsSubscribe
  <2>2. Len(p.topics) \in Nat /\ \A i \in 1..Len(p.topics) : p.topics[i] \in S
    BY <2>1
  <2> QED BY <1>2a, <2>1, <2>2
<1>3. PICK m \in Nat : ChainHeard(p.props, m)
  BY ShortHeard DEF IsSubscribe
<1>4. PICK chain : chain = ChainBytes(p.props) /\ HasLen(chain, m)
  BY <1>3 DEF ChainHeard
<1>5. PICK ss : ss = [i \in 1..n |-> TopicBytes(ts[i], options)]
  OBVIOUS
<1>6. \A i \in 1..n : ss[i] = TopicBytes(ts[i], options) /\ ss[i] \in Seq(Nat) /\ Len(ss[i]) >= 1
  <2> TAKE i \in 1..n
  <2>1. PICK l \in Nat : HasLen(TopicBytes(ts[i], options), 2 + l + options)
    BY <1>2, TopicLen
  <2>2. 2 + l + options >= 1
    OBVIOUS
  <2> QED BY <1>5, <2>1, <2>2 DEF HasLen
<1>7. PICK len, pos : PartsLie(ss, n, len, pos)
  <2>1. ss = [i \in 1..n |-> ss[i]]
    BY <1>5
  <2> QED BY <1>6, <2>1, PartsAreLaid
<1>8. /\ len \in [1..n -> Nat] /\ Sums(pos, len, n)
      /\ \A i \in 1..n : HasLen(ss[i], len[i])
      /\ HasLen(FlattenSeq(ss), pos[n])
  BY <1>7 DEF PartsLie
<1>9a. PICK all : all = FlattenSeq(ss)
  OBVIOUS
<1>9. PICK total \in Nat : all = FlattenSeq(ss) /\ total = pos[n] /\ HasLen(all, total)
  <2>1. pos[n] \in Nat
    BY <1>8 DEF HasLen
  <2> QED BY <1>8, <1>9a, <2>1
<1>10. PICK bytes : bytes = (<<0, id>> \o chain) \o all /\ bytes = SubscribeBytes(p)
  <2>1. ss = [i \in 1..Len(p.topics) |->
                 StringBytes(p.topics[i].name)
                     \o IF p.kind = "SUBSCRIBE" THEN <<p.topics[i].options>> ELSE <<>>]
    <3>1. CASE options = 1
      BY <1>2, <1>5, <3>1 DEF TopicBytes
    <3>2. CASE options # 1
      BY <1>2, <1>5, <3>2 DEF TopicBytes
    <3> QED BY <3>1, <3>2
  <2> QED BY <1>1, <1>4, <1>9, <2>1 DEF SubscribeBytes
<1>11. HasLen(<<0, id>>, 2)
  BY DEF HasLen
<1>12. PICK at \in Nat : at = 2 + m
  OBVIOUS
<1>13. HasLen(<<0, id>> \o chain, at)
  BY <1>4, <1>11, <1>12, LenConcat
<1>14. HasLen(bytes, at + total)
  BY <1>9, <1>10, <1>13, LenConcat
<1>15. PICK mem : mem = [data |-> bytes, rest |-> b]
  OBVIOUS
<1>16. Holds(mem, 0, bytes)
  <2>1. bytes \in Seq(Nat)
    BY <1>14 DEF HasLen
  <2> QED BY <1>15, <2>1, HeldBySelf
<1>17. PICK head : head = <<0, id>> \o chain
  OBVIOUS
<1>18. Holds(mem, 0, head) /\ Holds(mem, at, all)
  <2>1. 0 \in Nat /\ HasLen(head, at) /\ Holds(mem, 0, head \o all)
    BY <1>10, <1>13, <1>16, <1>17
  <2>2. Holds(mem, 0, head) /\ Holds(mem, 0 + at, all)
    BY <1>9, <2>1, HoldsConcat
  <2> QED BY <2>2
<1>19. Holds(mem, 0, <<0, id>>) /\ Holds(mem, 2, chain)
  <2>1. 0 \in Nat /\ Holds(mem, 0, <<0, id>> \o chain)
    BY <1>17, <1>18
  <2>2. Holds(mem, 0, <<0, id>>) /\ Holds(mem, 0 + 2, chain)
    BY <1>4, <1>11, <2>1, HoldsConcat
  <2> QED BY <2>2
<1>20. ConvertToHost2Bytes(mem, 0) = id
  <2>1. At(mem, 0) = 0 /\ At(mem, 0 + 1) = id
    BY <1>19, HeldPair
  <2>2. 0 * Byte + id = id
    BY ByteFacts
  <2> QED BY <2>1, <2>2 DEF ConvertToHost2Bytes
<1>21. PICK c : c = Create(NoProperties, mem, 2) /\ c.st = "ok" /\ c.size = m
  <2>1. PICK c : c = Create(NoProperties, mem, 2)
    OBVIOUS
  <2>2. 2 \in Nat
    OBVIOUS
  <2>3. c = [st |-> "ok", chain |-> After(NoProperties, p.props), size |-> m]
    BY <1>3, <1>4, <1>19, <2>1, <2>2 DEF ChainHeard
  <2> QED BY <2>1, <2>3
<1>22. TopicsLie(mem, at, ts, options, n, len, pos)
  <2>1. ASSUME NEW i \in 1..n
        PROVE  /\ IsTopic(ts[i]) /\ HasLen(TopicBytes(ts[i], options), len[i]) /\ len[i] >= 1
               /\ Holds(mem, at + pos[i - 1], TopicBytes(ts[i], options))
    <3>1. IsTopic(ts[i]) /\ HasLen(TopicBytes(ts[i], options), len[i])
      BY <1>2, <1>6, <1>8
    <3>2. len[i] >= 1
      BY <1>6, <1>8 DEF HasLen
    <3>3. Holds(mem, at + pos[i - 1], ss[i])
      BY <1>7, <1>9, <1>18 DEF PartsLie
    <3> QED BY <1>6, <3>1, <3>2, <3>3
  <2>2. Len(mem.data) = at + pos[n]
    BY <1>9, <1>14, <1>15 DEF HasLen
  <2> QED BY <1>2, <1>8, <2>1, <2>2 DEF TopicsLie
<1>23. Topics(mem, c, options)
       = [packet_id |-> ConvertToHost2Bytes(mem, 0), st |-> c.st,
          topics |-> [i \in 1..n |-> TopicHeard(ts[i], options)]]
  <2>1. 2 + c.size = at
    BY <1>12, <1>21
  <2> QED BY <1>22, <2>1, TopicsWalked
<1> QED BY <1>1, <1>2, <1>10, <1>15, <1>20, <1>21, <1>23

\* What the run checks of SUBSCRIBE and UNSUBSCRIBE holds of every packet under
\* way: HandleMqttSubscribe and HandleMqttUnsubscribe hear each topic and no other.
THEOREM EveryTopicHeard == Spec => []TopicsHeard
<1>1. PacketInv => TopicsHeard
  <2>1. ASSUME PacketInv, packet.kind = "SUBSCRIBE", Counted(packet.props)
        PROVE  HandleMqttSubscribe(Mem(SubscribeBytes(packet)))
               = [packet_id |-> packet.packet_id, st |-> "ok", topics |-> packet.topics]
    <3>1. IsSubscribe(packet)
      BY <2>1 DEF PacketInv
    <3>2. PICK mem : mem = [data |-> SubscribeBytes(packet), rest |-> rest]
      OBVIOUS
    <3>3. Topics(mem, Create(NoProperties, mem, 2), 1)
          = [packet_id |-> packet.packet_id, st |-> "ok",
             topics |-> [i \in 1..Len(packet.topics) |-> TopicHeard(packet.topics[i], 1)]]
      <4>1. 1 \in 0..1 /\ (1 = 1 <=> packet.kind = "SUBSCRIBE")
        BY <2>1
      <4>2. PICK options \in 0..1 : options = 1
        BY <4>1
      <4> QED BY <2>1, <3>1, <3>2, <4>1, <4>2, SubscriptionHeard
    <3>4. [i \in 1..Len(packet.topics) |-> TopicHeard(packet.topics[i], 1)] = packet.topics
      <4>1. PICK S : packet.topics \in Seq(S) /\ \A t \in S : IsTopic(t)
        BY <3>1 DEF IsSubscribe
      <4>2. PICK ts \in Seq(S) : ts = packet.topics
        BY <4>1
      <4>3. \A i \in 1..Len(ts) : ts[i] \in S
        BY <4>2
      <4>4. \A i \in 1..Len(ts) : TopicHeard(ts[i], 1) = ts[i]
        BY <4>1, <4>3 DEF TopicHeard, IsTopic
      <4>5. ts = [i \in 1..Len(ts) |-> ts[i]]
        BY <4>2
      <4> QED BY <4>2, <4>4, <4>5
    <3> QED BY <3>2, <3>3, <3>4 DEF HandleMqttSubscribe, Mem
  <2>2. ASSUME PacketInv, packet.kind = "UNSUBSCRIBE", Counted(packet.props)
        PROVE  HandleMqttUnsubscribe(Mem(SubscribeBytes(packet)))
               = [packet_id |-> packet.packet_id, st |-> "ok",
                  topics |-> [i \in 1..Len(packet.topics) |-> [packet.topics[i] EXCEPT !.options = 0]]]
    <3>1. IsSubscribe(packet)
      BY <2>2 DEF PacketInv
    <3>2. PICK mem : mem = [data |-> SubscribeBytes(packet), rest |-> rest]
      OBVIOUS
    <3>3. Topics(mem, Create(NoProperties, mem, 2), 0)
          = [packet_id |-> packet.packet_id, st |-> "ok",
             topics |-> [i \in 1..Len(packet.topics) |-> TopicHeard(packet.topics[i], 0)]]
      <4>1. 0 \in 0..1 /\ (0 = 1 <=> packet.kind = "SUBSCRIBE")
        BY <2>2
      <4>2. PICK options \in 0..1 : options = 0
        BY <4>1
      <4> QED BY <2>2, <3>1, <3>2, <4>1, <4>2, SubscriptionHeard
    <3>4. \A i \in 1..Len(packet.topics) :
              TopicHeard(packet.topics[i], 0) = [packet.topics[i] EXCEPT !.options = 0]
      <4>1. PICK S : packet.topics \in Seq(S) /\ \A t \in S : IsTopic(t)
        BY <3>1 DEF IsSubscribe
      <4>2. \A i \in 1..Len(packet.topics) : packet.topics[i] \in S
        BY <4>1
      <4>3. ASSUME NEW t \in S PROVE TopicHeard(t, 0) = [t EXCEPT !.options = 0]
        BY <4>1 DEF TopicHeard, IsTopic
      <4> QED BY <4>2, <4>3
    <3> QED BY <3>2, <3>3, <3>4 DEF HandleMqttUnsubscribe, Mem
  <2> QED BY <2>1, <2>2 DEF TopicsHeard
<1> QED BY <1>1, PacketsAre, PTL

-----------------------------------------------------------------------------
(* A CONNECT, field by field. *)

\* A string read as an entity, and the bytes a uint8_t counts of it.
LEMMA EntityRead ==
    ASSUME NEW s \in Seq(Nat), NEW mem, NEW o \in Nat, Holds(mem, o, StringBytes(s))
    PROVE  CreateMqttStringEntity(mem, o)
           = [value |-> s, size |-> IF Len(s) = 0 THEN 0 ELSE (2 + Len(s)) % Byte]
<1>1. ConvertToHost2Bytes(mem, o) = Len(s) /\ Read(mem, o + 2, Len(s)) = s
  BY StringHeld
<1> QED BY <1>1 DEF CreateMqttStringEntity

\* A uint8_t counts a short string.
LEMMA EntityCounted ==
    ASSUME NEW s \in Seq(Nat), CountedString(s)
    PROVE  (2 + Len(s)) % Byte = 2 + Len(s)
<1>1. PICK k \in Nat : k = 2 + Len(s) /\ k < Byte
  <2>1. PICK l \in Nat : l = Len(s)
    OBVIOUS
  <2>2. 2 + l = l + 2
    OBVIOUS
  <2> QED BY <2>1, <2>2 DEF CountedString
<1> QED BY <1>1, ByteFacts, DivSmall

\* A string is read whole.
LEMMA StringRead ==
    ASSUME NEW s \in Seq(Nat), NEW mem, NEW o \in Nat, Holds(mem, o, StringBytes(s))
    PROVE  ReadString(mem, o) = s
<1>1. ConvertToHost2Bytes(mem, o) = Len(s) /\ Read(mem, o + 2, Len(s)) = s
  BY StringHeld
<1> QED BY <1>1 DEF ReadString

\* The will.
WillBytes(ws, topic, data) == (ChainBytes(ws) \o StringBytes(topic)) \o StringBytes(data)
\* What ReadWill makes of it, and where it goes on.
WillHeard(kept, mem, o, ws, topic, data, w) ==
    ReadWill(kept, mem, o)
    = [st |-> "ok", value |-> <<After(kept, ws), topic, data>>, next |-> o + w]

\* A will whose properties a uint8_t counts is read field by field.
LEMMA WillRead ==
    ASSUME NEW ws, ShortProps(ws), Counted(ws), NEW topic \in Seq(Nat), NEW data \in Seq(Nat)
    PROVE  \E w \in Nat :
               /\ HasLen(WillBytes(ws, topic, data), w)
               /\ \A kept, mem : \A o \in Nat :
                      Holds(mem, o, WillBytes(ws, topic, data))
                      => WillHeard(kept, mem, o, ws, topic, data, w)
<1>1. PICK m \in Nat : ChainHeard(ws, m)
  BY ShortHeard
<1>2. PICK chain : chain = ChainBytes(ws) /\ HasLen(chain, m)
  BY <1>1 DEF ChainHeard
<1>3. PICK t \in Nat, d \in Nat : t = Len(topic) /\ d = Len(data)
  OBVIOUS
<1>4. HasLen(StringBytes(topic), 2 + t) /\ HasLen(StringBytes(data), 2 + d)
  BY <1>3, StringLen
<1>5. PICK tb : tb = StringBytes(topic) /\ HasLen(tb, 2 + t)
  BY <1>4
<1>6. PICK db : db = StringBytes(data) /\ HasLen(db, 2 + d)
  BY <1>4
<1>7. PICK head : head = chain \o tb
  OBVIOUS
<1>8. PICK h \in Nat : h = m + (2 + t) /\ HasLen(head, h)
  <2>1. HasLen(head, m + (2 + t))
    BY <1>2, <1>5, <1>7, LenConcat
  <2> QED BY <2>1
<1>9. PICK w \in Nat : w = h + (2 + d) /\ HasLen(head \o db, w)
  <2>1. HasLen(head \o db, h + (2 + d))
    BY <1>6, <1>8, LenConcat
  <2> QED BY <2>1
<1>10. WillBytes(ws, topic, data) = head \o db
  BY <1>2, <1>5, <1>6, <1>7 DEF WillBytes
<1>11. ASSUME NEW kept, NEW mem, NEW o \in Nat, Holds(mem, o, head \o db)
       PROVE  WillHeard(kept, mem, o, ws, topic, data, w)
  <2>1. Holds(mem, o, head) /\ Holds(mem, o + h, db)
    BY <1>6, <1>8, <1>11, HoldsConcat
  <2>2. Holds(mem, o, chain) /\ Holds(mem, o + m, tb)
    BY <1>2, <1>5, <1>7, <2>1, HoldsConcat
  <2>3. Create(kept, mem, o) = [st |-> "ok", chain |-> After(kept, ws), size |-> m]
    BY <1>1, <1>2, <2>2 DEF ChainHeard
  <2>4. PICK c : c = Create(kept, mem, o) /\ c.st = "ok" /\ c.chain = After(kept, ws) /\ c.size = m
    <3>1. PICK c : c = Create(kept, mem, o)
      OBVIOUS
    <3>2. c = [st |-> "ok", chain |-> After(kept, ws), size |-> m]
      BY <2>3, <3>1
    <3> QED BY <3>1, <3>2
  <2>5. o + m \in Nat /\ o + h \in Nat /\ o + m + 2 + t = o + h
    BY <1>8
  <2>6. ReadString(mem, o + m) = topic /\ ReadString(mem, o + m + 2 + t) = data
    BY <1>5, <1>6, <2>1, <2>2, <2>5, StringRead
  <2>7. o + m + 2 + t + 2 + d = o + w
    BY <1>8, <1>9
  <2>8. ReadWill(kept, mem, o)
        = [st |-> "ok", value |-> <<After(kept, ws), topic, data>>, next |-> o + m + 2 + t + 2 + d]
    BY <1>3, <2>4, <2>6, Zenon DEF ReadWill
  <2> QED BY <2>7, <2>8 DEF WillHeard
<1> QED BY <1>9, <1>10, <1>11

\* User name and password.
LoginBytes(f, name, pwd) ==
    (IF f.name THEN StringBytes(name) ELSE <<>>)
        \o (IF f.pwd THEN StringBytes(pwd) ELSE <<>>)
\* What is heard of them: an empty user name or password is refused, and a
\* password without a user name is ignored.
LoginAs(f, name, pwd) ==
    [st   |-> IF f.name /\ name = <<>> THEN "user_name_err"
              ELSE IF f.name /\ f.pwd /\ pwd = <<>> THEN "auth_fail" ELSE "ok",
     name |-> IF f.name THEN name ELSE <<>>,
     pwd  |-> IF f.name /\ f.pwd /\ name # <<>> THEN pwd ELSE <<>>]

\* User name and password are read; a name before a password must be short.
LEMMA LoginRead ==
    ASSUME NEW f, f.name \in BOOLEAN, f.pwd \in BOOLEAN,
           NEW name \in Seq(Nat), NEW pwd \in Seq(Nat), f.name /\ f.pwd => CountedString(name),
           NEW mem, NEW o \in Nat, Holds(mem, o, LoginBytes(f, name, pwd))
    PROVE  ReadLogin(f, mem, o) = LoginAs(f, name, pwd)
<1>1. CASE ~f.name
  BY <1>1 DEF ReadLogin, NoLogin, LoginAs
<1>2. CASE f.name
  <2>1. PICK n \in Nat : n = Len(name) /\ HasLen(StringBytes(name), 2 + n)
    BY StringLen
  <2>2. PICK tail, l : tail = (IF f.pwd THEN StringBytes(pwd) ELSE <<>>) /\ HasLen(tail, l)
    <3>1. HasLen(StringBytes(pwd), 2 + Len(pwd)) /\ HasLen(<<>>, 0)
      BY StringLen DEF HasLen
    <3> QED BY <3>1
  <2>3. Holds(mem, o, StringBytes(name)) /\ Holds(mem, o + (2 + n), tail)
    <3>1. LoginBytes(f, name, pwd) = StringBytes(name) \o tail
      BY <1>2, <2>2 DEF LoginBytes
    <3> QED BY <2>1, <2>2, <3>1, HoldsConcat
  <2>4. PICK e : e = CreateMqttStringEntity(mem, o) /\ e.value = name
                 /\ e.size = IF n = 0 THEN 0 ELSE (2 + n) % Byte
    <3>1. CreateMqttStringEntity(mem, o) = [value |-> name, size |-> IF n = 0 THEN 0 ELSE (2 + n) % Byte]
      BY <2>1, <2>3, EntityRead
    <3> QED BY <3>1
  <2>5. CASE name = <<>>
    BY <1>2, <2>4, <2>5 DEF ReadLogin, NoLogin, LoginAs
  <2>6. CASE name # <<>> /\ ~f.pwd
    BY <1>2, <2>4, <2>6 DEF ReadLogin, NoLogin, LoginAs
  <2>7. CASE name # <<>> /\ f.pwd
    <3>1. n # 0
      BY <2>1, <2>7, EmptySeq
    <3>2. e.size = 2 + n
      BY <1>2, <2>1, <2>4, <2>7, <3>1, EntityCounted
    <3>3. PICK q \in Nat : q = o + (2 + n)
      OBVIOUS
    <3>4. Holds(mem, q, StringBytes(pwd))
      BY <2>2, <2>3, <2>7, <3>3
    <3>5. PICK x : x = CreateMqttStringEntity(mem, o + e.size) /\ x.value = pwd
      <4>1. PICK z : CreateMqttStringEntity(mem, q) = [value |-> pwd, size |-> z]
        BY <3>4, EntityRead
      <4> QED BY <3>2, <3>3, <4>1
    <3>6. ReadLogin(f, mem, o)
          = [st |-> IF f.pwd /\ x.value = <<>> THEN "auth_fail" ELSE "ok",
             name |-> e.value, pwd |-> IF f.pwd THEN x.value ELSE <<>>]
      BY <1>2, <2>4, <2>7, <3>5, Zenon DEF ReadLogin
    <3> QED BY <1>2, <2>4, <2>7, <3>5, <3>6 DEF LoginAs
  <2> QED BY <2>5, <2>6, <2>7
<1> QED BY <1>1, <1>2

\* What is heard of a CONNECT.
ConnectAs(p, kept) ==
    LET f     == p.flags
        login == LoginAs(f, p.name, p.pwd)
    IN  [st    |-> login.st,
         chain |-> After(kept.conn, p.props),
         id    |-> p.id,
         will  |-> IF f.will THEN <<After(kept.will, p.will[1]), p.will[2], p.will[3]>> ELSE <<>>,
         name  |-> login.name,
         pwd   |-> login.pwd]

\* What a uint8_t counts in a CONNECT.
ConnectCounted(p) ==
    /\ Counted(p.props)
    /\ p.flags.will => Counted(p.will[1])
    /\ p.flags.will \/ p.flags.name => CountedString(p.id)
    /\ p.flags.name /\ p.flags.pwd => CountedString(p.name)

\* The will of a CONNECT, when it has one.
ConnectWill(p) == IF p.flags.will THEN WillBytes(p.will[1], p.will[2], p.will[3]) ELSE <<>>
\* What HandleMqttConnect reads of it.
WillOf(p, kept, mem, o) ==
    IF p.flags.will THEN ReadWill(kept.will, mem, o) ELSE [st |-> "ok", value |-> <<>>, next |-> o]
\* It is the will that was sent, and the next field comes behind it.
WillIs(p, kept, mem, o, w) ==
    WillOf(p, kept, mem, o)
    = [st |-> "ok",
       value |-> IF p.flags.will THEN <<After(kept.will, p.will[1]), p.will[2], p.will[3]>> ELSE <<>>,
       next |-> o + w]

\* A CONNECT with or without a will goes on at the right field.
LEMMA ConnectWillRead ==
    ASSUME NEW p, IsConnect(p), ConnectCounted(p)
    PROVE  \E w \in Nat :
               /\ HasLen(ConnectWill(p), w)
               /\ \A kept, mem : \A o \in Nat :
                      Holds(mem, o, ConnectWill(p)) => WillIs(p, kept, mem, o, w)
<1>1. CASE p.flags.will
  <2>1. PICK ws : ws = p.will[1] /\ ShortProps(ws) /\ Counted(ws)
    BY <1>1 DEF IsConnect, ConnectCounted
  <2>2. PICK topic \in Seq(Nat), data \in Seq(Nat) : topic = p.will[2] /\ data = p.will[3]
    BY DEF IsConnect
  <2>3. PICK bytes : bytes = WillBytes(ws, topic, data) /\ bytes = ConnectWill(p)
    BY <1>1, <2>1, <2>2 DEF ConnectWill
  <2>4. PICK w \in Nat :
            /\ HasLen(bytes, w)
            /\ \A kept, mem : \A o \in Nat :
                   Holds(mem, o, bytes) => WillHeard(kept, mem, o, ws, topic, data, w)
    BY <2>1, <2>3, WillRead
  <2>5. ASSUME NEW kept, NEW mem, NEW o \in Nat, Holds(mem, o, bytes) PROVE WillIs(p, kept, mem, o, w)
    <3>1. WillHeard(kept.will, mem, o, ws, topic, data, w)
      BY <2>4, <2>5
    <3> QED BY <1>1, <2>1, <2>2, <3>1 DEF WillHeard, WillIs, WillOf
  <2> QED BY <2>3, <2>4, <2>5
<1>2. CASE ~p.flags.will
  <2>1. ConnectWill(p) = <<>>
    BY <1>2 DEF ConnectWill
  <2>2. HasLen(<<>>, 0)
    BY DEF HasLen
  <2>3. ASSUME NEW kept, NEW mem, NEW o \in Nat PROVE WillIs(p, kept, mem, o, 0)
    BY <1>2 DEF WillIs, WillOf
  <2> QED BY <2>1, <2>2, <2>3
<1> QED BY <1>1, <1>2

\* Parts may be put together in any order.
Regroups(s, t, u) == (s \o t) \o u = s \o (t \o u)

\* x is the k elements of s and then the m elements of t.
Joined(x, s, k, t, m) ==
    /\ x \in Seq(Nat)
    /\ Len(x) = k + m
    /\ \A i \in 1..k : x[i] = s[i]
    /\ \A j \in 1..m : x[k + j] = t[j]

\* A concatenation is one.
LEMMA Joins ==
    ASSUME NEW s \in Seq(Nat), NEW t \in Seq(Nat)
    PROVE  Joined(s \o t, s, Len(s), t, Len(t))
<1>1. PICK x : x = s \o t
  OBVIOUS
<1>2. /\ x \in Seq(Nat) /\ Len(x) = Len(s) + Len(t)
      /\ \A i \in 1..Len(s) : x[i] = s[i]
      /\ \A i \in 1..Len(t) : x[Len(s) + i] = t[i]
  BY <1>1, ConcatKeeps
<1>3. Joined(x, s, Len(s), t, Len(t))
  BY <1>2 DEF Joined
<1> QED BY <1>1, <1>3

\* Its first part.
LEMMA JoinedFirst ==
    ASSUME NEW x, NEW s, NEW k, NEW t, NEW m, Joined(x, s, k, t, m), NEW i \in 1..k
    PROVE  x[i] = s[i]
BY DEF Joined

\* Its length.
LEMMA JoinedSeq ==
    ASSUME NEW x, NEW s, NEW k, NEW t, NEW m, Joined(x, s, k, t, m)
    PROVE  x \in Seq(Nat) /\ Len(x) = k + m
BY DEF Joined

\* Concatenation is associative.
LEMMA Associative ==
    ASSUME NEW s \in Seq(Nat), NEW t \in Seq(Nat), NEW u \in Seq(Nat)
    PROVE  Regroups(s, t, u)
<1>1. PICK k \in Nat : k = Len(s)
  OBVIOUS
<1>2. PICK m \in Nat : m = Len(t)
  OBVIOUS
<1>3. PICK n \in Nat : n = Len(u)
  OBVIOUS
<1>4. PICK st : st = s \o t
  OBVIOUS
<1>5. PICK tu : tu = t \o u
  OBVIOUS
<1>6. Joined(st, s, k, t, m)
  BY <1>1, <1>2, <1>4, Joins
<1>7. Joined(tu, t, m, u, n)
  BY <1>2, <1>3, <1>5, Joins
<1>8. PICK a : a = st \o u
  OBVIOUS
<1>9. PICK c : c = s \o tu
  OBVIOUS
<1>10. Joined(a, st, k + m, u, n)
  BY <1>3, <1>6, <1>8, JoinedSeq, Joins
<1>11. Joined(c, s, k, tu, m + n)
  BY <1>1, <1>7, <1>9, JoinedSeq, Joins
<1>12. a = c
  <2>1. a \in Seq(Nat) /\ Len(a) = (k + m) + n
    BY <1>10, JoinedSeq
  <2>2. c \in Seq(Nat) /\ Len(c) = k + (m + n)
    BY <1>11, JoinedSeq
  <2>3. PICK l \in Nat : l = (k + m) + n /\ l = k + (m + n)
    OBVIOUS
  <2>4. ASSUME NEW i \in 1..l PROVE a[i] = c[i]
    <3>1. CASE i <= k
      <4>1. i \in 1..k /\ i \in 1..(k + m)
        BY <3>1
      <4>2. a[i] = st[i]
        BY <4>1, <1>10, JoinedFirst
      <4>3. st[i] = s[i]
        BY <4>1, <1>6, JoinedFirst
      <4>4. c[i] = s[i]
        BY <4>1, <1>11, JoinedFirst
      <4> QED BY <4>2, <4>3, <4>4
    <3>2. CASE i > k /\ i <= k + m
      <4>1. PICK j \in Nat : j = i - k
        BY <3>2
      <4>2. j \in 1..m /\ j \in 1..(m + n)
        BY <3>2, <4>1
      <4>3. i = k + j /\ i \in 1..(k + m)
        BY <3>2, <4>1
      <4>4. a[i] = st[i]
        BY <4>3, <1>10, JoinedFirst
      <4>5. st[k + j] = t[j]
        BY <4>2, <1>6 DEF Joined
      <4>6. c[k + j] = tu[j]
        BY <4>2, <1>11 DEF Joined
      <4>7. tu[j] = t[j]
        BY <4>2, <1>7, JoinedFirst
      <4> QED BY <4>3, <4>4, <4>5, <4>6, <4>7
    <3>3. CASE i > k + m
      <4>1. PICK j \in Nat : j = i - (k + m)
        BY <3>3
      <4>2. j \in 1..n /\ m + j \in 1..(m + n)
        BY <2>3, <3>3, <4>1
      <4>3. i = (k + m) + j /\ i = k + (m + j)
        BY <4>1
      <4>4. a[(k + m) + j] = u[j]
        BY <4>2, <1>10 DEF Joined
      <4>5. c[k + (m + j)] = tu[m + j]
        BY <4>2, <1>11 DEF Joined
      <4>6. tu[m + j] = u[j]
        BY <4>2, <1>7 DEF Joined
      <4> QED BY <4>3, <4>4, <4>5, <4>6
    <3> QED BY <3>1, <3>2, <3>3
  <2>5. Len(a) = l /\ Len(c) = l
    BY <2>1, <2>2, <2>3
  <2> QED BY <2>1, <2>2, <2>4, <2>5, SeqEqual
<1> QED BY <1>4, <1>5, <1>8, <1>9, <1>12 DEF Regroups

\* Any CONNECT whose strings and properties a uint8_t counts where another
\* field follows: HandleMqttConnect hears properties, client identifier, will,
\* user name and, behind a user name, password as they were sent, on whatever
\* the client's earlier CONNECT has left behind.
THEOREM ConnectionHeard ==
    ASSUME NEW p, IsConnect(p), ConnectCounted(p), NEW kept, NEW b
    PROVE  HandleMqttConnect(p.flags, kept, [data |-> ConnectBytes(p), rest |-> b])
           = ConnectAs(p, kept)
<1>1. PICK f : f = p.flags
  OBVIOUS
<1>2. f.will \in BOOLEAN /\ f.name \in BOOLEAN /\ f.pwd \in BOOLEAN
  BY <1>1 DEF IsConnect
<1>3. PICK id \in Seq(Nat), i \in Nat : id = p.id /\ i = Len(id)
  BY DEF IsConnect
<1>4. PICK name \in Seq(Nat), pwd \in Seq(Nat) : name = p.name /\ pwd = p.pwd
  BY DEF IsConnect
<1>5. (f.will \/ f.name => CountedString(id)) /\ (f.name /\ f.pwd => CountedString(name))
  BY <1>1, <1>3, <1>4 DEF ConnectCounted
<1>6. PICK m \in Nat : ChainHeard(p.props, m)
  BY ShortHeard DEF IsConnect, ConnectCounted
<1>7. PICK chain : chain = ChainBytes(p.props) /\ HasLen(chain, m)
  BY <1>6 DEF ChainHeard
<1>8. PICK ib : ib = StringBytes(id) /\ HasLen(ib, 2 + i)
  BY <1>3, StringLen
<1>9. PICK will : will = ConnectWill(p)
  OBVIOUS
<1>10. PICK w \in Nat :
           /\ HasLen(will, w)
           /\ \A k, mem : \A o \in Nat : Holds(mem, o, will) => WillIs(p, k, mem, o, w)
  BY <1>9, ConnectWillRead
<1>11. PICK nb, n : nb = (IF f.name THEN StringBytes(name) ELSE <<>>) /\ HasLen(nb, n)
  <2>1. HasLen(StringBytes(name), 2 + Len(name)) /\ HasLen(<<>>, 0)
    BY StringLen DEF HasLen
  <2> QED BY <2>1
<1>12. PICK pb, l : pb = (IF f.pwd THEN StringBytes(pwd) ELSE <<>>) /\ HasLen(pb, l)
  <2>1. HasLen(StringBytes(pwd), 2 + Len(pwd)) /\ HasLen(<<>>, 0)
    BY StringLen DEF HasLen
  <2> QED BY <2>1
<1>13. PICK login, k : login = nb \o pb /\ login = LoginBytes(f, name, pwd) /\ HasLen(login, k)
  <2>1. HasLen(nb \o pb, n + l)
    BY <1>11, <1>12, LenConcat
  <2> QED BY <1>11, <1>12, <2>1 DEF LoginBytes
<1>14. PICK first : first = chain \o ib
  OBVIOUS
<1>15. PICK e \in Nat : e = m + (2 + i) /\ HasLen(first, e)
  <2>1. HasLen(first, m + (2 + i))
    BY <1>7, <1>8, <1>14, LenConcat
  <2> QED BY <2>1
<1>16. PICK head : head = first \o will
  OBVIOUS
<1>17. PICK h \in Nat : h = e + w /\ HasLen(head, h)
  <2>1. HasLen(head, e + w)
    BY <1>10, <1>15, <1>16, LenConcat
  <2> QED BY <2>1
<1>18. PICK bytes : bytes = head \o login /\ bytes = ConnectBytes(p)
  <2>1. (head \o nb) \o pb = head \o (nb \o pb)
    <3>1. head \in Seq(Nat) /\ nb \in Seq(Nat) /\ pb \in Seq(Nat)
      BY <1>11, <1>12, <1>17 DEF HasLen
    <3>2. Regroups(head, nb, pb)
      BY <3>1, Associative
    <3> QED BY <3>2 DEF Regroups
  <2>2. will = IF f.will
               THEN (ChainBytes(p.will[1]) \o StringBytes(p.will[2])) \o StringBytes(p.will[3])
               ELSE <<>>
    BY <1>1, <1>9 DEF ConnectWill, WillBytes
  <2>3. ConnectBytes(p) = (head \o nb) \o pb
    BY <1>1, <1>3, <1>4, <1>7, <1>8, <1>11, <1>12, <1>14, <1>16, <2>2 DEF ConnectBytes
  <2> QED BY <1>13, <2>1, <2>3
<1>19. HasLen(bytes, h + k)
  BY <1>13, <1>17, <1>18, LenConcat
<1>20. PICK mem : mem = [data |-> bytes, rest |-> b]
  OBVIOUS
<1>21. Holds(mem, 0, bytes)
  <2>1. bytes \in Seq(Nat)
    BY <1>19 DEF HasLen
  <2> QED BY <1>20, <2>1, HeldBySelf
<1>22. Holds(mem, 0, head) /\ Holds(mem, h, login)
  <2>1. 0 \in Nat /\ 0 + h = h
    OBVIOUS
  <2>2. Holds(mem, 0, head) /\ Holds(mem, 0 + h, login)
    <3>1. HasLen(head, h) /\ HasLen(login, k) /\ Holds(mem, 0, head \o login)
      BY <1>13, <1>17, <1>18, <1>21
    <3> QED BY <2>1, <3>1, HoldsConcat
  <2> QED BY <2>1, <2>2
<1>23. Holds(mem, 0, first) /\ Holds(mem, e, will)
  <2>1. 0 \in Nat /\ 0 + e = e
    OBVIOUS
  <2>2. Holds(mem, 0, first) /\ Holds(mem, 0 + e, will)
    BY <1>10, <1>15, <1>16, <1>22, <2>1, HoldsConcat
  <2> QED BY <2>1, <2>2
<1>24. Holds(mem, 0, chain) /\ Holds(mem, m, ib)
  <2>1. 0 \in Nat /\ 0 + m = m
    OBVIOUS
  <2>2. Holds(mem, 0, chain) /\ Holds(mem, 0 + m, ib)
    BY <1>7, <1>8, <1>14, <1>23, <2>1, HoldsConcat
  <2> QED BY <2>1, <2>2
<1>25. PICK c : c = Create(kept.conn, mem, 0) /\ c.st = "ok" /\ c.chain = After(kept.conn, p.props) /\ c.size = m
  <2>1. PICK c : c = Create(kept.conn, mem, 0)
    OBVIOUS
  <2>2. 0 \in Nat
    OBVIOUS
  <2>3. c = [st |-> "ok", chain |-> After(kept.conn, p.props), size |-> m]
    BY <1>6, <1>7, <1>24, <2>1, <2>2 DEF ChainHeard
  <2> QED BY <2>1, <2>3
<1>26. PICK x : x = CreateMqttStringEntity(mem, m) /\ x.value = id
                /\ x.size = IF i = 0 THEN 0 ELSE (2 + i) % Byte
  <2>1. CreateMqttStringEntity(mem, m) = [value |-> id, size |-> IF i = 0 THEN 0 ELSE (2 + i) % Byte]
    BY <1>3, <1>8, <1>24, EntityRead
  <2> QED BY <2>1
<1>27. PICK o : o = c.size + (IF x.size # 0 THEN x.size ELSE 2)
  OBVIOUS
<1>28. f.will \/ f.name => o = e
  <2>1. SUFFICES ASSUME f.will \/ f.name PROVE o = e
    OBVIOUS
  <2>2. (2 + i) % Byte = 2 + i
    BY <1>3, <1>5, <2>1, EntityCounted
  <2>3. (IF x.size # 0 THEN x.size ELSE 2) = 2 + i
    BY <1>26, <2>2
  <2> QED BY <1>15, <1>25, <1>27, <2>3
<1>29. PICK y : y = WillOf(p, kept, mem, o)
  OBVIOUS
<1>30. y.st = "ok" /\ y.value = ConnectAs(p, kept).will /\ (f.name => y.next = h)
  <2>1. ConnectAs(p, kept).will
        = IF f.will THEN <<After(kept.will, p.will[1]), p.will[2], p.will[3]>> ELSE <<>>
    BY <1>1 DEF ConnectAs
  <2>2. CASE f.will \/ f.name
    <3>1. WillIs(p, kept, mem, e, w)
      BY <1>10, <1>23
    <3>2. y = [st |-> "ok",
               value |-> IF f.will THEN <<After(kept.will, p.will[1]), p.will[2], p.will[3]>> ELSE <<>>,
               next |-> e + w]
      BY <1>1, <1>28, <1>29, <2>2, <3>1 DEF WillIs
    <3> QED BY <1>17, <2>1, <3>2
  <2>3. CASE ~(f.will \/ f.name)
    <3>1. y = [st |-> "ok", value |-> <<>>, next |-> o]
      BY <1>1, <1>29, <2>3 DEF WillOf
    <3> QED BY <2>1, <2>3, <3>1
  <2> QED BY <2>2, <2>3
<1>31. PICK z : z = ReadLogin(f, mem, y.next) /\ z = LoginAs(f, name, pwd)
  <2>1. CASE f.name
    <3>1. ReadLogin(f, mem, h) = LoginAs(f, name, pwd)
      BY <1>2, <1>5, <1>13, <1>22, LoginRead
    <3> QED BY <1>30, <2>1, <3>1
  <2>2. CASE ~f.name
    BY <1>2, <2>2 DEF ReadLogin, NoLogin, LoginAs
  <2> QED BY <2>1, <2>2
<1>32. HandleMqttConnect(f, kept, mem)
       = [st |-> z.st, chain |-> c.chain, id |-> x.value, will |-> y.value, name |-> z.name, pwd |-> z.pwd]
  <2>1. y = IF f.will THEN ReadWill(kept.will, mem, o) ELSE [st |-> "ok", value |-> <<>>, next |-> o]
    BY <1>1, <1>29 DEF WillOf
  <2>2. x = CreateMqttStringEntity(mem, c.size)
    BY <1>25, <1>26
  <2> QED BY <1>25, <1>27, <1>30, <1>31, <2>1, <2>2, Zenon DEF HandleMqttConnect
<1>33. ConnectAs(p, kept)
       = [st |-> z.st, chain |-> c.chain, id |-> x.value, will |-> y.value, name |-> z.name, pwd |-> z.pwd]
  BY <1>1, <1>3, <1>4, <1>25, <1>26, <1>30, <1>31 DEF ConnectAs
<1> QED BY <1>1, <1>18, <1>20, <1>32, <1>33

\* What the run checks of CONNECT holds of every packet under way: HandleMqttConnect
\* hears every field that was sent.
THEOREM EveryConnectionHeard == Spec => []ConnectHeard
<1>1. PacketInv => ConnectHeard
  <2>1. SUFFICES ASSUME PacketInv, packet.kind = "CONNECT" PROVE ConnectHeard
    BY DEF ConnectHeard
  <2>2. IsConnect(packet)
    BY <2>1 DEF PacketInv
  <2>3. PICK f, mem : f = packet.flags /\ mem = [data |-> ConnectBytes(packet), rest |-> rest]
    OBVIOUS
  <2>4. ASSUME NEW old, ConnectCounted(packet)
        PROVE  HandleMqttConnect(f, [conn |-> old, will |-> old], mem)
               = [st    |-> IF f.name /\ packet.name = <<>> THEN "user_name_err"
                            ELSE IF f.name /\ f.pwd /\ packet.pwd = <<>> THEN "auth_fail" ELSE "ok",
                  chain |-> After(old, packet.props),
                  id    |-> packet.id,
                  will  |-> IF f.will THEN <<After(old, packet.will[1]), packet.will[2],
                                             packet.will[3]>> ELSE <<>>,
                  name  |-> IF f.name THEN packet.name ELSE <<>>,
                  pwd   |-> IF f.name /\ f.pwd /\ packet.name # <<>> THEN packet.pwd ELSE <<>>]
    <3>1. PICK kept : kept = [conn |-> old, will |-> old]
      OBVIOUS
    <3>2. kept.conn = old /\ kept.will = old
      BY <3>1
    <3>3. HandleMqttConnect(f, kept, mem) = ConnectAs(packet, kept)
      BY <2>2, <2>3, <2>4, ConnectionHeard
    <3>4. ConnectAs(packet, kept)
          = [st    |-> LoginAs(f, packet.name, packet.pwd).st,
             chain |-> After(old, packet.props),
             id    |-> packet.id,
             will  |-> IF f.will THEN <<After(old, packet.will[1]), packet.will[2],
                                        packet.will[3]>> ELSE <<>>,
             name  |-> LoginAs(f, packet.name, packet.pwd).name,
             pwd   |-> LoginAs(f, packet.name, packet.pwd).pwd]
      BY <2>3, <3>2 DEF ConnectAs
    <3>5. /\ LoginAs(f, packet.name, packet.pwd).st
             = IF f.name /\ packet.name = <<>> THEN "user_name_err"
               ELSE IF f.name /\ f.pwd /\ packet.pwd = <<>> THEN "auth_fail" ELSE "ok"
          /\ LoginAs(f, packet.name, packet.pwd).name = IF f.name THEN packet.name ELSE <<>>
          /\ LoginAs(f, packet.name, packet.pwd).pwd
             = IF f.name /\ f.pwd /\ packet.name # <<>> THEN packet.pwd ELSE <<>>
      BY DEF LoginAs
    <3> QED BY <3>1, <3>3, <3>4, <3>5
  <2> QED BY <2>3, <2>4 DEF ConnectHeard, ConnectCounted, Mem
<1> QED BY <1>1, PacketsAre, PTL
=============================================================================
