--------------------------- MODULE ArmBitsProofs ---------------------------
(***************************************************************************)
(* Lemmas about the words of ArmBits: that the fold Num computes the value *)
(* of a word, whatever the order it takes the bits in, and that it agrees  *)
(* with the manual's UInt; and the theorems that the expanded immediates   *)
(* of ArmImmediates are those of ArmManual, whatever the encoding.  No     *)
(* induction theorem is cited: an induction is a least counterexample,     *)
(* which LeastNat and LeastWord provide.                                   *)
(***************************************************************************)
EXTENDS ArmImmediates, ArmManual, FiniteSetTheorems, WellFoundedInduction, TLAPS

\* Words of any length.
FiniteWords == {v \in SUBSET Nat : IsFiniteSet(v)}

AnyOf(s) == CHOOSE b \in s : TRUE

\* What the fold of Num does of one subset, given what it does of the others.
Folded(g, s) == IF s = {} THEN 0 ELSE 2 ^ AnyOf(s) + g[s \ {AnyOf(s)}]

IsFold(g, v) == g = [s \in SUBSET v |-> Folded(g, s)]

-----------------------------------------------------------------------------
(* Least counterexamples.                                                  *)

\* A set of naturals that is not empty has a least element.
LEMMA LeastNat ==
  ASSUME NEW T \in SUBSET Nat, T # {}
  PROVE  \E n \in T : \A m \in T : n <= m
<1>. DEFINE Less == {ss \in Nat \X Nat : ss[1] < ss[2]}
<1>1. IsWellFoundedOn(Less, Nat)
  BY NatLessThanWellFounded DEF OpToRel
<1>. HIDE DEF Less
<1>2. PICK n \in T : \A m \in T : ~ (<<m, n>> \in Less)
  BY <1>1, WFMin
<1>3. \A m \in T : <<m, n>> \in Less <=> m < n
  BY DEF Less
<1>4. \A m \in T : ~ (m < n)
  BY <1>2, <1>3
<1>. QED
  BY <1>4

\* A word without one of its bits, or with some of them, is a word.
LEMMA WordParts ==
  ASSUME NEW v \in FiniteWords
  PROVE  /\ Cardinality(v) \in Nat
         /\ Cardinality(v) = 0 <=> v = {}
         /\ \A s \in SUBSET v : s \in FiniteWords /\ Cardinality(s) <= Cardinality(v)
         /\ \A b \in v : /\ v \ {b} \in FiniteWords
                         /\ Cardinality(v \ {b}) = Cardinality(v) - 1
<1>1. IsFiniteSet(v) /\ v \in SUBSET Nat
  BY DEF FiniteWords
<1>2. Cardinality(v) \in Nat /\ (Cardinality(v) = 0 <=> v = {})
  BY <1>1, FS_CardinalityType, FS_EmptySet
<1>3. ASSUME NEW s \in SUBSET v
      PROVE  s \in FiniteWords /\ Cardinality(s) <= Cardinality(v)
  BY <1>1, FS_Subset DEF FiniteWords
<1>4. ASSUME NEW b \in v
      PROVE  v \ {b} \in FiniteWords /\ Cardinality(v \ {b}) = Cardinality(v) - 1
  BY <1>1, FS_RemoveElement DEF FiniteWords
<1>. QED
  BY <1>2, <1>3, <1>4

\* Of the words of a set that is not empty one has the fewest bits.
LEMMA LeastWord ==
  ASSUME NEW W \in SUBSET FiniteWords, W # {}
  PROVE  \E v \in W : \A u \in W : Cardinality(v) <= Cardinality(u)
<1>. DEFINE T == {Cardinality(v) : v \in W}
<1>1. T \in SUBSET Nat /\ T # {}
  BY WordParts
<1>. HIDE DEF T
<1>2. PICK n \in T : \A m \in T : n <= m
  BY <1>1, LeastNat
<1>. QED
  BY <1>2 DEF T

\* A power of two is a natural number: it counts the subsets of a set.
LEMMA PowerType ==
  ASSUME NEW n \in Nat
  PROVE  2 ^ n \in Nat
<1>1. IsFiniteSet(1..n) /\ Cardinality(1..n) = n
  BY FS_Interval
<1>2. IsFiniteSet(SUBSET (1..n)) /\ Cardinality(SUBSET (1..n)) = 2 ^ n
  BY <1>1, FS_SUBSET
<1>. QED
  BY <1>2, FS_CardinalityType

-----------------------------------------------------------------------------
(* The fold of Num.                                                        *)

\* CHOOSE takes an element of a set that has one.
LEMMA AnyOfIn ==
  ASSUME NEW s, s # {}
  PROVE  AnyOf(s) \in s
BY DEF AnyOf

\* There is a function that folds every part of a word.
LEMMA FoldExists ==
  ASSUME NEW v \in FiniteWords
  PROVE  \E g : IsFold(g, v)
<1>. DEFINE Upto(g, k) == \A s \in SUBSET v : Cardinality(s) <= k => g[s] = Folded(g, s)
            T == {k \in Nat : ~ \E g : Upto(g, k)}
<1>1. \A s \in SUBSET v : /\ Cardinality(s) \in Nat
                          /\ Cardinality(s) = 0 <=> s = {}
                          /\ s # {} => /\ s \ {AnyOf(s)} \in SUBSET v
                                       /\ Cardinality(s \ {AnyOf(s)}) = Cardinality(s) - 1
  BY WordParts, AnyOfIn
<1>2. T = {}
  <2>. SUFFICES ASSUME T # {} PROVE FALSE
    OBVIOUS
  <2>1. PICK k \in T : \A m \in T : k <= m
    BY LeastNat
  <2>2. CASE k = 0
    <3>. DEFINE h == [s \in SUBSET v |-> 0]
    <3>0. ASSUME NEW s \in SUBSET v, Cardinality(s) <= 0
          PROVE  h[s] = Folded(h, s)
      <4>0. Cardinality(s) \in Nat
        BY <1>1
      <4>1. Cardinality(s) = 0
        BY <3>0, <4>0
      <4>2. s = {}
        BY <1>1, <4>1
      <4>. QED
        BY <4>2 DEF Folded
    <3>1. Upto(h, 0)
      BY <3>0
    <3>. QED
      BY <2>1, <2>2, <3>1
  <2>3. CASE k # 0
    <3>1. k - 1 \in Nat /\ k - 1 \notin T
      BY <2>1, <2>3
    <3>2. PICK g : Upto(g, k - 1)
      BY <3>1
    <3>. DEFINE h == [s \in SUBSET v |-> IF Cardinality(s) <= k - 1 THEN g[s]
                                         ELSE Folded(g, s)]
    <3>3. ASSUME NEW s \in SUBSET v, Cardinality(s) <= k
          PROVE  h[s] = Folded(h, s)
      <4>1. h[s] = Folded(g, s)
        BY <3>2
      <4>2. CASE s = {}
        BY <4>1, <4>2 DEF Folded
      <4>3. CASE s # {}
        <5>1. h[s \ {AnyOf(s)}] = g[s \ {AnyOf(s)}]
          BY <1>1, <2>1, <3>3, <4>3
        <5>. QED
          BY <4>1, <4>3, <5>1 DEF Folded
      <4>. QED
        BY <4>2, <4>3
    <3>4. Upto(h, k)
      BY <3>3
    <3>. QED
      BY <2>1, <3>4
  <2>. QED
    BY <2>2, <2>3
<1>3. PICK g : Upto(g, Cardinality(v))
  BY <1>2, WordParts
<1>. DEFINE f == [s \in SUBSET v |-> g[s]]
<1>4. ASSUME NEW s \in SUBSET v
      PROVE  g[s] = Folded(f, s)
  <2>1. g[s] = Folded(g, s)
    BY <1>3, WordParts
  <2>. QED
    BY <1>1, <2>1 DEF Folded
<1>5. f = [s \in SUBSET v |-> Folded(f, s)]
  BY <1>4
<1>. QED
  BY <1>5 DEF IsFold

\* Num is what some such function says of the whole word.
LEMMA NumIsFold ==
  ASSUME NEW v \in FiniteWords
  PROVE  \E g : IsFold(g, v) /\ Num(v) = g[v]
<1>. DEFINE G == CHOOSE g : IsFold(g, v)
<1>1. Num(v) = G[v]
  BY DEF Num, MapThenFoldSet, IsFold, Folded, AnyOf
<1>2. IsFold(G, v)
  BY FoldExists
<1>. QED
  BY <1>1, <1>2

\* All functions that fold a word, or more than that, agree on it: there is no smallest
\* part where they differ.
LEMMA FoldUnique ==
  ASSUME NEW u \in FiniteWords, NEW v \in FiniteWords, NEW f, NEW g,
         IsFold(f, u), IsFold(g, v)
  PROVE  \A s \in (SUBSET u) \cap (SUBSET v) : f[s] = g[s]
<1>. DEFINE W == {s \in (SUBSET u) \cap (SUBSET v) : f[s] # g[s]}
<1>1. W \in SUBSET FiniteWords
  BY WordParts
<1>. SUFFICES ASSUME W # {} PROVE FALSE
  OBVIOUS
<1>2. PICK s \in W : \A t \in W : Cardinality(s) <= Cardinality(t)
  BY <1>1, LeastWord
<1>3. f[s] = Folded(f, s) /\ g[s] = Folded(g, s)
  BY DEF IsFold
<1>4. s # {}
  BY <1>3 DEF Folded
<1>. DEFINE t == s \ {AnyOf(s)}
<1>5. Cardinality(t) = Cardinality(s) - 1 /\ Cardinality(s) \in Nat
  BY <1>1, <1>4, AnyOfIn, WordParts
<1>6. t \notin W
  BY <1>2, <1>5
<1>7. f[t] = g[t]
  BY <1>6
<1>. QED
  BY <1>3, <1>4, <1>7 DEF Folded

\* The empty word is zero, and any other one is the bit the fold takes first, and the rest.
LEMMA NumFirst ==
  ASSUME NEW v \in FiniteWords
  PROVE  Num(v) = IF v = {} THEN 0 ELSE 2 ^ AnyOf(v) + Num(v \ {AnyOf(v)})
<1>1. PICK g : IsFold(g, v) /\ Num(v) = g[v]
  BY NumIsFold
<1>2. Num(v) = Folded(g, v)
  BY <1>1 DEF IsFold
<1>3. ASSUME v # {}
      PROVE  g[v \ {AnyOf(v)}] = Num(v \ {AnyOf(v)})
  <2>. DEFINE t == v \ {AnyOf(v)}
  <2>1. t \in FiniteWords
    BY <1>3, AnyOfIn, WordParts
  <2>2. PICK h : IsFold(h, t) /\ Num(t) = h[t]
    BY <2>1, NumIsFold
  <2>. QED
    BY <1>1, <2>1, <2>2, FoldUnique
<1>. QED
  BY <1>2, <1>3 DEF Folded

\* The value of a word is a natural number.
LEMMA NumType ==
  ASSUME NEW v \in FiniteWords
  PROVE  Num(v) \in Nat
<1>. DEFINE W == {s \in FiniteWords : Num(s) \notin Nat}
<1>. SUFFICES ASSUME W # {} PROVE FALSE
  OBVIOUS
<1>1. PICK s \in W : \A t \in W : Cardinality(s) <= Cardinality(t)
  BY LeastWord
<1>2. s # {}
  BY NumFirst
<1>3. AnyOf(s) \in Nat
  BY <1>2, AnyOfIn DEF FiniteWords
<1>. DEFINE t == s \ {AnyOf(s)}
<1>4. t \in FiniteWords /\ Cardinality(t) = Cardinality(s) - 1 /\ Cardinality(s) \in Nat
  BY <1>2, AnyOfIn, WordParts
<1>5. Num(t) \in Nat
  BY <1>1, <1>4
<1>6. Num(s) = 2 ^ AnyOf(s) + Num(t)
  BY <1>2, NumFirst
<1>. QED
  BY <1>3, <1>5, <1>6, PowerType

\* The bits of a word can be taken in any order.
LEMMA NumRemove ==
  ASSUME NEW v \in FiniteWords, NEW b \in v
  PROVE  Num(v) = 2 ^ b + Num(v \ {b})
<1>. DEFINE W == {s \in FiniteWords : \E x \in s : Num(s) # 2 ^ x + Num(s \ {x})}
<1>1. W = {}
  <2>. SUFFICES ASSUME W # {} PROVE FALSE
    OBVIOUS
  <2>1. PICK s \in W : \A t \in W : Cardinality(s) <= Cardinality(t)
    BY LeastWord
  <2>2. PICK x \in s : Num(s) # 2 ^ x + Num(s \ {x})
    OBVIOUS
  <2>. DEFINE a == AnyOf(s)
  <2>3. a \in s /\ s # {}
    BY <2>2, AnyOfIn
  <2>4. Num(s) = 2 ^ a + Num(s \ {a})
    BY <2>3, NumFirst
  <2>. HIDE DEF a
  <2>5. a # x
    BY <2>2, <2>4
  <2>6. /\ s \ {a} \in FiniteWords /\ s \ {x} \in FiniteWords
        /\ Cardinality(s \ {a}) = Cardinality(s) - 1
        /\ Cardinality(s \ {x}) = Cardinality(s) - 1
        /\ Cardinality(s) \in Nat
    BY <2>3, WordParts
  <2>. DEFINE p    == s \ {a}
              q    == s \ {x}
              rest == p \ {x}
  <2>7. p \notin W /\ q \notin W
    <3>. HIDE DEF W
    <3>. QED
      BY <2>1, <2>6
  <2>8. Num(p) = 2 ^ x + Num(p \ {x})
    BY <2>5, <2>6, <2>7
  <2>9. Num(q) = 2 ^ a + Num(q \ {a})
    BY <2>3, <2>5, <2>6, <2>7
  <2>10. q \ {a} = rest
    OBVIOUS
  <2>11. rest \in FiniteWords
    BY <2>6, WordParts
  <2>12. 2 ^ a \in Nat /\ 2 ^ x \in Nat /\ Num(rest) \in Nat
    BY <2>3, <2>11, PowerType, NumType DEF FiniteWords
  <2>13. Num(s) = 2 ^ a + (2 ^ x + Num(rest)) /\ Num(q) = 2 ^ a + Num(rest)
    BY <2>4, <2>8, <2>9, <2>10
  <2>14. Num(s) # 2 ^ x + Num(q)
    BY <2>2
  <2>. HIDE DEF p, q, rest
  <2>. QED
    BY <2>12, <2>13, <2>14
<1>. QED
  BY <1>1

\* One bit more or less.
LEMMA NumBit ==
  ASSUME NEW v \in FiniteWords, NEW b
  PROVE  Num(v) = (IF b \in v THEN 2 ^ b ELSE 0) + Num(v \ {b})
<1>1. CASE b \in v
  BY <1>1, NumRemove
<1>2. CASE b \notin v
  <2>. DEFINE rest == v \ {b}
  <2>1. rest = v
    BY <1>2
  <2>. HIDE DEF rest
  <2>2. Num(v) = 0 + Num(rest)
    BY <2>1, NumType
  <2>. QED
    BY <1>2, <2>2 DEF rest
<1>. QED
  BY <1>1, <1>2

-----------------------------------------------------------------------------
(* Words of a known width.                                                 *)

\* One more bit doubles the number of words.
LEMMA PowerStep ==
  ASSUME NEW n \in Nat
  PROVE  2 ^ (n + 1) = 2 * 2 ^ n
<1>. DEFINE S == 1..n
            A == SUBSET S
            B == {t \union {n + 1} : t \in A}
            f == [t \in A |-> t \union {n + 1}]
<1>1. IsFiniteSet(S) /\ Cardinality(S) = n
  BY FS_Interval
<1>2. IsFiniteSet(1..n + 1) /\ Cardinality(1..n + 1) = n + 1
  BY FS_Interval
<1>3. IsFiniteSet(A) /\ Cardinality(A) = 2 ^ n
  BY <1>1, FS_SUBSET
<1>4. Cardinality(SUBSET (1..n + 1)) = 2 ^ (n + 1)
  BY <1>2, FS_SUBSET
<1>5. f \in Bijection(A, B)
  <2>1. f \in [A -> B]
    OBVIOUS
  <2>2. ASSUME NEW t \in A, NEW u \in A, f[t] = f[u]
        PROVE  t = u
    <3>1. n + 1 \notin t /\ n + 1 \notin u
      OBVIOUS
    <3>2. t \union {n + 1} = u \union {n + 1}
      BY <2>2
    <3>. QED
      BY <3>1, <3>2
  <2>3. \A y \in B : \E t \in A : f[t] = y
    OBVIOUS
  <2>. HIDE DEF A, B, f
  <2>4. f \in Injection(A, B)
    BY <2>1, <2>2 DEF Injection, IsInjective
  <2>5. f \in Surjection(A, B)
    BY <2>1, <2>3 DEF Surjection
  <2>. QED
    BY <2>4, <2>5 DEF Bijection
<1>6. IsFiniteSet(B) /\ Cardinality(B) = Cardinality(A)
  BY <1>3, <1>5, FS_Bijection DEF ExistsBijection
<1>7. A \cap B = {}
  OBVIOUS
<1>8. A \union B = SUBSET (1..n + 1)
  <2>1. ASSUME NEW t \in SUBSET (1..n + 1)
        PROVE  t \in A \union B
    <3>1. CASE n + 1 \in t
      <4>1. t \ {n + 1} \in A /\ t = (t \ {n + 1}) \union {n + 1}
        BY <3>1
      <4>. QED
        BY <4>1
    <3>2. CASE n + 1 \notin t
      BY <3>2
    <3>. QED
      BY <3>1, <3>2
  <2>2. S \subseteq 1..n + 1 /\ n + 1 \in 1..n + 1
    OBVIOUS
  <2>. QED
    BY <2>1, <2>2
<1>9. Cardinality(A \union B) = Cardinality(A) + Cardinality(B) - Cardinality(A \cap B)
  BY <1>3, <1>6, FS_Union
<1>10. Cardinality(A \cap B) = 0
  BY <1>7, FS_EmptySet
<1>11. 2 ^ n \in Nat
  BY PowerType
<1>12. Cardinality(A \union B) = Cardinality(SUBSET (1..n + 1))
  BY <1>8
<1>. DEFINE P == 2 ^ n
            Q == 2 ^ (n + 1)
<1>. HIDE DEF A, B, P, Q
<1>13. Cardinality(A) = P /\ Cardinality(B) = P /\ P \in Nat
  BY <1>3, <1>6, <1>11 DEF P
<1>14. Cardinality(A \union B) = Q
  BY <1>4, <1>12 DEF Q
<1>15. Q = 2 * P
  BY <1>9, <1>10, <1>13, <1>14
<1>. QED
  BY <1>15 DEF P, Q

\* A word of n bits is a word.
LEMMA LowWord ==
  ASSUME NEW n \in Nat, NEW v \in SUBSET Low(n)
  PROVE  v \in FiniteWords
<1>1. IsFiniteSet(Low(n))
  BY FS_Interval DEF Low
<1>2. IsFiniteSet(v)
  BY <1>1, FS_Subset
<1>3. v \in SUBSET Nat
  BY DEF Low
<1>. QED
  BY <1>2, <1>3 DEF FiniteWords

\* The value of a word of n bits is below 2 ^ n.
LEMMA NumBound ==
  ASSUME NEW n \in Nat, NEW v \in SUBSET Low(n)
  PROVE  Num(v) \in 0..2 ^ n - 1
<1>. DEFINE T == {m \in Nat : \E u \in SUBSET Low(m) : Num(u) >= 2 ^ m}
<1>1. T = {}
  <2>. SUFFICES ASSUME T # {} PROVE FALSE
    OBVIOUS
  <2>1. PICK m \in T : \A k \in T : m <= k
    BY LeastNat
  <2>2. PICK u \in SUBSET Low(m) : Num(u) >= 2 ^ m
    OBVIOUS
  <2>3. u \in FiniteWords /\ Num(u) \in Nat
    BY LowWord, NumType
  <2>4. m # 0
    <3>. SUFFICES ASSUME m = 0 PROVE FALSE
      OBVIOUS
    <3>1. u = {}
      BY DEF Low
    <3>2. Num(u) = 0
      BY <2>3, <3>1, NumFirst
    <3>3. 2 ^ m = 1
      OBVIOUS
    <3>. QED
      BY <2>2, <3>2, <3>3
  <2>. DEFINE k    == m - 1
              rest == u \ {k}
  <2>5. k \in Nat /\ k \notin T /\ m = k + 1
    BY <2>1, <2>4
  <2>6. rest \in SUBSET Low(k)
    BY <2>5 DEF Low
  <2>7. rest \in FiniteWords /\ Num(rest) \in Nat /\ 2 ^ k \in Nat
    BY <2>5, <2>6, LowWord, NumType, PowerType
  <2>8. Num(rest) < 2 ^ k
    BY <2>5, <2>6, <2>7
  <2>9. Num(u) = (IF k \in u THEN 2 ^ k ELSE 0) + Num(rest)
    BY <2>3, NumBit
  <2>10. 2 ^ m = 2 * 2 ^ k
    BY <2>5, PowerStep
  <2>. HIDE DEF k, rest
  <2>. QED
    BY <2>2, <2>7, <2>8, <2>9, <2>10
<1>2. v \in FiniteWords /\ Num(v) \in Nat /\ 2 ^ n \in Nat
  BY LowWord, NumType, PowerType
<1>3. ~ (Num(v) >= 2 ^ n)
  BY <1>1
<1>. QED
  BY <1>2, <1>3

-----------------------------------------------------------------------------
(* The manual's UInt.                                                      *)

\* UInt is the value of the lowest 31 bits.
LEMMA UIntIsNum ==
  ASSUME NEW x
  PROVE  UInt(x) = Num(x \cap Low(31))
<1>. DEFINE Weight(n) == IF n - 1 \in x THEN 2 ^ (n - 1) ELSE 0
            Recurs(g) == g = [n \in 0..31 |-> IF n = 0 THEN 0 ELSE g[n - 1] + Weight(n)]
            below == [n \in 0..31 |-> Num(x \cap Low(n))]
            found == CHOOSE g : Recurs(g)
<1>1. UInt(x) = found[31]
  BY DEF UInt
<1>2. ASSUME NEW n \in 0..31
      PROVE  /\ Num(x \cap Low(n)) \in Nat
             /\ n = 0 => Num(x \cap Low(n)) = 0
             /\ n # 0 => Num(x \cap Low(n)) = Num(x \cap Low(n - 1)) + Weight(n)
  <2>1. x \cap Low(n) \in FiniteWords
    BY LowWord
  <2>2. n = 0 => x \cap Low(n) = {}
    BY DEF Low
  <2>3. CASE n # 0
    <3>. DEFINE k == n - 1
                u == x \cap Low(n)
    <3>1. k \in Nat /\ n = k + 1
      BY <2>3
    <3>2. u \ {k} = x \cap Low(k) /\ (k \in u <=> k \in x)
      BY <3>1 DEF Low
    <3>3. Num(u) = (IF k \in u THEN 2 ^ k ELSE 0) + Num(u \ {k})
      BY <2>1, NumBit
    <3>4. Num(x \cap Low(k)) \in Nat /\ 2 ^ k \in Nat
      BY <3>1, LowWord, NumType, PowerType
    <3>5. Num(u) = Weight(n) + Num(x \cap Low(k))
      BY <3>2, <3>3
    <3>6. Weight(n) \in Nat
      BY <3>4
    <3>7. Num(u) \in Nat
      BY <2>1, NumType
    <3>. HIDE DEF Weight, k, u
    <3>8. Num(u) = Num(x \cap Low(k)) + Weight(n)
      BY <3>4, <3>5, <3>6
    <3>. QED
      BY <2>3, <3>7, <3>8 DEF k, u
  <2>4. CASE n = 0
    BY <2>1, <2>2, <2>4, NumFirst
  <2>. QED
    BY <2>3, <2>4
<1>3. Recurs(below)
  <2>1. ASSUME NEW n \in 0..31
        PROVE  below[n] = IF n = 0 THEN 0 ELSE below[n - 1] + Weight(n)
    <3>1. n # 0 => n - 1 \in 0..31
      OBVIOUS
    <3>. HIDE DEF Weight
    <3>. QED
      BY <1>2, <3>1
  <2>. HIDE DEF Weight
  <2>. QED
    BY <2>1
<1>4. Recurs(found)
  BY <1>3
<1>. DEFINE T == {n \in 0..31 : found[n] # below[n]}
<1>5. T = {}
  <2>. SUFFICES ASSUME T # {} PROVE FALSE
    OBVIOUS
  <2>. HIDE DEF found, below, Weight
  <2>0. T \in SUBSET Nat
    OBVIOUS
  <2>1. PICK n \in T : \A m \in T : n <= m
    BY <2>0, LeastNat
  <2>2. n # 0 => n - 1 \in 0..31 /\ n - 1 \notin T
    BY <2>1
  <2>3. n # 0 => found[n - 1] = below[n - 1]
    BY <2>2
  <2>. QED
    BY <1>3, <1>4, <2>3
<1>6. \A n \in 0..31 : found[n] = below[n]
  <2>. HIDE DEF found, below
  <2>. QED
    BY <1>5
<1>7. found[31] = below[31] /\ below[31] = Num(x \cap Low(31))
  <2>. HIDE DEF found
  <2>. QED
    BY <1>6
<1>. QED
  BY <1>1, <1>7

-----------------------------------------------------------------------------
(* The one bits of a word, in order.                                       *)

Below(v, b) == {x \in v : x < b}

\* Every bit of a word but the lowest has its rank from the word without that.
LEMMA RankExists ==
  ASSUME NEW v \in FiniteWords, NEW n \in 1..Cardinality(v)
  PROVE  \E b \in v : Cardinality(Below(v, b)) = n - 1
<1>. DEFINE Ranked(u, k) == \E b \in u : Cardinality(Below(u, b)) = k - 1
            W == {u \in FiniteWords : \E k \in 1..Cardinality(u) : ~ Ranked(u, k)}
<1>1. W = {}
  <2>. SUFFICES ASSUME W # {} PROVE FALSE
    OBVIOUS
  <2>1. PICK u \in W : \A t \in W : Cardinality(u) <= Cardinality(t)
    BY LeastWord
  <2>2. PICK k \in 1..Cardinality(u) : ~ Ranked(u, k)
    OBVIOUS
  <2>3. u \in FiniteWords /\ u \in SUBSET Nat /\ Cardinality(u) \in Nat /\ u # {}
    <3>1. u \in FiniteWords
      OBVIOUS
    <3>. QED
      BY <2>2, <3>1, WordParts DEF FiniteWords
  <2>4. PICK m \in u : \A x \in u : m <= x
    BY <2>3, LeastNat
  <2>. DEFINE r == u \ {m}
  <2>5. r \in FiniteWords /\ Cardinality(r) = Cardinality(u) - 1 /\ Cardinality(r) \in Nat
    BY <2>3, WordParts
  <2>6. k # 1
    <3>3. \A x \in u : ~ (x < m)
      BY <2>3, <2>4
    <3>1. Below(u, m) = {}
      BY <3>3 DEF Below
    <3>2. Cardinality(Below(u, m)) = 1 - 1
      BY <3>1, FS_EmptySet
    <3>. QED
      BY <2>2, <3>2
  <2>7. r \notin W
    <3>. HIDE DEF W
    <3>. QED
      BY <2>1, <2>3, <2>5
  <2>8. k - 1 \in 1..Cardinality(r)
    BY <2>3, <2>5, <2>6
  <2>9. PICK b \in r : Cardinality(Below(r, b)) = k - 1 - 1
    BY <2>5, <2>7, <2>8
  <2>10. b \in u /\ Below(u, b) = Below(r, b) \union {m} /\ m \notin Below(r, b)
    BY <2>3, <2>4 DEF Below
  <2>11. IsFiniteSet(Below(r, b))
    <3>1. Below(r, b) \in SUBSET r
      BY DEF Below
    <3>2. Below(r, b) \in FiniteWords
      BY <2>5, <3>1, WordParts
    <3>. QED
      BY <3>2 DEF FiniteWords
  <2>12. Cardinality(Below(u, b)) = Cardinality(Below(r, b)) + 1
    BY <2>10, <2>11, FS_AddElement
  <2>13. Cardinality(Below(u, b)) = k - 1
    BY <2>9, <2>12
  <2>. QED
    BY <2>2, <2>10, <2>13
<1>. QED
  BY <1>1

\* The n-th of the one bits is a bit of the word that n - 1 bits are below.
LEMMA OneBitsRank ==
  ASSUME NEW v \in FiniteWords, NEW n \in 1..Cardinality(v)
  PROVE  OneBits(v)[n] \in v /\ Cardinality(Below(v, OneBits(v)[n])) = n - 1
<1>1. OneBits(v)[n] = CHOOSE b \in v : Cardinality(Below(v, b)) = n - 1
  BY DEF OneBits, Below
<1>2. \E b \in v : Cardinality(Below(v, b)) = n - 1
  BY RankExists
<1>. QED
  BY <1>1, <1>2

\* The one bits ascend.
LEMMA OneBitsAscend ==
  ASSUME NEW v \in FiniteWords, NEW n \in 1..Cardinality(v), n # 1
  PROVE  OneBits(v)[n - 1] < OneBits(v)[n]
<1>. DEFINE b == OneBits(v)[n]
            a == OneBits(v)[n - 1]
<1>1. Cardinality(v) \in Nat
  BY WordParts
<1>2. b \in v /\ Cardinality(Below(v, b)) = n - 1
  BY OneBitsRank
<1>3. a \in v /\ Cardinality(Below(v, a)) = n - 1 - 1
  <2>1. n - 1 \in 1..Cardinality(v)
    BY <1>1
  <2>. QED
    BY <2>1, OneBitsRank
<1>. HIDE DEF a, b
<1>4. a \in Nat /\ b \in Nat
  BY <1>2, <1>3 DEF FiniteWords
<1>. SUFFICES ASSUME b <= a PROVE FALSE
  BY <1>4 DEF a, b
<1>8. \A x \in v : x < b => x < a
  BY <1>4 DEF FiniteWords
<1>5. Below(v, b) \in SUBSET Below(v, a) /\ Below(v, a) \in SUBSET v
  BY <1>8 DEF Below
<1>6. Below(v, a) \in FiniteWords
  BY <1>5, WordParts
<1>7. Cardinality(Below(v, b)) <= Cardinality(Below(v, a))
  BY <1>5, <1>6, WordParts
<1>. QED
  BY <1>2, <1>3, <1>7
-----------------------------------------------------------------------------
(* Fields of four bits.                                                    *)

\* The powers a field of four bits is made of.
LEMMA SmallPowers == 2 ^ 0 = 1 /\ 2 ^ 1 = 2 /\ 2 ^ 2 = 4 /\ 2 ^ 3 = 8 /\ 2 ^ 4 = 16
<1>1. 2 ^ 0 = 1
  OBVIOUS
<1>2. /\ 2 ^ (0 + 1) = 2 * 2 ^ 0 /\ 2 ^ (1 + 1) = 2 * 2 ^ 1
      /\ 2 ^ (2 + 1) = 2 * 2 ^ 2 /\ 2 ^ (3 + 1) = 2 * 2 ^ 3
  BY PowerStep
<1>3. 0 + 1 = 1 /\ 1 + 1 = 2 /\ 2 + 1 = 3 /\ 3 + 1 = 4
  OBVIOUS
<1>4. 2 ^ 1 = 2
  BY <1>1, <1>2, <1>3
<1>5. 2 ^ 2 = 4
  BY <1>4, <1>2, <1>3
<1>6. 2 ^ 3 = 8
  BY <1>5, <1>2, <1>3
<1>. QED
  BY <1>1, <1>2, <1>3, <1>4, <1>5, <1>6

\* A field of four ones is 15.
LEMMA AllOnes == Num(0..3) = 15
<1>1. /\ 0..3 \in SUBSET Low(4) /\ (0..3) \ {3} \in SUBSET Low(4)
      /\ ((0..3) \ {3}) \ {2} \in SUBSET Low(4)
      /\ (((0..3) \ {3}) \ {2}) \ {1} \in SUBSET Low(4)
      /\ ((((0..3) \ {3}) \ {2}) \ {1}) \ {0} = {} /\ {} \in SUBSET Low(4)
  BY DEF Low
<1>2. \A v \in SUBSET Low(4) : v \in FiniteWords
  BY LowWord
<1>. DEFINE a == (0..3) \ {3}
            b == a \ {2}
            c == b \ {1}
<1>3. /\ Num(0..3) = 2 ^ 3 + Num(a) /\ Num(a) = 2 ^ 2 + Num(b)
      /\ Num(b) = 2 ^ 1 + Num(c) /\ Num(c) = 2 ^ 0 + Num({})
  <2>1. 3 \in 0..3 /\ 2 \in a /\ 1 \in b /\ 0 \in c
    OBVIOUS
  <2>2. 0..3 \in FiniteWords /\ a \in FiniteWords /\ b \in FiniteWords /\ c \in FiniteWords
    BY <1>1, <1>2
  <2>3. c \ {0} = {}
    BY <1>1
  <2>. HIDE DEF c
  <2>4. Num(c) = 2 ^ 0 + Num(c \ {0})
    BY <2>1, <2>2, NumRemove
  <2>. HIDE DEF b
  <2>5. Num(b) = 2 ^ 1 + Num(b \ {1})
    BY <2>1, <2>2, NumRemove
  <2>. HIDE DEF a
  <2>6. Num(a) = 2 ^ 2 + Num(a \ {2})
    BY <2>1, <2>2, NumRemove
  <2>7. Num(0..3) = 2 ^ 3 + Num((0..3) \ {3})
    BY <2>1, <2>2, NumRemove
  <2>. QED
    BY <2>3, <2>4, <2>5, <2>6, <2>7 DEF a, b, c
<1>4. Num({}) = 0
  BY <1>1, <1>2, NumFirst
<1>. HIDE DEF a, b, c
<1>. QED
  BY <1>3, <1>4, SmallPowers

\* A field of five bits is a number up to 31, and an even one without its lowest bit.
LEMMA FiveBitsType ==
  ASSUME NEW v \in SUBSET Low(5)
  PROVE  Num(v) \in 0..31 /\ (0 \notin v => Num(v) % 2 = 0)
<1>1. 2 ^ 5 = 32
  <2>1. 2 ^ (4 + 1) = 2 * 2 ^ 4 /\ 4 + 1 = 5
    BY PowerStep
  <2>. QED
    BY <2>1, SmallPowers
<1>2. Num(v) \in 0..2 ^ 5 - 1
  BY NumBound
<1>3. Num(v) \in 0..31
  <2>. DEFINE P == 2 ^ 5
  <2>1. P = 32 /\ Num(v) \in 0..P - 1
    BY <1>1, <1>2
  <2>. HIDE DEF P
  <2>. QED
    BY <2>1
<1>4. ASSUME 0 \notin v
      PROVE  Num(v) % 2 = 0
  <2>. DEFINE Term(b) == IF b \in v THEN 2 ^ b ELSE 0
              a == v \ {4}
              b == a \ {3}
              c == b \ {2}
              d == c \ {1}
  <2>1. /\ a \in SUBSET Low(5) /\ b \in SUBSET Low(5) /\ c \in SUBSET Low(5)
        /\ d \in SUBSET Low(5) /\ d = {}
    BY <1>4 DEF Low
  <2>2. /\ v \in FiniteWords /\ a \in FiniteWords /\ b \in FiniteWords /\ c \in FiniteWords
        /\ d \in FiniteWords
    BY <2>1, LowWord
  <2>3. /\ 3 \in a <=> 3 \in v
        /\ 2 \in b <=> 2 \in v
        /\ 1 \in c <=> 1 \in v
    OBVIOUS
  <2>. HIDE DEF d
  <2>4. Num(c) = Term(1) + Num(d)
    BY <2>2, <2>3, NumBit DEF d
  <2>. HIDE DEF c
  <2>5. Num(b) = Term(2) + Num(c)
    BY <2>2, <2>3, NumBit DEF c
  <2>. HIDE DEF b
  <2>6. Num(a) = Term(3) + Num(b)
    BY <2>2, <2>3, NumBit DEF b
  <2>. HIDE DEF a
  <2>7. Num(v) = Term(4) + Num(a)
    BY <2>2, NumBit DEF a
  <2>8. Num(d) = 0
    BY <2>1, <2>2, NumFirst
  <2>9. /\ Term(1) \in {0, 2} /\ Term(2) \in {0, 4} /\ Term(3) \in {0, 8}
        /\ Term(4) \in {0, 16}
    BY SmallPowers
  <2>. HIDE DEF Term
  <2>. QED
    BY <2>4, <2>5, <2>6, <2>7, <2>8, <2>9
<1>. QED
  BY <1>3, <1>4

\* The manual's reading of a field of four bits, and the decoder's.
LEMMA NibbleIsField ==
  ASSUME NEW v, NEW lo \in Nat
  PROVE  /\ Num(Slice(v, lo + 3, lo)) = UInt(Field(v, lo + 3, lo))
         /\ UInt(Field(v, lo + 3, lo)) \in 0..15
         /\ lo..lo + 3 \subseteq v => UInt(Field(v, lo + 3, lo)) = 15
<1>. DEFINE s == Slice(v, lo + 3, lo)
<1>1. s = {b \in 0..3 : b + lo \in v}
  <2>1. lo + 3 - lo = 3
    OBVIOUS
  <2>. QED
    BY <2>1 DEF Slice
<1>2. Field(v, lo + 3, lo) = s
  <2>1. ASSUME NEW c \in s
        PROVE  c \in Field(v, lo + 3, lo)
    <3>1. c + lo \in v \cap lo..lo + 3 /\ c = (c + lo) - lo
      BY <1>1
    <3>. QED
      BY <3>1 DEF Field
  <2>2. ASSUME NEW c \in Field(v, lo + 3, lo)
        PROVE  c \in s
    <3>1. PICK b \in v \cap lo..lo + 3 : c = b - lo
      BY DEF Field
    <3>. QED
      BY <1>1, <3>1
  <2>. QED
    BY <2>1, <2>2
<1>. HIDE DEF s
<1>3. s \in SUBSET Low(4) /\ s \cap Low(31) = s
  BY <1>1 DEF Low
<1>4. UInt(s) = Num(s)
  BY <1>3, UIntIsNum
<1>5. Num(s) \in 0..15
  <2>1. Num(s) \in 0..2 ^ 4 - 1
    BY <1>3, NumBound
  <2>. QED
    BY <2>1, SmallPowers
<1>6. lo..lo + 3 \subseteq v => s = 0..3
  BY <1>1
<1>. QED
  BY <1>2, <1>4, <1>5, <1>6, AllOnes DEF s

-----------------------------------------------------------------------------
(* Sequences.                                                              *)

\* No argument yet.
LEMMA EmptySequence == IsSequence(<<>>) /\ Len(<<>>) = 0
<1>1. <<>> \in Seq({<<>>[i] : i \in DOMAIN <<>>})
  OBVIOUS
<1>. QED
  BY <1>1 DEF IsSequence

\* One argument more.
LEMMA AppendSequence ==
  ASSUME NEW s, IsSequence(s), NEW e
  PROVE  /\ IsSequence(Append(s, e)) /\ Len(s) \in Nat /\ Len(Append(s, e)) = Len(s) + 1
         /\ Append(s, e)[Len(s) + 1] = e
         /\ \A i \in 1..Len(s) : Append(s, e)[i] = s[i]
<1>. DEFINE S == {s[i] : i \in DOMAIN s} \union {e}
            t == Append(s, e)
            T == {t[i] : i \in DOMAIN t}
<1>1. s \in Seq(S)
  BY DEF IsSequence
<1>. HIDE DEF S
<1>2. /\ t \in Seq(S \union {e}) /\ Len(s) \in Nat /\ Len(t) = Len(s) + 1
      /\ t[Len(s) + 1] = e /\ \A i \in 1..Len(s) : t[i] = s[i]
  BY <1>1
<1>. HIDE DEF t
<1>3. t \in Seq(T)
  <2>1. DOMAIN t = 1..Len(t) /\ Len(t) \in Nat /\ t = [i \in 1..Len(t) |-> t[i]]
    BY <1>2
  <2>2. \A i \in 1..Len(t) : t[i] \in T
    BY <2>1
  <2>. HIDE DEF T
  <2>. QED
    BY <2>1, <2>2
<1>. QED
  BY <1>2, <1>3 DEF IsSequence, t
-----------------------------------------------------------------------------
(* The expanded immediates of AArch32, and the manual's.                   *)

\* Bits hi..lo of a word are the same field to the decoder and to the manual.
LEMMA SliceIsField ==
  ASSUME NEW v, NEW hi \in Int, NEW lo \in Int
  PROVE  /\ Slice(v, hi, lo) = Field(v, hi, lo)
         /\ Slice(v, hi, lo) \in SUBSET (0..hi - lo)
<1>1. ASSUME NEW b \in Slice(v, hi, lo)
      PROVE  b \in Field(v, hi, lo)
  <2>1. b + lo \in v \cap lo..hi /\ b = (b + lo) - lo
    BY DEF Slice
  <2>. QED
    BY <2>1 DEF Field
<1>2. ASSUME NEW c \in Field(v, hi, lo)
      PROVE  c \in Slice(v, hi, lo)
  <2>1. PICK b \in v \cap lo..hi : c = b - lo
    BY DEF Field
  <2>. QED
    BY <2>1 DEF Slice
<1>. QED
  BY <1>1, <1>2 DEF Slice

\* ror takes bit b from b + n, ROR sends bit b to b - n.
LEMMA RotationsAgree ==
  ASSUME NEW v \in SUBSET (0..31), NEW n \in 0..31
  PROVE  ror(v, n) = ROR(v, n, 32)
<1>1. \A b \in 0..31 : /\ (b + n) % 32 = IF b + n < 32 THEN b + n ELSE b + n - 32
                       /\ (b - n) % 32 = IF b >= n THEN b - n ELSE b - n + 32
  OBVIOUS
<1>2. ASSUME NEW b \in ror(v, n)
      PROVE  b \in ROR(v, n, 32)
  <2>1. b \in 0..31 /\ (b + n) % 32 \in v
    BY DEF ror, Low
  <2>. DEFINE c == (b + n) % 32
  <2>2. c \in 0..31 /\ (c - n) % 32 = b
    BY <1>1, <2>1
  <2>. HIDE DEF c
  <2>. QED
    BY <2>1, <2>2 DEF ROR, c
<1>3. ASSUME NEW c \in ROR(v, n, 32)
      PROVE  c \in ror(v, n)
  <2>1. PICK b \in v : c = (b - n) % 32
    BY DEF ROR
  <2>2. c \in 0..31 /\ (c + n) % 32 = b
    BY <1>1, <2>1
  <2>. QED
    BY <2>1, <2>2 DEF ror, Low
<1>. QED
  BY <1>2, <1>3

\* decode_a32_imm is the manual's A32ExpandImm, for every twelve bits.
THEOREM A32ImmediateIsManual ==
  ASSUME NEW imm12 \in SUBSET Low(12)
  PROVE  decode_a32_imm(imm12) = A32ExpandImm(imm12)
<1>1. /\ Slice(imm12, 7, 0) = Field(imm12, 7, 0)
      /\ Slice(imm12, 7, 0) \in SUBSET (0..31)
  <2>1. 0..7 - 0 \in SUBSET (0..31)
    OBVIOUS
  <2>. QED
    BY <2>1, SliceIsField
<1>. DEFINE amount == UInt(Field(imm12, 11, 8))
<1>2. Num(Slice(imm12, 11, 8)) = amount /\ amount \in 0..15
  <2>1. 8 + 3 = 11
    OBVIOUS
  <2>. QED
    BY <2>1, NibbleIsField
<1>. HIDE DEF amount
<1>3. amount * 2 = 2 * amount /\ 2 * amount \in 0..31
  BY <1>2
<1>4. ror(Slice(imm12, 7, 0), amount * 2) = ROR(Field(imm12, 7, 0), 2 * amount, 32)
  BY <1>1, <1>3, RotationsAgree
<1>. QED
  BY <1>2, <1>4 DEF decode_a32_imm, A32ExpandImm, amount

\* A byte in the bytes of a word: where FromBytes puts it, and where Replicate does.
LEMMA BytesOfWord ==
  ASSUME NEW x \in SUBSET (0..7)
  PROVE  /\ FromBytes(<<x>>) = x
         /\ FromBytes(<<x, None, x>>) = Replicate(x, 16, 32)
         /\ FromBytes(<<None, x, None, x>>) = Replicate(Shifted(x, 8), 16, 32)
         /\ FromBytes(<<x, x, x, x>>) = Replicate(x, 8, 32)
<1>1. \A b \in 0..31 : /\ b \div 8 = IF b < 8 THEN 0 ELSE IF b < 16 THEN 1
                                     ELSE IF b < 24 THEN 2 ELSE 3
                       /\ b % 8 = IF b < 8 THEN b ELSE IF b < 16 THEN b - 8
                                  ELSE IF b < 24 THEN b - 16 ELSE b - 24
                       /\ b % 16 = IF b < 16 THEN b ELSE b - 16
  OBVIOUS
<1>2. FromBytes(<<x>>) = x
  <2>1. 8 * Len(<<x>>) - 1 = 7 /\ <<x>>[1] = x
    OBVIOUS
  <2>2. FromBytes(<<x>>) = {b \in 0..7 : b % 8 \in <<x>>[b \div 8 + 1]}
    BY <2>1 DEF FromBytes, Low
  <2>3. \A b \in 0..7 : b % 8 = b /\ b \div 8 + 1 = 1
    BY <1>1
  <2>. QED
    BY <2>1, <2>2, <2>3
<1>3. FromBytes(<<x, None, x>>) = Replicate(x, 16, 32)
  <2>. DEFINE s == <<x, None, x>>
  <2>1. 8 * Len(s) - 1 = 23 /\ s[1] = x /\ s[2] = {} /\ s[3] = x
    BY DEF None
  <2>. HIDE DEF s
  <2>2. FromBytes(s) = {b \in 0..23 : b % 8 \in s[b \div 8 + 1]}
    BY <2>1 DEF FromBytes, Low
  <2>3. Replicate(x, 16, 32) = {b \in 0..31 : b % 16 \in x}
    BY DEF Replicate
  <2>4. \A b \in 0..31 : b % 16 \in x <=> b \in 0..23 /\ b % 8 \in s[b \div 8 + 1]
    BY <1>1, <2>1
  <2>5. FromBytes(s) = Replicate(x, 16, 32)
    BY <2>2, <2>3, <2>4
  <2>. QED
    BY <2>5 DEF s
<1>4. FromBytes(<<None, x, None, x>>) = Replicate(Shifted(x, 8), 16, 32)
  <2>. DEFINE s == <<None, x, None, x>>
              y == Shifted(x, 8)
  <2>1. 8 * Len(s) - 1 = 31 /\ s[1] = {} /\ s[2] = x /\ s[3] = {} /\ s[4] = x
    BY DEF None
  <2>. HIDE DEF s
  <2>2. FromBytes(s) = {b \in 0..31 : b % 8 \in s[b \div 8 + 1]}
    BY <2>1 DEF FromBytes, Low
  <2>3. \A n \in Int : n \in y <=> n - 8 \in x
    BY DEF Shifted
  <2>. HIDE DEF y
  <2>4. Replicate(y, 16, 32) = {b \in 0..31 : b % 16 \in y}
    BY DEF Replicate
  <2>5. \A b \in 0..31 : b % 16 \in y <=> b % 8 \in s[b \div 8 + 1]
    <3>. SUFFICES ASSUME NEW b \in 0..31
                  PROVE  b % 16 \in y <=> b % 8 \in s[b \div 8 + 1]
      OBVIOUS
    <3>1. \A c \in x : c \in 0..7
      OBVIOUS
    <3>2. CASE b < 8
      <4>1. (b % 16) - 8 = b - 8 /\ b \div 8 + 1 = 1 /\ b % 16 \in Int /\ b - 8 \notin x
        BY <1>1, <3>1, <3>2
      <4>. QED
        BY <4>1, <2>1, <2>3
    <3>3. CASE b >= 8 /\ b < 16
      <4>1. (b % 16) - 8 = b % 8 /\ b \div 8 + 1 = 2 /\ b % 16 \in Int
        BY <1>1, <3>3
      <4>. QED
        BY <4>1, <2>1, <2>3
    <3>4. CASE b >= 16 /\ b < 24
      <4>1. (b % 16) - 8 = b - 24 /\ b \div 8 + 1 = 3 /\ b % 16 \in Int /\ b - 24 \notin x
        BY <1>1, <3>1, <3>4
      <4>. QED
        BY <4>1, <2>1, <2>3
    <3>5. CASE b >= 24
      <4>1. (b % 16) - 8 = b % 8 /\ b \div 8 + 1 = 4 /\ b % 16 \in Int
        BY <1>1, <3>5
      <4>. QED
        BY <4>1, <2>1, <2>3
    <3>. QED
      BY <3>2, <3>3, <3>4, <3>5
  <2>6. FromBytes(s) = Replicate(y, 16, 32)
    BY <2>2, <2>4, <2>5
  <2>. QED
    BY <2>6 DEF s, y
<1>5. FromBytes(<<x, x, x, x>>) = Replicate(x, 8, 32)
  <2>. DEFINE s == <<x, x, x, x>>
  <2>1. 8 * Len(s) - 1 = 31 /\ s[1] = x /\ s[2] = x /\ s[3] = x /\ s[4] = x
    OBVIOUS
  <2>. HIDE DEF s
  <2>2. FromBytes(s) = {b \in 0..31 : b % 8 \in s[b \div 8 + 1]}
    BY <2>1 DEF FromBytes, Low
  <2>3. Replicate(x, 8, 32) = {b \in 0..31 : b % 8 \in x}
    BY DEF Replicate
  <2>4. \A b \in 0..31 : s[b \div 8 + 1] = x
    BY <1>1, <2>1
  <2>5. FromBytes(s) = Replicate(x, 8, 32)
    BY <2>2, <2>3, <2>4
  <2>. QED
    BY <2>5 DEF s
<1>. QED
  BY <1>2, <1>3, <1>4, <1>5

\* The value of two bits.
LEMMA TwoBitsType ==
  ASSUME NEW v \in SUBSET Low(2)
  PROVE  Num(v) \in 0..3
<1>. DEFINE P == 2 ^ 2
<1>1. Num(v) \in 0..P - 1 /\ P = 4
  BY NumBound, SmallPowers
<1>. HIDE DEF P
<1>. QED
  BY <1>1

\* decode_t32_imm is the manual's T32ExpandImm, for every twelve bits: the byte patterns
\* and the rotated value with its leading one.
THEOREM T32ImmediateIsManual ==
  ASSUME NEW imm12 \in SUBSET Low(12)
  PROVE  decode_t32_imm(imm12) = T32ExpandImm(imm12)
<1>. DEFINE imm8 == Slice(imm12, 7, 0)
            top  == Slice(imm12, 9, 8)
            turn == Slice(imm12, 11, 7)
            rest == Slice(imm12, 6, 0)
            form == Num(top)
<1>1. /\ imm8 = Field(imm12, 7, 0) /\ imm8 \in SUBSET (0..7)
      /\ top = Field(imm12, 9, 8)  /\ top \in SUBSET (0..1)
      /\ turn = Field(imm12, 11, 7) /\ turn \in SUBSET (0..4)
      /\ rest = Field(imm12, 6, 0) /\ rest \in SUBSET (0..6)
  <2>1. 7 - 0 = 7 /\ 9 - 8 = 1 /\ 11 - 7 = 4 /\ 6 - 0 = 6
    OBVIOUS
  <2>. QED
    BY <2>1, SliceIsField
<1>2. imm12 \cap {10, 11} # {} <=> Field(imm12, 11, 10) # {}
  <2>1. 10..11 = {10, 11}
    OBVIOUS
  <2>. QED
    BY <2>1 DEF Field
<1>. HIDE DEF imm8, top, turn, rest
<1>3. /\ top \in SUBSET Low(2) /\ top \cap Low(31) = top
      /\ turn \in SUBSET Low(5) /\ turn \cap Low(31) = turn
  BY <1>1 DEF Low
<1>4. /\ form = UInt(top) /\ form \in 0..3
      /\ Num(turn) = UInt(turn) /\ Num(turn) \in 0..31
  BY <1>3, UIntIsNum, TwoBitsType, FiveBitsType
<1>5. ror(rest \union {7}, Num(turn)) = ROR(rest \union {7}, UInt(turn), 32)
  <2>1. rest \union {7} \in SUBSET (0..31)
    BY <1>1
  <2>. QED
    BY <2>1, <1>4, RotationsAgree
<1>. HIDE DEF form
<1>. DEFINE patterns == <<<<imm8>>, <<imm8, None, imm8>>, <<None, imm8, None, imm8>>,
                          <<imm8, imm8, imm8, imm8>>>>
            high == Field(imm12, 11, 10) # {}
<1>6. decode_t32_imm(imm12) = IF high THEN ror(rest \union {7}, Num(turn))
                              ELSE FromBytes(patterns[form + 1])
  BY <1>2 DEF decode_t32_imm, imm8, rest, turn, form, top
<1>7. T32ExpandImm(imm12) =
        CASE high                -> ROR(rest \union {7}, UInt(turn), 32)
          [] ~ high /\ form = 0 -> imm8
          [] ~ high /\ form = 1 -> Replicate(imm8, 16, 32)
          [] ~ high /\ form = 2 -> Replicate(Shifted(imm8, 8), 16, 32)
          [] ~ high /\ form = 3 -> Replicate(imm8, 8, 32)
  BY <1>1, <1>4 DEF T32ExpandImm
<1>8. CASE high
  BY <1>5, <1>6, <1>7, <1>8
<1>9. CASE ~ high
  <2>1. /\ form = 0 => patterns[form + 1] = <<imm8>>
        /\ form = 1 => patterns[form + 1] = <<imm8, None, imm8>>
        /\ form = 2 => patterns[form + 1] = <<None, imm8, None, imm8>>
        /\ form = 3 => patterns[form + 1] = <<imm8, imm8, imm8, imm8>>
    OBVIOUS
  <2>2. form = 0 \/ form = 1 \/ form = 2 \/ form = 3
    BY <1>4
  <2>. HIDE DEF patterns, high
  <2>3. decode_t32_imm(imm12) = FromBytes(patterns[form + 1])
    BY <1>6, <1>9
  <2>4. /\ form = 0 => T32ExpandImm(imm12) = imm8
        /\ form = 1 => T32ExpandImm(imm12) = Replicate(imm8, 16, 32)
        /\ form = 2 => T32ExpandImm(imm12) = Replicate(Shifted(imm8, 8), 16, 32)
        /\ form = 3 => T32ExpandImm(imm12) = Replicate(imm8, 8, 32)
    BY <1>7, <1>9
  <2>. QED
    BY <1>1, <2>1, <2>2, <2>3, <2>4, BytesOfWord
<1>. QED
  BY <1>8, <1>9
-----------------------------------------------------------------------------
(* The floating-point immediates.                                          *)

\* The powers a byte is made of.
LEMMA BytePowers == 2 ^ 5 = 32 /\ 2 ^ 6 = 64 /\ 2 ^ 7 = 128 /\ 2 ^ 8 = 256
<1>1. /\ 2 ^ (4 + 1) = 2 * 2 ^ 4 /\ 2 ^ (5 + 1) = 2 * 2 ^ 5
      /\ 2 ^ (6 + 1) = 2 * 2 ^ 6 /\ 2 ^ (7 + 1) = 2 * 2 ^ 7
  BY PowerStep
<1>2. 4 + 1 = 5 /\ 5 + 1 = 6 /\ 6 + 1 = 7 /\ 7 + 1 = 8
  OBVIOUS
<1>3. 2 ^ 5 = 32
  BY <1>1, <1>2, SmallPowers
<1>4. 2 ^ 6 = 64
  BY <1>3, <1>1, <1>2
<1>5. 2 ^ 7 = 128
  BY <1>4, <1>1, <1>2
<1>6. 2 ^ 8 = 256
  BY <1>5, <1>1, <1>2
<1>. QED
  BY <1>3, <1>4, <1>5, <1>6

\* What bit n of a word adds to its value, when the bit weighs `weight'.
Weighs(v, n, weight) == IF n \in v THEN weight ELSE 0

\* The value of a byte, bit by bit.
LEMMA ByteValue ==
  ASSUME NEW v \in SUBSET Low(8)
  PROVE  Num(v) = Weighs(v, 7, 128) + Weighs(v, 6, 64) + Weighs(v, 5, 32)
                    + Weighs(v, 4, 16) + Weighs(v, 3, 8) + Weighs(v, 2, 4)
                    + Weighs(v, 1, 2) + Weighs(v, 0, 1)
<1>. DEFINE Top(n) == v \cap Low(n)
<1>1. \A n \in 0..8 : Top(n) \in FiniteWords /\ Num(Top(n)) \in Nat
  <2>. SUFFICES ASSUME NEW n \in 0..8
                PROVE  Top(n) \in FiniteWords /\ Num(Top(n)) \in Nat
    OBVIOUS
  <2>1. Top(n) \in SUBSET Low(n)
    OBVIOUS
  <2>. QED
    BY <2>1, LowWord, NumType
<1>2. ASSUME NEW n \in 0..7
      PROVE  Num(Top(n + 1)) = (IF n \in v THEN 2 ^ n ELSE 0) + Num(Top(n))
  <2>1. n + 1 \in 0..8
    OBVIOUS
  <2>2. Top(n + 1) \ {n} = Top(n) /\ (n \in Top(n + 1) <=> n \in v)
    BY DEF Low
  <2>. HIDE DEF Top
  <2>3. Top(n + 1) \in FiniteWords
    BY <1>1, <2>1
  <2>4. Num(Top(n + 1)) = (IF n \in Top(n + 1) THEN 2 ^ n ELSE 0) + Num(Top(n + 1) \ {n})
    BY <2>3, NumBit
  <2>5. n \in Top(n + 1) <=> n \in v
    BY <2>2
  <2>6. Num(Top(n + 1) \ {n}) = Num(Top(n))
    BY <2>2
  <2>. QED
    BY <2>4, <2>5, <2>6
<1>3. Top(8) = v /\ Top(0) = {}
  <2>1. Low(0) = {}
    BY DEF Low
  <2>. QED
    BY <2>1
<1>4. Num(Top(0)) = 0
  <2>1. 0 \in 0..8
    OBVIOUS
  <2>. HIDE DEF Top
  <2>. QED
    BY <1>1, <1>3, <2>1, NumFirst
<1>5. /\ Num(Top(0 + 1)) = Weighs(v, 0, 1) + Num(Top(0))
      /\ Num(Top(1 + 1)) = Weighs(v, 1, 2) + Num(Top(1))
      /\ Num(Top(2 + 1)) = Weighs(v, 2, 4) + Num(Top(2))
      /\ Num(Top(3 + 1)) = Weighs(v, 3, 8) + Num(Top(3))
  BY <1>2, SmallPowers DEF Weighs
<1>6. /\ Num(Top(4 + 1)) = Weighs(v, 4, 16) + Num(Top(4))
      /\ Num(Top(5 + 1)) = Weighs(v, 5, 32) + Num(Top(5))
      /\ Num(Top(6 + 1)) = Weighs(v, 6, 64) + Num(Top(6))
      /\ Num(Top(7 + 1)) = Weighs(v, 7, 128) + Num(Top(7))
  BY <1>2, SmallPowers, BytePowers DEF Weighs
<1>7. /\ Weighs(v, 7, 128) \in Nat /\ Weighs(v, 6, 64) \in Nat
      /\ Weighs(v, 5, 32) \in Nat /\ Weighs(v, 4, 16) \in Nat
      /\ Weighs(v, 3, 8) \in Nat /\ Weighs(v, 2, 4) \in Nat
      /\ Weighs(v, 1, 2) \in Nat /\ Weighs(v, 0, 1) \in Nat
  BY DEF Weighs
<1>8. /\ 0 + 1 = 1 /\ 1 + 1 = 2 /\ 2 + 1 = 3 /\ 3 + 1 = 4 /\ 4 + 1 = 5 /\ 5 + 1 = 6
      /\ 6 + 1 = 7 /\ 7 + 1 = 8
  OBVIOUS
<1>. HIDE DEF Top
<1>9. /\ Num(Top(1)) = Weighs(v, 0, 1) + Num(Top(0))
      /\ Num(Top(2)) = Weighs(v, 1, 2) + Num(Top(1))
      /\ Num(Top(3)) = Weighs(v, 2, 4) + Num(Top(2))
      /\ Num(Top(4)) = Weighs(v, 3, 8) + Num(Top(3))
      /\ Num(Top(5)) = Weighs(v, 4, 16) + Num(Top(4))
      /\ Num(Top(6)) = Weighs(v, 5, 32) + Num(Top(5))
      /\ Num(Top(7)) = Weighs(v, 6, 64) + Num(Top(6))
      /\ Num(Top(8)) = Weighs(v, 7, 128) + Num(Top(7))
  BY <1>5, <1>6, <1>8
<1>. QED
  BY <1>3, <1>4, <1>7, <1>9

\* A byte is its sign, the next bit, two bits of an exponent and four of a fraction.
LEMMA ByteFields ==
  ASSUME NEW v \in SUBSET Low(8)
  PROVE  /\ Num(v) = Weighs(v, 7, 128) + Weighs(v, 6, 64)
                       + 16 * UInt(Field(v, 5, 4)) + UInt(Field(v, 3, 0))
         /\ UInt(Field(v, 5, 4)) \in 0..3
         /\ UInt(Field(v, 3, 0)) \in 0..15
<1>. DEFINE two  == Field(v, 5, 4)
            four == Field(v, 3, 0)
<1>1. two = {b \in 0..1 : b + 4 \in v} /\ four = {b \in 0..3 : b \in v}
  <2>1. /\ two = {b \in 0..5 - 4 : b + 4 \in v}
        /\ four = {b \in 0..3 - 0 : b + 0 \in v}
    BY SliceIsField DEF Slice
  <2>. QED
    BY <2>1
<1>. HIDE DEF two, four
<1>2. /\ two \in SUBSET Low(2) /\ two \in SUBSET Low(8) /\ two \cap Low(31) = two
      /\ four \in SUBSET Low(4) /\ four \in SUBSET Low(8) /\ four \cap Low(31) = four
  BY <1>1 DEF Low
<1>3. UInt(two) = Num(two) /\ UInt(four) = Num(four)
  BY <1>2, UIntIsNum
<1>4. Num(two) = Weighs(v, 5, 2) + Weighs(v, 4, 1)
  <2>1. /\ \A n \in 2..7, w \in Nat : Weighs(two, n, w) = 0
        /\ Weighs(two, 1, 2) = Weighs(v, 5, 2) /\ Weighs(two, 0, 1) = Weighs(v, 4, 1)
    BY <1>1 DEF Weighs
  <2>2. Weighs(v, 5, 2) \in Nat /\ Weighs(v, 4, 1) \in Nat
    BY DEF Weighs
  <2>3. Num(two) = Weighs(two, 7, 128) + Weighs(two, 6, 64) + Weighs(two, 5, 32)
                     + Weighs(two, 4, 16) + Weighs(two, 3, 8) + Weighs(two, 2, 4)
                     + Weighs(two, 1, 2) + Weighs(two, 0, 1)
    BY <1>2, ByteValue
  <2>4. /\ Weighs(two, 7, 128) = 0 /\ Weighs(two, 6, 64) = 0 /\ Weighs(two, 5, 32) = 0
        /\ Weighs(two, 4, 16) = 0 /\ Weighs(two, 3, 8) = 0 /\ Weighs(two, 2, 4) = 0
    BY <2>1
  <2>. QED
    BY <2>1, <2>2, <2>3, <2>4
<1>5. Num(four) = Weighs(v, 3, 8) + Weighs(v, 2, 4) + Weighs(v, 1, 2) + Weighs(v, 0, 1)
  <2>1. /\ \A n \in 4..7, w \in Nat : Weighs(four, n, w) = 0
        /\ Weighs(four, 3, 8) = Weighs(v, 3, 8) /\ Weighs(four, 2, 4) = Weighs(v, 2, 4)
        /\ Weighs(four, 1, 2) = Weighs(v, 1, 2) /\ Weighs(four, 0, 1) = Weighs(v, 0, 1)
    BY <1>1 DEF Weighs
  <2>2. /\ Weighs(v, 3, 8) \in Nat /\ Weighs(v, 2, 4) \in Nat
        /\ Weighs(v, 1, 2) \in Nat /\ Weighs(v, 0, 1) \in Nat
    BY DEF Weighs
  <2>3. Num(four) = Weighs(four, 7, 128) + Weighs(four, 6, 64) + Weighs(four, 5, 32)
                      + Weighs(four, 4, 16) + Weighs(four, 3, 8) + Weighs(four, 2, 4)
                      + Weighs(four, 1, 2) + Weighs(four, 0, 1)
    BY <1>2, ByteValue
  <2>4. /\ Weighs(four, 7, 128) = 0 /\ Weighs(four, 6, 64) = 0
        /\ Weighs(four, 5, 32) = 0 /\ Weighs(four, 4, 16) = 0
    BY <2>1
  <2>. QED
    BY <2>1, <2>2, <2>3, <2>4
<1>6. Num(two) \in 0..3 /\ Num(four) \in 0..15
  BY <1>4, <1>5 DEF Weighs
<1>7. 16 * Num(two) = Weighs(v, 5, 32) + Weighs(v, 4, 16)
  BY <1>4 DEF Weighs
<1>8. /\ Weighs(v, 7, 128) \in Nat /\ Weighs(v, 6, 64) \in Nat
      /\ Weighs(v, 5, 32) \in Nat /\ Weighs(v, 4, 16) \in Nat
  BY DEF Weighs
<1>9. Num(v) = Weighs(v, 7, 128) + Weighs(v, 6, 64) + Weighs(v, 5, 32)
                 + Weighs(v, 4, 16) + Weighs(v, 3, 8) + Weighs(v, 2, 4)
                 + Weighs(v, 1, 2) + Weighs(v, 0, 1)
  BY ByteValue
<1>10. Num(v) = Weighs(v, 7, 128) + Weighs(v, 6, 64) + 16 * Num(two) + Num(four)
  <2>1. /\ Weighs(v, 3, 8) \in Nat /\ Weighs(v, 2, 4) \in Nat
        /\ Weighs(v, 1, 2) \in Nat /\ Weighs(v, 0, 1) \in Nat
    BY DEF Weighs
  <2>. QED
    BY <1>5, <1>7, <1>8, <1>9, <2>1
<1>. QED
  BY <1>3, <1>6, <1>10 DEF two, four

\* decode_vfp_imm is the manual's VFPExpandImm, for every byte: the table agrees with
\* sign, exponent and fraction put together.
THEOREM VfpImmediateIsManual ==
  ASSUME NEW imm8 \in SUBSET Low(8)
  PROVE  decode_vfp_imm(Num(imm8)) = [ok |-> TRUE, imm |-> VFPExpandImm(imm8)]
<1>. DEFINE n    == Num(imm8)
            sign == Weighs(imm8, 7, 128)
            next == Weighs(imm8, 6, 64)
            two  == UInt(Field(imm8, 5, 4))
            four == UInt(Field(imm8, 3, 0))
<1>1. /\ n = sign + next + 16 * two + four
      /\ sign \in {0, 128} /\ next \in {0, 64} /\ two \in 0..3 /\ four \in 0..15
      /\ 7 \in imm8 <=> sign = 128
      /\ 6 \in imm8 <=> next = 64
  BY ByteFields DEF Weighs
<1>. DEFINE exponent == (IF 6 \in imm8 THEN -3 ELSE 1) + two
            scaled   == (16 + four) * 2 ^ (exponent + 3)
<1>2. VFPExpandImm(imm8) = IF 7 \in imm8 THEN -scaled ELSE scaled
  BY DEF VFPExpandImm
<1>. HIDE DEF n, sign, next, two, four
<1>3. n \in 0..255 /\ n % 256 = n /\ n % 128 = next + 16 * two + four /\ n % 16 = four
  BY <1>1
<1>4. (n % 128) \div 16 + 1 = IF next = 64 THEN two + 5 ELSE two + 1
  BY <1>1, <1>3
<1>. DEFINE row == VfpRows[(n % 128) \div 16 + 1]
<1>5. row \div 16 = 2 ^ (exponent + 3)
  <2>1. /\ VfpRows[1] = 256 /\ VfpRows[2] = 512 /\ VfpRows[3] = 1024 /\ VfpRows[4] = 2048
        /\ VfpRows[5] = 16 /\ VfpRows[6] = 32 /\ VfpRows[7] = 64 /\ VfpRows[8] = 128
    BY DEF VfpRows
  <2>2. exponent + 3 = IF next = 64 THEN two ELSE two + 4
    BY <1>1
  <2>. HIDE DEF exponent
  <2>3. CASE next = 64
    <3>1. exponent + 3 = two /\ row = VfpRows[two + 5]
      BY <2>2, <2>3, <1>4
    <3>. HIDE DEF row
    <3>2. CASE two = 0
      <4>1. row = 16 /\ exponent + 3 = 0
        BY <3>1, <3>2, <2>1
      <4>2. row \div 16 = 1
        BY <4>1
      <4>3. 2 ^ 0 = 1
        BY SmallPowers
      <4>4. 2 ^ (exponent + 3) = 2 ^ 0
        BY <4>1
      <4>. QED
        BY <4>2, <4>3, <4>4
    <3>3. CASE two = 1
      <4>1. row = 32 /\ exponent + 3 = 1
        BY <3>1, <3>3, <2>1
      <4>2. row \div 16 = 2
        BY <4>1
      <4>3. 2 ^ 1 = 2
        BY SmallPowers
      <4>4. 2 ^ (exponent + 3) = 2 ^ 1
        BY <4>1
      <4>. QED
        BY <4>2, <4>3, <4>4
    <3>4. CASE two = 2
      <4>1. row = 64 /\ exponent + 3 = 2
        BY <3>1, <3>4, <2>1
      <4>2. row \div 16 = 4
        BY <4>1
      <4>3. 2 ^ 2 = 4
        BY SmallPowers
      <4>4. 2 ^ (exponent + 3) = 2 ^ 2
        BY <4>1
      <4>. QED
        BY <4>2, <4>3, <4>4
    <3>5. CASE two = 3
      <4>1. row = 128 /\ exponent + 3 = 3
        BY <3>1, <3>5, <2>1
      <4>2. row \div 16 = 8
        BY <4>1
      <4>3. 2 ^ 3 = 8
        BY SmallPowers
      <4>4. 2 ^ (exponent + 3) = 2 ^ 3
        BY <4>1
      <4>. QED
        BY <4>2, <4>3, <4>4
    <3>. QED
      BY <1>1, <3>2, <3>3, <3>4, <3>5
  <2>4. CASE next # 64
    <3>1. exponent + 3 = two + 4 /\ row = VfpRows[two + 1]
      BY <2>2, <2>4, <1>4
    <3>. HIDE DEF row
    <3>2. CASE two = 0
      <4>1. row = 256 /\ exponent + 3 = 4
        BY <3>1, <3>2, <2>1
      <4>2. row \div 16 = 16
        BY <4>1
      <4>3. 2 ^ 4 = 16
        BY SmallPowers
      <4>4. 2 ^ (exponent + 3) = 2 ^ 4
        BY <4>1
      <4>. QED
        BY <4>2, <4>3, <4>4
    <3>3. CASE two = 1
      <4>1. row = 512 /\ exponent + 3 = 5
        BY <3>1, <3>3, <2>1
      <4>2. row \div 16 = 32
        BY <4>1
      <4>3. 2 ^ 5 = 32
        BY BytePowers
      <4>4. 2 ^ (exponent + 3) = 2 ^ 5
        BY <4>1
      <4>. QED
        BY <4>2, <4>3, <4>4
    <3>4. CASE two = 2
      <4>1. row = 1024 /\ exponent + 3 = 6
        BY <3>1, <3>4, <2>1
      <4>2. row \div 16 = 64
        BY <4>1
      <4>3. 2 ^ 6 = 64
        BY BytePowers
      <4>4. 2 ^ (exponent + 3) = 2 ^ 6
        BY <4>1
      <4>. QED
        BY <4>2, <4>3, <4>4
    <3>5. CASE two = 3
      <4>1. row = 2048 /\ exponent + 3 = 7
        BY <3>1, <3>5, <2>1
      <4>2. row \div 16 = 128
        BY <4>1
      <4>3. 2 ^ 7 = 128
        BY BytePowers
      <4>4. 2 ^ (exponent + 3) = 2 ^ 7
        BY <4>1
      <4>. QED
        BY <4>2, <4>3, <4>4
    <3>. QED
      BY <1>1, <3>2, <3>3, <3>4, <3>5
  <2>. QED
    BY <2>3, <2>4
<1>6. 2 ^ (exponent + 3) \in Nat
  <2>1. exponent + 3 \in Nat
    BY <1>1
  <2>. HIDE DEF exponent
  <2>. QED
    BY <2>1, PowerType
<1>7. vfpimm_table(n) = IF n < 128 THEN (row \div 16) * (16 + four)
                        ELSE -((row \div 16) * (16 + four))
  BY <1>3 DEF vfpimm_table
<1>8. (row \div 16) * (16 + four) = scaled
  <2>. DEFINE power == 2 ^ (exponent + 3)
  <2>1. power \in Nat /\ row \div 16 = power /\ 16 + four \in Nat
    BY <1>1, <1>5, <1>6
  <2>. HIDE DEF power, row
  <2>2. (row \div 16) * (16 + four) = (16 + four) * power
    BY <2>1
  <2>. QED
    BY <2>2 DEF power
<1>9. n < 128 <=> ~ 7 \in imm8
  BY <1>1
<1>. HIDE DEF scaled, row
<1>10. vfpimm_table(n) = VFPExpandImm(imm8)
  BY <1>2, <1>7, <1>8, <1>9
<1>11. decode_vfp_imm(n) = [ok |-> n < 256, imm |-> vfpimm_table(n)]
  BY <1>3 DEF decode_vfp_imm
<1>12. n < 256
  BY <1>3
<1>. QED
  BY <1>10, <1>11, <1>12 DEF n
-----------------------------------------------------------------------------
(* The vector immediates.                                                  *)

\* The bits of four bytes beside each other.
FourBytes(p, q, r, t) == p \union Shifted(q, 8) \union Shifted(r, 16) \union Shifted(t, 24)

\* A byte, moved up.
LEMMA ShiftedByte ==
  ASSUME NEW x \in SUBSET (0..7), NEW n \in Nat, NEW last, last = n + 7
  PROVE  /\ Shifted(x, n) \in SUBSET (n..last)
         /\ \A b \in Int : b \in Shifted(x, n) <=> b - n \in x
<1>1. \A c \in x : c + n \in n..last
  OBVIOUS
<1>2. Shifted(x, n) \in SUBSET (n..last)
  BY <1>1 DEF Shifted
<1>3. ASSUME NEW b \in Int
      PROVE  b \in Shifted(x, n) <=> b - n \in x
  <2>1. ASSUME b \in Shifted(x, n)
        PROVE  b - n \in x
    <3>1. PICK c \in x : b = c + n
      BY <2>1 DEF Shifted
    <3>2. c \in Int /\ b - n = c
      BY <3>1
    <3>. QED
      BY <3>2
  <2>2. ASSUME b - n \in x
        PROVE  b \in Shifted(x, n)
    <3>1. b = (b - n) + n
      OBVIOUS
    <3>. QED
      BY <2>2, <3>1 DEF Shifted
  <2>. QED
    BY <2>1, <2>2
<1>. QED
  BY <1>2, <1>3

\* A byte in the second, third or fourth place.
LEMMA ByteAt ==
  ASSUME NEW x \in SUBSET (0..7)
  PROVE  /\ Shifted(x, 8) \in SUBSET (8..15)
         /\ Shifted(x, 16) \in SUBSET (16..23)
         /\ Shifted(x, 24) \in SUBSET (24..31)
         /\ \A b \in Int : /\ b \in Shifted(x, 8) <=> b - 8 \in x
                           /\ b \in Shifted(x, 16) <=> b - 16 \in x
                           /\ b \in Shifted(x, 24) <=> b - 24 \in x
<1>1. /\ Shifted(x, 8) \in SUBSET (8..15)
      /\ \A b \in Int : b \in Shifted(x, 8) <=> b - 8 \in x
  <2>1. 8 \in Nat /\ 15 = 8 + 7
    OBVIOUS
  <2>. QED
    BY <2>1, ShiftedByte, Zenon
<1>2. /\ Shifted(x, 16) \in SUBSET (16..23)
      /\ \A b \in Int : b \in Shifted(x, 16) <=> b - 16 \in x
  <2>1. 16 \in Nat /\ 23 = 16 + 7
    OBVIOUS
  <2>. QED
    BY <2>1, ShiftedByte, Zenon
<1>3. /\ Shifted(x, 24) \in SUBSET (24..31)
      /\ \A b \in Int : b \in Shifted(x, 24) <=> b - 24 \in x
  <2>1. 24 \in Nat /\ 31 = 24 + 7
    OBVIOUS
  <2>. QED
    BY <2>1, ShiftedByte, Zenon
<1>. QED
  BY <1>1, <1>2, <1>3

\* Four bytes, one by one.
LEMMA FourMembers ==
  ASSUME NEW s, NEW S, s[1] \in S, s[2] \in S, s[3] \in S, s[4] \in S
  PROVE  \A i \in 1..4 : s[i] \in S
<1>1. \A i \in 1..4 : i = 1 \/ i = 2 \/ i = 3 \/ i = 4
  OBVIOUS
<1>. QED
  BY <1>1

\* The lowest 32 bits of an immediate of at least four bytes are those bytes, and the lowest
\* 16 bits the first two.
LEMMA LowestBytes ==
  ASSUME NEW s, Len(s) \in Nat, Len(s) >= 4, \A i \in 1..4 : s[i] \in SUBSET (0..7)
  PROVE  /\ FromBytes(s) \cap Low(32) = FourBytes(s[1], s[2], s[3], s[4])
         /\ FromBytes(s) \cap Low(16) = s[1] \union Shifted(s[2], 8)
<1>. DEFINE all == FourBytes(s[1], s[2], s[3], s[4])
<1>1. \A b \in 0..31 : /\ b \div 8 = IF b < 8 THEN 0 ELSE IF b < 16 THEN 1
                                     ELSE IF b < 24 THEN 2 ELSE 3
                       /\ b % 8 = IF b < 8 THEN b ELSE IF b < 16 THEN b - 8
                                  ELSE IF b < 24 THEN b - 16 ELSE b - 24
  OBVIOUS
<1>2. \A b \in 0..31 : b \in FromBytes(s) <=> b % 8 \in s[b \div 8 + 1]
  BY DEF FromBytes, Low
<1>3. s[1] \in SUBSET (0..7) /\ s[2] \in SUBSET (0..7) /\ s[3] \in SUBSET (0..7)
      /\ s[4] \in SUBSET (0..7)
  OBVIOUS
<1>4. /\ Shifted(s[2], 8) \in SUBSET (8..15) /\ Shifted(s[3], 16) \in SUBSET (16..23)
      /\ Shifted(s[4], 24) \in SUBSET (24..31)
      /\ \A b \in Int : /\ b \in Shifted(s[2], 8) <=> b - 8 \in s[2]
                        /\ b \in Shifted(s[3], 16) <=> b - 16 \in s[3]
                        /\ b \in Shifted(s[4], 24) <=> b - 24 \in s[4]
  <2>. HIDE DEF all
  <2>. QED
    BY <1>3, ByteAt
<1>5. all = s[1] \union Shifted(s[2], 8) \union Shifted(s[3], 16) \union Shifted(s[4], 24)
  BY DEF FourBytes
<1>. HIDE DEF all
<1>6. all \in SUBSET (0..31) /\ s[1] \union Shifted(s[2], 8) \in SUBSET (0..15)
  <2>1. ASSUME NEW b \in all
        PROVE  b \in 0..31
    <3>1. CASE b \in s[1]
      <4>1. b \in 0..7
        BY <1>3, <3>1
      <4>. QED
        BY <4>1
    <3>2. CASE b \in Shifted(s[2], 8)
      BY <1>4, <3>2
    <3>3. CASE b \in Shifted(s[3], 16)
      BY <1>4, <3>3
    <3>4. CASE b \in Shifted(s[4], 24)
      BY <1>4, <3>4
    <3>. QED
      BY <1>5, <3>1, <3>2, <3>3, <3>4
  <2>2. ASSUME NEW b \in s[1] \union Shifted(s[2], 8)
        PROVE  b \in 0..15
    <3>1. CASE b \in s[1]
      BY <1>3, <3>1
    <3>2. CASE b \in Shifted(s[2], 8)
      BY <1>4, <3>2
    <3>. QED
      BY <3>1, <3>2
  <2>. QED
    BY <2>1, <2>2
<1>7. ASSUME NEW b \in 0..31
      PROVE  /\ b \in all <=> b % 8 \in s[b \div 8 + 1]
             /\ b < 16 => (b \in s[1] \union Shifted(s[2], 8) <=> b % 8 \in s[b \div 8 + 1])
  <2>1. b \in all <=> b \in s[1] \/ b - 8 \in s[2] \/ b - 16 \in s[3] \/ b - 24 \in s[4]
    BY <1>4, <1>5
  <2>2. b \in Shifted(s[2], 8) <=> b - 8 \in s[2]
    BY <1>4
  <2>3. /\ b \in s[1] => b < 8
        /\ b - 8 \in s[2] => b >= 8 /\ b < 16
        /\ b - 16 \in s[3] => b >= 16 /\ b < 24
        /\ b - 24 \in s[4] => b >= 24
    BY <1>3
  <2>4. CASE b < 8
    <3>1. b % 8 = b /\ b \div 8 + 1 = 1
      BY <1>1, <2>4
    <3>2. b % 8 \in s[b \div 8 + 1] <=> b \in s[1]
      BY <3>1
    <3>3. b - 8 \notin s[2] /\ b - 16 \notin s[3] /\ b - 24 \notin s[4]
      BY <2>3, <2>4
    <3>. QED
      BY <2>1, <2>2, <3>2, <3>3, Zenon
  <2>5. CASE b >= 8 /\ b < 16
    <3>1. b % 8 = b - 8 /\ b \div 8 + 1 = 2
      BY <1>1, <2>5
    <3>2. b % 8 \in s[b \div 8 + 1] <=> b - 8 \in s[2]
      BY <3>1
    <3>3. b \notin s[1] /\ b - 16 \notin s[3] /\ b - 24 \notin s[4]
      BY <2>3, <2>5
    <3>. QED
      BY <2>1, <2>2, <3>2, <3>3, Zenon
  <2>6. CASE b >= 16 /\ b < 24
    <3>1. b % 8 = b - 16 /\ b \div 8 + 1 = 3
      BY <1>1, <2>6
    <3>2. b % 8 \in s[b \div 8 + 1] <=> b - 16 \in s[3]
      BY <3>1
    <3>3. b \notin s[1] /\ b - 8 \notin s[2] /\ b - 24 \notin s[4]
      BY <2>3, <2>6
    <3>4. ~ (b < 16)
      BY <2>6
    <3>. QED
      BY <2>1, <3>2, <3>3, <3>4, Zenon
  <2>7. CASE b >= 24
    <3>1. b % 8 = b - 24 /\ b \div 8 + 1 = 4
      BY <1>1, <2>7
    <3>2. b % 8 \in s[b \div 8 + 1] <=> b - 24 \in s[4]
      BY <3>1
    <3>3. b \notin s[1] /\ b - 8 \notin s[2] /\ b - 16 \notin s[3]
      BY <2>3, <2>7
    <3>4. ~ (b < 16)
      BY <2>7
    <3>. QED
      BY <2>1, <3>2, <3>3, <3>4, Zenon
  <2>. QED
    BY <2>4, <2>5, <2>6, <2>7
<1>8. FromBytes(s) \cap Low(32) = all
  <2>1. Low(32) = 0..31
    BY DEF Low
  <2>. QED
    BY <1>2, <1>6, <1>7, <2>1
<1>9. FromBytes(s) \cap Low(16) = s[1] \union Shifted(s[2], 8)
  <2>1. Low(16) = 0..15
    BY DEF Low
  <2>2. ASSUME NEW b \in 0..15
        PROVE  b \in FromBytes(s) <=> b \in s[1] \union Shifted(s[2], 8)
    <3>1. b \in 0..31 /\ b < 16
      OBVIOUS
    <3>. QED
      BY <1>2, <1>7, <3>1
  <2>. QED
    BY <1>6, <2>1, <2>2
<1>. QED
  BY <1>8, <1>9 DEF all

\* One lane of a replicated element is the element.
LEMMA LaneOfReplicate ==
  ASSUME NEW x
  PROVE  /\ x \in SUBSET (0..31) => Replicate(x, 32, 64) \cap Low(32) = x
         /\ x \in SUBSET (0..15) => Replicate(x, 16, 64) \cap Low(16) = x
<1>1. (\A b \in 0..31 : b % 32 = b) /\ (\A b \in 0..15 : b % 16 = b)
  OBVIOUS
<1>2. Low(32) = 0..31 /\ Low(16) = 0..15
  BY DEF Low
<1>. QED
  BY <1>1, <1>2 DEF Replicate

\* The lanes decode_advsimd_imm fills in are the manual's, as far as one lane goes.  The
\* pseudocode of AArch32 has no case for op 1 of cmode 15, which is a double of AArch64.
LEMMA AdvsimdLanesAreManual ==
  ASSUME NEW imm8 \in SUBSET Low(8), NEW op \in {0, 1}, NEW cmode \in 0..15,
         cmode = 15 => op = 0
  PROVE  AdvsimdLanes(op, cmode, imm8) =
           AdvSIMDExpandImm(op = 1, cmode, imm8) \cap Low(LaneBits(AdvsimdDatatype(op, cmode)))
<1>. DEFINE lane  == Low(LaneBits(AdvsimdDatatype(op, cmode)))
            group == cmode \div 2
            ours  == AdvsimdPattern(op, cmode, imm8)
            its   == AdvSIMDExpandImm(op = 1, cmode, imm8)
<1>1. /\ cmode \in 0..7 \union {12, 13, 15} => lane = Low(32)
      /\ cmode \in 8..11 => lane = Low(16)
      /\ cmode = 14 => lane \in SUBSET Low(64)
  <2>1. cmode \in 0..7 \union {12, 13} => AdvsimdDatatype(op, cmode) = "I32"
    BY DEF AdvsimdDatatype
  <2>2. cmode \in 8..11 => AdvsimdDatatype(op, cmode) = "I16"
    BY DEF AdvsimdDatatype
  <2>3. cmode = 15 => AdvsimdDatatype(op, cmode) = "F32"
    BY DEF AdvsimdDatatype
  <2>4. cmode = 14 => AdvsimdDatatype(op, cmode) \in {"I64", "I8"}
    BY DEF AdvsimdDatatype
  <2>5. /\ LaneBits("I32") = 32 /\ LaneBits("I16") = 16 /\ LaneBits("F32") = 32
        /\ LaneBits("I64") = 64 /\ LaneBits("I8") = 8
    BY DEF LaneBits
  <2>6. Low(8) \in SUBSET Low(64)
    BY DEF Low
  <2>. QED
    BY <2>1, <2>2, <2>3, <2>4, <2>5, <2>6
<1>2. imm8 \in SUBSET (0..7) /\ None \in SUBSET (0..7) /\ Saturated = 0..7
  BY DEF Low, None, Saturated
<1>3. \A n \in Nat : Shifted(None, n) = {}
  BY DEF Shifted, None
<1>4. /\ Shifted(imm8, 0) = imm8 /\ imm8 \in SUBSET (0..31) /\ imm8 \in SUBSET (0..15)
      /\ Shifted(imm8, 8) \in SUBSET (0..31) /\ Shifted(imm8, 8) \in SUBSET (0..15)
      /\ Shifted(imm8, 16) \in SUBSET (0..31) /\ Shifted(imm8, 24) \in SUBSET (0..31)
  <2>1. /\ Shifted(imm8, 8) \in SUBSET (8..15) /\ Shifted(imm8, 16) \in SUBSET (16..23)
        /\ Shifted(imm8, 24) \in SUBSET (24..31)
    BY <1>2, ByteAt
  <2>2. \A b \in Int : b - 0 = b
    OBVIOUS
  <2>3. /\ Shifted(imm8, 0) \in SUBSET (0..7)
        /\ \A b \in Int : b \in Shifted(imm8, 0) <=> b - 0 \in imm8
    <3>1. 0 \in Nat /\ 7 = 0 + 7
      OBVIOUS
    <3>. QED
      BY <1>2, <3>1, ShiftedByte, Zenon
  <2>4. Shifted(imm8, 0) = imm8
    <3>1. ASSUME NEW b \in Shifted(imm8, 0)
          PROVE  b \in imm8
      <4>1. b \in Int
        BY <2>3
      <4>. QED
        BY <2>2, <2>3, <4>1
    <3>2. ASSUME NEW b \in imm8
          PROVE  b \in Shifted(imm8, 0)
      <4>1. b \in Int
        BY <1>2
      <4>. QED
        BY <2>2, <2>3, <4>1
    <3>. QED
      BY <3>1, <3>2
  <2>. QED
    BY <1>2, <2>1, <2>4
<1>. HIDE DEF lane, ours, its
<1>5. CASE cmode \in 0..7
  <2>. DEFINE s == CASE cmode \in {0, 1} -> <<imm8, None, None, None, imm8>>
                     [] cmode \in {2, 3} -> <<None, imm8, None, None, None, imm8>>
                     [] cmode \in {4, 5} -> <<None, None, imm8, None, None, None, imm8>>
                     [] cmode \in {6, 7} ->
                          <<None, None, None, imm8, None, None, None, imm8>>
  <2>1. ours \cap lane = FourBytes(s[1], s[2], s[3], s[4])
    <3>1. ours = FromBytes(s)
      BY <1>5 DEF ours, AdvsimdPattern
    <3>2. Len(s) \in Nat /\ Len(s) >= 4 /\ \A i \in 1..4 : s[i] \in SUBSET (0..7)
      BY <1>2, <1>5
    <3>. HIDE DEF s
    <3>. QED
      BY <1>1, <1>5, <3>1, <3>2, LowestBytes
  <2>2. its \cap lane = Shifted(imm8, 8 * group)
    <3>1. group \in 0..3
      BY <1>5
    <3>2. its = Replicate(Shifted(imm8, 8 * group), 32, 64)
      BY <3>1 DEF its, AdvSIMDExpandImm
    <3>3. Shifted(imm8, 8 * group) \in SUBSET (0..31)
      BY <1>2, <3>1 DEF Shifted
    <3>. QED
      BY <1>1, <1>5, <3>2, <3>3, LaneOfReplicate
  <2>3. CASE cmode \in {0, 1}
    <3>1. 8 * group = 0
      BY <2>3
    <3>2. s[1] = imm8 /\ s[2] = None /\ s[3] = None /\ s[4] = None
      BY <2>3
    <3>. HIDE DEF s
    <3>3. FourBytes(s[1], s[2], s[3], s[4]) = imm8
      BY <3>2, <1>3 DEF FourBytes, None
    <3>. QED
      BY <2>1, <2>2, <3>1, <3>3, <1>4 DEF AdvsimdLanes, ours, its, lane
  <2>4. CASE cmode \in {2, 3}
    <3>1. 8 * group = 8
      BY <2>4
    <3>2. s[1] = None /\ s[2] = imm8 /\ s[3] = None /\ s[4] = None
      BY <2>4
    <3>. HIDE DEF s
    <3>3. FourBytes(s[1], s[2], s[3], s[4]) = Shifted(imm8, 8)
      BY <3>2, <1>3 DEF FourBytes, None
    <3>. QED
      BY <2>1, <2>2, <3>1, <3>3 DEF AdvsimdLanes, ours, its, lane
  <2>5. CASE cmode \in {4, 5}
    <3>1. 8 * group = 16
      BY <2>5
    <3>2. s[1] = None /\ s[2] = None /\ s[3] = imm8 /\ s[4] = None
      BY <2>5
    <3>. HIDE DEF s
    <3>3. FourBytes(s[1], s[2], s[3], s[4]) = Shifted(imm8, 16)
      BY <3>2, <1>3 DEF FourBytes, None
    <3>. QED
      BY <2>1, <2>2, <3>1, <3>3 DEF AdvsimdLanes, ours, its, lane
  <2>6. CASE cmode \in {6, 7}
    <3>1. 8 * group = 24
      BY <2>6
    <3>2. s[1] = None /\ s[2] = None /\ s[3] = None /\ s[4] = imm8
      BY <2>6
    <3>. HIDE DEF s
    <3>3. FourBytes(s[1], s[2], s[3], s[4]) = Shifted(imm8, 24)
      BY <3>2, <1>3 DEF FourBytes, None
    <3>. QED
      BY <2>1, <2>2, <3>1, <3>3 DEF AdvsimdLanes, ours, its, lane
  <2>. QED
    BY <1>5, <2>3, <2>4, <2>5, <2>6
<1>6. CASE cmode \in 8..11
  <2>. DEFINE s == IF cmode \in {8, 9} THEN <<imm8, None, imm8, None, imm8, None, imm8>>
                   ELSE <<None, imm8, None, imm8, None, imm8, None, imm8>>
  <2>1. ours \cap lane = s[1] \union Shifted(s[2], 8)
    <3>1. ours = FromBytes(s)
      BY <1>6 DEF ours, AdvsimdPattern
    <3>2. Len(s) \in Nat /\ Len(s) >= 4 /\ \A i \in 1..4 : s[i] \in SUBSET (0..7)
      <4>1. CASE cmode \in {8, 9}
        <5>1. Len(s) = 7 /\ s[1] = imm8 /\ s[2] = None /\ s[3] = imm8 /\ s[4] = None
          BY <4>1
        <5>. HIDE DEF s
        <5>2. \A i \in 1..4 : s[i] \in SUBSET (0..7)
          <6>1. /\ s[1] \in SUBSET (0..7) /\ s[2] \in SUBSET (0..7)
                /\ s[3] \in SUBSET (0..7) /\ s[4] \in SUBSET (0..7)
            BY <1>2, <5>1
          <6>. QED
            BY <6>1, FourMembers
        <5>. QED
          BY <5>1, <5>2
      <4>2. CASE cmode \notin {8, 9}
        <5>1. Len(s) = 8 /\ s[1] = None /\ s[2] = imm8 /\ s[3] = None /\ s[4] = imm8
          BY <4>2
        <5>. HIDE DEF s
        <5>2. \A i \in 1..4 : s[i] \in SUBSET (0..7)
          <6>1. /\ s[1] \in SUBSET (0..7) /\ s[2] \in SUBSET (0..7)
                /\ s[3] \in SUBSET (0..7) /\ s[4] \in SUBSET (0..7)
            BY <1>2, <5>1
          <6>. QED
            BY <6>1, FourMembers
        <5>. QED
          BY <5>1, <5>2
      <4>. QED
        BY <4>1, <4>2
    <3>. HIDE DEF s
    <3>. QED
      BY <1>1, <1>6, <3>1, <3>2, LowestBytes
  <2>2. its \cap lane = Shifted(imm8, 8 * (group - 4))
    <3>1. group \in 4..5
      BY <1>6
    <3>2. its = Replicate(Shifted(imm8, 8 * (group - 4)), 16, 64)
      BY <3>1 DEF its, AdvSIMDExpandImm
    <3>3. Shifted(imm8, 8 * (group - 4)) \in SUBSET (0..15)
      BY <1>2, <3>1 DEF Shifted
    <3>. QED
      BY <1>1, <1>6, <3>2, <3>3, LaneOfReplicate
  <2>3. CASE cmode \in {8, 9}
    <3>1. 8 * (group - 4) = 0 /\ s[1] = imm8 /\ s[2] = None
      BY <2>3
    <3>. HIDE DEF s
    <3>. QED
      BY <2>1, <2>2, <3>1, <1>3, <1>4 DEF AdvsimdLanes, ours, its, lane
  <2>4. CASE cmode \in {10, 11}
    <3>1. 8 * (group - 4) = 8 /\ s[1] = None /\ s[2] = imm8
      BY <2>4
    <3>. HIDE DEF s
    <3>. QED
      BY <2>1, <2>2, <3>1 DEF AdvsimdLanes, ours, its, lane, None
  <2>. QED
    BY <1>6, <2>3, <2>4
<1>7. CASE cmode \in {12, 13}
  <2>. DEFINE s == IF cmode = 12 THEN <<Saturated, imm8, None, None, Saturated, imm8>>
                   ELSE <<Saturated, Saturated, imm8, None, Saturated, Saturated, imm8>>
              x == IF cmode = 12 THEN Above(imm8, 0..7, 8) ELSE Above(imm8, 0..15, 16)
  <2>1. ours \cap lane = FourBytes(s[1], s[2], s[3], s[4])
    <3>1. ours = FromBytes(s)
      BY <1>7 DEF ours, AdvsimdPattern
    <3>2. Len(s) \in Nat /\ Len(s) >= 4 /\ \A i \in 1..4 : s[i] \in SUBSET (0..7)
      <4>1. CASE cmode = 12
        <5>1. Len(s) = 6 /\ s[1] = Saturated /\ s[2] = imm8 /\ s[3] = None /\ s[4] = None
          BY <4>1
        <5>. HIDE DEF s
        <5>2. \A i \in 1..4 : s[i] \in SUBSET (0..7)
          <6>1. /\ s[1] \in SUBSET (0..7) /\ s[2] \in SUBSET (0..7)
                /\ s[3] \in SUBSET (0..7) /\ s[4] \in SUBSET (0..7)
            BY <1>2, <5>1
          <6>. QED
            BY <6>1, FourMembers
        <5>. QED
          BY <5>1, <5>2
      <4>2. CASE cmode # 12
        <5>1. Len(s) = 7 /\ s[1] = Saturated /\ s[2] = Saturated /\ s[3] = imm8 /\ s[4] = None
          BY <4>2
        <5>. HIDE DEF s
        <5>2. \A i \in 1..4 : s[i] \in SUBSET (0..7)
          <6>1. /\ s[1] \in SUBSET (0..7) /\ s[2] \in SUBSET (0..7)
                /\ s[3] \in SUBSET (0..7) /\ s[4] \in SUBSET (0..7)
            BY <1>2, <5>1
          <6>. QED
            BY <6>1, FourMembers
        <5>. QED
          BY <5>1, <5>2
      <4>. QED
        BY <4>1, <4>2
    <3>. HIDE DEF s
    <3>. QED
      BY <1>1, <1>7, <3>1, <3>2, LowestBytes
  <2>2. its \cap lane = x
    <3>1. ~ group \in 0..3 /\ ~ group \in 4..5
      BY <1>7
    <3>2. its = Replicate(x, 32, 64)
      BY <1>7, <3>1 DEF its, AdvSIMDExpandImm
    <3>3. x \in SUBSET (0..31)
      BY <1>2 DEF Above
    <3>. HIDE DEF x
    <3>. QED
      BY <1>1, <1>7, <3>2, <3>3, LaneOfReplicate
  <2>3. CASE cmode = 12
    <3>1. s[1] = 0..7 /\ s[2] = imm8 /\ s[3] = None /\ s[4] = None
      BY <2>3, <1>2
    <3>2. x = 0..7 \union Shifted(imm8, 8)
      BY <2>3 DEF Above, Shifted
    <3>. HIDE DEF s, x
    <3>3. FourBytes(s[1], s[2], s[3], s[4]) = 0..7 \union Shifted(imm8, 8)
      BY <3>1, <1>3 DEF FourBytes
    <3>. QED
      BY <2>1, <2>2, <3>2, <3>3 DEF AdvsimdLanes, ours, its, lane
  <2>4. CASE cmode = 13
    <3>1. s[1] = 0..7 /\ s[2] = 0..7 /\ s[3] = imm8 /\ s[4] = None
      BY <2>4, <1>2
    <3>2. x = 0..15 \union Shifted(imm8, 16)
      BY <2>4 DEF Above, Shifted
    <3>. HIDE DEF s, x
    <3>3. 0..15 = 0..7 \union Shifted(0..7, 8)
      <4>1. \A b \in 8..15 : b - 8 \in 0..7 /\ b = (b - 8) + 8
        OBVIOUS
      <4>. QED
        BY <4>1 DEF Shifted
    <3>4. FourBytes(s[1], s[2], s[3], s[4]) = 0..15 \union Shifted(imm8, 16)
      BY <3>1, <3>3, <1>3 DEF FourBytes
    <3>. QED
      BY <2>1, <2>2, <3>2, <3>4 DEF AdvsimdLanes, ours, its, lane
  <2>. QED
    BY <1>7, <2>3, <2>4
<1>8. CASE cmode = 14
  <2>1. ~ group \in 0..3 /\ ~ group \in 4..5
    BY <1>8
  <2>2. its = IF op = 1 THEN UNION {8 * i..8 * i + 7 : i \in imm8} ELSE Replicate(imm8, 8, 64)
    BY <1>8, <2>1 DEF its, AdvSIMDExpandImm
  <2>3. ours = IF op = 1 THEN {b \in Low(64) : b \div 8 \in imm8}
               ELSE {b \in Low(64) : b % 8 \in imm8}
    BY <1>8 DEF ours, AdvsimdPattern
  <2>4. {b \in Low(64) : b % 8 \in imm8} = Replicate(imm8, 8, 64)
    BY DEF Low, Replicate
  <2>5. {b \in Low(64) : b \div 8 \in imm8} = UNION {8 * i..8 * i + 7 : i \in imm8}
    <3>1. \A b \in 0..63 : b \in 8 * (b \div 8)..8 * (b \div 8) + 7
      OBVIOUS
    <3>2. \A i \in 0..7 : \A b \in 8 * i..8 * i + 7 : b \in 0..63 /\ b \div 8 = i
      OBVIOUS
    <3>. QED
      BY <1>2, <3>1, <3>2 DEF Low
  <2>. QED
    BY <2>2, <2>3, <2>4, <2>5 DEF AdvsimdLanes, ours, its, lane
<1>9. CASE cmode = 15
  <2>. DEFINE float == {b + 19 : b \in Field(imm8, 5, 0)}
                         \union (IF 6 \in imm8 THEN 25..29 ELSE {30})
                         \union Shifted(imm8 \cap {7}, 24)
  <2>1. ~ group \in 0..3 /\ ~ group \in 4..5
    BY <1>9
  <2>2. its = Replicate(float, 32, 64)
    BY <1>9, <2>1 DEF its, AdvSIMDExpandImm
  <2>3. ours = Float32(imm8) \union {b + 32 : b \in Float32(imm8)}
    BY <1>9 DEF ours, AdvsimdPattern
  <2>4. Slice(imm8, 5, 0) = Field(imm8, 5, 0) /\ Slice(imm8, 5, 0) \in SUBSET (0..5)
    <3>1. 5 - 0 = 5
      OBVIOUS
    <3>. QED
      BY <3>1, SliceIsField
  <2>5. Shifted(imm8 \cap {7}, 24) = IF 7 \in imm8 THEN {31} ELSE {}
    BY DEF Shifted
  <2>6. Float32(imm8) = float
    BY <2>4, <2>5 DEF Float32
  <2>7. float \in SUBSET (0..31)
    BY <2>4, <2>5
  <2>. HIDE DEF float
  <2>8. its \cap lane = float
    BY <1>1, <1>9, <2>2, <2>7, LaneOfReplicate
  <2>9. ours \cap lane = float
    <3>1. lane = 0..31 /\ ours = float \union {b + 32 : b \in float}
      BY <1>1, <1>9, <2>3, <2>6 DEF Low
    <3>2. \A b \in float : b + 32 \notin 0..31
      BY <2>7
    <3>. QED
      BY <2>7, <3>1, <3>2
  <2>. QED
    BY <2>8, <2>9 DEF AdvsimdLanes, ours, its, lane
<1>. QED
  BY <1>5, <1>6, <1>7, <1>8, <1>9

\* decode_advsimd_imm, of op:cmode:abcdefgh, is one lane of the manual's AdvSIMDExpandImm.
THEOREM AdvsimdImmediateIsManual ==
  ASSUME NEW value \in SUBSET Low(13),
         UInt(Field(value, 11, 8)) = 15 => 12 \notin value
  PROVE  LET op    == IF 12 \in value THEN 1 ELSE 0
             cmode == UInt(Field(value, 11, 8))
         IN  decode_advsimd_imm(value) =
               AdvSIMDExpandImm(12 \in value, cmode, Field(value, 7, 0))
                 \cap Low(LaneBits(AdvsimdDatatype(op, cmode)))
<1>. DEFINE imm8  == Field(value, 7, 0)
            cmode == UInt(Field(value, 11, 8))
<1>1. Slice(value, 7, 0) = imm8 /\ imm8 \in SUBSET Low(8)
  <2>1. 0..7 - 0 = Low(8)
    BY DEF Low
  <2>. QED
    BY <2>1, SliceIsField
<1>2. Num(Slice(value, 11, 8)) = cmode /\ cmode \in 0..15
  <2>1. 8 + 3 = 11
    OBVIOUS
  <2>. QED
    BY <2>1, NibbleIsField
<1>. DEFINE one == IF 12 \in value THEN 1 ELSE 0
<1>3. one \in {0, 1} /\ (one = 1 <=> 12 \in value) /\ (cmode = 15 => one = 0)
  OBVIOUS
<1>4. decode_advsimd_imm(value) = AdvsimdLanes(one, cmode, imm8)
  BY <1>1, <1>2 DEF decode_advsimd_imm
<1>. HIDE DEF one, cmode, imm8
<1>5. AdvsimdLanes(one, cmode, imm8) =
        AdvSIMDExpandImm(one = 1, cmode, imm8) \cap Low(LaneBits(AdvsimdDatatype(one, cmode)))
  BY <1>1, <1>2, <1>3, AdvsimdLanesAreManual
<1>6. AdvSIMDExpandImm(one = 1, cmode, imm8) = AdvSIMDExpandImm(12 \in value, cmode, imm8)
  BY <1>3
<1>. QED
  BY <1>4, <1>5, <1>6 DEF one, cmode, imm8
-----------------------------------------------------------------------------
(* The logical immediates of AArch64.                                      *)

\* The sizes of an element.
LEMMA ElementSizes ==
  ASSUME NEW len \in 1..6
  PROVE  2 ^ len \in {2, 4, 8, 16, 32, 64}
<1>1. len = 1 \/ len = 2 \/ len = 3 \/ len = 4 \/ len = 5 \/ len = 6
  OBVIOUS
<1>2. 2 ^ 1 = 2 /\ 2 ^ 2 = 4 /\ 2 ^ 3 = 8 /\ 2 ^ 4 = 16 /\ 2 ^ 5 = 32 /\ 2 ^ 6 = 64
  BY SmallPowers, BytePowers
<1>. QED
  BY <1>1, <1>2

\* ror64 joins what is shifted right with what is shifted left; ROR sends bit b to b - n.
LEMMA ElementRotations ==
  ASSUME NEW size \in {2, 4, 8, 16, 32, 64},
         NEW v \in SUBSET (0..size - 1), NEW n \in 0..size - 1
  PROVE  ror64(v, n, size) = ROR(v, n, size)
<1>1. size \in 2..64
  OBVIOUS
<1>2. ASSUME NEW b \in v
      PROVE  (b - n) % size = IF b >= n THEN b - n ELSE b - n + size
  <2>1. b \in 0..size - 1
    OBVIOUS
  <2>2. CASE size = 2
    BY <2>1, <2>2
  <2>3. CASE size = 4
    BY <2>1, <2>3
  <2>4. CASE size = 8
    BY <2>1, <2>4
  <2>5. CASE size = 16
    BY <2>1, <2>5
  <2>6. CASE size = 32
    BY <2>1, <2>6
  <2>7. CASE size = 64
    BY <2>1, <2>7
  <2>. QED
    BY <2>2, <2>3, <2>4, <2>5, <2>6, <2>7
<1>3. Low(size) = 0..size - 1 /\ replicate(1, size) = 0..size - 1
  BY DEF Low, replicate
<1>4. CASE n = 0
  <2>1. ror64(v, n, size) = v
    BY <1>4 DEF ror64
  <2>2. \A b \in v : (b - n) % size = b
    BY <1>1, <1>2, <1>4
  <2>. QED
    BY <2>1, <2>2 DEF ROR
<1>5. CASE n # 0
  <2>1. ror64(v, n, size) = (Lsr(v, n) \union Lsl(v, size - n, 64)) \cap 0..size - 1
    BY <1>3, <1>5 DEF ror64
  <2>2. ASSUME NEW c \in ror64(v, n, size)
        PROVE  c \in ROR(v, n, size)
    <3>1. CASE c \in Lsr(v, n)
      <4>1. PICK b \in v : b >= n /\ c = b - n
        BY <3>1 DEF Lsr
      <4>2. c = (b - n) % size
        BY <4>1, <1>2
      <4>. QED
        BY <4>2 DEF ROR
    <3>2. CASE c \in Lsl(v, size - n, 64)
      <4>. DEFINE b == c - (size - n)
      <4>1. b \in v /\ c \in Int /\ c \in 0..size - 1
        BY <2>1, <2>2, <3>2 DEF Lsl, Low
      <4>2. b < n /\ c = b - n + size
        BY <1>1, <4>1
      <4>. HIDE DEF b
      <4>3. b \in Int /\ ~ (b >= n)
        BY <4>1, <4>2, <1>1
      <4>4. c = (b - n) % size
        BY <4>1, <4>2, <4>3, <1>2
      <4>. QED
        BY <4>1, <4>4 DEF ROR
    <3>. QED
      BY <2>1, <2>2, <3>1, <3>2
  <2>3. ASSUME NEW c \in ROR(v, n, size)
        PROVE  c \in ror64(v, n, size)
    <3>1. PICK b \in v : c = (b - n) % size
      BY DEF ROR
    <3>2. b \in 0..size - 1
      OBVIOUS
    <3>3. CASE b >= n
      <4>1. c = b - n
        BY <1>2, <3>1, <3>3
      <4>2. c \in Lsr(v, n) /\ c \in 0..size - 1
        BY <1>1, <3>2, <3>3, <4>1 DEF Lsr
      <4>. QED
        BY <2>1, <4>2
    <3>4. CASE ~ (b >= n)
      <4>1. c = b - n + size
        BY <1>2, <3>1, <3>4
      <4>2. c \in 0..size - 1 /\ c - (size - n) = b /\ c \in 0..63
        BY <1>1, <3>2, <3>4, <4>1
      <4>3. c \in Lsl(v, size - n, 64)
        BY <4>2 DEF Lsl, Low
      <4>. QED
        BY <2>1, <4>2, <4>3
    <3>. QED
      BY <3>3, <3>4
  <2>. QED
    BY <2>2, <2>3
<1>. QED
  BY <1>4, <1>5

\* Elements that fill 32 or 64 bits are those bits of the manual's replication.
LEMMA ElementsFill ==
  ASSUME NEW size \in {2, 4, 8, 16, 32, 64}, NEW kept \in {32, 64}, size <= kept, NEW e
  PROVE  Elements(e, size, kept) = Replicate(e, size, 64) \cap 0..kept - 1
<1>1. (kept \div size) * size = kept
  <2>1. /\ 64 \div 2 = 32 /\ 64 \div 4 = 16 /\ 64 \div 8 = 8 /\ 64 \div 16 = 4
        /\ 64 \div 32 = 2 /\ 64 \div 64 = 1
    OBVIOUS
  <2>2. /\ 32 \div 2 = 16 /\ 32 \div 4 = 8 /\ 32 \div 8 = 4 /\ 32 \div 16 = 2
        /\ 32 \div 32 = 1
    OBVIOUS
  <2>3. size = 2 \/ size = 4 \/ size = 8 \/ size = 16 \/ size = 32 \/ size = 64
    OBVIOUS
  <2>4. CASE kept = 64
    BY <2>1, <2>3, <2>4
  <2>5. CASE kept = 32
    <3>1. size # 64
      BY <2>5
    <3>. QED
      BY <2>2, <2>3, <2>5, <3>1
  <2>. QED
    BY <2>4, <2>5
<1>2. Elements(e, size, kept) = {b \in 0..kept - 1 : b % size \in e}
  BY <1>1 DEF Elements, Low
<1>3. 0..kept - 1 \subseteq 0..64 - 1
  OBVIOUS
<1>. QED
  BY <1>2, <1>3 DEF Replicate

\* Some of the bits 0..6 are below one of them.
LEMMA GreatestBit ==
  ASSUME NEW S \in SUBSET (0..6), S # {}
  PROVE  \E top \in S : \A m \in S : m <= top
<1>. DEFINE T == {k \in 0..6 : 6 - k \in S}
<1>1. T \in SUBSET Nat /\ T # {}
  <2>1. PICK n \in S : n \in 0..6
    OBVIOUS
  <2>2. 6 - n \in 0..6 /\ 6 - (6 - n) = n
    BY <2>1
  <2>3. 6 - n \in T
    BY <2>2
  <2>4. T \in SUBSET Nat
    OBVIOUS
  <2>. HIDE DEF T
  <2>. QED
    BY <2>3, <2>4
<1>2. PICK k \in T : \A m \in T : k <= m
  <2>. HIDE DEF T
  <2>. QED
    BY <1>1, LeastNat
<1>3. ASSUME NEW m \in S
      PROVE  m <= 6 - k
  <2>1. m \in 0..6 /\ 6 - (6 - m) = m /\ 6 - m \in 0..6
    OBVIOUS
  <2>2. 6 - m \in T
    BY <2>1
  <2>3. k <= 6 - m /\ k \in 0..6
    BY <1>2, <2>2
  <2>. QED
    BY <2>1, <2>3
<1>. QED
  BY <1>2, <1>3

\* A run of ones, rotated: the decoder's element is the manual's.
LEMMA LogimmElementIsManual ==
  ASSUME NEW len \in 1..6, NEW imms, NEW immr
  PROVE  LogimmElement(imms, immr, len) =
           ROR(0..UInt(imms \cap 0..len - 1), UInt(immr \cap 0..len - 1), 2 ^ len)
<1>. DEFINE size == 2 ^ len
            s    == UInt(imms \cap 0..len - 1)
            t    == UInt(immr \cap 0..len - 1)
<1>1. size \in {2, 4, 8, 16, 32, 64}
  BY ElementSizes
<1>2. /\ Num(imms \cap Low(len)) = s /\ s \in 0..size - 1
      /\ Num(immr \cap Low(len)) = t /\ t \in 0..size - 1
  <2>1. Low(len) = 0..len - 1
    BY DEF Low
  <2>2. /\ (imms \cap Low(len)) \cap Low(31) = imms \cap Low(len)
        /\ (immr \cap Low(len)) \cap Low(31) = immr \cap Low(len)
    BY DEF Low
  <2>3. Num(imms \cap Low(len)) = s /\ Num(immr \cap Low(len)) = t
    BY <2>1, <2>2, UIntIsNum
  <2>4. imms \cap Low(len) \in SUBSET Low(len) /\ immr \cap Low(len) \in SUBSET Low(len)
    OBVIOUS
  <2>5. Num(imms \cap Low(len)) \in 0..size - 1 /\ Num(immr \cap Low(len)) \in 0..size - 1
    BY <2>4, NumBound
  <2>. QED
    BY <2>3, <2>5
<1>. HIDE DEF size, s, t
<1>3. replicate(1, s + 1) = 0..s /\ 0..s \in SUBSET (0..size - 1)
  <2>1. s \in Nat /\ s + 1 - 1 = s
    BY <1>1, <1>2
  <2>2. replicate(1, s + 1) = 0..s
    BY <2>1 DEF replicate, Low
  <2>3. size \in Nat /\ s <= size - 1
    BY <1>1, <1>2
  <2>4. \A c \in 0..s : c \in 0..size - 1
    BY <2>1, <2>3
  <2>5. 0..s \in SUBSET (0..size - 1)
    BY <2>4
  <2>. QED
    BY <2>2, <2>5
<1>4. ror64(0..s, t, size) = ROR(0..s, t, size)
  <2>. DEFINE run == 0..s
  <2>1. run \in SUBSET (0..size - 1) /\ t \in 0..size - 1
    BY <1>2, <1>3
  <2>. HIDE DEF run
  <2>2. ror64(run, t, size) = ROR(run, t, size)
    BY <1>1, <2>1, ElementRotations
  <2>. QED
    BY <2>2 DEF run
<1>. QED
  BY <1>2, <1>3, <1>4 DEF LogimmElement, size, s, t

\* decode_logimm, of 64 bits, of 32, or of as many as N gives it, keeps so many bits of the
\* manual's DecodeBitMasks wherever that is defined, and refuses what has no element size.
\* (What it accepts beyond the manual are the elements of all ones.)
THEOREM LogicalImmediateIsMasks ==
  ASSUME NEW imm13 \in SUBSET Low(13), NEW datasize \in {0, 32, 64},
         datasize = 32 => 12 \notin imm13
  PROVE  LET kept == IF datasize = 32 \/ (datasize = 0 /\ 12 \notin imm13) THEN 32 ELSE 64
         IN  /\ DecodeBitMasks(imm13) # <<>> =>
                  decode_logimm(imm13, datasize) =
                    [ok |-> TRUE, imm |-> DecodeBitMasks(imm13)[1] \cap 0..kept - 1]
             /\ ~ decode_logimm(imm13, datasize).ok => DecodeBitMasks(imm13) = <<>>
<1>. DEFINE kept    == IF datasize = 32 \/ (datasize = 0 /\ 12 \notin imm13) THEN 32 ELSE 64
            lengths == {n \in 1..6 : IF n = 6 THEN 12 \in imm13 ELSE n + 6 \notin imm13}
            longest == IF 12 \in imm13 THEN 6
                       ELSE CHOOSE n \in lengths : \A m \in lengths : m <= n
            levels  == 0..longest - 1
            imms    == Field(imm13, 11, 6)
            immr    == Field(imm13, 5, 0)
            turned  == ROR(0..UInt(imms \cap levels), UInt(immr \cap levels), 2 ^ longest)
            N       == Slice(imm13, 12, 12)
            high    == Lsl(N, 6, 7) \union (Low(6) \ imms)
            len     == get_hi_bit_pos(high)
<1>1. DecodeBitMasks(imm13) = IF lengths = {} \/ levels \subseteq imms THEN <<>>
                              ELSE <<Replicate(turned, 2 ^ longest, 64)>>
  BY DEF DecodeBitMasks
<1>2. /\ Slice(imm13, 11, 6) = imms
      /\ Slice(imm13, 5, 0) = immr
      /\ imms = {n \in 0..5 : n + 6 \in imm13}
  <2>1. 11 - 6 = 5
    OBVIOUS
  <2>2. Slice(imm13, 11, 6) = imms /\ Slice(imm13, 5, 0) = immr
    BY SliceIsField
  <2>. QED
    BY <2>1, <2>2 DEF Slice
<1>3. N = {n \in {0} : 12 \in imm13}
  <2>1. 12 - 12 = 0 /\ 0 + 12 = 12 /\ 0..0 = {0}
    OBVIOUS
  <2>. QED
    BY <2>1 DEF Slice
<1>4. /\ decode_logimm(imm13, datasize) = LogimmOf(imms, immr, len, kept)
      /\ kept \in {32, 64} /\ (kept = 32 => 12 \notin imm13)
  <2>1. decode_logimm(imm13, datasize) =
          LogimmOf(imms, immr, len,
                   IF datasize # 0 THEN datasize ELSE IF N = {} THEN 32 ELSE 64)
    BY <1>2 DEF decode_logimm
  <2>2. kept = IF datasize # 0 THEN datasize ELSE IF N = {} THEN 32 ELSE 64
    BY <1>3
  <2>3. kept \in {32, 64} /\ (kept = 32 => 12 \notin imm13)
    OBVIOUS
  <2>. HIDE DEF kept, N, len
  <2>. QED
    BY <2>1, <2>2, <2>3
<1>. HIDE DEF imms, immr, kept
<1>5. high = {n \in 0..6 : IF n = 6 THEN 12 \in imm13 ELSE n + 6 \notin imm13}
  <2>2. Low(7) = 0..6 /\ Low(6) = 0..5
    BY DEF Low
  <2>. HIDE DEF N
  <2>3. Lsl(N, 6, 7) = {n \in {6} : 12 \in imm13}
    BY <1>3, <2>2 DEF Lsl
  <2>. QED
    BY <1>2, <2>2, <2>3
<1>6. lengths = high \ {0}
  BY <1>5
<1>. HIDE DEF high
<1>7. \/ lengths = {} /\ ~ len \in 1..6 /\ len < 1
      \/ lengths # {} /\ len \in 1..6 /\ longest = len /\ (12 \notin imm13 => len # 6)
  <2>1. high \in SUBSET (0..6)
    BY <1>5
  <2>2. CASE high = {}
    BY <1>6, <2>2 DEF get_hi_bit_pos
  <2>3. CASE high # {}
    <3>3. PICK top \in high : \A m \in high : m <= top
      BY <2>1, <2>3, GreatestBit
    <3>4. \A n \in high : (\A m \in high : m <= n) => n = top
      BY <2>1, <3>3
    <3>5. len = top
      BY <2>3, <3>3, <3>4 DEF get_hi_bit_pos
    <3>6. CASE top = 0
      <4>1. lengths = {}
        BY <1>6, <2>1, <3>3, <3>6
      <4>. QED
        BY <3>5, <3>6, <4>1
    <3>7. CASE top # 0
      <4>1. top \in lengths /\ \A m \in lengths : m <= top
        BY <1>6, <3>3, <3>7
      <4>2. \A n \in lengths : (\A m \in lengths : m <= n) => n = top
        <5>1. lengths \in SUBSET (0..6)
          BY <1>6, <2>1
        <5>. HIDE DEF lengths
        <5>2. ASSUME NEW n \in lengths, \A m \in lengths : m <= n
              PROVE  n = top
          <6>1. top <= n /\ n <= top
            BY <4>1, <5>2
          <6>2. n \in 0..6 /\ top \in 0..6
            BY <4>1, <5>1
          <6>. QED
            BY <6>1, <6>2
        <5>. QED
          BY <5>2
      <4>3. top \in 1..6
        BY <2>1, <3>7
      <4>4. 12 \in imm13 => top = 6
        <5>1. 12 \in imm13 => 6 \in high
          BY <1>5
        <5>. QED
          BY <5>1, <3>3, <4>3
      <4>6. 12 \notin imm13 => top # 6
        BY <1>5, <3>3
      <4>. HIDE DEF lengths
      <4>5. longest = top
        BY <4>1, <4>2, <4>4
      <4>. QED
        BY <3>5, <4>1, <4>3, <4>5, <4>6
    <3>. QED
      BY <3>6, <3>7
  <2>. QED
    BY <2>2, <2>3
<1>. HIDE DEF lengths, longest, len
<1>8. CASE lengths = {}
  BY <1>1, <1>8
<1>9. CASE lengths # {}
  <2>1. len \in 1..6 /\ longest = len /\ (12 \notin imm13 => len # 6)
    BY <1>7, <1>9
  <2>2. 2 ^ len \in {2, 4, 8, 16, 32, 64} /\ 2 ^ len <= kept
    <3>. DEFINE Power(i) == 2 ^ i
    <3>1. /\ Power(1) = 2 /\ Power(2) = 4 /\ Power(3) = 8 /\ Power(4) = 16 /\ Power(5) = 32
          /\ Power(6) = 64
      BY SmallPowers, BytePowers
    <3>. HIDE DEF Power
    <3>2. Power(len) \in {2, 4, 8, 16, 32, 64} /\ (Power(len) = 64 => len = 6)
      BY <2>1, <3>1
    <3>3. Power(len) <= kept
      BY <1>4, <2>1, <3>2
    <3>. QED
      BY <3>2, <3>3 DEF Power
  <2>3. LogimmElement(imms, immr, len) = turned
    <3>1. LogimmElement(imms, immr, len) =
            ROR(0..UInt(imms \cap 0..len - 1), UInt(immr \cap 0..len - 1), 2 ^ len)
      BY <2>1, LogimmElementIsManual, ZenonT(60)
    <3>. QED
      BY <2>1, <3>1, Zenon
  <2>. HIDE DEF turned
  <2>4. Elements(turned, 2 ^ len, kept) = Replicate(turned, 2 ^ len, 64) \cap 0..kept - 1
    BY <1>4, <2>2, ElementsFill
  <2>5. decode_logimm(imm13, datasize) =
          [ok |-> TRUE, imm |-> Replicate(turned, 2 ^ len, 64) \cap 0..kept - 1]
    <3>1. ~(len < 1)
      BY <2>1
    <3>. QED
      BY <1>4, <2>3, <2>4, <3>1, Zenon DEF LogimmOf
  <2>6. DecodeBitMasks(imm13) # <<>> =>
          DecodeBitMasks(imm13)[1] = Replicate(turned, 2 ^ len, 64)
    BY <1>1, <2>1
  <2>7. decode_logimm(imm13, datasize).ok
    BY <2>5
  <2>. QED
    BY <2>5, <2>6, <2>7 DEF kept
<1>. QED
  BY <1>8, <1>9
-----------------------------------------------------------------------------
(* Offsets.                                                                *)

\* The powers the scales of the tables are.
LEMMA ScalePowers ==
  /\ 2 ^ 9 = 512 /\ 2 ^ 10 = 1024 /\ 2 ^ 11 = 2048 /\ 2 ^ 12 = 4096
<1>1. /\ 2 ^ (8 + 1) = 2 * 2 ^ 8 /\ 2 ^ (9 + 1) = 2 * 2 ^ 9
      /\ 2 ^ (10 + 1) = 2 * 2 ^ 10 /\ 2 ^ (11 + 1) = 2 * 2 ^ 11
  BY PowerStep
<1>2. 8 + 1 = 9 /\ 9 + 1 = 10 /\ 10 + 1 = 11 /\ 11 + 1 = 12
  OBVIOUS
<1>3. 2 ^ 9 = 512
  BY <1>1, <1>2, BytePowers
<1>4. 2 ^ 10 = 1024
  BY <1>3, <1>1, <1>2
<1>5. 2 ^ 11 = 2048
  BY <1>4, <1>1, <1>2
<1>6. 2 ^ 12 = 4096
  BY <1>5, <1>1, <1>2
<1>. QED
  BY <1>3, <1>4, <1>5, <1>6

\* A product with 2, 4 or 4096 is a shift.
LEMMA ScaledIsShifted ==
  ASSUME NEW v
  PROVE  /\ Scaled(v, 2) = Lsl(v, 1, 64) /\ Scaled(v, 4) = Lsl(v, 2, 64)
         /\ Scaled(v, 4096) = Lsl(v, 12, 64)
<1>1. ASSUME NEW k \in 0..12
      PROVE  (2 ^ k = 2 <=> k = 1) /\ (2 ^ k = 4 <=> k = 2) /\ (2 ^ k = 4096 <=> k = 12)
  <2>. DEFINE Power(i) == 2 ^ i
  <2>1. /\ Power(0) = 1 /\ Power(1) = 2 /\ Power(2) = 4 /\ Power(3) = 8 /\ Power(4) = 16
        /\ Power(5) = 32 /\ Power(6) = 64 /\ Power(7) = 128 /\ Power(8) = 256
        /\ Power(9) = 512 /\ Power(10) = 1024 /\ Power(11) = 2048 /\ Power(12) = 4096
    BY SmallPowers, BytePowers, ScalePowers, SMT
  <2>. HIDE DEF Power
  <2>2. (Power(k) = 2 <=> k = 1) /\ (Power(k) = 4 <=> k = 2) /\ (Power(k) = 4096 <=> k = 12)
    BY <2>1
  <2>. QED
    BY <2>2 DEF Power
<1>2. ASSUME NEW scale, NEW n \in 0..12, \A k \in 0..12 : 2 ^ k = scale <=> k = n
      PROVE  Scaled(v, scale) = Lsl(v, n, 64)
  <2>1. (CHOOSE k \in 0..12 : 2 ^ k = scale) = n
    BY <1>2
  <2>. QED
    BY <2>1 DEF Scaled
<1>3. 1 \in 0..12 /\ 2 \in 0..12 /\ 12 \in 0..12
  OBVIOUS
<1>4. Scaled(v, 4) = Lsl(v, 2, 64)
  BY <1>1, <1>2, <1>3
<1>5. Scaled(v, 4096) = Lsl(v, 12, 64)
  BY <1>1, <1>2, <1>3
<1>6. Scaled(v, 2) = Lsl(v, 1, 64)
  BY <1>1, <1>2, <1>3
<1>. QED
  BY <1>4, <1>5, <1>6

\* sign_extend64 of a word of n bits, shifted, is the manual's SignExtend of the shifted
\* word.
LEMMA ExtensionShifts ==
  ASSUME NEW n \in 1..63, NEW k \in 0..63, n + k <= 64, NEW v \in SUBSET (0..n - 1)
  PROVE  Lsl(sign_extend64(v, n - 1), k, 64) = SignExtend(Shifted(v, k), n + k, 64)
<1>. DEFINE left  == Lsl(sign_extend64(v, n - 1), k, 64)
            right == SignExtend(Shifted(v, k), n + k, 64)
<1>1. \A b \in Int : b \in left <=>
        b \in 0..63 /\ (b - k \in v \/ (n - 1 \in v /\ b - k \in n - 1..63))
  BY DEF Lsl, Low, sign_extend64
<1>2. \A b \in Int : b \in Shifted(v, k) <=> b - k \in v
  <2>1. ASSUME NEW b \in Int, b - k \in v
        PROVE  b \in Shifted(v, k)
    <3>1. b = (b - k) + k
      OBVIOUS
    <3>. QED
      BY <2>1, <3>1 DEF Shifted
  <2>2. ASSUME NEW b \in Shifted(v, k)
        PROVE  b - k \in v
    <3>1. PICK c \in v : b = c + k
      BY DEF Shifted
    <3>2. c \in Int /\ b - k = c
      BY <3>1
    <3>. QED
      BY <3>2
  <2>. QED
    BY <2>1, <2>2
<1>3. Shifted(v, k) \in SUBSET Int
  BY DEF Shifted
<1>4. n + k - 1 \in Shifted(v, k) <=> n - 1 \in v
  <2>1. n + k - 1 \in Int /\ (n + k - 1) - k = n - 1
    OBVIOUS
  <2>. QED
    BY <1>2, <2>1
<1>5. \A b \in Int : b \in right <=> b - k \in v \/ (n - 1 \in v /\ b \in n + k..63)
  <2>1. 64 - 1 = 63
    OBVIOUS
  <2>. QED
    BY <1>2, <1>4, <2>1 DEF SignExtend
<1>6. left \in SUBSET Int /\ right \in SUBSET Int
  BY <1>3 DEF Lsl, Low, SignExtend
<1>. HIDE DEF left, right
<1>7. ASSUME NEW b \in Int
      PROVE  b \in left <=> b \in right
  <2>1. b - k \in v => b \in 0..63
    OBVIOUS
  <2>2. CASE n - 1 \in v
    <3>1. b \in 0..63 /\ b - k \in n - 1..63 <=> b \in n + k - 1..63
      OBVIOUS
    <3>2. b \in n + k - 1..63 <=> b \in n + k..63 \/ b - k = n - 1
      OBVIOUS
    <3>. QED
      BY <1>1, <1>5, <2>1, <2>2, <3>1, <3>2
  <2>3. CASE n - 1 \notin v
    BY <1>1, <1>5, <2>1, <2>3
  <2>. QED
    BY <2>2, <2>3
<1>8. left = right
  BY <1>6, <1>7
<1>. QED
  BY <1>8 DEF left, right

\* Without a shift.
LEMMA ExtensionIsManual ==
  ASSUME NEW n \in 1..63, NEW v \in SUBSET (0..n - 1)
  PROVE  sign_extend64(v, n - 1) = SignExtend(v, n, 64)
<1>1. n - 1..63 = {n - 1} \union n..64 - 1
  OBVIOUS
<1>. QED
  BY <1>1 DEF sign_extend64, SignExtend
-----------------------------------------------------------------------------
(* Fields that an encodedin gathers.                                       *)

\* What an encodedin reads that names the bits hi..lo.
LEMMA RunIsField ==
  ASSUME NEW word, NEW hi \in Nat, NEW lo \in Nat, lo <= hi
  PROVE  LET s == [i \in 1..hi - lo + 1 |-> hi + 1 - i]
         IN  /\ s \in Seq(Int) /\ Len(s) = hi - lo + 1 /\ s # <<>>
             /\ ReadEncodedin(word, s) = Field(word, hi, lo)
             /\ Field(word, hi, lo) \in SUBSET (0..hi - lo)
<1>. DEFINE n == hi - lo + 1
            s == [i \in 1..n |-> hi + 1 - i]
<1>1. n \in Nat /\ n >= 1 /\ \A i \in 1..n : hi + 1 - i \in Int
  OBVIOUS
<1>. HIDE DEF n
<1>2. s \in Seq(Int) /\ Len(s) = n /\ \A i \in 1..n : s[i] = hi + 1 - i
  BY <1>1
<1>3. s # <<>>
  BY <1>1, <1>2
<1>. HIDE DEF s
<1>4. ReadEncodedin(word, s) = {i \in 0..n - 1 : s[n - i] \in word}
  BY <1>2 DEF ReadEncodedin, Low
<1>5. \A i \in 0..n - 1 : s[n - i] = i + lo
  <2>1. ASSUME NEW i \in 0..n - 1
        PROVE  s[n - i] = i + lo
    <3>1. n - i \in 1..n
      BY <1>1
    <3>2. s[n - i] = hi + 1 - (n - i)
      BY <1>2, <3>1
    <3>3. hi + 1 - (n - i) = i + lo
      BY DEF n
    <3>. QED
      BY <3>2, <3>3
  <2>. QED
    BY <2>1
<1>6. n - 1 = hi - lo
  BY DEF n
<1>7. ReadEncodedin(word, s) = Slice(word, hi, lo)
  BY <1>4, <1>5, <1>6 DEF Slice
<1>. QED
  BY <1>2, <1>3, <1>7, SliceIsField DEF n, s

\* A single bit.
LEMMA BitIsField ==
  ASSUME NEW word, NEW n \in Nat
  PROVE  /\ <<n>> \in Seq(Int) /\ Len(<<n>>) = 1 /\ <<n>> # <<>>
         /\ ReadEncodedin(word, <<n>>) = Field(word, n, n)
         /\ Field(word, n, n) \in SUBSET (0..0)
         /\ 0 \in Field(word, n, n) <=> n \in word
<1>1. <<n>> \in Seq(Int) /\ Len(<<n>>) = 1 /\ <<n>> # <<>> /\ <<n>>[1] = n
  OBVIOUS
<1>2. n - n = 0 /\ 0 + n = n /\ 1 - 1 = 0 /\ 1 - 0 = 1 /\ 0..0 = {0}
  OBVIOUS
<1>3. Field(word, n, n) = {b \in {0} : b + n \in word}
  BY <1>2, SliceIsField DEF Slice
<1>4. ReadEncodedin(word, <<n>>) = {i \in {0} : <<n>>[1 - i] \in word}
  BY <1>1, <1>2 DEF ReadEncodedin, Low
<1>5. ReadEncodedin(word, <<n>>) = {i \in {0} : n \in word}
  BY <1>1, <1>2, <1>4
<1>. QED
  BY <1>1, <1>2, <1>3, <1>5

\* The members of a word that is shifted.
LEMMA ShiftedMembers ==
  ASSUME NEW v \in SUBSET Int, NEW n \in Int
  PROVE  Shifted(v, n) \in SUBSET Int /\ \A b \in Int : b \in Shifted(v, n) <=> b - n \in v
<1>1. ASSUME NEW b \in Int, b - n \in v
      PROVE  b \in Shifted(v, n)
  <2>1. b = (b - n) + n
    OBVIOUS
  <2>. QED
    BY <1>1, <2>1 DEF Shifted
<1>2. ASSUME NEW b \in Shifted(v, n)
      PROVE  b \in Int /\ b - n \in v
  <2>1. PICK c \in v : b = c + n
    BY DEF Shifted
  <2>2. c \in Int /\ b \in Int /\ b - n = c
    BY <2>1
  <2>. QED
    BY <2>2
<1>. QED
  BY <1>1, <1>2

\* Of two runs of bits the first is above the second.
LEMMA ReadConcat ==
  ASSUME NEW word, NEW a \in Seq(Int), NEW c \in Seq(Int)
  PROVE  /\ a \o c \in Seq(Int) /\ Len(a \o c) = Len(a) + Len(c)
         /\ ReadEncodedin(word, a \o c) =
              ReadEncodedin(word, c) \union Shifted(ReadEncodedin(word, a), Len(c))
<1>. DEFINE s == a \o c
            m == Len(a)
            n == Len(c)
<1>1. /\ s \in Seq(Int) /\ m \in Nat /\ n \in Nat /\ Len(s) = m + n
      /\ \A i \in 1..m + n : s[i] = IF i <= m THEN a[i] ELSE c[i - m]
  OBVIOUS
<1>. HIDE DEF s, m, n
<1>. DEFINE whole == ReadEncodedin(word, s)
            upper == ReadEncodedin(word, a)
            lower == ReadEncodedin(word, c)
<1>2. /\ whole = {i \in 0..m + n - 1 : s[m + n - i] \in word}
      /\ upper = {i \in 0..m - 1 : a[m - i] \in word}
      /\ lower = {i \in 0..n - 1 : c[n - i] \in word}
  BY <1>1 DEF ReadEncodedin, Low, m, n
<1>3. upper \in SUBSET Int
  BY <1>2
<1>. HIDE DEF whole, upper, lower
<1>4. Shifted(upper, n) \in SUBSET Int /\ \A b \in Int : b \in Shifted(upper, n) <=> b - n \in upper
  BY <1>1, <1>3, ShiftedMembers
<1>5. ASSUME NEW b \in Int
      PROVE  b \in whole <=> b \in lower \/ b - n \in upper
  <2>1. CASE b \in 0..n - 1
    <3>1. /\ m + n - b \in 1..m + n /\ ~(m + n - b <= m) /\ (m + n - b) - m = n - b
          /\ b - n \notin 0..m - 1 /\ b \in 0..m + n - 1
      BY <1>1, <2>1
    <3>2. s[m + n - b] = c[n - b]
      BY <1>1, <3>1
    <3>. QED
      BY <1>2, <2>1, <3>1, <3>2
  <2>2. CASE b \in n..m + n - 1
    <3>1. /\ m + n - b \in 1..m + n /\ m + n - b <= m /\ m + n - b = m - (b - n)
          /\ b - n \in 0..m - 1 /\ b \in 0..m + n - 1 /\ b \notin 0..n - 1
      BY <1>1, <2>2
    <3>2. s[m + n - b] = a[m - (b - n)]
      BY <1>1, <3>1
    <3>. QED
      BY <1>2, <3>1, <3>2
  <2>3. CASE b \notin 0..m + n - 1
    <3>1. b \notin 0..n - 1 /\ b - n \notin 0..m - 1
      BY <1>1, <2>3
    <3>. QED
      BY <1>2, <2>3, <3>1
  <2>4. b \in 0..m + n - 1 <=> b \in 0..n - 1 \/ b \in n..m + n - 1
    BY <1>1
  <2>. QED
    BY <2>1, <2>2, <2>3, <2>4
<1>6. whole \in SUBSET Int /\ lower \in SUBSET Int
  BY <1>2
<1>7. whole = lower \union Shifted(upper, n)
  BY <1>4, <1>5, <1>6
<1>. QED
  BY <1>1, <1>7 DEF whole, lower, upper, s, m, n

\* A word v of bits 0..t that is one of bits 0..m above n = k + 1 others.
IsSplit(v, high, low, n, k, m, t) ==
  /\ n \in Nat /\ k \in Int /\ m \in Nat /\ t \in Nat /\ n = k + 1 /\ t = n + m
  /\ low \in SUBSET (0..k) /\ high \in SUBSET (0..m) /\ v = low \union Shifted(high, n)

LEMMA SplitWord ==
  ASSUME NEW v, NEW high, NEW low, NEW n, NEW k, NEW m, NEW t,
         IsSplit(v, high, low, n, k, m, t)
  PROVE  /\ v \in SUBSET (0..t)
         /\ \A b \in 0..k : b \in v <=> b \in low
         /\ \A b \in n..t : b \in v <=> b - n \in high
<1>. USE DEF IsSplit
<1>. DEFINE up == Shifted(high, n)
<1>1. up \in SUBSET Int /\ \A b \in Int : b \in up <=> b - n \in high
  <2>1. high \in SUBSET Int
    OBVIOUS
  <2>. QED
    BY <2>1, ShiftedMembers
<1>2. v = low \union up
  OBVIOUS
<1>. HIDE DEF up
<1>3. up \in SUBSET (n..t)
  BY <1>1
<1>4. v \in SUBSET (0..t)
  <2>1. 0..k \subseteq 0..t /\ n..t \subseteq 0..t
    OBVIOUS
  <2>. QED
    BY <1>2, <1>3, <2>1, Zenon
<1>5. \A b \in 0..k : b \in v <=> b \in low
  BY <1>2, <1>3
<1>6. \A b \in n..t : b \in v <=> b - n \in high
  <2>1. \A b \in n..t : b \notin low
    OBVIOUS
  <2>. QED
    BY <1>1, <1>2, <2>1
<1>. QED
  BY <1>4, <1>5, <1>6

\* The word v that reads c, of n bits, below a.
Joins(word, v, a, c, high, low, n) ==
  /\ a \in Seq(Int) /\ c \in Seq(Int) /\ Len(c) = n /\ n \in Nat /\ n > 0
  /\ ReadEncodedin(word, a) = high /\ ReadEncodedin(word, c) = low
  /\ v = low \union Shifted(high, n)

LEMMA RunBelow ==
  ASSUME NEW word, NEW v, NEW a, NEW c, NEW high, NEW low, NEW n,
         Joins(word, v, a, c, high, low, n)
  PROVE  a \o c \in Seq(Int) /\ a \o c # <<>> /\ ReadEncodedin(word, a \o c) = v
<1>1. a \in Seq(Int) /\ c \in Seq(Int)
  BY DEF Joins
<1>2. /\ a \o c \in Seq(Int) /\ Len(a \o c) = Len(a) + Len(c)
      /\ ReadEncodedin(word, a \o c) =
           ReadEncodedin(word, c) \union Shifted(ReadEncodedin(word, a), Len(c))
  BY <1>1, ReadConcat
<1>3. a \o c # <<>>
  <2>. DEFINE s == a \o c
  <2>1. Len(a) \in Nat /\ Len(c) \in Nat /\ Len(c) > 0
    BY <1>1 DEF Joins
  <2>2. Len(s) > 0
    BY <1>2, <2>1
  <2>. HIDE DEF s
  <2>3. s # <<>>
    BY <2>2
  <2>. QED
    BY <2>3 DEF s
<1>. QED
  BY <1>2, <1>3, Zenon DEF Joins

\* A word above another one, shifted.
LEMMA ShiftedUnion ==
  ASSUME NEW v \in SUBSET Int, NEW w \in SUBSET Int, NEW m \in Int, NEW n \in Int
  PROVE  Shifted(v \union Shifted(w, m), n) = Shifted(v, n) \union Shifted(w, m + n)
<1>. DEFINE t == m + n
            inner == Shifted(w, m)
            outer == Shifted(v \union inner, n)
            left  == Shifted(v, n)
            right == Shifted(w, t)
<1>1. inner \in SUBSET Int /\ \A b \in Int : b \in inner <=> b - m \in w
  BY ShiftedMembers
<1>. HIDE DEF inner
<1>2. v \union inner \in SUBSET Int /\ t \in Int /\ t = m + n
  BY <1>1
<1>. HIDE DEF t
<1>3. outer \in SUBSET Int /\ \A b \in Int : b \in outer <=> b - n \in v \union inner
  BY <1>2, ShiftedMembers
<1>4. left \in SUBSET Int /\ \A b \in Int : b \in left <=> b - n \in v
  BY ShiftedMembers
<1>5. right \in SUBSET Int /\ \A b \in Int : b \in right <=> b - t \in w
  BY <1>2, ShiftedMembers
<1>. HIDE DEF outer, left, right
<1>6. \A b \in Int : b \in outer <=> b \in left \union right
  <2>1. ASSUME NEW b \in Int
        PROVE  b \in outer <=> b \in left \union right
    <3>1. b - n \in Int /\ (b - n) - m = b - t
      BY <1>2
    <3>2. b - n \in inner <=> b - t \in w
      BY <1>1, <3>1
    <3>. QED
      BY <1>3, <1>4, <1>5, <3>2
  <2>. QED
    BY <2>1
<1>7. outer = left \union right
  BY <1>3, <1>4, <1>5, <1>6
<1>. QED
  BY <1>7 DEF outer, left, right, inner, t

\* The bits hi..lo, most significant first.
Run(hi, lo) == [i \in 1..hi - lo + 1 |-> hi + 1 - i]

\* A field of n = k + 1 bits.
IsRun(hi, lo, k, n) ==
  hi \in Nat /\ lo \in Nat /\ k \in Nat /\ n \in Nat /\ hi = lo + k /\ n = k + 1

LEMMA RunOf ==
  ASSUME NEW word, NEW hi, NEW lo, NEW k, NEW n, IsRun(hi, lo, k, n)
  PROVE  /\ Run(hi, lo) \in Seq(Int) /\ Len(Run(hi, lo)) = n /\ Run(hi, lo) # <<>>
         /\ ReadEncodedin(word, Run(hi, lo)) = Field(word, hi, lo)
         /\ Field(word, hi, lo) \in SUBSET (0..k)
<1>1. hi \in Nat /\ lo \in Nat /\ lo <= hi /\ hi - lo + 1 = n /\ hi - lo = k
  BY DEF IsRun
<1>2. /\ Run(hi, lo) \in Seq(Int) /\ Len(Run(hi, lo)) = hi - lo + 1 /\ Run(hi, lo) # <<>>
      /\ ReadEncodedin(word, Run(hi, lo)) = Field(word, hi, lo)
      /\ Field(word, hi, lo) \in SUBSET (0..hi - lo)
  BY <1>1, RunIsField, Zenon DEF Run
<1>. QED
  BY <1>1, <1>2, Zenon

\* The eight bits of VMOV are two nibbles.
LEMMA VfpIsSplit ==
  ASSUME NEW word
  PROVE  LET enc == Run(19, 16) \o Run(3, 0)
             imm8 == Field(word, 3, 0) \union Shifted(Field(word, 19, 16), 4)
         IN  enc # <<>> /\ ReadEncodedin(word, enc) = imm8 /\ imm8 \in SUBSET Low(8)
<1>. DEFINE top == Run(19, 16)
            bottom == Run(3, 0)
            high == Field(word, 19, 16)
            low == Field(word, 3, 0)
            v == low \union Shifted(high, 4)
<1>1. IsRun(19, 16, 3, 4) /\ IsRun(3, 0, 3, 4)
  BY DEF IsRun
<1>2. /\ top \in Seq(Int) /\ ReadEncodedin(word, top) = high /\ high \in SUBSET (0..3)
      /\ bottom \in Seq(Int) /\ Len(bottom) = 4 /\ ReadEncodedin(word, bottom) = low
      /\ low \in SUBSET (0..3)
  BY <1>1, RunOf
<1>. HIDE DEF top, bottom, high, low
<1>3. top \o bottom # <<>> /\ ReadEncodedin(word, top \o bottom) = v
  <2>1. Joins(word, v, top, bottom, high, low, 4)
    BY <1>2 DEF Joins
  <2>. QED
    BY <2>1, RunBelow
<1>4. IsSplit(v, high, low, 4, 3, 3, 7)
  BY <1>2 DEF IsSplit
<1>. HIDE DEF v
<1>5. v \in SUBSET (0..7)
  BY <1>4, SplitWord
<1>6. 0..7 = Low(8)
  BY DEF Low
<1>. QED
  BY <1>3, <1>5, <1>6 DEF top, bottom, high, low, v

\* The twelve bits of a modified immediate of Thumb are i:imm3:imm8.
LEMMA ThumbIsSplit ==
  ASSUME NEW word
  PROVE  LET enc == <<26>> \o Run(14, 12) \o Run(7, 0)
             imm12 == Field(word, 7, 0) \union Shifted(Field(word, 14, 12), 8)
                        \union Shifted(Field(word, 26, 26), 11)
         IN  enc # <<>> /\ ReadEncodedin(word, enc) = imm12 /\ imm12 \in SUBSET Low(12)
<1>. DEFINE one == <<26>>
            s2 == Run(14, 12)
            s3 == Run(7, 0)
            bit == Field(word, 26, 26)
            mid == Field(word, 14, 12)
            low == Field(word, 7, 0)
            up  == mid \union Shifted(bit, 3)
            v == low \union Shifted(up, 8)
<1>1. IsRun(14, 12, 2, 3) /\ IsRun(7, 0, 7, 8)
  BY DEF IsRun
<1>2. one \in Seq(Int) /\ ReadEncodedin(word, one) = bit /\ bit \in SUBSET (0..0)
  BY BitIsField
<1>3. /\ s2 \in Seq(Int) /\ Len(s2) = 3 /\ ReadEncodedin(word, s2) = mid
      /\ mid \in SUBSET (0..2)
  BY <1>1, RunOf
<1>4. /\ s3 \in Seq(Int) /\ Len(s3) = 8 /\ ReadEncodedin(word, s3) = low
      /\ low \in SUBSET (0..7)
  BY <1>1, RunOf
<1>. HIDE DEF one, s2, s3, bit, mid, low
<1>. DEFINE top == one \o s2
<1>5. top \in Seq(Int) /\ ReadEncodedin(word, top) = up
  <2>1. Joins(word, up, one, s2, bit, mid, 3)
    BY <1>2, <1>3 DEF Joins
  <2>. QED
    BY <2>1, RunBelow
<1>6. Shifted(up, 8) = Shifted(mid, 8) \union Shifted(bit, 11)
  <2>1. mid \in SUBSET Int /\ bit \in SUBSET Int
    BY <1>2, <1>3
  <2>2. ASSUME NEW m \in Int, NEW n \in Int
        PROVE  Shifted(mid \union Shifted(bit, m), n) =
                 Shifted(mid, n) \union Shifted(bit, m + n)
    BY <2>1, ShiftedUnion
  <2>3. 3 + 8 = 11 /\ 3 \in Int /\ 8 \in Int
    OBVIOUS
  <2>4. Shifted(up, 8) = Shifted(mid, 8) \union Shifted(bit, 3 + 8)
    BY <2>2, <2>3, Zenon
  <2>. QED
    BY <2>3, <2>4, Zenon
<1>7. IsSplit(up, bit, mid, 3, 2, 0, 3)
  BY <1>2, <1>3 DEF IsSplit
<1>. HIDE DEF top, up
<1>8. top \o s3 # <<>> /\ ReadEncodedin(word, top \o s3) = v
  <2>1. Joins(word, v, top, s3, up, low, 8)
    BY <1>4, <1>5 DEF Joins
  <2>. QED
    BY <2>1, RunBelow
<1>9. up \in SUBSET (0..3)
  BY <1>7, SplitWord
<1>10. v = low \union Shifted(up, 8) /\ IsSplit(v, up, low, 8, 7, 3, 11)
  BY <1>4, <1>9 DEF IsSplit
<1>. HIDE DEF v
<1>11. v \in SUBSET (0..11)
  BY <1>10, SplitWord
<1>12. 0..11 = Low(12)
  BY DEF Low
<1>13. v = low \union Shifted(mid, 8) \union Shifted(bit, 11)
  BY <1>6, <1>10, Zenon
<1>. QED
  BY <1>8, <1>11, <1>12, <1>13 DEF one, s2, s3, top, bit, mid, low

\* The thirteen bits of a vector's immediate are op:cmode:a:bcd:efgh.
LEMMA VectorIsSplit ==
  ASSUME NEW word, NEW h \in Nat
  PROVE  LET enc == <<5>> \o Run(11, 8) \o <<h>> \o Run(18, 16) \o Run(3, 0)
             raw == ReadEncodedin(word, enc)
         IN  /\ enc # <<>> /\ raw \in SUBSET Low(13)
             /\ 12 \in raw <=> 5 \in word
             /\ Field(raw, 11, 8) = Field(word, 11, 8)
             /\ Field(raw, 7, 0) = Field(word, 3, 0) \union Shifted(Field(word, 18, 16), 4)
                                     \union Shifted(Field(word, h, h), 7)
<1>. DEFINE s1 == <<5>>
            s2 == Run(11, 8)
            s3 == <<h>>
            s4 == Run(18, 16)
            s5 == Run(3, 0)
            op == Field(word, 5, 5)
            cmode == Field(word, 11, 8)
            a == Field(word, h, h)
            bcd == Field(word, 18, 16)
            efgh == Field(word, 3, 0)
            v2 == cmode \union Shifted(op, 4)
            v3 == a \union Shifted(v2, 1)
            v4 == bcd \union Shifted(v3, 3)
            v5 == efgh \union Shifted(v4, 4)
<1>1. IsRun(11, 8, 3, 4) /\ IsRun(18, 16, 2, 3) /\ IsRun(3, 0, 3, 4)
  BY DEF IsRun
<1>2. /\ s1 \in Seq(Int) /\ ReadEncodedin(word, s1) = op /\ op \in SUBSET (0..0)
      /\ 0 \in op <=> 5 \in word
  BY BitIsField
<1>3. /\ s2 \in Seq(Int) /\ Len(s2) = 4 /\ ReadEncodedin(word, s2) = cmode
      /\ cmode \in SUBSET (0..3)
  BY <1>1, RunOf
<1>4. /\ s3 \in Seq(Int) /\ Len(s3) = 1 /\ ReadEncodedin(word, s3) = a
      /\ a \in SUBSET (0..0)
  BY BitIsField
<1>5. /\ s4 \in Seq(Int) /\ Len(s4) = 3 /\ ReadEncodedin(word, s4) = bcd
      /\ bcd \in SUBSET (0..2)
  BY <1>1, RunOf
<1>6. /\ s5 \in Seq(Int) /\ Len(s5) = 4 /\ ReadEncodedin(word, s5) = efgh
      /\ efgh \in SUBSET (0..3)
  BY <1>1, RunOf
<1>. HIDE DEF s1, s2, s3, s4, s5, op, cmode, a, bcd, efgh
<1>. DEFINE t2 == s1 \o s2
            t3 == t2 \o s3
            t4 == t3 \o s4
            t5 == t4 \o s5
<1>7. t2 \in Seq(Int) /\ ReadEncodedin(word, t2) = v2 /\ v2 = cmode \union Shifted(op, 4)
  <2>1. Joins(word, v2, s1, s2, op, cmode, 4)
    BY <1>2, <1>3 DEF Joins
  <2>. QED
    BY <2>1, RunBelow
<1>. HIDE DEF t2, v2
<1>8. t3 \in Seq(Int) /\ ReadEncodedin(word, t3) = v3 /\ v3 = a \union Shifted(v2, 1)
  <2>1. Joins(word, v3, t2, s3, v2, a, 1)
    BY <1>4, <1>7 DEF Joins
  <2>. QED
    BY <2>1, RunBelow
<1>. HIDE DEF t3, v3
<1>9. t4 \in Seq(Int) /\ ReadEncodedin(word, t4) = v4 /\ v4 = bcd \union Shifted(v3, 3)
  <2>1. Joins(word, v4, t3, s4, v3, bcd, 3)
    BY <1>5, <1>8 DEF Joins
  <2>. QED
    BY <2>1, RunBelow
<1>. HIDE DEF t4, v4
<1>10. t5 # <<>> /\ ReadEncodedin(word, t5) = v5 /\ v5 = efgh \union Shifted(v4, 4)
  <2>1. Joins(word, v5, t4, s5, v4, efgh, 4)
    BY <1>6, <1>9 DEF Joins
  <2>. QED
    BY <2>1, RunBelow
<1>. HIDE DEF t5, v5
<1>11. /\ v2 \in SUBSET (0..4)
       /\ \A b \in 0..3 : b \in v2 <=> b \in cmode
       /\ \A b \in 4..4 : b \in v2 <=> b - 4 \in op
  <2>1. IsSplit(v2, op, cmode, 4, 3, 0, 4)
    BY <1>2, <1>3, <1>7 DEF IsSplit
  <2>. QED
    BY <2>1, SplitWord
<1>12. /\ v3 \in SUBSET (0..5)
       /\ \A b \in 0..0 : b \in v3 <=> b \in a
       /\ \A b \in 1..5 : b \in v3 <=> b - 1 \in v2
  <2>1. IsSplit(v3, v2, a, 1, 0, 4, 5)
    BY <1>4, <1>8, <1>11 DEF IsSplit
  <2>. QED
    BY <2>1, SplitWord
<1>13. /\ v4 \in SUBSET (0..8)
       /\ \A b \in 0..2 : b \in v4 <=> b \in bcd
       /\ \A b \in 3..8 : b \in v4 <=> b - 3 \in v3
  <2>1. IsSplit(v4, v3, bcd, 3, 2, 5, 8)
    BY <1>5, <1>9, <1>12 DEF IsSplit
  <2>. QED
    BY <2>1, SplitWord
<1>14. /\ v5 \in SUBSET (0..12)
       /\ \A b \in 0..3 : b \in v5 <=> b \in efgh
       /\ \A b \in 4..12 : b \in v5 <=> b - 4 \in v4
  <2>1. IsSplit(v5, v4, efgh, 4, 3, 8, 12)
    BY <1>6, <1>10, <1>13 DEF IsSplit
  <2>. QED
    BY <2>1, SplitWord
<1>15. v5 \in SUBSET Low(13) /\ (12 \in v5 <=> 5 \in word)
  <2>1. 12 \in v5 <=> 8 \in v4
    BY <1>14
  <2>2. 8 \in v4 <=> 5 \in v3
    BY <1>13
  <2>3. 5 \in v3 <=> 4 \in v2
    BY <1>12
  <2>4. 4 \in v2 <=> 0 \in op
    BY <1>11
  <2>5. Low(13) = 0..12
    BY DEF Low
  <2>. QED
    BY <1>2, <1>14, <2>1, <2>2, <2>3, <2>4, <2>5
<1>16. Field(v5, 11, 8) = cmode
  <2>1. Field(v5, 11, 8) = {b \in 0..3 : b + 8 \in v5}
    <3>1. 11 - 8 = 3
      OBVIOUS
    <3>. QED
      BY <3>1, SliceIsField DEF Slice
  <2>2. ASSUME NEW b \in 0..3
        PROVE  b + 8 \in v5 <=> b \in cmode
    <3>1. /\ b + 8 \in 4..12 /\ (b + 8) - 4 = b + 4
          /\ b + 4 \in 3..8 /\ (b + 4) - 3 = b + 1
          /\ b + 1 \in 1..5 /\ (b + 1) - 1 = b
      OBVIOUS
    <3>2. b + 8 \in v5 <=> b + 4 \in v4
      BY <1>14, <3>1
    <3>3. b + 4 \in v4 <=> b + 1 \in v3
      BY <1>13, <3>1
    <3>4. b + 1 \in v3 <=> b \in v2
      BY <1>12, <3>1
    <3>. QED
      BY <1>11, <3>2, <3>3, <3>4
  <2>. QED
    BY <1>3, <2>1, <2>2
<1>17. Field(v5, 7, 0) = efgh \union Shifted(bcd, 4) \union Shifted(a, 7)
  <2>. DEFINE upper == Shifted(bcd, 4)
              top   == Shifted(a, 7)
              sum   == efgh \union upper \union top
              f     == Field(v5, 7, 0)
  <2>1. f = {b \in 0..7 : b \in v5}
    <3>1. 7 - 0 = 7 /\ \A b \in 0..7 : b + 0 = b
      OBVIOUS
    <3>. QED
      BY <3>1, SliceIsField DEF Slice
  <2>2. bcd \in SUBSET Int /\ a \in SUBSET Int
    BY <1>4, <1>5
  <2>3. /\ upper \in SUBSET Int /\ \A b \in Int : b \in upper <=> b - 4 \in bcd
        /\ top \in SUBSET Int /\ \A b \in Int : b \in top <=> b - 7 \in a
    BY <2>2, ShiftedMembers
  <2>. HIDE DEF upper, top, f
  <2>4. upper \in SUBSET (4..6)
    BY <1>5, <2>3
  <2>5. top \in SUBSET (7..7)
    BY <1>4, <2>3
  <2>6. \A b \in 4..6 : b \in v5 <=> b \in upper
    <3>1. ASSUME NEW b \in 4..6
          PROVE  b \in v5 <=> b \in upper
      <4>1. b \in Int /\ b \in 4..12 /\ b - 4 \in 0..2
        OBVIOUS
      <4>2. b \in v5 <=> b - 4 \in bcd
        BY <1>13, <1>14, <4>1
      <4>. QED
        BY <2>3, <4>1, <4>2
    <3>. QED
      BY <3>1
  <2>7. 7 \in v5 <=> 7 \in top
    <3>1. 7 \in v5 <=> 3 \in v4
      BY <1>14
    <3>2. 3 \in v4 <=> 0 \in v3
      BY <1>13
    <3>3. 7 \in top <=> 0 \in a
      BY <2>3
    <3>4. 0 \in v3 <=> 0 \in a
      BY <1>12
    <3>. QED
      BY <3>1, <3>2, <3>3, <3>4
  <2>8. ASSUME NEW b \in 0..7
        PROVE  b \in v5 <=> b \in sum
    <3>1. CASE b \in 0..3
      <4>1. b \notin 4..6 /\ b \notin 7..7
        BY <3>1
      <4>. QED
        BY <1>14, <2>4, <2>5, <3>1, <4>1
    <3>2. CASE b \in 4..6
      <4>1. b \notin 0..3 /\ b \notin 7..7
        BY <3>2
      <4>. QED
        BY <1>6, <2>5, <2>6, <3>2, <4>1
    <3>3. CASE b = 7
      <4>1. 7 \notin 0..3 /\ 7 \notin 4..6
        OBVIOUS
      <4>2. 7 \notin efgh /\ 7 \notin upper
        BY <1>6, <2>4, <4>1
      <4>. QED
        BY <2>7, <3>3, <4>2
    <3>. QED
      BY <3>1, <3>2, <3>3
  <2>9. sum \in SUBSET (0..7)
    <3>1. 0..3 \subseteq 0..7 /\ 4..6 \subseteq 0..7 /\ 7..7 \subseteq 0..7
      OBVIOUS
    <3>2. efgh \subseteq 0..7 /\ upper \subseteq 0..7 /\ top \subseteq 0..7
      BY <1>6, <2>4, <2>5, <3>1, Zenon
    <3>. QED
      BY <3>2, Zenon
  <2>10. f = sum
    <3>. HIDE DEF sum
    <3>. QED
      BY <2>1, <2>8, <2>9
  <2>. QED
    BY <2>10 DEF f, upper, top
<1>. QED
  BY <1>10, <1>15, <1>16, <1>17
  DEF s1, s2, s3, s4, s5, t2, t3, t4, t5, cmode, a, bcd, efgh

\* The immediates, from the word of the instruction on: of A32, ...
LEMMA ArmFieldExpands ==
  ASSUME NEW word
  PROVE  /\ Run(11, 0) # <<>>
         /\ decode_a32_imm(ReadEncodedin(word, Run(11, 0))) = A32ExpandImm(Field(word, 11, 0))
<1>1. IsRun(11, 0, 11, 12) /\ 0..11 = Low(12)
  BY DEF IsRun, Low
<1>2. /\ Run(11, 0) # <<>> /\ ReadEncodedin(word, Run(11, 0)) = Field(word, 11, 0)
      /\ Field(word, 11, 0) \in SUBSET (0..11)
  BY <1>1, RunOf
<1>. QED
  BY <1>1, <1>2, A32ImmediateIsManual

\* ... of Thumb, ...
LEMMA ThumbFieldExpands ==
  ASSUME NEW word
  PROVE  LET enc == <<26>> \o Run(14, 12) \o Run(7, 0)
             imm12 == Field(word, 7, 0) \union Shifted(Field(word, 14, 12), 8)
                        \union Shifted(Field(word, 26, 26), 11)
         IN  enc # <<>> /\ decode_t32_imm(ReadEncodedin(word, enc)) = T32ExpandImm(imm12)
<1>. DEFINE enc == <<26>> \o Run(14, 12) \o Run(7, 0)
            imm12 == Field(word, 7, 0) \union Shifted(Field(word, 14, 12), 8)
                       \union Shifted(Field(word, 26, 26), 11)
<1>1. enc # <<>> /\ ReadEncodedin(word, enc) = imm12 /\ imm12 \in SUBSET Low(12)
  BY ThumbIsSplit, Zenon
<1>. HIDE DEF enc, imm12
<1>2. decode_t32_imm(imm12) = T32ExpandImm(imm12)
  BY <1>1, T32ImmediateIsManual
<1>3. enc # <<>> /\ decode_t32_imm(ReadEncodedin(word, enc)) = T32ExpandImm(imm12)
  BY <1>1, <1>2, Zenon
<1>. QED
  BY <1>3, Zenon DEF enc, imm12

\* ... of VMOV, ...
LEMMA VfpFieldExpands ==
  ASSUME NEW word
  PROVE  LET enc == Run(19, 16) \o Run(3, 0)
             imm8 == Field(word, 3, 0) \union Shifted(Field(word, 19, 16), 4)
         IN  enc # <<>> /\ decode_vfp_imm(Num(ReadEncodedin(word, enc))).imm = VFPExpandImm(imm8)
<1>. DEFINE enc == Run(19, 16) \o Run(3, 0)
            imm8 == Field(word, 3, 0) \union Shifted(Field(word, 19, 16), 4)
<1>1. enc # <<>> /\ ReadEncodedin(word, enc) = imm8 /\ imm8 \in SUBSET Low(8)
  BY VfpIsSplit, Zenon
<1>. HIDE DEF enc, imm8
<1>2. decode_vfp_imm(Num(imm8)) = [ok |-> TRUE, imm |-> VFPExpandImm(imm8)]
  BY <1>1, VfpImmediateIsManual
<1>3. decode_vfp_imm(Num(imm8)).imm = VFPExpandImm(imm8)
  BY <1>2
<1>4. enc # <<>> /\ decode_vfp_imm(Num(ReadEncodedin(word, enc))).imm = VFPExpandImm(imm8)
  BY <1>1, <1>3, Zenon
<1>. QED
  BY <1>4, Zenon DEF enc, imm8

\* The size of a lane.
LEMMA LaneSizes ==
  ASSUME NEW op \in {0, 1}, NEW cmode \in 0..15, cmode = 15 => op = 0
  PROVE  LaneBits(AdvsimdDatatype(op, cmode)) =
           CASE cmode = 14 -> IF op = 1 THEN 64 ELSE 8
             [] cmode \in 8..11 -> 16
             [] OTHER -> 32
<1>1. /\ LaneBits("I32") = 32 /\ LaneBits("I16") = 16 /\ LaneBits("F32") = 32
      /\ LaneBits("I64") = 64 /\ LaneBits("I8") = 8
  BY DEF LaneBits
<1>2. CASE cmode \in 0..7 \union {12, 13}
  <2>1. AdvsimdDatatype(op, cmode) = "I32"
    BY <1>2 DEF AdvsimdDatatype
  <2>. QED
    BY <1>1, <1>2, <2>1
<1>3. CASE cmode \in 8..11
  <2>1. AdvsimdDatatype(op, cmode) = "I16"
    BY <1>3 DEF AdvsimdDatatype
  <2>. QED
    BY <1>1, <1>3, <2>1
<1>4. CASE cmode = 14
  <2>1. AdvsimdDatatype(op, cmode) = IF op = 1 THEN "I64" ELSE "I8"
    BY <1>4 DEF AdvsimdDatatype
  <2>. QED
    BY <1>1, <1>4, <2>1
<1>5. CASE cmode = 15
  <2>1. AdvsimdDatatype(op, cmode) = "F32"
    BY <1>5 DEF AdvsimdDatatype
  <2>. QED
    BY <1>1, <1>5, <2>1
<1>. QED
  BY <1>2, <1>3, <1>4, <1>5

\* ... and of the vectors.
LEMMA VectorFieldExpands ==
  ASSUME NEW word, NEW h \in Nat, UInt(Field(word, 11, 8)) = 15 => 5 \notin word
  PROVE  LET enc   == <<5>> \o Run(11, 8) \o <<h>> \o Run(18, 16) \o Run(3, 0)
             op    == 5 \in word
             cmode == UInt(Field(word, 11, 8))
             imm8  == Field(word, 3, 0) \union Shifted(Field(word, 18, 16), 4)
                        \union Shifted(Field(word, h, h), 7)
             size  == CASE cmode = 14 -> IF op THEN 64 ELSE 8
                        [] cmode \in 8..11 -> 16
                        [] OTHER -> 32
         IN  /\ enc # <<>>
             /\ decode_advsimd_imm(ReadEncodedin(word, enc)) =
                  AdvSIMDExpandImm(op, cmode, imm8) \cap 0..size - 1
<1>. DEFINE enc   == <<5>> \o Run(11, 8) \o <<h>> \o Run(18, 16) \o Run(3, 0)
            raw   == ReadEncodedin(word, enc)
            cmode == UInt(Field(word, 11, 8))
            imm8  == Field(word, 3, 0) \union Shifted(Field(word, 18, 16), 4)
                       \union Shifted(Field(word, h, h), 7)
            size  == CASE cmode = 14 -> IF 5 \in word THEN 64 ELSE 8
                       [] cmode \in 8..11 -> 16
                       [] OTHER -> 32
            one   == IF 12 \in raw THEN 1 ELSE 0
<1>1. /\ enc # <<>> /\ raw \in SUBSET Low(13) /\ (12 \in raw <=> 5 \in word)
      /\ Field(raw, 11, 8) = Field(word, 11, 8) /\ Field(raw, 7, 0) = imm8
  BY VectorIsSplit, Zenon
<1>2. UInt(Field(raw, 11, 8)) = cmode
  BY <1>1, Zenon
<1>3. cmode \in 0..15
  <2>1. 8 + 3 = 11
    OBVIOUS
  <2>. QED
    BY <2>1, NibbleIsField
<1>4. cmode = 15 => 12 \notin raw
  BY <1>1
<1>. HIDE DEF enc, raw, imm8, cmode
<1>5. decode_advsimd_imm(raw) =
        AdvSIMDExpandImm(12 \in raw, UInt(Field(raw, 11, 8)), Field(raw, 7, 0))
          \cap Low(LaneBits(AdvsimdDatatype(one, UInt(Field(raw, 11, 8)))))
  BY <1>1, <1>2, <1>4, AdvsimdImmediateIsManual
<1>6. decode_advsimd_imm(raw) =
        AdvSIMDExpandImm(12 \in raw, cmode, imm8) \cap Low(LaneBits(AdvsimdDatatype(one, cmode)))
  BY <1>1, <1>2, <1>5, Zenon
<1>7. one \in {0, 1} /\ (one = 1 <=> 5 \in word) /\ (cmode = 15 => one = 0)
  BY <1>1, <1>4
<1>. HIDE DEF one
<1>8. LaneBits(AdvsimdDatatype(one, cmode)) = size
  BY <1>3, <1>7, LaneSizes
<1>9. Low(size) = 0..size - 1
  BY Zenon DEF Low
<1>. HIDE DEF size
<1>10. ASSUME NEW p, NEW q, p \in BOOLEAN, q \in BOOLEAN, p <=> q
       PROVE  AdvSIMDExpandImm(p, cmode, imm8) = AdvSIMDExpandImm(q, cmode, imm8)
  BY <1>10
<1>11. AdvSIMDExpandImm(12 \in raw, cmode, imm8) = AdvSIMDExpandImm(5 \in word, cmode, imm8)
  BY <1>1, <1>10
<1>12. enc # <<>> /\ decode_advsimd_imm(raw) =
         AdvSIMDExpandImm(5 \in word, cmode, imm8) \cap 0..size - 1
  BY <1>1, <1>6, <1>8, <1>9, <1>11, Zenon
<1>. QED
  BY <1>12, Zenon DEF enc, raw, imm8, cmode, size

\* The value of a field.
LEMMA FieldValue ==
  ASSUME NEW word, NEW hi, NEW lo, NEW k, NEW n, IsRun(hi, lo, k, n), k <= 30
  PROVE  /\ Run(hi, lo) # <<>>
         /\ Num(ReadEncodedin(word, Run(hi, lo))) = UInt(Field(word, hi, lo))
         /\ Num(Slice(word, hi, lo)) = UInt(Field(word, hi, lo))
         /\ Field(word, hi, lo) \in SUBSET Low(n)
<1>. DEFINE f == Field(word, hi, lo)
<1>1. Run(hi, lo) # <<>> /\ ReadEncodedin(word, Run(hi, lo)) = f /\ f \in SUBSET (0..k)
  BY RunOf
<1>2. Slice(word, hi, lo) = f
  BY SliceIsField DEF IsRun
<1>. HIDE DEF f
<1>3. f \in SUBSET Low(n) /\ f \cap Low(31) = f
  <2>1. 0..k = Low(n) /\ 0..k \subseteq Low(31)
    BY DEF Low, IsRun
  <2>. QED
    BY <1>1, <2>1, Zenon
<1>4. Num(f) = UInt(f)
  BY <1>3, UIntIsNum
<1>. QED
  BY <1>1, <1>2, <1>3, <1>4 DEF f

\* The type and the amount of a shift.
LEMMA ShiftFields ==
  ASSUME NEW word
  PROVE  /\ Run(6, 5) # <<>> /\ Num(ReadEncodedin(word, Run(6, 5))) = UInt(Field(word, 6, 5))
         /\ Num(Slice(word, 6, 5)) = UInt(Field(word, 6, 5))
         /\ UInt(Field(word, 6, 5)) \in 0..3
         /\ Run(11, 7) # <<>> /\ Num(ReadEncodedin(word, Run(11, 7))) = UInt(Field(word, 11, 7))
         /\ UInt(Field(word, 11, 7)) \in Nat
<1>1. IsRun(6, 5, 1, 2) /\ 1 <= 30 /\ IsRun(11, 7, 4, 5) /\ 4 <= 30
  BY DEF IsRun
<1>2. /\ Run(6, 5) # <<>> /\ Num(ReadEncodedin(word, Run(6, 5))) = UInt(Field(word, 6, 5))
      /\ Num(Slice(word, 6, 5)) = UInt(Field(word, 6, 5)) /\ Field(word, 6, 5) \in SUBSET Low(2)
  BY <1>1, FieldValue
<1>3. /\ Run(11, 7) # <<>> /\ Num(ReadEncodedin(word, Run(11, 7))) = UInt(Field(word, 11, 7))
      /\ Num(Slice(word, 11, 7)) = UInt(Field(word, 11, 7))
      /\ Field(word, 11, 7) \in SUBSET Low(5)
  BY <1>1, FieldValue
<1>4. Slice(word, 6, 5) = Field(word, 6, 5) /\ Slice(word, 11, 7) = Field(word, 11, 7)
  BY SliceIsField
<1>5. UInt(Field(word, 6, 5)) \in 0..3
  BY <1>2, <1>4, TwoBitsType
<1>6. UInt(Field(word, 11, 7)) \in Nat
  <2>1. Num(Field(word, 11, 7)) \in 0..31
    BY <1>3, FiveBitsType
  <2>2. Num(Field(word, 11, 7)) = UInt(Field(word, 11, 7))
    BY <1>3, <1>4, Zenon
  <2>. QED
    BY <2>1, <2>2
<1>. QED
  BY <1>2, <1>3, <1>5, <1>6

\* The field of a branch, extended and scaled.
LEMMA BranchField ==
  ASSUME NEW word, NEW k \in 0..30
  PROVE  LET enc == Run(k, 0)
             extended == sign_extend64(ReadEncodedin(word, enc), Len(enc) - 1)
         IN  /\ enc # <<>>
             /\ Scaled(extended, 2) = SignExtend(Shifted(Field(word, k, 0), 1), k + 2, 64)
             /\ Scaled(extended, 4) = SignExtend(Shifted(Field(word, k, 0), 2), k + 3, 64)
<1>. DEFINE enc == Run(k, 0)
            n == k + 1
            f == Field(word, k, 0)
            extended == sign_extend64(ReadEncodedin(word, enc), Len(enc) - 1)
<1>1. IsRun(k, 0, k, n)
  BY DEF IsRun
<1>2. enc # <<>> /\ Len(enc) = n /\ ReadEncodedin(word, enc) = f /\ f \in SUBSET (0..k)
  BY <1>1, RunOf
<1>3. n \in 1..63 /\ n + 1 <= 64 /\ n + 2 <= 64 /\ k = n - 1 /\ k + 2 = n + 1 /\ k + 3 = n + 2
  OBVIOUS
<1>. HIDE DEF enc, n, f
<1>4. f \in SUBSET (0..n - 1)
  BY <1>2, <1>3
<1>5. extended = sign_extend64(f, n - 1)
  BY <1>2
<1>6. /\ Lsl(sign_extend64(f, n - 1), 1, 64) = SignExtend(Shifted(f, 1), n + 1, 64)
      /\ Lsl(sign_extend64(f, n - 1), 2, 64) = SignExtend(Shifted(f, 2), n + 2, 64)
  <2>1. 1 \in 0..63 /\ 2 \in 0..63
    OBVIOUS
  <2>. QED
    BY <1>3, <1>4, <2>1, ExtensionShifts
<1>7. /\ Scaled(extended, 2) = SignExtend(Shifted(f, 1), k + 2, 64)
      /\ Scaled(extended, 4) = SignExtend(Shifted(f, 2), k + 3, 64)
  BY <1>3, <1>5, <1>6, ScaledIsShifted
<1>. QED
  BY <1>2, <1>7 DEF enc, f
=============================================================================
