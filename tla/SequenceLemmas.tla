---------------------------- MODULE SequenceLemmas ----------------------------
(***************************************************************************)
(* Lemmas about the operators on sequences that the models are built from: *)
(* removals, as TopShotMatch and the app make them, and the sequence that  *)
(* lists a set.                                                            *)
(***************************************************************************)
EXTENDS SequencesExt, SequenceTheorems, FiniteSetTheorems,
        WellFoundedInduction, TLAPS

\* A set of numbers that is not empty has a least member.
LEMMA LeastOf ==
    ASSUME NEW I \in SUBSET Nat, I # {}
    PROVE  \E x \in I : \A y \in I : x <= y
<1> DEFINE R == OpToRel(<, Nat)
<1>1. \A x, y \in Nat : y < x => << y, x >> \in R
  BY DEF OpToRel
<1>2. IsWellFoundedOn(R, Nat)
  BY NatLessThanWellFounded
<1> HIDE DEF R
<1>3. PICK x \in I : \A y \in I : << y, x >> \notin R
  BY <1>2, WFMin
<1>4. ASSUME NEW y \in I
      PROVE  x <= y
  <2>1. x \in Nat /\ y \in Nat /\ ~ (y < x)
    BY <1>1, <1>3
  <2> QED BY <2>1
<1> QED BY <1>3, <1>4

\* What holds of 0, and of i + 1 whenever it holds of i, holds of 0 .. n.
LEMMA UpTo ==
    ASSUME NEW n \in Nat, NEW I \in SUBSET (0 .. n), 0 \in I,
           \A i \in 0 .. n - 1 : i \in I => i + 1 \in I
    PROVE  I = 0 .. n
<1> DEFINE rest == (0 .. n) \ I
<1> SUFFICES ASSUME rest # {} PROVE FALSE
  OBVIOUS
<1>1. PICK x \in rest : \A y \in rest : x <= y
  <2>1. rest \in SUBSET Nat
    OBVIOUS
  <2> QED BY <2>1, LeastOf
<1>2. x - 1 \in 0 .. n - 1 /\ x - 1 + 1 = x
  BY <1>1
<1>3. x - 1 \in I
  BY <1>1, <1>2
<1> QED BY <1>1, <1>2, <1>3

\* A loop over 1 .. n on values in V makes step[i] in round i.  Starting with
\* v, f[i] is its value after round i.
IsBody(step, n, V) == step \in [1 .. n -> [V -> V]]

IsRun(f, step, n, V, v) ==
    /\ f \in [0 .. n -> V]
    /\ f[0] = v
    /\ \A i \in 1 .. n : f[i] = step[i][f[i - 1]]

\* A loop has a value after each round.
LEMMA LoopRuns ==
    ASSUME NEW V, NEW n \in Nat, NEW v \in V, NEW step, IsBody(step, n, V)
    PROVE  \E f : IsRun(f, step, n, V, v)
<1> USE DEF IsBody
<1> DEFINE IsLoop(f, k) == /\ f \in [0 .. k -> V]
                           /\ f[0] = v
                           /\ \A i \in 1 .. k : f[i] = step[i][f[i - 1]]
           I == { k \in 0 .. n : \E f : IsLoop(f, k) }
<1>1. 0 \in I
  <2>1. IsLoop([i \in 0 .. 0 |-> v], 0)
    OBVIOUS
  <2> HIDE DEF IsLoop
  <2> QED BY <2>1
<1>2. ASSUME NEW k \in 0 .. n - 1, k \in I PROVE k + 1 \in I
  <2>1. PICK f : IsLoop(f, k)
    BY <1>2
  <2> DEFINE next == step[k + 1][f[k]]
             g == [i \in 0 .. k + 1 |-> IF i = k + 1 THEN next ELSE f[i]]
  <2>2. k \in Nat /\ k + 1 \in 1 .. n
    BY <1>2
  <2>3. f[k] \in V /\ next \in V
    BY <2>1, <2>2
  <2> HIDE DEF next
  <2>4. g \in [0 .. k + 1 -> V] /\ g[0] = v
    BY <2>1, <2>2, <2>3
  <2>5. ASSUME NEW i \in 1 .. k + 1
        PROVE  g[i] = step[i][g[i - 1]]
    <3>1. CASE i = k + 1
      <4>1. g[i] = next /\ g[i - 1] = f[k]
        BY <2>2, <3>1
      <4> QED BY <3>1, <4>1 DEF next
    <3>2. CASE i # k + 1
      <4>1. i \in 1 .. k /\ i \in 0 .. k + 1 /\ i - 1 \in 0 .. k + 1
            /\ i - 1 # k + 1
        BY <2>2, <2>5, <3>2
      <4>2. g[i] = f[i] /\ g[i - 1] = f[i - 1]
        BY <3>2, <4>1
      <4> HIDE DEF g
      <4> QED BY <2>1, <4>1, <4>2
    <3> QED BY <3>1, <3>2
  <2> HIDE DEF g
  <2>6. IsLoop(g, k + 1)
    BY <2>4, <2>5
  <2> HIDE DEF IsLoop
  <2> QED BY <2>2, <2>6
<1> HIDE DEF IsLoop
<1>3. I = 0 .. n
  <2>1. I \in SUBSET (0 .. n)
    OBVIOUS
  <2> HIDE DEF I
  <2> QED BY <1>1, <1>2, <2>1, UpTo
<1>4. n \in I
  <2>1. n \in 0 .. n
    OBVIOUS
  <2> HIDE DEF I
  <2> QED BY <1>3, <2>1
<1> QED BY <1>4 DEF IsLoop, IsRun

\* RemoveAt shifts what comes after the element by one.
LEMMA RemoveAtValue ==
    ASSUME NEW S, NEW s \in Seq(S), NEW i \in 1 .. Len(s)
    PROVE  /\ RemoveAt(s, i) \in Seq(S)
           /\ Len(RemoveAt(s, i)) = Len(s) - 1
           /\ \A j \in 1 .. Len(s) - 1 :
                 RemoveAt(s, i)[j] = IF j < i THEN s[j] ELSE s[j + 1]
<1>1. \A k \in 1 .. Len(s) : s[k] \in S
  OBVIOUS
<1>2. /\ SubSeq(s, 1, i - 1) \in Seq(S) /\ SubSeq(s, i + 1, Len(s)) \in Seq(S)
      /\ Len(SubSeq(s, 1, i - 1)) = i - 1
      /\ Len(SubSeq(s, i + 1, Len(s))) = Len(s) - i
      /\ \A j \in 1 .. i - 1 : SubSeq(s, 1, i - 1)[j] = s[j]
      /\ \A j \in 1 .. Len(s) - i : SubSeq(s, i + 1, Len(s))[j] = s[i + j]
  BY <1>1
<1> DEFINE left == SubSeq(s, 1, i - 1)
           right == SubSeq(s, i + 1, Len(s))
<1>3. RemoveAt(s, i) = left \o right
  BY DEF RemoveAt
<1>4. Len(s) \in Nat /\ i \in Nat
  BY LenProperties
<1> HIDE DEF left, right
<1>5. /\ left \o right \in Seq(S)
      /\ Len(left \o right) = Len(left) + Len(right)
      /\ \A j \in 1 .. Len(left) + Len(right) :
            (left \o right)[j] = IF j <= Len(left) THEN left[j]
                                 ELSE right[j - Len(left)]
  BY <1>2, ConcatProperties DEF left, right
<1>6. /\ Len(left) = i - 1 /\ Len(right) = Len(s) - i
      /\ Len(left) + Len(right) = Len(s) - 1
  <2>1. Len(left) = i - 1 /\ Len(right) = Len(s) - i
    BY <1>2 DEF left, right
  <2>2. i - 1 + (Len(s) - i) = Len(s) - 1
    BY <1>4
  <2> QED BY <2>1, <2>2
<1>7. ASSUME NEW j \in 1 .. Len(s) - 1
      PROVE  (left \o right)[j] = IF j < i THEN s[j] ELSE s[j + 1]
  <2>1. CASE j < i
    <3>1. j \in 1 .. i - 1 /\ j <= Len(left)
      BY <1>4, <1>6, <2>1
    <3> QED BY <1>2, <1>5, <1>6, <2>1, <3>1 DEF left
  <2>2. CASE ~ (j < i)
    <3>1. j - (i - 1) \in 1 .. Len(s) - i /\ ~ (j <= Len(left))
      BY <1>4, <1>6, <2>2
    <3>2. (left \o right)[j] = right[j - (i - 1)]
      BY <1>5, <1>6, <3>1
    <3>3. right[j - (i - 1)] = s[i + (j - (i - 1))]
      BY <1>2, <3>1 DEF right
    <3>4. s[i + (j - (i - 1))] = s[j + 1]
      <4>1. i + (j - (i - 1)) = j + 1
        BY <1>4
      <4> QED BY <4>1
    <3>5. (left \o right)[j] = s[j + 1]
      BY <3>2, <3>3, <3>4
    <3> QED BY <2>2, <3>5
  <2> QED BY <2>1, <2>2
<1> QED BY <1>3, <1>5, <1>6, <1>7

\* What is left was there before.
LEMMA RemoveAtKeeps ==
    ASSUME NEW S, NEW s \in Seq(S), NEW i \in 1 .. Len(s)
    PROVE  /\ RemoveAt(s, i) \in Seq(S)
           /\ Len(RemoveAt(s, i)) = Len(s) - 1
           /\ \A j \in DOMAIN RemoveAt(s, i) :
                 \E k \in DOMAIN s : RemoveAt(s, i)[j] = s[k]
<1> DEFINE rest == RemoveAt(s, i)
<1>1. /\ rest \in Seq(S)
      /\ Len(rest) = Len(s) - 1
      /\ \A j \in 1 .. Len(s) - 1 : rest[j] = IF j < i THEN s[j] ELSE s[j + 1]
  BY RemoveAtValue
<1> HIDE DEF rest
<1>2. DOMAIN rest = 1 .. Len(s) - 1 /\ DOMAIN s = 1 .. Len(s)
  BY <1>1, LenProperties
<1>3. Len(s) \in Nat /\ i \in Nat
  BY LenProperties
<1>4. ASSUME NEW j \in DOMAIN rest
      PROVE  \E k \in DOMAIN s : rest[j] = s[k]
  <2>1. j \in DOMAIN s /\ j + 1 \in DOMAIN s
    BY <1>2, <1>3
  <2> QED BY <1>1, <1>2, <2>1
<1> QED BY <1>1, <1>4 DEF rest

\* Where RemoveFirst removes, it removes at the first index of the element.
LEMMA RemoveFirstIsRemoveAt ==
    ASSUME NEW S, NEW s \in Seq(S), NEW e
    PROVE  \/ RemoveFirst(s, e) = s /\ \A k \in DOMAIN s : s[k] # e
           \/ \E i \in 1 .. Len(s) : s[i] = e /\ RemoveFirst(s, e) = RemoveAt(s, i)
<1>1. CASE \E i \in 1 .. Len(s) : s[i] = e
  <2> DEFINE I == { i \in 1 .. Len(s) : s[i] = e }
  <2>1. I # {} /\ I \in SUBSET Nat
    BY <1>1
  <2>2. Min(I) \in I
    <3>1. \E x \in I : \A y \in I : x <= y
      BY <2>1, LeastOf
    <3> QED BY <3>1 DEF Min
  <2>3. SelectInSeq(s, LAMBDA v : v = e) = Min(I)
    BY <2>1 DEF SelectInSeq
  <2>4. Min(I) \in 1 .. Len(s) /\ s[Min(I)] = e
    BY <2>2
  <2> HIDE DEF I
  <2> QED BY <1>1, <2>3, <2>4 DEF RemoveFirst
<1>2. CASE ~ \E i \in 1 .. Len(s) : s[i] = e
  <2>1. DOMAIN s = 1 .. Len(s)
    BY LenProperties
  <2> QED BY <1>2, <2>1 DEF RemoveFirst
<1> QED BY <1>1, <1>2

\* What is left of a sequence without repetitions does not contain the
\* element, has no repetitions, and was there before.
LEMMA RemoveFirstKeeps ==
    ASSUME NEW S, NEW s \in Seq(S), NEW e
    PROVE  /\ RemoveFirst(s, e) \in Seq(S)
           /\ Range(RemoveFirst(s, e)) \subseteq Range(s)
           /\ IsInjective(s) =>
                 /\ IsInjective(RemoveFirst(s, e))
                 /\ e \notin Range(RemoveFirst(s, e))
<1>1. CASE RemoveFirst(s, e) = s /\ \A k \in DOMAIN s : s[k] # e
  BY <1>1 DEF Range
<1>2. ASSUME NEW i \in 1 .. Len(s), s[i] = e,
             RemoveFirst(s, e) = RemoveAt(s, i)
      PROVE  /\ RemoveFirst(s, e) \in Seq(S)
             /\ Range(RemoveFirst(s, e)) \subseteq Range(s)
             /\ IsInjective(s) =>
                   /\ IsInjective(RemoveFirst(s, e))
                   /\ e \notin Range(RemoveFirst(s, e))
  <2> DEFINE rest == RemoveAt(s, i)
  <2>1. /\ rest \in Seq(S)
        /\ Len(rest) = Len(s) - 1
        /\ \A j \in 1 .. Len(s) - 1 :
              rest[j] = IF j < i THEN s[j] ELSE s[j + 1]
    BY RemoveAtValue
  <2> HIDE DEF rest
  <2>2. /\ DOMAIN rest = 1 .. Len(s) - 1 /\ DOMAIN s = 1 .. Len(s)
        /\ Len(s) \in Nat /\ i \in Nat
    BY <2>1, LenProperties
  <2> DEFINE at(j) == IF j < i THEN j ELSE j + 1
  <2>3. ASSUME NEW j \in DOMAIN rest
        PROVE  /\ at(j) \in DOMAIN s
               /\ at(j) # i
               /\ rest[j] = s[at(j)]
    BY <2>1, <2>2
  <2>4. Range(rest) \subseteq Range(s)
    <3>1. \A j \in DOMAIN rest : \E k \in DOMAIN s : rest[j] = s[k]
      BY <2>3
    <3> QED BY <3>1 DEF Range
  <2>5. ASSUME IsInjective(s)
        PROVE  IsInjective(rest) /\ e \notin Range(rest)
    <3>1. ASSUME NEW j \in DOMAIN rest PROVE rest[j] # e
      BY <1>2, <2>2, <2>3, <2>5 DEF IsInjective
    <3>2. ASSUME NEW j \in DOMAIN rest, NEW k \in DOMAIN rest,
                 rest[j] = rest[k]
          PROVE  j = k
      <4>1. at(j) = at(k)
        <5> HIDE DEF at
        <5> QED BY <2>3, <2>5, <3>2 DEF IsInjective
      <4> QED BY <2>2, <4>1
    <3> QED BY <3>1, <3>2 DEF IsInjective, Range
  <2> QED BY <1>2, <2>1, <2>4, <2>5 DEF rest
<1> QED BY <1>1, <1>2, RemoveFirstIsRemoveAt

\* SetToSeq lists every member of a finite set, once.
LEMMA SetToSeqLists ==
    ASSUME NEW S, IsFiniteSet(S)
    PROVE  /\ SetToSeq(S) \in Seq(S)
           /\ IsInjective(SetToSeq(S))
           /\ Range(SetToSeq(S)) = S
<1> DEFINE n == Cardinality(S)
           f == SetToSeq(S)
<1>1. n \in Nat /\ ExistsBijection(1 .. n, S)
  BY FS_CardinalityType
<1>2. \E g \in [1 .. n -> S] : IsInjective(g)
  BY <1>1 DEF ExistsBijection, Bijection, Injection, IsInjective
<1>3. f \in [1 .. n -> S] /\ IsInjective(f)
  BY <1>2 DEF SetToSeq
<1> HIDE DEF f, n
<1>4. f \in Seq(S)
  BY <1>1, <1>3
<1>5. f \in Injection(1 .. n, S)
  BY <1>3 DEF Injection
<1>6. /\ IsFiniteSet(1 .. n)
      /\ Cardinality(1 .. n) = n
  <2>1. \A k \in Nat : IsFiniteSet(1 .. k) /\ Cardinality(1 .. k) = k
    BY FS_Interval
  <2> QED BY <1>1, <2>1
<1>7. f \in Surjection(1 .. n, S)
  BY <1>5, <1>6, FS_Injection DEF n
<1>8. Range(f) = S
  BY <1>3, <1>7 DEF Surjection, Range
<1> QED BY <1>3, <1>4, <1>8 DEF f
=============================================================================
