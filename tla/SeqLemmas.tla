----------------------------- MODULE SeqLemmas -----------------------------
(***************************************************************************)
(* What the operators on stacks and queues do to the set of elements and   *)
(* to their distinctness, and the algebra of FilterSeq: what it keeps, and *)
(* how it goes through concatenation and another filtering.                *)
(***************************************************************************)
EXTENDS SeqFilter, SequencesExt, WellFoundedInduction, SequenceTheorems, TLAPS

LessNat == {p \in Nat \X Nat : p[1] < p[2]}

\* A non-empty set of natural numbers has a least element.
LEMMA LeastNat ==
  ASSUME NEW T \in SUBSET Nat, T # {}
  PROVE  \E n \in T : \A m \in T : n <= m
<1>1. LessNat = OpToRel(<, Nat)
  BY Zenon DEF OpToRel, LessNat
<1>2. IsWellFoundedOn(LessNat, Nat)
  BY <1>1, NatLessThanWellFounded, Zenon
<1>3. PICK n \in T : \A m \in T : <<m, n>> \notin LessNat
  BY <1>2, WFMin
<1>4. \A m \in T : <<m, n>> \in Nat \X Nat
  OBVIOUS
<1>5. \A m \in T : ~(m < n)
  BY <1>3, <1>4 DEF LessNat
<1> QED
  BY <1>5

\* Induction over the natural numbers for a set, not an operator, of numbers.
LEMMA InductionOverNat ==
  ASSUME NEW S \in SUBSET Nat, 0 \in S, \A n \in S : n + 1 \in S
  PROVE  S = Nat
<1> SUFFICES ASSUME Nat \ S # {}
             PROVE  FALSE
  OBVIOUS
<1>1. PICK n \in Nat \ S : \A m \in Nat \ S : n <= m
  BY LeastNat
<1>2. n # 0 /\ n - 1 \in Nat /\ n - 1 \notin Nat \ S
  BY <1>1
<1>3. n - 1 + 1 \in S
  BY <1>2
<1> QED
  BY <1>1, <1>3

-----------------------------------------------------------------------------
(* Stacks.                                                                 *)

\* Popping the newest element.
LEMMA FrontFacts ==
  ASSUME NEW C, NEW s \in Seq(C), s # <<>>, IsInjective(s)
  PROVE  /\ Last(s) \in C /\ Last(s) \in ToSet(s)
         /\ Front(s) \in Seq(C)
         /\ Len(Front(s)) = Len(s) - 1
         /\ IsInjective(Front(s))
         /\ ToSet(Front(s)) = ToSet(s) \ {Last(s)}
<1> DEFINE n == Len(s)
           f == Front(s)
<1>1. n \in Nat \ {0} /\ DOMAIN s = 1 .. n /\ \A i \in 1 .. n : s[i] \in C
  OBVIOUS
<1>2. f \in Seq(C) /\ Len(f) = n - 1 /\ DOMAIN f = 1 .. n - 1 /\ \A i \in 1 .. n - 1 : f[i] = s[i]
  BY <1>1 DEF Front
<1>3. Last(s) = s[n] /\ Last(s) \in C /\ Last(s) \in ToSet(s)
  BY <1>1 DEF Last, ToSet
<1>4. IsInjective(f)
  BY <1>1, <1>2 DEF IsInjective
<1>5. ToSet(f) \subseteq ToSet(s) \ {Last(s)}
  BY <1>1, <1>2, <1>3 DEF IsInjective, ToSet
<1>6. ToSet(s) \ {Last(s)} \subseteq ToSet(f)
  BY <1>1, <1>2, <1>3 DEF ToSet
<1> QED
  BY <1>2, <1>3, <1>4, <1>5, <1>6

\* Dropping the oldest element.
LEMMA TailFacts ==
  ASSUME NEW C, NEW s \in Seq(C), s # <<>>, IsInjective(s)
  PROVE  /\ Head(s) \in C /\ Head(s) \in ToSet(s)
         /\ Tail(s) \in Seq(C)
         /\ Len(Tail(s)) = Len(s) - 1
         /\ IsInjective(Tail(s))
         /\ ToSet(Tail(s)) = ToSet(s) \ {Head(s)}
<1> DEFINE n == Len(s)
           t == Tail(s)
<1>1. n \in Nat \ {0} /\ DOMAIN s = 1 .. n /\ \A i \in 1 .. n : s[i] \in C
  OBVIOUS
<1>2. t \in Seq(C) /\ Len(t) = n - 1 /\ DOMAIN t = 1 .. n - 1 /\ \A i \in 1 .. n - 1 : t[i] = s[i + 1]
  BY <1>1
<1>3. Head(s) = s[1] /\ Head(s) \in C /\ Head(s) \in ToSet(s)
  BY <1>1 DEF ToSet
<1> HIDE DEF t
<1>4. IsInjective(t)
  <2> SUFFICES ASSUME NEW a \in 1 .. n - 1, NEW b \in 1 .. n - 1, t[a] = t[b]
               PROVE  a = b
    BY <1>2 DEF IsInjective
  <2>1. a + 1 \in DOMAIN s /\ b + 1 \in DOMAIN s /\ s[a + 1] = s[b + 1]
    BY <1>1, <1>2
  <2>2. a + 1 = b + 1
    BY <2>1 DEF IsInjective
  <2> QED
    BY <2>2
<1>5. ToSet(t) \subseteq ToSet(s) \ {Head(s)}
  <2> SUFFICES ASSUME NEW i \in 1 .. n - 1
               PROVE  t[i] \in ToSet(s) /\ t[i] # s[1]
    BY <1>2, <1>3 DEF ToSet
  <2>1. t[i] = s[i + 1] /\ i + 1 \in DOMAIN s /\ 1 \in DOMAIN s /\ i + 1 # 1
    BY <1>1, <1>2
  <2>2. s[i + 1] # s[1]
    BY <2>1 DEF IsInjective
  <2> QED
    BY <2>1, <2>2 DEF ToSet
<1>6. ToSet(s) \ {Head(s)} \subseteq ToSet(t)
  <2> SUFFICES ASSUME NEW i \in 2 .. n
               PROVE  s[i] \in ToSet(t)
    BY <1>1, <1>3 DEF ToSet
  <2>1. i - 1 \in 1 .. n - 1 /\ t[i - 1] = s[i]
    BY <1>1, <1>2
  <2> QED
    BY <1>2, <2>1 DEF ToSet
<1> QED
  BY <1>2, <1>3, <1>4, <1>5, <1>6 DEF t

\* Pushing an element that is not there.
LEMMA AppendFacts ==
  ASSUME NEW C, NEW s \in Seq(C), NEW c \in C, IsInjective(s), c \notin ToSet(s)
  PROVE  /\ Append(s, c) \in Seq(C)
         /\ Len(Append(s, c)) = Len(s) + 1
         /\ IsInjective(Append(s, c))
         /\ ToSet(Append(s, c)) = ToSet(s) \cup {c}
<1> DEFINE n == Len(s)
           t == Append(s, c)
<1>1. n \in Nat /\ DOMAIN s = 1 .. n
  OBVIOUS
<1>2. t \in Seq(C) /\ Len(t) = n + 1 /\ DOMAIN t = 1 .. n + 1 /\ t[n + 1] = c
      /\ \A i \in 1 .. n : t[i] = s[i]
  BY <1>1
<1> HIDE DEF t
<1>3. IsInjective(t)
  BY <1>1, <1>2 DEF IsInjective, ToSet
<1>4. ToSet(t) = ToSet(s) \cup {c}
  <2>1. ToSet(t) \subseteq ToSet(s) \cup {c}
    BY <1>1, <1>2 DEF ToSet
  <2>2. ToSet(s) \cup {c} \subseteq ToSet(t)
    BY <1>1, <1>2 DEF ToSet
  <2> QED
    BY <2>1, <2>2
<1> QED
  BY <1>2, <1>3, <1>4 DEF t

\* The empty stack.
LEMMA EmptyFacts ==
  \A C : <<>> \in Seq(C) /\ Len(<<>>) = 0 /\ IsInjective(<<>>) /\ ToSet(<<>>) = {}
BY DEF IsInjective, ToSet

-----------------------------------------------------------------------------
(* Sequences at large.                                                     *)

\* Induction over the sequences of C, for a set of sequences.
LEMMA InductionOverSeq ==
  ASSUME NEW C, NEW S \in SUBSET Seq(C), <<>> \in S,
         \A s \in S, c \in C : Append(s, c) \in S
  PROVE  S = Seq(C)
<1> DEFINE L == {n \in Nat : \A s \in Seq(C) : Len(s) = n => s \in S}
<1>1. 0 \in L
  <2>1. \A s \in Seq(C) : Len(s) = 0 => s = <<>>
    BY EmptySeq
  <2> QED
    BY <2>1
<1>2. ASSUME NEW n \in L
      PROVE  n + 1 \in L
  <2> SUFFICES ASSUME NEW s \in Seq(C), Len(s) = n + 1
               PROVE  s \in S
    OBVIOUS
  <2>1. n \in Nat /\ s # <<>>
    OBVIOUS
  <2>2. PICK t \in Seq(C), c \in C : s = Append(t, c)
    BY <2>1, SequenceEmptyOrAppend
  <2>3. Len(t) = n
    BY <2>1, <2>2
  <2> QED
    BY <2>2, <2>3
<1>3. L \in SUBSET Nat
  OBVIOUS
<1>4. L = Nat
  <2> HIDE DEF L
  <2> QED
    BY <1>1, <1>2, <1>3, InductionOverNat
<1>5. ASSUME NEW s \in Seq(C)
      PROVE  s \in S
  <2>1. Len(s) \in L
    <3>1. Len(s) \in Nat
      OBVIOUS
    <3> HIDE DEF L
    <3> QED
      BY <1>4, <3>1
  <2> QED
    BY <2>1
<1> QED
  BY <1>5

\* What Append does to the set of elements.
LEMMA AppendSet ==
  ASSUME NEW C, NEW s \in Seq(C), NEW c \in C
  PROVE  /\ Append(s, c) \in Seq(C)
         /\ Len(Append(s, c)) = Len(s) + 1
         /\ ToSet(Append(s, c)) = ToSet(s) \cup {c}
<1> DEFINE n == Len(s)
           t == Append(s, c)
<1>1. n \in Nat /\ DOMAIN s = 1 .. n
  OBVIOUS
<1>2. t \in Seq(C) /\ Len(t) = n + 1 /\ DOMAIN t = 1 .. n + 1 /\ t[n + 1] = c
      /\ \A i \in 1 .. n : t[i] = s[i]
  BY <1>1
<1> HIDE DEF t
<1>3. ToSet(t) \subseteq ToSet(s) \cup {c}
  BY <1>1, <1>2 DEF ToSet
<1>4. ToSet(s) \cup {c} \subseteq ToSet(t)
  BY <1>1, <1>2 DEF ToSet
<1> QED
  BY <1>2, <1>3, <1>4 DEF t

\* An element that is pushed is not there when nothing is there twice.
LEMMA AppendedOnce ==
  ASSUME NEW C, NEW s \in Seq(C), NEW c \in C, IsInjective(Append(s, c))
  PROVE  IsInjective(s) /\ c \notin ToSet(s)
<1>1. Len(s) \in Nat /\ DOMAIN s = 1 .. Len(s)
  OBVIOUS
<1>2. PICK t : t = Append(s, c)
  OBVIOUS
<1>3. DOMAIN t = 1 .. Len(s) + 1 /\ t[Len(s) + 1] = c /\ \A i \in 1 .. Len(s) : t[i] = s[i]
  BY <1>1, <1>2
<1>4. \A i \in 1 .. Len(s) + 1, j \in 1 .. Len(s) + 1 : t[i] = t[j] => i = j
  BY <1>2, <1>3 DEF IsInjective
<1>5. IsInjective(s)
  BY <1>1, <1>3, <1>4 DEF IsInjective
<1>6. c \notin ToSet(s)
  BY <1>1, <1>3, <1>4 DEF ToSet
<1> QED
  BY <1>5, <1>6

\* One list after another.
LEMMA JoinFacts ==
  ASSUME NEW C, NEW s \in Seq(C), NEW t \in Seq(C),
         IsInjective(s), IsInjective(t), ToSet(s) \cap ToSet(t) = {}
  PROVE  s \o t \in Seq(C) /\ IsInjective(s \o t) /\ ToSet(s \o t) = ToSet(s) \cup ToSet(t)
<1>1. Len(s) \in Nat /\ Len(t) \in Nat /\ DOMAIN s = 1 .. Len(s) /\ DOMAIN t = 1 .. Len(t)
  OBVIOUS
<1>2. PICK r \in Seq(C) : r = s \o t
  <2>1. s \o t \in Seq(C)
    OBVIOUS
  <2> QED
    BY <2>1
<1>3. /\ DOMAIN r = 1 .. Len(s) + Len(t)
      /\ \A i \in 1 .. Len(s) : r[i] = s[i]
      /\ \A i \in Len(s) + 1 .. Len(s) + Len(t) : r[i] = t[i - Len(s)]
  BY <1>1, <1>2
<1>4. \A i \in 1 .. Len(t) : Len(s) + i \in Len(s) + 1 .. Len(s) + Len(t) /\ r[Len(s) + i] = t[i]
  BY <1>1, <1>3
<1>5. \A i \in DOMAIN r : \/ i \in DOMAIN s /\ r[i] = s[i]
                          \/ i - Len(s) \in DOMAIN t /\ i \notin DOMAIN s /\ r[i] = t[i - Len(s)]
  <2>1. ASSUME NEW i \in DOMAIN r, i \in DOMAIN s
        PROVE  r[i] = s[i]
    BY <1>1, <1>3, <2>1
  <2>2. ASSUME NEW i \in DOMAIN r, i \notin DOMAIN s
        PROVE  i - Len(s) \in DOMAIN t /\ r[i] = t[i - Len(s)]
    <3>1. i \in Len(s) + 1 .. Len(s) + Len(t) /\ i - Len(s) \in 1 .. Len(t)
      BY <1>1, <1>3, <2>2
    <3> QED
      BY <1>1, <1>3, <3>1
  <2> QED
    BY <2>1, <2>2
<1>6. \A i \in DOMAIN s : i \in DOMAIN r /\ s[i] = r[i]
  BY <1>1, <1>3
<1>7. \A i \in DOMAIN t : Len(s) + i \in DOMAIN r /\ t[i] = r[Len(s) + i]
  BY <1>1, <1>3, <1>4
<1>8. ToSet(r) = ToSet(s) \cup ToSet(t)
  <2>1. ToSet(r) \subseteq ToSet(s) \cup ToSet(t)
    BY <1>5 DEF ToSet
  <2>2. ToSet(s) \subseteq ToSet(r)
    BY <1>6 DEF ToSet
  <2>3. ToSet(t) \subseteq ToSet(r)
    BY <1>7 DEF ToSet
  <2> QED
    BY <2>1, <2>2, <2>3
<1>9. IsInjective(r)
  <2> SUFFICES ASSUME NEW i \in DOMAIN r, NEW j \in DOMAIN r, r[i] = r[j]
               PROVE  i = j
    BY DEF IsInjective
  <2>1. \A a \in DOMAIN s, b \in DOMAIN t : s[a] # t[b]
    BY DEF ToSet
  <2>2. CASE i \in DOMAIN s /\ j \in DOMAIN s
    BY <1>5, <1>6, <2>2 DEF IsInjective
  <2>3. CASE i \notin DOMAIN s /\ j \notin DOMAIN s
    <3>1. /\ i - Len(s) \in DOMAIN t /\ j - Len(s) \in DOMAIN t
          /\ t[i - Len(s)] = t[j - Len(s)]
      BY <1>5, <2>3
    <3>2. i - Len(s) = j - Len(s)
      BY <3>1 DEF IsInjective
    <3>3. i \in Int /\ j \in Int
      BY <1>1, <1>3
    <3> QED
      BY <1>1, <3>2, <3>3
  <2> QED
    BY <1>5, <2>1, <2>2, <2>3
<1> QED
  BY <1>2, <1>8, <1>9

-----------------------------------------------------------------------------
(* The filtering loop.                                                     *)

\* The copy after i elements.
IsCopy(copy, s, K, n) ==
  copy = [i \in 0 .. n |->
            IF i = 0 THEN <<>>
            ELSE IF s[i] \in K THEN Append(copy[i - 1], s[i]) ELSE copy[i - 1]]

\* The loop runs through: there is such a sequence of copies.
LEMMA CopyExists ==
  ASSUME NEW s, NEW K, NEW n \in Nat
  PROVE  \E copy : IsCopy(copy, s, K, n)
<1> DEFINE S == {m \in Nat : \E copy : IsCopy(copy, s, K, m)}
<1>1. 0 \in S
  <2>1. IsCopy([i \in 0 .. 0 |-> <<>>], s, K, 0)
    BY DEF IsCopy
  <2> QED
    BY <2>1
<1>2. ASSUME NEW m \in S
      PROVE  m + 1 \in S
  <2>1. PICK f : IsCopy(f, s, K, m)
    OBVIOUS
  <2> DEFINE e == IF s[m + 1] \in K THEN Append(f[m], s[m + 1]) ELSE f[m]
             g == [i \in 0 .. m + 1 |-> IF i = m + 1 THEN e ELSE f[i]]
  <2>2. m \in Nat /\ \A i \in 0 .. m : g[i] = f[i]
    OBVIOUS
  <2>3. g[m + 1] = e
    OBVIOUS
  <2>4. \A i \in 0 .. m + 1 :
          g[i] = IF i = 0 THEN <<>>
                 ELSE IF s[i] \in K THEN Append(g[i - 1], s[i]) ELSE g[i - 1]
    <3> SUFFICES ASSUME NEW i \in 0 .. m + 1
                 PROVE  g[i] = IF i = 0 THEN <<>>
                               ELSE IF s[i] \in K THEN Append(g[i - 1], s[i]) ELSE g[i - 1]
      OBVIOUS
    <3>1. \A j \in 0 .. m : f[j] = IF j = 0 THEN <<>>
                               ELSE IF s[j] \in K THEN Append(f[j - 1], s[j]) ELSE f[j - 1]
      BY <2>1 DEF IsCopy
    <3> HIDE DEF g
    <3>2. CASE i \in 0 .. m
      <4>1. i = 0 \/ i - 1 \in 0 .. m
        BY <2>2, <3>2
      <4> QED
        BY <2>2, <3>1, <3>2, <4>1
    <3>3. CASE i = m + 1
      <4>1. i # 0 /\ i - 1 = m /\ m \in 0 .. m
        BY <2>2, <3>3
      <4> QED
        BY <2>2, <2>3, <3>3, <4>1
    <3> QED
      BY <2>2, <3>2, <3>3
  <2>5. IsCopy(g, s, K, m + 1)
    <3>1. g = [i \in 0 .. m + 1 |-> g[i]]
      OBVIOUS
    <3> HIDE DEF g
    <3> QED
      BY <2>4, <3>1 DEF IsCopy
  <2> HIDE DEF g
  <2> QED
    BY <2>2, <2>5
<1> HIDE DEF S
<1>3. S = Nat
  <2>1. S \in SUBSET Nat
    BY DEF S
  <2> QED
    BY <1>1, <1>2, <2>1, InductionOverNat
<1> QED
  BY <1>3 DEF S

\* The loop has run through.
LEMMA FilterCopy ==
  ASSUME NEW C, NEW s \in Seq(C), NEW K
  PROVE  \E f : IsCopy(f, s, K, Len(s)) /\ FilterSeq(s, K) = f[Len(s)]
<1> DEFINE f == CHOOSE copy : IsCopy(copy, s, K, Len(s))
<1>1. Len(s) \in Nat
  OBVIOUS
<1>2. IsCopy(f, s, K, Len(s))
  BY <1>1, CopyExists
<1>3. FilterSeq(s, K) = f[Len(s)]
  BY DEF FilterSeq, IsCopy
<1> HIDE DEF f
<1> QED
  BY <1>2, <1>3

\* What it does with one more element.
LEMMA FilterAppend ==
  ASSUME NEW C, NEW s \in Seq(C), NEW c \in C, NEW K
  PROVE  FilterSeq(Append(s, c), K) =
           IF c \in K THEN Append(FilterSeq(s, K), c) ELSE FilterSeq(s, K)
<1> DEFINE t == Append(s, c)
           n == Len(s)
<1>1. n \in Nat /\ t \in Seq(C) /\ Len(t) = n + 1 /\ t[n + 1] = c /\ \A i \in 1 .. n : t[i] = s[i]
  OBVIOUS
<1>2. PICK f : IsCopy(f, s, K, n) /\ FilterSeq(s, K) = f[n]
  BY FilterCopy
<1>3. PICK g : IsCopy(g, t, K, n + 1) /\ FilterSeq(t, K) = g[n + 1]
  BY <1>1, FilterCopy
<1> HIDE DEF t
<1>4. \A i \in 0 .. n : f[i] = IF i = 0 THEN <<>>
                            ELSE IF s[i] \in K THEN Append(f[i - 1], s[i]) ELSE f[i - 1]
  BY <1>2 DEF IsCopy
<1>5. \A i \in 0 .. n + 1 : g[i] = IF i = 0 THEN <<>>
                            ELSE IF t[i] \in K THEN Append(g[i - 1], t[i]) ELSE g[i - 1]
  BY <1>3 DEF IsCopy
<1> DEFINE S == {i \in Nat : i <= n => f[i] = g[i]}
<1>6. 0 \in S
  <2>1. 0 \in 0 .. n /\ 0 \in 0 .. n + 1
    BY <1>1
  <2>2. f[0] = <<>> /\ g[0] = <<>>
    BY <1>4, <1>5, <2>1
  <2> QED
    BY <2>2
<1>7. ASSUME NEW i \in S
      PROVE  i + 1 \in S
  <2> SUFFICES ASSUME i + 1 <= n
               PROVE  f[i + 1] = g[i + 1]
    BY <1>1
  <2>1. i \in Nat /\ f[i] = g[i] /\ t[i + 1] = s[i + 1]
    BY <1>1
  <2>2. i + 1 \in 0 .. n /\ i + 1 \in 0 .. n + 1 /\ i + 1 # 0 /\ i + 1 - 1 = i
    BY <1>1, <2>1
  <2>3. f[i + 1] = IF s[i + 1] \in K THEN Append(f[i], s[i + 1]) ELSE f[i]
    BY <1>4, <2>2
  <2>4. g[i + 1] = IF t[i + 1] \in K THEN Append(g[i], t[i + 1]) ELSE g[i]
    BY <1>5, <2>2
  <2> QED
    BY <2>1, <2>3, <2>4
<1>8. S \in SUBSET Nat
  OBVIOUS
<1>9. n \in S
  <2> HIDE DEF S
  <2> QED
    BY <1>1, <1>6, <1>7, <1>8, InductionOverNat
<1>10. f[n] = g[n]
  BY <1>1, <1>9
<1>11. g[n + 1] = IF c \in K THEN Append(g[n], c) ELSE g[n]
  <2>1. n + 1 \in 0 .. n + 1 /\ n + 1 # 0 /\ n + 1 - 1 = n
    BY <1>1
  <2> QED
    BY <1>1, <1>5, <2>1
<1> QED
  BY <1>2, <1>3, <1>10, <1>11 DEF t

LEMMA FilterEmpty == \A K : FilterSeq(<<>>, K) = <<>>
<1> SUFFICES ASSUME NEW K PROVE FilterSeq(<<>>, K) = <<>>
  OBVIOUS
<1>1. <<>> \in Seq({}) /\ Len(<<>>) = 0
  OBVIOUS
<1>2. PICK f : IsCopy(f, <<>>, K, 0) /\ FilterSeq(<<>>, K) = f[0]
  BY <1>1, FilterCopy
<1> QED
  BY <1>2 DEF IsCopy

\* It is no longer than the list, and has the elements of the list that are
\* to stay.
LEMMA FilterKeeps ==
  ASSUME NEW C, NEW s \in Seq(C), NEW K
  PROVE  /\ FilterSeq(s, K) \in Seq(C)
         /\ Len(FilterSeq(s, K)) <= Len(s)
         /\ ToSet(FilterSeq(s, K)) = ToSet(s) \cap K
<1> DEFINE S == {t \in Seq(C) : /\ FilterSeq(t, K) \in Seq(C)
                                /\ Len(FilterSeq(t, K)) <= Len(t)
                                /\ ToSet(FilterSeq(t, K)) = ToSet(t) \cap K}
<1>1. <<>> \in S
  <2>1. FilterSeq(<<>>, K) = <<>>
    BY FilterEmpty
  <2>2. <<>> \in Seq(C) /\ Len(<<>>) <= Len(<<>>) /\ ToSet(<<>>) = ToSet(<<>>) \cap K
    BY EmptyFacts
  <2> QED
    BY <2>1, <2>2
<1>2. ASSUME NEW t \in S, NEW c \in C
      PROVE  Append(t, c) \in S
  <2> DEFINE f == FilterSeq(t, K)
             u == Append(t, c)
  <2>1. t \in Seq(C) /\ f \in Seq(C) /\ Len(f) <= Len(t) /\ ToSet(f) = ToSet(t) \cap K
    OBVIOUS
  <2>2. FilterSeq(u, K) = IF c \in K THEN Append(f, c) ELSE f
    BY <2>1, FilterAppend
  <2> HIDE DEF f
  <2>3. u \in Seq(C) /\ Len(u) = Len(t) + 1 /\ ToSet(u) = ToSet(t) \cup {c}
    BY <2>1, AppendSet
  <2>4. Append(f, c) \in Seq(C) /\ Len(Append(f, c)) = Len(f) + 1
        /\ ToSet(Append(f, c)) = ToSet(f) \cup {c}
    BY <2>1, AppendSet
  <2> HIDE DEF u
  <2>5. Len(f) \in Nat /\ Len(t) \in Nat
    BY <2>1
  <2>6. FilterSeq(u, K) \in Seq(C) /\ Len(FilterSeq(u, K)) <= Len(u)
    BY <2>1, <2>2, <2>3, <2>4, <2>5
  <2>7. ToSet(FilterSeq(u, K)) = ToSet(u) \cap K
    BY <2>1, <2>2, <2>3, <2>4
  <2> QED
    BY <2>3, <2>6, <2>7 DEF u
<1>3. S \in SUBSET Seq(C)
  OBVIOUS
<1>4. s \in S
  <2> HIDE DEF S
  <2> QED
    BY <1>1, <1>2, <1>3, InductionOverSeq
<1> QED
  BY <1>4

\* FilterSeq keeps the elements of K, each once if each was there once, and
\* grows nothing.
LEMMA FilterFacts ==
  ASSUME NEW C, NEW s \in Seq(C), NEW K, IsInjective(s)
  PROVE  /\ FilterSeq(s, K) \in Seq(C)
         /\ Len(FilterSeq(s, K)) <= Len(s)
         /\ IsInjective(FilterSeq(s, K))
         /\ ToSet(FilterSeq(s, K)) = ToSet(s) \cap K
<1> DEFINE S == {t \in Seq(C) : IsInjective(t) => IsInjective(FilterSeq(t, K))}
<1>1. <<>> \in S
  BY EmptyFacts, FilterEmpty
<1>2. ASSUME NEW t \in S, NEW c \in C
      PROVE  Append(t, c) \in S
  <2> DEFINE f == FilterSeq(t, K)
             u == Append(t, c)
  <2>1. t \in Seq(C) /\ (IsInjective(t) => IsInjective(f))
    OBVIOUS
  <2>2. f \in Seq(C) /\ ToSet(f) = ToSet(t) \cap K
    BY <2>1, FilterKeeps
  <2>3. FilterSeq(u, K) = IF c \in K THEN Append(f, c) ELSE f
    BY <2>1, FilterAppend
  <2>4. u \in Seq(C)
    BY <2>1
  <2> HIDE DEF f
  <2>5. ASSUME IsInjective(u)
        PROVE  IsInjective(FilterSeq(u, K))
    <3>1. IsInjective(t) /\ c \notin ToSet(t)
      <4>1. t \in Seq(C) /\ c \in C /\ IsInjective(Append(t, c))
        BY <2>1, <2>5
      <4> HIDE DEF S
      <4> QED
        BY <4>1, AppendedOnce
    <3>2. IsInjective(f) /\ c \notin ToSet(f)
      BY <2>1, <2>2, <3>1
    <3>3. IsInjective(Append(f, c))
      BY <2>2, <3>2, AppendFacts
    <3> QED
      BY <2>3, <3>2, <3>3
  <2> QED
    BY <2>4, <2>5
<1>3. S \in SUBSET Seq(C)
  OBVIOUS
<1>4. S = Seq(C)
  <2> HIDE DEF S
  <2> QED
    BY <1>1, <1>2, <1>3, InductionOverSeq
<1> QED
  BY <1>4, FilterKeeps

\* Appending to the second half.
LEMMA ConcatAppend ==
  ASSUME NEW C, NEW s \in Seq(C), NEW t \in Seq(C), NEW c \in C
  PROVE  s \o Append(t, c) = Append(s \o t, c)
<1>1. s \o Append(t, c) \in Seq(C) /\ Append(s \o t, c) \in Seq(C)
  OBVIOUS
<1>2. Len(s \o Append(t, c)) = Len(Append(s \o t, c))
  OBVIOUS
<1>3. \A i \in 1 .. Len(s \o Append(t, c)) : (s \o Append(t, c))[i] = Append(s \o t, c)[i]
  OBVIOUS
<1> QED
  BY <1>1, <1>2, <1>3, SeqEqual

\* Filtering in two halves.
LEMMA FilterConcat ==
  ASSUME NEW C, NEW s \in Seq(C), NEW t \in Seq(C), NEW K
  PROVE  FilterSeq(s \o t, K) = FilterSeq(s, K) \o FilterSeq(t, K)
<1> DEFINE S == {u \in Seq(C) : FilterSeq(s \o u, K) = FilterSeq(s, K) \o FilterSeq(u, K)}
<1>1. <<>> \in S
  <2>1. FilterSeq(<<>>, K) = <<>> /\ FilterSeq(s, K) \in Seq(C)
    BY FilterEmpty, FilterKeeps
  <2>2. s \o <<>> = s /\ FilterSeq(s, K) \o <<>> = FilterSeq(s, K)
    BY <2>1, ConcatEmptySeq
  <2> QED
    BY <2>1, <2>2
<1>2. ASSUME NEW u \in S, NEW c \in C
      PROVE  Append(u, c) \in S
  <2>1. u \in Seq(C) /\ FilterSeq(s \o u, K) = FilterSeq(s, K) \o FilterSeq(u, K)
    OBVIOUS
  <2>2. s \o u \in Seq(C) /\ FilterSeq(s, K) \in Seq(C) /\ FilterSeq(u, K) \in Seq(C)
    BY <2>1, FilterKeeps
  <2>3. s \o Append(u, c) = Append(s \o u, c)
    BY <2>1, ConcatAppend
  <2>4. FilterSeq(Append(s \o u, c), K) =
          IF c \in K THEN Append(FilterSeq(s \o u, K), c) ELSE FilterSeq(s \o u, K)
    <3> DEFINE v == s \o u
    <3>1. v \in Seq(C)
      BY <2>2
    <3> HIDE DEF v
    <3>2. FilterSeq(Append(v, c), K) = IF c \in K THEN Append(FilterSeq(v, K), c) ELSE FilterSeq(v, K)
      BY <3>1, FilterAppend
    <3> QED
      BY <3>2 DEF v
  <2>5. FilterSeq(Append(u, c), K) =
          IF c \in K THEN Append(FilterSeq(u, K), c) ELSE FilterSeq(u, K)
    BY <2>1, FilterAppend
  <2>6. FilterSeq(s, K) \o Append(FilterSeq(u, K), c) = Append(FilterSeq(s, K) \o FilterSeq(u, K), c)
    BY <2>2, ConcatAppend
  <2>7. Append(u, c) \in Seq(C)
    BY <2>1
  <2> QED
    BY <2>1, <2>3, <2>4, <2>5, <2>6, <2>7
<1>3. S \in SUBSET Seq(C)
  OBVIOUS
<1>4. t \in S
  <2> HIDE DEF S
  <2> QED
    BY <1>1, <1>2, <1>3, InductionOverSeq
<1> QED
  BY <1>4

\* A list none of which stays, and one that stays as it is.
LEMMA FilterNone ==
  ASSUME NEW C, NEW s \in Seq(C), NEW K, ToSet(s) \cap K = {}
  PROVE  FilterSeq(s, K) = <<>>
<1>1. FilterSeq(s, K) \in Seq(C) /\ ToSet(FilterSeq(s, K)) = {}
  BY FilterKeeps
<1> DEFINE f == FilterSeq(s, K)
<1> HIDE DEF f
<1>2. ASSUME f # <<>> PROVE FALSE
  <2>1. f \in Seq(C) /\ ToSet(f) = {}
    BY <1>1 DEF f
  <2>2. 1 \in DOMAIN f
    BY <1>2, <2>1, EmptySeq
  <2> QED
    BY <2>1, <2>2 DEF ToSet
<1> QED
  BY <1>2 DEF f

LEMMA FilterAll ==
  ASSUME NEW C, NEW s \in Seq(C), NEW K, ToSet(s) \subseteq K
  PROVE  FilterSeq(s, K) = s
<1> DEFINE S == {t \in Seq(C) : ToSet(t) \subseteq K => FilterSeq(t, K) = t}
<1>1. <<>> \in S
  BY FilterEmpty, EmptySeq
<1>2. ASSUME NEW t \in S, NEW c \in C
      PROVE  Append(t, c) \in S
  <2>1. t \in Seq(C) /\ (ToSet(t) \subseteq K => FilterSeq(t, K) = t)
    OBVIOUS
  <2>2. Append(t, c) \in Seq(C) /\ ToSet(Append(t, c)) = ToSet(t) \cup {c}
    BY <2>1, AppendSet
  <2>3. FilterSeq(Append(t, c), K) = IF c \in K THEN Append(FilterSeq(t, K), c) ELSE FilterSeq(t, K)
    BY <2>1, FilterAppend
  <2> QED
    BY <2>1, <2>2, <2>3
<1>3. S \in SUBSET Seq(C)
  OBVIOUS
<1>4. s \in S
  <2> HIDE DEF S
  <2> QED
    BY <1>1, <1>2, <1>3, InductionOverSeq
<1> QED
  BY <1>4

\* Filtering twice, and filtering by what makes no difference.
LEMMA FilterTwice ==
  ASSUME NEW C, NEW s \in Seq(C), NEW K, NEW L
  PROVE  FilterSeq(FilterSeq(s, K), L) = FilterSeq(s, K \cap L)
<1> DEFINE S == {t \in Seq(C) : FilterSeq(FilterSeq(t, K), L) = FilterSeq(t, K \cap L)}
<1>1. <<>> \in S
  <2>1. FilterSeq(<<>>, K) = <<>> /\ FilterSeq(<<>>, L) = <<>> /\ FilterSeq(<<>>, K \cap L) = <<>>
    BY FilterEmpty
  <2> QED
    BY <2>1, EmptySeq
<1>2. ASSUME NEW t \in S, NEW c \in C
      PROVE  Append(t, c) \in S
  <2>1. t \in Seq(C) /\ FilterSeq(FilterSeq(t, K), L) = FilterSeq(t, K \cap L)
    OBVIOUS
  <2>2. Append(t, c) \in Seq(C) /\ FilterSeq(t, K) \in Seq(C)
    BY <2>1, FilterKeeps
  <2>3. FilterSeq(Append(t, c), K) = IF c \in K THEN Append(FilterSeq(t, K), c) ELSE FilterSeq(t, K)
    BY <2>1, FilterAppend
  <2>4. FilterSeq(Append(t, c), K \cap L) =
          IF c \in K \cap L THEN Append(FilterSeq(t, K \cap L), c) ELSE FilterSeq(t, K \cap L)
    BY <2>1, FilterAppend
  <2>5. FilterSeq(Append(FilterSeq(t, K), c), L) =
          IF c \in L THEN Append(FilterSeq(FilterSeq(t, K), L), c) ELSE FilterSeq(FilterSeq(t, K), L)
    BY <2>2, FilterAppend, ZenonT(60)
  <2>6. FilterSeq(FilterSeq(Append(t, c), K), L) = FilterSeq(Append(t, c), K \cap L)
    <3>1. CASE c \in K
      <4>1. FilterSeq(Append(t, c), K) = Append(FilterSeq(t, K), c)
        BY <2>3, <3>1
      <4>2. c \in L <=> c \in K \cap L
        BY <3>1
      <4> QED
        BY <2>1, <2>4, <2>5, <4>1, <4>2, Zenon
    <3>2. CASE c \notin K
      <4>1. FilterSeq(Append(t, c), K) = FilterSeq(t, K) /\ c \notin K \cap L
        BY <2>3, <3>2
      <4> QED
        BY <2>1, <2>4, <4>1, Zenon
    <3> QED
      BY <3>1, <3>2
  <2> QED
    BY <2>2, <2>6
<1>3. S \in SUBSET Seq(C)
  OBVIOUS
<1>4. s \in S
  <2> HIDE DEF S
  <2> QED
    BY <1>1, <1>2, <1>3, InductionOverSeq
<1> QED
  BY <1>4

LEMMA FilterSame ==
  ASSUME NEW C, NEW s \in Seq(C), NEW K, NEW L, ToSet(s) \cap K = ToSet(s) \cap L
  PROVE  FilterSeq(s, K) = FilterSeq(s, L)
<1>1. FilterSeq(s, ToSet(s)) = s
  BY FilterAll
<1>2. FilterSeq(FilterSeq(s, ToSet(s)), K) = FilterSeq(s, ToSet(s) \cap K)
  BY FilterTwice
<1>3. FilterSeq(FilterSeq(s, ToSet(s)), L) = FilterSeq(s, ToSet(s) \cap L)
  BY FilterTwice
<1> QED
  BY <1>1, <1>2, <1>3

\* What stays and what goes make up the list.
LEMMA FilterParts ==
  ASSUME NEW C, NEW s \in Seq(C), NEW K, NEW L, K \cap L = {}, ToSet(s) \subseteq K \cup L
  PROVE  Len(FilterSeq(s, K)) + Len(FilterSeq(s, L)) = Len(s)
<1> DEFINE S == {t \in Seq(C) : ToSet(t) \subseteq K \cup L =>
                    Len(FilterSeq(t, K)) + Len(FilterSeq(t, L)) = Len(t)}
<1>1. <<>> \in S
  <2>1. FilterSeq(<<>>, K) = <<>> /\ FilterSeq(<<>>, L) = <<>>
    BY FilterEmpty
  <2>2. <<>> \in Seq(C) /\ Len(<<>>) = 0
    BY EmptySeq
  <2> QED
    BY <2>1, <2>2
<1>2. ASSUME NEW t \in S, NEW c \in C
      PROVE  Append(t, c) \in S
  <2> SUFFICES ASSUME ToSet(Append(t, c)) \subseteq K \cup L
               PROVE  Len(FilterSeq(Append(t, c), K)) + Len(FilterSeq(Append(t, c), L)) = Len(Append(t, c))
    <3>1. Append(t, c) \in Seq(C)
      OBVIOUS
    <3> QED
      BY <3>1
  <2>1. t \in Seq(C)
    OBVIOUS
  <2>2. Len(Append(t, c)) = Len(t) + 1 /\ ToSet(Append(t, c)) = ToSet(t) \cup {c}
    BY <2>1, AppendSet
  <2>3. Len(FilterSeq(t, K)) + Len(FilterSeq(t, L)) = Len(t)
    BY <2>2
  <2>4. FilterSeq(t, K) \in Seq(C) /\ FilterSeq(t, L) \in Seq(C)
    BY <2>1, FilterKeeps
  <2>5. Len(Append(FilterSeq(t, K), c)) = Len(FilterSeq(t, K)) + 1
        /\ Len(Append(FilterSeq(t, L), c)) = Len(FilterSeq(t, L)) + 1
        /\ Len(FilterSeq(t, K)) \in Nat /\ Len(FilterSeq(t, L)) \in Nat
    BY <2>4
  <2>6. FilterSeq(Append(t, c), K) = IF c \in K THEN Append(FilterSeq(t, K), c) ELSE FilterSeq(t, K)
    BY <2>1, FilterAppend
  <2>7. FilterSeq(Append(t, c), L) = IF c \in L THEN Append(FilterSeq(t, L), c) ELSE FilterSeq(t, L)
    BY <2>1, FilterAppend
  <2>8. CASE c \in K /\ c \notin L
    <3>1. FilterSeq(Append(t, c), K) = Append(FilterSeq(t, K), c)
          /\ FilterSeq(Append(t, c), L) = FilterSeq(t, L)
      BY <2>6, <2>7, <2>8
    <3>2. Len(FilterSeq(Append(t, c), K)) = Len(FilterSeq(t, K)) + 1
          /\ Len(FilterSeq(Append(t, c), L)) = Len(FilterSeq(t, L))
      BY <2>5, <3>1, Zenon
    <3> QED
      BY <2>2, <2>3, <2>5, <3>2
  <2>9. CASE c \in L /\ c \notin K
    <3>1. FilterSeq(Append(t, c), L) = Append(FilterSeq(t, L), c)
          /\ FilterSeq(Append(t, c), K) = FilterSeq(t, K)
      BY <2>6, <2>7, <2>9
    <3>2. Len(FilterSeq(Append(t, c), L)) = Len(FilterSeq(t, L)) + 1
          /\ Len(FilterSeq(Append(t, c), K)) = Len(FilterSeq(t, K))
      BY <2>5, <3>1, Zenon
    <3> QED
      BY <2>2, <2>3, <2>5, <3>2
  <2> QED
    BY <2>2, <2>8, <2>9
<1>3. S \in SUBSET Seq(C)
  OBVIOUS
<1>4. s \in S
  <2> HIDE DEF S
  <2> QED
    BY <1>1, <1>2, <1>3, InductionOverSeq
<1> QED
  BY <1>4

-----------------------------------------------------------------------------
(* Cutting off and taking out are filterings of a list without duplicates. *)

\* Both halves of a list without duplicates.
LEMMA HalvesFacts ==
  ASSUME NEW C, NEW s \in Seq(C), IsInjective(s), NEW n \in 0 .. Len(s)
  PROVE  LET a == SubSeq(s, 1, n)
             b == SubSeq(s, n + 1, Len(s))
         IN /\ a \in Seq(C) /\ b \in Seq(C) /\ a \o b = s
            /\ ToSet(a) = {s[i] : i \in 1 .. n}
            /\ ToSet(a) \cap ToSet(b) = {} /\ ToSet(a) \cup ToSet(b) = ToSet(s)
<1> DEFINE a == SubSeq(s, 1, n)
           b == SubSeq(s, n + 1, Len(s))
<1>1. Len(s) \in Nat /\ n \in Nat /\ n <= Len(s) /\ DOMAIN s = 1 .. Len(s) /\ \A i \in 1 .. Len(s) : s[i] \in C
  OBVIOUS
<1>2. a \in Seq(C) /\ Len(a) = n /\ \A i \in 1 .. n : a[i] = s[i]
  <2>1. /\ a \in Seq(C) /\ Len(a) = IF 1 <= n THEN n - 1 + 1 ELSE 0
        /\ \A i \in 1 .. n - 1 + 1 : a[i] = s[1 + i - 1]
    BY <1>1, SubSeqProperties
  <2> HIDE DEF a
  <2> QED
    BY <1>1, <2>1
<1>3. b \in Seq(C) /\ Len(b) = Len(s) - n /\ \A i \in 1 .. Len(s) - n : b[i] = s[n + i]
  <2>1. /\ b \in Seq(C) /\ Len(b) = IF n + 1 <= Len(s) THEN Len(s) - (n + 1) + 1 ELSE 0
        /\ \A i \in 1 .. Len(s) - (n + 1) + 1 : b[i] = s[n + 1 + i - 1]
    BY <1>1, SubSeqProperties
  <2> HIDE DEF b
  <2>2. \A k \in Nat, m \in Nat :
          m <= k => k - (m + 1) + 1 = k - m /\ (m + 1 <= k \/ k - m = 0)
    OBVIOUS
  <2>3. \A i \in 1 .. Len(s) - n : n + 1 + i - 1 = n + i
    BY <1>1
  <2>4. Len(b) = Len(s) - n
    BY <1>1, <2>1, <2>2
  <2> QED
    BY <2>1, <2>2, <2>3, <2>4
<1>4. a \o b = s
  <2>1. 1 \in 1 .. Len(s) + 1 /\ n \in 1 - 1 .. Len(s) /\ Len(s) \in n .. Len(s)
    BY <1>1
  <2>2. a \o b = SubSeq(s, 1, Len(s))
    BY <2>1, ConcatAdjacentSubSeq
  <2> QED
    BY <2>2, SubSeqFull
<1> HIDE DEF a, b
<1>5. DOMAIN a = 1 .. n /\ DOMAIN b = 1 .. Len(s) - n
  BY <1>1, <1>2, <1>3
<1>6. ToSet(a) = {s[i] : i \in 1 .. n}
  BY <1>2, <1>5 DEF ToSet
<1>7. ToSet(b) = {s[i] : i \in n + 1 .. Len(s)}
  <2>1. \A i \in 1 .. Len(s) - n : n + i \in n + 1 .. Len(s) /\ b[i] = s[n + i]
    BY <1>1, <1>3
  <2>2. \A i \in n + 1 .. Len(s) : i - n \in 1 .. Len(s) - n /\ b[i - n] = s[i]
    BY <1>1, <1>3
  <2>3. ToSet(b) = {b[i] : i \in 1 .. Len(s) - n}
    BY <1>5 DEF ToSet
  <2>4. {b[i] : i \in 1 .. Len(s) - n} \subseteq {s[i] : i \in n + 1 .. Len(s)}
    BY <2>1
  <2>5. {s[i] : i \in n + 1 .. Len(s)} \subseteq {b[i] : i \in 1 .. Len(s) - n}
    BY <2>2
  <2> QED
    BY <2>3, <2>4, <2>5
<1>8. ToSet(a) \cap ToSet(b) = {}
  <2>1. ASSUME NEW i \in 1 .. n, NEW j \in n + 1 .. Len(s), s[i] = s[j]
        PROVE  FALSE
    BY <1>1, <2>1 DEF IsInjective
  <2> QED
    BY <1>6, <1>7, <2>1
<1>9. ToSet(a) \cup ToSet(b) = ToSet(s)
  <2>1. ToSet(s) = {s[i] : i \in 1 .. Len(s)}
    BY <1>1 DEF ToSet
  <2>2. \A i \in 1 .. Len(s) : i \in 1 .. n \/ i \in n + 1 .. Len(s)
    BY <1>1
  <2>3. \A i \in 1 .. n : i \in 1 .. Len(s)
    BY <1>1
  <2>4. \A i \in n + 1 .. Len(s) : i \in 1 .. Len(s)
    BY <1>1
  <2> QED
    BY <1>6, <1>7, <2>1, <2>2, <2>3, <2>4
<1> QED
  BY <1>2, <1>3, <1>4, <1>6, <1>8, <1>9 DEF a, b

\* Cutting off the front is filtering out what is in it.
LEMMA CutIsFilter ==
  ASSUME NEW C, NEW s \in Seq(C), IsInjective(s), NEW n \in 0 .. Len(s)
  PROVE  SubSeq(s, n + 1, Len(s)) = FilterSeq(s, C \ ToSet(SubSeq(s, 1, n)))
<1> DEFINE a == SubSeq(s, 1, n)
           b == SubSeq(s, n + 1, Len(s))
           K == C \ ToSet(a)
<1>1. /\ a \in Seq(C) /\ b \in Seq(C) /\ a \o b = s
      /\ ToSet(a) \cap ToSet(b) = {}
  BY HalvesFacts
<1> HIDE DEF a, b
<1>2. ToSet(b) \subseteq C
  BY <1>1 DEF ToSet
<1>3. FilterSeq(s, K) = FilterSeq(a, K) \o FilterSeq(b, K)
  <2> HIDE DEF K
  <2>1. a \in Seq(C) /\ b \in Seq(C)
    BY <1>1
  <2>2. FilterSeq(a \o b, K) = FilterSeq(a, K) \o FilterSeq(b, K)
    BY <2>1, FilterConcat
  <2> QED
    BY <1>1, <2>2
<1>4. ToSet(a) \cap K = {} /\ ToSet(b) \subseteq K
  BY <1>1, <1>2
<1> HIDE DEF K
<1>5. FilterSeq(a, K) = <<>>
  BY <1>1, <1>4, FilterNone
<1>6. FilterSeq(b, K) = b
  BY <1>1, <1>4, FilterAll
<1>7. <<>> \o b = b
  BY <1>1, ConcatEmptySeq
<1> QED
  BY <1>3, <1>5, <1>6, <1>7 DEF a, b, K

\* Taking out one element.
LEMMA RemoveIsFilter ==
  ASSUME NEW C, NEW s \in Seq(C), IsInjective(s), NEW c \in C
  PROVE  RemoveFirst(s, c) = FilterSeq(s, C \ {c})
<1> DEFINE K == C \ {c}
<1>1. Len(s) \in Nat /\ DOMAIN s = 1 .. Len(s) /\ ToSet(s) \subseteq C
  BY DEF ToSet
<1>2. CASE ~ \E i \in 1 .. Len(s) : s[i] = c
  <2>1. RemoveFirst(s, c) = s
    BY <1>2 DEF RemoveFirst
  <2>2. ToSet(s) \subseteq K
    BY <1>1, <1>2 DEF ToSet
  <2> HIDE DEF K
  <2>3. FilterSeq(s, K) = s
    BY <2>2, FilterAll
  <2> QED
    BY <2>1, <2>3 DEF K
<1>3. CASE \E i \in 1 .. Len(s) : s[i] = c
  <2>1. PICK i \in 1 .. Len(s) : s[i] = c
    BY <1>3
  <2>2. {j \in 1 .. Len(s) : s[j] = c} = {i}
    BY <1>1, <2>1 DEF IsInjective
  <2>3. SelectInSeq(s, LAMBDA v : v = c) = i
    BY <1>1, <2>1, <2>2 DEF SelectInSeq, Min
  <2>4. RemoveFirst(s, c) = SubSeq(s, 1, i - 1) \o SubSeq(s, i + 1, Len(s))
    BY <1>3, <2>3 DEF RemoveFirst, RemoveAt
  <2> DEFINE a == SubSeq(s, 1, i - 1)
             b == SubSeq(s, i, Len(s))
             d == SubSeq(s, i + 1, Len(s))
  <2>5. i - 1 \in 0 .. Len(s) /\ i \in 0 .. Len(s) /\ i - 1 + 1 = i
    BY <1>1, <2>1
  <2>6. a \in Seq(C) /\ b \in Seq(C) /\ a \o b = s /\ ToSet(a) \cap ToSet(b) = {}
    <3> DEFINE m == i - 1
               e == SubSeq(s, m + 1, Len(s))
    <3>1. /\ a \in Seq(C) /\ e \in Seq(C) /\ a \o e = s
          /\ ToSet(a) \cap ToSet(e) = {}
      <4>1. m \in 0 .. Len(s)
        BY <2>5
      <4> HIDE DEF m
      <4> QED
        BY <4>1, HalvesFacts DEF m
    <3>2. e = b
      BY <2>5
    <3> QED
      BY <3>1, <3>2
  <2>7. d \in Seq(C) /\ ToSet(SubSeq(s, 1, i)) \cap ToSet(d) = {}
        /\ ToSet(SubSeq(s, 1, i)) = {s[j] : j \in 1 .. i}
    <3> DEFINE e == SubSeq(s, 1, i)
    <3>1. /\ e \in Seq(C) /\ d \in Seq(C) /\ e \o d = s
          /\ ToSet(e) = {s[j] : j \in 1 .. i}
          /\ ToSet(e) \cap ToSet(d) = {} /\ ToSet(e) \cup ToSet(d) = ToSet(s)
      BY <2>5, HalvesFacts
    <3> QED
      BY <3>1
  <2>8. b = <<c>> \o d
    <3>1. i \in 1 .. Len(s) /\ Len(s) \in i .. Len(s)
      BY <1>1, <2>1
    <3> QED
      BY <2>1, <3>1, SubSeqRecursiveFirst
  <2> HIDE DEF a, b, d
  <2>9. <<c>> \in Seq(C) /\ ToSet(<<c>>) = {c}
    BY DEF ToSet
  <2>10. c \in ToSet(b)
    <3>1. 1 \in DOMAIN b /\ b[1] = c
      BY <2>7, <2>8, <2>9
    <3> QED
      BY <3>1 DEF ToSet
  <2>11. c \notin ToSet(a) /\ c \notin ToSet(d)
    <3>1. i \in 1 .. i
      BY <2>1
    <3> QED
      BY <2>1, <2>6, <2>7, <2>10, <3>1
  <2>12. ToSet(a) \subseteq K /\ ToSet(d) \subseteq K /\ ToSet(<<c>>) \cap K = {}
    <3>1. ToSet(a) \subseteq C /\ ToSet(d) \subseteq C
      BY <2>6, <2>7 DEF ToSet
    <3> QED
      BY <2>9, <2>11, <3>1
  <2> HIDE DEF K
  <2>13. FilterSeq(a, K) = a /\ FilterSeq(d, K) = d /\ FilterSeq(<<c>>, K) = <<>>
    BY <2>6, <2>7, <2>9, <2>12, FilterAll, FilterNone
  <2>14. FilterSeq(b, K) = FilterSeq(<<c>>, K) \o FilterSeq(d, K)
    <3> DEFINE e == <<c>>
    <3>1. e \in Seq(C)
      BY <2>9
    <3> HIDE DEF e
    <3>2. FilterSeq(e \o d, K) = FilterSeq(e, K) \o FilterSeq(d, K)
      BY <2>7, <3>1, FilterConcat
    <3> QED
      BY <2>8, <3>2 DEF e
  <2>15. FilterSeq(s, K) = FilterSeq(a, K) \o FilterSeq(b, K)
    <3>1. a \in Seq(C) /\ b \in Seq(C)
      BY <2>6
    <3>2. FilterSeq(a \o b, K) = FilterSeq(a, K) \o FilterSeq(b, K)
      BY <3>1, FilterConcat
    <3> QED
      BY <2>6, <3>2
  <2>16. <<>> \o d = d
    BY <2>7, ConcatEmptySeq
  <2> QED
    BY <2>4, <2>13, <2>14, <2>15, <2>16 DEF a, d, K
<1> QED
  BY <1>2, <1>3
=============================================================================
