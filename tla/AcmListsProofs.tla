--------------------------- MODULE AcmListsProofs ---------------------------
(***************************************************************************)
(* What taking the head of a list of descriptors and appending one do to   *)
(* the set of descriptors it holds, and to what the buffers of the list    *)
(* hold one after another (FlattenSeq).  FlattenSeq is a recursive         *)
(* function: its laws are proved by induction for a set of numbers.        *)
(***************************************************************************)
EXTENDS AcmLists, SequencesExt, SequenceTheorems, WellFoundedInduction, TLAPS

(* Concatenation is associative.  The formula is a definition so that the lemma
   can be cited where other sequences are about. *)
Regrouped(a, b, c) == (a \o b) \o c = a \o (b \o c)

LEMMA Regroup ==
  ASSUME NEW A, NEW a \in Seq(A), NEW b \in Seq(A), NEW c \in Seq(A)
  PROVE  Regrouped(a, b, c)
BY ConcatAssociative DEF Regrouped

(* Taking the first entry of a list without repetition removes exactly it. *)
LEMMA TailFacts ==
  ASSUME NEW S, NEW s \in Seq(S), s # <<>>, NoRepeat(s)
  PROVE  /\ Head(s) \in S /\ Tail(s) \in Seq(S)
         /\ NoRepeat(Tail(s))
         /\ In(Head(s), s)
         /\ \A d : In(d, Tail(s)) <=> In(d, s) /\ d # Head(s)
<1>1. /\ Len(s) \in Nat /\ Len(s) > 0
      /\ Tail(s) \in Seq(S) /\ Len(Tail(s)) = Len(s) - 1
      /\ \A i \in 1 .. Len(s) - 1 : Tail(s)[i] = s[i + 1]
      /\ Head(s) = s[1] /\ s[1] \in S
  BY SMT
<1>2. NoRepeat(Tail(s))
  BY <1>1, SMT DEF NoRepeat
<1>3. In(Head(s), s)
  BY <1>1, SMT DEF In
<1>4. ASSUME NEW d PROVE In(d, Tail(s)) <=> In(d, s) /\ d # Head(s)
  <2>1. In(d, Tail(s)) => In(d, s) /\ d # Head(s)
    BY <1>1, SMT DEF In, NoRepeat
  <2>2. ASSUME In(d, s), d # Head(s) PROVE In(d, Tail(s))
    <3>1. PICK i \in 1 .. Len(s) : s[i] = d
      BY <2>2 DEF In
    <3>2. i # 1
      BY <1>1, <2>2, <3>1
    <3>3. i - 1 \in 1 .. Len(Tail(s)) /\ Tail(s)[i - 1] = d
      BY <1>1, <3>1, <3>2, SMT
    <3> QED BY <3>3 DEF In
  <2> QED BY <2>1, <2>2
<1> QED BY <1>1, <1>2, <1>3, <1>4

(* Appending an entry a list does not have adds exactly it. *)
LEMMA AppendFacts ==
  ASSUME NEW S, NEW s \in Seq(S), NEW x \in S, NoRepeat(s), ~In(x, s)
  PROVE  /\ Append(s, x) \in Seq(S)
         /\ NoRepeat(Append(s, x))
         /\ \A d : In(d, Append(s, x)) <=> In(d, s) \/ d = x
<1> DEFINE r == Append(s, x)
<1>1. /\ Len(s) \in Nat /\ r \in Seq(S) /\ Len(r) = Len(s) + 1
      /\ \A i \in 1 .. Len(s) : r[i] = s[i]
      /\ r[Len(s) + 1] = x
  BY SMT
<1> HIDE DEF r
<1>2. NoRepeat(r)
  BY <1>1, SMT DEF NoRepeat, In
<1>3. ASSUME NEW d PROVE In(d, r) <=> In(d, s) \/ d = x
  <2>1. In(d, r) => In(d, s) \/ d = x
    BY <1>1, SMT DEF In
  <2>2. In(d, s) => In(d, r)
    BY <1>1, SMT DEF In
  <2>3. In(x, r)
    BY <1>1, SMT DEF In
  <2> QED BY <2>1, <2>2, <2>3
<1> QED BY <1>1, <1>2, <1>3 DEF r

(* Putting an entry a list does not have in front of it adds exactly it. *)
LEMMA PushFacts ==
  ASSUME NEW S, NEW s \in Seq(S), NEW x \in S, NoRepeat(s), ~In(x, s)
  PROVE  /\ <<x>> \o s \in Seq(S)
         /\ NoRepeat(<<x>> \o s)
         /\ \A d : In(d, <<x>> \o s) <=> In(d, s) \/ d = x
<1> DEFINE r == <<x>> \o s
<1>1. /\ Len(s) \in Nat /\ r \in Seq(S) /\ Len(r) = Len(s) + 1
      /\ \A i \in 1 .. Len(s) : r[i + 1] = s[i]
      /\ r[1] = x
  BY SMT
<1> HIDE DEF r
<1>2. \A i \in 1 .. Len(r) : i = 1 \/ (i - 1 \in 1 .. Len(s) /\ r[i] = s[i - 1])
  <2> SUFFICES ASSUME NEW i \in 1 .. Len(r), i # 1
               PROVE  i - 1 \in 1 .. Len(s) /\ r[i] = s[i - 1]
    OBVIOUS
  <2>1. i - 1 \in 1 .. Len(s) /\ (i - 1) + 1 = i
    BY <1>1, SMT
  <2> QED BY <1>1, <2>1
<1>3. NoRepeat(r)
  <2> SUFFICES ASSUME NEW i \in 1 .. Len(r), NEW j \in 1 .. Len(r), r[i] = r[j] PROVE i = j
    BY DEF NoRepeat
  <2>1. /\ i = 1 \/ (i - 1 \in 1 .. Len(s) /\ r[i] = s[i - 1])
        /\ j = 1 \/ (j - 1 \in 1 .. Len(s) /\ r[j] = s[j - 1])
    BY <1>2
  <2>2. CASE i = 1 \/ j = 1
    BY <1>1, <2>1, <2>2 DEF In
  <2>3. CASE i # 1 /\ j # 1
    <3>1. i - 1 = j - 1
      BY <2>1, <2>3 DEF NoRepeat
    <3> QED BY <1>1, <3>1, SMT
  <2> QED BY <2>2, <2>3
<1>4. ASSUME NEW d PROVE In(d, r) <=> In(d, s) \/ d = x
  <2>1. ASSUME In(d, r) PROVE In(d, s) \/ d = x
    <3>1. PICK i \in 1 .. Len(r) : r[i] = d
      BY <2>1 DEF In
    <3>2. i = 1 \/ (i - 1 \in 1 .. Len(s) /\ r[i] = s[i - 1])
      BY <1>2
    <3> QED BY <1>1, <3>1, <3>2 DEF In
  <2>2. ASSUME In(d, s) PROVE In(d, r)
    <3>1. PICK i \in 1 .. Len(s) : s[i] = d
      BY <2>2 DEF In
    <3>2. i + 1 \in 1 .. Len(r) /\ r[i + 1] = d
      BY <1>1, <3>1, SMT
    <3> QED BY <3>2 DEF In
  <2>3. In(x, r)
    BY <1>1, SMT DEF In
  <2> QED BY <2>1, <2>2, <2>3
<1> QED BY <1>1, <1>3, <1>4 DEF r

-----------------------------------------------------------------------------
NatLess == OpToRel(<, Nat)

(* Induction over the natural numbers for a set of them: a least number outside the set
   would have its predecessor in it. *)
LEMMA SetInduction ==
  ASSUME NEW T \in SUBSET Nat, 0 \in T, \A n \in T : n + 1 \in T
  PROVE  T = Nat
<1> DEFINE R == Nat \ T
<1>1. SUFFICES ASSUME R # {} PROVE FALSE
  OBVIOUS
<1>2. IsWellFoundedOn(NatLess, Nat)
  BY NatLessThanWellFounded, Zenon DEF NatLess
<1>3. PICK x \in R : \A y \in R : ~ (<<y, x>> \in NatLess)
  BY <1>1, <1>2, WFMin
<1>4. \A y, z \in Nat : y < z => <<y, z>> \in NatLess
  BY SMT DEF NatLess, OpToRel
<1>5. x # 0 /\ x - 1 \in Nat /\ x - 1 < x /\ (x - 1) + 1 = x
  BY <1>3, SMT
<1> QED BY <1>3, <1>4, <1>5

-----------------------------------------------------------------------------
(* f holds the partial concatenations of the sequences in s. *)
Flattens(f, s, n) ==
  f = [i \in 1 .. n |-> IF i = 1 THEN s[i] ELSE f[i - 1] \o s[i]]

LEMMA FlattensExists == ASSUME NEW s, NEW n \in Nat PROVE \E f : Flattens(f, s, n)
<1> DEFINE T == {k \in Nat : \E f : Flattens(f, s, k)}
<1>1. 0 \in T
  <2> DEFINE f == [i \in 1 .. 0 |-> s[i]]
  <2>1. f = [i \in 1 .. 0 |-> IF i = 1 THEN s[i] ELSE f[i - 1] \o s[i]]
    BY SMT
  <2> QED BY <2>1 DEF Flattens
<1>2. ASSUME NEW k \in T PROVE k + 1 \in T
  <2>1. PICK f : Flattens(f, s, k)
    OBVIOUS
  <2> DEFINE g == [i \in 1 .. k + 1 |-> IF i = 1 THEN s[i] ELSE f[i - 1] \o s[i]]
  <2>2. \A i \in 1 .. k : g[i] = f[i]
    <3>1. \A i \in 1 .. k : f[i] = IF i = 1 THEN s[i] ELSE f[i - 1] \o s[i]
      BY <2>1 DEF Flattens
    <3>2. \A i \in 1 .. k : i \in 1 .. k + 1
      BY SMT
    <3> QED BY <3>1, <3>2
  <2>3. \A i \in 1 .. k + 1 : i = 1 \/ i - 1 \in 1 .. k
    BY SMT
  <2>4. \A i \in 1 .. k + 1 : g[i] = IF i = 1 THEN s[i] ELSE g[i - 1] \o s[i]
    BY <2>2, <2>3
  <2>5. g = [i \in 1 .. k + 1 |-> g[i]]
    OBVIOUS
  <2> HIDE DEF g
  <2>6. Flattens(g, s, k + 1)
    BY <2>4, <2>5 DEF Flattens
  <2> QED BY <2>6, SMT
<1> HIDE DEF T
<1>3. T = Nat
  <2>1. T \in SUBSET Nat
    BY DEF T
  <2> QED BY <1>1, <1>2, <2>1, SetInduction
<1> QED BY <1>3 DEF T

LEMMA FlattensUnique ==
  ASSUME NEW s, NEW t, NEW f, NEW g, NEW k \in Nat, NEW n \in Nat, k <= n,
         Flattens(f, s, k), Flattens(g, t, n), \A i \in 1 .. k : s[i] = t[i]
  PROVE  \A i \in 1 .. k : f[i] = g[i]
<1> DEFINE T == {j \in Nat : j \in 1 .. k => f[j] = g[j]}
<1>1. 0 \in T
  BY SMT
<1>2. ASSUME NEW j \in T, j + 1 \in 1 .. k PROVE f[j + 1] = g[j + 1]
  <2>1. j + 1 \in 1 .. k /\ j + 1 \in 1 .. n /\ (j + 1) - 1 = j
    BY <1>2, SMT
  <2>2. /\ f[j + 1] = IF j + 1 = 1 THEN s[j + 1] ELSE f[j] \o s[j + 1]
        /\ g[j + 1] = IF j + 1 = 1 THEN t[j + 1] ELSE g[j] \o t[j + 1]
    <3>1. \A i \in 1 .. k : f[i] = IF i = 1 THEN s[i] ELSE f[i - 1] \o s[i]
      BY DEF Flattens
    <3>2. \A i \in 1 .. n : g[i] = IF i = 1 THEN t[i] ELSE g[i - 1] \o t[i]
      BY DEF Flattens
    <3> QED BY <2>1, <3>1, <3>2
  <2>3. s[j + 1] = t[j + 1]
    BY <1>2
  <2>4. j + 1 = 1 \/ j \in 1 .. k
    BY <1>2, SMT
  <2> QED BY <2>2, <2>3, <2>4
<1>3. \A j \in T : j + 1 \in T
  BY <1>2, SMT
<1> HIDE DEF T
<1>4. T = Nat
  <2>1. T \in SUBSET Nat
    BY DEF T
  <2> QED BY <1>1, <1>3, <2>1, SetInduction
<1>5. \A i \in 1 .. k : i \in Nat
  BY SMT
<1> QED BY <1>4, <1>5 DEF T

\* FlattenSeq is the last partial concatenation, by whatever function it is computed.
LEMMA FlattenValue ==
  ASSUME NEW s, NEW n \in Nat \ {0}, Len(s) = n, NEW f, Flattens(f, s, n)
  PROVE  FlattenSeq(s) = f[n]
<1> DEFINE h == CHOOSE g : g = [i \in 1 .. n |-> IF i = 1 THEN s[i] ELSE g[i - 1] \o s[i]]
<1>1. FlattenSeq(s) = h[n]
  BY SMT DEF FlattenSeq
<1>2. Flattens(h, s, n)
  BY FlattensExists DEF Flattens
<1> HIDE DEF h
<1>3. n \in 1 .. n /\ n <= n /\ n \in Nat
  BY SMT
<1>4. h[n] = f[n]
  BY <1>2, <1>3, FlattensUnique
<1> QED BY <1>1, <1>4

LEMMA FlattensType ==
  ASSUME NEW A, NEW s \in Seq(Seq(A)), NEW f, Flattens(f, s, Len(s))
  PROVE  \A i \in 1 .. Len(s) : f[i] \in Seq(A)
<1> DEFINE T == {j \in Nat : j \in 1 .. Len(s) => f[j] \in Seq(A)}
<1>0. Len(s) \in Nat
  BY LenProperties
<1>1. 0 \in T
  BY SMT
<1>2. ASSUME NEW j \in T, j + 1 \in 1 .. Len(s) PROVE f[j + 1] \in Seq(A)
  <2>1. (j + 1) - 1 = j /\ (j + 1 = 1 \/ j \in 1 .. Len(s))
    BY <1>0, <1>2, SMT
  <2>2. f[j + 1] = IF j + 1 = 1 THEN s[j + 1] ELSE f[j] \o s[j + 1]
    BY <1>2, <2>1 DEF Flattens
  <2>3. s[j + 1] \in Seq(A)
    BY <1>2, ElementOfSeq
  <2>4. CASE j + 1 = 1
    BY <2>2, <2>3, <2>4
  <2>5. CASE j + 1 # 1
    BY <2>1, <2>2, <2>3, <2>5, ConcatProperties
  <2> QED BY <2>4, <2>5
<1>3. \A j \in T : j + 1 \in T
  <2>1. \A j \in T : j + 1 \in Nat
    BY SMT
  <2> QED BY <1>2, <2>1
<1> HIDE DEF T
<1>4. T = Nat
  <2>1. T \in SUBSET Nat
    BY DEF T
  <2> QED BY <1>1, <1>3, <2>1, SetInduction
<1>5. \A i \in 1 .. Len(s) : i \in Nat
  BY SMT
<1> QED BY <1>4, <1>5 DEF T

-----------------------------------------------------------------------------
LEMMA FlattenEmpty == ASSUME NEW s, Len(s) = 0 PROVE FlattenSeq(s) = s
BY DEF FlattenSeq

LEMMA FlattenType ==
  ASSUME NEW A, NEW s \in Seq(Seq(A)) PROVE FlattenSeq(s) \in Seq(A)
<1>1. CASE Len(s) = 0
  BY <1>1, FlattenEmpty, EmptySeq
<1>2. CASE Len(s) # 0
  <2>1. Len(s) \in Nat \ {0} /\ Len(s) \in 1 .. Len(s)
    BY <1>2, LenProperties, SMT
  <2>2. PICK f : Flattens(f, s, Len(s))
    BY <2>1, FlattensExists
  <2>3. FlattenSeq(s) = f[Len(s)]
    BY <2>1, <2>2, FlattenValue
  <2> QED BY <2>1, <2>2, <2>3, FlattensType
<1> QED BY <1>1, <1>2

\* What is appended comes last.
LEMMA FlattenAppend ==
  ASSUME NEW A, NEW s \in Seq(Seq(A)), NEW x \in Seq(A)
  PROVE  FlattenSeq(Append(s, x)) = FlattenSeq(s) \o x
<1> DEFINE t == Append(s, x)
           n == Len(s)
<1>1. /\ n \in Nat /\ Len(t) = n + 1 /\ t[n + 1] = x
      /\ \A i \in 1 .. n : t[i] = s[i]
  BY LenProperties, AppendProperties
<1>2. n + 1 \in Nat \ {0} /\ (n + 1) - 1 = n /\ n + 1 \in 1 .. n + 1
  BY <1>1, SMT
<1>3. PICK g : Flattens(g, t, n + 1)
  BY <1>2, FlattensExists
<1>4. FlattenSeq(t) = g[n + 1]
  BY <1>1, <1>2, <1>3, FlattenValue
<1>5. g[n + 1] = IF n + 1 = 1 THEN t[n + 1] ELSE g[n] \o t[n + 1]
  BY <1>2, <1>3 DEF Flattens
<1>6. CASE n = 0
  <2>1. s = <<>> /\ FlattenSeq(s) = <<>>
    BY <1>6, FlattenEmpty, EmptySeq, SMT
  <2>2. n + 1 = 1
    BY <1>6, SMT
  <2> QED BY <1>1, <1>4, <1>5, <2>1, <2>2, ConcatEmptySeq
<1>7. CASE n # 0
  <2>1. n \in Nat \ {0} /\ n \in 1 .. n /\ n + 1 # 1 /\ n <= n /\ n <= n + 1
        /\ n \in Nat /\ n + 1 \in Nat
    BY <1>1, <1>7, SMT
  <2>2. PICK f : Flattens(f, s, n)
    BY <1>1, FlattensExists
  <2>3. FlattenSeq(s) = f[n]
    BY <2>1, <2>2, FlattenValue
  <2> DEFINE m == n + 1
  <2> HIDE DEF t, n, m
  <2>4. \A i \in 1 .. n : s[i] = t[i]
    BY <1>1
  <2>5. \A i \in 1 .. n : f[i] = g[i]
    <3>1. Flattens(g, t, m) /\ m \in Nat /\ n <= m /\ n \in Nat
      BY <1>3, <2>1 DEF m
    <3> QED BY <2>2, <2>4, <3>1, FlattensUnique
  <2>6. f[n] = g[n]
    BY <2>1, <2>5
  <2> QED BY <1>1, <1>4, <1>5, <2>1, <2>3, <2>6 DEF t, n
<1> QED BY <1>6, <1>7

\* What is put in front comes first.
LEMMA FlattenPush ==
  ASSUME NEW A, NEW s \in Seq(Seq(A)), NEW x \in Seq(A)
  PROVE  FlattenSeq(<<x>> \o s) = x \o FlattenSeq(s)
<1> DEFINE t == <<x>> \o s
           n == Len(s)
<1>1. /\ n \in Nat /\ Len(t) = n + 1 /\ t[1] = x
      /\ \A i \in 1 .. n : t[i + 1] = s[i]
      /\ \A i \in 1 .. n : s[i] \in Seq(A)
  BY SMT
<1>2. PICK f : Flattens(f, s, n)
  BY <1>1, FlattensExists
<1>3. \A i \in 1 .. n : f[i] \in Seq(A)
  BY <1>2, FlattensType
<1> HIDE DEF t, n
<1> DEFINE g == [i \in 1 .. n + 1 |-> IF i = 1 THEN x ELSE x \o f[i - 1]]
<1>4. ASSUME NEW i \in 1 .. n + 1 PROVE g[i] = IF i = 1 THEN t[i] ELSE g[i - 1] \o t[i]
  <2>1. CASE i = 1
    BY <1>1, <2>1
  <2>2. CASE i = 2
    <3>1. 1 \in 1 .. n /\ i - 1 = 1 /\ 1 + 1 = i /\ 1 \in 1 .. n + 1 /\ 2 # 1
      BY <1>1, <2>2, SMT
    <3>2. f[1] = s[1]
      BY <1>2, <3>1 DEF Flattens
    <3>3. g[i - 1] = x /\ g[i] = x \o f[1] /\ t[i] = s[1]
      BY <1>1, <2>2, <3>1
    <3> QED BY <2>2, <3>1, <3>2, <3>3
  <2>3. CASE i # 1 /\ i # 2
    <3>1. /\ i - 1 \in 1 .. n /\ i - 2 \in 1 .. n /\ i - 1 # 1 /\ (i - 1) - 1 = i - 2
          /\ (i - 1) + 1 = i /\ i - 1 \in 1 .. n + 1
      BY <1>1, <2>3, SMT
    <3>2. f[i - 1] = f[i - 2] \o s[i - 1]
      BY <1>2, <3>1 DEF Flattens
    <3>3. g[i] = x \o f[i - 1] /\ g[i - 1] = x \o f[i - 2] /\ t[i] = s[i - 1]
      BY <1>1, <2>3, <3>1
    <3>4. x \o (f[i - 2] \o s[i - 1]) = (x \o f[i - 2]) \o s[i - 1]
      <4>1. f[i - 2] \in Seq(A) /\ s[i - 1] \in Seq(A)
        BY <1>1, <1>3, <3>1
      <4>2. x \in Seq(A)
        OBVIOUS
      <4>3. Regrouped(x, f[i - 2], s[i - 1])
        BY <4>1, <4>2, Regroup
      <4> QED BY <4>3 DEF Regrouped
    <3> QED BY <2>3, <3>2, <3>3, <3>4
  <2> QED BY <2>1, <2>2, <2>3
<1>5. Flattens(g, t, n + 1)
  <2>1. g = [i \in 1 .. n + 1 |-> g[i]]
    OBVIOUS
  <2> HIDE DEF g
  <2> QED BY <1>4, <2>1 DEF Flattens
<1>6. n + 1 \in Nat \ {0} /\ n + 1 \in 1 .. n + 1 /\ (n + 1) - 1 = n
  BY <1>1, SMT
<1>7. FlattenSeq(t) = g[n + 1]
  <2> HIDE DEF g
  <2> QED BY <1>1, <1>5, <1>6, FlattenValue
<1>8. CASE n = 0
  <2>1. FlattenSeq(s) = <<>>
    BY <1>8, FlattenEmpty, EmptySeq DEF n
  <2>2. n + 1 = 1
    BY <1>8, SMT
  <2> QED BY <1>6, <1>7, <2>1, <2>2, ConcatEmptySeq DEF t
<1>9. CASE n # 0
  <2>1. n \in Nat \ {0} /\ n + 1 # 1
    BY <1>1, <1>9, SMT
  <2>2. FlattenSeq(s) = f[n]
    BY <1>2, <2>1, FlattenValue DEF n
  <2> QED BY <1>6, <1>7, <2>1, <2>2 DEF t
<1> QED BY <1>8, <1>9

LEMMA AppendPointwise ==
  ASSUME NEW A, NEW s \in Seq(A), NEW x \in A, NEW n, n = Len(s)
  PROVE  Append(s, x) = [i \in 1 .. n + 1 |-> IF i <= n THEN s[i] ELSE x]
<1> DEFINE r == Append(s, x)
<1>1. /\ n \in Nat /\ r \in Seq(A) /\ Len(r) = n + 1
      /\ \A i \in 1 .. n : r[i] = s[i]
      /\ r[n + 1] = x
  BY LenProperties, AppendProperties
<1> HIDE DEF r
<1>2. r = [i \in 1 .. n + 1 |-> r[i]]
  BY <1>1, LenProperties
<1>3. \A i \in 1 .. n + 1 : (i <= n /\ i \in 1 .. n) \/ (~(i <= n) /\ i = n + 1)
  BY <1>1, SMT
<1>4. \A i \in 1 .. n + 1 : r[i] = IF i <= n THEN s[i] ELSE x
  BY <1>1, <1>3
<1>5. r = [i \in 1 .. n + 1 |-> IF i <= n THEN s[i] ELSE x]
  BY <1>2, <1>4
<1> QED BY <1>5 DEF r

-----------------------------------------------------------------------------
(* The two ways in which what waits in a pipe changes: it grows at its end, or a part
   leaves at its front. *)
LEMMA GrowsAtEnd ==
  ASSUME NEW A, NEW w \in Seq(A), NEW x \in Seq(A), x # <<>>, NEW v, v = w \o x
  PROVE  Len(v) > Len(w) /\ SubSeq(v, 1, Len(w)) = w
<1>1. /\ Len(w) \in Nat /\ Len(x) \in Nat \ {0} /\ v \in Seq(A) /\ Len(v) = Len(w) + Len(x)
      /\ \A i \in 1 .. Len(w) + Len(x) : v[i] = IF i <= Len(w) THEN w[i] ELSE x[i - Len(w)]
  BY LenProperties, EmptySeq, ConcatProperties
<1>2. Len(v) > Len(w) /\ \A i \in 1 .. Len(w) : v[i] = w[i] /\ i \in 1 .. Len(v)
  BY <1>1, SMT
<1>3. \A i \in 1 .. Len(w) : v[i] \in A
  BY <1>2, ElementOfSeq
<1> DEFINE u == SubSeq(v, 1, Len(w))
<1>4. u \in Seq(A) /\ Len(u) = Len(w) /\ \A i \in 1 .. Len(w) : u[i] = v[i]
  BY <1>1, <1>3, SMT
<1> HIDE DEF u
<1>5. u = w
  BY <1>2, <1>4, SeqEqual
<1> QED BY <1>2, <1>5 DEF u

LEMMA LeavesAtFront ==
  ASSUME NEW A, NEW x \in Seq(A), x # <<>>, NEW v \in Seq(A)
  PROVE  /\ Len(x) \in 1 .. Len(x \o v)
         /\ x = SubSeq(x \o v, 1, Len(x))
         /\ v = SubSeq(x \o v, Len(x) + 1, Len(x \o v))
<1> DEFINE n == Len(x)
           w == x \o v
<1>1. /\ n \in Nat \ {0} /\ Len(v) \in Nat /\ w \in Seq(A) /\ Len(w) = n + Len(v)
      /\ \A i \in 1 .. n + Len(v) : w[i] = IF i <= n THEN x[i] ELSE v[i - n]
  BY LenProperties, EmptySeq, ConcatProperties
<1> HIDE DEF w
<1>2. n \in 1 .. Len(w)
  BY <1>1, SMT
<1>3. x = SubSeq(w, 1, n)
  <2> DEFINE u == SubSeq(w, 1, n)
  <2>1. \A i \in 1 .. n : w[i] \in A /\ w[i] = x[i]
    BY <1>1, SMT
  <2>2. u \in Seq(A) /\ Len(u) = n /\ \A i \in 1 .. n : u[i] = w[i]
    BY <1>1, <2>1, SMT
  <2> HIDE DEF u
  <2>3. u = x
    BY <2>1, <2>2, SeqEqual
  <2> QED BY <2>3 DEF u
<1>4. v = SubSeq(w, n + 1, Len(w))
  <2> HIDE DEF n
  <2> DEFINE m == Len(v)
             u == SubSeq(w, n + 1, n + m)
  <2>1. \A i \in 1 .. m : w[n + i] \in A /\ w[n + i] = v[i]
    <3>1. \A i \in 1 .. m : n + i \in 1 .. n + m /\ ~(n + i <= n) /\ (n + i) - n = i
      BY <1>1, SMT
    <3>2. \A i \in 1 .. m : v[i] \in A
      BY ElementOfSeq
    <3> QED BY <1>1, <3>1, <3>2
  <2>2. u \in Seq(A) /\ Len(u) = m /\ \A i \in 1 .. m : u[i] = w[n + i]
    <3>1. u = [i \in 1 .. m |-> w[n + i]]
      BY <1>1, SMT
    <3>2. m \in Nat
      BY <1>1
    <3> HIDE DEF u, m
    <3>3. u \in [1 .. m -> A] /\ \A i \in 1 .. m : u[i] = w[n + i]
      BY <2>1, <3>1
    <3>4. u \in Seq(A) /\ Len(u) = m
      BY <3>2, <3>3, SMT
    <3> QED BY <3>3, <3>4
  <2> HIDE DEF u, m
  <2>3. u = v
    BY <2>1, <2>2, SeqEqual DEF m
  <2> QED BY <1>1, <2>3 DEF u, m
<1> QED BY <1>2, <1>3, <1>4 DEF w
=============================================================================
