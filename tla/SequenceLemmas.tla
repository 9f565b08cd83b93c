--------------------------- MODULE SequenceLemmas ---------------------------
(***************************************************************************)
(* What the proofs of this project need to know of sequences.               *)
(*                                                                          *)
(* The queues (free slots, parked requests, calls to be sent) never hold an *)
(* element twice, so each is as good as the set of its elements plus an     *)
(* order: the first part says what Append, Tail and RemoveAt do to such a   *)
(* sequence.  The texts of a request are built by concatenation: the second *)
(* part has induction over a sequence, and what FlattenSeq does.            *)
(***************************************************************************)
EXTENDS SequencesExt, SequenceTheorems, WellFoundedInduction, TLAPS

(* The first element leaves a distinct sequence, and nothing else does. *)
LEMMA TailDistinct ==
  ASSUME NEW S, NEW s \in Seq(S), s # <<>>, IsInjective(s)
  PROVE  /\ Tail(s) \in Seq(S)
         /\ Len(Tail(s)) = Len(s) - 1
         /\ Head(s) \in S
         /\ Head(s) \in ToSet(s)
         /\ IsInjective(Tail(s))
         /\ ToSet(Tail(s)) = ToSet(s) \ {Head(s)}
<1> DEFINE t == Tail(s)
<1>1. /\ Head(s) \in S
      /\ t \in Seq(S)
      /\ Len(t) = Len(s) - 1
      /\ \A i \in 1 .. Len(t) : t[i] = s[i + 1]
  BY HeadTailProperties
<1>2. /\ Len(s) \in Nat \ {0}
      /\ DOMAIN s = 1 .. Len(s)
      /\ DOMAIN t = 1 .. Len(t)
      /\ Head(s) = s[1]
  BY <1>1
<1> HIDE DEF t
<1>3. IsInjective(t)
  <2> SUFFICES ASSUME NEW i \in 1 .. Len(t), NEW j \in 1 .. Len(t), t[i] = t[j]
               PROVE  i = j
    BY <1>2 DEF IsInjective
  <2>1. i + 1 \in DOMAIN s /\ j + 1 \in DOMAIN s /\ s[i + 1] = s[j + 1]
    BY <1>1, <1>2
  <2>2. i + 1 = j + 1
    BY <2>1 DEF IsInjective
  <2> QED  BY <2>2, <1>1, <1>2
<1>4. ToSet(t) \subseteq ToSet(s) \ {Head(s)}
  <2> SUFFICES ASSUME NEW i \in 1 .. Len(t)
               PROVE  t[i] \in ToSet(s) /\ t[i] # s[1]
    BY <1>2 DEF ToSet
  <2>1. i + 1 \in DOMAIN s /\ t[i] = s[i + 1] /\ 1 \in DOMAIN s /\ i + 1 # 1
    BY <1>1, <1>2
  <2> QED  BY <2>1 DEF ToSet, IsInjective
<1>5. ToSet(s) \ {Head(s)} \subseteq ToSet(t)
  <2> SUFFICES ASSUME NEW i \in 1 .. Len(s), s[i] # s[1]
               PROVE  s[i] \in ToSet(t)
    BY <1>2 DEF ToSet
  <2>1. i - 1 \in 1 .. Len(t) /\ t[i - 1] = s[(i - 1) + 1] /\ (i - 1) + 1 = i
    BY <1>1, <1>2
  <2> QED  BY <2>1, <1>2 DEF ToSet
<1>6. Head(s) \in ToSet(s)
  BY <1>2 DEF ToSet
<1> QED  BY <1>1, <1>3, <1>4, <1>5, <1>6 DEF t

(* A new element joins a distinct sequence at its end. *)
LEMMA AppendDistinct ==
  ASSUME NEW S, NEW s \in Seq(S), NEW e \in S, IsInjective(s), e \notin ToSet(s)
  PROVE  /\ Append(s, e) \in Seq(S)
         /\ Len(Append(s, e)) = Len(s) + 1
         /\ IsInjective(Append(s, e))
         /\ ToSet(Append(s, e)) = ToSet(s) \cup {e}
BY AppendProperties DEF IsInjective, ToSet

(* Only the element at the given place leaves a distinct sequence. *)
LEMMA RemoveAtDistinct ==
  ASSUME NEW S, NEW s \in Seq(S), NEW k \in DOMAIN s, IsInjective(s)
  PROVE  /\ RemoveAt(s, k) \in Seq(S)
         /\ IsInjective(RemoveAt(s, k))
         /\ ToSet(RemoveAt(s, k)) = ToSet(s) \ {s[k]}
<1> DEFINE t == RemoveAt(s, k)
           a == SubSeq(s, 1, k - 1)
           b == SubSeq(s, k + 1, Len(s))
<1>1. /\ Len(s) \in Nat
      /\ DOMAIN s = 1 .. Len(s)
      /\ k \in 1 .. Len(s)
      /\ \A i \in 1 .. Len(s) : s[i] \in S
  OBVIOUS
<1>2. /\ a \in Seq(S)
      /\ Len(a) = k - 1
      /\ \A i \in 1 .. k - 1 : a[i] = s[i]
  <2>1. /\ a \in Seq(S)
        /\ Len(a) = IF 1 <= k - 1 THEN (k - 1) - 1 + 1 ELSE 0
        /\ \A i \in 1 .. (k - 1) - 1 + 1 : a[i] = s[1 + i - 1]
    <3>1. 1 \in Int /\ k - 1 \in Int /\ \A i \in 1 .. k - 1 : s[i] \in S
      BY <1>1
    <3> QED  BY <3>1, SubSeqProperties
  <2> QED  BY <2>1, <1>1
<1>3. /\ b \in Seq(S)
      /\ Len(b) = Len(s) - k
      /\ \A i \in 1 .. Len(s) - k : b[i] = s[k + i]
  <2>1. /\ b \in Seq(S)
        /\ Len(b) = IF k + 1 <= Len(s) THEN Len(s) - (k + 1) + 1 ELSE 0
        /\ \A i \in 1 .. Len(s) - (k + 1) + 1 : b[i] = s[(k + 1) + i - 1]
    <3>1. k + 1 \in Int /\ Len(s) \in Int /\ \A i \in k + 1 .. Len(s) : s[i] \in S
      BY <1>1
    <3> QED  BY <3>1, SubSeqProperties
  <2> QED  BY <2>1, <1>1
<1>4. t = a \o b
  BY DEF RemoveAt
<1> HIDE DEF a, b, t
<1>5. /\ t \in Seq(S)
      /\ Len(t) = Len(s) - 1
      /\ DOMAIN t = 1 .. Len(s) - 1
      /\ \A i \in 1 .. Len(s) - 1 : t[i] = IF i < k THEN s[i] ELSE s[i + 1]
  <2>1. /\ t \in Seq(S)
        /\ Len(t) = Len(a) + Len(b)
        /\ \A i \in 1 .. Len(a) + Len(b) :
              t[i] = IF i <= Len(a) THEN a[i] ELSE b[i - Len(a)]
    BY <1>2, <1>3, <1>4, ConcatProperties
  <2>2. Len(a) + Len(b) = Len(s) - 1
    BY <1>1, <1>2, <1>3
  <2>3. ASSUME NEW i \in 1 .. Len(s) - 1
        PROVE  t[i] = IF i < k THEN s[i] ELSE s[i + 1]
    <3>1. CASE i < k
      <4>1. i \in 1 .. k - 1 /\ i <= Len(a)
        BY <3>1, <1>1, <1>2
      <4> QED  BY <4>1, <3>1, <2>1, <2>2, <1>2
    <3>2. CASE ~(i < k)
      <4>1. /\ ~(i <= Len(a))
            /\ i - Len(a) \in 1 .. Len(s) - k
            /\ k + (i - Len(a)) = i + 1
        BY <3>2, <1>1, <1>2
      <4> QED  BY <4>1, <3>2, <2>1, <2>2, <1>3
    <3> QED  BY <3>1, <3>2
  <2> QED  BY <2>1, <2>2, <2>3
<1>6. IsInjective(t)
  <2> SUFFICES ASSUME NEW i \in 1 .. Len(s) - 1, NEW j \in 1 .. Len(s) - 1, t[i] = t[j]
               PROVE  i = j
    BY <1>5 DEF IsInjective
  <2> DEFINE at(x) == IF x < k THEN x ELSE x + 1
  <2>1. at(i) \in DOMAIN s /\ at(j) \in DOMAIN s /\ s[at(i)] = s[at(j)]
    BY <1>1, <1>5
  <2>2. at(i) = at(j)
    BY <2>1 DEF IsInjective
  <2> QED  BY <2>2, <1>1
<1>7. ToSet(t) \subseteq ToSet(s) \ {s[k]}
  <2> SUFFICES ASSUME NEW i \in 1 .. Len(s) - 1
               PROVE  t[i] \in ToSet(s) /\ t[i] # s[k]
    BY <1>5 DEF ToSet
  <2> DEFINE at == IF i < k THEN i ELSE i + 1
  <2>1. at \in DOMAIN s /\ at # k /\ t[i] = s[at]
    BY <1>1, <1>5
  <2> QED  BY <2>1, <1>1 DEF ToSet, IsInjective
<1>8. ToSet(s) \ {s[k]} \subseteq ToSet(t)
  <2> SUFFICES ASSUME NEW i \in 1 .. Len(s), s[i] # s[k]
               PROVE  s[i] \in ToSet(t)
    BY <1>1 DEF ToSet
  <2> DEFINE at == IF i < k THEN i ELSE i - 1
  <2>1. at \in DOMAIN t /\ t[at] = s[i]
    BY <1>1, <1>5
  <2> QED  BY <2>1 DEF ToSet
<1> QED  BY <1>5, <1>6, <1>7, <1>8 DEF t

-----------------------------------------------------------------------------
(* Every nonempty set of naturals has a least element, and Min picks it.    *)
LEMMA MinOfNaturals ==
  ASSUME NEW T \in SUBSET Nat, T # {}
  PROVE  Min(T) \in T /\ \A m \in T : Min(T) <= m
<1> DEFINE R == OpToRel(<, Nat)
<1>1. PICK x \in T : \A y \in T : ~ (<<y, x>> \in R)
  BY NatLessThanWellFounded, WFMin
<1>2. R = {ss \in Nat \X Nat : ss[1] < ss[2]}
  BY Zenon DEF OpToRel
<1> HIDE DEF R
<1>3. ASSUME NEW m \in T, m < x PROVE FALSE
  <2>1. <<m, x>> \in Nat \X Nat /\ <<m, x>>[1] < <<m, x>>[2]
    BY <1>3
  <2>2. <<m, x>> \in R
    BY <2>1, <1>2, Zenon
  <2> QED BY <2>2, <1>1
<1>4. x \in T /\ \A m \in T : x <= m
  BY <1>3
<1> QED BY <1>4 DEF Min

(* Induction, in the form of the least counterexample: a set of numbers up  *)
(* to n that holds 0, and with each the next, holds them all.               *)
LEMMA UpTo ==
  ASSUME NEW n \in Nat, NEW P, 0 \in P, \A k \in 0 .. n - 1 : k \in P => k + 1 \in P
  PROVE  \A k \in 0 .. n : k \in P
<1> DEFINE T == {k \in 0 .. n : k \notin P}
<1> SUFFICES ASSUME T # {} PROVE FALSE
  OBVIOUS
<1>1. T \in SUBSET Nat
  OBVIOUS
<1>2. PICK k \in T : \A m \in T : k <= m
  <2> HIDE DEF T
  <2> QED  BY <1>1, MinOfNaturals
<1>3. k \in 1 .. n /\ k - 1 \in 0 .. n - 1 /\ (k - 1) + 1 = k
  OBVIOUS
<1>4. k - 1 \in P
  BY <1>2, <1>3
<1> QED  BY <1>3, <1>4

-----------------------------------------------------------------------------
(* The concatenations f[i] of the first i of the sequences ss, up to n.     *)
Flattens(ss, f, n) ==
  f = [i \in 1 .. n |-> IF i = 1 THEN ss[i] ELSE f[i - 1] \o ss[i]]

(* Each of them is the one before, with one more sequence behind it; ...    *)
LEMMA FlattensStep ==
  ASSUME NEW ss, NEW n \in Nat, NEW f, Flattens(ss, f, n), NEW i \in 1 .. n
  PROVE  f[i] = IF i = 1 THEN ss[i] ELSE f[i - 1] \o ss[i]
<1> DEFINE g == [j \in 1 .. n |-> IF j = 1 THEN ss[j] ELSE f[j - 1] \o ss[j]]
<1>1. f = g
  BY DEF Flattens
<1>2. g[i] = IF i = 1 THEN ss[i] ELSE f[i - 1] \o ss[i]
  OBVIOUS
<1> HIDE DEF g
<1> QED  BY <1>1, <1>2

(* ... there are such concatenations for all of ss, ...                     *)
LEMMA FlattensExists ==
  ASSUME NEW ss, NEW n \in Nat
  PROVE  \E f : Flattens(ss, f, n)
<1> DEFINE P == {k \in 0 .. n : \E f : Flattens(ss, f, k)}
<1>1. 0 \in P
  <2> DEFINE e == [i \in 1 .. 0 |-> 0]
  <2>1. e = [i \in 1 .. 0 |-> IF i = 1 THEN ss[i] ELSE e[i - 1] \o ss[i]]
    OBVIOUS
  <2>2. Flattens(ss, e, 0)
    BY <2>1 DEF Flattens
  <2> QED  BY <2>2
<1>2. ASSUME NEW k \in 0 .. n - 1, k \in P PROVE k + 1 \in P
  <2>1. PICK f : Flattens(ss, f, k)
    BY <1>2
  <2> DEFINE g == [i \in 1 .. k + 1 |-> IF i = 1 THEN ss[i] ELSE f[i - 1] \o ss[i]]
  <2>2. \A i \in 1 .. k : g[i] = f[i]
    BY <2>1, FlattensStep
  <2>3. ASSUME NEW i \in 1 .. k + 1
        PROVE  (IF i = 1 THEN ss[i] ELSE f[i - 1] \o ss[i]) = IF i = 1 THEN ss[i] ELSE g[i - 1] \o ss[i]
    <3>1. CASE i = 1
      BY <3>1
    <3>2. CASE i # 1
      <4>1. i - 1 \in 1 .. k
        BY <3>2
      <4>2. g[i - 1] = f[i - 1]
        BY <4>1, <2>2
      <4> HIDE DEF g
      <4> QED  BY <3>2, <4>2
    <3> QED  BY <3>1, <3>2
  <2>4. g = [i \in 1 .. k + 1 |-> IF i = 1 THEN ss[i] ELSE g[i - 1] \o ss[i]]
    BY <2>3, Zenon
  <2>5. Flattens(ss, g, k + 1)
    BY <2>4 DEF Flattens
  <2>6. k + 1 \in 0 .. n
    OBVIOUS
  <2> HIDE DEF g
  <2> QED  BY <2>5, <2>6
<1> HIDE DEF P
<1>3. n \in P
  BY <1>1, <1>2, UpTo
<1> QED  BY <1>3 DEF P

(* The sequences agree up to n.                                             *)
Agree(s, t, n) == \A i \in 1 .. n : s[i] = t[i]

(* ... and only one of them.                                                *)
LEMMA FlattensUnique ==
  ASSUME NEW ss, NEW tt, NEW n \in Nat, NEW m \in Nat, n <= m, NEW f, NEW g,
         Flattens(ss, f, n), Flattens(tt, g, m), Agree(ss, tt, n)
  PROVE  Agree(f, g, n)
<1> DEFINE P == {k \in 0 .. n : k # 0 => f[k] = g[k]}
<1>1. 0 \in P
  OBVIOUS
<1>2. ASSUME NEW k \in 0 .. n - 1, k \in P PROVE k + 1 \in P
  <2>1. k + 1 \in 1 .. n /\ k + 1 \in 1 .. m /\ (k + 1) - 1 = k /\ k + 1 \in 0 .. n
    OBVIOUS
  <2>2. f[k + 1] = IF k + 1 = 1 THEN ss[k + 1] ELSE f[(k + 1) - 1] \o ss[k + 1]
    BY <2>1, FlattensStep
  <2>3. g[k + 1] = IF k + 1 = 1 THEN tt[k + 1] ELSE g[(k + 1) - 1] \o tt[k + 1]
    BY <2>1, FlattensStep
  <2>4. k # 0 => f[k] = g[k]
    BY <1>2
  <2>5. f[k + 1] = g[k + 1]
    BY <2>1, <2>2, <2>3, <2>4 DEF Agree
  <2> QED  BY <2>1, <2>5
<1> HIDE DEF P
<1>3. \A k \in 0 .. n : k \in P
  BY <1>1, <1>2, UpTo
<1> QED  BY <1>3 DEF P, Agree

(* What FlattenSeq makes of no sequence, and the concatenations of any others. *)
LEMMA FlattenEmpty == FlattenSeq(<<>>) = <<>>
  BY DEF FlattenSeq

LEMMA FlattenIs ==
  ASSUME NEW ss, NEW n \in Nat \ {0}, Len(ss) = n
  PROVE  \E f : Flattens(ss, f, n) /\ FlattenSeq(ss) = f[n]
<1> DEFINE f == CHOOSE g : Flattens(ss, g, n)
<1>1. Flattens(ss, f, n)
  <2>1. \E g : Flattens(ss, g, n)
    BY FlattensExists
  <2> QED  BY <2>1, Zenon
<1>2. FlattenSeq(ss) = f[n]
  BY DEF FlattenSeq, Flattens
<1> QED  BY <1>1, <1>2

(* What it makes of sequences over S is one.                                *)
LEMMA FlattenType ==
  ASSUME NEW S, NEW ss \in Seq(Seq(S))
  PROVE  FlattenSeq(ss) \in Seq(S)
<1> DEFINE n == Len(ss)
<1>1. CASE n = 0
  <2>1. ss = <<>>
    BY <1>1
  <2>2. FlattenSeq(ss) = <<>>
    BY <2>1, FlattenEmpty
  <2> QED  BY <2>2
<1>2. CASE n # 0
  <2>0. n \in Nat \ {0}
    BY <1>2
  <2>1. PICK f : Flattens(ss, f, n) /\ FlattenSeq(ss) = f[n]
    BY <2>0, FlattenIs
  <2> DEFINE P == {k \in 0 .. n : k # 0 => f[k] \in Seq(S)}
  <2>2. 0 \in P
    OBVIOUS
  <2>3. ASSUME NEW k \in 0 .. n - 1, k \in P PROVE k + 1 \in P
    <3>1. k + 1 \in 1 .. n /\ (k + 1) - 1 = k /\ k + 1 \in 0 .. n
      OBVIOUS
    <3>2. f[k + 1] = IF k + 1 = 1 THEN ss[k + 1] ELSE f[(k + 1) - 1] \o ss[k + 1]
      BY <2>0, <2>1, <3>1, FlattensStep
    <3>3. ss[k + 1] \in Seq(S)
      BY <3>1
    <3>4. k # 0 => f[k] \in Seq(S)
      BY <2>3
    <3>5. f[k + 1] \in Seq(S)
      BY <3>1, <3>2, <3>3, <3>4
    <3> QED  BY <3>1, <3>5
  <2>4. \A k \in 0 .. n : k \in P
    <3> HIDE DEF n, P
    <3> QED  BY <2>0, <2>2, <2>3, UpTo
  <2>5. n \in P
    BY <2>0, <2>4
  <2> QED  BY <2>0, <2>1, <2>5
<1> QED  BY <1>1, <1>2

(* One sequence more is one concatenation more.                             *)
LEMMA FlattenAppend ==
  ASSUME NEW S, NEW ss \in Seq(Seq(S)), NEW t \in Seq(S)
  PROVE  FlattenSeq(Append(ss, t)) = FlattenSeq(ss) \o t
<1> DEFINE n == Len(ss)
           tt == Append(ss, t)
<1>1. /\ n \in Nat /\ Len(tt) = n + 1 /\ tt[n + 1] = t
      /\ \A i \in 1 .. n : tt[i] = ss[i]
      /\ n + 1 \in 1 .. n + 1 /\ (n + 1) - 1 = n /\ n + 1 \in Nat \ {0} /\ n <= n + 1
  OBVIOUS
<1> HIDE DEF n, tt
<1>2. PICK g : Flattens(tt, g, n + 1) /\ FlattenSeq(tt) = g[n + 1]
  BY <1>1, FlattenIs
<1>3. g[n + 1] = IF n + 1 = 1 THEN tt[n + 1] ELSE g[(n + 1) - 1] \o tt[n + 1]
  <2>1. n + 1 \in Nat /\ n + 1 \in 1 .. (n + 1)
    BY <1>1
  <2> QED  BY <2>1, <1>2, FlattensStep
<1>4. CASE n = 0
  <2>1. ss = <<>>
    BY <1>4 DEF n
  <2>2. FlattenSeq(ss) \o t = t
    BY <2>1, FlattenEmpty
  <2>3. FlattenSeq(tt) = t
    BY <1>1, <1>2, <1>3, <1>4
  <2> QED BY <2>2, <2>3 DEF tt
<1>5. CASE n # 0
  <2>0. n \in Nat \ {0} /\ n \in 1 .. n
    BY <1>1, <1>5
  <2>1. PICK f : Flattens(ss, f, n) /\ FlattenSeq(ss) = f[n]
    BY <2>0, FlattenIs DEF n
  <2>2. Agree(f, g, n)
    <3>1. n \in Nat /\ n + 1 \in Nat /\ n <= n + 1
      BY <1>1
    <3>2. Agree(ss, tt, n)
      BY <1>1 DEF Agree
    <3>3. Flattens(ss, f, n) /\ Flattens(tt, g, n + 1)
      BY <1>2, <2>1
    <3> QED  BY <3>1, <3>2, <3>3, FlattensUnique, Zenon
  <2>3. FlattenSeq(tt) = FlattenSeq(ss) \o t
    <3>1. n + 1 # 1 /\ (n + 1) - 1 = n
      BY <1>1, <1>5
    <3>2. g[n + 1] = g[n] \o tt[n + 1]
      BY <1>3, <3>1
    <3>3. g[n] = f[n] /\ tt[n + 1] = t
      BY <1>1, <2>0, <2>2 DEF Agree
    <3> QED  BY <1>2, <2>1, <3>2, <3>3
  <2> QED  BY <2>3 DEF tt
<1> QED  BY <1>4, <1>5

(* What holds of the empty sequence, and of a sequence with one element     *)
(* more, holds of every sequence.                                           *)
LEMMA SequenceInduction ==
  ASSUME NEW S, NEW P, <<>> \in P,
         \A s \in Seq(S), e \in S : s \in P => Append(s, e) \in P
  PROVE  \A s \in Seq(S) : s \in P
<1> TAKE s \in Seq(S)
<1> DEFINE n == Len(s)
           K == {k \in 0 .. n : SubSeq(s, 1, k) \in P}
<1>0. n \in Nat
  OBVIOUS
<1>1. 0 \in K
  <2>1. SubSeq(s, 1, 0) = <<>>
    OBVIOUS
  <2>2. SubSeq(s, 1, 0) \in P
    BY <2>1, Zenon
  <2>3. 0 \in 0 .. n
    BY <1>0
  <2> QED  BY <2>2, <2>3
<1>2. ASSUME NEW k \in 0 .. n - 1, k \in K PROVE k + 1 \in K
  <2>1. /\ k + 1 \in 1 .. Len(s) /\ 1 \in 1 .. Len(s) /\ k + 1 \in 0 .. n
        /\ 1 \in 1 .. Len(s) + 1 /\ k \in 0 .. Len(s)
    OBVIOUS
  <2>2. SubSeq(s, 1, k) \in Seq(S) /\ s[k + 1] \in S
    BY <2>1
  <2>3. SubSeq(s, 1, k + 1) = Append(SubSeq(s, 1, k), s[k + 1])
    BY <2>1
  <2>4. SubSeq(s, 1, k + 1) \in P
    BY <1>2, <2>2, <2>3
  <2> QED  BY <2>1, <2>4
<1>3. \A k \in 0 .. n : k \in K
  <2> HIDE DEF n, K
  <2> QED  BY <1>0, <1>1, <1>2, UpTo
<1>4. SubSeq(s, 1, n) \in P
  BY <1>0, <1>3
<1> QED  BY <1>4, SubSeqFull

(* r is p followed by q. *)
Joins(r, p, q) ==
  /\ Len(r) = Len(p) + Len(q)
  /\ \A i \in 1 .. Len(p) : r[i] = p[i]
  /\ \A i \in 1 .. Len(q) : r[Len(p) + i] = q[i]

(* A concatenation is one, and the only one.                                *)
LEMMA ConcatJoins ==
  ASSUME NEW S, NEW p, NEW q, p \in Seq(S), q \in Seq(S)
  PROVE  p \o q \in Seq(S) /\ Joins(p \o q, p, q)
  BY DEF Joins

LEMMA JoinsConcat ==
  ASSUME NEW S, NEW p, NEW q, NEW r, p \in Seq(S), q \in Seq(S), r \in Seq(S), Joins(r, p, q)
  PROVE  r = p \o q
<1> DEFINE s == p \o q
           m == Len(p)
           n == Len(q)
<1>1. s \in Seq(S) /\ Joins(s, p, q)
  BY ConcatJoins
<1>2. m \in Nat /\ n \in Nat
  OBVIOUS
<1> HIDE DEF s, m, n
<1>3. Len(r) = m + n /\ Len(s) = m + n
  BY <1>1 DEF Joins, m, n
<1>4. ASSUME NEW i \in 1 .. m + n PROVE r[i] = s[i]
  <2>1. CASE i <= m
    <3>1. i \in 1 .. m
      BY <1>2, <2>1
    <3> QED  BY <1>1, <3>1 DEF Joins, m, n
  <2>2. CASE i > m
    <3>1. i - m \in 1 .. n /\ m + (i - m) = i
      BY <1>2, <2>2
    <3>2. r[m + (i - m)] = q[i - m] /\ s[m + (i - m)] = q[i - m]
      BY <1>1, <3>1 DEF Joins, m, n
    <3> QED  BY <3>1, <3>2
  <2> QED  BY <1>2, <2>1, <2>2
<1> QED  BY <1>1, <1>3, <1>4, SeqEqual DEF s

(* A concatenation of two is flattened part by part.                        *)
LEMMA FlattenConcat ==
  ASSUME NEW S, NEW ss \in Seq(Seq(S)), NEW tt \in Seq(Seq(S))
  PROVE  FlattenSeq(ss \o tt) = FlattenSeq(ss) \o FlattenSeq(tt)
<1> DEFINE P == {u \in Seq(Seq(S)) : FlattenSeq(ss \o u) = FlattenSeq(ss) \o FlattenSeq(u)}
<1>0. FlattenSeq(ss) \in Seq(S)
  BY FlattenType
<1>1. <<>> \in P
  <2>1. ss \o <<>> = ss
    OBVIOUS
  <2>2. FlattenSeq(ss) \o <<>> = FlattenSeq(ss)
    BY <1>0
  <2>3. FlattenSeq(ss \o <<>>) = FlattenSeq(ss) \o FlattenSeq(<<>>)
    BY <2>1, <2>2, FlattenEmpty
  <2>4. <<>> \in Seq(Seq(S))
    OBVIOUS
  <2> QED  BY <2>3, <2>4
<1>2. ASSUME NEW u \in Seq(Seq(S)), NEW e \in Seq(S), u \in P PROVE Append(u, e) \in P
  <2>1. ss \o Append(u, e) = Append(ss \o u, e)
    OBVIOUS
  <2>2. ss \o u \in Seq(Seq(S)) /\ Append(u, e) \in Seq(Seq(S))
    OBVIOUS
  <2>3. FlattenSeq(Append(ss \o u, e)) = FlattenSeq(ss \o u) \o e
    BY <2>2, FlattenAppend
  <2>4. FlattenSeq(Append(u, e)) = FlattenSeq(u) \o e
    BY FlattenAppend
  <2>5. FlattenSeq(ss \o u) = FlattenSeq(ss) \o FlattenSeq(u)
    BY <1>2
  <2>6. FlattenSeq(u) \in Seq(S)
    BY FlattenType
  <2>7. (FlattenSeq(ss) \o FlattenSeq(u)) \o e = FlattenSeq(ss) \o (FlattenSeq(u) \o e)
    <3> DEFINE a == FlattenSeq(ss)
               b == FlattenSeq(u)
    <3>1. a \in Seq(S) /\ b \in Seq(S) /\ e \in Seq(S)
      BY <1>0, <2>6
    <3> HIDE DEF a, b
    <3>2. (a \o b) \o e = a \o (b \o e)
      BY <3>1, ConcatAssociative
    <3> QED  BY <3>2 DEF a, b
  <2>8. FlattenSeq(ss \o Append(u, e)) = FlattenSeq(ss) \o FlattenSeq(Append(u, e))
    BY <2>1, <2>3, <2>4, <2>5, <2>7
  <2> QED  BY <2>2, <2>8
<1> HIDE DEF P
<1>3. tt \in P
  BY <1>1, <1>2, SequenceInduction
<1> QED  BY <1>3 DEF P

(* One sequence, and three of them, put together.                           *)
LEMMA FlattenOne ==
  ASSUME NEW S, NEW t \in Seq(S)
  PROVE  FlattenSeq(<<t>>) = t
<1>1. <<t>> = Append(<<>>, t) /\ <<>> \in Seq(Seq(S)) /\ <<>> \o t = t
  OBVIOUS
<1> QED  BY <1>1, FlattenAppend, FlattenEmpty

LEMMA FlattenThree ==
  ASSUME NEW S, NEW t \in Seq(S), NEW u \in Seq(S), NEW v \in Seq(S)
  PROVE  FlattenSeq(<<t, u, v>>) = (t \o u) \o v
<1>1. /\ <<t>> \in Seq(Seq(S)) /\ <<t, u>> \in Seq(Seq(S))
      /\ <<t, u>> = Append(<<t>>, u) /\ <<t, u, v>> = Append(<<t, u>>, v)
  OBVIOUS
<1>2. FlattenSeq(<<t>>) = t
  BY FlattenOne
<1>3. FlattenSeq(<<t, u>>) = t \o u
  BY <1>1, <1>2, FlattenAppend
<1> QED  BY <1>1, <1>3, FlattenAppend
=============================================================================
