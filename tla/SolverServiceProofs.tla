------------------------ MODULE SolverServiceProofs ------------------------
(***************************************************************************)
(* The safety of SolverService, for every set of requests and of slots, and *)
(* whatever the clients ask for.                                            *)
(*                                                                          *)
(* The first four parts are about the text of a request, of any length: how *)
(* EscapeHtml builds a text and a browser reads it, so that nothing a       *)
(* client sends gets lost in the tag of the widget; and where the origin of *)
(* a URL ends.  Both a browser's reading and the escaping of a text are     *)
(* those of its parts (EscapeConcat, UnescapeConcat), which leaves single   *)
(* symbols to look at.                                                      *)
(*                                                                          *)
(* The last part is about the handlers.  Its properties relate them to the  *)
(* pool, so the invariant says first how far each of them is when the other *)
(* is where it is (Tied), then what is known of the page behind a status    *)
(* (Told), and of the slots (Backed).                                       *)
(***************************************************************************)
EXTENDS SolverService, SequenceLemmas, FiniteSetTheorems, TLAPS

(* What Replace makes of the symbol y.                                      *)
Part(y, x, u) == IF y = x THEN u ELSE <<y>>
(* ... and of the symbols of s, one by one.                                 *)
Parts(s, x, u) == [i \in DOMAIN s |-> Part(s[i], x, u)]

IsParts(p, s, x, u) ==
    Len(p) = Len(s) /\ \A i \in 1 .. Len(s) : p[i] = Part(s[i], x, u)

(* Replace is what is left of the parts when they are put together.         *)
LEMMA ReplaceIs ==
    ASSUME NEW s, NEW x, NEW u
    PROVE  Replace(s, x, u) = FlattenSeq(Parts(s, x, u))
  BY DEF Replace, Parts, Part

(* The parts are texts, one for each symbol.                                *)
LEMMA PartsType ==
    ASSUME NEW S, NEW s, NEW x, NEW u, s \in Seq(S), u \in Seq(S)
    PROVE  Parts(s, x, u) \in Seq(Seq(S)) /\ IsParts(Parts(s, x, u), s, x, u)
<1> DEFINE p == Parts(s, x, u)
<1>1. Len(s) \in Nat /\ DOMAIN s = 1 .. Len(s)
  OBVIOUS
<1>2. \A i \in 1 .. Len(s) : Part(s[i], x, u) \in Seq(S)
  BY DEF Part
<1>3. p = [i \in 1 .. Len(s) |-> Part(s[i], x, u)]
  BY <1>1 DEF Parts
<1>4. \A i \in 1 .. Len(s) : p[i] = Part(s[i], x, u)
  BY <1>3
<1>5. p \in [1 .. Len(s) -> Seq(S)]
  BY <1>2, <1>3
<1> HIDE DEF p
<1>6. p \in Seq(Seq(S)) /\ Len(p) = Len(s)
  BY <1>1, <1>5
<1> QED  BY <1>4, <1>6 DEF p, IsParts

(* Replacing gives a text.                                                  *)
LEMMA ReplaceType ==
    ASSUME NEW S, NEW s, NEW x, NEW u, s \in Seq(S), u \in Seq(S)
    PROVE  Replace(s, x, u) \in Seq(S)
<1>1. Parts(s, x, u) \in Seq(Seq(S))
  BY PartsType
<1>2. FlattenSeq(Parts(s, x, u)) \in Seq(S)
  BY <1>1, FlattenType
<1> QED  BY <1>2, ReplaceIs

(* A text is replaced part by part.                                         *)
LEMMA ReplaceConcat ==
    ASSUME NEW S, NEW s, NEW t, NEW x, NEW u, s \in Seq(S), t \in Seq(S), u \in Seq(S)
    PROVE  Replace(s \o t, x, u) = Replace(s, x, u) \o Replace(t, x, u)
<1> DEFINE st == s \o t
           p == Parts(s, x, u)
           q == Parts(t, x, u)
           r == Parts(st, x, u)
           m == Len(s)
           n == Len(t)
<1>1. p \in Seq(Seq(S)) /\ IsParts(p, s, x, u)
  BY PartsType
<1>2. q \in Seq(Seq(S)) /\ IsParts(q, t, x, u)
  BY PartsType
<1>3. st \in Seq(S) /\ Joins(st, s, t)
  BY ConcatJoins
<1>4. m \in Nat /\ n \in Nat
  OBVIOUS
<1> HIDE DEF p, q, r, st, m, n
<1>5. r \in Seq(Seq(S)) /\ IsParts(r, st, x, u)
  BY <1>3, PartsType DEF r
<1>6. Joins(r, p, q)
  <2>1. Len(r) = m + n /\ Len(p) = m /\ Len(q) = n /\ Len(st) = m + n
    BY <1>1, <1>2, <1>3, <1>5 DEF Joins, IsParts, m, n
  <2>2. ASSUME NEW i \in 1 .. m PROVE r[i] = p[i]
    <3>1. i \in 1 .. m + n
      BY <1>4
    <3>2. r[i] = Part(st[i], x, u) /\ p[i] = Part(s[i], x, u)
      BY <1>1, <1>5, <2>1, <3>1 DEF IsParts, m
    <3>3. st[i] = s[i]
      BY <1>3 DEF Joins, m
    <3> QED  BY <3>2, <3>3
  <2>3. ASSUME NEW i \in 1 .. n PROVE r[m + i] = q[i]
    <3>1. m + i \in 1 .. m + n
      BY <1>4
    <3>2. r[m + i] = Part(st[m + i], x, u) /\ q[i] = Part(t[i], x, u)
      BY <1>2, <1>5, <2>1, <3>1 DEF IsParts, n
    <3>3. st[m + i] = t[i]
      BY <1>3 DEF Joins, m, n
    <3> QED  BY <3>2, <3>3
  <2> QED  BY <2>1, <2>2, <2>3 DEF Joins
<1>7. r = p \o q
  BY <1>1, <1>2, <1>5, <1>6, JoinsConcat
<1>8. FlattenSeq(r) = FlattenSeq(p) \o FlattenSeq(q)
  BY <1>1, <1>2, <1>7, FlattenConcat
<1> QED  BY <1>8, ReplaceIs DEF p, q, r, st

(* Nothing is replaced in the empty text, ...                               *)
LEMMA ReplaceNone ==
    ASSUME NEW x, NEW u
    PROVE  Replace(<<>>, x, u) = <<>>
<1>1. Parts(<<>>, x, u) = <<>>
  BY DEF Parts
<1> QED  BY <1>1, FlattenEmpty, ReplaceIs

(* ... and in a text of one symbol only that one.                           *)
LEMMA ReplaceOne ==
    ASSUME NEW S, NEW y, NEW x, NEW u, y \in S, u \in Seq(S)
    PROVE  Replace(<<y>>, x, u) = Part(y, x, u) /\ Part(y, x, u) \in Seq(S)
<1> DEFINE z == Part(y, x, u)
           s == <<y>>
           p == Parts(s, x, u)
<1>1. z \in Seq(S)
  BY DEF Part
<1>2. s \in Seq(S) /\ Len(s) = 1 /\ s[1] = y
  OBVIOUS
<1> HIDE DEF p, s, z
<1>3. p \in Seq(Seq(S)) /\ IsParts(p, s, x, u)
  BY <1>2, PartsType DEF p
<1>4. Len(p) = 1 /\ p[1] = z
  BY <1>2, <1>3 DEF IsParts, z
<1>5. p = <<z>>
  BY <1>3, <1>4
<1>6. FlattenSeq(p) = z
  BY <1>1, <1>5, FlattenOne
<1> QED  BY <1>1, <1>6, ReplaceIs DEF p, s, z

(* A character that a reference does not hold leaves it as it is.           *)
LEMMA ReplaceThree ==
    ASSUME NEW S, NEW a, NEW b, NEW c, NEW x, NEW u,
           a \in S, b \in S, c \in S, u \in Seq(S), a # x, b # x, c # x
    PROVE  Replace(<<a, b, c>>, x, u) = <<a, b, c>>
<1> DEFINE aa == <<a>>
           bb == <<b>>
           cc == <<c>>
           ab == <<a, b>>
           abc == <<a, b, c>>
<1>1. aa \in Seq(S) /\ bb \in Seq(S) /\ cc \in Seq(S) /\ ab \in Seq(S)
  OBVIOUS
<1>2. Replace(aa, x, u) = aa /\ Replace(bb, x, u) = bb /\ Replace(cc, x, u) = cc
  BY ReplaceOne DEF Part
<1>3. ab = Append(aa, b) /\ abc = Append(ab, c)
  OBVIOUS
<1>4. Append(aa, b) = aa \o bb /\ Append(ab, c) = ab \o cc
  <2> HIDE DEF aa, ab
  <2> QED  BY <1>1, AppendIsConcat
<1> HIDE DEF aa, bb, cc, ab, abc
<1>5. Replace(aa \o bb, x, u) = Replace(aa, x, u) \o Replace(bb, x, u)
  BY <1>1, ReplaceConcat
<1>6. Replace(ab \o cc, x, u) = Replace(ab, x, u) \o Replace(cc, x, u)
  BY <1>1, ReplaceConcat
<1>7. Replace(abc, x, u) = abc
  BY <1>2, <1>3, <1>4, <1>5, <1>6
<1> QED  BY <1>7 DEF abc

-----------------------------------------------------------------------------
(* The symbols that EscapeHtml adds or looks for.                           *)
Names == {"amp", "lt", "gt", "quot", "#39"}
Marks == Names \cup {"&", "<", ">", "'", Quote, Semicolon}

(* A quote and a semicolon are none of the other marks.                     *)
LEMMA MarkFacts ==
    /\ Quote \notin Names \cup {"&", "<", ">", "'", Semicolon}
    /\ Semicolon \notin Names \cup {"&", "<", ">", "'"}
  BY Zenon DEF Names, Quote, Semicolon

(* A reference is a text.                                                   *)
LEMMA ReferenceType ==
    ASSUME NEW S, Marks \subseteq S, NEW name, name \in Names
    PROVE  Reference(name) \in Seq(S)
<1>1. "&" \in S /\ Semicolon \in S /\ name \in S
  BY DEF Marks
<1> QED  BY <1>1 DEF Reference

(* A text is escaped part by part.                                          *)
LEMMA EscapeConcat ==
    ASSUME NEW S, Marks \subseteq S, NEW s, NEW t, s \in Seq(S), t \in Seq(S)
    PROVE  /\ EscapeHtml(s) \in Seq(S)
           /\ EscapeHtml(s \o t) = EscapeHtml(s) \o EscapeHtml(t)
<1> DEFINE A == Reference("amp")
           L == Reference("lt")
           G == Reference("gt")
           Q == Reference("quot")
           N == Reference("#39")
<1>0. A \in Seq(S) /\ L \in Seq(S) /\ G \in Seq(S) /\ Q \in Seq(S) /\ N \in Seq(S)
  BY ReferenceType DEF Names
<1> HIDE DEF A, L, G, Q, N
<1> DEFINE s1 == Replace(s, "&", A)
           s2 == Replace(s1, "<", L)
           s3 == Replace(s2, ">", G)
           s4 == Replace(s3, Quote, Q)
           s5 == Replace(s4, "'", N)
           t1 == Replace(t, "&", A)
           t2 == Replace(t1, "<", L)
           t3 == Replace(t2, ">", G)
           t4 == Replace(t3, Quote, Q)
           t5 == Replace(t4, "'", N)
<1> HIDE DEF s1, s2, s3, s4, s5, t1, t2, t3, t4, t5
<1>1. s1 \in Seq(S) /\ t1 \in Seq(S)
  BY <1>0, ReplaceType DEF s1, t1
<1>2. s2 \in Seq(S) /\ t2 \in Seq(S)
  BY <1>0, <1>1, ReplaceType DEF s2, t2
<1>3. s3 \in Seq(S) /\ t3 \in Seq(S)
  BY <1>0, <1>2, ReplaceType DEF s3, t3
<1>4. s4 \in Seq(S) /\ t4 \in Seq(S)
  BY <1>0, <1>3, ReplaceType DEF s4, t4
<1>5. s5 \in Seq(S) /\ t5 \in Seq(S)
  BY <1>0, <1>4, ReplaceType DEF s5, t5
<1>6. Replace(s \o t, "&", A) = s1 \o t1
  BY <1>0, ReplaceConcat DEF s1, t1
<1>7. Replace(s1 \o t1, "<", L) = s2 \o t2
  BY <1>0, <1>1, ReplaceConcat DEF s2, t2
<1>8. Replace(s2 \o t2, ">", G) = s3 \o t3
  BY <1>0, <1>2, ReplaceConcat DEF s3, t3
<1>9. Replace(s3 \o t3, Quote, Q) = s4 \o t4
  BY <1>0, <1>3, ReplaceConcat DEF s4, t4
<1>10. Replace(s4 \o t4, "'", N) = s5 \o t5
  BY <1>0, <1>4, ReplaceConcat DEF s5, t5
<1>11. EscapeHtml(s) = s5 /\ EscapeHtml(t) = t5
  BY Zenon DEF EscapeHtml, s1, s2, s3, s4, s5, t1, t2, t3, t4, t5, A, L, G, Q, N
<1>12. EscapeHtml(s \o t) = s5 \o t5
  <2>1. EscapeHtml(s \o t) =
          Replace(Replace(Replace(Replace(Replace(s \o t, "&", A), "<", L), ">", G), Quote, Q), "'", N)
    BY Zenon DEF EscapeHtml, A, L, G, Q, N
  <2> QED  BY <1>6, <1>7, <1>8, <1>9, <1>10, <2>1
<1> QED  BY <1>5, <1>11, <1>12

(* A later replacement leaves the references of the earlier ones alone.     *)
LEMMA ReplaceReference ==
    ASSUME NEW S, Marks \subseteq S, NEW name, NEW x, NEW u, name \in Names, u \in Seq(S),
           x \notin {"&", name, Semicolon}
    PROVE  Replace(Reference(name), x, u) = Reference(name)
<1>1. "&" \in S /\ Semicolon \in S /\ name \in S /\ "&" # x /\ Semicolon # x /\ name # x
  BY DEF Marks
<1> QED  BY <1>1, ReplaceThree DEF Reference

(* What EscapeHtml makes of one symbol.                                     *)
Escaped(y) ==
    IF y = "&" THEN Reference("amp")
    ELSE IF y = "<" THEN Reference("lt")
    ELSE IF y = ">" THEN Reference("gt")
    ELSE IF y = Quote THEN Reference("quot")
    ELSE IF y = "'" THEN Reference("#39")
    ELSE <<y>>

(* A symbol is escaped at most once.                                        *)
LEMMA EscapeOne ==
    ASSUME NEW S, Marks \subseteq S, NEW y \in S
    PROVE  EscapeHtml(<<y>>) = Escaped(y)
<1> DEFINE A == Reference("amp")
           L == Reference("lt")
           G == Reference("gt")
           Q == Reference("quot")
           N == Reference("#39")
           s == <<y>>
           s1 == Replace(s, "&", A)
           s2 == Replace(s1, "<", L)
           s3 == Replace(s2, ">", G)
           s4 == Replace(s3, Quote, Q)
           s5 == Replace(s4, "'", N)
<1>0. A \in Seq(S) /\ L \in Seq(S) /\ G \in Seq(S) /\ Q \in Seq(S) /\ N \in Seq(S)
  BY ReferenceType DEF Names
<1>1. EscapeHtml(s) = s5
  BY Zenon DEF EscapeHtml
<1>2. ASSUME NEW x, NEW u, u \in Seq(S) PROVE Replace(s, x, u) = IF y = x THEN u ELSE s
  <2>1. Replace(<<y>>, x, u) = Part(y, x, u)
    BY <1>2, ReplaceOne
  <2> QED  BY <2>1, Zenon DEF Part
<1>3. ASSUME NEW x, NEW u, u \in Seq(S), x \in {"<", ">", Quote, "'"}
      PROVE  Replace(A, x, u) = A /\ Replace(L, x, u) = L
             /\ Replace(G, x, u) = G /\ Replace(Q, x, u) = Q
  <2>1. \A name \in Names : x \notin {"&", name, Semicolon}
    BY <1>3, MarkFacts DEF Names
  <2>2. \A name \in Names : Replace(Reference(name), x, u) = Reference(name)
    BY <1>3, <2>1, ReplaceReference
  <2> QED  BY <2>2 DEF Names
<1>4. Escaped(y) = IF y = "&" THEN A
                   ELSE IF y = "<" THEN L
                   ELSE IF y = ">" THEN G
                   ELSE IF y = Quote THEN Q
                   ELSE IF y = "'" THEN N
                   ELSE s
  BY Zenon DEF Escaped
<1> HIDE DEF A, L, G, Q, N, s
<1>5. s1 = IF y = "&" THEN A ELSE s
  BY <1>0, <1>2
<1> HIDE DEF s1
<1>6. s2 = IF y = "&" THEN A ELSE IF y = "<" THEN L ELSE s
  BY <1>0, <1>2, <1>3, <1>5
<1> HIDE DEF s2
<1>7. s3 = IF y = "&" THEN A ELSE IF y = "<" THEN L ELSE IF y = ">" THEN G ELSE s
  BY <1>0, <1>2, <1>3, <1>6
<1> HIDE DEF s3
<1>8. s4 = IF y = "&" THEN A ELSE IF y = "<" THEN L ELSE IF y = ">" THEN G
           ELSE IF y = Quote THEN Q ELSE s
  BY <1>0, <1>2, <1>3, <1>7
<1> HIDE DEF s4
<1>9. s5 = IF y = "&" THEN A ELSE IF y = "<" THEN L ELSE IF y = ">" THEN G
           ELSE IF y = Quote THEN Q ELSE IF y = "'" THEN N ELSE s
  BY <1>0, <1>2, <1>3, <1>8
<1> QED  BY <1>1, <1>4, <1>9 DEF s

-----------------------------------------------------------------------------
(* What a browser reads.                                                     *)
Decoded(s, i) ==
    IF EntityAt(s, i) THEN <<Entity[s[i + 1]]>>
    ELSE IF EntityAt(s, i - 1) \/ EntityAt(s, i - 2) THEN <<>>
    ELSE <<s[i]>>

Decodes(s) == [i \in 1 .. Len(s) |-> Decoded(s, i)]

AreDecoded(p, s) == Len(p) = Len(s) /\ \A i \in 1 .. Len(s) : p[i] = Decoded(s, i)

(* Unescape is what is left of the readings when they are put together.     *)
LEMMA UnescapeIs ==
    ASSUME NEW s
    PROVE  Unescape(s) = FlattenSeq(Decodes(s))
  BY DEF Unescape, Decodes, Decoded

(* The readings are texts, one for each place.                              *)
LEMMA DecodesType ==
    ASSUME NEW S, Marks \subseteq S, NEW s, s \in Seq(S)
    PROVE  Decodes(s) \in Seq(Seq(S)) /\ AreDecoded(Decodes(s), s)
<1> DEFINE p == Decodes(s)
<1>1. Len(s) \in Nat /\ \A i \in 1 .. Len(s) : s[i] \in S
  OBVIOUS
<1>2. \A i \in 1 .. Len(s) : Decoded(s, i) \in Seq(S)
  <2> TAKE i \in 1 .. Len(s)
  <2>1. CASE EntityAt(s, i)
    <3>1. s[i + 1] \in Names
      BY <2>1 DEF EntityAt, Entity, Names
    <3>2. Entity[s[i + 1]] \in S
      BY <3>1 DEF Entity, Names, Marks
    <3> QED  BY <2>1, <3>2 DEF Decoded
  <2>2. CASE ~ EntityAt(s, i)
    <3>1. <<s[i]>> \in Seq(S) /\ <<>> \in Seq(S)
      BY <1>1
    <3> QED  BY <2>2, <3>1, Zenon DEF Decoded
  <2> QED  BY <2>1, <2>2
<1>3. \A i \in 1 .. Len(s) : p[i] = Decoded(s, i)
  BY DEF Decodes
<1>4. p \in [1 .. Len(s) -> Seq(S)]
  BY <1>2 DEF Decodes
<1> HIDE DEF p
<1>5. p \in Seq(Seq(S)) /\ Len(p) = Len(s)
  BY <1>1, <1>4
<1> QED  BY <1>3, <1>5 DEF p, AreDecoded

(* No reference begins at the end of e and could go on behind it.           *)
Closed(e) == \A i \in 1 .. Len(e) : i > Len(e) - 2 => e[i] # "&"

(* A text is read part by part, if no reference goes across.                *)
LEMMA UnescapeConcat ==
    ASSUME NEW S, Marks \subseteq S, NEW e, NEW f, e \in Seq(S), f \in Seq(S), Closed(e)
    PROVE  Unescape(e \o f) = Unescape(e) \o Unescape(f)
<1> DEFINE st == e \o f
           p == Decodes(e)
           q == Decodes(f)
           r == Decodes(st)
           m == Len(e)
           n == Len(f)
<1>1. st \in Seq(S) /\ Joins(st, e, f)
  BY ConcatJoins
<1>2. m \in Nat /\ n \in Nat
  OBVIOUS
<1>3. /\ p \in Seq(Seq(S)) /\ AreDecoded(p, e)
      /\ q \in Seq(Seq(S)) /\ AreDecoded(q, f)
  BY DecodesType
<1> HIDE DEF st, p, q, r, m, n
<1>4. r \in Seq(Seq(S)) /\ AreDecoded(r, st)
  BY <1>1, DecodesType DEF r
<1>5. /\ Len(st) = m + n
      /\ \A i \in 1 .. m : st[i] = e[i]
      /\ \A i \in 1 .. n : st[m + i] = f[i]
  BY <1>1 DEF Joins, m, n
<1>6. \A i \in 1 .. m : i > m - 2 => e[i] # "&"
  BY DEF Closed, m
<1>7. ASSUME NEW i \in Int, i <= m PROVE EntityAt(st, i) <=> EntityAt(e, i)
  <2>1. CASE i < 1
    BY <2>1 DEF EntityAt
  <2>2. CASE i >= 1 /\ i > m - 2
    <3>1. i \in 1 .. m
      BY <1>7, <2>2
    <3>2. e[i] # "&" /\ st[i] # "&"
      BY <1>5, <1>6, <2>2, <3>1
    <3> QED  BY <3>2 DEF EntityAt
  <2>3. CASE i >= 1 /\ i <= m - 2
    <3>1. /\ i \in 1 .. m /\ i + 1 \in 1 .. m /\ i + 2 \in 1 .. m
          /\ i \in 1 .. m - 2 /\ i \in 1 .. (m + n) - 2
      BY <1>2, <2>3
    <3>2. st[i] = e[i] /\ st[i + 1] = e[i + 1] /\ st[i + 2] = e[i + 2]
      BY <1>5, <3>1
    <3>3. EntityAt(st, i) <=> e[i] = "&" /\ e[i + 1] \in DOMAIN Entity /\ e[i + 2] = Semicolon
      BY <1>5, <3>1, <3>2 DEF EntityAt
    <3>4. EntityAt(e, i) <=> e[i] = "&" /\ e[i + 1] \in DOMAIN Entity /\ e[i + 2] = Semicolon
      BY <3>1 DEF EntityAt, m
    <3> QED  BY <3>3, <3>4
  <2> QED  BY <1>2, <2>1, <2>2, <2>3
<1>8. ASSUME NEW i \in Int, i >= -1 PROVE EntityAt(st, m + i) <=> EntityAt(f, i)
  <2>1. CASE i < 1
    <3>1. ~ EntityAt(f, i)
      BY <2>1 DEF EntityAt
    <3>2. m + i \in 1 .. m => st[m + i] # "&"
      BY <1>2, <1>5, <1>6, <1>8
    <3>3. ~ EntityAt(st, m + i)
      BY <1>2, <2>1, <3>2 DEF EntityAt
    <3> QED  BY <3>1, <3>3
  <2>2. CASE i >= 1 /\ i > n - 2
    <3>1. ~ (i \in 1 .. n - 2) /\ ~ (m + i \in 1 .. (m + n) - 2)
      BY <1>2, <2>2
    <3> QED  BY <1>5, <3>1 DEF EntityAt, n
  <2>3. CASE i >= 1 /\ i <= n - 2
    <3>1. /\ i \in 1 .. n /\ i + 1 \in 1 .. n /\ i + 2 \in 1 .. n
          /\ i \in 1 .. n - 2 /\ m + i \in 1 .. (m + n) - 2
          /\ m + (i + 1) = (m + i) + 1 /\ m + (i + 2) = (m + i) + 2
      BY <1>2, <2>3
    <3>2. st[m + i] = f[i] /\ st[(m + i) + 1] = f[i + 1] /\ st[(m + i) + 2] = f[i + 2]
      BY <1>5, <3>1
    <3>3. EntityAt(st, m + i) <=> f[i] = "&" /\ f[i + 1] \in DOMAIN Entity /\ f[i + 2] = Semicolon
      BY <1>5, <3>1, <3>2 DEF EntityAt
    <3>4. EntityAt(f, i) <=> f[i] = "&" /\ f[i + 1] \in DOMAIN Entity /\ f[i + 2] = Semicolon
      BY <3>1 DEF EntityAt, n
    <3> QED  BY <3>3, <3>4
  <2> QED  BY <1>2, <2>1, <2>2, <2>3
<1>9. ASSUME NEW i \in 1 .. m PROVE Decoded(st, i) = Decoded(e, i)
  <2>1. /\ i \in Int /\ i <= m
        /\ i - 1 \in Int /\ i - 1 <= m
        /\ i - 2 \in Int /\ i - 2 <= m
    BY <1>2
  <2>2. /\ EntityAt(st, i) <=> EntityAt(e, i)
        /\ EntityAt(st, i - 1) <=> EntityAt(e, i - 1)
        /\ EntityAt(st, i - 2) <=> EntityAt(e, i - 2)
    BY <1>7, <2>1
  <2>3. EntityAt(e, i) => st[i + 1] = e[i + 1]
    <3>1. EntityAt(e, i) => i + 1 \in 1 .. m
      BY <1>2 DEF EntityAt, m
    <3> QED  BY <1>5, <3>1
  <2>4. st[i] = e[i]
    BY <1>5
  <2> QED  BY <2>2, <2>3, <2>4, Zenon DEF Decoded
<1>10. ASSUME NEW i \in 1 .. n PROVE Decoded(st, m + i) = Decoded(f, i)
  <2>1. /\ i \in Int /\ i >= -1
        /\ i - 1 \in Int /\ i - 1 >= -1
        /\ i - 2 \in Int /\ i - 2 >= -1
        /\ m + (i - 1) = (m + i) - 1 /\ m + (i - 2) = (m + i) - 2
    BY <1>2
  <2>2. /\ EntityAt(st, m + i) <=> EntityAt(f, i)
        /\ EntityAt(st, (m + i) - 1) <=> EntityAt(f, i - 1)
        /\ EntityAt(st, (m + i) - 2) <=> EntityAt(f, i - 2)
    <3>1. EntityAt(st, m + i) <=> EntityAt(f, i)
      BY <1>8, <2>1
    <3>2. EntityAt(st, m + (i - 1)) <=> EntityAt(f, i - 1)
      BY <1>8, <2>1
    <3>3. EntityAt(st, m + (i - 2)) <=> EntityAt(f, i - 2)
      BY <1>8, <2>1
    <3> QED  BY <2>1, <3>1, <3>2, <3>3
  <2>3. EntityAt(f, i) => st[(m + i) + 1] = f[i + 1]
    <3>1. EntityAt(f, i) => i + 1 \in 1 .. n /\ m + (i + 1) = (m + i) + 1
      BY <1>2 DEF EntityAt, n
    <3> QED  BY <1>5, <3>1
  <2>4. st[m + i] = f[i]
    BY <1>5
  <2> QED  BY <2>2, <2>3, <2>4, Zenon DEF Decoded
<1>11. Joins(r, p, q)
  <2>1. Len(r) = m + n /\ Len(p) = m /\ Len(q) = n
    BY <1>3, <1>4, <1>5 DEF AreDecoded, m, n
  <2>2. ASSUME NEW i \in 1 .. m PROVE r[i] = p[i]
    <3>1. i \in 1 .. m + n
      BY <1>2
    <3>2. r[i] = Decoded(st, i) /\ p[i] = Decoded(e, i)
      BY <1>3, <1>4, <1>5, <3>1 DEF AreDecoded, m
    <3> QED  BY <1>9, <3>2
  <2>3. ASSUME NEW i \in 1 .. n PROVE r[m + i] = q[i]
    <3>1. m + i \in 1 .. m + n
      BY <1>2
    <3>2. r[m + i] = Decoded(st, m + i) /\ q[i] = Decoded(f, i)
      BY <1>3, <1>4, <1>5, <3>1 DEF AreDecoded, n
    <3> QED  BY <1>10, <3>2
  <2> QED  BY <2>1, <2>2, <2>3 DEF Joins
<1>12. r = p \o q
  BY <1>3, <1>4, <1>11, JoinsConcat
<1>13. FlattenSeq(r) = FlattenSeq(p) \o FlattenSeq(q)
  BY <1>3, <1>12, FlattenConcat
<1> QED  BY <1>13, UnescapeIs DEF p, q, r, st

(* A symbol on its own is read as itself, ...                               *)
LEMMA UnescapeSymbol ==
    ASSUME NEW S, Marks \subseteq S, NEW y, y \in S
    PROVE  Unescape(<<y>>) = <<y>>
<1> DEFINE s == <<y>>
           p == Decodes(s)
<1>1. s \in Seq(S) /\ Len(s) = 1 /\ s[1] = y
  OBVIOUS
<1> HIDE DEF s, p
<1>2. p \in Seq(Seq(S)) /\ AreDecoded(p, s)
  BY <1>1, DecodesType DEF p
<1>3. ~ EntityAt(s, 1) /\ ~ EntityAt(s, 1 - 1) /\ ~ EntityAt(s, 1 - 2)
  BY <1>1 DEF EntityAt
<1>4. Len(p) = 1 /\ p[1] = s
  <2>1. Decoded(s, 1) = <<s[1]>>
    BY <1>3, Zenon DEF Decoded
  <2>2. <<s[1]>> = s
    BY <1>1 DEF s
  <2> QED  BY <1>1, <1>2, <2>1, <2>2 DEF AreDecoded
<1>5. p = <<s>>
  BY <1>2, <1>4
<1>6. FlattenSeq(p) = s
  BY <1>1, <1>5, FlattenOne
<1> QED  BY <1>6, UnescapeIs DEF p, s

(* ... and a reference as what it stands for.                               *)
LEMMA UnescapeReference ==
    ASSUME NEW S, Marks \subseteq S, NEW name, name \in Names
    PROVE  Unescape(Reference(name)) = <<Entity[name]>>
<1> DEFINE s == Reference(name)
           p == Decodes(s)
           z == <<Entity[name]>>
           e == <<>>
<1>1. s \in Seq(S) /\ Len(s) = 3 /\ s[1] = "&" /\ s[2] = name /\ s[3] = Semicolon
  BY ReferenceType DEF Reference
<1>2. Entity[name] \in S /\ name \in DOMAIN Entity
  BY DEF Entity, Names, Marks
<1>3. z \in Seq(S) /\ e \in Seq(S)
  BY <1>2
<1>z. s[2] = name => <<Entity[s[2]]>> = z
  BY Zenon
<1>4. z \o e = z
  BY <1>3
<1> HIDE DEF s, p, z
<1>5. p \in Seq(Seq(S)) /\ AreDecoded(p, s)
  BY <1>1, DecodesType DEF p
<1>6. EntityAt(s, 1) /\ \A i \in Int : i # 1 => ~ EntityAt(s, i)
  BY <1>1, <1>2 DEF EntityAt
<1>7. Decoded(s, 1) = z /\ Decoded(s, 2) = e /\ Decoded(s, 3) = e
  <2>1. /\ ~ EntityAt(s, 2) /\ ~ EntityAt(s, 3)
        /\ EntityAt(s, 2 - 1) /\ EntityAt(s, 3 - 2)
    BY <1>6
  <2>2. Decoded(s, 1) = <<Entity[s[1 + 1]]>>
    BY <1>6, Zenon DEF Decoded
  <2>3. <<Entity[s[1 + 1]]>> = z
    BY <1>1, <1>z
  <2>4. Decoded(s, 2) = e /\ Decoded(s, 3) = e
    BY <2>1, Zenon DEF Decoded
  <2> QED  BY <2>2, <2>3, <2>4
<1>8. Len(p) = 3 /\ p[1] = z /\ p[2] = e /\ p[3] = e
  BY <1>1, <1>5, <1>7 DEF AreDecoded
<1>9. p = <<z, e, e>>
  BY <1>5, <1>8
<1>10. FlattenSeq(p) = (z \o e) \o e
  BY <1>3, <1>9, FlattenThree
<1>11. FlattenSeq(p) = z
  BY <1>4, <1>10
<1> QED  BY <1>11, UnescapeIs DEF p, s, z

(* What a browser finds in a text that ends no attribute.                   *)
Harmless(e) == Closed(e) /\ \A i \in 1 .. Len(e) : e[i] # Quote

(* An escaped symbol is harmless, and read as the symbol.                   *)
LEMMA EscapedFacts ==
    ASSUME NEW S, Marks \subseteq S, NEW y, y \in S
    PROVE  Escaped(y) \in Seq(S) /\ Harmless(Escaped(y)) /\ Unescape(Escaped(y)) = <<y>>
<1>1. ASSUME NEW name \in Names, Escaped(y) = Reference(name), Entity[name] = y
      PROVE  Escaped(y) \in Seq(S) /\ Harmless(Escaped(y)) /\ Unescape(Escaped(y)) = <<y>>
  <2> DEFINE s == Reference(name)
  <2>1. s \in Seq(S) /\ Len(s) = 3 /\ s[1] = "&" /\ s[2] = name /\ s[3] = Semicolon
    BY ReferenceType DEF Reference
  <2> HIDE DEF s
  <2>2. /\ Semicolon # "&" /\ name # "&"
        /\ "&" # Quote /\ name # Quote /\ Semicolon # Quote
    BY MarkFacts DEF Names
  <2>3. Harmless(s)
    BY <2>1, <2>2 DEF Harmless, Closed
  <2>4. Unescape(s) = <<Entity[name]>>
    BY UnescapeReference DEF s
  <2> QED  BY <1>1, <2>1, <2>3, <2>4 DEF s
<1>2. CASE y \notin {"&", "<", ">", Quote, "'"}
  <2> DEFINE s == <<y>>
  <2>1. Escaped(y) = s
    BY <1>2 DEF Escaped
  <2>2. s \in Seq(S) /\ Len(s) = 1 /\ s[1] = y
    OBVIOUS
  <2>3. Unescape(s) = s
    BY UnescapeSymbol
  <2> HIDE DEF s
  <2>4. Harmless(s)
    BY <1>2, <2>2 DEF Harmless, Closed
  <2> QED  BY <2>1, <2>2, <2>3, <2>4 DEF s
<1>3. ASSUME y \in {"&", "<", ">", Quote, "'"}
      PROVE  \E name \in Names : Escaped(y) = Reference(name) /\ Entity[name] = y
  <2>1. /\ Entity["amp"] = "&" /\ Entity["lt"] = "<" /\ Entity["gt"] = ">"
        /\ Entity["quot"] = Quote /\ Entity["#39"] = "'"
    BY DEF Entity
  <2> QED  BY <1>3, <2>1, MarkFacts DEF Escaped, Names
<1> QED  BY <1>1, <1>2, <1>3

(* Harmless texts are harmless together.                                    *)
LEMMA HarmlessConcat ==
    ASSUME NEW S, NEW e, NEW f, e \in Seq(S), f \in Seq(S), Harmless(e), Harmless(f)
    PROVE  Harmless(e \o f)
<1> DEFINE st == e \o f
           m == Len(e)
           n == Len(f)
<1>1. st \in Seq(S) /\ Joins(st, e, f)
  BY ConcatJoins
<1>2. m \in Nat /\ n \in Nat
  OBVIOUS
<1> HIDE DEF st, m, n
<1>3. /\ Len(st) = m + n
      /\ \A i \in 1 .. m : st[i] = e[i]
      /\ \A i \in 1 .. n : st[m + i] = f[i]
  BY <1>1 DEF Joins, m, n
<1>4. ASSUME NEW i \in 1 .. m + n
      PROVE  st[i] # Quote /\ (i > (m + n) - 2 => st[i] # "&")
  <2>1. CASE i <= m
    <3>1. i \in 1 .. m /\ (i > (m + n) - 2 => i > m - 2)
      BY <1>2, <2>1
    <3> QED  BY <1>3, <3>1 DEF Harmless, Closed, m
  <2>2. CASE i > m
    <3>1. /\ i - m \in 1 .. n /\ m + (i - m) = i
          /\ i > (m + n) - 2 => i - m > n - 2
      BY <1>2, <2>2
    <3>2. st[i] = f[i - m]
      BY <1>3, <3>1
    <3> QED  BY <3>1, <3>2 DEF Harmless, Closed, n
  <2> QED  BY <1>2, <2>1, <2>2
<1> QED  BY <1>3, <1>4 DEF Harmless, Closed, st

(* The law of the stub page, for a text of any length: what is escaped ends *)
(* no attribute, and a browser reads from it what was escaped               *)
(* (utils.rs:88-95).                                                        *)
THEOREM EscapeLossless ==
    ASSUME NEW S, Marks \subseteq S
    PROVE  \A s \in Seq(S) : /\ EscapeHtml(s) \in Seq(S)
                             /\ Harmless(EscapeHtml(s))
                             /\ Unescape(EscapeHtml(s)) = s
<1> DEFINE P == {s \in Seq(S) : /\ EscapeHtml(s) \in Seq(S)
                                /\ Harmless(EscapeHtml(s))
                                /\ Unescape(EscapeHtml(s)) = s}
<1>1. <<>> \in P
  <2>1. EscapeHtml(<<>>) = <<>>
    BY ReplaceNone DEF EscapeHtml
  <2>2. Harmless(<<>>)
    BY DEF Harmless, Closed
  <2>3. Decodes(<<>>) = <<>>
    BY DEF Decodes
  <2>4. Unescape(<<>>) = <<>>
    BY <2>3, UnescapeIs, FlattenEmpty
  <2>5. <<>> \in Seq(S)
    OBVIOUS
  <2> QED  BY <2>1, <2>2, <2>4, <2>5
<1>2. ASSUME NEW s \in Seq(S), NEW y \in S, s \in P PROVE Append(s, y) \in P
  <2> DEFINE e == EscapeHtml(s)
             f == Escaped(y)
             o == <<y>>
  <2>1. e \in Seq(S) /\ Harmless(e) /\ Unescape(e) = s
    BY <1>2
  <2>2. f \in Seq(S) /\ Harmless(f) /\ Unescape(f) = o
    BY EscapedFacts
  <2>3. EscapeHtml(o) = f
    BY EscapeOne
  <2>4. o \in Seq(S) /\ Append(s, y) = s \o o /\ Append(s, y) \in Seq(S)
    BY AppendIsConcat
  <2> HIDE DEF e, f, o, P
  <2>5. EscapeHtml(s \o o) = EscapeHtml(s) \o EscapeHtml(o)
    BY <2>4, EscapeConcat
  <2>6. EscapeHtml(s \o o) = e \o f
    BY <2>3, <2>5 DEF e
  <2>7. e \o f \in Seq(S)
    BY <2>1, <2>2
  <2>8. Harmless(e \o f)
    BY <2>1, <2>2, HarmlessConcat
  <2>9. Unescape(e \o f) = Unescape(e) \o Unescape(f)
    <3>1. e \in Seq(S) /\ f \in Seq(S) /\ Closed(e)
      BY <2>1, <2>2 DEF Harmless
    <3> QED  BY <3>1, UnescapeConcat, SMTT(30)
  <2>10. Unescape(e \o f) = s \o o
    BY <2>1, <2>2, <2>9
  <2> QED  BY <2>4, <2>6, <2>7, <2>8, <2>10 DEF P
<1> HIDE DEF P
<1>3. \A s \in Seq(S) : s \in P
  BY <1>1, <1>2, SequenceInduction
<1> QED  BY <1>3 DEF P

-----------------------------------------------------------------------------
(* Where a text stops before one of some symbols, and the origin of a URL.  *)
(* The first n symbols of s are those before the first one of D.            *)
Stops(s, D, n) ==
    /\ n \in 0 .. Len(s)
    /\ \A i \in 1 .. n : s[i] \notin D
    /\ n < Len(s) => s[n + 1] \in D

(* Every text stops somewhere, at its end if not before.                    *)
LEMMA StopsSomewhere ==
    ASSUME NEW S, NEW s \in Seq(S), NEW D
    PROVE  \E n \in 0 .. Len(s) : Stops(s, D, n)
<1> DEFINE T == {i \in 1 .. Len(s) : s[i] \in D}
<1>1. CASE T = {}
  <2>1. Stops(s, D, Len(s)) /\ Len(s) \in 0 .. Len(s)
    BY <1>1 DEF Stops
  <2> QED  BY <2>1
<1>2. CASE T # {}
  <2>1. T \in SUBSET Nat
    OBVIOUS
  <2>2. PICK k \in T : \A m \in T : k <= m
    <3> HIDE DEF T
    <3> QED  BY <1>2, <2>1, MinOfNaturals
  <2>3. k - 1 \in 0 .. Len(s) /\ (k - 1) + 1 = k /\ s[k] \in D
    OBVIOUS
  <2>4. \A i \in 1 .. k - 1 : s[i] \notin D
    BY <2>2
  <2>5. Stops(s, D, k - 1)
    BY <2>3, <2>4 DEF Stops
  <2> QED  BY <2>3, <2>5
<1> QED  BY <1>1, <1>2

(* Before is the text up to where it stops.                                 *)
LEMMA BeforeIs ==
    ASSUME NEW S, NEW s \in Seq(S), NEW D, D # {}, NEW n, Stops(s, D, n)
    PROVE  /\ Before(s, D) = SubSeq(s, 1, n)
           /\ Before(s, D) \in Seq(S)
           /\ Len(Before(s, D)) = n
           /\ \A i \in 1 .. n : Before(s, D)[i] = s[i]
<1> DEFINE d == CHOOSE x \in D : TRUE
           t == s \o <<d>>
           T == {i \in 1 .. Len(t) : t[i] \in D}
<1>1. d \in D /\ n \in 0 .. Len(s) /\ Len(s) \in Nat
  BY DEF Stops
<1>2. Len(t) = Len(s) + 1 /\ \A i \in 1 .. Len(s) + 1 : t[i] = IF i <= Len(s) THEN s[i] ELSE d
  <2> HIDE DEF d
  <2> QED  OBVIOUS
<1>3. Before(s, D) = SubSeq(s, 1, (IF T # {} THEN Min(T) ELSE 0) - 1)
  BY DEF Before, SelectInSeq
<1> HIDE DEF d, t
<1>4. n + 1 \in T
  <2>1. n + 1 \in 1 .. Len(s) + 1
    BY <1>1
  <2>2. t[n + 1] \in D
    <3>1. CASE n < Len(s)
      BY <1>1, <1>2, <2>1, <3>1 DEF Stops
    <3>2. CASE n = Len(s)
      BY <1>1, <1>2, <2>1, <3>2
    <3> QED  BY <1>1, <3>1, <3>2
  <2> QED  BY <1>2, <2>1, <2>2
<1>5. \A m \in T : n + 1 <= m
  BY <1>1, <1>2 DEF Stops
<1>6. T \in SUBSET Nat
  BY <1>1, <1>2
<1> HIDE DEF T
<1>7. Min(T) \in T /\ \A m \in T : Min(T) <= m
  BY <1>4, <1>6, MinOfNaturals
<1>8. Min(T) = n + 1
  <2>1. Min(T) \in Nat /\ n + 1 \in Nat
    BY <1>4, <1>6, <1>7
  <2>2. Min(T) <= n + 1 /\ n + 1 <= Min(T)
    BY <1>4, <1>5, <1>7
  <2> QED  BY <2>1, <2>2
<1>9. Before(s, D) = SubSeq(s, 1, n)
  BY <1>1, <1>3, <1>4, <1>8
<1> QED  BY <1>1, <1>9

(* The first of some positions. *)
LEMMA MinIs ==
    ASSUME NEW T \in SUBSET Nat, NEW f \in T, \A i \in T : f <= i
    PROVE  Min(T) = f
<1>1. Min(T) \in T /\ \A i \in T : Min(T) <= i
  BY MinOfNaturals
<1>2. Min(T) \in Nat /\ f \in Nat /\ Min(T) <= f /\ f <= Min(T)
  BY <1>1
<1> QED  BY <1>2

LEMMA SchemeEndsAre ==
    ASSUME NEW S, NEW url \in Seq(S)
    PROVE  SchemeEnds(url) \in SUBSET Nat
BY DEF SchemeEnds

(* The origin, from where "://" first stands and where the authority ends.  *)
LEMMA OriginIs ==
    ASSUME NEW S, NEW url \in Seq(S), NEW f \in SchemeEnds(url), NEW m \in Nat,
           \A i \in SchemeEnds(url) : f <= i,
           Stops(SubSeq(url, f + 3, Len(url)), Delimiters, m), m # 0
    PROVE  /\ OriginOf(url) = SubSeq(url, 1, f + 2 + m)
           /\ f + 2 + m <= Len(url)
<1> DEFINE scheme == SubSeq(url, 1, f + 2)
           rest == SubSeq(url, f + 3, Len(url))
           authority == Before(rest, Delimiters)
           o == scheme \o authority
<1>1. f \in Nat /\ f >= 1 /\ f + 2 <= Len(url) /\ Len(url) \in Nat
  BY DEF SchemeEnds
<1>2. /\ scheme \in Seq(S) /\ Len(scheme) = f + 2
      /\ \A i \in 1 .. f + 2 : scheme[i] = url[i]
  BY <1>1
<1>3. /\ rest \in Seq(S) /\ Len(rest) = Len(url) - (f + 2)
      /\ \A i \in 1 .. Len(rest) : rest[i] = url[f + 2 + i]
  BY <1>1
<1>4. Min(SchemeEnds(url)) = f
  BY SchemeEndsAre, MinIs
<1>5. Rest(url) = rest
  BY <1>4 DEF Rest
<1> HIDE DEF rest, scheme
<1>6. /\ authority \in Seq(S) /\ Len(authority) = m
      /\ \A i \in 1 .. m : authority[i] = rest[i]
  <2>1. Delimiters # {}
    BY DEF Delimiters
  <2>2. Stops(rest, Delimiters, m)
    BY DEF rest
  <2> QED  BY <1>3, <2>1, <2>2, BeforeIs
<1>7. f + 2 + m <= Len(url)
  <2>1. Stops(rest, Delimiters, m)
    BY DEF rest
  <2>2. m <= Len(rest)
    BY <1>3, <2>1 DEF Stops
  <2> QED  BY <1>1, <1>3, <2>2
<1>8. authority # <<>> /\ SchemeEnds(url) # {}
  <2> HIDE DEF authority
  <2>1. authority # <<>>
    BY <1>6
  <2> QED  BY <2>1
<1>9. OriginOf(url) = o
  BY <1>4, <1>5, <1>8 DEF OriginOf, scheme
<1> HIDE DEF authority
<1>10. o \in Seq(S) /\ Len(o) = f + 2 + m
  <2>1. /\ scheme \in Seq(S) /\ Len(scheme) = f + 2
        /\ authority \in Seq(S) /\ Len(authority) = m
    BY <1>2, <1>6
  <2>2. o \in Seq(S) /\ Len(o) = Len(scheme) + Len(authority)
    BY ONLY <2>1
  <2> QED  BY <2>1, <2>2
<1>11. ASSUME NEW i \in 1 .. f + 2 + m PROVE o[i] = url[i]
  <2>1. CASE i <= f + 2
    BY <1>1, <1>2, <1>6, <2>1
  <2>2. CASE i > f + 2
    <3>1. i - (f + 2) \in 1 .. m /\ f + 2 + (i - (f + 2)) = i
      BY <1>1, <2>2
    <3>2. i - (f + 2) \in 1 .. Len(rest)
      BY <1>1, <1>3, <1>7, <3>1
    <3>3. o[i] = authority[i - (f + 2)]
      BY <1>1, <1>2, <1>6, <2>2
    <3> QED  BY <1>3, <1>6, <3>1, <3>2, <3>3
  <2> HIDE DEF o
  <2> QED  BY <1>1, <2>1, <2>2
<1> HIDE DEF o
<1>12. /\ SubSeq(url, 1, f + 2 + m) \in Seq(S)
       /\ Len(SubSeq(url, 1, f + 2 + m)) = f + 2 + m
       /\ \A i \in 1 .. f + 2 + m : SubSeq(url, 1, f + 2 + m)[i] = url[i]
  BY <1>1, <1>7
<1>13. o = SubSeq(url, 1, f + 2 + m)
  BY <1>10, <1>11, <1>12, SeqEqual
<1> QED  BY <1>7, <1>9, <1>13

(* A text that begins as another one does begins with a scheme if it does.  *)
LEMMA ValidPrefix ==
    ASSUME NEW S, NEW url \in Seq(S), ValidUrl(url)
    PROVE  /\ Len(url) >= 4 /\ url[1] \in {"http", "https"}
           /\ url[2] = ":" /\ url[3] = "/" /\ url[4] = "/"
<1>1. PICK scheme \in {"http", "https"} : IsPrefix(<<scheme, ":", "/", "/">>, url)
  BY DEF ValidUrl
<1> DEFINE p == <<scheme, ":", "/", "/">>
<1>2. /\ Len(p) = 4 /\ p[1] = scheme /\ p[2] = ":" /\ p[3] = "/" /\ p[4] = "/"
      /\ SubSeq(p, 1, 4) = p
  <2>1. /\ Len(p) = 4 /\ p[1] = scheme /\ p[2] = ":" /\ p[3] = "/" /\ p[4] = "/"
        /\ p \in Seq({scheme, ":", "/"})
    OBVIOUS
  <2> HIDE DEF p
  <2> QED  BY <2>1, SubSeqFull
<1> HIDE DEF p
<1>3. 4 <= Len(url) /\ p = SubSeq(url, 1, 4)
  BY <1>1, <1>2 DEF IsPrefix, p
<1>4. p[1] = url[1] /\ p[2] = url[2] /\ p[3] = url[3] /\ p[4] = url[4]
  BY <1>3
<1> QED  BY <1>2, <1>3, <1>4

LEMMA ValidIs ==
    ASSUME NEW S, NEW o \in Seq(S), NEW scheme \in {"http", "https"}, Len(o) >= 4,
           o[1] = scheme, o[2] = ":", o[3] = "/", o[4] = "/"
    PROVE  ValidUrl(o)
<1> DEFINE p == <<scheme, ":", "/", "/">>
<1>1. /\ p \in Seq({scheme, ":", "/"}) /\ Len(p) = 4
      /\ p[1] = scheme /\ p[2] = ":" /\ p[3] = "/" /\ p[4] = "/"
  OBVIOUS
<1> HIDE DEF p
<1>2. SubSeq(p, 1, 4) = p
  BY <1>1, SubSeqFull
<1>3. /\ SubSeq(o, 1, 4) \in Seq(S) /\ Len(SubSeq(o, 1, 4)) = 4
      /\ \A i \in 1 .. 4 : SubSeq(o, 1, 4)[i] = o[i]
  OBVIOUS
<1>4. \A i \in 1 .. 4 : p[i] = o[i]
  <2>1. \A i \in 1 .. 4 : i = 1 \/ i = 2 \/ i = 3 \/ i = 4
    OBVIOUS
  <2> QED  BY <1>1, <2>1
<1>5. p \in Seq(S)
  <2>1. \A i \in 1 .. 4 : o[i] \in S
    OBVIOUS
  <2>2. {scheme, ":", "/"} \subseteq S
    <3>1. 1 \in 1 .. 4 /\ 2 \in 1 .. 4 /\ 3 \in 1 .. 4
      OBVIOUS
    <3> QED  BY <2>1, <3>1
  <2> QED  BY <1>1, <2>2
<1>6. p = SubSeq(o, 1, 4)
  BY <1>1, <1>3, <1>4, <1>5, SeqEqual
<1>7. IsPrefix(p, o)
  BY <1>1, <1>2, <1>6 DEF IsPrefix
<1> QED  BY <1>7 DEF ValidUrl, p

(* The law of the origin, for a URL of any length: what is found covers the *)
(* host up to where it ends, and is its own origin (utils.rs:135-150).      *)
THEOREM OriginLawful ==
    ASSUME NEW S, NEW url \in Seq(S)
    PROVE  OriginFits(url)
<1>1. CASE SchemeEnds(url) = {}
  <2>1. OriginOf(url) = None
    BY <1>1 DEF OriginOf
  <2> QED  BY <2>1 DEF OriginFits
<1>2. CASE SchemeEnds(url) # {}
  <2>1. PICK f \in SchemeEnds(url) : \A i \in SchemeEnds(url) : f <= i
    BY <1>2, SchemeEndsAre, MinOfNaturals
  <2>2. Min(SchemeEnds(url)) = f
    BY <2>1, SchemeEndsAre, MinIs
  <2>3. /\ f \in Nat /\ f >= 1 /\ f + 2 <= Len(url) /\ Len(url) \in Nat
        /\ url[f] = ":" /\ url[f + 1] = "/" /\ url[f + 2] = "/"
    BY <2>1 DEF SchemeEnds
  <2> DEFINE rest == SubSeq(url, f + 3, Len(url))
  <2>4. /\ rest \in Seq(S) /\ Len(rest) = Len(url) - (f + 2)
        /\ \A i \in 1 .. Len(rest) : rest[i] = url[f + 2 + i]
    BY <2>3
  <2>5. Rest(url) = rest
    BY <2>2 DEF Rest
  <2>6. PICK m \in 0 .. Len(rest) : Stops(rest, Delimiters, m)
    <3> HIDE DEF rest
    <3> QED  BY <2>4, StopsSomewhere
  <2>7. CASE m = 0
    <3> DEFINE b == Before(rest, Delimiters)
    <3>1. b \in Seq(S) /\ Len(b) = 0
      <4>1. Delimiters # {}
        BY DEF Delimiters
      <4> HIDE DEF rest
      <4> QED  BY <2>4, <2>6, <2>7, <4>1, BeforeIs
    <3> HIDE DEF b
    <3>2. b = <<>>
      BY <3>1
    <3>3. OriginOf(url) = None
      BY <2>5, <3>2 DEF OriginOf, b
    <3> QED  BY <3>3 DEF OriginFits
  <2>8. CASE m # 0
    <3> DEFINE o == SubSeq(url, 1, f + 2 + m)
    <3>1. m \in Nat /\ m >= 1
      BY <2>4, <2>6, <2>8
    <3>2. OriginOf(url) = o /\ f + 2 + m <= Len(url)
      BY <2>1, <2>6, <2>8, <3>1, OriginIs
    <3>3. /\ o \in Seq(S) /\ Len(o) = f + 2 + m
          /\ \A i \in 1 .. f + 2 + m : o[i] = url[i]
      BY <2>3, <3>1, <3>2
    <3> HIDE DEF o
    <3>4. IsPrefix(o, url)
      <4>1. SubSeq(o, 1, Len(o)) = o
        BY <3>3, SubSeqFull
      <4>2. SubSeq(url, 1, Len(o)) = o
        BY <3>3 DEF o
      <4>3. Len(o) <= Len(url)
        BY <3>2, <3>3
      <4> QED  BY <4>1, <4>2, <4>3 DEF IsPrefix
    <3>5. f \in SchemeEnds(o)
      <4>1. f \in 1 .. Len(o) - 2
        BY <2>3, <3>1, <3>3
      <4>2. o[f] = url[f] /\ o[f + 1] = url[f + 1] /\ o[f + 2] = url[f + 2]
        BY <2>3, <3>1, <3>3
      <4> QED  BY <2>3, <4>1, <4>2 DEF SchemeEnds
    <3>6. \A i \in SchemeEnds(o) : f <= i
      <4>1. SUFFICES ASSUME NEW i \in SchemeEnds(o) PROVE f <= i
        OBVIOUS
      <4>2. i \in 1 .. Len(o) - 2 /\ o[i] = ":" /\ o[i + 1] = "/" /\ o[i + 2] = "/"
        BY DEF SchemeEnds
      <4>3. o[i] = url[i] /\ o[i + 1] = url[i + 1] /\ o[i + 2] = url[i + 2]
        BY <2>3, <3>1, <3>3, <4>2
      <4>4. i \in 1 .. Len(url) - 2
        BY <2>3, <3>1, <3>2, <3>3, <4>2
      <4>5. i \in SchemeEnds(url)
        BY <4>2, <4>3, <4>4 DEF SchemeEnds
      <4> QED  BY <2>1, <4>5
    <3> DEFINE tail == SubSeq(o, f + 3, Len(o))
    <3>7. /\ tail \in Seq(S) /\ Len(tail) = m
          /\ \A i \in 1 .. m : tail[i] = o[f + 2 + i]
      BY <2>3, <3>1, <3>3
    <3>8. Rest(o) = tail
      BY <3>3, <3>5, <3>6, SchemeEndsAre, MinIs DEF Rest
    <3> HIDE DEF tail
    <3>9. ASSUME NEW i \in 1 .. m PROVE tail[i] \notin Delimiters
      <4>1. i \in 1 .. Len(rest) /\ f + 2 + i \in 1 .. f + 2 + m
        BY <2>3, <2>4, <2>6
      <4>2. tail[i] = rest[i]
        BY <2>4, <3>3, <3>7, <4>1
      <4> QED  BY <2>6, <4>2 DEF Stops
    <3>10. OriginOf(o) = o
      <4>1. Stops(tail, Delimiters, m)
        BY <3>1, <3>7, <3>9 DEF Stops
      <4>2. OriginOf(o) = SubSeq(o, 1, f + 2 + m)
        BY <2>8, <3>1, <3>3, <3>5, <3>6, <4>1, OriginIs DEF tail
      <4>3. SubSeq(o, 1, f + 2 + m) = o
        BY <3>3, SubSeqFull
      <4> QED  BY <4>2, <4>3
    <3>11. ToSet(Rest(o)) \cap Delimiters = {}
      <4>1. DOMAIN tail = 1 .. m
        BY <3>7
      <4> QED  BY <3>8, <3>9, <4>1 DEF ToSet
    <3>12. o = url \/ url[Len(o) + 1] \in Delimiters
      <4>1. CASE m = Len(rest)
        <5>1. f + 2 + m = Len(url)
          <6> HIDE DEF rest
          <6> QED  BY <2>3, <2>4, <4>1
        <5> QED  BY <5>1, SubSeqFull DEF o
      <4>2. CASE m < Len(rest)
        <5>1. rest[m + 1] \in Delimiters
          BY <2>6, <4>2 DEF Stops
        <5>2. m + 1 \in 1 .. Len(rest) /\ f + 2 + (m + 1) = Len(o) + 1
          BY <2>3, <2>4, <3>1, <3>3, <4>2
        <5>3. rest[m + 1] = url[Len(o) + 1]
          BY <2>4, <5>2
        <5> QED  BY <5>1, <5>3
      <4> QED  BY <2>4, <2>6, <4>1, <4>2
    <3>13. ASSUME ValidUrl(url) PROVE ValidUrl(o)
      <4>1. /\ Len(url) >= 4 /\ url[1] \in {"http", "https"}
            /\ url[2] = ":" /\ url[3] = "/" /\ url[4] = "/"
        BY <3>13, ValidPrefix
      <4>2. f >= 2
        <5>1. url[1] # ":"
          BY <4>1
        <5>2. f # 1
          BY <2>3, <5>1
        <5> QED  BY <2>3, <5>2
      <4>3. Len(o) >= 4 /\ o[1] = url[1] /\ o[2] = url[2] /\ o[3] = url[3] /\ o[4] = url[4]
        <5>1. Len(o) >= 5 /\ 1 \in 1 .. f + 2 /\ 2 \in 1 .. f + 2 /\ 3 \in 1 .. f + 2 /\ 4 \in 1 .. f + 2
          BY <2>3, <3>1, <3>3, <4>2
        <5> QED  BY <3>3, <5>1
      <4> QED  BY <3>3, <4>1, <4>3, ValidIs
    <3> QED  BY <3>2, <3>4, <3>10, <3>11, <3>12, <3>13 DEF OriginFits
  <2> QED  BY <2>4, <2>6, <2>7, <2>8
<1> QED  BY <1>1, <1>2

-----------------------------------------------------------------------------
(* The tag of the widget.                                                   *)
(* The tag p has as many attributes begun as ended, each with a name.       *)
Whole(p) ==
    /\ Cardinality(Quotes(p)) % 2 = 0
    /\ \A i \in Opening(p) : i > 2 /\ \E j \in Quotes(p) : j > i

(* The symbols of a tag besides names and values.                           *)
TagMarks == Marks \cup {" ", "="}

(* A tag has finitely many quotes.                                          *)
LEMMA QuotesFinite ==
    ASSUME NEW S, NEW p, p \in Seq(S)
    PROVE  /\ IsFiniteSet(Quotes(p)) /\ Cardinality(Quotes(p)) \in Nat
           /\ \A i \in Quotes(p) : i \in 1 .. Len(p)
<1>1. Len(p) \in Nat /\ Quotes(p) \in SUBSET (1 .. Len(p))
  BY DEF Quotes
<1>2. IsFiniteSet(1 .. Len(p))
  BY <1>1, FS_Interval
<1>3. IsFiniteSet(Quotes(p))
  BY <1>1, <1>2, FS_Subset
<1> QED  BY <1>1, <1>3, FS_CardinalityType

(* An attribute is its name and its escaped value between the only two quotes. *)
LEMMA AttributeIs ==
    ASSUME NEW S, TagMarks \subseteq S, NEW name, NEW value,
           name \in S, name # Quote, value \in Seq(S)
    PROVE  LET q == Attribute(name, value)
               e == EscapeHtml(value)
               k == Len(e) IN
           /\ e \in Seq(S) /\ k \in Nat
           /\ Unescape(e) = value
           /\ q \in Seq(S) /\ Len(q) = k + 5
           /\ q[2] = name
           /\ q[4] = Quote /\ q[k + 5] = Quote
           /\ \A i \in 1 .. k : q[4 + i] = e[i] /\ e[i] # Quote
           /\ \A i \in 1 .. k + 5 : i # 4 /\ i # k + 5 => q[i] # Quote
<1> DEFINE q == Attribute(name, value)
           e == EscapeHtml(value)
           k == Len(e)
           a == <<" ", name, "=", Quote>>
           c == <<Quote>>
           ae == a \o e
<1>1. Marks \subseteq S /\ Quote \in S
  BY Zenon DEF Marks, TagMarks
<1>1a. " " \in S /\ "=" \in S
  BY Zenon DEF TagMarks
<1>2. e \in Seq(S) /\ Harmless(e) /\ Unescape(e) = value
  BY <1>1, EscapeLossless
<1>3. /\ a \in Seq(S) /\ Len(a) = 4
      /\ a[1] # Quote /\ a[2] = name /\ a[3] # Quote /\ a[4] = Quote
  <2>1. " " # Quote /\ "=" # Quote
    BY Zenon DEF Quote
  <2>2. a[1] = " " /\ a[2] = name /\ a[3] = "=" /\ a[4] = Quote /\ Len(a) = 4
    OBVIOUS
  <2>3. a \in Seq(S)
    <3> DEFINE x == " "
               y == "="
    <3>1. x \in S /\ y \in S
      BY <1>1a
    <3> HIDE DEF x, y
    <3>2. <<x, name, y, Quote>> \in Seq(S)
      BY <1>1, <3>1
    <3> QED  BY <3>2 DEF x, y
  <2> QED  BY <2>1, <2>2, <2>3
<1>4. c \in Seq(S) /\ Len(c) = 1 /\ c[1] = Quote
  BY <1>1
<1>5. q = ae \o c
  BY Zenon DEF Attribute
<1>6. k \in Nat
  BY <1>2
<1> HIDE DEF q, e, k, a, c, ae
<1>7. ae \in Seq(S) /\ Joins(ae, a, e)
  BY <1>2, <1>3, ConcatJoins DEF ae
<1>8. q \in Seq(S) /\ Joins(q, ae, c)
  BY <1>4, <1>5, <1>7, ConcatJoins
<1>9. Len(ae) = 4 + k /\ Len(q) = k + 5
  BY <1>2, <1>3, <1>4, <1>6, <1>7, <1>8 DEF Joins, k
<1>10. /\ \A i \in 1 .. 4 : q[i] = a[i]
       /\ \A i \in 1 .. k : q[4 + i] = e[i]
       /\ q[k + 5] = Quote
  <2>1. \A i \in 1 .. 4 + k : q[i] = ae[i]
    BY <1>8, <1>9 DEF Joins
  <2>2. \A i \in 1 .. 4 : ae[i] = a[i]
    BY <1>3, <1>7 DEF Joins
  <2>3. \A i \in 1 .. k : ae[4 + i] = e[i]
    BY <1>3, <1>7 DEF Joins, k
  <2>4. q[(4 + k) + 1] = c[1]
    BY <1>4, <1>8, <1>9 DEF Joins
  <2>5. (4 + k) + 1 = k + 5 /\ \A i \in 1 .. k : 4 + i \in 1 .. 4 + k
    BY <1>6
  <2> QED  BY <1>4, <1>6, <2>1, <2>2, <2>3, <2>4, <2>5
<1>11. \A i \in 1 .. k : e[i] # Quote
  BY <1>2 DEF Harmless, k
<1>12. ASSUME NEW i \in 1 .. k + 5, i # 4, i # k + 5 PROVE q[i] # Quote
  <2>1. CASE i < 4
    <3>1. i = 1 \/ i = 2 \/ i = 3
      BY <1>6, <2>1
    <3> QED  BY <1>3, <1>10, <3>1
  <2>2. CASE i > 4
    <3>1. i - 4 \in 1 .. k /\ 4 + (i - 4) = i
      BY <1>6, <1>12, <2>2
    <3> QED  BY <1>10, <1>11, <3>1
  <2> QED  BY <1>6, <1>12, <2>1, <2>2
<1>13. q[2] = name /\ q[4] = Quote
  BY <1>3, <1>10
<1> QED  BY <1>2, <1>6, <1>8, <1>9, <1>10, <1>11, <1>12, <1>13 DEF q, e, k

(* Two quotes behind a tag that has an even number of them: the first opens *)
(* a value and the second does not.                                         *)
LEMMA OpeningGrows ==
    ASSUME NEW p, NEW t, NEW m \in Nat, NEW a \in Nat, NEW b \in Nat, m < a, a < b,
           \A i \in Quotes(p) : i \in 1 .. m,
           IsFiniteSet(Quotes(p)), Cardinality(Quotes(p)) \in Nat,
           Cardinality(Quotes(p)) % 2 = 0,
           Quotes(t) = Quotes(p) \cup {a, b}
    PROVE  /\ Opening(t) = Opening(p) \cup {a}
           /\ Cardinality(Quotes(t)) % 2 = 0
<1> DEFINE Q == Quotes(p)
           R == Quotes(t)
           n == Cardinality(Q)
           Qa == Q \cup {a}
<1>1. \A i \in Q : i \in 1 .. m
  OBVIOUS
<1>2. a \notin Q /\ b \notin Qa
  BY <1>1
<1>3. R = Qa \cup {b}
  OBVIOUS
<1>4. IsFiniteSet(Q) /\ n \in Nat /\ n % 2 = 0
  OBVIOUS
<1> HIDE DEF Q, R, n
<1>5. IsFiniteSet(Qa) /\ Cardinality(Qa) = n + 1
  BY <1>2, <1>4, FS_AddElement DEF n
<1>6. Cardinality(R) = n + 2
  <2> HIDE DEF Qa
  <2>1. Cardinality(Qa \cup {b}) = Cardinality(Qa) + 1
    BY <1>2, <1>5, FS_AddElement
  <2> QED  BY <1>3, <1>4, <1>5, <2>1
<1>7. (n + 1) % 2 # 0 /\ (n + 2) % 2 = 0
  BY <1>4
<1>8. ASSUME NEW i \in Q PROVE {j \in R : j < i} = {j \in Q : j < i}
  BY <1>1, <1>3
<1>9. {j \in R : j < a} = Q
  BY <1>1, <1>3
<1>10. {j \in R : j < b} = Qa
  BY <1>1, <1>3
<1>11. Opening(t) = {i \in R : Cardinality({j \in R : j < i}) % 2 = 0}
  BY DEF Opening, R
<1>12. Opening(p) = {i \in Q : Cardinality({j \in Q : j < i}) % 2 = 0}
  BY DEF Opening, Q
<1>13. ASSUME NEW i PROVE i \in Opening(t) <=> i \in Opening(p) \cup {a}
  <2>1. CASE i \in Q
    <3>1. Cardinality({j \in R : j < i}) = Cardinality({j \in Q : j < i})
      BY <1>8, <2>1
    <3>2. i \in R /\ i # a
      BY <1>2, <1>3, <2>1
    <3> QED  BY <1>11, <1>12, <2>1, <3>1, <3>2
  <2>2. CASE i = a
    <3>1. i \in R /\ Cardinality({j \in R : j < i}) = n
      BY <1>3, <1>9, <2>2 DEF n
    <3>2. i \in Opening(t)
      BY <1>4, <1>11, <3>1
    <3> QED  BY <2>2, <3>2
  <2>3. CASE i = b
    <3>1. Cardinality({j \in R : j < i}) = n + 1
      BY <1>5, <1>10, <2>3
    <3>2. i \notin Opening(t)
      BY <1>7, <1>11, <3>1
    <3>3. i \notin Q /\ i # a
      BY <1>2, <2>3
    <3>4. i \notin Opening(p)
      BY <1>12, <3>3
    <3> QED  BY <3>2, <3>3, <3>4
  <2>4. CASE i \notin Q /\ i # a /\ i # b
    BY <1>3, <1>11, <1>12, <2>4
  <2> QED  BY <2>1, <2>2, <2>3, <2>4
<1>14. Opening(t) = Opening(p) \cup {a}
  BY <1>13
<1> QED  BY <1>6, <1>7, <1>14 DEF R

(* An attribute that is closed in p is read alike in a longer tag.          *)
LEMMA AttributeStays ==
    ASSUME NEW S, NEW p, NEW q, NEW t, NEW i, NEW j, p \in Seq(S), t \in Seq(S),
           Joins(t, p, q), q \in Seq(S), i \in 1 .. Len(p), j \in 1 .. Len(p), 2 < i, i < j, p[j] = Quote
    PROVE  AttributeAt(t, i) = AttributeAt(p, i)
<1> DEFINE m == Len(p)
           w == Len(t)
           u == SubSeq(p, i + 1, m)
           v == SubSeq(t, i + 1, w)
           D == {Quote}
<1>1. m \in Nat /\ w \in Nat /\ m <= w /\ i \in 1 .. m /\ j \in 1 .. m /\ 2 < i /\ i < j
  BY DEF Joins
<1>2. \A l \in 1 .. m : t[l] = p[l]
  BY DEF Joins
<1>3. /\ u \in Seq(S) /\ Len(u) = m - i
      /\ \A l \in 1 .. m - i : u[l] = p[i + l]
  BY <1>1
<1>4. /\ v \in Seq(S) /\ Len(v) = w - i
      /\ \A l \in 1 .. w - i : v[l] = t[i + l]
  BY <1>1
<1>5. D # {} /\ p[j] \in D
  OBVIOUS
<1>6. /\ AttributeAt(t, i) = [name |-> t[i - 2], value |-> Unescape(Before(v, D))]
      /\ AttributeAt(p, i) = [name |-> p[i - 2], value |-> Unescape(Before(u, D))]
  BY DEF AttributeAt
<1> HIDE DEF m, w, u, v, D
<1>7. PICK n \in 0 .. Len(u) : Stops(u, D, n)
  BY <1>3, StopsSomewhere
<1>8. n \in Nat /\ n < m - i
  <2>1. j - i \in 1 .. m - i /\ i + (j - i) = j
    BY <1>1
  <2>2. u[j - i] \in D
    BY <1>3, <1>5, <2>1
  <2> QED  BY <1>1, <1>3, <1>7, <2>1, <2>2 DEF Stops
<1>9. ASSUME NEW l \in 1 .. n + 1 PROVE v[l] = u[l]
  <2>1. l \in 1 .. m - i /\ l \in 1 .. w - i /\ i + l \in 1 .. m
    BY <1>1, <1>8
  <2> QED  BY <1>2, <1>3, <1>4, <2>1
<1>10. Stops(v, D, n)
  <2>1. /\ \A l \in 1 .. n : u[l] \notin D
        /\ u[n + 1] \in D
    BY <1>3, <1>7, <1>8 DEF Stops
  <2>2. n \in 0 .. Len(v)
    BY <1>1, <1>4, <1>8
  <2>3. \A l \in 1 .. n : l \in 1 .. n + 1
    BY <1>8
  <2>4. n + 1 \in 1 .. n + 1
    BY <1>8
  <2> QED  BY <1>9, <2>1, <2>2, <2>3, <2>4 DEF Stops
<1> DEFINE x == Before(u, D)
           y == Before(v, D)
<1>11. /\ x \in Seq(S) /\ Len(x) = n
       /\ \A l \in 1 .. n : x[l] = u[l]
  <2>1. u \in Seq(S) /\ D # {} /\ Stops(u, D, n)
    BY <1>3, <1>5, <1>7
  <2>2. /\ Before(u, D) \in Seq(S) /\ Len(Before(u, D)) = n
        /\ \A l \in 1 .. n : Before(u, D)[l] = u[l]
    BY ONLY <2>1, BeforeIs
  <2> QED  BY <2>2
<1>12. /\ y \in Seq(S) /\ Len(y) = n
       /\ \A l \in 1 .. n : y[l] = v[l]
  <2>1. v \in Seq(S) /\ D # {} /\ Stops(v, D, n)
    BY <1>4, <1>5, <1>10
  <2>2. /\ Before(v, D) \in Seq(S) /\ Len(Before(v, D)) = n
        /\ \A l \in 1 .. n : Before(v, D)[l] = v[l]
    BY ONLY <2>1, BeforeIs
  <2> QED  BY <2>2
<1> HIDE DEF x, y
<1>13. x = y
  <2>1. \A l \in 1 .. n : x[l] = y[l]
    BY <1>8, <1>9, <1>11, <1>12
  <2> QED  BY <1>11, <1>12, <2>1, SeqEqual
<1>14. t[i - 2] = p[i - 2]
  <2>1. i - 2 \in 1 .. m
    BY <1>1
  <2> QED  BY <1>2, <2>1
<1> QED  BY <1>6, <1>13, <1>14 DEF x, y

(* The same, of an attribute q with the escaped value e of length k.        *)
AttributeFacts(q, e, k, name) ==
    /\ Len(q) = k + 5
    /\ q[2] = name
    /\ q[4] = Quote /\ q[k + 5] = Quote
    /\ \A i \in 1 .. k : q[4 + i] = e[i] /\ e[i] # Quote
    /\ \A i \in 1 .. k + 5 : i # 4 /\ i # k + 5 => q[i] # Quote

(* The attribute behind p is read as it was written.                        *)
LEMMA AttributeRead ==
    ASSUME NEW S, NEW p, NEW q, NEW t, NEW e, NEW k \in Nat, NEW name,
           p \in Seq(S), q \in Seq(S), t \in Seq(S), Joins(t, p, q),
           e \in Seq(S), Len(e) = k, AttributeFacts(q, e, k, name)
    PROVE  AttributeAt(t, Len(p) + 4) = [name |-> name, value |-> Unescape(e)]
<1> DEFINE m == Len(p)
           w == Len(t)
           v == SubSeq(t, (m + 4) + 1, w)
           D == {Quote}
<1>1. m \in Nat
  OBVIOUS
<1>2. w = m + (k + 5) /\ \A i \in 1 .. k + 5 : t[m + i] = q[i]
  BY DEF Joins, AttributeFacts
<1>3. v \in Seq(S) /\ Len(v) = k + 1 /\ \A i \in 1 .. k + 1 : v[i] = t[(m + 4) + i]
  BY <1>1, <1>2
<1>4. AttributeAt(t, m + 4) = [name |-> t[(m + 4) - 2], value |-> Unescape(Before(v, D))]
  BY DEF AttributeAt
<1>5. D # {} /\ \A x : x \in D <=> x = Quote
  OBVIOUS
<1> HIDE DEF m, w, v, D
<1>6. ASSUME NEW i \in 1 .. k + 1 PROVE v[i] = q[4 + i]
  <2>1. 4 + i \in 1 .. k + 5 /\ (m + 4) + i = m + (4 + i)
    BY <1>1
  <2> QED  BY <1>2, <1>3, <2>1
<1>7. \A i \in 1 .. k : v[i] = e[i] /\ e[i] # Quote
  <2>1. \A i \in 1 .. k : i \in 1 .. k + 1
    OBVIOUS
  <2> QED  BY <1>6, <2>1 DEF AttributeFacts
<1>8. v[k + 1] = Quote
  <2>1. k + 1 \in 1 .. k + 1 /\ 4 + (k + 1) = k + 5
    OBVIOUS
  <2> QED  BY <1>6, <2>1 DEF AttributeFacts
<1>9. Stops(v, D, k)
  BY <1>3, <1>5, <1>7, <1>8 DEF Stops
<1> DEFINE x == Before(v, D)
<1>10. x \in Seq(S) /\ Len(x) = k /\ \A i \in 1 .. k : x[i] = v[i]
  <2>1. v \in Seq(S) /\ D # {} /\ Stops(v, D, k)
    BY <1>3, <1>5, <1>9
  <2>2. /\ Before(v, D) \in Seq(S) /\ Len(Before(v, D)) = k
        /\ \A l \in 1 .. k : Before(v, D)[l] = v[l]
    BY ONLY <2>1, BeforeIs
  <2> QED  BY <2>2
<1> HIDE DEF x
<1>11. x = e
  <2>1. \A i \in 1 .. k : x[i] = e[i]
    BY <1>7, <1>10
  <2>2. x \in Seq(S) /\ e \in Seq(S) /\ Len(x) = k /\ Len(e) = k
    BY <1>10
  <2> QED  BY ONLY <2>1, <2>2, SeqEqual
<1>12. t[(m + 4) - 2] = name
  <2>1. (m + 4) - 2 = m + 2 /\ 2 \in 1 .. k + 5
    BY <1>1
  <2> QED  BY <1>2, <2>1 DEF AttributeFacts
<1> QED  BY <1>4, <1>11, <1>12 DEF x, m

(* An attribute brings two quotes to a tag.                                 *)
LEMMA QuotesGrow ==
    ASSUME NEW S, NEW p, NEW q, NEW t, NEW e, NEW k \in Nat, NEW name,
           p \in Seq(S), q \in Seq(S), t \in Seq(S), Joins(t, p, q),
           AttributeFacts(q, e, k, name)
    PROVE  Quotes(t) = Quotes(p) \cup {Len(p) + 4, Len(p) + (k + 5)}
<1> DEFINE m == Len(p)
<1>1. m \in Nat
  OBVIOUS
<1> HIDE DEF m
<1>2. /\ Len(t) = m + (k + 5)
      /\ \A i \in 1 .. m : t[i] = p[i]
      /\ \A i \in 1 .. k + 5 : t[m + i] = q[i]
  BY DEF Joins, AttributeFacts, m
<1>3. /\ q[4] = Quote /\ q[k + 5] = Quote
      /\ \A i \in 1 .. k + 5 : i # 4 /\ i # k + 5 => q[i] # Quote
  BY DEF AttributeFacts
<1>4. ASSUME NEW i PROVE i \in Quotes(t) <=> i \in Quotes(p) \cup {m + 4, m + (k + 5)}
  <2>1. CASE i \in 1 .. m
    <3>1. i \in 1 .. m + (k + 5) /\ i # m + 4 /\ i # m + (k + 5)
      BY <1>1, <2>1
    <3>2. i \in Quotes(t) <=> t[i] = Quote
      BY <1>2, <3>1 DEF Quotes
    <3>3. i \in Quotes(p) <=> p[i] = Quote
      BY <2>1 DEF Quotes, m
    <3> QED  BY <1>2, <2>1, <3>1, <3>2, <3>3
  <2>2. CASE i \in m + 1 .. m + (k + 5)
    <3>1. i - m \in 1 .. k + 5 /\ m + (i - m) = i
      BY <1>1, <2>2
    <3>2. i \in 1 .. m + (k + 5) /\ ~ (i \in 1 .. m)
      BY <1>1, <2>2
    <3>3. t[i] = q[i - m]
      BY <1>2, <3>1
    <3>4. i \in Quotes(t) <=> q[i - m] = Quote
      BY <1>2, <3>2, <3>3 DEF Quotes
    <3>5. i \notin Quotes(p)
      BY <3>2 DEF Quotes, m
    <3>6. q[i - m] = Quote <=> i - m = 4 \/ i - m = k + 5
      BY <1>3, <3>1
    <3>7. (i - m = 4 <=> i = m + 4) /\ (i - m = k + 5 <=> i = m + (k + 5))
      BY <1>1, <2>2
    <3> QED  BY <3>4, <3>5, <3>6, <3>7
  <2>3. CASE ~ (i \in 1 .. m) /\ ~ (i \in m + 1 .. m + (k + 5))
    <3>1. ~ (i \in 1 .. m + (k + 5)) /\ i # m + 4 /\ i # m + (k + 5)
      BY <1>1, <2>3
    <3>2. i \notin Quotes(t)
      BY <1>2, <3>1 DEF Quotes
    <3>3. i \notin Quotes(p)
      BY <2>3 DEF Quotes, m
    <3> QED  BY <3>1, <3>2, <3>3
  <2> QED  BY <2>1, <2>2, <2>3
<1> QED  BY <1>4 DEF m

(* The tag t is p and what the browser finds in R.                          *)
Grown(S, p, t, R) ==
    t \in Seq(S) /\ Whole(t) /\ Attributes(t) = Attributes(p) \cup R

(* An attribute behind a whole tag leaves it whole, and is found beside those *)
(* before it.                                                               *)
LEMMA AttributesConcat ==
    ASSUME NEW S, TagMarks \subseteq S, NEW p, NEW name, NEW value,
           p \in Seq(S), Whole(p), name \in S, name # Quote, value \in Seq(S)
    PROVE  Grown(S, p, p \o Attribute(name, value), {[name |-> name, value |-> value]})
<1> DEFINE q == Attribute(name, value)
           e == EscapeHtml(value)
           k == Len(e)
           t == p \o q
           m == Len(p)
           a == m + 4
           b == m + (k + 5)
<1>1. /\ e \in Seq(S) /\ k \in Nat
      /\ Unescape(e) = value
      /\ q \in Seq(S)
      /\ AttributeFacts(q, e, k, name)
  BY AttributeIs DEF AttributeFacts
<1>2. t \in Seq(S) /\ Joins(t, p, q)
  <2>1. p \in Seq(S) /\ q \in Seq(S)
    BY <1>1
  <2> QED  BY ONLY <2>1, ConcatJoins
<1>3. m \in Nat /\ k = Len(e)
  OBVIOUS
<1> HIDE DEF q, e, k, t, m
<1>4. /\ IsFiniteSet(Quotes(p)) /\ Cardinality(Quotes(p)) \in Nat
      /\ \A i \in Quotes(p) : i \in 1 .. m
  BY QuotesFinite DEF m
<1>5. /\ Cardinality(Quotes(p)) % 2 = 0
      /\ \A i \in Opening(p) : i > 2 /\ \E j \in Quotes(p) : j > i
  BY DEF Whole
<1>6. Quotes(t) = Quotes(p) \cup {a, b}
  BY <1>1, <1>2, QuotesGrow DEF m
<1>7. /\ a \in Nat /\ b \in Nat /\ m < a /\ a < b /\ a > 2
  BY <1>1, <1>3
<1> HIDE DEF a, b
<1>8. /\ Opening(t) = Opening(p) \cup {a}
      /\ Cardinality(Quotes(t)) % 2 = 0
  BY <1>3, <1>4, <1>5, <1>6, <1>7, OpeningGrows
<1>9. Whole(t)
  <2>1. a > 2 /\ b \in Quotes(t) /\ b > a
    BY <1>6, <1>7
  <2>2. Quotes(p) \subseteq Quotes(t)
    BY <1>6
  <2> QED  BY <1>5, <1>8, <2>1, <2>2 DEF Whole
<1>10. ASSUME NEW i \in Opening(p) PROVE AttributeAt(t, i) = AttributeAt(p, i)
  <2>1. PICK j \in Quotes(p) : j > i
    BY <1>5
  <2>2. i \in Quotes(p) /\ i > 2
    BY <1>5 DEF Opening
  <2>3. i \in 1 .. Len(p) /\ j \in 1 .. Len(p) /\ 2 < i /\ i < j
    BY <1>3, <1>4, <2>1, <2>2 DEF m
  <2>4. p[j] = Quote
    BY DEF Quotes
  <2>5. p \in Seq(S) /\ t \in Seq(S) /\ q \in Seq(S) /\ Joins(t, p, q)
    BY <1>1, <1>2
  <2> QED  BY ONLY <2>3, <2>4, <2>5, AttributeStays
<1>11. AttributeAt(t, a) = [name |-> name, value |-> value]
  <2>1. AttributeAt(t, Len(p) + 4) = [name |-> name, value |-> Unescape(e)]
    BY <1>1, <1>2, <1>3, AttributeRead
  <2> QED  BY <1>1, <2>1 DEF a, m
<1>12. Attributes(t) = Attributes(p) \cup {AttributeAt(t, a)}
  BY <1>8, <1>10 DEF Attributes
<1> QED  BY <1>2, <1>9, <1>11, <1>12 DEF t, q, Grown

(* The same for an attribute that is left out when it has no value.         *)
LEMMA OptionalConcat ==
    ASSUME NEW S, TagMarks \subseteq S, NEW p, NEW name, NEW value,
           p \in Seq(S), Whole(p), name \in S, name # Quote, value \in Seq(S) \cup {None}
    PROVE  Grown(S, p, p \o OptionalAttribute(name, value), Sent(name, value))
<1>1. CASE value = None
  <2>1. p \o <<>> = p
    OBVIOUS
  <2>2. Grown(S, p, p, {})
    BY DEF Grown
  <2> QED  BY <1>1, <2>1, <2>2 DEF OptionalAttribute, Sent
<1>2. CASE value # None
  <2>1. value \in Seq(S)
    BY <1>2
  <2> QED  BY <1>2, <2>1, AttributesConcat DEF OptionalAttribute, Sent
<1> QED  BY <1>1, <1>2

AttributeNames == {"data-sitekey", "data-cdata", "data-action"}

(* The law of the widget, for texts of any length: a browser finds in the   *)
(* tag what was put there, and nothing else (utils.rs:28-43).               *)
THEOREM WidgetLossless ==
    ASSUME NEW S, TagMarks \subseteq S, AttributeNames \subseteq S,
           NEW sitekey, NEW cdata, NEW action, sitekey \in Seq(S), sitekey # None,
           cdata \in Seq(S) \cup {None}, action \in Seq(S) \cup {None}
    PROVE  WidgetKeeps(sitekey, cdata, action)
<1> DEFINE nk == "data-sitekey"
           nc == "data-cdata"
           na == "data-action"
           e == <<>>
           k == Attribute(nk, sitekey)
           kc == k \o OptionalAttribute(nc, cdata)
           kca == kc \o OptionalAttribute(na, action)
<1>1. nk \in S /\ nc \in S /\ na \in S
  BY Zenon DEF AttributeNames
<1>2. nk # Quote /\ nc # Quote /\ na # Quote
  BY Zenon DEF Quote
<1>3. Widget(sitekey, cdata, action) = kca
  BY Zenon DEF Widget
<1>4. WidgetKeeps(sitekey, cdata, action)
      <=> Attributes(Widget(sitekey, cdata, action))
            = (Sent(nk, sitekey) \cup Sent(nc, cdata)) \cup Sent(na, action)
  BY Zenon DEF WidgetKeeps
<1> HIDE DEF nk, nc, na
<1>5. e \in Seq(S) /\ Whole(e) /\ Attributes(e) = {}
  <2>1. Quotes(e) = {}
    BY DEF Quotes
  <2>2. Opening(e) = {}
    BY <2>1 DEF Opening
  <2>3. Cardinality(Quotes(e)) % 2 = 0
    <3>1. Cardinality({}) = 0
      BY FS_EmptySet
    <3>2. 0 % 2 = 0
      OBVIOUS
    <3> QED  BY <2>1, <3>1, <3>2
  <2>4. Attributes(e) = {}
    BY <2>2 DEF Attributes
  <2>5. Whole(e)
    BY <2>2, <2>3 DEF Whole
  <2>6. e \in Seq(S)
    OBVIOUS
  <2> QED  BY <2>4, <2>5, <2>6
<1>6. k \in Seq(S) /\ e \o k = k
  <2>1. k \in Seq(S)
    BY <1>1, <1>2, AttributeIs
  <2> QED  BY <2>1
<1> HIDE DEF e, k, kc, kca
<1>7. Grown(S, e, k, Sent(nk, sitekey))
  <2>1. Grown(S, e, e \o k, {[name |-> nk, value |-> sitekey]})
    BY <1>1, <1>2, <1>5, AttributesConcat DEF k
  <2> QED  BY <1>6, <2>1 DEF Sent
<1>8. Grown(S, k, kc, Sent(nc, cdata))
  BY <1>1, <1>2, <1>7, OptionalConcat DEF Grown, kc
<1>9. Grown(S, kc, kca, Sent(na, action))
  BY <1>1, <1>2, <1>8, OptionalConcat DEF Grown, kca
<1>10. Attributes(kca) = (Sent(nk, sitekey) \cup Sent(nc, cdata)) \cup Sent(na, action)
  <2>1. Attributes(k) = {} \cup Sent(nk, sitekey)
    BY <1>5, <1>7 DEF Grown
  <2>2. Attributes(kc) = Attributes(k) \cup Sent(nc, cdata)
    BY <1>8 DEF Grown
  <2>3. Attributes(kca) = Attributes(kc) \cup Sent(na, action)
    BY <1>9 DEF Grown
  <2> QED  BY <2>1, <2>2, <2>3
<1> QED  BY <1>3, <1>4, <1>10

-----------------------------------------------------------------------------
(* The handlers.                                                            *)
Working == {"opening", "solving", "waiting", "releasing"}

(* The handler of r and its slot are at the same point.                     *)
Tied(r) ==
    /\ stage[r] = "new" <=> phase[r] \in {"absent", "acquiring"}
    /\ stage[r] = "holding" <=> phase[r] \in Working
    /\ holder[r] = NoSlot <=> phase[r] \notin Working

(* What the phase and the status of r say of the page and of the input.     *)
Told(r) ==
    /\ phase[r] \in {"absent", "acquiring", "opening", "solving"} => r \notin navigated
    /\ phase[r] = "waiting" => r \in navigated
    /\ status[r] = "503" => r \notin navigated
    /\ status[r] = "200" => r \in navigated
    /\ r \in navigated => Accepted(input[r])
    /\ phase[r] # "absent" => input[r] \in Inputs

(* No slot gets lost as long as no client goes away.                        *)
Backed ==
    (\A r \in Requests : phase[r] # "gone") =>
        Slots \subseteq free \cup {holder[r] : r \in Requests}

(* No handler is at work once the drain is over.                            *)
Quiet ==
    server \in {"stopping", "stopped"} => \A r \in Requests : phase[r] \notin InFlight

IInv ==
    /\ TypeOK
    /\ \A r \in Requests : Tied(r) /\ Told(r)
    /\ Backed
    /\ Quiet

-----------------------------------------------------------------------------
(* What a step of one handler leaves alone. *)
Same(q) ==
    /\ phase'[q] = phase[q] /\ status'[q] = status[q] /\ input'[q] = input[q]
    /\ stage'[q] = stage[q] /\ holder'[q] = holder[q]
    /\ q \in navigated' <=> q \in navigated

(* The invariants of the requests, from what becomes of one.                *)
LEMMA OneMoves ==
    ASSUME NEW r \in Requests, \A q \in Requests : Tied(q) /\ Told(q),
           Tied(r)', Told(r)', \A q \in Requests \ {r} : Same(q)
    PROVE  \A q \in Requests : (Tied(q) /\ Told(q))'
<1> TAKE q \in Requests
<1>1. CASE q = r
  BY <1>1
<1>2. CASE q # r
  <2>1. Tied(q) /\ Told(q) /\ Same(q)
    BY <1>2
  <2>2. Tied(q)'
    BY <2>1 DEF Tied, Same
  <2>3. Told(q)'
    BY <2>1 DEF Told, Same, Accepted
  <2> QED  BY <2>2, <2>3
<1> QED  BY <1>1, <1>2

(* A handler that keeps its slot and its place in the pool.                 *)
LEMMA PlainStep ==
    ASSUME IInv, NEW r \in Requests, NEW from \in InFlight, NEW to \in Working, NEW code \in
               {"none", "200", "400", "503"},
           Move(r, from, to, code), from \in Working,
           UNCHANGED <<server, input, pool>>,
           navigated' \in {navigated, navigated \cup {r}},
           Told(r)'
    PROVE  IInv'
<1> USE DEF IInv
<1>1. TypeOK'
  BY DEF TypeOK, Move, pool, Phases, Working, InFlight
<1>2. Tied(r)'
  BY DEF Tied, TypeOK, Move, pool, Working
<1>3. \A q \in Requests \ {r} : Same(q)
  BY DEF Same, TypeOK, Move, pool
<1>4. \A q \in Requests : (Tied(q) /\ Told(q))'
  BY <1>2, <1>3, OneMoves
<1>5. Backed'
  BY DEF Backed, TypeOK, Move, pool, Working
<1>6. Quiet'
  BY DEF Quiet, TypeOK, Move, Working, InFlight
<1> QED  BY <1>1, <1>4, <1>5, <1>6

-----------------------------------------------------------------------------
(* It holds at the start, and every step keeps it.                          *)
LEMMA InitInv == Init => IInv
<1> SUFFICES ASSUME Init PROVE IInv
  OBVIOUS
<1> USE DEF Init, Pool!Init
<1>1. TypeOK
  BY DEF TypeOK, Phases
<1>2. \A r \in Requests : Tied(r) /\ Told(r)
  BY DEF Tied, Told, Working
<1> QED  BY <1>1, <1>2 DEF IInv, Backed, Quiet

LEMMA ArriveInv ==
    ASSUME IInv, NEW r \in Requests, NEW i \in Asks[r], Arrive(r, i)
    PROVE  IInv'
<1> USE DEF IInv, Arrive, Move
<1>0. i \in Inputs
  BY DEF Inputs
<1>1. TypeOK'
  BY <1>0 DEF TypeOK, pool, Phases, InFlight
<1>2. Tied(r)'
  BY DEF Tied, TypeOK, pool, Working
<1>3. Told(r)'
  BY <1>0 DEF Told, TypeOK
<1>4. \A q \in Requests \ {r} : Same(q)
  BY DEF Same, TypeOK, pool
<1>5. \A q \in Requests : (Tied(q) /\ Told(q))'
  BY <1>2, <1>3, <1>4, OneMoves
<1>6. Backed'
  BY DEF Backed, TypeOK, pool
<1>7. Quiet'
  BY DEF Quiet
<1> QED  BY <1>1, <1>5, <1>6, <1>7

LEMMA AcquiredInv ==
    ASSUME IInv, NEW r \in Requests, Acquired(r)
    PROVE  IInv'
<1> PICK s \in Slots : Pool!Take(r, s)
  BY DEF Acquired
<1> USE ServiceAssumption DEF IInv, Acquired, Move, Pool!Take
<1>1. TypeOK'
  BY DEF TypeOK, Phases, InFlight
<1>2. Tied(r)'
  BY DEF Tied, TypeOK, Working
<1>3. Told(r)'
  BY DEF Told, TypeOK
<1>4. \A q \in Requests \ {r} : Same(q)
  BY DEF Same, TypeOK
<1>5. \A q \in Requests : (Tied(q) /\ Told(q))'
  BY <1>2, <1>3, <1>4, OneMoves
<1>6. Backed'
  <2> SUFFICES ASSUME \A q \in Requests : phase'[q] # "gone", NEW x \in Slots
               PROVE  x \in free' \/ \E q \in Requests : x = holder'[q]
    BY DEF Backed
  <2>1. x \in free \/ \E q \in Requests : x = holder[q]
    BY <1>4 DEF Backed, Same
  <2>2. CASE x \in free
    BY <2>2 DEF TypeOK
  <2>3. CASE \E q \in Requests : x = holder[q]
    <3>1. PICK q \in Requests : x = holder[q]
      BY <2>3
    <3>2. q # r
      BY <3>1 DEF Tied, Working
    <3> QED  BY <1>4, <3>1, <3>2 DEF Same
  <2> QED  BY <2>1, <2>2, <2>3
<1>7. Quiet'
  BY DEF Quiet, TypeOK, InFlight
<1> QED  BY <1>1, <1>5, <1>6, <1>7

LEMMA ReleasedInv ==
    ASSUME IInv, NEW r \in Requests, Released(r)
    PROVE  IInv'
<1> USE ServiceAssumption DEF IInv, Released, Move, Pool!Return
<1>1. TypeOK'
  BY DEF TypeOK, Tied, Phases, Working
<1>2. Tied(r)'
  BY DEF Tied, TypeOK, Working
<1>3. Told(r)'
  BY DEF Told, TypeOK, Accepted
<1>4. \A q \in Requests \ {r} : Same(q)
  BY DEF Same, TypeOK
<1>5. \A q \in Requests : (Tied(q) /\ Told(q))'
  BY <1>2, <1>3, <1>4, OneMoves
<1>6. Backed'
  <2> SUFFICES ASSUME \A q \in Requests : phase'[q] # "gone", NEW x \in Slots
               PROVE  x \in free' \/ \E q \in Requests : x = holder'[q]
    BY DEF Backed
  <2>1. x \in free \/ \E q \in Requests : x = holder[q]
    BY <1>4 DEF Backed, Same
  <2>2. CASE \E q \in Requests : x = holder[q]
    BY <1>4, <2>2 DEF Same
  <2> QED  BY <2>1, <2>2
<1>7. Quiet'
  BY DEF Quiet, TypeOK, InFlight
<1> QED  BY <1>1, <1>5, <1>6, <1>7

LEMMA HandlerInv ==
    ASSUME IInv, NEW r \in Requests, Handler(r)
    PROVE  IInv'
<1>1. CASE PageOpens(r)
  <2>1. Told(r)'
    BY <1>1 DEF PageOpens, Move, IInv, TypeOK, Told, Accepted
  <2> QED  BY <1>1, <2>1, PlainStep DEF PageOpens, Working, InFlight, pool
<1>2. CASE PageFails(r)
  <2>1. Told(r)'
    BY <1>2 DEF PageFails, Move, IInv, TypeOK, Told, Accepted
  <2> QED  BY <1>2, <2>1, PlainStep DEF PageFails, Working, InFlight, pool
<1>3. CASE Refuse(r)
  <2>1. Told(r)'
    BY <1>3 DEF Refuse, Move, IInv, TypeOK, Told, Accepted
  <2> QED  BY <1>3, <2>1, PlainStep DEF Refuse, Working, InFlight, pool
<1>4. CASE Navigate(r)
  <2>1. Told(r)'
    BY <1>4 DEF Navigate, Move, IInv, TypeOK, Told, Accepted
  <2> QED  BY <1>4, <2>1, PlainStep DEF Navigate, Working, InFlight, pool
<1>5. CASE Solved(r)
  <2>1. Told(r)'
    BY <1>5 DEF Solved, Move, IInv, TypeOK, Told, Accepted
  <2> QED  BY <1>5, <2>1, PlainStep DEF Solved, Working, InFlight, pool
<1>6. CASE SolveFails(r)
  <2>1. Told(r)'
    BY <1>6 DEF SolveFails, Move, IInv, TypeOK, Told, Accepted
  <2> QED  BY <1>6, <2>1, PlainStep DEF SolveFails, Working, InFlight, pool
<1>7. CASE Released(r)
  BY <1>7, ReleasedInv
<1> QED  BY <1>1, <1>2, <1>3, <1>4, <1>5, <1>6, <1>7 DEF Handler

LEMMA LeaveInv ==
    ASSUME IInv, NEW r \in Requests, Leave(r)
    PROVE  IInv'
<1> USE ServiceAssumption DEF IInv, Leave, Move, Pool!Leave
<1>1. TypeOK'
  BY DEF TypeOK, Phases
<1>2. Tied(r)'
  BY DEF Tied, TypeOK, Working
<1>3. Told(r)'
  BY DEF Told, TypeOK, Accepted, InFlight
<1>4. \A q \in Requests \ {r} : Same(q)
  BY DEF Same, TypeOK
<1>5. \A q \in Requests : (Tied(q) /\ Told(q))'
  BY <1>2, <1>3, <1>4, OneMoves
<1>6. phase'[r] = "gone"
  BY DEF TypeOK
<1>7. Backed'
  BY <1>6 DEF Backed
<1>8. Quiet'
  BY DEF Quiet, TypeOK, InFlight
<1> QED  BY <1>1, <1>5, <1>7, <1>8

LEMMA StepInv == IInv /\ [Next]_vars => IInv'
<1> SUFFICES ASSUME IInv, [Next]_vars PROVE IInv'
  OBVIOUS
<1> DEFINE Untouched == UNCHANGED <<phase, input, status, navigated, pool>>
<1>1. CASE \E r \in Requests :
            \/ \E i \in Asks[r] : Arrive(r, i)
            \/ Acquired(r)
            \/ Handler(r)
            \/ Leave(r)
  BY <1>1, ArriveInv, AcquiredInv, HandlerInv, LeaveInv
<1>2. ASSUME Untouched, server' \in {"serving", "draining", "stopping", "stopped"}, Quiet'
      PROVE  IInv'
  <2>1. TypeOK'
    BY <1>2 DEF IInv, TypeOK, pool
  <2>2. \A q \in Requests : (Tied(q) /\ Told(q))'
    BY <1>2 DEF IInv, Tied, Told, Accepted, pool
  <2>3. Backed'
    BY <1>2 DEF IInv, Backed, pool
  <2> QED  BY <1>2, <2>1, <2>2, <2>3 DEF IInv
<1>3. CASE Signal
  BY <1>2, <1>3 DEF Signal, Quiet
<1>4. CASE Drained
  BY <1>2, <1>4 DEF Drained, Quiet
<1>5. CASE PoolDown
  BY <1>2, <1>5 DEF PoolDown, Quiet, IInv
<1>6. CASE Stopped \/ UNCHANGED vars
  BY <1>2, <1>6 DEF Stopped, vars, Quiet, IInv, TypeOK
<1> QED  BY <1>1, <1>3, <1>4, <1>5, <1>6 DEF Next

-----------------------------------------------------------------------------
(* The invariant holds, whatever the clients and the operator do.           *)
THEOREM Inductive == Spec => []IInv
<1> QED  BY InitInv, StepInv, PTL DEF Spec

(* The types, with the five outcomes of a handler (handlers.rs:105-222).    *)
THEOREM TypeCorrect == Spec => []TypeOK
<1>1. IInv => TypeOK
  BY DEF IInv
<1> QED  BY <1>1, Inductive, PTL

(* main tears the pool down when nobody works with it (main.rs:36-43).      *)
THEOREM Outlives == Spec => []PoolOutlivesRequests
<1>1. IInv => PoolOutlivesRequests
  BY DEF IInv, PoolOutlivesRequests, Quiet, Tied, Working, InFlight
<1> QED  BY <1>1, Inductive, PTL

(* An answered request has given its slot back, on every path of a handler  *)
(* (handlers.rs:131-149, 193-204).                                          *)
THEOREM GaveBack == Spec => []AnsweredGaveBack
<1>1. IInv => AnsweredGaveBack
  BY DEF IInv, AnsweredGaveBack, Backed, Tied, Working, InFlight
<1> QED  BY <1>1, Inductive, PTL

(* The status code tells whether the page was sent to the URL.              *)
THEOREM StatusTrue == Spec => []StatusFits
<1>1. IInv => StatusFits
  BY DEF IInv, StatusFits, Told
<1> QED  BY <1>1, Inductive, PTL

(* All symbols that a text of the service can be made of.                   *)
AllSymbols == Symbols \cup UrlSymbols \cup TextSymbols \cup TagMarks \cup AttributeNames

(* A text of bounded length is a text.                                      *)
LEMMA BoundedTexts ==
    ASSUME NEW X, X \subseteq AllSymbols, NEW n \in Nat
    PROVE  SeqOf(X, n) \subseteq Seq(AllSymbols)
<1>1. ASSUME NEW m \in 0 .. n, NEW s \in [1 .. m -> X] PROVE s \in Seq(AllSymbols)
  <2>1. s \in [1 .. m -> AllSymbols] /\ m \in Nat
    OBVIOUS
  <2> QED  BY <2>1
<1> QED  BY <1>1 DEF SeqOf

(* Whatever the texts of an accepted request are, the widget keeps them.    *)
LEMMA TextsKept ==
    ASSUME NEW i, i \in Inputs, i.kind = "turnstile", Accepted(i)
    PROVE  KeepsTexts[i.sitekey]
<1> DEFINE S == AllSymbols
           k == i.sitekey
<1>1. k \in Seq(S) /\ k # None
  <2>1. k \in Seq(Symbols) /\ k # None
    BY AskAssumption DEF Inputs
  <2>2. Symbols \subseteq S
    BY Zenon DEF AllSymbols
  <2> HIDE DEF S, k
  <2> QED  BY <2>1, <2>2
<1>2. Texts \subseteq Seq(S)
  <2>1. TextSymbols \subseteq S
    BY Zenon DEF AllSymbols
  <2> QED  BY <2>1, BoundedTexts, InputAssumption DEF Texts
<1>3. TagMarks \subseteq S /\ AttributeNames \subseteq S
  BY Zenon DEF AllSymbols
<1>4. k \in {j.sitekey : j \in LetThrough("turnstile")}
  BY DEF LetThrough
<1> HIDE DEF S, k
<1>5. ASSUME NEW cdata \in Texts \cup {None}, NEW action \in Texts \cup {None}
      PROVE  WidgetKeeps(k, cdata, action)
  <2>1. cdata \in Seq(S) \cup {None} /\ action \in Seq(S) \cup {None}
    BY <1>2
  <2> QED  BY <1>1, <1>3, <2>1, WidgetLossless
<1> QED  BY <1>4, <1>5 DEF KeepsTexts, k

(* ... and however its URL goes on, the origin found for it fits.           *)
LEMMA OriginFound ==
    ASSUME NEW i, i \in Inputs, i.kind = "iuam", Accepted(i)
    PROVE  FindsOrigin[i.url]
<1> DEFINE S == AllSymbols
           u == i.url
<1>1. u \in Seq(S)
  <2>1. u \in Seq(Symbols)
    BY AskAssumption DEF Inputs
  <2>2. Symbols \subseteq S
    BY Zenon DEF AllSymbols
  <2> HIDE DEF S, u
  <2> QED  BY <2>1, <2>2
<1>2. Tails \subseteq Seq(S)
  <2>1. UrlSymbols \subseteq S
    BY Zenon DEF AllSymbols
  <2> QED  BY <2>1, BoundedTexts, InputAssumption DEF Tails
<1>3. u \in {j.url : j \in LetThrough("iuam")}
  BY DEF LetThrough
<1> HIDE DEF S, u
<1>4. ASSUME NEW tail \in Tails PROVE OriginFits(u \o tail)
  <2>1. u \o tail \in Seq(S)
    BY <1>1, <1>2
  <2> QED  BY <2>1, OriginLawful
<1> QED  BY <1>3, <1>4 DEF FindsOrigin, u

(* The stub page a request waits on keeps what its client has sent.         *)
THEOREM StubLossless == Spec => []StubKeepsInputs
<1>1. IInv => StubKeepsInputs
  <2> SUFFICES ASSUME IInv, NEW r \in navigated, input[r].kind = "turnstile"
               PROVE  KeepsTexts[input[r].sitekey]
    BY DEF StubKeepsInputs
  <2>1. input[r] \in Inputs /\ Accepted(input[r])
    BY DEF IInv, TypeOK, Told
  <2> QED  BY <2>1, TextsKept
<1> QED  BY <1>1, Inductive, PTL

(* The clearance cookie is looked up for the right origin.                  *)
THEOREM OriginCovered == Spec => []OriginCoversHost
<1>1. IInv => OriginCoversHost
  <2> SUFFICES ASSUME IInv, NEW r \in navigated, input[r].kind = "iuam"
               PROVE  FindsOrigin[input[r].url]
    BY DEF OriginCoversHost
  <2>1. input[r] \in Inputs /\ Accepted(input[r])
    BY DEF IInv, TypeOK, Told
  <2> QED  BY <2>1, OriginFound
<1> QED  BY <1>1, Inductive, PTL
=============================================================================
