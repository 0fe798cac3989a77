--------------------------- MODULE Induction_proofs ---------------------------
(***************************************************************************)
(* Induction on the natural numbers, from the well-foundedness of < on     *)
(* them and the lemma that a set then has a minimal member, and, by it,    *)
(* what Those keeps of a sequence and what Joined makes of several.        *)
(***************************************************************************)
EXTENDS SequenceFilter, WellFoundedInduction, TLAPS

\* A set of natural numbers that is not empty has a least member.
LEMMA LeastNatural ==
    ASSUME NEW T, T \subseteq Nat, T # {}
    PROVE  \E m \in T : \A k \in T : m <= k
<1> DEFINE Below == {ss \in Nat \X Nat : ss[1] < ss[2]}
<1>1. IsWellFoundedOn(Below, Nat)
  BY NatLessThanWellFounded DEF OpToRel
<1>2. \E m \in T : \A k \in T : <<k, m>> \notin Below
  <2> HIDE DEF Below
  <2> QED BY <1>1, WFMin
<1>3. PICK m \in T : \A k \in T : <<k, m>> \notin Below
  BY <1>2
<1>4. ASSUME NEW k \in T PROVE m <= k
  <2>1. <<k, m>> \notin Below /\ k \in Nat /\ m \in Nat
    BY <1>3
  <2>2. ~(k < m)
    BY <2>1
  <2> QED BY <2>1, <2>2
<1> QED BY <1>3, <1>4

\* Induction from 0 to n, over a set instead of a predicate.
LEMMA UpTo ==
    ASSUME NEW n \in Nat, NEW T, 0 \in T,
           \A k \in 0 .. n - 1 : k \in T => k + 1 \in T
    PROVE  \A k \in 0 .. n : k \in T
<1> DEFINE Missing == {k \in 0 .. n : k \notin T}
<1> SUFFICES ASSUME Missing # {} PROVE FALSE
  OBVIOUS
<1>1. Missing \subseteq Nat
  OBVIOUS
<1>2. PICK m \in Missing : \A k \in Missing : m <= k
  <2> HIDE DEF Missing
  <2> QED BY <1>1, LeastNatural
<1>3. m \in Nat /\ m # 0 /\ m <= n /\ m \notin T
  BY <1>2
<1>4. m - 1 \in 0 .. n - 1 /\ m - 1 \notin Missing
  BY <1>2, <1>3
<1>5. m - 1 \in T
  BY <1>4
<1> QED BY <1>3, <1>4, <1>5

-----------------------------------------------------------------------------
LEMMA AppendElements ==
    ASSUME NEW E, NEW s \in Seq(E), NEW x \in E
    PROVE  Append(s, x) \in Seq(E) /\ Elements(Append(s, x)) = Elements(s) \cup {x}
<1>1. /\ Append(s, x) \in Seq(E) /\ Len(Append(s, x)) = Len(s) + 1 /\ Len(s) \in Nat
      /\ \A i \in 1 .. Len(s) : Append(s, x)[i] = s[i]
      /\ Append(s, x)[Len(s) + 1] = x
  OBVIOUS
<1>2. 1 .. Len(s) + 1 = (1 .. Len(s)) \cup {Len(s) + 1}
  BY <1>1
<1> QED BY <1>1, <1>2 DEF Elements

\* What the recursive definition of Those says of a sequence.
Filters(upto, s, S) ==
    /\ upto[0] = <<>>
    /\ \A k \in 0 .. Len(s) - 1 :
          upto[k + 1] = IF s[k + 1] \in S THEN Append(upto[k], s[k + 1]) ELSE upto[k]
    /\ Those(s, S) = upto[Len(s)]

LEMMA ThoseDef ==
    ASSUME NEW E, NEW s \in Seq(E), NEW S
    PROVE  \E upto \in [0 .. Len(s) -> Seq(E)] : Filters(upto, s, S)
<1> DEFINE M == Len(s)
           Kept(f, n) == /\ f[0] = <<>>
                         /\ \A k \in 0 .. n - 1 :
                               f[k + 1] = IF s[k + 1] \in S THEN Append(f[k], s[k + 1]) ELSE f[k]
           T == {n \in 0 .. M : \E f \in [0 .. n -> Seq(E)] : Kept(f, n)}
<1>0. M \in Nat /\ \A k \in 0 .. M - 1 : s[k + 1] \in E
  OBVIOUS
<1>1. 0 \in T
  <2>1. [k \in 0 .. 0 |-> <<>>] \in [0 .. 0 -> Seq(E)] /\ Kept([k \in 0 .. 0 |-> <<>>], 0)
    OBVIOUS
  <2>2. \E f \in [0 .. 0 -> Seq(E)] : Kept(f, 0)
    <3> HIDE DEF Kept
    <3> QED BY <2>1
  <2> QED BY <1>0, <2>2
<1>2. ASSUME NEW n \in 0 .. M - 1, n \in T PROVE n + 1 \in T
  <2>1. PICK f \in [0 .. n -> Seq(E)] : Kept(f, n)
    BY <1>2
  <2> DEFINE new == IF s[n + 1] \in S THEN Append(f[n], s[n + 1]) ELSE f[n]
             g == [k \in 0 .. n + 1 |-> IF k = n + 1 THEN new ELSE f[k]]
  <2>2. new \in Seq(E)
    <3>1. f[n] \in Seq(E) /\ s[n + 1] \in E
      BY <1>0
    <3> QED BY <3>1
  <2>3. /\ g \in [0 .. n + 1 -> Seq(E)] /\ g[n + 1] = new /\ \A k \in 0 .. n : g[k] = f[k]
    <3> HIDE DEF new
    <3> QED BY <1>0, <2>2
  <2> HIDE DEF g
  <2>4. Kept(g, n + 1)
    <3>1. g[0] = <<>>
      BY <1>0, <2>1, <2>3
    <3>2. ASSUME NEW k \in 0 .. n
          PROVE  g[k + 1] = IF s[k + 1] \in S THEN Append(g[k], s[k + 1]) ELSE g[k]
      <4>1. CASE k = n
        BY <2>3, <4>1
      <4>2. CASE k # n
        <5>1. k \in 0 .. n - 1 /\ k + 1 \in 0 .. n /\ k \in 0 .. n
          BY <1>0, <4>2
        <5> QED BY <2>1, <2>3, <5>1
      <4> QED BY <4>1, <4>2
    <3>3. (n + 1) - 1 = n
      BY <1>0
    <3> QED BY <3>1, <3>2, <3>3
  <2>5. n + 1 \in 0 .. M
    BY <1>0
  <2>6. \E h \in [0 .. n + 1 -> Seq(E)] : Kept(h, n + 1)
    <3> HIDE DEF Kept
    <3> QED BY <2>3, <2>4
  <2> QED BY <2>5, <2>6
<1>3. M \in T
  <2> HIDE DEF T
  <2>1. \A k \in 0 .. M : k \in T
    BY <1>0, <1>1, <1>2, UpTo
  <2> QED BY <1>0, <2>1
<1>4. PICK f \in [0 .. M -> Seq(E)] : Kept(f, M)
  BY <1>3
<1> DEFINE Body(b) == [i \in 0 .. Len(s) |->
                IF i = 0 THEN <<>>
                ELSE IF s[i] \in S THEN Append(b[i - 1], s[i]) ELSE b[i - 1]]
           upto == CHOOSE b : b = Body(b)
<1>5. f = Body(f)
  <2>1. ASSUME NEW i \in 0 .. M
        PROVE  f[i] = IF i = 0 THEN <<>> ELSE IF s[i] \in S THEN Append(f[i - 1], s[i]) ELSE f[i - 1]
    <3>1. CASE i = 0
      BY <1>4, <3>1
    <3>2. CASE i # 0
      <4>1. i - 1 \in 0 .. M - 1 /\ (i - 1) + 1 = i
        BY <1>0, <3>2
      <4> QED BY <1>4, <3>2, <4>1
    <3> QED BY <3>1, <3>2
  <2> QED BY <2>1
<1>6. upto = Body(upto)
  BY <1>5
<1>7. /\ upto[0] = <<>>
      /\ \A k \in 0 .. M - 1 :
            upto[k + 1] = IF s[k + 1] \in S THEN Append(upto[k], s[k + 1]) ELSE upto[k]
  <2> HIDE DEF upto
  <2>1. ASSUME NEW i \in 0 .. M
        PROVE  upto[i] = IF i = 0 THEN <<>> ELSE IF s[i] \in S THEN Append(upto[i - 1], s[i]) ELSE upto[i - 1]
    BY <1>6
  <2> QED BY <1>0, <2>1
<1>8. \A k \in 0 .. M : upto[k] = f[k]
  <2> DEFINE S2 == {k \in 0 .. M : upto[k] = f[k]}
  <2> HIDE DEF upto
  <2>1. 0 \in S2
    BY <1>0, <1>4, <1>7
  <2>2. \A k \in 0 .. M - 1 : k \in S2 => k + 1 \in S2
    BY <1>0, <1>4, <1>7
  <2>3. \A k \in 0 .. M : k \in S2
    <3> HIDE DEF S2
    <3> QED BY <1>0, <2>1, <2>2, UpTo
  <2> QED BY <2>3
<1>9. Those(s, S) = upto[M]
  BY DEF Those
<1> HIDE DEF upto
<1>10. Those(s, S) = f[M]
  BY <1>0, <1>8, <1>9
<1> QED BY <1>4, <1>10 DEF Filters

\* Those keeps the elements that are in the set, and no others.
LEMMA ThoseElements ==
    ASSUME NEW E, NEW s \in Seq(E), NEW S
    PROVE  Those(s, S) \in Seq(E) /\ Elements(Those(s, S)) = Elements(s) \cap S
<1>1. PICK upto \in [0 .. Len(s) -> Seq(E)] : Filters(upto, s, S)
  BY ThoseDef
<1> DEFINE First(k) == {s[i] : i \in 1 .. k}
           T == {k \in 0 .. Len(s) : Elements(upto[k]) = First(k) \cap S}
<1>2. 0 \in T
  BY <1>1 DEF Elements, Filters
<1>3. ASSUME NEW k \in 0 .. Len(s) - 1, k \in T PROVE k + 1 \in T
  <2>1. upto[k] \in Seq(E) /\ s[k + 1] \in E /\ k + 1 \in 0 .. Len(s)
    OBVIOUS
  <2>2. First(k + 1) = First(k) \cup {s[k + 1]}
    <3>1. 1 .. k + 1 = (1 .. k) \cup {k + 1}
      OBVIOUS
    <3> QED BY <3>1
  <2>3. Elements(upto[k]) = First(k) \cap S
    BY <1>3
  <2>4. CASE s[k + 1] \in S
    <3>1. upto[k + 1] = Append(upto[k], s[k + 1])
      BY <1>1, <2>4 DEF Filters
    <3>2. Elements(upto[k + 1]) = Elements(upto[k]) \cup {s[k + 1]}
      BY <2>1, <3>1, AppendElements
    <3> HIDE DEF First
    <3> QED BY <2>1, <2>2, <2>3, <2>4, <3>2
  <2>5. CASE s[k + 1] \notin S
    <3>1. upto[k + 1] = upto[k]
      BY <1>1, <2>5 DEF Filters
    <3> HIDE DEF First
    <3> QED BY <2>1, <2>2, <2>3, <2>5, <3>1
  <2> QED BY <2>4, <2>5
<1>4. \A k \in 0 .. Len(s) : k \in T
  <2> HIDE DEF T
  <2>1. Len(s) \in Nat
    OBVIOUS
  <2> QED BY <1>2, <1>3, <2>1, UpTo
<1>5. Elements(upto[Len(s)]) = First(Len(s)) \cap S
  <2>1. Len(s) \in 0 .. Len(s)
    OBVIOUS
  <2> QED BY <1>4, <2>1
<1>6. First(Len(s)) = Elements(s)
  BY DEF Elements
<1> HIDE DEF First
<1>7. upto[Len(s)] \in Seq(E)
  OBVIOUS
<1> QED BY <1>1, <1>5, <1>6, <1>7 DEF Filters

\* What is filtered of a prefix is decided by the prefix.
LEMMA FiltersAgree ==
    ASSUME NEW E, NEW s \in Seq(E), NEW S, NEW t \in Seq(E), NEW T, Len(s) <= Len(t),
           \A i \in 1 .. Len(s) : s[i] = t[i] /\ (s[i] \in S <=> t[i] \in T),
           NEW upto \in [0 .. Len(t) -> Seq(E)], Filters(upto, t, T)
    PROVE  Those(s, S) = upto[Len(s)]
<1>1. PICK f \in [0 .. Len(s) -> Seq(E)] : Filters(f, s, S)
  BY ThoseDef
<1>2. Len(s) \in Nat /\ Len(t) \in Nat
  OBVIOUS
<1> DEFINE Same == {k \in 0 .. Len(s) : f[k] = upto[k]}
<1>3. 0 \in Same
  BY <1>1, <1>2 DEF Filters
<1>4. ASSUME NEW k \in 0 .. Len(s) - 1, k \in Same PROVE k + 1 \in Same
  <2>1. k + 1 \in 1 .. Len(s) /\ k \in 0 .. Len(t) - 1 /\ k + 1 \in 0 .. Len(s)
    BY <1>2
  <2>2. s[k + 1] = t[k + 1] /\ (s[k + 1] \in S <=> t[k + 1] \in T)
    BY <2>1
  <2>3. f[k + 1] = IF s[k + 1] \in S THEN Append(f[k], s[k + 1]) ELSE f[k]
    BY <1>1 DEF Filters
  <2>4. upto[k + 1] = IF t[k + 1] \in T THEN Append(upto[k], t[k + 1]) ELSE upto[k]
    BY <2>1 DEF Filters
  <2> QED BY <1>4, <2>1, <2>2, <2>3, <2>4
<1>5. \A k \in 0 .. Len(s) : k \in Same
  <2> HIDE DEF Same
  <2> QED BY <1>2, <1>3, <1>4, UpTo
<1> QED BY <1>1, <1>2, <1>5 DEF Filters

\* Filtering only ever adds at the end.
LEMMA FiltersGrow ==
    ASSUME NEW E, NEW t \in Seq(E), NEW T, NEW upto \in [0 .. Len(t) -> Seq(E)], Filters(upto, t, T),
           NEW n \in 0 .. Len(t)
    PROVE  \E h \in 0 .. Len(Those(t, T)) : upto[n] = SubSeq(Those(t, T), 1, h)
<1> DEFINE Prefix(q, r) == \E h \in 0 .. Len(r) : q = SubSeq(r, 1, h)
           Grown == {k \in 0 .. Len(t) : \A j \in 0 .. k : Prefix(upto[j], upto[k])}
<1>1. Len(t) \in Nat
  OBVIOUS
<1>2. ASSUME NEW q \in Seq(E) PROVE Prefix(q, q)
  <2>1. Len(q) \in 0 .. Len(q) /\ q = SubSeq(q, 1, Len(q))
    OBVIOUS
  <2> QED BY <2>1
<1>3. ASSUME NEW q \in Seq(E), NEW r \in Seq(E), NEW x \in E, Prefix(q, r)
      PROVE  Prefix(q, Append(r, x))
  <2>1. PICK h \in 0 .. Len(r) : q = SubSeq(r, 1, h)
    BY <1>3
  <2>2. h \in 0 .. Len(Append(r, x)) /\ SubSeq(Append(r, x), 1, h) = SubSeq(r, 1, h)
    OBVIOUS
  <2> QED BY <2>1, <2>2
<1>4. 0 \in Grown
  <2>1. upto[0] \in Seq(E)
    BY <1>1
  <2> HIDE DEF Prefix
  <2> QED BY <1>1, <1>2, <2>1
<1>5. ASSUME NEW k \in 0 .. Len(t) - 1, k \in Grown PROVE k + 1 \in Grown
  <2>0. k + 1 \in 1 .. Len(t) /\ k \in 0 .. Len(t) /\ k + 1 \in 0 .. Len(t)
    BY <1>1
  <2>1. k + 1 \in 1 .. Len(t) /\ k \in 0 .. Len(t) /\ t[k + 1] \in E
        /\ upto[k] \in Seq(E) /\ upto[k + 1] \in Seq(E)
    BY <2>0
  <2>2. upto[k + 1] = Append(upto[k], t[k + 1]) \/ upto[k + 1] = upto[k]
    BY DEF Filters
  <2>3. ASSUME NEW j \in 0 .. k + 1 PROVE Prefix(upto[j], upto[k + 1])
    <3>1. CASE j = k + 1
      <4> HIDE DEF Prefix
      <4> QED BY <1>2, <2>1, <3>1
    <3>2. CASE j # k + 1
      <4>1. j \in 0 .. k /\ j \in 0 .. Len(t) /\ upto[j] \in Seq(E)
        BY <2>1, <3>2
      <4> HIDE DEF Prefix
      <4>2. Prefix(upto[j], upto[k])
        BY <1>5, <4>1
      <4> QED BY <1>3, <2>1, <2>2, <4>1, <4>2
    <3> QED BY <3>1, <3>2
  <2> HIDE DEF Prefix
  <2> QED BY <2>1, <2>3
<1>6. \A k \in 0 .. Len(t) : k \in Grown
  <2> HIDE DEF Grown
  <2> QED BY <1>1, <1>4, <1>5, UpTo
<1>7. Prefix(upto[n], upto[Len(t)])
  <2> HIDE DEF Prefix
  <2> QED BY <1>1, <1>6
<1> QED BY <1>7 DEF Filters

\* What is kept of a sequence grows with it, by what is kept of its new end.
LEMMA ThoseAppend ==
    ASSUME NEW E, NEW s \in Seq(E), NEW x \in E, NEW S, NEW T,
           \A i \in 1 .. Len(s) : s[i] \in S <=> s[i] \in T
    PROVE  Those(Append(s, x), T) = IF x \in T THEN Append(Those(s, S), x) ELSE Those(s, S)
<1> DEFINE t == Append(s, x)
<1>1. /\ t \in Seq(E) /\ Len(t) = Len(s) + 1 /\ Len(s) \in Nat /\ t[Len(s) + 1] = x
      /\ \A i \in 1 .. Len(s) : t[i] = s[i]
  OBVIOUS
<1> HIDE DEF t
<1>2. PICK upto \in [0 .. Len(t) -> Seq(E)] : Filters(upto, t, T)
  BY <1>1, ThoseDef
<1>3. Those(s, S) = upto[Len(s)]
  BY <1>1, <1>2, FiltersAgree
<1>4. Len(s) \in 0 .. Len(t) - 1
  BY <1>1
<1>5. upto[Len(s) + 1] = IF t[Len(s) + 1] \in T THEN Append(upto[Len(s)], t[Len(s) + 1]) ELSE upto[Len(s)]
  BY <1>2, <1>4 DEF Filters
<1>6. Those(t, T) = upto[Len(s) + 1]
  BY <1>1, <1>2 DEF Filters
<1> QED BY <1>1, <1>3, <1>5, <1>6 DEF t

\* Of nothing nothing is kept.
LEMMA NothingFiltered == \A S : Those(<<>>, S) = <<>>
<1>1. <<>> \in Seq({}) /\ Len(<<>>) = 0
  OBVIOUS
<1> SUFFICES ASSUME NEW S PROVE Those(<<>>, S) = <<>>
  OBVIOUS
<1>2. PICK upto \in [0 .. Len(<<>>) -> Seq({})] : Filters(upto, <<>>, S)
  BY <1>1, ThoseDef
<1> QED BY <1>1, <1>2 DEF Filters

LEMMA OfKindElements ==
    ASSUME NEW E, NEW s \in Seq(E), NEW k
    PROVE  OfKind(s, k) \in Seq(E) /\ Elements(OfKind(s, k)) = {x \in Elements(s) : x.kind = k}
<1> DEFINE S == {x \in Elements(s) : x.kind = k}
<1>1. OfKind(s, k) = Those(s, S)
  BY DEF OfKind
<1>2. Elements(s) \cap S = S
  OBVIOUS
<1> HIDE DEF S
<1>3. Those(s, S) \in Seq(E) /\ Elements(Those(s, S)) = Elements(s) \cap S
  BY ThoseElements
<1>4. OfKind(s, k) \in Seq(E) /\ Elements(OfKind(s, k)) = S
  BY <1>1, <1>2, <1>3
<1> QED BY <1>4 DEF S

\* A log that grows by a record grows, in the kind of the record, by it.
LEMMA OfKindAppend ==
    ASSUME NEW E, NEW s \in Seq(E), NEW x \in E, NEW k
    PROVE  OfKind(Append(s, x), k) = IF x.kind = k THEN Append(OfKind(s, k), x) ELSE OfKind(s, k)
<1> DEFINE t == Append(s, x)
           S == {y \in Elements(s) : y.kind = k}
           T == {y \in Elements(t) : y.kind = k}
<1>1. /\ t \in Seq(E) /\ Len(t) = Len(s) + 1 /\ Len(s) \in Nat /\ t[Len(s) + 1] = x
      /\ \A i \in 1 .. Len(s) : t[i] = s[i]
  OBVIOUS
<1>2. x \in Elements(t) /\ \A i \in 1 .. Len(s) : s[i] \in Elements(s) /\ s[i] \in Elements(t)
  BY AppendElements, <1>1 DEF Elements
<1>3. PICK upto \in [0 .. Len(t) -> Seq(E)] : Filters(upto, t, T)
  <2> HIDE DEF t, T
  <2> QED BY <1>1, ThoseDef
<1>4. \A i \in 1 .. Len(s) : s[i] = t[i] /\ (s[i] \in S <=> t[i] \in T)
  BY <1>1, <1>2
<1>5. x \in T <=> x.kind = k
  BY <1>2
<1>6. OfKind(s, k) = Those(s, S) /\ OfKind(t, k) = Those(t, T)
  BY DEF OfKind
<1> HIDE DEF t, S, T
<1>7. Those(s, S) = upto[Len(s)]
  BY <1>1, <1>3, <1>4, FiltersAgree
<1>8. Len(s) \in 0 .. Len(t) - 1
  BY <1>1
<1>9. upto[Len(s) + 1] = IF t[Len(s) + 1] \in T THEN Append(upto[Len(s)], t[Len(s) + 1]) ELSE upto[Len(s)]
  BY <1>3, <1>8 DEF Filters
<1>10. Those(t, T) = upto[Len(s) + 1]
  BY <1>1, <1>3 DEF Filters
<1> QED BY <1>1, <1>5, <1>6, <1>7, <1>9, <1>10 DEF t

\* What is left of a log that was cut is, kind by kind, what comes first.
LEMMA OfKindPrefix ==
    ASSUME NEW E, NEW s \in Seq(E), NEW n \in 0 .. Len(s), NEW k
    PROVE  /\ SubSeq(s, 1, n) \in Seq(E) /\ Len(SubSeq(s, 1, n)) = n
           /\ \A i \in 1 .. n : SubSeq(s, 1, n)[i] = s[i]
           /\ \E h \in 0 .. Len(OfKind(s, k)) : OfKind(SubSeq(s, 1, n), k) = SubSeq(OfKind(s, k), 1, h)
<1> DEFINE p == SubSeq(s, 1, n)
           S == {y \in Elements(p) : y.kind = k}
           T == {y \in Elements(s) : y.kind = k}
<1>1. /\ p \in Seq(E) /\ Len(p) = n /\ n \in Nat /\ Len(s) \in Nat /\ n <= Len(s)
      /\ \A i \in 1 .. n : p[i] = s[i]
  OBVIOUS
<1>2. PICK upto \in [0 .. Len(s) -> Seq(E)] : Filters(upto, s, T)
  <2> HIDE DEF T
  <2> QED BY ThoseDef
<1>3. \A i \in 1 .. Len(p) : p[i] \in Elements(p) /\ s[i] \in Elements(s)
  BY <1>1 DEF Elements
<1>4. \A i \in 1 .. Len(p) : p[i] = s[i] /\ (p[i] \in S <=> s[i] \in T)
  BY <1>1, <1>3
<1>5. OfKind(p, k) = Those(p, S) /\ OfKind(s, k) = Those(s, T)
  BY DEF OfKind
<1> HIDE DEF p, S, T
<1>6. Those(p, S) = upto[n]
  BY <1>1, <1>2, <1>4, FiltersAgree
<1>7. \E h \in 0 .. Len(Those(s, T)) : upto[n] = SubSeq(Those(s, T), 1, h)
  BY <1>2, FiltersGrow
<1> QED BY <1>1, <1>5, <1>6, <1>7 DEF p

ConcatIs(E, s, t) ==
    /\ s \o t \in Seq(E) /\ Len(s \o t) = Len(s) + Len(t) /\ Len(s) \in Nat /\ Len(t) \in Nat
    /\ \A i \in 1 .. Len(s) : (s \o t)[i] = s[i]
    /\ \A i \in 1 .. Len(t) : (s \o t)[Len(s) + i] = t[i]

LEMMA ConcatFacts ==
    ASSUME NEW E, NEW s \in Seq(E), NEW t \in Seq(E)
    PROVE  ConcatIs(E, s, t)
BY DEF ConcatIs

LEMMA SameSequence ==
    ASSUME NEW E, NEW s \in Seq(E), NEW t \in Seq(E), Len(s) = Len(t),
           \A i \in 1 .. Len(s) : s[i] = t[i]
    PROVE  s = t
OBVIOUS

LEMMA SingleSequence ==
    ASSUME NEW E, NEW s \in Seq(E), Len(s) = 1
    PROVE  s[1] \in E /\ s = <<s[1]>>
OBVIOUS

\* The elements of two sequences, one after the other.
LEMMA ConcatElements ==
    ASSUME NEW E, NEW s \in Seq(E), NEW t \in Seq(E)
    PROVE  s \o t \in Seq(E) /\ Elements(s \o t) = Elements(s) \cup Elements(t)
<1>1. /\ s \o t \in Seq(E) /\ Len(s \o t) = Len(s) + Len(t) /\ Len(s) \in Nat /\ Len(t) \in Nat
      /\ \A i \in 1 .. Len(s) : (s \o t)[i] = s[i]
      /\ \A i \in 1 .. Len(t) : (s \o t)[Len(s) + i] = t[i]
  OBVIOUS
<1>2. \A i \in 1 .. Len(s \o t) : i \in 1 .. Len(s) \/ \E j \in 1 .. Len(t) : i = Len(s) + j
  <2>1. ASSUME NEW i \in 1 .. Len(s \o t), i \notin 1 .. Len(s) PROVE \E j \in 1 .. Len(t) : i = Len(s) + j
    <3>1. i - Len(s) \in 1 .. Len(t) /\ i = Len(s) + (i - Len(s))
      BY <1>1, <2>1
    <3> QED BY <3>1
  <2> QED BY <2>1
<1>3. \A j \in 1 .. Len(t) : Len(s) + j \in 1 .. Len(s \o t)
  BY <1>1
<1>4. \A j \in 1 .. Len(s) : j \in 1 .. Len(s \o t)
  BY <1>1
<1>5. Elements(s \o t) \subseteq Elements(s) \cup Elements(t)
  BY <1>1, <1>2 DEF Elements
<1>6. Elements(s) \cup Elements(t) \subseteq Elements(s \o t)
  BY <1>1, <1>3, <1>4 DEF Elements
<1> QED BY <1>1, <1>5, <1>6

\* What is kept of a sequence of one element, and of none.
LEMMA ThoseOne ==
    ASSUME NEW E, NEW x \in E, NEW S
    PROVE  Those(<<x>>, S) = (IF x \in S THEN <<x>> ELSE <<>>) /\ Those(<<>>, S) = <<>>
<1>1. <<x>> \in Seq(E) /\ Len(<<x>>) = 1 /\ <<x>>[1] = x /\ <<>> \in Seq(E) /\ Len(<<>>) = 0
  OBVIOUS
<1>2. PICK u \in [0 .. Len(<<x>>) -> Seq(E)] : Filters(u, <<x>>, S)
  BY <1>1, ThoseDef
<1>3. /\ u[0] = <<>> /\ Those(<<x>>, S) = u[1]
      /\ u[0 + 1] = IF <<x>>[0 + 1] \in S THEN Append(u[0], <<x>>[0 + 1]) ELSE u[0]
  <2>1. 0 \in 0 .. Len(<<x>>) - 1
    BY <1>1
  <2> QED BY <1>1, <1>2, <2>1 DEF Filters
<1>4. Append(<<>>, x) = <<x>> /\ 0 + 1 = 1
  OBVIOUS
<1>5. PICK v \in [0 .. Len(<<>>) -> Seq(E)] : Filters(v, <<>>, S)
  BY <1>1, ThoseDef
<1> QED BY <1>1, <1>3, <1>4, <1>5 DEF Filters

AppendIs(s, x, n) ==
    /\ Len(Append(s, x)) = n + 1 /\ Append(s, x)[n + 1] = x
    /\ \A i \in 1 .. n : Append(s, x)[i] = s[i]

LEMMA AppendFacts ==
    ASSUME NEW E, NEW s \in Seq(E), NEW x \in E, NEW n \in Nat, Len(s) = n
    PROVE  AppendIs(s, x, n)
BY DEF AppendIs

\* What is kept of s stands in it after the place lo, up to the place hi.
RunOf(E, kept, s, lo, hi) ==
    /\ kept \in Seq(E) /\ Len(kept) = hi - lo
    /\ \A i \in 1 .. hi - lo : kept[i] = s[lo + i]

\* If those in S stand together, they are what is kept.
LEMMA ThoseTogether ==
    ASSUME NEW E, NEW s \in Seq(E), NEW S, NEW lo \in 0 .. Len(s), NEW hi \in lo .. Len(s),
           \A i \in 1 .. Len(s) : s[i] \in S <=> lo < i /\ i <= hi
    PROVE  RunOf(E, Those(s, S), s, lo, hi)
<1>1. PICK u \in [0 .. Len(s) -> Seq(E)] : Filters(u, s, S)
  BY ThoseDef
<1>2. Len(s) \in Nat /\ \A i \in 1 .. Len(s) : s[i] \in E
  OBVIOUS
<1> DEFINE Kept(k) == IF k <= lo THEN 0 ELSE IF k <= hi THEN k - lo ELSE hi - lo
           Good(k) == Len(u[k]) = Kept(k) /\ \A i \in 1 .. Kept(k) : u[k][i] = s[lo + i]
           T == {k \in 0 .. Len(s) : Good(k)}
<1>3. 0 \in T
  <2>1. u[0] = <<>> /\ Kept(0) = 0
    BY <1>1 DEF Filters
  <2> QED BY <1>2, <2>1
<1>4. ASSUME NEW k \in 0 .. Len(s) - 1, k \in T PROVE k + 1 \in T
  <2>1. k + 1 \in 1 .. Len(s) /\ k + 1 \in 0 .. Len(s) /\ k \in 0 .. Len(s)
    BY <1>2
  <2>2. u[k + 1] = IF s[k + 1] \in S THEN Append(u[k], s[k + 1]) ELSE u[k]
    BY <1>1 DEF Filters
  <2>3. u[k] \in Seq(E) /\ s[k + 1] \in E /\ Good(k)
    BY <1>2, <1>4, <2>1
  <2>4. CASE lo < k + 1 /\ k + 1 <= hi
    <3>1. u[k + 1] = Append(u[k], s[k + 1])
      BY <2>1, <2>2, <2>4
    <3>2. Kept(k) = k - lo /\ Kept(k + 1) = k - lo + 1 /\ lo + (k - lo + 1) = k + 1 /\ k - lo \in Nat
      BY <1>2, <2>4
    <3>3. /\ Len(u[k + 1]) = k - lo + 1 /\ u[k + 1][k - lo + 1] = s[k + 1]
          /\ \A i \in 1 .. k - lo : u[k + 1][i] = u[k][i]
      <4>1. PICK v \in Seq(E) : v = u[k] /\ Len(v) = k - lo
        BY <2>3, <3>2
      <4>2. PICK x \in E : x = s[k + 1]
        BY <2>3
      <4> HIDE DEF T, Good, Kept
      <4>3. PICK n \in Nat : n = k - lo
        BY <3>2
      <4>4. AppendIs(v, x, n)
        BY <4>1, <4>3, AppendFacts
      <4>5. /\ Len(u[k + 1]) = n + 1 /\ u[k + 1][n + 1] = s[k + 1]
            /\ \A i \in 1 .. n : u[k + 1][i] = u[k][i]
        BY <3>1, <4>1, <4>2, <4>4 DEF AppendIs
      <4> QED BY <4>3, <4>5
    <3>4. \A i \in 1 .. k - lo : u[k + 1][i] = s[lo + i]
      BY <2>3, <3>2, <3>3
    <3>5. \A i : i \in 1 .. k - lo + 1 <=> i \in 1 .. k - lo \/ i = k - lo + 1
      BY <3>2
    <3>6. \A i \in 1 .. k - lo + 1 : u[k + 1][i] = s[lo + i]
      BY <3>2, <3>3, <3>4, <3>5
    <3>7. Good(k + 1)
      BY <3>2, <3>3, <3>6
    <3> QED BY <2>1, <3>7
  <2>5. CASE ~(lo < k + 1 /\ k + 1 <= hi)
    <3>1. u[k + 1] = u[k]
      BY <2>1, <2>2, <2>5
    <3>2. Kept(k + 1) = Kept(k)
      BY <1>2, <2>5
    <3>3. Good(k + 1)
      <4> HIDE DEF Kept
      <4> QED BY <2>3, <3>1, <3>2
    <3> QED BY <2>1, <3>3
  <2> QED BY <2>4, <2>5
<1>5. \A k \in 0 .. Len(s) : k \in T
  <2> HIDE DEF T
  <2> QED BY <1>2, <1>3, <1>4, UpTo
<1>6. Len(s) \in T /\ Kept(Len(s)) = hi - lo
  <2>1. Len(s) \in 0 .. Len(s)
    BY <1>2
  <2>2. Kept(Len(s)) = hi - lo
    BY <1>2
  <2>3. Len(s) \in T
    <3> HIDE DEF T
    <3> QED BY <1>5, <2>1
  <2> QED BY <2>2, <2>3
<1>7. Those(s, S) = u[Len(s)] /\ u[Len(s)] \in Seq(E)
  BY <1>1, <1>2 DEF Filters
<1> QED BY <1>6, <1>7 DEF RunOf

\* A name that keeps the provers from taking \o apart.
Cat(s, t) == s \o t

LEMMA CatAssociative ==
    ASSUME NEW E, NEW s \in Seq(E), NEW t \in Seq(E), NEW u \in Seq(E)
    PROVE  Cat(Cat(s, t), u) = Cat(s, Cat(t, u))
BY DEF Cat

-----------------------------------------------------------------------------
\* What the recursive definition of Joined says of a sequence of sequences.
Joins(upto, ss) ==
    /\ upto[0] = <<>>
    /\ \A k \in 0 .. Len(ss) - 1 : upto[k + 1] = upto[k] \o ss[k + 1]
    /\ Joined(ss) = upto[Len(ss)]

LEMMA JoinedDef ==
    ASSUME NEW E, NEW ss \in Seq(Seq(E))
    PROVE  \E upto \in [0 .. Len(ss) -> Seq(E)] : Joins(upto, ss)
<1> DEFINE M == Len(ss)
           Kept(f, n) == /\ f[0] = <<>>
                         /\ \A k \in 0 .. n - 1 : f[k + 1] = f[k] \o ss[k + 1]
           T == {n \in 0 .. M : \E f \in [0 .. n -> Seq(E)] : Kept(f, n)}
<1>0. M \in Nat /\ 0 \in 0 .. M /\ M \in 0 .. M /\ \A k \in 0 .. M - 1 : ss[k + 1] \in Seq(E)
  OBVIOUS
<1>1. 0 \in T
  <2>1. [k \in 0 .. 0 |-> <<>>] \in [0 .. 0 -> Seq(E)] /\ Kept([k \in 0 .. 0 |-> <<>>], 0)
    OBVIOUS
  <2>2. \E f \in [0 .. 0 -> Seq(E)] : Kept(f, 0)
    <3> HIDE DEF Kept
    <3> QED BY <2>1
  <2> HIDE DEF Kept
  <2> QED BY <1>0, <2>2
<1>2. ASSUME NEW n \in 0 .. M - 1, n \in T PROVE n + 1 \in T
  <2>1. PICK f \in [0 .. n -> Seq(E)] : Kept(f, n)
    BY <1>2
  <2> DEFINE new == f[n] \o ss[n + 1]
             g == [k \in 0 .. n + 1 |-> IF k = n + 1 THEN new ELSE f[k]]
  <2>2. new \in Seq(E)
    <3>1. f[n] \in Seq(E) /\ ss[n + 1] \in Seq(E)
      BY <1>0
    <3> QED BY <3>1
  <2>3. /\ g \in [0 .. n + 1 -> Seq(E)] /\ g[n + 1] = new /\ \A k \in 0 .. n : g[k] = f[k]
    <3> HIDE DEF new
    <3> QED BY <1>0, <2>2
  <2> HIDE DEF g
  <2>4. Kept(g, n + 1)
    <3>1. g[0] = <<>>
      BY <1>0, <2>1, <2>3
    <3>2. ASSUME NEW k \in 0 .. n PROVE g[k + 1] = g[k] \o ss[k + 1]
      <4>1. CASE k = n
        BY <2>3, <4>1
      <4>2. CASE k # n
        <5>1. k \in 0 .. n - 1 /\ k + 1 \in 0 .. n /\ k \in 0 .. n
          BY <1>0, <4>2
        <5> QED BY <2>1, <2>3, <5>1
      <4> QED BY <4>1, <4>2
    <3>3. (n + 1) - 1 = n
      BY <1>0
    <3> QED BY <3>1, <3>2, <3>3
  <2>5. n + 1 \in 0 .. M
    BY <1>0
  <2>6. \E h \in [0 .. n + 1 -> Seq(E)] : Kept(h, n + 1)
    <3> HIDE DEF Kept
    <3> QED BY <2>3, <2>4
  <2> QED BY <2>5, <2>6
<1>3. M \in T
  <2> HIDE DEF T
  <2>1. \A k \in 0 .. M : k \in T
    BY <1>0, <1>1, <1>2, UpTo
  <2> QED BY <1>0, <2>1
<1>4. PICK f \in [0 .. M -> Seq(E)] : Kept(f, M)
  BY <1>3
<1> DEFINE Body(b) == [i \in 0 .. Len(ss) |-> IF i = 0 THEN <<>> ELSE b[i - 1] \o ss[i]]
           upto == CHOOSE b : b = Body(b)
<1>5. f = Body(f)
  <2>1. ASSUME NEW i \in 0 .. M
        PROVE  f[i] = IF i = 0 THEN <<>> ELSE f[i - 1] \o ss[i]
    <3>1. CASE i = 0
      BY <1>4, <3>1
    <3>2. CASE i # 0
      <4>1. i - 1 \in 0 .. M - 1 /\ (i - 1) + 1 = i
        BY <1>0, <3>2
      <4> QED BY <1>4, <3>2, <4>1
    <3> QED BY <3>1, <3>2
  <2> QED BY <2>1
<1>6. upto = Body(upto)
  BY <1>5
<1>7. /\ upto[0] = <<>>
      /\ \A k \in 0 .. M - 1 : upto[k + 1] = upto[k] \o ss[k + 1]
  <2> HIDE DEF upto
  <2>1. ASSUME NEW i \in 0 .. M
        PROVE  upto[i] = IF i = 0 THEN <<>> ELSE upto[i - 1] \o ss[i]
    BY <1>6
  <2>2. upto[0] = <<>>
    BY <1>0, <2>1
  <2>3. ASSUME NEW k \in 0 .. M - 1 PROVE upto[k + 1] = upto[k] \o ss[k + 1]
    <3>1. k + 1 \in 0 .. M /\ k + 1 # 0 /\ (k + 1) - 1 = k
      BY <1>0
    <3>2. upto[k + 1] = IF k + 1 = 0 THEN <<>> ELSE upto[(k + 1) - 1] \o ss[k + 1]
      BY <2>1, <3>1
    <3> QED BY <3>1, <3>2
  <2> QED BY <2>2, <2>3
<1>8. \A k \in 0 .. M : upto[k] = f[k]
  <2> DEFINE S2 == {k \in 0 .. M : upto[k] = f[k]}
  <2> HIDE DEF upto
  <2>1. 0 \in S2
    BY <1>0, <1>4, <1>7
  <2>2. ASSUME NEW k \in 0 .. M - 1, k \in S2 PROVE k + 1 \in S2
    <3>1. upto[k + 1] = upto[k] \o ss[k + 1]
      BY <1>7
    <3>2. f[k + 1] = f[k] \o ss[k + 1]
      BY <1>4
    <3>3. k + 1 \in 0 .. M /\ upto[k] = f[k]
      BY <1>0, <2>2
    <3> QED BY <3>1, <3>2, <3>3
  <2>3. \A k \in 0 .. M : k \in S2
    <3> HIDE DEF S2
    <3> QED BY <1>0, <2>1, <2>2, UpTo
  <2> QED BY <2>3
<1>9. Joined(ss) = upto[M]
  BY DEF Joined
<1> HIDE DEF upto
<1>10. Joined(ss) = f[M]
  BY <1>0, <1>8, <1>9
<1> QED BY <1>4, <1>10 DEF Joins

\* Joining is a sequence of the elements of all.
LEMMA JoinedElements ==
    ASSUME NEW E, NEW ss \in Seq(Seq(E))
    PROVE  /\ Joined(ss) \in Seq(E)
           /\ \A x : x \in Elements(Joined(ss)) <=> \E i \in 1 .. Len(ss) : x \in Elements(ss[i])
<1>1. PICK upto \in [0 .. Len(ss) -> Seq(E)] : Joins(upto, ss)
  BY JoinedDef
<1>2. Len(ss) \in Nat /\ \A i \in 1 .. Len(ss) : ss[i] \in Seq(E)
  OBVIOUS
<1>3. Joined(ss) \in Seq(E)
  BY <1>1, <1>2 DEF Joins
<1> DEFINE Has(n) == \A x : x \in Elements(upto[n]) <=> \E i \in 1 .. n : x \in Elements(ss[i])
           T == {n \in 0 .. Len(ss) : Has(n)}
<1>4. 0 \in T
  <2>1. Elements(upto[0]) = {}
    BY <1>1 DEF Joins, Elements
  <2> QED BY <1>2, <2>1
<1>5. ASSUME NEW n \in 0 .. Len(ss) - 1, n \in T PROVE n + 1 \in T
  <2>0. n + 1 \in 0 .. Len(ss) /\ n + 1 \in 1 .. Len(ss) /\ n \in 0 .. Len(ss)
    BY <1>2
  <2>1. /\ upto[n + 1] = upto[n] \o ss[n + 1] /\ upto[n] \in Seq(E) /\ ss[n + 1] \in Seq(E)
        /\ n + 1 \in 0 .. Len(ss)
    <3>1. upto[n + 1] = upto[n] \o ss[n + 1]
      BY <1>1 DEF Joins
    <3>2. upto[n] \in Seq(E) /\ ss[n + 1] \in Seq(E)
      BY <1>2, <2>0
    <3> QED BY <2>0, <3>1, <3>2
  <2>2. Elements(upto[n + 1]) = Elements(upto[n]) \cup Elements(ss[n + 1])
    BY <2>1, ConcatElements
  <2>3. \A i : i \in 1 .. n + 1 <=> i \in 1 .. n \/ i = n + 1
    BY <1>2
  <2>4. Has(n + 1)
    BY <1>5, <2>2, <2>3
  <2> QED BY <2>1, <2>4
<1>6. \A n \in 0 .. Len(ss) : n \in T
  <2> HIDE DEF T
  <2> QED BY <1>2, <1>4, <1>5, UpTo
<1>7. Has(Len(ss))
  BY <1>2, <1>6
<1> QED BY <1>1, <1>3, <1>7 DEF Joins

\* Joining two sequences of sequences is joining one and then the other.
LEMMA JoinedConcat ==
    ASSUME NEW E, NEW ss \in Seq(Seq(E)), NEW tt \in Seq(Seq(E))
    PROVE  Joined(ss \o tt) = Joined(ss) \o Joined(tt)
<1> DEFINE both == ss \o tt
<1>1. /\ both \in Seq(Seq(E)) /\ Len(both) = Len(ss) + Len(tt) /\ Len(ss) \in Nat /\ Len(tt) \in Nat
      /\ \A i \in 1 .. Len(ss) : both[i] = ss[i] /\ ss[i] \in Seq(E)
      /\ \A i \in 1 .. Len(tt) : both[Len(ss) + i] = tt[i] /\ tt[i] \in Seq(E)
  OBVIOUS
<1> HIDE DEF both
<1>2. PICK u \in [0 .. Len(ss) -> Seq(E)] : Joins(u, ss)
  BY JoinedDef
<1>3. PICK v \in [0 .. Len(tt) -> Seq(E)] : Joins(v, tt)
  BY JoinedDef
<1>4. PICK w \in [0 .. Len(both) -> Seq(E)] : Joins(w, both)
  BY <1>1, JoinedDef
<1>5. w[Len(ss)] = u[Len(ss)]
  <2> DEFINE T == {n \in 0 .. Len(ss) : w[n] = u[n]}
  <2>1. 0 \in T
    BY <1>1, <1>2, <1>4 DEF Joins
  <2>2. ASSUME NEW n \in 0 .. Len(ss) - 1, n \in T PROVE n + 1 \in T
    <3>1. n + 1 \in 0 .. Len(ss) /\ n + 1 \in 1 .. Len(ss) /\ n \in 0 .. Len(both) - 1
      BY <1>1
    <3> QED BY <1>1, <1>2, <1>4, <2>2, <3>1 DEF Joins
  <2>3. \A n \in 0 .. Len(ss) : n \in T
    <3> HIDE DEF T
    <3> QED BY <1>1, <2>1, <2>2, UpTo
  <2> QED BY <1>1, <2>3
<1>6. w[Len(ss) + Len(tt)] = u[Len(ss)] \o v[Len(tt)]
  <2> DEFINE T == {n \in 0 .. Len(tt) : w[Len(ss) + n] = u[Len(ss)] \o v[n]}
  <2>0. u[Len(ss)] \in Seq(E) /\ u[Len(ss)] \o <<>> = u[Len(ss)]
    <3>0. Len(ss) \in 0 .. Len(ss)
      BY <1>1
    <3>1. u[Len(ss)] \in Seq(E)
      BY <3>0
    <3> QED BY <3>1
  <2>1. 0 \in T
    <3>1. Len(ss) + 0 = Len(ss) /\ 0 \in 0 .. Len(tt)
      BY <1>1
    <3> QED BY <1>3, <1>5, <2>0, <3>1 DEF Joins
  <2>2. ASSUME NEW n \in 0 .. Len(tt) - 1, n \in T PROVE n + 1 \in T
    <3>1. /\ n + 1 \in 0 .. Len(tt) /\ n + 1 \in 1 .. Len(tt) /\ Len(ss) + n \in 0 .. Len(both) - 1
          /\ Len(ss) + (n + 1) = (Len(ss) + n) + 1
      BY <1>1
    <3>2. /\ w[(Len(ss) + n) + 1] = w[Len(ss) + n] \o both[(Len(ss) + n) + 1]
          /\ v[n + 1] = v[n] \o tt[n + 1]
      BY <1>3, <1>4, <3>1 DEF Joins
    <3>3. both[(Len(ss) + n) + 1] = tt[n + 1] /\ tt[n + 1] \in Seq(E)
      <4>1. PICK k \in 1 .. Len(tt) : k = n + 1
        BY <3>1
      <4>2. Len(ss) + k = (Len(ss) + n) + 1
        BY <3>1, <4>1
      <4>3. both[Len(ss) + k] = tt[k] /\ tt[k] \in Seq(E)
        BY <1>1
      <4> HIDE DEF T
      <4> QED BY <4>1, <4>2, <4>3
    <3>4. v[n] \in Seq(E)
      <4>1. n \in 0 .. Len(tt)
        BY <1>1
      <4> QED BY <4>1
    <3>5. (u[Len(ss)] \o v[n]) \o tt[n + 1] = u[Len(ss)] \o (v[n] \o tt[n + 1])
      <4>1. PICK a \in Seq(E) : a = u[Len(ss)]
        BY <2>0
      <4>2. PICK b \in Seq(E) : b = v[n]
        BY <3>4
      <4>3. PICK c \in Seq(E) : c = tt[n + 1]
        BY <3>3
      <4>4. Cat(Cat(a, b), c) = Cat(a, Cat(b, c))
        BY CatAssociative
      <4> QED BY <4>1, <4>2, <4>3, <4>4 DEF Cat
    <3>6. w[Len(ss) + n] = u[Len(ss)] \o v[n]
      BY <2>2
    <3>7. w[Len(ss) + (n + 1)] = u[Len(ss)] \o v[n + 1]
      BY <3>1, <3>2, <3>3, <3>5, <3>6
    <3> QED BY <3>1, <3>7
  <2>3. \A n \in 0 .. Len(tt) : n \in T
    <3> HIDE DEF T
    <3> QED BY <1>1, <2>1, <2>2, UpTo
  <2> QED BY <1>1, <2>3
<1>7. Joined(both) = Joined(ss) \o Joined(tt)
  BY <1>1, <1>2, <1>3, <1>4, <1>6 DEF Joins
<1> QED BY <1>7 DEF both

\* Joining one sequence is that sequence.
LEMMA JoinedOne ==
    ASSUME NEW E, NEW s \in Seq(E)
    PROVE  Joined(<<s>>) = s /\ Joined(<<>>) = <<>>
<1>1. <<s>> \in Seq(Seq(E)) /\ Len(<<s>>) = 1 /\ <<s>>[1] = s /\ <<>> \in Seq(Seq(E)) /\ Len(<<>>) = 0
  OBVIOUS
<1>2. PICK u \in [0 .. Len(<<s>>) -> Seq(E)] : Joins(u, <<s>>)
  BY <1>1, JoinedDef
<1>3. u[0] = <<>> /\ u[0 + 1] = u[0] \o <<s>>[0 + 1] /\ Joined(<<s>>) = u[1]
  <2>1. 0 \in 0 .. Len(<<s>>) - 1
    BY <1>1
  <2> QED BY <1>1, <1>2, <2>1 DEF Joins
<1>4. Joined(<<s>>) = <<>> \o s
  BY <1>1, <1>3
<1>5. PICK v \in [0 .. Len(<<>>) -> Seq(E)] : Joins(v, <<>>)
  BY <1>1, JoinedDef
<1> QED BY <1>1, <1>4, <1>5 DEF Joins

LEMMA JoinedNone == Joined(<<>>) = <<>>
<1>1. <<>> \in Seq({})
  OBVIOUS
<1> QED BY <1>1, JoinedOne
=============================================================================
