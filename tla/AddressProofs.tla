----------------------------- MODULE AddressProofs -----------------------------
(* Theorems about how a request is addressed, for any applications, names,   *)
(* versions and headers: the route its view is published and asked for under *)
(* (Endpoints), and the URL it is reported to have come to (BaseUrl).        *)
EXTENDS Endpoints, BaseUrl, SequenceTheorems, WellFoundedInduction, TLAPS

-----------------------------------------------------------------------------
(* Induction over 0..n, stated of a set of numbers; and the functions that   *)
(* are defined by it, with the step given as a function.                     *)
LEMMA Least ==
  ASSUME NEW S \in SUBSET Nat, S # {}
  PROVE  \E x \in S : \A y \in S : x <= y
<1>1. PICK x \in S : \A y \in S : ~(<<y, x>> \in OpToRel(<, Nat))
  BY NatLessThanWellFounded, WFMin
<1>2. \A y \in S : ~(y < x)
  BY <1>1 DEF OpToRel
<1>3. QED BY <1>2

LEMMA Induction ==
  ASSUME NEW n \in Nat, NEW P \in SUBSET (0..n), 0 \in P,
         \A i \in 1..n : i - 1 \in P => i \in P
  PROVE  P = 0..n
<1> SUFFICES ASSUME (0..n) \ P # {} PROVE FALSE
  OBVIOUS
<1>0. (0..n) \ P \in SUBSET Nat
  OBVIOUS
<1>1. PICK x \in (0..n) \ P : \A y \in (0..n) \ P : x <= y
  BY <1>0, Least
<1>2. x \in 1..n /\ x - 1 \in 0..n
  BY <1>1
<1>3. x - 1 \in P
  BY <1>1, <1>2
<1>4. QED BY <1>1, <1>2, <1>3

Unrolls(f, n, start, step) == f[0] = start /\ \A i \in 1..n : f[i] = step[<<i, f[i - 1]>>]

LEMMA Recursion ==
  ASSUME NEW A, NEW start \in A, NEW n \in Nat, NEW step \in [(1..n) \X A -> A]
  PROVE  \E f \in [0..n -> A] : Unrolls(f, n, start, step)
<1> DEFINE Goes(f, m) == f[0] = start /\ \A i \in 1..m : f[i] = step[<<i, f[i - 1]>>]
           P == {m \in 0..n : \E f \in [0..m -> A] : Goes(f, m)}
<1>1. 0 \in P
  <2> DEFINE f == [i \in 0..0 |-> start]
  <2>1. f \in [0..0 -> A] /\ Goes(f, 0)
    OBVIOUS
  <2> HIDE DEF f, Goes
  <2>2. QED BY <2>1
<1>2. ASSUME NEW i \in 1..n, i - 1 \in P PROVE i \in P
  <2>1. PICK f \in [0..(i - 1) -> A] : Goes(f, i - 1)
    BY <1>2
  <2> DEFINE g == [j \in 0..i |-> IF j = i THEN step[<<i, f[i - 1]>>] ELSE f[j]]
  <2>2. f[i - 1] \in A /\ step[<<i, f[i - 1]>>] \in A
    BY <2>1
  <2>3. g \in [0..i -> A]
    BY <2>2
  <2>4. g[0] = start
    BY <2>1
  <2>5. ASSUME NEW j \in 1..i PROVE g[j] = step[<<j, g[j - 1]>>]
    <3>1. CASE j = i
      <4>1. g[i] = step[<<i, f[i - 1]>>] /\ g[i - 1] = f[i - 1]
        OBVIOUS
      <4> HIDE DEF g
      <4>2. QED BY <3>1, <4>1
    <3>2. CASE j # i
      <4>1. j \in 1..(i - 1) /\ g[j] = f[j] /\ g[j - 1] = f[j - 1]
        BY <3>2
      <4>2. QED BY <2>1, <4>1
    <3>3. QED BY <3>1, <3>2
  <2>6. Goes(g, i)
    BY <2>4, <2>5
  <2> HIDE DEF g, Goes
  <2>7. QED BY <2>3, <2>6
<1> HIDE DEF P
<1>3. P = 0..n
  BY <1>1, <1>2, Induction DEF P
<1>4. QED BY <1>3 DEF P, Unrolls

(* FlattenSeq, one sequence at a time. *)
LEMMA Flattening ==
  ASSUME NEW S, NEW seqs \in Seq(Seq(S))
  PROVE  \E f \in [0..Len(seqs) -> Seq(S)] :
           /\ f[0] = << >>
           /\ \A i \in 1..Len(seqs) : f[i] = f[i - 1] \o seqs[i]
           /\ FlattenSeq(seqs) = f[Len(seqs)]
<1> DEFINE n == Len(seqs)
           step == [p \in (1..n) \X Seq(S) |-> p[2] \o seqs[p[1]]]
<1>1. n \in Nat /\ \A i \in 1..n : seqs[i] \in Seq(S)
  BY ElementOfSeq
<1>2. step \in [(1..n) \X Seq(S) -> Seq(S)]
  BY <1>1, ConcatProperties
<1>3. << >> \in Seq(S)
  BY EmptySeq
<1>4. PICK f \in [0..n -> Seq(S)] : f[0] = << >> /\ \A i \in 1..n : f[i] = step[<<i, f[i - 1]>>]
  <2> HIDE DEF n, step
  <2>1. \E f \in [0..n -> Seq(S)] : Unrolls(f, n, << >>, step)
    BY <1>1, <1>2, <1>3, Recursion
  <2>2. QED BY <2>1 DEF Unrolls
<1>5. \A i \in 1..n : f[i - 1] \in Seq(S) /\ f[i] = f[i - 1] \o seqs[i]
  BY <1>4
<1> DEFINE Unfolds(g) == g = [i \in 1..n |-> IF i = 1 THEN seqs[i] ELSE g[i - 1] \o seqs[i]]
           h == [i \in 1..n |-> f[i]]
           c == CHOOSE g : Unfolds(g)
<1>6. CASE n = 0
  <2>1. FlattenSeq(seqs) = seqs /\ seqs = << >>
    BY <1>6 DEF FlattenSeq
  <2>2. QED BY <1>4, <1>5, <1>6, <2>1
<1>7. CASE n # 0
  <2>1. FlattenSeq(seqs) = c[n]
    BY <1>7 DEF FlattenSeq
  <2>2. Unfolds(h)
    <3> SUFFICES ASSUME NEW i \in 1..n
                 PROVE  f[i] = IF i = 1 THEN seqs[i] ELSE h[i - 1] \o seqs[i]
      OBVIOUS
    <3>1. CASE i = 1
      <4>1. f[1] = << >> \o seqs[1] /\ seqs[1] \in Seq(S)
        <5>1. 1 \in 1..n
          BY <3>1
        <5> HIDE DEF n, step
        <5>2. f[1] = f[0] \o seqs[1] /\ seqs[1] \in Seq(S)
          <6>1. f[1] = f[1 - 1] \o seqs[1] /\ seqs[1] \in Seq(S)
            BY <1>1, <1>5, <5>1
          <6>2. 1 - 1 = 0
            OBVIOUS
          <6>3. QED BY <6>1, <6>2
        <5>3. QED BY <1>4, <5>2
      <4>2. QED BY <3>1, <4>1, ConcatEmptySeq
    <3>2. CASE i # 1
      <4>1. i - 1 \in 1..n /\ h[i - 1] = f[i - 1]
        BY <1>1, <3>2
      <4>2. QED BY <1>5, <3>2, <4>1
    <3>3. QED BY <3>1, <3>2
  <2>3. Unfolds(c)
    <3> HIDE DEF Unfolds, h
    <3>1. QED BY <2>2
  <2>4. \A i \in 1..n : c[i] = h[i]
    <3> DEFINE P == {i \in 0..n : i = 0 \/ c[i] = h[i]}
    <3>1. 0 \in P
      BY <1>1
    <3>2. ASSUME NEW i \in 1..n, i - 1 \in P PROVE i \in P
      <4>1. c[i] = IF i = 1 THEN seqs[i] ELSE c[i - 1] \o seqs[i]
        <5> HIDE DEF c, n
        <5>1. QED BY <2>3
      <4>2. h[i] = IF i = 1 THEN seqs[i] ELSE h[i - 1] \o seqs[i]
        <5> HIDE DEF h, n
        <5>1. QED BY <2>2
      <4>3. QED
        <5> HIDE DEF c, h, n
        <5>1. QED BY <3>2, <4>1, <4>2
    <3>3. P \in SUBSET (0..n)
      OBVIOUS
    <3> HIDE DEF P, n, c, h
    <3>4. P = 0..n
      BY <1>1, <3>1, <3>2, <3>3, Induction
    <3>5. QED BY <3>4 DEF P
  <2>5. c[n] = f[n]
    <3>1. n \in 1..n /\ h[n] = f[n]
      BY <1>1, <1>7
    <3> HIDE DEF c, h, n
    <3>2. QED BY <2>4, <3>1
  <2>6. QED BY <1>4, <1>5, <2>1, <2>5
<1>8. QED BY <1>6, <1>7

(* What sequences hold. *)
LEMMA SetOfEmpty == ToSet(<< >>) = {}
BY DEF ToSet

LEMMA SetOfConcat ==
  ASSUME NEW S, NEW s \in Seq(S), NEW t \in Seq(S)
  PROVE  s \o t \in Seq(S) /\ ToSet(s \o t) = ToSet(s) \cup ToSet(t)
<1>1. /\ s \o t \in Seq(S) /\ Len(s \o t) = Len(s) + Len(t)
      /\ Len(s) \in Nat /\ Len(t) \in Nat
      /\ DOMAIN (s \o t) = 1..(Len(s) + Len(t)) /\ DOMAIN s = 1..Len(s) /\ DOMAIN t = 1..Len(t)
  BY ConcatProperties, LenProperties
<1>2. \A i \in 1..(Len(s) + Len(t)) : (s \o t)[i] = IF i <= Len(s) THEN s[i] ELSE t[i - Len(s)]
  BY ConcatProperties
<1>3. ASSUME NEW x \in ToSet(s \o t) PROVE x \in ToSet(s) \cup ToSet(t)
  <2>1. PICK i \in 1..(Len(s) + Len(t)) : x = (s \o t)[i]
    BY <1>1 DEF ToSet
  <2>2. CASE i <= Len(s)
    BY <1>1, <1>2, <2>1, <2>2 DEF ToSet
  <2>3. CASE ~(i <= Len(s))
    <3>1. i - Len(s) \in 1..Len(t) /\ x = t[i - Len(s)]
      BY <1>1, <1>2, <2>1, <2>3
    <3>2. QED BY <1>1, <3>1 DEF ToSet
  <2>4. QED BY <2>2, <2>3
<1>4. ASSUME NEW x \in ToSet(s) PROVE x \in ToSet(s \o t)
  <2>1. PICK i \in 1..Len(s) : x = s[i]
    BY <1>1 DEF ToSet
  <2>2. i \in 1..(Len(s) + Len(t)) /\ x = (s \o t)[i]
    BY <1>1, <1>2, <2>1
  <2>3. QED BY <1>1, <2>2 DEF ToSet
<1>5. ASSUME NEW x \in ToSet(t) PROVE x \in ToSet(s \o t)
  <2>1. PICK i \in 1..Len(t) : x = t[i]
    BY <1>1 DEF ToSet
  <2>2. /\ i + Len(s) \in 1..(Len(s) + Len(t)) /\ ~(i + Len(s) <= Len(s))
        /\ (i + Len(s)) - Len(s) = i
    BY <1>1
  <2>3. x = (s \o t)[i + Len(s)]
    BY <1>2, <2>1, <2>2
  <2>4. QED BY <1>1, <2>2, <2>3 DEF ToSet
<1>6. QED BY <1>1, <1>3, <1>4, <1>5

LEMMA SetOfSingle ==
  ASSUME NEW S, NEW x \in S
  PROVE  << x >> \in Seq(S) /\ ToSet(<< x >>) = {x}
BY DEF ToSet

LEMMA SetIsEmpty ==
  ASSUME NEW S, NEW s \in Seq(S)
  PROVE  ToSet(s) \subseteq S /\ (ToSet(s) = {} <=> s = << >>)
<1>1. DOMAIN s = 1..Len(s) /\ Len(s) \in Nat /\ (s # << >> => Len(s) # 0)
  BY LenProperties, EmptySeq
<1>2. s # << >> => s[1] \in ToSet(s)
  BY <1>1 DEF ToSet
<1>3. \A i \in DOMAIN s : s[i] \in S
  BY <1>1, ElementOfSeq
<1>4. ToSet(s) \subseteq S
  BY <1>3 DEF ToSet
<1>5. QED BY <1>2, <1>4, SetOfEmpty

LEMMA SetOfFlattened ==
  ASSUME NEW S, NEW seqs \in Seq(Seq(S))
  PROVE  /\ FlattenSeq(seqs) \in Seq(S)
         /\ ToSet(FlattenSeq(seqs)) = UNION {ToSet(l) : l \in ToSet(seqs)}
<1> DEFINE n == Len(seqs)
<1>1. n \in Nat /\ DOMAIN seqs = 1..n /\ \A i \in 1..n : seqs[i] \in Seq(S)
  BY LenProperties, ElementOfSeq
<1>2. PICK f \in [0..n -> Seq(S)] :
        f[0] = << >> /\ (\A i \in 1..n : f[i] = f[i - 1] \o seqs[i]) /\ FlattenSeq(seqs) = f[n]
  BY Flattening
<1> DEFINE P == {i \in 0..n : ToSet(f[i]) = UNION {ToSet(seqs[j]) : j \in 1..i}}
<1> HIDE DEF n
<1>3. 0 \in P
  BY <1>1, <1>2, SetOfEmpty
<1>4. ASSUME NEW i \in 1..n, i - 1 \in P PROVE i \in P
  <2>1. f[i - 1] \in Seq(S) /\ seqs[i] \in Seq(S) /\ f[i] = f[i - 1] \o seqs[i]
    <3>1. i - 1 \in 0..n
      BY <1>1
    <3>2. QED BY <1>1, <1>2, <3>1
  <2>2. ToSet(f[i]) = ToSet(f[i - 1]) \cup ToSet(seqs[i])
    BY <2>1, SetOfConcat
  <2>3. 1..i = 1..(i - 1) \cup {i} /\ i \in 0..n
    BY <1>1
  <2>4. ToSet(f[i - 1]) = UNION {ToSet(seqs[j]) : j \in 1..(i - 1)}
    BY <1>4
  <2>5. UNION {ToSet(seqs[j]) : j \in 1..i} =
          (UNION {ToSet(seqs[j]) : j \in 1..(i - 1)}) \cup ToSet(seqs[i])
    BY <2>3
  <2>6. QED BY <2>2, <2>3, <2>4, <2>5
<1>5. P \in SUBSET (0..n)
  OBVIOUS
<1>6. n \in P
  <2> HIDE DEF P
  <2>1. P = 0..n
    BY <1>1, <1>3, <1>4, <1>5, Induction
  <2>2. QED BY <1>1, <2>1
<1>7. {ToSet(seqs[j]) : j \in 1..n} = {ToSet(l) : l \in ToSet(seqs)}
  <2>1. ToSet(seqs) = {seqs[j] : j \in 1..n}
    BY <1>1 DEF ToSet
  <2>2. QED BY <2>1
<1>8. QED BY <1>1, <1>2, <1>6, <1>7

(* Merged drops what came before and loses nothing. *)
LEMMA MergedVersions ==
  ASSUME NEW lists \in Seq(Seq(Versions))
  PROVE  /\ ToSet(Merged(lists)) = UNION {ToSet(l) : l \in ToSet(lists)}
         /\ Merged(lists) # << >> <=> \E k \in ToSet(lists) : k # << >>
<1> DEFINE all == FlattenSeq(lists)
           n == Len(all)
           Next1(i, m) == IF all[i] \in ToSet(m) THEN m ELSE Append(m, all[i])
           step == [p \in (1..n) \X Seq(Versions) |-> Next1(p[1], p[2])]
           Unfolds(g) == g = [i \in 0..n |-> IF i = 0 THEN << >> ELSE Next1(i, g[i - 1])]
           c == CHOOSE g : Unfolds(g)
<1>1. /\ all \in Seq(Versions) /\ ToSet(all) = UNION {ToSet(l) : l \in ToSet(lists)}
      /\ n \in Nat /\ DOMAIN all = 1..n /\ \A i \in 1..n : all[i] \in Versions
  BY SetOfFlattened, LenProperties, ElementOfSeq
<1>m. Merged(lists) = c[n]
  BY DEF Merged
<1> HIDE DEF all, n
<1>2. \A i \in 1..n, m \in Seq(Versions) :
        Next1(i, m) \in Seq(Versions) /\ ToSet(Next1(i, m)) = ToSet(m) \cup {all[i]}
  <2> SUFFICES ASSUME NEW i \in 1..n, NEW m \in Seq(Versions)
               PROVE  Next1(i, m) \in Seq(Versions) /\ ToSet(Next1(i, m)) = ToSet(m) \cup {all[i]}
    OBVIOUS
  <2>1. Append(m, all[i]) = m \o << all[i] >>
    BY <1>1, AppendIsConcat
  <2>2. all[i] \in Versions /\ << all[i] >> \in Seq(Versions) /\ ToSet(<< all[i] >>) = {all[i]}
    BY <1>1, SetOfSingle
  <2>3. m \o << all[i] >> \in Seq(Versions) /\ ToSet(m \o << all[i] >>) = ToSet(m) \cup {all[i]}
    <3> DEFINE last == << all[i] >>
    <3> HIDE DEF last
    <3>1. last \in Seq(Versions) /\ ToSet(last) = {all[i]}
      BY <2>2 DEF last
    <3>2. m \o last \in Seq(Versions) /\ ToSet(m \o last) = ToSet(m) \cup {all[i]}
      BY <3>1, SetOfConcat
    <3>3. QED BY <3>2 DEF last
  <2>4. all[i] \in ToSet(m) => ToSet(m) = ToSet(m) \cup {all[i]}
    OBVIOUS
  <2>5. QED BY <2>1, <2>3, <2>4
<1> HIDE DEF Next1
<1>3. step \in [(1..n) \X Seq(Versions) -> Seq(Versions)] /\ << >> \in Seq(Versions)
  BY <1>2, EmptySeq
<1>4. PICK f \in [0..n -> Seq(Versions)] : Unrolls(f, n, << >>, step)
  <2> HIDE DEF step
  <2>1. QED BY <1>1, <1>3, Recursion
<1>5. f[0] = << >> /\ \A i \in 1..n : f[i - 1] \in Seq(Versions) /\ f[i] = Next1(i, f[i - 1])
  <2> SUFFICES ASSUME NEW i \in 1..n PROVE f[i - 1] \in Seq(Versions) /\ f[i] = Next1(i, f[i - 1])
    BY <1>4 DEF Unrolls
  <2>1. f[i] = step[<<i, f[i - 1]>>]
    <3> HIDE DEF step
    <3>1. QED BY <1>4 DEF Unrolls
  <2>2. i - 1 \in 0..n
    BY <1>1
  <2>3. f[i - 1] \in Seq(Versions)
    BY <1>4, <2>2
  <2>4. QED BY <2>1, <2>3
<1>6. Unfolds(c)
  <2>1. Unfolds(f)
    BY <1>5
  <2> HIDE DEF Unfolds
  <2>2. QED BY <2>1
<1>7. c[0] = << >> /\ \A i \in 1..n : c[i] = Next1(i, c[i - 1])
  <2> HIDE DEF c
  <2>1. c = [i \in 0..n |-> IF i = 0 THEN << >> ELSE Next1(i, c[i - 1])]
    BY <1>6
  <2>2. 0 \in 0..n /\ \A i \in 1..n : i \in 0..n /\ i # 0
    BY <1>1
  <2>3. QED BY <2>1, <2>2
<1> DEFINE P == {i \in 0..n : c[i] = f[i] /\ ToSet(c[i]) = {all[j] : j \in 1..i}}
<1> HIDE DEF c
<1>8. 0 \in P
  BY <1>1, <1>5, <1>7, SetOfEmpty
<1>9. ASSUME NEW i \in 1..n, i - 1 \in P PROVE i \in P
  <2>1. c[i] = f[i] /\ c[i - 1] \in Seq(Versions)
    BY <1>5, <1>7, <1>9
  <2>2. ToSet(c[i]) = ToSet(c[i - 1]) \cup {all[i]}
    BY <1>2, <1>7, <2>1
  <2>3. 1..i = 1..(i - 1) \cup {i}
    BY <1>1
  <2>4. QED BY <1>9, <2>1, <2>2, <2>3
<1>10. P \in SUBSET (0..n)
  OBVIOUS
<1>11. n \in P
  <2> HIDE DEF P
  <2>1. P = 0..n
    BY <1>1, <1>8, <1>9, <1>10, Induction
  <2>2. QED BY <1>1, <2>1
<1>12. Merged(lists) \in Seq(Versions) /\ ToSet(Merged(lists)) = ToSet(all)
  BY <1>m, <1>1, <1>11 DEF ToSet
<1>13. ToSet(all) = {} <=> \A k \in ToSet(lists) : k = << >>
  <2>1. \A k \in ToSet(lists) : k \in Seq(Versions)
    BY SetIsEmpty
  <2>2. QED BY <1>1, <2>1, SetIsEmpty
<1>14. QED BY <1>1, <1>12, <1>13, SetIsEmpty

-----------------------------------------------------------------------------
(* The pieces of a path that is spelled, and how intake knows one.           *)
Spellings == Pieces \cup ({"braces", "colon"} \X Names)
Respelled(x, how) == IF x[1] = "param" THEN <<how, x[2]>> ELSE x
Known(path) == [i \in DOMAIN path |-> Respelled(path[i], "colon")]

LEMMA PieceSpelled ==
  ASSUME NEW x \in Pieces, NEW how \in {"braces", "colon"}
  PROVE  LET y == Respelled(x, how) IN
         /\ y \in Spellings /\ (y = Slash <=> x = Slash)
         /\ Respelled(x, "colon") = IF y[1] = "braces" THEN <<"colon", y[2]>> ELSE y
<1>1. CASE x[1] = "param"
  <2>1. x # Slash /\ x # Anchor
    BY <1>1 DEF Slash, Anchor
  <2>2. x[2] \in Names
    BY <2>1 DEF Pieces
  <2>3. <<how, x[2]>> \in Spellings
    BY <2>2 DEF Spellings
  <2>4. <<how, x[2]>> # Slash
    BY DEF Slash
  <2>5. <<how, x[2]>>[1] = how /\ <<how, x[2]>>[2] = x[2]
    OBVIOUS
  <2>6. QED BY <1>1, <2>1, <2>3, <2>4, <2>5 DEF Respelled
<1>2. CASE x[1] # "param"
  <2>1. x[1] # "braces"
    <3>1. CASE x \in {Slash, Anchor}
      BY <3>1 DEF Slash, Anchor
    <3>2. CASE x \in {"text", "param", "dunder"} \X Names
      BY <3>2
    <3>3. QED BY <3>1, <3>2 DEF Pieces
  <2>2. QED BY <1>2, <2>1 DEF Respelled, Spellings
<1>3. QED BY <1>1, <1>2

LEMMA PathSpelled ==
  ASSUME NEW path \in Seq(Pieces), NEW how \in {"braces", "colon"}
  PROVE  /\ Spelled(path, how) \in Seq(Spellings) /\ Len(Spelled(path, how)) = Len(path)
         /\ \A i \in 1..Len(path) : /\ Spelled(path, how)[i] = Respelled(path[i], how)
                                    /\ Spelled(path, how)[i] = Slash <=> path[i] = Slash
         /\ Canonical(Spelled(path, how)) = Known(path)
<1> DEFINE n == Len(path)
           t == Spelled(path, how)
<1>1. n \in Nat /\ DOMAIN path = 1..n /\ \A i \in 1..n : path[i] \in Pieces
  BY LenProperties, ElementOfSeq
<1>2. t = [i \in 1..n |-> Respelled(path[i], how)]
  BY <1>1 DEF Spelled, Respelled
<1> HIDE DEF n, t
<1>3. \A i \in 1..n : t[i] = Respelled(path[i], how) /\ t[i] \in Spellings
  BY <1>1, <1>2, PieceSpelled
<1>4. DOMAIN t = 1..n
  BY <1>2
<1>5. t \in [1..n -> Spellings]
  BY <1>2, <1>3
<1>6. t \in Seq(Spellings) /\ Len(t) = n
  BY <1>1, <1>4, <1>5
<1>7. \A i \in 1..n : t[i] = Slash <=> path[i] = Slash
  BY <1>1, <1>3, PieceSpelled
<1>8. \A i \in 1..n : (IF t[i][1] = "braces" THEN <<"colon", t[i][2]>> ELSE t[i]) = Respelled(path[i], "colon")
  BY <1>1, <1>3, PieceSpelled
<1>9. Canonical(t) = Known(path)
  BY <1>1, <1>4, <1>8 DEF Canonical, Known
<1>10. QED BY <1>3, <1>6, <1>7, <1>9 DEF n, t

(* What Rooted leaves of a path: one slash, and what follows its first ones. *)
Rooting(S, path, k) ==
  /\ \A i \in 1..(k - 1) : path[i] = Slash
  /\ k <= Len(path) => path[k] # Slash
  /\ Rooted(path) \in Seq(S) /\ Len(Rooted(path)) = (Len(path) - k) + 2
  /\ Rooted(path)[1] = Slash
  /\ \A i \in 2..((Len(path) - k) + 2) : Rooted(path)[i] = path[(k + i) - 2]

LEMMA RootedPath ==
  ASSUME NEW S, Slash \in S, NEW path \in Seq(S)
  PROVE  \E k \in 1..(Len(path) + 1) : Rooting(S, path, k)
<1> DEFINE n == Len(path)
           K == {i \in DOMAIN path : path[i] # Slash} \cup {n + 1}
           k == Min(K)
<1>1. n \in Nat /\ DOMAIN path = 1..n /\ \A i \in 1..n : path[i] \in S
  BY LenProperties, ElementOfSeq
<1>2. LStripped(path) = SubSeq(path, k, n)
  BY DEF LStripped
<1>3. k \in K /\ \A i \in K : k <= i
  <2>1. K \in SUBSET Nat /\ K # {}
    BY <1>1
  <2> HIDE DEF K
  <2>2. \E x \in K : \A y \in K : x <= y
    BY <2>1, Least
  <2>3. QED BY <2>2 DEF Min
<1> HIDE DEF k
<1>4. /\ k \in 1..(n + 1) /\ (k <= n => path[k] # Slash)
      /\ \A i \in 1..(k - 1) : path[i] = Slash
  <2>1. \A i \in 1..n : path[i] # Slash => i \in K
    BY <1>1
  <2>2. k \in 1..(n + 1)
    BY <1>1, <1>3
  <2>3. k <= n => path[k] # Slash
    BY <1>1, <1>3
  <2>4. \A i \in 1..(k - 1) : i \in 1..n /\ ~(k <= i)
    BY <1>1, <2>2
  <2>5. QED BY <1>3, <2>1, <2>2, <2>3, <2>4
<1> HIDE DEF K, n
<1> DEFINE rest == SubSeq(path, k, n)
           one == << Slash >>
<1>5. rest \in Seq(S) /\ Len(rest) = (n - k) + 1 /\ \A i \in 1..((n - k) + 1) : rest[i] = path[(k + i) - 1]
  <2>1. k \in Int /\ n \in Int /\ \A i \in k..n : path[i] \in S
    BY <1>1, <1>4
  <2>2. /\ rest \in Seq(S) /\ Len(rest) = IF k <= n THEN n - k + 1 ELSE 0
        /\ \A i \in 1..(n - k + 1) : rest[i] = path[k + i - 1]
    BY <2>1, SubSeqProperties
  <2> HIDE DEF rest
  <2>3. QED BY <1>1, <1>4, <2>2
<1>6. one \in Seq(S) /\ Len(one) = 1 /\ one[1] = Slash
  OBVIOUS
<1>7. Rooted(path) = one \o rest
  BY <1>2 DEF Rooted, n
<1> HIDE DEF rest, one
<1>8. /\ one \o rest \in Seq(S) /\ Len(one \o rest) = (n - k) + 2
      /\ \A i \in 1..((n - k) + 2) : (one \o rest)[i] = IF i <= 1 THEN one[i] ELSE rest[i - 1]
  <2>1. /\ one \o rest \in Seq(S) /\ Len(one \o rest) = Len(one) + Len(rest)
        /\ \A i \in 1..Len(one) + Len(rest) :
             (one \o rest)[i] = IF i <= Len(one) THEN one[i] ELSE rest[i - Len(one)]
    BY <1>5, <1>6, ConcatProperties
  <2>2. Len(one) = 1 /\ Len(one) + Len(rest) = (n - k) + 2
    BY <1>1, <1>4, <1>5, <1>6
  <2>3. QED BY <2>1, <2>2
<1>9. (one \o rest)[1] = Slash
  BY <1>1, <1>4, <1>6, <1>8
<1>10. ASSUME NEW i \in 2..((n - k) + 2) PROVE (one \o rest)[i] = path[(k + i) - 2]
  <2>1. /\ i \in 1..((n - k) + 2) /\ ~(i <= 1) /\ i - 1 \in 1..((n - k) + 1)
        /\ (k + (i - 1)) - 1 = (k + i) - 2
    BY <1>1, <1>4
  <2>2. (one \o rest)[i] = rest[i - 1] /\ rest[i - 1] = path[(k + (i - 1)) - 1]
    BY <1>5, <1>8, <2>1
  <2>3. QED BY <2>1, <2>2
<1>11. Rooting(S, path, k)
  BY <1>1, <1>4, <1>7, <1>8, <1>9, <1>10 DEF n, Rooting
<1>12. QED BY <1>4, <1>11 DEF n

(* Spelling and rooting a path commute; so what either side sends of a       *)
(* pattern, intake knows as the rooted pattern.                              *)
LEMMA RootedSpelled ==
  ASSUME NEW path \in Seq(Pieces), NEW how \in {"braces", "colon"}
  PROVE  Rooted(Spelled(path, how)) = Spelled(Rooted(path), how)
<1> DEFINE n == Len(path)
           t == Spelled(path, how)
           u == Spelled(Rooted(path), how)
<1>1. n \in Nat /\ \A i \in 1..n : path[i] \in Pieces
  BY LenProperties, ElementOfSeq
<1>2. Slash \in Pieces /\ Slash \in Spellings
  BY DEF Pieces, Spellings
<1>3. PICK k \in 1..(n + 1) :
        /\ \A i \in 1..(k - 1) : path[i] = Slash
        /\ k <= n => path[k] # Slash
        /\ Rooted(path) \in Seq(Pieces) /\ Len(Rooted(path)) = (n - k) + 2
        /\ Rooted(path)[1] = Slash
        /\ \A i \in 2..((n - k) + 2) : Rooted(path)[i] = path[(k + i) - 2]
  <2>1. PICK k \in 1..(n + 1) : Rooting(Pieces, path, k)
    BY <1>2, RootedPath
  <2>2. QED BY <2>1 DEF Rooting
<1>4. /\ t \in Seq(Spellings) /\ Len(t) = n
      /\ \A i \in 1..n : t[i] = Respelled(path[i], how) /\ (t[i] = Slash <=> path[i] = Slash)
  BY PathSpelled
<1>5. /\ u \in Seq(Spellings) /\ Len(u) = (n - k) + 2
      /\ \A i \in 1..((n - k) + 2) : /\ u[i] = Respelled(Rooted(path)[i], how)
                                     /\ u[i] = Slash <=> Rooted(path)[i] = Slash
  BY <1>3, PathSpelled
<1> HIDE DEF n, t, u
<1>6. PICK j \in 1..(n + 1) :
        /\ \A i \in 1..(j - 1) : t[i] = Slash
        /\ j <= n => t[j] # Slash
        /\ Rooted(t) \in Seq(Spellings) /\ Len(Rooted(t)) = (n - j) + 2
        /\ Rooted(t)[1] = Slash
        /\ \A i \in 2..((n - j) + 2) : Rooted(t)[i] = t[(j + i) - 2]
  <2>1. PICK j \in 1..(n + 1) : Rooting(Spellings, t, j)
    BY <1>2, <1>4, RootedPath
  <2>2. QED BY <1>4, <2>1 DEF Rooting
<1>7. j = k
  <2>1. ~(j < k)
    <3> SUFFICES ASSUME j < k PROVE FALSE
      OBVIOUS
    <3>1. j \in 1..(k - 1) /\ j \in 1..n
      BY <1>1, <1>3, <1>6
    <3>2. QED BY <1>3, <1>4, <1>6, <3>1
  <2>2. ~(k < j)
    <3> SUFFICES ASSUME k < j PROVE FALSE
      OBVIOUS
    <3>1. k \in 1..(j - 1) /\ k \in 1..n
      BY <1>1, <1>3, <1>6
    <3>2. QED BY <1>3, <1>4, <1>6, <3>1
  <2>3. QED BY <1>1, <2>1, <2>2
<1>8. ASSUME NEW i \in 1..((n - k) + 2) PROVE Rooted(t)[i] = u[i]
  <2>1. CASE i = 1
    BY <1>1, <1>3, <1>5, <1>6, <2>1
  <2>2. CASE i # 1
    <3>1. i \in 2..((n - k) + 2) /\ (k + i) - 2 \in 1..n
      BY <1>1, <1>3, <2>2
    <3>2. Rooted(t)[i] = t[(k + i) - 2] /\ Rooted(path)[i] = path[(k + i) - 2]
      BY <1>3, <1>6, <1>7, <3>1
    <3>3. QED BY <1>4, <1>5, <3>1, <3>2
  <2>3. QED BY <2>1, <2>2
<1>9. Rooted(t) = u
  BY <1>5, <1>6, <1>7, <1>8, SeqEqual
<1>10. QED BY <1>9 DEF t, u

LEMMA AskedPath ==
  ASSUME NEW path \in Seq(Pieces)
  PROVE  /\ Rooted(path) \in Seq(Pieces)
         /\ Canonical(NormalizeRoutePattern(path)) = Known(Rooted(path))
         /\ Canonical(FlaskPath(path)) = Known(path)
         /\ Canonical(DjangoPath(path)) = Known(Rooted(path))
<1>1. Slash \in Pieces
  BY DEF Pieces
<1>2. Rooted(path) \in Seq(Pieces)
  BY <1>1, RootedPath DEF Rooting
<1>3. QED BY <1>2, PathSpelled, RootedSpelled DEF NormalizeRoutePattern, FlaskPath, DjangoPath

(* A path that starts with one slash is rooted; with two, it loses one; and  *)
(* of two paths, the longer stays longer unless more slashes lead it.        *)
Leads(longer, path) ==
  \A m \in 1..Len(longer) :
    (\A j \in 1..m : longer[j] = Slash) => m <= Len(path) /\ path[m] = Slash

LEMMA RootedAlready ==
  ASSUME NEW path \in Seq(Pieces), Len(path) > 0, path[1] = Slash
  PROVE  IF Len(path) > 1 /\ path[2] = Slash
         THEN Len(Rooted(path)) < Len(path) ELSE Rooted(path) = path
<1> DEFINE n == Len(path)
<1>1. n \in Nat /\ n > 0 /\ Slash \in Pieces
  BY LenProperties DEF Pieces
<1>2. PICK k \in 1..(n + 1) : Rooting(Pieces, path, k)
  BY <1>1, RootedPath
<1>3. /\ k <= n => path[k] # Slash
      /\ \A i \in 1..(k - 1) : path[i] = Slash
      /\ Rooted(path) \in Seq(Pieces) /\ Len(Rooted(path)) = (n - k) + 2
      /\ Rooted(path)[1] = Slash
      /\ \A i \in 2..((n - k) + 2) : Rooted(path)[i] = path[(k + i) - 2]
  BY <1>2 DEF Rooting
<1> HIDE DEF n
<1>4. path[1] = Slash /\ k # 1
  BY <1>1, <1>3
<1>5. CASE n > 1 /\ path[2] = Slash
  <2>1. k > 2
    BY <1>1, <1>3, <1>4, <1>5
  <2>2. QED BY <1>1, <1>3, <1>5, <2>1 DEF n
<1>6. CASE ~(n > 1 /\ path[2] = Slash)
  <2>1. k = 2
    <3> SUFFICES ASSUME k > 2 PROVE FALSE
      BY <1>4
    <3>1. 2 \in 1..(k - 1) /\ n > 1
      BY <1>1
    <3>2. QED BY <1>3, <1>6, <3>1
  <2>2. Len(Rooted(path)) = n
    BY <1>1, <1>3, <2>1
  <2>3. \A i \in 1..n : Rooted(path)[i] = path[i]
    BY <1>1, <1>3, <1>4, <2>1
  <2>4. Rooted(path) = path
    BY <1>3, <2>2, <2>3, SeqEqual DEF n
  <2>5. QED BY <1>6, <2>4 DEF n
<1>7. QED BY <1>5, <1>6 DEF n

LEMMA RootedLonger ==
  ASSUME NEW longer \in Seq(Pieces), NEW path \in Seq(Pieces),
         Len(path) < Len(longer), Leads(longer, path)
  PROVE  Len(Rooted(path)) < Len(Rooted(longer))
<1> DEFINE n == Len(path)
           l == Len(longer)
<1>1. n \in Nat /\ l \in Nat /\ Slash \in Pieces /\ n < l
  BY LenProperties DEF Pieces
<1>2. PICK j \in 1..(n + 1) : Rooting(Pieces, path, j)
  BY <1>1, RootedPath
<1>3. PICK k \in 1..(l + 1) : Rooting(Pieces, longer, k)
  BY <1>1, RootedPath
<1>4. (j <= n => path[j] # Slash) /\ Len(Rooted(path)) = (n - j) + 2
  BY <1>2 DEF Rooting
<1>5. (\A i \in 1..(k - 1) : longer[i] = Slash) /\ Len(Rooted(longer)) = (l - k) + 2
  BY <1>3 DEF Rooting
<1>6. \A m \in 1..l : (\A i \in 1..m : longer[i] = Slash) => m <= n /\ path[m] = Slash
  BY DEF Leads
<1> HIDE DEF n, l
<1>7. \A m \in 1..(k - 1) : m <= n /\ path[m] = Slash
  <2> SUFFICES ASSUME NEW m \in 1..(k - 1) PROVE m <= n /\ path[m] = Slash
    OBVIOUS
  <2>1. m \in 1..l /\ \A i \in 1..m : i \in 1..(k - 1)
    BY <1>1
  <2>2. QED BY <1>5, <1>6, <2>1
<1>8. k <= j
  <2> SUFFICES ASSUME j < k PROVE FALSE
    BY <1>1
  <2>1. j \in 1..(k - 1)
    BY <1>1
  <2>2. QED BY <1>4, <1>7, <2>1
<1>9. QED BY <1>1, <1>4, <1>5, <1>8

(* One part more, with its anchor or without it. *)
LEMMA PartAdded ==
  ASSUME NEW f \in Seq(Pieces), NEW r \in Seq(Pieces), NEW part \in Seq(Pieces), NEW kept,
         Len(r) <= Len(f), Leads(f, r),
         kept = part \/ (Anchored(part) /\ kept = Tail(part))
  PROVE  /\ kept \in Seq(Pieces)
         /\ Len(kept) <= Len(part) /\ (kept # part => Len(kept) < Len(part))
         /\ Leads(f \o part, r \o kept)
<1> DEFINE n == Len(f)
           l == Len(r)
           p == Len(part)
           q == Len(kept)
<1>1. /\ kept \in Seq(Pieces) /\ n \in Nat /\ l \in Nat /\ p \in Nat /\ q \in Nat /\ l <= n
      /\ q <= p /\ (kept # part => q < p)
  <2>1. CASE kept = part
    BY <2>1, LenProperties
  <2>2. CASE Anchored(part) /\ kept = Tail(part)
    BY <2>2, LenProperties, HeadTailProperties DEF Anchored
  <2>3. QED BY <2>1, <2>2
<1>2. Len(f \o part) = n + p /\ Len(r \o kept) = l + q
  BY <1>1, ConcatProperties
<1>3. /\ \A i \in 1..(n + p) : (f \o part)[i] = IF i <= n THEN f[i] ELSE part[i - n]
      /\ \A i \in 1..(l + q) : (r \o kept)[i] = IF i <= l THEN r[i] ELSE kept[i - l]
  BY <1>1, ConcatProperties
<1>4. \A m \in 1..n : (\A j \in 1..m : f[j] = Slash) => m <= l /\ r[m] = Slash
  BY DEF Leads
<1>5. kept # part => Anchored(part)
  OBVIOUS
<1> HIDE DEF n, l, p, q
<1>6. ASSUME NEW m \in 1..(n + p), \A j \in 1..m : (f \o part)[j] = Slash
      PROVE  m <= l + q /\ (r \o kept)[m] = Slash
  <2>1. CASE m <= n
    <3>0. \A j \in 1..m : j \in 1..(n + p) /\ j <= n
      BY <1>1, <2>1
    <3>1. \A j \in 1..m : f[j] = Slash
      BY <1>3, <1>6, <3>0
    <3>2. m \in 1..n
      BY <1>1, <2>1
    <3>3. m <= l /\ r[m] = Slash
      BY <1>4, <3>1, <3>2
    <3>4. m \in 1..(l + q) /\ m <= l + q
      BY <1>1, <3>2, <3>3
    <3>5. QED BY <1>3, <3>3, <3>4
  <2>2. CASE ~(m <= n)
    <3>0. \A j \in 1..n : j \in 1..m /\ j \in 1..(n + p) /\ j <= n
      BY <1>1, <2>2
    <3>1. \A j \in 1..n : f[j] = Slash
      BY <1>3, <1>6, <3>0
    <3>2. l = n
      <4>1. CASE n = 0
        BY <1>1, <4>1
      <4>2. CASE n # 0
        BY <1>1, <1>4, <3>1, <4>2
      <4>3. QED BY <4>1, <4>2
    <3>3. n + 1 \in 1..m /\ n + 1 \in 1..(n + p) /\ ~(n + 1 <= n) /\ (n + 1) - n = 1
      BY <1>1, <2>2
    <3>4. part[1] = Slash
      BY <1>3, <1>6, <3>3
    <3>5. kept = part
      BY <1>5, <3>4 DEF Anchored, Slash, Anchor
    <3>6. m \in 1..(l + q) /\ (r \o kept)[m] = part[m - n]
      BY <1>1, <1>3, <2>2, <3>2, <3>5 DEF p, q
    <3>7. part[m - n] = Slash
      <4>1. m \in 1..m /\ ~(m <= n)
        BY <1>1, <2>2
      <4>2. QED BY <1>3, <1>6, <4>1
    <3>8. QED BY <1>1, <3>6, <3>7
  <2>3. QED BY <2>1, <2>2
<1>7. QED BY <1>1, <1>2, <1>6 DEF Leads, p, q

(* A resolved pattern is the published path, unless a part within it has     *)
(* an anchor to leave out: then it is shorter.                               *)
Inner(parts, i) == Anchored(parts[i]) /\ Follows(parts, i)
Kept(parts) == [i \in DOMAIN parts |-> IF Inner(parts, i) THEN Tail(parts[i]) ELSE parts[i]]

LEMMA PartsKept ==
  ASSUME NEW parts \in Seq(Seq(Pieces))
  PROVE  /\ RouteOf(parts) = FlattenSeq(Kept(parts))
         /\ Kept(parts) \in Seq(Seq(Pieces)) /\ Len(Kept(parts)) = Len(parts)
         /\ \A i \in 1..Len(parts) :
              /\ parts[i] \in Seq(Pieces) /\ Kept(parts)[i] \in Seq(Pieces)
              /\ IF Inner(parts, i)
                 THEN Anchored(parts[i]) /\ Kept(parts)[i] = Tail(parts[i])
                 ELSE Kept(parts)[i] = parts[i]
<1> DEFINE n == Len(parts)
           kept == Kept(parts)
<1>1. n \in Nat /\ DOMAIN parts = 1..n /\ \A i \in 1..n : parts[i] \in Seq(Pieces)
  BY LenProperties, ElementOfSeq
<1>2. RouteOf(parts) = FlattenSeq(kept)
  BY DEF RouteOf, Kept, Inner
<1>3. kept = [i \in 1..n |-> IF Inner(parts, i) THEN Tail(parts[i]) ELSE parts[i]]
  BY <1>1 DEF Kept
<1> HIDE DEF n, kept
<1>4. \A i \in 1..n : IF Inner(parts, i)
                      THEN Anchored(parts[i]) /\ kept[i] = Tail(parts[i]) ELSE kept[i] = parts[i]
  BY <1>3 DEF Inner
<1>5. \A i \in 1..n : kept[i] \in Seq(Pieces)
  BY <1>1, <1>4, HeadTailProperties DEF Anchored
<1>6. kept \in Seq(Seq(Pieces)) /\ Len(kept) = n
  <2>1. DOMAIN kept = 1..n
    BY <1>3
  <2>2. kept \in [1..n -> Seq(Pieces)]
    BY <1>3, <1>5
  <2>3. QED BY <1>1, <2>1, <2>2
<1>7. QED BY <1>1, <1>2, <1>4, <1>5, <1>6 DEF n, kept

LEMMA RouteOfPattern ==
  ASSUME NEW parts \in Seq(Seq(Pieces))
  PROVE  /\ FlattenSeq(parts) \in Seq(Pieces) /\ RouteOf(parts) \in Seq(Pieces)
         /\ FlattenSeq(parts) # << >> => RouteOf(parts) # << >>
         /\ IF \E i \in 1..Len(parts) : Inner(parts, i)
            THEN Len(RouteOf(parts)) < Len(FlattenSeq(parts)) /\ Leads(FlattenSeq(parts), RouteOf(parts))
            ELSE RouteOf(parts) = FlattenSeq(parts)
<1> DEFINE n == Len(parts)
           kept == Kept(parts)
           Some(i) == \E j \in 1..i : parts[j] # << >>
<1>1. /\ n \in Nat /\ kept \in Seq(Seq(Pieces)) /\ Len(kept) = n
      /\ RouteOf(parts) = FlattenSeq(kept)
      /\ \A i \in 1..n : parts[i] \in Seq(Pieces) /\ kept[i] \in Seq(Pieces)
      /\ \A i \in 1..n : IF Inner(parts, i)
                         THEN Anchored(parts[i]) /\ kept[i] = Tail(parts[i]) ELSE kept[i] = parts[i]
  BY LenProperties, PartsKept
<1>2. PICK f \in [0..n -> Seq(Pieces)] :
        f[0] = << >> /\ (\A i \in 1..n : f[i] = f[i - 1] \o parts[i]) /\ FlattenSeq(parts) = f[n]
  BY Flattening
<1>3. PICK r \in [0..n -> Seq(Pieces)] :
        r[0] = << >> /\ (\A i \in 1..n : r[i] = r[i - 1] \o kept[i]) /\ RouteOf(parts) = r[n]
  <2> HIDE DEF n, kept
  <2>1. \E r \in [0..Len(kept) -> Seq(Pieces)] :
          /\ r[0] = << >>
          /\ \A i \in 1..Len(kept) : r[i] = r[i - 1] \o kept[i]
          /\ FlattenSeq(kept) = r[Len(kept)]
    BY <1>1, Flattening
  <2>2. QED BY <1>1, <2>1
<1> DEFINE Fits(i) == /\ Len(r[i]) <= Len(f[i]) /\ Leads(f[i], r[i])
                      /\ Some(i) <=> Len(f[i]) > 0
                      /\ Len(f[i]) > 0 => Len(r[i]) > 0
                      /\ IF \E j \in 1..i : Inner(parts, j) THEN Len(r[i]) < Len(f[i]) ELSE r[i] = f[i]
           P == {i \in 0..n : Fits(i)}
<1> HIDE DEF n, kept
<1>4. 0 \in P
  <2>1. Len(f[0]) = 0 /\ Len(r[0]) = 0 /\ r[0] = f[0] /\ 0 \in 0..n
    BY <1>1, <1>2, <1>3
  <2>2. QED BY <2>1 DEF Leads
<1>5. ASSUME NEW i \in 1..n, i - 1 \in P PROVE i \in P
  <2> HIDE DEF Fits
  <2>1. /\ Fits(i - 1) /\ i \in 0..n
        /\ f[i - 1] \in Seq(Pieces) /\ r[i - 1] \in Seq(Pieces) /\ parts[i] \in Seq(Pieces)
        /\ f[i] = f[i - 1] \o parts[i] /\ r[i] = r[i - 1] \o kept[i]
    <3>1. i - 1 \in 0..n /\ i \in 0..n
      BY <1>1
    <3>2. QED BY <1>1, <1>2, <1>3, <1>5, <3>1
  <2>2. /\ Len(r[i - 1]) <= Len(f[i - 1]) /\ Leads(f[i - 1], r[i - 1])
        /\ Some(i - 1) <=> Len(f[i - 1]) > 0
        /\ Len(f[i - 1]) > 0 => Len(r[i - 1]) > 0
        /\ IF \E j \in 1..(i - 1) : Inner(parts, j)
           THEN Len(r[i - 1]) < Len(f[i - 1]) ELSE r[i - 1] = f[i - 1]
    BY <2>1 DEF Fits
  <2>3. /\ kept[i] \in Seq(Pieces) /\ Len(kept[i]) <= Len(parts[i])
        /\ Leads(f[i], r[i])
        /\ kept[i] # parts[i] => Len(kept[i]) < Len(parts[i])
    <3>1. kept[i] = parts[i] \/ (Anchored(parts[i]) /\ kept[i] = Tail(parts[i]))
      BY <1>1
    <3>2. Len(r[i - 1]) <= Len(f[i - 1]) /\ Leads(f[i - 1], r[i - 1])
      BY <2>2
    <3>3. /\ kept[i] \in Seq(Pieces) /\ Len(kept[i]) <= Len(parts[i])
          /\ Leads(f[i - 1] \o parts[i], r[i - 1] \o kept[i])
          /\ kept[i] # parts[i] => Len(kept[i]) < Len(parts[i])
      BY <2>1, <3>1, <3>2, PartAdded
    <3>4. QED BY <2>1, <3>3
  <2>4. /\ Len(f[i]) = Len(f[i - 1]) + Len(parts[i]) /\ Len(r[i]) = Len(r[i - 1]) + Len(kept[i])
        /\ Len(f[i - 1]) \in Nat /\ Len(r[i - 1]) \in Nat
        /\ Len(parts[i]) \in Nat /\ Len(kept[i]) \in Nat
    BY <2>1, <2>3, ConcatProperties, LenProperties
  <2>5. 1..i = 1..(i - 1) \cup {i}
    <3>1. n \in Nat
      BY <1>1
    <3>2. QED BY <3>1
  <2>6. parts[i] # << >> <=> Len(parts[i]) > 0
    BY <2>1, <2>4, EmptySeq
  <2>7. Inner(parts, i) => Some(i - 1) /\ Len(kept[i]) < Len(parts[i])
    <3> SUFFICES ASSUME Inner(parts, i) PROVE Some(i - 1) /\ Len(kept[i]) < Len(parts[i])
      OBVIOUS
    <3>1. Some(i - 1) /\ parts[i] # << >> /\ kept[i] = Tail(parts[i])
      BY <1>1 DEF Inner, Anchored, Follows
    <3>2. QED BY <2>1, <2>4, <2>6, <3>1, HeadTailProperties
  <2>8. ~Inner(parts, i) => kept[i] = parts[i]
    BY <1>1
  <2>9. Some(i) <=> Some(i - 1) \/ parts[i] # << >>
    BY <2>5
  <2> DEFINE f0 == Len(f[i - 1])
             f1 == Len(f[i])
             r0 == Len(r[i - 1])
             r1 == Len(r[i])
             p == Len(parts[i])
             q == Len(kept[i])
             Shorter(m) == \E j \in 1..m : Inner(parts, j)
  <2>a. /\ f0 \in Nat /\ r0 \in Nat /\ p \in Nat /\ q \in Nat /\ f1 = f0 + p /\ r1 = r0 + q
        /\ r0 <= f0 /\ q <= p /\ (Some(i - 1) <=> f0 > 0) /\ (f0 > 0 => r0 > 0)
        /\ (parts[i] # << >> <=> p > 0)
        /\ IF Shorter(i - 1) THEN r0 < f0 ELSE r[i - 1] = f[i - 1]
        /\ (Inner(parts, i) => Some(i - 1) /\ q < p)
        /\ (~Inner(parts, i) => kept[i] = parts[i] /\ q = p)
    BY <2>2, <2>3, <2>4, <2>6, <2>7, <2>8
  <2>b. Shorter(i) <=> Shorter(i - 1) \/ Inner(parts, i)
    BY <2>5
  <2> HIDE DEF Some, Shorter, f0, f1, r0, r1, p, q
  <2>10. r1 <= f1 /\ (Some(i) <=> f1 > 0)
    BY <2>9, <2>a
  <2>11. f1 > 0 => r1 > 0
    BY <2>a
  <2>12. IF Shorter(i) THEN r1 < f1 ELSE r[i] = f[i]
    <3>1. Shorter(i - 1) => r1 < f1
      BY <2>a
    <3>2. Inner(parts, i) => r1 < f1
      BY <2>a
    <3>3. ~Shorter(i - 1) /\ ~Inner(parts, i) => r[i] = f[i]
      BY <2>1, <2>a
    <3>4. QED BY <2>b, <3>1, <3>2, <3>3
  <2>13. QED BY <2>1, <2>3, <2>10, <2>11, <2>12 DEF Fits, Shorter, f1, r1
<1>6. P \in SUBSET (0..n)
  OBVIOUS
<1>7. Fits(n) /\ f[n] \in Seq(Pieces) /\ r[n] \in Seq(Pieces)
  <2> HIDE DEF P
  <2>1. P = 0..n
    BY <1>1, <1>4, <1>5, <1>6, Induction
  <2> HIDE DEF Fits
  <2>2. n \in 0..n
    BY <1>1
  <2>3. QED BY <2>1, <2>2 DEF P
<1>8. f[n] # << >> => r[n] # << >>
  <2>1. f[n] # << >> => Len(f[n]) > 0
    BY <1>7, EmptySeq, LenProperties
  <2>2. Len(r[n]) > 0 => r[n] # << >>
    OBVIOUS
  <2>3. QED BY <1>7, <2>1, <2>2
<1>9. QED BY <1>2, <1>3, <1>7, <1>8 DEF n

LEMMA KnownApart ==
  ASSUME NEW p \in Seq(Pieces), NEW q \in Seq(Pieces), Len(p) # Len(q)
  PROVE  Known(p) # Known(q)
<1>1. DOMAIN Known(p) = DOMAIN p /\ DOMAIN Known(q) = DOMAIN q
  BY DEF Known
<1>2. DOMAIN p = 1..Len(p) /\ DOMAIN q = 1..Len(q) /\ Len(p) \in Nat /\ Len(q) \in Nat
  BY LenProperties
<1>3. ASSUME NEW m \in Nat, NEW n \in Nat, 1..m = 1..n PROVE m = n
  <2>1. m <= n
    <3>1. CASE m = 0
      BY <3>1
    <3>2. CASE m # 0
      <4>1. m \in 1..m
        BY <3>2
      <4>2. m \in 1..n
        BY <1>3, <4>1
      <4>3. QED BY <4>2
    <3>3. QED BY <3>1, <3>2
  <2>2. n <= m
    <3>1. CASE n = 0
      BY <3>1
    <3>2. CASE n # 0
      <4>1. n \in 1..n
        BY <3>2
      <4>2. n \in 1..m
        BY <1>3, <4>1
      <4>3. QED BY <4>2
    <3>3. QED BY <3>1, <3>2
  <2>3. QED BY <2>1, <2>2
<1>4. QED BY <1>1, <1>2, <1>3

-----------------------------------------------------------------------------
(* What the rows and an ask are made of, in every state.                     *)
RowsOf(r) == IF framework = "flask" THEN FlaskRows(r) ELSE DjangoRows(r)
Routed ==
  /\ \/ framework = "flask" /\ app \in FlaskApps
     \/ framework = "django" /\ app \in DjangoApps
  /\ booted = "registered" => published = UNION {RowsOf(r) : r \in app}
  /\ asked # NoAsk =>
       /\ asked.route \in app
       /\ framework = "flask" =>
            /\ asked.method \in RuleMethods(asked.route) \ {"OPTIONS"}
            /\ ~asked.route.static
            /\ asked.path = FlaskRoutePath(asked.route, asked.matched)
       /\ framework = "django" =>
            /\ asked.route.readable
            /\ asked.route.methods = {} \/ asked.method \in asked.route.methods
            /\ asked.path = DjangoRoutePath(asked.route)

LEMMA RoutedInvariant == Spec => []Routed
<1>1. Init => Routed
  BY DEF Init, Routed
<1>2. Routed /\ [Next]_vars => Routed'
  <2> SUFFICES ASSUME Routed, [Next]_vars PROVE Routed'
    OBVIOUS
  <2>1. CASE Register
    BY <2>1 DEF Register, Routed, RowsOf
  <2>2. CASE RegistrationFails
    BY <2>2 DEF RegistrationFails, Routed, RowsOf
  <2>3. ASSUME NEW r \in app, NEW method \in Verbs, NEW matched \in BOOLEAN, FlaskAsks(r, method, matched)
        PROVE  Routed'
    BY <2>3 DEF FlaskAsks, Ask, Routed, RowsOf
  <2>4. ASSUME NEW r \in app, NEW method \in Verbs, DjangoAsks(r, method)
        PROVE  Routed'
    BY <2>4 DEF DjangoAsks, Ask, Routed, RowsOf
  <2>5. CASE UNCHANGED vars
    BY <2>5 DEF vars, Routed, RowsOf
  <2>6. QED BY <2>1, <2>2, <2>3, <2>4, <2>5 DEF Next
<1>3. QED BY <1>1, <1>2, PTL DEF Spec

LEMMA FlaskMeets ==
  ASSUME Routed, framework = "flask", booted = "registered", asked # NoAsk, asked.matched
  PROVE  AskedIsPublished
<1> DEFINE r == asked.route
           lists == IF \E k \in ToSet(r.versions) : k # << >> THEN r.versions ELSE r.forwards
<1>1. /\ app \in FlaskApps /\ r \in app /\ ~r.static
      /\ asked.method \in RuleMethods(r) \ {"OPTIONS"}
      /\ asked.path = NormalizeRoutePattern(r.rule)
      /\ published = UNION {FlaskRows(s) : s \in app}
  BY DEF Routed, RowsOf, FlaskRoutePath
<1>2. /\ r.rule \in Seq(Pieces) /\ Len(r.rule) > 0 /\ r.rule[1] = Slash
      /\ r.versions \in Seq(Seq(Versions)) /\ r.forwards = << >>
  BY <1>1, RouteAssumption
<1>3. /\ Rooted(r.rule) \in Seq(Pieces)
      /\ Canonical(asked.path) = Known(Rooted(r.rule))
      /\ Canonical(FlaskPath(r.rule)) = Known(r.rule)
  BY <1>1, <1>2, AskedPath
<1>4. ASSUME Unpublished(r, asked.method), NEW row \in Finds(asked)
      PROVE  \E s \in app \ {r} : row \in FlaskRows(s) \cup DjangoRows(s)
  <2>1. row \in published /\ Canonical(row.path) = Canonical(asked.path) /\ row.http_method = asked.method
    BY <1>4 DEF Finds
  <2>2. PICK s \in app : row \in FlaskRows(s)
    BY <1>1, <2>1
  <2>3. s # r
    <3> SUFFICES ASSUME s = r PROVE FALSE
      OBVIOUS
    <3>1. PICK m \in RuleMethods(r) \ {"HEAD", "OPTIONS"} :
            row = Row(FlaskPath(r.rule), m, Merged(r.versions))
      BY <1>1, <2>2 DEF FlaskRows
    <3>2. row.path = FlaskPath(r.rule) /\ row.http_method = m
      BY <3>1 DEF Row
    <3>3. Len(r.rule) > 1 /\ r.rule[2] = Slash
      BY <1>4, <2>1, <3>1, <3>2 DEF Unpublished
    <3>4. Len(Rooted(r.rule)) < Len(r.rule)
      BY <1>2, <3>3, RootedAlready
    <3>5. Len(Rooted(r.rule)) # Len(r.rule)
      BY <1>2, <1>3, <3>4, LenProperties
    <3>6. QED BY <1>2, <1>3, <2>1, <3>2, <3>5, KnownApart
  <2>4. QED BY <2>2, <2>3
<1>5. ASSUME ~Unpublished(r, asked.method)
      PROVE  \E row \in Finds(asked) : ToSet(row.endpoint_versions) = UNION {ToSet(l) : l \in ToSet(lists)}
  <2> DEFINE row == Row(FlaskPath(r.rule), asked.method, Merged(r.versions))
  <2>1. asked.method # "HEAD" /\ ~(Len(r.rule) > 1 /\ r.rule[2] = Slash)
    BY <1>5 DEF Unpublished
  <2>2. Rooted(r.rule) = r.rule
    BY <1>2, <2>1, RootedAlready
  <2>3. row.path = FlaskPath(r.rule) /\ row.http_method = asked.method /\ row.endpoint_versions = Merged(r.versions)
    BY DEF Row
  <2>4. row \in published
    <3>1. row \in FlaskRows(r)
      BY <1>1, <2>1 DEF FlaskRows
    <3>2. QED BY <1>1, <3>1
  <2> HIDE DEF row
  <2>5. row \in Finds(asked)
    BY <1>3, <2>2, <2>3, <2>4 DEF Finds
  <2>6. ToSet(Merged(r.versions)) = UNION {ToSet(l) : l \in ToSet(lists)}
    <3>1. ToSet(Merged(r.versions)) = UNION {ToSet(l) : l \in ToSet(r.versions)}
      BY <1>2, MergedVersions
    <3>2. CASE \E k \in ToSet(r.versions) : k # << >>
      BY <3>1, <3>2
    <3>3. CASE ~\E k \in ToSet(r.versions) : k # << >>
      <4>1. lists = << >>
        BY <1>2, <3>3
      <4>2. UNION {ToSet(l) : l \in ToSet(lists)} = {}
        BY <4>1, SetOfEmpty
      <4>3. UNION {ToSet(l) : l \in ToSet(r.versions)} = {}
        BY <3>3, SetOfEmpty
      <4>4. QED BY <3>1, <4>2, <4>3
    <3>4. QED BY <3>2, <3>3
  <2>7. QED BY <2>3, <2>5, <2>6
<1> HIDE DEF lists
<1>6. QED BY <1>4, <1>5 DEF AskedIsPublished, lists

LEMMA DjangoMeets ==
  ASSUME Routed, framework = "django", booted = "registered", asked # NoAsk, asked.matched
  PROVE  AskedIsPublished
<1> DEFINE r == asked.route
           path == FlattenSeq(r.parts)
           route == RouteOf(r.parts)
           served == IF r.methods = {} THEN {"GET"} ELSE r.methods
           lists == IF \E k \in ToSet(r.versions) : k # << >> THEN r.versions ELSE r.forwards
<1>1. /\ app \in DjangoApps /\ r \in app /\ r.readable
      /\ r.methods = {} \/ asked.method \in r.methods
      /\ asked.path = DjangoRoutePath(r)
      /\ published = UNION {DjangoRows(s) : s \in app}
  BY DEF Routed, RowsOf
<1>2. /\ r.parts \in Seq(Seq(Pieces)) /\ DOMAIN r.parts = 1..Len(r.parts)
      /\ r.versions \in Seq(Seq(Versions)) /\ r.forwards \in Seq(Seq(Versions))
  BY <1>1, RouteAssumption, LenProperties
<1>3. /\ path \in Seq(Pieces) /\ route \in Seq(Pieces) /\ (path # << >> => route # << >>)
      /\ IF \E i \in 1..Len(r.parts) : Inner(r.parts, i)
         THEN Len(route) < Len(path) /\ Leads(path, route) ELSE route = path
  BY <1>2, RouteOfPattern
<1> HIDE DEF path, route
<1>4. /\ Rooted(path) \in Seq(Pieces) /\ Rooted(route) \in Seq(Pieces)
      /\ Canonical(DjangoPath(path)) = Known(Rooted(path))
      /\ Canonical(NormalizeRoutePattern(route)) = Known(Rooted(route))
  BY <1>3, AskedPath
<1>5. Published(r) => Canonical(asked.path) = Known(Rooted(route))
  BY <1>1, <1>3, <1>4 DEF Published, DjangoRoutePath, path, route
<1>6. (\E i \in DOMAIN r.parts : Anchored(r.parts[i]) /\ Follows(r.parts, i))
        <=> \E i \in 1..Len(r.parts) : Inner(r.parts, i)
  BY <1>2 DEF Inner
<1>7. Published(r) => DjangoRows(r) = {Row(DjangoPath(path), m, DeclaredVersions(r)) : m \in served}
  BY DEF DjangoRows, path
<1>8. ASSUME Unpublished(r, asked.method), NEW row \in Finds(asked)
      PROVE  \E s \in app \ {r} : row \in FlaskRows(s) \cup DjangoRows(s)
  <2>1. row \in published /\ Canonical(row.path) = Canonical(asked.path) /\ row.http_method = asked.method
    BY <1>8 DEF Finds
  <2>2. PICK s \in app : row \in DjangoRows(s)
    BY <1>1, <2>1
  <2>3. s # r
    <3> SUFFICES ASSUME s = r PROVE FALSE
      OBVIOUS
    <3>1. Published(r)
      BY <2>2 DEF DjangoRows
    <3>2. PICK m \in served : row = Row(DjangoPath(path), m, DeclaredVersions(r))
      BY <1>7, <2>2, <3>1
    <3>3. row.path = DjangoPath(path) /\ row.http_method = m
      BY <3>2 DEF Row
    <3>4. \E i \in 1..Len(r.parts) : Inner(r.parts, i)
      BY <1>6, <1>8, <2>1, <3>1, <3>2, <3>3 DEF Unpublished
    <3>5. Len(Rooted(route)) < Len(Rooted(path))
      BY <1>3, <3>4, RootedLonger
    <3>6. Len(Rooted(route)) # Len(Rooted(path))
      BY <1>4, <3>5, LenProperties
    <3>7. QED BY <1>4, <1>5, <2>1, <3>1, <3>3, <3>6, KnownApart
  <2>4. QED BY <2>2, <2>3
<1>9. ASSUME ~Unpublished(r, asked.method)
      PROVE  \E row \in Finds(asked) : ToSet(row.endpoint_versions) = UNION {ToSet(l) : l \in ToSet(lists)}
  <2> DEFINE row == Row(DjangoPath(path), asked.method, DeclaredVersions(r))
  <2>1. /\ Published(r) /\ asked.method \in served
        /\ ~\E i \in 1..Len(r.parts) : Inner(r.parts, i)
    BY <1>1, <1>6, <1>9 DEF Unpublished
  <2>2. Canonical(asked.path) = Known(Rooted(path))
    BY <1>3, <1>5, <2>1
  <2>3. row.path = DjangoPath(path) /\ row.http_method = asked.method /\ row.endpoint_versions = DeclaredVersions(r)
    BY DEF Row
  <2>4. row \in published
    BY <1>1, <1>7, <2>1
  <2> HIDE DEF row
  <2>5. row \in Finds(asked)
    BY <1>4, <2>2, <2>3, <2>4 DEF Finds
  <2>6. ToSet(DeclaredVersions(r)) = UNION {ToSet(l) : l \in ToSet(lists)}
    BY <1>2, MergedVersions DEF DeclaredVersions
  <2>7. QED BY <2>3, <2>5, <2>6
<1> HIDE DEF lists
<1>10. QED BY <1>8, <1>9 DEF AskedIsPublished, lists

(* A view that is asked for by its own route finds a row with every version  *)
(* it declares, or none of its own where the code publishes none: registrar  *)
(* and decorators spell paths apart and meet (commands/route_path.py:20-24). *)
THEOREM AsksMeetRows == Spec => []AskedIsPublished
<1>1. Routed => AskedIsPublished
  <2>1. Routed => framework = "flask" \/ framework = "django"
    BY DEF Routed
  <2>2. ~(booted = "registered" /\ asked # NoAsk /\ asked.matched) => AskedIsPublished
    BY DEF AskedIsPublished
  <2>3. QED BY <2>1, <2>2, FlaskMeets, DjangoMeets
<1>2. QED BY <1>1, RoutedInvariant, PTL

-----------------------------------------------------------------------------
(* The last hop that says something, if any does. *)
LEMMA LastSaid ==
  ASSUME NEW S, NEW hops \in Seq(S)
  PROVE  /\ \A i \in DOMAIN hops : Ends(hops, i) => LastHop(hops) = hops[i]
         /\ LastHop(hops) = None \/ \E i \in DOMAIN hops : Ends(hops, i)
<1> DEFINE n == Len(hops)
           said == {i \in DOMAIN hops : hops[i] # Blank}
<1>1. n \in Nat /\ DOMAIN hops = 1..n
  BY LenProperties
<1>2. said = {} => LastHop(hops) = None
  BY DEF LastHop
<1>3. said # {} => LastHop(hops) = hops[Max(said)]
  BY DEF LastHop
<1>4. \A i \in 1..n : Ends(hops, i) <=> i \in said /\ \A j \in said : j <= i
  <2> SUFFICES ASSUME NEW i \in 1..n
               PROVE  Ends(hops, i) <=> i \in said /\ \A j \in said : j <= i
    OBVIOUS
  <2>1. \A j \in 1..n : j <= i \/ j \in (i + 1)..n
    BY <1>1
  <2>2. \A j \in (i + 1)..n : j \in 1..n /\ ~(j <= i)
    BY <1>1
  <2>3. QED BY <1>1, <2>1, <2>2 DEF Ends
<1>5. said \subseteq 1..n
  BY <1>1
<1> HIDE DEF said, n
<1>6. ASSUME NEW i \in 1..n, i \in said, \A j \in said : j <= i
      PROVE  Max(said) = i
  <2>1. \A j \in said : i >= j
    BY <1>5, <1>6
  <2>2. Max(said) \in said /\ \A j \in said : Max(said) >= j
    BY <1>6, <2>1 DEF Max
  <2>3. Max(said) \in 1..n /\ Max(said) <= i /\ Max(said) >= i
    BY <1>5, <1>6, <2>2
  <2>4. QED BY <1>1, <2>3
<1>7. said # {} => \E i \in 1..n : i \in said /\ \A j \in said : j <= i
  <2> SUFFICES ASSUME said # {} PROVE \E i \in 1..n : i \in said /\ \A j \in said : j <= i
    OBVIOUS
  <2> DEFINE below == {n - i : i \in said}
  <2>1. below \in SUBSET Nat /\ below # {}
    <3>1. \A i \in said : n - i \in Nat
      BY <1>1, <1>5
    <3>2. QED BY <3>1
  <2>2. PICK d \in below : \A c \in below : d <= c
    <3> HIDE DEF below
    <3>1. QED BY <2>1, Least
  <2>3. PICK i \in said : d = n - i
    BY <2>2
  <2>4. \A j \in said : n - i <= n - j
    BY <2>2, <2>3
  <2>5. QED BY <1>1, <1>5, <2>3, <2>4
<1>8. QED BY <1>1, <1>2, <1>3, <1>4, <1>6, <1>7

(* Resolve, once it has what was forwarded. *)
Resolved(proto, fport, from, e) ==
  LET proxied == proto # None \/ fport # None
      scheme  == Or(proto, IF proxied THEN None ELSE CleanScheme(e.scheme))
      port    == Or(Or(fport, from.port), IF proxied THEN None ELSE e.server_port)
  IN [scheme |-> scheme, host |-> CleanHost(from.host),
      port |-> IF scheme = None THEN None ELSE CleanPort(port, scheme)]
From(fwd, e) == IF CleanHost(fwd.host) # None THEN fwd ELSE HostAuthority(e)

LEMMA ResolveUnfolds ==
  ASSUME NEW e, NEW trust
  PROVE  Resolve(e, trust) =
           Resolved(IF trust THEN CleanScheme(LastHop(e.fwd_proto)) ELSE None,
                    IF trust THEN ValidPort(LastHop(e.fwd_port)) ELSE None,
                    From(IF trust THEN Authority(LastHop(e.fwd_host)) ELSE NoAuthority, e), e)
BY DEF Resolve, Resolved, From

LEMMA NoHops == LastHop(<< >>) = None
BY DEF LastHop

(* What a header is evidence of, it is with the rest left out. *)
LEMMA ProtoEvidence ==
  ASSUME ProperConstants, NEW S, NEW hops \in Seq(S), NEW trust \in BOOLEAN
  PROVE  LET kept == IF trust /\ UsableProto(hops) THEN hops ELSE << >> IN
         /\ CleanScheme(LastHop(kept)) = IF trust THEN CleanScheme(LastHop(hops)) ELSE None
         /\ kept # << >> => CleanScheme(LastHop(kept)) # None
<1>1. CASE UsableProto(hops)
  <2>1. LastHop(hops) \in DOMAIN CleanSchemes
    BY <1>1, LastSaid DEF UsableProto
  <2>2. CleanScheme(LastHop(hops)) # None
    BY <2>1 DEF CleanScheme, ProperConstants
  <2>3. CleanScheme(None) = None
    BY DEF CleanScheme, ProperConstants
  <2>4. CASE trust
    BY <1>1, <2>2, <2>4
  <2>5. CASE ~trust
    BY <2>3, <2>5, NoHops
  <2>6. QED BY <2>4, <2>5
<1>2. CASE ~UsableProto(hops)
  <2>1. LastHop(hops) \notin DOMAIN CleanSchemes
    BY <1>2, LastSaid DEF UsableProto, ProperConstants
  <2>2. CleanScheme(LastHop(hops)) = None /\ CleanScheme(None) = None
    BY <2>1 DEF CleanScheme, ProperConstants
  <2>3. QED BY <1>2, <2>2, NoHops
<1>3. QED BY <1>1, <1>2

LEMMA PortEvidence ==
  ASSUME ProperConstants, NEW S, NEW hops \in Seq(S), NEW trust \in BOOLEAN
  PROVE  LET kept == IF trust /\ UsablePort(hops) THEN hops ELSE << >> IN
         /\ ValidPort(LastHop(kept)) = IF trust THEN ValidPort(LastHop(hops)) ELSE None
         /\ kept # << >> => ValidPort(LastHop(kept)) # None
<1>0. /\ ValidPort(None) = None
      /\ \A p \in Ports : p \notin {None, Blank, Garbled}
  <2>1. Ports \subseteq Int
    BY DEF Ports
  <2>2. QED BY <2>1 DEF ValidPort, IsNumber, ProperConstants
<1>1. CASE UsablePort(hops)
  <2>1. LastHop(hops) \in Ports
    BY <1>1, LastSaid DEF UsablePort
  <2>2. ValidPort(LastHop(hops)) = LastHop(hops) /\ LastHop(hops) # None
    BY <1>0, <2>1 DEF ValidPort, IsNumber
  <2>3. CASE trust
    BY <1>1, <2>2, <2>3
  <2>4. CASE ~trust
    BY <1>0, <2>4, NoHops
  <2>5. QED BY <2>3, <2>4
<1>2. CASE ~UsablePort(hops)
  <2>1. ~(LastHop(hops) # Garbled /\ LastHop(hops) \in Ports)
    BY <1>0, <1>2, LastSaid DEF UsablePort
  <2>2. ValidPort(LastHop(hops)) = None
    BY <2>1 DEF ValidPort, IsNumber
  <2>3. QED BY <1>0, <1>2, <2>2, NoHops
<1>3. QED BY <1>1, <1>2

LEMMA HostEvidence ==
  ASSUME ProperConstants, NEW S, NEW hops \in Seq(S), NEW trust \in BOOLEAN, NEW e
  PROVE  LET kept == IF trust /\ UsableHost(hops) THEN hops ELSE << >> IN
         From(Authority(LastHop(kept)), e) =
           From(IF trust THEN Authority(LastHop(hops)) ELSE NoAuthority, e)
<1>0. /\ CleanHost(None) = None /\ NoAuthority.host = None
      /\ Authority(None) = NoAuthority
  BY DEF CleanHost, NoAuthority, Authority, ProperConstants
<1>1. From(NoAuthority, e) = HostAuthority(e)
  BY <1>0 DEF From
<1>2. CASE trust /\ UsableHost(hops)
  BY <1>2
<1>3. CASE ~trust
  BY <1>0, <1>3, NoHops
<1>4. CASE trust /\ ~UsableHost(hops)
  <2>1. CleanHost(Authority(LastHop(hops)).host) = None
    <3>1. CASE LastHop(hops) \in {None, Blank}
      BY <1>0, <3>1 DEF Authority
    <3>2. CASE LastHop(hops) \notin {None, Blank}
      <4>1. LastHop(hops).host \notin DOMAIN CleanHosts
        BY <1>4, <3>2, LastSaid DEF UsableHost
      <4>2. QED BY <3>2, <4>1 DEF Authority, CleanHost
    <3>3. QED BY <3>1, <3>2
  <2>2. From(Authority(LastHop(hops)), e) = HostAuthority(e)
    BY <2>1 DEF From
  <2>3. QED BY <1>0, <1>1, <1>4, <2>2, NoHops
<1>5. QED BY <1>2, <1>3, <1>4

LEMMA ConnectionUnused ==
  ASSUME NEW proto, NEW fport, NEW from, NEW e, NEW f, proto # None \/ fport # None
  PROVE  Resolved(proto, fport, from, e) = Resolved(proto, fport, from, f)
BY DEF Resolved

LEMMA SameConnection ==
  ASSUME NEW proto, NEW fport, NEW from, NEW e, NEW f,
         e.scheme = f.scheme, e.server_port = f.server_port
  PROVE  Resolved(proto, fport, from, e) = Resolved(proto, fport, from, f)
BY DEF Resolved

LEMMA PortShown ==
  ASSUME NEW proto, NEW fport, NEW from, NEW e, NEW url, url = Resolved(proto, fport, from, e),
         url.port # None
  PROVE  url.scheme # None /\ <<url.scheme, url.port>> \notin {<<"http", 80>>, <<"https", 443>>}
<1>1. PICK port : url.scheme # None /\ url.port = CleanPort(port, url.scheme)
  BY DEF Resolved
<1>2. url.port = ValidPort(port) /\ ~(url.scheme \in DOMAIN DefaultPort /\ DefaultPort[url.scheme] = url.port)
  BY <1>1 DEF CleanPort
<1>3. /\ "http" \in DOMAIN DefaultPort /\ DefaultPort["http"] = 80
      /\ "https" \in DOMAIN DefaultPort /\ DefaultPort["https"] = 443
  BY DEF DefaultPort
<1>4. QED BY <1>1, <1>2, <1>3

(* Whatever a request's headers and whether proxies are trusted, its URL is  *)
(* resolved from what base_url.py:27-43 calls evidence: an unusable last hop *)
(* changes nothing, the connection is not mixed with what a proxy said, and  *)
(* a port that is shown is one the scheme does not imply.                    *)
THEOREM ReportedFromEvidence ==
  ASSUME ProperConstants, NEW S, NEW trust \in BOOLEAN,
         NEW environ \in [fwd_proto : Seq(S), fwd_host : Seq(S), fwd_port : Seq(S), host : S,
                          server_name : S, scheme : S, server_port : S]
  PROVE  Evidenced(environ, trust, Resolve(environ, trust))
<1> DEFINE e == Evidence(environ, trust)
           f == [e EXCEPT !.scheme = None, !.server_port = None]
           proto == IF trust THEN CleanScheme(LastHop(environ.fwd_proto)) ELSE None
           fport == IF trust THEN ValidPort(LastHop(environ.fwd_port)) ELSE None
           fwd   == IF trust THEN Authority(LastHop(environ.fwd_host)) ELSE NoAuthority
<1>1. /\ e.fwd_proto = (IF trust /\ UsableProto(environ.fwd_proto) THEN environ.fwd_proto ELSE << >>)
      /\ e.fwd_port = (IF trust /\ UsablePort(environ.fwd_port) THEN environ.fwd_port ELSE << >>)
      /\ e.fwd_host = (IF trust /\ UsableHost(environ.fwd_host) THEN environ.fwd_host ELSE << >>)
      /\ e.host = environ.host /\ e.server_name = environ.server_name
      /\ e.scheme = environ.scheme /\ e.server_port = environ.server_port
  BY DEF Evidence
<1>2. /\ f.fwd_proto = e.fwd_proto /\ f.fwd_port = e.fwd_port /\ f.fwd_host = e.fwd_host
      /\ f.host = e.host /\ f.server_name = e.server_name
  BY DEF Evidence
<1> HIDE DEF e, f
<1>3. /\ CleanScheme(LastHop(e.fwd_proto)) = proto
      /\ e.fwd_proto # << >> => proto # None
  BY <1>1, ProtoEvidence
<1>4. /\ ValidPort(LastHop(e.fwd_port)) = fport
      /\ e.fwd_port # << >> => fport # None
  BY <1>1, PortEvidence
<1>5. From(Authority(LastHop(e.fwd_host)), environ) = From(fwd, environ)
  BY <1>1, HostEvidence
<1> HIDE DEF proto, fport, fwd
<1>6. \A x : From(x, e) = From(x, environ) /\ From(x, f) = From(x, environ)
  BY <1>1, <1>2 DEF From, HostAuthority
<1>7. Resolve(environ, trust) = Resolved(proto, fport, From(fwd, environ), environ)
  BY ResolveUnfolds DEF proto, fport, fwd
<1>8. Resolve(e, TRUE) = Resolved(proto, fport, From(fwd, environ), e)
  BY <1>3, <1>4, <1>5, <1>6, ResolveUnfolds
<1>9. Resolve(f, TRUE) = Resolved(proto, fport, From(fwd, environ), f)
  BY <1>2, <1>3, <1>4, <1>5, <1>6, ResolveUnfolds
<1>10. Resolve(environ, trust) = Resolve(e, TRUE)
  BY <1>1, <1>7, <1>8, SameConnection
<1>11. e.fwd_proto # << >> \/ e.fwd_port # << >> => Resolve(environ, trust) = Resolve(f, TRUE)
  BY <1>3, <1>4, <1>7, <1>9, ConnectionUnused
<1>12. Resolve(environ, trust).port # None =>
         /\ Resolve(environ, trust).scheme # None
         /\ <<Resolve(environ, trust).scheme, Resolve(environ, trust).port>>
              \notin {<<"http", 80>>, <<"https", 443>>}
  BY <1>7, PortShown
<1>13. QED BY <1>10, <1>11, <1>12 DEF Evidenced, e, f
=============================================================================
