--------------------------- MODULE PathPolicyProofs ---------------------------
(***************************************************************************)
(* Proofs about the path guards: for paths of any length and any           *)
(* allowlists, what passes them leads to an allowed place, and what they   *)
(* forbid does not.                                                        *)
(***************************************************************************)
EXTENDS PathPolicy, SequenceTheorems, WellFoundedInduction, TLAPS

-----------------------------------------------------------------------------
(* Induction. The library's induction theorems speak of any predicate,     *)
(* which the provers cannot instantiate; this one speaks of any set. It    *)
(* follows from the theorem that well-founded sets have minimal elements.  *)

Below == {ss \in Nat \X Nat : ss[1] < ss[2]}

\* The order of the naturals is well founded.
LEMMA BelowWellFounded == IsWellFoundedOn(Below, Nat)
  BY NatLessThanWellFounded DEF OpToRel, Below

\* A set that contains 0 and is closed under successors contains every natural:
\* the least number outside of it would be the successor of one inside.
LEMMA Induction ==
  ASSUME NEW S, 0 \in S, \A n \in Nat : n \in S => n + 1 \in S
  PROVE  \A n \in Nat : n \in S
<1> DEFINE Outside == Nat \ S
<1>1. SUFFICES ASSUME Outside # {} PROVE FALSE
  OBVIOUS
<1>2. PICK n \in Outside : \A m \in Outside : <<m, n>> \notin Below
  <2>1. Outside \subseteq Nat
    OBVIOUS
  <2> HIDE DEF Outside
  <2>2. QED
    BY <1>1, <2>1, BelowWellFounded, WFMin
<1>3. n # 0 /\ n - 1 \in Outside
  OBVIOUS
<1>4. <<n - 1, n>> \in Below
  BY <1>3 DEF Below
<1>5. QED
  BY <1>2, <1>3, <1>4

-----------------------------------------------------------------------------
(* path.Clean.                                                             *)

\* A walk along a path exists, so that the recursion defines it.
LEMMA WalkRecursion ==
  ASSUME NEW p \in Seq(Segments)
  PROVE  /\ Walk(p)[0] = <<>>
         /\ \A i \in 1..Len(p) : Walk(p)[i] = CleanSegment(Walk(p)[i - 1], p[i])
<1> DEFINE IsWalk(w, n) == w = [i \in 0..n |-> IF i = 0 THEN <<>> ELSE CleanSegment(w[i - 1], p[i])]
           Walked == {n \in Nat : \E w : IsWalk(w, n)}
<1>1. Len(p) \in Nat
  OBVIOUS
<1>2. 0 \in Walked
  <2>1. IsWalk([i \in 0..0 |-> <<>>], 0)
    OBVIOUS
  <2>2. QED
    BY <2>1
<1>3. \A n \in Nat : n \in Walked => n + 1 \in Walked
  <2> SUFFICES ASSUME NEW n \in Nat, n \in Walked PROVE n + 1 \in Walked
    OBVIOUS
  <2>1. PICK w : IsWalk(w, n)
    OBVIOUS
  <2> DEFINE v == [i \in 0..(n + 1) |-> IF i <= n THEN w[i] ELSE CleanSegment(w[n], p[n + 1])]
  <2>2. \A i \in 0..(n + 1) : v[i] = IF i = 0 THEN <<>> ELSE CleanSegment(v[i - 1], p[i])
    <3> SUFFICES ASSUME NEW i \in 0..(n + 1)
                 PROVE  v[i] = IF i = 0 THEN <<>> ELSE CleanSegment(v[i - 1], p[i])
      OBVIOUS
    <3>1. CASE i = 0
      BY <2>1, <3>1
    <3>2. CASE i \in 1..n
      <4>1. v[i] = w[i] /\ v[i - 1] = w[i - 1]
        BY <3>2
      <4>2. w[i] = CleanSegment(w[i - 1], p[i])
        BY <2>1, <3>2
      <4>3. QED
        BY <3>2, <4>1, <4>2
    <3>3. CASE i = n + 1
      BY <3>3
    <3>4. QED
      BY <3>1, <3>2, <3>3
  <2>3. IsWalk(v, n + 1)
    BY <2>2
  <2>4. n + 1 \in Nat
    OBVIOUS
  <2> HIDE DEF IsWalk
  <2>5. QED
    BY <2>3, <2>4
<1>4. Len(p) \in Walked
  <2> HIDE DEF Walked
  <2>1. QED
    BY <1>1, <1>2, <1>3, Induction
<1>5. \E w : IsWalk(w, Len(p))
  BY <1>4
<1>6. Walk(p) = CHOOSE w : IsWalk(w, Len(p))
  BY DEF Walk
<1>7. IsWalk(Walk(p), Len(p))
  <2> HIDE DEF IsWalk
  <2>1. QED
    BY <1>5, <1>6
<1>8. QED
  BY <1>1, <1>7

\* A number that is not zero has a predecessor.
LEMMA Predecessor ==
  \A n \in Nat \ {0} : n \in 1..n /\ n - 1 \in Nat /\ n - 1 <= n /\ n - 1 <= n - 1
  OBVIOUS

\* A prefix agrees with the whole wherever it is defined.
LEMMA PrefixElements ==
  ASSUME NEW S, NEW s \in Seq(S), NEW t \in Seq(S)
  PROVE  IsPrefix(s, t) <=> Len(s) <= Len(t) /\ \A i \in 1..Len(s) : s[i] = t[i]
  BY DEF IsPrefix

\* All but the last element.
LEMMA FrontElements ==
  ASSUME NEW S, NEW s \in Seq(S), s # <<>>
  PROVE  /\ Front(s) \in Seq(S)
         /\ Len(Front(s)) = Len(s) - 1
         /\ \A i \in 1..(Len(s) - 1) : Front(s)[i] = s[i]
<1>1. Len(s) \in Nat \ {0} /\ \A i \in 1..(Len(s) - 1) : s[i] \in S
  BY EmptySeq, ElementOfSeq
<1>2. Front(s) = SubSeq(s, 1, Len(s) - 1)
  BY DEF Front
<1> DEFINE n == Len(s) - 1
<1>3. n \in Nat /\ n \in Int /\ 1 \in Int
  BY <1>1
<1>4. /\ SubSeq(s, 1, n) \in Seq(S)
      /\ Len(SubSeq(s, 1, n)) = IF 1 <= n THEN n - 1 + 1 ELSE 0
      /\ \A i \in 1..(n - 1 + 1) : SubSeq(s, 1, n)[i] = s[1 + i - 1]
  <2> HIDE DEF n
  <2>1. \A i \in 1..n : s[i] \in S
    BY <1>1 DEF n
  <2>2. QED
    BY <1>3, <2>1, SubSeqProperties
<1>5. Len(SubSeq(s, 1, n)) = n
  <2> HIDE DEF n
  <2>1. n = IF 1 <= n THEN n - 1 + 1 ELSE 0
    BY <1>3
  <2>2. QED
    BY <1>4, <2>1
<1>6. \A i \in 1..n : SubSeq(s, 1, n)[i] = s[i]
  <2> HIDE DEF n
  <2>1. n - 1 + 1 = n /\ \A i \in 1..n : 1 + i - 1 = i
    BY <1>3
  <2>2. QED
    BY <1>4, <2>1
<1>7. QED
  BY <1>2, <1>4, <1>5, <1>6

\* A sequence is a prefix of itself.
LEMMA PrefixReflexive ==
  ASSUME NEW S, NEW s \in Seq(S)
  PROVE  IsPrefix(s, s)
<1>1. Len(s) \in Nat
  BY LenProperties
<1>2. Len(s) <= Len(s)
  BY <1>1
<1>3. QED
  BY <1>2, PrefixElements

\* The empty sequence is a prefix of any.
LEMMA EmptyIsPrefix ==
  ASSUME NEW S, NEW s \in Seq(S)
  PROVE  IsPrefix(<<>>, s)
<1>1. <<>> \in Seq(S) /\ Len(<<>>) = 0
  BY EmptySeq
<1>2. Len(s) \in Nat /\ 0 <= Len(s)
  BY LenProperties
<1>3. \A i \in 1..0 : <<>>[i] = s[i]
  OBVIOUS
<1>4. QED
  BY <1>1, <1>2, <1>3, PrefixElements, Zenon

\* What a sequence's elements belong to, it is a sequence of.
LEMMA SeqOfElements ==
  ASSUME NEW S, NEW T, NEW s \in Seq(S), \A i \in 1..Len(s) : s[i] \in T
  PROVE  s \in Seq(T)
<1>1. Len(s) \in Nat /\ Len(s) \in Int /\ 1 \in Int
  BY LenProperties
<1>2. SubSeq(s, 1, Len(s)) \in Seq(T)
  BY <1>1, SubSeqProperties
<1>3. QED
  BY <1>2, SubSeqFull

\* A path is a nonempty sequence of segments.
LEMMA PathIsSeq ==
  ASSUME NEW p \in Paths
  PROVE  p \in Seq(Segments) /\ Len(p) \in Nat \ {0} /\ \A i \in 1..Len(p) : p[i] \in Segments
<1>1. p \in Seq(Segments) /\ p # <<>>
  BY DEF Paths, BoundedSeq, SeqOf
<1>2. QED
  BY <1>1, EmptySeq, ElementOfSeq

\* A step of path.Clean keeps to ordinary segments.
LEMMA CleanSegmentPlain ==
  ASSUME NEW s \in Seq(Names), NEW seg \in Segments
  PROVE  CleanSegment(s, seg) \in Seq(Names)
<1>1. s # <<>> => Front(s) \in Seq(Names)
  BY FrontElements
<1>2. seg \in Names => Append(s, seg) \in Seq(Names)
  BY AppendProperties
<1>3. seg \in Names \/ seg \in {"", ".", ".."}
  BY DEF Segments
<1>4. <<>> \in Seq(Names)
  BY EmptySeq
<1>5. QED
  BY <1>1, <1>2, <1>3, <1>4 DEF CleanSegment

\* No dot segment and no empty one survives: a walk comes by plain places only.
LEMMA WalkPlain ==
  ASSUME NEW p \in Seq(Segments), NEW n \in 0..Len(p)
  PROVE  Walk(p)[n] \in Seq(Names)
<1> DEFINE Plain == {i \in Nat : i <= Len(p) => Walk(p)[i] \in Seq(Names)}
<1>1. 0 \in Plain
  BY WalkRecursion, EmptySeq
<1>2. \A i \in Nat : i \in Plain => i + 1 \in Plain
  <2> SUFFICES ASSUME NEW i \in Nat, i \in Plain, i + 1 <= Len(p) PROVE Walk(p)[i + 1] \in Seq(Names)
    OBVIOUS
  <2>1. i + 1 \in 1..Len(p) /\ (i + 1) - 1 = i
    OBVIOUS
  <2>2. Walk(p)[i + 1] = CleanSegment(Walk(p)[i], p[i + 1])
    BY <2>1, WalkRecursion
  <2>3. Walk(p)[i] \in Seq(Names) /\ p[i + 1] \in Segments
    BY <2>1, ElementOfSeq
  <2>4. QED
    BY <2>2, <2>3, CleanSegmentPlain
<1>3. n \in Nat /\ n <= Len(p)
  OBVIOUS
<1>4. n \in Plain
  <2> HIDE DEF Plain
  <2>1. QED
    BY <1>1, <1>2, <1>3, Induction
<1>5. QED
  BY <1>3, <1>4

\* A walk along ordinary segments is the path itself.
LEMMA PlainResolves ==
  ASSUME NEW p \in Seq(Names)
  PROVE  Resolve(p) = p
<1>1. p \in Seq(Segments) /\ Len(p) \in Nat
  <2>1. Names \subseteq Segments
    BY DEF Segments
  <2>2. QED
    BY <2>1, SeqMonotonic, LenProperties
<1> DEFINE Kept == {i \in Nat : i <= Len(p) => Walk(p)[i] = SubSeq(p, 1, i)}
<1>2. 0 \in Kept
  <2>1. SubSeq(p, 1, 0) = <<>>
    BY SubSeqEmpty
  <2>2. QED
    BY <1>1, <2>1, WalkRecursion
<1>3. \A i \in Nat : i \in Kept => i + 1 \in Kept
  <2> SUFFICES ASSUME NEW i \in Nat, i \in Kept, i + 1 <= Len(p)
               PROVE  Walk(p)[i + 1] = SubSeq(p, 1, i + 1)
    OBVIOUS
  <2>1. i + 1 \in 1..Len(p) /\ (i + 1) - 1 = i /\ i <= Len(p)
    BY <1>1
  <2>2. Walk(p)[i + 1] = CleanSegment(SubSeq(p, 1, i), p[i + 1])
    BY <1>1, <2>1, WalkRecursion
  <2>3. p[i + 1] \in Names /\ p[i + 1] \notin {"", ".", ".."}
    BY <2>1, ElementOfSeq, NamesAssumption
  <2>4. CleanSegment(SubSeq(p, 1, i), p[i + 1]) = Append(SubSeq(p, 1, i), p[i + 1])
    BY <2>3 DEF CleanSegment
  <2>5. SubSeq(p, 1, i) \in Seq(Names)
    BY <1>1, <2>1, ElementOfSeq, SubSeqProperties
  <2>6. SubSeq(p, 1, i + 1) = SubSeq(p, 1, i) \o <<p[i + 1]>>
    BY <1>1, <2>1, SubSeqRecursiveSecond
  <2>7. QED
    BY <2>2, <2>3, <2>4, <2>5, <2>6, AppendIsConcat
<1>4. Len(p) \in Kept
  <2> HIDE DEF Kept
  <2>1. QED
    BY <1>1, <1>2, <1>3, Induction
<1>5. QED
  BY <1>1, <1>4, SubSeqFull DEF Resolve

\* How a walk begins depends on how the path begins.
LEMMA WalkPrefix ==
  ASSUME NEW p \in Seq(Segments), NEW q \in Seq(Segments), NEW n \in Nat,
         n <= Len(p), n <= Len(q), \A i \in 1..n : p[i] = q[i]
  PROVE  Walk(p)[n] = Walk(q)[n]
<1> DEFINE Together == {i \in Nat : i <= n => Walk(p)[i] = Walk(q)[i]}
<1>1. Len(p) \in Nat /\ Len(q) \in Nat
  BY LenProperties
<1>2. 0 \in Together
  BY WalkRecursion
<1>3. \A i \in Nat : i \in Together => i + 1 \in Together
  <2> SUFFICES ASSUME NEW i \in Nat, i \in Together, i + 1 <= n PROVE Walk(p)[i + 1] = Walk(q)[i + 1]
    OBVIOUS
  <2>1. i + 1 \in 1..Len(p) /\ i + 1 \in 1..Len(q) /\ i + 1 \in 1..n /\ (i + 1) - 1 = i
    BY <1>1
  <2>2. Walk(p)[i + 1] = CleanSegment(Walk(p)[i], p[i + 1])
    BY <2>1, WalkRecursion
  <2>3. Walk(q)[i + 1] = CleanSegment(Walk(q)[i], q[i + 1])
    BY <2>1, WalkRecursion
  <2>4. Walk(p)[i] = Walk(q)[i] /\ p[i + 1] = q[i + 1]
    BY <2>1
  <2>5. QED
    BY <2>2, <2>3, <2>4
<1>4. n \in Together
  <2> HIDE DEF Together
  <2>1. QED
    BY <1>2, <1>3, Induction
<1>5. QED
  BY <1>4

\* A trailing slash leads nowhere else.
LEMMA SlashResolves ==
  ASSUME NEW p \in Paths, Last(p) = ""
  PROVE  Resolve(p) = Resolve(Front(p))
<1>1. p \in Seq(Segments) /\ Len(p) \in Nat \ {0} /\ p # <<>>
  BY PathIsSeq, EmptySeq
<1> DEFINE n == Len(p) - 1
           f == Front(p)
<1>2. f \in Seq(Segments) /\ Len(f) = n /\ \A i \in 1..n : f[i] = p[i]
  BY <1>1, FrontElements
<1>3. n \in Nat /\ n <= Len(p) /\ n <= Len(f)
  BY <1>1, <1>2, Predecessor, Zenon
<1>4. Walk(f)[n] = Walk(p)[n]
  <2> HIDE DEF n, f
  <2>1. QED
    BY <1>1, <1>2, <1>3, WalkPrefix
<1>5. Walk(p)[Len(p)] = CleanSegment(Walk(p)[n], p[Len(p)])
  <2>1. Len(p) \in 1..Len(p)
    BY <1>1, Predecessor, Zenon
  <2>2. QED
    BY <1>1, <2>1, WalkRecursion
<1>6. p[Len(p)] = ""
  BY DEF Last
<1>7. CleanSegment(Walk(p)[n], "") = Walk(p)[n]
  BY DEF CleanSegment
<1>8. QED
  BY <1>2, <1>4, <1>5, <1>6, <1>7 DEF Resolve

\* "/" is one empty segment, with nothing before it.
LEMMA RootElements == Len(<<"">>) = 1 /\ Last(<<"">>) = "" /\ Front(<<"">>) = <<>>
<1>1. Len(<<"">>) = 1 /\ <<"">>[1] = ""
  OBVIOUS
<1>2. 1 - 1 = 0 /\ SubSeq(<<"">>, 1, 0) = <<>>
  BY SubSeqEmpty
<1>3. QED
  BY <1>1, <1>2, Zenon DEF Last, Front

\* The root leads to the root.
LEMMA RootResolves == Resolve(<<"">>) = <<>>
<1> DEFINE r == <<"">>
<1>1. r \in Seq(Segments) /\ Len(r) = 1 /\ r[1] = ""
  BY DEF Segments
<1>2. Walk(r)[0] = <<>> /\ Walk(r)[1] = CleanSegment(Walk(r)[0], r[1])
  <2> HIDE DEF r
  <2>1. 1 \in 1..1 /\ 1 - 1 = 0
    OBVIOUS
  <2>2. QED
    BY <1>1, <2>1, WalkRecursion, Zenon
<1>3. CleanSegment(<<>>, "") = <<>>
  BY DEF CleanSegment
<1> HIDE DEF r
<1>4. Resolve(r) = <<>>
  BY <1>1, <1>2, <1>3 DEF Resolve
<1>5. QED
  BY <1>4 DEF r

\* The empty walk stays at the root.
LEMMA EmptyResolves == Resolve(<<>>) = <<>>
<1> DEFINE e == <<>>
<1>1. e \in Seq(Segments) /\ Len(e) = 0
  BY EmptySeq
<1> HIDE DEF e
<1>2. Walk(e)[0] = <<>>
  BY <1>1, WalkRecursion
<1>3. Resolve(e) = <<>>
  BY <1>1, <1>2 DEF Resolve
<1>4. QED
  BY <1>3 DEF e

\* Every path leads to a plain place.
LEMMA ResolvePlain ==
  ASSUME NEW p \in Paths
  PROVE  Resolve(p) \in Seq(Names)
<1>1. p \in Seq(Segments) /\ Len(p) \in Nat
  BY PathIsSeq
<1>2. Len(p) \in 0..Len(p)
  BY <1>1
<1>3. QED
  BY <1>1, <1>2, WalkPlain DEF Resolve

\* What path.Clean leaves as it is: the root, and the paths of ordinary
\* segments only. It is what the comment on pathIsNormalized says.
THEOREM NormalForms ==
  ASSUME NEW p \in Paths
  PROVE  pathIsNormalized(p) <=> p = <<"">> \/ p \in Seq(Names)
<1>1. p \in Seq(Segments) /\ Len(p) \in Nat \ {0} /\ p # <<>>
  BY PathIsSeq, EmptySeq
<1>2. Resolve(p) \in Seq(Names)
  BY ResolvePlain
<1>3. ASSUME pathIsNormalized(p) PROVE p = <<"">> \/ p \in Seq(Names)
  BY <1>2, <1>3 DEF pathIsNormalized, Clean
<1>4. ASSUME p = <<"">> PROVE pathIsNormalized(p)
  BY <1>4, RootResolves DEF pathIsNormalized, Clean
<1>5. ASSUME p \in Seq(Names) PROVE pathIsNormalized(p)
  BY <1>1, <1>5, PlainResolves DEF pathIsNormalized, Clean
<1>6. QED
  BY <1>3, <1>4, <1>5

-----------------------------------------------------------------------------
(* The two path guards.                                                    *)

\* The path allowed by a prefix leads under it, whatever form the prefix has.
LEMMA AllowedLeadsUnder ==
  ASSUME NEW p \in Paths, pathIsNormalized(p), NEW q \in Paths,
         p = q \/ IsStrictPrefix(TrimSlash(q), p)
  PROVE  IsPrefix(Resolve(q), Resolve(p))
<1>1. /\ p \in Seq(Segments) /\ Len(p) \in Nat \ {0} /\ p # <<>>
      /\ q \in Seq(Segments) /\ Len(q) \in Nat \ {0} /\ q # <<>>
  BY PathIsSeq, EmptySeq
<1>2. Resolve(p) \in Seq(Names) /\ Resolve(q) \in Seq(Names)
  BY ResolvePlain
<1>3. CASE p = q
  BY <1>2, <1>3, PrefixReflexive
<1>4. CASE IsStrictPrefix(TrimSlash(q), p)
  <2> DEFINE t == TrimSlash(q)
  <2>1. t \in Seq(Segments) /\ Resolve(q) = Resolve(t)
    <3>1. CASE Last(q) = ""
      BY <1>1, <3>1, FrontElements, SlashResolves DEF TrimSlash
    <3>2. CASE Last(q) # ""
      BY <1>1, <3>2 DEF TrimSlash
    <3>3. QED
      BY <3>1, <3>2
  <2>2. Len(t) \in Nat /\ Len(t) <= Len(p) /\ t # p /\ \A i \in 1..Len(t) : t[i] = p[i]
    BY <1>1, <1>4, <2>1, PrefixElements, LenProperties DEF IsStrictPrefix
  <2> HIDE DEF t
  <2>3. CASE t = <<>>
    <3>1. Resolve(t) = <<>>
      BY <2>3, EmptyResolves
    <3>2. QED
      BY <1>2, <2>1, <3>1, EmptyIsPrefix
  <2>4. CASE t # <<>>
    <3>1. p \in Seq(Names)
      <4>1. ASSUME p = <<"">> PROVE FALSE
        <5>1. Len(p) = 1
          BY <4>1, RootElements
        <5>2. Len(t) = 1
          BY <1>1, <2>1, <2>2, <2>4, <5>1, EmptySeq
        <5>3. t = p
          BY <1>1, <2>1, <2>2, <5>1, <5>2, SeqEqual
        <5>4. QED
          BY <2>2, <5>3
      <4>2. QED
        BY <4>1, NormalForms
    <3>2. t \in Seq(Names)
      <4>1. \A i \in 1..Len(t) : t[i] \in Names
        <5> SUFFICES ASSUME NEW i \in 1..Len(t) PROVE t[i] \in Names
          OBVIOUS
        <5>1. i \in 1..Len(p)
          BY <1>1, <2>2
        <5>2. QED
          BY <2>2, <3>1, <5>1, ElementOfSeq
      <4>2. QED
        BY <2>1, <4>1, SeqOfElements
    <3>3. Resolve(t) = t /\ Resolve(p) = p
      BY <3>1, <3>2, PlainResolves
    <3>4. QED
      BY <1>4, <2>1, <3>3 DEF IsStrictPrefix, t
  <2>5. QED
    BY <2>3, <2>4
<1>5. QED
  BY <1>3, <1>4

\* A normal path that leads under a normal prefix is allowed by it.
LEMMA UnderIsAllowed ==
  ASSUME NEW p \in Paths, pathIsNormalized(p), NEW q \in Paths, pathIsNormalized(q),
         IsPrefix(Resolve(q), Resolve(p))
  PROVE  p = q \/ IsStrictPrefix(TrimSlash(q), p)
<1>1. /\ p \in Seq(Segments) /\ p # <<>>
      /\ q \in Seq(Segments) /\ Len(q) \in Nat \ {0} /\ q # <<>>
  BY PathIsSeq, EmptySeq
<1>2. CASE q = <<"">>
  <2>1. TrimSlash(q) = <<>>
    BY <1>2, RootElements DEF TrimSlash
  <2>2. IsPrefix(<<>>, p)
    BY <1>1, EmptyIsPrefix
  <2>3. QED
    BY <1>1, <2>1, <2>2 DEF IsStrictPrefix
<1>3. CASE q \in Seq(Names)
  <2>1. TrimSlash(q) = q
    <3>1. Last(q) \in Names
      <4>1. Len(q) \in 1..Len(q)
        BY <1>1, Predecessor, Zenon
      <4>2. QED
        BY <1>3, <4>1, ElementOfSeq DEF Last
    <3>2. QED
      BY <3>1, NamesAssumption DEF TrimSlash
  <2>2. Resolve(q) = q
    BY <1>3, PlainResolves
  <2>3. CASE p \in Seq(Names)
    <3>1. Resolve(p) = p
      BY <2>3, PlainResolves
    <3>2. QED
      BY <2>1, <2>2, <3>1 DEF IsStrictPrefix
  <2>4. CASE p = <<"">>
    <3>1. IsPrefix(q, <<>>)
      BY <2>2, <2>4, RootResolves
    <3>2. Len(q) <= 0
      BY <3>1, EmptySeq DEF IsPrefix
    <3>3. QED
      BY <1>1, <3>2
  <2>5. QED
    BY <2>3, <2>4, NormalForms
<1>4. QED
  BY <1>2, <1>3, NormalForms

-----------------------------------------------------------------------------
(* The journey of a request.                                               *)

Passed(list) == pathIsNormalized(path) /\ pathAllowed(list, path)

\* What each place says of the guards behind it. The properties say nothing of
\* a request at "home", and what they say of the tunnel, that the path leads under
\* the remote's list, does not tell that it is in normal form, without which the
\* home's guard could not forbid it rightly: neither is inductive.
GuardsInv ==
  /\ path \in Paths
  /\ remoteList \in SUBSET Paths /\ remoteList # {}
  /\ homeList \in SUBSET Paths
  /\ at \in {"tunnel", "home", "opencode", "unreachable"} => Passed(remoteList)
  /\ at \in {"home", "opencode", "unreachable"} => Passed(homeList)
  /\ at = "forbidden" => /\ pathIsNormalized(path)
                         /\ ~pathAllowed(remoteList, path) \/ ~pathAllowed(homeList, path)

\* A request starts before the guards.
LEMMA InitGuards == Init => GuardsInv
  BY AllowlistsAssumption DEF Init, GuardsInv

\* Every hop goes through its guards.
LEMMA NextGuards == GuardsInv /\ [Next]_vars => GuardsInv'
<1> SUFFICES ASSUME GuardsInv, [Next]_vars PROVE GuardsInv'
  OBVIOUS
<1> USE DEF GuardsInv, Passed
<1>1. CASE Upgrade
  BY <1>1 DEF Upgrade, Goto
<1>2. CASE Remote
  BY <1>2 DEF Remote, Goto
<1>3. CASE Home
  BY <1>3 DEF Home, Goto
<1>4. CASE Backend
  BY <1>4 DEF Backend, Goto
<1>5. CASE UNCHANGED vars
  BY <1>5 DEF vars
<1>6. QED
  BY <1>1, <1>2, <1>3, <1>4, <1>5 DEF Next, Answered

\* GuardsInv is inductive.
LEMMA GuardsHold == Spec => []GuardsInv
  BY InitGuards, NextGuards, PTL DEF Spec

\* What passed a list leads under it.
LEMMA PassedLeadsUnder ==
  ASSUME path \in Paths, NEW list \in SUBSET Paths, list # {}, Passed(list)
  PROVE  Under(list, path)
<1>1. PICK q \in list : path = q \/ IsStrictPrefix(TrimSlash(q), path)
  BY DEF Passed, pathAllowed
<1>2. IsPrefix(Resolve(q), Resolve(path))
  BY <1>1, AllowedLeadsUnder DEF Passed
<1>3. QED
  BY <1>2 DEF Under

\* What leads under a normal list passes it.
LEMMA UnderPasses ==
  ASSUME path \in Paths, pathIsNormalized(path), NEW list \in SUBSET Paths,
         \A q \in list : pathIsNormalized(q), Under(list, path)
  PROVE  pathAllowed(list, path)
<1>1. PICK q \in list : IsPrefix(Resolve(q), Resolve(path))
  BY DEF Under
<1>2. path = q \/ IsStrictPrefix(TrimSlash(q), path)
  BY <1>1, UnderIsAllowed
<1>3. QED
  BY <1>2 DEF pathAllowed

\* Whatever path a device sends and however the two halves are configured, what
\* the remote puts into the tunnel resolves to a place under its allowlist, and
\* what opencode gets resolves under the home's allowlist as well.
THEOREM OnlyAllowedReached == Spec => []OnlyAllowedPlaces
<1>1. GuardsInv => OnlyAllowedPlaces
  BY PassedLeadsUnder DEF GuardsInv, OnlyAllowedPlaces
<1>2. QED
  BY <1>1, GuardsHold, PTL

\* No path in normal form is refused by mistake: one that is forbidden leads
\* nowhere under one of the two lists, if these are in normal form.
THEOREM OnlyOthersRefused == Spec => []OnlyOthersForbidden
<1>1. GuardsInv => OnlyOthersForbidden
  <2> SUFFICES ASSUME GuardsInv, at = "forbidden",
                      \A q \in remoteList \cup homeList : pathIsNormalized(q)
               PROVE  ~Under(remoteList, path) \/ (homeList # {} /\ ~Under(homeList, path))
    BY DEF OnlyOthersForbidden
  <2>1. CASE ~pathAllowed(remoteList, path)
    BY <2>1, UnderPasses DEF GuardsInv
  <2>2. CASE ~pathAllowed(homeList, path)
    <3>1. homeList # {}
      BY <2>2 DEF pathAllowed
    <3>2. ~Under(homeList, path)
      BY <2>2, UnderPasses DEF GuardsInv
    <3>3. QED
      BY <3>1, <3>2
  <2>3. QED
    BY <2>1, <2>2 DEF GuardsInv
<1>2. QED
  BY <1>1, GuardsHold, PTL
=============================================================================
