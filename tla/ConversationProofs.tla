------------------------- MODULE ConversationProofs -------------------------
(***************************************************************************)
(* Theorems about Conversation, for any system prompt, notes, number of    *)
(* answers and NoId: by induction over the turns.  What depends on the     *)
(* upstream's answers being as its API promises says so (Agreeing, AsText).*)
(*                                                                         *)
(* The converters go element by element over sequences of any length.      *)
(* What they put together is described first, by induction over sequences; *)
(* then what a block, a message and a history become; then the turns.      *)
(***************************************************************************)
EXTENDS Conversation, NumberInduction, SequenceTheorems, FiniteSetTheorems, TLAPS

-----------------------------------------------------------------------------
(* Sequences put together from sequences: FlattenSeq. *)

\* A set with the empty sequence that is closed under Append has every sequence.
LEMMA SequenceInduction ==
    ASSUME NEW S, NEW P \in SUBSET Seq(S), <<>> \in P,
           \A s \in P, x \in S : Append(s, x) \in P
    PROVE  P = Seq(S)
<1>1. PICK N : N = {n \in Nat : \A s \in Seq(S) : Len(s) = n => s \in P}
  OBVIOUS
<1>2. 0 \in N
  <2>1. \A s \in Seq(S) : Len(s) = 0 => s = <<>>
    BY EmptySeq
  <2> QED
    BY <1>1, <2>1
<1>3. ASSUME NEW n \in N PROVE n + 1 \in N
  <2>1. n \in Nat /\ n + 1 \in Nat
    BY <1>1
  <2>2. ASSUME NEW s \in Seq(S), Len(s) = n + 1 PROVE s \in P
    <3>1. s # <<>>
      BY <2>1, <2>2
    <3>2. PICK front \in Seq(S), x \in S : s = Append(front, x)
      BY <3>1, SequenceEmptyOrAppend
    <3>3. Len(front) = n
      BY <2>1, <2>2, <3>2, AppendProperties, LenProperties
    <3>4. front \in P
      BY <1>1, <3>3
    <3> QED
      BY <3>2, <3>4
  <2> QED
    BY <1>1, <2>1, <2>2
<1>4. N \in SUBSET Nat
  BY <1>1
<1>5. N = Nat
  BY <1>2, <1>3, <1>4, Induction
<1>6. \A s \in Seq(S) : s \in P
  BY <1>1, <1>5, LenProperties
<1> QED
  BY <1>6

\* Three sequences, however they are grouped.
Associates(s, t, u) == (s \o t) \o u = s \o (t \o u)

\* The grouping makes no difference.
LEMMA ConcatAssociates ==
    ASSUME NEW S, NEW s \in Seq(S), NEW t \in Seq(S), NEW u \in Seq(S)
    PROVE  Associates(s, t, u)
BY ConcatAssociative, SMTT(60) DEF Associates

\* f adds up the sequences of ss, from the first on.
AddsUp(f, ss) ==
    \A i \in 1 .. Len(ss) : f[i] = IF i = 1 THEN ss[i] ELSE f[i - 1] \o ss[i]

\* There is such a function, by induction over ss.
LEMMA FlattenExists ==
    ASSUME NEW T, NEW ss \in Seq(Seq(T))
    PROVE  \E f \in [1 .. Len(ss) -> Seq(T)] : AddsUp(f, ss)
<1>1. PICK P : P = {q \in Seq(Seq(T)) : \E f \in [1 .. Len(q) -> Seq(T)] : AddsUp(f, q)}
  OBVIOUS
<1>2. <<>> \in P
  <2>1. PICK f : f = [i \in 1 .. Len(<<>>) |-> <<>>]
    OBVIOUS
  <2>2. f \in [1 .. Len(<<>>) -> Seq(T)] /\ AddsUp(f, <<>>)
    BY <2>1 DEF AddsUp
  <2>3. <<>> \in Seq(Seq(T))
    OBVIOUS
  <2> QED
    BY <1>1, <2>2, <2>3, Zenon
<1>3. ASSUME NEW q \in P, NEW x \in Seq(T) PROVE Append(q, x) \in P
  <2>1. q \in Seq(Seq(T))
    BY <1>1
  <2>2. PICK f \in [1 .. Len(q) -> Seq(T)] : AddsUp(f, q)
    BY <1>1
  <2>3. PICK n \in Nat : n = Len(q)
    BY <2>1, LenProperties
  <2> DEFINE a == Append(q, x)
  <2>4. /\ a \in Seq(Seq(T)) /\ Len(a) = n + 1 /\ a[n + 1] = x
        /\ \A i \in 1 .. n : a[i] = q[i]
    BY <2>1, <2>3, AppendProperties
  <2> HIDE DEF a
  <2>5. PICK last \in Seq(T) : last = IF n = 0 THEN x ELSE f[n] \o x
    <3>1. n # 0 => f[n] \in Seq(T)
      BY <2>3
    <3> QED
      BY <3>1, ConcatProperties
  <2>6. PICK g : g = [i \in 1 .. n + 1 |-> IF i = n + 1 THEN last ELSE f[i]]
    OBVIOUS
  <2>7. /\ g \in [1 .. n + 1 -> Seq(T)] /\ g[n + 1] = last
        /\ \A i \in 1 .. n : g[i] = f[i]
    BY <2>3, <2>6
  <2>8. ASSUME NEW i \in 1 .. n + 1
        PROVE  g[i] = IF i = 1 THEN a[i] ELSE g[i - 1] \o a[i]
    <3>1. CASE i = n + 1
      BY <2>4, <2>5, <2>7, <3>1
    <3>2. CASE i # n + 1
      <4>1. i \in 1 .. n /\ (i # 1 => i - 1 \in 1 .. n)
        BY <3>2
      <4>2. f[i] = IF i = 1 THEN q[i] ELSE f[i - 1] \o q[i]
        BY <2>2, <2>3, <4>1 DEF AddsUp
      <4> QED
        BY <2>4, <2>7, <4>1, <4>2
    <3> QED
      BY <3>1, <3>2
  <2>9. AddsUp(g, a)
    BY <2>4, <2>8 DEF AddsUp
  <2> QED
    BY <1>1, <2>4, <2>7, <2>9 DEF a
<1>4. P = Seq(Seq(T))
  BY <1>1, <1>2, <1>3, SequenceInduction, Zenon
<1> QED
  BY <1>1, <1>4

\* Two such functions agree as far as their sequences do.
LEMMA FlattenUnique ==
    ASSUME NEW ss, NEW tt, NEW f, NEW g, AddsUp(f, ss), AddsUp(g, tt),
           NEW n \in Nat, Len(ss) \in Nat, Len(tt) \in Nat, n <= Len(ss), n <= Len(tt),
           \A i \in 1 .. n : ss[i] = tt[i]
    PROVE  \A i \in 1 .. n : f[i] = g[i]
<1>1. PICK N : N = {k \in Nat : k + 1 <= n => f[k + 1] = g[k + 1]}
  OBVIOUS
<1>2. 0 \in N
  <2>1. ASSUME 1 <= n PROVE f[1] = g[1]
    <3>1. f[1] = ss[1] /\ g[1] = tt[1]
      BY <2>1 DEF AddsUp
    <3> QED
      BY <2>1, <3>1
  <2> QED
    BY <1>1, <2>1
<1>3. ASSUME NEW k \in N PROVE k + 1 \in N
  <2>1. k \in Nat
    BY <1>1
  <2>2. PICK i : i = k + 2 /\ i \in Nat /\ i - 1 = k + 1 /\ (k + 1) + 1 = i /\ i # 1
    BY <2>1
  <2>3. ASSUME i <= n PROVE f[i] = g[i]
    <3>1. f[i - 1] = g[i - 1]
      BY <1>1, <2>1, <2>2, <2>3
    <3>2. f[i] = f[i - 1] \o ss[i] /\ g[i] = g[i - 1] \o tt[i] /\ ss[i] = tt[i]
      <4>1. i \in 1 .. n /\ i \in 1 .. Len(ss) /\ i \in 1 .. Len(tt)
        BY <2>1, <2>2, <2>3
      <4> QED
        BY <2>2, <4>1 DEF AddsUp
    <3> QED
      BY <3>1, <3>2
  <2> QED
    BY <1>1, <2>1, <2>2, <2>3
<1>4. N = Nat
  <2>1. N \in SUBSET Nat
    BY <1>1
  <2> QED
    BY <2>1, <1>2, <1>3, Induction
<1>5. ASSUME NEW i \in 1 .. n PROVE f[i] = g[i]
  <2>1. i - 1 \in N /\ (i - 1) + 1 = i
    BY <1>4
  <2> QED
    BY <1>1, <2>1
<1> QED
  BY <1>5

\* What FlattenSeq adds up.
LEMMA FlattenIs ==
    ASSUME NEW T, NEW ss \in Seq(Seq(T)), Len(ss) # 0
    PROVE  \E f \in [1 .. Len(ss) -> Seq(T)] : AddsUp(f, ss) /\ FlattenSeq(ss) = f[Len(ss)]
<1>1. PICK g \in [1 .. Len(ss) -> Seq(T)] : AddsUp(g, ss)
  BY FlattenExists
<1>2. g = [i \in 1 .. Len(ss) |-> IF i = 1 THEN ss[i] ELSE g[i - 1] \o ss[i]]
  BY <1>1 DEF AddsUp
<1>3. PICK f : f = CHOOSE h : h = [i \in 1 .. Len(ss) |-> IF i = 1 THEN ss[i] ELSE h[i - 1] \o ss[i]]
  OBVIOUS
<1>4. f = [i \in 1 .. Len(ss) |-> IF i = 1 THEN ss[i] ELSE f[i - 1] \o ss[i]]
  BY <1>2, <1>3, Zenon
<1>5. FlattenSeq(ss) = f[Len(ss)]
  BY <1>3, Zenon DEF FlattenSeq
<1>6. AddsUp(f, ss)
  BY <1>4 DEF AddsUp
<1>7. PICK n \in Nat : n = Len(ss)
  BY LenProperties
<1>8. \A i \in 1 .. n : f[i] = g[i]
  BY <1>1, <1>6, <1>7, FlattenUnique
<1>9. f \in [1 .. Len(ss) -> Seq(T)]
  BY <1>1, <1>4, <1>7, <1>8
<1> QED
  BY <1>5, <1>6, <1>9

\* Nothing comes of nothing.
LEMMA FlattenNothing == FlattenSeq(<<>>) = <<>>
BY DEF FlattenSeq

\* Appending a sequence appends its elements.
LEMMA FlattenAppend ==
    ASSUME NEW T, NEW ss \in Seq(Seq(T)), NEW s \in Seq(T)
    PROVE  FlattenSeq(Append(ss, s)) = FlattenSeq(ss) \o s
<1> DEFINE a == Append(ss, s)
<1>1. PICK n \in Nat : n = Len(ss)
  BY LenProperties
<1>2. /\ a \in Seq(Seq(T)) /\ Len(a) = n + 1 /\ a[n + 1] = s
      /\ \A i \in 1 .. n : a[i] = ss[i]
  BY <1>1, AppendProperties
<1> HIDE DEF a
<1>3. PICK f \in [1 .. Len(a) -> Seq(T)] : AddsUp(f, a) /\ FlattenSeq(a) = f[Len(a)]
  <2>1. Len(a) # 0
    BY <1>2
  <2> QED
    BY <1>2, <2>1, FlattenIs
<1>4. CASE n = 0
  <2>1. f[1] = s
    BY <1>2, <1>3, <1>4 DEF AddsUp
  <2>2. ss = <<>>
    BY <1>1, <1>4, EmptySeq
  <2>3. FlattenSeq(ss) \o s = s
    BY <2>2, FlattenNothing, ConcatEmptySeq
  <2> QED
    BY <1>2, <1>3, <1>4, <2>1, <2>3 DEF a
<1>5. CASE n # 0
  <2>1. PICK g \in [1 .. Len(ss) -> Seq(T)] : AddsUp(g, ss) /\ FlattenSeq(ss) = g[Len(ss)]
    BY <1>1, <1>5, FlattenIs
  <2>2. \A i \in 1 .. n : f[i] = g[i]
    <3>1. n <= Len(a) /\ n <= Len(ss) /\ Len(a) \in Nat /\ Len(ss) \in Nat
      BY <1>1, <1>2
    <3>2. AddsUp(f, a) /\ AddsUp(g, ss) /\ \A i \in 1 .. n : a[i] = ss[i]
      BY <1>2, <1>3, <2>1
    <3> QED
      BY <3>1, <3>2, FlattenUnique, SMTT(60)
  <2>3. f[n + 1] = f[n] \o s
    <3>3. Len(a) = n + 1
      BY <1>2
    <3>1. n + 1 \in 1 .. Len(a) /\ n + 1 # 1 /\ (n + 1) - 1 = n
      BY <1>5, <3>3
    <3>2. f[n + 1] = f[(n + 1) - 1] \o a[n + 1]
      BY <1>3, <3>1 DEF AddsUp
    <3> QED
      BY <1>2, <3>1, <3>2
  <2>4. f[n] = g[n]
    BY <1>5, <2>2
  <2> QED
    BY <1>1, <1>2, <1>3, <2>1, <2>3, <2>4 DEF a
<1> QED
  BY <1>4, <1>5

\* The elements of the sequences are the elements of the result.
LEMMA FlattenType ==
    ASSUME NEW T, NEW ss \in Seq(Seq(T))
    PROVE  FlattenSeq(ss) \in Seq(T)
<1>1. CASE Len(ss) = 0
  <2>1. ss = <<>>
    BY <1>1, EmptySeq
  <2>2. FlattenSeq(ss) = <<>>
    BY <2>1, FlattenNothing, Zenon
  <2> QED
    BY <2>2
<1>2. CASE Len(ss) # 0
  <2>1. PICK f \in [1 .. Len(ss) -> Seq(T)] : AddsUp(f, ss) /\ FlattenSeq(ss) = f[Len(ss)]
    BY <1>2, FlattenIs
  <2>2. Len(ss) \in 1 .. Len(ss)
    BY <1>2, LenProperties
  <2> QED
    BY <2>1, <2>2
<1> QED
  BY <1>1, <1>2

-----------------------------------------------------------------------------
(* One sequence for every element of another, put together. *)

Each(g, s) == FlattenSeq([i \in DOMAIN s |-> g[s[i]]])

\* An element more is its sequence more.
Appends(g, S, T) ==
    /\ \A s \in Seq(S) : Each(g, s) \in Seq(T)
    /\ \A s \in Seq(S), x \in S : Each(g, Append(s, x)) = Each(g, s) \o g[x]

\* Two sequences, one behind the other, are replaced each for itself.
Concats(g, S) ==
    \A s, t \in Seq(S) : Each(g, s \o t) = Each(g, s) \o Each(g, t)

\* Elements that stand for nothing leave nothing.
Skips(g, S) ==
    \A s \in Seq(S) : (\A i \in 1 .. Len(s) : g[s[i]] = <<>>) => Each(g, s) = <<>>

\* Elements that each stand for one leave a sequence of the same length.
Singles(g, f, S) ==
    \A s \in Seq(S) : (\A i \in 1 .. Len(s) : g[s[i]] = <<f[s[i]]>>)
                          => Each(g, s) = [i \in 1 .. Len(s) |-> f[s[i]]]

\* Replacing the elements of what elements were replaced by.
Composes(k, g, m, S) ==
    \A s \in Seq(S) : Each(k, Each(g, s)) = Each(m, s)

\* Every element is replaced on its own.
LEMMA EachAppend ==
    ASSUME NEW S, NEW T, NEW g \in [S -> Seq(T)]
    PROVE  Appends(g, S, T)
<1> DEFINE of(q) == [i \in DOMAIN q |-> g[q[i]]]
<1>7. ASSUME NEW s \in Seq(S)
      PROVE  of(s) \in Seq(Seq(T)) /\ Len(of(s)) = Len(s)
  <2>1. PICK n \in Nat : n = Len(s) /\ DOMAIN s = 1 .. n
    BY LenProperties
  <2>2. of(s) \in [1 .. n -> Seq(T)]
    BY <2>1
  <2> QED
    BY <2>1, <2>2, IsASeq, LenProperties
<1>8. ASSUME NEW s \in Seq(S) PROVE Each(g, s) \in Seq(T)
  <2>1. FlattenSeq(of(s)) \in Seq(T)
    BY <1>7, FlattenType
  <2> QED
    BY <2>1, Zenon DEF Each
<1> SUFFICES ASSUME NEW s \in Seq(S), NEW x \in S
             PROVE  Each(g, Append(s, x)) = Each(g, s) \o g[x]
  BY <1>8 DEF Appends
<1>1. PICK n \in Nat : n = Len(s) /\ DOMAIN s = 1 .. n
  BY LenProperties
<1>2. of(s) \in Seq(Seq(T)) /\ Len(of(s)) = n
  BY <1>1, <1>7
<1>3. of(Append(s, x)) = Append(of(s), g[x])
  <2> DEFINE a == Append(s, x)
             b == Append(of(s), g[x])
  <2>1. /\ a \in Seq(S) /\ Len(a) = n + 1 /\ a[n + 1] = x
        /\ DOMAIN a = 1 .. n + 1
        /\ \A i \in 1 .. n : a[i] = s[i]
    BY <1>1, AppendProperties, LenProperties
  <2>2. /\ b \in Seq(Seq(T)) /\ Len(b) = n + 1 /\ b[n + 1] = g[x]
        /\ DOMAIN b = 1 .. n + 1
        /\ \A i \in 1 .. n : b[i] = of(s)[i]
    <3> HIDE DEF of
    <3> QED
      BY <1>2, AppendProperties, LenProperties
  <2> HIDE DEF a, b
  <2>3. ASSUME NEW i \in 1 .. n + 1 PROVE of(a)[i] = b[i]
    <3>1. CASE i = n + 1
      BY <2>1, <2>2, <3>1
    <3>2. CASE i # n + 1
      <4>1. i \in 1 .. n
        BY <3>2
      <4>2. of(s)[i] = g[s[i]]
        BY <1>1, <4>1
      <4> QED
        BY <2>1, <2>2, <4>1, <4>2
    <3> QED
      BY <3>1, <3>2
  <2>4. b = [i \in 1 .. n + 1 |-> b[i]]
    BY <2>2
  <2>5. of(a) = b
    BY <2>1, <2>3, <2>4
  <2> QED
    BY <2>5 DEF a, b
<1> HIDE DEF of
<1>4. g[x] \in Seq(T)
  OBVIOUS
<1>6. FlattenSeq(of(Append(s, x))) = FlattenSeq(of(s)) \o g[x]
  BY <1>2, <1>3, <1>4, FlattenAppend
<1> QED
  BY <1>6, Zenon DEF Each, of

\* Without elements there is nothing, and one element stands for its sequence.
LEMMA EachFew ==
    ASSUME NEW S, NEW T, NEW g \in [S -> Seq(T)]
    PROVE  /\ Each(g, <<>>) = <<>>
           /\ \A x \in S : Each(g, <<x>>) = g[x]
<1>3. Appends(g, S, T)
  BY EachAppend, Zenon
<1>1. Each(g, <<>>) = <<>>
  <2>1. [i \in DOMAIN <<>> |-> g[<<>>[i]]] = <<>>
    OBVIOUS
  <2> QED
    BY <2>1, FlattenNothing, Zenon DEF Each
<1>2. ASSUME NEW x \in S PROVE Each(g, <<x>>) = g[x]
  <2>1. <<>> \in Seq(S) /\ Append(<<>>, x) = <<x>>
    OBVIOUS
  <2>2. Each(g, <<x>>) = Each(g, <<>>) \o g[x]
    <3>1. Each(g, Append(<<>>, x)) = Each(g, <<>>) \o g[x]
      BY <2>1, <1>3, Zenon DEF Appends
    <3> QED
      BY <2>1, <3>1, Zenon
  <2>3. g[x] \in Seq(T)
    OBVIOUS
  <2> QED
    BY <1>1, <2>2, <2>3, ConcatEmptySeq
<1> QED
  BY <1>1, <1>2

\* What comes of two sequences, by induction over the second.
LEMMA EachConcat ==
    ASSUME NEW S, NEW T, NEW g \in [S -> Seq(T)]
    PROVE  Concats(g, S)
<1> SUFFICES ASSUME NEW s \in Seq(S), NEW t \in Seq(S)
             PROVE  Each(g, s \o t) = Each(g, s) \o Each(g, t)
  BY DEF Concats
<1>5. Appends(g, S, T)
  BY EachAppend, Zenon
<1>6. \A y, z \in Seq(S), x \in S :
         /\ y \o z \in Seq(S) /\ Append(z, x) \in Seq(S)
         /\ y \o Append(z, x) = Append(y \o z, x)
  <2> SUFFICES ASSUME NEW y \in Seq(S), NEW z \in Seq(S), NEW x \in S
               PROVE  /\ y \o z \in Seq(S) /\ Append(z, x) \in Seq(S)
                      /\ y \o Append(z, x) = Append(y \o z, x)
    OBVIOUS
  <2>1. y \o z \in Seq(S) /\ <<x>> \in Seq(S)
    OBVIOUS
  <2>2. Append(z, x) = z \o <<x>> /\ Append(z, x) \in Seq(S)
    BY AppendIsConcat
  <2>3. Append(y \o z, x) = (y \o z) \o <<x>>
    BY <2>1, AppendIsConcat
  <2>4. (y \o z) \o <<x>> = y \o (z \o <<x>>)
    <3>1. Associates(y, z, <<x>>)
      BY <2>1, ConcatAssociates, Zenon
    <3> QED
      BY <3>1, Zenon DEF Associates
  <2> QED
    BY <2>1, <2>2, <2>3, <2>4, Zenon
<1>1. PICK P : P = {q \in Seq(S) : Each(g, s \o q) = Each(g, s) \o Each(g, q)}
  OBVIOUS
<1>2. <<>> \in P
  <2>1. s \o <<>> = s /\ Each(g, <<>>) = <<>> /\ <<>> \in Seq(S)
    BY EachFew, ConcatEmptySeq
  <2>2. Each(g, s) \o <<>> = Each(g, s)
    <3>1. Each(g, s) \in Seq(T)
      BY <1>5, Zenon DEF Appends
    <3> QED
      BY <3>1, ConcatEmptySeq
  <2>3. Each(g, s \o <<>>) = Each(g, s) \o Each(g, <<>>)
    BY <2>1, <2>2, Zenon
  <2> QED
    BY <1>1, <2>1, <2>3, Zenon
<1>3. ASSUME NEW q \in P, NEW x \in S PROVE Append(q, x) \in P
  <2>1. q \in Seq(S) /\ Each(g, s \o q) = Each(g, s) \o Each(g, q)
    BY <1>1
  <2>2. s \o Append(q, x) = Append(s \o q, x) /\ s \o q \in Seq(S) /\ Append(q, x) \in Seq(S)
    BY <2>1, <1>6, Zenon
  <2>3. Each(g, Append(s \o q, x)) = Each(g, s \o q) \o g[x]
    BY <2>2, <1>5, Zenon DEF Appends
  <2>4. Each(g, Append(q, x)) = Each(g, q) \o g[x]
    BY <2>1, <1>5, Zenon DEF Appends
  <2>5. Each(g, s) \in Seq(T) /\ Each(g, q) \in Seq(T) /\ g[x] \in Seq(T)
    <3>1. g[x] \in Seq(T)
      OBVIOUS
    <3> QED
      BY <2>1, <3>1, <1>5, Zenon DEF Appends
  <2>6. (Each(g, s) \o Each(g, q)) \o g[x] = Each(g, s) \o (Each(g, q) \o g[x])
    <3>1. Associates(Each(g, s), Each(g, q), g[x])
      BY <2>5, ConcatAssociates, Zenon
    <3> QED
      BY <3>1, Zenon DEF Associates
  <2>7. Each(g, s \o Append(q, x)) = Each(g, s) \o Each(g, Append(q, x))
    BY <2>1, <2>2, <2>3, <2>4, <2>6, Zenon
  <2> QED
    BY <1>1, <2>2, <2>7
<1>4. P = Seq(S)
  BY <1>1, <1>2, <1>3, SequenceInduction
<1> QED
  BY <1>1, <1>4

\* Nothing for every element is nothing.
LEMMA EachNothing ==
    ASSUME NEW S, NEW T, NEW g \in [S -> Seq(T)]
    PROVE  Skips(g, S)
<1>5. Appends(g, S, T)
  BY EachAppend, Zenon
<1>1. PICK P : P = {q \in Seq(S) : (\A i \in 1 .. Len(q) : g[q[i]] = <<>>) => Each(g, q) = <<>>}
  OBVIOUS
<1>2. <<>> \in P
  <2>1. <<>> \in Seq(S)
    OBVIOUS
  <2> QED
    BY <1>1, <2>1, EachFew
<1>3. ASSUME NEW q \in P, NEW x \in S PROVE Append(q, x) \in P
  <2>1. q \in Seq(S)
    BY <1>1
  <2>2. PICK a : a = Append(q, x)
    OBVIOUS
  <2>3. PICK n \in Nat : n = Len(q)
    BY <2>1, LenProperties
  <2>4. /\ a \in Seq(S) /\ Len(a) = n + 1 /\ a[n + 1] = x
        /\ \A i \in 1 .. n : a[i] = q[i]
    BY <2>1, <2>2, <2>3, AppendProperties
  <2>5. ASSUME \A i \in 1 .. Len(a) : g[a[i]] = <<>> PROVE Each(g, a) = <<>>
    <3>1. g[x] = <<>> /\ \A i \in 1 .. Len(q) : g[q[i]] = <<>>
      BY <2>3, <2>4, <2>5
    <3>2. Each(g, q) = <<>>
      BY <1>1, <3>1
    <3>3. Each(g, a) = <<>> \o <<>>
      BY <2>1, <2>2, <3>1, <3>2, <1>5, Zenon DEF Appends
    <3>4. <<>> \o <<>> = <<>>
      OBVIOUS
    <3> QED
      BY <3>3, <3>4, Zenon
  <2> QED
    BY <1>1, <2>2, <2>4, <2>5
<1>4. P = Seq(S)
  BY <1>1, <1>2, <1>3, SequenceInduction
<1> QED
  BY <1>1, <1>4 DEF Skips

\* One element for every element.
LEMMA EachOne ==
    ASSUME NEW S, NEW T, NEW g \in [S -> Seq(T)], NEW f \in [S -> T]
    PROVE  Singles(g, f, S)
<1>5. Appends(g, S, T)
  BY EachAppend, Zenon
<1>1. PICK P : P = {q \in Seq(S) : (\A i \in 1 .. Len(q) : g[q[i]] = <<f[q[i]]>>)
                                     => Each(g, q) = [i \in 1 .. Len(q) |-> f[q[i]]]}
  OBVIOUS
<1>2. <<>> \in P
  <2>1. <<>> \in Seq(S) /\ [i \in 1 .. Len(<<>>) |-> f[<<>>[i]]] = <<>>
    OBVIOUS
  <2>2. Each(g, <<>>) = [i \in 1 .. Len(<<>>) |-> f[<<>>[i]]]
    BY <2>1, EachFew, Zenon
  <2> QED
    BY <1>1, <2>1, <2>2, Zenon
<1>3. ASSUME NEW q \in P, NEW x \in S PROVE Append(q, x) \in P
  <2>1. q \in Seq(S)
    BY <1>1
  <2>2. PICK a : a = Append(q, x)
    OBVIOUS
  <2>3. PICK n \in Nat : n = Len(q)
    BY <2>1, LenProperties
  <2>4. /\ a \in Seq(S) /\ Len(a) = n + 1 /\ a[n + 1] = x
        /\ \A i \in 1 .. n : a[i] = q[i]
    BY <2>1, <2>2, <2>3, AppendProperties
  <2>5. ASSUME \A i \in 1 .. Len(a) : g[a[i]] = <<f[a[i]]>>
        PROVE  Each(g, a) = [i \in 1 .. Len(a) |-> f[a[i]]]
    <3>1. g[x] = <<f[x]>> /\ \A i \in 1 .. Len(q) : g[q[i]] = <<f[q[i]]>>
      <4>1. n + 1 \in 1 .. Len(a) /\ \A i \in 1 .. n : i \in 1 .. Len(a)
        BY <2>4
      <4>2. g[a[n + 1]] = <<f[a[n + 1]]>>
        BY <2>5, <4>1
      <4>3. ASSUME NEW i \in 1 .. n PROVE g[q[i]] = <<f[q[i]]>>
        <5>1. g[a[i]] = <<f[a[i]]>> /\ a[i] = q[i]
          BY <2>4, <2>5, <4>1
        <5> QED
          BY <5>1
      <4> QED
        BY <2>3, <2>4, <4>2, <4>3
    <3>2. PICK b : b = [i \in 1 .. n |-> f[q[i]]]
      OBVIOUS
    <3>3. Each(g, q) = b
      BY <1>1, <2>3, <3>1, <3>2
    <3>4. Each(g, a) = b \o <<f[x]>>
      BY <2>1, <2>2, <3>1, <3>3, <1>5, Zenon DEF Appends
    <3>5. b \in Seq(T) /\ Len(b) = n /\ f[x] \in T
      <4>1. \A i \in 1 .. n : q[i] \in S
        BY <2>1, <2>3
      <4>2. b \in [1 .. n -> T]
        BY <3>2, <4>1
      <4> QED
        BY <4>2, IsASeq, LenProperties
    <3>6. b \o <<f[x]>> = [i \in 1 .. n + 1 |-> f[a[i]]]
      <4>1. PICK c : c = b \o <<f[x]>>
        OBVIOUS
      <4>2. /\ DOMAIN c = 1 .. n + 1 /\ c[n + 1] = f[x] /\ c \in Seq(T)
            /\ \A i \in 1 .. n : c[i] = b[i]
        BY <3>5, <4>1
      <4>3. ASSUME NEW i \in 1 .. n + 1 PROVE c[i] = f[a[i]]
        <5>1. CASE i = n + 1
          BY <2>4, <4>2, <5>1
        <5>2. CASE i # n + 1
          <6>1. i \in 1 .. n
            BY <5>2
          <6>2. a[i] = q[i] /\ c[i] = b[i] /\ b[i] = f[q[i]]
            BY <2>4, <3>2, <4>2, <6>1
          <6> QED
            BY <6>2
        <5> QED
          BY <5>1, <5>2
      <4> QED
        BY <4>1, <4>2, <4>3
    <3> QED
      BY <2>4, <3>4, <3>6
  <2> QED
    BY <1>1, <2>2, <2>4, <2>5
<1>4. P = Seq(S)
  BY <1>1, <1>2, <1>3, SequenceInduction
<1> QED
  BY <1>1, <1>4 DEF Singles

\* Replacing twice is replacing once.
LEMMA EachOfEach ==
    ASSUME NEW S, NEW T, NEW U, NEW g \in [S -> Seq(T)], NEW k \in [T -> Seq(U)],
           NEW m \in [S -> Seq(U)], \A x \in S : m[x] = Each(k, g[x])
    PROVE  Composes(k, g, m, S)
<1>5. Appends(g, S, T)
  BY EachAppend, Zenon
<1>6. Appends(m, S, U)
  BY EachAppend, Zenon
<1>7. Concats(k, T)
  BY EachConcat, Zenon
<1>1. PICK P : P = {q \in Seq(S) : Each(k, Each(g, q)) = Each(m, q)}
  OBVIOUS
<1>2. <<>> \in P
  <2>1. <<>> \in Seq(S) /\ Each(g, <<>>) = <<>> /\ Each(k, <<>>) = <<>> /\ Each(m, <<>>) = <<>>
    BY EachFew
  <2>2. Each(k, Each(g, <<>>)) = Each(m, <<>>)
    BY <2>1, Zenon
  <2> QED
    BY <1>1, <2>1, <2>2, Zenon
<1>3. ASSUME NEW q \in P, NEW x \in S PROVE Append(q, x) \in P
  <2>1. q \in Seq(S) /\ Each(k, Each(g, q)) = Each(m, q) /\ Append(q, x) \in Seq(S)
    BY <1>1
  <2>2. Each(g, q) \in Seq(T) /\ g[x] \in Seq(T) /\ Each(g, Append(q, x)) = Each(g, q) \o g[x]
    <3>1. g[x] \in Seq(T)
      OBVIOUS
    <3> QED
      BY <2>1, <3>1, <1>5, Zenon DEF Appends
  <2>3. Each(m, Append(q, x)) = Each(m, q) \o m[x]
    BY <2>1, <1>6, Zenon DEF Appends
  <2>4. Each(k, Each(g, q) \o g[x]) = Each(k, Each(g, q)) \o Each(k, g[x])
    BY <2>2, <1>7, Zenon DEF Concats
  <2>5. Each(k, Each(g, Append(q, x))) = Each(m, Append(q, x))
    BY <2>1, <2>2, <2>3, <2>4, Zenon
  <2> QED
    BY <1>1, <2>1, <2>5
<1>4. P = Seq(S)
  BY <1>1, <1>2, <1>3, SequenceInduction
<1> QED
  BY <1>1, <1>4 DEF Composes

\* Two sequences, one behind the other, element by element.
Joins(s, t, u) ==
    /\ u = s \o t
    /\ Len(u) = Len(s) + Len(t)
    /\ \A i \in 1 .. Len(s) : u[i] = s[i]
    /\ \A i \in 1 .. Len(t) : u[Len(s) + i] = t[i]
    /\ \A i \in 1 .. Len(u) : i \in 1 .. Len(s) \/ \E j \in 1 .. Len(t) : i = Len(s) + j

\* There is such a sequence.
LEMMA Joined ==
    ASSUME NEW S, NEW s \in Seq(S), NEW t \in Seq(S)
    PROVE  \E u \in Seq(S) : Joins(s, t, u)
<1>1. PICK j \in Nat, k \in Nat : j = Len(s) /\ k = Len(t)
  BY LenProperties
<1>2. s \o t \in Seq(S) /\ Len(s \o t) = j + k
  BY <1>1
<1>3. PICK u \in Seq(S) : u = s \o t
  BY <1>2
<1>4. \A i \in 1 .. j + k : u[i] = IF i <= j THEN s[i] ELSE t[i - j]
  BY <1>1, <1>3
<1>5. \A i \in 1 .. j : u[i] = s[i]
  BY <1>4
<1>6. ASSUME NEW i \in 1 .. k PROVE u[j + i] = t[i]
  <2>1. j + i \in 1 .. j + k /\ ~(j + i <= j) /\ (j + i) - j = i
    OBVIOUS
  <2> QED
    BY <1>4, <2>1
<1>7. ASSUME NEW i \in 1 .. j + k PROVE i \in 1 .. j \/ \E l \in 1 .. k : i = j + l
  <2>1. CASE i <= j
    BY <2>1
  <2>2. CASE ~(i <= j)
    <3>1. i - j \in 1 .. k /\ i = j + (i - j)
      BY <2>2
    <3> QED
      BY <3>1
  <2> QED
    BY <2>1, <2>2
<1>8. Len(u) = Len(s) + Len(t) /\ \A i \in 1 .. Len(u) : i \in 1 .. j \/ \E l \in 1 .. k : i = j + l
  <2>1. Len(u) = j + k
    BY <1>2, <1>3, Zenon
  <2> QED
    BY <1>1, <1>7, <2>1, Zenon
<1>9. Joins(s, t, u)
  <2>1. (\A i \in 1 .. Len(s) : u[i] = s[i]) /\ \A i \in 1 .. Len(t) : u[Len(s) + i] = t[i]
    BY <1>1, <1>5, <1>6, Zenon
  <2>2. \A i \in 1 .. Len(u) : i \in 1 .. Len(s) \/ \E l \in 1 .. Len(t) : i = Len(s) + l
    BY <1>1, <1>8, Zenon
  <2> QED
    BY <1>3, <1>8, <2>1, <2>2, Zenon DEF Joins
<1> QED
  BY <1>9

-----------------------------------------------------------------------------
(* The conversions, block by block and message by message. *)

AnyReply    == [texts : Seq(Ref), calls : Seq(Call)]
ToolMessages == {m \in AnyRequestMessage : m.role = "tool"}

PartF     == [b \in AnyBlock |-> PartOf(b)]
CallF     == [b \in AnyBlock |-> CallOf(b)]
ResultF   == [b \in AnyBlock |-> ResultOf(b)]
MarkF     == [b \in AnyBlock |-> MarkOf(b)]
TextMarkF == [b \in AnyBlock |-> TextMarkOf(b)]
ConvertF  == [m \in AnyMessage |-> ConvertMessage(m)]
HeardF    == [m \in AnyRequestMessage |-> Heard(m)]
ShownF    == [m \in AnyRequestMessage |-> Marks(m.parts)]
MeantF    == [m \in AnyMessage |-> TextMarks(m.blocks)]

\* What a block becomes, by its type.
LEMMA BlockTypes ==
    /\ PartF \in [AnyBlock -> Seq(AnyBlock)]
    /\ CallF \in [AnyBlock -> Seq(Call)]
    /\ ResultF \in [AnyBlock -> Seq(ToolMessages)]
    /\ MarkF \in [AnyBlock -> Seq(Ref)]
    /\ TextMarkF \in [AnyBlock -> Seq(Ref)]
<1>1. ASSUME NEW b \in AnyBlock PROVE PartOf(b) \in Seq(AnyBlock)
  <2>1. [b EXCEPT !.cached = FALSE] \in AnyBlock
    BY DEF AnyBlock
  <2> QED
    BY <2>1 DEF PartOf
<1>2. ASSUME NEW b \in AnyBlock PROVE CallOf(b) \in Seq(Call)
  <2>1. b.type = "tool_use" => [id |-> b.ref, arguments |-> b.input] \in Call
    BY DEF AnyBlock, Call
  <2> QED
    BY <2>1 DEF CallOf
<1>3. ASSUME NEW b \in AnyBlock PROVE ResultOf(b) \in Seq(ToolMessages)
  <2>1. b.ref \in Ref
    BY DEF AnyBlock
  <2>2. ToolMessage(b.ref) \in ToolMessages
    <3>1. PICK m : m = ToolMessage(b.ref)
      OBVIOUS
    <3>2. m = [role |-> "tool", kind |-> "string", parts |-> <<>>, calls |-> <<>>, answers |-> <<b.ref>>]
      BY <3>1 DEF ToolMessage, Message
    <3>3. <<>> \in Seq(AnyBlock) /\ <<>> \in Seq(Call) /\ <<b.ref>> \in Seq(Ref) /\ Len(<<b.ref>>) = 1
      BY <2>1
    <3>4. m \in [role : {"system", "tool"} \cup Role, kind : {"null", "string", "array"},
                 parts : Seq(AnyBlock), calls : Seq(Call), answers : Seq(Ref)]
      BY <3>2, <3>3
    <3> QED
      BY <3>1, <3>2, <3>3, <3>4 DEF ToolMessages, AnyRequestMessage
  <2> QED
    BY <2>2 DEF ResultOf
<1>4. ASSUME NEW b \in AnyBlock PROVE MarkOf(b) \in Seq(Ref) /\ TextMarkOf(b) \in Seq(Ref)
  <2>1. b.ref \in Ref
    BY DEF AnyBlock
  <2> QED
    BY <2>1 DEF MarkOf, TextMarkOf
<1> QED
  BY <1>1, <1>2, <1>3, <1>4 DEF PartF, CallF, ResultF, MarkF, TextMarkF

\* The operators of the model are such sequences.
LEMMA BlocksEach ==
    ASSUME NEW blocks \in Seq(AnyBlock)
    PROVE  /\ Parts(blocks) = Each(PartF, blocks)
           /\ Calls(blocks) = Each(CallF, blocks)
           /\ Results(blocks) = Each(ResultF, blocks)
           /\ Marks(blocks) = Each(MarkF, blocks)
           /\ TextMarks(blocks) = Each(TextMarkF, blocks)
<1>1. \A i \in DOMAIN blocks : blocks[i] \in AnyBlock
  OBVIOUS
<1>2. [i \in DOMAIN blocks |-> PartOf(blocks[i])] = [i \in DOMAIN blocks |-> PartF[blocks[i]]]
  BY <1>1 DEF PartF
<1>3. [i \in DOMAIN blocks |-> CallOf(blocks[i])] = [i \in DOMAIN blocks |-> CallF[blocks[i]]]
  BY <1>1 DEF CallF
<1>4. [i \in DOMAIN blocks |-> ResultOf(blocks[i])] = [i \in DOMAIN blocks |-> ResultF[blocks[i]]]
  BY <1>1 DEF ResultF
<1>5. [i \in DOMAIN blocks |-> MarkOf(blocks[i])] = [i \in DOMAIN blocks |-> MarkF[blocks[i]]]
  BY <1>1 DEF MarkF
<1>6. [i \in DOMAIN blocks |-> TextMarkOf(blocks[i])] = [i \in DOMAIN blocks |-> TextMarkF[blocks[i]]]
  BY <1>1 DEF TextMarkF
<1> QED
  BY <1>2, <1>3, <1>4, <1>5, <1>6, Zenon DEF Each, Parts, Calls, Results, Marks, TextMarks

\* What the blocks of a message become is typed.
LEMMA BlocksTyped ==
    ASSUME NEW blocks \in Seq(AnyBlock)
    PROVE  /\ Parts(blocks) \in Seq(AnyBlock)
           /\ Calls(blocks) \in Seq(Call)
           /\ Results(blocks) \in Seq(ToolMessages)
           /\ Marks(blocks) \in Seq(Ref)
           /\ TextMarks(blocks) \in Seq(Ref)
<1>1. /\ Appends(PartF, AnyBlock, AnyBlock) /\ Appends(CallF, AnyBlock, Call)
      /\ Appends(ResultF, AnyBlock, ToolMessages) /\ Appends(MarkF, AnyBlock, Ref)
      /\ Appends(TextMarkF, AnyBlock, Ref)
  BY BlockTypes, EachAppend, Zenon
<1> QED
  BY <1>1, BlocksEach, Zenon DEF Appends

\* The message with the texts, images and calls is one of OpenAI's format.
LEMMA BodyTyped ==
    ASSUME NEW m \in AnyMessage
    PROVE  Body(m.role, m.blocks) \in Seq(AnyRequestMessage)
<1>1. m.blocks \in Seq(AnyBlock) /\ m.role \in Role
  BY DEF AnyMessage
<1>2. /\ Parts(m.blocks) \in Seq(AnyBlock) /\ Calls(m.blocks) \in Seq(Call)
      /\ Results(m.blocks) \in Seq(ToolMessages)
  BY <1>1, BlocksTyped
<1>3. Calls(m.blocks) # <<>> => m.role = "assistant"
  <2> SUFFICES ASSUME m.role # "assistant" PROVE Calls(m.blocks) = <<>>
    OBVIOUS
  <2>1. \A i \in 1 .. Len(m.blocks) : m.blocks[i] \in AnyBlock /\ m.blocks[i].type # "tool_use"
    BY <1>1 DEF AnyMessage, Role
  <2>2. \A i \in 1 .. Len(m.blocks) : CallF[m.blocks[i]] = <<>>
    BY <2>1 DEF CallF, CallOf
  <2>3. Each(CallF, m.blocks) = <<>>
    <3>1. Skips(CallF, AnyBlock)
      BY BlockTypes, EachNothing, Zenon
    <3> QED
      BY <1>1, <2>2, <3>1 DEF Skips
  <2> QED
    BY <1>1, <2>3, BlocksEach
<1>4. CASE Parts(m.blocks) = <<>> /\ Calls(m.blocks) = <<>>
  BY <1>4 DEF Body
<1>5. CASE ~(Parts(m.blocks) = <<>> /\ Calls(m.blocks) = <<>>)
  <2> DEFINE c == Content(Parts(m.blocks))
  <2>1. /\ c.kind \in {"null", "string", "array"} /\ c.parts = Parts(m.blocks)
        /\ c.kind = "null" <=> Parts(m.blocks) = <<>>
    BY DEF Content
  <2> HIDE DEF c
  <2>2. Message(m.role, c.kind, c.parts, Calls(m.blocks)) \in AnyRequestMessage
    BY <1>1, <1>2, <1>3, <1>5, <2>1 DEF Message, AnyRequestMessage, Role
  <2> QED
    BY <1>5, <2>2 DEF Body, c
<1> QED
  BY <1>4, <1>5

\* So are all messages a message becomes.
LEMMA ConvertTyped ==
    ASSUME NEW m \in AnyMessage
    PROVE  ConvertMessage(m) \in Seq(AnyRequestMessage)
<1>1. m.blocks \in Seq(AnyBlock) /\ m.role \in Role
  BY DEF AnyMessage
<1>2. Results(m.blocks) \in Seq(ToolMessages)
  BY <1>1, BlocksTyped
<1>3. ASSUME m.shape = "string" PROVE ConvertMessage(m) \in Seq(AnyRequestMessage)
  <2>1. m.blocks # <<>>
    BY <1>1, <1>3 DEF AnyMessage
  <2>2. Message(m.role, "string", m.blocks, <<>>) \in AnyRequestMessage
    BY <1>1, <2>1 DEF Message, AnyRequestMessage, Role
  <2> QED
    BY <1>3, <2>2 DEF ConvertMessage
<1>4. Results(m.blocks) \in Seq(AnyRequestMessage)
  <2>1. ToolMessages \subseteq AnyRequestMessage
    BY DEF ToolMessages
  <2> QED
    BY <1>2, <2>1, SeqMonotonic
<1> QED
  BY <1>3, <1>4, BodyTyped, ConcatProperties DEF ConvertMessage

-----------------------------------------------------------------------------
(* Requests: the system messages, then every message for itself. *)

SystemMessage(b) == Message("system", "string", <<b>>, <<>>)
SystemF == [b \in AnyBlock |-> <<SystemMessage(b)>>]

\* The system messages are one for every text.
LEMMA SystemEach ==
    ASSUME NEW prompt \in Seq(AnyBlock)
    PROVE  /\ SystemF \in [AnyBlock -> Seq(AnyRequestMessage)]
           /\ SystemMessages(prompt) = Each(SystemF, prompt)
           /\ SystemMessages(prompt) \in Seq(AnyRequestMessage)
           /\ \A i \in 1 .. Len(SystemMessages(prompt)) :
                 SystemMessages(prompt)[i].role = "system" /\ SystemMessages(prompt)[i].calls = <<>>
<1> DEFINE one == [b \in AnyBlock |-> SystemMessage(b)]
<1>1. ASSUME NEW b \in AnyBlock PROVE SystemMessage(b) \in AnyRequestMessage
  <2>1. <<b>> \in Seq(AnyBlock) /\ <<b>> # <<>> /\ <<>> \in Seq(Call) /\ <<>> \in Seq(Ref)
    OBVIOUS
  <2> QED
    BY <2>1 DEF SystemMessage, Message, AnyRequestMessage
<1>2. one \in [AnyBlock -> AnyRequestMessage] /\ SystemF \in [AnyBlock -> Seq(AnyRequestMessage)]
  BY <1>1 DEF SystemF
<1>3. PICK n \in Nat : n = Len(prompt) /\ DOMAIN prompt = 1 .. n
  BY LenProperties
<1>4. \A i \in 1 .. n : prompt[i] \in AnyBlock
  BY <1>3
<1>5. \A i \in 1 .. n : SystemF[prompt[i]] = <<one[prompt[i]]>>
  BY <1>4 DEF SystemF
<1>6. Each(SystemF, prompt) = [i \in 1 .. n |-> one[prompt[i]]]
  <2> HIDE DEF one
  <2>1. Singles(SystemF, one, AnyBlock)
    BY <1>2, EachOne, Zenon
  <2> QED
    BY <1>3, <1>5, <2>1 DEF Singles
<1>7. SystemMessages(prompt) = [i \in 1 .. n |-> SystemMessage(prompt[i])]
  BY <1>3, Zenon DEF SystemMessages, SystemMessage
<1>8. [i \in 1 .. n |-> SystemMessage(prompt[i])] = [i \in 1 .. n |-> one[prompt[i]]]
  BY <1>4
<1>9. [i \in 1 .. n |-> SystemMessage(prompt[i])] \in [1 .. n -> AnyRequestMessage]
  BY <1>1, <1>4
<1>10. SystemMessages(prompt) \in Seq(AnyRequestMessage) /\ Len(SystemMessages(prompt)) = n
  BY <1>7, <1>9, IsASeq, LenProperties
<1>11. ASSUME NEW i \in 1 .. n
       PROVE  SystemMessages(prompt)[i].role = "system" /\ SystemMessages(prompt)[i].calls = <<>>
  BY <1>7 DEF SystemMessage, Message
<1> QED
  BY <1>2, <1>6, <1>7, <1>8, <1>10, <1>11

\* What the upstream is sent for a history.
LEMMA ConvertEach ==
    ASSUME NEW prompt \in Seq(AnyBlock), NEW h \in Seq(AnyMessage)
    PROVE  /\ ConvertF \in [AnyMessage -> Seq(AnyRequestMessage)]
           /\ Convert(prompt, h) = SystemMessages(prompt) \o Each(ConvertF, h)
           /\ Each(ConvertF, h) \in Seq(AnyRequestMessage)
           /\ Convert(prompt, h) \in Seq(AnyRequestMessage)
<1>1. ConvertF \in [AnyMessage -> Seq(AnyRequestMessage)]
  BY ConvertTyped DEF ConvertF
<1>2. \A i \in DOMAIN h : h[i] \in AnyMessage
  OBVIOUS
<1>3. [i \in DOMAIN h |-> ConvertMessage(h[i])] = [i \in DOMAIN h |-> ConvertF[h[i]]]
  BY <1>2 DEF ConvertF
<1>4. Convert(prompt, h) = SystemMessages(prompt) \o Each(ConvertF, h)
  BY <1>3, Zenon DEF Convert, Each
<1>5. Appends(ConvertF, AnyMessage, AnyRequestMessage)
  BY <1>1, EachAppend, Zenon
<1>6. Each(ConvertF, h) \in Seq(AnyRequestMessage)
  BY <1>5, Zenon DEF Appends
<1>7. SystemMessages(prompt) \in Seq(AnyRequestMessage)
  BY SystemEach
<1> QED
  BY <1>1, <1>4, <1>6, <1>7, ConcatProperties

\* A message more in the history is its conversion more in the request.
LEMMA ConvertAppend ==
    ASSUME NEW prompt \in Seq(AnyBlock), NEW h \in Seq(AnyMessage), NEW m \in AnyMessage
    PROVE  Convert(prompt, Append(h, m)) = Convert(prompt, h) \o ConvertMessage(m)
<1>1. Appends(ConvertF, AnyMessage, AnyRequestMessage)
  BY ConvertEach, EachAppend, Zenon
<1>2. ConvertF[m] = ConvertMessage(m)
  BY DEF ConvertF
<1>3. Each(ConvertF, Append(h, m)) = Each(ConvertF, h) \o ConvertMessage(m)
  BY <1>1, <1>2, Zenon DEF Appends
<1>4. Append(h, m) \in Seq(AnyMessage)
  OBVIOUS
<1>5. Convert(prompt, Append(h, m)) = SystemMessages(prompt) \o (Each(ConvertF, h) \o ConvertMessage(m))
  BY <1>3, <1>4, ConvertEach
<1>6. /\ SystemMessages(prompt) \in Seq(AnyRequestMessage)
      /\ Each(ConvertF, h) \in Seq(AnyRequestMessage)
      /\ ConvertMessage(m) \in Seq(AnyRequestMessage)
      /\ Convert(prompt, h) = SystemMessages(prompt) \o Each(ConvertF, h)
  BY SystemEach, ConvertEach, ConvertTyped
<1>7. (SystemMessages(prompt) \o Each(ConvertF, h)) \o ConvertMessage(m)
        = SystemMessages(prompt) \o (Each(ConvertF, h) \o ConvertMessage(m))
  <2>1. Associates(SystemMessages(prompt), Each(ConvertF, h), ConvertMessage(m))
    BY <1>6, ConcatAssociates, Zenon
  <2> QED
    BY <2>1, Zenon DEF Associates
<1> QED
  BY <1>5, <1>6, <1>7, Zenon

\* Without a history there are only the system messages.
LEMMA ConvertNothing ==
    ASSUME NEW prompt \in Seq(AnyBlock)
    PROVE  Convert(prompt, <<>>) = SystemMessages(prompt)
<1>1. <<>> \in Seq(AnyMessage)
  OBVIOUS
<1>2. Convert(prompt, <<>>) = SystemMessages(prompt) \o Each(ConvertF, <<>>)
  BY <1>1, ConvertEach
<1>3. ConvertF \in [AnyMessage -> Seq(AnyRequestMessage)]
  BY <1>1, ConvertEach
<1>4. Each(ConvertF, <<>>) = <<>>
  BY <1>3, EachFew
<1> QED
  BY <1>2, <1>4, SystemEach, ConcatEmptySeq

-----------------------------------------------------------------------------
(* Marks. *)

\* The marks a request shows and those a history means are typed.
LEMMA MarkTypes ==
    /\ ShownF \in [AnyRequestMessage -> Seq(Ref)]
    /\ MeantF \in [AnyMessage -> Seq(Ref)]
<1>1. ASSUME NEW m \in AnyRequestMessage PROVE Marks(m.parts) \in Seq(Ref)
  <2>1. m.parts \in Seq(AnyBlock)
    BY DEF AnyRequestMessage
  <2> QED
    BY <2>1, BlocksTyped
<1>2. ASSUME NEW m \in AnyMessage PROVE TextMarks(m.blocks) \in Seq(Ref)
  <2>1. m.blocks \in Seq(AnyBlock)
    BY DEF AnyMessage
  <2> QED
    BY <2>1, BlocksTyped
<1> QED
  BY <1>1, <1>2 DEF ShownF, MeantF

\* The parts of a message have the marks of its texts.
LEMMA PartsMarks ==
    ASSUME NEW blocks \in Seq(AnyBlock)
    PROVE  Marks(Parts(blocks)) = TextMarks(blocks)
<1>1. ASSUME NEW b \in AnyBlock PROVE TextMarkF[b] = Each(MarkF, PartF[b])
  <2>1. PartF[b] = PartOf(b) /\ TextMarkF[b] = TextMarkOf(b)
    BY DEF PartF, TextMarkF
  <2>2. CASE b.type = "text"
    <3>1. PartOf(b) = <<b>> /\ TextMarkOf(b) = MarkOf(b) /\ MarkF[b] = MarkOf(b)
      BY <2>2 DEF PartOf, TextMarkOf, MarkF
    <3>2. Each(MarkF, <<b>>) = MarkF[b]
      BY BlockTypes, EachFew
    <3> QED
      BY <2>1, <3>1, <3>2, Zenon
  <2>3. CASE b.type = "image"
    <3>1. PICK c : c = [b EXCEPT !.cached = FALSE]
      OBVIOUS
    <3>2. c \in AnyBlock /\ ~c.cached
      BY <3>1 DEF AnyBlock
    <3>3. PartOf(b) = <<c>> /\ TextMarkOf(b) = <<>> /\ MarkF[c] = <<>>
      BY <2>3, <3>1, <3>2 DEF PartOf, TextMarkOf, MarkF, MarkOf
    <3>4. Each(MarkF, <<c>>) = MarkF[c]
      BY <3>2, BlockTypes, EachFew
    <3> QED
      BY <2>1, <3>3, <3>4, Zenon
  <2>4. CASE b.type # "text" /\ b.type # "image"
    <3>1. PartOf(b) = <<>> /\ TextMarkOf(b) = <<>>
      BY <2>4 DEF PartOf, TextMarkOf
    <3>2. Each(MarkF, <<>>) = <<>>
      BY BlockTypes, EachFew
    <3> QED
      BY <2>1, <3>1, <3>2, Zenon
  <2> QED
    BY <2>2, <2>3, <2>4
<1>2. Each(MarkF, Each(PartF, blocks)) = Each(TextMarkF, blocks)
  <2>1. Composes(MarkF, PartF, TextMarkF, AnyBlock)
    BY <1>1, BlockTypes, EachOfEach, Zenon
  <2> QED
    BY <2>1, Zenon DEF Composes
<1>3. Parts(blocks) \in Seq(AnyBlock)
  BY BlocksTyped
<1>4. Marks(Parts(blocks)) = Each(MarkF, Parts(blocks))
  BY <1>3, BlocksEach, Zenon
<1> QED
  BY <1>2, <1>4, BlocksEach, Zenon

\* So have the messages it becomes.
LEMMA MessageMarks ==
    ASSUME NEW m \in AnyMessage
    PROVE  Each(ShownF, ConvertMessage(m)) = TextMarks(m.blocks)
<1>1. m.blocks \in Seq(AnyBlock) /\ m.role \in Role
  BY DEF AnyMessage
<1>2. ASSUME NEW x \in AnyRequestMessage
      PROVE  Each(ShownF, <<x>>) = Marks(x.parts)
  <2>1. Each(ShownF, <<x>>) = ShownF[x]
    BY MarkTypes, EachFew
  <2> QED
    BY <2>1 DEF ShownF
<1>3. CASE m.shape = "string"
  <2>1. ConvertMessage(m) = <<Message(m.role, "string", m.blocks, <<>>)>>
    BY <1>3 DEF ConvertMessage
  <2>2. PICK x : x = Message(m.role, "string", m.blocks, <<>>)
    OBVIOUS
  <2>3. x \in AnyRequestMessage /\ x.parts = m.blocks
    <3>1. m.blocks # <<>>
      BY <1>1, <1>3 DEF AnyMessage
    <3> QED
      BY <1>1, <2>2, <3>1 DEF Message, AnyRequestMessage, Role
  <2>4. Each(ShownF, ConvertMessage(m)) = Marks(m.blocks)
    BY <1>2, <2>1, <2>2, <2>3, Zenon
  <2>5. [i \in DOMAIN m.blocks |-> MarkOf(m.blocks[i])] = [i \in DOMAIN m.blocks |-> TextMarkOf(m.blocks[i])]
    <3>1. \A i \in DOMAIN m.blocks : m.blocks[i].type = "text"
      BY <1>1, <1>3 DEF AnyMessage
    <3> QED
      BY <3>1 DEF TextMarkOf
  <2> QED
    BY <2>4, <2>5, Zenon DEF Marks, TextMarks
<1>4. CASE m.shape # "string"
  <2> DEFINE results == Results(m.blocks)
             body    == Body(m.role, m.blocks)
  <2>1. ConvertMessage(m) = results \o body
    BY <1>4 DEF ConvertMessage
  <2>2. results \in Seq(AnyRequestMessage) /\ \A i \in 1 .. Len(results) : results[i].parts = <<>>
    <3>1. results \in Seq(ToolMessages)
      BY <1>1, BlocksTyped
    <3>2. ToolMessages \subseteq AnyRequestMessage /\ \A x \in ToolMessages : x.parts = <<>>
      BY DEF ToolMessages, AnyRequestMessage
    <3> HIDE DEF results
    <3>3. results \in Seq(AnyRequestMessage)
      BY <3>1, <3>2, SeqMonotonic
    <3>4. \A i \in 1 .. Len(results) : results[i] \in ToolMessages
      BY <3>1
    <3> QED
      BY <3>2, <3>3, <3>4
  <2>3. Marks(<<>>) = <<>>
    <3>1. <<>> \in Seq(AnyBlock) /\ Each(MarkF, <<>>) = <<>>
      BY BlockTypes, EachFew
    <3> QED
      BY <3>1, BlocksEach, Zenon
  <2>4. Each(ShownF, results) = <<>>
    <3> HIDE DEF results
    <3>1. \A i \in 1 .. Len(results) : ShownF[results[i]] = <<>>
      <4>1. \A i \in 1 .. Len(results) : results[i] \in AnyRequestMessage
        BY <2>2
      <4>2. \A i \in 1 .. Len(results) : ShownF[results[i]] = Marks(results[i].parts)
        BY <4>1 DEF ShownF
      <4> QED
        BY <2>2, <2>3, <4>2
    <3>2. Skips(ShownF, AnyRequestMessage)
      BY MarkTypes, EachNothing, Zenon
    <3> QED
      BY <2>2, <3>1, <3>2 DEF Skips
  <2>5. body \in Seq(AnyRequestMessage) /\ Each(ShownF, body) = Marks(Parts(m.blocks))
    <3>1. CASE Parts(m.blocks) = <<>> /\ Calls(m.blocks) = <<>>
      <4>1. body = <<>>
        BY <3>1 DEF Body
      <4>2. Each(ShownF, <<>>) = <<>>
        BY MarkTypes, EachFew
      <4> QED
        BY <2>3, <3>1, <4>1, <4>2
    <3>2. CASE ~(Parts(m.blocks) = <<>> /\ Calls(m.blocks) = <<>>)
      <4>1. PICK x : body = <<x>> /\ x.parts = Parts(m.blocks)
        BY <3>2 DEF Body, Content, Message
      <4>2. body \in Seq(AnyRequestMessage)
        BY BodyTyped
      <4>3. x \in AnyRequestMessage
        <5>1. <<x>> \in Seq(AnyRequestMessage) /\ Len(<<x>>) = 1 /\ <<x>>[1] = x
          BY <4>1, <4>2
        <5> QED
          BY <5>1, ElementOfSeq
      <4>4. Each(ShownF, <<x>>) = Marks(x.parts)
        BY <1>2, <4>3
      <4> QED
        BY <4>1, <4>2, <4>4
    <3> QED
      BY <3>1, <3>2
  <2>6. Each(ShownF, results \o body) = Each(ShownF, results) \o Each(ShownF, body)
    <3> HIDE DEF results, body
    <3>1. Concats(ShownF, AnyRequestMessage)
      BY MarkTypes, EachConcat, Zenon
    <3> QED
      BY <2>2, <2>5, <3>1, Zenon DEF Concats
  <2>7. Each(ShownF, results) \o Each(ShownF, body) = TextMarks(m.blocks)
    <3>1. Each(ShownF, body) = TextMarks(m.blocks) /\ TextMarks(m.blocks) \in Seq(Ref)
      BY <1>1, <2>5, PartsMarks, BlocksTyped
    <3> QED
      BY <2>4, <3>1, ConcatEmptySeq
  <2> QED
    BY <2>1, <2>6, <2>7
<1> QED
  BY <1>3, <1>4

\* And the whole request those of the system prompt and the history.
LEMMA RequestMarks ==
    ASSUME NEW prompt \in Seq(AnyBlock), NEW h \in Seq(AnyMessage)
    PROVE  LET r == Convert(prompt, h)
           IN  FlattenSeq([i \in DOMAIN r |-> Marks(r[i].parts)])
               = Marks(prompt) \o FlattenSeq([i \in DOMAIN h |-> TextMarks(h[i].blocks)])
<1> DEFINE r == Convert(prompt, h)
<1>1. /\ r \in Seq(AnyRequestMessage)
      /\ r = Each(SystemF, prompt) \o Each(ConvertF, h)
      /\ SystemF \in [AnyBlock -> Seq(AnyRequestMessage)]
      /\ ConvertF \in [AnyMessage -> Seq(AnyRequestMessage)]
      /\ Each(SystemF, prompt) \in Seq(AnyRequestMessage)
      /\ Each(ConvertF, h) \in Seq(AnyRequestMessage)
  BY ConvertEach, SystemEach
<1>2. FlattenSeq([i \in DOMAIN r |-> Marks(r[i].parts)]) = Each(ShownF, r)
  <2> HIDE DEF r
  <2>1. \A i \in DOMAIN r : r[i] \in AnyRequestMessage
    BY <1>1
  <2>2. [i \in DOMAIN r |-> Marks(r[i].parts)] = [i \in DOMAIN r |-> ShownF[r[i]]]
    BY <2>1 DEF ShownF
  <2> QED
    BY <2>2, Zenon DEF Each
<1>3. FlattenSeq([i \in DOMAIN h |-> TextMarks(h[i].blocks)]) = Each(MeantF, h)
  <2>1. \A i \in DOMAIN h : h[i] \in AnyMessage
    OBVIOUS
  <2>2. [i \in DOMAIN h |-> TextMarks(h[i].blocks)] = [i \in DOMAIN h |-> MeantF[h[i]]]
    BY <2>1 DEF MeantF
  <2> QED
    BY <2>2, Zenon DEF Each
<1>4. Each(ShownF, Each(SystemF, prompt)) = Each(MarkF, prompt)
  <2>1. ASSUME NEW b \in AnyBlock PROVE MarkF[b] = Each(ShownF, SystemF[b])
    <3>1. PICK x : x = SystemMessage(b)
      OBVIOUS
    <3>2. SystemF[b] = <<x>> /\ x.parts = <<b>>
      BY <3>1 DEF SystemF, SystemMessage, Message
    <3>3. x \in AnyRequestMessage
      <4>1. <<x>> \in Seq(AnyRequestMessage)
        BY <1>1, <3>2
      <4>2. Len(<<x>>) = 1 /\ <<x>>[1] = x
        OBVIOUS
      <4> QED
        BY <4>1, <4>2, ElementOfSeq
    <3>4. Each(ShownF, <<x>>) = Marks(<<b>>)
      <4>1. Each(ShownF, <<x>>) = ShownF[x]
        BY <3>3, MarkTypes, EachFew
      <4> QED
        BY <3>2, <3>3, <4>1 DEF ShownF
    <3>5. Marks(<<b>>) = Each(MarkF, <<b>>)
      <4>1. <<b>> \in Seq(AnyBlock)
        OBVIOUS
      <4> QED
        BY <4>1, BlocksEach, Zenon
    <3>6. Each(MarkF, <<b>>) = MarkF[b]
      BY BlockTypes, EachFew
    <3> QED
      BY <3>2, <3>4, <3>5, <3>6, Zenon
  <2>2. Composes(ShownF, SystemF, MarkF, AnyBlock)
    BY <1>1, <2>1, BlockTypes, MarkTypes, EachOfEach, Zenon
  <2> QED
    BY <2>2, Zenon DEF Composes
<1>5. Each(ShownF, Each(ConvertF, h)) = Each(MeantF, h)
  <2>1. ASSUME NEW m \in AnyMessage PROVE MeantF[m] = Each(ShownF, ConvertF[m])
    BY MessageMarks DEF MeantF, ConvertF
  <2>2. Composes(ShownF, ConvertF, MeantF, AnyMessage)
    BY <1>1, <2>1, MarkTypes, EachOfEach, Zenon
  <2> QED
    BY <2>2, Zenon DEF Composes
<1>6. Each(ShownF, Each(SystemF, prompt) \o Each(ConvertF, h))
        = Each(ShownF, Each(SystemF, prompt)) \o Each(ShownF, Each(ConvertF, h))
  <2> HIDE DEF r
  <2>1. Concats(ShownF, AnyRequestMessage)
    BY MarkTypes, EachConcat, Zenon
  <2> QED
    BY <1>1, <2>1, Zenon DEF Concats
<1>7. Marks(prompt) = Each(MarkF, prompt)
  BY BlocksEach
<1>8. Each(ShownF, r) = Each(MarkF, prompt) \o Each(MeantF, h)
  <2> HIDE DEF r
  <2> QED
    BY <1>1, <1>4, <1>5, <1>6, Zenon
<1> QED
  BY <1>2, <1>3, <1>7, <1>8, Zenon

-----------------------------------------------------------------------------
(* What the client writes and what the upstream answers. *)

CallsIn(uses) == [i \in 1 .. Len(uses) |-> [id |-> uses[i].ref, arguments |-> uses[i].input]]

\* The calls of the last message that its stop_reason asks to answer.
DueIn(h, reason) == IF reason = "tool_use" /\ h # <<>> THEN Calls(Last(h).blocks) ELSE <<>>

\* The places of a user's notes and of a system prompt's texts.
Places == {"system", "before", "after", "answer", "thought"}

\* Texts and images are blocks.
LEMMA WrittenTyped ==
    ASSUME NEW notes \in Seq(Note), NEW n \in Nat, NEW place \in Places
    PROVE  /\ Written(notes, n, place) \in Seq(AnyBlock)
           /\ Len(Written(notes, n, place)) = Len(notes)
           /\ \A i \in 1 .. Len(notes) :
                 /\ Written(notes, n, place)[i].type = notes[i].type
                 /\ Written(notes, n, place)[i].cached = notes[i].cached
                 /\ Written(notes, n, place)[i].type \in {"text", "image"}
<1>1. PICK k \in Nat : k = Len(notes) /\ DOMAIN notes = 1 .. k
  BY LenProperties
<1>2. ASSUME NEW i \in 1 .. k
      PROVE  /\ [Block(notes[i].type, <<place, n, i>>) EXCEPT !.cached = notes[i].cached]
                  = [type |-> notes[i].type, ref |-> <<place, n, i>>, cached |-> notes[i].cached, input |-> "none"]
             /\ [type |-> notes[i].type, ref |-> <<place, n, i>>, cached |-> notes[i].cached, input |-> "none"]
                  \in AnyBlock
             /\ notes[i].type \in {"text", "image"}
  <2>1. notes[i] \in Note
    BY <1>1
  <2>2. notes[i].type \in {"text", "image"} /\ notes[i].cached \in BOOLEAN
    BY <2>1 DEF Note
  <2>3. <<place, n, i>> \in Ref
    BY DEF Ref, Places
  <2> QED
    <3>1. PICK type \in {"text", "image"}, cached \in BOOLEAN, ref \in Ref :
             notes[i].type = type /\ notes[i].cached = cached /\ <<place, n, i>> = ref
      BY <2>2, <2>3
    <3>2. [Block(type, ref) EXCEPT !.cached = cached]
             = [type |-> type, ref |-> ref, cached |-> cached, input |-> "none"]
      BY DEF Block
    <3>3. [type |-> type, ref |-> ref, cached |-> cached, input |-> "none"] \in AnyBlock
      BY DEF AnyBlock
    <3> QED
      BY <2>2, <3>1, <3>2, <3>3, Zenon
<1>3. PICK w : w = Written(notes, n, place)
  OBVIOUS
<1>4. w = [i \in 1 .. k |-> [Block(notes[i].type, <<place, n, i>>) EXCEPT !.cached = notes[i].cached]]
  BY <1>1, <1>3, Zenon DEF Written
<1>5. \A i \in 1 .. k :
         w[i] = [type |-> notes[i].type, ref |-> <<place, n, i>>, cached |-> notes[i].cached, input |-> "none"]
  BY <1>2, <1>4
<1>6. w \in [1 .. k -> AnyBlock]
  BY <1>2, <1>4
<1>7. w \in Seq(AnyBlock) /\ Len(w) = k
  BY <1>6, IsASeq, LenProperties
<1>8. ASSUME NEW i \in 1 .. k
      PROVE  w[i].type = notes[i].type /\ w[i].cached = notes[i].cached /\ w[i].type \in {"text", "image"}
  <2>1. PICK v : v = w[i]
    OBVIOUS
  <2>2. v = [type |-> notes[i].type, ref |-> <<place, n, i>>, cached |-> notes[i].cached, input |-> "none"]
    BY <1>5, <2>1, Zenon
  <2>3. v.type = notes[i].type /\ v.cached = notes[i].cached
    BY <2>2
  <2> QED
    BY <1>2, <2>1, <2>3
<1>9. /\ w \in Seq(AnyBlock) /\ Len(w) = Len(notes)
      /\ \A i \in 1 .. Len(notes) :
            w[i].type = notes[i].type /\ w[i].cached = notes[i].cached /\ w[i].type \in {"text", "image"}
  BY <1>1, <1>7, <1>8
<1> QED
  BY <1>3, <1>9, Zenon

\* The texts of an answer are blocks.
LEMMA SpokenTyped ==
    ASSUME NEW a \in Answer, NEW n \in Nat
    PROVE  /\ Spoken(a, n) \in Seq(AnyBlock)
           /\ Len(Spoken(a, n)) = a.texts + (IF a.refusal THEN 1 ELSE 0)
           /\ \A i \in 1 .. Len(Spoken(a, n)) :
                 Spoken(a, n)[i].type = "text" /\ Spoken(a, n)[i].ref = <<"answer", n, i>>
<1>1. PICK k \in Nat : k = a.texts + (IF a.refusal THEN 1 ELSE 0)
  BY DEF Answer
<1>2. ASSUME NEW i \in 1 .. k
      PROVE  Block("text", <<"answer", n, i>>) \in AnyBlock
  <2>1. <<"answer", n, i>> \in Ref
    BY DEF Ref
  <2> QED
    BY <2>1 DEF Block, AnyBlock
<1>3. Spoken(a, n) = [i \in 1 .. k |-> Block("text", <<"answer", n, i>>)]
  BY <1>1 DEF Spoken
<1>4. Spoken(a, n) \in [1 .. k -> AnyBlock]
  BY <1>2, <1>3
<1>5. Spoken(a, n) \in Seq(AnyBlock) /\ Len(Spoken(a, n)) = k
  BY <1>4, IsASeq, LenProperties
<1>6. \A i \in 1 .. k : Spoken(a, n)[i].type = "text" /\ Spoken(a, n)[i].ref = <<"answer", n, i>>
  BY <1>3 DEF Block
<1> QED
  BY <1>1, <1>5, <1>6

\* So are its tool calls.
LEMMA ToolUsesTyped ==
    ASSUME NEW a \in Answer, NEW n \in Nat
    PROVE  /\ ToolUses(a, n) \in Seq(AnyBlock)
           /\ \A i \in 1 .. Len(ToolUses(a, n)) : ToolUses(a, n)[i].type = "tool_use"
           /\ a.calls # <<>> =>
                 /\ Len(ToolUses(a, n)) = Len(a.calls)
                 /\ \A i \in 1 .. Len(a.calls) :
                       ToolUses(a, n)[i].ref = <<n, i>> /\ ToolUses(a, n)[i].input = Input(a.calls[i])
           /\ a.calls = <<>> /\ a.function_call = "none" => ToolUses(a, n) = <<>>
           /\ a.calls = <<>> /\ a.function_call # "none" =>
                 /\ Len(ToolUses(a, n)) = 1 /\ ToolUses(a, n)[1].ref = NoId
                 /\ ToolUses(a, n)[1].input =
                      IF a.function_call = "value" THEN "object" ELSE Input(a.function_call)
<1>1. ASSUME NEW id \in Ref, NEW input \in {"object", "empty"}
      PROVE  /\ ToolUse(id, input) \in AnyBlock
             /\ ToolUse(id, input).type = "tool_use" /\ ToolUse(id, input).ref = id
             /\ ToolUse(id, input).input = input
  BY DEF ToolUse, Block, AnyBlock
<1>2. \A x : Input(x) \in {"object", "empty"}
  BY DEF Input
<1>3. CASE a.calls # <<>>
  <2>1. PICK k \in Nat : k = Len(a.calls) /\ DOMAIN a.calls = 1 .. k
    BY LenProperties DEF Answer
  <2>2. ASSUME NEW i \in 1 .. k PROVE <<n, i>> \in Ref
    BY DEF Ref
  <2>3. ToolUses(a, n) = [i \in 1 .. k |-> ToolUse(<<n, i>>, Input(a.calls[i]))]
    BY <1>3, <2>1 DEF ToolUses
  <2>4. \A i \in 1 .. k :
           /\ ToolUse(<<n, i>>, Input(a.calls[i])) \in AnyBlock
           /\ ToolUse(<<n, i>>, Input(a.calls[i])).type = "tool_use"
           /\ ToolUse(<<n, i>>, Input(a.calls[i])).ref = <<n, i>>
           /\ ToolUse(<<n, i>>, Input(a.calls[i])).input = Input(a.calls[i])
    BY <1>1, <1>2, <2>2
  <2>5. ToolUses(a, n) \in [1 .. k -> AnyBlock]
    BY <2>3, <2>4
  <2>6. ToolUses(a, n) \in Seq(AnyBlock) /\ Len(ToolUses(a, n)) = k
    BY <2>5, IsASeq, LenProperties
  <2> QED
    BY <1>3, <2>1, <2>3, <2>4, <2>6
<1>4. CASE a.calls = <<>> /\ a.function_call = "none"
  BY <1>4 DEF ToolUses, FunctionCall
<1>5. CASE a.calls = <<>> /\ a.function_call # "none"
  <2>1. PICK input : input = IF a.function_call = "value" THEN "object" ELSE Input(a.function_call)
    OBVIOUS
  <2>2. NoId \in Ref /\ input \in {"object", "empty"}
    BY <1>2, <2>1 DEF Ref
  <2>3. PICK b : b = ToolUse(NoId, input)
    OBVIOUS
  <2>4. b \in AnyBlock /\ b.type = "tool_use" /\ b.ref = NoId /\ b.input = input
    BY <1>1, <2>2, <2>3
  <2>5. ToolUses(a, n) = <<b>>
    BY <1>5, <2>1, <2>3 DEF ToolUses, FunctionCall
  <2> QED
    BY <1>5, <2>1, <2>4, <2>5
<1> QED
  BY <1>3, <1>4, <1>5

\* A message as Reply builds it from answer n, with or without a thought.
Replied(m, a, n) ==
    \E thoughts \in {<<>>, <<Block("thinking", <<"thought", n, 0>>)>>} :
       m = [role |-> "assistant", shape |-> "blocks", blocks |-> thoughts \o Blocks(a, n)]

\* It becomes what was said and the calls, without results.
LEMMA ReplyMessage ==
    ASSUME NEW a \in Answer, NEW n \in Nat, NEW m, Replied(m, a, n)
    PROVE  /\ m \in AnyMessage
           /\ Results(m.blocks) = <<>>
           /\ Parts(m.blocks) = Spoken(a, n)
           /\ Calls(m.blocks) = CallsIn(ToolUses(a, n))
<1>0. PICK thoughts \in {<<>>, <<Block("thinking", <<"thought", n, 0>>)>>} :
         m = [role |-> "assistant", shape |-> "blocks", blocks |-> thoughts \o Blocks(a, n)]
  BY Zenon DEF Replied
<1> DEFINE spoken == Spoken(a, n)
           uses   == ToolUses(a, n)
<1>1. /\ spoken \in Seq(AnyBlock) /\ uses \in Seq(AnyBlock)
      /\ \A i \in 1 .. Len(spoken) : spoken[i].type = "text"
      /\ \A i \in 1 .. Len(uses) : uses[i].type = "tool_use"
  BY SpokenTyped, ToolUsesTyped
<1>2. m.blocks = thoughts \o (spoken \o uses) /\ m.role = "assistant" /\ m.shape = "blocks"
  BY <1>0 DEF Blocks
<1> HIDE DEF spoken, uses
<1>3. thoughts \in Seq(AnyBlock) /\ \A i \in 1 .. Len(thoughts) : thoughts[i].type = "thinking"
  <2>1. Block("thinking", <<"thought", n, 0>>) \in AnyBlock
    <3>1. <<"thought", n, 0>> \in Ref
      BY DEF Ref
    <3> QED
      BY <3>1 DEF Block, AnyBlock
  <2>2. Block("thinking", <<"thought", n, 0>>).type = "thinking"
    BY DEF Block
  <2>3. PICK thought \in AnyBlock : thought = Block("thinking", <<"thought", n, 0>>) /\ thought.type = "thinking"
    BY <2>1, <2>2
  <2>4. CASE thoughts = <<>>
    BY <2>4
  <2>5. CASE thoughts = <<thought>>
    BY <2>3, <2>5
  <2>6. thoughts = <<>> \/ thoughts = <<thought>>
    BY <2>3, Zenon
  <2> QED
    BY <2>4, <2>5, <2>6
<1>4. spoken \o uses \in Seq(AnyBlock) /\ m.blocks \in Seq(AnyBlock)
  <2>1. spoken \o uses \in Seq(AnyBlock)
    BY <1>1
  <2>2. PICK t \in Seq(AnyBlock) : t = spoken \o uses
    BY <2>1
  <2>3. thoughts \in Seq(AnyBlock)
    BY <1>3
  <2>4. thoughts \o t \in Seq(AnyBlock)
    BY <2>3
  <2> QED
    BY <1>2, <2>2, <2>4, Zenon
<1>5. m \in AnyMessage
  <2>1. PICK t \in Seq(AnyBlock) : Joins(spoken, uses, t)
    BY <1>1, Joined, Zenon
  <2>2. PICK b \in Seq(AnyBlock) : Joins(thoughts, t, b)
    BY <1>3, Joined, Zenon
  <2>3. t = spoken \o uses /\ b = thoughts \o t
    BY <2>1, <2>2, Zenon DEF Joins
  <2>4. ASSUME NEW i \in 1 .. Len(t) PROVE t[i].type \in {"text", "tool_use"}
    <3>1. i \in 1 .. Len(spoken) \/ \E y \in 1 .. Len(uses) : i = Len(spoken) + y
      BY <2>1, Zenon DEF Joins
    <3>2. CASE i \in 1 .. Len(spoken)
      <4>1. t[i] = spoken[i] /\ spoken[i].type = "text"
        BY <1>1, <2>1, <3>2, Zenon DEF Joins
      <4> QED
        BY <4>1
    <3>3. ASSUME NEW y \in 1 .. Len(uses), i = Len(spoken) + y PROVE t[i].type \in {"text", "tool_use"}
      <4>1. t[i] = uses[y] /\ uses[y].type = "tool_use"
        BY <1>1, <2>1, <3>3, Zenon DEF Joins
      <4> QED
        BY <4>1
    <3> QED
      BY <3>1, <3>2, <3>3, Zenon
  <2>7. ASSUME NEW i \in 1 .. Len(b) PROVE b[i].type \in {"text", "thinking", "tool_use"}
    <3>1. i \in 1 .. Len(thoughts) \/ \E y \in 1 .. Len(t) : i = Len(thoughts) + y
      BY <2>2, Zenon DEF Joins
    <3>2. CASE i \in 1 .. Len(thoughts)
      <4>1. b[i] = thoughts[i] /\ thoughts[i].type = "thinking"
        BY <1>3, <2>2, <3>2, Zenon DEF Joins
      <4> QED
        BY <4>1
    <3>3. ASSUME NEW y \in 1 .. Len(t), i = Len(thoughts) + y PROVE b[i].type \in {"text", "thinking", "tool_use"}
      <4>1. b[i] = t[y] /\ t[y].type \in {"text", "tool_use"}
        BY <2>2, <2>4, <3>3, Zenon DEF Joins
      <4> QED
        BY <4>1
    <3> QED
      BY <3>1, <3>2, <3>3, Zenon
  <2>8. m = [role |-> "assistant", shape |-> "blocks", blocks |-> b]
    BY <1>0, <1>2, <2>3, Zenon
  <2>9. m \in [role : Role, shape : Shape, blocks : Seq(AnyBlock)]
    <3>1. "assistant" \in Role /\ "blocks" \in Shape
      BY DEF Role, Shape
    <3>2. \A B : \A x \in B : [role |-> "assistant", shape |-> "blocks", blocks |-> x]
                                \in [role : Role, shape : Shape, blocks : B]
      BY <3>1
    <3> QED
      BY <2>8, <3>2, Zenon
  <2>10. m.blocks = b /\ m.role = "assistant" /\ m.shape = "blocks"
    BY <2>8
  <2>11. \A i \in DOMAIN m.blocks : m.blocks[i].type \in {"text", "thinking", "tool_use"}
    <3>1. DOMAIN b = 1 .. Len(b)
      BY LenProperties
    <3> QED
      BY <2>7, <2>10, <3>1, Zenon
  <2> QED
    BY <2>9, <2>10, <2>11 DEF AnyMessage
<1>6. ASSUME NEW T, NEW g \in [AnyBlock -> Seq(T)]
      PROVE  Each(g, m.blocks) = Each(g, thoughts) \o (Each(g, spoken) \o Each(g, uses))
  <2>1. Concats(g, AnyBlock)
    BY <1>6, EachConcat, Zenon
  <2>2. Each(g, spoken \o uses) = Each(g, spoken) \o Each(g, uses)
    BY <1>1, <2>1, Zenon DEF Concats
  <2>3. Each(g, thoughts \o (spoken \o uses)) = Each(g, thoughts) \o Each(g, spoken \o uses)
    BY <1>3, <1>4, <2>1, Zenon DEF Concats
  <2> QED
    BY <1>2, <2>2, <2>3, Zenon
<1>7. /\ Skips(PartF, AnyBlock) /\ Skips(CallF, AnyBlock) /\ Skips(ResultF, AnyBlock)
  BY BlockTypes, EachNothing, Zenon
<1>8. ASSUME NEW s \in Seq(AnyBlock), \A i \in 1 .. Len(s) : s[i].type \notin {"text", "image"}
      PROVE  Each(PartF, s) = <<>>
  <2>1. \A i \in 1 .. Len(s) : s[i] \in AnyBlock
    BY <1>8
  <2>2. \A i \in 1 .. Len(s) : PartF[s[i]] = <<>>
    BY <1>8, <2>1 DEF PartF, PartOf
  <2> QED
    BY <1>7, <1>8, <2>2 DEF Skips
<1>9. ASSUME NEW s \in Seq(AnyBlock), \A i \in 1 .. Len(s) : s[i].type # "tool_use"
      PROVE  Each(CallF, s) = <<>>
  <2>1. \A i \in 1 .. Len(s) : s[i] \in AnyBlock
    BY <1>9
  <2>2. \A i \in 1 .. Len(s) : CallF[s[i]] = <<>>
    BY <1>9, <2>1 DEF CallF, CallOf
  <2> QED
    BY <1>7, <1>9, <2>2 DEF Skips
<1>10. ASSUME NEW s \in Seq(AnyBlock), \A i \in 1 .. Len(s) : s[i].type # "tool_result"
       PROVE  Each(ResultF, s) = <<>>
  <2>1. \A i \in 1 .. Len(s) : s[i] \in AnyBlock
    BY <1>10
  <2>2. \A i \in 1 .. Len(s) : ResultF[s[i]] = <<>>
    BY <1>10, <2>1 DEF ResultF, ResultOf
  <2> QED
    BY <1>7, <1>10, <2>2 DEF Skips
<1>11. Each(PartF, spoken) = spoken
  <2> DEFINE same == [b \in AnyBlock |-> b]
  <2>1. same \in [AnyBlock -> AnyBlock]
    OBVIOUS
  <2>2. \A i \in 1 .. Len(spoken) : spoken[i] \in AnyBlock
    BY <1>1
  <2>3. \A i \in 1 .. Len(spoken) : PartF[spoken[i]] = <<same[spoken[i]]>>
    BY <1>1, <2>2 DEF PartF, PartOf
  <2>4. [i \in 1 .. Len(spoken) |-> same[spoken[i]]] = spoken
    BY <1>1, <2>2
  <2> HIDE DEF same
  <2>5. Singles(PartF, same, AnyBlock)
    BY <2>1, BlockTypes, EachOne, Zenon
  <2> QED
    BY <1>1, <2>3, <2>4, <2>5 DEF Singles
<1>12. Each(CallF, uses) = CallsIn(uses)
  <2> DEFINE call == [b \in AnyBlock |-> IF b.type = "tool_use" THEN [id |-> b.ref, arguments |-> b.input]
                                         ELSE [id |-> NoId, arguments |-> "empty"]]
  <2>1. call \in [AnyBlock -> Call]
    BY DEF AnyBlock, Call, Ref
  <2>2. \A i \in 1 .. Len(uses) : uses[i] \in AnyBlock
    BY <1>1
  <2>3. \A i \in 1 .. Len(uses) : call[uses[i]] = [id |-> uses[i].ref, arguments |-> uses[i].input]
    BY <1>1, <2>2
  <2>4. \A i \in 1 .. Len(uses) : CallF[uses[i]] = <<call[uses[i]]>>
    BY <1>1, <2>2, <2>3 DEF CallF, CallOf
  <2>5. [i \in 1 .. Len(uses) |-> call[uses[i]]] = CallsIn(uses)
    BY <2>3 DEF CallsIn
  <2> HIDE DEF call
  <2>6. Singles(CallF, call, AnyBlock)
    BY <2>1, BlockTypes, EachOne, Zenon
  <2> QED
    BY <1>1, <2>4, <2>5, <2>6 DEF Singles
<1>13. Each(CallF, uses) \in Seq(Call)
  <2>1. Appends(CallF, AnyBlock, Call)
    BY BlockTypes, EachAppend, Zenon
  <2> QED
    BY <1>1, <2>1, Zenon DEF Appends
<1>14. Each(PartF, m.blocks) = <<>> \o (spoken \o <<>>)
  <2>1. Each(PartF, thoughts) = <<>> /\ Each(PartF, uses) = <<>>
    BY <1>1, <1>3, <1>8
  <2>2. Each(PartF, m.blocks) = Each(PartF, thoughts) \o (Each(PartF, spoken) \o Each(PartF, uses))
    BY <1>6, BlockTypes, Zenon
  <2> QED
    BY <1>11, <2>1, <2>2, Zenon
<1>15. Each(CallF, m.blocks) = <<>> \o (<<>> \o Each(CallF, uses))
  <2>1. Each(CallF, thoughts) = <<>> /\ Each(CallF, spoken) = <<>>
    BY <1>1, <1>3, <1>9
  <2>2. Each(CallF, m.blocks) = Each(CallF, thoughts) \o (Each(CallF, spoken) \o Each(CallF, uses))
    BY <1>6, BlockTypes, Zenon
  <2> QED
    BY <2>1, <2>2, Zenon
<1>16. Each(ResultF, m.blocks) = <<>> \o (<<>> \o <<>>)
  <2>1. Each(ResultF, thoughts) = <<>> /\ Each(ResultF, spoken) = <<>> /\ Each(ResultF, uses) = <<>>
    BY <1>1, <1>3, <1>10
  <2>2. Each(ResultF, m.blocks) = Each(ResultF, thoughts) \o (Each(ResultF, spoken) \o Each(ResultF, uses))
    BY <1>6, BlockTypes, Zenon
  <2> QED
    BY <2>1, <2>2, Zenon
<1>17. <<>> \o (spoken \o <<>>) = spoken
  BY <1>1, ConcatEmptySeq
<1>18. <<>> \o (<<>> \o Each(CallF, uses)) = Each(CallF, uses)
  BY <1>13, ConcatEmptySeq
<1>19. <<>> \o (<<>> \o <<>>) = <<>>
  OBVIOUS
<1>20. /\ Parts(m.blocks) = Each(PartF, m.blocks) /\ Calls(m.blocks) = Each(CallF, m.blocks)
       /\ Results(m.blocks) = Each(ResultF, m.blocks)
  BY <1>4, BlocksEach
<1>21. Parts(m.blocks) = spoken /\ Results(m.blocks) = <<>> /\ Calls(m.blocks) = CallsIn(uses)
  BY <1>12, <1>14, <1>15, <1>16, <1>17, <1>18, <1>19, <1>20, Zenon
<1> QED
  BY <1>5, <1>21 DEF spoken, uses

-----------------------------------------------------------------------------
(* What a message becomes, whatever its shape. *)

\* The results, and behind them one message with the texts and calls, if any.
LEMMA ConvertIs ==
    ASSUME NEW m \in AnyMessage
    PROVE  \/ /\ Parts(m.blocks) = <<>> /\ Calls(m.blocks) = <<>>
              /\ ConvertMessage(m) = Results(m.blocks)
           \/ \E x \in AnyRequestMessage :
                 /\ x.role = m.role /\ x.parts = Parts(m.blocks) /\ x.calls = Calls(m.blocks)
                 /\ ConvertMessage(m) = Append(Results(m.blocks), x)
<1>1. m.blocks \in Seq(AnyBlock) /\ m.role \in Role
  BY DEF AnyMessage
<1>2. PICK results \in Seq(ToolMessages) : results = Results(m.blocks)
  BY <1>1, BlocksTyped
<1>3. CASE m.shape = "string"
  <2>1. PICK b \in AnyBlock : m.blocks = <<b>> /\ b.type = "text"
    <3>1. m.blocks[1] \in AnyBlock /\ m.blocks = <<m.blocks[1]>> /\ m.blocks[1].type = "text"
      BY <1>1, <1>3 DEF AnyMessage
    <3> QED
      BY <3>1
  <2>2. PartF[b] = <<b>> /\ CallF[b] = <<>> /\ ResultF[b] = <<>>
    BY <2>1 DEF PartF, CallF, ResultF, PartOf, CallOf, ResultOf
  <2>3. /\ Each(PartF, <<b>>) = PartF[b] /\ Each(CallF, <<b>>) = CallF[b]
        /\ Each(ResultF, <<b>>) = ResultF[b]
    <3>1. Each(PartF, <<b>>) = PartF[b]
      BY BlockTypes, EachFew
    <3>2. Each(CallF, <<b>>) = CallF[b]
      BY BlockTypes, EachFew
    <3>3. Each(ResultF, <<b>>) = ResultF[b]
      BY BlockTypes, EachFew
    <3> QED
      BY <3>1, <3>2, <3>3
  <2>4. Parts(m.blocks) = <<b>> /\ Calls(m.blocks) = <<>> /\ Results(m.blocks) = <<>>
    BY <1>1, <2>1, <2>2, <2>3, BlocksEach
  <2>5. PICK x : x = Message(m.role, "string", m.blocks, <<>>)
    OBVIOUS
  <2>6. x \in AnyRequestMessage
    <3>1. m.blocks # <<>>
      BY <2>1
    <3> QED
      BY <1>1, <2>5, <3>1 DEF Message, AnyRequestMessage, Role
  <2>7. x.role = m.role /\ x.parts = <<b>> /\ x.calls = <<>>
    BY <2>1, <2>5 DEF Message
  <2>8. ConvertMessage(m) = <<x>>
    BY <1>3, <2>5, Zenon DEF ConvertMessage
  <2>9. Append(<<>>, x) = <<x>>
    OBVIOUS
  <2> QED
    BY <2>4, <2>6, <2>7, <2>8, <2>9, Zenon
<1>4. CASE m.shape # "string"
  <2>1. ConvertMessage(m) = results \o Body(m.role, m.blocks)
    BY <1>2, <1>4 DEF ConvertMessage
  <2>2. CASE Parts(m.blocks) = <<>> /\ Calls(m.blocks) = <<>>
    <3>1. Body(m.role, m.blocks) = <<>>
      BY <2>2 DEF Body
    <3>2. results \o <<>> = results
      BY ConcatEmptySeq
    <3> QED
      BY <1>2, <2>1, <2>2, <3>1, <3>2, Zenon
  <2>3. CASE ~(Parts(m.blocks) = <<>> /\ Calls(m.blocks) = <<>>)
    <3>1. PICK x : /\ Body(m.role, m.blocks) = <<x>> /\ x.role = m.role
                   /\ x.parts = Parts(m.blocks) /\ x.calls = Calls(m.blocks)
      BY <2>3 DEF Body, Content, Message
    <3>2. x \in AnyRequestMessage
      <4>1. <<x>> \in Seq(AnyRequestMessage)
        BY <3>1, BodyTyped
      <4>2. Len(<<x>>) = 1 /\ <<x>>[1] = x
        OBVIOUS
      <4> QED
        BY <4>1, <4>2, ElementOfSeq
    <3>3. results \o <<x>> = Append(results, x)
      OBVIOUS
    <3> QED
      BY <1>2, <2>1, <3>1, <3>2, <3>3, Zenon
  <2> QED
    BY <2>2, <2>3
<1> QED
  BY <1>3, <1>4

-----------------------------------------------------------------------------
(* The user's turn. *)

Given(due, order)  == [i \in DOMAIN due |-> Block("tool_result", due[order[i]].id)]
Paired(due, order) == [i \in 1 .. Len(due) |-> ToolMessage(due[order[i]].id)]

\* The results a user brings are blocks, and become the tool messages.
LEMMA GivenTyped ==
    ASSUME NEW due \in Seq(Call), NEW order \in Bijection(DOMAIN due, DOMAIN due)
    PROVE  /\ Given(due, order) \in Seq(AnyBlock)
           /\ Len(Given(due, order)) = Len(due)
           /\ \A i \in 1 .. Len(due) : Given(due, order)[i].type = "tool_result"
           /\ Each(ResultF, Given(due, order)) = Paired(due, order)
<1>1. PICK k \in Nat : k = Len(due) /\ DOMAIN due = 1 .. k
  BY LenProperties
<1>2. \A i \in 1 .. k : due[order[i]].id \in Ref
  <2>1. \A i \in 1 .. k : order[i] \in 1 .. k
    BY <1>1 DEF Bijection, Injection
  <2>2. \A i \in 1 .. k : due[i] \in Call
    BY <1>1
  <2> QED
    BY <2>1, <2>2 DEF Call
<1>3. ASSUME NEW id \in Ref
      PROVE  /\ Block("tool_result", id) \in AnyBlock
             /\ Block("tool_result", id).type = "tool_result" /\ Block("tool_result", id).ref = id
  BY DEF Block, AnyBlock
<1>4. PICK g : g = Given(due, order)
  OBVIOUS
<1>5. g = [i \in 1 .. k |-> Block("tool_result", due[order[i]].id)]
  BY <1>1, <1>4, Zenon DEF Given
<1>6. \A i \in 1 .. k : g[i] \in AnyBlock /\ g[i].type = "tool_result" /\ g[i].ref = due[order[i]].id
  BY <1>2, <1>3, <1>5
<1>7. g \in Seq(AnyBlock) /\ Len(g) = k
  <2>1. g \in [1 .. k -> AnyBlock]
    BY <1>5, <1>6
  <2> QED
    BY <2>1, IsASeq, LenProperties
<1>8. Each(ResultF, g) = Paired(due, order)
  <2> DEFINE f == [b \in AnyBlock |-> ToolMessage(b.ref)]
  <2>1. ASSUME NEW b \in AnyBlock PROVE f[b] \in ToolMessages
    <3>1. PICK c \in AnyBlock : c.type = "tool_result" /\ c.ref = b.ref
      <4>1. b.ref \in Ref
        BY DEF AnyBlock
      <4> QED
        BY <1>3, <4>1
    <3>2. ResultF[c] = <<f[b]>>
      BY <3>1 DEF ResultF, ResultOf
    <3>3. ResultF[c] \in Seq(ToolMessages)
      BY BlockTypes
    <3> HIDE DEF f
    <3>4. Len(<<f[b]>>) = 1 /\ <<f[b]>>[1] = f[b] /\ <<f[b]>> \in Seq(ToolMessages)
      BY <3>2, <3>3
    <3> QED
      BY <3>4, ElementOfSeq
  <2>2. \A i \in 1 .. Len(g) : ResultF[g[i]] = <<f[g[i]]>>
    BY <1>6, <1>7 DEF ResultF, ResultOf
  <2>3. [i \in 1 .. Len(g) |-> f[g[i]]] = Paired(due, order)
    BY <1>1, <1>6, <1>7 DEF Paired
  <2>4. f \in [AnyBlock -> ToolMessages]
    BY <2>1
  <2> HIDE DEF f
  <2>5. Singles(ResultF, f, AnyBlock)
    BY <2>4, BlockTypes, EachOne, Zenon
  <2> QED
    BY <1>7, <2>2, <2>3, <2>5 DEF Singles
<1>9. \A i \in 1 .. Len(due) : g[i].type = "tool_result"
  BY <1>1, <1>6
<1> QED
  BY <1>1, <1>4, <1>7, <1>8, <1>9, Zenon

\* A message as Ask builds it from the results due.
Asked(m, due, order) ==
    \E before, after \in Seq(Note), n \in Nat, shape \in Shape :
       LET blocks == Written(before, n, "before") \o Given(due, order) \o Written(after, n, "after")
       IN  /\ shape = "string" => before = <<PlainText>> /\ Len(blocks) = 1
           /\ m = [role |-> "user", shape |-> shape, blocks |-> blocks]

\* It is a message of the client's format with those results.
LEMMA UserMessage ==
    ASSUME NEW due \in Seq(Call), NEW order \in Bijection(DOMAIN due, DOMAIN due),
           NEW m, Asked(m, due, order)
    PROVE  m \in AnyMessage /\ Results(m.blocks) = Paired(due, order)
<1>a. PICK before \in Seq(Note), after \in Seq(Note), n \in Nat, shape \in Shape :
       \E blocks :
         /\ blocks = Written(before, n, "before") \o Given(due, order) \o Written(after, n, "after")
         /\ shape = "string" => before = <<PlainText>> /\ Len(blocks) = 1
         /\ m = [role |-> "user", shape |-> shape, blocks |-> blocks]
  BY Zenon DEF Asked
<1>0. PICK blocks :
         /\ blocks = Written(before, n, "before") \o Given(due, order) \o Written(after, n, "after")
         /\ shape = "string" => before = <<PlainText>> /\ Len(blocks) = 1
         /\ m = [role |-> "user", shape |-> shape, blocks |-> blocks]
  BY <1>a, Zenon
<1>1. PICK b \in Seq(AnyBlock) :
         /\ b = Written(before, n, "before") /\ Len(b) = Len(before)
         /\ \A i \in 1 .. Len(before) :
               b[i].type = before[i].type /\ b[i].cached = before[i].cached /\ b[i].type \in {"text", "image"}
  BY WrittenTyped DEF Places
<1>2. PICK c \in Seq(AnyBlock) :
         /\ c = Written(after, n, "after") /\ Len(c) = Len(after)
         /\ \A i \in 1 .. Len(after) : c[i].type \in {"text", "image"}
  BY WrittenTyped DEF Places
<1>3. PICK g \in Seq(AnyBlock) :
         /\ g = Given(due, order) /\ Each(ResultF, g) = Paired(due, order)
         /\ Len(g) = Len(due)
         /\ \A i \in 1 .. Len(due) : g[i].type = "tool_result"
  BY GivenTyped
<1>4. PICK d \in Seq(AnyBlock) : Joins(b, g, d)
  BY Joined, Zenon
<1>5. PICK j \in Nat, k \in Nat, l \in Nat : j = Len(b) /\ k = Len(g) /\ l = Len(c)
  BY LenProperties
<1>7. PICK e \in Seq(AnyBlock) : Joins(d, c, e)
  BY Joined, Zenon
<1>6. d = b \o g /\ e = d \o c
  BY <1>4, <1>7, Zenon DEF Joins
<1>8. Len(e) = (j + k) + l
  BY <1>4, <1>5, <1>7 DEF Joins
<1>9. blocks = e
  BY <1>0, <1>1, <1>2, <1>3, <1>6, Zenon
<1>10. ASSUME NEW i \in 1 .. Len(e) PROVE e[i].type \in {"text", "image", "tool_result"}
  <2>1. \A x \in 1 .. Len(d) : d[x].type \in {"text", "image", "tool_result"}
    <3> SUFFICES ASSUME NEW x \in 1 .. Len(d) PROVE d[x].type \in {"text", "image", "tool_result"}
      OBVIOUS
    <3>1. x \in 1 .. Len(b) \/ \E y \in 1 .. Len(g) : x = Len(b) + y
      BY <1>4, Zenon DEF Joins
    <3>2. CASE x \in 1 .. Len(b)
      <4>1. d[x] = b[x] /\ b[x].type \in {"text", "image"}
        BY <1>1, <1>4, <3>2 DEF Joins
      <4> QED
        BY <4>1
    <3>3. ASSUME NEW y \in 1 .. Len(g), x = Len(b) + y PROVE d[x].type \in {"text", "image", "tool_result"}
      <4>1. d[x] = g[y] /\ g[y].type = "tool_result"
        BY <1>3, <1>4, <3>3 DEF Joins
      <4> QED
        BY <4>1
    <3> QED
      BY <3>1, <3>2, <3>3
  <2>2. i \in 1 .. Len(d) \/ \E y \in 1 .. Len(c) : i = Len(d) + y
    BY <1>7, Zenon DEF Joins
  <2>3. CASE i \in 1 .. Len(d)
    <3>1. e[i] = d[i]
      BY <1>7, <2>3 DEF Joins
    <3> QED
      BY <2>1, <2>3, <3>1
  <2>4. ASSUME NEW y \in 1 .. Len(c), i = Len(d) + y PROVE e[i].type \in {"text", "image", "tool_result"}
    <3>1. e[i] = c[y] /\ c[y].type \in {"text", "image"}
      BY <1>2, <1>7, <2>4 DEF Joins
    <3> QED
      BY <3>1
  <2> QED
    BY <2>2, <2>3, <2>4
<1>11. shape = "string" => Len(e) = 1 /\ e[1].type = "text" /\ ~e[1].cached
  <2> SUFFICES ASSUME shape = "string" PROVE Len(e) = 1 /\ e[1].type = "text" /\ ~e[1].cached
    OBVIOUS
  <2>1. before = <<PlainText>> /\ Len(e) = 1
    BY <1>0, <1>9
  <2>2. Len(before) = 1 /\ before[1] = PlainText
    BY <2>1
  <2>3. e[1] = b[1]
    <3>1. Len(b) = 1 /\ Len(d) \in Nat /\ Len(d) = Len(b) + Len(g) /\ Len(g) \in Nat
      BY <1>1, <1>4, <2>2, LenProperties DEF Joins
    <3>2. d[1] = b[1]
      BY <1>4, <3>1 DEF Joins
    <3>3. e[1] = d[1]
      BY <1>7, <3>1 DEF Joins
    <3> QED
      BY <3>2, <3>3
  <2>4. b[1].type = before[1].type /\ b[1].cached = before[1].cached
    BY <1>1, <2>2
  <2> QED
    BY <2>1, <2>2, <2>3, <2>4 DEF PlainText
<1>12. m \in AnyMessage
  <2>1. "user" \in Role
    BY DEF Role
  <2>2. \A B : \A x \in B : [role |-> "user", shape |-> shape, blocks |-> x]
                               \in [role : Role, shape : Shape, blocks : B]
    BY <2>1
  <2>3. m \in [role : Role, shape : Shape, blocks : Seq(AnyBlock)]
    BY <1>0, <1>9, <2>2, Zenon
  <2>4. m.blocks = e /\ m.role = "user" /\ m.shape = shape
    BY <1>0, <1>9
  <2>5. \A i \in DOMAIN m.blocks : m.blocks[i].type \in {"text", "image", "tool_result"}
    <3>1. DOMAIN e = 1 .. Len(e)
      BY LenProperties
    <3> QED
      BY <1>10, <2>4, <3>1, Zenon
  <2> QED
    BY <1>11, <2>3, <2>4, <2>5 DEF AnyMessage
<1>13. ASSUME NEW s \in Seq(AnyBlock), \A i \in 1 .. Len(s) : s[i].type # "tool_result"
       PROVE  Each(ResultF, s) = <<>>
  <2>1. \A i \in 1 .. Len(s) : s[i] \in AnyBlock
    BY <1>13
  <2>2. \A i \in 1 .. Len(s) : ResultF[s[i]] = <<>>
    BY <1>13, <2>1 DEF ResultF, ResultOf
  <2>3. Skips(ResultF, AnyBlock)
    BY BlockTypes, EachNothing, Zenon
  <2> QED
    BY <1>13, <2>2, <2>3 DEF Skips
<1>14. Each(ResultF, e) = (<<>> \o Each(ResultF, g)) \o <<>>
  <2>1. Each(ResultF, b) = <<>> /\ Each(ResultF, c) = <<>>
    BY <1>1, <1>2, <1>13
  <2>2. Concats(ResultF, AnyBlock)
    BY BlockTypes, EachConcat, Zenon
  <2>3. Each(ResultF, b \o g) = Each(ResultF, b) \o Each(ResultF, g)
    BY <2>2, Zenon DEF Concats
  <2>4. Each(ResultF, d \o c) = Each(ResultF, d) \o Each(ResultF, c)
    BY <2>2, Zenon DEF Concats
  <2> QED
    BY <1>6, <2>1, <2>3, <2>4, Zenon
<1>15. Each(ResultF, g) \in Seq(ToolMessages)
  <2>1. Appends(ResultF, AnyBlock, ToolMessages)
    BY BlockTypes, EachAppend, Zenon
  <2> QED
    BY <2>1, Zenon DEF Appends
<1>16. (<<>> \o Each(ResultF, g)) \o <<>> = Each(ResultF, g)
  BY <1>15, ConcatEmptySeq
<1>17. Results(e) = Each(ResultF, e)
  BY BlocksEach, Zenon
<1>18. m.blocks = e
  BY <1>0, <1>9
<1> QED
  BY <1>3, <1>12, <1>14, <1>16, <1>17, <1>18, Zenon

-----------------------------------------------------------------------------
(* Calls and results paired by position. *)

\* Message i of r has calls, and exactly their results behind it.
AnsweredAt(r, i) ==
    LET k == Len(r[i].calls)
    IN  /\ i + k <= Len(r)
        /\ \A j \in (i + 1) .. (i + k) : r[j].role = "tool"
        /\ i + k + 1 <= Len(r) => r[i + k + 1].role # "tool"
        /\ {r[j].answers[1] : j \in (i + 1) .. (i + k)} = CallIds(r[i])

\* Message j of r is a result among those.
BelongsAt(r, j) ==
    \E i \in 1 .. (j - 1) : r[i].calls # <<>> /\ j <= i + Len(r[i].calls)

Answered(r) ==
    /\ \A i \in 1 .. Len(r) : r[i].calls # <<>> => AnsweredAt(r, i)
    /\ \A j \in 1 .. Len(r) : r[j].role = "tool" => BelongsAt(r, j)

\* The calls of messages are sequences of calls.
LEMMA CallsTyped ==
    ASSUME NEW r \in Seq(AnyRequestMessage), NEW i \in 1 .. Len(r)
    PROVE  /\ r[i] \in AnyRequestMessage
           /\ r[i].calls \in Seq(Call) /\ Len(r[i].calls) \in Nat
           /\ r[i].calls # <<>> => Len(r[i].calls) > 0 /\ r[i].role # "tool"
<1>1. r[i] \in AnyRequestMessage
  OBVIOUS
<1>2. r[i].calls \in Seq(Call) /\ (r[i].calls # <<>> => r[i].role = "assistant")
  BY <1>1 DEF AnyRequestMessage
<1>3. PICK c \in Seq(Call) : c = r[i].calls
  BY <1>2
<1>4. Len(c) \in Nat /\ (c # <<>> => Len(c) > 0)
  BY LenProperties, EmptySeq
<1> QED
  BY <1>1, <1>2, <1>3, <1>4

\* Messages without calls that are no results are answered.
LEMMA AnsweredPlain ==
    ASSUME NEW r \in Seq(AnyRequestMessage),
           \A i \in 1 .. Len(r) : r[i].role # "tool" /\ r[i].calls = <<>>
    PROVE  Answered(r)
BY DEF Answered

\* A request whose calls are answered is one OpenAI accepts.
LEMMA AnsweredAccepted ==
    ASSUME NEW r \in Seq(AnyRequestMessage), Answered(r)
    PROVE  Accepts(r)
<1>1. PICK n \in Nat : n = Len(r) /\ DOMAIN r = 1 .. n
  BY LenProperties
<1>2. ASSUME NEW i \in 1 .. n, r[i].calls # <<>>, NEW k \in Nat, k = Len(r[i].calls)
      PROVE  AnswersAfter(r, i) = (i + 1) .. (i + k)
  <2>1. /\ i + k <= n
        /\ \A j \in (i + 1) .. (i + k) : r[j].role = "tool"
        /\ i + k + 1 <= n => r[i + k + 1].role # "tool"
    BY <1>1, <1>2, Zenon DEF Answered, AnsweredAt
  <2>2. ASSUME NEW j \in (i + 1) .. (i + k) PROVE j \in AnswersAfter(r, i)
    BY <1>1, <2>1 DEF AnswersAfter
  <2>3. ASSUME NEW j \in AnswersAfter(r, i) PROVE j \in (i + 1) .. (i + k)
    <3>1. j \in 1 .. n /\ j > i /\ \A l \in (i + 1) .. j : r[l].role = "tool"
      BY <1>1 DEF AnswersAfter
    <3> SUFFICES ASSUME j > i + k PROVE FALSE
      BY <3>1
    <3>2. i + k + 1 \in (i + 1) .. j /\ i + k + 1 <= n
      BY <3>1
    <3> QED
      BY <2>1, <3>1, <3>2
  <2> QED
    BY <2>2, <2>3
<1>3. ASSUME NEW i \in 1 .. n, r[i].calls # <<>>
      PROVE  /\ {r[j].answers[1] : j \in AnswersAfter(r, i)} = CallIds(r[i])
             /\ Cardinality(AnswersAfter(r, i)) = Len(r[i].calls)
  <2>1. PICK k \in Nat : k = Len(r[i].calls)
    BY <1>1, CallsTyped
  <2>2. AnswersAfter(r, i) = (i + 1) .. (i + k)
    BY <1>2, <1>3, <2>1
  <2>3. {r[j].answers[1] : j \in (i + 1) .. (i + k)} = CallIds(r[i])
    BY <1>1, <1>3, <2>1, Zenon DEF Answered, AnsweredAt
  <2>4. Cardinality((i + 1) .. (i + k)) = k
    <3>1. i + 1 \in Int /\ i + k \in Int
      OBVIOUS
    <3>2. Cardinality((i + 1) .. (i + k)) = IF i + 1 > i + k THEN 0 ELSE (i + k) - (i + 1) + 1
      BY <3>1, FS_Interval
    <3> QED
      BY <3>2
  <2> QED
    BY <2>1, <2>2, <2>3, <2>4
<1>4. ASSUME NEW j \in 1 .. n, r[j].role = "tool"
      PROVE  \E i \in 1 .. (j - 1) : r[i].calls # <<>> /\ j \in AnswersAfter(r, i)
  <2>1. PICK i \in 1 .. (j - 1) : r[i].calls # <<>> /\ j <= i + Len(r[i].calls)
    BY <1>1, <1>4, Zenon DEF Answered, BelongsAt
  <2>2. i \in 1 .. n
    OBVIOUS
  <2>3. PICK k \in Nat : k = Len(r[i].calls)
    BY <1>1, <2>2, CallsTyped
  <2>4. AnswersAfter(r, i) = (i + 1) .. (i + k)
    BY <1>2, <2>1, <2>2, <2>3
  <2>5. j \in (i + 1) .. (i + k)
    BY <2>1, <2>3
  <2> QED
    BY <2>1, <2>4, <2>5
<1> QED
  BY <1>1, <1>3, <1>4 DEF Accepts

\* Behind a request that is answered another may follow.
LEMMA AnsweredJoin ==
    ASSUME NEW r \in Seq(AnyRequestMessage), NEW s \in Seq(AnyRequestMessage),
           Answered(r), Answered(s)
    PROVE  Answered(r \o s)
<1>1. PICK u \in Seq(AnyRequestMessage) : Joins(r, s, u)
  BY Joined, Zenon
<1>2. PICK a \in Nat, b \in Nat : a = Len(r) /\ b = Len(s)
  BY LenProperties
<1>3. /\ u = r \o s /\ Len(u) = a + b
      /\ \A i \in 1 .. a : u[i] = r[i]
      /\ \A i \in 1 .. b : u[a + i] = s[i]
  BY <1>1, <1>2, Zenon DEF Joins
<1>4. \A i \in 1 .. a + b : i \in 1 .. a \/ \E j \in 1 .. b : i = a + j
  BY <1>1, <1>2, <1>3, Zenon DEF Joins
<1>5. ASSUME b >= 1 PROVE s[1].role # "tool"
  <2> SUFFICES ASSUME s[1].role = "tool" PROVE FALSE
    OBVIOUS
  <2>1. 1 \in 1 .. Len(s)
    BY <1>2, <1>5
  <2>2. BelongsAt(s, 1)
    BY <2>1 DEF Answered
  <2> QED
    BY <2>2 DEF BelongsAt
<1>6. ASSUME NEW i \in 1 .. a, u[i].calls # <<>> PROVE AnsweredAt(u, i)
  <2>1. u[i] = r[i] /\ i \in 1 .. Len(r)
    BY <1>2, <1>3
  <2>2. PICK k \in Nat : k = Len(r[i].calls)
    BY <2>1, CallsTyped
  <2>3. /\ i + k <= a
        /\ \A j \in (i + 1) .. (i + k) : r[j].role = "tool"
        /\ i + k + 1 <= a => r[i + k + 1].role # "tool"
        /\ {r[j].answers[1] : j \in (i + 1) .. (i + k)} = CallIds(r[i])
    BY <1>2, <1>6, <2>1, <2>2, Zenon DEF Answered, AnsweredAt
  <2>4. \A j \in (i + 1) .. (i + k) : u[j] = r[j]
    BY <1>3, <2>3
  <2>5. {u[j].answers[1] : j \in (i + 1) .. (i + k)} = {r[j].answers[1] : j \in (i + 1) .. (i + k)}
    BY <2>4
  <2>6. i + k + 1 <= a + b => u[i + k + 1].role # "tool"
    <3>1. CASE i + k + 1 <= a
      BY <1>3, <2>3, <3>1
    <3>2. CASE i + k = a
      <4>1. b >= 1 => u[a + 1] = s[1]
        BY <1>3
      <4> QED
        BY <1>5, <3>2, <4>1
    <3>3. i + k + 1 <= a \/ i + k = a
      <4>1. i + k \in Nat /\ i + k <= a
        BY <2>3
      <4>2. \A x \in Nat : x <= a => x + 1 <= a \/ x = a
        OBVIOUS
      <4> QED
        BY <4>1, <4>2, Zenon
    <3> QED
      BY <3>1, <3>2, <3>3, Zenon
  <2>7. \A j \in (i + 1) .. (i + k) : u[j].role = "tool"
    BY <2>3, <2>4
  <2>8. i + k <= Len(u) /\ (i + k + 1 <= Len(u) => u[i + k + 1].role # "tool")
    BY <1>3, <2>3, <2>6
  <2>9. k = Len(u[i].calls) /\ {u[j].answers[1] : j \in (i + 1) .. (i + k)} = CallIds(u[i])
    BY <2>1, <2>2, <2>3, <2>5
  <2> QED
    BY <2>7, <2>8, <2>9, Zenon DEF AnsweredAt
<1>7. ASSUME NEW x \in 1 .. b, NEW i, i = a + x, u[i].calls # <<>> PROVE AnsweredAt(u, i)
  <2>1. u[i] = s[x] /\ x \in 1 .. Len(s) /\ i \in Nat
    BY <1>2, <1>3, <1>7
  <2>2. PICK k \in Nat : k = Len(s[x].calls)
    BY <2>1, CallsTyped
  <2>3. /\ x + k <= b
        /\ \A j \in (x + 1) .. (x + k) : s[j].role = "tool"
        /\ x + k + 1 <= b => s[x + k + 1].role # "tool"
        /\ {s[j].answers[1] : j \in (x + 1) .. (x + k)} = CallIds(s[x])
    BY <1>2, <1>7, <2>1, <2>2, Zenon DEF Answered, AnsweredAt
  <2>4. \A j \in (x + 1) .. (x + k) : a + j \in (i + 1) .. (i + k) /\ u[a + j] = s[j]
    BY <1>3, <1>7, <2>3
  <2>5. \A j \in (i + 1) .. (i + k) : j - a \in (x + 1) .. (x + k) /\ u[j] = s[j - a]
    <3> SUFFICES ASSUME NEW j \in (i + 1) .. (i + k)
                 PROVE  j - a \in (x + 1) .. (x + k) /\ u[j] = s[j - a]
      OBVIOUS
    <3>1. j - a \in (x + 1) .. (x + k) /\ a + (j - a) = j
      BY <1>7
    <3> QED
      BY <2>4, <3>1
  <2>6. {u[j].answers[1] : j \in (i + 1) .. (i + k)} = {s[j].answers[1] : j \in (x + 1) .. (x + k)}
    <3>1. ASSUME NEW j \in (i + 1) .. (i + k)
          PROVE  u[j].answers[1] \in {s[l].answers[1] : l \in (x + 1) .. (x + k)}
      BY <2>5
    <3>2. ASSUME NEW j \in (x + 1) .. (x + k)
          PROVE  s[j].answers[1] \in {u[l].answers[1] : l \in (i + 1) .. (i + k)}
      BY <2>4
    <3> QED
      BY <3>1, <3>2, Zenon
  <2>7. \A j \in (i + 1) .. (i + k) : u[j].role = "tool"
    BY <2>3, <2>5
  <2>8. i + k <= Len(u)
    BY <1>3, <1>7, <2>3
  <2>9. i + k + 1 <= Len(u) => u[i + k + 1].role # "tool"
    <3> SUFFICES ASSUME i + k + 1 <= Len(u) PROVE u[i + k + 1].role # "tool"
      OBVIOUS
    <3>1. x + k + 1 \in 1 .. b /\ a + (x + k + 1) = i + k + 1
      BY <1>3, <1>7
    <3>2. u[i + k + 1] = s[x + k + 1]
      BY <1>3, <3>1
    <3> QED
      BY <2>3, <3>1, <3>2
  <2>10. k = Len(u[i].calls) /\ {u[j].answers[1] : j \in (i + 1) .. (i + k)} = CallIds(u[i])
    BY <2>1, <2>2, <2>3, <2>6
  <2> QED
    BY <2>7, <2>8, <2>9, <2>10, Zenon DEF AnsweredAt
<1>8. ASSUME NEW j \in 1 .. a, u[j].role = "tool" PROVE BelongsAt(u, j)
  <2>1. u[j] = r[j] /\ j \in 1 .. Len(r)
    BY <1>2, <1>3
  <2>2. PICK i \in 1 .. (j - 1) : r[i].calls # <<>> /\ j <= i + Len(r[i].calls)
    BY <1>8, <2>1, Zenon DEF Answered, BelongsAt
  <2>3. u[i] = r[i]
    BY <1>3
  <2> QED
    BY <2>2, <2>3 DEF BelongsAt
<1>9. ASSUME NEW x \in 1 .. b, NEW j, j = a + x, u[j].role = "tool" PROVE BelongsAt(u, j)
  <2>1. u[j] = s[x] /\ x \in 1 .. Len(s)
    BY <1>2, <1>3, <1>9
  <2>2. PICK i \in 1 .. (x - 1) : s[i].calls # <<>> /\ x <= i + Len(s[i].calls)
    BY <1>9, <2>1, Zenon DEF Answered, BelongsAt
  <2>3. i \in 1 .. b /\ i \in 1 .. Len(s) /\ a + i \in 1 .. (j - 1)
    BY <1>2, <1>9
  <2>4. u[a + i] = s[i]
    BY <1>3, <2>3
  <2>5. PICK k \in Nat : k = Len(s[i].calls)
    BY <2>3, CallsTyped
  <2>6. j <= (a + i) + k
    <3>1. x <= i + k
      BY <2>2, <2>5, Zenon
    <3>2. a \in Nat /\ i \in Nat /\ k \in Nat /\ x \in Nat /\ j = a + x
      BY <1>9
    <3> QED
      BY <3>1, <3>2
  <2> QED
    BY <2>2, <2>3, <2>4, <2>5, <2>6 DEF BelongsAt
<1>10. Answered(u)
  <2>1. ASSUME NEW i \in 1 .. Len(u), u[i].calls # <<>> PROVE AnsweredAt(u, i)
    <3>1. i \in 1 .. a \/ \E x \in 1 .. b : i = a + x
      BY <1>3, <1>4, Zenon
    <3> QED
      BY <1>6, <1>7, <2>1, <3>1, Zenon
  <2>2. ASSUME NEW j \in 1 .. Len(u), u[j].role = "tool" PROVE BelongsAt(u, j)
    <3>1. j \in 1 .. a \/ \E x \in 1 .. b : j = a + x
      BY <1>3, <1>4, Zenon
    <3> QED
      BY <1>8, <1>9, <2>2, <3>1, Zenon
  <2> QED
    BY <2>1, <2>2, Zenon DEF Answered
<1> QED
  BY <1>3, <1>10

\* An assistant's calls with their results behind them, in any order.
LEMMA AnsweredGroup ==
    ASSUME NEW x \in AnyRequestMessage, NEW due \in Seq(Call), x.calls = due, due # <<>>,
           NEW order \in Bijection(DOMAIN due, DOMAIN due),
           Paired(due, order) \in Seq(ToolMessages)
    PROVE  Answered(<<x>> \o Paired(due, order))
<1>1. PICK k \in Nat : k = Len(due) /\ DOMAIN due = 1 .. k /\ k > 0
  BY LenProperties, EmptySeq
<1>2. /\ order \in [1 .. k -> 1 .. k]
      /\ \A t \in 1 .. k : \E i \in 1 .. k : order[i] = t
  BY <1>1 DEF Bijection, Injection, Surjection
<1>3. PICK p \in Seq(ToolMessages) : p = Paired(due, order)
  OBVIOUS
<1>4. Len(p) = k /\ \A i \in 1 .. k : p[i].role = "tool" /\ p[i].calls = <<>> /\ p[i].answers[1] = due[order[i]].id
  <2>1. p = [i \in 1 .. k |-> ToolMessage(due[order[i]].id)]
    BY <1>1, <1>3, Zenon DEF Paired
  <2>2. Len(p) = k
    BY <2>1, LenProperties
  <2>3. ASSUME NEW i \in 1 .. k
        PROVE  p[i].role = "tool" /\ p[i].calls = <<>> /\ p[i].answers[1] = due[order[i]].id
    <3>1. p[i] = ToolMessage(due[order[i]].id)
      BY <2>1
    <3>2. PICK id : id = due[order[i]].id
      OBVIOUS
    <3>3. p[i] = ToolMessage(id)
      BY <3>1, <3>2, Zenon
    <3>4. p[i].role = "tool" /\ p[i].calls = <<>> /\ p[i].answers[1] = id
      BY <3>3 DEF ToolMessage, Message
    <3> QED
      BY <3>2, <3>4
  <2> QED
    BY <2>2, <2>3
<1>5. PICK t \in Seq(AnyRequestMessage), u \in Seq(AnyRequestMessage) :
         t = <<x>> /\ Joins(t, p, u)
  <2>1. p \in Seq(AnyRequestMessage)
    <3>1. ToolMessages \subseteq AnyRequestMessage
      BY DEF ToolMessages
    <3> QED
      BY <3>1, SeqMonotonic
  <2>2. PICK t \in Seq(AnyRequestMessage) : t = <<x>>
    <3>1. \A S : \A y \in S : <<y>> \in Seq(S)
      OBVIOUS
    <3> QED
      BY <3>1, Zenon
  <2>3. \E u \in Seq(AnyRequestMessage) : Joins(t, p, u)
    BY <2>1, <2>2, Joined, Zenon
  <2> QED
    BY <2>2, <2>3, Zenon
<1>6. Len(t) = 1 /\ t[1] = x
  BY <1>5
<1>7. /\ u = <<x>> \o p /\ Len(u) = 1 + k /\ u[1] = x
      /\ \A i \in 1 .. k : u[1 + i] = p[i]
  <2>1. 1 \in 1 .. Len(t)
    BY <1>6
  <2> QED
    BY <1>4, <1>5, <1>6, <2>1, Zenon DEF Joins
<1>8. \A i \in 2 .. (1 + k) : i - 1 \in 1 .. k /\ u[i] = p[i - 1]
  <2> SUFFICES ASSUME NEW i \in 2 .. (1 + k) PROVE i - 1 \in 1 .. k /\ u[i] = p[i - 1]
    OBVIOUS
  <2>1. i - 1 \in 1 .. k /\ 1 + (i - 1) = i
    OBVIOUS
  <2> QED
    BY <1>7, <2>1
<1>9. \A i \in 2 .. (1 + k) : u[i].role = "tool" /\ u[i].calls = <<>> /\ u[i].answers[1] = due[order[i - 1]].id
  BY <1>4, <1>8
<1>10. {u[j].answers[1] : j \in 2 .. (1 + k)} = CallIds(x)
  <2>1. CallIds(x) = {due[i].id : i \in 1 .. k}
    BY <1>1 DEF CallIds
  <2>2. ASSUME NEW j \in 2 .. (1 + k) PROVE u[j].answers[1] \in CallIds(x)
    <3>1. order[j - 1] \in 1 .. k
      BY <1>2
    <3> QED
      BY <1>9, <2>1, <3>1
  <2>3. ASSUME NEW i \in 1 .. k PROVE due[i].id \in {u[j].answers[1] : j \in 2 .. (1 + k)}
    <3>1. PICK l \in 1 .. k : order[l] = i
      BY <1>2
    <3>2. PICK j \in 2 .. (1 + k) : j - 1 = l
      <4>1. l + 1 \in 2 .. (1 + k) /\ (l + 1) - 1 = l
        OBVIOUS
      <4> QED
        BY <4>1
    <3>3. u[j].answers[1] = due[i].id
      BY <1>9, <3>1, <3>2
    <3> QED
      BY <3>3
  <2> QED
    BY <2>1, <2>2, <2>3
<1>11. AnsweredAt(u, 1)
  <2>1. u[1].calls = due /\ Len(u[1].calls) = k
    BY <1>1, <1>7
  <2>2. (1 + 1) .. (1 + k) = 2 .. (1 + k)
    OBVIOUS
  <2>3. 1 + k <= Len(u) /\ ~(1 + k + 1 <= Len(u))
    BY <1>7
  <2>4. \A j \in (1 + 1) .. (1 + k) : u[j].role = "tool"
    BY <1>9, <2>2
  <2> QED
    BY <1>7, <1>10, <2>1, <2>2, <2>3, <2>4, Zenon DEF AnsweredAt
<1>12. ASSUME NEW j \in 1 .. Len(u), u[j].role = "tool" PROVE BelongsAt(u, j)
  <2>1. j # 1
    <3>1. x.role # "tool"
      BY DEF AnyRequestMessage
    <3> QED
      BY <1>7, <1>12, <3>1
  <2>2. 1 \in 1 .. (j - 1) /\ u[1].calls # <<>> /\ j <= 1 + Len(u[1].calls)
    BY <1>1, <1>7, <2>1
  <2> QED
    BY <2>2 DEF BelongsAt
<1>13. \A i \in 1 .. Len(u) : i = 1 \/ i \in 2 .. (1 + k)
  BY <1>7
<1>14. \A i \in 1 .. Len(u) : u[i].calls # <<>> => AnsweredAt(u, i)
  BY <1>9, <1>11, <1>13
<1>15. Answered(u)
  BY <1>12, <1>14 DEF Answered
<1> QED
  BY <1>3, <1>7, <1>15

-----------------------------------------------------------------------------
(* The steps, message by message. *)

\* Taking a message back undoes adding it.
LEMMA AppendFront ==
    ASSUME NEW S, NEW s \in Seq(S), NEW x \in S
    PROVE  /\ Append(s, x) \in Seq(S) /\ Append(s, x) # <<>>
           /\ Front(Append(s, x)) = s /\ Last(Append(s, x)) = x
<1>1. PICK n \in Nat : n = Len(s) /\ DOMAIN s = 1 .. n
  BY LenProperties
<1>2. PICK a \in Seq(S) : a = Append(s, x)
  BY AppendProperties
<1>3. Len(a) = n + 1 /\ a[n + 1] = x /\ \A i \in 1 .. n : a[i] = s[i]
  BY <1>1, <1>2, AppendProperties
<1>4. a # <<>>
  BY <1>1, <1>3
<1>5. SubSeq(a, 1, n) = s
  <2>1. SubSeq(a, 1, n) = [i \in 1 .. n |-> a[i]]
    BY <1>1, <1>3
  <2>2. s = [i \in 1 .. n |-> s[i]]
    BY <1>1
  <2>3. [i \in 1 .. n |-> a[i]] = [i \in 1 .. n |-> s[i]]
    BY <1>3
  <2> QED
    BY <2>1, <2>2, <2>3, Zenon
<1>6. Len(a) - 1 = n
  BY <1>1, <1>3
<1>7. Front(a) = s
  BY <1>5, <1>6, Zenon DEF Front
<1>8. Last(a) = x
  BY <1>3, Zenon DEF Last
<1> QED
  BY <1>2, <1>4, <1>7, <1>8, Zenon

\* A history that is not empty has a last message.
LEMMA LastFront ==
    ASSUME NEW S, NEW s \in Seq(S), s # <<>>
    PROVE  /\ Front(s) \in Seq(S) /\ Last(s) \in S
           /\ s = Append(Front(s), Last(s))
<1>1. PICK t \in Seq(S), x \in S : s = Append(t, x)
  <2>1. Len(s) # 0
    BY EmptySeq
  <2>2. PICK n \in Nat : Len(s) = n + 1
    <3>1. PICK l \in Nat : l = Len(s) /\ l # 0
      BY <2>1, LenProperties
    <3>2. l - 1 \in Nat /\ l = (l - 1) + 1
      BY <3>1
    <3> QED
      BY <3>1, <3>2
  <2>3. PICK t : t = [i \in 1 .. n |-> s[i]]
    OBVIOUS
  <2>4. t \in Seq(S) /\ Len(t) = n
    <3>1. t \in [1 .. n -> S]
      BY <2>2, <2>3
    <3> QED
      BY <3>1, IsASeq, LenProperties
  <2>5. s[n + 1] \in S
    BY <2>2
  <2>6. s = Append(t, s[n + 1])
    BY <2>2, <2>3, <2>4, <2>5
  <2> QED
    BY <2>4, <2>5, <2>6
<1>2. Front(s) = t /\ Last(s) = x
  BY <1>1, AppendFront
<1> QED
  BY <1>1, <1>2

\* The calls that are due are calls.
LEMMA DueTyped ==
    ASSUME NEW h \in Seq(AnyMessage), NEW reason
    PROVE  DueIn(h, reason) \in Seq(Call)
<1>1. CASE reason = "tool_use" /\ h # <<>>
  <2>1. Last(h) \in AnyMessage
    BY <1>1, LastFront
  <2>2. Last(h).blocks \in Seq(AnyBlock)
    BY <2>1 DEF AnyMessage
  <2> QED
    BY <1>1, <2>2, BlocksTyped DEF DueIn
<1>2. CASE ~(reason = "tool_use" /\ h # <<>>)
  BY <1>2 DEF DueIn
<1> QED
  BY <1>1, <1>2

\* A user's turn adds a user message that brings the results due.
LEMMA AskStep ==
    ASSUME ConversationAssumption, TypeOK,
           NEW before \in Notes, NEW after \in Notes,
           NEW order \in Bijection(DOMAIN Due, DOMAIN Due), NEW shape \in Shape,
           Ask(before, after, order, shape)
    PROVE  /\ DueIn(history, stop) \in Seq(Call)
           /\ order \in Bijection(DOMAIN DueIn(history, stop), DOMAIN DueIn(history, stop))
           /\ \E m \in AnyMessage :
                 /\ m.role = "user" /\ history' = Append(history, m)
                 /\ Results(m.blocks) = Paired(DueIn(history, stop), order)
<1>1. PICK due \in Seq(Call) : due = Due
  BY DueTyped DEF Due, DueIn, TypeOK
<1>2. due = DueIn(history, stop)
  BY <1>1, Zenon DEF Due, DueIn
<1>3. order \in Bijection(DOMAIN due, DOMAIN due)
  BY <1>1
<1>4. PICK n \in Nat : n = Len(said)
  BY LenProperties DEF TypeOK
<1>5. before \in Seq(Note) /\ after \in Seq(Note)
  BY DEF ConversationAssumption
<1>6. PICK m : m = [role |-> "user", shape |-> shape,
                    blocks |-> Written(before, n, "before") \o Given(due, order) \o Written(after, n, "after")]
  OBVIOUS
<1>7. Asked(m, due, order) /\ history' = Append(history, m)
  <2>1. Due = due /\ Len(said) = n
    BY <1>1, <1>4
  <2>2. /\ history' = Append(history, m)
        /\ shape = "string" =>
              /\ before = <<PlainText>>
              /\ Len(Written(before, n, "before") \o Given(due, order) \o Written(after, n, "after")) = 1
    BY <1>6, <2>1, Zenon DEF Ask, Given
  <2> QED
    BY <1>5, <1>6, <2>2, Zenon DEF Asked
<1>9. m \in AnyMessage /\ Results(m.blocks) = Paired(due, order)
  BY <1>3, <1>7, UserMessage, Zenon
<1>10. m.role = "user"
  BY <1>6
<1> QED
  BY <1>2, <1>3, <1>7, <1>9, <1>10, Zenon

\* An answer adds an assistant message with what it says.
LEMMA ReplyStep ==
    ASSUME ConversationAssumption, TypeOK, NEW a \in Answers, NEW thinking \in BOOLEAN,
           Reply(a, thinking), NEW n \in Nat, n = Len(said) + 1
    PROVE  \E m \in AnyMessage :
              /\ m.role = "assistant" /\ history' = Append(history, m)
              /\ Results(m.blocks) = <<>> /\ Parts(m.blocks) = Spoken(a, n)
              /\ Calls(m.blocks) = CallsIn(ToolUses(a, n))
<1>1. a \in Answer
  BY DEF ConversationAssumption
<1>2. PICK thoughts : thoughts = IF thinking THEN <<Block("thinking", <<"thought", n, 0>>)>> ELSE <<>>
  OBVIOUS
<1>3. PICK m : m = [role |-> "assistant", shape |-> "blocks", blocks |-> thoughts \o Blocks(a, n)]
  OBVIOUS
<1>4. history' = Append(history, m) /\ Replied(m, a, n)
  <2>1. history' = Append(history, m)
    BY <1>2, <1>3, Zenon DEF Reply
  <2>2. thoughts \in {<<>>, <<Block("thinking", <<"thought", n, 0>>)>>}
    BY <1>2, Zenon
  <2> QED
    BY <1>3, <2>1, <2>2, Zenon DEF Replied
<1>5. /\ m \in AnyMessage /\ Results(m.blocks) = <<>> /\ Parts(m.blocks) = Spoken(a, n)
      /\ Calls(m.blocks) = CallsIn(ToolUses(a, n))
  BY <1>1, <1>4, ReplyMessage, Zenon
<1>6. m.role = "assistant"
  BY <1>3
<1> QED
  BY <1>4, <1>5, <1>6

\* A user message becomes its results and at most one message of the user's.
LEMMA UserConverts ==
    ASSUME NEW m \in AnyMessage, m.role = "user"
    PROVE  /\ Results(m.blocks) \in Seq(ToolMessages)
           /\ \E body \in Seq(AnyRequestMessage) :
                 /\ ConvertMessage(m) = Results(m.blocks) \o body
                 /\ \A i \in 1 .. Len(body) : body[i].role = "user" /\ body[i].calls = <<>>
<1>1. m.blocks \in Seq(AnyBlock)
  BY DEF AnyMessage
<1>2. PICK results \in Seq(ToolMessages) : results = Results(m.blocks)
  BY <1>1, BlocksTyped
<1>3. CASE ConvertMessage(m) = results
  <2>1. results \o <<>> = results
    BY ConcatEmptySeq
  <2>2. <<>> \in Seq(AnyRequestMessage) /\ \A i \in 1 .. Len(<<>>) : FALSE
    OBVIOUS
  <2> QED
    BY <1>2, <1>3, <2>1, <2>2
<1>4. ASSUME NEW x \in AnyRequestMessage, x.role = "user", ConvertMessage(m) = Append(results, x)
      PROVE  \E body \in Seq(AnyRequestMessage) :
                /\ ConvertMessage(m) = results \o body
                /\ \A i \in 1 .. Len(body) : body[i].role = "user" /\ body[i].calls = <<>>
  <2>1. x.calls = <<>>
    BY <1>4 DEF AnyRequestMessage
  <2>2. Append(results, x) = results \o <<x>>
    OBVIOUS
  <2>3. <<x>> \in Seq(AnyRequestMessage) /\ Len(<<x>>) = 1 /\ <<x>>[1] = x
    <3>1. \A S : \A y \in S : <<y>> \in Seq(S) /\ Len(<<y>>) = 1 /\ <<y>>[1] = y
      OBVIOUS
    <3> QED
      BY <3>1, Zenon
  <2>4. PICK b \in Seq(AnyRequestMessage) : b = <<x>> /\ Len(b) = 1 /\ b[1] = x
    BY <2>3, Zenon
  <2>5. \A i \in 1 .. Len(b) : b[i].role = "user" /\ b[i].calls = <<>>
    BY <1>4, <2>1, <2>4
  <2>6. ConvertMessage(m) = results \o b
    BY <1>4, <2>2, <2>4, Zenon
  <2> QED
    BY <2>5, <2>6
<1> QED
  BY <1>2, <1>3, <1>4, ConvertIs, Zenon

-----------------------------------------------------------------------------
(* The upstream's own answers in a request. *)

RecalledFrom(s) == FlattenSeq([n \in DOMAIN s |-> Recalled(s[n], n)])

\* What the upstream hears is typed.
LEMMA HeardTypes == HeardF \in [AnyRequestMessage -> Seq(AnyReply)]
<1>1. ASSUME NEW m \in AnyRequestMessage PROVE Heard(m) \in Seq(AnyReply)
  <2>1. m.parts \in Seq(AnyBlock) /\ m.calls \in Seq(Call)
    BY DEF AnyRequestMessage
  <2>2. Refs(m.parts) \in Seq(Ref)
    <3>1. PICK p \in Seq(AnyBlock) : p = m.parts
      BY <2>1
    <3>2. PICK n \in Nat : DOMAIN p = 1 .. n
      BY LenProperties
    <3>3. \A i \in 1 .. n : p[i].ref \in Ref
      BY <3>2 DEF AnyBlock
    <3>4. [i \in 1 .. n |-> p[i].ref] \in [1 .. n -> Ref]
      BY <3>3
    <3>5. Refs(p) = [i \in 1 .. n |-> p[i].ref]
      BY <3>2, Zenon DEF Refs
    <3> QED
      BY <3>1, <3>4, <3>5, IsASeq
  <2>3. [texts |-> Refs(m.parts), calls |-> m.calls] \in AnyReply
    BY <2>1, <2>2 DEF AnyReply
  <2> QED
    BY <2>3 DEF Heard
<1> QED
  BY <1>1 DEF HeardF

\* Messages of others are not heard.
LEMMA HeardOthers ==
    ASSUME NEW r \in Seq(AnyRequestMessage), \A i \in 1 .. Len(r) : r[i].role # "assistant"
    PROVE  Each(HeardF, r) = <<>>
<1>1. \A i \in 1 .. Len(r) : r[i] \in AnyRequestMessage
  OBVIOUS
<1>2. \A i \in 1 .. Len(r) : HeardF[r[i]] = <<>>
  BY <1>1 DEF HeardF, Heard
<1>3. Skips(HeardF, AnyRequestMessage)
  BY HeardTypes, EachNothing, Zenon
<1> QED
  BY <1>2, <1>3 DEF Skips

\* Nothing of a user message is.
LEMMA HeardUser ==
    ASSUME NEW m \in AnyMessage, m.role = "user"
    PROVE  Each(HeardF, ConvertMessage(m)) = <<>>
<1>1. PICK results \in Seq(ToolMessages), body \in Seq(AnyRequestMessage) :
         /\ ConvertMessage(m) = results \o body
         /\ \A i \in 1 .. Len(body) : body[i].role = "user"
  BY UserConverts
<1>2. results \in Seq(AnyRequestMessage) /\ \A i \in 1 .. Len(results) : results[i].role = "tool"
  <2>1. ToolMessages \subseteq AnyRequestMessage
    BY DEF ToolMessages
  <2>2. results \in Seq(AnyRequestMessage)
    BY <2>1, SeqMonotonic
  <2>3. \A i \in 1 .. Len(results) : results[i] \in ToolMessages
    OBVIOUS
  <2> QED
    BY <2>2, <2>3 DEF ToolMessages
<1>3. Each(HeardF, results) = <<>> /\ Each(HeardF, body) = <<>>
  BY <1>1, <1>2, HeardOthers
<1>4. Each(HeardF, results \o body) = Each(HeardF, results) \o Each(HeardF, body)
  <2>1. Concats(HeardF, AnyRequestMessage)
    BY HeardTypes, EachConcat, Zenon
  <2> QED
    BY <1>2, <2>1, Zenon DEF Concats
<1>5. <<>> \o <<>> = <<>>
  OBVIOUS
<1> QED
  BY <1>1, <1>3, <1>4, <1>5, Zenon

\* What an answer said is told by its texts and its calls.
LEMMA RecalledIs ==
    ASSUME NEW a \in Answer, NEW n \in Nat, \A i \in DOMAIN a.calls : a.calls[i] # "value"
    PROVE  Recalled(a, n) =
             IF Spoken(a, n) = <<>> /\ CallsIn(ToolUses(a, n)) = <<>> THEN <<>>
             ELSE <<[texts |-> Refs(Spoken(a, n)), calls |-> CallsIn(ToolUses(a, n))]>>
<1>1. PICK k \in Nat : k = a.texts + (IF a.refusal THEN 1 ELSE 0)
  BY DEF Answer
<1>2. PICK spoken \in Seq(AnyBlock) :
         /\ spoken = Spoken(a, n) /\ Len(spoken) = k
         /\ \A i \in 1 .. k : spoken[i].ref = <<"answer", n, i>>
  BY <1>1, SpokenTyped
<1>3. PICK texts : texts = [i \in 1 .. k |-> <<"answer", n, i>>]
  OBVIOUS
<1>4. Refs(spoken) = texts
  <2>1. DOMAIN spoken = 1 .. k
    BY <1>2, LenProperties
  <2> QED
    BY <1>2, <1>3, <2>1 DEF Refs
<1>5. texts = <<>> <=> spoken = <<>>
  <2>1. texts = <<>> <=> k = 0
    BY <1>3
  <2>2. spoken = <<>> <=> k = 0
    BY <1>2, EmptySeq
  <2> QED
    BY <2>1, <2>2
<1> DEFINE Object(arguments) == IF arguments \in {"object", "value"} THEN "object" ELSE "empty"
<1>6. PICK calls : calls = IF a.calls = <<>> /\ a.function_call # "none"
                           THEN <<[id |-> NoId, arguments |-> Object(a.function_call)]>>
                           ELSE [i \in DOMAIN a.calls |-> [id |-> <<n, i>>, arguments |-> Object(a.calls[i])]]
  OBVIOUS
<1>7. PICK uses \in Seq(AnyBlock) :
         /\ uses = ToolUses(a, n)
         /\ a.calls # <<>> =>
               /\ Len(uses) = Len(a.calls)
               /\ \A i \in 1 .. Len(a.calls) : uses[i].ref = <<n, i>> /\ uses[i].input = Input(a.calls[i])
         /\ a.calls = <<>> /\ a.function_call = "none" => uses = <<>>
         /\ a.calls = <<>> /\ a.function_call # "none" =>
               /\ Len(uses) = 1 /\ uses[1].ref = NoId
               /\ uses[1].input = IF a.function_call = "value" THEN "object" ELSE Input(a.function_call)
  BY ToolUsesTyped
<1>8. calls = CallsIn(uses)
  <2>1. CASE a.calls # <<>>
    <3>1. PICK l \in Nat : l = Len(a.calls) /\ DOMAIN a.calls = 1 .. l
      BY LenProperties DEF Answer
    <3>2. calls = [i \in 1 .. l |-> [id |-> <<n, i>>, arguments |-> Object(a.calls[i])]]
      BY <1>6, <2>1, <3>1
    <3>3. \A i \in 1 .. l : Object(a.calls[i]) = Input(a.calls[i])
      BY <3>1 DEF Input
    <3>4. CallsIn(uses) = [i \in 1 .. l |-> [id |-> uses[i].ref, arguments |-> uses[i].input]]
      BY <1>7, <2>1, <3>1, Zenon DEF CallsIn
    <3>5. \A i \in 1 .. l : uses[i].ref = <<n, i>> /\ uses[i].input = Object(a.calls[i])
      BY <1>7, <2>1, <3>1, <3>3
    <3> HIDE DEF Object
    <3> QED
      BY <3>2, <3>4, <3>5
  <2>2. CASE a.calls = <<>> /\ a.function_call = "none"
    <3>1. calls = <<>>
      BY <1>6, <2>2
    <3>2. CallsIn(<<>>) = <<>>
      BY DEF CallsIn
    <3> QED
      BY <1>7, <2>2, <3>1, <3>2
  <2>3. CASE a.calls = <<>> /\ a.function_call # "none"
    <3>1. calls = <<[id |-> NoId, arguments |-> Object(a.function_call)]>>
      BY <1>6, <2>3
    <3>2. CallsIn(uses) = <<[id |-> uses[1].ref, arguments |-> uses[1].input]>>
      <4>1. Len(uses) = 1
        BY <1>7, <2>3
      <4>2. CallsIn(uses) = [i \in 1 .. 1 |-> [id |-> uses[i].ref, arguments |-> uses[i].input]]
        BY <4>1, Zenon DEF CallsIn
      <4>3. PICK c : c = [id |-> uses[1].ref, arguments |-> uses[1].input]
        OBVIOUS
      <4>4. \A i \in 1 .. 1 : [id |-> uses[i].ref, arguments |-> uses[i].input] = c
        BY <4>3
      <4>5. [i \in 1 .. 1 |-> [id |-> uses[i].ref, arguments |-> uses[i].input]] = [i \in 1 .. 1 |-> c]
        BY <4>4
      <4>6. [i \in 1 .. 1 |-> c] = <<c>>
        OBVIOUS
      <4> QED
        BY <4>2, <4>3, <4>5, <4>6, Zenon
    <3>3. uses[1].ref = NoId /\ uses[1].input = Object(a.function_call)
      BY <1>7, <2>3 DEF Input
    <3> HIDE DEF Object
    <3> QED
      BY <3>1, <3>2, <3>3
  <2> QED
    BY <2>1, <2>2, <2>3
<1>9. Recalled(a, n) = IF texts = <<>> /\ calls = <<>> THEN <<>> ELSE <<[texts |-> texts, calls |-> calls]>>
  BY <1>1, <1>3, <1>6, Zenon DEF Recalled
<1> QED
  BY <1>2, <1>4, <1>5, <1>7, <1>8, <1>9, Zenon

\* An answer comes back as it was said.
LEMMA HeardReply ==
    ASSUME NEW a \in Answer, NEW n \in Nat, \A i \in DOMAIN a.calls : a.calls[i] # "value",
           NEW m \in AnyMessage, m.role = "assistant",
           Results(m.blocks) = <<>>, Parts(m.blocks) = Spoken(a, n),
           Calls(m.blocks) = CallsIn(ToolUses(a, n))
    PROVE  Each(HeardF, ConvertMessage(m)) = Recalled(a, n)
<1>1. CASE Spoken(a, n) = <<>> /\ CallsIn(ToolUses(a, n)) = <<>>
  <2>1. Recalled(a, n) = <<>>
    BY <1>1, RecalledIs
  <2>2. ConvertMessage(m) = <<>>
    <3>1. ASSUME NEW x, x.parts = Parts(m.blocks) /\ x.calls = Calls(m.blocks), x \in AnyRequestMessage,
                 x.role = m.role
          PROVE FALSE
      BY <1>1, <3>1 DEF AnyRequestMessage
    <3> QED
      BY <3>1, ConvertIs, Zenon
  <2>3. Each(HeardF, <<>>) = <<>>
    BY HeardTypes, EachFew
  <2> QED
    BY <2>1, <2>2, <2>3, Zenon
<1>2. CASE ~(Spoken(a, n) = <<>> /\ CallsIn(ToolUses(a, n)) = <<>>)
  <2>1. PICK x \in AnyRequestMessage :
           /\ x.role = m.role /\ x.parts = Parts(m.blocks) /\ x.calls = Calls(m.blocks)
           /\ ConvertMessage(m) = Append(Results(m.blocks), x)
    BY <1>2, ConvertIs
  <2>2. ConvertMessage(m) = <<x>>
    <3>1. Append(<<>>, x) = <<x>>
      OBVIOUS
    <3> QED
      BY <2>1, <3>1, Zenon
  <2>3. Each(HeardF, <<x>>) = HeardF[x]
    BY HeardTypes, EachFew
  <2>4. HeardF[x] = <<[texts |-> Refs(x.parts), calls |-> x.calls]>>
    BY <2>1 DEF HeardF, Heard
  <2>5. Recalled(a, n) = <<[texts |-> Refs(Spoken(a, n)), calls |-> CallsIn(ToolUses(a, n))]>>
    BY <1>2, RecalledIs
  <2> QED
    BY <2>1, <2>2, <2>3, <2>4, <2>5, Zenon
<1> QED
  BY <1>1, <1>2

\* An answer more is recalled behind the others.
LEMMA RecalledAppend ==
    ASSUME NEW s \in Seq(Answer), NEW a \in Answer,
           \A i \in DOMAIN a.calls : a.calls[i] # "value",
           \A n \in DOMAIN s : \A i \in DOMAIN s[n].calls : s[n].calls[i] # "value"
    PROVE  RecalledFrom(Append(s, a)) = RecalledFrom(s) \o Recalled(a, Len(s) + 1)
<1>1. ASSUME NEW b \in Answer, \A i \in DOMAIN b.calls : b.calls[i] # "value", NEW n \in Nat
      PROVE  Recalled(b, n) \in Seq(AnyReply)
  <2>1. PICK spoken \in Seq(AnyBlock) : spoken = Spoken(b, n)
    BY <1>1, SpokenTyped
  <2>2. PICK uses \in Seq(AnyBlock) : uses = ToolUses(b, n) /\ \A i \in 1 .. Len(uses) : uses[i].type = "tool_use"
    BY <1>1, ToolUsesTyped
  <2>3. Refs(spoken) \in Seq(Ref)
    <3>1. PICK l \in Nat : DOMAIN spoken = 1 .. l
      BY LenProperties
    <3>2. \A i \in 1 .. l : spoken[i].ref \in Ref
      BY <3>1 DEF AnyBlock
    <3>3. [i \in 1 .. l |-> spoken[i].ref] \in [1 .. l -> Ref]
      BY <3>2
    <3>4. Refs(spoken) = [i \in 1 .. l |-> spoken[i].ref]
      BY <3>1, Zenon DEF Refs
    <3> QED
      BY <3>3, <3>4, IsASeq
  <2>4. CallsIn(uses) \in Seq(Call)
    <3>1. PICK l \in Nat : l = Len(uses)
      BY LenProperties
    <3>2. \A i \in 1 .. l : uses[i] \in AnyBlock /\ uses[i].type = "tool_use"
      BY <2>2, <3>1
    <3>3. \A i \in 1 .. l : [id |-> uses[i].ref, arguments |-> uses[i].input] \in Call
      BY <3>2 DEF AnyBlock, Call
    <3>4. CallsIn(uses) \in [1 .. l -> Call]
      BY <3>1, <3>3 DEF CallsIn
    <3> QED
      BY <3>1, <3>4, IsASeq
  <2>5. [texts |-> Refs(spoken), calls |-> CallsIn(uses)] \in AnyReply
    BY <2>3, <2>4 DEF AnyReply
  <2>6. Recalled(b, n) = IF spoken = <<>> /\ CallsIn(uses) = <<>> THEN <<>>
                         ELSE <<[texts |-> Refs(spoken), calls |-> CallsIn(uses)]>>
    BY <1>1, <2>1, <2>2, RecalledIs
  <2> QED
    BY <2>5, <2>6
<1>2. PICK l \in Nat : l = Len(s) /\ DOMAIN s = 1 .. l
  BY LenProperties
<1>3. PICK t \in Seq(Answer) : t = Append(s, a)
  BY AppendProperties
<1>4. Len(t) = l + 1 /\ DOMAIN t = 1 .. l + 1 /\ t[l + 1] = a /\ \A n \in 1 .. l : t[n] = s[n]
  BY <1>2, <1>3, AppendProperties
<1>5. \A n \in 1 .. l : Recalled(s[n], n) \in Seq(AnyReply)
  <2> SUFFICES ASSUME NEW n \in 1 .. l PROVE Recalled(s[n], n) \in Seq(AnyReply)
    OBVIOUS
  <2>1. n \in Nat /\ s[n] \in Answer /\ \A i \in DOMAIN s[n].calls : s[n].calls[i] # "value"
    BY <1>2
  <2> QED
    BY <1>1, <2>1
<1>6. Recalled(a, l + 1) \in Seq(AnyReply)
  BY <1>1
<1>7. PICK ss \in Seq(Seq(AnyReply)) : ss = [n \in 1 .. l |-> Recalled(s[n], n)] /\ Len(ss) = l
  <2>1. [n \in 1 .. l |-> Recalled(s[n], n)] \in [1 .. l -> Seq(AnyReply)]
    BY <1>5
  <2>2. PICK f \in [1 .. l -> Seq(AnyReply)] : f = [n \in 1 .. l |-> Recalled(s[n], n)]
    BY <2>1, Zenon
  <2>3. f \in Seq(Seq(AnyReply)) /\ Len(f) = l
    BY IsASeq, LenProperties
  <2> QED
    BY <2>2, <2>3, Zenon
<1>8. PICK last \in Seq(AnyReply) : last = Recalled(a, l + 1)
  BY <1>6
<1>9. [n \in 1 .. l + 1 |-> Recalled(t[n], n)] = Append(ss, last)
  <2>1. PICK tt \in Seq(Seq(AnyReply)) : tt = Append(ss, last)
    BY AppendProperties
  <2>2. Len(tt) = l + 1 /\ tt[l + 1] = last /\ \A n \in 1 .. l : tt[n] = ss[n]
    BY <1>7, <2>1, AppendProperties
  <2>3. tt = [n \in 1 .. l + 1 |-> tt[n]]
    BY <2>2, LenProperties
  <2>4. ASSUME NEW n \in 1 .. l + 1 PROVE tt[n] = Recalled(t[n], n)
    <3>1. CASE n = l + 1
      BY <1>4, <1>8, <2>2, <3>1
    <3>2. CASE n # l + 1
      <4>1. n \in 1 .. l
        BY <3>2
      <4>2. ss[n] = Recalled(s[n], n)
        BY <1>7, <4>1
      <4> QED
        BY <1>4, <2>2, <4>1, <4>2
    <3> QED
      BY <3>1, <3>2
  <2> QED
    BY <2>1, <2>3, <2>4
<1>10. FlattenSeq(Append(ss, last)) = FlattenSeq(ss) \o last
  BY FlattenAppend
<1>11. RecalledFrom(t) = FlattenSeq(Append(ss, last)) /\ RecalledFrom(s) = FlattenSeq(ss)
  BY <1>2, <1>4, <1>7, <1>9, Zenon DEF RecalledFrom
<1> QED
  BY <1>2, <1>3, <1>8, <1>10, <1>11, Zenon

-----------------------------------------------------------------------------
(* The invariants. *)

\* The history without the message the upstream has yet to answer.
Base == IF pc = "upstream" THEN Front(history) ELSE history

\* The request under way is the history translated, which a user message ends.
Translated ==
    pc = "upstream" =>
        history # <<>> /\ Last(history).role = "user" /\ request = Convert(system, history)

TypeInv == TypeOK /\ Translated

\* What the next user message has to answer stands alone at the end of the
\* history's translation; before it every call has its results.
Open(r, due) ==
    \/ due = <<>> /\ Answered(r)
    \/ /\ due # <<>>
       /\ \E q \in Seq(AnyRequestMessage), x \in AnyRequestMessage :
             r = Append(q, x) /\ Answered(q) /\ x.calls = due

PairInv ==
    /\ Open(Convert(system, Base), DueIn(Base, stop))
    /\ pc = "upstream" => Answered(request)

\* The upstream's answers are in the history's translation, in order.
RepliesInv == Each(HeardF, Convert(system, Base)) = RecalledFrom(said)

\* A new conversation has nothing but the system prompt.
LEMMA StartPairs ==
    ASSUME NEW prompt \in Seq(AnyBlock), NEW reason
    PROVE  /\ Open(Convert(prompt, <<>>), DueIn(<<>>, reason))
           /\ Each(HeardF, Convert(prompt, <<>>)) = RecalledFrom(<<>>)
<1>1. PICK r \in Seq(AnyRequestMessage) :
         /\ r = Convert(prompt, <<>>)
         /\ \A i \in 1 .. Len(r) : r[i].role = "system" /\ r[i].calls = <<>>
  BY ConvertNothing, SystemEach
<1>2. Answered(r)
  BY <1>1, AnsweredPlain
<1>3. DueIn(<<>>, reason) = <<>>
  BY DEF DueIn
<1>4. Each(HeardF, r) = <<>>
  BY <1>1, HeardOthers
<1>5. RecalledFrom(<<>>) = <<>>
  <2>1. [n \in DOMAIN <<>> |-> Recalled(<<>>[n], n)] = <<>>
    OBVIOUS
  <2> QED
    BY <2>1, FlattenNothing, Zenon DEF RecalledFrom
<1> QED
  BY <1>1, <1>2, <1>3, <1>4, <1>5 DEF Open

\* The results a user brings close what was open.
LEMMA UserPairs ==
    ASSUME NEW r \in Seq(AnyRequestMessage), NEW due \in Seq(Call), Open(r, due),
           NEW order \in Bijection(DOMAIN due, DOMAIN due),
           NEW m \in AnyMessage, m.role = "user", Results(m.blocks) = Paired(due, order)
    PROVE  Answered(r \o ConvertMessage(m))
<1>1. PICK p \in Seq(ToolMessages), body \in Seq(AnyRequestMessage) :
         /\ p = Paired(due, order) /\ ConvertMessage(m) = p \o body
         /\ \A i \in 1 .. Len(body) : body[i].role = "user" /\ body[i].calls = <<>>
  BY UserConverts
<1>2. Answered(body)
  BY <1>1, AnsweredPlain
<1>3. p \in Seq(AnyRequestMessage)
  <2>1. ToolMessages \subseteq AnyRequestMessage
    BY DEF ToolMessages
  <2> QED
    BY <2>1, SeqMonotonic
<1>4. CASE due = <<>>
  <2>1. p = <<>>
    BY <1>1, <1>4 DEF Paired
  <2>2. ConvertMessage(m) = body
    BY <1>1, <2>1, ConcatEmptySeq
  <2>3. Answered(r)
    BY <1>4 DEF Open
  <2> QED
    BY <1>2, <2>2, <2>3, AnsweredJoin, Zenon
<1>5. CASE due # <<>>
  <2>1. PICK q \in Seq(AnyRequestMessage), x \in AnyRequestMessage :
           r = Append(q, x) /\ Answered(q) /\ x.calls = due
    BY <1>5, Zenon DEF Open
  <2>2. Answered(<<x>> \o p)
    BY <1>1, <1>5, <2>1, AnsweredGroup, Zenon
  <2>3. PICK t \in Seq(AnyRequestMessage) : t = <<x>>
    <3>1. \A S : \A y \in S : <<y>> \in Seq(S)
      OBVIOUS
    <3> QED
      BY <3>1, Zenon
  <2>4. \A u, v \in Seq(AnyRequestMessage) : u \o v \in Seq(AnyRequestMessage)
    OBVIOUS
  <2>5. Answered(q \o (t \o p))
    BY <1>3, <2>1, <2>2, <2>3, <2>4, AnsweredJoin, Zenon
  <2>6. Answered((q \o (t \o p)) \o body)
    BY <1>2, <1>3, <2>4, <2>5, AnsweredJoin, Zenon
  <2>7. (q \o t) \o (p \o body) = (q \o (t \o p)) \o body
    <3>1. PICK tp \in Seq(AnyRequestMessage), pb \in Seq(AnyRequestMessage) :
             tp = t \o p /\ pb = p \o body
      BY <1>3, <2>4
    <3>2. (q \o t) \o pb = q \o (t \o pb)
      <4>1. Associates(q, t, pb)
        BY ConcatAssociates, Zenon
      <4> QED
        BY <4>1, Zenon DEF Associates
    <3>3. (q \o tp) \o body = q \o (tp \o body)
      <4>1. Associates(q, tp, body)
        BY ConcatAssociates, Zenon
      <4> QED
        BY <4>1, Zenon DEF Associates
    <3>4. (t \o p) \o body = t \o (p \o body)
      <4>1. Associates(t, p, body)
        BY <1>3, ConcatAssociates, Zenon
      <4> QED
        BY <4>1, Zenon DEF Associates
    <3> QED
      BY <3>1, <3>2, <3>3, <3>4, Zenon
  <2>8. r = q \o t
    <3>1. \A S : \A u \in Seq(S), y \in S : Append(u, y) = u \o <<y>>
      OBVIOUS
    <3> QED
      BY <2>1, <2>3, <3>1, Zenon
  <2> QED
    BY <1>1, <2>6, <2>7, <2>8, Zenon
<1> QED
  BY <1>4, <1>5

\* The calls of an answer are due, if it is one the API promises.
LEMMA ReplyPairs ==
    ASSUME NEW a \in Answer,
           a.calls # <<>> \/ a.function_call # "none"
              => a.finish \in {"tool_calls", "function_call", "none"},
           NEW n \in Nat, NEW r \in Seq(AnyRequestMessage), Answered(r),
           NEW m \in AnyMessage, m.role = "assistant",
           Results(m.blocks) = <<>>, Parts(m.blocks) = Spoken(a, n),
           Calls(m.blocks) = CallsIn(ToolUses(a, n)),
           NEW h, h # <<>>, Last(h) = m
    PROVE  Open(r \o ConvertMessage(m), DueIn(h, StopReason(a)))
<1>1. PICK calls \in Seq(Call) : calls = Calls(m.blocks)
  BY BlocksTyped DEF AnyMessage
<1>2. CASE calls = <<>>
  <2>1. DueIn(h, StopReason(a)) = <<>>
    BY <1>1, <1>2 DEF DueIn
  <2>2. PICK s \in Seq(AnyRequestMessage) :
           s = ConvertMessage(m) /\ \A i \in 1 .. Len(s) : s[i].role # "tool" /\ s[i].calls = <<>>
    <3>1. CASE ConvertMessage(m) = Results(m.blocks)
      <4>1. <<>> \in Seq(AnyRequestMessage) /\ \A i \in 1 .. Len(<<>>) : FALSE
        OBVIOUS
      <4> QED
        BY <3>1, <4>1
    <3>2. ASSUME NEW x \in AnyRequestMessage, x.role = m.role, x.calls = calls,
                 ConvertMessage(m) = Append(Results(m.blocks), x)
          PROVE  \E s \in Seq(AnyRequestMessage) :
                    s = ConvertMessage(m) /\ \A i \in 1 .. Len(s) : s[i].role # "tool" /\ s[i].calls = <<>>
      <4>1. \A S : \A y \in S : <<y>> \in Seq(S) /\ Len(<<y>>) = 1 /\ <<y>>[1] = y /\ Append(<<>>, y) = <<y>>
        OBVIOUS
      <4>2. PICK s : s = <<x>>
        OBVIOUS
      <4>4. s \in Seq(AnyRequestMessage) /\ Len(s) = 1 /\ s[1] = x
        BY <4>1, <4>2, Zenon
      <4>5. Append(<<>>, x) = s
        BY <4>1, <4>2, Zenon
      <4>6. s = ConvertMessage(m)
        BY <3>2, <4>5, Zenon
      <4>3. \A i \in 1 .. Len(s) : s[i].role # "tool" /\ s[i].calls = <<>>
        BY <1>2, <3>2, <4>4
      <4> QED
        BY <4>3, <4>4, <4>6
    <3> QED
      BY <1>1, <3>1, <3>2, ConvertIs, Zenon
  <2>3. Answered(s)
    BY <2>2, AnsweredPlain
  <2>4. Answered(r \o s)
    BY <2>3, AnsweredJoin, Zenon
  <2> QED
    BY <2>1, <2>2, <2>4, Zenon DEF Open
<1>3. CASE calls # <<>>
  <2>1. a.calls # <<>> \/ a.function_call # "none"
    <3> SUFFICES ASSUME a.calls = <<>> /\ a.function_call = "none" PROVE calls = <<>>
      BY <1>3
    <3>1. ToolUses(a, n) = <<>>
      BY ToolUsesTyped
    <3>2. CallsIn(<<>>) = <<>>
      BY DEF CallsIn
    <3> QED
      BY <1>1, <3>1, <3>2, Zenon
  <2>2. StopReason(a) = "tool_use"
    BY <2>1 DEF StopReason
  <2>3. DueIn(h, StopReason(a)) = calls
    BY <1>1, <2>2 DEF DueIn
  <2>4. PICK x \in AnyRequestMessage : x.calls = calls /\ ConvertMessage(m) = <<x>>
    <3>1. PICK x \in AnyRequestMessage :
             x.calls = calls /\ ConvertMessage(m) = Append(<<>>, x)
      BY <1>1, <1>3, ConvertIs, Zenon
    <3>2. Append(<<>>, x) = <<x>>
      OBVIOUS
    <3> QED
      BY <3>1, <3>2, Zenon
  <2>5. r \o <<x>> = Append(r, x)
    <3>1. \A S : \A u \in Seq(S), y \in S : Append(u, y) = u \o <<y>>
      OBVIOUS
    <3> QED
      BY <3>1, Zenon
  <2> QED
    BY <1>3, <2>3, <2>4, <2>5, Zenon DEF Open
<1> QED
  BY <1>2, <1>3

-----------------------------------------------------------------------------
(* Types, and the request as the translated history. *)

\* The conversation begins with nothing but its system prompt.
LEMMA TypeInit ==
    ASSUME ConversationAssumption, Init
    PROVE  TypeInv
<1>1. system \in Seq(AnyBlock)
  <2>1. PICK notes \in Prompts : system = Written(notes, 0, "system")
    BY DEF Init
  <2>2. notes \in Seq(Note)
    <3>1. notes \in Seq([type : {"text"}, cached : BOOLEAN])
      BY DEF ConversationAssumption
    <3>2. [type : {"text"}, cached : BOOLEAN] \subseteq Note
      BY DEF Note
    <3> QED
      BY <3>1, <3>2, SeqMonotonic
  <2>3. 0 \in Nat /\ "system" \in Places
    BY DEF Places
  <2>4. Written(notes, 0, "system") \in Seq(AnyBlock)
    BY <2>2, <2>3, WrittenTyped
  <2> QED
    BY <2>1, <2>4, Zenon
<1>2. <<>> \in Seq(AnyMessage) /\ <<>> \in Seq(AnyRequestMessage) /\ <<>> \in Seq(Answers) /\ Len(<<>>) = 0
  OBVIOUS
<1> QED
  BY <1>1, <1>2 DEF ConversationAssumption, Init, TypeInv, TypeOK, Translated

\* The reasons to stop are those Anthropic's clients know.
LEMMA StopTyped == \A a : StopReason(a) \in {"none", "end_turn", "max_tokens", "tool_use"}
  BY DEF StopReason

\* Every step keeps the types, and a new request is the translated history.
LEMMA TypeNext ==
    ASSUME ConversationAssumption, TypeInv, [Next]_vars
    PROVE  TypeInv'
<1> USE DEF TypeInv
<1>1. ASSUME NEW before \in Notes, NEW after \in Notes,
             NEW order \in Bijection(DOMAIN Due, DOMAIN Due), NEW shape \in Shape,
             Ask(before, after, order, shape)
      PROVE  TypeInv'
  <2>1. PICK m \in AnyMessage : m.role = "user" /\ history' = Append(history, m)
    BY <1>1, AskStep
  <2>2. /\ history' \in Seq(AnyMessage) /\ history' # <<>> /\ Last(history') = m
    BY <2>1, AppendFront DEF TypeOK
  <2>3. /\ request' = Convert(system, history') /\ pc' = "upstream"
        /\ system' = system /\ said' = said /\ stop' = stop
    BY <1>1, Zenon DEF Ask
  <2>4. request' \in Seq(AnyRequestMessage)
    BY <2>2, <2>3, ConvertEach DEF TypeOK
  <2>5. TypeOK'
    BY <2>2, <2>3, <2>4 DEF TypeOK
  <2>6. Translated'
    BY <2>1, <2>2, <2>3, Zenon DEF Translated
  <2> QED
    BY <2>5, <2>6
<1>2. ASSUME NEW a \in Answers, NEW thinking \in BOOLEAN, Reply(a, thinking)
      PROVE  TypeInv'
  <2>1. PICK n \in Nat : n = Len(said) + 1
    BY LenProperties DEF TypeOK
  <2>2. PICK m \in AnyMessage : history' = Append(history, m)
    BY <1>2, <2>1, ReplyStep
  <2>3. history' \in Seq(AnyMessage)
    BY <2>2, AppendFront DEF TypeOK
  <2>4. /\ request' = <<>> /\ pc' = "user" /\ system' = system /\ stop' = StopReason(a)
        /\ said' = Append(said, a) /\ n <= MaxAnswers
    BY <1>2, <2>1, Zenon DEF Reply
  <2>5. said' \in Seq(Answers) /\ Len(said') = n
    BY <2>1, <2>4, AppendProperties DEF TypeOK
  <2>6. stop' \in {"none", "end_turn", "max_tokens", "tool_use"}
    BY <2>4, StopTyped
  <2>7. request' \in Seq(AnyRequestMessage)
    BY <2>4
  <2> QED
    BY <2>3, <2>4, <2>5, <2>6, <2>7 DEF TypeOK, Translated
<1>3. CASE Unusable
  <2>1. history # <<>>
    BY <1>3 DEF Unusable, Translated
  <2>2. history' \in Seq(AnyMessage)
    BY <1>3, <2>1, LastFront DEF Unusable, TypeOK
  <2>3. request' \in Seq(AnyRequestMessage)
    BY <1>3 DEF Unusable
  <2> QED
    BY <1>3, <2>2, <2>3 DEF Unusable, TypeOK, Translated
<1>4. CASE NewConversation
  <2>1. <<>> \in Seq(AnyMessage) /\ <<>> \in Seq(AnyRequestMessage) /\ <<>> \in Seq(Answers) /\ Len(<<>>) = 0
    OBVIOUS
  <2> QED
    BY <1>4, <2>1 DEF NewConversation, TypeOK, Translated, ConversationAssumption
<1>5. CASE UNCHANGED vars
  <2>1. TypeOK'
    BY <1>5 DEF vars, TypeOK
  <2>2. Translated'
    BY <1>5, Zenon DEF vars, Translated
  <2> QED
    BY <2>1, <2>2
<1> QED
  BY <1>1, <1>2, <1>3, <1>4, <1>5 DEF Next

\* The state is well-formed in every reachable state, and what the upstream is
\* sent is always the whole history, translated, with a user message last.
THEOREM TypeCorrect == Spec => [](TypeOK /\ Translated)
<1>1. Init => TypeInv
  BY ConversationAssumption, TypeInit
<1>2. TypeInv /\ [Next]_vars => TypeInv'
  BY ConversationAssumption, TypeNext
<1>3. TypeInv <=> TypeOK /\ Translated
  BY DEF TypeInv
<1> QED
  BY <1>1, <1>2, <1>3, PTL DEF Spec

-----------------------------------------------------------------------------
(* cache_control marks. *)

\* Every mark on a system or message text is in the request, on that text and in
\* that order, and no other part has one (convert_message_to_openai,
\* convert_system_to_openai): for every prompt, history and answer.
THEOREM CacheMarksKeptHolds == Spec => []CacheMarksKept
<1>1. TypeOK /\ Translated => CacheMarksKept
  <2> SUFFICES ASSUME TypeOK, Translated, pc = "upstream"
               PROVE  FlattenSeq([i \in DOMAIN request |-> Marks(request[i].parts)])
                      = Marks(system) \o FlattenSeq([i \in DOMAIN history |-> TextMarks(history[i].blocks)])
    BY DEF CacheMarksKept
  <2>1. system \in Seq(AnyBlock) /\ history \in Seq(AnyMessage)
    BY DEF TypeOK
  <2>2. request = Convert(system, history)
    BY DEF Translated
  <2> QED
    BY <2>1, <2>2, RequestMarks, Zenon
<1> QED
  BY <1>1, TypeCorrect, PTL

-----------------------------------------------------------------------------
(* Calls and results. *)

\* Every step keeps calls and results paired.
LEMMA PairNext ==
    ASSUME ConversationAssumption, Agreeing, TypeInv, PairInv, [Next]_vars
    PROVE  PairInv'
<1>0. system \in Seq(AnyBlock) /\ history \in Seq(AnyMessage)
  BY DEF TypeInv, TypeOK
<1>1. ASSUME NEW before \in Notes, NEW after \in Notes,
             NEW order \in Bijection(DOMAIN Due, DOMAIN Due), NEW shape \in Shape,
             Ask(before, after, order, shape)
      PROVE  PairInv'
  <2>1. PICK m \in AnyMessage :
           /\ m.role = "user" /\ history' = Append(history, m)
           /\ Results(m.blocks) = Paired(DueIn(history, stop), order)
    BY <1>1, AskStep DEF TypeInv
  <2>2. /\ DueIn(history, stop) \in Seq(Call)
        /\ order \in Bijection(DOMAIN DueIn(history, stop), DOMAIN DueIn(history, stop))
    BY <1>1, AskStep DEF TypeInv
  <2>3. /\ request' = Convert(system, history') /\ pc = "user" /\ pc' = "upstream"
        /\ system' = system /\ stop' = stop
    BY <1>1, Zenon DEF Ask
  <2>4. Base = history /\ Base' = history
    <3>1. Front(history') = history
      BY <1>0, <2>1, AppendFront
    <3> QED
      BY <2>3, <3>1, Zenon DEF Base
  <2>5. Open(Convert(system, history), DueIn(history, stop))
    BY <2>4, Zenon DEF PairInv
  <2>6. Convert(system, history) \in Seq(AnyRequestMessage)
    BY <1>0, ConvertEach
  <2>7. Answered(Convert(system, history) \o ConvertMessage(m))
    BY <2>1, <2>2, <2>5, <2>6, UserPairs, Zenon
  <2>8. Answered(request')
    BY <1>0, <2>1, <2>3, <2>7, ConvertAppend, Zenon
  <2> QED
    BY <2>3, <2>4, <2>5, <2>8, Zenon DEF PairInv
<1>2. ASSUME NEW a \in Answers, NEW thinking \in BOOLEAN, Reply(a, thinking)
      PROVE  PairInv'
  <2>1. PICK n \in Nat : n = Len(said) + 1
    BY LenProperties DEF TypeInv, TypeOK
  <2>2. PICK m \in AnyMessage :
           /\ m.role = "assistant" /\ history' = Append(history, m)
           /\ Results(m.blocks) = <<>> /\ Parts(m.blocks) = Spoken(a, n)
           /\ Calls(m.blocks) = CallsIn(ToolUses(a, n))
    BY <1>2, <2>1, ReplyStep DEF TypeInv
  <2>3. pc = "upstream" /\ pc' = "user" /\ system' = system /\ stop' = StopReason(a)
    BY <1>2, Zenon DEF Reply
  <2>4. Base' = history'
    BY <2>3, Zenon DEF Base
  <2>5. request = Convert(system, history) /\ Answered(request) /\ request \in Seq(AnyRequestMessage)
    BY <2>3 DEF TypeInv, TypeOK, Translated, PairInv
  <2>6. history' # <<>> /\ Last(history') = m
    BY <1>0, <2>2, AppendFront
  <2>7. /\ a \in Answer
        /\ a.calls # <<>> \/ a.function_call # "none"
              => a.finish \in {"tool_calls", "function_call", "none"}
    BY DEF ConversationAssumption, Agreeing
  <2>8. Open(request \o ConvertMessage(m), DueIn(history', StopReason(a)))
    BY <2>2, <2>5, <2>6, <2>7, ReplyPairs, Zenon
  <2>9. Convert(system, history') = request \o ConvertMessage(m)
    BY <1>0, <2>2, <2>5, ConvertAppend, Zenon
  <2> QED
    BY <2>3, <2>4, <2>8, <2>9, Zenon DEF PairInv
<1>3. CASE Unusable
  <2>1. Base' = Base /\ pc' = "user" /\ system' = system /\ stop' = stop
    BY <1>3, Zenon DEF Unusable, Base
  <2> QED
    BY <2>1, Zenon DEF PairInv
<1>4. CASE NewConversation
  <2>1. Base' = <<>> /\ pc' = "user" /\ system' = system
    BY <1>4 DEF NewConversation, Base
  <2>2. Open(Convert(system, <<>>), DueIn(<<>>, stop'))
    BY <1>0, StartPairs
  <2> QED
    BY <2>1, <2>2 DEF PairInv
<1>5. CASE UNCHANGED vars
  <2>1. Base' = Base /\ pc' = pc /\ system' = system /\ stop' = stop /\ request' = request
    BY <1>5, Zenon DEF vars, Base
  <2> QED
    BY <2>1, Zenon DEF PairInv
<1> QED
  BY <1>1, <1>2, <1>3, <1>4, <1>5 DEF Next

\* If answers are what the API promises, OpenAI accepts every request: each call
\* has its result right behind it, and there are no other results, however the
\* client mixes results with text and whatever it gives up in between
\* (convert_message_to_openai, openai_to_anthropic).
THEOREM UpstreamAcceptsHolds ==
    ASSUME Agreeing
    PROVE  Spec => []UpstreamAccepts
<1>1. Init => TypeInv /\ PairInv
  <2> SUFFICES ASSUME Init PROVE TypeInv /\ PairInv
    OBVIOUS
  <2>1. TypeInv
    BY ConversationAssumption, TypeInit
  <2>2. system \in Seq(AnyBlock) /\ Base = <<>> /\ pc = "user"
    BY <2>1 DEF Init, TypeInv, TypeOK, Base
  <2>3. Open(Convert(system, <<>>), DueIn(<<>>, stop))
    BY <2>2, StartPairs
  <2> QED
    BY <2>1, <2>2, <2>3 DEF PairInv
<1>2. TypeInv /\ PairInv /\ [Next]_vars => TypeInv' /\ PairInv'
  BY ConversationAssumption, Agreeing, TypeNext, PairNext
<1>3. TypeInv /\ PairInv => UpstreamAccepts
  BY AnsweredAccepted DEF TypeInv, TypeOK, PairInv, UpstreamAccepts
<1> QED
  BY <1>1, <1>2, <1>3, PTL DEF Spec

-----------------------------------------------------------------------------
(* The upstream's answers. *)

\* Every step keeps the answers in the history's translation.
LEMMA RepliesNext ==
    ASSUME ConversationAssumption, AsText, TypeInv, RepliesInv, [Next]_vars
    PROVE  RepliesInv'
<1>0. system \in Seq(AnyBlock) /\ history \in Seq(AnyMessage) /\ said \in Seq(Answers)
  BY DEF TypeInv, TypeOK
<1>1. ASSUME NEW before \in Notes, NEW after \in Notes,
             NEW order \in Bijection(DOMAIN Due, DOMAIN Due), NEW shape \in Shape,
             Ask(before, after, order, shape)
      PROVE  RepliesInv'
  <2>1. PICK m \in AnyMessage : history' = Append(history, m)
    BY <1>1, AskStep DEF TypeInv
  <2>2. pc = "user" /\ pc' = "upstream" /\ system' = system /\ said' = said
    BY <1>1, Zenon DEF Ask
  <2>3. Front(history') = history
    BY <1>0, <2>1, AppendFront
  <2>4. Base' = Base
    BY <2>2, <2>3, Zenon DEF Base
  <2> QED
    BY <2>2, <2>4, Zenon DEF RepliesInv
<1>2. ASSUME NEW a \in Answers, NEW thinking \in BOOLEAN, Reply(a, thinking)
      PROVE  RepliesInv'
  <2>1. PICK n \in Nat : n = Len(said) + 1
    BY <1>0, LenProperties
  <2>2. PICK m \in AnyMessage :
           /\ m.role = "assistant" /\ history' = Append(history, m)
           /\ Results(m.blocks) = <<>> /\ Parts(m.blocks) = Spoken(a, n)
           /\ Calls(m.blocks) = CallsIn(ToolUses(a, n))
    BY <1>2, <2>1, ReplyStep DEF TypeInv
  <2>3. pc = "upstream" /\ pc' = "user" /\ system' = system /\ said' = Append(said, a)
    BY <1>2, Zenon DEF Reply
  <2>4. PICK h \in Seq(AnyMessage), u \in AnyMessage :
           history = Append(h, u) /\ u.role = "user" /\ Base = h
    <3>1. history # <<>> /\ Last(history).role = "user"
      BY <2>3 DEF TypeInv, Translated
    <3>2. /\ Front(history) \in Seq(AnyMessage) /\ Last(history) \in AnyMessage
          /\ history = Append(Front(history), Last(history))
      BY <1>0, <3>1, LastFront
    <3>3. Base = Front(history)
      BY <2>3, Zenon DEF Base
    <3> QED
      BY <3>1, <3>2, <3>3, Zenon
  <2>5. PICK p \in Seq(AnyRequestMessage), q \in Seq(AnyRequestMessage), r \in Seq(AnyRequestMessage) :
           p = Convert(system, h) /\ q = ConvertMessage(u) /\ r = ConvertMessage(m)
    BY <1>0, ConvertEach, ConvertTyped
  <2>6. Convert(system', Base') = (p \o q) \o r
    <3>1. Base' = history'
      BY <2>3, Zenon DEF Base
    <3>2. Convert(system, Append(h, u)) = p \o q
      BY <1>0, <2>5, ConvertAppend, Zenon
    <3>3. Convert(system, Append(history, m)) = Convert(system, history) \o r
      BY <1>0, <2>5, ConvertAppend, Zenon
    <3> QED
      BY <2>2, <2>3, <2>4, <3>1, <3>2, <3>3, Zenon
  <2>7. Each(HeardF, (p \o q) \o r) = (Each(HeardF, p) \o Each(HeardF, q)) \o Each(HeardF, r)
    <3>1. Concats(HeardF, AnyRequestMessage)
      BY HeardTypes, EachConcat, Zenon
    <3>2. p \o q \in Seq(AnyRequestMessage)
      BY ConcatProperties
    <3>3. Each(HeardF, p \o q) = Each(HeardF, p) \o Each(HeardF, q)
      BY <3>1, Zenon DEF Concats
    <3>4. Each(HeardF, (p \o q) \o r) = Each(HeardF, p \o q) \o Each(HeardF, r)
      BY <3>1, <3>2, Zenon DEF Concats
    <3> QED
      BY <3>3, <3>4, Zenon
  <2>8. \A b \in Answers : b \in Answer /\ \A i \in DOMAIN b.calls : b.calls[i] # "value"
    BY DEF ConversationAssumption, AsText
  <2>9. Each(HeardF, q) = <<>> /\ Each(HeardF, r) = Recalled(a, n)
    BY <2>2, <2>4, <2>5, <2>8, HeardUser, HeardReply, Zenon
  <2>10. Each(HeardF, p) \in Seq(AnyReply) /\ Each(HeardF, p) = RecalledFrom(said)
    <3>1. Appends(HeardF, AnyRequestMessage, AnyReply)
      BY HeardTypes, EachAppend, Zenon
    <3>2. Each(HeardF, p) \in Seq(AnyReply)
      BY <3>1, Zenon DEF Appends
    <3> QED
      BY <2>4, <2>5, <3>2, Zenon DEF RepliesInv
  <2>11. Each(HeardF, p) \o <<>> = Each(HeardF, p)
    BY <2>10, ConcatEmptySeq
  <2>12. RecalledFrom(Append(said, a)) = RecalledFrom(said) \o Recalled(a, n)
    <3>1. said \in Seq(Answer)
      <4>1. Answers \subseteq Answer
        BY <2>8
      <4> QED
        BY <1>0, <4>1, SeqMonotonic
    <3>2. \A k \in DOMAIN said : \A i \in DOMAIN said[k].calls : said[k].calls[i] # "value"
      <4>1. \A k \in DOMAIN said : said[k] \in Answers
        BY <1>0
      <4> QED
        BY <2>8, <4>1, Zenon
    <3> QED
      BY <2>1, <2>8, <3>1, <3>2, RecalledAppend, Zenon
  <2> QED
    BY <2>3, <2>6, <2>7, <2>9, <2>10, <2>11, <2>12, Zenon DEF RepliesInv
<1>3. CASE Unusable
  <2>1. Base' = Base /\ system' = system /\ said' = said
    BY <1>3, Zenon DEF Unusable, Base
  <2> QED
    BY <2>1, Zenon DEF RepliesInv
<1>4. CASE NewConversation
  <2>1. Base' = <<>> /\ system' = system /\ said' = <<>>
    BY <1>4 DEF NewConversation, Base
  <2>2. Each(HeardF, Convert(system, <<>>)) = RecalledFrom(<<>>)
    BY <1>0, StartPairs
  <2> QED
    BY <2>1, <2>2, Zenon DEF RepliesInv
<1>5. CASE UNCHANGED vars
  <2>1. Base' = Base /\ system' = system /\ said' = said
    BY <1>5, Zenon DEF vars, Base
  <2> QED
    BY <2>1, Zenon DEF RepliesInv
<1> QED
  BY <1>1, <1>2, <1>3, <1>4, <1>5 DEF Next

\* If the arguments of tool_calls come as text, the upstream meets its own
\* answers again in every later request, complete and in order, and nothing else
\* as its own: the translations there and back are inverse on what was said.
THEOREM RepliesComeBackHolds ==
    ASSUME AsText
    PROVE  Spec => []RepliesComeBack
<1>1. Init => TypeInv /\ RepliesInv
  <2> SUFFICES ASSUME Init PROVE TypeInv /\ RepliesInv
    OBVIOUS
  <2>1. TypeInv
    BY ConversationAssumption, TypeInit
  <2>2. system \in Seq(AnyBlock) /\ Base = <<>> /\ said = <<>>
    BY <2>1 DEF Init, TypeInv, TypeOK, Base
  <2>3. Each(HeardF, Convert(system, <<>>)) = RecalledFrom(<<>>)
    BY <2>2, StartPairs
  <2> QED
    BY <2>1, <2>2, <2>3, Zenon DEF RepliesInv
<1>2. TypeInv /\ RepliesInv /\ [Next]_vars => TypeInv' /\ RepliesInv'
  BY ConversationAssumption, AsText, TypeNext, RepliesNext
<1>3. TypeInv /\ RepliesInv => RepliesComeBack
  <2> SUFFICES ASSUME TypeInv, RepliesInv, pc = "upstream"
               PROVE  FlattenSeq([i \in DOMAIN request |-> Heard(request[i])]) = RecalledFrom(said)
    BY Zenon DEF RepliesComeBack, RecalledFrom
  <2>1. PICK r \in Seq(AnyRequestMessage) : r = request
    BY DEF TypeInv, TypeOK
  <2>2. FlattenSeq([i \in DOMAIN r |-> Heard(r[i])]) = Each(HeardF, r)
    <3>1. \A i \in DOMAIN r : r[i] \in AnyRequestMessage
      OBVIOUS
    <3>2. [i \in DOMAIN r |-> Heard(r[i])] = [i \in DOMAIN r |-> HeardF[r[i]]]
      BY <3>1 DEF HeardF
    <3> QED
      BY <3>2, Zenon DEF Each
  <2>3. /\ system \in Seq(AnyBlock) /\ history \in Seq(AnyMessage)
        /\ history # <<>> /\ Last(history).role = "user" /\ r = Convert(system, history)
    BY <2>1 DEF TypeInv, TypeOK, Translated
  <2>4. PICK h \in Seq(AnyMessage), u \in AnyMessage :
           history = Append(h, u) /\ u.role = "user" /\ Base = h
    <3>1. /\ Front(history) \in Seq(AnyMessage) /\ Last(history) \in AnyMessage
          /\ history = Append(Front(history), Last(history))
      BY <2>3, LastFront
    <3>2. Base = Front(history)
      BY DEF Base
    <3> QED
      BY <2>3, <3>1, <3>2, Zenon
  <2>5. PICK p \in Seq(AnyRequestMessage), q \in Seq(AnyRequestMessage) :
           p = Convert(system, h) /\ q = ConvertMessage(u)
    BY <2>3, ConvertEach, ConvertTyped
  <2>6. r = p \o q
    BY <2>3, <2>4, <2>5, ConvertAppend, Zenon
  <2>7. Each(HeardF, p \o q) = Each(HeardF, p) \o Each(HeardF, q)
    <3>1. Concats(HeardF, AnyRequestMessage)
      BY HeardTypes, EachConcat, Zenon
    <3> QED
      BY <3>1, Zenon DEF Concats
  <2>8. Each(HeardF, q) = <<>>
    BY <2>4, <2>5, HeardUser
  <2>9. Each(HeardF, p) \o <<>> = Each(HeardF, p)
    <3>1. Appends(HeardF, AnyRequestMessage, AnyReply)
      BY HeardTypes, EachAppend, Zenon
    <3>2. Each(HeardF, p) \in Seq(AnyReply)
      BY <3>1, Zenon DEF Appends
    <3> QED
      BY <3>2, ConcatEmptySeq
  <2>10. Each(HeardF, p) = RecalledFrom(said)
    BY <2>4, <2>5, Zenon DEF RepliesInv
  <2> QED
    BY <2>1, <2>2, <2>6, <2>7, <2>8, <2>9, <2>10, Zenon
<1> QED
  BY <1>1, <1>2, <1>3, PTL DEF Spec
=============================================================================
