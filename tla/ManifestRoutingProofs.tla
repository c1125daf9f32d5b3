----------------------- MODULE ManifestRoutingProofs ------------------------
(***************************************************************************)
(* For any documents, nested in lists to any depth, in any order and over  *)
(* any number of calls: every object of a run that returns has its file,   *)
(* in the directory its scope and its namespace say.                       *)
(***************************************************************************)
EXTENDS ManifestRouting, DataInduction, SequenceTheorems

\* Documents, each with the namespace it falls back on.
Pair == (Doc \cup {NotAMapping}) \X (Namespace \cup Falsy)
-----------------------------------------------------------------------------
(* Sequences. *)

LEMMA AppendElements ==
    ASSUME NEW S, NEW seq \in Seq(S), NEW x \in S
    PROVE  /\ Append(seq, x) \in Seq(S)
           /\ Elements(Append(seq, x)) = Elements(seq) \cup {x}
<1>1. /\ Append(seq, x) \in Seq(S)
      /\ DOMAIN seq = 1..Len(seq) /\ Len(seq) \in Nat
      /\ DOMAIN Append(seq, x) = 1..(Len(seq) + 1)
      /\ \A i \in 1..Len(seq) : Append(seq, x)[i] = seq[i]
      /\ Append(seq, x)[Len(seq) + 1] = x
  BY AppendProperties, LenProperties
<1> QED BY <1>1 DEF Elements

LEMMA SeqElements ==
    ASSUME NEW S, NEW seq \in Seq(S)
    PROVE  Elements(seq) \in SUBSET S
BY ElementOfSeq, LenProperties DEF Elements

LEMMA ConcatElements ==
    ASSUME NEW S, NEW s \in Seq(S), NEW t \in Seq(S)
    PROVE  /\ s \o t \in Seq(S)
           /\ Elements(s \o t) = Elements(s) \cup Elements(t)
<1>1. /\ s \o t \in Seq(S)
      /\ Len(s) \in Nat /\ DOMAIN s = 1..Len(s)
      /\ Len(t) \in Nat /\ DOMAIN t = 1..Len(t)
      /\ DOMAIN (s \o t) = 1..(Len(s) + Len(t))
      /\ \A i \in 1..(Len(s) + Len(t)) : (s \o t)[i] =
            IF i <= Len(s) THEN s[i] ELSE t[i - Len(s)]
  BY ConcatProperties, LenProperties
<1>2. Elements(s) \subseteq Elements(s \o t)
  BY <1>1 DEF Elements
<1>3. ASSUME NEW i \in DOMAIN t PROVE t[i] \in Elements(s \o t)
  <2>1. /\ i + Len(s) \in 1..(Len(s) + Len(t)) /\ ~(i + Len(s) <= Len(s))
        /\ (i + Len(s)) - Len(s) = i
    BY <1>1
  <2>2. (s \o t)[i + Len(s)] = t[i]
    BY <1>1, <2>1
  <2> QED BY <1>1, <2>1, <2>2 DEF Elements
<1>4. ASSUME NEW i \in DOMAIN (s \o t) PROVE (s \o t)[i] \in Elements(s) \cup Elements(t)
  <2>1. CASE i <= Len(s)
    BY <1>1, <2>1 DEF Elements
  <2>2. CASE ~(i <= Len(s))
    <3>1. i - Len(s) \in DOMAIN t
      BY <1>1, <2>2
    <3> QED BY <1>1, <2>2, <3>1 DEF Elements
  <2> QED BY <2>1, <2>2
<1> QED BY <1>1, <1>2, <1>3, <1>4 DEF Elements

LEMMA TailElements ==
    ASSUME NEW S, NEW seq \in Seq(S), seq # << >>
    PROVE  /\ Head(seq) \in S /\ Tail(seq) \in Seq(S)
           /\ Elements(seq) = {Head(seq)} \cup Elements(Tail(seq))
<1>1. /\ Tail(seq) \in Seq(S) /\ Head(seq) = seq[1] /\ Head(seq) \in S
      /\ Len(seq) \in Nat /\ Len(seq) > 0
      /\ DOMAIN seq = 1..Len(seq) /\ DOMAIN Tail(seq) = 1..(Len(seq) - 1)
      /\ \A i \in 1..(Len(seq) - 1) : Tail(seq)[i] = seq[i + 1]
  BY HeadTailProperties, LenProperties, EmptySeq
<1>2. ASSUME NEW i \in DOMAIN seq PROVE seq[i] \in {Head(seq)} \cup Elements(Tail(seq))
  <2>1. CASE i = 1
    BY <1>1, <2>1
  <2>2. CASE i # 1
    <3>1. i - 1 \in DOMAIN Tail(seq) /\ (i - 1) + 1 = i
      BY <1>1, <2>2
    <3> QED BY <1>1, <3>1 DEF Elements
  <2> QED BY <2>1, <2>2
<1>3. ASSUME NEW i \in DOMAIN Tail(seq) PROVE Tail(seq)[i] \in Elements(seq)
  <2>1. i + 1 \in DOMAIN seq
    BY <1>1
  <2> QED BY <1>1, <2>1 DEF Elements
<1>4. Head(seq) \in Elements(seq)
  BY <1>1 DEF Elements
<1> QED BY <1>1, <1>2, <1>3, <1>4 DEF Elements

\* A sequence made from another one, item by item.
LEMMA ItemByItem ==
    ASSUME NEW S, NEW seq \in Seq(S), NEW T, NEW F, DOMAIN F = DOMAIN seq,
           F = [i \in DOMAIN seq |-> F[i]], \A i \in DOMAIN seq : F[i] \in T
    PROVE  F \in Seq(T)
<1>1. Len(seq) \in Nat /\ DOMAIN seq = 1..Len(seq)
  BY LenProperties
<1>2. F \in [1..Len(seq) -> T]
  BY <1>1
<1> QED BY <1>1, <1>2, SeqDef
-----------------------------------------------------------------------------
(* Lists. *)

LEMMA InsideLists ==
    ASSUME NEW e \in Pair, IsList(e[1])
    PROVE  Inside(e[1], e[2]) \subseteq Pair
<1>1. e[1] \in DocType
  BY RoutingAssumption DEF Pair, IsList
<1>2. \A d \in Elements(e[1].items) : d \in Doc \cup {NotAMapping}
  BY <1>1 DEF DocType, Elements
<1>3. e[1].ns \in Namespace \cup Falsy /\ e[2] \in Namespace \cup Falsy
  BY <1>1 DEF DocType, Pair
<1> QED BY <1>2, <1>3 DEF Inside, Pair

LEMMA UnnestedPairs ==
    ASSUME NEW X \in SUBSET Pair
    PROVE  Unnested(X) \in SUBSET Pair
BY InsideLists DEF Unnested

LEMMA LevelsDefined ==
    ASSUME NEW X \in SUBSET Pair
    PROVE  Levels(X) = [n \in Nat |-> IF n = 0 THEN X ELSE Unnested(Levels(X)[n - 1])]
<1> DEFINE F == [p \in Nat \X SUBSET Pair |-> Unnested(p[2])]
           Def(f) == f = [n \in Nat |-> IF n = 0 THEN X ELSE Unnested(f[n - 1])]
<1>1. PICK f : Recursion(f, X, F)
  <2> HIDE DEF F
  <2> QED BY RecursionExists
<1> DEFINE T == {n \in Nat : f[n] \in SUBSET Pair}
<1>2. 0 \in T
  BY <1>1 DEF Recursion
<1>3. ASSUME NEW n \in Nat, n \in T PROVE n + 1 \in T
  <2>1. f[n + 1] = F[<<n + 1, f[n]>>]
    <3> HIDE DEF F
    <3>1. n + 1 \in Nat /\ n + 1 # 0 /\ (n + 1) - 1 = n
      OBVIOUS
    <3> QED BY <1>1, <3>1 DEF Recursion
  <2>2. f[n + 1] = Unnested(f[n])
    BY <1>3, <2>1
  <2> QED BY <1>3, <2>2, UnnestedPairs
<1>4. Nat \subseteq T
  <2> HIDE DEF T
  <2> QED BY <1>2, <1>3, SetInduction
<1>5. ASSUME NEW n \in Nat, n # 0 PROVE F[<<n, f[n - 1]>>] = Unnested(f[n - 1])
  <2>1. n - 1 \in Nat
    BY <1>5
  <2>2. f[n - 1] \in SUBSET Pair
    BY <1>4, <2>1
  <2> QED BY <2>2
<1>6. Def(f)
  <2> HIDE DEF F
  <2> QED BY <1>1, <1>5 DEF Recursion
<1>7. Levels(X) = CHOOSE g : Def(g)
  BY DEF Levels
<1>8. Def(Levels(X))
  <2> HIDE DEF Def
  <2> QED BY <1>6, <1>7
<1> QED BY <1>8

\* The levels of nested lists, one by one.
LEMMA LevelSteps ==
    ASSUME NEW X \in SUBSET Pair
    PROVE  /\ Levels(X)[0] = X
           /\ \A n \in Nat : /\ Levels(X)[n] \in SUBSET Pair
                             /\ Levels(X)[n + 1] = Unnested(Levels(X)[n])
<1>1. Levels(X)[0] = X
  BY LevelsDefined
<1>2. ASSUME NEW n \in Nat PROVE Levels(X)[n + 1] = Unnested(Levels(X)[n])
  <2>1. n + 1 \in Nat /\ n + 1 # 0 /\ (n + 1) - 1 = n
    OBVIOUS
  <2> QED BY <2>1, LevelsDefined
<1> DEFINE T == {n \in Nat : Levels(X)[n] \in SUBSET Pair}
<1>3. 0 \in T
  BY <1>1
<1>4. ASSUME NEW n \in Nat, n \in T PROVE n + 1 \in T
  BY <1>2, <1>4, UnnestedPairs
<1>5. Nat \subseteq T
  <2> HIDE DEF T
  <2> QED BY <1>3, <1>4, SetInduction
<1> QED BY <1>1, <1>2, <1>5

\* Lists next to each other do not matter to each other.
LEMMA LevelsOfUnion ==
    ASSUME NEW X \in SUBSET Pair, NEW Y \in SUBSET Pair
    PROVE  \A n \in Nat : Levels(X \cup Y)[n] = Levels(X)[n] \cup Levels(Y)[n]
<1> DEFINE T == {n \in Nat : Levels(X \cup Y)[n] = Levels(X)[n] \cup Levels(Y)[n]}
<1>0. X \cup Y \in SUBSET Pair
  OBVIOUS
<1>1. 0 \in T
  BY <1>0, LevelSteps
<1>2. ASSUME NEW n \in Nat, n \in T PROVE n + 1 \in T
  <2>1. Levels(X \cup Y)[n + 1] = Unnested(Levels(X)[n] \cup Levels(Y)[n])
    BY <1>0, <1>2, LevelSteps
  <2>2. Unnested(Levels(X)[n] \cup Levels(Y)[n])
            = Unnested(Levels(X)[n]) \cup Unnested(Levels(Y)[n])
    BY DEF Unnested
  <2>3. /\ Levels(X)[n + 1] = Unnested(Levels(X)[n])
        /\ Levels(Y)[n + 1] = Unnested(Levels(Y)[n])
    BY LevelSteps
  <2>4. Levels(X \cup Y)[n + 1] = Levels(X)[n + 1] \cup Levels(Y)[n + 1]
    BY <2>1, <2>2, <2>3, Zenon
  <2> QED BY <2>4
<1>3. Nat \subseteq T
  <2> HIDE DEF T
  <2> QED BY <1>1, <1>2, SetInduction
<1> QED BY <1>3

LEMMA UnnestedWithoutLists ==
    ASSUME NEW X, \A e \in X : ~IsList(e[1])
    PROVE  Unnested(X) = X
BY DEF Unnested

\* What is no list stays as it is.
LEMMA LevelsWithoutLists ==
    ASSUME NEW X \in SUBSET Pair, \A e \in X : ~IsList(e[1])
    PROVE  \A n \in Nat : Levels(X)[n] = X
<1> DEFINE T == {n \in Nat : Levels(X)[n] = X}
<1>1. 0 \in T
  BY LevelSteps
<1>2. ASSUME NEW n \in Nat, n \in T PROVE n + 1 \in T
  <2>1. Levels(X)[n + 1] = Unnested(X)
    BY <1>2, LevelSteps
  <2> QED BY <2>1, UnnestedWithoutLists
<1>3. Nat \subseteq T
  <2> HIDE DEF T
  <2> QED BY <1>1, <1>2, SetInduction
<1> QED BY <1>3

\* A list is its items, one level deeper.
LEMMA LevelsOfList ==
    ASSUME NEW e \in Pair, IsList(e[1])
    PROVE  \A n \in Nat : Levels({e})[n + 1] = Levels(Inside(e[1], e[2]))[n]
<1> DEFINE X == Inside(e[1], e[2])
           T == {n \in Nat : Levels({e})[n + 1] = Levels(X)[n]}
<1>1. {e} \in SUBSET Pair /\ X \in SUBSET Pair
  BY InsideLists
<1>2. Unnested({e}) = X
  BY DEF Unnested
<1> HIDE DEF X
<1>3. 0 \in T
  BY <1>1, <1>2, LevelSteps
<1>4. ASSUME NEW n \in Nat, n \in T PROVE n + 1 \in T
  <2>1. n + 1 \in Nat
    OBVIOUS
  <2>2. Levels({e})[(n + 1) + 1] = Unnested(Levels({e})[n + 1])
    BY <1>1, <2>1, LevelSteps
  <2> QED BY <1>1, <1>4, <2>1, <2>2, LevelSteps
<1>5. Nat \subseteq T
  <2> HIDE DEF T
  <2> QED BY <1>3, <1>4, SetInduction
<1> QED BY <1>5 DEF X

\* Taking a list apart does not change what is in it, provided that Depth levels
\* are enough.
LEMMA LeavesOfList ==
    ASSUME NEW e \in Pair, IsList(e[1]), \A f \in Leaves({e}) : ~IsList(f[1])
    PROVE  Leaves({e}) = Leaves(Inside(e[1], e[2]))
<1> DEFINE X == Inside(e[1], e[2])
<1>1. {e} \in SUBSET Pair /\ X \in SUBSET Pair
  BY InsideLists
<1>2. Depth \in Nat /\ Depth # 0
  <2>1. CASE Depth = 0
    <3>1. Leaves({e}) = {e}
      BY <1>1, <2>1, LevelSteps DEF Leaves
    <3> QED BY <3>1
  <2> QED BY <2>1, RoutingAssumption
<1> HIDE DEF X
<1>3. PICK n \in Nat : Depth = n + 1
  <2>1. Depth - 1 \in Nat /\ Depth = (Depth - 1) + 1
    BY <1>2
  <2> QED BY <2>1
<1>4. Leaves({e}) = Levels(X)[n]
  BY <1>3, LevelsOfList DEF Leaves, X
<1>5. Leaves(X) = Unnested(Levels(X)[n])
  BY <1>1, <1>3, LevelSteps DEF Leaves
<1> QED BY <1>4, <1>5, UnnestedWithoutLists DEF X

LEMMA LeavesOfUnion ==
    ASSUME NEW X \in SUBSET Pair, NEW Y \in SUBSET Pair
    PROVE  Leaves(X \cup Y) = Leaves(X) \cup Leaves(Y)
<1>1. \A n \in Nat : Levels(X \cup Y)[n] = Levels(X)[n] \cup Levels(Y)[n]
  BY LevelsOfUnion
<1>2. Levels(X \cup Y)[Depth] = Levels(X)[Depth] \cup Levels(Y)[Depth]
  BY <1>1, RoutingAssumption
<1> QED BY <1>2 DEF Leaves

\* Nothing nests in nothing.
LEMMA LeavesOfNone == Leaves({}) = {}
BY LevelsWithoutLists, RoutingAssumption DEF Leaves
-----------------------------------------------------------------------------
(* Hooks and CRDs. *)

LEMMA WithoutHooksDefined ==
    ASSUME NEW docs
    PROVE  \E kept :
              /\ WithoutHooks(docs) = kept[Len(docs)]
              /\ kept[0] = << >>
              /\ \A n \in Nat :
                    kept[n + 1] = IF docs[n + 1][1].hook THEN kept[n]
                                  ELSE Append(kept[n], docs[n + 1])
<1> DEFINE S == {docs[n] : n \in Nat}
           F == [p \in Nat \X Seq(S) |->
                    IF docs[p[1]][1].hook THEN p[2] ELSE Append(p[2], docs[p[1]])]
           Def(f) == f = [n \in Nat |-> IF n = 0 THEN << >>
                              ELSE IF docs[n][1].hook THEN f[n - 1]
                              ELSE Append(f[n - 1], docs[n])]
<1>1. PICK f : Recursion(f, << >>, F)
  <2> HIDE DEF F
  <2> QED BY RecursionExists
<1> DEFINE T == {n \in Nat : f[n] \in Seq(S)}
<1>2. 0 \in T
  BY <1>1 DEF Recursion
<1>3. ASSUME NEW n \in Nat, n \in T PROVE n + 1 \in T
  <2>1. f[n + 1] = F[<<n + 1, f[n]>>]
    <3> HIDE DEF F
    <3>1. n + 1 \in Nat /\ n + 1 # 0 /\ (n + 1) - 1 = n
      OBVIOUS
    <3> QED BY <1>1, <3>1 DEF Recursion
  <2>2. /\ f[n] \in Seq(S) /\ docs[n + 1] \in S
        /\ f[n + 1] = IF docs[n + 1][1].hook THEN f[n] ELSE Append(f[n], docs[n + 1])
    BY <1>3, <2>1
  <2> HIDE DEF S
  <2>3. Append(f[n], docs[n + 1]) \in Seq(S)
    BY <2>2, AppendProperties
  <2>4. f[n + 1] \in Seq(S)
    BY <2>2, <2>3
  <2> QED BY <2>4
<1>4. Nat \subseteq T
  <2> HIDE DEF T
  <2> QED BY <1>2, <1>3, SetInduction
<1>5. ASSUME NEW n \in Nat, n # 0
      PROVE  F[<<n, f[n - 1]>>] = IF docs[n][1].hook THEN f[n - 1]
                                  ELSE Append(f[n - 1], docs[n])
  <2>1. n - 1 \in Nat
    BY <1>5
  <2>2. f[n - 1] \in Seq(S)
    BY <1>4, <2>1
  <2> QED BY <2>2
<1>6. Def(f)
  <2> HIDE DEF F
  <2> QED BY <1>1, <1>5 DEF Recursion
<1> DEFINE kept == CHOOSE g : Def(g)
<1>7. WithoutHooks(docs) = kept[Len(docs)]
  BY DEF WithoutHooks
<1>8. Def(kept)
  <2> HIDE DEF Def
  <2> QED BY <1>6
<1> HIDE DEF kept
<1>9. ASSUME NEW n \in Nat
      PROVE  kept[n + 1] = IF docs[n + 1][1].hook THEN kept[n]
                           ELSE Append(kept[n], docs[n + 1])
  <2>1. n + 1 \in Nat /\ n + 1 # 0 /\ (n + 1) - 1 = n
    OBVIOUS
  <2> QED BY <1>8, <2>1
<1> QED BY <1>7, <1>8, <1>9

\* What is left are the documents that are no hooks.
LEMMA HooksLeftOut ==
    ASSUME NEW S, NEW docs \in Seq(S)
    PROVE  /\ WithoutHooks(docs) \in Seq(S)
           /\ Elements(WithoutHooks(docs)) = {x \in Elements(docs) : ~x[1].hook}
<1>1. PICK kept :
         /\ WithoutHooks(docs) = kept[Len(docs)]
         /\ kept[0] = << >>
         /\ \A n \in Nat :
               kept[n + 1] = IF docs[n + 1][1].hook THEN kept[n]
                             ELSE Append(kept[n], docs[n + 1])
  BY WithoutHooksDefined
<1> DEFINE Of(n) == {docs[i] : i \in {j \in 1..n : ~docs[j][1].hook}}
           T == {n \in Nat : n <= Len(docs) =>
                                kept[n] \in Seq(S) /\ Elements(kept[n]) = Of(n)}
<1>2. 0 \in T
  <2>1. 1..0 = {} /\ << >> \in Seq(S) /\ DOMAIN << >> = 1..0
    BY EmptySeq, LenProperties
  <2>2. Elements(<< >>) = {} /\ Of(0) = {}
    BY <2>1 DEF Elements
  <2> HIDE DEF Of
  <2> QED BY <1>1, <2>1, <2>2
<1>3. ASSUME NEW n \in Nat, n \in T PROVE n + 1 \in T
  <2> SUFFICES ASSUME n + 1 <= Len(docs)
               PROVE  kept[n + 1] \in Seq(S) /\ Elements(kept[n + 1]) = Of(n + 1)
    OBVIOUS
  <2>1. kept[n] \in Seq(S) /\ Elements(kept[n]) = Of(n)
    BY <1>3
  <2>2. docs[n + 1] \in S
    BY ElementOfSeq
  <2>3. CASE docs[n + 1][1].hook
    <3>1. Of(n + 1) = Of(n)
      BY <2>3
    <3> QED BY <1>1, <2>1, <2>3, <3>1
  <2>4. CASE ~docs[n + 1][1].hook
    <3>1. kept[n + 1] = Append(kept[n], docs[n + 1])
      BY <1>1, <2>4
    <3>2. Of(n + 1) = Of(n) \cup {docs[n + 1]}
      BY <2>4
    <3> HIDE DEF Of
    <3>3. /\ kept[n + 1] \in Seq(S)
          /\ Elements(kept[n + 1]) = Elements(kept[n]) \cup {docs[n + 1]}
      BY <2>1, <2>2, <3>1, AppendElements
    <3> QED BY <2>1, <3>2, <3>3
  <2> QED BY <2>3, <2>4
<1>4. Nat \subseteq T
  <2> HIDE DEF T
  <2> QED BY <1>2, <1>3, SetInduction
<1>5. Len(docs) \in Nat /\ DOMAIN docs = 1..Len(docs)
  BY LenProperties
<1>6. Of(Len(docs)) = {x \in Elements(docs) : ~x[1].hook}
  BY <1>5 DEF Elements
<1>7. kept[Len(docs)] \in Seq(S) /\ Elements(kept[Len(docs)]) = Of(Len(docs))
  <2>1. Len(docs) \in T
    <3> HIDE DEF T
    <3> QED BY <1>4, <1>5
  <2> QED BY <1>5, <2>1
<1> QED BY <1>1, <1>6, <1>7

\* What the CRDs among the objects of a call state about a kind.
Said(d, c) == {x.scope : x \in {y \in DefinedIn(c) :
                                   y.group = d.group /\ y.kind = d.kind}}

\* Table t has what they agree upon.
Decides(t, c) ==
    /\ t \subseteq ScopeEntry
    /\ \A e \in Kept(c) : \A scope \in {"Cluster", "Namespaced"} :
          Said(e[1], c) = {scope} => Stated(e[1], t) = {scope}

\* Of the CRDs that define a kind the last one counts, whichever it is: if they
\* agree, what they say is in the table.
LEMMA ScopesDecide ==
    ASSUME NEW docs \in Seq(DocType), NEW c,
           UNION {d.defines : d \in Elements(docs)} = DefinedIn(c)
    PROVE  Decides(CrdScopes(docs), c)
<1> DEFINE t == CrdScopes(docs)
<1>1. Len(docs) \in Nat /\ DOMAIN docs = 1..Len(docs)
  BY LenProperties
<1>2. \A i \in DOMAIN docs : docs[i] \in DocType /\ docs[i].defines \subseteq ScopeEntry
  <2> SUFFICES ASSUME NEW d \in DocType PROVE d.defines \subseteq ScopeEntry
    BY ElementOfSeq, <1>1
  <2> QED BY DEF DocType
<1>3. t \subseteq ScopeEntry /\ t \subseteq DefinedIn(c)
  <2>1. \A x \in t : \E i \in DOMAIN docs : x \in docs[i].defines
    BY DEF CrdScopes
  <2> QED BY <1>2, <2>1 DEF Elements
<1>4. ASSUME NEW d, NEW scope \in {"Cluster", "Namespaced"}, Said(d, c) = {scope}
      PROVE  \E x \in t : x.group = d.group /\ x.kind = d.kind
  <2> DEFINE About(x) == x.group = d.group /\ x.kind = d.kind
             I == {i \in 1..Len(docs) : \E x \in docs[i].defines : About(x)}
  <2>1. PICK x \in DefinedIn(c) : About(x)
    BY <1>4 DEF Said
  <2>2. I # {}
    BY <1>1, <2>1 DEF Elements
  <2>3. PICK i \in I : \A j \in I : j <= i
    <3>1. I \in SUBSET (1..Len(docs))
      OBVIOUS
    <3> HIDE DEF I
    <3> QED BY <1>1, <2>2, <3>1, LastExists
  <2>4. PICK y \in docs[i].defines : About(y)
    OBVIOUS
  <2>5. ASSUME NEW j \in (i + 1)..Len(docs), NEW f \in docs[j].defines
        PROVE  y.group # f.group \/ y.kind # f.kind
    <3>1. j \in 1..Len(docs) /\ ~(j <= i)
      BY <1>1
    <3>2. j \notin I
      BY <2>3, <3>1
    <3> QED BY <2>4, <3>1, <3>2
  <2>6. y \in t
    BY <1>1, <2>4, <2>5 DEF CrdScopes
  <2> QED BY <2>4, <2>6
<1> HIDE DEF t
<1>5. ASSUME NEW d, NEW scope \in {"Cluster", "Namespaced"}, Said(d, c) = {scope}
      PROVE  Stated(d, t) = {scope}
  <2>1. \A x \in t : x.group = d.group /\ x.kind = d.kind => x.scope = scope
    BY <1>3, <1>5 DEF Said
  <2>2. PICK x \in t : x.group = d.group /\ x.kind = d.kind
    BY <1>4, <1>5
  <2>3. scope # ""
    OBVIOUS
  <2> QED BY <2>1, <2>2, <2>3 DEF Stated
<1> QED BY <1>3, <1>5 DEF Decides, t
-----------------------------------------------------------------------------
(* The invariant. *)

\* The namespace given to an object that lacks one.
Home(e, c) == IF e[2] \in Falsy THEN c.namespace ELSE e[2]

\* Object d of directory dir is e, an object of call c, as it is to be written.
Put(d, dir, e, c) ==
    /\ IF dir = Cluster THEN d = e[1]
       ELSE /\ d = IF e[1].kind \notin Falsy /\ e[1].ns = Missing
                   THEN [e[1] EXCEPT !.ns = Home(e, c)] ELSE e[1]
            /\ dir = IF d.ns \in Falsy THEN c.namespace ELSE d.ns
    /\ \A scope \in {"Cluster", "Namespaced"} :
          Said(e[1], c) = {scope} => (scope = "Cluster") = (dir = Cluster)

\* ... is from call c.
Holds(d, dir, c) ==
    \/ \E e \in Expected(c) : e[1] # NotAMapping /\ d.id = e[1].id /\ Put(d, dir, e, c)
    \/ d.id \in Mount

\* Object o is one that call c is to write, by scope table t.
Comes(o, c, t) ==
    \/ \E e \in Kept(c) : e[1] # NotAMapping /\ o = Stamped(e[1], Home(e, c), t)
    \/ o.id \in Mount

\* What is called id has a file.
Filed(id) == \E p \in DOMAIN disk : disk[p].id = id

\* ... or will have one.
Pending(id) == Filed(id) \/ \E o \in Elements(objects) : o.id = id /\ ~Nameless(o)

AllMappings(c) == \A e \in Given(c) : e[1] # NotAMapping

\* What has been taken apart, and what has not, is what was given.
ExpandInv ==
    /\ call \in DOMAIN calls
    /\ ~Current.copy
    /\ objects \in Seq(Pair) /\ work \in Seq(Pair)
    /\ \A e \in Elements(objects) : e[1] # NotAMapping
    /\ Elements(objects) \cup Leaves(Elements(work)) = Given(Current)

\* What has been written, and what has not, is what is to be.
WriteInv ==
    /\ call \in DOMAIN calls
    /\ AllMappings(Current)
    /\ Decides(scopes, Current)
    /\ objects \in Seq(DocType)
    /\ \A o \in Elements(objects) : Comes(o, Current, scopes)
    /\ \A e \in Expected(Current) : Pending(e[1].id)
    /\ \A j \in DOMAIN Current.mounts : Pending(Current.mounts[j])

\* A call that is over has left a file for all that was expected.
Settled(c) ==
    /\ AllMappings(c)
    /\ \A e \in Expected(c) : Filed(e[1].id)
    /\ \A j \in DOMAIN c.mounts : Filed(c.mounts[j])

\* Every file is from a call so far.
Traced == \A p \in DOMAIN disk : \E i \in DOMAIN calls :
              i <= call /\ Holds(disk[p], p[1], calls[i])

RoutingInv ==
    /\ TypeOK
    /\ calls \in Runs
    /\ claimed = DOMAIN disk
    /\ phase = "next" => work = << >> /\ objects = << >>
    /\ phase = "expand" => ExpandInv
    /\ phase = "write" => WriteInv /\ work = << >>
    /\ Traced
    /\ \A i \in 1..(call - 1) : Settled(calls[i])

\* A run that has returned has made all its calls.
ReturnInv == phase = "returned" => call > Len(calls)
-----------------------------------------------------------------------------
(* What runs are given. *)

LEMMA CallTypes ==
    ASSUME calls \in Runs
    PROVE  /\ calls \in Seq(CallType) /\ Len(calls) \in Nat
           /\ DOMAIN calls = 1..Len(calls)
           /\ \A i \in DOMAIN calls :
                 /\ calls[i] \in CallType
                 /\ calls[i].docs \in Seq(Doc \cup {NotAMapping})
                 /\ calls[i].namespace \in Namespace \cup {Missing}
                 /\ calls[i].mounts \in Seq(Mount)
                 /\ ~calls[i].copy =>
                       calls[i].namespace # Missing /\ calls[i].mounts = << >>
<1>1. calls \in Seq(CallType)
  BY RoutingAssumption
<1>2. Len(calls) \in Nat /\ DOMAIN calls = 1..Len(calls)
  BY <1>1, LenProperties
<1>3. ASSUME NEW i \in DOMAIN calls
      PROVE  /\ calls[i] \in CallType
             /\ calls[i].docs \in Seq(Doc \cup {NotAMapping})
             /\ calls[i].namespace \in Namespace \cup {Missing}
             /\ calls[i].mounts \in Seq(Mount)
             /\ ~calls[i].copy =>
                   calls[i].namespace # Missing /\ calls[i].mounts = << >>
  <2>1. calls[i] \in CallType
    BY <1>1, <1>2, ElementOfSeq
  <2>2. ~calls[i].copy => calls[i].namespace # Missing /\ calls[i].mounts = << >>
    BY RoutingAssumption
  <2> QED BY <2>1, <2>2 DEF CallType
<1> QED BY <1>1, <1>2, <1>3

LEMMA GivenPairs ==
    ASSUME calls \in Runs, NEW i \in DOMAIN calls
    PROVE  /\ Start(calls[i]) \in SUBSET Pair /\ Given(calls[i]) \in SUBSET Pair
           /\ Kept(calls[i]) \in SUBSET Pair
<1> DEFINE c == calls[i]
<1>1. c.docs \in Seq(Doc \cup {NotAMapping})
  BY CallTypes
<1>2. \A d \in Elements(c.docs) : d \in Doc \cup {NotAMapping}
  BY <1>1 DEF Elements
<1>3. Start(c) \in SUBSET Pair
  <2>1. \A d \in Elements(c.docs) : <<d, Missing>> \in Pair
    BY <1>2 DEF Pair, Falsy
  <2> QED BY <2>1 DEF Start
<1>4. Leaves(Start(c)) \in SUBSET Pair
  BY <1>3, LevelSteps, RoutingAssumption DEF Leaves
<1> HIDE DEF c
<1> QED BY <1>3, <1>4 DEF Given, Kept, c

LEMMA PairTypes ==
    ASSUME NEW e \in Pair, e[1] # NotAMapping
    PROVE  /\ e[1] \in Doc /\ e[1] \in DocType /\ e[2] \in Namespace \cup Falsy
           /\ e[1].id \notin Mount
BY RoutingAssumption, GivenAssumption DEF Pair

LEMMA NoListsLeft ==
    ASSUME calls \in Runs, NEW i \in DOMAIN calls, ~calls[i].copy,
           NEW e \in Given(calls[i])
    PROVE  ~IsList(e[1])
BY GivenAssumption

\* Documents are told apart by what they are called.
LEMMA GivenOnce ==
    ASSUME calls \in Runs, NEW i \in DOMAIN calls, NEW j \in DOMAIN calls,
           NEW e \in Given(calls[i]), NEW f \in Given(calls[j]),
           e[1] # NotAMapping, f[1] # NotAMapping, e[1].id = f[1].id
    PROVE  i = j /\ e = f
BY GivenAssumption

\* The namespace an object gets is one.
LEMMA StampedType ==
    ASSUME NEW d \in DocType, NEW ns \in Namespace \cup {Missing}, NEW t
    PROVE  /\ Stamped(d, ns, t) \in DocType
           /\ Stamped(d, ns, t).id = d.id
           /\ Stamped(d, ns, t).kind = d.kind
           /\ Stamped(d, ns, t).name = d.name
           /\ Stamped(d, ns, t).group = d.group
BY DEF Stamped, DocType, Falsy

LEMMA HomeType ==
    ASSUME calls \in Runs, NEW i \in DOMAIN calls, NEW e \in Pair
    PROVE  Home(e, calls[i]) \in Namespace \cup {Missing}
BY CallTypes DEF Home, Pair

LEMMA ScopeByKind ==
    ASSUME NEW d, NEW o, o.kind = d.kind, o.group = d.group, NEW t
    PROVE  IsClusterScoped(o, t) = IsClusterScoped(d, t)
<1>1. \A u : Stated(o, u) = Stated(d, u)
  BY DEF Stated
<1> QED BY <1>1 DEF IsClusterScoped
-----------------------------------------------------------------------------
(* Every step keeps RoutingInv. *)

\* A step that neither writes nor ends a call leaves the earlier calls alone.
LEMMA HistoryKept ==
    ASSUME RoutingInv, UNCHANGED <<calls, call, claimed, disk>>
    PROVE  /\ (calls \in Runs)' /\ (claimed = DOMAIN disk)'
           /\ Traced'
           /\ (\A i \in 1..(call - 1) : Settled(calls[i]))'
<1>1. Traced'
  BY DEF RoutingInv, Traced
<1>2. ASSUME NEW i \in 1..(call - 1) PROVE Settled(calls[i])'
  <2>1. Settled(calls[i])
    BY DEF RoutingInv
  <2>2. calls'[i] = calls[i]
    OBVIOUS
  <2>3. \A id : Filed(id)' = Filed(id)
    BY DEF Filed
  <2> QED BY <2>1, <2>2, <2>3 DEF Settled
<1> QED BY <1>1, <1>2 DEF RoutingInv

LEMMA RoutingInit == Init => RoutingInv
<1> SUFFICES ASSUME Init PROVE RoutingInv
  OBVIOUS
<1>1. DOMAIN disk = {} /\ DOMAIN work = {}
  BY DEF Init
<1>2. calls \in Seq(CallType) /\ Len(calls) \in Nat
  BY CallTypes DEF Init
<1>3. TypeOK
  BY <1>1, <1>2 DEF Init, TypeOK
<1>4. Traced /\ \A i \in 1..(call - 1) : Settled(calls[i])
  BY <1>1 DEF Init, Traced
<1> QED BY <1>1, <1>3, <1>4 DEF Init, RoutingInv

LEMMA MoreToDo ==
    ASSUME RoutingInv, More
    PROVE  call \in DOMAIN calls
BY CallTypes DEF RoutingInv, TypeOK, More

\* Between two calls, and when the run is over.
LEMMA OutsideKeep ==
    ASSUME RoutingInv, UNCHANGED <<calls, call, work, objects, scopes, claimed, disk>>,
           phase' \in {"returned", "failed"} \/ UNCHANGED phase
    PROVE  RoutingInv'
<1>1. TypeOK'
  BY DEF RoutingInv, TypeOK
<1>2. CASE phase' \in {"returned", "failed"}
  BY <1>1, <1>2, HistoryKept DEF RoutingInv
<1>3. CASE UNCHANGED phase
  <2>1. ExpandInv' = ExpandInv
    BY DEF ExpandInv, Current
  <2>2. WriteInv' = WriteInv
    <3>1. Current' = Current
      BY DEF Current
    <3>2. \A id : Pending(id)' = Pending(id)
      BY DEF Pending, Filed
    <3> QED BY <3>1, <3>2 DEF WriteInv
  <2> QED BY <1>1, <1>3, <2>1, <2>2, HistoryKept DEF RoutingInv
<1> QED BY <1>2, <1>3

LEMMA WorkTypes ==
    ASSUME NEW seq \in Seq(Pair)
    PROVE  \A i \in DOMAIN seq : seq[i] \in (Doc \cup {NotAMapping}) \X (Root \cup Falsy)
<1>1. \A i \in DOMAIN seq : seq[i] \in Pair
  BY ElementOfSeq, LenProperties
<1>2. Pair \subseteq (Doc \cup {NotAMapping}) \X (Root \cup Falsy)
  BY DEF Pair, Namespace
<1> QED BY <1>1, <1>2

\* Documents that are given come without a namespace to fall back on.
LEMMA PairedDocuments ==
    ASSUME NEW docs \in Seq(Doc \cup {NotAMapping}), NEW seq, seq = Paired(docs, Missing)
    PROVE  /\ seq \in Seq(Pair)
           /\ Elements(seq) = {<<d, Missing>> : d \in Elements(docs)}
           /\ DOMAIN seq = DOMAIN docs
           /\ \A k \in DOMAIN docs : seq[k][1] = docs[k] /\ seq[k][2] = Missing
<1>1. DOMAIN seq = DOMAIN docs /\ seq = [k \in DOMAIN docs |-> seq[k]]
  BY DEF Paired
<1>2. \A k \in DOMAIN docs : seq[k] = <<docs[k], Missing>>
  BY DEF Paired
<1>3. Elements(seq) = {<<d, Missing>> : d \in Elements(docs)}
  BY <1>1, <1>2 DEF Elements
<1>4. ASSUME NEW k \in DOMAIN docs PROVE seq[k] \in Pair
  <2>1. docs[k] \in Doc \cup {NotAMapping} /\ Missing \in Namespace \cup Falsy
    BY DEF Falsy
  <2>2. <<docs[k], Missing>> \in Pair
    BY <2>1 DEF Pair
  <2> QED BY <1>2, <2>2
<1>5. seq \in Seq(Pair)
  BY <1>1, <1>4, ItemByItem
<1>6. \A k \in DOMAIN docs : seq[k][1] = docs[k] /\ seq[k][2] = Missing
  BY <1>2
<1> QED BY <1>1, <1>3, <1>5, <1>6

LEMMA BeginReleaseKeeps == RoutingInv /\ BeginRelease => RoutingInv'
<1> SUFFICES ASSUME RoutingInv, BeginRelease PROVE RoutingInv'
  OBVIOUS
<1> DEFINE c == calls[call]
<1>1. /\ call \in DOMAIN calls /\ ~c.copy /\ objects = << >> /\ phase' = "expand"
      /\ work' = Paired(c.docs, Missing)
      /\ UNCHANGED <<calls, call, objects, scopes, claimed, disk>>
  BY MoreToDo DEF BeginRelease, More, RoutingInv, Current
<1>2. c.docs \in Seq(Doc \cup {NotAMapping})
  BY <1>1, CallTypes DEF RoutingInv
<1>3. /\ work' \in Seq(Pair)
      /\ Elements(work') = {<<d, Missing>> : d \in Elements(c.docs)}
  <2> HIDE DEF c
  <2> QED BY <1>1, <1>2, PairedDocuments
<1>4. Elements(work') = Start(c)
  BY <1>3 DEF Start
<1>5. objects \in Seq(Pair) /\ Elements(objects) = {}
  BY <1>1, EmptySeq DEF Elements
<1>6. Given(c) = Leaves(Elements(work'))
  BY <1>1, <1>4 DEF Given
<1>7. ExpandInv'
  BY <1>1, <1>3, <1>5, <1>6 DEF ExpandInv, Current
<1>8. TypeOK'
  <2>1. \A i \in DOMAIN work' : work'[i] \in (Doc \cup {NotAMapping}) \X (Root \cup Falsy)
    BY <1>3, WorkTypes
  <2> QED BY <1>1, <2>1 DEF RoutingInv, TypeOK
<1> QED BY <1>1, <1>7, <1>8, HistoryKept DEF RoutingInv

\* The next document to take apart, and those after it.
LEMMA NextOfWork ==
    ASSUME RoutingInv, phase = "expand", work # << >>
    PROVE  /\ Head(work) \in Pair /\ Tail(work) \in Seq(Pair)
           /\ Elements(Tail(work)) \in SUBSET Pair
           /\ Leaves(Elements(work)) = Leaves({Head(work)}) \cup Leaves(Elements(Tail(work)))
<1>1. work \in Seq(Pair)
  BY DEF RoutingInv, ExpandInv
<1>2. /\ Head(work) \in Pair /\ Tail(work) \in Seq(Pair)
      /\ Elements(work) = {Head(work)} \cup Elements(Tail(work))
  BY <1>1, TailElements
<1>3. Elements(Tail(work)) \in SUBSET Pair
  BY <1>2, SeqElements
<1>4. {Head(work)} \in SUBSET Pair
  BY <1>2
<1>5. Leaves({Head(work)} \cup Elements(Tail(work)))
          = Leaves({Head(work)}) \cup Leaves(Elements(Tail(work)))
  BY <1>3, <1>4, LeavesOfUnion
<1> QED BY <1>2, <1>3, <1>5

\* A step that takes documents apart, and loses none.
LEMMA ExpandKeeps ==
    ASSUME RoutingInv, phase = "expand", UNCHANGED <<calls, call, phase, scopes, claimed, disk>>,
           objects' \in Seq(Pair), work' \in Seq(Pair),
           \A e \in Elements(objects') : e[1] # NotAMapping,
           Elements(objects') \cup Leaves(Elements(work'))
               = Elements(objects) \cup Leaves(Elements(work))
    PROVE  RoutingInv'
<1>1. ExpandInv'
  BY DEF RoutingInv, ExpandInv, Current
<1>2. TypeOK'
  <2>1. \A i \in DOMAIN work' : work'[i] \in (Doc \cup {NotAMapping}) \X (Root \cup Falsy)
    BY WorkTypes
  <2> QED BY <2>1 DEF RoutingInv, TypeOK
<1> QED BY <1>1, <1>2, HistoryKept DEF RoutingInv

LEMMA ExpandObjectKeeps == RoutingInv /\ ExpandObject => RoutingInv'
<1> SUFFICES ASSUME RoutingInv, ExpandObject PROVE RoutingInv'
  OBVIOUS
<1> DEFINE e == Head(work)
<1>1. /\ phase = "expand" /\ work # << >> /\ e[1] # NotAMapping /\ ~IsList(e[1])
      /\ objects' = Append(objects, e) /\ work' = Tail(work)
      /\ UNCHANGED <<calls, call, phase, scopes, claimed, disk>>
  BY DEF ExpandObject
<1>2. /\ e \in Pair /\ Tail(work) \in Seq(Pair)
      /\ Leaves(Elements(work)) = Leaves({e}) \cup Leaves(Elements(Tail(work)))
  BY <1>1, NextOfWork
<1>3. objects \in Seq(Pair) /\ \A f \in Elements(objects) : f[1] # NotAMapping
  BY <1>1 DEF RoutingInv, ExpandInv
<1> HIDE DEF e
<1>4. Leaves({e}) = {e}
  <2>1. {e} \in SUBSET Pair /\ \A f \in {e} : ~IsList(f[1])
    BY <1>1, <1>2
  <2> QED BY <2>1, LevelsWithoutLists, RoutingAssumption DEF Leaves
<1>5. objects' \in Seq(Pair) /\ Elements(objects') = Elements(objects) \cup {e}
  BY <1>1, <1>2, <1>3, AppendElements
<1>6. Elements(objects') \cup Leaves(Elements(work'))
          = Elements(objects) \cup Leaves(Elements(work))
  BY <1>1, <1>2, <1>4, <1>5
<1>7. \A f \in Elements(objects') : f[1] # NotAMapping
  BY <1>1, <1>3, <1>5
<1> QED BY <1>1, <1>2, <1>5, <1>6, <1>7, ExpandKeeps

LEMMA ItemsOfList ==
    ASSUME NEW e \in Pair, IsList(e[1]), NEW items,
           items = Paired(e[1].items, ListNamespace(e[1], e[2]))
    PROVE  items \in Seq(Pair) /\ Elements(items) = Inside(e[1], e[2])
<1>1. e[1].items \in Seq(Doc \cup {NotAMapping})
  <2>1. e[1] \in DocType
    BY PairTypes DEF IsList
  <2> QED BY <2>1 DEF DocType
<1>2. Elements(items) = Inside(e[1], e[2])
  BY DEF Elements, Inside, Paired, ListNamespace
<1>3. /\ DOMAIN items = DOMAIN e[1].items
      /\ items = [i \in DOMAIN e[1].items |-> items[i]]
  BY DEF Paired
<1>4. \A i \in DOMAIN items : items[i] \in Pair
  BY <1>2, InsideLists DEF Elements
<1>5. items \in Seq(Pair)
  BY <1>1, <1>3, <1>4, ItemByItem
<1> QED BY <1>2, <1>5

LEMMA ExpandListKeeps == RoutingInv /\ ExpandList => RoutingInv'
<1> SUFFICES ASSUME RoutingInv, ExpandList PROVE RoutingInv'
  OBVIOUS
<1> DEFINE e == Head(work)
           items == Paired(e[1].items, ListNamespace(e[1], e[2]))
<1>1. /\ phase = "expand" /\ work # << >> /\ IsList(e[1])
      /\ work' = items \o Tail(work)
      /\ UNCHANGED <<calls, call, phase, objects, scopes, claimed, disk>>
  BY DEF ExpandList
<1>2. /\ e \in Pair /\ Tail(work) \in Seq(Pair)
      /\ Elements(Tail(work)) \in SUBSET Pair
      /\ Leaves(Elements(work)) = Leaves({e}) \cup Leaves(Elements(Tail(work)))
  BY <1>1, NextOfWork
<1>3. /\ objects \in Seq(Pair) /\ \A f \in Elements(objects) : f[1] # NotAMapping
      /\ ~Current.copy /\ call \in DOMAIN calls /\ calls \in Runs
      /\ Elements(objects) \cup Leaves(Elements(work)) = Given(Current)
  BY <1>1 DEF RoutingInv, ExpandInv
<1> HIDE DEF e
<1>4. \A f \in Leaves({e}) : ~IsList(f[1])
  BY <1>2, <1>3, NoListsLeft DEF Current
<1>5. Leaves({e}) = Leaves(Inside(e[1], e[2]))
  BY <1>1, <1>2, <1>4, LeavesOfList
<1>6. items \in Seq(Pair) /\ Elements(items) = Inside(e[1], e[2])
  BY <1>1, <1>2, ItemsOfList
<1>7. Inside(e[1], e[2]) \in SUBSET Pair
  BY <1>1, <1>2, InsideLists
<1> HIDE DEF items
<1>8. /\ work' \in Seq(Pair)
      /\ Elements(work') = Inside(e[1], e[2]) \cup Elements(Tail(work))
  <2>1. /\ items \o Tail(work) \in Seq(Pair)
        /\ Elements(items \o Tail(work)) = Elements(items) \cup Elements(Tail(work))
    BY <1>2, <1>6, ConcatElements
  <2> QED BY <1>1, <1>6, <2>1
<1>9. Leaves(Elements(work')) = Leaves(Inside(e[1], e[2])) \cup Leaves(Elements(Tail(work)))
  BY <1>2, <1>7, <1>8, LeavesOfUnion
<1>10. Elements(objects') \cup Leaves(Elements(work'))
           = Elements(objects) \cup Leaves(Elements(work))
  BY <1>1, <1>2, <1>5, <1>9
<1> QED BY <1>1, <1>3, <1>8, <1>10, ExpandKeeps

\* The objects of a call are stamped, and written down to be written.
LEMMA BeginWriting ==
    ASSUME RoutingInv, call \in DOMAIN calls, AllMappings(Current),
           UNCHANGED <<calls, call, claimed, disk>>, phase' = "write",
           work' = << >>, work = << >>,
           Decides(scopes', Current), objects' \in Seq(DocType),
           \A o \in Elements(objects') : Comes(o, Current, scopes'),
           \A e \in Expected(Current) :
              \E o \in Elements(objects') : o.id = e[1].id /\ ~Nameless(o),
           \A j \in DOMAIN Current.mounts :
              \E o \in Elements(objects') : o.id = Current.mounts[j] /\ ~Nameless(o)
    PROVE  RoutingInv'
<1>1. Current' = Current
  BY DEF Current
<1>2. \A id : (\E o \in Elements(objects') : o.id = id /\ ~Nameless(o)) => Pending(id)'
  BY DEF Pending
<1>3. WriteInv'
  BY <1>1, <1>2 DEF WriteInv
<1>4. TypeOK'
  BY DEF RoutingInv, TypeOK, Decides
<1> QED BY <1>3, <1>4, HistoryKept DEF RoutingInv

\* The documents of seq with the namespaces they lack.
StampsOf(objs, seq, c, t) ==
    objs = [k \in DOMAIN seq |-> Stamped(seq[k][1], Home(seq[k], c), t)]

LEMMA StampAll ==
    ASSUME calls \in Runs, NEW i \in DOMAIN calls, NEW c, c = calls[i],
           AllMappings(c), NEW seq \in Seq(Pair), Elements(seq) = Kept(c),
           NEW t, NEW objs, StampsOf(objs, seq, c, t)
    PROVE  /\ objs \in Seq(DocType)
           /\ \A o \in Elements(objs) : Comes(o, c, t)
           /\ \A e \in Expected(c) :
                 \E o \in Elements(objs) : o.id = e[1].id /\ ~Nameless(o)
<1>1. ASSUME NEW k \in DOMAIN seq
      PROVE  /\ seq[k] \in Kept(c) /\ seq[k] \in Pair /\ seq[k][1] # NotAMapping
             /\ objs[k] \in DocType
             /\ objs[k] = Stamped(seq[k][1], Home(seq[k], c), t)
             /\ objs[k].id = seq[k][1].id
             /\ objs[k].kind = seq[k][1].kind /\ objs[k].name = seq[k][1].name
  <2>1. seq[k] \in Kept(c) /\ seq[k] \in Pair
    BY GivenPairs DEF Elements
  <2>2. seq[k][1] # NotAMapping
    BY <2>1 DEF AllMappings, Kept
  <2>3. seq[k][1] \in DocType /\ Home(seq[k], c) \in Namespace \cup {Missing}
    BY <2>1, <2>2, PairTypes, HomeType
  <2>4. objs[k] = Stamped(seq[k][1], Home(seq[k], c), t)
    BY DEF StampsOf
  <2>5. LET o == Stamped(seq[k][1], Home(seq[k], c), t)
        IN  /\ o \in DocType /\ o.id = seq[k][1].id
            /\ o.kind = seq[k][1].kind /\ o.name = seq[k][1].name
    BY <2>3, StampedType
  <2> QED BY <2>1, <2>2, <2>4, <2>5
<1>2. DOMAIN objs = DOMAIN seq /\ objs = [k \in DOMAIN seq |-> objs[k]]
  BY DEF StampsOf
<1>3. objs \in Seq(DocType)
  BY <1>1, <1>2, ItemByItem
<1>4. \A o \in Elements(objs) : Comes(o, c, t)
  BY <1>1, <1>2 DEF Elements, Comes
<1>5. ASSUME NEW e \in Expected(c)
      PROVE  \E o \in Elements(objs) : o.id = e[1].id /\ ~Nameless(o)
  <2>1. e \in Kept(c) /\ ~Nameless(e[1])
    BY DEF Expected
  <2>2. PICK k \in DOMAIN seq : seq[k] = e
    BY <2>1 DEF Elements
  <2>3. objs[k].id = e[1].id /\ ~Nameless(objs[k]) /\ objs[k] \in Elements(objs)
    BY <1>1, <1>2, <2>1, <2>2 DEF Nameless, Elements
  <2> QED BY <2>3
<1> QED BY <1>3, <1>4, <1>5

\* The documents themselves.
LEMMA BareDocuments ==
    ASSUME calls \in Runs, NEW i \in DOMAIN calls, NEW c, c = calls[i],
           AllMappings(c), NEW seq \in Seq(Pair), Elements(seq) = Kept(c)
    PROVE  Decides(CrdScopes([k \in DOMAIN seq |-> seq[k][1]]), c)
<1> DEFINE docs == [k \in DOMAIN seq |-> seq[k][1]]
<1>1. \A k \in DOMAIN seq : docs[k] \in DocType
  <2> SUFFICES ASSUME NEW k \in DOMAIN seq PROVE seq[k][1] \in DocType
    OBVIOUS
  <2>1. seq[k] \in Kept(c) /\ seq[k] \in Pair
    BY GivenPairs DEF Elements
  <2>2. seq[k][1] # NotAMapping
    BY <2>1 DEF AllMappings, Kept
  <2> QED BY <2>1, <2>2, PairTypes
<1>2. DOMAIN docs = DOMAIN seq /\ docs = [k \in DOMAIN seq |-> docs[k]]
  OBVIOUS
<1>3. Elements(docs) = {e[1] : e \in Kept(c)}
  BY DEF Elements
<1> HIDE DEF docs
<1>4. docs \in Seq(DocType)
  BY <1>1, <1>2, ItemByItem
<1>5. UNION {d.defines : d \in Elements(docs)} = DefinedIn(c)
  BY <1>3 DEF DefinedIn
<1>6. Decides(CrdScopes(docs), c)
  BY <1>4, <1>5, ScopesDecide
<1> QED BY <1>6 DEF docs

LEMMA PrepareKeeps == RoutingInv /\ Prepare => RoutingInv'
<1> SUFFICES ASSUME RoutingInv, Prepare PROVE RoutingInv'
  OBVIOUS
<1> DEFINE kept == WithoutHooks(objects)
           crds == CrdScopes([k \in DOMAIN kept |-> kept[k][1]])
           objs == [k \in DOMAIN kept |-> Stamped(kept[k][1], Home(kept[k], Current), crds)]
<1>1. /\ phase = "expand" /\ work = << >> /\ phase' = "write"
      /\ UNCHANGED <<calls, call, work, claimed, disk>>
  BY DEF Prepare
<1>2. scopes' = crds /\ objects' = objs
  BY DEF Prepare, Home
<1>3. /\ calls \in Runs /\ call \in DOMAIN calls /\ ~Current.copy
      /\ objects \in Seq(Pair) /\ \A e \in Elements(objects) : e[1] # NotAMapping
      /\ Elements(objects) \cup Leaves(Elements(work)) = Given(Current)
  BY <1>1 DEF RoutingInv, ExpandInv
<1>4. Elements(objects) = Given(Current)
  <2>1. DOMAIN work = {}
    BY <1>1
  <2>2. Elements(work) = {}
    BY <2>1 DEF Elements
  <2> QED BY <1>3, <2>2, LeavesOfNone
<1>5. kept \in Seq(Pair) /\ Elements(kept) = Kept(Current)
  <2>1. kept \in Seq(Pair) /\ Elements(kept) = {x \in Elements(objects) : ~x[1].hook}
    BY <1>3, HooksLeftOut
  <2> QED BY <1>3, <1>4, <2>1 DEF Kept
<1>6. AllMappings(Current)
  BY <1>3, <1>4 DEF AllMappings
<1>7. Current = calls[call]
  BY DEF Current
<1> HIDE DEF kept
<1>8. Decides(crds, Current)
  BY <1>3, <1>5, <1>6, <1>7, BareDocuments
<1> HIDE DEF crds
<1>9. /\ objs \in Seq(DocType)
      /\ \A o \in Elements(objs) : Comes(o, Current, crds)
      /\ \A e \in Expected(Current) :
            \E o \in Elements(objs) : o.id = e[1].id /\ ~Nameless(o)
  <2>1. StampsOf(objs, kept, Current, crds)
    BY DEF StampsOf
  <2> HIDE DEF objs
  <2> QED BY <1>3, <1>5, <1>6, <1>7, <2>1, StampAll
<1>10. DOMAIN Current.mounts = {}
  BY <1>3, <1>7, CallTypes
<1> HIDE DEF objs
<1> QED BY <1>1, <1>2, <1>3, <1>6, <1>8, <1>9, <1>10, BeginWriting

\* The ConfigMaps of a call.
LEMMA ConfigMapTypes ==
    ASSUME calls \in Runs, call \in DOMAIN calls, NEW m \in Mount
    PROVE  /\ ConfigMap(m) \in DocType
           /\ ConfigMap(m).id = m /\ m \in Mount /\ ~Nameless(ConfigMap(m))
<1>1. /\ m \in Id /\ "ConfigMap" \in Kind /\ "" \in Group
      /\ Suffix[m] \in Name /\ << >> \in Seq(Doc \cup {NotAMapping})
  BY RoutingAssumption, EmptySeq
<1>2. Current.namespace \in Namespace \cup Falsy
  BY CallTypes DEF Current, Falsy
<1>3. ConfigMap(m) \in DocType
  BY <1>1, <1>2 DEF ConfigMap, DocType
<1>4. "ConfigMap" \notin Falsy /\ Suffix[m] \notin Falsy /\ Missing \in Falsy
  BY <1>1, RoutingAssumption DEF Falsy
<1>5. ~Nameless(ConfigMap(m))
  BY <1>4 DEF Nameless, Labelled, ConfigMap
<1> QED BY <1>3, <1>5 DEF ConfigMap

LEMMA ConfigMapsOf ==
    ASSUME calls \in Runs, call \in DOMAIN calls, NEW maps,
           maps = [i \in DOMAIN Current.mounts |-> ConfigMap(Current.mounts[i])]
    PROVE  /\ maps \in Seq(DocType)
           /\ \A o \in Elements(maps) : o.id \in Mount
           /\ \A j \in DOMAIN Current.mounts :
                 \E o \in Elements(maps) : o.id = Current.mounts[j] /\ ~Nameless(o)
<1>1. Current.mounts \in Seq(Mount)
  BY CallTypes DEF Current
<1>2. ASSUME NEW i \in DOMAIN Current.mounts
      PROVE  /\ maps[i] \in DocType /\ maps[i].id \in Mount
             /\ maps[i].id = Current.mounts[i] /\ ~Nameless(maps[i])
  <2>1. Current.mounts[i] \in Mount
    BY <1>1
  <2> QED BY <2>1, ConfigMapTypes
<1>3. /\ DOMAIN maps = DOMAIN Current.mounts
      /\ maps = [i \in DOMAIN Current.mounts |-> maps[i]]
  OBVIOUS
<1>4. maps \in Seq(DocType)
  BY <1>1, <1>2, <1>3, ItemByItem
<1> QED BY <1>2, <1>3, <1>4 DEF Elements

\* A copied document is paired with no namespace.
LEMMA CopiedDocuments ==
    ASSUME calls \in Runs, NEW i \in DOMAIN calls, NEW c, c = calls[i], c.copy,
           NEW seq, seq = Paired(c.docs, Missing)
    PROVE  /\ seq \in Seq(Pair) /\ Elements(seq) = Kept(c) /\ Kept(c) = Given(c)
           /\ [k \in DOMAIN seq |-> seq[k][1]] = c.docs
           /\ \A t : StampsOf([k \in DOMAIN c.docs |-> Stamped(c.docs[k], c.namespace, t)],
                              seq, c, t)
<1>1. c.docs \in Seq(Doc \cup {NotAMapping})
  BY CallTypes
<1>2. /\ seq \in Seq(Pair)
      /\ Elements(seq) = {<<d, Missing>> : d \in Elements(c.docs)}
      /\ DOMAIN seq = DOMAIN c.docs
      /\ \A k \in DOMAIN c.docs : seq[k][1] = c.docs[k] /\ seq[k][2] = Missing
  BY <1>1, PairedDocuments
<1>3. Elements(seq) = Start(c)
  BY <1>2 DEF Start
<1>4. Given(c) = Start(c) /\ Kept(c) = Start(c)
  BY DEF Given, Kept
<1>5. [k \in DOMAIN seq |-> seq[k][1]] = c.docs
  <2>1. c.docs = [k \in DOMAIN c.docs |-> c.docs[k]]
    BY <1>1
  <2>2. [k \in DOMAIN seq |-> seq[k][1]] = [k \in DOMAIN c.docs |-> c.docs[k]]
    BY <1>2
  <2> QED BY <2>1, <2>2
<1>6. ASSUME NEW t
      PROVE  StampsOf([k \in DOMAIN c.docs |-> Stamped(c.docs[k], c.namespace, t)],
                      seq, c, t)
  <2>1. \A k \in DOMAIN c.docs : seq[k][1] = c.docs[k] /\ Home(seq[k], c) = c.namespace
    <3>1. Missing \in Falsy
      BY DEF Falsy
    <3> QED BY <1>2, <3>1 DEF Home
  <2> QED BY <1>2, <2>1 DEF StampsOf
<1> QED BY <1>2, <1>3, <1>4, <1>5, <1>6

LEMMA BeginCopyKeeps == RoutingInv /\ BeginCopy => RoutingInv'
<1> SUFFICES ASSUME RoutingInv, BeginCopy PROVE RoutingInv'
  OBVIOUS
<1> DEFINE c == Current
           seq == Paired(c.docs, Missing)
           crds == CrdScopes(c.docs)
           objs == [k \in DOMAIN c.docs |-> Stamped(c.docs[k], c.namespace, crds)]
           maps == [k \in DOMAIN c.mounts |-> ConfigMap(c.mounts[k])]
<1>1. /\ More /\ c.copy /\ ~CopyBroken /\ phase' = "write" /\ phase = "next"
      /\ UNCHANGED <<calls, call, work, claimed, disk>>
      /\ scopes' = crds /\ objects' = objs \o maps
  BY DEF BeginCopy, More
<1>2. calls \in Runs /\ call \in DOMAIN calls /\ c = calls[call] /\ work = << >>
  BY <1>1, MoreToDo DEF RoutingInv, Current
<1>3. /\ seq \in Seq(Pair) /\ Elements(seq) = Kept(c) /\ Kept(c) = Given(c)
      /\ [k \in DOMAIN seq |-> seq[k][1]] = c.docs
      /\ StampsOf(objs, seq, c, crds)
  BY <1>1, <1>2, CopiedDocuments
<1>4. AllMappings(c)
  <2>1. NotAMapping \notin Elements(c.docs)
    BY <1>1 DEF CopyBroken
  <2>2. Given(c) = Start(c)
    BY <1>1 DEF Given
  <2> QED BY <2>1, <2>2 DEF AllMappings, Start
<1>5. Decides(crds, c)
  BY <1>2, <1>3, <1>4, BareDocuments
<1> HIDE DEF seq, crds, objs
<1>6. /\ objs \in Seq(DocType)
      /\ \A o \in Elements(objs) : Comes(o, c, crds)
      /\ \A e \in Expected(c) : \E o \in Elements(objs) : o.id = e[1].id /\ ~Nameless(o)
  BY <1>2, <1>3, <1>4, StampAll
<1>7. /\ maps \in Seq(DocType)
      /\ \A o \in Elements(maps) : o.id \in Mount
      /\ \A j \in DOMAIN c.mounts :
            \E o \in Elements(maps) : o.id = c.mounts[j] /\ ~Nameless(o)
  BY <1>2, ConfigMapsOf
<1> HIDE DEF maps
<1>8. objs \o maps \in Seq(DocType)
      /\ Elements(objs \o maps) = Elements(objs) \cup Elements(maps)
  BY <1>6, <1>7, ConcatElements
<1>9. /\ \A o \in Elements(objects') : Comes(o, c, crds)
      /\ \A e \in Expected(c) :
            \E o \in Elements(objects') : o.id = e[1].id /\ ~Nameless(o)
      /\ \A j \in DOMAIN c.mounts :
            \E o \in Elements(objects') : o.id = c.mounts[j] /\ ~Nameless(o)
  BY <1>1, <1>6, <1>7, <1>8 DEF Comes
<1> QED BY <1>1, <1>2, <1>4, <1>5, <1>8, <1>9, BeginWriting
-----------------------------------------------------------------------------
(* Writing. *)

\* The object to write next.
LEMMA NextObject ==
    ASSUME RoutingInv, Writing
    PROVE  /\ WriteInv /\ calls \in Runs /\ call \in DOMAIN calls
           /\ Upcoming \in DocType /\ Comes(Upcoming, Current, scopes)
           /\ Tail(objects) \in Seq(DocType)
           /\ Elements(objects) = {Upcoming} \cup Elements(Tail(objects))
<1>1. WriteInv /\ calls \in Runs /\ objects # << >>
  BY DEF RoutingInv, Writing
<1>2. /\ Upcoming \in DocType /\ Tail(objects) \in Seq(DocType)
      /\ Elements(objects) = {Upcoming} \cup Elements(Tail(objects))
  BY <1>1, TailElements DEF WriteInv, Upcoming
<1>3. Comes(Upcoming, Current, scopes)
  BY <1>1, <1>2 DEF WriteInv
<1> QED BY <1>1, <1>2, <1>3 DEF WriteInv

\* What is left to write once the next object is dealt with.
LEMMA WritesOn ==
    ASSUME RoutingInv, Writing, UNCHANGED <<calls, call, scopes>>, objects' = Tail(objects),
           \A id : Filed(id) => Filed(id)',
           (\E p \in DOMAIN disk' : disk'[p].id = Upcoming.id) \/ Nameless(Upcoming)
    PROVE  WriteInv'
<1>1. /\ WriteInv /\ Tail(objects) \in Seq(DocType)
      /\ Elements(objects) = {Upcoming} \cup Elements(Tail(objects))
  BY NextObject
<1>2. Current' = Current
  BY DEF Current
<1>3. ASSUME NEW id, Pending(id) PROVE Pending(id)'
  <2>1. CASE Filed(id)
    BY <2>1 DEF Pending
  <2>2. CASE \E o \in Elements(objects) : o.id = id /\ ~Nameless(o)
    <3>1. PICK o \in Elements(objects) : o.id = id /\ ~Nameless(o)
      BY <2>2
    <3>2. CASE o = Upcoming
      <4>1. \E p \in DOMAIN disk' : disk'[p].id = id
        BY <3>1, <3>2
      <4> QED BY <4>1 DEF Pending, Filed
    <3>3. CASE o \in Elements(objects')
      <4>1. \E x \in Elements(objects') : x.id = id /\ ~Nameless(x)
        BY <3>1, <3>3
      <4> QED BY <4>1 DEF Pending
    <3> QED BY <1>1, <3>2, <3>3
  <2> QED BY <1>3, <2>1, <2>2 DEF Pending
<1>4. \A o \in Elements(objects') : Comes(o, Current, scopes)
  BY <1>1 DEF WriteInv
<1> QED BY <1>1, <1>2, <1>3, <1>4 DEF WriteInv

LEMMA SkipKeeps == RoutingInv /\ Skip => RoutingInv'
<1> SUFFICES ASSUME RoutingInv, Skip PROVE RoutingInv'
  OBVIOUS
<1>1. /\ Writing /\ Nameless(Upcoming) /\ objects' = Tail(objects)
      /\ UNCHANGED <<calls, call, phase, work, scopes, claimed, disk>>
  BY DEF Skip
<1>2. WriteInv'
  BY <1>1, WritesOn DEF Filed
<1>3. TypeOK'
  BY <1>1 DEF RoutingInv, TypeOK
<1> QED BY <1>1, <1>2, <1>3, HistoryKept DEF RoutingInv, Writing

\* Where an object is put.
LEMMA PutDown ==
    ASSUME calls \in Runs, NEW i \in DOMAIN calls, NEW c, c = calls[i],
           NEW e \in Kept(c), e[1] # NotAMapping, NEW t, Decides(t, c),
           NEW o, o = Stamped(e[1], Home(e, c), t), NEW dir, dir # Missing,
           dir = IF IsClusterScoped(o, t) THEN Cluster
                 ELSE IF o.ns \in Falsy THEN c.namespace ELSE o.ns
    PROVE  Put(o, dir, e, c)
<1>1. /\ e \in Pair /\ e[1] \in DocType
      /\ Home(e, c) \in Namespace \cup {Missing} /\ c.namespace \in Namespace \cup {Missing}
  BY GivenPairs, PairTypes, HomeType, CallTypes
<1>2. o \in DocType /\ o.kind = e[1].kind /\ o.group = e[1].group
  BY <1>1, StampedType
<1>3. IsClusterScoped(o, t) = IsClusterScoped(e[1], t)
  BY <1>2, ScopeByKind
<1>4. dir = Cluster <=> IsClusterScoped(o, t)
  <2>1. CASE IsClusterScoped(o, t)
    BY <2>1
  <2>2. CASE ~IsClusterScoped(o, t)
    <3>1. dir = IF o.ns \in Falsy THEN c.namespace ELSE o.ns
      BY <2>2
    <3>2. o.ns \in Namespace \cup Falsy
      BY <1>2 DEF DocType
    <3>3. dir \in Namespace
      BY <1>1, <3>1, <3>2
    <3> QED BY <2>2, <3>3 DEF Namespace
  <2> QED BY <2>1, <2>2
<1>5. ASSUME NEW scope \in {"Cluster", "Namespaced"}, Said(e[1], c) = {scope}
      PROVE  (scope = "Cluster") = (dir = Cluster)
  <2>1. Stated(e[1], t) = {scope}
    BY <1>5 DEF Decides
  <2>2. IsClusterScoped(e[1], t) <=> scope = "Cluster"
    BY <2>1 DEF IsClusterScoped
  <2> QED BY <1>3, <1>4, <2>2
<1>6. CASE dir = Cluster
  <2>1. o = e[1]
    BY <1>3, <1>4, <1>6 DEF Stamped, Homeless
  <2> QED BY <1>5, <1>6, <2>1 DEF Put
<1>7. CASE dir # Cluster
  <2>1. o = IF e[1].kind \notin Falsy /\ e[1].ns = Missing
            THEN [e[1] EXCEPT !.ns = Home(e, c)] ELSE e[1]
    BY <1>3, <1>4, <1>7 DEF Stamped, Homeless
  <2>2. dir = IF o.ns \in Falsy THEN c.namespace ELSE o.ns
    BY <1>4, <1>7
  <2> QED BY <1>5, <1>7, <2>1, <2>2 DEF Put
<1> QED BY <1>6, <1>7

LEMMA PathTypes ==
    ASSUME RoutingInv, Writing, ~Nameless(Upcoming), Subdir(Upcoming) # Missing
    PROVE  PathOf(Upcoming) \in Path /\ PathOf(Upcoming)[1] = Subdir(Upcoming)
<1>1. /\ Upcoming \in DocType /\ calls \in Runs /\ call \in DOMAIN calls
  BY NextObject
<1>2. Current.namespace \in Namespace \cup {Missing}
  BY <1>1, CallTypes DEF Current
<1>3. Upcoming.ns \in Namespace \cup Falsy
  BY <1>1 DEF DocType
<1>4. Subdir(Upcoming) \in Root
  BY <1>2, <1>3, RoutingAssumption DEF Subdir, Namespace
<1>5. Labelled(Upcoming.kind) \in Kind /\ Labelled(Upcoming.name) \in Name
  <2>1. Upcoming.kind \in Kind \cup Falsy /\ Upcoming.name \in Name \cup Falsy
    BY <1>1 DEF DocType
  <2> QED BY <2>1, RoutingAssumption DEF Labelled, Nameless
<1>6. FileName[<<Labelled(Upcoming.kind), Labelled(Upcoming.name)>>] \in File
  BY <1>5 DEF File
<1> QED BY <1>4, <1>6 DEF PathOf, Path

LEMMA WriteKeeps == RoutingInv /\ Write => RoutingInv'
<1> SUFFICES ASSUME RoutingInv, Write PROVE RoutingInv'
  OBVIOUS
<1> DEFINE o == Upcoming
           path == PathOf(o)
<1>1. /\ Writing /\ ~Nameless(o) /\ Subdir(o) # Missing /\ path \notin claimed
      /\ claimed' = claimed \cup {path} /\ disk' = OnDisk(path, o)
      /\ objects' = Tail(objects)
      /\ UNCHANGED <<calls, call, phase, work, scopes>>
  BY DEF Write
<1>2. /\ WriteInv /\ calls \in Runs /\ call \in DOMAIN calls
      /\ o \in DocType /\ Comes(o, Current, scopes)
  BY <1>1, NextObject
<1>3. path \in Path /\ path[1] = Subdir(o)
  BY <1>1, PathTypes
<1>4. claimed = DOMAIN disk
  BY DEF RoutingInv
<1>5. Holds(o, path[1], Current)
  <2>1. CASE o.id \in Mount
    BY <2>1 DEF Holds
  <2>2. CASE o.id \notin Mount
    <3>1. PICK e \in Kept(Current) :
             e[1] # NotAMapping /\ o = Stamped(e[1], Home(e, Current), scopes)
      BY <1>2, <2>2 DEF Comes
    <3>2. e \in Pair /\ e[1] \in DocType /\ Home(e, Current) \in Namespace \cup {Missing}
      BY <1>2, <3>1, GivenPairs, PairTypes, HomeType DEF Current
    <3>3. o.id = e[1].id /\ o.kind = e[1].kind /\ o.name = e[1].name
      BY <3>1, <3>2, StampedType
    <3>4. e \in Expected(Current)
      BY <1>1, <3>3 DEF Expected, Nameless
    <3>5. Put(o, path[1], e, Current)
      <4>1. Decides(scopes, Current)
        BY <1>2 DEF WriteInv
      <4>2. path[1] = IF IsClusterScoped(o, scopes) THEN Cluster
                      ELSE IF o.ns \in Falsy THEN Current.namespace ELSE o.ns
        BY <1>3 DEF Subdir
      <4> HIDE DEF o, path
      <4> QED BY <1>1, <1>2, <1>3, <3>1, <4>1, <4>2, PutDown DEF Current
    <3> QED BY <3>1, <3>3, <3>4, <3>5 DEF Holds
  <2> QED BY <2>1, <2>2
<1> HIDE DEF path, o
<1>6. /\ DOMAIN disk' = DOMAIN disk \cup {path} /\ disk'[path] = o
      /\ \A p \in DOMAIN disk : disk'[p] = disk[p]
  BY <1>1, <1>4 DEF OnDisk
<1>7. ASSUME NEW id, Filed(id) PROVE Filed(id)'
  <2>1. PICK p \in DOMAIN disk : disk[p].id = id
    BY <1>7 DEF Filed
  <2>2. p \in DOMAIN disk' /\ disk'[p].id = id
    BY <1>6, <2>1
  <2> QED BY <2>2 DEF Filed
<1>8. WriteInv'
  <2>1. \E p \in DOMAIN disk' : disk'[p].id = Upcoming.id
    BY <1>6 DEF o
  <2> QED BY <1>1, <1>7, <2>1, WritesOn
<1>9. TypeOK'
  BY <1>1, <1>3, <1>6 DEF RoutingInv, TypeOK
<1>10. Traced'
  <2>1. call <= call
    BY DEF RoutingInv, TypeOK
  <2>2. ASSUME NEW p \in DOMAIN disk'
        PROVE  \E i \in DOMAIN calls : i <= call /\ Holds(disk'[p], p[1], calls[i])
    <3>1. CASE p = path
      BY <1>2, <1>5, <1>6, <2>1, <3>1 DEF Current
    <3>2. CASE p # path
      BY <1>6, <3>2 DEF RoutingInv, Traced
    <3> QED BY <3>1, <3>2
  <2> QED BY <1>1, <2>2 DEF Traced
<1>11. ASSUME NEW i \in 1..(call - 1) PROVE Settled(calls[i])'
  BY <1>1, <1>7 DEF RoutingInv, Settled
<1>12. claimed' = DOMAIN disk'
  BY <1>1, <1>4, <1>6
<1> QED BY <1>1, <1>2, <1>8, <1>9, <1>10, <1>11, <1>12 DEF RoutingInv, Writing

LEMMA DoneKeeps == RoutingInv /\ Done => RoutingInv'
<1> SUFFICES ASSUME RoutingInv, Done PROVE RoutingInv'
  OBVIOUS
<1>1. /\ phase = "write" /\ objects = << >> /\ call' = call + 1 /\ phase' = "next"
      /\ UNCHANGED <<calls, work, objects, scopes, claimed, disk>>
  BY DEF Done
<1>2. /\ WriteInv /\ calls \in Runs /\ call \in DOMAIN calls /\ work = << >>
      /\ claimed = DOMAIN disk
  BY <1>1 DEF RoutingInv, WriteInv
<1>3. Len(calls) \in Nat /\ DOMAIN calls = 1..Len(calls)
  BY <1>2, CallTypes
<1>4. Elements(objects) = {}
  BY <1>1 DEF Elements
<1>5. \A id : Filed(id)' = Filed(id)
  BY <1>1 DEF Filed
<1>6. Settled(Current)
  BY <1>2, <1>4 DEF WriteInv, Pending, Settled
<1>7. ASSUME NEW i \in 1..(call' - 1) PROVE Settled(calls[i])'
  <2>1. Settled(calls[i])
    <3>1. i \in 1..(call - 1) \/ i = call
      BY <1>1, <1>2, <1>3
    <3> QED BY <1>6, <3>1 DEF RoutingInv, Current
  <2> QED BY <1>1, <1>5, <2>1 DEF Settled
<1>8. Traced'
  <2>1. \A i \in DOMAIN calls : i <= call => i <= call'
    BY <1>1, <1>2, <1>3
  <2> QED BY <1>1, <2>1 DEF RoutingInv, Traced
<1>9. TypeOK'
  BY <1>1, <1>2, <1>3 DEF RoutingInv, TypeOK
<1> QED BY <1>1, <1>2, <1>7, <1>8, <1>9 DEF RoutingInv

LEMMA RoutingStep == RoutingInv /\ [Next]_vars => RoutingInv'
<1> SUFFICES ASSUME RoutingInv, [Next]_vars PROVE RoutingInv'
  OBVIOUS
<1>1. CASE ExpandFails \/ PrepareFails \/ CopyFails \/ WriteFails \/ Return \/ UNCHANGED vars
  BY <1>1, OutsideKeep DEF ExpandFails, PrepareFails, CopyFails, WriteFails, Fail, Return,
     vars
<1> QED BY <1>1, BeginReleaseKeeps, ExpandObjectKeeps, ExpandListKeeps, PrepareKeeps,
           BeginCopyKeeps, SkipKeeps, WriteKeeps, DoneKeeps DEF Next, Over

LEMMA RoutingInvariant == Spec => []RoutingInv
BY RoutingInit, RoutingStep, PTL DEF Spec

\* Every variable of a run keeps its type: what is written lies in a namespace's
\* directory or among the cluster-scoped objects, under the name of its kind and
\* its own.
THEOREM RoutingTypes == Spec => []TypeOK
BY RoutingInvariant, PTL DEF RoutingInv
-----------------------------------------------------------------------------
(* What runs leave. *)

\* A file a run has written is not written again: a path is looked up before.
THEOREM NothingIsReplaced == Spec => NothingReplaced
<1> DEFINE Stays == \A p \in DOMAIN disk : p \in DOMAIN disk' /\ disk'[p] = disk[p]
<1>1. RoutingInv /\ [Next]_vars => Stays
  <2> SUFFICES ASSUME RoutingInv, [Next]_vars PROVE Stays
    OBVIOUS
  <2>1. CASE Write
    <3> DEFINE path == PathOf(Upcoming)
    <3>1. path \notin claimed /\ disk' = OnDisk(path, Upcoming) /\ claimed = DOMAIN disk
      BY <2>1 DEF Write, RoutingInv
    <3> HIDE DEF path
    <3> QED BY <3>1 DEF OnDisk
  <2>2. CASE UNCHANGED disk
    BY <2>2
  <2> QED BY <2>1, <2>2 DEF Next, vars, BeginRelease, ExpandObject, ExpandList,
             ExpandFails, Prepare, PrepareFails, CopyFails, BeginCopy, Skip, WriteFails,
             Done, Return, Over, Fail
<1>2. RoutingInv /\ [Next]_vars => [Stays]_vars
  BY <1>1
<1> QED BY <1>2, RoutingInvariant, PTL DEF Spec, NothingReplaced

\* The calls so far are calls of the run, and what they were given is typed.
LEMMA PastCalls ==
    ASSUME RoutingInv, NEW i \in 1..(call - 1)
    PROVE  /\ calls \in Runs /\ i \in DOMAIN calls /\ Settled(calls[i])
           /\ \A e \in Expected(calls[i]) :
                 /\ e \in Pair /\ e \in Given(calls[i]) /\ e[1] # NotAMapping
                 /\ e[1] \in DocType /\ e[1].id \notin Mount
<1>1. calls \in Runs /\ Settled(calls[i])
  BY DEF RoutingInv
<1>2. i \in DOMAIN calls
  BY <1>1, CallTypes DEF RoutingInv, TypeOK
<1>3. ASSUME NEW e \in Expected(calls[i])
      PROVE  /\ e \in Pair /\ e \in Given(calls[i]) /\ e[1] # NotAMapping
             /\ e[1] \in DocType /\ e[1].id \notin Mount
  <2>1. e \in Pair /\ e \in Given(calls[i])
    BY <1>1, <1>2, GivenPairs DEF Expected, Kept
  <2>2. e[1] # NotAMapping
    BY <1>1, <2>1 DEF Settled, AllMappings
  <2> QED BY <2>1, <2>2, PairTypes
<1> QED BY <1>1, <1>2, <1>3

\* The file called like an object is that object's, and lies where it belongs.
LEMMA FilesAreTheirs ==
    ASSUME RoutingInv, NEW i \in 1..(call - 1), NEW e \in Expected(calls[i]),
           NEW p \in FilesOf(e[1])
    PROVE  Put(disk[p], p[1], e, calls[i])
<1>1. p \in DOMAIN disk /\ disk[p].id = e[1].id
  BY DEF FilesOf
<1>2. PICK j \in DOMAIN calls : Holds(disk[p], p[1], calls[j])
  BY <1>1 DEF RoutingInv, Traced
<1>3. /\ calls \in Runs /\ i \in DOMAIN calls
      /\ e \in Given(calls[i]) /\ e[1] # NotAMapping /\ e[1].id \notin Mount
  BY PastCalls
<1>4. PICK f \in Expected(calls[j]) :
         f[1] # NotAMapping /\ f[1].id = e[1].id /\ Put(disk[p], p[1], f, calls[j])
  BY <1>1, <1>2, <1>3 DEF Holds
<1>5. f \in Given(calls[j])
  BY DEF Expected, Kept
<1>6. i = j /\ e = f
  BY <1>3, <1>4, <1>5, GivenOnce
<1> QED BY <1>4, <1>6

\* A run that returns has a file for every object it was given, however deep in
\* lists and whichever call it came with.
THEOREM EveryObjectAlwaysHasAFile == Spec => []EveryObjectHasAFile
<1>1. RoutingInv /\ ReturnInv => EveryObjectHasAFile
  <2> SUFFICES ASSUME RoutingInv, ReturnInv, phase = "returned"
               PROVE  EveryObjectHasAFile
    BY DEF EveryObjectHasAFile
  <2>1. ASSUME NEW i \in DOMAIN calls PROVE Settled(calls[i])
    <3>1. i \in 1..(call - 1)
      BY CallTypes DEF RoutingInv, TypeOK, ReturnInv
    <3> QED BY <3>1 DEF RoutingInv
  <2> QED BY <2>1 DEF EveryObjectHasAFile, Settled, Filed, FilesOf
<1>2. Init => ReturnInv
  BY DEF Init, ReturnInv
<1>3. ReturnInv /\ [Next]_vars => ReturnInv'
  BY DEF ReturnInv, Next, vars, BeginRelease, ExpandObject, ExpandList,
         ExpandFails, Prepare, PrepareFails, CopyFails, BeginCopy, Skip, WriteFails, Write,
         Done, Return, Over, Fail, Writing, More
<1> QED BY <1>1, <1>2, <1>3, RoutingInvariant, PTL DEF Spec

\* An item of a list that has no namespace of its own follows the innermost list
\* that has one.
THEOREM ItemsAlwaysFollowTheirList == Spec => []ItemsFollowTheirList
<1>1. RoutingInv => ItemsFollowTheirList
  <2> SUFFICES ASSUME RoutingInv, NEW i \in 1..(call - 1), NEW e \in Expected(calls[i]),
                      e[2] \notin Falsy, e[1].ns = Missing, e[1].kind # Missing,
                      NEW p \in FilesOf(e[1]), p[1] # Cluster
               PROVE  p[1] = e[2] /\ disk[p].ns = e[2]
    BY DEF ItemsFollowTheirList
  <2>1. Put(disk[p], p[1], e, calls[i])
    BY FilesAreTheirs
  <2>2. e[1] \in DocType /\ ~Nameless(e[1])
    BY PastCalls DEF Expected
  <2>3. e[1].kind \notin Falsy
    BY <2>2 DEF Nameless, Labelled
  <2>4. disk[p] = [e[1] EXCEPT !.ns = e[2]]
    BY <2>1, <2>3 DEF Put, Home
  <2>5. disk[p].ns = e[2]
    BY <2>2, <2>4 DEF DocType
  <2> QED BY <2>1, <2>5 DEF Put
<1> QED BY <1>1, RoutingInvariant, PTL

\* Where the CRDs of a call agree on the scope of a kind, they decide where its
\* objects lie, wherever among the documents they come.
THEOREM CRDsAlwaysDecideScope == Spec => []CRDsDecideScope
<1>1. RoutingInv => CRDsDecideScope
  <2> SUFFICES ASSUME RoutingInv, NEW i \in 1..(call - 1), NEW e \in Expected(calls[i]),
                      NEW scope \in {"Cluster", "Namespaced"},
                      Said(e[1], calls[i]) = {scope}, NEW p \in FilesOf(e[1])
               PROVE  (scope = "Cluster") = (p[1] = Cluster)
    BY DEF CRDsDecideScope, Said
  <2> QED BY FilesAreTheirs DEF Put
<1> QED BY <1>1, RoutingInvariant, PTL

\* The directory of a file is the namespace in it, but for cluster-scoped objects
\* and those without one.
THEOREM DirectoryIsAlwaysNamespace == Spec => []DirectoryIsNamespace
<1>1. RoutingInv => DirectoryIsNamespace
  <2> SUFFICES ASSUME RoutingInv, NEW i \in 1..(call - 1), NEW e \in Expected(calls[i]),
                      NEW p \in FilesOf(e[1])
               PROVE  IF p[1] = Cluster THEN disk[p].ns = e[1].ns
                      ELSE \/ disk[p].ns = p[1]
                           \/ disk[p].ns \in Falsy /\ p[1] = calls[i].namespace
    BY DEF DirectoryIsNamespace
  <2> QED BY FilesAreTheirs DEF Put
<1> QED BY <1>1, RoutingInvariant, PTL
=============================================================================
