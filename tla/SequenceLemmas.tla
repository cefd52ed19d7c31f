---------------------------- MODULE SequenceLemmas ----------------------------
(* Facts about the sequences that stand for queues, batches and tables with    *)
(* ascending ids, and about sums over finite sets, which the proofs of several *)
(* components cite.                                                            *)
EXTENDS Integers, Sequences, FiniteSets, SequencesExt, FiniteSetTheorems,
        SequenceTheorems, NaturalsInduction, WellFoundedInduction, TLAPS

\* A batch taken from a set is a sequence of its members without repetition.
LEMMA SetToSeqIsListing ==
  ASSUME NEW S, IsFiniteSet(S)
  PROVE  /\ SetToSeq(S) \in Seq(S)
         /\ Len(SetToSeq(S)) = Cardinality(S)
         /\ \A m, n \in DOMAIN SetToSeq(S) :
              SetToSeq(S)[m] = SetToSeq(S)[n] => m = n
<1>1. Cardinality(S) \in Nat /\ ExistsBijection(1..Cardinality(S), S)
  BY FS_CardinalityType
<1>2. PICK f \in Bijection(1..Cardinality(S), S) : TRUE
  BY <1>1 DEF ExistsBijection
<1>3. f \in [1..Cardinality(S) -> S] /\ IsInjective(f)
  BY <1>2 DEF Bijection, Injection
<1>4. SetToSeq(S) \in [1..Cardinality(S) -> S] /\ IsInjective(SetToSeq(S))
  BY <1>3 DEF SetToSeq
<1>5. SetToSeq(S) \in Seq(S) /\ Len(SetToSeq(S)) = Cardinality(S)
  BY <1>1, <1>4
<1> QED
  BY <1>4, <1>5 DEF IsInjective

\* Every member of the set is in the batch.
LEMMA ListingOfAll ==
  ASSUME NEW S, IsFiniteSet(S), NEW x \in S
  PROVE  \E n \in DOMAIN SetToSeq(S) : SetToSeq(S)[n] = x
<1> DEFINE I == 1..Cardinality(S)
<1>1. Cardinality(S) \in Nat /\ IsFiniteSet(I) /\ Cardinality(I) = Cardinality(S)
  BY FS_CardinalityType, FS_Interval
<1>2. SetToSeq(S) \in Seq(S) /\ Len(SetToSeq(S)) = Cardinality(S)
  BY SetToSeqIsListing
<1>3. SetToSeq(S) \in [I -> S] /\ DOMAIN SetToSeq(S) = I
  BY <1>2, LenProperties
<1>4. IsInjective(SetToSeq(S))
  BY SetToSeqIsListing DEF IsInjective
<1>5. SetToSeq(S) \in Injection(I, S)
  BY <1>3, <1>4 DEF Injection
<1>6. SetToSeq(S) \in Surjection(I, S)
  BY <1>1, <1>5, FS_Injection
<1> QED
  BY <1>3, <1>6 DEF Surjection

\* Only the empty set is listed by the empty sequence.
LEMMA ListingOfSome ==
  ASSUME NEW S, IsFiniteSet(S), S # {}
  PROVE  SetToSeq(S) # <<>>
<1>1. Cardinality(S) \in Nat /\ Cardinality(S) # 0
  BY FS_CardinalityType, FS_EmptySet
<1> QED
  BY <1>1, SetToSeqIsListing, EmptySeq

\* The rest of a batch is a batch.
LEMMA RestOfBatch ==
  ASSUME NEW S, NEW todo \in Seq(S), todo # <<>>
  PROVE  /\ Head(todo) \in S /\ Head(todo) = todo[1] /\ 1 \in DOMAIN todo
         /\ Tail(todo) \in Seq(S)
         /\ \A n \in Nat : n \in DOMAIN Tail(todo) =>
              /\ n >= 1 /\ n + 1 \in DOMAIN todo
              /\ Tail(todo)[n] = todo[n + 1]
<1>1. Len(todo) \in Nat \ {0} /\ DOMAIN todo = 1..Len(todo)
  BY EmptySeq, LenProperties
<1>2. /\ Head(todo) \in S /\ Head(todo) = todo[1]
      /\ Tail(todo) \in Seq(S) /\ Len(Tail(todo)) = Len(todo) - 1
      /\ \A n \in 1..Len(Tail(todo)) : Tail(todo)[n] = todo[n + 1]
  BY HeadTailProperties
<1>3. DOMAIN Tail(todo) = 1..Len(Tail(todo))
  BY <1>2, LenProperties
<1> QED
  BY <1>1, <1>2, <1>3

\* What is in a batch and not at its head is in the rest.
LEMMA RestKeeps ==
  ASSUME NEW S, NEW todo \in Seq(S), NEW n \in DOMAIN todo, todo[n] # Head(todo)
  PROVE  \E m \in DOMAIN Tail(todo) : Tail(todo)[m] = todo[n]
<1>1. DOMAIN todo = 1..Len(todo) /\ Len(todo) \in Nat /\ todo # <<>>
  BY LenProperties, EmptySeq
<1>2. /\ Head(todo) = todo[1]
      /\ Tail(todo) \in Seq(S) /\ Len(Tail(todo)) = Len(todo) - 1
      /\ \A m \in 1..Len(Tail(todo)) : Tail(todo)[m] = todo[m + 1]
  BY <1>1, HeadTailProperties
<1>3. n - 1 \in 1..Len(Tail(todo)) /\ n = (n - 1) + 1
  BY <1>1, <1>2
<1>4. DOMAIN Tail(todo) = 1..Len(Tail(todo))
  BY <1>2, LenProperties
<1> QED
  BY <1>2, <1>3, <1>4

\* An update of one row of a table leaves the others and the size alone.
LEMMA RowWritten ==
  ASSUME NEW S, NEW table \in Seq(S), NEW i \in DOMAIN table, NEW row \in S,
         NEW new, new = [table EXCEPT ![i] = row]
  PROVE  /\ new \in Seq(S) /\ Len(new) = Len(table) /\ DOMAIN new = DOMAIN table
         /\ new[i] = row
         /\ \A j \in DOMAIN table \ {i} : new[j] = table[j]
<1>1. DOMAIN table = 1..Len(table) /\ Len(table) \in Nat
      /\ table \in [1..Len(table) -> S]
  BY LenProperties
<1>2. new \in [1..Len(table) -> S]
  BY <1>1
<1>3. new \in Seq(S)
  BY <1>1, <1>2
<1>4. DOMAIN new = 1..Len(new)
  BY <1>3, LenProperties
<1>5. Len(new) = Len(table)
  BY <1>1, <1>2, <1>3, LenProperties
<1> QED
  BY <1>1, <1>2, <1>3, <1>5

\* An insert leaves the other rows alone.
LEMMA RowAppended ==
  ASSUME NEW S, NEW table \in Seq(S), NEW row \in S
  PROVE  /\ Append(table, row) \in Seq(S)
         /\ Len(Append(table, row)) = Len(table) + 1
         /\ DOMAIN Append(table, row) = DOMAIN table \cup {Len(table) + 1}
         /\ Len(table) + 1 \notin DOMAIN table
         /\ Append(table, row)[Len(table) + 1] = row
         /\ \A j \in DOMAIN table : Append(table, row)[j] = table[j]
<1>1. DOMAIN table = 1..Len(table) /\ Len(table) \in Nat
  BY LenProperties
<1>2. /\ Append(table, row) \in Seq(S)
      /\ Len(Append(table, row)) = Len(table) + 1
      /\ \A j \in 1..Len(table) : Append(table, row)[j] = table[j]
      /\ Append(table, row)[Len(table) + 1] = row
  BY AppendProperties
<1>3. DOMAIN Append(table, row) = 1..Len(table) + 1
  BY <1>2, LenProperties
<1> QED
  BY <1>1, <1>2, <1>3

\* A sequence put before another and cut in two: nothing is lost.
LEMMA CutInTwo ==
  ASSUME NEW S, NEW p \in Seq(S), NEW q \in Seq(S), NEW n \in 0..Len(p \o q)
  PROVE  /\ SubSeq(p \o q, n + 1, Len(p \o q)) \in Seq(S)
         /\ ToSet(SubSeq(p \o q, 1, n)) \subseteq S
         /\ \A x \in ToSet(p) \cup ToSet(q) :
              \/ x \in ToSet(SubSeq(p \o q, 1, n))
              \/ x \in ToSet(SubSeq(p \o q, n + 1, Len(p \o q)))
<1> DEFINE front == SubSeq(p \o q, 1, n)
           back == SubSeq(p \o q, n + 1, Len(p \o q))
<1>1. PICK all \in Seq(S) : all = p \o q
  BY ConcatProperties
<1>2. /\ Len(all) = Len(p) + Len(q) /\ Len(p) \in Nat /\ Len(q) \in Nat
      /\ DOMAIN p = 1..Len(p) /\ DOMAIN q = 1..Len(q) /\ DOMAIN all = 1..Len(all)
      /\ \A i \in DOMAIN p : all[i] = p[i]
      /\ \A i \in DOMAIN q : all[Len(p) + i] = q[i]
  <2>1. Len(p) \in Nat /\ Len(q) \in Nat /\ DOMAIN p = 1..Len(p) /\ DOMAIN q = 1..Len(q)
        /\ DOMAIN all = 1..Len(all)
    BY LenProperties
  <2>2. /\ Len(all) = Len(p) + Len(q)
        /\ \A i \in 1..Len(p) + Len(q) : all[i] = IF i <= Len(p) THEN p[i] ELSE q[i - Len(p)]
    BY <1>1, ConcatProperties
  <2> QED
    BY <2>1, <2>2
<1>3. Len(all) \in Nat /\ n \in Nat /\ n <= Len(all) /\ n + 1 \in 1..Len(all) + 1
  BY <1>1, <1>2
<1>4. /\ front \in Seq(S) /\ Len(front) = n
      /\ \A i \in 1..n : front[i] = all[i]
  <2>1. \A i \in 1..n : i \in 1..Len(all)
    BY <1>3
  <2>2. SubSeq(all, 1, n) \in Seq(S)
    BY <1>3, <2>1, SubSeqProperties
  <2>3. Len(SubSeq(all, 1, n)) = IF 1 <= n THEN (n - 1) + 1 ELSE 0
    BY <1>3, <2>1, SubSeqProperties
  <2>4. \A i \in 1..(n - 1) + 1 : SubSeq(all, 1, n)[i] = all[(1 + i) - 1]
    BY <1>3, <2>1, SubSeqProperties
  <2>5. (n - 1) + 1 = n /\ (~(1 <= n) => n = 0) /\ \A i \in 1..n : (1 + i) - 1 = i
    BY <1>3
  <2>6. Len(SubSeq(all, 1, n)) = n
    BY <2>3, <2>5
  <2>7. \A i \in 1..n : SubSeq(all, 1, n)[i] = all[i]
    BY <2>4, <2>5
  <2> QED
    BY <1>1, <2>2, <2>6, <2>7
<1>5. /\ back \in Seq(S) /\ Len(back) = Len(all) - n
      /\ \A i \in 1..Len(all) - n : back[i] = all[n + i]
  <2>1. \A i \in (n + 1)..Len(all) : i \in 1..Len(all)
    BY <1>3
  <2>2. SubSeq(all, n + 1, Len(all)) \in Seq(S)
    BY <1>3, <2>1, SubSeqProperties
  <2>3. Len(SubSeq(all, n + 1, Len(all))) =
          IF n + 1 <= Len(all) THEN (Len(all) - (n + 1)) + 1 ELSE 0
    BY <1>3, <2>1, SubSeqProperties
  <2>4. \A i \in 1..(Len(all) - (n + 1)) + 1 :
          SubSeq(all, n + 1, Len(all))[i] = all[((n + 1) + i) - 1]
    BY <1>3, <2>1, SubSeqProperties
  <2>5. /\ (Len(all) - (n + 1)) + 1 = Len(all) - n
        /\ ~(n + 1 <= Len(all)) => Len(all) - n = 0
        /\ \A i \in 1..Len(all) - n : ((n + 1) + i) - 1 = n + i
    BY <1>3
  <2>6. Len(SubSeq(all, n + 1, Len(all))) = Len(all) - n
    BY <2>3, <2>5
  <2>7. \A i \in 1..Len(all) - n : SubSeq(all, n + 1, Len(all))[i] = all[n + i]
    BY <2>4, <2>5
  <2> QED
    BY <1>1, <2>2, <2>6, <2>7
<1> HIDE DEF front, back
<1>6. DOMAIN front = 1..n /\ DOMAIN back = 1..Len(all) - n
  BY <1>4, <1>5, LenProperties
<1>7. \A i \in 1..Len(all) : all[i] \in ToSet(front) \/ all[i] \in ToSet(back)
  <2> TAKE i \in 1..Len(all)
  <2>1. CASE i <= n
    <3>1. i \in 1..n
      BY <1>3, <2>1
    <3> QED
      BY <1>4, <1>6, <3>1 DEF ToSet
  <2>2. CASE i > n
    <3>1. i - n \in 1..Len(all) - n /\ n + (i - n) = i
      BY <1>3, <2>2
    <3> QED
      BY <1>5, <1>6, <3>1 DEF ToSet
  <2> QED
    BY <1>3, <2>1, <2>2
<1>8. ToSet(front) \subseteq S
  BY <1>1, <1>2, <1>3, <1>4, <1>6 DEF ToSet
<1>9. \A x \in ToSet(p) \cup ToSet(q) : \E i \in 1..Len(all) : all[i] = x
  <2>1. \A i \in DOMAIN p : i \in 1..Len(all)
    BY <1>2
  <2>2. \A i \in DOMAIN q : Len(p) + i \in 1..Len(all)
    BY <1>2
  <2> QED
    BY <1>2, <2>1, <2>2 DEF ToSet
<1>10. \A x \in ToSet(p) \cup ToSet(q) : x \in ToSet(front) \/ x \in ToSet(back)
  BY <1>7, <1>9
<1> QED
  BY <1>5, <1>8, <1>10 DEF front, back

\* Counting: a part of a finite set, and a finite set with one more member.
LEMMA CountPart ==
  ASSUME NEW S, IsFiniteSet(S), NEW T, T \subseteq S
  PROVE  /\ IsFiniteSet(T) /\ Cardinality(T) \in Nat /\ Cardinality(S) \in Nat
         /\ Cardinality(T) <= Cardinality(S)
BY FS_Subset, FS_CardinalityType

LEMMA CountMore ==
  ASSUME NEW S, IsFiniteSet(S), NEW x, x \notin S
  PROVE  /\ IsFiniteSet(S \cup {x}) /\ Cardinality(S) \in Nat
         /\ Cardinality(S \cup {x}) = Cardinality(S) + 1
BY FS_AddElement, FS_CardinalityType

LEMMA CountLess ==
  ASSUME NEW S, IsFiniteSet(S), NEW x, x \in S
  PROVE  /\ IsFiniteSet(S \ {x}) /\ Cardinality(S) \in Nat
         /\ Cardinality(S \ {x}) = Cardinality(S) - 1
BY FS_RemoveElement, FS_CardinalityType

\* A nonempty set of natural numbers has a least member.
LEMMA LeastOne ==
  ASSUME NEW S, S \subseteq Nat, S # {}
  PROVE  \E i \in S : \A j \in S : i <= j
<1> DEFINE Before == OpToRel(<, Nat)
<1>1. \A i, j \in Nat : <<i, j>> \in Before <=> i < j
  BY DEF OpToRel
<1>2. IsWellFoundedOn(Before, Nat)
  BY NatLessThanWellFounded
<1> HIDE DEF Before
<1>3. PICK i \in S : \A j \in S : ~(<<j, i>> \in Before)
  BY <1>2, WFMin
<1>4. ASSUME NEW j \in S PROVE i <= j
  <2>1. i \in Nat /\ j \in Nat /\ ~(j < i)
    BY <1>1, <1>3
  <2> QED BY <2>1
<1> QED BY <1>4

-----------------------------------------------------------------------------
(* Sums over a finite set (SumFunctionOnSet), whose definition recurs on the   *)
(* set less a member of its choice.                                            *)

OneOf(s) == CHOOSE y \in s : TRUE
SumOf(f, g, s) == IF s = {} THEN 0 ELSE f[OneOf(s)] + g[s \ {OneOf(s)}]
Sums(f, D, g) == g = [s \in SUBSET D |-> SumOf(f, g, s)]
\* g sums f over the sets of up to n members.
SumsUpTo(f, D, g, n) ==
  /\ g = [s \in SUBSET D |-> g[s]]
  /\ \A s \in SUBSET D : Cardinality(s) <= n => g[s] = SumOf(f, g, s)

LEMMA OneOfIsMember == ASSUME NEW s, s # {} PROVE OneOf(s) \in s
  BY DEF OneOf

\* A set less one of its members.
LEMMA LessOne ==
  ASSUME NEW s, IsFiniteSet(s), NEW x \in s
  PROVE  /\ IsFiniteSet(s \ {x}) /\ Cardinality(s) \in Nat
         /\ Cardinality(s \ {x}) = Cardinality(s) - 1 /\ Cardinality(s) >= 1
<1>1. IsFiniteSet(s \ {x}) /\ Cardinality(s \ {x}) = Cardinality(s) - 1
  BY FS_RemoveElement
<1>2. Cardinality(s) \in Nat /\ Cardinality(s \ {x}) \in Nat
  BY <1>1, FS_CardinalityType
<1> QED
  BY <1>1, <1>2

LEMMA SumsMore ==
  ASSUME NEW f, NEW D, IsFiniteSet(D), NEW n \in Nat, NEW g, SumsUpTo(f, D, g, n)
  PROVE  \E h : SumsUpTo(f, D, h, n + 1)
<1> DEFINE h == [s \in SUBSET D |-> SumOf(f, g, s)]
<1>1. ASSUME NEW s \in SUBSET D, Cardinality(s) <= n + 1 PROVE SumOf(f, h, s) = SumOf(f, g, s)
  <2>1. CASE s = {}
    BY <2>1 DEF SumOf
  <2>2. CASE s # {}
    <3>1. PICK x \in s : x = OneOf(s)
      BY <2>2, OneOfIsMember
    <3>2. IsFiniteSet(s)
      BY FS_Subset
    <3>3. PICK t \in SUBSET D : t = s \ {x}
      OBVIOUS
    <3>4. Cardinality(t) = Cardinality(s) - 1 /\ Cardinality(s) \in Nat
      BY <3>2, <3>3, LessOne
    <3>5. Cardinality(t) <= n
      BY <1>1, <3>4
    <3>6. g[t] = SumOf(f, g, t)
      BY <3>5 DEF SumsUpTo
    <3>7. h[t] = g[t]
      BY <3>6
    <3> HIDE DEF h
    <3> QED
      BY <2>2, <3>1, <3>3, <3>7 DEF SumOf
  <2> QED
    BY <2>1, <2>2
<1>2. \A s \in SUBSET D : h[s] = SumOf(f, g, s)
  OBVIOUS
<1>3. h = [s \in SUBSET D |-> h[s]]
  OBVIOUS
<1> HIDE DEF h
<1> QED
  BY <1>1, <1>2, <1>3 DEF SumsUpTo

LEMMA SumsExist ==
  ASSUME NEW f, NEW D, IsFiniteSet(D)
  PROVE  \E g : Sums(f, D, g)
<1> DEFINE bad == {n \in Nat : ~(\E g : SumsUpTo(f, D, g, n))}
<1>1. \A s \in SUBSET D : IsFiniteSet(s) /\ Cardinality(s) \in Nat
                        /\ Cardinality(s) <= Cardinality(D) /\ Cardinality(D) \in Nat
  BY FS_Subset, FS_CardinalityType
<1>2. \E g : SumsUpTo(f, D, g, 0)
  <2> DEFINE g == [s \in SUBSET D |-> 0]
  <2>1. ASSUME NEW s \in SUBSET D, Cardinality(s) <= 0 PROVE g[s] = SumOf(f, g, s)
    <3>1. Cardinality(s) = 0
      BY <1>1, <2>1
    <3>2. s = {}
      BY <1>1, <3>1, FS_EmptySet
    <3> QED
      BY <3>2 DEF SumOf
  <2>2. g = [s \in SUBSET D |-> g[s]]
    OBVIOUS
  <2> HIDE DEF g
  <2> QED
    BY <2>1, <2>2 DEF SumsUpTo
<1>3. bad = {}
  <2> SUFFICES ASSUME bad # {} PROVE FALSE
    OBVIOUS
  <2>1. PICK i \in bad : \A j \in bad : i <= j
    <3>1. bad \subseteq Nat
      OBVIOUS
    <3> HIDE DEF bad
    <3> QED
      BY <3>1, LeastOne
  <2>2. i \in Nat /\ i # 0
    BY <1>2
  <2>3. i - 1 \in Nat /\ ~(i <= i - 1)
    BY <2>2
  <2>4. PICK g : SumsUpTo(f, D, g, i - 1)
    BY <2>1, <2>3
  <2>5. \E h : SumsUpTo(f, D, h, (i - 1) + 1)
    BY <2>3, <2>4, SumsMore
  <2>6. (i - 1) + 1 = i
    BY <2>2
  <2> QED
    BY <2>5, <2>6
<1>4. PICK g : SumsUpTo(f, D, g, Cardinality(D))
  <2>1. Cardinality(D) \in Nat
    BY FS_CardinalityType
  <2> QED
    BY <1>3, <2>1
<1>5. \A s \in SUBSET D : g[s] = SumOf(f, g, s)
  BY <1>1, <1>4 DEF SumsUpTo
<1>6. g = [s \in SUBSET D |-> g[s]]
  BY <1>4 DEF SumsUpTo
<1>7. g = [s \in SUBSET D |-> SumOf(f, g, s)]
  BY <1>5, <1>6
<1> QED
  BY <1>7 DEF Sums

LEMMA SumIs ==
  ASSUME NEW f, NEW D, IsFiniteSet(D)
  PROVE  \E g : Sums(f, D, g) /\ SumFunctionOnSet(f, D) = g[D]
<1> DEFINE iter == CHOOSE g : Sums(f, D, g)
<1>1. SumFunctionOnSet(f, D) = iter[D]
  BY DEF SumFunctionOnSet, FoldFunctionOnSet, MapThenFoldSet, Sums, SumOf, OneOf
<1>2. \E g : Sums(f, D, g)
  BY SumsExist
<1>3. Sums(f, D, iter)
  BY <1>2, Zenon
<1> QED
  BY <1>1, <1>3

LEMMA SumsAgree ==
  ASSUME NEW f, NEW D, NEW E \in SUBSET D, IsFiniteSet(D),
         NEW g, NEW h, Sums(f, D, g), Sums(f, E, h), NEW t \in SUBSET E
  PROVE  g[t] = h[t]
<1> DEFINE bad == {Cardinality(s) : s \in {s \in SUBSET E : g[s] # h[s]}}
<1>1. \A s \in SUBSET E : IsFiniteSet(s) /\ Cardinality(s) \in Nat /\ s \in SUBSET D
  BY FS_Subset, FS_CardinalityType
<1>2. /\ \A s \in SUBSET D : g[s] = SumOf(f, g, s)
      /\ \A s \in SUBSET E : h[s] = SumOf(f, h, s)
  BY DEF Sums
<1>3. bad = {}
  <2> SUFFICES ASSUME bad # {} PROVE FALSE
    OBVIOUS
  <2>1. bad \subseteq Nat
    BY <1>1
  <2>2. PICK i \in bad : \A j \in bad : i <= j
    <3> HIDE DEF bad
    <3> QED
      BY <2>1, LeastOne
  <2>3. PICK s \in SUBSET E : g[s] # h[s] /\ Cardinality(s) = i
    OBVIOUS
  <2>4. CASE s = {}
    BY <1>1, <1>2, <2>3, <2>4 DEF SumOf
  <2>5. CASE s # {}
    <3>1. PICK x \in s : x = OneOf(s)
      BY <2>5, OneOfIsMember
    <3>2. PICK u \in SUBSET E : u = s \ {x}
      OBVIOUS
    <3>3. Cardinality(u) = Cardinality(s) - 1
      BY <1>1, <3>2, LessOne
    <3>4. ~(i <= Cardinality(u))
      BY <1>1, <2>3, <3>3
    <3>5. g[u] = h[u]
      <4>1. g[u] # h[u] => Cardinality(u) \in bad
        OBVIOUS
      <4> HIDE DEF bad
      <4> QED
        BY <2>2, <3>4, <4>1
    <3>6. g[s] = f[x] + g[u] /\ h[s] = f[x] + h[u]
      BY <1>1, <1>2, <2>5, <3>1, <3>2 DEF SumOf
    <3> QED
      BY <2>3, <3>5, <3>6
  <2> QED
    BY <2>4, <2>5
<1> QED
  BY <1>3

\* The definition, unfolded once.
LEMMA SumUnfolds ==
  ASSUME NEW f, NEW D, IsFiniteSet(D)
  PROVE  /\ D = {} => SumFunctionOnSet(f, D) = 0
         /\ D # {} => SumFunctionOnSet(f, D) =
                         f[OneOf(D)] + SumFunctionOnSet(f, D \ {OneOf(D)})
<1>1. PICK g : Sums(f, D, g) /\ SumFunctionOnSet(f, D) = g[D]
  BY SumIs
<1>2. g[D] = SumOf(f, g, D)
  BY <1>1 DEF Sums
<1>3. CASE D = {}
  BY <1>1, <1>2, <1>3 DEF SumOf
<1>4. CASE D # {}
  <2>1. PICK E \in SUBSET D : E = D \ {OneOf(D)}
    OBVIOUS
  <2>2. IsFiniteSet(E)
    BY FS_Subset
  <2>3. PICK h : Sums(f, E, h) /\ SumFunctionOnSet(f, E) = h[E]
    BY <2>2, SumIs
  <2>4. E \in SUBSET E
    OBVIOUS
  <2>5. g[E] = h[E]
    BY <1>1, <2>3, <2>4, SumsAgree
  <2> QED
    BY <1>1, <1>2, <1>4, <2>1, <2>3, <2>5 DEF SumOf
<1> QED
  BY <1>3, <1>4

\* A sum of integers is one, and any member of the set can be taken out of it.
SumTakes(f, n) ==
  \A S \in SUBSET DOMAIN f : IsFiniteSet(S) /\ Cardinality(S) = n =>
    /\ SumFunctionOnSet(f, S) \in Int
    /\ \A x \in S : SumFunctionOnSet(f, S) = f[x] + SumFunctionOnSet(f, S \ {x})

LEMMA SumTakesMore ==
  ASSUME NEW D, NEW f \in [D -> Int], NEW n \in Nat, \A m \in Nat : m < n => SumTakes(f, m)
  PROVE  SumTakes(f, n)
<1> SUFFICES ASSUME NEW S \in SUBSET D, IsFiniteSet(S), Cardinality(S) = n
             PROVE  /\ SumFunctionOnSet(f, S) \in Int
                    /\ \A x \in S : SumFunctionOnSet(f, S) = f[x] + SumFunctionOnSet(f, S \ {x})
  BY DEF SumTakes
<1>1. CASE S = {}
  <2>1. SumFunctionOnSet(f, S) = 0
    BY <1>1, SumUnfolds
  <2> QED
    BY <1>1, <2>1
<1>2. CASE S # {}
  <2>1. PICK c \in S : c = OneOf(S)
    BY <1>2, OneOfIsMember
  <2>2. \A x \in S : /\ S \ {x} \in SUBSET D /\ IsFiniteSet(S \ {x}) /\ f[x] \in Int
                   /\ Cardinality(S \ {x}) \in Nat /\ Cardinality(S \ {x}) < n
    <3> TAKE x \in S
    <3>1. IsFiniteSet(S \ {x}) /\ Cardinality(S \ {x}) = Cardinality(S) - 1 /\ Cardinality(S) >= 1
      BY LessOne
    <3>2. Cardinality(S \ {x}) \in Nat /\ Cardinality(S \ {x}) < n
      BY <3>1
    <3>3. S \ {x} \in SUBSET D /\ f[x] \in Int
      OBVIOUS
    <3> QED
      BY <3>1, <3>2, <3>3
  <2>3. \A x \in S :
          /\ SumFunctionOnSet(f, S \ {x}) \in Int
          /\ \A y \in S \ {x} : SumFunctionOnSet(f, S \ {x})
                               = f[y] + SumFunctionOnSet(f, (S \ {x}) \ {y})
    BY <2>2 DEF SumTakes
  <2>4. SumFunctionOnSet(f, S) = f[c] + SumFunctionOnSet(f, S \ {c})
    BY <1>2, <2>1, SumUnfolds
  <2>5. ASSUME NEW x \in S PROVE SumFunctionOnSet(f, S) = f[x] + SumFunctionOnSet(f, S \ {x})
    <3>1. CASE x = c
      BY <2>4, <3>1
    <3>2. CASE x # c
      <4>1. (S \ {c}) \ {x} = (S \ {x}) \ {c}
        OBVIOUS
      <4>2. PICK r : r = SumFunctionOnSet(f, (S \ {x}) \ {c})
        OBVIOUS
      <4>3. SumFunctionOnSet(f, S \ {c}) = f[x] + r /\ SumFunctionOnSet(f, S \ {x}) = f[c] + r
        BY <2>3, <3>2, <4>1, <4>2
      <4>4. r \in Int
        <5>1. (S \ {x}) \ {c} \in SUBSET D /\ c \in S \ {x}
          BY <3>2
        <5>2. IsFiniteSet((S \ {x}) \ {c}) /\ Cardinality((S \ {x}) \ {c}) \in Nat
              /\ Cardinality((S \ {x}) \ {c}) < n
          <6>1. IsFiniteSet((S \ {x}) \ {c})
                /\ Cardinality((S \ {x}) \ {c}) = Cardinality(S \ {x}) - 1
                /\ Cardinality(S \ {x}) >= 1 /\ Cardinality(S \ {x}) \in Nat
            BY <2>2, <5>1, LessOne
          <6> QED
            BY <2>2, <6>1
        <5> QED
          BY <4>2, <5>1, <5>2 DEF SumTakes
      <4>5. f[x] \in Int /\ f[c] \in Int
        BY <2>2
      <4> QED
        BY <2>4, <4>3, <4>4, <4>5
    <3> QED
      BY <3>1, <3>2
  <2> QED
    BY <2>2, <2>3, <2>4, <2>5
<1> QED
  BY <1>1, <1>2

LEMMA SumTakesAny ==
  ASSUME NEW D, NEW f \in [D -> Int], NEW S \in SUBSET D, IsFiniteSet(S)
  PROVE  /\ SumFunctionOnSet(f, S) \in Int
         /\ \A x \in S : SumFunctionOnSet(f, S) = f[x] + SumFunctionOnSet(f, S \ {x})
<1> DEFINE bad == {n \in Nat : ~SumTakes(f, n)}
<1>1. bad = {}
  <2> SUFFICES ASSUME bad # {} PROVE FALSE
    OBVIOUS
  <2>1. PICK i \in bad : \A j \in bad : i <= j
    <3>1. bad \subseteq Nat
      OBVIOUS
    <3> HIDE DEF bad
    <3> QED
      BY <3>1, LeastOne
  <2>2. \A m \in Nat : m < i => SumTakes(f, m)
    BY <2>1
  <2> QED
    BY <2>2, SumTakesMore
<1>2. Cardinality(S) \in Nat
  BY FS_CardinalityType
<1> QED
  BY <1>1, <1>2 DEF SumTakes

\* Sums of functions that agree on the set.
LEMMA SumSame ==
  ASSUME NEW D, NEW f \in [D -> Int], NEW h \in [D -> Int], NEW S \in SUBSET D, IsFiniteSet(S),
         \A x \in S : f[x] = h[x]
  PROVE  SumFunctionOnSet(f, S) = SumFunctionOnSet(h, S)
<1> DEFINE bad == {Cardinality(s) : s \in
             {s \in SUBSET S : SumFunctionOnSet(f, s) # SumFunctionOnSet(h, s)}}
<1>1. \A s \in SUBSET S : IsFiniteSet(s) /\ Cardinality(s) \in Nat /\ s \in SUBSET D
  BY FS_Subset, FS_CardinalityType
<1>2. bad = {}
  <2> SUFFICES ASSUME bad # {} PROVE FALSE
    OBVIOUS
  <2>1. bad \subseteq Nat
    BY <1>1
  <2>2. PICK i \in bad : \A j \in bad : i <= j
    <3> HIDE DEF bad
    <3> QED
      BY <2>1, LeastOne
  <2>3. PICK s \in SUBSET S : SumFunctionOnSet(f, s) # SumFunctionOnSet(h, s) /\ Cardinality(s) = i
    OBVIOUS
  <2>4. s # {}
    BY <1>1, <2>3, SumUnfolds
  <2>5. PICK x \in s : TRUE
    BY <2>4
  <2>6. PICK u \in SUBSET S : u = s \ {x}
    OBVIOUS
  <2>7. Cardinality(u) = Cardinality(s) - 1
    BY <1>1, <2>6, LessOne
  <2>8. ~(i <= Cardinality(u))
    BY <1>1, <2>3, <2>7
  <2>9. SumFunctionOnSet(f, u) = SumFunctionOnSet(h, u)
    <3>1. SumFunctionOnSet(f, u) # SumFunctionOnSet(h, u) => Cardinality(u) \in bad
      OBVIOUS
    <3> HIDE DEF bad
    <3> QED
      BY <2>2, <2>8, <3>1
  <2>10. SumFunctionOnSet(f, s) = f[x] + SumFunctionOnSet(f, u)
    BY <1>1, <2>6, SumTakesAny
  <2>11. SumFunctionOnSet(h, s) = h[x] + SumFunctionOnSet(h, u)
    BY <1>1, <2>6, SumTakesAny
  <2> QED
    BY <2>3, <2>9, <2>10, <2>11
<1> QED
  BY <1>2

LEMMA SumOfNothing ==
  ASSUME NEW D, NEW f \in [D -> Int], IsFiniteSet(D), \A x \in D : f[x] = 0
  PROVE  SumFunction(f) = 0
<1> DEFINE bad == {Cardinality(s) : s \in {s \in SUBSET D : SumFunctionOnSet(f, s) # 0}}
<1>1. \A s \in SUBSET D : IsFiniteSet(s) /\ Cardinality(s) \in Nat
  BY FS_Subset, FS_CardinalityType
<1>2. bad = {}
  <2> SUFFICES ASSUME bad # {} PROVE FALSE
    OBVIOUS
  <2>1. bad \subseteq Nat
    BY <1>1
  <2>2. PICK i \in bad : \A j \in bad : i <= j
    <3> HIDE DEF bad
    <3> QED
      BY <2>1, LeastOne
  <2>3. PICK s \in SUBSET D : SumFunctionOnSet(f, s) # 0 /\ Cardinality(s) = i
    OBVIOUS
  <2>4. s # {}
    BY <1>1, <2>3, SumUnfolds
  <2>5. PICK x \in s : TRUE
    BY <2>4
  <2>6. PICK u \in SUBSET D : u = s \ {x}
    OBVIOUS
  <2>7. Cardinality(u) = Cardinality(s) - 1
    BY <1>1, <2>6, LessOne
  <2>8. ~(i <= Cardinality(u))
    BY <1>1, <2>3, <2>7
  <2>9. SumFunctionOnSet(f, u) = 0
    <3>1. SumFunctionOnSet(f, u) # 0 => Cardinality(u) \in bad
      OBVIOUS
    <3> HIDE DEF bad
    <3> QED
      BY <2>2, <2>8, <3>1
  <2>10. SumFunctionOnSet(f, s) = f[x] + SumFunctionOnSet(f, u)
    BY <1>1, <2>6, SumTakesAny
  <2> QED
    BY <2>3, <2>9, <2>10
<1>3. DOMAIN f = D
  OBVIOUS
<1> QED
  BY <1>2, <1>3 DEF SumFunction

\* The total of a function, and what it is when the value at one place changes.
LEMMA SumChanges ==
  ASSUME NEW D, NEW f \in [D -> Int], NEW h \in [D -> Int], IsFiniteSet(D),
         NEW x \in D, \A y \in D \ {x} : f[y] = h[y]
  PROVE  /\ SumFunction(f) \in Int /\ SumFunction(h) \in Int
         /\ SumFunction(h) = SumFunction(f) + (h[x] - f[x])
<1>1. SumFunction(f) = SumFunctionOnSet(f, D) /\ SumFunction(h) = SumFunctionOnSet(h, D)
  BY DEF SumFunction
<1>2. PICK E \in SUBSET D : E = D \ {x}
  OBVIOUS
<1>3. IsFiniteSet(E)
  BY FS_Subset
<1>4. D \in SUBSET D
  OBVIOUS
<1>5. SumFunctionOnSet(f, D) \in Int /\ SumFunctionOnSet(f, D) = f[x] + SumFunctionOnSet(f, E)
  BY <1>2, <1>4, SumTakesAny
<1>6. SumFunctionOnSet(h, D) \in Int /\ SumFunctionOnSet(h, D) = h[x] + SumFunctionOnSet(h, E)
  BY <1>2, <1>4, SumTakesAny
<1>7. SumFunctionOnSet(f, E) = SumFunctionOnSet(h, E) /\ SumFunctionOnSet(f, E) \in Int
  <2>1. \A y \in E : f[y] = h[y]
    BY <1>2
  <2>2. SumFunctionOnSet(f, E) = SumFunctionOnSet(h, E)
    BY <1>3, <2>1, SumSame
  <2>3. SumFunctionOnSet(f, E) \in Int
    BY <1>3, SumTakesAny
  <2> QED
    BY <2>2, <2>3
<1>8. f[x] \in Int /\ h[x] \in Int
  OBVIOUS
<1> QED
  BY <1>1, <1>5, <1>6, <1>7, <1>8

\* A sum of natural numbers is at least each of them.
LEMMA SumOfNaturals ==
  ASSUME NEW D, NEW f \in [D -> Nat], IsFiniteSet(D)
  PROVE  SumFunction(f) \in Nat /\ \A x \in D : SumFunction(f) >= f[x]
<1> DEFINE bad == {Cardinality(s) : s \in {s \in SUBSET D : ~(SumFunctionOnSet(f, s) \in Nat)}}
<1>1. \A s \in SUBSET D : IsFiniteSet(s) /\ Cardinality(s) \in Nat
  BY FS_Subset, FS_CardinalityType
<1>2. f \in [D -> Int] /\ DOMAIN f = D
  OBVIOUS
<1>3. bad = {}
  <2> SUFFICES ASSUME bad # {} PROVE FALSE
    OBVIOUS
  <2>1. bad \subseteq Nat
    BY <1>1
  <2>2. PICK i \in bad : \A j \in bad : i <= j
    <3> HIDE DEF bad
    <3> QED
      BY <2>1, LeastOne
  <2>3. PICK s \in SUBSET D : ~(SumFunctionOnSet(f, s) \in Nat) /\ Cardinality(s) = i
    OBVIOUS
  <2>4. s # {}
    <3> SUFFICES ASSUME s = {} PROVE FALSE
      OBVIOUS
    <3>1. SumFunctionOnSet(f, s) = 0
      BY <1>1, SumUnfolds
    <3> QED
      BY <2>3, <3>1
  <2>5. PICK x \in s : TRUE
    BY <2>4
  <2>6. PICK u \in SUBSET D : u = s \ {x}
    OBVIOUS
  <2>7. Cardinality(u) = Cardinality(s) - 1
    BY <1>1, <2>6, LessOne
  <2>8. ~(i <= Cardinality(u))
    BY <1>1, <2>3, <2>7
  <2>9. SumFunctionOnSet(f, u) \in Nat
    <3>1. ~(SumFunctionOnSet(f, u) \in Nat) => Cardinality(u) \in bad
      OBVIOUS
    <3> HIDE DEF bad
    <3> QED
      BY <2>2, <2>8, <3>1
  <2>10. SumFunctionOnSet(f, s) = f[x] + SumFunctionOnSet(f, u)
    BY <1>1, <1>2, <2>6, SumTakesAny
  <2>11. f[x] \in Nat
    OBVIOUS
  <2> QED
    BY <2>3, <2>9, <2>10, <2>11
<1>4. \A s \in SUBSET D : SumFunctionOnSet(f, s) \in Nat
  BY <1>1, <1>3
<1> HIDE DEF bad
<1>5. ASSUME NEW x \in D PROVE SumFunctionOnSet(f, D) >= f[x]
  <2>1. D \ {x} \in SUBSET D /\ D \in SUBSET D
    OBVIOUS
  <2>2. SumFunctionOnSet(f, D) = f[x] + SumFunctionOnSet(f, D \ {x})
    BY <1>2, <2>1, SumTakesAny
  <2>3. f[x] \in Nat /\ SumFunctionOnSet(f, D \ {x}) \in Nat
    BY <1>4, <2>1
  <2> QED
    BY <2>2, <2>3
<1>6. SumFunction(f) = SumFunctionOnSet(f, D)
  BY <1>2 DEF SumFunction
<1> QED
  BY <1>4, <1>5, <1>6
=============================================================================
