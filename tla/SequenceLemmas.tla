--------------------------- MODULE SequenceLemmas ---------------------------
(***************************************************************************)
(* What queueing does to the elements of a queue: lemmas about Append,     *)
(* Tail and SubSeq in terms of Range, IsInjective and of how often an       *)
(* element occurs, for the queues of the server, the wire and the bridge.  *)
(***************************************************************************)
EXTENDS SequenceTheorems, FiniteSetTheorems, TLAPS

\* Appending adds one element, and keeps the elements distinct if it is new.
LEMMA AppendOne ==
  ASSUME NEW S, NEW s \in Seq(S), NEW e \in S
  PROVE  /\ Append(s, e) \in Seq(S)
         /\ Len(Append(s, e)) = Len(s) + 1
         /\ Range(Append(s, e)) = Range(s) \cup {e}
         /\ IsInjective(s) /\ e \notin Range(s) => IsInjective(Append(s, e))
<1>1. /\ Append(s, e) \in Seq(S) /\ Len(Append(s, e)) = Len(s) + 1 /\ Len(s) \in Nat
      /\ DOMAIN s = 1 .. Len(s) /\ DOMAIN Append(s, e) = 1 .. Len(s) + 1
      /\ \A i \in 1 .. Len(s) : Append(s, e)[i] = s[i]
      /\ Append(s, e)[Len(s) + 1] = e
  OBVIOUS
<1>2. Range(Append(s, e)) = Range(s) \cup {e}
  <2>1. \A i \in 1 .. Len(s) + 1 : i \in 1 .. Len(s) \/ i = Len(s) + 1
    BY <1>1
  <2>2. \A i \in 1 .. Len(s) : i \in 1 .. Len(s) + 1
    BY <1>1
  <2>3. Len(s) + 1 \in 1 .. Len(s) + 1
    BY <1>1
  <2> QED BY <1>1, <2>1, <2>2, <2>3 DEF Range
<1>3. ASSUME IsInjective(s), e \notin Range(s) PROVE IsInjective(Append(s, e))
  BY <1>1, <1>3 DEF IsInjective, Range
<1> QED BY <1>1, <1>2, <1>3

\* Taking the first element leaves the others, and not that one again if they
\* were distinct.
LEMMA TakeFirst ==
  ASSUME NEW S, NEW s \in Seq(S), s # <<>>
  PROVE  /\ Tail(s) \in Seq(S) /\ Head(s) \in S
         /\ Len(Tail(s)) = Len(s) - 1 /\ Len(s) \in Nat \ {0}
         /\ Range(s) = Range(Tail(s)) \cup {Head(s)}
         /\ IsInjective(s) => IsInjective(Tail(s)) /\ Head(s) \notin Range(Tail(s))
<1>1. /\ Tail(s) \in Seq(S) /\ Head(s) \in S /\ Len(Tail(s)) = Len(s) - 1
      /\ \A i \in 1 .. Len(s) - 1 : Tail(s)[i] = s[i + 1]
  BY HeadTailProperties
<1>2. Len(s) \in Nat \ {0} /\ DOMAIN s = 1 .. Len(s) /\ DOMAIN Tail(s) = 1 .. Len(s) - 1
  BY <1>1, EmptySeq, LenProperties
<1>3. Head(s) = s[1]
  OBVIOUS
<1>4. Range(s) = Range(Tail(s)) \cup {Head(s)}
  <2>1. \A i \in 1 .. Len(s) : i = 1 \/ (i - 1 \in 1 .. Len(s) - 1 /\ Tail(s)[i - 1] = s[i])
    BY <1>1, <1>2
  <2>2. \A i \in 1 .. Len(s) - 1 : i + 1 \in 1 .. Len(s)
    BY <1>2
  <2>3. 1 \in DOMAIN s
    BY <1>2
  <2>4. \A x \in Range(Tail(s)) : x \in Range(s)
    BY <1>1, <1>2, <2>2 DEF Range
  <2>5. \A x \in Range(s) : x \in Range(Tail(s)) \cup {Head(s)}
    <3> SUFFICES ASSUME NEW i \in 1 .. Len(s) PROVE s[i] \in Range(Tail(s)) \cup {Head(s)}
      BY <1>2 DEF Range
    <3>1. CASE i = 1
      BY <3>1, <1>3
    <3>2. CASE i # 1
      <4>1. i - 1 \in DOMAIN Tail(s) /\ Tail(s)[i - 1] = s[i]
        BY <1>2, <2>1, <3>2
      <4> QED BY <4>1 DEF Range
    <3> QED BY <3>1, <3>2
  <2> QED BY <1>3, <2>3, <2>4, <2>5 DEF Range
<1>5. ASSUME IsInjective(s) PROVE IsInjective(Tail(s)) /\ Head(s) \notin Range(Tail(s))
  BY <1>1, <1>2, <1>3, <1>5 DEF IsInjective, Range
<1> QED BY <1>1, <1>2, <1>4, <1>5

\* A prefix holds nothing else, and nothing twice that was there once.
LEMMA KeepPrefix ==
  ASSUME NEW S, NEW s \in Seq(S), NEW n \in 0 .. Len(s)
  PROVE  /\ SubSeq(s, 1, n) \in Seq(S) /\ Len(SubSeq(s, 1, n)) = n
         /\ \A i \in 1 .. n : SubSeq(s, 1, n)[i] = s[i]
         /\ Range(SubSeq(s, 1, n)) \subseteq Range(s)
         /\ IsInjective(s) => IsInjective(SubSeq(s, 1, n))
<1>1. Len(s) \in Nat /\ DOMAIN s = 1 .. Len(s) /\ \A i \in 1 .. n : s[i] \in S
  BY LenProperties, ElementOfSeq
<1>2. /\ SubSeq(s, 1, n) \in Seq(S) /\ Len(SubSeq(s, 1, n)) = IF 1 <= n THEN n - 1 + 1 ELSE 0
      /\ \A i \in 1 .. n - 1 + 1 : SubSeq(s, 1, n)[i] = s[1 + i - 1]
  BY <1>1, SubSeqProperties
<1>3. /\ DOMAIN SubSeq(s, 1, n) = 1 .. n /\ Len(SubSeq(s, 1, n)) = n
      /\ \A i \in 1 .. n : SubSeq(s, 1, n)[i] = s[i]
  BY <1>1, <1>2, LenProperties
<1> QED BY <1>1, <1>2, <1>3 DEF Range, IsInjective
\* How often an element is in a queue.
Occurrences(s, e) == Cardinality({i \in DOMAIN s : s[i] = e})

LEMMA OccurrencesAre ==
  ASSUME NEW S, NEW s \in Seq(S), NEW d
  PROVE  /\ IsFiniteSet({i \in DOMAIN s : s[i] = d})
         /\ Occurrences(s, d) \in Nat
         /\ Occurrences(s, d) = 0 <=> \A i \in DOMAIN s : s[i] # d
<1>1. IsFiniteSet(1 .. Len(s)) /\ DOMAIN s = 1 .. Len(s)
  BY FS_Interval
<1>2. IsFiniteSet({i \in DOMAIN s : s[i] = d})
  BY <1>1, FS_Subset
<1>3. Cardinality({i \in DOMAIN s : s[i] = d}) = 0 <=> {i \in DOMAIN s : s[i] = d} = {}
  BY <1>2, FS_EmptySet
<1>4. {i \in DOMAIN s : s[i] = d} = {} <=> \A i \in DOMAIN s : s[i] # d
  OBVIOUS
<1> QED BY <1>2, <1>3, <1>4, FS_CardinalityType DEF Occurrences

LEMMA OccurrencesAppend ==
  ASSUME NEW S, NEW s \in Seq(S), NEW e \in S, NEW d
  PROVE  Occurrences(Append(s, e), d) = IF d = e THEN Occurrences(s, d) + 1 ELSE Occurrences(s, d)
<1> DEFINE I == {i \in DOMAIN s : s[i] = d}
           J == {i \in DOMAIN Append(s, e) : Append(s, e)[i] = d}
           n == Len(s) + 1
<1>1. /\ Len(s) \in Nat /\ DOMAIN s = 1 .. Len(s) /\ DOMAIN Append(s, e) = 1 .. Len(s) + 1
      /\ \A i \in 1 .. Len(s) : Append(s, e)[i] = s[i]
      /\ Append(s, e)[Len(s) + 1] = e
  OBVIOUS
<1>2. /\ \A i \in 1 .. Len(s) + 1 : i \in 1 .. Len(s) \/ i = Len(s) + 1
      /\ \A i \in 1 .. Len(s) : i \in 1 .. Len(s) + 1
      /\ Len(s) + 1 \in 1 .. Len(s) + 1 /\ Len(s) + 1 \notin 1 .. Len(s)
  BY <1>1
<1>3. J = IF d = e THEN I \cup {n} ELSE I
  BY <1>1, <1>2
<1>4. IsFiniteSet(I) /\ n \notin I
  BY <1>1, <1>2, OccurrencesAre
<1> HIDE DEF I, J, n
<1>5. Cardinality(J) = IF d = e THEN Cardinality(I) + 1 ELSE Cardinality(I)
  BY <1>3, <1>4, FS_AddElement
<1> QED BY <1>5 DEF Occurrences, I, J

LEMMA OccurrencesTail ==
  ASSUME NEW S, NEW s \in Seq(S), s # <<>>, NEW d
  PROVE  Occurrences(s, d) = IF d = Head(s) THEN Occurrences(Tail(s), d) + 1 ELSE Occurrences(Tail(s), d)
<1> DEFINE I == {i \in DOMAIN s : s[i] = d}
           J == {i \in DOMAIN Tail(s) : Tail(s)[i] = d}
           f == [i \in J |-> i + 1]
<1>1. /\ Len(s) \in Nat \ {0} /\ DOMAIN s = 1 .. Len(s) /\ Tail(s) \in Seq(S)
      /\ DOMAIN Tail(s) = 1 .. Len(s) - 1 /\ Head(s) = s[1]
      /\ \A i \in 1 .. Len(s) - 1 : Tail(s)[i] = s[i + 1]
  BY TakeFirst, HeadTailProperties
<1>2. f \in Bijection(J, I \ {1})
  <2>1. \A j \in J : j + 1 \in I \ {1}
    BY <1>1
  <2>2. \A a, b \in J : a + 1 = b + 1 => a = b
    BY <1>1
  <2>3. \A i \in I \ {1} : i - 1 \in J /\ (i - 1) + 1 = i
    <3> SUFFICES ASSUME NEW i \in I, i # 1 PROVE i - 1 \in J /\ (i - 1) + 1 = i
      OBVIOUS
    <3>1. i \in 1 .. Len(s) /\ i - 1 \in 1 .. Len(s) - 1 /\ (i - 1) + 1 = i
      BY <1>1
    <3>2. Tail(s)[i - 1] = s[i]
      BY <1>1, <3>1
    <3> QED BY <1>1, <3>1, <3>2
  <2> HIDE DEF I, J
  <2>4. f \in [J -> I \ {1}] /\ \A j \in J : f[j] = j + 1
    BY <2>1
  <2>5. \A i \in I \ {1} : \E j \in J : f[j] = i
    BY <2>3, <2>4
  <2> HIDE DEF f
  <2> QED BY <2>2, <2>4, <2>5 DEF Bijection, Injection, Surjection, IsInjective
<1>3. IsFiniteSet(J) /\ IsFiniteSet(I)
  <2>1. IsFiniteSet(I)
    BY OccurrencesAre
  <2> DEFINE t == Tail(s)
  <2>2. t \in Seq(S)
    BY <1>1
  <2> HIDE DEF t
  <2>3. IsFiniteSet({i \in DOMAIN t : t[i] = d})
    BY <2>2, OccurrencesAre
  <2> QED BY <2>1, <2>3 DEF t
<1>4. 1 \in I <=> d = Head(s)
  BY <1>1
<1> HIDE DEF I, J, f
<1>5. Cardinality(I \ {1}) = Cardinality(J)
  BY <1>2, <1>3, FS_Bijection DEF ExistsBijection
<1>6. Cardinality(I) = IF 1 \in I THEN Cardinality(I \ {1}) + 1 ELSE Cardinality(I \ {1})
  <2>1. Cardinality(I \ {1}) = IF 1 \in I THEN Cardinality(I) - 1 ELSE Cardinality(I)
    BY <1>3, FS_RemoveElement
  <2>2. Cardinality(I) \in Nat
    BY <1>3, FS_CardinalityType
  <2> QED BY <2>1, <2>2
<1> QED BY <1>4, <1>5, <1>6 DEF Occurrences, I, J

=============================================================================
