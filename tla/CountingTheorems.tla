-------------------------- MODULE CountingTheorems --------------------------
(***************************************************************************)
(* How the number of those who are somewhere changes when one of them      *)
(* moves.  The reference counts of a driver are such numbers: of the       *)
(* threads at places where they hold a reference, of the objects whose     *)
(* field is set.  And what is in a sequence, before and after its head     *)
(* has left, an element has come or some have been taken out.              *)
(***************************************************************************)
EXTENDS Naturals, Sequences, FiniteSets, FiniteSetTheorems, SequenceTheorems,
        TLAPS

\* The part of T that f maps into S.
Where(f, T, S) == {u \in T : f[u] \in S}

\* The number n of the elements that f maps into S, and their number m after an
\* element that was at p has gone to w.
Moved(n, m, S, p, w) ==
    /\ n \in Nat
    /\ p \in S /\ w \in S => m = n
    /\ p \in S /\ w \notin S => n > 0 /\ m = n - 1
    /\ p \notin S /\ w \in S => m = n + 1
    /\ p \notin S /\ w \notin S => m = n

\* Putting one element in or out of the part of a finite set where f is in S.
LEMMA CountMove ==
  ASSUME NEW T, IsFiniteSet(T), NEW f, NEW g, NEW t \in T, NEW w, NEW S,
         \A u \in T : g[u] = IF u = t THEN w ELSE f[u]
  PROVE  Moved(Cardinality(Where(f, T, S)), Cardinality(Where(g, T, S)), S, f[t], w)
  <1> DEFINE before == Where(f, T, S)
             after == Where(g, T, S)
             rest == before \ {t}
  <1>1. IsFiniteSet(before) /\ IsFiniteSet(rest) /\ IsFiniteSet(after)
    BY FS_Subset DEF Where
  <1>2. Cardinality(before) \in Nat /\ Cardinality(after) \in Nat /\ Cardinality(rest) \in Nat
    BY <1>1, FS_CardinalityType
  <1>3. Cardinality(rest) = Cardinality(before) - (IF f[t] \in S THEN 1 ELSE 0)
    <2>1. t \in before <=> f[t] \in S
      BY DEF Where
    <2> QED
      BY <1>1, <1>2, <2>1, FS_RemoveElement
  <1>4. t \notin rest /\ after = IF w \in S THEN rest \cup {t} ELSE rest
    BY DEF Where
  <1>5. Cardinality(after) = Cardinality(rest) + (IF w \in S THEN 1 ELSE 0)
    <2> HIDE DEF after, rest
    <2> QED
      BY <1>1, <1>2, <1>4, FS_AddElement
  <1> HIDE DEF after, rest, before
  <1>6. Moved(Cardinality(before), Cardinality(after), S, f[t], w)
    <2>1. f[t] \in S => t \in before
      BY DEF before, Where
    <2>2. f[t] \in S => Cardinality(before) > 0
      BY <1>1, <1>2, <2>1, FS_EmptySet
    <2> QED
      BY <1>2, <1>3, <1>5, <2>2 DEF Moved
  <1> QED
    BY <1>6, Zenon DEF before, after

\* Two sets that differ in one element at most.
LEMMA CountChange ==
  ASSUME NEW X, NEW Y, IsFiniteSet(X), NEW t, X \ {t} = Y \ {t}
  PROVE  /\ IsFiniteSet(Y) /\ Cardinality(X) \in Nat /\ Cardinality(Y) \in Nat
         /\ (t \in X <=> t \in Y) => Cardinality(Y) = Cardinality(X)
         /\ t \in X /\ t \notin Y => Cardinality(Y) = Cardinality(X) - 1 /\ Cardinality(X) > 0
         /\ t \notin X /\ t \in Y => Cardinality(Y) = Cardinality(X) + 1
  <1> DEFINE Rest == X \ {t}
  <1>1. Y = Rest \/ Y = Rest \cup {t}
    OBVIOUS
  <1>2. IsFiniteSet(Rest) /\ IsFiniteSet(Y)
    BY <1>1, FS_Subset, FS_AddElement
  <1>3. Cardinality(X) \in Nat /\ Cardinality(Y) \in Nat /\ Cardinality(Rest) \in Nat
    BY <1>2, FS_CardinalityType
  <1>4. t \in X => Cardinality(Rest) = Cardinality(X) - 1
    BY FS_RemoveElement
  <1>5. t \notin X => Rest = X
    OBVIOUS
  <1>6. Cardinality(Rest \cup {t}) = Cardinality(Rest) + 1
    BY <1>2, FS_AddElement
  <1>7. t \in Y => Cardinality(Y) = Cardinality(Rest) + 1
    BY <1>1, <1>6
  <1>8. t \notin Y => Cardinality(Y) = Cardinality(Rest)
    BY <1>1
  <1> HIDE DEF Rest
  <1> QED
    BY <1>2, <1>3, <1>4, <1>5, <1>7, <1>8

-----------------------------------------------------------------------------
\* The elements of a sequence, those behind its head, and whether each is there once.
Of(s)     == {s[k] : k \in 1 .. Len(s)}
Behind(s) == {s[k] : k \in 2 .. Len(s)}
Once(s)   == \A k, l \in 1 .. Len(s) : s[k] = s[l] => k = l

\* What the head of a sequence leaves.
LEMMA TailOf ==
  ASSUME NEW S, NEW s \in Seq(S), s # <<>>
  PROVE  /\ Head(s) \in S /\ Of(s) = {Head(s)} \cup Behind(s) /\ Behind(s) \subseteq S
         /\ Tail(s) \in Seq(S) /\ Of(Tail(s)) = Behind(s)
         /\ Once(s) => Head(s) \notin Behind(s) /\ Once(Tail(s))
         /\ Len(s) > 1 => Tail(s) # <<>>
         /\ ~(Len(s) > 1) => Behind(s) = {}
  <1>1. /\ Len(s) \in Nat /\ Len(s) > 0 /\ Head(s) = s[1] /\ \A i \in 1 .. Len(s) : s[i] \in S
    BY EmptySeq, HeadTailProperties, LenProperties, ElementOfSeq
  <1>2. /\ Tail(s) \in Seq(S) /\ Len(Tail(s)) = Len(s) - 1
        /\ \A i \in 1 .. Len(Tail(s)) : Tail(s)[i] = s[i + 1]
    BY HeadTailProperties
  <1>3. Head(s) \in S /\ Of(s) = {Head(s)} \cup Behind(s) /\ Behind(s) \subseteq S
    BY <1>1 DEF Of, Behind
  <1>4. Of(Tail(s)) = Behind(s)
    <2>1. \A k \in 2 .. Len(s) : k - 1 \in 1 .. Len(Tail(s)) /\ Tail(s)[k - 1] = s[k]
      BY <1>1, <1>2
    <2>2. \A k \in 1 .. Len(Tail(s)) : k + 1 \in 2 .. Len(s) /\ Tail(s)[k] = s[k + 1]
      BY <1>1, <1>2
    <2>3. \A x : x \in Behind(s) => x \in Of(Tail(s))
      BY <2>1 DEF Of, Behind
    <2>4. \A x : x \in Of(Tail(s)) => x \in Behind(s)
      BY <2>2 DEF Of, Behind
    <2> QED
      BY <2>3, <2>4
  <1>5. Once(s) => Head(s) \notin Behind(s)
    BY <1>1 DEF Once, Behind
  <1>6. Once(s) => Once(Tail(s))
    <2> SUFFICES ASSUME Once(s), NEW k \in 1 .. Len(Tail(s)), NEW l \in 1 .. Len(Tail(s)),
                        Tail(s)[k] = Tail(s)[l]
                 PROVE  k = l
      BY DEF Once
    <2>1. k + 1 \in 1 .. Len(s) /\ l + 1 \in 1 .. Len(s) /\ s[k + 1] = s[l + 1]
      BY <1>1, <1>2
    <2> QED
      BY <2>1 DEF Once
  <1>7. Len(s) > 1 => Tail(s) # <<>>
    <2>1. Len(s) > 1 => Len(Tail(s)) # 0
      BY <1>1, <1>2
    <2>2. Len(<<>>) = 0
      OBVIOUS
    <2> QED
      BY <2>1, <2>2, Zenon
  <1>8. ~(Len(s) > 1) => Behind(s) = {}
    BY <1>1 DEF Behind
  <1> QED
    BY <1>2, <1>3, <1>4, <1>5, <1>6, <1>7, <1>8

\* An element that comes to the end.
LEMMA AppendOf ==
  ASSUME NEW S, NEW s \in Seq(S), NEW x \in S
  PROVE  /\ Append(s, x) \in Seq(S) /\ Append(s, x) # <<>> /\ Of(Append(s, x)) = Of(s) \cup {x}
         /\ Once(s) /\ x \notin Of(s) => Once(Append(s, x))
  <1>1. Len(s) \in Nat
    BY LenProperties
  <1>2. /\ Append(s, x) \in Seq(S) /\ Append(s, x) # <<>>
        /\ Len(Append(s, x)) = Len(s) + 1 /\ Append(s, x)[Len(s) + 1] = x
        /\ \A k \in 1 .. Len(s) : Append(s, x)[k] = s[k]
    BY AppendProperties
  <1> DEFINE a == Append(s, x)
  <1> HIDE DEF a
  <1>3. Of(a) = Of(s) \cup {x}
    <2>1. \A k \in 1 .. Len(a) : k \in 1 .. Len(s) \/ k = Len(s) + 1
      BY <1>1, <1>2 DEF a
    <2>2. \A y : y \in Of(a) => y \in Of(s) \cup {x}
      BY <1>2, <2>1 DEF Of, a
    <2>3. \A k \in 1 .. Len(s) : k \in 1 .. Len(a) /\ a[k] = s[k]
      BY <1>1, <1>2 DEF a
    <2>4. Len(s) + 1 \in 1 .. Len(a) /\ a[Len(s) + 1] = x
      BY <1>1, <1>2 DEF a
    <2>5. \A y : y \in Of(s) \cup {x} => y \in Of(a)
      BY <2>3, <2>4 DEF Of
    <2> QED
      BY <2>2, <2>5
  <1>4. Once(s) /\ x \notin Of(s) => Once(a)
    <2> SUFFICES ASSUME Once(s), x \notin Of(s), NEW k \in 1 .. Len(a), NEW l \in 1 .. Len(a),
                        a[k] = a[l]
                 PROVE  k = l
      BY DEF Once
    <2>1. /\ \/ k \in 1 .. Len(s) /\ a[k] = s[k] /\ a[k] # x
             \/ k = Len(s) + 1 /\ a[k] = x
          /\ \/ l \in 1 .. Len(s) /\ a[l] = s[l] /\ a[l] # x
             \/ l = Len(s) + 1 /\ a[l] = x
      BY <1>1, <1>2 DEF a, Of
    <2> QED
      BY <2>1 DEF Once
  <1> QED
    BY <1>2, <1>3, <1>4 DEF a

\* The array of one call.
LEMMA ArrayOf ==
  ASSUME NEW S, NEW n \in Nat, n > 0, NEW a \in [1 .. n -> S]
  PROVE  /\ a \in Seq(S) /\ a # <<>> /\ Of(a) = {a[i] : i \in 1 .. n}
  <1>1. a \in Seq(S)
    BY IsASeq
  <1>2. Len(a) = n
    BY <1>1, LenProperties
  <1>3. a # <<>>
    BY <1>1, <1>2, EmptySeq
  <1> QED
    BY <1>1, <1>2, <1>3 DEF Of

\* Each of its elements is there once.
LEMMA ArrayOnce ==
  ASSUME NEW S, NEW n \in Nat, n > 0, NEW a \in [1 .. n -> S],
         \A i, j \in 1 .. n : a[i] = a[j] => i = j
  PROVE  Once(a)
  <1>1. Len(a) = n
    BY IsASeq, LenProperties
  <1> QED
    BY <1>1 DEF Once

\* One element, and none.
LEMMA SingleOf ==
  ASSUME NEW S, NEW x \in S
  PROVE  /\ <<x>> \in Seq(S) /\ <<x>> # <<>> /\ Head(<<x>>) = x
         /\ Of(<<x>>) = {x} /\ Behind(<<x>>) = {} /\ Once(<<x>>)
  BY DEF Of, Behind, Once

LEMMA NoneOf ==
  Of(<<>>) = {} /\ Behind(<<>>) = {} /\ Once(<<>>) /\ \A S : <<>> \in Seq(S)
  BY DEF Of, Behind, Once

\* The elements of a finite set of numbers, counted: each has its own rank, and every
\* rank is one's.
LEMMA RanksOf ==
  ASSUME NEW left, left \subseteq Nat, IsFiniteSet(left)
  PROVE  /\ Cardinality(left) \in Nat
         /\ \A i \in left : Cardinality({j \in left : j <= i}) \in 1 .. Cardinality(left)
         /\ \A i, l \in left :
               Cardinality({j \in left : j <= i}) = Cardinality({j \in left : j <= l}) => i = l
         /\ \A k \in 1 .. Cardinality(left) :
               \E i \in left : Cardinality({j \in left : j <= i}) = k
  <1> DEFINE upto(i) == {j \in left : j <= i}
             rank == [i \in left |-> Cardinality(upto(i))]
             n == Cardinality(left)
  <1>1. /\ n \in Nat
        /\ \A i : IsFiniteSet(upto(i)) /\ Cardinality(upto(i)) \in Nat /\ Cardinality(upto(i)) <= n
    BY FS_Subset, FS_CardinalityType
  <1>2. \A i \in left : Cardinality(upto(i)) # 0
    <2> SUFFICES ASSUME NEW i \in left PROVE Cardinality(upto(i)) # 0
      OBVIOUS
    <2>1. i \in upto(i)
      OBVIOUS
    <2> QED
      BY <1>1, <2>1, FS_EmptySet
  <1>3. \A i, l \in left : i < l => Cardinality(upto(i)) < Cardinality(upto(l))
    <2> SUFFICES ASSUME NEW i \in left, NEW l \in left, i < l
                 PROVE  Cardinality(upto(i)) < Cardinality(upto(l))
      OBVIOUS
    <2>0. i \in Nat /\ l \in Nat /\ ~(l <= i)
      OBVIOUS
    <2>1. l \in upto(l) /\ l \notin upto(i) /\ \A j \in left : j <= i => j <= l
      BY <2>0
    <2>3. upto(i) \subseteq upto(l)
      BY <2>1
    <2> HIDE DEF upto
    <2>2. Cardinality(upto(i)) <= Cardinality(upto(l))
          /\ (Cardinality(upto(i)) = Cardinality(upto(l)) => upto(i) = upto(l))
      BY <1>1, <2>3, FS_Subset
    <2> QED
      BY <1>1, <2>1, <2>2
  <1>4. \A i, l \in left : Cardinality(upto(i)) = Cardinality(upto(l)) => i = l
    <2> HIDE DEF upto
    <2> SUFFICES ASSUME NEW i \in left, NEW l \in left, Cardinality(upto(i)) = Cardinality(upto(l))
                 PROVE  i = l
      OBVIOUS
    <2>1. i < l \/ l < i \/ i = l
      OBVIOUS
    <2> QED
      BY <1>1, <1>3, <2>1
  <1>5. \A i \in left : Cardinality(upto(i)) \in 1 .. n
    <2> HIDE DEF upto
    <2> QED
      BY <1>1, <1>2
  <1>6. \A k \in 1 .. n : \E i \in left : Cardinality(upto(i)) = k
    <2> HIDE DEF upto
    <2>1. rank \in [left -> 1 .. n]
      BY <1>5
    <2>2. \A i, l \in left : rank[i] = rank[l] => i = l
      BY <1>4
    <2> HIDE DEF rank
    <2>3. rank \in Injection(left, 1 .. n)
      BY <2>1, <2>2 DEF Injection, IsInjective
    <2>4. IsFiniteSet(1 .. n) /\ Cardinality(1 .. n) = n
      BY <1>1, FS_Interval
    <2>5. rank \in Surjection(left, 1 .. n)
      BY <2>3, <2>4, FS_Injection
    <2>6. \A k \in 1 .. n : \E i \in left : rank[i] = k
      BY <2>5 DEF Surjection
    <2> QED
      BY <2>6 DEF rank
  <1> QED
    BY <1>1, <1>4, <1>5, <1>6

================================================================================
