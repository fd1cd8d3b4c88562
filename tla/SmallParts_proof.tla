-------------------------- MODULE SmallParts_proof --------------------------
(***************************************************************************)
(* Proofs about DPPaging, for any number of threads; about DPBitmap, for   *)
(* any sizes of region and volume and any ranges; about Coworker, for any  *)
(* number of senders and one receiver; about Ctrl2cap, for any number of   *)
(* keyboards; about NdisEdgeInit, for any number of notifications and      *)
(* loads of ndisprot.                                                      *)
(***************************************************************************)
EXTENDS MCSmallParts, CountingTheorems, Sequences

-----------------------------------------------------------------------------
(* DPPaging: the paging files of a volume.                                 *)

\* The files whose removal is not yet accepted; those accepted and not counted.
Leaving == {t \in Threads : ~inPath[t] /\ pc[t] \in {"wait", "test", "lower"}}
Coming  == {t \in Threads : inPath[t] /\ pc[t] = "adjust"}
Gone    == {t \in Threads : ~inPath[t] /\ pc[t] = "adjust"}

PagingTypes ==
    /\ event \in BOOLEAN /\ pagable \in BOOLEAN /\ overlapped \in BOOLEAN
    /\ pc \in [Threads -> {"idle", "wait", "test", "lower", "adjust", "clear", "revert", "set"}]
    /\ inPath \in [Threads -> BOOLEAN]
    /\ setPagable \in [Threads -> BOOLEAN]

\* The count, with what is accepted and not yet counted, is that of the files.
PagingCounted ==
    /\ count \in Nat /\ paths \in Nat
    /\ paths + Cardinality(Gone) = count + Cardinality(Coming)
    /\ paths >= Cardinality(Coming) + Cardinality(Leaving)

\* What the bit says of n files.
Says(n) == (n > 0 => ~pagable) /\ (n = 0 /\ ~Inrush => pagable)

\* The notification that is under way, if it is the only one.
Alone(t) ==
    /\ ~inPath[t] /\ pc[t] \in {"wait", "test", "lower"} => count = paths /\ paths > 0
    /\ pc[t] \in {"wait", "test", "revert", "set"} => count = paths
    /\ inPath[t] /\ pc[t] # "wait" => ~setPagable[t]
    /\ pc[t] = "test" => ~setPagable[t]
    /\ pc[t] \in {"wait", "test", "set"} => Says(count)
    /\ pc[t] \in {"lower", "adjust", "revert"} =>
          IF setPagable[t] THEN ~inPath[t] /\ count = 1 /\ ~Inrush /\ pagable
          ELSE Says(count) /\ (~inPath[t] /\ count = 1 => Inrush)
    /\ pc[t] = "lower" => count = paths
    /\ pc[t] = "adjust" => paths = IF inPath[t] THEN count + 1 ELSE count - 1
    /\ pc[t] = "clear" => inPath[t] /\ count = paths /\ count > 0 /\ (count > 1 => ~pagable)

\* If no notification has begun before another ended, how far the one is says what
\* count and bit are.
PagingAlone ==
    ~overlapped =>
        /\ \A s, t \in Busy : s = t
        /\ Busy = {} => count = paths /\ Says(count)
        /\ \A t \in Busy : Alone(t)

PagingInv == PagingTypes /\ PagingCounted /\ PagingAlone

LEMMA PagingSetsFinite ==
  /\ IsFiniteSet(Leaving) /\ IsFiniteSet(Coming) /\ IsFiniteSet(Gone)
  /\ Cardinality(Leaving) \in Nat /\ Cardinality(Coming) \in Nat /\ Cardinality(Gone) \in Nat
  /\ Leaving # {} => Cardinality(Leaving) > 0
  /\ Gone # {} => Cardinality(Gone) > 0
  <1>1. IsFiniteSet(Leaving) /\ IsFiniteSet(Coming) /\ IsFiniteSet(Gone)
    BY PagingAssumption, FS_Subset DEF Leaving, Coming, Gone
  <1>2. /\ Cardinality(Leaving) \in Nat /\ Cardinality(Coming) \in Nat /\ Cardinality(Gone) \in Nat
        /\ Leaving # {} => Cardinality(Leaving) # 0
        /\ Gone # {} => Cardinality(Gone) # 0
    BY <1>1, FS_CardinalityType, FS_EmptySet
  <1> QED
    BY <1>1, <1>2

\* What the manager counts when it removes a file.
LEMMA RemovalsGuarded ==
  /\ Cardinality(Landing \cup Removing) \in Nat
  /\ Cardinality(Landing \cup Removing) >= Cardinality(Coming) + Cardinality(Leaving)
  <1>1. IsFiniteSet(Landing \cup Removing)
    BY PagingAssumption, FS_Subset DEF Landing, Removing, Arriving, Busy
  <1>2. Coming \cup Leaving \subseteq Landing \cup Removing
    BY DEF Coming, Leaving, Landing, Removing, Arriving, Busy
  <1>3. Coming \cap Leaving = {}
    BY DEF Coming, Leaving
  <1>4. Cardinality(Coming \cap Leaving) = 0
    BY <1>3, FS_EmptySet
  <1>5. Cardinality(Coming \cup Leaving) = Cardinality(Coming) + Cardinality(Leaving) - Cardinality(Coming \cap Leaving)
    BY PagingSetsFinite, FS_Union
  <1>6. Cardinality(Coming \cup Leaving) = Cardinality(Coming) + Cardinality(Leaving)
    BY <1>4, <1>5, PagingSetsFinite
  <1>7. Cardinality(Coming \cup Leaving) <= Cardinality(Landing \cup Removing)
    BY <1>1, <1>2, FS_Subset
  <1> QED
    BY <1>1, <1>6, <1>7, FS_CardinalityType

LEMMA PagingTypesStep ==
  ASSUME PagingTypes, [Next]_vars PROVE PagingTypes'
  <1> USE DEF PagingTypes
  <1>1. ASSUME NEW t \in Threads, Notify(t) PROVE PagingTypes'
    BY <1>1 DEF Notify
  <1>2. ASSUME NEW t \in Threads, Wait(t) PROVE PagingTypes'
    BY <1>2 DEF Wait
  <1>3. ASSUME NEW t \in Threads, Test(t) PROVE PagingTypes'
    BY <1>3 DEF Test
  <1>4. ASSUME NEW t \in Threads, LowerAccepts(t) PROVE PagingTypes'
    BY <1>4 DEF LowerAccepts
  <1>5. ASSUME NEW t \in Threads, LowerRefuses(t) PROVE PagingTypes'
    BY <1>5 DEF LowerRefuses
  <1>6. ASSUME NEW t \in Threads, Adjust(t) PROVE PagingTypes'
    BY <1>6 DEF Adjust
  <1>7. ASSUME NEW t \in Threads, Clear(t) PROVE PagingTypes'
    BY <1>7 DEF Clear
  <1>8. ASSUME NEW t \in Threads, Revert(t) PROVE PagingTypes'
    BY <1>8 DEF Revert
  <1>9. ASSUME NEW t \in Threads, Release(t) PROVE PagingTypes'
    BY <1>9 DEF Release
  <1>10. CASE UNCHANGED vars
    BY <1>10 DEF vars
  <1> QED
    BY <1>1, <1>2, <1>3, <1>4, <1>5, <1>6, <1>7, <1>8, <1>9, <1>10 DEF Next

LEMMA PagingCountedStep ==
  ASSUME PagingTypes, PagingCounted, [Next]_vars PROVE PagingCounted'
  <1> USE PagingSetsFinite, CountChange DEF PagingTypes
  <1>1. ASSUME NEW t \in Threads, Notify(t) PROVE PagingCounted'
    <2>1. CASE inPath'[t]
      <3>1. Cardinality(Leaving') = Cardinality(Leaving)
        <4>1. Leaving \ {t} = Leaving' \ {t}
          BY <1>1 DEF Notify, Leaving
        <4>2. (t \in Leaving <=> t \in Leaving')
          BY <1>1, <2>1 DEF Notify, Leaving
        <4> QED
          BY <4>1, <4>2
      <3>2. Cardinality(Coming') = Cardinality(Coming)
        <4>1. Coming \ {t} = Coming' \ {t}
          BY <1>1 DEF Notify, Coming
        <4>2. (t \in Coming <=> t \in Coming')
          BY <1>1, <2>1 DEF Notify, Coming
        <4> QED
          BY <4>1, <4>2
      <3>3. Cardinality(Gone') = Cardinality(Gone)
        <4>1. Gone \ {t} = Gone' \ {t}
          BY <1>1 DEF Notify, Gone
        <4>2. (t \in Gone <=> t \in Gone')
          BY <1>1, <2>1 DEF Notify, Gone
        <4> QED
          BY <4>1, <4>2
      <3> QED
        BY <1>1, <2>1, <3>1, <3>2, <3>3 DEF Notify, PagingCounted
    <2>2. CASE ~inPath'[t]
      <3>1. paths > Cardinality(Landing \cup Removing)
        BY <1>1, <2>2 DEF Notify
      <3>2. Cardinality(Landing \cup Removing) >= Cardinality(Coming) + Cardinality(Leaving)
        BY RemovalsGuarded
      <3>3. Cardinality(Leaving') = Cardinality(Leaving) + 1
        <4>1. Leaving \ {t} = Leaving' \ {t} /\ t \notin Leaving /\ t \in Leaving'
          BY <1>1, <2>2 DEF Notify, Leaving
        <4> QED
          BY <4>1
      <3>4. Coming' = Coming /\ Gone' = Gone
        BY <1>1 DEF Notify, Coming, Gone
      <3>5. Cardinality(Landing \cup Removing) \in Nat
        BY RemovalsGuarded
      <3> QED
        BY <1>1, <3>1, <3>2, <3>3, <3>4, <3>5 DEF Notify, PagingCounted
    <2> QED
      BY <2>1, <2>2
  <1>2. ASSUME NEW t \in Threads, Wait(t) PROVE PagingCounted'
    <2>1. Cardinality(Leaving') = Cardinality(Leaving)
      <3>1. Leaving \ {t} = Leaving' \ {t}
        BY <1>2 DEF Wait, Leaving
      <3>2. (t \in Leaving <=> t \in Leaving')
        BY <1>2 DEF Wait, Leaving
      <3> QED
        BY <3>1, <3>2
    <2>2. Cardinality(Coming') = Cardinality(Coming)
      <3>1. Coming \ {t} = Coming' \ {t}
        BY <1>2 DEF Wait, Coming
      <3>2. (t \in Coming <=> t \in Coming')
        BY <1>2 DEF Wait, Coming
      <3> QED
        BY <3>1, <3>2
    <2>3. Cardinality(Gone') = Cardinality(Gone)
      <3>1. Gone \ {t} = Gone' \ {t}
        BY <1>2 DEF Wait, Gone
      <3>2. (t \in Gone <=> t \in Gone')
        BY <1>2 DEF Wait, Gone
      <3> QED
        BY <3>1, <3>2
    <2> QED
      BY <1>2, <2>1, <2>2, <2>3 DEF Wait, PagingCounted
  <1>3. ASSUME NEW t \in Threads, Test(t) PROVE PagingCounted'
    <2>1. Cardinality(Leaving') = Cardinality(Leaving)
      <3>1. Leaving \ {t} = Leaving' \ {t}
        BY <1>3 DEF Test, Leaving
      <3>2. (t \in Leaving <=> t \in Leaving')
        BY <1>3 DEF Test, Leaving
      <3> QED
        BY <3>1, <3>2
    <2>2. Cardinality(Coming') = Cardinality(Coming)
      <3>1. Coming \ {t} = Coming' \ {t}
        BY <1>3 DEF Test, Coming
      <3>2. (t \in Coming <=> t \in Coming')
        BY <1>3 DEF Test, Coming
      <3> QED
        BY <3>1, <3>2
    <2>3. Cardinality(Gone') = Cardinality(Gone)
      <3>1. Gone \ {t} = Gone' \ {t}
        BY <1>3 DEF Test, Gone
      <3>2. (t \in Gone <=> t \in Gone')
        BY <1>3 DEF Test, Gone
      <3> QED
        BY <3>1, <3>2
    <2> QED
      BY <1>3, <2>1, <2>2, <2>3 DEF Test, PagingCounted
  <1>4. ASSUME NEW t \in Threads, LowerAccepts(t) PROVE PagingCounted'
    <2>1. CASE inPath[t]
      <3>1. Cardinality(Leaving') = Cardinality(Leaving)
        <4>1. Leaving \ {t} = Leaving' \ {t}
          BY <1>4 DEF LowerAccepts, Leaving
        <4>2. (t \in Leaving <=> t \in Leaving')
          BY <1>4, <2>1 DEF LowerAccepts, Leaving
        <4> QED
          BY <4>1, <4>2
      <3>2. Cardinality(Coming') = Cardinality(Coming) + 1
        <4>1. Coming \ {t} = Coming' \ {t}
          BY <1>4 DEF LowerAccepts, Coming
        <4>2. t \notin Coming /\ t \in Coming'
          BY <1>4, <2>1 DEF LowerAccepts, Coming
        <4> QED
          BY <4>1, <4>2
      <3>3. Cardinality(Gone') = Cardinality(Gone)
        <4>1. Gone \ {t} = Gone' \ {t}
          BY <1>4 DEF LowerAccepts, Gone
        <4>2. (t \in Gone <=> t \in Gone')
          BY <1>4, <2>1 DEF LowerAccepts, Gone
        <4> QED
          BY <4>1, <4>2
      <3> QED
        BY <1>4, <2>1, <3>1, <3>2, <3>3 DEF LowerAccepts, PagingCounted
    <2>2. CASE ~inPath[t]
      <3>1. Cardinality(Leaving') = Cardinality(Leaving) - 1 /\ Cardinality(Leaving) > 0
        <4>1. Leaving \ {t} = Leaving' \ {t}
          BY <1>4 DEF LowerAccepts, Leaving
        <4>2. t \in Leaving /\ t \notin Leaving'
          BY <1>4, <2>2 DEF LowerAccepts, Leaving
        <4> QED
          BY <4>1, <4>2
      <3>2. Cardinality(Coming') = Cardinality(Coming)
        <4>1. Coming \ {t} = Coming' \ {t}
          BY <1>4 DEF LowerAccepts, Coming
        <4>2. (t \in Coming <=> t \in Coming')
          BY <1>4, <2>2 DEF LowerAccepts, Coming
        <4> QED
          BY <4>1, <4>2
      <3>3. Cardinality(Gone') = Cardinality(Gone) + 1
        <4>1. Gone \ {t} = Gone' \ {t}
          BY <1>4 DEF LowerAccepts, Gone
        <4>2. t \notin Gone /\ t \in Gone'
          BY <1>4, <2>2 DEF LowerAccepts, Gone
        <4> QED
          BY <4>1, <4>2
      <3> QED
        BY <1>4, <2>2, <3>1, <3>2, <3>3 DEF LowerAccepts, PagingCounted
    <2> QED
      BY <2>1, <2>2
  <1>5. ASSUME NEW t \in Threads, LowerRefuses(t) PROVE PagingCounted'
    <2>1. CASE inPath[t]
      <3>1. Cardinality(Leaving') = Cardinality(Leaving)
        <4>1. Leaving \ {t} = Leaving' \ {t}
          BY <1>5 DEF LowerRefuses, Leaving
        <4>2. (t \in Leaving <=> t \in Leaving')
          BY <1>5, <2>1 DEF LowerRefuses, Leaving
        <4> QED
          BY <4>1, <4>2
      <3>2. Cardinality(Coming') = Cardinality(Coming)
        <4>1. Coming \ {t} = Coming' \ {t}
          BY <1>5 DEF LowerRefuses, Coming
        <4>2. (t \in Coming <=> t \in Coming')
          BY <1>5, <2>1 DEF LowerRefuses, Coming
        <4> QED
          BY <4>1, <4>2
      <3>3. Cardinality(Gone') = Cardinality(Gone)
        <4>1. Gone \ {t} = Gone' \ {t}
          BY <1>5 DEF LowerRefuses, Gone
        <4>2. (t \in Gone <=> t \in Gone')
          BY <1>5, <2>1 DEF LowerRefuses, Gone
        <4> QED
          BY <4>1, <4>2
      <3> QED
        BY <1>5, <2>1, <3>1, <3>2, <3>3 DEF LowerRefuses, PagingCounted
    <2>2. CASE ~inPath[t]
      <3>1. Cardinality(Leaving') = Cardinality(Leaving) - 1 /\ Cardinality(Leaving) > 0
        <4>1. Leaving \ {t} = Leaving' \ {t}
          BY <1>5 DEF LowerRefuses, Leaving
        <4>2. t \in Leaving /\ t \notin Leaving'
          BY <1>5, <2>2 DEF LowerRefuses, Leaving
        <4> QED
          BY <4>1, <4>2
      <3>2. Cardinality(Coming') = Cardinality(Coming)
        <4>1. Coming \ {t} = Coming' \ {t}
          BY <1>5 DEF LowerRefuses, Coming
        <4>2. (t \in Coming <=> t \in Coming')
          BY <1>5, <2>2 DEF LowerRefuses, Coming
        <4> QED
          BY <4>1, <4>2
      <3>3. Cardinality(Gone') = Cardinality(Gone)
        <4>1. Gone \ {t} = Gone' \ {t}
          BY <1>5 DEF LowerRefuses, Gone
        <4>2. (t \in Gone <=> t \in Gone')
          BY <1>5, <2>2 DEF LowerRefuses, Gone
        <4> QED
          BY <4>1, <4>2
      <3> QED
        BY <1>5, <2>2, <3>1, <3>2, <3>3 DEF LowerRefuses, PagingCounted
    <2> QED
      BY <2>1, <2>2
  <1>6. ASSUME NEW t \in Threads, Adjust(t) PROVE PagingCounted'
    <2>1. CASE inPath[t]
      <3>1. Cardinality(Leaving') = Cardinality(Leaving)
        <4>1. Leaving \ {t} = Leaving' \ {t}
          BY <1>6 DEF Adjust, Leaving
        <4>2. (t \in Leaving <=> t \in Leaving')
          BY <1>6, <2>1 DEF Adjust, Leaving
        <4> QED
          BY <4>1, <4>2
      <3>2. Cardinality(Coming') = Cardinality(Coming) - 1 /\ Cardinality(Coming) > 0
        <4>1. Coming \ {t} = Coming' \ {t}
          BY <1>6 DEF Adjust, Coming
        <4>2. t \in Coming /\ t \notin Coming'
          BY <1>6, <2>1 DEF Adjust, Coming
        <4> QED
          BY <4>1, <4>2
      <3>3. Cardinality(Gone') = Cardinality(Gone)
        <4>1. Gone \ {t} = Gone' \ {t}
          BY <1>6 DEF Adjust, Gone
        <4>2. (t \in Gone <=> t \in Gone')
          BY <1>6, <2>1 DEF Adjust, Gone
        <4> QED
          BY <4>1, <4>2
      <3> QED
        BY <1>6, <2>1, <3>1, <3>2, <3>3 DEF Adjust, PagingCounted
    <2>2. CASE ~inPath[t]
      <3>1. Cardinality(Leaving') = Cardinality(Leaving)
        <4>1. Leaving \ {t} = Leaving' \ {t}
          BY <1>6 DEF Adjust, Leaving
        <4>2. (t \in Leaving <=> t \in Leaving')
          BY <1>6, <2>2 DEF Adjust, Leaving
        <4> QED
          BY <4>1, <4>2
      <3>2. Cardinality(Coming') = Cardinality(Coming)
        <4>1. Coming \ {t} = Coming' \ {t}
          BY <1>6 DEF Adjust, Coming
        <4>2. (t \in Coming <=> t \in Coming')
          BY <1>6, <2>2 DEF Adjust, Coming
        <4> QED
          BY <4>1, <4>2
      <3>3. Cardinality(Gone') = Cardinality(Gone) - 1 /\ Cardinality(Gone) > 0
        <4>1. Gone \ {t} = Gone' \ {t}
          BY <1>6 DEF Adjust, Gone
        <4>2. t \in Gone /\ t \notin Gone'
          BY <1>6, <2>2 DEF Adjust, Gone
        <4> QED
          BY <4>1, <4>2
      <3> QED
        BY <1>6, <2>2, <3>1, <3>2, <3>3 DEF Adjust, PagingCounted
    <2> QED
      BY <2>1, <2>2
  <1>7. ASSUME NEW t \in Threads, Clear(t) PROVE PagingCounted'
    <2>1. Cardinality(Leaving') = Cardinality(Leaving)
      <3>1. Leaving \ {t} = Leaving' \ {t}
        BY <1>7 DEF Clear, Leaving
      <3>2. (t \in Leaving <=> t \in Leaving')
        BY <1>7 DEF Clear, Leaving
      <3> QED
        BY <3>1, <3>2
    <2>2. Cardinality(Coming') = Cardinality(Coming)
      <3>1. Coming \ {t} = Coming' \ {t}
        BY <1>7 DEF Clear, Coming
      <3>2. (t \in Coming <=> t \in Coming')
        BY <1>7 DEF Clear, Coming
      <3> QED
        BY <3>1, <3>2
    <2>3. Cardinality(Gone') = Cardinality(Gone)
      <3>1. Gone \ {t} = Gone' \ {t}
        BY <1>7 DEF Clear, Gone
      <3>2. (t \in Gone <=> t \in Gone')
        BY <1>7 DEF Clear, Gone
      <3> QED
        BY <3>1, <3>2
    <2> QED
      BY <1>7, <2>1, <2>2, <2>3 DEF Clear, PagingCounted
  <1>8. ASSUME NEW t \in Threads, Revert(t) PROVE PagingCounted'
    <2>1. Cardinality(Leaving') = Cardinality(Leaving)
      <3>1. Leaving \ {t} = Leaving' \ {t}
        BY <1>8 DEF Revert, Leaving
      <3>2. (t \in Leaving <=> t \in Leaving')
        BY <1>8 DEF Revert, Leaving
      <3> QED
        BY <3>1, <3>2
    <2>2. Cardinality(Coming') = Cardinality(Coming)
      <3>1. Coming \ {t} = Coming' \ {t}
        BY <1>8 DEF Revert, Coming
      <3>2. (t \in Coming <=> t \in Coming')
        BY <1>8 DEF Revert, Coming
      <3> QED
        BY <3>1, <3>2
    <2>3. Cardinality(Gone') = Cardinality(Gone)
      <3>1. Gone \ {t} = Gone' \ {t}
        BY <1>8 DEF Revert, Gone
      <3>2. (t \in Gone <=> t \in Gone')
        BY <1>8 DEF Revert, Gone
      <3> QED
        BY <3>1, <3>2
    <2> QED
      BY <1>8, <2>1, <2>2, <2>3 DEF Revert, PagingCounted
  <1>9. ASSUME NEW t \in Threads, Release(t) PROVE PagingCounted'
    <2>1. Cardinality(Leaving') = Cardinality(Leaving)
      <3>1. Leaving \ {t} = Leaving' \ {t}
        BY <1>9 DEF Release, Leaving
      <3>2. (t \in Leaving <=> t \in Leaving')
        BY <1>9 DEF Release, Leaving
      <3> QED
        BY <3>1, <3>2
    <2>2. Cardinality(Coming') = Cardinality(Coming)
      <3>1. Coming \ {t} = Coming' \ {t}
        BY <1>9 DEF Release, Coming
      <3>2. (t \in Coming <=> t \in Coming')
        BY <1>9 DEF Release, Coming
      <3> QED
        BY <3>1, <3>2
    <2>3. Cardinality(Gone') = Cardinality(Gone)
      <3>1. Gone \ {t} = Gone' \ {t}
        BY <1>9 DEF Release, Gone
      <3>2. (t \in Gone <=> t \in Gone')
        BY <1>9 DEF Release, Gone
      <3> QED
        BY <3>1, <3>2
    <2> QED
      BY <1>9, <2>1, <2>2, <2>3 DEF Release, PagingCounted
  <1>10. CASE UNCHANGED vars
    BY <1>10 DEF vars, PagingCounted, Leaving, Coming, Gone
  <1> QED
    BY <1>1, <1>2, <1>3, <1>4, <1>5, <1>6, <1>7, <1>8, <1>9, <1>10 DEF Next

LEMMA PagingAloneStep ==
  ASSUME PagingTypes, PagingCounted, PagingAlone, [Next]_vars PROVE PagingAlone'
  <1> USE DEF PagingTypes, PagingAlone, Busy, Says
  <1>1. ASSUME NEW t \in Threads, Notify(t) PROVE PagingAlone'
    <2>1. ~inPath'[t] => paths > 0
      <3>1. IsFiniteSet(Landing \cup Removing)
        BY PagingAssumption, FS_Subset DEF Landing, Removing, Arriving
      <3>2. Cardinality(Landing \cup Removing) \in Nat
        BY <3>1, FS_CardinalityType
      <3> QED
        BY <1>1, <3>2 DEF Notify, PagingCounted
    <2> QED
      BY <1>1, <2>1 DEF Notify, Alone, PagingCounted
  <1>2. ASSUME NEW t \in Threads, Wait(t) PROVE PagingAlone'
    BY <1>2 DEF Wait, Alone, PagingCounted
  <1>3. ASSUME NEW t \in Threads, Test(t) PROVE PagingAlone'
    BY <1>3 DEF Test, Alone, PagingCounted
  <1>4. ASSUME NEW t \in Threads, LowerAccepts(t) PROVE PagingAlone'
    BY <1>4 DEF LowerAccepts, Alone, PagingCounted
  <1>5. ASSUME NEW t \in Threads, LowerRefuses(t) PROVE PagingAlone'
    BY <1>5 DEF LowerRefuses, Alone, PagingCounted
  <1>6. ASSUME NEW t \in Threads, Adjust(t) PROVE PagingAlone'
    BY <1>6 DEF Adjust, Alone, PagingCounted
  <1>7. ASSUME NEW t \in Threads, Clear(t) PROVE PagingAlone'
    BY <1>7 DEF Clear, Alone, PagingCounted
  <1>8. ASSUME NEW t \in Threads, Revert(t) PROVE PagingAlone'
    BY <1>8 DEF Revert, Alone, PagingCounted
  <1>9. ASSUME NEW t \in Threads, Release(t) PROVE PagingAlone'
    BY <1>9 DEF Release, Alone, PagingCounted
  <1>10. CASE UNCHANGED vars
    BY <1>10 DEF vars, Alone
  <1> QED
    BY <1>1, <1>2, <1>3, <1>4, <1>5, <1>6, <1>7, <1>8, <1>9, <1>10 DEF Next

LEMMA PagingInit == Init => PagingInv
  <1> SUFFICES ASSUME Init PROVE PagingInv
    OBVIOUS
  <1>1. Leaving = {} /\ Coming = {} /\ Gone = {} /\ Busy = {}
    BY DEF Init, Leaving, Coming, Gone, Busy
  <1>2. Cardinality({}) = 0
    BY FS_EmptySet
  <1>3. PagingCounted
    BY <1>1, <1>2 DEF Init, PagingCounted
  <1>4. PagingAlone
    BY <1>1 DEF Init, PagingAlone, Says
  <1>5. PagingTypes
    BY DEF Init, PagingTypes
  <1> QED
    BY <1>3, <1>4, <1>5 DEF PagingInv

LEMMA PagingParts == PagingInv => PathsSettled
  <1> SUFFICES ASSUME PagingInv PROVE PathsSettled
    OBVIOUS
  <1>1. Busy = {} => count = paths
    <2> SUFFICES ASSUME Busy = {} PROVE count = paths
      OBVIOUS
    <2>1. Coming = {} /\ Gone = {}
      BY DEF Busy, Coming, Gone
    <2>2. Cardinality({}) = 0
      BY FS_EmptySet
    <2> QED
      BY <2>1, <2>2 DEF PagingInv, PagingCounted
  <1> QED
    BY <1>1
       DEF PagingInv, PagingTypes, PagingCounted, PagingAlone, Says, PathsSettled, TypeOK,
           PagableSettled

\* Between notifications the count of DPDispatchPnp is the number of paging files,
\* however they overlapped; if they did not, DO_POWER_PAGABLE is what the count
\* says.
THEOREM PathsAlwaysSettled == Spec => []PathsSettled
  <1>1. PagingInv /\ [Next]_vars => PagingInv'
    BY PagingTypesStep, PagingCountedStep, PagingAloneStep DEF PagingInv
  <1> QED
    BY PagingInit, <1>1, PagingParts, PTL DEF Spec

-----------------------------------------------------------------------------
(* DPBitmap: regions of bytes of bits, and the set of sectors they stand   *)
(* for.                                                                    *)

RegionBits == Marking!regionReferSize

LEMMA Sizes ==
  /\ RegionSize \in Nat /\ RegionSize > 0 /\ Total \in Nat /\ Total > 0
  /\ RegionBits \in Nat /\ RegionBits > 0 /\ RegionBits = RegionSize * 8
  BY PartsAssumption
     DEF RegionBits, Marking!BitmapAssumption, Marking!regionReferSize, Marking!byteSize

LEMMA ByEight ==
  ASSUME NEW m \in Nat
  PROVE  m = 8 * (m \div 8) + (m % 8) /\ m \div 8 \in Nat /\ m % 8 \in 0 .. 7
  OBVIOUS

\* Where a sector's bit is, in numbers.
LEMMA Places ==
  ASSUME NEW i \in Nat
  PROVE  /\ Marking!Region(i) \in Nat /\ Marking!ByteOf(i) \in Nat /\ Marking!BitPos(i) \in 0 .. 7
         /\ i = RegionBits * Marking!Region(i) + 8 * Marking!ByteOf(i) + Marking!BitPos(i)
         /\ Marking!ByteOf(i) <= RegionSize - 1
         /\ Marking!BitPos(i) = i % 8
  <1> DEFINE q == Marking!Region(i)
             r == i % RegionBits
             s == Marking!ByteOf(i)
             u == Marking!BitPos(i)
  <1>1. q = i \div RegionBits /\ s = r \div 8 /\ u = r % 8
    BY DEF Marking!Region, Marking!ByteOf, Marking!BitPos, RegionBits, Marking!byteSize
  <1>2. q \in Nat /\ r \in Nat /\ r < RegionBits /\ i = RegionBits * q + r
    BY <1>1, Sizes
  <1>3. s \in Nat /\ u \in 0 .. 7 /\ r = 8 * s + u
    BY <1>1, <1>2
  <1>4. i = RegionBits * q + 8 * s + u
    BY <1>2, <1>3, Sizes
  <1>5. s <= RegionSize - 1
    BY <1>2, <1>3, Sizes
  <1>6. u = i % 8
    <2>1. RegionBits * q = 8 * (RegionSize * q) /\ RegionSize * q \in Nat
      BY Sizes, <1>2
    <2> DEFINE n == RegionSize * q
    <2>2. i = 8 * (n + s) + u /\ n \in Nat
      BY <1>3, <1>4, <2>1, Sizes
    <2> HIDE DEF n, q, s, u
    <2> QED
      BY <1>3, <2>2
  <1> QED
    BY <1>2, <1>3, <1>4, <1>5, <1>6

\* Regions lie one after the other.
LEMMA RegionsOrdered ==
  ASSUME NEW i \in Nat, NEW j \in Nat
  PROVE  /\ i <= j => Marking!Region(i) <= Marking!Region(j)
         /\ Marking!Region(i) < Marking!Region(j) => i < j
  <1> DEFINE a == Marking!Region(i)
             b == Marking!Region(j)
  <1>1. a \in Nat /\ b \in Nat /\ RegionBits * a <= i /\ i < RegionBits * a + RegionBits /\ RegionBits * b <= j /\ j < RegionBits * b + RegionBits
    BY Sizes, PartsAssumption DEF Marking!Region, RegionBits
  <1>2. \A m, n \in Nat : m < n => RegionBits * m + RegionBits <= RegionBits * n
    BY Sizes
  <1> HIDE DEF a, b
  <1>3. a < b => i < j
    BY <1>1, <1>2, Sizes
  <1>4. b < a => j < i
    BY <1>1, <1>2, Sizes
  <1>5. i <= j => a <= b
    BY <1>1, <1>4
  <1> QED
    BY <1>3, <1>5 DEF a, b

LEMMA SamePlace ==
  ASSUME NEW i \in Nat, NEW j \in Nat, Marking!Region(i) = Marking!Region(j), Marking!Bit(i) = Marking!Bit(j)
  PROVE  i = j
  <1>1. Marking!ByteOf(i) = Marking!ByteOf(j) /\ Marking!BitPos(i) = Marking!BitPos(j)
    BY DEF Marking!Bit
  <1> QED
    BY <1>1, Places

\* The first byte boundary is the end of the range, or one.
LEMMA SetBegin ==
  ASSUME NEW o \in Nat, NEW l \in Nat, l > 0
  PROVE  /\ Marking!setBegin(o, l) \in o .. (o + l)
         /\ Marking!setBegin(o, l) < o + l => Marking!BitPos(Marking!setBegin(o, l)) = 0
  <1> DEFINE S == {i \in o .. (o + l - 1) : Marking!BitPos(i) = 0} \cup {o + l}
             b == IF o % 8 = 0 THEN o ELSE o + 8 - (o % 8)
  <1>1. b \in Nat /\ b >= o /\ b % 8 = 0
    OBVIOUS
  <1>2. \A i \in Nat : i >= o /\ i % 8 = 0 => i >= b
    OBVIOUS
  <1>3. S \subseteq o .. (o + l) /\ o + l \in S
    OBVIOUS
  <1>4. \A i \in S : i < o + l => i % 8 = 0 /\ Marking!BitPos(i) = 0
    BY Places
  <1>5. b < o + l => b \in S
    <2>1. Marking!BitPos(b) = 0
      BY <1>1, Places
    <2> QED
      BY <1>1, <2>1
  <1> HIDE DEF b, S
  <1>6. \E i \in S : \A j \in S : i <= j
    <2>1. CASE b < o + l
      <3>1. \A j \in S : b <= j
        BY <1>1, <1>2, <1>3, <1>4, <2>1
      <3> QED
        BY <1>5, <2>1, <3>1
    <2>2. CASE ~(b < o + l)
      <3>1. \A j \in S : o + l <= j
        BY <1>1, <1>2, <1>3, <1>4, <2>2
      <3> QED
        BY <1>3, <3>1
    <2> QED
      BY <2>1, <2>2
  <1>7. Marking!Smallest(S) \in S
    BY <1>6 DEF Marking!Smallest
  <1>8. Marking!setBegin(o, l) = Marking!Smallest(S)
    BY DEF Marking!setBegin, S
  <1> QED
    BY <1>3, <1>4, <1>7, <1>8

\* The last byte boundary, if there is one.
LEMMA SetEnd ==
  ASSUME NEW o \in Nat, NEW l \in Nat, l > 0, ~Marking!NoEnd(o, l)
  PROVE  /\ Marking!setEnd(o, l) \in o .. (o + l - 1)
         /\ Marking!BitPos(Marking!setEnd(o, l)) = 7
  <1> DEFINE S == {i \in o .. (o + l - 1) : Marking!BitPos(i) = 7}
             m == o + l - 1
             e == IF m % 8 = 7 THEN m ELSE m - (m % 8) - 1
  <1>1. m \in Nat
    OBVIOUS
  <1>2. \A i \in Nat : i <= m /\ i % 8 = 7 => i <= e
    <2> SUFFICES ASSUME NEW i \in Nat, i <= m, i % 8 = 7 PROVE i <= e
      OBVIOUS
    <2>1. i = 8 * (i \div 8) + 7 /\ i \div 8 \in Nat
      OBVIOUS
    <2> HIDE DEF m
    <2>2. m = 8 * (m \div 8) + (m % 8) /\ m \div 8 \in Nat /\ m % 8 \in 0 .. 7
      BY <1>1, ByEight
    <2> QED
      BY <1>1, <2>1, <2>2
  <1>3. e \in Nat => e <= m /\ e % 8 = 7
    BY <1>1
  <1>4. \A i \in S : i \in Nat /\ o <= i /\ i <= m /\ i % 8 = 7 /\ Marking!BitPos(i) = 7
    BY Places
  <1>5. PICK i \in S : TRUE
    BY DEF Marking!NoEnd
  <1>6. e \in Int
    BY <1>1
  <1>7. e \in S
    <2>1. e >= o /\ e \in Nat
      BY <1>2, <1>4, <1>5, <1>6
    <2>2. Marking!BitPos(e) = 7 /\ e <= m
      BY <1>3, <2>1, Places
    <2> QED
      BY <2>1, <2>2
  <1> HIDE DEF e, S, m
  <1>8. \A j \in S : j <= e
    BY <1>2, <1>4
  <1>9. Marking!Largest(S) \in S
    BY <1>7, <1>8 DEF Marking!Largest
  <1>10. Marking!setEnd(o, l) = Marking!Largest(S)
    BY DEF Marking!setEnd, S
  <1> QED
    BY <1>9, <1>10 DEF S

\* How far sectors of one region are apart.
LEMMA SameRegion ==
  ASSUME NEW i \in Nat, NEW j \in Nat, Marking!Region(i) = Marking!Region(j)
  PROVE  i - j = 8 * (Marking!ByteOf(i) - Marking!ByteOf(j)) + Marking!BitPos(i) - Marking!BitPos(j)
  <1> DEFINE n == RegionBits * Marking!Region(i)
             a == Marking!ByteOf(i)
             b == Marking!ByteOf(j)
             u == Marking!BitPos(i)
             v == Marking!BitPos(j)
  <1>1. i = n + 8 * a + u /\ j = n + 8 * b + v
    BY Places
  <1>2. a \in Nat /\ b \in Nat /\ u \in 0 .. 7 /\ v \in 0 .. 7 /\ Marking!Region(i) \in Nat
    BY Places
  <1>3. n \in Nat
    BY <1>2, Sizes
  <1> HIDE DEF n, a, b, u, v
  <1>4. i - j = 8 * (a - b) + u - v
    BY <1>1, <1>2, <1>3
  <1> QED
    BY <1>4 DEF a, b, u, v

\* memset fills the bits of the sectors between two byte boundaries.
LEMMA BytesBetween ==
  ASSUME NEW b \in Nat, NEW e \in Nat, b <= e, Marking!BitPos(b) = 0, Marking!BitPos(e) = 7, NEW i \in Nat
  PROVE  /\ Marking!Region(i) \in Marking!Region(b) .. Marking!Region(e)
         /\ Marking!ByteOf(i) \in Marking!Bytes(b, e, Marking!Region(i))
         <=> i \in b .. e
  <1> DEFINE ri == Marking!Region(i)
             rb == Marking!Region(b)
             re == Marking!Region(e)
             yi == Marking!ByteOf(i)
             yb == Marking!ByteOf(b)
             ye == Marking!ByteOf(e)
             u == Marking!BitPos(i)
  <1>1. /\ ri \in Nat /\ rb \in Nat /\ re \in Nat /\ yi \in Nat /\ yb \in Nat /\ ye \in Nat /\ u \in 0 .. 7
        /\ yi <= RegionSize - 1
    BY Places
  <1>2. /\ ri = rb => i - b = 8 * (yi - yb) + u
        /\ ri = re => i - e = 8 * (yi - ye) + u - 7
    <2>1. ri = rb => i - b = 8 * (yi - yb) + u - 0
      BY SameRegion
    <2>2. ri = re => i - e = 8 * (yi - ye) + u - 7
      BY SameRegion
    <2> QED
      BY <1>1, <2>1, <2>2
  <1>3. /\ i <= b => ri <= rb
        /\ b <= i => rb <= ri
        /\ i <= e => ri <= re
        /\ e <= i => re <= ri
    BY RegionsOrdered
  <1>4. Marking!Bytes(b, e, ri) = (IF ri = rb THEN yb ELSE 0) .. (IF ri = re THEN ye ELSE RegionSize - 1)
    BY DEF Marking!Bytes
  <1> HIDE DEF ri, rb, re, yi, yb, ye, u
  <1>5. ri \in rb .. re /\ yi \in Marking!Bytes(b, e, ri) <=> i \in b .. e
    <2>1. CASE ri = rb
      BY <1>1, <1>2, <1>3, <1>4, <2>1, Sizes
    <2>2. CASE ri = re
      BY <1>1, <1>2, <1>3, <1>4, <2>2, Sizes
    <2>3. CASE ri # rb /\ ri # re
      BY <1>1, <1>2, <1>3, <1>4, <2>3, Sizes
    <2> QED
      BY <2>1, <2>2, <2>3
  <1> QED
    BY <1>5 DEF ri, rb, re, yi

\* The bits of a region.
Block == (0 .. (RegionSize - 1)) \X (0 .. 7)

LEMMA BitInBlock ==
  ASSUME NEW i \in Nat PROVE Marking!Bit(i) \in Block
  BY Places, Sizes DEF Marking!Bit, Block

\* Head bits, tail bits and whole bytes are together the bits of the range.
LEMMA BitsOfRange ==
  ASSUME NEW o \in Nat, NEW l \in Nat, l > 0, NEW i \in Nat
  PROVE  <<Marking!Region(i), Marking!Bit(i)>> \in Marking!SetBits(o, l) <=> i \in o .. (o + l - 1)
  <1> DEFINE b == Marking!setBegin(o, l)
             e == Marking!setEnd(o, l)
             place == <<Marking!Region(i), Marking!Bit(i)>>
             from == IF Marking!NoEnd(o, l) THEN o ELSE e + 1
  <1>1. b \in o .. (o + l) /\ b \in Nat /\ (b < o + l => Marking!BitPos(b) = 0)
    BY SetBegin
  <1>2. ~Marking!NoEnd(o, l) => e \in o .. (o + l - 1) /\ e \in Nat /\ Marking!BitPos(e) = 7
    BY SetEnd
  <1>3. from \in Nat /\ from >= o
    BY <1>2
  <1>4. place \in Marking!HeadBits(o, l) <=> i \in o .. (b - 1)
    <2>1. place \in Marking!HeadBits(o, l) <=> \E j \in o .. (b - 1) : place = <<Marking!Region(j), Marking!Bit(j)>>
      BY DEF Marking!HeadBits
    <2>2. \A j \in o .. (b - 1) : place = <<Marking!Region(j), Marking!Bit(j)>> => i = j
      BY <1>1, SamePlace
    <2> HIDE DEF b
    <2> QED
      BY <2>1, <2>2
  <1>5. place \in Marking!TailBits(o, l) <=> b # o + l /\ i \in from .. (o + l - 1)
    <2>1. place \in Marking!TailBits(o, l)
            <=> b # o + l /\ \E j \in from .. (o + l - 1) : place = <<Marking!Region(j), Marking!Bit(j)>>
      BY DEF Marking!TailBits
    <2>2. \A j \in from .. (o + l - 1) : place = <<Marking!Region(j), Marking!Bit(j)>> => i = j
      <3> HIDE DEF from
      <3> QED
        BY <1>3, SamePlace
    <2> HIDE DEF b, from
    <2> QED
      BY <2>1, <2>2
  <1>6. place \in Marking!ByteBits(o, l)
          <=> b # o + l /\ ~Marking!NoEnd(o, l) /\ i \in b .. e
    <2>1. CASE b = o + l \/ Marking!NoEnd(o, l) \/ e < b
      BY <1>1, <1>2, <2>1 DEF Marking!ByteBits
    <2>2. CASE ~(b = o + l \/ Marking!NoEnd(o, l) \/ e < b)
      <3>1. Marking!ByteBits(o, l)
              = UNION {{g} \X (Marking!Bytes(b, e, g) \X (0 .. 7)) : g \in Marking!Region(b) .. Marking!Region(e)}
        BY <2>2 DEF Marking!ByteBits
      <3>2. place \in Marking!ByteBits(o, l)
              <=> /\ Marking!Region(i) \in Marking!Region(b) .. Marking!Region(e)
                  /\ Marking!Bit(i) \in Marking!Bytes(b, e, Marking!Region(i)) \X (0 .. 7)
        <4> HIDE DEF b, e
        <4> QED
          BY <3>1
      <3>3. Marking!Bit(i) \in Marking!Bytes(b, e, Marking!Region(i)) \X (0 .. 7)
              <=> Marking!ByteOf(i) \in Marking!Bytes(b, e, Marking!Region(i))
        <4> HIDE DEF b, e
        <4> QED
          BY Places DEF Marking!Bit
      <3>4. b <= e /\ Marking!BitPos(b) = 0 /\ Marking!BitPos(e) = 7 /\ b \in Nat /\ e \in Nat
        BY <1>1, <1>2, <2>2
      <3> HIDE DEF b, e
      <3> QED
        BY <2>2, <3>2, <3>3, <3>4, BytesBetween
    <2> QED
      BY <2>1, <2>2
  <1>7. i \in o .. (o + l - 1)
          <=> \/ i \in o .. (b - 1)
              \/ b # o + l /\ i \in from .. (o + l - 1)
              \/ b # o + l /\ ~Marking!NoEnd(o, l) /\ i \in b .. e
    <2> HIDE DEF b, e
    <2> QED
      BY <1>1, <1>2
  <1> HIDE DEF b, e, place, from
  <1>8. place \in Marking!SetBits(o, l) <=> i \in o .. (o + l - 1)
    BY <1>4, <1>5, <1>6, <1>7 DEF Marking!SetBits
  <1> QED
    BY <1>8 DEF place

LEMMA BitsInBlock ==
  ASSUME NEW o \in Nat, NEW l \in Nat, l > 0, NEW p \in Marking!SetBits(o, l)
  PROVE  p = <<p[1], p[2]>> /\ p[2] \in Block
  <1> DEFINE b == Marking!setBegin(o, l)
             e == Marking!setEnd(o, l)
  <1>1. b \in Nat
    BY SetBegin
  <1>2. ~Marking!NoEnd(o, l) => e \in Nat
    BY SetEnd
  <1>3. CASE p \in Marking!HeadBits(o, l)
    BY <1>1, <1>3, BitInBlock DEF Marking!HeadBits
  <1>4. CASE p \in Marking!TailBits(o, l)
    <2>1. PICK j \in (IF Marking!NoEnd(o, l) THEN o ELSE e + 1) .. (o + l - 1) :
              p = <<Marking!Region(j), Marking!Bit(j)>>
      BY <1>4 DEF Marking!TailBits
    <2>2. j \in Nat
      BY <1>2, <2>1
    <2> QED
      BY <2>1, <2>2, BitInBlock
  <1>5. CASE p \in Marking!ByteBits(o, l)
    <2>1. ~Marking!NoEnd(o, l)
      BY <1>5 DEF Marking!ByteBits
    <2>2. PICK g \in Marking!Region(b) .. Marking!Region(e) : p \in {g} \X (Marking!Bytes(b, e, g) \X (0 .. 7))
      BY <1>5 DEF Marking!ByteBits
    <2>3. Marking!Bytes(b, e, g) \subseteq 0 .. (RegionSize - 1)
      <3> HIDE DEF b, e
      <3>1. \A i \in Nat : Marking!ByteOf(i) \in Nat /\ Marking!ByteOf(i) <= RegionSize - 1
        BY Places
      <3> QED
        BY <1>1, <1>2, <2>1, <3>1, Sizes DEF Marking!Bytes
    <2> HIDE DEF b, e
    <2> QED
      BY <2>2, <2>3 DEF Block
  <1> QED
    BY <1>3, <1>4, <1>5 DEF Marking!SetBits

LEMMA RegionInBounds ==
  ASSUME NEW i \in Nat, i <= Total
  PROVE  Marking!Region(i) \in 0 .. (Marking!regionNumber - 1)
  <1>1. Marking!regionNumber = Marking!Region(Total) + 1
    BY DEF Marking!regionNumber, Marking!Region
  <1>2. Marking!Region(i) <= Marking!Region(Total) /\ Marking!Region(i) \in Nat /\ Marking!Region(Total) \in Nat
    BY RegionsOrdered, Places, Sizes
  <1> QED
    BY <1>1, <1>2

\* The inductive invariant: each region is a block of bits, or not allocated.
BitmapTypes == Bitmap \in [0 .. (Marking!regionNumber - 1) -> {Null} \cup SUBSET Block]

LEMMA BlockNotNull == \A block \in SUBSET Block : block # Null
  BY PartsAssumption DEF Marking!BitmapAssumption, Block

LEMMA RangeFacts ==
  ASSUME NEW q \in Marking!Requests
  PROVE  q[1] \in Nat /\ q[2] \in Nat /\ q[2] > 0 /\ q[1] + q[2] <= Total
  <1>1. q[1] \in Offsets /\ q[2] \in Lengths /\ q[1] + q[2] <= Total
    BY DEF Marking!Requests
  <1>2. Offsets \subseteq Nat /\ Lengths \subseteq Nat \ {0}
    BY PartsAssumption DEF Marking!BitmapAssumption
  <1>3. q[1] \in Nat
    BY <1>1, <1>2
  <1>4. q[2] \in Nat \ {0}
    BY <1>1, <1>2
  <1> QED
    BY <1>1, <1>3, <1>4

\* What allocation does to a region, and what it leaves.
LEMMA AllocationKeeps ==
  ASSUME BitmapTypes, NEW o \in Nat, NEW l \in Nat, NEW k
  PROVE  LET B == Marking!Allocated(o, l, k)
         IN  /\ B \in [0 .. (Marking!regionNumber - 1) -> {Null} \cup SUBSET Block]
             /\ \A g \in 0 .. (Marking!regionNumber - 1) :
                   /\ B[g] # Bitmap[g] => Bitmap[g] = Null /\ B[g] = {}
                   /\ g \in Marking!Touched(o, l) /\ g < k => B[g] # Null
  BY BlockNotNull DEF Marking!Allocated, BitmapTypes

LEMMA MarkStep ==
  ASSUME BitmapTypes, NEW o \in Nat, NEW l \in Nat, l > 0, o + l <= Total, Marking!DPBitmapSet(o, l)
  PROVE  BitmapTypes' /\ Marking!marked' = Marking!marked \cup (o .. (o + l - 1))
  <1> DEFINE G == 0 .. (Marking!regionNumber - 1)
             B == Marking!Allocated(o, l, Marking!Region(o + l) + 1)
             New(g) == {q[2] : q \in {p \in Marking!SetBits(o, l) : p[1] = g}}
  <1>1. /\ B \in [G -> {Null} \cup SUBSET Block]
        /\ \A g \in G : B[g] # Bitmap[g] => Bitmap[g] = Null /\ B[g] = {}
        /\ \A g \in G : g \in Marking!Touched(o, l) /\ g < Marking!Region(o + l) + 1 => B[g] # Null
    BY AllocationKeeps
  <1>2. Bitmap' = [g \in DOMAIN B |-> IF B[g] = Null THEN Null ELSE B[g] \cup New(g)]
    BY DEF Marking!DPBitmapSet
  <1>3. \A g : New(g) \subseteq Block
    BY BitsInBlock
  <1> HIDE DEF B
  <1>4. BitmapTypes'
    <2> HIDE DEF New
    <2> QED
      BY <1>1, <1>2, <1>3 DEF BitmapTypes
  <1>5. ASSUME NEW i \in 0 .. (Total - 1)
        PROVE  Marking!IsSet(i)' <=> Marking!IsSet(i) \/ i \in o .. (o + l - 1)
    <2> DEFINE g == Marking!Region(i)
               bit == Marking!Bit(i)
    <2>1. i \in Nat /\ g \in G
      BY RegionInBounds, Sizes
    <2>2. bit \in New(g) <=> i \in o .. (o + l - 1)
      <3>1. <<g, bit>> \in Marking!SetBits(o, l) <=> i \in o .. (o + l - 1)
        BY <2>1, BitsOfRange
      <3>2. \A p \in Marking!SetBits(o, l) : p = <<p[1], p[2]>>
        BY BitsInBlock
      <3> HIDE DEF g, bit
      <3> QED
        BY <3>1, <3>2
    <2>3. i \in o .. (o + l - 1) => B[g] # Null
      <3>1. ASSUME i \in o .. (o + l - 1)
            PROVE  Marking!Region(o) <= g /\ g <= Marking!Region(o + l) /\ g \in Nat
                   /\ Marking!Region(o) \in Nat /\ Marking!Region(o + l) \in Nat
        <4>1. o <= i /\ i <= o + l /\ o + l \in Nat
          BY <3>1
        <4> QED
          BY <2>1, <4>1, RegionsOrdered, Places
      <3> HIDE DEF g
      <3> QED
        BY <1>1, <2>1, <3>1 DEF Marking!Touched
    <2>4. Bitmap'[g] = IF B[g] = Null THEN Null ELSE B[g] \cup New(g)
      <3> HIDE DEF New, g
      <3> QED
        BY <1>1, <1>2, <2>1
    <2>5. B[g] # Null => B[g] \cup New(g) # Null
      <3> HIDE DEF New, g
      <3> QED
        BY <1>1, <1>3, <2>1, BlockNotNull
    <2>6. Marking!IsSet(i)' <=> Bitmap'[g] # Null /\ bit \in Bitmap'[g]
      BY DEF Marking!IsSet
    <2>7. Marking!IsSet(i) <=> Bitmap[g] # Null /\ bit \in Bitmap[g]
      BY DEF Marking!IsSet
    <2>8. {} # Null
      BY BlockNotNull
    <2> HIDE DEF New, g, bit
    <2> QED
      BY <1>1, <2>1, <2>2, <2>3, <2>4, <2>5, <2>6, <2>7, <2>8
  <1>6. o .. (o + l - 1) \subseteq 0 .. (Total - 1)
    BY Sizes
  <1> QED
    BY <1>4, <1>5, <1>6 DEF Marking!marked

LEMMA FailStep ==
  ASSUME BitmapTypes, NEW o \in Nat, NEW l \in Nat, Marking!DPBitmapSetFails(o, l)
  PROVE  BitmapTypes' /\ Marking!marked' = Marking!marked
  <1>1. PICK k : Bitmap' = Marking!Allocated(o, l, k)
    BY DEF Marking!DPBitmapSetFails
  <1>2. /\ BitmapTypes'
        /\ \A g \in 0 .. (Marking!regionNumber - 1) : Bitmap'[g] # Bitmap[g] => Bitmap[g] = Null /\ Bitmap'[g] = {}
    BY <1>1, AllocationKeeps DEF BitmapTypes
  <1>3. ASSUME NEW i \in 0 .. (Total - 1) PROVE Marking!IsSet(i)' <=> Marking!IsSet(i)
    <2>1. Marking!Region(i) \in 0 .. (Marking!regionNumber - 1)
      BY RegionInBounds, Sizes
    <2> QED
      BY <1>2, <2>1 DEF Marking!IsSet
  <1> QED
    BY <1>2, <1>3 DEF Marking!marked

\* The answers of DPBitmapTest and DPBitmapGet.
LEMMA MarksAlwaysExact ==
  ASSUME BitmapTypes PROVE Marking!MarksExact
  <1>1. DOMAIN Bitmap = 0 .. (Marking!regionNumber - 1)
    BY DEF BitmapTypes
  <1>2. Marking!RegionsInBounds
    <2> SUFFICES ASSUME NEW q \in Marking!Requests PROVE Marking!Touched(q[1], q[2]) \subseteq DOMAIN Bitmap
      BY DEF Marking!RegionsInBounds
    <2>1. q[1] \in Nat /\ q[1] + q[2] \in Nat /\ q[1] <= Total /\ q[1] + q[2] <= Total
      BY RangeFacts, Sizes
    <2>2. Marking!Region(q[1]) \in 0 .. (Marking!regionNumber - 1)
      BY <2>1, RegionInBounds
    <2>3. Marking!Region(q[1] + q[2]) \in 0 .. (Marking!regionNumber - 1)
      BY <2>1, RegionInBounds
    <2>4. Marking!regionNumber \in Nat
      BY Sizes DEF Marking!regionNumber, RegionBits
    <2> QED
      BY <1>1, <2>2, <2>3, <2>4 DEF Marking!Touched
  <1>3. ASSUME NEW q \in Marking!Requests
        PROVE  LET R == q[1] .. (q[1] + q[2] - 1)
                   t == Marking!DPBitmapTest(q[1], q[2])
               IN  /\ t = "SET"   <=> R \subseteq Marking!marked
                   /\ t = "CLEAR" <=> R \cap Marking!marked = {}
                   /\ t = "BLEND" => Marking!DPBitmapGet(q[1], q[2]) \notin {{}, R}
    <2> DEFINE o == q[1]
               l == q[2]
               R == o .. (o + l - 1)
               F == Marking!Flags(o, l)
    <2>1. o \in Nat /\ l \in Nat /\ l > 0 /\ o + l <= Total
      BY RangeFacts
    <2>2. ~(o + l > Marking!bitmapReferSize)
      <3>1. Marking!bitmapReferSize = RegionBits * (Total \div RegionBits) + RegionBits
        BY Sizes DEF Marking!bitmapReferSize, Marking!regionNumber, RegionBits
      <3>2. Total < RegionBits * (Total \div RegionBits) + RegionBits
        BY Sizes
      <3>3. RegionBits * (Total \div RegionBits) + RegionBits \in Nat
        BY Sizes
      <3> HIDE DEF o, l
      <3> QED
        BY <2>1, <3>1, <3>2, <3>3, Sizes
    <2>3. o \in R /\ R \subseteq 0 .. (Total - 1)
      BY <2>1, Sizes
    <2>4. /\ 2 \in F <=> \E i \in R : Marking!IsSet(i)
          /\ 1 \in F <=> \E i \in R : ~Marking!IsSet(i)
          /\ F \subseteq {1, 2}
      BY DEF Marking!Flags
    <2>5. \A i \in R : i \in Marking!marked <=> Marking!IsSet(i)
      BY <2>3 DEF Marking!marked
    <2>6. Marking!DPBitmapTest(o, l) = CASE F = {2} -> "SET"
                                         [] F = {1} -> "CLEAR"
                                         [] F = {1, 2} -> "BLEND"
                                         [] OTHER -> "UNKNOW"
      BY <2>2 DEF Marking!DPBitmapTest
    <2>7. Marking!DPBitmapGet(o, l) = {i \in R : Marking!IsSet(i)}
      BY DEF Marking!DPBitmapGet
    <2> HIDE DEF F, R
    <2>8. /\ F = {2} <=> R \subseteq Marking!marked
          /\ F = {1} <=> R \cap Marking!marked = {}
          /\ F = {1, 2} => {i \in R : Marking!IsSet(i)} \notin {{}, R}
      <3>1. /\ F = {2} <=> 1 \notin F
            /\ F = {1} <=> 2 \notin F
        <4>1. 1 \in F \/ 2 \in F
          BY <2>3, <2>4
        <4>2. F \subseteq {1, 2}
          BY <2>4
        <4> HIDE DEF F
        <4>3. ASSUME 1 \notin F PROVE F = {2}
          BY <4>1, <4>2, <4>3
        <4>4. ASSUME 2 \notin F PROVE F = {1}
          BY <4>1, <4>2, <4>4
        <4>5. F = {2} => 1 \notin F
          OBVIOUS
        <4>6. F = {1} => 2 \notin F
          OBVIOUS
        <4> QED
          BY <4>3, <4>4, <4>5, <4>6
      <3>2. 1 \notin F <=> R \subseteq Marking!marked
        BY <2>4, <2>5
      <3>3. 2 \notin F <=> R \cap Marking!marked = {}
        BY <2>4, <2>5
      <3>4. 1 \in F /\ 2 \in F => {i \in R : Marking!IsSet(i)} \notin {{}, R}
        BY <2>4
      <3> QED
        BY <3>1, <3>2, <3>3, <3>4
    <2>9. /\ Marking!DPBitmapTest(o, l) = "SET" <=> F = {2}
          /\ Marking!DPBitmapTest(o, l) = "CLEAR" <=> F = {1}
          /\ Marking!DPBitmapTest(o, l) = "BLEND" => F = {1, 2}
      <3>1. {1} # {2} /\ {1} # {1, 2} /\ {2} # {1, 2}
        OBVIOUS
      <3> QED
        BY <2>6, <3>1
    <2> QED
      BY <2>7, <2>8, <2>9 DEF R
  <1> QED
    BY <1>2, <1>3 DEF Marking!MarksExact, Marking!TestMatchesMarks

LEMMA BitmapStep ==
  ASSUME BitmapTypes, Marking!Next
  PROVE  BitmapTypes' /\ Marking!Marks!Next
  <1>1. PICK q \in Marking!Requests :
            Marking!DPBitmapSet(q[1], q[2]) \/ Marking!DPBitmapSetFails(q[1], q[2])
    BY DEF Marking!Next
  <1>2. q[1] \in Nat /\ q[2] \in Nat /\ q[2] > 0 /\ q[1] + q[2] <= Total
    BY RangeFacts
  <1>3. CASE Marking!DPBitmapSet(q[1], q[2])
    <2>1. BitmapTypes' /\ Marking!marked' = Marking!marked \cup (q[1] .. (q[1] + q[2] - 1))
      BY <1>2, <1>3, MarkStep
    <2>2. status' = "success"
      BY <1>3 DEF Marking!DPBitmapSet
    <2> QED
      BY <2>1, <2>2 DEF Marking!Marks!Next, Marking!Marks!Mark, Marking!Marks!Range
  <1>4. CASE Marking!DPBitmapSetFails(q[1], q[2])
    <2>1. BitmapTypes' /\ Marking!marked' = Marking!marked
      BY <1>2, <1>4, FailStep
    <2>2. status' = "insufficient"
      BY <1>4 DEF Marking!DPBitmapSetFails
    <2> QED
      BY <2>1, <2>2 DEF Marking!Marks!Next, Marking!Marks!Fail
  <1> QED
    BY <1>1, <1>3, <1>4

LEMMA BitmapInit ==
  ASSUME Marking!Init PROVE BitmapTypes /\ Marking!Marks!Init
  <1>1. BitmapTypes
    BY DEF Marking!Init, BitmapTypes
  <1>2. ASSUME NEW i \in 0 .. (Total - 1) PROVE ~Marking!IsSet(i)
    <2>1. Marking!Region(i) \in 0 .. (Marking!regionNumber - 1)
      BY RegionInBounds, Sizes
    <2> QED
      BY <2>1 DEF Marking!Init, Marking!IsSet
  <1> QED
    BY <1>1, <1>2 DEF Marking!Init, Marking!marked, Marking!Marks!Init

\* DPBitmapSet marks exactly the range asked for, or nothing of it when a region
\* cannot be allocated, across byte and region boundaries; DPBitmapTest answers what
\* the marks say, and no range leads out of the regions: whatever the sizes of region
\* and volume are (DPBitmap.c).
THEOREM BitmapKeepsPromise == MCSpec => BitmapPromise
  <1>1. MCInit => BitmapTypes /\ Marking!Marks!Init
    BY BitmapInit DEF MCInit
  <1>2. BitmapTypes /\ [MCNext]_allVars => BitmapTypes'
    BY BitmapStep DEF MCNext, allVars, bitmapVars, BitmapTypes
  <1>3. BitmapTypes /\ [MCNext]_allVars
          => [part = "bitmap" => [Marking!Marks!Next]_<<Marking!marked, status>>]_allVars
    BY BitmapStep DEF MCNext
  <1>4. BitmapTypes => (part = "bitmap" => Marking!MarksExact)
    BY MarksAlwaysExact
  <1> QED
    BY <1>1, <1>2, <1>3, <1>4, PTL DEF MCSpec, BitmapPromise

-----------------------------------------------------------------------------
(* Coworker: strings between user threads.                                 *)

\* With a second receiver a string may be stranded: two strings set the one
\* event once.
OneReceiver == \A s, t \in Receivers : s = t

\* What is on its way into the list and out of it fits.
OnItsWay ==
    /\ \A t \in Senders : /\ qPc[t] \in {"idle", "insert", "signal"}
                          /\ qPc[t] = "insert" => arg[t] < CWK_STR_LEN_MAX
    /\ \A t \in Receivers : /\ qPc[t] \in {"idle", "remove", "wait"}
                            /\ qPc[t] # "idle" => reply[t][1] >= CWK_STR_LEN_MAX

Fitting == Queue!TypeOK /\ Queue!RepliesFit /\ OnItsWay

LEMMA FittingStep ==
  ASSUME Fitting, [Queue!Next]_(Queue!vars) PROVE Fitting'
  <1> USE PartsAssumption
          DEF Queue!CoworkerAssumption, Fitting, Queue!TypeOK, Queue!RepliesFit, OnItsWay,
              Queue!Callers
  <1>1. ASSUME NEW t \in Senders, Queue!Send(t) PROVE Fitting'
    <2>1. PICK b \in Buffers : Queue!Accepted(b) /\ arg' = [arg EXCEPT ![t] = b[2]]
      BY <1>1 DEF Queue!Send
    <2>2. b \in Nat \X Nat /\ b[2] \in Nat /\ b[2] < CWK_STR_LEN_MAX
      BY <2>1 DEF Queue!Accepted, Queue!Rejected
    <2> QED
      BY <1>1, <2>1, <2>2 DEF Queue!Send
  <1>2. ASSUME NEW t \in Senders, Queue!Insert(t) PROVE Fitting'
    <2>1. arg[t] \in Nat /\ arg[t] < CWK_STR_LEN_MAX
      BY <1>2 DEF Queue!Insert
    <2>2. list' \in Seq(Nat) /\ Len(list') = Len(list) + 1
      BY <1>2, <2>1 DEF Queue!Insert
    <2>3. \A i \in 1 .. Len(list') : list'[i] = IF i = Len(list) + 1 THEN arg[t] ELSE list[i]
      BY <1>2, <2>1 DEF Queue!Insert
    <2> QED
      BY <1>2, <2>1, <2>2, <2>3 DEF Queue!Insert
  <1>3. ASSUME NEW t \in Senders, Queue!Signal(t) PROVE Fitting'
    BY <1>3 DEF Queue!Signal
  <1>4. ASSUME NEW t \in Receivers, Queue!Recv(t) PROVE Fitting'
    <2>1. PICK n \in OutLens : n >= CWK_STR_LEN_MAX /\ reply' = [reply EXCEPT ![t] = <<n, 0>>]
      BY <1>4 DEF Queue!Recv
    <2> QED
      BY <1>4, <2>1 DEF Queue!Recv
  <1>5. ASSUME NEW t \in Receivers, Queue!Wait(t) PROVE Fitting'
    BY <1>5 DEF Queue!Wait
  <1>6. ASSUME NEW t \in Receivers, Queue!Remove(t) PROVE Fitting'
    <2>1. CASE list = <<>>
      BY <1>6, <2>1 DEF Queue!Remove
    <2>2. CASE list # <<>>
      <3>1. /\ list' = Tail(list) /\ reply' = [reply EXCEPT ![t][2] = Head(list) + 1]
            /\ qPc' = [qPc EXCEPT ![t] = "idle"] /\ qPc[t] = "remove"
            /\ UNCHANGED <<qEvent, arg, loaded>>
        BY <1>6, <2>2 DEF Queue!Remove
      <3>2. Head(list) \in Nat /\ Head(list) < CWK_STR_LEN_MAX /\ Len(list) \in Nat /\ Len(list) > 0
        BY <2>2
      <3>3. /\ Tail(list) \in Seq(Nat)
            /\ \A i \in 1 .. Len(Tail(list)) : Tail(list)[i] < CWK_STR_LEN_MAX
        BY <2>2, <3>2
      <3>4. reply'[t] = <<reply[t][1], Head(list) + 1>> /\ \A s \in Receivers \ {t} : reply'[s] = reply[s]
        BY <3>1
      <3>5. reply' \in [Receivers -> Nat \X Nat]
        BY <3>1, <3>2, <3>4
      <3>6. \A s \in Receivers : reply'[s][2] <= reply'[s][1] /\ reply'[s][1] = reply[s][1]
        BY <3>1, <3>2, <3>4
      <3>7. Queue!TypeOK'
        BY <3>1, <3>3, <3>5
      <3>8. Queue!RepliesFit'
        BY <3>1, <3>3, <3>6
      <3>9. OnItsWay'
        BY <3>1, <3>6
      <3> QED
        BY <3>7, <3>8, <3>9
    <2> QED
      BY <2>1, <2>2
  <1>7. CASE Queue!Unload
    <2>1. list' = <<>> /\ <<>> \in Seq(Nat) /\ Len(<<>>) = 0
      BY <1>7 DEF Queue!Unload
    <2>2. \A i \in 1 .. Len(list') : list'[i] < CWK_STR_LEN_MAX
      BY <2>1
    <2> QED
      BY <1>7, <2>1, <2>2 DEF Queue!Unload
  <1>8. CASE UNCHANGED Queue!vars
    BY <1>8 DEF Queue!vars
  <1> QED
    BY <1>1, <1>2, <1>3, <1>4, <1>5, <1>6, <1>7, <1>8
       DEF Queue!Next, Queue!SendStr, Queue!RecvStr

LEMMA StrandedStep ==
  ASSUME OneReceiver, Fitting, Queue!NoStrandedString, [Queue!Next]_(Queue!vars)
  PROVE  Queue!NoStrandedString'
  <1> USE PartsAssumption
          DEF Queue!CoworkerAssumption, OneReceiver, Fitting, Queue!TypeOK, OnItsWay, Queue!Callers,
              Queue!NoStrandedString
  <1>1. ASSUME NEW t \in Senders, Queue!Send(t) PROVE Queue!NoStrandedString'
    BY <1>1 DEF Queue!Send
  <1>2. ASSUME NEW t \in Senders, Queue!Insert(t) PROVE Queue!NoStrandedString'
    BY <1>2 DEF Queue!Insert
  <1>3. ASSUME NEW t \in Senders, Queue!Signal(t) PROVE Queue!NoStrandedString'
    BY <1>3 DEF Queue!Signal
  <1>4. ASSUME NEW t \in Receivers, Queue!Recv(t) PROVE Queue!NoStrandedString'
    BY <1>4 DEF Queue!Recv
  <1>5. ASSUME NEW t \in Receivers, Queue!Wait(t) PROVE Queue!NoStrandedString'
    BY <1>5 DEF Queue!Wait
  <1>6. ASSUME NEW t \in Receivers, Queue!Remove(t) PROVE Queue!NoStrandedString'
    BY <1>6 DEF Queue!Remove
  <1>7. CASE Queue!Unload
    BY <1>7 DEF Queue!Unload
  <1>8. CASE UNCHANGED Queue!vars
    BY <1>8 DEF Queue!vars
  <1> QED
    BY <1>1, <1>2, <1>3, <1>4, <1>5, <1>6, <1>7, <1>8
       DEF Queue!Next, Queue!SendStr, Queue!RecvStr

LEMMA QueueInit == Queue!Init => Fitting /\ Queue!NoStrandedString
  BY PartsAssumption
     DEF Queue!CoworkerAssumption, Queue!Init, Fitting, Queue!TypeOK, Queue!RepliesFit, OnItsWay,
     Queue!Callers, Queue!NoStrandedString

\* Whatever CWK_DVC_SEND_STR lets into the list fits its node and the buffer of
\* whoever receives it, with its terminator, for any number of receivers.
THEOREM RepliesAlwaysFit == Queue!Spec => [](Queue!TypeOK /\ Queue!RepliesFit)
  <1>1. Queue!Init => Fitting
    BY QueueInit
  <1>2. Fitting /\ [Queue!Next]_(Queue!vars) => Fitting'
    BY FittingStep
  <1>3. Fitting => Queue!TypeOK /\ Queue!RepliesFit
    BY DEF Fitting
  <1> QED
    BY <1>1, <1>2, <1>3, PTL DEF Queue!Spec

\* What is delivered fits, and no string waits beside the receiver while nobody
\* has set the event or is about to: of insert and set, look and wait, which are
\* two steps each, no order strands a string (coworker_sys.c:130-190).
THEOREM StringsAlwaysDelivered ==
  ASSUME OneReceiver PROVE Queue!Spec => []StringsDelivered
  <1> DEFINE Inv == Fitting /\ Queue!NoStrandedString
  <1>1. Queue!Init => Inv
    BY QueueInit
  <1>2. Inv /\ [Queue!Next]_(Queue!vars) => Inv'
    BY OneReceiver, FittingStep, StrandedStep
  <1>3. Inv => StringsDelivered
    BY DEF Fitting, StringsDelivered, Queue!StringsDelivered
  <1> QED
    BY <1>1, <1>2, <1>3, PTL DEF Queue!Spec

-----------------------------------------------------------------------------
(* Ctrl2cap: reads of keyboards, and the unload.                           *)

\* The reads that the counter counts, when no update was lost.
Counted == {k \in Keyboards : kPc[k] \in {"counted", "below", "uncount", "unstore"}}

\* The types.
KeysTypes ==
    /\ devices \subseteq Keyboards /\ walk \subseteq Keyboards
    /\ kPc \in [Keyboards -> {"idle", "count", "store", "counted", "below", "uncount",
                              "unstore", "return"}]
    /\ reg \in [Keyboards -> 0 .. (ULong - 1)]
    /\ gC2pKeyCount \in 0 .. (ULong - 1)
    /\ unload \in {"no", "detach", "wait", "done"}
    /\ raced \in BOOLEAN /\ reused \in BOOLEAN

\* While no two updates overlap, the one under way has loaded the count as it is.
KeysCounted ==
    ~raced =>
        /\ gC2pKeyCount = Cardinality(Counted)
        /\ \A j, k \in Keyboards :
              kPc[j] \in {"store", "unstore"} /\ kPc[k] \in {"store", "unstore"} => j = k
        /\ \A k \in Keyboards : kPc[k] \in {"store", "unstore"} => reg[k] = gC2pKeyCount

\* What is not yet detached is still to come.
KeysChained ==
    ~reused => /\ unload = "detach" => devices = walk
               /\ unload \in {"wait", "done"} => devices = {}

KeysInv == KeysTypes /\ KeysCounted /\ KeysChained

LEMMA KeysFinite ==
  /\ IsFiniteSet(Keyboards) /\ ULong \in Nat /\ Cardinality(Keyboards) \in Nat
  /\ Cardinality(Keyboards) < ULong
  <1>1. \A S : Keys!Cardinality(S) = Cardinality(S)
    BY DEF Keys!Cardinality, Cardinality
  <1>2. IsFiniteSet(Keyboards) /\ ULong \in Nat /\ Cardinality(Keyboards) < ULong
    BY <1>1, PartsAssumption DEF Keys!Ctrl2capAssumption, Keys!IsFiniteSet, IsFiniteSet
  <1> QED
    BY <1>2, FS_CardinalityType

LEMMA CountedFinite ==
  /\ IsFiniteSet(Counted) /\ Cardinality(Counted) \in Nat
  /\ Cardinality(Counted) <= Cardinality(Keyboards)
  /\ \A k \in Keyboards : k \notin Counted => Cardinality(Counted) + 1 <= Cardinality(Keyboards)
  <1>1. IsFiniteSet(Counted) /\ Cardinality(Counted) <= Cardinality(Keyboards)
    BY KeysFinite, FS_Subset DEF Counted
  <1>2. Cardinality(Counted) \in Nat
    BY <1>1, FS_CardinalityType
  <1>3. ASSUME NEW k \in Keyboards, k \notin Counted
        PROVE  Cardinality(Counted) + 1 <= Cardinality(Keyboards)
    <2>1. Cardinality(Counted \cup {k}) = Cardinality(Counted) + 1
      BY <1>1, <1>3, FS_AddElement
    <2>2. Counted \cup {k} \subseteq Keyboards
      BY DEF Counted
    <2> QED
      BY <2>1, <2>2, KeysFinite, FS_Subset
  <1> QED
    BY <1>1, <1>2, <1>3

\* ++ and -- of a counter that neither overflows nor goes below zero.
LEMMA Wrapping ==
  ASSUME NEW n \in Nat, NEW m \in Nat, n < m
  PROVE  /\ n % m = n
         /\ n > 0 => (n + m - 1) % m = n - 1
  <1>1. n % m = n
    OBVIOUS
  <1>2. ASSUME n > 0 PROVE (n + m - 1) % m = n - 1
    BY <1>2
  <1> QED
    BY <1>1, <1>2

LEMMA InRange ==
  ASSUME NEW n \in Nat PROVE n % ULong \in 0 .. (ULong - 1)
  <1>1. ULong > 0 /\ ULong \in Nat
    BY KeysFinite
  <1> QED
    BY <1>1

LEMMA KeysTypesStep ==
  ASSUME KeysTypes, [Keys!Next]_(Keys!vars) PROVE KeysTypes'
  <1> USE DEF KeysTypes
  <1>1. ASSUME NEW k \in Keyboards, Keys!Enter(k) PROVE KeysTypes'
    BY <1>1 DEF Keys!Enter
  <1>2. ASSUME NEW k \in Keyboards, Keys!Load(k) PROVE KeysTypes'
    BY <1>2 DEF Keys!Load
  <1>3. ASSUME NEW k \in Keyboards, Keys!StoreIncrement(k) PROVE KeysTypes'
    <2>1. reg[k] + 1 \in Nat
      BY KeysFinite
    <2>2. gC2pKeyCount' \in 0 .. (ULong - 1) /\ 0 \in 0 .. (ULong - 1)
      BY <1>3, <2>1, KeysFinite, InRange DEF Keys!StoreIncrement
    <2> QED
      BY <1>3, <2>2 DEF Keys!StoreIncrement
  <1>4. ASSUME NEW k \in Keyboards, Keys!PassDown(k) PROVE KeysTypes'
    BY <1>4 DEF Keys!PassDown
  <1>5. ASSUME NEW k \in Keyboards, Keys!ClassCompletes(k) PROVE KeysTypes'
    BY <1>5 DEF Keys!ClassCompletes
  <1>6. ASSUME NEW k \in Keyboards, Keys!StoreDecrement(k) PROVE KeysTypes'
    <2>1. reg[k] + ULong - 1 \in Nat
      BY KeysFinite
    <2>2. gC2pKeyCount' \in 0 .. (ULong - 1) /\ 0 \in 0 .. (ULong - 1)
      BY <1>6, <2>1, KeysFinite, InRange DEF Keys!StoreDecrement
    <2> QED
      BY <1>6, <2>2 DEF Keys!StoreDecrement
  <1>7. ASSUME NEW k \in Keyboards, Keys!Return(k) PROVE KeysTypes'
    BY <1>7 DEF Keys!Return
  <1>8. ASSUME NEW k \in Keyboards, Keys!RemoveDevice(k) PROVE KeysTypes'
    BY <1>8 DEF Keys!RemoveDevice
  <1>9. CASE Keys!UnloadBegin
    BY <1>9 DEF Keys!UnloadBegin
  <1>10. CASE Keys!UnloadDetach
    BY <1>10 DEF Keys!UnloadDetach
  <1>11. CASE Keys!UnloadLoopEnds
    BY <1>11 DEF Keys!UnloadLoopEnds
  <1>12. CASE Keys!UnloadDone
    BY <1>12 DEF Keys!UnloadDone
  <1>13. CASE UNCHANGED Keys!vars
    BY <1>13 DEF Keys!vars
  <1> QED
    BY <1>1, <1>2, <1>3, <1>4, <1>5, <1>6, <1>7, <1>8, <1>9, <1>10, <1>11, <1>12, <1>13
       DEF Keys!Next, Keys!Dispatch, Keys!Complete, Keys!Unload

LEMMA KeysChainedStep ==
  ASSUME KeysTypes, KeysChained, [Keys!Next]_(Keys!vars) PROVE KeysChained'
  <1> USE DEF KeysTypes, KeysChained
  <1>1. ASSUME NEW k \in Keyboards, Keys!Enter(k) PROVE KeysChained'
    BY <1>1 DEF Keys!Enter
  <1>2. ASSUME NEW k \in Keyboards, Keys!Load(k) PROVE KeysChained'
    BY <1>2 DEF Keys!Load
  <1>3. ASSUME NEW k \in Keyboards, Keys!StoreIncrement(k) PROVE KeysChained'
    BY <1>3 DEF Keys!StoreIncrement
  <1>4. ASSUME NEW k \in Keyboards, Keys!PassDown(k) PROVE KeysChained'
    BY <1>4 DEF Keys!PassDown
  <1>5. ASSUME NEW k \in Keyboards, Keys!ClassCompletes(k) PROVE KeysChained'
    BY <1>5 DEF Keys!ClassCompletes
  <1>6. ASSUME NEW k \in Keyboards, Keys!StoreDecrement(k) PROVE KeysChained'
    BY <1>6 DEF Keys!StoreDecrement
  <1>7. ASSUME NEW k \in Keyboards, Keys!Return(k) PROVE KeysChained'
    BY <1>7 DEF Keys!Return
  <1>8. ASSUME NEW k \in Keyboards, Keys!RemoveDevice(k) PROVE KeysChained'
    BY <1>8 DEF Keys!RemoveDevice
  <1>9. CASE Keys!UnloadBegin
    BY <1>9 DEF Keys!UnloadBegin
  <1>10. CASE Keys!UnloadDetach
    BY <1>10 DEF Keys!UnloadDetach
  <1>11. CASE Keys!UnloadLoopEnds
    BY <1>11 DEF Keys!UnloadLoopEnds
  <1>12. CASE Keys!UnloadDone
    BY <1>12 DEF Keys!UnloadDone
  <1>13. CASE UNCHANGED Keys!vars
    BY <1>13 DEF Keys!vars
  <1> QED
    BY <1>1, <1>2, <1>3, <1>4, <1>5, <1>6, <1>7, <1>8, <1>9, <1>10, <1>11, <1>12, <1>13
       DEF Keys!Next, Keys!Dispatch, Keys!Complete, Keys!Unload

LEMMA KeysCountedStep ==
  ASSUME KeysTypes, KeysCounted, [Keys!Next]_(Keys!vars) PROVE KeysCounted'
  <1> USE DEF KeysTypes, KeysCounted
  <1>1. ASSUME NEW k \in Keyboards, Keys!Enter(k) PROVE KeysCounted'
    <2>1. Counted' = Counted
      BY <1>1 DEF Keys!Enter, Counted
    <2> QED
      BY <1>1, <2>1 DEF Keys!Enter
  <1>2. ASSUME NEW k \in Keyboards, Keys!Load(k) PROVE KeysCounted'
    <2>1. Counted' = Counted
      BY <1>2 DEF Keys!Load, Counted
    <2> QED
      BY <1>2, <2>1 DEF Keys!Load
  <1>3. ASSUME NEW k \in Keyboards, Keys!StoreIncrement(k) PROVE KeysCounted'
    <2> SUFFICES ASSUME ~raced' PROVE KeysCounted'
      OBVIOUS
    <2>1. Counted \ {k} = Counted' \ {k}
      BY <1>3 DEF Keys!StoreIncrement, Counted
    <2>2. k \notin Counted /\ k \in Counted'
      BY <1>3 DEF Keys!StoreIncrement, Counted
    <2>3. Cardinality(Counted') = Cardinality(Counted) + 1
      BY <2>1, <2>2, CountedFinite, CountChange
    <2>4. ~raced /\ reg[k] = Cardinality(Counted) /\ kPc[k] \in {"store", "unstore"}
      BY <1>3 DEF Keys!StoreIncrement
    <2>5. gC2pKeyCount' = Cardinality(Counted')
      <3>1. reg[k] + 1 \in Nat /\ reg[k] + 1 < ULong
        BY <2>2, <2>4, CountedFinite, KeysFinite
      <3>2. (reg[k] + 1) % ULong = reg[k] + 1
        BY <3>1, KeysFinite, Wrapping
      <3> QED
        BY <1>3, <2>3, <2>4, <3>2 DEF Keys!StoreIncrement
    <2>6. \A j \in Keyboards : kPc'[j] \notin {"store", "unstore"}
      BY <1>3, <2>4 DEF Keys!StoreIncrement
    <2> QED
      BY <2>5, <2>6
  <1>4. ASSUME NEW k \in Keyboards, Keys!PassDown(k) PROVE KeysCounted'
    <2>1. Counted' = Counted
      BY <1>4 DEF Keys!PassDown, Counted
    <2> QED
      BY <1>4, <2>1 DEF Keys!PassDown
  <1>5. ASSUME NEW k \in Keyboards, Keys!ClassCompletes(k) PROVE KeysCounted'
    <2>1. Counted' = Counted
      BY <1>5 DEF Keys!ClassCompletes, Counted
    <2> QED
      BY <1>5, <2>1 DEF Keys!ClassCompletes
  <1>6. ASSUME NEW k \in Keyboards, Keys!StoreDecrement(k) PROVE KeysCounted'
    <2> SUFFICES ASSUME ~raced' PROVE KeysCounted'
      OBVIOUS
    <2>1. Counted \ {k} = Counted' \ {k}
      BY <1>6 DEF Keys!StoreDecrement, Counted
    <2>2. k \in Counted /\ k \notin Counted'
      BY <1>6 DEF Keys!StoreDecrement, Counted
    <2>3. Cardinality(Counted') = Cardinality(Counted) - 1 /\ Cardinality(Counted) > 0
      BY <2>1, <2>2, CountedFinite, CountChange
    <2>4. ~raced /\ reg[k] = Cardinality(Counted) /\ kPc[k] \in {"store", "unstore"}
      BY <1>6 DEF Keys!StoreDecrement
    <2>5. gC2pKeyCount' = Cardinality(Counted')
      <3>1. reg[k] \in Nat /\ reg[k] < ULong /\ reg[k] > 0
        BY <2>3, <2>4, CountedFinite, KeysFinite
      <3>2. (reg[k] + ULong - 1) % ULong = reg[k] - 1
        BY <3>1, KeysFinite, Wrapping
      <3> QED
        BY <1>6, <2>3, <2>4, <3>2 DEF Keys!StoreDecrement
    <2>6. \A j \in Keyboards : kPc'[j] \notin {"store", "unstore"}
      BY <1>6, <2>4 DEF Keys!StoreDecrement
    <2> QED
      BY <2>5, <2>6
  <1>7. ASSUME NEW k \in Keyboards, Keys!Return(k) PROVE KeysCounted'
    <2>1. Counted' = Counted
      BY <1>7 DEF Keys!Return, Counted
    <2> QED
      BY <1>7, <2>1 DEF Keys!Return
  <1>8. ASSUME NEW k \in Keyboards, Keys!RemoveDevice(k) PROVE KeysCounted'
    BY <1>8 DEF Keys!RemoveDevice, Counted
  <1>9. CASE Keys!UnloadBegin
    BY <1>9 DEF Keys!UnloadBegin, Counted
  <1>10. CASE Keys!UnloadDetach
    BY <1>10 DEF Keys!UnloadDetach, Counted
  <1>11. CASE Keys!UnloadLoopEnds
    BY <1>11 DEF Keys!UnloadLoopEnds, Counted
  <1>12. CASE Keys!UnloadDone
    BY <1>12 DEF Keys!UnloadDone, Counted
  <1>13. CASE UNCHANGED Keys!vars
    BY <1>13 DEF Keys!vars, Counted
  <1> QED
    BY <1>1, <1>2, <1>3, <1>4, <1>5, <1>6, <1>7, <1>8, <1>9, <1>10, <1>11, <1>12, <1>13
       DEF Keys!Next, Keys!Dispatch, Keys!Complete, Keys!Unload

LEMMA KeysInit == Keys!Init => KeysInv
  <1> SUFFICES ASSUME Keys!Init PROVE KeysInv
    OBVIOUS
  <1>1. Counted = {}
    BY DEF Keys!Init, Counted
  <1>2. Cardinality({}) = 0
    BY FS_EmptySet
  <1>3. 0 \in 0 .. (ULong - 1)
    BY KeysFinite
  <1> QED
    BY <1>1, <1>2, <1>3 DEF Keys!Init, KeysInv, KeysTypes, KeysCounted, KeysChained

LEMMA KeysStep == KeysInv /\ [Keys!Next]_(Keys!vars) => KeysInv'
  BY KeysTypesStep, KeysCountedStep, KeysChainedStep DEF KeysInv

LEMMA KeysParts == KeysInv => CountAndChain
  <1>1. \A S : Keys!Cardinality(S) = Cardinality(S)
    BY DEF Keys!Cardinality, Cardinality
  <1> QED
    BY <1>1
       DEF KeysInv, KeysTypes, KeysCounted, KeysChained, Counted, CountAndChain, Keys!CountAndChain,
       Keys!TypeOK, Keys!ExactUnlessRaced, Keys!DetachedUnlessReused, Keys!AllDetached

\* While no update of gC2pKeyCount is lost it is the number of reads between the
\* ++ and the --, and every filter is detached when the loop of c2pUnload ends, as
\* long as freed device objects keep their NextDevice (ctrl2cap.c:240-270, 412).
THEOREM CountAndChainAlways == Keys!Spec => []CountAndChain
  BY KeysInit, KeysStep, KeysParts, PTL DEF Keys!Spec

\* c2pUnload does not return while a read below will still be completed into the
\* driver, unless an update of the count was lost.
THEOREM UnloadAlwaysWaits == Keys!Spec => Keys!UnloadWaits
  <1>1. KeysInv /\ [Keys!Next]_(Keys!vars)
          => [unload' = "done" /\ unload # "done" => Keys!Below = {} \/ raced]_(Keys!vars)
    <2> SUFFICES ASSUME KeysInv, Keys!Next, unload' = "done", unload # "done", ~raced
                 PROVE  Keys!Below = {}
      BY DEF Keys!UnloadWaits
    <2>1. Keys!UnloadDone
      BY DEF Keys!Next, Keys!Enter, Keys!Dispatch, Keys!Load, Keys!StoreIncrement, Keys!PassDown,
         Keys!Complete,
         Keys!ClassCompletes, Keys!StoreDecrement, Keys!Return, Keys!RemoveDevice, Keys!Unload, Keys!UnloadBegin,
         Keys!UnloadDetach, Keys!UnloadLoopEnds
    <2>2. Cardinality(Counted) = 0
      BY <2>1 DEF Keys!UnloadDone, KeysInv, KeysCounted
    <2>3. Counted = {}
      BY <2>2, CountedFinite, FS_EmptySet
    <2> QED
      BY <2>3 DEF Keys!Below, Counted
  <1> QED
    BY KeysInit, KeysStep, <1>1, PTL DEF Keys!Spec, Keys!UnloadWaits

-----------------------------------------------------------------------------
(* The initialisation and the halt of ndisedge.                            *)

Inside  == {"open", "alloc", "allocated", "query", "ready", "status", "free", "freed", "set"}
StartFlags == {"init", "disconnected", "halt", "post", "res"}
Results    == {"none", "ok", "absent", "no_more", "fail"}
InitPlaces == {"start", "adapter", "wait", "failed", "register", "notify", "count", "done"} \cup Inside
HaltPlaces == {"up", "flags", "unregister", "close", "flush", "item", "wait", "device", "freed"}
ItemPlaces == {"absent", "wait", "delete", "clear", "gone"} \cup Inside

StartTypes ==
    /\ ndisprot \in {"absent", "loaded", "registered", "notified"} /\ loads \in 0 .. MaxLoads
    /\ IoTarget \in {"none", "created", "open", "closed"}
    /\ read \in {"none", "queued", "posted"}
    /\ iRefCount \in Int /\ item \in Items \cup {none}
    /\ iFlags \subseteq StartFlags
    /\ iPc \in [Start!Openers \cup {"halt"} -> InitPlaces \cup HaltPlaces \cup ItemPlaces]
    /\ iOld \in [Start!Openers \cup {"halt"} -> SUBSET StartFlags]
    /\ result \in [Start!Openers -> Results]

StartPlaces ==
    /\ iPc["init"] \in InitPlaces /\ iPc["halt"] \in HaltPlaces
    /\ \A i \in Items : iPc[i] \in ItemPlaces
    /\ iPc["halt"] # "up" => iPc["init"] \in {"done", "failed"}

\* InitEvent is what admits one worker.
Admitted ==
    /\ InitEvent => \A t \in Start!Openers : iPc[t] \notin Inside
    /\ ~InitEvent => \E t \in Start!Openers : /\ iPc[t] \in Inside
                                              /\ \A s \in Start!Openers \ {t} : iPc[s] \notin Inside

\* The callback is the adapter's from its registration to the halt's.
Called ==
    /\ registered => iPc["init"] \in {"notify", "count", "done"}
    /\ CallbackObject => iPc["init"] = "done"
    /\ iPc["halt"] \in {"close", "flush", "item", "wait", "device", "freed"} => ~registered /\ ~CallbackObject
    /\ \A i \in Items : iPc[i] # "absent" => iPc["init"] \in {"notify", "count", "done"}

\* One for the adapter and one for its callback.
StartCounted ==
    /\ iPc["init"] = "start" \/ iPc["halt"] \in {"wait", "device", "freed"} =>
          iRefCount = IF CallbackObject THEN 1 ELSE 0
    /\ ~(iPc["init"] = "start" \/ iPc["halt"] \in {"wait", "device", "freed"}) =>
          iRefCount = IF CallbackObject THEN 2 ELSE 1
    /\ HaltEvent => iPc["halt"] \in {"wait", "device", "freed"}

\* Between the registration and the call of those that are there already, what
\* ndisprot has notified was a step too early, and that call stops the system.
Told ==
    registered /\ ndisprot = "notified"
      /\ (iPc["init"] = "done" \/ (iPc["init"] = "count" /\ ~bugcheck)) =>
        \E i \in Items : iPc[i] # "absent"

\* No second notification has come.
Single == \A i, j \in Items : iPc[i] # "absent" /\ iPc[j] # "absent" => i = j

\* Then the pointer is to the item until that clears it.
Flushed ==
    Single =>
        /\ \A i \in Items : iPc[i] \notin {"absent", "gone"} => item = i
        /\ iPc["halt"] \in {"wait", "device", "freed"} =>
              \A i \in Items : iPc[i] \in {"absent", "clear", "gone"}

\* Until the halt the one worker alone writes Flags: its copy is what they are,
\* they say "init" until it has a target and the resources, and a worker that
\* gives these up afterwards has failed.
Copied ==
    iPc["halt"] = "up" =>
        \A t \in Start!Openers :
            /\ iPc[t] \in {"allocated", "ready", "freed"} => iOld[t] = iFlags
            /\ iPc[t] \in {"adapter", "open", "alloc", "allocated", "query", "ready"} => "init" \in iFlags
            /\ iPc[t] \in {"free", "freed"} => "init" \in iFlags \/ result[t] = "fail"
            /\ iPc[t] \in {"alloc", "allocated", "query", "ready", "status"} =>
                  IoTarget = "open"
            /\ iPc[t] \in {"allocated", "query", "ready", "status"} => res

\* A worker that has not come to an end has no result.
Undecided ==
    \A t \in Start!Openers :
        /\ iPc[t] \in {"start", "adapter", "absent", "wait", "open", "alloc", "query", "ready", "status"} =>
              result[t] = "none"
        /\ iPc[t] = "allocated" => result[t] \in {"none", "fail"}

Equipped ==
    iPc["halt"] = "up" /\ iPc["init"] \notin {"start", "failed"} /\ "init" \notin iFlags =>
        \/ res /\ IoTarget = "open"
        \/ \E t \in Start!Openers : result[t] = "fail"

StartInv ==
    /\ StartTypes /\ StartPlaces /\ Admitted /\ Called /\ StartCounted /\ Told /\ Flushed
    /\ Copied /\ Undecided /\ Equipped

LEMMA StartApart ==
  /\ IsFiniteSet(Items) /\ none \notin Items /\ "init" \notin Items /\ "halt" \notin Items
  /\ MaxLoads \in Nat /\ "halt" \notin Start!Openers /\ "init" \in Start!Openers /\ Items \subseteq Start!Openers
  /\ \A t \in Start!Openers : t # "init" => t \in Items
  <1>1. Start!IsFiniteSet(Items) <=> IsFiniteSet(Items)
    BY DEF Start!IsFiniteSet, IsFiniteSet
  <1> QED
    BY <1>1, PartsAssumption DEF Start!NdisEdgeInitAssumption, Start!Openers

LEMMA StartInit == Start!Init => StartInv
  <1> SUFFICES ASSUME Start!Init PROVE StartInv
    OBVIOUS
  <1> USE StartApart DEF Start!Init
  <1>1. StartTypes
    <2>1. iPc \in [Start!Openers \cup {"halt"} -> InitPlaces \cup HaltPlaces \cup ItemPlaces]
      BY DEF InitPlaces, HaltPlaces, ItemPlaces
    <2> QED
      BY <2>1 DEF StartTypes, StartFlags, Results
  <1>2. StartPlaces
    BY DEF StartPlaces, InitPlaces, HaltPlaces, ItemPlaces
  <1>3. Admitted /\ Called /\ StartCounted /\ Told
    BY DEF Admitted, Called, StartCounted, Told, Inside
  <1>4. Flushed /\ Copied /\ Undecided /\ Equipped
    BY DEF Flushed, Copied, Undecided, Equipped
  <1> QED
    BY <1>1, <1>2, <1>3, <1>4 DEF StartInv

\* What holds when no thread moves and the adapter stays as it is.
LEMMA Untouched ==
  ASSUME StartInv, UNCHANGED <<iFlags, InitEvent, IoTarget, res, iRefCount, HaltEvent, registered,
                               CallbackObject, item, iPc, result, iOld>>
  PROVE  /\ StartPlaces' /\ Admitted' /\ Called' /\ StartCounted' /\ Flushed'
         /\ Copied' /\ Undecided' /\ Equipped'
  <1>1. StartPlaces' /\ Admitted' /\ Called' /\ StartCounted'
    BY DEF StartInv, StartPlaces, Admitted, Called, StartCounted
  <1>2. Flushed' /\ Copied' /\ Undecided' /\ Equipped'
    BY DEF StartInv, Flushed, Single, Copied, Undecided, Equipped
  <1> QED
    BY <1>1, <1>2

\* A move of MPHalt alone, which begins no second life: the rest may be as
\* MPHalt's steps leave it.
LEMMA HaltMoves ==
  ASSUME StartInv, NEW p \in HaltPlaces \ {"up"}, Start!Goto("halt", p),
         registered' => registered,
         UNCHANGED <<ndisprot, bugcheck, InitEvent, result>>
  PROVE  /\ Admitted' /\ Told' /\ Copied' /\ Undecided' /\ Equipped'
         /\ iPc' \in [Start!Openers \cup {"halt"} -> InitPlaces \cup HaltPlaces \cup ItemPlaces]
         /\ iPc'["halt"] = p /\ \A t \in Start!Openers : iPc'[t] = iPc[t]
         /\ Single' => Single
  <1>1. iPc'["halt"] = p /\ \A t \in Start!Openers : iPc'[t] = iPc[t]
    BY StartApart DEF StartInv, StartTypes, Start!Goto
  <1>2. iPc' \in [Start!Openers \cup {"halt"} -> InitPlaces \cup HaltPlaces \cup ItemPlaces]
    BY StartApart DEF StartInv, StartTypes, Start!Goto
  <1>3. Admitted' /\ Told'
    BY <1>1, StartApart DEF StartInv, Admitted, Told
  <1>4. Copied' /\ Undecided' /\ Equipped'
    BY <1>1, StartApart DEF StartInv, Copied, Undecided, Equipped
  <1>5. Single' => Single
    BY <1>1, StartApart DEF Single
  <1> QED
    BY <1>1, <1>2, <1>3, <1>4, <1>5

\* A move of the worker, into, within or out of NICInitAdapterWorker.
After(t) == IF t = "init" THEN {"failed", "register", "done"} ELSE {"delete"}

LEMMA WorkerMoves ==
  ASSUME StartInv, NEW t \in Start!Openers, NEW p, Start!Goto(t, p),
         iPc[t] \in {"wait"} \cup Inside, p \in Inside \cup After(t),
         UNCHANGED <<ndisprot, bugcheck, iRefCount, HaltEvent, registered, CallbackObject, item>>
  PROVE  /\ StartPlaces' /\ Called' /\ StartCounted' /\ Told' /\ Flushed'
         /\ iPc' \in [Start!Openers \cup {"halt"} -> InitPlaces \cup HaltPlaces \cup ItemPlaces]
         /\ iPc'[t] = p /\ iPc'["halt"] = iPc["halt"]
         /\ \A s \in Start!Openers \ {t} : iPc'[s] = iPc[s]
  <1>1. /\ iPc'[t] = p /\ iPc'["halt"] = iPc["halt"]
        /\ \A s \in Start!Openers \ {t} : iPc'[s] = iPc[s]
    BY StartApart DEF StartInv, StartTypes, Start!Goto
  <1>2. p \in InitPlaces \cup ItemPlaces /\ p \notin {"absent", "gone", "clear", "wait", "start", "notify", "count"}
    BY DEF Inside, After, InitPlaces, ItemPlaces
  <1>3. iPc' \in [Start!Openers \cup {"halt"} -> InitPlaces \cup HaltPlaces \cup ItemPlaces]
    BY <1>2, StartApart DEF StartInv, StartTypes, Start!Goto
  <1>4. iPc[t] \notin {"start", "failed", "register", "notify", "count", "done", "absent", "clear", "gone"}
    BY DEF Inside
  <1>5. StartPlaces'
    <2>1. CASE t = "init"
      BY <1>1, <1>4, <2>1, StartApart DEF StartInv, StartPlaces, After, InitPlaces
    <2>2. CASE t # "init"
      BY <1>1, <2>2, StartApart DEF StartInv, StartPlaces, After, ItemPlaces
    <2> QED
      BY <2>1, <2>2
  <1>6. iPc["init"] \in {"notify", "count", "done"} => iPc'["init"] = iPc["init"]
    BY <1>1, <1>4, StartApart
  <1>7. \A i \in Items : iPc'[i] # "absent" <=> iPc[i] # "absent"
    BY <1>1, <1>2, <1>4, StartApart
  <1>8. Called'
    <2>1. /\ registered => iPc'["init"] \in {"notify", "count", "done"}
          /\ CallbackObject => iPc'["init"] = "done"
      BY <1>6 DEF StartInv, Called
    <2>2. \A i \in Items : iPc'[i] # "absent" => iPc'["init"] \in {"notify", "count", "done"}
      BY <1>6, <1>7 DEF StartInv, Called
    <2> QED
      BY <1>1, <2>1, <2>2 DEF StartInv, Called
  <1>9. StartCounted'
    <2>1. iPc'["init"] = "start" <=> iPc["init"] = "start"
      BY <1>1, <1>2, <1>4, StartApart
    <2> QED
      BY <1>1, <2>1 DEF StartInv, StartCounted
  <1>10. Told'
    <2>1. SUFFICES ASSUME registered, ndisprot = "notified",
                          iPc'["init"] = "done" \/ (iPc'["init"] = "count" /\ ~bugcheck)
                   PROVE  \E i \in Items : iPc[i] # "absent"
      BY <1>7 DEF Told
    <2>2. iPc'["init"] = iPc["init"]
      BY <1>6, <2>1 DEF StartInv, Called
    <2> QED
      BY <2>1, <2>2 DEF StartInv, Told
  <1>11. Flushed'
    <2>1. Single' <=> Single
      BY <1>7 DEF Single
    <2>2. ASSUME Single PROVE \A i \in Items : iPc'[i] \notin {"absent", "gone"} => item = i
      BY <1>1, <1>4, <2>2, StartApart DEF StartInv, Flushed
    <2>3. ASSUME Single, iPc["halt"] \in {"wait", "device", "freed"}
          PROVE  \A i \in Items : iPc'[i] \in {"absent", "clear", "gone"}
      <3>1. iPc["init"] \in {"done", "failed"}
        BY <2>3 DEF StartInv, StartPlaces
      <3>2. \A i \in Items : iPc[i] \in {"absent", "clear", "gone"}
        BY <2>3 DEF StartInv, Flushed
      <3>3. t # "init" /\ t \notin Items
        BY <1>4, <3>1, <3>2
      <3> QED
        BY <3>3, StartApart
    <2> QED
      BY <1>1, <2>1, <2>2, <2>3 DEF Flushed
  <1> QED
    BY <1>1, <1>3, <1>5, <1>8, <1>9, <1>10, <1>11

LEMMA PeerKeeps ==
  ASSUME StartInv, ~bugcheck, Start!ProtLoads \/ Start!ProtRegisters \/ Start!ProtUnloads
  PROVE  StartInv'
  <1> USE DEF Start!ProtLoads, Start!ProtRegisters, Start!ProtUnloads, Start!target, Start!refs
  <1>1. StartTypes'
    BY StartApart DEF StartInv, StartTypes
  <1>2. Told'
    BY DEF Told
  <1> QED
    BY <1>1, <1>2, Untouched DEF StartInv

\* The adapter that is told makes a work item, which is a first one or makes two.
LEMMA NICExCallbackKeeps ==
  ASSUME StartInv, ~bugcheck, Start!NICExCallback
  PROVE  StartInv'
  <1> USE DEF Start!NICExCallback, Start!target, Start!refs
  <1>1. CASE ~registered
    <2>1. StartTypes'
      BY <1>1 DEF StartInv, StartTypes
    <2>2. Told'
      BY <1>1 DEF Told
    <2> QED
      BY <1>1, <2>1, <2>2, Untouched DEF StartInv
  <1>2. CASE registered
    <2>1. PICK i \in Items : iPc[i] = "absent" /\ item' = i /\ Start!Goto(i, "wait")
      BY <1>2 DEF Start!At
    <2>2. /\ iPc'[i] = "wait" /\ iPc'["halt"] = iPc["halt"] /\ iPc'["init"] = iPc["init"]
          /\ \A s \in Start!Openers \ {i} : iPc'[s] = iPc[s]
      BY <2>1, StartApart DEF StartInv, StartTypes, Start!Goto
    <2>3. iPc' \in [Start!Openers \cup {"halt"} -> InitPlaces \cup HaltPlaces \cup ItemPlaces]
      BY <2>1, StartApart DEF StartInv, StartTypes, Start!Goto, ItemPlaces
    <2>4. StartTypes'
      BY <2>1, <2>3, <1>2, StartApart DEF StartInv, StartTypes
    <2>5. StartPlaces' /\ Called' /\ Told'
      BY <1>2, <2>1, <2>2, StartApart DEF StartInv, StartPlaces, Called, Told, ItemPlaces
    <2>6. Admitted' /\ StartCounted'
      BY <1>2, <2>1, <2>2, StartApart DEF StartInv, Admitted, StartCounted, Inside
    <2>7. Flushed'
      <3>1. iPc'["halt"] \notin {"wait", "device", "freed"}
        BY <1>2, <2>2 DEF StartInv, Called
      <3>2. ASSUME Single' PROVE \A j \in Items : iPc'[j] \notin {"absent", "gone"} => item' = j
        BY <2>1, <2>2, <3>2 DEF Single
      <3> QED
        BY <3>1, <3>2 DEF Flushed
    <2>8. Copied' /\ Undecided' /\ Equipped'
      BY <1>2, <2>1, <2>2, StartApart DEF StartInv, Copied, Undecided, Equipped
    <2> QED
      BY <2>4, <2>5, <2>6, <2>7, <2>8 DEF StartInv
  <1> QED
    BY <1>1, <1>2

\* The reads and the requests of the running adapter.
LEMMA TrafficKeeps ==
  ASSUME StartInv, Start!ReadsPost \/ Start!ReadsEnd \/ Start!MPQueryInformation
                   \/ Start!MPSetInformation \/ Start!NICRequestWorkItemCallback
  PROVE  StartInv'
  <1> USE DEF Start!ReadsPost, Start!ReadsEnd, Start!MPQueryInformation, Start!MPSetInformation,
              Start!NICForwardRequest, Start!NICRequestWorkItemCallback, Start!peer, Start!refs
  <1>1. StartTypes' /\ Told'
    BY DEF StartInv, StartTypes, Told
  <1> QED
    BY <1>1, Untouched DEF StartInv

\* A step of MPInitialize outside NICInitAdapterWorker.
LEMMA InitMoves ==
  ASSUME StartInv, NEW p \in InitPlaces \ Inside, Start!Goto("init", p),
         iPc["init"] \notin Inside \cup {"done", "failed"},
         iPc["init"] \notin {"notify", "count"} \/ p \in {"count", "done"},
         UNCHANGED InitEvent, UNCHANGED item
  PROVE  /\ StartPlaces' /\ Admitted' /\ Flushed'
         /\ iPc' \in [Start!Openers \cup {"halt"} -> InitPlaces \cup HaltPlaces \cup ItemPlaces]
         /\ iPc'["init"] = p /\ iPc'["halt"] = "up" /\ iPc["halt"] = "up"
         /\ \A i \in Items : iPc'[i] = iPc[i]
  <1>1. /\ iPc'["init"] = p /\ iPc'["halt"] = iPc["halt"] /\ iPc["halt"] = "up"
        /\ \A i \in Items : iPc'[i] = iPc[i]
    BY StartApart DEF StartInv, StartTypes, StartPlaces, Start!Goto
  <1>2. iPc' \in [Start!Openers \cup {"halt"} -> InitPlaces \cup HaltPlaces \cup ItemPlaces]
    BY StartApart DEF StartInv, StartTypes, Start!Goto
  <1>3. StartPlaces' /\ Flushed'
    BY <1>1 DEF StartInv, StartPlaces, Flushed, Single
  <1>4. Admitted'
    <2>1. \A t \in Start!Openers : iPc'[t] \in Inside <=> iPc[t] \in Inside
      BY <1>1, StartApart
    <2> QED
      BY <2>1 DEF StartInv, Admitted
  <1> QED
    BY <1>1, <1>2, <1>3, <1>4

LEMMA MPInitializeKeeps ==
  ASSUME StartInv, Start!MPInitialize
  PROVE  StartInv'
  <1> USE DEF Start!MPInitialize, Start!At, Start!peer, Start!target
  <1>1. PICK p \in {"adapter", "failed"} :
           /\ Start!Goto("init", p) /\ iFlags' \in {{}, {"init"}} /\ (p = "adapter" => iFlags' = {"init"})
    OBVIOUS
  <1>2. /\ StartPlaces' /\ Admitted' /\ Flushed'
        /\ iPc' \in [Start!Openers \cup {"halt"} -> InitPlaces \cup HaltPlaces \cup ItemPlaces]
        /\ iPc'["init"] = p /\ iPc'["halt"] = "up" /\ iPc["halt"] = "up"
        /\ \A i \in Items : iPc'[i] = iPc[i]
    BY <1>1, InitMoves DEF InitPlaces, Inside
  <1>3. \A i \in Items : iPc[i] = "absent"
    BY DEF StartInv, Called
  <1>4. StartTypes'
    BY <1>1, <1>2 DEF StartInv, StartTypes, StartFlags
  <1>5. Called' /\ StartCounted' /\ Told'
    BY <1>1, <1>2, <1>3 DEF StartInv, Called, StartCounted, Told
  <1>6. Copied' /\ Undecided' /\ Equipped'
    BY <1>1, <1>2, <1>3, StartApart DEF StartInv, Copied, Undecided, Equipped
  <1> QED
    BY <1>2, <1>4, <1>5, <1>6 DEF StartInv

LEMMA NICInitializeAdapterKeeps ==
  ASSUME StartInv, Start!NICInitializeAdapter
  PROVE  StartInv'
  <1> USE DEF Start!NICInitializeAdapter, Start!At, Start!peer, Start!target, Start!refs
  <1>1. PICK p \in {"wait", "failed"} :
           Start!Goto("init", p) /\ iFlags' \in {iFlags, iFlags \cup {"disconnected"}}
    OBVIOUS
  <1>2. /\ StartPlaces' /\ Admitted' /\ Flushed'
        /\ iPc' \in [Start!Openers \cup {"halt"} -> InitPlaces \cup HaltPlaces \cup ItemPlaces]
        /\ iPc'["init"] = p /\ iPc'["halt"] = "up" /\ iPc["halt"] = "up"
        /\ \A i \in Items : iPc'[i] = iPc[i]
    BY <1>1, InitMoves DEF InitPlaces, Inside
  <1>3. \A i \in Items : iPc[i] = "absent"
    BY DEF StartInv, Called
  <1>4. StartTypes'
    BY <1>1, <1>2 DEF StartInv, StartTypes, StartFlags
  <1>5. Called' /\ StartCounted' /\ Told'
    BY <1>1, <1>2, <1>3 DEF StartInv, Called, StartCounted, Told
  <1>6. "init" \in iFlags'
    BY <1>1, <1>2, StartApart DEF StartInv, Copied
  <1>7. Copied' /\ Undecided' /\ Equipped'
    BY <1>1, <1>2, <1>3, <1>6, StartApart DEF StartInv, Copied, Undecided, Equipped
  <1> QED
    BY <1>2, <1>4, <1>5, <1>7 DEF StartInv

\* NICRegisterExCallback, after which ndisprot's notification is not missed.
LEMMA CallbackKeeps ==
  ASSUME StartInv, ~bugcheck,
         Start!CallbackRegisters \/ Start!CallbackNotifies \/ Start!CallbackCounts
  PROVE  StartInv'
  <1> USE DEF Start!CallbackRegisters, Start!CallbackNotifies, Start!CallbackCounts, Start!At,
              Start!peer, Start!target, Start!refs
  <1>1. PICK p \in {"notify", "count", "done"} :
           /\ Start!Goto("init", p)
           /\ <<iPc["init"], p>> \in {<<"register", "notify">>, <<"notify", "count">>, <<"count", "done">>}
    OBVIOUS
  <1>2. /\ StartPlaces' /\ Admitted' /\ Flushed'
        /\ iPc' \in [Start!Openers \cup {"halt"} -> InitPlaces \cup HaltPlaces \cup ItemPlaces]
        /\ iPc'["init"] = p /\ iPc'["halt"] = "up" /\ iPc["halt"] = "up"
        /\ \A i \in Items : iPc'[i] = iPc[i]
    BY <1>1, InitMoves DEF InitPlaces, Inside
  <1>3. iRefCount' \in Int /\ iFlags' = iFlags /\ iOld' = iOld /\ result' = result
    BY DEF StartInv, StartTypes
  <1>4. StartTypes'
    BY <1>2, <1>3 DEF StartInv, StartTypes
  <1>5. Called' /\ StartCounted'
    BY <1>1, <1>2 DEF StartInv, StartTypes, Called, StartCounted
  <1>6. Told'
    BY <1>1, <1>2 DEF StartInv, Told
  <1>7. Copied' /\ Undecided' /\ Equipped'
    BY <1>1, <1>2, StartApart DEF StartInv, Copied, Undecided, Equipped
  <1> QED
    BY <1>2, <1>4, <1>5, <1>6, <1>7 DEF StartInv

\* NICInitAdapterWorker.  Where it goes, and that it is the one thread inside.
LEMMA OneInside ==
  ASSUME StartInv, NEW t \in Start!Openers, iPc[t] \in Inside
  PROVE  ~InitEvent /\ \A s \in Start!Openers \ {t} : iPc[s] \notin Inside
  BY DEF StartInv, Admitted

LEMMA StaysInside ==
  ASSUME StartInv, NEW t \in Start!Openers, iPc[t] \in Inside, iPc'[t] \in Inside,
         \A s \in Start!Openers \ {t} : iPc'[s] = iPc[s], UNCHANGED InitEvent
  PROVE  Admitted'
  <1>1. ~InitEvent /\ \A s \in Start!Openers \ {t} : iPc[s] \notin Inside
    BY OneInside
  <1> QED
    BY <1>1 DEF Admitted

LEMMA WorkerWaitsKeeps ==
  ASSUME StartInv, NEW t \in Start!Openers, Start!WorkerWaits(t)
  PROVE  StartInv'
  <1> USE DEF Start!WorkerWaits, Start!At, Start!peer, Start!target, Start!refs
  <1>1. PICK p \in {"open", "set"} :
           /\ Start!Goto(t, p) /\ (p = "open" <=> "init" \in iFlags)
           /\ result' = IF p = "open" THEN result ELSE [result EXCEPT ![t] = "ok"]
    OBVIOUS
  <1>2. /\ StartPlaces' /\ Called' /\ StartCounted' /\ Told' /\ Flushed'
        /\ iPc' \in [Start!Openers \cup {"halt"} -> InitPlaces \cup HaltPlaces \cup ItemPlaces]
        /\ iPc'[t] = p /\ iPc'["halt"] = iPc["halt"]
        /\ \A s \in Start!Openers \ {t} : iPc'[s] = iPc[s]
    BY <1>1, WorkerMoves DEF Inside
  <1>3. StartTypes'
    BY <1>1, <1>2 DEF StartInv, StartTypes, Results
  <1>4. Admitted'
    BY <1>1, <1>2 DEF StartInv, Admitted, Inside
  <1>5. result[t] = "none"
    BY DEF StartInv, Undecided
  <1>6. Copied'
    BY <1>1, <1>2 DEF StartInv, StartTypes, Copied
  <1>7. Undecided'
    BY <1>1, <1>2 DEF StartInv, StartTypes, Undecided
  <1>8. Equipped'
    <2>1. iPc'["init"] \notin {"start", "failed"} => iPc["init"] \notin {"start", "failed"}
      BY <1>1, <1>2, StartApart
    <2>2. \A s \in Start!Openers : result[s] = "fail" => result'[s] = "fail"
      BY <1>1, <1>5 DEF StartInv, StartTypes
    <2> QED
      BY <1>2, <2>1, <2>2 DEF StartInv, Equipped
  <1> QED
    BY <1>2, <1>3, <1>4, <1>6, <1>7, <1>8 DEF StartInv

LEMMA WorkerOpensKeeps ==
  ASSUME StartInv, NEW t \in Start!Openers, Start!WorkerOpens(t)
  PROVE  StartInv'
  <1> USE DEF Start!WorkerOpens, Start!At, Start!peer, Start!target, Start!refs
  <1>1. PICK p \in {"alloc", "free"} :
           /\ Start!Goto(t, p) /\ (p = "alloc" => IoTarget' = "open" /\ result' = result)
           /\ \E s \in Results : result' = [result EXCEPT ![t] = s]
    BY DEF StartInv, StartTypes, Results
  <1>2. /\ StartPlaces' /\ Called' /\ StartCounted' /\ Told' /\ Flushed'
        /\ iPc' \in [Start!Openers \cup {"halt"} -> InitPlaces \cup HaltPlaces \cup ItemPlaces]
        /\ iPc'[t] = p /\ iPc'["halt"] = iPc["halt"]
        /\ \A s \in Start!Openers \ {t} : iPc'[s] = iPc[s]
    BY <1>1, WorkerMoves DEF Inside
  <1>3. ~InitEvent /\ \A s \in Start!Openers \ {t} : iPc[s] \notin Inside
    BY OneInside DEF Inside
  <1>4. StartTypes'
    <2>1. result' \in [Start!Openers -> Results] /\ IoTarget' \in {"none", "created", "open", "closed"}
      BY <1>1 DEF StartInv, StartTypes
    <2> QED
      BY <1>2, <2>1 DEF StartInv, StartTypes, StartFlags
  <1>5. Admitted'
    BY <1>2, StaysInside DEF Inside
  <1>6. Copied'
    BY <1>1, <1>2, <1>3 DEF StartInv, StartTypes, Copied, Inside
  <1>7. Undecided'
    BY <1>1, <1>2 DEF StartInv, StartTypes, Undecided
  <1>8. Equipped'
    BY <1>1, <1>2 DEF StartInv, StartTypes, Equipped, Copied
  <1> QED
    BY <1>2, <1>4, <1>5, <1>6, <1>7, <1>8 DEF StartInv

LEMMA WorkerAllocatesKeeps ==
  ASSUME StartInv, NEW t \in Start!Openers, Start!WorkerAllocates(t)
  PROVE  StartInv'
  <1> USE DEF Start!WorkerAllocates, Start!At, Start!peer, Start!target, Start!refs
  <1>1. Start!Goto(t, "allocated")
    OBVIOUS
  <1>2. /\ StartPlaces' /\ Called' /\ StartCounted' /\ Told' /\ Flushed'
        /\ iPc' \in [Start!Openers \cup {"halt"} -> InitPlaces \cup HaltPlaces \cup ItemPlaces]
        /\ iPc'[t] = "allocated" /\ iPc'["halt"] = iPc["halt"]
        /\ \A s \in Start!Openers \ {t} : iPc'[s] = iPc[s]
    BY <1>1, WorkerMoves DEF Inside
  <1>3. ~InitEvent /\ \A s \in Start!Openers \ {t} : iPc[s] \notin Inside
    BY OneInside DEF Inside
  <1>4. StartTypes'
    BY <1>1, <1>2 DEF StartInv, StartTypes, StartFlags, Results
  <1>5. Admitted'
    BY <1>2, StaysInside DEF Inside
  <1>6. Copied'
    BY <1>1, <1>2, <1>3 DEF StartInv, StartTypes, Copied, Inside
  <1>7. Undecided'
    BY <1>1, <1>2 DEF StartInv, StartTypes, Undecided
  <1>8. Equipped'
    BY <1>1, <1>2 DEF StartInv, StartTypes, Equipped, Copied
  <1> QED
    BY <1>2, <1>4, <1>5, <1>6, <1>7, <1>8 DEF StartInv

LEMMA WorkerAllocatedKeeps ==
  ASSUME StartInv, NEW t \in Start!Openers, Start!WorkerAllocated(t)
  PROVE  StartInv'
  <1> USE DEF Start!WorkerAllocated, Start!At, Start!peer, Start!target, Start!refs
  <1>1. PICK p \in {"free", "query"} :
           Start!Goto(t, p) /\ (p = "free" <=> result[t] = "fail")
    OBVIOUS
  <1>2. /\ StartPlaces' /\ Called' /\ StartCounted' /\ Told' /\ Flushed'
        /\ iPc' \in [Start!Openers \cup {"halt"} -> InitPlaces \cup HaltPlaces \cup ItemPlaces]
        /\ iPc'[t] = p /\ iPc'["halt"] = iPc["halt"]
        /\ \A s \in Start!Openers \ {t} : iPc'[s] = iPc[s]
    BY <1>1, WorkerMoves DEF Inside
  <1>3. ~InitEvent /\ \A s \in Start!Openers \ {t} : iPc[s] \notin Inside
    BY OneInside DEF Inside
  <1>4. StartTypes'
    BY <1>1, <1>2 DEF StartInv, StartTypes, StartFlags, Results
  <1>5. Admitted'
    BY <1>2, StaysInside DEF Inside
  <1>6. Copied'
    BY <1>1, <1>2, <1>3 DEF StartInv, StartTypes, Copied, Inside
  <1>7. Undecided'
    BY <1>1, <1>2 DEF StartInv, StartTypes, Undecided
  <1>8. Equipped'
    BY <1>1, <1>2 DEF StartInv, StartTypes, Equipped, Copied
  <1> QED
    BY <1>2, <1>4, <1>5, <1>6, <1>7, <1>8 DEF StartInv

LEMMA WorkerQueriesKeeps ==
  ASSUME StartInv, NEW t \in Start!Openers, Start!WorkerQueries(t)
  PROVE  StartInv'
  <1> USE DEF Start!WorkerQueries, Start!At, Start!peer, Start!target, Start!refs, Start!NICSendRequest
  <1>1. PICK p \in {"ready", "free"} :
           /\ Start!Goto(t, p)
           /\ p = "ready" => result' = result /\ iOld' = [iOld EXCEPT ![t] = iFlags]
           /\ p = "free"  => iOld' = iOld /\ result' = [result EXCEPT ![t] = "fail"]
    OBVIOUS
  <1>2. /\ StartPlaces' /\ Called' /\ StartCounted' /\ Told' /\ Flushed'
        /\ iPc' \in [Start!Openers \cup {"halt"} -> InitPlaces \cup HaltPlaces \cup ItemPlaces]
        /\ iPc'[t] = p /\ iPc'["halt"] = iPc["halt"]
        /\ \A s \in Start!Openers \ {t} : iPc'[s] = iPc[s]
    BY <1>1, WorkerMoves DEF Inside
  <1>3. ~InitEvent /\ \A s \in Start!Openers \ {t} : iPc[s] \notin Inside
    BY OneInside DEF Inside
  <1>4. StartTypes'
    BY <1>1, <1>2 DEF StartInv, StartTypes, StartFlags, Results
  <1>5. Admitted'
    BY <1>2, StaysInside DEF Inside
  <1>6. Copied'
    <2>1. CASE p = "ready"
      BY <1>1, <1>2, <1>3, <2>1 DEF StartInv, StartTypes, Copied, Inside, Start!Opened
    <2>2. CASE p = "free"
      BY <1>1, <1>2, <1>3, <2>2 DEF StartInv, StartTypes, Copied, Inside
    <2> QED
      BY <2>1, <2>2
  <1>7. Undecided'
    BY <1>1, <1>2 DEF StartInv, StartTypes, Undecided
  <1>8. Equipped'
    BY <1>1, <1>2 DEF StartInv, StartTypes, Equipped, Copied
  <1> QED
    BY <1>2, <1>4, <1>5, <1>6, <1>7, <1>8 DEF StartInv

LEMMA WorkerReadyKeeps ==
  ASSUME StartInv, NEW t \in Start!Openers, Start!WorkerReady(t)
  PROVE  StartInv'
  <1> USE DEF Start!WorkerReady, Start!At, Start!peer, Start!target, Start!refs
  <1>1. Start!Goto(t, "status")
    OBVIOUS
  <1>2. /\ StartPlaces' /\ Called' /\ StartCounted' /\ Told' /\ Flushed'
        /\ iPc' \in [Start!Openers \cup {"halt"} -> InitPlaces \cup HaltPlaces \cup ItemPlaces]
        /\ iPc'[t] = "status" /\ iPc'["halt"] = iPc["halt"]
        /\ \A s \in Start!Openers \ {t} : iPc'[s] = iPc[s]
    BY <1>1, WorkerMoves DEF Inside
  <1>3. ~InitEvent /\ \A s \in Start!Openers \ {t} : iPc[s] \notin Inside
    BY OneInside DEF Inside
  <1>4. StartTypes'
    BY <1>1, <1>2 DEF StartInv, StartTypes, StartFlags, Results
  <1>5. Admitted'
    BY <1>2, StaysInside DEF Inside
  <1>6. Copied'
    <2>1. \A s \in Start!Openers \ {t} : iPc[s] # "adapter"
      BY StartApart DEF StartInv, StartPlaces, Called, ItemPlaces, Inside
    <2>2. ASSUME iPc["halt"] = "up" PROVE res /\ IoTarget = "open"
      BY <2>2 DEF StartInv, Copied
    <2> QED
      BY <1>1, <1>2, <1>3, <2>1, <2>2 DEF Copied, Inside
  <1>7. Undecided'
    BY <1>1, <1>2 DEF StartInv, StartTypes, Undecided
  <1>8. Equipped'
    BY <1>1, <1>2 DEF StartInv, StartTypes, Equipped, Copied
  <1> QED
    BY <1>2, <1>4, <1>5, <1>6, <1>7, <1>8 DEF StartInv

LEMMA WorkerPostsStatusKeeps ==
  ASSUME StartInv, NEW t \in Start!Openers, Start!WorkerPostsStatus(t)
  PROVE  StartInv'
  <1> USE DEF Start!WorkerPostsStatus, Start!At, Start!peer, Start!target, Start!refs,
              Start!NICPostAsynchronousStatusIndicationRequest
  <1>1. PICK p \in {"set", "free"} :
           /\ Start!Goto(t, p)
           /\ result' = [result EXCEPT ![t] = IF p = "set" THEN "ok" ELSE "fail"]
    OBVIOUS
  <1>2. /\ StartPlaces' /\ Called' /\ StartCounted' /\ Told' /\ Flushed'
        /\ iPc' \in [Start!Openers \cup {"halt"} -> InitPlaces \cup HaltPlaces \cup ItemPlaces]
        /\ iPc'[t] = p /\ iPc'["halt"] = iPc["halt"]
        /\ \A s \in Start!Openers \ {t} : iPc'[s] = iPc[s]
    BY <1>1, WorkerMoves DEF Inside
  <1>3. ~InitEvent /\ \A s \in Start!Openers \ {t} : iPc[s] \notin Inside
    BY OneInside DEF Inside
  <1>4. StartTypes'
    BY <1>1, <1>2 DEF StartInv, StartTypes, StartFlags, Results
  <1>5. Admitted'
    BY <1>2, StaysInside DEF Inside
  <1>6. Copied'
    BY <1>1, <1>2, <1>3 DEF StartInv, StartTypes, Copied, Inside
  <1>7. Undecided'
    BY <1>1, <1>2 DEF StartInv, StartTypes, Undecided
  <1>8. Equipped'
    BY <1>1, <1>2 DEF StartInv, StartTypes, Equipped, Copied
  <1> QED
    BY <1>2, <1>4, <1>5, <1>6, <1>7, <1>8 DEF StartInv

LEMMA WorkerFreesKeeps ==
  ASSUME StartInv, NEW t \in Start!Openers, Start!WorkerFrees(t)
  PROVE  StartInv'
  <1> USE DEF Start!WorkerFrees, Start!At, Start!peer, Start!target, Start!refs
  <1>1. PICK p \in {"freed", "set"} :
           /\ Start!Goto(t, p) /\ (p = "freed" => iOld' = [iOld EXCEPT ![t] = iFlags])
           /\ p = "set" => iOld' = iOld /\ res' = res
    OBVIOUS
  <1>2. /\ StartPlaces' /\ Called' /\ StartCounted' /\ Told' /\ Flushed'
        /\ iPc' \in [Start!Openers \cup {"halt"} -> InitPlaces \cup HaltPlaces \cup ItemPlaces]
        /\ iPc'[t] = p /\ iPc'["halt"] = iPc["halt"]
        /\ \A s \in Start!Openers \ {t} : iPc'[s] = iPc[s]
    BY <1>1, WorkerMoves DEF Inside
  <1>3. ~InitEvent /\ \A s \in Start!Openers \ {t} : iPc[s] \notin Inside
    BY OneInside DEF Inside
  <1>4. StartTypes'
    BY <1>1, <1>2 DEF StartInv, StartTypes, StartFlags, Results
  <1>5. Admitted'
    BY <1>2, StaysInside DEF Inside
  <1>6. Copied'
    BY <1>1, <1>2, <1>3 DEF StartInv, StartTypes, Copied, Inside
  <1>7. Undecided'
    BY <1>1, <1>2 DEF StartInv, StartTypes, Undecided
  <1>8. Equipped'
    BY <1>1, <1>2 DEF StartInv, StartTypes, Equipped, Copied
  <1> QED
    BY <1>2, <1>4, <1>5, <1>6, <1>7, <1>8 DEF StartInv

LEMMA WorkerFreedKeeps ==
  ASSUME StartInv, NEW t \in Start!Openers, Start!WorkerFreed(t)
  PROVE  StartInv'
  <1> USE DEF Start!WorkerFreed, Start!At, Start!peer, Start!target, Start!refs
  <1>1. Start!Goto(t, "set")
    OBVIOUS
  <1>2. /\ StartPlaces' /\ Called' /\ StartCounted' /\ Told' /\ Flushed'
        /\ iPc' \in [Start!Openers \cup {"halt"} -> InitPlaces \cup HaltPlaces \cup ItemPlaces]
        /\ iPc'[t] = "set" /\ iPc'["halt"] = iPc["halt"]
        /\ \A s \in Start!Openers \ {t} : iPc'[s] = iPc[s]
    BY <1>1, WorkerMoves DEF Inside
  <1>3. ~InitEvent /\ \A s \in Start!Openers \ {t} : iPc[s] \notin Inside
    BY OneInside DEF Inside
  <1>4. StartTypes'
    BY <1>1, <1>2 DEF StartInv, StartTypes, StartFlags, Results
  <1>5. Admitted'
    BY <1>2, StaysInside DEF Inside
  <1>6. Copied'
    BY <1>1, <1>2, <1>3 DEF StartInv, StartTypes, Copied, Inside
  <1>7. Undecided'
    BY <1>1, <1>2 DEF StartInv, StartTypes, Undecided
  <1>8. Equipped'
    BY <1>1, <1>2 DEF StartInv, StartTypes, Equipped, Copied
  <1> QED
    BY <1>2, <1>4, <1>5, <1>6, <1>7, <1>8 DEF StartInv

LEMMA WorkerSetsKeeps ==
  ASSUME StartInv, NEW t \in Start!Openers, Start!WorkerSets(t)
  PROVE  StartInv'
  <1> USE DEF Start!WorkerSets, Start!At, Start!peer, Start!target, Start!refs
  <1>1. PICK p \in After(t) : Start!Goto(t, p)
    BY StartApart DEF After
  <1>2. /\ StartPlaces' /\ Called' /\ StartCounted' /\ Told' /\ Flushed'
        /\ iPc' \in [Start!Openers \cup {"halt"} -> InitPlaces \cup HaltPlaces \cup ItemPlaces]
        /\ iPc'[t] = p /\ iPc'["halt"] = iPc["halt"]
        /\ \A s \in Start!Openers \ {t} : iPc'[s] = iPc[s]
    BY <1>1, WorkerMoves DEF Inside
  <1>3. ~InitEvent /\ \A s \in Start!Openers \ {t} : iPc[s] \notin Inside
    BY OneInside DEF Inside
  <1>4. p \in {"failed", "register", "done", "delete"}
    BY DEF After
  <1>5. StartTypes'
    BY <1>2 DEF StartInv, StartTypes
  <1>6. Admitted'
    BY <1>2, <1>3, <1>4 DEF Admitted, Inside
  <1>7. Copied'
    BY <1>2, <1>3, <1>4 DEF StartInv, Copied
  <1>8. Undecided'
    BY <1>2, <1>4 DEF StartInv, Undecided
  <1>9. Equipped'
    <2>1. iPc'["init"] \notin {"start", "failed"} => iPc["init"] \notin {"start", "failed"}
      BY <1>2, StartApart
    <2> QED
      BY <1>2, <2>1 DEF StartInv, Equipped
  <1> QED
    BY <1>2, <1>5, <1>6, <1>7, <1>8, <1>9 DEF StartInv

\* The end of a notification's work item.
LEMMA ItemEnds ==
  ASSUME StartInv, NEW i \in Items, Start!ItemDeletes(i) \/ Start!ItemClears(i)
  PROVE  StartInv'
  <1> USE DEF Start!ItemDeletes, Start!ItemClears, Start!At, Start!peer, Start!target, Start!refs
  <1>1. PICK p \in {"clear", "gone"} :
           /\ Start!Goto(i, p) /\ <<iPc[i], p>> \in {<<"delete", "clear">>, <<"clear", "gone">>}
           /\ item' = IF p = "gone" THEN none ELSE item
    OBVIOUS
  <1>2. /\ iPc'[i] = p /\ iPc'["halt"] = iPc["halt"] /\ iPc'["init"] = iPc["init"]
        /\ \A s \in Start!Openers \ {i} : iPc'[s] = iPc[s]
    BY <1>1, StartApart DEF StartInv, StartTypes, Start!Goto
  <1>3. iPc' \in [Start!Openers \cup {"halt"} -> InitPlaces \cup HaltPlaces \cup ItemPlaces]
    BY <1>1, StartApart DEF StartInv, StartTypes, Start!Goto, ItemPlaces
  <1>4. StartTypes'
    BY <1>3, StartApart DEF StartInv, StartTypes
  <1>5. StartPlaces' /\ Called' /\ StartCounted' /\ Told'
    <2>1. iPc[i] # "absent" /\ iPc'[i] # "absent" /\ iPc'[i] \in ItemPlaces
      BY <1>1, <1>2 DEF ItemPlaces
    <2> QED
      BY <1>2, <2>1, StartApart DEF StartInv, StartPlaces, Called, StartCounted, Told
  <1>6. \A t \in Start!Openers : iPc'[t] \in Inside <=> iPc[t] \in Inside
    BY <1>1, <1>2 DEF Inside
  <1>7. Admitted'
    BY <1>6 DEF StartInv, Admitted
  <1>8. Flushed'
    <2>1. \A j \in Items : iPc'[j] # "absent" <=> iPc[j] # "absent"
      BY <1>1, <1>2, StartApart
    <2>2. Single' => Single
      BY <2>1 DEF Single
    <2>3. ASSUME Single PROVE \A j \in Items : iPc'[j] \notin {"absent", "gone"} => item' = j
      BY <1>1, <1>2, <2>3, StartApart DEF StartInv, Flushed, Single
    <2> QED
      BY <1>1, <1>2, <2>2, <2>3, StartApart DEF StartInv, Flushed
  <1>9. Copied' /\ Undecided' /\ Equipped'
    BY <1>1, <1>2, StartApart DEF StartInv, Copied, Undecided, Equipped
  <1> QED
    BY <1>4, <1>5, <1>7, <1>8, <1>9 DEF StartInv

LEMMA HaltBeginsKeeps ==
  ASSUME StartInv, Start!HaltBegins
  PROVE  StartInv'
  <1> USE DEF Start!HaltBegins, Start!At, Start!peer, Start!target, Start!refs
  <1>1. /\ Admitted' /\ Told' /\ Copied' /\ Undecided' /\ Equipped'
        /\ iPc' \in [Start!Openers \cup {"halt"} -> InitPlaces \cup HaltPlaces \cup ItemPlaces]
        /\ iPc'["halt"] = "flags" /\ (\A t \in Start!Openers : iPc'[t] = iPc[t])
        /\ Single' => Single
    BY HaltMoves DEF HaltPlaces
  <1>2. StartTypes'
    BY <1>1 DEF StartInv, StartTypes, StartFlags
  <1>3. StartPlaces' /\ Called' /\ StartCounted'
    BY <1>1, StartApart DEF StartInv, StartTypes, StartPlaces, Called, StartCounted, HaltPlaces
  <1>4. Flushed'
    BY <1>1, StartApart DEF StartInv, Flushed
  <1> QED
    BY <1>1, <1>2, <1>3, <1>4 DEF StartInv

LEMMA HaltFlagsKeeps ==
  ASSUME StartInv, Start!HaltFlags
  PROVE  StartInv'
  <1> USE DEF Start!HaltFlags, Start!At, Start!peer, Start!target, Start!refs
  <1>1. /\ Admitted' /\ Told' /\ Copied' /\ Undecided' /\ Equipped'
        /\ iPc' \in [Start!Openers \cup {"halt"} -> InitPlaces \cup HaltPlaces \cup ItemPlaces]
        /\ iPc'["halt"] = "unregister" /\ (\A t \in Start!Openers : iPc'[t] = iPc[t])
        /\ Single' => Single
    BY HaltMoves DEF HaltPlaces
  <1>2. StartTypes'
    BY <1>1 DEF StartInv, StartTypes, StartFlags
  <1>3. StartPlaces' /\ Called' /\ StartCounted'
    BY <1>1, StartApart DEF StartInv, StartTypes, StartPlaces, Called, StartCounted, HaltPlaces
  <1>4. Flushed'
    BY <1>1, StartApart DEF StartInv, Flushed
  <1> QED
    BY <1>1, <1>2, <1>3, <1>4 DEF StartInv

LEMMA HaltUnregistersKeeps ==
  ASSUME StartInv, Start!HaltUnregisters
  PROVE  StartInv'
  <1> USE DEF Start!HaltUnregisters, Start!At, Start!peer, Start!target, Start!refs
  <1>1. /\ Admitted' /\ Told' /\ Copied' /\ Undecided' /\ Equipped'
        /\ iPc' \in [Start!Openers \cup {"halt"} -> InitPlaces \cup HaltPlaces \cup ItemPlaces]
        /\ iPc'["halt"] = "close" /\ (\A t \in Start!Openers : iPc'[t] = iPc[t])
        /\ Single' => Single
    BY HaltMoves DEF HaltPlaces
  <1>2. StartTypes'
    BY <1>1 DEF StartInv, StartTypes, StartFlags
  <1>3. StartPlaces' /\ Called' /\ StartCounted'
    BY <1>1, StartApart DEF StartInv, StartTypes, StartPlaces, Called, StartCounted, HaltPlaces
  <1>4. Flushed'
    BY <1>1, StartApart DEF StartInv, Flushed
  <1> QED
    BY <1>1, <1>2, <1>3, <1>4 DEF StartInv

LEMMA HaltClosesKeeps ==
  ASSUME StartInv, Start!HaltCloses
  PROVE  StartInv'
  <1> USE DEF Start!HaltCloses, Start!At, Start!peer, Start!target, Start!refs
  <1>1. /\ Admitted' /\ Told' /\ Copied' /\ Undecided' /\ Equipped'
        /\ iPc' \in [Start!Openers \cup {"halt"} -> InitPlaces \cup HaltPlaces \cup ItemPlaces]
        /\ iPc'["halt"] = "flush" /\ (\A t \in Start!Openers : iPc'[t] = iPc[t])
        /\ Single' => Single
    BY HaltMoves DEF HaltPlaces
  <1>2. StartTypes'
    BY <1>1 DEF StartInv, StartTypes, StartFlags
  <1>3. StartPlaces' /\ Called' /\ StartCounted'
    BY <1>1, StartApart DEF StartInv, StartTypes, StartPlaces, Called, StartCounted, HaltPlaces
  <1>4. Flushed'
    BY <1>1, StartApart DEF StartInv, Flushed
  <1> QED
    BY <1>1, <1>2, <1>3, <1>4 DEF StartInv

LEMMA HaltEmptiesKeeps ==
  ASSUME StartInv, Start!HaltFlushes
  PROVE  StartInv'
  <1> USE DEF Start!HaltFlushes, Start!At, Start!peer, Start!target, Start!refs
  <1>1. /\ Admitted' /\ Told' /\ Copied' /\ Undecided' /\ Equipped'
        /\ iPc' \in [Start!Openers \cup {"halt"} -> InitPlaces \cup HaltPlaces \cup ItemPlaces]
        /\ iPc'["halt"] = "item" /\ (\A t \in Start!Openers : iPc'[t] = iPc[t])
        /\ Single' => Single
    BY HaltMoves DEF HaltPlaces
  <1>2. StartTypes'
    BY <1>1 DEF StartInv, StartTypes, StartFlags
  <1>3. StartPlaces' /\ Called' /\ StartCounted'
    BY <1>1, StartApart DEF StartInv, StartTypes, StartPlaces, Called, StartCounted, HaltPlaces
  <1>4. Flushed'
    BY <1>1, StartApart DEF StartInv, Flushed
  <1> QED
    BY <1>1, <1>2, <1>3, <1>4 DEF StartInv

LEMMA HaltFreesKeeps ==
  ASSUME StartInv, Start!HaltFrees
  PROVE  StartInv'
  <1> USE DEF Start!HaltFrees, Start!At, Start!peer, Start!target, Start!refs
  <1>1. /\ Admitted' /\ Told' /\ Copied' /\ Undecided' /\ Equipped'
        /\ iPc' \in [Start!Openers \cup {"halt"} -> InitPlaces \cup HaltPlaces \cup ItemPlaces]
        /\ iPc'["halt"] = "device" /\ (\A t \in Start!Openers : iPc'[t] = iPc[t])
        /\ Single' => Single
    BY HaltMoves DEF HaltPlaces
  <1>2. StartTypes'
    BY <1>1 DEF StartInv, StartTypes, StartFlags
  <1>3. StartPlaces' /\ Called' /\ StartCounted'
    BY <1>1, StartApart DEF StartInv, StartTypes, StartPlaces, Called, StartCounted, HaltPlaces
  <1>4. Flushed'
    BY <1>1, StartApart DEF StartInv, Flushed
  <1> QED
    BY <1>1, <1>2, <1>3, <1>4 DEF StartInv

LEMMA HaltDeletesKeeps ==
  ASSUME StartInv, Start!HaltDeletes
  PROVE  StartInv'
  <1> USE DEF Start!HaltDeletes, Start!At, Start!peer, Start!target, Start!refs
  <1>1. /\ Admitted' /\ Told' /\ Copied' /\ Undecided' /\ Equipped'
        /\ iPc' \in [Start!Openers \cup {"halt"} -> InitPlaces \cup HaltPlaces \cup ItemPlaces]
        /\ iPc'["halt"] = "freed" /\ (\A t \in Start!Openers : iPc'[t] = iPc[t])
        /\ Single' => Single
    BY HaltMoves DEF HaltPlaces
  <1>2. StartTypes'
    BY <1>1 DEF StartInv, StartTypes, StartFlags
  <1>3. StartPlaces' /\ Called' /\ StartCounted'
    BY <1>1, StartApart DEF StartInv, StartTypes, StartPlaces, Called, StartCounted, HaltPlaces
  <1>4. Flushed'
    BY <1>1, StartApart DEF StartInv, Flushed
  <1> QED
    BY <1>1, <1>2, <1>3, <1>4 DEF StartInv

\* The item that it waits for is the only one, or there have been two.
LEMMA HaltFlushesItemKeeps ==
  ASSUME StartInv, Start!HaltFlushesItem
  PROVE  StartInv'
  <1> USE DEF Start!HaltFlushesItem, Start!At, Start!peer, Start!target, Start!refs
  <1>1. /\ Admitted' /\ Told' /\ Copied' /\ Undecided' /\ Equipped'
        /\ iPc' \in [Start!Openers \cup {"halt"} -> InitPlaces \cup HaltPlaces \cup ItemPlaces]
        /\ iPc'["halt"] = "wait" /\ (\A t \in Start!Openers : iPc'[t] = iPc[t])
        /\ Single' => Single
    BY HaltMoves DEF HaltPlaces
  <1>2. StartTypes'
    BY <1>1 DEF StartInv, StartTypes, StartFlags
  <1>3. StartPlaces' /\ Called' /\ StartCounted'
    BY <1>1, StartApart DEF StartInv, StartTypes, StartPlaces, Called, StartCounted, HaltPlaces
  <1>4. Flushed'
    <2>1. ASSUME Single, NEW i \in Items PROVE iPc[i] \in {"absent", "clear", "gone"}
      BY <2>1, StartApart DEF StartInv, Flushed
    <2> QED
      BY <1>1, <2>1, StartApart DEF StartInv, Flushed
  <1> QED
    BY <1>1, <1>2, <1>3, <1>4 DEF StartInv

LEMMA StartStep == StartInv /\ [Start!Next]_(Start!vars) => StartInv'
  <1> SUFFICES ASSUME StartInv, [Start!Next]_(Start!vars) PROVE StartInv'
    OBVIOUS
  <1>1. CASE UNCHANGED Start!vars
    <2> USE <1>1 DEF Start!vars, Start!peer, Start!target, Start!refs
    <2>1. StartTypes' /\ Told'
      BY DEF StartInv, StartTypes, Told
    <2> QED
      BY <2>1, Untouched DEF StartInv
  <1>2. CASE Start!Next
    <2>1. ~bugcheck
      BY <1>2 DEF Start!Next
    <2>2. CASE Start!ProtLoads \/ Start!ProtRegisters \/ Start!NICExCallback \/ Start!ProtUnloads
      BY <2>1, <2>2, PeerKeeps, NICExCallbackKeeps
    <2>3. CASE \/ Start!MPInitialize \/ Start!NICInitializeAdapter \/ Start!CallbackRegisters
               \/ Start!CallbackNotifies \/ Start!CallbackCounts
      BY <2>1, <2>3, MPInitializeKeeps, NICInitializeAdapterKeeps, CallbackKeeps
    <2>4. CASE \E t \in Start!Openers : Start!Worker(t)
      <3>1. PICK t \in Start!Openers : Start!Worker(t)
        BY <2>4
      <3> QED
        BY <3>1, WorkerWaitsKeeps, WorkerOpensKeeps, WorkerAllocatesKeeps, WorkerAllocatedKeeps,
           WorkerQueriesKeeps, WorkerReadyKeeps, WorkerPostsStatusKeeps, WorkerFreesKeeps,
           WorkerFreedKeeps, WorkerSetsKeeps DEF Start!Worker
    <2>5. CASE \E i \in Items : Start!ItemDeletes(i) \/ Start!ItemClears(i)
      BY <2>5, ItemEnds
    <2>6. CASE \/ Start!ReadsPost \/ Start!ReadsEnd \/ Start!MPQueryInformation
               \/ Start!MPSetInformation \/ Start!NICRequestWorkItemCallback
      BY <2>6, TrafficKeeps
    <2>7. CASE Start!HaltBegins \/ Start!Halt
      BY <2>7, HaltBeginsKeeps, HaltFlagsKeeps, HaltUnregistersKeeps, HaltClosesKeeps,
         HaltEmptiesKeeps, HaltFlushesItemKeeps, HaltFreesKeeps, HaltDeletesKeeps DEF Start!Halt
    <2> QED
      BY <1>2, <2>2, <2>3, <2>4, <2>5, <2>6, <2>7 DEF Start!Next
  <1> QED
    BY <1>1, <1>2

LEMMA StartedSafely == StartInv => Start!StartSafe
  <1> SUFFICES ASSUME StartInv PROVE Start!StartSafe
    OBVIOUS
  <1>1. Start!TypeOK
    BY DEF StartInv, StartTypes, StartFlags, StartCounted, Start!TypeOK
  <1>2. Start!OneWorker
    <2> DEFINE In == {t \in Start!Openers : iPc[t] \in Inside}
    <2>1. Start!Cardinality(In) = Cardinality(In)
      BY DEF Start!Cardinality, Cardinality, Start!IsFiniteSet, IsFiniteSet
    <2>2. CASE InitEvent
      <3>1. In = {}
        BY <2>2 DEF StartInv, Admitted
      <3> QED
        BY <2>1, <2>2, <3>1, FS_EmptySet DEF Start!OneWorker, Inside
    <2>3. CASE ~InitEvent
      <3>1. PICK t : In = {t}
        BY <2>3 DEF StartInv, Admitted
      <3> QED
        BY <2>1, <2>3, <3>1, FS_Singleton DEF Start!OneWorker, Inside
    <2> QED
      BY <2>2, <2>3
  <1>3. Start!RefExact
    <2> DEFINE done == iPc["init"] = "start" \/ iPc["halt"] \in {"wait", "device", "freed"}
    <2>1. HaltEvent => iRefCount = 0
      BY DEF StartInv, StartCounted, StartPlaces, Called
    <2>2. iRefCount = (IF done THEN 0 ELSE 1) + (IF CallbackObject THEN 1 ELSE 0)
      <3>1. CASE done /\ CallbackObject
        BY <3>1 DEF StartInv, StartCounted
      <3>2. CASE done /\ ~CallbackObject
        BY <3>2 DEF StartInv, StartCounted
      <3>3. CASE ~done /\ CallbackObject
        BY <3>3 DEF StartInv, StartCounted
      <3>4. CASE ~done /\ ~CallbackObject
        BY <3>4 DEF StartInv, StartCounted
      <3> QED
        BY <3>1, <3>2, <3>3, <3>4
    <2> QED
      BY <2>1, <2>2 DEF Start!RefExact, Start!At
  <1>4. Start!NotMissed
    BY DEF StartInv, Told, Start!NotMissed, Start!At
  <1>5. Start!FreedUnused
    <2> DEFINE Came == {i \in Items : ~Start!At(i, "absent")}
    <2>1. Start!Cardinality(Came) = Cardinality(Came)
      BY DEF Start!Cardinality, Cardinality, Start!IsFiniteSet, IsFiniteSet
    <2>2. SUFFICES ASSUME iPc["halt"] \in {"device", "freed"}
                   PROVE  \/ \A t \in Start!Openers :
                                iPc[t] \in {"start", "absent", "failed", "done", "clear", "gone"}
                          \/ Cardinality(Came) > 1
      BY <2>1 DEF Start!FreedUnused
    <2>3. CASE Single
      <3>1. \A i \in Items : iPc[i] \in {"absent", "clear", "gone"}
        BY <2>2, <2>3 DEF StartInv, Flushed
      <3>2. iPc["init"] \in {"done", "failed"}
        BY <2>2 DEF StartInv, StartPlaces
      <3> QED
        BY <3>1, <3>2, StartApart
    <2>4. CASE ~Single
      <3>1. PICK i \in Items, j \in Items : iPc[i] # "absent" /\ iPc[j] # "absent" /\ i # j
        BY <2>4 DEF Single
      <3>2. IsFiniteSet(Came) /\ {i, j} \subseteq Came
        BY <3>1, StartApart, FS_Subset DEF Start!At
      <3>3. Cardinality({i, j}) <= Cardinality(Came)
        BY <3>2, FS_Subset
      <3>4. Cardinality({i, j}) = 2
        <4>1. {i, j} = {i} \cup {j} /\ j \notin {i}
          BY <3>1
        <4>2. IsFiniteSet({i}) /\ Cardinality({i}) = 1
          BY FS_Singleton
        <4> QED
          BY <4>1, <4>2, FS_AddElement
      <3>5. Cardinality(Came) \in Nat
        BY <3>2, FS_CardinalityType
      <3> QED
        BY <3>3, <3>4, <3>5
    <2> QED
      BY <2>3, <2>4
  <1>6. Start!ReadyHasResources
    BY DEF StartInv, StartPlaces, Equipped, Start!ReadyHasResources, Start!MP_IS_READY, Start!At, Start!Opened
  <1> QED
    BY <1>1, <1>2, <1>3, <1>4, <1>5, <1>6 DEF Start!StartSafe

\* NdisEdgeInit: one thread at a time opens the adapter, an adapter that waits for
\* ndisprot is told of it, the references are exact, resources are there when the
\* flags say so, and the halt frees under nobody unless there was a second
\* notification, in any overlap of the initialisation, the notifications and the halt.
THEOREM StartAlwaysSafe == Start!Spec => []StartSafe
  <1>1. Start!Init => StartInv
    BY StartInit
  <1>2. StartInv /\ [Start!Next]_(Start!vars) => StartInv'
    BY StartStep
  <1>3. StartInv => StartSafe
    BY StartedSafely DEF StartSafe
  <1> QED
    BY <1>1, <1>2, <1>3, PTL DEF Start!Spec

=============================================================================
