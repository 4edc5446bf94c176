------------------------- MODULE VideoReceiverProofs -------------------------
(***************************************************************************)
(* Proofs about VideoReceiver, for any set of processes and descriptors,   *)
(* any MaxSources and any MaxPriority.                                     *)
(***************************************************************************)
EXTENDS VideoReceiver, TLAPS, FiniteSetTheorems, SequenceTheorems, WellFoundedInduction

-----------------------------------------------------------------------------
(* Extrema of sets of naturals *)

LEMMA MinExists ==
    ASSUME NEW P \in SUBSET Nat, P # {}
    PROVE  \E m \in P : \A p \in P : m <= p
<1>1. PICK m \in P : \A p \in P : ~ (<<p, m>> \in OpToRel(<, Nat))
  BY NatLessThanWellFounded, WFMin
<1>2. \A p \in P : ~ (p < m)
  BY <1>1 DEF OpToRel
<1> QED
  BY <1>2

LEMMA MaxExists ==
    ASSUME NEW P \in SUBSET Nat, P # {}, NEW n \in Nat, \A p \in P : p <= n
    PROVE  \E m \in P : \A p \in P : p <= m
<1> DEFINE Q == {n - p : p \in P}
<1>1. Q \in SUBSET Nat /\ Q # {}
  <2>1. \A p \in P : n - p \in Nat
    OBVIOUS
  <2>2. PICK p \in P : TRUE
    OBVIOUS
  <2>3. n - p \in Q
    BY <2>2
  <2> QED
    BY <2>1, <2>3
<1>2. PICK k \in Q : \A q \in Q : k <= q
  BY <1>1, MinExists
<1>3. PICK m \in P : k = n - m
  OBVIOUS
<1>4. \A p \in P : n - m <= n - p
  <2> SUFFICES ASSUME NEW p \in P  PROVE n - m <= n - p
    OBVIOUS
  <2>1. n - p \in Q
    OBVIOUS
  <2> QED
    BY <1>2, <1>3, <2>1
<1> QED
  BY <1>4

(* The slot the loops of pick_active and yield end with exists, and is the *)
(* first of the slots of highest priority.                                 *)
LEMMA BestOfIsBest ==
    ASSUME NEW s, NEW I \in SUBSET Nat, I # {}, NEW n \in Nat,
           \A i \in I : s[i].priority \in Nat /\ s[i].priority <= n
    PROVE  /\ BestOf(s, I) \in I
           /\ \A j \in I : \/ s[j].priority < s[BestOf(s, I)].priority
                           \/ /\ s[j].priority = s[BestOf(s, I)].priority
                              /\ BestOf(s, I) <= j
<1> DEFINE P == {s[i].priority : i \in I}
<1>a. P \in SUBSET Nat /\ P # {} /\ \A p \in P : p <= n
  <2>1. PICK i \in I : TRUE
    OBVIOUS
  <2>2. s[i].priority \in P
    BY <2>1
  <2> QED
    BY <2>2
<1>b. \A i \in I : s[i].priority \in P
  OBVIOUS
<1>c. \A p \in P : \E i \in I : p = s[i].priority
  OBVIOUS
<1> HIDE DEF P
<1>1. PICK m \in P : \A p \in P : p <= m
  BY <1>a, MaxExists
<1> DEFINE J == {i \in I : s[i].priority = m}
<1>2. J # {} /\ J \in SUBSET Nat
  BY <1>1, <1>c
<1> HIDE DEF J
<1>3. PICK k \in J : \A j \in J : k <= j
  BY <1>2, MinExists
<1>4. k \in I /\ s[k].priority = m
  BY <1>3 DEF J
<1>5. \A j \in I : \/ s[j].priority < s[k].priority
                   \/ s[j].priority = s[k].priority /\ k <= j
  <2> TAKE j \in I
  <2>1. s[j].priority <= m
    BY <1>1, <1>b
  <2>2. CASE s[j].priority = m
    BY <2>2, <1>3, <1>4 DEF J
  <2>3. CASE s[j].priority # m
    BY <2>1, <2>3, <1>1, <1>a, <1>4
  <2> QED
    BY <2>2, <2>3
<1> QED
  BY <1>4, <1>5 DEF BestOf

(* Arrays of sources as sequences *)
LEMMA SourceArray ==
    ASSUME NEW s \in Seq(Source)
    PROVE  /\ Len(s) \in Nat
           /\ DOMAIN s = 1..Len(s)
           /\ s = <<>> <=> Len(s) = 0
           /\ \A i \in DOMAIN s : /\ s[i] \in Source
                                 /\ s[i].fd \in Fds
                                 /\ s[i].pid \in Pids
                                 /\ s[i].priority \in Nat
<1>1. Len(s) \in Nat /\ DOMAIN s = 1..Len(s)
  BY LenProperties
<1>2. \A i \in DOMAIN s : s[i] \in Source
  BY <1>1, ElementOfSeq
<1>3. \A i \in DOMAIN s : s[i].fd \in Fds /\ s[i].pid \in Pids /\ s[i].priority \in Nat
  BY <1>2 DEF Source
<1>4. s = <<>> <=> Len(s) = 0
  BY EmptySeq
<1> QED
  BY <1>1, <1>2, <1>3, <1>4

LEMMA ArrayIntro ==
    ASSUME NEW n \in Nat, NEW f \in [1..n -> Source]
    PROVE  f \in Seq(Source) /\ Len(f) = n /\ DOMAIN f = 1..n
<1>1. f \in Seq(Source)
  BY SeqDef
<1> QED
  BY <1>1, LenProperties

(* The value pick_active_locked returns. *)
LEMMA PickActiveIsBest ==
    ASSUME NEW s \in Seq(Source), NEW n \in Nat,
           \A i \in DOMAIN s : s[i].priority <= n
    PROVE  /\ s = <<>> => PickActive(s) = NoPid
           /\ s # <<>> => \E i \in DOMAIN s :
                /\ PickActive(s) = s[i].pid
                /\ \A j \in DOMAIN s : \/ s[j].priority < s[i].priority
                                       \/ s[j].priority = s[i].priority /\ i <= j
<1>2. \A i \in DOMAIN s : s[i].priority \in Nat
  BY SourceArray
<1>3. CASE s # <<>>
  <2>1. DOMAIN s # {} /\ DOMAIN s \in SUBSET Nat
    BY <1>3, SourceArray
  <2>2. BestOf(s, DOMAIN s) \in DOMAIN s
    BY <1>2, <2>1, BestOfIsBest
  <2>3. \A j \in DOMAIN s : \/ s[j].priority < s[BestOf(s, DOMAIN s)].priority
                            \/ /\ s[j].priority = s[BestOf(s, DOMAIN s)].priority
                               /\ BestOf(s, DOMAIN s) <= j
    BY <1>2, <2>1, BestOfIsBest
  <2> QED
    BY <1>3, <2>2, <2>3 DEF PickActive
<1> QED
  BY <1>3 DEF PickActive

LEMMA PickActiveType ==
    ASSUME NEW s \in Seq(Source), NEW n \in Nat,
           \A i \in DOMAIN s : s[i].priority <= n
    PROVE  PickActive(s) \in Pids \cup {NoPid}
<1>1. \A i \in DOMAIN s : s[i].pid \in Pids
  BY SourceArray
<1> QED
  BY <1>1, PickActiveIsBest

(* The streams of one process are raised in the order of their slots: the  *)
(* numbers they get are different and all below the new next_priority.     *)
LEMMA RankOrdered ==
    ASSUME NEW M \in SUBSET Nat, IsFiniteSet(M)
    PROVE  /\ Cardinality(M) \in Nat
           /\ \A i \in M : /\ Cardinality({j \in M : j < i}) \in Nat
                           /\ Cardinality({j \in M : j < i}) < Cardinality(M)
           /\ \A i, k \in M : i < k =>
                Cardinality({j \in M : j < i}) < Cardinality({j \in M : j < k})
<1> DEFINE Below(i) == {j \in M : j < i}
<1>1. Cardinality(M) \in Nat
  BY FS_CardinalityType
<1>2. ASSUME NEW i \in M
      PROVE  IsFiniteSet(Below(i)) /\ Cardinality(Below(i)) \in Nat
  BY FS_Subset, FS_CardinalityType
<1>3. ASSUME NEW i \in M
      PROVE  Cardinality(Below(i)) < Cardinality(M)
  <2>1. Below(i) \in SUBSET M /\ Below(i) # M
    OBVIOUS
  <2> QED
    BY <1>1, <1>2, <2>1, FS_Subset
<1>4. ASSUME NEW i \in M, NEW k \in M, i < k
      PROVE  Cardinality(Below(i)) < Cardinality(Below(k))
  <2>1. Below(i) \in SUBSET Below(k)
    <3>1. \A j \in M : j < i => j < k
      BY <1>4
    <3> QED
      BY <3>1
  <2>2. i \in Below(k) /\ i \notin Below(i)
    BY <1>4
  <2>3. Below(i) # Below(k)
    BY <2>2
  <2> HIDE DEF Below
  <2>4. /\ Cardinality(Below(i)) <= Cardinality(Below(k))
        /\ Cardinality(Below(i)) # Cardinality(Below(k))
    BY <1>2, <2>1, <2>3, FS_Subset
  <2> QED
    BY <1>2, <2>4
<1> QED
  BY <1>1, <1>2, <1>3, <1>4

-----------------------------------------------------------------------------
(* The inductive invariant *)

(* update_active_locked, called with an array of legal sources whose       *)
(* priorities are below next_priority, leaves active_pid and the gate      *)
(* consistent.                                                             *)
LEMMA UpdateActiveKeeps ==
    ASSUME TypeOK, GateConsistent,
           NEW s \in Seq(Source), Len(s) <= MaxSources,
           next_priority' \in Nat,
           \A i \in DOMAIN s : s[i].priority < next_priority',
           UpdateActive(s), UNCHANGED <<frame, shown>>
    PROVE  /\ active_pid' \in Pids \cup {NoPid}
           /\ awaiting_keyframe' \in BOOLEAN /\ wait_expired' \in BOOLEAN
           /\ ActiveIsBest'
           /\ GateConsistent'
<1>1. \A i \in DOMAIN s : s[i].priority <= next_priority'
  BY SourceArray
<1>2. active_pid' \in Pids \cup {NoPid}
  BY <1>1, PickActiveType DEF UpdateActive
<1>3. awaiting_keyframe' \in BOOLEAN /\ wait_expired' \in BOOLEAN
  BY DEF UpdateActive, TypeOK, gateVars
<1>4. ActiveIsBest'
  BY DEF UpdateActive, ActiveIsBest
<1>5. GateConsistent'
  BY DEF UpdateActive, GateConsistent, gateVars
<1> QED
  BY <1>2, <1>3, <1>4, <1>5

(* What each operation makes of the array *)

LEMMA RemovedArray ==
    ASSUME NEW s \in Seq(Source), NEW i \in DOMAIN s
    PROVE  /\ RemoveSlot(s, i) \in Seq(Source)
           /\ Len(RemoveSlot(s, i)) = Len(s) - 1
           /\ DOMAIN RemoveSlot(s, i) = 1..(Len(s) - 1)
           /\ \A j \in 1..(Len(s) - 1) :
                RemoveSlot(s, i)[j] = IF j = i THEN s[Len(s)] ELSE s[j]
<1>1. Len(s) - 1 \in Nat /\ Len(s) \in DOMAIN s /\ 1..(Len(s) - 1) \subseteq DOMAIN s
  BY SourceArray
<1>2. RemoveSlot(s, i) \in [1..(Len(s) - 1) -> Source]
  BY <1>1, SourceArray DEF RemoveSlot
<1>3. \A j \in 1..(Len(s) - 1) :
        RemoveSlot(s, i)[j] = IF j = i THEN s[Len(s)] ELSE s[j]
  BY DEF RemoveSlot
<1> QED
  BY <1>1, <1>2, <1>3, ArrayIntro

LEMMA AppendedArray ==
    ASSUME NEW s \in Seq(Source), NEW e \in Source
    PROVE  /\ Append(s, e) \in Seq(Source)
           /\ Len(Append(s, e)) = Len(s) + 1
           /\ DOMAIN Append(s, e) = 1..(Len(s) + 1)
           /\ \A j \in 1..(Len(s) + 1) :
                Append(s, e)[j] = IF j = Len(s) + 1 THEN e ELSE s[j]
<1>1. /\ Append(s, e) \in Seq(Source)
      /\ Len(Append(s, e)) = Len(s) + 1
      /\ \A j \in 1..Len(s) : Append(s, e)[j] = s[j]
      /\ Append(s, e)[Len(s) + 1] = e
  BY AppendProperties
<1>2. DOMAIN Append(s, e) = 1..(Len(s) + 1)
  BY <1>1, LenProperties
<1> QED
  BY <1>1, <1>2, SourceArray

(* Only priorities change: RaiseAll and LowerAll keep fds and pids. *)
LEMMA RaisedArray ==
    ASSUME TypeOK, NEW I \in SUBSET DOMAIN sources
    PROVE  LET r == RaiseAll(I) IN
           /\ r \in Seq(Source) /\ Len(r) = Len(sources) /\ DOMAIN r = DOMAIN sources
           /\ \A i \in DOMAIN sources : r[i].fd = sources[i].fd /\ r[i].pid = sources[i].pid
           /\ \A i \in DOMAIN sources \ I : r[i].priority = sources[i].priority
           /\ \A i \in I : /\ r[i].priority >= next_priority
                           /\ r[i].priority < next_priority + Cardinality(I)
           /\ \A i, k \in I : i < k => r[i].priority < r[k].priority
           /\ Cardinality(I) \in Nat
<1> DEFINE rank(i) == Cardinality({j \in I : j < i})
           r == RaiseAll(I)
<1>1. /\ sources \in Seq(Source) /\ next_priority \in Nat
      /\ DOMAIN sources = 1..Len(sources) /\ Len(sources) \in Nat
  BY SourceArray, MaxPriorityAssumption DEF TypeOK
<1>2. I \in SUBSET Nat /\ IsFiniteSet(I)
  <2>1. IsFiniteSet(1..Len(sources))
    BY <1>1, FS_Interval
  <2>2. I \in SUBSET (1..Len(sources))
    BY <1>1
  <2>3. IsFiniteSet(I)
    BY <2>1, <2>2, FS_Subset
  <2> QED
    BY <1>1, <2>2, <2>3
<1>3. /\ Cardinality(I) \in Nat
      /\ \A i \in I : rank(i) \in Nat /\ rank(i) < Cardinality(I)
      /\ \A i, k \in I : i < k => rank(i) < rank(k)
  BY <1>2, RankOrdered
<1> HIDE DEF rank
<1>4. r = [i \in DOMAIN sources |->
             IF i \in I THEN [sources[i] EXCEPT !.priority = next_priority + rank(i)]
             ELSE sources[i]]
  BY DEF RaiseAll, rank
<1> HIDE DEF r
<1>5. \A i \in DOMAIN sources : sources[i] \in Source
  BY <1>1, SourceArray
<1>6. \A i \in I : next_priority + rank(i) \in Nat
  BY <1>1, <1>3
<1>7. \A i \in I : /\ r[i].fd = sources[i].fd /\ r[i].pid = sources[i].pid
                   /\ r[i].priority = next_priority + rank(i)
                   /\ r[i] \in Source
  BY <1>4, <1>5, <1>6 DEF Source
<1>8. \A i \in DOMAIN sources \ I : r[i] = sources[i]
  BY <1>4
<1>9. r \in [1..Len(sources) -> Source]
  BY <1>1, <1>4, <1>5, <1>7, <1>8
<1>10. r \in Seq(Source) /\ Len(r) = Len(sources) /\ DOMAIN r = DOMAIN sources
  BY <1>1, <1>9, ArrayIntro
<1>11. /\ \A i \in I : /\ r[i].priority >= next_priority
                       /\ r[i].priority < next_priority + Cardinality(I)
       /\ \A i, k \in I : i < k => r[i].priority < r[k].priority
  BY <1>1, <1>3, <1>7
<1> QED
  BY <1>3, <1>7, <1>8, <1>10, <1>11 DEF r

LEMMA LoweredArray ==
    ASSUME TypeOK, NEW p, NEW next
    PROVE  LET r == LowerAll(p, next) IN
           /\ r \in Seq(Source) /\ Len(r) = Len(sources) /\ DOMAIN r = DOMAIN sources
           /\ \A i \in DOMAIN sources : r[i].fd = sources[i].fd /\ r[i].pid = sources[i].pid
           /\ \A i \in DOMAIN sources :
                r[i].priority = IF sources[i].pid = p THEN 0
                                ELSE IF i = next THEN next_priority
                                ELSE sources[i].priority
<1> DEFINE r == LowerAll(p, next)
<1>1. /\ sources \in Seq(Source) /\ next_priority \in Nat
      /\ DOMAIN sources = 1..Len(sources) /\ Len(sources) \in Nat
      /\ \A i \in DOMAIN sources : sources[i] \in Source
  BY SourceArray, MaxPriorityAssumption DEF TypeOK
<1>2. \A i \in DOMAIN sources :
         /\ r[i] \in Source
         /\ r[i].fd = sources[i].fd /\ r[i].pid = sources[i].pid
         /\ r[i].priority = IF sources[i].pid = p THEN 0
                            ELSE IF i = next THEN next_priority
                            ELSE sources[i].priority
  BY <1>1 DEF LowerAll, SlotsOf, Source
<1>3. r \in [1..Len(sources) -> Source]
  BY <1>1, <1>2 DEF LowerAll
<1>4. r \in Seq(Source) /\ Len(r) = Len(sources) /\ DOMAIN r = DOMAIN sources
  BY <1>1, <1>3, ArrayIntro
<1> QED
  BY <1>2, <1>4

-----------------------------------------------------------------------------
(* The steps that change the array *)

LEMMA RemoveSourceKeeps ==
    ASSUME ReceiverInv, NEW i \in ready, RemoveSource(i)
    PROVE  ReceiverInv'
<1> USE DEF ReceiverInv
<1> DEFINE r == RemoveSlot(sources, i)
<1>1. /\ sources \in Seq(Source) /\ i \in DOMAIN sources
      /\ Len(sources) \in Nat /\ DOMAIN sources = 1..Len(sources)
  BY SourceArray DEF TypeOK, SnapshotValid
<1>2. /\ r \in Seq(Source) /\ Len(r) = Len(sources) - 1
      /\ DOMAIN r = 1..(Len(sources) - 1)
      /\ \A j \in 1..(Len(sources) - 1) : r[j] = IF j = i THEN sources[Len(sources)] ELSE sources[j]
  BY <1>1, RemovedArray
<1> HIDE DEF r
<1>3. sources' = r /\ next_priority' = next_priority
  BY DEF RemoveSource, UpdateActive, r
<1>4. \A j \in DOMAIN r : \E k \in DOMAIN sources : r[j] = sources[k]
  BY <1>1, <1>2
<1>5. PrioritiesOrdered'
  <2>1. \A j \in DOMAIN r : r[j].priority < next_priority
    BY <1>4 DEF PrioritiesOrdered
  <2>2. \A j, k \in DOMAIN r : j # k /\ r[j].priority = r[k].priority => r[j].priority = 0
    BY <1>1, <1>2 DEF PrioritiesOrdered
  <2> QED
    BY <1>3, <2>1, <2>2 DEF PrioritiesOrdered
<1>6. next_priority' \in Nat /\ Len(r) <= MaxSources
  BY <1>1, <1>2, <1>3, MaxSourcesAssumption, MaxPriorityAssumption DEF TypeOK
<1>7. /\ active_pid' \in Pids \cup {NoPid}
      /\ awaiting_keyframe' \in BOOLEAN /\ wait_expired' \in BOOLEAN
      /\ ActiveIsBest' /\ GateConsistent'
  <2>1. UpdateActive(r) /\ UNCHANGED <<frame, shown>>
    BY DEF RemoveSource, r, frameVars
  <2>2. \A j \in DOMAIN r : r[j].priority < next_priority'
    BY <1>3, <1>5 DEF PrioritiesOrdered
  <2> QED
    BY <1>2, <1>6, <2>1, <2>2, UpdateActiveKeeps
<1>8. TypeOK'
  BY <1>2, <1>3, <1>6, <1>7 DEF TypeOK, RemoveSource, frameVars
<1>9. SnapshotValid'
  <2> SUFFICES ASSUME NEW j \in ready'
               PROVE  j <= Len(r) /\ r[j].fd = polled[j]
    BY <1>3 DEF SnapshotValid, RemoveSource
  <2>1. j \in ready /\ j # i /\ j <= i
    BY DEF RemoveSource, Visiting
  <2>2. j \in 1..Len(sources)
    BY <2>1, <1>1, LenProperties DEF TypeOK, SnapshotValid
  <2>3. j < Len(sources)
    BY <2>1, <2>2, <1>1
  <2> QED
    BY <2>1, <2>2, <2>3, <1>1, <1>2 DEF SnapshotValid
<1>10. FdsDistinct'
  <2>1. \A j, k \in DOMAIN r : r[j].fd = r[k].fd => j = k
    BY <1>1, <1>2 DEF FdsDistinct
  <2> QED
    BY <1>3, <2>1 DEF FdsDistinct
<1> QED
  BY <1>5, <1>7, <1>8, <1>9, <1>10

LEMMA AcceptSourceKeeps ==
    ASSUME ReceiverInv, NEW fd \in Fds, NEW pid \in Pids, AcceptSource(fd, pid)
    PROVE  ReceiverInv'
<1> USE DEF ReceiverInv
<1> DEFINE e == [fd |-> fd, pid |-> pid, priority |-> next_priority]
           r == Append(sources, e)
<1>1. /\ sources \in Seq(Source) /\ next_priority \in Nat
      /\ Len(sources) \in Nat /\ DOMAIN sources = 1..Len(sources)
      /\ \A i \in DOMAIN sources : sources[i].priority \in Nat
  BY SourceArray DEF TypeOK
<1>2. e \in Source
  BY <1>1 DEF Source
<1>3. e.fd = fd /\ e.priority = next_priority
  OBVIOUS
<1> HIDE DEF e
<1>4. /\ r \in Seq(Source) /\ Len(r) = Len(sources) + 1
      /\ DOMAIN r = 1..(Len(sources) + 1)
      /\ \A j \in 1..(Len(sources) + 1) : r[j] = IF j = Len(sources) + 1 THEN e ELSE sources[j]
  BY <1>1, <1>2, AppendedArray
<1> HIDE DEF r
<1>5. /\ sources' = r /\ next_priority' = next_priority + 1
      /\ next_priority < MaxPriority /\ Len(sources) < MaxSources
      /\ ready = {} /\ ready' = {}
  BY DEF AcceptSource, UpdateActive, Accepting, r, e
<1>6. PrioritiesOrdered'
  <2>1. \A j \in DOMAIN r : r[j].priority < next_priority + 1
    BY <1>1, <1>3, <1>4 DEF PrioritiesOrdered
  <2>2. \A j, k \in DOMAIN r : j # k /\ r[j].priority = r[k].priority => r[j].priority = 0
    BY <1>1, <1>3, <1>4 DEF PrioritiesOrdered
  <2> QED
    BY <1>5, <2>1, <2>2 DEF PrioritiesOrdered
<1>7. next_priority' \in 1..MaxPriority /\ next_priority' \in Nat /\ Len(r) <= MaxSources
  BY <1>1, <1>4, <1>5, MaxSourcesAssumption, MaxPriorityAssumption
<1>8. /\ active_pid' \in Pids \cup {NoPid}
      /\ awaiting_keyframe' \in BOOLEAN /\ wait_expired' \in BOOLEAN
      /\ ActiveIsBest' /\ GateConsistent'
  <2>1. UpdateActive(r) /\ UNCHANGED <<frame, shown>>
    BY DEF AcceptSource, r, e, frameVars
  <2>2. \A j \in DOMAIN r : r[j].priority < next_priority'
    BY <1>5, <1>6 DEF PrioritiesOrdered
  <2> QED
    BY <1>4, <1>7, <2>1, <2>2, UpdateActiveKeeps
<1>9. TypeOK'
  BY <1>4, <1>5, <1>7, <1>8 DEF TypeOK, AcceptSource, frameVars
<1>10. SnapshotValid'
  BY <1>5 DEF SnapshotValid
<1>11. FdsDistinct'
  <2>1. \A i \in DOMAIN sources : sources[i].fd # fd
    BY DEF AcceptSource
  <2>2. \A j, k \in DOMAIN r : r[j].fd = r[k].fd => j = k
    BY <1>1, <1>3, <1>4, <2>1 DEF FdsDistinct
  <2> QED
    BY <1>5, <2>2 DEF FdsDistinct
<1> QED
  BY <1>6, <1>8, <1>9, <1>10, <1>11

(* RequestActive and YieldScreen replace the array by one of the same      *)
(* streams with other priorities.                                          *)
LEMMA ReprioritizeKeeps ==
    ASSUME ReceiverInv, NEW r \in Seq(Source),
           DOMAIN r = DOMAIN sources, Len(r) = Len(sources),
           \A i \in DOMAIN sources : r[i].fd = sources[i].fd,
           next_priority' \in 1..MaxPriority,
           \A i \in DOMAIN r : r[i].priority < next_priority',
           \A i, j \in DOMAIN r :
             i # j /\ r[i].priority = r[j].priority => r[i].priority = 0,
           UpdateActive(r),
           UNCHANGED <<receiverVars, frame, shown>>,
           restarted' = restarted, sink_active' = sink_active,
           switching' \in {<<>>, switching}
    PROVE  ReceiverInv'
<1> USE DEF ReceiverInv
<1>1. next_priority' \in Nat /\ Len(r) <= MaxSources
  BY MaxPriorityAssumption DEF TypeOK
<1>2. /\ active_pid' \in Pids \cup {NoPid}
      /\ awaiting_keyframe' \in BOOLEAN /\ wait_expired' \in BOOLEAN
      /\ ActiveIsBest' /\ GateConsistent'
  BY <1>1, UpdateActiveKeeps
<1>3. sources' = r
  BY DEF UpdateActive
<1>4. TypeOK'
  BY <1>1, <1>2, <1>3 DEF TypeOK, receiverVars
<1>5. PrioritiesOrdered'
  BY <1>3 DEF PrioritiesOrdered
<1>6. SnapshotValid'
  <2>1. \A i \in ready : i \in DOMAIN sources
    BY SourceArray, LenProperties DEF TypeOK, SnapshotValid
  <2> QED
    BY <1>3, <2>1 DEF SnapshotValid, receiverVars
<1>7. FdsDistinct'
  BY <1>3 DEF FdsDistinct
<1> QED
  BY <1>2, <1>4, <1>5, <1>6, <1>7

LEMMA RequestActiveKeeps ==
    ASSUME ReceiverInv, NEW p \in Pids, RequestActive(p)
    PROVE  ReceiverInv'
<1> DEFINE r == RaiseAll(SlotsOf(p))
<1>1. /\ TypeOK /\ PrioritiesOrdered /\ SlotsOf(p) \in SUBSET DOMAIN sources
      /\ DOMAIN sources \in SUBSET Nat
      /\ next_priority \in Nat /\ next_priority \in 1..MaxPriority
      /\ \A i \in DOMAIN sources : sources[i].priority \in Nat
  BY SourceArray, MaxPriorityAssumption DEF ReceiverInv, SlotsOf, TypeOK
<1>2. /\ r \in Seq(Source) /\ Len(r) = Len(sources) /\ DOMAIN r = DOMAIN sources
      /\ \A i \in DOMAIN sources : r[i].fd = sources[i].fd
      /\ \A i \in DOMAIN sources \ SlotsOf(p) : r[i].priority = sources[i].priority
      /\ \A i \in SlotsOf(p) : /\ r[i].priority >= next_priority
                               /\ r[i].priority < next_priority + Cardinality(SlotsOf(p))
      /\ \A i, k \in SlotsOf(p) : i < k => r[i].priority < r[k].priority
      /\ Cardinality(SlotsOf(p)) \in Nat
  BY <1>1, RaisedArray
<1>3. \A i \in DOMAIN r : r[i].priority \in Nat
  BY <1>2, SourceArray
<1> HIDE DEF r
<1>4. /\ next_priority' = next_priority + Cardinality(SlotsOf(p))
      /\ next_priority + Cardinality(SlotsOf(p)) <= MaxPriority
  BY DEF RequestActive
<1>5. next_priority' \in 1..MaxPriority
  BY <1>1, <1>2, <1>4, MaxPriorityAssumption
<1>6. \A i \in DOMAIN r : r[i].priority < next_priority'
  BY <1>1, <1>2, <1>3, <1>4 DEF PrioritiesOrdered
<1>7. \A i, j \in DOMAIN r :
        i # j /\ r[i].priority = r[j].priority => r[i].priority = 0
  <2> SUFFICES ASSUME NEW i \in DOMAIN r, NEW j \in DOMAIN r,
                      i # j, r[i].priority = r[j].priority
               PROVE  r[i].priority = 0
    OBVIOUS
  <2>1. CASE i \in SlotsOf(p) /\ j \in SlotsOf(p)
    BY <1>1, <1>2, <1>3, <2>1
  <2>2. CASE i \notin SlotsOf(p) /\ j \notin SlotsOf(p)
    BY <1>1, <1>2, <2>2 DEF PrioritiesOrdered
  <2>3. CASE i \in SlotsOf(p) /\ j \notin SlotsOf(p)
    BY <1>1, <1>2, <1>3, <2>3 DEF PrioritiesOrdered
  <2>4. CASE i \notin SlotsOf(p) /\ j \in SlotsOf(p)
    BY <1>1, <1>2, <1>3, <2>4 DEF PrioritiesOrdered
  <2> QED
    BY <2>1, <2>2, <2>3, <2>4
<1> QED
  BY <1>2, <1>5, <1>6, <1>7, ReprioritizeKeeps
     DEF RequestActive, frameVars, r

LEMMA YieldScreenKeeps ==
    ASSUME ReceiverInv, NEW p, YieldScreen(p), switching' \in {<<>>, switching}
    PROVE  ReceiverInv'
<1> DEFINE others == DOMAIN sources \ SlotsOf(p)
           next == BestOf(sources, others)
           r == LowerAll(p, next)
<1>1. /\ TypeOK /\ PrioritiesOrdered
      /\ next_priority \in Nat /\ next_priority \in 1..MaxPriority
      /\ \A i \in DOMAIN sources : sources[i].priority \in Nat
  BY SourceArray, MaxPriorityAssumption DEF ReceiverInv, TypeOK
<1>2. /\ r \in Seq(Source) /\ Len(r) = Len(sources) /\ DOMAIN r = DOMAIN sources
      /\ \A i \in DOMAIN sources : r[i].fd = sources[i].fd
      /\ \A i \in DOMAIN sources :
           r[i].priority = IF sources[i].pid = p THEN 0
                           ELSE IF i = next THEN next_priority
                           ELSE sources[i].priority
  BY <1>1, LoweredArray
<1>3. /\ next_priority' = next_priority + (IF others = {} THEN 0 ELSE 1)
      /\ next_priority < MaxPriority
  BY DEF YieldScreen
<1>4. \A i \in DOMAIN sources : sources[i].pid # p => others # {}
  BY DEF SlotsOf
<1>5. UpdateActive(r)
  BY DEF YieldScreen
<1> HIDE DEF r, next, others
<1>6. next_priority' \in 1..MaxPriority
  BY <1>1, <1>3, MaxPriorityAssumption
<1>7. \A i \in DOMAIN r : r[i].priority < next_priority'
  BY <1>1, <1>2, <1>3, <1>4 DEF PrioritiesOrdered
<1>8. \A i, j \in DOMAIN r :
        i # j /\ r[i].priority = r[j].priority => r[i].priority = 0
  BY <1>1, <1>2 DEF PrioritiesOrdered
<1> QED
  BY <1>2, <1>5, <1>6, <1>7, <1>8, ReprioritizeKeeps
     DEF YieldScreen, frameVars

LEMMA InitEstablishes == Init => ReceiverInv
<1> SUFFICES ASSUME Init  PROVE ReceiverInv
  OBVIOUS
<1> USE DEF Init
<1>1. sources \in Seq(Source) /\ polled \in Seq(Fds) /\ Len(sources) = 0 /\ DOMAIN sources = {}
  <2>1. sources \in Seq(Source) /\ polled \in Seq(Fds)
    OBVIOUS
  <2> QED
    BY <2>1
<1>2. TypeOK
  <2>1. Len(sources) <= MaxSources /\ next_priority \in 1..MaxPriority
    BY <1>1, MaxSourcesAssumption, MaxPriorityAssumption
  <2>2. /\ ready \subseteq DOMAIN polled /\ listen_ready \in BOOLEAN
        /\ frame \in {<<>>} \cup {<<f>> : f \in Frame}
        /\ shown \in {<<>>} \cup {<<s>> : s \in Stream}
        /\ switching \in {<<>>} \cup {<<p>> : p \in Pids}
    OBVIOUS
  <2> QED
    BY <1>1, <2>1, <2>2 DEF TypeOK
<1>3. ActiveIsBest
  BY DEF ActiveIsBest, PickActive
<1>4. PrioritiesOrdered /\ SnapshotValid /\ FdsDistinct /\ GateConsistent
  BY <1>1 DEF PrioritiesOrdered, SnapshotValid, FdsDistinct, GateConsistent
<1> QED
  BY <1>2, <1>3, <1>4 DEF ReceiverInv

(* Every step of every thread keeps the invariant. *)
LEMMA StepKeeps == ReceiverInv /\ [Next]_vars => ReceiverInv'
<1> SUFFICES ASSUME ReceiverInv, [Next]_vars  PROVE ReceiverInv'
  OBVIOUS
<1> USE DEF choiceVars, gateVars, receiverVars, frameVars
<1>1. CASE PollWake
  <2>1. polled' \in Seq(Fds) /\ DOMAIN polled' = DOMAIN sources
    <3>1. sources \in Seq(Source) /\ DOMAIN sources = 1..Len(sources) /\ Len(sources) \in Nat
      BY SourceArray DEF ReceiverInv, TypeOK
    <3>2. polled' = [i \in DOMAIN sources |-> sources[i].fd]
      BY <1>1 DEF PollWake
    <3>3. polled' \in [1..Len(sources) -> Fds]
      BY <3>1, <3>2, SourceArray
    <3> QED
      BY <3>1, <3>3, SeqDef
  <2>2. ready' \subseteq DOMAIN sources /\ listen_ready' \in BOOLEAN
    BY <1>1 DEF PollWake
  <2>3. TypeOK'
    BY <1>1, <2>1, <2>2 DEF PollWake, ReceiverInv, TypeOK
  <2>4. SnapshotValid'
    BY <1>1, <2>2, SourceArray DEF PollWake, ReceiverInv, TypeOK, SnapshotValid
  <2>5. ActiveIsBest' /\ PrioritiesOrdered' /\ FdsDistinct' /\ GateConsistent'
    BY <1>1 DEF PollWake, ReceiverInv, ActiveIsBest, PrioritiesOrdered, FdsDistinct, GateConsistent
  <2> QED
    BY <2>3, <2>4, <2>5 DEF ReceiverInv
<1>2. ASSUME NEW i \in ready, NEW kind \in Kinds, HandleFrame(i, kind)
      PROVE  ReceiverInv'
  <2>1. sources[i].fd \in Fds /\ sources[i].pid \in Pids
    BY SourceArray, LenProperties DEF ReceiverInv, TypeOK, SnapshotValid
  <2>2. TypeOK'
    <3>1. frame' \in {<<>>} \cup {<<f>> : f \in Frame}
      BY <1>2, <2>1 DEF HandleFrame, Frame
    <3>2. awaiting_keyframe' \in BOOLEAN /\ restarted' \in BOOLEAN
      BY <1>2 DEF HandleFrame, ReceiverInv, TypeOK
    <3> QED
      BY <1>2, <3>1, <3>2 DEF HandleFrame, ReceiverInv, TypeOK
  <2>3. GateConsistent'
    BY <1>2 DEF HandleFrame, Visiting, OnScreen, Held, ReceiverInv, TypeOK, GateConsistent
  <2>4. ActiveIsBest' /\ PrioritiesOrdered' /\ SnapshotValid' /\ FdsDistinct'
    BY <1>2 DEF HandleFrame, ReceiverInv, ActiveIsBest, PrioritiesOrdered, SnapshotValid, FdsDistinct
  <2> QED
    BY <2>2, <2>3, <2>4 DEF ReceiverInv
<1>3. ASSUME NEW i \in ready, SourceDrained(i)
      PROVE  ReceiverInv'
  BY <1>3 DEF SourceDrained, ReceiverInv, TypeOK, ActiveIsBest, PrioritiesOrdered, SnapshotValid,
              FdsDistinct, GateConsistent
<1>4. ASSUME NEW i \in ready, RemoveSource(i)
      PROVE  ReceiverInv'
  BY <1>4, RemoveSourceKeeps
<1>5. CASE FrameWritten
  <2>1. PICK f \in Frame : frame = <<f>>
    BY <1>5 DEF FrameWritten, ReceiverInv, TypeOK
  <2>2. shown' = <<[fd |-> f.fd, pid |-> f.pid]>> /\ f.fd \in Fds /\ f.pid \in Pids
    BY <1>5, <2>1 DEF FrameWritten, Frame
  <2>3. TypeOK'
    BY <1>5, <2>2 DEF FrameWritten, ReceiverInv, TypeOK, Stream
  <2>4. GateConsistent'
    BY <1>5, <2>1, <2>2 DEF FrameWritten, ReceiverInv, GateConsistent
  <2>5. ActiveIsBest' /\ PrioritiesOrdered' /\ SnapshotValid' /\ FdsDistinct'
    BY <1>5 DEF FrameWritten, ReceiverInv, ActiveIsBest, PrioritiesOrdered, SnapshotValid, FdsDistinct
  <2> QED
    BY <2>3, <2>4, <2>5 DEF ReceiverInv
<1>6. ASSUME NEW fd \in Fds, NEW pid \in Pids, AcceptSource(fd, pid)
      PROVE  ReceiverInv'
  BY <1>6, AcceptSourceKeeps
<1>7. CASE AcceptDeclined
  BY <1>7 DEF AcceptDeclined, ReceiverInv, TypeOK, ActiveIsBest, PrioritiesOrdered, SnapshotValid,
              FdsDistinct, GateConsistent
<1>8. ASSUME NEW p \in Pids, RequestActive(p)
      PROVE  ReceiverInv'
  BY <1>8, RequestActiveKeeps
<1>9. ASSUME NEW p \in Pids, Yield(p)
      PROVE  ReceiverInv'
  BY <1>9, YieldScreenKeeps DEF Yield
<1>10. CASE SwitchRead
  BY <1>10 DEF SwitchRead, ReceiverInv, TypeOK, ActiveIsBest, PrioritiesOrdered, SnapshotValid,
               FdsDistinct, GateConsistent
<1>11. CASE SwitchYield
  BY <1>11, YieldScreenKeeps DEF SwitchYield
<1>12. CASE Activate
  BY <1>12 DEF Activate, ReceiverInv, TypeOK, ActiveIsBest, PrioritiesOrdered, SnapshotValid,
               FdsDistinct, GateConsistent
<1>13. CASE Deactivate
  BY <1>13 DEF Deactivate, ReceiverInv, TypeOK, ActiveIsBest, PrioritiesOrdered, SnapshotValid,
               FdsDistinct, GateConsistent
<1>14. CASE KeyframeWaitExpires
  BY <1>14 DEF KeyframeWaitExpires, ReceiverInv, TypeOK, ActiveIsBest, PrioritiesOrdered,
               SnapshotValid, FdsDistinct, GateConsistent
<1>15. CASE UNCHANGED vars
  BY <1>15 DEF vars, ReceiverInv, TypeOK, ActiveIsBest, PrioritiesOrdered, SnapshotValid,
               FdsDistinct, GateConsistent
<1> QED
  BY <1>1, <1>2, <1>3, <1>4, <1>5, <1>6, <1>7, <1>8, <1>9, <1>10, <1>11, <1>12,
     <1>13, <1>14, <1>15 DEF Next

(* The conjunction of the type invariant and the invariants on the array,  *)
(* the cached active pid and the gate holds in every reachable state.      *)
THEOREM Invariance == Spec => []ReceiverInv
<1>1. Init => ReceiverInv
  BY InitEstablishes
<1>2. ReceiverInv /\ [Next]_vars => ReceiverInv'
  BY StepKeeps
<1> QED
  BY <1>1, <1>2, PTL DEF Spec

(* The named invariants of the runs, for every value of the constants: the *)
(* cached active pid is never stale, and the slots the poll loop has still *)
(* to visit stay those poll reported.                                      *)
THEOREM TypeCorrect == Spec => []TypeOK
<1>1. ReceiverInv => TypeOK
  BY DEF ReceiverInv
<1> QED
  BY <1>1, Invariance, PTL

THEOREM ActiveNeverStale == Spec => []ActiveIsBest
<1>1. ReceiverInv => ActiveIsBest
  BY DEF ReceiverInv
<1> QED
  BY <1>1, Invariance, PTL

THEOREM SnapshotStaysValid == Spec => []SnapshotValid
<1>1. ReceiverInv => SnapshotValid
  BY DEF ReceiverInv
<1> QED
  BY <1>1, Invariance, PTL

-----------------------------------------------------------------------------
(* After a switch, by whichever thread and at whatever moment, the head    *)
(* unit gets no frame of the new process before a key frame, unless none   *)
(* came for 1.5 s.                                                         *)
THEOREM GateHolds == Spec => SwitchOpensWithKeyframe
<1> DEFINE A == frame = <<>> /\ frame' # <<>> /\ shown # <<>> =>
                  \/ frame'[1].pid = shown[1].pid
                  \/ frame'[1].kind = "key"
                  \/ wait_expired
<1>1. ReceiverInv /\ [Next]_vars => [A]_vars
  <2> SUFFICES ASSUME ReceiverInv, [Next]_vars, frame = <<>>, frame' # <<>>, shown # <<>>
               PROVE  \/ frame'[1].pid = shown[1].pid
                      \/ frame'[1].kind = "key"
                      \/ wait_expired
    OBVIOUS
  <2>1. PICK i \in ready, kind \in Kinds : HandleFrame(i, kind)
    BY DEF Next, vars, choiceVars, gateVars, frameVars, PollWake, SourceDrained,
           RemoveSource, FrameWritten, AcceptSource, AcceptDeclined, RequestActive,
           Yield, YieldScreen, SwitchRead, SwitchYield, Activate, Deactivate,
           KeyframeWaitExpires
  <2>2. /\ frame'[1].pid = active_pid /\ frame'[1].kind = kind
        /\ ~Held(kind)
    BY <2>1 DEF HandleFrame, OnScreen
  <2> QED
    BY <2>2 DEF Held, ReceiverInv, GateConsistent
<1> QED
  BY <1>1, Invariance, PTL DEF Spec, SwitchOpensWithKeyframe

-----------------------------------------------------------------------------
(* Refinement of ScreenOwner *)

LEMMA InitRefines == Init => Screen!Init
<1> SUFFICES ASSUME Init  PROVE Screen!Init
  OBVIOUS
<1>1. DOMAIN sources = {}
  BY DEF Init
<1> QED
  BY <1>1 DEF Init, Screen!Init

(* A stream that connects is above all others. *)
LEMMA AcceptRefines ==
    ASSUME ReceiverInv, NEW fd \in Fds, NEW pid \in Pids, AcceptSource(fd, pid)
    PROVE  Screen!Connect([fd |-> fd, pid |-> pid])
<1> DEFINE e == [fd |-> fd, pid |-> pid, priority |-> next_priority]
           r == Append(sources, e)
           n == Len(sources) + 1
<1>1. /\ sources \in Seq(Source) /\ next_priority \in Nat
      /\ Len(sources) \in Nat /\ DOMAIN sources = 1..Len(sources)
      /\ \A i \in DOMAIN sources : /\ sources[i].priority \in Nat
                                  /\ sources[i].priority < next_priority
  BY SourceArray, MaxPriorityAssumption DEF ReceiverInv, TypeOK, PrioritiesOrdered
<1>2. e \in Source /\ e.fd = fd /\ e.pid = pid /\ e.priority = next_priority
  BY <1>1 DEF Source
<1>3. sources' = r /\ active_pid' = PickActive(r)
  BY DEF AcceptSource, UpdateActive
<1> HIDE DEF e
<1>4. /\ r \in Seq(Source) /\ DOMAIN r = 1..n
      /\ \A j \in 1..n : r[j] = IF j = n THEN e ELSE sources[j]
  BY <1>1, <1>2, AppendedArray
<1> HIDE DEF r
<1>5. \A j \in DOMAIN r : r[j].priority <= next_priority
  BY <1>1, <1>2, <1>4
<1>6. n \in DOMAIN r /\ r # <<>> /\ r[n].priority = next_priority /\ r[n].pid = pid
  BY <1>1, <1>2, <1>4
<1>7. PICK i \in DOMAIN r :
         /\ PickActive(r) = r[i].pid
         /\ \A j \in DOMAIN r : \/ r[j].priority < r[i].priority
                                \/ r[j].priority = r[i].priority /\ i <= j
  BY <1>1, <1>4, <1>5, <1>6, PickActiveIsBest
<1>8. i = n
  <2> SUFFICES ASSUME i # n  PROVE FALSE
    OBVIOUS
  <2>1. r[i].priority < next_priority /\ r[i].priority \in Nat
    BY <1>1, <1>4
  <2> QED
    BY <1>1, <1>6, <1>7, <2>1
<1>9. active_pid' = pid
  BY <1>3, <1>6, <1>7, <1>8
<1>10. {[fd |-> sources'[k].fd, pid |-> sources'[k].pid] : k \in DOMAIN sources'}
        = {[fd |-> sources[k].fd, pid |-> sources[k].pid] : k \in DOMAIN sources}
            \cup {[fd |-> fd, pid |-> pid]}
  <2>1. DOMAIN r = DOMAIN sources \cup {n} /\ n \notin DOMAIN sources
    BY <1>1, <1>4
  <2>2. \A k \in DOMAIN sources : r[k] = sources[k]
    BY <1>1, <1>4
  <2>3. r[n].fd = fd /\ r[n].pid = pid
    BY <1>1, <1>2, <1>4
  <2> QED
    BY <1>3, <2>1, <2>2, <2>3
<1>11. \A k \in DOMAIN sources : sources[k].fd # fd
  BY DEF AcceptSource
<1> QED
  BY <1>9, <1>10, <1>11 DEF Screen!Connect

(* The cached active pid is that of the best slot, the first of the highest *)
(* priority.                                                                *)
LEMMA ActiveSlot ==
    ASSUME ReceiverInv, sources # <<>>
    PROVE  \E b \in DOMAIN sources :
             /\ active_pid = sources[b].pid
             /\ \A j \in DOMAIN sources :
                  \/ sources[j].priority < sources[b].priority
                  \/ sources[j].priority = sources[b].priority /\ b <= j
<1>1. /\ sources \in Seq(Source) /\ next_priority \in Nat
      /\ \A i \in DOMAIN sources : sources[i].priority <= next_priority
  BY SourceArray, MaxPriorityAssumption DEF ReceiverInv, TypeOK, PrioritiesOrdered
<1> QED
  BY <1>1, PickActiveIsBest DEF ReceiverInv, ActiveIsBest

(* A stream that goes takes nobody else from the screen, even when it was  *)
(* not the last slot and the array is reordered.                           *)
LEMMA RemoveRefines ==
    ASSUME ReceiverInv, NEW i \in ready, RemoveSource(i)
    PROVE  Screen!Disconnect([fd |-> sources[i].fd, pid |-> sources[i].pid])
<1> DEFINE r == RemoveSlot(sources, i)
           n == Len(sources)
<1>1. /\ sources \in Seq(Source) /\ i \in DOMAIN sources /\ next_priority \in Nat
      /\ n \in Nat /\ DOMAIN sources = 1..n /\ sources # <<>>
      /\ \A j \in DOMAIN sources : /\ sources[j].priority \in Nat
                                  /\ sources[j].priority < next_priority
  BY SourceArray, LenProperties, MaxPriorityAssumption
     DEF ReceiverInv, TypeOK, SnapshotValid, PrioritiesOrdered
<1>2. /\ r \in Seq(Source) /\ DOMAIN r = 1..(n - 1) /\ (r = <<>> <=> n = 1)
      /\ \A j \in 1..(n - 1) : r[j] = IF j = i THEN sources[n] ELSE sources[j]
  <2>1. /\ r \in Seq(Source) /\ Len(r) = n - 1 /\ DOMAIN r = 1..(n - 1)
        /\ \A j \in 1..(n - 1) : r[j] = IF j = i THEN sources[n] ELSE sources[j]
    BY <1>1, RemovedArray
  <2>2. r = <<>> <=> n = 1
    BY <1>1, <2>1, SourceArray
  <2> QED
    BY <2>1, <2>2
<1>3. sources' = r /\ active_pid' = PickActive(r)
  BY DEF RemoveSource, UpdateActive
<1> HIDE DEF r
<1>4. /\ \A k \in DOMAIN sources \ {i} : \E j \in DOMAIN r : r[j] = sources[k]
      /\ \A j \in DOMAIN r : \E k \in DOMAIN sources \ {i} : r[j] = sources[k]
  <2>1. ASSUME NEW k \in DOMAIN sources \ {i}
        PROVE  \E j \in DOMAIN r : r[j] = sources[k]
    <3>1. CASE k = n
      BY <1>1, <1>2, <3>1
    <3>2. CASE k # n
      BY <1>1, <1>2, <3>2
    <3> QED
      BY <3>1, <3>2
  <2>2. ASSUME NEW j \in DOMAIN r
        PROVE  \E k \in DOMAIN sources \ {i} : r[j] = sources[k]
    <3>1. CASE j = i
      <4>1. n \in DOMAIN sources \ {i} /\ r[j] = sources[n]
        BY <1>1, <1>2, <3>1
      <4> QED
        BY <4>1
    <3>2. CASE j # i
      <4>1. j \in DOMAIN sources \ {i} /\ r[j] = sources[j]
        BY <1>1, <1>2, <3>2
      <4> QED
        BY <4>1
    <3> QED
      BY <3>1, <3>2
  <2> QED
    BY <2>1, <2>2
<1>5. {[fd |-> sources'[j].fd, pid |-> sources'[j].pid] : j \in DOMAIN sources'}
        = {[fd |-> sources[k].fd, pid |-> sources[k].pid] : k \in DOMAIN sources}
            \ {[fd |-> sources[i].fd, pid |-> sources[i].pid]}
  <2>1. \A k \in DOMAIN sources :
          [fd |-> sources[k].fd, pid |-> sources[k].pid]
            = [fd |-> sources[i].fd, pid |-> sources[i].pid] => k = i
    BY <1>1 DEF ReceiverInv, FdsDistinct
  <2> QED
    BY <1>1, <1>3, <1>4, <2>1
<1>6. n # 1 => \E j \in DOMAIN r : active_pid' = r[j].pid
  <2> SUFFICES ASSUME n # 1  PROVE \E j \in DOMAIN r : active_pid' = r[j].pid
    OBVIOUS
  <2>1. \A j \in DOMAIN r : r[j].priority <= next_priority
    BY <1>1, <1>4
  <2>2. \E j \in DOMAIN r : PickActive(r) = r[j].pid
    BY <1>1, <1>2, <2>1, PickActiveIsBest
  <2> QED
    BY <1>3, <2>2
<1>7. sources[i].pid # active_pid => active_pid' = active_pid
  <2> SUFFICES ASSUME sources[i].pid # active_pid  PROVE active_pid' = active_pid
    OBVIOUS
  <2>1. PICK b \in DOMAIN sources :
          /\ active_pid = sources[b].pid
          /\ \A j \in DOMAIN sources :
               \/ sources[j].priority < sources[b].priority
               \/ sources[j].priority = sources[b].priority /\ b <= j
    BY <1>1, ActiveSlot
  <2>2. b # i /\ n # 1
    BY <1>1, <2>1
  <2>3. \A j \in DOMAIN r : r[j].priority <= next_priority
    BY <1>1, <1>4
  <2>4. PICK c \in DOMAIN r :
          /\ PickActive(r) = r[c].pid
          /\ \A j \in DOMAIN r : \/ r[j].priority < r[c].priority
                                 \/ r[j].priority = r[c].priority /\ c <= j
    BY <1>1, <1>2, <2>2, <2>3, PickActiveIsBest
  <2>5. PICK k \in DOMAIN sources \ {i} : r[c] = sources[k]
    BY <1>4
  <2>6. PICK d \in DOMAIN r : r[d] = sources[b]
    BY <1>4, <2>2
  <2>7. sources[k].priority = sources[b].priority
    BY <1>1, <2>1, <2>4, <2>5, <2>6
  <2>8. CASE k = b
    BY <1>3, <2>1, <2>4, <2>5, <2>8
  <2>9. CASE k # b
    <3>1. sources[b].priority = 0
      BY <2>7, <2>9 DEF ReceiverInv, PrioritiesOrdered
    <3>2. b = 1 /\ i # 1 /\ 1 \in DOMAIN r
      <4>1. 1 \in DOMAIN sources /\ b \in 1..n /\ n \in Nat /\ n >= 1
        BY <1>1
      <4>2. sources[1].priority \in Nat
        BY <1>1, <4>1
      <4>3. b <= 1
        BY <2>1, <3>1, <4>1, <4>2
      <4>4. b = 1
        BY <4>1, <4>3
      <4>5. 1 \in 1..(n - 1)
        <5>1. n \in Nat /\ n >= 1 /\ n # 1
          BY <2>2, <4>1
        <5> HIDE DEF n
        <5>2. n \in Int /\ n - 1 >= 1 /\ n - 1 \in Int
          BY <5>1
        <5> QED
          BY <5>2
      <4>6. i # 1
        BY <2>2, <4>4
      <4> QED
        BY <1>2, <4>4, <4>5, <4>6
    <3>3. r[1] = sources[1]
      BY <1>2, <3>2
    <3>4. r[1].priority = 0 /\ r[c].priority = 0
      BY <2>5, <2>7, <3>1, <3>2, <3>3
    <3>5. c <= 1 /\ c \in 1..(n - 1)
      BY <1>2, <2>4, <3>2, <3>4
    <3>6. c = 1
      BY <1>1, <3>5
    <3> QED
      BY <1>3, <2>1, <2>4, <3>2, <3>3, <3>6
  <2> QED
    BY <2>8, <2>9
<1>8. n = 1 => active_pid' = NoPid
  BY <1>2, <1>3 DEF PickActive
<1>9. DOMAIN sources' = DOMAIN r /\ (n = 1 => DOMAIN r = {})
  BY <1>2, <1>3
<1> DEFINE streams == {[fd |-> sources[k].fd, pid |-> sources[k].pid] : k \in DOMAIN sources}
           streamsNext == {[fd |-> sources'[j].fd, pid |-> sources'[j].pid] : j \in DOMAIN sources'}
<1>10. active_pid' \in IF sources[i].pid # active_pid THEN {active_pid}
                       ELSE IF streamsNext = {} THEN {NoPid}
                       ELSE {s.pid : s \in streamsNext}
  <2>1. CASE sources[i].pid # active_pid
    BY <1>7, <2>1
  <2>2. CASE sources[i].pid = active_pid /\ n = 1
    <3>1. streamsNext = {}
      BY <1>9, <2>2
    <3> QED
      BY <1>8, <2>2, <3>1
  <2>3. CASE sources[i].pid = active_pid /\ n # 1
    <3>1. PICK j \in DOMAIN r : active_pid' = r[j].pid
      BY <1>6, <2>3
    <3>2. [fd |-> r[j].fd, pid |-> r[j].pid] \in streamsNext
      BY <1>3
    <3>3. active_pid' = [fd |-> r[j].fd, pid |-> r[j].pid].pid
      BY <3>1
    <3>4. active_pid' \in {s.pid : s \in streamsNext}
      BY <3>2, <3>3
    <3> QED
      BY <2>3, <3>2, <3>4
  <2> QED
    BY <2>1, <2>2, <2>3
<1>11. [fd |-> sources[i].fd, pid |-> sources[i].pid] \in streams
  BY <1>1
<1> QED
  BY <1>5, <1>10, <1>11 DEF Screen!Disconnect

(* The streams and the connected pids do not depend on priorities. *)
LEMMA StreamsUnchanged ==
    ASSUME NEW r \in Seq(Source), DOMAIN r = DOMAIN sources, sources' = r,
           \A i \in DOMAIN sources : r[i].fd = sources[i].fd /\ r[i].pid = sources[i].pid
    PROVE  {[fd |-> sources'[i].fd, pid |-> sources'[i].pid] : i \in DOMAIN sources'}
             = {[fd |-> sources[i].fd, pid |-> sources[i].pid] : i \in DOMAIN sources}
<1>1. \A i \in DOMAIN sources :
        [fd |-> r[i].fd, pid |-> r[i].pid] = [fd |-> sources[i].fd, pid |-> sources[i].pid]
  OBVIOUS
<1> QED
  BY <1>1

LEMMA ConnectedPids ==
    Screen!Connected = {sources[i].pid : i \in DOMAIN sources}
<1> DEFINE streams == {[fd |-> sources[i].fd, pid |-> sources[i].pid] : i \in DOMAIN sources}
<1>1. ASSUME NEW q \in {s.pid : s \in streams}
      PROVE  q \in {sources[i].pid : i \in DOMAIN sources}
  <2>1. PICK i \in DOMAIN sources : q = [fd |-> sources[i].fd, pid |-> sources[i].pid].pid
    OBVIOUS
  <2>2. q = sources[i].pid
    BY <2>1
  <2> QED
    BY <2>2
<1>2. ASSUME NEW i \in DOMAIN sources
      PROVE  sources[i].pid \in {s.pid : s \in streams}
  <2>1. [fd |-> sources[i].fd, pid |-> sources[i].pid] \in streams
    OBVIOUS
  <2>2. [fd |-> sources[i].fd, pid |-> sources[i].pid].pid = sources[i].pid
    OBVIOUS
  <2> HIDE DEF streams
  <2> QED
    BY <2>1, <2>2
<1> QED
  BY <1>1, <1>2 DEF Screen!Connected

LEMMA RequestActiveRefines ==
    ASSUME ReceiverInv, NEW p \in Pids, RequestActive(p)
    PROVE  Screen!RequestActive(p)
<1> DEFINE I == SlotsOf(p)
           r == RaiseAll(I)
<1>1. /\ TypeOK /\ I \in SUBSET DOMAIN sources /\ next_priority \in Nat
      /\ DOMAIN sources = 1..Len(sources) /\ Len(sources) \in Nat
      /\ \A i \in DOMAIN sources : /\ sources[i].priority \in Nat
                                  /\ sources[i].priority < next_priority
  BY SourceArray, MaxPriorityAssumption DEF ReceiverInv, SlotsOf, TypeOK, PrioritiesOrdered
<1>2. sources' = r /\ active_pid' = PickActive(r)
  BY DEF RequestActive, UpdateActive
<1>3. /\ r \in Seq(Source) /\ DOMAIN r = DOMAIN sources /\ Len(r) = Len(sources)
      /\ \A i \in DOMAIN sources : r[i].fd = sources[i].fd /\ r[i].pid = sources[i].pid
      /\ \A i \in DOMAIN sources \ I : r[i].priority = sources[i].priority
      /\ \A i \in I : /\ r[i].priority >= next_priority
                      /\ r[i].priority < next_priority + Cardinality(I)
      /\ Cardinality(I) \in Nat
  BY <1>1, RaisedArray
<1>4. \A i \in DOMAIN r : r[i].priority \in Nat
  BY <1>3, SourceArray
<1>5. p \in Screen!Connected <=> I # {}
  BY ConnectedPids DEF SlotsOf
<1>6. CASE I = {}
  <2>1. r = [i \in DOMAIN sources |-> sources[i]]
    BY <1>6 DEF RaiseAll
  <2>2. r = sources
    BY <2>1, <1>1, <1>3, SeqEqual DEF TypeOK
  <2> QED
    BY <1>2, <1>5, <1>6, <2>2 DEF Screen!RequestActive, ReceiverInv, ActiveIsBest
<1>7. CASE I # {}
  <2> HIDE DEF r
  <2>1. /\ next_priority + Cardinality(I) \in Nat
        /\ \A i \in DOMAIN r : r[i].priority <= next_priority + Cardinality(I)
    BY <1>1, <1>3, <1>4
  <2>2. r # <<>>
    BY <1>1, <1>3, <1>7, SourceArray
  <2>3. PICK b \in DOMAIN r :
          /\ PickActive(r) = r[b].pid
          /\ \A j \in DOMAIN r : \/ r[j].priority < r[b].priority
                                 \/ r[j].priority = r[b].priority /\ b <= j
    BY <1>3, <2>1, <2>2, PickActiveIsBest
  <2>4. PICK k \in I : TRUE
    BY <1>7
  <2>5. r[k].priority >= next_priority /\ r[k].priority \in Nat /\ k \in DOMAIN r
    BY <1>1, <1>3, <1>4
  <2>6. r[b].priority >= next_priority
    BY <1>1, <1>4, <2>3, <2>5
  <2>7. b \in I
    BY <1>1, <1>3, <1>4, <2>6
  <2>8. active_pid' = p
    BY <1>2, <1>3, <2>3, <2>7 DEF SlotsOf
  <2>9. {[fd |-> sources'[i].fd, pid |-> sources'[i].pid] : i \in DOMAIN sources'}
          = {[fd |-> sources[i].fd, pid |-> sources[i].pid] : i \in DOMAIN sources}
    BY <1>2, <1>3, StreamsUnchanged
  <2> QED
    BY <1>5, <1>7, <2>8, <2>9 DEF Screen!RequestActive
<1> QED
  BY <1>6, <1>7

(* A process that yields leaves the screen if there is another one, and a  *)
(* yield by a process that is not on screen, say because it was decided on *)
(* a pid read earlier, changes nothing there.                              *)
LEMMA YieldRefines ==
    ASSUME ReceiverInv, NEW p, YieldScreen(p)
    PROVE  Screen!Yield(p)
<1> DEFINE others == DOMAIN sources \ SlotsOf(p)
           next == BestOf(sources, others)
           r == LowerAll(p, next)
<1>1. /\ TypeOK /\ next_priority \in Nat /\ sources \in Seq(Source)
      /\ DOMAIN sources = 1..Len(sources) /\ Len(sources) \in Nat
      /\ \A i \in DOMAIN sources : /\ sources[i].priority \in Nat
                                  /\ sources[i].priority < next_priority
  BY SourceArray, MaxPriorityAssumption DEF ReceiverInv, TypeOK, PrioritiesOrdered
<1>2. sources' = r /\ active_pid' = PickActive(r)
  BY DEF YieldScreen, UpdateActive
<1>3. /\ r \in Seq(Source) /\ DOMAIN r = DOMAIN sources /\ Len(r) = Len(sources)
      /\ \A i \in DOMAIN sources : r[i].fd = sources[i].fd /\ r[i].pid = sources[i].pid
      /\ \A i \in DOMAIN sources :
           r[i].priority = IF sources[i].pid = p THEN 0
                           ELSE IF i = next THEN next_priority
                           ELSE sources[i].priority
  BY <1>1, LoweredArray
<1>4. \A i \in DOMAIN sources : i \in others <=> sources[i].pid # p
  BY DEF SlotsOf
<1>5. others # {} => /\ next \in others
                     /\ \A j \in others : \/ sources[j].priority < sources[next].priority
                                          \/ /\ sources[j].priority = sources[next].priority
                                             /\ next <= j
  <2> SUFFICES ASSUME others # {}
               PROVE  /\ next \in others
                      /\ \A j \in others : \/ sources[j].priority < sources[next].priority
                                           \/ /\ sources[j].priority = sources[next].priority
                                              /\ next <= j
    OBVIOUS
  <2>1. /\ others \in SUBSET Nat
        /\ \A i \in others : sources[i].priority \in Nat /\ sources[i].priority <= next_priority
    BY <1>1
  <2> HIDE DEF others
  <2> QED
    BY <1>1, <2>1, BestOfIsBest
<1> HIDE DEF r, next
<1>6. \A i \in DOMAIN r : r[i].priority <= next_priority /\ r[i].priority \in Nat
  BY <1>1, <1>3
<1>7. Screen!Connected \ {p} = {sources[i].pid : i \in others}
  BY <1>4, ConnectedPids
<1>8. {[fd |-> sources'[i].fd, pid |-> sources'[i].pid] : i \in DOMAIN sources'}
        = {[fd |-> sources[i].fd, pid |-> sources[i].pid] : i \in DOMAIN sources}
  BY <1>2, <1>3, StreamsUnchanged
<1>9. r # <<>> => \E b \in DOMAIN r :
         /\ PickActive(r) = r[b].pid
         /\ \A j \in DOMAIN r : \/ r[j].priority < r[b].priority
                                \/ r[j].priority = r[b].priority /\ b <= j
  BY <1>1, <1>3, <1>6, PickActiveIsBest
<1>10. r = <<>> <=> sources = <<>>
  BY <1>1, <1>3, SourceArray
<1>11. CASE sources = <<>>
  <2>1. active_pid' = active_pid
    BY <1>2, <1>10, <1>11 DEF ReceiverInv, ActiveIsBest
  <2>2. Screen!Connected = {}
    BY <1>1, <1>11, ConnectedPids, SourceArray
  <2> QED
    BY <1>8, <2>1, <2>2 DEF Screen!Yield
<1>12. CASE sources # <<>> /\ others = {}
  <2>1. PICK b \in DOMAIN sources : active_pid = sources[b].pid
    BY <1>12, ActiveSlot
  <2>2. PICK c \in DOMAIN r : PickActive(r) = r[c].pid
    BY <1>9, <1>10, <1>12
  <2>3. active_pid = p /\ active_pid' = p
    BY <1>2, <1>3, <1>4, <1>12, <2>1, <2>2
  <2>4. Screen!Connected \ {p} = {}
    BY <1>7, <1>12
  <2> QED
    BY <1>8, <2>3, <2>4 DEF Screen!Yield
<1>13. CASE others # {}
  <2>1. sources # <<>>
    BY <1>1, <1>13, SourceArray
  <2>2. PICK b \in DOMAIN sources :
          /\ active_pid = sources[b].pid
          /\ \A j \in DOMAIN sources :
               \/ sources[j].priority < sources[b].priority
               \/ sources[j].priority = sources[b].priority /\ b <= j
    BY <2>1, ActiveSlot
  <2>3. PICK c \in DOMAIN r :
          /\ PickActive(r) = r[c].pid
          /\ \A j \in DOMAIN r : \/ r[j].priority < r[c].priority
                                 \/ r[j].priority = r[c].priority /\ c <= j
    BY <1>9, <1>10, <2>1
  <2>4. next \in others /\ next \in DOMAIN r /\ sources[next].pid # p
    BY <1>3, <1>4, <1>5, <1>13
  <2>5. r[next].priority = next_priority
    BY <1>3, <2>4
  <2>6. c = next
    BY <1>1, <1>3, <1>6, <2>3, <2>4, <2>5
  <2>7. active_pid' = sources[next].pid
    BY <1>2, <1>3, <2>3, <2>6
  <2>8. p # active_pid => next = b
    <3> SUFFICES ASSUME p # active_pid  PROVE next = b
      OBVIOUS
    <3>1. b \in others
      BY <1>4, <2>2
    <3>2. /\ \/ sources[b].priority < sources[next].priority
             \/ sources[b].priority = sources[next].priority /\ next <= b
          /\ \/ sources[next].priority < sources[b].priority
             \/ sources[next].priority = sources[b].priority /\ b <= next
      BY <1>3, <1>5, <1>13, <2>2, <2>4, <3>1
    <3>3. /\ sources[b].priority \in Nat /\ sources[next].priority \in Nat
          /\ b \in Nat /\ next \in Nat
      BY <1>1, <1>3, <2>4
    <3> QED
      BY <3>2, <3>3
  <2>9. active_pid' \in Screen!Connected \ {p} /\ Screen!Connected \ {p} # {}
    BY <1>7, <2>4, <2>7
  <2>10. p # active_pid => active_pid' = active_pid
    BY <2>2, <2>7, <2>8
  <2> QED
    BY <1>8, <2>9, <2>10 DEF Screen!Yield
<1> QED
  BY <1>11, <1>12, <1>13

LEMMA StepRefines == ReceiverInv /\ [Next]_vars => [Screen!Next]_(Screen!ownerVars)
<1> SUFFICES ASSUME ReceiverInv, [Next]_vars
             PROVE  Screen!Next \/ UNCHANGED Screen!ownerVars
  OBVIOUS
<1>1. ASSUME NEW i \in ready, RemoveSource(i)
      PROVE  Screen!Next
  <2> DEFINE gone == [fd |-> sources[i].fd, pid |-> sources[i].pid]
  <2>1. gone \in Screen!Stream
    BY SourceArray, LenProperties DEF ReceiverInv, TypeOK, SnapshotValid, Screen!Stream
  <2>2. PICK s \in Screen!Stream : s = gone
    BY <2>1
  <2>3. Screen!Disconnect(gone)
    BY <1>1, RemoveRefines
  <2> HIDE DEF gone
  <2>4. Screen!Disconnect(s)
    BY <2>2, <2>3 DEF Screen!Disconnect
  <2> QED
    BY <2>4 DEF Screen!Next
<1>2. ASSUME NEW fd \in Fds, NEW pid \in Pids, AcceptSource(fd, pid)
      PROVE  Screen!Next
  <2>1. [fd |-> fd, pid |-> pid] \in Screen!Stream
    BY DEF Screen!Stream
  <2> QED
    BY <1>2, <2>1, AcceptRefines DEF Screen!Next
<1>3. ASSUME NEW p \in Pids, RequestActive(p)
      PROVE  Screen!Next
  BY <1>3, RequestActiveRefines DEF Screen!Next
<1>4. ASSUME NEW p \in Pids, Yield(p)
      PROVE  Screen!Next
  BY <1>4, YieldRefines DEF Screen!Next, Yield
<1>5. CASE SwitchYield
  <2>1. switching[1] \in Pids
    BY <1>5 DEF SwitchYield, ReceiverInv, TypeOK
  <2> QED
    BY <1>5, <2>1, YieldRefines DEF Screen!Next, SwitchYield
<1>6. CASE UNCHANGED <<sources, active_pid>>
  BY <1>6 DEF Screen!ownerVars
<1>7. ASSUME \/ PollWake
             \/ \E i \in ready : SourceDrained(i) \/ \E kind \in Kinds : HandleFrame(i, kind)
             \/ FrameWritten \/ AcceptDeclined \/ SwitchRead
             \/ Activate \/ Deactivate \/ KeyframeWaitExpires \/ UNCHANGED vars
      PROVE  UNCHANGED <<sources, active_pid>>
  BY <1>7 DEF PollWake, SourceDrained, HandleFrame, FrameWritten, AcceptDeclined, SwitchRead,
              Activate, Deactivate, KeyframeWaitExpires, vars, choiceVars
<1> QED
  BY <1>1, <1>2, <1>3, <1>4, <1>5, <1>6, <1>7 DEF Next

(* The receiver implements the abstract ownership of the screen: whatever  *)
(* the other modules conclude from ScreenOwner holds of it.                *)
THEOREM Refinement == Spec => ImplementsScreenOwner
<1>1. Init => Screen!Init
  BY InitRefines
<1>2. ReceiverInv /\ [Next]_vars => [Screen!Next]_(Screen!ownerVars)
  BY StepRefines
<1> QED
  BY <1>1, <1>2, Invariance, PTL DEF Spec, ImplementsScreenOwner, Screen!Spec
=============================================================================
