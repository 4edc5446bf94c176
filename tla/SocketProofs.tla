------------------------------ MODULE SocketProofs ------------------------------
(***************************************************************************)
(* Theorems about the byte streams of the local sockets, for buffers,      *)
(* messages and cuts of any size: the frames of a source (VideoStream,     *)
(* KeyframeScan), the commands of a client (ControlStream), and what the   *)
(* service tells a client (ControlReceiver).                               *)
(*                                                                         *)
(* The argument is the same for each.  What was taken from a stream ends   *)
(* where a message of it begins: the loop over complete messages goes from *)
(* one such place to another, and what does not begin there is never read. *)
(* So what came of the messages is told by their number alone.             *)
(***************************************************************************)
EXTENDS VideoStream, KeyframeScan, ControlStream, ControlReceiver, FiniteSetTheorems,
        RecursionLemmas

-----------------------------------------------------------------------------
(* 1. The frames of a source *)

-----------------------------------------------------------------------------
(* Where the frames begin *)

LEMMA StartSums == SumsOf(StartOf, frames, MaxFrames)
<1>1. StartOf = CHOOSE f : f = [k \in 1..(MaxFrames + 1) |-> IF k = 1 THEN 0 ELSE f[k - 1] + frames[k - 1]]
  BY Zenon DEF StartOf
<1>2. \E f : f = [k \in 1..(MaxFrames + 1) |-> IF k = 1 THEN 0 ELSE f[k - 1] + frames[k - 1]]
  BY SizesAssumption, SumsExist DEF SumsTable
<1>3. StartOf = [k \in 1..(MaxFrames + 1) |-> IF k = 1 THEN 0 ELSE StartOf[k - 1] + frames[k - 1]]
  BY <1>1, <1>2, Zenon
<1> QED
  BY <1>3, Zenon DEF SumsOf

LEMMA StartSumsNext == SumsOf(StartOf, frames, MaxFrames)'
BY StartSums, PTL

LEMMA StartsGrow ==
    ASSUME frames \in Seq(FrameSizes), Len(frames) <= MaxFrames
    PROVE  /\ StartOf[1] = 0
           /\ \A k \in 1..(Len(frames) + 1) : StartOf[k] \in Nat
           /\ \A k \in 1..Len(frames) : StartOf[k + 1] = StartOf[k] + frames[k]
           /\ \A j, k \in 1..(Len(frames) + 1) : j < k => StartOf[j] < StartOf[k]
<1> DEFINE m == Len(frames)
<1>1. MaxFrames \in Nat /\ m \in 0..MaxFrames
  BY SizesAssumption
<1>2. \A k \in 1..m : frames[k] \in Nat \ {0}
  <2>1. \A k \in 1..m : frames[k] \in FrameSizes
    OBVIOUS
  <2>2. \A size \in FrameSizes : size \in Nat \ {0}
    BY SizesAssumption
  <2> QED
    BY <2>1, <2>2
<1>3. SumsOf(StartOf, frames, MaxFrames)
  BY StartSums
<1> QED
  BY <1>1, <1>2, <1>3, SumsGrow

(* What is sent besides does not move the frames before it.                *)
LEMMA StartsKept ==
    ASSUME frames \in Seq(FrameSizes), Len(frames) < MaxFrames,
           NEW size \in FrameSizes, frames' = Append(frames, size)
    PROVE  \A k \in 1..(Len(frames) + 1) : StartOf'[k] = StartOf[k]
<1>1. MaxFrames \in Nat /\ Len(frames) \in 0..MaxFrames
  BY SizesAssumption
<1>2. \A k \in 1..Len(frames) : frames'[k] = frames[k]
  OBVIOUS
<1> QED
  BY <1>1, <1>2, StartSums, StartSumsNext, SumsAgree

-----------------------------------------------------------------------------
(* InOrder of consecutive frames *)

LEMMA InOrderRun ==
    ASSUME NEW a \in Nat, NEW n \in Nat
    PROVE  InOrder(a..(a + n - 1)) = [p \in 1..n |-> a + p - 1]
<1> DEFINE S == a..(a + n - 1)
<1>1. Cardinality(S) = n
  BY FS_Interval
<1> DEFINE ordered(s) == \A j, k \in DOMAIN s : j < k => s[j] < s[k]
           r == [p \in 1..n |-> a + p - 1]
<1>2. r \in [1..n -> S] /\ ordered(r)
  OBVIOUS
<1>3. PICK s \in [1..n -> S] : InOrder(S) = s /\ ordered(s)
  BY <1>1, <1>2, Zenon DEF InOrder
<1>4. \A p, j \in 1..n : p < j => s[p] < s[j]
  BY <1>3
<1>5. \A p \in 1..n : s[p] = a + p - 1
  <2>1. a \in Int /\ s \in [1..n -> a..(a + n - 1)]
    BY <1>3
  <2> HIDE DEF S, ordered, r
  <2> QED
    BY <1>4, <2>1, IncreasingRun
<1> QED
  BY <1>3, <1>5

LEMMA RunsJoin ==
    ASSUME NEW m \in Nat, NEW n \in Nat
    PROVE  [k \in 1..m |-> k] \o [p \in 1..n |-> m + p] = [k \in 1..(m + n) |-> k]
<1> DEFINE a == [k \in 1..m |-> k]
           b == [p \in 1..n |-> m + p]
<1>1. a \in Seq(Nat) /\ b \in Seq(Nat) /\ Len(a) = m /\ Len(b) = n
  OBVIOUS
<1>2. \A k \in 1..(m + n) : (a \o b)[k] = k
  BY <1>1
<1>3. DOMAIN (a \o b) = 1..(m + n)
  <2> HIDE DEF a, b
  <2> QED
    BY <1>1
<1>4. a \o b \in Seq(Nat)
  BY <1>1
<1> HIDE DEF a, b
<1> QED
  BY <1>2, <1>3, <1>4

-----------------------------------------------------------------------------
(* The loop over the frames in the buffer *)

FullLen(o) == frames[CHOOSE k \in FrameAt(taken + o) : TRUE]

(* Where the loop stops, and with what *)
Stops(held) ==
    {o \in 0..held : \/ held - o < HeaderSize
                     \/ FrameAt(taken + o) = {}
                     \/ FullLen(o) > MaxFrameSize
                     \/ held - o < FullLen(o)}

Stopped(o, keep, size) == [keep |-> keep, offset |-> o, size |-> size]

Found(size, held) ==
    [o \in 0..held |->
       IF held - o < HeaderSize THEN Stopped(o, TRUE, size)
       ELSE IF FrameAt(taken + o) = {} \/ FullLen(o) > MaxFrameSize THEN Stopped(o, FALSE, size)
       ELSE Stopped(o, TRUE, IF o = 0 /\ FullLen(o) > size THEN FullLen(o) + RcvBufferSize ELSE size)]

NextFrame(held) == [o \in 0..held |-> o + FullLen(o)]

LEMMA FramesAreNumbers ==
    ASSUME frames \in Seq(FrameSizes)
    PROVE  \A k \in 1..Len(frames) : frames[k] \in Nat \ {0}
<1>1. \A k \in 1..Len(frames) : frames[k] \in FrameSizes
  OBVIOUS
<1>2. \A size \in FrameSizes : size \in Nat \ {0}
  BY SizesAssumption
<1> QED
  BY <1>1, <1>2

LEMMA FullLenIsNumber ==
    ASSUME frames \in Seq(FrameSizes), NEW o, FrameAt(taken + o) # {}
    PROVE  FullLen(o) \in Nat \ {0}
<1>1. (CHOOSE k \in FrameAt(taken + o) : TRUE) \in 1..Len(frames)
  <2>1. FrameAt(taken + o) \subseteq 1..Len(frames)
    BY DEF FrameAt
  <2> HIDE DEF FrameAt
  <2> QED
    BY <2>1, Zenon
<1> QED
  BY <1>1, FramesAreNumbers DEF FullLen

LEMMA ProcessWalk ==
    ASSUME frames \in Seq(FrameSizes), NEW size \in Nat, NEW held \in Nat
    PROVE  \E w : /\ Process(size, held) = w[0]
                  /\ Walks(w, held, Stops(held), Found(size, held), NextFrame(held))
<1> DEFINE body(w, o) ==
             IF held - o < HeaderSize THEN Stopped(o, TRUE, size)
             ELSE IF FrameAt(taken + o) = {} THEN Stopped(o, FALSE, size)
             ELSE IF FullLen(o) > MaxFrameSize THEN Stopped(o, FALSE, size)
             ELSE IF held - o < FullLen(o)
             THEN Stopped(o, TRUE, IF o = 0 /\ FullLen(o) > size THEN FullLen(o) + RcvBufferSize ELSE size)
             ELSE w[o + FullLen(o)]
           walk == CHOOSE w : w = [o \in 0..held |-> body(w, o)]
<1>1. Process(size, held) = walk[0]
  BY Zenon DEF Process, FullLen, Stopped
<1>2. \A o \in 0..held : o \notin Stops(held) => NextFrame(held)[o] \in (o + 1)..held
  <2> TAKE o \in 0..held
  <2> HAVE o \notin Stops(held)
  <2>1. FrameAt(taken + o) # {} /\ ~(held - o < FullLen(o))
    BY DEF Stops
  <2>2. FullLen(o) \in Nat \ {0}
    BY <2>1, FullLenIsNumber
  <2> QED
    BY <2>1, <2>2 DEF NextFrame
<1>3. PICK v : WalkTable(v, 0, held, Stops(held), Found(size, held), NextFrame(held))
  BY <1>2, WalkExists
<1>4. ASSUME NEW w, NEW o \in 0..held
      PROVE  body(w, o) = IF o \in Stops(held) THEN Found(size, held)[o] ELSE w[NextFrame(held)[o]]
  <2> DEFINE F == FullLen(o)
             found == Found(size, held)[o]
  <2>2. found = IF held - o < HeaderSize THEN Stopped(o, TRUE, size)
                ELSE IF FrameAt(taken + o) = {} \/ F > MaxFrameSize THEN Stopped(o, FALSE, size)
                ELSE Stopped(o, TRUE, IF o = 0 /\ F > size THEN F + RcvBufferSize ELSE size)
    BY Zenon DEF Found
  <2>3. NextFrame(held)[o] = o + F
    BY DEF NextFrame
  <2>4. o \in Stops(held) <=> \/ held - o < HeaderSize
                             \/ FrameAt(taken + o) = {}
                             \/ F > MaxFrameSize
                             \/ held - o < F
    BY DEF Stops
  <2> HIDE DEF F, found
  <2>6. CASE held - o < HeaderSize
    BY <2>2, <2>4, <2>6 DEF F, found
  <2>7. CASE ~(held - o < HeaderSize) /\ FrameAt(taken + o) = {}
    BY <2>2, <2>4, <2>7 DEF F, found
  <2>8. CASE ~(held - o < HeaderSize) /\ FrameAt(taken + o) # {} /\ F > MaxFrameSize
    BY <2>2, <2>4, <2>8 DEF F, found
  <2>9. CASE ~(held - o < HeaderSize) /\ FrameAt(taken + o) # {} /\ ~(F > MaxFrameSize) /\ held - o < F
    BY <2>2, <2>4, <2>9 DEF F, found
  <2>10. CASE ~(held - o < HeaderSize) /\ FrameAt(taken + o) # {} /\ ~(F > MaxFrameSize) /\ ~(held - o < F)
    BY <2>3, <2>4, <2>10 DEF F, found
  <2> QED
    BY <2>6, <2>7, <2>8, <2>9, <2>10
<1>5. v = [o \in 0..held |-> body(v, o)]
  <2>1. v = [o \in 0..held |-> IF o \in Stops(held) THEN Found(size, held)[o] ELSE v[NextFrame(held)[o]]]
    BY <1>3 DEF WalkTable
  <2>2. \A o \in 0..held :
          body(v, o) = IF o \in Stops(held) THEN Found(size, held)[o] ELSE v[NextFrame(held)[o]]
    BY <1>4
  <2> HIDE DEF body
  <2> QED
    BY <2>1, <2>2, Zenon
<1>6. walk = [o \in 0..held |-> body(walk, o)]
  <2> HIDE DEF body
  <2> QED
    BY <1>5, Zenon
<1>7. ASSUME NEW o \in 0..held
      PROVE  walk[o] = IF o \in Stops(held) THEN Found(size, held)[o] ELSE walk[NextFrame(held)[o]]
  <2> HIDE DEF walk
  <2>1. walk[o] = body(walk, o)
    <3> HIDE DEF body
    <3> QED
      BY <1>6, Zenon
  <2>2. body(walk, o) = IF o \in Stops(held) THEN Found(size, held)[o] ELSE walk[NextFrame(held)[o]]
    BY <1>4
  <2> HIDE DEF body
  <2> QED
    BY <2>1, <2>2, Zenon
<1> HIDE DEF walk
<1> QED
  BY <1>1, <1>7 DEF Walks

(* The loop ends where a frame begins, or the next one will.               *)
LEMMA ProcessEnds ==
    ASSUME frames \in Seq(FrameSizes), Len(frames) <= MaxFrames, NEW size \in Nat, NEW held \in Nat,
           NEW h \in 1..(Len(frames) + 1), taken = StartOf[h]
    PROVE  \E e \in 0..held, j \in h..(Len(frames) + 1) :
              /\ StartOf[j] = taken + e
              /\ Process(size, held) = Found(size, held)[e]
<1> DEFINE L == Len(frames)
           boundary(j, o) == StartOf[j] = taken + o
           G == {o \in 0..held : \E j \in h..(L + 1) : boundary(j, o)}
<1>1. PICK w : /\ Process(size, held) = w[0]
               /\ Walks(w, held, Stops(held), Found(size, held), NextFrame(held))
  BY ProcessWalk
<1>2. L \in Nat /\ taken \in Nat
  BY StartsGrow
<1>3. 0 \in G
  BY <1>2
<1>4. ASSUME NEW o \in G, o \notin Stops(held)
      PROVE  NextFrame(held)[o] \in G /\ o < NextFrame(held)[o]
  <2>1. FrameAt(taken + o) # {} /\ ~(held - o < FullLen(o)) /\ o \in 0..held
    <3>1. o \in 0..held
      OBVIOUS
    <3> HIDE DEF G
    <3> QED
      BY <1>4, <3>1 DEF Stops
  <2>2. FullLen(o) \in Nat \ {0}
    BY <2>1, FullLenIsNumber
  <2>3. PICK j \in h..(L + 1) : boundary(j, o)
    OBVIOUS
  <2> DEFINE k == CHOOSE k \in FrameAt(taken + o) : TRUE
  <2>4. k \in 1..L /\ StartOf[k] = taken + o /\ FullLen(o) = frames[k]
    <3>1. k \in FrameAt(taken + o)
      BY <2>1, Zenon
    <3> HIDE DEF k
    <3>2. k \in 1..L /\ StartOf[k] = taken + o
      BY <3>1 DEF FrameAt
    <3> QED
      BY <3>2, Zenon DEF k, FullLen
  <2> HIDE DEF k
  <2>5. j = k
    <3>1. j \in 1..(L + 1) /\ k \in 1..(L + 1) /\ StartOf[j] = StartOf[k]
      BY <1>2, <2>3, <2>4
    <3>2. ~(j < k) /\ ~(k < j)
      BY <3>1, StartsGrow
    <3> QED
      BY <3>1, <3>2
  <2>6. k + 1 \in h..(L + 1) /\ StartOf[k + 1] = taken + (o + FullLen(o))
    BY <1>2, <2>1, <2>2, <2>3, <2>4, <2>5, StartsGrow
  <2>7. o + FullLen(o) \in 0..held /\ o < o + FullLen(o)
    BY <2>1, <2>2
  <2>8. NextFrame(held)[o] = o + FullLen(o)
    BY <2>1 DEF NextFrame
  <2> QED
    BY <2>6, <2>7, <2>8
<1>5. PICK e \in G : e \in Stops(held) /\ w[0] = Found(size, held)[e]
  <2>1. G \in SUBSET (0..held)
    OBVIOUS
  <2>2. Passes(G, Stops(held), NextFrame(held))
    BY <1>4 DEF Passes
  <2> HIDE DEF G
  <2> QED
    BY <1>1, <1>3, <2>1, <2>2, WalkEnds
<1> QED
  BY <1>1, <1>5

(* What is found is a place of the buffer, and a buffer that is no smaller *)
(* and not larger than it may be.                                          *)
LEMMA FoundTyped ==
    ASSUME frames \in Seq(FrameSizes), NEW size \in Nat, NEW held \in Nat, NEW e \in 0..held
    PROVE  /\ Found(size, held)[e].offset = e
           /\ Found(size, held)[e].keep \in BOOLEAN
           /\ LET new == Found(size, held)[e].size
              IN  new = size \/ (new \in size..(MaxFrameSize + RcvBufferSize))
<1> DEFINE found == Found(size, held)[e]
           F == FullLen(e)
<1>1. found = IF held - e < HeaderSize THEN Stopped(e, TRUE, size)
              ELSE IF FrameAt(taken + e) = {} \/ F > MaxFrameSize THEN Stopped(e, FALSE, size)
              ELSE Stopped(e, TRUE, IF e = 0 /\ F > size THEN F + RcvBufferSize ELSE size)
  BY Zenon DEF Found
<1>2. MaxFrameSize \in Nat /\ RcvBufferSize \in Nat
  BY SizesAssumption
<1>3. FrameAt(taken + e) # {} => F \in Nat
  BY FullLenIsNumber
<1>4. \A keep, new : /\ Stopped(e, keep, new).offset = e
                     /\ Stopped(e, keep, new).keep = keep
                     /\ Stopped(e, keep, new).size = new
  BY DEF Stopped
<1>5. CASE \E keep \in BOOLEAN : found = Stopped(e, keep, size)
  <2>1. PICK keep \in BOOLEAN : found = Stopped(e, keep, size)
    BY <1>5
  <2> HIDE DEF found
  <2>2. found.offset = e /\ found.keep = keep /\ found.size = size
    BY <1>4, <2>1, Zenon
  <2> QED
    BY <2>2, Zenon DEF found
<1>6. CASE found = Stopped(e, TRUE, F + RcvBufferSize) /\ F \in Nat /\ ~(F > MaxFrameSize) /\ F > size
  <2>1. F + RcvBufferSize \in size..(MaxFrameSize + RcvBufferSize)
    BY <1>2, <1>6
  <2> HIDE DEF found, F
  <2>2. found.offset = e /\ found.keep = TRUE /\ found.size = F + RcvBufferSize
    BY <1>4, <1>6, Zenon
  <2> QED
    BY <2>1, <2>2, Zenon DEF found
<1> QED
  <2> HIDE DEF found, F
  <2> QED
    BY <1>1, <1>3, <1>5, <1>6 DEF found

-----------------------------------------------------------------------------
(* The invariant *)

VideoInv == VideoTypeOK /\ VideoFramesWhole

(* The buffer as it is before data is received into it. *)
LEMMA GrownSizeTyped ==
    ASSUME VideoTypeOK, ~BufferOverflows
    PROVE  GrownSize \in buffer_size..(MaxFrameSize + 2 * RcvBufferSize)
BY SizesAssumption DEF VideoTypeOK, BufferOverflows, GrownSize

LEMMA MinOfTwo ==
    ASSUME NEW a \in Int, NEW b \in Int
    PROVE  Min({a, b}) \in Int /\ Min({a, b}) <= a /\ Min({a, b}) <= b
<1>1. \E x \in {a, b} : \A y \in {a, b} : x <= y
  OBVIOUS
<1> QED
  BY <1>1 DEF Min

LEMMA ReceiveKeeps ==
    ASSUME VideoInv, NEW n \in 1..SocketSize, Receive(n)
    PROVE  VideoInv'
<1> DEFINE h == Len(handled) + 1
           held == filled + n
<1> USE DEF VideoInv
<1>1. frames \in Seq(FrameSizes) /\ Len(frames) <= MaxFrames /\ h \in 1..(Len(frames) + 1) /\ taken = StartOf[h]
  BY DEF VideoTypeOK, VideoFramesWhole
<1>2. GrownSize \in Nat /\ GrownSize <= MaxFrameSize + 2 * RcvBufferSize /\ buffer_size <= GrownSize
  BY SizesAssumption, GrownSizeTyped DEF Receive, VideoTypeOK
<1>3. filled \in Nat /\ in_flight \in Nat /\ in_flight <= SocketSize /\ SocketSize \in Nat
  BY SizesAssumption DEF VideoTypeOK
<1>4. held \in Nat /\ held <= GrownSize /\ n <= in_flight
  <2> DEFINE a == GrownSize - filled
  <2>1. a \in Int /\ n <= Min({a, in_flight})
    BY <1>2, <1>3 DEF Receive
  <2>2. Min({a, in_flight}) \in Int /\ Min({a, in_flight}) <= a /\ Min({a, in_flight}) <= in_flight
    <3> HIDE DEF a
    <3> QED
      BY <1>3, <2>1, MinOfTwo
  <2>3. n <= a
    <3> HIDE DEF a
    <3> QED
      BY <2>1, <2>2
  <2>4. n <= in_flight
    <3> HIDE DEF a
    <3> QED
      BY <1>3, <2>1, <2>2
  <2> QED
    BY <1>2, <1>3, <2>3, <2>4
<1>5. PICK e \in 0..held, j \in h..(Len(frames) + 1) :
        /\ StartOf[j] = taken + e
        /\ Process(GrownSize, held) = Found(GrownSize, held)[e]
  BY <1>1, <1>2, <1>4, ProcessEnds
<1> DEFINE size == Found(GrownSize, held)[e].size
           complete == {k \in DOMAIN frames : StartOf[k] >= taken /\ StartOf[k] < taken + e}
<1>6. /\ buffer_size' = size
      /\ filled' = filled + n - e
      /\ taken' = taken + e
      /\ handled' = handled \o InOrder(complete)
      /\ reading' \in {"read", "removed"}
      /\ size \in Nat /\ held <= size /\ size <= MaxFrameSize + 2 * RcvBufferSize
  <2> DEFINE walked == Process(GrownSize, held)
  <2>1. walked.offset = e /\ walked.keep \in BOOLEAN
        /\ (size = GrownSize \/ size \in GrownSize..(MaxFrameSize + RcvBufferSize))
    BY <1>1, <1>2, <1>4, <1>5, FoundTyped
  <2>2. size \in Nat /\ held <= size /\ size <= MaxFrameSize + 2 * RcvBufferSize
    <3> HIDE DEF size
    <3> QED
      BY <1>2, <1>4, <2>1, SizesAssumption
  <2>3. /\ buffer_size' = walked.size
        /\ filled' = filled + n - walked.offset
        /\ taken' = taken + walked.offset
        /\ handled' = handled \o InOrder({k \in DOMAIN frames : StartOf[k] >= taken
                                                          /\ StartOf[k] < taken + walked.offset})
        /\ reading' \in {"read", "removed"}
    <3> HIDE DEF walked
    <3>1. reading' = IF walked.keep THEN "read" ELSE "removed"
      BY Zenon DEF Receive, walked
    <3>2. reading' \in {"read", "removed"}
      BY <3>1
    <3>3. buffer_size' = walked.size /\ filled' = filled + n - walked.offset /\ taken' = taken + walked.offset
      BY Zenon DEF Receive, walked
    <3>4. handled' = handled \o InOrder({k \in DOMAIN frames : StartOf[k] >= taken
                                                          /\ StartOf[k] < taken + walked.offset})
      BY Zenon DEF Receive, walked
    <3> QED
      BY <3>2, <3>3, <3>4, Zenon
  <2> QED
    BY <1>5, <2>1, <2>2, <2>3, Zenon
<1>7. complete = h..(j - 1) /\ h \in Nat /\ j \in Nat /\ h <= j /\ j - 1 <= Len(frames)
  <2>1. \A k \in 1..Len(frames) : StartOf[k] \in Nat /\ (StartOf[k] >= taken <=> h <= k)
    BY <1>1, StartsGrow
  <2>2. \A k \in 1..Len(frames) : StartOf[k] < taken + e <=> k < j
    <3>1. j \in 1..(Len(frames) + 1)
      BY <1>1, <1>5
    <3>2. \A k \in 1..Len(frames) : StartOf[k] < StartOf[j] <=> k < j
      BY <1>1, <3>1, StartsGrow
    <3> QED
      BY <1>5, <3>2
  <2> QED
    BY <1>1, <1>5, <2>1, <2>2
<1>8. InOrder(complete) = [p \in 1..(j - h) |-> h + p - 1]
  <2>1. j - h \in Nat /\ h..(j - 1) = h..(h + (j - h) - 1)
    BY <1>7
  <2> HIDE DEF h, complete
  <2> QED
    BY <1>7, <2>1, InOrderRun
<1>9. handled' = [k \in 1..(j - 1) |-> k]
  <2>1. handled = [k \in 1..(h - 1) |-> k]
    BY <1>1 DEF VideoFramesWhole, VideoTypeOK
  <2>2. /\ h - 1 \in Nat /\ j - h \in Nat /\ (h - 1) + (j - h) = j - 1
        /\ \A p \in Int : h + p - 1 = (h - 1) + p
    BY <1>7
  <2> HIDE DEF h, complete
  <2>3. [p \in 1..(j - h) |-> h + p - 1] = [p \in 1..(j - h) |-> (h - 1) + p]
    BY <2>2
  <2>4. handled' = [k \in 1..(h - 1) |-> k] \o [p \in 1..(j - h) |-> (h - 1) + p]
    BY <1>6, <1>8, <2>1, <2>3, Zenon
  <2>5. handled' = [k \in 1..((h - 1) + (j - h)) |-> k]
    BY <2>2, <2>4, RunsJoin, Zenon
  <2> QED
    BY <2>2, <2>5, Zenon
<1>10. frames' = frames /\ StartOf' = StartOf /\ sent_total' = sent_total /\ screen_closed' = screen_closed
       /\ in_flight' = in_flight - n
  BY DEF Receive, senderVars, StartOf
<1>11. /\ buffer_size' \in 0..(MaxFrameSize + 2 * RcvBufferSize) /\ filled' \in 0..buffer_size'
       /\ in_flight' \in 0..SocketSize /\ taken' \in Nat
       /\ taken' + filled' + in_flight' = taken + filled + in_flight
  <2> HIDE DEF size
  <2>1. taken \in Nat
    BY DEF VideoTypeOK
  <2> QED
    BY <1>3, <1>4, <1>6, <1>10, <2>1, SizesAssumption
<1>12. Len(handled') = j - 1 /\ handled' \in Seq(1..MaxFrames)
  <2>1. j - 1 <= MaxFrames /\ MaxFrames \in Nat
    BY <1>1, <1>7, SizesAssumption
  <2> QED
    BY <1>7, <1>9, <2>1
<1>13. VideoTypeOK'
  BY <1>6, <1>10, <1>11, <1>12 DEF VideoTypeOK
<1>14. VideoFramesWhole'
  <2>1. Written' = Written
    BY <1>10 DEF Written
  <2>2. Written = taken + filled + in_flight
    BY DEF VideoFramesWhole
  <2>3. taken' = StartOf'[Len(handled') + 1]
    BY <1>5, <1>6, <1>7, <1>10, <1>12
  <2>4. Written' = taken' + filled' + in_flight' /\ Written' >= taken' + in_flight'
    <3>1. Written' = taken' + filled' + in_flight'
      BY <1>11, <2>1, <2>2, Zenon
    <3>2. taken' \in Nat /\ filled' \in Nat /\ in_flight' \in Nat
      <4>1. SocketSize \in Nat /\ buffer_size' \in Nat
        BY <1>11, SizesAssumption
      <4> QED
        BY <1>11, <4>1
    <3>3. \A a, b, c \in Nat : a + b + c >= a + c
      OBVIOUS
    <3>4. taken' + filled' + in_flight' >= taken' + in_flight'
      BY <3>2, <3>3, Zenon
    <3> QED
      BY <3>1, <3>4, Zenon
  <2>5. Len(handled') <= Len(frames') /\ handled' = [k \in 1..Len(handled') |-> k]
    BY <1>7, <1>9, <1>10, <1>12
  <2> QED
    BY <2>3, <2>4, <2>5 DEF VideoFramesWhole
<1> QED
  BY <1>13, <1>14

(* The sender's steps, and the receiver's that read nothing. *)
LEMMA OthersKeep ==
    ASSUME VideoInv,
           \/ \E size \in FrameSizes : SendData(size)
           \/ \E n \in 1..SocketSize : Send(n)
           \/ ScreenClose \/ Polled \/ WouldBlock \/ GivesUp \/ UNCHANGED videoVars
    PROVE  VideoInv'
<1> USE DEF VideoInv
<1>1. ASSUME NEW size \in FrameSizes, SendData(size) PROVE VideoInv'
  <2>1. /\ frames \in Seq(FrameSizes) /\ Len(frames) < MaxFrames /\ frames' = Append(frames, size)
        /\ MaxFrames \in Nat /\ size \in Nat
    BY <1>1, SizesAssumption DEF SendData, VideoTypeOK
  <2>2. frames' \in Seq(FrameSizes) /\ Len(frames') = Len(frames) + 1 /\ Last(frames') = size /\ frames' # <<>>
    BY <2>1 DEF Last
  <2>3. \A k \in 1..(Len(frames) + 1) : StartOf'[k] = StartOf[k]
    BY <2>1, StartsKept
  <2>4. VideoTypeOK'
    BY <1>1, <2>1, <2>2 DEF SendData, VideoTypeOK, bufferVars
  <2>5. Written' = Written
    <3>1. Written' = StartOf[Len(frames) + 1] + 0
      <4>1. Len(frames) + 1 \in 1..(Len(frames) + 1) /\ sent_total' = 0
        BY <1>1, <2>1 DEF SendData
      <4>2. Written' = StartOf'[Len(frames) + 1] + 0
        BY <2>2, <4>1 DEF Written
      <4> QED
        BY <2>3, <4>1, <4>2
    <3>2. CASE frames = <<>>
      <4>1. Len(frames) = 0 /\ StartOf[1] = 0
        BY <3>2, <2>1, StartsGrow
      <4> QED
        BY <3>1, <3>2, <4>1 DEF Written
    <3>3. CASE frames # <<>>
      <4>1. Len(frames) \in 1..Len(frames) /\ sent_total = frames[Len(frames)]
        BY <1>1, <2>1, <3>3 DEF SendData, SentWhole, Last
      <4>2. StartOf[Len(frames) + 1] = StartOf[Len(frames)] + sent_total /\ StartOf[Len(frames) + 1] \in Nat
        BY <2>1, <4>1, StartsGrow
      <4> QED
        BY <3>1, <3>3, <4>2 DEF Written
    <3> QED
      BY <3>2, <3>3
  <2>6. VideoFramesWhole'
    <3>1. Len(handled) \in Nat /\ Len(handled) <= Len(frames) /\ handled' = handled
      BY <1>1 DEF VideoFramesWhole, VideoTypeOK, SendData, bufferVars
    <3>2. StartOf'[Len(handled) + 1] = StartOf[Len(handled) + 1]
      BY <2>1, <2>3, <3>1
    <3> QED
      BY <1>1, <2>1, <2>2, <2>5, <3>1, <3>2 DEF VideoFramesWhole, SendData, bufferVars
  <2> QED
    BY <2>4, <2>6
<1>2. ASSUME NEW n \in 1..SocketSize, Send(n) PROVE VideoInv'
  <2>1. frames' = frames /\ StartOf' = StartOf /\ frames # <<>>
    BY <1>2 DEF Send, StartOf, SentWhole
  <2>2. sent_total \in Nat /\ Last(frames) \in Nat /\ in_flight \in Nat /\ SocketSize \in Nat
    <3>1. frames \in Seq(FrameSizes) /\ Len(frames) \in 1..Len(frames)
      BY <2>1 DEF VideoTypeOK
    <3>2. Last(frames) \in Nat
      BY <3>1, FramesAreNumbers DEF Last
    <3> QED
      BY <2>1, <3>2, SizesAssumption DEF VideoTypeOK
  <2>3. VideoTypeOK'
    BY <1>2, <2>1, <2>2 DEF Send, VideoTypeOK, bufferVars
  <2>4. Written' = Written + n
    <3>1. StartOf[Len(frames)] \in Nat
      BY <2>1, StartsGrow DEF VideoTypeOK
    <3> QED
      BY <1>2, <2>1, <2>2, <3>1 DEF Send, Written
  <2>5. VideoFramesWhole'
    <3>1. taken \in Nat /\ filled \in Nat
      BY SizesAssumption DEF VideoTypeOK
    <3>2. taken' = taken /\ filled' = filled /\ in_flight' = in_flight + n
          /\ Written = taken + filled + in_flight
      BY <1>2 DEF VideoFramesWhole, Send, bufferVars
    <3>3. Written' = taken' + filled' + in_flight' /\ Written' >= taken' + in_flight'
      BY <2>2, <2>4, <3>1, <3>2
    <3> QED
      BY <1>2, <2>1, <3>3 DEF VideoFramesWhole, Send, bufferVars
  <2> QED
    BY <2>3, <2>5
<1>3. CASE WouldBlock
  <2>1. buffer_size' \in buffer_size..(MaxFrameSize + 2 * RcvBufferSize)
    BY <1>3, GrownSizeTyped DEF WouldBlock
  <2>2. VideoTypeOK'
    BY <1>3, <2>1, SizesAssumption DEF WouldBlock, VideoTypeOK, senderVars
  <2>3. VideoFramesWhole'
    BY <1>3 DEF WouldBlock, VideoFramesWhole, senderVars, Written, StartOf
  <2> QED
    BY <2>2, <2>3
<1>4. CASE ScreenClose
  BY <1>4 DEF ScreenClose, VideoTypeOK, VideoFramesWhole, bufferVars, Written, StartOf
<1>5. CASE Polled
  BY <1>5 DEF Polled, VideoTypeOK, VideoFramesWhole, senderVars, Written, StartOf
<1>6. CASE GivesUp
  BY <1>6 DEF GivesUp, VideoTypeOK, VideoFramesWhole, senderVars, Written, StartOf
<1>7. CASE UNCHANGED videoVars
  BY <1>7 DEF videoVars, VideoTypeOK, VideoFramesWhole, bufferVars, senderVars, Written, StartOf
<1> QED
  BY <1>1, <1>2, <1>3, <1>4, <1>5, <1>6, <1>7

LEMMA VideoStep == VideoInv /\ [VideoNext]_videoVars => VideoInv'
BY ReceiveKeeps, OthersKeep DEF VideoNext, ReadSource

LEMMA VideoInitially == VideoInit => VideoInv
<1> SUFFICES ASSUME VideoInit PROVE VideoInv
  OBVIOUS
<1>1. StartOf[1] = 0
  BY StartsGrow, SizesAssumption DEF VideoInit
<1>2. VideoTypeOK
  <2>1. frames \in Seq(FrameSizes) /\ Len(frames) = 0 /\ handled \in Seq(1..MaxFrames)
    BY DEF VideoInit
  <2>2. 0 \in 0..SocketSize /\ 0 \in 0..(MaxFrameSize + 2 * RcvBufferSize) /\ Len(frames) <= MaxFrames
    BY <2>1, SizesAssumption
  <2>3. frames = <<>> /\ sent_total = 0 /\ screen_closed \in BOOLEAN /\ in_flight = 0 /\ reading = "poll"
        /\ buffer_size = 0 /\ filled = 0 /\ taken = 0
    BY DEF VideoInit
  <2>4. filled \in 0..buffer_size /\ taken \in Nat
    BY <2>3
  <2> QED
    BY <2>1, <2>2, <2>3, <2>4 DEF VideoTypeOK
<1>3. handled = [k \in 1..Len(handled) |-> k] /\ Len(handled) = 0
  BY DEF VideoInit
<1>4. Written = 0
  BY DEF VideoInit, Written
<1> QED
  BY <1>1, <1>2, <1>3, <1>4 DEF VideoInit, VideoInv, VideoFramesWhole

(* The buffer never grows beyond its limit, and the socket holds no more   *)
(* than it may.                                                            *)
THEOREM VideoTypeCorrect == VideoSpec => []VideoTypeOK
<1>1. VideoInv => VideoTypeOK
  BY DEF VideoInv
<1> QED
  BY <1>1, VideoInitially, VideoStep, PTL DEF VideoSpec

(* However the stream is cut, every frame the program sends reaches the    *)
(* receiver's handle_frame whole, once and in its order.                   *)
THEOREM FramesWhole == VideoSpec => []VideoFramesWhole
<1>1. VideoInv => VideoFramesWhole
  BY DEF VideoInv
<1> QED
  BY <1>1, VideoInitially, VideoStep, PTL DEF VideoSpec

-----------------------------------------------------------------------------
(* 2. The scan of a frame for a key frame *)

(* An access unit is a sequence of bytes. *)
LEMMA FramesAreSequences == Frames \subseteq Seq(Bytes)
BY MaxDataLenAssumption DEF Frames

(* The types of the loop: of the data, its index and the result. *)
THEOREM ScanTypeCorrect == ScanSpec => []ScanTypeOK
<1>1. ScanInit => ScanTypeOK
  BY DEF ScanInit, ScanTypeOK
<1>2. ScanTypeOK /\ [ScanNext]_scanVars => ScanTypeOK'
  <2> SUFFICES ASSUME ScanTypeOK, [ScanNext]_scanVars PROVE ScanTypeOK'
    OBVIOUS
  <2>1. CASE Scan
    BY <2>1, FramesAreSequences DEF Scan, ScanTypeOK
  <2>2. CASE ScanStep
    BY <2>2 DEF ScanStep, Find, Skip, Advance, ScanTypeOK
  <2>3. CASE ScanEnds
    BY <2>3 DEF ScanEnds, ScanTypeOK
  <2>4. CASE UNCHANGED scanVars
    BY <2>4 DEF scanVars, ScanTypeOK
  <2> QED
    BY <2>1, <2>2, <2>3, <2>4 DEF ScanNext
<1> QED
  BY <1>1, <1>2, PTL DEF ScanSpec

(* The place the loop has come to has no key frame behind it. *)
NoneBehind == verdict = "scanning" => \A k \in Nat : k < i => ~KeyNalAt(k)

ScanInv == NoneBehind /\ KeyframeFound

(* One turn of the loop never leaps over a start code: after one, the two  *)
(* places that are left out would need a 0 where the code has its 1.       *)
LEMMA StepLeapsOverNothing ==
    ASSUME ScanTypeOK, NoneBehind, ScanStep, NEW k \in Nat, k < i', verdict' = "scanning"
    PROVE  ~KeyNalAt(k)
<1>1. CASE k < i
  BY <1>1 DEF NoneBehind, ScanStep
<1>2. CASE Advance
  <2>1. k < i \/ k = i
    BY <1>2 DEF Advance, ScanTypeOK
  <2> QED
    BY <1>1, <1>2, <2>1 DEF Advance, AtStartCode, KeyNalAt
<1>3. CASE Skip
  <2>1. k < i \/ k = i \/ k = i + 1 \/ k = i + 2
    BY <1>3 DEF Skip, ScanTypeOK
  <2>2. CASE k = i
    BY <1>3, <2>2 DEF Skip, AtKeyNal, KeyNalAt
  <2>3. CASE k = i + 1
    <3>1. Byte(k + 1) = Byte(i + 2)
      BY <2>3 DEF Byte, ScanTypeOK
    <3> QED
      BY <1>3, <3>1 DEF Skip, AtStartCode, KeyNalAt
  <2>4. CASE k = i + 2
    BY <1>3, <2>4 DEF Skip, AtStartCode, KeyNalAt
  <2> QED
    BY <1>1, <2>1, <2>2, <2>3, <2>4
<1>4. CASE Find
  BY <1>4 DEF Find
<1> QED
  BY <1>2, <1>3, <1>4 DEF ScanStep

(* The scan of a frame says key frame exactly if one begins in it. *)
THEOREM ScanCorrect == ScanSpec => []KeyframeFound
<1>1. ScanInit => ScanInv
  BY DEF ScanInit, ScanInv, NoneBehind, KeyframeFound
<1>2. ScanTypeOK /\ ScanInv /\ [ScanNext]_scanVars => ScanInv'
  <2> SUFFICES ASSUME ScanTypeOK, ScanInv, [ScanNext]_scanVars PROVE ScanInv'
    OBVIOUS
  <2>1. CASE Scan
    BY <2>1 DEF Scan, ScanInv, NoneBehind, KeyframeFound
  <2>2. CASE ScanStep
    <3>1. \A k : KeyNalAt(k)' <=> KeyNalAt(k)
      BY <2>2 DEF ScanStep, KeyNalAt, Byte
    <3>2. NoneBehind'
      BY <2>2, <3>1, StepLeapsOverNothing DEF NoneBehind, ScanInv
    <3>3. verdict' = "keyframe" => KeyNalAt(i) /\ i \in 0..Len(data)
      BY <2>2 DEF ScanStep, Find, Skip, Advance, AtStartCode, AtKeyNal, KeyNalAt, ScanTypeOK
    <3>4. KeyframeFound'
      BY <2>2, <3>1, <3>3 DEF ScanStep, Find, Skip, Advance, KeyframeFound, HasKeyNal
    <3> QED
      BY <3>2, <3>4 DEF ScanInv
  <2>3. CASE ScanEnds
    <3>1. \A k \in 0..Len(data) : ~KeyNalAt(k)
      BY <2>3 DEF ScanEnds, ScanInv, NoneBehind, KeyNalAt, ScanTypeOK
    <3>2. \A k : KeyNalAt(k)' <=> KeyNalAt(k)
      BY <2>3 DEF ScanEnds, KeyNalAt, Byte
    <3> QED
      BY <2>3, <3>1, <3>2 DEF ScanEnds, ScanInv, NoneBehind, KeyframeFound, HasKeyNal
  <2>4. CASE UNCHANGED scanVars
    BY <2>4 DEF scanVars, ScanInv, NoneBehind, KeyframeFound, HasKeyNal, KeyNalAt, Byte
  <2> QED
    BY <2>1, <2>2, <2>3, <2>4 DEF ScanNext
<1> QED
  BY <1>1, <1>2, ScanTypeCorrect, PTL DEF ScanSpec, ScanInv

-----------------------------------------------------------------------------
(* 3. The commands of a client *)

-----------------------------------------------------------------------------
(* Where the messages of a client begin *)

ParcelSize == [k \in 1..MaxParcels |-> parcels[k].size]

LEMMA ParcelSums == SumsOf(ParcelStart, ParcelSize, MaxParcels)
<1> DEFINE body(f) ==
             [k \in 1..(MaxParcels + 1) |-> IF k = 1 THEN 0 ELSE f[k - 1] + parcels[k - 1].size]
<1>1. ParcelStart = CHOOSE f : f = body(f)
  BY Zenon DEF ParcelStart
<1>2. \A k \in 2..(MaxParcels + 1) : ParcelSize[k - 1] = parcels[k - 1].size
  BY ParcelAssumption DEF ParcelSize
<1>3. PICK f : SumsTable(f, ParcelSize, MaxParcels)
  BY ParcelAssumption, SumsExist
<1>4. ASSUME NEW g
      PROVE  body(g) = [k \in 1..(MaxParcels + 1) |-> IF k = 1 THEN 0 ELSE g[k - 1] + ParcelSize[k - 1]]
  <2>1. \A k \in 1..(MaxParcels + 1) : k # 1 => k \in 2..(MaxParcels + 1)
    BY ParcelAssumption
  <2> QED
    BY <1>2, <2>1
<1> HIDE DEF body
<1>5. f = body(f)
  BY <1>3, <1>4 DEF SumsTable
<1>6. ParcelStart = body(ParcelStart)
  BY <1>1, <1>5, Zenon
<1>7. ParcelStart = [k \in 1..(MaxParcels + 1) |-> IF k = 1 THEN 0 ELSE ParcelStart[k - 1] + ParcelSize[k - 1]]
  BY <1>4, <1>6
<1> QED
  BY <1>7, Zenon DEF SumsOf

LEMMA ParcelSumsNext == SumsOf(ParcelStart, ParcelSize, MaxParcels)'
BY ParcelSums, PTL

ParcelsTyped == parcels \in Seq([size : ParcelSizes, control : BOOLEAN]) /\ Len(parcels) <= MaxParcels

LEMMA ParcelFits ==
    ASSUME ParcelsTyped, NEW k \in 1..Len(parcels)
    PROVE  /\ parcels[k].size \in ParcelSizes /\ parcels[k].size \in Nat \ {0}
           /\ ParcelSize[k] = parcels[k].size
<1>1. parcels[k] \in [size : ParcelSizes, control : BOOLEAN] /\ k \in 1..MaxParcels
  <2>1. Len(parcels) \in Nat /\ MaxParcels \in Nat /\ Len(parcels) <= MaxParcels
    BY ParcelAssumption DEF ParcelsTyped
  <2>2. parcels[k] \in [size : ParcelSizes, control : BOOLEAN]
    <3>1. PICK R : R = [size : ParcelSizes, control : BOOLEAN]
      BY Zenon
    <3>2. parcels \in Seq(R)
      BY <3>1, Zenon DEF ParcelsTyped
    <3>3. parcels[k] \in R
      BY <3>2
    <3> QED
      BY <3>1, <3>3, Zenon
  <2> QED
    BY <2>1, <2>2
<1>2. \A size \in ParcelSizes : size \in Nat \ {0}
  BY ParcelAssumption
<1> QED
  BY <1>1, <1>2 DEF ParcelSize

PlacesGrow ==
    /\ ParcelStart[1] = 0
    /\ \A k \in 1..(Len(parcels) + 1) : ParcelStart[k] \in Nat
    /\ \A k \in 1..Len(parcels) : ParcelStart[k + 1] = ParcelStart[k] + parcels[k].size
    /\ \A j, k \in 1..(Len(parcels) + 1) : j < k => ParcelStart[j] < ParcelStart[k]

LEMMA ParcelsGrow == ParcelsTyped => PlacesGrow
<1> SUFFICES ASSUME ParcelsTyped PROVE PlacesGrow
  OBVIOUS
<1> DEFINE m == Len(parcels)
<1>1. MaxParcels \in Nat /\ m \in 0..MaxParcels
  BY ParcelAssumption DEF ParcelsTyped
<1>2. \A k \in 1..m : ParcelSize[k] = parcels[k].size /\ ParcelSize[k] \in Nat \ {0}
  BY ParcelFits
<1> HIDE DEF m
<1>3. /\ ParcelStart[1] = 0
      /\ \A k \in 1..(m + 1) : ParcelStart[k] \in Nat
      /\ \A k \in 1..m : ParcelStart[k + 1] = ParcelStart[k] + ParcelSize[k]
      /\ \A j, k \in 1..(m + 1) : j < k => ParcelStart[j] < ParcelStart[k]
  BY <1>1, <1>2, ParcelSums, SumsGrow
<1> QED
  BY <1>2, <1>3 DEF m, PlacesGrow

LEMMA ParcelsGrowNext == (ParcelsTyped => PlacesGrow)'
BY ParcelsGrow, PTL

(* A message that is added does not move those before it.                  *)
LEMMA ParcelsKept ==
    ASSUME ParcelsTyped, Len(parcels) < MaxParcels,
           NEW parcel \in [size : ParcelSizes, control : BOOLEAN], parcels' = Append(parcels, parcel)
    PROVE  \A k \in 1..(Len(parcels) + 1) : ParcelStart'[k] = ParcelStart[k]
<1>1. MaxParcels \in Nat /\ Len(parcels) \in 0..MaxParcels
  BY ParcelAssumption DEF ParcelsTyped
<1>2. \A k \in 1..Len(parcels) : ParcelSize'[k] = ParcelSize[k]
  <2>1. \A k \in 1..Len(parcels) : k \in 1..MaxParcels /\ parcels'[k] = parcels[k]
    BY <1>1 DEF ParcelsTyped
  <2> QED
    BY <2>1 DEF ParcelSize
<1>3. PICK f, g, s, t, n, m :
          /\ f = ParcelStart' /\ g = ParcelStart /\ s = ParcelSize' /\ t = ParcelSize
          /\ n = MaxParcels /\ m = Len(parcels)
  BY Zenon
<1>4. /\ n \in Nat /\ m \in 0..n /\ SumsOf(f, s, n) /\ SumsOf(g, t, n)
      /\ \A k \in 1..m : s[k] = t[k]
  BY <1>1, <1>2, <1>3, ParcelSums, ParcelSumsNext
<1>5. \A k \in 1..(m + 1) : f[k] = g[k]
  BY <1>4, SumsAgree
<1> QED
  BY <1>3, <1>5

-----------------------------------------------------------------------------
(* The loop over complete messages *)

ParcelsAt(o) == {k \in DOMAIN parcels : ParcelStart[k] = rx_taken + o}

SizeAt(o) == parcels[CHOOSE k \in ParcelsAt(o) : TRUE].size

ParseStops(held) ==
    {o \in 0..held : \/ held - o < ParcelHeaderSize
                     \/ ParcelsAt(o) = {}
                     \/ BadLength(SizeAt(o))
                     \/ held - o < SizeAt(o)}

Left(o, keep) == [keep |-> keep, offset |-> o]

Parsed(held) ==
    [o \in 0..held |->
       IF held - o < ParcelHeaderSize THEN Left(o, TRUE)
       ELSE IF ParcelsAt(o) = {} \/ BadLength(SizeAt(o)) THEN Left(o, FALSE)
       ELSE Left(o, TRUE)]

NextParcel(held) == [o \in 0..held |-> o + SizeAt(o)]

LEMMA SizeAtIsNumber ==
    ASSUME ParcelsTyped, NEW o, ParcelsAt(o) # {}
    PROVE  SizeAt(o) \in Nat \ {0}
<1>1. (CHOOSE k \in ParcelsAt(o) : TRUE) \in 1..Len(parcels)
  <2>1. ParcelsAt(o) \subseteq 1..Len(parcels)
    BY DEF ParcelsAt, ParcelsTyped
  <2> HIDE DEF ParcelsAt
  <2> QED
    BY <2>1, Zenon
<1> QED
  BY <1>1, ParcelFits DEF SizeAt

LEMMA ParseWalk ==
    ASSUME ParcelsTyped, NEW held \in Nat
    PROVE  \E w : /\ Parse(held) = w[0]
                  /\ Walks(w, held, ParseStops(held), Parsed(held), NextParcel(held))
<1> DEFINE body(w, o) ==
             IF held - o < ParcelHeaderSize THEN Left(o, TRUE)
             ELSE IF ParcelsAt(o) = {} THEN Left(o, FALSE)
             ELSE IF BadLength(SizeAt(o)) THEN Left(o, FALSE)
             ELSE IF held - o < SizeAt(o) THEN Left(o, TRUE)
             ELSE w[o + SizeAt(o)]
           walk == CHOOSE w : w = [o \in 0..held |-> body(w, o)]
<1>1. Parse(held) = walk[0]
  BY Zenon DEF Parse, ParcelsAt, SizeAt, Left
<1>2. \A o \in 0..held : o \notin ParseStops(held) => NextParcel(held)[o] \in (o + 1)..held
  <2> TAKE o \in 0..held
  <2> HAVE o \notin ParseStops(held)
  <2>1. ParcelsAt(o) # {} /\ ~(held - o < SizeAt(o))
    BY DEF ParseStops
  <2>2. SizeAt(o) \in Nat \ {0}
    BY <2>1, SizeAtIsNumber
  <2> QED
    BY <2>1, <2>2 DEF NextParcel
<1>3. PICK v : WalkTable(v, 0, held, ParseStops(held), Parsed(held), NextParcel(held))
  BY <1>2, WalkExists
<1>4. ASSUME NEW w, NEW o \in 0..held
      PROVE  body(w, o) = IF o \in ParseStops(held) THEN Parsed(held)[o] ELSE w[NextParcel(held)[o]]
  <2> DEFINE S == SizeAt(o)
             parsed == Parsed(held)[o]
  <2>1. parsed = IF held - o < ParcelHeaderSize THEN Left(o, TRUE)
                 ELSE IF ParcelsAt(o) = {} \/ BadLength(S) THEN Left(o, FALSE)
                 ELSE Left(o, TRUE)
    BY Zenon DEF Parsed
  <2>2. NextParcel(held)[o] = o + S
    BY DEF NextParcel
  <2>3. o \in ParseStops(held) <=> \/ held - o < ParcelHeaderSize
                                  \/ ParcelsAt(o) = {}
                                  \/ BadLength(S)
                                  \/ held - o < S
    BY DEF ParseStops
  <2> HIDE DEF S, parsed
  <2>4. CASE held - o < ParcelHeaderSize
    BY <2>1, <2>3, <2>4 DEF S, parsed
  <2>5. CASE ~(held - o < ParcelHeaderSize) /\ (ParcelsAt(o) = {} \/ BadLength(S))
    BY <2>1, <2>3, <2>5 DEF S, parsed
  <2>6. CASE ~(held - o < ParcelHeaderSize) /\ ParcelsAt(o) # {} /\ ~BadLength(S) /\ held - o < S
    BY <2>1, <2>3, <2>6 DEF S, parsed
  <2>7. CASE ~(held - o < ParcelHeaderSize) /\ ParcelsAt(o) # {} /\ ~BadLength(S) /\ ~(held - o < S)
    BY <2>2, <2>3, <2>7 DEF S, parsed
  <2> QED
    BY <2>4, <2>5, <2>6, <2>7
<1>5. v = [o \in 0..held |-> body(v, o)]
  <2>1. v = [o \in 0..held |-> IF o \in ParseStops(held) THEN Parsed(held)[o] ELSE v[NextParcel(held)[o]]]
    BY <1>3 DEF WalkTable
  <2>2. \A o \in 0..held :
          body(v, o) = IF o \in ParseStops(held) THEN Parsed(held)[o] ELSE v[NextParcel(held)[o]]
    BY <1>4
  <2> HIDE DEF body
  <2> QED
    BY <2>1, <2>2, Zenon
<1>6. walk = [o \in 0..held |-> body(walk, o)]
  <2> HIDE DEF body
  <2> QED
    BY <1>5, Zenon
<1>7. ASSUME NEW o \in 0..held
      PROVE  walk[o] = IF o \in ParseStops(held) THEN Parsed(held)[o] ELSE walk[NextParcel(held)[o]]
  <2> HIDE DEF walk
  <2>1. walk[o] = body(walk, o)
    <3> HIDE DEF body
    <3> QED
      BY <1>6, Zenon
  <2>2. body(walk, o) = IF o \in ParseStops(held) THEN Parsed(held)[o] ELSE walk[NextParcel(held)[o]]
    BY <1>4
  <2> HIDE DEF body
  <2> QED
    BY <2>1, <2>2, Zenon
<1> HIDE DEF walk
<1> QED
  BY <1>1, <1>7 DEF Walks

(* The loop ends where a message begins, or the next one will.             *)
LEMMA ParseEnds ==
    ASSUME ParcelsTyped, NEW held \in Nat, NEW h \in 1..(Len(parcels) + 1), rx_taken = ParcelStart[h]
    PROVE  \E e \in 0..held, j \in h..(Len(parcels) + 1) :
              /\ ParcelStart[j] = rx_taken + e
              /\ e \in ParseStops(held)
              /\ Parse(held) = Parsed(held)[e]
<1> DEFINE L == Len(parcels)
           boundary(j, o) == ParcelStart[j] = rx_taken + o
           G == {o \in 0..held : \E j \in h..(L + 1) : boundary(j, o)}
<1>1. PICK w : /\ Parse(held) = w[0]
               /\ Walks(w, held, ParseStops(held), Parsed(held), NextParcel(held))
  BY ParseWalk
<1>2. L \in Nat /\ rx_taken \in Nat
  BY ParcelsGrow DEF ParcelsTyped, PlacesGrow
<1>3. 0 \in G
  BY <1>2
<1>4. ASSUME NEW o \in G, o \notin ParseStops(held)
      PROVE  NextParcel(held)[o] \in G /\ o < NextParcel(held)[o]
  <2>1. ParcelsAt(o) # {} /\ ~(held - o < SizeAt(o)) /\ o \in 0..held
    <3>1. o \in 0..held
      OBVIOUS
    <3> HIDE DEF G
    <3> QED
      BY <1>4, <3>1 DEF ParseStops
  <2>2. SizeAt(o) \in Nat \ {0}
    BY <2>1, SizeAtIsNumber
  <2>3. PICK j \in h..(L + 1) : boundary(j, o)
    OBVIOUS
  <2> DEFINE k == CHOOSE k \in ParcelsAt(o) : TRUE
  <2>4. k \in 1..L /\ ParcelStart[k] = rx_taken + o /\ SizeAt(o) = parcels[k].size
    <3>1. k \in ParcelsAt(o)
      BY <2>1, Zenon
    <3> HIDE DEF k
    <3>2. k \in 1..L /\ ParcelStart[k] = rx_taken + o
      BY <3>1 DEF ParcelsAt, ParcelsTyped
    <3> QED
      BY <3>2, Zenon DEF k, SizeAt
  <2> HIDE DEF k
  <2>5. j = k
    <3>1. j \in 1..(L + 1) /\ k \in 1..(L + 1) /\ ParcelStart[j] = ParcelStart[k]
      BY <1>2, <2>3, <2>4
    <3>2. ~(j < k) /\ ~(k < j)
      BY <3>1, ParcelsGrow DEF PlacesGrow
    <3> QED
      BY <3>1, <3>2
  <2>6. k + 1 \in h..(L + 1) /\ ParcelStart[k + 1] = rx_taken + (o + SizeAt(o))
    BY <1>2, <2>1, <2>2, <2>3, <2>4, <2>5, ParcelsGrow DEF PlacesGrow
  <2>7. o + SizeAt(o) \in 0..held /\ o < o + SizeAt(o)
    BY <2>1, <2>2
  <2>8. NextParcel(held)[o] = o + SizeAt(o)
    BY <2>1 DEF NextParcel
  <2> QED
    BY <2>6, <2>7, <2>8
<1>5. PICK e \in G : e \in ParseStops(held) /\ w[0] = Parsed(held)[e]
  <2>1. G \in SUBSET (0..held)
    OBVIOUS
  <2>2. Passes(G, ParseStops(held), NextParcel(held))
    BY <1>4 DEF Passes
  <2> HIDE DEF G
  <2> QED
    BY <1>1, <1>3, <2>1, <2>2, WalkEnds
<1> QED
  BY <1>1, <1>5

-----------------------------------------------------------------------------
(* The invariant: the buffer begins with a message, and holds no more than *)
(* the client has written.                                                 *)

RxAtParcel == \E h \in 1..(Len(parcels) + 1) : rx_taken = ParcelStart[h]

RxWritten == rx_taken + rx_filled <= client_sent

ControlInv == ControlTypeOK /\ RxAtParcel /\ RxWritten /\ CommandsInOrder

(* What the type says of the numbers *)
LEMMA ControlNumbers ==
    ASSUME ControlTypeOK
    PROVE  /\ ParcelsTyped /\ Len(parcels) \in Nat
           /\ ParcelsEnd \in Nat /\ client_sent \in Nat /\ rx_taken \in Nat /\ rx_filled \in Nat
           /\ client_sent <= ParcelsEnd
           /\ RxBufferSize \in Nat /\ ParcelHeaderSize \in Nat \ {0} /\ ParcelHeaderSize < RxBufferSize
           /\ rx_filled <= RxBufferSize
<1>1. ParcelsTyped /\ Len(parcels) \in Nat
  BY DEF ControlTypeOK, ParcelsTyped
<1>2. ParcelsEnd \in Nat
  BY <1>1, ParcelsGrow DEF ParcelsEnd, PlacesGrow
<1>3. RxBufferSize \in Nat /\ ParcelHeaderSize \in Nat \ {0} /\ ParcelHeaderSize < RxBufferSize
  BY ParcelAssumption
<1>4. client_sent \in 0..ParcelsEnd /\ rx_filled \in 0..RxBufferSize /\ rx_taken \in 0..client_sent
  BY DEF ControlTypeOK
<1> QED
  BY <1>1, <1>2, <1>3, <1>4

LEMMA MaxIs ==
    ASSUME NEW S \in SUBSET Nat, NEW m \in S, \A k \in S : k <= m
    PROVE  Max(S) = m
<1>1. \A k \in S : k \in Nat
  OBVIOUS
<1>2. \A x \in S : (\A y \in S : x >= y) <=> x = m
  BY <1>1
<1>3. Max(S) \in S /\ \A y \in S : Max(S) >= y
  <2>1. \E x \in S : \A y \in S : x >= y
    BY <1>2
  <2> QED
    BY <2>1, Zenon DEF Max
<1> QED
  BY <1>2, <1>3

(* What has been read are the messages before the one the buffer begins    *)
(* with.                                                                   *)
ReadBefore == \A h \in 1..(Len(parcels) + 1) : rx_taken = ParcelStart[h] => ReadParcels = 1..(h - 1)

LEMMA ReadIs == ParcelsTyped => ReadBefore
<1> SUFFICES ASSUME ParcelsTyped, NEW h \in 1..(Len(parcels) + 1), rx_taken = ParcelStart[h]
             PROVE  ReadParcels = 1..(h - 1)
  BY DEF ReadBefore
<1>1. Len(parcels) \in Nat /\ DOMAIN parcels = 1..Len(parcels)
  BY DEF ParcelsTyped
<1>2. \A k \in 1..Len(parcels) : ParcelStart[k + 1] <= ParcelStart[h] <=> k + 1 <= h
  <2> TAKE k \in 1..Len(parcels)
  <2>1. k + 1 \in 1..(Len(parcels) + 1) /\ ParcelStart[k + 1] \in Nat /\ ParcelStart[h] \in Nat
    BY <1>1, ParcelsGrow DEF PlacesGrow
  <2>2. k + 1 < h => ParcelStart[k + 1] < ParcelStart[h]
    BY <2>1, ParcelsGrow DEF PlacesGrow
  <2>3. h < k + 1 => ParcelStart[h] < ParcelStart[k + 1]
    BY <2>1, ParcelsGrow DEF PlacesGrow
  <2> QED
    BY <2>1, <2>2, <2>3
<1> QED
  BY <1>1, <1>2 DEF ReadParcels

LEMMA ReadIsNext == (ParcelsTyped => ReadBefore)'
BY ReadIs, PTL

(* recv of n bytes: what the loop finds, and what becomes of the buffer.   *)
LEMMA ReadClientParses ==
    ASSUME ControlInv, NEW n \in 1..RxBufferSize, ReadClient(n),
           NEW h \in 1..(Len(parcels) + 1), rx_taken = ParcelStart[h]
    PROVE  \E e \in 0..(rx_filled + n), j \in h..(Len(parcels) + 1) :
              /\ ParcelStart[j] = rx_taken + e
              /\ rx_taken' = ParcelStart[j] /\ rx_filled' = rx_filled + n - e
              /\ LET commands == {k \in h..(j - 1) : IsCommand(k)}
                 IN  applied' = IF commands = {} THEN applied ELSE Append(applied, Max(commands))
              /\ \/ client' = "kept" /\ rx_filled + n - e < RxBufferSize
                 \/ client' = "removed" /\ \E k \in DOMAIN parcels : parcels[k].size > RxBufferSize
<1> DEFINE held == rx_filled + n
           L == Len(parcels)
<1>1. ControlTypeOK /\ RxWritten
  BY DEF ControlInv
<1>2. /\ ParcelsTyped /\ L \in Nat /\ DOMAIN parcels = 1..L /\ ParcelsEnd = ParcelStart[L + 1]
      /\ client_sent \in Nat /\ rx_taken \in Nat /\ rx_filled \in Nat /\ held \in Nat
      /\ client_sent <= ParcelsEnd /\ ParcelsEnd \in Nat
      /\ RxBufferSize \in Nat /\ ParcelHeaderSize \in Nat \ {0} /\ ParcelHeaderSize < RxBufferSize
  BY <1>1, ControlNumbers DEF ParcelsTyped, ParcelsEnd
<1>3. rx_taken + held <= client_sent
  BY <1>2 DEF ReadClient
<1>4. PICK e \in 0..held, j \in h..(L + 1) :
        ParcelStart[j] = rx_taken + e /\ e \in ParseStops(held) /\ Parse(held) = Parsed(held)[e]
  BY <1>2, ParseEnds
<1> DEFINE walked == Parse(held)
           keep == held - e < ParcelHeaderSize \/ ~(ParcelsAt(e) = {} \/ BadLength(SizeAt(e)))
<1>5. walked.offset = e /\ (walked.keep <=> keep)
  <2>1. \A k : Left(e, k).offset = e /\ Left(e, k).keep = k
    BY DEF Left
  <2>2. walked = IF held - e < ParcelHeaderSize THEN Left(e, TRUE)
                 ELSE IF ParcelsAt(e) = {} \/ BadLength(SizeAt(e)) THEN Left(e, FALSE)
                 ELSE Left(e, TRUE)
    BY <1>4, Zenon DEF Parsed
  <2> HIDE DEF walked
  <2>3. CASE keep
    <3>1. walked = Left(e, TRUE)
      BY <2>2, <2>3
    <3> QED
      BY <2>1, <2>3, <3>1, Zenon
  <2>4. CASE ~keep
    <3>1. walked = Left(e, FALSE)
      BY <2>2, <2>4
    <3> QED
      BY <2>1, <2>4, <3>1, Zenon
  <2> QED
    BY <2>3, <2>4
<1>6. {k \in DOMAIN parcels : IsCommand(k) /\ ParcelStart[k] >= rx_taken /\ ParcelStart[k] < rx_taken + e}
        = {k \in h..(j - 1) : IsCommand(k)}
  <2>1. j \in 1..(L + 1) /\ h <= j /\ rx_taken + e = ParcelStart[j]
    BY <1>2, <1>4
  <2>2. \A k \in 1..L : /\ ParcelStart[k] >= ParcelStart[h] <=> k >= h
                       /\ ParcelStart[k] < ParcelStart[j] <=> k < j
    <3> TAKE k \in 1..L
    <3>1. /\ k \in 1..(L + 1) /\ ParcelStart[k] \in Nat
          /\ ParcelStart[h] \in Nat /\ ParcelStart[j] \in Nat
      BY <1>2, <2>1, ParcelsGrow DEF PlacesGrow
    <3>2. (k < h => ParcelStart[k] < ParcelStart[h]) /\ (h < k => ParcelStart[h] < ParcelStart[k])
      BY <1>2, <3>1, ParcelsGrow DEF PlacesGrow
    <3>3. (k < j => ParcelStart[k] < ParcelStart[j]) /\ (j < k => ParcelStart[j] < ParcelStart[k])
      BY <1>2, <2>1, <3>1, ParcelsGrow DEF PlacesGrow
    <3> QED
      BY <2>1, <3>1, <3>2, <3>3
  <2>3. \A k \in 1..L : ParcelStart[k] >= rx_taken /\ ParcelStart[k] < rx_taken + e <=> k \in h..(j - 1)
    BY <2>1, <2>2
  <2>4. h..(j - 1) \subseteq 1..L
    BY <1>2, <2>1
  <2> QED
    BY <1>2, <2>3, <2>4
<1>7. /\ rx_filled' = rx_filled + n - e /\ rx_taken' = rx_taken + e
      /\ LET commands == {k \in h..(j - 1) : IsCommand(k)}
         IN  applied' = IF commands = {} THEN applied ELSE Append(applied, Max(commands))
      /\ client' = IF keep THEN "kept" ELSE "removed"
  <2> HIDE DEF walked
  <2>1. /\ rx_filled' = rx_filled + n - walked.offset /\ rx_taken' = rx_taken + walked.offset
        /\ LET commands == {k \in DOMAIN parcels :
                              /\ IsCommand(k) /\ ParcelStart[k] >= rx_taken
                              /\ ParcelStart[k] < rx_taken + walked.offset}
           IN  applied' = IF commands = {} THEN applied ELSE Append(applied, Max(commands))
        /\ client' = IF walked.keep THEN "kept" ELSE "removed"
    BY Zenon DEF ReadClient, walked
  <2> HIDE DEF keep
  <2>2. client' = IF keep THEN "kept" ELSE "removed"
    BY <1>5, <2>1
  <2> QED
    BY <1>5, <1>6, <2>1, <2>2, Zenon
<1>8. CASE keep
  <2>1. held - e < RxBufferSize
    <3>1. CASE held - e < ParcelHeaderSize
      BY <1>2, <1>4, <3>1
    <3>2. CASE ~(held - e < ParcelHeaderSize)
      <4>1. ParcelsAt(e) # {} /\ ~BadLength(SizeAt(e)) /\ held - e < SizeAt(e)
        BY <1>4, <1>8, <3>2 DEF ParseStops
      <4>2. SizeAt(e) \in Nat /\ SizeAt(e) <= RxBufferSize
        BY <1>2, <4>1, SizeAtIsNumber DEF BadLength
      <4> QED
        BY <1>2, <1>4, <4>1, <4>2
    <3> QED
      BY <3>1, <3>2
  <2>2. rx_filled + n - e < RxBufferSize
    BY <1>2, <2>1
  <2> QED
    BY <1>4, <1>7, <1>8, <2>2
<1>9. CASE ~keep
  <2>1. \E k \in DOMAIN parcels : parcels[k].size > RxBufferSize
    <3>1. ParcelsAt(e) # {}
      <4>1. j # L + 1
        BY <1>2, <1>3, <1>4, <1>9
      <4>2. j \in ParcelsAt(e)
        BY <1>2, <1>4, <4>1 DEF ParcelsAt
      <4> QED
        BY <4>2
    <3> DEFINE k == CHOOSE k \in ParcelsAt(e) : TRUE
    <3>2. k \in ParcelsAt(e)
      BY <3>1, Zenon
    <3>3. BadLength(parcels[k].size)
      BY <1>9, <3>1 DEF SizeAt
    <3> HIDE DEF k
    <3>4. k \in 1..L /\ parcels[k].size \in Nat
      BY <1>2, <3>2, ParcelFits DEF ParcelsAt
    <3> QED
      BY <1>2, <3>3, <3>4 DEF BadLength
  <2> QED
    BY <1>4, <1>7, <1>9, <2>1
<1> QED
  BY <1>8, <1>9

LEMMA GreatestCommand ==
    ASSUME NEW h \in Nat, NEW j \in Nat, NEW S \in SUBSET (h..j), S # {}
    PROVE  Max(S) \in S /\ \A k \in S : k <= Max(S)
<1>1. S \in SUBSET (0..j) /\ S \in SUBSET Nat
  <2>1. \A k \in S : k \in 0..j
    OBVIOUS
  <2> QED
    BY <2>1
<1>2. PICK m \in S : \A k \in S : ~(k > m)
  BY <1>1, Greatest
<1>3. \A k \in S : k <= m
  BY <1>1, <1>2
<1> QED
  BY <1>1, <1>3, MaxIs

(* What CommandsInOrder says of the messages that were read.               *)
InOrderUpTo(h) ==
    /\ Increasing(applied) /\ \A j \in DOMAIN applied : applied[j] \in 1..(h - 1) /\ IsCommand(applied[j])
    /\ {k \in 1..(h - 1) : IsCommand(k)} # {} =>
         applied # <<>> /\ Last(applied) = Max({k \in 1..(h - 1) : IsCommand(k)})

LEMMA CommandsAre ==
    ASSUME ParcelsTyped, NEW h \in 1..(Len(parcels) + 1), rx_taken = ParcelStart[h]
    PROVE  CommandsInOrder <=> /\ InOrderUpTo(h)
                               /\ client = "kept" => rx_filled < RxBufferSize
                               /\ client = "removed" => \/ stream_ended
                                                        \/ \E k \in DOMAIN parcels :
                                                             parcels[k].size > RxBufferSize
<1>1. ReadParcels = 1..(h - 1)
  BY ReadIs DEF ReadBefore
<1>2. ReadCommands = {k \in 1..(h - 1) : IsCommand(k)}
  BY <1>1, Zenon DEF ReadCommands
<1>3. \A k : k \in ReadCommands <=> k \in 1..(h - 1) /\ IsCommand(k)
  BY <1>2
<1> QED
  BY <1>2, <1>3, Zenon DEF CommandsInOrder, InOrderUpTo

LEMMA CommandsAreNext ==
    ASSUME ParcelsTyped', NEW h \in 1..(Len(parcels') + 1), rx_taken' = ParcelStart'[h]
    PROVE  CommandsInOrder' <=> /\ InOrderUpTo(h)'
                                /\ client' = "kept" => rx_filled' < RxBufferSize
                                /\ client' = "removed" => \/ stream_ended'
                                                          \/ \E k \in DOMAIN parcels' :
                                                               parcels'[k].size > RxBufferSize
<1>1. ReadParcels' = 1..(h - 1)
  BY ReadIsNext DEF ReadBefore
<1>2. ReadCommands' = {k \in 1..(h - 1) : IsCommand(k)'}
  BY <1>1, Zenon DEF ReadCommands
<1>3. \A k : k \in ReadCommands' <=> k \in 1..(h - 1) /\ IsCommand(k)'
  BY <1>2
<1> QED
  BY <1>2, <1>3, Zenon DEF CommandsInOrder, InOrderUpTo

(* Commands that are read are applied by their last one.                   *)
(* What Append does to a sequence. *)
LEMMA Appended ==
    ASSUME NEW S, NEW s \in Seq(S), NEW c \in S
    PROVE  Append(s, c) \in Seq(S) /\ Len(Append(s, c)) = Len(s) + 1 /\ Append(s, c)[Len(s) + 1] = c
OBVIOUS

LEMMA AppliedInOrder ==
    ASSUME applied \in Seq(1..MaxParcels), NEW h \in Nat \ {0}, NEW j \in Nat, h <= j, j - 1 <= MaxParcels,
           InOrderUpTo(h), \A k : IsCommand(k)' <=> IsCommand(k),
           LET commands == {k \in h..(j - 1) : IsCommand(k)}
           IN  applied' = IF commands = {} THEN applied ELSE Append(applied, Max(commands))
    PROVE  InOrderUpTo(j)' /\ applied' \in Seq(1..MaxParcels)
<1> DEFINE before == {k \in 1..(h - 1) : IsCommand(k)}
           commands == {k \in h..(j - 1) : IsCommand(k)}
           after == {k \in 1..(j - 1) : IsCommand(k)}
<1>1. after = before \cup commands
  <2>1. \A k \in 1..(j - 1) : k \in 1..(h - 1) \/ k \in h..(j - 1)
    OBVIOUS
  <2>2. 1..(h - 1) \subseteq 1..(j - 1) /\ h..(j - 1) \subseteq 1..(j - 1)
    OBVIOUS
  <2> QED
    BY <2>1, <2>2
<1>2. InOrderUpTo(j)' <=> /\ Increasing(applied')
                          /\ \A p \in DOMAIN applied' : applied'[p] \in after
                          /\ after # {} => applied' # <<>> /\ Last(applied') = Max(after)
  <2>1. after = {k \in 1..(j - 1) : IsCommand(k)'}
    OBVIOUS
  <2>2. \A k : k \in after <=> k \in 1..(j - 1) /\ IsCommand(k)'
    OBVIOUS
  <2> HIDE DEF after
  <2> QED
    BY <2>1, <2>2, Zenon DEF InOrderUpTo
<1>3. /\ Increasing(applied) /\ \A p \in DOMAIN applied : applied[p] \in before
      /\ before # {} => applied # <<>> /\ Last(applied) = Max(before)
  BY DEF InOrderUpTo
<1>4. CASE commands = {}
  <2>1. applied' = applied /\ after = before
    BY <1>1, <1>4
  <2> HIDE DEF before, after
  <2> QED
    BY <1>2, <1>3, <2>1
<1>5. CASE commands # {}
  <2> DEFINE c == Max(commands)
  <2>1. c \in h..(j - 1) /\ IsCommand(c) /\ c \in commands /\ \A k \in commands : k <= c
    <3>1. commands \in SUBSET (h..(j - 1)) /\ j - 1 \in Nat
      OBVIOUS
    <3>2. c \in commands /\ \A k \in commands : k <= c
      <4> HIDE DEF commands
      <4> QED
        BY <1>5, <3>1, GreatestCommand
    <3> HIDE DEF c
    <3> QED
      BY <3>2
  <2>2. applied' = Append(applied, c)
    BY <1>5
  <2> HIDE DEF c
  <2>3. c \in 1..MaxParcels /\ c \in after /\ MaxParcels \in Nat
    BY <1>1, <2>1, ParcelAssumption
  <2>4. Max(after) = c
    <3>1. \A k \in before : k <= c
      BY <2>1
    <3>2. after \in SUBSET Nat
      OBVIOUS
    <3> HIDE DEF before, after, commands
    <3> QED
      BY <1>1, <2>1, <2>3, <3>1, <3>2, MaxIs
  <2>5. applied' \in Seq(1..MaxParcels) /\ applied' # <<>> /\ Last(applied') = c
    <3> DEFINE S == 1..MaxParcels
    <3>1. applied \in Seq(S) /\ c \in S
      BY <2>3
    <3>2. applied' \in Seq(S) /\ Len(applied') = Len(applied) + 1 /\ applied'[Len(applied) + 1] = c
      <4> HIDE DEF S
      <4> QED
        BY <2>2, <3>1, Appended
    <3>3. Len(applied) \in Nat
      BY <3>1
    <3>4. Last(applied') = c
      <4>1. Len(applied') = Len(applied) + 1 /\ applied'[Len(applied) + 1] = c
        BY <3>2
      <4> HIDE DEF c
      <4> QED
        BY <4>1, Zenon DEF Last
    <3>5. applied' # <<>>
      <4>1. Len(applied') # 0
        BY <3>2, <3>3
      <4> QED
        BY <4>1
    <3> QED
      BY <3>2, <3>4, <3>5
  <2>9. applied'[Len(applied) + 1] = c
    BY <2>2, <2>3
  <2>6. \A p \in DOMAIN applied' : (p \in DOMAIN applied /\ applied'[p] = applied[p]) \/ (p = Len(applied) + 1 /\ applied'[p] = c)
    BY <2>2, <2>3
  <2>7. \A p \in DOMAIN applied' : applied'[p] \in after
    BY <1>1, <1>3, <2>3, <2>6
  <2>8. Increasing(applied')
    <3>1. \A p \in DOMAIN applied : applied[p] \in Nat /\ applied[p] < c /\ p \in 1..Len(applied)
      BY <1>3, <2>1
    <3>2. ASSUME NEW p \in DOMAIN applied', NEW k \in DOMAIN applied', p < k PROVE applied'[p] < applied'[k]
      <4>1. Len(applied) \in Nat /\ DOMAIN applied = 1..Len(applied) /\ DOMAIN applied' = 1..(Len(applied) + 1)
        BY <2>2
      <4>2. p \in DOMAIN applied /\ applied'[p] = applied[p]
        BY <2>6, <3>2, <4>1
      <4>3. CASE k \in DOMAIN applied
        <5>1. applied'[k] = applied[k]
          BY <2>6, <4>1, <4>3
        <5> QED
          BY <1>3, <3>2, <4>2, <4>3, <5>1 DEF Increasing
      <4>4. CASE k = Len(applied) + 1
        <5>1. applied'[k] = c
          BY <2>9, <4>4
        <5> QED
          BY <3>1, <4>2, <5>1
      <4> QED
        BY <4>1, <4>3, <4>4
    <3> QED
      BY <3>2 DEF Increasing
  <2> HIDE DEF before, after, commands
  <2> QED
    BY <1>2, <2>4, <2>5, <2>7, <2>8
<1> QED
  BY <1>4, <1>5

LEMMA ReadClientKeeps ==
    ASSUME ControlInv, NEW n \in 1..RxBufferSize, ReadClient(n)
    PROVE  ControlInv'
<1>1. ControlTypeOK /\ RxWritten /\ CommandsInOrder
  BY DEF ControlInv
<1>2. PICK h \in 1..(Len(parcels) + 1) : rx_taken = ParcelStart[h]
  BY DEF ControlInv, RxAtParcel
<1>3. PICK e \in 0..(rx_filled + n), j \in h..(Len(parcels) + 1) :
              /\ ParcelStart[j] = rx_taken + e
              /\ rx_taken' = ParcelStart[j] /\ rx_filled' = rx_filled + n - e
              /\ LET commands == {k \in h..(j - 1) : IsCommand(k)}
                 IN  applied' = IF commands = {} THEN applied ELSE Append(applied, Max(commands))
              /\ \/ client' = "kept" /\ rx_filled + n - e < RxBufferSize
                 \/ client' = "removed" /\ \E k \in DOMAIN parcels : parcels[k].size > RxBufferSize
  BY <1>2, ReadClientParses
<1>4. parcels' = parcels /\ client_sent' = client_sent /\ stream_ended' = stream_ended
  BY DEF ReadClient, clientVars
<1>5. /\ ParcelsTyped /\ Len(parcels) \in Nat /\ ParcelsEnd \in Nat /\ client_sent \in Nat /\ rx_taken \in Nat
      /\ rx_filled \in Nat /\ client_sent <= ParcelsEnd /\ RxBufferSize \in Nat
  BY <1>1, ControlNumbers
<1>6. ParcelStart' = ParcelStart /\ ParcelsEnd' = ParcelsEnd /\ ParcelsTyped' /\ \A k : IsCommand(k)' <=> IsCommand(k)
  BY <1>4, <1>5 DEF ParcelStart, ParcelsEnd, ParcelsTyped, IsCommand
<1>7. h \in Nat \ {0} /\ j \in Nat /\ h <= j /\ j \in 1..(Len(parcels) + 1) /\ j - 1 <= MaxParcels
  BY <1>5, ParcelAssumption DEF ParcelsTyped
<1>8. InOrderUpTo(h) /\ applied \in Seq(1..MaxParcels)
  BY <1>1, <1>2, <1>5, CommandsAre DEF ControlTypeOK
<1>9. InOrderUpTo(j)' /\ applied' \in Seq(1..MaxParcels)
  BY <1>3, <1>6, <1>7, <1>8, AppliedInOrder
<1>10. /\ n <= RxBufferSize - rx_filled /\ n <= client_sent - (rx_taken + rx_filled) /\ n \in Nat
       /\ e \in Nat /\ e <= rx_filled + n
  BY <1>3, <1>5 DEF ReadClient
<1>11. /\ rx_filled' \in 0..RxBufferSize /\ rx_taken' \in 0..client_sent
       /\ rx_taken' + rx_filled' <= client_sent
  <2>1. rx_taken' = rx_taken + e /\ rx_filled' = rx_filled + n - e
    BY <1>3
  <2>2. \A held, took, sent, m, r, d \in Nat :
          m <= r - held /\ m <= sent - (took + held) /\ d <= held + m =>
            /\ held + m - d \in 0..r /\ took + d \in 0..sent
            /\ (took + d) + (held + m - d) <= sent
    OBVIOUS
  <2> QED
    BY <1>5, <1>10, <2>1, <2>2, Zenon
<1>12. ControlTypeOK'
  <2>1. client' \in {"kept", "removed"}
    BY <1>3
  <2> QED
    BY <1>1, <1>4, <1>6, <1>9, <1>11, <2>1 DEF ControlTypeOK
<1>13. rx_taken' = ParcelStart'[j] /\ j \in 1..(Len(parcels') + 1)
  BY <1>3, <1>4, <1>6, <1>7
<1>14. CommandsInOrder'
  <2>1. client' = "kept" => rx_filled' < RxBufferSize
    BY <1>3
  <2>2. client' = "removed" => \E k \in DOMAIN parcels' : parcels'[k].size > RxBufferSize
    BY <1>3, <1>4
  <2> QED
    BY <1>6, <1>9, <1>13, <2>1, <2>2, CommandsAreNext
<1> QED
  BY <1>4, <1>11, <1>12, <1>13, <1>14 DEF ControlInv, RxAtParcel, RxWritten

(* A message that is added is behind everything that was written.          *)
LEMMA WritesParcelKeeps ==
    ASSUME ControlInv, NEW size \in ParcelSizes, NEW control \in BOOLEAN, WritesParcel(size, control)
    PROVE  ControlInv'
<1> DEFINE parcel == [size |-> size, control |-> control]
           L == Len(parcels)
<1>1. ControlTypeOK /\ RxWritten /\ CommandsInOrder
  BY DEF ControlInv
<1>2. /\ parcels' = Append(parcels, parcel) /\ L < MaxParcels /\ client_sent' = client_sent
      /\ stream_ended' = stream_ended /\ client' = client /\ rx_filled' = rx_filled /\ rx_taken' = rx_taken
      /\ applied' = applied
  BY DEF WritesParcel
<1>3. /\ ParcelsTyped /\ L \in Nat /\ ParcelsEnd \in Nat /\ client_sent \in Nat /\ rx_taken \in Nat
      /\ rx_filled \in Nat /\ client_sent <= ParcelsEnd
  BY <1>1, ControlNumbers
<1>4. parcel \in [size : ParcelSizes, control : BOOLEAN] /\ parcel.size = size /\ size \in Nat
  BY ParcelAssumption
<1> HIDE DEF parcel
<1>5. ParcelsTyped' /\ Len(parcels') = L + 1 /\ parcels'[L + 1] = parcel /\ \A k \in 1..L : parcels'[k] = parcels[k]
  <2>1. PICK R : R = [size : ParcelSizes, control : BOOLEAN]
    BY Zenon
  <2>2. parcels \in Seq(R) /\ parcel \in R
    BY <1>3, <1>4, <2>1, Zenon DEF ParcelsTyped
  <2>3. parcels' \in Seq(R) /\ Len(parcels') = L + 1 /\ parcels'[L + 1] = parcel /\ \A k \in 1..L : parcels'[k] = parcels[k]
    BY <1>2, <2>2
  <2>4. Len(parcels') <= MaxParcels /\ parcels' \in Seq([size : ParcelSizes, control : BOOLEAN])
    BY <1>2, <1>3, <2>1, <2>3, ParcelAssumption
  <2> QED
    BY <2>3, <2>4 DEF ParcelsTyped
<1>6. \A k \in 1..(L + 1) : ParcelStart'[k] = ParcelStart[k]
  BY <1>2, <1>3, <1>4, ParcelsKept
<1>7. ParcelsEnd' = ParcelsEnd + size
  <2>1. L + 1 \in 1..Len(parcels')
    BY <1>3, <1>5
  <2>2. ParcelStart'[(L + 1) + 1] = ParcelStart'[L + 1] + parcels'[L + 1].size
    BY <1>5, <2>1, ParcelsGrowNext DEF PlacesGrow
  <2>3. ParcelsEnd' = ParcelStart'[(L + 1) + 1]
    BY <1>5 DEF ParcelsEnd
  <2>4. ParcelStart'[L + 1] = ParcelsEnd
    BY <1>3, <1>6 DEF ParcelsEnd
  <2> QED
    BY <1>4, <1>5, <2>2, <2>3, <2>4
<1>8. ControlTypeOK'
  <2>1. client_sent' \in 0..ParcelsEnd'
    BY <1>2, <1>3, <1>4, <1>7
  <2> QED
    BY <1>1, <1>2, <1>5, <2>1 DEF ControlTypeOK, ParcelsTyped
<1>9. PICK h \in 1..(L + 1) : rx_taken = ParcelStart[h]
  BY DEF ControlInv, RxAtParcel
<1>10. h \in 1..(Len(parcels') + 1) /\ rx_taken' = ParcelStart'[h] /\ h - 1 <= L
  BY <1>2, <1>3, <1>5, <1>6, <1>9
<1>11. InOrderUpTo(h)'
  <2>1. \A k \in 1..(h - 1) : IsCommand(k)' <=> IsCommand(k)
    BY <1>3, <1>5, <1>10 DEF IsCommand
  <2>2. InOrderUpTo(h)
    BY <1>1, <1>3, <1>9, CommandsAre
  <2>3. {k \in 1..(h - 1) : IsCommand(k)'} = {k \in 1..(h - 1) : IsCommand(k)}
    BY <2>1
  <2> QED
    BY <1>2, <2>1, <2>2, <2>3, Zenon DEF InOrderUpTo, Increasing
<1>12. CommandsInOrder'
  <2>1. client' = "kept" => rx_filled' < RxBufferSize
    BY <1>1, <1>2 DEF CommandsInOrder
  <2>2. client' = "removed" => stream_ended' \/ \E k \in DOMAIN parcels' : parcels'[k].size > RxBufferSize
    <3>1. \A k \in DOMAIN parcels : k \in DOMAIN parcels' /\ parcels'[k] = parcels[k]
      BY <1>3, <1>5 DEF ParcelsTyped
    <3> QED
      BY <1>1, <1>2, <3>1 DEF CommandsInOrder
  <2> QED
    BY <1>5, <1>10, <1>11, <2>1, <2>2, CommandsAreNext
<1> QED
  BY <1>2, <1>1, <1>8, <1>10, <1>12 DEF ControlInv, RxAtParcel, RxWritten

LEMMA OtherStepsKeep ==
    ASSUME ControlInv,
           \/ \E n \in 1..RxBufferSize : WritesBytes(n)
           \/ ClientCloses \/ ServiceShutsDown \/ RecvReturnsZero \/ UNCHANGED controlVars
    PROVE  ControlInv'
<1>1. ControlTypeOK /\ RxWritten /\ RxAtParcel /\ CommandsInOrder
  BY DEF ControlInv
<1>2. /\ parcels' = parcels /\ rx_filled' = rx_filled /\ rx_taken' = rx_taken /\ applied' = applied
      /\ stream_ended \in BOOLEAN /\ stream_ended' \in BOOLEAN /\ (stream_ended => stream_ended')
  BY <1>1 DEF WritesBytes, ClientCloses, ServiceShutsDown, RecvReturnsZero, controlVars, clientVars, ControlTypeOK
<1>3. /\ Len(parcels) \in Nat /\ ParcelsEnd \in Nat /\ client_sent \in Nat /\ rx_taken \in Nat
      /\ rx_filled \in Nat /\ client_sent <= ParcelsEnd /\ RxBufferSize \in Nat
  BY <1>1, ControlNumbers
<1>4. client_sent' \in client_sent..ParcelsEnd
  BY <1>3 DEF WritesBytes, ClientCloses, ServiceShutsDown, RecvReturnsZero, controlVars, clientVars
<1>5. /\ ParcelStart' = ParcelStart /\ ParcelsEnd' = ParcelsEnd /\ ReadCommands' = ReadCommands
  BY <1>2 DEF ParcelStart, ParcelsEnd, ReadCommands, ReadParcels, IsCommand
<1>6. /\ client' \in {"kept", "removed"}
      /\ client' = "kept" => client = "kept"
      /\ client' = "removed" => client = "removed" \/ stream_ended
  BY <1>1, <1>3 DEF WritesBytes, ClientCloses, ServiceShutsDown, RecvReturnsZero, controlVars, clientVars, ControlTypeOK, CommandsInOrder
<1>7. client_sent' \in 0..ParcelsEnd /\ rx_taken \in 0..client_sent' /\ rx_taken + rx_filled <= client_sent'
  BY <1>1, <1>3, <1>4 DEF RxWritten
<1>8. ControlTypeOK' /\ RxWritten'
  BY <1>1, <1>2, <1>5, <1>6, <1>7 DEF ControlTypeOK, RxWritten
<1>9. RxAtParcel'
  BY <1>1, <1>2, <1>5 DEF RxAtParcel
<1>10. CommandsInOrder'
  BY <1>1, <1>2, <1>5, <1>6 DEF CommandsInOrder, Increasing
<1> QED
  BY <1>8, <1>9, <1>10 DEF ControlInv

LEMMA ControlStep == ControlInv /\ [ControlNext]_controlVars => ControlInv'
BY ReadClientKeeps, WritesParcelKeeps, OtherStepsKeep DEF ControlNext

LEMMA ControlInitially == ControlInit => ControlInv
<1> SUFFICES ASSUME ControlInit PROVE ControlInv
  OBVIOUS
<1>1. ParcelsTyped /\ Len(parcels) = 0
  BY ParcelAssumption DEF ControlInit, ParcelsTyped
<1>2. ParcelStart[1] = 0 /\ ParcelsEnd = 0
  BY <1>1, ParcelsGrow DEF PlacesGrow, ParcelsEnd
<1>3. ControlTypeOK
  <2>1. parcels = <<>> /\ applied = <<>> /\ client_sent = 0 /\ rx_filled = 0 /\ rx_taken = 0
    BY DEF ControlInit
  <2>2. stream_ended \in BOOLEAN /\ client \in {"kept", "removed"}
    BY DEF ControlInit
  <2>3. \A S : <<>> \in Seq(S)
    OBVIOUS
  <2>4. 0 \in 0..ParcelsEnd /\ rx_taken \in 0..client_sent /\ rx_filled \in 0..RxBufferSize /\ Len(parcels) <= MaxParcels
    BY <1>1, <1>2, <2>1, ParcelAssumption
  <2> QED
    BY <2>1, <2>2, <2>3, <2>4, Zenon DEF ControlTypeOK
<1>4. ReadCommands = {}
  BY DEF ControlInit, ReadCommands, ReadParcels
<1> QED
  BY <1>1, <1>2, <1>3, <1>4, ParcelAssumption
  DEF ControlInit, ControlInv, RxAtParcel, RxWritten, CommandsInOrder, Increasing

(* What is in the buffer was written by the client, and is never more than *)
(* the buffer holds.                                                       *)
THEOREM ControlTypeCorrect == ControlSpec => []ControlTypeOK
<1>1. ControlInv => ControlTypeOK
  BY DEF ControlInv
<1> QED
  BY <1>1, ControlInitially, ControlStep, PTL DEF ControlSpec

(* However the stream of a client is cut, its commands are applied once, in *)
(* their order, and the last one it got through always; and it is removed   *)
(* only when its stream has ended, by itself or by the service's shutdown,  *)
(* or if it sends what no buffer can hold.                                  *)
THEOREM CommandsApplied == ControlSpec => []CommandsInOrder
<1>1. ControlInv => CommandsInOrder
  BY DEF ControlInv
<1> QED
  BY <1>1, ControlInitially, ControlStep, PTL DEF ControlSpec

-----------------------------------------------------------------------------
(* 4. What the service tells a client *)

-----------------------------------------------------------------------------
(* Where the messages of a connection begin *)

ToldSent == [k \in 1..MaxTold |-> told[k].sent]

LEMMA ToldSums == SumsOf(ToldStart, ToldSent, MaxTold)
<1> DEFINE body(f) ==
             [k \in 1..(MaxTold + 1) |-> IF k = 1 THEN 0 ELSE f[k - 1] + told[k - 1].sent]
<1>1. ToldStart = CHOOSE f : f = body(f)
  BY Zenon DEF ToldStart
<1>2. \A k \in 2..(MaxTold + 1) : ToldSent[k - 1] = told[k - 1].sent
  BY TellAssumption DEF ToldSent
<1>3. PICK f : SumsTable(f, ToldSent, MaxTold)
  BY TellAssumption, SumsExist
<1>4. ASSUME NEW g
      PROVE  body(g) = [k \in 1..(MaxTold + 1) |-> IF k = 1 THEN 0 ELSE g[k - 1] + ToldSent[k - 1]]
  <2>1. \A k \in 1..(MaxTold + 1) : k # 1 => k \in 2..(MaxTold + 1)
    BY TellAssumption
  <2> QED
    BY <1>2, <2>1
<1> HIDE DEF body
<1>5. f = body(f)
  BY <1>3, <1>4 DEF SumsTable
<1>6. ToldStart = body(ToldStart)
  BY <1>1, <1>5, Zenon
<1>7. ToldStart = [k \in 1..(MaxTold + 1) |-> IF k = 1 THEN 0 ELSE ToldStart[k - 1] + ToldSent[k - 1]]
  BY <1>4, <1>6
<1> QED
  BY <1>7, Zenon DEF SumsOf

LEMMA ToldSumsNext == SumsOf(ToldStart, ToldSent, MaxTold)'
BY ToldSums, PTL

ToldTyped ==
    told \in Seq([message : Tellings, sent : 0..MaxTellSize]) /\ Len(told) <= MaxTold

(* A telling has a header, and the receiver has room for it. *)
LEMMA TellingFits ==
    ASSUME NEW message \in Tellings
    PROVE  message.size \in Nat /\ TellHeaderSize <= message.size /\ message.size <= MaxTellSize
<1>1. TellHeaderSize \in Nat /\ TouchSize \in Nat /\ TellHeaderSize <= TouchSize /\ TouchSize <= MaxTellSize /\ MaxTellSize \in Nat
  BY TellAssumption
<1>2. message.size \in {TellHeaderSize, TouchSize} \cup NoticeSizes
  BY DEF Tellings
<1>3. \A n \in NoticeSizes : n \in TellHeaderSize..MaxTellSize
  BY TellAssumption
<1> QED
  BY <1>1, <1>2, <1>3

LEMMA ToldFits ==
    ASSUME ToldTyped, NEW k \in 1..Len(told)
    PROVE  /\ told[k].message \in Tellings /\ told[k].sent \in Nat
           /\ ToldSent[k] = told[k].sent
<1>1. Len(told) \in Nat /\ MaxTold \in Nat /\ Len(told) <= MaxTold /\ MaxTellSize \in Nat
  BY TellAssumption DEF ToldTyped
<1>2. told[k] \in [message : Tellings, sent : 0..MaxTellSize]
  <2>1. PICK R : R = [message : Tellings, sent : 0..MaxTellSize]
    BY Zenon
  <2>2. told \in Seq(R)
    BY <2>1, Zenon DEF ToldTyped
  <2>3. told[k] \in R
    BY <2>2
  <2> QED
    BY <2>1, <2>3, Zenon
<1>3. told[k].message \in Tellings /\ told[k].sent \in 0..MaxTellSize
  <2> HIDE DEF Tellings
  <2> QED
    BY <1>2
<1> QED
  BY <1>1, <1>3 DEF ToldSent

ToldPlaces ==
    /\ ToldStart[1] = 0
    /\ \A k \in 1..(Len(told) + 1) : ToldStart[k] \in Nat
    /\ \A k \in 1..Len(told) : ToldStart[k + 1] = ToldStart[k] + told[k].sent
    /\ \A j, k \in 1..(Len(told) + 1) : j < k => ToldStart[j] <= ToldStart[k]

LEMMA ToldGrows == ToldTyped => ToldPlaces
<1> SUFFICES ASSUME ToldTyped PROVE ToldPlaces
  OBVIOUS
<1> DEFINE m == Len(told)
<1>1. MaxTold \in Nat /\ m \in 0..MaxTold
  BY TellAssumption DEF ToldTyped
<1>2. \A k \in 1..m : ToldSent[k] = told[k].sent /\ ToldSent[k] \in Nat
  BY ToldFits
<1> HIDE DEF m
<1>3. /\ ToldStart[1] = 0
      /\ \A k \in 1..(m + 1) : ToldStart[k] \in Nat
      /\ \A k \in 1..m : ToldStart[k + 1] = ToldStart[k] + ToldSent[k]
      /\ \A j, k \in 1..(m + 1) : j < k => ToldStart[j] <= ToldStart[k]
  BY <1>1, <1>2, ToldSums, SumsDoNotFall
<1> QED
  BY <1>2, <1>3 DEF m, ToldPlaces

LEMMA ToldGrowsNext == (ToldTyped => ToldPlaces)'
BY ToldGrows, PTL

(* A message that is sent does not move those before it. *)
LEMMA ToldKept ==
    ASSUME ToldTyped, Len(told) < MaxTold,
           NEW telling \in [message : Tellings, sent : 0..MaxTellSize], told' = Append(told, telling)
    PROVE  \A k \in 1..(Len(told) + 1) : ToldStart'[k] = ToldStart[k]
<1>1. MaxTold \in Nat /\ Len(told) \in 0..MaxTold
  BY TellAssumption DEF ToldTyped
<1>2. \A k \in 1..Len(told) : ToldSent'[k] = ToldSent[k]
  <2>1. \A k \in 1..Len(told) : k \in 1..MaxTold /\ told'[k] = told[k]
    BY <1>1 DEF ToldTyped
  <2> QED
    BY <2>1 DEF ToldSent
<1>3. PICK f, g, s, t : f = ToldStart' /\ g = ToldStart /\ s = ToldSent' /\ t = ToldSent
  BY Zenon
<1>4. SumsOf(f, s, MaxTold) /\ SumsOf(g, t, MaxTold)
  BY <1>3, ToldSums, ToldSumsNext
<1>5. \A k \in 1..Len(told) : s[k] = t[k]
  BY <1>2, <1>3
<1>6. PICK m : m = Len(told)
  OBVIOUS
<1>7. \A k \in 1..(m + 1) : f[k] = g[k]
  <2>1. m \in 0..MaxTold /\ MaxTold \in Nat /\ \A k \in 1..m : s[k] = t[k]
    BY <1>1, <1>5, <1>6
  <2> QED
    BY <1>4, <2>1, SumsAgree
<1> QED
  BY <1>3, <1>6, <1>7

-----------------------------------------------------------------------------
(* The invariant *)

Whole(k) == told[k].sent = told[k].message.size

(* A message that is cut is the last of its connection. *)
OnlyLastCut ==
    \A k \in DOMAIN told :
        Whole(k) \/ (k = Len(told) /\ ~socket_open /\ told[k].sent < told[k].message.size)

(* The receiver is at message k: before it, or between its header and the  *)
(* rest, and all before it were whole.                                     *)
AtMessage(k) ==
    /\ \A j \in 1..(k - 1) : Whole(j)
    /\ \/ processing = "header" /\ ToldStart[k] = read_bytes
       \/ /\ processing = "payload" /\ ToldStart[k] = read_bytes - TellHeaderSize
          /\ k \in DOMAIN told /\ told[k].message.size > TellHeaderSize

TellInv ==
    /\ TellTypeOK /\ OnlyLastCut /\ CallbacksInOrder
    /\ processing = "failed" \/ \E k \in 1..(Len(told) + 1) : AtMessage(k)

TellEnd == ToldStart[Len(told) + 1]

LEMMA TellNumbers ==
    ASSUME TellTypeOK
    PROVE  /\ ToldTyped /\ ToldPlaces /\ Len(told) \in Nat /\ TellEnd \in Nat
           /\ recv_total \in Nat /\ read_bytes \in Nat /\ read_bytes + recv_total <= TellEnd
           /\ DOMAIN told = 1..Len(told)
           /\ TellHeaderSize \in Nat /\ TellHeaderSize > 0 /\ MaxTellSize \in Nat
<1>1. ToldTyped
  BY Zenon DEF TellTypeOK, ToldTyped
<1>2. ToldPlaces
  BY <1>1, ToldGrows
<1>3. Len(told) \in Nat /\ DOMAIN told = 1..Len(told)
  BY <1>1 DEF ToldTyped
<1> QED
  BY <1>1, <1>2, <1>3, TellAssumption DEF TellEnd, TellTypeOK, ToldPlaces

(* Where the receiver is: the message there is the only one it can be at.  *)
LEMMA CurrentIs ==
    ASSUME TellTypeOK, OnlyLastCut, NEW k \in 1..(Len(told) + 1), AtMessage(k),
           ToldStart[k] < TellEnd
    PROVE  k \in DOMAIN told /\ Current = {k}
<1>1. ToldTyped /\ ToldPlaces /\ Len(told) \in Nat /\ DOMAIN told = 1..Len(told)
      /\ TellHeaderSize \in Nat /\ TellHeaderSize > 0
  BY TellNumbers
<1>2. k \in DOMAIN told
  BY <1>1 DEF TellEnd, ToldPlaces
<1>3. \A j \in 1..Len(told) : told[j].sent \in Nat /\ (told[j].sent = 0 => j = Len(told))
  <2> TAKE j \in 1..Len(told)
  <2>1. told[j].sent \in Nat /\ told[j].message \in Tellings
    BY <1>1, ToldFits
  <2>2. told[j].message.size \in Nat /\ TellHeaderSize <= told[j].message.size
    BY <2>1, TellingFits
  <2>3. told[j].sent = told[j].message.size \/ j = Len(told)
    BY <1>1 DEF OnlyLastCut, Whole
  <2>4. PICK size, sent : size = told[j].message.size /\ sent = told[j].sent
    OBVIOUS
  <2>5. sent = 0 => size # sent
    BY <1>1, <2>2, <2>4
  <2> QED
    BY <2>1, <2>3, <2>4, <2>5
<1>4. ToldStart[Len(told) + 1] = ToldStart[Len(told)] + told[Len(told)].sent /\ ToldStart[Len(told)] \in Nat
  BY <1>1, <1>2 DEF ToldPlaces
<1>5. told[k].sent > 0
  <2>1. told[k].sent \in Nat /\ (told[k].sent = 0 => k = Len(told))
    BY <1>1, <1>2, <1>3
  <2>2. told[k].sent = 0 => ToldStart[Len(told) + 1] = ToldStart[k]
    <3> SUFFICES ASSUME told[k].sent = 0 PROVE ToldStart[Len(told) + 1] = ToldStart[k]
      OBVIOUS
    <3>1. k = Len(told)
      BY <2>1
    <3>2. ToldStart[k + 1] = ToldStart[k] + 0 /\ ToldStart[k] \in Nat
      BY <1>4, <3>1
    <3> QED
      BY <3>1, <3>2
  <2>3. ToldStart[k] \in Nat
    BY <1>1 DEF ToldPlaces
  <2> QED
    BY <2>1, <2>2, <2>3 DEF TellEnd
<1>6. \A j \in 1..Len(told) : told[j].sent > 0 /\ ToldStart[j] = ToldStart[k] => j = k
  <2> TAKE j \in 1..Len(told)
  <2> HAVE told[j].sent > 0 /\ ToldStart[j] = ToldStart[k]
  <2>1. /\ ToldStart[j + 1] = ToldStart[j] + told[j].sent
        /\ ToldStart[k + 1] = ToldStart[k] + told[k].sent
        /\ ToldStart[j] \in Nat /\ ToldStart[k] \in Nat
    BY <1>1, <1>2 DEF ToldPlaces
  <2>2. told[j].sent \in Nat /\ told[k].sent \in Nat
    BY <1>1, <1>2, <1>3
  <2>3. CASE j < k
    <3>1. ToldStart[j + 1] <= ToldStart[k]
      <4>1. j + 1 \in 1..(Len(told) + 1) /\ (j + 1 < k \/ j + 1 = k)
        BY <1>1, <1>2, <2>3
      <4> QED
        BY <1>1, <2>1, <4>1 DEF ToldPlaces
    <3> QED
      BY <2>1, <2>2, <3>1
  <2>4. CASE k < j
    <3>1. ToldStart[k + 1] <= ToldStart[j]
      <4>1. k + 1 \in 1..(Len(told) + 1) /\ (k + 1 < j \/ k + 1 = j)
        BY <1>1, <1>2, <2>4
      <4> QED
        BY <1>1, <2>1, <4>1 DEF ToldPlaces
    <3> QED
      BY <1>5, <2>1, <2>2, <3>1
  <2> QED
    BY <1>1, <1>2, <2>3, <2>4
<1>7. \A j : j \in Current <=> j \in 1..Len(told) /\ told[j].sent > 0 /\ ToldStart[j] = ToldStart[k]
  <2>1. read_bytes - (IF processing = "payload" THEN TellHeaderSize ELSE 0) = ToldStart[k]
    BY TellNumbers DEF AtMessage
  <2> QED
    BY <1>1, <2>1 DEF Current
<1>8. \A j : j \in Current <=> j = k
  BY <1>1, <1>2, <1>5, <1>6, <1>7
<1> QED
  BY <1>2, <1>8

(* What has been received: the messages before the one the receiver is at. *)
ReceivedAt ==
    \A k \in 1..(Len(told) + 1) :
        /\ \A j \in 1..(k - 1) : Whole(j)
        /\ ToldStart[k] <= read_bytes
        /\ k \in DOMAIN told => read_bytes < ToldStart[k] + told[k].message.size
        => Received = 1..(k - 1)

LEMMA ReceivedIs == ToldTyped /\ OnlyLastCut /\ read_bytes \in Nat => ReceivedAt
<1> SUFFICES ASSUME ToldTyped, OnlyLastCut, read_bytes \in Nat,
                    NEW k \in 1..(Len(told) + 1), \A j \in 1..(k - 1) : Whole(j),
                    ToldStart[k] <= read_bytes,
                    k \in DOMAIN told => read_bytes < ToldStart[k] + told[k].message.size
             PROVE  Received = 1..(k - 1)
  BY DEF ReceivedAt
<1>1. ToldPlaces /\ Len(told) \in Nat /\ DOMAIN told = 1..Len(told)
  BY ToldGrows DEF ToldTyped
<1>2. ASSUME NEW j \in 1..(k - 1) PROVE j \in Received
  <2>1. j \in DOMAIN told /\ j + 1 \in 1..(Len(told) + 1) /\ (j + 1 < k \/ j + 1 = k) /\ ToldStart[k] \in Nat
    BY <1>1 DEF ToldPlaces
  <2>2. ToldStart[j + 1] \in Nat /\ ToldStart[j + 1] <= ToldStart[k]
    BY <1>1, <2>1 DEF ToldPlaces
  <2>3. ToldStart[j + 1] <= read_bytes
    BY <2>1, <2>2
  <2> QED
    BY <2>1, <2>3 DEF Received, Whole
<1>3. ASSUME NEW j \in Received PROVE j \in 1..(k - 1)
  <2>1. j \in 1..Len(told) /\ told[j].sent = told[j].message.size /\ ToldStart[j + 1] <= read_bytes
    BY <1>1 DEF Received
  <2> SUFFICES ASSUME ~(j < k) PROVE FALSE
    BY <2>1
  <2>2. k \in DOMAIN told /\ told[k].message.size \in Nat
    <3>1. k \in 1..Len(told)
      BY <1>1, <2>1
    <3> QED
      BY <1>1, <3>1, ToldFits, TellingFits
  <2>3. ToldStart[k] \in Nat /\ ToldStart[j] \in Nat /\ ToldStart[j + 1] = ToldStart[j] + told[j].sent
        /\ ToldStart[k + 1] = ToldStart[k] + told[k].sent /\ ToldStart[k + 1] \in Nat /\ told[j].sent \in Nat
    <3>1. told[j].sent \in Nat /\ k \in 1..Len(told) /\ k + 1 \in 1..(Len(told) + 1)
      BY <1>1, <2>1, <2>2, ToldFits
    <3> QED
      BY <1>1, <2>1, <3>1 DEF ToldPlaces
  <2>4. CASE j = k
    BY <2>1, <2>2, <2>3, <2>4
  <2>5. CASE k < j
    <3>1. ToldStart[k + 1] <= ToldStart[j] /\ Whole(k)
      <4> DEFINE m == Len(told)
      <4>0. m \in Nat /\ j \in 1..m /\ k \in 1..(m + 1)
        BY <1>1, <2>1
      <4>1. k + 1 \in 1..(m + 1) /\ j \in 1..(m + 1) /\ (k + 1 < j \/ k + 1 = j) /\ k # m
        <5> HIDE DEF m
        <5> QED
          BY <2>5, <4>0
      <4>2. ToldStart[k + 1] <= ToldStart[j]
        <5>1. k + 1 < j => ToldStart[k + 1] <= ToldStart[j]
          BY <1>1, <4>1 DEF ToldPlaces
        <5>2. ToldStart[k + 1] \in Nat
          BY <2>3
        <5>3. k + 1 = j => ToldStart[k + 1] = ToldStart[j]
          BY Zenon
        <5> QED
          BY <4>1, <5>1, <5>2, <5>3
      <4> QED
        BY <2>2, <4>1, <4>2 DEF OnlyLastCut
    <3> QED
      BY <2>1, <2>2, <2>3, <3>1 DEF Whole
  <2> QED
    BY <1>1, <2>1, <2>4, <2>5
<1> QED
  BY <1>2, <1>3

LEMMA ReceivedIsNext == (ToldTyped /\ OnlyLastCut /\ read_bytes \in Nat => ReceivedAt)'
BY ReceivedIs, PTL

-----------------------------------------------------------------------------
(* The steps *)

Wanted(k) == told[k].message.event \in {"key_frame", "touch"}

Called(set) ==
    /\ \A j, k \in DOMAIN called : j < k => called[j] < called[k]
    /\ \A k : k \in Range(called) <=> k \in set /\ Wanted(k)

LEMMA CallbacksAre == CallbacksInOrder <=> Called(Received) /\ result # "EBADMSG"
<1>1. {k \in Received : told[k].message.event \in {"key_frame", "touch"}} = {k \in Received : Wanted(k)}
  BY DEF Wanted
<1>2. Range(called) = {k \in Received : Wanted(k)} <=> \A k : k \in Range(called) <=> k \in Received /\ Wanted(k)
  BY Zenon
<1> QED
  BY <1>1, <1>2, Zenon DEF CallbacksInOrder, Called

LEMMA CallbacksAreNext == (CallbacksInOrder <=> Called(Received) /\ result # "EBADMSG")'
BY CallbacksAre, PTL

LEMMA SendToClientKeeps ==
    ASSUME TellInv, NEW message \in Tellings, SendToClient(message)
    PROVE  TellInv'
<1>1. TellTypeOK /\ OnlyLastCut /\ Called(Received) /\ result # "EBADMSG"
  BY CallbacksAre DEF TellInv
<1>2. /\ ToldTyped /\ ToldPlaces /\ TellEnd \in Nat /\ recv_total \in Nat /\ read_bytes \in Nat
      /\ read_bytes + recv_total <= TellEnd /\ DOMAIN told = 1..Len(told) /\ Len(told) \in Nat
      /\ TellHeaderSize \in Nat /\ TellHeaderSize > 0 /\ MaxTellSize \in Nat
  BY <1>1, TellNumbers
<1>3. /\ socket_open /\ Len(told) < MaxTold
      /\ processing' = processing /\ recv_total' = recv_total /\ read_bytes' = read_bytes
      /\ called' = called /\ result' = result /\ connections' = connections
  BY DEF SendToClient
<1>4. PICK sent \in 0..message.size :
        /\ told' = Append(told, [message |-> message, sent |-> sent])
        /\ socket_open' = (sent = message.size)
  BY Zenon DEF SendToClient, AfterPartialSend
<1> DEFINE telling == [message |-> message, sent |-> sent]
           m == Len(told)
<1>5. message.size \in Nat /\ message.size > 0 /\ sent \in Nat /\ telling \in [message : Tellings, sent : 0..MaxTellSize]
  <2>1. message.size \in Nat /\ TellHeaderSize <= message.size /\ message.size <= MaxTellSize
    BY TellingFits
  <2>2. message.size > 0 /\ sent \in 0..MaxTellSize
    BY <1>2, <1>4, <2>1
  <2> QED
    BY <2>1, <2>2
<1>6. /\ told' \in Seq([message : Tellings, sent : 0..MaxTellSize]) /\ Len(told') = m + 1
      /\ DOMAIN told' = 1..(m + 1) /\ told'[m + 1] = telling /\ \A k \in 1..m : told'[k] = told[k]
  <2>1. PICK R : R = [message : Tellings, sent : 0..MaxTellSize]
    BY Zenon
  <2>2. told \in Seq(R) /\ telling \in R
    BY <1>2, <1>5, <2>1, Zenon DEF ToldTyped
  <2> HIDE DEF telling
  <2>3. told' = Append(told, telling)
    BY <1>4 DEF telling
  <2>4. /\ told' \in Seq(R) /\ Len(told') = m + 1
        /\ DOMAIN told' = 1..(m + 1) /\ told'[m + 1] = telling /\ \A k \in 1..m : told'[k] = told[k]
    BY <2>2, <2>3
  <2> QED
    BY <2>1, <2>4, Zenon
<1>7. ToldTyped' /\ ToldPlaces'
  <2>1. ToldTyped'
    BY <1>3, <1>6, TellAssumption DEF ToldTyped
  <2> QED
    BY <2>1, ToldGrowsNext
<1>8. \A k \in 1..(m + 1) : ToldStart'[k] = ToldStart[k]
  BY <1>2, <1>3, <1>4, <1>5, ToldKept
<1>9. ToldStart'[m + 2] = TellEnd + sent
  <2>1. m + 1 \in 1..Len(told') /\ (m + 1) + 1 = m + 2 /\ told'[m + 1].sent = sent
    BY <1>2, <1>6
  <2>2. ToldStart'[(m + 1) + 1] = ToldStart'[m + 1] + told'[m + 1].sent
    BY <1>7, <2>1 DEF ToldPlaces
  <2>3. ToldStart'[m + 1] = TellEnd
    BY <1>2, <1>8 DEF TellEnd
  <2> QED
    BY <2>1, <2>2, <2>3
<1>10. TellTypeOK'
  <2>1. read_bytes' + recv_total' <= ToldStart'[Len(told') + 1]
    BY <1>2, <1>3, <1>5, <1>6, <1>9
  <2>2. socket_open' \in BOOLEAN
    BY <1>4
  <2> QED
    BY <1>1, <1>3, <1>6, <1>7, <2>1, <2>2, Zenon DEF TellTypeOK, ToldTyped
<1>11. OnlyLastCut'
  <2> SUFFICES ASSUME NEW k \in DOMAIN told'
               PROVE  \/ Whole(k)'
                      \/ k = Len(told') /\ ~socket_open' /\ told'[k].sent < told'[k].message.size
    BY DEF OnlyLastCut
  <2>1. CASE k \in 1..m
    <3>1. Whole(k)
      BY <1>1, <1>2, <1>3, <2>1 DEF OnlyLastCut
    <3> QED
      BY <1>6, <2>1, <3>1 DEF Whole
  <2>2. CASE k = m + 1
    <3>1. told'[k].sent = sent /\ told'[k].message.size = message.size /\ k = Len(told')
      BY <1>6, <2>2
    <3>2. Whole(k)' <=> sent = message.size
      BY <3>1 DEF Whole
    <3>3. sent # message.size => sent < message.size
      BY <1>4, <1>5
    <3> QED
      BY <1>4, <3>1, <3>2, <3>3, Zenon
  <2>3. k \in 1..m \/ k = m + 1
    BY <1>2, <1>6
  <2> QED
    BY <2>1, <2>2, <2>3, Zenon
<1>12. ASSUME NEW k PROVE k \in Received' <=> k \in Received
  <2>1. CASE k \in 1..m
    <3>1. k + 1 \in 1..(m + 1) /\ told'[k] = told[k] /\ k \in DOMAIN told /\ k \in DOMAIN told'
      BY <1>2, <1>6, <2>1
    <3> QED
      BY <1>3, <1>8, <3>1 DEF Received
  <2>2. CASE k = m + 1
    <3>1. k \notin Received
      BY <1>2, <2>2 DEF Received
    <3>2. k \in Received' => sent = message.size /\ TellEnd + sent <= read_bytes
      <4>1. k \in Received' => told'[k].sent = told'[k].message.size /\ ToldStart'[k + 1] <= read_bytes'
        BY DEF Received
      <4>2. k + 1 = m + 2
        BY <1>2, <2>2
      <4> QED
        BY <1>3, <1>6, <1>9, <2>2, <4>1, <4>2
    <3>3. ~(TellEnd + message.size <= read_bytes)
      BY <1>2, <1>5
    <3> QED
      BY <3>1, <3>2, <3>3
  <2>3. CASE k \notin 1..m /\ k # m + 1
    <3>1. k \notin DOMAIN told /\ k \notin DOMAIN told'
      BY <1>2, <1>6, <2>3
    <3> QED
      BY <3>1 DEF Received
  <2> QED
    BY <2>1, <2>2, <2>3
<1>13. CallbacksInOrder'
  <2>1. \A k \in Received : Wanted(k)' <=> Wanted(k)
    BY <1>2, <1>6 DEF Wanted, Received
  <2>2. Called(Received)'
    BY <1>1, <1>3, <1>12, <2>1 DEF Called
  <2> QED
    BY <1>1, <1>3, <2>2, CallbacksAreNext
<1>14. ASSUME processing # "failed" PROVE \E k \in 1..(Len(told') + 1) : AtMessage(k)'
  <2>1. PICK k \in 1..(m + 1) : AtMessage(k)
    BY <1>14 DEF TellInv
  <2>2. \A j \in 1..(k - 1) : Whole(j)'
    <3>1. \A j \in 1..(k - 1) : j \in 1..m /\ Whole(j)
      BY <1>2, <2>1 DEF AtMessage
    <3> QED
      BY <1>6, <3>1 DEF Whole
  <2>3. k \in DOMAIN told => k \in DOMAIN told' /\ told'[k] = told[k]
    BY <1>2, <1>6
  <2>4. AtMessage(k)'
    BY <1>3, <1>8, <2>1, <2>2, <2>3 DEF AtMessage
  <2> QED
    BY <1>2, <1>6, <2>1, <2>4
<1> QED
  BY <1>3, <1>10, <1>11, <1>13, <1>14 DEF TellInv

LEMMA ServiceGoesKeeps ==
    ASSUME TellInv, ServiceGoes \/ ReceivesEnd \/ UNCHANGED tellVars
    PROVE  TellInv'
<1>1. TellTypeOK /\ OnlyLastCut /\ CallbacksInOrder
  BY DEF TellInv
<1>2. /\ told' = told /\ recv_total' = recv_total /\ read_bytes' = read_bytes /\ called' = called
      /\ connections' = connections
  BY DEF ServiceGoes, ReceivesEnd, tellVars
<1>3. /\ socket_open' \in BOOLEAN /\ (socket_open' => socket_open)
      /\ processing' = processing \/ processing' = "failed"
      /\ result' = result \/ result' = "ECONNRESET"
  <2>1. socket_open \in BOOLEAN
    BY <1>1 DEF TellTypeOK
  <2>2. CASE ServiceGoes
    BY <2>1, <2>2, Zenon DEF ServiceGoes
  <2>3. CASE ReceivesEnd
    BY <2>1, <2>3, Zenon DEF ReceivesEnd
  <2>4. CASE UNCHANGED tellVars
    BY <2>1, <2>4, Zenon DEF tellVars
  <2> QED
    BY <2>2, <2>3, <2>4
<1>4. ToldStart' = ToldStart
  BY <1>2, Zenon DEF ToldStart
<1>5. Received' = Received
  BY <1>2, <1>4 DEF Received
<1>6. TellTypeOK'
  <2>1. processing' \in {"failed", "header", "payload"} /\ result' \in {"ok", "EBADMSG", "ECONNRESET"}
    BY <1>1, <1>3 DEF TellTypeOK
  <2> QED
    BY <1>1, <1>2, <1>3, <1>4, <2>1, Zenon DEF TellTypeOK
<1>7. OnlyLastCut'
  BY <1>1, <1>2, <1>3 DEF OnlyLastCut, Whole
<1>8. CallbacksInOrder'
  BY <1>1, <1>2, <1>3, <1>5 DEF CallbacksInOrder
<1>9. ASSUME processing' # "failed" PROVE \E k \in 1..(Len(told') + 1) : AtMessage(k)'
  <2>1. PICK k \in 1..(Len(told) + 1) : AtMessage(k)
    BY <1>3, <1>9 DEF TellInv
  <2>2. AtMessage(k)'
    BY <1>2, <1>3, <1>4, <1>9, <2>1 DEF AtMessage, Whole
  <2> QED
    BY <1>2, <2>2
<1> QED
  BY <1>6, <1>7, <1>8, <1>9 DEF TellInv

(* A connection begins with nothing said. *)
Fresh ==
    /\ told = <<>> /\ recv_total = 0 /\ read_bytes = 0 /\ called = <<>> /\ result = "ok"
    /\ processing \in {"failed", "header"} /\ socket_open \in BOOLEAN /\ connections \in 0..MaxConnections

LEMMA FreshIsFine == Fresh => TellInv
<1> SUFFICES ASSUME Fresh PROVE TellInv
  OBVIOUS
<1>1. ToldTyped /\ Len(told) = 0 /\ DOMAIN told = {} /\ Len(told) + 1 = 1
  <2>1. \A S : <<>> \in Seq(S)
    OBVIOUS
  <2>2. told = <<>>
    BY DEF Fresh
  <2>3. Len(told) = 0 /\ DOMAIN told = {} /\ Len(told) + 1 = 1 /\ Len(told) <= MaxTold
    BY <2>2, TellAssumption
  <2> QED
    BY <2>1, <2>2, <2>3, Zenon DEF ToldTyped
<1>2. ToldStart[1] = 0
  BY <1>1, ToldGrows DEF ToldPlaces
<1>3. TellTypeOK
  <2>1. recv_total = 0 /\ read_bytes = 0 /\ called = <<>> /\ result = "ok"
    BY DEF Fresh
  <2>2. recv_total \in Nat /\ read_bytes \in Nat /\ read_bytes + recv_total <= ToldStart[Len(told) + 1]
    BY <1>1, <1>2, <2>1
  <2>3. \A S : <<>> \in Seq(S)
    OBVIOUS
  <2>4. result \in {"ok", "EBADMSG", "ECONNRESET"} /\ processing \in {"failed", "header", "payload"}
    BY DEF Fresh
  <2> QED
    BY <1>1, <2>1, <2>2, <2>3, <2>4, Zenon DEF TellTypeOK, ToldTyped, Fresh
<1>4. OnlyLastCut /\ Received = {}
  BY <1>1 DEF OnlyLastCut, Received
<1>5. CallbacksInOrder
  <2>1. called = <<>>
    BY DEF Fresh
  <2>2. DOMAIN called = {} /\ Range(called) = {}
    BY <2>1 DEF Range
  <2>3. result # "EBADMSG"
    BY DEF Fresh
  <2> QED
    BY <1>4, <2>2, <2>3 DEF CallbacksInOrder
<1>6. ASSUME processing # "failed" PROVE AtMessage(1)
  <2>1. processing = "header" /\ read_bytes = 0
    BY <1>6 DEF Fresh
  <2>2. \A j \in 1..(1 - 1) : Whole(j)
    OBVIOUS
  <2> QED
    BY <1>2, <2>1, <2>2 DEF AtMessage
<1> QED
  BY <1>1, <1>3, <1>4, <1>5, <1>6 DEF TellInv

LEMMA FreshIsFineNext == (Fresh => TellInv)'
BY FreshIsFine, PTL

LEMMA ReconnectKeeps ==
    ASSUME TellInv, Reconnect
    PROVE  TellInv'
<1>1. connections' \in 0..MaxConnections
  BY TellAssumption DEF Reconnect, TellInv, TellTypeOK
<1> QED
  BY <1>1, FreshIsFineNext DEF Fresh, Reconnect

LEMMA CalledGrows ==
    ASSUME NEW k \in 1..MaxTold, MaxTold \in Nat, called \in Seq(1..MaxTold), Called(1..(k - 1)),
           CallbackFor(k), told' = told
    PROVE  called' \in Seq(1..MaxTold) /\ Called(1..k)'
<1>1. \A j : Wanted(j)' <=> Wanted(j)
  BY DEF Wanted
<1>2. CASE ~Wanted(k)
  <2>1. called' = called
    BY <1>2 DEF CallbackFor, Wanted
  <2>2. \A j : j \in 1..k /\ Wanted(j) <=> j \in 1..(k - 1) /\ Wanted(j)
    <3>1. \A j : j \in 1..k <=> j \in 1..(k - 1) \/ j = k
      OBVIOUS
    <3>2. k \notin 1..(k - 1)
      OBVIOUS
    <3> QED
      BY <1>2, <3>1, <3>2, Zenon
  <2> QED
    BY <1>1, <2>1, <2>2 DEF Called
<1>3. CASE Wanted(k)
  <2>1. called' = Append(called, k)
    BY <1>3 DEF CallbackFor, Wanted
  <2>2. PICK S : S = 1..MaxTold
    BY Zenon
  <2>3. PICK c, d : c = called /\ d = called'
    BY Zenon
  <2>4. c \in Seq(S) /\ k \in S /\ d = Append(c, k)
    BY <2>1, <2>2, <2>3
  <2>5. /\ d \in Seq(S) /\ Len(c) \in Nat /\ DOMAIN c = 1..Len(c) /\ DOMAIN d = 1..(Len(c) + 1)
        /\ d[Len(c) + 1] = k /\ \A j \in 1..Len(c) : d[j] = c[j]
    BY <2>4
  <2>6. \A j \in DOMAIN c : c[j] \in 1..(k - 1)
    BY <2>3 DEF Called, Range
  <2>7. ASSUME NEW p \in DOMAIN d, NEW j \in DOMAIN d, p < j PROVE d[p] < d[j]
    <3>1. p \in DOMAIN c /\ d[p] = c[p] /\ (j \in DOMAIN c \/ j = Len(c) + 1)
      BY <2>5, <2>7
    <3>2. CASE j \in DOMAIN c
      BY <2>3, <2>5, <2>7, <3>1, <3>2 DEF Called
    <3>3. CASE j = Len(c) + 1
      BY <2>5, <2>6, <3>1, <3>3
    <3> QED
      BY <3>1, <3>2, <3>3
  <2>8. ASSUME NEW x PROVE x \in Range(d) <=> x \in Range(c) \/ x = k
    <3>1. x \in Range(d) <=> \E j \in DOMAIN d : d[j] = x
      BY DEF Range
    <3>2. x \in Range(c) <=> \E j \in DOMAIN c : c[j] = x
      BY DEF Range
    <3> QED
      BY <2>5, <3>1, <3>2
  <2>9. \A x : x \in 1..k <=> x \in 1..(k - 1) \/ x = k
    OBVIOUS
  <2>10. \A x : x \in Range(c) <=> x \in 1..(k - 1) /\ Wanted(x)
    BY <2>3 DEF Called
  <2>11. \A x : x \in Range(d) <=> x \in 1..k /\ Wanted(x)
    BY <1>3, <2>8, <2>9, <2>10, Zenon
  <2> QED
    BY <1>1, <2>2, <2>3, <2>5, <2>7, <2>11 DEF Called
<1> QED
  BY <1>2, <1>3

LEMMA ReceivesBytesKeeps ==
    ASSUME TellInv, NEW n \in 1..MaxTellSize, ReceivesBytes(n)
    PROVE  TellInv'
<1>1. TellTypeOK /\ OnlyLastCut /\ Called(Received) /\ result # "EBADMSG"
  BY CallbacksAre DEF TellInv
<1>2. /\ ToldTyped /\ ToldPlaces /\ TellEnd \in Nat /\ recv_total \in Nat /\ read_bytes \in Nat
      /\ read_bytes + recv_total <= TellEnd /\ DOMAIN told = 1..Len(told) /\ Len(told) \in Nat
      /\ TellHeaderSize \in Nat /\ TellHeaderSize > 0 /\ MaxTellSize \in Nat
  BY <1>1, TellNumbers
<1>3. /\ processing \in {"header", "payload"} /\ n <= Waiting /\ recv_total + n <= PartSize
      /\ told' = told /\ socket_open' = socket_open /\ connections' = connections
  BY DEF ReceivesBytes
<1>4. ToldStart' = ToldStart /\ TellEnd' = TellEnd
  BY <1>3, Zenon DEF ToldStart, TellEnd
<1>5. PICK k \in 1..(Len(told) + 1) : AtMessage(k)
  BY <1>3 DEF TellInv
<1>6. n \in Nat /\ n > 0 /\ read_bytes + recv_total + n <= TellEnd
  <2>1. n <= TellEnd - read_bytes - recv_total
    BY <1>3 DEF Waiting, TellEnd
  <2> QED
    BY <1>2, <2>1
<1>7. ToldStart[k] \in Nat /\ ToldStart[k] <= read_bytes
  BY <1>2, <1>5 DEF AtMessage, ToldPlaces
<1>8. k \in 1..Len(told) /\ Current = {k}
  <2>1. ToldStart[k] < TellEnd
    BY <1>2, <1>6, <1>7
  <2> QED
    BY <1>1, <1>2, <1>5, <2>1, CurrentIs
<1> DEFINE size == told[k].message.size
<1>9. size \in Nat /\ TellHeaderSize <= size /\ size <= MaxTellSize
  BY <1>2, <1>8, ToldFits, TellingFits
<1>10. PartSize = IF processing = "header" THEN TellHeaderSize ELSE size - TellHeaderSize
  BY <1>8 DEF PartSize
<1>11. /\ processing = "payload" => ToldStart[k] = read_bytes - TellHeaderSize /\ size > TellHeaderSize
       /\ processing = "header" => ToldStart[k] = read_bytes
       /\ \A j \in 1..(k - 1) : Whole(j)
  BY <1>5 DEF AtMessage
<1> HIDE DEF size
<1>12. PartSize \in Nat
  BY <1>2, <1>3, <1>9, <1>10, <1>11
<1>13. Received = 1..(k - 1)
  <2>1. read_bytes < ToldStart[k] + size
    BY <1>2, <1>3, <1>7, <1>9, <1>11
  <2> QED
    BY <1>1, <1>2, <1>7, <1>11, <2>1, ReceivedIs DEF ReceivedAt, size
<1>14. OnlyLastCut' /\ ToldTyped' /\ (\A j : Whole(j)' <=> Whole(j))
  BY <1>1, <1>2, <1>3 DEF OnlyLastCut, ToldTyped, Whole
<1>15. CASE recv_total + n < PartSize
  <2>1. recv_total' = recv_total + n /\ UNCHANGED <<read_bytes, processing, called, result>>
    BY <1>15 DEF ReceivesBytes
  <2>2. TellTypeOK'
    <3>1. recv_total' \in Nat /\ read_bytes' + recv_total' <= ToldStart'[Len(told') + 1]
      BY <1>2, <1>3, <1>4, <1>6, <2>1 DEF TellEnd
    <3> QED
      BY <1>1, <1>3, <2>1, <3>1, Zenon DEF TellTypeOK
  <2>3. Received' = Received
    BY <1>3, <1>4, <2>1 DEF Received
  <2>4. CallbacksInOrder'
    BY <1>1, <1>3, <2>1, <2>3, CallbacksAreNext DEF Called, Wanted
  <2>5. AtMessage(k)'
    BY <1>3, <1>4, <1>5, <2>1 DEF AtMessage, Whole
  <2> QED
    BY <1>3, <1>14, <2>2, <2>4, <2>5 DEF TellInv
<1>16. CASE ~(recv_total + n < PartSize)
  <2>1. recv_total' = 0 /\ read_bytes' = read_bytes + PartSize /\ PartComplete
    BY <1>16 DEF ReceivesBytes
  <2>2. recv_total + n = PartSize
    BY <1>2, <1>3, <1>6, <1>12, <1>16
  <2>3. read_bytes' \in Nat /\ read_bytes' + recv_total' <= ToldStart'[Len(told') + 1]
    BY <1>2, <1>3, <1>4, <1>6, <1>12, <2>1, <2>2 DEF TellEnd
  <2>4. ReceivedAt'
    BY <1>14, <2>3, ReceivedIsNext
  <2>5. \/ /\ processing = "header" /\ size > TellHeaderSize
           /\ processing' = "payload" /\ UNCHANGED <<called, result>>
        \/ /\ processing = "header" /\ size = TellHeaderSize
           /\ CallbackFor(k) /\ UNCHANGED <<processing, result>>
        \/ processing = "payload" /\ CallbackFor(k) /\ processing' = "header" /\ UNCHANGED result
    <3>1. \A j : j \in Current <=> j = k
      BY <1>8
    <3>2. Current # {} /\ ~(told[k].message.size > MaxTellSize)
      BY <1>2, <1>8, <1>9 DEF size
    <3>3. \/ /\ processing = "header" /\ told[k].message.size > TellHeaderSize
             /\ processing' = "payload" /\ UNCHANGED <<called, result>>
          \/ /\ processing = "header" /\ told[k].message.size = TellHeaderSize
             /\ CallbackFor(k) /\ UNCHANGED <<processing, result>>
          \/ processing = "payload" /\ CallbackFor(k) /\ processing' = "header" /\ UNCHANGED result
      BY <2>1, <3>1, <3>2, Zenon DEF PartComplete
    <3> QED
      BY <3>3 DEF size
  <2>6. result' = result /\ processing' \in {"header", "payload"}
    BY <1>3, <2>5
  <2>7. called \in Seq(1..MaxTold) /\ k \in 1..MaxTold /\ MaxTold \in Nat
    BY <1>1, <1>2, <1>8, TellAssumption DEF TellTypeOK, ToldTyped
  <2>8. ASSUME called' \in Seq(1..MaxTold), Called(Received)', \E j \in 1..(Len(told) + 1) : AtMessage(j)'
        PROVE  TellInv'
    <3>1. TellTypeOK'
      <4>1. recv_total' \in Nat /\ processing' \in {"failed", "header", "payload"}
        BY <2>1, <2>6
      <4> QED
        BY <1>1, <1>3, <2>3, <2>6, <2>8, <4>1, Zenon DEF TellTypeOK
    <3>2. CallbacksInOrder'
      BY <1>1, <2>6, <2>8, CallbacksAreNext
    <3> QED
      BY <1>3, <1>14, <2>8, <3>1, <3>2 DEF TellInv
  <2>9. CASE processing = "header" /\ size > TellHeaderSize
    <3>1. processing' = "payload" /\ called' = called
      <4>1. size # TellHeaderSize /\ processing # "payload"
        BY <1>2, <1>9, <2>9
      <4> QED
        BY <2>5, <4>1, Zenon
    <3>2. read_bytes' = ToldStart[k] + TellHeaderSize
      BY <1>10, <1>11, <2>1, <2>9
    <3>3. Received' = 1..(k - 1)
      <4>1. ToldStart'[k] <= read_bytes' /\ read_bytes' < ToldStart'[k] + told'[k].message.size
        BY <1>2, <1>3, <1>4, <1>7, <1>9, <2>9, <3>2 DEF size
      <4>2. \A j \in 1..(k - 1) : Whole(j)'
        BY <1>11, <1>14
      <4> QED
        BY <1>3, <2>4, <4>1, <4>2 DEF ReceivedAt
    <3>4. Called(Received)'
      BY <1>1, <1>3, <1>13, <3>1, <3>3 DEF Called, Wanted
    <3>5. AtMessage(k)'
      <4>1. ToldStart'[k] = read_bytes' - TellHeaderSize
        BY <1>2, <1>4, <1>7, <3>2
      <4> QED
        BY <1>2, <1>3, <1>8, <1>11, <1>14, <2>9, <3>1, <4>1 DEF AtMessage, size
    <3> QED
      BY <2>7, <2>8, <3>1, <3>4, <3>5
  <2>10. CASE processing = "payload" \/ size = TellHeaderSize
    <3>1. CallbackFor(k) /\ processing' = "header"
      BY <1>2, <1>3, <1>9, <2>5, <2>10
    <3>2. read_bytes' = ToldStart[k] + size
      BY <1>2, <1>3, <1>7, <1>9, <1>10, <1>11, <2>1, <2>10
    <3>3. Whole(k)
      <4> SUFFICES ASSUME k = Len(told), told[k].sent < size PROVE FALSE
        BY <1>1, <1>2, <1>8 DEF OnlyLastCut, size
      <4>1. told[k].sent \in Nat /\ TellEnd = ToldStart[k] + told[k].sent
        <5>1. ToldStart[k + 1] = ToldStart[k] + told[k].sent
          BY <1>2, <1>8 DEF ToldPlaces
        <5> QED
          BY <1>2, <1>8, <5>1, ToldFits DEF TellEnd
      <4>2. read_bytes' <= TellEnd
        BY <1>3, <1>4, <2>1, <2>3 DEF TellEnd
      <4> QED
        BY <1>7, <1>9, <3>2, <4>1, <4>2
    <3>4. ToldStart[k + 1] = read_bytes' /\ k + 1 \in 1..(Len(told) + 1)
      BY <1>2, <1>8, <3>2, <3>3 DEF ToldPlaces, Whole, size
    <3>5. \A j \in 1..((k + 1) - 1) : Whole(j)'
      <4>1. \A j \in 1..((k + 1) - 1) : j \in 1..(k - 1) \/ j = k
        BY <1>2, <1>8
      <4> QED
        BY <1>11, <1>14, <3>3, <4>1
    <3>6. AtMessage(k + 1)'
      BY <1>4, <3>1, <3>4, <3>5 DEF AtMessage
    <3>7. Received' = 1..((k + 1) - 1)
      <4>1. k + 1 \in DOMAIN told' => read_bytes' < ToldStart'[k + 1] + told'[k + 1].message.size
        <5> SUFFICES ASSUME k + 1 \in 1..Len(told) PROVE read_bytes' < read_bytes' + told[k + 1].message.size
          BY <1>2, <1>3, <1>4, <3>4
        <5>1. told[k + 1].message.size \in Nat /\ TellHeaderSize <= told[k + 1].message.size
          BY <1>2, ToldFits, TellingFits
        <5> QED
          BY <1>2, <2>3, <5>1
      <4>2. ToldStart'[k + 1] <= read_bytes'
        BY <1>4, <2>3, <3>4
      <4>3. k + 1 \in 1..(Len(told') + 1)
        BY <1>3, <3>4
      <4> QED
        BY <2>4, <3>5, <4>1, <4>2, <4>3 DEF ReceivedAt
    <3>8. called' \in Seq(1..MaxTold) /\ Called(1..k)'
      <4>1. Called(1..(k - 1))
        BY <1>1, <1>13
      <4> QED
        BY <1>3, <2>7, <3>1, <4>1, CalledGrows
    <3>9. Called(Received)'
      <4>1. Received' = 1..k
        BY <1>2, <1>8, <3>7
      <4> QED
        BY <3>8, <4>1 DEF Called
    <3> QED
      BY <2>8, <3>4, <3>6, <3>8, <3>9
  <2> QED
    BY <1>2, <1>3, <1>9, <2>9, <2>10
<1> QED
  BY <1>15, <1>16

LEMMA TellStep == TellInv /\ [TellNext]_tellVars => TellInv'
BY SendToClientKeeps, ServiceGoesKeeps, ReconnectKeeps, ReceivesBytesKeeps DEF TellNext

LEMMA TellInitially == TellInit => TellInv
<1> SUFFICES ASSUME TellInit PROVE TellInv
  OBVIOUS
<1>1. Fresh
  <2>1. connections \in 0..MaxConnections
    BY TellAssumption DEF TellInit
  <2>2. processing \in {"failed", "header"} /\ socket_open \in BOOLEAN
    BY DEF TellInit
  <2> QED
    BY <2>1, <2>2, Zenon DEF TellInit, Fresh
<1> QED
  BY <1>1, FreshIsFine

(* What a client has taken from its socket was put there.                  *)
THEOREM TellTypeCorrect == TellSpec => []TellTypeOK
<1>1. TellInv => TellTypeOK
  BY DEF TellInv
<1> QED
  BY <1>1, TellInitially, TellStep, PTL DEF TellSpec

(* However messages are cut on the way, a program is called back for each   *)
(* key frame request and usable touch it received whole, once and in order, *)
(* and never finds what it can not read.                                    *)
THEOREM CallbacksMade == TellSpec => []CallbacksInOrder
<1>1. TellInv => CallbacksInOrder
  BY DEF TellInv
<1> QED
  BY <1>1, TellInitially, TellStep, PTL DEF TellSpec
=============================================================================
