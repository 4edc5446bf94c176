----------------------------- MODULE StreamsProofs -----------------------------
(***************************************************************************)
(* What holds of the streams for every value of their constants:           *)
(*   1. the USB readers come to every message once and in order and have   *)
(*      of it what its kind is due, whatever the driver cuts and pads;     *)
(*   2. the USB writers give the head unit whole messages, whoever writes; *)
(*   3. the head unit's messages: what is encoded is decoded again, and    *)
(*      nothing is read of one that is cut or beyond the length it says;   *)
(*   4. all streams of the program at once, with those of SocketProofs.    *)
(***************************************************************************)
EXTENDS MCStreams, SocketProofs, SequenceTheorems

-----------------------------------------------------------------------------
(* 1. Reading.  What the driver holds are the messages after those that    *)
(* were answered, the first perhaps begun up to a whole number of packets, *)
(* and before them perhaps the rest of a tail that nobody reads, one       *)
(* packet less for each stray read.  The bounce buffer holds padding of    *)
(* the message answered last.                                              *)

-----------------------------------------------------------------------------
(* Whole packets *)

WholeChunks(n) == n \in Nat /\ n % ChunkSize = 0

LEMMA WholeChunksAre ==
    ASSUME NEW n \in Nat
    PROVE  WholeChunks(n) <=> \E q \in Nat : n = q * ChunkSize
<1>1. ChunkSize \in Nat \ {0}
  BY ChunkAssumption
<1>2. ASSUME WholeChunks(n) PROVE \E q \in Nat : n = q * ChunkSize
  <2>1. n \div ChunkSize \in Nat /\ n = ((n \div ChunkSize) * ChunkSize) + (n % ChunkSize)
    BY <1>1
  <2>2. n % ChunkSize = 0
    BY <1>2 DEF WholeChunks
  <2>3. n = (n \div ChunkSize) * ChunkSize
    BY <1>1, <2>1, <2>2
  <2> QED
    BY <2>1, <2>3
<1>3. ASSUME NEW q \in Nat, n = q * ChunkSize PROVE WholeChunks(n)
  <2>1. \A c \in Nat \ {0} : (q * c) % c = 0
    OBVIOUS
  <2> QED
    BY <1>1, <1>3, <2>1 DEF WholeChunks
<1> QED
  BY <1>2, <1>3

LEMMA NoneAndOne == WholeChunks(0) /\ WholeChunks(ChunkSize)
<1>1. ChunkSize \in Nat /\ 0 = 0 * ChunkSize /\ ChunkSize = 1 * ChunkSize
  BY ChunkAssumption
<1> QED
  BY <1>1, WholeChunksAre

LEMMA WholeChunksAdd ==
    ASSUME NEW m, NEW n, WholeChunks(m), WholeChunks(n)
    PROVE  WholeChunks(m + n) /\ (m >= n => WholeChunks(m - n))
<1>1. m \in Nat /\ n \in Nat /\ ChunkSize \in Nat \ {0}
  BY ChunkAssumption DEF WholeChunks
<1>2. PICK p, q \in Nat : m = p * ChunkSize /\ n = q * ChunkSize
  BY <1>1, WholeChunksAre
<1>3. (p + q) * ChunkSize = p * ChunkSize + q * ChunkSize /\ (p - q) * ChunkSize = p * ChunkSize - q * ChunkSize
  BY <1>1
<1>4. WholeChunks(m + n)
  BY <1>1, <1>2, <1>3, WholeChunksAre
<1>5. ASSUME m >= n PROVE WholeChunks(m - n)
  <2>1. m - n \in Nat /\ m - n = (p - q) * ChunkSize
    BY <1>1, <1>2, <1>3, <1>5
  <2>2. p - q \in Nat
    <3> SUFFICES ASSUME p < q PROVE FALSE
      OBVIOUS
    <3>1. q - p \in Nat /\ q - p > 0
      OBVIOUS
    <3>2. \A d, c \in Nat : d > 0 => d * c >= c
      OBVIOUS
    <3>3. (q - p) * ChunkSize >= ChunkSize
      BY <1>1, <3>1, <3>2
    <3>4. (q - p) * ChunkSize = n - m
      BY <1>1, <1>2
    <3> QED
      BY <1>1, <1>5, <3>3, <3>4
  <2> QED
    BY <2>1, <2>2, WholeChunksAre
<1> QED
  BY <1>4, <1>5

(* Between two numbers of whole packets there is at least one packet. *)
LEMMA PacketApart ==
    ASSUME NEW m, NEW n, WholeChunks(m), WholeChunks(n), m > n
    PROVE  m >= n + ChunkSize
<1>1. m \in Nat /\ n \in Nat /\ ChunkSize \in Nat \ {0} /\ m - n \in Nat /\ m - n > 0
  BY ChunkAssumption DEF WholeChunks
<1>2. PICK d \in Nat : m - n = d * ChunkSize
  BY <1>1, WholeChunksAdd, WholeChunksAre
<1>3. d # 0
  BY <1>1, <1>2
<1>4. \A c \in Nat : d * c >= c
  BY <1>3
<1> QED
  BY <1>1, <1>2, <1>4

LEMMA RoundedUp ==
    ASSUME NEW n \in Nat
    PROVE  /\ WholeChunks(RoundUp(n)) /\ n <= RoundUp(n) /\ RoundUp(n) < n + ChunkSize
           /\ \A m : WholeChunks(m) /\ m >= n => m >= RoundUp(n)
           /\ WholeChunks(n) => RoundUp(n) = n
<1>1. ChunkSize \in Nat \ {0}
  BY ChunkAssumption
<1> DEFINE m == n + ChunkSize - 1
           q == m \div ChunkSize
           r == m % ChunkSize
<1>2. m \in Nat /\ m = (n + ChunkSize) - 1
  BY <1>1
<1>3. RoundUp(n) = q * ChunkSize
  BY DEF RoundUp, Packets
<1> HIDE DEF m
<1>4. q \in Nat /\ r \in 0..(ChunkSize - 1) /\ m = (q * ChunkSize) + r
  BY <1>1, <1>2
<1> HIDE DEF q, r
<1>5. q * ChunkSize \in Nat
  BY <1>1, <1>4
<1>6. WholeChunks(RoundUp(n)) /\ n <= RoundUp(n) /\ RoundUp(n) < n + ChunkSize /\ RoundUp(n) \in Nat
  BY <1>1, <1>2, <1>3, <1>4, <1>5, WholeChunksAre
<1>7. ASSUME NEW k, WholeChunks(k), k >= n PROVE k >= RoundUp(n)
  <2>1. k \in Nat
    BY <1>7 DEF WholeChunks
  <2>2. RoundUp(n) > k => RoundUp(n) >= k + ChunkSize
    BY <1>6, <1>7, PacketApart
  <2> QED
    BY <1>1, <1>6, <1>7, <2>1, <2>2
<1> QED
  BY <1>6, <1>7

-----------------------------------------------------------------------------
(* Pieces *)

Pieces == [msg : Nat, at : Nat, left : Nat, pad : Nat]

LEMMA MinTwo ==
    ASSUME NEW a \in Nat, NEW b \in Nat
    PROVE  Min({a, b}) = IF a <= b THEN a ELSE b
<1> DEFINE least == IF a <= b THEN a ELSE b
<1>1. least \in {a, b} /\ \A n \in {a, b} : least <= n
  OBVIOUS
<1>2. \A n \in {a, b} : (\A k \in {a, b} : n <= k) => n = least
  OBVIOUS
<1> HIDE DEF least
<1>3. Min({a, b}) = least
  BY <1>1, <1>2 DEF Min
<1> QED
  BY <1>3 DEF least

LEMMA MinThree ==
    ASSUME NEW a \in Nat, NEW b \in Nat, NEW c \in Nat
    PROVE  Min({a, b, c}) \in Nat /\ Min({a, b, c}) <= a /\ Min({a, b, c}) <= b /\ Min({a, b, c}) <= c
<1>1. \E m \in {a, b, c} : \A n \in {a, b, c} : m <= n
  <2>1. CASE a <= b /\ a <= c
    BY <2>1
  <2>2. CASE b <= a /\ b <= c
    BY <2>2
  <2>3. CASE c <= a /\ c <= b
    BY <2>3
  <2> QED
    BY <2>1, <2>2, <2>3
<1>2. Min({a, b, c}) \in {a, b, c} /\ \A n \in {a, b, c} : Min({a, b, c}) <= n
  BY <1>1, Zenon DEF Min
<1> QED
  BY <1>2

LEMMA FirstBytesAre ==
    ASSUME NEW p \in Pieces, NEW n \in Nat, n <= Amount(p)
    PROVE  /\ FirstBytes(p, n) \in Pieces
           /\ FirstBytes(p, n).msg = p.msg /\ FirstBytes(p, n).at = p.at
           /\ FirstBytes(p, n).left = (IF n <= p.left THEN n ELSE p.left)
           /\ Amount(FirstBytes(p, n)) = n
<1>1. Min({n, p.left}) = IF n <= p.left THEN n ELSE p.left
  BY MinTwo DEF Pieces
<1>2. p.left \in Nat /\ p.pad \in Nat /\ n <= p.left + p.pad
  BY DEF Pieces, Amount
<1>3. PICK l : l = Min({n, p.left})
  OBVIOUS
<1>4. l \in Nat /\ n - l \in Nat /\ l = (IF n <= p.left THEN n ELSE p.left)
  BY <1>1, <1>2, <1>3
<1>5. FirstBytes(p, n) = [p EXCEPT !.left = l, !.pad = n - l]
  BY <1>3 DEF FirstBytes
<1>6. PICK f : f = FirstBytes(p, n)
  OBVIOUS
<1>7. f \in Pieces /\ f.msg = p.msg /\ f.at = p.at /\ f.left = l /\ f.pad = n - l
  BY <1>4, <1>5, <1>6 DEF Pieces
<1>8. f.left + f.pad = n
  BY <1>4, <1>7
<1> QED
  BY <1>4, <1>6, <1>7, <1>8 DEF Amount

LEMMA RestAfterIs ==
    ASSUME NEW p \in Pieces, NEW n \in Nat, n <= Amount(p)
    PROVE  /\ RestAfter(p, n) \in Pieces
           /\ Amount(RestAfter(p, n)) = Amount(p) - n
           /\ n = Amount(p) => RestAfter(p, n) = Nothing
           /\ n # Amount(p) => /\ RestAfter(p, n).msg = p.msg
                               /\ n <= p.left => /\ RestAfter(p, n).at = p.at + n
                                                 /\ RestAfter(p, n).left = p.left - n
                                                 /\ RestAfter(p, n).pad = p.pad
           /\ n >= p.left => RestAfter(p, n).left = 0
<1>1. Min({n, p.left}) = IF n <= p.left THEN n ELSE p.left
  BY MinTwo DEF Pieces
<1>2. p.left \in Nat /\ p.pad \in Nat /\ n <= p.left + p.pad /\ p.at \in Nat /\ p.msg \in Nat
  BY DEF Pieces, Amount
<1>3. CASE n = Amount(p)
  <2>1. RestAfter(p, n) = Nothing
    BY <1>3 DEF RestAfter
  <2>2. Nothing \in Pieces /\ Amount(Nothing) = 0 /\ Nothing.left = 0
    BY DEF Nothing, Pieces, Amount
  <2> QED
    BY <1>2, <1>3, <2>1, <2>2 DEF Amount
<1>4. CASE n # Amount(p)
  <2>1. PICK l : l = Min({n, p.left})
    OBVIOUS
  <2>2. /\ l \in Nat /\ p.left - l \in Nat /\ p.pad - (n - l) \in Nat /\ p.at + l \in Nat
        /\ l = (IF n <= p.left THEN n ELSE p.left)
    BY <1>1, <1>2, <2>1
  <2>3. RestAfter(p, n) = [p EXCEPT !.at = p.at + l, !.left = p.left - l, !.pad = p.pad - (n - l)]
    BY <1>4, <2>1 DEF RestAfter
  <2>4. PICK f : f = RestAfter(p, n)
    OBVIOUS
  <2>5. f \in Pieces /\ f.msg = p.msg /\ f.at = p.at + l /\ f.left = p.left - l /\ f.pad = p.pad - (n - l)
    BY <2>2, <2>3, <2>4 DEF Pieces
  <2>6. f.left + f.pad = (p.left + p.pad) - n
    BY <1>2, <2>2, <2>5
  <2>7. n <= p.left => f.at = p.at + n /\ f.left = p.left - n /\ f.pad = p.pad
    BY <1>2, <2>2, <2>5
  <2>8. n >= p.left => f.left = 0
    BY <1>2, <2>2, <2>5
  <2> QED
    BY <1>4, <2>4, <2>5, <2>6, <2>7, <2>8 DEF Amount
<1> QED
  BY <1>3, <1>4

(* A read of padding gives what of it is left. *)
LEMMA ReadsOfBounce ==
    ASSUME bounce \in Pieces, bounce.left = 0, 0 < bounce.pad, bounce.pad < ChunkSize,
           NEW read \in Reads(ChunkSize)
    PROVE  read.piece.left = 0 /\ read.bounce = Nothing /\ read.transfers = transfers
<1>1. ChunkSize \in Nat /\ Amount(bounce) \in Nat /\ 0 < Amount(bounce) /\ Amount(bounce) <= ChunkSize
  BY ChunkAssumption DEF Amount, Pieces
<1>2. Min({Amount(bounce), ChunkSize}) = Amount(bounce)
  BY <1>1, MinTwo
<1>3. read = [piece |-> FirstBytes(bounce, Amount(bounce)), bounce |-> RestAfter(bounce, Amount(bounce)),
              transfers |-> transfers]
  BY <1>1, <1>2 DEF Reads
<1>4. RestAfter(bounce, Amount(bounce)) = Nothing
  BY <1>1, RestAfterIs
<1>5. FirstBytes(bounce, Amount(bounce)).left = 0
  BY <1>1, FirstBytesAre DEF Pieces
<1> QED
  BY <1>3, <1>4, <1>5

(* A read of a transfer: n bytes of it, of which the caller gets c.  *)
ReadOf(read, head, len, n, c) ==
    /\ n \in Nat /\ 1 <= n /\ n <= RoundUp(len) /\ n <= Amount(head)
    /\ WholeChunks(n) \/ n = Amount(head)
    /\ c = (IF n <= len THEN n ELSE len)
    /\ read.piece = FirstBytes(head, c)
    /\ read.bounce = RestAfter(FirstBytes(head, n), c)
    /\ n = Amount(head) => read.transfers = Tail(transfers)
    /\ n # Amount(head) => read.transfers = <<RestAfter(head, n)>> \o Tail(transfers)

LEMMA ReadsOfTransfer ==
    ASSUME transfers \in Seq(Pieces), bounce \in Pieces, Amount(bounce) = 0, NEW len \in Nat \ {0},
           NEW read \in Reads(len)
    PROVE  transfers # <<>> /\ \E n, c : ReadOf(read, Head(transfers), len, n, c)
<1> DEFINE head == Head(transfers)
           most == Min({RoundUp(len), MaxReadChunk, Amount(head)})
           readed == {n \in 1..most : n % ChunkSize = 0 \/ n = Amount(head)}
<1>1. transfers # <<>>
  BY DEF Reads
<1>2. head \in Pieces /\ Tail(transfers) \in Seq(Pieces)
  BY <1>1
<1> HIDE DEF head
<1>3. RoundUp(len) \in Nat /\ MaxReadChunk \in Nat /\ Amount(head) \in Nat
  <2>1. Amount(head) \in Nat
    BY <1>2 DEF Pieces, Amount
  <2>2. RoundUp(len) \in Nat
    BY RoundedUp DEF WholeChunks
  <2> QED
    BY <2>1, <2>2, ChunkAssumption
<1>4. most \in Nat /\ most <= RoundUp(len) /\ most <= Amount(head)
  BY <1>3, MinThree
<1>5. PICK n \in readed :
        read = [piece |-> FirstBytes(head, Min({n, len})),
                bounce |-> RestAfter(FirstBytes(head, n), Min({n, len})),
                transfers |-> (IF n = Amount(head) THEN <<>> ELSE <<RestAfter(head, n)>>) \o Tail(transfers)]
  <2>1. ~(Amount(bounce) > 0)
    OBVIOUS
  <2> QED
    BY <1>1, <2>1, Zenon DEF Reads, head
<1>6. n \in Nat /\ 1 <= n /\ n <= most /\ (n % ChunkSize = 0 \/ n = Amount(head))
  BY <1>4
<1>7. Min({n, len}) = IF n <= len THEN n ELSE len
  BY <1>6, MinTwo
<1>8. <<>> \o Tail(transfers) = Tail(transfers)
  BY <1>2
<1>9. ReadOf(read, head, len, n, Min({n, len}))
  <2>1. n <= RoundUp(len) /\ n <= Amount(head)
    BY <1>3, <1>4, <1>6
  <2>2. n = Amount(head) => read.transfers = Tail(transfers)
    BY <1>5, <1>8
  <2>3. n # Amount(head) => read.transfers = <<RestAfter(head, n)>> \o Tail(transfers)
    BY <1>5
  <2>4. read.piece = FirstBytes(head, Min({n, len})) /\ read.bounce = RestAfter(FirstBytes(head, n), Min({n, len}))
    BY <1>5
  <2> QED
    BY <1>6, <1>7, <2>1, <2>2, <2>3, <2>4, Zenon DEF ReadOf, WholeChunks
<1> QED
  BY <1>1, <1>9 DEF head

-----------------------------------------------------------------------------
(* What the driver holds: the messages after the a-th, the first perhaps   *)
(* begun.                                                                  *)

PieceOf(p, k, s) ==
    /\ p.msg = k /\ p.left > 0 /\ p.at + p.left = s[k].size
    /\ p.pad = 0 \/ p.pad = RoundUp(s[k].size) - s[k].size

QueueIs(t, a, s, r) ==
    /\ t \in Seq(Pieces) /\ a \in Nat /\ s \in Seq(Messages) /\ Len(s) = a + Len(t)
    /\ \A j \in 1..Len(t) : PieceOf(t[j], a + j, s) /\ (j > 1 \/ r = 0 => t[j].at = 0)

LEMMA MessageSizesAre ==
    ASSUME NEW m \in Messages
    PROVE  m.size \in Nat \ {0} /\ m.kind \in {"app", "speech", "other", "message", "misfit"}
BY ChunkAssumption DEF Messages, Kinds

LEMMA HeadIs ==
    ASSUME NEW t, NEW a, NEW s, NEW r, QueueIs(t, a, s, r), t # <<>>
    PROVE  /\ Head(t) \in Pieces /\ Tail(t) \in Seq(Pieces) /\ PieceOf(Head(t), a + 1, s)
           /\ r = 0 => Head(t).at = 0
           /\ s[a + 1] \in Messages /\ s[a + 1].size \in Nat \ {0} /\ a + 1 \in 1..Len(s)
<1>1. t \in Seq(Pieces) /\ a \in Nat /\ s \in Seq(Messages) /\ Len(s) = a + Len(t) /\ Len(t) \in Nat
  BY DEF QueueIs
<1>2. Head(t) \in Pieces /\ Tail(t) \in Seq(Pieces) /\ Head(t) = t[1] /\ 1 \in 1..Len(t)
  BY <1>1
<1>3. PieceOf(t[1], a + 1, s) /\ (r = 0 => t[1].at = 0)
  BY <1>2 DEF QueueIs
<1>4. a + 1 \in 1..Len(s) /\ s[a + 1] \in Messages
  BY <1>1, <1>2
<1>5. s[a + 1].size \in Nat \ {0}
  BY <1>4, MessageSizesAre
<1> QED
  BY <1>2, <1>3, <1>4, <1>5

LEMMA HeadTaken ==
    ASSUME NEW t, NEW a, NEW s, NEW r, QueueIs(t, a, s, r), t # <<>>
    PROVE  QueueIs(Tail(t), a + 1, s, 0)
<1>1. t \in Seq(Pieces) /\ a \in Nat /\ s \in Seq(Messages) /\ Len(s) = a + Len(t) /\ Len(t) \in Nat
  BY DEF QueueIs
<1>2. PICK u : u = Tail(t)
  OBVIOUS
<1>3. u \in Seq(Pieces) /\ Len(u) = Len(t) - 1 /\ \A j \in 1..Len(u) : u[j] = t[j + 1] /\ j + 1 \in 1..Len(t)
  BY <1>1, <1>2
<1>4. ASSUME NEW j \in 1..Len(u) PROVE PieceOf(u[j], (a + 1) + j, s) /\ u[j].at = 0
  <2>1. PieceOf(t[j + 1], a + (j + 1), s) /\ j + 1 > 1 /\ (a + 1) + j = a + (j + 1) /\ u[j] = t[j + 1]
    BY <1>1, <1>3 DEF QueueIs
  <2> QED
    BY <1>3, <2>1 DEF QueueIs
<1>5. a + 1 \in Nat /\ Len(s) = (a + 1) + Len(u)
  BY <1>1, <1>3
<1> QED
  BY <1>1, <1>2, <1>3, <1>4, <1>5 DEF QueueIs

LEMMA HeadCut ==
    ASSUME NEW t, NEW a, NEW s, NEW r, QueueIs(t, a, s, r), t # <<>>,
           NEW p \in Pieces, PieceOf(p, a + 1, s), NEW q, q # 0
    PROVE  QueueIs(<<p>> \o Tail(t), a, s, q) /\ <<p>> \o Tail(t) # <<>> /\ Head(<<p>> \o Tail(t)) = p
<1>1. t \in Seq(Pieces) /\ a \in Nat /\ s \in Seq(Messages) /\ Len(s) = a + Len(t) /\ Len(t) \in Nat
  BY DEF QueueIs
<1>2. PICK u : u = Tail(t)
  OBVIOUS
<1>3. u \in Seq(Pieces) /\ Len(u) = Len(t) - 1 /\ \A j \in 1..Len(u) : u[j] = t[j + 1]
  BY <1>1, <1>2
<1>4. PICK v : v = <<p>> \o u
  OBVIOUS
<1>5. /\ v \in Seq(Pieces) /\ Len(v) = Len(t) /\ v[1] = p /\ v # <<>> /\ Head(v) = p
      /\ \A j \in 2..Len(v) : v[j] = u[j - 1] /\ j - 1 \in 1..Len(u)
  BY <1>1, <1>3, <1>4
<1>6. ASSUME NEW j \in 1..Len(v) PROVE PieceOf(v[j], a + j, s) /\ (j > 1 \/ q = 0 => v[j].at = 0)
  <2>1. CASE j = 1
    BY <1>5, <2>1
  <2>2. CASE j # 1
    <3>1. v[j] = t[j] /\ j \in 1..Len(t) /\ j > 1
      BY <1>1, <1>3, <1>5, <2>2
    <3> QED
      BY <3>1 DEF QueueIs
  <2> QED
    BY <2>1, <2>2
<1> QED
  BY <1>1, <1>2, <1>4, <1>5, <1>6 DEF QueueIs

LEMMA MoreSent ==
    ASSUME NEW t, NEW a, NEW s, NEW r, QueueIs(t, a, s, r), NEW message \in Messages,
           NEW p \in Pieces, PieceOf(p, Len(s) + 1, Append(s, message)), p.at = 0
    PROVE  /\ QueueIs(Append(t, p), a, Append(s, message), r)
           /\ Append(t, p) # <<>> /\ (t # <<>> => Head(Append(t, p)) = Head(t))
           /\ \A k \in 1..Len(s) : Append(s, message)[k] = s[k]
           /\ Len(Append(s, message)) = Len(s) + 1 /\ Append(s, message) \in Seq(Messages)
<1>1. t \in Seq(Pieces) /\ a \in Nat /\ s \in Seq(Messages) /\ Len(s) = a + Len(t) /\ Len(t) \in Nat
  BY DEF QueueIs
<1>2. PICK u, z : u = Append(t, p) /\ z = Append(s, message)
  OBVIOUS
<1>3. /\ u \in Seq(Pieces) /\ Len(u) = Len(t) + 1 /\ u[Len(t) + 1] = p /\ \A j \in 1..Len(t) : u[j] = t[j]
      /\ u # <<>> /\ (t # <<>> => Head(u) = Head(t))
  BY <1>1, <1>2
<1>4. /\ z \in Seq(Messages) /\ Len(z) = Len(s) + 1 /\ z[Len(s) + 1] = message /\ \A k \in 1..Len(s) : z[k] = s[k]
  BY <1>1, <1>2
<1>5. ASSUME NEW j \in 1..Len(u) PROVE PieceOf(u[j], a + j, z) /\ (j > 1 \/ r = 0 => u[j].at = 0)
  <2>1. CASE j = Len(t) + 1
    <3>1. u[j] = p /\ a + j = Len(s) + 1
      BY <1>1, <1>3, <2>1
    <3> QED
      BY <1>2, <3>1
  <2>2. CASE j \in 1..Len(t)
    <3>1. u[j] = t[j] /\ z[a + j] = s[a + j]
      <4>1. a + j \in 1..Len(s)
        BY <1>1, <2>2
      <4> QED
        BY <1>3, <1>4, <2>2, <4>1
    <3>2. PieceOf(t[j], a + j, s) /\ (j > 1 \/ r = 0 => t[j].at = 0)
      BY <2>2 DEF QueueIs
    <3> QED
      BY <3>1, <3>2 DEF PieceOf
  <2> QED
    BY <1>1, <1>3, <2>1, <2>2
<1>6. Len(z) = a + Len(u)
  BY <1>1, <1>3, <1>4
<1> QED
  BY <1>1, <1>2, <1>3, <1>4, <1>5, <1>6 DEF QueueIs

-----------------------------------------------------------------------------
(* What run had of the messages *)

Returned(protocol, s, k) == [msg |-> k, given |-> Due(protocol, s[k])]

Answers == [msg : Nat, given : {"whole", "first chunk", "nothing"}]

InSync(ans, protocol, s) ==
    ans \in Seq(Answers) /\ \A k \in 1..Len(ans) : ans[k] = Returned(protocol, s, k)

LEMMA OneMore ==
    ASSUME NEW ans, NEW protocol, NEW s, InSync(ans, protocol, s)
    PROVE  LET next == Append(ans, Returned(protocol, s, Len(ans) + 1))
           IN  InSync(next, protocol, s) /\ Len(next) = Len(ans) + 1 /\ next # <<>>
<1>1. ans \in Seq(Answers) /\ Len(ans) \in Nat
  BY DEF InSync
<1>2. PICK r : r = Returned(protocol, s, Len(ans) + 1)
  OBVIOUS
<1>3. r \in Answers
  <2>1. PICK k \in Nat : k = Len(ans) + 1
    BY <1>1
  <2>2. PICK d : d = Due(protocol, s[k])
    OBVIOUS
  <2>3. d \in {"whole", "first chunk", "nothing"}
    BY <2>2 DEF Due
  <2>4. r = [msg |-> k, given |-> d]
    BY <1>2, <2>1, <2>2 DEF Returned
  <2> QED
    BY <2>3, <2>4 DEF Answers
<1>4. PICK next : next = Append(ans, r)
  OBVIOUS
<1>5. /\ next \in Seq(Answers) /\ Len(next) = Len(ans) + 1 /\ next[Len(ans) + 1] = r /\ next # <<>>
      /\ \A k \in 1..Len(ans) : next[k] = ans[k]
  BY <1>1, <1>3, <1>4
<1>6. \A k \in 1..Len(next) : next[k] = Returned(protocol, s, k)
  <2> TAKE k \in 1..Len(next)
  <2>1. k \in 1..Len(ans) \/ k = Len(ans) + 1
    BY <1>1, <1>5
  <2>2. CASE k \in 1..Len(ans)
    BY <1>5, <2>2 DEF InSync
  <2>3. CASE k = Len(ans) + 1
    BY <1>2, <1>5, <2>3
  <2> QED
    BY <2>1, <2>2, <2>3
<1> QED
  BY <1>2, <1>4, <1>5, <1>6 DEF InSync

-----------------------------------------------------------------------------
(* The invariant *)

UsbNumbers ==
    /\ dialect \in {"none", "V1", "V2"} /\ usb_sessions \in 0..MaxSessions /\ stray \in Nat
    /\ WholeChunks(message_buffer_size) /\ whole \in BOOLEAN /\ reading_of \in Nat
    /\ received \in Nat /\ required \in Nat /\ capacity \in Nat

KindsKnown == \A k \in DOMAIN sent : sent[k].kind \in Kinds(dialect)

(* The driver holds the messages that are not answered, the first perhaps  *)
(* begun by the reader that awaits its tail ...                            *)
NewMessagesLeft == QueueIs(transfers, Len(answered), sent, reading_of)

(* ... or before them the rest of a tail that nobody reads: as many        *)
(* packets of it were stray reads as came behind the first chunk.          *)
UnreadTailLeft ==
    /\ answered # <<>> /\ transfers # <<>> /\ reading_of = 0 /\ Amount(bounce) = 0
    /\ QueueIs(transfers, Len(answered) - 1, sent, 1)
    /\ Head(transfers).at = (stray + 1) * ChunkSize
    /\ StrayReads(dialect, sent[Len(answered)]) = Packets(sent[Len(answered)].size) - 1

UsbQueue == NewMessagesLeft \/ UnreadTailLeft

(* A reader reads on. *)
TailWanted(protocol, message) ==
    message.size > ChunkSize /\ ~Refused(protocol, message) /\ message.kind # "other"

(* What is awaited is what the driver holds of the message, and the buffer *)
(* has room for it: of V1 exactly, of V2 in whole packets.                 *)
TailAwaited ==
    IF reading_of = 0 THEN received = 0 /\ required = 0 /\ capacity = 0
    ELSE /\ reading_of = Len(answered) + 1 /\ transfers # <<>> /\ whole = TRUE /\ Amount(bounce) = 0
         /\ TailWanted(dialect, sent[reading_of])
         /\ WholeChunks(received) /\ required <= capacity
         /\ Head(transfers).at = received + BufferBegins
         /\ required = received + Head(transfers).left
         /\ IF dialect = "V1" THEN capacity = required ELSE WholeChunks(capacity)

(* What stray reads there may be after the last answer *)
StrayLeft(n) == answered # <<>> /\ n <= StrayReads(dialect, sent[Len(answered)])

(* Padding of the message answered last *)
BounceIsPadding ==
    /\ bounce \in Pieces /\ bounce.left = 0 /\ bounce.pad < ChunkSize
    /\ bounce.pad > 0 => reading_of = 0 /\ stray = 0 /\ StrayLeft(1)

StraysBounded == stray > 0 => StrayLeft(stray)

UsbInv ==
    /\ UsbNumbers /\ KindsKnown /\ UsbQueue /\ InSync(answered, dialect, sent) /\ TailAwaited
    /\ BounceIsPadding /\ StraysBounded

LEMMA QueueTyped ==
    ASSUME UsbQueue
    PROVE  /\ transfers \in Seq(Pieces) /\ sent \in Seq(Messages) /\ Len(answered) \in 0..Len(sent)
           /\ transfers = <<>> => Len(answered) = Len(sent)
<1>1. CASE NewMessagesLeft
  <2>1. /\ transfers \in Seq(Pieces) /\ sent \in Seq(Messages) /\ Len(sent) = Len(answered) + Len(transfers)
        /\ Len(answered) \in Nat /\ Len(transfers) \in Nat
    BY <1>1 DEF NewMessagesLeft, QueueIs
  <2>2. transfers = <<>> => Len(transfers) = 0
    OBVIOUS
  <2> QED
    BY <2>1, <2>2
<1>2. CASE UnreadTailLeft
  <2>1. /\ transfers \in Seq(Pieces) /\ sent \in Seq(Messages) /\ Len(sent) = (Len(answered) - 1) + Len(transfers)
        /\ Len(answered) - 1 \in Nat /\ Len(transfers) \in Nat /\ transfers # <<>>
    BY <1>2 DEF UnreadTailLeft, QueueIs
  <2>2. Len(transfers) > 0
    BY <2>1
  <2>3. PICK a, n : a = Len(answered) /\ n = Len(sent)
    OBVIOUS
  <2>4. a \in Int
    BY <2>3
  <2> QED
    BY <2>1, <2>2, <2>3, <2>4
<1> QED
  BY <1>1, <1>2 DEF UsbQueue

LEMMA UsbInvImplies == UsbInv => UsbTypeOK /\ UsbInSync
<1> SUFFICES ASSUME UsbInv PROVE UsbTypeOK /\ UsbInSync
  OBVIOUS
<1> USE DEF UsbInv
<1>1. /\ transfers \in Seq(Pieces) /\ sent \in Seq(Messages) /\ Len(answered) \in 0..Len(sent)
      /\ transfers = <<>> => Len(answered) = Len(sent)
      /\ Len(sent) \in Nat
  BY QueueTyped
<1>2. Amount(bounce) < ChunkSize /\ bounce.left = 0 /\ Amount(bounce) \in Nat
  BY DEF BounceIsPadding, Amount, Pieces
<1>3. reading_of # 0 => reading_of \in 0..Len(sent) /\ received < required /\ required <= capacity
  <2> SUFFICES ASSUME reading_of # 0 PROVE reading_of \in 0..Len(sent) /\ received < required /\ required <= capacity
    OBVIOUS
  <2>1. /\ reading_of = Len(answered) + 1 /\ transfers # <<>> /\ required <= capacity
        /\ required = received + Head(transfers).left
    BY DEF TailAwaited
  <2>2. NewMessagesLeft
    BY DEF UsbQueue, UnreadTailLeft
  <2>3. Head(transfers) \in Pieces /\ PieceOf(Head(transfers), Len(answered) + 1, sent) /\ Len(answered) + 1 \in 1..Len(sent)
    BY <2>1, <2>2, HeadIs DEF NewMessagesLeft
  <2>4. Head(transfers).left \in Nat /\ Head(transfers).left > 0
    BY <2>3 DEF Pieces, PieceOf
  <2>5. received \in Nat
    BY DEF UsbNumbers
  <2> QED
    BY <1>1, <2>1, <2>3, <2>4, <2>5
<1>4. reading_of = 0 => required <= capacity
  BY DEF TailAwaited
<1>5. UsbTypeOK
  <2>1. reading_of \in 0..Len(sent) /\ (reading_of # 0 => received < required) /\ required <= capacity
    BY <1>1, <1>3, <1>4
  <2> QED
    BY <1>1, <1>2, <2>1, Zenon DEF UsbTypeOK, UsbNumbers, KindsKnown, WholeChunks
<1>6. answered = [k \in 1..Len(answered) |-> [msg |-> k, given |-> Due(dialect, sent[k])]]
  <2>1. answered = [k \in 1..Len(answered) |-> Returned(dialect, sent, k)]
    <3>1. answered \in Seq(Answers) /\ \A k \in 1..Len(answered) : answered[k] = Returned(dialect, sent, k)
      BY DEF InSync
    <3>2. DOMAIN answered = 1..Len(answered) /\ answered = [k \in DOMAIN answered |-> answered[k]]
      BY <3>1
    <3> QED
      BY <3>1, <3>2
  <2> QED
    BY <2>1 DEF Returned
<1>7. stray > 0 => answered # <<>> /\ stray <= StrayReads(dialect, sent[Len(answered)])
  BY DEF StraysBounded, StrayLeft
<1> QED
  BY <1>1, <1>2, <1>5, <1>6, <1>7 DEF UsbInSync

(* A session begins with nothing sent and nothing kept. *)
Anew ==
    /\ dialect \in {"none", "V1", "V2"} /\ usb_sessions \in 0..MaxSessions
    /\ sent = <<>> /\ transfers = <<>> /\ answered = <<>> /\ stray = 0 /\ bounce = Nothing
    /\ reading_of = 0 /\ received = 0 /\ required = 0 /\ capacity = 0 /\ whole = TRUE
    /\ WholeChunks(message_buffer_size)

LEMMA AnewIsFine == Anew => UsbInv
<1> SUFFICES ASSUME Anew PROVE UsbInv
  OBVIOUS
<1>1. UsbNumbers
  BY Zenon DEF Anew, UsbNumbers, WholeChunks
<1>2. sent = <<>> /\ transfers = <<>> /\ answered = <<>> /\ stray = 0
  BY DEF Anew
<1>3. \A S : <<>> \in Seq(S)
  OBVIOUS
<1>4. UsbQueue /\ KindsKnown
  BY <1>2, <1>3 DEF UsbQueue, NewMessagesLeft, QueueIs, KindsKnown
<1>5. InSync(answered, dialect, sent)
  BY <1>2, <1>3 DEF InSync
<1>6. TailAwaited /\ StraysBounded
  BY DEF Anew, TailAwaited, StraysBounded
<1>7. BounceIsPadding
  <2>1. bounce = Nothing /\ ChunkSize > 0
    BY ChunkAssumption DEF Anew
  <2> QED
    BY <2>1 DEF BounceIsPadding, Nothing, Pieces
<1> QED
  BY <1>1, <1>4, <1>5, <1>6, <1>7 DEF UsbInv

LEMMA AnewIsFineNext == (Anew => UsbInv)'
BY AnewIsFine, PTL

LEMMA UsbSessionKeeps ==
    ASSUME UsbInv, NEW protocol \in {"V1", "V2"}, UsbSession(protocol)
    PROVE  UsbInv'
<1>1. usb_sessions' \in 0..MaxSessions /\ dialect' \in {"none", "V1", "V2"}
  BY ChunkAssumption DEF UsbInv, UsbNumbers, UsbSession
<1>2. WholeChunks(message_buffer_size)'
  BY DEF UsbInv, UsbNumbers, UsbSession, WholeChunks
<1>3. Anew'
  BY <1>1, <1>2 DEF Anew, UsbSession, SessionStarts
<1> QED
  BY <1>3, AnewIsFineNext

LEMMA UsbInitially == UsbInit => UsbInv
<1> SUFFICES ASSUME UsbInit PROVE UsbInv
  OBVIOUS
<1>1. usb_sessions \in 0..MaxSessions /\ WholeChunks(message_buffer_size)
  BY NoneAndOne, ChunkAssumption DEF UsbInit
<1>2. Anew
  BY <1>1 DEF Anew, UsbInit
<1> QED
  BY <1>2, AnewIsFine

(* What was said of the messages sent so far holds as another is sent.     *)
LEMMA SaidStays ==
    ASSUME UsbQueue, InSync(answered, dialect, sent), NEW message \in Messages,
           sent' = Append(sent, message), answered' = answered, dialect' = dialect
    PROVE  /\ InSync(answered, dialect, sent)'
           /\ \A n : StrayLeft(n) => StrayLeft(n)'
           /\ answered # <<>> => sent'[Len(answered)] = sent[Len(answered)]
<1>1. sent \in Seq(Messages) /\ Len(answered) \in 0..Len(sent) /\ answered \in Seq(Answers)
  BY QueueTyped DEF InSync
<1>2. \A k \in 1..Len(sent) : sent'[k] = sent[k]
  BY <1>1
<1>3. \A k \in 1..Len(answered) : k \in 1..Len(sent)
  BY <1>1
<1>4. InSync(answered, dialect, sent)'
  <2>1. \A k \in 1..Len(answered) : answered[k] = Returned(dialect, sent', k)
    BY <1>2, <1>3 DEF InSync, Returned
  <2> QED
    BY <1>1, <2>1 DEF InSync
<1>5. answered # <<>> => Len(answered) \in 1..Len(sent)
  BY <1>1
<1>6. answered # <<>> => sent'[Len(answered)] = sent[Len(answered)]
  BY <1>2, <1>5
<1> QED
  BY <1>4, <1>6 DEF StrayLeft

LEMMA HeadUnitSendsKeeps ==
    ASSUME UsbInv, NEW message \in Messages, NEW padded \in BOOLEAN, HeadUnitSends(message, padded)
    PROVE  UsbInv'
<1> DEFINE size == message.size
           s == Append(sent, message)
           piece == [msg |-> Len(sent) + 1, at |-> 0, left |-> size,
                     pad |-> IF padded THEN RoundUp(size) - size ELSE 0]
<1>1. /\ sent' = s /\ transfers' = Append(transfers, piece)
      /\ dialect' = dialect /\ bounce' = bounce /\ message_buffer_size' = message_buffer_size
      /\ reading_of' = reading_of /\ received' = received /\ required' = required
      /\ capacity' = capacity /\ whole' = whole /\ answered' = answered
      /\ stray' = stray /\ usb_sessions' = usb_sessions
  BY DEF HeadUnitSends, tailVars
<1>2. /\ UsbQueue /\ sent \in Seq(Messages) /\ Len(sent) \in Nat /\ size \in Nat \ {0}
      /\ message.kind \in Kinds(dialect)
  BY QueueTyped, MessageSizesAre DEF UsbInv, HeadUnitSends
<1>3. RoundUp(size) \in Nat /\ size <= RoundUp(size)
  BY <1>2, RoundedUp DEF WholeChunks
<1>4. s \in Seq(Messages) /\ Len(s) = Len(sent) + 1 /\ s[Len(sent) + 1] = message /\ \A k \in 1..Len(sent) : s[k] = sent[k]
  BY <1>2
<1>5. PICK pad : pad = IF padded THEN RoundUp(size) - size ELSE 0
  OBVIOUS
<1>6. pad \in Nat /\ (pad = 0 \/ pad = RoundUp(size) - size)
  BY <1>2, <1>3, <1>5
<1>7. piece = [msg |-> Len(sent) + 1, at |-> 0, left |-> size, pad |-> pad]
  BY <1>5
<1> HIDE DEF piece
<1>8. piece \in Pieces /\ PieceOf(piece, Len(sent) + 1, s) /\ piece.at = 0
  BY <1>2, <1>4, <1>6, <1>7 DEF Pieces, PieceOf
<1>9. \A a, r : QueueIs(transfers, a, sent, r) =>
        /\ QueueIs(Append(transfers, piece), a, s, r)
        /\ Append(transfers, piece) # <<>> /\ (transfers # <<>> => Head(Append(transfers, piece)) = Head(transfers))
  BY <1>8, MoreSent
<1> HIDE DEF s
<1>10. /\ InSync(answered, dialect, sent)'
       /\ \A n : StrayLeft(n) => StrayLeft(n)'
       /\ answered # <<>> => sent'[Len(answered)] = sent[Len(answered)]
  <2>1. sent' = Append(sent, message) /\ InSync(answered, dialect, sent)
    BY <1>1 DEF s, UsbInv
  <2> QED
    BY <1>1, <1>2, <2>1, SaidStays
<1>11. KindsKnown'
  <2>1. \A k \in 1..Len(sent) : sent[k].kind \in Kinds(dialect)
    BY <1>2 DEF UsbInv, KindsKnown
  <2>2. ASSUME NEW k \in DOMAIN s PROVE s[k].kind \in Kinds(dialect)
    <3>1. k \in 1..Len(sent) \/ k = Len(sent) + 1
      BY <1>2, <1>4
    <3> QED
      BY <1>2, <1>4, <2>1, <3>1
  <2> QED
    BY <1>1, <2>2 DEF KindsKnown
<1>12. UsbQueue'
  <2>1. CASE NewMessagesLeft
    BY <1>1, <1>9, <2>1 DEF UsbQueue, NewMessagesLeft
  <2>2. CASE UnreadTailLeft
    <3>1. /\ QueueIs(transfers', Len(answered) - 1, sent', 1) /\ transfers' # <<>> /\ Head(transfers') = Head(transfers)
      BY <1>1, <1>9, <2>2 DEF UnreadTailLeft
    <3>2. sent'[Len(answered)] = sent[Len(answered)]
      BY <1>10, <2>2 DEF UnreadTailLeft
    <3> QED
      BY <1>1, <2>2, <3>1, <3>2 DEF UsbQueue, UnreadTailLeft, Amount
  <2> QED
    BY <1>2, <2>1, <2>2 DEF UsbQueue
<1>13. TailAwaited'
  <2>1. CASE reading_of = 0
    BY <1>1, <2>1 DEF UsbInv, TailAwaited
  <2>2. CASE reading_of # 0
    <3>1. NewMessagesLeft
      BY <1>2, <2>2 DEF UsbQueue, UnreadTailLeft
    <3>2. /\ reading_of = Len(answered) + 1 /\ transfers # <<>>
      BY <2>2 DEF UsbInv, TailAwaited
    <3>3. reading_of \in 1..Len(sent)
      BY <3>1, <3>2, HeadIs DEF NewMessagesLeft
    <3>4. sent'[reading_of] = sent[reading_of]
      BY <1>1, <1>4, <3>3
    <3>5. transfers' # <<>> /\ Head(transfers') = Head(transfers)
      BY <1>1, <1>9, <3>1, <3>2 DEF NewMessagesLeft
    <3> QED
      BY <1>1, <2>2, <3>4, <3>5 DEF UsbInv, TailAwaited, Amount, WholeChunks, BufferBegins
  <2> QED
    BY <2>1, <2>2
<1>14. BounceIsPadding' /\ StraysBounded'
  BY <1>1, <1>10 DEF UsbInv, BounceIsPadding, StraysBounded
<1>15. UsbNumbers'
  BY <1>1 DEF UsbInv, UsbNumbers, WholeChunks
<1> QED
  BY <1>10, <1>11, <1>12, <1>13, <1>14, <1>15 DEF UsbInv

(* The read of a new message: of one that is no longer than a packet it    *)
(* gives all, of a longer one the first packet.                            *)
LEMMA FirstRead ==
    ASSUME NEW head \in Pieces, NEW size \in Nat \ {0}, head.at = 0, head.left = size,
           head.pad = 0 \/ head.pad = RoundUp(size) - size,
           NEW read, NEW n, NEW c, ReadOf(read, head, ChunkSize, n, c)
    PROVE  /\ Marked(read.piece) /\ read.piece.msg = head.msg /\ Amount(read.piece) = n
           /\ read.bounce = Nothing
           /\ size <= ChunkSize => n = Amount(head) /\ size <= n
           /\ size > ChunkSize => n = ChunkSize /\ n # Amount(head)
<1>1. /\ n \in Nat /\ 1 <= n /\ n <= RoundUp(ChunkSize) /\ n <= Amount(head)
      /\ WholeChunks(n) \/ n = Amount(head)
      /\ c = (IF n <= ChunkSize THEN n ELSE ChunkSize)
      /\ read.piece = FirstBytes(head, c) /\ read.bounce = RestAfter(FirstBytes(head, n), c)
  BY DEF ReadOf
<1>2. ChunkSize \in Nat \ {0} /\ RoundUp(ChunkSize) = ChunkSize
  <2>1. ChunkSize \in Nat \ {0}
    BY ChunkAssumption
  <2> QED
    BY <2>1, RoundedUp, NoneAndOne
<1>3. n <= ChunkSize /\ c = n
  BY <1>1, <1>2
<1>4. n = ChunkSize \/ n = Amount(head)
  <2> SUFFICES ASSUME WholeChunks(n) PROVE n = ChunkSize
    BY <1>1
  <2>1. n >= 0 + ChunkSize
    BY <1>1, NoneAndOne, PacketApart
  <2> QED
    BY <1>1, <1>2, <1>3, <2>1
<1>5. /\ FirstBytes(head, n) \in Pieces /\ FirstBytes(head, n).msg = head.msg
      /\ FirstBytes(head, n).at = 0 /\ FirstBytes(head, n).left = (IF n <= size THEN n ELSE size)
      /\ Amount(FirstBytes(head, n)) = n
  BY <1>1, FirstBytesAre
<1>6. Marked(read.piece) /\ read.piece.msg = head.msg /\ Amount(read.piece) = n
  BY <1>1, <1>3, <1>5 DEF Marked
<1>7. read.bounce = Nothing
  BY <1>1, <1>3, <1>5, RestAfterIs
<1>8. /\ RoundUp(size) \in Nat /\ size <= RoundUp(size)
      /\ size <= ChunkSize => RoundUp(size) <= ChunkSize
  <2>1. WholeChunks(RoundUp(size)) /\ size <= RoundUp(size) /\ (ChunkSize >= size => ChunkSize >= RoundUp(size))
    BY RoundedUp, NoneAndOne
  <2> QED
    BY <1>2, <2>1 DEF WholeChunks
<1>9. Amount(head) \in Nat /\ size <= Amount(head) /\ (size <= ChunkSize => Amount(head) <= ChunkSize)
  BY <1>2, <1>8 DEF Amount, Pieces
<1>10. size <= ChunkSize => n = Amount(head) /\ size <= n
  BY <1>1, <1>2, <1>4, <1>9
<1>11. size > ChunkSize => n = ChunkSize /\ n # Amount(head)
  BY <1>1, <1>2, <1>3, <1>4, <1>9
<1> QED
  BY <1>6, <1>7, <1>10, <1>11

LEMMA NothingKept ==
    Nothing \in Pieces /\ Nothing.left = 0 /\ Nothing.pad = 0 /\ Amount(Nothing) = 0 /\ 0 < ChunkSize
BY ChunkAssumption DEF Nothing, Pieces, Amount

(* A read of a tail nobody asked for: a packet of it, or all that is left. *)
LEMMA StrayRead ==
    ASSUME NEW head \in Pieces, NEW size \in Nat \ {0}, head.at + head.left = size, head.left > 0,
           head.pad = 0 \/ head.pad = RoundUp(size) - size, WholeChunks(head.at),
           NEW read, NEW n, NEW c, ReadOf(read, head, ChunkSize, n, c)
    PROVE  /\ read.piece.at = head.at /\ read.bounce = Nothing
           /\ n # Amount(head) => n = ChunkSize /\ n < head.left
<1>1. /\ n \in Nat /\ 1 <= n /\ n <= RoundUp(ChunkSize) /\ n <= Amount(head)
      /\ WholeChunks(n) \/ n = Amount(head)
      /\ c = (IF n <= ChunkSize THEN n ELSE ChunkSize)
      /\ read.piece = FirstBytes(head, c) /\ read.bounce = RestAfter(FirstBytes(head, n), c)
  BY DEF ReadOf
<1>2. ChunkSize \in Nat \ {0} /\ RoundUp(ChunkSize) = ChunkSize
  <2>1. ChunkSize \in Nat \ {0}
    BY ChunkAssumption
  <2> QED
    BY <2>1, RoundedUp, NoneAndOne
<1>3. n <= ChunkSize /\ c = n
  BY <1>1, <1>2
<1>4. /\ FirstBytes(head, n) \in Pieces /\ FirstBytes(head, n).at = head.at /\ Amount(FirstBytes(head, n)) = n
  BY <1>1, FirstBytesAre
<1>5. read.piece.at = head.at /\ read.bounce = Nothing
  BY <1>1, <1>3, <1>4, RestAfterIs
<1>6. /\ head.at \in Nat /\ head.left \in Nat /\ head.pad \in Nat /\ Amount(head) = head.left + head.pad
  BY DEF Pieces, Amount
<1>7. ASSUME n # Amount(head) PROVE n = ChunkSize /\ n < head.left
  <2>1. n >= 0 + ChunkSize
    BY <1>1, <1>7, NoneAndOne, PacketApart
  <2>2. n = ChunkSize
    BY <1>2, <1>3, <1>1, <2>1
  <2>3. n < head.left
    <3> SUFFICES ASSUME n >= head.left PROVE FALSE
      BY <1>1, <1>6
    <3>1. WholeChunks(head.at + n) /\ head.at + n >= size
      BY <1>1, <1>6, <1>7, WholeChunksAdd
    <3>2. head.at + n >= RoundUp(size) /\ RoundUp(size) \in Nat /\ size <= RoundUp(size)
      BY <3>1, RoundedUp DEF WholeChunks
    <3>3. n >= Amount(head)
      BY <1>1, <1>6, <3>2
    <3> QED
      BY <1>1, <1>6, <1>7, <3>3
  <2> QED
    BY <2>2, <2>3
<1> QED
  BY <1>5, <1>7

(* There are no more packets in front of a place than the message has.     *)
LEMMA PacketsBefore ==
    ASSUME NEW size \in Nat, NEW q \in Nat, q * ChunkSize < size
    PROVE  q <= Packets(size) - 1 /\ Packets(size) \in Nat
<1>1. ChunkSize \in Nat \ {0}
  BY ChunkAssumption
<1> DEFINE m == size + ChunkSize - 1
<1>2. m \in Nat
  BY <1>1
<1>3. Packets(size) = m \div ChunkSize
  BY DEF Packets
<1> HIDE DEF m
<1>4. Packets(size) \in Nat
  BY <1>1, <1>2, <1>3
<1>5. size <= Packets(size) * ChunkSize
  BY RoundedUp DEF RoundUp
<1>6. PICK p : p = Packets(size)
  OBVIOUS
<1>7. p \in Nat /\ q * ChunkSize < p * ChunkSize
  <2>1. q * ChunkSize \in Nat /\ p * ChunkSize \in Nat
    BY <1>1, <1>4, <1>6
  <2> QED
    BY <1>4, <1>5, <1>6, <2>1
<1>8. q < p
  <2> SUFFICES ASSUME q >= p PROVE FALSE
    BY <1>7
  <2>1. q - p \in Nat
    BY <1>7
  <2>2. \A d, c \in Nat : d * c >= 0
    OBVIOUS
  <2>3. (q - p) * ChunkSize >= 0
    BY <1>1, <2>1, <2>2
  <2>4. (q - p) * ChunkSize = q * ChunkSize - p * ChunkSize
    BY <1>1, <1>7
  <2> QED
    BY <1>1, <1>7, <2>3, <2>4
<1> QED
  BY <1>4, <1>6, <1>7, <1>8

(* A message is answered as it is due. *)
LEMMA AnsweredInSync ==
    ASSUME InSync(answered, dialect, sent), sent' = sent, dialect' = dialect,
           answered' = Append(answered, Returned(dialect, sent, Len(answered) + 1))
    PROVE  /\ InSync(answered, dialect, sent)' /\ answered' # <<>> /\ Len(answered') = Len(answered) + 1
<1>1. /\ InSync(answered', dialect, sent) /\ Len(answered') = Len(answered) + 1 /\ answered' # <<>>
  BY OneMore
<1> QED
  BY <1>1 DEF InSync

(* The tail of a message is awaited, behind what it begins with; of V1 in  *)
(* a buffer of its size.                                                   *)
Awaits(msg, m, begun, room) ==
    /\ AwaitTail(msg, begun, begun + (m.size - ChunkSize), room, TRUE)
    /\ begun = IF m.kind = "app" THEN 0 ELSE ChunkSize
    /\ begun + (m.size - ChunkSize) <= room
    /\ IF dialect = "V1" THEN room = begun + (m.size - ChunkSize) ELSE WholeChunks(room)
    /\ WholeChunks(message_buffer_size)'

(* What run does with the first read of a message: the answer it is due,   *)
(* or its tail is awaited.                                                 *)
LEMMA RunOutcome ==
    ASSUME NEW piece, Marked(piece), NEW msg, msg = piece.msg, NEW readed \in Nat, readed = Amount(piece),
           NEW m \in Messages, m = sent[msg], m.kind \in Kinds(dialect),
           m.size <= ChunkSize => m.size <= readed, m.size > ChunkSize => readed = ChunkSize,
           WholeChunks(message_buffer_size),
           (dialect = "V1" /\ RunV1(piece)) \/ (dialect = "V2" /\ RunV2(piece))
    PROVE  \/ ~TailWanted(dialect, m) /\ Answer(msg, Due(dialect, m))
           \/ TailWanted(dialect, m) /\ \E begun, room \in Nat : Awaits(msg, m, begun, room)
<1>1. /\ ChunkSize \in Nat \ {0} /\ MaxMessageSize \in Nat /\ ChunkSize <= MaxMessageSize
      /\ HeaderSizeV2 \in 1..ChunkSize
  BY ChunkAssumption
<1>2. m.size \in Nat \ {0}
  BY MessageSizesAre
<1>3. CASE dialect = "V1"
  <2>1. m.kind \in {"app", "speech", "other"} /\ RunV1(piece)
    BY <1>3 DEF Kinds
  <2>2. CASE m.kind = "app"
    <3>1. HandleAppMsg(msg, readed)
      BY <2>1, <2>2 DEF RunV1
    <3>2. CASE m.size <= ChunkSize \/ m.size > MaxMessageSize
      <4>1. Answer(msg, "nothing")
        BY <3>1, <3>2 DEF HandleAppMsg
      <4>2. Refused(dialect, m)
        BY <1>3, <2>2, <3>2 DEF Refused
      <4> QED
        BY <4>1, <4>2 DEF Due, TailWanted
    <3>3. CASE ~(m.size <= ChunkSize \/ m.size > MaxMessageSize)
      <4>1. /\ AwaitTail(msg, 0, m.size - ChunkSize, m.size - ChunkSize, readed = ChunkSize)
            /\ UNCHANGED message_buffer_size
        BY <3>1, <3>3 DEF HandleAppMsg
      <4>2. TailWanted(dialect, m) /\ (readed = ChunkSize) = TRUE
        BY <1>1, <1>2, <1>3, <2>2, <3>3 DEF TailWanted, Refused
      <4>3. /\ 0 + (m.size - ChunkSize) = m.size - ChunkSize /\ m.size - ChunkSize \in Nat
        BY <1>1, <1>2, <3>3
      <4>4. AwaitTail(msg, 0, 0 + (m.size - ChunkSize), m.size - ChunkSize, TRUE)
        BY <4>1, <4>2, <4>3
      <4>5. Awaits(msg, m, 0, m.size - ChunkSize)
        <5>1. 0 + (m.size - ChunkSize) <= m.size - ChunkSize
          BY <4>3
        <5>2. WholeChunks(message_buffer_size)'
          BY <4>1 DEF WholeChunks
        <5> QED
          BY <1>3, <2>2, <4>3, <4>4, <5>1, <5>2, Zenon DEF Awaits
      <4> QED
        BY <4>2, <4>3, <4>5
    <3> QED
      BY <3>2, <3>3
  <2>3. CASE m.kind = "speech"
    <3>1. HandleSpeech(msg, readed)
      BY <2>1, <2>3 DEF RunV1
    <3>2. CASE m.size <= ChunkSize
      <4>1. Answer(msg, "whole")
        BY <3>1, <3>2 DEF HandleSpeech, FromChunk
      <4>2. ~Refused(dialect, m) /\ ~TailWanted(dialect, m)
        BY <1>1, <1>2, <1>3, <2>3, <3>2 DEF Refused, TailWanted
      <4> QED
        BY <2>3, <4>1, <4>2 DEF Due
    <3>3. CASE m.size > MaxMessageSize
      <4>1. Answer(msg, "nothing")
        BY <1>1, <1>2, <3>1, <3>3 DEF HandleSpeech
      <4>2. Refused(dialect, m)
        BY <1>3, <2>3, <3>3 DEF Refused
      <4> QED
        BY <4>1, <4>2 DEF Due, TailWanted
    <3>4. CASE ~(m.size <= ChunkSize) /\ ~(m.size > MaxMessageSize)
      <4>1. /\ AwaitTail(msg, ChunkSize, m.size, m.size, readed = ChunkSize)
            /\ UNCHANGED message_buffer_size
        BY <3>1, <3>4 DEF HandleSpeech
      <4>2. TailWanted(dialect, m) /\ (readed = ChunkSize) = TRUE
        BY <1>1, <1>2, <1>3, <2>3, <3>4 DEF TailWanted, Refused
      <4>3. ChunkSize + (m.size - ChunkSize) = m.size /\ ChunkSize \in Nat /\ m.size \in Nat
        BY <1>1, <1>2
      <4>4. AwaitTail(msg, ChunkSize, ChunkSize + (m.size - ChunkSize), m.size, TRUE)
        BY <4>1, <4>2, <4>3
      <4>5. Awaits(msg, m, ChunkSize, m.size)
        <5>1. ChunkSize + (m.size - ChunkSize) <= m.size
          BY <4>3
        <5> QED
          BY <1>3, <2>3, <4>1, <4>3, <4>4, <5>1 DEF Awaits, WholeChunks
      <4> QED
        BY <4>2, <4>3, <4>5
    <3> QED
      BY <3>2, <3>3, <3>4
  <2>4. CASE m.kind = "other"
    <3>1. Answer(msg, FromChunk(msg, readed))
      BY <2>1, <2>4 DEF RunV1
    <3>2. ~Refused(dialect, m) /\ ~TailWanted(dialect, m)
      BY <1>3, <2>4 DEF Refused, TailWanted
    <3>3. m.size > ChunkSize <=> ~(m.size <= readed)
      BY <1>1, <1>2
    <3> QED
      BY <2>4, <3>1, <3>2, <3>3 DEF Due, FromChunk
  <2> QED
    BY <2>1, <2>2, <2>3, <2>4
<1>4. CASE dialect = "V2"
  <2>1. m.kind \in {"message", "misfit"} /\ ReadMessage(msg, readed)
    BY <1>4 DEF Kinds, RunV2
  <2>2. Refused(dialect, m) <=> m.size < HeaderSizeV2 \/ m.size > MaxMessageSize
    BY <1>1, <1>2, <1>4 DEF Refused
  <2>3. readed < HeaderSizeV2 => m.size < HeaderSizeV2
    BY <1>1, <1>2
  <2>4. CASE Refused(dialect, m)
    <3>1. Answer(msg, "nothing")
      BY <2>1, <2>2, <2>4 DEF ReadMessage
    <3> QED
      BY <2>4, <3>1 DEF Due, TailWanted
  <2>5. CASE ~Refused(dialect, m) /\ m.size <= readed
    <3>1. Answer(msg, Fitting(msg))
      BY <2>1, <2>2, <2>3, <2>5 DEF ReadMessage
    <3>2. ~(m.size > ChunkSize)
      BY <1>1, <1>2, <2>5
    <3> QED
      BY <2>1, <2>5, <3>1, <3>2 DEF Due, Fitting, TailWanted
  <2>6. CASE ~Refused(dialect, m) /\ ~(m.size <= readed)
    <3> DEFINE up == RoundUp(m.size)
               grown == IF up > message_buffer_size THEN up ELSE message_buffer_size
    <3>1. AwaitTail(msg, readed, m.size, grown, TRUE) /\ message_buffer_size' = grown
      BY <2>1, <2>2, <2>3, <2>6 DEF ReadMessage
    <3>2. m.size > ChunkSize /\ readed = ChunkSize /\ ChunkSize + (m.size - ChunkSize) = m.size
      BY <1>1, <1>2, <2>6
    <3>3. WholeChunks(up) /\ m.size <= up /\ up \in Nat
      BY <1>2, RoundedUp DEF WholeChunks
    <3> HIDE DEF up
    <3>4. message_buffer_size \in Nat
      BY DEF WholeChunks
    <3>5. WholeChunks(grown) /\ m.size <= grown /\ grown \in Nat
      BY <1>2, <3>3, <3>4
    <3> HIDE DEF grown
    <3>6. TailWanted(dialect, m)
      BY <2>1, <2>6, <3>2 DEF TailWanted
    <3>7. AwaitTail(msg, ChunkSize, ChunkSize + (m.size - ChunkSize), grown, TRUE)
      BY <3>1, <3>2
    <3>8. WholeChunks(message_buffer_size)'
      BY <3>1, <3>5 DEF WholeChunks
    <3>9. ChunkSize \in Nat /\ ChunkSize + (m.size - ChunkSize) <= grown /\ m.kind # "app" /\ dialect # "V1"
      BY <1>1, <1>4, <2>1, <3>2, <3>5
    <3>10. Awaits(msg, m, ChunkSize, grown)
      BY <3>5, <3>7, <3>8, <3>9 DEF Awaits
    <3> QED
      BY <3>5, <3>6, <3>9, <3>10
  <2> QED
    BY <2>4, <2>5, <2>6
<1> QED
  BY <1>3, <1>4

LEMMA RunReadsKeeps ==
    ASSUME UsbInv, RunReads
    PROVE  UsbInv'
<1> USE DEF UsbInv
<1> DEFINE a == Len(answered)
           head == Head(transfers)
           m == sent[a + 1]
<1>1. /\ reading_of = 0 /\ dialect' = dialect /\ sent' = sent /\ usb_sessions' = usb_sessions
      /\ received = 0 /\ required = 0 /\ capacity = 0
  BY DEF RunReads, TailAwaited
<1>2. PICK read \in Reads(ChunkSize) :
         /\ bounce' = read.bounce /\ transfers' = read.transfers
         /\ (dialect = "V1" /\ RunV1(read.piece)) \/ (dialect = "V2" /\ RunV2(read.piece))
  BY Zenon DEF RunReads
<1>3. ChunkSize \in Nat \ {0} /\ bounce \in Pieces /\ bounce.left = 0 /\ bounce.pad < ChunkSize /\ bounce.pad \in Nat
  BY ChunkAssumption DEF BounceIsPadding, Pieces
<1>4. KindsKnown'
  BY <1>1 DEF KindsKnown
<1>5. ~Marked(read.piece) =>
         /\ stray' = stray + 1 /\ answered' = answered /\ reading_of' = reading_of /\ received' = received
         /\ required' = required /\ capacity' = capacity /\ whole' = whole
         /\ message_buffer_size' = message_buffer_size
         /\ UsbNumbers' /\ InSync(answered, dialect, sent)' /\ TailAwaited'
  <2> SUFFICES ASSUME ~Marked(read.piece)
               PROVE  /\ stray' = stray + 1 /\ answered' = answered /\ reading_of' = reading_of /\ received' = received
                      /\ required' = required /\ capacity' = capacity /\ whole' = whole
                      /\ message_buffer_size' = message_buffer_size
                      /\ UsbNumbers' /\ InSync(answered, dialect, sent)' /\ TailAwaited'
    OBVIOUS
  <2>1. BrokenSequence
    BY <1>2 DEF RunV1, RunV2
  <2>2. /\ stray' = stray + 1 /\ answered' = answered /\ reading_of' = reading_of /\ received' = received
        /\ required' = required /\ capacity' = capacity /\ whole' = whole
        /\ message_buffer_size' = message_buffer_size
    BY <2>1 DEF BrokenSequence, tailVars
  <2>3. stray' \in Nat
    BY <2>2 DEF UsbNumbers
  <2>4. UsbNumbers'
    BY <1>1, <2>2, <2>3, Zenon DEF UsbNumbers, WholeChunks
  <2> QED
    BY <1>1, <2>2, <2>4 DEF InSync, TailAwaited
<1>6. CASE bounce.pad > 0
  <2>1. read.piece.left = 0 /\ read.bounce = Nothing /\ read.transfers = transfers
    BY <1>3, <1>6, ReadsOfBounce
  <2>2. ~Marked(read.piece)
    BY <2>1 DEF Marked
  <2>3. bounce' = Nothing /\ transfers' = transfers
    BY <1>2, <2>1
  <2>4. stray = 0 /\ StrayLeft(1)
    BY <1>6 DEF BounceIsPadding
  <2>5. Amount(bounce) # 0
    BY <1>3, <1>6 DEF Amount
  <2>6. NewMessagesLeft
    BY <2>5 DEF UsbQueue, UnreadTailLeft
  <2>7. UsbQueue'
    BY <1>1, <1>5, <2>2, <2>3, <2>6 DEF UsbQueue, NewMessagesLeft
  <2>8. BounceIsPadding'
    BY <2>3, NothingKept DEF BounceIsPadding
  <2>9. StraysBounded'
    <3>1. stray' = 1
      BY <1>5, <2>2, <2>4
    <3> QED
      BY <1>1, <1>5, <2>2, <2>4, <3>1 DEF StraysBounded, StrayLeft
  <2> QED
    BY <1>4, <1>5, <2>2, <2>7, <2>8, <2>9
<1>7. CASE ~(bounce.pad > 0)
  <2>1. Amount(bounce) = 0 /\ transfers \in Seq(Pieces) /\ a \in Nat
    BY <1>3, <1>7, QueueTyped DEF Amount
  <2>2. transfers # <<>> /\ \E n, c : ReadOf(read, head, ChunkSize, n, c)
    BY <1>3, <2>1, ReadsOfTransfer
  <2>3. PICK n, c : ReadOf(read, head, ChunkSize, n, c)
    BY <2>2
  <2>4. CASE UnreadTailLeft
    <3> DEFINE size == sent[a].size
    <3>1. QueueIs(transfers, a - 1, sent, 1) /\ answered # <<>>
      BY <2>4 DEF UnreadTailLeft
    <3>2. (a - 1) + 1 = a
      BY <2>1
    <3>3. head \in Pieces /\ PieceOf(head, a, sent) /\ size \in Nat \ {0}
      BY <2>2, <3>1, <3>2, HeadIs
    <3>4. head.at = (stray + 1) * ChunkSize /\ StrayReads(dialect, sent[a]) = Packets(size) - 1
      BY <2>4 DEF UnreadTailLeft
    <3> HIDE DEF head, a
    <3> HIDE DEF size
    <3>5. /\ head.msg = a /\ head.left > 0 /\ head.at + head.left = size
          /\ head.pad = 0 \/ head.pad = RoundUp(size) - size
          /\ head.at \in Nat /\ head.left \in Nat
      BY <3>3 DEF PieceOf, Pieces, size
    <3>6. stray \in Nat /\ stray + 1 \in Nat
      BY DEF UsbNumbers
    <3>7. WholeChunks(head.at) /\ head.at > 0
      <4>1. WholeChunks(head.at)
        BY <3>4, <3>5, <3>6, WholeChunksAre
      <4>2. \A d, e \in Nat \ {0} : d * e > 0
        OBVIOUS
      <4>3. stray + 1 \in Nat \ {0}
        BY <3>6
      <4> QED
        BY <1>3, <3>4, <4>1, <4>2, <4>3
    <3>8. /\ read.piece.at = head.at /\ read.bounce = Nothing
          /\ n # Amount(head) => n = ChunkSize /\ n < head.left
      BY <2>3, <3>3, <3>5, <3>7, StrayRead
    <3>9. ~Marked(read.piece)
      BY <3>5, <3>7, <3>8 DEF Marked
    <3>10. bounce' = Nothing /\ stray' = stray + 1 /\ answered' = answered /\ reading_of' = 0
      BY <1>1, <1>2, <1>5, <3>8, <3>9
    <3>11. BounceIsPadding'
      BY <3>10, NothingKept DEF BounceIsPadding
    <3>12. StraysBounded'
      <4>1. (stray + 1) * ChunkSize < size
        BY <3>4, <3>5
      <4>2. stray + 1 <= Packets(size) - 1
        BY <3>3, <3>6, <4>1, PacketsBefore
      <4> QED
        BY <1>1, <3>1, <3>4, <3>10, <4>2 DEF StraysBounded, StrayLeft, a
    <3>13. CASE n = Amount(head)
      <4>1. transfers' = Tail(transfers)
        BY <1>2, <2>3, <3>13 DEF ReadOf, head
      <4>2. QueueIs(Tail(transfers), a, sent, 0)
        BY <2>2, <3>1, <3>2, HeadTaken
      <4>3. UsbQueue'
        BY <1>1, <3>10, <4>1, <4>2 DEF UsbQueue, NewMessagesLeft, a
      <4> QED
        BY <1>4, <1>5, <3>9, <3>11, <3>12, <4>3
    <3>14. CASE n # Amount(head)
      <4> DEFINE rest == RestAfter(head, n)
      <4>1. transfers' = <<rest>> \o Tail(transfers)
        BY <1>2, <2>3, <3>14 DEF ReadOf, head
      <4>2. rest \in Pieces /\ rest.msg = a /\ rest.at = head.at + n /\ rest.left = head.left - n /\ rest.pad = head.pad
        <5>1. n \in Nat /\ n <= Amount(head) /\ n <= head.left
          BY <2>3, <3>5, <3>8, <3>14 DEF ReadOf
        <5> QED
          BY <3>3, <3>5, <3>14, <5>1, RestAfterIs
      <4> HIDE DEF rest
      <4>3. n = ChunkSize /\ n < head.left
        BY <3>8, <3>14
      <4>4. PieceOf(rest, a, sent)
        BY <1>3, <3>5, <4>2, <4>3 DEF PieceOf, size
      <4>5. QueueIs(transfers', a - 1, sent, 1) /\ transfers' # <<>> /\ Head(transfers') = rest
        BY <2>2, <3>1, <3>2, <4>1, <4>2, <4>4, HeadCut
      <4>6. rest.at = (stray' + 1) * ChunkSize
        <5>1. ((stray + 1) + 1) * ChunkSize = ((stray + 1) * ChunkSize) + ChunkSize
          BY <1>3, <3>6
        <5> QED
          BY <3>4, <3>10, <4>2, <4>3, <5>1
      <4>7. Amount(bounce') = 0
        BY <3>10, NothingKept
      <4>8. UnreadTailLeft'
        BY <1>1, <3>1, <3>4, <3>10, <4>5, <4>6, <4>7 DEF UnreadTailLeft, Amount, a, size
      <4> QED
        BY <1>4, <1>5, <3>9, <3>11, <3>12, <4>8 DEF UsbQueue
    <3> QED
      BY <3>13, <3>14
  <2>5. CASE NewMessagesLeft
    <3> DEFINE size == m.size
    <3>1. QueueIs(transfers, a, sent, 0)
      BY <1>1, <2>5 DEF NewMessagesLeft
    <3>2. /\ head \in Pieces /\ PieceOf(head, a + 1, sent) /\ head.at = 0
          /\ m \in Messages /\ size \in Nat \ {0} /\ a + 1 \in 1..Len(sent)
      BY <2>2, <3>1, HeadIs
    <3>3. m.kind \in Kinds(dialect)
      BY <3>2 DEF KindsKnown
    <3> HIDE DEF head, m, a
    <3> HIDE DEF size
    <3>4. head.msg = a + 1 /\ head.left = size /\ (head.pad = 0 \/ head.pad = RoundUp(size) - size)
      BY <3>2 DEF PieceOf, Pieces, size, m
    <3>5. /\ Marked(read.piece) /\ read.piece.msg = a + 1 /\ Amount(read.piece) = n
          /\ read.bounce = Nothing
          /\ size <= ChunkSize => n = Amount(head) /\ size <= n
          /\ size > ChunkSize => n = ChunkSize /\ n # Amount(head)
      BY <2>3, <3>2, <3>4, FirstRead
    <3>6. n \in Nat /\ n <= Amount(head)
      BY <2>3 DEF ReadOf
    <3>7. bounce' = Nothing /\ transfers' = read.transfers /\ Amount(bounce') = 0
      BY <1>2, <3>5, NothingKept
    <3>8. BounceIsPadding'
      BY <3>7, NothingKept DEF BounceIsPadding
    <3>9. \/ ~TailWanted(dialect, m) /\ Answer(a + 1, Due(dialect, m))
          \/ TailWanted(dialect, m) /\ \E begun, room \in Nat : Awaits(a + 1, m, begun, room)
      <4>1. PICK piece : piece = read.piece
        OBVIOUS
      <4>2. PICK first : first = a + 1
        OBVIOUS
      <4>3. /\ Marked(piece) /\ first = piece.msg /\ n \in Nat /\ n = Amount(piece)
            /\ m \in Messages /\ m = sent[first] /\ m.kind \in Kinds(dialect)
        BY <3>2, <3>3, <3>5, <3>6, <4>1, <4>2 DEF m
      <4>4. (m.size <= ChunkSize => m.size <= n) /\ (m.size > ChunkSize => n = ChunkSize)
        BY <3>5 DEF size
      <4>5. WholeChunks(message_buffer_size)
        BY DEF UsbNumbers
      <4>6. (dialect = "V1" /\ RunV1(piece)) \/ (dialect = "V2" /\ RunV2(piece))
        BY <1>2, <4>1
      <4>7. \/ ~TailWanted(dialect, m) /\ Answer(first, Due(dialect, m))
            \/ TailWanted(dialect, m) /\ \E begun, room \in Nat : Awaits(first, m, begun, room)
        BY <4>3, <4>4, <4>5, <4>6, RunOutcome
      <4> QED
        BY <4>2, <4>7
    <3> DEFINE rest == RestAfter(head, n)
    <3>10. size > ChunkSize =>
             /\ rest \in Pieces /\ rest.at = ChunkSize /\ rest.left = size - ChunkSize
             /\ QueueIs(transfers', a, sent, 1) /\ transfers' # <<>> /\ Head(transfers') = rest
      <4> SUFFICES ASSUME size > ChunkSize
                   PROVE  /\ rest \in Pieces /\ rest.at = ChunkSize /\ rest.left = size - ChunkSize
                          /\ QueueIs(transfers', a, sent, 1) /\ transfers' # <<>> /\ Head(transfers') = rest
        OBVIOUS
      <4>1. n = ChunkSize /\ n # Amount(head)
        BY <3>5
      <4>2. transfers' = <<rest>> \o Tail(transfers)
        BY <2>3, <3>7, <4>1 DEF ReadOf, head
      <4>3. rest \in Pieces /\ rest.msg = a + 1 /\ rest.at = ChunkSize /\ rest.left = size - ChunkSize /\ rest.pad = head.pad
        <5>1. n <= Amount(head) /\ n <= head.left
          BY <1>3, <3>2, <3>4, <3>6, <4>1
        <5> QED
          BY <1>3, <3>2, <3>4, <3>6, <4>1, <5>1, RestAfterIs
      <4> HIDE DEF rest
      <4>4. PieceOf(rest, a + 1, sent)
        BY <1>3, <3>2, <3>4, <4>3 DEF PieceOf, size, m
      <4> QED
        BY <2>2, <3>1, <4>2, <4>3, <4>4, HeadCut
    <3> HIDE DEF rest
    <3>11. CASE ~TailWanted(dialect, m) /\ Answer(a + 1, Due(dialect, m))
      <4>1. /\ answered' = Append(answered, Returned(dialect, sent, a + 1)) /\ stray' = 0
            /\ reading_of' = 0 /\ received' = 0 /\ required' = 0 /\ capacity' = 0 /\ whole' = whole
            /\ message_buffer_size' = message_buffer_size
        BY <1>1, <3>11 DEF Answer, tailVars, Returned, m
      <4>2. /\ InSync(answered, dialect, sent)' /\ answered' # <<>> /\ Len(answered') = a + 1
        BY <1>1, <4>1, AnsweredInSync DEF a
      <4>3. UsbNumbers'
        BY <1>1, <4>1 DEF UsbNumbers, WholeChunks
      <4>4. TailAwaited' /\ StraysBounded'
        BY <4>1 DEF TailAwaited, StraysBounded
      <4>5. UsbQueue'
        <5>1. CASE size <= ChunkSize
          <6>1. transfers' = Tail(transfers)
            BY <2>3, <3>5, <3>7, <5>1 DEF ReadOf, head
          <6>2. QueueIs(Tail(transfers), a + 1, sent, 0)
            BY <2>2, <3>1, HeadTaken
          <6> QED
            BY <1>1, <4>1, <4>2, <6>1, <6>2 DEF UsbQueue, NewMessagesLeft
        <5>2. CASE size > ChunkSize
          <6>1. Len(answered') - 1 = a /\ (stray' + 1) * ChunkSize = ChunkSize
            BY <1>3, <2>1, <4>1, <4>2 DEF a
          <6>2. StrayReads(dialect, m) = Packets(m.size) - 1
            BY <3>11, <5>2 DEF TailWanted, StrayReads, size
          <6>3. m = sent'[Len(answered')]
            BY <1>1, <4>2 DEF m
          <6> QED
            BY <1>1, <3>7, <3>10, <4>1, <4>2, <5>2, <6>1, <6>2, <6>3 DEF UsbQueue, UnreadTailLeft, Amount
        <5> QED
          BY <1>3, <3>2, <5>1, <5>2
      <4> QED
        BY <1>4, <3>8, <4>2, <4>3, <4>4, <4>5
    <3>12. CASE TailWanted(dialect, m) /\ \E begun, room \in Nat : Awaits(a + 1, m, begun, room)
      <4>1. PICK begun, room \in Nat :
                     /\ AwaitTail(a + 1, begun, begun + (m.size - ChunkSize), room, TRUE)
                     /\ begun = IF m.kind = "app" THEN 0 ELSE ChunkSize
                     /\ begun + (m.size - ChunkSize) <= room
                     /\ IF dialect = "V1" THEN room = begun + (m.size - ChunkSize) ELSE WholeChunks(room)
                     /\ WholeChunks(message_buffer_size)'
        BY <3>12 DEF Awaits
      <4>2. /\ reading_of' = a + 1 /\ received' = begun /\ required' = begun + (size - ChunkSize)
            /\ capacity' = room /\ whole' = TRUE /\ answered' = answered /\ stray' = stray
        BY <4>1 DEF AwaitTail, size
      <4>3. size > ChunkSize /\ size - ChunkSize \in Nat /\ required' \in Nat /\ a + 1 # 0 /\ a + 1 \in Nat
        <5>1. size > ChunkSize
          BY <3>12 DEF TailWanted, size
        <5> QED
          BY <1>3, <2>1, <3>2, <4>2, <5>1
      <4>4. UsbNumbers'
        BY <1>1, <4>1, <4>2, <4>3 DEF UsbNumbers, WholeChunks
      <4>5. UsbQueue' /\ InSync(answered, dialect, sent)'
        <5>1. QueueIs(transfers', a, sent, a + 1)
          <6>1. \A t, r : r # 0 /\ QueueIs(t, a, sent, 1) => QueueIs(t, a, sent, r)
            BY DEF QueueIs
          <6> QED
            BY <3>10, <4>3, <6>1
        <5> QED
          BY <1>1, <4>2, <5>1 DEF UsbQueue, NewMessagesLeft, InSync, a
      <4>6. TailAwaited'
        <5>1. BufferBegins' = (IF m.kind = "app" THEN ChunkSize ELSE 0)
          BY <1>1, <4>2 DEF BufferBegins, m
        <5>2. begun + BufferBegins' = ChunkSize /\ WholeChunks(begun)
          BY <1>3, <4>1, <5>1, NoneAndOne
        <5>3. /\ transfers' # <<>> /\ Head(transfers').at = received' + BufferBegins'
              /\ required' = received' + Head(transfers').left
          BY <3>10, <4>2, <4>3, <5>2
        <5>4. reading_of' # 0 /\ reading_of' = Len(answered') + 1
          BY <4>2, <4>3 DEF a
        <5>5. TailWanted(dialect', sent'[reading_of'])
          BY <1>1, <3>12, <4>2 DEF m
        <5>6. required' <= capacity' /\ (IF dialect' = "V1" THEN capacity' = required' ELSE WholeChunks(capacity'))
          BY <1>1, <4>1, <4>2 DEF size
        <5> QED
          BY <3>7, <4>2, <5>2, <5>3, <5>4, <5>5, <5>6, Zenon DEF TailAwaited, WholeChunks, Amount
      <4>7. StraysBounded'
        BY <1>1, <4>2 DEF StraysBounded, StrayLeft
      <4> QED
        BY <1>4, <3>8, <4>4, <4>5, <4>6, <4>7
    <3> QED
      BY <3>9, <3>11, <3>12
  <2> QED
    BY <2>4, <2>5 DEF UsbQueue
<1> QED
  BY <1>6, <1>7

(* A read of the rest: part of it in whole packets, or all there is, of    *)
(* which only padding can be too much.                                     *)
LEMMA TailRead ==
    ASSUME NEW head \in Pieces, NEW size \in Nat \ {0}, head.at + head.left = size, head.left > 0,
           head.pad = 0 \/ head.pad = RoundUp(size) - size, WholeChunks(head.at),
           NEW len \in Nat, len = head.left \/ (WholeChunks(len) /\ len >= head.left),
           NEW read, NEW n, NEW c, ReadOf(read, head, len, n, c)
    PROVE  /\ read.piece.msg = head.msg /\ read.piece.at = head.at /\ Amount(read.piece) = c
           /\ c \in Nat
           /\ \/ /\ c >= head.left /\ n = Amount(head)
                 /\ read.bounce \in Pieces /\ read.bounce.left = 0 /\ read.bounce.pad < ChunkSize
                 /\ WholeChunks(len) => read.bounce.pad = 0
                 /\ read.bounce.pad > 0 => size % ChunkSize # 0
              \/ /\ c < head.left /\ c = n /\ n # Amount(head) /\ WholeChunks(n)
                 /\ read.bounce = Nothing
<1>1. /\ n \in Nat /\ 1 <= n /\ n <= RoundUp(len) /\ n <= Amount(head)
      /\ WholeChunks(n) \/ n = Amount(head)
      /\ c = (IF n <= len THEN n ELSE len)
      /\ read.piece = FirstBytes(head, c) /\ read.bounce = RestAfter(FirstBytes(head, n), c)
  BY DEF ReadOf
<1>2. /\ head.at \in Nat /\ head.left \in Nat /\ head.pad \in Nat
      /\ ChunkSize \in Nat \ {0} /\ Amount(head) \in Nat /\ Amount(head) = head.left + head.pad
  BY ChunkAssumption DEF Pieces, Amount
<1>3. c \in Nat /\ c <= n /\ c <= len /\ c <= Amount(head) /\ len >= head.left
  BY <1>1, <1>2
<1>4. /\ FirstBytes(head, c).msg = head.msg /\ FirstBytes(head, c).at = head.at /\ Amount(FirstBytes(head, c)) = c
  BY <1>3, FirstBytesAre
<1>5. /\ FirstBytes(head, n) \in Pieces /\ FirstBytes(head, n).left = (IF n <= head.left THEN n ELSE head.left)
      /\ Amount(FirstBytes(head, n)) = n
  BY <1>1, FirstBytesAre
<1>6. /\ WholeChunks(RoundUp(size)) /\ size <= RoundUp(size) /\ RoundUp(size) < size + ChunkSize
      /\ RoundUp(size) \in Nat /\ (WholeChunks(size) => RoundUp(size) = size)
      /\ \A m : WholeChunks(m) /\ m >= size => m >= RoundUp(size)
  BY RoundedUp DEF WholeChunks
<1>7. CASE n < head.left
  <2>1. c = n /\ n # Amount(head) /\ WholeChunks(n)
    BY <1>1, <1>2, <1>3, <1>7
  <2>2. RestAfter(FirstBytes(head, n), n) = Nothing
    BY <1>1, <1>5, RestAfterIs
  <2> QED
    BY <1>1, <1>3, <1>4, <1>7, <2>1, <2>2
<1>8. CASE ~(n < head.left)
  <2>1. n = Amount(head)
    <3> SUFFICES ASSUME WholeChunks(n) PROVE n >= Amount(head)
      BY <1>1, <1>2
    <3>1. WholeChunks(head.at + n) /\ head.at + n >= size
      BY <1>1, <1>2, <1>8, WholeChunksAdd
    <3>2. head.at + n >= RoundUp(size)
      BY <1>6, <3>1
    <3> QED
      BY <1>1, <1>2, <1>6, <1>8, <3>2
  <2>2. c >= head.left
    BY <1>1, <1>2, <1>3, <1>8
  <2>3. /\ RestAfter(FirstBytes(head, n), c) \in Pieces /\ RestAfter(FirstBytes(head, n), c).left = 0
        /\ Amount(RestAfter(FirstBytes(head, n), c)) = n - c
    BY <1>1, <1>2, <1>3, <1>5, <1>8, <2>2, RestAfterIs
  <2>4. PICK rest : rest = RestAfter(FirstBytes(head, n), c)
    OBVIOUS
  <2>5. rest \in Pieces /\ rest.left = 0 /\ rest.pad = n - c /\ read.bounce = rest
    BY <1>1, <1>3, <2>3, <2>4 DEF Amount, Pieces
  <2>6. rest.pad <= head.pad /\ rest.pad \in Nat
    BY <1>1, <1>2, <1>3, <2>1, <2>2, <2>5
  <2>7. rest.pad < ChunkSize
    BY <1>2, <1>6, <2>6
  <2>8. WholeChunks(len) => rest.pad = 0
    <3> SUFFICES ASSUME WholeChunks(len) PROVE n <= len
      BY <1>1, <1>3, <2>5
    <3>1. RoundUp(len) = len
      BY RoundedUp
    <3> QED
      BY <1>1, <3>1
  <2>9. rest.pad > 0 => size % ChunkSize # 0
    <3> SUFFICES ASSUME size % ChunkSize = 0 PROVE ~(rest.pad > 0)
      OBVIOUS
    <3>1. RoundUp(size) = size
      BY <1>6 DEF WholeChunks
    <3> QED
      BY <1>2, <2>6, <3>1
  <2> QED
    BY <1>1, <1>3, <1>4, <2>1, <2>2, <2>5, <2>7, <2>8, <2>9
<1> QED
  BY <1>7, <1>8

LEMMA ReadMessageTailKeeps ==
    ASSUME UsbInv, ReadMessageTail
    PROVE  UsbInv'
<1> USE DEF UsbInv
<1> DEFINE a == Len(answered)
           head == Head(transfers)
           m == sent[a + 1]
           size == m.size
           begins == BufferBegins
           len == capacity - received
<1>1. /\ reading_of # 0 /\ dialect' = dialect /\ sent' = sent /\ usb_sessions' = usb_sessions
      /\ message_buffer_size' = message_buffer_size
  BY DEF ReadMessageTail
<1>2. /\ reading_of = a + 1 /\ transfers # <<>> /\ whole = TRUE /\ Amount(bounce) = 0
      /\ WholeChunks(received) /\ required <= capacity
      /\ head.at = received + begins
      /\ required = received + head.left
      /\ IF dialect = "V1" THEN capacity = required ELSE WholeChunks(capacity)
  BY <1>1 DEF TailAwaited
<1>3. TailWanted(dialect, m) /\ begins = (IF m.kind = "app" THEN ChunkSize ELSE 0)
  BY <1>1, <1>2 DEF TailAwaited, BufferBegins
<1>4. PICK read \in Reads(capacity - received) :
         LET piece == read.piece
             got == received + Amount(piece)
             follows == whole /\ piece.msg = reading_of /\ piece.at = received + BufferBegins
         IN  /\ bounce' = read.bounce /\ transfers' = read.transfers
             /\ IF got >= required
                THEN /\ answered' = Append(answered,
                          [msg |-> reading_of,
                           given |-> IF follows THEN Fitting(reading_of) ELSE "mixed"])
                     /\ stray' = 0
                     /\ reading_of' = 0 /\ received' = 0 /\ required' = 0 /\ capacity' = 0
                     /\ whole' = TRUE
                ELSE /\ received' = got /\ whole' = follows
                     /\ UNCHANGED <<reading_of, required, capacity, answered, stray>>
  BY Zenon DEF ReadMessageTail
<1>5. NewMessagesLeft
  BY <1>1 DEF UsbQueue, UnreadTailLeft
<1>6. /\ head \in Pieces /\ PieceOf(head, a + 1, sent)
      /\ size \in Nat \ {0} /\ a + 1 \in 1..Len(sent) /\ a \in Nat /\ transfers \in Seq(Pieces) /\ bounce \in Pieces
  <2>1. QueueIs(transfers, a, sent, reading_of)
    BY <1>5 DEF NewMessagesLeft
  <2>2. a \in Nat /\ transfers \in Seq(Pieces)
    BY <2>1 DEF QueueIs
  <2>3. bounce \in Pieces
    BY DEF BounceIsPadding
  <2> HIDE DEF a
  <2>4. /\ head \in Pieces /\ PieceOf(head, a + 1, sent)
        /\ size \in Nat \ {0} /\ a + 1 \in 1..Len(sent)
    BY <1>2, <2>1, HeadIs
  <2> QED
    BY <2>2, <2>3, <2>4
<1>7. /\ ChunkSize \in Nat \ {0} /\ received \in Nat /\ required \in Nat /\ capacity \in Nat
      /\ begins \in {0, ChunkSize}
  BY <1>3, ChunkAssumption DEF UsbNumbers
<1>8. KindsKnown'
  BY <1>1 DEF KindsKnown
<1> HIDE DEF a
<1> HIDE DEF head
<1> HIDE DEF size, begins
<1>9. /\ head.msg = a + 1 /\ head.at + head.left = size /\ head.left > 0 /\ head.left \in Nat /\ head.at \in Nat
      /\ head.pad = 0 \/ head.pad = RoundUp(size) - size
  BY <1>6 DEF PieceOf, Pieces, size
<1>10. len \in Nat \ {0} /\ len >= head.left
  BY <1>2, <1>7, <1>9
<1>11. IF dialect = "V1" THEN len = head.left ELSE WholeChunks(len)
  <2>1. CASE dialect = "V1"
    BY <1>2, <1>7, <1>9, <2>1
  <2>2. CASE dialect # "V1"
    <3>1. WholeChunks(capacity) /\ WholeChunks(received) /\ capacity >= received
      BY <1>2, <1>7, <1>9, <2>2
    <3> QED
      BY <2>2, <3>1, WholeChunksAdd
  <2> QED
    BY <2>1, <2>2
<1>12. WholeChunks(head.at)
  <2>1. WholeChunks(begins)
    BY <1>7, NoneAndOne
  <2> QED
    BY <1>2, <2>1, WholeChunksAdd
<1>13. PICK n, c : ReadOf(read, head, len, n, c)
  BY <1>2, <1>6, <1>10, ReadsOfTransfer DEF head
<1> HIDE DEF len
<1>14. /\ read.piece.msg = a + 1 /\ read.piece.at = head.at /\ Amount(read.piece) = c /\ c \in Nat
       /\ \/ /\ c >= head.left /\ n = Amount(head)
             /\ read.bounce \in Pieces /\ read.bounce.left = 0 /\ read.bounce.pad < ChunkSize
             /\ WholeChunks(len) => read.bounce.pad = 0
             /\ read.bounce.pad > 0 => size % ChunkSize # 0
          \/ /\ c < head.left /\ c = n /\ n # Amount(head) /\ WholeChunks(n)
             /\ read.bounce = Nothing
  <2>1. len \in Nat /\ (len = head.left \/ (WholeChunks(len) /\ len >= head.left))
    BY <1>10, <1>11
  <2> QED
    BY <1>6, <1>9, <1>12, <1>13, <2>1, TailRead
<1>15. (whole /\ read.piece.msg = reading_of /\ read.piece.at = received + BufferBegins) = TRUE
  BY <1>2, <1>14 DEF begins
<1>16. Fitting(a + 1) = Due(dialect, m)
  BY <1>3 DEF Fitting, Due, TailWanted
<1>17. /\ bounce' = read.bounce /\ transfers' = read.transfers
       /\ IF received + c >= required
          THEN /\ answered' = Append(answered, [msg |-> a + 1, given |-> Fitting(a + 1)])
               /\ stray' = 0
               /\ reading_of' = 0 /\ received' = 0 /\ required' = 0 /\ capacity' = 0
               /\ whole' = TRUE
          ELSE /\ received' = received + c /\ whole' = TRUE
               /\ UNCHANGED <<reading_of, required, capacity, answered, stray>>
  BY <1>2, <1>4, <1>14, <1>15, Zenon
<1>18. CASE c >= head.left
  <2>1. received + c >= required /\ ~(c < head.left)
    BY <1>2, <1>7, <1>9, <1>14, <1>18
  <2>2. /\ answered' = Append(answered, Returned(dialect, sent, a + 1)) /\ stray' = 0
        /\ reading_of' = 0 /\ received' = 0 /\ required' = 0 /\ capacity' = 0 /\ whole' = TRUE
    <3>1. Returned(dialect, sent, a + 1) = [msg |-> a + 1, given |-> Fitting(a + 1)]
      BY <1>16 DEF Returned
    <3> QED
      BY <1>17, <2>1, <3>1, Zenon
  <2>3. /\ n = Amount(head)
        /\ bounce' \in Pieces /\ bounce'.left = 0 /\ bounce'.pad < ChunkSize
        /\ WholeChunks(len) => bounce'.pad = 0
        /\ bounce'.pad > 0 => size % ChunkSize # 0
    BY <1>14, <1>17, <2>1
  <2>4. transfers' = Tail(transfers)
    BY <1>13, <1>17, <2>3 DEF ReadOf, head
  <2>5. InSync(answered, dialect, sent)' /\ answered' # <<>> /\ Len(answered') = a + 1
    BY <1>1, <2>2, AnsweredInSync DEF a
  <2>6. UsbQueue'
    <3>1. QueueIs(Tail(transfers), a + 1, sent, 0)
      BY <1>2, <1>5, HeadTaken DEF NewMessagesLeft, a
    <3> QED
      BY <1>1, <2>2, <2>4, <2>5, <3>1 DEF UsbQueue, NewMessagesLeft
  <2>7. UsbNumbers'
    BY <1>1, <2>2 DEF UsbNumbers, WholeChunks
  <2>8. TailAwaited' /\ StraysBounded'
    BY <2>2 DEF TailAwaited, StraysBounded
  <2>9. bounce'.pad > 0 => StrayLeft(1)'
    <3> SUFFICES ASSUME bounce'.pad > 0 PROVE StrayLeft(1)'
      OBVIOUS
    <3>1. dialect = "V1"
      BY <1>11, <2>3
    <3>2. m.size % ChunkSize # 0
      BY <2>3 DEF size
    <3>3. StrayReads(dialect, m) = 1
      BY <1>3, <3>1, <3>2 DEF StrayReads, TailWanted
    <3>4. sent'[Len(answered')] = m
      BY <1>1, <2>5
    <3> QED
      BY <1>1, <2>5, <3>3, <3>4 DEF StrayLeft
  <2>10. BounceIsPadding'
    BY <2>2, <2>3, <2>9 DEF BounceIsPadding
  <2> QED
    BY <1>8, <2>5, <2>6, <2>7, <2>8, <2>10
<1>19. CASE ~(c >= head.left)
  <2>1. ~(received + c >= required) /\ c < head.left
    BY <1>2, <1>7, <1>9, <1>14, <1>19
  <2>2. /\ received' = received + c /\ whole' = TRUE /\ reading_of' = reading_of /\ required' = required
        /\ capacity' = capacity /\ answered' = answered /\ stray' = stray
    BY <1>17, <2>1, Zenon
  <2>3. c = n /\ n # Amount(head) /\ WholeChunks(n) /\ bounce' = Nothing
    BY <1>14, <1>17, <1>19
  <2> DEFINE rest == RestAfter(head, n)
  <2>4. transfers' = <<rest>> \o Tail(transfers)
    BY <1>13, <1>17, <2>3 DEF ReadOf, head
  <2>5. rest \in Pieces /\ rest.msg = a + 1 /\ rest.at = head.at + n /\ rest.left = head.left - n /\ rest.pad = head.pad
    <3>1. n \in Nat /\ n <= Amount(head) /\ n <= head.left
      BY <1>9, <1>13, <1>14, <2>1, <2>3 DEF ReadOf
    <3> QED
      BY <1>6, <1>9, <2>3, <3>1, RestAfterIs
  <2> HIDE DEF rest
  <2>6. PieceOf(rest, a + 1, sent)
    BY <1>6, <1>9, <1>14, <2>1, <2>3, <2>5 DEF PieceOf, size
  <2>7. QueueIs(transfers', a, sent, reading_of) /\ transfers' # <<>> /\ Head(transfers') = rest
    BY <1>1, <1>2, <1>5, <2>4, <2>5, <2>6, HeadCut DEF NewMessagesLeft, a
  <2>8. UsbQueue' /\ InSync(answered, dialect, sent)'
    BY <1>1, <2>2, <2>7 DEF UsbQueue, NewMessagesLeft, InSync, a
  <2>9. WholeChunks(received') /\ received' \in Nat
    BY <1>2, <1>7, <1>14, <2>2, <2>3, WholeChunksAdd
  <2>10. UsbNumbers'
    BY <1>1, <2>2, <2>9 DEF UsbNumbers, WholeChunks
  <2>11. TailAwaited'
    <3>1. Amount(bounce') = 0
      BY <2>3, NothingKept
    <3>2. BufferBegins' = begins
      BY <1>1, <2>2 DEF begins, BufferBegins
    <3>3. Head(transfers').at = received' + BufferBegins'
      BY <1>1, <1>2, <1>7, <1>14, <2>2, <2>3, <2>5, <2>7, <3>2
    <3>4. required' = received' + Head(transfers').left
      BY <1>2, <1>7, <1>9, <1>14, <2>2, <2>3, <2>5, <2>7
    <3>5. IF dialect' = "V1" THEN capacity' = required' ELSE WholeChunks(capacity')
      BY <1>1, <1>2, <2>2
    <3>6. reading_of' = Len(answered') + 1 /\ reading_of' # 0 /\ required' <= capacity'
      BY <1>1, <1>2, <2>2 DEF a
    <3>7. TailWanted(dialect', sent'[reading_of'])
      BY <1>1, <1>2, <1>3, <2>2
    <3> QED
      BY <2>2, <2>7, <2>9, <3>1, <3>3, <3>4, <3>5, <3>6, <3>7, Zenon DEF TailAwaited, WholeChunks, Amount
  <2>12. BounceIsPadding'
    BY <2>3, NothingKept DEF BounceIsPadding
  <2>13. StraysBounded'
    BY <1>1, <2>2 DEF StraysBounded, StrayLeft
  <2> QED
    BY <1>8, <2>8, <2>10, <2>11, <2>12, <2>13
<1> QED
  BY <1>18, <1>19

LEMMA UsbStutterKeeps ==
    ASSUME UsbInv, UNCHANGED usbVars
    PROVE  UsbInv'
BY DEF UsbInv, UsbNumbers, KindsKnown, UsbQueue, NewMessagesLeft, UnreadTailLeft, InSync, TailAwaited,
       BufferBegins, BounceIsPadding, StraysBounded, StrayLeft, Amount, WholeChunks, usbVars, tailVars

LEMMA UsbStep == UsbInv /\ [UsbNext]_usbVars => UsbInv'
BY UsbSessionKeeps, HeadUnitSendsKeeps, RunReadsKeeps, ReadMessageTailKeeps, UsbStutterKeeps DEF UsbNext

(* The bounce buffer never holds a packet, and of a message no more is     *)
(* awaited than its buffer has room for.                                   *)
THEOREM UsbTypeCorrect == UsbSpec => []UsbTypeOK
<1>1. UsbInv => UsbTypeOK
  BY UsbInvImplies
<1> QED
  BY <1>1, UsbInitially, UsbStep, PTL DEF UsbSpec

(* run_session and the readers of both protocols: however the driver cuts  *)
(* the transfers, padded or not, run comes to every message once and in    *)
(* order, and has of it what its kind is due: all of it where the tail is  *)
(* read, the first chunk of one nobody reads on, nothing of one it         *)
(* refuses.  Reads that begin with no mark are at most the packets of the  *)
(* unread tail before, or V1's one of padding.                             *)
THEOREM MessagesRead == UsbSpec => []UsbInSync
<1>1. UsbInv => UsbInSync
  BY UsbInvImplies
<1> QED
  BY <1>1, UsbInitially, UsbStep, PTL DEF UsbSpec

-----------------------------------------------------------------------------
(* 2. Writing *)

-----------------------------------------------------------------------------
(* Padding: whole chunks stay as they are, and the message a length is     *)
(* declared for has as many bytes as the head unit reads for that length.  *)

LEMMA ChunksOfWhole ==
    ASSUME NEW k \in Nat
    PROVE  InChunks(k * OutChunk) = k * OutChunk
<1>1. OutChunk \in Nat /\ OutChunk > 0
  BY OutAssumption
<1>2. (k * OutChunk + OutChunk - 1) \div OutChunk = k
  BY <1>1
<1> QED
  BY <1>1, <1>2 DEF InChunks

LEMMA ChunksWhole ==
    ASSUME NEW len \in Nat
    PROVE  \E k \in Nat : InChunks(len) = k * OutChunk
<1>1. OutChunk \in Nat /\ OutChunk > 0
  BY OutAssumption
<1>2. (len + OutChunk - 1) \div OutChunk \in Nat
  BY <1>1
<1> QED
  BY <1>2 DEF InChunks

(* A message of which the head unit reads exactly what is written *)
Exact(message) ==
    /\ message \in [len : Nat, bytes : Nat]
    /\ message.bytes = InChunks(message.len)

LEMMA NoMessageExact == Exact(NoMessage)
<1>1. OutChunk \in Nat /\ OutChunk > 0
  BY OutAssumption
<1>2. 0 * OutChunk = 0
  BY <1>1
<1>3. InChunks(0 * OutChunk) = 0 * OutChunk
  BY ChunksOfWhole
<1> QED
  BY <1>2, <1>3 DEF Exact, NoMessage

LEMMA PaddedExact ==
    ASSUME NEW len \in Nat
    PROVE  Exact(WithPadding(len))
<1>1. PICK k \in Nat : InChunks(len) = k * OutChunk
  BY ChunksWhole
<1>2. k * OutChunk \in Nat
  BY OutAssumption
<1> QED
  BY <1>1, <1>2 DEF Exact, WithPadding

LEMMA HeaderAndChunksExact ==
    ASSUME NEW len \in Nat
    PROVE  Exact([len |-> OutChunk + InChunks(len), bytes |-> OutChunk + InChunks(len)])
<1>1. PICK k \in Nat : InChunks(len) = k * OutChunk
  BY ChunksWhole
<1>2. OutChunk \in Nat
  BY OutAssumption
<1>3. OutChunk + InChunks(len) = (k + 1) * OutChunk /\ (k + 1) * OutChunk \in Nat
  BY <1>1, <1>2
<1>4. InChunks((k + 1) * OutChunk) = (k + 1) * OutChunk
  BY ChunksOfWhole
<1> QED
  BY <1>3, <1>4 DEF Exact

(* Whatever a thread has to write, in either protocol, is exact. *)
LEMMA MessagesExact ==
    ASSUME NEW t \in WriterThreads, NEW message \in MessagesOf(t)
    PROVE  Exact(message)
<1>1. OutChunk \in Nat /\ OutHeader \in Nat /\ OutLens \subseteq Nat
  BY OutAssumption
<1>2. Exact(OneChunk)
  <2>1. 1 * OutChunk = OutChunk
    BY <1>1
  <2>2. InChunks(1 * OutChunk) = 1 * OutChunk
    BY ChunksOfWhole
  <2> QED
    BY <1>1, <2>1, <2>2 DEF Exact, OneChunk
<1>3. ASSUME NEW len \in OutLens
      PROVE  /\ Exact(FrameV1(len)) /\ Exact(FrameV2(len))
             /\ Exact(SendAppMsgV1(len)) /\ Exact(WithPadding(len))
  <2>1. len \in Nat /\ OutHeader + len \in Nat
    BY <1>1
  <2> QED
    BY <2>1, PaddedExact, HeaderAndChunksExact DEF FrameV1, FrameV2, SendAppMsgV1
<1>4. CASE t = "watchdog"
  BY <1>2, <1>4 DEF MessagesOf
<1>5. CASE t = "video"
  BY <1>3, <1>5 DEF MessagesOf
<1>6. CASE t = "session"
  BY <1>2, <1>3, <1>6 DEF MessagesOf
<1> QED
  BY <1>4, <1>5, <1>6 DEF WriterThreads

-----------------------------------------------------------------------------
(* The inductive invariant *)

Typed ==
    /\ {open, online, running, stopping, link_failed, garbled} \subseteq BOOLEAN
    /\ DOMAIN writing = WriterThreads /\ \A t \in WriterThreads : Exact(writing[t])
    /\ write_mutex \in WriterThreads \cup {NobodyWrites}
    /\ written \in Nat /\ incoming.left \in Nat
    /\ DOMAIN incoming = {"from", "left"}

(* Without a session there is no head unit. *)
OnlineInSession == ~open => ~online /\ ~garbled

(* The thread that holds write_mutex is in the middle of its message, and  *)
(* the head unit waits for as much of it as is not written.                *)
MutexHeld ==
    /\ write_mutex # NobodyWrites => writing[write_mutex] # NoMessage
    /\ written > 0 => /\ write_mutex # NobodyWrites
                      /\ written < writing[write_mutex].bytes
                      /\ online => /\ incoming.from = write_mutex
                                   /\ incoming.left = writing[write_mutex].bytes - written

(* A message that is not finished on a link that works: someone is writing *)
(* it, or its writer was signalled as the session stops, and then nobody   *)
(* gets the mutex any more.                                                *)
UnfinishedIsLast ==
    online /\ incoming.left > 0 /\ ~link_failed =>
      \/ write_mutex = incoming.from /\ written > 0
      \/ write_mutex = NobodyWrites /\ stopping

GarbledAfterFailure == garbled => link_failed

WriteInv ==
    Typed /\ OnlineInSession /\ MutexHeld /\ UnfinishedIsLast /\ GarbledAfterFailure

LEMMA InitEstablishes == WriteInit => WriteInv
<1> SUFFICES ASSUME WriteInit PROVE WriteInv
  OBVIOUS
<1>1. Typed
  <2>1. \A t \in WriterThreads : Exact(writing[t])
    BY NoMessageExact DEF WriteInit
  <2> QED
    BY <2>1 DEF WriteInit, Typed, NoneIncoming
<1> QED
  BY <1>1 DEF WriteInit, WriteInv, OnlineInSession, MutexHeld, UnfinishedIsLast,
              GarbledAfterFailure

(* A message is begun, and nobody has locked for it yet. *)
LEMMA BeginKeeps ==
    ASSUME WriteInv, NEW t \in WriterThreads, HasMessage(t)
    PROVE  WriteInv'
<1>1. PICK message \in MessagesOf(t) : writing' = [writing EXCEPT ![t] = message]
  BY DEF HasMessage
<1>2. Exact(message)
  BY MessagesExact
<1>3. Typed'
  BY <1>1, <1>2 DEF HasMessage, linkVars, WriteInv, Typed, Exact
<1>4. write_mutex # t
  BY DEF HasMessage, WriteInv, MutexHeld, WriterThreads, NobodyWrites
<1>5. MutexHeld'
  BY <1>1, <1>4 DEF HasMessage, linkVars, WriteInv, MutexHeld, Typed
<1> QED
  BY <1>3, <1>5 DEF HasMessage, linkVars, WriteInv, OnlineInSession, UnfinishedIsLast,
                    GarbledAfterFailure

(* Who returns has no message any more. *)
LEMMA ReturnsTyped ==
    ASSUME Typed, NEW t \in WriterThreads, Returns(t)
    PROVE  /\ DOMAIN writing' = WriterThreads
           /\ \A u \in WriterThreads : Exact(writing'[u])
           /\ written' = 0
BY NoMessageExact DEF Typed, Returns

LEMMA LockKeeps ==
    ASSUME WriteInv, NEW t \in WriterThreads, LocksToWrite(t)
    PROVE  WriteInv'
<1>1. written = 0 /\ write_mutex = NobodyWrites
  BY DEF LocksToWrite, WriteInv, Typed, MutexHeld
<1>2. CASE MayWrite
  BY <1>1, <1>2 DEF LocksToWrite, MayWrite, linkVars, WriteInv, Typed, OnlineInSession,
                    MutexHeld, UnfinishedIsLast, GarbledAfterFailure
<1>3. CASE ~MayWrite
  <2>1. Typed'
    BY <1>3, ReturnsTyped DEF LocksToWrite, linkVars, WriteInv, Typed
  <2> QED
    BY <1>1, <1>3, <2>1 DEF LocksToWrite, Returns, linkVars, WriteInv, OnlineInSession,
                            MutexHeld, UnfinishedIsLast, GarbledAfterFailure
<1> QED
  BY <1>2, <1>3

(* A piece goes to the head unit.  If it is the first one then nothing was *)
(* left of another message, unless the link has failed; if not, it is what *)
(* the head unit waits for.                                                *)
LEMMA PieceKeeps ==
    ASSUME WriteInv, NEW t \in WriterThreads, NEW n \in Nat \ {0}, WritesPiece(t, n)
    PROVE  WriteInv'
<1> DEFINE all == writing[t].bytes
<1>1. /\ n \in Nat /\ n > 0 /\ all \in Nat /\ written \in Nat /\ written + n <= all
      /\ InChunks(writing[t].len) = all
  BY DEF WritesPiece, WriteInv, Typed, Exact
<1>2. online /\ write_mutex = t /\ t # NobodyWrites
  BY DEF WritesPiece, WriterThreads, NobodyWrites
<1>3. garbled' => link_failed'
  <2>1. CASE written = 0
    <3>1. garbled' = (garbled \/ incoming.left > 0)
      BY <2>1 DEF WritesPiece, HeadUnitGets
    <3>2. incoming.left > 0 => link_failed
      BY <1>2, <2>1 DEF WriteInv, UnfinishedIsLast
    <3> QED
      BY <3>1, <3>2 DEF WritesPiece, linkVars, WriteInv, GarbledAfterFailure
  <2>2. CASE written > 0
    <3>1. incoming.from = t /\ incoming.left = all - written
      BY <1>2, <2>2 DEF WriteInv, MutexHeld
    <3>2. ~(incoming.left < n)
      BY <1>1, <3>1
    <3>3. garbled' = (garbled \/ incoming.from # t \/ incoming.left < n)
      BY <2>2 DEF WritesPiece, HeadUnitGets
    <3> QED
      BY <3>1, <3>2, <3>3 DEF WritesPiece, linkVars, WriteInv, GarbledAfterFailure
  <2> QED
    BY <1>1, <2>1, <2>2
<1>4. /\ incoming'.from = t /\ incoming'.left = all - (written + n)
      /\ DOMAIN incoming' = {"from", "left"}
  <2>1. CASE written = 0
    BY <1>1, <2>1 DEF WritesPiece, HeadUnitGets
  <2>2. CASE written > 0
    <3>1. /\ incoming.from = t /\ incoming.left = all - written
          /\ DOMAIN incoming = {"from", "left"}
      BY <1>2, <2>2 DEF WriteInv, MutexHeld, Typed
    <3>2. incoming' = [incoming EXCEPT !.left = IF @ > n THEN @ - n ELSE 0]
      BY <2>2 DEF WritesPiece, HeadUnitGets
    <3>3. incoming'.left = IF incoming.left > n THEN incoming.left - n ELSE 0
      BY <3>1, <3>2
    <3> QED
      BY <1>1, <3>1, <3>2, <3>3
  <2> QED
    BY <1>1, <2>1, <2>2
<1>5. garbled' \in BOOLEAN
  BY DEF WritesPiece, HeadUnitGets, WriteInv, Typed
<1>6. CASE written + n < all
  <2>1. written' = written + n /\ UNCHANGED <<writing, write_mutex, linkVars>>
    BY <1>6 DEF WritesPiece
  <2>2. Typed'
    BY <1>1, <1>4, <1>5, <2>1 DEF linkVars, WriteInv, Typed
  <2>3. MutexHeld'
    BY <1>1, <1>2, <1>4, <1>6, <2>1 DEF linkVars, WriteInv, MutexHeld
  <2> QED
    BY <1>1, <1>2, <1>3, <1>4, <2>1, <2>2, <2>3
       DEF linkVars, WriteInv, OnlineInSession, UnfinishedIsLast, GarbledAfterFailure
<1>7. CASE ~(written + n < all)
  <2>1. Returns(t) /\ write_mutex' = NobodyWrites /\ UNCHANGED linkVars
    BY <1>7 DEF WritesPiece
  <2>2. incoming'.left = 0
    BY <1>1, <1>4, <1>7
  <2>3. Typed'
    BY <1>4, <1>5, <2>1, <2>2, ReturnsTyped DEF linkVars, WriteInv, Typed
  <2> QED
    BY <1>2, <1>3, <2>1, <2>2, <2>3
       DEF Returns, linkVars, WriteInv, OnlineInSession, MutexHeld, UnfinishedIsLast,
           GarbledAfterFailure
<1> QED
  BY <1>6, <1>7

(* A write fails in the middle of a message only as the link fails, the    *)
(* head unit has left, or the session stops.                               *)
LEMMA FailureKeeps ==
    ASSUME WriteInv, NEW t \in WriterThreads, WritePieceFails(t)
    PROVE  WriteInv'
<1>1. PICK error \in {"ENODEV", "EIO", "EINTR"} :
        /\ error = "ENODEV" => ~online
        /\ error = "EIO" => online
        /\ error = "EINTR" => stopping
        /\ link_failed' = (link_failed \/ IsLinkError(error))
  BY DEF WritePieceFails
<1>2. IsLinkError(error) \in BOOLEAN /\ IsLinkError("EIO")
  BY DEF IsLinkError, WriteInv, Typed
<1>3. (link_failed => link_failed') /\ link_failed' \in BOOLEAN
  BY <1>1, <1>2
<1>4. ~online \/ link_failed' \/ stopping
  BY <1>1, <1>2
<1>5. Typed'
  BY <1>3, ReturnsTyped DEF WritePieceFails, WriteInv, Typed
<1> QED
  BY <1>3, <1>4, <1>5
     DEF WritePieceFails, Returns, WriteInv, OnlineInSession, MutexHeld, UnfinishedIsLast,
         GarbledAfterFailure

(* The steps of the session leave the writers alone. *)
LEMMA SessionKeeps ==
    ASSUME WriteInv,
           \/ SessionOpens \/ ComesOnline \/ GoesOffline
           \/ SessionRuns \/ SessionStops \/ SessionCloses
    PROVE  WriteInv'
<1> USE DEF WriteInv, Typed, OnlineInSession, MutexHeld, UnfinishedIsLast,
            GarbledAfterFailure, writeVars, NoneIncoming
<1>1. CASE SessionOpens
  BY <1>1 DEF SessionOpens
<1>2. CASE ComesOnline
  <2>1. incoming' = NoneIncoming /\ ~garbled' /\ written = 0 /\ open
    BY <1>2 DEF ComesOnline
  <2>2. incoming'.left = 0 /\ DOMAIN incoming' = {"from", "left"}
    BY <2>1
  <2>3. Typed'
    BY <1>2, <2>2 DEF ComesOnline
  <2> QED
    BY <1>2, <2>1, <2>2, <2>3 DEF ComesOnline
<1>3. CASE GoesOffline
  BY <1>3 DEF GoesOffline
<1>4. CASE SessionRuns
  BY <1>4 DEF SessionRuns
<1>5. CASE SessionStops
  BY <1>5 DEF SessionStops
<1>6. CASE SessionCloses
  BY <1>6 DEF SessionCloses
<1> QED
  BY <1>1, <1>2, <1>3, <1>4, <1>5, <1>6

LEMMA StepKeeps == WriteInv /\ [WriteNext]_outVars => WriteInv'
<1> SUFFICES ASSUME WriteInv, [WriteNext]_outVars PROVE WriteInv'
  OBVIOUS
<1>1. CASE UNCHANGED outVars
  BY <1>1 DEF outVars, linkVars, writeVars, WriteInv, Typed, OnlineInSession, MutexHeld,
              UnfinishedIsLast, GarbledAfterFailure
<1>2. ASSUME NEW t \in WriterThreads, NEW n \in 1..writing[t].bytes, WritesPiece(t, n)
      PROVE  WriteInv'
  <2>1. n \in Nat \ {0}
    BY DEF WriteInv, Typed, Exact
  <2> QED
    BY <1>2, <2>1, PieceKeeps
<1>3. CASE WriteNext
  BY <1>2, <1>3, BeginKeeps, LockKeeps, FailureKeeps, SessionKeeps DEF WriteNext
<1> QED
  BY <1>1, <1>3

-----------------------------------------------------------------------------
(* Three threads write to one descriptor through a driver that takes what  *)
(* it likes: the head unit still gets whole messages, one after another,   *)
(* and a message that was cut is the last one unless the link had failed.  *)
THEOREM MessagesStayWhole == WriteSpec => []HeadUnitInSync
<1>1. WriteInit => WriteInv
  BY InitEstablishes
<1>2. WriteInv /\ [WriteNext]_outVars => WriteInv'
  BY StepKeeps
<1>3. WriteInv => HeadUnitInSync
  BY DEF WriteInv, UnfinishedIsLast, GarbledAfterFailure, HeadUnitInSync, Typed
<1> QED
  BY <1>1, <1>2, <1>3, PTL DEF WriteSpec

(* What no writer changes *)
LinkTyped == speaks \in {"V1", "V2"} /\ out_sessions \in 0..MaxOutSessions

LEMMA WriteInvImplies == WriteInv /\ LinkTyped => WriteTypeOK
<1> SUFFICES ASSUME WriteInv, LinkTyped PROVE WriteTypeOK
  OBVIOUS
<1>1. ASSUME NEW t \in WriterThreads  PROVE writing[t].bytes % OutChunk = 0
  <2>1. Exact(writing[t])
    BY DEF WriteInv, Typed
  <2> DEFINE len == writing[t].len
             q == (len + OutChunk - 1) \div OutChunk
  <2>2. len \in Nat /\ writing[t].bytes = q * OutChunk
    BY <2>1 DEF Exact, InChunks
  <2>3. OutChunk \in Nat /\ OutChunk > 0
    BY OutAssumption
  <2>4. q \in Nat
    BY <2>2, <2>3
  <2> HIDE DEF q
  <2>5. \A c, d \in Nat : c > 0 => (d * c) % c = 0
    OBVIOUS
  <2> QED
    BY <2>2, <2>3, <2>4, <2>5
<1> QED
  BY <1>1 DEF WriteInv, Typed, MutexHeld, LinkTyped, WriteTypeOK

LEMMA LinkStaysTyped == LinkTyped /\ [WriteNext]_outVars => LinkTyped'
<1> SUFFICES ASSUME LinkTyped, [WriteNext]_outVars PROVE LinkTyped'
  OBVIOUS
<1> USE DEF LinkTyped
<1>1. CASE UNCHANGED outVars
  BY <1>1 DEF outVars, linkVars
<1>2. ASSUME NEW t \in WriterThreads, NEW n,
             HasMessage(t) \/ LocksToWrite(t) \/ WritesPiece(t, n) \/ WritePieceFails(t)
      PROVE  LinkTyped'
  BY <1>2 DEF HasMessage, LocksToWrite, WritesPiece, WritePieceFails, linkVars
<1>3. CASE SessionOpens \/ ComesOnline \/ GoesOffline \/ SessionRuns \/ SessionStops \/ SessionCloses
  BY <1>3, OutAssumption
     DEF SessionOpens, ComesOnline, GoesOffline, SessionRuns, SessionStops, SessionCloses, linkVars
<1> QED
  BY <1>1, <1>2, <1>3 DEF WriteNext

(* A thread writes whole chunks, as many as its message has, and only who  *)
(* holds write_mutex is in the middle of them.                             *)
THEOREM WriteTypeCorrect == WriteSpec => []WriteTypeOK
<1>1. WriteInit => WriteInv /\ LinkTyped
  BY InitEstablishes, OutAssumption DEF WriteInit, LinkTyped
<1> QED
  BY <1>1, StepKeeps, LinkStaysTyped, WriteInvImplies, PTL DEF WriteSpec

-----------------------------------------------------------------------------
(* 3. The head unit's messages.  Numbers are written in digits and read    *)
(* again by strtoul, strings behind their length; so every field stands    *)
(* where the decoder looks for it, and that is what it decodes.            *)

(* Pow is what its equation says.                                          *)
LEMMA PowDef ==
    /\ Pow \in [Nat -> Nat] /\ Pow[0] = 1
    /\ \A n \in Nat : n # 0 => Pow[n] = Base * Pow[n - 1]
<1> DEFINE step == [p \in Nat \X Nat |-> Base * p[2]]
<1>1. Base \in Nat
  BY DigitsAssumption
<1>2. step \in [Nat \X Nat -> Nat]
  BY <1>1
<1>3. \A n, m \in Nat : step[<<n, m>>] = Base * m
  OBVIOUS
<1> HIDE DEF step
<1>4. PICK g \in [Nat -> Nat] : ChainTable(g, 1, step)
  <2>1. 1 \in Nat /\ \A n, m \in Nat : step[<<n, m>>] \in Nat
    BY <1>1, <1>3
  <2> QED
    BY <2>1, ChainExists, Zenon
<1>5. \A n \in Nat : g[n] = IF n = 0 THEN 1 ELSE Base * g[n - 1]
  <2> TAKE n \in Nat
  <2>1. n # 0 => n - 1 \in Nat /\ g[n - 1] \in Nat
    OBVIOUS
  <2> QED
    BY <1>3, <1>4, <2>1 DEF ChainTable
<1>6. g = [n \in Nat |-> IF n = 0 THEN 1 ELSE Base * g[n - 1]]
  BY <1>5
<1>7. Pow = CHOOSE f : f = [n \in Nat |-> IF n = 0 THEN 1 ELSE Base * f[n - 1]]
  BY Zenon DEF Pow
<1>8. Pow = [n \in Nat |-> IF n = 0 THEN 1 ELSE Base * Pow[n - 1]]
  BY <1>6, <1>7, Zenon
<1>9. \A n \in Nat : Pow[n] = IF n = 0 THEN 1 ELSE Base * Pow[n - 1]
  BY <1>8, Zenon
<1>10. \A n \in Nat : Pow[n] = g[n]
  <2> DEFINE T == {n \in Nat : Pow[n] # g[n]}
  <2> SUFFICES ASSUME T # {} PROVE FALSE
    OBVIOUS
  <2>1. PICK n \in T : \A m \in T : ~(m < n)
    <3> T \in SUBSET Nat
      OBVIOUS
    <3> HIDE DEF T
    <3> QED
      BY Least
  <2>2. n \in Nat /\ n # 0
    BY <1>5, <1>9
  <2>3. n - 1 \in Nat /\ n - 1 \notin T
    BY <2>1, <2>2
  <2> QED
    BY <1>5, <1>9, <2>2, <2>3
<1>11. \A n \in Nat : Pow[n] \in Nat
  BY <1>10
<1>12. Pow \in [Nat -> Nat]
  BY <1>8, <1>11
<1> QED
  BY <1>9, <1>12

(* No power is zero.                                                       *)
LEMMA PowPositive == \A n \in Nat : Pow[n] \in Nat \ {0}
<1> DEFINE T == {n \in Nat : Pow[n] = 0}
<1>1. T = {}
  <2> SUFFICES ASSUME T # {} PROVE FALSE
    OBVIOUS
  <2>1. PICK n \in T : \A m \in T : ~(m < n)
    <3> T \in SUBSET Nat
      OBVIOUS
    <3> HIDE DEF T
    <3> QED
      BY Least
  <2>2. n \in Nat /\ n # 0
    BY PowDef
  <2>3. n - 1 \in Nat /\ n - 1 \notin T
    BY <2>1, <2>2
  <2>4. Pow[n - 1] \in Nat \ {0} /\ Pow[n] = Base * Pow[n - 1]
    BY <2>2, <2>3, PowDef
  <2>5. \A b, p \in Nat : b > 1 /\ p # 0 => b * p # 0
    OBVIOUS
  <2> QED
    BY <2>4, <2>5, DigitsAssumption
<1> QED
  BY <1>1, PowDef

(* More digits, greater powers.                                            *)
LEMMA PowGrows ==
    ASSUME NEW n \in Nat, NEW m \in Nat, n <= m
    PROVE  Pow[n] <= Pow[m]
<1> DEFINE T == {k \in n..m : ~(Pow[n] <= Pow[k])}
<1> SUFFICES ASSUME T # {} PROVE FALSE
  OBVIOUS
<1>1. PICK k \in T : \A j \in T : ~(j < k)
  <2> T \in SUBSET Nat
    OBVIOUS
  <2> HIDE DEF T
  <2> QED
    BY Least
<1>2. k \in Nat /\ k # n /\ k > n
  BY PowDef
<1>3. k - 1 \in n..m /\ k - 1 \notin T /\ k - 1 \in Nat
  BY <1>1, <1>2
<1>4. Pow[n] <= Pow[k - 1] /\ Pow[k] = Base * Pow[k - 1]
  BY <1>2, <1>3, PowDef
<1>5. \A b, p, q \in Nat : b > 1 /\ p <= q => p <= b * q
  <2> TAKE b, p, q \in Nat
  <2>1. b > 1 => b * q >= q
    OBVIOUS
  <2> QED
    BY <2>1
<1>6. Pow[n] \in Nat /\ Pow[k - 1] \in Nat
  BY <1>3, PowDef
<1> QED
  BY <1>4, <1>5, <1>6, DigitsAssumption

(* A multiple with less than one more, divided.                            *)
LEMMA Divided ==
    ASSUME NEW v \in Nat, NEW c \in Nat \ {0}, NEW s \in Nat, NEW u \in Nat, v = c * s + u, u < c
    PROVE  v \div c = s
<1>1. v \div c \in Nat /\ v % c \in 0..(c - 1) /\ v = c * (v \div c) + (v % c)
  OBVIOUS
<1> DEFINE q == v \div c
           r == v % c
<1> HIDE DEF q, r
<1>2. q \in Nat /\ r \in Nat /\ r < c /\ c * q + r = c * s + u
  BY <1>1 DEF q, r
<1>3. ~(q < s)
  <2> SUFFICES ASSUME q < s PROVE FALSE
    OBVIOUS
  <2>1. PICK d \in Nat : s = q + 1 + d
    <3>1. s - q - 1 \in Nat /\ s = q + 1 + (s - q - 1)
      BY <1>2
    <3> QED
      BY <3>1
  <2>2. c * s = (c * q + c) + c * d
    BY <1>2, <2>1
  <2>3. c * d \in Nat /\ c * q \in Nat
    BY <1>2
  <2> QED
    BY <1>2, <2>2, <2>3
<1>4. ~(s < q)
  <2> SUFFICES ASSUME s < q PROVE FALSE
    OBVIOUS
  <2>1. PICK d \in Nat : q = s + 1 + d
    <3>1. q - s - 1 \in Nat /\ q = s + 1 + (q - s - 1)
      BY <1>2
    <3> QED
      BY <3>1
  <2>2. c * q = (c * s + c) + c * d
    BY <1>2, <2>1
  <2>3. c * d \in Nat /\ c * s \in Nat
    BY <1>2
  <2> QED
    BY <1>2, <2>2, <2>3
<1> QED
  BY <1>2, <1>3, <1>4 DEF q

(* Cutting digits off one after the other is cutting them off at once.     *)
LEMMA DividedTwice ==
    ASSUME NEW v \in Nat, NEW a \in Nat \ {0}, NEW b \in Nat \ {0}
    PROVE  v \div (b * a) = (v \div a) \div b
<1> DEFINE q == v \div a
           r == v % a
           s == q \div b
           t == q % b
<1>1. q \in Nat /\ r \in Nat /\ r < a /\ v = a * q + r
  OBVIOUS
<1> HIDE DEF q, r
<1>2. s \in Nat /\ t \in Nat /\ t < b /\ q = b * s + t
  BY <1>1
<1> HIDE DEF s, t
<1>3. a * q = (b * a) * s + a * t
  <2>1. a * q = a * (b * s) + a * t
    BY <1>2
  <2>2. a * (b * s) = (b * a) * s
    BY <1>2
  <2> QED
    BY <2>1, <2>2
<1>4. b * a \in Nat \ {0} /\ (b * a) * s \in Nat /\ a * t \in Nat
  BY <1>2
<1>5. a * t + a <= b * a
  <2>1. PICK d \in Nat : b = t + 1 + d
    <3>1. b - t - 1 \in Nat /\ b = t + 1 + (b - t - 1)
      BY <1>2
    <3> QED
      BY <3>1
  <2>2. b * a = (a * t + a) + a * d
    BY <1>2, <2>1
  <2>3. a * d \in Nat
    OBVIOUS
  <2> QED
    BY <1>4, <2>2, <2>3
<1>6. a * t + r \in Nat /\ a * t + r < b * a /\ v = (b * a) * s + (a * t + r)
  BY <1>1, <1>3, <1>4, <1>5
<1>7. v \div (b * a) = s
  BY <1>2, <1>4, <1>6, Divided
<1> QED
  BY <1>7 DEF s, q

-----------------------------------------------------------------------------
(* Numbers *)

Digits(text, first, V) ==
    \A k \in 0..Len(text) : V[k] = IF k < first THEN 0 ELSE V[k - 1] * Base + text[k]

(* Value is what its equation says.                                        *)
LEMMA ValueDef ==
    ASSUME NEW text \in Seq(Nat), NEW first \in 1..Len(text)
    PROVE  \E V : Value(text, first) = V[Len(text)] /\ Digits(text, first, V)
<1> DEFINE n == Len(text)
           step == [p \in Nat \X Nat |-> IF p[1] < first \/ p[1] > n THEN 0 ELSE p[2] * Base + text[p[1]]]
           V == CHOOSE f : f = [k \in 0..n |-> IF k < first THEN 0 ELSE f[k - 1] * Base + text[k]]
<1>1. Value(text, first) = V[n]
  BY Zenon DEF Value
<1>2. \A k, x \in Nat : step[<<k, x>>] = IF k < first \/ k > n THEN 0 ELSE x * Base + text[k]
  OBVIOUS
<1>3. n \in Nat /\ first \in 1..n
  OBVIOUS
<1> HIDE DEF step
<1>4. \A k, x \in Nat : step[<<k, x>>] \in Nat
  <2> TAKE k, x \in Nat
  <2>1. CASE k < first \/ k > n
    BY <1>2, <2>1
  <2>2. CASE ~(k < first \/ k > n)
    <3>1. k \in 1..n
      BY <1>3, <2>2
    <3>2. text[k] \in Nat /\ x * Base \in Nat
      BY <3>1, DigitsAssumption
    <3> QED
      BY <1>2, <2>2, <3>2
  <2> QED
    BY <2>1, <2>2
<1>5. PICK g \in [Nat -> Nat] : ChainTable(g, 0, step)
  <2>1. 0 \in Nat
    OBVIOUS
  <2> QED
    BY <1>4, <2>1, ChainExists, Zenon
<1> DEFINE h == [k \in 0..n |-> g[k]]
<1>6. h = [k \in 0..n |-> IF k < first THEN 0 ELSE h[k - 1] * Base + text[k]]
  <2>1. \A k \in 0..n : h[k] = IF k < first THEN 0 ELSE h[k - 1] * Base + text[k]
    <3> TAKE k \in 0..n
    <3>1. k \in Nat /\ ~(k > n)
      BY <1>3
    <3>2. g[k] = IF k = 0 THEN 0 ELSE step[<<k, g[k - 1]>>]
      BY <1>5, <3>1, Zenon DEF ChainTable
    <3>3. CASE k = 0
      BY <1>3, <3>2, <3>3
    <3>4. CASE k # 0
      <4>0. k - 1 \in 0..n /\ k - 1 \in Nat
        BY <1>3, <3>4
      <4>1. g[k - 1] \in Nat /\ h[k - 1] = g[k - 1] /\ h[k] = g[k]
        BY <4>0
      <4> HIDE DEF h
      <4>2. step[<<k, g[k - 1]>>] = IF k < first THEN 0 ELSE g[k - 1] * Base + text[k]
        BY <1>2, <3>1, <4>1
      <4> QED
        BY <3>2, <3>4, <4>1, <4>2
    <3> QED
      BY <3>3, <3>4
  <2>2. h = [k \in 0..n |-> h[k]]
    OBVIOUS
  <2> HIDE DEF h
  <2> QED
    BY <2>1, <2>2
<1> HIDE DEF h
<1>7. V = [k \in 0..n |-> IF k < first THEN 0 ELSE V[k - 1] * Base + text[k]]
  BY <1>6, Zenon
<1> HIDE DEF V
<1>8. Digits(text, first, V)
  <2> SUFFICES ASSUME NEW k \in 0..Len(text)
               PROVE  V[k] = IF k < first THEN 0 ELSE V[k - 1] * Base + text[k]
    BY DEF Digits
  <2> QED
    BY <1>7, Zenon
<1> QED
  BY <1>1, <1>8

(* What is read of so many digits is a number of so many digits. *)
LEMMA ValueBound ==
    ASSUME NEW text \in Seq(Nat), NEW first \in 1..Len(text), \A k \in first..Len(text) : text[k] < Base
    PROVE  Value(text, first) \in 0..(Pow[Len(text)] - 1)
<1>1. PICK V : Value(text, first) = V[Len(text)] /\ Digits(text, first, V)
  BY ValueDef
<1> DEFINE n == Len(text)
           T == {k \in 0..n : V[k] \in Nat /\ V[k] < Pow[k]}
<1>2. n \in Nat /\ first \in 1..n
  OBVIOUS
<1>3. 0 \in T
  <2>1. V[0] = 0
    BY <1>1, <1>2 DEF Digits
  <2>2. Pow[0] = 1
    BY PowDef
  <2> QED
    BY <1>2, <2>1, <2>2
<1>4. \A k \in 0..(n - 1) : k \in T => k + 1 \in T
  <2> SUFFICES ASSUME NEW k \in 0..(n - 1), k \in T PROVE k + 1 \in T
    OBVIOUS
  <2>1. k + 1 \in 0..n /\ (k + 1) - 1 = k /\ k + 1 \in Nat /\ k + 1 # 0 /\ k \in Nat
    BY <1>2
  <2>2. V[k + 1] = IF k + 1 < first THEN 0 ELSE V[k] * Base + text[k + 1]
    BY <1>1, <2>1 DEF Digits
  <2>3. Pow[k + 1] = Base * Pow[k] /\ Pow[k + 1] \in Nat \ {0} /\ Pow[k] \in Nat
    BY <2>1, PowDef, PowPositive
  <2>4. CASE k + 1 < first
    BY <2>1, <2>2, <2>3, <2>4
  <2>5. CASE ~(k + 1 < first)
    <3>1. k + 1 \in first..n /\ text[k + 1] \in Nat /\ text[k + 1] < Base
      BY <1>2, <2>1, <2>5
    <3>2. V[k] \in Nat /\ V[k] < Pow[k] /\ Base \in Nat
      BY DigitsAssumption
    <3>3. \A a, b, c, p \in Nat : c < b /\ a < p => a * b + c \in Nat /\ a * b + c < b * p
      <4> TAKE a, b, c, p \in Nat
      <4> HAVE c < b /\ a < p
      <4>1. PICK d \in Nat : p = a + 1 + d
        <5>1. p - a - 1 \in Nat /\ p = a + 1 + (p - a - 1)
          OBVIOUS
        <5> QED
          BY <5>1
      <4>2. b * p = (a * b + b) + b * d
        BY <4>1
      <4>3. b * d \in Nat /\ a * b \in Nat
        OBVIOUS
      <4> QED
        BY <4>2, <4>3
    <3>4. V[k] * Base + text[k + 1] \in Nat /\ V[k] * Base + text[k + 1] < Base * Pow[k]
      BY <2>3, <3>1, <3>2, <3>3
    <3> QED
      BY <2>1, <2>2, <2>3, <2>5, <3>4
  <2> QED
    BY <2>4, <2>5
<1> HIDE DEF T
<1>5. n \in T
  <2>1. \A k \in 0..n : k \in T
    BY <1>2, <1>3, <1>4, Upwards
  <2>2. n \in 0..n
    BY <1>2
  <2> QED
    BY <2>1, <2>2
<1>6. V[n] \in Nat /\ V[n] < Pow[n] /\ Pow[n] \in Nat
  BY <1>2, <1>5, PowDef DEF T
<1> QED
  BY <1>1, <1>6

(* What strtoul reads is a number.                                         *)
LEMMA NumberTyped ==
    ASSUME NEW text \in Seq(Nat), Numerals(text) # {}, Len(text) <= LongDigits
    PROVE  Number(text) \in Nat
<1> DEFINE first == CHOOSE j \in Numerals(text) : TRUE
           value == Value(text, first)
<1>1. first \in Numerals(text)
  OBVIOUS
<1>2. first \in 1..Len(text) /\ \A k \in first..Len(text) : text[k] < Base
  BY <1>1 DEF Numerals
<1>3. Number(text) = IF first > 1 /\ text[first - 1] = Minus /\ value > 0 THEN Pow[LongDigits] - value ELSE value
  BY Zenon DEF Number
<1> HIDE DEF first
<1>4. value \in 0..(Pow[Len(text)] - 1)
  BY <1>2, ValueBound
<1>5. Pow[Len(text)] <= Pow[LongDigits] /\ Pow[Len(text)] \in Nat /\ Pow[LongDigits] \in Nat
  BY PowDef, PowGrows, DigitsAssumption
<1> HIDE DEF value
<1>6. value \in Nat /\ Pow[LongDigits] - value \in Nat
  BY <1>4, <1>5
<1> QED
  BY <1>3, <1>6

(* A number is written in as many digits as it shall have.                 *)
LEMMA HexTyped ==
    ASSUME NEW v \in Nat, NEW d \in Nat
    PROVE  /\ Hex(v, d) \in Seq(0..(Base - 1)) /\ Len(Hex(v, d)) = d
           /\ \A j \in 1..d : Hex(v, d)[j] = (v \div Pow[d - j]) % Base
           /\ \A j \in 1..d : Hex(v, d)[j] \in 0..(Base - 1)
<1>1. \A j \in 1..d : (v \div Pow[d - j]) % Base \in 0..(Base - 1)
  <2> TAKE j \in 1..d
  <2>1. d - j \in Nat
    OBVIOUS
  <2>2. Pow[d - j] \in Nat \ {0}
    BY <2>1, PowPositive
  <2>3. v \div Pow[d - j] \in Nat
    BY <2>2
  <2> QED
    BY <2>3, DigitsAssumption
<1> QED
  BY <1>1 DEF Hex

(* What common_utils_dec_to_hex writes is the number strtoul reads. *)
LEMMA NumberOfHex ==
    ASSUME NEW d \in Nat \ {0}, NEW v \in Nat, v < Pow[d]
    PROVE  Numerals(Hex(v, d)) # {} /\ Number(Hex(v, d)) = v
<1> DEFINE text == Hex(v, d)
           first == CHOOSE j \in Numerals(text) : TRUE
<1>1. /\ text \in Seq(Nat) /\ Len(text) = d
      /\ \A j \in 1..d : text[j] = (v \div Pow[d - j]) % Base /\ text[j] \in Nat /\ text[j] < Base
  <2>1. text \in Seq(0..(Base - 1))
    BY HexTyped
  <2>2. Base \in Nat
    BY DigitsAssumption
  <2>3. Len(text) = d /\ \A j \in 1..d : text[j] = (v \div Pow[d - j]) % Base
    BY HexTyped
  <2>4. \A j \in 1..d : text[j] \in 0..(Base - 1)
    BY HexTyped
  <2> HIDE DEF text
  <2> QED
    BY <2>1, <2>2, <2>3, <2>4
<1>2. Number(text) = IF first > 1 /\ text[first - 1] = Minus /\ Value(text, first) > 0
                     THEN Pow[LongDigits] - Value(text, first) ELSE Value(text, first)
  BY Zenon DEF Number
<1> HIDE DEF text
<1>3. 1 \in Numerals(text)
  BY <1>1 DEF Numerals
<1>4. first \in Numerals(text)
  BY <1>3
<1> HIDE DEF first
<1>5. first = 1
  <2> SUFFICES ASSUME first # 1 PROVE FALSE
    OBVIOUS
  <2>1. first \in 1..d /\ 1 \in 1..(first - 1)
    BY <1>1, <1>4 DEF Numerals
  <2>2. text[1] = Blank \/ text[1] = Minus
    BY <1>4, <2>1 DEF Numerals
  <2>3. text[1] < Base /\ text[1] \in Nat
    BY <1>1
  <2> QED
    BY <2>2, <2>3, DigitsAssumption DEF Blank, Minus
<1>6. Number(text) = Value(text, 1)
  BY <1>2, <1>5
<1>7. 1 \in 1..Len(text)
  BY <1>1
<1>8. PICK V : Value(text, 1) = V[Len(text)] /\ Digits(text, 1, V)
  BY <1>1, <1>7, ValueDef
<1> DEFINE T == {k \in 0..d : V[k] = v \div Pow[d - k]}
<1>9. 0 \in T
  <2>1. V[0] = 0
    BY <1>1, <1>8 DEF Digits
  <2>2. Pow[d] \in Nat \ {0} /\ v = Pow[d] * 0 + v
    BY PowPositive
  <2>3. v \div Pow[d] = 0
    BY <2>2, Divided
  <2>4. d - 0 = d
    OBVIOUS
  <2> QED
    BY <2>1, <2>3, <2>4
<1>10. \A k \in 0..(d - 1) : k \in T => k + 1 \in T
  <2> SUFFICES ASSUME NEW k \in 0..(d - 1), k \in T PROVE k + 1 \in T
    OBVIOUS
  <2> DEFINE p == Pow[d - (k + 1)]
             q == v \div p
  <2>1. k + 1 \in 1..d /\ k + 1 \in 0..d /\ (k + 1) - 1 = k /\ ~(k + 1 < 1)
        /\ d - k \in Nat /\ d - k # 0 /\ d - (k + 1) \in Nat /\ (d - k) - 1 = d - (k + 1)
    OBVIOUS
  <2>2. V[k + 1] = V[k] * Base + text[k + 1]
    BY <1>1, <1>8, <2>1 DEF Digits
  <2>3. text[k + 1] = q % Base
    BY <1>1, <2>1
  <2>4. p \in Nat \ {0}
    BY <2>1, PowPositive
  <2>5. Pow[d - k] = Base * p
    BY <2>1, PowDef
  <2>6. V[k] = v \div Pow[d - k]
    OBVIOUS
  <2> HIDE DEF p
  <2>7. V[k] = q \div Base
    <3>1. Base \in Nat \ {0}
      BY DigitsAssumption
    <3>2. v \div (Base * p) = (v \div p) \div Base
      BY <2>4, <3>1, DividedTwice
    <3> QED
      BY <2>5, <2>6, <3>2, Zenon
  <2>8. q \in Nat
    BY <2>4
  <2> HIDE DEF q
  <2>9. q = (q \div Base) * Base + (q % Base)
    BY <2>8, DigitsAssumption
  <2>10. V[k + 1] = q
    BY <2>2, <2>3, <2>7, <2>9
  <2> QED
    BY <2>1, <2>10 DEF q, p
<1> HIDE DEF T
<1>11. d \in T
  BY <1>9, <1>10, Upwards
<1>12. V[d] = v \div Pow[0]
  <2>1. d - d = 0
    OBVIOUS
  <2> QED
    BY <1>11, <2>1 DEF T
<1>13. v \div 1 = v
  OBVIOUS
<1>14. V[d] = v
  BY <1>12, <1>13, PowDef
<1> QED
  BY <1>1, <1>3, <1>6, <1>8, <1>14 DEF text

-----------------------------------------------------------------------------
(* Fields *)

Characters == 0..Mark

(* Digits are characters of a message.                                     *)
LEMMA DigitsAreCharacters ==
    /\ Characters \subseteq Nat
    /\ 0..(Base - 1) \subseteq Characters
    /\ Mark \in Characters /\ Other \in Characters /\ Base \in Nat
    /\ MarkLen \in Nat /\ MarkLen = 1
BY DigitsAssumption DEF Characters, Mark, Other, MarkLen

(* The text stands in the data behind the first c characters. *)
At(buffer, c, text) ==
    c + Len(text) <= Len(buffer) /\ \A j \in 1..Len(text) : buffer[c + j] = text[j]

(* One text behind another: both stand where they should.                  *)
LEMMA AtConcat ==
    ASSUME NEW buffer \in Seq(Characters), NEW c \in Nat, NEW s \in Seq(Characters),
           NEW t \in Seq(Characters), At(buffer, c, s \o t)
    PROVE  At(buffer, c, s) /\ At(buffer, c + Len(s), t)
<1>1. /\ s \o t \in Seq(Characters) /\ Len(s \o t) = Len(s) + Len(t)
      /\ \A j \in 1..Len(s) : (s \o t)[j] = s[j]
      /\ \A j \in 1..Len(t) : (s \o t)[Len(s) + j] = t[j]
  OBVIOUS
<1>2. Len(s) \in Nat /\ Len(t) \in Nat /\ Len(buffer) \in Nat
  OBVIOUS
<1> DEFINE st == s \o t
<1> HIDE DEF st
<1>3. /\ Len(st) = Len(s) + Len(t)
      /\ \A j \in 1..Len(s) : st[j] = s[j]
      /\ \A j \in 1..Len(t) : st[Len(s) + j] = t[j]
      /\ c + Len(st) <= Len(buffer) /\ \A j \in 1..Len(st) : buffer[c + j] = st[j]
  BY <1>1 DEF At, st
<1>4. At(buffer, c, s)
  <2>1. c + Len(s) <= Len(buffer)
    BY <1>2, <1>3
  <2>2. \A j \in 1..Len(s) : buffer[c + j] = s[j]
    BY <1>2, <1>3
  <2> QED
    BY <2>1, <2>2 DEF At
<1>5. At(buffer, c + Len(s), t)
  <2>1. (c + Len(s)) + Len(t) <= Len(buffer)
    BY <1>2, <1>3
  <2>2. \A j \in 1..Len(t) : buffer[(c + Len(s)) + j] = t[j]
    <3> TAKE j \in 1..Len(t)
    <3>1. Len(s) + j \in 1..Len(st) /\ c + (Len(s) + j) = (c + Len(s)) + j
      BY <1>2, <1>3
    <3> QED
      BY <1>3, <3>1
  <2> QED
    BY <2>1, <2>2 DEF At
<1> QED
  BY <1>4, <1>5

(* What stands there is what a read of as many characters gives.           *)
LEMMA SubSeqAt ==
    ASSUME NEW buffer \in Seq(Characters), NEW c \in Nat, NEW text \in Seq(Characters), At(buffer, c, text)
    PROVE  SubSeq(buffer, c + 1, c + Len(text)) = text
<1> DEFINE n == Len(text)
           s == SubSeq(buffer, c + 1, c + n)
<1>1. n \in Nat /\ Len(buffer) \in Nat /\ c + n <= Len(buffer)
  BY DEF At
<1>2. Len(s) = n /\ s \in Seq(Characters) /\ \A j \in 1..n : s[j] = buffer[c + j]
  BY <1>1
<1>3. \A j \in 1..n : s[j] = text[j]
  BY <1>2 DEF At
<1> HIDE DEF s
<1> QED
  BY <1>2, <1>3, SeqEqual DEF s

(* A part of the data that lies inside it. *)
LEMMA PartTyped ==
    ASSUME NEW buffer \in Seq(Characters), NEW c \in Nat, NEW d \in Nat, c + d <= Len(buffer)
    PROVE  /\ SubSeq(buffer, c + 1, c + d) \in Seq(Characters) /\ Len(SubSeq(buffer, c + 1, c + d)) = d
           /\ SubSeq(buffer, c + 1, c + d) \in Seq(Nat)
<1>1. SubSeq(buffer, c + 1, c + d) \in Seq(Characters) /\ Len(SubSeq(buffer, c + 1, c + d)) = d
  OBVIOUS
<1>2. SubSeq(buffer, c + 1, c + d) \in Seq(Nat)
  <2> DEFINE s == SubSeq(buffer, c + 1, c + d)
  <2> HIDE DEF s
  <2>1. s \in Seq(Characters)
    BY <1>1 DEF s
  <2>2. s \in Seq(Nat)
    BY <2>1, SeqMonotonic, DigitsAreCharacters
  <2> QED
    BY <2>2 DEF s
<1> QED
  BY <1>1, <1>2

(* A number that stands at the cursor is read, and the cursor moves on.    *)
LEMMA ReadHexAt ==
    ASSUME NEW buffer \in Seq(Characters), NEW before, NEW end \in Nat, NEW c \in Nat, before.ok, before.cursor = c,
           NEW d \in Nat \ {0}, NEW v \in Nat, v < Pow[d], At(buffer, c, Hex(v, d)), c + d <= end
    PROVE  ReadHex(buffer, before, end, d) = [ok |-> TRUE, cursor |-> c + d, value |-> v]
<1> DEFINE text == SubSeq(buffer, before.cursor + 1, before.cursor + d)
<1>1. Hex(v, d) \in Seq(Characters) /\ Len(Hex(v, d)) = d
  BY HexTyped, DigitsAreCharacters
<1>2. text = Hex(v, d)
  BY <1>1, SubSeqAt
<1>3. Numerals(text) # {} /\ Number(text) = v
  BY <1>2, NumberOfHex
<1> HIDE DEF text
<1>4. ReadHex(buffer, before, end, d) = IF before.ok /\ before.cursor + d <= end /\ Numerals(text) # {}
        THEN [ok |-> TRUE, cursor |-> before.cursor + d, value |-> Number(text)]
        ELSE [ok |-> FALSE, cursor |-> 0, value |-> 0]
  BY Zenon DEF ReadHex, text
<1> QED
  BY <1>3, <1>4, Zenon

(* What is read after something that was not, is not read. *)
LEMMA NotRead ==
    ASSUME NEW buffer, NEW before, NEW end, NEW d, ~before.ok
    PROVE  ~ReadHex(buffer, before, end, d).ok /\ ~ReadPutStr(buffer, before, d, end).ok
<1>1. ~ReadHex(buffer, before, end, d).ok
  BY DEF ReadHex
<1> DEFINE length == ReadHex(buffer, before, end, d)
<1>2. ReadPutStr(buffer, before, d, end) = ReadStr(buffer, length, end)
  BY Zenon DEF ReadPutStr
<1> HIDE DEF length
<1>3. ~length.ok
  BY <1>1 DEF length
<1>4. ~ReadStr(buffer, length, end).ok
  BY <1>3 DEF ReadStr
<1> QED
  BY <1>1, <1>2, <1>4, Zenon

(* What is read of a number, whatever the data.                            *)
LEMMA ReadHexTyped ==
    ASSUME NEW buffer \in Seq(Characters), NEW before, NEW end \in Nat, end <= Len(buffer), NEW d \in 1..LongDigits,
           before.cursor \in Nat, ReadHex(buffer, before, end, d).ok
    PROVE  /\ before.ok
           /\ ReadHex(buffer, before, end, d).cursor = before.cursor + d /\ before.cursor + d <= end
           /\ ReadHex(buffer, before, end, d).value
                = Number(SubSeq(buffer, before.cursor + 1, before.cursor + d))
           /\ ReadHex(buffer, before, end, d).value \in Nat
<1> DEFINE text == SubSeq(buffer, before.cursor + 1, before.cursor + d)
           r == ReadHex(buffer, before, end, d)
<1>1. r = IF before.ok /\ before.cursor + d <= end /\ Numerals(text) # {}
          THEN [ok |-> TRUE, cursor |-> before.cursor + d, value |-> Number(text)]
          ELSE [ok |-> FALSE, cursor |-> 0, value |-> 0]
  BY Zenon DEF ReadHex
<1>2. r.ok
  OBVIOUS
<1> HIDE DEF r, text
<1>3. before.ok /\ before.cursor + d <= end /\ Numerals(text) # {}
  BY <1>1, <1>2
<1>4. r.cursor = before.cursor + d /\ r.value = Number(text)
  BY <1>1, <1>3
<1>5. d \in Nat /\ d <= LongDigits /\ before.cursor + d <= Len(buffer)
  BY <1>3, DigitsAssumption
<1>6. text \in Seq(Nat) /\ Len(text) = d
  BY <1>5, PartTyped DEF text
<1>7. Number(text) \in Nat
  BY <1>3, <1>5, <1>6, NumberTyped
<1> QED
  BY <1>3, <1>4, <1>7 DEF r, text

(* What is read of a string, whatever the data.                            *)
LEMMA ReadPutStrTyped ==
    ASSUME NEW buffer \in Seq(Characters), NEW before, NEW end \in Nat, end <= Len(buffer), NEW d \in 1..LongDigits,
           before.cursor \in Nat, ReadPutStr(buffer, before, d, end).ok
    PROVE  LET r == ReadPutStr(buffer, before, d, end)
           IN  /\ before.ok /\ r.value \in Seq(Characters)
               /\ r.cursor = (before.cursor + d) + Len(r.value) /\ r.cursor <= end /\ r.cursor \in Nat
<1> DEFINE length == ReadHex(buffer, before, end, d)
           r == ReadPutStr(buffer, before, d, end)
           last == length.cursor + length.value
<1>1. r = IF length.ok /\ last <= end
          THEN [ok |-> TRUE, cursor |-> last, value |-> SubSeq(buffer, length.cursor + 1, last)]
          ELSE [ok |-> FALSE, cursor |-> 0, value |-> <<>>]
  BY Zenon DEF ReadPutStr, ReadStr
<1>2. r.ok
  OBVIOUS
<1> HIDE DEF r
<1>3. length.ok /\ last <= end
  <2> HIDE DEF last, length
  <2> QED
    BY <1>1, <1>2
<1>4. r.cursor = last /\ r.value = SubSeq(buffer, length.cursor + 1, last)
  <2> HIDE DEF last, length
  <2> QED
    BY <1>1, <1>3
<1>5. before.ok /\ length.cursor = before.cursor + d /\ length.value \in Nat
  BY <1>3, ReadHexTyped
<1> HIDE DEF length
<1>6. length.cursor \in Nat /\ last \in Nat /\ last <= Len(buffer) /\ d \in Nat
  BY <1>3, <1>5, DigitsAssumption
<1>7. r.value \in Seq(Characters) /\ Len(r.value) = length.value
  <2> HIDE DEF last
  <2>1. last = length.cursor + length.value
    BY DEF last
  <2> QED
    <3>1. length.cursor + length.value <= Len(buffer)
      BY <1>6, <2>1
    <3>2. /\ SubSeq(buffer, length.cursor + 1, length.cursor + length.value) \in Seq(Characters)
          /\ Len(SubSeq(buffer, length.cursor + 1, length.cursor + length.value)) = length.value
      BY <1>5, <1>6, <3>1, PartTyped
    <3> QED
      BY <1>4, <2>1, <3>2
<1> QED
  BY <1>3, <1>4, <1>5, <1>6, <1>7 DEF r

(* A string that stands behind its length is read, and the cursor moves on. *)
LEMMA ReadPutStrAt ==
    ASSUME NEW buffer \in Seq(Characters), NEW before, NEW end \in Nat, NEW c \in Nat, before.ok, before.cursor = c,
           NEW d \in Nat \ {0}, NEW string \in Seq(Characters), Len(string) < Pow[d],
           At(buffer, c, PutStr(string, d)), (c + d) + Len(string) <= end
    PROVE  ReadPutStr(buffer, before, d, end)
             = [ok |-> TRUE, cursor |-> (c + d) + Len(string), value |-> string]
<1> DEFINE length == ReadHex(buffer, before, end, d)
           last == length.cursor + length.value
<1>1. ReadPutStr(buffer, before, d, end) = IF length.ok /\ last <= end
          THEN [ok |-> TRUE, cursor |-> last, value |-> SubSeq(buffer, length.cursor + 1, last)]
          ELSE [ok |-> FALSE, cursor |-> 0, value |-> <<>>]
  BY Zenon DEF ReadPutStr, ReadStr
<1>0. Len(string) \in Nat
  OBVIOUS
<1>2. Hex(Len(string), d) \in Seq(Characters) /\ Len(Hex(Len(string), d)) = d
  <2>1. Hex(Len(string), d) \in Seq(0..(Base - 1)) /\ Len(Hex(Len(string), d)) = d
    BY <1>0, HexTyped
  <2> QED
    BY <2>1, SeqMonotonic, DigitsAreCharacters
<1>3. At(buffer, c, Hex(Len(string), d)) /\ At(buffer, c + d, string)
  <2>1. At(buffer, c, Hex(Len(string), d) \o string)
    BY DEF PutStr
  <2> QED
    BY <1>2, <2>1, AtConcat
<1>4. Len(string) \in Nat /\ c + d <= end
  OBVIOUS
<1>5. length = [ok |-> TRUE, cursor |-> c + d, value |-> Len(string)]
  BY <1>3, <1>4, ReadHexAt
<1>6. SubSeq(buffer, (c + d) + 1, (c + d) + Len(string)) = string
  BY <1>3, SubSeqAt
<1> HIDE DEF length
<1> QED
  BY <1>1, <1>5, <1>6

-----------------------------------------------------------------------------
(* Strings behind each other *)

Joined(F, s, n) ==
    F[0] = <<>> /\ \A k \in 1..n : F[k] = F[k - 1] \o s[k]

(* FlattenSeq puts the parts one behind the other.                         *)
LEMMA FlattenDef ==
    ASSUME NEW S, NEW n \in Nat, NEW s \in [1..n -> Seq(S)]
    PROVE  \E F \in [0..n -> Seq(S)] : Joined(F, s, n) /\ FlattenSeq(s) = F[n]
<1> DEFINE step == [p \in Nat \X Seq(S) |-> IF p[1] \in 1..n THEN p[2] \o s[p[1]] ELSE p[2]]
           fl == CHOOSE f : f = [j \in 1..Len(s) |-> IF j = 1 THEN s[j] ELSE f[j - 1] \o s[j]]
<1>1. FlattenSeq(s) = IF Len(s) = 0 THEN s ELSE fl[Len(s)]
  BY Zenon DEF FlattenSeq
<1>2. Len(s) = n
  OBVIOUS
<1>3. \A k \in Nat, x \in Seq(S) : step[<<k, x>>] = IF k \in 1..n THEN x \o s[k] ELSE x
  OBVIOUS
<1>4. \A k \in Nat, x \in Seq(S) : step[<<k, x>>] \in Seq(S)
  <2> HIDE DEF step
  <2> TAKE k \in Nat, x \in Seq(S)
  <2>1. k \in 1..n => x \o s[k] \in Seq(S)
    BY ConcatProperties
  <2> QED
    BY <1>3, <2>1
<1>5. <<>> \in Seq(S)
  OBVIOUS
<1> HIDE DEF step
<1>6. PICK g \in [Nat -> Seq(S)] : ChainTable(g, <<>>, step)
  BY <1>4, <1>5, ChainExists, Zenon
<1> DEFINE F == [k \in 0..n |-> g[k]]
<1>7. \A k \in 1..n : g[k] = g[k - 1] \o s[k]
  <2> TAKE k \in 1..n
  <2>1. k \in Nat /\ k # 0 /\ k - 1 \in Nat
    OBVIOUS
  <2>2. g[k] = IF k = 0 THEN <<>> ELSE step[<<k, g[k - 1]>>]
    BY <1>6, <2>1, Zenon DEF ChainTable
  <2>3. g[k - 1] \in Seq(S)
    BY <2>1
  <2> QED
    BY <1>3, <2>1, <2>2, <2>3
<1>8. g[0] = <<>>
  BY <1>6 DEF ChainTable
<1>9. F \in [0..n -> Seq(S)] /\ Joined(F, s, n)
  <2>1. \A k \in 1..n : k - 1 \in 0..n /\ k \in 0..n
    OBVIOUS
  <2>2. 0 \in 0..n /\ \A k \in 0..n : F[k] = g[k] /\ g[k] \in Seq(S)
    OBVIOUS
  <2>3. F \in [0..n -> Seq(S)]
    OBVIOUS
  <2> HIDE DEF F
  <2>4. \A k \in 1..n : F[k] = F[k - 1] \o s[k]
    BY <1>7, <2>1, <2>2, Zenon
  <2>5. F[0] = <<>>
    BY <1>8, <2>2
  <2> QED
    BY <2>3, <2>4, <2>5 DEF Joined
<1>10. CASE n = 0
  <2>1. s = <<>> /\ F[n] = <<>>
    BY <1>8, <1>10
  <2> QED
    BY <1>1, <1>2, <1>9, <1>10, <2>1
<1>11. CASE n # 0
  <2> DEFINE h == [j \in 1..n |-> g[j]]
  <2>1. h = [j \in 1..n |-> IF j = 1 THEN s[j] ELSE h[j - 1] \o s[j]]
    <3>1. \A j \in 1..n : h[j] = IF j = 1 THEN s[j] ELSE h[j - 1] \o s[j]
      <4> TAKE j \in 1..n
      <4>1. h[j] = g[j - 1] \o s[j]
        BY <1>7
      <4>2. CASE j = 1
        <5>1. g[j - 1] = <<>> /\ s[j] \in Seq(S)
          BY <1>8, <4>2
        <5>2. <<>> \o s[j] = s[j]
          BY <5>1
        <5> HIDE DEF h
        <5> QED
          BY <4>1, <4>2, <5>1, <5>2
      <4>3. CASE j # 1
        <5>1. j - 1 \in 1..n
          BY <4>3
        <5>2. h[j - 1] = g[j - 1]
          BY <5>1
        <5> HIDE DEF h
        <5> QED
          BY <4>1, <4>3, <5>2
      <4> QED
        BY <4>2, <4>3
    <3>2. h = [j \in 1..n |-> h[j]]
      OBVIOUS
    <3> HIDE DEF h
    <3> QED
      BY <3>1, <3>2
  <2> HIDE DEF h
  <2>2. fl = [j \in 1..n |-> IF j = 1 THEN s[j] ELSE fl[j - 1] \o s[j]]
    BY <1>2, <2>1, Zenon
  <2> HIDE DEF fl
  <2> DEFINE T == {k \in 0..n : k = 0 \/ fl[k] = g[k]}
  <2>3. 0 \in T
    OBVIOUS
  <2>4. \A k \in 0..(n - 1) : k \in T => k + 1 \in T
    <3> SUFFICES ASSUME NEW k \in 0..(n - 1), k \in T PROVE k + 1 \in T
      OBVIOUS
    <3>1. k + 1 \in 1..n /\ (k + 1) - 1 = k /\ k + 1 \in 0..n
      OBVIOUS
    <3>2. fl[k + 1] = IF k + 1 = 1 THEN s[k + 1] ELSE fl[(k + 1) - 1] \o s[k + 1]
      BY <2>2, <3>1, Zenon
    <3>3. g[k + 1] = g[k] \o s[k + 1]
      BY <1>7, <3>1
    <3>4. CASE k = 0
      <4>1. s[k + 1] \in Seq(S)
        BY <3>1
      <4>2. <<>> \o s[k + 1] = s[k + 1]
        BY <4>1
      <4>3. fl[k + 1] = s[k + 1]
        BY <3>2, <3>4
      <4>4. g[k + 1] = <<>> \o s[k + 1]
        BY <1>8, <3>3, <3>4
      <4> QED
        BY <3>1, <4>2, <4>3, <4>4
    <3>5. CASE k # 0
      <4>1. fl[k] = g[k] /\ k + 1 # 1
        BY <3>5
      <4>2. fl[k + 1] = g[k + 1]
        BY <3>1, <3>2, <3>3, <4>1
      <4> QED
        BY <3>1, <4>2
    <3> QED
      BY <3>4, <3>5
  <2> HIDE DEF T
  <2>5. n \in T
    <3>1. \A k \in 0..n : k \in T
      BY <2>3, <2>4, Upwards
    <3>2. n \in 0..n
      OBVIOUS
    <3> QED
      BY <3>1, <3>2
  <2>6. fl[n] = g[n] /\ F[n] = g[n]
    BY <1>11, <2>5 DEF T
  <2> HIDE DEF F
  <2> QED
    BY <1>1, <1>2, <1>9, <1>11, <2>6
<1> QED
  BY <1>10, <1>11

(* A string is written as its length and itself.                           *)
LEMMA PutStrTyped ==
    ASSUME NEW string \in Seq(Characters), NEW d \in Nat
    PROVE  PutStr(string, d) \in Seq(Characters) /\ Len(PutStr(string, d)) = d + Len(string)
<1>1. Len(string) \in Nat
  OBVIOUS
<1>2. Hex(Len(string), d) \in Seq(0..(Base - 1)) /\ Len(Hex(Len(string), d)) = d
  BY <1>1, HexTyped
<1>3. Hex(Len(string), d) \in Seq(Characters)
  BY <1>2, SeqMonotonic, DigitsAreCharacters
<1> QED
  BY <1>2, <1>3 DEF PutStr

(* Each string takes its length more. *)
LEMMA JoinedLength ==
    ASSUME NEW n \in Nat, NEW buffer \in [1..n -> Seq(Characters)],
           NEW F \in [0..n -> Seq(Characters)], NEW G \in [0..n -> Seq(Characters)],
           Joined(F, [j \in 1..n |-> PutStr(buffer[j], LongDigits)], n), Joined(G, buffer, n)
    PROVE  \A k \in 0..n : Len(F[k]) = k * LongDigits + Len(G[k])
<1> DEFINE T == {k \in 0..n : Len(F[k]) = k * LongDigits + Len(G[k])}
<1>1. 0 \in T
  <2>1. F[0] = <<>> /\ G[0] = <<>> /\ LongDigits \in Nat
    BY DigitsAssumption DEF Joined
  <2> QED
    BY <2>1
<1>2. \A k \in 0..(n - 1) : k \in T => k + 1 \in T
  <2> SUFFICES ASSUME NEW k \in 0..(n - 1), k \in T PROVE k + 1 \in T
    OBVIOUS
  <2>1. k + 1 \in 1..n /\ (k + 1) - 1 = k /\ k \in 0..n /\ k + 1 \in 0..n
    OBVIOUS
  <2>2. F[k + 1] = F[k] \o PutStr(buffer[k + 1], LongDigits) /\ G[k + 1] = G[k] \o buffer[k + 1]
    BY <2>1 DEF Joined
  <2>3. buffer[k + 1] \in Seq(Characters) /\ F[k] \in Seq(Characters) /\ G[k] \in Seq(Characters)
    BY <2>1
  <2>4. /\ PutStr(buffer[k + 1], LongDigits) \in Seq(Characters)
        /\ Len(PutStr(buffer[k + 1], LongDigits)) = LongDigits + Len(buffer[k + 1])
    BY <2>3, PutStrTyped, DigitsAssumption
  <2>5. /\ Len(F[k + 1]) = Len(F[k]) + (LongDigits + Len(buffer[k + 1]))
        /\ Len(G[k + 1]) = Len(G[k]) + Len(buffer[k + 1])
    <3>1. \A s, t \in Seq(Characters) : Len(s \o t) = Len(s) + Len(t)
      OBVIOUS
    <3> QED
      BY <2>2, <2>3, <2>4, <3>1
  <2>6. Len(F[k]) = k * LongDigits + Len(G[k])
    OBVIOUS
  <2>7. (k + 1) * LongDigits = k * LongDigits + LongDigits
    BY DigitsAssumption
  <2>8. Len(G[k]) \in Nat /\ Len(buffer[k + 1]) \in Nat /\ k * LongDigits \in Nat /\ LongDigits \in Nat
    BY <2>3, DigitsAssumption
  <2>9. Len(F[k + 1]) = (k + 1) * LongDigits + Len(G[k + 1])
    <3>2. Len(F[k]) \in Nat
      BY <2>3
    <3> QED
      <4> DEFINE f == Len(F[k])
                 g == Len(G[k])
                 p == k * LongDigits
                 b == Len(buffer[k + 1])
                 f1 == Len(F[k + 1])
                 g1 == Len(G[k + 1])
                 q == (k + 1) * LongDigits
      <4>1. f \in Nat /\ g \in Nat /\ p \in Nat /\ b \in Nat /\ LongDigits \in Nat
        BY <2>8, <3>2
      <4>2. f1 = f + (LongDigits + b) /\ g1 = g + b /\ f = p + g /\ q = p + LongDigits
        BY <2>5, <2>6, <2>7
      <4> HIDE DEF f, g, p, b, f1, g1, q
      <4>3. f1 = q + g1
        BY <4>1, <4>2
      <4> QED
        BY <4>3 DEF f1, q, g1
  <2> QED
    BY <2>1, <2>9
<1> HIDE DEF T
<1>3. \A k \in 0..n : k \in T
  BY <1>1, <1>2, Upwards
<1> QED
  BY <1>3 DEF T

-----------------------------------------------------------------------------
(* The strings of data *)

StringAt(buffer, end, o) == ReadPutStr(buffer, [ok |-> TRUE, cursor |-> o], LongDigits, end)

StringsFollow(D, buffer, end) ==
    \A o \in 0..end :
        IF StringAt(buffer, end, o).ok
        THEN D[StringAt(buffer, end, o).cursor] \in Seq(Seq(Characters))
               => D[o] = <<StringAt(buffer, end, o).value>> \o D[StringAt(buffer, end, o).cursor]
        ELSE D[o] = <<>>

(* What is read of a string of the data, whatever the data.                *)
LEMMA StringAtTyped ==
    ASSUME NEW buffer \in Seq(Characters), NEW end \in Nat, end <= Len(buffer), NEW o \in 0..end,
           StringAt(buffer, end, o).ok
    PROVE  /\ StringAt(buffer, end, o).value \in Seq(Characters)
           /\ StringAt(buffer, end, o).cursor = (o + LongDigits) + Len(StringAt(buffer, end, o).value)
           /\ StringAt(buffer, end, o).cursor \in (o + 1)..end
<1> DEFINE before == [ok |-> TRUE, cursor |-> o]
           r == StringAt(buffer, end, o)
<1>1. r = ReadPutStr(buffer, before, LongDigits, end)
  BY Zenon DEF StringAt
<1>2. LongDigits \in 1..LongDigits /\ LongDigits \in Nat
  BY DigitsAssumption
<1>3. before.cursor = o /\ before.cursor \in Nat /\ r.ok
  OBVIOUS
<1> HIDE DEF before, r
<1>4. r.value \in Seq(Characters) /\ r.cursor = (o + LongDigits) + Len(r.value) /\ r.cursor <= end /\ r.cursor \in Nat
  BY <1>1, <1>2, <1>3, ReadPutStrTyped
<1>5. r.cursor \in (o + 1)..end
  <2>1. Len(r.value) \in Nat
    BY <1>4
  <2>2. LongDigits >= 1
    BY DigitsAssumption
  <2> QED
    <3> DEFINE l == Len(r.value)
    <3>1. l \in Nat /\ r.cursor = (o + LongDigits) + l /\ o \in Nat
      BY <1>4, <2>1
    <3> HIDE DEF l
    <3>2. r.cursor >= o + 1
      BY <1>2, <2>2, <3>1
    <3> QED
      BY <1>4, <3>2
<1> QED
  BY <1>4, <1>5 DEF r

(* Whatever solves DataFrom's equation reads sequences of strings.         *)
LEMMA ReadsTyped ==
    ASSUME NEW buffer \in Seq(Characters), NEW end \in Nat, end <= Len(buffer), NEW D, StringsFollow(D, buffer, end)
    PROVE  \A o \in 0..end : D[o] \in Seq(Seq(Characters))
<1> DEFINE U == {o \in 0..end : D[o] \notin Seq(Seq(Characters))}
<1> SUFFICES ASSUME U # {} PROVE FALSE
  OBVIOUS
<1>1. PICK o \in U : \A p \in U : ~(p > o)
  <2> U \in SUBSET (0..end)
    OBVIOUS
  <2> HIDE DEF U
  <2> QED
    BY Greatest
<1>2. o \in 0..end /\ D[o] \notin Seq(Seq(Characters))
  OBVIOUS
<1> DEFINE r == StringAt(buffer, end, o)
<1>3. IF r.ok THEN D[r.cursor] \in Seq(Seq(Characters)) => D[o] = <<r.value>> \o D[r.cursor]
      ELSE D[o] = <<>>
  BY <1>2, Zenon DEF StringsFollow
<1>4. r.ok => r.value \in Seq(Characters) /\ r.cursor \in (o + 1)..end
  BY <1>2, StringAtTyped
<1> HIDE DEF r
<1>5. CASE r.ok
  <2>1. r.cursor \in 0..end /\ r.cursor > o
    BY <1>2, <1>4, <1>5
  <2>2. D[r.cursor] \in Seq(Seq(Characters))
    BY <1>1, <2>1
  <2>3. <<r.value>> \o D[r.cursor] \in Seq(Seq(Characters))
    BY <1>4, <1>5, <2>2
  <2> QED
    BY <1>2, <1>3, <1>5, <2>2, <2>3
<1>6. CASE ~r.ok
  <2>1. D[o] = <<>>
    BY <1>3, <1>6
  <2> HIDE DEF U
  <2> QED
    BY <1>2, <2>1
<1> QED
  BY <1>5, <1>6

(* DataFrom is what its equation says.                                     *)
LEMMA DataFromDef ==
    ASSUME NEW buffer \in Seq(Characters), NEW end \in Nat, end <= Len(buffer)
    PROVE  \A o \in 0..end :
              /\ DataFrom(buffer, end)[o] \in Seq(Seq(Characters))
              /\ DataFrom(buffer, end)[o]
                   = IF StringAt(buffer, end, o).ok
                     THEN <<StringAt(buffer, end, o).value>> \o DataFrom(buffer, end)[StringAt(buffer, end, o).cursor]
                     ELSE <<>>
<1> DEFINE at(o) == StringAt(buffer, end, o)
           stops == {o \in 0..end : ~at(o).ok}
           next == [o \in 0..end |-> at(o).cursor]
           step == [p \in (0..end) \X Seq(Seq(Characters)) |-> <<at(p[1]).value>> \o p[2]]
           D == CHOOSE f : f = [o \in 0..end |-> IF at(o).ok THEN <<at(o).value>> \o f[at(o).cursor] ELSE <<>>]
<1>1. DataFrom(buffer, end) = D
  BY Zenon DEF DataFrom, StringAt
<1>2. \A o \in 0..end : at(o).ok => at(o).value \in Seq(Characters) /\ at(o).cursor \in (o + 1)..end
  BY StringAtTyped
<1> HIDE DEF at
<1>3. \A o \in 0..end : o \notin stops => next[o] \in (o + 1)..end
  BY <1>2
<1>4. \A o \in 0..end : (o \in stops <=> ~at(o).ok) /\ next[o] = at(o).cursor
  OBVIOUS
<1>5. \A o \in 0..end, x \in Seq(Seq(Characters)) : step[<<o, x>>] = <<at(o).value>> \o x
  OBVIOUS
<1> HIDE DEF stops, next, step
<1>6. PICK f : DescentTable(f, 0, end, stops, <<>>, next, step)
  BY <1>3, DescentExists
<1>7. \A o \in 0..end : f[o] = IF at(o).ok THEN step[<<o, f[at(o).cursor]>>] ELSE <<>>
  <2> TAKE o \in 0..end
  <2>1. f[o] = IF o \in stops THEN <<>> ELSE step[<<o, f[next[o]]>>]
    BY <1>6, Zenon DEF DescentTable
  <2> QED
    BY <1>4, <2>1, Zenon
<1>8. StringsFollow(f, buffer, end)
  BY <1>5, <1>7, Zenon DEF StringsFollow, at
<1>9. \A o \in 0..end : f[o] \in Seq(Seq(Characters))
  BY <1>8, ReadsTyped
<1>10. f = [o \in 0..end |-> IF at(o).ok THEN <<at(o).value>> \o f[at(o).cursor] ELSE <<>>]
  <2>1. \A o \in 0..end : f[o] = IF at(o).ok THEN <<at(o).value>> \o f[at(o).cursor] ELSE <<>>
    <3> TAKE o \in 0..end
    <3>1. CASE at(o).ok
      <4>1. at(o).cursor \in 0..end
        BY <1>2, <3>1
      <4>2. f[at(o).cursor] \in Seq(Seq(Characters))
        BY <1>9, <4>1
      <4> QED
        BY <1>5, <1>7, <3>1, <4>2, Zenon
    <3>2. CASE ~at(o).ok
      BY <1>7, <3>2, Zenon
    <3> QED
      BY <3>1, <3>2
  <2>2. f = [o \in 0..end |-> f[o]]
    BY <1>6, Zenon DEF DescentTable
  <2> QED
    BY <2>1, <2>2
<1>11. D = [o \in 0..end |-> IF at(o).ok THEN <<at(o).value>> \o D[at(o).cursor] ELSE <<>>]
  BY <1>10, Zenon
<1> HIDE DEF D
<1>12. \A o \in 0..end : D[o] = IF at(o).ok THEN <<at(o).value>> \o D[at(o).cursor] ELSE <<>>
  BY <1>11, Zenon
<1>13. StringsFollow(D, buffer, end)
  BY <1>12, Zenon DEF StringsFollow, at
<1>14. \A o \in 0..end : D[o] \in Seq(Seq(Characters))
  BY <1>13, ReadsTyped
<1> QED
  BY <1>1, <1>12, <1>14, Zenon DEF at

-----------------------------------------------------------------------------
(* What is read from c on lies inside the message. *)
LEMMA StringsInside ==
    ASSUME NEW buffer \in Seq(Characters), NEW end \in Nat, end <= Len(buffer), NEW c \in 0..end,
           NEW n \in 0..Len(DataFrom(buffer, end)[c])
    PROVE  LET d == SubSeq(DataFrom(buffer, end)[c], 1, n)
           IN  /\ d \in Seq(Seq(Characters)) /\ Len(d) = n /\ Len(FlattenSeq(d)) \in Nat
               /\ c + (n * LongDigits + Len(FlattenSeq(d))) <= end
<1> DEFINE D == DataFrom(buffer, end)
           W == D[c]
           d == SubSeq(W, 1, n)
           at(o) == StringAt(buffer, end, o)
<1>1. \A o \in 0..end : D[o] \in Seq(Seq(Characters))
                        /\ D[o] = IF at(o).ok THEN <<at(o).value>> \o D[at(o).cursor] ELSE <<>>
  BY DataFromDef
<1>2. \A o \in 0..end : at(o).ok => /\ at(o).value \in Seq(Characters)
                                   /\ at(o).cursor = (o + LongDigits) + Len(at(o).value)
                                   /\ at(o).cursor \in (o + 1)..end
  BY StringAtTyped
<1>3. n \in 0..Len(W)
  OBVIOUS
<1> HIDE DEF D, at
<1>4. W \in Seq(Seq(Characters)) /\ Len(W) \in Nat /\ n \in Nat /\ n <= Len(W)
  <2>1. W \in Seq(Seq(Characters))
    BY <1>1
  <2> HIDE DEF W
  <2>2. Len(W) \in Nat
    BY <2>1
  <2> QED
    BY <1>3, <2>1, <2>2
<1> HIDE DEF W
<1>5. d \in Seq(Seq(Characters)) /\ Len(d) = n /\ \A j \in 1..n : d[j] = W[j]
  BY <1>4
<1>6. d \in [1..n -> Seq(Characters)]
  <2> HIDE DEF d
  <2> QED
    BY <1>5, LenProperties
<1> HIDE DEF d
<1>7. PICK G \in [0..n -> Seq(Characters)] : Joined(G, d, n) /\ FlattenSeq(d) = G[n]
  BY <1>4, <1>6, FlattenDef
<1> DEFINE e(k) == c + (k * LongDigits + Len(G[k]))
           T == {k \in 0..n : /\ e(k) \in 0..end /\ Len(D[e(k)]) = Len(W) - k
                              /\ \A j \in 1..(Len(W) - k) : D[e(k)][j] = W[k + j]}
<1>8. LongDigits \in Nat
  BY DigitsAssumption
<1>9. 0 \in T
  <2>1. G[0] = <<>> /\ 0 * LongDigits = 0
    BY <1>7, <1>8 DEF Joined
  <2>2. e(0) = c
    BY <2>1
  <2>3. \A j \in 1..Len(W) : 0 + j = j
    BY <1>4
  <2>4. D[e(0)] = W
    BY <2>2 DEF W
  <2>5. Len(W) - 0 = Len(W) /\ 0 \in 0..n
    BY <1>4
  <2> HIDE DEF e
  <2> QED
    BY <2>2, <2>3, <2>4, <2>5
<1>10. \A k \in 0..(n - 1) : k \in T => k + 1 \in T
  <2> SUFFICES ASSUME NEW k \in 0..(n - 1), k \in T PROVE k + 1 \in T
    OBVIOUS
  <2> DEFINE o == e(k)
             r == at(o)
             w == Len(W)
  <2>1. k \in Nat /\ k + 1 \in 1..n /\ (k + 1) - 1 = k /\ k + 1 \in 0..n /\ k \in 0..n
    <3>1. n \in Nat
      BY <1>4
    <3> HIDE DEF T
    <3> QED
      BY <3>1
  <2>2. o \in 0..end /\ Len(D[o]) = w - k /\ \A j \in 1..(w - k) : D[o][j] = W[k + j]
    OBVIOUS
  <2>3. w \in Nat /\ w - k >= 1
    BY <1>4, <2>1
  <2> HIDE DEF T, w, o
  <2>4. D[o] = IF r.ok THEN <<r.value>> \o D[r.cursor] ELSE <<>>
    BY <1>1, <2>2
  <2>5. r.ok => /\ r.value \in Seq(Characters) /\ r.cursor = (o + LongDigits) + Len(r.value)
                /\ r.cursor \in (o + 1)..end
    BY <1>2, <2>2
  <2> HIDE DEF r
  <2>6. r.ok
    <3> SUFFICES ASSUME ~r.ok PROVE FALSE
      OBVIOUS
    <3>1. D[o] = <<>>
      BY <2>4
    <3> QED
      BY <2>2, <2>3, <3>1
  <2>7. r.cursor \in 0..end /\ o \in Nat
    BY <2>2, <2>5, <2>6
  <2>8. D[r.cursor] \in Seq(Seq(Characters))
    BY <1>1, <2>7
  <2> DEFINE rest == D[r.cursor]
  <2> HIDE DEF rest
  <2>9. D[o] = <<r.value>> \o rest
    BY <2>4, <2>6 DEF rest
  <2>10. Len(D[o]) = 1 + Len(rest) /\ D[o][1] = r.value /\ \A j \in 1..Len(rest) : D[o][1 + j] = rest[j]
    <3>1. rest \in Seq(Seq(Characters)) /\ r.value \in Seq(Characters)
      BY <2>5, <2>6, <2>8 DEF rest
    <3> QED
      BY <2>9, <3>1
  <2>11. Len(rest) \in Nat /\ Len(rest) = w - (k + 1)
    <3>1. Len(rest) \in Nat
      BY <2>8 DEF rest
    <3> DEFINE l == Len(rest)
    <3>2. l \in Nat /\ 1 + l = w - k
      BY <2>2, <2>10, <3>1
    <3> HIDE DEF l
    <3>3. l = w - (k + 1)
      BY <2>1, <2>3, <3>2
    <3> QED
      BY <3>1, <3>3 DEF l
  <2>12. \A j \in 1..(w - (k + 1)) : rest[j] = W[(k + 1) + j]
    <3> TAKE j \in 1..(w - (k + 1))
    <3>1. 1 + j \in 1..(w - k) /\ k + (1 + j) = (k + 1) + j
      BY <2>1, <2>3
    <3> QED
      BY <2>2, <2>10, <2>11, <3>1
  <2>13. r.value = d[k + 1]
    <3>1. 1 \in 1..(w - k)
      BY <2>1, <2>3
    <3> QED
      BY <1>5, <2>1, <2>2, <2>10, <3>1
  <2>14. Len(G[k + 1]) = Len(G[k]) + Len(r.value) /\ Len(G[k]) \in Nat /\ Len(r.value) \in Nat
    <3>1. G[k + 1] = G[k] \o d[k + 1]
      BY <1>7, <2>1 DEF Joined
    <3>2. G[k] \in Seq(Characters) /\ r.value \in Seq(Characters)
      BY <2>1, <2>5, <2>6
    <3> QED
      BY <2>13, <3>1, <3>2
  <2>15. e(k + 1) = r.cursor
    <3> DEFINE p == k * LongDigits
               p1 == (k + 1) * LongDigits
    <3>1. p1 = p + LongDigits /\ p \in Nat
      BY <1>8, <2>1
    <3>2. e(k) = c + (p + Len(G[k])) /\ e(k + 1) = c + (p1 + Len(G[k + 1]))
      OBVIOUS
    <3> DEFINE g == Len(G[k])
               g1 == Len(G[k + 1])
               v == Len(r.value)
    <3>3. c \in Nat /\ g1 = g + v /\ g \in Nat /\ v \in Nat
      BY <2>14
    <3>4. r.cursor = ((c + (p + g)) + LongDigits) + v
      BY <2>5, <2>6, <3>2 DEF o
    <3> HIDE DEF g, g1, v, p, p1
    <3>5. c + (p1 + g1) = r.cursor
      BY <1>8, <3>1, <3>3, <3>4
    <3> QED
      BY <3>2, <3>5 DEF g1
  <2> HIDE DEF e
  <2>16. D[e(k + 1)] = rest
    BY <2>15 DEF rest
  <2> QED
    BY <2>1, <2>7, <2>11, <2>12, <2>15, <2>16 DEF T, w
<1> HIDE DEF T
<1>11. n \in T
  <2>1. \A k \in 0..n : k \in T
    BY <1>4, <1>9, <1>10, Upwards
  <2> QED
    BY <1>4, <2>1
<1>12. e(n) <= end
  BY <1>11 DEF T
<1>13. Len(G[n]) \in Nat
  BY <1>4
<1> QED
  BY <1>5, <1>7, <1>12, <1>13 DEF d, W, D

(* Strings that stand behind each other are found. *)
LEMMA StringsFound ==
    ASSUME NEW buffer \in Seq(Characters), NEW end \in Nat, end <= Len(buffer), NEW c \in Nat, NEW n \in Nat,
           NEW d \in [1..n -> Seq(Characters)], \A k \in 1..n : Len(d[k]) < Pow[LongDigits],
           NEW F \in [0..n -> Seq(Characters)], NEW puts, Joined(F, puts, n),
           \A k \in 1..n : puts[k] = PutStr(d[k], LongDigits),
           At(buffer, c, F[n]), c + Len(F[n]) <= end
    PROVE  /\ Len(DataFrom(buffer, end)[c]) >= n
           /\ \A j \in 1..n : DataFrom(buffer, end)[c][j] = d[j]
<1> DEFINE D == DataFrom(buffer, end)
           at(o) == StringAt(buffer, end, o)
           e(k) == c + Len(F[k])
<1>1. \A o \in 0..end : D[o] \in Seq(Seq(Characters))
                        /\ D[o] = IF at(o).ok THEN <<at(o).value>> \o D[at(o).cursor] ELSE <<>>
  BY DataFromDef
<1>2. \A k \in 1..n : F[k] = F[k - 1] \o PutStr(d[k], LongDigits)
  BY DEF Joined
<1>3. \A k \in 0..n : F[k] \in Seq(Characters) /\ Len(F[k]) \in Nat /\ e(k) \in Nat
  OBVIOUS
<1>4. \A k \in 1..n : /\ k - 1 \in 0..n /\ k \in 0..n
                      /\ d[k] \in Seq(Characters) /\ Len(d[k]) \in Nat
                      /\ PutStr(d[k], LongDigits) \in Seq(Characters)
                      /\ Len(PutStr(d[k], LongDigits)) = LongDigits + Len(d[k])
  <2> TAKE k \in 1..n
  <2>1. k - 1 \in 0..n /\ k \in 0..n /\ d[k] \in Seq(Characters) /\ Len(d[k]) \in Nat
    OBVIOUS
  <2> QED
    BY <2>1, PutStrTyped, DigitsAssumption
<1>5. \A k \in 1..n : Len(F[k]) = Len(F[k - 1]) + (LongDigits + Len(d[k]))
  <2> TAKE k \in 1..n
  <2>1. \A s, t \in Seq(Characters) : Len(s \o t) = Len(s) + Len(t)
    OBVIOUS
  <2> QED
    BY <1>2, <1>3, <1>4, <2>1
<1>6. \A k \in 0..n : At(buffer, c, F[k]) /\ e(k) <= end
  <2> DEFINE T == {k \in 0..n : At(buffer, c, F[k]) /\ e(k) <= end}
  <2>1. n \in T
    OBVIOUS
  <2>2. \A k \in 1..n : k \in T => k - 1 \in T
    <3> SUFFICES ASSUME NEW k \in 1..n, k \in T PROVE k - 1 \in T
      OBVIOUS
    <3>1. At(buffer, c, F[k - 1] \o PutStr(d[k], LongDigits))
      BY <1>2
    <3>2. F[k - 1] \in Seq(Characters) /\ PutStr(d[k], LongDigits) \in Seq(Characters)
      BY <1>3, <1>4
    <3>3. At(buffer, c, F[k - 1])
      BY <3>1, <3>2, AtConcat
    <3>4. e(k - 1) <= end
      <4>1. Len(F[k - 1]) <= Len(F[k]) /\ Len(F[k]) \in Nat /\ Len(F[k - 1]) \in Nat
        <5>1. Len(F[k]) = Len(F[k - 1]) + (LongDigits + Len(d[k])) /\ Len(F[k]) \in Nat
              /\ Len(F[k - 1]) \in Nat /\ Len(d[k]) \in Nat /\ LongDigits \in Nat
          BY <1>3, <1>4, <1>5, DigitsAssumption
        <5> DEFINE f == Len(F[k])
                   g == Len(F[k - 1])
                   l == Len(d[k])
        <5>2. f = g + (LongDigits + l) /\ f \in Nat /\ g \in Nat /\ l \in Nat /\ LongDigits \in Nat
          BY <5>1
        <5> HIDE DEF f, g, l
        <5>3. g <= f
          BY <5>2
        <5> QED
          BY <5>2, <5>3 DEF f, g
      <4>2. e(k) <= end
        OBVIOUS
      <4> QED
        BY <4>1, <4>2
    <3> QED
      BY <1>4, <3>3, <3>4
  <2> HIDE DEF T
  <2>3. \A k \in 0..n : k \in T
    BY <2>1, <2>2, Downwards
  <2> QED
    BY <2>3 DEF T
<1> HIDE DEF at, D
<1>7. \A k \in 1..n : at(e(k - 1)).ok /\ at(e(k - 1)).cursor = e(k) /\ at(e(k - 1)).value = d[k]
  <2> TAKE k \in 1..n
  <2> DEFINE before == [ok |-> TRUE, cursor |-> e(k - 1)]
  <2>1. F[k - 1] \in Seq(Characters) /\ PutStr(d[k], LongDigits) \in Seq(Characters)
    BY <1>3, <1>4
  <2>2. At(buffer, c, F[k - 1] \o PutStr(d[k], LongDigits))
    BY <1>2, <1>4, <1>6
  <2>3. At(buffer, e(k - 1), PutStr(d[k], LongDigits))
    BY <2>1, <2>2, AtConcat
  <2>4. e(k) = (e(k - 1) + LongDigits) + Len(d[k])
    <3> DEFINE f == Len(F[k])
               g == Len(F[k - 1])
               l == Len(d[k])
    <3>1. f \in Nat /\ g \in Nat /\ l \in Nat /\ f = g + (LongDigits + l) /\ LongDigits \in Nat
      BY <1>3, <1>4, <1>5, DigitsAssumption
    <3> HIDE DEF f, g, l
    <3>2. c + f = ((c + g) + LongDigits) + l
      BY <3>1
    <3> QED
      BY <3>2 DEF f, g, l
  <2>5. e(k - 1) \in Nat /\ e(k) <= end /\ d[k] \in Seq(Characters) /\ Len(d[k]) < Pow[LongDigits]
    BY <1>3, <1>4, <1>6
  <2>6. LongDigits \in Nat \ {0}
    BY DigitsAssumption
  <2>7. before.ok /\ before.cursor = e(k - 1)
    OBVIOUS
  <2> HIDE DEF before, e
  <2>8. ReadPutStr(buffer, before, LongDigits, end)
          = [ok |-> TRUE, cursor |-> (e(k - 1) + LongDigits) + Len(d[k]), value |-> d[k]]
    <3> DEFINE o == e(k - 1)
               string == d[k]
    <3>1. /\ before.ok /\ before.cursor = o /\ o \in Nat /\ LongDigits \in Nat \ {0}
          /\ string \in Seq(Characters) /\ Len(string) < Pow[LongDigits]
          /\ At(buffer, o, PutStr(string, LongDigits)) /\ (o + LongDigits) + Len(string) <= end
      BY <2>3, <2>4, <2>5, <2>6, <2>7
    <3> HIDE DEF o, string
    <3>2. ReadPutStr(buffer, before, LongDigits, end)
            = [ok |-> TRUE, cursor |-> (o + LongDigits) + Len(string), value |-> string]
      BY <3>1, ReadPutStrAt
    <3> QED
      BY <3>2 DEF o, string
  <2>9. at(e(k - 1)) = [ok |-> TRUE, cursor |-> e(k), value |-> d[k]]
    BY <2>4, <2>8, Zenon DEF at, StringAt, before
  <2> QED
    BY <2>9
<1> HIDE DEF e
<1> DEFINE T == {k \in 0..n : /\ Len(D[e(k)]) >= n - k
                              /\ \A j \in 1..(n - k) : D[e(k)][j] = d[k + j]}
<1>8. n \in T
  <2>1. e(n) \in 0..end
    BY <1>3, <1>6
  <2>2. D[e(n)] \in Seq(Seq(Characters))
    BY <1>1, <2>1
  <2>3. Len(D[e(n)]) \in Nat /\ n - n = 0 /\ n \in 0..n
    BY <2>2
  <2> QED
    BY <2>3
<1>9. \A k \in 1..n : k \in T => k - 1 \in T
  <2> SUFFICES ASSUME NEW k \in 1..n, k \in T PROVE k - 1 \in T
    OBVIOUS
  <2> DEFINE rest == D[e(k)]
             now == D[e(k - 1)]
  <2>1. e(k) \in 0..end /\ e(k - 1) \in 0..end
    BY <1>3, <1>4, <1>6
  <2>2. rest \in Seq(Seq(Characters)) /\ d[k] \in Seq(Characters)
    BY <1>1, <1>4, <2>1
  <2>3. now = <<d[k]>> \o rest
    <3>1. now = IF at(e(k - 1)).ok THEN <<at(e(k - 1)).value>> \o D[at(e(k - 1)).cursor] ELSE <<>>
      BY <1>1, <2>1, Zenon
    <3>2. at(e(k - 1)).ok /\ at(e(k - 1)).cursor = e(k) /\ at(e(k - 1)).value = d[k]
      BY <1>7, Zenon
    <3> QED
      BY <3>1, <3>2, Zenon
  <2>4. Len(rest) >= n - k /\ \A j \in 1..(n - k) : rest[j] = d[k + j]
    OBVIOUS
  <2> HIDE DEF T, rest, now
  <2>5. Len(now) = 1 + Len(rest) /\ Len(rest) \in Nat
        /\ now[1] = d[k] /\ \A j \in 1..Len(rest) : now[1 + j] = rest[j]
    BY <2>2, <2>3
  <2>6. Len(now) >= n - (k - 1)
    BY <2>4, <2>5
  <2>7. \A j \in 1..(n - (k - 1)) : now[j] = d[(k - 1) + j]
    <3> TAKE j \in 1..(n - (k - 1))
    <3>1. CASE j = 1
      <4>1. (k - 1) + j = k
        BY <3>1
      <4> QED
        BY <2>5, <3>1, <4>1
    <3>2. CASE j # 1
      <4>1. j - 1 \in 1..(n - k) /\ j - 1 \in 1..Len(rest) /\ 1 + (j - 1) = j /\ k + (j - 1) = (k - 1) + j
        <5> DEFINE l == Len(rest)
        <5>1. l \in Nat /\ l >= n - k /\ k \in 1..n /\ n \in Nat
          BY <2>4, <2>5
        <5> HIDE DEF l
        <5>2. j - 1 \in 1..(n - k) /\ j - 1 \in 1..l /\ 1 + (j - 1) = j /\ k + (j - 1) = (k - 1) + j
          BY <3>2, <5>1
        <5> QED
          BY <5>2 DEF l
      <4> QED
        BY <2>4, <2>5, <4>1
    <3> QED
      BY <3>1, <3>2
  <2> QED
    BY <1>4, <2>6, <2>7 DEF T, now
<1> HIDE DEF T
<1>10. 0 \in T
  <2>1. \A k \in 0..n : k \in T
    BY <1>8, <1>9, Downwards
  <2> QED
    BY <2>1
<1>11. e(0) = c
  BY DEF Joined, e
<1>12. /\ Len(D[c]) >= n - 0 /\ \A j \in 1..(n - 0) : D[c][j] = d[0 + j]
  BY <1>10, <1>11, Zenon DEF T
<1>13. n - 0 = n /\ \A j \in 1..n : 0 + j = j
  OBVIOUS
<1> QED
  BY <1>12, <1>13 DEF D

(* What it takes that n strings d stand behind each other at offset c:
   F[k] is the first k of them as they are written. *)
StringsStand(buffer, end, c, n, d, F, puts) ==
    /\ buffer \in Seq(Characters) /\ end \in Nat /\ end <= Len(buffer) /\ c \in Nat /\ n \in Nat
    /\ d \in [1..n -> Seq(Characters)] /\ \A k \in 1..n : Len(d[k]) < Pow[LongDigits]
    /\ F \in [0..n -> Seq(Characters)] /\ Joined(F, puts, n)
    /\ \A k \in 1..n : puts[k] = PutStr(d[k], LongDigits)
    /\ At(buffer, c, F[n]) /\ c + Len(F[n]) <= end

(* The same of strings that stand so. *)
LEMMA StandingFound ==
    ASSUME NEW buffer, NEW end, NEW c, NEW n, NEW d, NEW F, NEW puts,
           StringsStand(buffer, end, c, n, d, F, puts)
    PROVE  /\ Len(DataFrom(buffer, end)[c]) >= n
           /\ \A j \in 1..n : DataFrom(buffer, end)[c][j] = d[j]
  BY StringsFound DEF StringsStand

-----------------------------------------------------------------------------
(* hu_message_decode, field by field *)

MarkRead(buffer, len) == [ok |-> len >= MarkLen /\ buffer[1] = Mark, cursor |-> MarkLen]
FlowRead(buffer, len) == ReadHex(buffer, MarkRead(buffer, len), len, ShortDigits)
TotalRead(buffer, len) == ReadHex(buffer, FlowRead(buffer, len), len, LongDigits)
Fits(buffer, len) == [TotalRead(buffer, len) EXCEPT !.ok = @ /\ TotalRead(buffer, len).value <= len]
End(buffer, len) == TotalRead(buffer, len).value
AppRead(buffer, len) == ReadPutStr(buffer, Fits(buffer, len), ShortDigits, End(buffer, len))
LogicRead(buffer, len) == ReadPutStr(buffer, AppRead(buffer, len), ShortDigits, End(buffer, len))
CountRead(buffer, len) == ReadHex(buffer, LogicRead(buffer, len), End(buffer, len), ShortDigits)
StringsRead(buffer, len) ==
    IF CountRead(buffer, len).ok THEN DataFrom(buffer, End(buffer, len))[CountRead(buffer, len).cursor] ELSE <<>>

(* hu_message_decode in terms of the fields it reads.                      *)
LEMMA DecodeDef ==
    ASSUME NEW buffer, NEW len
    PROVE  Decode(buffer, len)
             = IF CountRead(buffer, len).ok /\ CountRead(buffer, len).value <= Len(StringsRead(buffer, len))
               THEN <<[flow_id |-> FlowRead(buffer, len).value % Pow[ShortDigits],
                       app_id |-> AppRead(buffer, len).value, logic_id |-> LogicRead(buffer, len).value,
                       data |-> SubSeq(StringsRead(buffer, len), 1, CountRead(buffer, len).value)]>>
               ELSE <<>>
BY Zenon DEF Decode, MarkRead, FlowRead, TotalRead, Fits, End, AppRead, LogicRead, CountRead, StringsRead,
    EndOfMessage

(* A total that is more than was received is refused, and it moves no      *)
(* cursor.                                                                 *)
LEMMA FitsDef ==
    ASSUME NEW buffer, NEW len
    PROVE  /\ Fits(buffer, len).ok <=> (TotalRead(buffer, len).ok /\ TotalRead(buffer, len).value <= len)
           /\ Fits(buffer, len).cursor = TotalRead(buffer, len).cursor
<1> DEFINE r == TotalRead(buffer, len)
<1>1. \E ok, cursor, value : r = [ok |-> ok, cursor |-> cursor, value |-> value]
  <2> DEFINE before == FlowRead(buffer, len)
             text == SubSeq(buffer, before.cursor + 1, before.cursor + LongDigits)
  <2>1. r = IF before.ok /\ before.cursor + LongDigits <= len /\ Numerals(text) # {}
        THEN [ok |-> TRUE, cursor |-> before.cursor + LongDigits, value |-> Number(text)]
        ELSE [ok |-> FALSE, cursor |-> 0, value |-> 0]
    BY Zenon DEF TotalRead, ReadHex
  <2> HIDE DEF r, before, text
  <2> QED
    BY <2>1, Zenon
<1>2. Fits(buffer, len) = [r EXCEPT !.ok = r.ok /\ r.value <= len]
  BY Zenon DEF Fits
<1> HIDE DEF r
<1>3. PICK ok, cursor, value : r = [ok |-> ok, cursor |-> cursor, value |-> value]
  BY <1>1
<1> DEFINE b == r.ok /\ r.value <= len
<1>4. [r EXCEPT !.ok = b] = [ok |-> b, cursor |-> cursor, value |-> value]
  <2> HIDE DEF b
  <2> QED
    BY <1>3
<1>5. Fits(buffer, len).ok = b /\ Fits(buffer, len).cursor = r.cursor
  <2> HIDE DEF b
  <2> QED
    BY <1>2, <1>3, <1>4 DEF b
<1> QED
  BY <1>5, Zenon DEF r

(* What holds of a message that is decoded, whatever it was. *)
LEMMA DecodedFields ==
    ASSUME NEW buffer \in Seq(Characters), CountRead(buffer, Len(buffer)).ok
    PROVE  LET len == Len(buffer)
               S == ShortDigits
               app == AppRead(buffer, len)
               logic == LogicRead(buffer, len)
               count == CountRead(buffer, len)
           IN  /\ (MarkLen + S) + LongDigits <= len
               /\ End(buffer, len) = Number(SubSeq(buffer, (MarkLen + S) + 1, (MarkLen + S) + LongDigits))
               /\ End(buffer, len) \in Nat /\ End(buffer, len) <= len
               /\ app.value \in Seq(Characters) /\ logic.value \in Seq(Characters)
               /\ count.value \in Nat /\ count.cursor \in Nat /\ count.cursor <= End(buffer, len)
               /\ count.cursor = (((MarkLen + S) + LongDigits) + (S + Len(app.value)))
                                 + ((S + Len(logic.value)) + S)
<1> DEFINE len == Len(buffer)
           S == ShortDigits
           mark == MarkRead(buffer, len)
           flow == FlowRead(buffer, len)
           total == TotalRead(buffer, len)
           fits == Fits(buffer, len)
           end == End(buffer, len)
           app == AppRead(buffer, len)
           logic == LogicRead(buffer, len)
           count == CountRead(buffer, len)
<1>1. /\ flow = ReadHex(buffer, mark, len, S) /\ total = ReadHex(buffer, flow, len, LongDigits)
      /\ app = ReadPutStr(buffer, fits, S, end) /\ logic = ReadPutStr(buffer, app, S, end)
      /\ count = ReadHex(buffer, logic, end, S)
  BY Zenon DEF FlowRead, TotalRead, AppRead, LogicRead, CountRead
<1>2. mark.cursor = MarkLen /\ MarkLen \in Nat
  BY DEF MarkRead, MarkLen
<1>3. /\ fits.ok <=> (total.ok /\ total.value <= len)
      /\ fits.cursor = total.cursor
  BY FitsDef
<1>4. end = total.value
  BY DEF End
<1>5. len \in Nat /\ len <= Len(buffer) /\ mark.cursor \in Nat /\ S \in 1..LongDigits /\ LongDigits \in 1..LongDigits /\ LongDigits \in Nat
  BY <1>2, DigitsAssumption
<1>6. count.ok
  OBVIOUS
<1> HIDE DEF mark, flow, total, fits, end, app, logic, count
<1>7. logic.ok
  BY <1>1, <1>6, NotRead
<1>8. app.ok
  BY <1>1, <1>7, NotRead
<1>9. fits.ok
  BY <1>1, <1>8, NotRead
<1>10. total.ok /\ total.value <= len
  BY <1>3, <1>9
<1>11. flow.ok
  BY <1>1, <1>10, NotRead
<1>12. flow.cursor = MarkLen + S /\ MarkLen + S <= len
  BY <1>1, <1>2, <1>5, <1>11, ReadHexTyped
<1>13. flow.cursor \in Nat
  BY <1>2, <1>5, <1>12
<1>14. /\ total.cursor = flow.cursor + LongDigits /\ flow.cursor + LongDigits <= len
       /\ total.value = Number(SubSeq(buffer, flow.cursor + 1, flow.cursor + LongDigits))
       /\ total.value \in Nat
  BY <1>1, <1>5, <1>10, <1>13, ReadHexTyped
<1>15. end \in Nat /\ end <= len /\ fits.cursor \in Nat
  BY <1>3, <1>4, <1>5, <1>10, <1>13, <1>14
<1>16. app.value \in Seq(Characters) /\ app.cursor = (fits.cursor + S) + Len(app.value)
       /\ app.cursor <= end /\ app.cursor \in Nat
  BY <1>1, <1>5, <1>8, <1>15, ReadPutStrTyped
<1>17. logic.value \in Seq(Characters) /\ logic.cursor = (app.cursor + S) + Len(logic.value)
       /\ logic.cursor <= end /\ logic.cursor \in Nat
  BY <1>1, <1>5, <1>7, <1>15, <1>16, ReadPutStrTyped
<1>18. count.cursor = logic.cursor + S /\ logic.cursor + S <= end /\ count.value \in Nat
  BY <1>1, <1>5, <1>6, <1>15, <1>17, ReadHexTyped
<1>19. count.cursor = (((MarkLen + S) + LongDigits) + (S + Len(app.value))) + ((S + Len(logic.value)) + S)
  <2> DEFINE la == Len(app.value)
             ll == Len(logic.value)
  <2>1. la \in Nat /\ ll \in Nat /\ S \in Nat
    BY <1>5, <1>16, <1>17
  <2>2. count.cursor = ((((((MarkLen + S) + LongDigits) + S) + la) + S) + ll) + S
    BY <1>3, <1>12, <1>14, <1>16, <1>17, <1>18
  <2> HIDE DEF la, ll, S
  <2>3. count.cursor = (((MarkLen + S) + LongDigits) + (S + la)) + ((S + ll) + S)
    BY <1>2, <1>5, <2>1, <2>2
  <2> QED
    BY <2>3 DEF la, ll, S
<1>20. count.cursor \in Nat /\ count.cursor <= end
  BY <1>5, <1>17, <1>18
<1> QED
  BY <1>4, <1>12, <1>14, <1>15, <1>16, <1>17, <1>18, <1>19, <1>20 DEF mark, flow, total, fits, end, app, logic, count

(* What is decoded fits into the length the message declares.              *)
LEMMA DecodedInside ==
    ASSUME NEW buffer \in Seq(Characters), Decode(buffer, Len(buffer)) # <<>>
    PROVE  LET declared == Number(SubSeq(buffer, (MarkLen + ShortDigits) + 1, (MarkLen + ShortDigits) + LongDigits))
           IN  /\ (MarkLen + ShortDigits) + LongDigits <= Len(buffer)
               /\ CalcLen(Decode(buffer, Len(buffer))[1]) - CrcDigits <= declared
               /\ declared <= Len(buffer)
<1> DEFINE len == Len(buffer)
           S == ShortDigits
           L == LongDigits
           end == End(buffer, len)
           app == AppRead(buffer, len)
           logic == LogicRead(buffer, len)
           count == CountRead(buffer, len)
           W == StringsRead(buffer, len)
           n == count.value
           d == SubSeq(W, 1, n)
           flow == FlowRead(buffer, len).value % Pow[S]
           m == [flow_id |-> flow, app_id |-> app.value, logic_id |-> logic.value, data |-> d]
<1>1. Decode(buffer, len) = IF count.ok /\ n <= Len(W) THEN <<m>> ELSE <<>>
  BY DecodeDef
<1>2. count.ok /\ n <= Len(W) /\ Decode(buffer, len) = <<m>>
  <2> HIDE DEF count, n, W, m
  <2> QED
    BY <1>1
<1>3. /\ (MarkLen + S) + L <= len
      /\ end = Number(SubSeq(buffer, (MarkLen + S) + 1, (MarkLen + S) + L))
      /\ end \in Nat /\ end <= len
      /\ app.value \in Seq(Characters) /\ logic.value \in Seq(Characters)
      /\ n \in Nat /\ count.cursor \in Nat /\ count.cursor <= end
      /\ count.cursor = (((MarkLen + S) + L) + (S + Len(app.value))) + ((S + Len(logic.value)) + S)
  BY <1>2, DecodedFields
<1>4. W = DataFrom(buffer, end)[count.cursor]
  BY <1>2 DEF StringsRead
<1> HIDE DEF end, app, logic, count, W, n, flow
<1>5. count.cursor \in 0..end
  BY <1>3
<1>6. W \in Seq(Seq(Characters))
  BY <1>3, <1>4, <1>5, DataFromDef
<1>7. n \in 0..Len(W)
  BY <1>2, <1>3, <1>6
<1>8. /\ d \in Seq(Seq(Characters)) /\ Len(d) = n /\ Len(FlattenSeq(d)) \in Nat
      /\ count.cursor + (n * L + Len(FlattenSeq(d))) <= end
  BY <1>3, <1>4, <1>5, <1>7, StringsInside
<1> HIDE DEF d
<1>9. m.app_id = app.value /\ m.logic_id = logic.value /\ m.data = d
  OBVIOUS
<1>10. CalcLen(m) = MarkLen + 4 * S + L + CrcDigits + Len(app.value) + Len(logic.value)
                    + n * L + Len(FlattenSeq(d))
  BY <1>8, <1>9 DEF CalcLen
<1> HIDE DEF m
<1>11. CalcLen(m) - CrcDigits <= end
  <2> DEFINE la == Len(app.value)
             ll == Len(logic.value)
             nl == n * L
             f == Len(FlattenSeq(d))
  <2>1. la \in Nat /\ ll \in Nat /\ S \in Nat /\ L \in Nat /\ CrcDigits \in Nat /\ MarkLen \in Nat
    BY <1>3, DigitsAssumption DEF MarkLen
  <2>2. nl \in Nat /\ f \in Nat
    BY <1>3, <1>8, DigitsAssumption
  <2>3. ((((MarkLen + S) + L) + (S + la)) + ((S + ll) + S)) + (nl + f) <= end
    BY <1>3, <1>8
  <2>4. CalcLen(m) = MarkLen + 4 * S + L + CrcDigits + la + ll + nl + f
    BY <1>10
  <2> HIDE DEF la, ll, nl, f, S, L
  <2> QED
    BY <1>3, <2>1, <2>2, <2>3, <2>4
<1>12. Decode(buffer, len)[1] = m
  BY <1>2
<1> QED
  BY <1>3, <1>11, <1>12

-----------------------------------------------------------------------------
(* hu_message_encode, field by field *)

(* The strings that a message may hold are sequences of characters.        *)
LEMMA StringsTyped ==
    ASSUME NEW lens, lens \subseteq Nat, NEW s \in Strings(lens)
    PROVE  s \in Seq(Characters) /\ Len(s) \in lens
<1>1. PICK n \in lens : s = [j \in 1..n |-> IF j = 1 THEN Other ELSE 0]
  BY DEF Strings
<1>2. Other \in Characters /\ 0 \in Characters
  BY DigitsAreCharacters, DigitsAssumption DEF Characters, Mark
<1>3. n \in Nat
  OBVIOUS
<1> QED
  BY <1>1, <1>2, <1>3

(* The fields of a message that is encoded.                                *)
LEMMA MessageTyped ==
    ASSUME NEW message \in HuMessages
    PROVE  /\ message.flow_id \in Nat /\ message.flow_id < Pow[ShortDigits]
           /\ message.app_id \in Seq(Characters) /\ Len(message.app_id) < Pow[ShortDigits]
           /\ message.logic_id \in Seq(Characters) /\ Len(message.logic_id) < Pow[ShortDigits]
           /\ message.data \in Seq(Seq(Characters)) /\ Len(message.data) < Pow[ShortDigits]
           /\ message = [flow_id |-> message.flow_id, app_id |-> message.app_id,
                         logic_id |-> message.logic_id, data |-> message.data]
<1>1. /\ message.flow_id \in FlowIds
      /\ message.app_id \in Strings(NameLens) /\ message.logic_id \in Strings(NameLens)
      /\ message.data \in UNION {[1..n -> Strings(DataLens)] : n \in 0..MaxData}
      /\ message = [flow_id |-> message.flow_id, app_id |-> message.app_id,
                    logic_id |-> message.logic_id, data |-> message.data]
  BY DEF HuMessages
<1> DEFINE p == Pow[ShortDigits]
<1>2. p \in Nat
  BY PowDef, DigitsAssumption
<1>3. FlowIds \subseteq 0..(p - 1) /\ NameLens \subseteq 0..(p - 1) /\ MaxData \in 0..(p - 1)
      /\ DataLens \subseteq Nat
  BY FieldsAssumption
<1> HIDE DEF p
<1>4. NameLens \subseteq Nat /\ \A n \in 0..(p - 1) : n \in Nat /\ n < p
  BY <1>2, <1>3
<1>5. message.app_id \in Seq(Characters) /\ Len(message.app_id) \in NameLens
  BY <1>1, <1>4, StringsTyped
<1>6. message.logic_id \in Seq(Characters) /\ Len(message.logic_id) \in NameLens
  BY <1>1, <1>4, StringsTyped
<1>7. PICK n \in 0..MaxData : message.data \in [1..n -> Strings(DataLens)]
  BY <1>1
<1>8. \A j \in 1..n : message.data[j] \in Seq(Characters)
  BY <1>3, <1>7, StringsTyped
<1>9. n \in Nat /\ n < p
  BY <1>2, <1>3
<1>10. message.data \in Seq(Seq(Characters)) /\ Len(message.data) = n
  <2> DEFINE d == message.data
  <2>1. d = [j \in 1..n |-> d[j]] /\ \A j \in 1..n : d[j] \in Seq(Characters)
    BY <1>7, <1>8
  <2> HIDE DEF d
  <2>2. [j \in 1..n |-> d[j]] \in Seq(Seq(Characters)) /\ Len([j \in 1..n |-> d[j]]) = n
    BY <1>9, <2>1
  <2> QED
    BY <2>1, <2>2 DEF d
<1>11. message.flow_id \in Nat /\ message.flow_id < p
  BY <1>1, <1>3, <1>4
<1>12. Len(message.app_id) < p /\ Len(message.logic_id) < p
  BY <1>3, <1>4, <1>5, <1>6
<1> QED
  BY <1>1, <1>5, <1>6, <1>9, <1>10, <1>11, <1>12 DEF p

(* Padding only adds to a message.                                         *)
LEMMA ChunkedIsWhole ==
    ASSUME NEW total \in Nat, NEW c \in Nat
    PROVE  ChunkedLen(total, c) \in Nat /\ ChunkedLen(total, c) >= total
<1>1. CASE c = 0
  BY <1>1 DEF ChunkedLen
<1>2. CASE c # 0
  <2> DEFINE x == total + (c - 1)
             q == x \div c
             r == x % c
  <2>1. x \in Nat /\ c \in Nat \ {0}
    BY <1>2
  <2>2. q \in Nat /\ r \in Nat /\ r < c /\ x = c * q + r
    BY <2>1
  <2>3. ChunkedLen(total, c) = q * c
    BY <1>2 DEF ChunkedLen
  <2> HIDE DEF q, r
  <2>4. q * c = c * q /\ q * c \in Nat
    BY <2>1, <2>2
  <2>5. q * c >= total
    BY <2>2, <2>4
  <2> QED
    BY <2>3, <2>4, <2>5
<1> QED
  BY <1>1, <1>2

(* Two texts make one, as long as both.                                    *)
LEMMA Joins ==
    ASSUME NEW s \in Seq(Characters), NEW t \in Seq(Characters)
    PROVE  s \o t \in Seq(Characters) /\ Len(s \o t) = Len(s) + Len(t)
OBVIOUS

(* Where the fields of an encoded message stand. *)
LEMMA EncodedFields ==
    ASSUME NEW message \in HuMessages, NEW chunk_len \in ChunkLens
    PROVE  LET e == Encode(message, chunk_len)
               S == ShortDigits
               L == LongDigits
               d == message.data
               n == Len(d)
               la == Len(message.app_id)
               ll == Len(message.logic_id)
               c == (((MarkLen + S) + L) + (S + la)) + ((S + ll) + S)
               P == FlattenSeq([j \in 1..n |-> PutStr(d[j], L)])
           IN  /\ e \in Seq(Characters) /\ Len(e) = ChunkedLen(CalcLen(message), chunk_len)
               /\ Len(e) \in Nat /\ Len(e) < Pow[L]
               /\ At(e, 0, <<Mark>>) /\ At(e, MarkLen, Hex(message.flow_id, S))
               /\ At(e, MarkLen + S, Hex(Len(e), L))
               /\ At(e, (MarkLen + S) + L, PutStr(message.app_id, S))
               /\ At(e, ((MarkLen + S) + L) + (S + la), PutStr(message.logic_id, S))
               /\ At(e, (((MarkLen + S) + L) + (S + la)) + (S + ll), Hex(n, S))
               /\ P \in Seq(Characters) /\ At(e, c, P) /\ c + Len(P) <= Len(e)
<1> DEFINE e == Encode(message, chunk_len)
           S == ShortDigits
           L == LongDigits
           d == message.data
           n == Len(d)
           la == Len(message.app_id)
           ll == Len(message.logic_id)
           c == (((MarkLen + S) + L) + (S + la)) + ((S + ll) + S)
           puts == [j \in 1..n |-> PutStr(d[j], L)]
           P == FlattenSeq(puts)
           total == CalcLen(message)
           chunked == ChunkedLen(total, chunk_len)
           p1 == <<Mark>>
           p2 == Hex(message.flow_id, S)
           p3 == Hex(chunked, L)
           p4 == PutStr(message.app_id, S)
           p5 == PutStr(message.logic_id, S)
           p6 == Hex(n, S)
           p8 == Hex(0, CrcDigits)
           p9 == [j \in 1..(chunked - total) |-> Other]
           e2 == p1 \o p2
           e3 == e2 \o p3
           e4 == e3 \o p4
           e5 == e4 \o p5
           e6 == e5 \o p6
           e7 == e6 \o P
           e8 == e7 \o p8
           e9 == e8 \o p9
<1>1. e = e9
  BY Zenon DEF Encode
<1>2. /\ message.flow_id \in Nat
      /\ message.app_id \in Seq(Characters) /\ message.logic_id \in Seq(Characters)
      /\ d \in Seq(Seq(Characters))
  BY MessageTyped
<1>3. la \in Nat /\ ll \in Nat /\ n \in Nat /\ S \in Nat /\ L \in Nat /\ CrcDigits \in Nat
      /\ MarkLen = 1 /\ chunk_len \in Nat
  BY <1>2, DigitsAssumption, FieldsAssumption DEF MarkLen
<1>4. d \in [1..n -> Seq(Characters)] /\ \A j \in 1..n : d[j] \in Seq(Characters)
  <2> HIDE DEF d
  <2> QED
    BY <1>2
<1>5. puts \in [1..n -> Seq(Characters)]
  BY <1>3, <1>4, PutStrTyped
<1>6. PICK F \in [0..n -> Seq(Characters)] : Joined(F, puts, n) /\ P = F[n]
  BY <1>3, <1>5, FlattenDef
<1>7. PICK G \in [0..n -> Seq(Characters)] : Joined(G, d, n) /\ FlattenSeq(d) = G[n]
  BY <1>3, <1>4, FlattenDef
<1>8. P \in Seq(Characters) /\ Len(P) = n * L + Len(FlattenSeq(d)) /\ Len(FlattenSeq(d)) \in Nat
  <2>1. Len(F[n]) = n * L + Len(G[n])
    <3> HIDE DEF n, d, P
    <3>1. \A k \in 0..n : Len(F[k]) = k * LongDigits + Len(G[k])
      BY <1>3, <1>4, <1>6, <1>7, JoinedLength
    <3>2. n \in 0..n
      BY <1>3
    <3> QED
      BY <3>1, <3>2
  <2>2. F[n] \in Seq(Characters) /\ G[n] \in Seq(Characters)
    BY <1>3
  <2> HIDE DEF P, d
  <2> QED
    BY <1>6, <1>7, <2>1, <2>2
<1>9. total = MarkLen + 4 * S + L + CrcDigits + la + ll + n * L + Len(FlattenSeq(d))
  BY Zenon DEF CalcLen
<1>10. n * L \in Nat /\ total \in Nat
  <2>1. n * L \in Nat
    BY <1>3
  <2> DEFINE nl == n * L
             f == Len(FlattenSeq(d))
  <2>2. total = MarkLen + 4 * S + L + CrcDigits + la + ll + nl + f
    BY <1>9
  <2>3. nl \in Nat /\ f \in Nat
    BY <1>8, <2>1
  <2> HIDE DEF nl, f, total, la, ll, S, L
  <2>4. total \in Nat
    BY <1>3, <2>2, <2>3
  <2> QED
    BY <2>1, <2>4
<1> HIDE DEF total
<1>11. chunked \in Nat /\ chunked >= total /\ chunked < Pow[L]
  BY <1>3, <1>10, ChunkedIsWhole, TotalAssumption DEF total
<1> HIDE DEF e, d, puts, P, chunked, n, la, ll
<1>12. p1 \in Seq(Characters) /\ Len(p1) = MarkLen
  BY DigitsAreCharacters
<1>13. /\ p2 \in Seq(Characters) /\ Len(p2) = S /\ p3 \in Seq(Characters) /\ Len(p3) = L
       /\ p6 \in Seq(Characters) /\ Len(p6) = S /\ p8 \in Seq(Characters) /\ Len(p8) = CrcDigits
  <2>1. \A v, k \in Nat : Hex(v, k) \in Seq(Characters) /\ Len(Hex(v, k)) = k
    <3> TAKE v, k \in Nat
    <3>1. Hex(v, k) \in Seq(0..(Base - 1)) /\ Len(Hex(v, k)) = k
      BY HexTyped
    <3> QED
      BY <3>1, SeqMonotonic, DigitsAreCharacters
  <2>2. 0 \in Nat
    OBVIOUS
  <2> QED
    BY <1>2, <1>3, <1>11, <2>1, <2>2, Zenon
<1>14. /\ p4 \in Seq(Characters) /\ Len(p4) = S + la
       /\ p5 \in Seq(Characters) /\ Len(p5) = S + ll
  BY <1>2, <1>3, PutStrTyped DEF la, ll
<1>15. p9 \in Seq(Characters) /\ Len(p9) = chunked - total
  <2>1. chunked - total \in Nat /\ Other \in Characters
    BY <1>10, <1>11, DigitsAreCharacters
  <2> DEFINE x == chunked - total
  <2> HIDE DEF x
  <2>2. [j \in 1..x |-> Other] \in Seq(Characters) /\ Len([j \in 1..x |-> Other]) = x
    BY <2>1 DEF x
  <2> QED
    BY <2>2 DEF x
<1> HIDE DEF p1, p2, p3, p4, p5, p6, p8, p9
<1>16. e2 \in Seq(Characters) /\ Len(e2) = MarkLen + S
  BY <1>12, <1>13, Joins
<1> HIDE DEF e2
<1>17. e3 \in Seq(Characters) /\ Len(e3) = (MarkLen + S) + L
  BY <1>13, <1>16, Joins
<1> HIDE DEF e3
<1>18. e4 \in Seq(Characters) /\ Len(e4) = ((MarkLen + S) + L) + (S + la)
  BY <1>14, <1>17, Joins
<1> HIDE DEF e4
<1>19. e5 \in Seq(Characters) /\ Len(e5) = (((MarkLen + S) + L) + (S + la)) + (S + ll)
  BY <1>14, <1>18, Joins
<1> HIDE DEF e5
<1>20. e6 \in Seq(Characters) /\ Len(e6) = ((((MarkLen + S) + L) + (S + la)) + (S + ll)) + S
  BY <1>13, <1>19, Joins
<1> HIDE DEF e6
<1>21. e7 \in Seq(Characters) /\ Len(e7) = Len(e6) + Len(P)
  BY <1>8, <1>20, Joins
<1> HIDE DEF e7
<1>22. e8 \in Seq(Characters) /\ Len(e8) = Len(e7) + CrcDigits
  BY <1>13, <1>21, Joins
<1> HIDE DEF e8
<1>23. e9 \in Seq(Characters) /\ Len(e9) = Len(e8) + (chunked - total)
  BY <1>15, <1>22, Joins
<1> HIDE DEF e9
<1>24. Len(e6) = c
  BY <1>3, <1>20
<1>25. Len(e8) = total
  <2> DEFINE nl == n * L
             f == Len(FlattenSeq(d))
  <2>1. total = MarkLen + 4 * S + L + CrcDigits + la + ll + nl + f
    BY <1>9
  <2>2. Len(e8) = (c + (nl + f)) + CrcDigits
    BY <1>8, <1>21, <1>22, <1>24
  <2>3. nl \in Nat /\ f \in Nat
    BY <1>8, <1>10
  <2> HIDE DEF nl, f, S, L
  <2> QED
    BY <1>3, <2>1, <2>2, <2>3
<1>26. Len(e9) = chunked
  BY <1>10, <1>11, <1>23, <1>25
<1>27. At(e9, 0, e9)
  <2>1. \A j \in 1..Len(e9) : 0 + j = j
    OBVIOUS
  <2>2. 0 + Len(e9) <= Len(e9)
    BY <1>11, <1>26
  <2> QED
    BY <2>1, <2>2 DEF At
<1>28. At(e9, 0, e8)
  <2>1. At(e9, 0, e8 \o p9)
    BY <1>27 DEF e9
  <2> QED
    BY <1>15, <1>22, <1>23, <2>1, AtConcat
<1>29. \A s, t \in Seq(Characters) : At(e9, 0, s \o t) => At(e9, 0, s) /\ At(e9, Len(s), t)
  <2> TAKE s, t \in Seq(Characters)
  <2> HAVE At(e9, 0, s \o t)
  <2>1. At(e9, 0, s) /\ At(e9, 0 + Len(s), t)
    BY <1>23, AtConcat
  <2>2. 0 + Len(s) = Len(s)
    OBVIOUS
  <2> QED
    BY <2>1, <2>2
<1>30. At(e9, 0, e7)
  BY <1>13, <1>21, <1>28, <1>29, Zenon DEF e8
<1>31. At(e9, 0, e6) /\ At(e9, c, P)
  BY <1>8, <1>20, <1>24, <1>29, <1>30, Zenon DEF e7
<1>32. At(e9, 0, e5) /\ At(e9, (((MarkLen + S) + L) + (S + la)) + (S + ll), p6)
  BY <1>13, <1>19, <1>29, <1>31, Zenon DEF e6
<1>33. At(e9, 0, e4) /\ At(e9, ((MarkLen + S) + L) + (S + la), p5)
  BY <1>14, <1>18, <1>29, <1>32, Zenon DEF e5
<1>34. At(e9, 0, e3) /\ At(e9, (MarkLen + S) + L, p4)
  BY <1>14, <1>17, <1>29, <1>33, Zenon DEF e4
<1>35. At(e9, 0, e2) /\ At(e9, MarkLen + S, p3)
  BY <1>13, <1>16, <1>29, <1>34, Zenon DEF e3
<1>36. At(e9, 0, p1) /\ At(e9, MarkLen, p2)
  BY <1>12, <1>13, <1>29, <1>35, Zenon DEF e2
<1>37. c + Len(P) <= Len(e9)
  BY <1>31 DEF At
<1>38. p3 = Hex(Len(e9), L)
  BY <1>26, Zenon DEF p3
<1> HIDE DEF c
<1>39. /\ e \in Seq(Characters) /\ Len(e) = chunked /\ Len(e) \in Nat /\ Len(e) < Pow[L]
       /\ At(e, 0, p1) /\ At(e, MarkLen, p2) /\ At(e, MarkLen + S, Hex(Len(e), L))
       /\ At(e, (MarkLen + S) + L, p4)
       /\ At(e, ((MarkLen + S) + L) + (S + la), p5)
       /\ At(e, (((MarkLen + S) + L) + (S + la)) + (S + ll), p6)
       /\ P \in Seq(Characters) /\ At(e, c, P) /\ c + Len(P) <= Len(e)
  BY <1>1, <1>8, <1>11, <1>23, <1>26, <1>31, <1>32, <1>33, <1>34, <1>35, <1>36, <1>37, <1>38, Zenon
<1> QED
  BY <1>39, Zenon DEF e, chunked, total, p1, p2, p4, p5, p6, P, puts, c, la, ll, n, d

-----------------------------------------------------------------------------
(* No string is longer than all of them. *)
LEMMA JoinedBound ==
    ASSUME NEW n \in Nat, NEW s \in [1..n -> Seq(Characters)], NEW F \in [0..n -> Seq(Characters)], Joined(F, s, n)
    PROVE  \A j \in 1..n : Len(s[j]) <= Len(F[n])
<1> DEFINE T == {k \in 0..n : \A j \in 1..k : Len(s[j]) <= Len(F[k])}
<1>1. 0 \in T
  OBVIOUS
<1>2. \A k \in 0..(n - 1) : k \in T => k + 1 \in T
  <2> SUFFICES ASSUME NEW k \in 0..(n - 1), k \in T PROVE k + 1 \in T
    OBVIOUS
  <2>1. k + 1 \in 1..n /\ (k + 1) - 1 = k /\ k \in 0..n /\ k + 1 \in 0..n
    OBVIOUS
  <2>2. F[k + 1] = F[k] \o s[k + 1]
    BY <2>1 DEF Joined
  <2>3. F[k] \in Seq(Characters) /\ s[k + 1] \in Seq(Characters)
    BY <2>1
  <2>4. Len(F[k + 1]) = Len(F[k]) + Len(s[k + 1]) /\ Len(F[k]) \in Nat /\ Len(s[k + 1]) \in Nat
    BY <2>2, <2>3, Joins, LenProperties
  <2>5. \A j \in 1..(k + 1) : Len(s[j]) <= Len(F[k + 1])
    <3> TAKE j \in 1..(k + 1)
    <3>1. CASE j = k + 1
      BY <2>4, <3>1
    <3>2. CASE j # k + 1
      <4>1. j \in 1..k /\ j \in 1..n
        BY <2>1, <3>2
      <4>2. Len(s[j]) <= Len(F[k]) /\ s[j] \in Seq(Characters)
        BY <4>1
      <4>3. Len(s[j]) \in Nat
        BY <4>2
      <4> DEFINE l == Len(s[j])
                 f == Len(F[k])
                 f1 == Len(F[k + 1])
                 l1 == Len(s[k + 1])
      <4>4. l <= f /\ l \in Nat
        BY <4>2, <4>3
      <4>5. f1 = f + l1 /\ f \in Nat /\ l1 \in Nat
        BY <2>4
      <4> HIDE DEF T, l, f, f1, l1
      <4>6. l <= f1
        BY <4>4, <4>5
      <4> QED
        BY <4>6 DEF l, f1
    <3> QED
      BY <3>1, <3>2
  <2> QED
    BY <2>1, <2>5
<1> HIDE DEF T
<1>3. n \in T
  <2>1. \A k \in 0..n : k \in T
    BY <1>1, <1>2, Upwards
  <2> QED
    BY <2>1
<1> QED
  BY <1>3 DEF T

(* What is encoded is decoded again. *)
LEMMA DecodeEncoded ==
    ASSUME NEW message \in HuMessages, NEW chunk_len \in ChunkLens
    PROVE  LET e == Encode(message, chunk_len) IN Decode(e, Len(e)) = <<message>>
<1> DEFINE e == Encode(message, chunk_len)
           len == Len(e)
           S == ShortDigits
           L == LongDigits
           d == message.data
           n == Len(d)
           la == Len(message.app_id)
           ll == Len(message.logic_id)
           c1 == MarkLen + S
           c2 == c1 + L
           c3 == c2 + (S + la)
           c4 == c3 + (S + ll)
           c == c2 + (S + la) + ((S + ll) + S)
           puts == [j \in 1..n |-> PutStr(d[j], L)]
           P == FlattenSeq(puts)
           mark == MarkRead(e, len)
           flow == FlowRead(e, len)
           total == TotalRead(e, len)
           fits == Fits(e, len)
           end == End(e, len)
           app == AppRead(e, len)
           logic == LogicRead(e, len)
           count == CountRead(e, len)
           W == StringsRead(e, len)
<1>1. /\ message.flow_id \in Nat /\ message.flow_id < Pow[S]
      /\ message.app_id \in Seq(Characters) /\ la < Pow[S]
      /\ message.logic_id \in Seq(Characters) /\ ll < Pow[S]
      /\ d \in Seq(Seq(Characters)) /\ n < Pow[S]
      /\ message = [flow_id |-> message.flow_id, app_id |-> message.app_id,
                    logic_id |-> message.logic_id, data |-> d]
  BY MessageTyped
<1>2. /\ e \in Seq(Characters) /\ len \in Nat /\ len < Pow[L]
      /\ At(e, 0, <<Mark>>) /\ At(e, MarkLen, Hex(message.flow_id, S)) /\ At(e, c1, Hex(len, L))
      /\ At(e, c2, PutStr(message.app_id, S)) /\ At(e, c3, PutStr(message.logic_id, S))
      /\ At(e, c4, Hex(n, S)) /\ P \in Seq(Characters) /\ At(e, c, P) /\ c + Len(P) <= len
  BY EncodedFields
<1>3. /\ S \in Nat \ {0} /\ L \in Nat \ {0} /\ S \in Nat /\ L \in Nat /\ MarkLen = 1 /\ MarkLen \in Nat
      /\ la \in Nat /\ ll \in Nat /\ n \in Nat /\ Len(P) \in Nat
  <2>1. la \in Nat /\ ll \in Nat /\ n \in Nat /\ Len(P) \in Nat
    <3> HIDE DEF d, P
    <3> QED
      BY <1>1, <1>2
  <2> QED
    BY <2>1, DigitsAssumption DEF MarkLen
<1>4. /\ Decode(e, len) = IF count.ok /\ count.value <= Len(W)
               THEN <<[flow_id |-> flow.value % Pow[S], app_id |-> app.value, logic_id |-> logic.value,
                       data |-> SubSeq(W, 1, count.value)]>>
               ELSE <<>>
  BY DecodeDef
<1>5. /\ flow = ReadHex(e, mark, len, S) /\ total = ReadHex(e, flow, len, L)
      /\ app = ReadPutStr(e, fits, S, end) /\ logic = ReadPutStr(e, app, S, end)
      /\ count = ReadHex(e, logic, end, S)
  BY Zenon DEF FlowRead, TotalRead, AppRead, LogicRead, CountRead
<1>6. mark.ok /\ mark.cursor = MarkLen
  <2>1. 1 \in 1..Len(<<Mark>>) /\ Len(<<Mark>>) = 1 /\ <<Mark>>[1] = Mark /\ 0 + 1 = 1
    OBVIOUS
  <2>2. e[1] = Mark /\ 1 <= len
    <3> HIDE DEF e
    <3>1. 0 + 1 <= len /\ e[0 + 1] = Mark
      BY <1>2, <2>1 DEF At
    <3> QED
      BY <2>1, <3>1
  <2> HIDE DEF e, len
  <2> DEFINE b == len >= MarkLen /\ e[1] = Mark
  <2>3. b
    BY <1>2, <1>3, <2>2
  <2>4. mark = [ok |-> b, cursor |-> MarkLen]
    BY Zenon DEF MarkRead
  <2> HIDE DEF b, mark
  <2>5. mark.ok = b /\ mark.cursor = MarkLen
    BY <2>4
  <2> QED
    BY <2>3, <2>5, Zenon
<1>7. fits.ok <=> (total.ok /\ total.value <= len)
  BY FitsDef
<1>8. fits.cursor = total.cursor
  BY FitsDef
<1>9. end = total.value /\ (count.ok => W = DataFrom(e, end)[count.cursor])
  BY Zenon DEF End, StringsRead
<1> HIDE DEF mark, flow, total, fits, end, app, logic, count, W, P, d, la, ll, n, e, len
<1>10. /\ c1 \in Nat /\ c2 \in Nat /\ c3 \in Nat /\ c4 \in Nat /\ c \in Nat /\ c = c4 + S
       /\ c1 <= len /\ c2 <= len /\ c3 <= len /\ c4 <= len /\ c <= len
       /\ c3 = (c2 + S) + la /\ c4 = (c3 + S) + ll /\ (c2 + S) + la <= len /\ (c3 + S) + ll <= len
       /\ c4 + S <= len
  <2> DEFINE p == Len(P)
  <2>1. p \in Nat /\ c + p <= len
    BY <1>2, <1>3
  <2> HIDE DEF p, S, L
  <2> QED
    BY <1>2, <1>3, <2>1
<1> HIDE DEF c1, c2, c3, c4, c
<1>11. flow = [ok |-> TRUE, cursor |-> c1, value |-> message.flow_id]
  <2>1. c1 = MarkLen + S
    BY DEF c1
  <2>2. /\ e \in Seq(Characters) /\ len \in Nat /\ MarkLen \in Nat /\ mark.ok /\ mark.cursor = MarkLen
        /\ S \in Nat \ {0} /\ message.flow_id \in Nat /\ message.flow_id < Pow[S]
        /\ At(e, MarkLen, Hex(message.flow_id, S)) /\ MarkLen + S <= len
    BY <1>1, <1>2, <1>3, <1>6, <1>10, <2>1
  <2>3. ReadHex(e, mark, len, S) = [ok |-> TRUE, cursor |-> MarkLen + S, value |-> message.flow_id]
    BY <2>2, ReadHexAt
  <2> QED
    BY <1>5, <2>1, <2>3
<1>12. flow.ok /\ flow.cursor = c1 /\ flow.value = message.flow_id
  BY <1>11
<1>13. total = [ok |-> TRUE, cursor |-> c2, value |-> len]
  <2>1. c2 = c1 + L
    BY DEF c2
  <2> QED
    <3>1. /\ e \in Seq(Characters) /\ len \in Nat /\ c1 \in Nat /\ flow.ok /\ flow.cursor = c1
          /\ L \in Nat \ {0} /\ len < Pow[L] /\ At(e, c1, Hex(len, L)) /\ c1 + L <= len
      BY <1>2, <1>3, <1>10, <1>12, <2>1
    <3>2. ReadHex(e, flow, len, L) = [ok |-> TRUE, cursor |-> c1 + L, value |-> len]
      BY <3>1, ReadHexAt
    <3> QED
      BY <1>5, <2>1, <3>2
<1>14. fits.ok /\ fits.cursor = c2 /\ end = len
  <2>1. total.ok /\ total.cursor = c2 /\ total.value = len /\ len <= len
    BY <1>2, <1>13
  <2> QED
    BY <1>7, <1>8, <1>9, <2>1
<1>15. app = [ok |-> TRUE, cursor |-> c3, value |-> message.app_id]
  <2>1. app = [ok |-> TRUE, cursor |-> (c2 + S) + Len(message.app_id), value |-> message.app_id]
    <3> DEFINE string == message.app_id
    <3>1. /\ e \in Seq(Characters) /\ len \in Nat /\ c2 \in Nat /\ fits.ok /\ fits.cursor = c2
          /\ S \in Nat \ {0} /\ string \in Seq(Characters) /\ Len(string) < Pow[S]
          /\ At(e, c2, PutStr(string, S)) /\ (c2 + S) + Len(string) <= len
      BY <1>1, <1>2, <1>3, <1>10, <1>14 DEF la
    <3> HIDE DEF string
    <3>2. ReadPutStr(e, fits, S, len) = [ok |-> TRUE, cursor |-> (c2 + S) + Len(string), value |-> string]
      BY <3>1, ReadPutStrAt
    <3> QED
      BY <1>5, <1>14, <3>2 DEF string
  <2> QED
    BY <1>10, <2>1 DEF la
<1>16. app.ok /\ app.cursor = c3 /\ app.value = message.app_id
  BY <1>15
<1>17. logic = [ok |-> TRUE, cursor |-> c4, value |-> message.logic_id]
  <2>1. logic = [ok |-> TRUE, cursor |-> (c3 + S) + Len(message.logic_id), value |-> message.logic_id]
    <3> DEFINE string == message.logic_id
    <3>1. /\ e \in Seq(Characters) /\ len \in Nat /\ c3 \in Nat /\ app.ok /\ app.cursor = c3
          /\ S \in Nat \ {0} /\ string \in Seq(Characters) /\ Len(string) < Pow[S]
          /\ At(e, c3, PutStr(string, S)) /\ (c3 + S) + Len(string) <= len
      BY <1>1, <1>2, <1>3, <1>10, <1>16 DEF ll
    <3> HIDE DEF string
    <3>2. ReadPutStr(e, app, S, len) = [ok |-> TRUE, cursor |-> (c3 + S) + Len(string), value |-> string]
      BY <3>1, ReadPutStrAt
    <3> QED
      BY <1>5, <1>14, <3>2 DEF string
  <2> QED
    BY <1>10, <2>1 DEF ll
<1>18. logic.ok /\ logic.cursor = c4 /\ logic.value = message.logic_id
  BY <1>17
<1>19. count = [ok |-> TRUE, cursor |-> c4 + S, value |-> n]
  <2>1. /\ e \in Seq(Characters) /\ len \in Nat /\ c4 \in Nat /\ logic.ok /\ logic.cursor = c4
        /\ S \in Nat \ {0} /\ n \in Nat /\ n < Pow[S] /\ At(e, c4, Hex(n, S)) /\ c4 + S <= len
    BY <1>1, <1>2, <1>3, <1>10, <1>18
  <2>2. ReadHex(e, logic, len, S) = [ok |-> TRUE, cursor |-> c4 + S, value |-> n]
    BY <2>1, ReadHexAt
  <2> QED
    BY <1>5, <1>14, <2>2
<1>20. count.ok /\ count.cursor = c /\ count.value = n
  BY <1>10, <1>19
<1>21. W = DataFrom(e, len)[c]
  BY <1>9, <1>14, <1>20
<1>22. d \in [1..n -> Seq(Characters)] /\ \A j \in 1..n : d[j] \in Seq(Characters)
  BY <1>1 DEF n
<1>23. puts \in [1..n -> Seq(Characters)]
       /\ \A j \in 1..n : puts[j] = PutStr(d[j], L) /\ Len(puts[j]) = L + Len(d[j]) /\ Len(d[j]) \in Nat
  <2>1. \A j \in 1..n : /\ puts[j] = PutStr(d[j], L)
                         /\ PutStr(d[j], L) \in Seq(Characters) /\ Len(PutStr(d[j], L)) = L + Len(d[j])
                         /\ Len(d[j]) \in Nat
    <3> TAKE j \in 1..n
    <3>1. d[j] \in Seq(Characters)
      BY <1>22
    <3>2. Len(d[j]) \in Nat
      BY <3>1
    <3>3. PutStr(d[j], L) \in Seq(Characters) /\ Len(PutStr(d[j], L)) = L + Len(d[j])
      BY <1>3, <3>1, PutStrTyped
    <3> QED
      BY <3>2, <3>3
  <2>2. puts = [j \in 1..n |-> puts[j]]
    OBVIOUS
  <2> HIDE DEF puts
  <2>3. \A j \in 1..n : puts[j] \in Seq(Characters)
    BY <2>1
  <2> QED
    BY <2>1, <2>2, <2>3
<1>24. P = FlattenSeq(puts)
  BY DEF P
<1> HIDE DEF puts
<1>25. PICK F \in [0..n -> Seq(Characters)] : Joined(F, puts, n) /\ P = F[n]
  <2>1. puts \in [1..n -> Seq(Characters)] /\ n \in Nat
    BY <1>3, <1>23
  <2> QED
    BY <1>24, <2>1, FlattenDef
<1>26. \A j \in 1..n : Len(d[j]) < Pow[L]
  <2> TAKE j \in 1..n
  <2>1. Len(puts[j]) <= Len(P)
    BY <1>3, <1>23, <1>25, JoinedBound
  <2>2. Len(P) <= len /\ Pow[L] \in Nat
    BY <1>2, <1>3, <1>10, PowDef
  <2>3. Len(puts[j]) = L + Len(d[j]) /\ Len(d[j]) \in Nat
    BY <1>23
  <2> QED
    BY <1>2, <1>3, <2>1, <2>2, <2>3
<1>27. Len(W) >= n /\ \A j \in 1..n : W[j] = d[j]
  <2>1. At(e, c, F[n]) /\ c + Len(F[n]) <= len /\ len <= Len(e)
    BY <1>2, <1>25 DEF len
  <2>2. Joined(F, puts, n) /\ \A k \in 1..n : puts[k] = PutStr(d[k], LongDigits)
    BY <1>23, <1>25
  <2> QED
    <3>1. /\ e \in Seq(Characters) /\ len \in Nat /\ c \in Nat /\ n \in Nat
          /\ d \in [1..n -> Seq(Characters)] /\ \A k \in 1..n : Len(d[k]) < Pow[LongDigits]
      BY <1>2, <1>3, <1>10, <1>22, <1>26
    <3>2. StringsStand(e, len, c, n, d, F, puts)
      BY <1>25, <2>1, <2>2, <3>1 DEF StringsStand
    <3>3. /\ Len(DataFrom(e, len)[c]) >= n
          /\ \A j \in 1..n : DataFrom(e, len)[c][j] = d[j]
      BY <3>2, StandingFound
    <3> QED
      BY <1>21, <3>3, Zenon
<1>28. W \in Seq(Seq(Characters))
  <2>1. c \in 0..len /\ len <= Len(e)
    BY <1>2, <1>10 DEF len
  <2> QED
    BY <1>2, <1>21, <2>1, DataFromDef
<1>29. SubSeq(W, 1, n) = d
  <2> DEFINE s == SubSeq(W, 1, n)
  <2>1. Len(W) \in Nat
    BY <1>28
  <2>2. s \in Seq(Seq(Characters)) /\ Len(s) = n /\ \A j \in 1..n : s[j] = W[j]
    BY <1>3, <1>27, <1>28, <2>1
  <2> HIDE DEF s
  <2>3. Len(d) = n
    BY DEF n
  <2>4. s = d
    <3>1. \A j \in 1..n : s[j] = d[j]
      BY <1>27, <2>2
    <3>2. d \in Seq(Seq(Characters))
      BY <1>1
    <3> QED
      BY <2>2, <2>3, <3>1, <3>2, SeqEqual
  <2> QED
    BY <2>4 DEF s
<1>30. message.flow_id % Pow[S] = message.flow_id
  <2> DEFINE p == Pow[S]
  <2>1. p \in Nat \ {0}
    BY <1>3, PowPositive
  <2> HIDE DEF p
  <2>2. \A v \in Nat : v < p => v % p = v
    BY <2>1
  <2> QED
    BY <1>1, <2>2 DEF p
<1>31. count.value <= Len(W)
  <2>1. Len(W) \in Nat
    BY <1>28
  <2> QED
    BY <1>3, <1>20, <1>27, <2>1
<1>32. Decode(e, len) = <<message>>
  BY <1>1, <1>4, <1>12, <1>16, <1>18, <1>20, <1>29, <1>30, <1>31, Zenon
<1> QED
  BY <1>32 DEF e, len

(* What is not there whole is refused. *)
LEMMA DecodeCut ==
    ASSUME NEW message \in HuMessages, NEW chunk_len \in ChunkLens,
           NEW m \in 0..(Len(Encode(message, chunk_len)) - 1)
    PROVE  LET buffer == SubSeq(Encode(message, chunk_len), 1, m)
           IN  buffer \in Seq(Characters) /\ Decode(buffer, Len(buffer)) = <<>>
<1> DEFINE e == Encode(message, chunk_len)
           len == Len(e)
           buffer == SubSeq(e, 1, m)
           a == MarkLen + ShortDigits
           L == LongDigits
<1>1. e \in Seq(Characters) /\ len \in Nat /\ len < Pow[L] /\ At(e, a, Hex(len, L))
  BY EncodedFields
<1>2. m \in 0..(len - 1)
  OBVIOUS
<1> HIDE DEF e
<1>3. buffer \in Seq(Characters) /\ Len(buffer) = m /\ \A j \in 1..m : buffer[j] = e[j]
  BY <1>1, <1>2
<1>4. L \in Nat \ {0} /\ L \in Nat /\ a \in Nat
  BY DigitsAssumption DEF MarkLen
<1> HIDE DEF buffer, len, a
<1>5. Decode(buffer, Len(buffer)) = <<>>
  <2> SUFFICES ASSUME Decode(buffer, Len(buffer)) # <<>> PROVE FALSE
    OBVIOUS
  <2> DEFINE declared == Number(SubSeq(buffer, a + 1, a + L))
  <2>1. a + L <= m /\ declared <= m
    BY <1>3, DecodedInside DEF a
  <2>2. Hex(len, L) \in Seq(Characters) /\ Len(Hex(len, L)) = L
    <3>1. Hex(len, L) \in Seq(0..(Base - 1)) /\ Len(Hex(len, L)) = L
      BY <1>1, <1>4, HexTyped
    <3> QED
      BY <3>1, SeqMonotonic, DigitsAreCharacters
  <2>3. At(buffer, a, Hex(len, L))
    <3>1. a + Len(Hex(len, L)) <= Len(buffer)
      BY <1>3, <2>1, <2>2
    <3>2. \A j \in 1..Len(Hex(len, L)) : buffer[a + j] = Hex(len, L)[j]
      <4> TAKE j \in 1..Len(Hex(len, L))
      <4>1. a + j \in 1..m
        BY <1>2, <1>4, <2>1, <2>2
      <4>2. e[a + j] = Hex(len, L)[j]
        BY <1>1 DEF At
      <4> QED
        BY <1>3, <4>1, <4>2
    <3> QED
      BY <3>1, <3>2 DEF At
  <2>4. SubSeq(buffer, a + 1, a + L) = Hex(len, L)
    BY <1>3, <1>4, <2>2, <2>3, SubSeqAt
  <2>5. declared = len
    BY <1>1, <1>4, <2>4, NumberOfHex
  <2> HIDE DEF declared
  <2> QED
    BY <1>1, <1>2, <2>1, <2>5
<1> QED
  BY <1>3, <1>5 DEF buffer, e

-----------------------------------------------------------------------------
(* The model *)

IsWhole ==
    \E message \in HuMessages, chunk_len \in ChunkLens :
        hu_message = <<message>> /\ hu_data = Encode(message, chunk_len)

IsCut ==
    \E message \in HuMessages, chunk_len \in ChunkLens :
        \E n \in 0..(Len(Encode(message, chunk_len)) - 1) :
            hu_data = SubSeq(Encode(message, chunk_len), 1, n)

(* What is decoded is an encoding, part of one, or any characters. *)
HuInv ==
    /\ hu_stage \in {"idle", "encoded", "cut", "altered", "decoded"}
    /\ hu_message = <<>> \/ \E message \in HuMessages : hu_message = <<message>>
    /\ hu_data \in Seq(Characters)
    /\ hu_stage = "encoded" => IsWhole
    /\ hu_stage = "cut" => IsCut
    /\ hu_stage = "decoded" => /\ hu_decoded = Decode(hu_data, Len(hu_data))
                               /\ hu_damage = "encoded" => IsWhole
                               /\ hu_damage = "cut" => IsCut

(* Nothing is encoded or decoded at first.                                 *)
LEMMA HuStarts == HuInit => HuInv
<1>1. <<>> \in Seq(Characters)
  OBVIOUS
<1> QED
  BY <1>1 DEF HuInit, HuInv

(* Every step keeps what is decoded to what was encoded.                   *)
LEMMA HuKeeps == HuInv /\ [HuNext]_huVars => HuInv'
<1> SUFFICES ASSUME HuInv, [HuNext]_huVars PROVE HuInv'
  OBVIOUS
<1>1. CASE HuEncodes
  <2>1. PICK message \in HuMessages, chunk_len \in ChunkLens :
            hu_message' = <<message>> /\ hu_data' = Encode(message, chunk_len)
    BY <1>1 DEF HuEncodes
  <2>2. IsWhole'
    BY <2>1 DEF IsWhole
  <2>3. Encode(message, chunk_len) \in Seq(Characters)
    BY EncodedFields
  <2>4. hu_data' \in Seq(Characters)
    BY <2>1, <2>3
  <2> QED
    BY <1>1, <2>1, <2>2, <2>4 DEF HuEncodes, HuInv
<1>2. CASE HuIsCut
  <2>1. IsWhole
    BY <1>2 DEF HuIsCut, HuInv
  <2>2. PICK message \in HuMessages, chunk_len \in ChunkLens : hu_data = Encode(message, chunk_len)
    BY <2>1 DEF IsWhole
  <2>3. PICK n \in 0..(Len(hu_data) - 1) : hu_data' = SubSeq(hu_data, 1, n)
    BY <1>2 DEF HuIsCut
  <2>4. IsCut'
    BY <2>2, <2>3 DEF IsCut
  <2>5. n \in 0..(Len(Encode(message, chunk_len)) - 1)
    BY <2>2
  <2>6. SubSeq(Encode(message, chunk_len), 1, n) \in Seq(Characters)
    BY <2>5, DecodeCut
  <2>7. hu_data' \in Seq(Characters)
    BY <2>2, <2>3, <2>6
  <2> QED
    BY <1>2, <2>4, <2>7 DEF HuIsCut, HuInv
<1>3. CASE HuIsAltered
  <2>1. PICK j \in 1..Len(hu_data), c \in 0..Mark : hu_data' = [hu_data EXCEPT ![j] = c]
    BY <1>3 DEF HuIsAltered
  <2>2. hu_data \in Seq(Characters)
    BY DEF HuInv
  <2>3. hu_data' \in Seq(Characters)
    BY <2>1, <2>2, ExceptSeq DEF Characters
  <2> QED
    BY <1>3, <2>3 DEF HuIsAltered, HuInv
<1>4. CASE HuDecodes
  <2>1. hu_data' = hu_data /\ hu_message' = hu_message /\ hu_stage' = "decoded" /\ hu_damage' = hu_stage
        /\ hu_decoded' = Decode(hu_data, Len(hu_data))
    BY <1>4 DEF HuDecodes
  <2>2. (IsWhole => IsWhole') /\ (IsCut => IsCut')
    BY <2>1 DEF IsWhole, IsCut
  <2> QED
    BY <2>1, <2>2 DEF HuInv
<1>5. CASE UNCHANGED huVars
  <2>1. (IsWhole => IsWhole') /\ (IsCut => IsCut')
    BY <1>5 DEF IsWhole, IsCut, huVars
  <2> QED
    BY <1>5, <2>1 DEF HuInv, huVars
<1> QED
  BY <1>1, <1>2, <1>3, <1>4, <1>5 DEF HuNext

(* The invariant gives the type and the property.                          *)
LEMMA HuInvSays == HuInv => HuTypeOK /\ HuRoundTrip
<1> SUFFICES ASSUME HuInv PROVE HuTypeOK /\ HuRoundTrip
  OBVIOUS
<1>1. HuTypeOK
  BY DEF HuInv, HuTypeOK, Characters
<1>2. HuRoundTrip
  <2> SUFFICES ASSUME hu_stage = "decoded"
               PROVE  /\ hu_damage = "encoded" => hu_decoded = hu_message
                      /\ hu_damage = "cut" => hu_decoded = <<>>
                      /\ hu_decoded # <<>> => /\ CalcLen(hu_decoded[1]) - CrcDigits <= Declared
                                              /\ Declared <= Len(hu_data)
    BY DEF HuRoundTrip
  <2>1. hu_decoded = Decode(hu_data, Len(hu_data)) /\ hu_data \in Seq(Characters)
    BY DEF HuInv
  <2>2. ASSUME hu_damage = "encoded" PROVE hu_decoded = hu_message
    <3>1. PICK message \in HuMessages, chunk_len \in ChunkLens :
              hu_message = <<message>> /\ hu_data = Encode(message, chunk_len)
      BY <2>2 DEF HuInv, IsWhole
    <3>2. Decode(Encode(message, chunk_len), Len(Encode(message, chunk_len))) = <<message>>
      BY DecodeEncoded
    <3> QED
      BY <2>1, <3>1, <3>2, Zenon
  <2>3. ASSUME hu_damage = "cut" PROVE hu_decoded = <<>>
    <3>1. PICK message \in HuMessages, chunk_len \in ChunkLens :
              \E n \in 0..(Len(Encode(message, chunk_len)) - 1) :
                  hu_data = SubSeq(Encode(message, chunk_len), 1, n)
      BY <2>3 DEF HuInv, IsCut
    <3>2. PICK n \in 0..(Len(Encode(message, chunk_len)) - 1) :
              hu_data = SubSeq(Encode(message, chunk_len), 1, n)
      BY <3>1
    <3>3. Decode(SubSeq(Encode(message, chunk_len), 1, n), Len(SubSeq(Encode(message, chunk_len), 1, n))) = <<>>
      BY DecodeCut
    <3> QED
      BY <2>1, <3>2, <3>3, Zenon
  <2>4. ASSUME hu_decoded # <<>>
        PROVE  CalcLen(hu_decoded[1]) - CrcDigits <= Declared /\ Declared <= Len(hu_data)
    <3>1. Declared = Number(SubSeq(hu_data, (MarkLen + ShortDigits) + 1, (MarkLen + ShortDigits) + LongDigits))
      BY Zenon DEF Declared
    <3> QED
      BY <2>1, <2>4, <3>1, DecodedInside
  <2> QED
    BY <2>2, <2>3, <2>4
<1> QED
  BY <1>1, <1>2

(* hu_message.c: what is encoded is a sequence of characters, and of a     *)
(* message only as the model has it.                                       *)
THEOREM HuTypeCorrect == HuSpec => []HuTypeOK
BY HuStarts, HuKeeps, HuInvSays, PTL DEF HuSpec

(* hu_message_encode and hu_message_decode, for fields of any width, texts *)
(* of any length that fits them and any chunk: what is encoded is decoded  *)
(* again; a message that is cut is refused wherever it ends; and whatever  *)
(* the fields say, what is decoded lies inside the length the message      *)
(* declares, and that inside what was received.                            *)
THEOREM MessagesRoundTrip == HuSpec => []HuRoundTrip
BY HuStarts, HuKeeps, HuInvSays, PTL DEF HuSpec

-----------------------------------------------------------------------------
(* 4. All streams at once.  A behaviour of Spec is one of every link: of   *)
(* the one it is about, and of the others as long as nothing happens there.*)

(* A step on one link leaves the others where they were. *)
LEMMA StepOfLinks ==
    ASSUME [Next]_vars
    PROVE  /\ [VideoNext]_videoVars /\ [ScanNext]_scanVars /\ [UsbNext]_usbVars
           /\ [ControlNext]_controlVars /\ [TellNext]_tellVars /\ [HuNext]_huVars
           /\ [WriteNext]_outVars
<1>1. CASE Video
  BY <1>1 DEF Video
<1>2. CASE KeyScan
  BY <1>2 DEF KeyScan
<1>3. CASE Usb
  BY <1>3 DEF Usb
<1>4. CASE Control
  BY <1>4 DEF Control
<1>5. CASE Tell
  BY <1>5 DEF Tell
<1>6. CASE Hu
  BY <1>6 DEF Hu
<1>7. CASE Write
  BY <1>7 DEF Write
<1>8. CASE UNCHANGED vars
  BY <1>8 DEF vars
<1> QED
  BY <1>1, <1>2, <1>3, <1>4, <1>5, <1>6, <1>7, <1>8 DEF Next

(* Spec has the behaviours of every link's own specification. *)
LEMMA EveryLink ==
    Spec => /\ VideoSpec /\ ScanSpec /\ UsbSpec /\ ControlSpec /\ TellSpec /\ HuSpec
            /\ WriteSpec
<1>1. Init => /\ VideoInit /\ ScanInit /\ UsbInit /\ ControlInit /\ TellInit /\ HuInit
              /\ WriteInit
  BY DEF Init
<1>2. [Next]_vars => /\ [VideoNext]_videoVars /\ [ScanNext]_scanVars /\ [UsbNext]_usbVars
                     /\ [ControlNext]_controlVars /\ [TellNext]_tellVars /\ [HuNext]_huVars
                     /\ [WriteNext]_outVars
  BY StepOfLinks
<1> QED
  BY <1>1, <1>2, PTL
     DEF Spec, VideoSpec, ScanSpec, UsbSpec, ControlSpec, TellSpec, HuSpec, WriteSpec

(* On every link the buffers, counters and stages keep to their bounds,    *)
(* whatever happens on it: the type invariant of the composition, whose    *)
(* parts are the seven links'.                                             *)
THEOREM StreamsTypesCorrect == Spec => []StreamsTypeOK
<1>1. VideoTypeOK /\ ScanTypeOK /\ UsbTypeOK /\ ControlTypeOK /\ TellTypeOK /\ HuTypeOK
      /\ WriteTypeOK
      => StreamsTypeOK
  BY DEF StreamsTypeOK
<1> QED
  BY <1>1, EveryLink, VideoTypeCorrect, ScanTypeCorrect, UsbTypeCorrect, ControlTypeCorrect,
     TellTypeCorrect, HuTypeCorrect, WriteTypeCorrect, PTL

(* What the links promise holds of them together: frames, parcels,         *)
(* callbacks and head unit messages are whole and in order at their        *)
(* receivers, of the USB messages each reader has in order what it is due, *)
(* and the scan decides rightly.                                           *)
THEOREM StreamsCorrect ==
    Spec => [](/\ VideoFramesWhole /\ KeyframeFound /\ UsbInSync /\ CommandsInOrder
               /\ CallbacksInOrder /\ HuRoundTrip /\ HeadUnitInSync)
  BY EveryLink, FramesWhole, ScanCorrect, MessagesRead, CommandsApplied, CallbacksMade,
     MessagesRoundTrip, MessagesStayWhole, PTL
=============================================================================
