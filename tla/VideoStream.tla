------------------------------ MODULE VideoStream ------------------------------
(***************************************************************************)
(* One video source from end to end: a program that sends frames with      *)
(* video-sender/qd_video_sender.c, the byte stream of the socket, and the  *)
(* reassembly buffer of video_receiver_read_source.                        *)
(*                                                                         *)
(* A byte is its position in the stream.  A header is then whatever is     *)
(* known of the frame that begins at a position, and nothing elsewhere:    *)
(* reading at another position is a mark that does not match.  The frame   *)
(* size the sender declares is always the one the receiver calculates.     *)
(* What becomes of a frame is in VideoReceiver.                            *)
(***************************************************************************)
EXTENDS Naturals, Sequences, SequencesExt

CONSTANTS
    HeaderSize,         \* sizeof(messaging_service_video_frame_t)
    RcvBufferSize,      \* VIDEO_RECEIVER_SOCKET_RCV_BUFFER_SIZE
    InitialBufferSize,  \* VIDEO_RECEIVER_INITIAL_BUFFER_SIZE
    MaxFrameSize,       \* VIDEO_RECEIVER_MAX_FRAME_SIZE
    FrameSizes,         \* sizes of frames the program sends, headers included
    MaxFrames,          \* bound: frames sent
    SocketSize          \* bound: bytes the socket holds

ASSUME SizesAssumption ==
    /\ HeaderSize \in Nat \ {0} /\ RcvBufferSize \in Nat \ {0}
    /\ InitialBufferSize \in Nat /\ InitialBufferSize >= 2 * RcvBufferSize
    /\ MaxFrameSize \in Nat /\ 2 * InitialBufferSize <= MaxFrameSize
    /\ FrameSizes \subseteq {n \in Nat : n > HeaderSize}
    /\ MaxFrames \in Nat /\ SocketSize \in Nat \ {0}

VARIABLES
    frames,             \* sizes of the frames handed to qd_screen_send_data
    sent_total,         \* of the last of them
    screen_closed,      \* qd_screen_close, or the end of the program
    in_flight,          \* bytes in the socket
    reading,            \* the receiver: in poll, in read_source, or done with it
    buffer_size, filled,
    taken,              \* position of the first byte in the buffer
    handled             \* frames given to handle_frame

senderVars == <<frames, sent_total, screen_closed>>
bufferVars == <<reading, buffer_size, filled, taken, handled>>
videoVars == <<senderVars, in_flight, bufferVars>>

VideoInit ==
    /\ frames = <<>> /\ sent_total = 0 /\ screen_closed = FALSE
    /\ in_flight = 0
    /\ reading = "poll" /\ buffer_size = 0 /\ filled = 0 /\ taken = 0 /\ handled = <<>>

-----------------------------------------------------------------------------
(* The sender *)

SentWhole == frames # <<>> => sent_total = Last(frames)

(* qd_screen_send_data: the next frame is mapped into the buffer.  Any     *)
(* length but 0 is taken.                                                  *)
SendData(size) ==
    /\ ~screen_closed /\ SentWhole /\ Len(frames) < MaxFrames
    /\ frames' = Append(frames, size) /\ sent_total' = 0
    /\ UNCHANGED <<screen_closed, in_flight, bufferVars>>

(* ... and sent in as many pieces as the socket makes of it. *)
Send(n) ==
    /\ ~screen_closed /\ reading # "removed"
    /\ ~SentWhole /\ n <= Last(frames) - sent_total
    /\ in_flight + n <= SocketSize
    /\ sent_total' = sent_total + n /\ in_flight' = in_flight + n
    /\ UNCHANGED <<frames, screen_closed, bufferVars>>

ScreenClose ==
    /\ ~screen_closed
    /\ screen_closed' = TRUE
    /\ UNCHANGED <<frames, sent_total, in_flight, bufferVars>>

-----------------------------------------------------------------------------
(* The receiver *)

(* Where frame k begins, the one after the last included. *)
StartOf[k \in 1..(MaxFrames + 1)] ==
    IF k = 1 THEN 0 ELSE StartOf[k - 1] + frames[k - 1]

FrameAt(position) == {k \in DOMAIN frames : StartOf[k] = position}

(* The space left is never less than one receive buffer. *)
GrownSize ==
    IF buffer_size - filled >= RcvBufferSize THEN buffer_size
    ELSE IF buffer_size = 0 THEN InitialBufferSize
    ELSE 2 * buffer_size

BufferOverflows == GrownSize > MaxFrameSize + 2 * RcvBufferSize

(* Mutant: one frame for each piece received. *)
ProcessOne(size, held) ==
    LET at == FrameAt(taken)
    IN  IF held < HeaderSize \/ at = {}
        THEN [keep |-> held < HeaderSize, offset |-> 0, size |-> size]
        ELSE LET full_len == frames[CHOOSE k \in at : TRUE]
             IN  [keep |-> full_len <= MaxFrameSize,
                  offset |-> IF held < full_len THEN 0 ELSE full_len, size |-> size]

(* Mutant: the header is not counted when a frame is looked for. *)
ProcessShort(size, held) ==
    LET Walk[offset \in 0..(held + HeaderSize)] ==
          LET at == FrameAt(taken + offset)
              stop(keep, new_size) == [keep |-> keep, offset |-> offset, size |-> new_size]
          IN  IF held < offset + HeaderSize THEN stop(TRUE, size)
              ELSE IF at = {} THEN stop(FALSE, size)
              ELSE LET full_len == frames[CHOOSE k \in at : TRUE]
                   IN  IF full_len > MaxFrameSize THEN stop(FALSE, size)
                       ELSE IF held - offset < full_len - HeaderSize THEN stop(TRUE, size)
                       ELSE Walk[offset + full_len]
    IN  Walk[0]

(* Process every complete frame in the buffer: how far it got, whether the *)
(* source is kept, and the size of the buffer, enlarged when the first     *)
(* frame would not fit.                                                    *)
Process(size, held) ==
    LET Walk[offset \in 0..held] ==
          LET at == FrameAt(taken + offset)
              stop(keep, new_size) == [keep |-> keep, offset |-> offset, size |-> new_size]
          IN  IF held - offset < HeaderSize THEN stop(TRUE, size)
              ELSE IF at = {} THEN stop(FALSE, size)
              ELSE LET full_len == frames[CHOOSE k \in at : TRUE]
                   IN  IF full_len > MaxFrameSize THEN stop(FALSE, size)
                       ELSE IF held - offset < full_len
                       THEN stop(TRUE, IF offset = 0 /\ full_len > size
                                       THEN full_len + RcvBufferSize ELSE size)
                       ELSE Walk[offset + full_len]
    IN  Walk[0]

(* The frames of a set, the first one first.                               *)
InOrder(set) ==
    CHOOSE s \in [1..Cardinality(set) -> set] : \A j, k \in DOMAIN s : j < k => s[j] < s[k]

(* poll reports data, or the end of the stream. *)
Polled ==
    /\ reading = "poll" /\ (in_flight > 0 \/ screen_closed)
    /\ reading' = "read"
    /\ UNCHANGED <<senderVars, in_flight, buffer_size, filled, taken, handled>>

Receive(n) ==
    /\ reading = "read" /\ ~BufferOverflows
    /\ n <= Min({GrownSize - filled, in_flight})
    /\ in_flight' = in_flight - n
    /\ LET result == Process(GrownSize, filled + n)
           complete == {k \in DOMAIN frames : /\ StartOf[k] >= taken
                                              /\ StartOf[k] < taken + result.offset}
       IN  /\ buffer_size' = result.size
           /\ filled' = filled + n - result.offset
           /\ taken' = taken + result.offset
           /\ handled' = handled \o InOrder(complete)
           /\ reading' = IF result.keep THEN "read" ELSE "removed"
    /\ UNCHANGED senderVars

(* Everything that was there is read. *)
WouldBlock ==
    /\ reading = "read" /\ ~BufferOverflows /\ in_flight = 0 /\ ~screen_closed
    /\ reading' = "poll" /\ buffer_size' = GrownSize
    /\ UNCHANGED <<senderVars, in_flight, filled, taken, handled>>

(* The buffer may not grow further, or the sender has gone. *)
GivesUp ==
    /\ reading = "read"
    /\ BufferOverflows \/ (in_flight = 0 /\ screen_closed)
    /\ reading' = "removed"
    /\ UNCHANGED <<senderVars, in_flight, buffer_size, filled, taken, handled>>

ReadSource ==
    Polled \/ (\E n \in 1..SocketSize : Receive(n)) \/ WouldBlock \/ GivesUp

VideoNext ==
    \/ \E size \in FrameSizes : SendData(size)
    \/ \E n \in 1..SocketSize : Send(n)
    \/ ScreenClose
    \/ ReadSource

(* The receiver thread goes on; the sender need not. *)
VideoFairness == WF_videoVars(ReadSource)

VideoSpec == VideoInit /\ [][VideoNext]_videoVars /\ VideoFairness

-----------------------------------------------------------------------------
(* Properties *)

VideoTypeOK ==
    /\ frames \in Seq(FrameSizes) /\ Len(frames) <= MaxFrames
    /\ frames # <<>> => sent_total \in 0..Last(frames)
    /\ screen_closed \in BOOLEAN /\ in_flight \in 0..SocketSize
    /\ reading \in {"poll", "read", "removed"}
    /\ buffer_size \in 0..(MaxFrameSize + 2 * RcvBufferSize) /\ filled \in 0..buffer_size
    /\ taken \in Nat /\ handled \in Seq(1..MaxFrames)

Written == IF frames = <<>> THEN 0 ELSE StartOf[Len(frames)] + sent_total

(* However the stream is cut into pieces on both sides, the frames handled *)
(* are those sent, whole, in order and once, the buffer begins with the    *)
(* next one, and no byte is lost or read twice.                            *)
VideoFramesWhole ==
    /\ handled = [k \in 1..Len(handled) |-> k] /\ Len(handled) <= Len(frames)
    /\ taken = StartOf[Len(handled) + 1]
    /\ Written = taken + filled + in_flight /\ Written >= taken + in_flight

(* A frame that is sent whole is handled in the end, also when the sender  *)
(* is closed right after, and its source is not refused for the size of    *)
(* its buffer, as long as frames are at most half the limit.  (Above that  *)
(* the doubling of the buffer can overflow on a frame that is legal.)      *)
VideoFramesArrive ==
    \A k \in 1..MaxFrames :
        (Len(frames) >= k /\ Written >= StartOf[k + 1])
            ~> (Len(handled) >= k \/ \E j \in DOMAIN frames : 2 * frames[j] > MaxFrameSize)
=============================================================================
