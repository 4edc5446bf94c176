------------------------------- MODULE UsbFraming -------------------------------
(***************************************************************************)
(* How messages of the head unit are read: the driver's transfers, the     *)
(* bounce buffer of usb_active_accessory_read, read_message_tail, and the  *)
(* readers of the two protocols with those handlers of V1 that read on.    *)
(*                                                                         *)
(* "A message is one USB transfer padded to 512 bytes, but a transfer may  *)
(* arrive in several reads (and some head units do not pad)".  The driver  *)
(* is external: a read ends with the transfer, when the request is filled, *)
(* or after any packet (tests/fake_usb.c).  Bytes are counted: a piece of  *)
(* a transfer has message bytes, from some place of its message on, and    *)
(* then padding.  The mark is where a message begins; that a later packet  *)
(* of a message begins with one by chance is left out.                     *)
(***************************************************************************)
EXTENDS Naturals, Sequences, SequencesExt

CONSTANTS
    ChunkSize,          \* USB_ACTIVE_ACCESSORY_CHUNK_SIZE, a packet
    MaxReadChunk,       \* USB_ACTIVE_ACCESSORY_MAX_READ_CHUNK
    MaxMessageSize,     \* MESSAGE_PROCESSOR_V1_MAX_MESSAGE_SIZE, and V2's
    HeaderSizeV2,       \* sizeof(message_common_header_v2_t)
    MessageSizes,       \* sizes messages of the head unit have
    MaxMessages,        \* bound: messages of a session
    MaxSessions         \* bound: sessions

ASSUME ChunkAssumption ==
    /\ ChunkSize \in Nat \ {0} /\ MaxReadChunk \in Nat \ {0} /\ MaxReadChunk % ChunkSize = 0
    /\ HeaderSizeV2 \in 1..ChunkSize
    /\ MaxMessageSize \in Nat /\ ChunkSize <= MaxMessageSize
    /\ MessageSizes \subseteq Nat \ {0}
    /\ MaxMessages \in Nat /\ MaxSessions \in Nat

VARIABLES
    dialect,            \* the protocol of the head unit
    sent,               \* the messages it has sent in this session
    transfers,          \* what the driver holds of them
    bounce,             \* session.bounce from bounce_pos on
    message_buffer_size,\* of the V2 reader, which keeps its buffer
    reading_of,         \* the message whose tail is awaited, or 0
    received, required, capacity,   \* of read_message_tail
    whole,              \* history: its bytes came one after the other
    answered,           \* history: what run had of which message, in order
    stray,              \* history: reads since then that began with no mark
    usb_sessions        \* how many there were

tailVars == <<reading_of, received, required, capacity, whole>>
usbVars == <<dialect, sent, transfers, bounce, message_buffer_size, tailVars,
             answered, stray, usb_sessions>>

(* What a message is to its reader.  Of V1 "app" is a HU_MSG with action 1 *)
(* and "speech" a speech status; a command, a screen capture, a control    *)
(* and what nobody processes are "other".  Of V2 a "misfit" has an         *)
(* extended header longer than the message.                                *)
Kinds(protocol) ==
    IF protocol = "V1" THEN {"app", "speech", "other"} ELSE {"message", "misfit"}

Messages == [size : MessageSizes, kind : Kinds("V1") \union Kinds("V2")]

Packets(len) == (len + ChunkSize - 1) \div ChunkSize

(* Mutant: the last chunk is not counted unless it is full. *)
RoundDown(len) == (len \div ChunkSize) * ChunkSize

RoundUp(len) == Packets(len) * ChunkSize

-----------------------------------------------------------------------------
(* Pieces of transfers *)

Nothing == [msg |-> 0, at |-> 0, left |-> 0, pad |-> 0]

Amount(piece) == piece.left + piece.pad

FirstBytes(piece, n) ==
    LET left == Min({n, piece.left}) IN [piece EXCEPT !.left = left, !.pad = n - left]

RestAfter(piece, n) ==
    LET left == Min({n, piece.left})
    IN  IF n = Amount(piece) THEN Nothing
        ELSE [piece EXCEPT !.at = @ + left, !.left = @ - left, !.pad = @ - (n - left)]

-----------------------------------------------------------------------------

UsbInit ==
    /\ dialect = "none" /\ sent = <<>> /\ transfers = <<>> /\ bounce = Nothing
    /\ message_buffer_size = ChunkSize
    /\ reading_of = 0 /\ received = 0 /\ required = 0 /\ capacity = 0 /\ whole = TRUE
    /\ answered = <<>> /\ stray = 0 /\ usb_sessions = 0

(* Mutant: what the last session left in the bounce buffer stays. *)
SessionStartsKeepingBounce == UNCHANGED bounce

(* session_reset_state.  The driver drops what was on its way.  *)
SessionStarts == bounce' = Nothing

(* A session begins; the one before may end at any time. *)
UsbSession(protocol) ==
    /\ usb_sessions < MaxSessions /\ usb_sessions' = usb_sessions + 1
    /\ dialect \in {"none", protocol} /\ dialect' = protocol
    /\ sent' = <<>> /\ transfers' = <<>> /\ answered' = <<>> /\ stray' = 0
    /\ SessionStarts
    /\ reading_of' = 0 /\ received' = 0 /\ required' = 0 /\ capacity' = 0 /\ whole' = TRUE
    /\ UNCHANGED message_buffer_size

(* The head unit sends a message, padded or not.  V1 sends whole chunks up *)
(* to the first.                                                           *)
HeadUnitSends(message, padded) ==
    /\ usb_sessions > 0 /\ Len(sent) < MaxMessages
    /\ message.kind \in Kinds(dialect)
    /\ dialect = "V1" /\ message.size < ChunkSize => padded
    /\ sent' = Append(sent, message)
    /\ transfers' = Append(transfers,
         [msg |-> Len(sent) + 1, at |-> 0, left |-> message.size,
          pad |-> IF padded THEN RoundUp(message.size) - message.size ELSE 0])
    /\ UNCHANGED <<dialect, bounce, message_buffer_size, tailVars, answered, stray,
                   usb_sessions>>

-----------------------------------------------------------------------------
(* usb_active_accessory_read *)

(* The leftover of the previous transfer first; else a request of whole    *)
(* packets, of which the caller gets what it asked for.                    *)
Reads(len) ==
    IF Amount(bounce) > 0
    THEN LET copied == Min({Amount(bounce), len})
         IN  {[piece |-> FirstBytes(bounce, copied), bounce |-> RestAfter(bounce, copied),
               transfers |-> transfers]}
    ELSE IF transfers = <<>> THEN {}
    ELSE LET head == Head(transfers)
             most == Min({RoundUp(len), MaxReadChunk, Amount(head)})
             readed == {n \in 1..most : n % ChunkSize = 0 \/ n = Amount(head)}
         IN  {[piece |-> FirstBytes(head, Min({n, len})),
               bounce |-> RestAfter(FirstBytes(head, n), Min({n, len})),
               transfers |-> (IF n = Amount(head) THEN <<>> ELSE <<RestAfter(head, n)>>)
                               \o Tail(transfers)] : n \in readed}

-----------------------------------------------------------------------------
(* What comes of a read *)

(* The mark of a message is where one begins. *)
Marked(piece) == piece.at = 0 /\ piece.left > 0

(* A read that begins with no mark is an error, and forgotten. *)
BrokenSequence ==
    stray' = stray + 1 /\ UNCHANGED <<answered, tailVars, message_buffer_size>>

(* run is done with a message: it had all of it, its first chunk, or       *)
(* refused it.                                                             *)
Answer(msg, given) ==
    /\ answered' = Append(answered, [msg |-> msg, given |-> given])
    /\ stray' = 0
    /\ UNCHANGED <<tailVars, message_buffer_size>>

(* read_message_tail is called, with begun bytes of size in a buffer of    *)
(* room.                                                                   *)
AwaitTail(msg, begun, size, room, complete) ==
    /\ reading_of' = msg /\ received' = begun /\ required' = size /\ capacity' = room
    /\ whole' = complete
    /\ UNCHANGED <<answered, stray>>

-----------------------------------------------------------------------------
(* V1: whatever was read, the handlers take it for a chunk.  *)

FromChunk(msg, readed) == IF sent[msg].size <= readed THEN "whole" ELSE "first chunk"

(* The first chunk is left aside, the tail gets a buffer of its size. *)
HandleAppMsg(msg, readed) ==
    LET size == sent[msg].size
        payload_len == size - ChunkSize
    IN  IF size <= ChunkSize \/ size > MaxMessageSize THEN Answer(msg, "nothing")
        ELSE /\ AwaitTail(msg, 0, payload_len, payload_len, readed = ChunkSize)
             /\ UNCHANGED message_buffer_size

(* The tail is read behind the first chunk. *)
HandleSpeech(msg, readed) ==
    LET size == sent[msg].size
    IN  IF size <= ChunkSize THEN Answer(msg, FromChunk(msg, readed))
        ELSE IF size > MaxMessageSize THEN Answer(msg, "nothing")
        ELSE /\ AwaitTail(msg, ChunkSize, size, size, readed = ChunkSize)
             /\ UNCHANGED message_buffer_size

(* Commands, screen captures and controls are handled from their first     *)
(* chunk, and others not at all; what follows it is not read.              *)
RunV1(piece) ==
    IF ~Marked(piece) THEN BrokenSequence
    ELSE \/ sent[piece.msg].kind = "app" /\ HandleAppMsg(piece.msg, Amount(piece))
         \/ sent[piece.msg].kind = "speech" /\ HandleSpeech(piece.msg, Amount(piece))
         \/ /\ sent[piece.msg].kind = "other"
            /\ Answer(piece.msg, FromChunk(piece.msg, Amount(piece)))

-----------------------------------------------------------------------------
(* V2 *)

(* The extended header is looked at when all of the message is there. *)
Fitting(msg) == IF sent[msg].kind = "misfit" THEN "nothing" ELSE "whole"

(* The rest of a message is read into a buffer of whole chunks, which is   *)
(* not given back.                                                         *)
ReadMessage(msg, readed) ==
    LET size == sent[msg].size
        grown == IF RoundUp(size) > message_buffer_size THEN RoundUp(size)
                 ELSE message_buffer_size
    IN  IF readed < HeaderSizeV2 \/ size < HeaderSizeV2 \/ size > MaxMessageSize
        THEN Answer(msg, "nothing")
        ELSE IF size <= readed THEN Answer(msg, Fitting(msg))
        ELSE /\ AwaitTail(msg, readed, size, grown, TRUE)
             /\ message_buffer_size' = grown

RunV2(piece) ==
    IF ~Marked(piece) THEN BrokenSequence ELSE ReadMessage(piece.msg, Amount(piece))

-----------------------------------------------------------------------------

(* The first read of run. *)
RunReads ==
    /\ reading_of = 0
    /\ \E read \in Reads(ChunkSize) :
         /\ bounce' = read.bounce /\ transfers' = read.transfers
         /\ \/ dialect = "V1" /\ RunV1(read.piece)
            \/ dialect = "V2" /\ RunV2(read.piece)
    /\ UNCHANGED <<dialect, sent, usb_sessions>>

(* Where in its message the buffer of the tail begins. *)
BufferBegins == IF sent[reading_of].kind = "app" THEN ChunkSize ELSE 0

(* One turn of usb_active_accessory_read_message_tail. *)
ReadMessageTail ==
    /\ reading_of # 0
    /\ \E read \in Reads(capacity - received) :
         LET piece == read.piece
             got == received + Amount(piece)
             follows == whole /\ piece.msg = reading_of /\ piece.at = received + BufferBegins
         IN  /\ bounce' = read.bounce /\ transfers' = read.transfers
             /\ IF got >= required
                THEN /\ answered' = Append(answered,
                          [msg |-> reading_of,
                           given |-> IF follows THEN Fitting(reading_of) ELSE "mixed"])
                     /\ stray' = 0
                     /\ reading_of' = 0 /\ received' = 0 /\ required' = 0 /\ capacity' = 0
                     /\ whole' = TRUE
                ELSE /\ received' = got /\ whole' = follows
                     /\ UNCHANGED <<reading_of, required, capacity, answered, stray>>
    /\ UNCHANGED <<dialect, sent, message_buffer_size, usb_sessions>>

UsbNext ==
    \/ \E protocol \in {"V1", "V2"} : UsbSession(protocol)
    \/ \E message \in Messages, padded \in BOOLEAN : HeadUnitSends(message, padded)
    \/ RunReads
    \/ ReadMessageTail

UsbSpec == UsbInit /\ [][UsbNext]_usbVars

-----------------------------------------------------------------------------
(* Properties *)

UsbTypeOK ==
    /\ dialect \in {"none", "V1", "V2"}
    /\ sent \in Seq(Messages) /\ \A k \in DOMAIN sent : sent[k].kind \in Kinds(dialect)
    /\ Amount(bounce) < ChunkSize
    /\ message_buffer_size % ChunkSize = 0
    /\ reading_of \in 0..Len(sent) /\ reading_of # 0 => received < required
    /\ required <= capacity
    /\ whole \in BOOLEAN /\ stray \in Nat /\ usb_sessions \in 0..MaxSessions

(* Messages no reader takes: too long, or too short for what they are. *)
Refused(protocol, message) ==
    IF protocol = "V1"
    THEN \/ message.kind = "app" /\ message.size <= ChunkSize
         \/ message.kind # "other" /\ message.size > MaxMessageSize
    ELSE message.size \notin HeaderSizeV2..MaxMessageSize

Due(protocol, message) ==
    IF Refused(protocol, message) \/ message.kind = "misfit" THEN "nothing"
    ELSE IF message.kind = "other" /\ message.size > ChunkSize THEN "first chunk"
    ELSE "whole"

(* How many reads may find no mark before the next message: the packets of *)
(* a tail nobody reads, or the padding behind a tail of V1.                *)
StrayReads(protocol, message) ==
    IF Refused(protocol, message) \/ message.kind = "other" THEN Packets(message.size) - 1
    ELSE IF protocol = "V1" /\ message.size > ChunkSize /\ message.size % ChunkSize # 0 THEN 1
    ELSE 0

(* However the driver cuts the transfers, and whether they are padded or   *)
(* not, run comes to every message, once and in order.  Of each it has     *)
(* what its kind is due, never with bytes of another one: all of it where  *)
(* the tail is read, the first chunk where it is not, nothing of one it    *)
(* refuses.  Reads that begin with no mark are bounded by the message      *)
(* before: a refused or unread tail is skipped packet by packet, the next  *)
(* message found after it, and none of it gets into the next session.      *)
(* What the bounce buffer keeps is padding: a reader never cuts a message  *)
(* short there.                                                            *)
UsbInSync ==
    /\ answered = [k \in 1..Len(answered) |-> [msg |-> k, given |-> Due(dialect, sent[k])]]
    /\ stray > 0 => /\ answered # <<>>
                    /\ stray <= StrayReads(dialect, sent[Len(answered)])
    /\ bounce.left = 0
    /\ transfers = <<>> /\ Amount(bounce) = 0 /\ reading_of = 0 => Len(answered) = Len(sent)
=============================================================================
