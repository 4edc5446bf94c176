----------------------------- MODULE ControlStream -----------------------------
(***************************************************************************)
(* One control client as messaging_service_read_client sees it: its byte   *)
(* stream, the 64 byte buffer, and the command of a read that is applied   *)
(* after it.  A byte is its position in the stream, as in VideoStream.     *)
(* What a command does to the owner is in MessagingService.                *)
(***************************************************************************)
EXTENDS Naturals, Sequences, SequencesExt

CONSTANTS
    ParcelHeaderSize,   \* sizeof(messaging_service_parcel_header_t)
    ControlSize,        \* sizeof(messaging_service_parcel_source_control_t)
    RxBufferSize,       \* MESSAGING_SERVICE_RX_BUFFER_SIZE
    ParcelSizes,        \* sizes of messages a client sends
    MaxParcels          \* bound: messages of a client

ASSUME ParcelAssumption ==
    /\ ParcelHeaderSize \in Nat \ {0}
    /\ ControlSize \in Nat /\ ParcelHeaderSize < ControlSize
    /\ RxBufferSize \in Nat /\ ControlSize <= RxBufferSize
    /\ ParcelSizes \subseteq {n \in Nat : n >= ParcelHeaderSize}
    /\ MaxParcels \in Nat

VARIABLES
    parcels,            \* history: messages of the client, with their commands
    client_sent,        \* bytes it has written
    stream_ended,       \* the client has closed it, or the service has shut it down
    client,             \* "kept" or "removed"
    rx_filled,
    rx_taken,           \* position of the first byte of rx_buffer
    applied             \* history: the messages whose commands were applied

clientVars == <<parcels, client_sent, stream_ended>>
controlVars == <<clientVars, client, rx_filled, rx_taken, applied>>

ControlInit ==
    /\ parcels = <<>> /\ client_sent = 0 /\ stream_ended = FALSE
    /\ client = "kept" /\ rx_filled = 0 /\ rx_taken = 0 /\ applied = <<>>

(* Where message k begins, the one after the last included. *)
ParcelStart[k \in 1..(MaxParcels + 1)] ==
    IF k = 1 THEN 0 ELSE ParcelStart[k - 1] + parcels[k - 1].size

ParcelsEnd == ParcelStart[Len(parcels) + 1]

-----------------------------------------------------------------------------
(* The client: a program that asks for the screen, leaves it, or sends     *)
(* what the service does not know.                                         *)

WritesParcel(size, control) ==
    /\ ~stream_ended /\ Len(parcels) < MaxParcels
    /\ parcels' = Append(parcels, [size |-> size, control |-> control])
    /\ UNCHANGED <<client_sent, stream_ended, client, rx_filled, rx_taken, applied>>

WritesBytes(n) ==
    /\ ~stream_ended /\ client_sent + n <= ParcelsEnd
    /\ client_sent' = client_sent + n
    /\ UNCHANGED <<parcels, stream_ended, client, rx_filled, rx_taken, applied>>

ClientCloses ==
    /\ ~stream_ended /\ stream_ended' = TRUE
    /\ UNCHANGED <<parcels, client_sent, client, rx_filled, rx_taken, applied>>

-----------------------------------------------------------------------------
(* The service *)

(* Mutant: a message may not fill the buffer. *)
BadSize(size) == size >= RxBufferSize

(* A length between the header's and the buffer's. *)
BadLength(size) == size > RxBufferSize

(* Is message k a command of a source? *)
IsCommand(k) == parcels[k].control /\ parcels[k].size >= ControlSize

(* The loop over complete messages: how far it got, and whether the client *)
(* is kept.                                                                *)
Parse(held) ==
    LET Walk[offset \in 0..held] ==
          LET at == {k \in DOMAIN parcels : ParcelStart[k] = rx_taken + offset}
          IN  IF held - offset < ParcelHeaderSize THEN [keep |-> TRUE, offset |-> offset]
              ELSE IF at = {} THEN [keep |-> FALSE, offset |-> offset]
              ELSE LET size == parcels[CHOOSE k \in at : TRUE].size
                   IN  IF BadLength(size) THEN [keep |-> FALSE, offset |-> offset]
                       ELSE IF held - offset < size THEN [keep |-> TRUE, offset |-> offset]
                       ELSE Walk[offset + size]
    IN  Walk[0]

(* recv of n bytes.  Of the commands in it the last one is left in         *)
(* *out_command, and applied also when the client is removed.              *)
ReadClient(n) ==
    /\ client = "kept"
    /\ n <= RxBufferSize - rx_filled /\ n <= client_sent - (rx_taken + rx_filled)
    /\ LET result == Parse(rx_filled + n)
           commands == {k \in DOMAIN parcels :
                          /\ IsCommand(k) /\ ParcelStart[k] >= rx_taken
                          /\ ParcelStart[k] < rx_taken + result.offset}
       IN  /\ rx_filled' = rx_filled + n - result.offset
           /\ rx_taken' = rx_taken + result.offset
           /\ applied' = IF commands = {} THEN applied ELSE Append(applied, Max(commands))
           /\ client' = IF result.keep THEN "kept" ELSE "removed"
    /\ UNCHANGED clientVars

(* send_to_client on any thread: the client did not take all of a message. *)
(* It can write no more; what it wrote before is still read.               *)
ServiceShutsDown ==
    /\ client = "kept" /\ ~stream_ended /\ stream_ended' = TRUE
    /\ UNCHANGED <<parcels, client_sent, client, rx_filled, rx_taken, applied>>

(* recv returns 0: the stream has ended and all of it is read, or there is *)
(* no room in the buffer.                                                  *)
RecvReturnsZero ==
    /\ client = "kept"
    /\ \/ stream_ended /\ client_sent = rx_taken + rx_filled
       \/ rx_filled = RxBufferSize
    /\ client' = "removed"
    /\ UNCHANGED <<clientVars, rx_filled, rx_taken, applied>>

ControlNext ==
    \/ \E size \in ParcelSizes, control \in BOOLEAN : WritesParcel(size, control)
    \/ \E n \in 1..RxBufferSize : WritesBytes(n) \/ ReadClient(n)
    \/ ClientCloses
    \/ ServiceShutsDown
    \/ RecvReturnsZero

ControlSpec == ControlInit /\ [][ControlNext]_controlVars

-----------------------------------------------------------------------------
(* Properties *)

ControlTypeOK ==
    /\ parcels \in Seq([size : ParcelSizes, control : BOOLEAN]) /\ Len(parcels) <= MaxParcels
    /\ client_sent \in 0..ParcelsEnd /\ stream_ended \in BOOLEAN
    /\ client \in {"kept", "removed"}
    /\ rx_filled \in 0..RxBufferSize /\ rx_taken \in 0..client_sent
    /\ applied \in Seq(1..MaxParcels)

Increasing(s) == \A j, k \in DOMAIN s : j < k => s[j] < s[k]

ReadParcels == {k \in DOMAIN parcels : ParcelStart[k + 1] <= rx_taken}

ReadCommands == {k \in ReadParcels : IsCommand(k)}

(* However the stream is cut and however many messages come at once: a     *)
(* command is applied at most once, only when it is there whole, never     *)
(* after a later one, and the last one the client got through is always    *)
(* applied.  (Ones before it in the same read are not: a request followed  *)
(* by a yield is a yield.)  The client is removed for no other reason than *)
(* the end of its stream, which it or the service has ended, or a message  *)
(* too long for the buffer: there is always room for the rest of one.      *)
CommandsInOrder ==
    /\ Increasing(applied) /\ \A j \in DOMAIN applied : applied[j] \in ReadCommands
    /\ ReadCommands # {} => applied # <<>> /\ Last(applied) = Max(ReadCommands)
    /\ client = "kept" => rx_filled < RxBufferSize
    /\ client = "removed" => \/ stream_ended
                             \/ \E k \in DOMAIN parcels : parcels[k].size > RxBufferSize
=============================================================================
