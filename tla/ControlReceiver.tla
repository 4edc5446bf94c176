---------------------------- MODULE ControlReceiver ----------------------------
(***************************************************************************)
(* What the service tells a client, from messaging_service_send_to_client  *)
(* to the callbacks of control-receiver/qd_control_receiver.c, in a        *)
(* program that calls qd_input_process over and over and reconnects when   *)
(* it fails, as the README shows it.  Bytes are counted.                   *)
(***************************************************************************)
EXTENDS Naturals, Sequences, SequencesExt

CONSTANTS
    TellHeaderSize,     \* sizeof(qd_control_parcel_header_t)
    TouchSize,          \* sizeof(qd_control_parcel_input_t)
    NoticeSizes,        \* sizes of what the service tells besides
    MaxTellSize,        \* QD_MESSAGING_SERVICE_MAX_MESSAGE_SIZE
    SendBuffer,         \* bytes the socket holds, MESSAGING_SERVICE_SND_BUFFER_SIZE
    MaxTold,            \* bound: messages of a connection
    MaxConnections      \* bound: connections

ASSUME TellAssumption ==
    /\ TellHeaderSize \in Nat \ {0} /\ TouchSize \in Nat /\ TellHeaderSize < TouchSize
    /\ MaxTellSize \in Nat /\ TouchSize <= MaxTellSize
    /\ NoticeSizes \subseteq TellHeaderSize..MaxTellSize
    /\ SendBuffer \in Nat /\ MaxTold \in Nat /\ MaxConnections \in Nat

VARIABLES
    told,               \* what was sent on this connection, and how much the socket took
    socket_open,        \* not shut down by the service
    processing,         \* qd_input_process: not called, or which part it waits for
    recv_total,         \* received_total of qd_input_recv_all
    read_bytes,         \* taken from the socket before this part
    called,             \* history: the messages callbacks were called for
    result,             \* of the last call
    connections

tellVars == <<told, socket_open, processing, recv_total, read_bytes, called,
              result, connections>>

(* A touch is passed on if its action is one of the three and its position *)
(* not negative.                                                           *)
Tellings ==
    [event : {"key_frame"}, size : {TellHeaderSize}]
    \cup [event : {"touch", "odd_touch"}, size : {TouchSize}]
    \cup [event : {"notice"}, size : NoticeSizes]

TellInit ==
    /\ told = <<>> /\ socket_open = FALSE
    /\ processing = "failed" /\ recv_total = 0 /\ read_bytes = 0 /\ called = <<>>
    /\ result = "ok" /\ connections = 0

(* Where message k begins, the one after the last included. *)
ToldStart[k \in 1..(MaxTold + 1)] ==
    IF k = 1 THEN 0 ELSE ToldStart[k - 1] + told[k - 1].sent

Waiting == ToldStart[Len(told) + 1] - read_bytes - recv_total

-----------------------------------------------------------------------------
(* The service *)

(* Mutant: the client is kept although a message was cut. *)
AfterPartialSendKeeps == TRUE

(* A partial message would break the framing: the client is dropped. *)
AfterPartialSend == FALSE

(* What does not fit is cut. *)
SendToClient(message) ==
    /\ socket_open /\ Len(told) < MaxTold
    /\ \E sent \in 0..message.size :
         /\ Waiting + sent <= SendBuffer
         /\ Waiting + message.size <= SendBuffer => sent = message.size
         /\ told' = Append(told, [message |-> message, sent |-> sent])
         /\ socket_open' = (sent = message.size \/ AfterPartialSend)
    /\ UNCHANGED <<processing, recv_total, read_bytes, called, result, connections>>

(* The program of the service ends. *)
ServiceGoes ==
    /\ socket_open /\ socket_open' = FALSE
    /\ UNCHANGED <<told, processing, recv_total, read_bytes, called, result,
                   connections>>

-----------------------------------------------------------------------------
(* The client *)

(* qd_input_reconnect: until it is connected again. *)
Reconnect ==
    /\ processing = "failed" /\ connections < MaxConnections
    /\ connections' = connections + 1
    /\ told' = <<>> /\ socket_open' = TRUE
    /\ processing' = "header" /\ recv_total' = 0 /\ read_bytes' = 0 /\ called' = <<>>
    /\ result' = "ok"

(* The message that begins where this call began to read. *)
Current ==
    LET begin == read_bytes - (IF processing = "payload" THEN TellHeaderSize ELSE 0)
    IN  {k \in DOMAIN told : told[k].sent > 0 /\ ToldStart[k] = begin}

CallbackFor(k) ==
    called' = IF told[k].message.event \in {"key_frame", "touch"} THEN Append(called, k) ELSE called

(* A part is there: the next one is waited for, or the call returns, and   *)
(* the program calls again.                                                *)
PartComplete ==
    \/ /\ processing = "header" /\ Current = {}
       /\ result' = "EBADMSG" /\ processing' = "failed" /\ UNCHANGED called
    \/ \E k \in Current :
         \/ /\ processing = "header" /\ told[k].message.size > MaxTellSize
            /\ result' = "EBADMSG" /\ processing' = "failed" /\ UNCHANGED called
         \/ /\ processing = "header" /\ told[k].message.size <= MaxTellSize
            /\ told[k].message.size > TellHeaderSize
            /\ processing' = "payload" /\ UNCHANGED <<called, result>>
         \/ /\ processing = "header" /\ told[k].message.size = TellHeaderSize
            /\ CallbackFor(k) /\ UNCHANGED <<processing, result>>
         \/ /\ processing = "payload"
            /\ CallbackFor(k) /\ processing' = "header" /\ UNCHANGED result

PartSize ==
    IF processing = "header" THEN TellHeaderSize
    ELSE LET k == CHOOSE k \in Current : TRUE IN told[k].message.size - TellHeaderSize

(* One recv of qd_input_recv_all. *)
ReceivesBytes(n) ==
    /\ processing \in {"header", "payload"}
    /\ n <= Waiting /\ recv_total + n <= PartSize
    /\ IF recv_total + n < PartSize
       THEN recv_total' = recv_total + n /\ UNCHANGED <<read_bytes, processing, called, result>>
       ELSE recv_total' = 0 /\ read_bytes' = read_bytes + PartSize /\ PartComplete
    /\ UNCHANGED <<told, socket_open, connections>>

(* recv returns 0: what is there of the part is not enough. *)
ReceivesEnd ==
    /\ processing \in {"header", "payload"} /\ Waiting = 0 /\ ~socket_open
    /\ processing' = "failed" /\ result' = "ECONNRESET"
    /\ UNCHANGED <<told, socket_open, recv_total, read_bytes, called, connections>>

TellNext ==
    \/ \E message \in Tellings : SendToClient(message)
    \/ ServiceGoes
    \/ Reconnect
    \/ \E n \in 1..MaxTellSize : ReceivesBytes(n)
    \/ ReceivesEnd

TellSpec == TellInit /\ [][TellNext]_tellVars

-----------------------------------------------------------------------------
(* Properties *)

TellTypeOK ==
    /\ told \in Seq([message : Tellings, sent : 0..MaxTellSize]) /\ Len(told) <= MaxTold
    /\ socket_open \in BOOLEAN
    /\ processing \in {"failed", "header", "payload"} /\ result \in {"ok", "EBADMSG", "ECONNRESET"}
    /\ recv_total \in Nat /\ read_bytes \in Nat
    /\ read_bytes + recv_total <= ToldStart[Len(told) + 1]
    /\ called \in Seq(1..MaxTold) /\ connections \in 0..MaxConnections

Received ==
    {k \in DOMAIN told : told[k].sent = told[k].message.size /\ ToldStart[k + 1] <= read_bytes}

(* "A partial message would break the stream framing, so drop the client"  *)
(* (messaging_service.c, line 227): however messages are cut on the way, a *)
(* program is called back for every key frame request and usable touch it  *)
(* received whole, once and in order, for nothing else, and never finds a  *)
(* message it can not read.                                                *)
CallbacksInOrder ==
    /\ \A j, k \in DOMAIN called : j < k => called[j] < called[k]
    /\ Range(called) = {k \in Received : told[k].message.event \in {"key_frame", "touch"}}
    /\ result # "EBADMSG"
=============================================================================
