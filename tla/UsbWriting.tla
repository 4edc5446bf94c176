------------------------------- MODULE UsbWriting -------------------------------
(***************************************************************************)
(* How messages get to the head unit: three threads that write, the        *)
(* write_mutex between them, and a driver that takes a message in pieces   *)
(* and may fail in the middle of one.  Bytes are counted.  The watchdog    *)
(* and the life of a session are in AccessorySession.                      *)
(***************************************************************************)
EXTENDS Naturals

CONSTANTS
    OutChunk,           \* MESSAGE_PROCESSOR_V1_DEFAULT_CHUNK_SIZE, and V2's
    OutHeader,          \* sizeof(message_video_frame_v2_t)
    OutLens,            \* lengths of frames and of what replies carry
    MaxOutSessions      \* bound: sessions

ASSUME OutAssumption ==
    /\ OutChunk \in Nat \ {0} /\ OutHeader \in 1..OutChunk
    /\ OutLens \subseteq Nat \ {0} /\ MaxOutSessions \in Nat

VARIABLES
    speaks,             \* the protocol of the head unit
    open,               \* session.fd is valid
    online,             \* the head unit has configured the accessory
    running,            \* session.processor is set
    stopping, link_failed,
    writing,            \* what each thread has to write
    write_mutex,        \* the thread that holds it
    written,            \* of write_all_locked
    incoming,           \* history: bytes the head unit waits for, and of whom
    garbled,            \* history: it got other ones
    out_sessions

linkVars == <<speaks, open, online, running, stopping, link_failed, out_sessions>>
writeVars == <<writing, write_mutex, written>>
outVars == <<linkVars, writeVars, incoming, garbled>>

WriterThreads == {"session", "video", "watchdog"}
NobodyWrites == "nobody"
NoMessage == [len |-> 0, bytes |-> 0]
NoneIncoming == [from |-> NobodyWrites, left |-> 0]

InChunks(len) == ((len + OutChunk - 1) \div OutChunk) * OutChunk

-----------------------------------------------------------------------------
(* Messages: the length they declare, and the bytes that are written.      *)

(* heart_beat_v1_init and the other fixed messages of V1.  The heartbeat   *)
(* of V2 declares less, which the head unit reads as the one chunk it is.  *)
OneChunk == [len |-> OutChunk, bytes |-> OutChunk]

(* usb_active_accessory_write_with_padding_512 *)
WithPadding(len) == [len |-> len, bytes |-> InChunks(len)]

FrameV2(len) == WithPadding(OutHeader + len)

(* Mutant: the frame is not filled up to whole chunks. *)
FrameV1Exact(len) ==
    [len |-> OutChunk + InChunks(len), bytes |-> OutChunk + len]

(* A header of one chunk, and whole chunks of data. *)
FrameV1(len) ==
    [len |-> OutChunk + InChunks(len), bytes |-> OutChunk + InChunks(len)]

SendAppMsgV1(len) ==
    [len |-> OutChunk + InChunks(len), bytes |-> OutChunk + InChunks(len)]

MessagesOf(t) ==
    CASE t = "watchdog" -> {OneChunk}
      [] t = "video"    -> {IF speaks = "V1" THEN FrameV1(len) ELSE FrameV2(len) : len \in OutLens}
      [] t = "session"  -> {OneChunk} \cup
                           {IF speaks = "V1" THEN SendAppMsgV1(len) ELSE WithPadding(len) : len \in OutLens}

-----------------------------------------------------------------------------

WriteInit ==
    /\ speaks \in {"V1", "V2"}
    /\ open = FALSE /\ online = FALSE /\ running = FALSE
    /\ stopping = FALSE /\ link_failed = FALSE /\ out_sessions = 0
    /\ writing = [t \in WriterThreads |-> NoMessage]
    /\ write_mutex = NobodyWrites /\ written = 0
    /\ incoming = NoneIncoming /\ garbled = FALSE

(* A thread has a message.  Frames and heartbeats are written if there is  *)
(* a processor, which may be gone before the mutex is taken.               *)
HasMessage(t) ==
    /\ writing[t] = NoMessage
    /\ open /\ ~stopping /\ (t # "session" => running)
    /\ \E message \in MessagesOf(t) : writing' = [writing EXCEPT ![t] = message]
    /\ UNCHANGED <<linkVars, write_mutex, written, incoming, garbled>>

Returns(t) ==
    /\ writing' = [writing EXCEPT ![t] = NoMessage]
    /\ written' = 0

(* Mutant: whether the session stops is tested before the mutex is taken. *)
MayWriteLate == open

MayWrite == open /\ ~stopping

LocksToWrite(t) ==
    /\ writing[t] # NoMessage /\ write_mutex = NobodyWrites
    /\ IF MayWrite THEN write_mutex' = t /\ UNCHANGED <<writing, written>>
                   ELSE Returns(t) /\ UNCHANGED write_mutex
    /\ UNCHANGED <<linkVars, incoming, garbled>>

(* History: the head unit reads the length, and as many chunks. *)
HeadUnitGets(t, n) ==
    IF written = 0
    THEN /\ incoming' = [from |-> t, left |-> InChunks(writing[t].len) - n]
         /\ garbled' = (garbled \/ incoming.left > 0)
    ELSE /\ incoming' = [incoming EXCEPT !.left = IF @ > n THEN @ - n ELSE 0]
         /\ garbled' = (garbled \/ incoming.from # t \/ incoming.left < n)

(* One write of write_all_locked.  The driver takes n bytes. *)
WritesPiece(t, n) ==
    /\ write_mutex = t /\ online /\ written + n <= writing[t].bytes
    /\ HeadUnitGets(t, n)
    /\ IF written + n < writing[t].bytes
       THEN written' = written + n /\ UNCHANGED <<writing, write_mutex>>
       ELSE Returns(t) /\ write_mutex' = NobodyWrites
    /\ UNCHANGED linkVars

(* is_link_error *)
IsLinkError(error) ==
    CASE error = "ENODEV" -> running
      [] error = "EIO"    -> TRUE
      [] error = "EINTR"  -> FALSE

(* It fails: the head unit has gone, or never came; or the link broke; or  *)
(* a signal came and the session stops.  Else a signal changes nothing.    *)
WritePieceFails(t) ==
    /\ write_mutex = t
    /\ \E error \in {"ENODEV", "EIO", "EINTR"} :
         /\ error = "ENODEV" => ~online
         /\ error = "EIO" => online
         /\ error = "EINTR" => stopping
         /\ link_failed' = (link_failed \/ IsLinkError(error))
    /\ Returns(t) /\ write_mutex' = NobodyWrites
    /\ UNCHANGED <<speaks, open, online, running, stopping, out_sessions, incoming, garbled>>

-----------------------------------------------------------------------------
(* The session, as far as the writers see it *)

SessionOpens ==
    /\ ~open /\ out_sessions < MaxOutSessions /\ out_sessions' = out_sessions + 1
    /\ open' = TRUE /\ stopping' = FALSE /\ link_failed' = FALSE
    /\ UNCHANGED <<speaks, online, running, writeVars, incoming, garbled>>

(* The head unit configures the accessory, and begins anew.  A write that  *)
(* was under way when it left has failed by then.                          *)
ComesOnline ==
    /\ open /\ ~online /\ ~stopping /\ written = 0
    /\ online' = TRUE /\ incoming' = NoneIncoming /\ garbled' = FALSE
    /\ UNCHANGED <<speaks, open, running, stopping, link_failed, out_sessions, writeVars>>

GoesOffline ==
    /\ online /\ online' = FALSE
    /\ UNCHANGED <<speaks, open, running, stopping, link_failed, out_sessions, writeVars,
                   incoming, garbled>>

(* probe_protocol was successful. *)
SessionRuns ==
    /\ open /\ ~running /\ ~stopping /\ writing["session"] = NoMessage
    /\ running' = TRUE
    /\ UNCHANGED <<speaks, open, online, stopping, link_failed, out_sessions, writeVars,
                   incoming, garbled>>

(* session_request_stop, for any reason: the watchdog then pulls the       *)
(* gadget, some time.                                                      *)
SessionStops ==
    /\ open /\ ~stopping /\ stopping' = TRUE
    /\ UNCHANGED <<speaks, open, online, running, link_failed, out_sessions, writeVars,
                   incoming, garbled>>

(* The session thread is out of its loop and has joined the watchdog.  The *)
(* video thread may be about to lock.                                      *)
SessionCloses ==
    /\ open /\ stopping /\ write_mutex = NobodyWrites
    /\ writing["session"] = NoMessage /\ writing["watchdog"] = NoMessage
    /\ open' = FALSE /\ running' = FALSE /\ online' = FALSE
    /\ incoming' = NoneIncoming /\ garbled' = FALSE
    /\ UNCHANGED <<speaks, stopping, link_failed, out_sessions, writeVars>>

WriteNext ==
    \/ \E t \in WriterThreads :
         \/ HasMessage(t)
         \/ LocksToWrite(t)
         \/ \E n \in 1..writing[t].bytes : WritesPiece(t, n)
         \/ WritePieceFails(t)
    \/ SessionOpens \/ ComesOnline \/ GoesOffline \/ SessionRuns \/ SessionStops \/ SessionCloses

WriteSpec == WriteInit /\ [][WriteNext]_outVars

-----------------------------------------------------------------------------
(* Properties *)

WriteTypeOK ==
    /\ speaks \in {"V1", "V2"} /\ out_sessions \in 0..MaxOutSessions
    /\ {open, online, running, stopping, link_failed, garbled} \subseteq BOOLEAN
    /\ \A t \in WriterThreads : writing[t] = NoMessage \/ writing[t].bytes % OutChunk = 0
    /\ write_mutex \in WriterThreads \cup {NobodyWrites}
    /\ written \in Nat /\ (written > 0 => written < writing[write_mutex].bytes)

(* Whoever writes and however the driver cuts it: the head unit gets whole *)
(* messages, one after the other, each as long as it says.  If one is not  *)
(* finished then a thread is at it, or the session has been told so: the   *)
(* link has failed, the head unit has left, or the session stops; and      *)
(* unless the link had failed nothing follows a message that was cut.      *)
HeadUnitInSync ==
    /\ garbled => link_failed
    /\ incoming.left > 0 /\ online => link_failed \/ stopping \/ write_mutex = incoming.from
=============================================================================
