-------------------------- MODULE AccessorySession --------------------------
(***************************************************************************)
(* src/usb_accessory/usb_active_accessory.c: one head unit session after   *)
(* another, the descriptor they use and the threads that use it.           *)
(*                                                                         *)
(*   session    usb_active_accessory_run_session, the only reader          *)
(*   watchdog   one per session: heartbeats, timeouts, and the way to stop *)
(*   video      the receiver thread in usb_active_accessory_write_h264     *)
(*                                                                         *)
(* The f_accessory driver and the head unit are external.  A read waits    *)
(* for the online state and then for data; a write fails unless online and *)
(* waits for the head unit to take the data.  Detaching the gadget ends    *)
(* both waits for the head unit, but not the wait for online.              *)
(* What is left of a transfer in the bounce buffer is read like new data.  *)
(***************************************************************************)
EXTENDS Naturals

CONSTANTS
    Fds,                \* descriptors open may return
    NoFd,               \* -1
    MaxProtocolErrors,  \* USB_ACTIVE_ACCESSORY_MAX_PROTOCOL_ERRORS
    ProbeExtraReads     \* USB_ACTIVE_ACCESSORY_PROBE_EXTRA_READS

ASSUME NoFdAssumption == NoFd \notin Fds
ASSUME LimitsAssumption == MaxProtocolErrors \in Nat \ {0} /\ ProbeExtraReads \in Nat

VARIABLES
    fd,                 \* session.fd
    processor,          \* session.processor # NULL
    stopping,
    link_failed,
    session_done,
    write_mutex,        \* the thread that holds it, or "free"
    silent,             \* read_timeout_sec have passed since last_read_ts
    hb_due,             \* 3 s have passed since last_write_ts
    connect_expired,    \* 10 s have passed since started_ts
    at,                 \* where each thread is
    phase,              \* session thread: what its reads and writes are for
    inner,              \* session thread: inside a message
    attempts,           \* session thread: attempt of probe_protocol
    protocol_errors,    \* session thread
    seen,               \* watchdog: processor at the start of the round # NULL
    using,              \* the fd a thread is writing to
    attached,           \* the gadget is bound as accessory
    online,             \* the head unit configured it
    connected,          \* video_receiver_is_connected()
    pulled              \* history: the descriptor was closed under the writer

stateVars == <<fd, processor>>
flagVars == <<stopping, link_failed, session_done>>
timeVars == <<silent, hb_due, connect_expired>>
sessionVars == <<phase, inner, attempts, protocol_errors>>
usbVars == <<attached, online>>
writeVars == <<write_mutex, using, pulled>>
vars == <<stateVars, flagVars, timeVars, sessionVars, usbVars, writeVars, at, seen, connected>>

Threads == {"session", "watchdog", "video"}
Phases == {"announce", "again", "probe", "run"}

Goto(t, where) == at' = [at EXCEPT ![t] = where]

Init ==
    /\ fd = NoFd /\ processor = FALSE
    /\ stopping = FALSE /\ link_failed = FALSE /\ session_done = FALSE
    /\ silent = FALSE /\ hb_due = FALSE /\ connect_expired = FALSE
    /\ at = [t \in Threads |-> "idle"]
    /\ phase = "announce" /\ inner = FALSE /\ attempts = 0 /\ protocol_errors = 0
    /\ seen = FALSE
    /\ write_mutex = "free" /\ using = [t \in Threads |-> NoFd] /\ pulled = FALSE
    /\ attached = FALSE /\ online = FALSE /\ connected = FALSE

-----------------------------------------------------------------------------
(* Session thread: opening.  When set_mode or open fails nothing but the   *)
(* gadget changed, and it is detached.                                     *)

OpenSession(d) ==
    /\ at["session"] = "idle"
    /\ fd' = d /\ processor' = FALSE
    /\ stopping' = FALSE /\ link_failed' = FALSE /\ session_done' = FALSE
    /\ silent' = FALSE /\ hb_due' = FALSE /\ connect_expired' = FALSE
    /\ phase' = "announce" /\ inner' = FALSE /\ attempts' = 0 /\ protocol_errors' = 0
    /\ attached' = TRUE
    /\ Goto("session", "open")
    /\ UNCHANGED <<online, writeVars, seen, connected>>

StartWatchdog ==
    /\ at["session"] = "open"
    /\ at' = [at EXCEPT !["session"] = "lock", !["watchdog"] = "loop"]
    /\ UNCHANGED <<stateVars, flagVars, timeVars, sessionVars, usbVars, writeVars, seen, connected>>

(* pthread_create failed: this path does not take write_mutex. *)
WatchdogNotStarted ==
    /\ at["session"] = "open"
    /\ fd' = NoFd
    /\ attached' = FALSE /\ online' = FALSE
    /\ pulled' = (write_mutex # "free")
    /\ Goto("session", "idle")
    /\ UNCHANGED <<processor, flagVars, timeVars, sessionVars, write_mutex, using, seen, connected>>

-----------------------------------------------------------------------------
(* Session thread: what follows a read, a write or a message *)

(* Mutant: one protocol error too many is allowed. *)
MoreErrorsThanAllowed(n) == n > MaxProtocolErrors

TooManyErrors(n) == n >= MaxProtocolErrors

(* The end of probe() or run() with its result *)
Finished(ok) ==
    \/ /\ phase = "probe" /\ ok
       /\ IF stopping
          THEN Goto("session", "teardown") /\ UNCHANGED <<processor, phase>>
          ELSE processor' = TRUE /\ phase' = "run" /\ Goto("session", "loop")
       /\ UNCHANGED <<stopping, attempts, protocol_errors>>
    \/ /\ phase = "probe" /\ ~ok
       /\ attempts' = attempts + 1
       /\ Goto("session", IF attempts < ProbeExtraReads /\ ~stopping THEN "read" ELSE "teardown")
       /\ UNCHANGED <<processor, stopping, phase, protocol_errors>>
    \/ /\ phase = "run" /\ ok
       /\ protocol_errors' = 0
       /\ Goto("session", "loop")
       /\ UNCHANGED <<processor, stopping, phase, attempts>>
    \/ /\ phase = "run" /\ ~ok
       /\ IF link_failed' \/ stopping
          THEN Goto("session", "teardown") /\ UNCHANGED <<protocol_errors, stopping>>
          ELSE /\ protocol_errors' = protocol_errors + 1
               /\ stopping' = TooManyErrors(protocol_errors')
               /\ Goto("session", "loop")
       /\ UNCHANGED <<processor, phase, attempts>>

(* A handler that lost a read or a write ends, some of them with TRUE.     *)
Returned(ok) == inner' = FALSE /\ Finished(ok)

(* The first read of an attempt or of run() fails. *)
ReadFailed ==
    IF inner THEN \E ok \in BOOLEAN : Returned(ok)
    ELSE IF phase = "run" THEN Returned(FALSE)
    ELSE Goto("session", "teardown") /\ UNCHANGED <<processor, stopping, sessionVars>>

(* Reporting the state of the phone is tried again at once, and then for   *)
(* as long as the accessory is not configured (ENODEV).                    *)
StatusWritten(err) ==
    /\ phase' = IF err = "none" THEN "probe"
                ELSE IF phase = "announce" \/ err = "ENODEV" THEN "again" ELSE "probe"
    /\ Goto("session", IF err # "none" /\ stopping THEN "teardown"
                       ELSE IF phase' = "probe" THEN "read" ELSE "lock")
    /\ UNCHANGED <<processor, stopping, inner, attempts, protocol_errors>>

SessionWritten(err) ==
    IF phase \in {"announce", "again"} THEN StatusWritten(err)
    ELSE IF err = "none"
         THEN Goto("session", "handle") /\ UNCHANGED <<processor, stopping, sessionVars>>
         ELSE \E ok \in BOOLEAN : Returned(ok)

(* The call of write returns to the thread that made it. *)
Written(t, err) ==
    IF t = "session" THEN SessionWritten(err)
    ELSE /\ Goto(t, IF t = "watchdog" THEN "detach" ELSE "idle")
         /\ UNCHANGED <<processor, stopping, sessionVars>>

-----------------------------------------------------------------------------
(* usb_active_accessory_write and _write_with_padding_512, any thread *)

(* write_mutex, then fd and stopping are looked at *)
Write(t) ==
    /\ at[t] = "lock"
    /\ write_mutex = "free"
    /\ UNCHANGED <<fd, link_failed, session_done, timeVars, usbVars, pulled, seen, connected>>
    /\ IF fd # NoFd /\ ~stopping
       THEN /\ write_mutex' = t
            /\ using' = [using EXCEPT ![t] = fd]
            /\ Goto(t, "write")
            /\ UNCHANGED <<processor, stopping, sessionVars>>
       ELSE /\ Written(t, "ENOTCONN")
            /\ UNCHANGED <<write_mutex, using>>

LinkError(err) == err = "EIO" \/ (err = "ENODEV" /\ processor)

Writing(t) == at[t] \in {"write", "write_eintr"}

WriteReturns(t, err) ==
    /\ Writing(t)
    /\ write_mutex' = "free"
    /\ using' = [using EXCEPT ![t] = NoFd]
    /\ pulled' = FALSE
    /\ link_failed' = (link_failed \/ LinkError(err))
    /\ hb_due' = (hb_due /\ err # "none")
    /\ Written(t, err)
    /\ UNCHANGED <<fd, session_done, silent, connect_expired, usbVars, seen, connected>>

(* Not online, interrupted by the wakeup signal, or the descriptor was     *)
(* closed                                                                  *)
WriteFails(t) ==
    \/ ~online /\ \E err \in {"ENODEV", "EIO"} : WriteReturns(t, err)
    \/ at[t] = "write_eintr" /\ WriteReturns(t, "EINTR")
    \/ pulled /\ WriteReturns(t, "EBADF")

(* The head unit takes the data.  The time is noted then. *)
WriteTaken(t) == online /\ WriteReturns(t, "none")

-----------------------------------------------------------------------------
(* usb_active_accessory_read *)

Read ==
    /\ at["session"] = "read"
    /\ UNCHANGED <<fd, link_failed, session_done, timeVars, usbVars, writeVars, seen, connected>>
    /\ IF stopping THEN ReadFailed
       ELSE Goto("session", "enter_read") /\ UNCHANGED <<processor, stopping, sessionVars>>

(* A signal that comes between the check of stopping and read is lost. *)
EnterRead ==
    /\ at["session"] = "enter_read"
    /\ Goto("session", "await_online")
    /\ UNCHANGED <<stateVars, flagVars, timeVars, sessionVars, usbVars, writeVars, seen, connected>>

ReadIsOnline ==
    /\ at["session"] = "await_online" /\ online
    /\ Goto("session", "await_data")
    /\ UNCHANGED <<stateVars, flagVars, timeVars, sessionVars, usbVars, writeVars, seen, connected>>

ReadLosesLink ==
    /\ at["session"] = "await_data" /\ ~online
    /\ link_failed' = TRUE
    /\ ReadFailed
    /\ UNCHANGED <<fd, session_done, timeVars, usbVars, writeVars, seen, connected>>

ReadData ==
    /\ at["session"] = "await_data" /\ online
    /\ silent' = FALSE
    /\ inner' = TRUE
    /\ Goto("session", "handle")
    /\ UNCHANGED <<stateVars, flagVars, hb_due, connect_expired, phase, attempts,
                   protocol_errors, usbVars, writeVars, seen, connected>>

(* A probe or handler reads the rest of the message, replies, or ends. *)
Handle ==
    /\ at["session"] = "handle"
    /\ UNCHANGED <<fd, link_failed, session_done, timeVars, usbVars, writeVars, seen, connected>>
    /\ \/ \E next \in {"read", "lock"} :
            Goto("session", next) /\ UNCHANGED <<processor, stopping, sessionVars>>
       \/ \E ok \in BOOLEAN : Returned(ok)

RunLoop ==
    /\ at["session"] = "loop"
    /\ Goto("session", IF stopping THEN "teardown" ELSE "read")
    /\ UNCHANGED <<stateVars, flagVars, timeVars, sessionVars, usbVars, writeVars, seen, connected>>

-----------------------------------------------------------------------------
(* Session thread: teardown *)

StopSession ==
    /\ at["session"] = "teardown"
    /\ stopping' = TRUE
    /\ Goto("session", "disable")
    /\ UNCHANGED <<stateVars, link_failed, session_done, timeVars, sessionVars, usbVars,
                   writeVars, seen, connected>>

DisableGadget ==
    /\ at["session"] = "disable"
    /\ attached' = FALSE /\ online' = FALSE
    /\ Goto("session", "done")
    /\ UNCHANGED <<stateVars, flagVars, timeVars, sessionVars, writeVars, seen, connected>>

SetDone ==
    /\ at["session"] = "done"
    /\ session_done' = TRUE
    /\ Goto("session", "join")
    /\ UNCHANGED <<stateVars, stopping, link_failed, timeVars, sessionVars, usbVars, writeVars,
                   seen, connected>>

(* Mutant: the watchdog is detached instead of joined. *)
JoinWatchdogNever ==
    /\ at["session"] = "join"
    /\ Goto("session", "close")
    /\ UNCHANGED <<stateVars, flagVars, timeVars, sessionVars, usbVars, writeVars, seen, connected>>

JoinWatchdog ==
    /\ at["session"] = "join" /\ at["watchdog"] = "idle"
    /\ Goto("session", "close")
    /\ UNCHANGED <<stateVars, flagVars, timeVars, sessionVars, usbVars, writeVars, seen, connected>>

(* Mutant: closed without write_mutex. *)
CloseSessionUnlocked ==
    /\ at["session"] = "close"
    /\ fd' = NoFd /\ processor' = FALSE
    /\ Goto("session", "idle")
    /\ UNCHANGED <<flagVars, timeVars, sessionVars, usbVars, writeVars, seen, connected>>

CloseSession ==
    /\ at["session"] = "close"
    /\ write_mutex = "free"
    /\ fd' = NoFd /\ processor' = FALSE
    /\ Goto("session", "idle")
    /\ UNCHANGED <<flagVars, timeVars, sessionVars, usbVars, writeVars, seen, connected>>

-----------------------------------------------------------------------------
(* Watchdog *)

(* Mutant: the watchdog ends once it has signalled. *)
WatchdogRoundOnce ==
    /\ at["watchdog"] = "loop"
    /\ IF session_done \/ stopping THEN Goto("watchdog", "idle") /\ UNCHANGED seen
       ELSE seen' = processor /\ Goto("watchdog", "decide")
    /\ UNCHANGED <<stateVars, flagVars, timeVars, sessionVars, usbVars, writeVars, connected>>

WatchdogRound ==
    /\ at["watchdog"] = "loop"
    /\ IF session_done THEN Goto("watchdog", "idle") /\ UNCHANGED seen
       ELSE /\ seen' = processor
            /\ Goto("watchdog", IF stopping THEN "signal" ELSE "decide")
    /\ UNCHANGED <<stateVars, flagVars, timeVars, sessionVars, usbVars, writeVars, connected>>

(* Mutant: no limit on the time to connect. *)
MustStopOnceRunning == ~connected \/ link_failed \/ (seen /\ silent)

MustStop ==
    \/ ~connected
    \/ link_failed
    \/ IF seen THEN silent ELSE connect_expired

WatchdogDecides ==
    /\ at["watchdog"] = "decide"
    /\ stopping' = (stopping \/ MustStop)
    /\ Goto("watchdog", IF ~MustStop /\ seen /\ hb_due THEN "lock" ELSE "detach")
    /\ UNCHANGED <<stateVars, link_failed, session_done, timeVars, sessionVars, usbVars,
                   writeVars, seen, connected>>

WatchdogDetaches ==
    /\ at["watchdog"] = "detach"
    /\ attached' = (attached /\ ~stopping) /\ online' = (online /\ ~stopping)
    /\ Goto("watchdog", "signal")
    /\ UNCHANGED <<stateVars, flagVars, timeVars, sessionVars, writeVars, seen, connected>>

(* The wakeup signal ends a blocked read of the session thread, or a write *)
(* if it is blocked already, and the thread gives up because stopping is   *)
(* set; anywhere else the signal has no effect.                            *)
Reading == at["session"] \in {"await_online", "await_data"}

WatchdogSignals ==
    /\ at["watchdog"] = "signal"
    /\ \/ /\ stopping /\ Reading
          /\ at' = [at EXCEPT !["watchdog"] = "loop", !["session"] = "eintr"]
       \/ /\ stopping /\ at["session"] = "write"
          /\ at' = [at EXCEPT !["watchdog"] = "loop", !["session"] = "write_eintr"]
       \/ /\ ~(stopping /\ Reading)
          /\ Goto("watchdog", "loop")
    /\ UNCHANGED <<stateVars, flagVars, timeVars, sessionVars, usbVars, writeVars, seen, connected>>

ReadInterrupted ==
    /\ at["session"] = "eintr"
    /\ UNCHANGED <<fd, link_failed, session_done, timeVars, usbVars, writeVars, seen, connected>>
    /\ ReadFailed

-----------------------------------------------------------------------------
(* The video receiver writes a frame: session.processor is read without a  *)
(* lock, the frame is written through it later.                            *)
WriteH264 ==
    /\ at["video"] = "idle"
    /\ processor /\ ~stopping
    /\ Goto("video", "lock")
    /\ UNCHANGED <<stateVars, flagVars, timeVars, sessionVars, usbVars, writeVars, seen, connected>>

-----------------------------------------------------------------------------
(* The head unit, the sources and the clock *)

HostConfigures ==
    /\ attached /\ ~online
    /\ online' = TRUE
    /\ UNCHANGED <<stateVars, flagVars, timeVars, sessionVars, attached, writeVars, at, seen, connected>>

HostLeaves ==
    /\ online
    /\ online' = FALSE
    /\ UNCHANGED <<stateVars, flagVars, timeVars, sessionVars, attached, writeVars, at, seen, connected>>

SourcesChange ==
    /\ connected' = ~connected
    /\ UNCHANGED <<stateVars, flagVars, timeVars, sessionVars, usbVars, writeVars, at, seen>>

(* The first two are only looked at once the protocol is known, the third  *)
(* before that.                                                            *)
TimePasses ==
    /\ fd # NoFd
    /\ \/ processor /\ ~silent /\ silent' = TRUE /\ UNCHANGED <<hb_due, connect_expired>>
       \/ processor /\ ~hb_due /\ hb_due' = TRUE /\ UNCHANGED <<silent, connect_expired>>
       \/ ~processor /\ ~connect_expired /\ connect_expired' = TRUE /\ UNCHANGED <<silent, hb_due>>
    /\ UNCHANGED <<stateVars, flagVars, sessionVars, usbVars, writeVars, at, seen, connected>>

Environment ==
    \/ HostConfigures \/ HostLeaves \/ SourcesChange \/ TimePasses
    \/ ReadData
    \/ \E t \in Threads : WriteTaken(t)
    \/ \E d \in Fds : OpenSession(d)
    \/ WriteH264

SessionThread ==
    \/ StartWatchdog \/ WatchdogNotStarted
    \/ Write("session") \/ WriteFails("session")
    \/ Read \/ EnterRead \/ ReadIsOnline \/ ReadLosesLink \/ ReadInterrupted
    \/ Handle \/ RunLoop
    \/ StopSession \/ DisableGadget \/ SetDone \/ JoinWatchdog \/ CloseSession

WatchdogThread ==
    \/ WatchdogRound \/ WatchdogDecides \/ WatchdogDetaches \/ WatchdogSignals
    \/ Write("watchdog") \/ WriteFails("watchdog")

VideoThread == Write("video") \/ WriteFails("video")

Next == SessionThread \/ WatchdogThread \/ VideoThread \/ Environment

(* Threads run, a thread in a system call returns once the driver lets it. *)
(* Nothing is assumed of the head unit: it may never take or send data.    *)
Fairness == WF_vars(SessionThread) /\ WF_vars(WatchdogThread) /\ WF_vars(VideoThread)

Spec == Init /\ [][Next]_vars /\ Fairness

-----------------------------------------------------------------------------
(* Properties *)

(* Where the session thread can still be in the middle of a message *)
Working == {"lock", "write", "write_eintr", "read", "enter_read", "await_online", "await_data",
            "eintr", "handle"}

Places ==
    {"idle", "open", "loop", "teardown", "disable", "done", "join", "close"}
    \cup Working \cup {"decide", "detach", "signal"}

FlagsTyped ==
    /\ processor \in BOOLEAN
    /\ stopping \in BOOLEAN /\ link_failed \in BOOLEAN /\ session_done \in BOOLEAN
    /\ silent \in BOOLEAN /\ hb_due \in BOOLEAN /\ connect_expired \in BOOLEAN
    /\ inner \in BOOLEAN /\ seen \in BOOLEAN /\ pulled \in BOOLEAN
    /\ attached \in BOOLEAN /\ online \in BOOLEAN /\ connected \in BOOLEAN

TypeOK ==
    /\ FlagsTyped
    /\ fd \in Fds \cup {NoFd}
    /\ at \in [Threads -> Places]
    /\ at["session"] \notin {"decide", "detach", "signal"}
    /\ at["watchdog"] \in {"idle", "loop", "decide", "lock", "write", "detach", "signal"}
    /\ at["video"] \in {"idle", "lock", "write"}
    /\ phase \in Phases
    /\ attempts \in 0..(ProbeExtraReads + 1)
    /\ protocol_errors \in 0..MaxProtocolErrors
    /\ write_mutex \in Threads \cup {"free"}
    /\ using \in [Threads -> Fds \cup {NoFd}]

(* Comment of line 550: a thread inside write uses the descriptor of the   *)
(* session that is open, whatever the session thread does meanwhile.  The  *)
(* path taken when the watchdog can not be created closes the descriptor   *)
(* without write_mutex; pulled records that it did so under a writer.      *)
WritersUseOpenDescriptor ==
    \A t \in Threads : Writing(t) => using[t] = fd \/ pulled

(* The watchdog runs only while its session is open: it never signals a    *)
(* thread that left the session, and its heartbeat, prepared from a        *)
(* processor it read a while ago, still finds that processor in place.     *)
WatchdogStaysInSession ==
    /\ at["watchdog"] # "idle" => fd # NoFd /\ at["session"] \notin {"idle", "open", "close"}
    /\ at["watchdog"] \in {"lock", "write"} => processor

(* Comments of lines 26-29 and 368-369: whoever decides to stop, and       *)
(* whatever a thread is blocked in by then, the session gets closed.       *)
StopCloses == fd # NoFd /\ stopping ~> fd = NoFd

(* A head unit that does not get through the protocol in 10 s is given up, *)
(* even if it takes no data.                                               *)
ConnectTimesOut == fd # NoFd /\ connect_expired /\ ~processor ~> processor \/ fd = NoFd

(* Line 354: "head unit is silent" stops the session.  A head unit that    *)
(* neither sends nor takes data blocks a writer, the heartbeat due after   *)
(* 3 s then waits for it, and the watchdog never looks again.              *)
SilenceStops == processor /\ silent ~> ~silent \/ stopping \/ fd = NoFd

(* Line 322: "only a probed session takes them".  The processor may have   *)
(* been read in the session before.                                        *)
FramesToProbedSession == Writing("video") => processor

(* What AccessorySessionProofs shows to be inductive: the mutex is held by *)
(* the one thread that writes, and the descriptor is there from open to    *)
(* close.                                                                  *)
LockHeldByWriter == \A t \in Threads : Writing(t) <=> write_mutex = t

OpenUntilClosed == (fd = NoFd) <=> (at["session"] = "idle")

PulledWhileWriting ==
    \A t \in Threads : Writing(t) /\ ~pulled => using[t] = fd /\ fd # NoFd

CountersBounded ==
    /\ at["session"] \in Working \cup {"open", "loop"} => attempts <= ProbeExtraReads
    /\ at["session"] \in Working \cup {"open"} => protocol_errors < MaxProtocolErrors
    /\ at["session"] = "loop" => protocol_errors < MaxProtocolErrors \/ stopping

HeartbeatNeedsProcessor == at["watchdog"] = "decide" /\ seen => processor

IInv ==
    /\ TypeOK
    /\ WatchdogStaysInSession
    /\ LockHeldByWriter
    /\ OpenUntilClosed
    /\ PulledWhileWriting
    /\ HeartbeatNeedsProcessor
    /\ CountersBounded
=============================================================================
