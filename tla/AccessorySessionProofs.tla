----------------------- MODULE AccessorySessionProofs -----------------------
(***************************************************************************)
(* Proofs about AccessorySession, for any set of descriptors and any limit *)
(* of errors and attempts.  The parts of the invariant and the tuples of   *)
(* variables are expanded everywhere; a step names the action it is about  *)
(* and the operators that action is built from.                            *)
(***************************************************************************)
EXTENDS AccessorySession, TLAPS

USE NoFdAssumption, LimitsAssumption
USE DEF Threads, Places, Phases, Working, Writing, Goto,
        stateVars, flagVars, timeVars, sessionVars, usbVars, writeVars,
        IInv, TypeOK, FlagsTyped, WatchdogStaysInSession, LockHeldByWriter, OpenUntilClosed,
        PulledWhileWriting, HeartbeatNeedsProcessor, CountersBounded

LEMMA Initially == Init => IInv
<1> SUFFICES ASSUME Init PROVE IInv
  OBVIOUS
<1>1. \A t \in Threads : at[t] = "idle"
  BY DEF Init
<1>2. FlagsTyped
  BY Zenon DEF Init
<1>3. TypeOK
  BY <1>2 DEF Init
<1>4. WatchdogStaysInSession /\ OpenUntilClosed /\ HeartbeatNeedsProcessor /\ CountersBounded
  BY <1>1 DEF Init
<1>5. LockHeldByWriter /\ PulledWhileWriting
  BY <1>1 DEF Init
<1> QED
  BY <1>3, <1>4, <1>5

-----------------------------------------------------------------------------
(* The session thread goes on after a read, a write or a message: what the *)
(* operators that decide where have in common.                             *)

Resting == (Working \ {"write", "write_eintr"}) \cup {"loop", "teardown"}

SessionContinues ==
    /\ \E where \in Resting : Goto("session", where)
    /\ processor' \in BOOLEAN /\ (processor => processor')
    /\ stopping' \in BOOLEAN
    /\ inner' \in BOOLEAN /\ phase' \in Phases
    /\ attempts' \in 0..(ProbeExtraReads + 1)
    /\ protocol_errors' \in 0..MaxProtocolErrors
    /\ CountersBounded'

LEMMA ReturnedContinues ==
    ASSUME IInv, NEW ok \in BOOLEAN, Returned(ok), at["session"] \in Working
    PROVE  SessionContinues
<1>1. inner' \in BOOLEAN
  BY Zenon DEF Returned
<1>2. CASE phase = "probe" /\ ok
  BY <1>1, <1>2 DEF Returned, Finished, SessionContinues, Resting
<1>3. CASE phase = "probe" /\ ~ok
  BY <1>1, <1>3 DEF Returned, Finished, SessionContinues, Resting
<1>4. CASE phase = "run" /\ ok
  BY <1>1, <1>4 DEF Returned, Finished, SessionContinues, Resting
<1>5. CASE phase = "run" /\ ~ok
  <2>1. CASE link_failed' \/ stopping
    BY <1>1, <1>5, <2>1 DEF Returned, Finished, SessionContinues, Resting
  <2>2. CASE ~(link_failed' \/ stopping)
    <3>1. /\ protocol_errors' = protocol_errors + 1
          /\ stopping' = (protocol_errors' >= MaxProtocolErrors)
          /\ Goto("session", "loop")
          /\ UNCHANGED <<processor, phase, attempts>>
      BY <1>5, <2>2 DEF Returned, Finished, TooManyErrors
    <3>2. protocol_errors < MaxProtocolErrors /\ attempts <= ProbeExtraReads
      OBVIOUS
    <3>3. stopping' \in BOOLEAN
      BY <3>1
    <3>4. protocol_errors' \in 0..MaxProtocolErrors
      BY <3>1, <3>2
    <3>5. protocol_errors' < MaxProtocolErrors \/ stopping'
      <4>1. CASE protocol_errors' >= MaxProtocolErrors
        BY <3>1, <4>1, Zenon
      <4>2. CASE ~(protocol_errors' >= MaxProtocolErrors)
        BY <3>4, <4>2
      <4> QED
        BY <4>1, <4>2
    <3>6. at'["session"] = "loop"
      BY <3>1
    <3>7. CountersBounded'
      BY <3>1, <3>2, <3>5, <3>6
    <3> QED
      BY <1>1, <3>1, <3>3, <3>4, <3>7 DEF SessionContinues, Resting
  <2> QED
    BY <2>1, <2>2
<1> QED
  BY <1>2, <1>3, <1>4, <1>5 DEF Returned, Finished

LEMMA ReadFailedContinues ==
    ASSUME IInv, ReadFailed, at["session"] \in Working
    PROVE  SessionContinues
<1>1. CASE \E ok \in BOOLEAN : Returned(ok)
  BY <1>1, ReturnedContinues
<1>2. CASE Goto("session", "teardown") /\ UNCHANGED <<processor, stopping, sessionVars>>
  BY <1>2 DEF SessionContinues, Resting
<1> QED
  BY <1>1, <1>2 DEF ReadFailed

LEMMA SessionWrittenContinues ==
    ASSUME IInv, NEW err, SessionWritten(err), at["session"] \in Working
    PROVE  SessionContinues
<1>1. CASE StatusWritten(err)
  BY <1>1 DEF StatusWritten, SessionContinues, Resting
<1>2. CASE Goto("session", "handle") /\ UNCHANGED <<processor, stopping, sessionVars>>
  BY <1>2 DEF SessionContinues, Resting
<1>3. CASE \E ok \in BOOLEAN : Returned(ok)
  BY <1>3, ReturnedContinues
<1> QED
  BY <1>1, <1>2, <1>3 DEF SessionWritten

(* A step of the session thread that continues outside write *)
LEMMA ContinuingPreserves ==
    ASSUME IInv, SessionContinues,
           at["session"] \in Working \ {"write", "write_eintr"},
           link_failed' \in BOOLEAN,
           UNCHANGED <<fd, session_done, timeVars, usbVars, writeVars, seen, connected>>
    PROVE  IInv'
<1>1. PICK where \in Resting : at' = [at EXCEPT !["session"] = where]
  BY DEF SessionContinues
<1>2. TypeOK'
  BY <1>1 DEF SessionContinues, Resting
<1>3. \A t \in Threads : Writing(t)' <=> Writing(t)
  BY <1>1 DEF Resting
<1>4. LockHeldByWriter' /\ PulledWhileWriting'
  BY <1>3
<1>5. WatchdogStaysInSession' /\ OpenUntilClosed' /\ HeartbeatNeedsProcessor' /\ CountersBounded'
  BY <1>1 DEF SessionContinues, Resting
<1> QED
  BY <1>2, <1>4, <1>5

-----------------------------------------------------------------------------
(* The session thread reads and handles messages *)

LEMMA ReadingPreserves ==
    ASSUME IInv,
           Read \/ EnterRead \/ ReadIsOnline \/ ReadLosesLink \/ ReadData \/ ReadInterrupted
             \/ Handle \/ RunLoop
    PROVE  IInv'
<1>1. CASE Read
  <2>1. CASE ReadFailed
    BY <1>1, <2>1, ReadFailedContinues, ContinuingPreserves DEF Read
  <2>2. CASE Goto("session", "enter_read") /\ UNCHANGED <<processor, stopping, sessionVars>>
    BY <1>1, <2>2, ContinuingPreserves DEF Read, SessionContinues, Resting
  <2> QED
    BY <1>1, <2>1, <2>2 DEF Read
<1>2. CASE EnterRead
  BY <1>2 DEF EnterRead
<1>8. CASE ReadIsOnline
  BY <1>8 DEF ReadIsOnline
<1>3. CASE ReadLosesLink
  BY <1>3, ReadFailedContinues, ContinuingPreserves DEF ReadLosesLink
<1>4. CASE ReadData
  <2>1. silent' \in BOOLEAN
    BY <1>4, Zenon DEF ReadData
  <2> QED
    BY <1>4, <2>1 DEF ReadData
<1>5. CASE ReadInterrupted
  BY <1>5, ReadFailedContinues, ContinuingPreserves DEF ReadInterrupted
<1>6. CASE Handle
  <2>1. CASE \E ok \in BOOLEAN : Returned(ok)
    BY <1>6, <2>1, ReturnedContinues, ContinuingPreserves DEF Handle
  <2>2. CASE \E next \in {"read", "lock"} :
               Goto("session", next) /\ UNCHANGED <<processor, stopping, sessionVars>>
    BY <1>6, <2>2, ContinuingPreserves DEF Handle, SessionContinues, Resting
  <2> QED
    BY <1>6, <2>1, <2>2 DEF Handle
<1>7. CASE RunLoop
  BY <1>7 DEF RunLoop
<1> QED
  BY <1>1, <1>2, <1>3, <1>4, <1>5, <1>6, <1>7, <1>8

-----------------------------------------------------------------------------
(* Writes *)

LEMMA WritePreserves ==
    ASSUME IInv, NEW t \in Threads, Write(t)
    PROVE  IInv'
<1>1. CASE fd # NoFd /\ ~stopping
  BY <1>1 DEF Write
<1>2. CASE ~(fd # NoFd /\ ~stopping) /\ t = "session"
  <2>1. SessionContinues
    BY <1>2, SessionWrittenContinues DEF Write, Written
  <2> QED
    BY <1>2, <2>1, ContinuingPreserves DEF Write
<1>3. CASE ~(fd # NoFd /\ ~stopping) /\ t # "session"
  BY <1>3 DEF Write, Written
<1> QED
  BY <1>1, <1>2, <1>3

LEMMA WriteReturnsPreserves ==
    ASSUME IInv, NEW t \in Threads, NEW err, WriteReturns(t, err)
    PROVE  IInv'
<1>1. pulled' \in BOOLEAN
  BY Zenon DEF WriteReturns
<1>2. link_failed' \in BOOLEAN /\ hb_due' \in BOOLEAN
  BY DEF WriteReturns
<1>3. write_mutex = t /\ write_mutex' = "free"
  BY DEF WriteReturns
<1>4. \A u \in Threads \ {t} : ~Writing(u)
  BY <1>3
<1>5. CASE t = "session"
  <2>1. SessionContinues
    BY <1>5, SessionWrittenContinues DEF WriteReturns, Written
  <2>2. PICK where \in Resting : at' = [at EXCEPT !["session"] = where]
    BY <2>1 DEF SessionContinues
  <2>3. TypeOK'
    BY <1>1, <1>2, <1>3, <1>5, <2>1, <2>2 DEF WriteReturns, SessionContinues, Resting
  <2>4. \A u \in Threads : ~Writing(u)'
    BY <1>4, <1>5, <2>2 DEF Resting
  <2>5. LockHeldByWriter' /\ PulledWhileWriting'
    BY <1>3, <2>4
  <2>6. WatchdogStaysInSession' /\ OpenUntilClosed' /\ HeartbeatNeedsProcessor' /\ CountersBounded'
    BY <1>5, <2>1, <2>2 DEF WriteReturns, SessionContinues, Resting
  <2> QED
    BY <2>3, <2>5, <2>6
<1>6. CASE t # "session"
  BY <1>1, <1>2, <1>3, <1>4, <1>6 DEF WriteReturns, Written
<1> QED
  BY <1>5, <1>6

-----------------------------------------------------------------------------
(* The session thread opens and closes, the watchdog, the environment *)

LEMMA OpeningPreserves ==
    ASSUME IInv, (\E d \in Fds : OpenSession(d)) \/ StartWatchdog \/ WatchdogNotStarted
    PROVE  IInv'
<1>1. ASSUME NEW d \in Fds, OpenSession(d)  PROVE IInv'
  <2>1. FlagsTyped'
    BY <1>1, Zenon DEF OpenSession
  <2>2. TypeOK'
    BY <1>1, <2>1 DEF OpenSession
  <2>3. \A t \in Threads : Writing(t)' <=> Writing(t)
    BY <1>1 DEF OpenSession
  <2>4. fd = NoFd /\ write_mutex' = write_mutex /\ using' = using /\ pulled' = pulled
    BY <1>1 DEF OpenSession
  <2>5. LockHeldByWriter' /\ PulledWhileWriting'
    BY <2>3, <2>4
  <2>6. WatchdogStaysInSession' /\ OpenUntilClosed' /\ HeartbeatNeedsProcessor' /\ CountersBounded'
    BY <1>1 DEF OpenSession
  <2> QED
    BY <2>2, <2>5, <2>6
<1>2. CASE StartWatchdog
  BY <1>2 DEF StartWatchdog
<1>3. CASE WatchdogNotStarted
  <2>1. attached' \in BOOLEAN /\ online' \in BOOLEAN
    BY <1>3, Zenon DEF WatchdogNotStarted
  <2>2. TypeOK'
    BY <1>3, <2>1 DEF WatchdogNotStarted
  <2>3. LockHeldByWriter'
    BY <1>3 DEF WatchdogNotStarted
  <2>4. PulledWhileWriting'
    BY <1>3 DEF WatchdogNotStarted
  <2>5. WatchdogStaysInSession' /\ OpenUntilClosed' /\ HeartbeatNeedsProcessor' /\ CountersBounded'
    BY <1>3 DEF WatchdogNotStarted
  <2> QED
    BY <2>2, <2>3, <2>4, <2>5
<1> QED
  BY <1>1, <1>2, <1>3

LEMMA TeardownPreserves ==
    ASSUME IInv, StopSession \/ DisableGadget \/ SetDone \/ JoinWatchdog \/ CloseSession
    PROVE  IInv'
<1>1. CASE StopSession
  BY <1>1 DEF StopSession
<1>2. CASE DisableGadget
  <2>1. attached' \in BOOLEAN /\ online' \in BOOLEAN
    BY <1>2, Zenon DEF DisableGadget
  <2> QED
    BY <1>2, <2>1 DEF DisableGadget
<1>3. CASE SetDone
  BY <1>3 DEF SetDone
<1>4. CASE JoinWatchdog
  BY <1>4 DEF JoinWatchdog
<1>5. CASE CloseSession
  <2>1. processor' \in BOOLEAN
    BY <1>5, Zenon DEF CloseSession
  <2> QED
    BY <1>5, <2>1 DEF CloseSession
<1> QED
  BY <1>1, <1>2, <1>3, <1>4, <1>5

LEMMA WatchdogPreserves ==
    ASSUME IInv, WatchdogRound \/ WatchdogDecides \/ WatchdogDetaches \/ WatchdogSignals
    PROVE  IInv'
<1>1. CASE WatchdogRound
  BY <1>1 DEF WatchdogRound
<1>2. CASE WatchdogDecides
  BY <1>2 DEF WatchdogDecides, MustStop
<1>3. CASE WatchdogDetaches
  BY <1>3 DEF WatchdogDetaches
<1>4. CASE WatchdogSignals
  BY <1>4 DEF WatchdogSignals, Reading
<1> QED
  BY <1>1, <1>2, <1>3, <1>4

LEMMA OutsidePreserves ==
    ASSUME IInv, HostConfigures \/ HostLeaves \/ SourcesChange \/ TimePasses \/ WriteH264
    PROVE  IInv'
<1>1. CASE HostConfigures
  BY <1>1 DEF HostConfigures
<1>2. CASE HostLeaves
  <2>1. online' \in BOOLEAN
    BY <1>2, Zenon DEF HostLeaves
  <2> QED
    BY <1>2, <2>1 DEF HostLeaves
<1>3. CASE SourcesChange
  BY <1>3 DEF SourcesChange
<1>4. CASE TimePasses
  <2>1. silent' \in BOOLEAN /\ hb_due' \in BOOLEAN /\ connect_expired' \in BOOLEAN
    BY <1>4 DEF TimePasses
  <2> QED
    BY <1>4, <2>1 DEF TimePasses
<1>5. CASE WriteH264
  BY <1>5 DEF WriteH264
<1> QED
  BY <1>1, <1>2, <1>3, <1>4, <1>5

-----------------------------------------------------------------------------
LEMMA StepPreserves == IInv /\ [Next]_vars => IInv'
<1> SUFFICES ASSUME IInv, [Next]_vars  PROVE IInv'
  OBVIOUS
<1>1. ASSUME NEW t \in Threads, WriteFails(t) \/ WriteTaken(t)  PROVE IInv'
  BY <1>1, WriteReturnsPreserves DEF WriteFails, WriteTaken
<1>2. CASE SessionThread
  BY <1>1, <1>2, OpeningPreserves, TeardownPreserves, ReadingPreserves, WritePreserves
     DEF SessionThread
<1>3. CASE WatchdogThread
  BY <1>1, <1>3, WatchdogPreserves, WritePreserves DEF WatchdogThread
<1>4. CASE VideoThread
  BY <1>1, <1>4, WritePreserves DEF VideoThread
<1>5. CASE Environment
  BY <1>1, <1>5, OpeningPreserves, ReadingPreserves, OutsidePreserves DEF Environment
<1>6. CASE UNCHANGED vars
  BY <1>6 DEF vars
<1> QED
  BY <1>2, <1>3, <1>4, <1>5, <1>6 DEF Next

HIDE DEF IInv, TypeOK, WatchdogStaysInSession

THEOREM Invariance == Spec => []IInv
<1>1. Spec => Init /\ [][Next]_vars
  BY DEF Spec
<1> QED
  BY <1>1, Initially, StepPreserves, PTL

(* Whatever the scheduling, every variable keeps its type; the counters of *)
(* probe_protocol and run_session stay within their limits.                *)
THEOREM TypeCorrect == Spec => []TypeOK
<1>1. IInv => TypeOK
  BY DEF IInv
<1> QED
  BY <1>1, Invariance, PTL

(* A thread inside write uses the descriptor of the open session, unless   *)
(* the watchdog could not be created (lines 500-505).                      *)
THEOREM WritersSafe == Spec => []WritersUseOpenDescriptor
<1>1. IInv => WritersUseOpenDescriptor
  BY DEF IInv, WritersUseOpenDescriptor
<1> QED
  BY <1>1, Invariance, PTL

(* The watchdog is gone before its session closes, so the thread it        *)
(* signals and the processor it calls are those of its own session.        *)
THEOREM WatchdogSafe == Spec => []WatchdogStaysInSession
<1>1. IInv => WatchdogStaysInSession
  BY DEF IInv
<1> QED
  BY <1>1, Invariance, PTL
=============================================================================
