------------------------ MODULE AccessoryWorkerProofs ------------------------
(***************************************************************************)
(* Proofs about AccessoryWorker, for any delays, and any number of crashes *)
(* and failures.  The parts of the invariant are expanded everywhere; a    *)
(* step names the action it is about.                                      *)
(***************************************************************************)
EXTENDS AccessoryWorker, RecursionLemmas

-----------------------------------------------------------------------------
(* The delays *)

(* A table of the first n + 1 delays *)
Doubles(f, n) == \A i \in 0..n : f[i] = IF i = 0 THEN RetryMin ELSE 2 * f[i - 1]

LEMMA DoublesExists ==
    ASSUME NEW n \in Nat
    PROVE  \E f \in [0..n -> Nat] : Doubles(f, n)
<1> DEFINE T == {m \in Nat : ~\E f \in [0..m -> Nat] : Doubles(f, m)}
<1> SUFFICES ASSUME T # {} PROVE FALSE
  OBVIOUS
<1>1. PICK m \in T : \A k \in T : ~(k < m)
  <2> T \in SUBSET Nat
    OBVIOUS
  <2> HIDE DEF T
  <2> QED
    BY Least
<1>2. CASE m = 0
  <2>1. [i \in 0..0 |-> RetryMin] \in [0..0 -> Nat] /\ Doubles([i \in 0..0 |-> RetryMin], 0)
    BY RetryAssumption DEF Doubles
  <2> QED
    BY <1>2, <2>1
<1>3. CASE m # 0
  <2>1. m - 1 \in Nat /\ m - 1 \notin T
    BY <1>1, <1>3
  <2>2. PICK f \in [0..m - 1 -> Nat] : Doubles(f, m - 1)
    BY <2>1
  <2> DEFINE g == [i \in 0..m |-> IF i = m THEN 2 * f[m - 1] ELSE f[i]]
  <2>3. g \in [0..m -> Nat]
    BY <2>1
  <2>4. Doubles(g, m)
    BY <2>1, <2>2, <1>3 DEF Doubles
  <2> QED
    BY <2>3, <2>4
<1> QED
  BY <1>2, <1>3

LEMMA DoublesUnique ==
    ASSUME NEW n \in Nat, NEW m \in Nat, NEW k \in Nat, k <= n, k <= m,
           NEW f, NEW g, Doubles(f, n), Doubles(g, m)
    PROVE  f[k] = g[k]
<1> DEFINE T == {i \in 0..k : f[i] # g[i]}
<1> SUFFICES ASSUME T # {} PROVE FALSE
  OBVIOUS
<1>1. PICK i \in T : \A j \in T : ~(j < i)
  <2> T \in SUBSET Nat
    OBVIOUS
  <2> HIDE DEF T
  <2> QED
    BY Least
<1>2. i # 0
  BY DEF Doubles
<1>3. i - 1 \in 0..k /\ i - 1 \notin T
  BY <1>1, <1>2
<1> QED
  BY <1>2, <1>3 DEF Doubles

(* The delays are what their definition says.                              *)
LEMMA DoubledDef ==
    /\ Doubled \in [Nat -> Nat]
    /\ \A n \in Nat : Doubled[n] = IF n = 0 THEN RetryMin ELSE 2 * Doubled[n - 1]
<1> DEFINE table(n) == CHOOSE f \in [0..n -> Nat] : Doubles(f, n)
           g == [n \in Nat |-> table(n)[n]]
<1>1. \A n \in Nat : table(n) \in [0..n -> Nat] /\ Doubles(table(n), n)
  BY DoublesExists
<1> HIDE DEF table
<1>2. \A n \in Nat : table(n)[n] = IF n = 0 THEN RetryMin ELSE 2 * table(n - 1)[n - 1]
  <2> TAKE n \in Nat
  <2>1. CASE n = 0
    BY <1>1, <2>1 DEF Doubles
  <2>2. CASE n # 0
    <3>1. n - 1 \in Nat
      BY <2>2
    <3>2. table(n)[n] = 2 * table(n)[n - 1]
      BY <1>1, <2>2 DEF Doubles
    <3>3. table(n)[n - 1] = table(n - 1)[n - 1]
      BY <1>1, <3>1, DoublesUnique
    <3> QED
      BY <2>2, <3>2, <3>3
  <2> QED
    BY <2>1, <2>2
<1>3. g \in [Nat -> Nat]
  BY <1>1
<1>4. g = [n \in Nat |-> IF n = 0 THEN RetryMin ELSE 2 * g[n - 1]]
  BY <1>2
<1> HIDE DEF g
<1>5. Doubled = CHOOSE f : f = [n \in Nat |-> IF n = 0 THEN RetryMin ELSE 2 * f[n - 1]]
  BY Zenon DEF Doubled
<1>6. Doubled = [n \in Nat |-> IF n = 0 THEN RetryMin ELSE 2 * Doubled[n - 1]]
  BY <1>4, <1>5, Zenon
<1>7. \A n \in Nat : Doubled[n] = IF n = 0 THEN RetryMin ELSE 2 * Doubled[n - 1]
  BY <1>6, Zenon
<1> DEFINE T == {n \in Nat : Doubled[n] \notin Nat}
<1>8. T = {}
  <2> SUFFICES ASSUME T # {} PROVE FALSE
    OBVIOUS
  <2>1. PICK n \in T : \A m \in T : ~(m < n)
    <3> T \in SUBSET Nat
      OBVIOUS
    <3> HIDE DEF T
    <3> QED
      BY Least
  <2>2. CASE n = 0
    BY <1>7, <2>2, RetryAssumption
  <2>3. CASE n # 0
    <3>1. n - 1 \in Nat /\ n - 1 \notin T
      BY <2>1, <2>3
    <3> QED
      BY <1>7, <2>3, <3>1
  <2> QED
    BY <2>2, <2>3
<1> QED
  BY <1>6, <1>7, <1>8, Zenon

-----------------------------------------------------------------------------
(* The invariant *)

USE RetryAssumption, BoundsAssumption
USE DEF IInv, TypeOK, FlagsTyped, HandleIsWhole, NotPresentedWithoutSource, HandleKnown, StaleRemoved,
        Places, Modes, Gadgets, Presented, loopVars, gadgetVars, outsideVars

LEMMA Initially == Init => IInv
<1> SUFFICES ASSUME Init PROVE IInv
  OBVIOUS
<1>1. FlagsTyped
  BY Zenon DEF Init
<1> QED
  BY <1>1 DEF Init

(* usb_accessory_create_locked and usb_accessory_set_mode: a crash or an   *)
(* error in between leaves what the next call removes.                     *)
LEMMA CreatingPreserves ==
    ASSUME IInv, Boot \/ RemoveStale \/ CreateGadget \/ AddFunction \/ RemoveStaleFails \/ CreateFails
    PROVE  IInv'
<1>1. CASE Boot
  BY <1>1 DEF Boot
<1>2. CASE RemoveStale
  BY <1>2 DEF RemoveStale
<1>3. CASE CreateGadget
  BY <1>3 DEF CreateGadget
<1>4. CASE AddFunction
  BY <1>4 DEF AddFunction, Created, SetModeFails
<1>5. CASE RemoveStaleFails
  BY <1>5 DEF RemoveStaleFails, Created, SetModeFails, Detached
<1>6. CASE CreateFails
  BY <1>6 DEF CreateFails, Created, SetModeFails
<1> QED
  BY <1>1, <1>2, <1>3, <1>4, <1>5, <1>6

LEMMA SettingModePreserves ==
    ASSUME IInv, SetMode \/ Bind \/ Enable \/ EnableFails
    PROVE  IInv'
<1>1. CASE SetMode
  BY <1>1 DEF SetMode
<1>2. CASE Bind
  BY <1>2 DEF Bind, Detached
<1>3. CASE Enable
  BY <1>3 DEF Enable
<1>4. CASE EnableFails
  BY <1>4 DEF EnableFails, SetModeFails
<1> QED
  BY <1>1, <1>2, <1>3, <1>4

(* The worker's loop *)
LEMMA LoopPreserves ==
    ASSUME IInv,
           AwaitConnection \/ OpenDevice \/ WaitForStart \/ WaitFails \/ OpenSession
             \/ SessionEnds \/ EndPass \/ Backoff
    PROVE  IInv'
<1>1. CASE AwaitConnection
  BY <1>1 DEF AwaitConnection
<1>2. CASE OpenDevice
  BY <1>2 DEF OpenDevice
<1>3. CASE WaitForStart
  BY <1>3 DEF WaitForStart
<1>4. CASE WaitFails
  BY <1>4 DEF WaitFails
<1>5. CASE OpenSession
  BY <1>5 DEF OpenSession, Detached
<1>6. CASE SessionEnds
  BY <1>6 DEF SessionEnds, Detached
<1>7. CASE EndPass
  BY <1>7 DEF EndPass, Detached
<1>8. CASE Backoff
  BY <1>8 DEF Backoff
<1> QED
  BY <1>1, <1>2, <1>3, <1>4, <1>5, <1>6, <1>7, <1>8

LEMMA EnvironmentPreserves ==
    ASSUME IInv, Environment
    PROVE  IInv'
<1>1. CASE HeadUnitStarts
  BY <1>1 DEF HeadUnitStarts
<1>2. CASE SourcesChange
  BY <1>2 DEF SourcesChange
<1>3. CASE ControllerAppears
  BY <1>3 DEF ControllerAppears
<1>4. CASE Crash
  <2>1. FlagsTyped'
    BY <1>4, Zenon DEF Crash
  <2> QED
    BY <1>4, <2>1 DEF Crash
<1> QED
  BY <1>1, <1>2, <1>3, <1>4 DEF Environment

LEMMA StepPreserves == IInv /\ [Next]_vars => IInv'
<1> SUFFICES ASSUME IInv, [Next]_vars  PROVE IInv'
  OBVIOUS
<1>1. CASE Worker
  BY <1>1, CreatingPreserves, SettingModePreserves, LoopPreserves DEF Worker
<1>2. CASE Failure
  BY <1>2, CreatingPreserves, SettingModePreserves DEF Failure
<1>3. CASE WaitFails \/ SessionEnds
  BY <1>3, LoopPreserves
<1>4. CASE Environment
  BY <1>4, EnvironmentPreserves
<1>5. CASE UNCHANGED vars
  BY <1>5 DEF vars
<1> QED
  BY <1>1, <1>2, <1>3, <1>4, <1>5 DEF Next

HIDE DEF IInv

THEOREM Invariance == Spec => []IInv
<1>1. Spec => Init /\ [][Next]_vars
  BY DEF Spec
<1> QED
  BY <1>1, Initially, StepPreserves, PTL

(* The delay stays between its limits, whatever they are, and every        *)
(* variable keeps its type.                                                *)
THEOREM TypeCorrect == Spec => []TypeOK
<1>1. IInv => TypeOK
  BY DEF IInv
<1> QED
  BY <1>1, Invariance, PTL

(* The program never holds a gadget that is half configured or gone        *)
(* (usb_accessory.c, lines 123-124), wherever the runs before crashed.     *)
THEOREM HandleSafe == Spec => []HandleIsWhole
<1>1. IInv => HandleIsWhole
  BY DEF IInv
<1> QED
  BY <1>1, Invariance, PTL

(* The head unit sees nothing while the worker waits for a source or for   *)
(* its next try (usb_accessory_worker.c, line 31).                         *)
THEOREM HiddenWithoutSource == Spec => []NotPresentedWithoutSource
<1>1. IInv => NotPresentedWithoutSource
  BY DEF IInv
<1> QED
  BY <1>1, Invariance, PTL

-----------------------------------------------------------------------------
(* The delay and the history of the failures *)

(* A failure doubles both, the limit cuts the delay, and what it has cut   *)
(* stays at the limit when it is doubled again.                            *)
LEMMA BackoffKept ==
    ASSUME TypeOK, BackoffFollowsFailures, Backoff
    PROVE  BackoffFollowsFailures'
<1> DEFINE d == Doubled[failures]
<1>1. failures \in Nat /\ failures <= MaxFailures /\ d \in Nat /\ Doubled[failures + 1] = 2 * d
  BY DoubledDef
<1>2. retry_delay = IF d > RetryMax THEN RetryMax ELSE d
  BY DEF BackoffFollowsFailures
<1>3. retry_delay' = IF 2 * d > RetryMax THEN RetryMax ELSE 2 * d
  BY <1>1, <1>2 DEF Backoff
<1>4. CASE failures < MaxFailures
  BY <1>1, <1>3, <1>4 DEF Backoff, BackoffFollowsFailures
<1>5. CASE failures = MaxFailures
  <2>1. d >= RetryMax /\ failures' = failures
    BY <1>5, LimitAssumption DEF Backoff
  <2> QED
    BY <1>1, <1>3, <2>1 DEF BackoffFollowsFailures
<1> QED
  BY <1>1, <1>4, <1>5

(* Everything else forgets the failures and the delay, or keeps both.      *)
LEMMA BackoffStep ==
    ASSUME TypeOK, BackoffFollowsFailures, [Next]_vars
    PROVE  BackoffFollowsFailures'
<1>1. CASE Backoff
  BY <1>1, BackoffKept
<1>2. CASE SessionEnds \/ Crash
  <2>1. retry_delay' = RetryMin /\ failures' = 0
    BY <1>2 DEF SessionEnds, Crash
  <2> QED
    BY <2>1, DoubledDef DEF BackoffFollowsFailures
<1>3. CASE [Next]_vars /\ ~Backoff /\ ~SessionEnds /\ ~Crash
  <2>1. retry_delay' = retry_delay /\ failures' = failures
    BY <1>3 DEF Next, Worker, Failure, Environment, vars, Boot, RemoveStale, CreateGadget, AddFunction,
                SetMode, Bind, Enable, AwaitConnection, OpenDevice, WaitForStart, WaitFails, OpenSession,
                EndPass, RemoveStaleFails, CreateFails, EnableFails, HeadUnitStarts, SourcesChange,
                ControllerAppears
  <2> QED
    BY <2>1 DEF BackoffFollowsFailures
<1> QED
  BY <1>1, <1>2, <1>3

(* usb_accessory_worker.c, lines 194-219: after any history of failures,   *)
(* sessions, waits that came to nothing and crashes, the delay is the      *)
(* least one, doubled once for each failure since the last session, up to  *)
(* the limit.                                                              *)
THEOREM DelayFollowsFailures == Spec => []BackoffFollowsFailures
<1>1. Init => BackoffFollowsFailures
  BY DoubledDef DEF Init, BackoffFollowsFailures
<1>2. TypeOK /\ BackoffFollowsFailures /\ [Next]_vars => BackoffFollowsFailures'
  BY BackoffStep
<1> QED
  BY <1>1, <1>2, TypeCorrect, PTL DEF Spec
=============================================================================
