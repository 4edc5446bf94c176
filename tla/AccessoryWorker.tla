--------------------------- MODULE AccessoryWorker ---------------------------
(***************************************************************************)
(* src/usb_accessory/usb_accessory_worker.c and usb_accessory.c: the loop  *)
(* that presents the gadget to the head unit, waits for its START and runs *)
(* one session after another, and the gadget in configfs.                  *)
(*                                                                         *)
(* The gadget outlives the program: a crash leaves it as it is, and the    *)
(* next run has to get rid of it.  Calls of libusbgx may fail, but         *)
(* usbg_disable_gadget does not, and usbg_init does so only while configfs *)
(* is not mounted, that is, while there is no gadget.  What happens inside *)
(* a session is the subject of AccessorySession.                           *)
(***************************************************************************)
EXTENDS Naturals

CONSTANTS
    RetryMin, RetryMax, \* USB_ACCESSORY_WORKER_RETRY_MIN_US and _MAX_US
    MaxFailures,        \* bound: the history of failures stops here
    MaxCrashes          \* bound: crashes of the program

ASSUME RetryAssumption == RetryMin \in Nat \ {0} /\ RetryMax \in Nat /\ RetryMin <= RetryMax
ASSUME BoundsAssumption == MaxFailures \in Nat /\ MaxCrashes \in Nat

(* The delay after n failures, if there were no limit.                     *)
Doubled[n \in Nat] == IF n = 0 THEN RetryMin ELSE 2 * Doubled[n - 1]

(* The failures that are not counted any more find the delay at its limit. *)
ASSUME LimitAssumption == Doubled[MaxFailures] >= RetryMax

VARIABLES
    pc,             \* where the worker is
    mode,           \* the identity usb_accessory_set_mode is to give the gadget
    caller,         \* who called usb_accessory_create_locked
    failed,         \* the local variable of the worker's loop
    retry_delay,    \* the delay before the next try
    handle,         \* usb_accessory_gadget # NULL
    gadget,         \* the gadget in configfs
    listed,         \* usbg_init found a USB device controller
    udc,            \* there is a USB device controller
    started,        \* ACCESSORY_IS_START_REQUESTED
    connected,      \* video_receiver_is_connected()
    failures,       \* history: failed passes since the last completed session
    crashes         \* history

loopVars == <<failed, retry_delay, failures>>
gadgetVars == <<handle, gadget, listed>>
outsideVars == <<udc, started, connected, crashes>>
vars == <<pc, mode, caller, loopVars, gadgetVars, outsideVars>>

Modes == {"initial", "accessory"}

(* No gadget, one without its function, one that is not bound, or one that *)
(* the head unit sees under one of the identities.                         *)
Gadgets == {"absent", "partial", "detached"} \cup Modes

Presented == gadget \in Modes

Init ==
    /\ pc = "boot" /\ mode = "initial" /\ caller = "boot"
    /\ failed = FALSE /\ retry_delay = RetryMin /\ failures = 0
    /\ handle = FALSE /\ gadget \in Gadgets /\ listed = FALSE
    /\ udc \in BOOLEAN /\ started = FALSE /\ connected = FALSE /\ crashes = 0

-----------------------------------------------------------------------------
(* The gadget: usb_accessory_create_locked *)

Detached == IF Presented THEN "detached" ELSE gadget

(* usb_accessory_set_mode returns an error.  Its caller is the loop, or    *)
(* run_session, which returns it to the loop.                              *)
SetModeFails == pc' = "end" /\ failed' = TRUE

(* The first creation is tried again later, set_mode fails with it.  After *)
(* a second look for a controller there has to be one.                     *)
Created(ok) ==
    IF caller = "boot" THEN pc' = "await" /\ UNCHANGED failed
    ELSE IF ok /\ caller = "set_mode" THEN pc' = "bind" /\ UNCHANGED failed
    ELSE IF ok /\ listed THEN pc' = "enable" /\ UNCHANGED failed
    ELSE SetModeFails

Boot ==
    /\ pc = "boot"
    /\ pc' = "create" /\ caller' = "boot"
    /\ UNCHANGED <<mode, loopVars, gadgetVars, outsideVars>>

RemoveStale ==
    /\ pc = "create"
    /\ listed' = udc
    /\ gadget' = "absent"
    /\ pc' = "build"
    /\ UNCHANGED <<mode, caller, loopVars, handle, outsideVars>>

(* usbg_init fails, or a stale gadget is detached and can not be removed. *)
RemoveStaleFails ==
    /\ pc = "create"
    /\ gadget' = Detached
    /\ listed' = FALSE
    /\ Created(FALSE)
    /\ UNCHANGED <<mode, caller, retry_delay, failures, handle, outsideVars>>

CreateGadget ==
    /\ pc = "build"
    /\ gadget' = "partial"
    /\ pc' = "complete"
    /\ UNCHANGED <<mode, caller, loopVars, handle, listed, outsideVars>>

AddFunction ==
    /\ pc = "complete"
    /\ gadget' = "detached" /\ handle' = TRUE
    /\ Created(TRUE)
    /\ UNCHANGED <<mode, caller, retry_delay, failures, listed, outsideVars>>

(* What was created so far stays in configfs. *)
CreateFails ==
    /\ pc \in {"build", "complete"}
    /\ listed' = FALSE
    /\ Created(FALSE)
    /\ UNCHANGED <<mode, caller, retry_delay, failures, handle, gadget, outsideVars>>

(* usb_accessory_set_mode *)

SetMode ==
    /\ pc = "set_mode"
    /\ pc' = IF handle THEN "bind" ELSE "create"
    /\ caller' = "set_mode"
    /\ UNCHANGED <<mode, loopVars, gadgetVars, outsideVars>>

(* Mutant: a controller that was not there at first is never looked for. *)
BindListedOnly ==
    /\ pc = "bind"
    /\ gadget' = Detached
    /\ IF listed THEN pc' = "enable" /\ UNCHANGED failed ELSE SetModeFails
    /\ UNCHANGED <<mode, caller, retry_delay, failures, handle, listed, outsideVars>>

(* Mutant: the handle is kept although the gadget is created anew. *)
BindKeepsHandle ==
    /\ pc = "bind"
    /\ gadget' = Detached
    /\ IF listed THEN pc' = "enable" /\ UNCHANGED caller
       ELSE pc' = "create" /\ caller' = "rescan"
    /\ UNCHANGED <<mode, loopVars, handle, listed, outsideVars>>

Bind ==
    /\ pc = "bind"
    /\ gadget' = Detached
    /\ IF listed THEN pc' = "enable" /\ UNCHANGED <<caller, handle>>
       ELSE pc' = "create" /\ caller' = "rescan" /\ handle' = FALSE
    /\ UNCHANGED <<mode, loopVars, listed, outsideVars>>

(* f_accessory forgets the last START when it is bound. *)
Enable ==
    /\ pc = "enable"
    /\ gadget' = mode /\ started' = FALSE
    /\ pc' = IF mode = "initial" THEN "open" ELSE "open_session"
    /\ UNCHANGED <<mode, caller, loopVars, handle, listed, udc, connected, crashes>>

EnableFails ==
    /\ pc = "enable"
    /\ SetModeFails
    /\ UNCHANGED <<mode, caller, retry_delay, failures, gadgetVars, outsideVars>>

-----------------------------------------------------------------------------
(* usb_accessory_worker_start *)

AwaitConnection ==
    /\ pc = "await" /\ connected
    /\ pc' = "set_mode" /\ mode' = "initial" /\ failed' = FALSE
    /\ UNCHANGED <<caller, retry_delay, failures, gadgetVars, outsideVars>>

OpenDevice ==
    /\ pc = "open"
    /\ \/ pc' = "wait" /\ UNCHANGED failed
       \/ pc' = "end" /\ failed' = TRUE
    /\ UNCHANGED <<mode, caller, retry_delay, failures, gadgetVars, outsideVars>>

(* Mutant: the sources are not looked at again while waiting. *)
WaitForStartOnly ==
    /\ pc = "wait" /\ started
    /\ pc' = "set_mode" /\ mode' = "accessory"
    /\ UNCHANGED <<caller, loopVars, gadgetVars, outsideVars>>

(* wait_for_start returns, run_session is called if the head unit started  *)
WaitForStart ==
    /\ pc = "wait"
    /\ \/ ~connected /\ pc' = "end" /\ UNCHANGED mode
       \/ connected /\ started /\ pc' = "set_mode" /\ mode' = "accessory"
    /\ UNCHANGED <<caller, loopVars, gadgetVars, outsideVars>>

WaitFails ==
    /\ pc = "wait" /\ connected
    /\ pc' = "end" /\ failed' = TRUE
    /\ UNCHANGED <<mode, caller, retry_delay, failures, gadgetVars, outsideVars>>

(* run_session opens the device and creates the watchdog, or gives up. *)
OpenSession ==
    /\ pc = "open_session"
    /\ \/ pc' = "session" /\ UNCHANGED <<failed, gadget>>
       \/ pc' = "end" /\ failed' = TRUE /\ gadget' = Detached
    /\ UNCHANGED <<mode, caller, retry_delay, failures, handle, listed, outsideVars>>

(* Mutant: the delay is not reset. *)
SessionEndsSlowly ==
    /\ pc = "session"
    /\ gadget' = Detached /\ failures' = 0
    /\ pc' = "end"
    /\ UNCHANGED <<mode, caller, failed, retry_delay, handle, listed, outsideVars>>

(* A session that ended, in whichever way, is not a failure. *)
SessionEnds ==
    /\ pc = "session"
    /\ gadget' = Detached
    /\ retry_delay' = RetryMin /\ failures' = 0
    /\ pc' = "end"
    /\ UNCHANGED <<mode, caller, failed, handle, listed, outsideVars>>

(* Mutant: the gadget is left as it is. *)
EndPassPresented ==
    /\ pc = "end"
    /\ pc' = IF failed THEN "backoff" ELSE "await"
    /\ UNCHANGED <<mode, caller, loopVars, gadgetVars, outsideVars>>

EndPass ==
    /\ pc = "end"
    /\ gadget' = IF handle THEN Detached ELSE gadget
    /\ pc' = IF failed THEN "backoff" ELSE "await"
    /\ UNCHANGED <<mode, caller, loopVars, handle, listed, outsideVars>>

(* Mutant: the limit is not applied. *)
BackoffUnlimited ==
    /\ pc = "backoff"
    /\ retry_delay' = 2 * retry_delay
    /\ failures' = IF failures < MaxFailures THEN failures + 1 ELSE failures
    /\ pc' = "await"
    /\ UNCHANGED <<mode, caller, failed, gadgetVars, outsideVars>>

Backoff ==
    /\ pc = "backoff"
    /\ retry_delay' = IF 2 * retry_delay > RetryMax THEN RetryMax ELSE 2 * retry_delay
    /\ failures' = IF failures < MaxFailures THEN failures + 1 ELSE failures
    /\ pc' = "await"
    /\ UNCHANGED <<mode, caller, failed, gadgetVars, outsideVars>>

-----------------------------------------------------------------------------
(* The head unit, the sources, the kernel, and the end of the program *)

HeadUnitStarts ==
    /\ gadget = "initial" /\ ~started
    /\ started' = TRUE
    /\ UNCHANGED <<pc, mode, caller, loopVars, gadgetVars, udc, connected, crashes>>

SourcesChange ==
    /\ pc # "boot"
    /\ connected' = ~connected
    /\ UNCHANGED <<pc, mode, caller, loopVars, gadgetVars, udc, started, crashes>>

ControllerAppears ==
    /\ ~udc
    /\ udc' = TRUE
    /\ UNCHANGED <<pc, mode, caller, loopVars, gadgetVars, started, connected, crashes>>

(* The program dies anywhere and is started again.  Its sockets are gone,  *)
(* the gadget is not.                                                      *)
Crash ==
    /\ crashes < MaxCrashes
    /\ crashes' = crashes + 1
    /\ pc' = "boot" /\ mode' = "initial" /\ caller' = "boot"
    /\ failed' = FALSE /\ retry_delay' = RetryMin /\ failures' = 0
    /\ handle' = FALSE /\ listed' = FALSE /\ connected' = FALSE
    /\ UNCHANGED <<gadget, udc, started>>

Environment == HeadUnitStarts \/ SourcesChange \/ ControllerAppears \/ Crash

Failure == RemoveStaleFails \/ CreateFails \/ EnableFails

Worker ==
    \/ Boot \/ RemoveStale \/ CreateGadget \/ AddFunction
    \/ SetMode \/ Bind \/ Enable
    \/ AwaitConnection \/ OpenDevice \/ WaitForStart \/ OpenSession
    \/ EndPass \/ Backoff

Next == Worker \/ Failure \/ WaitFails \/ SessionEnds \/ Environment

(* The worker's calls return, but a session may go on as long as it likes, *)
(* and the head unit need not start.                                       *)
(* What the kernel refuses now it grants when asked often enough.          *)
Fairness ==
    /\ WF_vars(Worker \/ Failure)
    /\ SF_vars(RemoveStale) /\ SF_vars(CreateGadget) /\ SF_vars(AddFunction) /\ SF_vars(Enable)

Spec == Init /\ [][Next]_vars /\ Fairness

-----------------------------------------------------------------------------
(* Properties *)

Places ==
    {"boot", "create", "build", "complete", "set_mode", "bind", "enable", "await", "open",
     "wait", "open_session", "session", "end", "backoff"}

FlagsTyped ==
    /\ failed \in BOOLEAN /\ handle \in BOOLEAN /\ listed \in BOOLEAN
    /\ udc \in BOOLEAN /\ started \in BOOLEAN /\ connected \in BOOLEAN

TypeOK ==
    /\ FlagsTyped
    /\ pc \in Places
    /\ mode \in Modes
    /\ caller \in {"boot", "set_mode", "rescan"}
    /\ retry_delay \in RetryMin..RetryMax
    /\ gadget \in Gadgets
    /\ failures \in 0..MaxFailures /\ crashes \in 0..MaxCrashes

(* "Always start from a clean one" (usb_accessory.c, lines 123-124): the   *)
(* handle never stands for a gadget that is half configured or gone,       *)
(* however the run before ended and whatever failed since.                 *)
HandleIsWhole == handle => gadget \notin {"absent", "partial"}

(* Comment of line 31: nothing is presented while the worker waits for a   *)
(* source, or for the next try, not even what a crash left behind.         *)
NotPresentedWithoutSource == pc \in {"await", "backoff"} => ~Presented

(* Lines 194-219: the delay doubles with each failure up to its limit and  *)
(* is back at its minimum after a session, however long failures, waits    *)
(* that came to nothing, and sessions alternate.                           *)
BackoffFollowsFailures ==
    retry_delay = IF Doubled[failures] > RetryMax THEN RetryMax ELSE Doubled[failures]

(* When the last source goes the gadget goes, unless a session is running, *)
(* which ends by its watchdog.                                             *)
SourceGoneDetaches ==
    Presented /\ ~connected ~> connected \/ ~Presented \/ pc = "session"

(* Lines 212 and 221-222: a controller or a module that appears late, and  *)
(* a gadget left by another run, do not keep it from being presented.      *)
PresentedInTheEnd == <>[](connected /\ udc) => []<>Presented

(* What AccessoryWorkerProofs shows to be inductive: where the program is  *)
(* sure of its handle, and what it may find without one.                   *)
HandleKnown ==
    /\ pc \in {"bind", "enable", "open", "wait", "open_session", "session"} => handle
    /\ pc \in {"boot", "create", "build", "complete"} => ~handle

StaleRemoved ==
    /\ pc = "build" => gadget = "absent"
    /\ pc = "complete" => gadget = "partial"
    /\ pc \in {"set_mode", "end"} /\ ~handle => ~Presented

IInv == TypeOK /\ HandleIsWhole /\ NotPresentedWithoutSource /\ HandleKnown /\ StaleRemoved
=============================================================================
