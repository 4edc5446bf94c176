---------------------------- MODULE HeadUnitSession ----------------------------
(***************************************************************************)
(* The session thread between two threads that know nothing of it: what    *)
(* the messages of the head unit do to the video receiver and to the       *)
(* clients, one critical section at a time, while sources and clients come *)
(* and go.  The handlers are those of ProtocolV1 and ProtocolV2, the       *)
(* receiver is ScreenOwner.  AccessorySession has the descriptor and the   *)
(* watchdog of a session, MessagingService the delivery to the clients.    *)
(*                                                                         *)
(* The head unit is external: a glass with fingers on it, and messages in  *)
(* any order.  It speaks one protocol as long as the program runs.         *)
(***************************************************************************)
EXTENDS HandlerCalls, Naturals, FiniteSets

CONSTANTS
    Fds,                \* descriptors of the video sockets
    Pids, NoPid,
    GestureFingers,     \* MESSAGE_PROCESSOR_V2_SWITCH_GESTURE_FINGERS
    Fingers,            \* fingers the glass can tell apart, 0 among them
    MaxProtocolErrors,  \* USB_ACTIVE_ACCESSORY_MAX_PROTOCOL_ERRORS
    ProbeExtraReads     \* USB_ACTIVE_ACCESSORY_PROBE_EXTRA_READS

(* One finger is a touch, not a gesture. *)
ASSUME FingersAssumption ==
    0 \in Fingers /\ IsFiniteSet(Fingers) /\ GestureFingers \in Nat \ {0, 1}
ASSUME LimitsAssumption == MaxProtocolErrors \in Nat \ {0} /\ ProbeExtraReads \in Nat

VARIABLES
    streams, owner,     \* ScreenOwner
    sink_active,        \* of the video receiver
    clients,            \* processes with a control connection
    protocol,           \* of the head unit
    phase,              \* no session, probe_protocol, or the loop of run
    attempts,           \* of probe_protocol
    protocol_errors,
    gesture_fired,      \* message_processor_v2_gesture_fired
    todo,               \* the calls each thread has still to make
    glass,              \* the fingers on the head unit's screen
    touched,            \* clients whose last event was not UP
    playing,            \* history: what the head unit asked for last
    due,                \* history: the owner needs a key frame and was not asked
    swiped,             \* history: a gesture since the glass was last empty
    missed,             \* history: the handler has not seen all the glass did
    disturbed           \* history: a release may have been lost, or sent elsewhere

Screen == INSTANCE ScreenOwner
V1 == INSTANCE ProtocolV1
V2 == INSTANCE ProtocolV2

screenVars == <<streams, owner>>
sessionVars == <<phase, attempts, protocol_errors>>
gestureVars == <<gesture_fired, glass, swiped, missed>>
vars == <<screenVars, sink_active, clients, protocol, sessionVars, gestureVars,
          todo, touched, playing, due, disturbed>>

Threads == {"session", "other"}

Idle(t) == todo[t] = <<>>

Init ==
    /\ Screen!Init
    /\ sink_active = FALSE /\ playing = FALSE
    /\ clients = {}
    /\ protocol \in {"V1", "V2"}
    /\ phase = "off" /\ attempts = 0 /\ protocol_errors = 0
    /\ gesture_fired = FALSE
    /\ todo = [t \in Threads |-> <<>>]
    /\ glass = {} /\ swiped = FALSE /\ missed = FALSE
    /\ touched = {} /\ disturbed = FALSE
    /\ due = FALSE

-----------------------------------------------------------------------------
(* Who is told *)

(* MESSAGING_SERVICE_ROUTE_ACTIVE_OR_ALL *)
ActiveOrAll(pid) == IF pid # NoPid /\ pid \in clients THEN {pid} ELSE clients

(* video_receiver_notify_active_change: a new owner is asked for a key     *)
(* frame.  (The broadcast before it is in MessagingService.)               *)
Report(new) == IF new # owner /\ new # NoPid THEN <<KeyFrameReq>> ELSE <<>>

(* History: a change of the owner makes a key frame due from its client. *)
NoteSwitch == due' = IF owner' = owner THEN due ELSE owner' \in clients'

(* History: while a touch is down, or on its way, something happened that  *)
(* may send its release elsewhere.                                         *)
Note(disturbance) ==
    disturbed' = ((disturbed \/ disturbance) /\ (touched' # {} \/ todo'["session"] # <<>>))

-----------------------------------------------------------------------------
(* The result of probe or run.  A session that ends deactivates the sink.  *)

(* Mutant: the end of the session leaves the sink as it is. *)
TeardownForgets == <<>>

Teardown == <<Deactivate>>

EndSession ==
    /\ phase' = "off"
    /\ todo' = [todo EXCEPT !["session"] = Teardown]
    /\ playing' = FALSE
    /\ UNCHANGED <<attempts, protocol_errors>>

NextMessage ==
    /\ todo' = [todo EXCEPT !["session"] = <<>>]
    /\ UNCHANGED playing

(* Mutant: one message too many is looked at. *)
AttemptFailedLate ==
    IF attempts > ProbeExtraReads THEN EndSession
    ELSE attempts' = attempts + 1 /\ NextMessage /\ UNCHANGED <<phase, protocol_errors>>

AttemptFailed ==
    IF attempts = ProbeExtraReads THEN EndSession
    ELSE attempts' = attempts + 1 /\ NextMessage /\ UNCHANGED <<phase, protocol_errors>>

MessageFailed ==
    IF protocol_errors + 1 = MaxProtocolErrors THEN EndSession
    ELSE /\ protocol_errors' = protocol_errors + 1
         /\ NextMessage
         /\ UNCHANGED <<phase, attempts>>

Returned(ok) ==
    \/ phase = "probe" /\ ok /\ phase' = "run" /\ NextMessage /\ UNCHANGED <<attempts, protocol_errors>>
    \/ phase = "probe" /\ ~ok /\ AttemptFailed
    \/ phase = "run" /\ ok /\ protocol_errors' = 0 /\ NextMessage /\ UNCHANGED <<phase, attempts>>
    \/ phase = "run" /\ ~ok /\ MessageFailed
    \/ phase = "off" /\ NextMessage /\ UNCHANGED sessionVars

(* Thread t goes on with these calls; a handler without any returns TRUE. *)
Continue(t, calls) ==
    IF t = "session" /\ calls = <<>> THEN Returned(TRUE)
    ELSE todo' = [todo EXCEPT ![t] = calls] /\ UNCHANGED <<sessionVars, playing>>

-----------------------------------------------------------------------------
(* Messages of the head unit *)

(* The gadget is opened; AccessorySession has the ways this fails. *)
OpenSession ==
    /\ phase = "off" /\ Idle("session")
    /\ phase' = "probe" /\ attempts' = 0 /\ protocol_errors' = 0
    /\ UNCHANGED <<screenVars, sink_active, clients, protocol, gestureVars, todo, touched,
                   playing, due, disturbed>>

FirstMessages ==
    IF protocol = "V1" THEN [type : {"version", "other"}] ELSE V2!Messages

ProbeMessage(message) ==
    /\ phase = "probe" /\ Idle("session")
    /\ Continue("session", IF protocol = "V1" THEN V1!Probe(message) ELSE V2!Probe(message))
    /\ UNCHANGED <<screenVars, sink_active, clients, protocol, gestureVars, touched, due>>
    /\ Note(FALSE)

(* History: what the head unit wants. *)
Wish(message) ==
    IF protocol = "V1"
    THEN IF message.type = "cmd" /\ message.cmd = "PLAY_STATUS" THEN TRUE ELSE playing
    ELSE IF message.format # "JSON" THEN playing
    ELSE IF message.json.cmd = "DISCONNECT_REQ" THEN FALSE
    ELSE IF message.json.cmd = "VIDEO_CTRL" /\ message.json.parameters # "broken"
         THEN message.json.parameters = "play"
    ELSE playing

RunMessages == IF protocol = "V1" THEN V1!Messages ELSE V2!Messages

Message(message) ==
    /\ phase = "run" /\ Idle("session")
    /\ LET calls == IF protocol = "V1" THEN V1!Run(message) ELSE V2!Run(message)
       IN  IF calls = <<>> THEN Continue("session", <<>>)
           ELSE /\ todo' = [todo EXCEPT !["session"] = calls]
                /\ playing' = Wish(message)
                /\ UNCHANGED sessionVars
    /\ UNCHANGED <<screenVars, sink_active, clients, protocol, gestureVars, touched, due>>
    /\ Note(FALSE)

-----------------------------------------------------------------------------
(* The glass *)

(* History: how the glass changes, and whether the handler is told. *)
GlassBecomes(now, seen) ==
    /\ glass' = now
    /\ swiped' = (now # {} /\ (swiped \/ Cardinality(now) >= GestureFingers))
    /\ missed' = IF seen THEN missed /\ now # {} ELSE TRUE

ActionsOf(now) ==
    [f \in glass \cup now |->
       IF f \notin now THEN "UP" ELSE IF f \notin glass THEN "DOWN" ELSE "MOVE"]

(* A V2 head unit tells what all the fingers do, those that were lifted    *)
(* included.  A release that is out of range is not passed on.             *)
TouchV2(now, first, usable) ==
    /\ protocol = "V2" /\ phase = "run" /\ Idle("session")
    /\ LET touches == [action |-> ActionsOf(now), first |-> first, usable |-> usable]
           result == V2!HandleTouch(gesture_fired, touches)
       IN  /\ gesture_fired' = result.fired
           /\ Continue("session", result.calls)
           /\ GlassBecomes(now, TRUE)
           /\ UNCHANGED <<screenVars, sink_active, clients, protocol, touched, due>>
           /\ Note(~usable /\ touches.action[V2!PrimaryFinger(touches)] = "UP")

(* A V1 head unit tells one finger. *)
TouchV1(event) ==
    /\ protocol = "V1" /\ phase = "run" /\ Idle("session")
    /\ Continue("session", V1!Run([type |-> "control", event |-> event]))
    /\ GlassBecomes(IF event = "UP" THEN {} ELSE {0}, TRUE)
    /\ UNCHANGED <<screenVars, sink_active, clients, protocol, gesture_fired, touched, due>>
    /\ Note(FALSE)

(* Fingers move while there is no session to tell, or the event can not be *)
(* parsed.                                                                 *)
GlassUnseen(now) ==
    /\ now # glass
    /\ phase # "run" \/ protocol = "V2"
    /\ protocol = "V1" => now \subseteq {0}
    /\ GlassBecomes(now, FALSE)
    /\ UNCHANGED <<screenVars, sink_active, clients, protocol, sessionVars, gesture_fired,
                   todo, touched, playing, due>>
    /\ Note(TRUE)

-----------------------------------------------------------------------------
(* The calls of a handler, each one critical section *)

Calling(t, call) == todo[t] # <<>> /\ Head(todo[t]).call = call
Rest(t) == Tail(todo[t])

SetSink(t) ==
    /\ \E call \in {"activate", "deactivate"} :
         Calling(t, call) /\ sink_active' = (call = "activate")
    /\ due' = (due \/ (sink_active' /\ owner \in clients))
    /\ Continue(t, Rest(t))
    /\ UNCHANGED <<screenVars, clients, protocol, gestureVars, touched>>
    /\ Note(FALSE)

(* messaging_service_set_screen_size, in MessagingService, and the I/O     *)
(* that succeeds                                                           *)
CallReturns(t) ==
    /\ \E call \in {"set_screen_size", "read", "write"} : Calling(t, call)
    /\ Continue(t, Rest(t))
    /\ UNCHANGED <<screenVars, sink_active, clients, protocol, gestureVars, touched, due>>
    /\ Note(FALSE)

(* The handler returns FALSE. *)
Rejects ==
    /\ Calling("session", "reject")
    /\ Returned(FALSE)
    /\ UNCHANGED <<screenVars, sink_active, clients, protocol, gestureVars, touched, due>>
    /\ Note(FALSE)

(* A read or write fails: the handler returns FALSE, and the session ends  *)
(* if that is because of the link or a stop.                               *)
IoFails ==
    /\ \E call \in {"read", "write"} : Calling("session", call)
    /\ Returned(FALSE) \/ EndSession
    /\ UNCHANGED <<screenVars, sink_active, clients, protocol, gestureVars, touched, due>>
    /\ Note(FALSE)

(* The first read of a message fails. *)
LinkLost ==
    /\ phase # "off" /\ Idle("session")
    /\ EndSession
    /\ UNCHANGED <<screenVars, sink_active, clients, protocol, gestureVars, touched, due>>
    /\ Note(FALSE)

(* The pid on screen is read before the message is routed. *)
ReadActivePid(t) ==
    /\ \/ Calling(t, "key_frame_req") /\ Continue(t, <<SendKeyFrameReq(owner)>> \o Rest(t))
       \/ /\ Calling(t, "input")
          /\ Continue(t, <<SendInputEvent(Head(todo[t]).action, owner)>> \o Rest(t))
       \/ Calling(t, "switch") /\ Continue(t, IF owner = NoPid THEN Rest(t)
                                              ELSE <<Yield(owner)>> \o Rest(t))
    /\ UNCHANGED <<screenVars, sink_active, clients, protocol, gestureVars, touched, due>>
    /\ Note(FALSE)

SendsKeyFrameReq(t) ==
    /\ Calling(t, "send_key_frame_req")
    /\ due' = (due /\ owner \notin ActiveOrAll(Head(todo[t]).pid))
    /\ Continue(t, Rest(t))
    /\ UNCHANGED <<screenVars, sink_active, clients, protocol, gestureVars, touched>>
    /\ Note(FALSE)

SendsInputEvent(t) ==
    /\ Calling(t, "send_input")
    /\ LET to == ActiveOrAll(Head(todo[t]).pid)
       IN  touched' = IF Head(todo[t]).action = "UP" THEN touched \ to ELSE touched \cup to
    /\ Continue(t, Rest(t))
    /\ UNCHANGED <<screenVars, sink_active, clients, protocol, gestureVars, due>>
    /\ Note(FALSE)

(* The gesture's own switch is none of the touch's disturbances. *)
YieldsScreen(t) ==
    /\ Calling(t, "yield")
    /\ Screen!Yield(Head(todo[t]).pid)
    /\ Continue(t, Report(owner') \o Rest(t))
    /\ UNCHANGED clients
    /\ NoteSwitch
    /\ UNCHANGED <<sink_active, protocol, gestureVars, touched>>
    /\ Note(FALSE)

CallStep(t) ==
    SetSink(t) \/ CallReturns(t) \/ ReadActivePid(t) \/ SendsKeyFrameReq(t)
    \/ SendsInputEvent(t) \/ YieldsScreen(t)

-----------------------------------------------------------------------------
(* The receiver and messaging threads *)

(* A source connects, goes, or asks for the screen or leaves it. *)
OwnerChanges ==
    /\ Idle("other")
    /\ \/ \E s \in Screen!Stream : Screen!Connect(s) \/ Screen!Disconnect(s)
       \/ \E p \in Pids : Screen!RequestActive(p) \/ Screen!Yield(p)
    /\ todo' = [todo EXCEPT !["other"] = Report(owner')]
    /\ UNCHANGED clients
    /\ NoteSwitch
    /\ UNCHANGED touched
    /\ UNCHANGED <<sink_active, protocol, sessionVars, gestureVars, playing>>
    /\ Note(owner' # owner)

(* A client that connects late is not asked for a key frame. *)
ClientConnects(p) ==
    /\ p \notin clients
    /\ clients' = clients \cup {p}
    /\ UNCHANGED <<touched, todo>>
    /\ UNCHANGED <<screenVars, sink_active, protocol, sessionVars, gestureVars, playing, due>>
    /\ Note(TRUE)

ClientGoes(p) ==
    /\ p \in clients
    /\ clients' = clients \ {p}
    /\ touched' = touched \ {p}
    /\ due' = (due /\ p # owner)
    /\ UNCHANGED todo
    /\ UNCHANGED <<screenVars, sink_active, protocol, sessionVars, gestureVars, playing>>
    /\ Note(TRUE)

HeadUnit ==
    \/ OpenSession
    \/ \E m \in FirstMessages : ProbeMessage(m)
    \/ \E m \in RunMessages : Message(m)
    \/ \E now \in SUBSET Fingers :
         \/ GlassUnseen(now)
         \/ \E first \in glass \cup now, usable \in BOOLEAN : TouchV2(now, first, usable)
    \/ \E event \in Actions : TouchV1(event)
    \/ LinkLost

Next ==
    \/ HeadUnit
    \/ Rejects \/ IoFails
    \/ \E t \in Threads : CallStep(t)
    \/ OwnerChanges
    \/ \E p \in Pids : ClientConnects(p) \/ ClientGoes(p)

Spec == Init /\ [][Next]_vars

-----------------------------------------------------------------------------
(* Properties *)

ReplyNames ==
    {"heart_beat", "land_mode", "mirror_support", "phoneready", "phoneinitok", "NEEDUPGRADE",
     "BT_AUTO_CONNECTED", "version", "upgrade", "speech",
     "PHONE_INFO", "UPDATE_STATUS", "VIDEO_SUP_RSP_0", "VIDEO_SUP_RSP_1"}

Calls ==
    [call : {"read", "activate", "deactivate", "switch", "set_screen_size", "key_frame_req",
             "reject"}]
    \cup [call : {"write"}, what : ReplyNames]
    \cup [call : {"yield", "send_key_frame_req"}, pid : Pids \cup {NoPid}]
    \cup [call : {"input"}, action : Actions]
    \cup [call : {"send_input"}, action : Actions, pid : Pids \cup {NoPid}]

HistoryTyped ==
    /\ playing \in BOOLEAN /\ due \in BOOLEAN /\ swiped \in BOOLEAN
    /\ missed \in BOOLEAN /\ disturbed \in BOOLEAN

TypeOK ==
    /\ streams \subseteq Screen!Stream /\ owner \in Pids \cup {NoPid}
    /\ sink_active \in BOOLEAN /\ clients \subseteq Pids
    /\ protocol \in {"V1", "V2"} /\ phase \in {"off", "probe", "run"}
    /\ attempts \in 0..ProbeExtraReads /\ protocol_errors \in 0..(MaxProtocolErrors - 1)
    /\ gesture_fired \in BOOLEAN
    /\ DOMAIN todo = Threads /\ \A t \in Threads : todo[t] \in Seq(Calls)
    /\ glass \subseteq Fingers /\ touched \subseteq clients
    /\ HistoryTyped

(* Between two messages the sink is as the head unit asked last: no        *)
(* session leaves it open for the next one, which has to ask again, and    *)
(* no message that can not be read changes it.                             *)
SinkFollowsHeadUnit == Idle("session") => sink_active = playing

(* "The decoder on the head unit is restarted, it needs an IDR frame"      *)
(* (V2, line 364), and so does every new owner: as long as the process on  *)
(* screen has not been asked since, by the client it had then, some thread *)
(* is on its way to ask it, whatever else the threads are doing.           *)
WillAsk(t) ==
    \E i \in DOMAIN todo[t] : todo[t][i] \in {KeyFrameReq, SendKeyFrameReq(owner)}

KeyFrameAfterPlay == due => \E t \in Threads : WillAsk(t)

(* "Release the touch in the current source before switching away" (V2,    *)
(* line 430): once the glass is empty, or the gesture fired, no client is  *)
(* left with a touch, unless its release was not seen or was out of range, *)
(* or another thread changed who gets it.                                  *)
TouchReleased ==
    (gesture_fired \/ glass = {}) /\ Idle("session") /\ ~disturbed => touched = {}

(* "Ignore the rest of the gesture until every finger is released" (V2,    *)
(* line 444): three fingers switch, and switch once, until the glass is    *)
(* empty, also over the end of a session, as long as every event is seen.  *)
SwitchBegins ==
    Idle("session") /\ \E i \in DOMAIN todo'["session"] : todo'["session"][i] = SwitchToPrevious

GestureSwitchesOnce ==
    [][ /\ SwitchBegins /\ ~missed => ~swiped
        /\ swiped' /\ ~swiped /\ ~missed' => SwitchBegins ]_vars

-----------------------------------------------------------------------------
(* What HeadUnitSessionProofs shows to be inductive.  A thread is always   *)
(* in the middle of one of a few plans, so that what a failure drops, and  *)
(* what comes after a call, is known.                                      *)

IoPlan(s) ==
    \A i \in DOMAIN s : s[i].call \in {"read", "write", "set_screen_size", "reject"}

KeyFramePlan(s) ==
    s = <<KeyFrameReq>> \/ \E p \in Pids \cup {NoPid} : s = <<SendKeyFrameReq(p)>>

TouchPlan(s) ==
    \E a \in Actions :
      s = <<InputEvent(a)>> \/ \E p \in Pids \cup {NoPid} : s = <<SendInputEvent(a, p)>>

GesturePlan(s) ==
    \/ s = <<InputEvent("UP"), SwitchToPrevious>>
    \/ \E p \in Pids \cup {NoPid} : s = <<SendInputEvent("UP", p), SwitchToPrevious>>
    \/ s = <<SwitchToPrevious>>
    \/ \E p \in Pids \cup {NoPid} : s = <<Yield(p)>>

PlayPlan(s) == s = <<Activate, KeyFrameReq>>
StopPlan(s) == s = <<Deactivate>>

KnownPlan(s) ==
    IoPlan(s) \/ KeyFramePlan(s) \/ TouchPlan(s) \/ GesturePlan(s) \/ PlayPlan(s) \/ StopPlan(s)

PlansKnown ==
    /\ KnownPlan(todo["session"])
    /\ Idle("other") \/ KeyFramePlan(todo["other"])

(* The sink is as wished, or the plan makes it so. *)
SinkWillFollow ==
    IF PlayPlan(todo["session"]) THEN playing
    ELSE IF StopPlan(todo["session"]) THEN ~playing
    ELSE sink_active = playing

(* Who is asked for a key frame is there to answer. *)
DueFromClient == due => owner \in clients

(* A process of pid 0 (NoPid) that gets the screen is not asked. *)
AskWillFollow == NoPid \notin Pids => KeyFrameAfterPlay

Sends(s, a) == s # <<>> /\ Head(s).call \in {"input", "send_input"} /\ Head(s).action = a

(* As long as nothing disturbs it, a touch is where its release will go,   *)
(* and the release is on its way once there is nothing left to touch with. *)
ReleaseWillFollow ==
    ~disturbed =>
      /\ touched \subseteq ActiveOrAll(owner)
      /\ \A a \in Actions, p \in Pids \cup {NoPid} :
           todo["session"] # <<>> /\ Head(todo["session"]) = SendInputEvent(a, p) => p = owner
      /\ gesture_fired \/ glass = {} =>
           \/ Sends(todo["session"], "UP")
           \/ touched = {} /\ \A a \in Actions : ~Sends(todo["session"], a)

(* The flag is up while a gesture goes on, and only with V2. *)
FlagFollowsGesture ==
    /\ GesturePlan(todo["session"]) => gesture_fired
    /\ protocol = "V1" => ~gesture_fired
    /\ ~missed => gesture_fired = swiped

(* The inductive invariant.  A handler has made its plan before its first  *)
(* call, and a failure of I/O drops the rest of it: what a session may owe *)
(* at any moment, to the sink, to the process on screen, and to the client *)
(* with a touch, is in a plan that no failure can drop.                    *)
HeadUnitInv ==
    /\ TypeOK /\ PlansKnown /\ SinkWillFollow /\ DueFromClient /\ AskWillFollow
    /\ ReleaseWillFollow /\ FlagFollowsGesture
=============================================================================
