------------------------------ MODULE ProtocolV2 ------------------------------
(***************************************************************************)
(* src/usb_accessory/message_processor/v2/message_processor_v2.c: what the *)
(* handlers of the current protocol do with a message of the head unit.    *)
(* A message is what the parsers and the handlers tell apart: where it is  *)
(* from, its format, its command, and whether its parameters can be read.  *)
(* malloc and the building of JSON replies do not fail.                    *)
(***************************************************************************)
EXTENDS HandlerCalls, Naturals, FiniteSets

CONSTANT GestureFingers     \* MESSAGE_PROCESSOR_V2_SWITCH_GESTURE_FINGERS

-----------------------------------------------------------------------------
(* JSON commands *)

(* Replies are built by the functions of src/messages/v2. *)
PhoneInfo == <<Write("PHONE_INFO")>>
UpdateStatus == <<Write("UPDATE_STATUS")>>
VideoSupportRsp(format) ==
    <<Write(IF format = "H264" THEN "VIDEO_SUP_RSP_1" ELSE "VIDEO_SUP_RSP_0")>>
WriteHb == <<Write("heart_beat")>>

(* Parameters that can not be read are "broken". *)
Formats == {"H264", "other", "broken"}
PlayStatuses == {"play", "stop", "broken"}

AnswerVideoSupportType(format) == IF format = "broken" THEN <<>> ELSE VideoSupportRsp(format)

(* Mutant: the key frame is asked for while nothing is forwarded yet. *)
HandleVideoCtrlAsksFirst ==
    [play |-> <<KeyFrameReq, Activate>>, stop |-> <<Deactivate>>, broken |-> <<>>]

HandleVideoCtrl ==
    [play |-> <<Activate, KeyFrameReq>>, stop |-> <<Deactivate>>, broken |-> <<>>]

(* JSON that can not be parsed, or without a command, is ignored. *)
HandleJson(message) ==
    CASE message.cmd = "VIDEO_SUP_REQ"  -> AnswerVideoSupportType(message.parameters)
      [] message.cmd = "KEY_FRAME_REQ"  -> <<KeyFrameReq>>
      [] message.cmd = "VIDEO_CTRL"     -> HandleVideoCtrl[message.parameters]
      [] message.cmd = "DISCONNECT_REQ" -> <<Deactivate>>
      [] message.cmd \in {"HEARTBEAT", "VIDEO_ARGS", "CAR_INFO", "other", "broken"} -> <<>>

JsonMessages ==
    [cmd : {"VIDEO_SUP_REQ"}, parameters : Formats]
    \cup [cmd : {"VIDEO_CTRL"}, parameters : PlayStatuses]
    \cup [cmd : {"CAR_INFO"}, parameters : {"size", "broken"}]
    \cup [cmd : {"HEARTBEAT", "KEY_FRAME_REQ", "VIDEO_ARGS", "DISCONNECT_REQ",
                 "other", "broken"},
          parameters : {"none"}]

-----------------------------------------------------------------------------
(* Touches.  An event has the action of each finger that is on the glass   *)
(* or just left it, and the finger that is listed first.  Its primary      *)
(* finger is usable if its action is one of the three and its position is  *)
(* one an int16_t can hold.                                                *)

PressedFingers(touches) ==
    {f \in DOMAIN touches.action : touches.action[f] # "UP"}

(* Mutant: the touch is released after the switch. *)
SwitchGestureReleasesLate == <<SwitchToPrevious, InputEvent("UP")>>

(* The touch is released in the current source before switching away. *)
SwitchGesture == <<InputEvent("UP"), SwitchToPrevious>>

PrimaryFinger(touches) == IF 0 \in DOMAIN touches.action THEN 0 ELSE touches.first

(* Mutant: the gesture ends when there are too few fingers for one. *)
HandleTouchRearms(fired, touches) ==
    LET pressed == Cardinality(PressedFingers(touches))
    IN  IF pressed >= GestureFingers
        THEN [fired |-> TRUE, calls |-> IF fired THEN <<>> ELSE SwitchGesture]
        ELSE [fired |-> FALSE,
              calls |-> IF touches.usable /\ ~fired
                        THEN <<InputEvent(touches.action[PrimaryFinger(touches)])>>
                        ELSE <<>>]

(* What an event makes the handler do, and gesture_fired afterwards. *)
HandleTouch(fired, touches) ==
    LET pressed == Cardinality(PressedFingers(touches))
    IN  IF pressed >= GestureFingers
        THEN [fired |-> TRUE, calls |-> IF fired THEN <<>> ELSE SwitchGesture]
        ELSE IF fired
        THEN [fired |-> pressed # 0, calls |-> <<>>]
        ELSE [fired |-> FALSE,
              calls |-> IF touches.usable
                        THEN <<InputEvent(touches.action[PrimaryFinger(touches)])>>
                        ELSE <<>>]

-----------------------------------------------------------------------------
(* probe and run *)

(* The first message must be CAR_INFO with the size of the screen. *)
Probe(message) ==
    IF message.source # "CAR" \/ message.format # "JSON" THEN <<Reject>>
    ELSE IF message.json.cmd # "CAR_INFO" \/ message.json.parameters # "size" THEN <<Reject>>
    ELSE <<SetScreenSize>> \o PhoneInfo \o UpdateStatus

(* "broken" is a message message_processor_v2_read_message refuses: a bad *)
(* mark, a length that can not be, or a tail that does not come.           *)
Messages ==
    [source : {"CAR"}, format : {"JSON"}, json : JsonMessages]
    \cup [source : {"CAR"}, format : {"BIN"}]
    \cup [source : {"PHONE", "CAR"}, format : {"other"}]
    \cup [source : {"CAR"}, format : {"broken"}]

(* message_processor_v2_run.  BIN is what is not a touch that can be       *)
(* parsed.                                                                 *)
Run(message) ==
    IF message.format = "broken" THEN <<Reject>>
    ELSE IF message.source = "CAR" /\ message.format = "JSON" THEN HandleJson(message.json)
    ELSE <<>>
=============================================================================
