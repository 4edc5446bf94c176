------------------------------ MODULE ProtocolV1 ------------------------------
(***************************************************************************)
(* src/usb_accessory/message_processor/v1/message_processor_v1.c: what the *)
(* handlers of the legacy protocol do with a message of the head unit.     *)
(* A message is what the handlers tell apart; every reply is written as a  *)
(* message of whole chunks, and is a name here.  malloc does not fail.     *)
(***************************************************************************)
EXTENDS HandlerCalls

-----------------------------------------------------------------------------
(* Replies *)

WriteHb == <<Write("heart_beat")>>

(* message_processor_v1_send_app_msg, of an encoded hu_message *)
SendAppMsg(logic_id) == <<Write(logic_id)>>

ReplyPhoneReady == SendAppMsg("phoneready")
ReplyPhoneInitOk == SendAppMsg("phoneinitok")
ReplyNeedUpgrade == SendAppMsg("NEEDUPGRADE")
ReplyBtAutoConnected == SendAppMsg("BT_AUTO_CONNECTED")
ReplyMirrorSupport == <<Write("mirror_support")>>
ReplyLandMode == <<Write("land_mode")>>

(* The screen size is known to the clients before the answers go out. *)
ReplyStartSeq == <<SetScreenSize, Write("version"), Write("upgrade")>>

-----------------------------------------------------------------------------
(* Handlers *)

(* Mutant: the key frame is asked for while nothing is forwarded yet. *)
HandleCmdAsksFirst ==
    [LAND_MODE |-> ReplyLandMode,
     MIRROR_SUPPORT |-> ReplyPhoneReady \o ReplyMirrorSupport,
     PLAY_STATUS |-> <<KeyFrameReq, Activate>>,
     KEY_FRAME_REQ |-> <<KeyFrameReq>>,
     HEARTBEAT |-> WriteHb,
     other |-> <<>>]

HandleCmd ==
    [LAND_MODE |-> ReplyLandMode,
     MIRROR_SUPPORT |-> ReplyPhoneReady \o ReplyMirrorSupport,
     PLAY_STATUS |-> <<Activate, KeyFrameReq>>,
     KEY_FRAME_REQ |-> <<KeyFrameReq>>,
     HEARTBEAT |-> WriteHb,
     other |-> <<>>]

(* Declared sizes: at most a chunk, up to the limit, beyond it. *)
Sizes == {"chunk", "long", "huge"}

LogicIds == {"undecodable", "HUINFO", "BT_AUTO_CONNECTED", "other"}

(* A message without a tail is none; what can not be decoded is ignored.   *)
HandleAppMsg(size, logic_id) ==
    IF size # "long" THEN <<Reject>>
    ELSE <<ReadTail>> \o
         [HUINFO |-> ReplyPhoneInitOk \o ReplyNeedUpgrade,
          BT_AUTO_CONNECTED |-> ReplyBtAutoConnected,
          undecodable |-> <<>>,
          other |-> <<>>][logic_id]

HandleScreen(action) == IF action = 18 THEN <<>> ELSE <<Write("speech")>>

(* Any event that is neither down nor move releases the touch. *)
HandleControl(event) == <<InputEvent(IF event \in {"DOWN", "MOVE"} THEN event ELSE "UP")>>

HandleSpeech(size) ==
    [chunk |-> <<>>, long |-> <<ReadTail>>, huge |-> <<Reject>>][size]

-----------------------------------------------------------------------------
(* probe and run *)

(* The first message must be VERSION. *)
Probe(message) == IF message.type = "version" THEN ReplyStartSeq ELSE <<Reject>>

Messages ==
    [type : {"cmd"}, cmd : DOMAIN HandleCmd]
    \cup [type : {"hu"}, size : Sizes, logic_id : LogicIds]
    \cup [type : {"screen"}, action : {18, 1}]
    \cup [type : {"speech"}, size : Sizes]
    \cup [type : {"version", "bad_mark", "other"}]

(* message_processor_v1_run, once the first chunk is there.  Touches, of   *)
(* type "control", are made by the head unit's glass.                      *)
Run(message) ==
    CASE message.type = "cmd"      -> HandleCmd[message.cmd]
      [] message.type = "screen"   -> HandleScreen(message.action)
      [] message.type = "hu"       -> HandleAppMsg(message.size, message.logic_id)
      [] message.type = "control"  -> HandleControl(message.event)
      [] message.type = "speech"   -> HandleSpeech(message.size)
      [] message.type = "bad_mark" -> <<Reject>>
      [] OTHER                     -> <<>>
=============================================================================
