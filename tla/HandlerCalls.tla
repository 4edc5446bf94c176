----------------------------- MODULE HandlerCalls -----------------------------
(***************************************************************************)
(* What a message handler of the head unit protocols does, as a sequence   *)
(* of calls into the rest of the program, in the order of the code.  The   *)
(* handler returns FALSE at the first read or write that fails, and TRUE   *)
(* after the last call otherwise.                                          *)
(***************************************************************************)
EXTENDS Sequences

(* I/O on the session's descriptor *)
ReadTail == [call |-> "read"]
Write(what) == [call |-> "write", what |-> what]

(* Calls into the video receiver *)
Activate == [call |-> "activate"]
Deactivate == [call |-> "deactivate"]
SwitchToPrevious == [call |-> "switch"]
Yield(pid) == [call |-> "yield", pid |-> pid]

(* Calls into the messaging service.  Those that are routed to the process *)
(* on screen read its pid first, and send under another lock.              *)
SetScreenSize == [call |-> "set_screen_size"]
KeyFrameReq == [call |-> "key_frame_req"]
SendKeyFrameReq(pid) == [call |-> "send_key_frame_req", pid |-> pid]
InputEvent(action) == [call |-> "input", action |-> action]
SendInputEvent(action, pid) == [call |-> "send_input", action |-> action, pid |-> pid]

(* The handler gives the message up and returns FALSE. *)
Reject == [call |-> "reject"]

Actions == {"DOWN", "MOVE", "UP"}
=============================================================================
