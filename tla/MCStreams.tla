------------------------------- MODULE MCStreams -------------------------------
(***************************************************************************)
(* The byte streams of the program.  They share nothing, so each behaviour *)
(* is one of one link: link says of which, and the others stay where they  *)
(* began.                                                                  *)
(***************************************************************************)
EXTENDS VideoStream, KeyframeScan, UsbFraming, ControlStream, ControlReceiver, HuMessage,
        UsbWriting

VARIABLE link

Init ==
    /\ link \in {"video", "scan", "usb", "control", "receiver", "message", "writing"}
    /\ VideoInit /\ ScanInit /\ UsbInit /\ ControlInit /\ TellInit /\ HuInit
    /\ WriteInit /\ (link # "writing" => speaks = "V1")

Video ==
    /\ link = "video" /\ VideoNext
    /\ UNCHANGED <<link, scanVars, usbVars, controlVars, tellVars, huVars, outVars>>

KeyScan ==
    /\ link = "scan" /\ ScanNext
    /\ UNCHANGED <<link, videoVars, usbVars, controlVars, tellVars, huVars, outVars>>

Usb ==
    /\ link = "usb" /\ UsbNext
    /\ UNCHANGED <<link, videoVars, scanVars, controlVars, tellVars, huVars, outVars>>

Control ==
    /\ link = "control" /\ ControlNext
    /\ UNCHANGED <<link, videoVars, scanVars, usbVars, tellVars, huVars, outVars>>

Tell ==
    /\ link = "receiver" /\ TellNext
    /\ UNCHANGED <<link, videoVars, scanVars, usbVars, controlVars, huVars, outVars>>

Hu ==
    /\ link = "message" /\ HuNext
    /\ UNCHANGED <<link, videoVars, scanVars, usbVars, controlVars, tellVars, outVars>>

Write ==
    /\ link = "writing" /\ WriteNext
    /\ UNCHANGED <<link, videoVars, scanVars, usbVars, controlVars, tellVars, huVars>>

vars == <<link, videoVars, scanVars, usbVars, controlVars, tellVars, huVars, outVars>>

Next == Video \/ KeyScan \/ Usb \/ Control \/ Tell \/ Hu \/ Write

(* Only of the video stream something is said that must happen; on the     *)
(* other links its receiver has nothing to read.                           *)
Spec == Init /\ [][Next]_vars /\ VideoFairness

(* The types of all seven. *)
StreamsTypeOK ==
    VideoTypeOK /\ ScanTypeOK /\ UsbTypeOK /\ ControlTypeOK /\ TellTypeOK /\ HuTypeOK
    /\ WriteTypeOK
=============================================================================
