----------------------------- MODULE KeyframeScan -----------------------------
(***************************************************************************)
(* video_receiver_is_keyframe: the scan of an access unit for a start code *)
(* that begins a sequence parameter set or an IDR slice.  One step is one  *)
(* turn of the loop; indexes are the code's, from 0.                       *)
(***************************************************************************)
EXTENDS Naturals, Sequences

CONSTANTS
    Bytes,              \* values of a byte
    MaxDataLen          \* bound: bytes of an access unit

ASSUME BytesAssumption == Bytes \subseteq 0..255
ASSUME MaxDataLenAssumption == MaxDataLen \in Nat

VARIABLES
    data,               \* the access unit
    i,                  \* of the loop
    verdict             \* what is returned, once the scan is over

scanVars == <<data, i, verdict>>

Frames == UNION {[1..len -> Bytes] : len \in 0..MaxDataLen}

Byte(k) == data[k + 1]

ScanInit == data = <<>> /\ i = 0 /\ verdict = "idle"

(* handle_frame asks for a frame of the process on screen. *)
Scan ==
    /\ verdict = "idle"
    /\ data' \in Frames /\ i' = 0 /\ verdict' = "scanning"

AtStartCode == Byte(i) = 0 /\ Byte(i + 1) = 0 /\ Byte(i + 2) = 1
AtKeyNal == Byte(i + 3) % 32 \in {5, 7}

(* Mutant: the byte after the start code is not looked at again. *)
SkipTooFar ==
    /\ AtStartCode /\ ~AtKeyNal
    /\ i' = i + 4 /\ UNCHANGED verdict

(* The start code is left behind, and not the byte after it. *)
Skip ==
    /\ AtStartCode /\ ~AtKeyNal
    /\ i' = i + 3 /\ UNCHANGED verdict

Find ==
    /\ AtStartCode /\ AtKeyNal
    /\ verdict' = "keyframe" /\ UNCHANGED i

Advance ==
    /\ ~AtStartCode
    /\ i' = i + 1 /\ UNCHANGED verdict

ScanStep ==
    /\ verdict = "scanning" /\ i + 3 < Len(data)
    /\ Find \/ Skip \/ Advance
    /\ UNCHANGED data

ScanEnds ==
    /\ verdict = "scanning" /\ i + 3 >= Len(data)
    /\ verdict' = "none"
    /\ UNCHANGED <<data, i>>

ScanNext == Scan \/ ScanStep \/ ScanEnds

ScanSpec == ScanInit /\ [][ScanNext]_scanVars

-----------------------------------------------------------------------------
(* Properties *)

ScanTypeOK ==
    /\ data \in Seq(Bytes)
    /\ i \in Nat
    /\ verdict \in {"idle", "scanning", "keyframe", "none"}

(* A start code at any place, with the byte after it. *)
KeyNalAt(k) ==
    /\ k + 3 < Len(data)
    /\ Byte(k) = 0 /\ Byte(k + 1) = 0 /\ Byte(k + 2) = 1
    /\ Byte(k + 3) % 32 \in {5, 7}

HasKeyNal == \E k \in 0..Len(data) : KeyNalAt(k)

(* The scan finds a key frame exactly if there is one, whatever it leaps   *)
(* over: a gate that misses one stays closed, one that sees one where none *)
(* is opens in the middle of a picture.                                    *)
KeyframeFound ==
    /\ verdict = "keyframe" => HasKeyNal
    /\ verdict = "none" => ~HasKeyNal
=============================================================================
