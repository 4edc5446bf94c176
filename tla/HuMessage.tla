------------------------------- MODULE HuMessage -------------------------------
(***************************************************************************)
(* src/hu_message.c: the text messages inside the legacy protocol, encoded *)
(* and decoded.  A character is a digit, below Base, or one of those that  *)
(* strtoul knows or does not; its 0x is left out.  The mark is one         *)
(* character, and the checksum, which decode does not look at, is zeros.   *)
(* malloc does not fail.                                                   *)
(***************************************************************************)
EXTENDS Naturals, Sequences, SequencesExt

CONSTANTS
    Base,               \* of the numbers, 16
    ShortDigits,        \* of flow_id, the lengths of both names, and the count: 2
    LongDigits,         \* of the whole length and the lengths of data: 8
    CrcDigits,          \* 4
    NameLens,           \* lengths of app_id and logic_id
    DataLens,           \* lengths of data
    FlowIds,
    MaxData,            \* bound: data of a message
    ChunkLens           \* values of chunk_len

(* How many numbers n digits can tell apart: 256 and 2^32. *)
Pow[n \in Nat] == IF n = 0 THEN 1 ELSE Base * Pow[n - 1]

ASSUME DigitsAssumption ==
    /\ Base \in Nat /\ Base > 1
    /\ ShortDigits \in Nat \ {0} /\ LongDigits \in Nat /\ ShortDigits <= LongDigits
    /\ CrcDigits \in Nat

(* flow_id and data_count are of 8 bits.  The names the program uses are   *)
(* shorter than their 8-bit lengths can say.                               *)
ASSUME FieldsAssumption ==
    /\ FlowIds \subseteq 0..(Pow[ShortDigits] - 1) /\ NameLens \subseteq 0..(Pow[ShortDigits] - 1)
    /\ MaxData \in 0..(Pow[ShortDigits] - 1)
    /\ DataLens \subseteq Nat /\ ChunkLens \subseteq Nat

VARIABLES
    hu_message,         \* what was encoded
    hu_data,            \* what is decoded: its encoding, or what came of it
    hu_stage,           \* "idle", "encoded", "cut", "altered", "decoded"
    hu_damage,          \* history: the stage before
    hu_decoded          \* the result

huVars == <<hu_message, hu_data, hu_stage, hu_damage, hu_decoded>>

Other == Base           \* a character that is in no number
Blank == Base + 1
Minus == Base + 2
Mark == Base + 3        \* HU_MESSAGE_PACKET_MARK
MarkLen == 1

Strings(lens) == {[j \in 1..n |-> IF j = 1 THEN Other ELSE 0] : n \in lens}

HuMessages ==
    [flow_id : FlowIds, app_id : Strings(NameLens), logic_id : Strings(NameLens),
     data : UNION {[1..n -> Strings(DataLens)] : n \in 0..MaxData}]

-----------------------------------------------------------------------------
(* hu_message_encode *)

(* common_utils_dec_to_hex: the low digits, however large the number.      *)
Hex(value, digits) == [j \in 1..digits |-> (value \div Pow[digits - j]) % Base]

PutStr(string, digits) == Hex(Len(string), digits) \o string

CalcLen(message) ==
    MarkLen + 4 * ShortDigits + LongDigits + CrcDigits
    + Len(message.app_id) + Len(message.logic_id)
    + Len(message.data) * LongDigits + Len(FlattenSeq(message.data))

ChunkedLen(len, chunk_len) ==
    IF chunk_len = 0 THEN len ELSE ((len + chunk_len - 1) \div chunk_len) * chunk_len

(* No message is as long as its 32-bit length could not say. *)
ASSUME TotalAssumption ==
    \A message \in HuMessages, chunk_len \in ChunkLens :
        ChunkedLen(CalcLen(message), chunk_len) < Pow[LongDigits]

(* The declared length is that of all chunks; the last one is filled with  *)
(* whatever was in memory.                                                 *)
Encode(message, chunk_len) ==
    LET total == CalcLen(message)
        chunked == ChunkedLen(total, chunk_len)
    IN  <<Mark>> \o Hex(message.flow_id, ShortDigits) \o Hex(chunked, LongDigits)
        \o PutStr(message.app_id, ShortDigits) \o PutStr(message.logic_id, ShortDigits)
        \o Hex(Len(message.data), ShortDigits)
        \o FlattenSeq([j \in 1..Len(message.data) |-> PutStr(message.data[j], LongDigits)])
        \o Hex(0, CrcDigits) \o [j \in 1..(chunked - total) |-> Other]

-----------------------------------------------------------------------------
(* hu_message_decode.  A field is read where the one before ends, if that  *)
(* could be read and this one is inside the buffer.                        *)

(* strtoul: blanks and a sign, and then digits up to the end.  A negative  *)
(* number wraps.                                                           *)
Numerals(text) ==
    {j \in 1..Len(text) :
       /\ \A k \in j..Len(text) : text[k] < Base
       /\ \A k \in 1..(j - 1) : text[k] = Blank \/ (k = j - 1 /\ text[k] = Minus)}

Value(text, first) ==
    LET V[k \in 0..Len(text)] == IF k < first THEN 0 ELSE V[k - 1] * Base + text[k]
    IN  V[Len(text)]

Number(text) ==
    LET first == CHOOSE j \in Numerals(text) : TRUE
        value == Value(text, first)
    IN  IF first > 1 /\ text[first - 1] = Minus /\ value > 0 THEN Pow[LongDigits] - value ELSE value

ReadHex(data, before, end, digits) ==
    LET text == SubSeq(data, before.cursor + 1, before.cursor + digits)
    IN  IF before.ok /\ before.cursor + digits <= end /\ Numerals(text) # {}
        THEN [ok |-> TRUE, cursor |-> before.cursor + digits, value |-> Number(text)]
        ELSE [ok |-> FALSE, cursor |-> 0, value |-> 0]

ReadStr(data, length, end) ==
    LET last == length.cursor + length.value
    IN  IF length.ok /\ last <= end
        THEN [ok |-> TRUE, cursor |-> last, value |-> SubSeq(data, length.cursor + 1, last)]
        ELSE [ok |-> FALSE, cursor |-> 0, value |-> <<>>]

ReadPutStr(data, before, digits, end) ==
    ReadStr(data, ReadHex(data, before, end, digits), end)

(* The strings from a cursor on, as many as can be read. *)
DataFrom(data, end) ==
    LET Strs[cursor \in 0..end] ==
          LET first == ReadPutStr(data, [ok |-> TRUE, cursor |-> cursor], LongDigits, end)
          IN  IF first.ok THEN <<first.value>> \o Strs[first.cursor] ELSE <<>>
    IN  Strs

(* Mutant: fields are read up to the end of the buffer. *)
EndOfBuffer(total, len) == len

(* Everything must stay inside the declared message. *)
EndOfMessage(total, len) == total

Decode(data, len) ==
    LET mark == [ok |-> len >= MarkLen /\ data[1] = Mark, cursor |-> MarkLen]
        flow_id == ReadHex(data, mark, len, ShortDigits)
        total == ReadHex(data, flow_id, len, LongDigits)
        fits == [total EXCEPT !.ok = @ /\ total.value <= len]
        end == EndOfMessage(total.value, len)
        app_id == ReadPutStr(data, fits, ShortDigits, end)
        logic_id == ReadPutStr(data, app_id, ShortDigits, end)
        count == ReadHex(data, logic_id, end, ShortDigits)
        strings == IF count.ok THEN DataFrom(data, end)[count.cursor] ELSE <<>>
    IN  IF count.ok /\ count.value <= Len(strings)
        THEN <<[flow_id |-> flow_id.value % Pow[ShortDigits],
                app_id |-> app_id.value, logic_id |-> logic_id.value,
                data |-> SubSeq(strings, 1, count.value)]>>
        ELSE <<>>

-----------------------------------------------------------------------------

HuInit ==
    /\ hu_message = <<>> /\ hu_data = <<>> /\ hu_decoded = <<>>
    /\ hu_stage = "idle" /\ hu_damage = "idle"

HuEncodes ==
    /\ hu_stage = "idle" /\ hu_stage' = "encoded"
    /\ \E message \in HuMessages, chunk_len \in ChunkLens :
         hu_message' = <<message>> /\ hu_data' = Encode(message, chunk_len)
    /\ UNCHANGED <<hu_damage, hu_decoded>>

(* Part of the message arrives: the test cuts it at every place. *)
HuIsCut ==
    /\ hu_stage = "encoded" /\ hu_stage' = "cut"
    /\ \E n \in 0..(Len(hu_data) - 1) : hu_data' = SubSeq(hu_data, 1, n)
    /\ UNCHANGED <<hu_message, hu_damage, hu_decoded>>

(* A head unit counts or encodes differently: any character is another. *)
HuIsAltered ==
    /\ hu_stage = "encoded" /\ hu_stage' = "altered"
    /\ \E j \in 1..Len(hu_data), c \in 0..Mark : hu_data' = [hu_data EXCEPT ![j] = c]
    /\ UNCHANGED <<hu_message, hu_damage, hu_decoded>>

HuDecodes ==
    /\ hu_stage \in {"encoded", "cut", "altered"}
    /\ hu_stage' = "decoded" /\ hu_damage' = hu_stage
    /\ hu_decoded' = Decode(hu_data, Len(hu_data))
    /\ UNCHANGED <<hu_message, hu_data>>

HuNext == HuEncodes \/ HuIsCut \/ HuIsAltered \/ HuDecodes

HuSpec == HuInit /\ [][HuNext]_huVars

-----------------------------------------------------------------------------
(* Properties *)

HuTypeOK ==
    /\ hu_message = <<>> \/ hu_message[1] \in HuMessages
    /\ hu_data \in Seq(0..Mark)
    /\ hu_stage \in {"idle", "encoded", "cut", "altered", "decoded"}

Declared ==
    Number(SubSeq(hu_data, MarkLen + ShortDigits + 1, MarkLen + ShortDigits + LongDigits))

(* What is encoded is decoded again, in chunks or not; a message that is   *)
(* not there whole is refused, wherever it ends; and whatever the fields   *)
(* say, what is decoded fits into the length the message declares, which   *)
(* fits into what was received.                                            *)
HuRoundTrip ==
    hu_stage = "decoded" =>
        /\ hu_damage = "encoded" => hu_decoded = hu_message
        /\ hu_damage = "cut" => hu_decoded = <<>>
        /\ hu_decoded # <<>> => /\ CalcLen(hu_decoded[1]) - CrcDigits <= Declared
                                /\ Declared <= Len(hu_data)
=============================================================================
