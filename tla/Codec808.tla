------------------------------ MODULE Codec808 ------------------------------
(***************************************************************************)
(* The JT/T 808 frame from the message to the dispatcher.                  *)
(*                                                                         *)
(* A frame is a message and its check byte, escaped, between two flags.    *)
(* The loops of Protocol_End and Protocol_808_Encode build it byte by      *)
(* byte; the centre builds its frames alike.  Frames travel in one stream  *)
(* of bytes, which the modem cuts into lines of hexadecimal text as it     *)
(* likes: one frame, several, or a part of one.  The terminal turns a line *)
(* back into bytes, copies them over what the last line left in            *)
(* UDP_HEX_Rx, unescapes that buffer in place, and checks one flag and the *)
(* check byte.                                                             *)
(***************************************************************************)
EXTENDS Integers, Sequences, FiniteSets

CONSTANTS
    Bytes,           \* the bytes of messages
    MaxMessage,      \* bound: bytes of a message
    MaxFrames,       \* bound: frames of the centre
    MaxLine,         \* bytes in the longest line of the modem
    BufLen           \* bytes in UDP_HEX_Rx

\* The queue of the lines, mq_GSM, holds lines of 1396 characters at most, that
\* is, fewer than 700 bytes; UDP_HEX_Rx has 1024.
ASSUME CodecAssumption ==
    /\ Bytes \subseteq 0 .. 255
    /\ MaxMessage \in Nat \ {0} /\ MaxFrames \in Nat \ {0}
    /\ MaxLine \in Nat /\ BufLen \in Nat /\ MaxLine < BufLen

VARIABLES
    txPc,                 \* "idle", "sum" or "encode": the loops of Protocol_End
    Original_info,
    lencnt,               \* the index of the loop under way
    Gfcs,                 \* the values that the check byte takes, the last one last
    frames,               \* number of frames begun
    wire,                 \* all bytes put into frames, GPRS_info at their end
    posted,               \* number of them in frames handed over to the network
    sent,                 \* for each byte before escaping: the byte, its role in the
                          \*   frame, its place in wire and the sum up to it
    taken,                \* bytes that the modem has delivered
    rxPc,                 \* "idle", "decode" or "sum"
    UDP_HEX_Rx, UDP_hexRx_len,
    index,                \* i of the loop under way
    UDP_DecodeHex_Len, FCS_RX_UDP,
    first, last,          \* of a line of whole frames: its first and its last byte
                          \*   in sent; 0 for any other line
    result                \* what TCP_RX_Process did with the last line

txVars  == <<txPc, Original_info, lencnt, Gfcs, frames>>
netVars == <<wire, posted, sent>>
rxVars  == <<taken, rxPc, UDP_HEX_Rx, UDP_hexRx_len, index, UDP_DecodeHex_Len,
             FCS_RX_UDP, first, last, result>>
vars    == <<txVars, netVars, rxVars>>

Byte     == 0 .. 255
Flag     == 126           \* 0x7e
EscByte  == 125           \* 0x7d
Messages == UNION {[1 .. n -> Bytes] : n \in 1 .. MaxMessage}

-----------------------------------------------------------------------------
(* The operators of the codec                                              *)

\* The bit of weight p in the exclusive or of two bytes, and the whole of it.
BitXor(a, b, p) == IF (a \div p) % 2 = (b \div p) % 2 THEN 0 ELSE p
ByteXor(a, b) ==
    BitXor(a, b, 1) + BitXor(a, b, 2) + BitXor(a, b, 4) + BitXor(a, b, 8)
    + BitXor(a, b, 16) + BitXor(a, b, 32) + BitXor(a, b, 64) + BitXor(a, b, 128)

\* Mutant: only the flag is escaped.
EscapeFlagOnly(b) == IF b = Flag THEN <<EscByte, 2>> ELSE <<b>>

Escape(b) == CASE b = Flag    -> <<EscByte, 2>>
               [] b = EscByte -> <<EscByte, 1>>
               [] OTHER       -> <<b>>

\* Characters of hexadecimal text: '0' is 48 and 'A' is 65.
HexChar(n) == IF n >= 10 THEN 65 + n - 10 ELSE 48 + n
HexValue(c) == CASE c \in 48 .. 57 -> c - 48
                 [] c \in 65 .. 70 -> c - 55
                 [] OTHER          -> 255

GSM_HextoAscii_Convert(s) ==
    [k \in 1 .. 2 * Len(s) |->
       IF k % 2 = 1 THEN HexChar(s[(k + 1) \div 2] \div 16)
                    ELSE HexChar(s[k \div 2] % 16)]

\* A wrong low digit drops the byte, a wrong high one does not.
GSM_AsciitoHEX_Convert(text) ==
    LET pairs == {k \in 1 .. Len(text) \div 2 : HexValue(text[2 * k]) # 255}
        pair(j) == CHOOSE k \in pairs : Cardinality({i \in pairs : i <= k}) = j
        value(k) == (HexValue(text[2 * k - 1]) * 16 + HexValue(text[2 * k])) % 256
    IN  [j \in 1 .. Cardinality(pairs) |-> value(pair(j))]

-----------------------------------------------------------------------------
(* Protocol_End                                                            *)

Init ==
    /\ txPc = "idle" /\ Original_info = <<>> /\ lencnt = 0 /\ Gfcs = <<0>> /\ frames = 0
    /\ wire = <<>> /\ posted = 0 /\ sent = <<>> /\ taken = 0
    /\ rxPc = "idle"
    /\ UDP_HEX_Rx = [k \in 0 .. BufLen - 1 |-> 0] /\ UDP_hexRx_len = 0
    /\ index = 0 /\ UDP_DecodeHex_Len = 0 /\ FCS_RX_UDP = 0
    /\ first = 0 /\ last = 0 /\ result = "none"

\* The sum of everything after the first flag and before the next byte of sent,
\* the flags between frames included.
NextSum == IF sent = <<>> THEN Flag
           ELSE ByteXor(sent[Len(sent)].sum, sent[Len(sent)].byte)

\* Appends a byte, as the given bytes, to the frame.
Put(b, role, bytes) ==
    /\ wire' = wire \o bytes
    /\ sent' = Append(sent, [byte |-> b, role |-> role,
                             at |-> Len(wire) + 1, sum |-> NextSum])

\* A message is complete and its check byte is begun.
Protocol_End(m) ==
    /\ txPc = "idle" /\ frames < MaxFrames
    /\ Original_info' = m /\ Gfcs' = <<0>> /\ lencnt' = 0
    /\ frames' = frames + 1 /\ txPc' = "sum"
    /\ UNCHANGED <<netVars, rxVars>>

\* One round of the loop over the check byte.
SumByte ==
    /\ txPc = "sum" /\ lencnt < Len(Original_info)
    /\ Gfcs' = Append(Gfcs, ByteXor(Gfcs[Len(Gfcs)], Original_info[lencnt + 1]))
    /\ lencnt' = lencnt + 1
    /\ UNCHANGED <<txPc, Original_info, frames, netVars, rxVars>>

\* The check byte is appended to the message, and the frame begins.
StartFlag ==
    /\ txPc = "sum" /\ lencnt >= Len(Original_info)
    /\ Original_info' = Append(Original_info, Gfcs[Len(Gfcs)])
    /\ Put(Flag, "head", <<Flag>>)
    /\ lencnt' = 0 /\ txPc' = "encode"
    /\ UNCHANGED <<Gfcs, frames, posted, rxVars>>

\* Mutant: the check byte is not escaped.
Protocol_808_EncodeRawFcs ==
    /\ txPc = "encode" /\ lencnt < Len(Original_info)
    /\ LET b == Original_info[lencnt + 1]
           check == lencnt + 1 = Len(Original_info)
       IN  Put(b, IF check THEN "check" ELSE "body", IF check THEN <<b>> ELSE Escape(b))
    /\ lencnt' = lencnt + 1
    /\ UNCHANGED <<txPc, Original_info, Gfcs, frames, posted, rxVars>>

\* One round of the loop in Protocol_808_Encode.
Protocol_808_Encode ==
    /\ txPc = "encode" /\ lencnt < Len(Original_info)
    /\ LET b == Original_info[lencnt + 1]
       IN  Put(b, IF lencnt + 1 = Len(Original_info) THEN "check" ELSE "body", Escape(b))
    /\ lencnt' = lencnt + 1
    /\ UNCHANGED <<txPc, Original_info, Gfcs, frames, posted, rxVars>>

\* The frame ends and is handed over.
EndFlag ==
    /\ txPc = "encode" /\ lencnt >= Len(Original_info)
    /\ Put(Flag, "tail", <<Flag>>)
    /\ posted' = Len(wire')
    /\ txPc' = "idle"
    /\ UNCHANGED <<Original_info, lencnt, Gfcs, frames, rxVars>>

-----------------------------------------------------------------------------
(* The modem                                                               *)

\* Mutant: the count of unescaped bytes is not cleared.
Get_GSM_HexDataNoClear(bytes) ==
    LET hex == GSM_AsciitoHEX_Convert(GSM_HextoAscii_Convert(bytes)) IN
    /\ UDP_HEX_Rx' = [k \in 0 .. BufLen - 1 |->
                        IF k < Len(hex) THEN hex[k + 1] ELSE UDP_HEX_Rx[k]]
    /\ UDP_hexRx_len' = Len(hex)
    /\ index' = 0 /\ UDP_DecodeHex_Len' = UDP_DecodeHex_Len
    /\ rxPc' = "decode" /\ result' = "none"

\* The line for the bytes: GSM_Process, Get_GSM_HexData, and the copy in the
\* app808 thread, which leaves the bytes behind the new ones as they are;
\* Protocol_808_Decode then starts with nothing unescaped.
Get_GSM_HexData(bytes) ==
    LET hex == GSM_AsciitoHEX_Convert(GSM_HextoAscii_Convert(bytes)) IN
    /\ UDP_HEX_Rx' = [k \in 0 .. BufLen - 1 |->
                        IF k < Len(hex) THEN hex[k + 1] ELSE UDP_HEX_Rx[k]]
    /\ UDP_hexRx_len' = Len(hex)
    /\ index' = 0 /\ UDP_DecodeHex_Len' = 0
    /\ rxPc' = "decode" /\ result' = "none"

\* The modem delivers a line that ends with the given byte of the stream.
Line(end) ==
    /\ rxPc = "idle"
    /\ taken < end /\ end <= posted /\ end - taken <= MaxLine
    /\ Get_GSM_HexData(SubSeq(wire, taken + 1, end))
    /\ taken' = end
    /\ UNCHANGED <<txVars, netVars, FCS_RX_UDP>>

Heads == {q \in DOMAIN sent : sent[q].role = "head" /\ sent[q].at = taken + 1}
Tails(end) == {q \in DOMAIN sent : sent[q].role = "tail" /\ sent[q].at = end}

\* A line of whole frames.
WholeFrames(end) ==
    /\ Line(end)
    /\ first' \in Heads /\ last' \in Tails(end)

\* Any other line.
Fragment(end) ==
    /\ Line(end)
    /\ Heads = {} \/ Tails(end) = {}
    /\ first' = 0 /\ last' = 0

-----------------------------------------------------------------------------
(* TCP_RX_Process                                                          *)

\* Mutant: the loop takes one byte too many.
Protocol_808_DecodeOneMore ==
    LET b    == UDP_HEX_Rx[index]
        next == UDP_HEX_Rx[index + 1]
        esc  == b = EscByte /\ next \in {1, 2}
    IN  /\ rxPc = "decode" /\ index <= UDP_hexRx_len
        /\ UDP_HEX_Rx' = [UDP_HEX_Rx EXCEPT ![UDP_DecodeHex_Len] =
                            IF esc THEN 124 + next ELSE b]
        /\ index' = index + (IF esc THEN 2 ELSE 1)
        /\ UDP_DecodeHex_Len' = UDP_DecodeHex_Len + 1
        /\ UNCHANGED <<txVars, netVars, taken, rxPc, UDP_hexRx_len, FCS_RX_UDP,
                       first, last, result>>

\* One round of the loop in Protocol_808_Decode, which works in place.
Protocol_808_Decode ==
    LET b    == UDP_HEX_Rx[index]
        next == UDP_HEX_Rx[index + 1]
        esc  == b = EscByte /\ next \in {1, 2}
    IN  /\ rxPc = "decode" /\ index < UDP_hexRx_len
        /\ UDP_HEX_Rx' = [UDP_HEX_Rx EXCEPT ![UDP_DecodeHex_Len] =
                            IF esc THEN 124 + next ELSE b]
        /\ index' = index + (IF esc THEN 2 ELSE 1)
        /\ UDP_DecodeHex_Len' = UDP_DecodeHex_Len + 1
        /\ UNCHANGED <<txVars, netVars, taken, rxPc, UDP_hexRx_len, FCS_RX_UDP,
                       first, last, result>>

\* After the loop the head is looked at: without a flag the line is dropped, ...
NoHead ==
    /\ rxPc = "decode" /\ index >= UDP_hexRx_len
    /\ UDP_HEX_Rx[0] # Flag
    /\ result' = "rejected" /\ rxPc' = "idle"
    /\ UNCHANGED <<txVars, netVars, taken, UDP_HEX_Rx, UDP_hexRx_len, index,
                   UDP_DecodeHex_Len, FCS_RX_UDP, first, last>>

\* ... with one, the bytes between it and the last two are summed up.
Decoded ==
    /\ rxPc = "decode" /\ index >= UDP_hexRx_len
    /\ UDP_HEX_Rx[0] = Flag
    /\ rxPc' = "sum" /\ index' = 0 /\ FCS_RX_UDP' = 0
    /\ UNCHANGED <<txVars, netVars, taken, UDP_HEX_Rx, UDP_hexRx_len,
                   UDP_DecodeHex_Len, first, last, result>>

SumReceived ==
    /\ rxPc = "sum" /\ index < UDP_DecodeHex_Len - 3
    /\ FCS_RX_UDP' = ByteXor(FCS_RX_UDP, UDP_HEX_Rx[1 + index])
    /\ index' = index + 1
    /\ UNCHANGED <<txVars, netVars, taken, rxPc, UDP_HEX_Rx, UDP_hexRx_len,
                   UDP_DecodeHex_Len, first, last, result>>

\* What is compared with the sum; for a single byte, what lies in front of the
\* buffer.
Seen == IF UDP_DecodeHex_Len >= 2 THEN {UDP_HEX_Rx[UDP_DecodeHex_Len - 2]}
        ELSE Byte

\* The check byte agrees, and the frame is dispatched ...
FrameAccepted ==
    /\ rxPc = "sum" /\ index >= UDP_DecodeHex_Len - 3
    /\ FCS_RX_UDP \in Seen
    /\ result' = "accepted" /\ rxPc' = "idle"
    /\ UNCHANGED <<txVars, netVars, taken, UDP_HEX_Rx, UDP_hexRx_len, index,
                   UDP_DecodeHex_Len, FCS_RX_UDP, first, last>>

\* ... or it does not, and the buffer is cleared.
WrongFcs ==
    /\ rxPc = "sum" /\ index >= UDP_DecodeHex_Len - 3
    /\ Seen # {FCS_RX_UDP}
    /\ UDP_HEX_Rx' = [k \in 0 .. BufLen - 1 |-> 0] /\ UDP_hexRx_len' = 0
    /\ result' = "rejected" /\ rxPc' = "idle"
    /\ UNCHANGED <<txVars, netVars, taken, index, UDP_DecodeHex_Len, FCS_RX_UDP,
                   first, last>>

SenderStep ==
    \/ \E m \in Messages : Protocol_End(m)
    \/ SumByte
    \/ StartFlag
    \/ Protocol_808_Encode
    \/ EndFlag

ReceiverStep ==
    \/ \E end \in 1 .. posted : WholeFrames(end)
    \/ \E end \in 1 .. posted : Fragment(end)
    \/ Protocol_808_Decode
    \/ NoHead
    \/ Decoded
    \/ SumReceived
    \/ FrameAccepted
    \/ WrongFcs

Next == SenderStep \/ ReceiverStep

Spec == Init /\ [][Next]_vars

-----------------------------------------------------------------------------
(* Properties                                                              *)

Roles == {"head", "body", "check", "tail"}

TypeOK ==
    /\ txPc \in {"idle", "sum", "encode"} /\ Original_info \in Seq(Byte)
    /\ lencnt \in 0 .. Len(Original_info) /\ Gfcs \in Seq(Byte)
    /\ frames \in 0 .. MaxFrames
    /\ wire \in Seq(Byte) /\ posted \in 0 .. Len(wire) /\ taken \in 0 .. posted
    /\ sent \in Seq([byte : Byte, role : Roles, at : Nat, sum : Byte])
    /\ rxPc \in {"idle", "decode", "sum"}
    /\ UDP_HEX_Rx \in [0 .. BufLen - 1 -> Byte]
    /\ UDP_hexRx_len \in 0 .. MaxLine
    /\ rxPc = "decode" => index \in 0 .. UDP_hexRx_len + 1
    /\ rxPc = "sum" => index \in 0 .. UDP_DecodeHex_Len
    /\ UDP_DecodeHex_Len \in 0 .. MaxLine
    /\ FCS_RX_UDP \in Byte
    /\ first \in 0 .. Len(sent) /\ last \in 0 .. Len(sent)
    /\ result \in {"none", "accepted", "rejected"}

\* In the stream there are flags only at the two ends of frames, whatever bytes
\* the messages have and whatever their check bytes are (Protocol_808_Encode):
\* the centre finds the frames in it.
FlagsOnlyAtEnds ==
    \A p \in DOMAIN wire :
      wire[p] = Flag <=>
        \E q \in DOMAIN sent : sent[q].at = p /\ sent[q].role \in {"head", "tail"}

\* Unescaping in place never overwrites a byte that it has still to read, and
\* for a line of whole frames it does not look at bytes behind the line, which
\* are left over from an earlier one.
DecodeInPlace ==
    rxPc = "decode" =>
      /\ UDP_DecodeHex_Len <= index
      /\ first # 0 /\ index < UDP_hexRx_len /\ UDP_HEX_Rx[index] = EscByte
           => index + 1 < UDP_hexRx_len

\* A line of whole frames is never rejected, and what reaches the dispatcher is
\* what was sent, to the last byte, whatever bytes the messages have, whatever
\* earlier lines left in the buffer and however many frames share the line.
FirstFrameHandled ==
    rxPc = "idle" /\ first # 0 =>
      /\ result = "accepted"
      /\ UDP_DecodeHex_Len = last - first + 1
      /\ \A i \in 0 .. last - first : UDP_HEX_Rx[i] = sent[first + i].byte
=============================================================================
