--------------------------- MODULE Codec808_proofs ---------------------------
(***************************************************************************)
(* Proofs about the codec, for messages of any bytes and any length, any   *)
(* number of frames, and every way the modem cuts them into lines.         *)
(*                                                                         *)
(* The loops of the code are steps of the specification, so that what they *)
(* compute follows from invariants of the loops and not from an induction  *)
(* over the messages.                                                      *)
(***************************************************************************)
EXTENDS Codec808, SequenceTheorems, FiniteSetTheorems, TLAPS

Record == [byte : Byte, role : Roles, at : Nat, sum : Byte]

-----------------------------------------------------------------------------
(* Types                                                                   *)

SenderTypes ==
    /\ txPc \in {"idle", "sum", "encode"} /\ Original_info \in Seq(Byte)
    /\ lencnt \in 0 .. Len(Original_info) /\ Gfcs \in Seq(Byte)
    /\ frames \in 0 .. MaxFrames

NetTypes ==
    /\ wire \in Seq(Byte) /\ sent \in Seq(Record)
    /\ posted \in 0 .. Len(wire) /\ taken \in 0 .. posted

\* The loops leave the buffer in its bounds, the look ahead included.
ReceiverTypes ==
    /\ rxPc \in {"idle", "decode", "sum"}
    /\ UDP_HEX_Rx \in [0 .. BufLen - 1 -> Byte]
    /\ UDP_hexRx_len \in 0 .. MaxLine /\ UDP_DecodeHex_Len \in 0 .. MaxLine
    /\ index \in Nat /\ FCS_RX_UDP \in Byte
    /\ rxPc = "decode" => /\ UDP_DecodeHex_Len <= index
                          /\ UDP_DecodeHex_Len <= UDP_hexRx_len
                          /\ index <= UDP_hexRx_len + 1
    /\ rxPc = "sum" => index <= UDP_DecodeHex_Len
    /\ result \in {"none", "accepted", "rejected"}

-----------------------------------------------------------------------------
(* What has been put into frames                                           *)

Marks == {"head", "tail"}

\* The number of bytes on the wire for a byte of sent, and the place behind it.
Width(r) == IF r.role \in Marks \/ r.byte \notin {Flag, EscByte} THEN 1 ELSE 2
Behind(r) == r.at + Width(r)

\* The bytes that stand for it are at its place.
Placed(r, w) ==
    /\ r.at >= 1 /\ Behind(r) <= Len(w) + 1
    /\ r.role \in Marks => r.byte = Flag
    /\ w[r.at] = IF Width(r) = 2 THEN EscByte ELSE r.byte
    /\ Width(r) = 2 => w[r.at + 1] = r.byte - 124

\* One byte follows the other, and there is nothing else on the wire.
Layout ==
    /\ \A q \in 1 .. Len(sent) : Placed(sent[q], wire)
    /\ \A q, r \in 1 .. Len(sent) : q < r => Behind(sent[q]) <= sent[r].at
    /\ \A q \in 1 .. Len(sent) - 1 : sent[q + 1].at = Behind(sent[q])
    /\ \A p \in 1 .. Len(wire) : \E q \in 1 .. Len(sent) :
         sent[q].at = p \/ (Width(sent[q]) = 2 /\ sent[q].at + 1 = p)
    /\ sent = <<>> => wire = <<>>
    /\ sent # <<>> => Len(wire) + 1 = Behind(sent[Len(sent)])

\* The sum runs on through the flags: it is 0 behind a check byte, the flag
\* behind the flag that follows, and 0 again behind the next one.
Summing ==
    /\ \A q \in 1 .. Len(sent) - 1 : sent[q + 1].sum = ByteXor(sent[q].sum, sent[q].byte)
    /\ \A q \in 1 .. Len(sent) :
         /\ sent[q].role = "head"  => sent[q].sum = Flag
         /\ sent[q].role = "check" => sent[q].sum = sent[q].byte
         /\ sent[q].role = "tail"  => q > 1 /\ sent[q - 1].role = "check"

\* The check byte of the message is the sum that the frame arrives at.
Building ==
    /\ Len(Gfcs) >= 1 /\ Gfcs[1] = 0 /\ Len(Gfcs) <= Len(Original_info) + 1
    /\ \A k \in 1 .. Len(Gfcs) - 1 : Gfcs[k + 1] = ByteXor(Gfcs[k], Original_info[k])
    /\ txPc = "sum" => Len(Gfcs) = lencnt + 1
    /\ txPc = "encode" =>
         /\ Len(Gfcs) = Len(Original_info) /\ sent # <<>>
         /\ Original_info[Len(Original_info)] = Gfcs[Len(Gfcs)]
         /\ NextSum = IF lencnt < Len(Gfcs) THEN Gfcs[lencnt + 1] ELSE 0
         /\ lencnt = Len(Gfcs) => sent[Len(sent)].role = "check"
    /\ txPc # "encode" => sent = <<>> \/ (sent[Len(sent)].role = "tail" /\ NextSum = Flag)

SenderInv == SenderTypes /\ NetTypes /\ Layout /\ Summing /\ Building

-----------------------------------------------------------------------------
(* A line of whole frames                                                  *)

\* The line is the bytes from first to last.
Whole ==
    /\ first \in 0 .. Len(sent) /\ last \in 0 .. Len(sent)
    /\ first # 0 =>
         /\ last # 0 /\ first < last
         /\ sent[first].role = "head" /\ sent[last].role = "tail"
         /\ sent[last].at = taken
         /\ rxPc # "idle" => UDP_hexRx_len = taken - sent[first].at + 1

\* The beginning of the buffer holds what was sent.
Same(n) == \A i \in 0 .. n - 1 : UDP_HEX_Rx[i] = sent[first + i].byte

\* What has been unescaped is what was sent, and the rest of the line is still
\* as it came.
Unescaped ==
    first # 0 /\ rxPc = "decode" =>
      /\ first + UDP_DecodeHex_Len <= last + 1
      /\ index = (IF first + UDP_DecodeHex_Len <= last
                    THEN sent[first + UDP_DecodeHex_Len].at ELSE taken + 1)
                 - sent[first].at
      /\ Same(UDP_DecodeHex_Len)
      /\ \A i \in index .. UDP_hexRx_len - 1 : UDP_HEX_Rx[i] = wire[sent[first].at + i]

Summed ==
    first # 0 /\ rxPc = "sum" =>
      /\ UDP_DecodeHex_Len = last - first + 1 /\ Same(UDP_DecodeHex_Len)
      /\ index <= UDP_DecodeHex_Len - 3 /\ FCS_RX_UDP = sent[first + 1 + index].sum

ReceiverInv == ReceiverTypes /\ Whole /\ Unescaped /\ Summed /\ FirstFrameHandled

CodecInv == SenderInv /\ ReceiverInv

-----------------------------------------------------------------------------
(* The operators                                                           *)

LEMMA XorType == ASSUME NEW a, NEW b PROVE ByteXor(a, b) \in Byte
<1>0. \A p : BitXor(a, b, p) \in {0, p}
  BY Zenon DEF BitXor
<1>1. /\ BitXor(a, b, 1) \in {0, 1} /\ BitXor(a, b, 2) \in {0, 2}
      /\ BitXor(a, b, 4) \in {0, 4} /\ BitXor(a, b, 8) \in {0, 8}
      /\ BitXor(a, b, 16) \in {0, 16} /\ BitXor(a, b, 32) \in {0, 32}
      /\ BitXor(a, b, 64) \in {0, 64} /\ BitXor(a, b, 128) \in {0, 128}
  BY <1>0
<1> QED BY <1>1 DEF ByteXor, Byte

\* A byte cancels itself.
LEMMA XorSame == ASSUME NEW a PROVE ByteXor(a, a) = 0
<1>1. \A p : BitXor(a, a, p) = 0
  BY DEF BitXor
<1> QED BY <1>1 DEF ByteXor

LEMMA XorFlag == ByteXor(0, Flag) = Flag
<1>1. /\ BitXor(0, 126, 1) = 0 /\ BitXor(0, 126, 2) = 2
      /\ BitXor(0, 126, 4) = 4 /\ BitXor(0, 126, 8) = 8
  BY DEF BitXor
<1>2. /\ BitXor(0, 126, 16) = 16 /\ BitXor(0, 126, 32) = 32
      /\ BitXor(0, 126, 64) = 64 /\ BitXor(0, 126, 128) = 0
  BY DEF BitXor
<1> QED BY <1>1, <1>2 DEF ByteXor, Flag

LEMMA HexDigits ==
    ASSUME NEW n \in 0 .. 15
    PROVE  HexValue(HexChar(n)) = n
BY DEF HexValue, HexChar

\* A byte survives the way through its two digits.
LEMMA HexByte ==
    ASSUME NEW b \in Byte
    PROVE  /\ HexValue(HexChar(b \div 16)) = b \div 16
           /\ HexValue(HexChar(b % 16)) = b % 16 /\ b % 16 # 255
           /\ ((b \div 16) * 16 + (b % 16)) % 256 = b
<1>1. b \div 16 \in 0 .. 15 /\ b % 16 \in 0 .. 15 /\ (b \div 16) * 16 + (b % 16) = b
  BY DEF Byte
<1>2. b % 256 = b
  BY DEF Byte
<1> QED BY <1>1, <1>2, HexDigits

LEMMA CardUpTo == ASSUME NEW k \in Nat PROVE Cardinality(1 .. k) = k
<1>1. 1 \in Int /\ k \in Int
  OBVIOUS
<1>2. Cardinality(1 .. k) = IF 1 > k THEN 0 ELSE k - 1 + 1
  BY <1>1, FS_Interval, Zenon
<1> QED BY <1>2

\* The modem's text is turned back into the bytes it was made of.
LEMMA HexRoundTrip ==
    ASSUME NEW s \in Seq(Byte)
    PROVE  GSM_AsciitoHEX_Convert(GSM_HextoAscii_Convert(s)) = s
<1> DEFINE text == GSM_HextoAscii_Convert(s)
           n == Len(s)
           pairs == {k \in 1 .. Len(text) \div 2 : HexValue(text[2 * k]) # 255}
           pair(j) == CHOOSE k \in pairs : Cardinality({i \in pairs : i <= k}) = j
           value(k) == (HexValue(text[2 * k - 1]) * 16 + HexValue(text[2 * k])) % 256
<1>1. n \in Nat /\ \A k \in 1 .. n : s[k] \in Byte
  BY ElementOfSeq, LenProperties
<1>2. Len(text) = 2 * n /\ Len(text) \div 2 = n
  BY <1>1 DEF GSM_HextoAscii_Convert
<1>3. ASSUME NEW k \in 1 .. n
      PROVE  /\ text[2 * k - 1] = HexChar(s[k] \div 16)
             /\ text[2 * k] = HexChar(s[k] % 16)
  <2>1. /\ 2 * k - 1 \in 1 .. 2 * n /\ (2 * k - 1) % 2 = 1 /\ ((2 * k - 1) + 1) \div 2 = k
        /\ 2 * k \in 1 .. 2 * n /\ (2 * k) % 2 # 1 /\ (2 * k) \div 2 = k
    BY <1>1
  <2> QED BY <2>1 DEF GSM_HextoAscii_Convert
<1>4. \A k \in 1 .. n : value(k) = s[k] /\ HexValue(text[2 * k]) # 255
  BY <1>1, <1>3, HexByte
<1>5. pairs = 1 .. n
  BY <1>2, <1>4
<1> HIDE DEF pairs
<1>6. \A k \in 1 .. n : Cardinality({i \in pairs : i <= k}) = k
  <2> TAKE k \in 1 .. n
  <2>1. {i \in pairs : i <= k} = 1 .. k
    BY <1>1, <1>5
  <2>2. k \in Nat
    BY <1>1
  <2>3. Cardinality(1 .. k) = k
    BY <2>2, CardUpTo
  <2> QED BY <2>1, <2>3, Zenon
<1>7. \A j \in 1 .. n : pair(j) = j
  BY <1>5, <1>6
<1>8. Cardinality(pairs) = n
  BY <1>1, <1>5, CardUpTo
<1> HIDE DEF pair, value, text
<1>9. [j \in 1 .. Cardinality(pairs) |-> value(pair(j))] = s
  BY <1>1, <1>4, <1>7, <1>8, LenProperties
<1> QED BY <1>9 DEF GSM_AsciitoHEX_Convert, pairs, pair, value, text

-----------------------------------------------------------------------------
(* The sender                                                              *)

\* Frames are only added to.
Grown ==
    /\ Len(sent) <= Len(sent') /\ Len(wire) <= Len(wire')
    /\ \A q \in 1 .. Len(sent) : sent'[q] = sent[q]
    /\ \A p \in 1 .. Len(wire) : wire'[p] = wire[p]

LEMMA NextSumType == ASSUME NetTypes PROVE NextSum \in Byte
<1>1. Flag \in Byte
  BY DEF Flag, Byte
<1> QED BY <1>1, XorType, Zenon DEF NextSum

\* A byte that is put into the frame.
New(b, role) == [byte |-> b, role |-> role, at |-> Len(wire) + 1, sum |-> NextSum]

LEMMA PutTypes ==
    ASSUME NetTypes, NEW b \in Byte, NEW role \in Roles, NEW bytes \in Seq(Byte),
           Put(b, role, bytes)
    PROVE  /\ wire' \in Seq(Byte) /\ sent' \in Seq(Record) /\ Grown
           /\ Len(sent') = Len(sent) + 1 /\ sent'[Len(sent) + 1] = New(b, role)
           /\ Len(wire') = Len(wire) + Len(bytes)
           /\ \A i \in 1 .. Len(bytes) : wire'[Len(wire) + i] = bytes[i]
<1> DEFINE r == New(b, role)
<1>1. wire \in Seq(Byte) /\ sent \in Seq(Record) /\ Len(wire) \in Nat /\ Len(sent) \in Nat
  BY DEF NetTypes
<1>2. r \in Record
  BY <1>1, NextSumType DEF New, Record
<1>3. wire' = wire \o bytes /\ sent' = Append(sent, r)
  BY DEF Put, New
<1> HIDE DEF r
<1>4. /\ sent' \in Seq(Record) /\ Len(sent') = Len(sent) + 1
      /\ \A q \in 1 .. Len(sent) : sent'[q] = sent[q]
      /\ sent'[Len(sent) + 1] = r
  BY <1>1, <1>2, <1>3, AppendProperties
<1>5. /\ wire' \in Seq(Byte) /\ Len(wire') = Len(wire) + Len(bytes)
      /\ \A p \in 1 .. Len(wire) : wire'[p] = wire[p]
      /\ \A i \in 1 .. Len(bytes) : wire'[Len(wire) + i] = bytes[i]
  BY <1>1, <1>3, ConcatProperties
<1> QED BY <1>1, <1>4, <1>5 DEF Grown, r

\* A byte of a message, escaped where it has to be, or a flag.
Coded(b, role) == IF role \in Marks THEN <<b>> ELSE Escape(b)

LEMMA CodedBytes ==
    ASSUME NEW b \in Byte, NEW role \in Roles
    PROVE  /\ Coded(b, role) \in Seq(Byte)
           /\ Len(Coded(b, role)) = Width(New(b, role))
           /\ Coded(b, role)[1] = IF Width(New(b, role)) = 2 THEN EscByte ELSE b
           /\ Width(New(b, role)) = 2 => Coded(b, role)[2] = b - 124
<1>1. CASE role \in Marks \/ b \notin {Flag, EscByte}
  <2>1. Coded(b, role) = <<b>> /\ Width(New(b, role)) = 1
    BY <1>1 DEF Coded, Escape, Width, New
  <2> QED BY <2>1
<1>2. CASE role \notin Marks /\ b \in {Flag, EscByte}
  <2>1. Coded(b, role) = <<EscByte, b - 124>> /\ Width(New(b, role)) = 2
    BY <1>2 DEF Coded, Escape, Width, New, Flag, EscByte
  <2> QED BY <1>2, <2>1 DEF Flag, EscByte, Byte
<1> QED BY <1>1, <1>2

LEMMA WidthIs == ASSUME NEW r PROVE Width(r) \in {1, 2} /\ Behind(r) = r.at + Width(r)
BY DEF Width, Behind

\* Where the bytes of sent are.
LEMMA Places ==
    ASSUME NetTypes, Layout, NEW q \in 1 .. Len(sent)
    PROVE  /\ sent[q] \in Record /\ sent[q].at \in 1 .. Len(wire)
           /\ Width(sent[q]) = 2 => sent[q].at + 1 \in 1 .. Len(wire)
           /\ Behind(sent[q]) \in Nat /\ Behind(sent[q]) <= Len(wire) + 1
           /\ Behind(sent[q]) = sent[q].at + Width(sent[q])
<1>1. sent[q] \in Record /\ Len(wire) \in Nat
  BY ElementOfSeq DEF NetTypes
<1>2. sent[q].at \in Nat
  BY <1>1 DEF Record
<1>3. sent[q].at >= 1 /\ Behind(sent[q]) <= Len(wire) + 1
  BY DEF Layout, Placed
<1>4. Width(sent[q]) \in {1, 2} /\ Behind(sent[q]) = sent[q].at + Width(sent[q])
  BY WidthIs
<1> DEFINE p == sent[q].at
           w == Width(sent[q])
           n == Len(wire)
<1>5. p \in Nat /\ n \in Nat /\ w \in {1, 2} /\ p >= 1 /\ p + w <= n + 1
  BY <1>1, <1>2, <1>3, <1>4
<1>6. p \in 1 .. n /\ (w = 2 => p + 1 \in 1 .. n) /\ p + w \in Nat
  <2> HIDE DEF p, w, n
  <2> QED BY <1>5
<1> QED BY <1>1, <1>3, <1>4, <1>6

LEMMA PutLayout ==
    ASSUME NetTypes, Layout, NEW b \in Byte, NEW role \in Roles,
           role \in Marks => b = Flag, Put(b, role, Coded(b, role))
    PROVE  Layout'
<1> DEFINE r == New(b, role)
           w == Width(r)
           bytes == Coded(b, role)
           n == Len(sent)
<1>1. /\ wire' \in Seq(Byte) /\ sent' \in Seq(Record) /\ Grown
      /\ Len(sent') = n + 1 /\ sent'[n + 1] = r
      /\ Len(wire') = Len(wire) + w
      /\ \A i \in 1 .. w : wire'[Len(wire) + i] = bytes[i]
  BY PutTypes, CodedBytes
<1>2. /\ Len(wire) \in Nat /\ n \in Nat /\ w \in {1, 2}
      /\ r.at = Len(wire) + 1 /\ r.byte = b /\ r.role = role
      /\ Behind(r) = Len(wire) + 1 + w
  BY DEF NetTypes, Width, New, Behind
<1>3. \A q \in 1 .. n :
        /\ sent[q].at \in 1 .. Len(wire)
        /\ Width(sent[q]) = 2 => sent[q].at + 1 \in 1 .. Len(wire)
        /\ Behind(sent[q]) \in Nat /\ Behind(sent[q]) <= Len(wire) + 1
  BY Places
<1>4. \A q \in 1 .. n : Placed(sent'[q], wire')
  <2> SUFFICES ASSUME NEW q \in 1 .. n PROVE Placed(sent[q], wire')
    BY <1>1 DEF Grown
  <2>1. Placed(sent[q], wire)
    BY DEF Layout
  <2>2. wire'[sent[q].at] = wire[sent[q].at]
    BY <1>1, <1>3 DEF Grown
  <2>3. Width(sent[q]) = 2 => wire'[sent[q].at + 1] = wire[sent[q].at + 1]
    BY <1>1, <1>3 DEF Grown
  <2>4. Behind(sent[q]) <= Len(wire') + 1
    <3>1. Behind(sent[q]) \in Nat /\ Behind(sent[q]) <= Len(wire) + 1
      BY <1>3
    <3>2. Len(wire) \in Nat /\ Len(wire') \in Nat /\ Len(wire) <= Len(wire')
      BY <1>1, <1>2 DEF Grown
    <3> QED BY <3>1, <3>2
  <2> QED BY <2>1, <2>2, <2>3, <2>4, Zenon DEF Placed
<1>5. Placed(r, wire')
  <2>1. wire'[r.at] = bytes[1] /\ (w = 2 => wire'[r.at + 1] = bytes[2])
    BY <1>1, <1>2
  <2> HIDE DEF r, bytes, w
  <2>2. bytes[1] = (IF w = 2 THEN EscByte ELSE b) /\ (w = 2 => bytes[2] = b - 124)
    BY CodedBytes DEF r, bytes, w
  <2> QED BY <1>1, <1>2, <2>1, <2>2 DEF Placed, w
<1> HIDE DEF r, w, bytes
<1>6. \A q \in 1 .. n : sent'[q] = sent[q]
  BY <1>1 DEF Grown
<1>7. \A q \in 1 .. n + 1 : Placed(sent'[q], wire')
  BY <1>1, <1>2, <1>4, <1>5
<1>8. \A q, k \in 1 .. n + 1 : q < k => Behind(sent'[q]) <= sent'[k].at
  <2> SUFFICES ASSUME NEW q \in 1 .. n + 1, NEW k \in 1 .. n + 1, q < k
               PROVE  Behind(sent'[q]) <= sent'[k].at
    OBVIOUS
  <2>1. CASE k = n + 1
    <3>1. q \in 1 .. n /\ sent'[k].at = Len(wire) + 1
      BY <1>1, <1>2, <2>1
    <3> QED BY <1>3, <1>6, <3>1
  <2>2. CASE k # n + 1
    <3>1. q \in 1 .. n /\ k \in 1 .. n
      BY <1>2, <2>2
    <3> QED BY <1>6, <3>1 DEF Layout
  <2> QED BY <2>1, <2>2
<1>9. \A q \in 1 .. n : sent'[q + 1].at = Behind(sent'[q])
  <2> TAKE q \in 1 .. n
  <2>1. CASE q = n
    <3>1. sent # <<>>
      BY <1>2, <2>1
    <3> QED BY <1>1, <1>2, <1>6, <2>1, <3>1 DEF Layout
  <2>2. CASE q # n
    BY <1>2, <1>6, <2>2 DEF Layout
  <2> QED BY <2>1, <2>2
<1>10. ASSUME NEW p \in 1 .. Len(wire')
       PROVE  \E q \in 1 .. n + 1 :
                sent'[q].at = p \/ (Width(sent'[q]) = 2 /\ sent'[q].at + 1 = p)
  <2>1. CASE p <= Len(wire)
    <3>1. PICK q \in 1 .. n :
            sent[q].at = p \/ (Width(sent[q]) = 2 /\ sent[q].at + 1 = p)
      BY <1>2, <2>1 DEF Layout
    <3> QED BY <1>2, <1>6, <3>1
  <2>2. CASE p > Len(wire)
    <3>1. p = Len(wire) + 1 \/ (w = 2 /\ p = Len(wire) + 2)
      BY <1>1, <1>2, <2>2
    <3> QED BY <1>1, <1>2, <3>1 DEF w
  <2> QED BY <1>2, <2>1, <2>2
<1>11. sent' # <<>> /\ Len(wire') + 1 = Behind(sent'[n + 1])
  BY <1>1, <1>2
<1> QED BY <1>1, <1>2, <1>7, <1>8, <1>9, <1>10, <1>11 DEF Layout

LEMMA PutSumming ==
    ASSUME NetTypes, Summing, NEW b \in Byte, NEW role \in Roles, NEW bytes \in Seq(Byte),
           Put(b, role, bytes),
           role = "head" => NextSum = Flag,
           role = "check" => NextSum = b,
           role = "tail" => sent # <<>> /\ sent[Len(sent)].role = "check"
    PROVE  Summing' /\ NextSum' = ByteXor(NextSum, b)
<1> DEFINE n == Len(sent)
<1>1. /\ Len(sent') = n + 1 /\ sent'[n + 1] = New(b, role) /\ sent' # <<>>
      /\ \A q \in 1 .. n : sent'[q] = sent[q]
  BY PutTypes DEF Grown, NetTypes
<1>2. /\ n \in Nat /\ New(b, role).sum = NextSum /\ New(b, role).byte = b
      /\ New(b, role).role = role
  BY DEF NetTypes, New
<1>3. NextSum' = ByteXor(NextSum, b)
  BY <1>1, <1>2 DEF NextSum
<1>4. \A q \in 1 .. n : sent'[q + 1].sum = ByteXor(sent'[q].sum, sent'[q].byte)
  <2> TAKE q \in 1 .. n
  <2>1. CASE q = n
    <3>1. sent # <<>>
      BY <1>2, <2>1
    <3> QED BY <1>1, <1>2, <2>1, <3>1 DEF NextSum
  <2>2. CASE q # n
    <3>1. q \in 1 .. n - 1 /\ q + 1 \in 1 .. n
      BY <1>2, <2>2
    <3> QED BY <1>1, <3>1 DEF Summing
  <2> QED BY <2>1, <2>2
<1>5. ASSUME NEW q \in 1 .. n + 1
      PROVE  /\ sent'[q].role = "head"  => sent'[q].sum = Flag
             /\ sent'[q].role = "check" => sent'[q].sum = sent'[q].byte
             /\ sent'[q].role = "tail"  => q > 1 /\ sent'[q - 1].role = "check"
  <2>1. CASE q = n + 1
    <3>1. role = "tail" => n \in 1 .. n /\ q - 1 = n
      BY <1>2, <2>1 DEF NetTypes
    <3> QED BY <1>1, <1>2, <2>1, <3>1
  <2>2. CASE q # n + 1
    <3>1. q \in 1 .. n /\ (q > 1 => q - 1 \in 1 .. n)
      BY <1>2, <2>2
    <3> QED BY <1>1, <3>1 DEF Summing
  <2> QED BY <2>1, <2>2
<1> QED BY <1>1, <1>2, <1>3, <1>4, <1>5 DEF Summing

\* The bytes of the loops.
LEMMA MessageTypes == \A m \in Messages : m \in Seq(Byte)
<1> SUFFICES ASSUME NEW k \in 1 .. MaxMessage, NEW m \in [1 .. k -> Bytes]
             PROVE  m \in Seq(Byte)
  BY DEF Messages
<1>1. MaxMessage \in Nat /\ Bytes \subseteq Byte
  BY CodecAssumption DEF Byte
<1>2. k \in Nat
  BY <1>1
<1> HIDE DEF Byte
<1>3. m \in [1 .. k -> Byte]
  BY <1>1, Zenon
<1>4. m \in UNION {[1 .. n -> Byte] : n \in Nat}
  BY <1>2, <1>3, Zenon
<1>5. Seq(Byte) = UNION {[1 .. n -> Byte] : n \in Nat}
  BY SeqDef, Zenon
<1> QED BY <1>4, <1>5, Zenon

LEMMA SenderInit == Init => SenderInv
<1> SUFFICES ASSUME Init PROVE SenderInv
  OBVIOUS
<1>1. SenderTypes
  BY CodecAssumption DEF Init, SenderTypes, Byte
<1>2. NetTypes
  BY DEF Init, NetTypes
<1>3. Layout /\ Summing
  BY DEF Init, Layout, Summing
<1>4. Building
  BY DEF Init, Building
<1> QED BY <1>1, <1>2, <1>3, <1>4 DEF SenderInv

LEMMA NetKept ==
    ASSUME NetTypes, Layout, Summing, UNCHANGED <<netVars, taken>>
    PROVE  NetTypes' /\ Layout' /\ Summing' /\ NextSum' = NextSum /\ Grown
<1>1. UNCHANGED <<wire, sent, posted, taken>>
  BY DEF netVars
<1>2. NetTypes' /\ Grown
  BY <1>1 DEF NetTypes, Grown
<1>3. Layout'
  BY <1>1 DEF Layout
<1>4. Summing' /\ NextSum' = NextSum
  BY <1>1 DEF Summing, NextSum
<1> QED BY <1>2, <1>3, <1>4

LEMMA BeginKeeps ==
    ASSUME SenderInv, NEW m \in Messages, Protocol_End(m)
    PROVE  SenderInv' /\ Grown
<1>1. NetTypes' /\ Layout' /\ Summing' /\ NextSum' = NextSum /\ Grown
  BY NetKept DEF Protocol_End, SenderInv, rxVars
<1>2. m \in Seq(Byte) /\ Len(m) \in Nat
  BY MessageTypes, LenProperties
<1>3. /\ Original_info' = m /\ Gfcs' = <<0>> /\ lencnt' = 0 /\ txPc' = "sum"
      /\ frames' \in 0 .. MaxFrames /\ txPc = "idle" /\ sent' = sent
  BY CodecAssumption DEF Protocol_End, SenderInv, SenderTypes, netVars
<1>4. SenderTypes'
  BY <1>2, <1>3 DEF SenderTypes, Byte
<1>5. Building'
  <2>1. Len(Gfcs') = 1 /\ Gfcs'[1] = 0
    BY <1>3
  <2> QED BY <1>1, <1>2, <1>3, <2>1 DEF Building, SenderInv
<1> QED BY <1>1, <1>4, <1>5 DEF SenderInv

LEMMA SumKeeps ==
    ASSUME SenderInv, SumByte
    PROVE  SenderInv' /\ Grown
<1> DEFINE n == Len(Gfcs)
           b == ByteXor(Gfcs[n], Original_info[lencnt + 1])
<1>1. NetTypes' /\ Layout' /\ Summing' /\ NextSum' = NextSum /\ Grown
  BY NetKept DEF SumByte, SenderInv, rxVars
<1>2. /\ txPc = "sum" /\ txPc' = "sum" /\ Original_info' = Original_info
      /\ Gfcs' = Append(Gfcs, b) /\ lencnt' = lencnt + 1 /\ frames' = frames
      /\ lencnt < Len(Original_info) /\ sent' = sent
  BY DEF SumByte, netVars
<1>3. /\ Original_info \in Seq(Byte) /\ Gfcs \in Seq(Byte) /\ lencnt \in Nat
      /\ Len(Original_info) \in Nat /\ n \in Nat /\ n = lencnt + 1 /\ b \in Byte
  BY <1>2, XorType DEF SenderInv, SenderTypes, Building
<1> HIDE DEF b
<1>4. /\ Gfcs' \in Seq(Byte) /\ Len(Gfcs') = n + 1 /\ Gfcs'[n + 1] = b
      /\ \A k \in 1 .. n : Gfcs'[k] = Gfcs[k]
  BY <1>2, <1>3, AppendProperties
<1>5. SenderTypes'
  BY <1>2, <1>3, <1>4 DEF SenderTypes, SenderInv
<1>6. \A k \in 1 .. n : Gfcs'[k + 1] = ByteXor(Gfcs'[k], Original_info[k])
  <2> TAKE k \in 1 .. n
  <2>1. CASE k = n
    BY <1>3, <1>4, <2>1 DEF b
  <2>2. CASE k # n
    <3>1. k \in 1 .. n - 1 /\ k + 1 \in 1 .. n
      BY <1>3, <2>2
    <3> QED BY <1>4, <3>1 DEF SenderInv, Building
  <2> QED BY <2>1, <2>2
<1>7. Building'
  <2>1. 1 \in 1 .. n /\ Len(Gfcs') - 1 = n /\ n + 1 <= Len(Original_info) + 1
    BY <1>2, <1>3, <1>4
  <2> QED BY <1>1, <1>2, <1>3, <1>4, <1>6, <2>1 DEF Building, SenderInv
<1> QED BY <1>1, <1>5, <1>7 DEF SenderInv

LEMMA StartKeeps ==
    ASSUME SenderInv, StartFlag
    PROVE  SenderInv' /\ Grown
<1> DEFINE O == Original_info
           n == Len(Gfcs)
<1>1. /\ txPc = "sum" /\ lencnt >= Len(O) /\ O' = Append(O, Gfcs[n]) /\ lencnt' = 0
      /\ txPc' = "encode" /\ Gfcs' = Gfcs /\ frames' = frames
      /\ Put(Flag, "head", <<Flag>>) /\ posted' = posted /\ taken' = taken
  BY DEF StartFlag, rxVars
<1>2. /\ O \in Seq(Byte) /\ Len(O) \in Nat /\ Gfcs \in Seq(Byte)
      /\ lencnt = Len(O) /\ n = Len(O) + 1 /\ n \in 1 .. n /\ Gfcs[n] \in Byte
  BY <1>1 DEF SenderInv, SenderTypes, Building
<1>3. /\ O' \in Seq(Byte) /\ Len(O') = n /\ O'[n] = Gfcs[n]
      /\ \A k \in 1 .. n - 1 : O'[k] = O[k]
  BY <1>1, <1>2, AppendProperties
<1>4. Flag \in Byte /\ "head" \in Roles /\ <<Flag>> \in Seq(Byte) /\ <<Flag>> = Coded(Flag, "head")
  BY DEF Flag, Byte, Roles, Coded, Marks
<1>5. NextSum = Flag
  BY <1>1 DEF SenderInv, Building, NextSum
<1>6. /\ wire' \in Seq(Byte) /\ sent' \in Seq(Record) /\ Grown
      /\ Len(sent') = Len(sent) + 1 /\ Len(wire') >= Len(wire)
  BY <1>1, <1>4, PutTypes DEF SenderInv, Grown, NetTypes
<1>7. Summing' /\ NextSum' = 0
  BY <1>1, <1>4, <1>5, PutSumming, XorSame DEF SenderInv
<1>8. Layout'
  BY <1>1, <1>4, PutLayout DEF SenderInv
<1>9. NetTypes'
  BY <1>1, <1>6 DEF SenderInv, NetTypes
<1>10. SenderTypes'
  BY <1>1, <1>2, <1>3 DEF SenderInv, SenderTypes
<1>11. sent' # <<>>
  BY <1>6 DEF SenderInv, NetTypes
<1>12. Building'
  BY <1>1, <1>2, <1>3, <1>7, <1>11 DEF SenderInv, Building
<1> QED BY <1>6, <1>7, <1>8, <1>9, <1>10, <1>12 DEF SenderInv

LEMMA EncodeKeeps ==
    ASSUME SenderInv, Protocol_808_Encode
    PROVE  SenderInv' /\ Grown
<1> DEFINE O == Original_info
           n == Len(O)
           b == O[lencnt + 1]
           role == IF lencnt + 1 = n THEN "check" ELSE "body"
<1>1. /\ txPc = "encode" /\ txPc' = "encode" /\ lencnt < n /\ lencnt' = lencnt + 1
      /\ UNCHANGED <<Original_info, Gfcs, frames, posted, taken>>
      /\ Put(b, role, Escape(b))
  BY DEF Protocol_808_Encode, rxVars
<1>2. /\ O \in Seq(Byte) /\ n \in Nat /\ lencnt \in Nat /\ lencnt + 1 \in 1 .. n /\ b \in Byte
      /\ Len(Gfcs) = n /\ O[n] = Gfcs[n] /\ NextSum = Gfcs[lencnt + 1]
  BY <1>1 DEF SenderInv, SenderTypes, Building
<1>3. role \in Roles /\ role \notin Marks /\ Escape(b) = Coded(b, role)
  BY DEF Roles, Marks, Coded
<1>4. Escape(b) \in Seq(Byte)
  BY <1>2, <1>3, CodedBytes
<1>5. /\ wire' \in Seq(Byte) /\ sent' \in Seq(Record) /\ Grown /\ Len(wire') >= Len(wire)
      /\ Len(sent') = Len(sent) + 1 /\ sent'[Len(sent) + 1].role = role
  <2> HIDE DEF role, b
  <2>1. /\ wire' \in Seq(Byte) /\ sent' \in Seq(Record) /\ Grown
        /\ Len(sent') = Len(sent) + 1 /\ sent'[Len(sent) + 1] = New(b, role)
    BY <1>1, <1>2, <1>3, <1>4, PutTypes DEF SenderInv
  <2>2. New(b, role).role = role
    BY DEF New
  <2>3. Len(wire) \in Nat /\ Len(wire') \in Nat
    BY <2>1 DEF SenderInv, NetTypes
  <2> QED BY <2>1, <2>2, <2>3 DEF Grown
<1>6. role = "check" => NextSum = b
  BY <1>2
<1>7. Summing' /\ NextSum' = ByteXor(NextSum, b)
  <2>1. role # "head" /\ role # "tail"
    BY <1>3 DEF Marks
  <2> HIDE DEF role, b
  <2> QED BY <1>1, <1>2, <1>3, <1>4, <1>6, <2>1, PutSumming DEF SenderInv
<1>8. Layout'
  <2> HIDE DEF role, b
  <2> QED BY <1>1, <1>2, <1>3, PutLayout DEF SenderInv
<1>9. NetTypes' /\ sent' # <<>>
  BY <1>1, <1>5 DEF SenderInv, NetTypes
<1>10. SenderTypes'
  BY <1>1, <1>2 DEF SenderInv, SenderTypes
<1>11. NextSum' = IF lencnt' < n THEN Gfcs[lencnt' + 1] ELSE 0
  <2>1. CASE lencnt + 1 = n
    BY <1>1, <1>2, <1>7, <2>1, XorSame
  <2>2. CASE lencnt + 1 # n
    <3>1. lencnt + 1 \in 1 .. n - 1 /\ lencnt' + 1 = (lencnt + 1) + 1 /\ lencnt' < n
      BY <1>1, <1>2, <2>2
    <3> HIDE DEF n
    <3>2. Gfcs[(lencnt + 1) + 1] = ByteXor(Gfcs[lencnt + 1], O[lencnt + 1])
      BY <1>2, <3>1 DEF SenderInv, Building
    <3> QED BY <1>2, <1>7, <3>1, <3>2
  <2> QED BY <2>1, <2>2
<1>12. lencnt' = n => sent'[Len(sent')].role = "check"
  BY <1>1, <1>5
<1>13. Building'
  <2>1. txPc' = "encode" /\ Original_info' = Original_info /\ Gfcs' = Gfcs
    BY <1>1
  <2> HIDE DEF n, O
  <2> QED BY <1>2, <1>9, <1>11, <1>12, <2>1 DEF SenderInv, Building, n, O
<1> QED BY <1>5, <1>7, <1>8, <1>9, <1>10, <1>13 DEF SenderInv

LEMMA EndKeeps ==
    ASSUME SenderInv, EndFlag
    PROVE  SenderInv' /\ Grown
<1>1. /\ txPc = "encode" /\ txPc' = "idle" /\ lencnt >= Len(Original_info)
      /\ UNCHANGED <<Original_info, lencnt, Gfcs, frames, taken>>
      /\ Put(Flag, "tail", <<Flag>>) /\ posted' = Len(wire')
  BY DEF EndFlag, rxVars
<1>2. /\ lencnt = Len(Gfcs) /\ NextSum = 0 /\ sent # <<>> /\ sent[Len(sent)].role = "check"
  BY <1>1 DEF SenderInv, SenderTypes, Building
<1>3. Flag \in Byte /\ "tail" \in Roles /\ <<Flag>> \in Seq(Byte) /\ <<Flag>> = Coded(Flag, "tail")
  BY DEF Flag, Byte, Roles, Coded, Marks
<1>4. /\ wire' \in Seq(Byte) /\ sent' \in Seq(Record) /\ Grown /\ Len(wire') >= Len(wire)
      /\ Len(sent') = Len(sent) + 1 /\ sent'[Len(sent) + 1].role = "tail"
  <2>1. /\ wire' \in Seq(Byte) /\ sent' \in Seq(Record) /\ Grown
        /\ Len(sent') = Len(sent) + 1 /\ sent'[Len(sent) + 1] = New(Flag, "tail")
    BY <1>1, <1>3, PutTypes DEF SenderInv
  <2>2. New(Flag, "tail").role = "tail"
    BY DEF New
  <2>3. Len(wire) \in Nat /\ Len(wire') \in Nat
    BY <2>1 DEF SenderInv, NetTypes
  <2> QED BY <2>1, <2>2, <2>3 DEF Grown
<1>5. Summing' /\ NextSum' = Flag
  BY <1>1, <1>2, <1>3, PutSumming, XorFlag DEF SenderInv
<1>6. Layout'
  BY <1>1, <1>3, PutLayout DEF SenderInv
<1>7. NetTypes'
  BY <1>1, <1>4 DEF SenderInv, NetTypes
<1>8. SenderTypes'
  BY <1>1 DEF SenderInv, SenderTypes
<1>9. Building'
  BY <1>1, <1>4, <1>5 DEF SenderInv, Building
<1> QED BY <1>4, <1>5, <1>6, <1>7, <1>8, <1>9 DEF SenderInv

\* The steps of the sender; they leave the receiver alone.
LEMMA SenderKeeps ==
    ASSUME SenderInv, SenderStep
    PROVE  SenderInv' /\ Grown /\ UNCHANGED rxVars
<1>1. SenderInv' /\ Grown
  BY BeginKeeps, SumKeeps, StartKeeps, EncodeKeeps, EndKeeps DEF SenderStep
<1>2. UNCHANGED rxVars
  BY DEF SenderStep, Protocol_End, SumByte, StartFlag, Protocol_808_Encode, EndFlag
<1> QED BY <1>1, <1>2

-----------------------------------------------------------------------------
(* The receiver                                                            *)

LEMMA ReceiverInit == Init => ReceiverInv
<1> SUFFICES ASSUME Init PROVE ReceiverInv
  OBVIOUS
<1>1. ReceiverTypes
  BY CodecAssumption DEF Init, ReceiverTypes, Byte
<1>2. Whole /\ Unescaped /\ Summed /\ FirstFrameHandled
  BY DEF Init, Whole, Unescaped, Summed, FirstFrameHandled
<1> QED BY <1>1, <1>2 DEF ReceiverInv

\* Where the bytes of the line are.
LEMMA LinePlaces ==
    ASSUME SenderInv, ReceiverInv, first # 0
    PROVE  /\ first \in 1 .. Len(sent) /\ last \in 1 .. Len(sent) /\ first < last
           /\ Len(sent) \in Nat /\ Len(wire) \in Nat /\ taken \in Nat /\ taken <= Len(wire)
           /\ sent[first].at \in Nat /\ sent[first].at >= 1 /\ sent[last].at = taken
           /\ sent[first].role = "head" /\ sent[last].role = "tail"
           /\ rxPc # "idle" => UDP_hexRx_len = taken - sent[first].at + 1
<1>1. /\ first \in 1 .. Len(sent) /\ last \in 1 .. Len(sent) /\ first < last
      /\ Len(sent) \in Nat /\ Len(wire) \in Nat /\ taken \in Nat /\ taken <= Len(wire)
  BY DEF ReceiverInv, Whole, SenderInv, NetTypes
<1>2. sent[first].at \in Nat /\ sent[first].at >= 1
  BY <1>1, Places DEF SenderInv
<1> QED BY <1>1, <1>2 DEF ReceiverInv, Whole

\* New frames do not matter to a line that has been delivered.
LEMMA FramesAdded ==
    ASSUME SenderInv, ReceiverInv, Grown, SenderInv', UNCHANGED rxVars
    PROVE  ReceiverInv'
<1>1. UNCHANGED <<taken, rxPc, UDP_HEX_Rx, UDP_hexRx_len, index, UDP_DecodeHex_Len,
                  FCS_RX_UDP, first, last, result>>
  BY DEF rxVars
<1>2. ReceiverTypes'
  BY <1>1 DEF ReceiverInv, ReceiverTypes
<1>3. CASE first = 0
  <2>1. Len(sent) \in Nat /\ Len(sent') \in Nat /\ Len(sent) <= Len(sent')
    BY DEF SenderInv, NetTypes, Grown
  <2>2. Whole'
    BY <1>1, <1>3, <2>1 DEF ReceiverInv, Whole
  <2>3. Unescaped' /\ Summed' /\ FirstFrameHandled'
    BY <1>1, <1>3 DEF Unescaped, Summed, FirstFrameHandled
  <2> QED BY <1>2, <2>2, <2>3 DEF ReceiverInv
<1>4. CASE first # 0
  <2>1. /\ first \in 1 .. Len(sent) /\ last \in 1 .. Len(sent) /\ first < last
        /\ Len(sent) \in Nat /\ Len(wire) \in Nat /\ taken \in Nat /\ taken <= Len(wire)
        /\ sent[first].at \in Nat /\ sent[first].at >= 1 /\ sent[last].at = taken
        /\ sent[first].role = "head" /\ sent[last].role = "tail"
        /\ rxPc # "idle" => UDP_hexRx_len = taken - sent[first].at + 1
    BY <1>4, LinePlaces
  <2>2. /\ Len(sent') \in Nat /\ Len(sent) <= Len(sent')
        /\ \A q \in 1 .. Len(sent) : sent'[q] = sent[q]
        /\ \A p \in 1 .. Len(wire) : wire'[p] = wire[p]
    BY DEF SenderInv, NetTypes, Grown
  <2>3. sent'[first] = sent[first] /\ sent'[last] = sent[last]
    BY <2>1, <2>2
  <2>4. Whole'
    BY <1>1, <2>1, <2>2, <2>3 DEF Whole
  <2>5. index \in Nat /\ UDP_DecodeHex_Len \in Nat
    BY CodecAssumption DEF ReceiverInv, ReceiverTypes
  <2>6. ASSUME rxPc = "decode" PROVE Unescaped'
    <3>1. Unescaped
      BY DEF ReceiverInv
    <3>2. /\ first + UDP_DecodeHex_Len <= last + 1
          /\ index = (IF first + UDP_DecodeHex_Len <= last
                        THEN sent[first + UDP_DecodeHex_Len].at ELSE taken + 1)
                     - sent[first].at
          /\ Same(UDP_DecodeHex_Len)
          /\ \A i \in index .. UDP_hexRx_len - 1 : UDP_HEX_Rx[i] = wire[sent[first].at + i]
      BY <1>4, <2>6, <3>1 DEF Unescaped
    <3>3. first + UDP_DecodeHex_Len <= last
            => sent'[first + UDP_DecodeHex_Len] = sent[first + UDP_DecodeHex_Len]
      <4>1. first + UDP_DecodeHex_Len <= last => first + UDP_DecodeHex_Len \in 1 .. Len(sent)
        BY <2>1, <2>5
      <4> QED BY <2>2, <4>1
    <3>4. \A i \in 0 .. UDP_DecodeHex_Len - 1 : sent'[first + i] = sent[first + i]
      <4> TAKE i \in 0 .. UDP_DecodeHex_Len - 1
      <4>1. first + UDP_DecodeHex_Len <= last + 1
        BY <3>2
      <4>2. first + i \in 1 .. Len(sent)
        BY <2>1, <2>5, <4>1
      <4> QED BY <2>2, <4>2
    <3>5. \A i \in index .. UDP_hexRx_len - 1 :
            wire'[sent[first].at + i] = wire[sent[first].at + i]
      <4> TAKE i \in index .. UDP_hexRx_len - 1
      <4> DEFINE a == sent[first].at
                 n == Len(wire)
      <4>1. /\ a \in Nat /\ a >= 1 /\ taken \in Nat /\ taken <= n /\ n \in Nat
            /\ UDP_hexRx_len = taken - a + 1 /\ index \in Nat
        BY <2>1, <2>5, <2>6
      <4> HIDE DEF a, n
      <4>2. a + i \in 1 .. n
        BY <4>1
      <4> QED BY <2>2, <4>2 DEF a, n
    <3> QED BY <1>1, <2>3, <3>2, <3>3, <3>4, <3>5 DEF Unescaped, Same
  <2>7. Unescaped'
    BY <1>1, <2>6 DEF Unescaped
  <2>8. \A i \in 0 .. last - first : sent'[first + i] = sent[first + i]
    <3>1. first \in Nat /\ first >= 1 /\ last \in Nat /\ last <= Len(sent) /\ Len(sent) \in Nat
      BY <2>1
    <3> TAKE i \in 0 .. last - first
    <3>2. first + i \in 1 .. Len(sent)
      BY <3>1
    <3> QED BY <2>2, <3>2
  <2>9. Summed'
    <3>1. Summed
      BY DEF ReceiverInv
    <3> SUFFICES ASSUME rxPc = "sum"
                 PROVE  /\ UDP_DecodeHex_Len = last - first + 1 /\ Same(UDP_DecodeHex_Len)'
                        /\ index <= UDP_DecodeHex_Len - 3
                        /\ FCS_RX_UDP = sent'[first + 1 + index].sum
      BY <1>1 DEF Summed
    <3>2. /\ UDP_DecodeHex_Len = last - first + 1 /\ Same(UDP_DecodeHex_Len)
          /\ index <= UDP_DecodeHex_Len - 3 /\ FCS_RX_UDP = sent[first + 1 + index].sum
      BY <1>4, <3>1 DEF Summed
    <3>3. first + 1 + index \in 1 .. Len(sent)
      BY <2>1, <2>5, <3>2
    <3>4. \A i \in 0 .. UDP_DecodeHex_Len - 1 : i \in 0 .. last - first
      BY <2>1, <3>2
    <3>5. Same(UDP_DecodeHex_Len)'
      BY <1>1, <2>8, <3>2, <3>4 DEF Same
    <3> QED BY <2>2, <3>2, <3>3, <3>5
  <2>10. FirstFrameHandled'
    BY <1>1, <2>8 DEF ReceiverInv, FirstFrameHandled
  <2> QED BY <1>2, <2>4, <2>7, <2>9, <2>10 DEF ReceiverInv
<1> QED BY <1>3, <1>4

\* The receiver leaves the frames alone; a line takes some bytes of them.
LEMMA SenderStays ==
    ASSUME SenderInv, UNCHANGED <<txVars, netVars>>, taken' \in 0 .. posted
    PROVE  SenderInv'
<1>1. UNCHANGED <<txPc, Original_info, lencnt, Gfcs, frames, wire, posted, sent>>
  BY DEF txVars, netVars
<1>2. SenderTypes' /\ NetTypes'
  BY <1>1 DEF SenderInv, SenderTypes, NetTypes
<1>3. Layout'
  BY <1>1 DEF SenderInv, Layout
<1>4. Summing' /\ NextSum' = NextSum
  BY <1>1 DEF SenderInv, Summing, NextSum
<1>5. Building'
  BY <1>1, <1>4 DEF SenderInv, Building
<1> QED BY <1>2, <1>3, <1>4, <1>5 DEF SenderInv

\* A line: its bytes, behind which the buffer is as it was.
LEMMA LineBytes ==
    ASSUME SenderInv, ReceiverInv, NEW end \in 1 .. posted, Line(end)
    PROVE  /\ SenderInv' /\ ReceiverTypes' /\ UNCHANGED <<wire, sent>>
           /\ taken \in Nat /\ taken' = end /\ taken < end /\ end <= Len(wire)
           /\ rxPc' = "decode" /\ index' = 0 /\ UDP_DecodeHex_Len' = 0
           /\ UDP_hexRx_len' = end - taken
           /\ \A i \in 0 .. end - taken - 1 : UDP_HEX_Rx'[i] = wire[taken + 1 + i]
<1> DEFINE bytes == SubSeq(wire, taken + 1, end)
           hex == GSM_AsciitoHEX_Convert(GSM_HextoAscii_Convert(bytes))
<1>1. /\ wire \in Seq(Byte) /\ Len(wire) \in Nat /\ posted \in Nat /\ posted <= Len(wire)
      /\ taken \in Nat /\ taken <= posted /\ end \in Nat /\ end <= Len(wire)
  BY DEF SenderInv, NetTypes
<1>2. /\ taken < end /\ end - taken <= MaxLine /\ taken' = end
      /\ UNCHANGED <<txVars, netVars, FCS_RX_UDP>> /\ Get_GSM_HexData(bytes)
  BY DEF Line
<1>3. \A i \in taken + 1 .. end : wire[i] \in Byte
  BY <1>1, ElementOfSeq
<1>4. /\ bytes \in Seq(Byte) /\ Len(bytes) = end - taken
      /\ \A i \in 1 .. end - taken : bytes[i] = wire[taken + i]
  <2>1. taken + 1 \in Int /\ end \in Int /\ taken + 1 <= end
    BY <1>1, <1>2
  <2>2. /\ bytes \in Seq(Byte)
        /\ Len(bytes) = IF taken + 1 <= end THEN end - (taken + 1) + 1 ELSE 0
        /\ \A i \in 1 .. end - (taken + 1) + 1 : bytes[i] = wire[(taken + 1) + i - 1]
    BY <1>3, <2>1, SubSeqProperties
  <2> HIDE DEF bytes
  <2>3. end - (taken + 1) + 1 = end - taken
    BY <1>1
  <2>4. ASSUME NEW i \in 1 .. end - taken PROVE bytes[i] = wire[taken + i]
    <3>1. (taken + 1) + i - 1 = taken + i /\ i \in 1 .. end - (taken + 1) + 1
      BY <1>1
    <3> QED BY <2>2, <3>1
  <2>5. Len(bytes) = end - taken
    BY <2>1, <2>2, <2>3
  <2> QED BY <2>2, <2>4, <2>5
<1> HIDE DEF bytes
<1>5. hex = bytes
  BY <1>4, HexRoundTrip
<1>6. /\ UDP_HEX_Rx' = [k \in 0 .. BufLen - 1 |->
                          IF k < Len(bytes) THEN bytes[k + 1] ELSE UDP_HEX_Rx[k]]
      /\ UDP_hexRx_len' = Len(bytes)
      /\ index' = 0 /\ UDP_DecodeHex_Len' = 0 /\ rxPc' = "decode" /\ result' = "none"
  BY <1>2, <1>5 DEF Get_GSM_HexData
<1>7. \A k \in 0 .. end - taken - 1 : k \in 0 .. BufLen - 1 /\ k < end - taken
  BY <1>1, <1>2, CodecAssumption
<1>8. \A k \in 0 .. BufLen - 1 : k < end - taken => k + 1 \in 1 .. end - taken
  BY <1>1, CodecAssumption
<1>9. \A k \in 0 .. end - taken - 1 : UDP_HEX_Rx'[k] = wire[taken + 1 + k]
  <2> TAKE k \in 0 .. end - taken - 1
  <2>1. k + 1 \in 1 .. end - taken /\ taken + (k + 1) = taken + 1 + k
    BY <1>1
  <2> QED BY <1>4, <1>6, <1>7, <2>1
<1>10. UDP_HEX_Rx' \in [0 .. BufLen - 1 -> Byte]
  <2>1. \A k \in 1 .. end - taken : bytes[k] \in Byte
    BY <1>4, ElementOfSeq
  <2>2. UDP_HEX_Rx \in [0 .. BufLen - 1 -> Byte]
    BY DEF ReceiverInv, ReceiverTypes
  <2> HIDE DEF Byte
  <2> QED BY <1>4, <1>6, <1>8, <2>1, <2>2
<1>11. ReceiverTypes'
  <2>1. UDP_hexRx_len' \in 0 .. MaxLine /\ 0 \in 0 .. MaxLine /\ 0 <= UDP_hexRx_len'
    BY <1>1, <1>2, <1>4, <1>6, CodecAssumption
  <2>2. FCS_RX_UDP' \in Byte
    BY <1>2 DEF ReceiverInv, ReceiverTypes
  <2> QED BY <1>6, <1>10, <2>1, <2>2 DEF ReceiverTypes
<1>12. SenderInv'
  BY <1>1, <1>2, SenderStays
<1> QED BY <1>1, <1>2, <1>4, <1>6, <1>9, <1>11, <1>12 DEF netVars

LEMMA WholeFramesKeeps ==
    ASSUME SenderInv, ReceiverInv, NEW end \in 1 .. posted, WholeFrames(end)
    PROVE  SenderInv' /\ ReceiverInv'
<1>1. /\ SenderInv' /\ ReceiverTypes' /\ UNCHANGED <<wire, sent>>
      /\ taken \in Nat /\ taken' = end /\ taken < end /\ end <= Len(wire)
      /\ rxPc' = "decode" /\ index' = 0 /\ UDP_DecodeHex_Len' = 0
      /\ UDP_hexRx_len' = end - taken
      /\ \A i \in 0 .. end - taken - 1 : UDP_HEX_Rx'[i] = wire[taken + 1 + i]
  BY LineBytes DEF WholeFrames
<1>2. /\ first' \in 1 .. Len(sent) /\ sent[first'].role = "head" /\ sent[first'].at = taken + 1
      /\ last' \in 1 .. Len(sent) /\ sent[last'].role = "tail" /\ sent[last'].at = end
      /\ Len(sent) \in Nat
  BY DEF WholeFrames, Heads, Tails, SenderInv, NetTypes
<1>3. first' < last'
  <2>1. SUFFICES ASSUME last' < first' PROVE FALSE
    BY <1>2
  <2>2. Behind(sent[last']) <= sent[first'].at
    BY <1>2, <2>1 DEF SenderInv, Layout
  <2> QED BY <1>1, <1>2, <2>2, WidthIs
<1>4. Whole'
  <2>1. end - taken = end - (taken + 1) + 1
    BY <1>1
  <2> QED BY <1>1, <1>2, <1>3, <2>1 DEF Whole
<1>5. Unescaped'
  <2>1. /\ first' + 0 <= last' + 1 /\ first' + 0 <= last' /\ first' + 0 = first'
        /\ (taken + 1) - (taken + 1) = 0
    BY <1>1, <1>2, <1>3
  <2>2. Same(UDP_DecodeHex_Len)'
    BY <1>1 DEF Same
  <2> QED BY <1>1, <1>2, <2>1, <2>2 DEF Unescaped
<1>6. Summed' /\ FirstFrameHandled'
  BY <1>1 DEF Summed, FirstFrameHandled
<1> QED BY <1>1, <1>4, <1>5, <1>6 DEF ReceiverInv

LEMMA FragmentKeeps ==
    ASSUME SenderInv, ReceiverInv, NEW end \in 1 .. posted, Fragment(end)
    PROVE  SenderInv' /\ ReceiverInv'
<1>1. SenderInv' /\ ReceiverTypes'
  BY LineBytes DEF Fragment
<1>2. first' = 0 /\ last' = 0 /\ Len(sent') \in Nat
  BY <1>1 DEF Fragment, SenderInv, NetTypes
<1>3. Whole' /\ Unescaped' /\ Summed' /\ FirstFrameHandled'
  BY <1>2 DEF Whole, Unescaped, Summed, FirstFrameHandled
<1> QED BY <1>1, <1>3 DEF ReceiverInv

\* While a line of whole frames is unescaped, the next byte to be read is where
\* the next byte of sent is on the wire.
LEMMA NextToRead ==
    ASSUME SenderInv, ReceiverInv, first # 0, rxPc = "decode", index < UDP_hexRx_len,
           NEW q, q = first + UDP_DecodeHex_Len
    PROVE  /\ q \in first .. last /\ q \in 1 .. Len(sent)
           /\ index = sent[q].at - sent[first].at
           /\ UDP_HEX_Rx[index] = IF Width(sent[q]) = 2 THEN EscByte ELSE sent[q].byte
           /\ Width(sent[q]) = 2 =>
                /\ index + 1 < UDP_hexRx_len /\ q < last
                /\ UDP_HEX_Rx[index + 1] = sent[q].byte - 124
<1> DEFINE d == UDP_DecodeHex_Len
           a == sent[first].at
<1>1. /\ first \in 1 .. Len(sent) /\ last \in 1 .. Len(sent) /\ first < last
      /\ Len(sent) \in Nat /\ Len(wire) \in Nat /\ taken \in Nat /\ taken <= Len(wire)
      /\ a \in Nat /\ a >= 1 /\ sent[last].at = taken
      /\ sent[last].role = "tail" /\ UDP_hexRx_len = taken - a + 1
  BY LinePlaces
<1>2. index \in Nat /\ d \in Nat
  BY CodecAssumption DEF ReceiverInv, ReceiverTypes
<1>3. /\ q <= last + 1
      /\ index = (IF q <= last THEN sent[q].at ELSE taken + 1) - a
      /\ \A i \in index .. UDP_hexRx_len - 1 : UDP_HEX_Rx[i] = wire[a + i]
  BY DEF ReceiverInv, Unescaped
<1> HIDE DEF a
<1>4. q \in Nat /\ q >= first
  BY <1>1, <1>2
<1>p. taken \in Nat /\ a \in Nat /\ UDP_hexRx_len = taken - a + 1 /\ index \in Nat
  BY <1>1, <1>2
<1>5. q <= last
  BY <1>1, <1>2, <1>3, <1>4
<1>6. q \in first .. last /\ q \in 1 .. Len(sent)
  BY <1>1, <1>4, <1>5
<1>7. sent[q].at \in Nat /\ Placed(sent[q], wire)
  BY <1>6, Places DEF SenderInv, Layout
<1>8. index = sent[q].at - a
  BY <1>3, <1>5
<1>9. UDP_HEX_Rx[index] = wire[sent[q].at]
  <2>1. index \in index .. UDP_hexRx_len - 1
    BY <1>p
  <2>2. a + index = sent[q].at
    BY <1>p, <1>7, <1>8
  <2> QED BY <1>3, <2>1, <2>2
<1>10. UDP_HEX_Rx[index] = IF Width(sent[q]) = 2 THEN EscByte ELSE sent[q].byte
  BY <1>7, <1>9 DEF Placed
<1>11. ASSUME Width(sent[q]) = 2
       PROVE  /\ index + 1 < UDP_hexRx_len /\ q < last
              /\ UDP_HEX_Rx[index + 1] = sent[q].byte - 124
  <2>1. q # last
    BY <1>1, <1>11 DEF Width, Marks
  <2>2. q < last
    BY <1>1, <1>4, <1>5, <2>1
  <2>3. Behind(sent[q]) <= taken
    BY <1>1, <1>6, <2>2 DEF SenderInv, Layout
  <2>4. sent[q].at + 2 <= taken
    BY <1>11, <2>3 DEF Behind
  <2>5. index + 1 < UDP_hexRx_len
    <3> DEFINE p == sent[q].at
    <3>1. p \in Nat /\ p + 2 <= taken /\ index = p - a
      BY <1>7, <1>8, <2>4
    <3>2. taken \in Nat /\ a \in Nat /\ UDP_hexRx_len = taken - a + 1
      BY <1>1
    <3> HIDE DEF p
    <3> QED BY <3>1, <3>2
  <2>6. index + 1 \in index .. UDP_hexRx_len - 1
    BY <1>1, <1>2, <2>5
  <2>7. UDP_HEX_Rx[index + 1] = wire[sent[q].at + 1]
    <3> DEFINE p == sent[q].at
    <3>1. p \in Nat /\ index = p - a /\ a \in Nat
      BY <1>1, <1>7, <1>8
    <3> HIDE DEF p
    <3>2. a + (index + 1) = p + 1
      BY <3>1
    <3> QED BY <1>3, <2>6, <3>2 DEF p
  <2> QED BY <1>7, <1>11, <2>2, <2>5, <2>7 DEF Placed
<1> QED BY <1>6, <1>8, <1>10, <1>11 DEF a

\* The width of a byte tells whether it is escaped.
LEMMA EscapedByte ==
    ASSUME NetTypes, Layout, NEW q \in 1 .. Len(sent)
    PROVE  /\ Width(sent[q]) = 2 => sent[q].byte - 124 \in {1, 2}
                                    /\ 124 + (sent[q].byte - 124) = sent[q].byte
           /\ Width(sent[q]) # 2 => sent[q].byte # EscByte
<1>1. sent[q].byte \in Byte /\ Placed(sent[q], wire)
  BY Places DEF Record, Layout
<1>2. CASE Width(sent[q]) = 2
  <2>1. sent[q].byte \in {Flag, EscByte}
    BY <1>2 DEF Width
  <2> QED BY <1>2, <2>1 DEF Flag, EscByte
<1>3. CASE Width(sent[q]) # 2
  <2>1. sent[q].role \in Marks \/ sent[q].byte \notin {Flag, EscByte}
    BY <1>3 DEF Width
  <2> QED BY <1>1, <1>3, <2>1 DEF Placed, Flag, EscByte
<1> QED BY <1>2, <1>3

LEMMA DecodeTypes ==
    ASSUME ReceiverTypes, Protocol_808_Decode
    PROVE  ReceiverTypes'
<1> DEFINE b    == UDP_HEX_Rx[index]
           next == UDP_HEX_Rx[index + 1]
           esc  == b = EscByte /\ next \in {1, 2}
           out  == IF esc THEN 124 + next ELSE b
<1>1. /\ rxPc = "decode" /\ rxPc' = "decode" /\ index < UDP_hexRx_len
      /\ UDP_HEX_Rx' = [UDP_HEX_Rx EXCEPT ![UDP_DecodeHex_Len] = out]
      /\ index' = index + (IF esc THEN 2 ELSE 1)
      /\ UDP_DecodeHex_Len' = UDP_DecodeHex_Len + 1
      /\ UDP_hexRx_len' = UDP_hexRx_len /\ FCS_RX_UDP' = FCS_RX_UDP /\ result' = result
  BY DEF Protocol_808_Decode
<1>2. /\ index \in Nat /\ UDP_DecodeHex_Len \in Nat /\ UDP_hexRx_len \in Nat
      /\ UDP_DecodeHex_Len <= index /\ UDP_hexRx_len <= MaxLine
      /\ MaxLine \in Nat /\ BufLen \in Nat /\ MaxLine < BufLen
  BY <1>1, CodecAssumption DEF ReceiverTypes
<1>3. index \in 0 .. BufLen - 1
  BY <1>1, <1>2
<1>4. b \in Byte
  BY <1>3 DEF ReceiverTypes
<1>5. out \in Byte
  BY <1>4 DEF Byte
<1> HIDE DEF out
<1>6. UDP_HEX_Rx' \in [0 .. BufLen - 1 -> Byte]
  BY <1>1, <1>5 DEF ReceiverTypes
<1> HIDE DEF esc
<1>7. /\ index' \in Nat /\ UDP_DecodeHex_Len' \in 0 .. MaxLine
      /\ UDP_DecodeHex_Len' <= index' /\ UDP_DecodeHex_Len' <= UDP_hexRx_len
      /\ index' <= UDP_hexRx_len + 1
  BY <1>1, <1>2
<1> QED BY <1>1, <1>6, <1>7 DEF ReceiverTypes

\* Unescaping one more byte of a line of whole frames.
LEMMA DecodeLine ==
    ASSUME SenderInv, ReceiverInv, Protocol_808_Decode, first # 0
    PROVE  Unescaped'
<1> DEFINE d == UDP_DecodeHex_Len
           a == sent[first].at
           q == first + d
           b    == UDP_HEX_Rx[index]
           next == UDP_HEX_Rx[index + 1]
           esc  == b = EscByte /\ next \in {1, 2}
           out  == IF esc THEN 124 + next ELSE b
<1>1. /\ rxPc = "decode" /\ rxPc' = "decode" /\ index < UDP_hexRx_len
      /\ UDP_HEX_Rx' = [UDP_HEX_Rx EXCEPT ![d] = out]
      /\ index' = index + (IF esc THEN 2 ELSE 1) /\ d' = d + 1
      /\ UNCHANGED <<UDP_hexRx_len, taken, first, last, wire, sent>>
  BY DEF Protocol_808_Decode, netVars
<1>2. /\ first \in 1 .. Len(sent) /\ last \in 1 .. Len(sent) /\ first < last
      /\ Len(sent) \in Nat /\ taken \in Nat /\ a \in Nat /\ sent[last].at = taken
      /\ sent[last].role = "tail"
  BY LinePlaces
<1>3. /\ index \in Nat /\ d \in Nat /\ d <= index /\ UDP_hexRx_len \in Nat
      /\ d \in 0 .. BufLen - 1 /\ UDP_HEX_Rx \in [0 .. BufLen - 1 -> Byte]
      /\ UDP_hexRx_len <= BufLen - 1 /\ BufLen \in Nat
  BY <1>1, CodecAssumption DEF ReceiverInv, ReceiverTypes
<1> HIDE DEF a, q, out, esc
<1>4. /\ q \in first .. last /\ q \in 1 .. Len(sent) /\ index = sent[q].at - a
      /\ b = IF Width(sent[q]) = 2 THEN EscByte ELSE sent[q].byte
      /\ Width(sent[q]) = 2 => next = sent[q].byte - 124
  BY <1>1, NextToRead DEF q, a
<1>5. /\ Width(sent[q]) = 2 => sent[q].byte - 124 \in {1, 2}
                               /\ 124 + (sent[q].byte - 124) = sent[q].byte
      /\ Width(sent[q]) # 2 => sent[q].byte # EscByte
  BY <1>4, EscapedByte DEF SenderInv
<1>6. (esc <=> Width(sent[q]) = 2) /\ out = sent[q].byte
  BY <1>4, <1>5 DEF esc, out
<1>7. index' = index + Width(sent[q])
  BY <1>1, <1>6, WidthIs
<1>8. Behind(sent[q]) = (IF q + 1 <= last THEN sent[q + 1].at ELSE taken + 1)
  <2>1. CASE q + 1 <= last
    <3>1. q \in 1 .. Len(sent) - 1
      BY <1>2, <1>4, <2>1
    <3> QED BY <2>1, <3>1 DEF SenderInv, Layout
  <2>2. CASE ~(q + 1 <= last)
    <3>1. q = last
      BY <1>2, <1>4, <2>2
    <3>2. Width(sent[q]) = 1
      BY <1>2, <3>1 DEF Width, Marks
    <3> QED BY <1>2, <2>2, <3>1, <3>2 DEF Behind
  <2> QED BY <2>1, <2>2
<1>9. index' = Behind(sent[q]) - a
  <2> DEFINE p == sent[q].at
             w == Width(sent[q])
  <2>1. p \in Nat /\ w \in Nat /\ Behind(sent[q]) = p + w
    BY <1>4, Places, WidthIs DEF SenderInv
  <2>2. index = p - a /\ index' = index + w
    BY <1>4, <1>7
  <2> HIDE DEF p, w
  <2> QED BY <1>2, <2>1, <2>2
<1>10. first' + d' = q + 1 /\ q + 1 <= last + 1
  BY <1>1, <1>2, <1>3, <1>4 DEF q
<1>11. ASSUME NEW i \in 0 .. d PROVE UDP_HEX_Rx'[i] = sent[first + i].byte
  <2>1. CASE i = d
    BY <1>1, <1>3, <1>6, <2>1 DEF q
  <2>2. CASE i # d
    <3>1. i \in 0 .. d - 1 /\ i \in 0 .. BufLen - 1
      BY <1>3, <2>2
    <3>2. UDP_HEX_Rx[i] = sent[first + i].byte
      BY <1>1, <3>1 DEF ReceiverInv, Unescaped, Same
    <3> QED BY <1>1, <1>3, <2>2, <3>1, <3>2
  <2> QED BY <2>1, <2>2
<1>12. ASSUME NEW i \in index' .. UDP_hexRx_len - 1
       PROVE  UDP_HEX_Rx'[i] = wire[a + i]
  <2>1. index' \in Nat /\ index' > index
    BY <1>1, <1>3
  <2>2. i \in index .. UDP_hexRx_len - 1 /\ i # d /\ i \in 0 .. BufLen - 1
    BY <1>3, <2>1
  <2>3. UDP_HEX_Rx[i] = wire[a + i]
    BY <1>1, <2>2 DEF ReceiverInv, Unescaped, a
  <2> QED BY <1>1, <1>3, <2>2, <2>3
<1>13. a' = a /\ Same(d)'
  <2>1. d' - 1 = d
    BY <1>1, <1>3
  <2>2. Same(d)'
    BY <1>1, <1>11, <2>1 DEF Same
  <2> QED BY <1>1, <2>2 DEF a
<1>14. /\ first' + d' <= last' + 1
       /\ index' = (IF first' + d' <= last' THEN sent'[first' + d'].at ELSE taken' + 1) - a'
       /\ \A i \in index' .. UDP_hexRx_len' - 1 : UDP_HEX_Rx'[i] = wire'[a' + i]
  BY <1>1, <1>8, <1>9, <1>10, <1>12, <1>13
<1> QED BY <1>13, <1>14 DEF Unescaped, a

LEMMA DecodeKeeps ==
    ASSUME SenderInv, ReceiverInv, Protocol_808_Decode
    PROVE  ReceiverInv'
<1>1. /\ rxPc = "decode" /\ rxPc' = "decode"
      /\ UNCHANGED <<UDP_hexRx_len, taken, first, last, wire, sent>>
  BY DEF Protocol_808_Decode, netVars
<1>2. ReceiverTypes'
  BY DecodeTypes DEF ReceiverInv
<1>3. Whole'
  BY <1>1 DEF ReceiverInv, Whole
<1>4. Unescaped'
  BY <1>1, DecodeLine DEF Unescaped
<1>5. Summed' /\ FirstFrameHandled'
  BY <1>1 DEF Summed, FirstFrameHandled
<1> QED BY <1>2, <1>3, <1>4, <1>5 DEF ReceiverInv

\* When the loop is over, the buffer holds the frames as they were sent.
LEMMA AllUnescaped ==
    ASSUME SenderInv, ReceiverInv, first # 0, rxPc = "decode", index >= UDP_hexRx_len
    PROVE  /\ UDP_DecodeHex_Len = last - first + 1 /\ Same(UDP_DecodeHex_Len)
           /\ UDP_HEX_Rx[0] = Flag /\ UDP_DecodeHex_Len >= 3
<1> DEFINE d == UDP_DecodeHex_Len
           q == first + d
           a == sent[first].at
<1>1. /\ first \in 1 .. Len(sent) /\ last \in 1 .. Len(sent) /\ first < last
      /\ Len(sent) \in Nat /\ taken \in Nat /\ a \in Nat /\ sent[last].at = taken
      /\ sent[first].role = "head" /\ sent[last].role = "tail"
      /\ UDP_hexRx_len = taken - a + 1
  BY LinePlaces
<1>2. index \in Nat /\ d \in Nat
  BY CodecAssumption DEF ReceiverInv, ReceiverTypes
<1>3. /\ q <= last + 1 /\ Same(d)
      /\ index = (IF q <= last THEN sent[q].at ELSE taken + 1) - a
  BY DEF ReceiverInv, Unescaped
<1> HIDE DEF a
<1>4. ASSUME q <= last PROVE FALSE
  <2>1. q \in 1 .. Len(sent)
    BY <1>1, <1>2, <1>4
  <2> DEFINE p == sent[q].at
  <2>2. p \in Nat /\ p <= taken
    <3>1. CASE q = last
      BY <1>1, <3>1
    <3>2. CASE q # last
      <4>1. Behind(sent[q]) <= sent[last].at
        BY <1>1, <1>2, <1>4, <2>1, <3>2 DEF SenderInv, Layout
      <4>2. p \in Nat /\ Behind(sent[q]) = p + Width(sent[q])
        BY <2>1, Places DEF SenderInv
      <4>3. Width(sent[q]) \in Nat
        BY WidthIs
      <4> HIDE DEF p
      <4> QED BY <1>1, <4>1, <4>2, <4>3
    <3> QED BY <3>1, <3>2
  <2>3. index = p - a
    BY <1>3, <1>4
  <2> HIDE DEF p
  <2> QED BY <1>1, <2>2, <2>3
<1>5. d = last - first + 1
  BY <1>1, <1>2, <1>3, <1>4
<1>6. sent[last - 1].role = "check"
  BY <1>1 DEF SenderInv, Summing
<1>7. d >= 3
  BY <1>1, <1>5, <1>6
<1>8. UDP_HEX_Rx[0] = sent[first].byte
  <2>1. 0 \in 0 .. d - 1 /\ first + 0 = first
    BY <1>1, <1>2, <1>7
  <2> QED BY <1>3, <2>1 DEF Same
<1>9. sent[first].byte = Flag
  <2>1. Placed(sent[first], wire) /\ "head" \in Marks
    BY <1>1 DEF SenderInv, Layout, Marks
  <2> QED BY <1>1, <2>1 DEF Placed
<1> QED BY <1>3, <1>5, <1>7, <1>8, <1>9

LEMMA NoHeadKeeps ==
    ASSUME SenderInv, ReceiverInv, NoHead
    PROVE  ReceiverInv'
<1>1. /\ rxPc = "decode" /\ rxPc' = "idle" /\ index >= UDP_hexRx_len /\ UDP_HEX_Rx[0] # Flag
      /\ result' = "rejected"
      /\ UNCHANGED <<wire, sent, taken, UDP_HEX_Rx, UDP_hexRx_len, index,
                     UDP_DecodeHex_Len, FCS_RX_UDP, first, last>>
  BY DEF NoHead, netVars
<1>2. first = 0
  BY <1>1, AllUnescaped
<1>3. ReceiverTypes'
  BY <1>1 DEF ReceiverInv, ReceiverTypes
<1>4. Whole' /\ Unescaped' /\ Summed' /\ FirstFrameHandled'
  BY <1>1, <1>2 DEF ReceiverInv, Whole, Unescaped, Summed, FirstFrameHandled
<1> QED BY <1>3, <1>4 DEF ReceiverInv

LEMMA DecodedKeeps ==
    ASSUME SenderInv, ReceiverInv, Decoded
    PROVE  ReceiverInv'
<1>1. /\ rxPc = "decode" /\ rxPc' = "sum" /\ index >= UDP_hexRx_len
      /\ index' = 0 /\ FCS_RX_UDP' = 0
      /\ UNCHANGED <<wire, sent, taken, UDP_HEX_Rx, UDP_hexRx_len,
                     UDP_DecodeHex_Len, first, last, result>>
  BY DEF Decoded, netVars
<1>2. ReceiverTypes'
  BY <1>1, CodecAssumption DEF ReceiverInv, ReceiverTypes, Byte
<1>3. Whole' /\ Unescaped' /\ FirstFrameHandled'
  BY <1>1 DEF ReceiverInv, Whole, Unescaped, FirstFrameHandled
<1>4. Summed'
  <2> SUFFICES ASSUME first # 0 PROVE Summed'
    BY <1>1 DEF Summed
  <2>1. /\ UDP_DecodeHex_Len = last - first + 1 /\ Same(UDP_DecodeHex_Len)
        /\ UDP_DecodeHex_Len >= 3
    BY <1>1, AllUnescaped
  <2>2. Same(UDP_DecodeHex_Len)'
    BY <1>1, <2>1 DEF Same
  <2>3. first \in 1 .. Len(sent) /\ first \in 1 .. Len(sent) - 1 /\ sent[first].role = "head"
    BY LinePlaces
  <2>4. sent[first].byte = Flag /\ sent[first].sum = Flag
    <3>1. Placed(sent[first], wire) /\ "head" \in Marks
      BY <2>3 DEF SenderInv, Layout, Marks
    <3> QED BY <2>3, <3>1 DEF Placed, SenderInv, Summing
  <2>5. sent[first + 1].sum = 0
    BY <2>3, <2>4, XorSame DEF SenderInv, Summing
  <2>6. 0 <= UDP_DecodeHex_Len - 3 /\ first + 1 + 0 = first + 1
    BY <2>1, <2>3, CodecAssumption DEF ReceiverInv, ReceiverTypes
  <2> QED BY <1>1, <2>1, <2>2, <2>5, <2>6 DEF Summed
<1> QED BY <1>2, <1>3, <1>4 DEF ReceiverInv

LEMMA SumReceivedKeeps ==
    ASSUME SenderInv, ReceiverInv, SumReceived
    PROVE  ReceiverInv'
<1>1. /\ rxPc = "sum" /\ rxPc' = "sum" /\ index < UDP_DecodeHex_Len - 3 /\ index' = index + 1
      /\ FCS_RX_UDP' = ByteXor(FCS_RX_UDP, UDP_HEX_Rx[1 + index])
      /\ UNCHANGED <<wire, sent, taken, UDP_HEX_Rx, UDP_hexRx_len,
                     UDP_DecodeHex_Len, first, last, result>>
  BY DEF SumReceived, netVars
<1>2. index \in Nat /\ UDP_DecodeHex_Len \in Nat
  BY CodecAssumption DEF ReceiverInv, ReceiverTypes
<1>3. ReceiverTypes'
  BY <1>1, <1>2, XorType DEF ReceiverInv, ReceiverTypes
<1>4. Whole' /\ Unescaped' /\ FirstFrameHandled'
  BY <1>1 DEF ReceiverInv, Whole, Unescaped, FirstFrameHandled
<1>5. Summed'
  <2> DEFINE q == first + 1 + index
  <2> SUFFICES ASSUME first # 0 PROVE Summed'
    BY <1>1 DEF Summed
  <2>1. /\ UDP_DecodeHex_Len = last - first + 1 /\ Same(UDP_DecodeHex_Len)
        /\ FCS_RX_UDP = sent[q].sum
    BY <1>1 DEF ReceiverInv, Summed
  <2>2. first \in 1 .. Len(sent) /\ last \in 1 .. Len(sent) /\ Len(sent) \in Nat
    BY LinePlaces
  <2>3. /\ q \in 1 .. Len(sent) - 1 /\ 1 + index \in 0 .. UDP_DecodeHex_Len - 1
        /\ first + (1 + index) = q /\ first + 1 + index' = q + 1
        /\ index' <= UDP_DecodeHex_Len - 3
    BY <1>1, <1>2, <2>1, <2>2
  <2> HIDE DEF q
  <2>4. UDP_HEX_Rx[1 + index] = sent[q].byte
    BY <2>1, <2>3 DEF Same
  <2>5. FCS_RX_UDP' = sent[q + 1].sum
    BY <1>1, <2>1, <2>3, <2>4 DEF SenderInv, Summing
  <2>6. Same(UDP_DecodeHex_Len)'
    BY <1>1, <2>1 DEF Same
  <2> QED BY <1>1, <2>1, <2>3, <2>5, <2>6 DEF Summed
<1> QED BY <1>3, <1>4, <1>5 DEF ReceiverInv

LEMMA AcceptedKeeps ==
    ASSUME SenderInv, ReceiverInv, FrameAccepted
    PROVE  ReceiverInv'
<1>1. /\ rxPc = "sum" /\ rxPc' = "idle" /\ result' = "accepted"
      /\ UNCHANGED <<wire, sent, taken, UDP_HEX_Rx, UDP_hexRx_len, index,
                     UDP_DecodeHex_Len, FCS_RX_UDP, first, last>>
  BY DEF FrameAccepted, netVars
<1>2. ReceiverTypes'
  BY <1>1 DEF ReceiverInv, ReceiverTypes
<1>3. Whole' /\ Unescaped' /\ Summed'
  BY <1>1 DEF ReceiverInv, Whole, Unescaped, Summed
<1>4. FirstFrameHandled'
  <2> SUFFICES ASSUME first # 0
               PROVE  /\ UDP_DecodeHex_Len = last - first + 1
                      /\ \A i \in 0 .. last - first : UDP_HEX_Rx[i] = sent[first + i].byte
    BY <1>1 DEF FirstFrameHandled
  <2>1. UDP_DecodeHex_Len = last - first + 1 /\ Same(UDP_DecodeHex_Len)
    BY <1>1 DEF ReceiverInv, Summed
  <2>2. first \in Nat /\ last \in Nat
    BY LinePlaces
  <2>3. UDP_DecodeHex_Len - 1 = last - first
    BY <2>1, <2>2
  <2> QED BY <2>1, <2>3 DEF Same
<1> QED BY <1>2, <1>3, <1>4 DEF ReceiverInv

LEMMA WrongFcsKeeps ==
    ASSUME SenderInv, ReceiverInv, WrongFcs
    PROVE  ReceiverInv'
<1>1. /\ rxPc = "sum" /\ rxPc' = "idle" /\ result' = "rejected"
      /\ index >= UDP_DecodeHex_Len - 3 /\ Seen # {FCS_RX_UDP}
      /\ UDP_HEX_Rx' = [k \in 0 .. BufLen - 1 |-> 0] /\ UDP_hexRx_len' = 0
      /\ UNCHANGED <<wire, sent, taken, index, UDP_DecodeHex_Len, FCS_RX_UDP, first, last>>
  BY DEF WrongFcs, netVars
<1>2. first = 0
  <2> SUFFICES ASSUME first # 0 PROVE Seen = {FCS_RX_UDP}
    BY <1>1
  <2> DEFINE d == UDP_DecodeHex_Len
  <2>1. /\ d = last - first + 1 /\ Same(d)
        /\ index <= d - 3 /\ FCS_RX_UDP = sent[first + 1 + index].sum
    BY <1>1 DEF ReceiverInv, Summed
  <2>2. /\ first \in 1 .. Len(sent) /\ last \in 1 .. Len(sent) /\ first < last
        /\ Len(sent) \in Nat /\ sent[last].role = "tail"
    BY LinePlaces
  <2>3. index \in Nat /\ d \in Nat
    BY CodecAssumption DEF ReceiverInv, ReceiverTypes
  <2>4. /\ first + 1 + index = last - 1 /\ last - 1 \in 1 .. Len(sent)
        /\ d >= 2 /\ d - 2 \in 0 .. d - 1 /\ first + (d - 2) = last - 1
    BY <1>1, <2>1, <2>2, <2>3
  <2>5. sent[last - 1].role = "check"
    BY <2>2 DEF SenderInv, Summing
  <2>6. sent[last - 1].sum = sent[last - 1].byte
    BY <2>4, <2>5 DEF SenderInv, Summing
  <2>7. UDP_HEX_Rx[d - 2] = sent[last - 1].byte
    BY <2>1, <2>4 DEF Same
  <2> QED BY <2>1, <2>4, <2>6, <2>7 DEF Seen
<1>3. ReceiverTypes'
  BY <1>1, CodecAssumption DEF ReceiverInv, ReceiverTypes, Byte
<1>4. Whole' /\ Unescaped' /\ Summed' /\ FirstFrameHandled'
  BY <1>1, <1>2 DEF ReceiverInv, Whole, Unescaped, Summed, FirstFrameHandled
<1> QED BY <1>3, <1>4 DEF ReceiverInv

LEMMA ReceiverKeeps ==
    ASSUME CodecInv, ReceiverStep
    PROVE  CodecInv'
<1> USE DEF CodecInv
<1>1. ASSUME NEW end \in 1 .. posted, WholeFrames(end) PROVE CodecInv'
  BY <1>1, WholeFramesKeeps
<1>2. ASSUME NEW end \in 1 .. posted, Fragment(end) PROVE CodecInv'
  BY <1>2, FragmentKeeps
<1>3. ASSUME UNCHANGED <<txVars, netVars, taken>> PROVE SenderInv'
  <2>1. taken' \in 0 .. posted
    BY <1>3 DEF SenderInv, NetTypes
  <2> QED BY <1>3, <2>1, SenderStays
<1>4. CASE Protocol_808_Decode
  <2>1. UNCHANGED <<txVars, netVars, taken>>
    BY <1>4 DEF Protocol_808_Decode
  <2> QED BY <1>3, <1>4, <2>1, DecodeKeeps
<1>5. CASE NoHead
  <2>1. UNCHANGED <<txVars, netVars, taken>>
    BY <1>5 DEF NoHead
  <2> QED BY <1>3, <1>5, <2>1, NoHeadKeeps
<1>6. CASE Decoded
  <2>1. UNCHANGED <<txVars, netVars, taken>>
    BY <1>6 DEF Decoded
  <2> QED BY <1>3, <1>6, <2>1, DecodedKeeps
<1>7. CASE SumReceived
  <2>1. UNCHANGED <<txVars, netVars, taken>>
    BY <1>7 DEF SumReceived
  <2> QED BY <1>3, <1>7, <2>1, SumReceivedKeeps
<1>8. CASE FrameAccepted
  <2>1. UNCHANGED <<txVars, netVars, taken>>
    BY <1>8 DEF FrameAccepted
  <2> QED BY <1>3, <1>8, <2>1, AcceptedKeeps
<1>9. CASE WrongFcs
  <2>1. UNCHANGED <<txVars, netVars, taken>>
    BY <1>9 DEF WrongFcs
  <2> QED BY <1>3, <1>9, <2>1, WrongFcsKeeps
<1> QED BY <1>1, <1>2, <1>4, <1>5, <1>6, <1>7, <1>8, <1>9 DEF ReceiverStep

-----------------------------------------------------------------------------
(* The theorems                                                            *)

LEMMA Stutters ==
    ASSUME CodecInv, UNCHANGED vars
    PROVE  CodecInv'
<1>1. UNCHANGED <<txVars, netVars, rxVars>> /\ taken' = taken
  BY DEF vars, rxVars
<1>2. taken' \in 0 .. posted /\ Grown
  BY <1>1 DEF CodecInv, SenderInv, NetTypes, Grown, netVars
<1>3. SenderInv'
  BY <1>1, <1>2, SenderStays DEF CodecInv
<1> QED BY <1>1, <1>2, <1>3, FramesAdded DEF CodecInv

\* The inductive invariant: what the loops of Protocol_End, Protocol_808_Encode,
\* Protocol_808_Decode and TCP_RX_Process have done so far.
THEOREM CodecInvariant == Spec => []CodecInv
<1>1. Init => CodecInv
  BY SenderInit, ReceiverInit DEF CodecInv
<1>2. CodecInv /\ [Next]_vars => CodecInv'
  <2> SUFFICES ASSUME CodecInv, [Next]_vars PROVE CodecInv'
    OBVIOUS
  <2>1. CASE SenderStep
    BY <2>1, SenderKeeps, FramesAdded DEF CodecInv
  <2>2. CASE ReceiverStep
    BY <2>2, ReceiverKeeps
  <2>3. CASE UNCHANGED vars
    BY <2>3, Stutters
  <2> QED BY <2>1, <2>2, <2>3 DEF Next
<1> QED BY <1>1, <1>2, PTL DEF Spec

\* Every variable keeps its type; above all, the loop of Protocol_808_Decode and
\* the one over the check byte stay in UDP_HEX_Rx for every line mq_GSM can hold.
THEOREM CodecTypes == Spec => []TypeOK
<1>1. CodecInv => TypeOK
  <2> SUFFICES ASSUME CodecInv PROVE TypeOK
    OBVIOUS
  <2>1. SenderTypes /\ NetTypes /\ ReceiverTypes /\ Whole
    BY DEF CodecInv, SenderInv, ReceiverInv
  <2>2. rxPc = "decode" => index \in 0 .. UDP_hexRx_len + 1
    BY <2>1, CodecAssumption DEF ReceiverTypes
  <2>3. rxPc = "sum" => index \in 0 .. UDP_DecodeHex_Len
    BY <2>1, CodecAssumption DEF ReceiverTypes
  <2>4. first \in 0 .. Len(sent) /\ last \in 0 .. Len(sent)
    BY <2>1 DEF Whole
  <2> QED BY <2>1, <2>2, <2>3, <2>4 DEF TypeOK, SenderTypes, NetTypes, ReceiverTypes, Record
<1> QED BY <1>1, CodecInvariant, PTL

\* Whatever the messages are, the stream that Protocol_End and Protocol_808_Encode
\* build has flags at the ends of frames and nowhere else.
THEOREM FlagsOnlyMark == Spec => []FlagsOnlyAtEnds
<1>1. CodecInv => FlagsOnlyAtEnds
  <2> SUFFICES ASSUME CodecInv PROVE FlagsOnlyAtEnds
    OBVIOUS
  <2>1. NetTypes /\ Layout
    BY DEF CodecInv, SenderInv
  <2>2. DOMAIN wire = 1 .. Len(wire) /\ DOMAIN sent = 1 .. Len(sent)
    BY <2>1 DEF NetTypes
  <2>3. ASSUME NEW p \in 1 .. Len(wire), wire[p] = Flag
        PROVE  \E q \in 1 .. Len(sent) : sent[q].at = p /\ sent[q].role \in Marks
    <3>1. PICK q \in 1 .. Len(sent) :
            sent[q].at = p \/ (Width(sent[q]) = 2 /\ sent[q].at + 1 = p)
      BY <2>1 DEF Layout
    <3>2. /\ Width(sent[q]) = 2 => sent[q].byte - 124 \in {1, 2}
          /\ Placed(sent[q], wire)
      BY <2>1, EscapedByte DEF Layout
    <3>3. sent[q].at = p
      BY <2>3, <3>1, <3>2 DEF Placed, Flag
    <3>4. Width(sent[q]) # 2 /\ sent[q].byte = Flag
      BY <2>3, <3>2, <3>3 DEF Placed, Flag, EscByte
    <3>5. sent[q].role \in Marks
      BY <3>4 DEF Width
    <3> QED BY <3>3, <3>5
  <2>4. ASSUME NEW q \in 1 .. Len(sent), sent[q].role \in Marks
        PROVE  wire[sent[q].at] = Flag
    <3>1. Placed(sent[q], wire) /\ Width(sent[q]) = 1
      BY <2>1, <2>4 DEF Layout, Width
    <3> QED BY <2>4, <3>1 DEF Placed
  <2> QED BY <2>2, <2>3, <2>4 DEF FlagsOnlyAtEnds, Marks
<1> QED BY <1>1, CodecInvariant, PTL

\* Protocol_808_Decode may work in place, and on whole frames it never looks at
\* what an earlier line left behind the line, for any line the modem can deliver.
THEOREM UnescapesInPlace == Spec => []DecodeInPlace
<1>1. CodecInv => DecodeInPlace
  <2> SUFFICES ASSUME CodecInv, rxPc = "decode"
               PROVE  /\ UDP_DecodeHex_Len <= index
                      /\ first # 0 /\ index < UDP_hexRx_len /\ UDP_HEX_Rx[index] = EscByte
                           => index + 1 < UDP_hexRx_len
    BY DEF DecodeInPlace
  <2>1. UDP_DecodeHex_Len <= index
    BY DEF CodecInv, ReceiverInv, ReceiverTypes
  <2>2. ASSUME first # 0, index < UDP_hexRx_len, UDP_HEX_Rx[index] = EscByte
        PROVE  index + 1 < UDP_hexRx_len
    <3> DEFINE q == first + UDP_DecodeHex_Len
    <3> HIDE DEF q
    <3>1. /\ q \in 1 .. Len(sent)
          /\ UDP_HEX_Rx[index] = IF Width(sent[q]) = 2 THEN EscByte ELSE sent[q].byte
          /\ Width(sent[q]) = 2 => index + 1 < UDP_hexRx_len
      BY <2>2, NextToRead DEF CodecInv, q
    <3>2. Width(sent[q]) # 2 => sent[q].byte # EscByte
      BY <3>1, EscapedByte DEF CodecInv, SenderInv
    <3> QED BY <2>2, <3>1, <3>2
  <2> QED BY <2>1, <2>2
<1> QED BY <1>1, CodecInvariant, PTL

\* TCP_RX_Process accepts every line of whole frames, and hands over to the
\* dispatcher exactly what was sent, for messages of any bytes and any length,
\* any number of frames in the line, and whatever the buffer held before.
THEOREM WholeFramesHandled == Spec => []FirstFrameHandled
<1>1. CodecInv => FirstFrameHandled
  BY DEF CodecInv, ReceiverInv
<1> QED BY <1>1, CodecInvariant, PTL

=============================================================================
