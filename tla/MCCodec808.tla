----------------------------- MODULE MCCodec808 -----------------------------
(* Codec808 for TLC, and its exclusive or against the library's.           *)
EXTENDS Codec808, Bitwise

ASSUME XorIsExclusiveOr == \A a, b \in Byte : ByteXor(a, b) = a ^^ b
=============================================================================
