------------------------------ MODULE MCFraming ------------------------------
(***************************************************************************)
(* A small byte alphabet for Framing: 0 and 1 are data, 2 is kPacketStart, *)
(* 3 kEscapeNop and 4 kEscapeStart.                                        *)
(***************************************************************************)
EXTENDS Framing

(* A stand-in for CRC-16-CCITT that mixes every byte into both halves. *)
MCUpdateCrc(c, b) == <<(2 * c[1] + c[2] + b + 1) % 5, (c[1] + 3 * b) % 5>>

MCCrcInit == <<4, 4>>

(* An empty payload, an escape alone, the start sequence as data. *)
MCPayloads == {<<>>, <<4>>, <<4, 2>>}

(* One as long as the value of the escape, so that its length field is      *)
(* escaped, and as long as the Unframer's buffer; and one that itself looks *)
(* like a packet, for a receiver that joins in the middle of it: the        *)
(* doubled escape reads as a packet start.                                  *)
MCLongPayloads == {<<0, 4, 3, 2>>, <<4, 2, 0, 0, 0, 0, 1, 1>>, <<4>>}
=============================================================================
