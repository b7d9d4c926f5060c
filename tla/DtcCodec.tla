------------------------------ MODULE DtcCodec ------------------------------
(***************************************************************************)
(* A fault code and its two bytes (decode_dtc_bytes, encode_dtc_code,      *)
(* dtc.py), and which pair a Mode 03 frame is padded with                  *)
(* (parse_obd_dtc_pairs, common.py).  A code is a letter and four digits.  *)
(***************************************************************************)
EXTENDS Integers

Bytes  == 0..255
Nibble == 0..15

\* _DTC_LETTERS.
Letters == <<"P", "C", "B", "U">>

\* What a user may write: a digit is a hex digit, the first one too.
Written == [letter : {"P", "C", "B", "U"}, d1 : Nibble, d2 : Nibble, d3 : Nibble, d4 : Nibble]

Decoded(high, low) ==
    [letter |-> Letters[((high \div 64) % 4) + 1],
     d1     |-> (high \div 16) % 4,
     d2     |-> high % 16,
     d3     |-> (low \div 16) % 16,
     d4     |-> low % 16]

\* encode_dtc_code raises for any other.
Encodable(code) == code.d1 <= 3

IndexOf(letter) == CASE letter = "P" -> 0 [] letter = "C" -> 1 [] letter = "B" -> 2 [] OTHER -> 3

High(code) == IndexOf(code.letter) * 64 + code.d1 * 16 + code.d2
Low(code)  == code.d3 * 16 + code.d4

IsPadding(high, low) == high = 0 /\ low = 0
=============================================================================
