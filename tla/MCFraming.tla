----------------------------- MODULE MCFraming -----------------------------
(* Packets for Framing: one of a byte, and one of MTU bytes.  The long one *)
(* begins like the check sum of nothing, and is a chunk of seven with its  *)
(* check sum in the next.                                                  *)
EXTENDS Framing

Beacon == <<190>>
Long == <<255, 255, 0, 1, 128, 127, 85>>

ShortAndLong == {Beacon, Long}

\* everything that is no data, the least and the greatest symbol, and two between
SomeNoise == {SymbolNone, SymbolStart, SymbolEnd, SymbolSync, 0, 63, 64, 127}

\* crc_test.c: the check sum of "123456789", and where its bytes go
ASSUME CrcTest ==
    LET digits == <<49, 50, 51, 52, 53, 54, 55, 56, 57>>
    IN  /\ crc16(digits) = 10673
        /\ crc16_set(digits) = digits \o <<177, 41>>
        /\ crc16_check(crc16_set(digits))
=============================================================================
