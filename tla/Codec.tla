------------------------------- MODULE Codec -------------------------------
(***************************************************************************)
(* radio2/src/symbols.c and crc.c (and, alike, those of radio/serial):     *)
(* bytes packed into symbols of seven bits, and the check sum.             *)
(*                                                                         *)
(* A symbol is what symbol_decode makes of it: 0..127 for the 128 symbols  *)
(* that carry data, and a negative number for the others.  symbols.i holds *)
(* the two tables, is made by tools/symbols.py, and is not modelled: the   *)
(* one undoes the other.                                                   *)
(***************************************************************************)
EXTENDS Integers, Sequences, SequencesExt, Bitwise

SymbolNone == -1   \* symbol_decode of what is no symbol at all
SymbolStart == -2
SymbolEnd == -3
SymbolSync == -4

symbol_valid(symbol) == symbol >= 0

\* bit k of the number whose digits of w bits are s, the least first
BitOf(s, w, k) ==
    IF k < w * Len(s) THEN (s[k \div w + 1] \div 2^(k % w)) % 2 ELSE 0

\* the same number in n digits of v bits
Repacked(s, w, v, n) ==
    [i \in 1 .. n |->
        FoldLeft(LAMBDA digit, b : digit + 2^b * BitOf(s, w, v * (i - 1) + b),
                 0, [b \in 1 .. v |-> b - 1])]

\* symbols added up as in _s2b: one that is negative borrows from the next
Added(symbols) ==
    FoldLeft(LAMBDA acc, x :
                LET y == x + acc.carry
                IN  [digits |-> Append(acc.digits, y % 128), carry |-> y \div 128],
             [digits |-> <<>>, carry |-> 0], symbols).digits

Chunks(s, size) ==
    [i \in 1 .. (Len(s) + size - 1) \div size |->
        SubSeq(s, size * (i - 1) + 1, IF size * i < Len(s) THEN size * i ELSE Len(s))]

\* _b2s
ChunkToSymbols(bytes) == Repacked(bytes, 8, 7, Len(bytes) + 1)

\* _s2b
ChunkToBytes(symbols) ==
    IF Len(symbols) < 2 THEN <<>> ELSE Repacked(Added(symbols), 7, 8, Len(symbols) - 1)

bytes_to_symbols(bytes) ==
    FlattenSeq([i \in DOMAIN Chunks(bytes, 7) |-> ChunkToSymbols(Chunks(bytes, 7)[i])])

symbols_to_bytes(symbols) ==
    FlattenSeq([i \in DOMAIN Chunks(symbols, 8) |-> ChunkToBytes(Chunks(symbols, 8)[i])])

-----------------------------------------------------------------------------
\* crc_table: the remainders of the CCITT polynomial 16r1021
CrcEntry(n) ==
    FoldLeft(LAMBDA x, i : IF x >= 32768 THEN ((2 * x) % 65536) ^^ 4129 ELSE 2 * x,
             256 * n, <<1, 2, 3, 4, 5, 6, 7, 8>>)

crc_table == [n \in 0 .. 255 |-> CrcEntry(n)]

crc16(bytes) ==
    FoldLeft(LAMBDA crc, b : crc_table[(crc \div 256) ^^ b] ^^ ((256 * crc) % 65536),
             65535, bytes)

\* the bytes with the room at their end filled, the low byte of the sum first
crc16_set(bytes) == bytes \o <<crc16(bytes) % 256, crc16(bytes) \div 256>>

\* mutant: every packet is taken for undamaged
crc16_check_any(bytes) == Len(bytes) >= 2

crc16_check(bytes) ==
    /\ Len(bytes) >= 2
    /\ LET n == Len(bytes)
       IN  crc16(SubSeq(bytes, 1, n - 2)) = bytes[n - 1] + 256 * bytes[n]
=============================================================================
