-------------------------------- MODULE MbCrc --------------------------------
(***************************************************************************)
(* The checksum of mb_crc.c: one table look-up per byte, in two tables of  *)
(* bytes; and the polynomial division it stands for.                       *)
(***************************************************************************)
EXTENDS Integers, Sequences

mb_TableCRCHi == <<
    0, 193, 129, 64, 1, 192, 128, 65, 1, 192, 128, 65, 0, 193, 129, 64, 1, 192, 128,
    65, 0, 193, 129, 64, 0, 193, 129, 64, 1, 192, 128, 65, 1, 192, 128, 65, 0, 193,
    129, 64, 0, 193, 129, 64, 1, 192, 128, 65, 0, 193, 129, 64, 1, 192, 128, 65, 1,
    192, 128, 65, 0, 193, 129, 64, 1, 192, 128, 65, 0, 193, 129, 64, 0, 193, 129, 64,
    1, 192, 128, 65, 0, 193, 129, 64, 1, 192, 128, 65, 1, 192, 128, 65, 0, 193, 129,
    64, 0, 193, 129, 64, 1, 192, 128, 65, 1, 192, 128, 65, 0, 193, 129, 64, 1, 192,
    128, 65, 0, 193, 129, 64, 0, 193, 129, 64, 1, 192, 128, 65, 1, 192, 128, 65, 0,
    193, 129, 64, 0, 193, 129, 64, 1, 192, 128, 65, 0, 193, 129, 64, 1, 192, 128, 65,
    1, 192, 128, 65, 0, 193, 129, 64, 0, 193, 129, 64, 1, 192, 128, 65, 1, 192, 128,
    65, 0, 193, 129, 64, 1, 192, 128, 65, 0, 193, 129, 64, 0, 193, 129, 64, 1, 192,
    128, 65, 0, 193, 129, 64, 1, 192, 128, 65, 1, 192, 128, 65, 0, 193, 129, 64, 1,
    192, 128, 65, 0, 193, 129, 64, 0, 193, 129, 64, 1, 192, 128, 65, 1, 192, 128, 65,
    0, 193, 129, 64, 0, 193, 129, 64, 1, 192, 128, 65, 0, 193, 129, 64, 1, 192, 128,
    65, 1, 192, 128, 65, 0, 193, 129, 64 >>

mb_TableCRCLo == <<
    0, 192, 193, 1, 195, 3, 2, 194, 198, 6, 7, 199, 5, 197, 196, 4, 204, 12, 13, 205,
    15, 207, 206, 14, 10, 202, 203, 11, 201, 9, 8, 200, 216, 24, 25, 217, 27, 219, 218,
    26, 30, 222, 223, 31, 221, 29, 28, 220, 20, 212, 213, 21, 215, 23, 22, 214, 210,
    18, 19, 211, 17, 209, 208, 16, 240, 48, 49, 241, 51, 243, 242, 50, 54, 246, 247,
    55, 245, 53, 52, 244, 60, 252, 253, 61, 255, 63, 62, 254, 250, 58, 59, 251, 57,
    249, 248, 56, 40, 232, 233, 41, 235, 43, 42, 234, 238, 46, 47, 239, 45, 237, 236,
    44, 228, 36, 37, 229, 39, 231, 230, 38, 34, 226, 227, 35, 225, 33, 32, 224, 160,
    96, 97, 161, 99, 163, 162, 98, 102, 166, 167, 103, 165, 101, 100, 164, 108, 172,
    173, 109, 175, 111, 110, 174, 170, 106, 107, 171, 105, 169, 168, 104, 120, 184,
    185, 121, 187, 123, 122, 186, 190, 126, 127, 191, 125, 189, 188, 124, 180, 116,
    117, 181, 119, 183, 182, 118, 114, 178, 179, 115, 177, 113, 112, 176, 80, 144, 145,
    81, 147, 83, 82, 146, 150, 86, 87, 151, 85, 149, 148, 84, 156, 92, 93, 157, 95,
    159, 158, 94, 90, 154, 155, 91, 153, 89, 88, 152, 136, 72, 73, 137, 75, 139, 138,
    74, 78, 142, 143, 79, 141, 77, 76, 140, 68, 132, 133, 69, 135, 71, 70, 134, 130,
    66, 67, 131, 65, 129, 128, 64 >>

\* C's a ^ b, for bytes
XorByte == [a \in 0 .. 255 |-> [b \in 0 .. 255 |->
  LET low[n \in 0 .. 8] ==
        IF n = 0 THEN 0
        ELSE LET bit == 2 ^ (n - 1)
             IN  low[n - 1] + bit * ((a \div bit + b \div bit) % 2)
  IN  low[8]]]

\* The state is [hi, lo]; index is CRCLo ^ *buffer
CrcByte(c, byte) ==
  LET index == XorByte[c.lo][byte]
  IN  [lo |-> XorByte[c.hi][mb_TableCRCHi[index + 1]], hi |-> mb_TableCRCLo[index + 1]]

\* Mutant: the two halves change places before the preload is taken
mb_crc_swapped(buffer, preload) ==
  LET c[n \in 0 .. Len(buffer)] ==
        IF n = 0 THEN [lo |-> preload \div 256, hi |-> preload % 256]
        ELSE CrcByte(c[n - 1], buffer[n])
  IN  256 * c[Len(buffer)].hi + c[Len(buffer)].lo

mb_crc(buffer, preload) ==
  LET c[n \in 0 .. Len(buffer)] ==
        IF n = 0 THEN [hi |-> preload \div 256, lo |-> preload % 256]
        ELSE CrcByte(c[n - 1], buffer[n])
  IN  256 * c[Len(buffer)].hi + c[Len(buffer)].lo

------------------------------------------------------------------------------
(* The Modbus CRC: the remainder modulo x^16 + x^15 + x^2 + 1, bits reversed. *)

Polynomial == 40961    \* 0xA001

Xor(c, d) == 256 * XorByte[c \div 256][d \div 256] + XorByte[c % 256][d % 256]

Shift(c) == IF c % 2 = 1 THEN Xor(c \div 2, Polynomial) ELSE c \div 2

Remainder(bytes, preload) ==
  LET r[n \in 0 .. Len(bytes)] ==
        IF n = 0 THEN preload
        ELSE LET s[k \in 0 .. 8] == IF k = 0 THEN Xor(r[n - 1], bytes[n]) ELSE Shift(s[k - 1])
             IN  s[8]
  IN  r[Len(bytes)]

\* Both tables are right in all their entries, also for the preload that an
\* earlier part of the message left
TablesRight ==
  \A byte \in 0 .. 255 : \A preload \in {0, 4660, 65535} :
    mb_crc(<<byte>>, preload) = Remainder(<<byte>>, preload)

\* The bytes of a checksum as they go over the line
CrcBytes(crc) == <<crc % 256, crc \div 256>>
==============================================================================
