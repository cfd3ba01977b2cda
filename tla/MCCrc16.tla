------------------------------ MODULE MCCrc16 ------------------------------
\* Values for the bytes and the damage of Crc16.
EXTENDS Crc16

MCBytes == {{}, {0, 2, 5, 7}}

\* All patterns of flipped bits that reach over three bits at most.
MCFlips == {S \in SUBSET (0 .. 7) : S = {} \/ Max(S) - Min(S) < 3}
=============================================================================
