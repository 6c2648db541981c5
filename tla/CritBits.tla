------------------------------ MODULE CritBits ------------------------------
(***************************************************************************)
(* Critical bits of the key index (keytrie/critbit.go): a key is a         *)
(* sequence of bytes of ByteBits bits, a critical bit a pair of a byte     *)
(* position and a mask of all bits but the critical one.                   *)
(***************************************************************************)
EXTENDS Integers, Sequences, FiniteSetsExt

CONSTANT ByteBits    \* bits of a byte

Full == 2 ^ ByteBits - 1

(* highestBit: the highest set bit of a byte, 0 for 0.                     *)
HighestBit(b) ==
    IF b = 0 THEN 0 ELSE CHOOSE p \in {2 ^ i : i \in 0 .. ByteBits - 1} : p <= b /\ b < 2 * p

(* a XOR b, bit by bit.                                                    *)
Xor(a, b) ==
    FoldSet(LAMBDA i, s : s + (IF (a \div 2 ^ i) % 2 # (b \div 2 ^ i) % 2 THEN 2 ^ i ELSE 0),
            0, 0 .. ByteBits - 1)

(* findCritBit: the first byte where the keys differ and all bits but the  *)
(* highest one that differs there.  A zero byte against the end of a key   *)
(* leaves all bits: the length sentinel.                                   *)
FindCritBit(a, b) ==
    LET n == IF Len(a) < Len(b) THEN Len(a) ELSE Len(b)
        diff == {i \in 1 .. n : a[i] # b[i]}
        longer == IF Len(a) < Len(b) THEN b ELSE a
    IN  IF diff # {}
        THEN LET i == CHOOSE i \in diff : \A j \in diff : i <= j
             IN  <<i - 1, Full - HighestBit(Xor(a[i], b[i]))>>
        ELSE IF Len(a) # Len(b) THEN <<n, Full - HighestBit(longer[n + 1])>>
        ELSE <<0, 0>>

(* getDirection: 1 when the critical bit of the key is set, or when the    *)
(* crit is the length sentinel and the key has that byte.                  *)
GetDirection(key, crit) ==
    IF crit[1] >= Len(key) THEN 0
    ELSE IF crit[2] = Full THEN 1
    ELSE (key[crit[1] + 1] \div (Full - crit[2])) % 2

(* shouldInsertBefore: an earlier byte, or a higher bit of the same byte.  *)
ShouldInsertBefore(a, b) == a[1] < b[1] \/ (a[1] = b[1] /\ a[2] < b[2])
=============================================================================
