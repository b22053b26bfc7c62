---------------------------- MODULE Serialization ----------------------------
(***************************************************************************)
(* DataStructures/src/serialization.c: an array of keys as a buffer and    *)
(* back. A key is the sequence of its bytes, none of them 0; the NULL that *)
(* ends an array, the errors for NULL arguments and failing allocations    *)
(* are left out.                                                           *)
(***************************************************************************)
EXTENDS Integers, Sequences

IntSize == 4 \* sizeof(int)

htonl(n) == LET q == n \div 256  r == q \div 256
            IN  <<(r \div 256) % 256, r % 256, q % 256, n % 256>>

ntohl(bytes) == 256 * (256 * (256 * bytes[1] + bytes[2]) + bytes[3]) + bytes[4]

\* What strcpy writes.
Terminated(s) == Append(s, 0)

\* The string that starts after offset bytes of buf, and what strlen says of it.
StringAt(buf, offset) ==
    LET end == CHOOSE e \in offset + 1..Len(buf) :
                   buf[e] = 0 /\ \A b \in offset + 1..e - 1 : buf[b] # 0
    IN  SubSeq(buf, offset + 1, end - 1)

strlen(buf, offset) == Len(StringAt(buf, offset))

\* The first int of a buffer, then the first j keys.
Written(keys) ==
    LET buf[j \in 0..Len(keys)] == IF j = 0 THEN htonl(Len(keys))
                                   ELSE buf[j - 1] \o Terminated(keys[j])
    IN  buf[Len(keys)]

\* Mutant: no room is counted for the terminators.
KeysWithoutTerminators(keys) ==
    LET total[j \in 0..Len(keys)] == IF j = 0 THEN 0 ELSE total[j - 1] + Len(keys[j])
    IN  [size |-> IntSize + total[Len(keys)], buf |-> Written(keys)]

\* The size that is allocated and returned, and what is written there.
keyArray_to_buffer(keys) ==
    LET total[j \in 0..Len(keys)] == IF j = 0 THEN 0 ELSE total[j - 1] + Len(keys[j]) + 1
    IN  [size |-> IntSize + total[Len(keys)], buf |-> Written(keys)]

buffer_to_keyArray(buf) ==
    LET nkeys == ntohl(SubSeq(buf, 1, IntSize))
        offset[j \in 1..nkeys] == IF j = 1 THEN IntSize
                                  ELSE offset[j - 1] + strlen(buf, offset[j - 1]) + 1
    IN  [j \in 1..nkeys |-> StringAt(buf, offset[j])]
=============================================================================
