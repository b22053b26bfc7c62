------------------------------ MODULE KeyArrays ------------------------------
(***************************************************************************)
(* What becomes of the answer of table_get_keys: an array of strings that  *)
(* serialization.c makes a buffer of, and an array again.                  *)
(***************************************************************************)
EXTENDS HashTable, Serialization

CONSTANT Names \* the bytes of each key, without the terminator

ASSUME NamesAssumption == Names \in [Keys -> Seq(1..255)]

INT_MAX == 2147483647

\* Whatever keys table_get_keys returned, if an int holds the size of their buffer,
\* keyArray_to_buffer writes no further than the memory it allocated, and
\* buffer_to_keyArray gets the same keys back in the same order
\* (serialization.c:24-54, 64-92), the array of an empty table included.
RoundTrip ==
    pc = "return" /\ call.op = "get_keys" /\ ret # NoValue =>
        LET keys == [j \in DOMAIN ret |-> Names[ret[j]]]
            sent == keyArray_to_buffer(keys)
        IN  sent.size <= INT_MAX => /\ Len(sent.buf) = sent.size
                                    /\ buffer_to_keyArray(sent.buf) = keys
=============================================================================
