----------------------------- MODULE MCHashTable -----------------------------
(* Instances of HashTable for TLC: the keys, their hashes and the memory. *)
EXTENDS KeyArrays, TLC
LOCAL INSTANCE SequencesExt

CONSTANTS n1, n2, n3, n4, v1, v2

FourNodes == {n1, n2, n3, n4}
TwoValues == {v1, v2}
FourKeys  == 1..4

\* The keys are a, ab, b and ba: a prefix of another one, and two with the same sum.
FourNames == << <<97>>, <<97, 98>>, <<98>>, <<98, 97>> >>

\* Keys 1, 2 and 4 share bucket 1 of 2, key 3 is alone in bucket 0.
SumOfName == [k \in FourKeys |-> FoldLeft(+, 0, FourNames[k])]

NodeSymmetry == Permutations(FourNodes) \cup Permutations(TwoValues)
=============================================================================
