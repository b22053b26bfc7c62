----------------------------- MODULE Dictionary -----------------------------
(***************************************************************************)
(* A table as DataStructures/include/table.h describes it: it maps keys to *)
(* values, a call takes effect at once between its beginning and its       *)
(* return, and returns what the table held.  Two answers are parameters,   *)
(* since the library gives others than the header says: that of a put that *)
(* replaces a value, and whether the keys may be refused without an error. *)
(***************************************************************************)
EXTENDS Integers, FiniteSets, Sequences

CONSTANTS Keys, Values,
          NoValue, \* the value of an absent key, and the NULL answers
          NoTable, NoCall, NoAnswer,
          Replaced, \* what table_put returns when it replaced a value: 0, says table.h:25
          NullKeys  \* may table_get_keys return NULL when nothing failed: no, says table.h:50

VARIABLES table, \* NoTable or a function on Keys
          call,  \* the call the program is in
          ret    \* what it returns

vars == <<table, call, ret>>

Calls == [op : {"put"}, key : Keys, value : Values]
             \cup [op : {"get", "remove"}, key : Keys]
             \cup [op : {"size", "get_keys"}]

Held == {k \in Keys : table[k] # NoValue}

\* Every order of the keys in S, each once.
Listings(S) == {s \in [1..Cardinality(S) -> S] : \A k \in S : \E j \in DOMAIN s : s[j] = k}

Init == table = NoTable /\ call = NoCall /\ ret = NoAnswer

Create == /\ table = NoTable
          /\ table' = [k \in Keys |-> NoValue]
          /\ UNCHANGED <<call, ret>>

Begin == /\ table # NoTable /\ call = NoCall
         /\ call' \in Calls
         /\ UNCHANGED <<table, ret>>

Put == /\ call.op = "put"
       /\ \/ /\ table' = [table EXCEPT ![call.key] = call.value]
             /\ ret' = IF call.key \in Held THEN Replaced ELSE 0
          \/ table' = table /\ ret' = -1

Remove == /\ call.op = "remove"
          /\ table' = [table EXCEPT ![call.key] = NoValue]
          /\ ret' = IF call.key \in Held THEN 0 ELSE 1

Read == /\ table' = table
        /\ \/ call.op = "get" /\ ret' = table[call.key]
           \/ call.op = "size" /\ ret' = Cardinality(Held)
           \/ call.op = "get_keys" /\ ret' \in Listings(Held) \cup IF NullKeys THEN {NoValue} ELSE {}

Perform == /\ call # NoCall /\ ret = NoAnswer
           /\ Put \/ Remove \/ Read
           /\ UNCHANGED call

Return == /\ ret # NoAnswer
          /\ call' = NoCall /\ ret' = NoAnswer
          /\ UNCHANGED table

Destroy == /\ table # NoTable /\ call = NoCall
           /\ table' = NoTable
           /\ UNCHANGED <<call, ret>>

Next == Create \/ Begin \/ Perform \/ Return \/ Destroy

Spec == Init /\ [][Next]_vars
=============================================================================
