------------------------------ MODULE TableData ------------------------------
(***************************************************************************)
(* The requests of the protocol (MessageT of sdmessage.proto), the         *)
(* function each of them is on the content of the table (table.h) and the  *)
(* answer invoke builds from what that function returned. A key, a value   *)
(* and a string of bytes are opaque here.                                  *)
(***************************************************************************)
EXTENDS Integers, FiniteSets

CONSTANTS Keys, Values, \* what the table maps
          NoKey,        \* the key field of a request that has none
          NoValue,      \* the value of a key that is not in the table
          Ops           \* the operations the clients of this instance use

AllOps == {"PUT", "GET", "DEL", "SIZE", "GETKEYS", "GETTABLE", "STATS"}

ASSUME DataAssumption == /\ IsFiniteSet(Keys)
                         /\ NoKey \notin Keys
                         /\ NoValue \notin Values
                         /\ Ops \subseteq AllOps

Tables == [Keys -> Values \cup {NoValue}]

Present(t) == {k \in Keys : t[k] # NoValue}

\* The message that each call of the client stub sends.
rtable_put(k, v) == [op |-> "PUT", key |-> k, value |-> v]
rtable_get(k)    == [op |-> "GET", key |-> k, value |-> NoValue]
rtable_del(k)    == [op |-> "DEL", key |-> k, value |-> NoValue]
rtable_size      == [op |-> "SIZE", key |-> NoKey, value |-> NoValue]
rtable_get_keys  == [op |-> "GETKEYS", key |-> NoKey, value |-> NoValue]
rtable_get_table == [op |-> "GETTABLE", key |-> NoKey, value |-> NoValue]
rtable_stats     == [op |-> "STATS", key |-> NoKey, value |-> NoValue]

Requests == {r \in {rtable_put(k, v) : k \in Keys, v \in Values}
                     \cup {rtable_get(k) : k \in Keys} \cup {rtable_del(k) : k \in Keys}
                     \cup {rtable_size, rtable_get_keys, rtable_get_table, rtable_stats}
               : r.op \in Ops}

Writes(r) == r.op \in {"PUT", "DEL"}

\* The table after request r was applied to t.
Effect(r, t) == IF Writes(r) THEN [t EXCEPT ![r.key] = r.value] ELSE t

\* Request r changes t, or replaces what t holds: invoke answers it with the
\* opcode of the request plus one.
Changes(r, t) == Writes(r) /\ (r.op = "DEL" => t[r.key] # NoValue)

\* The answer of request r on a table t, tagged with what tells it apart on the
\* wire: the opcode (request + 1, OP_BAD or OP_ERROR) or the field that is set.
Reply(r, t) ==
    CASE r.op = "PUT"      -> <<"ok">>
      [] r.op = "DEL"      -> IF t[r.key] = NoValue THEN <<"bad">> ELSE <<"ok">>
      [] r.op = "GET"      -> IF t[r.key] = NoValue THEN <<"error">>
                                                    ELSE <<"value", t[r.key]>>
      [] r.op = "SIZE"     -> <<"result", Cardinality(Present(t))>>
      [] r.op = "GETKEYS"  -> <<"keys", Present(t)>>
      [] r.op = "GETTABLE" -> <<"entries", [k \in Present(t) |-> t[k]]>>
=============================================================================
