-------------------------- MODULE TableDataProofs --------------------------
(* The types of the operators of TableData, for the proofs that use them. *)
EXTENDS TableData, TLAPS

LEMMA RequestForms ==
  ASSUME NEW r \in Requests
  PROVE  /\ r.op \in Ops
         /\ \/ \E k \in Keys, v \in Values : r = [op |-> "PUT", key |-> k, value |-> v]
            \/ \E k \in Keys, o \in {"GET", "DEL"} : r = [op |-> o, key |-> k, value |-> NoValue]
            \/ \E o \in {"SIZE", "GETKEYS", "GETTABLE", "STATS"} :
                  r = [op |-> o, key |-> NoKey, value |-> NoValue]
<1>1. r.op \in Ops
  BY DEF Requests
<1>2. \/ r \in {rtable_put(k, v) : k \in Keys, v \in Values}
      \/ r \in {rtable_get(k) : k \in Keys} \/ r \in {rtable_del(k) : k \in Keys}
      \/ r \in {rtable_size, rtable_get_keys, rtable_get_table, rtable_stats}
  BY DEF Requests
<1>3. CASE r \in {rtable_put(k, v) : k \in Keys, v \in Values}
  BY <1>1, <1>3 DEF rtable_put
<1>4. CASE r \in {rtable_get(k) : k \in Keys} \/ r \in {rtable_del(k) : k \in Keys}
  BY <1>1, <1>4 DEF rtable_get, rtable_del
<1>5. CASE r \in {rtable_size, rtable_get_keys, rtable_get_table, rtable_stats}
  BY <1>1, <1>5 DEF rtable_size, rtable_get_keys, rtable_get_table, rtable_stats
<1> QED BY <1>2, <1>3, <1>4, <1>5

LEMMA RequestType ==
  ASSUME NEW r \in Requests
  PROVE  /\ r.op \in Ops /\ r.op \in AllOps
         /\ r.op = "PUT" => r.key \in Keys /\ r.value \in Values
         /\ r.op \in {"GET", "DEL"} => r.key \in Keys /\ r.value = NoValue
BY RequestForms DEF AllOps

LEMMA EffectType ==
  ASSUME NEW r \in Requests, NEW t \in Tables
  PROVE  Effect(r, t) \in Tables
BY RequestType DEF Effect, Tables, Writes
=============================================================================
