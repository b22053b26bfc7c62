--------------------------- MODULE MCChainForward ---------------------------
(* Instances of ChainForward for TLC: one client, or two that write different
   keys, or two that write the same one. *)
EXTENDS ChainForward

CONSTANTS c1, c2, k1, k2, v1, v2

OneClient  == {c1}
TwoClients == {c1, c2}
OneKey    == {k1}
TwoKeys   == {k1, k2}
OneValue  == {v1}
TwoValues == {v1, v2}
PutDel    == {"PUT", "DEL"}
OnlyPut   == {"PUT"}

AllKeys == [c \in Clients |-> Keys]
OwnKeys == [c \in Clients |-> IF c = c1 THEN {k1} ELSE {k2}]
=============================================================================
