--------------------------- MODULE ReplicatedTable ---------------------------
(***************************************************************************)
(* What a chain of servers promises (README-Server_and_Client.md): every   *)
(* server keeps a copy of the table of the first one, and follows it,      *)
(* change by change and in the same order, behind the server before it.    *)
(***************************************************************************)
EXTENDS TableData, Sequences

CONSTANTS N \* the number of servers

VARIABLES history, \* the requests that changed the first server's table
          done,    \* done[s]: how many of them server s has applied
          replica  \* replica[s]: the table of server s

vars == <<history, done, replica>>

Servers == 1 .. N

Init == /\ history = <<>>
        /\ done = [s \in Servers |-> 0]
        /\ \E t \in Tables : replica = [s \in Servers |-> t]

Apply(s, r) == /\ done' = [done EXCEPT ![s] = @ + 1]
               /\ replica' = [replica EXCEPT ![s] = Effect(r, @)]

Write == \E r \in Requests : /\ Changes(r, replica[1])
                             /\ history' = Append(history, r)
                             /\ Apply(1, r)

Follow(s) == /\ s > 1
             /\ done[s] < done[s - 1]
             /\ Apply(s, history[done[s] + 1])
             /\ UNCHANGED history

Next == Write \/ \E s \in Servers : Follow(s)

Spec == Init /\ [][Next]_vars
=============================================================================
