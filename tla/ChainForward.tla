---------------------------- MODULE ChainForward ----------------------------
(***************************************************************************)
(* The forwarding of writes along a chain of servers (client_handler of    *)
(* network_server.c) by the calls of the client stub (rtable_put and       *)
(* rtable_del, which go through network_send_receive).  The chain itself   *)
(* does not change here: every server is connected to the one after it.    *)
(*                                                                         *)
(* Server 1 has a handler thread for each client; server s > 1 has one for *)
(* server s - 1.  A handler applies a request to its server's table,       *)
(* forwards it if it changed something and answers it.  All handlers of a  *)
(* server forward through the one socket of next_server, and a message is  *)
(* written to it in two pieces, its size and its body.  Nobody reads the   *)
(* answers: network_send_receive returns as soon as it has written.        *)
(***************************************************************************)
EXTENDS TableData, Sequences

CONSTANTS N,         \* the number of servers
          Clients,   \* the clients of the first server
          KeysOf,    \* KeysOf[c]: the keys client c writes
          NoRequest, \* what a handler executes between two requests
          Room,      \* answers that fit in a connection nobody reads
          MaxCalls   \* bound: calls of each client

ASSUME ChainAssumption == /\ N \in Nat \ {0}
                          /\ Clients \cap (1 .. N) = {}
                          /\ KeysOf \in [Clients -> SUBSET Keys]
                          /\ Room \in Nat /\ MaxCalls \in Nat
                          /\ Ops \subseteq {"PUT", "DEL"}

Servers == 1 .. N

\* The connections that carry requests, named by who handles them: the handler
\* of client c at server 1, and the handler of server s for the one before it.
Handlers == Clients \cup 2 .. N
Home(h) == IF h \in Clients THEN 1 ELSE h

VARIABLES pc,      \* pc[h]: where handler h is in the loop of client_handler
          req,     \* req[h]: the request it executes
          wire,    \* wire[h]: what was written to the connection and not read
          unread,  \* unread[h]: the answers sent on it, which stay there
          table,   \* table[s]: the table of server s
          applied, \* (ghost) applied[s]: the requests that changed it, with what they found
          calls,   \* calls[c]: how many calls of client c returned
          ended    \* a handler left its loop and destroyed the table

vars == <<pc, req, wire, unread, table, applied, calls, ended>>

-----------------------------------------------------------------------------
\* The two writes of network_send_receive.
Size(r) == [part |-> "size", of |-> r]
Body(r) == [part |-> "body", of |-> r]
Message(r) == <<Size(r), Body(r)>>

Starts(h, frames) == /\ Len(wire[h]) >= Len(frames)
                     /\ SubSeq(wire[h], 1, Len(frames)) = frames

\* network_receive of h reads request r from the first n pieces. When two
\* handlers mixed their writes it takes the second size for the beginning of
\* a body: unpacking fails, unless that body follows and fits in the first size.
Receives(h, r, n) ==
    \/ n = 2 /\ Starts(h, Message(r))
    \/ n = 3 /\ \E q \in Requests \ {r} : Starts(h, <<Size(q), Size(r), Body(r)>>)

Readable(h) == \E r \in Requests : Starts(h, Message(r))

\* Mutants: a DEL is not forwarded; a PUT only if it replaces a value.
ForwardsPut(h, r)     == Home(h) < N /\ Changes(r, table[Home(h)]) /\ r.op = "PUT"
ForwardsPresent(h, r) == Home(h) < N /\ table[Home(h)][r.key] # NoValue

\* The opcode of the answer is the request's plus one, and there is a next_server.
Forwards(h, r) == Home(h) < N /\ Changes(r, table[Home(h)])

\* write_all on the socket of next_server.
WriteNext(h, piece) == wire' = [wire EXCEPT ![Home(h) + 1] = Append(@, piece)]

Goto(h, label) == pc' = [pc EXCEPT ![h] = label]

-----------------------------------------------------------------------------
Init == /\ pc   = [h \in Handlers |-> "receive"]
        /\ req  = [h \in Handlers |-> NoRequest]
        /\ wire = [h \in Handlers |-> <<>>]
        /\ unread  = [h \in Handlers |-> 0]
        /\ table   = [s \in Servers |-> [k \in Keys |-> NoValue]]
        /\ applied = [s \in Servers |-> <<>>]
        /\ calls   = [c \in Clients |-> 0]
        /\ ended   = FALSE

\* rtable_put or rtable_del of client c: it writes the request and returns -1.
Call(c) == /\ calls[c] < MaxCalls
           /\ calls' = [calls EXCEPT ![c] = @ + 1]
           /\ \E r \in Requests : /\ r.key \in KeysOf[c]
                                  /\ wire' = [wire EXCEPT ![c] = @ \o Message(r)]
           /\ UNCHANGED <<pc, req, unread, table, applied, ended>>

\* network_receive and invoke, which takes effect at once (AtomicTable).
Invoke(h) ==
    /\ pc[h] = "receive"
    /\ \E r \in Requests, n \in 2 .. 3 :
         LET s == Home(h)
         IN /\ Receives(h, r, n)
            /\ wire'  = [wire EXCEPT ![h] = SubSeq(@, n + 1, Len(@))]
            /\ req'   = [req EXCEPT ![h] = r]
            /\ table' = [table EXCEPT ![s] = Effect(r, @)]
            /\ applied' = IF Changes(r, table[s])
                          THEN [applied EXCEPT ![s] = Append(@, [req |-> r, on |-> table[s]])]
                          ELSE applied
            /\ Goto(h, IF Forwards(h, r) THEN "size" ELSE "reply")
    /\ UNCHANGED <<unread, calls, ended>>

ForwardSize(h) == /\ pc[h] = "size"
                  /\ WriteNext(h, Size(req[h]))
                  /\ Goto(h, "body")
                  /\ UNCHANGED <<req, unread, table, applied, calls, ended>>

ForwardBody(h) == /\ pc[h] = "body"
                  /\ WriteNext(h, Body(req[h]))
                  /\ Goto(h, "reply")
                  /\ UNCHANGED <<req, unread, table, applied, calls, ended>>

\* Mutant: an answer is sent whether or not it fits.
SendAlways(h) == unread' = [unread EXCEPT ![h] = @ + 1]

\* network_send blocks while the connection is full.
Send(h) == /\ unread[h] < Room
           /\ unread' = [unread EXCEPT ![h] = @ + 1]

Answer(h) == /\ pc[h] = "reply"
             /\ Send(h)
             /\ req' = [req EXCEPT ![h] = NoRequest]
             /\ Goto(h, "receive")
             /\ UNCHANGED <<wire, table, applied, calls, ended>>

\* network_receive returns NULL: the handler destroys the table all share.
End(h) == /\ pc[h] = "receive"
          /\ Len(wire[h]) >= 2 /\ ~Readable(h)
          /\ ended' = TRUE
          /\ UNCHANGED <<pc, req, wire, unread, table, applied, calls>>

-----------------------------------------------------------------------------
Handle(h) == Invoke(h) \/ ForwardSize(h) \/ ForwardBody(h) \/ Answer(h)

Next == /\ ~ended
        /\ \/ \E c \in Clients : Call(c)
           \/ \E h \in Handlers : Handle(h) \/ End(h)

Spec == Init /\ [][Next]_vars

\* Every thread that can run is run; a client need not call.
FairSpec == Spec /\ \A h \in Handlers : WF_vars(~ended /\ Handle(h))
-----------------------------------------------------------------------------
Frames == [part : {"size", "body"}, of : Requests]
Writings == [req : Requests, on : Tables]

TypeOK == /\ pc \in [Handlers -> {"receive", "size", "body", "reply"}]
          /\ req \in [Handlers -> Requests \cup {NoRequest}]
          /\ \A h \in Handlers : pc[h] # "receive" => req[h] \in Requests
          /\ \A h \in Handlers : pc[h] \in {"size", "body"} => Home(h) < N
          /\ wire \in [Handlers -> Seq(Frames)]
          /\ unread \in [Handlers -> 0 .. Room]
          /\ table \in [Servers -> Tables]
          /\ applied \in [Servers -> Seq(Writings)]
          /\ calls \in [Clients -> 0 .. MaxCalls]
          /\ ended \in BOOLEAN

\* A server applies the changes of the server before it in their order, leaving
\* none out, and each finds the table it found there: what forwarding in
\* client_handler (network_server.c:491-515) is for.
SameOrder == \A s \in 1 .. N - 1 :
                /\ Len(applied[s + 1]) <= Len(applied[s])
                /\ \A i \in 1 .. Len(applied[s + 1]) : applied[s + 1][i] = applied[s][i]

\* Change number i of server s is the n-th of its key, n = Rank(s, i).
Rank(s, i) == Cardinality({m \in 1 .. i : applied[s][m].req.key = applied[s][i].req.key})

\* The same for each key by itself, whatever happens to the others: the n-th
\* change of a key is that of the server before, and it finds the same value.
SameOrderPerKey ==
    \A s \in 1 .. N - 1 : \A i \in 1 .. Len(applied[s + 1]) :
      \E j \in 1 .. Len(applied[s]) :
         LET mine == applied[s + 1][i]
             its  == applied[s][j]
         IN /\ its.req = mine.req
            /\ Rank(s, j) = Rank(s + 1, i)
            /\ its.on[its.req.key] = mine.on[its.req.key]

\* Nothing is being written, read or executed.
Quiet == ~ended /\ \A h \in Handlers : pc[h] = "receive" /\ wire[h] = <<>>

\* When every write has gone through the chain all servers have the same table.
Converged == Quiet => \A s \in Servers : table[s] = table[1]

\* What changed the first table changes the last one sooner or later.
Propagates == \A i \in 1 .. MaxCalls : Len(applied[1]) >= i ~> Len(applied[N]) >= i

Abstract == INSTANCE ReplicatedTable
              WITH history <- [i \in DOMAIN applied[1] |-> applied[1][i].req],
                   done    <- [s \in Servers |-> Len(applied[s])],
                   replica <- table

\* The chain implements a replicated table.
Replicates == Abstract!Spec
=============================================================================
