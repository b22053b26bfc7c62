---------------------------- MODULE NetworkServer ----------------------------
(***************************************************************************)
(* The connections of a server: the accept loop of network_main_loop, the  *)
(* life of the thread it starts for each connection (client_handler), the  *)
(* count of connected clients, and the end of the process.                 *)
(*                                                                         *)
(* The handler of the h-th accepted connection is h. A socket is known by  *)
(* its descriptor, which the system gives out again once it is closed.     *)
(* Of invoke and its operations this module has what they do to the        *)
(* monitor of the stats, that main and the ending handlers change the      *)
(* count in: most aquire and release it, GET releases it without, and a    *)
(* STATS that waits frees it and may keep it. All of invoke is in          *)
(* TableSkel, forwarding in ChainForward, and what a receive makes of the  *)
(* bytes in Framing.                                                       *)
(***************************************************************************)
EXTENDS Integers, FiniteSets

CONSTANTS Accepts, \* bound: how often accept returns
          Fds      \* the descriptors that are free when the server is ready

ASSUME ServerAssumption == /\ Accepts \in Nat \ {0}
                           /\ Fds \subseteq Nat

Handlers == 1..Accepts
Main     == 0
Threads  == Handlers \cup {Main}
Nobody   == -1
NoFd     == -1      \* what accept returns when it fails
Closed   == 0       \* what is behind a descriptor that is not open

VARIABLES main,     \* where the main thread is
          accepted, \* how often accept returned
          client_socket, \* the variable of network_main_loop
          pc,       \* where handler h is
          targs,    \* the descriptor in the arguments of handler h, while allocated
          fd,       \* the client_socket of handler h
          sock,     \* the connection behind each descriptor
          broken,   \* the connections whose client is gone for good
          connected, \* stats->connected_clients
          reg,      \* the value a thread has read of it to change it
          monitor,  \* who is between aquiring the stats and releasing them
          misused,  \* a GET released the stats, or a STATS waited for them
          table,    \* "live" or "destroyed"
          alive,    \* the process runs
          strayed   \* ghost: a handler counted itself down outside the monitor

mainVars  == <<main, accepted, client_socket>>
connVars  == <<targs, fd, sock, broken>>
countVars == <<connected, reg, monitor, misused, strayed>>
vars      == <<mainVars, pc, connVars, countVars, table, alive>>

\* Where handler h is in its loop; where it is counted as a connected client.
Loop    == {"receive", "serve", "record", "wait", "forward", "answer"}
Counted == {"counted", "lost", "start", "gone"} \cup Loop
               \cup {"stray", "strayStore", "uncount", "store"}

\* The connection handler h reads from and writes to.
Connection(h) == IF fd[h] \in Fds THEN sock[fd[h]] ELSE Closed

\* recv and send return -1.
Unusable(h) == Connection(h) \in broken \cup {Closed}

Init == /\ main = "accept" /\ accepted = 0 /\ client_socket = NoFd
        /\ pc = [h \in Handlers |-> "none"]
        /\ targs = [h \in Handlers |-> NoFd] /\ fd = [h \in Handlers |-> NoFd]
        /\ sock = [f \in Fds |-> Closed] /\ broken = {}
        /\ connected = 0 /\ reg = [t \in Threads |-> 0] /\ monitor = Nobody
        /\ misused = FALSE /\ strayed = FALSE
        /\ table = "live" /\ alive = TRUE

Goto(from, to) == main = from /\ main' = to

Move(h, from, to) == pc[h] = from /\ pc' = [pc EXCEPT ![h] = to]

------------------------------------------------------------------------------
(* The monitor of the stats, and the count: a read and a write, in it.      *)

\* Once the monitor was misused, its counter and its mutex agree no more: whoever
\* wants it may get it while another has it, and may never get it.
Aquire(t) == (monitor = Nobody \/ misused) /\ monitor' = t

Read(t) == reg' = [reg EXCEPT ![t] = connected]

Write(t, change) == /\ connected' = reg[t] + change
                    /\ reg' = [reg EXCEPT ![t] = 0]

\* Mutant: change_connected without its monitor.
BeginWithoutMonitor(t) == Read(t) /\ UNCHANGED <<connected, monitor, misused, strayed>>

BeginChange(t) == /\ Aquire(t)
                  /\ Read(t)
                  /\ UNCHANGED <<connected, misused, strayed>>

\* Mutant: the monitor is not released.
EndWithoutRelease(t, change) == Write(t, change) /\ UNCHANGED <<monitor, misused, strayed>>

EndChange(t, change) == /\ Write(t, change)
                        /\ monitor' = Nobody
                        /\ UNCHANGED <<misused, strayed>>

------------------------------------------------------------------------------
(* The main thread.                                                         *)

\* accept returns a free descriptor, or -1.
Accept == /\ Goto("accept", "count")
          /\ accepted < Accepts /\ accepted' = accepted + 1
          /\ \E f \in {g \in Fds : sock[g] = Closed} \cup {NoFd} :
                /\ client_socket' = f
                /\ sock' = [g \in Fds |-> IF g = f THEN accepted + 1 ELSE sock[g]]
          /\ UNCHANGED <<pc, targs, fd, broken, countVars, table, alive>>

CountBegin == /\ Goto("count", "counting")
              /\ BeginChange(Main)
              /\ UNCHANGED <<accepted, client_socket, pc, connVars, table, alive>>

CountEnd == /\ Goto("counting", "create")
            /\ EndChange(Main, 1)
            /\ Move(accepted, "none", "counted")
            /\ UNCHANGED <<accepted, client_socket, connVars, table, alive>>

\* malloc of the arguments fails: the client stays counted and nobody serves it.
ArgsFail == /\ Goto("create", "accept")
            /\ Move(accepted, "counted", "lost")
            /\ UNCHANGED <<accepted, client_socket, connVars, countVars, table, alive>>

Create == /\ Goto("create", "accept")
          /\ Move(accepted, "counted", "start")
          /\ targs' = [targs EXCEPT ![accepted] = client_socket]
          /\ UNCHANGED <<accepted, client_socket, fd, sock, broken, countVars, table, alive>>

------------------------------------------------------------------------------
(* The loop of client_handler.                                              *)

\* Mutant: the thread is given the address of client_socket itself.
StartWithShared(h) == /\ Move(h, "start", "receive")
                      /\ fd' = [fd EXCEPT ![h] = client_socket]
                      /\ targs' = [targs EXCEPT ![h] = NoFd]
                      /\ UNCHANGED <<mainVars, sock, broken, countVars, table, alive>>

Start(h) == /\ Move(h, "start", "receive")
            /\ fd' = [fd EXCEPT ![h] = targs[h]]
            /\ targs' = [targs EXCEPT ![h] = NoFd]
            /\ UNCHANGED <<mainVars, sock, broken, countVars, table, alive>>

\* Mutant: a closed descriptor is marked as network_close marks its own.
CloseMarks(h) == sock' = [f \in Fds |-> IF f = fd[h] THEN NoFd ELSE sock[f]]

\* close(client_socket): whatever connection is behind the descriptor now.
Close(h) == sock' = [f \in Fds |-> IF f = fd[h] THEN Closed ELSE sock[f]]

\* A request arrives.
Receive(h) == /\ Move(h, "receive", "serve") /\ ~Unusable(h)
              /\ UNCHANGED <<mainVars, connVars, countVars, table, alive>>

\* Mutant: recv is called again after an error, as it is after a return of 0.
ReceiveRetries(h) == /\ Move(h, "receive", "receive")
                     /\ UNCHANGED <<mainVars, connVars, countVars, table, alive>>

\* network_receive returns NULL: a broken connection, or bytes that are no message.
ReceiveFails(h) == /\ Move(h, "receive", "uncount")
                   /\ Close(h)
                   /\ UNCHANGED <<mainVars, targs, fd, broken, countVars, table, alive>>

\* What invoke does on a table that was destroyed may end the process.
UsesTable == alive' \in {TRUE, table = "live"}

\* PUT, DEL, SIZE, GETKEYS and GETTABLE, done with the table or with its keys,
\* record their statistics.
Record(h) == /\ Move(h, "serve", "record")
             /\ Aquire(h) /\ UsesTable
             /\ UNCHANGED <<mainVars, connVars, connected, reg, misused, strayed, table>>

Recorded(h) == /\ Move(h, "record", "forward")
               /\ monitor' = Nobody /\ UsesTable
               /\ UNCHANGED <<mainVars, connVars, connected, reg, misused, strayed, table>>

\* GET records its own without aquiring the stats, and then releases them.
Get(h) == /\ Move(h, "serve", "answer")
          /\ misused' = TRUE /\ UsesTable
          /\ UNCHANGED <<mainVars, connVars, connected, reg, monitor, strayed, table>>

\* STATS finds the counter positive, and only reads.
Stats(h) == /\ Move(h, "serve", "answer")
            /\ monitor = Nobody \/ misused
            /\ UNCHANGED <<mainVars, connVars, countVars, table, alive>>

\* Otherwise it waits on a mutex it does not hold, which frees it under its holder,
\* and holds it when it returns from the wait: nothing releases it then.
StatsWaits(h) == /\ Move(h, "serve", "wait")
                 /\ monitor # Nobody /\ misused' = TRUE
                 /\ UNCHANGED <<mainVars, connVars, connected, reg, monitor, strayed,
                                table, alive>>

StatsWakes(h) == /\ Move(h, "wait", "answer")
                 /\ UNCHANGED <<mainVars, connVars, countVars, table, alive>>

\* The operation was not one to pass on, or rtable_put or rtable_del returned.
Forward(h) == /\ Move(h, "forward", "answer")
              /\ UNCHANGED <<mainVars, connVars, countVars, table, alive>>

\* malloc of the value to pass on fails: the thread ends then and there.
ValueFails(h) == /\ Move(h, "forward", "gone")
                 /\ UNCHANGED <<mainVars, connVars, countVars, table, alive>>

\* network_send.
Answer(h) == /\ Move(h, "answer", "receive") /\ ~Unusable(h)
             /\ UNCHANGED <<mainVars, connVars, countVars, table, alive>>

\* invoke fails, at an operation it does not know, or network_send does.
ServeFails(h) == /\ \E from \in {"serve", "answer"} : Move(h, from, "stray")
                 /\ Close(h)
                 /\ UNCHANGED <<mainVars, targs, fd, broken, countVars, table, alive>>

------------------------------------------------------------------------------
(* The end of client_handler.                                               *)

\* connected_clients(stats, -1) of lines 487 and 518: outside the monitor, and
\* once more at line 524.
StrayRead(h) == /\ Move(h, "stray", "strayStore")
                /\ Read(h) /\ strayed' = TRUE
                /\ UNCHANGED <<mainVars, connVars, connected, monitor, misused, table, alive>>

StrayWrite(h) == /\ Move(h, "strayStore", "uncount")
                 /\ Write(h, -1)
                 /\ UNCHANGED <<mainVars, connVars, monitor, misused, strayed, table, alive>>

UncountBegin(h) == /\ Move(h, "uncount", "store")
                   /\ BeginChange(h)
                   /\ UNCHANGED <<mainVars, connVars, table, alive>>

UncountEnd(h) == /\ Move(h, "store", "close")
                 /\ EndChange(h, -1)
                 /\ UNCHANGED <<mainVars, connVars, table, alive>>

CloseAgain(h) == /\ Move(h, "close", "destroy")
                 /\ Close(h)
                 /\ UNCHANGED <<mainVars, targs, fd, broken, countVars, table, alive>>

\* table_destroy of the one table of the server, and free(arg): the arguments were
\* freed when the handler started, and so the table may have been. What is freed
\* twice may end the process.
Destroy(h) == /\ Move(h, "destroy", "ended")
              /\ table' = "destroyed" /\ alive' \in BOOLEAN
              /\ UNCHANGED <<mainVars, connVars, countVars>>

------------------------------------------------------------------------------
(* The clients, and SIGINT.                                                 *)

\* The client of connection h ends, crashes or closes it with answers unread. One
\* that closes it having read everything does nothing visible: recv then returns
\* 0, and network_receive calls it again, for ever.
ClientBreaks(h) == /\ h \notin broken /\ \E f \in Fds : sock[f] = h
                   /\ broken' = broken \cup {h}
                   /\ UNCHANGED <<mainVars, pc, targs, fd, sock, countVars, table, alive>>

\* server_shutdown runs on the main thread, wherever it is, and never returns.
Interrupt == /\ main \notin {"shutdown", "exit"}
             /\ main' = "shutdown"
             /\ UNCHANGED <<accepted, client_socket, pc, connVars, countVars, table, alive>>

\* network_server_close, which frees nothing that a handler here uses, and
\* table_skel_destroy.
ShutDown == /\ Goto("shutdown", "exit")
            /\ table' = "destroyed"
            /\ alive' \in {TRUE, table = "live"}
            /\ UNCHANGED <<accepted, client_socket, pc, connVars, countVars>>

Exit == /\ main = "exit" /\ alive' = FALSE
        /\ UNCHANGED <<mainVars, pc, connVars, countVars, table>>

------------------------------------------------------------------------------
MainRuns == CountEnd \/ ArgsFail \/ Create \/ ShutDown \/ Exit

Serve(h) == \/ Record(h) \/ Recorded(h)
            \/ Get(h) \/ Stats(h) \/ StatsWaits(h) \/ StatsWakes(h)
            \/ Forward(h) \/ ValueFails(h) \/ Answer(h) \/ ServeFails(h)

Leave(h) == \/ StrayRead(h) \/ StrayWrite(h)
            \/ UncountEnd(h) \/ CloseAgain(h) \/ Destroy(h)

Next == /\ alive
        /\ \/ Accept \/ CountBegin \/ MainRuns \/ Interrupt
           \/ \E h \in Handlers : \/ Start(h) \/ Receive(h) \/ ReceiveFails(h)
                                  \/ Serve(h)
                                  \/ UncountBegin(h) \/ Leave(h)
                                  \/ ClientBreaks(h)

Spec == Init /\ [][Next]_vars

\* What a handler does by itself: a client need not come, send, read or leave, and
\* invoke and forwarding need not return; the section in the monitor does end.
HandlerRuns(h) == \/ Start(h) \/ Recorded(h) \/ Leave(h)
                  \/ Unusable(h) /\ ReceiveFails(h)

\* Who wants the monitor gets it some time if it is free again and again, as long
\* as nobody has misused it.
FairSpec == /\ Spec
            /\ WF_vars(alive /\ MainRuns)
            /\ SF_vars(alive /\ ~misused /\ CountBegin)
            /\ \A h \in Handlers : /\ WF_vars(alive /\ HandlerRuns(h))
                                   /\ SF_vars(alive /\ ~misused /\ UncountBegin(h))

------------------------------------------------------------------------------
(* Properties.                                                              *)

\* Every variable has the type of what it stands for in the code.
TypeOK == /\ main \in {"accept", "count", "counting", "create", "shutdown", "exit"}
          /\ accepted \in 0..Accepts /\ client_socket \in Fds \cup {NoFd}
          /\ pc \in [Handlers -> {"none", "close", "destroy", "ended"} \cup Counted]
          /\ targs \in [Handlers -> Fds \cup {NoFd}]
          /\ fd \in [Handlers -> Fds \cup {NoFd}]
          /\ sock \in [Fds -> Handlers \cup {Closed}]
          /\ broken \subseteq Handlers
          /\ connected \in Int /\ reg \in [Threads -> Int]
          /\ monitor \in Threads \cup {Nobody}
          /\ misused \in BOOLEAN /\ strayed \in BOOLEAN
          /\ table \in {"live", "destroyed"} /\ alive \in BOOLEAN

\* change_connected loses no update (network_server.c:291-298) as long as no client
\* did GET, no STATS had to wait and no handler counted itself down at line 487 or
\* 518: connected_clients is then exactly the number of accepted connections that
\* no handler has left, whatever main and the handlers do at once. Failed accepts
\* count, and so do the handlers that ended at line 497.
CountExact == ~misused /\ ~strayed =>
                  connected = Cardinality({h \in Handlers : pc[h] \in Counted})

\* A handler in its loop whose own connection is not behind its descriptor.
Lost(h) == pc[h] \in Loop /\ fd[h] \in Fds /\ sock[fd[h]] # h

\* Each handler serves the connection it was started for, "the corresponding
\* client's thread" (network_server.c:461), unless an earlier handler closed it
\* by its second close (line 529), of the descriptor its first one (480, 486 or
\* 517) had given back to accept: nothing else takes a connection from its handler.
LostToSecondClose ==
    \A h \in Handlers : Lost(h) =>
        \E g \in Handlers : /\ g < h /\ fd[g] = fd[h]
                            /\ pc[g] \in {"destroy", "ended"}

\* The main thread always comes back to accept, until the process ends: no handler
\* keeps the monitor it needs to count a client (network_server.c:435), whatever it
\* fails at and wherever it is stuck. After a GET or a STATS that waited main may
\* block there for ever (table_skel.c:161, 71-72).
AcceptsAgain == main # "accept" ~> main = "accept" \/ ~alive \/ misused

\* A handler whose client has broken the connection leaves its loop, is counted
\* down and ends (network_server.c:479, 524-537), unless its connection was taken,
\* or the monitor of line 524 misused.
BrokenLeave ==
    \A h \in Handlers : pc[h] = "receive" /\ ~Lost(h) /\ Unusable(h)
                            ~> pc[h] = "ended" \/ Lost(h) \/ ~alive \/ misused
=============================================================================
