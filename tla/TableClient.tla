----------------------------- MODULE TableClient -----------------------------
(***************************************************************************)
(* The command line client: its main thread, which reads commands and      *)
(* calls the first or the last server of the chain, and ZooKeeper's, which *)
(* replaces the two connections when the chain changes. Both run           *)
(* get_read_write_servers, nothing keeps one out of what the other uses,   *)
(* and both use strtok.                                                    *)
(*                                                                         *)
(* For the servers' side of the chain see ChainMembership, for the bytes   *)
(* of a call Framing. Calls to ZooKeeper succeed, but for a node that is   *)
(* gone, and its library opens no descriptor while the client runs.        *)
(***************************************************************************)
EXTENDS Integers

CONSTANTS N,    \* bound: servers that ever join
          Long, \* the servers whose address is longer than that of the others
          Fds   \* the descriptors that are free when the client starts

ASSUME ClientAssumption == N \in Nat /\ Fds \subseteq Nat

Servers == 1..N
Threads == {"main", "zk"}
Roles   == {"write", "read"}
NoFd    == -1
Closed  == 0  \* what is behind a descriptor that is not open
Unknown == 0  \* an address that zoo_get did not get, or not whole

VARIABLES joined,   \* how many servers have got a node, the last one this number
          up,       \* the servers that listen
          nodes,    \* the servers that have a node
          watching, \* ZooKeeper will tell the client of the next change
          events,   \* changes it has told of and child_watcher not taken up
          pc,       \* where each thread is
          on,       \* the connection it deals with: that to write or that to read
          list,     \* list[t]: the children_list of get_read_write_servers
          address,  \* address[t]: its headBuffer ("write") and tailBuffer ("read")
          saved,    \* whose string strtok(NULL, ...) goes on with
          rtable,   \* write_rtable and read_rtable: the descriptor in each
          freed,    \* rtable_disconnect has freed it
          sock,     \* the server each descriptor is connected to
          held,     \* the rtable that main's call was given
          gone,     \* and it was freed since
          sockfd,   \* the descriptor network_send_receive found in it
          alive,    \* the process runs
          upset     \* ghost: which of the races of the two threads happened

zookeeper   == <<joined, up, nodes, watching, events>>
locals      == <<list, address>>
connections == <<rtable, freed, sock>>
call        == <<held, gone, sockfd>>
client      == <<pc, on, locals, saved, connections, call, alive, upset>>
vars        == <<zookeeper, client>>

First(S) == CHOOSE s \in S : \A r \in S : s <= r
Last(S)  == CHOOSE s \in S : \A r \in S : r <= s

Init == /\ joined = 0 /\ up = {} /\ nodes = {} /\ watching = FALSE /\ events = 0
        /\ pc = [t \in Threads |-> IF t = "main" THEN "list" ELSE "idle"]
        /\ on = [t \in Threads |-> "write"]
        /\ list = [t \in Threads |-> {}]
        /\ address = [t \in Threads |-> [r \in Roles |-> Unknown]]
        /\ saved = "main"
        /\ rtable = [r \in Roles |-> NoFd] /\ freed = [r \in Roles |-> FALSE]
        /\ sock = [f \in Fds |-> Closed]
        /\ held = NoFd /\ gone = FALSE /\ sockfd = NoFd
        /\ alive = TRUE /\ upset = {}

\* The process ends, by exit or because of what is undefined.
Ends == alive' = FALSE /\ UNCHANGED <<zookeeper, pc, on, locals, saved, connections, call, upset>>

\* Thread t, at step s for role r, goes on to step s2 for role r2.
Move(t, s, r, s2, r2) == /\ pc[t] = s /\ on[t] = r
                         /\ pc' = [pc EXCEPT ![t] = s2]
                         /\ on' = [on EXCEPT ![t] = r2]

\* Where thread t is when get_read_write_servers returns, and while it runs.
Rest(t)    == IF t = "main" THEN "watch" ELSE "idle"
Refreshing == {"get", "close", "host", "port"}

------------------------------------------------------------------------------
(* The servers and ZooKeeper.                                               *)

\* A change of the nodes is told to the client if it watches, once.
NodesBecome(ns) == /\ nodes' = ns
                   /\ events' = IF watching THEN events + 1 ELSE events
                   /\ watching' = FALSE

Join == /\ joined < N /\ joined' = joined + 1
        /\ up' = up \cup {joined'} /\ NodesBecome(nodes \cup {joined'})
        /\ UNCHANGED client

Leave(s) == /\ s \in up /\ up' = up \ {s}
            /\ UNCHANGED <<joined, nodes, watching, events, client>>

\* The session of a server that left is closed or expires.
Expire(s) == /\ s \in nodes \ up /\ NodesBecome(nodes \ {s})
             /\ UNCHANGED <<joined, up, client>>

------------------------------------------------------------------------------
(* get_read_write_servers, by either thread.                                *)

\* child_watcher.
TakeEvent == /\ events > 0 /\ events' = events - 1
             /\ Move("zk", "idle", on["zk"], "list", "write")
             /\ UNCHANGED <<joined, up, nodes, watching, locals, saved, connections,
                            call, alive, upset>>

\* Mutant: zoo_get_children, which watches nothing.
ListOnce(t) == /\ list' = [list EXCEPT ![t] = nodes]
               /\ Move(t, "list", on[t], IF nodes = {} THEN Rest(t) ELSE "get", "write")
               /\ UNCHANGED <<zookeeper, address, saved, connections, call, alive, upset>>

\* The threads may both be in get_read_write_servers when the client starts.
List(t) == /\ list' = [list EXCEPT ![t] = nodes] /\ watching' = TRUE
           /\ Move(t, "list", on[t], IF nodes = {} THEN Rest(t) ELSE "get", "write")
           /\ upset' = IF \E u \in Threads \ {t} : pc[u] \in Refreshing
                       THEN upset \cup {"overlap"} ELSE upset
           /\ UNCHANGED <<joined, up, nodes, events, address, saved, connections, call, alive>>

\* zoo_get returns ZNONODE, not -1, for a node that is gone: the buffer stays as it
\* was. The length the first call leaves is the room of the second: the rest of a
\* longer address is cut off.
Got(t, r) == LET s == IF r = "write" THEN First(list[t]) ELSE Last(list[t])
                 cut == r = "read" /\ s \in Long
                           /\ address[t]["write"] \notin Long \cup {Unknown}
             IN IF s \in nodes /\ ~cut THEN s ELSE Unknown

Get(t, r) == /\ IF r = "write" THEN Move(t, "get", r, "get", "read")
                               ELSE Move(t, "get", r, "close", "write")
             /\ address' = [address EXCEPT ![t][r] = Got(t, r)]
             /\ UNCHANGED <<zookeeper, list, saved, connections, call, alive, upset>>

\* Mutant: the descriptor is marked as closed as network_close marks it.
CloseMarks(t, r) == /\ Move(t, "close", r, "host", r)
                    /\ sock' = [f \in Fds |-> IF f = rtable[r] THEN NoFd ELSE sock[f]]
                    /\ UNCHANGED <<zookeeper, locals, saved, rtable, freed, call, alive, upset>>

\* Mutant: the rtable is freed and its socket left open.
CloseNothing(t, r) == /\ Move(t, "close", r, "host", r)
                      /\ freed' = [freed EXCEPT ![r] = rtable[r] # NoFd]
                      /\ UNCHANGED <<zookeeper, locals, saved, rtable, sock, call, alive, upset>>

\* rtable_disconnect, which is undefined for an rtable that the other thread freed.
Close(t, r) ==
    \/ /\ Move(t, "close", r, "host", r)
       /\ IF rtable[r] = NoFd \/ freed[r]
          THEN UNCHANGED <<sock, freed, gone>>
          ELSE /\ sock' = [sock EXCEPT ![rtable[r]] = Closed]
               /\ freed' = [freed EXCEPT ![r] = TRUE]
               /\ gone' = (gone \/ held = rtable[r])
       /\ UNCHANGED <<zookeeper, locals, saved, rtable, held, sockfd, alive, upset>>
    \/ pc[t] = "close" /\ on[t] = r /\ freed[r] /\ Ends

\* rtable_connect: strtok finds the host, and strtok(NULL, ":") the port, if the
\* other thread has not begun with a string of its own in between.
Host(t, r) == /\ Move(t, "host", r, "port", r)
              /\ saved' = t
              /\ UNCHANGED <<zookeeper, locals, connections, call, alive, upset>>

\* Who may be connected to under the address that t has for r.
Reachable(t, r) == IF saved = t /\ address[t][r] # Unknown THEN {address[t][r]} \cap up ELSE up

Free == {f \in Fds : sock[f] = Closed}

\* On to the other connection, or out of get_read_write_servers, whose variables go.
Done(t, r) == /\ IF r = "write" THEN Move(t, "port", r, "close", "read")
                                ELSE Move(t, "port", r, Rest(t), "write")
              /\ IF r = "write" THEN UNCHANGED locals
                                ELSE /\ list' = [list EXCEPT ![t] = {}]
                                     /\ address' = [address EXCEPT ![t] = [q \in Roles |-> Unknown]]
              /\ UNCHANGED <<zookeeper, saved, call, alive>>

\* socket and connect, to the lowest descriptor that is free; exit(1) if they fail.
Port(t, r) ==
    \/ /\ Done(t, r) /\ Free # {}
       /\ \E s \in Reachable(t, r) : sock' = [sock EXCEPT ![First(Free)] = s]
       /\ rtable' = [rtable EXCEPT ![r] = First(Free)]
       /\ freed' = [freed EXCEPT ![r] = FALSE]
       /\ upset' = IF saved = t THEN upset ELSE upset \cup {"strtok"}
    \/ /\ pc[t] = "port" /\ on[t] = r
       /\ Free = {} \/ Reachable(t, r) # {address[t][r]}
       /\ Ends

------------------------------------------------------------------------------
(* The loop of main.                                                        *)

\* zoo_wget_children into a list that nobody reads.
Watch == /\ watching' = TRUE
         /\ \E r \in Roles : Move("main", "watch", "write", "parse", r)
         /\ UNCHANGED <<joined, up, nodes, events, locals, saved, connections, call, alive,
                        upset>>

\* strtok(input) finds the command; those that have a key go on to it.
Parse(r) == /\ saved' = "main"
            /\ \E s \in {"key", "call"} : /\ r = "write" => s = "key"
                                          /\ Move("main", "parse", r, s, r)
            /\ UNCHANGED <<zookeeper, locals, connections, call, alive, upset>>

\* strtok(NULL), for the key and what is put under it, may go on with an address.
Key(r) == /\ \/ Move("main", "key", r, "call", r) \/ Move("main", "key", r, "watch", "write")
          /\ upset' = IF saved = "main" THEN upset ELSE upset \cup {"strtok"}
          /\ UNCHANGED <<zookeeper, locals, saved, connections, call, alive>>

\* A call of the client stub is given the rtable, which may be NULL.
Call(r) == /\ \/ rtable[r] # NoFd /\ Move("main", "call", r, "open", r)
              \/ rtable[r] = NoFd /\ Move("main", "call", r, "watch", "write")
           /\ held' = rtable[r] /\ gone' = freed[r]
           /\ UNCHANGED <<zookeeper, locals, saved, connections, sockfd, alive, upset>>

\* network_send_receive reads its descriptor, or anything if it was freed.
Open(r) == /\ Move("main", "open", r, "size", r)
           /\ held' = NoFd /\ gone' = FALSE
           /\ sockfd' \in IF gone THEN Fds \cup {NoFd} ELSE {held}
           /\ upset' = IF gone THEN upset \cup {"freed"} ELSE upset
           /\ UNCHANGED <<zookeeper, locals, saved, connections, alive>>

\* What sockfd is connected to.
Peer == IF sockfd \in Fds THEN sock[sockfd] ELSE Closed

\* The two writes of network_send_receive: a server that left may let one pass.
Write(r) == /\ \/ Move("main", "size", r, "body", r) /\ Peer # Closed /\ UNCHANGED sockfd
               \/ Move("main", "size", r, "watch", "write") /\ Peer \notin up /\ sockfd' = NoFd
               \/ Move("main", "body", r, "watch", "write") /\ sockfd' = NoFd
            /\ UNCHANGED <<zookeeper, locals, saved, connections, held, gone, alive, upset>>

\* The command quit, or SIGINT anywhere (client_quit).
Quit == Ends

------------------------------------------------------------------------------
\* Mutant: the old connection is closed once there is the new one.
Replace(t, r) ==
    /\ Done(t, r) /\ Free # {}
    /\ \E s \in Reachable(t, r) :
          sock' = [f \in Fds |-> IF f = First(Free) THEN s
                                ELSE IF f = rtable[r] THEN Closed ELSE sock[f]]
    /\ rtable' = [rtable EXCEPT ![r] = First(Free)]
    /\ upset' = IF saved = t THEN upset ELSE upset \cup {"strtok"}
    /\ UNCHANGED freed

RefreshByReplacing(t) ==
    \/ List(t)
    \/ \E r \in Roles :
          \/ Get(t, r) \/ Host(t, r) \/ Replace(t, r)
          \/ Move(t, "close", r, "host", r)
                /\ UNCHANGED <<zookeeper, locals, saved, connections, call, alive, upset>>

Refresh(t) == List(t) \/ \E r \in Roles : Get(t, r) \/ Close(t, r) \/ Host(t, r) \/ Port(t, r)

Command == Watch \/ \E r \in Roles : Parse(r) \/ Key(r) \/ Call(r) \/ Open(r) \/ Write(r)

Next == /\ alive
        /\ \/ Join \/ \E s \in Servers : Leave(s) \/ Expire(s)
           \/ TakeEvent \/ \E t \in Threads : Refresh(t)
           \/ Command \/ Quit

Spec == Init /\ [][Next]_vars

\* ZooKeeper's thread runs, and main does until it is in its loop; there it may wait
\* for a command, or in a call, for ever.
FairSpec == /\ Spec
            /\ WF_vars(alive /\ (TakeEvent \/ Refresh("zk")))
            /\ WF_vars(alive /\ Refresh("main"))

------------------------------------------------------------------------------
(* Properties.                                                              *)

\* The types of the variables.
TypeOK == /\ joined \in 0..N /\ up \subseteq Servers /\ nodes \subseteq Servers
          /\ watching \in BOOLEAN /\ events \in Nat
          /\ pc \in [Threads -> {"list", "idle", "watch", "parse", "key", "call", "open",
                                 "size", "body"} \cup Refreshing]
          /\ on \in [Threads -> Roles]
          /\ list \in [Threads -> SUBSET Servers]
          /\ address \in [Threads -> [Roles -> Servers \cup {Unknown}]]
          /\ saved \in Threads
          /\ rtable \in [Roles -> Fds \cup {NoFd}] /\ freed \in [Roles -> BOOLEAN]
          /\ sock \in [Fds -> Servers \cup {Closed}]
          /\ held \in Fds \cup {NoFd} /\ sockfd \in Fds \cup {NoFd} /\ gone \in BOOLEAN
          /\ alive \in BOOLEAN /\ upset \subseteq {"overlap", "strtok", "freed"}

\* The connection for role r goes to server s.
Connected(r, s) == rtable[r] \in Fds /\ ~freed[r] /\ sock[rtable[r]] = s

\* Writes go to the first server of the chain there is and reads to the last, unless
\* its address was cut off.
AtEnds == /\ nodes # {}
          /\ Connected("write", First(nodes))
          /\ \/ Connected("read", Last(nodes))
             \/ Last(nodes) \in Long /\ First(nodes) \notin Long

\* No change of the chain is lost: once the client started and has taken up what it
\* was told of, it is connected to both ends of the chain as it is
\* (table_client.c:37-93), unless its two threads met there or in strtok.
Settled == pc["zk"] = "idle" /\ events = 0 /\ pc["main"] \notin {"list"} \cup Refreshing

Follows == alive /\ Settled /\ upset \cap {"overlap", "strtok"} = {} /\ nodes # {} => AtEnds

\* However the connections are replaced under a command that runs, the descriptor it
\* writes to is closed or that of its own kind of command: a PUT never goes to the
\* server it should read from (table_client.c:66-88), unless the threads met at the
\* start or main found its rtable freed (network_client.c:122).
WritesApart == upset \cap {"overlap", "freed"} = {} /\ Peer # Closed
                  => sockfd = rtable[on["main"]]

\* Every descriptor that is open is that of one of the two connections, so that none
\* is lost, however often they are replaced (client_stub.c:67-85).
NoneLost == "overlap" \notin upset
               => \A f \in Fds : sock[f] # Closed
                     => \E r \in Roles : rtable[r] = f /\ ~freed[r]
                                         /\ \A q \in Roles \ {r} : rtable[q] # f

\* A client that is not connected to the ends of the chain gets there or exits, or
\* the chain changes again and for good has no servers.
CatchesUp == nodes # {} /\ ~AtEnds
                ~> nodes = {} \/ AtEnds \/ ~alive \/ upset \cap {"overlap", "strtok"} # {}
=============================================================================
