--------------------------- MODULE ChainMembership ---------------------------
(***************************************************************************)
(* How the servers of a chain find their successors: the znodes under      *)
(* /chain, the main thread of each server while it joins                   *)
(* (network_server_init, setTable) and child_watcher, which ZooKeeper runs *)
(* in a thread of its own. Server s is the s-th process to create a znode; *)
(* a restarted server is a new one.                                        *)
(*                                                                         *)
(* Both threads list the children into the global children_list, without a *)
(* lock: each asks, has the answer stored there, and sorts it. If one is   *)
(* between its question and its last use of the list while the other is,   *)
(* what child_watcher finds there, and what is left there, is undefined,   *)
(* and next_server may become any server.                                  *)
(***************************************************************************)
EXTENDS Integers, Sequences, FiniteSets

CONSTANTS N,       \* how many servers may join
          Watched, \* bound: those whose threads take steps; the others come and go
          None,    \* no server: the NULL of next_server, and of an address
          Undefined \* what both threads of a server worked on at once

ASSUME MembershipAssumption == /\ N \in Nat \ {0} /\ Watched \subseteq 1..N
                               /\ None \notin 1..N
                               /\ Undefined \notin Seq(1..N) \cup 1..N \cup {None}

Servers == 1..N
Threads == {"main", "watcher"}

VARIABLES nodes,  \* ZooKeeper's children of /chain, each named by its server
          watch,  \* whether a change of nodes is to be reported to s, once
          events, \* reports that child_watcher of s has not taken up
          pc,     \* where the main thread is
          listing, \* where it is in a listing: "no", "asked" or "stored"
          watcher, \* where child_watcher is
          answer, \* answer[s][t]: what ZooKeeper told thread t and is not yet stored
          children_list,
          next_server,
          target, \* the successor child_watcher found, None without an address
          heard   \* whether child_watcher has run, and alone: see HeardValues

zookeeper == <<nodes, watch, events>>
main      == <<pc, listing>>
lists     == <<answer, children_list>>
chain     == <<next_server, watcher, target>>
vars      == <<zookeeper, main, lists, chain, heard>>

\* child_watcher never ran; the last time it ran alone; main was listing at the same
\* time; it was, and now child_watcher runs again, alone so far.
HeardValues == {"never", "alone", "mixed", "mending"}

Running(s) == pc[s] \notin {"new", "off"}

\* node_id is set at the end of create_current_znode.
HasNodeId(s) == pc[s] \in {"named", "relisted", "joined", "serving"}

Entries(list) == {list[i] : i \in 1..Len(list)}

\* Where network_server_init and create_current_znode list the children.
Lists(s) == pc[s] \in {"created", "named", "relisted"}

\* The orders that ZooKeeper may send the nodes of S in.
Arrangements(S) == {list \in [1..Cardinality(S) -> S] : Entries(list) = S}

\* Mutant: the list is not sorted.
Unsorted(list) == {list}

Ascending(list) == \A i, j \in 1..Len(list) : i < j => list[i] < list[j]

\* qsort, of a list without duplicates.
Sorted(list) == {l \in Arrangements(Entries(list)) : Ascending(l)}

\* The node after that of s.
Successor(ns, s) == LET later == {n \in ns : n > s}
                    IN  IF later = {} THEN None
                        ELSE CHOOSE n \in later : \A m \in later : n <= m

------------------------------------------------------------------------------
(* ZooKeeper. A watch reports one change and is gone.                       *)

\* Mutant: watches stay.
NodesBecomeWatched(ns) ==
    /\ nodes' = ns
    /\ events' = [s \in Servers |-> IF watch[s] THEN events[s] + 1 ELSE events[s]]
    /\ UNCHANGED watch

NodesBecome(ns) == /\ nodes' = ns
                   /\ events' = [s \in Servers |-> IF watch[s] THEN events[s] + 1 ELSE events[s]]
                   /\ watch' = [s \in Servers |-> FALSE]

\* The session of a server that ended is closed or expires.
Expire(s) == /\ pc[s] = "off" /\ s \in nodes
             /\ NodesBecome(nodes \ {s})
             /\ UNCHANGED <<main, lists, chain, heard>>

\* Mutant: zoo_get_children, which asks for no report.
AskOnce(s, t) == /\ answer' = [answer EXCEPT ![s][t] = nodes]
                 /\ UNCHANGED <<nodes, watch, children_list>>

\* zoo_wget_children for server s: the children now, and a report of the next change.
Ask(s, t) == /\ answer' = [answer EXCEPT ![s][t] = nodes]
             /\ watch' = [watch EXCEPT ![s] = TRUE]
             /\ UNCHANGED <<nodes, children_list>>

\* children_list becomes one of lists, unless the other thread works on it too.
Leaves(s, outcomes) ==
    \E list \in IF heard[s] = "mixed" THEN {Undefined} ELSE outcomes :
       children_list' = [children_list EXCEPT ![s] = list]

\* The answer gets into children_list, in whatever order ZooKeeper sent it.
Store(s, t) == /\ Leaves(s, Arrangements(answer[s][t]))
               /\ answer' = [answer EXCEPT ![s][t] = {}]

Sort(s) == Leaves(s, Sorted(children_list[s])) /\ UNCHANGED answer

------------------------------------------------------------------------------
(* The main thread.                                                         *)

Init == /\ nodes = {}
        /\ watch = [s \in Servers |-> FALSE]
        /\ events = [s \in Servers |-> 0]
        /\ pc = [s \in Servers |-> "new"]
        /\ listing = [s \in Servers |-> "no"]
        /\ watcher = [s \in Servers |-> "idle"]
        /\ answer = [s \in Servers |-> [t \in Threads |-> {}]]
        /\ children_list = [s \in Servers |-> <<>>]
        /\ next_server = [s \in Servers |-> None]
        /\ target = [s \in Servers |-> None]
        /\ heard = [s \in Servers |-> "never"]

Goto(s, label) == pc' = [pc EXCEPT ![s] = label]

\* The process ends, and with it its memory, its sockets and its watches.
Ends(s) == /\ Goto(s, "off")
           /\ watch' = [watch EXCEPT ![s] = FALSE]
           /\ events' = [events EXCEPT ![s] = 0]
           /\ listing' = [listing EXCEPT ![s] = "no"]
           /\ watcher' = [watcher EXCEPT ![s] = "idle"]
           /\ answer' = [answer EXCEPT ![s] = [t \in Threads |-> {}]]
           /\ children_list' = [children_list EXCEPT ![s] = <<>>]
           /\ next_server' = [next_server EXCEPT ![s] = None]
           /\ target' = [target EXCEPT ![s] = None]
           /\ heard' = [heard EXCEPT ![s] = "never"]
           /\ UNCHANGED nodes

\* zoo_create of a node with the next number, by a server that listens already.
CreateNode(s) == /\ pc[s] = "new" /\ \A r \in 1..s-1 : pc[r] # "new"
                 /\ Goto(s, "created")
                 /\ NodesBecome(nodes \cup {s})
                 /\ UNCHANGED <<listing, lists, chain, heard>>

\* The three listings: in create_current_znode after three seconds of sleep, and two
\* in network_server_init.
AskMain(s) == /\ Lists(s) /\ listing[s] = "no"
              /\ listing' = [listing EXCEPT ![s] = "asked"]
              /\ Ask(s, "main")
              /\ heard' = [heard EXCEPT ![s] = IF watcher[s] = "idle" THEN @ ELSE "mixed"]
              /\ UNCHANGED <<events, pc, chain>>

StoreMain(s) == /\ listing[s] = "asked"
                /\ listing' = [listing EXCEPT ![s] = "stored"]
                /\ Store(s, "main")
                /\ UNCHANGED <<zookeeper, pc, chain, heard>>

SortMain(s) == /\ listing[s] = "stored"
               /\ listing' = [listing EXCEPT ![s] = "no"]
               /\ Sort(s)
               /\ Goto(s, CASE pc[s] = "created" -> "listed"
                            [] pc[s] = "named"   -> "relisted"
                            [] OTHER             -> "joined")
               /\ UNCHANGED <<zookeeper, chain, heard>>

SetNodeId(s) == /\ pc[s] = "listed"
                /\ Goto(s, "named")
                /\ UNCHANGED <<zookeeper, listing, lists, chain, heard>>

\* The callback connection may have set is_connected to either value, here and in
\* setTable: without it the last listing is left out.
NotConnected(s) == /\ pc[s] = "relisted" /\ listing[s] = "no"
                   /\ Goto(s, "joined")
                   /\ UNCHANGED <<zookeeper, listing, lists, chain, heard>>

\* Whether children_list has the node of s alone.
First(s) == IF children_list[s] = Undefined THEN BOOLEAN ELSE {Len(children_list[s]) <= 1}

\* setTable. When is_connected is set and there is a predecessor, rtable_get_table
\* returns NULL (no call returns an answer, network_client.c:144) and the process ends.
setTable(s) == /\ pc[s] = "joined"
               /\ \E is_connected \in BOOLEAN, first \in First(s) :
                     IF first \/ ~is_connected
                     THEN /\ Goto(s, "serving")
                          /\ UNCHANGED <<zookeeper, listing, lists, chain, heard>>
                     ELSE Ends(s)

\* server_shutdown, exit or a crash.
Leave(s) == Running(s) /\ Ends(s)

------------------------------------------------------------------------------
(* child_watcher.                                                           *)

Watcher(s, from, to) == watcher[s] = from /\ watcher' = [watcher EXCEPT ![s] = to]

TakeEvent(s) == /\ Running(s) /\ events[s] > 0
                /\ events' = [events EXCEPT ![s] = @ - 1]
                /\ Watcher(s, "idle", "asked")
                /\ Ask(s, "watcher")
                /\ heard' = [heard EXCEPT ![s] = IF listing[s] # "no" THEN "mixed"
                                                 ELSE IF @ \in {"never", "alone"} THEN "alone"
                                                 ELSE "mending"]
                /\ UNCHANGED <<main, next_server, target>>

StoreWatcher(s) == /\ Watcher(s, "asked", "stored")
                   /\ Store(s, "watcher")
                   /\ UNCHANGED <<zookeeper, main, next_server, target, heard>>

SortWatcher(s) == /\ Watcher(s, "stored", "search")
                  /\ Sort(s)
                  /\ UNCHANGED <<zookeeper, main, next_server, target, heard>>

\* The loop is over, or the function returns from it. Beside a list of main it may
\* find its own node once more.
Done(s) == /\ \/ watcher' = [watcher EXCEPT ![s] = "idle"]
              \/ heard[s] = "mixed" /\ watcher' = [watcher EXCEPT ![s] = "search"]
           /\ heard' = [heard EXCEPT ![s] = IF @ = "mending" THEN "alone" ELSE @]

\* What comes after s in a list.
Beside(list, s) == {list[i + 1] : i \in {j \in 1..Len(list) - 1 : list[j] = s}}

\* It looks for its own node. Without a node_id it ends the process (strcmp with
\* NULL).
SearchNothing(s) == /\ watcher[s] = "search" /\ ~HasNodeId(s)
                    /\ Ends(s)

\* The node of s is the last, or not there.
FindNobody(s) == /\ watcher[s] = "search" /\ HasNodeId(s)
                 /\ IF heard[s] = "mixed"
                    THEN next_server' = [next_server EXCEPT ![s] = Undefined]
                    ELSE /\ Beside(children_list[s], s) = {}
                         /\ next_server' = IF s \notin Entries(children_list[s]) THEN next_server
                                           ELSE [next_server EXCEPT ![s] = None]
                 /\ Done(s)
                 /\ UNCHANGED <<zookeeper, main, lists, target>>

FindNext(s) == /\ HasNodeId(s) /\ Watcher(s, "search", "get")
               /\ \E next \in IF heard[s] = "mixed" THEN {Undefined}
                                                   ELSE Beside(children_list[s], s) :
                     target' = [target EXCEPT ![s] = next]
               /\ UNCHANGED <<zookeeper, main, lists, next_server, heard>>

\* zoo_get. For a node that is gone it is not -1 but ZNONODE: the code goes on,
\* with a buffer that holds no address.
GetAddress(s) == /\ Watcher(s, "get", "connect")
                 /\ target' = [target EXCEPT ![s] = IF @ \in nodes \cup {Undefined} THEN @ ELSE None]
                 /\ UNCHANGED <<zookeeper, main, lists, next_server, heard>>

\* What rtable_connect gives: nobody when the server does not listen any more.
Reached(server) == IF server \in Servers /\ ~Running(server) THEN None ELSE server

\* Mutant: a server that is connected keeps its connection.
ReconnectOnce(s) == /\ watcher[s] = "connect"
                    /\ next_server' = [next_server EXCEPT ![s] =
                          IF @ # None THEN @ ELSE Reached(target[s])]
                    /\ target' = [target EXCEPT ![s] = None]
                    /\ Done(s)
                    /\ UNCHANGED <<zookeeper, main, lists>>

\* rtable_disconnect and rtable_connect.
Reconnect(s) == /\ watcher[s] = "connect"
                /\ next_server' = [next_server EXCEPT ![s] = Reached(target[s])]
                /\ target' = [target EXCEPT ![s] = None]
                /\ Done(s)
                /\ UNCHANGED <<zookeeper, main, lists>>

child_watcher(s) == \/ TakeEvent(s) \/ StoreWatcher(s) \/ SortWatcher(s)
                    \/ SearchNothing(s) \/ FindNobody(s) \/ FindNext(s)
                    \/ GetAddress(s) \/ Reconnect(s)

------------------------------------------------------------------------------
join(s) == \/ AskMain(s) \/ StoreMain(s) \/ SortMain(s)
           \/ SetNodeId(s) \/ NotConnected(s) \/ setTable(s)

Next == \/ \E s \in Servers : CreateNode(s) \/ Leave(s) \/ Expire(s)
        \/ \E s \in Watched : join(s) \/ child_watcher(s)

Spec == Init /\ [][Next]_vars

\* In a process some thread runs if one can, and ZooKeeper's sessions time out (each
\* once, so that it is enough that some does). Nobody must start a server or end one.
FairSpec == /\ Spec
            /\ \A s \in Watched : WF_vars(join(s) \/ child_watcher(s))
            /\ WF_vars(\E s \in Servers : Expire(s))

------------------------------------------------------------------------------
(* Properties.                                                              *)

\* Every variable has the type of what it stands for; at most three events wait
\* for child_watcher, since main asks for three reports and child_watcher for one
\* when it has taken one up.
TypeOK ==
    /\ nodes \subseteq Servers
    /\ watch \in [Servers -> BOOLEAN]
    /\ events \in [Servers -> 0..3]
    /\ pc \in [Servers -> {"new", "created", "listed", "named", "relisted", "joined",
                           "serving", "off"}]
    /\ listing \in [Servers -> {"no", "asked", "stored"}]
    /\ watcher \in [Servers -> {"idle", "asked", "stored", "search", "get", "connect"}]
    /\ answer \in [Servers -> [Threads -> SUBSET Servers]]
    /\ children_list \in [Servers -> Seq(Servers) \cup {Undefined}]
    /\ next_server \in [Servers -> Servers \cup {None, Undefined}]
    /\ target \in [Servers -> Servers \cup {None, Undefined}]
    /\ heard \in [Servers -> HeardValues]

\* child_watcher of s never ran, or alone the last time.
Alone(s) == heard[s] \in {"never", "alone"}

\* Writes are forwarded to servers that joined later only: they never come back
\* to a server that has applied them, however events and restarts interleave
\* (network_server.c:204-235). Where main listed during the last run of
\* child_watcher (lines 368-390), next_server may be any server.
ForwardsToLater == \A s \in Servers :
                      Alone(s) /\ next_server[s] # None => next_server[s] > s

\* A server in which nobody is listing and no event is to be taken up has the
\* children there are, in order: no change falls between a listing and the watch
\* that comes with it (network_server.c:79, 200, 368, 386). Where the listings of
\* main and child_watcher met, the older may have replaced the newer.
ListIsCurrent == \A s \in Servers :
                    /\ Running(s) /\ pc[s] # "created" /\ listing[s] = "no"
                    /\ watcher[s] \notin {"asked", "stored"} /\ events[s] = 0 /\ Alone(s)
                    => Entries(children_list[s]) = nodes /\ Ascending(children_list[s])

\* No change of the chain is on its way to any server.
Settled == /\ \A s \in Servers : events[s] = 0 /\ watcher[s] = "idle"
           /\ \A n \in nodes : Running(n)

\* Once the chain has settled each server whose child_watcher ran, and the last time
\* without a listing of main, is connected to its successor and the last one to
\* nobody (network_server.c:212-246).
HeardConnected == Settled => \A s \in Servers :
                     Running(s) /\ heard[s] = "alone" => next_server[s] = Successor(nodes, s)

\* When servers stop coming and going the chain heals: from some moment on they
\* all have their successors, those excepted that never got an event, or got the
\* last one while main was listing.
ChainHeals == <>[](\A s \in Servers :
                      Running(s) /\ heard[s] \in {"alone", "mending"}
                          => heard[s] = "alone" /\ next_server[s] = Successor(nodes, s))
=============================================================================
