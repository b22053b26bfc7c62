-------------------------- MODULE TableClientProofs --------------------------
(***************************************************************************)
(* Proofs about TableClient, for any number of servers and descriptors:    *)
(* its types, and what holds unless its two threads meet: no descriptor is *)
(* lost, a call writes to a connection of its own kind, and the client     *)
(* ends up connected to both ends of the chain.                            *)
(***************************************************************************)
EXTENDS TableClient, FiniteSetTheorems, TLAPS

\* An rtable that is there and not freed.
Live(r) == rtable[r] # NoFd /\ ~freed[r]

\* The two lowest descriptors there are: that to write with and that to read with.
Lowest  == First(Fds)
Second  == First(Fds \ {Lowest})
Fd(r)   == IF r = "write" THEN Lowest ELSE Second

\* f is the descriptor of role r, and not that of the other.
Own(r, f) == f = Fd(r) /\ (r = "read" => f # Lowest)

\* One thread at a time replaces the connections.
Apart == \A t, u \in Threads : t # u /\ pc[t] \in Refreshing => pc[u] \notin Refreshing

\* Where it does so for each of them: first that to write with, then the other.
Replacing(t) == /\ pc[t] \in {"host", "port"} => ~Live(on[t])
                /\ pc[t] \in {"close", "host", "port"} /\ on[t] = "read" => Live("write")

\* The descriptor in an rtable, and what is behind it.
Kept(r) == /\ rtable[r] # NoFd => Own(r, rtable[r])
           /\ Live(r) => sock[rtable[r]] # Closed
           /\ freed[r] => \E t \in Threads : pc[t] \in {"host", "port"} /\ on[t] = r

\* Every descriptor that is open is that of an rtable.
Owned == \A f \in Fds : sock[f] # Closed => \E r \in Roles : Live(r) /\ rtable[r] = f

Sockets == /\ Apart /\ Owned
           /\ \A t \in Threads : Replacing(t)
           /\ \A r \in Roles : Kept(r)

\* The descriptors that a call of main goes by.
Calling == /\ held # NoFd => pc["main"] = "open" /\ Own(on["main"], held)
           /\ sockfd # NoFd /\ "freed" \notin upset =>
                 pc["main"] \in {"size", "body"} /\ Own(on["main"], sockfd)

\* What is listed is what there is, and so is what was connected to.
Cut == Last(nodes) \in Long /\ First(nodes) \notin Long

Current(t) ==
    /\ list[t] = nodes /\ nodes # {}
    /\ pc[t] # "get" \/ on[t] = "read" => address[t]["write"] = First(nodes)
    /\ pc[t] # "get" => address[t]["read"] = Last(nodes) \/ Cut
    /\ pc[t] # "get" /\ on[t] = "read" => Connected("write", First(nodes))

\* Nothing is to be taken up.
Heard == events = 0 /\ pc["zk"] # "list" /\ pc["main"] # "list"

Informed == Heard =>
    /\ watching
    /\ \A t \in Threads : pc[t] \in Refreshing => Current(t)
    /\ nodes # {} /\ (\A t \in Threads : pc[t] \notin Refreshing) => AtEnds

NoOverlap == "overlap" \notin upset
NoRace    == NoOverlap /\ "strtok" \notin upset

IInv == /\ NoOverlap => Sockets /\ Calling
        /\ NoRace => Informed

------------------------------------------------------------------------------
(* The first and the last of a set.                                         *)

LEMMA Minimum == ASSUME NEW S \in SUBSET Nat, S # {}
                 PROVE  First(S) \in S /\ \A m \in S : First(S) <= m
<1> DEFINE R == StrictSubsetOrdering(Nat)
           F == FiniteSubsetsOf(Nat)
           Below(n) == {m \in Nat : m <= n}
           T == {Below(n) : n \in S}
<1>1. IsWellFoundedOn(R, F)
  BY FS_StrictSubsetOrderingWellFounded
<1>2. \A n \in S : Below(n) \in F
  <2> TAKE n \in S
  <2>1. Below(n) = 0..n
    OBVIOUS
  <2>2. n \in Int /\ 0 \in Int /\ Below(n) \in SUBSET Nat
    OBVIOUS
  <2>3. IsFiniteSet(Below(n))
    BY <2>1, <2>2, FS_Interval
  <2> QED BY <2>2, <2>3 DEF FiniteSubsetsOf
<1>3. T \subseteq F /\ T # {}
  BY <1>2
<1> HIDE DEF R, F
<1>4. PICK x \in T : \A y \in T : <<y, x>> \notin R
  BY <1>1, <1>3, WFMin
<1>5. PICK n \in S : x = Below(n)
  BY <1>4
<1>6. ASSUME NEW m \in S, m < n PROVE FALSE
  <2>1. Below(m) \in SUBSET Nat /\ Below(n) \in SUBSET Nat /\ Below(m) \subseteq Below(n)
    BY <1>6
  <2>2. n \in Below(n) /\ n \notin Below(m)
    BY <1>6
  <2>3. <<Below(m), Below(n)>> \in R
    BY <2>1, <2>2 DEF R, StrictSubsetOrdering
  <2> QED BY <2>3, <1>4, <1>5
<1>7. \A m \in S : n <= m
  BY <1>6
<1> QED BY <1>7 DEF First

LEMMA Maximum == ASSUME NEW S \in SUBSET Servers, S # {}
                 PROVE  Last(S) \in S
<1> DEFINE T == {N - s : s \in S}
<1>1. T \in SUBSET Nat /\ T # {}
  BY ClientAssumption DEF Servers
<1>2. First(T) \in T /\ \A m \in T : First(T) <= m
  <2> HIDE DEF T
  <2> QED BY <1>1, Minimum
<1>3. PICK s \in S : First(T) = N - s
  BY <1>2
<1>4. \A r \in S : r <= s
  <2> TAKE r \in S
  <2>1. N - s <= N - r
    BY <1>2, <1>3
  <2> QED BY <2>1, ClientAssumption DEF Servers
<1> QED BY <1>4 DEF Last

LEMMA BothEnds == ASSUME NEW S \in SUBSET Servers, S # {}
              PROVE  First(S) \in S /\ Last(S) \in S
<1>1. S \in SUBSET Nat
  BY ClientAssumption DEF Servers
<1> QED BY <1>1, Minimum, Maximum

LEMMA FreeFd == ASSUME TypeOK, Free # {}
                PROVE  /\ First(Free) \in Fds /\ sock[First(Free)] = Closed
                       /\ \A f \in Fds : sock[f] = Closed => First(Free) <= f
<1>1. Free \in SUBSET Nat
  BY ClientAssumption DEF Free
<1>2. First(Free) \in Free /\ \A f \in Free : First(Free) <= f
  BY <1>1, Minimum
<1> QED BY <1>2 DEF Free

LEMMA AtMost == ASSUME NEW m \in Nat, NEW n \in Nat, m <= n, n <= m PROVE m = n
OBVIOUS

LEMMA NoFdIsNone == NoFd \notin Fds /\ Closed \notin Servers /\ Fds \subseteq Nat
BY ClientAssumption DEF NoFd, Closed, Servers

------------------------------------------------------------------------------
(* Typing.                                                                  *)

Places == {"list", "idle", "watch", "parse", "key", "call", "open", "size", "body"}
             \cup Refreshing

LEMMA TypeInit == Init => TypeOK
<1> SUFFICES ASSUME Init PROVE TypeOK
  OBVIOUS
<1>1. /\ pc \in [Threads -> {"list", "idle"}] /\ on \in [Threads -> Roles]
      /\ list \in [Threads -> SUBSET Servers]
      /\ address \in [Threads -> [Roles -> Servers \cup {Unknown}]]
  BY DEF Init, Roles
<1>2. /\ rtable \in [Roles -> Fds \cup {NoFd}] /\ freed \in [Roles -> BOOLEAN]
      /\ sock \in [Fds -> Servers \cup {Closed}]
  BY DEF Init
<1>3. joined \in 0..N /\ saved \in Threads
  BY ClientAssumption DEF Init, Threads
<1> QED BY <1>1, <1>2, <1>3 DEF Init, TypeOK

\* The types of what several actions have in common.
LEMMA MoveTypes ==
    ASSUME TypeOK, NEW t \in Threads, NEW s, NEW r, NEW s2 \in Places, NEW r2 \in Roles,
           Move(t, s, r, s2, r2)
    PROVE  /\ pc' \in [Threads -> Places]
           /\ on' \in [Threads -> Roles]
BY DEF Move, TypeOK, Places

LEMMA RestTypes == ASSUME NEW t \in Threads PROVE Rest(t) \in {"watch", "idle"}
BY DEF Rest

LEMMA ReachableTypes == ASSUME TypeOK, NEW t \in Threads, NEW r \in Roles
                        PROVE  Reachable(t, r) \subseteq Servers
BY DEF Reachable, TypeOK

LEMMA ChangeTypes == ASSUME TypeOK, NEW ns \in SUBSET Servers, NodesBecome(ns)
                     PROVE  nodes' \subseteq Servers /\ watching' \in BOOLEAN /\ events' \in Nat
<1>1. (IF watching THEN events + 1 ELSE events) \in Nat
  BY DEF TypeOK
<1> QED BY <1>1 DEF NodesBecome

LEMMA TypeStep == TypeOK /\ [Next]_vars => TypeOK'
<1> SUFFICES ASSUME TypeOK, [Next]_vars PROVE TypeOK'
  OBVIOUS
<1>0. Roles = {"write", "read"} /\ Threads = {"main", "zk"}
  BY DEF Roles, Threads
<1>1. CASE UNCHANGED vars
  BY <1>1 DEF vars, client, zookeeper, locals, connections, call, TypeOK
<1>2. CASE Join
  <2>1. joined' \in 0..N /\ joined' \in Servers
    BY <1>2, ClientAssumption DEF Join, TypeOK, Servers
  <2>2. up' \subseteq Servers /\ nodes \cup {joined'} \in SUBSET Servers
    BY <1>2, <2>1 DEF Join, TypeOK
  <2>3. nodes' \subseteq Servers /\ watching' \in BOOLEAN /\ events' \in Nat
    BY <1>2, <2>2, ChangeTypes DEF Join
  <2> QED BY <1>2, <2>1, <2>2, <2>3 DEF Join, TypeOK, client, locals, connections, call
<1>3. ASSUME NEW s \in Servers, Leave(s) PROVE TypeOK'
  BY <1>3 DEF Leave, TypeOK, client, locals, connections, call
<1>4. ASSUME NEW s \in Servers, Expire(s) PROVE TypeOK'
  <2>1. nodes \ {s} \in SUBSET Servers
    BY DEF TypeOK
  <2>2. nodes' \subseteq Servers /\ watching' \in BOOLEAN /\ events' \in Nat
    BY <1>4, <2>1, ChangeTypes DEF Expire
  <2> QED BY <1>4, <2>2 DEF Expire, TypeOK, client, locals, connections, call
<1>5. CASE TakeEvent
  <2>1. events' \in Nat
    BY <1>5 DEF TakeEvent, TypeOK, Places
  <2>2. /\ pc' \in [Threads -> Places]
        /\ on' \in [Threads -> Roles]
    BY <1>0, <1>5, MoveTypes DEF TakeEvent, Places
  <2> QED BY <1>5, <2>1, <2>2 DEF TakeEvent, TypeOK, Places, locals, connections, call
<1>6. ASSUME NEW t \in Threads, List(t) PROVE TypeOK'
  <2>1. (IF nodes = {} THEN Rest(t) ELSE "get") \in {"idle", "watch"} \cup Refreshing
    BY RestTypes DEF Refreshing
  <2>2. /\ pc' \in [Threads -> Places]
        /\ on' \in [Threads -> Roles]
    BY <1>0, <1>6, <2>1, MoveTypes DEF List, Places
  <2> QED BY <1>6, <2>2 DEF List, TypeOK, Places, connections, call
<1>7. ASSUME NEW t \in Threads, NEW r \in Roles, Get(t, r) PROVE TypeOK'
  <2>1. Got(t, r) \in Servers \cup {Unknown}
    BY DEF Got, TypeOK
  <2>2. /\ pc' \in [Threads -> Places]
        /\ on' \in [Threads -> Roles]
    BY <1>0, <1>7, MoveTypes DEF Get, Places, Refreshing
  <2>3. address' \in [Threads -> [Roles -> Servers \cup {Unknown}]]
    BY <1>7, <2>1 DEF Get, TypeOK, Places
  <2> QED BY <1>7, <2>2, <2>3 DEF Get, TypeOK, Places, zookeeper, connections, call
<1>8. CASE Ends
  BY <1>8 DEF Ends, TypeOK, zookeeper, locals, connections, call
<1>9. ASSUME NEW t \in Threads, NEW r \in Roles, Close(t, r) PROVE TypeOK'
  <2>1. CASE Ends
    BY <1>8, <2>1
  <2>2. CASE Move(t, "close", r, "host", r)
    <3>1. /\ pc' \in [Threads -> Places]
          /\ on' \in [Threads -> Roles]
      BY <2>2, MoveTypes DEF Places, Refreshing
    <3>2. /\ sock' \in [Fds -> Servers \cup {Closed}] /\ freed' \in [Roles -> BOOLEAN]
          /\ gone' \in BOOLEAN
      BY <1>8, <1>9 DEF Close, TypeOK, Ends, connections, call
    <3>3. CASE UNCHANGED <<zookeeper, locals, saved, rtable, held, sockfd, alive, upset>>
      BY <3>1, <3>2, <3>3 DEF TypeOK, Places, zookeeper, locals
    <3> QED BY <1>8, <1>9, <3>3 DEF Close
  <2> QED BY <1>9, <2>1, <2>2 DEF Close
<1>10. ASSUME NEW t \in Threads, NEW r \in Roles, Host(t, r) PROVE TypeOK'
  <2>1. /\ pc' \in [Threads -> Places]
        /\ on' \in [Threads -> Roles]
    BY <1>10, MoveTypes DEF Host, Places, Refreshing
  <2> QED BY <1>10, <2>1 DEF Host, TypeOK, Places, zookeeper, locals, connections, call
<1>11. ASSUME NEW t \in Threads, NEW r \in Roles, Port(t, r) PROVE TypeOK'
  <2>1. ASSUME Done(t, r), Free # {}, NEW s \in Reachable(t, r),
               sock' = [sock EXCEPT ![First(Free)] = s],
               rtable' = [rtable EXCEPT ![r] = First(Free)],
               freed' = [freed EXCEPT ![r] = FALSE],
               upset' = IF saved = t THEN upset ELSE upset \cup {"strtok"}
        PROVE  TypeOK'
    <3>1. /\ pc' \in [Threads -> Places]
          /\ on' \in [Threads -> Roles]
      BY <1>0, <2>1, MoveTypes, RestTypes DEF Done, Places, Refreshing
    <3>2. s \in Servers /\ First(Free) \in Fds
      BY <2>1, ReachableTypes, FreeFd
    <3>3. /\ rtable' \in [Roles -> Fds \cup {NoFd}] /\ freed' \in [Roles -> BOOLEAN]
          /\ sock' \in [Fds -> Servers \cup {Closed}]
          /\ upset' \subseteq {"overlap", "strtok", "freed"}
      BY <2>1, <3>2 DEF TypeOK
    <3>4. /\ list' \in [Threads -> SUBSET Servers]
          /\ address' \in [Threads -> [Roles -> Servers \cup {Unknown}]]
      <4>1. [q \in Roles |-> Unknown] \in [Roles -> Servers \cup {Unknown}]
        OBVIOUS
      <4>2. CASE r = "write"
        BY <2>1, <4>2 DEF Done, TypeOK, locals
      <4>3. CASE r # "write"
        BY <2>1, <4>1, <4>3 DEF Done, TypeOK
      <4> QED BY <4>2, <4>3
    <3> QED BY <2>1, <3>1, <3>3, <3>4 DEF Done, TypeOK, Places, zookeeper, call
  <2> QED BY <1>8, <1>11, <2>1 DEF Port
<1>12. CASE Watch
  <2>1. /\ pc' \in [Threads -> Places]
        /\ on' \in [Threads -> Roles]
    BY <1>0, <1>12, MoveTypes DEF Watch, Places
  <2> QED BY <1>12, <2>1 DEF Watch, TypeOK, Places, locals, connections, call
<1>13. ASSUME NEW r \in Roles, Parse(r) PROVE TypeOK'
  <2>1. /\ pc' \in [Threads -> Places]
        /\ on' \in [Threads -> Roles]
    BY <1>0, <1>13, MoveTypes DEF Parse, Places
  <2> QED BY <1>0, <1>13, <2>1 DEF Parse, TypeOK, Places, zookeeper, locals, connections, call
<1>14. ASSUME NEW r \in Roles, Key(r) PROVE TypeOK'
  <2>1. /\ pc' \in [Threads -> Places]
        /\ on' \in [Threads -> Roles]
    BY <1>0, <1>14, MoveTypes DEF Key, Places
  <2> QED BY <1>14, <2>1 DEF Key, TypeOK, Places, zookeeper, locals, connections, call
<1>15. ASSUME NEW r \in Roles, Call(r) PROVE TypeOK'
  <2>1. /\ pc' \in [Threads -> Places]
        /\ on' \in [Threads -> Roles]
    BY <1>0, <1>15, MoveTypes DEF Call, Places
  <2>2. held' \in Fds \cup {NoFd} /\ gone' \in BOOLEAN
    BY <1>15 DEF Call, TypeOK
  <2> QED BY <1>15, <2>1, <2>2 DEF Call, TypeOK, Places, zookeeper, locals, connections
<1>16. ASSUME NEW r \in Roles, Open(r) PROVE TypeOK'
  <2>1. /\ pc' \in [Threads -> Places]
        /\ on' \in [Threads -> Roles]
    BY <1>0, <1>16, MoveTypes DEF Open, Places
  <2>2. /\ held' \in Fds \cup {NoFd} /\ sockfd' \in Fds \cup {NoFd} /\ gone' \in BOOLEAN
        /\ upset' \subseteq {"overlap", "strtok", "freed"}
    BY <1>16 DEF Open, TypeOK
  <2> QED BY <1>16, <2>1, <2>2 DEF Open, TypeOK, Places, zookeeper, locals, connections
<1>17. ASSUME NEW r \in Roles, Write(r) PROVE TypeOK'
  <2>1. /\ pc' \in [Threads -> Places]
        /\ on' \in [Threads -> Roles]
    BY <1>0, <1>17, MoveTypes DEF Write, Places
  <2>2. sockfd' \in Fds \cup {NoFd}
    BY <1>17 DEF Write, TypeOK
  <2> QED BY <1>17, <2>1, <2>2 DEF Write, TypeOK, Places, zookeeper, locals, connections
<1> QED BY <1>1, <1>2, <1>3, <1>4, <1>5, <1>6, <1>7, <1>8, <1>9, <1>10, <1>11, <1>12, <1>13,
           <1>14, <1>15, <1>16, <1>17 DEF Next, Refresh, Command, Quit

\* Every variable keeps its type, for any number of servers and descriptors.
THEOREM TypeCorrect == Spec => []TypeOK
BY TypeInit, TypeStep, PTL DEF Spec

------------------------------------------------------------------------------
(* The descriptors, while the threads do not meet.                          *)

LEMMA SocketsInit == Init => Sockets
<1> SUFFICES ASSUME Init PROVE Sockets
  OBVIOUS
<1>1. \A r \in Roles : rtable[r] = NoFd /\ freed[r] = FALSE
  BY DEF Init
<1>2. \A t \in Threads : pc[t] \in {"list", "idle"}
  BY DEF Init
<1>3. Apart /\ Owned
  BY <1>2 DEF Apart, Owned, Refreshing, Init
<1>4. \A t \in Threads : Replacing(t)
  BY <1>2 DEF Replacing
<1>5. \A r \in Roles : Kept(r)
  BY <1>1 DEF Kept, Live
<1> QED BY <1>3, <1>4, <1>5 DEF Sockets

\* Where a step of thread t leaves it and the other one.
LEMMA Moved == ASSUME TypeOK, NEW t \in Threads, NEW s, NEW r, NEW s2, NEW r2,
                      Move(t, s, r, s2, r2)
               PROVE  /\ pc[t] = s /\ on[t] = r /\ pc'[t] = s2 /\ on'[t] = r2
                      /\ \A u \in Threads : u # t => pc'[u] = pc[u] /\ on'[u] = on[u]
BY DEF Move, TypeOK

\* Races are remembered.
LEMMA Grows == ASSUME [Next]_vars PROVE upset \subseteq upset'
<1>1. CASE UNCHANGED vars
  BY <1>1 DEF vars, client
<1>2. CASE Join \/ \E s \in Servers : Leave(s) \/ Expire(s)
  BY <1>2 DEF Join, Leave, Expire, client
<1>3. CASE TakeEvent \/ \E t \in Threads : Refresh(t)
  BY <1>3 DEF TakeEvent, Refresh, List, Get, Close, Host, Port, Ends
<1>4. CASE Command \/ Quit
  BY <1>4 DEF Command, Quit, Watch, Parse, Key, Call, Open, Write, Ends
<1> QED BY <1>1, <1>2, <1>3, <1>4 DEF Next

\* Only List can bring both threads into get_read_write_servers, and says so.
LEMMA ApartStep == ASSUME TypeOK, Apart, [Next]_vars, NoOverlap' PROVE Apart'
<1> USE DEF Apart
<1>1. ASSUME \A t \in Threads : pc'[t] \in Refreshing => pc[t] \in Refreshing
      PROVE  Apart'
  BY <1>1
<1>2. CASE UNCHANGED vars
  BY <1>1, <1>2 DEF vars, client
<1>3. CASE Join \/ \E s \in Servers : Leave(s) \/ Expire(s)
  BY <1>1, <1>3 DEF Join, Leave, Expire, client
<1>4. CASE TakeEvent
  <2>1. "zk" \in Threads
    BY DEF Threads
  <2> QED BY <1>1, <1>4, <2>1, Moved DEF TakeEvent, Refreshing
<1>5. ASSUME NEW t \in Threads, List(t) PROVE Apart'
  <2>1. \A u \in Threads : u # t => pc'[u] = pc[u] /\ pc[u] \notin Refreshing
    BY <1>5, Moved DEF List, NoOverlap
  <2> QED BY <2>1
<1>6. CASE Ends
  BY <1>1, <1>6 DEF Ends
<1>7. ASSUME NEW t \in Threads, NEW r \in Roles, Get(t, r) \/ Close(t, r) \/ Host(t, r) \/ Port(t, r)
      PROVE  Apart'
  <2>1. CASE Ends
    BY <1>6, <2>1
  <2>2. CASE ~Ends
    <3>1. /\ pc[t] \in Refreshing
          /\ \A u \in Threads : u # t => pc'[u] = pc[u]
      BY <1>7, <2>2, Moved DEF Get, Close, Host, Port, Done, Refreshing
    <3> QED BY <1>1, <3>1
  <2> QED BY <2>1, <2>2
<1>8. CASE Command
  <2>1. "main" \in Threads
    BY DEF Threads
  <2>2. pc'["main"] \notin Refreshing /\ \A u \in Threads : u # "main" => pc'[u] = pc[u]
    BY <1>8, <2>1, Moved DEF Command, Watch, Parse, Key, Call, Open, Write, Refreshing
  <2> QED BY <1>1, <2>2
<1> QED BY <1>2, <1>3, <1>4, <1>5, <1>6, <1>7, <1>8 DEF Next, Refresh, Quit

\* A step of thread t that leaves the connections alone, and does not go where one is
\* closed but to begin.
Still(t) == /\ pc[t] \in {"host", "port"} => pc'[t] \in {"host", "port"} /\ on'[t] = on[t]
            /\ pc'[t] \in {"close", "host", "port"} =>
                  \/ pc'[t] = "close" /\ on'[t] = "write"
                  \/ pc'[t] = pc[t] /\ on'[t] = on[t]
                  \/ pc[t] = "host" /\ on'[t] = on[t]

LEMMA SocketsStill ==
    ASSUME Sockets, Apart', UNCHANGED <<rtable, freed, sock>>, \A t \in Threads : Still(t)
    PROVE  Sockets'
<1>2. \A r \in Roles : Live(r)' = Live(r)
  BY DEF Live
<1>3. Owned'
  BY <1>2 DEF Sockets, Owned
<1>4. \A t \in Threads : Replacing(t)'
  <2> TAKE t \in Threads
  <2>1. Replacing(t) /\ Still(t)
    BY DEF Sockets
  <2>2. Live(on[t])' = Live(on'[t]) /\ Live("write")' = Live("write")
    BY DEF Live
  <2> QED BY <2>1, <2>2 DEF Replacing, Still
<1>5. \A r \in Roles : Kept(r)'
  <2> TAKE r \in Roles
  <2>1. Kept(r)
    BY DEF Sockets
  <2> QED BY <2>1, <1>2 DEF Kept, Still, Own
<1> QED BY <1>3, <1>4, <1>5 DEF Sockets

\* The step of a thread that closes connection r.
LEMMA SocketsClose ==
    ASSUME TypeOK, Sockets, Apart', NEW t \in Threads, NEW r \in Roles,
           Move(t, "close", r, "host", r), UNCHANGED rtable,
           IF rtable[r] = NoFd \/ freed[r]
           THEN UNCHANGED <<sock, freed>>
           ELSE /\ sock' = [sock EXCEPT ![rtable[r]] = Closed]
                /\ freed' = [freed EXCEPT ![r] = TRUE]
    PROVE  Sockets'
<1>1. /\ pc[t] = "close" /\ on[t] = r /\ pc'[t] = "host" /\ on'[t] = r
      /\ \A u \in Threads : u # t => pc'[u] = pc[u] /\ on'[u] = on[u]
  BY Moved
<1>2. \A u \in Threads : u # t => pc[u] \notin Refreshing
  BY <1>1 DEF Sockets, Apart, Refreshing
<1>3. ~freed[r]
  BY <1>1, <1>2 DEF Sockets, Kept, Refreshing
<1>4. r = "read" => Live("write")
  BY <1>1 DEF Sockets, Replacing
<1>5. \A q \in Roles : q # r /\ rtable[r] # NoFd => rtable[q] # rtable[r]
  <2> TAKE q \in Roles
  <2>1. Kept(q) /\ Kept(r)
    BY DEF Sockets
  <2> QED BY <2>1 DEF Kept, Own, Fd, Roles
<1>6. /\ ~Live(r)' /\ \A q \in Roles : q # r => Live(q)' = Live(q)
      /\ rtable[r] # NoFd => /\ sock'[rtable[r]] = Closed
                             /\ \A f \in Fds : f # rtable[r] => sock'[f] = sock[f]
      /\ rtable[r] = NoFd => sock' = sock
  BY <1>3 DEF Live, TypeOK
<1>7. Owned'
  BY <1>5, <1>6 DEF Sockets, Owned, Live, TypeOK
<1>8. \A u \in Threads : Replacing(u)'
  <2>1. \A u \in Threads : u # t => Replacing(u)'
    BY <1>1, <1>2 DEF Replacing, Refreshing
  <2>2. r = "read" => "write" \in Roles /\ "write" # r
    BY DEF Roles
  <2>3. Replacing(t)'
    BY <1>1, <1>4, <1>6, <2>2 DEF Replacing, Live
  <2> QED BY <2>1, <2>3
<1>9. \A q \in Roles : Kept(q)'
  <2> TAKE q \in Roles
  <2>1. Kept(q) /\ rtable' = rtable
    BY DEF Sockets
  <2>2. (rtable[q] # NoFd => Own(q, rtable[q]))'
    BY <2>1 DEF Kept, Own
  <2>3. (Live(q) => sock[rtable[q]] # Closed)'
    <3>1. CASE q = r
      BY <1>6, <3>1
    <3>2. CASE q # r
      <4>1. Live(q) => sock'[rtable[q]] = sock[rtable[q]]
        BY <1>5, <1>6, <3>2 DEF Live, TypeOK
      <4> QED BY <1>6, <2>1, <3>2, <4>1 DEF Kept
    <3> QED BY <3>1, <3>2
  <2>4. (freed[q] => \E u \in Threads : pc[u] \in {"host", "port"} /\ on[u] = q)'
    <3>1. CASE q = r
      BY <1>1, <3>1
    <3>2. CASE q # r
      <4>1. freed'[q] = freed[q]
        BY <3>2 DEF TypeOK
      <4> QED BY <1>1, <2>1, <4>1 DEF Kept
    <3> QED BY <3>1, <3>2
  <2> QED BY <2>2, <2>3, <2>4 DEF Kept
<1> QED BY <1>7, <1>8, <1>9 DEF Sockets

\* The lowest free descriptor, while connection r is closed and the others are not.
LEMMA Taken ==
    ASSUME TypeOK, Sockets, NEW r \in Roles, Free # {}, ~Live(r), r = "read" => Live("write")
    PROVE  Own(r, First(Free))
<1>1. /\ First(Free) \in Fds /\ sock[First(Free)] = Closed
      /\ \A f \in Fds : sock[f] = Closed => First(Free) <= f
  BY FreeFd
<1>2. \A q \in Roles : Kept(q)
  BY DEF Sockets
<1>3. Roles = {"write", "read"} /\ Fds \subseteq Nat
  BY NoFdIsNone DEF Roles
<1>4. Lowest \in Fds /\ \A f \in Fds : Lowest <= f
  <2>1. Fds \in SUBSET Nat /\ Fds # {}
    BY <1>1, <1>3
  <2> QED BY <2>1, Minimum DEF Lowest
<1>5. CASE r = "write"
  <2>1. sock[Lowest] = Closed
    <3> SUFFICES ASSUME sock[Lowest] # Closed PROVE FALSE
      OBVIOUS
    <3>1. Live("read") /\ rtable["read"] = Lowest
      BY <1>3, <1>4, <1>5 DEF Sockets, Owned
    <3> QED BY <1>2, <1>3, <3>1 DEF Kept, Own, Live
  <2>2. First(Free) <= Lowest /\ Lowest <= First(Free)
    BY <1>1, <1>4, <2>1
  <2>3. First(Free) \in Nat /\ Lowest \in Nat
    BY <1>1, <1>3, <1>4
  <2>4. First(Free) = Lowest
    BY <2>2, <2>3, AtMost
  <2> QED BY <1>5, <2>4 DEF Own, Fd
<1>6. CASE r = "read"
  <2>1. rtable["write"] = Lowest /\ sock[Lowest] # Closed
    BY <1>2, <1>3, <1>6 DEF Kept, Own, Fd, Live
  <2>2. First(Free) # Lowest
    BY <1>1, <2>1
  <2>3. Second \in Fds \ {Lowest} /\ \A f \in Fds \ {Lowest} : Second <= f
    <3>1. Fds \ {Lowest} \in SUBSET Nat /\ Fds \ {Lowest} # {}
      BY <1>1, <1>3, <2>2
    <3> QED BY <3>1, Minimum DEF Second
  <2>4. sock[Second] = Closed
    <3> SUFFICES ASSUME sock[Second] # Closed PROVE FALSE
      OBVIOUS
    <3>1. PICK q \in Roles : Live(q) /\ rtable[q] = Second
      BY <2>3 DEF Sockets, Owned
    <3> QED BY <1>3, <1>6, <2>1, <2>3, <3>1
  <2>5. First(Free) <= Second /\ Second <= First(Free)
    BY <1>1, <2>2, <2>3, <2>4
  <2>6. First(Free) \in Nat /\ Second \in Nat
    BY <1>1, <1>3, <2>3
  <2>7. First(Free) = Second
    BY <2>5, <2>6, AtMost
  <2> QED BY <1>6, <2>2, <2>7 DEF Own, Fd
<1> QED BY <1>3, <1>5, <1>6

\* The step of a thread that opens connection r to server s.
LEMMA SocketsPort ==
    ASSUME TypeOK, Sockets, Apart', NEW t \in Threads, NEW r \in Roles, NEW s \in Servers,
           Done(t, r), Free # {},
           sock' = [sock EXCEPT ![First(Free)] = s],
           rtable' = [rtable EXCEPT ![r] = First(Free)],
           freed' = [freed EXCEPT ![r] = FALSE]
    PROVE  /\ Sockets'
           /\ \A q \in Roles : q # r /\ Live(q) => /\ rtable'[q] = rtable[q] /\ freed'[q] = freed[q]
                                                   /\ sock'[rtable[q]] = sock[rtable[q]]
<1>1. /\ pc[t] = "port" /\ on[t] = r
      /\ IF r = "write" THEN pc'[t] = "close" /\ on'[t] = "read"
                        ELSE pc'[t] \in {"watch", "idle"}
      /\ \A u \in Threads : u # t => pc'[u] = pc[u] /\ on'[u] = on[u]
  BY Moved, RestTypes DEF Done
<1>2. \A u \in Threads : u # t => pc[u] \notin Refreshing
  BY <1>1 DEF Sockets, Apart, Refreshing
<1>3. ~Live(r) /\ (r = "read" => Live("write"))
  BY <1>1 DEF Sockets, Replacing
<1>4. \A q \in Roles : q # r => ~freed[q]
  BY <1>1, <1>2 DEF Sockets, Kept, Refreshing
<1>5. First(Free) \in Fds /\ sock[First(Free)] = Closed /\ First(Free) # NoFd /\ s # Closed
  BY FreeFd, NoFdIsNone
<1>6. Own(r, First(Free))
  BY <1>3, Taken
<1>7. /\ Live(r)' /\ rtable'[r] = First(Free) /\ freed'[r] = FALSE
      /\ \A q \in Roles : q # r => /\ rtable'[q] = rtable[q] /\ freed'[q] = freed[q]
                                   /\ Live(q)' = Live(q)
      /\ sock'[First(Free)] = s /\ \A f \in Fds : f # First(Free) => sock'[f] = sock[f]
  BY <1>5 DEF Live, TypeOK
<1>8. \A q \in Roles : q # r /\ Live(q) => /\ rtable[q] \in Fds /\ rtable[q] # First(Free)
                                           /\ sock'[rtable[q]] = sock[rtable[q]]
  <2> TAKE q \in Roles
  <2> SUFFICES ASSUME q # r, Live(q) PROVE /\ rtable[q] \in Fds /\ rtable[q] # First(Free)
                                           /\ sock'[rtable[q]] = sock[rtable[q]]
    OBVIOUS
  <2>1. rtable[q] \in Fds /\ sock[rtable[q]] # Closed
    BY DEF Sockets, Kept, Live, TypeOK
  <2> QED BY <1>5, <1>7, <2>1
<1>9. Owned'
  <2> SUFFICES ASSUME NEW f \in Fds, sock'[f] # Closed
               PROVE  \E q \in Roles : Live(q)' /\ rtable'[q] = f
    BY DEF Owned
  <2>1. CASE f = First(Free)
    BY <1>7, <2>1
  <2>2. CASE f # First(Free)
    <3>1. PICK q \in Roles : Live(q) /\ rtable[q] = f
      BY <1>7, <2>2 DEF Sockets, Owned
    <3>2. q # r
      BY <1>3, <3>1
    <3> QED BY <1>7, <3>1, <3>2
  <2> QED BY <2>1, <2>2
<1>10. \A u \in Threads : Replacing(u)'
  <2>1. \A u \in Threads : u # t => Replacing(u)'
    BY <1>1, <1>2 DEF Replacing, Refreshing
  <2>2. Replacing(t)'
    <3>1. CASE r = "write"
      <4>1. Live("write")'
        BY <1>7, <3>1
      <4> QED BY <1>1, <3>1, <4>1 DEF Replacing
    <3>2. CASE r # "write"
      BY <1>1, <3>2 DEF Replacing
    <3> QED BY <3>1, <3>2
  <2> QED BY <2>1, <2>2
<1>11. \A q \in Roles : Kept(q)'
  <2> TAKE q \in Roles
  <2>1. CASE q = r
    <3>2. (Live(r) => sock[rtable[r]] # Closed)'
      BY <1>5, <1>7
    <3>3. (rtable[r] # NoFd => Own(r, rtable[r]))'
      BY <1>6, <1>7 DEF Own
    <3> QED BY <1>7, <2>1, <3>2, <3>3 DEF Kept
  <2>2. CASE q # r
    <3>1. Kept(q)
      BY DEF Sockets
    <3>2. (rtable[q] # NoFd => Own(q, rtable[q]))'
      BY <1>7, <2>2, <3>1 DEF Kept, Own
    <3>3. (Live(q) => sock[rtable[q]] # Closed)'
      BY <1>7, <1>8, <2>2, <3>1 DEF Kept
    <3>4. freed'[q] = FALSE
      BY <1>4, <1>7, <2>2 DEF TypeOK
    <3> QED BY <3>2, <3>3, <3>4 DEF Kept
  <2> QED BY <2>1, <2>2
<1>12. Sockets'
  BY <1>9, <1>10, <1>11 DEF Sockets
<1> QED BY <1>7, <1>8, <1>12

LEMMA SocketsStep == ASSUME TypeOK, Sockets, [Next]_vars, NoOverlap' PROVE Sockets'
<1>0. Apart'
  BY ApartStep DEF Sockets
<1>1. CASE UNCHANGED vars
  BY <1>0, <1>1, SocketsStill DEF vars, client, connections, Still
<1>2. CASE Join \/ \E s \in Servers : Leave(s) \/ Expire(s)
  BY <1>0, <1>2, SocketsStill DEF Join, Leave, Expire, client, connections, Still
<1>3. CASE TakeEvent
  <2>1. "zk" \in Threads
    BY DEF Threads
  <2>2. \A t \in Threads : Still(t)
    BY <1>3, <2>1, Moved DEF TakeEvent, Still
  <2> QED BY <1>0, <1>3, <2>2, SocketsStill DEF TakeEvent, connections
<1>4. ASSUME NEW t \in Threads, List(t) PROVE Sockets'
  <2>1. \A u \in Threads : Still(u)
    BY <1>4, Moved, RestTypes DEF List, Still
  <2> QED BY <1>0, <1>4, <2>1, SocketsStill DEF List, connections
<1>5. ASSUME NEW t \in Threads, NEW r \in Roles, Get(t, r) \/ Host(t, r) PROVE Sockets'
  <2>1. \A u \in Threads : Still(u)
    BY <1>5, Moved DEF Get, Host, Still
  <2> QED BY <1>0, <1>5, <2>1, SocketsStill DEF Get, Host, connections
<1>6. CASE Ends
  BY <1>0, <1>6, SocketsStill DEF Ends, connections, Still
<1>7. ASSUME NEW t \in Threads, NEW r \in Roles, Close(t, r) PROVE Sockets'
  <2>1. CASE ~Ends
    BY <1>0, <1>7, <2>1, SocketsClose DEF Close
  <2> QED BY <1>6, <2>1
<1>8. ASSUME NEW t \in Threads, NEW r \in Roles, Port(t, r) PROVE Sockets'
  <2>1. CASE ~Ends
    <3>1. PICK s \in Reachable(t, r) : sock' = [sock EXCEPT ![First(Free)] = s]
      BY <1>8, <2>1 DEF Port
    <3>2. s \in Servers
      BY ReachableTypes
    <3> QED BY <1>0, <1>8, <2>1, <3>1, <3>2, SocketsPort DEF Port
  <2> QED BY <1>6, <2>1
<1>9. CASE Command
  <2>1. "main" \in Threads
    BY DEF Threads
  <2>2. \A u \in Threads : Still(u)
    BY <1>9, <2>1, Moved DEF Command, Watch, Parse, Key, Call, Open, Write, Still
  <2>3. UNCHANGED <<rtable, freed, sock>>
    BY <1>9 DEF Command, Watch, Parse, Key, Call, Open, Write, connections
  <2> QED BY <1>0, <2>2, <2>3, SocketsStill
<1> QED BY <1>1, <1>2, <1>3, <1>4, <1>5, <1>6, <1>7, <1>8, <1>9 DEF Next, Refresh, Quit

\* Every descriptor that is open is that of one of the two connections, so that none
\* is lost, however often they are replaced (client_stub.c:67-85).
LEMMA SocketsNoneLost == ASSUME Sockets PROVE NoneLost
<1> SUFFICES ASSUME NEW f \in Fds, sock[f] # Closed
             PROVE  \E r \in Roles : rtable[r] = f /\ ~freed[r]
                                     /\ \A q \in Roles \ {r} : rtable[q] # f
  BY DEF NoneLost
<1>1. PICK r \in Roles : Live(r) /\ rtable[r] = f
  BY DEF Sockets, Owned
<1>2. \A q \in Roles \ {r} : rtable[q] # f
  <2> TAKE q \in Roles \ {r}
  <2>1. Kept(q) /\ Kept(r)
    BY DEF Sockets
  <2> QED BY <1>1, <2>1 DEF Kept, Own, Fd, Live, Roles
<1> QED BY <1>1, <1>2 DEF Live

------------------------------------------------------------------------------
(* The descriptors that a call goes by.                                     *)

LEMMA CallingInit == Init => Calling
BY DEF Init, Calling

\* A step that is not one of a call.
LEMMA CallingStill ==
    ASSUME Calling, UNCHANGED <<held, sockfd>>, upset \subseteq upset',
           pc["main"] \in {"open", "size", "body"} =>
              pc'["main"] = pc["main"] /\ on'["main"] = on["main"]
    PROVE  Calling'
BY DEF Calling, Own

LEMMA CallingStep == ASSUME TypeOK, Sockets, Calling, [Next]_vars PROVE Calling'
<1>0. upset \subseteq upset'
  BY Grows
<1>a. "main" \in Threads /\ "zk" \in Threads /\ "main" # "zk"
  BY DEF Threads
<1>1. CASE UNCHANGED vars
  BY <1>0, <1>1, CallingStill DEF vars, client, call
<1>2. CASE Join \/ \E s \in Servers : Leave(s) \/ Expire(s)
  BY <1>0, <1>2, CallingStill DEF Join, Leave, Expire, client, call
<1>3. CASE TakeEvent
  BY <1>0, <1>a, <1>3, CallingStill, Moved DEF TakeEvent, call
<1>4. CASE Ends
  BY <1>0, <1>4, CallingStill DEF Ends, call
<1>5. ASSUME NEW t \in Threads, Refresh(t) PROVE Calling'
  <2>1. CASE ~Ends
    <3>1. UNCHANGED <<held, sockfd>>
      BY <1>5, <2>1 DEF Refresh, List, Get, Close, Host, Port, Done, call
    <3>2. /\ pc[t] \notin {"open", "size", "body"}
          /\ \A u \in Threads : u # t => pc'[u] = pc[u] /\ on'[u] = on[u]
      BY <1>5, <2>1, Moved DEF Refresh, List, Get, Close, Host, Port, Done
    <3> QED BY <1>0, <1>a, <3>1, <3>2, CallingStill
  <2> QED BY <1>4, <2>1
<1>6. CASE Watch
  BY <1>0, <1>a, <1>6, CallingStill, Moved DEF Watch, call
<1>7. ASSUME NEW r \in Roles, Parse(r) \/ Key(r) PROVE Calling'
  BY <1>0, <1>a, <1>7, CallingStill, Moved DEF Parse, Key, call
<1>8. ASSUME NEW r \in Roles, Call(r) PROVE Calling'
  <2>1. /\ pc["main"] = "call"
        /\ rtable[r] # NoFd => pc'["main"] = "open" /\ on'["main"] = r
    <3>1. CASE rtable[r] # NoFd
      <4>1. Move("main", "call", r, "open", r)
        BY <1>8, <3>1 DEF Call
      <4> QED BY <1>a, <4>1, Moved
    <3>2. CASE rtable[r] = NoFd
      <4>1. pc["main"] = "call"
        BY <1>8 DEF Call, Move
      <4> QED BY <3>2, <4>1
    <3> QED BY <3>1, <3>2
  <2>2. rtable[r] # NoFd => Own(r, rtable[r])
    BY DEF Sockets, Kept
  <2>3. held' = rtable[r] /\ sockfd' = sockfd /\ upset' = upset
    BY <1>8 DEF Call
  <2> QED BY <2>1, <2>2, <2>3 DEF Calling, Own
<1>9. ASSUME NEW r \in Roles, Open(r) PROVE Calling'
  <2>1. pc["main"] = "open" /\ on["main"] = r /\ pc'["main"] = "size" /\ on'["main"] = r
    BY <1>a, <1>9, Moved DEF Open
  <2>2. /\ held' = NoFd /\ sockfd' \in (IF gone THEN Fds \cup {NoFd} ELSE {held})
        /\ gone => "freed" \in upset'
    BY <1>9 DEF Open
  <2> QED BY <2>1, <2>2 DEF Calling, Own
<1>10. ASSUME NEW r \in Roles, Write(r) PROVE Calling'
  <2>1. /\ pc["main"] \in {"size", "body"} /\ on["main"] = r
        /\ \/ pc'["main"] = "body" /\ on'["main"] = r /\ sockfd' = sockfd
           \/ sockfd' = NoFd
    BY <1>a, <1>10, Moved DEF Write
  <2>2. held' = held /\ upset' = upset
    BY <1>10 DEF Write
  <2> QED BY <2>1, <2>2 DEF Calling, Own
<1> QED BY <1>1, <1>2, <1>3, <1>4, <1>5, <1>6, <1>7, <1>8, <1>9, <1>10
        DEF Next, Command, Quit

LEMMA CallsApart == ASSUME TypeOK, Sockets, Calling PROVE WritesApart
<1> SUFFICES ASSUME "freed" \notin upset, Peer # Closed PROVE sockfd = rtable[on["main"]]
  BY DEF WritesApart
<1>1. sockfd \in Fds /\ sock[sockfd] # Closed /\ sockfd # NoFd
  BY NoFdIsNone DEF Peer
<1>2. Own(on["main"], sockfd) /\ on["main"] \in Roles
  BY <1>1 DEF Calling, TypeOK, Threads
<1>3. PICK r \in Roles : Live(r) /\ rtable[r] = sockfd
  BY <1>1 DEF Sockets, Owned
<1>4. Own(r, sockfd)
  BY <1>3 DEF Sockets, Kept, Live
<1>5. r = on["main"]
  BY <1>2, <1>4 DEF Own, Fd, Roles
<1> QED BY <1>3, <1>5

------------------------------------------------------------------------------
(* The ends of the chain.                                                   *)

LEMMA InformedInit == Init => Informed
<1>1. "main" \in Threads
  BY DEF Threads
<1> QED BY <1>1 DEF Init, Informed, Heard

\* A step that is none of those of get_read_write_servers, and no change of the chain.
LEMMA InformedStill ==
    ASSUME Informed, UNCHANGED <<nodes, events, list, address, rtable, freed, sock>>,
           watching => watching',
           \A t \in Threads : /\ pc[t] = "list" => pc'[t] = "list"
                              /\ pc[t] \in Refreshing \/ pc'[t] \in Refreshing =>
                                    pc'[t] = pc[t] /\ on'[t] = on[t]
    PROVE  Informed'
<1> SUFFICES ASSUME Heard'
             PROVE  /\ watching'
                    /\ \A t \in Threads : pc'[t] \in Refreshing => Current(t)'
                    /\ nodes' # {} /\ (\A t \in Threads : pc'[t] \notin Refreshing) => AtEnds'
  BY DEF Informed
<1>1. Heard
  BY DEF Heard, Threads
<1>2. \A t \in Threads : pc'[t] \in Refreshing => Current(t)'
  <2> SUFFICES ASSUME NEW t \in Threads, pc'[t] \in Refreshing PROVE Current(t)'
    OBVIOUS
  <2>1. pc[t] \in Refreshing /\ pc'[t] = pc[t] /\ on'[t] = on[t] /\ Current(t)
    BY <1>1 DEF Informed
  <2>2. Cut' = Cut /\ Connected("write", First(nodes))' = Connected("write", First(nodes))
    BY DEF Cut, Connected
  <2> QED BY <2>1, <2>2 DEF Current
<1>3. AtEnds' = AtEnds
  BY DEF AtEnds, Connected
<1> QED BY <1>1, <1>2, <1>3 DEF Informed

\* A step of thread t within get_read_write_servers.
LEMMA InformedWithin ==
    ASSUME TypeOK, Sockets, Informed, NEW t \in Threads, pc[t] \in Refreshing,
           UNCHANGED <<nodes, events, watching>>,
           \A u \in Threads : u # t => pc'[u] = pc[u] /\ on'[u] = on[u],
           Current(t) => IF pc'[t] \in Refreshing THEN Current(t)' ELSE AtEnds'
    PROVE  Informed'
<1> SUFFICES ASSUME Heard'
             PROVE  /\ watching'
                    /\ \A u \in Threads : pc'[u] \in Refreshing => Current(u)'
                    /\ nodes' # {} /\ (\A u \in Threads : pc'[u] \notin Refreshing) => AtEnds'
  BY DEF Informed
<1>1. \A u \in Threads : u # t => pc'[u] \notin Refreshing
  BY DEF Sockets, Apart
<1>2. Heard
  BY DEF Heard, Threads, Refreshing
<1>3. watching /\ Current(t)
  BY <1>2 DEF Informed
<1> QED BY <1>1, <1>3

LEMMA InformedList ==
    ASSUME TypeOK, Informed, NEW t \in Threads, List(t), "overlap" \notin upset'
    PROVE  Informed'
<1>1. /\ pc'[t] = (IF nodes = {} THEN Rest(t) ELSE "get") /\ on'[t] = "write"
      /\ \A u \in Threads : u # t => pc'[u] = pc[u] /\ pc[u] \notin Refreshing
  BY Moved DEF List
<1>2. watching' /\ nodes' = nodes /\ list'[t] = nodes
  BY DEF List, TypeOK
<1>3. pc'[t] \in Refreshing => Current(t)'
  <2> SUFFICES ASSUME pc'[t] \in Refreshing PROVE Current(t)'
    OBVIOUS
  <2>1. nodes # {} /\ pc'[t] = "get"
    BY <1>1, RestTypes DEF Refreshing
  <2> QED BY <1>1, <1>2, <2>1 DEF Current
<1>4. nodes # {} => pc'[t] \in Refreshing
  BY <1>1 DEF Refreshing
<1> QED BY <1>1, <1>2, <1>3, <1>4 DEF Informed

LEMMA GetCurrent ==
    ASSUME TypeOK, NEW t \in Threads, NEW r \in Roles, Get(t, r), Current(t)
    PROVE  Current(t)'
<1>1. nodes \in SUBSET Servers /\ nodes # {}
  BY DEF TypeOK, Current
<1>2. First(nodes) \in nodes /\ Last(nodes) \in nodes
  BY <1>1, BothEnds
<1>3. list' = list /\ nodes' = nodes /\ UNCHANGED <<rtable, freed, sock>>
  BY DEF Get, zookeeper, connections
<1>4. /\ address'[t][r] = Got(t, r)
      /\ \A q \in Roles : q # r => address'[t][q] = address[t][q]
  BY DEF Get, TypeOK
<1>5. pc[t] = "get" /\ on[t] = r /\ list[t] = nodes
  BY Moved DEF Get, Current
<1>6. "write" \in Roles
  BY DEF Roles
<1>7. CASE r = "write"
  <2>1. pc'[t] = "get" /\ on'[t] = "read"
    BY <1>7, Moved DEF Get
  <2>2. address'[t]["write"] = First(nodes)
    BY <1>2, <1>4, <1>5, <1>7 DEF Got
  <2> QED BY <1>1, <1>3, <1>5, <2>1, <2>2 DEF Current
<1>8. CASE r # "write"
  <2>1. pc'[t] = "close" /\ on'[t] = "write" /\ r = "read"
    BY <1>8, Moved DEF Get, Roles
  <2>2. address[t]["write"] = First(nodes) /\ address'[t]["write"] = First(nodes)
    BY <1>4, <1>5, <1>6, <2>1 DEF Current
  <2>3. address'[t]["read"] = Last(nodes) \/ Cut
    BY <1>2, <1>4, <1>5, <2>1, <2>2 DEF Got, Cut
  <2>4. Cut' = Cut
    BY <1>3 DEF Cut
  <2> QED BY <1>1, <1>3, <1>5, <2>1, <2>2, <2>3, <2>4 DEF Current
<1> QED BY <1>7, <1>8

LEMMA CloseCurrent ==
    ASSUME TypeOK, Sockets, NEW t \in Threads, NEW r \in Roles, Close(t, r), ~Ends, Current(t)
    PROVE  Current(t)'
<1>1. pc[t] = "close" /\ on[t] = r /\ pc'[t] = "host" /\ on'[t] = r
  BY Moved DEF Close
<1>2. UNCHANGED <<nodes, list, address, rtable>>
  BY DEF Close, zookeeper, locals
<1>3. r = "read" => Connected("write", First(nodes))'
  <2> SUFFICES ASSUME r = "read" PROVE Connected("write", First(nodes))'
    OBVIOUS
  <2>1. Connected("write", First(nodes))
    BY <1>1 DEF Current
  <2>2. rtable["read"] # NoFd => rtable["read"] # rtable["write"]
    <3>1. Kept("read") /\ Kept("write")
      BY DEF Sockets, Roles
    <3>2. rtable["write"] # NoFd
      BY <2>1, NoFdIsNone DEF Connected
    <3> QED BY <3>1, <3>2 DEF Kept, Own, Fd
  <2>3. freed'["write"] = freed["write"] /\ sock'[rtable["write"]] = sock[rtable["write"]]
    <3>1. "read" # "write" /\ rtable["write"] \in Fds
      BY <2>1 DEF Connected
    <3>2. CASE rtable["read"] = NoFd \/ freed["read"]
      BY <3>2 DEF Close
    <3>3. CASE ~(rtable["read"] = NoFd \/ freed["read"])
      <4>1. /\ sock' = [sock EXCEPT ![rtable["read"]] = Closed]
            /\ freed' = [freed EXCEPT !["read"] = TRUE]
        BY <3>3 DEF Close
      <4> QED BY <2>2, <3>1, <3>3, <4>1 DEF TypeOK, Roles
    <3> QED BY <3>2, <3>3
  <2> QED BY <1>2, <2>1, <2>3 DEF Connected
<1>4. Cut' = Cut
  BY <1>2 DEF Cut
<1> QED BY <1>1, <1>2, <1>3, <1>4 DEF Current

LEMMA HostCurrent ==
    ASSUME TypeOK, NEW t \in Threads, NEW r \in Roles, Host(t, r), Current(t)
    PROVE  Current(t)'
<1>1. pc[t] = "host" /\ on[t] = r /\ pc'[t] = "port" /\ on'[t] = r
  BY Moved DEF Host
<1>2. UNCHANGED <<nodes, list, address, rtable, freed, sock>>
  BY DEF Host, zookeeper, locals, connections
<1>3. Cut' = Cut /\ Connected("write", First(nodes))' = Connected("write", First(nodes))
  BY <1>2 DEF Cut, Connected
<1> QED BY <1>1, <1>2, <1>3 DEF Current

LEMMA PortCurrent ==
    ASSUME TypeOK, Sockets, Apart', NEW t \in Threads, NEW r \in Roles, Port(t, r), ~Ends,
           "strtok" \notin upset', Current(t)
    PROVE  IF pc'[t] \in Refreshing THEN Current(t)' ELSE AtEnds'
<1>1. /\ pc[t] = "port" /\ on[t] = r
      /\ IF r = "write" THEN pc'[t] = "close" /\ on'[t] = "read"
                        ELSE pc'[t] \notin Refreshing
  BY Moved, RestTypes DEF Port, Done, Refreshing
<1>2. PICK s \in Reachable(t, r) : sock' = [sock EXCEPT ![First(Free)] = s]
  BY DEF Port
<1>3. /\ Done(t, r) /\ Free # {} /\ rtable' = [rtable EXCEPT ![r] = First(Free)]
      /\ freed' = [freed EXCEPT ![r] = FALSE] /\ saved = t
  BY DEF Port
<1>4. s \in Servers /\ nodes' = nodes /\ (r = "write" => UNCHANGED <<list, address>>)
  BY <1>3, ReachableTypes DEF Done, zookeeper, locals
<1>5. \A q \in Roles : q # r /\ Live(q) => /\ rtable'[q] = rtable[q] /\ freed'[q] = freed[q]
                                           /\ sock'[rtable[q]] = sock[rtable[q]]
  BY <1>2, <1>3, <1>4, SocketsPort
<1>6. address[t][r] # Unknown => s = address[t][r]
  BY <1>2, <1>3 DEF Reachable
<1>7. Connected(r, s)'
  <2>1. First(Free) \in Fds
    BY <1>3, FreeFd
  <2> QED BY <1>2, <1>3, <2>1 DEF Connected, TypeOK
<1>8. nodes \in SUBSET Servers /\ nodes # {} /\ Unknown \notin Servers
  BY DEF TypeOK, Current, Unknown, Servers
<1>9. First(nodes) \in Servers /\ Last(nodes) \in Servers
  BY <1>8, BothEnds
<1>10. Cut' = Cut
  BY <1>4 DEF Cut
<1>11. CASE r = "write"
  <2>1. s = First(nodes)
    BY <1>1, <1>6, <1>8, <1>9, <1>11 DEF Current
  <2>2. Connected("write", First(nodes))'
    BY <1>4, <1>7, <1>11, <2>1 DEF Connected
  <2>3. pc'[t] = "close" /\ pc[t] # "get"
    BY <1>1, <1>11
  <2>4. Current(t)'
    BY <1>4, <1>10, <1>11, <2>2, <2>3 DEF Current
  <2> QED BY <2>3, <2>4 DEF Refreshing
<1>12. CASE r # "write"
  <2>1. r = "read" /\ "write" \in Roles
    BY <1>12 DEF Roles
  <2>2. Connected("write", First(nodes))
    BY <1>1, <2>1 DEF Current
  <2>3. Live("write")
    BY <2>2, NoFdIsNone DEF Connected, Live
  <2>4. Connected("write", First(nodes))'
    BY <1>4, <1>5, <2>1, <2>2, <2>3 DEF Connected
  <2>5. s = Last(nodes) \/ Cut
    BY <1>1, <1>6, <1>8, <1>9, <2>1 DEF Current
  <2>6. AtEnds'
    BY <1>4, <1>7, <1>8, <2>1, <2>4, <2>5 DEF AtEnds, Connected, Cut
  <2> QED BY <1>1, <1>12, <2>6
<1> QED BY <1>11, <1>12

LEMMA InformedStep ==
    ASSUME TypeOK, Sockets, Informed, [Next]_vars, NoRace'
    PROVE  Informed'
<1>0. Apart'
  BY ApartStep DEF Sockets, NoRace
<1>a. "main" \in Threads /\ "zk" \in Threads /\ "main" # "zk"
  BY DEF Threads
<1>1. CASE UNCHANGED vars
  BY <1>1, InformedStill DEF vars, client, zookeeper, locals, connections
<1>2. CASE Join \/ \E s \in Servers : Expire(s)
  <2>1. PICK ns : NodesBecome(ns)
    BY <1>2 DEF Join, Expire
  <2>2. UNCHANGED pc /\ events \in Nat
    BY <1>2 DEF Join, Expire, client, TypeOK
  <2>3. ~Heard'
    BY <2>1, <2>2 DEF NodesBecome, Heard, Informed
  <2> QED BY <2>3 DEF Informed
<1>3. ASSUME NEW s \in Servers, Leave(s) PROVE Informed'
  BY <1>3, InformedStill DEF Leave, client, locals, connections
<1>4. CASE TakeEvent
  <2>1. pc'["zk"] = "list"
    BY <1>a, <1>4, Moved DEF TakeEvent
  <2> QED BY <2>1 DEF Informed, Heard
<1>5. CASE Ends
  BY <1>5, InformedStill DEF Ends, zookeeper, locals, connections
<1>6. ASSUME NEW t \in Threads, List(t) PROVE Informed'
  BY <1>6, InformedList DEF NoRace, NoOverlap
<1>7. ASSUME NEW t \in Threads, NEW r \in Roles, Get(t, r) \/ Close(t, r) \/ Host(t, r) \/ Port(t, r)
      PROVE  Informed'
  <2>1. CASE ~Ends
    <3>1. /\ pc[t] \in Refreshing
          /\ \A u \in Threads : u # t => pc'[u] = pc[u] /\ on'[u] = on[u]
      BY <1>7, <2>1, Moved DEF Get, Close, Host, Port, Done, Refreshing
    <3>2. UNCHANGED <<nodes, events, watching>>
      BY <1>7, <2>1 DEF Get, Close, Host, Port, Done, zookeeper
    <3>3. ~Port(t, r) => pc'[t] \in Refreshing
      BY <1>7, <2>1, Moved DEF Get, Close, Host, Refreshing
    <3>4. Current(t) => IF pc'[t] \in Refreshing THEN Current(t)' ELSE AtEnds'
      BY <1>0, <1>7, <2>1, <3>3, GetCurrent, CloseCurrent, HostCurrent, PortCurrent DEF NoRace
    <3> QED BY <3>1, <3>2, <3>4, InformedWithin
  <2> QED BY <1>5, <2>1
<1>8. CASE Command
  <2>1. /\ pc["main"] \notin Refreshing \cup {"list"} /\ pc'["main"] \notin Refreshing
        /\ \A u \in Threads : u # "main" => pc'[u] = pc[u] /\ on'[u] = on[u]
    BY <1>a, <1>8, Moved DEF Command, Watch, Parse, Key, Call, Open, Write, Refreshing
  <2>2. /\ UNCHANGED <<nodes, events, list, address, rtable, freed, sock>>
        /\ watching => watching'
    BY <1>8 DEF Command, Watch, Parse, Key, Call, Open, Write, zookeeper, locals, connections
  <2> QED BY <1>a, <2>1, <2>2, InformedStill
<1> QED BY <1>1, <1>2, <1>3, <1>4, <1>5, <1>6, <1>7, <1>8 DEF Next, Refresh, Quit

LEMMA InformedFollows == ASSUME Informed PROVE Follows
BY DEF Informed, Follows, Heard, Settled, Threads, Refreshing

------------------------------------------------------------------------------
(* The theorems.                                                            *)

LEMMA Begin == Init => TypeOK /\ IInv
BY TypeInit, SocketsInit, CallingInit, InformedInit DEF IInv

LEMMA Step == TypeOK /\ IInv /\ [Next]_vars => TypeOK' /\ IInv'
<1> SUFFICES ASSUME TypeOK, IInv, [Next]_vars PROVE TypeOK' /\ IInv'
  OBVIOUS
<1>1. (NoOverlap' => NoOverlap) /\ (NoRace' => NoRace /\ NoOverlap /\ NoOverlap')
  BY Grows DEF NoOverlap, NoRace
<1> QED BY <1>1, TypeStep, SocketsStep, CallingStep, InformedStep DEF IInv

LEMMA Invariant == Spec => [](TypeOK /\ IInv)
BY Begin, Step, PTL DEF Spec

\* No descriptor is lost as long as the two threads do not meet, for any number of
\* servers and descriptors (client_stub.c:67-85).
THEOREM Lossless == Spec => []NoneLost
<1>1. TypeOK /\ IInv => NoneLost
  BY SocketsNoneLost DEF NoneLost, NoOverlap, IInv
<1> QED BY <1>1, Invariant, PTL

\* The descriptor that a call writes to is closed or that of its own kind of command,
\* although the connections may be replaced at any moment, as long as the threads do
\* not meet at the start and the call's rtable was not freed before it read it
\* (table_client.c:66-88, network_client.c:122).
THEOREM OwnKind == Spec => []WritesApart
<1>1. TypeOK /\ IInv => WritesApart
  BY CallsApart DEF WritesApart, NoOverlap, IInv
<1> QED BY <1>1, Invariant, PTL

\* No change of the chain is lost: a client that has taken up all it was told of is
\* connected to both ends of the chain as it is, unless its threads met or the last
\* address was cut, however often the chain changed (table_client.c:37-93).
THEOREM Followed == Spec => []Follows
<1>1. TypeOK /\ IInv => Follows
  BY InformedFollows DEF NoRace, NoOverlap, Follows, IInv
<1> QED BY <1>1, Invariant, PTL
=============================================================================
