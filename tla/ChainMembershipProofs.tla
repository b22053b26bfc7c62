------------------------ MODULE ChainMembershipProofs ------------------------
(***************************************************************************)
(* Proofs about ChainMembership, for any number of servers, all of them    *)
(* watched or some: its types, and of every server whose child_watcher and *)
(* main did not list at the same time that no event is lost, that it       *)
(* forwards to later servers only, and that a settled chain is connected   *)
(* as far as its servers have heard of each other.                         *)
(***************************************************************************)
EXTENDS ChainMembership, FiniteSetTheorems, TLAPS

\* How often main has asked.
Asked(s) == IF ~Running(s) THEN 0
            ELSE IF pc[s] = "created" THEN (IF listing[s] = "no" THEN 0 ELSE 1)
            ELSE IF pc[s] \in {"listed", "named"} /\ listing[s] = "no" THEN 1
            ELSE IF pc[s] \in {"listed", "named", "relisted"}
                    /\ (pc[s] = "relisted" => listing[s] = "no") THEN 2
            ELSE 3

\* Each question asks for one report, and without a report to take up s will get
\* one of the next change.
Reported(s) == /\ events[s] + (IF watch[s] THEN 1 ELSE 0) <= Asked(s)
               /\ Asked(s) > 0 /\ events[s] = 0 => watch[s]

\* What the places of the two threads of s have to do with each other.
Threaded(s) == /\ listing[s] # "no" => Lists(s)
               /\ ~Running(s) => /\ watcher[s] = "idle" /\ heard[s] = "never"
               /\ Running(s) => s \in nodes
               /\ watcher[s] # "idle" => heard[s] # "never"
               /\ watcher[s] # "idle" /\ heard[s] # "mixed" => listing[s] = "no"
               /\ watcher[s] \notin {"get", "connect"} => target[s] = None
               /\ heard[s] = "mending" => watcher[s] # "idle"
               /\ heard[s] = "never" => next_server[s] = None
               /\ heard[s] # "never" => Asked(s) > 0

\* Whether a list that one thread works on alone is stored and yet to be sorted.
Stored(s) == watcher[s] = "stored" \/ (watcher[s] = "idle" /\ listing[s] = "stored")

\* Without a report to take up what a thread was told, and what it stored of it,
\* are the children there are.
Knows(s) == heard[s] # "mixed" =>
    /\ Stored(s) => children_list[s] \in Seq(Servers)
    /\ Asked(s) > 0 /\ events[s] = 0 =>
          /\ watcher[s] = "asked" => answer[s]["watcher"] = nodes
          /\ watcher[s] = "idle" /\ listing[s] = "asked" => answer[s]["main"] = nodes
          /\ Stored(s) => Entries(children_list[s]) = nodes
          /\ \/ watcher[s] = "idle" /\ listing[s] = "no"
             \/ watcher[s] \in {"search", "get", "connect"}
             => Entries(children_list[s]) = nodes /\ Ascending(children_list[s])

\* While child_watcher runs alone its own node is in its list, which is sorted.
Finds(s) == heard[s] # "mixed" =>
    /\ watcher[s] = "asked" => s \in answer[s]["watcher"]
    /\ watcher[s] = "stored" => s \in Entries(children_list[s])
    /\ watcher[s] \in {"search", "get", "connect"} =>
          /\ children_list[s] \in Seq(Servers) /\ Ascending(children_list[s])
          /\ s \in Entries(children_list[s])
    /\ target[s] # None => target[s] > s
    /\ watcher[s] \in {"get", "connect"} /\ events[s] = 0 => target[s] = Successor(nodes, s)

\* A server whose child_watcher ran alone is connected as it found, unless that
\* server has ended.
Follows(s) == /\ Alone(s) /\ next_server[s] # None => next_server[s] > s
              /\ heard[s] = "alone" /\ watcher[s] = "idle" /\ events[s] = 0 =>
                    \/ next_server[s] = Successor(nodes, s)
                    \/ Successor(nodes, s) # None /\ ~Running(Successor(nodes, s))

Informed(s) == Reported(s) /\ Threaded(s) /\ Knows(s) /\ Finds(s) /\ Follows(s)

Following == \A s \in Servers : Informed(s)

IInv == TypeOK /\ Following

-----------------------------------------------------------------------------
(* Lists.                                                                  *)

LEMMA FiniteCardinality == ASSUME NEW S \in SUBSET Servers
                           PROVE  IsFiniteSet(S) /\ Cardinality(S) \in Nat
<1>1. IsFiniteSet(Servers)
  BY MembershipAssumption, FS_Interval DEF Servers
<1> QED BY <1>1, FS_Subset, FS_CardinalityType

LEMMA ArrangementsAre == ASSUME NEW S \in SUBSET Servers, NEW list \in Arrangements(S)
                         PROVE  list \in Seq(Servers) /\ Entries(list) = S
<1>1. list \in [1..Cardinality(S) -> S] /\ Entries(list) = S
  BY DEF Arrangements
<1>2. list \in Seq(S)
  BY <1>1, FiniteCardinality
<1> QED BY <1>1, <1>2

LEMMA EntriesAre == ASSUME NEW list \in Seq(Servers) PROVE Entries(list) \in SUBSET Servers
BY DEF Entries

LEMMA SortedAre == ASSUME NEW l \in Seq(Servers), NEW list \in Sorted(l)
                   PROVE  list \in Seq(Servers) /\ Entries(list) = Entries(l) /\ Ascending(list)
BY EntriesAre, ArrangementsAre DEF Sorted

LEMMA NoneIsNoServer == None \notin Servers
BY MembershipAssumption DEF Servers

LEMMA Minimum == ASSUME NEW S \in SUBSET Nat, S # {}
                 PROVE  \E n \in S : \A m \in S : n <= m
<1> DEFINE R == StrictSubsetOrdering(Nat)
           F == FiniteSubsetsOf(Nat)
           T == {1..n : n \in S}
<1>1. IsWellFoundedOn(R, F)
  BY FS_StrictSubsetOrderingWellFounded
<1>2. \A n \in S : 1..n \in F
  <2> TAKE n \in S
  <2>1. n \in Int /\ 1 \in Int /\ 1..n \in SUBSET Nat
    OBVIOUS
  <2>2. IsFiniteSet(1..n)
    BY <2>1, FS_Interval
  <2> QED BY <2>1, <2>2 DEF FiniteSubsetsOf
<1>3. T \subseteq F /\ T # {}
  BY <1>2
<1> HIDE DEF R, F
<1>4. PICK x \in T : \A y \in T : <<y, x>> \notin R
  BY <1>1, <1>3, WFMin
<1>5. PICK n \in S : x = 1..n
  BY <1>4
<1>6. ASSUME NEW m \in S, m < n PROVE FALSE
  <2>1. 1..m \in SUBSET Nat /\ 1..n \in SUBSET Nat /\ 1..m \subseteq 1..n /\ 1..m # 1..n
    <3>1. n \in 1..n /\ n \notin 1..m
      BY <1>6
    <3> QED BY <3>1, <1>6
  <2>2. <<1..m, 1..n>> \in R
    BY <2>1 DEF R, StrictSubsetOrdering
  <2> QED BY <2>2, <1>4, <1>5
<1> QED BY <1>6

LEMMA SuccessorIsLater ==
    ASSUME NEW list \in SUBSET Servers, NEW s \in Servers
    PROVE  \/ Successor(list, s) = None
           \/ Successor(list, s) \in list /\ Successor(list, s) > s
<1> DEFINE later == {n \in list : n > s}
<1>1. later \in SUBSET Nat
  <2>1. Servers \subseteq Nat
    BY MembershipAssumption DEF Servers
  <2> QED BY <2>1
<1>2. CASE later = {}
  BY <1>2 DEF Successor
<1>3. CASE later # {}
  <2>1. \E n \in later : \A m \in later : n <= m
    BY <1>1, <1>3, Minimum
  <2>2. Successor(list, s) = CHOOSE n \in later : \A m \in later : n <= m
    BY <1>3 DEF Successor
  <2> HIDE DEF later
  <2>3. Successor(list, s) \in later
    BY <2>1, <2>2
  <2> QED BY <2>3 DEF later
<1> QED BY <1>2, <1>3

\* What comes after s in an ascending list is its successor.
LEMMA BesideIsSuccessor ==
    ASSUME NEW list \in Seq(Servers), Ascending(list), NEW s \in Servers,
           NEW next \in Beside(list, s)
    PROVE  next \in Servers /\ next > s /\ next = Successor(Entries(list), s)
<1>1. PICK i \in 1..Len(list) - 1 : list[i] = s /\ next = list[i + 1]
  BY DEF Beside
<1>2. i \in 1..Len(list) /\ i + 1 \in 1..Len(list) /\ i < i + 1 /\ Len(list) \in Nat
  BY <1>1
<1>3. next \in Servers /\ next > s
  BY <1>1, <1>2, MembershipAssumption DEF Ascending, Servers
<1> DEFINE later == {n \in Entries(list) : n > s}
<1>4. next \in later
  BY <1>1, <1>2, <1>3 DEF Entries
<1>5. \A m \in later : next <= m
  <2> TAKE m \in later
  <2>1. PICK j \in 1..Len(list) : m = list[j]
    BY DEF Entries
  <2>2. j > i
    <3>1. m > s /\ m \in Servers /\ s \in Nat /\ m \in Nat
      BY <2>1, MembershipAssumption DEF Servers
    <3>2. j < i => m < s
      BY <1>1, <1>2, <2>1 DEF Ascending
    <3>3. j # i
      BY <1>1, <2>1, <3>1
    <3> QED BY <1>2, <2>1, <3>1, <3>2, <3>3
  <2>3. j = i + 1 \/ i + 1 < j
    BY <1>2, <2>1, <2>2
  <2>4. i + 1 < j => list[i + 1] < list[j]
    BY <1>2, <2>1 DEF Ascending
  <2> QED BY <1>1, <1>3, <2>1, <2>3, <2>4, MembershipAssumption DEF Servers
<1>6. \A m \in later : (\A k \in later : m <= k) => m = next
  <2>1. \A m \in later : m \in Nat
    BY EntriesAre, MembershipAssumption DEF Servers
  <2> QED BY <1>4, <1>5, <2>1
<1>7. Successor(Entries(list), s) = CHOOSE n \in later : \A m \in later : n <= m
  BY <1>4 DEF Successor
<1> HIDE DEF later
<1>8. Successor(Entries(list), s) = next
  BY <1>4, <1>5, <1>6, <1>7
<1> QED BY <1>3, <1>8

\* With nothing after it s is the last.
LEMMA NobodyBeside ==
    ASSUME NEW list \in Seq(Servers), Ascending(list), NEW s \in Servers,
           s \in Entries(list), Beside(list, s) = {}
    PROVE  Successor(Entries(list), s) = None
<1>1. PICK i \in 1..Len(list) : list[i] = s
  BY DEF Entries
<1>2. i = Len(list)
  <2>1. i \notin {j \in 1..Len(list) - 1 : list[j] = s}
    BY DEF Beside
  <2> QED BY <1>1, <2>1
<1>3. ASSUME NEW m \in Entries(list), m > s PROVE FALSE
  <2>1. PICK j \in 1..Len(list) : m = list[j]
    BY DEF Entries
  <2>2. j < i \/ j = i
    BY <1>2, <2>1
  <2>3. j < i => m < s
    BY <1>1, <2>1 DEF Ascending
  <2>4. m \in Nat /\ s \in Nat
    BY <2>1, MembershipAssumption DEF Servers
  <2> QED BY <1>1, <1>3, <2>1, <2>2, <2>3, <2>4
<1> QED BY <1>3 DEF Successor

-----------------------------------------------------------------------------
(* Listings.                                                               *)

LEMMA AskSteps ==
    ASSUME TypeOK, NEW s \in Servers, NEW t \in Threads, Ask(s, t)
    PROVE  /\ answer' \in [Servers -> [Threads -> SUBSET Servers]]
           /\ watch' \in [Servers -> BOOLEAN]
           /\ answer'[s][t] = nodes /\ watch'[s] = TRUE
           /\ UNCHANGED <<nodes, children_list>>
           /\ \A r \in Servers \ {s} : answer'[r] = answer[r] /\ watch'[r] = watch[r]
BY DEF Ask, TypeOK

LEMMA StoreSteps ==
    ASSUME TypeOK, NEW s \in Servers, NEW t \in Threads, Store(s, t)
    PROVE  /\ answer' \in [Servers -> [Threads -> SUBSET Servers]]
           /\ children_list' \in [Servers -> Seq(Servers) \cup {Undefined}]
           /\ heard[s] # "mixed" => /\ children_list'[s] \in Seq(Servers)
                                    /\ Entries(children_list'[s]) = answer[s][t]
           /\ \A r \in Servers \ {s} : /\ answer'[r] = answer[r]
                                       /\ children_list'[r] = children_list[r]
<1>1. /\ answer' = [answer EXCEPT ![s][t] = {}]
      /\ answer' \in [Servers -> [Threads -> SUBSET Servers]]
      /\ \A r \in Servers \ {s} : answer'[r] = answer[r]
  BY DEF Store, TypeOK
<1>2. PICK list \in IF heard[s] = "mixed" THEN {Undefined} ELSE Arrangements(answer[s][t]) :
         children_list' = [children_list EXCEPT ![s] = list]
  BY DEF Store, Leaves
<1>3. heard[s] # "mixed" => list \in Seq(Servers) /\ Entries(list) = answer[s][t]
  <2>1. answer[s][t] \in SUBSET Servers
    BY DEF TypeOK
  <2>2. heard[s] # "mixed" => list \in Arrangements(answer[s][t])
    BY <1>2
  <2> QED BY <2>1, <2>2, ArrangementsAre
<1>4. list \in Seq(Servers) \cup {Undefined}
  BY <1>2, <1>3
<1>5. /\ children_list' \in [Servers -> Seq(Servers) \cup {Undefined}]
      /\ children_list'[s] = list
      /\ \A r \in Servers \ {s} : children_list'[r] = children_list[r]
  BY <1>2, <1>4 DEF TypeOK
<1> QED BY <1>1, <1>3, <1>5

LEMMA SortSteps ==
    ASSUME TypeOK, NEW s \in Servers, Sort(s),
           heard[s] # "mixed" => children_list[s] \in Seq(Servers)
    PROVE  /\ answer' = answer
           /\ children_list' \in [Servers -> Seq(Servers) \cup {Undefined}]
           /\ heard[s] # "mixed" =>
                 /\ children_list'[s] \in Seq(Servers) /\ Ascending(children_list'[s])
                 /\ Entries(children_list'[s]) = Entries(children_list[s])
           /\ \A r \in Servers \ {s} : children_list'[r] = children_list[r]
<1>1. PICK list \in IF heard[s] = "mixed" THEN {Undefined} ELSE Sorted(children_list[s]) :
         children_list' = [children_list EXCEPT ![s] = list]
  BY DEF Sort, Leaves
<1>2. heard[s] # "mixed" => /\ list \in Seq(Servers) /\ Ascending(list)
                            /\ Entries(list) = Entries(children_list[s])
  BY <1>1, SortedAre
<1>3. list \in Seq(Servers) \cup {Undefined}
  BY <1>1, <1>2
<1>4. /\ children_list' \in [Servers -> Seq(Servers) \cup {Undefined}]
      /\ children_list'[s] = list
      /\ \A r \in Servers \ {s} : children_list'[r] = children_list[r]
  BY <1>1, <1>3 DEF TypeOK
<1> QED BY <1>2, <1>4 DEF Sort

\* A list that a thread is about to sort alone is a list.
LEMMA Sortable ==
    ASSUME TypeOK, NEW s \in Servers, Informed(s), SortMain(s) \/ SortWatcher(s),
           heard[s] # "mixed"
    PROVE  Stored(s) /\ children_list[s] \in Seq(Servers)
<1>1. Stored(s)
  BY DEF Informed, Threaded, Stored, SortMain, SortWatcher, Watcher
<1> QED BY <1>1 DEF Informed, Knows

-----------------------------------------------------------------------------
(* Types.                                                                  *)

LEMMA InitTypes == Init => IInv
<1> SUFFICES ASSUME Init PROVE IInv
  OBVIOUS
<1>1. TypeOK
  BY DEF Init, TypeOK, HeardValues
<1>2. ASSUME NEW s \in Servers PROVE Informed(s)
  <2>1. Reported(s)
    BY DEF Init, Reported, Asked, Running
  <2>2. Threaded(s) /\ Follows(s)
    BY DEF Init, Threaded, Follows, Running, Alone
  <2>3. Knows(s) /\ Finds(s)
    BY DEF Init, Knows, Finds, Stored, Asked, Running
  <2> QED BY <2>1, <2>2, <2>3 DEF Informed
<1> QED BY <1>1, <1>2 DEF IInv, Following

LEMMA EndsTypes == ASSUME TypeOK, NEW s \in Servers, Ends(s)
                   PROVE  TypeOK'
<1>1. /\ watch' \in [Servers -> BOOLEAN] /\ events' \in [Servers -> 0..3]
      /\ listing' \in [Servers -> {"no", "asked", "stored"}] /\ nodes' = nodes
  BY DEF TypeOK, Ends
<1>2. /\ answer' \in [Servers -> [Threads -> SUBSET Servers]]
      /\ children_list' \in [Servers -> Seq(Servers) \cup {Undefined}]
      /\ heard' \in [Servers -> HeardValues]
  BY DEF TypeOK, Ends, HeardValues
<1>3. /\ pc' \in [Servers -> {"new", "created", "listed", "named", "relisted", "joined",
                              "serving", "off"}]
      /\ watcher' \in [Servers -> {"idle", "asked", "stored", "search", "get", "connect"}]
  BY DEF TypeOK, Ends, Goto
<1>4. next_server' \in [Servers -> Servers \cup {None, Undefined}]
      /\ target' \in [Servers -> Servers \cup {None, Undefined}]
  BY DEF TypeOK, Ends
<1> QED BY <1>1, <1>2, <1>3, <1>4 DEF TypeOK

LEMMA ChangeTypes == ASSUME TypeOK, Following, NEW ns \in SUBSET Servers, NodesBecome(ns)
                     PROVE  /\ nodes' \subseteq Servers
                            /\ watch' \in [Servers -> BOOLEAN]
                            /\ events' \in [Servers -> 0..3]
<1>1. ASSUME NEW s \in Servers PROVE (IF watch[s] THEN events[s] + 1 ELSE events[s]) \in 0..3
  <2>1. Asked(s) \in 0..3
    BY DEF Asked
  <2>2. events[s] \in 0..3 /\ watch[s] \in BOOLEAN
    BY DEF TypeOK
  <2>3. events[s] + (IF watch[s] THEN 1 ELSE 0) <= Asked(s)
    BY DEF Following, Informed, Reported
  <2> QED BY <2>1, <2>2, <2>3
<1> QED BY <1>1 DEF NodesBecome, TypeOK

\* Done brings child_watcher to one of its places.
LEMMA DoneTypes == ASSUME TypeOK, NEW s \in Servers, Done(s)
                   PROVE  /\ watcher' \in [Servers -> {"idle", "asked", "stored", "search",
                                                       "get", "connect"}]
                          /\ heard' \in [Servers -> HeardValues]
BY DEF Done, TypeOK, HeardValues

LEMMA Types == IInv /\ [Next]_vars => TypeOK'
<1> SUFFICES ASSUME TypeOK, Following, [Next]_vars PROVE TypeOK'
  BY DEF IInv
<1> USE DEF zookeeper, main, lists, chain, vars
<1>0. \A s \in Servers : Informed(s)
  BY DEF Following
<1>t. "main" \in Threads /\ "watcher" \in Threads
  BY DEF Threads
<1>1. ASSUME NEW s \in Servers, CreateNode(s) PROVE TypeOK'
  <2>1. nodes \cup {s} \in SUBSET Servers
    BY DEF TypeOK
  <2> QED BY <1>1, <2>1, ChangeTypes DEF CreateNode, Goto, TypeOK
<1>2. ASSUME NEW s \in Servers, AskMain(s) PROVE TypeOK'
  <2>1. heard' \in [Servers -> HeardValues]
    BY <1>2 DEF AskMain, TypeOK, HeardValues
  <2>2. listing' \in [Servers -> {"no", "asked", "stored"}] /\ UNCHANGED <<events, pc, chain>>
    BY <1>2 DEF AskMain, TypeOK
  <2>3. Ask(s, "main")
    BY <1>2 DEF AskMain
  <2>4. /\ answer' \in [Servers -> [Threads -> SUBSET Servers]]
        /\ watch' \in [Servers -> BOOLEAN] /\ UNCHANGED <<nodes, children_list>>
    BY <1>t, <2>3, AskSteps
  <2> QED BY <2>1, <2>2, <2>4 DEF TypeOK
<1>3. ASSUME NEW s \in Servers, StoreMain(s) PROVE TypeOK'
  <2>1. /\ listing' \in [Servers -> {"no", "asked", "stored"}]
        /\ UNCHANGED <<zookeeper, pc, chain, heard>> /\ Store(s, "main")
    BY <1>3 DEF StoreMain, TypeOK
  <2> QED BY <1>t, <2>1, StoreSteps DEF TypeOK
<1>4. ASSUME NEW s \in Servers, SortMain(s) PROVE TypeOK'
  <2>1. /\ listing' \in [Servers -> {"no", "asked", "stored"}]
        /\ pc' \in [Servers -> {"new", "created", "listed", "named", "relisted", "joined",
                                "serving", "off"}]
        /\ UNCHANGED <<zookeeper, chain, heard>> /\ Sort(s)
    BY <1>4 DEF SortMain, Goto, TypeOK
  <2>2. heard[s] # "mixed" => children_list[s] \in Seq(Servers)
    BY <1>0, <1>4, Sortable
  <2> QED BY <2>1, <2>2, SortSteps DEF TypeOK
<1>5. ASSUME NEW s \in Servers, SetNodeId(s) \/ NotConnected(s) PROVE TypeOK'
  BY <1>5 DEF SetNodeId, NotConnected, Goto, TypeOK
<1>6. ASSUME NEW s \in Servers, setTable(s) PROVE TypeOK'
  <2>1. CASE Ends(s)
    BY <2>1, EndsTypes
  <2>2. CASE Goto(s, "serving") /\ UNCHANGED <<zookeeper, listing, lists, chain, heard>>
    BY <2>2 DEF Goto, TypeOK
  <2> QED BY <1>6, <2>1, <2>2 DEF setTable
<1>7. ASSUME NEW s \in Servers, Leave(s) \/ SearchNothing(s) PROVE TypeOK'
  BY <1>7, EndsTypes DEF Leave, SearchNothing
<1>8. ASSUME NEW s \in Servers, Expire(s) PROVE TypeOK'
  <2>1. nodes \ {s} \in SUBSET Servers
    BY DEF TypeOK
  <2> QED BY <1>8, <2>1, ChangeTypes DEF Expire, TypeOK
<1>9. ASSUME NEW s \in Servers, TakeEvent(s) PROVE TypeOK'
  <2>1. events[s] - 1 \in 0..3
    BY <1>9 DEF TakeEvent, TypeOK
  <2>2. /\ events' \in [Servers -> 0..3]
        /\ watcher' \in [Servers -> {"idle", "asked", "stored", "search", "get", "connect"}]
    BY <1>9, <2>1 DEF TakeEvent, Watcher, TypeOK
  <2>3. heard' \in [Servers -> HeardValues]
    BY <1>9 DEF TakeEvent, TypeOK, HeardValues
  <2>4. Ask(s, "watcher") /\ UNCHANGED <<main, next_server, target>>
    BY <1>9 DEF TakeEvent
  <2> QED BY <1>t, <2>2, <2>3, <2>4, AskSteps DEF TypeOK
<1>10. ASSUME NEW s \in Servers, StoreWatcher(s) PROVE TypeOK'
  <2>1. /\ watcher' \in [Servers -> {"idle", "asked", "stored", "search", "get", "connect"}]
        /\ UNCHANGED <<zookeeper, main, next_server, target, heard>> /\ Store(s, "watcher")
    BY <1>10 DEF StoreWatcher, Watcher, TypeOK
  <2> QED BY <1>t, <2>1, StoreSteps DEF TypeOK
<1>11. ASSUME NEW s \in Servers, SortWatcher(s) PROVE TypeOK'
  <2>1. /\ watcher' \in [Servers -> {"idle", "asked", "stored", "search", "get", "connect"}]
        /\ UNCHANGED <<zookeeper, main, next_server, target, heard>> /\ Sort(s)
    BY <1>11 DEF SortWatcher, Watcher, TypeOK
  <2>2. heard[s] # "mixed" => children_list[s] \in Seq(Servers)
    BY <1>0, <1>11, Sortable
  <2> QED BY <2>1, <2>2, SortSteps DEF TypeOK
<1>12. ASSUME NEW s \in Servers, FindNobody(s) PROVE TypeOK'
  <2>1. next_server' \in [Servers -> Servers \cup {None, Undefined}]
    BY <1>12 DEF FindNobody, TypeOK
  <2> QED BY <1>12, <2>1, DoneTypes DEF FindNobody, TypeOK
<1>13. ASSUME NEW s \in Servers, FindNext(s) PROVE TypeOK'
  <2>1. PICK next \in IF heard[s] = "mixed" THEN {Undefined} ELSE Beside(children_list[s], s) :
           target' = [target EXCEPT ![s] = next]
    BY <1>13 DEF FindNext
  <2>2. next \in Servers \cup {Undefined}
    <3>1. watcher[s] = "search"
      BY <1>13 DEF FindNext, Watcher
    <3>2. heard[s] # "mixed" => children_list[s] \in Seq(Servers) /\ Ascending(children_list[s])
      BY <1>0, <3>1 DEF Informed, Finds
    <3> QED BY <2>1, <3>2, BesideIsSuccessor
  <2>3. target' \in [Servers -> Servers \cup {None, Undefined}]
    BY <2>1, <2>2 DEF TypeOK
  <2>4. /\ watcher' \in [Servers -> {"idle", "asked", "stored", "search", "get", "connect"}]
        /\ UNCHANGED <<zookeeper, main, lists, next_server, heard>>
    BY <1>13 DEF FindNext, Watcher, TypeOK
  <2> QED BY <2>3, <2>4 DEF TypeOK
<1>14. ASSUME NEW s \in Servers, GetAddress(s) PROVE TypeOK'
  BY <1>14 DEF GetAddress, Watcher, TypeOK
<1>15. ASSUME NEW s \in Servers, Reconnect(s) PROVE TypeOK'
  <2>0. Reached(target[s]) \in Servers \cup {None, Undefined}
    BY DEF Reached, TypeOK
  <2>1. /\ next_server' \in [Servers -> Servers \cup {None, Undefined}]
        /\ target' \in [Servers -> Servers \cup {None, Undefined}]
    BY <1>15, <2>0 DEF Reconnect, TypeOK
  <2> QED BY <1>15, <2>1, DoneTypes DEF Reconnect, TypeOK
<1>16. CASE UNCHANGED vars
  BY <1>16 DEF TypeOK
<1>17. Watched \subseteq Servers
  BY MembershipAssumption DEF Servers
<1>18. ASSUME NEW s \in Servers, join(s) PROVE TypeOK'
  BY <1>18, <1>2, <1>3, <1>4, <1>5, <1>6 DEF join
<1>19. ASSUME NEW s \in Servers, child_watcher(s) PROVE TypeOK'
  BY <1>19, <1>7, <1>9, <1>10, <1>11, <1>12, <1>13, <1>14, <1>15 DEF child_watcher
<1> QED BY <1>1, <1>7, <1>8, <1>16, <1>17, <1>18, <1>19 DEF Next

-----------------------------------------------------------------------------
(* Steps of other servers.                                                 *)

\* Nothing of s changes.
Same(s) == /\ events'[s] = events[s] /\ watch'[s] = watch[s]
           /\ pc'[s] = pc[s] /\ listing'[s] = listing[s] /\ watcher'[s] = watcher[s]
           /\ answer'[s] = answer[s] /\ children_list'[s] = children_list[s]
           /\ next_server'[s] = next_server[s] /\ target'[s] = target[s]
           /\ heard'[s] = heard[s]

\* No znode and no server comes or goes, except that s may end.
Others(s) == /\ nodes' = nodes
             /\ \A r \in Servers \ {s} : Same(r)
             /\ Running(s)' => Running(s)

LEMMA OthersKeep ==
    ASSUME TypeOK, NEW s \in Servers, NEW r \in Servers \ {s}, Informed(r), Others(s)
    PROVE  Informed(r)'
<1>1. Same(r) /\ nodes' = nodes
  BY DEF Others
<1>2. Asked(r)' = Asked(r) /\ Lists(r)' = Lists(r) /\ Running(r)' = Running(r)
  BY <1>1 DEF Same, Asked, Lists, Running
<1>3. Reported(r)' /\ Threaded(r)'
  BY <1>1, <1>2 DEF Informed, Same, Reported, Threaded
<1>4. Knows(r)' /\ Finds(r)'
  BY <1>1, <1>2 DEF Informed, Same, Knows, Finds, Stored
<1>5. \A x \in Servers : Running(x)' => Running(x)
  BY DEF Others, Same, Running
<1>6. Successor(nodes, r) # None => Successor(nodes, r) \in Servers
  BY SuccessorIsLater DEF TypeOK
<1>7. Follows(r)'
  <2>1. Follows(r) /\ Alone(r)' = Alone(r) /\ Successor(nodes, r)' = Successor(nodes, r)
    BY <1>1 DEF Informed, Same, Alone, Successor
  <2> QED BY <1>1, <1>5, <1>6, <2>1 DEF Same, Follows
<1> QED BY <1>3, <1>4, <1>7 DEF Informed

\* A change of the znodes gets reported to all that have asked for it, and the
\* others have not listed yet.
LEMMA ChangeInforms ==
    ASSUME TypeOK, NEW ns \in SUBSET Servers, NodesBecome(ns),
           NEW s \in Servers, Informed(s), UNCHANGED <<listing, lists, chain, heard>>,
           pc'[s] = pc[s] \/ (pc[s] = "new" /\ pc'[s] = "created"),
           Running(s)' => s \in ns
    PROVE  Informed(s)'
<1>1. /\ listing'[s] = listing[s] /\ watcher'[s] = watcher[s] /\ heard'[s] = heard[s]
      /\ next_server'[s] = next_server[s] /\ target'[s] = target[s]
      /\ answer'[s] = answer[s] /\ children_list'[s] = children_list[s]
  BY DEF lists, chain
<1>2. /\ nodes' = ns /\ watch'[s] = FALSE
      /\ events'[s] = IF watch[s] THEN events[s] + 1 ELSE events[s]
      /\ events[s] \in 0..3 /\ watch[s] \in BOOLEAN
  BY DEF NodesBecome, TypeOK
<1>3. pc[s] = "new" => listing[s] = "no"
  BY DEF Informed, Threaded, Lists
<1>4. Asked(s)' = Asked(s) /\ Asked(s) \in 0..3
  BY <1>1, <1>3 DEF Asked, Running
<1>5. /\ events[s] + (IF watch[s] THEN 1 ELSE 0) <= Asked(s)
      /\ Asked(s) > 0 /\ events[s] = 0 => watch[s]
  BY DEF Informed, Reported
<1>6. Asked(s) > 0 => events'[s] > 0
  BY <1>2, <1>5
<1>7. Reported(s)'
  BY <1>2, <1>4, <1>5, <1>6 DEF Reported
<1>8. Threaded(s)'
  BY <1>1, <1>2, <1>3, <1>4 DEF Informed, Threaded, Lists, Running
<1>9. Knows(s)'
  BY <1>1, <1>2, <1>4, <1>6 DEF Informed, Knows, Stored
<1>10. heard[s] # "never" => events'[s] > 0
  BY <1>6 DEF Informed, Threaded
<1>11. watcher[s] # "idle" => events'[s] > 0
  BY <1>10 DEF Informed, Threaded
<1>12. events'[s] > 0 => events'[s] # 0
  BY <1>2
<1>13. Finds(s)'
  BY <1>1, <1>11, <1>12 DEF Informed, Finds
<1>14. Follows(s)'
  BY <1>1, <1>10, <1>12 DEF Informed, Follows, Alone
<1> QED BY <1>7, <1>8, <1>9, <1>13, <1>14 DEF Informed

-----------------------------------------------------------------------------
(* Steps of the server itself.                                             *)

LEMMA EndsInforms == ASSUME TypeOK, NEW s \in Servers, Ends(s)
                     PROVE  Informed(s)' /\ Others(s)
<1>1. /\ pc'[s] = "off" /\ watch'[s] = FALSE /\ events'[s] = 0 /\ listing'[s] = "no"
      /\ watcher'[s] = "idle" /\ next_server'[s] = None /\ target'[s] = None
      /\ heard'[s] = "never" /\ nodes' = nodes
  BY DEF Ends, Goto, TypeOK
<1>2. Asked(s)' = 0 /\ ~Running(s)'
  BY <1>1 DEF Asked, Running
<1>3. Reported(s)' /\ Threaded(s)'
  BY <1>1, <1>2 DEF Reported, Threaded
<1>4. Knows(s)' /\ Finds(s)'
  BY <1>1, <1>2 DEF Knows, Finds, Stored
<1>5. Follows(s)'
  BY <1>1 DEF Follows
<1>6. \A r \in Servers \ {s} : Same(r)
  BY DEF Ends, Goto, TypeOK, Same
<1> QED BY <1>1, <1>2, <1>3, <1>4, <1>5, <1>6 DEF Informed, Others

LEMMA AskMainInforms == ASSUME TypeOK, NEW s \in Servers, Informed(s), AskMain(s)
                        PROVE  Informed(s)' /\ Others(s)
<1> USE DEF zookeeper, main, lists, chain
<1>1. Ask(s, "main") /\ "main" \in Threads
  BY DEF AskMain, Threads
<1>2. /\ answer'[s]["main"] = nodes /\ watch'[s] = TRUE /\ nodes' = nodes
      /\ children_list' = children_list
      /\ \A r \in Servers \ {s} : answer'[r] = answer[r] /\ watch'[r] = watch[r]
  BY <1>1, AskSteps
<1>3. /\ Lists(s) /\ listing[s] = "no" /\ listing'[s] = "asked"
      /\ heard'[s] = (IF watcher[s] = "idle" THEN heard[s] ELSE "mixed")
      /\ UNCHANGED <<events, pc, watcher, target, next_server>>
  BY DEF AskMain, TypeOK
<1>4. Asked(s)' = Asked(s) + 1 /\ Asked(s) \in 0..2 /\ Running(s)' /\ Running(s) /\ Lists(s)'
  BY <1>3 DEF Asked, Running, Lists
<1>5. events[s] \in 0..3 /\ watch[s] \in BOOLEAN
  BY DEF TypeOK
<1>6. Reported(s)'
  BY <1>2, <1>3, <1>4, <1>5 DEF Informed, Reported
<1>7. Threaded(s)'
  BY <1>2, <1>3, <1>4 DEF Informed, Threaded
<1>8. Knows(s)'
  BY <1>2, <1>3 DEF Informed, Knows, Stored
<1>9. Finds(s)'
  BY <1>2, <1>3 DEF Informed, Finds
<1>10. Follows(s)'
  <2>1. Running(Successor(nodes, s))' = Running(Successor(nodes, s))
    BY <1>2, <1>3 DEF Running
  <2>2. Successor(nodes, s)' = Successor(nodes, s)
    BY <1>2
  <2>3. heard'[s] # "mixed" => heard'[s] = heard[s]
    BY <1>3
  <2> QED BY <1>3, <2>1, <2>2, <2>3, <1>2 DEF Informed, Follows, Alone, Running
<1>11. \A r \in Servers \ {s} : Same(r)
  BY <1>2, <1>3 DEF AskMain, TypeOK, Same
<1> QED BY <1>2, <1>4, <1>6, <1>7, <1>8, <1>9, <1>10, <1>11 DEF Informed, Others

LEMMA StoreMainInforms == ASSUME TypeOK, NEW s \in Servers, Informed(s), StoreMain(s)
                          PROVE  Informed(s)' /\ Others(s)
<1> USE DEF zookeeper, main, lists, chain
<1>1. Store(s, "main") /\ "main" \in Threads
  BY DEF StoreMain, Threads
<1>2. /\ heard[s] # "mixed" => /\ children_list'[s] \in Seq(Servers)
                               /\ Entries(children_list'[s]) = answer[s]["main"]
      /\ \A r \in Servers \ {s} : answer'[r] = answer[r] /\ children_list'[r] = children_list[r]
  BY <1>1, StoreSteps
<1>3. /\ listing[s] = "asked" /\ listing'[s] = "stored"
      /\ UNCHANGED <<nodes, watch, events, pc, watcher, target, next_server, heard>>
  BY DEF StoreMain, TypeOK
<1>4. Asked(s)' = Asked(s) /\ Running(s)' = Running(s) /\ Lists(s)' = Lists(s)
  BY <1>3 DEF Asked, Running, Lists
<1>5. Reported(s)'
  BY <1>3, <1>4 DEF Informed, Reported
<1>6. Threaded(s)'
  BY <1>3, <1>4 DEF Informed, Threaded
<1>7. heard[s] # "mixed" => watcher[s] = "idle"
  BY <1>3 DEF Informed, Threaded
<1>8. Knows(s)'
  BY <1>2, <1>3, <1>4, <1>7 DEF Informed, Knows, Stored
<1>9. Finds(s)'
  BY <1>3, <1>7 DEF Informed, Finds
<1>10. Follows(s)'
  BY <1>3 DEF Informed, Follows, Alone, Running
<1>11. \A r \in Servers \ {s} : Same(r)
  BY <1>2, <1>3 DEF StoreMain, TypeOK, Same
<1> QED BY <1>3, <1>4, <1>5, <1>6, <1>8, <1>9, <1>10, <1>11 DEF Informed, Others

LEMMA SortMainInforms == ASSUME TypeOK, NEW s \in Servers, Informed(s), SortMain(s)
                         PROVE  Informed(s)' /\ Others(s)
<1> USE DEF zookeeper, main, lists, chain
<1>1. Sort(s) /\ (heard[s] # "mixed" => children_list[s] \in Seq(Servers) /\ Stored(s))
  BY Sortable DEF SortMain
<1>2. /\ answer' = answer
      /\ heard[s] # "mixed" => /\ children_list'[s] \in Seq(Servers)
                               /\ Ascending(children_list'[s])
                               /\ Entries(children_list'[s]) = Entries(children_list[s])
      /\ \A r \in Servers \ {s} : children_list'[r] = children_list[r]
  BY <1>1, SortSteps
<1>3. /\ listing[s] = "stored" /\ listing'[s] = "no"
      /\ UNCHANGED <<nodes, watch, events, watcher, target, next_server, heard>>
      /\ pc'[s] = CASE pc[s] = "created" -> "listed"
                    [] pc[s] = "named"   -> "relisted"
                    [] OTHER             -> "joined"
  BY DEF SortMain, Goto, TypeOK
<1>4. Lists(s)
  BY <1>3 DEF Informed, Threaded
<1>5. Asked(s)' = Asked(s) /\ Running(s)' /\ Running(s)
  BY <1>3, <1>4 DEF Asked, Running, Lists
<1>6. Reported(s)'
  BY <1>3, <1>5 DEF Informed, Reported
<1>7. Threaded(s)'
  BY <1>3, <1>5 DEF Informed, Threaded
<1>8. heard[s] # "mixed" => watcher[s] = "idle"
  BY <1>3 DEF Informed, Threaded
<1>9. Knows(s)'
  <2>1. heard[s] # "mixed" /\ Asked(s) > 0 /\ events[s] = 0 => Entries(children_list[s]) = nodes
    BY <1>1 DEF Informed, Knows
  <2>2. heard[s] # "mixed" => ~Stored(s)'
    BY <1>3, <1>8 DEF Stored
  <2> QED BY <1>2, <1>3, <1>5, <1>8, <2>1, <2>2 DEF Knows
<1>10. Finds(s)'
  BY <1>3, <1>8 DEF Informed, Finds
<1>11. Follows(s)'
  <2>1. \A r \in Servers : Running(r)' => Running(r)
    BY <1>3, <1>5 DEF SortMain, Goto, TypeOK, Running
  <2>2. Successor(nodes, s) # None => Successor(nodes, s) \in Servers
    BY SuccessorIsLater DEF TypeOK
  <2>3. Successor(nodes, s)' = Successor(nodes, s) /\ Alone(s)' = Alone(s)
    BY <1>3 DEF Alone
  <2> QED BY <1>3, <2>1, <2>2, <2>3 DEF Informed, Follows
<1>12. \A r \in Servers \ {s} : Same(r)
  BY <1>2, <1>3 DEF SortMain, Goto, TypeOK, Same
<1> QED BY <1>3, <1>5, <1>6, <1>7, <1>9, <1>10, <1>11, <1>12 DEF Informed, Others

\* The steps of main that touch nothing but its place.
LEMMA GotoInforms ==
    ASSUME TypeOK, NEW s \in Servers, Informed(s), NEW label,
           \/ pc[s] = "listed" /\ label = "named"
           \/ pc[s] = "relisted" /\ listing[s] = "no" /\ label = "joined"
           \/ pc[s] = "joined" /\ label = "serving",
           Goto(s, label), UNCHANGED <<zookeeper, listing, lists, chain, heard>>
    PROVE  Informed(s)' /\ Others(s)
<1> USE DEF zookeeper, lists, chain
<1>1. /\ pc'[s] = label
      /\ UNCHANGED <<nodes, watch, events, listing, watcher, answer, children_list,
                     next_server, target, heard>>
  BY DEF Goto, TypeOK
<1>2. listing[s] = "no"
  BY DEF Informed, Threaded, Lists
<1>3. Running(s) /\ Running(s)'
  BY <1>1 DEF Running
<1>4. Asked(s) \in 1..3 /\ Asked(s)' \in 1..3 /\ Asked(s) <= Asked(s)'
  BY <1>1, <1>2 DEF Asked, Running
<1>5. events[s] \in 0..3 /\ watch[s] \in BOOLEAN
  BY DEF TypeOK
<1>6. Reported(s)'
  BY <1>1, <1>4, <1>5 DEF Informed, Reported
<1>7. Threaded(s)'
  BY <1>1, <1>2, <1>3, <1>4 DEF Informed, Threaded
<1>8. Knows(s)'
  BY <1>1, <1>4 DEF Informed, Knows, Stored
<1>9. Finds(s)'
  BY <1>1 DEF Informed, Finds
<1>10. Follows(s)'
  <2>1. \A r \in Servers : Running(r)' => Running(r)
    BY <1>3 DEF Goto, TypeOK, Running
  <2>2. Successor(nodes, s) # None => Successor(nodes, s) \in Servers
    BY SuccessorIsLater DEF TypeOK
  <2>3. Successor(nodes, s)' = Successor(nodes, s) /\ Alone(s)' = Alone(s)
    BY <1>1 DEF Alone
  <2> QED BY <1>1, <2>1, <2>2, <2>3 DEF Informed, Follows
<1>11. \A r \in Servers \ {s} : Same(r)
  BY <1>1 DEF Goto, TypeOK, Same
<1> QED BY <1>1, <1>3, <1>6, <1>7, <1>8, <1>9, <1>10, <1>11 DEF Informed, Others

LEMMA TakeEventInforms == ASSUME TypeOK, NEW s \in Servers, Informed(s), TakeEvent(s)
                          PROVE  Informed(s)' /\ Others(s)
<1> USE DEF main
<1>1. Ask(s, "watcher") /\ "watcher" \in Threads
  BY DEF TakeEvent, Threads
<1>2. /\ answer'[s]["watcher"] = nodes /\ watch'[s] = TRUE /\ nodes' = nodes
      /\ children_list' = children_list
      /\ \A r \in Servers \ {s} : answer'[r] = answer[r] /\ watch'[r] = watch[r]
  BY <1>1, AskSteps
<1>3. /\ Running(s) /\ events[s] > 0 /\ watcher[s] = "idle" /\ watcher'[s] = "asked"
      /\ events'[s] = events[s] - 1 /\ UNCHANGED <<pc, listing, next_server, target>>
      /\ heard'[s] = IF listing[s] # "no" THEN "mixed"
                     ELSE IF heard[s] \in {"never", "alone"} THEN "alone" ELSE "mending"
  BY DEF TakeEvent, Watcher, TypeOK
<1>4. events[s] \in 0..3 /\ watch[s] \in BOOLEAN /\ heard[s] \in HeardValues
  BY DEF TypeOK
<1>5. Asked(s)' = Asked(s) /\ Asked(s) \in 0..3 /\ Running(s)' /\ Lists(s)' = Lists(s)
  BY <1>3 DEF Asked, Running, Lists
<1>6. Asked(s) > 0
  BY <1>3, <1>4, <1>5 DEF Informed, Reported
<1>7. Reported(s)'
  BY <1>2, <1>3, <1>4, <1>5 DEF Informed, Reported
<1>8. heard'[s] # "never" /\ (heard'[s] # "mixed" => listing[s] = "no")
  BY <1>3
<1>9. heard'[s] = "alone" => heard[s] \in {"never", "alone"}
  BY <1>3
<1>10. Threaded(s)'
  BY <1>2, <1>3, <1>5, <1>6, <1>8 DEF Informed, Threaded
<1>11. Knows(s)'
  BY <1>2, <1>3 DEF Knows, Stored
<1>12. Finds(s)'
  <2>1. s \in nodes /\ target[s] = None
    BY <1>3 DEF Informed, Threaded
  <2> QED BY <1>2, <1>3, <2>1 DEF Finds
<1>13. Follows(s)'
  BY <1>3, <1>8, <1>9 DEF Informed, Follows, Alone
<1>14. \A r \in Servers \ {s} : Same(r)
  BY <1>2, <1>3 DEF TakeEvent, Watcher, TypeOK, Same
<1> QED BY <1>2, <1>5, <1>3, <1>7, <1>10, <1>11, <1>12, <1>13, <1>14 DEF Informed, Others

LEMMA StoreWatcherInforms ==
    ASSUME TypeOK, NEW s \in Servers, Informed(s), StoreWatcher(s)
    PROVE  Informed(s)' /\ Others(s)
<1> USE DEF zookeeper, main, lists, chain
<1>1. Store(s, "watcher") /\ "watcher" \in Threads
  BY DEF StoreWatcher, Threads
<1>2. /\ heard[s] # "mixed" => /\ children_list'[s] \in Seq(Servers)
                               /\ Entries(children_list'[s]) = answer[s]["watcher"]
      /\ \A r \in Servers \ {s} : answer'[r] = answer[r] /\ children_list'[r] = children_list[r]
  BY <1>1, StoreSteps
<1>3. /\ watcher[s] = "asked" /\ watcher'[s] = "stored"
      /\ UNCHANGED <<nodes, watch, events, pc, listing, target, next_server, heard>>
  BY DEF StoreWatcher, Watcher, TypeOK
<1>4. Asked(s)' = Asked(s) /\ Running(s)' = Running(s) /\ Lists(s)' = Lists(s)
  BY <1>3 DEF Asked, Running, Lists
<1>5. Reported(s)' /\ Threaded(s)'
  BY <1>3, <1>4 DEF Informed, Reported, Threaded
<1>6. Knows(s)'
  BY <1>2, <1>3, <1>4 DEF Informed, Knows, Stored
<1>7. Finds(s)'
  BY <1>2, <1>3 DEF Informed, Finds
<1>8. Follows(s)'
  BY <1>3 DEF Informed, Follows, Alone, Running
<1>9. \A r \in Servers \ {s} : Same(r)
  BY <1>2, <1>3 DEF StoreWatcher, Watcher, TypeOK, Same
<1> QED BY <1>3, <1>4, <1>5, <1>6, <1>7, <1>8, <1>9 DEF Informed, Others

LEMMA SortWatcherInforms ==
    ASSUME TypeOK, NEW s \in Servers, Informed(s), SortWatcher(s)
    PROVE  Informed(s)' /\ Others(s)
<1> USE DEF zookeeper, main, lists, chain
<1>1. Sort(s) /\ (heard[s] # "mixed" => children_list[s] \in Seq(Servers) /\ Stored(s))
  BY Sortable DEF SortWatcher
<1>2. /\ answer' = answer
      /\ heard[s] # "mixed" => /\ children_list'[s] \in Seq(Servers)
                               /\ Ascending(children_list'[s])
                               /\ Entries(children_list'[s]) = Entries(children_list[s])
      /\ \A r \in Servers \ {s} : children_list'[r] = children_list[r]
  BY <1>1, SortSteps
<1>3. /\ watcher[s] = "stored" /\ watcher'[s] = "search"
      /\ UNCHANGED <<nodes, watch, events, pc, listing, target, next_server, heard>>
  BY DEF SortWatcher, Watcher, TypeOK
<1>4. Asked(s)' = Asked(s) /\ Running(s)' = Running(s) /\ Lists(s)' = Lists(s)
  BY <1>3 DEF Asked, Running, Lists
<1>5. Reported(s)' /\ Threaded(s)'
  BY <1>3, <1>4 DEF Informed, Reported, Threaded
<1>6. Knows(s)'
  <2>1. heard[s] # "mixed" /\ Asked(s) > 0 /\ events[s] = 0 => Entries(children_list[s]) = nodes
    BY <1>1 DEF Informed, Knows
  <2> QED BY <1>2, <1>3, <1>4, <2>1 DEF Knows, Stored
<1>7. Finds(s)'
  BY <1>2, <1>3 DEF Informed, Finds
<1>8. Follows(s)'
  BY <1>3 DEF Informed, Follows, Alone, Running
<1>9. \A r \in Servers \ {s} : Same(r)
  BY <1>2, <1>3 DEF SortWatcher, Watcher, TypeOK, Same
<1> QED BY <1>3, <1>4, <1>5, <1>6, <1>7, <1>8, <1>9 DEF Informed, Others

\* Where child_watcher is and what it knows when its search is over.
LEMMA Searched ==
    ASSUME TypeOK, NEW s \in Servers, Informed(s), heard[s] # "mixed",
           watcher[s] \in {"search", "get", "connect"}
    PROVE  /\ heard[s] \in {"alone", "mending"} /\ listing[s] = "no" /\ Asked(s) > 0
           /\ children_list[s] \in Seq(Servers) /\ Ascending(children_list[s])
           /\ s \in Entries(children_list[s])
           /\ events[s] = 0 => Entries(children_list[s]) = nodes
<1>1. heard[s] \in HeardValues
  BY DEF TypeOK
<1>2. heard[s] # "never" /\ listing[s] = "no" /\ Asked(s) > 0
  BY DEF Informed, Threaded
<1> QED BY <1>1, <1>2 DEF Informed, Knows, Finds, HeardValues

LEMMA FindNobodyInforms == ASSUME TypeOK, NEW s \in Servers, Informed(s), FindNobody(s)
                           PROVE  Informed(s)' /\ Others(s)
<1> USE DEF zookeeper, main, lists
<1>1. /\ watcher[s] = "search"
      /\ UNCHANGED <<nodes, watch, events, pc, listing, answer, children_list, target>>
  BY DEF FindNobody
<1>2. /\ watcher'[s] = "idle" \/ (heard[s] = "mixed" /\ watcher'[s] = "search")
      /\ heard'[s] = IF heard[s] = "mending" THEN "alone" ELSE heard[s]
      /\ \A r \in Servers \ {s} : watcher'[r] = watcher[r] /\ heard'[r] = heard[r]
  BY DEF FindNobody, Done, TypeOK
<1>3. \A r \in Servers \ {s} : next_server'[r] = next_server[r]
  BY DEF FindNobody, TypeOK
<1>4. heard[s] # "mixed" => next_server'[s] = None /\ Beside(children_list[s], s) = {}
  BY <1>1, Searched DEF FindNobody, TypeOK
<1>5. /\ Asked(s)' = Asked(s) /\ Running(s)' = Running(s) /\ Lists(s)' = Lists(s)
      /\ Successor(nodes, s)' = Successor(nodes, s)
  BY <1>1 DEF Asked, Running, Lists
<1>6. heard[s] # "never" /\ heard'[s] # "never" /\ heard'[s] # "mending" /\ target[s] = None
  BY <1>1, <1>2 DEF Informed, Threaded
<1>7. Reported(s)' /\ Threaded(s)'
  BY <1>1, <1>2, <1>5, <1>6 DEF Informed, Reported, Threaded
<1>8. heard'[s] # "mixed" => heard[s] # "mixed" /\ watcher'[s] = "idle"
  BY <1>2
<1>9. Knows(s)'
  BY <1>1, <1>5, <1>8, Searched DEF Knows, Stored
<1>10. Finds(s)'
  BY <1>1, <1>6, <1>8 DEF Finds
<1>11. heard[s] # "mixed" /\ events[s] = 0 => Successor(nodes, s) = None
  BY <1>1, <1>4, Searched, NobodyBeside
<1>12. Follows(s)'
  BY <1>1, <1>4, <1>5, <1>8, <1>11 DEF Follows, Alone
<1>13. \A r \in Servers \ {s} : Same(r)
  BY <1>1, <1>2, <1>3 DEF Same
<1> QED BY <1>1, <1>5, <1>7, <1>9, <1>10, <1>12, <1>13 DEF Informed, Others

LEMMA FindNextInforms == ASSUME TypeOK, NEW s \in Servers, Informed(s), FindNext(s)
                         PROVE  Informed(s)' /\ Others(s)
<1> USE DEF zookeeper, main, lists
<1>1. /\ watcher[s] = "search" /\ watcher'[s] = "get"
      /\ UNCHANGED <<nodes, watch, events, pc, listing, answer, children_list, next_server,
                     heard>>
      /\ \A r \in Servers \ {s} : watcher'[r] = watcher[r]
  BY DEF FindNext, Watcher, TypeOK
<1>2. PICK next \in IF heard[s] = "mixed" THEN {Undefined} ELSE Beside(children_list[s], s) :
         target' = [target EXCEPT ![s] = next]
  BY DEF FindNext
<1>3. target'[s] = next /\ \A r \in Servers \ {s} : target'[r] = target[r]
  BY <1>2 DEF TypeOK
<1>4. heard[s] # "mixed" => /\ next \in Servers /\ next > s
                            /\ next = Successor(Entries(children_list[s]), s)
  BY <1>1, <1>2, Searched, BesideIsSuccessor
<1>5. /\ Asked(s)' = Asked(s) /\ Running(s)' = Running(s) /\ Lists(s)' = Lists(s)
      /\ Successor(nodes, s)' = Successor(nodes, s)
  BY <1>1 DEF Asked, Running, Lists
<1>6. Reported(s)' /\ Threaded(s)'
  BY <1>1, <1>5 DEF Informed, Reported, Threaded
<1>7. Knows(s)'
  BY <1>1, <1>5, Searched DEF Knows, Stored
<1>8. Finds(s)'
  BY <1>1, <1>3, <1>4, <1>5, Searched DEF Finds
<1>9. Follows(s)'
  BY <1>1 DEF Informed, Follows, Alone
<1>10. \A r \in Servers \ {s} : Same(r)
  BY <1>1, <1>3 DEF Same
<1> QED BY <1>1, <1>5, <1>6, <1>7, <1>8, <1>9, <1>10 DEF Informed, Others

LEMMA GetAddressInforms == ASSUME TypeOK, NEW s \in Servers, Informed(s), GetAddress(s)
                           PROVE  Informed(s)' /\ Others(s)
<1> USE DEF zookeeper, main, lists
<1>1. /\ watcher[s] = "get" /\ watcher'[s] = "connect"
      /\ UNCHANGED <<nodes, watch, events, pc, listing, answer, children_list, next_server,
                     heard>>
      /\ \A r \in Servers \ {s} : watcher'[r] = watcher[r] /\ target'[r] = target[r]
      /\ target'[s] = IF target[s] \in nodes \cup {Undefined} THEN target[s] ELSE None
  BY DEF GetAddress, Watcher, TypeOK
<1>2. /\ Asked(s)' = Asked(s) /\ Running(s)' = Running(s) /\ Lists(s)' = Lists(s)
      /\ Successor(nodes, s)' = Successor(nodes, s)
  BY <1>1 DEF Asked, Running, Lists
<1>3. Reported(s)' /\ Threaded(s)'
  BY <1>1, <1>2 DEF Informed, Reported, Threaded
<1>4. Knows(s)'
  BY <1>1, <1>2, Searched DEF Knows, Stored
<1>5. Successor(nodes, s) = None \/ Successor(nodes, s) \in nodes
  BY SuccessorIsLater DEF TypeOK
<1>6. None \notin nodes
  BY NoneIsNoServer DEF TypeOK
<1>7. Finds(s)'
  <2>1. heard[s] # "mixed" => /\ children_list[s] \in Seq(Servers)
                              /\ Ascending(children_list[s]) /\ s \in Entries(children_list[s])
    BY <1>1, Searched
  <2>2. heard[s] # "mixed" => /\ target[s] # None => target[s] > s
                              /\ events[s] = 0 => target[s] = Successor(nodes, s)
    BY <1>1 DEF Informed, Finds
  <2>3. heard[s] # "mixed" /\ events[s] = 0 => target'[s] = Successor(nodes, s)
    BY <1>1, <1>5, <1>6, <2>2
  <2>4. target'[s] # None => target'[s] = target[s]
    BY <1>1
  <2> QED BY <1>1, <1>2, <2>1, <2>2, <2>3, <2>4 DEF Finds
<1>8. Follows(s)'
  BY <1>1 DEF Informed, Follows, Alone
<1>9. \A r \in Servers \ {s} : Same(r)
  BY <1>1 DEF Same
<1> QED BY <1>1, <1>2, <1>3, <1>4, <1>7, <1>8, <1>9 DEF Informed, Others

LEMMA ReconnectInforms == ASSUME TypeOK, NEW s \in Servers, Informed(s), Reconnect(s)
                          PROVE  Informed(s)' /\ Others(s)
<1> USE DEF zookeeper, main, lists
<1>1. /\ watcher[s] = "connect"
      /\ UNCHANGED <<nodes, watch, events, pc, listing, answer, children_list>>
      /\ target'[s] = None
      /\ next_server'[s] = Reached(target[s])
      /\ \A r \in Servers \ {s} : next_server'[r] = next_server[r] /\ target'[r] = target[r]
  BY DEF Reconnect, TypeOK
<1>2. /\ watcher'[s] = "idle" \/ (heard[s] = "mixed" /\ watcher'[s] = "search")
      /\ heard'[s] = IF heard[s] = "mending" THEN "alone" ELSE heard[s]
      /\ \A r \in Servers \ {s} : watcher'[r] = watcher[r] /\ heard'[r] = heard[r]
  BY DEF Reconnect, Done, TypeOK
<1>3. /\ Asked(s)' = Asked(s) /\ Running(s)' = Running(s) /\ Lists(s)' = Lists(s)
      /\ Successor(nodes, s)' = Successor(nodes, s)
  BY <1>1 DEF Asked, Running, Lists
<1>4. heard'[s] # "never" /\ heard'[s] # "mending"
  BY <1>1, <1>2 DEF Informed, Threaded
<1>5. Reported(s)' /\ Threaded(s)'
  BY <1>1, <1>2, <1>3, <1>4 DEF Informed, Reported, Threaded
<1>6. heard'[s] # "mixed" => heard[s] # "mixed" /\ watcher'[s] = "idle"
  BY <1>2
<1>7. Knows(s)'
  BY <1>1, <1>3, <1>6, Searched DEF Knows, Stored
<1>8. Finds(s)'
  BY <1>1, <1>6 DEF Finds
<1>9. heard[s] # "mixed" => /\ target[s] # None => target[s] > s
                            /\ events[s] = 0 => target[s] = Successor(nodes, s)
  BY <1>1 DEF Informed, Finds
<1>10. Follows(s)'
  <2>1. Alone(s)' => heard[s] # "mixed"
    BY <1>6 DEF Alone
  <2>2. \A r : Running(r)' = Running(r)
    BY <1>1 DEF Running
  <2>3. next_server'[s] # None => next_server'[s] = target[s] /\ target[s] # None
    BY <1>1 DEF Reached
  <2>4. next_server'[s] # target[s] => target[s] # None /\ ~Running(target[s])
    BY <1>1, NoneIsNoServer DEF Reached
  <2>5. Alone(s)' /\ next_server'[s] # None => next_server'[s] > s
    BY <1>9, <2>1, <2>3
  <2>6. (heard'[s] = "alone" /\ events[s] = 0) =>
           \/ next_server'[s] = Successor(nodes, s)
           \/ Successor(nodes, s) # None /\ ~Running(Successor(nodes, s))
    BY <1>6, <1>9, <2>4
  <2> QED BY <1>1, <1>3, <2>1, <2>2, <2>5, <2>6 DEF Follows, Running
<1>11. \A r \in Servers \ {s} : Same(r)
  BY <1>1, <1>2 DEF Same
<1> QED BY <1>1, <1>3, <1>5, <1>7, <1>8, <1>10, <1>11 DEF Informed, Others

-----------------------------------------------------------------------------
(* Every step.                                                             *)

\* A step of s that neither makes nor removes a znode.
LEMMA KeptAll == ASSUME IInv, NEW s \in Servers, Informed(s)' /\ Others(s)
                 PROVE  Following'
<1>1. ASSUME NEW r \in Servers, r # s PROVE Informed(r)'
  BY <1>1, OthersKeep DEF IInv, Following
<1> QED BY <1>1 DEF Following

LEMMA Informs == IInv /\ [Next]_vars => Following'
<1> SUFFICES ASSUME IInv, TypeOK, Following, [Next]_vars PROVE Following'
  BY DEF IInv
<1>0. \A s \in Servers : Informed(s)
  BY DEF Following
<1>1. ASSUME NEW s \in Servers, CreateNode(s) PROVE Following'
  <2>1. /\ nodes \cup {s} \in SUBSET Servers /\ NodesBecome(nodes \cup {s})
        /\ UNCHANGED <<listing, lists, chain, heard>>
    BY <1>1 DEF CreateNode, TypeOK
  <2>2. ASSUME NEW r \in Servers PROVE Informed(r)'
    <3>1. pc'[r] = pc[r] \/ (pc[r] = "new" /\ pc'[r] = "created")
      BY <1>1 DEF CreateNode, Goto, TypeOK
    <3>2. Running(r)' => r \in nodes \cup {s}
      BY <1>1, <1>0 DEF CreateNode, Goto, TypeOK, Running, Informed, Threaded
    <3> QED BY <1>0, <2>1, <3>1, <3>2, ChangeInforms
  <2> QED BY <2>2 DEF Following
<1>2. ASSUME NEW s \in Servers, Expire(s) PROVE Following'
  <2>1. /\ nodes \ {s} \in SUBSET Servers /\ NodesBecome(nodes \ {s})
        /\ UNCHANGED <<listing, lists, chain, heard>> /\ UNCHANGED pc /\ pc[s] = "off"
    BY <1>2 DEF Expire, TypeOK, main
  <2>2. ASSUME NEW r \in Servers PROVE Informed(r)'
    <3>1. Running(r)' => r \in nodes \ {s}
      BY <1>0, <2>1 DEF Running, Informed, Threaded
    <3> QED BY <1>0, <2>1, <3>1, ChangeInforms
  <2> QED BY <2>2 DEF Following
<1>3. ASSUME NEW s \in Servers, Ends(s) PROVE Following'
  BY <1>3, EndsInforms, KeptAll
<1>4. ASSUME NEW s \in Servers, SetNodeId(s) PROVE Following'
  <2>1. pc[s] = "listed" /\ Goto(s, "named") /\ UNCHANGED <<zookeeper, listing, lists, chain, heard>>
    BY <1>4 DEF SetNodeId
  <2> QED BY <1>0, <2>1, GotoInforms, KeptAll
<1>5. ASSUME NEW s \in Servers, NotConnected(s) PROVE Following'
  <2>1. /\ pc[s] = "relisted" /\ listing[s] = "no" /\ Goto(s, "joined")
        /\ UNCHANGED <<zookeeper, listing, lists, chain, heard>>
    BY <1>5 DEF NotConnected
  <2> QED BY <1>0, <2>1, GotoInforms, KeptAll
<1>6. ASSUME NEW s \in Servers, setTable(s) PROVE Following'
  <2>1. CASE Ends(s)
    BY <1>3, <2>1
  <2>2. CASE Goto(s, "serving") /\ UNCHANGED <<zookeeper, listing, lists, chain, heard>>
    <3>1. pc[s] = "joined"
      BY <1>6 DEF setTable
    <3> QED BY <1>0, <2>2, <3>1, GotoInforms, KeptAll
  <2> QED BY <1>6, <2>1, <2>2 DEF setTable
<1>7. ASSUME NEW s \in Servers, join(s) PROVE Following'
  BY <1>0, <1>4, <1>5, <1>6, <1>7, AskMainInforms, StoreMainInforms, SortMainInforms, KeptAll
     DEF join
<1>8. ASSUME NEW s \in Servers, child_watcher(s) PROVE Following'
  <2>1. CASE TakeEvent(s) \/ StoreWatcher(s) \/ SortWatcher(s)
    BY <1>0, <2>1, TakeEventInforms, StoreWatcherInforms, SortWatcherInforms, KeptAll
  <2>2. CASE FindNobody(s) \/ FindNext(s)
    BY <1>0, <2>2, FindNobodyInforms, FindNextInforms, KeptAll
  <2>3. CASE GetAddress(s) \/ Reconnect(s)
    BY <1>0, <2>3, GetAddressInforms, ReconnectInforms, KeptAll
  <2>4. CASE SearchNothing(s)
    BY <1>3, <2>4 DEF SearchNothing
  <2> QED BY <1>8, <2>1, <2>2, <2>3, <2>4 DEF child_watcher
<1>9. CASE UNCHANGED vars
  <2>1. UNCHANGED <<nodes, watch, events, pc, listing, watcher, answer, children_list,
                    next_server, target, heard>>
    BY <1>9 DEF vars, zookeeper, main, lists, chain
  <2>2. ASSUME NEW s \in Servers PROVE Informed(s)' <=> Informed(s)
    <3>1. Asked(s)' = Asked(s) /\ Lists(s)' = Lists(s) /\ Running(s)' = Running(s)
      BY <2>1 DEF Asked, Lists, Running
    <3>2. Reported(s)' = Reported(s) /\ Threaded(s)' = Threaded(s)
      BY <2>1, <3>1 DEF Reported, Threaded
    <3>3. Knows(s)' = Knows(s) /\ Finds(s)' = Finds(s)
      BY <2>1, <3>1 DEF Knows, Finds, Stored
    <3>4. Follows(s)' = Follows(s)
      BY <2>1 DEF Follows, Alone, Running
    <3> QED BY <3>2, <3>3, <3>4 DEF Informed
  <2> QED BY <1>0, <2>2 DEF Following
<1>10. Watched \subseteq Servers
  BY MembershipAssumption DEF Servers
<1>11. ASSUME NEW s \in Servers, Leave(s) PROVE Following'
  BY <1>3, <1>11 DEF Leave
<1> QED BY <1>1, <1>2, <1>7, <1>8, <1>9, <1>10, <1>11 DEF Next

THEOREM Invariance == Spec => []IInv
<1>1. Init => IInv
  BY InitTypes
<1>2. IInv /\ [Next]_vars => IInv'
  BY Types, Informs DEF IInv
<1> QED BY <1>1, <1>2, PTL DEF Spec

-----------------------------------------------------------------------------
(* What follows for the chain.                                             *)

\* The variables of the membership keep their types, and no more than three events
\* ever wait for child_watcher, however many servers come and go.
THEOREM TypeCorrect == Spec => []TypeOK
<1>1. IInv => TypeOK
  BY DEF IInv
<1> QED BY <1>1, Invariance, PTL

\* Writes are forwarded to servers that joined later only, in a chain of any length,
\* by every server whose child_watcher ran without a listing of main
\* (network_server.c:204-235).
THEOREM Forward == Spec => []ForwardsToLater
<1>1. IInv => ForwardsToLater
  BY DEF IInv, Following, Informed, Follows, ForwardsToLater
<1> QED BY <1>1, Invariance, PTL

\* However the three listings of main, those of child_watcher and the changes of
\* the chain interleave, no change is lost between a listing and the next report
\* (network_server.c:79, 200, 368, 386), except where two listings met in
\* children_list.
THEOREM NoChangeLost == Spec => []ListIsCurrent
<1>1. IInv => ListIsCurrent
  <2> SUFFICES ASSUME TypeOK, Following, NEW s \in Servers, Running(s), pc[s] # "created",
                      listing[s] = "no", watcher[s] \notin {"asked", "stored"},
                      events[s] = 0, Alone(s)
               PROVE  Entries(children_list[s]) = nodes /\ Ascending(children_list[s])
    BY DEF IInv, ListIsCurrent
  <2>1. Asked(s) > 0
    BY DEF Asked
  <2>2. heard[s] # "mixed" /\ Knows(s)
    BY DEF Alone, Following, Informed
  <2>3. watcher[s] \in {"idle", "search", "get", "connect"}
    BY DEF TypeOK
  <2> QED BY <2>1, <2>2, <2>3 DEF Knows
<1> QED BY <1>1, Invariance, PTL

\* Once a chain of any length has settled, whatever came and went before, each
\* server whose last run of child_watcher met no listing of main is connected to its
\* successor, and the last one to nobody (network_server.c:212-246).
THEOREM Connected == Spec => []HeardConnected
<1>1. IInv => HeardConnected
  <2> SUFFICES ASSUME TypeOK, Following, Settled, NEW s \in Servers, Running(s),
                      heard[s] = "alone"
               PROVE  next_server[s] = Successor(nodes, s)
    BY DEF IInv, HeardConnected
  <2>1. events[s] = 0 /\ watcher[s] = "idle" /\ Follows(s)
    BY DEF Settled, Following, Informed
  <2>2. Successor(nodes, s) # None => Running(Successor(nodes, s))
    BY SuccessorIsLater DEF Settled, TypeOK
  <2> QED BY <2>1, <2>2 DEF Follows
<1> QED BY <1>1, Invariance, PTL

=============================================================================
