------------------------- MODULE NetworkServerProofs -------------------------
(***************************************************************************)
(* Proofs about NetworkServer, for any number of connections and           *)
(* descriptors: its types, that the count of clients is exact, and that a  *)
(* handler loses its connection only to a second close.                    *)
(***************************************************************************)
EXTENDS NetworkServer, FiniteSetTheorems, TLAPS

\* The main thread is between two accepts.
Creating == main \in {"count", "counting", "create"}

Typed == TypeOK /\ (Creating => accepted \in Handlers)

CountedSet == {h \in Handlers : pc[h] \in Counted}

\* As long as nobody misused the monitor, who is in its section holds it, and what
\* it read is still the count as long as nobody changes it without.
Exclusive == /\ main = "counting" => monitor = Main /\ (~strayed => reg[Main] = connected)
             /\ \A h \in Handlers :
                   /\ pc[h] = "store" => monitor = h /\ (~strayed => reg[h] = connected)
                   /\ pc[h] = "record" => monitor = h

Strays == \A h \in Handlers : pc[h] = "strayStore" => strayed

Counting == (~misused => Exclusive) /\ Strays /\ CountExact

\* What handler h has, or is about to be started with.
Holds(h, f) == fd[h] = f \/ targs[h] = f

\* An earlier handler has closed descriptor f twice.
Taken(h, f) == \E g \in Handlers : /\ g < h /\ fd[g] = f
                                   /\ pc[g] \in {"destroy", "ended"}

\* Handlers are numbered in the order of accept, and a descriptor belongs to the
\* last that was given it.
Numbered == /\ \A h \in Handlers :
                  /\ h > accepted => pc[h] = "none"
                  /\ pc[h] \in {"none", "counted", "lost"} => fd[h] = NoFd /\ targs[h] = NoFd
            /\ Creating => pc[accepted] \in {"none", "counted"}
            /\ Creating /\ client_socket \in Fds => sock[client_socket] \in {accepted, Closed}
            /\ \A f \in Fds : sock[f] <= accepted
            /\ \A f \in Fds, g \in Handlers :
                  sock[f] # Closed /\ Holds(g, f) => g <= sock[f]

\* A handler that lost its connection, before or after its thread started.
Kept(h) == /\ pc[h] \in Loop /\ fd[h] \in Fds /\ sock[fd[h]] # h => Taken(h, fd[h])
           /\ pc[h] = "start" /\ targs[h] \in Fds /\ sock[targs[h]] # h => Taken(h, targs[h])

KeptByMain == Creating /\ client_socket \in Fds /\ sock[client_socket] # accepted
                  => Taken(accepted, client_socket)

Serving == Numbered /\ KeptByMain /\ \A h \in Handlers : Kept(h)

------------------------------------------------------------------------------
(* Types.                                                                   *)

LEMMA Constants == /\ Handlers \subseteq Nat /\ Closed \notin Handlers /\ Main \notin Handlers
                   /\ NoFd \notin Fds /\ Nobody \notin Threads /\ Handlers \subseteq Threads
                   /\ Main \in Threads /\ Accepts \in Nat
  BY ServerAssumption DEF Handlers, Closed, Main, NoFd, Nobody, Threads

LEMMA TypeInit == Init => Typed
<1> SUFFICES ASSUME Init PROVE Typed
  OBVIOUS
<1>1. accepted \in 0..Accepts /\ connected \in Int /\ reg \in [Threads -> Int]
  BY Constants DEF Init
<1>2. sock \in [Fds -> Handlers \cup {Closed}] /\ monitor \in Threads \cup {Nobody}
  BY DEF Init
<1> QED BY <1>1, <1>2 DEF Init, Typed, TypeOK, Creating

LEMMA TypeStep == Typed /\ [Next]_vars => Typed'
<1> USE Constants DEF Typed, TypeOK, Creating
<1> USE DEF mainVars, connVars, countVars
<1> SUFFICES ASSUME TypeOK, Creating => accepted \in Handlers, [Next]_vars PROVE Typed'
  OBVIOUS
<1>1. CASE UNCHANGED vars
  BY <1>1 DEF vars
<1>2. CASE Accept
  <2>1. accepted + 1 \in Handlers /\ accepted' = accepted + 1
    BY <1>2 DEF Accept, Handlers
  <2> QED BY <1>2, <2>1 DEF Accept, Goto, Handlers
<1>3. CASE CountBegin
  BY <1>3 DEF CountBegin, Goto, BeginChange, Aquire, Read
<1>4. CASE CountEnd
  BY <1>4 DEF CountEnd, Goto, EndChange, Write, Move, Counted
<1>5. CASE ArgsFail
  BY <1>5 DEF ArgsFail, Goto, Move, Counted
<1>6. CASE Create
  BY <1>6 DEF Create, Goto, Move, Counted
<1>7. CASE ShutDown \/ Exit \/ Interrupt
  BY <1>7 DEF ShutDown, Exit, Interrupt, Goto
<1>8. ASSUME NEW h \in Handlers, Start(h) \/ Receive(h) \/ ReceiveFails(h)
      PROVE  Typed'
  BY <1>8 DEF Start, Receive, ReceiveFails, Close, Move, Counted, Loop
<1>9. ASSUME NEW h \in Handlers, Serve(h) PROVE Typed'
  <2>1. CASE Record(h) \/ Recorded(h)
    BY <2>1 DEF Record, Recorded, Aquire, UsesTable, Move, Counted, Loop
  <2>2. CASE Get(h) \/ Stats(h)
    BY <2>2 DEF Get, Stats, UsesTable, Move, Counted, Loop
  <2>3. CASE StatsWaits(h) \/ StatsWakes(h)
    BY <2>3 DEF StatsWaits, StatsWakes, Move, Counted, Loop
  <2>4. CASE Forward(h) \/ ValueFails(h) \/ Answer(h)
    BY <2>4 DEF Forward, ValueFails, Answer, Move, Counted, Loop
  <2>5. CASE ServeFails(h)
    BY <2>5 DEF ServeFails, Close, Move, Counted
  <2> QED BY <1>9, <2>1, <2>2, <2>3, <2>4, <2>5 DEF Serve
<1>10. ASSUME NEW h \in Handlers, StrayRead(h) \/ UncountBegin(h) PROVE Typed'
  <2>1. reg' \in [Threads -> Int] /\ connected' \in Int
    BY <1>10 DEF StrayRead, UncountBegin, BeginChange, Read
  <2>4. strayed' \in BOOLEAN /\ misused' = misused
    BY <1>10 DEF StrayRead, UncountBegin, BeginChange
  <2>2. /\ monitor' \in Threads \cup {Nobody}
        /\ pc' \in [Handlers -> {"none", "close", "destroy", "ended"} \cup Counted]
    BY <1>10 DEF StrayRead, UncountBegin, BeginChange, Aquire, Move, Counted
  <2>3. UNCHANGED <<main, accepted, client_socket, targs, fd, sock, broken, table, alive>>
    BY <1>10 DEF StrayRead, UncountBegin
  <2> HIDE <1>10
  <2> QED BY <2>1, <2>2, <2>3, <2>4
<1>11. ASSUME NEW h \in Handlers, StrayWrite(h) \/ UncountEnd(h) PROVE Typed'
  <2>1. reg[h] - 1 \in Int /\ reg[h] + (-1) \in Int
    BY Constants
  <2>2. connected' \in Int /\ reg' \in [Threads -> Int]
    BY <1>11, <2>1 DEF StrayWrite, UncountEnd, EndChange, Write
  <2>3. /\ monitor' \in Threads \cup {Nobody} /\ strayed' = strayed /\ misused' = misused
        /\ pc' \in [Handlers -> {"none", "close", "destroy", "ended"} \cup Counted]
    BY <1>11 DEF StrayWrite, UncountEnd, EndChange, Move, Counted
  <2>4. UNCHANGED <<main, accepted, client_socket, targs, fd, sock, broken, table, alive>>
    BY <1>11 DEF StrayWrite, UncountEnd
  <2> HIDE <1>11
  <2> QED BY <2>2, <2>3, <2>4
<1>12. ASSUME NEW h \in Handlers, CloseAgain(h) \/ Destroy(h) PROVE Typed'
  BY <1>12 DEF CloseAgain, Destroy, Close, Move, Counted
<1>13. ASSUME NEW h \in Handlers, ClientBreaks(h) PROVE Typed'
  BY <1>13 DEF ClientBreaks
<1> QED BY <1>1, <1>2, <1>3, <1>4, <1>5, <1>6, <1>7, <1>8, <1>9, <1>10, <1>11, <1>12,
           <1>13 DEF Next, MainRuns, Leave

\* Every variable keeps its type, for any number of connections and descriptors.
THEOREM TypeCorrect == Spec => []TypeOK
<1>1. Typed => TypeOK
  BY DEF Typed
<1> QED BY <1>1, TypeInit, TypeStep, PTL DEF Spec

------------------------------------------------------------------------------
(* The count.                                                               *)

LEMMA CountedFinite == ASSUME NEW S \in SUBSET Handlers
                       PROVE  IsFiniteSet(S) /\ Cardinality(S) \in Nat
<1>1. IsFiniteSet(Handlers)
  BY Constants, FS_Interval DEF Handlers
<1> QED BY <1>1, FS_Subset, FS_CardinalityType

LEMMA CountInit == Init => Counting
<1> SUFFICES ASSUME Init PROVE Counting
  OBVIOUS
<1>1. CountedSet = {}
  BY DEF Init, CountedSet, Counted, Loop
<1>2. CountExact
  BY <1>1, FS_EmptySet DEF Init, CountExact, CountedSet
<1> QED BY <1>2 DEF Init, Counting, Exclusive, Strays

\* A step that moves a handler without counting it up or down.
LEMMA SameCount ==
    ASSUME Typed, NEW h \in Handlers, NEW from, NEW to, Move(h, from, to),
           from \in Counted <=> to \in Counted
    PROVE  CountedSet' = CountedSet
  BY DEF Move, CountedSet, Typed, TypeOK

\* A step that brings nobody into a section and leaves the count alone.
SameSection == /\ UNCHANGED <<main, connected, reg, monitor, strayed>>
               /\ misused => misused'
               /\ \A g \in Handlers : \/ pc'[g] = pc[g]
                                      \/ pc'[g] \notin {"store", "record", "strayStore"}

LEMMA SameSectionStep ==
    ASSUME Counting, SameSection, CountedSet' = CountedSet
    PROVE  Counting'
<1>1. CountExact <=> (~misused /\ ~strayed => connected = Cardinality(CountedSet))
  BY DEF CountExact, CountedSet
<1>2. CountExact' <=> (~misused' /\ ~strayed' => connected' = Cardinality(CountedSet'))
  BY DEF CountExact, CountedSet
<1>3. CountExact'
  BY <1>1, <1>2 DEF Counting, SameSection
<1>4. Strays'
  BY DEF Counting, Strays, SameSection
<1>5. ~misused' => Exclusive'
  BY DEF Counting, Exclusive, SameSection
<1> QED BY <1>3, <1>4, <1>5 DEF Counting

LEMMA CountStep == Typed /\ Counting /\ [Next]_vars => Counting'
<1> USE Constants DEF mainVars, connVars, countVars
<1> SUFFICES ASSUME Typed, Counting, [Next]_vars PROVE Counting'
  OBVIOUS
<1>a. CountExact <=> (~misused /\ ~strayed => connected = Cardinality(CountedSet))
  BY DEF CountExact, CountedSet
<1>b. CountExact' <=> (~misused' /\ ~strayed' => connected' = Cardinality(CountedSet'))
  BY DEF CountExact, CountedSet
<1>c. CountedSet \in SUBSET Handlers /\ IsFiniteSet(CountedSet)
  BY CountedFinite DEF CountedSet
<1>d. ASSUME UNCHANGED <<connected, strayed, misused>>, CountedSet' = CountedSet
      PROVE  CountExact'
  BY <1>a, <1>b, <1>d DEF Counting
<1>e. ASSUME UNCHANGED pc PROVE CountedSet' = CountedSet
  BY <1>e DEF CountedSet
<1>f. ASSUME UNCHANGED <<pc, main, connected, reg, monitor, misused, strayed>> PROVE Counting'
  BY <1>e, <1>f, SameSectionStep DEF SameSection
<1>g. (~misused => Exclusive) /\ Strays /\ CountExact
  BY DEF Counting
<1> USE DEF Typed, TypeOK
<1>1. CASE UNCHANGED vars
  BY <1>1, <1>f DEF vars
<1>2. CASE Accept
  <2>1. CountExact' /\ Strays'
    BY <1>2, <1>d, <1>e, <1>g DEF Accept, Strays
  <2>2. ~misused' => Exclusive'
    BY <1>2, <1>g DEF Accept, Goto, Exclusive
  <2> QED BY <2>1, <2>2 DEF Counting
<1>3. CASE CountBegin
  <2>1. CountExact' /\ Strays'
    BY <1>3, <1>d, <1>e, <1>g DEF CountBegin, BeginChange, Strays
  <2>2. /\ main' = "counting" /\ (~misused => monitor = Nobody) /\ monitor' = Main
        /\ reg' = [reg EXCEPT ![Main] = connected]
        /\ UNCHANGED <<pc, connected, misused, strayed>>
    BY <1>3 DEF CountBegin, BeginChange, Aquire, Goto, Read
  <2>3. ~misused' => Exclusive'
    BY <2>2, <1>g DEF Exclusive
  <2> QED BY <2>1, <2>3 DEF Counting
<1>4. CASE CountEnd
  <2>1. /\ accepted \in Handlers /\ pc[accepted] = "none"
        /\ UNCHANGED <<misused, strayed>> /\ monitor' = Nobody /\ main' = "create"
        /\ pc' = [pc EXCEPT ![accepted] = "counted"] /\ connected' = reg[Main] + 1
        /\ (~misused => monitor = Main /\ (~strayed => reg[Main] = connected))
    BY <1>4, <1>g DEF CountEnd, EndChange, Write, Move, Goto, Creating, Exclusive
  <2>2. CountedSet' = CountedSet \cup {accepted} /\ accepted \notin CountedSet
    BY <2>1 DEF CountedSet, Counted, Loop
  <2>3. CountExact'
    BY <1>a, <1>b, <1>c, <1>g, <2>1, <2>2, FS_AddElement, CountedFinite
  <2>4. ~misused' => Exclusive'
    BY <1>g, <2>1 DEF Exclusive
  <2>5. Strays'
    BY <1>g, <2>1 DEF Strays
  <2> QED BY <2>3, <2>4, <2>5 DEF Counting
<1>5. CASE ArgsFail \/ Create
  <2>1. CountedSet' = CountedSet
    BY <1>5, SameCount DEF ArgsFail, Create, Counted, Goto, Creating
  <2>2. CountExact'
    BY <1>5, <1>d, <2>1 DEF ArgsFail, Create
  <2>3. (~misused' => Exclusive') /\ Strays'
    BY <1>5, <1>g DEF ArgsFail, Create, Goto, Move, Creating, Exclusive, Strays
  <2> QED BY <2>2, <2>3 DEF Counting
<1>6. CASE ShutDown \/ Exit \/ Interrupt
  <2>1. CountExact' /\ Strays'
    BY <1>6, <1>d, <1>e, <1>g DEF ShutDown, Exit, Interrupt, Strays
  <2>2. ~misused' => Exclusive'
    BY <1>6, <1>g DEF ShutDown, Exit, Interrupt, Goto, Exclusive
  <2> QED BY <2>1, <2>2 DEF Counting
<1>7. ASSUME NEW h \in Handlers, NEW from, NEW to, Move(h, from, to),
             from \in Counted <=> to \in Counted, misused => misused',
             to \notin {"store", "record", "strayStore"},
             UNCHANGED <<main, connected, reg, monitor, strayed>>
      PROVE  Counting'
  <2>1. CountedSet' = CountedSet
    BY <1>7, SameCount
  <2>2. SameSection
    BY <1>7 DEF SameSection, Move
  <2> QED BY <2>1, <2>2, SameSectionStep
<1>8. ASSUME NEW h \in Handlers, \/ Start(h) \/ Receive(h) \/ ReceiveFails(h) \/ ServeFails(h)
                                 \/ Get(h) \/ Stats(h) \/ StatsWaits(h) \/ StatsWakes(h)
                                 \/ Forward(h) \/ ValueFails(h) \/ Answer(h)
                                 \/ CloseAgain(h) \/ Destroy(h)
      PROVE  Counting'
  <2>1. UNCHANGED <<main, connected, reg, monitor, strayed>> /\ (misused => misused')
    BY <1>8 DEF Start, Receive, ReceiveFails, ServeFails, Get, Stats, StatsWaits, StatsWakes,
       Forward, ValueFails, Answer, CloseAgain, Destroy
  <2>2. \/ Move(h, "start", "receive") \/ Move(h, "receive", "serve")
        \/ Move(h, "receive", "uncount") \/ Move(h, "serve", "stray")
        \/ Move(h, "answer", "stray") \/ Move(h, "serve", "answer")
        \/ Move(h, "serve", "wait") \/ Move(h, "wait", "answer")
        \/ Move(h, "forward", "answer") \/ Move(h, "forward", "gone")
        \/ Move(h, "answer", "receive") \/ Move(h, "close", "destroy")
        \/ Move(h, "destroy", "ended")
    BY <1>8 DEF Start, Receive, ReceiveFails, ServeFails, Get, Stats, StatsWaits, StatsWakes,
       Forward, ValueFails, Answer, CloseAgain, Destroy
  <2>3. /\ {"start", "receive", "serve", "uncount", "stray", "answer", "wait", "forward",
            "gone"} \subseteq Counted
        /\ "close" \notin Counted /\ "destroy" \notin Counted /\ "ended" \notin Counted
    BY DEF Counted, Loop
  <2> HIDE <1>8
  <2> QED BY <1>7, <2>1, <2>2, <2>3
<1>9. ASSUME NEW h \in Handlers, Record(h) PROVE Counting'
  <2>1. /\ pc' = [pc EXCEPT ![h] = "record"] /\ monitor' = h /\ (~misused => monitor = Nobody)
        /\ UNCHANGED <<main, connected, reg, misused, strayed>>
    BY <1>9 DEF Record, Move, Aquire
  <2>2. CountedSet' = CountedSet
    BY <1>9, SameCount DEF Record, Counted, Loop
  <2>3. ~misused' => Exclusive'
    BY <1>g, <2>1 DEF Exclusive
  <2> QED BY <1>d, <1>g, <2>1, <2>2, <2>3 DEF Counting, Strays
<1>10. ASSUME NEW h \in Handlers, Recorded(h) PROVE Counting'
  <2>1. /\ pc[h] = "record" /\ pc' = [pc EXCEPT ![h] = "forward"] /\ monitor' = Nobody
        /\ UNCHANGED <<main, connected, reg, misused, strayed>>
    BY <1>10 DEF Recorded, Move
  <2>2. CountedSet' = CountedSet
    BY <1>10, SameCount DEF Recorded, Counted, Loop
  <2>3. ~misused' => Exclusive'
    BY <1>g, <2>1 DEF Exclusive
  <2> QED BY <1>d, <1>g, <2>1, <2>2, <2>3 DEF Counting, Strays
<1>11. ASSUME NEW h \in Handlers, StrayRead(h) PROVE Counting'
  <2>1. /\ strayed' = TRUE /\ pc' = [pc EXCEPT ![h] = "strayStore"]
        /\ reg' = [reg EXCEPT ![h] = connected] /\ pc[h] = "stray"
        /\ UNCHANGED <<main, monitor, misused, connected>>
    BY <1>11 DEF StrayRead, Move, Read
  <2>2. ~misused' => Exclusive'
    BY <1>g, <2>1 DEF Exclusive
  <2> QED BY <1>b, <2>1, <2>2 DEF Counting, Strays
<1>12. ASSUME NEW h \in Handlers, StrayWrite(h) PROVE Counting'
  <2>1. /\ pc[h] = "strayStore" /\ pc' = [pc EXCEPT ![h] = "uncount"]
        /\ reg' = [reg EXCEPT ![h] = 0] /\ UNCHANGED <<main, monitor, misused, strayed>>
    BY <1>12 DEF StrayWrite, Write, Move
  <2>2. strayed /\ strayed'
    BY <1>g, <2>1 DEF Strays
  <2>3. ~misused' => Exclusive'
    BY <1>g, <2>1, <2>2 DEF Exclusive
  <2> QED BY <1>b, <2>2, <2>3 DEF Counting, Strays
<1>13. ASSUME NEW h \in Handlers, UncountBegin(h) PROVE Counting'
  <2>1. /\ monitor' = h /\ (~misused => monitor = Nobody)
        /\ reg' = [reg EXCEPT ![h] = connected]
        /\ pc' = [pc EXCEPT ![h] = "store"] /\ UNCHANGED <<main, connected, misused, strayed>>
    BY <1>13 DEF UncountBegin, BeginChange, Aquire, Read, Move
  <2>2. CountedSet' = CountedSet
    BY <1>13, SameCount DEF UncountBegin, Counted
  <2>3. ~misused' => Exclusive'
    BY <1>g, <2>1 DEF Exclusive
  <2> QED BY <1>d, <1>g, <2>1, <2>2, <2>3 DEF Counting, Strays
<1>14. ASSUME NEW h \in Handlers, UncountEnd(h) PROVE Counting'
  <2>1. /\ pc[h] = "store" /\ (~misused => monitor = h /\ (~strayed => reg[h] = connected))
        /\ pc' = [pc EXCEPT ![h] = "close"] /\ connected' = reg[h] + (-1)
        /\ monitor' = Nobody /\ UNCHANGED <<main, misused, strayed>>
    BY <1>14, <1>g DEF UncountEnd, EndChange, Write, Move, Exclusive
  <2>2. CountedSet' = CountedSet \ {h} /\ h \in CountedSet
    BY <2>1 DEF CountedSet, Counted, Loop
  <2>3. CountExact'
    BY <1>a, <1>b, <1>c, <1>g, <2>1, <2>2, FS_RemoveElement, CountedFinite
  <2>4. ~misused' => Exclusive'
    BY <1>g, <2>1 DEF Exclusive
  <2> QED BY <1>g, <2>1, <2>3, <2>4 DEF Counting, Strays
<1>15. ASSUME NEW h \in Handlers, ClientBreaks(h) PROVE Counting'
  BY <1>15, <1>f DEF ClientBreaks
<1>16. ASSUME NEW h \in Handlers, Serve(h) PROVE Counting'
  BY <1>16, <1>8, <1>9, <1>10 DEF Serve
<1>17. ASSUME NEW h \in Handlers, Leave(h) PROVE Counting'
  BY <1>17, <1>8, <1>11, <1>12, <1>14 DEF Leave
<1> QED BY <1>1, <1>2, <1>3, <1>4, <1>5, <1>6, <1>8, <1>13, <1>15, <1>16, <1>17
        DEF Next, MainRuns

\* As long as no client does GET, no STATS waits and nobody counts itself down
\* outside the monitor, connected_clients is the number of clients accepted and not
\* yet left (network_server.c:291-298).
THEOREM Count == Spec => []CountExact
<1>1. Counting => CountExact
  BY DEF Counting
<1> QED BY <1>1, TypeInit, TypeStep, CountInit, CountStep, PTL DEF Spec

------------------------------------------------------------------------------
(* Who serves which connection.                                             *)

LEMMA ServingInit == Init => Serving
<1> SUFFICES ASSUME Init PROVE Serving
  OBVIOUS
<1>1. Numbered
  BY Constants DEF Init, Numbered, Creating, Holds, Closed
<1>2. KeptByMain /\ \A h \in Handlers : Kept(h)
  BY DEF Init, KeptByMain, Kept, Creating, Loop
<1> QED BY <1>1, <1>2 DEF Serving

\* Handlers that ended stay ended, with the descriptor they had.
EndedStay == \A g \in Handlers : pc[g] \in {"destroy", "ended"} =>
                 pc'[g] \in {"destroy", "ended"} /\ fd'[g] = fd[g]

LEMMA TakenStays == ASSUME EndedStay, NEW h, NEW f, Taken(h, f)
                    PROVE  \E g \in Handlers : /\ g < h /\ fd'[g] = f
                                               /\ pc'[g] \in {"destroy", "ended"}
  BY DEF EndedStay, Taken

\* A step that moves at most one handler, and opens and closes nothing.
Quiet == /\ UNCHANGED <<accepted, client_socket, targs, fd, sock>>
         /\ Creating' => Creating /\ pc'[accepted] \in {"none", "counted"}
         /\ \A h \in Handlers :
               \/ pc'[h] = pc[h]
               \/ /\ pc'[h] \in {"counted", "lost"} /\ pc[h] \in {"none", "counted"}
                  /\ h = accepted
               \/ pc[h] \in Loop /\ pc'[h] \in Loop
               \/ pc[h] \notin {"none", "destroy", "ended"}
                     /\ pc'[h] \notin {"none", "counted", "lost", "start"} \cup Loop
               \/ pc[h] = "destroy" /\ pc'[h] = "ended"

LEMMA QuietStep == ASSUME Typed, Serving, Quiet PROVE Serving'
<1> USE Constants
<1>1. accepted \in Nat /\ accepted' = accepted /\ client_socket' = client_socket
      /\ targs' = targs /\ fd' = fd /\ sock' = sock
  BY DEF Quiet, Typed, TypeOK
<1>2. EndedStay
  BY <1>1 DEF EndedStay, Quiet, Loop
<1>3. Numbered'
  <2>1. ASSUME NEW h \in Handlers
        PROVE  /\ h > accepted => pc'[h] = "none"
               /\ pc'[h] \in {"none", "counted", "lost"} => fd[h] = NoFd /\ targs[h] = NoFd
    BY <1>1 DEF Quiet, Serving, Numbered, Loop
  <2>2. Creating' => Creating /\ pc'[accepted] \in {"none", "counted"}
    BY DEF Quiet
  <2> QED BY <1>1, <2>1, <2>2 DEF Serving, Numbered, Holds
<1>4. KeptByMain'
  BY <1>1, <1>2, TakenStays DEF Quiet, Serving, KeptByMain, Taken
<1>5. ASSUME NEW h \in Handlers PROVE Kept(h)'
  <2>1. (pc'[h] \in Loop => pc[h] \in Loop) /\ (pc'[h] = "start" => pc[h] = "start")
    BY DEF Quiet, Loop
  <2>2. \A f : Taken(h, f) => Taken(h, f)'
    BY <1>1, <1>2 DEF EndedStay, Taken
  <2> QED BY <1>1, <2>1, <2>2 DEF Serving, Kept
<1> QED BY <1>3, <1>4, <1>5 DEF Serving

LEMMA AcceptStep == ASSUME Typed, Serving, Accept PROVE Serving'
<1> USE Constants
<1>1. /\ accepted \in Nat /\ accepted' = accepted + 1 /\ accepted' \in Handlers
      /\ UNCHANGED <<pc, targs, fd>> /\ main = "accept"
  BY DEF Accept, Goto, Typed, TypeOK, Handlers
<1>2. PICK f \in {g \in Fds : sock[g] = Closed} \cup {NoFd} :
         /\ client_socket' = f
         /\ sock' = [g \in Fds |-> IF g = f THEN accepted + 1 ELSE sock[g]]
  BY DEF Accept
<1>3. EndedStay
  BY <1>1 DEF EndedStay
<1>4. pc[accepted'] = "none"
  BY <1>1 DEF Serving, Numbered
<1>5. \A h \in Handlers : pc[h] # "none" => h <= accepted
  BY <1>1 DEF Serving, Numbered, Handlers
<1>6. \A g \in Handlers, d \in Fds : Holds(g, d) => g <= accepted
  BY <1>5 DEF Serving, Numbered, Holds
<1>7. Numbered'
  <2>1. \A h \in Handlers :
           /\ h > accepted' => pc'[h] = "none"
           /\ pc'[h] \in {"none", "counted", "lost"} => fd'[h] = NoFd /\ targs'[h] = NoFd
    BY <1>1, <1>5 DEF Serving, Numbered
  <2>2. client_socket' \in Fds => sock'[client_socket'] = accepted'
    BY <1>1, <1>2
  <2>3. ASSUME NEW d \in Fds PROVE sock'[d] <= accepted'
    <3>1. sock[d] \in Nat /\ sock[d] <= accepted
      BY DEF Serving, Numbered, Typed, TypeOK, Closed, Handlers
    <3>2. sock'[d] = IF d = f THEN accepted + 1 ELSE sock[d]
      BY <1>2
    <3> QED BY <1>1, <3>1, <3>2
  <2>4. ASSUME NEW d \in Fds, NEW g \in Handlers, sock'[d] # Closed, Holds(g, d)
        PROVE  g <= sock'[d]
    <3>1. sock'[d] = IF d = f THEN accepted + 1 ELSE sock[d]
      BY <1>2
    <3>2. g <= accepted /\ g \in Nat
      BY <1>6, <2>4 DEF Handlers
    <3>3. d # f => g <= sock[d]
      BY <2>4, <3>1 DEF Serving, Numbered
    <3> QED BY <1>1, <3>1, <3>2, <3>3
  <2> QED BY <1>1, <1>4, <2>1, <2>2, <2>3, <2>4 DEF Numbered, Holds
<1>8. KeptByMain'
  BY <1>1, <1>2 DEF KeptByMain
<1>9. ASSUME NEW h \in Handlers PROVE Kept(h)'
  <2>1. ASSUME NEW d \in Fds, sock'[d] # h, h <= accepted, sock[d] = h PROVE FALSE
    BY <1>1, <1>2, <2>1
  <2>2. pc'[h] \in Loop \cup {"start"} => h <= accepted
    BY <1>1, <1>5 DEF Loop
  <2>3. \A d \in Fds : Taken(h, d) => Taken(h, d)'
    BY <1>1 DEF Taken
  <2> QED BY <1>1, <2>1, <2>2, <2>3 DEF Serving, Kept
<1> QED BY <1>7, <1>8, <1>9 DEF Serving

LEMMA CreateStep == ASSUME Typed, Serving, Create PROVE Serving'
<1> USE Constants
<1>1. /\ accepted \in Handlers /\ main = "create" /\ main' = "accept"
      /\ pc[accepted] = "counted" /\ pc' = [pc EXCEPT ![accepted] = "start"]
      /\ targs' = [targs EXCEPT ![accepted] = client_socket]
      /\ UNCHANGED <<accepted, client_socket, fd, sock>>
  BY DEF Create, Goto, Move, Typed, Creating
<1>2. \A h \in Handlers : h # accepted => pc'[h] = pc[h] /\ targs'[h] = targs[h]
  BY <1>1 DEF Typed, TypeOK
<1>3. pc'[accepted] = "start" /\ targs'[accepted] = client_socket /\ fd[accepted] = NoFd
  BY <1>1 DEF Serving, Numbered, Typed, TypeOK
<1>4. EndedStay
  BY <1>1, <1>2 DEF EndedStay
<1>5. \A f \in Fds : sock[f] \in Handlers \cup {Closed}
  BY DEF Typed, TypeOK
<1>6. Numbered'
  <2>1. \A h \in Handlers :
           /\ h > accepted' => pc'[h] = "none"
           /\ pc'[h] \in {"none", "counted", "lost"} => fd'[h] = NoFd /\ targs'[h] = NoFd
    BY <1>1, <1>2, <1>3 DEF Serving, Numbered
  <2>2. ASSUME NEW f \in Fds, NEW g \in Handlers, sock'[f] # Closed,
               fd'[g] = f \/ targs'[g] = f
        PROVE  g <= sock'[f]
    <3>1. CASE g # accepted
      BY <1>1, <1>2, <2>2, <3>1 DEF Serving, Numbered, Holds
    <3>2. CASE g = accepted
      BY <1>1, <1>3, <2>2, <3>2 DEF Serving, Numbered, Creating
    <3> QED BY <3>1, <3>2
  <2> QED BY <1>1, <2>1, <2>2 DEF Serving, Numbered, Creating, Holds
<1>7. KeptByMain'
  BY <1>1 DEF KeptByMain, Creating
<1>8. ASSUME NEW h \in Handlers PROVE Kept(h)'
  <2>1. \A f : Taken(h, f) => Taken(h, f)'
    BY <1>4, TakenStays DEF Taken
  <2>2. CASE h # accepted
    BY <1>1, <1>2, <2>1, <2>2 DEF Serving, Kept
  <2>3. CASE h = accepted
    BY <1>1, <1>3, <2>1, <2>3 DEF Serving, Kept, KeptByMain, Creating, Loop
  <2> QED BY <2>2, <2>3
<1> QED BY <1>6, <1>7, <1>8 DEF Serving

LEMMA StartStep == ASSUME Typed, Serving, NEW h \in Handlers, Start(h) PROVE Serving'
<1> USE Constants
<1>1. /\ pc[h] = "start" /\ pc' = [pc EXCEPT ![h] = "receive"]
      /\ fd' = [fd EXCEPT ![h] = targs[h]] /\ targs' = [targs EXCEPT ![h] = NoFd]
      /\ UNCHANGED <<main, accepted, client_socket, sock>>
  BY DEF Start, Move, mainVars
<1>2. \A g \in Handlers : g # h => pc'[g] = pc[g] /\ targs'[g] = targs[g] /\ fd'[g] = fd[g]
  BY <1>1 DEF Typed, TypeOK
<1>3. pc'[h] = "receive" /\ targs'[h] = NoFd /\ fd'[h] = targs[h]
  BY <1>1 DEF Typed, TypeOK
<1>4. EndedStay
  BY <1>1, <1>2 DEF EndedStay
<1>5. \A g \in Handlers, f \in Fds : fd'[g] = f \/ targs'[g] = f => Holds(g, f)
  BY <1>2, <1>3 DEF Holds
<1>6. Numbered'
  <2>1. \A g \in Handlers :
           /\ g > accepted' => pc'[g] = "none"
           /\ pc'[g] \in {"none", "counted", "lost"} => fd'[g] = NoFd /\ targs'[g] = NoFd
    BY <1>1, <1>2, <1>3 DEF Serving, Numbered
  <2>2. Creating' => Creating /\ accepted # h /\ accepted \in Handlers
    BY <1>1 DEF Creating, Serving, Numbered, Typed
  <2>3. Creating' => pc'[accepted'] \in {"none", "counted"}
    BY <1>1, <1>2, <2>2 DEF Serving, Numbered
  <2> QED BY <1>1, <1>5, <2>1, <2>2, <2>3 DEF Serving, Numbered, Holds
<1>7. \A g, f : Taken(g, f) => Taken(g, f)'
  BY <1>4, TakenStays DEF Taken
<1>8. KeptByMain'
  BY <1>1, <1>7 DEF Serving, KeptByMain, Creating
<1>9. ASSUME NEW g \in Handlers PROVE Kept(g)'
  <2>1. CASE g # h
    BY <1>1, <1>2, <1>7, <2>1 DEF Serving, Kept
  <2>2. CASE g = h
    BY <1>1, <1>3, <1>7, <2>2 DEF Serving, Kept
  <2> QED BY <2>1, <2>2
<1> QED BY <1>6, <1>8, <1>9 DEF Serving

\* Handler g closes its descriptor and is then out of its loop, or has closed it
\* for the second time.
LEMMA CloseStep ==
    ASSUME Typed, Serving, NEW g \in Handlers, NEW from, NEW to, Move(g, from, to), Close(g),
           UNCHANGED <<main, accepted, client_socket, targs, fd>>,
           \/ from \in Loop /\ to \in {"uncount", "stray"}
           \/ from = "close" /\ to = "destroy"
    PROVE  Serving'
<1> USE Constants
<1>1. pc[g] = from /\ pc' = [pc EXCEPT ![g] = to]
      /\ sock' = [f \in Fds |-> IF f = fd[g] THEN Closed ELSE sock[f]]
  BY DEF Move, Close
<1>2. pc'[g] = to /\ \A h \in Handlers : h # g => pc'[h] = pc[h]
  BY <1>1 DEF Typed, TypeOK
<1>3. \A f \in Fds : sock[f] \in Handlers \cup {Closed}
                     /\ sock'[f] = IF f = fd[g] THEN Closed ELSE sock[f]
  BY <1>1 DEF Typed, TypeOK
<1>4. EndedStay
  BY <1>1, <1>2 DEF EndedStay, Loop
<1>5. \A h, f : Taken(h, f) => Taken(h, f)'
  BY <1>4, TakenStays DEF Taken
<1>6. to \notin {"none", "counted", "lost", "start"} \cup Loop
      /\ from \notin {"none", "counted", "lost", "start"}
  BY DEF Loop
<1>7. Numbered'
  <2>1. \A h \in Handlers :
           /\ h > accepted' => pc'[h] = "none"
           /\ pc'[h] \in {"none", "counted", "lost"} => fd'[h] = NoFd /\ targs'[h] = NoFd
    BY <1>1, <1>2, <1>6 DEF Serving, Numbered
  <2>2. Creating' => Creating /\ accepted # g /\ accepted \in Handlers
    BY <1>1, <1>6 DEF Creating, Serving, Numbered, Typed
  <2>3. Creating' => pc'[accepted'] \in {"none", "counted"}
    BY <1>2, <2>2 DEF Serving, Numbered
  <2>4. \A f \in Fds : sock'[f] <= accepted'
    BY <1>3 DEF Serving, Numbered, Typed, TypeOK, Closed
  <2> QED BY <1>3, <2>1, <2>2, <2>3, <2>4 DEF Serving, Numbered, Holds
\* What another handler loses by this step it loses to g or to who took it from g.
<1>8. ASSUME NEW h \in Handlers, NEW f \in Fds, sock[f] = h, f = fd[g], h # g
      PROVE  Taken(h, f)'
  <2>1. g < h
    BY <1>8 DEF Serving, Numbered, Holds
  <2>2. CASE from \in Loop
    <3>1. Taken(g, f)
      BY <1>1, <1>8, <2>2 DEF Serving, Kept
    <3>2. Taken(h, f)
      BY <2>1, <3>1 DEF Taken
    <3> QED BY <1>5, <3>2
  <2>3. CASE from = "close"
    <3>1. pc'[g] \in {"destroy", "ended"} /\ fd'[g] = f
      BY <1>2, <1>8, <2>3 DEF Loop
    <3> QED BY <2>1, <3>1 DEF Taken
  <2> QED BY <2>2, <2>3
<1>9. ASSUME Creating', client_socket' \in Fds, sock'[client_socket'] # accepted'
      PROVE  Taken(accepted, client_socket)'
  <2>1. /\ Creating /\ client_socket \in Fds /\ accepted \in Handlers /\ accepted # g
        /\ client_socket' = client_socket /\ accepted' = accepted
    BY <1>1, <1>6, <1>9 DEF Creating, Serving, Numbered, Typed
  <2>2. CASE sock[client_socket] = accepted
    <3>1. fd[g] = client_socket
      BY <1>3, <1>9, <2>1, <2>2
    <3>2. Taken(accepted, client_socket)'
      BY <1>8, <2>1, <2>2, <3>1
    <3> QED BY <3>2
  <2>3. CASE sock[client_socket] # accepted
    BY <1>5, <2>1, <2>3 DEF Serving, KeptByMain
  <2> QED BY <2>2, <2>3
<1>10. ASSUME NEW h \in Handlers PROVE Kept(h)'
  <2>1. CASE h = g
    BY <1>2, <1>6, <2>1 DEF Kept
  <2>2. CASE h # g
    <3>1. pc'[h] = pc[h] /\ fd'[h] = fd[h] /\ targs'[h] = targs[h]
      BY <1>2, <2>2
    <3>2. ASSUME NEW f \in Fds, sock'[f] # h, sock[f] # h => Taken(h, f) PROVE Taken(h, f)'
      BY <1>3, <1>5, <1>8, <2>2, <3>2
    <3> QED BY <3>1, <3>2 DEF Serving, Kept
  <2> QED BY <2>1, <2>2
<1> QED BY <1>7, <1>9, <1>10 DEF Serving, KeptByMain

LEMMA ServingStep == Typed /\ Serving /\ [Next]_vars => Serving'
<1> SUFFICES ASSUME Typed, Serving, [Next]_vars PROVE Serving'
  OBVIOUS
<1> USE DEF mainVars, connVars
<1>1. CASE UNCHANGED vars
  <2>1. Quiet
    BY <1>1 DEF vars, Quiet, Serving, Numbered, Creating
  <2> QED BY <2>1, QuietStep
<1>2. CASE Accept
  BY <1>2, AcceptStep
<1>3. CASE CountBegin \/ CountEnd \/ ArgsFail
  <2>1. Quiet
    BY <1>3 DEF CountBegin, CountEnd, ArgsFail, Goto, Move, Quiet, Serving, Numbered,
       Creating, Typed, TypeOK, Loop
  <2> QED BY <2>1, QuietStep
<1>4. CASE Create
  BY <1>4, CreateStep
<1>5. CASE ShutDown \/ Exit \/ Interrupt
  <2>1. Quiet
    BY <1>5 DEF ShutDown, Exit, Interrupt, Goto, Quiet, Creating
  <2> QED BY <2>1, QuietStep
<1>6. ASSUME NEW h \in Handlers, Start(h) PROVE Serving'
  BY <1>6, StartStep
<1>7. ASSUME NEW h \in Handlers, ReceiveFails(h) \/ ServeFails(h) \/ CloseAgain(h)
      PROVE  Serving'
  <2>1. UNCHANGED <<main, accepted, client_socket, targs, fd>> /\ Close(h)
    BY <1>7 DEF ReceiveFails, ServeFails, CloseAgain
  <2>2. \/ Move(h, "receive", "uncount") \/ Move(h, "serve", "stray")
        \/ Move(h, "answer", "stray") \/ Move(h, "close", "destroy")
    BY <1>7 DEF ReceiveFails, ServeFails, CloseAgain
  <2>3. "receive" \in Loop /\ "serve" \in Loop /\ "answer" \in Loop
    BY DEF Loop
  <2> QED BY <2>1, <2>2, <2>3, CloseStep
<1>8. ASSUME NEW h \in Handlers,
             \/ Receive(h) \/ Record(h) \/ Recorded(h) \/ Get(h) \/ Stats(h)
             \/ StatsWaits(h) \/ StatsWakes(h) \/ Forward(h) \/ ValueFails(h) \/ Answer(h)
             \/ StrayRead(h) \/ StrayWrite(h) \/ UncountBegin(h) \/ UncountEnd(h)
             \/ Destroy(h)
      PROVE  Serving'
  <2>1. UNCHANGED <<main, accepted, client_socket, targs, fd, sock>>
    BY <1>8 DEF Receive, Record, Recorded, Get, Stats, StatsWaits, StatsWakes, Forward,
       ValueFails, Answer, StrayRead, StrayWrite, UncountBegin, UncountEnd, Destroy
  <2>2. \/ \E from \in Loop, to \in Loop : Move(h, from, to)
        \/ Move(h, "forward", "gone")
        \/ Move(h, "stray", "strayStore") \/ Move(h, "strayStore", "uncount")
        \/ Move(h, "uncount", "store") \/ Move(h, "store", "close")
        \/ Move(h, "destroy", "ended")
    BY <1>8 DEF Receive, Record, Recorded, Get, Stats, StatsWaits, StatsWakes, Forward,
       ValueFails, Answer, StrayRead, StrayWrite, UncountBegin, UncountEnd, Destroy, Loop
  <2>3. Quiet
    BY <2>1, <2>2 DEF Move, Quiet, Serving, Numbered, Creating, Typed, TypeOK, Loop
  <2> QED BY <2>3, QuietStep
<1>9. ASSUME NEW h \in Handlers, ClientBreaks(h) PROVE Serving'
  <2>1. Quiet
    BY <1>9 DEF ClientBreaks, Quiet, Serving, Numbered, Creating
  <2> QED BY <2>1, QuietStep
<1> QED BY <1>1, <1>2, <1>3, <1>4, <1>5, <1>6, <1>7, <1>8, <1>9
        DEF Next, MainRuns, Serve, Leave

\* A handler loses its connection only to the second close of an earlier one, for
\* any number of connections and descriptors (network_server.c:480, 529).
THEOREM OwnConnection == Spec => []LostToSecondClose
<1>1. Serving => LostToSecondClose
  BY DEF Serving, Kept, Taken, LostToSecondClose, Lost
<1> QED BY <1>1, TypeInit, TypeStep, ServingInit, ServingStep, PTL DEF Spec

==============================================================================
