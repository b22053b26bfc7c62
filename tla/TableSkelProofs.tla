--------------------------- MODULE TableSkelProofs ---------------------------
(***************************************************************************)
(* What TableSkel guarantees for any number of handlers, any keys and      *)
(* values, any width of int and any mix of operations.                     *)
(***************************************************************************)
EXTENDS TableSkel, TableDataProofs, FiniteSetTheorems, TLAPS

(***************************************************************************)
(* Where a handler can be with which monitor, request and answer.          *)
(***************************************************************************)
Placed(h) ==
  /\ pc[h] \in {"idle", "ops", "opsst", "time", "timest", "read", "readtime", "copy", "reply"}
       => mon[h] = "stats"
  /\ pc[h] = "crit" => mon[h] = "table"
  /\ pc[h] # "idle" => Uses(req[h].op, mon[h])
  /\ pc[h] \in {"lock", "check", "sleep", "wait", "relock"} /\ mon[h] = "stats" => req[h].op # "GET"
  /\ pc[h] \in {"lock", "dec", "decst"} => Aquires(req[h].op, mon[h])
  /\ mon[h] = "table" /\ pc[h] \in {"inc", "incst", "signal", "unlock"} => Writes(req[h])
  /\ pc[h] \in {"read", "readtime"}
       <=> /\ mon[h] = "stats" /\ req[h].op = "STATS"
           /\ pc[h] \notin {"idle", "lock", "check", "sleep", "wait", "relock", "reply"}
  /\ pc[h] = "copy" => req[h].op = "GETTABLE"
  /\ pc[h] # "idle" /\ mon[h] = "stats" /\ req[h].op = "GETTABLE"
       => answer[h] \in {"entries"} \X Copies

Placement == \A h \in Handlers : Placed(h)

-----------------------------------------------------------------------------
(* The operators on data.                                                  *)

LEMMA Int32Type == /\ 0 \in Int32 /\ 1 \in Int32
                   /\ \A n \in Int32 : Succ32(n) \in Int32 /\ Pred32(n) \in Int32
BY SkelAssumption DEF Int32, IntMin, Succ32, Pred32

LEMMA StartOfAquiring ==
  ASSUME NEW m \in Monitors, NEW op \in AllOps
  PROVE  /\ StartOf(op, m) \in {"lock", "check", "ops"}
         /\ Aquires(op, m) => StartOf(op, m) = "lock" /\ Section(op, m) \in {"crit", "ops"}
         /\ Section(op, m) \in {"crit", "read", "ops"}
BY DEF StartOf, Section, Aquires, Monitors, AllOps

LEMMA ReplyType ==
  ASSUME NEW r \in Requests, r.op # "STATS", NEW t \in Tables
  PROVE  /\ Reply(r, t) \in Answers
         /\ r.op = "GETTABLE" => Reply(r, t) \in {"entries"} \X Copies
<1> DEFINE f == [k \in Present(t) |-> t[k]]
<1>1. Present(t) \in SUBSET Keys /\ Cardinality(Present(t)) \in Nat
  BY DataAssumption, FS_Subset, FS_CardinalityType DEF Present
<1>2. f \in [Present(t) -> Values]
  BY DEF Present, Tables
<1>3. f \in Copies
  BY <1>1, <1>2 DEF Copies
<1>4. CASE r.op = "PUT"
  BY <1>4 DEF Reply, Answers
<1>5. CASE r.op = "DEL"
  BY <1>5 DEF Reply, Answers
<1>6. CASE r.op = "GET"
  BY <1>6, RequestType DEF Reply, Answers, Tables
<1>7. CASE r.op = "SIZE"
  BY <1>7, <1>1 DEF Reply, Answers
<1>8. CASE r.op = "GETKEYS"
  BY <1>8, <1>1 DEF Reply, Answers
<1>9. CASE r.op = "GETTABLE"
  BY <1>9, <1>3 DEF Reply, Answers
<1> QED BY <1>4, <1>5, <1>6, <1>7, <1>8, <1>9, RequestType DEF AllOps

-----------------------------------------------------------------------------
(* Typing.                                                                 *)

LEMMA TypeInit == Init => TypeOK /\ Placement
BY Int32Type DEF Init, TypeOK, Placement, Placed, Labels, Monitors

LEMMA TypeStep == TypeOK /\ Placement /\ [Next]_vars => TypeOK' /\ Placement'
<1> SUFFICES ASSUME TypeOK, Placement, [Next]_vars
             PROVE  TypeOK' /\ Placement'
  OBVIOUS
<1>1. ASSUME NEW h \in Handlers, Receive(h) PROVE TypeOK' /\ Placement'
  BY <1>1, RequestType DEF Receive, TypeOK, Placement, Placed, Labels, Monitors, StartOf, Uses,
     content, stats, monitors, AllOps, Writes, Aquires
<1>2. ASSUME NEW h \in Handlers, Lock(h) PROVE TypeOK' /\ Placement'
  BY <1>2 DEF Lock, TypeOK, Placement, Placed, Labels, Monitors, Goto, content, stats, request
<1>3. ASSUME NEW h \in Handlers, MustWait(h) \/ Sleep(h) PROVE TypeOK' /\ Placement'
  <2>1. CASE MustWait(h)
    BY <2>1 DEF MustWait, TypeOK, Placement, Placed, Labels, Monitors, Goto, content, stats,
       request, monitors
  <2>2. CASE Sleep(h)
    <3>1. /\ pc[h] = "sleep" /\ pc' = [pc EXCEPT ![h] = "wait"] /\ mux' \in [Monitors -> BOOLEAN]
          /\ broken' \subseteq Monitors
          /\ UNCHANGED <<mon, req, answer, todo, reg, counter, table, torn, total_operations,
                         total_time, executed, crashed>>
      BY <2>2 DEF Sleep, TypeOK, Goto, content, stats, request
    <3> QED BY <3>1 DEF TypeOK, Placement, Placed, Labels
  <2> QED BY <1>3, <2>1, <2>2
<1>4. ASSUME NEW h \in Handlers, SpuriousWake(h) PROVE TypeOK' /\ Placement'
  BY <1>4 DEF SpuriousWake, TypeOK, Placement, Placed, Labels, Monitors, Goto, content, stats,
     request, monitors
<1>5. ASSUME NEW h \in Handlers, Pass(h) PROVE TypeOK' /\ Placement'
  BY <1>5 DEF Pass, TypeOK, Placement, Placed, Labels, Monitors, Goto, content, stats,
     request, monitors, Section, Aquires, Uses
<1>6. ASSUME NEW h \in Handlers, LoadDec(h) PROVE TypeOK' /\ Placement'
  BY <1>6 DEF LoadDec, TypeOK, Placement, Placed, Labels, Monitors, Goto, content, stats,
     request, monitors
<1>7. ASSUME NEW h \in Handlers, StoreDec(h) PROVE TypeOK' /\ Placement'
  BY <1>7, Int32Type DEF StoreDec, TypeOK, Placement, Placed, Labels, Monitors, Goto, content, stats,
     request, monitors, Section, Aquires
<1>8. ASSUME NEW h \in Handlers, LoadInc(h) PROVE TypeOK' /\ Placement'
  BY <1>8 DEF LoadInc, TypeOK, Placement, Placed, Labels, Monitors, Goto, content, stats,
     request, monitors
<1>9. ASSUME NEW h \in Handlers, StoreInc(h) PROVE TypeOK' /\ Placement'
  BY <1>9, Int32Type DEF StoreInc, TypeOK, Placement, Placed, Labels, Monitors, Goto, content, stats,
     request, monitors
<1>10. ASSUME NEW h \in Handlers, SignalNobody(h) PROVE TypeOK' /\ Placement'
  BY <1>10 DEF SignalNobody, TypeOK, Placement, Placed, Labels, Monitors, Goto, content, stats,
     request, monitors
<1>11. ASSUME NEW h \in Handlers, SignalWaiter(h) PROVE TypeOK' /\ Placement'
  BY <1>11 DEF SignalWaiter, TypeOK, Placement, Placed, Labels, Monitors, Waiters, content, stats,
     request, monitors
<1>12. ASSUME NEW h \in Handlers, Unlock(h) PROVE TypeOK' /\ Placement'
  BY <1>12, RequestType DEF Unlock, TypeOK, Placement, Placed, Labels, Monitors, Goto, GotoStats,
     StartOf, Aquires, Uses, Writes, content, stats, request, AllOps
<1>13. ASSUME NEW h \in Handlers, WriteTable(h) PROVE TypeOK' /\ Placement'
  <2>1. Seen(h) \subseteq Tables
    BY DEF Seen, TypeOK
  <2>2. req[h] \in Requests /\ req[h].op # "STATS" /\ req[h].op # "GETTABLE"
    BY <1>13 DEF WriteTable, TypeOK, Writes
  <2>3. \A t \in Tables : Reply(req[h], t) \in Answers
    BY <2>2, ReplyType
  <2>4. table' \in Tables
    BY <1>13, <2>2, EffectType DEF WriteTable, TypeOK
  <2>5. /\ answer' \in [Handlers -> {NoAnswer} \cup Answers]
        /\ \A g \in Handlers \ {h} : answer'[g] = answer[g]
    BY <1>13, <2>1, <2>3 DEF WriteTable, TypeOK
  <2> QED
    BY <1>13, <2>2, <2>4, <2>5 DEF WriteTable, Tearing, Release, TypeOK, Placement, Placed,
       Labels, Goto, stats, monitors, Uses
<1>14. ASSUME NEW h \in Handlers, ReadTable(h) PROVE TypeOK' /\ Placement'
  <2>1. Seen(h) \subseteq Tables
    BY DEF Seen, TypeOK
  <2>2. req[h] \in Requests /\ req[h].op \in AllOps /\ req[h].op # "STATS" /\ ~Writes(req[h])
    BY <1>14, RequestType DEF ReadTable, TypeOK, Placement, Placed, Uses
  <2>3. <<"entries", [k \in {} |-> NoValue]>> \in {"entries"} \X Copies
    <3>1. [k \in {} |-> NoValue] \in [{} -> Values]
      OBVIOUS
    <3>2. {} \in SUBSET Keys
      OBVIOUS
    <3>3. [k \in {} |-> NoValue] \in Copies
      BY <3>1, <3>2, Zenon DEF Copies
    <3> QED BY <3>3
  <2>4. CASE req[h].op = "GETTABLE"
    <3>1. /\ todo' \in [Handlers -> SUBSET Keys]
          /\ answer' = [answer EXCEPT ![h] = <<"entries", [k \in {} |-> NoValue]>>]
      BY <1>14, <2>4 DEF ReadTable, TypeOK, Present
    <3>2. answer' \in [Handlers -> {NoAnswer} \cup Answers]
      BY <3>1, <2>3 DEF TypeOK, Answers
    <3> QED
      BY <1>14, <2>4, <2>2, <2>3, <3>1, <3>2 DEF ReadTable, TypeOK, Placement, Placed, Labels,
         Monitors, GotoStats, StartOf, Aquires, AllOps, Uses, stats, monitors, Writes
  <2>5. CASE req[h].op # "GETTABLE"
    <3>1. answer' \in [Handlers -> {NoAnswer} \cup Answers] /\ UNCHANGED todo
      BY <1>14, <2>1, <2>2, <2>5, ReplyType DEF ReadTable, TypeOK
    <3>2. \A g \in Handlers \ {h} : answer'[g] = answer[g]
      BY <1>14, <2>5 DEF ReadTable, TypeOK
    <3> QED
      BY <1>14, <2>5, <2>2, <3>1, <3>2 DEF ReadTable, TypeOK, Placement, Placed, Labels,
         Monitors, GotoStats, StartOf, Aquires, AllOps, Uses, stats, monitors, Writes
  <2> QED BY <2>4, <2>5
<1>15. ASSUME NEW h \in Handlers, CopyEntry(h) PROVE TypeOK' /\ Placement'
  <2>1. PICK k \in todo[h], t \in Seen(h) :
          /\ t[k] # NoValue
          /\ answer' = [answer EXCEPT ![h] =
                          <<"entries", [x \in DOMAIN answer[h][2] \cup {k} |->
                                          IF x = k THEN t[k] ELSE answer[h][2][x]]>>]
          /\ todo' = [todo EXCEPT ![h] = @ \ {k}]
    BY <1>15 DEF CopyEntry
  <2> DEFINE f == [x \in DOMAIN answer[h][2] \cup {k} |->
                     IF x = k THEN t[k] ELSE answer[h][2][x]]
  <2>2. k \in Keys /\ t[k] \in Values
    BY <2>1 DEF Seen, TypeOK, Tables
  <2>3. req[h].op = "GETTABLE"
    BY <1>15, RequestType DEF CopyEntry, TypeOK, Placement, Placed
  <2>4. f \in Copies
    <3>0. answer[h] \in {"entries"} \X Copies
      BY <1>15, <2>3 DEF CopyEntry, Placement, Placed
    <3>1. PICK S \in SUBSET Keys : answer[h][2] \in [S -> Values]
      BY <3>0 DEF Copies
    <3>2. f \in [S \cup {k} -> Values] /\ S \cup {k} \in SUBSET Keys
      BY <2>2, <3>1
    <3> QED BY <3>2 DEF Copies
  <2>5. <<"entries", f>> \in {"entries"} \X Copies
    BY <2>4
  <2>6. answer' = [answer EXCEPT ![h] = <<"entries", f>>]
    BY <2>1
  <2>7. answer' \in [Handlers -> {NoAnswer} \cup Answers]
    BY <2>5, <2>6 DEF TypeOK, Answers
  <2> HIDE DEF f
  <2> QED
    BY <1>15, <2>1, <2>2, <2>5, <2>6, <2>7 DEF CopyEntry, TypeOK, Placement, Placed, Labels,
       control, stats, monitors
<1>16. ASSUME NEW h \in Handlers, EndCopy(h) PROVE TypeOK' /\ Placement'
  BY <1>16 DEF EndCopy, TypeOK, Placement, Placed, Labels, Goto, request, monitors, stats
<1>17. ASSUME NEW h \in Handlers, LoadOps(h) PROVE TypeOK' /\ Placement'
  BY <1>17 DEF LoadOps, TypeOK, Placement, Placed, Labels, Goto, request, monitors, content, stats
<1>18. ASSUME NEW h \in Handlers, StoreOps(h) PROVE TypeOK' /\ Placement'
  BY <1>18, Int32Type DEF StoreOps, TypeOK, Placement, Placed, Labels, Goto, request, monitors,
     content
<1>19. ASSUME NEW h \in Handlers, LoadTime(h) PROVE TypeOK' /\ Placement'
  BY <1>19 DEF LoadTime, TypeOK, Placement, Placed, Labels, Goto, request, monitors, content, stats
<1>20. ASSUME NEW h \in Handlers, StoreTime(h) PROVE TypeOK' /\ Placement'
  BY <1>20, Int32Type DEF StoreTime, TypeOK, Placement, Placed, Labels, Goto, Release, request,
     monitors, content
<1>21. ASSUME NEW h \in Handlers, ReadOps(h) \/ ReadTime(h) PROVE TypeOK' /\ Placement'
  <2>1. <<"stats", reg[h], total_time>> \in Answers
    BY DEF TypeOK, Answers
  <2>2. CASE ReadOps(h)
    BY <2>2 DEF ReadOps, TypeOK, Placement, Placed, Labels, Goto, request, monitors, content, stats
  <2>3. CASE ReadTime(h)
    BY <2>1, <2>3, Int32Type DEF ReadTime, TypeOK, Placement, Placed, Labels, Goto, monitors,
       content, stats
  <2> QED BY <1>21, <2>2, <2>3
<1>22. ASSUME NEW h \in Handlers, Return(h) PROVE TypeOK' /\ Placement'
  BY <1>22 DEF Return, TypeOK, Placement, Placed, Labels, Goto, monitors, content, stats
<1>23. ASSUME NEW h \in Handlers, Crash(h) PROVE TypeOK' /\ Placement'
  BY <1>23 DEF Crash, TypeOK, Placement, Placed, control, request, monitors, content, stats
<1>24. CASE UNCHANGED vars
  BY <1>24 DEF vars, TypeOK, Placement, Placed, control, request, monitors, content, stats
<1> QED
  BY <1>1, <1>2, <1>3, <1>4, <1>5, <1>6, <1>7, <1>8, <1>9, <1>10, <1>11, <1>12, <1>13, <1>14,
     <1>15, <1>16, <1>17, <1>18, <1>19, <1>20, <1>21, <1>22, <1>23, <1>24 DEF Next, Step

\* Every variable keeps its type (table_skel.c: lock_sync, release, invoke).
THEOREM TypeCorrect == Spec => [](TypeOK /\ Placement)
BY TypeInit, TypeStep, PTL DEF Spec
-----------------------------------------------------------------------------
(* Mutual exclusion. A monitor is protected until who did not aquire it     *)
(* uses it.                                                                *)

LEMMA DisciplineKept ==
  ASSUME DisciplineProtects, NEW m \in Monitors
  PROVE  (m \notin broken => Protected(m)) /\ (Disciplined(m) => m \notin broken)
BY DEF DisciplineProtects

LEMMA ProtectedInit == ASSUME NEW m \in Monitors, Init PROVE Protected(m)
BY DEF Init, Protected, Holder

\* What is broken stays broken.
LEMMA BrokenStays == [Next]_vars => broken \subseteq broken'
<1>1. ASSUME NEW h \in Handlers, Sleep(h) \/ ReadTable(h) PROVE broken \subseteq broken'
  BY <1>1 DEF Sleep, ReadTable
<1>2. ASSUME NEW h \in Handlers, Step(h), ~Sleep(h), ~ReadTable(h) PROVE broken' = broken
  BY <1>2 DEF Step, Lock, MustWait, Pass, LoadDec, StoreDec, LoadInc, StoreInc, SignalNobody,
     SignalWaiter, Unlock, WriteTable, CopyEntry, EndCopy, LoadOps, StoreOps, LoadTime,
     StoreTime, ReadOps, ReadTime, Return, monitors
<1>3. ASSUME NEW h \in Handlers, Receive(h) \/ SpuriousWake(h) \/ Crash(h) PROVE broken' = broken
  BY <1>3 DEF Receive, SpuriousWake, Crash, monitors
<1>4. CASE UNCHANGED vars
  BY <1>4 DEF vars, monitors
<1> QED BY <1>1, <1>2, <1>3, <1>4 DEF Next

\* A handler keeps its place: it comes to nothing new of m, nor leaves anything.
Unmoved(g) == pc'[g] = pc[g] /\ mon'[g] = mon[g] /\ req'[g] = req[g] /\ reg'[g] = reg[g]

LEMMA ProtectedStep ==
  ASSUME NEW m \in Monitors
  PROVE  TypeOK /\ Placement /\ Protected(m) /\ m \notin broken' /\ [Next]_vars => Protected(m)'
<1> SUFFICES ASSUME TypeOK, Placement, Protected(m), m \notin broken', [Next]_vars
             PROVE  Protected(m)'
  OBVIOUS
<1>0. /\ \A r \in Requests : r.op \in AllOps
      /\ \A h \in Handlers : pc[h] # "idle" => req[h] \in Requests /\ req[h].op \in AllOps
      /\ \A op \in AllOps, n \in Monitors :
           /\ StartOf(op, n) \in {"lock", "check", "ops"}
           /\ StartOf(op, n) = "lock" <=> Aquires(op, n)
           /\ StartOf(op, n) = "ops" => op = "GET" /\ n = "stats"
  BY RequestType, StartOfAquiring DEF TypeOK, StartOf
<1> USE <1>0 DEF TypeOK, Placement, Placed, Protected, Holder
<1>1. ASSUME NEW h \in Handlers, Receive(h) PROVE Protected(m)'
  <2> DEFINE N(r) == IF Uses(r.op, "table") THEN "table" ELSE "stats"
  <2>1. PICK r \in Requests :
            /\ req' = [req EXCEPT ![h] = r]
            /\ mon' = [mon EXCEPT ![h] = N(r)]
            /\ pc' = [pc EXCEPT ![h] = StartOf(r.op, N(r))]
    BY <1>1, Zenon DEF Receive
  <2>4. N(r) \in Monitors /\ r.op \in AllOps /\ (r.op = "GET" => N(r) = "table")
    BY DEF Uses, Monitors
  <2>5. req'[h] = r /\ mon'[h] = N(r) /\ pc'[h] = StartOf(r.op, N(r))
    BY <2>1
  <2> HIDE DEF N
  <2>2. pc'[h] \in {"lock", "check"} /\ (pc'[h] = "check" => ~Aquires(req'[h].op, mon'[h]))
    BY <2>4, <2>5
  <2>3. pc[h] = "idle" /\ \A g \in Handlers \ {h} : Unmoved(g)
    BY <1>1 DEF Receive, Unmoved
  <2> QED
    BY <1>1, <2>2, <2>3 DEF Receive, monitors, Unmoved
<1>2. ASSUME NEW h \in Handlers, Lock(h) PROVE Protected(m)'
  BY <1>2 DEF Lock, Goto, request
<1>3. ASSUME NEW h \in Handlers, MustWait(h) PROVE Protected(m)'
  <2>1. mon[h] = m => ~Aquires(req[h].op, m)
    BY <1>3 DEF MustWait
  <2> QED BY <1>3, <2>1 DEF MustWait, Goto, request, monitors
<1>27. ASSUME NEW h \in Handlers, Sleep(h) PROVE Protected(m)'
  <2>1. mon[h] # m
    BY <1>27 DEF Sleep
  <2> QED BY <1>27, <2>1 DEF Sleep, Goto, request
<1>4. ASSUME NEW h \in Handlers, SpuriousWake(h) PROVE Protected(m)'
  BY <1>4 DEF SpuriousWake, Goto, monitors, request
<1>5. ASSUME NEW h \in Handlers, Pass(h) PROVE Protected(m)'
  <2>1. \/ Aquires(req[h].op, mon[h]) /\ pc'[h] = "dec"
        \/ ~Aquires(req[h].op, mon[h]) /\ pc'[h] \in {"crit", "read"}
    <3>1. Section(req[h].op, mon[h]) \in {"crit", "read"} \/ Aquires(req[h].op, mon[h])
      <4>1. CASE mon[h] = "table"
        BY <4>1 DEF Section
      <4>2. CASE mon[h] = "stats"
        BY <1>5, <4>2 DEF Pass, Section, Aquires
      <4> QED BY <4>1, <4>2 DEF Monitors
    <3> QED BY <1>5, <3>1 DEF Pass, Goto
  <2>2. pc[h] = "check" /\ \A g \in Handlers \ {h} : Unmoved(g)
    BY <1>5 DEF Pass, Goto, request, Unmoved
  <2> QED
    BY <1>5, <2>1, <2>2 DEF Pass, Goto, monitors, request, Unmoved
<1>6. ASSUME NEW h \in Handlers, LoadDec(h) PROVE Protected(m)'
  BY <1>6 DEF LoadDec, Goto, monitors, request
<1>7. ASSUME NEW h \in Handlers, StoreDec(h) PROVE Protected(m)'
  <2>1. Aquires(req[h].op, mon[h]) /\ pc[h] = "decst" /\ pc'[h] \in {"crit", "ops"}
    BY <1>7, StartOfAquiring DEF StoreDec, Goto
  <2>4. mon[h] = m => counter'[m] = 0
    BY <1>7, <2>1, SkelAssumption DEF StoreDec, Pred32, IntMin
  <2>2. mon[h] # m => counter'[m] = counter[m]
    BY <1>7 DEF StoreDec
  <2>3. \A g \in Handlers \ {h} : Unmoved(g)
    BY <1>7 DEF StoreDec, Goto, request, Unmoved
  <2> QED
    BY <1>7, <2>1, <2>2, <2>3, <2>4 DEF StoreDec, Goto, request, Unmoved
<1>8. ASSUME NEW h \in Handlers, LoadInc(h) PROVE Protected(m)'
  BY <1>8 DEF LoadInc, Goto, monitors, request
<1>9. ASSUME NEW h \in Handlers, StoreInc(h) PROVE Protected(m)'
  <2>1. mon[h] = m => counter'[m] = 1
    BY <1>9, SkelAssumption DEF StoreInc, Succ32
  <2>2. mon[h] # m => counter'[m] = counter[m]
    BY <1>9 DEF StoreInc
  <2> QED
    BY <1>9, <2>1, <2>2 DEF StoreInc, Goto, request
<1>10. ASSUME NEW h \in Handlers, SignalNobody(h) PROVE Protected(m)'
  BY <1>10 DEF SignalNobody, Goto, monitors, request
<1>11. ASSUME NEW h \in Handlers, SignalWaiter(h) PROVE Protected(m)'
  BY <1>11 DEF SignalWaiter, Waiters, monitors, request
<1>12. ASSUME NEW h \in Handlers, Unlock(h) PROVE Protected(m)'
  <2>1. \/ mon[h] = "table" /\ mon'[h] = "stats" /\ pc'[h] = "lock" /\ Aquires(req[h].op, "stats")
        \/ mon[h] = "stats" /\ mon'[h] = "stats" /\ pc'[h] \in {"copy", "reply"}
    <3>1. CASE mon[h] = "table"
      <4>1. mon'[h] = "stats" /\ pc'[h] = StartOf(req[h].op, "stats")
        BY <1>12, <3>1 DEF Unlock, GotoStats
      <4>2. Aquires(req[h].op, "stats")
        BY <1>12, <3>1 DEF Unlock, Aquires, Writes, AllOps
      <4> QED BY <3>1, <4>1, <4>2, <1>12 DEF Unlock, Monitors
    <3>2. CASE mon[h] = "stats"
      BY <1>12, <3>2 DEF Unlock, Goto
    <3> QED BY <3>1, <3>2 DEF Monitors
  <2>2. \A g \in Handlers \ {h} : Unmoved(g)
    BY <1>12 DEF Unlock, Goto, GotoStats, request, Unmoved
  <2>3. /\ pc[h] = "unlock" /\ req'[h] = req[h] /\ reg'[h] = reg[h] /\ counter' = counter
        /\ mon[h] = m => ~mux'[m]
        /\ mon[h] # m => mux'[m] = mux[m]
    <3>1. pc[h] = "unlock" /\ UNCHANGED <<req, reg, counter>>
          /\ mux' = [mux EXCEPT ![mon[h]] = FALSE]
      BY <1>12 DEF Unlock, request
    <3>2. mux \in [Monitors -> BOOLEAN]
      OBVIOUS
    <3>3. mux'[mon[h]] = FALSE /\ \A n \in Monitors \ {mon[h]} : mux'[n] = mux[n]
      BY <3>1, <3>2
    <3> QED BY <3>1, <3>3
  <2>5. ~Holder(h, m)' /\ (Holder(h, m) <=> mon[h] = m)
    BY <2>1, <2>3
  <2> QED
    BY <2>1, <2>2, <2>3, <2>5 DEF Unmoved
<1>13. ASSUME NEW h \in Handlers, WriteTable(h) PROVE Protected(m)'
  <2>1. pc[h] = "crit" /\ mon[h] = "table" /\ Aquires(req[h].op, "table")
    BY <1>13 DEF WriteTable, Writes, Aquires
  <2> QED BY <1>13, <2>1 DEF WriteTable, Goto, Release, monitors
<1>14. ASSUME NEW h \in Handlers, ReadTable(h) PROVE Protected(m)'
  <2>1. /\ pc[h] = "crit" /\ mon[h] = "table" /\ mon'[h] = "stats"
        /\ pc'[h] = StartOf(req[h].op, "stats") /\ req'[h] = req[h]
    BY <1>14 DEF ReadTable, GotoStats
  <2>2. ~Aquires(req[h].op, "table")
    BY <1>14, <2>1 DEF ReadTable, Aquires, Writes
  <2>3. mon'[h] = m => pc'[h] = "lock" /\ Aquires(req[h].op, m)
    <3>1. ASSUME m = "stats" PROVE req[h].op \notin {"GET", "STATS"}
      BY <1>14, <2>1, <3>1 DEF ReadTable, Uses
    <3>2. ASSUME m = "stats" PROVE Aquires(req[h].op, m)
      BY <2>1, <3>1, <3>2 DEF Aquires
    <3> QED BY <2>1, <3>2
  <2>4. \A g \in Handlers \ {h} : Unmoved(g)
    BY <1>14 DEF ReadTable, GotoStats, Unmoved
  <2>5. UNCHANGED <<mux, counter>>
    BY <1>14 DEF ReadTable
  <2>6. ~Holder(h, m) /\ ~Holder(h, m)'
    BY <2>1, <2>2, <2>3
  <2> QED
    BY <2>1, <2>3, <2>4, <2>5, <2>6 DEF Unmoved
<1>15. ASSUME NEW h \in Handlers, CopyEntry(h) PROVE Protected(m)'
  BY <1>15 DEF CopyEntry, control, monitors
<1>16. ASSUME NEW h \in Handlers, EndCopy(h) PROVE Protected(m)'
  BY <1>16 DEF EndCopy, Goto, monitors, request
<1>17. ASSUME NEW h \in Handlers, LoadOps(h) PROVE Protected(m)'
  BY <1>17 DEF LoadOps, Goto, monitors, request
<1>18. ASSUME NEW h \in Handlers, StoreOps(h) PROVE Protected(m)'
  BY <1>18 DEF StoreOps, Goto, monitors, request
<1>19. ASSUME NEW h \in Handlers, LoadTime(h) PROVE Protected(m)'
  BY <1>19 DEF LoadTime, Goto, monitors, request
<1>20. ASSUME NEW h \in Handlers, StoreTime(h) PROVE Protected(m)'
  BY <1>20 DEF StoreTime, Goto, Release, monitors, request
<1>21. ASSUME NEW h \in Handlers, ReadOps(h) \/ ReadTime(h) PROVE Protected(m)'
  BY <1>21 DEF ReadOps, ReadTime, Goto, monitors, request
<1>22. ASSUME NEW h \in Handlers, Return(h) PROVE Protected(m)'
  BY <1>22 DEF Return, Goto, monitors
<1>23. ASSUME NEW h \in Handlers, Crash(h) PROVE Protected(m)'
  BY <1>23 DEF Crash, control, monitors, request
<1>24. CASE UNCHANGED vars
  BY <1>24 DEF vars, control, monitors, request
<1> QED
  BY <1>1, <1>2, <1>3, <1>4, <1>5, <1>6, <1>7, <1>8, <1>9, <1>10, <1>11, <1>12, <1>13, <1>14, <1>15, <1>16, <1>17, <1>18, <1>19, <1>20, <1>21, <1>22, <1>23, <1>24, <1>27 DEF Next, Step

LEMMA UsersAquire ==
  ASSUME NEW m \in Monitors, Disciplined(m), TypeOK, Placement
  PROVE  /\ \A h \in Handlers : pc[h] # "idle" /\ mon[h] = m => Aquires(req[h].op, m)
         /\ m = "stats" => \A h \in Handlers : pc[h] # "idle" => req[h].op # "GET"
<1>1. \A h \in Handlers : pc[h] # "idle" => req[h].op \in Ops /\ Uses(req[h].op, mon[h])
  BY RequestType DEF TypeOK, Placement, Placed
<1>2. \A op \in Ops : Uses(op, m) => Aquires(op, m)
  BY DEF Disciplined
<1>3. m = "stats" => "GET" \notin Ops
  BY <1>2 DEF Uses, Aquires
<1> QED BY <1>1, <1>2, <1>3

\* A monitor that all its users aquire is not broken.
LEMMA UnbrokenStep ==
  ASSUME NEW m \in Monitors, Disciplined(m)
  PROVE  TypeOK /\ Placement /\ m \notin broken /\ [Next]_vars => m \notin broken'
<1> SUFFICES ASSUME TypeOK, Placement, m \notin broken, [Next]_vars
             PROVE  m \notin broken'
  OBVIOUS
<1>1. ASSUME NEW h \in Handlers, Sleep(h) PROVE m \notin broken'
  BY <1>1, UsersAquire DEF Sleep
<1>2. ASSUME NEW h \in Handlers, ReadTable(h) PROVE m \notin broken'
  BY <1>2, UsersAquire DEF ReadTable, Monitors
<1>3. ASSUME NEW h \in Handlers, Step(h), ~Sleep(h), ~ReadTable(h) PROVE broken' = broken
  BY <1>3 DEF Step, Lock, MustWait, Pass, LoadDec, StoreDec, LoadInc, StoreInc, SignalNobody,
     SignalWaiter, Unlock, WriteTable, CopyEntry, EndCopy, LoadOps, StoreOps, LoadTime,
     StoreTime, ReadOps, ReadTime, Return, monitors
<1>4. ASSUME NEW h \in Handlers, Receive(h) \/ SpuriousWake(h) \/ Crash(h) PROVE broken' = broken
  BY <1>4 DEF Receive, SpuriousWake, Crash, monitors
<1>5. CASE UNCHANGED vars
  BY <1>5 DEF vars, monitors
<1> QED BY <1>1, <1>2, <1>3, <1>4, <1>5 DEF Next

\* Until somebody uses a monitor that he did not aquire, its mutex has one holder,
\* its counter is 0 exactly while that holder works and nobody sleeps on it
\* (lock_sync and release, table_skel.c:60-91); and if every operation of the clients
\* that uses it aquires it, that is for ever.
THEOREM Protection == Spec => []DisciplineProtects
<1>1. Init => DisciplineProtects
  BY ProtectedInit DEF DisciplineProtects, Init
<1>2. TypeOK /\ Placement /\ DisciplineProtects /\ [Next]_vars => DisciplineProtects'
  <2> SUFFICES ASSUME TypeOK, Placement, DisciplineProtects, [Next]_vars
               PROVE  DisciplineProtects'
    OBVIOUS
  <2>1. ASSUME NEW m \in Monitors PROVE m \notin broken' => Protected(m)'
    <3>1. m \notin broken' => m \notin broken
      BY BrokenStays
    <3>2. m \notin broken => Protected(m)
      BY DisciplineKept
    <3> QED BY <3>1, <3>2, ProtectedStep
  <2>2. ASSUME NEW m \in Monitors, Disciplined(m) PROVE m \notin broken'
    BY <2>2, UnbrokenStep, DisciplineKept
  <2>3. broken' \subseteq Monitors
    BY TypeStep DEF TypeOK
  <2>4. \A m \in Monitors : Disciplined(m)' <=> Disciplined(m)
    BY DEF Disciplined
  <2> QED BY <2>1, <2>2, <2>3, <2>4 DEF DisciplineProtects
<1> QED BY <1>1, <1>2, TypeCorrect, PTL DEF Spec

\* Two operations that change the table never overlap until a reader has to wait
\* for the table (table_skel.c:120-125, 181-194).
THEOREM TableExclusion == Spec => []TableExclusive
<1>1. TypeOK /\ Placement /\ DisciplineProtects => TableExclusive
  <2> SUFFICES ASSUME TypeOK, Placement, DisciplineProtects, "table" \notin broken,
                      NEW g \in Handlers, NEW h \in Handlers,
                      Accessing(g), Accessing(h), Writes(req[g]), Writes(req[h])
               PROVE  g = h
    BY DEF TableExclusive, WritersExclusive
  <2>0. Protected("table")
    BY DisciplineKept DEF Monitors
  <2>1. Holder(g, "table") /\ Holder(h, "table")
    BY DEF Accessing, Holder, Placement, Placed, Writes, Aquires
  <2> QED BY <2>0, <2>1 DEF Protected
<1> QED BY <1>1, TypeCorrect, Protection, PTL

\* Two operations never update the statistics at once until a GET comes to them or
\* a STATS has to wait (table_skel.c:128-134), whatever happens to the table.
THEOREM StatsExclusion == Spec => []StatsExclusive
<1>1. TypeOK /\ Placement /\ DisciplineProtects => StatsExclusive
  <2> SUFFICES ASSUME TypeOK, Placement, DisciplineProtects, "stats" \notin broken,
                      NEW g \in Handlers, NEW h \in Handlers,
                      InSection(g), InSection(h)
               PROVE  g = h
    BY DEF StatsExclusive
  <2>0. Protected("stats")
    BY DisciplineKept DEF Monitors
  <2>1. Holder(g, "stats") /\ Holder(h, "stats")
    BY <2>0 DEF InSection, Holder, Placement, Placed, Protected
  <2> QED BY <2>0, <2>1 DEF Protected
<1> QED BY <1>1, TypeCorrect, Protection, PTL

\* If no client reads the table the loop of lock_sync never waits for it.
THEOREM NobodySleeps == ASSUME Disciplined("table") PROVE Spec => []NobodySleepsOnTable
<1>1. DisciplineProtects => NobodySleepsOnTable
  <2>1. DisciplineProtects => Protected("table")
    BY DisciplineKept DEF Monitors
  <2> QED BY <2>1 DEF Protected, NobodySleepsOnTable
<1> QED BY <1>1, Protection, PTL

-----------------------------------------------------------------------------
(* The statistics.                                                         *)

\* How far the two statistics are ahead of the operations recorded, and what a
\* handler loaded of them.
Counted ==
  /\ total_time = executed
  /\ \/ /\ \E h \in Handlers : pc[h] \in {"time", "timest"}
        /\ total_operations = Succ32(executed)
     \/ /\ \A h \in Handlers : pc[h] \notin {"time", "timest"}
        /\ total_operations = executed
  /\ \A h \in Handlers :
       /\ pc[h] = "opsst"  => reg[h] = total_operations
       /\ pc[h] = "timest" => reg[h] = total_time

LEMMA CountedStep ==
  TypeOK /\ Placement /\ Protected("stats") /\ [Next]_vars /\ Counted => Counted'
<1> SUFFICES ASSUME TypeOK, Placement, Protected("stats"), [Next]_vars, Counted
             PROVE  Counted'
  OBVIOUS
<1> DEFINE Updating == {"ops", "opsst", "time", "timest"}
<1>1. \A g, h \in Handlers : pc[g] \in Updating /\ pc[h] \in Updating => g = h
  BY DEF Protected, Holder, Placement, Placed
<1> DEFINE Mid == {"opsst", "time", "timest"}
<1> DEFINE Untouched == /\ UNCHANGED stats
                        /\ \A g \in Handlers :
                             \/ pc'[g] = pc[g] /\ reg'[g] = reg[g]
                             \/ pc[g] \notin Mid /\ pc'[g] \notin Mid
<1>2. Untouched => Counted'
  BY DEF Counted, stats
<1>3. ASSUME NEW h \in Handlers, Receive(h) PROVE Untouched
  BY <1>3 DEF Receive, StartOf, TypeOK
<1>4. ASSUME NEW h \in Handlers, Lock(h) PROVE Untouched
  BY <1>4 DEF Lock, Goto, TypeOK
<1>5. ASSUME NEW h \in Handlers, MustWait(h) \/ Sleep(h) PROVE Untouched
  BY <1>5 DEF MustWait, Sleep, Goto, TypeOK
<1>6. ASSUME NEW h \in Handlers, SpuriousWake(h) PROVE Untouched
  BY <1>6 DEF SpuriousWake, Goto, TypeOK
<1>7. ASSUME NEW h \in Handlers, Pass(h) PROVE Untouched
  BY <1>7 DEF Pass, Goto, Section, TypeOK
<1>8. ASSUME NEW h \in Handlers, LoadDec(h) PROVE Untouched
  BY <1>8 DEF LoadDec, Goto, TypeOK
<1>9. ASSUME NEW h \in Handlers, StoreDec(h) PROVE Untouched
  BY <1>9 DEF StoreDec, Goto, Section, TypeOK
<1>10. ASSUME NEW h \in Handlers, LoadInc(h) PROVE Untouched
  BY <1>10 DEF LoadInc, Goto, TypeOK
<1>11. ASSUME NEW h \in Handlers, StoreInc(h) PROVE Untouched
  BY <1>11 DEF StoreInc, Goto, TypeOK
<1>12. ASSUME NEW h \in Handlers, SignalNobody(h) PROVE Untouched
  BY <1>12 DEF SignalNobody, Goto, TypeOK
<1>13. ASSUME NEW h \in Handlers, SignalWaiter(h) PROVE Untouched
  BY <1>13 DEF SignalWaiter, Waiters, TypeOK
<1>14. ASSUME NEW h \in Handlers, Unlock(h) PROVE Untouched
  BY <1>14 DEF Unlock, Goto, GotoStats, StartOf, TypeOK
<1>15. ASSUME NEW h \in Handlers, WriteTable(h) PROVE Untouched
  BY <1>15 DEF WriteTable, Goto, Release, TypeOK
<1>16. ASSUME NEW h \in Handlers, ReadTable(h) PROVE Untouched
  BY <1>16 DEF ReadTable, GotoStats, StartOf, TypeOK
<1>17. ASSUME NEW h \in Handlers, CopyEntry(h) PROVE Untouched
  BY <1>17 DEF CopyEntry, control, TypeOK
<1>18. ASSUME NEW h \in Handlers, EndCopy(h) PROVE Untouched
  BY <1>18 DEF EndCopy, Goto, TypeOK
<1>19. ASSUME NEW h \in Handlers, ReadOps(h) \/ ReadTime(h) PROVE Untouched
  BY <1>19 DEF ReadOps, ReadTime, Goto, TypeOK
<1>20. ASSUME NEW h \in Handlers, Return(h) PROVE Untouched
  BY <1>20 DEF Return, Goto, TypeOK
<1>21. ASSUME NEW h \in Handlers, Crash(h) PROVE Untouched
  BY <1>21 DEF Crash, control, TypeOK
<1>22. ASSUME NEW h \in Handlers, LoadOps(h) PROVE Counted'
  BY <1>1, <1>22 DEF LoadOps, Goto, TypeOK, Counted, stats
<1>23. ASSUME NEW h \in Handlers, StoreOps(h) PROVE Counted'
  <2>1. \A g \in Handlers \ {h} : pc[g] \notin Mid /\ pc'[g] = pc[g] /\ reg'[g] = reg[g]
    BY <1>1, <1>23 DEF StoreOps, Goto, TypeOK
  <2>2. pc[h] = "opsst" /\ pc'[h] = "time"
    BY <1>23 DEF StoreOps, Goto, TypeOK
  <2>3. total_operations = executed /\ reg[h] = total_operations
    <3>1. \A g \in Handlers : pc[g] \notin {"time", "timest"}
      BY <2>1, <2>2
    <3> QED BY <2>2, <3>1 DEF Counted
  <2>4. total_operations' = Succ32(executed) /\ UNCHANGED <<total_time, executed>>
    BY <2>3, <1>23 DEF StoreOps
  <2> QED BY <2>1, <2>2, <2>4 DEF Counted
<1>24. ASSUME NEW h \in Handlers, LoadTime(h) PROVE Counted'
  BY <1>1, <1>24 DEF LoadTime, Goto, TypeOK, Counted, stats
<1>25. ASSUME NEW h \in Handlers, StoreTime(h) PROVE Counted'
  BY <1>1, <1>25 DEF StoreTime, Goto, Release, TypeOK, Counted
<1>26. UNCHANGED vars => Untouched
  BY DEF vars, control
<1> QED
  BY <1>2, <1>3, <1>4, <1>5, <1>6, <1>7, <1>8, <1>9, <1>10, <1>11, <1>12, <1>13, <1>14, <1>15, <1>16, <1>17, <1>18, <1>19, <1>20, <1>21, <1>22, <1>23, <1>24, <1>25, <1>26 DEF Next, Step

CountedUnlessBroken == "stats" \in broken \/ Counted

\* No recorded operation is lost and the two statistics agree whenever nobody is
\* updating them, until a GET comes to them or a STATS has to wait (stats.c:22-45).
THEOREM StatsCounted == Spec => []StatsConsistent
<1>1. Init => CountedUnlessBroken
  BY DEF Init, Counted, CountedUnlessBroken
<1>2. TypeOK /\ Placement /\ DisciplineProtects /\ [Next]_vars /\ CountedUnlessBroken
        => CountedUnlessBroken'
  <2>1. DisciplineProtects /\ "stats" \notin broken => Protected("stats")
    BY DisciplineKept DEF Monitors
  <2> QED BY <2>1, CountedStep, BrokenStays DEF CountedUnlessBroken
<1>3. TypeOK /\ Placement /\ CountedUnlessBroken => StatsConsistent
  BY DEF Counted, CountedUnlessBroken, StatsConsistent, InSection
<1> QED BY <1>1, <1>2, <1>3, TypeCorrect, Protection, PTL DEF Spec

-----------------------------------------------------------------------------
(* The refinement: clients that use PUT, DEL and STATS, or no PUT and no DEL. *)

\* What GETTABLE has copied is what the table holds, but for what it has yet to copy.
Copied(h) ==
  pc[h] # "idle" /\ mon[h] = "stats" /\ req[h].op = "GETTABLE" =>
    /\ todo[h] \subseteq Present(table)
    /\ answer[h] = <<"entries", [k \in Present(table) \ todo[h] |-> table[k]]>>

\* No handler in a function of table.h is disturbed by a write, nor was one that
\* has copied a part of the table.
Undisturbed == \A h \in Handlers : (Accessing(h) => Clean(h)) /\ Copied(h)

LEMMA RefinesInit == Init => Abstract!Init
BY DEF Init, Abstract!Init, Abstract!Tables, Tables, AbsPhase, AbsAsked, AbsAnswer, Abstracted

LEMMA SameData ==
  /\ Abstract!Requests = Requests
  /\ \A r, t : Abstract!Effect(r, t) = Effect(r, t) /\ Abstract!Reply(r, t) = Reply(r, t)
<1>1. Abstract!Requests = Requests
  BY DEF Requests, Abstract!Requests, rtable_put, rtable_get, rtable_del,
         rtable_size, rtable_get_keys, rtable_get_table, rtable_stats,
         Abstract!rtable_put, Abstract!rtable_get, Abstract!rtable_del, Abstract!rtable_size,
         Abstract!rtable_get_keys, Abstract!rtable_get_table, Abstract!rtable_stats
<1>2. \A r, t : Abstract!Effect(r, t) = Effect(r, t)
  BY DEF Effect, Abstract!Effect, Writes, Abstract!Writes
<1>3. \A r, t : Abstract!Reply(r, t) = Reply(r, t)
  BY DEF Reply, Abstract!Reply, Present, Abstract!Present
<1> QED BY <1>1, <1>2, <1>3

\* The step of h leaves what the abstract table shows of g as it is.
Same(g) == /\ Abstracted(g)' <=> Abstracted(g)
           /\ Abstracted(g) => (Pending(g)' <=> Pending(g)) /\ req'[g] = req[g]
           /\ Abstracted(g) /\ ~Pending(g) => answer'[g] = answer[g]

\* A step of h in which its operation takes effect is one of the atomic table.
LEMMA EffectPerforms ==
  ASSUME TypeOK, NEW h \in Handlers,
         \A g \in Handlers \ {h} : Same(g),
         Abstracted(h), Pending(h), Abstracted(h)', ~Pending(h)', req' = req,
         table' = Effect(req[h], table), answer'[h] = Reply(req[h], table)
  PROVE  Abstract!Perform(h)
<1>1. AbsPhase[h] = "called" /\ AbsPhase' = [AbsPhase EXCEPT ![h] = "done"]
  BY DEF AbsPhase, Same
<1>2. AbsAsked' = AbsAsked /\ AbsAsked[h] = req[h]
  BY DEF AbsAsked, Same
<1>3. AbsAnswer' = [AbsAnswer EXCEPT ![h] = Reply(req[h], table)]
  BY DEF AbsAnswer, Same
<1> QED BY <1>1, <1>2, <1>3, SameData DEF Abstract!Perform

LEMMA RefinesStep ==
  TypeOK /\ Placement /\ Undisturbed /\ [Next]_vars => [Abstract!Next]_Abstract!vars
<1> SUFFICES ASSUME TypeOK, Placement, Undisturbed, [Next]_vars
             PROVE  [Abstract!Next]_Abstract!vars
  OBVIOUS
<1> DEFINE Kept == UNCHANGED table /\ \A g \in Handlers : Same(g)
<1>1. Kept => UNCHANGED Abstract!vars
  BY DEF Abstract!vars, AbsPhase, AbsAsked, AbsAnswer, Same
<1>2. \A h \in Handlers : pc[h] # "idle" => req[h] \in Requests /\ req[h].op \in AllOps
  BY RequestType DEF TypeOK
<1>3. ASSUME NEW h \in Handlers, Lock(h) PROVE Kept
  BY <1>2, <1>3 DEF Lock, Goto, request, content, TypeOK, Placement, Placed, Abstracted, Pending, Same
<1>4. ASSUME NEW h \in Handlers, MustWait(h) \/ Sleep(h) PROVE Kept
  BY <1>2, <1>4 DEF MustWait, Sleep, Goto, request, content, TypeOK, Placement, Placed, Abstracted, Pending, Same
<1>5. ASSUME NEW h \in Handlers, SpuriousWake(h) PROVE Kept
  BY <1>2, <1>5 DEF SpuriousWake, Goto, request, content, TypeOK, Placement, Placed, Abstracted, Pending, Same
<1>6. ASSUME NEW h \in Handlers, Pass(h) PROVE Kept
  BY <1>2, <1>6 DEF Pass, Goto, request, content, Section, TypeOK, Placement, Placed, Abstracted, Pending, Same
<1>7. ASSUME NEW h \in Handlers, LoadDec(h) PROVE Kept
  BY <1>2, <1>7 DEF LoadDec, Goto, request, content, TypeOK, Placement, Placed, Abstracted, Pending, Same
<1>8. ASSUME NEW h \in Handlers, StoreDec(h) PROVE Kept
  BY <1>2, <1>8 DEF StoreDec, Goto, Section, request, content, TypeOK, Placement, Placed, Abstracted, Pending, Same
<1>9. ASSUME NEW h \in Handlers, LoadInc(h) PROVE Kept
  BY <1>2, <1>9 DEF LoadInc, Goto, request, content, TypeOK, Placement, Placed, Abstracted, Pending, Same
<1>10. ASSUME NEW h \in Handlers, StoreInc(h) PROVE Kept
  BY <1>2, <1>10 DEF StoreInc, Goto, request, content, TypeOK, Placement, Placed, Abstracted, Pending, Same
<1>11. ASSUME NEW h \in Handlers, SignalNobody(h) PROVE Kept
  BY <1>2, <1>11 DEF SignalNobody, Goto, request, content, TypeOK, Placement, Placed, Abstracted, Pending, Same
<1>12. ASSUME NEW h \in Handlers, SignalWaiter(h) PROVE Kept
  BY <1>2, <1>12 DEF SignalWaiter, Waiters, request, content, TypeOK, Placement, Placed, Abstracted, Pending, Same
<1>13. ASSUME NEW h \in Handlers, Unlock(h) PROVE Kept
  <2>1. StartOf(req[h].op, "stats") # "idle"
    BY <1>2, <1>13, StartOfAquiring DEF Unlock, Monitors
  <2>2. /\ pc[h] = "unlock" /\ UNCHANGED <<req, answer, table>>
        /\ \A g \in Handlers \ {h} : pc'[g] = pc[g] /\ mon'[g] = mon[g]
    <3>1. pc[h] = "unlock" /\ UNCHANGED <<req, answer, table>>
      BY <1>13 DEF Unlock, request, content
    <3>2. GotoStats(h) \/ \E label : Goto(h, label)
      BY <1>13 DEF Unlock
    <3>3. ASSUME NEW g \in Handlers \ {h} PROVE pc'[g] = pc[g] /\ mon'[g] = mon[g]
      <4>1. CASE GotoStats(h)
        BY <4>1 DEF GotoStats, TypeOK
      <4>2. CASE \E label : Goto(h, label)
        BY <4>2 DEF Goto, TypeOK
      <4> QED BY <3>2, <4>1, <4>2
    <3> QED BY <3>1, <3>3
  <2>3. \A g \in Handlers \ {h} : Same(g)
    BY <2>2 DEF Abstracted, Pending, Same
  <2>4. CASE mon[h] = "table"
    <3>1. req[h].op # "GETTABLE"
      BY <2>2, <2>4 DEF Placement, Placed, Writes
    <3>2. mon'[h] = "stats" /\ pc'[h] = StartOf(req[h].op, "stats")
      BY <1>13, <2>4 DEF Unlock, GotoStats, TypeOK
    <3> QED BY <2>1, <2>2, <2>3, <2>4, <3>1, <3>2 DEF Abstracted, Pending, Same
  <2>5. CASE mon[h] = "stats"
    <3>1. mon' = mon /\ pc'[h] = IF req[h].op = "GETTABLE" THEN "copy" ELSE "reply"
      BY <1>13, <2>5 DEF Unlock, Goto, TypeOK
    <3> QED BY <2>2, <2>3, <2>5, <3>1 DEF Abstracted, Pending, Same
  <2> QED BY <1>13, <2>4, <2>5 DEF Unlock
<1>14. ASSUME NEW h \in Handlers, LoadOps(h) PROVE Kept
  BY <1>2, <1>14 DEF LoadOps, Goto, request, content, TypeOK, Placement, Placed, Abstracted, Pending, Same
<1>15. ASSUME NEW h \in Handlers, StoreOps(h) PROVE Kept
  BY <1>2, <1>15 DEF StoreOps, Goto, request, content, TypeOK, Placement, Placed, Abstracted, Pending, Same
<1>16. ASSUME NEW h \in Handlers, LoadTime(h) PROVE Kept
  BY <1>2, <1>16 DEF LoadTime, Goto, request, content, TypeOK, Placement, Placed, Abstracted, Pending, Same
<1>17. ASSUME NEW h \in Handlers, StoreTime(h) PROVE Kept
  BY <1>2, <1>17 DEF StoreTime, Goto, Release, request, content, TypeOK, Placement, Placed, Abstracted, Pending, Same
<1>18. ASSUME NEW h \in Handlers, ReadOps(h) \/ ReadTime(h) PROVE Kept
  BY <1>2, <1>18 DEF ReadOps, ReadTime, Goto, request, content, TypeOK, Placement, Placed, Abstracted, Pending, Same
<1>19. ASSUME NEW h \in Handlers, Crash(h) PROVE Kept
  BY <1>2, <1>19 DEF Crash, control, request, content, TypeOK, Placement, Placed, Abstracted, Pending, Same
<1>20. ASSUME NEW h \in Handlers, CopyEntry(h) PROVE Kept
  BY <1>2, <1>20 DEF CopyEntry, control, TypeOK, Placement, Placed, Abstracted, Pending, Same
<1>21. ASSUME NEW h \in Handlers, Receive(h) PROVE Kept \/ Abstract!Call(h)
  <2>1. PICK r \in Requests : req' = [req EXCEPT ![h] = r]
    BY <1>21 DEF Receive
  <2>2. pc[h] = "idle" /\ pc'[h] \in {"lock", "check", "ops"} /\ req'[h] = r
    BY <1>21, <2>1, RequestType, StartOfAquiring DEF Receive, TypeOK, Monitors
  <2>3. \A g \in Handlers \ {h} : pc'[g] = pc[g] /\ mon'[g] = mon[g] /\ req'[g] = req[g]
    BY <1>21 DEF Receive
  <2>4. UNCHANGED <<table, answer>>
    BY <1>21 DEF Receive, content
  <2>5. CASE r.op = "STATS"
    BY <2>2, <2>3, <2>4, <2>5 DEF Abstracted, Pending, Same
  <2>6. CASE r.op # "STATS"
    <3>1. mon'[h] = "table"
      BY <1>21, <2>1, <2>2, <2>6 DEF Receive, TypeOK, Uses
    <3>2. ~Abstracted(h) /\ Abstracted(h)' /\ Pending(h)'
      BY <2>2, <2>6, <3>1 DEF Abstracted, Pending, Same
    <3>3. \A g \in Handlers \ {h} : Same(g)
      BY <2>3, <2>4 DEF Abstracted, Pending, Same
    <3>4. AbsPhase[h] = "idle" /\ AbsPhase' = [AbsPhase EXCEPT ![h] = "called"]
      BY <3>2, <3>3 DEF AbsPhase, Same
    <3>5. AbsAsked' = [AbsAsked EXCEPT ![h] = r]
      BY <2>2, <3>2, <3>3 DEF AbsAsked, Same
    <3>6. AbsAnswer' = AbsAnswer
      BY <3>2, <3>3 DEF AbsAnswer, Same
    <3>7. Requests = Abstract!Requests
      BY DEF Requests, Abstract!Requests, rtable_put, rtable_get, rtable_del,
             rtable_size, rtable_get_keys, rtable_get_table, rtable_stats,
             Abstract!rtable_put, Abstract!rtable_get, Abstract!rtable_del, Abstract!rtable_size,
             Abstract!rtable_get_keys, Abstract!rtable_get_table, Abstract!rtable_stats
    <3> QED
      BY <2>4, <2>6, <3>4, <3>5, <3>6, <3>7 DEF Abstract!Call
  <2> QED BY <2>5, <2>6
<1>22. ASSUME NEW h \in Handlers, WriteTable(h) PROVE Abstract!Perform(h)
  <2>1. /\ pc[h] = "crit" /\ mon[h] = "table" /\ pc'[h] = "inc" /\ mon' = mon /\ req' = req
        /\ \A g \in Handlers \ {h} : pc'[g] = pc[g] /\ answer'[g] = answer[g]
    BY <1>22 DEF WriteTable, Release, Goto, TypeOK, Placement, Placed
  <2>2. Clean(h)
    BY <2>1 DEF Undisturbed, Accessing
  <2>3. answer'[h] = Reply(req[h], table) /\ table' = Effect(req[h], table)
    BY <1>22, <2>2 DEF WriteTable, Seen, TypeOK
  <2>4. Abstracted(h) /\ Pending(h) /\ Abstracted(h)' /\ ~Pending(h)'
    BY <1>2, <1>22, <2>1 DEF Abstracted, Pending, WriteTable, Writes
  <2>5. \A g \in Handlers \ {h} : Same(g)
    BY <2>1 DEF Abstracted, Pending, Same
  <2> QED BY <2>1, <2>3, <2>4, <2>5, EffectPerforms
<1>23. ASSUME NEW h \in Handlers, ReadTable(h) PROVE Kept \/ Abstract!Perform(h)
  <2>1. /\ pc[h] = "crit" /\ mon[h] = "table" /\ mon'[h] = "stats" /\ req' = req
        /\ ~Writes(req[h]) /\ req[h].op # "STATS" /\ req[h].op \in AllOps
        /\ pc'[h] = StartOf(req[h].op, "stats")
        /\ \A g \in Handlers \ {h} : pc'[g] = pc[g] /\ mon'[g] = mon[g] /\ answer'[g] = answer[g]
    BY <1>2, <1>23 DEF ReadTable, GotoStats, TypeOK, Placement, Placed, Uses
  <2>2. pc'[h] \in {"lock", "check", "ops"}
    BY <2>1, StartOfAquiring DEF Monitors
  <2>3. \A g \in Handlers \ {h} : Same(g)
    BY <2>1 DEF Abstracted, Pending, Same
  <2>4. table' = table /\ table = Effect(req[h], table)
    BY <1>23, <2>1 DEF ReadTable, Effect
  <2>5. CASE req[h].op = "GETTABLE"
    <3>1. Same(h)
      BY <2>1, <2>2, <2>5 DEF Abstracted, Pending, Same
    <3> QED BY <2>3, <2>4, <3>1
  <2>6. CASE req[h].op # "GETTABLE"
    <3>1. Clean(h)
      BY <2>1 DEF Undisturbed, Accessing
    <3>2. answer'[h] = Reply(req[h], table)
      BY <1>23, <2>6, <3>1 DEF ReadTable, Seen, TypeOK
    <3>3. Abstracted(h) /\ Pending(h) /\ Abstracted(h)' /\ ~Pending(h)'
      BY <2>1, <2>2, <2>6 DEF Abstracted, Pending
    <3> QED BY <2>1, <2>3, <2>4, <3>2, <3>3, EffectPerforms
  <2> QED BY <2>5, <2>6
<1>24. ASSUME NEW h \in Handlers, EndCopy(h) PROVE Abstract!Perform(h)
  <2>1. /\ pc[h] = "copy" /\ mon[h] = "stats" /\ pc'[h] = "reply" /\ mon' = mon /\ req' = req
        /\ req[h].op = "GETTABLE" /\ todo[h] = {} /\ answer' = answer /\ table' = table
        /\ \A g \in Handlers \ {h} : pc'[g] = pc[g]
    BY <1>24 DEF EndCopy, Goto, request, TypeOK, Placement, Placed
  <2>2. answer[h] = <<"entries", [k \in Present(table) |-> table[k]]>>
    <3>1. answer[h] = <<"entries", [k \in Present(table) \ todo[h] |-> table[k]]>>
      BY <2>1 DEF Undisturbed, Copied
    <3>2. Present(table) \ todo[h] = Present(table)
      BY <2>1
    <3> QED BY <3>1, <3>2
  <2>3. answer'[h] = Reply(req[h], table) /\ table' = Effect(req[h], table)
    BY <2>1, <2>2 DEF Reply, Effect, Writes
  <2>4. Abstracted(h) /\ Pending(h) /\ Abstracted(h)' /\ ~Pending(h)'
    BY <2>1 DEF Abstracted, Pending
  <2>5. \A g \in Handlers \ {h} : Same(g)
    BY <2>1 DEF Abstracted, Pending, Same
  <2> QED BY <2>1, <2>3, <2>4, <2>5, EffectPerforms
<1>25. ASSUME NEW h \in Handlers, Return(h) PROVE Kept \/ Abstract!Return(h)
  <2>1. /\ pc[h] = "reply" /\ mon[h] = "stats" /\ pc'[h] = "idle" /\ mon' = mon /\ table' = table
        /\ \A g \in Handlers \ {h} : pc'[g] = pc[g] /\ req'[g] = req[g] /\ answer'[g] = answer[g]
    BY <1>25 DEF Return, Goto, content, TypeOK, Placement, Placed
  <2>2. \A g \in Handlers \ {h} : Same(g)
    BY <2>1 DEF Abstracted, Pending, Same
  <2>3. ~Abstracted(h)'
    BY <2>1 DEF Abstracted
  <2>4. CASE ~Abstracted(h)
    BY <2>1, <2>2, <2>3, <2>4 DEF Same
  <2>5. CASE Abstracted(h)
    <3>1. ~Pending(h)
      BY <1>2, <2>1 DEF Pending
    <3>2. AbsPhase[h] = "done" /\ AbsPhase' = [AbsPhase EXCEPT ![h] = "idle"]
      BY <2>2, <2>3, <2>5, <3>1 DEF AbsPhase, Same
    <3>3. AbsAsked' = [AbsAsked EXCEPT ![h] = NoRequest]
      BY <2>2, <2>3, <2>5 DEF AbsAsked, Same
    <3>4. AbsAnswer' = [AbsAnswer EXCEPT ![h] = NoAnswer]
      BY <2>2, <2>3, <2>5, <3>1 DEF AbsAnswer, Same
    <3> QED BY <2>1, <3>2, <3>3, <3>4 DEF Abstract!Return
  <2> QED BY <2>4, <2>5
<1>26. UNCHANGED vars => Kept
  BY DEF vars, control, request, content, Abstracted, Pending, Same
<1> HIDE DEF Kept
<1> QED
  BY <1>1, <1>3, <1>4, <1>5, <1>6, <1>7, <1>8, <1>9, <1>10, <1>11, <1>12, <1>13, <1>14, <1>15,
     <1>16, <1>17, <1>18, <1>19, <1>20, <1>21, <1>22, <1>23, <1>24, <1>25, <1>26
     DEF Next, Step, Abstract!Next

LEMMA WritersOnly ==
  ASSUME Disciplined("table"), NEW r \in Requests
  PROVE  Writes(r) \/ r.op = "STATS"
BY RequestType DEF Disciplined, Uses, Aquires, Writes

\* No access has been overlapped by a write.
NotTorn == torn = {}

LEMMA CleanStep ==
  ASSUME Disciplined("table")
  PROVE  TypeOK /\ Placement /\ Protected("table") /\ torn = {} /\ [Next]_vars => torn' = {}
<1> SUFFICES ASSUME TypeOK, Placement, Protected("table"), torn = {}, [Next]_vars
             PROVE  torn' = {}
  OBVIOUS
<1>1. \A g \in Handlers : pc[g] # "copy"
  BY WritersOnly DEF TypeOK, Placement, Placed, Writes
<1>2. ASSUME NEW h \in Handlers, WriteTable(h) PROVE torn' = {}
  <2>1. ASSUME NEW g \in Handlers, Accessing(g) PROVE g = h
    <3>1. pc[g] = "crit" /\ mon[g] = "table" /\ pc[h] = "crit" /\ mon[h] = "table"
      BY <1>1, <1>2, <2>1 DEF WriteTable, Accessing, Placement, Placed
    <3>2. Holder(g, "table") /\ Holder(h, "table")
      BY <3>1, UsersAquire DEF Holder, Monitors
    <3> QED BY <3>2 DEF Protected
  <2> QED BY <1>2, <2>1 DEF WriteTable, Tearing
<1>3. ASSUME NEW h \in Handlers, Step(h), ~WriteTable(h) PROVE torn' = {}
  BY <1>3 DEF Step, Lock, MustWait, Sleep, Pass, LoadDec, StoreDec, LoadInc, StoreInc, SignalNobody,
     SignalWaiter, Unlock, ReadTable, CopyEntry, EndCopy, LoadOps, StoreOps, LoadTime,
     StoreTime, ReadOps, ReadTime, Return, content
<1>4. ASSUME NEW h \in Handlers, Receive(h) \/ SpuriousWake(h) \/ Crash(h) PROVE torn' = {}
  BY <1>4 DEF Receive, SpuriousWake, Crash, content
<1>5. CASE UNCHANGED vars
  BY <1>5 DEF vars, content
<1> QED BY <1>2, <1>3, <1>4, <1>5 DEF Next

LEMMA WritersUndisturbed ==
  ASSUME Disciplined("table")
  PROVE  TypeOK /\ Placement /\ Protected("table") /\ NotTorn => Undisturbed
<1> SUFFICES ASSUME TypeOK, Placement, Protected("table"), NotTorn, NEW h \in Handlers
             PROVE  (Accessing(h) => Clean(h)) /\ Copied(h)
  BY DEF Undisturbed
<1>1. \A g \in Handlers : pc[g] # "idle" => req[g].op # "GETTABLE"
  BY WritersOnly DEF TypeOK, Writes
<1>2. \A g \in Handlers : Accessing(g) => pc[g] = "crit" /\ mon[g] = "table"
  BY <1>1 DEF Accessing, Placement, Placed
<1>3. Accessing(h) => Clean(h)
  <2>1. \A g \in Handlers : Accessing(g) => Holder(g, "table")
    BY <1>2, UsersAquire DEF Holder, Monitors
  <2> QED BY <2>1 DEF Clean, NotTorn, Protected
<1> QED BY <1>1, <1>3 DEF Copied

\* The server's table is the atomic table of AtomicTable for any number of clients
\* that put, delete and ask for the statistics (table_skel.h:22-26).
THEOREM Refinement == ASSUME Disciplined("table") PROVE Spec => Linearizable
<1>1. Init => NotTorn
  BY DEF Init, NotTorn
<1>0. DisciplineProtects => Protected("table")
  BY DisciplineKept DEF Monitors
<1>2. TypeOK /\ Placement /\ DisciplineProtects /\ NotTorn /\ [Next]_vars => NotTorn'
  BY <1>0, CleanStep DEF NotTorn
<1>3. TypeOK /\ Placement /\ DisciplineProtects /\ NotTorn /\ [Next]_vars
        => [Abstract!Next]_Abstract!vars
  BY <1>0, RefinesStep, WritersUndisturbed
<1>4. Spec => []NotTorn
  BY <1>1, <1>2, TypeCorrect, Protection, PTL DEF Spec
<1>5. Spec => Abstract!Init /\ [][Abstract!Next]_(Abstract!vars)
  BY <1>3, <1>4, RefinesInit, TypeCorrect, Protection, PTL DEF Spec
<1> QED BY <1>5 DEF Linearizable, Abstract!Spec

-----------------------------------------------------------------------------
(* Clients that only read.                                                 *)

\* No client of this instance changes the table.
ReadersOnly == Ops \cap {"PUT", "DEL"} = {}

CopiedByAll == \A h \in Handlers : Copied(h)

LEMMA NobodyWrites ==
  ASSUME ReadersOnly, TypeOK, NEW h \in Handlers, pc[h] # "idle"
  PROVE  ~Writes(req[h])
BY RequestType DEF ReadersOnly, TypeOK, Writes

LEMMA ReadersUndisturbed ==
  ASSUME ReadersOnly
  PROVE  TypeOK /\ NotTorn /\ CopiedByAll => Undisturbed
BY NobodyWrites DEF NotTorn, CopiedByAll, Undisturbed, Clean, Accessing

LEMMA ReadersStep ==
  ASSUME ReadersOnly
  PROVE  TypeOK /\ Placement /\ NotTorn /\ CopiedByAll /\ [Next]_vars
           => NotTorn' /\ CopiedByAll'
<1> SUFFICES ASSUME TypeOK, Placement, NotTorn, CopiedByAll, [Next]_vars
             PROVE  NotTorn' /\ CopiedByAll'
  OBVIOUS
<1>1. \A h \in Handlers : pc[h] # "idle" => ~Writes(req[h])
  BY NobodyWrites
<1>2. \A h \in Handlers : Accessing(h) => Clean(h) /\ pc[h] # "idle"
  BY ReadersUndisturbed DEF Undisturbed, Accessing
<1> DEFINE Kept == /\ UNCHANGED <<todo, answer, table, torn>>
                   /\ \A g \in Handlers : pc'[g] # "idle" /\ mon'[g] = "stats" =>
                        pc[g] # "idle" /\ mon[g] = "stats" /\ req'[g] = req[g]
<1>3. Kept => NotTorn' /\ CopiedByAll'
  BY DEF CopiedByAll, Copied, NotTorn
<1>4. ASSUME NEW h \in Handlers,
             Lock(h) \/ MustWait(h) \/ Sleep(h) \/ Pass(h) \/ SpuriousWake(h) PROVE Kept
  BY <1>4 DEF Lock, MustWait, Sleep, Pass, SpuriousWake, Goto, request, content, TypeOK
<1>5. ASSUME NEW h \in Handlers, LoadDec(h) \/ StoreDec(h) \/ LoadInc(h) \/ StoreInc(h) PROVE Kept
  BY <1>5 DEF LoadDec, StoreDec, LoadInc, StoreInc, Goto, request, content, TypeOK
<1>6. ASSUME NEW h \in Handlers, SignalNobody(h) \/ SignalWaiter(h) PROVE Kept
  BY <1>6 DEF SignalNobody, SignalWaiter, Waiters, Goto, request, content, TypeOK
<1>7. ASSUME NEW h \in Handlers, Unlock(h) PROVE Kept
  <2>1. mon[h] = "stats"
    BY <1>1, <1>7 DEF Unlock, TypeOK, Monitors, Placement, Placed
  <2> QED BY <1>7, <2>1 DEF Unlock, Goto, request, content, TypeOK
<1>8. ASSUME NEW h \in Handlers, LoadOps(h) \/ StoreOps(h) \/ LoadTime(h) \/ StoreTime(h) PROVE Kept
  BY <1>8 DEF LoadOps, StoreOps, LoadTime, StoreTime, Release, Goto, request, content, TypeOK
<1>9. ASSUME NEW h \in Handlers, WriteTable(h) PROVE FALSE
  BY <1>1, <1>9 DEF WriteTable
<1>10. ASSUME NEW h \in Handlers, ReadOps(h) \/ ReadTime(h) PROVE NotTorn' /\ CopiedByAll'
  <2>1. req[h].op = "STATS"
    BY <1>10 DEF ReadOps, ReadTime, Placement, Placed
  <2>2. /\ UNCHANGED <<req, mon, todo, table, torn>>
        /\ \A g \in Handlers \ {h} : pc'[g] = pc[g] /\ answer'[g] = answer[g]
    BY <1>10 DEF ReadOps, ReadTime, Goto, request, content, TypeOK
  <2> QED BY <2>1, <2>2 DEF NotTorn, CopiedByAll, Copied
<1>11. ASSUME NEW h \in Handlers, Return(h) PROVE NotTorn' /\ CopiedByAll'
  BY <1>11 DEF Return, Goto, content, TypeOK, NotTorn, CopiedByAll, Copied
<1>12. ASSUME NEW h \in Handlers, Crash(h) PROVE Kept
  BY <1>12 DEF Crash, control, request, content
<1>13. ASSUME NEW h \in Handlers, Receive(h) PROVE NotTorn' /\ CopiedByAll'
  <2>1. req'[h].op = "GETTABLE" => mon'[h] = "table"
    BY <1>13 DEF Receive, Uses, TypeOK
  <2>2. /\ UNCHANGED <<todo, answer, table, torn>>
        /\ \A g \in Handlers \ {h} : pc'[g] = pc[g] /\ mon'[g] = mon[g] /\ req'[g] = req[g]
    BY <1>13 DEF Receive, content
  <2> QED BY <2>1, <2>2 DEF NotTorn, CopiedByAll, Copied
<1>14. ASSUME NEW h \in Handlers, ReadTable(h) PROVE NotTorn' /\ CopiedByAll'
  <2>1. /\ table' = table /\ torn' = {} /\ req' = req /\ mon[h] = "table"
        /\ \A g \in Handlers \ {h} : /\ pc'[g] = pc[g] /\ mon'[g] = mon[g]
                                     /\ todo'[g] = todo[g] /\ answer'[g] = answer[g]
    BY <1>14 DEF ReadTable, GotoStats, TypeOK, NotTorn, Placement, Placed
  <2>2. Seen(h) = {table}
    BY <1>2, <1>14 DEF ReadTable, Accessing, Seen
  <2>3. ASSUME req[h].op = "GETTABLE" PROVE Copied(h)'
    <3>1. todo'[h] = Present(table) /\ answer'[h] = <<"entries", [k \in {} |-> NoValue]>>
      BY <1>14, <2>2, <2>3 DEF ReadTable, TypeOK
    <3>2. [k \in Present(table) \ todo'[h] |-> table[k]] = [k \in {} |-> NoValue]
      BY <3>1
    <3> QED BY <2>1, <3>1, <3>2 DEF Copied, Present
  <2>4. \A g \in Handlers \ {h} : Copied(g)'
    BY <2>1 DEF CopiedByAll, Copied
  <2> QED BY <2>1, <2>3, <2>4 DEF NotTorn, CopiedByAll, Copied
<1>15. ASSUME NEW h \in Handlers, CopyEntry(h) PROVE NotTorn' /\ CopiedByAll'
  <2>1. /\ table' = table /\ torn' = {} /\ req' = req /\ pc' = pc /\ mon' = mon
        /\ \A g \in Handlers \ {h} : todo'[g] = todo[g] /\ answer'[g] = answer[g]
        /\ pc[h] = "copy" /\ mon[h] = "stats" /\ req[h].op = "GETTABLE"
    BY <1>15 DEF CopyEntry, control, TypeOK, NotTorn, Placement, Placed
  <2>2. Seen(h) = {table}
    BY <1>2, <1>15 DEF CopyEntry, Accessing, Seen
  <2> DEFINE copied == [k \in Present(table) \ todo[h] |-> table[k]]
  <2>3. todo[h] \subseteq Present(table) /\ answer[h] = <<"entries", copied>>
    BY <2>1 DEF CopiedByAll, Copied
  <2>4. PICK k \in todo[h] :
          /\ answer'[h] = <<"entries", [x \in DOMAIN copied \cup {k} |->
                                          IF x = k THEN table[k] ELSE copied[x]]>>
          /\ todo'[h] = todo[h] \ {k}
    <3> HIDE DEF copied
    <3>1. answer[h][2] = copied /\ answer \in [Handlers -> {NoAnswer} \cup Answers]
          /\ todo \in [Handlers -> SUBSET Keys]
      BY <2>3 DEF TypeOK
    <3> QED BY <1>15, <2>2, <3>1 DEF CopyEntry
  <2>5. DOMAIN copied \cup {k} = Present(table) \ (todo[h] \ {k})
    BY <2>3
  <2>6. [x \in DOMAIN copied \cup {k} |-> IF x = k THEN table[k] ELSE copied[x]]
          = [x \in Present(table) \ (todo[h] \ {k}) |-> table[x]]
    BY <2>5
  <2>7. Copied(h)'
    BY <2>1, <2>3, <2>4, <2>6 DEF Copied, Present
  <2>8. \A g \in Handlers \ {h} : Copied(g)'
    BY <2>1 DEF CopiedByAll, Copied
  <2> QED BY <2>1, <2>7, <2>8 DEF NotTorn, CopiedByAll
<1>16. ASSUME NEW h \in Handlers, EndCopy(h) PROVE NotTorn' /\ CopiedByAll'
  BY <1>16 DEF EndCopy, Goto, request, TypeOK, NotTorn, CopiedByAll, Copied
<1>17. CASE UNCHANGED vars
  BY <1>17 DEF vars, control, request, content, NotTorn, CopiedByAll, Copied
<1> HIDE DEF Kept
<1> QED BY <1>3, <1>4, <1>5, <1>6, <1>7, <1>8, <1>9, <1>10, <1>11, <1>12, <1>13, <1>14, <1>15,
           <1>16, <1>17 DEF Next, Step

\* The server's table is also the atomic one for any number of clients that only
\* read: a GETTABLE answers with the whole table although it copies it entry by
\* entry, after it has left the monitors (table_skel.c:311-353).
THEOREM ReadersRefinement == ASSUME ReadersOnly PROVE Spec => Linearizable
<1>1. Init => NotTorn /\ CopiedByAll
  BY DEF Init, NotTorn, CopiedByAll, Copied
<1>2. TypeOK /\ Placement /\ NotTorn /\ CopiedByAll /\ [Next]_vars => NotTorn' /\ CopiedByAll'
  BY ReadersStep
<1>3. TypeOK /\ Placement /\ NotTorn /\ CopiedByAll /\ [Next]_vars
        => [Abstract!Next]_Abstract!vars
  BY RefinesStep, ReadersUndisturbed
<1>4. Spec => [](NotTorn /\ CopiedByAll)
  BY <1>1, <1>2, TypeCorrect, PTL DEF Spec
<1>5. Spec => Abstract!Init /\ [][Abstract!Next]_(Abstract!vars)
  BY <1>3, <1>4, RefinesInit, TypeCorrect, PTL DEF Spec
<1> QED BY <1>5 DEF Linearizable, Abstract!Spec
=============================================================================
