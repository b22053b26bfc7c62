------------------------------ MODULE TableSkel ------------------------------
(***************************************************************************)
(* invoke() of table_skel.c, run by every handler thread on the one table  *)
(* and the one stats structure of the server, down to the reads and writes *)
(* of the variables the threads share.                                     *)
(*                                                                         *)
(* lock_sync and release guard the table and the stats with a monitor      *)
(* each: a mutex, a condition variable and a counter.  A caller with       *)
(* aquire = 1 locks the mutex, waits for a positive counter and decrements *)
(* it; a caller with aquire = 0 only waits.  The mutex is glibc's default  *)
(* one: unlocking it, and waiting on its condition variable, frees it      *)
(* whoever holds it, and who returns from the wait holds it.               *)
(***************************************************************************)
EXTENDS TableData

CONSTANTS Handlers,  \* the handler threads, one per connection
          NoRequest, \* what a handler executes between two requests
          NoAnswer,  \* the answer of a request that has none yet
          IntMax     \* INT_MAX: 2^31 - 1 in the code

ASSUME SkelAssumption == IntMax \in Nat \ {0}

VARIABLES pc,       \* pc[h]: where handler h is
          mon,      \* mon[h]: the monitor h is using, or used last
          req,      \* req[h]: the request it executes
          reg,      \* reg[h]: the value h loaded to increment or decrement, else 0
          answer,   \* answer[h]: what invoke has put in the message
          todo,     \* todo[h]: the keys whose value GETTABLE has yet to copy
          mux,      \* mux[m]: is table_mux, stats_mux locked
          counter,  \* counter[m]: table_counter, stats_counter
          table,    \* the content of the table
          torn,     \* handlers whose access a writer's access overlapped
          total_operations, total_time, \* of stats
          executed, \* (ghost) operations whose statistics were recorded
          broken,   \* (ghost) the monitors used by who did not aquire them
          crashed   \* the process was killed by an access to the table

control  == <<pc, mon>>
request  == <<req, answer, todo>>
monitors == <<mux, counter, broken>>
content  == <<table, torn>>
stats    == <<total_operations, total_time, executed>>
vars == <<control, request, reg, monitors, content, stats, crashed>>

-----------------------------------------------------------------------------
Monitors == {"table", "stats"}

IntMin == -IntMax - 1
Int32  == IntMin .. IntMax
Unbounded(n) == n + 1 \* mutant: no width
Succ32(n) == IF n = IntMax THEN IntMin ELSE n + 1
Pred32(n) == IF n = IntMin THEN IntMax ELSE n - 1

\* Mutant: DEL locks nothing.
AquiresNoDel(op, m) == IF m = "table" THEN op = "PUT"
                                      ELSE op \in AllOps \ {"GET", "STATS", "DEL"}

\* The second argument of invoke's calls of lock_sync for operation op.
Aquires(op, m) == IF m = "table" THEN op \in {"PUT", "DEL"}
                                 ELSE op \in AllOps \ {"GET", "STATS"}

Uses(op, m) == m = "stats" \/ op # "STATS"

\* Every operation of this instance that uses m aquires it.
Disciplined(m) == \A op \in Ops : Uses(op, m) => Aquires(op, m)

\* Where a call of lock_sync starts, and where its caller continues. GET has
\* no such call for the stats: it continues there at once.
StartOf(op, m) == CASE Aquires(op, m)               -> "lock"
                    [] op = "GET" /\ m = "stats"    -> "ops"
                    [] OTHER                        -> "check"
Section(op, m) == CASE m = "table"                  -> "crit"
                    [] m = "stats" /\ op = "STATS"  -> "read"
                    [] OTHER                        -> "ops"

Labels == {"idle",
           "lock", "check", "sleep", "wait", "relock", "dec", "decst",   \* lock_sync
           "crit", "ops", "opsst", "time", "timest", "read", "readtime", \* invoke
           "inc", "incst", "signal", "unlock",                           \* release
           "copy", "reply"}

\* The two places where a handler is inside a function of table.h.
Accessing(h) == pc[h] = "crit" \/ (pc[h] = "copy" /\ todo[h] # {})

\* No write overlaps the access of h: neither one still going on nor, since h
\* may have begun, one that ended. Otherwise h sees any content, or crashes.
Clean(h) == /\ h \notin torn
            /\ \A g \in Handlers \ {h} : ~(Accessing(g) /\ Writes(req[g]))

Goto(h, label) == /\ pc' = [pc EXCEPT ![h] = label]
                  /\ UNCHANGED mon

\* Mutant: the lock_sync of the stats is left out.
GotoOps(h) == /\ pc'  = [pc  EXCEPT ![h] = "ops"]
              /\ mon' = [mon EXCEPT ![h] = "stats"]

\* h goes on to what it does with the stats.
GotoStats(h) == /\ pc'  = [pc  EXCEPT ![h] = StartOf(req[h].op, "stats")]
                /\ mon' = [mon EXCEPT ![h] = "stats"]

\* Mutant: release forgets the counter.
GotoSignal(h) == Goto(h, "signal")

\* h calls release(mon[h]).
Release(h) == Goto(h, "inc")

-----------------------------------------------------------------------------
Init == /\ pc  = [h \in Handlers |-> "idle"]
        /\ mon = [h \in Handlers |-> "stats"]
        /\ req = [h \in Handlers |-> NoRequest]
        /\ reg = [h \in Handlers |-> 0]
        /\ answer = [h \in Handlers |-> NoAnswer]
        /\ todo   = [h \in Handlers |-> {}]
        /\ mux     = [m \in Monitors |-> FALSE]
        /\ counter = [m \in Monitors |-> 1]
        /\ broken = {}
        /\ table \in Tables
        /\ torn = {}
        /\ total_operations = 0 /\ total_time = 0 /\ executed = 0
        /\ crashed = FALSE

\* The handler of h received a request and calls invoke.
Receive(h) ==
    /\ pc[h] = "idle"
    /\ \E r \in Requests :
         LET m == IF Uses(r.op, "table") THEN "table" ELSE "stats"
         IN /\ req' = [req EXCEPT ![h] = r]
            /\ mon' = [mon EXCEPT ![h] = m]
            /\ pc'  = [pc  EXCEPT ![h] = StartOf(r.op, m)]
    /\ UNCHANGED <<answer, todo, reg, monitors, content, stats, crashed>>

(***************************************************************************)
(* lock_sync(mon[h], Aquires(req[h].op, mon[h]))                           *)
(***************************************************************************)
Lock(h) == /\ pc[h] \in {"lock", "relock"}
           /\ ~mux[mon[h]]
           /\ mux' = [mux EXCEPT ![mon[h]] = TRUE]
           /\ Goto(h, "check")
           /\ UNCHANGED <<request, reg, counter, broken, content, stats, crashed>>

\* The test of the loop. Who did not aquire the monitor acts on it later, whatever
\* the counter is by then.
MustWait(h) == /\ pc[h] = "check"
               /\ counter[mon[h]] <= 0
               /\ Goto(h, "sleep")
               /\ UNCHANGED <<request, reg, monitors, content, stats, crashed>>

\* pthread_cond_wait: the mutex is free and h is a waiter in one step.
Sleep(h) == /\ pc[h] = "sleep"
            /\ mux' = [mux EXCEPT ![mon[h]] = FALSE]
            /\ broken' = IF Aquires(req[h].op, mon[h]) THEN broken ELSE broken \cup {mon[h]}
            /\ Goto(h, "wait")
            /\ UNCHANGED <<request, reg, counter, content, stats, crashed>>

SpuriousWake(h) == /\ pc[h] = "wait"
                   /\ Goto(h, "relock")
                   /\ UNCHANGED <<request, reg, monitors, content, stats, crashed>>

Pass(h) == /\ pc[h] = "check"
           /\ counter[mon[h]] > 0
           /\ Goto(h, IF Aquires(req[h].op, mon[h]) THEN "dec"
                                                    ELSE Section(req[h].op, mon[h]))
           /\ UNCHANGED <<request, reg, monitors, content, stats, crashed>>

\* counter--
LoadDec(h) == /\ pc[h] = "dec"
              /\ reg' = [reg EXCEPT ![h] = counter[mon[h]]]
              /\ Goto(h, "decst")
              /\ UNCHANGED <<request, monitors, content, stats, crashed>>

StoreDec(h) == /\ pc[h] = "decst"
               /\ counter' = [counter EXCEPT ![mon[h]] = Pred32(reg[h])]
               /\ reg' = [reg EXCEPT ![h] = 0]
               /\ Goto(h, Section(req[h].op, mon[h]))
               /\ UNCHANGED <<request, mux, broken, content, stats, crashed>>

(***************************************************************************)
(* release(mon[h])                                                         *)
(***************************************************************************)
\* counter++
LoadInc(h) == /\ pc[h] = "inc"
              /\ reg' = [reg EXCEPT ![h] = counter[mon[h]]]
              /\ Goto(h, "incst")
              /\ UNCHANGED <<request, monitors, content, stats, crashed>>

StoreInc(h) == /\ pc[h] = "incst"
               /\ counter' = [counter EXCEPT ![mon[h]] = Succ32(reg[h])]
               /\ reg' = [reg EXCEPT ![h] = 0]
               /\ Goto(h, "signal")
               /\ UNCHANGED <<request, mux, broken, content, stats, crashed>>

Waiters(m) == {h \in Handlers : pc[h] = "wait" /\ mon[h] = m}

SignalNobody(h) == /\ pc[h] = "signal"
                   /\ Waiters(mon[h]) = {}
                   /\ Goto(h, "unlock")
                   /\ UNCHANGED <<request, reg, monitors, content, stats, crashed>>

SignalWaiter(h) == /\ pc[h] = "signal"
                   /\ \E w \in Waiters(mon[h]) :
                        pc' = [pc EXCEPT ![w] = "relock", ![h] = "unlock"]
                   /\ UNCHANGED <<mon, request, reg, monitors, content, stats, crashed>>

Unlock(h) == /\ pc[h] = "unlock"
             /\ mux' = [mux EXCEPT ![mon[h]] = FALSE]
             /\ \/ mon[h] = "table" /\ GotoStats(h)
                \/ mon[h] = "stats" /\ Goto(h, IF req[h].op = "GETTABLE" THEN "copy"
                                                                         ELSE "reply")
             /\ UNCHANGED <<request, reg, counter, broken, content, stats, crashed>>

(***************************************************************************)
(* What invoke does between lock_sync and release.                         *)
(***************************************************************************)
\* The contents that an access of h may work on.
Seen(h) == IF Clean(h) THEN {table} ELSE Tables

\* The accesses a write by h overlaps may see anything from then on.
Tearing(h) == torn' = (torn \ {h}) \cup {g \in Handlers \ {h} : Accessing(g)}

\* table_put, table_remove; a torn one may leave anything behind.
WriteTable(h) ==
    /\ pc[h] = "crit" /\ Writes(req[h])
    /\ \E t \in Seen(h) :
         answer' = [answer EXCEPT ![h] = Reply(req[h], t)]
    /\ table' \in IF Clean(h) THEN {Effect(req[h], table)} ELSE Tables
    /\ Tearing(h)
    /\ Release(h)
    /\ UNCHANGED <<req, todo, reg, monitors, stats, crashed>>

\* table_get, table_size, table_get_keys; of GETTABLE only the keys are read.
ReadTable(h) ==
    /\ pc[h] = "crit" /\ ~Writes(req[h])
    /\ \E t \in Seen(h) :
         IF req[h].op = "GETTABLE"
         THEN /\ todo'   = [todo   EXCEPT ![h] = Present(t)]
              /\ answer' = [answer EXCEPT ![h] = <<"entries", [k \in {} |-> NoValue]>>]
         ELSE /\ answer' = [answer EXCEPT ![h] = Reply(req[h], t)]
              /\ UNCHANGED todo
    /\ torn' = torn \ {h}
    /\ GotoStats(h)
    /\ broken' = IF req[h].op = "GET" THEN broken \cup {"stats"} ELSE broken
    /\ UNCHANGED <<req, reg, mux, counter, table, stats, crashed>>

\* increment_operations
LoadOps(h) == /\ pc[h] = "ops"
              /\ reg' = [reg EXCEPT ![h] = total_operations]
              /\ Goto(h, "opsst")
              /\ UNCHANGED <<request, monitors, content, stats, crashed>>

StoreOps(h) == /\ pc[h] = "opsst"
               /\ total_operations' = Succ32(reg[h])
               /\ reg' = [reg EXCEPT ![h] = 0]
               /\ Goto(h, "time")
               /\ UNCHANGED <<request, monitors, content, total_time, executed, crashed>>

\* update_time; the interval of every operation is one unit.
LoadTime(h) == /\ pc[h] = "time"
               /\ reg' = [reg EXCEPT ![h] = total_time]
               /\ Goto(h, "timest")
               /\ UNCHANGED <<request, monitors, content, stats, crashed>>

StoreTime(h) == /\ pc[h] = "timest"
                /\ total_time' = Succ32(reg[h])
                /\ executed'   = Succ32(executed)
                /\ reg' = [reg EXCEPT ![h] = 0]
                /\ Release(h)
                /\ UNCHANGED <<request, monitors, content, total_operations, crashed>>

\* STATS copies one field after the other.
ReadOps(h) == /\ pc[h] = "read"
              /\ reg' = [reg EXCEPT ![h] = total_operations]
              /\ Goto(h, "readtime")
              /\ UNCHANGED <<request, monitors, content, stats, crashed>>

ReadTime(h) == /\ pc[h] = "readtime"
               /\ answer' = [answer EXCEPT ![h] = <<"stats", reg[h], total_time>>]
               /\ reg' = [reg EXCEPT ![h] = 0]
               /\ Goto(h, "reply")
               /\ UNCHANGED <<req, todo, monitors, content, stats, crashed>>

(***************************************************************************)
(* The loop of GETTABLE, after the stats: a table_get for every key found, *)
(* whose result is used without a test that stops.                         *)
(***************************************************************************)
CopyEntry(h) ==
    /\ pc[h] = "copy"
    /\ \E k \in todo[h], t \in Seen(h) :
         /\ t[k] # NoValue
         /\ LET copied == answer[h][2]
            IN answer' = [answer EXCEPT ![h] =
                            <<"entries", [x \in DOMAIN copied \cup {k} |->
                                            IF x = k THEN t[k] ELSE copied[x]]>>]
         /\ todo' = [todo EXCEPT ![h] = @ \ {k}]
    /\ torn' = torn \ {h}
    /\ UNCHANGED <<control, req, reg, monitors, table, stats, crashed>>

EndCopy(h) == /\ pc[h] = "copy"
              /\ todo[h] = {}
              /\ torn' = torn \ {h}
              /\ Goto(h, "reply")
              /\ UNCHANGED <<request, reg, monitors, table, stats, crashed>>

\* An access in the middle of a write, or the NULL of a key deleted meanwhile.
Crash(h) == /\ \/ Accessing(h) /\ ~Clean(h)
               \/ pc[h] = "copy" /\ \E k \in todo[h] : table[k] = NoValue
            /\ crashed' = TRUE
            /\ UNCHANGED <<control, request, reg, monitors, content, stats>>

\* invoke returns and the handler sends its answer.
Return(h) == /\ pc[h] = "reply"
             /\ Goto(h, "idle")
             /\ req'    = [req    EXCEPT ![h] = NoRequest]
             /\ answer' = [answer EXCEPT ![h] = NoAnswer]
             /\ UNCHANGED <<todo, reg, monitors, content, stats, crashed>>

-----------------------------------------------------------------------------
\* What h does without waiting for a client or for luck.
Step(h) == \/ Lock(h) \/ MustWait(h) \/ Sleep(h) \/ Pass(h) \/ LoadDec(h) \/ StoreDec(h)
           \/ LoadInc(h) \/ StoreInc(h) \/ SignalNobody(h) \/ SignalWaiter(h) \/ Unlock(h)
           \/ WriteTable(h) \/ ReadTable(h) \/ CopyEntry(h) \/ EndCopy(h)
           \/ LoadOps(h) \/ StoreOps(h) \/ LoadTime(h) \/ StoreTime(h)
           \/ ReadOps(h) \/ ReadTime(h) \/ Return(h)

Next == /\ ~crashed
        /\ \E h \in Handlers : Step(h) \/ Receive(h) \/ SpuriousWake(h) \/ Crash(h)

Spec == Init /\ [][Next]_vars

\* The scheduler runs every thread that can run; nothing more is assumed: no
\* client must send, nobody wakes by luck and a mutex may pass a thread over.
FairSpec == Spec /\ \A h \in Handlers : WF_vars(~crashed /\ Step(h))
-----------------------------------------------------------------------------
\* What GETTABLE may have copied so far.
Copies == UNION {[S -> Values] : S \in SUBSET Keys}

Answers == {<<"ok">>, <<"bad">>, <<"error">>}
             \cup ({"value"} \X Values)
             \cup ({"result"} \X Nat)
             \cup ({"keys"} \X SUBSET Keys)
             \cup ({"entries"} \X Copies)
             \cup ({"stats"} \X Int32 \X Int32)

TypeOK == /\ pc  \in [Handlers -> Labels]
          /\ mon \in [Handlers -> Monitors]
          /\ req \in [Handlers -> Requests \cup {NoRequest}]
          /\ \A h \in Handlers : pc[h] # "idle" => req[h] \in Requests
          /\ reg \in [Handlers -> Int32]
          /\ answer \in [Handlers -> {NoAnswer} \cup Answers]
          /\ todo \in [Handlers -> SUBSET Keys]
          /\ mux \in [Monitors -> BOOLEAN]
          /\ counter \in [Monitors -> Int32]
          /\ broken \subseteq Monitors
          /\ table \in Tables
          /\ torn \subseteq Handlers
          /\ total_operations \in Int32 /\ total_time \in Int32 /\ executed \in Int32
          /\ crashed \in BOOLEAN

\* The code that updates the statistics (table_skel.c:131-132).
InSection(h) == pc[h] \in {"ops", "opsst", "time", "timest"}

\* Two handlers are never inside table_put or table_remove (table_skel.c:120-124).
WritersExclusive == \A g, h \in Handlers :
                      Accessing(g) /\ Accessing(h) /\ Writes(req[g]) /\ Writes(req[h]) => g = h

\* They are not as long as no reader had to wait for the table: a reader that finds
\* the counter positive, whatever that is worth to it, does the writers no harm.
TableExclusive == "table" \notin broken => WritersExclusive

\* Two handlers never update the statistics at once (table_skel.c:128-134), as long
\* as no GET has come to them and no STATS had to wait, and whatever the readers
\* did to the table.
StatsExclusive == "stats" \notin broken =>
                    \A g, h \in Handlers : InSection(g) /\ InSection(h) => g = h

\* No handler is ever found asleep on the condition variable of the table: who
\* decrements its counter keeps the mutex until it has incremented it again,
\* so the loop of lock_sync (table_skel.c:64-65) never waits.
NobodySleepsOnTable == \A h \in Handlers : ~(pc[h] \in {"wait", "relock"} /\ mon[h] = "table")

\* No recorded operation is lost: while no handler is updating them the two
\* statistics account for the same operations, all that were recorded
\* (table_skel.c:131-132, stats.c:22-26 and 41-45), with the same exceptions.
StatsConsistent == "stats" \notin broken /\ (\A h \in Handlers : ~InSection(h))
                     => total_operations = executed /\ total_time = executed

\* h uses m and is between lock_sync(m, 1) and the end of release(m).
Holder(h, m) == /\ mon[h] = m
                /\ pc[h] \in {"check", "dec", "decst", "crit", "ops", "opsst",
                             "time", "timest", "inc", "incst", "signal", "unlock"}
                /\ Aquires(req[h].op, m)

\* What keeps monitor m right among those who aquire it: its mutex has one holder,
\* the counter is 0 exactly while that holder works, nobody waits, and what the
\* holder loaded is still what the counter is.
Protected(m) ==
  /\ \A g, h \in Handlers : Holder(g, m) /\ Holder(h, m) => g = h
  /\ mux[m] <=> \E h \in Handlers : Holder(h, m)
  /\ ~mux[m] => counter[m] = 1
  /\ \A h \in Handlers : mon[h] = m =>
       /\ pc[h] \notin {"wait", "relock"}
       /\ pc[h] \in {"sleep", "ops", "opsst", "time", "timest", "inc", "incst", "signal", "unlock"}
            => (Aquires(req[h].op, m) <=> pc[h] # "sleep")
  /\ \A h \in Handlers : Holder(h, m) =>
       /\ counter[m] = IF pc[h] \in {"check", "dec", "decst", "signal", "unlock"} THEN 1 ELSE 0
       /\ pc[h] \in {"decst", "incst"} => reg[h] = counter[m]

\* A monitor stays protected until somebody uses it who did not aquire it: a reader
\* in the wait of lock_sync(m, 0) (table_skel.c:65, 72), or GET with the stats
\* (table_skel.c:158-161). If all its users aquire it, that never happens.
DisciplineProtects == /\ \A m \in Monitors \ broken : Protected(m)
                      /\ \A m \in broken : ~Disciplined(m)

\* While a request is executing, one is answered sooner or later: the handlers
\* never block each other for ever in lock_sync.
SomeoneAnswers == (\E h \in Handlers : pc[h] # "idle") ~> (\E h \in Handlers : pc[h] = "reply")

(***************************************************************************)
(* The refinement: a table operation takes effect in the table's critical  *)
(* section, GETTABLE when its last entry was copied.                       *)
(***************************************************************************)
Abstracted(h) == pc[h] # "idle" /\ req[h].op # "STATS"
Pending(h)    == \/ mon[h] = "table" /\ pc[h] \notin {"inc", "incst", "signal", "unlock"}
                 \/ req[h].op = "GETTABLE" /\ pc[h] # "reply"

AbsPhase  == [h \in Handlers |-> IF ~Abstracted(h) THEN "idle"
                                ELSE IF Pending(h) THEN "called" ELSE "done"]
AbsAsked  == [h \in Handlers |-> IF Abstracted(h) THEN req[h] ELSE NoRequest]
AbsAnswer == [h \in Handlers |-> IF Abstracted(h) /\ ~Pending(h) THEN answer[h] ELSE NoAnswer]

Abstract == INSTANCE AtomicTable
              WITH phase <- AbsPhase, asked <- AbsAsked, answer <- AbsAnswer

\* What a client is answered is what an atomic table would have answered it.
Linearizable == Abstract!Spec
=============================================================================
