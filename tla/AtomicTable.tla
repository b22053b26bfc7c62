----------------------------- MODULE AtomicTable -----------------------------
(***************************************************************************)
(* What the skeleton of table_skel.h promises a client of the server: an   *)
(* operation on the table that a handler thread was asked for takes effect *)
(* at one instant between the request and the answer, and the answer is    *)
(* the one table.h describes for the content of the table at that instant. *)
(***************************************************************************)
EXTENDS TableData

CONSTANTS Handlers,  \* the handler threads, one per connection
          NoRequest, \* what a handler is asked while it waits for a request
          NoAnswer   \* the answer while there is none

VARIABLES table,   \* the content, a member of Tables
          phase,   \* phase[h]: "idle", "called" (asked, no effect yet), "done"
          asked,   \* asked[h]: the request being executed
          answer   \* answer[h]: its answer once it took effect

vars == <<table, phase, asked, answer>>

Init == /\ table  \in Tables
        /\ phase  = [h \in Handlers |-> "idle"]
        /\ asked  = [h \in Handlers |-> NoRequest]
        /\ answer = [h \in Handlers |-> NoAnswer]

Call(h) == /\ phase[h] = "idle"
           /\ phase' = [phase EXCEPT ![h] = "called"]
           /\ \E r \in Requests : /\ r.op # "STATS"
                                  /\ asked' = [asked EXCEPT ![h] = r]
           /\ UNCHANGED <<table, answer>>

Perform(h) == /\ phase[h] = "called"
              /\ phase'  = [phase EXCEPT ![h] = "done"]
              /\ table'  = Effect(asked[h], table)
              /\ answer' = [answer EXCEPT ![h] = Reply(asked[h], table)]
              /\ UNCHANGED asked

Return(h) == /\ phase[h] = "done"
             /\ phase'  = [phase  EXCEPT ![h] = "idle"]
             /\ asked'  = [asked  EXCEPT ![h] = NoRequest]
             /\ answer' = [answer EXCEPT ![h] = NoAnswer]
             /\ UNCHANGED table

Next == \E h \in Handlers : Call(h) \/ Perform(h) \/ Return(h)

Spec == Init /\ [][Next]_vars
=============================================================================
