------------------------------ MODULE HashTable ------------------------------
(***************************************************************************)
(* The hash table of DataStructures/src/table.c over the lists of list.c,  *)
(* used by one thread. A call that walks a list makes one step per node.   *)
(***************************************************************************)
EXTENDS SortedList, Sequences

CONSTANTS N,       \* the argument of table_create
          Sum,     \* the sum of the characters of each key (ASCII: none is negative)
          MallocFails, \* whether malloc may fail while there is free memory
          NoTable, NoList, NoCall, NoAnswer,
          NoValue  \* the NULL that table_get and table_get_keys return

ASSUME HashTableAssumption ==
    /\ Keys \subseteq Int /\ IsFiniteSet(Nodes) /\ IsFiniteSet(Keys)
    /\ N \in Nat \ {0} /\ MallocFails \in BOOLEAN
    /\ Sum \in [Keys -> Nat]
    /\ Null \notin Nodes /\ Free \notin node_t
    /\ NoList \notin list_t /\ NoTable \notin [0..N-1 -> list_t \cup {NoList}]

VARIABLES lists, \* table->lists, NoTable when there is no table
          heap,
          call,  \* the call the program is in
          pc,    \* "idle", "call", "walk", "return" or "destroy"
          node,  \* the node a loop is at: node1 of list_add, cNode of getNode
          i,     \* its counter; the bucket table_destroy is at
          ret    \* what the call returns

vars == <<lists, heap, call, pc, node, i, ret>>

Buckets == 0..N-1

hash_code(k) == Sum[k] % N

Calls == [op : {"put"}, key : Keys, value : Values]
             \cup [op : {"get", "remove"}, key : Keys]
             \cup [op : {"size", "get_keys"}]

\* A table, a call and an answer are told from none.
ASSUME NoneAssumption ==
    /\ NoValue \notin Values /\ NoTable \notin [Keys -> Values \cup {NoValue}]
    /\ NoCall \notin Calls
    /\ NoAnswer \notin Values \cup {NoValue}
    /\ NoAnswer \notin Int /\ NoAnswer \notin Seq(Keys)

Bucket == hash_code(call.key)

\* The list of the bucket of the call, created by a put that finds none.
List == IF lists[Bucket] = NoList THEN list_create ELSE lists[Bucket]

------------------------------------------------------------------------------
(* The beginning and the end of a call.                                     *)

Init == /\ lists = NoTable
        /\ heap = [n \in Nodes |-> Free]
        /\ call = NoCall /\ pc = "idle" /\ ret = NoAnswer
        /\ node = Null /\ i = 0

table_create == /\ pc = "idle" /\ lists = NoTable
                /\ lists' = [b \in Buckets |-> NoList]
                /\ UNCHANGED <<heap, call, pc, node, i, ret>>

Begin == /\ pc = "idle" /\ lists # NoTable
         /\ call' \in Calls
         /\ pc' = "call"
         /\ UNCHANGED <<lists, heap, node, i, ret>>

\* The call ends its work and is about to return r.
Answer(r) == /\ ret' = r
             /\ pc' = "return"
             /\ node' = Null /\ i' = 0
             /\ UNCHANGED call

Return == /\ pc = "return"
          /\ pc' = "idle" /\ call' = NoCall /\ ret' = NoAnswer
          /\ UNCHANGED <<lists, heap, node, i>>

SetList(size, head) == lists' = [lists EXCEPT ![Bucket] = [size |-> size, head |-> head]]

------------------------------------------------------------------------------
(* The loops of list_add and getNode. They start at the head and end at a   *)
(* node without next; LoopInBounds says their test of i never ends them.    *)

StartWalk == /\ pc = "call" /\ call.op \in {"put", "get", "remove"}
             /\ isEmpty(List) = 0
             /\ call.op = "put" => FreeNodes(heap) # {}
             /\ pc' = "walk" /\ node' = List.head /\ i' = 0
             /\ UNCHANGED <<lists, heap, call, ret>>

\* Mutant: getNode takes the first key that is not smaller.
StopsAtLarger == call.key <= heap[node].key

\* list_add stops at a key that is not smaller than its own, getNode at its own.
Stops == IF call.op = "put" THEN call.key <= heap[node].key
                            ELSE call.key = heap[node].key

\* Mutant: the counter of the loop is not incremented.
AdvanceWithoutCounting == /\ pc = "walk" /\ ~Stops /\ heap[node].next # Null
                          /\ node' = heap[node].next
                          /\ UNCHANGED <<lists, heap, call, pc, i, ret>>

Advance == /\ pc = "walk" /\ ~Stops /\ heap[node].next # Null
           /\ node' = heap[node].next /\ i' = i + 1
           /\ UNCHANGED <<lists, heap, call, pc, ret>>

PastEnd == pc = "walk" /\ ~Stops /\ heap[node].next = Null

------------------------------------------------------------------------------
(* table_put. The node is taken from the heap where it is linked, and not   *)
(* before the loop: nothing else is allocated or freed in between.          *)

\* Some malloc fails, with the list created or not.
PutFails == /\ pc = "call" /\ call.op = "put"
            /\ MallocFails \/ FreeNodes(heap) = {}
            /\ lists' \in {lists, [lists EXCEPT ![Bucket] = List]}
            /\ Answer(-1)
            /\ UNCHANGED heap

AddFirst == /\ pc = "call" /\ call.op = "put" /\ isEmpty(List) # 0
            /\ \E new \in FreeNodes(heap) :
                  /\ heap' = Place(heap, new, call.key, call.value, Null, Null)
                  /\ SetList(1, new)
            /\ Answer(0)

AddBefore == /\ pc = "walk" /\ call.op = "put" /\ call.key < heap[node].key
             /\ \E new \in FreeNodes(heap) :
                   /\ heap' = Place(heap, new, call.key, call.value,
                                    heap[node].previous, node)
                   /\ SetList(List.size + 1, IF i = 0 THEN new ELSE List.head)
             /\ Answer(0)

\* list_add returns 1, which table_put takes for an error.
AddInstead == /\ pc = "walk" /\ call.op = "put" /\ call.key = heap[node].key
              /\ \E new \in FreeNodes(heap) :
                    /\ heap' = Substitute(heap, new, call.key, call.value, node)
                    /\ SetList(List.size, IF i = 0 THEN new ELSE List.head)
              /\ Answer(-1)

AddLast == /\ PastEnd /\ call.op = "put"
           /\ \E new \in FreeNodes(heap) :
                 /\ heap' = Place(heap, new, call.key, call.value, node, Null)
                 /\ SetList(List.size + 1, List.head)
           /\ Answer(0)

table_put == PutFails \/ AddFirst \/ AddBefore \/ AddInstead \/ AddLast

------------------------------------------------------------------------------
(* table_get, table_remove, table_size and table_get_keys.                  *)

Missing == /\ \/ pc = "call" /\ call.op \in {"get", "remove"} /\ isEmpty(List) # 0
              \/ PastEnd /\ call.op # "put"
           /\ Answer(IF call.op = "get" THEN NoValue ELSE 1)
           /\ UNCHANGED <<lists, heap>>

table_get == /\ pc = "walk" /\ call.op = "get" /\ Stops
             /\ Answer(heap[node].value)
             /\ UNCHANGED <<lists, heap>>

table_remove == /\ pc = "walk" /\ call.op = "remove" /\ Stops
                /\ heap' = Unlink(heap, node)
                /\ SetList(List.size - 1, IF node = List.head THEN heap[node].next
                                                              ELSE List.head)
                /\ Answer(0)

\* The lists of the first b buckets, one after the other: their sizes, their keys.
SizeOf == LET size[b \in 0..N] ==
                IF b = 0 THEN 0
                ELSE size[b - 1] + IF lists[b - 1] = NoList THEN 0 ELSE lists[b - 1].size
          IN  size[N]

KeysOf == LET keys[b \in 0..N] ==
                IF b = 0 THEN <<>>
                ELSE keys[b - 1] \o IF lists[b - 1] = NoList THEN <<>>
                                    ELSE list_get_keys(heap, lists[b - 1])
          IN  keys[N]

\* A bucket whose list has become empty: list_get_keys returns NULL for it.
HasEmptyList == \E b \in Buckets : lists[b] # NoList /\ lists[b].head = Null

table_size == /\ pc = "call" /\ call.op = "size"
              /\ Answer(SizeOf)
              /\ UNCHANGED <<lists, heap>>

table_get_keys == /\ pc = "call" /\ call.op = "get_keys"
                  /\ Answer(IF HasEmptyList THEN NoValue ELSE KeysOf)
                  /\ UNCHANGED <<lists, heap>>

------------------------------------------------------------------------------
(* table_destroy: bucket i, and the next node of its list to free.          *)

HeadOf(b) == IF lists[b] = NoList THEN Null ELSE lists[b].head

table_destroy == /\ pc = "idle" /\ lists # NoTable
                 /\ pc' = "destroy" /\ i' = 0 /\ node' = HeadOf(0)
                 /\ UNCHANGED <<lists, heap, call, ret>>

FreeNode == /\ pc = "destroy" /\ node # Null
            /\ node' = heap[node].next
            /\ heap' = [heap EXCEPT ![node] = Free]
            /\ UNCHANGED <<lists, call, pc, i, ret>>

NextBucket == /\ pc = "destroy" /\ node = Null /\ i + 1 < N
              /\ i' = i + 1 /\ node' = HeadOf(i + 1)
              /\ UNCHANGED <<lists, heap, call, pc, ret>>

\* Mutant: the last bucket is left out.
EndDestroyEarly == /\ pc = "destroy" /\ node = Null /\ i + 2 >= N
                   /\ lists' = NoTable /\ pc' = "idle" /\ i' = 0
                   /\ UNCHANGED <<heap, call, node, ret>>

EndDestroy == /\ pc = "destroy" /\ node = Null /\ i + 1 = N
              /\ lists' = NoTable /\ pc' = "idle" /\ i' = 0
              /\ UNCHANGED <<heap, call, node, ret>>

------------------------------------------------------------------------------
Next == \/ table_create \/ Begin \/ Return
        \/ StartWalk \/ Advance
        \/ table_put \/ Missing \/ table_get \/ table_remove
        \/ table_size \/ table_get_keys
        \/ table_destroy \/ FreeNode \/ NextBucket \/ EndDestroy

Spec == Init /\ [][Next]_vars

------------------------------------------------------------------------------
(* Properties.                                                              *)

\* Every variable has the type of what it stands for in the code.
TypeInvariant == /\ lists \in [Buckets -> list_t \cup {NoList}] \cup {NoTable}
                 /\ heap \in Heaps
                 /\ call \in Calls \cup {NoCall}
                 /\ pc \in {"idle", "call", "walk", "return", "destroy"}
                 /\ node \in Pointers /\ i \in Nat

\* The nodes a bucket owns: all that are allocated, by the bucket of their key.
Members(b) == {n \in Nodes : heap[n] # Free /\ hash_code(heap[n].key) = b}

\* Node q comes right after node p among the members of bucket b.
Follows(b, p, q) == /\ heap[p].key < heap[q].key
                    /\ \A n \in Members(b) : ~ (/\ heap[p].key < heap[n].key
                                                /\ heap[n].key < heap[q].key)

\* The links of list.c: the head of each list is its smallest key, the
\* next and previous of each node are the nodes with the next larger and
\* the next smaller key, Null at the ends, and the size is their number
\* (list.c:92-148, 166-177), after any sequence of puts, replacements and removals.
SortedLists ==
    lists # NoTable /\ pc # "destroy" =>
        \A b \in Buckets :
            IF lists[b] = NoList THEN Members(b) = {}
            ELSE /\ lists[b].size = Cardinality(Members(b))
                 /\ IF Members(b) = {} THEN lists[b].head = Null
                    ELSE /\ lists[b].head \in Members(b)
                         /\ heap[lists[b].head].previous = Null
                 /\ \A n \in Members(b) :
                       /\ heap[n].next = Null \/ /\ heap[n].next \in Members(b)
                                                 /\ Follows(b, n, heap[n].next)
                                                 /\ heap[heap[n].next].previous = n
                       /\ heap[n].previous = Null => n = lists[b].head
                       /\ heap[n].previous # Null =>
                             /\ heap[n].previous \in Members(b)
                             /\ heap[heap[n].previous].next = n

\* Where a loop is: at a member of the list with i smaller ones before it, all
\* of them smaller than the key of a put. So i < size holds whenever a loop
\* tests it (list.c:87, 284), and no loop reads a freed node.
LoopInBounds ==
    pc = "walk" =>
        /\ node \in Members(Bucket)
        /\ i = Cardinality({n \in Members(Bucket) : heap[n].key < heap[node].key})
        /\ i < lists[Bucket].size

\* table_destroy frees every node (table.h:17): without a table none is
\* allocated, whatever was put, replaced and removed before, and it frees none
\* twice.
NothingLeaks == /\ lists = NoTable => \A n \in Nodes : heap[n] = Free
                /\ pc = "destroy" /\ node # Null => heap[node] # Free

\* What a loop over the list of k's bucket finds for k.
Found(k) == LET b == hash_code(k)
                at(j) == heap[Walk(heap, lists[b])[j]]
                places == IF lists[b] = NoList THEN {}
                          ELSE {j \in 0..(lists[b].size - 1) : at(j).key = k}
            IN  IF places = {} THEN NoValue ELSE at(CHOOSE j \in places : TRUE).value

AbsTable == IF lists = NoTable \/ pc = "destroy" THEN NoTable
            ELSE [k \in Keys |-> Found(k)]

\* What table.h:20-52 promises, and what the library keeps of it.
Promised == INSTANCE Dictionary WITH table <- AbsTable, Replaced <- 0,  NullKeys <- FALSE
Observed == INSTANCE Dictionary WITH table <- AbsTable, Replaced <- -1, NullKeys <- TRUE

\* The library keeps the promise of its header: a put that replaces a value returns 0
\* (table.h:23-25), and who asks for the keys gets them (table.h:47-50).
KeepsItsPromise == Promised!Spec

\* It does not, but this much holds: each call has its effect on what can be found, and
\* its answer, at one of its steps, and no other step changes either; a replacement is
\* made and answered with -1 (table.c:83), and the keys are those of the table or NULL
\* (table.c:152).
ImplementsDictionary == Observed!Spec
=============================================================================
