# A verification of the hash table server and its client

The repository is a replicated key-value store written in C: a hash table
library (`DataStructures`), a server that keeps one such table in memory and
serves it over TCP with a thread per connection, a chain of such servers whose
order is kept in ZooKeeper, and a command line client that writes to one end of
the chain and reads from the other (`Server_and_Client`). This directory models
it in TLA+, checks the models with TLC and proves theorems about them with
TLAPS. Paths below are relative to the repository.

1. [Inventory](#1-inventory)
2. [Plan](#2-plan)
3. [The skeleton](#3-the-skeleton)
4. [The chain](#4-the-chain)
5. [The hash table library](#5-the-hash-table-library)
6. [Connections and messages](#6-connections-and-messages)
7. [The client](#7-the-client)
8. [The proofs](#8-the-proofs)
9. [Where code and documents disagree](#9-where-code-and-documents-disagree)
10. [What is not modelled](#10-what-is-not-modelled)
11. [Running it](#11-running-it)

## 1. Inventory

| Component | State | Operations | Hard parts | What makes it correct |
|---|---|---|---|---|
| Skeleton: `table_skel.c`, `stats.c` | two monitors (mutex, condition variable, counter), the table, the statistics | `invoke` for PUT, GET, DEL, SIZE, GETKEYS, GETTABLE, STATS; `lock_sync`, `release` | every handler thread runs it; readers do not lock; a wait on a mutex that is not held; statistics updated with and without the lock | writes exclude each other; answers are those of an atomic table; no statistics are lost; nobody blocks for ever |
| Forwarding: `client_handler`, `rtable_put`, `rtable_del`, `network_send_receive` | `next_server`, the connections, the tables of all servers | apply, forward, answer | handlers share one connection; answers are never read; forwarding is not one step with applying | servers apply the same changes in the same order; when all is quiet they agree |
| Connections: `network_server.c`, `table_server.c` | listening socket, handler threads, `connected_clients`, the shared table | accept, receive, send, disconnect, shut down | who frees the table and when; counting clients down once; 16 bit sizes | no thread uses what another freed; the count is that of the connections |
| Chain membership: `create_current_znode`, `network_server_init`, `setTable`, `child_watcher` | znode, `children_list`, `next_server` | join, copy the table, follow the changes, leave | events run in ZooKeeper's thread beside main and handlers, on one `children_list` without a lock; a server may end at any time | `next_server` becomes the successor; a joining server starts with its predecessor's table |
| Network client: `network_client.c` | a socket | connect, `network_send_receive`, close | partial reads and writes; the answer is never read (section 9) | a message arrives whole; the answer is the request's |
| Client stub: `client_stub.c` | none of its own | the `rtable_*` calls | what a failed exchange means | the result says what happened |
| Client: `table_client.c` | two `rtable_t`, the list of servers | the commands; a watcher that reconnects | the watcher frees what the main thread uses; addresses cut to the length of another | reads go to the tail, writes to the head |
| Hash table library: `DataStructures/src/{table,list,entry,data}.c` | an array of ordered, doubly linked lists | create, put, get, remove, size, get_keys, destroy | links at head, middle and end; empty buckets; ownership of keys and values | it implements a map |
| Serialisation: `serialization.c` | none | `keyArray_to_buffer`, `buffer_to_keyArray` | offsets | one is the inverse of the other |
| Table of the server: `Server_and_Client/obj/{table,list,entry,data}.o` | as the library | as the library | only object code is in the repository; known through `include/table.h` and its uses | as the library |
| Generated code: `sdmessage.pb-c.c` | none | pack, unpack | trusted | |

How they interact. `table_server.c` creates the table, initialises the network
server (which joins the chain), copies the table of the previous server and
enters the accept loop. For each connection a handler thread receives a
message, calls `invoke` on the shared table, forwards a PUT or DEL that
succeeded to `next_server` through the client stub, and answers. ZooKeeper's
own thread runs `child_watcher`, which replaces `next_server` while handlers
use it. The client does the same in `table_client.c`, with a connection to the
first server for writing and one to the last for reading.

Every hazard, at its line, is in `PROJECT.json` with the properties that cover
it, or why none does.

## 2. Plan

Order of work, the most important behaviour first. The modules above the line
are done.

| Module | Models | Composes, abstracts | Checked and proved |
|---|---|---|---|
| `TableSkel` | `invoke` under concurrency | implements `AtomicTable`; data in `TableData` | sections 3 and 8 |
| `ChainForward` | forwarding along the chain | takes `invoke` as one step, as `TableSkel` justifies where it does; implements `ReplicatedTable` | sections 4 and 8 |
| `ChainMembership` | joining, watching, leaving, ZooKeeper | | sections 4 and 8 |
| `SortedList`, `HashTable` | linked lists on a heap of nodes; the buckets | `Dictionary`, as the header has it and as the code keeps it | sections 5 and 8 |
| `Serialization`, `KeyArrays` | keys to a buffer and back, as operators | on the keys `HashTable` returns | sections 5 and 8 |
| `NetworkServer` | accept loop, life of handlers and descriptors, count of clients, shut down | of `invoke` only what it does to the monitor of the statistics | sections 6 and 8 |
| `Framing` | the bytes of a call on one connection, both ends | one connection of `NetworkServer` or `ChainForward` | sections 6 and 8 |
| `TableClient` | the command loop against ZooKeeper's thread | the ends of the chain as in `ChainMembership` | sections 7 and 8 |
| --- | | | |
| `ChangingChain` | `ChainForward` under `ChainMembership`: changes forwarded while servers join and end | composes the two | which copies agree after a server joined or left, as far as the code makes any |

All modules take their sets as CONSTANTS with named assumptions, have one action
per operation or per step that other threads can see, and use no RECURSIVE
operator where something is proved.

## 3. The skeleton

### Model

`TableData` defines the requests, what each does to the content of the table
(`Effect`), whether it changed something (`Changes`) and the answer (`Reply`).
The request of each call of the client stub has the stub's name: `rtable_put(k, v)`,
`rtable_get(k)`, `rtable_del(k)`, `rtable_size`, `rtable_get_keys`, `rtable_get_table`,
`rtable_stats`. Keys, values and messages are opaque. `AtomicTable` is the promise of
`invoke` (`table_skel.h:22-26`): a request is called, takes effect at one
moment between call and answer, and is answered with what the table held then.

`TableSkel` is `invoke` step by step for any set of handlers:

| Code | TLA+ |
|---|---|
| `table_mux`, `stats_mux` | `mux[m]`, locked or not |
| `table_counter`, `stats_counter` | `counter[m]`, an int of width `IntMax` |
| the two condition variables | handlers at `"wait"`; `SpuriousWake` as POSIX allows |
| `lock_sync(m, 1)` | `Lock`, `MustWait`, `Sleep`, `Pass`, `LoadDec`, `StoreDec` |
| `lock_sync(m, 0)` | `MustWait`, `Sleep` and `Pass` only, without the mutex: the counter is tested in one step and waited for in another |
| `release(m)` | `LoadInc`, `StoreInc`, `SignalNobody` or `SignalWaiter`, `Unlock` |
| `x++` and `x--` on shared variables | a load into `reg[h]` and a store: another thread may come between |
| `table_put`, `table_remove`, `table_get`, ... | one step at `"crit"` (`WriteTable`, `ReadTable`), together with `Accessing`, `Clean`, `torn`: a call that overlaps a write sees any content or ends the process (`Crash`) |
| `increment_operations`, `update_time` | `LoadOps`, `StoreOps`, `LoadTime`, `StoreTime` |
| the two fields STATS reads one after the other | `ReadOps`, `ReadTime` |
| the copy loop of GETTABLE | `CopyEntry` per key, `EndCopy` |

A `pthread_cond_wait` on a mutex the caller does not hold, and an unlock by who
does not hold it, are what glibc's default mutex does: the mutex becomes free,
and who wakes up holds it. There are two ghost variables: `executed`, the number of
operations, and `broken`, the monitors that somebody used without having acquired
them: a reader that had to wait for one, or a GET that came to the statistics. The functions
of `table.h` are external: the server links object files whose source is not
here, and the library of `DataStructures` is not it (its `table_put` fails on a
replacement, the linked one does not).

Left out: `malloc` failures and other errors of an operation (`table_skel.c:136-138`),
unknown opcodes, the other user of the stats monitor (`change_connected`: section 6),
the number of connected clients that STATS also reads, and the amounts of time (each
operation takes one unit).

### Runs

| Run | Instance | Shows |
|---|---|---|
| `SkelWriters` | 3 handlers, PUT and DEL, 1 key | writes of the table exclude each other, what a monitor protects stays protected, somebody always answers, and it implements `AtomicTable` |
| `SkelRecorders` | 2 handlers, all operations, 1 key | until a GET comes to the statistics or a STATS has to wait for them their updates exclude each other and lose nothing, whatever the readers of the table do; and what a monitor protects stays protected until it is used without having been acquired |
| `SkelTwoWriters` | violation, section 9 | |

`StatsConsistent` relates the statistics to what was executed; `DisciplineProtects`
is the invariant behind the rest: *a monitor that is not `broken`* has one holder, its
counter is 0 exactly while that holder works, and nobody sleeps on it; and only
operations that the code lets use a monitor without acquiring it ever break one. It says
so for each monitor whatever happens to the other. (That nobody waits on the
table's condition variable when no client reads is `NobodySleepsOnTable`, which
is proved for any handlers in section 8.)

What is said of a monitor ends when it is broken: the code then does lose updates and
block for ever, and no property pretends otherwise. That the steps which break one are
there, and that they really let two writers in, is what `SkelTwoWriters` shows.

Bounds. `IntMax` is 1 to 3 instead of 2^31 - 1: it wraps after two to four
increments, which is more than enough to meet the wrap-around. Three handlers are
needed for one to hold a monitor, one to wait and one to come in between; in
`SkelRecorders` one reader that breaks a monitor and one that it belongs to are enough.
There is no bound on the number of requests in `SkelWriters`. In `SkelRecorders` the
constraint `OneWorks` ends a behaviour when both monitors are broken, since nothing
is claimed of it then, and after `IntMax` operations once that of the
statistics is. Handlers are interchangeable, so `SkelRecorders`, which has no temporal
property, uses symmetry.

`CHECK_DEADLOCK FALSE`: in the instances with readers all handlers can end up
blocked for ever (a SIZE that was woken keeps the mutex, section 9), and after `Crash`
nothing moves. In `SkelWriters` that nobody blocks is checked by
`SomeoneAnswers`.

Fairness. `FairSpec` has weak fairness of each handler's own steps: a thread
that can run is run. There is none on `Receive` (a client need not send) nor on
`SpuriousWake`. There is no strong fairness on the mutexes, since pthread
mutexes are not fair, so `SomeoneAnswers` promises that *someone* is answered
and not everyone.

## 4. The chain

### Model

`ReplicatedTable` is the promise: a history of changes made at the first server,
a number of them applied by each server, never more than by the one before, and
the table each has after those. `ChainForward` is the code:

| Code | TLA+ |
|---|---|
| a handler thread of `client_handler` | `pc[h]`, `req[h]`; server 1 has one per client, server s > 1 one, for server s - 1 |
| the bytes in a connection | `wire[h]`, a sequence of pieces, each the size or the body of a message |
| answers in a connection | `unread[h]`, their number: nobody reads them |
| `rtable_put`, `rtable_del` of a client | `Call`, which returns without an answer (`network_client.c:144`) |
| `network_receive` and `invoke` | `Invoke`, one step, for a readable message |
| `network_receive` of bytes that are no message | `End`: the handler leaves its loop and destroys the table (`network_server.c:531`) |
| the two `write_all` of `network_send_receive` | `ForwardSize`, `ForwardBody`, on the one socket of `next_server` |
| `network_send` | `Answer`, blocked when `Room` answers are unread |

Pieces of different handlers may be mixed. `Receives` says what the receiver
makes of them. A size followed by a size is the interesting case: the second
size is then taken for the beginning of the first body. protobuf-c takes those
two bytes for a field it does not know, so that the message is read if exactly
its body follows, and the handler ends otherwise; which of the two happens
depends on lengths that are abstracted, so both can.

`applied` is a ghost: the requests that changed each table, each with the table
it found. All servers begin with empty tables. (A server that finds a
predecessor and is connected to ZooKeeper asks it for its table, gets no answer
and ends, so a chain of several servers forms only with servers that skip that
step: see `setTable` below.) `Invoke` is one step, which
`TableSkel` justifies for a server whose clients put and delete.

### Runs

| Run | Instance | Shows |
|---|---|---|
| `ChainOneClient` | 3 servers, 1 client, 2 keys, 2 values, 3 calls | each server has applied a prefix of its predecessor's changes, quiet servers have the same table, every change reaches the last server, and the chain implements `ReplicatedTable` |
| `ChainOwnKeys` | 2 servers, 2 clients with a key each, 2 calls | although messages are mixed and handlers end, each key keeps one order along the chain: its n-th change is the same request on the same value at every server |
| `ChainSameKey` | violation, section 9 | |

Bounds. `MaxCalls` bounds the calls of a client; 3 calls on 3 servers are enough
for one change to be on each connection at once and one to be overtaken.
`Room`, the number of answers that fit in a connection, is 2 with 3 calls in
`ChainOneClient`: the third answer does not fit, so handlers do block there, but
only after they forwarded. In the code it is thousands of answers; a fourth call
would never be read (section 9). What is written but not
read is not bounded: `write_all` is assumed not to block.

`CHECK_DEADLOCK FALSE`: a chain whose clients have made their calls stops, as
does one whose handlers are blocked or ended.

Fairness. `FairSpec` has weak fairness of each handler until the table is
destroyed: a runnable thread is run. Clients need not call.

### Membership

`ChainMembership` is how servers find their successors. Server s is the s-th
process to create a znode, and a restarted server is a new one, as ZooKeeper's
sequence numbers make it.

| Code | TLA+ |
|---|---|
| the children of `/chain` | `nodes` |
| a watch of `zoo_wget_children`, which reports one change | `watch[s]`; `events[s]` counts the reports not yet taken up |
| `zoo_create` of the server's znode | `CreateNode`; then three seconds of sleep |
| the three listings of the main thread | `AskMain`, `StoreMain`, `SortMain`; `node_id` is set after the first (`SetNodeId`), the third is left out without a connection (`NotConnected`) |
| `setTable` | ends the process if it finds a predecessor and `is_connected` is set, since `rtable_get_table` returns NULL; serves otherwise |
| `child_watcher` | `TakeEvent` (the question), `StoreWatcher`, `SortWatcher`, then the walk (`FindNext`, `FindNobody`, or `SearchNothing` without a `node_id`), `GetAddress` (`zoo_get`), `Reconnect` |
| `zoo_wget_children(..., children_list)` | a question (`Ask`), which ZooKeeper answers with the children of that moment and a watch, and later the answer in `children_list` (`Store`), in any order of the children |
| `server_shutdown`, `exit`, a crash | `Leave`; ZooKeeper removes the znode later, `Expire` |

`is_connected` is set by a callback at any time, so `setTable` may find either
value. A `zoo_get` of a node that is gone leaves the buffer without an
address, and the connection fails (what an earlier call left on the stack was
cut at the colon by `strtok`).

`children_list` is one global variable, and nothing keeps `child_watcher`, in
ZooKeeper's thread, from listing, sorting and walking it while main lists and sorts it
too. The ghost `heard` says whether this has happened to a server: `"mixed"` when
one of the two threads asks while the other is between its question and its last use of the
list. From then on `children_list` is `Undefined`: the older of two answers may
have replaced the newer one, the list may be unsorted while it is walked, and the memory
it points to may have been replaced during the walk. `child_watcher` then finds any
server, or none, or its own node more than once, and `next_server` is `Undefined` as well.
A server is
`"mending"` while `child_watcher` runs again without main, and `"alone"` when
it has finished. `ForwardsToLater`, `ListIsCurrent` and `HeardConnected` except
the servers that are `"mixed"` or `"mending"`, because what they promise is false of those
in the code; `ChainHeals` says that who is mending gets its successor. Nothing mends a
server when no further event comes.

| Run | Instance | Shows |
|---|---|---|
| `ChainMembership` | 4 servers, of which the second runs its threads step by step while the others come and go | it knows the current children once it took up its events, forwards to later servers only, and in a settled chain is connected to its successor if its `child_watcher` ran, and the last time without a listing of main; this heals when nobody comes or goes |

`Watched` bounds the instance: a server has nothing to do with the threads of another, only
with its znode and with whether it still listens, so one that runs its threads among
others that create their znodes, end and expire meets every behaviour of the chain; the
theorems hold for any number of servers that all run. Four servers are one before it and two
after: its successor may end between the listing and the connection, with another
to take its place, and three reports may wait at once.
Fairness: in a process some thread runs if one can, sessions of ended processes expire;
nobody must start or end a server. That is less than the system gives, each thread its
turns, and enough: nothing here repeats for ever except a walk of a list that main
overwrites, which no property promises to end. `CHECK_DEADLOCK FALSE`: once all have ended nothing happens.

## 5. The hash table library

### Model

`SortedList` has the list functions as operators on a heap of nodes, each node
with the entry it owns. `HashTable` is the program that uses a table from one
thread: a call begins, walks a list node by node (`StartWalk`, `Advance`), has
its effect and returns. `Dictionary` is a map with the calls of `table.h`. Two of its
answers are parameters: with `Replaced` 0 and `NullKeys` FALSE it is what the header
promises (`table.h:20-52`), with -1 and TRUE what the code keeps of it.

| Code | TLA+ |
|---|---|
| `table->lists` | `lists[b]`, `NoList` until the first put into bucket b |
| `malloc` and `free` of a node and its entry | a node that is or becomes `Free` |
| `entry_compare` (`strcmp`) | the order of the keys, which are numbers |
| `hash_code` | `Sum[k] % N`, the sum of the characters of the key's name |
| the loops of `list_add` and `getNode` | `node`, `i`; `Stops`, `PastEnd` |
| linking and unlinking | `Place`, `Substitute`, `Unlink` |
| `list_destroy`, `table_destroy` | `FreeNode`, `NextBucket`, `EndDestroy` |

`list_add` allocates its node before its loop and the model where it links it:
nothing is allocated or freed in between. With i = 0 it does not touch the node
before the first, and there is none (`SortedLists`). The loops' test of i is
not in the actions: `LoopInBounds` shows it always holds where they test it.

### Runs

| Run | Instance | Shows |
|---|---|---|
| `HashTable` | 4 keys in 2 buckets (3 and 1), 2 values, 4 nodes, any sequence of calls, failing allocations | the lists stay sorted and linked both ways, no loop leaves its list, destroying frees every node, the keys of every answer survive serialisation, and the table is a `Dictionary` but for those two answers (`ImplementsDictionary`) |
| `HashTablePromise` | violation, section 9; no allocation fails | |

Three keys in a bucket give a first, a last and one in between; four nodes are
as many as the keys, so the memory runs out as well. The keys are the strings a,
ab, b and ba: one is the beginning of another, and two have the same sum. Nodes
and values are interchangeable (symmetry).

`Serialization` has the two functions of `serialization.c` on sequences of bytes, and
`KeyArrays` puts them after `HashTable`: `Names` are the bytes of each key.
`RoundTrip` is about the array of keys of each state in which `table_get_keys`
has returned one, in the order in which the buckets and their lists had them:
the buffer is as long as the memory that was allocated for it, and reading it back
gives the same keys in the same order. It asks that an `int` holds the size: beyond
`INT_MAX` bytes `total_len` overflows, which C leaves undefined, and the numbers of the
model are not those of the code.

## 6. Connections and messages

### Connections of a server

`NetworkServer` is the accept loop of `network_main_loop` in the main thread
beside one thread per connection:

| Code | TLA+ |
|---|---|
| `accept` | `Accept`, which gives the descriptor the system chooses, or fails |
| `change_connected(1)`, `change_connected(-1)` | `CountBegin` and `CountEnd`, `UncountBegin` and `UncountEnd`: a read and a write in the stats monitor |
| `malloc` of the arguments, `pthread_create` | `ArgsFail`, `Create`; `targs[h]` is the descriptor in them |
| the monitor of the statistics | `monitor`, who has it; `Aquire` |
| the body of `client_handler` | `Start`; `Receive` or `ReceiveFails`; `Serve`; after the loop `UncountBegin`, `UncountEnd`, `CloseAgain`, `Destroy` |
| `invoke` of PUT, DEL, SIZE, GETKEYS, GETTABLE | `Record`, `Recorded`: the section in the monitor |
| GET, which releases the monitor without having acquired it | `Get`, which sets `misused` |
| STATS | `Stats`, or `StatsWaits` and `StatsWakes` when the monitor is taken: the wait frees the mutex under its holder and keeps it afterwards (`table_skel.c:281`, `:71-72`), and sets `misused` |
| forwarding, the answer, and their failures | `Forward`; `ValueFails`, where the thread ends still counted and with its descriptor open (`network_server.c:495-498`); `Answer`; `ServeFails` |
| `connected_clients--` at lines 487 and 518 | `StrayRead` and `StrayWrite`, outside the monitor, which set the ghost `strayed` |
| a descriptor | a number; `sock[f]` is the connection behind it, which a later accept may replace |
| `table_skel_destroy`, `free` of what was freed | `Destroy`: the table is destroyed for all; the process may end there, or at any later `Serve` |
| SIGINT, `exit` | `ShutDown`, `Exit`, `Interrupt` |

| Run | Instance | Shows |
|---|---|---|
| `NetworkServer` | 2 connections, 2 descriptors | until a GET, a STATS that waits, or a handler that counts itself down outside the monitor, the count is exact (`CountExact`); only the second `close` of a descriptor takes a connection from its handler (`LostToSecondClose`); until the first two of these main always comes back to `accept`, and a handler whose client broke the connection gets out of its loop, is counted down and ends |

After `misused` the monitor of the model excludes nobody and may be had by nobody, as in
the code: its counter and its mutex do not agree any more. The details of how are in
`TableSkel`. So one GET is enough to lose updates of the count, and one STATS
that meets a connection being counted may stop main in `change_connected` for ever;
the three properties that rest on the monitor except both.

Two connections are enough for main and a handler to change the count at once, for
two handlers to leave at once, and for the second connection to be given the
descriptor of the first while its handler has yet to close it again; the theorems
hold for any number. Fairness: each thread that can run does, in what is its own:
a client need neither connect, send nor break its connection, and `invoke`, forwarding
and sending need not return. A thread that wants the monitor gets it if it is free
again and again (strong fairness of `CountBegin` and `UncountBegin`), as long as it
has not been misused: its sections are a few instructions, and with the mutex alone,
which is not fair, a stream of recorded operations could keep it from a thread for ever.
`CHECK_DEADLOCK FALSE`: the process may end.

### Messages on a connection

`Framing` is one connection and the two threads at its ends, byte by byte: the
caller in `network_send_receive`, the handler in `network_receive` and
`network_send`.

| Code | TLA+ |
|---|---|
| the two calls of `write_all` | `Write`, one byte; `WriteFails`; `Pack` between them |
| `malloc` of the second buffer | `PackFails`, after the size was written |
| `write_all` returning 0 | `Return`: the call fails and its answer stays unread |
| `recv` of two bytes for the size | `ReceiveSize`; `ReceiveHalf` when one has come |
| `receive_all` | `Receive`, one byte; `ReceiveFails`; `InvokeCut` when it returned 0 in the middle |
| `message_t__unpack`, `invoke` | `Invoke` of the message whose bytes these are, or of `Garbled` or nothing at all; `Answer` when `invoke` and forwarding return, if they do, or `malloc` fails there and the thread ends |
| `send_all` | `Send`, one byte; `SendFails`; `Sent` |
| the end of the caller's process, or a new `next_server` | `End` |

A byte is known by its message and place, and the handler does not look: `SizeOf`
gives what the two bytes hold of the packed size if they are those of one size, and any
size otherwise. The packed size is put into a `short` (`network_client.c:126`), and
read as an unsigned one, so they hold it modulo `Width` (65536 in the code). `Fits(m)`
says that no message up to m is too long for that.

| Run | Instance | Shows |
|---|---|---|
| `Framing` | 3 calls, messages of 1, 3 and 5 bytes, sizes modulo 4, answers of 3 and 4, room for 4 bytes there and 7 back | up to the first message that is too long for its size, what is invoked is what was sent, whole, in order and once, but for a last message cut off by the end of its caller (`InOrder`); if `invoke` returns, a call returns and its message arrives, unless the handler is stuck, left after half a size, or a size did not hold; the handler of a caller that ended leaves, unless it was never sent an answer |

What the liveness properties except is what the code does: an answer nobody reads blocks
the handler and then the caller; `recv` may return half a size, and the handler leaves
(`network_server.c:602`); after a caller that ended in good order it calls `recv` for
ever (`:598`). They assume `InvokeReturns`: a handler may wait for ever for a monitor
that somebody kept (section 3), or for the next server, and its caller then in `write_all`.

The room there is less than two messages with their sizes, so a write has to wait
in every place; the room back takes one answer or two but never three, so the handler
gets stuck in the instance as it does in the code after some thousands. Three calls
are enough for one to be invoked, one under way and one that blocks. Fairness:
both threads run; nobody has to call or end. `CHECK_DEADLOCK FALSE`: callers make
`Calls` calls, and a stuck handler stays so.

## 7. The client

`TableClient` is `table_client.c` down to the descriptors: the main thread, which
reads commands and calls a server, and ZooKeeper's, which runs `child_watcher`.
Both run `get_read_write_servers`.

| Code | TLA+ |
|---|---|
| the chain in ZooKeeper | `nodes`, `up`; `Join`, `Leave`, `Expire` |
| `zoo_wget_children` | `List(t)`, `Watch`; one event for each watch |
| the two `zoo_get` | `Get(t, r)`: the length that the first leaves is the room of the second, a node that is gone leaves nothing |
| `rtable_disconnect` | `Close(t, r)`: closes and frees; undefined for what is freed |
| `rtable_connect` | `Host`, where `strtok` begins with the address, and `Port`, where it goes on with the string of whoever began last; the lowest free descriptor |
| the command loop | `Watch`, `Parse`, `Key` |
| a call of the stub | `Call` takes the pointer, `Open` reads the descriptor in it, `Write` the two writes |
| quit, SIGINT, `exit(1)`, a crash | `Ends` |

Nothing in the code keeps the two threads apart. Three races are named in the ghost
`upset`: `"overlap"` (both are in `get_read_write_servers`, which is possible while
main starts), `"strtok"` (one used what the other began), `"freed"` (a call read
its descriptor in memory that `rtable_disconnect` had freed). After them nearly anything may happen, and
the model says so; each property excepts those of them that can break it: `Follows` and
`CatchesUp` the first two, `WritesApart` the first and the last, `NoneLost` the first.

| Run | Instance | Shows |
|---|---|---|
| `TableClient` | 2 servers, the second with a longer address, 3 descriptors | with all changes taken up the client writes to the first server and reads from the last (`Follows`), and gets there (`CatchesUp`), but for a last server whose address was cut off; a call writes to the connection of its own kind or to a closed one, although it may be replaced between any two steps (`WritesApart`); no descriptor is lost (`NoneLost`) |

Two servers give a chain with one and with different ends, and each change of it once
another is being taken up; three descriptors are one more than there are
connections. Fairness: ZooKeeper's thread runs, and main until it is in its loop,
where it may wait for a command for ever. `CHECK_DEADLOCK FALSE`: the client may
end.

## 8. The proofs

All theorems hold for any number of handlers, servers, keys, values, calls, and
any width of int.

`TableSkelProofs` (from `SkelAssumption`, `DataAssumption`):

- `TypeCorrect`: the type invariant, with the places a handler can be at
  for its request and monitor (`Placement`).
- `Protection`: `[]DisciplineProtects`. `Protected(m)` is inductive together with
  the types while m is not `broken`, for each monitor by itself: `mux[m]` is TRUE iff some
  handler holds it, the counter is 1, or 0 between the store of `StoreDec` and that of
  `StoreInc`, and a value loaded for a decrement or increment is still the
  counter's. The last part is what an invariant made of exclusion alone lacks.
- `TableExclusion` (until a reader has to wait for the table), `StatsExclusion` (until
  a GET comes to the statistics or a STATS has to wait), `NobodySleeps` (clients that do
  not read the table): consequences of it.
- `StatsCounted`: adds that the statistics lag behind `executed` exactly by what
  the one handler in the section has yet to store, until the statistics' monitor is broken.
- `Refinement`: `Spec => Linearizable` for clients without readers of the table:
  `WriteTable` is `Perform` and every other step a call, a return or a stutter.
  It needs that no write is ever torn.
- `ReadersRefinement`: the same for clients that only read, where it is GETTABLE that
  has to be shown atomic: until its last entry is copied it holds exactly the entries
  of the table that it has not yet to copy (`Copied`). Both theorems use
  one lemma on a step, `RefinesStep`, from an invariant they have in common
  (`Undisturbed`): no access is overlapped by a write. With PUT and
  a reader of the table it fails (`SkelTwoWriters`).

`ChainForwardProofs` (from `ChainAssumption`), for a chain of any length:

- `TypeCorrect`, for any clients.
- `Order`: `[]SameOrder`, and `Implements`: `Spec => Replicates`, for one client.
- `OrderPerKey`: `[]SameOrderPerKey`, and `SameTables`: `[]Converged`, for any number of
  clients of which no two write one key (`DisjointKeys`; one client, for instance).

With one client the invariant is `Pipeline(c)`. `Links(c)`: what is on the way between
two neighbours is exactly what the second has yet to apply, whole messages except
for one begun; so the receiver reads its predecessor's next change and never a
mixed message. `History`: each table a server found is what its previous change
left. `Copies`: every later server has a prefix of every earlier one's changes
and the table the earlier one had at that point; stated for all pairs and not
for neighbours, which makes it inductive without an induction over the chain.

With several clients messages are mixed and may even be read in the place of others, so
nothing like `Links` holds for a connection as a whole. It holds for each key by itself
(`KeyPipeline`). The changes of a key at a server, and the pieces about it on the way
to the next one, are numbered by counting (`Upto`); `KeyHistory` and
`KeyCopy` say of the numbered changes what `History` and `Copies` say of all. `KeyLink` says
that the pieces about the key are, in order, the sizes and bodies of the changes the next
server has yet to apply, where the first size may be missing: the receiver took
it for the size of another message, whose own size it took for the beginning of the
body. The body left behind then can never be read whole, and `lost` is what accounts for it.
Two facts keep this inductive: a client's requests are about its own keys
(`Owned`), so that at the first server at most one handler forwards a change of a key
(`AloneIfOwned`), and at the others there is one handler only.

With two clients and one key all four are false: see `ChainSameKey`.

`ChainMembershipProofs` (from `MembershipAssumption`): `TypeCorrect`, `Forward`
(`[]ForwardsToLater`), `NoChangeLost` (`[]ListIsCurrent`), `Connected`
(`[]HeardConnected`), whichever servers are watched. The invariant `Informed(s)` has five
parts for each server. `Reported`: how many reports may be waiting or to come, by how
often main has asked (`Asked`), and that without a waiting one there is a watch.
`Threaded`: what the places of the two threads exclude, above all that
`child_watcher` runs without a listing of main unless the server is `"mixed"`.
`Knows`: what a thread was told, stored and sorted is the children there are as long as no
report waits, which a change of the nodes turns into a waiting report. `Finds`: its own
node is in the list it walks, which is sorted, so that what comes beside it is the
successor (`BesideIsSuccessor`). `Follows`: what `next_server` is afterwards. `OthersKeep`
and `ChangeInforms` are about the steps of other servers and of the chain, and one lemma
is about each step of the server itself. That a successor exists when there is a later node is the least
number principle, derived from the well-foundedness of strict subset, since the
library's own statement of it takes an operator.

`HashTableProofs` (from `HashTableAssumption` and, for the refinement, `NoneAssumption`,
for any number of buckets, keys, values
and nodes): `TypeCorrect`, `Sorted` (`[]SortedLists`), `Loops` (`[]LoopInBounds`),
`Frees` (`[]NothingLeaks`), `ActsAsDictionary` (`Spec => ImplementsDictionary`, the map with the
answers the code gives; what the header promises instead is violated, section 9). The nodes of a bucket are treated as the *set* of those
whose key belongs there, so that no induction along the links is needed:
`Ordered(h, M)` says of each node of M that its next is the node of M with the next
larger key and its previous the one with the next smaller, or Null at an end.
`PlaceOrdered`, `UnlinkOrdered` and `SubstituteOrdered` show that the three changes
of `list.c` keep that; `Neighbours`, that links in both directions then agree. The
invariant adds where a loop is (`Walking`: it has counted the smaller keys, all
smaller than the key of a put) and what `table_destroy` has left (`Destroying`).
`OneBucket` carries a change of one list over to the table.

The refinement has to follow the links all the same, since what can be found is what
a walk from the head meets. `AllNumbers` is induction over numbers for a *set* of
them, derived from the well-foundedness of strict subset, since the library's own takes an
operator; `Iteration` shows from it that a function defined by recursion exists. So
`WalkMeets`: the j-th step of a walk is at the member with j smaller keys, and each member
is met. Then what `Found` computes by walking is the value of the one node with the key
(`FoundStored`), the sum of the sizes is the number of nodes (`SizeTaken`), and the
concatenated keys are those of all nodes, each once (`KeysListed`). With that a
step only has to say what happens to single nodes (`SameEntries`): a node comes,
goes, or takes the place of another with its key (`ShownAdded`, `ShownRemoved`,
`ShownReplaced`). Two invariants are added: `Passed`, that a loop has met no node with the
key of its call, so that a key that is not found is not there, and `Calling`, that there is no
answer before the step that gives it. `NoneAssumption` tells "no table", "no call" and "no
answer" from the values they are not.

`KeysSurvive` (`[]RoundTrip`, from `NamesAssumption` as well: no byte of a key is 0) is about
the data: `WrittenAndRead` says of any array of strings whose size an `int` holds what
`RoundTrip` says. `Writing` shows that the buffer exists part by part, one key after the
other; what is written once stays (`PartStays`), so behind each part the string
that is found ends at the terminator written there and is the key (`StringRead`), the
offsets of the reader are the lengths of the parts (`KeysRead`) and the size that is
counted is the length of the last (`SizeCounted`). The first four bytes are the number of keys, in
network order (`IntRead`).

`NetworkServerProofs` (from `ServerAssumption`, for any number of connections and
descriptors): `TypeCorrect`, `Count` (`[]CountExact`), `OwnConnection`
(`[]LostToSecondClose`). The count's invariant says, until the monitor is misused or somebody
counts himself down outside it, who is in the monitor, recording or counting, and that
what it has read is still the count; the other that connections get numbers in
order and that a descriptor with the connection of a later handler was closed by
the earlier one.

`FramingProofs` (from `FramingAssumption`, for any number of calls, any sizes, any `Width`
and any room): `TypeCorrect`, `Order` (`[]InOrder`). While the two ends are in step
(`InStep`) what is received, what is on the wire and what is yet to be written are
together exactly the bytes of the messages not yet invoked, in order; it ends in
`CutOff` or `Gone`, in which at most one more message is invoked, or with the first message
that does not fit its size, of which and after which nothing is claimed.

`TableClientProofs` (from `ClientAssumption`, for any number of servers and
descriptors): `TypeCorrect`, `Lossless` (`[]NoneLost`), `OwnKind` (`[]WritesApart`),
`Followed` (`[]Follows`). `Sockets` says that, while the threads do not meet, the
connection to write with has the lowest descriptor there is and that to read with the
second (`Kept`): each is closed before it is opened again, the one to write with
first, and `socket` takes the lowest that is free (`Taken`). This is why a command
that goes on with an old descriptor meets a new connection of its own kind, which
neither `NoneLost` nor `WritesApart` says by itself. `Informed` relates, when nothing is
to be taken up, the list, the addresses and the connections at each step of
`get_read_write_servers` to the chain as it is.

Model-checked only: the liveness properties (`SomeoneAnswers`, `Propagates`,
`ChainHeals`, `AcceptsAgain`, `BrokenLeave`, `CallReturns`, `Arrives`, `EndedLeft`,
`CatchesUp`), which are out of the prover's reach. Every invariant and action property
that a passing run checks is stated by a theorem. `ReadersRefinement` is proved only: no run has
clients that just read.

## 9. Where code and documents disagree

Each is a run in which TLC finds the property violated.

| Run | Behaviour |
|---|---|
| `SkelTwoWriters` | SIZE waits in `lock_sync(1, 0)` on a mutex that a PUT holds: the wait frees it, and two more PUTs are in `table_put` together (`table_skel.c:65`) |
| `HashTablePromise` | `table_put` returns -1 when it replaced a value, where `table.h:25` promises 0 (`table.c:83`) |
| `ChainSameKey` | two handlers apply their changes in one order and forward them in the other: the copies differ for ever (`network_server.c:509`) |

Known and not kept as a run:

- Calls. `write_all` returns 0 when it succeeded and `network_send_receive` takes
  `a <= 0` for a failure (`network_client.c:144`), so no call ever returns an answer;
  the answers nobody reads fill the connection and block the handler that sends
  them. When `malloc` fails after the size was written (`:136`) the next message is
  read from the wrong place. Sizes have 16 bits (`network_client.c:126`,
  `network_server.c:606`): of a longer message a part is read, and the rest taken for
  other sizes and messages.
- The skeleton. A SIZE that was woken in `lock_sync` keeps the mutex, and the next
  PUT never returns. GET updates the statistics without the monitor and releases
  it without having acquired it (`table_skel.c:157-161`), so that `stats_counter`
  grows with each GET and overflows after 2^31 - 1; STATS reads two statistics of different
  operations (`:281-285`); SIZE, GET and GETKEYS read the table while it is written
  (`:151-153`, `:213-215`), which is what `torn` in the model is for. A key that is
  removed between `table_get_keys` and `table_get` of GETTABLE gives a NULL that the
  error branch goes on with (`:337-347`): `Crash`.
- The server. Two handlers mix size and body on the socket of the next server,
  whose handler ends and destroys the one table of all. A handler that leaves by a
  failed `invoke` or answer counts itself down twice, once outside the monitor
  (`network_server.c:487`, `:518`, `:524`), and closes its descriptor twice; one whose `malloc` fails at `:495` ends
  counted and with its connection open. A GET frees the monitor that `change_connected`
  relies on, and a STATS that had to wait keeps it (section 6). A client that
  closes its connection in good order leaves a handler that calls `recv` for ever
  (`:598`).
- The chain. Two servers whose starts are less than the three seconds of sleep
  apart: the first lists a chain that has the second already, gets no event about
  it and never connects to it (`network_server.c:73-79`). The listings of main and
  `child_watcher` may meet in `children_list` (`:200-218`, `:368-390`, section 4).
- The library. A bucket whose last key was removed makes `table_get_keys` return NULL, whatever
  the others hold (`table.c:152`, `list.c:213`).
- The client. Its two threads share two connections and `strtok` without a lock
  (section 7); the address of the last server is cut to the length of the first
  one's (`table_client.c:62`).

## 10. What is not modelled

- The tables of a chain that changes: `ChainForward` has a chain that stays,
  `ChainMembership` and `TableClient` have servers without tables. A server that joins
  gets no table (`setTable` asks for it and never gets the answer), and nothing is sent again
  when a successor ends, so a joint model would have little to promise.
- What follows a successful `network_send_receive` in the client stub and in
  `setTable`: it is never reached.
- Threads of one server that use `next_server` while `child_watcher` replaces it. (The
  same code and the same race are in `TableClient`.)
- ZooKeeper: sessions that are interrupted and errors other than a missing node.
- The library: errors for NULL arguments, `entry_dup` and `entry_replace`, which nothing calls,
  characters outside ASCII, whose sum may be negative, and entries that are leaked when a
  put fails.
- The skeleton: unknown opcodes, failing allocations, amounts of time.
- For good: generated code and the wire format of messages beyond size and body,
  printing, argument parsing, build files and binaries. The object files the server
  links are modelled as far as `invoke` sees them.

Out of reach of the prover, and left to TLC: liveness under fairness.

## 11. Running it

| Module | Configurations |
|---|---|
| `MCTableSkel` | `SkelWriters`, `SkelRecorders`, `SkelTwoWriters` |
| `MCChainForward` | `ChainOneClient`, `ChainOwnKeys`, `ChainSameKey` |
| `ChainMembership`, `NetworkServer`, `Framing`, `TableClient` | the one of the same name |
| `MCHashTable` | `HashTable`, `HashTablePromise` |

    tlc -workers 2 -config SkelWriters.cfg MCTableSkel.tla
    tlapm TableSkelProofs.tla

The modules with proofs are `TableDataProofs`, `TableSkelProofs`,
`ChainForwardProofs`, `ChainMembershipProofs`, `HashTableProofs`,
`NetworkServerProofs`, `FramingProofs` and `TableClientProofs`. The longest run takes about a minute and a
half, and the longest of the proofs (`HashTableProofs`), from nothing, four minutes. `PROJECT.json` lists
components, runs, mutants, the map from definitions to lines, hazards and theorems.
A mutant replaces one definition by another given beside it, and shows that its
property can fail.
