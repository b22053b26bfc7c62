------------------------- MODULE ChainForwardProofs -------------------------
(***************************************************************************)
(* Proofs about ChainForward, for any length of the chain, any keys and    *)
(* any number of calls.  With one client the servers apply the same        *)
(* changes in the same order, and the chain implements ReplicatedTable.    *)
(* With any number of clients that write different keys the changes of     *)
(* each key arrive in order, and the tables become equal.                  *)
(***************************************************************************)
EXTENDS ChainForward, TableDataProofs, SequenceTheorems, FiniteSetTheorems, TLAPS

\* The table of server s before its change number n + 1.
At(s, n) == IF n < Len(applied[s]) THEN applied[s][n + 1].on ELSE table[s]

\* What a server has applied leads from each table it found to the next.
History == \A s \in Servers : \A i \in 1 .. Len(applied[s]) :
              /\ Changes(applied[s][i].req, applied[s][i].on)
              /\ At(s, i) = Effect(applied[s][i].req, applied[s][i].on)

\* Server t is a copy of an earlier state of server s.
Copy(s, t) == /\ Len(applied[t]) <= Len(applied[s])
              /\ \A i \in 1 .. Len(applied[t]) : applied[t][i] = applied[s][i]
              /\ table[t] = At(s, Len(applied[t]))

Copies == \A s, t \in Servers : s <= t => Copy(s, t)

\* The only handler of server s that writes to the next one, if c is the client.
Writer(c, s) == IF s = 1 THEN c ELSE s

Odd(n) == n % 2 = 1
Piece(i, r) == IF Odd(i) THEN Size(r) ELSE Body(r)

\* How many messages n pieces begin.
Begun(n) == (n + 1) \div 2

\* What is on its way from server s to the next one is exactly what the next
\* one has not applied, whole messages except for a last one begun.
Link(c, s) ==
  /\ Len(applied[s]) = Len(applied[s + 1]) + Begun(Len(wire[s + 1]))
                         + (IF pc[Writer(c, s)] = "size" THEN 1 ELSE 0)
  /\ pc[Writer(c, s)] = "body" <=> Odd(Len(wire[s + 1]))
  /\ \A i \in 1 .. Len(wire[s + 1]) :
        wire[s + 1][i] = Piece(i, applied[s][Len(applied[s + 1]) + Begun(i)].req)
  /\ pc[Writer(c, s)] \in {"size", "body"} =>
        req[Writer(c, s)] = applied[s][Len(applied[s])].req

Links(c) == \A s \in 1 .. N - 1 : Link(c, s)

Pipeline(c) == TypeOK /\ History /\ Copies /\ Links(c)

-----------------------------------------------------------------------------
(* Typing.                                                                 *)

LEMMA HomeType == /\ 1 \in Servers /\ Servers \subseteq Nat
                  /\ \A h \in Handlers : Home(h) \in Servers
                  /\ \A h \in Handlers : Home(h) < N => Home(h) + 1 \in Handlers \cap Servers
BY ChainAssumption DEF Servers, Handlers, Home

LEMMA EffectUnlessChanges ==
  ASSUME NEW r \in Requests, NEW t \in Tables, ~Changes(r, t)
  PROVE  Effect(r, t) = t
BY RequestType DEF Effect, Changes, Writes, Tables

LEMMA MessageType ==
  ASSUME NEW r \in Requests
  PROVE  Message(r) \in Seq(Frames) /\ Size(r) \in Frames /\ Body(r) \in Frames
BY DEF Message, Size, Body, Frames

LEMMA TypeInit == Init => TypeOK
<1> SUFFICES ASSUME Init PROVE TypeOK
  OBVIOUS
<1>1. [k \in Keys |-> NoValue] \in Tables
  BY DEF Tables
<1>2. /\ <<>> \in Seq(Frames) /\ <<>> \in Seq(Writings)
      /\ 0 \in 0 .. Room /\ 0 \in 0 .. MaxCalls
  BY ChainAssumption
<1> QED BY <1>1, <1>2 DEF Init, TypeOK

\* What Invoke does, and the types of what it leaves.
Invokes(h, r, n) ==
  LET s == Home(h)
  IN /\ Receives(h, r, n)
     /\ wire'  = [wire EXCEPT ![h] = SubSeq(@, n + 1, Len(@))]
     /\ req'   = [req EXCEPT ![h] = r]
     /\ table' = [table EXCEPT ![s] = Effect(r, @)]
     /\ applied' = IF Changes(r, table[s])
                   THEN [applied EXCEPT ![s] = Append(@, [req |-> r, on |-> table[s]])]
                   ELSE applied
     /\ pc' = [pc EXCEPT ![h] = IF Forwards(h, r) THEN "size" ELSE "reply"]

LEMMA InvokeParts ==
  ASSUME NEW h \in Handlers, Invoke(h)
  PROVE  /\ pc[h] = "receive"
         /\ \E r \in Requests, n \in 2 .. 3 : Invokes(h, r, n)
         /\ UNCHANGED <<unread, calls, ended>>
BY DEF Invoke, Invokes, Goto

LEMMA SubSeqType ==
  ASSUME NEW S, NEW w \in Seq(S), NEW n \in Nat
  PROVE  SubSeq(w, n + 1, Len(w)) \in Seq(S)
<1>1. \A i \in n + 1 .. Len(w) : w[i] \in S
  BY LenProperties
<1> QED BY <1>1, LenProperties, SubSeqProperties

LEMMA TypeStep == TypeOK /\ [Next]_vars => TypeOK'
<1> SUFFICES ASSUME TypeOK, [Next]_vars PROVE TypeOK'
  OBVIOUS
<1>1. ASSUME NEW c \in Clients, Call(c) PROVE TypeOK'
  <2>1. PICK r \in Requests : wire' = [wire EXCEPT ![c] = @ \o Message(r)]
    BY <1>1 DEF Call
  <2>2. wire[c] \o Message(r) \in Seq(Frames)
    BY MessageType, ConcatProperties DEF TypeOK, Handlers
  <2>3. wire' \in [Handlers -> Seq(Frames)]
    BY <2>1, <2>2 DEF TypeOK
  <2>4. calls' \in [Clients -> 0 .. MaxCalls]
    BY <1>1, ChainAssumption DEF Call, TypeOK
  <2> QED BY <1>1, <2>3, <2>4 DEF Call, TypeOK
<1>2. ASSUME NEW h \in Handlers, Invoke(h) PROVE TypeOK'
  <2>1. PICK r \in Requests, n \in 2 .. 3 : Invokes(h, r, n)
    BY <1>2, InvokeParts
  <2>2. wire' \in [Handlers -> Seq(Frames)]
    BY <2>1, SubSeqType DEF Invokes, TypeOK
  <2>3. table' \in [Servers -> Tables]
    BY <2>1, EffectType, HomeType DEF Invokes, TypeOK
  <2>4. applied' \in [Servers -> Seq(Writings)]
    <3>1. [req |-> r, on |-> table[Home(h)]] \in Writings
      BY HomeType DEF Writings, TypeOK
    <3> QED BY <2>1, <3>1, AppendProperties, HomeType DEF Invokes, TypeOK
  <2> QED BY <1>2, <2>1, <2>2, <2>3, <2>4, InvokeParts DEF Invokes, TypeOK, Forwards
<1>3. ASSUME NEW h \in Handlers, ForwardSize(h) PROVE TypeOK'
  <2>1. Append(wire[Home(h) + 1], Size(req[h])) \in Seq(Frames)
    BY <1>3, MessageType, AppendProperties, HomeType DEF ForwardSize, TypeOK
  <2> QED BY <1>3, <2>1, HomeType DEF ForwardSize, WriteNext, Goto, TypeOK
<1>4. ASSUME NEW h \in Handlers, ForwardBody(h) PROVE TypeOK'
  <2>1. Append(wire[Home(h) + 1], Body(req[h])) \in Seq(Frames)
    BY <1>4, MessageType, AppendProperties, HomeType DEF ForwardBody, TypeOK
  <2> QED BY <1>4, <2>1, HomeType DEF ForwardBody, WriteNext, Goto, TypeOK
<1>5. ASSUME NEW h \in Handlers, Answer(h) PROVE TypeOK'
  BY <1>5, ChainAssumption DEF Answer, Send, Goto, TypeOK
<1>6. ASSUME NEW h \in Handlers, End(h) PROVE TypeOK'
  BY <1>6 DEF End, TypeOK
<1>7. CASE UNCHANGED vars
  BY <1>7 DEF vars, TypeOK
<1> QED BY <1>1, <1>2, <1>3, <1>4, <1>5, <1>6, <1>7 DEF Next, Handle

\* Every variable keeps its type: in particular a handler that forwards has a
\* successor and a request, and no connection holds more answers than fit.
THEOREM TypeCorrect == Spec => []TypeOK
<1> QED BY TypeInit, TypeStep, PTL DEF Spec

-----------------------------------------------------------------------------
(* What holds when a server applies one more change.                       *)

LEMMA AppliedType ==
  ASSUME TypeOK, NEW s \in Servers
  PROVE  /\ applied[s] \in Seq(Writings) /\ Len(applied[s]) \in Nat
         /\ \A i \in 1 .. Len(applied[s]) : /\ applied[s][i] \in Writings
                                            /\ applied[s][i].req \in Requests
                                            /\ applied[s][i].on \in Tables
         /\ table[s] \in Tables
<1>1. applied[s] \in Seq(Writings) /\ table[s] \in Tables
  BY DEF TypeOK
<1>2. \A w \in Writings : w.req \in Requests /\ w.on \in Tables
  BY DEF Writings
<1> QED BY <1>1, <1>2, LenProperties

\* Server s applies request r, which is what the server before it applied next.
Grows(s, r) ==
  /\ Changes(r, table[s])
  /\ applied' = [applied EXCEPT ![s] = Append(@, [req |-> r, on |-> table[s]])]
  /\ table'   = [table EXCEPT ![s] = Effect(r, @)]
  /\ s > 1 => /\ Len(applied[s]) < Len(applied[s - 1])
              /\ applied[s - 1][Len(applied[s]) + 1] = [req |-> r, on |-> table[s]]

\* How what was applied and the tables then differ from before.
Grown(s, r) ==
  /\ Len(applied'[s]) = Len(applied[s]) + 1
  /\ \A i \in 1 .. Len(applied[s]) : applied'[s][i] = applied[s][i]
  /\ applied'[s][Len(applied[s]) + 1] = [req |-> r, on |-> table[s]]
  /\ table'[s] = Effect(r, table[s])
  /\ \A t \in Servers \ {s} : applied'[t] = applied[t] /\ table'[t] = table[t]

LEMMA GrownSequence ==
  ASSUME TypeOK, NEW s \in Servers, NEW r \in Requests, Grows(s, r)
  PROVE  Grown(s, r)
<1>1. [req |-> r, on |-> table[s]] \in Writings
  BY AppliedType DEF Writings
<1> QED BY <1>1, AppendProperties, AppliedType DEF Grows, Grown, TypeOK

LEMMA GrowHistory ==
  ASSUME TypeOK, History, NEW s \in Servers, NEW r \in Requests, Grows(s, r)
  PROVE  History'
<1> DEFINE n == Len(applied[s])
<1>0. Grown(s, r)
  BY GrownSequence
<1>1. n \in Nat
  BY AppliedType
<1> SUFFICES ASSUME NEW a \in Servers, NEW i \in 1 .. Len(applied'[a])
             PROVE  /\ Changes(applied'[a][i].req, applied'[a][i].on)
                    /\ At(a, i)' = Effect(applied'[a][i].req, applied'[a][i].on)
  BY DEF History
<1>2. CASE a # s
  BY <1>0, <1>2 DEF Grown, History, At
<1>3. CASE a = s /\ i = n + 1
  BY <1>0, <1>3, <1>1 DEF Grown, At, Grows
<1>4. CASE a = s /\ i \in 1 .. n - 1
  <2>1. /\ i \in 1 .. n /\ i + 1 \in 1 .. n /\ i < n /\ i < n + 1
        /\ Len(applied'[s]) = n + 1
    BY <1>0, <1>1, <1>4 DEF Grown
  <2>2. applied'[s][i] = applied[s][i] /\ applied'[s][i + 1] = applied[s][i + 1]
    BY <1>0, <2>1 DEF Grown
  <2>3. At(s, i)' = At(s, i)
    BY <2>1, <2>2 DEF At
  <2> QED BY <1>4, <2>1, <2>2, <2>3 DEF History
<1>5. CASE a = s /\ i = n
  BY <1>0, <1>5, <1>1 DEF Grown, At, History
<1> QED BY <1>0, <1>1, <1>2, <1>3, <1>4, <1>5 DEF Grown

LEMMA GrowCopies ==
  ASSUME TypeOK, History, Copies, NEW s \in Servers, NEW r \in Requests, Grows(s, r)
  PROVE  Copies'
<1> DEFINE n == Len(applied[s])
<1>0. Grown(s, r)
  BY GrownSequence
<1>1. /\ n \in Nat /\ s \in Nat
      /\ \A t \in Servers : Len(applied[t]) \in Nat /\ t \in Nat /\ t >= 1
  BY AppliedType, HomeType DEF Servers
<1> SUFFICES ASSUME NEW a \in Servers, NEW b \in Servers, a <= b
             PROVE  Copy(a, b)'
  BY DEF Copies
<1>2. Copy(a, b)
  BY DEF Copies
<1>3. CASE a # s /\ b # s
  BY <1>0, <1>2, <1>3 DEF Grown, Copy, At
<1>4. CASE a = s /\ b = s
  <2>1. At(s, Len(applied[s]))' = table'[s]
    BY <1>0, <1>1 DEF Grown, At
  <2> QED BY <1>0, <1>1, <1>4, <2>1 DEF Grown, Copy
<1>5. CASE a = s /\ b # s
  <2> DEFINE m == Len(applied[b])
  <2>1. /\ m \in Nat /\ m <= n /\ table[b] = At(s, m)
        /\ \A i \in 1 .. m : applied[b][i] = applied[s][i]
        /\ applied'[b] = applied[b] /\ table'[b] = table[b]
    BY <1>0, <1>1, <1>2, <1>5 DEF Copy, Grown
  <2>2. At(s, m)' = applied'[s][m + 1].on
    BY <1>0, <1>1, <2>1 DEF Grown, At
  <2>3. CASE m < n
    <3>1. m + 1 \in 1 .. n /\ At(s, m) = applied[s][m + 1].on
      BY <1>1, <2>1, <2>3 DEF At
    <3>2. At(s, m)' = At(s, m)
      BY <1>0, <2>2, <3>1 DEF Grown
    <3> QED BY <1>0, <1>1, <1>5, <2>1, <3>2 DEF Grown, Copy
  <2>4. CASE m = n
    <3>1. At(s, m) = table[s] /\ At(s, m)' = table[s]
      BY <1>0, <1>1, <2>2, <2>4 DEF Grown, At
    <3> QED BY <1>0, <1>1, <1>5, <2>1, <3>1 DEF Grown, Copy
  <2> QED BY <1>1, <2>1, <2>3, <2>4
<1>6. CASE a # s /\ b = s
  <2>1. /\ s > 1 /\ s - 1 \in Servers /\ a <= s - 1 /\ s - 1 \in Nat
    BY <1>1, <1>6, ChainAssumption DEF Servers
  <2>2. Copy(a, s - 1)
    BY <2>1 DEF Copies
  <2>3. /\ n < Len(applied[s - 1])
        /\ applied[s - 1][n + 1] = [req |-> r, on |-> table[s]]
    BY <2>1 DEF Grows
  <2>4. /\ n < Len(applied[a]) /\ n + 1 \in 1 .. Len(applied[s - 1])
        /\ n + 1 \in 1 .. Len(applied[a])
    <3>1. n \in Nat /\ Len(applied[s - 1]) \in Nat /\ Len(applied[a]) \in Nat
      BY <1>1, <2>1
    <3>2. Len(applied[s - 1]) <= Len(applied[a])
      BY <2>2 DEF Copy
    <3> QED BY <2>3, <3>1, <3>2
  <2>5. applied[a][n + 1] = [req |-> r, on |-> table[s]]
    BY <2>2, <2>3, <2>4 DEF Copy
  <2>6. At(a, n + 1) = Effect(r, table[s])
    BY <2>4, <2>5 DEF History
  <2>7. /\ applied'[a] = applied[a] /\ table'[a] = table[a]
        /\ Len(applied'[s]) = n + 1 /\ table'[s] = Effect(r, table[s])
    BY <1>0, <1>6 DEF Grown
  <2>8. table'[s] = At(a, Len(applied[s]))'
    BY <2>6, <2>7 DEF At
  <2>9. \A i \in 1 .. n + 1 : applied'[s][i] = applied[a][i]
    <3> SUFFICES ASSUME NEW i \in 1 .. n + 1 PROVE applied'[s][i] = applied[a][i]
      OBVIOUS
    <3>1. CASE i \in 1 .. n
      BY <1>0, <1>2, <1>6, <3>1 DEF Grown, Copy
    <3>2. CASE i = n + 1
      BY <1>0, <2>5, <3>2 DEF Grown
    <3> QED BY <1>1, <3>1, <3>2
  <2> QED BY <1>1, <1>6, <2>4, <2>7, <2>8, <2>9 DEF Copy
<1> QED BY <1>3, <1>4, <1>5, <1>6

-----------------------------------------------------------------------------
(* The connections between the servers, when there is one client.          *)

LEMMA WriterType ==
  ASSUME NEW c, Clients = {c}
  PROVE  /\ c \notin Servers /\ Home(c) = 1 /\ c \in Handlers
         /\ \A h \in Handlers : h = Writer(c, Home(h))
         /\ \A s \in Servers : Writer(c, s) \in Handlers /\ Home(Writer(c, s)) = s
         /\ \A h \in Handlers : h # c => h \in 2 .. N /\ Home(h) = h
         /\ \A s \in 1 .. N - 1 : s \in Servers /\ s + 1 \in Servers /\ s + 1 \in Handlers
                                  /\ Home(s + 1) = s + 1
BY ChainAssumption DEF Servers, Handlers, Home, Writer

LEMMA BegunType ==
  ASSUME NEW n \in Nat
  PROVE  Begun(n) \in Nat /\ (n >= 1 => Begun(n) >= 1)
BY DEF Begun

LEMMA BegunCount ==
  ASSUME NEW n \in Nat
  PROVE  /\ Begun(n + 2) = Begun(n) + 1 /\ (Odd(n + 2) <=> Odd(n))
         /\ ~Odd(n) => Begun(n + 1) = Begun(n) + 1 /\ Odd(n + 1)
         /\ Odd(n) => Begun(n + 1) = Begun(n) /\ ~Odd(n + 1)
BY DEF Begun, Odd

LEMMA BegunMonotone ==
  ASSUME NEW n \in Nat, NEW i \in 1 .. n
  PROVE  Begun(i) \in Nat /\ 1 <= Begun(i) /\ Begun(i) <= Begun(n)
BY DEF Begun

LEMMA BegunFew == /\ Begun(0) = 0 /\ Begun(1) = 1 /\ Begun(2) = 1
                  /\ ~Odd(0) /\ Odd(1) /\ ~Odd(2)
BY DEF Begun, Odd

LEMMA WireType ==
  ASSUME TypeOK, NEW h \in Handlers
  PROVE  /\ wire[h] \in Seq(Frames) /\ Len(wire[h]) \in Nat
         /\ \A i \in 1 .. Len(wire[h]) : wire[h][i] \in Frames
BY LenProperties DEF TypeOK

\* A link only depends on what its two ends share.
LEMMA LinkFrame ==
  ASSUME NEW c, NEW s,
         applied'[s] = applied[s], applied'[s + 1] = applied[s + 1],
         wire'[s + 1] = wire[s + 1],
         pc'[Writer(c, s)] = pc[Writer(c, s)], req'[Writer(c, s)] = req[Writer(c, s)],
         Link(c, s)
  PROVE  Link(c, s)'
BY DEF Link, Writer

\* The frame and the request that the handler of a server finds first.
LEMMA FirstMessage ==
  ASSUME NEW c, Clients = {c}, Pipeline(c), NEW s \in 1 .. N - 1,
         NEW r \in Requests, NEW n \in 2 .. 3, Receives(s + 1, r, n)
  PROVE  /\ n = 2 /\ Len(wire[s + 1]) >= 2
         /\ r = applied[s][Len(applied[s + 1]) + 1].req
         /\ Len(applied[s + 1]) < Len(applied[s])
<1>1. s \in Servers /\ s + 1 \in Servers /\ s + 1 \in Handlers
  BY WriterType
<1>2. TypeOK /\ Link(c, s)
  BY <1>1 DEF Pipeline, Links
<1>3. /\ Len(applied[s + 1]) \in Nat /\ Len(applied[s]) \in Nat
      /\ Len(wire[s + 1]) \in Nat
      /\ wire[s + 1] \in Seq(Frames) /\ \A i \in 1 .. Len(wire[s + 1]) : wire[s + 1][i] \in Frames
  BY <1>1, <1>2, AppliedType, WireType
<1>4. ASSUME NEW k \in 2 .. 3, Len(wire[s + 1]) >= k
      PROVE  /\ SubSeq(wire[s + 1], 1, k)[1] = wire[s + 1][1]
             /\ SubSeq(wire[s + 1], 1, k)[2] = wire[s + 1][2]
  <2>1. \A i \in 1 .. k : wire[s + 1][i] \in Frames
    BY <1>3, <1>4
  <2> QED BY <2>1, SubSeqProperties
<1>5. n = 2 /\ Len(wire[s + 1]) >= 2 /\ wire[s + 1][1] = Size(r)
  <2>1. CASE n = 2 /\ Starts(s + 1, Message(r))
    <3>1. Len(wire[s + 1]) >= 2 /\ SubSeq(wire[s + 1], 1, 2) = <<Size(r), Body(r)>>
      BY <2>1 DEF Starts, Message
    <3>2. SubSeq(wire[s + 1], 1, 2)[1] = wire[s + 1][1]
      BY <3>1, <1>4
    <3>3. wire[s + 1][1] = Size(r)
      <4>1. <<Size(r), Body(r)>>[1] = Size(r)
        OBVIOUS
      <4> QED BY <3>1, <3>2, <4>1, Zenon
    <3> QED BY <2>1, <3>1, <3>3
  <2>2. ASSUME NEW q \in Requests, Starts(s + 1, <<Size(q), Size(r), Body(r)>>) PROVE FALSE
    <3>1. /\ Len(wire[s + 1]) >= 3
          /\ SubSeq(wire[s + 1], 1, 3) = <<Size(q), Size(r), Body(r)>>
      BY <2>2 DEF Starts
    <3>2. SubSeq(wire[s + 1], 1, 3)[2] = wire[s + 1][2]
      BY <3>1, <1>4
    <3>5. wire[s + 1][2] = Size(r)
      <4>1. <<Size(q), Size(r), Body(r)>>[2] = Size(r)
        OBVIOUS
      <4> QED BY <3>1, <3>2, <4>1, Zenon
    <3>3. 2 \in 1 .. Len(wire[s + 1])
      BY <3>1, <1>3
    <3>4. wire[s + 1][2] = Piece(2, applied[s][Len(applied[s + 1]) + Begun(2)].req)
      BY <1>1, <1>2, <3>3 DEF Link
    <3> QED BY <3>5, <3>4, BegunFew DEF Piece, Size, Body
  <2> QED BY <2>1, <2>2 DEF Receives
<1>6. wire[s + 1][1] = Size(applied[s][Len(applied[s + 1]) + 1].req)
  <2>1. 1 \in 1 .. Len(wire[s + 1])
    BY <1>3, <1>5
  <2>2. wire[s + 1][1] = Piece(1, applied[s][Len(applied[s + 1]) + Begun(1)].req)
    BY <1>1, <1>2, <2>1 DEF Link
  <2> QED BY <2>1, <2>2, BegunFew DEF Piece
<1>7. r = applied[s][Len(applied[s + 1]) + 1].req
  BY <1>5, <1>6 DEF Size
<1>8. Len(applied[s + 1]) < Len(applied[s])
  <2>0. Len(wire[s + 1]) \in Nat /\ Len(wire[s + 1]) >= 1
    BY <1>3, <1>5
  <2>1. Begun(Len(wire[s + 1])) \in Nat /\ Begun(Len(wire[s + 1])) >= 1
    BY <2>0, BegunType
  <2>2. Len(applied[s]) = Len(applied[s + 1]) + Begun(Len(wire[s + 1]))
                              + (IF pc[Writer(c, s)] = "size" THEN 1 ELSE 0)
    BY <1>1, <1>2 DEF Link
  <2> QED BY <1>3, <2>1, <2>2
<1> QED BY <1>5, <1>7, <1>8

LEMMA PipelineInit == ASSUME NEW c, Clients = {c}, Init PROVE Pipeline(c)
<1>1. TypeOK
  BY TypeInit
<1>2. /\ \A s \in Servers : Len(applied[s]) = 0 /\ s \in Nat
      /\ \A s, t \in Servers : table[t] = table[s]
      /\ \A h \in Handlers : Len(wire[h]) = 0 /\ pc[h] = "receive"
  BY HomeType DEF Init
<1>3. History
  BY <1>2 DEF History
<1>4. Copies
  BY <1>2 DEF Copies, Copy, At
<1>5. Links(c)
  <2> SUFFICES ASSUME NEW s \in 1 .. N - 1 PROVE Link(c, s)
    BY DEF Links
  <2>1. /\ Len(applied[s]) = 0 /\ Len(applied[s + 1]) = 0 /\ Len(wire[s + 1]) = 0
        /\ pc[Writer(c, s)] = "receive"
    BY <1>2, WriterType
  <2> QED BY <2>1, BegunFew DEF Link
<1> QED BY <1>1, <1>3, <1>4, <1>5 DEF Pipeline

LEMMA CallLinks ==
  ASSUME NEW c, Clients = {c}, Pipeline(c), Call(c)
  PROVE  Links(c)'
<1> SUFFICES ASSUME NEW s \in 1 .. N - 1 PROVE Link(c, s)'
  BY DEF Links
<1>1. s + 1 # c /\ s + 1 \in Handlers
  BY WriterType
<1>2. wire'[s + 1] = wire[s + 1]
  BY <1>1 DEF Call, Pipeline, TypeOK
<1>3. UNCHANGED <<pc, req, applied>>
  BY DEF Call
<1>4. Link(c, s)
  BY DEF Pipeline, Links
<1> QED BY <1>2, <1>3, <1>4, LinkFrame

LEMMA AnswerLinks ==
  ASSUME NEW c, Clients = {c}, Pipeline(c), NEW h \in Handlers, Answer(h)
  PROVE  Links(c)'
<1> SUFFICES ASSUME NEW s \in 1 .. N - 1 PROVE Link(c, s)'
  BY DEF Links
<1>1. /\ UNCHANGED <<wire, applied>>
      /\ pc[h] = "reply" /\ pc' = [pc EXCEPT ![h] = "receive"]
      /\ req' = [req EXCEPT ![h] = NoRequest]
  BY DEF Answer, Goto
<1>2. Link(c, s) /\ Writer(c, s) \in Handlers
  BY WriterType DEF Pipeline, Links
<1>3. pc \in [Handlers -> {"receive", "size", "body", "reply"}]
      /\ req \in [Handlers -> Requests \cup {NoRequest}]
  BY DEF Pipeline, TypeOK
<1>4. CASE Writer(c, s) = h
  <2>1. pc[Writer(c, s)] = "reply" /\ pc'[Writer(c, s)] = "receive"
    BY <1>1, <1>2, <1>3, <1>4
  <2> QED BY <1>1, <1>2, <2>1 DEF Link, Writer
<1>5. CASE Writer(c, s) # h
  <2>1. pc'[Writer(c, s)] = pc[Writer(c, s)] /\ req'[Writer(c, s)] = req[Writer(c, s)]
    BY <1>1, <1>2, <1>3, <1>5
  <2> QED BY <1>1, <1>2, <2>1, LinkFrame
<1> QED BY <1>4, <1>5

\* The handler of a server writes one more piece of its message to the next one.
LEMMA PieceLinks ==
  ASSUME NEW c, Clients = {c}, Pipeline(c), NEW h \in Handlers, NEW p, NEW after,
         UNCHANGED <<applied, req>>,
         pc' = [pc EXCEPT ![h] = after],
         wire' = [wire EXCEPT ![Home(h) + 1] = Append(@, p)],
         \/ pc[h] = "size" /\ after = "body" /\ p = Size(req[h])
         \/ pc[h] = "body" /\ after = "reply" /\ p = Body(req[h])
  PROVE  Links(c)'
<1> SUFFICES ASSUME NEW s \in 1 .. N - 1 PROVE Link(c, s)'
  BY DEF Links
<1>1. /\ Link(c, s) /\ TypeOK
      /\ Writer(c, s) \in Handlers /\ Home(Writer(c, s)) = s /\ h = Writer(c, Home(h))
      /\ s + 1 \in Handlers /\ Home(h) \in Servers /\ s \in Servers /\ s + 1 \in Servers
  BY WriterType, HomeType DEF Pipeline, Links
<1>2. /\ pc \in [Handlers -> {"receive", "size", "body", "reply"}]
      /\ wire \in [Handlers -> Seq(Frames)] /\ req[h] \in Requests
  BY <1>1 DEF TypeOK
<1>3. CASE Home(h) = s
  <2> DEFINE n == Len(wire[s + 1])
             m == Len(applied[s + 1])
             l == Len(applied[s])
  <2>1. Writer(c, s) = h /\ pc'[h] = after
    BY <1>1, <1>2, <1>3
  <2>2. n \in Nat /\ m \in Nat /\ l \in Nat /\ Begun(n) \in Nat
    BY <1>1, WireType, AppliedType, BegunType
  <2>3. p \in Frames
    BY <1>2, MessageType
  <2>4. /\ Len(wire'[s + 1]) = n + 1
        /\ wire'[s + 1][n + 1] = p
        /\ \A i \in 1 .. n : wire'[s + 1][i] = wire[s + 1][i]
    BY <1>1, <1>2, <1>3, <2>3, AppendProperties
  <2>5. /\ l = m + Begun(n) + (IF pc[h] = "size" THEN 1 ELSE 0)
        /\ pc[h] = "body" <=> Odd(n)
        /\ req[h] = applied[s][l].req
        /\ \A i \in 1 .. n : wire[s + 1][i] = Piece(i, applied[s][m + Begun(i)].req)
    BY <1>1, <2>1 DEF Link
  <2>6. l = m + Begun(n + 1) /\ (after = "body" <=> Odd(n + 1))
    <3>1. CASE pc[h] = "size"
      <4>1. Begun(n + 1) = Begun(n) + 1 /\ Odd(n + 1) /\ after = "body"
        BY <2>2, <2>5, <3>1, BegunCount
      <4>2. l = m + Begun(n) + 1
        BY <2>5, <3>1
      <4> QED BY <2>2, <4>1, <4>2
    <3>2. CASE pc[h] = "body"
      <4>1. Begun(n + 1) = Begun(n) /\ ~Odd(n + 1) /\ after = "reply"
        BY <2>2, <2>5, <3>2, BegunCount
      <4>2. l = m + Begun(n) + 0
        BY <2>5, <3>2
      <4> QED BY <2>2, <4>1, <4>2
    <3> QED BY <3>1, <3>2
  <2>7. p = Piece(n + 1, applied[s][m + Begun(n + 1)].req)
    BY <2>5, <2>6 DEF Piece
  <2>8. \A i \in 1 .. n + 1 : wire'[s + 1][i] = Piece(i, applied[s][m + Begun(i)].req)
    <3> SUFFICES ASSUME NEW i \in 1 .. n + 1
                 PROVE  wire'[s + 1][i] = Piece(i, applied[s][m + Begun(i)].req)
      OBVIOUS
    <3>1. CASE i \in 1 .. n
      BY <2>4, <2>5, <3>1
    <3>2. CASE i = n + 1
      BY <2>4, <2>7, <3>2
    <3> QED BY <2>2, <3>1, <3>2
  <2>9. /\ applied'[s] = applied[s] /\ applied'[s + 1] = applied[s + 1]
        /\ req'[h] = req[h] /\ Writer(c, s)' = h /\ after # "size"
    BY <2>1 DEF Writer
  <2>10. l = m + Begun(n + 1) + 0
    BY <2>2, <2>6
  <2> QED BY <2>1, <2>4, <2>5, <2>6, <2>8, <2>9, <2>10 DEF Link
<1>4. CASE Home(h) # s
  <2>0. Home(h) \in Nat /\ s \in Nat
    BY <1>1, HomeType
  <2>1. Writer(c, s) # h /\ Home(h) + 1 # s + 1
    BY <1>1, <1>4, <2>0
  <2>2. /\ pc'[Writer(c, s)] = pc[Writer(c, s)] /\ req'[Writer(c, s)] = req[Writer(c, s)]
        /\ wire'[s + 1] = wire[s + 1]
    BY <1>1, <1>2, <2>1
  <2> QED BY <1>1, <2>2, LinkFrame
<1> QED BY <1>3, <1>4

\* What the handler of a server that follows another reads is the change that
\* its server has to apply next.
LEMMA InvokeGrows ==
  ASSUME NEW c, Clients = {c}, Pipeline(c), NEW h \in Handlers,
         NEW r \in Requests, NEW n \in 2 .. 3, Invokes(h, r, n)
  PROVE  /\ Changes(r, table[Home(h)]) => Grows(Home(h), r)
         /\ ~Changes(r, table[Home(h)]) => applied' = applied /\ table' = table
         /\ h # c => n = 2 /\ Changes(r, table[Home(h)])
<1>1. TypeOK /\ Home(h) \in Servers /\ table[Home(h)] \in Tables
  BY HomeType, AppliedType DEF Pipeline
<1>2. ~Changes(r, table[Home(h)]) => applied' = applied /\ table' = table
  BY <1>1, EffectUnlessChanges DEF Invokes, TypeOK
<1>3. CASE h = c
  <2>1. Home(h) = 1
    BY <1>3, WriterType
  <2> QED BY <1>2, <1>3, <2>1 DEF Grows, Invokes
<1>4. CASE h # c
  <2>1. Home(h) = h /\ h \in 2 .. N
    BY <1>4, WriterType
  <2>2. PICK s \in 1 .. N - 1 : h = s + 1 /\ h - 1 = s
    <3>1. h - 1 \in 1 .. N - 1 /\ h = (h - 1) + 1
      BY <2>1, ChainAssumption
    <3> QED BY <3>1
  <2>3. Receives(s + 1, r, n)
    BY <2>2 DEF Invokes
  <2>4. /\ n = 2 /\ r = applied[s][Len(applied[h]) + 1].req
        /\ Len(applied[h]) < Len(applied[s])
    BY <2>2, <2>3, FirstMessage
  <2>5. s \in Servers /\ h \in Servers /\ s <= h
    BY <2>2, WriterType
  <2>6. Copy(s, h) /\ History
    BY <2>5 DEF Pipeline, Copies
  <2>7. table[h] = applied[s][Len(applied[h]) + 1].on
    BY <2>4, <2>6 DEF Copy, At
  <2>8. Len(applied[h]) + 1 \in 1 .. Len(applied[s])
    <3>1. Len(applied[h]) \in Nat /\ Len(applied[s]) \in Nat
      BY <1>1, <2>5, AppliedType
    <3> QED BY <2>4, <3>1
  <2>9. Changes(r, table[h])
    BY <2>4, <2>5, <2>6, <2>7, <2>8 DEF History
  <2>10. applied[s][Len(applied[h]) + 1] = [req |-> r, on |-> table[h]]
    BY <1>1, <2>4, <2>5, <2>7, <2>8, AppliedType DEF Writings
  <2> QED BY <2>1, <2>2, <2>4, <2>9, <2>10 DEF Grows, Invokes
<1> QED BY <1>2, <1>3, <1>4

\* What Invoke changes of the link its handler writes to.
LEMMA InvokeOutgoing ==
  ASSUME NEW c, Clients = {c}, Pipeline(c), NEW h \in Handlers, pc[h] = "receive",
         NEW r \in Requests, NEW n \in 2 .. 3, Invokes(h, r, n),
         NEW s \in 1 .. N - 1, Home(h) = s
  PROVE  Link(c, s)'
<1> DEFINE k == Len(wire[s + 1])
           m == Len(applied[s + 1])
           l == Len(applied[s])
<1>1. /\ Link(c, s) /\ TypeOK /\ s \in Servers /\ s + 1 \in Servers /\ s # s + 1
      /\ Writer(c, s) = h /\ Home(s + 1) = s + 1 /\ s + 1 \in Handlers
  BY WriterType DEF Pipeline, Links
<1>2. /\ wire'[s + 1] = wire[s + 1] /\ req'[h] = r /\ Writer(c, s)' = h
      /\ pc'[h] = IF Changes(r, table[s]) THEN "size" ELSE "reply"
  BY <1>1, ChainAssumption DEF Invokes, TypeOK, Forwards, Writer
<1>3. /\ k \in Nat /\ m \in Nat /\ l \in Nat /\ Begun(k) \in Nat
  BY <1>1, WireType, AppliedType, BegunType
<1>4. /\ l = m + Begun(k) + 0 /\ ~Odd(k)
      /\ \A i \in 1 .. k : wire[s + 1][i] = Piece(i, applied[s][m + Begun(i)].req)
  BY <1>1 DEF Link
<1>5. CASE Changes(r, table[s])
  <2>1. Grown(s, r)
    BY <1>1, <1>5, InvokeGrows, GrownSequence
  <2>2. /\ Len(applied'[s]) = l + 1 /\ applied'[s + 1] = applied[s + 1]
        /\ applied'[s][l + 1].req = r
        /\ \A i \in 1 .. l : applied'[s][i] = applied[s][i]
    BY <1>1, <2>1 DEF Grown
  <2>3. \A i \in 1 .. k : m + Begun(i) \in 1 .. l
    <3> SUFFICES ASSUME NEW i \in 1 .. k PROVE m + Begun(i) \in 1 .. l
      OBVIOUS
    <3>1. Begun(i) \in Nat /\ 1 <= Begun(i) /\ Begun(i) <= Begun(k)
      BY <1>3, BegunMonotone
    <3> QED BY <1>3, <1>4, <3>1
  <2>4. \A i \in 1 .. k : wire'[s + 1][i] = Piece(i, applied'[s][m + Begun(i)].req)
    BY <1>2, <1>4, <2>2, <2>3
  <2>5. l + 1 = m + Begun(k) + 1
    BY <1>3, <1>4
  <2>6. pc'[h] = "size"
    BY <1>2, <1>5
  <2> QED BY <1>2, <1>4, <2>2, <2>4, <2>5, <2>6 DEF Link
<1>6. CASE ~Changes(r, table[s])
  <2>1. applied' = applied /\ pc'[h] = "reply"
    BY <1>2, <1>6, InvokeGrows
  <2> QED BY <1>2, <1>4, <2>1 DEF Link
<1> QED BY <1>5, <1>6

\* And of the one it reads from.
LEMMA InvokeIncoming ==
  ASSUME NEW c, Clients = {c}, Pipeline(c), NEW h \in Handlers,
         NEW r \in Requests, NEW n \in 2 .. 3, Invokes(h, r, n),
         NEW s \in 1 .. N - 1, h = s + 1
  PROVE  Link(c, s)'
<1> DEFINE w == wire[s + 1]
           k == Len(w) - 2
           m == Len(applied[s + 1])
<1>1. /\ Link(c, s) /\ TypeOK /\ s \in Servers /\ s + 1 \in Servers /\ s # s + 1
      /\ Writer(c, s) \in Handlers /\ Home(Writer(c, s)) = s
      /\ Home(s + 1) = s + 1 /\ h # c
  BY WriterType DEF Pipeline, Links
<1>2. n = 2 /\ Changes(r, table[s + 1]) /\ Grown(s + 1, r)
  BY <1>1, InvokeGrows, GrownSequence
<1>3. Receives(s + 1, r, n) /\ Len(w) >= 2
  BY FirstMessage DEF Invokes
<1>4. k \in Nat /\ Len(w) = k + 2 /\ m \in Nat /\ w \in Seq(Frames)
  <2>1. Len(w) \in Nat /\ m \in Nat /\ w \in Seq(Frames)
    BY <1>1, WireType, AppliedType
  <2> QED BY <1>3, <2>1
<1>5. wire'[s + 1] = SubSeq(w, 3, k + 2)
  BY <1>1, <1>2, <1>4 DEF Invokes, TypeOK
<1>6. Len(wire'[s + 1]) = k /\ \A i \in 1 .. k : wire'[s + 1][i] = w[i + 2]
  <2>1. \A i \in 3 .. k + 2 : w[i] \in Frames
    BY <1>4
  <2>2. /\ Len(SubSeq(w, 3, k + 2)) = k
        /\ \A i \in 1 .. k : SubSeq(w, 3, k + 2)[i] = w[i + 2]
    BY <1>4, <2>1, SubSeqProperties
  <2> QED BY <1>5, <2>2
<1>7. /\ Len(applied'[s + 1]) = m + 1 /\ applied'[s] = applied[s]
  BY <1>1, <1>2 DEF Grown
<1>8. /\ Writer(c, s)' = Writer(c, s)
      /\ pc'[Writer(c, s)] = pc[Writer(c, s)] /\ req'[Writer(c, s)] = req[Writer(c, s)]
  BY <1>1 DEF Invokes, TypeOK, Writer
<1>9. /\ Begun(k) \in Nat /\ Begun(k + 2) = Begun(k) + 1 /\ (Odd(k + 2) <=> Odd(k))
  BY <1>4, BegunType, BegunCount
<1>10. /\ Len(applied[s]) = m + Begun(k + 2)
                              + (IF pc[Writer(c, s)] = "size" THEN 1 ELSE 0)
       /\ pc[Writer(c, s)] = "body" <=> Odd(k + 2)
       /\ \A i \in 1 .. k + 2 : w[i] = Piece(i, applied[s][m + Begun(i)].req)
       /\ pc[Writer(c, s)] \in {"size", "body"} =>
             req[Writer(c, s)] = applied[s][Len(applied[s])].req
  BY <1>1, <1>4 DEF Link
<1>11. m + Begun(k + 2) = (m + 1) + Begun(k)
  BY <1>4, <1>9
<1>12. \A i \in 1 .. k : wire'[s + 1][i] = Piece(i, applied[s][(m + 1) + Begun(i)].req)
  <2> SUFFICES ASSUME NEW i \in 1 .. k
               PROVE  wire'[s + 1][i] = Piece(i, applied[s][(m + 1) + Begun(i)].req)
    OBVIOUS
  <2>1. i \in Nat /\ i + 2 \in 1 .. k + 2
    BY <1>4
  <2>2. Begun(i) \in Nat /\ Begun(i + 2) = Begun(i) + 1 /\ (Odd(i + 2) <=> Odd(i))
    BY <2>1, BegunType, BegunCount
  <2>3. m + Begun(i + 2) = (m + 1) + Begun(i)
    BY <1>4, <2>2
  <2>4. wire'[s + 1][i] = Piece(i + 2, applied[s][m + Begun(i + 2)].req)
    BY <1>6, <1>10, <2>1
  <2> QED BY <2>2, <2>3, <2>4 DEF Piece
<1> QED BY <1>6, <1>7, <1>8, <1>9, <1>10, <1>11, <1>12 DEF Link

LEMMA InvokeLinks ==
  ASSUME NEW c, Clients = {c}, Pipeline(c), NEW h \in Handlers, pc[h] = "receive",
         NEW r \in Requests, NEW n \in 2 .. 3, Invokes(h, r, n)
  PROVE  Links(c)'
<1> SUFFICES ASSUME NEW s \in 1 .. N - 1 PROVE Link(c, s)'
  BY DEF Links
<1>1. CASE Home(h) = s
  BY <1>1, InvokeOutgoing
<1>2. CASE h = s + 1
  BY <1>2, InvokeIncoming
<1>3. CASE Home(h) # s /\ h # s + 1
  <2>1. /\ Link(c, s) /\ TypeOK /\ s \in Servers /\ s + 1 \in Servers
        /\ Home(h) \in Servers /\ Home(Writer(c, s)) = s
    BY WriterType, HomeType DEF Pipeline, Links
  <2>2. Home(h) # s + 1
    BY <1>3, <2>1, WriterType
  <2>3. applied'[s] = applied[s] /\ applied'[s + 1] = applied[s + 1]
    BY <1>3, <2>1, <2>2 DEF Invokes, TypeOK
  <2>4. /\ wire'[s + 1] = wire[s + 1] /\ pc'[Writer(c, s)] = pc[Writer(c, s)]
        /\ req'[Writer(c, s)] = req[Writer(c, s)]
    BY <1>3, <2>1, WriterType DEF Invokes, TypeOK
  <2> QED BY <2>1, <2>3, <2>4, LinkFrame
<1> QED BY <1>1, <1>2, <1>3

-----------------------------------------------------------------------------
(* The invariant, and what follows from it.                                *)

LEMMA PipelineFrame ==
  ASSUME NEW c, Pipeline(c), TypeOK', UNCHANGED <<applied, table>>, Links(c)'
  PROVE  Pipeline(c)'
<1>1. History' /\ Copies'
  BY DEF Pipeline, History, Copies, Copy, At
<1> QED BY <1>1 DEF Pipeline

LEMMA PipelineStep ==
  ASSUME NEW c, Clients = {c}, Pipeline(c), [Next]_vars
  PROVE  Pipeline(c)'
<1>0. TypeOK'
  BY TypeStep DEF Pipeline
<1>1. ASSUME NEW d \in Clients, Call(d) PROVE Pipeline(c)'
  <2>1. Links(c)' /\ UNCHANGED <<applied, table>>
    BY <1>1, CallLinks DEF Call
  <2> QED BY <1>0, <2>1, PipelineFrame
<1>2. ASSUME NEW h \in Handlers, Invoke(h) PROVE Pipeline(c)'
  <2>1. pc[h] = "receive"
    BY <1>2, InvokeParts
  <2>2. PICK r \in Requests, n \in 2 .. 3 : Invokes(h, r, n)
    BY <1>2, InvokeParts
  <2>3. Links(c)'
    BY <2>1, <2>2, InvokeLinks
  <2>4. CASE Changes(r, table[Home(h)])
    <3>1. Grows(Home(h), r) /\ Home(h) \in Servers
      BY <2>2, <2>4, InvokeGrows, HomeType
    <3>2. History' /\ Copies'
      BY <3>1, GrowHistory, GrowCopies DEF Pipeline
    <3> QED BY <1>0, <2>3, <3>2 DEF Pipeline
  <2>5. CASE ~Changes(r, table[Home(h)])
    <3>1. UNCHANGED <<applied, table>>
      BY <2>2, <2>5, InvokeGrows
    <3> QED BY <1>0, <2>3, <3>1, PipelineFrame
  <2> QED BY <2>4, <2>5
<1>3. ASSUME NEW h \in Handlers, ForwardSize(h) \/ ForwardBody(h) PROVE Pipeline(c)'
  <2>1. UNCHANGED <<applied, table>>
    BY <1>3 DEF ForwardSize, ForwardBody
  <2>2. CASE ForwardSize(h)
    <3>1. Links(c)'
      BY <2>2, PieceLinks DEF ForwardSize, Goto, WriteNext
    <3> QED BY <1>0, <2>1, <3>1, PipelineFrame
  <2>3. CASE ForwardBody(h)
    <3>1. Links(c)'
      BY <2>3, PieceLinks DEF ForwardBody, Goto, WriteNext
    <3> QED BY <1>0, <2>1, <3>1, PipelineFrame
  <2> QED BY <1>3, <2>2, <2>3
<1>4. ASSUME NEW h \in Handlers, Answer(h) PROVE Pipeline(c)'
  <2>1. Links(c)' /\ UNCHANGED <<applied, table>>
    BY <1>4, AnswerLinks DEF Answer
  <2> QED BY <1>0, <2>1, PipelineFrame
<1>5. ASSUME UNCHANGED <<pc, req, wire, applied, table>> PROVE Pipeline(c)'
  <2>1. Links(c)'
    BY <1>5 DEF Pipeline, Links, Link, Writer
  <2> QED BY <1>0, <1>5, <2>1, PipelineFrame
<1>6. ASSUME NEW h \in Handlers, End(h) PROVE Pipeline(c)'
  BY <1>5, <1>6 DEF End
<1>7. CASE UNCHANGED vars
  BY <1>5, <1>7 DEF vars
<1> QED BY <1>1, <1>2, <1>3, <1>4, <1>6, <1>7 DEF Next, Handle

LEMMA PipelineAlways ==
  ASSUME NEW CONSTANT c, Clients = {c}
  PROVE  Spec => []Pipeline(c)
<1>1. Init => Pipeline(c)
  BY PipelineInit
<1>2. Pipeline(c) /\ [Next]_vars => Pipeline(c)'
  BY PipelineStep
<1> QED BY <1>1, <1>2, PTL DEF Spec

\* With one client, a server applies the changes of the server before it, in
\* their order and on the tables they found there (network_server.c:491-515).
THEOREM Order ==
  ASSUME NEW CONSTANT c, Clients = {c}
  PROVE  Spec => []SameOrder
<1>1. Pipeline(c) => SameOrder
  <2> SUFFICES ASSUME Pipeline(c), NEW s \in 1 .. N - 1
               PROVE  /\ Len(applied[s + 1]) <= Len(applied[s])
                      /\ \A i \in 1 .. Len(applied[s + 1]) :
                            applied[s + 1][i] = applied[s][i]
    BY DEF SameOrder
  <2>1. s \in Servers /\ s + 1 \in Servers /\ s <= s + 1
    BY WriterType
  <2> QED BY <2>1 DEF Pipeline, Copies, Copy
<1> QED BY <1>1, PipelineAlways, PTL

-----------------------------------------------------------------------------
(* The chain implements a replicated table.                                *)

\* The requests of a sequence of changes.
Reqs(w) == [i \in DOMAIN w |-> w[i].req]

LEMMA ReqsType ==
  ASSUME NEW w \in Seq(Writings)
  PROVE  /\ Reqs(w) \in Seq(Requests) /\ Len(Reqs(w)) = Len(w) /\ Len(w) \in Nat
         /\ \A i \in 1 .. Len(w) : Reqs(w)[i] = w[i].req
<1>1. /\ Len(w) \in Nat /\ DOMAIN w = 1 .. Len(w)
      /\ \A i \in 1 .. Len(w) : w[i] \in Writings
  BY LenProperties
<1>2. Reqs(w) \in [1 .. Len(w) -> Requests]
  BY <1>1 DEF Reqs, Writings
<1>3. Reqs(w) \in Seq(Requests)
  BY <1>1, <1>2, SeqDef
<1>4. DOMAIN Reqs(w) = 1 .. Len(w) /\ DOMAIN Reqs(w) = 1 .. Len(Reqs(w)) /\ Len(Reqs(w)) \in Nat
  BY <1>2, <1>3, LenProperties
<1> QED BY <1>1, <1>3, <1>4 DEF Reqs

LEMMA ReqsAppend ==
  ASSUME NEW w \in Seq(Writings), NEW e \in Writings
  PROVE  Reqs(Append(w, e)) = Append(Reqs(w), e.req)
<1> DEFINE v == Append(w, e)
           n == Len(w)
<1>1. /\ v \in Seq(Writings) /\ Len(v) = n + 1 /\ v[n + 1] = e
      /\ \A i \in 1 .. n : v[i] = w[i]
  BY AppendProperties
<1>2. /\ Reqs(v) \in Seq(Requests) /\ Len(Reqs(v)) = Len(v)
      /\ \A i \in 1 .. Len(v) : Reqs(v)[i] = v[i].req
  BY <1>1, ReqsType
<1>3. /\ Reqs(w) \in Seq(Requests) /\ Len(Reqs(w)) = n /\ n \in Nat /\ e.req \in Requests
      /\ \A i \in 1 .. n : Reqs(w)[i] = w[i].req
  BY ReqsType DEF Writings
<1>4. /\ Append(Reqs(w), e.req) \in Seq(Requests)
      /\ Len(Append(Reqs(w), e.req)) = n + 1
      /\ \A i \in 1 .. n : Append(Reqs(w), e.req)[i] = Reqs(w)[i]
      /\ Append(Reqs(w), e.req)[n + 1] = e.req
  BY <1>3, AppendProperties
<1>5. \A i \in 1 .. n + 1 : Reqs(v)[i] = Append(Reqs(w), e.req)[i]
  <2> SUFFICES ASSUME NEW i \in 1 .. n + 1 PROVE Reqs(v)[i] = Append(Reqs(w), e.req)[i]
    OBVIOUS
  <2>1. i \in 1 .. n \/ i = n + 1
    BY <1>3
  <2> QED BY <1>1, <1>2, <1>3, <1>4, <2>1
<1> QED BY <1>1, <1>2, <1>4, <1>5, SeqEqual

LEMMA InitMapped == ASSUME Init PROVE Abstract!Init
<1>1. [k \in Keys |-> NoValue] \in Abstract!Tables
  BY DEF Abstract!Tables
<1>2. \A s \in Servers : applied[s] = <<>> /\ Len(applied[s]) = 0
  BY DEF Init
<1>3. [i \in DOMAIN applied[1] |-> applied[1][i].req] = <<>>
  <2>1. Reqs(<<>>) \in Seq(Requests) /\ Len(Reqs(<<>>)) = 0
    <3>1. <<>> \in Seq(Writings) /\ Len(<<>>) = 0
      OBVIOUS
    <3> QED BY <3>1, ReqsType
  <2>2. Reqs(<<>>) = <<>>
    BY <2>1, EmptySeq
  <2> QED BY <1>2, <2>2, HomeType DEF Reqs
<1>4. [s \in Servers |-> Len(applied[s])] = [s \in Servers |-> 0]
  BY <1>2
<1> QED BY <1>1, <1>3, <1>4 DEF Init, Abstract!Init, Servers, Abstract!Servers

\* A change of the first server is a Write, one of another server a Follow.
LEMMA GrowsMapped ==
  ASSUME NEW c, Clients = {c}, Pipeline(c), NEW s \in Servers, NEW r \in Requests,
         Grows(s, r)
  PROVE  Abstract!Next
<1> DEFINE e == [req |-> r, on |-> table[s]]
           done == [t \in Servers |-> Len(applied[t])]
<1>1. /\ TypeOK /\ s \in Nat /\ s >= 1 /\ 1 \in Servers /\ Servers = Abstract!Servers
      /\ \A t \in Servers : applied[t] \in Seq(Writings) /\ Len(applied[t]) \in Nat
  BY HomeType, AppliedType DEF Pipeline, Servers, Abstract!Servers
<1>2. Grown(s, r) /\ e \in Writings
  BY <1>1, GrownSequence, AppliedType DEF Writings
<1>3. done' = [done EXCEPT ![s] = @ + 1]
  BY <1>2 DEF Grown
<1>4. table' = [table EXCEPT ![s] = Abstract!Effect(r, @)]
  BY DEF Grows, Effect, Writes, Abstract!Effect, Abstract!Writes
<1>5. CASE s = 1
  <2>1. applied'[1] = Append(applied[1], e)
    BY <1>1, <1>5 DEF Grows, TypeOK
  <2>2. Reqs(applied'[1]) = Append(Reqs(applied[1]), r)
    BY <1>1, <1>2, <2>1, ReqsAppend
  <2>3. Requests = Abstract!Requests
    BY DEF Requests, Abstract!Requests, rtable_put, rtable_get, rtable_del,
           rtable_size, rtable_get_keys, rtable_get_table, rtable_stats,
           Abstract!rtable_put, Abstract!rtable_get, Abstract!rtable_del, Abstract!rtable_size,
           Abstract!rtable_get_keys, Abstract!rtable_get_table, Abstract!rtable_stats
  <2>4. r \in Abstract!Requests /\ Abstract!Changes(r, table[1])
    BY <1>5, <2>3 DEF Grows, Changes, Writes, Abstract!Changes, Abstract!Writes
  <2> QED BY <1>3, <1>4, <1>5, <2>2, <2>4
          DEF Reqs, Abstract!Next, Abstract!Write, Abstract!Apply
<1>6. CASE s > 1
  <2>1. /\ s - 1 \in Servers /\ s # 1 /\ 1 <= s - 1
        /\ Len(applied[s]) < Len(applied[s - 1])
        /\ applied[s - 1][Len(applied[s]) + 1] = e
    BY <1>1, <1>6, ChainAssumption DEF Grows, Servers
  <2>2. Copy(1, s - 1)
    BY <1>1, <2>1 DEF Pipeline, Copies
  <2>3. /\ Len(applied[s]) + 1 \in 1 .. Len(applied[1])
        /\ Len(applied[s]) + 1 \in 1 .. Len(applied[s - 1])
    BY <1>1, <2>1, <2>2 DEF Copy
  <2>4. Reqs(applied[1])[Len(applied[s]) + 1] = r
    BY <1>1, <2>1, <2>2, <2>3, ReqsType DEF Copy
  <2>5. applied'[1] = applied[1]
    BY <1>1, <1>2, <2>1 DEF Grown
  <2> QED BY <1>1, <1>3, <1>4, <1>6, <2>1, <2>4, <2>5
          DEF Reqs, Abstract!Next, Abstract!Follow, Abstract!Apply
<1> QED BY <1>1, <1>5, <1>6

LEMMA StepMapped ==
  ASSUME NEW c, Clients = {c}, Pipeline(c), [Next]_vars
  PROVE  [Abstract!Next]_(Abstract!vars)
<1>1. ASSUME NEW h \in Handlers, Invoke(h) PROVE Abstract!Next \/ UNCHANGED <<applied, table>>
  <2>1. PICK r \in Requests, n \in 2 .. 3 : Invokes(h, r, n)
    BY <1>1, InvokeParts
  <2> QED BY <2>1, InvokeGrows, GrowsMapped, HomeType
<1>2. ASSUME Next PROVE Abstract!Next \/ UNCHANGED <<applied, table>>
  BY <1>1, <1>2 DEF Next, Handle, Call, ForwardSize, ForwardBody, Answer, End
<1>3. ASSUME UNCHANGED <<applied, table>> PROVE UNCHANGED Abstract!vars
  BY <1>3 DEF Abstract!vars
<1> QED BY <1>2, <1>3 DEF vars

\* With one client, the chain of servers behaves as a replicated table: every
\* step of it is a change of the first server, a change with which another
\* server follows the one before it, or changes no table.
THEOREM Implements ==
  ASSUME NEW CONSTANT c, Clients = {c}
  PROVE  Spec => Replicates
<1>1. Init => Abstract!Init
  BY InitMapped
<1>2. Pipeline(c) /\ [Next]_vars => [Abstract!Next]_(Abstract!vars)
  BY StepMapped
<1> QED BY <1>1, <1>2, PipelineAlways, PTL DEF Spec, Replicates, Abstract!Spec

-----------------------------------------------------------------------------
(* Many clients that write different keys: counting.                       *)

\* How many members of S are at most n.
Upto(S, n) == Cardinality(S \cap 1 .. n)

LEMMA UptoType ==
  ASSUME NEW S, NEW n \in Nat
  PROVE  IsFiniteSet(S \cap 1 .. n) /\ Upto(S, n) \in Nat
<1>1. IsFiniteSet(1 .. n)
  BY FS_Interval
<1>2. IsFiniteSet(S \cap 1 .. n)
  BY <1>1, FS_Intersection
<1> QED BY <1>2, FS_CardinalityType DEF Upto

LEMMA UptoZero == ASSUME NEW S PROVE Upto(S, 0) = 0
<1>1. S \cap 1 .. 0 = {}
  OBVIOUS
<1> QED BY <1>1, FS_EmptySet DEF Upto

LEMMA UptoNext ==
  ASSUME NEW S, NEW n \in Nat
  PROVE  Upto(S, n + 1) = Upto(S, n) + (IF n + 1 \in S THEN 1 ELSE 0)
<1> DEFINE T == S \cap 1 .. n
<1>0. n + 1 \notin T
  OBVIOUS
<1>1. IsFiniteSet(T) /\ n + 1 \notin T /\ Upto(S, n) \in Nat /\ Upto(S, n) = Cardinality(T)
  BY <1>0, UptoType, Zenon DEF Upto
<1>2. CASE n + 1 \in S
  <2>1. S \cap 1 .. n + 1 = T \cup {n + 1}
    BY <1>2
  <2>2. Cardinality(T \cup {n + 1}) = Cardinality(T) + 1
    BY <1>1, FS_AddElement
  <2> QED BY <1>1, <1>2, <2>1, <2>2 DEF Upto
<1>3. CASE n + 1 \notin S
  <2>1. S \cap 1 .. n + 1 = T
    BY <1>3
  <2> QED BY <1>1, <1>3, <2>1 DEF Upto
<1> QED BY <1>2, <1>3

LEMMA UptoMonotone ==
  ASSUME NEW S, NEW i \in Nat, NEW j \in Nat, i <= j
  PROVE  Upto(S, i) <= Upto(S, j)
<1>1. S \cap 1 .. i \in SUBSET (S \cap 1 .. j)
  OBVIOUS
<1> QED BY <1>1, UptoType, FS_Subset DEF Upto

LEMMA UptoLess ==
  ASSUME NEW S, NEW i \in Nat, NEW j \in S, j \in Nat, i < j
  PROVE  Upto(S, i) < Upto(S, j)
<1>1. j - 1 \in Nat /\ i <= j - 1 /\ (j - 1) + 1 = j
  OBVIOUS
<1>2. Upto(S, j) = Upto(S, j - 1) + 1
  <2>1. Upto(S, (j - 1) + 1) = Upto(S, j - 1) + (IF (j - 1) + 1 \in S THEN 1 ELSE 0)
    BY <1>1, UptoNext
  <2> QED BY <1>1, <2>1
<1>3. Upto(S, i) <= Upto(S, j - 1) /\ Upto(S, i) \in Nat /\ Upto(S, j - 1) \in Nat
  BY <1>1, UptoMonotone, UptoType
<1> QED BY <1>2, <1>3

\* The members of S are told apart by how many are at most each of them.
LEMMA UptoUnique ==
  ASSUME NEW S \in SUBSET Nat, NEW i \in S, NEW j \in S, Upto(S, i) = Upto(S, j)
  PROVE  i = j
<1>1. Upto(S, i) \in Nat /\ Upto(S, j) \in Nat /\ i \in Nat /\ j \in Nat
  BY UptoType
<1>2. ~(i < j) /\ ~(j < i)
  BY <1>1, UptoLess
<1> QED BY <1>1, <1>2

LEMMA UptoRange ==
  ASSUME NEW n \in Nat, NEW S \in SUBSET (1 .. n), NEW i \in S
  PROVE  Upto(S, i) \in Nat /\ 1 <= Upto(S, i) /\ Upto(S, i) <= Upto(S, n)
<1>1. i \in Nat /\ 0 < i /\ i <= n
  OBVIOUS
<1>2. Upto(S, 0) < Upto(S, i) /\ Upto(S, 0) = 0
  BY <1>1, UptoLess, UptoZero
<1>3. Upto(S, i) <= Upto(S, n)
  BY <1>1, UptoMonotone
<1>4. Upto(S, i) \in Nat
  BY <1>1, UptoType
<1> QED BY <1>2, <1>3, <1>4

\* One more member, after all others.
LEMMA UptoAdd ==
  ASSUME NEW n \in Nat, NEW S \in SUBSET (1 .. n)
  PROVE  /\ \A i \in S : Upto(S \cup {n + 1}, i) = Upto(S, i)
         /\ Upto(S \cup {n + 1}, n + 1) = Upto(S, n) + 1
         /\ Upto(S, n + 1) = Upto(S, n)
<1> DEFINE T == S \cup {n + 1}
<1>1. \A i \in 0 .. n : Upto(T, i) = Upto(S, i)
  <2> SUFFICES ASSUME NEW i \in 0 .. n PROVE Upto(T, i) = Upto(S, i)
    OBVIOUS
  <2>1. T \cap 1 .. i = S \cap 1 .. i
    OBVIOUS
  <2> QED BY <2>1 DEF Upto
<1>2. Upto(T, n + 1) = Upto(T, n) + (IF n + 1 \in T THEN 1 ELSE 0)
  BY UptoNext
<1>3. Upto(S, n + 1) = Upto(S, n) + (IF n + 1 \in S THEN 1 ELSE 0)
  BY UptoNext
<1>4. n + 1 \in T /\ n + 1 \notin S /\ n \in 0 .. n /\ S \subseteq 0 .. n
  OBVIOUS
<1>5. Upto(S, n) \in Nat
  BY UptoType
<1> QED BY <1>1, <1>2, <1>3, <1>4, <1>5

\* The members of T are those of S beyond n, counted from there.
LEMMA UptoShift ==
  ASSUME NEW S, NEW T, NEW n \in Nat, NEW i \in Nat,
         \A m \in Nat : m >= 1 => (m \in T <=> m + n \in S)
  PROVE  Upto(S, i + n) = Upto(T, i) + Upto(S, n)
<1> DEFINE A == S \cap 1 .. n
           B == S \cap n + 1 .. i + n
           C == T \cap 1 .. i
           f == [m \in C |-> m + n]
<1>1. /\ IsFiniteSet(A) /\ IsFiniteSet(C) /\ Cardinality(A) = Upto(S, n)
      /\ Cardinality(C) = Upto(T, i) /\ Upto(S, n) \in Nat /\ Upto(T, i) \in Nat
  BY UptoType DEF Upto
<1>2. f \in Bijection(C, B)
  <2>1. \A m \in C : m + n \in B
    OBVIOUS
  <2>2. \A x \in B : x - n \in C /\ x = (x - n) + n
    <3> SUFFICES ASSUME NEW x \in B PROVE x - n \in C /\ x = (x - n) + n
      OBVIOUS
    <3>1. x - n \in Nat /\ x - n >= 1 /\ x - n <= i /\ (x - n) + n = x
      OBVIOUS
    <3> QED BY <3>1
  <2>3. f \in [C -> B]
    BY <2>1
  <2>4. \A a, b \in C : a # b => f[a] # f[b]
    OBVIOUS
  <2>5. \A x \in B : \E m \in C : f[m] = x
    BY <2>2
  <2> QED BY <2>3, <2>4, <2>5 DEF Bijection, Injection, Surjection, IsInjective
<1>3. IsFiniteSet(B) /\ Cardinality(B) = Cardinality(C)
  BY <1>1, <1>2, FS_Bijection DEF ExistsBijection
<1>4. A \cap B = {} /\ A \cup B = S \cap 1 .. i + n
  OBVIOUS
<1>5. Cardinality(A \cup B) = Cardinality(A) + Cardinality(B) - Cardinality(A \cap B)
  BY <1>1, <1>3, FS_Union
<1>6. Upto(S, i + n) = Cardinality(A \cup B) /\ Cardinality(A \cap B) = 0
  BY <1>4, FS_EmptySet DEF Upto
<1> HIDE DEF A, B, C
<1> QED BY <1>1, <1>3, <1>5, <1>6

-----------------------------------------------------------------------------
(* The chain, seen from one key.                                           *)

\* No two clients write one key.
DisjointKeys == \A c, d \in Clients : c # d => KeysOf[c] \cap KeysOf[d] = {}

\* The changes of key k among those of server s, and the pieces about k on
\* their way from server s to the next one.
Places(s, k) == {i \in 1 .. Len(applied[s]) : applied[s][i].req.key = k}
Pieces(s, k) == {i \in 1 .. Len(wire[s + 1]) : wire[s + 1][i].of.key = k}

Has(s, k)    == Upto(Places(s, k), Len(applied[s]))
OnWire(s, k) == Upto(Pieces(s, k), Len(wire[s + 1]))

\* Handler h of server s has applied a change of k and not forwarded all of it.
Busy(h, s, k, label) == Home(h) = s /\ pc[h] = label /\ req[h].key = k
Pending(s, k, label) == \E h \in Handlers : Busy(h, s, k, label)

\* Each change of k at server s left the value the next one found.
KeyHistory(s, k) ==
  /\ \A i \in Places(s, k) : Changes(applied[s][i].req, applied[s][i].on)
  /\ \A i \in Places(s, k) :
        Upto(Places(s, k), i) = Has(s, k) => table[s][k] = applied[s][i].req.value
  /\ \A i, j \in Places(s, k) :
        Upto(Places(s, k), j) = Upto(Places(s, k), i) + 1
          => applied[s][j].on[k] = applied[s][i].req.value

\* The change of k numbered n at server s is request r.
Nth(s, k, n, r) == \E i \in Places(s, k) : Upto(Places(s, k), i) = n /\ applied[s][i].req = r

\* As far as k goes, server s + 1 is a copy of an earlier state of server s.
KeyCopy(s, k) ==
  /\ \A i \in Places(s + 1, k) : \E j \in Places(s, k) :
        /\ Upto(Places(s, k), j) = Upto(Places(s + 1, k), i)
        /\ applied[s][j].req = applied[s + 1][i].req
        /\ applied[s][j].on[k] = applied[s + 1][i].on[k]
  /\ Has(s, k) = Has(s + 1, k) => table[s + 1][k] = table[s][k]
  /\ \A i \in Places(s, k) :
        Upto(Places(s, k), i) = Has(s + 1, k) + 1 => applied[s][i].on[k] = table[s + 1][k]

\* The pieces about k on their way to server s + 1 are those of the changes of k
\* it has not applied, in order. The first size may be lost (lost = 1): a message
\* about another key was read in the place of its body, which then stays.
KeyLink(s, k, lost) ==
  /\ Has(s, k) = Has(s + 1, k) + Begun(OnWire(s, k) + lost)
                   + (IF Pending(s, k, "size") THEN 1 ELSE 0)
  /\ Pending(s, k, "body") <=> Odd(OnWire(s, k) + lost)
  /\ \A i \in Pieces(s, k) : \E r \in Requests :
        /\ Nth(s, k, Has(s + 1, k) + Begun(Upto(Pieces(s, k), i) + lost), r)
        /\ wire[s + 1][i] = Piece(Upto(Pieces(s, k), i) + lost, r)
  /\ \A h \in Handlers : Busy(h, s, k, "size") \/ Busy(h, s, k, "body")
                           => Nth(s, k, Has(s, k), req[h])

\* A client's requests are about its keys.
Owned == \A c \in Clients :
           /\ \A i \in 1 .. Len(wire[c]) : wire[c][i].of.key \in KeysOf[c]
           /\ pc[c] # "receive" => req[c].key \in KeysOf[c]

KeyHistories == \A s \in Servers, k \in Keys : KeyHistory(s, k)
KeyCopies == \A s \in 1 .. N - 1, k \in Keys : KeyCopy(s, k)
KeyLinks  == \A s \in 1 .. N - 1, k \in Keys : \E lost \in 0 .. 1 : KeyLink(s, k, lost)

KeyPipeline == TypeOK /\ Owned /\ KeyHistories /\ KeyCopies /\ KeyLinks

-----------------------------------------------------------------------------
LEMMA PlacesType ==
  ASSUME TypeOK, NEW s \in Servers, NEW k
  PROVE  /\ Places(s, k) \in SUBSET (1 .. Len(applied[s])) /\ Places(s, k) \in SUBSET Nat
         /\ Has(s, k) \in Nat
         /\ \A i \in Places(s, k) : /\ Upto(Places(s, k), i) \in Nat
                                    /\ 1 <= Upto(Places(s, k), i)
                                    /\ Upto(Places(s, k), i) <= Has(s, k)
                                    /\ applied[s][i].req \in Requests
                                    /\ applied[s][i].req.key = k
                                    /\ applied[s][i].on \in Tables
<1>1. Len(applied[s]) \in Nat /\ Places(s, k) \in SUBSET (1 .. Len(applied[s]))
  BY AppliedType DEF Places
<1>2. Has(s, k) \in Nat
  BY <1>1, UptoType DEF Has
<1> SUFFICES ASSUME NEW i \in Places(s, k)
             PROVE  /\ Upto(Places(s, k), i) \in Nat
                    /\ 1 <= Upto(Places(s, k), i) /\ Upto(Places(s, k), i) <= Has(s, k)
                    /\ applied[s][i].req \in Requests /\ applied[s][i].req.key = k
                    /\ applied[s][i].on \in Tables
  BY <1>1, <1>2
<1>3. /\ Upto(Places(s, k), i) \in Nat
      /\ 1 <= Upto(Places(s, k), i) /\ Upto(Places(s, k), i) <= Has(s, k)
  BY <1>1, UptoRange DEF Has
<1>4. i \in 1 .. Len(applied[s]) /\ applied[s][i].req.key = k
  BY DEF Places
<1> QED BY <1>3, <1>4, AppliedType

LEMMA PiecesType ==
  ASSUME TypeOK, NEW s \in 1 .. N - 1, NEW k
  PROVE  /\ s \in Servers /\ s + 1 \in Servers /\ s + 1 \in Handlers /\ Home(s + 1) = s + 1
         /\ Len(wire[s + 1]) \in Nat
         /\ Pieces(s, k) \in SUBSET (1 .. Len(wire[s + 1]))
         /\ OnWire(s, k) \in Nat
         /\ \A i \in Pieces(s, k) : /\ Upto(Pieces(s, k), i) \in Nat
                                    /\ 1 <= Upto(Pieces(s, k), i)
                                    /\ Upto(Pieces(s, k), i) <= OnWire(s, k)
<1>1. s \in Servers /\ s + 1 \in Servers /\ s + 1 \in Handlers /\ Home(s + 1) = s + 1
  BY ChainAssumption DEF Servers, Handlers, Home
<1>2. Len(wire[s + 1]) \in Nat /\ Pieces(s, k) \in SUBSET (1 .. Len(wire[s + 1]))
  BY <1>1, WireType DEF Pieces
<1> QED BY <1>1, <1>2, UptoType, UptoRange DEF OnWire

\* Request r is a change of its key, to the value it carries.
LEMMA ChangeType ==
  ASSUME NEW r \in Requests, NEW t \in Tables, Changes(r, t)
  PROVE  /\ r.key \in Keys /\ Effect(r, t)[r.key] = r.value
         /\ \A k \in Keys \ {r.key} : Effect(r, t)[k] = t[k]
BY RequestType DEF Changes, Writes, Effect, Tables

LEMMA ChangeSameKey ==
  ASSUME NEW r \in Requests, NEW t \in Tables, NEW u \in Tables,
         Changes(r, t), t[r.key] = u[r.key]
  PROVE  Changes(r, u)
BY DEF Changes

-----------------------------------------------------------------------------
(* What a step does to the changes of key k at server s: nothing, or it adds *)
(* request r to them.                                                        *)

Same(s, k) == /\ Places(s, k)' = Places(s, k) /\ Has(s, k)' = Has(s, k)
              /\ \A i \in Places(s, k) : applied'[s][i] = applied[s][i]
              /\ table'[s][k] = table[s][k]

Gains(s, k, r) ==
  \E m \in Nat :
    /\ m \notin Places(s, k) /\ Places(s, k)' = Places(s, k) \cup {m}
    /\ Has(s, k)' = Has(s, k) + 1
    /\ Upto(Places(s, k)', m) = Has(s, k) + 1
    /\ \A i \in Places(s, k) : /\ applied'[s][i] = applied[s][i]
                               /\ Upto(Places(s, k)', i) = Upto(Places(s, k), i)
    /\ applied'[s][m] = [req |-> r, on |-> table[s]]
    /\ Changes(r, table[s]) /\ r.key = k /\ table'[s][k] = r.value

LEMMA SameIfUnchanged ==
  ASSUME NEW s, NEW k, applied'[s] = applied[s], table'[s] = table[s]
  PROVE  Same(s, k)
BY DEF Same, Places, Has

LEMMA AppendPlaces ==
  ASSUME TypeOK, NEW s \in Servers, NEW k \in Keys, NEW r \in Requests,
         Changes(r, table[s]),
         applied'[s] = Append(applied[s], [req |-> r, on |-> table[s]]),
         table'[s] = Effect(r, table[s])
  PROVE  IF r.key = k THEN Gains(s, k, r) ELSE Same(s, k)
<1> DEFINE n == Len(applied[s])
           P == Places(s, k)
<1>1. n \in Nat /\ P \in SUBSET (1 .. n) /\ table[s] \in Tables /\ n + 1 \notin P
  BY AppliedType, PlacesType
<1>2. [req |-> r, on |-> table[s]] \in Writings
  BY <1>1 DEF Writings
<1>3. /\ Len(applied'[s]) = n + 1 /\ applied'[s][n + 1] = [req |-> r, on |-> table[s]]
      /\ \A i \in 1 .. n : applied'[s][i] = applied[s][i]
  BY <1>2, AppliedType, AppendProperties
<1>4. \A i \in 1 .. n + 1 : i \in 1 .. n \/ i = n + 1
  BY <1>1
<1>5. CASE r.key = k
  <2>1. Places(s, k)' = P \cup {n + 1}
    BY <1>1, <1>3, <1>4, <1>5 DEF Places
  <2>2. Has(s, k)' = Upto(P \cup {n + 1}, n + 1) /\ Has(s, k) = Upto(P, n)
    BY <1>3, <2>1 DEF Has
  <2>3. /\ \A i \in P : Upto(P \cup {n + 1}, i) = Upto(P, i)
        /\ Upto(P \cup {n + 1}, n + 1) = Upto(P, n) + 1
    BY <1>1, UptoAdd
  <2>4. table'[s][k] = r.value
    BY <1>1, <1>5, ChangeType
  <2>5. \A i \in P : applied'[s][i] = applied[s][i]
    BY <1>1, <1>3
  <2>6. n + 1 \in Nat
    BY <1>1
  <2> HIDE DEF n, P
  <2> QED BY <1>1, <1>3, <1>5, <2>1, <2>2, <2>3, <2>4, <2>5, <2>6 DEF Gains, P
<1>6. CASE r.key # k
  <2>1. Places(s, k)' = P
    BY <1>1, <1>3, <1>4, <1>6 DEF Places
  <2>2. Has(s, k)' = Upto(P, n + 1) /\ Has(s, k) = Upto(P, n)
    BY <1>3, <2>1 DEF Has
  <2>3. Upto(P, n + 1) = Upto(P, n)
    BY <1>1, UptoAdd
  <2>4. table'[s][k] = table[s][k]
    BY <1>1, <1>6, ChangeType
  <2>5. \A i \in P : applied'[s][i] = applied[s][i]
    BY <1>1, <1>3
  <2> QED BY <1>6, <2>1, <2>2, <2>3, <2>4, <2>5 DEF Same
<1> QED BY <1>5, <1>6

\* Invoke only changes its own server, and there only the key of its request.
LEMMA InvokePlaces ==
  ASSUME TypeOK, NEW h \in Handlers, NEW r \in Requests, NEW n \in 2 .. 3,
         Invokes(h, r, n), NEW s \in Servers, NEW k \in Keys
  PROVE  IF Home(h) = s /\ r.key = k /\ Changes(r, table[s])
         THEN Gains(s, k, r) ELSE Same(s, k)
<1>1. Home(h) \in Servers /\ table[s] \in Tables
  BY HomeType, AppliedType
<1>2. CASE Home(h) = s /\ Changes(r, table[s])
  <2>1. /\ applied'[s] = Append(applied[s], [req |-> r, on |-> table[s]])
        /\ table'[s] = Effect(r, table[s])
    BY <1>1, <1>2 DEF Invokes, TypeOK
  <2> QED BY <1>2, <2>1, AppendPlaces
<1>3. CASE Home(h) = s /\ ~Changes(r, table[s])
  <2>1. applied'[s] = applied[s] /\ table'[s] = table[s]
    BY <1>1, <1>3, EffectUnlessChanges DEF Invokes, TypeOK
  <2> QED BY <1>3, <2>1, SameIfUnchanged
<1>4. CASE Home(h) # s
  <2>1. applied'[s] = applied[s] /\ table'[s] = table[s]
    BY <1>1, <1>4 DEF Invokes, TypeOK
  <2> QED BY <1>4, <2>1, SameIfUnchanged
<1> QED BY <1>2, <1>3, <1>4

-----------------------------------------------------------------------------
(* The changes of key k at a server.                                       *)

LEMMA HistorySame ==
  ASSUME NEW s, NEW k, KeyHistory(s, k), Same(s, k)
  PROVE  KeyHistory(s, k)'
<1> DEFINE P == Places(s, k)
<1>1. Places(s, k)' = P /\ Has(s, k)' = Has(s, k) /\ table'[s][k] = table[s][k]
  BY DEF Same
<1>2. \A i \in P : applied'[s][i] = applied[s][i]
  BY DEF Same
<1> QED BY <1>1, <1>2 DEF KeyHistory, Upto

LEMMA HistoryGains ==
  ASSUME TypeOK, NEW s \in Servers, NEW k \in Keys, NEW r \in Requests,
         KeyHistory(s, k), Gains(s, k, r)
  PROVE  KeyHistory(s, k)'
<1> DEFINE P == Places(s, k)
           e == [req |-> r, on |-> table[s]]
<1>1. PICK m \in Nat :
        /\ m \notin P /\ Places(s, k)' = P \cup {m}
        /\ Has(s, k)' = Has(s, k) + 1
        /\ Upto(Places(s, k)', m) = Has(s, k) + 1
        /\ \A i \in P : /\ applied'[s][i] = applied[s][i]
                        /\ Upto(Places(s, k)', i) = Upto(P, i)
        /\ applied'[s][m] = e
  BY DEF Gains
<1>2. Changes(r, table[s]) /\ r.key = k /\ table'[s][k] = r.value
  BY DEF Gains
<1>3. /\ Has(s, k) \in Nat
      /\ \A i \in P : /\ Upto(P, i) \in Nat /\ Upto(P, i) <= Has(s, k)
  BY PlacesType
<1>4. e.req = r /\ e.on = table[s]
  OBVIOUS
<1>5. /\ \A i \in P : Changes(applied[s][i].req, applied[s][i].on)
      /\ \A i \in P : Upto(P, i) = Has(s, k) => table[s][k] = applied[s][i].req.value
      /\ \A i, j \in P : Upto(P, j) = Upto(P, i) + 1
                           => applied[s][j].on[k] = applied[s][i].req.value
  BY DEF KeyHistory
<1> DEFINE Q == P \cup {m}
           U(i) == Upto(Places(s, k)', i)
<1> HIDE DEF P, e
<1>6. \A i \in Q : Changes(applied'[s][i].req, applied'[s][i].on)
  BY <1>1, <1>2, <1>4, <1>5
<1>7. \A i \in Q : U(i) = Has(s, k)' => table'[s][k] = applied'[s][i].req.value
  <2> SUFFICES ASSUME NEW i \in Q, U(i) = Has(s, k)'
               PROVE  table'[s][k] = applied'[s][i].req.value
    OBVIOUS
  <2>1. ASSUME i \in P PROVE FALSE
    <3>1. Upto(P, i) = Has(s, k) + 1
      BY <1>1, <2>1
    <3>2. Upto(P, i) \in Nat /\ Upto(P, i) <= Has(s, k) /\ Has(s, k) \in Nat
      BY <1>3, <2>1
    <3> QED BY <3>1, <3>2
  <2> QED BY <1>1, <1>2, <1>4, <2>1
<1>8. \A i, j \in Q : U(j) = U(i) + 1 => applied'[s][j].on[k] = applied'[s][i].req.value
  <2> SUFFICES ASSUME NEW i \in Q, NEW j \in Q, U(j) = U(i) + 1
               PROVE  applied'[s][j].on[k] = applied'[s][i].req.value
    OBVIOUS
  <2>1. CASE i = m
    <3>1. U(i) = Has(s, k) + 1
      BY <1>1, <2>1
    <3>2. U(j) = Has(s, k) + 2
      BY <1>3, <3>1
    <3>3. CASE j \in P
      <4>1. Upto(P, j) = Has(s, k) + 2 /\ Upto(P, j) <= Has(s, k)
        BY <1>1, <1>3, <3>2, <3>3
      <4> QED BY <1>3, <4>1
    <3>4. CASE j = m
      <4>1. Has(s, k) + 1 = Has(s, k) + 2
        BY <1>1, <3>2, <3>4
      <4> QED BY <1>3, <4>1
    <3> QED BY <3>3, <3>4
  <2>2. CASE i \in P /\ j \in P
    BY <1>1, <1>5, <2>2
  <2>3. CASE i \in P /\ j = m
    <3>1. U(i) = Upto(P, i) /\ U(j) = Has(s, k) + 1 /\ Upto(P, i) \in Nat
      BY <1>1, <1>3, <2>3
    <3>2. Upto(P, i) = Has(s, k)
      BY <1>3, <3>1
    <3>3. table[s][k] = applied[s][i].req.value
      BY <1>5, <2>3, <3>2
    <3> QED BY <1>1, <1>4, <2>3, <3>3
  <2> QED BY <2>1, <2>2, <2>3
<1> HIDE DEF Q
<1>9. Places(s, k)' = Q
  BY <1>1 DEF Q
<1> QED BY <1>6, <1>7, <1>8, <1>9 DEF KeyHistory, Upto

-----------------------------------------------------------------------------
(* The copy of key k at the next server.                                   *)

LEMMA CopySame ==
  ASSUME NEW s, NEW k, KeyCopy(s, k), Same(s, k), Same(s + 1, k)
  PROVE  KeyCopy(s, k)'
<1>1. /\ Places(s, k)' = Places(s, k) /\ Has(s, k)' = Has(s, k) /\ table'[s][k] = table[s][k]
      /\ \A i \in Places(s, k) : applied'[s][i] = applied[s][i]
  BY DEF Same
<1>2. /\ Places(s + 1, k)' = Places(s + 1, k) /\ Has(s + 1, k)' = Has(s + 1, k)
      /\ table'[s + 1][k] = table[s + 1][k]
      /\ \A i \in Places(s + 1, k) : applied'[s + 1][i] = applied[s + 1][i]
  BY DEF Same
<1> DEFINE P == Places(s, k)
           D == Places(s + 1, k)
<1>3. \A i \in D : \E j \in P : /\ Upto(P, j) = Upto(D, i)
                                /\ applied'[s][j].req = applied'[s + 1][i].req
                                /\ applied'[s][j].on[k] = applied'[s + 1][i].on[k]
  <2> SUFFICES ASSUME NEW i \in D
               PROVE  \E j \in P : /\ Upto(P, j) = Upto(D, i)
                                   /\ applied'[s][j].req = applied'[s + 1][i].req
                                   /\ applied'[s][j].on[k] = applied'[s + 1][i].on[k]
    OBVIOUS
  <2>1. PICK j \in P : /\ Upto(P, j) = Upto(D, i)
                       /\ applied[s][j].req = applied[s + 1][i].req
                       /\ applied[s][j].on[k] = applied[s + 1][i].on[k]
    BY DEF KeyCopy
  <2>2. applied'[s][j] = applied[s][j] /\ applied'[s + 1][i] = applied[s + 1][i]
    BY <1>1, <1>2
  <2> QED BY <2>1, <2>2
<1>4. /\ Has(s, k)' = Has(s + 1, k)' => table'[s + 1][k] = table'[s][k]
      /\ \A i \in P : Upto(P, i) = Has(s + 1, k)' + 1 => applied'[s][i].on[k] = table'[s + 1][k]
  BY <1>1, <1>2 DEF KeyCopy
<1>5. Places(s, k)' = P /\ Places(s + 1, k)' = D
  BY <1>1, <1>2
<1> HIDE DEF P, D
<1> QED BY <1>3, <1>4, <1>5 DEF KeyCopy, Upto

\* The server before changes k once more.
LEMMA CopyBefore ==
  ASSUME TypeOK, NEW s \in 1 .. N - 1, NEW k \in Keys, NEW r \in Requests,
         KeyCopy(s, k), Has(s + 1, k) <= Has(s, k),
         Gains(s, k, r), Same(s + 1, k)
  PROVE  KeyCopy(s, k)'
<1> DEFINE P == Places(s, k)
           e == [req |-> r, on |-> table[s]]
           D == Places(s + 1, k)
<1>1. PICK m \in Nat :
        /\ m \notin P /\ Places(s, k)' = P \cup {m}
        /\ Has(s, k)' = Has(s, k) + 1
        /\ Upto(Places(s, k)', m) = Has(s, k) + 1
        /\ \A i \in P : /\ applied'[s][i] = applied[s][i]
                        /\ Upto(Places(s, k)', i) = Upto(P, i)
        /\ applied'[s][m] = e
  BY DEF Gains
<1>2. /\ Places(s + 1, k)' = D /\ Has(s + 1, k)' = Has(s + 1, k)
      /\ table'[s + 1][k] = table[s + 1][k]
      /\ \A i \in D : applied'[s + 1][i] = applied[s + 1][i]
  BY DEF Same
<1>3. Has(s, k) \in Nat /\ Has(s + 1, k) \in Nat
  BY PiecesType, PlacesType
<1>4. e.req = r /\ e.on = table[s]
  OBVIOUS
<1>5. /\ \A i \in D : \E j \in P : /\ Upto(P, j) = Upto(D, i)
                                   /\ applied[s][j].req = applied[s + 1][i].req
                                   /\ applied[s][j].on[k] = applied[s + 1][i].on[k]
      /\ Has(s, k) = Has(s + 1, k) => table[s + 1][k] = table[s][k]
      /\ \A i \in P : Upto(P, i) = Has(s + 1, k) + 1 => applied[s][i].on[k] = table[s + 1][k]
  BY DEF KeyCopy
<1> DEFINE Q == P \cup {m}
           U(i) == Upto(Places(s, k)', i)
<1> HIDE DEF P, e, D
<1>6. \A i \in D : \E j \in Q : /\ U(j) = Upto(D, i)
                                /\ applied'[s][j].req = applied'[s + 1][i].req
                                /\ applied'[s][j].on[k] = applied'[s + 1][i].on[k]
  <2> SUFFICES ASSUME NEW i \in D
               PROVE  \E j \in Q : /\ U(j) = Upto(D, i)
                                   /\ applied'[s][j].req = applied'[s + 1][i].req
                                   /\ applied'[s][j].on[k] = applied'[s + 1][i].on[k]
    OBVIOUS
  <2>1. PICK j \in P : /\ Upto(P, j) = Upto(D, i)
                       /\ applied[s][j].req = applied[s + 1][i].req
                       /\ applied[s][j].on[k] = applied[s + 1][i].on[k]
    BY <1>5
  <2>2. j \in Q /\ U(j) = Upto(D, i)
    BY <1>1, <2>1
  <2>3. applied'[s][j] = applied[s][j] /\ applied'[s + 1][i] = applied[s + 1][i]
    BY <1>1, <1>2
  <2> QED BY <2>1, <2>2, <2>3
<1>7. Has(s, k)' # Has(s + 1, k)'
  BY <1>1, <1>2, <1>3
<1>8. \A i \in Q : U(i) = Has(s + 1, k)' + 1 => applied'[s][i].on[k] = table'[s + 1][k]
  <2> SUFFICES ASSUME NEW i \in Q, U(i) = Has(s + 1, k) + 1
               PROVE  applied'[s][i].on[k] = table[s + 1][k]
    BY <1>2
  <2>1. CASE i \in P
    BY <1>1, <1>5, <2>1
  <2>2. CASE i = m
    <3>1. Has(s, k) = Has(s + 1, k)
      BY <1>1, <1>3, <2>2
    <3> QED BY <1>1, <1>4, <1>5, <2>2, <3>1
  <2> QED BY <2>1, <2>2
<1> HIDE DEF Q
<1>9. Places(s, k)' = Q
  BY <1>1 DEF Q
<1> QED BY <1>2, <1>6, <1>7, <1>8, <1>9 DEF KeyCopy, Upto

\* The next server changes k, as the server before did next.
LEMMA CopyAfter ==
  ASSUME TypeOK, NEW s \in 1 .. N - 1, NEW k \in Keys, NEW r \in Requests,
         KeyHistory(s, k), KeyCopy(s, k), Nth(s, k, Has(s + 1, k) + 1, r),
         Same(s, k), Gains(s + 1, k, r)
  PROVE  KeyCopy(s, k)'
<1> DEFINE P == Places(s, k)
           D == Places(s + 1, k)
           e == [req |-> r, on |-> table[s + 1]]
<1>1. PICK m \in Nat :
        /\ m \notin D /\ Places(s + 1, k)' = D \cup {m}
        /\ Has(s + 1, k)' = Has(s + 1, k) + 1
        /\ Upto(Places(s + 1, k)', m) = Has(s + 1, k) + 1
        /\ \A i \in D : /\ applied'[s + 1][i] = applied[s + 1][i]
                        /\ Upto(Places(s + 1, k)', i) = Upto(D, i)
        /\ applied'[s + 1][m] = e
  BY DEF Gains
<1>2. table'[s + 1][k] = r.value
  BY DEF Gains
<1>3. /\ Places(s, k)' = P /\ Has(s, k)' = Has(s, k) /\ table'[s][k] = table[s][k]
      /\ \A i \in P : applied'[s][i] = applied[s][i]
  BY DEF Same
<1>4. PICK p \in P : Upto(P, p) = Has(s + 1, k) + 1 /\ applied[s][p].req = r
  BY DEF Nth
<1>5. e.req = r /\ e.on = table[s + 1]
  OBVIOUS
<1>6. /\ \A i \in D : \E j \in P : /\ Upto(P, j) = Upto(D, i)
                                   /\ applied[s][j].req = applied[s + 1][i].req
                                   /\ applied[s][j].on[k] = applied[s + 1][i].on[k]
      /\ \A i \in P : Upto(P, i) = Has(s + 1, k) + 1 => applied[s][i].on[k] = table[s + 1][k]
  BY DEF KeyCopy
<1>7. /\ \A i \in P : Upto(P, i) = Has(s, k) => table[s][k] = applied[s][i].req.value
      /\ \A i, j \in P : Upto(P, j) = Upto(P, i) + 1
                           => applied[s][j].on[k] = applied[s][i].req.value
  BY DEF KeyHistory
<1> DEFINE Q == D \cup {m}
           U(i) == Upto(Places(s + 1, k)', i)
<1> HIDE DEF P, e, D
<1>8. \A i \in Q : \E j \in P : /\ Upto(P, j) = U(i)
                                /\ applied'[s][j].req = applied'[s + 1][i].req
                                /\ applied'[s][j].on[k] = applied'[s + 1][i].on[k]
  <2> SUFFICES ASSUME NEW i \in Q
               PROVE  \E j \in P : /\ Upto(P, j) = U(i)
                                   /\ applied'[s][j].req = applied'[s + 1][i].req
                                   /\ applied'[s][j].on[k] = applied'[s + 1][i].on[k]
    OBVIOUS
  <2>1. CASE i \in D
    <3>1. PICK j \in P : /\ Upto(P, j) = Upto(D, i)
                         /\ applied[s][j].req = applied[s + 1][i].req
                         /\ applied[s][j].on[k] = applied[s + 1][i].on[k]
      BY <1>6, <2>1
    <3>2. applied'[s][j] = applied[s][j] /\ applied'[s + 1][i] = applied[s + 1][i]
      BY <1>1, <1>3, <2>1
    <3>3. Upto(P, j) = U(i)
      BY <1>1, <2>1, <3>1
    <3> QED BY <3>1, <3>2, <3>3
  <2>2. CASE i = m
    <3>1. applied'[s][p] = applied[s][p] /\ applied[s][p].on[k] = table[s + 1][k]
      BY <1>3, <1>4, <1>6
    <3>2. Upto(P, p) = U(i)
      BY <1>1, <1>4, <2>2
    <3> QED BY <1>1, <1>4, <1>5, <2>2, <3>1, <3>2
  <2> QED BY <2>1, <2>2
<1>9. Has(s, k)' = Has(s + 1, k)' => table'[s + 1][k] = table'[s][k]
  BY <1>1, <1>2, <1>3, <1>4, <1>7
<1>10. \A i \in P : Upto(P, i) = Has(s + 1, k)' + 1 => applied'[s][i].on[k] = table'[s + 1][k]
  BY <1>1, <1>2, <1>3, <1>4, <1>7
<1> HIDE DEF Q
<1>11. Places(s + 1, k)' = Q /\ Places(s, k)' = P
  BY <1>1, <1>3 DEF Q
<1> QED BY <1>8, <1>9, <1>10, <1>11 DEF KeyCopy, Upto

-----------------------------------------------------------------------------
(* The changes of key k by their numbers, and the link to the next server. *)

\* After the step, the change of k numbered n at server s is request r.
NthNext(s, k, n, r) == \E i \in Places(s, k)' : /\ Upto(Places(s, k)', i) = n
                                                /\ applied'[s][i].req = r

LEMMA NthSame ==
  ASSUME NEW s, NEW k, NEW n, NEW r, Same(s, k), Nth(s, k, n, r)
  PROVE  NthNext(s, k, n, r)
BY DEF Same, Nth, NthNext

LEMMA NthGains ==
  ASSUME NEW s, NEW k, NEW n, NEW r, NEW q, Gains(s, k, q), Nth(s, k, n, r)
  PROVE  NthNext(s, k, n, r)
<1>1. PICK i \in Places(s, k) : Upto(Places(s, k), i) = n /\ applied[s][i].req = r
  BY DEF Nth
<1>2. i \in Places(s, k)' /\ Upto(Places(s, k)', i) = n /\ applied'[s][i] = applied[s][i]
  BY <1>1 DEF Gains
<1> QED BY <1>1, <1>2 DEF NthNext

LEMMA NthGained ==
  ASSUME NEW s, NEW k, NEW q, Gains(s, k, q)
  PROVE  NthNext(s, k, Has(s, k)', q)
<1>1. PICK m \in Nat : /\ m \in Places(s, k)' /\ Upto(Places(s, k)', m) = Has(s, k)'
                       /\ applied'[s][m] = [req |-> q, on |-> table[s]]
  BY DEF Gains
<1>2. applied'[s][m].req = q
  BY <1>1
<1> QED BY <1>1, <1>2 DEF NthNext

LEMMA BegunShift ==
  ASSUME NEW n \in Nat, NEW g \in 0 .. 1
  PROVE  Begun(n + 2 * g) = Begun(n) + g /\ (Odd(n + 2 * g) <=> Odd(n)) /\ Begun(n) \in Nat
<1>1. CASE g = 0
  <2>1. n + 2 * g = n /\ Begun(n) \in Nat
    BY <1>1, BegunType
  <2> QED BY <1>1, <2>1
<1>2. CASE g = 1
  BY <1>2, BegunCount, BegunType
<1> QED BY <1>1, <1>2

\* Who is forwarding a change of k from server s stays so.
BusyKept(s, k) ==
  \A h \in Handlers : \A label \in {"size", "body"} :
    /\ Busy(h, s, k, label)' <=> Busy(h, s, k, label)
    /\ Busy(h, s, k, label) => req'[h] = req[h]

LEMMA PendingKept ==
  ASSUME NEW s, NEW k, BusyKept(s, k)
  PROVE  /\ Pending(s, k, "size")' <=> Pending(s, k, "size")
         /\ Pending(s, k, "body")' <=> Pending(s, k, "body")
<1>1. \A h \in Handlers : /\ Busy(h, s, k, "size")' <=> Busy(h, s, k, "size")
                          /\ Busy(h, s, k, "body")' <=> Busy(h, s, k, "body")
  BY DEF BusyKept
<1> QED BY <1>1 DEF Pending

\* The requests of those handlers are still the last change of k.
LEMMA BusyNth ==
  ASSUME NEW s, NEW k, Same(s, k), BusyKept(s, k),
         \A h \in Handlers : Busy(h, s, k, "size") \/ Busy(h, s, k, "body")
                               => Nth(s, k, Has(s, k), req[h])
  PROVE  \A h \in Handlers : Busy(h, s, k, "size")' \/ Busy(h, s, k, "body")'
                               => NthNext(s, k, Has(s, k)', req'[h])
<1> SUFFICES ASSUME NEW h \in Handlers, Busy(h, s, k, "size")' \/ Busy(h, s, k, "body")'
             PROVE  NthNext(s, k, Has(s, k)', req'[h])
  OBVIOUS
<1>1. /\ Busy(h, s, k, "size") \/ Busy(h, s, k, "body")
      /\ req'[h] = req[h]
  BY DEF BusyKept
<1>2. Has(s, k)' = Has(s, k)
  BY DEF Same
<1>3. NthNext(s, k, Has(s, k), req[h])
  BY <1>1, NthSame
<1> QED BY <1>1, <1>2, <1>3

\* What has to be shown of a link after a step.
LinkNext(s, k, lost) ==
  /\ Has(s, k)' = Has(s + 1, k)' + Begun(OnWire(s, k)' + lost)
                   + (IF Pending(s, k, "size")' THEN 1 ELSE 0)
  /\ Pending(s, k, "body")' <=> Odd(OnWire(s, k)' + lost)
  /\ \A i \in Pieces(s, k)' : \E r \in Requests :
        /\ NthNext(s, k, Has(s + 1, k)' + Begun(Upto(Pieces(s, k)', i) + lost), r)
        /\ wire'[s + 1][i] = Piece(Upto(Pieces(s, k)', i) + lost, r)
  /\ \A h \in Handlers : Busy(h, s, k, "size")' \/ Busy(h, s, k, "body")'
                           => NthNext(s, k, Has(s, k)', req'[h])

LEMMA LinkIsNext ==
  ASSUME NEW s, NEW k, NEW lost, LinkNext(s, k, lost)
  PROVE  KeyLink(s, k, lost)'
BY DEF LinkNext, KeyLink, NthNext, Nth, Upto, Begun, Odd, Piece, Size, Body

\* A step leaves the pieces about k as they are.
SamePieces(s, k) == /\ Pieces(s, k)' = Pieces(s, k) /\ OnWire(s, k)' = OnWire(s, k)
                    /\ \A i \in Pieces(s, k) : wire'[s + 1][i] = wire[s + 1][i]

\* A step that neither changes k at the two servers nor writes or reads.
LEMMA LinkSame ==
  ASSUME NEW s, NEW k, NEW lost, KeyLink(s, k, lost), Same(s, k), Same(s + 1, k),
         SamePieces(s, k), BusyKept(s, k)
  PROVE  KeyLink(s, k, lost)'
<1>1. /\ Has(s, k)' = Has(s, k) /\ Has(s + 1, k)' = Has(s + 1, k)
      /\ Pending(s, k, "size")' <=> Pending(s, k, "size")
      /\ Pending(s, k, "body")' <=> Pending(s, k, "body")
  BY PendingKept DEF Same
<1>0. /\ Pieces(s, k)' = Pieces(s, k) /\ OnWire(s, k)' = OnWire(s, k)
      /\ \A i \in Pieces(s, k) : wire'[s + 1][i] = wire[s + 1][i]
  BY DEF SamePieces
<1>2. \A i \in Pieces(s, k) : \E r \in Requests :
        /\ NthNext(s, k, Has(s + 1, k) + Begun(Upto(Pieces(s, k), i) + lost), r)
        /\ wire'[s + 1][i] = Piece(Upto(Pieces(s, k), i) + lost, r)
  <2> SUFFICES ASSUME NEW i \in Pieces(s, k)
               PROVE  \E r \in Requests :
                        /\ NthNext(s, k, Has(s + 1, k) + Begun(Upto(Pieces(s, k), i) + lost), r)
                        /\ wire'[s + 1][i] = Piece(Upto(Pieces(s, k), i) + lost, r)
    OBVIOUS
  <2>1. PICK r \in Requests :
          /\ Nth(s, k, Has(s + 1, k) + Begun(Upto(Pieces(s, k), i) + lost), r)
          /\ wire[s + 1][i] = Piece(Upto(Pieces(s, k), i) + lost, r)
    BY DEF KeyLink
  <2> QED BY <1>0, <2>1, NthSame
<1>3. \A h \in Handlers : Busy(h, s, k, "size")' \/ Busy(h, s, k, "body")'
                            => NthNext(s, k, Has(s, k)', req'[h])
  BY BusyNth DEF KeyLink
<1>4. /\ Has(s, k) = Has(s + 1, k) + Begun(OnWire(s, k) + lost)
                   + (IF Pending(s, k, "size") THEN 1 ELSE 0)
      /\ Pending(s, k, "body") <=> Odd(OnWire(s, k) + lost)
  BY DEF KeyLink
<1>5. LinkNext(s, k, lost)
  BY <1>0, <1>1, <1>2, <1>3, <1>4 DEF LinkNext
<1> QED BY <1>5, LinkIsNext

\* Server s + 1 reads n pieces, d of them about k, and changes k g times.
LEMMA LinkRead ==
  ASSUME TypeOK, NEW s \in 1 .. N - 1, NEW k \in Keys, NEW lost \in 0 .. 1,
         KeyLink(s, k, lost), Same(s, k), BusyKept(s, k),
         NEW g \in 0 .. 1, Has(s + 1, k)' = Has(s + 1, k) + g,
         NEW n \in Nat, n <= Len(wire[s + 1]),
         wire'[s + 1] = SubSeq(wire[s + 1], n + 1, Len(wire[s + 1])),
         NEW lost2 \in 0 .. 1, Upto(Pieces(s, k), n) + lost = lost2 + 2 * g
  PROVE  KeyLink(s, k, lost2)'
<1> DEFINE w == wire[s + 1]
           P == Pieces(s, k)
           Q == Pieces(s, k)'
           d == Upto(P, n)
<1>1. /\ s \in Servers /\ s + 1 \in Servers /\ s + 1 \in Handlers
      /\ Len(w) \in Nat /\ P \in SUBSET (1 .. Len(w)) /\ OnWire(s, k) \in Nat
      /\ Has(s + 1, k) \in Nat /\ Has(s, k) \in Nat /\ d \in Nat
      /\ \A i \in 1 .. Len(w) : w[i] \in Frames
  BY PiecesType, PlacesType, UptoType, WireType
<1>a. Len(w) \in Nat /\ n <= Len(w) /\ Len(w) - n \in Nat
  BY <1>1
<1>b. d + lost = lost2 + 2 * g /\ d \in Nat
  BY <1>1
<1>2. /\ Len(wire'[s + 1]) = Len(w) - n /\ Len(w) - n \in Nat
      /\ \A i \in 1 .. Len(w) - n : wire'[s + 1][i] = w[i + n]
  <2>1. \A i \in n + 1 .. Len(w) : w[i] \in Frames
    BY <1>1
  <2>2. /\ Len(wire'[s + 1]) = IF n + 1 <= Len(w) THEN Len(w) - (n + 1) + 1 ELSE 0
        /\ \A i \in 1 .. Len(w) - (n + 1) + 1 : wire'[s + 1][i] = w[(n + 1) + i - 1]
    BY <1>1, <2>1, SubSeqProperties
  <2> HIDE DEF w
  <2>3. Len(w) - (n + 1) + 1 = Len(w) - n /\ (n + 1 > Len(w) => Len(w) - n = 0)
    BY <1>a
  <2>4. \A i \in 1 .. Len(w) - n : (n + 1) + i - 1 = i + n
    BY <1>a
  <2>5. Len(wire'[s + 1]) = Len(w) - n
    <3>1. CASE n + 1 <= Len(w)
      BY <2>2, <2>3, <3>1
    <3>2. CASE ~(n + 1 <= Len(w))
      <4>1. Len(wire'[s + 1]) = 0
        BY <2>2, <3>2
      <4>2. Len(w) - n = 0
        BY <1>a, <3>2
      <4> QED BY <4>1, <4>2
    <3> QED BY <3>1, <3>2
  <2>6. \A i \in 1 .. Len(w) - n : wire'[s + 1][i] = w[i + n]
    BY <2>2, <2>3, <2>4
  <2> QED BY <1>a, <2>5, <2>6
<1>3. \A m \in Nat : m >= 1 => (m \in Q <=> m + n \in P)
  <2> SUFFICES ASSUME NEW m \in Nat, m >= 1 PROVE m \in Q <=> m + n \in P
    OBVIOUS
  <2>1. m \in 1 .. Len(w) - n <=> m + n \in 1 .. Len(w)
    <3> HIDE DEF w
    <3> QED BY <1>a
  <2>2. m \in Q <=> m \in 1 .. Len(w) - n /\ wire'[s + 1][m].of.key = k
    BY <1>2 DEF Pieces
  <2>3. m + n \in P <=> m + n \in 1 .. Len(w) /\ w[m + n].of.key = k
    BY DEF Pieces
  <2> QED BY <1>2, <2>1, <2>2, <2>3
<1>4. \A i \in Nat : Upto(P, i + n) = Upto(Q, i) + d /\ Upto(Q, i) \in Nat
  BY <1>3, UptoShift, UptoType
<1>5. /\ OnWire(s, k)' \in Nat /\ OnWire(s, k) = OnWire(s, k)' + d
  <2>1. OnWire(s, k)' = Upto(Q, Len(w) - n)
    BY <1>2 DEF OnWire
  <2>2. (Len(w) - n) + n = Len(w)
    BY <1>1
  <2>3. OnWire(s, k) = Upto(P, (Len(w) - n) + n)
    BY <2>2 DEF OnWire
  <2> QED BY <1>2, <1>4, <2>1, <2>3
<1>6. /\ Has(s, k) = Has(s + 1, k) + Begun(OnWire(s, k) + lost)
                   + (IF Pending(s, k, "size") THEN 1 ELSE 0)
      /\ Pending(s, k, "body") <=> Odd(OnWire(s, k) + lost)
  BY DEF KeyLink
<1>7. /\ Has(s, k)' = Has(s, k)
      /\ Pending(s, k, "size")' <=> Pending(s, k, "size")
      /\ Pending(s, k, "body")' <=> Pending(s, k, "body")
  BY PendingKept DEF Same
<1> HIDE DEF w, P, Q, d
<1>8. \A x \in Nat : /\ x + d + lost = (x + lost2) + 2 * g /\ x + lost2 \in Nat
                     /\ Begun(x + d + lost) = Begun(x + lost2) + g
                     /\ Odd(x + d + lost) <=> Odd(x + lost2)
                     /\ Begun(x + lost2) \in Nat
  <2> SUFFICES ASSUME NEW x \in Nat
               PROVE  /\ x + d + lost = (x + lost2) + 2 * g /\ x + lost2 \in Nat
                      /\ Begun(x + d + lost) = Begun(x + lost2) + g
                      /\ Odd(x + d + lost) <=> Odd(x + lost2)
                      /\ Begun(x + lost2) \in Nat
    OBVIOUS
  <2>1. x + d + lost = (x + lost2) + 2 * g /\ x + lost2 \in Nat
    BY <1>b
  <2>2. /\ Begun((x + lost2) + 2 * g) = Begun(x + lost2) + g
        /\ Odd((x + lost2) + 2 * g) <=> Odd(x + lost2)
        /\ Begun(x + lost2) \in Nat
    BY <2>1, BegunShift
  <2> QED BY <2>1, <2>2
<1>9. /\ Has(s, k)' = Has(s + 1, k)' + Begun(OnWire(s, k)' + lost2)
                   + (IF Pending(s, k, "size")' THEN 1 ELSE 0)
      /\ Pending(s, k, "body")' <=> Odd(OnWire(s, k)' + lost2)
  <2>1. /\ Begun(OnWire(s, k) + lost) = Begun(OnWire(s, k)' + lost2) + g
        /\ Odd(OnWire(s, k) + lost) <=> Odd(OnWire(s, k)' + lost2)
        /\ Begun(OnWire(s, k)' + lost2) \in Nat
    BY <1>5, <1>8
  <2>2. Has(s + 1, k) + (Begun(OnWire(s, k)' + lost2) + g)
          = (Has(s + 1, k) + g) + Begun(OnWire(s, k)' + lost2)
    BY <1>1, <2>1
  <2> QED BY <1>6, <1>7, <2>1, <2>2
<1>10. \A i \in Q : \E r \in Requests :
        /\ NthNext(s, k, Has(s + 1, k)' + Begun(Upto(Q, i) + lost2), r)
        /\ wire'[s + 1][i] = Piece(Upto(Q, i) + lost2, r)
  <2> SUFFICES ASSUME NEW i \in Q
               PROVE  \E r \in Requests :
                        /\ NthNext(s, k, Has(s + 1, k)' + Begun(Upto(Q, i) + lost2), r)
                        /\ wire'[s + 1][i] = Piece(Upto(Q, i) + lost2, r)
    OBVIOUS
  <2>1. i \in Nat /\ i >= 1 /\ i \in 1 .. Len(w) - n
    BY <1>2 DEF Q, Pieces
  <2>2. i + n \in P /\ wire'[s + 1][i] = w[i + n]
    BY <1>2, <1>3, <2>1
  <2>3. PICK r \in Requests :
          /\ Nth(s, k, Has(s + 1, k) + Begun(Upto(P, i + n) + lost), r)
          /\ w[i + n] = Piece(Upto(P, i + n) + lost, r)
    BY <2>2 DEF KeyLink, P, w
  <2>4. /\ Upto(P, i + n) + lost = Upto(Q, i) + d + lost /\ Upto(Q, i) \in Nat
    BY <1>4, <2>1
  <2>5. /\ Begun(Upto(P, i + n) + lost) = Begun(Upto(Q, i) + lost2) + g
        /\ Odd(Upto(P, i + n) + lost) <=> Odd(Upto(Q, i) + lost2)
        /\ Begun(Upto(Q, i) + lost2) \in Nat
    BY <1>8, <2>4
  <2>6. Has(s + 1, k) + Begun(Upto(P, i + n) + lost)
          = Has(s + 1, k)' + Begun(Upto(Q, i) + lost2)
    BY <1>1, <2>5
  <2>7. Piece(Upto(P, i + n) + lost, r) = Piece(Upto(Q, i) + lost2, r)
    BY <2>5 DEF Piece
  <2>8. NthNext(s, k, Has(s + 1, k) + Begun(Upto(P, i + n) + lost), r)
    BY <2>3, NthSame
  <2> QED BY <2>2, <2>3, <2>6, <2>7, <2>8
<1>11. \A h \in Handlers : Busy(h, s, k, "size")' \/ Busy(h, s, k, "body")'
                            => NthNext(s, k, Has(s, k)', req'[h])
  BY BusyNth DEF KeyLink
<1>12. LinkNext(s, k, lost2)
  BY <1>9, <1>10, <1>11 DEF LinkNext, Q
<1> QED BY <1>12, LinkIsNext

-----------------------------------------------------------------------------
(* A step that writes one more piece.                                      *)

\* No handler but h is forwarding a change of k from server s.
Alone(h, s, k) == \A g \in Handlers \ {h} : ~Busy(g, s, k, "size") /\ ~Busy(g, s, k, "body")

\* A step writes one more piece about k.
Extends(s, k, p) ==
  \E m \in Nat :
    /\ Pieces(s, k)' = Pieces(s, k) \cup {m} /\ wire'[s + 1][m] = p
    /\ OnWire(s, k)' = OnWire(s, k) + 1 /\ Upto(Pieces(s, k)', m) = OnWire(s, k) + 1
    /\ \A i \in Pieces(s, k) : /\ Upto(Pieces(s, k)', i) = Upto(Pieces(s, k), i)
                                /\ wire'[s + 1][i] = wire[s + 1][i]

\* What becomes of the pieces about k when one more piece is written.
LEMMA AppendPieces ==
  ASSUME TypeOK, NEW s \in 1 .. N - 1, NEW k, NEW p \in Frames,
         wire'[s + 1] = Append(wire[s + 1], p)
  PROVE  IF p.of.key = k THEN Extends(s, k, p) ELSE SamePieces(s, k)
<1> DEFINE n == Len(wire[s + 1])
           P == Pieces(s, k)
<1>1. n \in Nat /\ P \in SUBSET (1 .. n) /\ s + 1 \in Handlers /\ wire[s + 1] \in Seq(Frames)
  BY PiecesType, WireType
<1>2. /\ Len(wire'[s + 1]) = n + 1 /\ wire'[s + 1][n + 1] = p
      /\ \A i \in 1 .. n : wire'[s + 1][i] = wire[s + 1][i]
  BY <1>1, AppendProperties
<1>3. \A i \in 1 .. n + 1 : i \in 1 .. n \/ i = n + 1
  BY <1>1
<1>4. /\ \A i \in P : Upto(P \cup {n + 1}, i) = Upto(P, i)
      /\ Upto(P \cup {n + 1}, n + 1) = Upto(P, n) + 1
      /\ Upto(P, n + 1) = Upto(P, n)
  BY <1>1, UptoAdd
<1>5. OnWire(s, k) = Upto(P, n) /\ OnWire(s, k)' = Upto(Pieces(s, k)', n + 1) /\ n + 1 \in Nat
  BY <1>1, <1>2 DEF OnWire
<1>6. \A i \in P : wire'[s + 1][i] = wire[s + 1][i]
  BY <1>1, <1>2
<1>7. CASE p.of.key = k
  <2>1. Pieces(s, k)' = P \cup {n + 1}
    BY <1>1, <1>2, <1>3, <1>7 DEF Pieces
  <2> HIDE DEF n, P
  <2> QED BY <1>2, <1>4, <1>5, <1>6, <1>7, <2>1 DEF P, Extends
<1>8. CASE p.of.key # k
  <2>1. Pieces(s, k)' = P
    BY <1>1, <1>2, <1>3, <1>8 DEF Pieces
  <2> QED BY <1>4, <1>5, <1>6, <1>8, <2>1 DEF SamePieces
<1> QED BY <1>7, <1>8

\* Handler h of server s has applied a change of k that it is to forward.
LEMMA LinkGrow ==
  ASSUME TypeOK, NEW s \in 1 .. N - 1, NEW k \in Keys, NEW lost \in 0 .. 1,
         KeyLink(s, k, lost), NEW r \in Requests, Gains(s, k, r), Same(s + 1, k),
         wire'[s + 1] = wire[s + 1],
         NEW h \in Handlers, Home(h) = s, pc[h] = "receive", Alone(h, s, k),
         pc' = [pc EXCEPT ![h] = "size"], req' = [req EXCEPT ![h] = r]
  PROVE  KeyLink(s, k, lost)'
<1>1. /\ s \in Servers /\ Has(s, k) \in Nat /\ Has(s + 1, k) \in Nat
      /\ OnWire(s, k) \in Nat /\ OnWire(s, k) + lost \in Nat
  BY PiecesType, PlacesType
<1>2. /\ Has(s, k)' = Has(s, k) + 1 /\ Has(s + 1, k)' = Has(s + 1, k) /\ r.key = k
  BY DEF Gains, Same
<1>3. Pieces(s, k)' = Pieces(s, k) /\ OnWire(s, k)' = OnWire(s, k)
  BY DEF Pieces, OnWire
<1>4. /\ ~Pending(s, k, "size") /\ ~Pending(s, k, "body")
  BY DEF Pending, Alone, Busy
<1>5. /\ pc'[h] = "size" /\ req'[h] = r
      /\ \A g \in Handlers \ {h} : pc'[g] = pc[g] /\ req'[g] = req[g]
  BY DEF TypeOK
<1>6. Busy(h, s, k, "size")' /\ ~Busy(h, s, k, "body")'
  BY <1>2, <1>5 DEF Busy
<1>7. \A g \in Handlers \ {h} : ~Busy(g, s, k, "size")' /\ ~Busy(g, s, k, "body")'
  BY <1>5 DEF Alone, Busy
<1>8. Pending(s, k, "size")' /\ ~Pending(s, k, "body")'
  BY <1>6, <1>7 DEF Pending
<1>9. /\ Has(s, k) = Has(s + 1, k) + Begun(OnWire(s, k) + lost) /\ ~Odd(OnWire(s, k) + lost)
  <2>1. /\ Has(s, k) = Has(s + 1, k) + Begun(OnWire(s, k) + lost) + 0
        /\ ~Odd(OnWire(s, k) + lost)
    BY <1>4 DEF KeyLink
  <2> QED BY <1>1, <2>1, BegunType
<1>10. \A i \in Pieces(s, k) : \E q \in Requests :
        /\ NthNext(s, k, Has(s + 1, k) + Begun(Upto(Pieces(s, k), i) + lost), q)
        /\ wire'[s + 1][i] = Piece(Upto(Pieces(s, k), i) + lost, q)
  <2> SUFFICES ASSUME NEW i \in Pieces(s, k)
               PROVE  \E q \in Requests :
                        /\ NthNext(s, k, Has(s + 1, k) + Begun(Upto(Pieces(s, k), i) + lost), q)
                        /\ wire'[s + 1][i] = Piece(Upto(Pieces(s, k), i) + lost, q)
    OBVIOUS
  <2>1. PICK q \in Requests :
          /\ Nth(s, k, Has(s + 1, k) + Begun(Upto(Pieces(s, k), i) + lost), q)
          /\ wire[s + 1][i] = Piece(Upto(Pieces(s, k), i) + lost, q)
    BY DEF KeyLink
  <2> QED BY <2>1, NthGains
<1>11. \A g \in Handlers : Busy(g, s, k, "size")' \/ Busy(g, s, k, "body")'
                            => NthNext(s, k, Has(s, k)', req'[g])
  <2>1. NthNext(s, k, Has(s, k)', r)
    BY NthGained
  <2> QED BY <1>5, <1>7, <2>1
<1>12. Has(s, k)' = Has(s + 1, k)' + Begun(OnWire(s, k)' + lost) + 1
  BY <1>2, <1>3, <1>9
<1>13. LinkNext(s, k, lost)
  BY <1>2, <1>3, <1>8, <1>9, <1>10, <1>11, <1>12 DEF LinkNext
<1> QED BY <1>13, LinkIsNext

\* Handler h of server s writes one more piece of a message about k.
LEMMA LinkWrite ==
  ASSUME TypeOK, NEW s \in 1 .. N - 1, NEW k \in Keys, NEW lost \in 0 .. 1,
         KeyLink(s, k, lost), Same(s, k), Same(s + 1, k),
         NEW h \in Handlers, Home(h) = s, req[h] \in Requests, req[h].key = k, Alone(h, s, k),
         NEW p, NEW after, wire'[s + 1] = Append(wire[s + 1], p),
         pc' = [pc EXCEPT ![h] = after], req' = req,
         \/ pc[h] = "size" /\ after = "body" /\ p = Size(req[h])
         \/ pc[h] = "body" /\ after = "reply" /\ p = Body(req[h])
  PROVE  KeyLink(s, k, lost)'
<1> DEFINE P == Pieces(s, k)
           x == OnWire(s, k) + lost
<1>1. /\ s \in Servers /\ Has(s, k) \in Nat /\ Has(s + 1, k) \in Nat
      /\ OnWire(s, k) \in Nat /\ x \in Nat /\ Begun(x) \in Nat
  <2>1. s \in Servers /\ s + 1 \in Servers /\ OnWire(s, k) \in Nat
    BY PiecesType
  <2>2. Has(s, k) \in Nat /\ Has(s + 1, k) \in Nat
    BY <2>1, PlacesType
  <2>3. x \in Nat
    BY <2>1
  <2> QED BY <2>1, <2>2, <2>3, BegunType
<1>2. /\ Has(s, k)' = Has(s, k) /\ Has(s + 1, k)' = Has(s + 1, k)
  BY DEF Same
<1>3. p \in Frames /\ p.of = req[h] /\ p.of.key = k
  <2>1. Size(req[h]) \in Frames /\ Body(req[h]) \in Frames
    BY MessageType
  <2>2. Size(req[h]).of = req[h] /\ Body(req[h]).of = req[h]
    BY DEF Size, Body
  <2> QED BY <2>1, <2>2
<1>4. PICK m \in Nat :
        /\ Pieces(s, k)' = P \cup {m} /\ wire'[s + 1][m] = p
        /\ OnWire(s, k)' = OnWire(s, k) + 1 /\ Upto(Pieces(s, k)', m) = OnWire(s, k) + 1
        /\ \A i \in P : /\ Upto(Pieces(s, k)', i) = Upto(P, i)
                        /\ wire'[s + 1][i] = wire[s + 1][i]
  <2>1. Extends(s, k, p)
    BY <1>3, AppendPieces
  <2> QED BY <2>1 DEF Extends
<1>5. \A i \in P : wire'[s + 1][i] = wire[s + 1][i]
  BY <1>4
<1>6. /\ pc'[h] = after /\ req'[h] = req[h]
      /\ \A g \in Handlers \ {h} : pc'[g] = pc[g] /\ req'[g] = req[g]
  BY DEF TypeOK
<1>7. /\ \A g \in Handlers \ {h} : ~Busy(g, s, k, "size") /\ ~Busy(g, s, k, "body")
      /\ \A g \in Handlers \ {h} : ~Busy(g, s, k, "size")' /\ ~Busy(g, s, k, "body")'
  BY <1>6 DEF Alone, Busy
<1>8. \A label \in {"size", "body"} : /\ Busy(h, s, k, label) <=> pc[h] = label
                                      /\ Busy(h, s, k, label)' <=> after = label
  BY <1>6 DEF Busy
<1>9. /\ Pending(s, k, "size") <=> pc[h] = "size"
      /\ Pending(s, k, "body") <=> pc[h] = "body"
      /\ Pending(s, k, "size")' <=> after = "size"
      /\ Pending(s, k, "body")' <=> after = "body"
  BY <1>7, <1>8 DEF Pending
<1>10. /\ Has(s, k) = Has(s + 1, k) + Begun(x) + (IF Pending(s, k, "size") THEN 1 ELSE 0)
       /\ Pending(s, k, "body") <=> Odd(x)
       /\ Nth(s, k, Has(s, k), req[h])
  BY <1>8 DEF KeyLink
<1>11. x + 1 = OnWire(s, k)' + lost /\ OnWire(s, k)' + lost = Upto(Pieces(s, k)', m) + lost
  BY <1>1, <1>4
<1>12. /\ Has(s, k) = Has(s + 1, k) + Begun(x + 1) + 0
       /\ after = "body" <=> Odd(x + 1)
       /\ after # "size"
       /\ p = Piece(x + 1, req[h])
  <2>1. CASE pc[h] = "size"
    <3>1. ~Odd(x) /\ Has(s, k) = Has(s + 1, k) + Begun(x) + 1
      BY <1>9, <1>10, <2>1
    <3>2. Begun(x + 1) = Begun(x) + 1 /\ Odd(x + 1)
      BY <1>1, <3>1, BegunCount
    <3>3. Has(s, k) = Has(s + 1, k) + Begun(x + 1) + 0
      BY <1>1, <3>1, <3>2
    <3> QED BY <2>1, <3>2, <3>3 DEF Piece
  <2>2. CASE pc[h] = "body"
    <3>1. Odd(x) /\ Has(s, k) = Has(s + 1, k) + Begun(x) + 0
      BY <1>9, <1>10, <2>2
    <3>2. Begun(x + 1) = Begun(x) /\ ~Odd(x + 1)
      BY <1>1, <3>1, BegunCount
    <3> QED BY <2>2, <3>1, <3>2 DEF Piece
  <2> QED BY <2>1, <2>2
<1>13. NthNext(s, k, Has(s, k), req[h])
  BY <1>10, NthSame
<1>14. \A i \in Pieces(s, k)' : \E r \in Requests :
        /\ NthNext(s, k, Has(s + 1, k) + Begun(Upto(Pieces(s, k)', i) + lost), r)
        /\ wire'[s + 1][i] = Piece(Upto(Pieces(s, k)', i) + lost, r)
  <2> SUFFICES ASSUME NEW i \in Pieces(s, k)'
               PROVE  \E r \in Requests :
                        /\ NthNext(s, k, Has(s + 1, k) + Begun(Upto(Pieces(s, k)', i) + lost), r)
                        /\ wire'[s + 1][i] = Piece(Upto(Pieces(s, k)', i) + lost, r)
    OBVIOUS
  <2>1. CASE i \in P
    <3>1. PICK r \in Requests :
            /\ Nth(s, k, Has(s + 1, k) + Begun(Upto(P, i) + lost), r)
            /\ wire[s + 1][i] = Piece(Upto(P, i) + lost, r)
      BY <2>1 DEF KeyLink
    <3>2. NthNext(s, k, Has(s + 1, k) + Begun(Upto(P, i) + lost), r)
      BY <3>1, NthSame
    <3>3. Upto(Pieces(s, k)', i) = Upto(P, i) /\ wire'[s + 1][i] = wire[s + 1][i]
      BY <1>4, <1>5, <2>1
    <3> QED BY <3>1, <3>2, <3>3
  <2>2. CASE i = m
    <3>1. Upto(Pieces(s, k)', i) + lost = x + 1
      BY <1>11, <2>2
    <3>2. Has(s + 1, k) + Begun(x + 1) = Has(s, k)
      <4>1. x + 1 \in Nat
        BY <1>1
      <4>2. Begun(x + 1) \in Nat
        BY <4>1, BegunType
      <4> HIDE DEF x
      <4> QED BY <1>1, <1>12, <4>2
    <3> QED BY <1>4, <1>12, <1>13, <2>2, <3>1, <3>2
  <2> QED BY <1>4, <2>1, <2>2
<1>15. \A g \in Handlers : Busy(g, s, k, "size")' \/ Busy(g, s, k, "body")'
                            => NthNext(s, k, Has(s, k)', req'[g])
  BY <1>2, <1>6, <1>7, <1>13
<1>16. LinkNext(s, k, lost)
  <2>1. Has(s, k)' = Has(s + 1, k)' + Begun(OnWire(s, k)' + lost)
                      + (IF Pending(s, k, "size")' THEN 1 ELSE 0)
    BY <1>2, <1>9, <1>11, <1>12
  <2>2. Pending(s, k, "body")' <=> Odd(OnWire(s, k)' + lost)
    BY <1>9, <1>11, <1>12
  <2> QED BY <1>2, <1>14, <1>15, <2>1, <2>2 DEF LinkNext
<1> QED BY <1>16, LinkIsNext

-----------------------------------------------------------------------------
(* A step that reads a message, whole or after a size that was lost.       *)

\* The first n pieces h has to read, when network_receive takes r from them.
Head2(h, r) == Len(wire[h]) >= 2 /\ wire[h][1] = Size(r) /\ wire[h][2] = Body(r)
Head3(h, q, r) == /\ Len(wire[h]) >= 3
                  /\ wire[h][1] = Size(q) /\ wire[h][2] = Size(r) /\ wire[h][3] = Body(r)

LEMMA ReadPieces ==
  ASSUME TypeOK, NEW h \in Handlers, NEW r \in Requests, NEW n \in 2 .. 3, Receives(h, r, n)
  PROVE  \/ n = 2 /\ Head2(h, r)
         \/ n = 3 /\ \E q \in Requests : Head3(h, q, r)
<1> DEFINE w == wire[h]
<1>1. w \in Seq(Frames) /\ Len(w) \in Nat /\ \A i \in 1 .. Len(w) : w[i] \in Frames
  BY WireType
<1>2. ASSUME NEW m \in 2 .. 3, Len(w) >= m
      PROVE  \A i \in 1 .. m : SubSeq(w, 1, m)[i] = w[i]
  <2>1. \A i \in 1 .. m : w[i] \in Frames
    BY <1>1, <1>2
  <2>2. \A i \in 1 .. m - 1 + 1 : SubSeq(w, 1, m)[i] = w[1 + i - 1]
    BY <2>1, SubSeqProperties
  <2>3. m - 1 + 1 = m /\ \A i \in 1 .. m : 1 + i - 1 = i
    OBVIOUS
  <2> QED BY <2>2, <2>3
<1>3. CASE n = 2 /\ Starts(h, Message(r))
  <2> DEFINE f == <<Size(r), Body(r)>>
  <2>1. Len(f) = 2 /\ f[1] = Size(r) /\ f[2] = Body(r)
    OBVIOUS
  <2> HIDE DEF f
  <2>2. Len(w) >= 2 /\ SubSeq(w, 1, 2) = f
    BY <1>3, <2>1 DEF Starts, Message, f
  <2>3. SubSeq(w, 1, 2)[1] = w[1] /\ SubSeq(w, 1, 2)[2] = w[2]
    BY <1>2, <2>2
  <2> QED BY <1>3, <2>1, <2>2, <2>3 DEF Head2
<1>4. ASSUME n = 3, NEW q \in Requests, Starts(h, <<Size(q), Size(r), Body(r)>>)
      PROVE  Head3(h, q, r)
  <2> DEFINE f == <<Size(q), Size(r), Body(r)>>
  <2>1. Len(f) = 3 /\ f[1] = Size(q) /\ f[2] = Size(r) /\ f[3] = Body(r)
    OBVIOUS
  <2> HIDE DEF f
  <2>2. Len(w) >= 3 /\ SubSeq(w, 1, 3) = f
    BY <1>4, <2>1 DEF Starts, f
  <2>3. SubSeq(w, 1, 3)[1] = w[1] /\ SubSeq(w, 1, 3)[2] = w[2] /\ SubSeq(w, 1, 3)[3] = w[3]
    BY <1>2, <2>2
  <2> QED BY <2>1, <2>2, <2>3 DEF Head3
<1> QED BY <1>3, <1>4 DEF Receives

One(S, i) == IF i \in S THEN 1 ELSE 0

LEMMA UptoFew ==
  ASSUME NEW S
  PROVE  /\ Upto(S, 1) = One(S, 1) /\ Upto(S, 2) = One(S, 1) + One(S, 2)
         /\ Upto(S, 3) = One(S, 1) + One(S, 2) + One(S, 3)
<1>1. Upto(S, 0) = 0
  BY UptoZero
<1>2. Upto(S, 0 + 1) = Upto(S, 0) + One(S, 0 + 1)
  BY UptoNext DEF One
<1>3. Upto(S, 1 + 1) = Upto(S, 1) + One(S, 1 + 1)
  BY UptoNext DEF One
<1>4. Upto(S, 2 + 1) = Upto(S, 2) + One(S, 2 + 1)
  BY UptoNext DEF One
<1>5. 0 + 1 = 1 /\ 1 + 1 = 2 /\ 2 + 1 = 3 /\ \A i : One(S, i) \in Nat
  BY DEF One
<1> QED BY <1>1, <1>2, <1>3, <1>4, <1>5

\* A size among the pieces about k has an odd number.
LEMMA SizeIsOdd ==
  ASSUME NEW s, NEW k, NEW lost, KeyLink(s, k, lost),
         NEW i \in Pieces(s, k), NEW r, wire[s + 1][i] = Size(r)
  PROVE  /\ Odd(Upto(Pieces(s, k), i) + lost)
         /\ Nth(s, k, Has(s + 1, k) + Begun(Upto(Pieces(s, k), i) + lost), r)
<1>1. PICK q \in Requests :
        /\ Nth(s, k, Has(s + 1, k) + Begun(Upto(Pieces(s, k), i) + lost), q)
        /\ wire[s + 1][i] = Piece(Upto(Pieces(s, k), i) + lost, q)
  BY DEF KeyLink
<1>2. Size(r) = Piece(Upto(Pieces(s, k), i) + lost, q)
  BY <1>1
<1>3. Odd(Upto(Pieces(s, k), i) + lost) /\ q = r
  BY <1>2 DEF Piece, Size, Body
<1> QED BY <1>1, <1>3

\* If the request server s + 1 reads is about k, it is the change of k that it
\* has to apply next, and two of the pieces read are about k.
LEMMA ReadNext ==
  ASSUME TypeOK, NEW s \in 1 .. N - 1, NEW k \in Keys, NEW lost \in 0 .. 1,
         KeyLink(s, k, lost), NEW r \in Requests, NEW n \in 2 .. 3,
         Receives(s + 1, r, n), r.key = k
  PROVE  Upto(Pieces(s, k), n) = 2 /\ lost = 0 /\ Nth(s, k, Has(s + 1, k) + 1, r)
<1> DEFINE P == Pieces(s, k)
           w == wire[s + 1]
<1>1. s + 1 \in Handlers /\ Len(w) \in Nat
  BY PiecesType
<1>2. \A i \in 1 .. Len(w) : i \in P <=> w[i].of.key = k
  BY DEF Pieces
<1>3. \A q : Size(q).of = q /\ Body(q).of = q
  BY DEF Size, Body
<1>4. CASE n = 2 /\ Head2(s + 1, r)
  <2>1. Len(w) >= 2 /\ w[1] = Size(r) /\ w[2] = Body(r)
    BY <1>4 DEF Head2
  <2>2. 1 \in P /\ 2 \in P
    BY <1>1, <1>2, <1>3, <2>1
  <2>3. Upto(P, 1) = 1 /\ Upto(P, 2) = 2
    BY <2>2, UptoFew DEF One
  <2>4. Odd(1 + lost) /\ Nth(s, k, Has(s + 1, k) + Begun(1 + lost), r)
    BY <2>1, <2>2, <2>3, SizeIsOdd
  <2>5. lost = 0
    BY <2>4 DEF Odd
  <2> QED BY <1>4, <2>3, <2>4, <2>5, BegunFew
<1>5. ASSUME n = 3, NEW q \in Requests, Head3(s + 1, q, r)
      PROVE  Upto(Pieces(s, k), n) = 2 /\ lost = 0 /\ Nth(s, k, Has(s + 1, k) + 1, r)
  <2>1. Len(w) >= 3 /\ w[1] = Size(q) /\ w[2] = Size(r) /\ w[3] = Body(r)
    BY <1>5 DEF Head3
  <2>2. 2 \in P /\ 3 \in P
    BY <1>1, <1>2, <1>3, <2>1
  <2>3. CASE 1 \in P
    <3>1. Upto(P, 1) = 1 /\ Upto(P, 2) = 2
      BY <2>2, <2>3, UptoFew DEF One
    <3>2. Odd(1 + lost) /\ Odd(2 + lost)
      BY <2>1, <2>2, <2>3, <3>1, SizeIsOdd
    <3> QED BY <3>2 DEF Odd
  <2>4. CASE 1 \notin P
    <3>1. Upto(P, 2) = 1 /\ Upto(P, 3) = 2
      BY <2>2, <2>4, UptoFew DEF One
    <3>2. Odd(1 + lost) /\ Nth(s, k, Has(s + 1, k) + Begun(1 + lost), r)
      BY <2>1, <2>2, <3>1, SizeIsOdd
    <3>3. lost = 0
      BY <3>2 DEF Odd
    <3> QED BY <1>5, <3>1, <3>2, <3>3, BegunFew
  <2> QED BY <2>3, <2>4
<1> QED BY <1>1, <1>4, <1>5, ReadPieces

\* If it is about another key, at most a first size of k was among the pieces.
LEMMA ReadOther ==
  ASSUME TypeOK, NEW s \in 1 .. N - 1, NEW k \in Keys, NEW lost \in 0 .. 1,
         KeyLink(s, k, lost), NEW r \in Requests, NEW n \in 2 .. 3,
         Receives(s + 1, r, n), r.key # k
  PROVE  Upto(Pieces(s, k), n) + lost \in 0 .. 1
<1> DEFINE P == Pieces(s, k)
           w == wire[s + 1]
<1>1. s + 1 \in Handlers /\ Len(w) \in Nat
  BY PiecesType
<1>2. \A i \in 1 .. Len(w) : i \in P <=> w[i].of.key = k
  BY DEF Pieces
<1>3. \A q : Size(q).of = q /\ Body(q).of = q
  BY DEF Size, Body
<1>4. CASE n = 2 /\ Head2(s + 1, r)
  <2>1. Len(w) >= 2 /\ w[1] = Size(r) /\ w[2] = Body(r)
    BY <1>4 DEF Head2
  <2>2. 1 \notin P /\ 2 \notin P
    BY <1>1, <1>2, <1>3, <2>1
  <2>3. Upto(P, 2) = 0
    BY <2>2, UptoFew DEF One
  <2> QED BY <1>4, <2>3
<1>5. ASSUME n = 3, NEW q \in Requests, Head3(s + 1, q, r)
      PROVE  Upto(Pieces(s, k), n) + lost \in 0 .. 1
  <2>1. Len(w) >= 3 /\ w[1] = Size(q) /\ w[2] = Size(r) /\ w[3] = Body(r)
    BY <1>5 DEF Head3
  <2>2. 2 \notin P /\ 3 \notin P
    BY <1>1, <1>2, <1>3, <2>1
  <2>3. CASE 1 \in P
    <3>1. Upto(P, 1) = 1 /\ Upto(P, 3) = 1
      BY <2>2, <2>3, UptoFew DEF One
    <3>2. Odd(1 + lost)
      BY <2>1, <2>3, <3>1, SizeIsOdd
    <3>3. lost = 0
      BY <3>2 DEF Odd
    <3> QED BY <1>5, <3>1, <3>3
  <2>4. CASE 1 \notin P
    <3>1. Upto(P, 3) = 0
      BY <2>2, <2>4, UptoFew DEF One
    <3> QED BY <1>5, <3>1
  <2> QED BY <2>3, <2>4
<1> QED BY <1>1, <1>4, <1>5, ReadPieces

\* The step of the handler of server s + 1 keeps the link it reads from.
LEMMA LinkReceive ==
  ASSUME TypeOK, NEW s \in 1 .. N - 1, NEW k \in Keys, NEW lost \in 0 .. 1,
         KeyHistory(s, k), KeyCopy(s, k), KeyLink(s, k, lost), BusyKept(s, k),
         NEW r \in Requests, NEW n \in 2 .. 3, Invokes(s + 1, r, n)
  PROVE  KeyCopy(s, k)' /\ \E next \in 0 .. 1 : KeyLink(s, k, next)'
<1>1. /\ s \in Servers /\ s + 1 \in Servers /\ s + 1 \in Handlers /\ Home(s + 1) = s + 1
      /\ s # s + 1 /\ Len(wire[s + 1]) \in Nat
  BY PiecesType
<1>2. /\ Receives(s + 1, r, n) /\ n \in Nat
      /\ wire'[s + 1] = SubSeq(wire[s + 1], n + 1, Len(wire[s + 1]))
  BY <1>1 DEF Invokes, TypeOK
<1>3. n <= Len(wire[s + 1])
  BY <1>1, <1>2, ReadPieces DEF Head2, Head3
<1>4. /\ Same(s, k)
      /\ IF r.key = k /\ Changes(r, table[s + 1]) THEN Gains(s + 1, k, r) ELSE Same(s + 1, k)
  BY <1>1, InvokePlaces
<1>5. CASE r.key = k
  <2>1. Upto(Pieces(s, k), n) = 2 /\ lost = 0 /\ Nth(s, k, Has(s + 1, k) + 1, r)
    BY <1>2, <1>5, ReadNext
  <2>2. PICK i \in Places(s, k) : /\ Upto(Places(s, k), i) = Has(s + 1, k) + 1
                                  /\ applied[s][i].req = r
    BY <2>1 DEF Nth
  <2>3. Changes(r, applied[s][i].on) /\ applied[s][i].on[k] = table[s + 1][k]
    BY <2>2 DEF KeyHistory, KeyCopy
  <2>4. applied[s][i].on \in Tables /\ table[s + 1] \in Tables
    BY <1>1, PlacesType, AppliedType
  <2>5. Changes(r, table[s + 1])
    BY <1>5, <2>3, <2>4, ChangeSameKey
  <2>6. Gains(s + 1, k, r)
    BY <1>4, <1>5, <2>5
  <2>7. KeyCopy(s, k)'
    BY <1>4, <2>1, <2>6, CopyAfter
  <2>8. Has(s + 1, k)' = Has(s + 1, k) + 1
    BY <2>6 DEF Gains
  <2>9. Upto(Pieces(s, k), n) + lost = 0 + 2 * 1
    BY <2>1
  <2>10. 0 \in 0 .. 1 /\ 1 \in 0 .. 1
    OBVIOUS
  <2>11. KeyLink(s, k, 0)'
    BY <1>2, <1>3, <1>4, <2>8, <2>9, <2>10, LinkRead
  <2> QED BY <2>7, <2>10, <2>11
<1>6. CASE r.key # k
  <2>1. Same(s + 1, k)
    BY <1>4, <1>6
  <2>2. KeyCopy(s, k)'
    BY <1>4, <2>1, CopySame
  <2>3. PICK next \in 0 .. 1 : next = Upto(Pieces(s, k), n) + lost
    BY <1>2, <1>6, ReadOther
  <2>4. Has(s + 1, k) \in Nat /\ Has(s + 1, k)' = Has(s + 1, k)
    BY <1>1, <2>1, PlacesType DEF Same
  <2>5. Has(s + 1, k)' = Has(s + 1, k) + 0 /\ 0 \in 0 .. 1
    BY <2>4
  <2>6. Upto(Pieces(s, k), n) + lost = next + 2 * 0
    BY <2>3
  <2>7. KeyLink(s, k, next)'
    BY <1>2, <1>3, <1>4, <2>5, <2>6, LinkRead
  <2> QED BY <2>2, <2>7
<1> QED BY <1>5, <1>6

-----------------------------------------------------------------------------
(* Who writes which keys.                                                  *)

LEMMA ClientType ==
  /\ \A c \in Clients : c \in Handlers /\ Home(c) = 1 /\ c \notin 1 .. N
  /\ \A h \in Handlers \ Clients : h \in 2 .. N /\ Home(h) = h
  /\ \A h \in Handlers : Home(h) \in Servers /\ Home(h) \in Nat
<1>1. N \in Nat /\ 1 \in Servers /\ \A c \in Clients : c \notin 1 .. N
  BY ChainAssumption DEF Servers
<1>2. \A c \in Clients : c \in Handlers /\ Home(c) = 1
  BY DEF Handlers, Home
<1>3. ASSUME NEW h \in Handlers \ Clients
      PROVE  h \in 2 .. N /\ Home(h) = h /\ h \in Servers
  BY <1>1, <1>3 DEF Handlers, Home, Servers
<1>4. ASSUME NEW h \in Handlers PROVE Home(h) \in Servers /\ Home(h) \in Nat
  <2>1. CASE h \in Clients
    BY <1>1, <1>2, <2>1
  <2>2. CASE h \notin Clients
    <3>1. h \in 2 .. N /\ Home(h) = h /\ h \in Servers
      BY <1>3, <2>2
    <3> QED BY <1>1, <3>1
  <2> QED BY <2>1, <2>2
<1> QED BY <1>1, <1>2, <1>3, <1>4

LEMMA AloneIfOwned ==
  ASSUME DisjointKeys, Owned, NEW h \in Handlers, NEW k,
         h \in Clients => k \in KeysOf[h]
  PROVE  Alone(h, Home(h), k)
<1> SUFFICES ASSUME NEW g \in Handlers \ {h}, NEW label \in {"size", "body"},
                    Busy(g, Home(h), k, label)
             PROVE  FALSE
  BY DEF Alone
<1>1. Home(g) = Home(h) /\ pc[g] # "receive" /\ req[g].key = k
  BY DEF Busy
<1>2. g \in Clients /\ h \in Clients
  BY <1>1, ClientType
<1>3. k \in KeysOf[g] /\ k \in KeysOf[h]
  BY <1>1, <1>2 DEF Owned
<1> QED BY <1>2, <1>3 DEF DisjointKeys

\* Whatever a handler reads, its last piece is the body of its request.
LEMMA ReadsOwn ==
  ASSUME TypeOK, Owned, NEW c \in Clients, NEW r \in Requests, NEW n \in 2 .. 3,
         Receives(c, r, n)
  PROVE  r.key \in KeysOf[c] /\ n <= Len(wire[c])
<1>1. c \in Handlers /\ Len(wire[c]) \in Nat
  BY ClientType, WireType
<1>2. n <= Len(wire[c]) /\ wire[c][n] = Body(r)
  BY <1>1, ReadPieces DEF Head2, Head3
<1>3. n \in 1 .. Len(wire[c]) /\ Body(r).of = r
  BY <1>1, <1>2 DEF Body
<1> QED BY <1>2, <1>3 DEF Owned

LEMMA OwnedStep ==
  ASSUME TypeOK, Owned, [Next]_vars
  PROVE  Owned'
<1> SUFFICES ASSUME NEW c \in Clients
             PROVE  /\ \A i \in 1 .. Len(wire'[c]) : wire'[c][i].of.key \in KeysOf[c]
                    /\ pc'[c] # "receive" => req'[c].key \in KeysOf[c]
  BY DEF Owned
<1>1. /\ c \in Handlers /\ wire[c] \in Seq(Frames) /\ Len(wire[c]) \in Nat
      /\ \A i \in 1 .. Len(wire[c]) : wire[c][i] \in Frames /\ wire[c][i].of.key \in KeysOf[c]
      /\ pc[c] # "receive" => req[c].key \in KeysOf[c]
  BY ClientType, WireType DEF Owned
<1>2. ASSUME NEW d \in Clients, Call(d)
      PROVE  /\ \A i \in 1 .. Len(wire'[c]) : wire'[c][i].of.key \in KeysOf[c]
             /\ pc'[c] # "receive" => req'[c].key \in KeysOf[c]
  <2>1. UNCHANGED <<pc, req>>
    BY <1>2 DEF Call
  <2>2. CASE d # c
    BY <1>1, <1>2, <2>1, <2>2 DEF Call, TypeOK
  <2>3. CASE d = c
    <3>1. PICK r \in Requests : r.key \in KeysOf[c] /\ wire'[c] = wire[c] \o Message(r)
      BY <1>1, <1>2, <2>3 DEF Call, TypeOK
    <3>2. /\ Message(r) \in Seq(Frames) /\ Len(Message(r)) = 2
          /\ Message(r)[1].of = r /\ Message(r)[2].of = r
      <4>1. Message(r) \in Seq(Frames)
        BY MessageType
      <4>2. /\ Len(Message(r)) = 2 /\ Message(r)[1] = Size(r) /\ Message(r)[2] = Body(r)
        BY DEF Message
      <4> QED BY <4>1, <4>2 DEF Size, Body
    <3> DEFINE v == wire[c]
               m == Message(r)
    <3>a. v \in Seq(Frames) /\ m \in Seq(Frames) /\ Len(m) = 2
      BY <1>1, <3>2
    <3>b. /\ Len(v \o m) = Len(v) + Len(m)
          /\ \A i \in 1 .. Len(v) + Len(m) :
                (v \o m)[i] = IF i <= Len(v) THEN v[i] ELSE m[i - Len(v)]
      <4> HIDE DEF v, m
      <4> QED BY <3>a, ConcatProperties
    <3>3. /\ Len(wire'[c]) = Len(wire[c]) + 2
          /\ \A i \in 1 .. Len(wire[c]) + 2 :
                wire'[c][i] = IF i <= Len(wire[c]) THEN wire[c][i]
                                                   ELSE Message(r)[i - Len(wire[c])]
      BY <3>1, <3>a, <3>b
    <3>4. ASSUME NEW i \in 1 .. Len(wire'[c]) PROVE wire'[c][i].of.key \in KeysOf[c]
      <4>0. Len(v) \in Nat /\ i \in 1 .. Len(v) + 2
        BY <1>1, <3>3
      <4>1. i \in 1 .. Len(v) \/ (~(i <= Len(v)) /\ i - Len(v) \in 1 .. 2)
        <5> HIDE DEF v
        <5> QED BY <4>0
      <4>2. CASE i \in 1 .. Len(wire[c])
        <5>1. wire'[c][i] = wire[c][i]
          BY <1>1, <3>3, <4>2
        <5> QED BY <1>1, <4>2, <5>1
      <4>3. CASE ~(i <= Len(wire[c])) /\ i - Len(wire[c]) \in 1 .. 2
        <5>1. wire'[c][i] = Message(r)[i - Len(wire[c])]
          BY <3>3, <4>3
        <5>2. Message(r)[i - Len(wire[c])].of = r
          BY <3>2, <4>3
        <5> QED BY <3>1, <5>1, <5>2
      <4> QED BY <4>1, <4>2, <4>3
    <3> QED BY <1>1, <2>1, <3>4
  <2> QED BY <2>2, <2>3
<1>3. ASSUME NEW h \in Handlers, Invoke(h)
      PROVE  /\ \A i \in 1 .. Len(wire'[c]) : wire'[c][i].of.key \in KeysOf[c]
             /\ pc'[c] # "receive" => req'[c].key \in KeysOf[c]
  <2>1. PICK r \in Requests, n \in 2 .. 3 : Invokes(h, r, n)
    BY <1>3, InvokeParts
  <2>2. CASE h # c
    <3>1. wire'[c] = wire[c] /\ pc'[c] = pc[c] /\ req'[c] = req[c]
      BY <1>1, <2>1, <2>2 DEF Invokes, TypeOK
    <3> QED BY <1>1, <3>1
  <2>3. CASE h = c
    <3>1. /\ Receives(c, r, n) /\ req'[c] = r
          /\ wire'[c] = SubSeq(wire[c], n + 1, Len(wire[c]))
      BY <1>1, <2>1, <2>3 DEF Invokes, TypeOK
    <3>2. r.key \in KeysOf[c] /\ n <= Len(wire[c])
      BY <3>1, ReadsOwn
    <3>3. \A i \in n + 1 .. Len(wire[c]) : wire[c][i] \in Frames
      BY <1>1
    <3>4. /\ Len(wire'[c]) = IF n + 1 <= Len(wire[c]) THEN Len(wire[c]) - (n + 1) + 1 ELSE 0
          /\ \A i \in 1 .. Len(wire[c]) - (n + 1) + 1 : wire'[c][i] = wire[c][(n + 1) + i - 1]
      BY <1>1, <3>1, <3>3, SubSeqProperties
    <3>5. ASSUME NEW i \in 1 .. Len(wire'[c]) PROVE wire'[c][i].of.key \in KeysOf[c]
      <4>1. n + 1 <= Len(wire[c])
        BY <3>4
      <4>2. Len(wire'[c]) = Len(wire[c]) - (n + 1) + 1
        BY <3>4, <4>1
      <4>3. wire'[c][i] = wire[c][(n + 1) + i - 1]
        BY <3>4, <4>2
      <4>4. (n + 1) + i - 1 \in 1 .. Len(wire[c])
        BY <1>1, <4>1, <4>2
      <4> QED BY <1>1, <4>3, <4>4
    <3> QED BY <3>1, <3>2, <3>5
  <2> QED BY <2>2, <2>3
<1>4. ASSUME NEW h \in Handlers, ForwardSize(h) \/ ForwardBody(h)
      PROVE  /\ \A i \in 1 .. Len(wire'[c]) : wire'[c][i].of.key \in KeysOf[c]
             /\ pc'[c] # "receive" => req'[c].key \in KeysOf[c]
  <2>0. Home(h) + 1 \in 1 .. N
    <3>1. Home(h) < N /\ Home(h) \in Nat
      BY <1>4, ClientType DEF ForwardSize, ForwardBody, TypeOK
    <3> QED BY <3>1, ChainAssumption
  <2>1. Home(h) + 1 # c
    BY <2>0, ClientType
  <2>2. wire'[c] = wire[c] /\ req' = req
    BY <1>1, <1>4, <2>1 DEF ForwardSize, ForwardBody, WriteNext, TypeOK
  <2>3. pc'[c] # "receive" => pc[c] # "receive"
    BY <1>1, <1>4 DEF ForwardSize, ForwardBody, Goto, TypeOK
  <2> QED BY <1>1, <2>2, <2>3
<1>5. ASSUME NEW h \in Handlers, Answer(h)
      PROVE  /\ \A i \in 1 .. Len(wire'[c]) : wire'[c][i].of.key \in KeysOf[c]
             /\ pc'[c] # "receive" => req'[c].key \in KeysOf[c]
  <2>1. wire' = wire
    BY <1>5 DEF Answer
  <2>2. pc'[c] # "receive" => pc'[c] = pc[c] /\ req'[c] = req[c]
    BY <1>1, <1>5 DEF Answer, Goto, TypeOK
  <2> QED BY <1>1, <2>1, <2>2
<1>6. CASE UNCHANGED <<pc, req, wire>>
  BY <1>1, <1>6
<1> QED BY <1>2, <1>3, <1>4, <1>5, <1>6 DEF Next, Handle, End, vars

-----------------------------------------------------------------------------
(* The invariant.                                                          *)

LEMMA KeyPipelineInit == ASSUME Init PROVE KeyPipeline
<1>1. TypeOK
  BY TypeInit
<1>2. /\ \A s \in Servers : Len(applied[s]) = 0 /\ s \in Nat /\ table[s] = [k \in Keys |-> NoValue]
      /\ \A h \in Handlers : Len(wire[h]) = 0 /\ pc[h] = "receive"
  BY HomeType DEF Init
<1>3. Owned
  BY <1>2, ClientType DEF Owned
<1>4. \A s \in Servers, k \in Keys : Places(s, k) = {} /\ Has(s, k) = 0
  <2> SUFFICES ASSUME NEW s \in Servers, NEW k \in Keys
               PROVE  Places(s, k) = {} /\ Has(s, k) = 0
    OBVIOUS
  <2>1. Places(s, k) = {}
    BY <1>2 DEF Places
  <2> QED BY <1>2, <2>1, UptoZero DEF Has
<1>5. KeyHistories
  BY <1>4 DEF KeyHistories, KeyHistory
<1>6. ASSUME NEW s \in 1 .. N - 1, NEW k \in Keys PROVE KeyCopy(s, k) /\ KeyLink(s, k, 0)
  <2>1. s \in Servers /\ s + 1 \in Servers /\ s + 1 \in Handlers
    BY <1>1, PiecesType
  <2>2. /\ Places(s, k) = {} /\ Places(s + 1, k) = {} /\ table[s + 1] = table[s]
        /\ Has(s, k) = 0 /\ Has(s + 1, k) = 0
    BY <1>2, <1>4, <2>1
  <2>3. Pieces(s, k) = {} /\ OnWire(s, k) = 0
    <3>1. Len(wire[s + 1]) = 0
      BY <1>2, <2>1
    <3>2. Pieces(s, k) = {}
      BY <3>1 DEF Pieces
    <3> QED BY <3>1, <3>2, UptoZero DEF OnWire
  <2>4. \A h \in Handlers : ~Busy(h, s, k, "size") /\ ~Busy(h, s, k, "body")
    BY <1>2 DEF Busy
  <2>5. ~Pending(s, k, "size") /\ ~Pending(s, k, "body")
    BY <2>4 DEF Pending
  <2>6. KeyCopy(s, k)
    BY <2>2 DEF KeyCopy
  <2>7. KeyLink(s, k, 0)
    <3>1. 0 = 0 + Begun(0 + 0) + 0 /\ ~Odd(0 + 0)
      BY BegunFew
    <3> QED BY <2>2, <2>3, <2>4, <2>5, <3>1 DEF KeyLink
  <2> QED BY <2>6, <2>7
<1>7. KeyCopies /\ KeyLinks
  BY <1>6 DEF KeyCopies, KeyLinks
<1> QED BY <1>1, <1>3, <1>5, <1>7 DEF KeyPipeline

\* The parts of the invariant that hold of key k on the way from server s.
KeyParts(s, k) ==
  KeyHistory(s, k) /\ KeyCopy(s, k) /\ \E lost \in 0 .. 1 : KeyLink(s, k, lost)

LEMMA KeyPartsHold ==
  ASSUME KeyPipeline, NEW s \in 1 .. N - 1, NEW k \in Keys
  PROVE  KeyParts(s, k)
<1>1. s \in Servers
  BY PiecesType DEF KeyPipeline
<1> QED BY <1>1 DEF KeyPipeline, KeyParts, KeyHistories, KeyCopies, KeyLinks

\* It is enough to show these parts again.
LEMMA KeyPartsSuffice ==
  ASSUME TypeOK', Owned',
         \A s \in Servers, k \in Keys : KeyHistory(s, k)',
         \A s \in 1 .. N - 1, k \in Keys : KeyCopy(s, k)',
         \A s \in 1 .. N - 1, k \in Keys : \E lost \in 0 .. 1 : KeyLink(s, k, lost)'
  PROVE  KeyPipeline'
BY DEF KeyPipeline, KeyHistories, KeyCopies, KeyLinks

\* Handler h, which is not forwarding a change of k, does not begin to.
LEMMA BusyOther ==
  ASSUME TypeOK, NEW s, NEW k, NEW h \in Handlers, NEW after, NEW q,
         pc' = [pc EXCEPT ![h] = after], req' = [req EXCEPT ![h] = q],
         ~Busy(h, s, k, "size"), ~Busy(h, s, k, "body"),
         Home(h) # s \/ q.key # k \/ after \notin {"size", "body"}
  PROVE  BusyKept(s, k)
<1> SUFFICES ASSUME NEW g \in Handlers, NEW label \in {"size", "body"}
             PROVE  /\ Busy(g, s, k, label)' <=> Busy(g, s, k, label)
                    /\ Busy(g, s, k, label) => req'[g] = req[g]
  BY DEF BusyKept
<1>1. CASE g = h
  <2>1. pc'[h] = after /\ req'[h] = q
    BY DEF TypeOK
  <2> QED BY <1>1, <2>1 DEF Busy
<1>2. CASE g # h
  BY <1>2 DEF Busy, TypeOK
<1> QED BY <1>1, <1>2

LEMMA SamePiecesIf ==
  ASSUME NEW s, NEW k, wire'[s + 1] = wire[s + 1]
  PROVE  SamePieces(s, k)
BY DEF SamePieces, Pieces, OnWire

\* A step that changes no table, writes to no server and begins no forwarding.
LEMMA KeyPipelineFrame ==
  ASSUME KeyPipeline, TypeOK', Owned', UNCHANGED <<applied, table>>,
         \A s \in 1 .. N - 1, k \in Keys : SamePieces(s, k) /\ BusyKept(s, k)
  PROVE  KeyPipeline'
<1>1. \A s, k : Same(s, k)
  BY SameIfUnchanged
<1>2. \A s \in Servers, k \in Keys : KeyHistory(s, k)'
  BY <1>1, HistorySame DEF KeyPipeline, KeyHistories
<1>3. \A s \in 1 .. N - 1, k \in Keys : KeyCopy(s, k)'
  BY <1>1, CopySame DEF KeyPipeline, KeyCopies
<1>4. \A s \in 1 .. N - 1, k \in Keys : \E lost \in 0 .. 1 : KeyLink(s, k, lost)'
  BY <1>1, LinkSame DEF KeyPipeline, KeyLinks
<1> QED BY <1>2, <1>3, <1>4, KeyPartsSuffice

\* Handler h writes one more piece of its message to the next server.
LEMMA WriteKeyPipeline ==
  ASSUME DisjointKeys, KeyPipeline, TypeOK', Owned', NEW h \in Handlers, NEW p, NEW after,
         UNCHANGED <<applied, table, req>>,
         pc' = [pc EXCEPT ![h] = after],
         wire' = [wire EXCEPT ![Home(h) + 1] = Append(@, p)],
         \/ pc[h] = "size" /\ after = "body" /\ p = Size(req[h])
         \/ pc[h] = "body" /\ after = "reply" /\ p = Body(req[h])
  PROVE  KeyPipeline'
<1>1. /\ TypeOK /\ Owned /\ req[h] \in Requests /\ Home(h) \in Nat
      /\ \A s, k : Same(s, k)
  BY SameIfUnchanged, ClientType DEF KeyPipeline, TypeOK
<1>2. \A s \in Servers, k \in Keys : KeyHistory(s, k)'
  BY <1>1, HistorySame DEF KeyPipeline, KeyHistories
<1>3. \A s \in 1 .. N - 1, k \in Keys : KeyCopy(s, k)'
  BY <1>1, CopySame DEF KeyPipeline, KeyCopies
<1>4. ASSUME NEW s \in 1 .. N - 1, NEW k \in Keys
      PROVE  \E lost \in 0 .. 1 : KeyLink(s, k, lost)'
  <2>1. PICK lost \in 0 .. 1 : KeyLink(s, k, lost)
    BY DEF KeyPipeline, KeyLinks
  <2>2. s + 1 \in Handlers /\ s \in Nat
    BY <1>1, PiecesType
  <2>3. req' = [req EXCEPT ![h] = req[h]]
    BY <1>1 DEF TypeOK
  <2>4. CASE Home(h) = s /\ req[h].key = k
    <3>1. h \in Clients => k \in KeysOf[h]
      BY <1>1, <2>4 DEF Owned
    <3>2. Alone(h, s, k)
      BY <1>1, <2>4, <3>1, AloneIfOwned
    <3>3. wire'[s + 1] = Append(wire[s + 1], p)
      BY <1>1, <2>2, <2>4 DEF TypeOK
    <3>4. KeyLink(s, k, lost)'
      BY <1>1, <2>1, <2>4, <3>2, <3>3, LinkWrite
    <3> QED BY <3>4
  <2>5. CASE Home(h) = s /\ req[h].key # k
    <3>1. BusyKept(s, k)
      BY <1>1, <2>3, <2>5, BusyOther DEF Busy
    <3>2. wire'[s + 1] = Append(wire[s + 1], p)
      BY <1>1, <2>2, <2>5 DEF TypeOK
    <3>3. p \in Frames /\ p.of.key # k
      <4>1. Size(req[h]) \in Frames /\ Body(req[h]) \in Frames
        BY <1>1, MessageType
      <4>2. Size(req[h]).of = req[h] /\ Body(req[h]).of = req[h]
        BY DEF Size, Body
      <4> QED BY <2>5, <4>1, <4>2
    <3>4. SamePieces(s, k)
      BY <1>1, <3>2, <3>3, AppendPieces
    <3>5. KeyLink(s, k, lost)'
      BY <1>1, <2>1, <3>1, <3>4, LinkSame
    <3> QED BY <3>5
  <2>6. CASE Home(h) # s
    <3>1. BusyKept(s, k)
      BY <1>1, <2>3, <2>6, BusyOther DEF Busy
    <3>2. Home(h) + 1 # s + 1
      BY <1>1, <2>2, <2>6
    <3>3. wire'[s + 1] = wire[s + 1]
      BY <1>1, <2>2, <3>2 DEF TypeOK
    <3>4. SamePieces(s, k)
      BY <3>3, SamePiecesIf
    <3>5. KeyLink(s, k, lost)'
      BY <1>1, <2>1, <3>1, <3>4, LinkSame
    <3> QED BY <3>5
  <2> QED BY <2>4, <2>5, <2>6
<1> QED BY <1>2, <1>3, <1>4, KeyPartsSuffice

\* Handler h reads a request and applies it.
LEMMA InvokeKeyPipeline ==
  ASSUME DisjointKeys, KeyPipeline, TypeOK', Owned', NEW h \in Handlers, pc[h] = "receive",
         NEW r \in Requests, NEW n \in 2 .. 3, Invokes(h, r, n)
  PROVE  KeyPipeline'
<1>1. TypeOK /\ Owned /\ Home(h) \in Servers
  BY HomeType DEF KeyPipeline
<1>2. ASSUME NEW s \in Servers, NEW k \in Keys PROVE KeyHistory(s, k)'
  <2>1. KeyHistory(s, k)
    BY DEF KeyPipeline, KeyHistories
  <2>2. Gains(s, k, r) \/ Same(s, k)
    BY <1>1, InvokePlaces
  <2> QED BY <1>1, <2>1, <2>2, HistorySame, HistoryGains
<1>3. ASSUME NEW s \in 1 .. N - 1, NEW k \in Keys
      PROVE  KeyCopy(s, k)' /\ \E lost \in 0 .. 1 : KeyLink(s, k, lost)'
  <2>1. KeyHistory(s, k) /\ KeyCopy(s, k)
    BY KeyPartsHold DEF KeyParts
  <2>2. PICK lost \in 0 .. 1 : KeyLink(s, k, lost)
    BY KeyPartsHold DEF KeyParts
  <2>3. /\ s \in Servers /\ s + 1 \in Servers /\ s + 1 \in Handlers /\ Home(s + 1) = s + 1
        /\ s # s + 1 /\ s < N /\ OnWire(s, k) \in Nat
        /\ Has(s, k) \in Nat /\ Has(s + 1, k) \in Nat
    BY <1>1, PiecesType, PlacesType, ChainAssumption
  <2>4. ~Busy(h, s, k, "size") /\ ~Busy(h, s, k, "body")
    BY DEF Busy
  <2>5. /\ pc' = [pc EXCEPT ![h] = IF Forwards(h, r) THEN "size" ELSE "reply"]
        /\ req' = [req EXCEPT ![h] = r]
    BY DEF Invokes
  <2>6. CASE Home(h) = s /\ r.key = k /\ Changes(r, table[s])
    <3>1. Gains(s, k, r) /\ Same(s + 1, k)
      BY <1>1, <2>3, <2>6, InvokePlaces
    <3>2. h # s + 1
      BY <2>3, <2>6
    <3>3. wire'[s + 1] = wire[s + 1]
      BY <1>1, <2>3, <3>2 DEF Invokes, TypeOK
    <3>4. Has(s + 1, k) <= Has(s, k)
      <4>1. OnWire(s, k) + lost \in Nat
        BY <2>3
      <4>2. Begun(OnWire(s, k) + lost) \in Nat
        BY <4>1, BegunType
      <4>3. PICK x \in 0 .. 1 : Has(s, k) = Has(s + 1, k) + Begun(OnWire(s, k) + lost) + x
        BY <2>2 DEF KeyLink
      <4> QED BY <2>3, <4>2, <4>3
    <3>5. h \in Clients => k \in KeysOf[h]
      BY <1>1, <2>6, ReadsOwn DEF Invokes
    <3>6. Alone(h, s, k)
      BY <1>1, <2>6, <3>5, AloneIfOwned
    <3>7. pc' = [pc EXCEPT ![h] = "size"]
      BY <2>3, <2>5, <2>6 DEF Forwards
    <3>8. KeyLink(s, k, lost)'
      BY <1>1, <2>2, <2>5, <2>6, <3>1, <3>3, <3>6, <3>7, LinkGrow
    <3>9. KeyCopy(s, k)'
      BY <1>1, <2>1, <3>1, <3>4, CopyBefore
    <3> QED BY <3>8, <3>9
  <2>7. CASE h = s + 1
    <3>1. Home(h) # s
      BY <2>3, <2>7
    <3>2. BusyKept(s, k)
      BY <1>1, <2>4, <2>5, <3>1, BusyOther
    <3> QED BY <1>1, <2>1, <2>2, <2>7, <3>2, LinkReceive
  <2>8. CASE h # s + 1 /\ ~(Home(h) = s /\ r.key = k /\ Changes(r, table[s]))
    <3>1. Home(h) # s + 1
      BY <2>3, <2>8, ClientType
    <3>2. Same(s, k) /\ Same(s + 1, k)
      BY <1>1, <2>3, <2>8, <3>1, InvokePlaces
    <3>3. wire'[s + 1] = wire[s + 1]
      BY <1>1, <2>3, <2>8 DEF Invokes, TypeOK
    <3>4. SamePieces(s, k)
      BY <3>3, SamePiecesIf
    <3>5. \/ Home(h) # s \/ r.key # k
          \/ (IF Forwards(h, r) THEN "size" ELSE "reply") \notin {"size", "body"}
      BY <2>8 DEF Forwards
    <3>6. BusyKept(s, k)
      BY <1>1, <2>4, <2>5, <3>5, BusyOther
    <3>7. KeyLink(s, k, lost)'
      BY <2>2, <3>2, <3>4, <3>6, LinkSame
    <3>8. KeyCopy(s, k)'
      BY <2>1, <3>2, CopySame
    <3> QED BY <3>7, <3>8
  <2> QED BY <2>6, <2>7, <2>8
<1> QED BY <1>2, <1>3, KeyPartsSuffice

LEMMA KeyPipelineStep ==
  ASSUME DisjointKeys, KeyPipeline, [Next]_vars
  PROVE  KeyPipeline'
<1>0. TypeOK /\ TypeOK' /\ Owned'
  BY TypeStep, OwnedStep DEF KeyPipeline
<1>1. ASSUME NEW c \in Clients, Call(c) PROVE KeyPipeline'
  <2>1. UNCHANGED <<pc, req, applied, table>>
    BY <1>1 DEF Call
  <2>2. ASSUME NEW s \in 1 .. N - 1, NEW k \in Keys PROVE SamePieces(s, k) /\ BusyKept(s, k)
    <3>1. s + 1 \in Handlers /\ s + 1 \in 1 .. N
      BY <1>0, PiecesType DEF Servers
    <3>2. c # s + 1
      BY <3>1, ClientType
    <3>3. wire'[s + 1] = wire[s + 1]
      BY <1>0, <1>1, <3>1, <3>2 DEF Call, TypeOK
    <3> QED BY <2>1, <3>3, SamePiecesIf DEF BusyKept, Busy
  <2> QED BY <1>0, <2>1, <2>2, KeyPipelineFrame
<1>2. ASSUME NEW h \in Handlers, Invoke(h) PROVE KeyPipeline'
  <2>1. pc[h] = "receive"
    BY <1>2, InvokeParts
  <2>2. PICK r \in Requests, n \in 2 .. 3 : Invokes(h, r, n)
    BY <1>2, InvokeParts
  <2> QED BY <1>0, <2>1, <2>2, InvokeKeyPipeline
<1>3. ASSUME NEW h \in Handlers, ForwardSize(h) PROVE KeyPipeline'
  BY <1>0, <1>3, WriteKeyPipeline DEF ForwardSize, Goto, WriteNext
<1>4. ASSUME NEW h \in Handlers, ForwardBody(h) PROVE KeyPipeline'
  BY <1>0, <1>4, WriteKeyPipeline DEF ForwardBody, Goto, WriteNext
<1>5. ASSUME NEW h \in Handlers, Answer(h) PROVE KeyPipeline'
  <2>1. UNCHANGED <<wire, applied, table>>
    BY <1>5 DEF Answer
  <2>2. ASSUME NEW s \in 1 .. N - 1, NEW k \in Keys PROVE SamePieces(s, k) /\ BusyKept(s, k)
    <3>1. ~Busy(h, s, k, "size") /\ ~Busy(h, s, k, "body")
      BY <1>5 DEF Answer, Busy
    <3>2. pc' = [pc EXCEPT ![h] = "receive"] /\ req' = [req EXCEPT ![h] = NoRequest]
      BY <1>5 DEF Answer, Goto
    <3>3. BusyKept(s, k)
      BY <1>0, <3>1, <3>2, BusyOther
    <3> QED BY <2>1, <3>3, SamePiecesIf
  <2> QED BY <1>0, <2>1, <2>2, KeyPipelineFrame
<1>6. ASSUME UNCHANGED <<pc, req, wire, applied, table>> PROVE KeyPipeline'
  <2>1. \A s \in 1 .. N - 1, k \in Keys : SamePieces(s, k) /\ BusyKept(s, k)
    BY <1>6, SamePiecesIf DEF BusyKept, Busy
  <2> QED BY <1>0, <1>6, <2>1, KeyPipelineFrame
<1>7. ASSUME NEW h \in Handlers, End(h) PROVE KeyPipeline'
  BY <1>6, <1>7 DEF End
<1>8. CASE UNCHANGED vars
  BY <1>6, <1>8 DEF vars
<1> QED BY <1>1, <1>2, <1>3, <1>4, <1>5, <1>7, <1>8 DEF Next, Handle

LEMMA KeyPipelineAlways == ASSUME DisjointKeys PROVE Spec => []KeyPipeline
<1>1. Init => KeyPipeline
  BY KeyPipelineInit
<1>2. KeyPipeline /\ [Next]_vars => KeyPipeline'
  BY KeyPipelineStep
<1> QED BY <1>1, <1>2, PTL DEF Spec

LEMMA RankCounts ==
  ASSUME TypeOK, NEW s \in Servers, NEW k, NEW i \in Places(s, k)
  PROVE  Rank(s, i) = Upto(Places(s, k), i)
<1>1. i \in 1 .. Len(applied[s]) /\ applied[s][i].req.key = k /\ Len(applied[s]) \in Nat
  BY AppliedType DEF Places
<1>2. {m \in 1 .. i : applied[s][m].req.key = applied[s][i].req.key} = Places(s, k) \cap 1 .. i
  BY <1>1 DEF Places
<1> QED BY <1>2 DEF Rank, Upto

\* When no two clients write one key, the n-th change of a key at a server is the
\* n-th change of this key at the server before, and finds the value found there:
\* for any number of clients and servers, and although the handlers of a server
\* mix the messages they forward (network_server.c:491-515).
THEOREM OrderPerKey == ASSUME DisjointKeys PROVE Spec => []SameOrderPerKey
<1>1. KeyPipeline => SameOrderPerKey
  <2> SUFFICES ASSUME KeyPipeline, NEW s \in 1 .. N - 1, NEW i \in 1 .. Len(applied[s + 1])
               PROVE  \E j \in 1 .. Len(applied[s]) :
                         /\ applied[s][j].req = applied[s + 1][i].req
                         /\ Rank(s, j) = Rank(s + 1, i)
                         /\ applied[s][j].on[applied[s][j].req.key]
                              = applied[s + 1][i].on[applied[s][j].req.key]
    BY DEF SameOrderPerKey
  <2> DEFINE k == applied[s + 1][i].req.key
  <2>1. TypeOK /\ s \in Servers /\ s + 1 \in Servers
    BY PiecesType DEF KeyPipeline
  <2>2. k \in Keys /\ i \in Places(s + 1, k)
    <3>1. applied[s + 1][i].req \in Requests
      BY <2>1, AppliedType
    <3> QED BY <3>1, RequestType, ChainAssumption DEF Places
  <2>3. KeyCopy(s, k)
    BY <2>2, KeyPartsHold DEF KeyParts
  <2>4. PICK j \in Places(s, k) : /\ Upto(Places(s, k), j) = Upto(Places(s + 1, k), i)
                                  /\ applied[s][j].req = applied[s + 1][i].req
                                  /\ applied[s][j].on[k] = applied[s + 1][i].on[k]
    BY <2>2, <2>3 DEF KeyCopy
  <2>5. Rank(s, j) = Upto(Places(s, k), j) /\ Rank(s + 1, i) = Upto(Places(s + 1, k), i)
    BY <2>1, <2>2, RankCounts
  <2>6. j \in 1 .. Len(applied[s]) /\ applied[s][j].req.key = k
    BY DEF Places
  <2> QED BY <2>4, <2>5, <2>6
<1> QED BY <1>1, KeyPipelineAlways, PTL

LEMMA Least == ASSUME NEW S \in SUBSET Nat, S # {}
                 PROVE  \E n \in S : \A m \in S : n <= m
<1> DEFINE R == StrictSubsetOrdering(Nat)
           F == FiniteSubsetsOf(Nat)
           T == {1..n : n \in S}
<1>1. IsWellFoundedOn(R, F)
  BY FS_StrictSubsetOrderingWellFounded
<1>2. \A n \in S : 1..n \in F
  <2> TAKE n \in S
  <2>1. n \in Int /\ 1 \in Int /\ 1..n \in SUBSET Nat
    OBVIOUS
  <2>2. IsFiniteSet(1..n)
    BY <2>1, FS_Interval
  <2> QED BY <2>1, <2>2 DEF FiniteSubsetsOf
<1>3. T \subseteq F /\ T # {}
  BY <1>2
<1> HIDE DEF R, F
<1>4. PICK x \in T : \A y \in T : <<y, x>> \notin R
  BY <1>1, <1>3, WFMin
<1>5. PICK n \in S : x = 1..n
  BY <1>4
<1>6. ASSUME NEW m \in S, m < n PROVE FALSE
  <2>1. 1..m \in SUBSET Nat /\ 1..n \in SUBSET Nat /\ 1..m \subseteq 1..n /\ 1..m # 1..n
    <3>1. n \in 1..n /\ n \notin 1..m
      BY <1>6
    <3> QED BY <3>1, <1>6
  <2>2. <<1..m, 1..n>> \in R
    BY <2>1 DEF R, StrictSubsetOrdering
  <2> QED BY <2>2, <1>4, <1>5
<1> QED BY <1>6

LEMMA FirstDifference ==
  ASSUME TypeOK, NEW t \in Servers, \E k \in Keys : table[t][k] # table[1][k]
  PROVE  \E s \in 1 .. N - 1 : \E k \in Keys : table[s + 1][k] # table[s][k]
<1> SUFFICES ASSUME \A s \in 1 .. N - 1 : \A k \in Keys : table[s + 1][k] = table[s][k]
             PROVE  FALSE
  OBVIOUS
<1>1. PICK k \in Keys : table[t][k] # table[1][k]
  OBVIOUS
<1> DEFINE S == {n \in Servers : table[n][k] # table[1][k]}
<1>2. S \in SUBSET Nat /\ S # {}
  BY <1>1, HomeType
<1>3. PICK n \in S : \A m \in S : n <= m
  BY <1>2, Least
<1>4. n \in Servers /\ n \in 1 .. N /\ n # 1 /\ N \in Nat
  BY ChainAssumption DEF Servers
<1>5. n - 1 \in 1 .. N - 1 /\ (n - 1) + 1 = n /\ n - 1 \in Servers /\ ~(n <= n - 1)
  BY <1>4 DEF Servers
<1>6. table[n][k] = table[n - 1][k]
  BY <1>5
<1>7. n - 1 \in S
  BY <1>5, <1>6
<1> QED BY <1>3, <1>5, <1>7

\* When no two clients write one key, all servers have the same table once
\* nothing is on its way: the copies the clients read from the last server.
THEOREM SameTables == ASSUME DisjointKeys PROVE Spec => []Converged
<1>1. KeyPipeline => Converged
  <2> SUFFICES ASSUME KeyPipeline, Quiet, NEW t \in Servers PROVE table[t] = table[1]
    BY DEF Converged
  <2>1. TypeOK /\ 1 \in Servers /\ table[t] \in Tables /\ table[1] \in Tables
    BY HomeType, AppliedType DEF KeyPipeline
  <2>2. ASSUME NEW s \in 1 .. N - 1, NEW k \in Keys PROVE table[s + 1][k] = table[s][k]
    <3>1. KeyCopy(s, k)
      BY KeyPartsHold DEF KeyParts
    <3>2. PICK lost \in 0 .. 1 : KeyLink(s, k, lost)
      BY KeyPartsHold DEF KeyParts
    <3>3. s \in Servers /\ s + 1 \in Servers /\ s + 1 \in Handlers
      BY <2>1, PiecesType
    <3>4. ~Pending(s, k, "size") /\ ~Pending(s, k, "body")
      BY DEF Quiet, Pending, Busy
    <3>5. OnWire(s, k) = 0
      <4>1. Len(wire[s + 1]) = 0
        BY <3>3 DEF Quiet
      <4> QED BY <4>1, UptoZero DEF OnWire
    <3>6. lost = 0
      <4>1. ~Odd(0 + lost)
        BY <3>2, <3>4, <3>5 DEF KeyLink
      <4> QED BY <4>1 DEF Odd
    <3>7. Has(s, k) = Has(s + 1, k) + Begun(0 + 0) + 0
      BY <3>2, <3>4, <3>5, <3>6 DEF KeyLink
    <3>8. Has(s, k) = Has(s + 1, k)
      <4>1. Has(s + 1, k) \in Nat
        BY <2>1, <3>3, PlacesType
      <4> QED BY <3>7, <4>1, BegunFew
    <3> QED BY <3>1, <3>8 DEF KeyCopy
  <2>3. \A k \in Keys : table[t][k] = table[1][k]
    BY <2>1, <2>2, FirstDifference
  <2> QED BY <2>1, <2>3 DEF Tables
<1> QED BY <1>1, KeyPipelineAlways, PTL

=============================================================================
