---------------------------- MODULE FramingProofs ----------------------------
(***************************************************************************)
(* Proofs about Framing, for any number of calls, sizes of messages and    *)
(* room in the connection: its types, and that messages are invoked whole  *)
(* and in order.                                                           *)
(***************************************************************************)
EXTENDS Framing, SequenceTheorems, TLAPS

Typed == TypeOK /\ (Writing => msg \in Messages)

\* The byte after b in what a caller writes that never gives up.
After(b) == IF b.part = "size"
            THEN IF b.at = 1 THEN Byte(b.of, "size", 2) ELSE Byte(b.of, "body", 1)
            ELSE IF b.at < len[b.of] THEN Byte(b.of, "body", b.at + 1)
                                     ELSE Byte(b.of + 1, "size", 1)

Sendable(b) == /\ b.of \in 1..msg
               /\ \/ b.part = "size" /\ b.at \in 1..2
                  \/ b.part = "body" /\ b.at \in 1..len[b.of]

\* The next byte the caller writes, and the next one the handler is to receive.
ToWrite == IF call = "size"
           THEN IF put < 2 THEN Byte(msg, "size", put + 1) ELSE Byte(msg, "body", 1)
           ELSE IF call = "body" /\ put < len[msg] THEN Byte(msg, "body", put + 1)
                                                   ELSE Byte(msg + 1, "size", 1)

Current == Len(invoked) + 1

ToReceive == IF pc # "body" THEN Byte(Current, "size", 1)
             ELSE IF Len(buf) < len[Current] THEN Byte(Current, "body", Len(buf) + 1)
                                             ELSE Byte(Current + 1, "size", 1)

Counted == /\ call = "size" => put <= 2
           /\ call = "body" => put <= len[msg]
           /\ \A m \in 1..msg : len[m] \in Nat \ {0}
           /\ \A m \in Messages : m > msg => len[m] = 0

\* What is in the connection leads from the one to the other.
Stream == /\ \A j \in 1..Len(wire) : Sendable(wire[j])
          /\ \A j \in 1..Len(wire) - 1 : wire[j + 1] = After(wire[j])
          /\ wire # <<>> => wire[1] = ToReceive
          /\ call # "ended" => ToWrite = IF wire = <<>> THEN ToReceive
                                         ELSE After(wire[Len(wire)])

Buffer == pc = "body" => /\ Current <= msg /\ size = len[Current] /\ Len(buf) <= size
                         /\ \A i \in 1..Len(buf) : buf[i] = Byte(Current, "body", i)

AllOrdered == \A i \in 1..Len(invoked) : invoked[i] = i

\* The handler serves a caller in step with it, has been cut off, or has left.
InStep == AllOrdered /\ Buffer /\ Stream
CutOff == call = "ended" /\ wire = <<>> /\ pc # "body"
Gone   == pc = "left"

\* It has taken the size of message k for another one.
LostAt(k) == /\ k <= Len(invoked) + 1 /\ ~(len[k] < Width)
             /\ \A i \in 1..k - 1 : i <= Len(invoked) => invoked[i] = i
Lost == \E k \in 1..msg : LostAt(k)

Framed == Counted /\ (~torn => InOrder /\ (InStep \/ CutOff \/ Gone \/ Lost))

------------------------------------------------------------------------------
(* Types.                                                                   *)

LEMMA TypeInit == Init => Typed
<1> SUFFICES ASSUME Init PROVE Typed
  OBVIOUS
<1> USE FramingAssumption
<1>1. wire \in Seq(Byts) /\ Len(wire) = 0 /\ buf \in Seq(Byts)
      /\ invoked \in Seq(Messages \cup {Garbled})
  BY DEF Init
<1>2. len \in [Messages -> Sizes \cup {0}] /\ torn \in BOOLEAN
  BY DEF Init
<1> QED BY <1>1, <1>2 DEF Init, Typed, TypeOK, Writing

LEMMA LeaveTyped == ASSUME Typed, Leave PROVE /\ pc' = "left"
                                              /\ wire' \in Seq(Byts) /\ Len(wire') <= Room
<1>1. wire' \in Seq(Byts) /\ Len(wire') = 0
  BY DEF Leave
<1> QED BY <1>1, FramingAssumption DEF Leave

LEMMA InvokesTyped == ASSUME Typed, NEW m \in Messages \cup {Garbled}, Invokes(m)
                      PROVE  /\ invoked' \in Seq(Messages \cup {Garbled}) /\ pc' = "invoke"
                             /\ UNCHANGED <<wire, todo>>
BY DEF Invokes, Typed, TypeOK

LEMMA SizesNat == ASSUME Typed, NEW a, NEW b PROVE SizeOf(a, b) \subseteq Nat
<1>1. CASE \E m \in Messages : a = Byte(m, "size", 1) /\ b = Byte(m, "size", 2)
  <2>1. PICK m \in Messages : a = Byte(m, "size", 1)
    BY <1>1
  <2>2. len[a.of] % Width \in Nat
    <3>1. a.of = m
      BY <2>1 DEF Byte
    <3>2. len[m] \in Sizes \cup {0}
      BY DEF Typed, TypeOK
    <3>3. Sizes \cup {0} \subseteq Nat
      BY FramingAssumption
    <3>4. len[m] \in Nat
      BY <3>2, <3>3
    <3> QED BY <3>1, <3>4, FramingAssumption
  <2> QED BY <1>1, <2>2 DEF SizeOf
<1>2. CASE ~\E m \in Messages : a = Byte(m, "size", 1) /\ b = Byte(m, "size", 2)
  BY <1>2, FramingAssumption DEF SizeOf
<1> QED BY <1>1, <1>2

LEMMA TypeStep == Typed /\ [Next]_vars => Typed'
<1> SUFFICES ASSUME Typed, [Next]_vars PROVE Typed'
  OBVIOUS
<1> USE DEF callVars, handlerVars
<1> USE FramingAssumption
<1>1. CASE UNCHANGED vars
  BY <1>1 DEF vars, Typed, TypeOK, Writing
<1>2. CASE Call
  <2>1. msg' \in Messages /\ len' \in [Messages -> Sizes \cup {0}]
    BY <1>2 DEF Call, Typed, TypeOK, Messages
  <2> QED BY <1>2, <2>1 DEF Call, Typed, TypeOK, Messages
<1>3. CASE Write
  <2>1. wire' \in Seq(Byts) /\ Len(wire') <= Room
    <3>1. Byte(msg, call, put + 1) \in Byts
      BY <1>3 DEF Write, Writing, Byte, Byts, Typed, TypeOK
    <3>2. CASE wire' = Append(wire, Byte(msg, call, put + 1)) /\ Len(wire) < Room
      BY <3>1, <3>2 DEF Typed, TypeOK
    <3> QED BY <1>3, <3>2 DEF Write, Typed, TypeOK
  <2> QED BY <1>3, <2>1 DEF Write, Typed, TypeOK, Writing
<1>4. CASE WriteFails \/ Pack \/ PackFails \/ Return \/ End
  <2>1. torn' \in BOOLEAN
    BY <1>4, Zenon DEF WriteFails, Pack, PackFails, Return, End, Typed, TypeOK
  <2>2. /\ UNCHANGED <<msg, len, wire, handlerVars>> /\ put' \in Nat
        /\ call' \in {"idle", "body", "ended"} /\ (call' = "body" => call = "size")
    BY <1>4 DEF WriteFails, Pack, PackFails, Return, End, Typed, TypeOK
  <2> QED BY <2>1, <2>2 DEF Typed, TypeOK, Writing
<1>5. CASE ReceiveSize
  <2>1. size' \in Nat
    <3>1. size' \in SizeOf(wire[1], wire[2])
      BY <1>5 DEF ReceiveSize
    <3>2. SizeOf(wire[1], wire[2]) \subseteq Nat
      BY SizesNat
    <3> QED BY <3>1, <3>2
  <2>2. wire' \in Seq(Byts) /\ Len(wire') <= Room
    BY <1>5 DEF ReceiveSize, Typed, TypeOK
  <2>3. buf' \in Seq(Byts)
    BY <1>5 DEF ReceiveSize
  <2> QED BY <1>5, <2>1, <2>2, <2>3 DEF ReceiveSize, Typed, TypeOK, Writing
<1>6. CASE ReceiveHalf \/ ReceiveFails \/ SendFails
  <2>1. Leave /\ UNCHANGED <<callVars, size, buf, invoked, todo, unread>>
    BY <1>6 DEF ReceiveHalf, ReceiveFails, SendFails
  <2> QED BY <2>1, LeaveTyped DEF Typed, TypeOK, Writing
<1>7. CASE Receive
  <2>1. wire' \in Seq(Byts) /\ Len(wire') <= Room /\ buf' \in Seq(Byts)
    BY <1>7 DEF Receive, Typed, TypeOK
  <2> QED BY <1>7, <2>1 DEF Receive, Typed, TypeOK, Writing
<1>8. CASE Invoke \/ InvokeCut
  <2>1. UNCHANGED <<callVars, size, buf, unread>>
    BY <1>8 DEF Invoke, InvokeCut
  <2>2. CASE Refuses
    BY <2>1, <2>2, LeaveTyped DEF Refuses, Typed, TypeOK, Writing
  <2>3. ASSUME NEW m \in Messages \cup {Garbled}, Invokes(m) PROVE Typed'
    BY <2>1, <2>3, InvokesTyped DEF Typed, TypeOK, Writing
  <2> QED BY <1>8, <2>2, <2>3 DEF Invoke, InvokeCut, Unpacks
<1>9. CASE Send \/ Sent
  BY <1>9 DEF Send, Sent, Typed, TypeOK, Writing
<1>10. CASE Answer
  <2>1. UNCHANGED <<callVars, size, buf, invoked, unread>>
    BY <1>10 DEF Answer
  <2>2. /\ pc' \in {"send", "left", "gone"} /\ todo' \in Nat
        /\ wire' \in Seq(Byts) /\ Len(wire') <= Room
    BY <1>10, LeaveTyped DEF Answer, Typed, TypeOK
  <2> QED BY <2>1, <2>2 DEF Typed, TypeOK, Writing
<1> QED BY <1>1, <1>2, <1>3, <1>4, <1>5, <1>6, <1>7, <1>8, <1>9, <1>10
        DEF Next, CallerRuns, HandlerRuns

\* The variables keep their types, and neither direction of the connection holds
\* more bytes than it has room for.
THEOREM TypeCorrect == Spec => []TypeOK
<1>1. Typed => TypeOK
  BY DEF Typed
<1> QED BY <1>1, TypeInit, TypeStep, PTL DEF Spec

------------------------------------------------------------------------------
(* Order.                                                                   *)

LEMMA FramedInit == Init => Framed
<1> SUFFICES ASSUME Init PROVE Framed
  OBVIOUS
<1>1. /\ msg = 0 /\ wire = <<>> /\ invoked = <<>> /\ pc = "size" /\ call = "idle"
      /\ \A m \in Messages : len[m] = 0
  BY DEF Init
<1>2. Counted
  BY <1>1 DEF Counted
<1>3. AllOrdered /\ InOrder /\ Buffer
  BY <1>1 DEF AllOrdered, InOrder, Buffer
<1>4. Stream
  BY <1>1 DEF Stream, ToWrite, ToReceive, Current
<1> QED BY <1>2, <1>3, <1>4 DEF Framed, InStep

\* What is in order stays so, whatever is announced after it.
LEMMA OrderKept ==
    ASSUME Typed, InOrder, ~torn, UNCHANGED <<torn, invoked>>, call = "ended" => call' = "ended",
           \A m \in Messages : len'[m] = len[m] \/ len[m] = 0
    PROVE  InOrder'
<1>1. \A i \in Nat : Fits(i)' => Fits(i)
  BY FramingAssumption DEF Fits
<1>2. \A i \in 1..Len(invoked) : i \in Nat
  OBVIOUS
<1> QED BY <1>1, <1>2 DEF InOrder

LEMMA LostKept ==
    ASSUME Lost, UNCHANGED invoked, msg \in Nat, msg' \in Nat, msg' >= msg,
           \A m \in 1..msg : len'[m] = len[m]
    PROVE  Lost'
<1>1. PICK k \in 1..msg : LostAt(k)
  BY DEF Lost
<1>2. k \in 1..msg' /\ LostAt(k)'
  BY <1>1 DEF LostAt
<1> QED BY <1>2 DEF Lost

\* Who has taken a wrong size may invoke what it will.
LEMMA LostInvokes ==
    ASSUME Typed, Lost, ~torn, InOrder, NEW m, UNCHANGED <<torn, msg, len>>,
           \/ invoked' = Append(invoked, m) \/ UNCHANGED invoked
           , call' = call
    PROVE  Lost' /\ InOrder'
<1>1. PICK k \in 1..msg : LostAt(k)
  BY DEF Lost
<1>2. k \in Messages /\ msg \in Nat /\ Len(invoked) \in Nat
  BY FramingAssumption DEF Typed, TypeOK, Messages
<1>3. /\ Len(invoked') >= Len(invoked) /\ Len(invoked') \in Nat
      /\ \A i \in 1..Len(invoked) : invoked'[i] = invoked[i]
      /\ Len(invoked') <= Len(invoked) + 1
  BY DEF Typed, TypeOK
<1>4. \A i \in 1..k - 1 : i <= Len(invoked') => invoked'[i] = i
  BY <1>1, <1>2, <1>3 DEF LostAt
<1>5. LostAt(k)'
  BY <1>1, <1>2, <1>3, <1>4 DEF LostAt
<1>6. ASSUME NEW i \in 1..Len(invoked'), Fits(i)' PROVE invoked'[i] = i
  <2>1. ~(k <= i)
    BY <1>1, <1>2, <1>6 DEF Fits, LostAt
  <2> QED BY <1>2, <1>4, <2>1
<1> QED BY <1>5, <1>6 DEF Lost, InOrder

\* Who leaves, in whatever way, leaves the messages as ordered as they were.
LEMMA LeaveStep == ASSUME Framed, Counted', UNCHANGED <<torn, invoked, len>>, Leave,
                          call' = call
                   PROVE  Framed'
<1>1. InOrder /\ ~torn => InOrder'
  BY DEF InOrder, Fits
<1> QED BY <1>1 DEF Framed, Gone, Leave

\* A step of the caller that writes nothing, or nothing that anyone will receive.
LEMMA CallerQuiet ==
    ASSUME Typed, Framed, Counted', UNCHANGED <<torn, wire, handlerVars>>,
           \A m \in 1..msg : len'[m] = len[m], msg' \in Nat, msg' >= msg,
           \A m \in Messages : len'[m] = len[m] \/ len[m] = 0,
           call = "ended" => call' = "ended",
           pc = "left" \/ call' = "ended" \/ ToWrite' = ToWrite
    PROVE  Framed'
<1> USE DEF handlerVars
<1>1. InOrder /\ ~torn => InOrder'
  BY OrderKept
<1>2. ASSUME ~torn, InStep, pc # "left" PROVE InStep'
  <2>1. AllOrdered'
    BY <1>2 DEF InStep, AllOrdered
  <2>2. Buffer' /\ (pc = "body" => Current \in 1..msg)
    <3>1. pc = "body" => Current \in 1..msg
      BY <1>2 DEF InStep, Buffer, Current, Typed, TypeOK
    <3> QED BY <1>2, <3>1 DEF InStep, Buffer, Current, Typed, TypeOK
  <2>3. ToReceive' = ToReceive
    BY <2>2 DEF ToReceive, Current
  <2>4. \A j \in 1..Len(wire) : Sendable(wire[j])' /\ After(wire[j])' = After(wire[j])
    <3> SUFFICES ASSUME NEW j \in 1..Len(wire)
                 PROVE  Sendable(wire[j])' /\ After(wire[j])' = After(wire[j])
      OBVIOUS
    <3>1. Sendable(wire[j])
      BY <1>2 DEF InStep, Stream
    <3> QED BY <3>1 DEF Sendable, After, Typed, TypeOK
  <2>5. wire # <<>> => Len(wire) \in 1..Len(wire)
    BY DEF Typed, TypeOK
  <2>6. Stream'
    BY <1>2, <2>3, <2>4, <2>5 DEF InStep, Stream, Typed, TypeOK
  <2> QED BY <2>1, <2>2, <2>6 DEF InStep
<1>3. CutOff => CutOff'
  BY DEF CutOff
<1>4. Lost => Lost'
  BY LostKept DEF Typed, TypeOK
<1> QED BY <1>1, <1>2, <1>3, <1>4 DEF Framed, Gone

\* One more byte is written.
LEMMA WriteStep == ASSUME Typed, Framed, Write PROVE Framed'
<1> USE DEF handlerVars
<1>1. /\ UNCHANGED <<call, msg, len, torn, handlerVars>> /\ put' = put + 1 /\ put \in Nat
      /\ msg \in Messages /\ call \in {"size", "body"} /\ msg \in 1..msg
  BY DEF Write, Typed, TypeOK, Writing, Messages
<1>2. put < Length /\ (call = "size" => put <= 1) /\ (call = "body" => put < len[msg])
  BY <1>1 DEF Write, Length
<1>3. len[msg] \in Nat
  BY <1>1 DEF Framed, Counted
<1>4. Counted'
  BY <1>1, <1>2, <1>3 DEF Framed, Counted
<1>5. InOrder /\ ~torn => InOrder'
  BY <1>1 DEF InOrder, Fits
<1>6. CASE pc = "left"
  BY <1>1, <1>4, <1>5, <1>6 DEF Framed, Gone
<1>8. CASE Lost
  <2>1. Lost'
    BY <1>1, <1>8 DEF Lost, LostAt
  <2> QED BY <1>1, <1>4, <1>5, <2>1 DEF Framed
<1>7. CASE pc # "left" /\ ~torn /\ ~Lost
  <2> DEFINE b == Byte(msg, call, put + 1)
  <2>1. wire' = Append(wire, b) /\ wire \in Seq(Byts) /\ b \in Byts
    BY <1>1, <1>7 DEF Write, Typed, TypeOK, Byte, Byts
  <2>2. InStep
    BY <1>1, <1>7 DEF Framed, Gone, CutOff
  <2>3. ToWrite = b /\ ToWrite' = After(b) /\ Sendable(b)
    BY <1>1, <1>2, <1>3 DEF ToWrite, After, Byte, Sendable
  <2>4. ToReceive' = ToReceive /\ Buffer' /\ AllOrdered'
    BY <1>1, <2>2 DEF ToReceive, Current, InStep, Buffer, AllOrdered
  <2> HIDE DEF b
  <2>5. Len(wire') = Len(wire) + 1 /\ wire'[Len(wire')] = b /\ wire' # <<>>
        /\ \A j \in 1..Len(wire) : wire'[j] = wire[j]
    BY <2>1
  <2>6. \A j \in 1..Len(wire') : Sendable(wire[j])'
    BY <1>1, <2>1, <2>2, <2>3, <2>5 DEF InStep, Stream, Sendable
  <2>7. ASSUME NEW j \in 1..Len(wire') - 1 PROVE (wire[j + 1] = After(wire[j]))'
    <3>1. CASE j = Len(wire)
      <4>1. After(wire[Len(wire)]) = b /\ wire # <<>>
        BY <1>1, <2>1, <2>2, <2>3, <2>7, <3>1 DEF InStep, Stream
      <4> QED BY <1>1, <2>5, <3>1, <4>1 DEF After
    <3>2. CASE j # Len(wire)
      <4>1. j \in 1..Len(wire) - 1 /\ j \in 1..Len(wire) /\ j + 1 \in 1..Len(wire)
        BY <2>1, <2>5, <2>7, <3>2
      <4> QED BY <1>1, <2>2, <2>5, <4>1 DEF InStep, Stream, After
    <3> QED BY <3>1, <3>2
  <2>8. wire'[1] = ToReceive'
    <3>1. CASE wire = <<>>
      BY <1>1, <2>1, <2>2, <2>3, <2>4, <2>5, <3>1 DEF InStep, Stream
    <3>2. CASE wire # <<>>
      BY <2>1, <2>2, <2>4, <2>5, <3>2 DEF InStep, Stream
    <3> QED BY <3>1, <3>2
  <2>9. ToWrite' = After(wire[Len(wire)])'
    BY <1>1, <2>3, <2>5 DEF After
  <2>10. Stream'
    BY <2>5, <2>6, <2>7, <2>8, <2>9 DEF Stream
  <2> QED BY <1>1, <1>4, <1>5, <1>7, <2>2, <2>4, <2>10 DEF Framed, InStep
<1> QED BY <1>1, <1>4, <1>6, <1>7, <1>8 DEF Framed
\* The other steps of the caller.
LEMMA CallerStep ==
    ASSUME Typed, Framed, Call \/ WriteFails \/ Pack \/ PackFails \/ Return \/ End
    PROVE  Framed'
<1> USE FramingAssumption DEF handlerVars
<1>1. msg \in Nat /\ (Writing => msg \in 1..msg /\ len[msg] \in Nat \ {0})
  BY DEF Typed, TypeOK, Messages, Framed, Counted
<1>2. CASE Call
  <2>1. PICK n \in Sizes : len' = [len EXCEPT ![msg + 1] = n]
    BY <1>2 DEF Call
  <2>2. /\ \A m \in 1..msg : len'[m] = len[m]
        /\ msg + 1 \in Messages /\ len'[msg + 1] = n /\ n \in Nat \ {0}
        /\ \A m \in Messages : m # msg + 1 => len'[m] = len[m]
    BY <1>1, <1>2, <2>1 DEF Call, Typed, TypeOK, Messages
  <2>5. /\ call = "idle" /\ call' = "size" /\ put' = 0 /\ msg' = msg + 1
        /\ UNCHANGED <<torn, wire, handlerVars>>
    BY <1>2 DEF Call
  <2>6. /\ \A m \in 1..msg : len[m] \in Nat \ {0}
        /\ \A m \in Messages : m > msg => len[m] = 0
    BY DEF Framed, Counted
  <2>7. \A m \in 1..msg + 1 : len'[m] \in Nat \ {0}
    BY <1>1, <2>2, <2>6
  <2>8. \A m \in Messages : m > msg + 1 => len'[m] = 0
    BY <1>1, <2>2, <2>6 DEF Messages
  <2>3. Counted'
    BY <2>5, <2>7, <2>8 DEF Counted
  <2>9. \A m \in Messages : len'[m] = len[m] \/ len[m] = 0
    BY <1>1, <2>2, <2>6
  <2>4. ToWrite' = ToWrite
    BY <1>1, <1>2 DEF Call, ToWrite
  <2> QED BY <1>1, <2>2, <2>3, <2>4, <2>5, <2>9, CallerQuiet
<1>3. CASE WriteFails
  <2>1. UNCHANGED <<msg, len, torn, wire, handlerVars>> /\ pc = "left" /\ call' = "idle"
        /\ call # "ended"
    BY <1>3 DEF WriteFails, Writing
  <2>2. Counted'
    BY <2>1 DEF Framed, Counted
  <2> QED BY <1>1, <2>1, <2>2, CallerQuiet
<1>4. CASE Pack \/ Return
  <2>1. UNCHANGED <<msg, len, torn, wire, handlerVars>> /\ Writing /\ call # "ended"
    BY <1>4 DEF Pack, Return, Writing
  <2>2. Counted'
    BY <1>1, <1>4, <2>1 DEF Pack, Return, Framed, Counted
  <2>3. ToWrite' = ToWrite
    BY <1>1, <1>4, <2>1 DEF Pack, Return, ToWrite
  <2> QED BY <1>1, <2>1, <2>2, <2>3, CallerQuiet
<1>5. CASE PackFails
  <2>1. torn' /\ UNCHANGED <<msg, len>> /\ call' = "idle"
    BY <1>5, Zenon DEF PackFails
  <2>2. Counted'
    BY <2>1 DEF Framed, Counted
  <2> QED BY <2>1, <2>2 DEF Framed
<1>6. CASE End
  <2>1. UNCHANGED <<msg, len, torn, wire, handlerVars>> /\ call' = "ended"
    BY <1>6 DEF End
  <2>2. Counted'
    BY <2>1 DEF Framed, Counted
  <2> QED BY <1>1, <2>1, <2>2, CallerQuiet
<1> QED BY <1>2, <1>3, <1>4, <1>5, <1>6

\* What is left when the two bytes of a size are taken.
LEMMA DropTwo ==
    ASSUME NEW S, NEW s \in Seq(S), NEW t, Len(s) >= 2, t = SubSeq(s, 3, Len(s))
    PROVE  /\ t \in Seq(S) /\ Len(t) = Len(s) - 2
           /\ \A j \in 1..Len(t) : t[j] = s[j + 2]
           /\ t = <<>> <=> Len(s) = 2
<1>1. PICK n \in Nat : n = Len(s)
  BY LenProperties
<1>2. t = SubSeq(s, 3, n) /\ n >= 2 /\ \A i \in 3..n : s[i] \in S
  BY <1>1, LenProperties
<1>3. t \in Seq(S)
  BY <1>2, SubSeqProperties
<1>4. Len(t) = IF 3 <= n THEN n - 3 + 1 ELSE 0
  BY <1>2, SubSeqProperties
<1>5. \A i \in 1..n - 3 + 1 : t[i] = s[3 + i - 1]
  BY <1>2, SubSeqProperties
<1>6. t = <<>> <=> Len(t) = 0
  BY <1>3, EmptySeq
<1> QED BY <1>1, <1>2, <1>3, <1>4, <1>5, <1>6

\* A handler in step takes a size for what it is.
LEMMA ReceiveSizeStep == ASSUME Typed, Framed, ReceiveSize PROVE Framed'
<1> USE DEF callVars
<1>1. /\ UNCHANGED <<call, msg, len, put, torn, invoked>>
      /\ pc = "size" /\ Len(wire) >= 2 /\ wire \in Seq(Byts)
      /\ wire' = SubSeq(wire, 3, Len(wire)) /\ buf' = <<>> /\ pc' = "body"
  BY DEF ReceiveSize, Typed, TypeOK
<1>2. Counted' /\ (InOrder => InOrder')
  BY <1>1 DEF Framed, Counted, InOrder, Fits
<1>3. CASE torn
  BY <1>1, <1>2, <1>3, Zenon DEF Framed
<1>5. CASE ~torn /\ Lost
  <2>1. Lost'
    BY <1>1, <1>5 DEF Lost, LostAt
  <2> QED BY <1>1, <1>2, <1>5, <2>1 DEF Framed
<1>4. CASE ~torn /\ ~Lost
  <2>1. InStep /\ Len(invoked) \in Nat /\ msg \in 0..Calls /\ Calls \in Nat
    BY <1>1, <1>4, FramingAssumption DEF Framed, CutOff, Gone, Typed, TypeOK
  <2>2. wire[1] = Byte(Current, "size", 1) /\ Sendable(wire[1])
        /\ wire[2] = After(wire[1])
    BY <1>1, <2>1 DEF InStep, Stream, ToReceive
  <2>3. Current \in 1..msg /\ wire[2] = Byte(Current, "size", 2)
        /\ After(wire[2]) = Byte(Current, "body", 1)
    BY <2>2 DEF Sendable, After, Byte
  <2>9. ASSUME ~(len[Current] < Width) PROVE Framed'
    <3>1. LostAt(Current)'
      BY <1>1, <2>1, <2>9 DEF LostAt, Current, InStep, AllOrdered
    <3>2. Lost'
      BY <1>1, <2>3, <3>1 DEF Lost, Current
    <3> QED BY <1>1, <1>2, <1>4, <3>2 DEF Framed
  <2> SUFFICES ASSUME len[Current] < Width PROVE Framed'
    BY <2>9
  <2>4. size' = len[Current] /\ len[Current] \in Nat \ {0}
    <3>1. Current \in Messages /\ Byte(Current, "size", 1).of = Current
      BY <2>1, <2>3 DEF Messages, Byte
    <3>2. SizeOf(wire[1], wire[2]) = {len[Current] % Width}
      BY <2>2, <2>3, <3>1 DEF SizeOf
    <3>3. len[Current] \in Nat \ {0}
      BY <2>3 DEF Framed, Counted
    <3>4. len[Current] % Width = len[Current]
      BY <3>3, FramingAssumption
    <3> QED BY <3>2, <3>3, <3>4 DEF ReceiveSize
  <2>5. AllOrdered' /\ Buffer'
    BY <1>1, <2>1, <2>3, <2>4 DEF InStep, AllOrdered, Buffer, Current
  <2>6. ToReceive' = Byte(Current, "body", 1)
    BY <1>1, <2>4 DEF ToReceive, Current
  <2>7. /\ Len(wire') = Len(wire) - 2 /\ Len(wire) \in Nat
        /\ \A j \in 1..Len(wire') : wire'[j] = wire[j + 2]
        /\ wire' = <<>> <=> Len(wire) = 2
    BY <1>1, DropTwo, LenProperties
  <2>8. Stream'
    <3>1. \A j \in 1..Len(wire') : Sendable(wire[j])'
      BY <1>1, <2>1, <2>7 DEF InStep, Stream, Sendable
    <3>2. ASSUME NEW j \in 1..Len(wire') - 1 PROVE (wire[j + 1] = After(wire[j]))'
      <4>1. wire[j + 3] = After(wire[j + 2]) /\ wire'[j] = wire[j + 2] /\ wire'[j + 1] = wire[j + 3]
        BY <2>1, <2>7, <3>2 DEF InStep, Stream
      <4> QED BY <1>1, <4>1 DEF After
    <3>3. wire' # <<>> => wire'[1] = ToReceive'
      BY <1>1, <2>1, <2>3, <2>6, <2>7 DEF InStep, Stream
    <3>4. call # "ended" => ToWrite' = IF wire' = <<>> THEN ToReceive'
                                       ELSE After(wire[Len(wire)])'
      <4>1. call # "ended" => ToWrite = After(wire[Len(wire)])
        BY <1>1, <2>1 DEF InStep, Stream
      <4>2. wire' # <<>> => After(wire[Len(wire)])' = After(wire[Len(wire)])
        <5>1. wire' # <<>> => wire'[Len(wire')] = wire[Len(wire)]
          BY <2>7
        <5> QED BY <1>1, <5>1 DEF After
      <4>3. ToWrite' = ToWrite
        BY <1>1 DEF ToWrite
      <4> QED BY <1>1, <2>3, <2>6, <2>7, <4>1, <4>2, <4>3
    <3> QED BY <1>1, <3>1, <3>2, <3>3, <3>4 DEF Stream
  <2> QED BY <1>1, <1>2, <1>4, <2>5, <2>8 DEF Framed, InStep
<1> QED BY <1>3, <1>4, <1>5
\* It takes a byte of the message for what it is.
LEMMA ReceiveStep == ASSUME Typed, Framed, Receive PROVE Framed'
<1> USE DEF callVars
<1>1. /\ UNCHANGED <<call, msg, len, put, torn, invoked, pc, size>>
      /\ pc = "body" /\ Len(buf) < size /\ wire # <<>> /\ wire \in Seq(Byts)
      /\ buf \in Seq(Byts) /\ buf' = Append(buf, wire[1]) /\ wire' = Tail(wire)
  BY DEF Receive, Typed, TypeOK
<1>2. Counted' /\ (InOrder => InOrder')
  BY <1>1 DEF Framed, Counted, InOrder, Fits
<1>3. CASE torn
  BY <1>1, <1>2, <1>3, Zenon DEF Framed
<1>5. CASE ~torn /\ Lost
  <2>1. Lost'
    BY <1>1, <1>5 DEF Lost, LostAt
  <2> QED BY <1>1, <1>2, <1>5, <2>1 DEF Framed
<1>4. CASE ~torn /\ ~Lost
  <2>1. InStep /\ Len(invoked) \in Nat /\ Len(buf) \in Nat /\ len[Current] \in Nat
    BY <1>1, <1>4 DEF Framed, CutOff, Gone, Typed, TypeOK, InStep, Buffer
  <2>2. size = len[Current] /\ Current \in 1..msg
    BY <1>1, <2>1 DEF InStep, Buffer, Current, Typed, TypeOK
  <2>3. wire[1] = Byte(Current, "body", Len(buf) + 1)
    BY <1>1, <2>1, <2>2 DEF InStep, Stream, ToReceive
  <2>4. /\ Len(buf') = Len(buf) + 1 /\ buf'[Len(buf) + 1] = wire[1]
        /\ \A i \in 1..Len(buf) : buf'[i] = buf[i]
    <3>1. wire[1] \in Byts
      BY <1>1, EmptySeq, LenProperties
    <3> QED BY <1>1, <3>1
  <2>5. AllOrdered' /\ Buffer'
    BY <1>1, <2>1, <2>2, <2>3, <2>4 DEF InStep, AllOrdered, Buffer, Current
  <2>6. ToReceive' = After(wire[1])
    BY <1>1, <2>1, <2>2, <2>3, <2>4 DEF ToReceive, Current, After, Byte
  <2>7. /\ Len(wire') = Len(wire) - 1 /\ Len(wire) \in Nat
        /\ \A j \in 1..Len(wire') : wire'[j] = wire[j + 1]
        /\ wire' = <<>> <=> Len(wire) = 1
    <3>1. wire' \in Seq(Byts) /\ Len(wire') = Len(wire) - 1
      BY <1>1, HeadTailProperties
    <3>2. \A j \in 1..Len(wire') : wire'[j] = wire[j + 1]
      BY <1>1, HeadTailProperties
    <3>3. wire' = <<>> <=> Len(wire') = 0
      BY <3>1, EmptySeq
    <3> QED BY <1>1, <3>1, <3>2, <3>3
  <2>8. Stream'
    <3>1. \A j \in 1..Len(wire') : Sendable(wire[j])'
      BY <1>1, <2>1, <2>7 DEF InStep, Stream, Sendable
    <3>2. ASSUME NEW j \in 1..Len(wire') - 1 PROVE (wire[j + 1] = After(wire[j]))'
      <4>1. wire[j + 2] = After(wire[j + 1]) /\ wire'[j] = wire[j + 1] /\ wire'[j + 1] = wire[j + 2]
        BY <2>1, <2>7, <3>2 DEF InStep, Stream
      <4> QED BY <1>1, <4>1 DEF After
    <3>3. wire' # <<>> => wire'[1] = ToReceive'
      BY <1>1, <2>1, <2>6, <2>7 DEF InStep, Stream
    <3>4. call # "ended" => ToWrite' = IF wire' = <<>> THEN ToReceive'
                                       ELSE After(wire[Len(wire)])'
      <4>1. call # "ended" => ToWrite = After(wire[Len(wire)])
        BY <1>1, <2>1 DEF InStep, Stream
      <4>2. wire' # <<>> => After(wire[Len(wire)])' = After(wire[Len(wire)])
        <5>1. wire' # <<>> => wire'[Len(wire')] = wire[Len(wire)]
          BY <2>7
        <5> QED BY <1>1, <5>1 DEF After
      <4>3. ToWrite' = ToWrite
        BY <1>1 DEF ToWrite
      <4> QED BY <1>1, <2>6, <2>7, <4>1, <4>2, <4>3
    <3> QED BY <1>1, <3>1, <3>2, <3>3, <3>4 DEF Stream
  <2> QED BY <1>1, <1>2, <1>4, <2>5, <2>8 DEF Framed, InStep
<1> QED BY <1>3, <1>4, <1>5

\* A whole message is invoked in its turn.
LEMMA InvokeStep == ASSUME Typed, Framed, Invoke PROVE Framed'
<1> USE DEF callVars
<1>1. /\ UNCHANGED <<call, msg, len, put, torn, size, buf>>
      /\ pc = "body" /\ Len(buf) = size /\ Len(invoked) \in Nat
  BY DEF Invoke, Typed, TypeOK
<1>2. Counted'
  BY <1>1 DEF Framed, Counted
<1>3. CASE torn
  BY <1>1, <1>2, <1>3, Zenon DEF Framed
<1>5. CASE ~torn /\ Lost
  <2>1. \E m : invoked' = Append(invoked, m) \/ UNCHANGED invoked
    BY DEF Invoke, Invokes, Refuses
  <2>2. Lost' /\ InOrder'
    BY <1>1, <1>5, <2>1, LostInvokes DEF Framed
  <2> QED BY <1>1, <1>2, <2>2 DEF Framed
<1>4. CASE ~torn /\ ~Lost
  <2>1. InStep
    BY <1>1, <1>4 DEF Framed, CutOff, Gone
  <2>2. Current \in 1..msg /\ Current \in Messages /\ Len(buf) = len[Current]
        /\ len[Current] \in Nat \ {0}
    BY <1>1, <2>1, FramingAssumption
       DEF InStep, Buffer, Current, Framed, Counted, Typed, TypeOK, Messages
  <2>3. \A i \in 1..len[Current] : buf[i] = Byte(Current, "body", i)
    BY <1>1, <2>1, <2>2 DEF InStep, Buffer
  <2>4. Current \in Unpacks(buf) /\ Whole(buf)
    BY <2>2, <2>3 DEF Unpacks, Whole
  <2>5. PICK m \in Unpacks(buf) : Invokes(m)
    BY <2>4 DEF Invoke
  <2>6. m = Current
    <3>1. 1 \in 1..len[m] /\ buf[1] = Byte(m, "body", 1) /\ 1 \in 1..len[Current]
      BY <2>2, <2>5 DEF Unpacks
    <3>2. Byte(m, "body", 1) = Byte(Current, "body", 1)
      BY <2>3, <3>1
    <3>3. Byte(m, "body", 1).of = m /\ Byte(Current, "body", 1).of = Current
      BY DEF Byte
    <3> QED BY <3>2, <3>3
  <2>7. /\ Len(invoked') = Current /\ invoked'[Current] = Current
        /\ \A i \in 1..Len(invoked) : invoked'[i] = invoked[i]
    BY <1>1, <2>2, <2>5, <2>6 DEF Invokes, Typed, TypeOK, Current
  <2>8. AllOrdered' /\ InOrder'
    BY <1>1, <2>1, <2>7 DEF InStep, AllOrdered, InOrder, Current
  <2>10. pc' = "invoke" /\ UNCHANGED wire
    BY <2>5 DEF Invokes
  <2>11. Framed'
    <3>1. ToReceive' = ToReceive
      BY <1>1, <2>2, <2>7, <2>10 DEF ToReceive, Current
    <3>2. ToWrite' = ToWrite /\ \A b : After(b)' = After(b) /\ Sendable(b)' = Sendable(b)
      BY <1>1 DEF ToWrite, After, Sendable
    <3>3. Stream'
      BY <1>1, <2>1, <2>10, <3>1, <3>2 DEF InStep, Stream
    <3>4. Buffer'
      BY <2>10 DEF Buffer
    <3> QED BY <1>1, <1>2, <2>8, <3>3, <3>4 DEF Framed, InStep
  <2> QED BY <2>11
<1> QED BY <1>3, <1>4, <1>5

\* What is made of a message that was cut off is the last to be invoked.
LEMMA InvokeCutStep == ASSUME Typed, Framed, InvokeCut PROVE Framed'
<1> USE DEF callVars
<1>1. /\ UNCHANGED <<call, msg, len, put, torn, size, buf>>
      /\ pc = "body" /\ wire = <<>> /\ call = "ended" /\ wire' = <<>> /\ pc' # "body"
      /\ invoked \in Seq(Messages \cup {Garbled}) /\ Len(invoked) \in Nat
  BY DEF InvokeCut, Invokes, Refuses, Leave, Typed, TypeOK
<1>2. Counted'
  BY <1>1 DEF Framed, Counted
<1>5. CASE ~torn /\ Lost
  <2>1. \E m : invoked' = Append(invoked, m) \/ UNCHANGED invoked
    BY DEF InvokeCut, Invokes, Refuses
  <2>2. Lost' /\ InOrder'
    BY <1>1, <1>5, <2>1, LostInvokes DEF Framed
  <2> QED BY <1>1, <1>2, <2>2 DEF Framed
<1>3. ~torn /\ ~Lost => AllOrdered
  BY <1>1 DEF Framed, InStep, CutOff, Gone
<1>4. ~torn /\ ~Lost => InOrder'
  <2>1. CASE invoked' = Append(invoked, Garbled)
    BY <1>1, <1>3, <2>1 DEF AllOrdered, InOrder
  <2>2. CASE invoked' = invoked
    BY <1>1, <1>3, <2>2 DEF AllOrdered, InOrder
  <2> QED BY <2>1, <2>2 DEF InvokeCut, Invokes, Refuses
<1> QED BY <1>1, <1>2, <1>4, <1>5 DEF Framed, CutOff

\* Answering changes nothing of this.
LEMMA AnswerStep == ASSUME Typed, Framed, UNCHANGED <<callVars, wire, size, buf, invoked>>,
                           \/ pc' = pc
                           \/ pc \in {"send", "invoke"} /\ pc' \in {"size", "send", "gone"}
                    PROVE  Framed'
<1> USE DEF callVars
<1>1. Counted' /\ (InOrder => InOrder') /\ (Lost => Lost')
  BY DEF Framed, Counted, InOrder, Fits, Lost, LostAt
<1>2. ToReceive' = ToReceive /\ ToWrite' = ToWrite
      /\ \A b : After(b)' = After(b) /\ Sendable(b)' = Sendable(b)
  BY DEF ToReceive, ToWrite, Current, After, Sendable
<1>3. Stream => Stream'
  BY <1>2 DEF Stream
<1>4. (AllOrdered => AllOrdered') /\ (Buffer => Buffer')
  BY DEF AllOrdered, Buffer, Current
<1>5. (CutOff => CutOff') /\ (Gone => Gone')
  BY DEF CutOff, Gone
<1> QED BY <1>1, <1>3, <1>4, <1>5 DEF Framed, InStep

LEMMA FramedStep == Typed /\ Framed /\ [Next]_vars => Framed'
<1> SUFFICES ASSUME Typed, Framed, [Next]_vars PROVE Framed'
  OBVIOUS
<1>1. CASE UNCHANGED vars
  BY <1>1, AnswerStep DEF vars, handlerVars
<1>2. CASE Write
  BY <1>2, WriteStep
<1>3. CASE Call \/ WriteFails \/ Pack \/ PackFails \/ Return \/ End
  BY <1>3, CallerStep
<1>4. CASE ReceiveSize
  BY <1>4, ReceiveSizeStep
<1>5. CASE ReceiveHalf \/ ReceiveFails \/ SendFails
  <2>1. Leave /\ UNCHANGED <<call, msg, len, put, torn, invoked>>
    BY <1>5 DEF ReceiveHalf, ReceiveFails, SendFails, callVars
  <2>2. Counted'
    BY <2>1 DEF Framed, Counted
  <2> QED BY <2>1, <2>2, LeaveStep
<1>6. CASE Receive
  BY <1>6, ReceiveStep
<1>7. CASE Invoke
  BY <1>7, InvokeStep
<1>8. CASE InvokeCut
  BY <1>8, InvokeCutStep
<1>9. CASE Send \/ Sent
  BY <1>9, AnswerStep DEF Send, Sent
<1>10. CASE Answer
  <2>1. CASE Leave
    <3>1. Counted' /\ UNCHANGED <<torn, invoked, len, call>>
      BY <1>10 DEF Answer, callVars, Framed, Counted
    <3> QED BY <2>1, <3>1, LeaveStep
  <2>2. CASE ~Leave
    BY <1>10, <2>2, AnswerStep DEF Answer
  <2> QED BY <2>1, <2>2
<1> QED BY <1>1, <1>2, <1>3, <1>4, <1>5, <1>6, <1>7, <1>8, <1>9, <1>10
        DEF Next, CallerRuns, HandlerRuns

\* Whatever the network does to the pieces, messages are invoked whole, in order
\* and once (network_client.c:43-152, network_server.c:544-626), but for a last one
\* that the end of its caller cut off, as long as no call gives up half way.
THEOREM Order == Spec => []InOrder
<1>1. Framed => InOrder
  BY DEF Framed, InOrder
<1> QED BY <1>1, TypeInit, TypeStep, FramedInit, FramedStep, PTL DEF Spec
=============================================================================
