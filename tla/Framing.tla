------------------------------- MODULE Framing -------------------------------
(***************************************************************************)
(* A call on a connection, byte by byte: network_send_receive writes the   *)
(* size of its message and then the message, with write_all; the handler   *)
(* at the other end makes messages of the bytes again (network_receive),   *)
(* invokes them and sends answers (network_send), which the caller, whose  *)
(* write_all returns 0 where it expects the number of bytes, never reads.  *)
(*                                                                         *)
(* A write or a read of n bytes is n steps: the network may bring them     *)
(* apart. A byte is known by the message and the place it comes from, and  *)
(* the handler does not know either.                                       *)
(***************************************************************************)
EXTENDS Integers, Sequences

CONSTANTS Calls,    \* bound: calls of the client stub on this connection
          Sizes,    \* the packed sizes of requests
          Answers,  \* the sizes of answers, their two bytes of size included
          Width,    \* how many sizes the two bytes can tell: 65536 in the code
          Room,     \* bytes on their way that the connection holds
          BackRoom, \* bytes of answers that it holds
          Garbled   \* a message unpacked from something else than its bytes

ASSUME FramingAssumption == /\ Calls \in Nat /\ Room \in Nat /\ BackRoom \in Nat
                            /\ Width \in Nat \ {0}
                            /\ Sizes \subseteq Nat \ {0} /\ Answers \subseteq Nat \ {0}
                            /\ Garbled \notin Nat

Messages == 1..Calls

VARIABLES call,    \* where the caller is in network_send_receive, or "ended"
          msg,     \* the message of its current or last call
          len,     \* len[m]: the packed size of message m
          put,     \* bytes_written of its write_all
          torn,    \* ghost: a call gave up between the size and the message
          wire,    \* the bytes written and not received
          pc,      \* where the handler is
          size,    \* its msg_size2
          buf,     \* what it has of the message
          invoked, \* the messages it gave to invoke
          todo,    \* bytes of the answer it has yet to send
          unread   \* bytes of answers sent

callVars    == <<call, msg, len, put, torn>>
handlerVars == <<pc, size, buf, invoked, todo, unread>>
vars        == <<callVars, wire, handlerVars>>

Byte(m, part, i) == [of |-> m, part |-> part, at |-> i]
Byts == [of : Messages, part : {"size", "body"}, at : Nat \ {0}]

Writing == call \in {"size", "body"}

\* The caller closed its end with answers unread or yet to come: a reset.
Reset == call = "ended" /\ unread > 0

\* What ntohs makes of two bytes: a size went into a short, without what is over it.
SizeOf(a, b) == IF \E m \in Messages : a = Byte(m, "size", 1) /\ b = Byte(m, "size", 2)
                THEN {len[a.of] % Width} ELSE 0..Width - 1

\* Message m and those before it have sizes that a short can tell.
Fits(m) == \A n \in Messages : n <= m => len[n] < Width

\* What message_t__unpack may make of a buffer: NULL is no message at all.
Unpacks(bytes) == {m \in Messages : /\ Len(bytes) = len[m]
                                    /\ \A i \in 1..len[m] : bytes[i] = Byte(m, "body", i)}
Whole(bytes) == Unpacks(bytes) # {}

Init == /\ call = "idle" /\ msg = 0 /\ len = [m \in Messages |-> 0] /\ put = 0
        /\ torn = FALSE /\ wire = <<>>
        /\ pc = "size" /\ size = 0 /\ buf = <<>> /\ invoked = <<>>
        /\ todo = 0 /\ unread = 0

------------------------------------------------------------------------------
(* The caller.                                                              *)

\* A call of the client stub: the request is packed.
Call == /\ call = "idle" /\ msg < Calls
        /\ call' = "size" /\ put' = 0 /\ msg' = msg + 1
        /\ \E n \in Sizes : len' = [len EXCEPT ![msg + 1] = n]
        /\ UNCHANGED <<torn, wire, handlerVars>>

Length == IF call = "size" THEN 2 ELSE len[msg]

\* write_all: one more byte. What is written after the handler left is lost.
Write == /\ Writing /\ put < Length
         /\ \/ pc # "left" /\ Len(wire) < Room
                  /\ wire' = Append(wire, Byte(msg, call, put + 1))
            \/ pc = "left" /\ UNCHANGED wire
         /\ put' = put + 1
         /\ UNCHANGED <<call, msg, len, torn, handlerVars>>

WriteFails == /\ Writing /\ put < Length /\ pc = "left"
              /\ call' = "idle"
              /\ UNCHANGED <<msg, len, put, torn, wire, handlerVars>>

\* Mutant: the second write_all goes on where the first one stopped.
PackGoesOn == /\ call = "size" /\ put = 2
              /\ call' = "body"
              /\ UNCHANGED <<msg, len, put, torn, wire, handlerVars>>

\* malloc, message_t__pack, and the second write_all.
Pack == /\ call = "size" /\ put = 2
        /\ call' = "body" /\ put' = 0
        /\ UNCHANGED <<msg, len, torn, wire, handlerVars>>

\* malloc fails when the size is already written.
PackFails == /\ call = "size" /\ put = 2
             /\ call' = "idle" /\ torn' = TRUE
             /\ UNCHANGED <<msg, len, put, wire, handlerVars>>

\* write_all returns 0, which is taken for a closed connection: the call returns
\* NULL, and every call of the client stub an error.
Return == /\ call = "body" /\ put = len[msg]
          /\ call' = "idle"
          /\ UNCHANGED <<msg, len, put, torn, wire, handlerVars>>

\* The client quits, is interrupted (client_quit) or crashes; or the server that
\* calls ends, or finds another one to call.
End == /\ call # "ended" /\ call' = "ended"
       /\ UNCHANGED <<msg, len, put, torn, wire, handlerVars>>

------------------------------------------------------------------------------
(* The handler.                                                             *)

Leave == pc' = "left" /\ wire' = <<>>

\* network_receive: one recv for the size. It returns 0, and is called again, for
\* ever, when the caller closed the connection in good order.
ReceiveSize == /\ pc = "size" /\ Len(wire) >= 2
               /\ size' \in SizeOf(wire[1], wire[2])
               /\ wire' = SubSeq(wire, 3, Len(wire))
               /\ buf' = <<>> /\ pc' = "body"
               /\ UNCHANGED <<callVars, invoked, todo, unread>>

\* It returns 1: half of a size has come.
ReceiveHalf == /\ pc = "size" /\ Len(wire) = 1
               /\ Leave
               /\ UNCHANGED <<callVars, size, buf, invoked, todo, unread>>

\* receive_all: one more byte.
Receive == /\ pc = "body" /\ Len(buf) < size /\ wire # <<>>
           /\ buf' = Append(buf, Head(wire)) /\ wire' = Tail(wire)
           /\ UNCHANGED <<callVars, pc, size, invoked, todo, unread>>

\* recv returns -1.
ReceiveFails == /\ pc \in {"size", "body"} /\ Reset
                /\ Leave
                /\ UNCHANGED <<callVars, size, buf, invoked, todo, unread>>

\* The message goes to invoke.
Invokes(m) == /\ invoked' = Append(invoked, m)
              /\ pc' = "invoke"
              /\ UNCHANGED <<wire, todo>>

Refuses == Leave /\ UNCHANGED <<invoked, todo>>

\* Mutant: receive_all waits for one byte more than the message has.
InvokeLate == /\ pc = "body" /\ Len(buf) > size
              /\ \E m \in Messages : Invokes(m)
              /\ UNCHANGED <<callVars, size, buf, unread>>

\* message_t__unpack and invoke.
Invoke == /\ pc = "body" /\ Len(buf) = size
          /\ \/ \E m \in Unpacks(buf) : Invokes(m)
             \/ ~Whole(buf) /\ (Invokes(Garbled) \/ Refuses)
          /\ UNCHANGED <<callVars, size, buf, unread>>

\* The connection closes in the middle of a message: receive_all returns 0, which
\* is no error, and the buffer is unpacked with whatever memory it was given.
InvokeCut == /\ pc = "body" /\ Len(buf) < size /\ wire = <<>> /\ call = "ended"
             /\ Invokes(Garbled) \/ Refuses
             /\ UNCHANGED <<callVars, size, buf, unread>>

\* invoke and the forwarding, which take as long as the monitors and the next server
\* make them: there is an answer to send, or invoke failed, or malloc did, and the
\* thread is gone with its connection open (network_server.c:496).
Answer == /\ pc = "invoke"
          /\ \/ pc' = "send" /\ todo' \in Answers /\ UNCHANGED wire
             \/ Leave /\ UNCHANGED todo
             \/ pc' = "gone" /\ UNCHANGED <<wire, todo>>
          /\ UNCHANGED <<callVars, size, buf, invoked, unread>>

\* Mutant: the answer is sent whether or not it fits.
SendOver == /\ pc = "send" /\ todo > 0
            /\ unread' = unread + 1 /\ todo' = todo - 1
            /\ UNCHANGED <<callVars, wire, pc, size, buf, invoked>>

\* send_all: one more byte, if the connection has room.
Send == /\ pc = "send" /\ todo > 0 /\ unread < BackRoom
        /\ unread' = unread + 1 /\ todo' = todo - 1
        /\ UNCHANGED <<callVars, wire, pc, size, buf, invoked>>

\* Mutant: a failed network_send is not looked at.
SendIgnored == /\ pc = "send" /\ todo > 0 /\ Reset
               /\ UNCHANGED vars

SendFails == /\ pc = "send" /\ todo > 0 /\ Reset
             /\ Leave
             /\ UNCHANGED <<callVars, size, buf, invoked, todo, unread>>

Sent == /\ pc = "send" /\ todo = 0
        /\ pc' = "size"
        /\ UNCHANGED <<callVars, wire, size, buf, invoked, todo, unread>>

------------------------------------------------------------------------------
CallerRuns  == Write \/ WriteFails \/ Pack \/ PackFails \/ Return
HandlerRuns == \/ ReceiveSize \/ ReceiveHalf \/ Receive \/ ReceiveFails
               \/ Invoke \/ InvokeCut \/ Send \/ SendFails \/ Sent

Next == Call \/ CallerRuns \/ End \/ HandlerRuns \/ Answer

Spec == Init /\ [][Next]_vars

\* Both threads run; nobody has to call, or to end, and nothing makes invoke return.
FairSpec == Spec /\ WF_vars(CallerRuns) /\ WF_vars(HandlerRuns)

------------------------------------------------------------------------------
(* Properties.                                                              *)

\* The types, and that neither direction holds more than it has room for.
TypeOK == /\ call \in {"idle", "size", "body", "ended"}
          /\ msg \in 0..Calls /\ len \in [Messages -> Sizes \cup {0}]
          /\ put \in Nat /\ torn \in BOOLEAN
          /\ wire \in Seq(Byts) /\ Len(wire) <= Room
          /\ pc \in {"size", "body", "invoke", "send", "gone", "left"}
          /\ size \in Nat /\ buf \in Seq(Byts)
          /\ invoked \in Seq(Messages \cup {Garbled})
          /\ todo \in Nat /\ unread \in 0..BackRoom

\* Whatever pieces the messages come in, the handler invokes exactly the messages
\* that were sent, in order and each once, and at most one that is none of them:
\* the last, cut off by the end of its caller (network_server.c:591-626). This is so
\* up to the first message that is too long for its size (network_client.c:126), and
\* unless a call gave up between a size and its message (network_client.c:135-139).
InOrder == ~torn => \A i \in 1..Len(invoked) : Fits(i) =>
                       \/ invoked[i] = i
                       \/ i = Len(invoked) /\ invoked[i] = Garbled /\ call = "ended"

\* The handler waits for room for an answer that nobody will read.
Stuck == pc = "send" /\ todo > 0 /\ unread = BackRoom

\* No invoke and no forwarding takes for ever: not in a monitor that is kept
\* (table_skel.c:65), nor in a write to the next server; and no thread is gone.
InvokeReturns == []<>(pc \notin {"invoke", "gone"})

\* A call returns, whatever becomes of the handler, unless that is stuck in send or
\* in invoke: of what the two do by themselves only the answers nobody reads
\* (network_client.c:144) can block a caller.
CallReturns == InvokeReturns => (Writing ~> ~Writing \/ Stuck)

\* A message reaches invoke once its call has begun, unless the handler got half
\* a size or leaves (network_server.c:602), gets stuck, the caller ends, or this
\* message or one before it is too long for its size.
Arrives == InvokeReturns =>
              \A m \in Messages :
                 msg >= m /\ Fits(m) ~> \/ \E i \in 1..Len(invoked) : invoked[i] = m
                                       \/ pc = "left" \/ Stuck \/ torn \/ call = "ended"

\* The handler of a caller that ended leaves, wherever in its own code that caught
\* it, but for the caller that was never sent an answer: there recv returns 0 and
\* the handler calls it for ever (network_server.c:598).
EndedLeft == InvokeReturns => (call = "ended" ~> pc = "left" \/ (pc = "size" /\ unread = 0))
=============================================================================
