---------------------------- MODULE SocketBuffers ----------------------------
(***************************************************************************)
(* The buffers of one connection between two nodes that both run this code *)
(* (src/net.cpp): vSendMsg with its offset and its size, the kernel's      *)
(* bounded buffers between the two sockets, the reassembly of messages in  *)
(* vRecvMsg, the descriptor sets of the socket handler, and the loop of    *)
(* ProcessMessages that consumes complete messages.                        *)
(*                                                                         *)
(* Bytes are units that know the message they belong to; the receiver uses *)
(* only what the code uses, the announced size in the header and its own   *)
(* counts.  HdrLen units make a header (24 bytes in the code).             *)
(***************************************************************************)
EXTENDS Integers, Sequences

CONSTANTS Nodes,             \* the two ends
          HdrLen,            \* the units of a header
          Sizes,             \* the data sizes of messages
          MAX_SIZE,          \* a larger message is rejected
          SendBufferSize, ReceiveFloodSize,
          Wire,              \* the capacity of the kernel's buffers, each way
          ReadMax,           \* the size of pchBuf
          Speakers,          \* the ends that push messages
          MaxPush            \* bound: how many messages one pushes

ASSUME SocketBuffersAssumption ==
    /\ \E a, b \in Nodes : a # b /\ Nodes = {a, b}
    /\ HdrLen \in Nat \ {0} /\ Sizes \subseteq Nat /\ MAX_SIZE \in Nat
    /\ SendBufferSize \in Nat /\ ReceiveFloodSize \in Nat
    /\ Wire \in Nat \ {0} /\ ReadMax \in Nat \ {0}
    /\ Speakers \subseteq Nodes /\ MaxPush \in Nat

VARIABLES vSendMsg, nSendOffset, nSendSize,
          wire,       \* wire[n]: sent by n and not yet received
          vRecvMsg,
          fdset,      \* the set the socket handler of n has put the socket in
          busy,       \* ProcessMessages runs and holds cs_vRecvMsg
          pushed, processed, up

sending == <<vSendMsg, nSendOffset, nSendSize, pushed>>
bufferVars == <<sending, wire, vRecvMsg, fdset, busy, processed, up>>

Peer(n) == CHOOSE m \in Nodes : m # n
Length(msg) == HdrLen + msg.size
Lengths(msgs) == [i \in 1..Len(msgs) |-> Length(msgs[i])]

\* The sum of the first i lengths, and of all.
Upto(lengths, i) ==
    LET sum[k \in 0..Len(lengths)] == IF k = 0 THEN 0 ELSE sum[k - 1] + lengths[k] IN sum[i]
Total(lengths) == Upto(lengths, Len(lengths))

Least(S) == CHOOSE x \in S : \A y \in S : x <= y

BuffersInit ==
    /\ vSendMsg = [n \in Nodes |-> << >>]
    /\ nSendOffset = [n \in Nodes |-> 0] /\ nSendSize = [n \in Nodes |-> 0]
    /\ wire = [n \in Nodes |-> << >>]
    /\ vRecvMsg = [n \in Nodes |-> << >>]
    /\ fdset = [n \in Nodes |-> "none"] /\ busy = [n \in Nodes |-> FALSE]
    /\ pushed = [n \in Nodes |-> 0] /\ processed = [n \in Nodes |-> 0]
    /\ up = [n \in Nodes |-> TRUE]
----------------------------------------------------------------------------
(* Sending.                                                                *)

\* How many of the messages are sent in full when units from the start of the
\* first one are.
SentInFull(msgs, units) ==
    CHOOSE i \in 0..Len(msgs) :
        /\ Upto(Lengths(msgs), i) <= units
        /\ i < Len(msgs) => Upto(Lengths(msgs), i + 1) > units

\* The k-th unit of the messages.
UnitAt(msgs, k) ==
    LET i == SentInFull(msgs, k - 1)
    IN  [id |-> msgs[i + 1].id, size |-> msgs[i + 1].size, pos |-> k - Upto(Lengths(msgs), i)]
Unsent(msgs, offset) == [k \in 1..(Total(Lengths(msgs)) - offset) |-> UnitAt(msgs, offset + k)]

OffsetAfter(msgs, offset, k) == offset + k - Upto(Lengths(msgs), SentInFull(msgs, offset + k))
SizeAfter(size, msgs, offset, k) == size - Upto(Lengths(msgs), SentInFull(msgs, offset + k))

\* SocketSendData, on messages of the given size: send() takes whole messages and
\* at last a part of one; the kernel has room for Wire units.
SocketSendData(n, msgs, size) ==
    \E k \in 0..Least({Wire - Len(wire[n]), Len(Unsent(msgs, nSendOffset[n]))}) :
        LET sent == SentInFull(msgs, nSendOffset[n] + k)
        IN /\ wire' = [wire EXCEPT ![n] = @ \o SubSeq(Unsent(msgs, nSendOffset[n]), 1, k)]
           /\ vSendMsg' = [vSendMsg EXCEPT ![n] = SubSeq(msgs, sent + 1, Len(msgs))]
           /\ nSendOffset' = [nSendOffset EXCEPT ![n] = OffsetAfter(msgs, @, k)]
           /\ nSendSize' = [nSendSize EXCEPT ![n] = SizeAfter(size, msgs, nSendOffset[n], k)]

\* PushMessage: the message is queued and, if it is alone, sent at once.
PushMessage(n, size) ==
    LET msg == [id |-> pushed[n] + 1, size |-> size]
    IN /\ n \in Speakers /\ up[n] /\ pushed[n] < MaxPush
       /\ pushed' = [pushed EXCEPT ![n] = @ + 1]
       /\ \/ /\ vSendMsg[n] = << >>
             /\ SocketSendData(n, <<msg>>, nSendSize[n] + Length(msg))
          \/ /\ vSendMsg[n] # << >>
             /\ vSendMsg' = [vSendMsg EXCEPT ![n] = Append(@, msg)]
             /\ nSendSize' = [nSendSize EXCEPT ![n] = @ + Length(msg)]
             /\ UNCHANGED <<nSendOffset, wire>>
       /\ UNCHANGED <<vRecvMsg, fdset, busy, processed, up>>
----------------------------------------------------------------------------
(* Receiving: CNetMessage and ReceiveMsgBytes.                             *)

NetMessage == [hdr |-> << >>, data |-> << >>, in_data |-> FALSE]
complete(msg) == msg.in_data /\ Len(msg.data) = msg.hdr[1].size

\* readHeader and readData, for one unit.
readHeader(msg, unit) ==
    [msg EXCEPT !.hdr = Append(@, unit), !.in_data = Len(msg.hdr) + 1 = HdrLen]
readData(msg, unit) == [msg EXCEPT !.data = Append(@, unit)]

\* A mutated form: a new message is begun after every header.
AbsorbNoData(msgs, unit) ==
    LET q == IF msgs = << >> \/ msgs[Len(msgs)].in_data THEN Append(msgs, NetMessage) ELSE msgs
    IN  [q EXCEPT ![Len(q)] = readHeader(@, unit)]

Absorb(msgs, unit) ==
    LET q == IF msgs = << >> \/ complete(msgs[Len(msgs)]) THEN Append(msgs, NetMessage) ELSE msgs
    IN  [q EXCEPT ![Len(q)] = IF ~@.in_data THEN readHeader(@, unit) ELSE readData(@, unit)]

ReceiveMsgBytes(msgs, units) ==
    LET got[k \in 0..Len(units)] == IF k = 0 THEN msgs ELSE Absorb(got[k - 1], units[k])
    IN  got[Len(units)]
Rejected(msgs) == \E i \in 1..Len(msgs) : msgs[i].in_data /\ msgs[i].hdr[1].size > MAX_SIZE

Announced(msg) == HdrLen + IF msg.in_data THEN msg.hdr[1].size ELSE 0
TotalRecvSize(n) == Total([i \in 1..Len(vRecvMsg[n]) |-> Announced(vRecvMsg[n][i])])

\* CloseSocketDisconnect: the receive buffer is wiped if its lock is free.
Closed(n, locked) ==
    /\ up' = [up EXCEPT ![n] = FALSE]
    /\ vRecvMsg' = [vRecvMsg EXCEPT ![n] = IF locked THEN << >> ELSE @]
    /\ wire' = [wire EXCEPT ![Peer(n)] = << >>]
    /\ UNCHANGED <<sending, busy, processed>>

\* The first send() of PushMessage fails, because the peer has gone.
PushFails(n) ==
    /\ n \in Speakers /\ up[n] /\ ~up[Peer(n)] /\ pushed[n] < MaxPush /\ vSendMsg[n] = << >>
    /\ Closed(n, TRUE) /\ UNCHANGED fdset
----------------------------------------------------------------------------
(* The socket handler.                                                     *)

\* A mutated form: no exception for a message that does not fit.
WantsDataIfRoom(n) == TotalRecvSize(n) <= ReceiveFloodSize

WantsData(n) ==
    vRecvMsg[n] # << >> /\ complete(Head(vRecvMsg[n])) => TotalRecvSize(n) <= ReceiveFloodSize

\* FD_SET: "If there is data to send, select() for sending data" ...
SelectSend(n) ==
    /\ up[n] /\ fdset[n] = "none" /\ vSendMsg[n] # << >>
    /\ fdset' = [fdset EXCEPT ![n] = "send"]
    /\ UNCHANGED <<sending, wire, vRecvMsg, busy, processed, up>>

\* ... otherwise, or while another thread holds cs_vSend, for receiving.
SelectRecv(n) ==
    /\ up[n] /\ fdset[n] = "none" /\ ~busy[n] /\ WantsData(n)
    /\ fdset' = [fdset EXCEPT ![n] = "recv"]
    /\ UNCHANGED <<sending, wire, vRecvMsg, busy, processed, up>>

\* select() says that the socket is not ready, or the lock is taken.
NotReady(n) ==
    /\ up[n] /\ fdset[n] # "none"
    /\ fdset' = [fdset EXCEPT ![n] = "none"]
    /\ UNCHANGED <<sending, wire, vRecvMsg, busy, processed, up>>

Receive(n) ==
    /\ up[n] /\ fdset[n] = "recv" /\ ~busy[n]
    /\ fdset' = [fdset EXCEPT ![n] = "none"]
    /\ \E k \in 1..Least({ReadMax, Len(wire[Peer(n)])}) :
          LET received == ReceiveMsgBytes(vRecvMsg[n], SubSeq(wire[Peer(n)], 1, k))
          IN \/ /\ ~Rejected(received)
                /\ vRecvMsg' = [vRecvMsg EXCEPT ![n] = received]
                /\ wire' = [wire EXCEPT ![Peer(n)] = SubSeq(@, k + 1, Len(@))]
                /\ UNCHANGED <<sending, busy, processed, up>>
             \/ Rejected(received) /\ Closed(n, TRUE)

\* recv() returns zero, or an error, once the peer has closed its socket.
ReceiveEnd(n) ==
    /\ up[n] /\ ~up[Peer(n)] /\ fdset[n] = "recv" /\ ~busy[n]
    /\ fdset' = [fdset EXCEPT ![n] = "none"]
    /\ Closed(n, TRUE)

Send(n) ==
    /\ up[n] /\ fdset[n] = "send" /\ up[Peer(n)] /\ Len(wire[n]) < Wire
    /\ fdset' = [fdset EXCEPT ![n] = "none"]
    /\ SocketSendData(n, vSendMsg[n], nSendSize[n])
    /\ UNCHANGED <<pushed, vRecvMsg, busy, processed, up>>

\* send() fails.
SendError(n) ==
    /\ up[n] /\ ~up[Peer(n)] /\ fdset[n] = "send"
    /\ fdset' = [fdset EXCEPT ![n] = "none"]
    /\ Closed(n, ~busy[n])

\* fDisconnect was set: a timeout, or the message handler's decision.
FlaggedDisconnect(n) ==
    /\ up[n] /\ fdset[n] = "none"
    /\ Closed(n, ~busy[n]) /\ UNCHANGED fdset
----------------------------------------------------------------------------
(* The message handler.                                                    *)

BeginProcess(n) ==
    /\ up[n] /\ ~busy[n]
    /\ busy' = [busy EXCEPT ![n] = TRUE]
    /\ UNCHANGED <<sending, wire, vRecvMsg, fdset, processed, up>>

\* "Don't bother if send buffer is too full to respond anyway"; "end, if an
\* incomplete message is found".
MayProcess(n) ==
    /\ vRecvMsg[n] # << >> /\ complete(Head(vRecvMsg[n]))
    /\ nSendSize[n] < SendBufferSize

HandleMessage(n) ==
    /\ up[n] /\ busy[n] /\ MayProcess(n)
    /\ processed' = [processed EXCEPT ![n] = Head(vRecvMsg[n]).hdr[1].id]
    /\ vRecvMsg' = [vRecvMsg EXCEPT ![n] = Tail(@)]
    /\ UNCHANGED <<sending, wire, fdset, busy, up>>

EndProcess(n) ==
    /\ busy[n] /\ (up[n] => ~MayProcess(n))
    /\ busy' = [busy EXCEPT ![n] = FALSE]
    /\ UNCHANGED <<sending, wire, vRecvMsg, fdset, processed, up>>

BuffersNext == \E n \in Nodes :
    \/ \E size \in Sizes : PushMessage(n, size)
    \/ PushFails(n) \/ FlaggedDisconnect(n)
    \/ SelectSend(n) \/ SelectRecv(n) \/ NotReady(n) \/ Receive(n) \/ ReceiveEnd(n) \/ Send(n) \/ SendError(n)
    \/ BeginProcess(n) \/ HandleMessage(n) \/ EndProcess(n)

BuffersSpec == BuffersInit /\ [][BuffersNext]_bufferVars

\* The loops of both threads run for ever; a socket that stays ready is found
\* ready, and a lock that is free again and again is taken.
FairBuffers ==
    /\ BuffersSpec
    /\ \A n \in Nodes :
          /\ SF_bufferVars(SelectSend(n)) /\ SF_bufferVars(SelectRecv(n)) /\ WF_bufferVars(NotReady(n))
          /\ SF_bufferVars(Receive(n)) /\ SF_wire(Send(n))
          /\ WF_bufferVars(BeginProcess(n)) /\ SF_bufferVars(HandleMessage(n)) /\ WF_bufferVars(EndProcess(n))
----------------------------------------------------------------------------
(* Properties.                                                             *)

Unit == [id : Nat, size : Sizes, pos : Nat]

\* Every variable keeps the type of its declaration.
BuffersType ==
    /\ \A n \in Nodes :
          /\ \A i \in 1..Len(vSendMsg[n]) : vSendMsg[n][i] \in [id : Nat, size : Sizes]
          /\ \A i \in 1..Len(wire[n]) : wire[n][i] \in Unit
          /\ \A i \in 1..Len(vRecvMsg[n]) : vRecvMsg[n][i].in_data \in BOOLEAN
          /\ Len(wire[n]) <= Wire
    /\ nSendOffset \in [Nodes -> Nat] /\ nSendSize \in [Nodes -> Nat]
    /\ fdset \in [Nodes -> {"none", "send", "recv"}] /\ busy \in [Nodes -> BOOLEAN]
    /\ pushed \in [Nodes -> Nat] /\ processed \in [Nodes -> Nat] /\ up \in [Nodes -> BOOLEAN]

\* nSendSize counts the queued messages in full until the last unit of each is
\* sent, and nSendOffset stays inside the first one: the asserts of SocketSendData.
SendAccounting ==
    \A n \in Nodes :
        /\ nSendSize[n] = Total(Lengths(vSendMsg[n]))
        /\ IF vSendMsg[n] = << >> THEN nSendOffset[n] = 0 ELSE nSendOffset[n] < Length(Head(vSendMsg[n]))

\* Whatever parts send() and recv() make of the stream, each received message
\* has the units of one sent message, in their order.
FramesIntact ==
    \A n \in Nodes : \A i \in 1..Len(vRecvMsg[n]) :
        LET msg == vRecvMsg[n][i]
            units == msg.hdr \o msg.data
        IN \A k \in 1..Len(units) : units[k].id = units[1].id /\ units[k].pos = k

\* The receive buffer is bounded, by the flood size or one large message, and the
\* last read.
Largest == IF ReceiveFloodSize > HdrLen + MAX_SIZE THEN ReceiveFloodSize ELSE HdrLen + MAX_SIZE
RecvBounded == \A n \in Nodes : TotalRecvSize(n) <= Largest + ReadMax + HdrLen + MAX_SIZE

\* The messages that are somewhere between the two handlers.
Arrived(n) == [i \in 1..Len(vRecvMsg[n]) |-> vRecvMsg[n][i].hdr[1].id]
Starts(units) ==
    LET ids[k \in 0..Len(units)] ==
          IF k = 0 THEN << >> ELSE IF units[k].pos = 1 THEN Append(ids[k - 1], units[k].id) ELSE ids[k - 1]
    IN  ids[Len(units)]
Queued(n) == LET begun == IF nSendOffset[n] > 0 THEN 1 ELSE 0
             IN  [i \in 1..(Len(vSendMsg[n]) - begun) |-> vSendMsg[n][i + begun].id]
queue == [n \in Nodes |-> IF ~up[Peer(n)] THEN << >>
                          ELSE Arrived(Peer(n)) \o Starts(wire[n]) \o IF up[n] THEN Queued(n) ELSE << >>]
Stream == INSTANCE MessageStream

\* Messages are processed in the order they were pushed, each once, none skipped,
\* until an end closes: the buffers implement a message stream.
ImplementsStream == Stream!Spec

\* The stream is implemented, with the send counters exact, every partly received
\* message whole so far, and the receive buffer bounded.
StreamKept == ImplementsStream /\ [](SendAccounting /\ FramesIntact /\ RecvBounded)

\* "at least one of the following is always possible, so we don't deadlock: We
\* send some data.  We wait for data to be received [...].  We process a message"
\* (net.cpp:848-852): for one of the two ends at least.
Possible(n) ==
    \/ vSendMsg[n] # << >> /\ Len(wire[n]) < Wire
    \/ vSendMsg[n] = << >> /\ WantsData(n)
    \/ MayProcess(n)
NoDeadlock == (\A n \in Nodes : up[n]) => \E n \in Nodes : Possible(n)

\* What n pushes is processed by its peer, unless an end closes, when only n
\* pushes: also a message that is larger than the receive buffer.
Delivered ==
    \A n \in Speakers : \A i \in 1..MaxPush :
        pushed[n] >= i ~> processed[Peer(n)] >= i \/ \E m \in Nodes : ~up[m]
==============================================================================
