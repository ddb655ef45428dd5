-------------------------- MODULE MessageProcessor --------------------------
(***************************************************************************)
(* Two MessageProcessors (network.cpp) on the ends of a stream socket: one *)
(* sends, the other runs Update and Process.  The stream keeps the order   *)
(* of the bytes; how many a send or a recv takes is up to it.  A byte is a *)
(* number below Bytes, which also stands for the 16-bit width of the       *)
(* header's fields: a header is two bytes, the type and the payload's      *)
(* size, each modulo Bytes.                                                *)
(***************************************************************************)
EXTENDS Integers, FiniteSets, Sequences

CONSTANTS Bytes,
          Messages,         \* what is sent: records [type, payload]
          MaxMessageSize, IncomingBufferSize,
          ReadChunk,        \* size of readBuffer in Update
          MaxSends,         \* bound: calls of SendMessage
          MaxStream         \* bound: bytes under way

Header == 2
Byte   == 0 .. Bytes - 1
Larger(a, b) == IF a > b THEN a ELSE b
MessageBuffer == Larger(MaxMessageSize, Header)
BufferSize    == Larger(MaxMessageSize, IncomingBufferSize)

ASSUME SizeAssumption == /\ Bytes \in Nat \ {0}
                         /\ MaxMessageSize \in Nat /\ IncomingBufferSize \in Nat
                         /\ BufferSize > 0
                         /\ ReadChunk \in Nat \ {0}
                         /\ MaxSends \in Nat /\ MaxStream \in Nat
ASSUME MessageAssumption == Messages \subseteq [type : Nat, payload : Seq(Byte)]

-----------------------------------------------------------------------------
(***************************************************************************)
(* CircularBuffer: the ring of bytes a MessageProcessor reads from, as     *)
(* operators on a record: bytes (m_buffer, indices from 0), start, end     *)
(* (m_startPos, m_endPos) and size (m_size).  start = end both in an empty *)
(* and in a full buffer.                                                   *)
(***************************************************************************)
Smaller(a, b) == IF a < b THEN a ELSE b

NewBuffer(n, byte) == [bytes |-> [i \in 0 .. n - 1 |-> byte], start |-> 0, end |-> 0, size |-> 0]
BufSize(b) == Cardinality(DOMAIN b.bytes)
RemainingSize(b) == BufSize(b) - b.size

Copied(bytes, at, data) ==
    [i \in DOMAIN bytes |-> IF i \in at .. at + Len(data) - 1 THEN data[i - at + 1] ELSE bytes[i]]
Wrap(b, i) == IF i = BufSize(b) THEN 0 ELSE i

(***************************************************************************)
(* Write: up to the end of the storage if the data does not lie there,     *)
(* then, wrapped around, up to the first byte of the data.  The caller has *)
(* asked RemainingSize first.                                              *)
(***************************************************************************)
Write(b, data) ==
    LET first == IF b.start <= b.end THEN Smaller(Len(data), BufSize(b) - b.end) ELSE 0
        middle == Wrap(b, b.end + first)
        rest == SubSeq(data, first + 1, Len(data))
        more == rest # <<>> /\ middle < b.start
        bytes == Copied(b.bytes, b.end, SubSeq(data, 1, first))
    IN  [bytes |-> IF more THEN Copied(bytes, middle, rest) ELSE bytes,
         start |-> b.start,
         end   |-> IF more THEN middle + Smaller(b.start - middle, Len(rest)) ELSE middle,
         size  |-> b.size + Len(data)]

(***************************************************************************)
(* Read and Skip walk n bytes the same way: a part up to the end of the    *)
(* storage if the data wraps or fills it, and the rest from its beginning. *)
(***************************************************************************)
FirstPart(b, n) == IF b.start >= b.end THEN Smaller(n, BufSize(b) - b.start) ELSE 0
Behind(b, n) ==
    LET first == FirstPart(b, n)
        at == Wrap(b, b.start + first)
        rest == n - first
        more == rest > 0 /\ at < b.end
    IN  [at |-> at, count |-> IF more THEN Smaller(rest, b.end - at) ELSE 0]

Read(b, n) ==   \* the bytes; the caller has asked Size first
    LET behind == Behind(b, n)
    IN  [i \in 1 .. FirstPart(b, n) |-> b.bytes[b.start + i - 1]]
        \o [i \in 1 .. behind.count |-> b.bytes[behind.at + i - 1]]

Skip(b, n) ==
    LET behind == Behind(b, n)
    IN  IF b.size < n THEN b
        ELSE [b EXCEPT !.size = @ - n, !.start = behind.at + behind.count]

(* Peek: whether n bytes lie in one piece at the start, where a pointer to *)
(* them is returned.                                                       *)
Peek(b, n) ==
    /\ b.size > 0
    /\ n <= (IF b.start < b.end THEN b.end ELSE BufSize(b)) - b.start
Peeked(b, n) == [i \in 1 .. n |-> b.bytes[b.start + i - 1]]
-----------------------------------------------------------------------------
(* What the buffer stands for: the bytes from start on, around the ring.   *)
Contents(b) == [i \in 1 .. b.size |-> b.bytes[(b.start + i - 1) % BufSize(b)]]
-----------------------------------------------------------------------------
VARIABLES sending,   \* what SendMessage has left to write, one sequence for each SendLoop
          sent,      \* the messages SendMessage was called with
          stream,    \* bytes under way
          open,      \* [sender, receiver]: the socket is valid
          buffer,    \* m_buffer of the receiver
          at,        \* what the receiver does: "idle", "Update" or "Process"
          handled    \* the messages HandleMessage was called with

vars == <<sending, sent, stream, open, buffer, at, handled>>
sender == <<sending, sent>>
receiver == <<buffer, at, handled>>

Init ==
    /\ sending = <<>> /\ sent = <<>> /\ stream = <<>>
    /\ open = [sender |-> TRUE, receiver |-> TRUE]
    /\ buffer = NewBuffer(BufferSize, 0)
    /\ at = "idle" /\ handled = <<>>
-----------------------------------------------------------------------------
(* The sender.  SendMessage writes the header, then the payload.           *)
SendMessage(m) ==
    /\ sending = <<>> /\ open.sender /\ Len(sent) < MaxSends
    /\ sent' = Append(sent, m)
    /\ sending' = <<<<m.type % Bytes, Len(m.payload) % Bytes>>, m.payload>>
    /\ UNCHANGED <<stream, open, receiver>>

(* One send of the loop of SendLoop; it takes some of the bytes.           *)
SendSome(n) ==
    /\ sending # <<>> /\ n <= Len(sending[1]) /\ Len(stream) + n <= MaxStream
    /\ stream' = stream \o SubSeq(sending[1], 1, n)
    /\ sending' = [sending EXCEPT ![1] = SubSeq(@, n + 1, Len(@))]
    /\ UNCHANGED <<sent, open, receiver>>
SendLoopDone ==
    /\ sending # <<>> /\ sending[1] = <<>>
    /\ sending' = Tail(sending)
    /\ UNCHANGED <<sent, stream, open, receiver>>

(* Mistake: the socket stays open after a failed send. *)
SendFailsOpen ==
    /\ sending # <<>> /\ sending[1] # <<>>
    /\ sending' = <<>>
    /\ UNCHANGED <<sent, stream, open, receiver>>

(* send fails, or writes nothing: the socket is given up, with part of a   *)
(* message in the stream perhaps.                                          *)
SendFails ==
    /\ sending # <<>> /\ sending[1] # <<>>
    /\ sending' = <<>>
    /\ open' = [open EXCEPT !.sender = FALSE]
    /\ UNCHANGED <<sent, stream, receiver>>

CloseSender ==
    /\ sending = <<>> /\ open' = [open EXCEPT !.sender = FALSE]
    /\ UNCHANGED <<sender, stream, receiver>>
-----------------------------------------------------------------------------
(* The receiver.  Update reads until the stream has nothing or the buffer  *)
(* is full; the caller sees only what it returns.                          *)
Update ==
    /\ at = "idle" /\ open.receiver
    /\ at' = "Update"
    /\ UNCHANGED <<sender, stream, open, buffer, handled>>

UpdateReads(n) ==
    /\ at = "Update" /\ n <= Len(stream) /\ n <= Smaller(ReadChunk, RemainingSize(buffer))
    /\ buffer' = Write(buffer, SubSeq(stream, 1, n))
    /\ stream' = SubSeq(stream, n + 1, Len(stream))
    /\ UNCHANGED <<sender, open, at, handled>>

UpdateReturns ==    \* UPDATE_Full, UPDATE_NoData
    /\ at = "Update"
    /\ RemainingSize(buffer) = 0 \/ (stream = <<>> /\ open.sender)
    /\ at' = "idle"
    /\ UNCHANGED <<sender, stream, open, buffer, handled>>

UpdateFails ==      \* UPDATE_Error
    /\ at = "Update" /\ RemainingSize(buffer) > 0
    /\ at' = "idle"
    /\ UNCHANGED <<sender, stream, open, buffer, handled>>

UpdateCloses ==     \* UPDATE_Closed: the sender has closed and all is read
    /\ at = "Update" /\ RemainingSize(buffer) > 0 /\ stream = <<>> /\ ~ open.sender
    /\ open' = [open EXCEPT !.receiver = FALSE]
    /\ at' = "idle"
    /\ UNCHANGED <<sender, stream, buffer, handled>>

CloseReceiver ==
    /\ at = "idle" /\ open' = [open EXCEPT !.receiver = FALSE]
    /\ UNCHANGED <<sender, stream, receiver>>

(* Process: one turn of its loop for every complete message.               *)
Process == /\ at = "idle" /\ at' = "Process"
           /\ UNCHANGED <<sender, stream, open, buffer, handled>>

Head2 == Read(buffer, Header)
Complete == buffer.size >= Header /\ buffer.size >= Header + Head2[2]

(* Mistake: Process stops at a message that is too long. *)
SkipTooBigStops ==
    /\ at = "Process" /\ Complete /\ Header + Head2[2] > MessageBuffer
    /\ at' = "idle"
    /\ UNCHANGED <<sender, stream, open, buffer, handled>>

SkipTooBig ==
    /\ at = "Process" /\ Complete /\ Header + Head2[2] > MessageBuffer
    /\ buffer' = Skip(buffer, Header + Head2[2])
    /\ UNCHANGED <<sender, stream, open, at, handled>>

(* The payload is handed over where it lies if it is in one piece, else    *)
(* read into m_messageBuffer; it leaves the buffer after HandleMessage in  *)
(* the first case and before it in the second.  HandleMessage may close    *)
(* the socket.                                                             *)
HandleMessage(closes) ==
    /\ at = "Process" /\ Complete /\ Header + Head2[2] <= MessageBuffer
    /\ LET size == Head2[2]
           body == Skip(buffer, Header)
           inPlace == size > 0 /\ Peek(body, size)
           data == IF size = 0 THEN <<>> ELSE IF inPlace THEN Peeked(body, size) ELSE Read(body, size)
       IN  /\ handled' = Append(handled, [type |-> Head2[1], payload |-> data])
           /\ buffer' = Skip(body, size)
    /\ open' = [open EXCEPT !.receiver = @ /\ ~ closes]
    /\ UNCHANGED <<sender, stream, at>>

ProcessReturns ==
    /\ at = "Process" /\ ~ Complete
    /\ at' = "idle"
    /\ UNCHANGED <<sender, stream, open, buffer, handled>>

Sends == \/ \E m \in Messages : SendMessage(m)
         \/ \E n \in 1 .. MaxStream : SendSome(n)
         \/ SendLoopDone
Next ==
    \/ Sends \/ SendFails \/ CloseSender
    \/ Update \/ \E n \in 1 .. MaxStream : UpdateReads(n)
    \/ UpdateReturns \/ UpdateFails \/ UpdateCloses \/ CloseReceiver
    \/ Process \/ SkipTooBig \/ \E closes \in BOOLEAN : HandleMessage(closes)
    \/ ProcessReturns

Spec == Init /\ [][Next]_vars

(* The receiver's program calls Update and Process in turn, again and      *)
(* again, and the sender's goes on with the message it has begun; a recv   *)
(* that could give bytes does not fail for ever.                           *)
Fairness ==
    /\ WF_vars(\E n \in 1 .. MaxStream : SendSome(n)) /\ WF_vars(SendLoopDone)
    /\ SF_vars(Update) /\ SF_vars(\E n \in 1 .. MaxStream : UpdateReads(n)) /\ WF_vars(UpdateReturns)
    /\ SF_vars(Process) /\ WF_vars(SkipTooBig) /\ WF_vars(ProcessReturns)
    /\ WF_vars(\E closes \in BOOLEAN : HandleMessage(closes))
FairSpec == Spec /\ Fairness
-----------------------------------------------------------------------------
Framed == \A i \in DOMAIN sent : Len(sent[i].payload) < Bytes /\ sent[i].type < Bytes
Fits(m) == Header + Len(m.payload) <= MessageBuffer

Expected(i) == Len(SelectSeq(SubSeq(sent, 1, Smaller(i, Len(sent))), Fits))

(* The messages handled are the first k that were sent, in order, but for  *)
(* those that are too long for the message buffer.                         *)
HandledAre(k) ==
    \E pick \in [DOMAIN handled -> 1 .. k] :
        /\ \A i, j \in DOMAIN handled : i < j => pick[i] < pick[j]
        /\ {pick[i] : i \in DOMAIN handled} = {i \in 1 .. k : Fits(sent[i])}
        /\ \A i \in DOMAIN handled : handled[i] = sent[pick[i]]

(* Whatever way the stream cuts the bytes, wherever they lie in the ring   *)
(* and at whatever point a send fails, messages are handled whole and in   *)
(* order, and none is left out that fits (network.cpp:349, 499, 591).      *)
DeliveredInOrder == Framed => \E k \in 0 .. Len(sent) : HandledAre(k)

(* As long as both sockets stay open, a message that was sent is handled,  *)
(* also behind one that was too long for the message buffer                *)
(* (network.cpp:542).                                                      *)
ShortEnough == \A i \in DOMAIN sent : Header + Len(sent[i].payload) <= BufSize(buffer)
SentIsHandled ==
    \A i \in 1 .. MaxSends :
        (Len(sent) >= i /\ Framed /\ ShortEnough)
            ~> (\/ Len(handled) >= Expected(i)
                \/ ~ open.sender \/ ~ open.receiver
                \/ ~ (Framed /\ ShortEnough))
=============================================================================
