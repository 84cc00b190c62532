------------------------------ MODULE WireReader ------------------------------
(***************************************************************************)
(* The byte stream between the Observer DLL and SocketHandler.run.  The    *)
(* Observer writes records laid out by MallocMessage and FreeMessage; the  *)
(* GUI reads them back field by field with readFully, under a read         *)
(* timeout of a second.  A cell stands for one or more bytes: the type,    *)
(* the size and the trace length take one cell, an address takes a low and *)
(* a high one, a trace one per cell of text.                               *)
(***************************************************************************)
EXTENDS Naturals, Sequences, FiniteSets

CONSTANTS Records,          \* what the hooks can report
          MaxRecords,       \* bound: records sent
          MidRecordStalls   \* may a record's bytes arrive over a second apart?

ALLOCATE == 1       \* 0x12
FREE == 2           \* 0x13
SOCKET_CLOSED == 3  \* -1: the end of the stream, or a byte 0xFF

Cells == 0 .. 3
IsRecord(r) ==
  /\ r \in [op : {ALLOCATE, FREE}, size : Cells,
            addr : Cells \X Cells,      \* low and high half
            trace : Seq(Cells)]
  /\ Len(r.trace) \in Cells
  /\ r.op = FREE => r.size = 0           \* a FreeMessage has none

ASSUME RecordsAssumption == \A r \in Records : IsRecord(r)
ASSUME BoundAssumption == MaxRecords \in Nat
ASSUME StallAssumption == MidRecordStalls \in BOOLEAN

VARIABLES
  net,        \* cells sent and not yet arrived
  avail,      \* cells arrived and not yet read
  peer,       \* the Observer's end: "open", "closed" or "reset"
  socket,     \* the GUI's end: "open" or "closed" (disconnect)
  field,      \* the field SocketHandler is reading, "ended" or "died"
  got,        \* the cells of this field read so far
  msg,        \* the fields of this record read so far
  sent,       \* history: the records sent
  queued      \* history: the records given to processIncoming

vars == <<net, avail, peer, socket, field, got, msg, sent, queued>>

NoRecord == [op |-> 0, size |-> 0, addr |-> <<0, 0>>, len |-> 0]
Fields == {"type", "size", "addr", "len", "trace"}

TypeOK ==
  /\ net \in Seq(Cells) /\ avail \in Seq(Cells)
  /\ peer \in {"open", "closed", "reset"} /\ socket \in {"open", "closed"}
  /\ field \in Fields \cup {"ended", "died"}
  /\ got \in Seq(Cells)
  /\ sent \in Seq(Records)
  /\ \A i \in 1 .. Len(queued) : IsRecord(queued[i])

Init ==
  /\ net = <<>> /\ avail = <<>>
  /\ peer = "open" /\ socket = "open"
  /\ field = "type" /\ got = <<>> /\ msg = NoRecord
  /\ sent = <<>> /\ queued = <<>>

-----------------------------------------------------------------------------
(* The Observer                                                            *)

\* MemoryMessage::getBytes: *(long *)buf = (long)ptr fills the low half of a
\* zeroed eight byte field.
AddressBytes(addr) == <<addr[1], 0>>

\* Mutant of Message: the trace length counts the terminating zero.
MessageWithZero(r) ==
  (IF r.op = ALLOCATE THEN <<ALLOCATE, r.size>> ELSE <<FREE>>)
    \o AddressBytes(r.addr) \o <<Len(r.trace) + 1>> \o r.trace

\* MallocMessage::getBytes and FreeMessage::getBytes.
Message(r) ==
  (IF r.op = ALLOCATE THEN <<ALLOCATE, r.size>> ELSE <<FREE>>)
    \o AddressBytes(r.addr) \o <<Len(r.trace)>> \o r.trace

\* send( ClientSocket, ret_buf, ... )
Send(r) ==
  /\ peer = "open" /\ socket = "open"
  /\ Len(sent) < MaxRecords
  /\ sent' = Append(sent, r)
  /\ net' = net \o Message(r)
  /\ UNCHANGED <<avail, peer, socket, field, got, msg, queued>>

\* The target ends; its records are delivered first.
Close ==
  /\ peer = "open"
  /\ peer' = "closed"
  /\ UNCHANGED <<net, avail, socket, field, got, msg, sent, queued>>

\* The connection is reset; whatever was not read is gone.
Reset ==
  /\ peer = "open"
  /\ peer' = "reset"
  /\ net' = <<>> /\ avail' = <<>>
  /\ UNCHANGED <<socket, field, got, msg, sent, queued>>

\* The network delivers.
Arrive ==
  /\ net # <<>>
  /\ avail' = Append(avail, Head(net))
  /\ net' = Tail(net)
  /\ UNCHANGED <<peer, socket, field, got, msg, sent, queued>>

-----------------------------------------------------------------------------
(* SocketHandler.run                                                       *)

\* The size of the buffer each field is read into.
Width == CASE field = "addr" -> 2
           [] field = "trace" -> msg.len
           [] OTHER -> 1

Running == field \in Fields
Reading == Running /\ socket = "open" /\ Len(got) < Width

\* Take one cell from the socket.
Read ==
  /\ Reading
  /\ avail # <<>>
  /\ got' = Append(got, Head(avail))
  /\ avail' = Tail(avail)
  /\ UNCHANGED <<net, peer, socket, field, msg, sent, queued>>

FieldRead(f) ==
  /\ field = f /\ Len(got) = Width
  /\ got' = <<>>
  /\ UNCHANGED <<net, avail, peer, socket, sent>>

\* The message type.  An unknown one is skipped.
TypeRead ==
  /\ FieldRead("type")
  /\ field' = CASE got[1] = ALLOCATE -> "size"
                [] got[1] = FREE -> "addr"
                [] got[1] = SOCKET_CLOSED -> "ended"
                [] OTHER -> "type"
  /\ msg' = [NoRecord EXCEPT !.op = got[1]]
  /\ UNCHANGED queued

SizeRead ==
  /\ FieldRead("size")
  /\ msg' = [msg EXCEPT !.size = got[1]]
  /\ field' = "addr"
  /\ UNCHANGED queued

AddrRead ==
  /\ FieldRead("addr")
  /\ msg' = [msg EXCEPT !.addr = got]
  /\ field' = "len"
  /\ UNCHANGED queued

\* A length whose top bit is set is negative: new byte[trace_len] throws, and
\* nothing in run() catches it.
LenRead ==
  /\ FieldRead("len")
  /\ msg' = [msg EXCEPT !.len = got[1]]
  /\ field' = IF got[1] = SOCKET_CLOSED THEN "died" ELSE "trace"
  /\ UNCHANGED queued

Received == [op |-> msg.op, size |-> msg.size, addr |-> msg.addr, trace |-> got]

\* Mutant of TraceRead: the address is not looked at.
TraceReadAny ==
  /\ FieldRead("trace")
  /\ queued' = Append(queued, Received)
  /\ field' = "type" /\ msg' = NoRecord

\* The record is complete: queue it, unless its address is null.
TraceRead ==
  /\ FieldRead("trace")
  /\ queued' = IF msg.addr = <<0, 0>> THEN queued ELSE Append(queued, Received)
  /\ field' = "type" /\ msg' = NoRecord

\* SocketTimeoutException: what was read of the record is forgotten and the
\* loop starts over.
Timeout ==
  /\ Reading
  /\ avail = <<>> /\ (net # <<>> \/ peer = "open")
  /\ MidRecordStalls \/ (field = "type" /\ net = <<>>)
  /\ field' = "type" /\ got' = <<>> /\ msg' = NoRecord
  /\ UNCHANGED <<net, avail, peer, socket, sent, queued>>

\* Mutant of EndOfStream: only the end of a record counts.
EndOfRecord ==
  /\ Reading
  /\ field = "type"
  /\ \/ avail = <<>> /\ net = <<>> /\ peer = "closed"
     \/ peer = "reset"
  /\ field' = "ended"
  /\ UNCHANGED <<net, avail, peer, socket, got, msg, sent, queued>>

\* read() answers -1, readFully throws EOFException, or the reset is noticed.
EndOfStream ==
  /\ Reading
  /\ \/ avail = <<>> /\ net = <<>> /\ peer = "closed"
     \/ peer = "reset"
  /\ field' = "ended"
  /\ UNCHANGED <<net, avail, peer, socket, got, msg, sent, queued>>

\* disconnect() has closed the socket: the next read throws SocketException.
SocketClosed ==
  /\ Running /\ socket = "closed" /\ Len(got) < Width
  /\ field' = "ended"
  /\ UNCHANGED <<net, avail, peer, socket, got, msg, sent, queued>>

\* The user presses Disconnect.
Disconnect ==
  /\ socket = "open"
  /\ socket' = "closed"
  /\ UNCHANGED <<net, avail, peer, field, got, msg, sent, queued>>

-----------------------------------------------------------------------------
Observer == Close \/ Reset \/ \E r \in Records : Send(r)

SocketHandler ==
  \/ Read
  \/ TypeRead
  \/ SizeRead
  \/ AddrRead
  \/ LenRead
  \/ TraceRead
  \/ EndOfStream
  \/ SocketClosed

Next == Observer \/ Arrive \/ SocketHandler \/ Timeout \/ Disconnect

Spec == Init /\ [][Next]_vars

\* The network delivers and the socket thread runs; neither end has to close.
FairSpec == Spec /\ WF_vars(Arrive) /\ WF_vars(SocketHandler)

-----------------------------------------------------------------------------
(* Properties                                                              *)

NotNull(r) == r.addr # <<0, 0>>

\* How many of the first n records sent are about an address.
Place(n) == Cardinality({k \in 1 .. n : NotNull(sent[k])})

\* What reaches the queue is what the hooks reported, field for field and in
\* order; only reports about a null address are left out.
ReceivedAsSent ==
  /\ Len(queued) <= Place(Len(sent))
  /\ \A k \in 1 .. Len(sent) :
       NotNull(sent[k]) /\ Place(k) <= Len(queued) => queued[Place(k)] = sent[k]

\* The socket thread never dies of an exception nobody catches.
NeverDies == field # "died"

\* A connection that is gone ends the socket thread, in the middle of a record
\* too.
ReaderEnds == (peer # "open" \/ socket = "closed") ~> ~Running
=============================================================================
