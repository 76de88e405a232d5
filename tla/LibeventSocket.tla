--------------------------- MODULE LibeventSocket ---------------------------
(***************************************************************************)
(* A connection of the server: the state machine that its worker thread    *)
(* runs whenever libevent reports the socket readable or writable, with    *)
(* the buffers between the socket and the packet manager.                  *)
(*                                                                         *)
(* A byte is its position in the stream it belongs to: the client's        *)
(* requests, or the responses as the packet manager produced them.  So the *)
(* buffers show where each byte went.  The network hands over the client's *)
(* stream in pieces of any size and takes the server's in pieces of any    *)
(* size.  The packet manager is abstracted to the lengths of its           *)
(* responses, to whether they are to be sent right away, and to whether    *)
(* the connection goes on.  SSL is left out.                               *)
(***************************************************************************)
EXTENDS Integers, Sequences, FiniteSets

CONSTANTS
  SOCKET_BUFFER_SIZE,
  IntSize,          \* sizeof(int32_t), the length field of a packet
  SizeModulus,      \* size_t counts modulo this number
  Requests,         \* streams of requests: sequences of content lengths
  StartupResponse,  \* responses to the startup packet: content lengths
  ResponseLengths,  \* responses to a request: sequences of content lengths
  MaxRefusals,      \* bound: times the socket is not ready in the middle of
                    \* the contents of a response, for one connection
  MaxConnections    \* bound: connections the object serves

ASSUME SocketAssumption ==
  /\ IntSize \in Nat \ {0} /\ SOCKET_BUFFER_SIZE \in Nat /\ SOCKET_BUFFER_SIZE > IntSize
  /\ SizeModulus > 4 * SOCKET_BUFFER_SIZE

VARIABLES
  state,
  rbuf_,            \* [buf_ptr, buf], buf holding the first buf_size bytes
  wbuf_,            \* [buf_ptr, buf_size, buf_flush_ptr, buf]
  rpkt,             \* InputPacket
  responses, next_response_,
  is_started, force_flush,
  len,              \* local of BufferWriteBytesContent, OUTSIDE when not in it
  requests,         \* the client's stream, as lengths of contents
  received,         \* bytes of it read from the socket
  processed,        \* contents of the packets processed
  produced,         \* bytes of responses produced
  sent,             \* bytes written to the socket
  refusals,         \* history: times it was not ready in the middle of contents
  connections       \* connections served so far

pktVars == <<responses, next_response_, is_started, force_flush, len>>
vars == <<state, rbuf_, wbuf_, rpkt, pktVars, requests, received, processed, produced,
          sent, refusals, connections>>

OUTSIDE == -1
GARBAGE == 0      \* a byte of no stream

EmptyRead == [buf_ptr |-> 0, buf |-> <<>>]
EmptyWrite == [buf_ptr |-> 0, buf_size |-> 0, buf_flush_ptr |-> 0,
               buf |-> [i \in 1..SOCKET_BUFFER_SIZE |-> GARBAGE]]
NoPacket == [header_parsed |-> FALSE, len |-> 0, is_extended |-> FALSE, extended_buffer_ |-> <<>>]

Smaller(a, b) == IF a < b THEN a ELSE b
From(p, n) == [i \in 1..n |-> p + i]      \* n bytes after position p
-----------------------------------------------------------------------------
(* The client's stream.  The first packet has no type byte. *)

HeaderSize(i) == IF i = 1 THEN IntSize ELSE IntSize + 1
\* Where packet i begins: the number of bytes before it.
RECURSIVE StartOf(_)
StartOf(i) == IF i = 1 THEN 0 ELSE StartOf(i - 1) + HeaderSize(i - 1) + requests[i - 1]
StreamSize == StartOf(Len(requests)) + HeaderSize(Len(requests)) + requests[Len(requests)]
ContentOf(i) == From(StartOf(i) + HeaderSize(i), requests[i])

\* The length found in header bytes, less that of the field itself: of the
\* packet's contents, when they are the header of a packet, and a wrong one
\* otherwise.  Clients keep to the protocol: no length is less than its field.
LengthIn(header) ==
  IF \E i \in DOMAIN requests : header = From(StartOf(i), HeaderSize(i))
    THEN requests[CHOOSE i \in DOMAIN requests : header = From(StartOf(i), HeaderSize(i))]
    ELSE SizeModulus - 1
-----------------------------------------------------------------------------
Init ==
  /\ state = "CONN_READ"
  /\ requests \in Requests
  /\ received = 0 /\ processed = <<>> /\ produced = 0 /\ sent = <<>>
  /\ refusals = 0
  /\ rbuf_ = EmptyRead /\ wbuf_ = EmptyWrite /\ rpkt = NoPacket
  /\ responses = <<>> /\ next_response_ = 1 /\ len = OUTSIDE
  /\ is_started = FALSE /\ force_flush = FALSE
  /\ connections = 1

\* Mutant: what was not sent stays.
ResetKeeps ==
  /\ rbuf_' = EmptyRead
  /\ rpkt' = NoPacket
  /\ responses' = <<>> /\ next_response_' = 1 /\ len' = OUTSIDE
  /\ is_started' = FALSE /\ force_flush' = FALSE
  /\ UNCHANGED wbuf_

Reset ==
  /\ rbuf_' = EmptyRead /\ wbuf_' = EmptyWrite
  /\ rpkt' = NoPacket
  /\ responses' = <<>> /\ next_response_' = 1 /\ len' = OUTSIDE
  /\ is_started' = FALSE /\ force_flush' = FALSE

\* WorkerHandleNewConn: the object is reset once more and serves the next
\* connection that gets the same descriptor.
NewConnection ==
  /\ state = "CONN_INVALID"
  /\ connections < MaxConnections
  /\ connections' = connections + 1
  /\ state' = "CONN_READ"
  /\ requests' \in Requests
  /\ received' = 0 /\ processed' = <<>> /\ produced' = 0 /\ sent' = <<>>
  /\ refusals' = 0
  /\ Reset
-----------------------------------------------------------------------------
(* CONN_READ and CONN_WAIT *)

\* Mutant: what is left is not moved.
MakeRoomDrop ==
  IF rbuf_.buf_ptr = Len(rbuf_.buf) \/ Len(rbuf_.buf) = SOCKET_BUFFER_SIZE
    THEN EmptyRead ELSE rbuf_

\* What FillReadBuffer does before it reads: start again with an empty
\* buffer, or move what is left of a full one to its head.
MakeRoom ==
  IF rbuf_.buf_ptr = Len(rbuf_.buf) THEN EmptyRead
  ELSE IF Len(rbuf_.buf) = SOCKET_BUFFER_SIZE
    THEN [buf_ptr |-> 0, buf |-> SubSeq(rbuf_.buf, rbuf_.buf_ptr + 1, SOCKET_BUFFER_SIZE)]
    ELSE rbuf_

Fill(k) ==
  /\ k <= SOCKET_BUFFER_SIZE - Len(MakeRoom.buf)
  /\ k <= StreamSize - received
  /\ rbuf_' = [MakeRoom EXCEPT !.buf = @ \o From(received, k)]
  /\ received' = received + k

\* FillReadBuffer: k bytes arrive before the socket has no more or the buffer
\* is full.
ReadData(k) ==
  /\ state = "CONN_READ"
  /\ Fill(k)
  /\ state' = IF k > 0 THEN "CONN_PROCESS" ELSE "CONN_WAIT"
  /\ UNCHANGED <<wbuf_, rpkt, pktVars, requests, processed, produced, sent, refusals, connections>>

\* k bytes arrive before the client is found to have gone, or read fails.
ReadError(k) ==
  /\ state = "CONN_READ"
  /\ Fill(k)
  /\ state' = "CONN_CLOSING"
  /\ UNCHANGED <<wbuf_, rpkt, pktVars, requests, processed, produced, sent, refusals, connections>>

\* The event is updated; a failure closes the connection.
Wait ==
  /\ state = "CONN_WAIT"
  /\ state' \in {"CONN_READ", "CONN_CLOSING"}
  /\ UNCHANGED <<rbuf_, wbuf_, rpkt, pktVars, requests, received, processed, produced,
                 sent, refusals, connections>>
-----------------------------------------------------------------------------
(* CONN_PROCESS *)

\* Mutant: the pointer is compared as it is.
IsReadDataAvailableLate(bytes) == rbuf_.buf_ptr + bytes < Len(rbuf_.buf)

\* buf_ptr - 1 wraps around at the head of the buffer.
IsReadDataAvailable(bytes) ==
  (((rbuf_.buf_ptr - 1) % SizeModulus) + bytes) % SizeModulus < Len(rbuf_.buf)

InitialReadSize == IF is_started THEN IntSize + 1 ELSE IntSize
InBuffer(n) == SubSeq(rbuf_.buf, rbuf_.buf_ptr + 1, rbuf_.buf_ptr + n)

\* More data is needed, for a header or for the contents of a packet.
NeedData ==
  /\ state = "CONN_PROCESS"
  /\ \/ ~rpkt.header_parsed /\ ~IsReadDataAvailable(InitialReadSize)
     \/ rpkt.header_parsed /\ ~rpkt.is_extended /\ ~IsReadDataAvailable(rpkt.len)
  /\ state' = "CONN_WAIT"
  /\ UNCHANGED <<rbuf_, wbuf_, rpkt, pktVars, requests, received, processed, produced,
                 sent, refusals, connections>>

ReadPacketHeader ==
  /\ state = "CONN_PROCESS"
  /\ ~rpkt.header_parsed
  /\ IsReadDataAvailable(InitialReadSize)
  /\ LET n == LengthIn(InBuffer(InitialReadSize))
     IN rpkt' = [rpkt EXCEPT !.header_parsed = TRUE, !.len = n,
                             !.is_extended = n > SOCKET_BUFFER_SIZE]
  /\ rbuf_' = [rbuf_ EXCEPT !.buf_ptr = @ + InitialReadSize]
  /\ UNCHANGED <<state, wbuf_, pktVars, requests, received, processed, produced, sent,
                 refusals, connections>>

\* An extended packet takes what the buffer has and waits for the rest.
ReadExtended ==
  LET available == Len(rbuf_.buf) - rbuf_.buf_ptr
  IN /\ state = "CONN_PROCESS"
     /\ rpkt.header_parsed /\ rpkt.is_extended
     /\ rpkt.len - Len(rpkt.extended_buffer_) > available
     /\ rpkt' = [rpkt EXCEPT !.extended_buffer_ = @ \o InBuffer(available)]
     /\ rbuf_' = [rbuf_ EXCEPT !.buf_ptr = @ + available]
     /\ state' = "CONN_WAIT"
     /\ UNCHANGED <<wbuf_, pktVars, requests, received, processed, produced, sent, refusals, connections>>

\* The contents of the packet, once they are complete, and the bytes of the
\* buffer that they still take.
RequiredBytes == rpkt.len - Len(rpkt.extended_buffer_)
PacketComplete ==
  /\ rpkt.header_parsed
  /\ IF rpkt.is_extended THEN RequiredBytes <= Len(rbuf_.buf) - rbuf_.buf_ptr
                         ELSE IsReadDataAvailable(rpkt.len)

\* The packets that answer a request with contents of the given lengths.
ResponseSize(lengths) == IF lengths = <<>> THEN 0 ELSE
  LET RECURSIVE Total(_)
      Total(i) == IF i = 0 THEN 0 ELSE Total(i - 1) + IntSize + 1 + lengths[i]
  IN Total(Len(lengths))
Packets(lengths) ==
  [i \in DOMAIN lengths |->
    [base |-> produced + ResponseSize(SubSeq(lengths, 1, i - 1)), len |-> lengths[i],
     write_ptr |-> 0, skip_header_write |-> FALSE]]

\* ReadPacket succeeds and the packet is processed.  The startup packet is
\* answered at once.
ProcessPacket ==
  /\ state = "CONN_PROCESS"
  /\ PacketComplete
  /\ processed' = Append(processed, rpkt.extended_buffer_ \o InBuffer(RequiredBytes))
  /\ rbuf_' = [rbuf_ EXCEPT !.buf_ptr = @ + RequiredBytes]
  /\ \/ \E lengths \in ResponseLengths \union {StartupResponse}, flush \in BOOLEAN :
          /\ ~is_started => flush /\ lengths = StartupResponse
          /\ state' = "CONN_WRITE"
          /\ responses' = responses \o Packets(lengths)
          /\ produced' = produced + ResponseSize(lengths)
          /\ force_flush' = (force_flush \/ flush)
          /\ is_started' = TRUE
     \/ /\ is_started
        /\ state' = "CONN_CLOSING"
        /\ UNCHANGED <<responses, produced, force_flush, is_started>>
  /\ UNCHANGED <<wbuf_, rpkt, next_response_, len, requests, received, sent, refusals, connections>>
-----------------------------------------------------------------------------
(* CONN_WRITE *)

\* Byte i (from 0) of the write buffer; there is none behind its end.
WByte(w, i) == IF i < SOCKET_BUFFER_SIZE THEN w.buf[i + 1] ELSE GARBAGE

\* w with bytes stored from index i (from 0) on.
Store(w, i, bytes) ==
  [w EXCEPT !.buf = [j \in DOMAIN @ |->
     IF j \in i + 1 .. i + Len(bytes) THEN bytes[j - i] ELSE @[j]]]

\* FlushWriteBuffer on buffer w: the socket takes everything, or takes k
\* bytes and is not ready.
FlushAll(w) ==
  /\ sent' = sent \o [i \in 1..w.buf_size |-> WByte(w, w.buf_flush_ptr + i - 1)]
  /\ force_flush' = FALSE

FlushSome(w) ==
  /\ \E k \in 0 .. w.buf_size - 1 :
       /\ sent' = sent \o [i \in 1..k |-> WByte(w, w.buf_flush_ptr + i - 1)]
       /\ wbuf_' = [w EXCEPT !.buf_flush_ptr = @ + k, !.buf_size = @ - k]
  /\ UNCHANGED force_flush

Response == responses[next_response_]
Writing == state = "CONN_WRITE" /\ next_response_ <= Len(responses)

\* BufferWriteBytesHeader, once there is room in w.
PutHeader(w) ==
  /\ wbuf_' = [Store(w, w.buf_ptr, From(Response.base, IntSize + 1)) EXCEPT
                 !.buf_ptr = @ + IntSize + 1, !.buf_size = w.buf_ptr + IntSize + 1]
  /\ responses' = [responses EXCEPT ![next_response_].skip_header_write = TRUE]

\* Mutant: the type byte is not counted.
HeaderFitsShort == SOCKET_BUFFER_SIZE - wbuf_.buf_ptr >= IntSize

HeaderFits == SOCKET_BUFFER_SIZE - wbuf_.buf_ptr >= IntSize + 1

\* BufferWriteBytesHeader; the contents come next.
WriteHeader ==
  /\ Writing /\ len = OUTSIDE
  /\ \/ /\ Response.skip_header_write
        /\ UNCHANGED <<wbuf_, responses, sent, force_flush>>
     \/ /\ ~Response.skip_header_write /\ HeaderFits
        /\ PutHeader(wbuf_)
        /\ UNCHANGED <<sent, force_flush>>
     \/ /\ ~Response.skip_header_write /\ ~HeaderFits
        /\ FlushAll(wbuf_)
        /\ PutHeader(EmptyWrite)
  /\ len' = Response.len
  /\ UNCHANGED <<state, rbuf_, rpkt, next_response_, is_started, requests, received,
                 processed, produced, refusals, connections>>

BlockHeader ==
  /\ Writing /\ len = OUTSIDE
  /\ ~Response.skip_header_write /\ ~HeaderFits
  /\ FlushSome(wbuf_)
  /\ UNCHANGED <<state, rbuf_, rpkt, responses, next_response_, is_started, len, requests,
                 received, processed, produced, refusals, connections>>

\* The next n bytes of a response; there are none behind its end.
ResponseBytes(n) ==
  [i \in 1..n |-> IF Response.write_ptr + i <= Response.len
                    THEN Response.base + IntSize + 1 + Response.write_ptr + i ELSE GARBAGE]

Window == SOCKET_BUFFER_SIZE - wbuf_.buf_ptr

\* The end of BufferWriteBytesContent: what is left fits.
WriteRest ==
  /\ Writing /\ len # OUTSIDE /\ len <= Window
  /\ wbuf_' = IF len = 0 THEN wbuf_ ELSE
       [Store(wbuf_, wbuf_.buf_ptr, ResponseBytes(len)) EXCEPT
          !.buf_ptr = @ + len, !.buf_size = wbuf_.buf_ptr + len]
  /\ next_response_' = next_response_ + 1
  /\ len' = OUTSIDE
  /\ UNCHANGED <<state, rbuf_, rpkt, responses, is_started, force_flush, requests, received,
                 processed, produced, sent, refusals, connections>>

\* The buffer with the window filled; buf_ptr stays where it is.
FilledWindow ==
  [Store(wbuf_, wbuf_.buf_ptr, ResponseBytes(Window)) EXCEPT !.buf_size = SOCKET_BUFFER_SIZE]

\* Mutant: the packet's cursor is not moved.
WriteWindowAgain ==
  /\ Writing /\ len # OUTSIDE /\ len > Window
  /\ len' = len - Window
  /\ FlushAll(FilledWindow)
  /\ wbuf_' = EmptyWrite
  /\ UNCHANGED <<state, rbuf_, rpkt, responses, next_response_, is_started, requests, received,
                 processed, produced, refusals, connections>>

\* BufferWriteBytesContent: the window is filled and flushed.
WriteWindow ==
  /\ Writing /\ len # OUTSIDE /\ len > Window
  /\ responses' = [responses EXCEPT ![next_response_].write_ptr = @ + Window]
  /\ len' = len - Window
  /\ FlushAll(FilledWindow)
  /\ wbuf_' = EmptyWrite
  /\ UNCHANGED <<state, rbuf_, rpkt, next_response_, is_started, requests, received,
                 processed, produced, refusals, connections>>

\* The function is left; when it is called again it takes all of the
\* packet's length for what remains.
BlockWindow ==
  /\ Writing /\ len # OUTSIDE /\ len > Window
  /\ responses' = [responses EXCEPT ![next_response_].write_ptr = @ + Window]
  /\ refusals < MaxRefusals
  /\ refusals' = refusals + 1
  /\ len' = OUTSIDE
  /\ FlushSome(FilledWindow)
  /\ UNCHANGED <<state, rbuf_, rpkt, next_response_, is_started, requests, received,
                 processed, produced, connections>>

\* WritePackets is through with the responses; the input packet is reset.
Written == state = "CONN_WRITE" /\ next_response_ > Len(responses)

WriteComplete ==
  /\ Written
  /\ \/ force_flush /\ FlushAll(wbuf_) /\ wbuf_' = EmptyWrite
     \/ ~force_flush /\ UNCHANGED <<sent, wbuf_, force_flush>>
  /\ responses' = <<>>
  /\ next_response_' = 1
  /\ rpkt' = NoPacket
  /\ state' = "CONN_PROCESS"
  /\ UNCHANGED <<rbuf_, is_started, len, requests, received, processed, produced, refusals, connections>>

BlockPackets ==
  /\ Written
  /\ force_flush
  /\ FlushSome(wbuf_)
  /\ responses' = <<>>
  /\ next_response_' = 1
  /\ UNCHANGED <<state, rbuf_, rpkt, is_started, len, requests, received, processed, produced,
                 refusals, connections>>

\* A write fails for good.
WriteError ==
  /\ state = "CONN_WRITE"
  /\ \/ Writing /\ len = OUTSIDE /\ ~Response.skip_header_write /\ ~HeaderFits
     \/ Writing /\ len # OUTSIDE /\ len > Window
     \/ Written /\ force_flush
  /\ state' = "CONN_CLOSING"
  /\ UNCHANGED <<rbuf_, wbuf_, rpkt, pktVars, requests, received, processed, produced, sent,
                 refusals, connections>>
-----------------------------------------------------------------------------
\* CloseSocket: Reset replaces CONN_CLOSED by CONN_INVALID.
CloseSocket ==
  /\ state = "CONN_CLOSING"
  /\ state' = "CONN_INVALID"
  /\ Reset
  /\ UNCHANGED <<requests, received, processed, produced, sent, refusals, connections>>

Write == WriteHeader \/ WriteRest \/ WriteWindow \/ WriteComplete
Block == BlockHeader \/ BlockWindow \/ BlockPackets

Next ==
  \/ NewConnection
  \/ \E k \in 0..SOCKET_BUFFER_SIZE : ReadData(k) \/ ReadError(k)
  \/ Wait
  \/ NeedData \/ ReadPacketHeader \/ ReadExtended \/ ProcessPacket
  \/ Write \/ Block \/ WriteError
  \/ CloseSocket

Spec == Init /\ [][Next]_vars

\* The worker thread runs the state machine to its end.  libevent reports a
\* socket again as long as it can be read or written; the client's bytes
\* arrive and the client takes the server's.
FairSpec ==
  /\ Spec
  /\ WF_vars(Wait \/ NeedData \/ ReadPacketHeader \/ ReadExtended \/ ProcessPacket)
  /\ SF_vars(\E k \in 1..SOCKET_BUFFER_SIZE : ReadData(k))
  /\ SF_vars(Write)
-----------------------------------------------------------------------------
TypeOK ==
  /\ state \in {"CONN_READ", "CONN_WAIT", "CONN_PROCESS", "CONN_WRITE", "CONN_CLOSING",
                "CONN_INVALID"}
  /\ rbuf_.buf_ptr <= Len(rbuf_.buf) /\ Len(rbuf_.buf) <= SOCKET_BUFFER_SIZE
  /\ wbuf_.buf_ptr <= SOCKET_BUFFER_SIZE
  /\ refusals = 0 => wbuf_.buf_flush_ptr + wbuf_.buf_size <= SOCKET_BUFFER_SIZE
  /\ DOMAIN wbuf_.buf = 1..SOCKET_BUFFER_SIZE
  /\ next_response_ \in 1 .. Len(responses) + 1
  /\ len = OUTSIDE \/ len \in Nat
  /\ received \in 0..StreamSize
  /\ connections \in 1..MaxConnections

\* The packets that are processed are those the client sent, in order and
\* complete, however the network cut the stream: across the end of the read
\* buffer, in the middle of a header, with contents of no byte, of exactly
\* the buffer and longer than it; and nothing of an earlier connection is
\* among them.
PacketsExact ==
  /\ Len(processed) <= Len(requests)
  /\ \A i \in DOMAIN processed : processed[i] = ContentOf(i)

\* The client receives the bytes of the responses in order, none twice and
\* none left out, however little the socket takes at a time; but see
\* ResponsesIntact for a socket that is not ready in the middle of contents.
StreamIntact == refusals = 0 => \A i \in DOMAIN sent : sent[i] = i

\* Between the socket, the write buffer and the list of responses no byte is
\* lost: once all responses are in the buffer, what was sent and what the
\* buffer holds is all that was produced.
NothingLost ==
  state \in {"CONN_READ", "CONN_WAIT", "CONN_PROCESS"}
    => /\ responses = <<>>
       /\ refusals = 0 => Len(sent) + wbuf_.buf_size = produced

\* Every request of a client that stays is processed: the state machine
\* never waits for data it has already read.
RequestsServed ==
  state = "CONN_READ" ~> (state = "CONN_CLOSING" \/ Len(processed) = Len(requests))

\* What is to be sent right away is sent, not left in the buffer.
ResponsesFlushed ==
  force_flush ~> (state = "CONN_CLOSING" \/ Len(sent) = produced)

\* BufferWriteBytesContent takes up "the length of remaining content to
\* write" where it left off: the client receives the bytes of the responses
\* in order wherever the socket was not ready.
ResponsesIntact == \A i \in DOMAIN sent : sent[i] = i
=============================================================================
