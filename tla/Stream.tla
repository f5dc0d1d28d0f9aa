------------------------------- MODULE Stream -------------------------------
(***************************************************************************)
(* From the bytes of a TCP connection to the decoders: the read buffer of  *)
(* TcpClientTransport, emptied by queued calls; the StreamChunker, which   *)
(* cuts the mixed stream into sentences, lines and binary chunks; and the  *)
(* BinaryProtocolRouter, which looks for the protocol of the binary ones.  *)
(*                                                                         *)
(* Bytes are abstracted to the pieces that these classes tell apart:       *)
(*   "D"       the body of a sentence with a valid checksum                *)
(*   "T"       a piece of printable text that begins a text line           *)
(*   "C", "L"  carriage return and line feed                               *)
(*   a header  of one of the binary Protocols, "P" the rest of its frame   *)
(* A read that ends inside a body is one that ends before it: in both      *)
(* cases no line end has come yet, and the beginning is printable.         *)
(***************************************************************************)
EXTENDS Naturals, Sequences, SequencesExt, Lists

CONSTANTS
  Protocols,       \* the binary protocols, by header, in registration order
  Framed,          \* those of them whose plugins know their frame boundaries
  DispatchLen,     \* pieces passed on by one queued call (16 KiB)
  MaxText,         \* pieces after which a line without end is given up (8 KiB)
  Capacity,        \* pieces that a chunker keeps (256 KiB)
  MaxItems,        \* bound: sentences, lines and frames of a connection
  MaxConnections,  \* bound: connections
  None             \* no protocol

Headers   == ToSet(Protocols)
Printable == {"D", "T", "C", "L"}
LineEnds  == {"C", "L"}
Pieces    == Printable \cup {"P"} \cup Headers

(* A device sends sentences, lines of text and frames of its protocol h.   *)
Items(h) == {<<"D", "C", "L">>, <<"T", "T", "C", "L">>, <<h, "P">>}
Plans(h) == {FlattenSeq(items) : items \in SeqOf(Items(h), MaxItems)}

ASSUME ProtocolsAreListed == Protocols \in Seq(Headers)
ASSUME HeadersAreBinary == Headers \cap (Printable \cup {"P"}) = {} /\ None \notin Headers
ASSUME FramedAreProtocols == Framed \subseteq Headers
ASSUME BoundsArePositive ==
  {DispatchLen, MaxText, Capacity} \subseteq Nat \ {0} /\ {MaxItems, MaxConnections} \subseteq Nat
ASSUME CapacitySuffices == MaxText + DispatchLen <= Capacity

VARIABLES
  connected,    \* the socket is connected
  connections,  \* connections so far
  speaks,       \* the binary protocol of the device
  plan,         \* what the device sends over this connection
  read,         \* how much of it has been read
  readBuffer,   \* m_readBuffer
  scheduled,    \* m_dispatchScheduled
  events,       \* dispatchBufferedReads calls in the event queue
  buffer,       \* m_buffer of the chunker of the stream
  router,       \* StreamState: active protocol and pending bytes
  chunks,       \* history: the chunks of this connection
  fed,          \* history: what was fed to the active protocol
  cut           \* history: a line was taken without its line end

reads   == <<readBuffer, scheduled, events>>
socket  == <<connected, connections, speaks, plan>>
history == <<chunks, fed, cut>>
vars    == <<socket, read, reads, buffer, router, history>>
-----------------------------------------------------------------------------
(* The chunker, on the contents b of its buffer.                           *)

(* The framer of protocol h at the head of b: the size of the frame, or 0  *)
(* with wait set if the frame may go on.                                   *)
Framer(h, b) ==
  [size |-> IF Len(b) > 1 /\ b[1] = h /\ b[2] = "P" THEN 2 ELSE 0,
   wait |-> b = <<h>>]

(* A text line begins at i and its end has arrived. *)
LooksLikeTextRun(b, i) ==
  /\ b[i] \in {"D", "T"}
  /\ \E end \in i + 1..Len(b) :
       b[end] \in LineEnds /\ \A j \in i..end : b[j] \in Printable

(* The line from the head of b with all line ends that follow it.  The     *)
(* mutant goes on to the last line end in the buffer.                      *)
ThroughLastLine(b) ==
  CHOOSE n \in 1..Len(b) :
    b[n] \in LineEnds /\ \A i \in n + 1..Len(b) : b[i] \notin LineEnds
LineLength(b) ==
  CHOOSE n \in 1..Len(b) :
    /\ b[n] \in LineEnds
    /\ n = Len(b) \/ b[n + 1] \notin LineEnds
    /\ \A i, j \in 1..n : i < j /\ b[i] \in LineEnds => b[j] \in LineEnds

IsTextLike(b) == b # <<>> /\ ToSet(b) \subseteq Printable

Classify(payload) ==
  IF payload[1] = "D" THEN "NMEA" ELSE IF IsTextLike(payload) THEN "ASCII" ELSE "BIN"

Boundaries(b) == {i \in 2..Len(b) : LooksLikeTextRun(b, i)}

(* The next chunk: its kind and how much of b it takes, 0 to wait for      *)
(* more.  Framers come first, and one that waits stops the others; then a  *)
(* line at the head, binary data up to the next line, text whose end does  *)
(* not come, or everything.                                                *)
NextChunk(b) ==
  LET chunk(kind, n) == [kind |-> kind, size |-> n]
      sizes == {Framer(h, b).size : h \in Framed} \ {0}
  IN  IF sizes # {} THEN chunk("BIN", CHOOSE n \in sizes : TRUE)
      ELSE IF \E h \in Framed : Framer(h, b).wait THEN chunk("BIN", 0)
      ELSE IF LooksLikeTextRun(b, 1)
           THEN LET n == LineLength(b) IN chunk(Classify(SubSeq(b, 1, n)), n)
      ELSE IF Boundaries(b) # {}
           THEN chunk("BIN", (CHOOSE i \in Boundaries(b) :
                                \A j \in Boundaries(b) : i <= j) - 1)
      ELSE IF IsTextLike(b) THEN chunk("ASCII", IF Len(b) > MaxText THEN Len(b) ELSE 0)
      ELSE chunk("BIN", Len(b))

(* A turn of the loop in takeAvailableChunks: the next chunk moves from    *)
(* t.rest to t.chunks.                                                     *)
Turn(t) ==
  LET next == NextChunk(t.rest)
  IN  IF t.rest = <<>> \/ next.size = 0 THEN t
      ELSE [chunks |-> Append(t.chunks, [kind    |-> next.kind,
                                         payload |-> SubSeq(t.rest, 1, next.size)]),
            rest   |-> SubSeq(t.rest, next.size + 1, Len(t.rest))]

(* The chunks taken from b, before binary ones are merged, and the rest.   *)
(* Every turn takes a piece, until one takes nothing.                      *)
TakeAvailableChunks(b) ==
  LET after[n \in 0..Len(b)] ==
        IF n = 0 THEN [chunks |-> <<>>, rest |-> b] ELSE Turn(after[n - 1])
  IN  after[Len(b)]

(* mergeBinaryChunks, with chunk c appended to what is merged.             *)
Joined(merged, c) ==
  IF merged # <<>> /\ Last(merged).kind = "BIN" /\ c.kind = "BIN"
  THEN [merged EXCEPT ![Len(merged)].payload = @ \o c.payload]
  ELSE Append(merged, c)

MergeBinary(cs) ==
  LET merged[n \in 0..Len(cs)] ==
        IF n = 0 THEN <<>> ELSE Joined(merged[n - 1], cs[n])
  IN  merged[Len(cs)]

(* append drops the oldest bytes beyond the capacity. *)
Appended(b, bytes) ==
  LET all == b \o bytes
  IN  IF Len(all) > Capacity THEN SubSeq(all, Len(all) - Capacity + 1, Len(all)) ELSE all
-----------------------------------------------------------------------------
(* The router.                                                             *)

HasFrame(b, frame) == \E i \in 1..Len(b) - 1 : SubSeq(b, i, i + 1) = frame

(* A protocol recognises a frame, and asks to keep a header at the end.    *)
Probe(h, b) == HasFrame(b, <<h, "P">>)
TrailingBytesToKeep(h, b) == IF Last(b) = h THEN 1 ELSE 0

(* What stays pending when no protocol is found; in the mutant nothing.    *)
KeptNothing(b) == <<>>
Kept(b) == IF \E h \in Headers : TrailingBytesToKeep(h, b) > 0
           THEN <<Last(b)>> ELSE <<>>

Idle == [active |-> None, pending |-> <<>>]

(* routeChunk of the router in state r.state, where r.fed was fed before.  *)
RouteChunk(r, c) ==
  LET bytes == r.state.pending \o c.payload
      found == Only(Protocols, {h \in Headers : Probe(h, bytes)})
  IN  IF c.kind # "BIN" THEN r
      ELSE IF r.state.active # None
           THEN [r EXCEPT !.fed = @ \o c.payload]
      ELSE IF found # <<>>
           THEN [state |-> [active |-> Head(found), pending |-> <<>>],
                 fed   |-> r.fed \o bytes]
      ELSE [r EXCEPT !.state.pending = Kept(bytes)]

(* The chunks cs are routed one after the other. *)
Routed(r, cs) ==
  LET after[n \in 0..Len(cs)] ==
        IF n = 0 THEN r ELSE RouteChunk(after[n - 1], cs[n])
  IN  after[Len(cs)]

(* handleIncomingBytes: chunk what arrived and route the chunks.           *)
HandleIncomingBytes(bytes) ==
  LET taken  == TakeAvailableChunks(Appended(buffer, bytes))
      new    == MergeBinary(taken.chunks)
      routed == Routed([state |-> router, fed |-> fed], new)
  IN  /\ buffer' = taken.rest
      /\ chunks' = chunks \o new
      /\ router' = routed.state
      /\ fed' = routed.fed
      /\ cut' = (cut \/ \E i \in DOMAIN taken.chunks :
                          Last(taken.chunks[i].payload) \in {"T", "C"})

(* resetTransportState, resetAllStreamState. *)
ResetStream == buffer' = <<>> /\ router' = Idle
-----------------------------------------------------------------------------
(* The connection.                                                         *)

(* connected, and the session that it starts.  Bound: MaxConnections.      *)
Connect ==
  /\ ~connected /\ connections < MaxConnections
  /\ connected' = TRUE
  /\ connections' = connections + 1
  /\ \E h \in Headers : speaks' = h /\ plan' \in Plans(h)
  /\ ResetStream
  /\ UNCHANGED <<read, reads, history>>

(* scheduleBufferedDispatch, with the flag as it was.  The mutant queues   *)
(* a call for every read.                                                  *)
ScheduleAgain(flag, queued) == scheduled' = TRUE /\ events' = queued + 1
Schedule(flag, queued) ==
  /\ scheduled' = TRUE
  /\ events' = IF flag THEN queued ELSE queued + 1

ReadyRead(n) ==
  /\ connected /\ read + n <= Len(plan)
  /\ read' = read + n
  /\ readBuffer' = readBuffer \o SubSeq(plan, read + 1, read + n)
  /\ Schedule(scheduled, events)
  /\ UNCHANGED <<socket, buffer, router, history>>

(* A call resets the flag before it schedules the next; the mutant does    *)
(* not.                                                                    *)
ScheduleUnreset(queued) == Schedule(scheduled, queued)
ScheduleRest(queued) == Schedule(FALSE, queued)

PassedOn == SubSeq(readBuffer, 1, IF Len(readBuffer) < DispatchLen
                                  THEN Len(readBuffer) ELSE DispatchLen)

PassOn ==
  /\ events > 0
  /\ readBuffer' = SubSeq(readBuffer, Len(PassedOn) + 1, Len(readBuffer))
  /\ IF Len(readBuffer) <= DispatchLen
     THEN scheduled' = FALSE /\ events' = events - 1
     ELSE ScheduleRest(events - 1)

DispatchBufferedReads ==
  /\ PassOn
  /\ IF PassedOn = <<>> THEN UNCHANGED <<buffer, router, history>>
                        ELSE HandleIncomingBytes(PassedOn)
  /\ UNCHANGED <<socket, read>>

(* The read buffer after the end of a connection; the mutant keeps it.     *)
BufferKept == readBuffer
BufferAfterClose == <<>>

(* close() by the user or disconnected by the peer.  Calls in the event    *)
(* queue stay there.  The history of the connection ends with it.          *)
Disconnect ==
  /\ connected
  /\ connected' = FALSE
  /\ plan' = <<>> /\ read' = 0 /\ chunks' = <<>> /\ fed' = <<>> /\ cut' = FALSE
  /\ readBuffer' = BufferAfterClose
  /\ scheduled' = FALSE
  /\ ResetStream
  /\ UNCHANGED <<connections, speaks, events>>
-----------------------------------------------------------------------------
Init ==
  /\ connected = FALSE /\ connections = 0
  /\ speaks \in Headers /\ plan = <<>> /\ read = 0
  /\ readBuffer = <<>> /\ scheduled = FALSE /\ events = 0
  /\ buffer = <<>> /\ router = Idle
  /\ chunks = <<>> /\ fed = <<>> /\ cut = FALSE

Next ==
  \/ Connect
  \/ \E n \in 1..Len(plan) : ReadyRead(n)
  \/ DispatchBufferedReads
  \/ Disconnect

Spec == Init /\ [][Next]_vars

(* The event loop serves the queue: PassOn is the transport's part of      *)
(* DispatchBufferedReads and of no other step.                             *)
FairSpec == Spec /\ WF_reads(PassOn)
-----------------------------------------------------------------------------
(* Types of the variables. *)
TypeOK ==
  /\ connected \in BOOLEAN /\ scheduled \in BOOLEAN
  /\ connections \in 0..MaxConnections /\ events \in 0..MaxConnections
  /\ speaks \in Headers /\ plan \in Seq(Pieces) /\ read \in 0..Len(plan)
  /\ readBuffer \in Seq(Pieces) /\ buffer \in Seq(Pieces) /\ Len(buffer) <= Capacity
  /\ router.active \in Headers \cup {None} /\ router.pending \in Seq(Pieces)
  /\ fed \in Seq(Pieces) /\ cut \in BOOLEAN

PayloadOf(cs) == FlattenSeq([i \in DOMAIN cs |-> cs[i].payload])

(***************************************************************************)
(* While a connection lasts, its chunks, the rest kept by the chunker and  *)
(* the read buffer are together what was read from it: no byte is lost,    *)
(* doubled or reordered, and none is left from an earlier connection,      *)
(* although calls queued for that one are still served; and the chunker    *)
(* never reaches its capacity.                                             *)
(***************************************************************************)
BytesInOrder ==
  connected =>
    PayloadOf(chunks) \o buffer \o readBuffer = SubSeq(plan, 1, read)

(***************************************************************************)
(* Every sentence of the stream becomes a chunk of its own for the NMEA    *)
(* decoder, however the bytes were read, among lines and among frames of   *)
(* protocols whose plugins know their boundaries - unless a line was taken *)
(* without its end, which the reads had cut off.                           *)
(***************************************************************************)
SentencesAreFound ==
  ~cut /\ speaks \in Framed =>
    \A i \in DOMAIN chunks :
      IF chunks[i].kind = "NMEA" THEN chunks[i].payload = <<"D", "C", "L">>
                                 ELSE "D" \notin ToSet(chunks[i].payload)

BinaryOf(c) == IF c.kind = "BIN" THEN c.payload ELSE <<>>
Binary == FlattenSeq([i \in DOMAIN chunks |-> BinaryOf(chunks[i])])

FramesIn(b) == {i \in 1..Len(b) - 1 : b[i] = speaks /\ b[i + 1] = "P"}

(***************************************************************************)
(* The protocol of the device is found, and every frame that was in the    *)
(* binary chunks is fed to it, also those that came in two chunks and      *)
(* those before it was found.                                              *)
(***************************************************************************)
FramesReachDecoder ==
  connected /\ FramesIn(Binary) # {} =>
    /\ router.active = speaks
    /\ LET lost == Len(Binary) - Len(fed)
       IN  /\ \A i \in FramesIn(Binary) : i > lost
           /\ fed = SubSeq(Binary, lost + 1, Len(Binary))

(***************************************************************************)
(* What has been read is passed on, or given up with the connection: the   *)
(* flag that a call is queued never stays set without one, through any     *)
(* number of connections.                                                  *)
(***************************************************************************)
ReadBufferDrains == (readBuffer # <<>>) ~> (readBuffer = <<>>)

=============================================================================
