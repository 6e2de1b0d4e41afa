------------------------------ MODULE Fragments ------------------------------
(***************************************************************************)
(* Fragmented messages over one stream connection: send_fragmented on one  *)
(* side, recv_frame with its reassembly buffers on the other               *)
(* (src/vynkor/client.py).  The SDK's bounds are those of the kernel, so   *)
(* the sending side stands for the kernel as well as for a plugin.         *)
(*                                                                         *)
(* Several tasks send at a time and interleave at the drain after every    *)
(* fragment; a task may be cancelled between two fragments.  The receiver  *)
(* prunes old buffers, waits for a frame and absorbs it; its caller may    *)
(* stop waiting.  The wire delivers whole frames, each once and in order   *)
(* (ConcurrentLoop treats frames cut short), until the connection breaks;  *)
(* the receiver may reconnect with the same client, whose buffers stay.    *)
(* Time passes between steps.                                              *)
(***************************************************************************)
EXTENDS Integers, Sequences, FiniteSets, Functions, SequencesExt

CONSTANTS
  Messages,     \* the payloads sent with send_fragmented, each once
  Size,         \* Size[m]: the bytes of payload m
  ChunkSizes,   \* the chunk sizes callers ask for
  Strays,       \* fragments of other origin that may also arrive, once each
  MaxPayload,   \* MAX_PAYLOAD
  HeaderSize,   \* FRAG_HEADER_SIZE
  MaxTotal,     \* 65535, most fragments of one message
  IdSpace,      \* 2^32, the number of stream ids
  MaxStreams,   \* MAX_REASSEMBLY_STREAMS
  Timeout,      \* REASSEMBLY_TIMEOUT
  MaxWire,      \* bound on the frames in transit: the writers drain
  MaxReconnects, \* bound on the reconnections
  MaxNow        \* bound on the clock

Bytes == Messages \X Nat

Fragment == [stream : Nat, seq : Nat, total : Nat, data : Seq(Bytes)]

ASSUME MessagesAssumption == IsFiniteSet(Messages)
ASSUME SizeAssumption   == Size \in [Messages -> Nat]
ASSUME ChunkAssumption  == ChunkSizes \subseteq Int
ASSUME StraysAssumption == Strays \subseteq Fragment
ASSUME BoundsAssumption ==
  /\ MaxPayload \in Nat /\ HeaderSize \in Nat \ {0} /\ MaxTotal \in Nat
  /\ MaxStreams \in Nat /\ Timeout \in Nat \ {0}
  /\ MaxWire \in Nat /\ MaxNow \in Nat /\ MaxReconnects \in Nat
  /\ IdSpace \in Nat /\ IdSpace > Cardinality(Messages) + 1

VARIABLES
  now,        \* time.monotonic
  conn,       \* how often the receiver reconnected
  leftover,   \* history: streams with a buffer from before a reconnection
  nextId,     \* _next_stream_id of the sender
  task,       \* what became of each call of send_fragmented
  job,        \* its stream id, chunk size and next sequence number, and
              \* history: the connection it is sent on
  strays,     \* the strays that are still to come
  wire,       \* the frames written and not yet received
  phase,      \* recv_frame is "reading", or nobody is in it ("outside")
  bufs,       \* _reassembly: stream id -> buffer
  delivered,  \* the reassembled frames returned so far: stream and payload
  discarded   \* history: streams of which the receiver dropped something

senderVars   == <<nextId, task, job>>
receiverVars == <<phase, bufs, delivered, discarded>>
connVars     == <<conn, leftover>>
vars == <<now, connVars, senderVars, strays, wire, receiverVars>>

TypeOK ==
  /\ now \in Nat /\ conn \in Nat /\ leftover \subseteq Nat
  /\ nextId \in 1..(IdSpace - 1)
  /\ task \in [Messages -> {"new", "refused", "sending", "cancelled", "broken",
                         "lost"}]
  /\ job \in [Messages -> [stream : 0..(IdSpace - 1), chunk : Int, seq : Nat,
                          conn : Nat]]
  /\ strays \subseteq Strays
  /\ wire \in Seq(Fragment)
  /\ phase \in {"outside", "reading"}
  /\ DOMAIN bufs \subseteq Nat
  /\ \A s \in DOMAIN bufs :
       /\ bufs[s].total \in Nat /\ bufs[s].bytes \in Nat
       /\ bufs[s].firstSeen \in 0..now
       /\ DOMAIN bufs[s].frags \subseteq 0..(bufs[s].total - 1)
  /\ delivered \in Seq([stream : Nat, payload : Seq(Bytes)])
  /\ discarded \subseteq Nat

NoBuffers == [s \in {} |-> 0]

(* The sender may have sent any number of messages before.                 *)
Init ==
  /\ now = 0 /\ conn = 0 /\ leftover = {}
  /\ nextId \in 1..(IdSpace - 1)
  /\ task = [m \in Messages |-> "new"]
  /\ job = [m \in Messages |-> [stream |-> 0, chunk |-> 0, seq |-> 0, conn |-> 0]]
  /\ strays = Strays /\ wire = <<>>
  /\ phase = "outside" /\ bufs = NoBuffers
  /\ delivered = <<>> /\ discarded = {}

-----------------------------------------------------------------------------
(* send_fragmented.                                                        *)

Payload(m) == [i \in 1..Size[m] |-> <<m, i>>]

Smaller(a, b) == IF a <= b THEN a ELSE b

(* max(1, -(-len(payload) // chunk_size))                                  *)
Total(m, c) == LET n == (Size[m] + c - 1) \div c IN IF n = 0 THEN 1 ELSE n

(* payload[seq * chunk_size : (seq + 1) * chunk_size]                      *)
Chunk(m, c, seq) ==
  SubSeq(Payload(m), seq * c + 1, Smaller((seq + 1) * c, Size[m]))

FragmentOf(m, c, seq, id) ==
  [stream |-> id, seq |-> seq, total |-> Total(m, c), data |-> Chunk(m, c, seq)]

(* Mutation: the room for the fragment header is forgotten.                *)
AcceptableWithoutHeader(m, c) ==
  /\ Size[m] <= MaxPayload
  /\ c > 0 /\ c <= MaxPayload
  /\ Total(m, c) <= MaxTotal

Acceptable(m, c) ==
  /\ Size[m] <= MaxPayload
  /\ c > 0 /\ c + HeaderSize <= MaxPayload
  /\ Total(m, c) <= MaxTotal

Refuse(m, c) ==
  /\ task[m] = "new"
  /\ ~Acceptable(m, c)
  /\ task' = [task EXCEPT ![m] = "refused"]
  /\ UNCHANGED <<now, connVars, nextId, job, strays, wire, receiverVars>>

(* Mutation: the id is taken but the counter stays.                        *)
SameId(id) == id

(* Mutation: the id after the last one is 0.                               *)
ZeroAfterWrap(id) == (id + 1) % IdSpace

(* (_next_stream_id + 1) & 0xFFFFFFFF or 1                                 *)
FollowingId(id) == IF (id + 1) % IdSpace = 0 THEN 1 ELSE (id + 1) % IdSpace

(* The checks pass: the message gets its stream id.                        *)
Accept(m, c) ==
  /\ task[m] = "new"
  /\ Acceptable(m, c)
  /\ task' = [task EXCEPT ![m] = "sending"]
  /\ job' = [job EXCEPT ![m] = [stream |-> nextId, chunk |-> c, seq |-> 0,
                                conn |-> conn]]
  /\ nextId' = FollowingId(nextId)
  /\ UNCHANGED <<now, connVars, strays, wire, receiverVars>>

Unsent(m) == task[m] = "sending" /\ job[m].seq < Total(m, job[m].chunk)

(* The next fragment is written; pack_frame refuses one that is too large. *)
WriteNext(m) ==
  /\ Unsent(m) /\ Len(wire) < MaxWire
  /\ LET f == FragmentOf(m, job[m].chunk, job[m].seq, job[m].stream)
     IN  IF Len(f.data) + HeaderSize <= MaxPayload
           THEN /\ wire' = Append(wire, f)
                /\ job' = [job EXCEPT ![m].seq = @ + 1]
                /\ UNCHANGED task
           ELSE task' = [task EXCEPT ![m] = "broken"] /\ UNCHANGED <<wire, job>>
  /\ UNCHANGED <<now, connVars, nextId, strays, receiverVars>>

(* The sending task is cancelled at the drain after a fragment.            *)
CancelSend(m) ==
  /\ Unsent(m) /\ job[m].seq > 0
  /\ task' = [task EXCEPT ![m] = "cancelled"]
  /\ UNCHANGED <<now, connVars, nextId, job, strays, wire, receiverVars>>

StrayArrives(f) ==
  /\ f \in strays /\ Len(wire) < MaxWire
  /\ strays' = strays \ {f}
  /\ wire' = Append(wire, f)
  /\ UNCHANGED <<now, connVars, senderVars, receiverVars>>

-----------------------------------------------------------------------------
(* recv_frame.                                                             *)

Stale(b) == {s \in DOMAIN b : now - b[s].firstSeen >= Timeout}

(* _prune_reassembly, and then the receiver waits for the next frame.      *)
PruneAndRead(b) ==
  /\ phase' = "reading"
  /\ bufs' = Restrict(b, DOMAIN b \ Stale(b))
  /\ discarded' = discarded \cup Stale(b)
  /\ UNCHANGED delivered

CallRecv ==
  /\ phase = "outside"
  /\ PruneAndRead(bufs)
  /\ UNCHANGED <<now, connVars, senderVars, strays, wire>>

(* The caller gives up while no frame has started.                         *)
CancelRecv ==
  /\ phase = "reading"
  /\ phase' = "outside"
  /\ UNCHANGED <<now, connVars, senderVars, strays, wire, bufs, delivered, discarded>>

(* recv_frame raises, without the buffer of stream s.                      *)
RaiseDropping(s) ==
  /\ phase' = "outside"
  /\ bufs' = Restrict(bufs, DOMAIN bufs \ {s})
  /\ discarded' = discarded \cup {s}
  /\ UNCHANGED delivered

Raise(s) ==
  /\ phase' = "outside"
  /\ discarded' = discarded \cup {s}
  /\ UNCHANGED <<bufs, delivered>>

(* Mutation: the buffer of the stream is not looked up.                    *)
FreshBuffer(f) ==
  [total |-> f.total, frags |-> NoBuffers, bytes |-> 0, firstSeen |-> now]

BufferFor(f) ==
  IF f.stream \in DOMAIN bufs THEN bufs[f.stream]
  ELSE [total |-> f.total, frags |-> NoBuffers, bytes |-> 0, firstSeen |-> now]

(* Mutation: a fragment that comes again is counted again.                 *)
ReplacedNever(b, seq) == 0

(* The bytes of the fragment that the new one replaces.                    *)
Replaced(b, seq) == IF seq \in DOMAIN b.frags THEN Len(b.frags[seq]) ELSE 0

Absorbed(b, f) ==
  [b EXCEPT !.bytes = @ - Replaced(b, f.seq) + Len(f.data),
            !.frags = [i \in DOMAIN @ \cup {f.seq} |->
                         IF i = f.seq THEN f.data ELSE @[i]]]

IsComplete(b) == Cardinality(DOMAIN b.frags) = b.total

Reassemble(b) == FlattenSeq([i \in 1..b.total |-> b.frags[i - 1]])

(* There is a buffer for the fragment, or room for one.                    *)
Room(f) == f.stream \in DOMAIN bufs \/ Cardinality(DOMAIN bufs) < MaxStreams

(* The fragment is refused, or spoils the set it belongs to.               *)
AbsorbFails(f) ==
  \/ f.seq >= f.total /\ Raise(f.stream)
  \/ /\ f.seq < f.total
     /\ \/ ~Room(f) /\ Raise(f.stream)
        \/ /\ Room(f)
           /\ \/ BufferFor(f).total # f.total
              \/ Absorbed(BufferFor(f), f).bytes > MaxPayload
           /\ RaiseDropping(f.stream)

(* The fragment is buffered; a complete set is returned to the caller.     *)
AbsorbSucceeds(f) ==
  LET b == Absorbed(BufferFor(f), f)
  IN  /\ f.seq < f.total /\ Room(f)
      /\ BufferFor(f).total = f.total /\ b.bytes <= MaxPayload
      /\ IF IsComplete(b)
           THEN /\ phase' = "outside"
                /\ bufs' = Restrict(bufs, DOMAIN bufs \ {f.stream})
                /\ delivered' = Append(delivered,
                     [stream |-> f.stream, payload |-> Reassemble(b)])
                /\ UNCHANGED discarded
           ELSE PruneAndRead([s \in DOMAIN bufs \cup {f.stream} |->
                                IF s = f.stream THEN b ELSE bufs[s]])

ReadFragment ==
  /\ phase = "reading" /\ wire # <<>>
  /\ AbsorbFails(Head(wire)) \/ AbsorbSucceeds(Head(wire))
  /\ wire' = Tail(wire)
  /\ UNCHANGED <<now, connVars, senderVars, strays>>

(* Every fragment of message m was written and read.                       *)
Received(m) ==
  /\ task[m] = "sending" /\ ~Unsent(m)
  /\ \A i \in DOMAIN wire : wire[i].stream # job[m].stream

(* The connection breaks and the receiver calls connect() on its client:   *)
(* _reassembly stays.  What was in transit is lost with the calls that were*)
(* sending it; the sender goes on numbering its streams or starts again.   *)
Reconnect ==
  /\ conn < MaxReconnects
  /\ conn' = conn + 1
  /\ wire' = <<>>
  /\ task' = [m \in Messages |-> IF task[m] = "sending" /\ ~Received(m)
                                   THEN "lost" ELSE task[m]]
  /\ nextId' \in {1, nextId}
  /\ leftover' = leftover \cup DOMAIN bufs
  /\ phase' = "outside"
  /\ UNCHANGED <<now, job, strays, bufs, delivered, discarded>>

Tick ==
  /\ now < MaxNow
  /\ now' = now + 1
  /\ UNCHANGED <<connVars, senderVars, strays, wire, receiverVars>>

-----------------------------------------------------------------------------
Next ==
  \/ \E m \in Messages :
       \/ \E c \in ChunkSizes : Refuse(m, c) \/ Accept(m, c)
       \/ WriteNext(m)
       \/ CancelSend(m)
  \/ \E f \in strays : StrayArrives(f)
  \/ CallRecv
  \/ CancelRecv
  \/ ReadFragment
  \/ Reconnect
  \/ Tick

Spec == Init /\ [][Next]_vars

-----------------------------------------------------------------------------
(* What the receiver returned on stream s is a message sent on it, whole.  *)
WholeOn(s) ==
  \A i \in DOMAIN delivered : delivered[i].stream = s =>
    \E m \in Messages : /\ task[m] \notin {"new", "refused"} /\ job[m].stream = s
                        /\ delivered[i].payload = Payload(m)

SenderStreams == 1..(IdSpace - 1)

(* The numbers of fragments that the messages of the sender can have.      *)
SenderTotals ==
  {t \in 1..MaxTotal : \E m \in Messages, c \in ChunkSizes :
                         Acceptable(m, c) /\ t = Total(m, c)}

(* Whatever else arrives on the sender's streams can complete no set there:*)
(* it is out of range, or of a set of another number of fragments than the *)
(* sender makes and not the first of them.                                 *)
HarmlessStrays ==
  \A f \in Strays : f.stream \in SenderStreams =>
    f.seq >= f.total \/ (f.total \notin SenderTotals /\ f.seq > 0)

(* What the receiver returns on the sender's streams are whole messages,   *)
(* each once (empty ones cannot be told apart), however their fragments    *)
(* interleave and break off, whatever else arrives, and over reconnections:*)
(* only a buffer that a reconnection left behind may spoil what follows on *)
(* its stream.                                                             *)
Intact ==
  \A s \in SenderStreams \ leftover :
    /\ WholeOn(s)
    /\ \A i, j \in DOMAIN delivered :
         /\ delivered[i].stream = s /\ delivered[i].payload # <<>>
         /\ delivered[i] = delivered[j]
         => i = j

(* The docstring of recv_frame (lines 388-391): it returns "the next       *)
(* complete frame"; never one put together from two messages.              *)
CompleteFrames == \A s \in SenderStreams : WholeOn(s)

(* A message whose fragments were all received was returned, unless the    *)
(* receiver raised or pruned on its stream: no complete set stays buffered.*)
NoSilentLoss ==
  \A m \in Messages : Received(m) =>
    \/ job[m].stream \in discarded
    \/ \E i \in DOMAIN delivered : delivered[i].payload = Payload(m)

(* The bounds of the README (line 189): the number of streams, the bytes of*)
(* each, counted right although fragments may come again.                  *)
BuffersBounded ==
  /\ Cardinality(DOMAIN bufs) <= MaxStreams
  /\ \A s \in DOMAIN bufs :
       /\ bufs[s].bytes <= MaxPayload
       /\ bufs[s].bytes = SumFunction([i \in DOMAIN bufs[s].frags |->
                                         Len(bufs[s].frags[i])])

(* send_fragmented refuses a message before its first fragment, or not at  *)
(* all: pack_frame never rejects a fragment halfway.                       *)
NeverBroken == \A m \in Messages : task[m] # "broken"
=============================================================================
