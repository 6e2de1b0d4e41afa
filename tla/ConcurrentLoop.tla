--------------------------- MODULE ConcurrentLoop ---------------------------
(***************************************************************************)
(* The concurrent serve loop of the SDK: serve_concurrent and              *)
(* run_concurrent_loop (src/vynkor/concurrent.py) over one kernel          *)
(* connection.                                                             *)
(*                                                                         *)
(* Three kinds of asyncio tasks share one event loop and interleave at     *)
(* their awaits: the loop task, the client.recv() and queue.get() tasks it *)
(* races in every iteration, and one task per accepted action request.     *)
(* The handler tasks talk to the loop only through a bounded queue of      *)
(* reply envelopes.  The kernel is the environment: it posts frames and    *)
(* may close the connection.                                               *)
(***************************************************************************)
EXTENDS Integers, Sequences, FiniteSets

CONSTANTS
  Envelopes,  \* the frames the kernel may post, each at most once
  Kind,       \* Kind[e]: the payload e carries, or "undecodable"
  MaxReplies, \* most envelopes one on_action may return
  Capacity,   \* RESPONSE_CHANNEL_CAPACITY
  Oversized,  \* the replies pack_frame refuses (VynkorPayloadTooLarge)
  Links,      \* the kinds of connection to check
  MaxFrames,  \* bound on the frames the kernel posts
  Failure,    \* client.recv() raised
  None        \* no envelope, no reply

Kinds == {"ping", "plugin_shutdown", "action_request", "event",
          "empty", "other", "undecodable"}

(* "stream": a Unix socket, asyncio.wait_for of Python 3.12 and later.     *)
(* "legacyStream": a Unix socket, asyncio.wait_for up to Python 3.11, which*)
(* runs the frame body in a task of its own and, when cancelled after that *)
(* task has finished, returns its result instead of raising.               *)
(* "message": a WebSocket, whose recv() delivers whole messages.           *)
AllLinks == {"stream", "legacyStream", "message"}

Requests == {e \in Envelopes : Kind[e] = "action_request"}
Replies  == Requests \X (1..MaxReplies)

ASSUME KindAssumption       == Kind \in [Envelopes -> Kinds]
ASSUME MaxRepliesAssumption == MaxReplies \in Nat \ {0}
ASSUME CapacityAssumption   == Capacity \in Nat \ {0}
ASSUME OversizedAssumption  == Oversized \subseteq Replies
ASSUME LinksAssumption      == Links \subseteq AllLinks
ASSUME MaxFramesAssumption  == MaxFrames \in Nat
ASSUME TokensAssumption     == /\ Failure \notin Envelopes
                               /\ None \notin Envelopes
                               /\ None \notin Replies
                               /\ None # Failure

VARIABLES
  link,       \* the kind of this connection
  pc,         \* where the loop task is
  posted,     \* the frames the kernel has written
  inbound,    \* those still in the transport, in order
  closed,     \* the kernel has closed the connection
  aligned,    \* the next byte to read is the first byte of a frame
  cut,        \* history: frames in the middle of which a reader was cancelled
  recvSt,     \* the client.recv() task of this iteration
  recvEnv,    \* the frame it is reading or has read
  taken,      \* the reply the loop has taken out of the queue
  queue,      \* the reply queue
  handler,    \* what became of each action request
  made,       \* how many envelopes its on_action returned
  put,        \* how many of them have entered the queue
  sent,       \* how often each reply was written to the connection
  dropped,    \* history: replies discarded unsent
  dispatched, \* history: envelopes the loop acted upon
  confirmed   \* pings ponged and events acknowledged

kernelVars == <<link, posted, closed>>
recvVars   == <<aligned, cut, recvSt, recvEnv>>
replyVars  == <<handler, made, put>>
outVars    == <<sent, dropped>>
histVars   == <<dispatched, confirmed>>
vars == <<kernelVars, inbound, pc, recvVars, taken, queue, replyVars, outVars,
          histVars>>

TypeOK ==
  /\ link \in Links
  /\ pc \in {"register", "init", "wait", "cancelRecv", "reply", "dispatch",
             "hook", "answer", "hookReply", "drain", "flush", "shutdown",
             "ended", "rejected", "crashed", "escaped"}
  /\ posted \subseteq Envelopes
  /\ inbound \in Seq(Envelopes)
  /\ closed \in BOOLEAN
  /\ aligned \in BOOLEAN
  /\ cut \subseteq Envelopes
  /\ recvSt \in {"idle", "partial", "ready", "done"}
  /\ recvEnv \in Envelopes \cup {Failure, None}
  /\ taken \in Replies \cup {None}
  /\ queue \in Seq(Replies)
  /\ handler \in [Requests -> {"none", "rejected", "running", "returned"}]
  /\ made \in [Requests -> 0..MaxReplies]
  /\ put \in [Requests -> 0..MaxReplies]
  /\ sent \in [Replies -> Nat]
  /\ dropped \subseteq Replies
  /\ dispatched \subseteq Envelopes
  /\ confirmed \subseteq Envelopes

Init ==
  /\ link \in Links
  /\ pc = "register"
  /\ posted = {} /\ inbound = <<>> /\ closed = FALSE
  /\ aligned = TRUE /\ cut = {} /\ recvSt = "idle" /\ recvEnv = None
  /\ taken = None /\ queue = <<>>
  /\ handler = [r \in Requests |-> "none"]
  /\ made = [r \in Requests |-> 0] /\ put = [r \in Requests |-> 0]
  /\ sent = [x \in Replies |-> 0] /\ dropped = {}
  /\ dispatched = {} /\ confirmed = {}

-----------------------------------------------------------------------------
(* The kernel, which writes to registered plugins, and whole frames.       *)

Registered == pc \notin {"register", "rejected"}

KernelPost(e) ==
  /\ Registered /\ ~closed /\ e \notin posted
  /\ Cardinality(posted) < MaxFrames
  /\ posted' = posted \cup {e}
  /\ inbound' = Append(inbound, e)
  /\ UNCHANGED <<link, closed, pc, recvVars, taken, queue, replyVars, outVars,
                 histVars>>

KernelClose ==
  /\ Registered /\ ~closed
  /\ closed' = TRUE
  /\ UNCHANGED <<link, posted, inbound, pc, recvVars, taken, queue, replyVars,
                 outVars, histVars>>

-----------------------------------------------------------------------------
(* The client.recv() task.                                                 *)

RecvTo(st, env) ==
  /\ recvSt' = st /\ recvEnv' = env
  /\ UNCHANGED <<kernelVars, pc, aligned, cut, taken, queue, replyVars,
                 outVars, histVars>>

(* The task runs while the loop waits; in a legacy wait_for the body task  *)
(* may get a step between the loop's cancel() and its CancelledError.      *)
BodyMayRun == pc = "wait" \/ (pc = "cancelRecv" /\ link = "legacyStream")

(* Mutation: every connection keeps a finished body from its reader.       *)
BodyDoneAnywhere == "ready"

(* Where a finished frame body is found: with a legacy wait_for, in a task *)
(* whose result client.recv() has yet to fetch.                            *)
BodyDone == IF link = "legacyStream" THEN "ready" ELSE "done"

(* What recv() makes of a frame: bad magic, checksum or MAC, raw binary,   *)
(* and payloads that do not parse raise.                                   *)
Received(e) == IF e \in Envelopes /\ Kind[e] # "undecodable" THEN e ELSE Failure

(* readexactly(1) of async_read_frame, which waits for a byte without a    *)
(* deadline: a frame is in progress from here on.  On a misaligned stream  *)
(* the byte is one of those that a frame in cut has left behind, and what  *)
(* follows it does not start with the magic.                               *)
ReadFirst ==
  /\ pc = "wait" /\ link # "message" /\ recvSt = "idle"
  /\ \/ /\ aligned /\ inbound # <<>>
        /\ RecvTo("partial", Head(inbound))
        /\ inbound' = Tail(inbound)
     \/ /\ ~aligned
        /\ RecvTo("partial", Failure)
        /\ UNCHANGED inbound

ReadRest ==
  /\ BodyMayRun /\ recvSt = "partial"
  /\ RecvTo(BodyDone, Received(recvEnv))
  /\ UNCHANGED inbound

(* The connection ends inside the frame, or FRAME_READ_TIMEOUT expires.    *)
ReadFails ==
  /\ recvSt = "partial"
  /\ \/ BodyMayRun /\ closed /\ RecvTo(BodyDone, Failure)
     \/ pc = "wait" /\ RecvTo("done", Failure)
  /\ UNCHANGED inbound

(* client.recv() resumes with the result of its body task.                 *)
Resume ==
  /\ pc = "wait" /\ recvSt = "ready"
  /\ RecvTo("done", recvEnv)
  /\ UNCHANGED inbound

ReadEof ==
  /\ pc = "wait" /\ recvSt = "idle" /\ closed /\ inbound = <<>>
  /\ RecvTo("done", Failure)
  /\ UNCHANGED inbound

(* A WebSocket message, read whole.                                        *)
ReadMessage ==
  /\ pc = "wait" /\ link = "message" /\ recvSt = "idle" /\ inbound # <<>>
  /\ RecvTo("done", Received(Head(inbound)))
  /\ inbound' = Tail(inbound)

RecvStep == \/ ReadFirst \/ ReadRest \/ ReadFails
            \/ Resume \/ ReadEof \/ ReadMessage

-----------------------------------------------------------------------------
(* The handler tasks.                                                      *)

(* Mutation: a handler that had to wait starts again with its first reply. *)
BatchAgain(r, n) ==
  IF n <= Capacity - Len(queue) THEN n ELSE Capacity - Len(queue)

(* How many envelopes, up to the n-th, handler r can put before QueueFull. *)
Batch(r, n) ==
  IF n - put[r] <= Capacity - Len(queue) THEN n - put[r]
                                         ELSE Capacity - Len(queue)

(* put_nowait is called without an await in between for as long as there   *)
(* is room; then the handler waits in queue.put.                           *)
PutUpTo(r, n) ==
  /\ queue' = queue \o [j \in 1..Batch(r, n) |-> <<r, put[r] + j>>]
  /\ put' = [put EXCEPT ![r] = @ + Batch(r, n)]
  /\ UNCHANGED <<kernelVars, inbound, pc, recvVars, taken, outVars, histVars>>

(* on_action returns its envelopes; an exception makes it one ACTION_ERROR.*)
HandlerReturn(r) ==
  /\ handler[r] = "running"
  /\ handler' = [handler EXCEPT ![r] = "returned"]
  /\ \E n \in 0..MaxReplies :
       made' = [made EXCEPT ![r] = n] /\ PutUpTo(r, n)

(* A handler waiting in queue.put finds room.                              *)
HandlerPut(r) ==
  /\ put[r] < made[r] /\ Len(queue) < Capacity
  /\ PutUpTo(r, made[r])
  /\ UNCHANGED <<handler, made>>

-----------------------------------------------------------------------------
(* The loop task: registration, on_init, on_shutdown.                      *)

Goto(places) ==
  /\ pc' \in places
  /\ UNCHANGED <<kernelVars, inbound, recvVars, taken, queue, replyVars,
                 outVars, histVars>>

(* A rejected registration, or one that raises, leaves without on_shutdown.*)
Register == pc = "register" /\ Goto({"init", "rejected"})

(* on_init may raise: then on_shutdown runs at once.                       *)
OnInit == pc = "init" /\ Goto({"wait", "shutdown"})

OnShutdown == pc = "shutdown" /\ Goto({"ended"})

-----------------------------------------------------------------------------
(* The loop task: one race of client.recv() against queue.get().           *)

(* The loop takes the head of the queue, which makes room for a handler.   *)
TakeHead ==
  /\ taken = None /\ queue # <<>>
  /\ taken' = Head(queue)
  /\ queue' = Tail(queue)
  /\ UNCHANGED <<kernelVars, inbound, pc, recvVars, replyVars, outVars, histVars>>

(* Mutation: the queue is looked at only when a frame has arrived.         *)
GetReplyAfterRecv == pc = "wait" /\ recvSt = "done" /\ TakeHead

(* Mutation: the reply is read but stays at the head of the queue.         *)
PeekReply ==
  /\ pc = "wait" /\ taken = None /\ queue # <<>>
  /\ taken' = Head(queue)
  /\ UNCHANGED <<kernelVars, inbound, pc, recvVars, queue, replyVars, outVars,
                 histVars>>

(* The queue.get() task completes.                                         *)
GetReply == pc = "wait" /\ TakeHead

(* Mutation: a reply that lost the race goes back to the end of the queue. *)
WakeOnRecvRequeues ==
  /\ pc = "wait" /\ recvSt = "done"
  /\ pc' = "dispatch"
  /\ taken' = None
  /\ queue' = IF taken = None THEN queue ELSE Append(queue, taken)
  /\ UNCHANGED <<kernelVars, inbound, recvVars, replyVars, outVars, histVars>>

(* asyncio.wait returns with client.recv() done.  A queue.get() that is    *)
(* still pending is cancelled, which leaves the queue as it is; the result *)
(* of one that is done as well is never looked at.                         *)
WakeOnRecv ==
  /\ pc = "wait" /\ recvSt = "done"
  /\ pc' = "dispatch"
  /\ taken' = None
  /\ dropped' = dropped \cup ({taken} \ {None})
  /\ UNCHANGED <<kernelVars, inbound, recvVars, queue, replyVars, sent, histVars>>

(* asyncio.wait returns with only queue.get() done.                        *)
WakeOnReply ==
  /\ pc = "wait" /\ taken # None /\ recvSt # "done"
  /\ Goto({"cancelRecv"})

(* The losing client.recv() is cancelled and awaited.  Between frames that *)
(* loses nothing.  Inside a frame the bytes already read are gone and the  *)
(* rest of the frame stays in the stream, at least one byte of it.  A read *)
(* out of step has taken one more of those bytes, perhaps the last one.    *)
(* A body that a legacy wait_for hands over in spite of the cancellation   *)
(* completes the task: its envelope is never looked at, and its exception  *)
(* is raised out of the loop.                                              *)
CancelRecv ==
  /\ pc = "cancelRecv"
  /\ IF recvSt = "partial"
       THEN /\ aligned' \in {FALSE, ~aligned}
            /\ cut' = cut \cup ({recvEnv} \cap Envelopes)
       ELSE UNCHANGED <<aligned, cut>>
  /\ recvSt' = "idle" /\ recvEnv' = None
  /\ IF recvSt = "ready" /\ recvEnv = Failure
       THEN pc' = "crashed" /\ taken' = None /\ dropped' = dropped \cup {taken}
       ELSE pc' = "reply" /\ UNCHANGED <<taken, dropped>>
  /\ UNCHANGED <<kernelVars, inbound, queue, replyVars, sent, histVars>>

(* client.send under "except BaseException: pass" ends: reply x is written,*)
(* or silently gone because the connection is or x is too large.           *)
Send(x) ==
  \/ /\ x \notin Oversized
     /\ sent' = [sent EXCEPT ![x] = @ + 1]
     /\ UNCHANGED dropped
  \/ /\ closed \/ x \in Oversized
     /\ dropped' = dropped \cup {x}
     /\ UNCHANGED sent

(* The reply in the loop's hands: the winner of the race, the answer to a  *)
(* refused request, or one taken while the queue is emptied.               *)
SendReply ==
  /\ pc \in {"reply", "drain", "flush"} /\ taken # None
  /\ Send(taken)
  /\ taken' = None
  /\ pc' = IF pc = "reply" THEN "wait" ELSE pc
  /\ UNCHANGED <<kernelVars, inbound, recvVars, queue, replyVars, histVars>>

-----------------------------------------------------------------------------
(* The loop task: dispatch of one received envelope.                       *)

RecvUsed(next) ==
  /\ pc' = next
  /\ recvSt' = "idle" /\ recvEnv' = None
  /\ UNCHANGED <<kernelVars, inbound, aligned, cut, taken, queue>>

Dispatches(kind) ==
  /\ pc = "dispatch" /\ recvEnv \in Envelopes
  /\ Kind[recvEnv] = kind
  /\ dispatched' = dispatched \cup {recvEnv}

OnFailure ==
  /\ pc = "dispatch" /\ recvEnv = Failure
  /\ RecvUsed("flush")
  /\ UNCHANGED <<replyVars, outVars, histVars>>

(* Mutation: the queue is emptied but the loop goes on.                    *)
OnPluginShutdownStays ==
  /\ Dispatches("plugin_shutdown")
  /\ RecvUsed("drain")
  /\ UNCHANGED <<replyVars, outVars, confirmed>>

OnPluginShutdown ==
  /\ Dispatches("plugin_shutdown")
  /\ RecvUsed("flush")
  /\ UNCHANGED <<replyVars, outVars, confirmed>>

(* The dispatch goes on at an await, with the envelope in hand.            *)
Proceed(next) ==
  /\ pc' = next
  /\ UNCHANGED <<kernelVars, inbound, recvVars, taken, queue, replyVars,
                 outVars, confirmed>>

OnPing == Dispatches("ping") /\ Proceed("answer")

(* accept lets the request through and its handler task is spawned.        *)
AcceptAction ==
  /\ Dispatches("action_request")
  /\ handler' = [handler EXCEPT ![recvEnv] = "running"]
  /\ RecvUsed("drain")
  /\ UNCHANGED <<made, put, outVars, confirmed>>

(* accept raises an Exception: the loop answers itself, and goes on to the *)
(* next iteration without a drain.                                         *)
RejectAction ==
  /\ Dispatches("action_request")
  /\ handler' = [handler EXCEPT ![recvEnv] = "rejected"]
  /\ made' = [made EXCEPT ![recvEnv] = 1]
  /\ put' = [put EXCEPT ![recvEnv] = 1]
  /\ taken' = <<recvEnv, 1>>
  /\ pc' = "reply"
  /\ recvSt' = "idle" /\ recvEnv' = None
  /\ UNCHANGED <<kernelVars, inbound, aligned, cut, queue, outVars, confirmed>>

(* accept raises what is no Exception (SystemExit, KeyboardInterrupt): the *)
(* request is not answered, the queue is not flushed, and on_shutdown does *)
(* not run.                                                                *)
AcceptEscapes ==
  /\ Dispatches("action_request")
  /\ RecvUsed("escaped")
  /\ UNCHANGED <<replyVars, outVars, confirmed>>

(* on_event and on_message run in the loop task, which awaits them.        *)
CallHook ==
  /\ Dispatches("event") \/ Dispatches("other")
  /\ Proceed("hook")

(* on_event has an acknowledgement to be sent.                             *)
HookReturns ==
  /\ pc = "hook"
  /\ Proceed(IF Kind[recvEnv] = "event" THEN "answer" ELSE "hookReply")
  /\ UNCHANGED dispatched

(* The hook raises: no acknowledgement, and no drain.                      *)
HookRaises ==
  /\ pc = "hook"
  /\ RecvUsed("wait")
  /\ UNCHANGED <<replyVars, outVars, histVars>>

(* The pong or the EventAck is written, or the connection is gone.         *)
Answer ==
  /\ pc = "answer"
  /\ \/ confirmed' = confirmed \cup {recvEnv}
     \/ closed /\ UNCHANGED confirmed
  /\ IF Kind[recvEnv] = "ping"
       THEN RecvUsed("drain")
       ELSE pc' = "hookReply" /\ UNCHANGED <<kernelVars, inbound, recvVars,
                                             taken, queue>>
  /\ UNCHANGED <<replyVars, outVars, dispatched>>

(* What the hook returned is written, or it returned nothing.              *)
HookReply ==
  /\ pc = "hookReply"
  /\ RecvUsed("drain")
  /\ UNCHANGED <<replyVars, outVars, histVars>>

SkipEmpty ==
  /\ Dispatches("empty")
  /\ RecvUsed("wait")
  /\ UNCHANGED <<replyVars, outVars, confirmed>>

-----------------------------------------------------------------------------
(* The loop task: emptying the queue after a dispatch, or before it ends.  *)

TakeQueued == pc \in {"drain", "flush"} /\ TakeHead

QueueEmpty ==
  /\ taken = None /\ queue = <<>>
  /\ \/ pc = "drain" /\ Goto({"wait"})
     \/ pc = "flush" /\ Goto({"shutdown"})

-----------------------------------------------------------------------------
(* The steps that end a client.send: writer.drain() and ws.send() have no  *)
(* deadline and return when the kernel reads, or the connection is gone.   *)
SendStep == SendReply \/ Answer \/ HookReply

(* Those that wait for nothing but the event loop and the hooks.           *)
LocalStep ==
  \/ OnInit \/ WakeOnRecv \/ WakeOnReply \/ CancelRecv
  \/ OnFailure \/ OnPluginShutdown \/ OnPing
  \/ AcceptAction \/ RejectAction \/ AcceptEscapes
  \/ CallHook \/ HookReturns \/ HookRaises \/ SkipEmpty
  \/ TakeQueued \/ QueueEmpty \/ OnShutdown

LoopStep == LocalStep \/ SendStep

Ended == pc \in {"ended", "rejected", "crashed", "escaped"}

Next ==
  \/ Register
  \/ LoopStep
  \/ RecvStep
  \/ GetReply
  \/ \E r \in Requests : HandlerReturn(r) \/ HandlerPut(r)
  \/ \E e \in Envelopes : KernelPost(e)
  \/ KernelClose
  \/ Ended /\ UNCHANGED vars

Spec == Init /\ [][Next]_vars

(* The event loop runs every ready task, and the hooks are assumed to      *)
(* return; a frame in progress ends within FRAME_READ_TIMEOUT.  Nothing is *)
(* assumed of the kernel, of the registration, or of how long an on_action *)
(* takes.                                                                  *)
FairSpec ==
  /\ Spec
  /\ WF_vars(LocalStep) /\ WF_vars(RecvStep) /\ WF_vars(GetReply)
  /\ \A r \in Requests : WF_vars(HandlerPut(r))

(* What the liveness properties assume of the kernel: it reads what the    *)
(* plugin writes, or its connection ends, so that no send blocks for ever. *)
KernelReads == WF_vars(SendStep)

-----------------------------------------------------------------------------
Queued == {queue[i] : i \in 1..Len(queue)}

(* A reply is in exactly one place from the moment it is put: in the queue,*)
(* in the hands of the loop, on the wire or discarded (_run and the four   *)
(* sends of run_concurrent_loop).  In particular none is sent twice, and   *)
(* none is sent that no handler put.                                       *)
ReplyAccounting ==
  /\ \A i, j \in 1..Len(queue) : queue[i] = queue[j] => i = j
  /\ \A r \in Requests, k \in 1..MaxReplies :
       LET x == <<r, k>>
       IN  sent[x] + (IF x \in dropped THEN 1 ELSE 0)
             + (IF x = taken THEN 1 ELSE 0) + (IF x \in Queued THEN 1 ELSE 0)
           = IF k <= put[r] THEN 1 ELSE 0

Phase(r) == CASE handler[r] = "none"    -> "new"
             [] handler[r] = "running" -> "open"
             [] OTHER                  -> "closed"

Service == INSTANCE ReplyService
             WITH phase <- [r \in Requests |-> Phase(r)], count <- made,
                  delivered <- sent, lost <- dropped

(* The loop implements ReplyService: a request is dispatched and answered  *)
(* once, no reply is delivered twice or after it was given up, and the     *)
(* envelopes of one on_action reach the kernel in the order it returned    *)
(* them, although handlers block in queue.put and the loop takes replies   *)
(* out of the queue in three places.                                       *)
ImplementsReplyService == Service!Spec

(* While the loop goes on, every frame the kernel wrote is still in the    *)
(* transport, in the loop's hands, acted upon, or one that a cancelled     *)
(* reader was in the middle of: no other frame is lost, unless together    *)
(* with the loop, by a read that has failed.  A legacy wait_for loses more:*)
(* see CancelRecv.                                                         *)
NoSilentFrameLoss ==
  /\ link # "legacyStream" /\ ~(recvSt = "done" /\ recvEnv = Failure)
  /\ pc \in {"wait", "reply", "hook", "answer", "hookReply", "drain"}
  => posted \subseteq {inbound[i] : i \in 1..Len(inbound)}
                        \cup dispatched \cup {recvEnv} \cup cut

(* The docstring of on_shutdown (lines 160-161): it is called when the loop*)
(* ends on a disconnect; no failed read leaves run_concurrent_loop and     *)
(* skips it.                                                               *)
OnShutdownRuns == pc # "crashed"

(* The docstring of on_action (lines 137-139): "no reply is ever dropped on*)
(* the floor", as long as there is a connection that takes it.             *)
NoReplyDropped == ~closed => dropped \subseteq Oversized

(* The docstring of run_concurrent_loop (lines 206-210): a handler that    *)
(* finishes while the loop is parked in client.recv() does nothing to the  *)
(* client's state; its stream stays at a frame boundary, or inside the     *)
(* frame that is being read.                                               *)
RecvUndisturbed == aligned

(* A reply that a handler has returned does not stay behind: it leaves the *)
(* queue, or the loop ends, as long as the kernel reads.  No handler waits *)
(* in queue.put for ever.                                                  *)
RepliesLeave ==
  KernelReads =>
    \A x \in Replies :
      x[2] <= made[x[1]] ~> sent[x] = 1 \/ x \in dropped \/ Ended

(* A posted ping is answered, as long as the kernel reads, unless the loop *)
(* ends or cancels its reader in the middle of that very frame.            *)
PingAnswered ==
  KernelReads =>
    \A e \in Envelopes :
      Kind[e] = "ping" /\ e \in posted ~> e \in confirmed \cup cut \/ Ended

(* A posted plugin_shutdown ends the loop, as long as the kernel reads: by *)
(* way of on_shutdown, unless accept escapes.  The loop may miss it only by*)
(* cancelling its reader in the middle of that very frame.                 *)
ShutdownEnds ==
  KernelReads =>
    \A e \in Envelopes :
      Kind[e] = "plugin_shutdown" /\ e \in posted
        ~> e \in cut \/ pc \in {"ended", "escaped"}
=============================================================================
