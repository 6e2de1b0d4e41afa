# Verification of the Vynkor Python SDK

TLA+ models of `src/vynkor`, their TLC configurations, and theorems about them
checked by TLAPS. The SDK connects a plugin to the Vynkor kernel over a Unix
domain socket or a WebSocket: it frames protobuf envelopes, answers pings,
dispatches events and action requests to the plugin's hooks, and offers the
plugin requests to the kernel. Everything runs in one asyncio event loop, so the
interesting behaviour is in what happens *between* two awaits, in what a
cancellation leaves behind, and in who reads which envelope.

Paths below are relative to `src/`.

## 1. Inventory

| Component | Source | State | Operations |
|---|---|---|---|
| Frame codec | `vynkor/framing.py` | none (a frame in progress while it is read) | `pack_frame`, `read_frame`, `read_frame_from_bytes`, `async_read_frame` (first byte without, rest with a 10 s deadline), HKDF, MAC, fragment header |
| Connection, registration, session key | `vynkor/client.py:110-321`, `vynkor/plugin.py:102-145, 217-256` | transport, reader/writer or WebSocket, secret, `session_key`, `device_id` | `run_with`, `run_ws`, `resolve_ws_credentials`, `connect*`, `register*`, `close` |
| Fragmentation and reassembly | `vynkor/client.py:325-487` | `_next_stream_id`, `_reassembly` | `send_fragmented`, `recv_frame`, `_prune_reassembly`, `_absorb_fragment` |
| Kernel requests | `vynkor/client.py:491-668` | the call in progress; module-level `_action_seq` | `publish_event`, `send_action`, `send_command`, `ping` (wait for an answer); subscribe, chunks, sessions, audio (send only) |
| Sequential plugin | `vynkor/plugin.py` | where `serve` is, the pending handler error | `run`, `run_with`, `run_ws`, `serve`, hooks |
| Concurrent serve loop | `vynkor/concurrent.py` | reply queue (256), handler tasks, the two racing tasks | `serve_concurrent`, `run_concurrent_loop`, hooks |
| Confirmation gate | `vynkor/confirmation_gate.py` | pending map under a lock, `_seq` | `route` (`request_<op>`, `confirm_<op>`), `may_confirm`, caller helpers |
| Errors, exports, protobuf, example, fuzzing, scripts, tests | `vynkor/errors.py`, `vynkor/__init__.py`, `vynkor/vynkor_protocol_pb2.py`, `proto/`, `examples/`, `fuzz/`, `scripts/`, `tests/` | none | none |

Interactions. A plugin is *either* sequential (`Plugin.serve`) or concurrent
(`run_concurrent_loop`); both call `client.recv()`, which calls `recv_frame`
(reassembly), which calls the codec. A sequential hook may call a kernel request
on the same client: for its duration the request, not `serve`, reads the
connection. A concurrent handler never touches the client; it talks to the loop
through the queue, and the loop cancels its own `client.recv()` to send what the
queue holds. A gate is called from handler tasks (or from `on_message`) and
calls back the plugin's executor.

What is hard here, and what makes each component correct:

- *Concurrent loop*: two tasks race in every iteration and the loser is
  cancelled; handlers block on a full queue; replies leave by the race, by the
  drain after a dispatch and by the flush at the end; failures are swallowed.
  Correct means: no reply is lost, duplicated or reordered; no frame is lost; the
  stream stays readable; pings and `plugin_shutdown` are obeyed; `on_shutdown`
  runs at the end.
- *Sequential plugin with kernel requests*: nested reading, late answers,
  deadlines, failures on every path. Correct means: `on_shutdown` once,
  acknowledgements exactly for handled events, the right answer to a request.
- *Reassembly*: interleaved, cancelled, duplicated and contradictory fragments,
  expiry, id wrap-around. Correct means: whole and unmixed payloads, once,
  within bounds.
- *Gate*: concurrent confirmations, expiry, restart. Correct means: executed at
  most once, as requested, by someone approved, in time.
- *Codec*: the tag covers the header and payload before compression, the frame
  those after it. Correct means: what is read is what was packed, for every combination
  of flags, sizes and keys.
- *Connection and registration*: keys change between the registration and its
  acknowledgement, and again with every connection; an instance may connect again.
  Correct means: both ends switch keys at the same frame, nothing untagged passes a
  reader with a key, and half a device pair never falls back to the master secret.

`PROJECT.json` lists every component with its status, and every hazard at the
line where it bites, with the properties that cover it.

## 2. Modules

| Module | Models | Extended by |
|---|---|---|
| `ConcurrentLoop` | `serve_concurrent`, `run_concurrent_loop`, the reading task below it | `MCConcurrentLoop`, `ConcurrentLoopProofs` |
| `ReplyService` | abstract specification: what the loop promises about replies | instantiated by `ConcurrentLoop`; `ReplyServiceProofs` proves the refinement |
| `PluginServe` | `run_with`, `serve`, the requests of hooks | `MCPluginServe`, `PluginServeProofs` |
| `Fragments` | `send_fragmented`, `recv_frame` and reassembly | `MCFragments`, `FragmentsProofs` |
| `ConfirmationGate` | `route` and the pending map | `GateCallers`, `ConfirmationGateProofs` |
| `GateCallers` | the gate with its callers: `send_confirmation_request`, `send_confirmation` over `send_action` | `MCGateCallers`, `GateCallersProofs` |
| `FrameCodec` | `pack_frame`, `_normalize`, the readers, as operators without state | `Session`, `FrameCodecProofs` |
| `Session` | credentials, connecting, registration, traffic under the session key, reconnecting | `MCSession`, `SessionProofs` |

An `MC` module gives the constants small values. Operators under a comment that
starts with "Mutation:" are plausible bugs; the definition that follows each is
the faithful one, nothing in a specification uses the mutated form, and each property
is checked to fail when its mutation takes that place (`mutants` in
`PROJECT.json`).

### ConcurrentLoop

One step of the model is the code between two awaits at which another task can
run and make a difference. `pc` is the position of the loop task:

| `pc` | Code |
|---|---|
| `register`, `init` | `concurrent.py:175-187` |
| `wait` | `asyncio.wait` (238-240), both tasks pending or not yet noticed |
| `cancelRecv` | cancelling and awaiting the losing reader (241-247) |
| `reply` | sending one reply: the branch of the queue (341-351), the answer to a refused request (297-300) |
| `dispatch`, `hook` | the branch of the reader (249-328) |
| `answer`, `hookReply` | sending the pong or the `EventAck`, and what a hook returned |
| `drain`, `flush` | emptying the queue after a dispatch (330-340), before leaving (255-263, 280-288) |
| `shutdown`, `ended` | `on_shutdown` and after (188-193) |
| `rejected` | the registration failed or was rejected |
| `crashed` | the exception of a cancelled reader left the loop past `on_shutdown` |
| `escaped` | `accept` raised what is no `Exception`, which left the loop past `on_shutdown` |

`recvSt`/`recvEnv` are the reader task of this iteration: nothing read, inside a frame
(`partial`), a finished body not yet fetched (`ready`), done. `taken` is the reply in
the loop's hands: the result of this iteration's `queue.get()`, what the drain or the
flush has taken out of the queue, or the answer to a refused request. `aligned` says
whether the next unread byte begins a frame; `cut` remembers the frames in the middle of
which the loop cancelled its reader. Such a cancellation leaves at least one byte of the
frame; a read out of step that is cancelled has taken exactly one more, and the stream
is back in step when that was the last (`CancelRecv`). `handler`, `made` and `put`
follow the handler task of each request; a batch of `put_nowait` without an await is one
step. `sent`, `dropped`, `dispatched` and `confirmed` record what became of replies and
frames.

`link` is the kind of connection, because cancelling a reader differs. A
WebSocket delivers whole messages. On a stream the body of a frame is read under
`asyncio.wait_for`. Up to Python 3.11 that runs the body in its own task, and when
it is cancelled after this task has finished it returns the task's result instead
of raising (`legacyStream`); from 3.12 on it does not (`stream`). The package
supports 3.9 and later, so both are real.

The kernel posts each frame at most once, in any order, and may close the
connection at any time. An "undecodable" frame stands for everything that makes
`recv` raise: bad magic, checksum, MAC or size, a raw-binary frame, a payload that
does not parse. Frames are not cut into bytes: a frame is untouched, in progress,
or read. Reassembly is left to `Fragments`. The loop task itself is not cancelled
from outside.

Every send is a step of its own, after the step that decides on it, because
`client.send` waits in `writer.drain()` or `ws.send` for the kernel to read, without a
deadline (`client.py:355`). The loop task stays at `reply`, `answer`, `hookReply`,
`drain` or `flush` until it returns, and everything else goes on meanwhile: frames
arrive, handlers block, the connection closes. Nothing forces the return (section 4). A
send that fails needs a closed connection or an oversized reply. `accept` is guarded by
`except Exception` only (`concurrent.py:294`): it accepts (`AcceptAction`), refuses
(`RejectAction`), or raises a `SystemExit` or `KeyboardInterrupt`, which ends
`run_concurrent_loop` without an answer, without the flush and without `on_shutdown`
(`AcceptEscapes`).

### ReplyService

Per request: refused, which closes it with one reply to come, or opened and later closed
with a number of replies, which then settle in order, each delivered once or lost for
good. `ImplementsReplyService` maps the loop's handlers, `made`, `sent` and `dropped` to
it. It allows losses because the code has them; `NoReplyDropped` is about those.

### PluginServe

One task. `pc` is where `run_with`/`serve` is, `hook` the hook that runs,
`waiting` that the hook is inside a request. `Await` reads the next envelope and
either ends the request or discards the envelope (`_await_matching`);
`send_command` and `ping` accept whatever comes. `Matches` keeps what the predicates
do not tell apart: `publish_event` takes any `EventPublishAck`, a late one of an
earlier call included, and both it and `send_action` take any `error`; only the
responses to actions are correlated. What a caller may conclude from an answer is the
subject of `GateCallers` (`ReturnsOwnRequest`).

`publish_event` and `send_action` have a deadline, which `Ask` sets once the request is
sent. `remaining` is the time left until it, `waited` the time that has passed since;
`Tick` counts both, at any moment at which the request waits, and a discarded envelope
changes neither. At zero only `AwaitTimesOut` and a failing read are left: no more
envelopes are read and no more time passes. A timeout comes between two frames or inside
one, which leaves the stream misaligned; a second one out of step has taken one byte of
what is left of that frame. The kernel answers each request at most once, with an answer
or an error, at any time after it was made, also after the request was given up. Hooks
may catch what a request raises, so any end of a request lets the hook go on. Frames
arrive whole and parse. Requests are made in hooks other than `on_shutdown`. The send of
a request is part of `Ask`: while it blocks, no deadline runs yet (`client.py:522,
553`), and `DeadlineKept` and `DeadlineEnds` speak of the wait that follows it.

### Fragments

`job` holds stream id, chunk size and position of each call of `send_fragmented`; calls
interleave at the drain after a fragment and may be cancelled there. The receiver is in
`recv_frame` (`reading`) or nobody is in it. Pruning is a part of the step that starts
the wait, as in the code. Payload bytes are pairs of message and position, so a mixed-up
payload is told from an intact one. `strays` are fragments of other origin: two of a
stream of their own that are too large together, a sequence number out of range, and one
on a stream of the sender of another total. `HarmlessStrays` says what they may be on
the sender's streams: out of range, or a later fragment of a set of another number of
fragments than the sender makes. Such a fragment spoils the buffer it meets and
completes none. `Intact` and `NoSilentLoss` rest on that: a complete set of other origin
on a stream is returned, whoever wrote it. The other properties do not rest on it. The
initial stream id is arbitrary. `conn` in `job` is a history field: the connection on
which the message is sent. The wire loses, duplicates and reorders nothing while a
connection lasts, as both transports guarantee.

`Reconnect` is `connect()` on an instance that was connected before: the frames on the
wire are gone, the calls that were sending are `lost`, but `_reassembly` stays
(`client.py:139` replaces the streams only). The sender may be a new client, which
counts its streams from 1, or the same one. `leftover` remembers the streams that had
a buffer at that moment: `Intact` is claimed for all others, and the run `mixed_frame`
shows what happens on those. `Intact` also says that nothing is returned twice; it says
so of messages that are not empty, since two empty messages that get the same id one
wrap-around apart cannot be told apart by what is returned.

### ConfirmationGate

The map changes only under the lock, so `route` up to the await of the executor is one
step, and executors end in steps of their own. `Restart` empties the memory and starts
the sequence numbers again. Callers are sequences of the dot-separated parts of their
names, which is all `may_confirm` looks at. One clock stands for `time.monotonic` and
`time.time`; it is assumed not to go back, and a restart to take at least one unit (a
millisecond). With a wall clock that is set back across a restart an id could be given
out again; the model excludes that.

### GateCallers

Adds the other side of the gate. `calls` is the sequence of actions ever sent; its
index is the action id. `at` is where the action is (at the kernel, executing,
answered, read, lost in a restart), `status` what its caller knows. A caller has one
call under way, because a client has one reader; after a timeout it may send another,
and then reads the late reply of the earlier one first (`ReadAnswer`). `Matches` is the
predicate of `send_action`: an `ActionResponse` matches by its id, an `Error` envelope
always. Every step of the gate is one of `ConfirmationGate`
(`CallersImplementGate` proves it), so this is the composition of the two ends.
A reply says what it is about, whether it is a success, and the id it carries; texts
are left out.

### FrameCodec

A payload is a datum and whether it is compressed; `Size` and `ZipSize` give the bytes
of each form, so that data that shrinks, data that grows and data too large to
decompress are all there. A tag is the key and the header and payload it was computed
over: HMAC and key derivation are taken as injective. A header is determined by its
flags and payload. Left out: magic, length and checksum, which always fit because
the transports deliver bytes unchanged, and the target, which is cut to 32 bytes.
`Readable` is whether a reader returns the frame or raises.

### Session

`pc` is where the client is; `refused` means that the answer to its registration could
not be read, `misconfigured` that `resolve_ws_credentials` raised. The kernel is the
environment: it holds the master secret and the secret of the paired device, is secured
or not on each connection, draws a nonce (the number of the connection), and writes
and reads frames as the SDK does; its WebSocket gateway takes no compressed frames. A
connection breaks at any time, with what is in transit. `Connect` makes a new client,
as `run_with` and `run_ws` do; `ConnectAgain` is `connect()` on the old instance, which
keeps its `session_key`. Messages include raw binary and a payload whose caller set
`FLAG_COMPRESSED` itself; the readers decompress it, and on a secured connection its tag
does not fit. `NoFrameRefused` names that one exception. No caller sets
`FLAG_MAC_PRESENT` (an assumption of the module).

## 3. Runs

Passing runs (all exhaustive):

| Run | Checks | Bounds |
|---|---|---|
| `replies` | `TypeOK`, `ReplyAccounting`, `NoSilentFrameLoss`, `ImplementsReplyService` | three frames out of: two requests of up to three replies, a ping, a shutdown, an event, another, an empty and an undecodable frame; a queue of two, one oversized reply, all three kinds of connection |
| `progress` | `RepliesLeave`, `PingAnswered`, `ShutdownEnds` | two requests of up to two replies, a ping, a shutdown, a queue of one; `stream` and `message` |
| `gate` | `TypeOK`, `CallersTypeOK`, `ReturnsOwnRequest`, `ConfirmedMeansExecuted`, `ExecutedAtMostOnce`, `ExecutedAsRequested`, `PendingIsRecent`, `IdsNeverReused` | two requests, three callers with three calls, two parameters, time to live 2, clock to 2 |
| `fragments` | `TypeOK`, `Intact`, `NoSilentLoss`, `BuffersBounded`, `NeverBroken` | messages of 4 and 2 bytes, chunk sizes 0, 1, 2 and 4, four strays, frames of 4 bytes, sets of 3 fragments, 2 streams, 4 ids, one reconnection, one frame on the wire, clock to 1 |
| `session` | `TypeOK`, `ArrivesAsSent`, `NoFrameRefused`, `OnlyUnderOneKey`, `DeviceStaysDevice` | every environment of credentials, both entry points, nine messages of four sizes, two of them each way, three connections |
| `serve` | `TypeOK`, `ShutdownOnce`, `AckedIffHandled`, `DeadlineKept`, `DisconnectEnds`, `DeadlineEnds` | a ping, a shutdown, an event, two requests of any kind, a timeout of 2 ticks |

Why these bounds show the cases that matter: three replies do not fit a queue of two, so
a handler blocks while a second one competes for the room it waits for; with two
requests, replies of one can overtake those of the other in the queue. Two gate requests
and a clock that reaches the time to live give expired, taken, unknown and double
confirmations, before and after a restart; three calls are a request and a confirmation
that is tried again, or two confirmations at once. Four ids make the stream id wrap
around between two messages; two buffers and a stray stream fill the receiver. Three
connections allow a new client, the same instance again, and a new one after a refusal;
the sizes lie on both sides of the compression threshold and of the frame limit. Two
requests in a sequential plugin are what a late answer needs, and a timeout of two ticks
what it takes to read an envelope in the middle of a wait: with one that restarted its
deadline there (`AwaitRestarts`) the request waits three.

Deadlock checking is off where the model really stops: in `fragments` and
`mixed_frame` the receiver ends up waiting for a frame that never comes, in `session`,
`reconnect` and `gate` the bounds on connections, calls and the clock are used up or
(`Misconfigured`) the program has ended. The other models stutter once the program
has ended, so a stop anywhere else would be reported.

On `legacyStream` a frame that was read can be lost without a trace while the loop goes
on, and `on_shutdown` can be skipped; `NoSilentFrameLoss` therefore speaks of the other
two links, and `progress` runs on those. The difference between `stream` and
`legacyStream` is a difference between Python versions, kept in `BodyDone` (and in
`BodyMayRun`).

Violation runs. Each refutes one sentence of the repository, quoted in
`PROJECT.json`:

| Run | What happens |
|---|---|
| `dropped_reply` | a frame arrives in the same iteration in which `queue.get()` completes; only the reader's branch runs (`concurrent.py:249`), and the reply is never sent |
| `cut_frame` | a reply becomes ready while a frame is half read; the reader is cancelled there (`:242`), and the next read begins inside the frame |
| `legacy_shutdown` | Python 3.9 to 3.11: the cancelled reader raises the error of a frame that has just failed (`:246`); it leaves the loop past `on_shutdown` |
| `lost_shutdown` | a request inside a hook discards a `plugin_shutdown` (`client.py:665`) |
| `mixed_frame` | `connect()` keeps `_reassembly` (`client.py:139`); a buffer of the old connection is completed by fragments of the new one, and a mixed payload is returned |
| `reconnect` | `connect()` keeps `session_key` (`client.py:279`); the acknowledgement of the next registration, which carries no tag yet, is refused |

Two further observations have no run. An executor's error string ends in
`bytes(result)`, which raises a `TypeError`, so its text never reaches the caller
(`confirmation_gate.py:357`; the reply is an error either way, and the model has no
texts). Expired fragment sets are pruned only before a read (`client.py:393`), so a
receiver that waits on an idle connection keeps them; `BuffersBounded` bounds what
that can cost.

## 4. Fairness

`ConcurrentLoop!FairSpec` assumes weak fairness of the loop task between its sends
(`LocalStep`), of the reader, of `queue.get()` and of each handler that waits for room.
The event loop runs every ready callback, so a step that stays enabled is taken; a frame
in progress ends within `FRAME_READ_TIMEOUT`; hooks are assumed to return, since they
are the application's code. Nothing is assumed of `on_action`: a handler may run for
ever. The steps in `LocalStep` are steps of one task, of which at most one kind is
enabled at each `pc`, hence one fairness condition for them together.

The sends (`SendStep`) are *not* fair in `FairSpec`: `client.send` has no deadline
(`client.py:355`), so a kernel that stops reading keeps the loop task in one, and then
no reply leaves, no ping is answered and `plugin_shutdown` is not obeyed.
`RepliesLeave`, `PingAnswered` and `ShutdownEnds` therefore each have the premise
`KernelReads`, weak fairness of `SendStep`: the kernel reads what the plugin writes, or
its connection ends. It is the one thing they assume of the kernel, and without it all
three are false of the code. `ShutdownEnds` names the two ways past `on_shutdown` and
past `plugin_shutdown` that the code has on these links: `accept` escapes, or the reader
was cancelled in the middle of that very frame.

`ReadFirst` reads out of step without asking whether a byte has arrived. One has, or
will, as the rest of the cut frame was posted with it; where the kernel has stopped in
the middle of a frame, it has written nothing behind it. The model then lets the reader
fail where the code waits in `readexactly(1)`, but `cut` holds the frame that a property
could ask for, and replies go on leaving by the queue's branch.

`PluginServe!FairSpec` assumes that the task runs, that requests read what has come or
fail as their connection does, and that time passes (`Tick`). The hooks between their
requests are assumed to make finitely many and to return. `serve`'s own sends are among
its fair steps; only `DisconnectEnds` needs them, and there the connection is gone and
they return. `DisconnectEnds` and `DeadlineEnds` hold under it: whoever waits for the
kernel is let go by the end of the connection, and who waits for an answer with a
deadline by that. `DeadlineEnds` says only that; that the end is not late is the
invariant `DeadlineKept`, which a deadline set anew for every discarded envelope breaks.

Nothing else is claimed to happen eventually. `register_full`, `ping` and
`send_command` wait without a deadline, `recv_frame` waits for a frame that may never
come, and the callers of the gate time out by themselves.

## 5. Theorems

All proofs hold for every value of the constants that satisfies the named
assumptions in the modules (the kinds of envelopes, a positive queue capacity,
distinct tokens). TLC evaluates these assumptions in every run.

`ConcurrentLoopProofs`: `TypeCorrect` and `RepliesAccounted`. `ReplyAccounting` counts
the places of a reply and is not inductive by itself. The inductive invariant `IInv`
adds: what is in the queue or in `taken` was put, is not sent and not dropped, and the
two do not overlap (`QueueInv`, `TakenInv`); a reply not yet put is nowhere (`OutInv`);
`taken` is held only where the loop waits or sends, and always where it has won the race
or answers a refused request (`cancelRecv`, `reply`); `put` never passes `made`, and
only a handler that returned or was refused has made anything (`HandlerInv`); the reader
has a frame where the loop expects one (`FrameInv`). The two hard steps are the batch
put (`PutReplies`: the appended block is new, in order and without repetition) and the
dequeues (`TailFacts`, `TakeHeadStep`, `LetGo`). The answer to a refused request goes
into `taken` without having been in the queue (`RejectStep`).

The frames have an invariant of their own, `ReadingInv`, proved on top of `IInv`.
`NoSilentFrameLoss` speaks of the positions at which the loop goes on and is not
inductive. `PlaceInv` says the same of every position before the flush, including those
in the middle of a cancellation, and `ReadInv` what the reader may hold at each: nothing
when it is idle, a whole envelope where one is dispatched, no finished one where the
loop is about to cancel it; a body that finished on its own (`ready`) needs a legacy
`wait_for`. From these follows `NoFrameLost`.

`ReplyServiceProofs`: `LoopImplementsReplyService`, the refinement behind
`ImplementsReplyService`. `OrderInv` adds to `IInv` that the replies of one request are
in the queue in ascending order, behind the one in `taken`. With it the reply that is
sent or dropped is the first unsettled one of its request, and each step of
the loop is a step of `ReplyService` on one request, or leaves its state as it is.

`ConfirmationGateProofs`: `TypeCorrect`, `AtMostOnce`, `AsRequested`, `NeverReused`,
`RecentOnly`. The key is `IdInv`: ids of earlier processes carry times before the start
of this one, ids of this process carry numbers below the next, so a new id is in
neither. With it a store never overwrites an entry, so what is pending is what was
requested and was not executed (`PendingInv`). `NeverReused` is an action property,
proved from the same invariant. `RecentOnly` needs only the type.

`PluginServeProofs`: `TypeCorrect`, `ShutdownRunsOnce`, `AcksAreRight`, `DeadlinesKept`.
`AckInv` says that the event in `ack` is the only one handled and not acknowledged;
`HookInv` ties the hook to the envelope it runs on; `StopsInv` ties `stops` to `pc`.
`WaitInv` says that what was waited and what is left of the time add up to the timeout,
whatever is read and discarded in between; `DeadlineKept` follows, for every timeout.

`FrameCodecProofs`: `RoundTrip`. A frame packed with a key is readable with that key,
and gives back the message, for all payloads, sizes, limits and keys. The argument is
that the tag is computed over the uncompressed message and checked against the
decompressed one, and that only what shrinks is compressed, so it fits
(`CompressedFits`).

`SessionProofs`: `TypeCorrect`, `SentIsRead`, `NothingRefused`, `NothingUntaggedRead`,
`PairedStaysPaired`, for any number of connections and messages. The inductive invariant
says what is in transit: the i-th unread frame is the packed form of the i-th unread
message under the writer's key (`ToKernelInv`, `ToClientInv`), what was read is the
beginning of what was written (`ReadInv`), the answer to the registration is the first
frame and carries no tag (`AnswerInv`), and only the registration is in transit
before it (`PhaseInv`). `KeyInv` (same secret, same key) is the crux: the client derives
its key when it reads the acknowledgement, the kernel when it writes it, and an
acknowledgement without a nonce is only read by a client without a key. With it
`NothingRefused` is `RoundTrip` for each frame in transit.

`GateCallersProofs`: `CallersTypeCorrect`, `CallersImplementGate`, `RetriesExecuteOnce`,
`OwnRequestReturned`, `SuccessMeansExecuted`. The composition implements
`ConfirmationGate`, so the theorems about the gate carry over. The second invariant
(`ToldInv`) follows an id from the gate to its caller: each id is in the answer or
result of at most one call, that call asked for what is logged under the id, and a
success is held by one call of a request that was started. `CallersKeepPromises` states
the rest of the gate's properties for the composition, which is what the run `gate`
checks.

`FragmentsProofs`: `TypesOK`, `SendsUnbroken`, `BuffersWithinBounds`, `MessagesIntact`,
`NothingLostInSilence`, for messages and chunks of every size, any number of
messages smaller than that of the stream ids, and any number of buffers, strays and
reconnections. Three invariants, each resting on the one before:

- `BoundInv`: what was accepted stays `Acceptable`, positions stay within the total, and
  each buffer counts the bytes it holds (`GoodBuffer`). `NeverBroken` is the arithmetic
  of the chunk bound. `BuffersBounded` needs that replacing one fragment changes the
  sum by the difference (`SumReplace`).
- `WholeInv`: messages accepted on the current connection have different stream ids, none
  given out longer ago than there are such messages (`IdInv`, by the
  distance `Behind` the counter, which is why `IdSpace` must exceed their number);
  what is in transit for a stream is a chunk of the message of that stream,
  each sequence number once and in order (`WireInv`); a buffer of a stream that is not
  left over holds chunks of one message (`HeldInv`), none of them still in transit; a
  message that was returned has nothing left to return (`ReturnedInv`). A complete
  buffer then joins to the payload (`JoinedWhole`). `MessagesIntact` follows.
- `LossInv`: of a message that was not returned, on a stream of which nothing was
  dropped, the first fragments are in the buffer and the rest in transit or unwritten, or
  the connection is gone (`ArrivedInv`); buffered sets are proper prefixes
  (`PrefixInv`), so no set is complete and still there. When nothing is in transit or
  unwritten any more, the message was returned: `NothingLostInSilence`.

`MessagesIntact` and `NothingLostInSilence` assume `HarmlessStrays`; the `ASSUME` of
`MCFragments` has TLC evaluate it on the strays of the runs. The three invariants hold
on the whole state space of the `fragments` configuration too.

The model joins and counts with `FlattenSeq` and `SumFunction`, which the community
modules define by recursion. Their values are obtained without an induction rule:
a table of the intermediate results (`FlattenTable`, `SumTable`) exists up to every
number, or else there is a least one up to which it does not (`NatMin`, from the
well-foundedness of `<` on the naturals; `UpTo` is the rule for sets).

Only model-checked: the liveness properties `RepliesLeave`, `PingAnswered`,
`ShutdownEnds`, `DisconnectEnds` and `DeadlineEnds` (fairness and `ENABLED` are out of
this prover's reach). Every invariant and every action property of a passing run, and
the refinement of `ReplyService`, is a theorem. The properties of the violation runs are
false and have none.
No module uses a `RECURSIVE` operator.

## 6. Not modelled

- The layout of headers: magic, length, checksum, target; HKDF, HMAC and zstd themselves.
- The transports below `recv_frame` and `send`: asyncio streams and `websockets`,
  with its handshake, are assumed to deliver in order and once.
- Messages that are only sent: subscribe, streaming actions and chunks, session close,
  audio. Each is one `send` without state in the SDK; what a send does is in
  `Session`, and what a failing one does in `PluginServe` and `ConcurrentLoop`.
- The reply envelope of an event or message hook: it is written and forgotten. Its send is a
  step (`HookReply`), also of a hook that returned nothing.
- A request whose own send blocks (`PluginServe!Ask` is one step), and a
  `serve` that blocks in a send on a connection that stays open.
- A statement about the decompression limit: `FrameCodec` has it (`Decompressible`), but a
  reader without it would still hand out what was sent, so no property would notice.
- `manifest_entries`, the checks of the gate's constructor, JSON parsing; `plugin_id`
  and the claims of the token, which are passed through.
- Handler tasks after the loop has ended: whether they are finished or collected is
  up to the application; in the model they may go on and nobody reads the queue.
- The example plugin: an application of the SDK; publishing an event inside a hook,
  which is what it does, is covered by `PluginServe`.
- Errors, exports, generated protobuf code, fuzzing, scripts, tests.

## 7. Plan

Done: concurrent loop and its abstract service, sequential plugin with its requests,
reassembly over reconnections, gate and its composition with callers, codec, session and
credentials; type correctness and all safety properties proved, and the refinement of
`ReplyService`.

Next, proofs:

1. What remains of the refuted sentences, as theorems: a reply is dropped only when the
   reader's branch wins the race (`NoReplyDropped`), a mixed frame only on a stream left
   over from an earlier connection (that part is `MessagesIntact`).
2. The safety half of the liveness properties: after `plugin_shutdown` the loop only
   moves towards `ended`.
3. The codec: what a reader accepts under a key was packed under that key, as a theorem
   about every frame and not only those in transit in `Session`.

Left to model, where a need arises: the sequence of a streaming action (start, chunks,
close) as seen by the kernel; the SDK keeps no state for it.
