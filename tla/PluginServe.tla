----------------------------- MODULE PluginServe -----------------------------
(***************************************************************************)
(* The sequential plugin (src/vynkor/plugin.py: run_with and serve) and the*)
(* kernel requests its hooks make on the same client while serve waits for *)
(* them (src/vynkor/client.py: publish_event, send_action, send_command,   *)
(* ping).                                                                  *)
(*                                                                         *)
(* There is one task and one reader, so a request made inside a hook reads *)
(* what serve would have read: until its answer comes, or its deadline, it *)
(* takes every envelope off the connection and discards what does not      *)
(* match.  The kernel posts its own traffic at any time and answers each   *)
(* request at most once, late, out of order, or never; it may close the    *)
(* connection.  Whatever the task waits for, it may be cancelled there.    *)
(* Time is counted while a request with a deadline waits for its answer.   *)
(* The kernel's frames arrive whole and parse (ConcurrentLoop treats those *)
(* that do not).                                                           *)
(***************************************************************************)
EXTENDS Integers, Sequences

CONSTANTS
  Traffic,      \* what the kernel posts on its own, each at most once
  Kind,         \* its kinds
  MaxRequests,  \* bound on the requests the hooks make
  Timeout,      \* how long publish_event and send_action wait, in ticks
  None

TrafficKinds == {"ping", "plugin_shutdown", "event", "other"}
RequestKinds == {"publish", "action", "command", "ping"}
AnswerKinds  == {"event_publish_ack", "action_response", "action_stream_abort",
                 "kernel_command_ack", "pong", "error"}

Ids      == 1..MaxRequests
Answers  == [kind : AnswerKinds, id : Ids]
Messages == Traffic \cup Answers
Hooks    == {"on_init", "on_event", "on_message"}

ASSUME KindAssumption  == Kind \in [Traffic -> TrafficKinds]
ASSUME BoundAssumption == MaxRequests \in Nat
ASSUME TimeoutAssumption == Timeout \in Nat \ {0}
ASSUME NoneAssumption  == None \notin Messages \cup Hooks

VARIABLES
  pc,        \* where run_with is
  inbound,   \* what the kernel has written and the client not yet read
  aligned,   \* the next byte to read is the first byte of a frame
  closed,    \* the kernel has closed the connection
  posted,    \* the traffic posted so far
  asked,     \* the kinds of the requests made so far
  answered,  \* the requests the kernel has answered
  env,       \* the envelope serve is handling
  hook,      \* the hook that is running
  waiting,   \* that hook is inside a request, the last of asked
  remaining, \* until the deadline of that request
  waited,    \* history: since it began to wait
  raising,   \* serve will end by raising
  stops,     \* how often on_shutdown ran
  ponged, acked,  \* the traffic the plugin has confirmed
  handled    \* history: events whose on_event returned

kernelVars  == <<closed, posted, answered>>
waitVars    == <<waiting, remaining, waited>>
requestVars == <<asked, waitVars>>
vars == <<pc, inbound, aligned, kernelVars, env, hook, raising, stops,
          ponged, acked, handled, requestVars>>

TypeOK ==
  /\ pc \in {"connect", "register", "recv", "dispatch", "hook", "ack",
             "shutdown", "close", "ended"}
  /\ inbound \in Seq(Messages)
  /\ aligned \in BOOLEAN /\ closed \in BOOLEAN /\ raising \in BOOLEAN
  /\ posted \subseteq Traffic
  /\ asked \in Seq(RequestKinds) /\ Len(asked) <= MaxRequests
  /\ answered \subseteq DOMAIN asked
  /\ env \in Messages \cup {None}
  /\ hook \in Hooks \cup {None}
  /\ waiting \in BOOLEAN /\ remaining \in 0..Timeout /\ waited \in Nat
  /\ stops \in Nat
  /\ ponged \subseteq Traffic /\ acked \subseteq Traffic
  /\ handled \subseteq Traffic

Init ==
  /\ pc = "connect"
  /\ inbound = <<>> /\ aligned = TRUE /\ closed = FALSE /\ posted = {}
  /\ asked = <<>> /\ answered = {}
  /\ env = None /\ hook = None
  /\ waiting = FALSE /\ remaining = 0 /\ waited = 0
  /\ raising = FALSE /\ stops = 0
  /\ ponged = {} /\ acked = {} /\ handled = {}

-----------------------------------------------------------------------------
(* The kernel, which writes to registered plugins.                         *)

Registered == pc \in {"recv", "dispatch", "hook", "ack", "shutdown"}

Posts(m) ==
  /\ Registered /\ ~closed
  /\ inbound' = Append(inbound, m)
  /\ UNCHANGED <<pc, aligned, closed, env, hook, raising, stops, ponged,
                 acked, handled, requestVars>>

KernelPosts(t) ==
  /\ t \notin posted
  /\ Posts(t)
  /\ posted' = posted \cup {t}
  /\ UNCHANGED answered

AnswersTo(kind) ==
  CASE kind = "publish" -> {"event_publish_ack", "error"}
    [] kind = "action"  -> {"action_response", "action_stream_abort", "error"}
    [] kind = "command" -> {"kernel_command_ack", "error"}
    [] kind = "ping"    -> {"pong"}

KernelAnswers(i) ==
  /\ i \notin answered
  /\ \E kind \in AnswersTo(asked[i]) : Posts([kind |-> kind, id |-> i])
  /\ answered' = answered \cup {i}
  /\ UNCHANGED posted

KernelCloses ==
  /\ ~closed /\ pc # "ended"
  /\ closed' = TRUE
  /\ UNCHANGED <<pc, inbound, aligned, posted, answered, env, hook, raising,
                 stops, ponged, acked, handled, requestVars>>

-----------------------------------------------------------------------------
(* run_with and serve outside of the receive loop.                         *)

quietVars == <<inbound, aligned, kernelVars, requestVars>>

(* The connection succeeds, or raises before there is a client to close.   *)
Connect ==
  /\ pc = "connect"
  /\ \/ pc' = "register" /\ UNCHANGED raising
     \/ pc' = "ended" /\ raising' = TRUE
  /\ UNCHANGED <<quietVars, env, hook, stops, ponged, acked, handled>>

(* register_full returns an accepting ack; or raises, or is not accepted:  *)
(* then serve raises without any hook having been called.                  *)
Register ==
  /\ pc = "register"
  /\ \/ pc' = "hook" /\ hook' = "on_init" /\ UNCHANGED raising
     \/ pc' = "close" /\ raising' = TRUE /\ UNCHANGED hook
  /\ UNCHANGED <<quietVars, env, stops, ponged, acked, handled>>

(* Mutation: serve returns without on_shutdown.                            *)
AfterLoopClose == "close"

(* Where the receive loop goes when it ends.                               *)
AfterLoop == "shutdown"

LeaveLoop(raises) ==
  /\ pc' = AfterLoop
  /\ raising' = (raising \/ raises)
  /\ env' = None /\ hook' = None

(* on_shutdown runs; when it raises that replaces the outcome of the loop, *)
(* but not of a failed on_init, which raises anyhow.                       *)
OnShutdown ==
  /\ pc = "shutdown"
  /\ stops' = stops + 1
  /\ raising' = TRUE \/ UNCHANGED raising
  /\ pc' = "close"
  /\ UNCHANGED <<quietVars, env, hook, ponged, acked, handled>>

(* The "finally" of run_with.                                              *)
Close ==
  /\ pc = "close"
  /\ pc' = "ended"
  /\ UNCHANGED <<quietVars, env, hook, raising, stops, ponged, acked, handled>>

-----------------------------------------------------------------------------
(* The receive loop.                                                       *)

loopVars == <<stops, handled, kernelVars, requestVars>>

Recv ==
  /\ pc = "recv" /\ aligned /\ inbound # <<>>
  /\ pc' = "dispatch"
  /\ env' = Head(inbound) /\ inbound' = Tail(inbound)
  /\ UNCHANGED <<loopVars, aligned, hook, raising, ponged, acked>>

(* Any Exception of recv counts as a disconnect.                           *)
RecvFails ==
  /\ pc = "recv"
  /\ ~aligned \/ (closed /\ inbound = <<>>)
  /\ LeaveLoop(FALSE)
  /\ UNCHANGED <<loopVars, inbound, aligned, ponged, acked>>

(* The task is cancelled while it waits for a frame.                       *)
RecvCancelled ==
  /\ pc = "recv"
  /\ LeaveLoop(TRUE)
  /\ UNCHANGED <<loopVars, inbound, aligned, ponged, acked>>

IsKind(m, kind) == m \in Traffic /\ Kind[m] = kind

(* A send of serve itself that raises, or is cancelled while it drains,    *)
(* ends the loop with that exception.  Its frame may have been written.    *)
SendFails == LeaveLoop(TRUE)

OnPing ==
  /\ pc = "dispatch" /\ IsKind(env, "ping")
  /\ \/ pc' = "recv" /\ ponged' = ponged \cup {env} /\ env' = None
        /\ UNCHANGED <<hook, raising>>
     \/ SendFails /\ ponged' \in {ponged, ponged \cup {env}}
  /\ UNCHANGED <<loopVars, inbound, aligned, acked>>

OnPluginShutdown ==
  /\ pc = "dispatch" /\ IsKind(env, "plugin_shutdown")
  /\ LeaveLoop(FALSE)
  /\ UNCHANGED <<loopVars, inbound, aligned, ponged, acked>>

(* Everything else, late answers included, goes to on_message.             *)
CallHook ==
  /\ pc = "dispatch"
  /\ ~IsKind(env, "ping") /\ ~IsKind(env, "plugin_shutdown")
  /\ pc' = "hook"
  /\ hook' = IF IsKind(env, "event") THEN "on_event" ELSE "on_message"
  /\ UNCHANGED <<loopVars, inbound, aligned, env, raising, ponged, acked>>

(* Mutation: what on_message handled is acknowledged like an event.        *)
HookReturnsToAck ==
  /\ pc = "hook" /\ ~waiting
  /\ hook' = None
  /\ IF hook # "on_init"
       THEN pc' = "ack" /\ handled' = handled \cup {env} /\ UNCHANGED env
       ELSE pc' = "recv" /\ env' = None /\ UNCHANGED handled
  /\ UNCHANGED <<quietVars, raising, stops, ponged, acked>>

HookReturns ==
  /\ pc = "hook" /\ ~waiting
  /\ hook' = None
  /\ IF hook = "on_event"
       THEN pc' = "ack" /\ handled' = handled \cup {env} /\ UNCHANGED env
       ELSE pc' = "recv" /\ env' = None /\ UNCHANGED handled
  /\ UNCHANGED <<quietVars, raising, stops, ponged, acked>>

(* The reply that on_message returned cannot be sent.                      *)
HookReplyFails ==
  /\ pc = "hook" /\ ~waiting /\ hook = "on_message"
  /\ SendFails
  /\ UNCHANGED <<quietVars, stops, ponged, acked, handled>>

(* Mutation: on_event's failure ends in the acknowledgement all the same.  *)
AckFailedEvent == "ack"

(* Without an acknowledgement the kernel delivers the event again.         *)
EventFails == "recv"

HookRaises ==
  /\ pc = "hook" /\ ~waiting
  /\ IF hook = "on_event"
       THEN /\ pc' = EventFails /\ hook' = None
            /\ env' = (IF EventFails = "recv" THEN None ELSE env)
            /\ UNCHANGED raising
       ELSE LeaveLoop(TRUE)
  /\ UNCHANGED <<quietVars, stops, ponged, acked, handled>>

WaitEnds == waiting' = FALSE /\ remaining' = 0 /\ waited' = 0

(* A hook is cancelled: on_event's "except Exception" does not catch that. *)
HookCancelled ==
  /\ pc = "hook"
  /\ WaitEnds
  /\ LeaveLoop(TRUE)
  /\ UNCHANGED <<inbound, aligned, kernelVars, asked, stops, ponged, acked,
                 handled>>

(* ack_event, and the reply that on_event returned.                        *)
AckEvent ==
  /\ pc = "ack"
  /\ \/ pc' = "recv" /\ acked' = acked \cup {env} /\ env' = None
        /\ UNCHANGED <<hook, raising>>
     \/ SendFails /\ acked' \in {acked, acked \cup {env}}
  /\ UNCHANGED <<loopVars, inbound, aligned, ponged>>

-----------------------------------------------------------------------------
(* The requests of a hook.                                                 *)

hookVars == <<pc, kernelVars, env, hook, raising, stops, ponged, acked, handled>>

(* The request is sent, and only then its deadline set; a send that raises *)
(* makes no request.                                                       *)
Ask(kind) ==
  /\ pc = "hook" /\ ~waiting /\ Len(asked) < MaxRequests
  /\ asked' = Append(asked, kind)
  /\ waiting' = TRUE /\ remaining' = Timeout /\ waited' = 0
  /\ UNCHANGED <<hookVars, inbound, aligned>>

Request == Len(asked)

(* send_command and ping wait without a deadline.                          *)
HasDeadline == waiting /\ asked[Request] \in {"publish", "action"}

(* A timer that is due runs before any more time passes.                   *)
Tick ==
  /\ pc = "hook" /\ HasDeadline /\ remaining > 0
  /\ remaining' = remaining - 1
  /\ waited' = waited + 1
  /\ UNCHANGED <<hookVars, inbound, aligned, asked, waiting>>

(* The predicates given to _await_matching; send_command and ping take the *)
(* next envelope, whatever it is.                                          *)
Matches(kind, m) ==
  CASE kind = "publish" ->
         m \in Answers /\ m.kind \in {"event_publish_ack", "error"}
    [] kind = "action" ->
         /\ m \in Answers
         /\ \/ m.kind = "error"
            \/ /\ m.kind \in {"action_response", "action_stream_abort"}
               /\ m.id = Request
    [] OTHER -> TRUE

(* Mutation: every discarded envelope sets a new deadline.                 *)
AwaitRestarts ==
  /\ pc = "hook" /\ waiting /\ aligned /\ inbound # <<>>
  /\ HasDeadline => remaining > 0
  /\ IF Matches(asked[Request], Head(inbound))
       THEN WaitEnds
       ELSE remaining' = Timeout /\ UNCHANGED <<waiting, waited>>
  /\ inbound' = Tail(inbound)
  /\ UNCHANGED <<hookVars, aligned, asked>>

(* The next envelope answers the request, or is discarded.                 *)
Await ==
  /\ pc = "hook" /\ waiting /\ aligned /\ inbound # <<>>
  /\ HasDeadline => remaining > 0
  /\ IF Matches(asked[Request], Head(inbound)) THEN WaitEnds
                                               ELSE UNCHANGED waitVars
  /\ inbound' = Tail(inbound)
  /\ UNCHANGED <<hookVars, aligned, asked>>

(* Mutation: only actions time out.                                        *)
ActionTimesOut ==
  /\ pc = "hook" /\ HasDeadline /\ remaining = 0
  /\ asked[Request] = "action"
  /\ WaitEnds
  /\ UNCHANGED <<hookVars, inbound, aligned, asked>>

(* VynkorTimeout, between two frames or inside the frame being read.  A    *)
(* read out of step has taken one byte of the frame that an earlier timeout*)
(* cut, perhaps the last one that was left of it.                          *)
AwaitTimesOut ==
  /\ pc = "hook" /\ HasDeadline /\ remaining = 0
  /\ \/ UNCHANGED <<inbound, aligned>>
     \/ /\ aligned /\ inbound # <<>>
        /\ aligned' = FALSE /\ inbound' = Tail(inbound)
     \/ ~aligned /\ aligned' = TRUE /\ UNCHANGED inbound
  /\ WaitEnds
  /\ UNCHANGED <<hookVars, asked>>

(* Mutation: the request goes on reading when its connection has ended.    *)
AwaitReadsOn ==
  /\ pc = "hook" /\ waiting
  /\ ~aligned \/ (closed /\ inbound = <<>>)
  /\ UNCHANGED vars

(* The read of the request raises.                                         *)
AwaitFails ==
  /\ pc = "hook" /\ waiting
  /\ ~aligned \/ (closed /\ inbound = <<>>)
  /\ WaitEnds
  /\ UNCHANGED <<hookVars, inbound, aligned, asked>>

-----------------------------------------------------------------------------
HookStep == HookReturns \/ HookReplyFails \/ HookRaises

ServeStep ==
  \/ Register \/ Recv \/ RecvFails \/ OnPing \/ OnPluginShutdown \/ CallHook
  \/ HookStep \/ AckEvent \/ OnShutdown \/ Close

AwaitStep == Await \/ AwaitFails \/ AwaitTimesOut

Next ==
  \/ Connect \/ ServeStep \/ AwaitStep \/ RecvCancelled \/ HookCancelled
  \/ \E kind \in RequestKinds : Ask(kind)
  \/ Tick
  \/ \E t \in Traffic : KernelPosts(t)
  \/ \E i \in DOMAIN asked : KernelAnswers(i)
  \/ KernelCloses
  \/ pc = "ended" /\ UNCHANGED vars

Spec == Init /\ [][Next]_vars

(* The task runs, the requests read what has come, and time passes.  That  *)
(* the sends of serve return matters to DisconnectEnds only: they do when  *)
(* the connection is gone.                                                 *)
FairSpec == /\ Spec
            /\ WF_vars(ServeStep) /\ WF_vars(AwaitStep) /\ WF_vars(Tick)

-----------------------------------------------------------------------------
(* on_shutdown runs exactly once after a registration that was accepted,   *)
(* whichever way serve ends, and never without one (serve, lines 154-214). *)
ShutdownOnce ==
  /\ pc \in {"connect", "register", "recv", "dispatch", "hook", "ack",
             "shutdown"} => stops = 0
  /\ stops <= 1
  /\ pc \in {"close", "ended"} /\ stops = 0 => raising /\ posted = {}

(* Nothing is acknowledged that on_event did not handle, although requests *)
(* inside of hooks read and discard events, and every event that on_event  *)
(* handled is acknowledged while the connection is there.                  *)
AckedIffHandled ==
  /\ acked \subseteq handled
  /\ pc \in {"recv", "dispatch", "hook"} => handled \subseteq acked

(* A request with a deadline waits no longer than that, however much other *)
(* traffic it reads and discards in the meantime (_await_matching, lines   *)
(* 655-668).  Its send comes before the wait and has no deadline.          *)
DeadlineKept == HasDeadline => waited <= Timeout

(* The README (line 55): the SDK exits the loop on PluginShutdown.         *)
ShutdownObeyed ==
  \A t \in Traffic :
    Kind[t] = "plugin_shutdown" /\ t \in posted ~> pc = "ended"

(* A connection that breaks ends the plugin by way of on_shutdown, also    *)
(* while a hook waits in a request without a deadline, or after a deadline *)
(* has cut a frame (serve, lines 173-178; send_command and ping).          *)
DisconnectEnds == closed /\ pc # "connect" ~> pc = "ended"

(* When the time is over the request ends, on a silent connection and on   *)
(* one that has lost its place in a frame (_await_matching, recv_timeout). *)
DeadlineEnds ==
  \A i \in Ids : HasDeadline /\ Request = i ~> ~(waiting /\ Request = i)
=============================================================================
