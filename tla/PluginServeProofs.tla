-------------------------- MODULE PluginServeProofs --------------------------
(***************************************************************************)
(* Theorems about PluginServe for all traffic of the kernel and any number *)
(* of requests, and their proofs.                                          *)
(***************************************************************************)
EXTENDS PluginServe, SequenceTheorems, TLAPS

(* Where serve is decides whether on_shutdown has run.                     *)
StopsInv ==
  /\ pc \in {"connect", "register", "recv", "dispatch", "hook", "ack",
             "shutdown"} => stops = 0
  /\ pc \in {"connect", "register"} => posted = {}
  /\ stops <= 1
  /\ pc \in {"close", "ended"} /\ stops = 0 => raising /\ posted = {}

(* The event that is being acknowledged is the only one that was handled   *)
(* and not acknowledged, unless serve is on its way out.                   *)
AckInv ==
  /\ acked \subseteq handled
  /\ pc \in {"connect", "register", "recv", "dispatch", "hook"} =>
       handled \subseteq acked
  /\ pc = "ack" => env \in handled /\ handled \subseteq acked \cup {env}

(* on_event runs, and ends in an acknowledgement, on events only.          *)
HookInv ==
  /\ pc = "hook" /\ hook = "on_event" => IsKind(env, "event")
  /\ pc = "ack" => IsKind(env, "event")

(* Who waits has asked, and what is left of the time is what has not been  *)
(* waited yet: no envelope that is discarded gives any of it back.         *)
WaitInv ==
  waiting => Len(asked) > 0 /\ waited + remaining = Timeout

IInv == TypeOK /\ StopsInv /\ AckInv /\ HookInv /\ WaitInv

-----------------------------------------------------------------------------
(* Reading from and writing to a sequence of S.                            *)
LEMMA QueueFacts ==
  ASSUME NEW S, NEW q \in Seq(S)
  PROVE  /\ q # <<>> => Head(q) \in S /\ Tail(q) \in Seq(S)
         /\ \A x \in S : Append(q, x) \in Seq(S)
  BY HeadTailProperties, AppendProperties

(* Making one more request keeps the earlier ones.                         *)
LEMMA AskFacts ==
  ASSUME NEW q \in Seq(RequestKinds), NEW x \in RequestKinds
  PROVE  /\ Append(q, x) \in Seq(RequestKinds) /\ Len(q) \in Nat
         /\ Len(Append(q, x)) = Len(q) + 1
         /\ DOMAIN q = 1..Len(q) /\ DOMAIN Append(q, x) = 1..(Len(q) + 1)
         /\ \A i \in DOMAIN q : Append(q, x)[i] = q[i]
  BY AppendProperties, LenProperties

(* The end of a wait resets its clock.                                     *)
LEMMA EndedWait ==
  ASSUME WaitEnds
  PROVE  waiting' \in BOOLEAN /\ remaining' \in 0..Timeout /\ waited' \in Nat
  <1>1. 0 \in 0..Timeout
    BY TimeoutAssumption
  <1> QED
    BY <1>1 DEF WaitEnds

(* Every step keeps every variable's type.                                 *)
LEMMA TypeStep ==
  ASSUME TypeOK, HookInv, [Next]_vars PROVE TypeOK'
  <1> USE DEF TypeOK, waitVars
  <1>0. ASSUME NEW raises \in BOOLEAN, LeaveLoop(raises)
        PROVE  /\ raising' \in BOOLEAN /\ env' \in Messages \cup {None}
               /\ hook' \in Hooks \cup {None} /\ pc' = "shutdown"
    BY <1>0 DEF LeaveLoop, AfterLoop
  <1>1. CASE Connect \/ Register \/ OnShutdown \/ Close
    <2>1. CASE Connect
      BY <2>1 DEF Connect, quietVars, kernelVars, requestVars
    <2>2. CASE Register
      BY <2>2 DEF Register, Hooks, quietVars, kernelVars, requestVars
    <2>3. CASE OnShutdown
      <3>1. stops' \in Nat
        BY <2>3 DEF OnShutdown
      <3>2. raising' \in BOOLEAN
        BY <2>3 DEF OnShutdown
      <3> QED
        BY <2>3, <3>1, <3>2 DEF OnShutdown, quietVars, kernelVars, requestVars
    <2>4. CASE Close
      BY <2>4 DEF Close, quietVars, kernelVars, requestVars
    <2> QED
      BY <1>1, <2>1, <2>2, <2>3, <2>4
  <1>2. CASE \/ RecvFails \/ RecvCancelled \/ OnPing \/ OnPluginShutdown
             \/ CallHook \/ AckEvent
    <2>1. CASE RecvFails \/ RecvCancelled \/ OnPluginShutdown
      BY <1>0, <2>1
      DEF RecvFails, RecvCancelled, OnPluginShutdown, loopVars, kernelVars,
          requestVars
    <2>2. CASE OnPing
      <3>1. env \in Traffic
        BY <2>2 DEF OnPing, IsKind
      <3> QED
        BY <1>0, <2>2, <3>1 DEF OnPing, SendFails, loopVars, kernelVars, requestVars
    <2>3. CASE CallHook
      BY <2>3 DEF CallHook, Hooks, loopVars, kernelVars, requestVars
    <2>4. CASE AckEvent
      <3>1. env \in Traffic
        BY <2>4 DEF AckEvent, HookInv, IsKind
      <3> QED
        BY <1>0, <2>4, <3>1 DEF AckEvent, SendFails, loopVars, kernelVars, requestVars
    <2> QED
      BY <1>2, <2>1, <2>2, <2>3, <2>4
  <1>10. CASE HookReturns \/ HookReplyFails \/ HookRaises \/ HookCancelled
    <2>1. CASE HookReturns
      BY <2>1 DEF HookReturns, HookInv, IsKind, quietVars, kernelVars, requestVars
    <2>2. CASE HookReplyFails
      BY <1>0, <2>2 DEF HookReplyFails, SendFails, quietVars, kernelVars, requestVars
    <2>3. CASE HookRaises
      BY <1>0, <2>3 DEF HookRaises, EventFails, quietVars, kernelVars, requestVars
    <2>4. CASE HookCancelled
      BY <1>0, <2>4, EndedWait DEF HookCancelled, kernelVars
    <2> QED
      BY <1>10, <2>1, <2>2, <2>3, <2>4
  <1>3. CASE Recv
    BY <1>3, QueueFacts DEF Recv, loopVars, kernelVars, requestVars
  <1>4. ASSUME NEW kind \in RequestKinds, Ask(kind)
        PROVE  TypeOK'
    <2>1. /\ asked' = Append(asked, kind) /\ Len(asked) < MaxRequests
          /\ UNCHANGED <<hookVars, inbound, aligned>>
          /\ waiting' = TRUE /\ remaining' = Timeout /\ waited' = 0
      BY <1>4 DEF Ask
    <2>2. /\ asked' \in Seq(RequestKinds) /\ Len(asked') <= MaxRequests
          /\ DOMAIN asked \subseteq DOMAIN asked'
      BY <2>1, AskFacts, BoundAssumption
    <2> QED
      BY <2>1, <2>2, TimeoutAssumption DEF hookVars, kernelVars
  <1>5. CASE AwaitStep
    <2>1. CASE Await
      <3>1. inbound' \in Seq(Messages)
        BY <2>1, QueueFacts DEF Await
      <3>2. waiting' \in BOOLEAN /\ remaining' \in 0..Timeout /\ waited' \in Nat
        BY <2>1, EndedWait DEF Await
      <3> QED
        BY <2>1, <3>1, <3>2 DEF Await, hookVars, kernelVars
    <2>2. CASE AwaitFails \/ AwaitTimesOut
      BY <2>2, EndedWait, QueueFacts DEF AwaitFails, AwaitTimesOut, hookVars, kernelVars
    <2> QED
      BY <1>5, <2>1, <2>2 DEF AwaitStep
  <1>6. ASSUME NEW m \in Messages, Posts(m)
        PROVE  inbound' \in Seq(Messages)
    BY <1>6, QueueFacts DEF Posts
  <1>7. ASSUME NEW t \in Traffic, KernelPosts(t)
        PROVE  TypeOK'
    BY <1>6, <1>7 DEF KernelPosts, Posts, Messages, requestVars
  <1>8. ASSUME NEW i \in DOMAIN asked, KernelAnswers(i)
        PROVE  TypeOK'
    <2>1. asked[i] \in RequestKinds /\ i \in Ids
      BY BoundAssumption DEF Ids
    <2>2. PICK kind \in AnswersTo(asked[i]) : Posts([kind |-> kind, id |-> i])
      BY <1>8 DEF KernelAnswers
    <2>3. kind \in AnswerKinds
      BY <2>1, <2>2 DEF AnswersTo, RequestKinds, AnswerKinds
    <2>4. [kind |-> kind, id |-> i] \in Messages
      BY <2>1, <2>3 DEF Messages, Answers
    <2>5. inbound' \in Seq(Messages)
      BY <1>6, <2>2, <2>4
    <2> QED
      BY <1>8, <2>2, <2>5 DEF KernelAnswers, Posts, requestVars
  <1>9. CASE KernelCloses \/ UNCHANGED vars
    BY <1>9 DEF KernelCloses, vars, kernelVars, requestVars, waitVars
  <1>11. CASE Tick
    <2>1. remaining' \in 0..Timeout /\ waited' \in Nat
      BY <1>11, TimeoutAssumption DEF Tick
    <2> QED
      BY <1>11, <2>1 DEF Tick, hookVars, kernelVars
  <1> QED
    BY <1>1, <1>2, <1>3, <1>4, <1>5, <1>7, <1>8, <1>9, <1>10, <1>11
    DEF Next, ServeStep, HookStep

(* on_shutdown is entered once, from the end of the loop.                  *)
LEMMA StopsStep == ASSUME TypeOK, StopsInv, [Next]_vars PROVE StopsInv'
  <1> USE DEF StopsInv, kernelVars
  <1>1. CASE ServeStep
    <2>1. CASE \/ RecvFails \/ OnPing \/ OnPluginShutdown \/ CallHook
               \/ Recv \/ AckEvent
      BY <2>1 DEF RecvFails, OnPing, OnPluginShutdown, CallHook, Recv, AckEvent,
         LeaveLoop, AfterLoop, SendFails, loopVars
    <2>2. CASE HookStep
      BY <2>2 DEF HookStep, HookReplyFails, HookRaises, EventFails, HookReturns,
         LeaveLoop, AfterLoop, SendFails, quietVars
    <2>3. CASE Register
      BY <2>3 DEF Register, quietVars
    <2>4. CASE OnShutdown
      BY <2>4 DEF OnShutdown, TypeOK, quietVars
    <2>5. CASE Close
      BY <2>5 DEF Close, quietVars
    <2> QED
      BY <1>1, <2>1, <2>2, <2>3, <2>4, <2>5 DEF ServeStep
  <1>2. CASE AwaitStep \/ Connect \/ RecvCancelled \/ HookCancelled
    BY <1>2 DEF AwaitStep, Await, AwaitFails, AwaitTimesOut, Connect, RecvCancelled,
       HookCancelled, LeaveLoop, AfterLoop, TypeOK, hookVars, quietVars, loopVars
  <1>3. ASSUME NEW kind \in RequestKinds, Ask(kind) PROVE StopsInv'
    BY <1>3 DEF Ask, hookVars
  <1>4. ASSUME NEW t \in Traffic, KernelPosts(t) PROVE StopsInv'
    BY <1>4 DEF KernelPosts, Posts, Registered
  <1>5. ASSUME NEW i \in DOMAIN asked, KernelAnswers(i) PROVE StopsInv'
    BY <1>5 DEF KernelAnswers, Posts
  <1>6. CASE KernelCloses \/ UNCHANGED vars
    BY <1>6 DEF KernelCloses, vars
  <1>7. CASE Tick
    BY <1>7 DEF Tick, hookVars
  <1> QED
    BY <1>1, <1>2, <1>3, <1>4, <1>5, <1>6, <1>7 DEF Next

(* Only on_event's return makes an event handled, and its acknowledgement  *)
(* is the next step of serve, whatever hooks read in between.              *)
LEMMA AckStep ==
  ASSUME TypeOK, AckInv, HookInv, [Next]_vars PROVE AckInv' /\ HookInv'
  <1> USE DEF AckInv, HookInv
  <1>1. CASE HookReturns
    BY <1>1 DEF HookReturns, quietVars
  <1>2. CASE AckEvent
    BY <1>2 DEF AckEvent, SendFails, LeaveLoop, AfterLoop, loopVars
  <1>3. CASE HookRaises \/ HookReplyFails \/ HookCancelled
    BY <1>3 DEF HookRaises, HookReplyFails, HookCancelled, EventFails, SendFails,
       LeaveLoop, AfterLoop, quietVars
  <1>4. CASE \/ Register \/ Recv \/ RecvFails \/ OnPing \/ OnPluginShutdown
             \/ CallHook \/ OnShutdown \/ Close \/ Connect \/ RecvCancelled
    BY <1>4 DEF Register, Recv, RecvFails, OnPing, OnPluginShutdown, CallHook,
       OnShutdown, Close, Connect, RecvCancelled, SendFails, LeaveLoop, AfterLoop,
       loopVars, quietVars
  <1>5. CASE AwaitStep
    BY <1>5 DEF AwaitStep, Await, AwaitFails, AwaitTimesOut, hookVars
  <1>6. ASSUME NEW kind \in RequestKinds, Ask(kind) PROVE AckInv' /\ HookInv'
    BY <1>6 DEF Ask, hookVars
  <1>7. ASSUME NEW t \in Traffic, KernelPosts(t) PROVE AckInv' /\ HookInv'
    BY <1>7 DEF KernelPosts, Posts
  <1>8. ASSUME NEW i \in DOMAIN asked, KernelAnswers(i) PROVE AckInv' /\ HookInv'
    BY <1>8 DEF KernelAnswers, Posts
  <1>9. CASE KernelCloses \/ UNCHANGED vars
    BY <1>9 DEF KernelCloses, vars
  <1>10. CASE Tick
    BY <1>10 DEF Tick, hookVars
  <1> USE DEF IsKind
  <1> QED
    BY <1>1, <1>2, <1>3, <1>4, <1>5, <1>6, <1>7, <1>8, <1>9, <1>10
    DEF Next, ServeStep, HookStep

(* A wait starts with all of its time, and only the clock uses it up.      *)
LEMMA WaitStep == ASSUME TypeOK, WaitInv, [Next]_vars PROVE WaitInv'
  <1>1. ASSUME UNCHANGED requestVars
        PROVE  WaitInv'
    BY <1>1 DEF WaitInv, requestVars, waitVars
  <1>2. ASSUME WaitEnds
        PROVE  WaitInv'
    BY <1>2 DEF WaitInv, WaitEnds
  <1>3. ASSUME NEW kind \in RequestKinds, Ask(kind) PROVE WaitInv'
    <2>1. Len(asked') > 0
      BY <1>3, AskFacts DEF Ask, TypeOK
    <2>2. waited' + remaining' = Timeout
      BY <1>3, TimeoutAssumption DEF Ask
    <2> QED
      BY <2>1, <2>2 DEF WaitInv
  <1>4. CASE Tick
    BY <1>4, TimeoutAssumption DEF Tick, HasDeadline, WaitInv, TypeOK
  <1>5. CASE Await
    BY <1>1, <1>2, <1>5 DEF Await, requestVars
  <1>6. CASE AwaitFails \/ AwaitTimesOut \/ HookCancelled
    BY <1>2, <1>6 DEF AwaitFails, AwaitTimesOut, HookCancelled
  <1>7. ASSUME NEW t \in Traffic, KernelPosts(t)
        PROVE  WaitInv'
    BY <1>1, <1>7 DEF KernelPosts, Posts
  <1>8. ASSUME NEW i \in DOMAIN asked, KernelAnswers(i)
        PROVE  WaitInv'
    BY <1>1, <1>8 DEF KernelAnswers, Posts
  <1>9. CASE Connect \/ ServeStep \/ RecvCancelled
    <2>1. CASE Connect \/ Register \/ OnShutdown \/ Close \/ HookStep
      BY <1>1, <2>1 DEF Connect, Register, OnShutdown, Close, HookStep, HookReturns,
         HookReplyFails, HookRaises, quietVars
    <2>2. CASE \/ Recv \/ RecvFails \/ OnPing \/ OnPluginShutdown \/ CallHook
               \/ AckEvent \/ RecvCancelled
      BY <1>1, <2>2 DEF Recv, RecvFails, OnPing, OnPluginShutdown, CallHook,
         AckEvent, RecvCancelled, loopVars
    <2> QED
      BY <1>9, <2>1, <2>2 DEF ServeStep
  <1>10. CASE KernelCloses \/ UNCHANGED vars
    BY <1>1, <1>10 DEF KernelCloses, vars
  <1> QED
    BY <1>3, <1>4, <1>5, <1>6, <1>7, <1>8, <1>9, <1>10 DEF Next, AwaitStep

-----------------------------------------------------------------------------
(* The invariant holds initially.                                          *)
LEMMA InitIInv == Init => IInv
  <1> SUFFICES ASSUME Init PROVE IInv
    OBVIOUS
  <1>1. TypeOK
    <2>1. <<>> \in Seq(Messages) /\ <<>> \in Seq(RequestKinds)
      BY EmptySeq
    <2>2. Len(<<>>) = 0
      OBVIOUS
    <2>3. Len(asked) <= MaxRequests
      BY <2>2, BoundAssumption DEF Init
    <2>4. asked \in Seq(RequestKinds) /\ inbound \in Seq(Messages)
      BY <2>1 DEF Init
    <2>5. 0 \in 0..Timeout
      BY TimeoutAssumption
    <2> QED
      BY <2>3, <2>4, <2>5 DEF Init, TypeOK
  <1>2. StopsInv /\ AckInv /\ HookInv /\ WaitInv
    BY DEF Init, StopsInv, AckInv, HookInv, WaitInv
  <1> QED
    BY <1>1, <1>2 DEF IInv

(* IInv is an invariant of the plugin.                                     *)
THEOREM Invariance == Spec => []IInv
  <1>1. IInv /\ [Next]_vars => IInv'
    BY TypeStep, StopsStep, AckStep, WaitStep DEF IInv
  <1> QED
    BY <1>1, InitIInv, PTL DEF Spec

(* The plugin's variables keep their types.                                *)
THEOREM TypeCorrect == Spec => []TypeOK
  <1>1. IInv => TypeOK
    BY DEF IInv
  <1> QED
    BY <1>1, Invariance, PTL

(* on_shutdown runs exactly once after an accepted registration, whichever *)
(* way serve ends, and never without one.                                  *)
THEOREM ShutdownRunsOnce == Spec => []ShutdownOnce
  <1>1. IInv => ShutdownOnce
    BY DEF IInv, StopsInv, ShutdownOnce
  <1> QED
    BY <1>1, Invariance, PTL

(* Events are acknowledged exactly when on_event handled them.             *)
THEOREM AcksAreRight == Spec => []AckedIffHandled
  <1>1. IInv => AckedIffHandled
    BY DEF IInv, AckInv, AckedIffHandled
  <1> QED
    BY <1>1, Invariance, PTL

(* A request with a deadline waits no longer than that, however much other *)
(* traffic it reads and discards (_await_matching).                        *)
THEOREM DeadlinesKept == Spec => []DeadlineKept
  <1>1. IInv => DeadlineKept
    BY TimeoutAssumption DEF IInv, TypeOK, WaitInv, HasDeadline, DeadlineKept
  <1> QED
    BY <1>1, Invariance, PTL
=============================================================================
