------------------------- MODULE ReplyServiceProofs -------------------------
(***************************************************************************)
(* ConcurrentLoop implements ReplyService: each of its steps is a step of  *)
(* the abstract specification, or changes nothing there.  The proof adds   *)
(* to the invariant of ConcurrentLoopProofs in which order the replies of  *)
(* one request leave the queue.                                            *)
(***************************************************************************)
EXTENDS ConcurrentLoopProofs

(* The replies of one request are queued in ascending order, and behind the*)
(* one that the loop holds.                                                *)
OrderInv ==
  /\ \A i, j \in 1..Len(queue) :
       i < j /\ queue[i][1] = queue[j][1] => queue[i][2] < queue[j][2]
  /\ taken # None => \A i \in 1..Len(queue) :
       queue[i][1] = taken[1] => taken[2] < queue[i][2]

(* A handler's replies come after those it put before.                     *)
LEMMA PutOrder ==
  ASSUME IInv, OrderInv, NEW r \in Requests, NEW n \in 0..MaxReplies,
         put[r] <= n, PutUpTo(r, n)
  PROVE  OrderInv'
  <1>1. TypeOK /\ QueueInv /\ TakenInv
    BY DEF IInv
  <1> DEFINE c == Batch(r, n)
             old == 1..Len(queue)
             new == (Len(queue) + 1)..Len(queue')
  <1>2. /\ Len(queue) \in Nat /\ c \in Nat /\ put[r] \in Nat
        /\ Len(queue') = Len(queue) + c
        /\ \A i \in old : queue'[i] = queue[i]
        /\ \A i \in new : queue'[i] = <<r, put[r] + (i - Len(queue))>>
    BY <1>1, PutFacts
  <1>3. taken' = taken
    BY DEF PutUpTo
  <1> HIDE DEF c
  <1>4. \A i \in old : /\ queue[i] \in Replies /\ queue[i][2] \in Nat
                       /\ queue[i][1] = r => queue[i][2] <= put[r]
    <2> SUFFICES ASSUME NEW i \in old
                 PROVE  /\ queue[i] \in Replies /\ queue[i][2] \in Nat
                        /\ queue[i][1] = r => queue[i][2] <= put[r]
      OBVIOUS
    <2>1. queue[i] \in Replies
      BY <1>1, ElementOfSeq DEF TypeOK
    <2>2. queue[i][2] \in Nat
      BY <2>1, MaxRepliesAssumption DEF Replies
    <2> QED
      BY <1>1, <2>1, <2>2 DEF QueueInv, Live
  <1>5. \A i \in new : queue'[i][1] = r /\ queue'[i][2] = put[r] + (i - Len(queue))
    BY <1>2
  <1>6. \A i \in 1..Len(queue') : i \in old \/ i \in new
    BY <1>2
  <1>7. ASSUME NEW i \in 1..Len(queue'), NEW j \in 1..Len(queue'),
               i < j, queue'[i][1] = queue'[j][1]
        PROVE  queue'[i][2] < queue'[j][2]
    <2>1. CASE i \in old /\ j \in old
      BY <1>2, <1>7, <2>1 DEF OrderInv
    <2>2. CASE i \in old /\ j \in new
      <3>1. queue'[j][2] > put[r]
        BY <1>2, <1>5, <2>2
      <3> QED
        BY <1>2, <1>4, <1>5, <1>7, <2>2, <3>1
    <2>3. CASE i \in new /\ j \in new
      BY <1>2, <1>5, <1>7, <2>3
    <2> QED
      BY <1>2, <1>6, <1>7, <2>1, <2>2, <2>3
  <1>8. ASSUME taken # None, NEW i \in 1..Len(queue'), queue'[i][1] = taken[1]
        PROVE  taken[2] < queue'[i][2]
    <2>1. CASE i \in old
      BY <1>2, <1>8, <2>1 DEF OrderInv
    <2>2. CASE i \in new
      <3>1. taken \in Replies
        BY <1>1, <1>8 DEF TypeOK
      <3>2. taken[2] \in Nat
        BY <3>1, MaxRepliesAssumption DEF Replies
      <3>3. taken[1] = r
        BY <1>5, <1>8, <2>2
      <3>4. taken[2] <= put[r]
        BY <1>1, <1>8, <3>3 DEF TakenInv, Live
      <3>5. queue'[i][2] \in Nat /\ queue'[i][2] > put[r]
        BY <1>2, <1>5, <2>2
      <3> QED
        BY <1>2, <3>2, <3>4, <3>5
    <2> QED
      BY <1>6, <2>1, <2>2
  <1> QED
    BY <1>3, <1>7, <1>8 DEF OrderInv

(* Every step keeps the order of the replies.                              *)
LEMMA OrderStep ==
  ASSUME IInv, OrderInv, [Next]_vars
  PROVE  OrderInv'
  <1>1. TypeOK /\ QueueInv /\ TakenInv /\ HandlerInv /\ FrameInv
    BY DEF IInv
  <1>2. ASSUME NEW r \in Requests, HandlerReturn(r)
        PROVE  OrderInv'
    <2>1. PICK n \in 0..MaxReplies : PutUpTo(r, n)
      BY <1>2 DEF HandlerReturn
    <2>2. put[r] <= n
      BY <1>1, <1>2, MaxRepliesAssumption DEF HandlerReturn, HandlerInv, TypeOK
    <2> QED
      BY <2>1, <2>2, PutOrder
  <1>3. ASSUME NEW r \in Requests, HandlerPut(r)
        PROVE  OrderInv'
    <2>1. made[r] \in 0..MaxReplies /\ put[r] <= made[r]
      BY <1>1 DEF HandlerInv, TypeOK
    <2> QED
      BY <1>3, <2>1, PutOrder DEF HandlerPut
  <1>4. CASE GetReply \/ TakeQueued
    <2>1. queue # <<>> /\ queue' = Tail(queue) /\ taken' = Head(queue)
      BY <1>4 DEF GetReply, TakeQueued, TakeHead
    <2>2. /\ Head(queue) = queue[1] /\ Len(queue) \in Nat /\ 1 \in 1..Len(queue)
          /\ Len(queue') = Len(queue) - 1
          /\ \A i \in 1..Len(queue') :
               i + 1 \in 2..Len(queue) /\ queue'[i] = queue[i + 1]
      BY <1>1, <2>1, TailFacts
    <2>3. ASSUME NEW i \in 1..Len(queue'), NEW j \in 1..Len(queue'),
                 i < j, queue'[i][1] = queue'[j][1]
          PROVE  queue'[i][2] < queue'[j][2]
      <3>1. /\ i + 1 \in 1..Len(queue) /\ j + 1 \in 1..Len(queue) /\ i + 1 < j + 1
            /\ queue'[i] = queue[i + 1] /\ queue'[j] = queue[j + 1]
        BY <2>2, <2>3
      <3> QED
        BY <2>3, <3>1 DEF OrderInv
    <2>4. ASSUME taken' = queue[1], NEW i \in 1..Len(queue'),
                 queue'[i][1] = taken'[1]
          PROVE  taken'[2] < queue'[i][2]
      <3>1. i + 1 \in 1..Len(queue) /\ 1 < i + 1 /\ queue'[i] = queue[i + 1]
        BY <2>2
      <3> QED
        BY <2>2, <2>4, <3>1 DEF OrderInv
    <2> QED
      BY <2>1, <2>2, <2>3, <2>4 DEF OrderInv
  <1>5. CASE queue' = queue /\ (taken' = taken \/ taken' = None)
    BY <1>5 DEF OrderInv
  <1>6. CASE \/ OnInit \/ WakeOnRecv \/ WakeOnReply \/ CancelRecv \/ SendReply
             \/ OnFailure \/ OnPluginShutdown \/ OnPing \/ AcceptAction
             \/ AcceptEscapes \/ CallHook \/ HookReturns \/ HookRaises
             \/ Answer \/ HookReply \/ SkipEmpty
             \/ QueueEmpty \/ OnShutdown \/ Register
    BY <1>5, <1>6
    DEF OnInit, WakeOnRecv, WakeOnReply, CancelRecv, SendReply, OnFailure,
        OnPluginShutdown, OnPing, AcceptAction, AcceptEscapes, CallHook,
        HookReturns, HookRaises, Answer, HookReply, SkipEmpty, QueueEmpty,
        OnShutdown, Register, Goto, Proceed, RecvUsed, Dispatches
  <1>7. CASE RecvStep \/ KernelClose \/ UNCHANGED vars
    BY <1>5, <1>7
    DEF RecvStep, ReadFirst, ReadRest, ReadFails, Resume, ReadEof, ReadMessage,
        RecvTo, KernelClose, vars
  <1>8. ASSUME NEW e \in Envelopes, KernelPost(e)
        PROVE  OrderInv'
    BY <1>5, <1>8 DEF KernelPost
  <1>9. CASE RejectAction
    <2>1. /\ recvEnv \in Requests /\ recvEnv \notin dispatched
          /\ taken' = <<recvEnv, 1>> /\ queue' = queue
      BY <1>1, <1>9 DEF RejectAction, Dispatches, Requests, FrameInv, InHand
    <2>2. put[recvEnv] = 0
      BY <1>1, <2>1, MaxRepliesAssumption DEF HandlerInv, TypeOK
    <2>3. ASSUME NEW i \in 1..Len(queue)
          PROVE  queue[i][1] # recvEnv
      <3>1. queue[i] \in Replies
        BY <1>1, ElementOfSeq DEF TypeOK
      <3>2. queue[i][2] <= put[queue[i][1]]
        BY <1>1 DEF QueueInv, Live
      <3> QED
        BY <2>2, <3>1, <3>2, MaxRepliesAssumption DEF Replies
    <2> QED
      BY <2>1, <2>3 DEF OrderInv
  <1> QED
    BY <1>2, <1>3, <1>4, <1>6, <1>7, <1>8, <1>9
    DEF Next, LoopStep, LocalStep, SendStep

(* OrderInv is an invariant of the loop.                                   *)
THEOREM OrderInvariance == Spec => []OrderInv
  <1>1. Init => OrderInv
    BY EmptySeq DEF Init, OrderInv
  <1>2. IInv /\ OrderInv /\ [Next]_vars => OrderInv'
    BY OrderStep
  <1> QED
    BY Invariance, <1>1, <1>2, PTL DEF Spec

-----------------------------------------------------------------------------
(* Each step of the loop, as ReplyService sees it.                         *)

LEMMA StepIsStutter ==
  UNCHANGED <<handler, made, sent, dropped>> => UNCHANGED Service!vars
  BY DEF Service!vars, Phase

(* The reply the loop holds is the first of its request that is not settled*)
(* yet.                                                                    *)
LEMMA FirstUnsettled ==
  ASSUME IInv, OrderInv, NEW x \in Replies, x = taken
  PROVE  /\ x[2] <= made[x[1]] /\ sent[x] = 0 /\ x \notin dropped
         /\ handler[x[1]] \notin {"none", "running"}
         /\ \A l \in 1..(x[2] - 1) :
              sent[<<x[1], l>>] > 0 \/ <<x[1], l>> \in dropped
  <1>1. /\ TypeOK /\ QueueInv /\ TakenInv /\ OutInv /\ HandlerInv
        /\ x # None /\ Len(queue) \in Nat
    BY LenProperties, TokensAssumption DEF IInv, TypeOK
  <1>2. Live(x)
    BY <1>1 DEF TakenInv
  <1>3. /\ x[1] \in Requests /\ x[2] \in 1..MaxReplies /\ x[2] \in Nat
        /\ put[x[1]] \in Nat /\ made[x[1]] \in Nat
    BY <1>1, MaxRepliesAssumption DEF Replies, TypeOK
  <1>4. x[2] <= made[x[1]] /\ handler[x[1]] \notin {"none", "running"}
    BY <1>1, <1>2, <1>3 DEF Live, HandlerInv
  <1>5. ASSUME NEW l \in 1..(x[2] - 1)
        PROVE  sent[<<x[1], l>>] > 0 \/ <<x[1], l>> \in dropped
    <2> DEFINE y == <<x[1], l>>
    <2>1. y \in Replies /\ y[1] = x[1] /\ y[2] = l /\ l < x[2] /\ l \in Nat
      BY <1>3, MaxRepliesAssumption DEF Replies
    <2>2. y[2] <= put[y[1]]
      BY <1>2, <1>3, <2>1 DEF Live
    <2>3. y # taken
      BY <1>3, <2>1
    <2>4. ASSUME NEW i \in 1..Len(queue), queue[i] = y
          PROVE  FALSE
      BY <1>1, <1>3, <2>1, <2>4 DEF OrderInv
    <2>5. sent[y] = 1 \/ y \in dropped
      BY <1>1, <2>1, <2>2, <2>3, <2>4 DEF OutInv
    <2> QED
      BY <2>5
  <1> QED
    BY <1>2, <1>4, <1>5 DEF Live

(* Sending it settles it.                                                  *)
LEMMA SendSettles ==
  ASSUME IInv, OrderInv, NEW x \in Replies, x = taken,
         UNCHANGED <<handler, made>>,
         \/ Send(x)
         \/ dropped' = dropped \cup {x} /\ UNCHANGED sent
  PROVE  Service!Next
  <1>1. /\ x[2] <= made[x[1]] /\ sent[x] = 0 /\ x \notin dropped
        /\ handler[x[1]] \notin {"none", "running"}
        /\ \A l \in 1..(x[2] - 1) :
             sent[<<x[1], l>>] > 0 \/ <<x[1], l>> \in dropped
    BY FirstUnsettled
  <1>2. x[1] \in Requests /\ x[2] \in 1..MaxReplies /\ x = <<x[1], x[2]>>
    BY DEF Replies
  <1>3. Service!Outcome(x)
    <2>1. sent' = [sent EXCEPT ![x] = @ + 1] => sent' = [sent EXCEPT ![x] = 1]
      BY <1>1
    <2> QED
      BY <2>1 DEF Send, Service!Outcome
  <1>4. Service!Settle(x[1], x[2])
    <2>1. [r \in Requests |-> Phase(r)][x[1]] = "closed"
      BY <1>1, <1>2 DEF Phase
    <2>2. UNCHANGED [r \in Requests |-> Phase(r)]
      BY DEF Phase
    <2>3. ~Service!Settled(<<x[1], x[2]>>)
      BY <1>1, <1>2 DEF Service!Settled
    <2>4. \A l \in 1..(x[2] - 1) : Service!Settled(<<x[1], l>>)
      BY <1>1 DEF Service!Settled
    <2>5. Service!Outcome(<<x[1], x[2]>>)
      BY <1>2, <1>3
    <2> QED
      BY <1>1, <2>1, <2>2, <2>3, <2>4, <2>5 DEF Service!Settle
  <1> QED
    BY <1>2, <1>4 DEF Service!Next

(* Acceptance opens a request, a refusal closes it with one reply to come, *)
(* and the return of on_action closes it with as many as were returned.    *)
LEMMA RequestSteps ==
  ASSUME IInv
  PROVE  /\ AcceptAction => Service!Next
         /\ RejectAction => Service!Next
         /\ \A r \in Requests : HandlerReturn(r) => Service!Next
  <1>1. TypeOK /\ HandlerInv /\ FrameInv
    BY DEF IInv
  <1>2. ASSUME AcceptAction
        PROVE  Service!Next
    <2>1. recvEnv \in Requests /\ handler[recvEnv] = "none"
      BY <1>1, <1>2 DEF AcceptAction, Dispatches, Requests, FrameInv, InHand, HandlerInv
    <2>2. Service!Open(recvEnv)
      BY <1>1, <1>2, <2>1 DEF AcceptAction, Service!Open, Phase, TypeOK, outVars
    <2> QED
      BY <2>1, <2>2 DEF Service!Next
  <1>3. ASSUME RejectAction
        PROVE  Service!Next
    <2>1. recvEnv \in Requests /\ handler[recvEnv] = "none"
      BY <1>1, <1>3 DEF RejectAction, Dispatches, Requests, FrameInv, InHand, HandlerInv
    <2>2. Service!Refuse(recvEnv)
      BY <1>1, <1>3, <2>1 DEF RejectAction, Service!Refuse, Phase, TypeOK, outVars
    <2> QED
      BY <2>1, <2>2 DEF Service!Next
  <1>4. ASSUME NEW r \in Requests, HandlerReturn(r)
        PROVE  Service!Next
    <2>1. Service!Close(r)
      BY <1>1, <1>4
      DEF HandlerReturn, PutUpTo, Service!Close, Phase, TypeOK, outVars
    <2> QED
      BY <2>1 DEF Service!Next
  <1> QED
    BY <1>2, <1>3, <1>4

(* Every step of the loop is one of ReplyService, or none.                 *)
LEMMA ServiceStep ==
  ASSUME IInv, OrderInv, [Next]_vars
  PROVE  [Service!Next]_Service!vars
  <1>1. TypeOK /\ TakenInv
    BY DEF IInv
  <1>2. CASE WakeOnRecv
    <2>1. CASE taken = None
      BY <1>2, <2>1, StepIsStutter DEF WakeOnRecv, replyVars
    <2>2. CASE taken # None
      <3>1. taken \in Replies /\ dropped' = dropped \cup {taken}
        BY <1>1, <1>2, <2>2 DEF WakeOnRecv, TypeOK
      <3> QED
        BY <1>2, <3>1, SendSettles DEF WakeOnRecv, replyVars
    <2> QED
      BY <2>1, <2>2
  <1>3. CASE CancelRecv
    <2>1. taken \in Replies
      BY <1>1, <1>3 DEF CancelRecv, TakenInv, TypeOK
    <2>2. CASE dropped' = dropped \cup {taken}
      BY <1>3, <2>1, <2>2, SendSettles DEF CancelRecv, replyVars
    <2>3. CASE UNCHANGED dropped
      BY <1>3, <2>3, StepIsStutter DEF CancelRecv, replyVars
    <2> QED
      BY <1>3, <2>2, <2>3 DEF CancelRecv
  <1>4. CASE SendReply
    <2>1. taken \in Replies
      BY <1>1, <1>4 DEF SendReply, TakenInv, TypeOK
    <2> QED
      BY <1>4, <2>1, SendSettles DEF SendReply, replyVars
  <1>5. CASE \/ AcceptEscapes \/ Answer \/ HookReply \/ GetReply \/ TakeQueued
    BY <1>5, StepIsStutter
    DEF AcceptEscapes, Answer, HookReply, RecvUsed, GetReply, TakeQueued,
        TakeHead, replyVars, outVars
  <1>6. CASE AcceptAction \/ RejectAction
    BY <1>6, RequestSteps
  <1>7. CASE \/ OnInit \/ WakeOnReply \/ OnFailure \/ OnPluginShutdown \/ OnPing
             \/ CallHook \/ HookReturns \/ HookRaises \/ SkipEmpty \/ QueueEmpty
             \/ OnShutdown \/ Register
    BY <1>7, StepIsStutter
    DEF OnInit, WakeOnReply, OnFailure, OnPluginShutdown, OnPing, CallHook,
        HookReturns, HookRaises, SkipEmpty, QueueEmpty, OnShutdown, Register,
        Goto, Proceed, replyVars, outVars
  <1>8. CASE RecvStep \/ KernelClose \/ UNCHANGED vars
    BY <1>8, StepIsStutter
    DEF RecvStep, ReadFirst, ReadRest, ReadFails, Resume, ReadEof, ReadMessage,
        RecvTo, KernelClose, vars, replyVars, outVars
  <1>9. ASSUME NEW e \in Envelopes, KernelPost(e)
        PROVE  [Service!Next]_Service!vars
    BY <1>9, StepIsStutter DEF KernelPost, replyVars, outVars
  <1>10. ASSUME NEW r \in Requests, HandlerReturn(r) \/ HandlerPut(r)
         PROVE  [Service!Next]_Service!vars
    BY <1>10, RequestSteps, StepIsStutter DEF HandlerPut, PutUpTo, outVars
  <1> QED
    BY <1>2, <1>3, <1>4, <1>5, <1>6, <1>7, <1>8, <1>9, <1>10
    DEF Next, LoopStep, LocalStep, SendStep

(* The concurrent loop implements the service: each request is dispatched  *)
(* and answered once, and its replies are settled one by one, in order     *)
(* (_run, the four sends of run_concurrent_loop and its drains).           *)
THEOREM LoopImplementsReplyService == Spec => ImplementsReplyService
  <1>1. Init => Service!Init
    BY DEF Init, Service!Init, Phase, Replies, Service!Replies
  <1>2. IInv /\ OrderInv /\ [Next]_vars => [Service!Next]_Service!vars
    BY ServiceStep
  <1> QED
    BY Invariance, OrderInvariance, <1>1, <1>2, PTL
    DEF Spec, ImplementsReplyService, Service!Spec
=============================================================================
