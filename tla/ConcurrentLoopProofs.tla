------------------------ MODULE ConcurrentLoopProofs ------------------------
(***************************************************************************)
(* Theorems about ConcurrentLoop for every set of envelopes, every queue   *)
(* capacity and every kind of connection, and their proofs.                *)
(***************************************************************************)
EXTENDS ConcurrentLoop, SequenceTheorems, TLAPS

(* The two queue operations of the model, on any sequence.                 *)
LEMMA HeadTailFacts ==
  ASSUME NEW S, NEW q \in Seq(S), q # <<>>
  PROVE  /\ Head(q) = q[1] /\ Head(q) \in S
         /\ Len(q) \in Nat /\ Len(q) >= 1
         /\ Tail(q) \in Seq(S) /\ Len(Tail(q)) = Len(q) - 1
         /\ \A i \in 1..Len(Tail(q)) : Tail(q)[i] = q[i + 1]
  BY HeadTailProperties, EmptySeq

(* Appending a batch: the queue keeps what it had, the batch follows it.   *)
LEMMA ConcatFacts ==
  ASSUME NEW S, NEW q \in Seq(S), NEW s \in Seq(S)
  PROVE  /\ q \o s \in Seq(S)
         /\ Len(q) \in Nat /\ Len(s) \in Nat
         /\ Len(q \o s) = Len(q) + Len(s)
         /\ \A i \in 1..Len(q) : (q \o s)[i] = q[i]
         /\ \A i \in (Len(q) + 1)..(Len(q) + Len(s)) :
              (q \o s)[i] = s[i - Len(q)]
  <1>1. Len(q) \in Nat /\ Len(s) \in Nat
    BY LenProperties
  <1>2. \A i \in 1..Len(q) + Len(s) :
          (q \o s)[i] = IF i <= Len(q) THEN q[i] ELSE s[i - Len(q)]
    BY ConcatProperties
  <1>3. \A i \in 1..Len(q) : (q \o s)[i] = q[i]
    BY <1>1, <1>2
  <1>4. \A i \in (Len(q) + 1)..(Len(q) + Len(s)) :
          (q \o s)[i] = s[i - Len(q)]
    BY <1>1, <1>2
  <1> QED
    BY <1>1, <1>3, <1>4, ConcatProperties

-----------------------------------------------------------------------------
(* The inductive invariant.                                                *)

(* Reply x was put, and has not left the loop.                             *)
Live(x) == x[2] <= put[x[1]] /\ sent[x] = 0 /\ x \notin dropped

QueueInv ==
  /\ Len(queue) <= Capacity
  /\ \A i, j \in 1..Len(queue) : queue[i] = queue[j] => i = j
  /\ \A i \in 1..Len(queue) : Live(queue[i]) /\ queue[i] # taken

TakenInv ==
  /\ taken # None =>
       /\ pc \in {"wait", "cancelRecv", "reply", "drain", "flush"}
       /\ Live(taken)
  /\ pc \in {"cancelRecv", "reply"} => taken # None

OutInv ==
  \A x \in Replies :
    /\ sent[x] <= 1
    /\ sent[x] = 1 => x \notin dropped
    /\ x[2] > put[x[1]] => sent[x] = 0 /\ x \notin dropped
    /\ x[2] <= put[x[1]] =>
         \/ sent[x] = 1 \/ x \in dropped \/ x = taken
         \/ \E i \in 1..Len(queue) : queue[i] = x

HandlerInv ==
  \A r \in Requests :
    /\ put[r] <= made[r]
    /\ handler[r] \in {"none", "running"} => made[r] = 0
    /\ handler[r] # "none" => r \in dispatched

(* The loop awaits a hook or a send, with a dispatched envelope in hand.   *)
InHand == pc \in {"hook", "answer", "hookReply"}

(* A frame is in one place until it is dispatched.                         *)
FrameInv ==
  /\ \A i, j \in 1..Len(inbound) : inbound[i] = inbound[j] => i = j
  /\ \A i \in 1..Len(inbound) : /\ inbound[i] \in posted \ dispatched
                                 /\ inbound[i] # recvEnv
  /\ dispatched \subseteq posted
  /\ recvEnv \in Envelopes =>
       /\ recvEnv \in posted
       /\ recvEnv \in dispatched <=> InHand
  /\ InHand => recvEnv \in Envelopes

IInv ==
  TypeOK /\ QueueInv /\ TakenInv /\ OutInv /\ HandlerInv /\ FrameInv

-----------------------------------------------------------------------------
(* Type correctness of one step.                                           *)

(* A batch is what the handler still has to put, or what fits, whichever   *)
(* is less.                                                                *)
LEMMA BatchBound ==
  ASSUME TypeOK, QueueInv, NEW r \in Requests, NEW n \in 0..MaxReplies,
         put[r] <= n
  PROVE  /\ Batch(r, n) \in Nat /\ put[r] \in Nat
         /\ put[r] + Batch(r, n) <= n
         /\ Len(queue) + Batch(r, n) <= Capacity
  <1>1. Len(queue) \in Nat /\ Len(queue) <= Capacity
    BY LenProperties DEF TypeOK, QueueInv
  <1>2. put[r] \in 0..MaxReplies
    BY DEF TypeOK
  <1> QED
    BY <1>1, <1>2, MaxRepliesAssumption, CapacityAssumption DEF Batch

(* A handler's step appends its next replies to the queue.                 *)
LEMMA PutFacts ==
  ASSUME TypeOK, QueueInv, NEW r \in Requests, NEW n \in 0..MaxReplies,
         put[r] <= n, PutUpTo(r, n)
  PROVE  /\ queue' \in Seq(Replies)
         /\ put' \in [Requests -> 0..MaxReplies]
         /\ Len(queue) \in Nat /\ Batch(r, n) \in Nat /\ put[r] \in Nat
         /\ Len(queue') = Len(queue) + Batch(r, n) /\ Len(queue') <= Capacity
         /\ put' = [put EXCEPT ![r] = put[r] + Batch(r, n)]
         /\ put[r] + Batch(r, n) <= n
         /\ \A i \in 1..Len(queue) : queue'[i] = queue[i]
         /\ \A i \in (Len(queue) + 1)..Len(queue') :
              queue'[i] = <<r, put[r] + (i - Len(queue))>>
  <1> DEFINE c == Batch(r, n)
             p == put[r]
  <1>1. /\ c \in Nat /\ p \in Nat /\ p + c <= n /\ n <= MaxReplies
        /\ Len(queue) + c <= Capacity
    BY BatchBound, MaxRepliesAssumption
  <1>2. PICK s : s = [j \in 1..c |-> <<r, p + j>>]
    OBVIOUS
  <1>3. queue' = queue \o s /\ put' = [put EXCEPT ![r] = p + c]
    BY <1>2 DEF PutUpTo
  <1>4. queue \in Seq(Replies) /\ put \in [Requests -> 0..MaxReplies]
    BY DEF TypeOK
  <1> HIDE DEF c, p
  <1>5. s \in [1..c -> Replies] /\ \A j \in 1..c : s[j] = <<r, p + j>>
    <2>1. \A j \in 1..c : <<r, p + j>> \in Replies
      BY <1>1, MaxRepliesAssumption DEF Replies
    <2> QED
      BY <1>2, <2>1
  <1>6. s \in Seq(Replies) /\ Len(s) = c
    <2>1. s \in Seq(Replies)
      BY <1>1, <1>5, SeqDef
    <2> QED
      BY <1>1, <1>5, <2>1, LenProperties
  <1>7. /\ queue' \in Seq(Replies)
        /\ Len(queue) \in Nat /\ Len(queue') = Len(queue) + c
        /\ \A i \in 1..Len(queue) : queue'[i] = queue[i]
        /\ \A i \in (Len(queue) + 1)..Len(queue') :
             queue'[i] = s[i - Len(queue)]
    <2> DEFINE b == queue \o s
    <2>1. /\ b \in Seq(Replies)
          /\ Len(queue) \in Nat /\ Len(b) = Len(queue) + Len(s)
          /\ \A i \in 1..Len(queue) : b[i] = queue[i]
          /\ \A i \in (Len(queue) + 1)..(Len(queue) + Len(s)) :
               b[i] = s[i - Len(queue)]
      BY <1>4, <1>6, ConcatFacts
    <2>2. queue' = b
      BY <1>3
    <2> HIDE DEF b
    <2> QED
      BY <1>6, <2>1, <2>2
  <1>8. \A i \in (Len(queue) + 1)..Len(queue') :
          queue'[i] = <<r, p + (i - Len(queue))>>
    <2>1. \A i \in (Len(queue) + 1)..Len(queue') : i - Len(queue) \in 1..c
      BY <1>1, <1>7
    <2> QED
      BY <1>5, <1>7, <2>1
  <1>9. put' \in [Requests -> 0..MaxReplies]
    BY <1>1, <1>3, <1>4, MaxRepliesAssumption
  <1> QED
    BY <1>1, <1>3, <1>7, <1>8, <1>9 DEF c, p

(* Send keeps the types of the two sets of settled replies.                *)
LEMMA SendType ==
  ASSUME TypeOK, NEW x \in Replies, Send(x)
  PROVE  sent' \in [Replies -> Nat] /\ dropped' \subseteq Replies
  BY DEF TypeOK, Send

(* Every step keeps every variable's type.                                 *)
LEMMA TypeStep ==
  ASSUME IInv, [Next]_vars
  PROVE  TypeOK'
  <1> USE DEF IInv, TypeOK
  <1>1. CASE Register
    BY <1>1 DEF Register, Goto, kernelVars, recvVars, replyVars, outVars, histVars
  <1>2. CASE OnInit
    BY <1>2 DEF OnInit, Goto, kernelVars, recvVars, replyVars, outVars, histVars
  <1>3. CASE OnShutdown
    BY <1>3 DEF OnShutdown, Goto, kernelVars, recvVars, replyVars, outVars, histVars
  <1>4. CASE WakeOnRecv
    BY <1>4 DEF WakeOnRecv, kernelVars, recvVars, replyVars, outVars, histVars
  <1>5. CASE WakeOnReply
    BY <1>5 DEF WakeOnReply, Goto, kernelVars, recvVars, replyVars, outVars, histVars
  <1>6. CASE CancelRecv
    <2>1. taken \in Replies
      BY <1>6 DEF CancelRecv, TakenInv
    <2>2. aligned' \in BOOLEAN /\ cut' \subseteq Envelopes
      BY <1>6 DEF CancelRecv
    <2>3. /\ taken' \in Replies \cup {None} /\ dropped' \subseteq Replies
          /\ pc' \in {"crashed", "reply"}
      BY <1>6, <2>1 DEF CancelRecv
    <2> QED
      BY <1>6, <2>2, <2>3 DEF CancelRecv, kernelVars, recvVars, replyVars, outVars, histVars
  <1>7. CASE SendReply
    <2>1. taken \in Replies
      BY <1>7 DEF SendReply, TakenInv
    <2>2. sent' \in [Replies -> Nat] /\ dropped' \subseteq Replies
      BY <1>7, <2>1, SendType DEF SendReply
    <2> QED
      BY <1>7, <2>2 DEF SendReply, kernelVars, recvVars, replyVars, outVars, histVars
  <1>8. CASE OnFailure
    BY <1>8 DEF OnFailure, RecvUsed, kernelVars, recvVars, replyVars, outVars, histVars
  <1>9. CASE OnPluginShutdown
    BY <1>9 DEF OnPluginShutdown, Dispatches, RecvUsed, kernelVars, recvVars, replyVars, outVars, histVars
  <1>10. CASE OnPing
    BY <1>10 DEF OnPing, Dispatches, Proceed, kernelVars, recvVars, replyVars, outVars, histVars
  <1>11. CASE AcceptAction
    BY <1>11 DEF AcceptAction, Dispatches, RecvUsed, Requests, kernelVars, recvVars, replyVars, outVars, histVars
  <1>12. CASE RejectAction
    <2>1. recvEnv \in Requests /\ <<recvEnv, 1>> \in Replies
      BY <1>12, MaxRepliesAssumption DEF RejectAction, Dispatches, Requests, Replies
    <2>2. /\ handler' \in [Requests -> {"none", "rejected", "running", "returned"}]
          /\ made' \in [Requests -> 0..MaxReplies]
          /\ put' \in [Requests -> 0..MaxReplies]
      BY <1>12, <2>1, MaxRepliesAssumption DEF RejectAction
    <2> QED
      BY <1>12, <2>1, <2>2 DEF RejectAction, Dispatches, kernelVars, recvVars, replyVars, outVars, histVars
  <1>13. CASE CallHook
    BY <1>13 DEF CallHook, Dispatches, Proceed, kernelVars, recvVars, replyVars, outVars, histVars
  <1>14. CASE HookReturns
    BY <1>14 DEF HookReturns, Proceed, kernelVars, recvVars, replyVars, outVars, histVars
  <1>15. CASE HookRaises
    BY <1>15 DEF HookRaises, RecvUsed, kernelVars, recvVars, replyVars, outVars, histVars
  <1>16. CASE SkipEmpty
    BY <1>16 DEF SkipEmpty, Dispatches, RecvUsed, kernelVars, recvVars, replyVars, outVars, histVars
  <1>17. CASE GetReply \/ TakeQueued
    <2>1. TakeHead
      BY <1>17 DEF GetReply, TakeQueued
    <2>2. taken' \in Replies /\ queue' \in Seq(Replies)
      BY <2>1, HeadTailFacts DEF TakeHead
    <2> QED
      BY <2>1, <2>2 DEF TakeHead, kernelVars, recvVars, replyVars, outVars, histVars
  <1>18. CASE QueueEmpty
    BY <1>18 DEF QueueEmpty, Goto, kernelVars, recvVars, replyVars, outVars, histVars
  <1>19. CASE ReadFirst
    <2>1. inbound # <<>> => /\ Head(inbound) \in Envelopes
                            /\ Tail(inbound) \in Seq(Envelopes)
      BY HeadTailFacts
    <2>2. inbound' \in Seq(Envelopes) /\ recvEnv' \in Envelopes \cup {Failure, None}
      BY <1>19, <2>1 DEF ReadFirst, RecvTo
    <2> QED
      BY <1>19, <2>2 DEF ReadFirst, RecvTo, kernelVars, recvVars, replyVars, outVars, histVars
  <1>20. CASE ReadRest
    BY <1>20 DEF ReadRest, RecvTo, BodyDone, Received, kernelVars, recvVars, replyVars, outVars, histVars
  <1>21. CASE ReadFails
    BY <1>21 DEF ReadFails, RecvTo, BodyDone, kernelVars, recvVars, replyVars, outVars, histVars
  <1>22. CASE Resume
    BY <1>22 DEF Resume, RecvTo, kernelVars, recvVars, replyVars, outVars, histVars
  <1>23. CASE ReadEof
    BY <1>23 DEF ReadEof, RecvTo, kernelVars, recvVars, replyVars, outVars, histVars
  <1>24. CASE ReadMessage
    BY <1>24 DEF ReadMessage, RecvTo, Received, kernelVars, recvVars, replyVars, outVars, histVars
  <1>25. CASE AcceptEscapes \/ HookReply
    BY <1>25 DEF AcceptEscapes, HookReply, Dispatches, RecvUsed, kernelVars, recvVars, replyVars, outVars, histVars
  <1>26. ASSUME NEW r \in Requests, HandlerReturn(r)
        PROVE  TypeOK'
    <2>1. PICK n \in 0..MaxReplies :
            made' = [made EXCEPT ![r] = n] /\ PutUpTo(r, n)
      BY <1>26 DEF HandlerReturn
    <2>2. put[r] <= n
      BY <1>26, MaxRepliesAssumption DEF HandlerReturn, HandlerInv
    <2>3. queue' \in Seq(Replies) /\ put' \in [Requests -> 0..MaxReplies]
      BY <2>1, <2>2, PutFacts
    <2>4. /\ made' \in [Requests -> 0..MaxReplies]
          /\ handler' \in [Requests -> {"none", "rejected", "running", "returned"}]
      BY <1>26, <2>1 DEF HandlerReturn
    <2> QED
      BY <1>26, <2>1, <2>3, <2>4 DEF PutUpTo, kernelVars, recvVars, replyVars, outVars, histVars
  <1>27. ASSUME NEW r \in Requests, HandlerPut(r)
        PROVE  TypeOK'
    <2>1. /\ made[r] \in 0..MaxReplies /\ put[r] <= made[r]
          /\ PutUpTo(r, made[r])
      BY <1>27, MaxRepliesAssumption DEF HandlerPut, HandlerInv
    <2>2. queue' \in Seq(Replies) /\ put' \in [Requests -> 0..MaxReplies]
      BY <2>1, PutFacts
    <2> QED
      BY <1>27, <2>1, <2>2 DEF HandlerPut, PutUpTo, kernelVars, recvVars, replyVars, outVars, histVars
  <1>28. ASSUME NEW e \in Envelopes, KernelPost(e)
        PROVE  TypeOK'
    BY <1>28 DEF KernelPost, kernelVars, recvVars, replyVars, outVars, histVars
  <1>29. CASE KernelClose
    BY <1>29 DEF KernelClose, kernelVars, recvVars, replyVars, outVars, histVars
  <1>30. CASE UNCHANGED vars
    BY <1>30 DEF vars, kernelVars, recvVars, replyVars, outVars, histVars
  <1>31. CASE Answer
    <2>1. confirmed' \subseteq Envelopes
      BY <1>31 DEF Answer, FrameInv, InHand
    <2> QED
      BY <1>31, <2>1 DEF Answer, RecvUsed, kernelVars, recvVars, replyVars, outVars, histVars
  <1> QED
    BY <1>1, <1>2, <1>3, <1>4, <1>5, <1>6, <1>7, <1>8, <1>9, <1>10, <1>11, <1>12, <1>13, <1>14, <1>15, <1>16, <1>17, <1>18, <1>19, <1>20, <1>21, <1>22, <1>23, <1>24, <1>25, <1>26, <1>27, <1>28, <1>29, <1>30, <1>31
    DEF Next, LoopStep, LocalStep, SendStep, RecvStep

-----------------------------------------------------------------------------
(* The handlers: what on_action returned bounds what was put.              *)

(* Every step keeps what is known of the handlers' counters.               *)
LEMMA HandlerStep ==
  ASSUME IInv, [Next]_vars
  PROVE  HandlerInv'
  <1>1. TypeOK /\ QueueInv /\ HandlerInv
    BY DEF IInv
  <1>2. CASE AcceptAction
    <2>1. recvEnv \in Requests /\ recvEnv \notin dispatched
      BY <1>2 DEF AcceptAction, Dispatches, Requests, IInv, FrameInv, InHand
    <2>2. made[recvEnv] = 0
      BY <1>1, <2>1 DEF HandlerInv, TypeOK
    <2> QED
      BY <1>1, <1>2, <2>1, <2>2 DEF AcceptAction, Dispatches, HandlerInv, TypeOK
  <1>3. CASE RejectAction
    BY <1>1, <1>3, MaxRepliesAssumption
    DEF RejectAction, Dispatches, HandlerInv, TypeOK
  <1>4. ASSUME NEW r \in Requests, HandlerReturn(r)
        PROVE  HandlerInv'
    <2>1. PICK n \in 0..MaxReplies :
            made' = [made EXCEPT ![r] = n] /\ PutUpTo(r, n)
      BY <1>4 DEF HandlerReturn
    <2>2. made[r] = 0 /\ put[r] <= n /\ r \in dispatched
      BY <1>1, <1>4, MaxRepliesAssumption DEF HandlerReturn, HandlerInv, TypeOK
    <2>3. /\ Batch(r, n) \in Nat /\ put[r] + Batch(r, n) <= n
          /\ put' = [put EXCEPT ![r] = put[r] + Batch(r, n)]
      BY <1>1, <2>1, <2>2, PutFacts
    <2> QED
      BY <1>1, <1>4, <2>1, <2>2, <2>3, MaxRepliesAssumption
      DEF HandlerReturn, PutUpTo, HandlerInv, TypeOK, histVars
  <1>5. ASSUME NEW r \in Requests, HandlerPut(r)
        PROVE  HandlerInv'
    <2>1. made[r] \in 0..MaxReplies /\ put[r] <= made[r]
      BY <1>1, <1>5, MaxRepliesAssumption DEF HandlerPut, HandlerInv, TypeOK
    <2>2. /\ Batch(r, made[r]) \in Nat /\ put[r] + Batch(r, made[r]) <= made[r]
          /\ put' = [put EXCEPT ![r] = put[r] + Batch(r, made[r])]
      BY <1>1, <1>5, <2>1, PutFacts DEF HandlerPut
    <2> QED
      BY <1>1, <1>5, <2>1, <2>2, MaxRepliesAssumption
      DEF HandlerPut, PutUpTo, HandlerInv, TypeOK, histVars
  <1>6. CASE UNCHANGED replyVars /\ dispatched \subseteq dispatched'
    BY <1>1, <1>6 DEF HandlerInv, replyVars
  <1> QED
    BY <1>2, <1>3, <1>4, <1>5, <1>6
    DEF Next, vars, LoopStep, LocalStep, SendStep, RecvStep, Goto, RecvTo,
        RecvUsed, Dispatches, Proceed, TakeHead, Register, OnInit, OnShutdown,
        WakeOnRecv, WakeOnReply, CancelRecv, SendReply, OnFailure,
        OnPluginShutdown, OnPing, AcceptEscapes, CallHook, HookReturns,
        HookRaises, Answer, HookReply, SkipEmpty, TakeQueued, QueueEmpty,
        ReadFirst, ReadRest, ReadFails, Resume, ReadEof, ReadMessage, GetReply,
        KernelPost, KernelClose, histVars

-----------------------------------------------------------------------------
(* The frames: each is read, and dispatched, at most once.                 *)

(* Every step keeps what is known of the frame that is being read.         *)
LEMMA FrameStep ==
  ASSUME IInv, [Next]_vars
  PROVE  FrameInv'
  <1>1. TypeOK /\ FrameInv
    BY DEF IInv
  <1>2. /\ Failure \notin Envelopes /\ None \notin Envelopes
        /\ \A i \in 1..Len(inbound) : inbound[i] # Failure /\ inbound[i] # None
    BY <1>1, TokensAssumption DEF FrameInv, TypeOK
  <1>3. inbound # <<>> =>
          /\ Head(inbound) = inbound[1] /\ Head(inbound) \in Envelopes
          /\ Len(inbound) \in Nat /\ Len(inbound) >= 1
          /\ Len(Tail(inbound)) = Len(inbound) - 1
          /\ \A i \in 1..Len(Tail(inbound)) : Tail(inbound)[i] = inbound[i + 1]
    BY <1>1, HeadTailFacts DEF TypeOK
  <1>4. ASSUME NEW e \in Envelopes, KernelPost(e)
        PROVE  FrameInv'
    <2>1. /\ Len(inbound) \in Nat /\ Len(inbound') = Len(inbound) + 1
          /\ \A i \in 1..Len(inbound) : inbound'[i] = inbound[i]
          /\ inbound'[Len(inbound) + 1] = e
      BY <1>1, <1>4, AppendProperties, LenProperties DEF TypeOK, KernelPost
    <2> QED
      BY <1>1, <1>4, <2>1 DEF KernelPost, FrameInv, InHand, TypeOK, recvVars, histVars
  <1>5. CASE ReadFirst
    <2>1. CASE inbound' = inbound
      BY <1>1, <1>2, <1>5, <2>1
      DEF ReadFirst, RecvTo, FrameInv, InHand, kernelVars, histVars
    <2>2. CASE inbound # <<>> /\ inbound' = Tail(inbound) /\ recvEnv' = Head(inbound)
      <3>1. \A i \in 1..Len(inbound') :
              i + 1 \in 2..Len(inbound) /\ inbound'[i] = inbound[i + 1]
        BY <1>3, <2>2
      <3>2. /\ recvEnv' = inbound[1] /\ 1 \in 1..Len(inbound)
            /\ UNCHANGED <<posted, dispatched>> /\ pc' = "wait"
        BY <1>3, <1>5, <2>2 DEF ReadFirst, RecvTo, kernelVars, histVars
      <3> QED
        BY <1>1, <1>3, <2>2, <3>1, <3>2 DEF FrameInv, InHand
    <2> QED
      BY <1>5, <2>1, <2>2 DEF ReadFirst, RecvTo
  <1>6. CASE ReadMessage
    <2>1. \A i \in 1..Len(inbound') :
            i + 1 \in 2..Len(inbound) /\ inbound'[i] = inbound[i + 1]
      BY <1>3, <1>6 DEF ReadMessage
    <2>2. /\ recvEnv' = inbound[1] \/ recvEnv' = Failure
          /\ 1 \in 1..Len(inbound)
          /\ UNCHANGED <<posted, dispatched>> /\ pc' = "wait"
      BY <1>3, <1>6 DEF ReadMessage, Received, RecvTo, kernelVars, histVars
    <2> QED
      BY <1>1, <1>2, <1>3, <2>1, <2>2 DEF FrameInv, InHand
  <1>7. CASE ReadRest \/ ReadFails \/ Resume \/ ReadEof
    <2>1. /\ recvEnv' = recvEnv \/ recvEnv' = Failure
          /\ pc' = pc /\ ~InHand
          /\ UNCHANGED <<posted, inbound, dispatched>>
      BY <1>7
      DEF ReadRest, ReadFails, Resume, ReadEof, BodyMayRun, Received, RecvTo,
          InHand, kernelVars, histVars
    <2> QED
      BY <1>1, <1>2, <2>1 DEF FrameInv, InHand
  <1>8. CASE Register \/ OnInit \/ OnShutdown \/ WakeOnReply \/ QueueEmpty
    BY <1>1, <1>8
    DEF Register, OnInit, OnShutdown, WakeOnReply, QueueEmpty, Goto, FrameInv,
        InHand, kernelVars, recvVars, histVars
  <1>9. CASE \/ OnFailure \/ OnPluginShutdown \/ AcceptAction \/ RejectAction
             \/ AcceptEscapes \/ HookRaises \/ HookReply \/ SkipEmpty
    <2>1. /\ recvEnv' = None /\ ~InHand'
          /\ UNCHANGED <<posted, inbound>>
          /\ \/ dispatched' = dispatched
             \/ recvEnv \in Envelopes /\ dispatched' = dispatched \cup {recvEnv}
      BY <1>9
      DEF OnFailure, OnPluginShutdown, AcceptAction, RejectAction, AcceptEscapes,
          HookRaises, HookReply, SkipEmpty, RecvUsed, Dispatches, InHand,
          kernelVars, histVars
    <2> QED
      BY <1>1, <1>2, <2>1 DEF FrameInv, InHand
  <1>10. CASE OnPing \/ CallHook
    <2>1. /\ recvEnv \in Envelopes /\ InHand' /\ ~InHand
          /\ dispatched' = dispatched \cup {recvEnv}
          /\ UNCHANGED <<posted, inbound, recvEnv>>
      BY <1>10 DEF OnPing, CallHook, Dispatches, Proceed, InHand, kernelVars, recvVars
    <2> QED
      BY <1>1, <2>1 DEF FrameInv
  <1>11. CASE \/ WakeOnRecv \/ CancelRecv \/ SendReply \/ TakeQueued \/ GetReply
    <2>1. /\ recvEnv' = recvEnv \/ recvEnv' = None
          /\ ~InHand /\ ~InHand'
          /\ UNCHANGED <<posted, inbound, dispatched>>
      BY <1>11
      DEF WakeOnRecv, CancelRecv, SendReply, TakeQueued, GetReply, TakeHead,
          InHand, kernelVars, recvVars, histVars
    <2> QED
      BY <1>1, <1>2, <2>1 DEF FrameInv
  <1>12. CASE UNCHANGED vars \/ KernelClose
    BY <1>1, <1>12
    DEF vars, KernelClose, FrameInv, InHand, kernelVars, recvVars, histVars
  <1>13. ASSUME NEW r \in Requests, HandlerReturn(r) \/ HandlerPut(r)
         PROVE  FrameInv'
    BY <1>1, <1>13
    DEF HandlerReturn, HandlerPut, PutUpTo, FrameInv, InHand, kernelVars,
        recvVars, histVars
  <1>14. CASE HookReturns \/ Answer
    <2>1. /\ InHand /\ UNCHANGED <<posted, inbound, dispatched>>
          /\ \/ InHand' /\ recvEnv' = recvEnv
             \/ ~InHand' /\ recvEnv' = None
      BY <1>14
      DEF HookReturns, Answer, Proceed, RecvUsed, InHand, kernelVars, recvVars
    <2> QED
      BY <1>1, <1>2, <2>1 DEF FrameInv
  <1> QED
    BY <1>4, <1>5, <1>6, <1>7, <1>8, <1>9, <1>10, <1>11, <1>12, <1>13, <1>14
    DEF Next, LoopStep, LocalStep, SendStep, RecvStep

-----------------------------------------------------------------------------
(* The replies: where each of them is.                                     *)

ReplyInv == QueueInv /\ TakenInv /\ OutInv

(* Send settles a live reply that is no longer held anywhere, and only it. *)
LEMMA SendFacts ==
  ASSUME TypeOK, NEW x \in Replies, sent[x] = 0, x \notin dropped, Send(x)
  PROVE  /\ \A y \in Replies \ {x} :
             sent'[y] = sent[y] /\ (y \in dropped' <=> y \in dropped)
         /\ \/ sent'[x] = 1 /\ x \notin dropped'
            \/ sent'[x] = 0 /\ x \in dropped'
  BY DEF TypeOK, Send

(* A handler's step keeps the places of the replies.                       *)
LEMMA PutReplies ==
  ASSUME IInv, NEW r \in Requests, NEW n \in 0..MaxReplies, put[r] <= n,
         PutUpTo(r, n)
  PROVE  ReplyInv'
  <1>1. TypeOK /\ QueueInv /\ TakenInv /\ OutInv
    BY DEF IInv
  <1> DEFINE c == Batch(r, n)
  <1>2. /\ queue' \in Seq(Replies) /\ put' \in [Requests -> 0..MaxReplies]
        /\ Len(queue) \in Nat /\ c \in Nat /\ put[r] \in Nat
        /\ Len(queue') = Len(queue) + c /\ Len(queue') <= Capacity
        /\ put' = [put EXCEPT ![r] = put[r] + c] /\ put[r] + c <= n
        /\ \A i \in 1..Len(queue) : queue'[i] = queue[i]
        /\ \A i \in (Len(queue) + 1)..Len(queue') :
             queue'[i] = <<r, put[r] + (i - Len(queue))>>
    BY <1>1, PutFacts
  <1>3. UNCHANGED <<taken, sent, dropped, pc>>
    BY DEF PutUpTo, outVars
  <1> HIDE DEF c
  <1>4. \A x \in Replies : /\ x[1] \in Requests /\ x[2] \in 1..MaxReplies
                           /\ x = <<x[1], x[2]>>
                           /\ put[x[1]] \in Nat /\ put'[x[1]] \in Nat
                           /\ put[x[1]] <= put'[x[1]]
    BY <1>1, <1>2, MaxRepliesAssumption DEF Replies, TypeOK
  <1>5. \A i \in (Len(queue) + 1)..Len(queue') :
          /\ queue'[i] \in Replies
          /\ queue'[i][1] = r /\ queue'[i][2] = put[r] + (i - Len(queue))
          /\ queue'[i][2] > put[r] /\ queue'[i][2] <= put'[r]
    <2> SUFFICES ASSUME NEW i \in (Len(queue) + 1)..Len(queue')
                 PROVE  /\ queue'[i] \in Replies
                        /\ queue'[i][1] = r
                        /\ queue'[i][2] = put[r] + (i - Len(queue))
                        /\ queue'[i][2] > put[r] /\ queue'[i][2] <= put'[r]
      OBVIOUS
    <2>1. i \in 1..Len(queue') /\ i - Len(queue) \in 1..c
      BY <1>2
    <2>2. queue'[i] \in Replies
      BY <1>2, <2>1, ElementOfSeq
    <2>3. put'[r] = put[r] + c
      BY <1>1, <1>2 DEF TypeOK
    <2> QED
      BY <1>2, <2>1, <2>2, <2>3
  <1>6. \A i \in 1..Len(queue) : /\ queue[i] \in Replies
                                /\ queue[i][2] <= put[queue[i][1]]
    BY <1>1, ElementOfSeq DEF TypeOK, QueueInv, Live
  <1>7. QueueInv'
    <2>1. \A i, j \in 1..Len(queue') : queue'[i] = queue'[j] => i = j
      <3> SUFFICES ASSUME NEW i \in 1..Len(queue'), NEW j \in 1..Len(queue'),
                          queue'[i] = queue'[j]
                   PROVE  i = j
        OBVIOUS
      <3>1. CASE i <= Len(queue) /\ j <= Len(queue)
        BY <1>1, <1>2, <3>1 DEF QueueInv
      <3>2. CASE i > Len(queue) /\ j > Len(queue)
        <4>1. /\ i \in (Len(queue) + 1)..Len(queue')
              /\ j \in (Len(queue) + 1)..Len(queue')
          BY <1>2, <3>2
        <4>2. put[r] + (i - Len(queue)) = put[r] + (j - Len(queue))
          BY <1>5, <4>1
        <4> QED
          BY <1>2, <4>1, <4>2
      <3>3. CASE i <= Len(queue) /\ j > Len(queue)
        <4>1. i \in 1..Len(queue) /\ j \in (Len(queue) + 1)..Len(queue')
          BY <1>2, <3>3
        <4>2. queue[i][1] = r /\ queue[i][2] > put[r] /\ queue[i][2] <= put[r]
          BY <1>2, <1>5, <1>6, <4>1
        <4>3. queue[i][2] \in Nat
          BY <1>4, <1>6, <4>1, MaxRepliesAssumption
        <4> QED
          BY <1>2, <4>2, <4>3
      <3>4. CASE i > Len(queue) /\ j <= Len(queue)
        <4>1. j \in 1..Len(queue) /\ i \in (Len(queue) + 1)..Len(queue')
          BY <1>2, <3>4
        <4>2. queue[j][1] = r /\ queue[j][2] > put[r] /\ queue[j][2] <= put[r]
          BY <1>2, <1>5, <1>6, <4>1
        <4>3. queue[j][2] \in Nat
          BY <1>4, <1>6, <4>1, MaxRepliesAssumption
        <4> QED
          BY <1>2, <4>2, <4>3
      <3> QED
        BY <1>2, <3>1, <3>2, <3>3, <3>4
    <2>2. ASSUME NEW i \in 1..Len(queue')
          PROVE  (Live(queue[i]) /\ queue[i] # taken)'
      <3>1. CASE i <= Len(queue)
        <4>1. i \in 1..Len(queue) /\ queue'[i] = queue[i] /\ queue[i] \in Replies
          BY <1>2, <1>6, <3>1
        <4>2. Live(queue[i]) /\ queue[i] # taken
          BY <1>1, <4>1 DEF QueueInv
        <4>3. queue[i][2] <= put'[queue[i][1]]
          BY <1>4, <4>1, <4>2, MaxRepliesAssumption DEF Live
        <4> QED
          BY <1>3, <4>1, <4>2, <4>3 DEF Live
      <3>2. CASE i > Len(queue)
        <4>1. /\ queue'[i] \in Replies /\ queue'[i][1] = r
              /\ queue'[i][2] > put[r] /\ queue'[i][2] <= put'[r]
          BY <1>2, <1>5, <3>2
        <4>2. sent[queue'[i]] = 0 /\ queue'[i] \notin dropped
          BY <1>1, <4>1 DEF OutInv
        <4>3. queue'[i] # taken
          BY <1>1, <1>2, <1>4, <4>1, TokensAssumption DEF TakenInv, Live
        <4> QED
          BY <1>3, <4>1, <4>2, <4>3 DEF Live
      <3> QED
        BY <1>2, <3>1, <3>2
    <2> QED
      BY <1>2, <2>1, <2>2 DEF QueueInv
  <1>8. TakenInv'
    <2>1. taken # None => taken \in Replies
      BY <1>1 DEF TypeOK
    <2> QED
      BY <1>1, <1>3, <1>4, <2>1 DEF TakenInv, Live
  <1>9. OutInv'
    <2> SUFFICES ASSUME NEW x \in Replies
                 PROVE  /\ sent[x] <= 1
                        /\ sent[x] = 1 => x \notin dropped
                        /\ x[2] > put'[x[1]] => sent[x] = 0 /\ x \notin dropped
                        /\ x[2] <= put'[x[1]] =>
                             \/ sent[x] = 1 \/ x \in dropped \/ x = taken
                             \/ \E i \in 1..Len(queue') : queue'[i] = x
      BY <1>3 DEF OutInv
    <2>1. CASE x[2] <= put[x[1]]
      <3>1. (\E i \in 1..Len(queue) : queue[i] = x) =>
              \E i \in 1..Len(queue') : queue'[i] = x
        BY <1>2
      <3> QED
        BY <1>1, <1>4, <2>1, <3>1 DEF OutInv
    <2>2. CASE x[2] > put[x[1]] /\ x[2] <= put'[x[1]]
      <3>1. x[1] = r /\ x[2] <= put[r] + c
        BY <1>1, <1>2, <1>4, <2>2 DEF TypeOK
      <3> DEFINE i == Len(queue) + (x[2] - put[r])
      <3>2. i \in (Len(queue) + 1)..Len(queue') /\ i \in 1..Len(queue')
        <4>1. x[2] \in Nat /\ x[2] > put[r]
          BY <1>4, <2>2, <3>1, MaxRepliesAssumption
        <4> QED
          BY <1>2, <3>1, <4>1
      <3>3. queue'[i] = <<r, put[r] + (i - Len(queue))>>
        BY <1>2, <3>2
      <3>4. put[r] + (i - Len(queue)) = x[2]
        BY <1>2, <1>4
      <3>5. queue'[i] = x
        BY <1>4, <3>1, <3>3, <3>4
      <3> QED
        BY <1>1, <1>4, <2>2, <3>2, <3>5 DEF OutInv
    <2>3. CASE x[2] > put'[x[1]]
      BY <1>1, <1>4, <2>3 DEF OutInv
    <2> QED
      BY <1>4, <2>1, <2>2, <2>3
  <1> QED
    BY <1>7, <1>8, <1>9 DEF ReplyInv

(* The tail of a queue without repetitions lacks the head and nothing else.*)
LEMMA TailFacts ==
  ASSUME TypeOK, queue # <<>>, queue' = Tail(queue)
  PROVE  /\ Head(queue) = queue[1] /\ queue[1] \in Replies
         /\ Len(queue) \in Nat /\ 1 \in 1..Len(queue)
         /\ Len(queue') = Len(queue) - 1
         /\ \A i \in 1..Len(queue') :
              i + 1 \in 2..Len(queue) /\ queue'[i] = queue[i + 1]
         /\ \A j \in 2..Len(queue) :
              j - 1 \in 1..Len(queue') /\ queue'[j - 1] = queue[j]
         /\ \A i \in 1..Len(queue) : queue[i] \in Replies
  <1>1. /\ Head(queue) = queue[1] /\ Head(queue) \in Replies
        /\ Len(queue) \in Nat /\ Len(queue) >= 1
        /\ Len(queue') = Len(queue) - 1
        /\ \A i \in 1..Len(queue') : queue'[i] = queue[i + 1]
    BY HeadTailFacts DEF TypeOK
  <1>2. \A i \in 1..Len(queue') :
          i + 1 \in 2..Len(queue) /\ queue'[i] = queue[i + 1]
    BY <1>1
  <1>3. \A j \in 2..Len(queue) :
          j - 1 \in 1..Len(queue') /\ queue'[j - 1] = queue[j]
    <2> SUFFICES ASSUME NEW j \in 2..Len(queue)
                 PROVE  j - 1 \in 1..Len(queue') /\ queue'[j - 1] = queue[j]
      OBVIOUS
    <2>1. j - 1 \in 1..Len(queue') /\ (j - 1) + 1 = j
      BY <1>1
    <2> QED
      BY <1>2, <2>1
  <1>4. \A i \in 1..Len(queue) : queue[i] \in Replies
    BY ElementOfSeq DEF TypeOK
  <1> QED
    BY <1>1, <1>2, <1>3, <1>4

(* The head of the queue moves into the hands of the loop.                 *)
LEMMA TakeHeadStep ==
  ASSUME IInv, TakeHead, pc \in {"wait", "drain", "flush"}
  PROVE  ReplyInv'
  <1>1. TypeOK /\ QueueInv /\ TakenInv /\ OutInv
    BY DEF IInv
  <1>2. /\ taken = None /\ taken' = queue[1] /\ pc' = pc
        /\ queue # <<>> /\ queue' = Tail(queue)
        /\ UNCHANGED <<put, sent, dropped>>
    BY <1>1, TailFacts DEF TakeHead, replyVars, outVars
  <1>3. /\ queue[1] \in Replies /\ Len(queue) \in Nat /\ 1 \in 1..Len(queue)
        /\ Len(queue') = Len(queue) - 1
        /\ \A i \in 1..Len(queue') :
             i + 1 \in 2..Len(queue) /\ queue'[i] = queue[i + 1]
        /\ \A j \in 2..Len(queue) :
             j - 1 \in 1..Len(queue') /\ queue'[j - 1] = queue[j]
    BY <1>1, <1>2, TailFacts
  <1>4. QueueInv'
    BY <1>1, <1>2, <1>3, CapacityAssumption DEF QueueInv, Live
  <1>5. TakenInv'
    BY <1>1, <1>2, <1>3 DEF TakenInv, QueueInv, Live
  <1>6. OutInv'
    <2> SUFFICES ASSUME NEW x \in Replies, NEW i \in 1..Len(queue), queue[i] = x
                 PROVE  x = taken' \/ \E k \in 1..Len(queue') : queue'[k] = x
      BY <1>1, <1>2, TokensAssumption DEF OutInv
    <2>1. CASE i = 1
      BY <1>2, <2>1
    <2>2. CASE i # 1
      BY <1>3, <2>2
    <2> QED
      BY <2>1, <2>2
  <1> QED
    BY <1>4, <1>5, <1>6 DEF ReplyInv

(* The loop lets go of the reply it holds: sent, or dropped.               *)
LEMMA LetGo ==
  ASSUME IInv, taken \in Replies, taken' = None,
         UNCHANGED <<queue, put>>,
         \A y \in Replies \ {taken} :
             sent'[y] = sent[y] /\ (y \in dropped' <=> y \in dropped),
         \/ sent'[taken] = 1 /\ taken \notin dropped'
         \/ sent'[taken] = 0 /\ taken \in dropped',
         pc' \notin {"cancelRecv", "reply"}
  PROVE  ReplyInv'
  <1>1. TypeOK /\ QueueInv /\ TakenInv /\ OutInv
    BY DEF IInv
  <1>2. taken # None /\ Live(taken) /\ taken[2] <= put[taken[1]]
    BY <1>1, TokensAssumption DEF TakenInv, Live
  <1>3. \A i \in 1..Len(queue) : queue[i] \in Replies /\ queue[i] # None
    BY <1>1, ElementOfSeq, TokensAssumption DEF TypeOK
  <1>4. QueueInv'
    <2>1. ASSUME NEW i \in 1..Len(queue)
          PROVE  /\ queue[i][2] <= put'[queue[i][1]] /\ sent'[queue[i]] = 0
                 /\ queue[i] \notin dropped' /\ queue[i] # taken'
      <3>1. Live(queue[i]) /\ queue[i] \in Replies \ {taken} /\ queue[i] # None
        BY <1>1, <1>3 DEF QueueInv
      <3> QED
        BY <3>1 DEF Live
    <2> QED
      BY <1>1, <2>1 DEF QueueInv, Live
  <1>5. TakenInv'
    BY DEF TakenInv
  <1>6. OutInv'
    <2> SUFFICES ASSUME NEW x \in Replies
                 PROVE  /\ sent'[x] <= 1
                        /\ sent'[x] = 1 => x \notin dropped'
                        /\ x[2] > put[x[1]] => sent'[x] = 0 /\ x \notin dropped'
                        /\ x[2] <= put[x[1]] =>
                             \/ sent'[x] = 1 \/ x \in dropped'
                             \/ \E i \in 1..Len(queue) : queue[i] = x
      BY DEF OutInv
    <2>1. CASE x = taken
      <3>1. ~ (x[2] > put[x[1]])
        BY <1>1, <1>2, <2>1, MaxRepliesAssumption DEF TypeOK, Replies
      <3> QED
        BY <2>1, <3>1
    <2>2. CASE x # taken
      <3>1. sent'[x] = sent[x] /\ (x \in dropped' <=> x \in dropped)
        BY <2>2
      <3> QED
        BY <1>1, <2>2, <3>1 DEF OutInv
    <2> QED
      BY <2>1, <2>2
  <1> QED
    BY <1>4, <1>5, <1>6 DEF ReplyInv

(* The loop takes its own answer to a refused request in hand.             *)
LEMMA RejectStep ==
  ASSUME IInv, RejectAction
  PROVE  ReplyInv'
  <1>1. TypeOK /\ QueueInv /\ TakenInv /\ OutInv /\ HandlerInv /\ FrameInv
    BY DEF IInv
  <1> DEFINE r == recvEnv
             x == <<recvEnv, 1>>
  <1>2. /\ r \in Requests /\ x \in Replies /\ r \notin dispatched
        /\ x[1] = r /\ x[2] = 1
        /\ put' = [put EXCEPT ![r] = 1] /\ pc' = "reply"
        /\ taken = None /\ taken' = x
        /\ UNCHANGED <<queue, sent, dropped>>
    BY <1>1, MaxRepliesAssumption
    DEF RejectAction, Dispatches, Requests, Replies, FrameInv, InHand, TakenInv,
        outVars
  <1>3. put[r] = 0
    BY <1>1, <1>2, MaxRepliesAssumption DEF HandlerInv, TypeOK
  <1>4. sent[x] = 0 /\ x \notin dropped
    BY <1>1, <1>2, <1>3 DEF OutInv
  <1> HIDE DEF r, x
  <1>5. \A y \in Replies : /\ y[1] \in Requests /\ y[2] \in 1..MaxReplies
                           /\ y = <<y[1], y[2]>> /\ put[y[1]] \in Nat
                           /\ y[1] = r => put'[y[1]] = 1
                           /\ y[1] # r => put'[y[1]] = put[y[1]]
    BY <1>1, <1>2, MaxRepliesAssumption DEF TypeOK, Replies
  <1>6. \A i \in 1..Len(queue) :
          queue[i] \in Replies /\ queue[i][1] # r /\ queue[i] # x
    <2> SUFFICES ASSUME NEW i \in 1..Len(queue)
                 PROVE  queue[i] \in Replies /\ queue[i][1] # r /\ queue[i] # x
      OBVIOUS
    <2>1. queue[i] \in Replies
      BY <1>1, ElementOfSeq DEF TypeOK
    <2>2. queue[i][2] <= put[queue[i][1]] /\ queue[i][2] \in 1..MaxReplies
      BY <1>1, <1>5, <2>1 DEF QueueInv, Live
    <2> QED
      BY <1>2, <1>3, <2>1, <2>2, MaxRepliesAssumption
  <1>7. QueueInv'
    <2>1. ASSUME NEW i \in 1..Len(queue)
          PROVE  /\ queue[i][2] <= put'[queue[i][1]] /\ sent[queue[i]] = 0
                 /\ queue[i] \notin dropped /\ queue[i] # taken'
      <3>1. /\ Live(queue[i]) /\ queue[i] # x
            /\ put'[queue[i][1]] = put[queue[i][1]]
        BY <1>1, <1>5, <1>6 DEF QueueInv
      <3> QED
        BY <1>2, <3>1 DEF Live
    <2> QED
      BY <1>1, <1>2, <2>1 DEF QueueInv, Live
  <1>8. TakenInv'
    <2>1. put'[x[1]] = 1 /\ taken' # None
      BY <1>2, <1>5, TokensAssumption
    <2> QED
      BY <1>2, <1>4, <2>1 DEF TakenInv, Live
  <1>9. OutInv'
    <2> SUFFICES ASSUME NEW y \in Replies
                 PROVE  /\ sent[y] <= 1
                        /\ sent[y] = 1 => y \notin dropped
                        /\ y[2] > put'[y[1]] => sent[y] = 0 /\ y \notin dropped
                        /\ y[2] <= put'[y[1]] =>
                             \/ sent[y] = 1 \/ y \in dropped \/ y = x
                             \/ \E i \in 1..Len(queue) : queue[i] = y
      BY <1>2 DEF OutInv
    <2>1. CASE y = x
      BY <1>2, <1>4, <1>5, <2>1
    <2>2. CASE y # x /\ y[1] = r
      <3>1. y[2] > 1 /\ y[2] > put[y[1]] /\ ~ (y[2] <= put'[y[1]])
        <4>1. y[2] \in 1..MaxReplies /\ y[2] # 1
          BY <1>2, <1>5, <2>2 DEF x, r
        <4> QED
          BY <1>3, <1>5, <2>2, <4>1, MaxRepliesAssumption
      <3> QED
        BY <1>1, <3>1 DEF OutInv
    <2>3. CASE y # x /\ y[1] # r
      <3>1. put'[y[1]] = put[y[1]]
        BY <1>5, <2>3
      <3> QED
        BY <1>1, <1>2, <3>1, TokensAssumption DEF OutInv
    <2> QED
      BY <2>1, <2>2, <2>3
  <1> QED
    BY <1>7, <1>8, <1>9 DEF ReplyInv

(* Every step keeps the places of the replies.                             *)
LEMMA ReplyStep ==
  ASSUME IInv, [Next]_vars
  PROVE  ReplyInv'
  <1>1. TypeOK /\ QueueInv /\ TakenInv /\ OutInv /\ HandlerInv
    BY DEF IInv
  <1>2. ASSUME NEW r \in Requests, HandlerReturn(r)
        PROVE  ReplyInv'
    <2>1. PICK n \in 0..MaxReplies : PutUpTo(r, n)
      BY <1>2 DEF HandlerReturn
    <2>2. put[r] <= n
      BY <1>1, <1>2, MaxRepliesAssumption DEF HandlerReturn, HandlerInv, TypeOK
    <2> QED
      BY <2>1, <2>2, PutReplies
  <1>3. ASSUME NEW r \in Requests, HandlerPut(r)
        PROVE  ReplyInv'
    <2>1. made[r] \in 0..MaxReplies /\ put[r] <= made[r]
      BY <1>1 DEF HandlerInv, TypeOK
    <2> QED
      BY <1>3, <2>1, PutReplies DEF HandlerPut
  <1>4. CASE WakeOnRecv
    <2>1. CASE taken = None
      BY <1>1, <1>4, <2>1
      DEF WakeOnRecv, ReplyInv, QueueInv, TakenInv, OutInv, Live, replyVars
    <2>2. CASE taken # None
      <3>1. /\ taken \in Replies /\ taken' = None /\ pc' = "dispatch"
            /\ UNCHANGED <<queue, put>>
            /\ sent' = sent /\ dropped' = dropped \cup {taken}
        BY <1>1, <1>4, <2>2 DEF WakeOnRecv, replyVars, TypeOK
      <3>2. sent[taken] = 0
        BY <1>1, <2>2 DEF TakenInv, Live
      <3> QED
        BY <3>1, <3>2, LetGo
    <2> QED
      BY <2>1, <2>2
  <1>5. CASE CancelRecv
    <2>1. taken \in Replies /\ sent[taken] = 0
      BY <1>1, <1>5 DEF CancelRecv, TakenInv, Live, TypeOK
    <2>2. CASE pc' = "crashed"
      <3>1. /\ taken' = None /\ UNCHANGED <<queue, put>>
            /\ sent' = sent /\ dropped' = dropped \cup {taken}
        BY <1>5, <2>2 DEF CancelRecv, replyVars
      <3> QED
        BY <2>1, <2>2, <3>1, LetGo
    <2>3. CASE pc' = "reply" /\ UNCHANGED <<taken, dropped>>
      BY <1>1, <1>5, <2>1, <2>3, TokensAssumption
      DEF CancelRecv, ReplyInv, QueueInv, TakenInv, OutInv, Live, replyVars
    <2> QED
      BY <1>5, <2>2, <2>3 DEF CancelRecv
  <1>6. CASE SendReply
    <2>1. /\ taken \in Replies /\ sent[taken] = 0 /\ taken \notin dropped
          /\ taken' = None /\ pc' \notin {"cancelRecv", "reply"}
          /\ UNCHANGED <<queue, put>> /\ Send(taken)
      BY <1>1, <1>6 DEF SendReply, TakenInv, Live, TypeOK, replyVars
    <2> QED
      BY <1>1, <2>1, SendFacts, LetGo
  <1>7. CASE /\ UNCHANGED <<taken, queue, put, sent, dropped>>
             /\ taken # None =>
                  \/ pc = "wait" /\ pc' \in {"wait", "cancelRecv"}
                  \/ pc' = pc
             /\ pc' \in {"cancelRecv", "reply"} => taken # None
    BY <1>1, <1>7
    DEF ReplyInv, QueueInv, TakenInv, OutInv, Live
  <1>8. CASE \/ OnFailure \/ OnPluginShutdown \/ OnPing \/ AcceptAction
             \/ AcceptEscapes \/ CallHook \/ HookReturns \/ HookRaises
             \/ Answer \/ HookReply \/ SkipEmpty
             \/ Register \/ OnInit \/ OnShutdown \/ QueueEmpty
    BY <1>1, <1>7, <1>8
    DEF OnFailure, OnPluginShutdown, OnPing, AcceptAction, AcceptEscapes,
        CallHook, HookReturns, HookRaises, Answer, HookReply, SkipEmpty,
        Dispatches, Proceed, RecvUsed, Register, OnInit, OnShutdown, QueueEmpty,
        Goto, TakenInv, replyVars, outVars
  <1>9. CASE WakeOnReply \/ RecvStep \/ KernelClose \/ UNCHANGED vars
    BY <1>1, <1>7, <1>9
    DEF WakeOnReply, Goto, RecvStep, ReadFirst, ReadRest, ReadFails, Resume,
        ReadEof, ReadMessage, RecvTo, KernelClose, TakenInv, vars,
        replyVars, outVars
  <1>10. ASSUME NEW e \in Envelopes, KernelPost(e)
         PROVE  ReplyInv'
    BY <1>1, <1>7, <1>10 DEF KernelPost, TakenInv, replyVars, outVars
  <1> QED
    BY <1>2, <1>3, <1>4, <1>5, <1>6, <1>8, <1>9, <1>10, TakeHeadStep, RejectStep
    DEF Next, LoopStep, LocalStep, SendStep, GetReply, TakeQueued

-----------------------------------------------------------------------------
(* The invariant is inductive, and implies the properties the runs check.  *)

(* The invariant holds initially.                                          *)
LEMMA InitIInv == Init => IInv
  <1> SUFFICES ASSUME Init
               PROVE  IInv
    OBVIOUS
  <1>1. TypeOK
    <2>1. inbound \in Seq(Envelopes) /\ queue \in Seq(Replies)
      BY EmptySeq DEF Init
    <2>2. 0 \in 0..MaxReplies
      BY MaxRepliesAssumption
    <2> QED
      BY <2>1, <2>2 DEF Init, TypeOK
  <1>2. Len(queue) = 0 /\ Len(inbound) = 0
    BY EmptySeq DEF Init
  <1>3. QueueInv /\ TakenInv /\ FrameInv
    BY <1>2, CapacityAssumption, TokensAssumption
    DEF Init, QueueInv, TakenInv, FrameInv, InHand
  <1>4. OutInv
    BY MaxRepliesAssumption DEF Init, OutInv, Replies
  <1>5. HandlerInv
    BY DEF Init, HandlerInv
  <1> QED
    BY <1>1, <1>3, <1>4, <1>5 DEF IInv

(* IInv is an invariant of the loop.                                       *)
THEOREM Invariance == Spec => []IInv
  <1>1. IInv /\ [Next]_vars => IInv'
    BY TypeStep, HandlerStep, FrameStep, ReplyStep DEF IInv, ReplyInv
  <1> QED
    BY InitIInv, <1>1, PTL DEF Spec

(* Every variable keeps its type.                                          *)
THEOREM TypeCorrect == Spec => []TypeOK
  <1>1. IInv => TypeOK
    BY DEF IInv
  <1> QED
    BY Invariance, <1>1, PTL

(* The places of the replies, counted.                                     *)
LEMMA AccountingFromIInv == IInv => ReplyAccounting
  <1> SUFFICES ASSUME IInv
               PROVE  ReplyAccounting
    OBVIOUS
  <1>1. TypeOK /\ QueueInv /\ TakenInv /\ OutInv
    BY DEF IInv
  <1>2. ASSUME NEW r \in Requests, NEW k \in 1..MaxReplies
        PROVE  sent[<<r, k>>] + (IF <<r, k>> \in dropped THEN 1 ELSE 0)
                 + (IF <<r, k>> = taken THEN 1 ELSE 0)
                 + (IF <<r, k>> \in Queued THEN 1 ELSE 0)
               = IF k <= put[r] THEN 1 ELSE 0
    <2> DEFINE x == <<r, k>>
    <2>1. /\ x \in Replies /\ x # None /\ x[1] = r /\ x[2] = k
          /\ k \in Nat /\ put[r] \in Nat /\ sent[x] \in {0, 1}
      <3>1. x \in Replies /\ x[1] = r /\ x[2] = k
        BY DEF Replies
      <3>2. k \in Nat /\ put[r] \in Nat
        BY <1>1, MaxRepliesAssumption DEF TypeOK
      <3>3. sent[x] \in Nat /\ sent[x] <= 1
        BY <1>1, <3>1 DEF TypeOK, OutInv
      <3> QED
        BY <3>1, <3>2, <3>3, TokensAssumption
    <2>2. x \in Queued <=> \E i \in 1..Len(queue) : queue[i] = x
      BY DEF Queued
    <2>3. x \in Queued => /\ k <= put[r] /\ sent[x] = 0
                         /\ x \notin dropped /\ x # taken
      BY <1>1, <2>1, <2>2 DEF QueueInv, Live
    <2>4. x = taken => k <= put[r] /\ sent[x] = 0 /\ x \notin dropped
      BY <1>1, <2>1 DEF TakenInv, Live
    <2>5. /\ sent[x] = 1 => x \notin dropped
          /\ k > put[r] => sent[x] = 0 /\ x \notin dropped
          /\ k <= put[r] =>
               sent[x] = 1 \/ x \in dropped \/ x = taken \/ x \in Queued
      BY <1>1, <2>1, <2>2 DEF OutInv
    <2> HIDE DEF x
    <2>6. sent[x] + (IF x \in dropped THEN 1 ELSE 0)
            + (IF x = taken THEN 1 ELSE 0) + (IF x \in Queued THEN 1 ELSE 0)
          = IF k <= put[r] THEN 1 ELSE 0
      BY <2>1, <2>3, <2>4, <2>5
    <2> QED
      BY <2>6 DEF x
  <1> QED
    BY <1>1, <1>2 DEF ReplyAccounting, QueueInv

(* Each reply a handler puts is in exactly one place, whatever the number  *)
(* of requests, the capacity of the queue and the kind of connection.      *)
THEOREM RepliesAccounted == Spec => []ReplyAccounting
  BY Invariance, AccountingFromIInv, PTL

-----------------------------------------------------------------------------
(* The frames: where each of them is, and how the loop comes to lose one.  *)

(* What the client.recv() task holds, and while the loop is where.  Only a *)
(* legacy wait_for finishes a body on its own.                             *)
ReadInv ==
  /\ recvSt = "idle" => recvEnv = None
  /\ recvSt # "idle" => pc \in {"wait", "cancelRecv", "dispatch"} \/ InHand
  /\ pc = "dispatch" \/ InHand => recvSt = "done"
  /\ pc = "cancelRecv" => recvSt # "done"
  /\ link # "legacyStream" => recvSt # "ready"

InTransit == {inbound[i] : i \in 1..Len(inbound)}

(* NoSilentFrameLoss, over every place of the loop that goes on.           *)
PlaceInv ==
  /\ link # "legacyStream" /\ ~(recvSt = "done" /\ recvEnv = Failure)
  /\ pc \notin {"flush", "shutdown", "ended"}
  => posted \subseteq InTransit \cup dispatched \cup {recvEnv} \cup cut

ReadingInv == ReadInv /\ PlaceInv

(* Every step keeps what the client.recv() task may hold.                  *)
LEMMA ReadStep ==
  ASSUME IInv, ReadingInv, [Next]_vars
  PROVE  ReadInv'
  <1>1. TypeOK /\ ReadInv
    BY DEF IInv, ReadingInv
  <1>2. CASE ReadFirst
    BY <1>1, <1>2 DEF ReadFirst, RecvTo, ReadInv, InHand, kernelVars
  <1>3. CASE ReadRest \/ ReadFails \/ Resume \/ ReadEof \/ ReadMessage
    BY <1>1, <1>3
    DEF ReadRest, ReadFails, Resume, ReadEof, ReadMessage, RecvTo, BodyMayRun,
        BodyDone, ReadInv, InHand, kernelVars
  <1>4. CASE \/ OnFailure \/ OnPluginShutdown \/ AcceptAction \/ RejectAction
             \/ AcceptEscapes \/ HookRaises \/ HookReply \/ SkipEmpty
    BY <1>1, <1>4
    DEF OnFailure, OnPluginShutdown, AcceptAction, RejectAction, AcceptEscapes,
        HookRaises, HookReply, SkipEmpty, RecvUsed, ReadInv, InHand, kernelVars
  <1>5. CASE \/ OnPing \/ CallHook \/ HookReturns \/ Answer
             \/ WakeOnRecv \/ WakeOnReply
    BY <1>1, <1>5
    DEF OnPing, CallHook, HookReturns, Answer, WakeOnRecv, WakeOnReply,
        Dispatches, Proceed, RecvUsed, Goto, ReadInv, InHand, kernelVars, recvVars
  <1>6. CASE CancelRecv
    BY <1>1, <1>6 DEF CancelRecv, ReadInv, InHand, kernelVars
  <1>7. CASE \/ Register \/ OnInit \/ OnShutdown \/ QueueEmpty \/ SendReply
             \/ TakeQueued \/ GetReply
    BY <1>1, <1>7
    DEF Register, OnInit, OnShutdown, QueueEmpty, SendReply, TakeQueued,
        GetReply, TakeHead, Goto, ReadInv, InHand, kernelVars, recvVars
  <1>8. ASSUME NEW r \in Requests, HandlerReturn(r) \/ HandlerPut(r)
        PROVE  ReadInv'
    BY <1>1, <1>8
    DEF HandlerReturn, HandlerPut, PutUpTo, ReadInv, InHand, kernelVars, recvVars
  <1>9. ASSUME NEW e \in Envelopes, KernelPost(e)
        PROVE  ReadInv'
    BY <1>1, <1>9 DEF KernelPost, ReadInv, InHand, recvVars
  <1>10. CASE KernelClose \/ UNCHANGED vars
    BY <1>1, <1>10
    DEF KernelClose, vars, ReadInv, InHand, kernelVars, recvVars
  <1> QED
    BY <1>2, <1>3, <1>4, <1>5, <1>6, <1>7, <1>8, <1>9, <1>10
    DEF Next, LoopStep, LocalStep, SendStep, RecvStep

(* What the kernel and the readers do to the frames in the transport.      *)
LEMMA TransitFacts ==
  ASSUME TypeOK
  PROVE  /\ \A e \in Envelopes : inbound' = Append(inbound, e) =>
               InTransit \cup {e} \subseteq InTransit'
         /\ inbound # <<>> /\ inbound' = Tail(inbound) =>
               InTransit \subseteq InTransit' \cup {Head(inbound)}
  <1>1. inbound \in Seq(Envelopes) /\ Len(inbound) \in Nat
    BY LenProperties DEF TypeOK
  <1>2. ASSUME NEW e \in Envelopes, inbound' = Append(inbound, e)
        PROVE  InTransit \cup {e} \subseteq InTransit'
    <2>1. /\ Len(inbound') = Len(inbound) + 1
          /\ \A i \in 1..Len(inbound) : inbound'[i] = inbound[i]
          /\ inbound'[Len(inbound) + 1] = e
      BY <1>1, <1>2, AppendProperties
    <2>2. Len(inbound) + 1 \in 1..Len(inbound')
      BY <1>1, <2>1
    <2>3. \A i \in 1..Len(inbound) : i \in 1..Len(inbound')
      BY <1>1, <2>1
    <2> QED
      BY <2>1, <2>2, <2>3 DEF InTransit
  <1>3. ASSUME inbound # <<>>, inbound' = Tail(inbound)
        PROVE  InTransit \subseteq InTransit' \cup {Head(inbound)}
    <2>1. /\ Head(inbound) = inbound[1]
          /\ Len(inbound') = Len(inbound) - 1
          /\ \A i \in 1..Len(inbound') : inbound'[i] = inbound[i + 1]
      BY <1>1, <1>3, HeadTailFacts
    <2> SUFFICES ASSUME NEW j \in 1..Len(inbound), j # 1
                 PROVE  inbound[j] \in InTransit'
      BY <2>1 DEF InTransit
    <2>2. j - 1 \in 1..Len(inbound') /\ (j - 1) + 1 = j
      BY <1>1, <2>1
    <2>3. inbound'[j - 1] = inbound[j]
      BY <2>1, <2>2
    <2> QED
      BY <2>2, <2>3 DEF InTransit
  <1> QED
    BY <1>2, <1>3

(* Every step of a loop that goes on keeps every frame somewhere.          *)
LEMMA PlaceStep ==
  ASSUME IInv, ReadingInv, [Next]_vars
  PROVE  PlaceInv'
  <1> DEFINE Going == /\ link # "legacyStream"
                      /\ ~(recvSt = "done" /\ recvEnv = Failure)
                      /\ pc \notin {"flush", "shutdown", "ended"}
             Places == InTransit \cup dispatched \cup {recvEnv} \cup cut
  <1>1. /\ TypeOK /\ FrameInv /\ ReadInv
        /\ Failure \notin Envelopes /\ None \notin Envelopes /\ None # Failure
        /\ Going => posted \subseteq Places
    BY TokensAssumption DEF IInv, ReadingInv, PlaceInv
  <1> SUFFICES ASSUME Going'
               PROVE  posted' \subseteq Places'
    BY DEF PlaceInv
  <1>2. CASE Going /\ posted' = posted /\ Places \subseteq Places' \cup {None, Failure}
    BY <1>1, <1>2 DEF TypeOK
  <1>3. inbound' = inbound => InTransit' = InTransit
    BY DEF InTransit
  <1>4. CASE ReadFirst
    <2>1. /\ recvEnv = None /\ Going /\ UNCHANGED <<posted, dispatched, cut>>
          /\ \/ inbound' = inbound
             \/ /\ recvEnv' = Head(inbound)
                /\ inbound # <<>> /\ inbound' = Tail(inbound)
      BY <1>1, <1>4 DEF ReadFirst, RecvTo, ReadInv, kernelVars, histVars
    <2> QED
      BY <1>1, <1>2, <1>3, <2>1, TransitFacts
  <1>5. CASE ReadMessage
    <2>1. /\ recvEnv = None /\ recvEnv' = Head(inbound)
          /\ inbound # <<>> /\ inbound' = Tail(inbound)
          /\ Going /\ UNCHANGED <<posted, dispatched, cut>>
      BY <1>1, <1>5 DEF ReadMessage, Received, RecvTo, ReadInv, kernelVars, histVars
    <2> QED
      BY <1>1, <1>2, <2>1, TransitFacts
  <1>6. CASE ReadRest \/ ReadFails \/ Resume \/ ReadEof
    <2>1. /\ recvEnv' = recvEnv /\ inbound' = inbound
          /\ Going /\ UNCHANGED <<posted, dispatched, cut>>
      BY <1>1, <1>6
      DEF ReadRest, ReadFails, Resume, ReadEof, BodyDone, Received, RecvTo,
          kernelVars, histVars
    <2> QED
      BY <1>2, <1>3, <2>1
  <1>7. CASE \/ AcceptAction \/ RejectAction \/ AcceptEscapes \/ SkipEmpty
             \/ HookRaises \/ HookReply
    <2>1. /\ recvEnv \in Envelopes /\ Going /\ UNCHANGED <<posted, inbound, cut>>
          /\ recvEnv \in dispatched' /\ dispatched \subseteq dispatched'
      BY <1>1, <1>7
      DEF AcceptAction, RejectAction, AcceptEscapes, SkipEmpty, HookRaises,
          HookReply, Dispatches, RecvUsed, FrameInv, InHand, kernelVars, histVars
    <2> QED
      BY <1>2, <1>3, <2>1
  <1>8. CASE OnPing \/ CallHook \/ HookReturns \/ Answer
    <2>1. /\ recvEnv \in Envelopes /\ Going /\ UNCHANGED <<posted, inbound, cut>>
          /\ recvEnv \in dispatched' /\ dispatched \subseteq dispatched'
      BY <1>1, <1>8
      DEF OnPing, CallHook, HookReturns, Answer, Dispatches, Proceed, RecvUsed,
          FrameInv, InHand, kernelVars, recvVars, histVars
    <2> QED
      BY <1>2, <1>3, <2>1
  <1>9. CASE OnFailure \/ OnPluginShutdown
    BY <1>9 DEF OnFailure, OnPluginShutdown, RecvUsed
  <1>10. CASE CancelRecv
    <2>1. /\ Going /\ UNCHANGED <<posted, inbound, dispatched>>
          /\ cut \subseteq cut' /\ recvEnv \in cut' \cup {None, Failure}
      BY <1>1, <1>10
      DEF CancelRecv, ReadInv, TypeOK, kernelVars, histVars
    <2> QED
      BY <1>2, <1>3, <2>1
  <1>11. CASE \/ WakeOnRecv \/ WakeOnReply \/ Register \/ OnInit \/ OnShutdown
              \/ QueueEmpty \/ SendReply \/ TakeQueued \/ GetReply
    <2>1. Going /\ UNCHANGED <<posted, inbound, recvEnv, dispatched, cut>>
      BY <1>11
      DEF WakeOnRecv, WakeOnReply, Register, OnInit, OnShutdown, QueueEmpty,
          SendReply, TakeQueued, GetReply, TakeHead, Goto, kernelVars,
          recvVars, histVars
    <2> QED
      BY <1>2, <1>3, <2>1
  <1>12. ASSUME NEW r \in Requests, HandlerReturn(r) \/ HandlerPut(r)
         PROVE  posted' \subseteq Places'
    BY <1>2, <1>3, <1>12
    DEF HandlerReturn, HandlerPut, PutUpTo, kernelVars, recvVars, histVars
  <1>13. ASSUME NEW e \in Envelopes, KernelPost(e)
         PROVE  posted' \subseteq Places'
    <2>1. /\ Going /\ posted' = posted \cup {e} /\ inbound' = Append(inbound, e)
          /\ UNCHANGED <<dispatched, recvEnv, cut>>
      BY <1>13 DEF KernelPost, recvVars, histVars
    <2> QED
      BY <1>1, <2>1, TransitFacts
  <1>14. CASE KernelClose \/ UNCHANGED vars
    BY <1>2, <1>3, <1>14
    DEF KernelClose, vars, kernelVars, recvVars, histVars
  <1> QED
    BY <1>4, <1>5, <1>6, <1>7, <1>8, <1>9, <1>10, <1>11, <1>12, <1>13, <1>14
    DEF Next, LoopStep, LocalStep, SendStep, RecvStep

(* ReadingInv is an invariant of the loop, given the one above.            *)
THEOREM ReadingInvariance == Spec => []ReadingInv
  <1>1. Init => ReadingInv
    BY DEF Init, ReadingInv, ReadInv, InHand, PlaceInv
  <1>2. IInv /\ ReadingInv /\ [Next]_vars => ReadingInv'
    BY ReadStep, PlaceStep DEF ReadingInv
  <1> QED
    BY Invariance, <1>1, <1>2, PTL DEF Spec

(* While the loop goes on, on a connection whose wait_for loses nothing,   *)
(* every frame the kernel wrote is in the transport, in the hands of the   *)
(* loop, acted upon, or one of those a cancelled reader was in the middle  *)
(* of (run_concurrent_loop, which cancels client.recv() whenever a reply   *)
(* wins the race).                                                         *)
THEOREM NoFrameLost == Spec => []NoSilentFrameLoss
  <1>1. ReadingInv => NoSilentFrameLoss
    BY DEF ReadingInv, PlaceInv, InTransit, NoSilentFrameLoss
  <1> QED
    BY ReadingInvariance, <1>1, PTL
=============================================================================
