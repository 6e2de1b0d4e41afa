---------------------------- MODULE ReplyService ----------------------------
(***************************************************************************)
(* What the concurrent loop promises the kernel about the replies to its   *)
(* action requests, without tasks, queue or connection.  Each request is   *)
(* refused with one reply or opened once; an open request closes with the  *)
(* number of replies its handler returned; its replies are then settled    *)
(* one by one and in order, each delivered once or lost for good.          *)
(* ConcurrentLoop implements it.                                           *)
(***************************************************************************)
EXTENDS Integers

CONSTANTS
  Requests,   \* the action requests
  MaxReplies  \* most replies to one of them, at least one

VARIABLES
  phase,     \* of each request: "new", "open" or "closed"
  count,     \* the number of its replies
  delivered, \* how often each reply was delivered
  lost       \* the replies that never will be

vars == <<phase, count, delivered, lost>>

Replies == Requests \X (1..MaxReplies)

Init ==
  /\ phase = [r \in Requests |-> "new"]
  /\ count = [r \in Requests |-> 0]
  /\ delivered = [x \in Replies |-> 0]
  /\ lost = {}

Settled(x) == delivered[x] > 0 \/ x \in lost

(* Reply x is delivered or lost.                                           *)
Outcome(x) ==
  \/ delivered' = [delivered EXCEPT ![x] = 1] /\ UNCHANGED lost
  \/ lost' = lost \cup {x} /\ UNCHANGED delivered

Open(r) ==
  /\ phase[r] = "new"
  /\ phase' = [phase EXCEPT ![r] = "open"]
  /\ UNCHANGED <<count, delivered, lost>>

Refuse(r) ==
  /\ phase[r] = "new"
  /\ phase' = [phase EXCEPT ![r] = "closed"]
  /\ count' = [count EXCEPT ![r] = 1]
  /\ UNCHANGED <<delivered, lost>>

Close(r) ==
  /\ phase[r] = "open"
  /\ phase' = [phase EXCEPT ![r] = "closed"]
  /\ \E n \in 0..MaxReplies : count' = [count EXCEPT ![r] = n]
  /\ UNCHANGED <<delivered, lost>>

Settle(r, k) ==
  /\ phase[r] = "closed" /\ k <= count[r]
  /\ ~Settled(<<r, k>>)
  /\ \A l \in 1..(k - 1) : Settled(<<r, l>>)
  /\ Outcome(<<r, k>>)
  /\ UNCHANGED <<phase, count>>

Next ==
  \E r \in Requests :
    \/ Open(r) \/ Refuse(r) \/ Close(r)
    \/ \E k \in 1..MaxReplies : Settle(r, k)

Spec == Init /\ [][Next]_vars
=============================================================================
