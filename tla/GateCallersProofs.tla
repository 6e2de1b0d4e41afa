-------------------------- MODULE GateCallersProofs --------------------------
(***************************************************************************)
(* The gate among its callers is a gate: what ConfirmationGateProofs shows *)
(* of every gate holds however calls and replies are delayed, timed out    *)
(* and tried again.  And a caller gets the id of its own request.          *)
(***************************************************************************)
EXTENDS GateCallers, ConfirmationGateProofs

(* A confirmation names an id that was given out.                          *)
CallIds == \A i \in DOMAIN calls : calls[i].op = "confirm" => calls[i].id \in DOMAIN log

CInv == IInv /\ CallersTypeOK /\ CallIds

-----------------------------------------------------------------------------
LEMMA AboutsFacts ==
  /\ Results \subseteq Abouts
  /\ {"pending", "unknown", "denied", "kernel", "none"} \subseteq Abouts
BY CallersAssumption DEF Abouts

LEMMA ReplyType ==
  ASSUME NEW about \in Abouts, NEW id \in Ids \cup {NoId}
  PROVE  Reply(about, id) \in Answers
BY DEF Reply, Answers

LEMMA NoReplyType == NoReply \in Answers
BY ReplyType, AboutsFacts DEF NoReply

(* A call and what an action may change of it.                             *)
LEMMA CallFacts ==
  ASSUME CallersTypeOK, NEW i \in DOMAIN calls
  PROVE  /\ calls[i] \in Actions
         /\ calls[i].op \in {"request", "confirm"} /\ calls[i].caller \in Callers
         /\ calls[i].params \subseteq Params /\ calls[i].id \in Ids \cup {NoId}
         /\ calls[i].answer \in Answers /\ calls[i].got \in Answers
<1>1. calls[i] \in Actions
  BY DEF CallersTypeOK
<1>. QED  BY <1>1 DEF Actions

(* Calls that keep their operation, caller, parameters and id.             *)
Same(c, d) == /\ d.op = c.op /\ d.caller = c.caller /\ d.params = c.params
              /\ d.id = c.id

(* A step that gives every call a value of its type, and leaves of each    *)
(* what it asked for.                                                      *)
CallsKept ==
  /\ calls' = [i \in DOMAIN calls |-> calls'[i]]
  /\ \A i \in DOMAIN calls : calls'[i] \in Actions /\ Same(calls[i], calls'[i])

LEMMA KeptIsTyped ==
  ASSUME CallersTypeOK, CallsKept
  PROVE  CallersTypeOK'
<1>1. DOMAIN calls = 1..Len(calls) /\ Len(calls) \in Nat
  BY DEF CallersTypeOK
<1>2. calls' \in [1..Len(calls) -> Actions]
  BY <1>1 DEF CallsKept
<1>. QED  BY <1>1, <1>2 DEF CallersTypeOK

LEMMA KeptIds ==
  ASSUME CallIds, CallsKept, DOMAIN log \subseteq DOMAIN log'
  PROVE  CallIds'
BY DEF CallIds, CallsKept, Same

-----------------------------------------------------------------------------
(* A new call: what it asks for is well typed, and names an id of the log. *)
LEMMA SendStep ==
  ASSUME CallersTypeOK, CallIds, NEW op \in {"request", "confirm"},
         NEW caller \in Callers, NEW params \in SUBSET Params,
         NEW id \in Ids \cup {NoId}, op = "confirm" => id \in DOMAIN log,
         SendAction(op, caller, params, id)
  PROVE  /\ CallersTypeOK' /\ CallIds' /\ UNCHANGED vars
<1>. DEFINE c == [op |-> op, caller |-> caller, params |-> params, id |-> id,
                  at |-> "kernel", answer |-> NoReply, got |-> NoReply,
                  status |-> "open"]
<1>1. c \in Actions
  BY NoReplyType DEF Actions
<1>2. calls' = Append(calls, c) /\ UNCHANGED vars
  BY DEF SendAction
<1>3. CallersTypeOK'
  BY <1>1, <1>2 DEF CallersTypeOK
<1>4. UNCHANGED log
  BY <1>2 DEF vars
<1>5. CallIds'
  <2>. SUFFICES ASSUME NEW i \in DOMAIN calls', calls'[i].op = "confirm"
                PROVE  calls'[i].id \in DOMAIN log
    BY <1>4 DEF CallIds
  <2>1. CASE i \in DOMAIN calls
    <3>1. calls'[i] = calls[i]
      BY <1>2, <2>1 DEF CallersTypeOK
    <3>. QED  BY <2>1, <3>1 DEF CallIds
  <2>2. CASE i = Len(calls) + 1
    <3>1. calls'[i] = c
      BY <1>2, <2>2 DEF CallersTypeOK
    <3>. QED  BY <3>1
  <2>. QED  BY <1>2, <2>1, <2>2 DEF CallersTypeOK
<1>. QED  BY <1>2, <1>3, <1>5

(* A reply is read, by the call it is meant for or by another.             *)
LEMMA ReadStep ==
  ASSUME CallersTypeOK, NEW i \in DOMAIN calls, NEW j \in DOMAIN calls,
         ReadAnswer(i, j)
  PROVE  CallsKept
<1>. DEFINE c(k) == IF k = j THEN [calls[k] EXCEPT !.at = "read", !.answer = NoReply]
                             ELSE calls[k]
            d(k) == IF k = i /\ Matches(i, j)
                      THEN [c(k) EXCEPT !.got = calls[j].answer,
                                        !.status = StatusAfter(c(k).op, calls[j].answer)]
                      ELSE c(k)
<1>1. calls' = [k \in DOMAIN calls |-> d(k)]
  BY DEF ReadAnswer
<1>2. ASSUME NEW k \in DOMAIN calls
      PROVE  c(k) \in Actions /\ Same(calls[k], c(k))
  <2>1. calls[k] \in Actions /\ NoReply \in Answers
    BY CallFacts, NoReplyType
  <2>. QED  BY <2>1 DEF Actions, Same
<1>3. ASSUME NEW k \in DOMAIN calls
      PROVE  d(k) \in Actions /\ Same(calls[k], d(k))
  <2>1. calls[j].answer \in Answers
    BY CallFacts
  <2>2. \A op, answer : StatusAfter(op, answer) \in {"returned", "raised"}
    BY DEF StatusAfter
  <2>3. c(k) \in Actions /\ Same(calls[k], c(k))
    BY <1>2
  <2>. HIDE DEF c
  <2>4. CASE k = i /\ Matches(i, j)
    <3>. DEFINE v == StatusAfter(c(k).op, calls[j].answer)
    <3>1. d(k) = [c(k) EXCEPT !.got = calls[j].answer, !.status = v]
      BY <2>4
    <3>2. v \in {"returned", "raised"}
      BY <2>2
    <3>. HIDE DEF d, v
    <3>. QED  BY <2>1, <2>3, <3>1, <3>2 DEF Actions, Same
  <2>5. CASE ~(k = i /\ Matches(i, j))
    <3>1. d(k) = c(k)
      BY <2>5
    <3>. QED  BY <2>3, <3>1
  <2>. QED  BY <2>4, <2>5
<1>. HIDE DEF d
<1>. QED  BY <1>1, <1>3 DEF CallsKept

LEMMA TimeOutStep ==
  ASSUME CallersTypeOK, NEW i \in DOMAIN calls, TimeOut(i)
  PROVE  CallsKept
<1>1. \A k \in DOMAIN calls : calls[k] \in Actions
  BY CallFacts
<1>2. calls' = [calls EXCEPT ![i].status = "timedOut"]
  BY DEF TimeOut
<1>. QED  BY <1>1, <1>2 DEF CallsKept, Same, Actions

(* An answer is given.                                                     *)
LEMMA AnsweredStep ==
  ASSUME CallersTypeOK, NEW i \in DOMAIN calls, NEW about \in Abouts,
         NEW id \in Ids \cup {NoId}, Answered(i, about, id)
  PROVE  CallsKept
<1>. DEFINE r == Reply(about, id)
<1>1. \A k \in DOMAIN calls : calls[k] \in Actions
  BY CallFacts
<1>2. calls' = [calls EXCEPT ![i].at = "answered", ![i].answer = r] /\ r \in Answers
  BY ReplyType DEF Answered
<1>. HIDE DEF r
<1>. QED  BY <1>1, <1>2 DEF CallsKept, Same, Actions

LEMMA StartedStep ==
  ASSUME CallersTypeOK, NEW i \in DOMAIN calls,
         calls' = [calls EXCEPT ![i].at = "executing"]
  PROVE  CallsKept
<1>1. \A k \in DOMAIN calls : calls[k] \in Actions
  BY CallFacts
<1>. QED  BY <1>1 DEF CallsKept, Same, Actions

LEMMA ExecutorDoneStep ==
  ASSUME CallersTypeOK, NEW call, NEW result \in Results, ExecutorDone(call, result)
  PROVE  CallsKept
<1>. DEFINE r == Reply(result, NoId)
<1>1. \A k \in DOMAIN calls : calls[k] \in Actions
  BY CallFacts
<1>2. r \in Answers
  BY ReplyType, AboutsFacts
<1>3. calls' = [k \in DOMAIN calls |->
                  IF calls[k].at = "executing" /\ calls[k].id = call.id
                    THEN [calls[k] EXCEPT !.at = "answered", !.answer = r]
                    ELSE calls[k]]
  BY DEF ExecutorDone
<1>. HIDE DEF r
<1>. QED  BY <1>1, <1>2, <1>3 DEF CallsKept, Same, Actions

LEMMA RestartStep ==
  ASSUME CallersTypeOK, PluginRestarts
  PROVE  CallsKept
<1>1. \A k \in DOMAIN calls : calls[k] \in Actions
  BY CallFacts
<1>2. calls' = [k \in DOMAIN calls |-> IF calls[k].at = "executing"
                                        THEN [calls[k] EXCEPT !.at = "lost"]
                                        ELSE calls[k]]
  BY DEF PluginRestarts
<1>. QED  BY <1>1, <1>2 DEF CallsKept, Same, Actions

-----------------------------------------------------------------------------
(* No step of the gate forgets a request of the log.                       *)
LEMMA LogGrows == [Next]_vars => DOMAIN log \subseteq DOMAIN log'
<1>1. ASSUME NEW caller, NEW p, RequestOp(caller, p)
      PROVE  DOMAIN log \subseteq DOMAIN log'
  BY <1>1 DEF RequestOp, With
<1>2. ASSUME NEW caller, NEW id,
             ConfirmUnknown(caller, id) \/ \E p \in Params : ConfirmOp(caller, id, p)
      PROVE  UNCHANGED log
  BY <1>2 DEF ConfirmUnknown, ConfirmOp
<1>3. ASSUME \/ \E call \in executing : ExecutorEnds(call)
             \/ \E caller \in Callers : ConfirmDenied(caller)
             \/ Tick \/ Restart \/ UNCHANGED vars
      PROVE  UNCHANGED log
  BY <1>3 DEF ExecutorEnds, ConfirmDenied, Tick, Restart, vars
<1>. QED  BY <1>1, <1>2, <1>3 DEF Next

(* A call that reaches route does a step of the gate.                      *)
LEMMA RouteStep ==
  ASSUME CInv, NEW i \in DOMAIN calls, Route(i)
  PROVE  /\ Next
         /\ CallsKept
<1>. DEFINE c == calls[i]
<1>0. CallersTypeOK /\ CallIds /\ TypeOK /\ IdInv
  BY DEF CInv, IInv
<1>1. /\ c.caller \in Callers /\ c.params \subseteq Params
      /\ c.op = "confirm" => c.id \in DOMAIN log
  BY <1>0, CallFacts DEF CallIds
<1>2. CASE \E p \in c.params : RequestOp(c.caller, p) /\ Answered(i, "pending", NewId)
  <2>1. NewId \in Ids
    BY <1>0, NewIdIsNew
  <2>2. CallsKept
    BY <1>0, <1>2, <2>1, AboutsFacts, AnsweredStep
  <2>. QED  BY <1>1, <1>2, <2>2 DEF Next
<1>3. CASE /\ c.op = "confirm" /\ \E p \in Params : ConfirmOp(c.caller, c.id, p)
           /\ calls' = [calls EXCEPT ![i].at = "executing"]
  <2>1. CallsKept
    BY <1>0, <1>3, StartedStep
  <2>. QED  BY <1>1, <1>3, <2>1 DEF Next
<1>4. CASE /\ c.op = "confirm" /\ ConfirmUnknown(c.caller, c.id)
           /\ Answered(i, "unknown", NoId)
  <2>1. CallsKept
    BY <1>0, <1>4, AboutsFacts, AnsweredStep
  <2>. QED  BY <1>1, <1>4, <2>1 DEF Next
<1>5. CASE ConfirmDenied(c.caller) /\ Answered(i, "denied", NoId)
  <2>1. CallsKept
    BY <1>0, <1>5, AboutsFacts, AnsweredStep
  <2>. QED  BY <1>1, <1>5, <2>1 DEF Next
<1>. QED  BY <1>2, <1>3, <1>4, <1>5 DEF Route

-----------------------------------------------------------------------------
LEMMA InitCInv == CallersInit => CInv
<1>1. ASSUME CallersInit PROVE IInv /\ calls = <<>>
  BY <1>1, InitIInv DEF CallersInit
<1>2. ASSUME calls = <<>> PROVE CallersTypeOK /\ CallIds
  BY <1>2 DEF CallersTypeOK, CallIds
<1>. QED  BY <1>1, <1>2 DEF CInv

(* Every step keeps the types of the calls, and is a step of the gate.     *)
LEMMA CallersStep ==
  ASSUME CInv, [CallersNext]_callersVars
  PROVE  CInv' /\ [Next]_vars
<1>0. IInv /\ CallersTypeOK /\ CallIds
  BY DEF CInv
<1>. DEFINE Good == [Next]_vars /\ (CallsKept \/ (CallersTypeOK' /\ CallIds'))
<1>1. SUFFICES Good
  BY <1>0, EveryStep, LogGrows, KeptIsTyped, KeptIds DEF CInv
<1>2. ASSUME NEW caller \in Callers, NEW p \in Params, SendConfirmationRequest(caller, p)
      PROVE  Good
  <2>1. SendAction("request", caller, {p}, NoId)
    BY <1>2 DEF SendConfirmationRequest
  <2>. QED  BY <1>0, <2>1, SendStep
<1>3. ASSUME NEW caller \in Callers, NEW id \in DOMAIN log, SendConfirmation(caller, id)
      PROVE  Good
  <2>1. SendAction("confirm", caller, {}, id)
    BY <1>3 DEF SendConfirmation
  <2>2. id \in Ids
    BY <1>0 DEF IInv, TypeOK
  <2>. QED  BY <1>0, <2>1, <2>2, SendStep
<1>4. ASSUME NEW i \in DOMAIN calls, NEW j \in DOMAIN calls, ReadAnswer(i, j)
      PROVE  Good
  <2>1. UNCHANGED vars  BY <1>4 DEF ReadAnswer
  <2>. QED  BY <1>0, <1>4, <2>1, ReadStep
<1>5. ASSUME NEW i \in DOMAIN calls, TimeOut(i)
      PROVE  Good
  <2>1. UNCHANGED vars  BY <1>5 DEF TimeOut
  <2>. QED  BY <1>0, <1>5, <2>1, TimeOutStep
<1>6. ASSUME NEW i \in DOMAIN calls, KernelGivesUp(i)
      PROVE  Good
  <2>1. UNCHANGED vars /\ Answered(i, "kernel", NoId)  BY <1>6 DEF KernelGivesUp
  <2>. QED  BY <1>0, <2>1, AboutsFacts, AnsweredStep
<1>7. ASSUME NEW i \in DOMAIN calls, Route(i)
      PROVE  Good
  BY <1>7, RouteStep
<1>8. ASSUME NEW call \in executing, NEW result \in Results, ExecutorDone(call, result)
      PROVE  Good
  <2>1. Next  BY <1>8 DEF ExecutorDone, Next
  <2>. QED  BY <1>0, <1>8, <2>1, ExecutorDoneStep
<1>9. ASSUME Tick /\ UNCHANGED calls
      PROVE  Good
  <2>1. Next  BY <1>9 DEF Next
  <2>2. UNCHANGED log  BY <1>9 DEF Tick
  <2>. QED  BY <1>0, <1>9, <2>1, <2>2 DEF CallersTypeOK, CallIds
<1>10. ASSUME PluginRestarts
       PROVE  Good
  <2>1. Next  BY <1>10 DEF PluginRestarts, Next
  <2>. QED  BY <1>0, <1>10, <2>1, RestartStep
<1>11. ASSUME UNCHANGED callersVars
       PROVE  Good
  <2>1. UNCHANGED <<vars, calls, log>>  BY <1>11 DEF callersVars, vars
  <2>. QED  BY <1>0, <2>1 DEF CallersTypeOK, CallIds
<1>. HIDE DEF Good
<1>. QED  BY <1>2, <1>3, <1>4, <1>5, <1>6, <1>7, <1>8, <1>9, <1>10, <1>11 DEF CallersNext

(* The calls are well-typed beside a gate whose own invariant holds, and   *)
(* confirmations name ids that were given out (lines 380-390).             *)
THEOREM CallersInvariance == CallersSpec => []CInv
<1>1. CInv /\ [CallersNext]_callersVars => CInv'
  BY CallersStep
<1>. QED  BY <1>1, InitCInv, PTL DEF CallersSpec

(* The calls keep their types, for any number of calls and callers.        *)
THEOREM CallersTypeCorrect == CallersSpec => []CallersTypeOK
<1>1. CInv => CallersTypeOK
  BY DEF CInv
<1>. QED  BY <1>1, CallersInvariance, PTL

(* Whatever callers do, and however calls and replies are delayed, the gate*)
(* does what ConfirmationGate allows.                                      *)
THEOREM CallersImplementGate == CallersSpec => Spec
<1>1. CallersInit => Init
  BY DEF CallersInit
<1>2. CInv /\ [CallersNext]_callersVars => [Next]_vars
  BY CallersStep
<1>. QED  BY <1>1, <1>2, CallersInvariance, PTL DEF CallersSpec, Spec

(* So confirmations that are retried after a timeout do not run a request  *)
(* twice (_take_pending, lines 392-398).                                   *)
THEOREM RetriesExecuteOnce == CallersSpec => []ExecutedAtMostOnce
BY CallersImplementGate, AtMostOnce, PTL

(* The rest of what the gate promises, for its callers: whatever they retry*)
(* and however late replies are, the executor gets the stored parameters   *)
(* for an approved caller in time, an id never names two requests, and     *)
(* _sweep_expired_locked (line 400) leaves nothing old in the map.         *)
THEOREM CallersKeepPromises ==
  CallersSpec => /\ []TypeOK /\ []ExecutedAsRequested
                 /\ []PendingIsRecent /\ IdsNeverReused
BY CallersImplementGate, TypeCorrect, AsRequested, RecentOnly, NeverReused, PTL

-----------------------------------------------------------------------------
(* What callers are told.  Call k holds a pending id in its reply, on the  *)
(* way or received.                                                        *)
HoldsId(c, id) == id # NoId /\ (c.answer.id = id \/ c.got.id = id)

Asked(c, id) ==
  /\ c.op = "request" /\ id \in DOMAIN log
  /\ c.params = {log[id].params} /\ c.caller = log[id].caller

(* A confirmation that executes its request, or is told that it did.       *)
Succeeds(c) == c.op = "confirm" /\ (c.at = "executing" \/ c.answer.ok \/ c.got.ok)

(* What holds of each call by itself.                                      *)
CallInv(c) ==
  /\ c.op = "request" => \E p \in Params : c.params = {p}
  /\ c.answer.about = "kernel" => c.answer.id = NoId /\ ~c.answer.ok
  /\ c.op = "request" /\ c.status = "returned" => c.got.id # NoId

EachCallInv == \A k \in DOMAIN calls : CallInv(calls[k])

(* A pending id is held by the one call that asked for it.                 *)
HolderInv ==
  /\ \A k \in DOMAIN calls : \A id : HoldsId(calls[k], id) => Asked(calls[k], id)
  /\ \A j, k \in DOMAIN calls : \A id :
       HoldsId(calls[j], id) /\ HoldsId(calls[k], id) => j = k

(* A request is executed by the one confirmation that succeeds.            *)
SuccessInv ==
  /\ \A k \in DOMAIN calls : Succeeds(calls[k]) =>
       started[calls[k].id] = 1 /\ MayConfirm(calls[k].caller)
  /\ \A j, k \in DOMAIN calls :
       Succeeds(calls[j]) /\ Succeeds(calls[k]) /\ calls[j].id = calls[k].id => j = k

ToldInv == EachCallInv /\ HolderInv /\ SuccessInv

(* A call that learns no pending id and starts no execution.               *)
QuietCall(c, d) ==
  /\ Same(c, d) /\ CallInv(d)
  /\ \A id : HoldsId(d, id) => HoldsId(c, id)
  /\ Succeeds(d) => Succeeds(c)

Quiet ==
  /\ UNCHANGED <<log, started>> /\ DOMAIN calls' = DOMAIN calls
  /\ \A k \in DOMAIN calls : QuietCall(calls[k], calls'[k])

LEMMA QuietStep == ASSUME ToldInv, Quiet PROVE ToldInv'
<1>1. EachCallInv'
  BY DEF Quiet, QuietCall, EachCallInv
<1>2. HolderInv'
  <2>1. ASSUME NEW k \in DOMAIN calls, NEW id, HoldsId(calls'[k], id)
        PROVE  HoldsId(calls[k], id) /\ (Asked(calls[k], id) => Asked(calls[k], id)')
    BY <2>1 DEF Quiet, QuietCall, Same, Asked
  <2>2. DOMAIN calls' = DOMAIN calls
    BY DEF Quiet
  <2>. QED  BY <2>1, <2>2 DEF ToldInv, HolderInv
<1>3. SuccessInv'
  <2>1. ASSUME NEW k \in DOMAIN calls, Succeeds(calls'[k])
        PROVE  /\ Succeeds(calls[k]) /\ calls'[k].id = calls[k].id
               /\ calls'[k].caller = calls[k].caller
    BY <2>1 DEF Quiet, QuietCall, Same
  <2>2. DOMAIN calls' = DOMAIN calls /\ started' = started
    BY DEF Quiet
  <2>. QED  BY <2>1, <2>2 DEF ToldInv, SuccessInv, MayConfirm
<1>. QED  BY <1>1, <1>2, <1>3 DEF ToldInv

LEMMA NoReplyFacts == NoReply.about = "none" /\ NoReply.id = NoId /\ ~NoReply.ok
BY DEF NoReply, Reply

(* An answer without an id: neither a request was stored nor one executed, *)
(* or it was executed by this very call.                                   *)
LEMMA QuietAnswer ==
  ASSUME NEW c \in Actions, CallInv(c), NEW about,
         about \in {"kernel", "unknown", "denied"} \/ c.at = "executing"
  PROVE  QuietCall(c, [c EXCEPT !.at = "answered", !.answer = Reply(about, NoId)])
<1>. DEFINE r == Reply(about, NoId)
            d == [c EXCEPT !.at = "answered", !.answer = r]
<1>1. /\ r.id = NoId /\ r.about = about
      /\ r.ok <=> about \in {"pending", "bytes", "okPair", "nothing"}
  BY DEF Reply
<1>. HIDE DEF r
<1>2. /\ d.op = c.op /\ d.caller = c.caller /\ d.params = c.params /\ d.id = c.id
      /\ d.at = "answered" /\ d.answer = r /\ d.got = c.got /\ d.status = c.status
  BY DEF Actions
<1>. HIDE DEF d
<1>3. about \in {"kernel", "unknown", "denied"} => ~r.ok
  BY <1>1
<1>4. about = "kernel" => r.id = NoId /\ ~r.ok
  BY <1>1
<1>5. CallInv(d)
  BY <1>1, <1>2, <1>4 DEF CallInv
<1>6. \A id : HoldsId(d, id) => HoldsId(c, id)
  BY <1>1, <1>2 DEF HoldsId
<1>7. Succeeds(d) => Succeeds(c)
  BY <1>2, <1>3 DEF Succeeds
<1>8. Same(c, d)
  BY <1>2 DEF Same
<1>9. QuietCall(c, d)
  BY <1>5, <1>6, <1>7, <1>8 DEF QuietCall
<1>. QED  BY <1>9 DEF d, r

(* Nothing changes but where the call is, or what its caller does.         *)
LEMMA QuietSame ==
  ASSUME NEW c \in Actions, CallInv(c)
  PROVE  /\ QuietCall(c, c)
         /\ QuietCall(c, [c EXCEPT !.at = "lost"])
         /\ QuietCall(c, [c EXCEPT !.status = "timedOut"])
         /\ QuietCall(c, [c EXCEPT !.at = "read", !.answer = NoReply])
<1>1. QuietCall(c, c)
  BY DEF QuietCall, Same
<1>2. QuietCall(c, [c EXCEPT !.at = "lost"])
  BY DEF QuietCall, Same, CallInv, HoldsId, Succeeds, Actions
<1>3. QuietCall(c, [c EXCEPT !.status = "timedOut"])
  BY DEF QuietCall, Same, CallInv, HoldsId, Succeeds, Actions
<1>4. QuietCall(c, [c EXCEPT !.at = "read", !.answer = NoReply])
  BY NoReplyFacts DEF QuietCall, Same, CallInv, HoldsId, Succeeds, Actions
<1>. QED  BY <1>1, <1>2, <1>3, <1>4

(* The reply a call takes is its own, or the kernel's.                     *)
LEMMA QuietRead ==
  ASSUME CallersTypeOK, EachCallInv, NEW i \in DOMAIN calls, NEW j \in DOMAIN calls,
         ReadAnswer(i, j)
  PROVE  /\ DOMAIN calls' = DOMAIN calls
         /\ \A k \in DOMAIN calls : QuietCall(calls[k], calls'[k])
<1>. DEFINE a    == calls[j].answer
            e(k) == IF k = j THEN [calls[k] EXCEPT !.at = "read", !.answer = NoReply]
                             ELSE calls[k]
            d(k) == IF k = i /\ Matches(i, j)
                      THEN [e(k) EXCEPT !.got = a, !.status = StatusAfter(e(k).op, a)]
                      ELSE e(k)
<1>1. calls' = [k \in DOMAIN calls |-> d(k)]
  BY DEF ReadAnswer
<1>2. \A k \in DOMAIN calls : calls[k] \in Actions /\ CallInv(calls[k])
  BY CallFacts DEF EachCallInv
<1>3. \A k \in DOMAIN calls : QuietCall(calls[k], e(k))
  <2>. SUFFICES ASSUME NEW k \in DOMAIN calls PROVE QuietCall(calls[k], e(k))
    OBVIOUS
  <2>1. CASE k = j   BY <1>2, <2>1, QuietSame
  <2>2. CASE k # j
    <3>1. QuietCall(calls[k], calls[k])  BY <1>2, QuietSame
    <3>. QED  BY <2>2, <3>1
  <2>. QED  BY <2>1, <2>2
<1>4. ASSUME Matches(i, j)
      PROVE  QuietCall(calls[i], d(i))
  <2>. DEFINE c == calls[i]
              s == StatusAfter(c.op, a)
  <2>1. /\ a.about = "kernel" => a.id = NoId /\ ~a.ok
        /\ i = j \/ a.about = "kernel"
    BY <1>2, <1>4 DEF CallInv, Matches
  <2>2. /\ d(i).op = c.op /\ d(i).caller = c.caller /\ d(i).params = c.params
        /\ d(i).id = c.id /\ d(i).got = a /\ d(i).status = s
        /\ IF i = j THEN d(i).at = "read" /\ d(i).answer = NoReply
                    ELSE d(i).at = c.at /\ d(i).answer = c.answer
    <3>1. e(i) \in [op : {e(i).op}, caller : {e(i).caller}, params : {e(i).params},
                    id : {e(i).id}, at : {e(i).at}, answer : {e(i).answer},
                    got : {e(i).got}, status : {e(i).status}]
      BY <1>2 DEF Actions
    <3>2. /\ e(i).op = c.op /\ e(i).caller = c.caller /\ e(i).params = c.params
          /\ e(i).id = c.id
          /\ IF i = j THEN e(i).at = "read" /\ e(i).answer = NoReply
                      ELSE e(i).at = c.at /\ e(i).answer = c.answer
      BY <1>2 DEF Actions
    <3>. HIDE DEF e
    <3>. QED  BY <1>4, <3>1, <3>2
  <2>3. c.op = "request" /\ s = "returned" => a.id # NoId
    BY DEF StatusAfter
  <2>4. CallInv(c)  BY <1>2
  <2>. HIDE DEF d
  <2>5. CallInv(d(i))
    BY <2>2, <2>3, <2>4, NoReplyFacts DEF CallInv
  <2>6. \A id : HoldsId(d(i), id) => HoldsId(c, id)
    BY <2>1, <2>2, NoReplyFacts DEF HoldsId
  <2>7. Succeeds(d(i)) => Succeeds(c)
    BY <2>1, <2>2, NoReplyFacts DEF Succeeds
  <2>8. Same(c, d(i))
    BY <2>2 DEF Same
  <2>. QED  BY <2>5, <2>6, <2>7, <2>8 DEF QuietCall
<1>. HIDE DEF e
<1>5. ASSUME NEW k \in DOMAIN calls, ~(k = i /\ Matches(i, j))
      PROVE  d(k) = e(k)
  BY <1>5
<1>. HIDE DEF d
<1>6. \A k \in DOMAIN calls : QuietCall(calls[k], d(k))
  BY <1>3, <1>4, <1>5
<1>. QED  BY <1>1, <1>6

-----------------------------------------------------------------------------
TInv == CInv /\ ToldInv

(* A request that is stored gets an id that no call has held before.       *)
LEMMA StoreTold ==
  ASSUME TInv, NEW i \in DOMAIN calls, calls[i].op = "request",
         NEW p \in calls[i].params, RequestOp(calls[i].caller, p),
         Answered(i, "pending", NewId)
  PROVE  ToldInv'
<1>. DEFINE n == NewId
            r == Reply("pending", n)
            entry == [params |-> p, caller |-> calls[i].caller, created |-> now]
<1>1. /\ ToldInv /\ EachCallInv /\ HolderInv /\ SuccessInv /\ CallersTypeOK
      /\ CallIds /\ TypeOK /\ IdInv
  BY DEF TInv, CInv, IInv, ToldInv
<1>2. n \in Ids /\ n \notin DOMAIN log
  BY <1>1, NewIdIsNew
<1>3. r.id = n /\ r.about = "pending"
  BY DEF Reply
<1>4. /\ calls' = [calls EXCEPT ![i].at = "answered", ![i].answer = r]
      /\ log' = With(log, n, entry) /\ started' = With(started, n, 0)
  BY DEF Answered, RequestOp
<1>5. calls[i].params = {p}
  BY <1>1 DEF EachCallInv, CallInv
<1>6. entry.params = p /\ entry.caller = calls[i].caller
  OBVIOUS
<1>. HIDE DEF n, r, entry
<1>7. /\ log'[n] = entry /\ DOMAIN log' = DOMAIN log \cup {n}
      /\ \A id \in DOMAIN log : log'[id] = log[id] /\ started'[id] = started[id]
  <2>1. DOMAIN started = DOMAIN log  BY <1>1 DEF TypeOK
  <2>. QED  BY <1>2, <1>4, <2>1 DEF With
<1>8. /\ DOMAIN calls' = DOMAIN calls
      /\ \A k \in DOMAIN calls \ {i} : calls'[k] = calls[k]
      /\ calls'[i].op = "request" /\ calls'[i].params = {p}
      /\ calls'[i].caller = calls[i].caller
      /\ calls'[i].answer = r /\ calls'[i].got = calls[i].got
      /\ calls'[i].status = calls[i].status
  <2>1. calls[i] \in Actions  BY <1>1, CallFacts
  <2>. QED  BY <1>4, <1>5, <2>1 DEF Actions
<1>9. EachCallInv'
  <2>1. CallInv(calls'[i])
    <3>1. CallInv(calls[i])  BY <1>1 DEF EachCallInv
    <3>2. p \in Params  BY <1>1, CallFacts
    <3>. QED  BY <1>3, <1>8, <3>1, <3>2 DEF CallInv
  <2>. QED  BY <1>1, <1>8, <2>1 DEF EachCallInv
<1>10. \A k \in DOMAIN calls : \A id :
         HoldsId(calls'[k], id) => HoldsId(calls[k], id) \/ (k = i /\ id = n)
  BY <1>3, <1>8 DEF HoldsId
<1>11. \A k \in DOMAIN calls : \A id :
         HoldsId(calls[k], id) => id \in DOMAIN log /\ id # n /\ Asked(calls[k], id)
  BY <1>1, <1>2 DEF HolderInv, Asked
<1>12. HolderInv'
  <2>1. ASSUME NEW k \in DOMAIN calls, NEW id, HoldsId(calls'[k], id)
        PROVE  Asked(calls[k], id)'
    <3>1. CASE k = i /\ id = n
      BY <1>6, <1>7, <1>8, <3>1 DEF Asked
    <3>2. CASE HoldsId(calls[k], id)
      <4>1. Asked(calls[k], id) /\ log'[id] = log[id] /\ id \in DOMAIN log'
        BY <1>7, <1>11, <3>2
      <4>2. /\ calls'[k].op = calls[k].op /\ calls'[k].params = calls[k].params
            /\ calls'[k].caller = calls[k].caller
        BY <1>5, <1>8
      <4>. QED  BY <4>1, <4>2 DEF Asked
    <3>. QED  BY <1>10, <2>1, <3>1, <3>2
  <2>2. ASSUME NEW j \in DOMAIN calls, NEW k \in DOMAIN calls, NEW id,
               HoldsId(calls'[j], id), HoldsId(calls'[k], id)
        PROVE  j = k
    <3>1. CASE HoldsId(calls[j], id) /\ HoldsId(calls[k], id)
      BY <1>1, <3>1 DEF HolderInv
    <3>2. CASE j = i /\ k = i
      BY <3>2
    <3>3. HoldsId(calls[j], id) \/ (j = i /\ id = n)
      BY <1>10, <2>2
    <3>4. HoldsId(calls[k], id) \/ (k = i /\ id = n)
      BY <1>10, <2>2
    <3>5. ~(HoldsId(calls[j], id) /\ id = n) /\ ~(HoldsId(calls[k], id) /\ id = n)
      BY <1>11
    <3>. QED  BY <3>1, <3>2, <3>3, <3>4, <3>5
  <2>. QED  BY <1>8, <2>1, <2>2 DEF HolderInv
<1>13. SuccessInv'
  <2>1. ASSUME NEW k \in DOMAIN calls, Succeeds(calls'[k])
        PROVE  /\ k # i /\ calls'[k] = calls[k] /\ calls[k].id \in DOMAIN log
    BY <1>1, <1>8, <2>1 DEF Succeeds, CallIds
  <2>. QED  BY <1>1, <1>7, <1>8, <2>1 DEF SuccessInv, MayConfirm
<1>. QED  BY <1>9, <1>12, <1>13 DEF ToldInv

(* The confirmation that takes a request is the first that succeeds.       *)
LEMMA ConfirmTold ==
  ASSUME TInv, NEW i \in DOMAIN calls, calls[i].op = "confirm", NEW p \in Params,
         ConfirmOp(calls[i].caller, calls[i].id, p),
         calls' = [calls EXCEPT ![i].at = "executing"]
  PROVE  ToldInv'
<1>. DEFINE n == calls[i].id
<1>1. /\ ToldInv /\ EachCallInv /\ HolderInv /\ SuccessInv /\ CallersTypeOK
      /\ CallIds /\ TypeOK /\ PendingInv
  BY DEF TInv, CInv, IInv, ToldInv
<1>2. /\ n \in Unexpired /\ MayConfirm(calls[i].caller)
      /\ started' = [started EXCEPT ![n] = @ + 1] /\ UNCHANGED log
  BY DEF ConfirmOp
<1>3. n \in DOMAIN log /\ started[n] = 0
  BY <1>1, <1>2, UnexpiredFacts
<1>4. started'[n] = 1 /\ \A id \in DOMAIN log \ {n} : started'[id] = started[id]
  <2>1. started \in [DOMAIN log -> Nat]  BY <1>1 DEF TypeOK
  <2>. QED  BY <1>2, <1>3, <2>1
<1>5. /\ DOMAIN calls' = DOMAIN calls
      /\ \A k \in DOMAIN calls \ {i} : calls'[k] = calls[k]
      /\ calls'[i].op = "confirm" /\ calls'[i].id = n
      /\ calls'[i].caller = calls[i].caller /\ calls'[i].params = calls[i].params
      /\ calls'[i].answer = calls[i].answer /\ calls'[i].got = calls[i].got
      /\ calls'[i].status = calls[i].status
  <2>1. calls[i] \in Actions  BY <1>1, CallFacts
  <2>. QED  BY <2>1 DEF Actions
<1>. HIDE DEF n
<1>6. EachCallInv'
  BY <1>1, <1>5 DEF EachCallInv, CallInv
<1>7. HolderInv'
  <2>1. \A k \in DOMAIN calls : \A id :
          /\ HoldsId(calls'[k], id) => HoldsId(calls[k], id)
          /\ Asked(calls[k], id) => Asked(calls[k], id)'
    BY <1>2, <1>5 DEF HoldsId, Asked
  <2>. QED  BY <1>1, <1>5, <2>1 DEF HolderInv
<1>8. SuccessInv'
  <2>1. ASSUME NEW k \in DOMAIN calls \ {i}, Succeeds(calls'[k])
        PROVE  /\ calls'[k] = calls[k] /\ Succeeds(calls[k])
               /\ calls[k].id \in DOMAIN log /\ calls[k].id # n
               /\ started[calls[k].id] = 1
    <3>1. Succeeds(calls[k]) /\ calls'[k] = calls[k]  BY <1>5, <2>1
    <3>2. started[calls[k].id] = 1  BY <1>1, <3>1 DEF SuccessInv
    <3>3. calls[k].id \in DOMAIN log  BY <1>1, <3>1 DEF Succeeds, CallIds
    <3>. QED  BY <1>3, <3>1, <3>2, <3>3
  <2>2. ASSUME NEW k \in DOMAIN calls, Succeeds(calls'[k])
        PROVE  started'[calls'[k].id] = 1 /\ MayConfirm(calls'[k].caller)
    <3>1. CASE k = i   BY <1>2, <1>4, <1>5, <3>1
    <3>2. CASE k # i   BY <1>1, <1>4, <2>1, <2>2, <3>2 DEF SuccessInv
    <3>. QED  BY <3>1, <3>2
  <2>3. ASSUME NEW j \in DOMAIN calls, NEW k \in DOMAIN calls, Succeeds(calls'[j]),
               Succeeds(calls'[k]), calls'[j].id = calls'[k].id
        PROVE  j = k
    <3>1. CASE j = i /\ k # i   BY <1>5, <2>1, <2>3, <3>1
    <3>2. CASE j # i /\ k = i   BY <1>5, <2>1, <2>3, <3>2
    <3>3. CASE j # i /\ k # i   BY <1>1, <2>1, <2>3, <3>3 DEF SuccessInv
    <3>. QED  BY <3>1, <3>2, <3>3
  <2>. QED  BY <1>5, <2>2, <2>3 DEF SuccessInv, MayConfirm
<1>. QED  BY <1>6, <1>7, <1>8 DEF ToldInv

(* What a call is answered without an id, when nothing else changes.       *)
LEMMA AnsweredTold ==
  ASSUME TInv, NEW i \in DOMAIN calls, NEW about \in {"kernel", "unknown", "denied"},
         Answered(i, about, NoId), UNCHANGED <<log, started>>
  PROVE  ToldInv'
<1>. DEFINE d == [calls[i] EXCEPT !.at = "answered", !.answer = Reply(about, NoId)]
<1>1. ToldInv /\ EachCallInv /\ CallersTypeOK
  BY DEF TInv, CInv, ToldInv
<1>2. \A k \in DOMAIN calls : calls[k] \in Actions /\ CallInv(calls[k])
  BY <1>1, CallFacts DEF EachCallInv
<1>3. QuietCall(calls[i], d)
  BY <1>2, QuietAnswer
<1>4. /\ DOMAIN calls' = DOMAIN calls
      /\ \A k \in DOMAIN calls : calls'[k] = IF k = i THEN d ELSE calls[k]
  BY DEF Answered
<1>5. \A k \in DOMAIN calls : QuietCall(calls[k], calls[k])
  BY <1>2, QuietSame
<1>. HIDE DEF d
<1>6. \A k \in DOMAIN calls : QuietCall(calls[k], calls'[k])
  BY <1>3, <1>4, <1>5
<1>. QED  BY <1>1, <1>4, <1>6, QuietStep DEF Quiet

(* A new call knows nothing yet.                                           *)
LEMMA SendTold ==
  ASSUME TInv, NEW op \in {"request", "confirm"}, NEW caller, NEW params, NEW id,
         op = "request" => \E p \in Params : params = {p},
         SendAction(op, caller, params, id)
  PROVE  ToldInv'
<1>. DEFINE c == [op |-> op, caller |-> caller, params |-> params, id |-> id,
                  at |-> "kernel", answer |-> NoReply, got |-> NoReply,
                  status |-> "open"]
            n == Len(calls) + 1
<1>1. ToldInv /\ EachCallInv /\ HolderInv /\ SuccessInv /\ CallersTypeOK
  BY DEF TInv, CInv, ToldInv
<1>2. /\ calls' = Append(calls, c) /\ UNCHANGED <<log, started>>
  BY DEF SendAction, vars
<1>3. /\ DOMAIN calls' = DOMAIN calls \cup {n} /\ calls'[n] = c
      /\ \A k \in DOMAIN calls : calls'[k] = calls[k]
  BY <1>1, <1>2 DEF CallersTypeOK
<1>4. CallInv(c) /\ (\A h : ~HoldsId(c, h)) /\ ~Succeeds(c)
  BY NoReplyFacts DEF CallInv, HoldsId, Succeeds
<1>. HIDE DEF c, n
<1>5. EachCallInv'
  BY <1>1, <1>3, <1>4 DEF EachCallInv
<1>6. HolderInv'
  <2>1. ASSUME NEW k \in DOMAIN calls', NEW h, HoldsId(calls'[k], h)
        PROVE  k \in DOMAIN calls /\ calls'[k] = calls[k] /\ HoldsId(calls[k], h)
    BY <1>3, <1>4, <2>1
  <2>2. ASSUME NEW k \in DOMAIN calls, NEW h, Asked(calls[k], h)
        PROVE  Asked(calls[k], h)'
    BY <1>2, <1>3, <2>2 DEF Asked
  <2>. QED  BY <1>1, <2>1, <2>2 DEF HolderInv
<1>7. SuccessInv'
  <2>1. ASSUME NEW k \in DOMAIN calls', Succeeds(calls'[k])
        PROVE  k \in DOMAIN calls /\ calls'[k] = calls[k] /\ Succeeds(calls[k])
    BY <1>3, <1>4, <2>1
  <2>. QED  BY <1>1, <1>2, <2>1 DEF SuccessInv, MayConfirm
<1>. QED  BY <1>5, <1>6, <1>7 DEF ToldInv

LEMMA ExecutorDoneTold ==
  ASSUME TInv, NEW call \in executing, NEW result \in Results, ExecutorDone(call, result)
  PROVE  ToldInv'
<1>. DEFINE hit(k) == calls[k].at = "executing" /\ calls[k].id = call.id
            d(k) == [calls[k] EXCEPT !.at = "answered", !.answer = Reply(result, NoId)]
<1>1. ToldInv /\ EachCallInv /\ CallersTypeOK
  BY DEF TInv, CInv, ToldInv
<1>2. \A k \in DOMAIN calls : calls[k] \in Actions /\ CallInv(calls[k])
  BY <1>1, CallFacts DEF EachCallInv
<1>3. \A k \in DOMAIN calls : hit(k) => QuietCall(calls[k], d(k))
  BY <1>2, QuietAnswer
<1>4. /\ DOMAIN calls' = DOMAIN calls
      /\ \A k \in DOMAIN calls : calls'[k] = IF hit(k) THEN d(k) ELSE calls[k]
  BY DEF ExecutorDone
<1>5. \A k \in DOMAIN calls : QuietCall(calls[k], calls[k])
  BY <1>2, QuietSame
<1>6. UNCHANGED <<log, started>>
  BY DEF ExecutorDone, ExecutorEnds
<1>. HIDE DEF d, hit
<1>7. \A k \in DOMAIN calls : QuietCall(calls[k], calls'[k])
  BY <1>3, <1>4, <1>5
<1>. QED  BY <1>1, <1>4, <1>6, <1>7, QuietStep DEF Quiet

LEMMA RestartTold ==
  ASSUME TInv, PluginRestarts
  PROVE  ToldInv'
<1>. DEFINE d(k) == [calls[k] EXCEPT !.at = "lost"]
<1>1. ToldInv /\ EachCallInv /\ CallersTypeOK
  BY DEF TInv, CInv, ToldInv
<1>2. \A k \in DOMAIN calls : calls[k] \in Actions /\ CallInv(calls[k])
  BY <1>1, CallFacts DEF EachCallInv
<1>3. \A k \in DOMAIN calls : QuietCall(calls[k], calls[k]) /\ QuietCall(calls[k], d(k))
  BY <1>2, QuietSame
<1>4. /\ DOMAIN calls' = DOMAIN calls
      /\ \A k \in DOMAIN calls :
           calls'[k] = IF calls[k].at = "executing" THEN d(k) ELSE calls[k]
  BY DEF PluginRestarts
<1>5. UNCHANGED <<log, started>>
  BY DEF PluginRestarts, Restart
<1>. HIDE DEF d
<1>6. \A k \in DOMAIN calls : QuietCall(calls[k], calls'[k])
  BY <1>3, <1>4
<1>. QED  BY <1>1, <1>4, <1>5, <1>6, QuietStep DEF Quiet

LEMMA TimeOutTold ==
  ASSUME TInv, NEW i \in DOMAIN calls, TimeOut(i)
  PROVE  ToldInv'
<1>. DEFINE d == [calls[i] EXCEPT !.status = "timedOut"]
<1>1. ToldInv /\ EachCallInv /\ CallersTypeOK
  BY DEF TInv, CInv, ToldInv
<1>2. \A k \in DOMAIN calls : calls[k] \in Actions /\ CallInv(calls[k])
  BY <1>1, CallFacts DEF EachCallInv
<1>3. QuietCall(calls[i], d) /\ \A k \in DOMAIN calls : QuietCall(calls[k], calls[k])
  BY <1>2, QuietSame
<1>4. /\ DOMAIN calls' = DOMAIN calls
      /\ \A k \in DOMAIN calls : calls'[k] = IF k = i THEN d ELSE calls[k]
  BY DEF TimeOut
<1>5. UNCHANGED <<log, started>>
  BY DEF TimeOut, vars
<1>. HIDE DEF d
<1>6. \A k \in DOMAIN calls : QuietCall(calls[k], calls'[k])
  BY <1>3, <1>4
<1>. QED  BY <1>1, <1>4, <1>5, <1>6, QuietStep DEF Quiet

LEMMA UnchangedTold ==
  ASSUME TInv, UNCHANGED <<calls, log, started>>
  PROVE  ToldInv'
<1>1. ToldInv /\ EachCallInv /\ CallersTypeOK
  BY DEF TInv, CInv, ToldInv
<1>2. \A k \in DOMAIN calls : QuietCall(calls[k], calls[k])
  BY <1>1, CallFacts, QuietSame DEF EachCallInv
<1>. QED  BY <1>1, <1>2, QuietStep DEF Quiet

-----------------------------------------------------------------------------
LEMMA ToldStep ==
  ASSUME TInv, [CallersNext]_callersVars
  PROVE  ToldInv'
<1>0. EachCallInv /\ CallersTypeOK /\ ToldInv /\ CInv
  BY DEF TInv, CInv, ToldInv
<1>1. ASSUME NEW caller \in Callers, NEW p \in Params, SendConfirmationRequest(caller, p)
      PROVE  ToldInv'
  BY <1>1, SendTold DEF SendConfirmationRequest
<1>2. ASSUME NEW caller \in Callers, NEW id \in DOMAIN log, SendConfirmation(caller, id)
      PROVE  ToldInv'
  BY <1>2, SendTold DEF SendConfirmation
<1>3. ASSUME NEW i \in DOMAIN calls, NEW j \in DOMAIN calls, ReadAnswer(i, j)
      PROVE  ToldInv'
  <2>1. UNCHANGED <<log, started>>  BY <1>3 DEF ReadAnswer, vars
  <2>. QED  BY <1>0, <1>3, <2>1, QuietRead, QuietStep DEF Quiet
<1>4. ASSUME NEW i \in DOMAIN calls, TimeOut(i)
      PROVE  ToldInv'
  BY <1>4, TimeOutTold
<1>5. ASSUME NEW i \in DOMAIN calls, KernelGivesUp(i)
      PROVE  ToldInv'
  <2>1. UNCHANGED <<log, started>> /\ Answered(i, "kernel", NoId)
    BY <1>5 DEF KernelGivesUp, vars
  <2>. QED  BY <2>1, AnsweredTold
<1>6. ASSUME NEW i \in DOMAIN calls, Route(i)
      PROVE  ToldInv'
  <2>. DEFINE c == calls[i]
  <2>1. CASE /\ c.op = "request" /\ \E p \in c.params : RequestOp(c.caller, p)
             /\ Answered(i, "pending", NewId)
    BY <2>1, StoreTold
  <2>2. CASE /\ c.op = "confirm" /\ \E p \in Params : ConfirmOp(c.caller, c.id, p)
             /\ calls' = [calls EXCEPT ![i].at = "executing"]
    BY <2>2, ConfirmTold
  <2>3. CASE ConfirmUnknown(c.caller, c.id) /\ Answered(i, "unknown", NoId)
    <3>1. UNCHANGED <<log, started>>  BY <2>3 DEF ConfirmUnknown
    <3>. QED  BY <2>3, <3>1, AnsweredTold
  <2>4. CASE ConfirmDenied(c.caller) /\ Answered(i, "denied", NoId)
    <3>1. UNCHANGED <<log, started>>  BY <2>4 DEF ConfirmDenied, vars
    <3>. QED  BY <2>4, <3>1, AnsweredTold
  <2>. QED  BY <1>6, <2>1, <2>2, <2>3, <2>4 DEF Route
<1>7. ASSUME NEW call \in executing, NEW result \in Results, ExecutorDone(call, result)
      PROVE  ToldInv'
  BY <1>7, ExecutorDoneTold
<1>8. ASSUME Tick /\ UNCHANGED calls
      PROVE  ToldInv'
  <2>1. UNCHANGED <<calls, log, started>>  BY <1>8 DEF Tick
  <2>. QED  BY <2>1, UnchangedTold
<1>9. ASSUME PluginRestarts
      PROVE  ToldInv'
  BY <1>9, RestartTold
<1>10. ASSUME UNCHANGED callersVars
       PROVE  ToldInv'
  <2>1. UNCHANGED <<calls, log, started>>  BY <1>10 DEF callersVars, vars
  <2>. QED  BY <2>1, UnchangedTold
<1>. QED
  BY <1>1, <1>2, <1>3, <1>4, <1>5, <1>6, <1>7, <1>8, <1>9, <1>10 DEF CallersNext

LEMMA InitTold == CallersInit => TInv
<1>1. CallersInit => calls = <<>>
  BY DEF CallersInit
<1>2. calls = <<>> => ToldInv
  BY DEF ToldInv, EachCallInv, HolderInv, SuccessInv
<1>. QED  BY <1>1, <1>2, InitCInv DEF TInv

(* What callers were told agrees with the gate: whose an id is, and whether*)
(* a confirmation ran it (lines 423-465).                                  *)
THEOREM ToldInvariance == CallersSpec => []TInv
<1>1. TInv /\ [CallersNext]_callersVars => TInv'
  BY CallersStep, ToldStep DEF TInv
<1>. QED  BY <1>1, InitTold, PTL DEF CallersSpec

(* The id a caller gets names what it asked for, and it alone got it: late *)
(* replies, retries and restarts never mix up two requests (lines 423-450).*)
THEOREM OwnRequestReturned == CallersSpec => []ReturnsOwnRequest
<1>1. TInv => ReturnsOwnRequest
  <2>. SUFFICES ASSUME TInv, NEW i \in DOMAIN calls,
                       calls[i].op = "request", calls[i].status = "returned"
                PROVE  /\ calls[i].got.id \in DOMAIN log
                       /\ calls[i].params = {log[calls[i].got.id].params}
                       /\ calls[i].caller = log[calls[i].got.id].caller
                       /\ \A j \in DOMAIN calls :
                            calls[j].got.id = calls[i].got.id => i = j
    BY DEF ReturnsOwnRequest
  <2>1. EachCallInv /\ HolderInv
    BY DEF TInv, ToldInv
  <2>2. HoldsId(calls[i], calls[i].got.id)
    BY <2>1 DEF EachCallInv, CallInv, HoldsId
  <2>3. \A j \in DOMAIN calls :
          calls[j].got.id = calls[i].got.id => HoldsId(calls[j], calls[i].got.id)
    BY <2>2 DEF HoldsId
  <2>. QED  BY <2>1, <2>2, <2>3 DEF HolderInv, Asked
<1>. QED  BY <1>1, ToldInvariance, PTL

(* A confirmation that returns success executed the request, once, and is  *)
(* the only one that does, however often it is retried (lines 453-465).    *)
THEOREM SuccessMeansExecuted == CallersSpec => []ConfirmedMeansExecuted
<1>1. TInv => ConfirmedMeansExecuted
  <2>. SUFFICES ASSUME TInv, NEW i \in DOMAIN calls, calls[i].op = "confirm",
                       calls[i].status = "returned", calls[i].got.ok
                PROVE  /\ started[calls[i].id] = 1 /\ MayConfirm(calls[i].caller)
                       /\ \A j \in DOMAIN calls \ {i} :
                            calls[j].op = "confirm" /\ calls[j].id = calls[i].id
                              => ~calls[j].got.ok
    BY DEF ConfirmedMeansExecuted
  <2>1. SuccessInv /\ Succeeds(calls[i])
    BY DEF TInv, ToldInv, Succeeds
  <2>2. ASSUME NEW j \in DOMAIN calls \ {i}, calls[j].op = "confirm",
               calls[j].id = calls[i].id, calls[j].got.ok
        PROVE  FALSE
    <3>1. Succeeds(calls[j])  BY <2>2 DEF Succeeds
    <3>. QED  BY <2>1, <2>2, <3>1 DEF SuccessInv
  <2>. QED  BY <2>1, <2>2 DEF SuccessInv
<1>. QED  BY <1>1, ToldInvariance, PTL
=============================================================================
