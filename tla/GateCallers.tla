----------------------------- MODULE GateCallers -----------------------------
(***************************************************************************)
(* The confirmation gate with its callers: send_confirmation_request and   *)
(* send_confirmation (src/vynkor/confirmation_gate.py) over                *)
(* VynkorClient.send_action, with the replies route gives them.            *)
(*                                                                         *)
(* Each caller has one action under way; it waits until a matching reply   *)
(* arrives or its deadline passes, and may then try again.  Requests and   *)
(* replies are delayed at will, replies outlive the deadline and are read  *)
(* by a later call, and a restart of the plugin loses what is executing.   *)
(* The kernel, in between, may give a call up and answer with an Error     *)
(* envelope.                                                               *)
(***************************************************************************)
EXTENDS ConfirmationGate

CONSTANTS
  Results,  \* what the executor may do
  MaxCalls  \* bound on the actions ever sent

(* It returns bytes, a pair of a status and a payload, None or a string, or*)
(* raises.                                                                 *)
AllResults == {"bytes", "okPair", "errorPair", "nothing", "errorString", "raises"}

ASSUME CallersAssumption == Results \subseteq AllResults /\ MaxCalls \in Nat

VARIABLE calls \* the actions sent so far; an index is an action id

callersVars == <<vars, calls>>

NoId == <<>>

(* What a reply may be about.                                              *)
Abouts  == AllResults \cup {"pending", "unknown", "denied", "kernel", "none"}

Answers == [about : Abouts, ok : BOOLEAN, id : Ids \cup {NoId}]

Actions == [op : {"request", "confirm"}, caller : Callers,
            params : SUBSET Params, id : Ids \cup {NoId},
            at : {"kernel", "executing", "answered", "read", "lost"},
            answer : Answers, got : Answers,
            status : {"open", "timedOut", "returned", "raised"}]

(* Mutation: the reply lacks its id.                                       *)
ReplyWithoutId(about, id) ==
  [about |-> about, ok |-> about \in {"pending", "bytes", "okPair", "nothing"}]

(* _response_ok and _response_err, as route calls them.  Of what a string  *)
(* says, nothing is sent: converting it to bytes raises.                   *)
Reply(about, id) ==
  [about |-> about,
   ok    |-> about \in {"pending", "bytes", "okPair", "nothing"},
   id    |-> id]

NoReply == Reply("none", NoId)

CallersTypeOK == calls \in Seq(Actions)

CallersInit == Init /\ calls = <<>>

-----------------------------------------------------------------------------
(* The callers.                                                            *)

Idle(caller) == \A i \in DOMAIN calls :
                  calls[i].caller = caller => calls[i].status # "open"

SendAction(op, caller, params, id) ==
  /\ Len(calls) < MaxCalls /\ Idle(caller)
  /\ calls' = Append(calls, [op |-> op, caller |-> caller, params |-> params,
                             id |-> id, at |-> "kernel", answer |-> NoReply,
                             got |-> NoReply, status |-> "open"])
  /\ UNCHANGED vars

SendConfirmationRequest(caller, p) == SendAction("request", caller, {p}, NoId)

SendConfirmation(caller, id) == SendAction("confirm", caller, {}, id)

(* Mutation: the reply of an earlier call is taken for one's own.          *)
MatchesAny(i, j) == TRUE

(* An ActionResponse matches by its action id, an Error envelope always.   *)
Matches(i, j) == i = j \/ calls[j].answer.about = "kernel"

(* What the helper of an action makes of a reply.                          *)
StatusAfter(op, answer) ==
  IF \/ answer.about = "kernel"
     \/ op = "request" /\ (~answer.ok \/ answer.id = NoId)
    THEN "raised" ELSE "returned"

(* Caller's call i reads the answer of call j, or discards it.             *)
ReadAnswer(i, j) ==
  /\ calls[i].status = "open" /\ calls[j].at = "answered"
  /\ calls[i].caller = calls[j].caller
  /\ calls' = [k \in DOMAIN calls |->
       LET c == IF k = j THEN [calls[k] EXCEPT !.at = "read", !.answer = NoReply]
                           ELSE calls[k]
       IN  IF k = i /\ Matches(i, j)
             THEN [c EXCEPT !.got = calls[j].answer,
                            !.status = StatusAfter(c.op, calls[j].answer)]
             ELSE c]
  /\ UNCHANGED vars

TimeOut(i) ==
  /\ calls[i].status = "open"
  /\ calls' = [calls EXCEPT ![i].status = "timedOut"]
  /\ UNCHANGED vars

-----------------------------------------------------------------------------
(* The kernel and the plugin.                                              *)

Answered(i, about, id) ==
  calls' = [calls EXCEPT ![i].at = "answered", ![i].answer = Reply(about, id)]

(* An executor that was started goes on when the kernel has given up.      *)
KernelGivesUp(i) ==
  /\ calls[i].at \in {"kernel", "executing"}
  /\ Answered(i, "kernel", NoId)
  /\ UNCHANGED vars

(* route, up to its reply or the start of the executor.                    *)
Route(i) ==
  LET c == calls[i]
  IN  /\ c.at = "kernel"
      /\ \/ /\ c.op = "request"
            /\ \E p \in c.params : RequestOp(c.caller, p)
            /\ Answered(i, "pending", NewId)
         \/ /\ c.op = "confirm"
            /\ \/ /\ \E p \in Params : ConfirmOp(c.caller, c.id, p)
                  /\ calls' = [calls EXCEPT ![i].at = "executing"]
               \/ ConfirmUnknown(c.caller, c.id) /\ Answered(i, "unknown", NoId)
               \/ ConfirmDenied(c.caller) /\ Answered(i, "denied", NoId)

(* The executor is done: route answers the call that started it, unless    *)
(* the kernel has already.                                                 *)
ExecutorDone(call, result) ==
  /\ ExecutorEnds(call)
  /\ calls' = [i \in DOMAIN calls |->
       IF calls[i].at = "executing" /\ calls[i].id = call.id
         THEN [calls[i] EXCEPT !.at = "answered", !.answer = Reply(result, NoId)]
         ELSE calls[i]]

PluginRestarts ==
  /\ Restart
  /\ calls' = [i \in DOMAIN calls |-> IF calls[i].at = "executing"
                                        THEN [calls[i] EXCEPT !.at = "lost"]
                                        ELSE calls[i]]

-----------------------------------------------------------------------------
CallersNext ==
  \/ \E caller \in Callers :
       \/ \E p \in Params : SendConfirmationRequest(caller, p)
       \/ \E id \in DOMAIN log : SendConfirmation(caller, id)
  \/ \E i \in DOMAIN calls :
       \/ \E j \in DOMAIN calls : ReadAnswer(i, j)
       \/ TimeOut(i) \/ KernelGivesUp(i) \/ Route(i)
  \/ \E call \in executing, result \in Results : ExecutorDone(call, result)
  \/ Tick /\ UNCHANGED calls
  \/ PluginRestarts

CallersSpec == CallersInit /\ [][CallersNext]_callersVars

-----------------------------------------------------------------------------
(* The id send_confirmation_request returns names what this very call asked*)
(* for, on behalf of this caller, and no other call got it (lines 423-450):*)
(* neither a late reply nor a restart makes a device confirm another       *)
(* operation than the one it is shown.                                     *)
ReturnsOwnRequest ==
  \A i \in DOMAIN calls :
    calls[i].op = "request" /\ calls[i].status = "returned" =>
      LET id == calls[i].got.id
      IN  /\ id \in DOMAIN log
          /\ calls[i].params = {log[id].params} /\ calls[i].caller = log[id].caller
          /\ \A j \in DOMAIN calls : calls[j].got.id = id => i = j

(* A confirmation that returns success did execute the request, once, and  *)
(* no other confirmation of the same request returns success, however often*)
(* it is retried after a timeout (lines 453-465, 339-345).                 *)
ConfirmedMeansExecuted ==
  \A i \in DOMAIN calls :
    calls[i].op = "confirm" /\ calls[i].status = "returned" /\ calls[i].got.ok =>
      /\ started[calls[i].id] = 1 /\ MayConfirm(calls[i].caller)
      /\ \A j \in DOMAIN calls \ {i} :
           calls[j].op = "confirm" /\ calls[j].id = calls[i].id => ~calls[j].got.ok
=============================================================================
