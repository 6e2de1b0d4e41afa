-------------------------- MODULE MCConcurrentLoop --------------------------
EXTENDS ConcurrentLoop

CONSTANTS r1, r2, ping, stop, event, other, empty, bad

MCKind ==
  [e \in Envelopes |->
     CASE e \in {r1, r2} -> "action_request"
       [] e = ping  -> "ping"
       [] e = stop  -> "plugin_shutdown"
       [] e = event -> "event"
       [] e = other -> "other"
       [] e = empty -> "empty"
       [] e = bad   -> "undecodable"]

(* Nothing too large, or the first envelope of r1.                         *)
NoneOversized == {}
FirstOversized == {<<r1, 1>>}
=============================================================================
