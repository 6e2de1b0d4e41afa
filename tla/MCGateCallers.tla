---------------------------- MODULE MCGateCallers ----------------------------
EXTENDS GateCallers, TLC

CONSTANTS phone, screen, ai, small, large

(* A paired device, one of its legacy per-capability registrations, an     *)
(* agent; the device itself and all its capabilities may confirm, or only  *)
(* the capabilities.                                                       *)
MCCallers        == {<<phone>>, <<phone, screen>>, <<ai>>}
DeviceMayConfirm == {[name |-> <<phone>>, glob |-> TRUE],
                     [name |-> <<phone>>, glob |-> FALSE]}

ParamsSymmetry == Permutations({small, large})
=============================================================================
