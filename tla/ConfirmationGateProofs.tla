----------------------- MODULE ConfirmationGateProofs -----------------------
(***************************************************************************)
(* Theorems about ConfirmationGate for all callers, allowlists, parameters *)
(* and times to live, and their proofs.                                    *)
(***************************************************************************)
EXTENDS ConfirmationGate, TLAPS

(* Ids given out by earlier processes carry earlier times; ids of this     *)
(* process carry smaller sequence numbers than the next one.               *)
IdInv ==
  /\ boot <= now
  /\ \A id \in DOMAIN log :
       id[1] <= now /\ (id[1] < boot \/ id[2] < seq)

(* What is pending is what was requested, and was not executed.            *)
PendingInv ==
  \A id \in DOMAIN pending : pending[id] = log[id] /\ started[id] = 0

StartedInv == \A id \in DOMAIN log : started[id] <= 1

IInv == TypeOK /\ IdInv /\ PendingInv /\ StartedInv /\ ExecutedAsRequested

-----------------------------------------------------------------------------
(* Only(f, ids) is f on ids.                                               *)
LEMMA OnlyFacts ==
  ASSUME NEW f, NEW ids
  PROVE  DOMAIN Only(f, ids) = ids /\ \A i \in ids : Only(f, ids)[i] = f[i]
  BY DEF Only

(* No request has had the next id before.                                  *)
LEMMA NewIdIsNew == TypeOK /\ IdInv => NewId \in Ids /\ NewId \notin DOMAIN log
  BY DEF TypeOK, IdInv, NewId, Ids

(* What the invariant says of an entry that the sweep leaves.              *)
LEMMA UnexpiredFacts ==
  ASSUME TypeOK, PendingInv, NEW id \in Unexpired
  PROVE  /\ id \in DOMAIN pending /\ id \in DOMAIN log /\ id \in Ids
         /\ pending[id] = log[id] /\ pending[id] \in Requests
         /\ started[id] = 0 /\ now - pending[id].created < Ttl
  BY DEF TypeOK, PendingInv, Unexpired

-----------------------------------------------------------------------------
(* request_<op> keeps the invariant and every request in the log.          *)
LEMMA RequestStep ==
  ASSUME IInv, NEW caller \in Callers, NEW p \in Params, RequestOp(caller, p)
  PROVE  IInv' /\ \A id \in DOMAIN log : log'[id] = log[id]
  <1> DEFINE entry == [params |-> p, caller |-> caller, created |-> now]
             n == NewId
  <1>1. TypeOK /\ IdInv /\ PendingInv /\ StartedInv /\ ExecutedAsRequested
    BY DEF IInv
  <1>2. n \in Ids /\ n \notin DOMAIN log /\ entry \in Requests
    BY <1>1, NewIdIsNew DEF TypeOK, Requests
  <1>3. /\ log' = With(log, n, entry) /\ started' = With(started, n, 0)
        /\ pending' = With(Only(pending, Unexpired), n, entry)
        /\ seq' = seq + 1 /\ lastSweep' = now
        /\ UNCHANGED <<now, boot, executing>>
    BY DEF RequestOp
  <1>4. n[1] = now /\ n[2] = seq
    BY DEF NewId
  <1> HIDE DEF entry, n
  <1>5. /\ DOMAIN log' = DOMAIN log \cup {n} /\ log'[n] = entry
        /\ \A i \in DOMAIN log : log'[i] = log[i]
    BY <1>2, <1>3 DEF With
  <1>6. /\ DOMAIN started' = DOMAIN log' /\ started'[n] = 0
        /\ \A i \in DOMAIN log : started'[i] = started[i]
    BY <1>1, <1>2, <1>3, <1>5 DEF With, TypeOK
  <1>7. /\ DOMAIN pending' = Unexpired \cup {n} /\ pending'[n] = entry
        /\ \A i \in Unexpired : pending'[i] = pending[i]
    <2>1. n \notin Unexpired
      BY <1>1, <1>2 DEF Unexpired, TypeOK
    <2> DEFINE left == Only(pending, Unexpired)
    <2>2. DOMAIN left = Unexpired /\ \A i \in Unexpired : left[i] = pending[i]
      BY OnlyFacts
    <2>3. pending' = With(left, n, entry)
      BY <1>3
    <2> HIDE DEF left
    <2> QED
      BY <2>1, <2>2, <2>3 DEF With
  <1>8. TypeOK'
    <2>1. started' \in [DOMAIN log' -> Nat]
      BY <1>1, <1>3, <1>5, <1>6 DEF TypeOK, With
    <2>2. DOMAIN pending' \subseteq DOMAIN log'
      BY <1>1, <1>5, <1>7, UnexpiredFacts
    <2>3. \A i \in DOMAIN pending' : pending'[i] \in Requests
      BY <1>1, <1>2, <1>7, UnexpiredFacts
    <2>4. DOMAIN log' \subseteq Ids /\ \A i \in DOMAIN log' : log'[i] \in Requests
      BY <1>1, <1>2, <1>5 DEF TypeOK
    <2> QED
      BY <1>1, <1>3, <2>1, <2>2, <2>3, <2>4 DEF TypeOK
  <1>9. IdInv'
    BY <1>1, <1>2, <1>3, <1>4, <1>5 DEF IdInv, TypeOK, Ids
  <1>10. PendingInv' /\ StartedInv'
    <2>1. PendingInv'
      BY <1>1, <1>2, <1>5, <1>6, <1>7, UnexpiredFacts DEF PendingInv
    <2>2. StartedInv'
      BY <1>1, <1>5, <1>6 DEF StartedInv
    <2> QED
      BY <2>1, <2>2
  <1>11. ExecutedAsRequested'
    BY <1>1, <1>3, <1>5 DEF ExecutedAsRequested, MayConfirm
  <1> QED
    BY <1>5, <1>8, <1>9, <1>10, <1>11 DEF IInv

(* An accepted confirmation keeps the invariant.                           *)
LEMMA ConfirmStep ==
  ASSUME IInv, NEW caller \in Callers, NEW id \in DOMAIN log, NEW p \in Params,
         ConfirmOp(caller, id, p)
  PROVE  IInv' /\ log' = log
  <1>1. TypeOK /\ IdInv /\ PendingInv /\ StartedInv /\ ExecutedAsRequested
    BY DEF IInv
  <1> DEFINE call == [id |-> id, params |-> pending[id].params,
                      by |-> caller, at |-> now]
  <1>2. /\ id \in DOMAIN pending /\ id \in Ids /\ pending[id] = log[id]
        /\ pending[id] \in Requests /\ started[id] = 0
        /\ now - pending[id].created < Ttl /\ MayConfirm(caller)
    BY <1>1, UnexpiredFacts DEF ConfirmOp
  <1>3. /\ executing' = executing \cup {call} /\ call \in Calls
        /\ call.id = id /\ call.params = log[id].params
        /\ call.by = caller /\ call.at = now
    BY <1>1, <1>2 DEF ConfirmOp, ExecutorParams, Calls, Requests, TypeOK
  <1>4. /\ DOMAIN pending' = Unexpired \ {id}
        /\ \A i \in Unexpired \ {id} : pending'[i] = pending[i]
    BY OnlyFacts DEF ConfirmOp, LeftAfterTake
  <1>5. /\ started' = [started EXCEPT ![id] = started[id] + 1]
        /\ lastSweep' = now /\ UNCHANGED <<now, boot, seq, log>>
    BY DEF ConfirmOp
  <1> HIDE DEF call
  <1>6. TypeOK'
    BY <1>1, <1>3, <1>4, <1>5, UnexpiredFacts DEF TypeOK
  <1>7. IdInv'
    BY <1>1, <1>5 DEF IdInv
  <1>8. PendingInv' /\ StartedInv'
    BY <1>1, <1>2, <1>4, <1>5, UnexpiredFacts DEF PendingInv, StartedInv, TypeOK
  <1>9. ExecutedAsRequested'
    BY <1>1, <1>2, <1>3, <1>5 DEF ExecutedAsRequested, MayConfirm
  <1> QED
    BY <1>5, <1>6, <1>7, <1>8, <1>9 DEF IInv

(* What the remaining steps do to the state, in the words of the invariant:*)
(* nothing is requested or started, and the clock and the numbering go on. *)
Calm ==
  /\ UNCHANGED <<log, started>> /\ executing' \subseteq executing
  /\ now' \in Nat /\ seq' \in Nat /\ lastSweep' \in Nat /\ boot' \in Nat
  /\ now <= now' /\ boot' <= now'
  /\ (boot' = boot /\ seq' = seq) \/ (boot' > now /\ boot' > boot)
  /\ DOMAIN pending' \subseteq DOMAIN pending
  /\ \A i \in DOMAIN pending' : pending'[i] = pending[i]

(* Every step but a request and an accepted confirmation is calm.          *)
LEMMA OtherStepsAreCalm ==
  ASSUME IInv,
         \/ \E caller \in Callers, id \in DOMAIN log : ConfirmUnknown(caller, id)
         \/ \E call \in executing : ExecutorEnds(call)
         \/ \E caller \in Callers : ConfirmDenied(caller)
         \/ Tick \/ Restart \/ UNCHANGED vars
  PROVE  Calm
  <1>1. TypeOK /\ IdInv /\ PendingInv
    BY DEF IInv
  <1>2. ASSUME NEW caller \in Callers, NEW id \in DOMAIN log,
               ConfirmUnknown(caller, id)
        PROVE  Calm
    <2>1. DOMAIN pending' = Unexpired /\ \A i \in Unexpired : pending'[i] = pending[i]
      BY <1>2, OnlyFacts DEF ConfirmUnknown
    <2> QED
      BY <1>1, <1>2, <2>1, UnexpiredFacts DEF ConfirmUnknown, Calm, TypeOK, IdInv
  <1>3. ASSUME NEW call \in executing, ExecutorEnds(call) PROVE Calm
    BY <1>1, <1>3 DEF ExecutorEnds, Calm, TypeOK, IdInv
  <1>4. ASSUME UNCHANGED vars PROVE Calm
    BY <1>1, <1>4 DEF vars, Calm, TypeOK, IdInv
  <1>5. ASSUME NEW caller \in Callers, ConfirmDenied(caller) PROVE Calm
    BY <1>4, <1>5 DEF ConfirmDenied
  <1>6. CASE Tick
    BY <1>1, <1>6 DEF Tick, Calm, TypeOK, IdInv
  <1>7. CASE Restart
    <2>1. DOMAIN pending' = {}
      BY <1>7 DEF Restart, NoMap
    <2> QED
      BY <1>1, <1>7, <2>1 DEF Restart, Calm, TypeOK, IdInv
  <1> QED
    BY <1>2, <1>3, <1>4, <1>5, <1>6, <1>7

(* A calm step keeps the invariant.                                        *)
LEMMA CalmStep == ASSUME IInv, Calm PROVE IInv'
  <1>1. TypeOK /\ IdInv /\ PendingInv /\ StartedInv /\ ExecutedAsRequested
    BY DEF IInv
  <1>2. TypeOK'
    BY <1>1 DEF TypeOK, Calm
  <1>3. IdInv'
    <2>1. \A id \in DOMAIN log : id[1] \in Nat /\ id[2] \in Nat
      BY <1>1 DEF TypeOK, Ids
    <2>2. CASE boot' = boot /\ seq' = seq
      BY <1>1, <2>1, <2>2 DEF IdInv, Calm, TypeOK
    <2>3. CASE boot' > now /\ boot' > boot
      <3>1. now \in Nat /\ boot \in Nat /\ boot' \in Nat /\ seq \in Nat
        BY <1>1 DEF TypeOK, Calm
      <3>2. \A id \in DOMAIN log : id[1] <= now
        BY <1>1 DEF IdInv
      <3> QED
        BY <1>1, <2>1, <2>3, <3>1, <3>2 DEF IdInv, Calm
    <2> QED
      BY <2>2, <2>3 DEF Calm
  <1>4. PendingInv'
    BY <1>1 DEF PendingInv, Calm
  <1>5. StartedInv' /\ ExecutedAsRequested'
    BY <1>1 DEF StartedInv, ExecutedAsRequested, MayConfirm, Calm
  <1> QED
    BY <1>2, <1>3, <1>4, <1>5 DEF IInv

-----------------------------------------------------------------------------
(* The invariant holds initially.                                          *)
LEMMA InitIInv == Init => IInv
  BY DEF Init, IInv, NoMap, TypeOK, IdInv, PendingInv, StartedInv,
         ExecutedAsRequested, Ids, Requests

(* Every step keeps the invariant, and every request that was ever stored. *)
LEMMA EveryStep ==
  ASSUME IInv, [Next]_vars
  PROVE  IInv' /\ \A id \in DOMAIN log : log'[id] = log[id]
  <1>1. ASSUME NEW caller \in Callers, NEW p \in Params, RequestOp(caller, p)
        PROVE  IInv' /\ \A id \in DOMAIN log : log'[id] = log[id]
    BY <1>1, RequestStep
  <1>2. ASSUME NEW caller \in Callers, NEW id \in DOMAIN log, NEW p \in Params,
               ConfirmOp(caller, id, p)
        PROVE  IInv' /\ log' = log
    BY <1>2, ConfirmStep
  <1>3. Calm => IInv' /\ log' = log
    BY CalmStep DEF Calm
  <1> QED
    BY <1>1, <1>2, <1>3, OtherStepsAreCalm DEF Next

(* IInv is an invariant of the gate.                                       *)
THEOREM Invariance == Spec => []IInv
  <1>1. IInv /\ [Next]_vars => IInv'
    BY EveryStep
  <1> QED
    BY <1>1, InitIInv, PTL DEF Spec

(* The gate's variables keep their types.                                  *)
THEOREM TypeCorrect == Spec => []TypeOK
  <1>1. IInv => TypeOK
    BY DEF IInv
  <1> QED
    BY <1>1, Invariance, PTL

(* A stored request is executed at most once, and never while it is still  *)
(* pending.                                                                *)
THEOREM AtMostOnce == Spec => []ExecutedAtMostOnce
  <1>1. IInv => ExecutedAtMostOnce
    BY DEF IInv, ExecutedAtMostOnce, StartedInv, PendingInv
  <1> QED
    BY <1>1, Invariance, PTL

(* The executor runs with what was requested, for an approved caller, in   *)
(* time.                                                                   *)
THEOREM AsRequested == Spec => []ExecutedAsRequested
  <1>1. IInv => ExecutedAsRequested
    BY DEF IInv
  <1> QED
    BY <1>1, Invariance, PTL

(* A pending id names one request for ever, over restarts of the process.  *)
THEOREM NeverReused == Spec => IdsNeverReused
  <1>1. IInv /\ [Next]_vars => [\A id \in DOMAIN log : log'[id] = log[id]]_vars
    BY EveryStep
  <1> QED
    BY <1>1, Invariance, PTL DEF Spec, IdsNeverReused

(* Whatever is pending was stored less than the time to live before the    *)
(* last sweep, or at that moment.                                          *)
THEOREM RecentOnly == Spec => []PendingIsRecent
  <1>1. Init => PendingIsRecent
    BY DEF Init, NoMap, PendingIsRecent
  <1>2. ASSUME PendingIsRecent, [Next]_vars
        PROVE  PendingIsRecent'
    <2>1. ASSUME NEW caller \in Callers, NEW p \in Params, RequestOp(caller, p)
          PROVE  PendingIsRecent'
      <3> DEFINE entry == [params |-> p, caller |-> caller, created |-> now]
      <3>1. /\ pending' = With(Only(pending, Unexpired), NewId, entry)
            /\ lastSweep' = now
        BY <2>1 DEF RequestOp
      <3>2. entry.created = now
        OBVIOUS
      <3> HIDE DEF entry
      <3>3. \A id \in DOMAIN pending' :
              \/ pending'[id] = entry
              \/ id \in Unexpired /\ pending'[id] = pending[id]
        <4> DEFINE left == Only(pending, Unexpired)
        <4>1. DOMAIN left = Unexpired /\ \A id \in Unexpired : left[id] = pending[id]
          BY OnlyFacts
        <4>2. pending' = With(left, NewId, entry)
          BY <3>1
        <4> HIDE DEF left
        <4> QED
          BY <4>1, <4>2 DEF With
      <3> QED
        BY <3>1, <3>2, <3>3 DEF PendingIsRecent, Unexpired
    <2>2. ASSUME NEW caller \in Callers, NEW id \in DOMAIN log, NEW p \in Params,
                 ConfirmOp(caller, id, p)
          PROVE  PendingIsRecent'
      BY <2>2 DEF ConfirmOp, LeftAfterTake, Only, Unexpired, PendingIsRecent
    <2>3. ASSUME NEW caller \in Callers, NEW id \in DOMAIN log,
                 ConfirmUnknown(caller, id)
          PROVE  PendingIsRecent'
      BY <2>3 DEF ConfirmUnknown, Only, Unexpired, PendingIsRecent
    <2>4. CASE Restart
      BY <2>4 DEF Restart, NoMap, PendingIsRecent
    <2>5. ASSUME UNCHANGED <<pending, lastSweep>> PROVE PendingIsRecent'
      BY <1>2, <2>5 DEF PendingIsRecent
    <2>6. \/ \E call \in executing : ExecutorEnds(call)
          \/ Tick \/ UNCHANGED vars
          \/ \E caller \in Callers : ConfirmDenied(caller)
          => UNCHANGED <<pending, lastSweep>>
      BY DEF ExecutorEnds, Tick, ConfirmDenied, vars
    <2> QED
      BY <1>2, <2>1, <2>2, <2>3, <2>4, <2>5, <2>6 DEF Next
  <1> QED
    BY <1>1, <1>2, PTL DEF Spec
=============================================================================
