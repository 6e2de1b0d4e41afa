-------------------------- MODULE ConfirmationGate --------------------------
(***************************************************************************)
(* The plugin side of the confirmation gate for one operation              *)
(* (src/vynkor/confirmation_gate.py): request_<op> stores the parameters   *)
(* under a fresh pending id, confirm_<op> from an approved caller takes    *)
(* them out and runs the executor with them.                               *)
(*                                                                         *)
(* Handler tasks call route concurrently.  The pending map changes only    *)
(* under the lock, in _store_request and _take_pending, so a call of route *)
(* up to the await of the executor is one step; executors run and end      *)
(* interleaved with everything else.  The map is in memory: a restart of   *)
(* the plugin process loses it, and the sequence numbers start again.      *)
(* One clock stands for time.monotonic and time.time; it never goes back,  *)
(* and a restart takes it at least one unit further.                       *)
(***************************************************************************)
EXTENDS Integers, Sequences, FiniteSets

CONSTANTS
  Callers,        \* caller ids, as the sequences of their dot-separated parts
  ConfirmCallers, \* the allowlist: records [name, glob], glob for "name.*"
  Params,         \* parameters of the operation
  Ttl,            \* _pending_ttl
  MaxNow,         \* bound on the clock
  MaxRequests     \* bound on the requests ever stored

ASSUME TtlAssumption == Ttl \in Int
ASSUME BoundsAssumption == MaxNow \in Nat /\ MaxRequests \in Nat

VARIABLES
  now,        \* the clock
  boot,       \* when this plugin process started
  seq,        \* the next number of _seq
  pending,    \* the pending map: id -> stored request
  log,        \* history: every request ever stored, by id
  started,    \* history: how often the executor was started for each of them
  executing,  \* the executor calls in progress
  lastSweep   \* history: when the pending map was last swept

vars == <<now, boot, seq, pending, log, started, executing, lastSweep>>

Ids      == Nat \X Nat
Requests == [params : Params, caller : Callers, created : Nat]
Calls    == [id : Ids, params : Params, by : Callers, at : Nat]

TypeOK ==
  /\ now \in Nat /\ boot \in Nat /\ seq \in Nat /\ lastSweep \in Nat
  /\ DOMAIN log \subseteq Ids /\ \A id \in DOMAIN log : log[id] \in Requests
  /\ DOMAIN pending \subseteq DOMAIN log
  /\ \A id \in DOMAIN pending : pending[id] \in Requests
  /\ started \in [DOMAIN log -> Nat]
  /\ executing \subseteq Calls

NoMap == [id \in {} |-> 0]

Init ==
  /\ now = 0 /\ boot = 0 /\ seq = 0 /\ lastSweep = 0
  /\ pending = NoMap /\ log = NoMap /\ started = NoMap
  /\ executing = {}

-----------------------------------------------------------------------------
(* may_confirm.  A caller starts with "name." exactly when the parts of    *)
(* name are its first parts and at least one more follows.                 *)
Approves(entry, caller) ==
  IF entry.glob
    THEN /\ Len(caller) > Len(entry.name)
         /\ SubSeq(caller, 1, Len(entry.name)) = entry.name
    ELSE caller = entry.name

MayConfirm(caller) == \E entry \in ConfirmCallers : Approves(entry, caller)

With(f, id, v) == [i \in DOMAIN f \cup {id} |-> IF i = id THEN v ELSE f[i]]
Only(f, ids)   == [i \in ids |-> f[i]]

(* Mutation: an entry survives until it is older than the limit.           *)
UnexpiredInclusive == {id \in DOMAIN pending : now - pending[id].created <= Ttl}

(* What _sweep_expired_locked leaves of the pending map.                   *)
Unexpired == {id \in DOMAIN pending : now - pending[id].created < Ttl}

(* Mutation: the sequence number alone names a request.                    *)
SeqOnlyId == <<0, seq>>

(* pending-<milliseconds>-<sequence number>                                *)
NewId == <<now, seq>>

(* request_<op>: _store_request.                                           *)
RequestOp(caller, p) ==
  /\ Cardinality(DOMAIN log) < MaxRequests
  /\ LET entry == [params |-> p, caller |-> caller, created |-> now]
     IN  /\ pending' = With(Only(pending, Unexpired), NewId, entry)
         /\ log' = With(log, NewId, entry)
         /\ started' = With(started, NewId, 0)
         /\ seq' = seq + 1
         /\ lastSweep' = now
         /\ UNCHANGED <<now, boot, executing>>

(* Mutation: the entry is looked up, and removed only after the executor.  *)
KeptAfterTake(id) == Unexpired

(* The ids still pending after id was taken.                               *)
LeftAfterTake(id) == Unexpired \ {id}

(* Mutation: the executor gets the parameters of the confirm call.         *)
ConfirmedParams(id, p) == p

(* Mutation: the executor gets the stored entry instead of its parameters. *)
StoredEntry(id, p) == pending[id]

(* What is handed to the executor when the confirm call itself carries p.  *)
ExecutorParams(id, p) == pending[id].params

(* confirm_<op> of a pending id: _take_pending, and the executor starts.   *)
ConfirmOp(caller, id, p) ==
  /\ MayConfirm(caller)
  /\ id \in Unexpired
  /\ pending' = Only(pending, LeftAfterTake(id))
  /\ started' = [started EXCEPT ![id] = @ + 1]
  /\ executing' = executing \cup
       {[id |-> id, params |-> ExecutorParams(id, p), by |-> caller, at |-> now]}
  /\ lastSweep' = now
  /\ UNCHANGED <<now, boot, seq, log>>

(* confirm_<op> of an unknown, taken or expired id: only the sweep remains.*)
ConfirmUnknown(caller, id) ==
  /\ MayConfirm(caller)
  /\ id \notin Unexpired
  /\ pending' = Only(pending, Unexpired)
  /\ lastSweep' = now
  /\ UNCHANGED <<now, boot, seq, log, started, executing>>

(* confirm_<op> of a caller that is not approved does not even sweep; no   *)
(* more does one without a pending id in its parameters, or another action.*)
ConfirmDenied(caller) == ~MayConfirm(caller) /\ UNCHANGED vars

(* It returns or raises; what is answered then is in GateCallers.          *)
ExecutorEnds(call) ==
  /\ executing' = executing \ {call}
  /\ UNCHANGED <<now, boot, seq, pending, log, started, lastSweep>>

Tick ==
  /\ now < MaxNow
  /\ now' = now + 1
  /\ UNCHANGED <<boot, seq, pending, log, started, executing, lastSweep>>

(* The plugin process dies and starts again.                               *)
Restart ==
  /\ now < MaxNow
  /\ now' = now + 1 /\ boot' = now + 1 /\ lastSweep' = now + 1
  /\ seq' = 0
  /\ pending' = NoMap
  /\ executing' = {}
  /\ UNCHANGED <<log, started>>

(* A confirm call may name any id that was ever given out.                 *)
Next ==
  \/ \E caller \in Callers, p \in Params : RequestOp(caller, p)
  \/ \E caller \in Callers, id \in DOMAIN log :
       \/ \E p \in Params : ConfirmOp(caller, id, p)
       \/ ConfirmUnknown(caller, id)
  \/ \E call \in executing : ExecutorEnds(call)
  \/ Tick
  \/ Restart
  \/ \E caller \in Callers : ConfirmDenied(caller)

Spec == Init /\ [][Next]_vars

-----------------------------------------------------------------------------
(* A stored request is executed at most once, however many approved callers*)
(* confirm it, and never after it was refused or swept: it is executed or  *)
(* still pending, not both (_take_pending, lines 392-398).                 *)
ExecutedAtMostOnce ==
  /\ \A id \in DOMAIN log : started[id] <= 1
  /\ \A id \in DOMAIN pending : started[id] = 0

(* The executor runs with exactly what was requested under the confirmed   *)
(* id, for an approved caller, before the request's time to live is over   *)
(* (route, lines 323-345: "Execute with the *stored* params").             *)
ExecutedAsRequested ==
  \A call \in executing :
    /\ call.id \in DOMAIN log
    /\ call.params = log[call.id].params
    /\ MayConfirm(call.by)
    /\ call.at - log[call.id].created < Ttl

(* A pending id names one request for ever, over restarts of the plugin: a *)
(* caller that confirms late never confirms somebody else's request.       *)
IdsNeverReused == [][\A id \in DOMAIN log : log'[id] = log[id]]_vars

(* Requests nobody confirms are forgotten (lines 50-52): whatever is in the*)
(* map was stored less than the time to live before the last request or    *)
(* confirmation.                                                           *)
PendingIsRecent ==
  \A id \in DOMAIN pending :
    \/ lastSweep - pending[id].created < Ttl
    \/ pending[id].created = lastSweep
=============================================================================
