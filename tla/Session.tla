------------------------------- MODULE Session -------------------------------
(***************************************************************************)
(* The life of a client: credentials from the environment, connecting over *)
(* a Unix socket or a WebSocket, registration, traffic under the session   *)
(* key, and reconnecting, with a new client or the same instance           *)
(* (src/vynkor/client.py, plugin.py), over the frames of FrameCodec.       *)
(*                                                                         *)
(* The kernel is the environment: it knows the host's master secret and    *)
(* the secret of the paired device, draws a nonce per connection when it   *)
(* is secured, and reads and writes frames as the SDK does.  A connection  *)
(* may break at any time, and what is in transit is lost with it.          *)
(***************************************************************************)
EXTENDS FrameCodec, Sequences, SequencesExt

CONSTANTS
  Master,         \* the host's jwt_secret
  Device,         \* the secret of the paired device
  Apis,           \* entry points: "run_with" (Unix socket), "run_ws"
  AppMessages,    \* what either side may send once registered
  MaxSent,        \* bound on what each side sends per connection
  MaxConnections  \* bound on the connections

Control == {"register", "ack", "ackNonce", "reject", "error"}

ASSUME SessionSecrets == {Master, Device} \subseteq Secrets /\ Master # Device
ASSUME SessionBounds  == MaxSent \in Nat /\ MaxConnections \in Nat
ASSUME SessionData    == /\ Control \subseteq Data
                         /\ AppMessages \subseteq Messages
                         /\ \A m \in AppMessages : "mac" \notin m.flags
                         /\ Apis \subseteq {"run_with", "run_ws"}

(* VYN_DEVICE_ID, VYN_DEVICE_SECRET, VYN_JWT_SECRET                        *)
Environments == [deviceId : BOOLEAN, deviceSecret : Secrets \cup {Unset},
                 jwtSecret : Secrets \cup {Unset}]

VARIABLES
  api,        \* the entry point the application uses
  env,        \* its environment variables
  pc,         \* where the client is
  client,     \* transport, secret, device_id is set, session_key
  conn,       \* how many connections were made; the nonce of this one
  secured,    \* the kernel wants tags
  kernelKey,  \* the kernel's key for this connection
  toKernel, toClient,     \* the frames in transit
  byClient, byKernel,     \* history: application messages written
  gotKernel, gotClient    \* history: application messages read

link == <<toKernel, toClient, byClient, byKernel, gotKernel, gotClient>>
vars == <<api, env, pc, client, conn, secured, kernelKey, link>>

Clients == [ws : BOOLEAN, secret : Secrets \cup {Unset}, device : BOOLEAN,
            key : Keys]

TypeOK ==
  /\ api \in Apis /\ env \in Environments
  /\ pc \in {"start", "connected", "registering", "serving", "closed",
             "refused", "misconfigured"}
  /\ client \in Clients
  /\ conn \in Nat /\ secured \in BOOLEAN /\ kernelKey \in Keys
  /\ toKernel \in Seq(Frames) /\ toClient \in Seq(Frames)
  /\ byClient \in Seq(Messages) /\ byKernel \in Seq(Messages)
  /\ gotKernel \in Seq(Messages) /\ gotClient \in Seq(Messages)

NewClient(ws, secret, device) ==
  [ws |-> ws, secret |-> secret, device |-> device, key |-> NoKey]

Init ==
  /\ api \in Apis /\ env \in Environments
  /\ pc = "start" /\ client = NewClient(FALSE, Unset, FALSE)
  /\ conn = 0 /\ secured = FALSE /\ kernelKey = NoKey
  /\ toKernel = <<>> /\ toClient = <<>>
  /\ byClient = <<>> /\ byKernel = <<>>
  /\ gotKernel = <<>> /\ gotClient = <<>>

-----------------------------------------------------------------------------
(* Credentials and connections.                                            *)

(* Mutation: half a device pair falls back to the master secret.           *)
LenientCredentials(e) ==
  IF e.deviceId /\ e.deviceSecret # Unset
    THEN {NewClient(TRUE, e.deviceSecret, TRUE)}
    ELSE {NewClient(TRUE, e.jwtSecret, FALSE)}

(* resolve_ws_credentials: the client of run_ws, or none if it raises.     *)
WsCredentials(e) ==
  CASE e.deviceId /\ e.deviceSecret # Unset /\ e.jwtSecret = Unset ->
         {NewClient(TRUE, e.deviceSecret, TRUE)}
    [] ~e.deviceId /\ e.deviceSecret = Unset ->
         {NewClient(TRUE, e.jwtSecret, FALSE)}
    [] OTHER -> {}

(* run_with, and connect_from_env, look at VYN_JWT_SECRET only.            *)
Credentials(a, e) ==
  IF a = "run_ws" THEN WsCredentials(e)
                  ELSE {NewClient(FALSE, e.jwtSecret, FALSE)}

Misconfigured ==
  /\ pc = "start" /\ Credentials(api, env) = {}
  /\ pc' = "misconfigured"
  /\ UNCHANGED <<api, env, client, conn, secured, kernelKey, link>>

NothingInTransit ==
  /\ toKernel' = <<>> /\ toClient' = <<>>
  /\ byClient' = <<>> /\ byKernel' = <<>>
  /\ gotKernel' = <<>> /\ gotClient' = <<>>

(* The connection opens; the kernel may have been restarted in between.    *)
Open(c) ==
  /\ conn < MaxConnections
  /\ conn' = conn + 1
  /\ client' = c /\ pc' = "connected"
  /\ secured' \in BOOLEAN /\ kernelKey' = NoKey
  /\ NothingInTransit
  /\ UNCHANGED <<api, env>>

(* A client of its own for every connection.                               *)
Connect ==
  /\ pc \in {"start", "closed", "refused"}
  /\ \E c \in Credentials(api, env) : Open(c)

(* instance.connect(): the streams are replaced, session_key is not.       *)
ConnectAgain ==
  /\ pc \in {"closed", "refused"} /\ ~client.ws
  /\ Open(client)

Disconnected(place) ==
  /\ pc' = place /\ kernelKey' = NoKey
  /\ NothingInTransit
  /\ UNCHANGED <<api, env, client, conn, secured>>

(* The connection breaks, or close().                                      *)
Disconnect == pc \in {"connected", "registering", "serving"} /\ Disconnected("closed")

-----------------------------------------------------------------------------
(* Registration.                                                           *)

ControlMessage(d) == [flags |-> {}, payload |-> [data |-> d, zip |-> FALSE]]

(* Frames are never compressed on a WebSocket.                             *)
CompressesOn(c) == ~c.ws

SendRegister ==
  /\ pc = "connected"
  /\ pc' = "registering"
  /\ toKernel' = Append(toKernel, PackFrame(ControlMessage("register"),
                                            client.key, CompressesOn(client)))
  /\ UNCHANGED <<api, env, client, conn, secured, kernelKey, toClient,
                 byClient, byKernel, gotKernel, gotClient>>

(* The secret the kernel keys a registration off.                          *)
KernelSecret(c) == IF c.device THEN Device ELSE Master

(* The kernel has no key yet; the answer is its last frame without a tag.  *)
KernelAnswers ==
  /\ pc = "registering" /\ toKernel # <<>>
  /\ Head(toKernel).payload.data = "register"
  /\ toKernel' = Tail(toKernel)
  /\ \E answer \in {"reject", "error", IF secured THEN "ackNonce" ELSE "ack"} :
       /\ toClient' = Append(toClient,
                             PackFrame(ControlMessage(answer), NoKey, FALSE))
       /\ kernelKey' = IF answer = "ackNonce"
                         THEN DeriveSessionKey(KernelSecret(client), conn)
                         ELSE NoKey
  /\ UNCHANGED <<api, env, pc, client, conn, secured, byClient, byKernel,
                 gotKernel, gotClient>>

(* _apply_session_nonce                                                    *)
NonceApplied(c, nonce) ==
  IF c.secret # Unset
    THEN [c EXCEPT !.key = DeriveSessionKey(c.secret, nonce)] ELSE c

(* register_full: the first envelope is the acknowledgement.               *)
RegisterAccepted ==
  /\ pc = "registering" /\ toClient # <<>>
  /\ Readable(Head(toClient), client.key)
  /\ Head(toClient).payload.data \in {"ack", "ackNonce"}
  /\ toClient' = Tail(toClient)
  /\ client' = IF Head(toClient).payload.data = "ackNonce"
                 THEN NonceApplied(client, conn) ELSE client
  /\ pc' = "serving"
  /\ UNCHANGED <<api, env, conn, secured, kernelKey, toKernel, byClient,
                 byKernel, gotKernel, gotClient>>

(* A rejection or an Error envelope ends in an exception and in close(); so*)
(* does an answer that cannot be read.                                     *)
RegisterFails ==
  /\ pc = "registering" /\ toClient # <<>>
  /\ \/ ~Readable(Head(toClient), client.key) /\ Disconnected("refused")
     \/ /\ Readable(Head(toClient), client.key)
        /\ Head(toClient).payload.data \in {"reject", "error"}
        /\ Disconnected("closed")

-----------------------------------------------------------------------------
(* Application traffic.                                                    *)

(* send_raw_with_flags.  What is too large raises and leaves no trace.     *)
ClientSends(msg) ==
  /\ pc = "serving" /\ Len(byClient) < MaxSent /\ Packable(msg)
  /\ toKernel' = Append(toKernel,
                        PackFrame(msg, client.key, CompressesOn(client)))
  /\ byClient' = Append(byClient, msg)
  /\ UNCHANGED <<api, env, pc, client, conn, secured, kernelKey, toClient,
                 byKernel, gotKernel, gotClient>>

(* The kernel may write as soon as it has accepted the registration.       *)
KernelAccepted ==
  \/ pc = "serving"
  \/ pc = "registering" /\ toClient # <<>>
       /\ Head(toClient).payload.data \in {"ack", "ackNonce"}

KernelSends(msg, compress) ==
  /\ KernelAccepted /\ Len(byKernel) < MaxSent /\ Packable(msg)
  /\ toClient' = Append(toClient, PackFrame(msg, kernelKey, compress))
  /\ byKernel' = Append(byKernel, msg)
  /\ UNCHANGED <<api, env, pc, client, conn, secured, kernelKey, toKernel,
                 byClient, gotKernel, gotClient>>

(* The flags a reader hands on: what the other side asked for.             *)
AsSent(msg) == [msg EXCEPT !.flags = @ \ {"mac"}]

(* recv_frame; a frame that raises ends the loop as a disconnect does.     *)
ClientReads ==
  /\ pc = "serving" /\ toClient # <<>>
  /\ IF Readable(Head(toClient), client.key)
       THEN /\ gotClient' = Append(gotClient, AsSent(Normalized(Head(toClient))))
            /\ toClient' = Tail(toClient)
            /\ UNCHANGED <<api, env, pc, client, conn, secured, kernelKey,
                           toKernel, byClient, byKernel, gotKernel>>
       ELSE Disconnected("closed")

(* The WebSocket gateway takes no compressed frames.                       *)
KernelTakes(f) ==
  Readable(f, kernelKey) /\ (client.ws => "compressed" \notin f.flags)

KernelReads ==
  /\ pc = "serving" /\ toKernel # <<>>
  /\ IF KernelTakes(Head(toKernel))
       THEN /\ gotKernel' = Append(gotKernel, AsSent(Normalized(Head(toKernel))))
            /\ toKernel' = Tail(toKernel)
            /\ UNCHANGED <<api, env, pc, client, conn, secured, kernelKey,
                           toClient, byClient, byKernel, gotClient>>
       ELSE Disconnected("closed")

-----------------------------------------------------------------------------
Next ==
  \/ Misconfigured \/ Connect \/ ConnectAgain \/ Disconnect
  \/ SendRegister \/ KernelAnswers \/ RegisterAccepted \/ RegisterFails
  \/ \E msg \in AppMessages :
       \/ ClientSends(msg)
       \/ \E compress \in BOOLEAN : KernelSends(msg, compress)
  \/ ClientReads \/ KernelReads

Spec == Init /\ [][Next]_vars

-----------------------------------------------------------------------------
(* Messages whose caller set FLAG_COMPRESSED itself (on a payload of its   *)
(* own compression); the readers clear the flag and decompress.            *)
Precompressed(msg) == "compressed" \in msg.flags

Plain(msg) == [flags   |-> msg.flags \ {"compressed"},
               payload |-> IF Precompressed(msg) THEN Unzipped(msg.payload)
                                                 ELSE msg.payload]

PlainAll(msgs) == [i \in DOMAIN msgs |-> Plain(msgs[i])]

(* What arrives is what was sent, with its flags, in order, whatever was   *)
(* compressed or tagged on the way (pack_frame, _normalize, read_frame).   *)
ArrivesAsSent ==
  /\ IsPrefix(gotClient, PlainAll(byKernel))
  /\ IsPrefix(gotKernel, PlainAll(byClient))

(* The client holds the secret the kernel keys it off, or neither uses one.*)
SameSecret == ~secured \/ client.secret = KernelSecret(client)

(* While two sides with the same secret are connected, each reads whatever *)
(* the other has under way: the first frame after the acknowledgement, and *)
(* every frame of a later connection under its own nonce.  Only what a     *)
(* caller compressed itself is refused.                                    *)
NoFrameRefused ==
  pc = "serving" /\ SameSecret =>
    /\ \A i \in 1..Len(toClient) :
         \/ Precompressed(byKernel[Len(gotClient) + i])
         \/ Readable(toClient[i], client.key)
    /\ \A i \in 1..Len(toKernel) :
         \/ Precompressed(byClient[Len(gotKernel) + i])
         \/ KernelTakes(toKernel[i])

(* The README (line 187), "untagged frames rejected": a side with a key    *)
(* gets nothing from one without it, or with the key of another secret or  *)
(* connection.                                                             *)
OnlyUnderOneKey ==
  client.key # kernelKey =>
    /\ client.key # NoKey => gotClient = <<>>
    /\ kernelKey # NoKey => gotKernel = <<>>

(* README (lines 158-160): with either half of a device pair set, run_ws   *)
(* registers as that device under the device's secret, or not at all; the  *)
(* master secret keys no frame of a paired device.                         *)
DeviceStaysDevice ==
  /\ api = "run_ws" /\ pc # "start" /\ conn > 0
  /\ env.deviceId \/ env.deviceSecret # Unset
  => /\ client.device /\ env.jwtSecret = Unset
     /\ client.key.secret \in {env.deviceSecret, Unset}

(* The docstring of connect_ws (lines 196-199): a client reconnects "by    *)
(* calling connect_ws again and re-registering - the session key is        *)
(* re-derived from the fresh nonce in the new ack (mirrors the UDS         *)
(* client)".                                                               *)
ReRegisters == SameSecret => pc # "refused"
=============================================================================
