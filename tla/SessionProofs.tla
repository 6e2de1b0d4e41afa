---------------------------- MODULE SessionProofs ----------------------------
(***************************************************************************)
(* Theorems about Session for all secrets, messages, sizes and limits, any *)
(* number of connections and of messages on each.                          *)
(***************************************************************************)
EXTENDS Session, FrameCodecProofs, SequenceTheorems

(* Nothing is under way but between the two ends of a connection; until the*)
(* registration is answered the only frame is the registration itself.     *)
PhaseInv ==
  /\ pc # "serving" =>
       gotClient = <<>> /\ gotKernel = <<>> /\ byClient = <<>>
  /\ pc \notin {"registering", "serving"} =>
       /\ toKernel = <<>> /\ toClient = <<>> /\ byKernel = <<>>
       /\ kernelKey = NoKey
  /\ pc = "registering" =>
       \/ toClient = <<>> /\ Len(toKernel) = 1 /\ byKernel = <<>> /\ kernelKey = NoKey
       \/ toClient # <<>> /\ toKernel = <<>>

(* The client is one its environment allows.                               *)
AllowedClient ==
  /\ pc \in {"start", "misconfigured"} => conn = 0
  /\ pc \notin {"start", "misconfigured"} =>
       /\ conn > 0
       /\ \E c \in Credentials(api, env) :
            client.ws = c.ws /\ client.secret = c.secret /\ client.device = c.device
       /\ client.key.secret \in {client.secret, Unset}

(* The kernel's key and what it answered.                                  *)
KeyFor(answer) ==
  IF answer = "ackNonce" THEN DeriveSessionKey(KernelSecret(client), conn)
                         ELSE NoKey

AnswerInv ==
  pc = "registering" /\ toClient # <<>> =>
    /\ \E answer \in {"reject", "error", IF secured THEN "ackNonce" ELSE "ack"} :
         /\ toClient[1] = PackFrame(ControlMessage(answer), NoKey, FALSE)
         /\ kernelKey = KeyFor(answer)
    /\ Len(toClient) = Len(byKernel) + 1

(* Two ends with the same secret have the same key.                        *)
KeyInv == pc = "serving" /\ SameSecret => client.key = kernelKey

(* What is in transit is what was written and not yet read.                *)
ToKernelInv ==
  pc = "serving" =>
    /\ Len(gotKernel) + Len(toKernel) = Len(byClient)
    /\ \A i \in 1..Len(toKernel) :
         toKernel[i] = PackFrame(byClient[Len(gotKernel) + i], client.key,
                                 CompressesOn(client))

KernelWrote(f, msg) == \E compress \in BOOLEAN : f = PackFrame(msg, kernelKey, compress)

ToClientInv ==
  /\ pc = "serving" =>
       /\ Len(gotClient) + Len(toClient) = Len(byKernel)
       /\ \A i \in 1..Len(toClient) :
            KernelWrote(toClient[i], byKernel[Len(gotClient) + i])
  /\ pc = "registering" =>
       \A i \in 1..Len(byKernel) : KernelWrote(toClient[i + 1], byKernel[i])

(* What was read is what was written first.                                *)
ReadInv ==
  /\ \A i \in 1..Len(gotClient) : gotClient[i] = Plain(byKernel[i])
  /\ \A i \in 1..Len(gotKernel) : gotKernel[i] = Plain(byClient[i])

(* Only what the application sends, and fits, is written.                  *)
Sendable == {msg \in AppMessages : Packable(msg)}
WrittenInv == byClient \in Seq(Sendable) /\ byKernel \in Seq(Sendable)

IInv == /\ TypeOK /\ PhaseInv /\ AllowedClient /\ AnswerInv /\ KeyInv
        /\ ToKernelInv /\ ToClientInv /\ ReadInv /\ WrittenInv /\ OnlyUnderOneKey

-----------------------------------------------------------------------------
(* Frames.                                                                 *)

LEMMA NoKeyType == NoKey \in Keys /\ NoKey.secret = Unset
  BY DEF NoKey, Keys

LEMMA ControlType == \A d \in Control : ControlMessage(d) \in Messages
  BY SessionData DEF ControlMessage, Messages, Payloads, Flags

LEMMA KernelSecretType == \A c : KernelSecret(c) \in Secrets
  BY SessionSecrets DEF KernelSecret

LEMMA DeriveType ==
  ASSUME NEW secret \in Secrets \cup {Unset}, NEW nonce \in Nat
  PROVE  DeriveSessionKey(secret, nonce) \in Keys
  BY DEF DeriveSessionKey, Keys

LEMMA FrameType ==
  ASSUME NEW msg \in Messages, NEW key \in Keys, NEW compress \in BOOLEAN
  PROVE  PackFrame(msg, key, compress) \in Frames
<1>1. /\ msg.flags \in SUBSET Flags /\ msg.payload \in Payloads
      /\ Zipped(msg.payload) \in Payloads
  BY DEF Messages, Payloads, Zipped
<1>2. "mac" \in Flags /\ "compressed" \in Flags
  BY DEF Flags
<1>. QED
  BY <1>1, <1>2 DEF PackFrame, Frames, Tags, Messages, SignedFlags, WireFlags

LEMMA ReadType ==
  ASSUME NEW f \in Frames
  PROVE  AsSent(Normalized(f)) \in Messages
<1>1. Normalized(f) \in Messages
  BY DEF Normalized, Frames, Messages, Payloads, Unzipped
<1>. QED  BY <1>1 DEF AsSent, Messages

(* Only a frame with a tag passes a reader with a key.                     *)
LEMMA TagNeeded ==
  ASSUME NEW msg \in Messages, NEW key \in Keys, NEW other \in Keys,
         NEW compress \in BOOLEAN, "mac" \notin msg.flags, other # NoKey,
         Readable(PackFrame(msg, key, compress), other)
  PROVE  key = other
<1>1. PackFrame(msg, key, compress).tag.key = key
  BY DEF PackFrame
<1>. QED  BY <1>1 DEF Readable, Verified

(* What a reader makes of a frame, whether it can check the tag or not.    *)
LEMMA ReadBack ==
  ASSUME NEW msg \in Sendable, NEW key \in Keys, NEW compress \in BOOLEAN
  PROVE  AsSent(Normalized(PackFrame(msg, key, compress))) = Plain(msg)
<1>1. msg \in Messages /\ "mac" \notin msg.flags /\ Packable(msg)
  BY SessionData DEF Sendable
<1>2. CASE Precompressed(msg)
  <2>1. ~Compresses(msg, compress)
    BY <1>2 DEF Precompressed, Compresses
  <2>. DEFINE f == PackFrame(msg, key, compress)
  <2>2. /\ f.flags = IF key = NoKey THEN msg.flags ELSE msg.flags \cup {"mac"}
        /\ f.payload = msg.payload
    BY <2>1 DEF PackFrame, WireFlags
  <2>3. Normalized(f) = [flags |-> f.flags \ {"compressed"},
                         payload |-> Unzipped(msg.payload)]
    BY <1>2, <2>2 DEF Normalized, Precompressed
  <2>4. (f.flags \ {"compressed"}) \ {"mac"} = msg.flags \ {"compressed"}
    BY <1>1, <2>2
  <2>. QED  BY <1>2, <2>3, <2>4 DEF AsSent, Plain
<1>3. CASE ~Precompressed(msg)
  <2>1. Ordinary(msg)
    BY <1>1, <1>3 DEF Ordinary, Precompressed
  <2>2. Normalized(PackFrame(msg, key, compress))
          = [flags |-> Tagged(msg.flags, key), payload |-> msg.payload]
    BY <1>1, <2>1, RoundTrip
  <2>3. Tagged(msg.flags, key) \ {"mac"} = msg.flags \ {"compressed"}
    BY <1>1, <1>3 DEF Tagged, Precompressed
  <2>. QED  BY <1>3, <2>2, <2>3 DEF AsSent, Plain
<1>. QED  BY <1>2, <1>3

LEMMA ReadableBack ==
  ASSUME NEW msg \in Sendable, ~Precompressed(msg), NEW key \in Keys,
         NEW compress \in BOOLEAN
  PROVE  /\ Readable(PackFrame(msg, key, compress), key)
         /\ ~compress => "compressed" \notin PackFrame(msg, key, compress).flags
<1>1. msg \in Messages /\ Ordinary(msg) /\ Packable(msg)
  BY SessionData DEF Sendable, Ordinary, Precompressed
<1>2. Readable(PackFrame(msg, key, compress), key)
  BY <1>1, RoundTrip
<1>3. ~compress => PackFrame(msg, key, compress).flags
                     = IF key = NoKey THEN msg.flags ELSE msg.flags \cup {"mac"}
  BY DEF PackFrame, WireFlags, Compresses
<1>. QED  BY <1>2, <1>3 DEF Precompressed

-----------------------------------------------------------------------------
(* Sequences.                                                              *)

LEMMA SendableMessages ==
  /\ Sendable \subseteq Messages
  /\ \A q \in Seq(Sendable) : q \in Seq(Messages)
<1>1. Sendable \subseteq Messages
  BY SessionData DEF Sendable
<1>. QED  BY <1>1, SeqMonotonic

LEMMA PlainType == \A msg \in Messages : Plain(msg) \in Messages
  BY DEF Plain, Messages, Payloads, Unzipped

LEMMA PrefixFromElements ==
  ASSUME NEW s \in Seq(Messages), NEW t \in Seq(Messages), Len(s) <= Len(t),
         \A i \in 1..Len(s) : s[i] = t[i]
  PROVE  IsPrefix(s, t)
<1>1. Len(s) \in Nat /\ Len(t) \in Nat
  BY LenProperties
<1>2. \A i \in 1..Len(s) : s[i] \in Messages /\ t[i] \in Messages
  BY <1>1, ElementOfSeq
<1>3. /\ SubSeq(s, 1, Len(s)) \in Seq(Messages) /\ Len(SubSeq(s, 1, Len(s))) = Len(s)
      /\ \A i \in 1..Len(s) : SubSeq(s, 1, Len(s))[i] = s[i]
  BY <1>1, <1>2, EmptySeq
<1>4. /\ SubSeq(t, 1, Len(s)) \in Seq(Messages) /\ Len(SubSeq(t, 1, Len(s))) = Len(s)
      /\ \A i \in 1..Len(s) : SubSeq(t, 1, Len(s))[i] = t[i]
  BY <1>1, <1>2, EmptySeq
<1>5. SubSeq(s, 1, Len(s)) = SubSeq(t, 1, Len(s))
  BY <1>3, <1>4, SeqEqual
<1>. QED  BY <1>5 DEF IsPrefix

LEMMA PlainAllFacts ==
  ASSUME NEW q \in Seq(Messages)
  PROVE  /\ PlainAll(q) \in Seq(Messages) /\ Len(PlainAll(q)) = Len(q)
         /\ \A i \in 1..Len(q) : PlainAll(q)[i] = Plain(q[i])
<1>1. Len(q) \in Nat /\ DOMAIN q = 1..Len(q)
  BY LenProperties
<1>2. \A i \in 1..Len(q) : Plain(q[i]) \in Messages
  BY <1>1, ElementOfSeq, PlainType
<1>. QED  BY <1>1, <1>2 DEF PlainAll

-----------------------------------------------------------------------------
(* Steps that leave nothing in transit.                                    *)

LEMMA Cleared ==
  ASSUME NothingInTransit, pc' \notin {"registering", "serving"}, kernelKey' = NoKey,
         TypeOK', AllowedClient'
  PROVE  IInv'
<1>1. /\ toKernel' = <<>> /\ toClient' = <<>> /\ byClient' = <<>>
      /\ byKernel' = <<>> /\ gotKernel' = <<>> /\ gotClient' = <<>>
  BY DEF NothingInTransit
<1>2. Len(gotClient') = 0 /\ Len(gotKernel') = 0
  BY <1>1
<1>3. <<>> \in Seq(Sendable)
  BY EmptySeq
<1>4. PhaseInv' /\ AnswerInv' /\ KeyInv' /\ ToKernelInv' /\ ToClientInv'
  BY <1>1 DEF PhaseInv, AnswerInv, KeyInv, ToKernelInv, ToClientInv
<1>5. ReadInv' /\ WrittenInv' /\ OnlyUnderOneKey'
  BY <1>1, <1>2, <1>3 DEF ReadInv, WrittenInv, OnlyUnderOneKey
<1>. QED  BY <1>4, <1>5 DEF IInv

LEMMA ClearedTypes ==
  ASSUME TypeOK, NothingInTransit, UNCHANGED <<api, env>>, client' \in Clients,
         conn' \in Nat, secured' \in BOOLEAN, kernelKey' = NoKey,
         pc' \in {"connected", "closed", "refused"}
  PROVE  TypeOK'
<1>1. <<>> \in Seq(Frames) /\ <<>> \in Seq(Messages)
  BY EmptySeq
<1>. QED  BY <1>1, NoKeyType DEF TypeOK, NothingInTransit

LEMMA NewClientFacts ==
  ASSUME TypeOK, NEW c \in Credentials(api, env)
  PROVE  c \in Clients /\ c.key = NoKey
<1>1. \A ws, device \in BOOLEAN, secret \in Secrets \cup {Unset} :
        /\ NewClient(ws, secret, device) \in Clients
        /\ NewClient(ws, secret, device).key = NoKey
  BY NoKeyType DEF NewClient, Clients
<1>2. /\ env.jwtSecret \in Secrets \cup {Unset}
      /\ env.deviceSecret \in Secrets \cup {Unset}
  BY DEF TypeOK, Environments
<1>3. CASE api = "run_ws"
  <2>1. c \in {NewClient(TRUE, env.deviceSecret, TRUE),
               NewClient(TRUE, env.jwtSecret, FALSE)}
    BY <1>3 DEF Credentials, WsCredentials
  <2>. QED  BY <1>1, <1>2, <2>1
<1>4. CASE api # "run_ws"
  <2>1. c = NewClient(FALSE, env.jwtSecret, FALSE)
    BY <1>4 DEF Credentials
  <2>. QED  BY <1>1, <1>2, <2>1
<1>. QED  BY <1>3, <1>4

LEMMA InitInv == Init => IInv
<1>. SUFFICES ASSUME Init PROVE IInv
  OBVIOUS
<1>1. <<>> \in Seq(Frames) /\ <<>> \in Seq(Messages) /\ <<>> \in Seq(Sendable)
  BY EmptySeq
<1>2. NewClient(FALSE, Unset, FALSE) \in Clients
  BY NoKeyType DEF NewClient, Clients
<1>3. TypeOK
  BY <1>1, <1>2, NoKeyType DEF Init, TypeOK
<1>4. Len(gotClient) = 0 /\ Len(gotKernel) = 0
  BY DEF Init
<1>. QED
  BY <1>1, <1>3, <1>4 DEF Init, IInv, PhaseInv, AllowedClient, AnswerInv, KeyInv,
     ToKernelInv, ToClientInv, ReadInv, WrittenInv, OnlyUnderOneKey

LEMMA MisconfiguredStep == ASSUME IInv, Misconfigured PROVE IInv'
<1>1. PhaseInv /\ TypeOK /\ AllowedClient
  BY DEF IInv
<1>2. NothingInTransit /\ kernelKey' = NoKey /\ pc' = "misconfigured"
  BY <1>1 DEF Misconfigured, PhaseInv, NothingInTransit, link
<1>3. TypeOK' /\ AllowedClient'
  BY <1>1 DEF Misconfigured, TypeOK, AllowedClient, link
<1>. QED  BY <1>2, <1>3, Cleared

LEMMA ConnectStep == ASSUME IInv, Connect PROVE IInv'
<1>1. TypeOK
  BY DEF IInv
<1>2. PICK c \in Credentials(api, env) : Open(c)
  BY DEF Connect
<1>3. c \in Clients /\ c.key = NoKey
  BY <1>1, <1>2, NewClientFacts
<1>4. TypeOK'
  <2>1. conn' \in Nat
    BY <1>1, <1>2 DEF TypeOK, Open
  <2>. QED  BY <1>1, <1>2, <1>3, <2>1, ClearedTypes DEF Open
<1>5. AllowedClient'
  <2>1. conn \in Nat /\ conn' = conn + 1
    BY <1>1, <1>2 DEF TypeOK, Open
  <2>. QED  BY <1>2, <1>3, <2>1, NoKeyType DEF Open, AllowedClient
<1>. QED  BY <1>2, <1>4, <1>5, Cleared DEF Open

LEMMA ConnectAgainStep == ASSUME IInv, ConnectAgain PROVE IInv'
<1>1. TypeOK /\ AllowedClient /\ Open(client)
  BY DEF IInv, ConnectAgain
<1>2. TypeOK'
  <2>1. conn' \in Nat /\ client' \in Clients
    BY <1>1 DEF TypeOK, Open
  <2>. QED  BY <1>1, <2>1, ClearedTypes DEF Open
<1>3. AllowedClient'
  <2>1. conn \in Nat /\ conn' = conn + 1
    BY <1>1 DEF TypeOK, Open
  <2>. QED  BY <1>1, <2>1 DEF Open, AllowedClient, ConnectAgain
<1>. QED  BY <1>1, <1>2, <1>3, Cleared DEF Open

LEMMA DisconnectedStep ==
  ASSUME IInv, NEW place \in {"closed", "refused"}, Disconnected(place),
         pc \in {"connected", "registering", "serving"}
  PROVE  IInv'
<1>1. TypeOK /\ AllowedClient
  BY DEF IInv
<1>2. TypeOK'
  <2>1. conn' \in Nat /\ client' \in Clients /\ secured' \in BOOLEAN
    BY <1>1 DEF TypeOK, Disconnected
  <2>. QED  BY <1>1, <2>1, ClearedTypes DEF Disconnected
<1>3. AllowedClient'
  BY <1>1 DEF Disconnected, AllowedClient
<1>. QED  BY <1>2, <1>3, Cleared DEF Disconnected

-----------------------------------------------------------------------------
(* Registration.                                                           *)

LEMMA AppendFacts ==
  ASSUME NEW S, NEW q \in Seq(S), NEW x \in S
  PROVE  /\ Append(q, x) \in Seq(S) /\ Append(q, x) # <<>>
         /\ Len(q) \in Nat /\ Len(Append(q, x)) = Len(q) + 1
         /\ \A i \in 1..Len(q) : Append(q, x)[i] = q[i]
         /\ Append(q, x)[Len(q) + 1] = x
  BY AppendProperties, LenProperties

LEMMA TailFacts ==
  ASSUME NEW S, NEW q \in Seq(S), q # <<>>
  PROVE  /\ Head(q) \in S /\ Head(q) = q[1] /\ Tail(q) \in Seq(S)
         /\ Len(q) \in Nat /\ Len(q) > 0 /\ Len(Tail(q)) = Len(q) - 1
         /\ \A i \in 1..(Len(q) - 1) : Tail(q)[i] = q[i + 1]
  BY HeadTailProperties, EmptySeq, LenProperties

LEMMA SendRegisterStep == ASSUME IInv, SendRegister PROVE IInv'
<1>. DEFINE f == PackFrame(ControlMessage("register"), client.key, CompressesOn(client))
<1>1. TypeOK /\ PhaseInv /\ AllowedClient
  BY DEF IInv
<1>2. f \in Frames
  <2>1. ControlMessage("register") \in Messages
    BY ControlType DEF Control
  <2>2. client.key \in Keys /\ CompressesOn(client) \in BOOLEAN
    BY <1>1 DEF TypeOK, Clients, CompressesOn
  <2>. QED  BY <2>1, <2>2, FrameType
<1>. HIDE DEF f
<1>3. /\ pc = "connected" /\ pc' = "registering" /\ toKernel' = Append(toKernel, f)
      /\ UNCHANGED <<api, env, client, conn, secured, kernelKey, toClient,
                     byClient, byKernel, gotKernel, gotClient>>
  BY DEF SendRegister, f
<1>4. /\ toKernel = <<>> /\ toClient = <<>> /\ byKernel = <<>> /\ kernelKey = NoKey
      /\ gotClient = <<>> /\ gotKernel = <<>> /\ byClient = <<>>
  BY <1>1, <1>3 DEF PhaseInv
<1>5. toKernel' \in Seq(Frames) /\ Len(toKernel') = 1
  BY <1>2, <1>3, <1>4, EmptySeq, AppendFacts
<1>6. TypeOK'
  BY <1>1, <1>3, <1>5 DEF TypeOK
<1>7. PhaseInv' /\ AllowedClient'
  BY <1>1, <1>3, <1>4, <1>5 DEF PhaseInv, AllowedClient
<1>8. AnswerInv' /\ KeyInv' /\ ToKernelInv' /\ OnlyUnderOneKey'
  BY <1>3, <1>4 DEF AnswerInv, KeyInv, ToKernelInv, OnlyUnderOneKey
<1>9. Len(gotClient') = 0 /\ Len(gotKernel') = 0 /\ Len(byKernel') = 0
  BY <1>3, <1>4
<1>10. ToClientInv' /\ ReadInv' /\ WrittenInv'
  BY <1>3, <1>4, <1>9, EmptySeq DEF ToClientInv, ReadInv, WrittenInv
<1>. QED  BY <1>6, <1>7, <1>8, <1>10 DEF IInv

LEMMA KernelAnswersStep == ASSUME IInv, KernelAnswers PROVE IInv'
<1>. DEFINE Possible == {"reject", "error", IF secured THEN "ackNonce" ELSE "ack"}
<1>1. TypeOK /\ PhaseInv /\ AllowedClient
  BY DEF IInv
<1>2. /\ pc = "registering" /\ toKernel # <<>> /\ toKernel' = Tail(toKernel)
      /\ UNCHANGED <<api, env, pc, client, conn, secured, byClient, byKernel,
                     gotKernel, gotClient>>
  BY DEF KernelAnswers
<1>3. PICK answer \in Possible :
        /\ toClient' = Append(toClient, PackFrame(ControlMessage(answer), NoKey, FALSE))
        /\ kernelKey' = KeyFor(answer)
  BY DEF KernelAnswers, KeyFor
<1>. DEFINE f == PackFrame(ControlMessage(answer), NoKey, FALSE)
<1>4. f \in Frames
  <2>1. ControlMessage(answer) \in Messages
    BY ControlType DEF Control
  <2>. QED  BY <2>1, NoKeyType, FrameType
<1>5. kernelKey' \in Keys
  <2>1. KernelSecret(client) \in Secrets \cup {Unset}
    BY KernelSecretType
  <2>2. conn \in Nat
    BY <1>1 DEF TypeOK
  <2>. QED  BY <1>3, <2>1, <2>2, DeriveType, NoKeyType DEF KeyFor
<1>6. /\ toClient = <<>> /\ Len(toKernel) = 1 /\ byKernel = <<>> /\ kernelKey = NoKey
      /\ gotClient = <<>> /\ gotKernel = <<>> /\ byClient = <<>>
  BY <1>1, <1>2 DEF PhaseInv
<1>7. toKernel' = <<>> /\ toKernel' \in Seq(Frames)
  <2>1. toKernel \in Seq(Frames)
    BY <1>1 DEF TypeOK
  <2>2. Len(Tail(toKernel)) = 0 /\ Tail(toKernel) \in Seq(Frames)
    BY <1>2, <1>6, <2>1, TailFacts
  <2>. QED  BY <1>2, <2>2, EmptySeq
<1>8. toClient' = <<f>> /\ toClient' \in Seq(Frames) /\ toClient' # <<>>
      /\ Len(toClient') = 1 /\ toClient'[1] = f
  <2>. HIDE DEF f
  <2>1. toClient' = Append(<<>>, f)
    BY <1>3, <1>6 DEF f
  <2>. QED  BY <1>4, <2>1, EmptySeq, AppendFacts
<1>9. TypeOK'
  BY <1>1, <1>2, <1>5, <1>7, <1>8 DEF TypeOK
<1>10. PhaseInv' /\ AllowedClient'
  BY <1>1, <1>2, <1>6, <1>7, <1>8 DEF PhaseInv, AllowedClient
<1>11. Len(gotClient') = 0 /\ Len(gotKernel') = 0 /\ Len(byKernel') = 0
  BY <1>2, <1>6
<1>12. AnswerInv'
  <2>1. answer \in {"reject", "error", IF secured' THEN "ackNonce" ELSE "ack"}
    BY <1>2, <1>3
  <2>2. kernelKey' = IF answer = "ackNonce"
                       THEN DeriveSessionKey(KernelSecret(client'), conn') ELSE NoKey
    BY <1>2, <1>3 DEF KeyFor
  <2>3. toClient'[1] = PackFrame(ControlMessage(answer), NoKey, FALSE)
    BY <1>8
  <2>4. Len(toClient') = Len(byKernel') + 1
    BY <1>8, <1>11
  <2>. HIDE DEF f
  <2>. QED  BY <2>1, <2>2, <2>3, <2>4 DEF AnswerInv, KeyFor
<1>13. KeyInv' /\ ToKernelInv' /\ OnlyUnderOneKey'
  BY <1>2, <1>6 DEF KeyInv, ToKernelInv, OnlyUnderOneKey
<1>14. ToClientInv' /\ ReadInv' /\ WrittenInv'
  BY <1>2, <1>6, <1>11, EmptySeq DEF ToClientInv, ReadInv, WrittenInv
<1>. QED  BY <1>9, <1>10, <1>12, <1>13, <1>14 DEF IInv

(* After the acknowledgement both ends have derived the same key, or none. *)
LEMMA KeysAgree ==
  ASSUME TypeOK, AllowedClient, AnswerInv, RegisterAccepted, SameSecret'
  PROVE  client'.key = kernelKey'
<1>1. PICK answer \in {"reject", "error", IF secured THEN "ackNonce" ELSE "ack"} :
        /\ toClient[1] = PackFrame(ControlMessage(answer), NoKey, FALSE)
        /\ kernelKey = KeyFor(answer)
  BY DEF AnswerInv, RegisterAccepted
<1>2. Head(toClient) = toClient[1]
  BY TailFacts DEF TypeOK, RegisterAccepted
<1>3. /\ toClient[1].flags = {} /\ toClient[1].payload.data = answer
  BY <1>1 DEF PackFrame, ControlMessage, WireFlags, Compresses
<1>4. client.key = NoKey
  BY <1>2, <1>3 DEF RegisterAccepted, Readable, Verified
<1>5. CASE answer = "ackNonce"
  <2>1. secured /\ KernelSecret(client) \in Secrets
    BY <1>5, KernelSecretType
  <2>2. client' = NonceApplied(client, conn)
    BY <1>2, <1>3, <1>5 DEF RegisterAccepted
  <2>3. client'.secret = client.secret /\ client'.device = client.device
        /\ (client.secret # Unset =>
              client'.key = DeriveSessionKey(client.secret, conn))
    BY <2>2 DEF NonceApplied, TypeOK, Clients
  <2>4. client.secret = KernelSecret(client)
    BY <2>1, <2>3 DEF SameSecret, KernelSecret, RegisterAccepted
  <2>5. client.secret # Unset
    BY <2>1, <2>4, SecretsAssumption
  <2>. QED  BY <1>1, <1>5, <2>3, <2>4, <2>5 DEF KeyFor, RegisterAccepted
<1>6. CASE answer = "ack"
  BY <1>1, <1>2, <1>3, <1>4, <1>6 DEF KeyFor, RegisterAccepted
<1>. QED  BY <1>1, <1>2, <1>3, <1>5, <1>6 DEF RegisterAccepted

LEMMA RegisterAcceptedStep == ASSUME IInv, RegisterAccepted PROVE IInv'
<1>1. /\ TypeOK /\ PhaseInv /\ AllowedClient /\ AnswerInv /\ ToClientInv /\ WrittenInv
  BY DEF IInv
<1>2. /\ pc = "registering" /\ toClient # <<>> /\ toClient' = Tail(toClient)
      /\ pc' = "serving" /\ client' \in {NonceApplied(client, conn), client}
      /\ UNCHANGED <<api, env, conn, secured, kernelKey, toKernel, byClient,
                     byKernel, gotKernel, gotClient>>
  BY DEF RegisterAccepted
<1>3. toClient \in Seq(Frames) /\ byKernel \in Seq(Messages) /\ conn \in Nat
      /\ client \in Clients
  BY <1>1 DEF TypeOK
<1>4. /\ toClient' \in Seq(Frames) /\ Len(byKernel) \in Nat
      /\ Len(toClient') = Len(byKernel)
      /\ \A i \in 1..Len(toClient') : toClient'[i] = toClient[i + 1]
  <2>1. Len(toClient) = Len(byKernel) + 1
    BY <1>1, <1>2 DEF AnswerInv
  <2>. QED  BY <1>2, <1>3, <2>1, TailFacts, LenProperties
<1>5. /\ toKernel = <<>> /\ gotClient = <<>> /\ gotKernel = <<>> /\ byClient = <<>>
  BY <1>1, <1>2 DEF PhaseInv
<1>6. /\ client' \in Clients /\ client'.ws = client.ws
      /\ client'.secret = client.secret /\ client'.device = client.device
      /\ client'.key.secret \in {client.secret, Unset}
  <2>1. CASE client' = client
    BY <1>1, <1>2, <1>3, <2>1 DEF AllowedClient
  <2>2. CASE client' = NonceApplied(client, conn) /\ client.secret # Unset
    <3>1. DeriveSessionKey(client.secret, conn) \in Keys
      BY <1>3, DeriveType DEF Clients
    <3>2. DeriveSessionKey(client.secret, conn).secret = client.secret
      BY DEF DeriveSessionKey
    <3>. QED  BY <1>3, <2>2, <3>1, <3>2 DEF NonceApplied, Clients
  <2>3. CASE client' = NonceApplied(client, conn) /\ client.secret = Unset
    BY <2>1, <2>3 DEF NonceApplied
  <2>. QED  BY <1>2, <2>1, <2>2, <2>3
<1>7. TypeOK'
  BY <1>1, <1>2, <1>4, <1>6 DEF TypeOK
<1>8. PhaseInv' /\ AllowedClient' /\ AnswerInv'
  BY <1>1, <1>2, <1>6 DEF PhaseInv, AllowedClient, AnswerInv
<1>9. KeyInv'
  BY <1>1, KeysAgree DEF KeyInv
<1>10. Len(gotClient') = 0 /\ Len(gotKernel') = 0 /\ Len(byClient') = 0
       /\ Len(toKernel') = 0
  BY <1>2, <1>5
<1>11. ToKernelInv' /\ ReadInv' /\ OnlyUnderOneKey' /\ WrittenInv'
  BY <1>1, <1>2, <1>5, <1>10 DEF ToKernelInv, ReadInv, OnlyUnderOneKey, WrittenInv
<1>12. ToClientInv'
  <2>1. \A i \in 1..Len(toClient') : KernelWrote(toClient[i + 1], byKernel[i])
    BY <1>1, <1>2, <1>4 DEF ToClientInv
  <2>. QED  BY <1>2, <1>4, <1>10, <2>1 DEF ToClientInv, KernelWrote
<1>. QED  BY <1>7, <1>8, <1>9, <1>11, <1>12 DEF IInv

LEMMA RegisterFailsStep == ASSUME IInv, RegisterFails PROVE IInv'
<1>1. PICK place \in {"closed", "refused"} : Disconnected(place)
  BY DEF RegisterFails
<1>2. pc = "registering"
  BY DEF RegisterFails
<1>. QED  BY <1>1, <1>2, DisconnectedStep

-----------------------------------------------------------------------------
(* Application traffic.                                                    *)

LEMMA ClientSendsStep ==
  ASSUME IInv, NEW msg \in AppMessages, ClientSends(msg)
  PROVE  IInv'
<1>. DEFINE f == PackFrame(msg, client.key, CompressesOn(client))
<1>1. /\ TypeOK /\ PhaseInv /\ AllowedClient /\ KeyInv /\ ToKernelInv /\ ToClientInv
      /\ ReadInv /\ WrittenInv /\ OnlyUnderOneKey
  BY DEF IInv
<1>2. /\ pc = "serving" /\ Packable(msg) /\ toKernel' = Append(toKernel, f)
      /\ byClient' = Append(byClient, msg)
      /\ UNCHANGED <<api, env, pc, client, conn, secured, kernelKey, toClient,
                     byKernel, gotKernel, gotClient>>
  BY DEF ClientSends
<1>3. /\ msg \in Sendable /\ msg \in Messages /\ f \in Frames
      /\ toKernel \in Seq(Frames) /\ byClient \in Seq(Sendable)
      /\ byClient \in Seq(Messages) /\ gotKernel \in Seq(Messages)
  <2>1. msg \in Sendable /\ msg \in Messages
    BY <1>2, SessionData DEF Sendable
  <2>2. client.key \in Keys /\ CompressesOn(client) \in BOOLEAN
    BY <1>1 DEF TypeOK, Clients, CompressesOn
  <2>. QED  BY <1>1, <2>1, <2>2, FrameType DEF TypeOK, WrittenInv
<1>. HIDE DEF f
<1>4. /\ toKernel' \in Seq(Frames) /\ Len(toKernel) \in Nat
      /\ Len(toKernel') = Len(toKernel) + 1
      /\ \A i \in 1..Len(toKernel) : toKernel'[i] = toKernel[i]
      /\ toKernel'[Len(toKernel) + 1] = f
  BY <1>2, <1>3, AppendFacts
<1>5. /\ byClient' \in Seq(Sendable) /\ byClient' \in Seq(Messages)
      /\ Len(byClient) \in Nat /\ Len(byClient') = Len(byClient) + 1
      /\ \A i \in 1..Len(byClient) : byClient'[i] = byClient[i]
      /\ byClient'[Len(byClient) + 1] = msg
  BY <1>2, <1>3, AppendFacts
<1>6. Len(gotKernel) \in Nat /\ Len(gotKernel) + Len(toKernel) = Len(byClient)
  BY <1>1, <1>2, <1>3, LenProperties DEF ToKernelInv
<1>7. TypeOK'
  BY <1>1, <1>2, <1>4, <1>5 DEF TypeOK
<1>8. PhaseInv' /\ AllowedClient' /\ AnswerInv'
  BY <1>1, <1>2 DEF PhaseInv, AllowedClient, AnswerInv
<1>9. KeyInv' /\ ToClientInv' /\ OnlyUnderOneKey'
  BY <1>1, <1>2
     DEF KeyInv, SameSecret, ToClientInv, KernelWrote, OnlyUnderOneKey
<1>10. WrittenInv'
  BY <1>1, <1>2, <1>5 DEF WrittenInv
<1>11. ReadInv'
  BY <1>1, <1>2, <1>4, <1>5, <1>6 DEF ReadInv
<1>12. ToKernelInv'
  <2>1. ASSUME NEW i \in 1..Len(toKernel')
        PROVE  toKernel'[i] = PackFrame(byClient'[Len(gotKernel) + i], client.key,
                                        CompressesOn(client))
    <3>1. CASE i <= Len(toKernel)
      <4>1. i \in 1..Len(toKernel) /\ Len(gotKernel) + i \in 1..Len(byClient)
        BY <1>4, <1>5, <1>6, <3>1
      <4>2. /\ toKernel'[i] = toKernel[i]
            /\ byClient'[Len(gotKernel) + i] = byClient[Len(gotKernel) + i]
        BY <1>4, <1>5, <4>1
      <4>. QED  BY <1>1, <1>2, <4>1, <4>2 DEF ToKernelInv
    <3>2. CASE i = Len(toKernel) + 1
      <4>1. byClient'[Len(gotKernel) + i] = msg
        BY <1>4, <1>5, <1>6, <3>2
      <4>. QED  BY <1>4, <3>2, <4>1 DEF f
    <3>. QED  BY <1>4, <3>1, <3>2
  <2>2. Len(gotKernel') + Len(toKernel') = Len(byClient')
    BY <1>2, <1>4, <1>5, <1>6
  <2>. QED  BY <1>2, <2>1, <2>2 DEF ToKernelInv
<1>. QED  BY <1>7, <1>8, <1>9, <1>10, <1>11, <1>12 DEF IInv

LEMMA KernelSendsStep ==
  ASSUME IInv, NEW msg \in AppMessages, NEW compress \in BOOLEAN,
         KernelSends(msg, compress)
  PROVE  IInv'
<1>. DEFINE f == PackFrame(msg, kernelKey, compress)
<1>1. /\ TypeOK /\ PhaseInv /\ AllowedClient /\ AnswerInv /\ KeyInv /\ ToKernelInv
      /\ ToClientInv /\ ReadInv /\ WrittenInv /\ OnlyUnderOneKey
  BY DEF IInv
<1>2. /\ Packable(msg) /\ toClient' = Append(toClient, f)
      /\ byKernel' = Append(byKernel, msg)
      /\ UNCHANGED <<api, env, pc, client, conn, secured, kernelKey, toKernel,
                     byClient, gotKernel, gotClient>>
  BY DEF KernelSends
<1>3. pc = "serving" \/ (pc = "registering" /\ toClient # <<>>)
  BY DEF KernelSends, KernelAccepted
<1>4. /\ msg \in Sendable /\ msg \in Messages /\ f \in Frames
      /\ toClient \in Seq(Frames) /\ byKernel \in Seq(Sendable)
      /\ byKernel \in Seq(Messages) /\ gotClient \in Seq(Messages)
  <2>1. msg \in Sendable /\ msg \in Messages
    BY <1>2, SessionData DEF Sendable
  <2>. QED  BY <1>1, <2>1, FrameType DEF TypeOK, WrittenInv
<1>5. KernelWrote(f, msg)
  BY DEF KernelWrote
<1>. HIDE DEF f
<1>6. /\ toClient' \in Seq(Frames) /\ toClient' # <<>> /\ Len(toClient) \in Nat
      /\ Len(toClient') = Len(toClient) + 1
      /\ \A i \in 1..Len(toClient) : toClient'[i] = toClient[i]
      /\ toClient'[Len(toClient) + 1] = f
  BY <1>2, <1>4, AppendFacts
<1>7. /\ byKernel' \in Seq(Sendable) /\ byKernel' \in Seq(Messages)
      /\ Len(byKernel) \in Nat /\ Len(byKernel') = Len(byKernel) + 1
      /\ \A i \in 1..Len(byKernel) : byKernel'[i] = byKernel[i]
      /\ byKernel'[Len(byKernel) + 1] = msg
  BY <1>2, <1>4, AppendFacts
<1>8. TypeOK'
  BY <1>1, <1>2, <1>6, <1>7 DEF TypeOK
<1>9. PhaseInv' /\ AllowedClient'
  BY <1>1, <1>2, <1>3, <1>6 DEF PhaseInv, AllowedClient
<1>10. KeyInv' /\ ToKernelInv' /\ OnlyUnderOneKey' /\ WrittenInv'
  BY <1>1, <1>2, <1>7
     DEF KeyInv, SameSecret, ToKernelInv, OnlyUnderOneKey, WrittenInv
<1>11. AnswerInv'
  <2>. SUFFICES ASSUME pc = "registering" PROVE AnswerInv'
    BY <1>2 DEF AnswerInv
  <2>1. toClient # <<>> /\ Len(toClient) = Len(byKernel) + 1
    BY <1>1, <1>3 DEF AnswerInv
  <2>2. toClient'[1] = toClient[1] /\ Len(toClient') = Len(byKernel') + 1
    BY <1>6, <1>7, <2>1
  <2>3. UNCHANGED <<secured, kernelKey, client, conn>>
    BY <1>2
  <2>. QED  BY <1>1, <2>1, <2>2, <2>3 DEF AnswerInv, KeyFor
<1>12. ReadInv'
  <2>1. \A i \in 1..Len(gotClient) : i \in 1..Len(byKernel)
    <3>1. CASE pc = "serving"
      BY <1>1, <1>4, <1>6, <1>7, <3>1, LenProperties DEF ToClientInv
    <3>2. CASE pc # "serving"
      BY <1>1, <3>2 DEF PhaseInv
    <3>. QED  BY <3>1, <3>2
  <2>. QED  BY <1>1, <1>2, <1>7, <2>1 DEF ReadInv
<1>13. ToClientInv'
  <2>1. \A g, m : KernelWrote(g, m)' <=> KernelWrote(g, m)
    BY <1>2 DEF KernelWrote
  <2>2. CASE pc = "serving"
    <3>1. Len(gotClient) \in Nat /\ Len(gotClient) + Len(toClient) = Len(byKernel)
      BY <1>1, <1>4, <2>2, LenProperties DEF ToClientInv
    <3>2. ASSUME NEW i \in 1..Len(toClient')
          PROVE  KernelWrote(toClient'[i], byKernel'[Len(gotClient) + i])
      <4>1. CASE i <= Len(toClient)
        BY <1>1, <1>6, <1>7, <2>2, <3>1, <4>1 DEF ToClientInv
      <4>2. CASE i = Len(toClient) + 1
        BY <1>5, <1>6, <1>7, <3>1, <4>2
      <4>. QED  BY <1>6, <4>1, <4>2
    <3>3. Len(gotClient') + Len(toClient') = Len(byKernel')
      BY <1>2, <1>6, <1>7, <3>1
    <3>. QED  BY <1>2, <2>2, <3>2, <3>3 DEF ToClientInv, KernelWrote
  <2>3. CASE pc = "registering" /\ toClient # <<>>
    <3>1. Len(toClient) = Len(byKernel) + 1
      BY <1>1, <2>3 DEF AnswerInv
    <3>2. ASSUME NEW i \in 1..Len(byKernel')
          PROVE  KernelWrote(toClient'[i + 1], byKernel'[i])
      <4>1. CASE i <= Len(byKernel)
        BY <1>1, <1>6, <1>7, <2>3, <3>1, <4>1 DEF ToClientInv
      <4>2. CASE i = Len(byKernel) + 1
        BY <1>5, <1>6, <1>7, <3>1, <4>2
      <4>. QED  BY <1>7, <4>1, <4>2
    <3>. QED  BY <1>2, <2>3, <3>2 DEF ToClientInv, KernelWrote
  <2>. QED  BY <1>3, <2>2, <2>3
<1>. QED  BY <1>8, <1>9, <1>10, <1>11, <1>12, <1>13 DEF IInv

LEMMA ClientReadsStep == ASSUME IInv, ClientReads PROVE IInv'
<1>. DEFINE read == AsSent(Normalized(Head(toClient)))
<1>1. /\ TypeOK /\ PhaseInv /\ AllowedClient /\ KeyInv /\ ToKernelInv /\ ToClientInv
      /\ ReadInv /\ WrittenInv /\ OnlyUnderOneKey /\ pc = "serving" /\ toClient # <<>>
  BY DEF IInv, ClientReads
<1>2. CASE ~Readable(Head(toClient), client.key)
  BY <1>1, <1>2, DisconnectedStep DEF ClientReads
<1>3. CASE Readable(Head(toClient), client.key)
  <2>1. /\ gotClient' = Append(gotClient, read) /\ toClient' = Tail(toClient)
        /\ UNCHANGED <<api, env, pc, client, conn, secured, kernelKey, toKernel,
                       byClient, byKernel, gotKernel>>
    BY <1>3 DEF ClientReads
  <2>2. /\ toClient \in Seq(Frames) /\ gotClient \in Seq(Messages)
        /\ byKernel \in Seq(Sendable) /\ byKernel \in Seq(Messages)
        /\ kernelKey \in Keys /\ client.key \in Keys
    BY <1>1 DEF TypeOK, WrittenInv, Clients
  <2>3. /\ Head(toClient) \in Frames /\ Head(toClient) = toClient[1]
        /\ toClient' \in Seq(Frames) /\ Len(toClient) \in Nat /\ Len(toClient) > 0
        /\ Len(toClient') = Len(toClient) - 1
        /\ \A i \in 1..Len(toClient') : toClient'[i] = toClient[i + 1]
    BY <1>1, <2>1, <2>2, TailFacts
  <2>4. read \in Messages
    BY <2>3, ReadType
  <2>. HIDE DEF read
  <2>5. /\ gotClient' \in Seq(Messages) /\ Len(gotClient) \in Nat
        /\ Len(gotClient') = Len(gotClient) + 1
        /\ \A i \in 1..Len(gotClient) : gotClient'[i] = gotClient[i]
        /\ gotClient'[Len(gotClient) + 1] = read
    BY <2>1, <2>2, <2>4, AppendFacts
  <2>6. Len(gotClient) + Len(toClient) = Len(byKernel) /\ Len(byKernel) \in Nat
    BY <1>1, <2>2, LenProperties DEF ToClientInv
  <2>. DEFINE msg == byKernel[Len(gotClient) + 1]
  <2>7. msg \in Sendable
    BY <2>2, <2>3, <2>5, <2>6, ElementOfSeq
  <2>8. PICK compress \in BOOLEAN : Head(toClient) = PackFrame(msg, kernelKey, compress)
    BY <1>1, <2>3 DEF ToClientInv, KernelWrote
  <2>9. read = Plain(msg)
    BY <2>2, <2>7, <2>8, ReadBack DEF read
  <2>10. client.key # NoKey => client.key = kernelKey
    <3>1. msg \in Messages /\ "mac" \notin msg.flags
      BY <2>7, SessionData DEF Sendable
    <3>. QED  BY <1>3, <2>2, <2>8, <3>1, TagNeeded
  <2>. HIDE DEF msg
  <2>11. TypeOK'
    BY <1>1, <2>1, <2>3, <2>5 DEF TypeOK
  <2>12. PhaseInv' /\ AllowedClient' /\ AnswerInv'
    BY <1>1, <2>1 DEF PhaseInv, AllowedClient, AnswerInv
  <2>13. KeyInv' /\ ToKernelInv' /\ WrittenInv'
    BY <1>1, <2>1 DEF KeyInv, SameSecret, ToKernelInv, WrittenInv
  <2>14. OnlyUnderOneKey'
    BY <1>1, <2>1, <2>10 DEF OnlyUnderOneKey
  <2>15. ReadInv'
    <3>1. ASSUME NEW i \in 1..Len(gotClient') PROVE gotClient'[i] = Plain(byKernel[i])
      <4>1. CASE i <= Len(gotClient)
        BY <1>1, <2>5, <4>1 DEF ReadInv
      <4>2. CASE i = Len(gotClient) + 1
        BY <2>5, <2>9, <4>2 DEF msg
      <4>. QED  BY <2>5, <4>1, <4>2
    <3>. QED  BY <1>1, <2>1, <3>1 DEF ReadInv
  <2>16. ToClientInv'
    <3>1. \A i \in 1..Len(toClient') :
            KernelWrote(toClient'[i], byKernel[Len(gotClient') + i])
      BY <1>1, <2>3, <2>5, <2>6 DEF ToClientInv
    <3>2. Len(gotClient') + Len(toClient') = Len(byKernel')
      BY <2>1, <2>3, <2>5, <2>6
    <3>. QED  BY <1>1, <2>1, <3>1, <3>2 DEF ToClientInv, KernelWrote
  <2>. QED  BY <2>11, <2>12, <2>13, <2>14, <2>15, <2>16 DEF IInv
<1>. QED  BY <1>2, <1>3

LEMMA KernelReadsStep == ASSUME IInv, KernelReads PROVE IInv'
<1>. DEFINE read == AsSent(Normalized(Head(toKernel)))
<1>1. /\ TypeOK /\ PhaseInv /\ AllowedClient /\ KeyInv /\ ToKernelInv /\ ToClientInv
      /\ ReadInv /\ WrittenInv /\ OnlyUnderOneKey /\ pc = "serving" /\ toKernel # <<>>
  BY DEF IInv, KernelReads
<1>2. CASE ~KernelTakes(Head(toKernel))
  BY <1>1, <1>2, DisconnectedStep DEF KernelReads
<1>3. CASE KernelTakes(Head(toKernel))
  <2>1. /\ gotKernel' = Append(gotKernel, read) /\ toKernel' = Tail(toKernel)
        /\ UNCHANGED <<api, env, pc, client, conn, secured, kernelKey, toClient,
                       byClient, byKernel, gotClient>>
    BY <1>3 DEF KernelReads
  <2>2. /\ toKernel \in Seq(Frames) /\ gotKernel \in Seq(Messages)
        /\ byClient \in Seq(Sendable) /\ byClient \in Seq(Messages)
        /\ kernelKey \in Keys /\ client.key \in Keys /\ CompressesOn(client) \in BOOLEAN
    BY <1>1 DEF TypeOK, WrittenInv, Clients, CompressesOn
  <2>3. /\ Head(toKernel) \in Frames /\ Head(toKernel) = toKernel[1]
        /\ toKernel' \in Seq(Frames) /\ Len(toKernel) \in Nat /\ Len(toKernel) > 0
        /\ Len(toKernel') = Len(toKernel) - 1
        /\ \A i \in 1..Len(toKernel') : toKernel'[i] = toKernel[i + 1]
    BY <1>1, <2>1, <2>2, TailFacts
  <2>4. read \in Messages
    BY <2>3, ReadType
  <2>. HIDE DEF read
  <2>5. /\ gotKernel' \in Seq(Messages) /\ Len(gotKernel) \in Nat
        /\ Len(gotKernel') = Len(gotKernel) + 1
        /\ \A i \in 1..Len(gotKernel) : gotKernel'[i] = gotKernel[i]
        /\ gotKernel'[Len(gotKernel) + 1] = read
    BY <2>1, <2>2, <2>4, AppendFacts
  <2>6. Len(gotKernel) + Len(toKernel) = Len(byClient) /\ Len(byClient) \in Nat
    BY <1>1, <2>2, LenProperties DEF ToKernelInv
  <2>. DEFINE msg == byClient[Len(gotKernel) + 1]
  <2>7. msg \in Sendable
    BY <2>2, <2>3, <2>5, <2>6, ElementOfSeq
  <2>8. Head(toKernel) = PackFrame(msg, client.key, CompressesOn(client))
    BY <1>1, <2>3 DEF ToKernelInv
  <2>9. read = Plain(msg)
    BY <2>2, <2>7, <2>8, ReadBack DEF read
  <2>10. kernelKey # NoKey => client.key = kernelKey
    <3>1. msg \in Messages /\ "mac" \notin msg.flags
      BY <2>7, SessionData DEF Sendable
    <3>. QED  BY <1>3, <2>2, <2>8, <3>1, TagNeeded DEF KernelTakes
  <2>. HIDE DEF msg
  <2>11. TypeOK'
    BY <1>1, <2>1, <2>3, <2>5 DEF TypeOK
  <2>12. PhaseInv' /\ AllowedClient' /\ AnswerInv'
    BY <1>1, <2>1 DEF PhaseInv, AllowedClient, AnswerInv
  <2>13. KeyInv' /\ ToClientInv' /\ WrittenInv'
    BY <1>1, <2>1 DEF KeyInv, SameSecret, ToClientInv, KernelWrote, WrittenInv
  <2>14. OnlyUnderOneKey'
    BY <1>1, <2>1, <2>10 DEF OnlyUnderOneKey
  <2>15. ReadInv'
    <3>1. ASSUME NEW i \in 1..Len(gotKernel') PROVE gotKernel'[i] = Plain(byClient[i])
      <4>1. CASE i <= Len(gotKernel)
        BY <1>1, <2>5, <4>1 DEF ReadInv
      <4>2. CASE i = Len(gotKernel) + 1
        BY <2>5, <2>9, <4>2 DEF msg
      <4>. QED  BY <2>5, <4>1, <4>2
    <3>. QED  BY <1>1, <2>1, <3>1 DEF ReadInv
  <2>16. ToKernelInv'
    <3>1. \A i \in 1..Len(toKernel') :
            toKernel'[i] = PackFrame(byClient[Len(gotKernel') + i], client.key,
                                     CompressesOn(client))
      BY <1>1, <2>3, <2>5, <2>6 DEF ToKernelInv
    <3>2. Len(gotKernel') + Len(toKernel') = Len(byClient')
      BY <2>1, <2>3, <2>5, <2>6
    <3>. QED  BY <1>1, <2>1, <3>1, <3>2 DEF ToKernelInv
  <2>. QED  BY <2>11, <2>12, <2>13, <2>14, <2>15, <2>16 DEF IInv
<1>. QED  BY <1>2, <1>3

-----------------------------------------------------------------------------
LEMMA InvStep == ASSUME IInv, [Next]_vars PROVE IInv'
<1>1. CASE Disconnect
  BY <1>1, DisconnectedStep DEF Disconnect
<1>2. CASE UNCHANGED vars
  BY <1>2 DEF IInv, TypeOK, PhaseInv, AllowedClient, AnswerInv, KeyFor, KeyInv,
     SameSecret, ToKernelInv, ToClientInv, KernelWrote, ReadInv, WrittenInv,
     OnlyUnderOneKey, vars, link
<1>3. ASSUME NEW msg \in AppMessages, NEW compress \in BOOLEAN,
             KernelSends(msg, compress)
      PROVE  IInv'
  BY <1>3, KernelSendsStep
<1>4. ASSUME NEW msg \in AppMessages, ClientSends(msg) PROVE IInv'
  BY <1>4, ClientSendsStep
<1>. QED
  BY <1>1, <1>2, <1>3, <1>4, MisconfiguredStep, ConnectStep, ConnectAgainStep,
     SendRegisterStep, KernelAnswersStep, RegisterAcceptedStep,
     RegisterFailsStep, ClientReadsStep, KernelReadsStep DEF Next

(* What the two ends hold fits what is in transit between them, over any   *)
(* number of connections (client.py, lines 127-355).                       *)
THEOREM Invariance == Spec => []IInv
<1>1. IInv /\ [Next]_vars => IInv'
  BY InvStep
<1>. QED  BY <1>1, InitInv, PTL DEF Spec

(* Credentials, keys and frames keep their types.                          *)
THEOREM TypeCorrect == Spec => []TypeOK
<1>1. IInv => TypeOK
  BY DEF IInv
<1>. QED  BY <1>1, Invariance, PTL

(* A side with a key reads nothing from a side without it, nor under the   *)
(* key of another secret or connection (framing.py, lines 245-254).        *)
THEOREM NothingUntaggedRead == Spec => []OnlyUnderOneKey
<1>1. IInv => OnlyUnderOneKey
  BY DEF IInv
<1>. QED  BY <1>1, Invariance, PTL

(* Whatever is read is what was sent, in order, for all payloads, sizes    *)
(* and limits, whatever was compressed or tagged on the way.               *)
THEOREM SentIsRead == Spec => []ArrivesAsSent
<1>1. IInv => ArrivesAsSent
  <2>. SUFFICES ASSUME IInv PROVE ArrivesAsSent
    OBVIOUS
  <2>1. /\ gotClient \in Seq(Messages) /\ byKernel \in Seq(Messages)
        /\ gotKernel \in Seq(Messages) /\ byClient \in Seq(Messages)
        /\ toClient \in Seq(Frames) /\ toKernel \in Seq(Frames)
    BY DEF IInv, TypeOK
  <2>2. Len(gotClient) <= Len(byKernel) /\ Len(gotKernel) <= Len(byClient)
    <3>1. CASE pc = "serving"
      BY <2>1, <3>1, LenProperties DEF IInv, ToClientInv, ToKernelInv
    <3>2. CASE pc # "serving"
      BY <2>1, <3>2, LenProperties, EmptySeq DEF IInv, PhaseInv
    <3>. QED  BY <3>1, <3>2
  <2>3. /\ \A i \in 1..Len(gotClient) : gotClient[i] = PlainAll(byKernel)[i]
        /\ \A i \in 1..Len(gotKernel) : gotKernel[i] = PlainAll(byClient)[i]
    BY <2>1, <2>2, LenProperties, PlainAllFacts DEF IInv, ReadInv
  <2>4. /\ PlainAll(byKernel) \in Seq(Messages) /\ Len(PlainAll(byKernel)) = Len(byKernel)
        /\ PlainAll(byClient) \in Seq(Messages) /\ Len(PlainAll(byClient)) = Len(byClient)
    BY <2>1, PlainAllFacts
  <2>. QED  BY <2>1, <2>2, <2>3, <2>4, PrefixFromElements DEF ArrivesAsSent
<1>. QED  BY <1>1, Invariance, PTL

(* Two ends with the same secret never refuse each other's frames, but for *)
(* what a caller compressed itself: the keys change together, and a tag is *)
(* checked against what it was computed over.                              *)
THEOREM NothingRefused == Spec => []NoFrameRefused
<1>1. IInv => NoFrameRefused
  <2>. SUFFICES ASSUME IInv, pc = "serving", SameSecret PROVE NoFrameRefused
    BY DEF NoFrameRefused
  <2>1. /\ TypeOK /\ ToClientInv /\ ToKernelInv /\ WrittenInv
        /\ client.key = kernelKey
    BY DEF IInv, KeyInv
  <2>2. /\ kernelKey \in Keys /\ Len(gotClient) \in Nat /\ Len(toClient) \in Nat
        /\ Len(gotKernel) \in Nat /\ Len(toKernel) \in Nat
        /\ byKernel \in Seq(Sendable) /\ byClient \in Seq(Sendable)
    BY <2>1, LenProperties DEF TypeOK, WrittenInv
  <2>3. ASSUME NEW i \in 1..Len(toClient)
        PROVE  \/ Precompressed(byKernel[Len(gotClient) + i])
               \/ Readable(toClient[i], client.key)
    <3>. DEFINE msg == byKernel[Len(gotClient) + i]
    <3>1. msg \in Sendable
      BY <2>1, <2>2, ElementOfSeq DEF ToClientInv
    <3>2. PICK compress \in BOOLEAN : toClient[i] = PackFrame(msg, kernelKey, compress)
      BY <2>1 DEF ToClientInv, KernelWrote
    <3>. QED  BY <2>1, <2>2, <3>1, <3>2, ReadableBack
  <2>4. ASSUME NEW i \in 1..Len(toKernel)
        PROVE  \/ Precompressed(byClient[Len(gotKernel) + i])
               \/ KernelTakes(toKernel[i])
    <3>. DEFINE msg == byClient[Len(gotKernel) + i]
    <3>1. msg \in Sendable
      BY <2>1, <2>2, ElementOfSeq DEF ToKernelInv
    <3>2. toKernel[i] = PackFrame(msg, kernelKey, CompressesOn(client))
      BY <2>1 DEF ToKernelInv
    <3>3. /\ CompressesOn(client) \in BOOLEAN
          /\ client.ws => ~CompressesOn(client)
      BY <2>1 DEF TypeOK, Clients, CompressesOn
    <3>. QED  BY <2>2, <3>1, <3>2, <3>3, ReadableBack DEF KernelTakes
  <2>. QED  BY <2>3, <2>4 DEF NoFrameRefused
<1>. QED  BY <1>1, Invariance, PTL

(* Half a device pair never ends in a registration under the master secret *)
(* (resolve_ws_credentials in plugin.py, lines 242-256).                   *)
THEOREM PairedStaysPaired == Spec => []DeviceStaysDevice
<1>1. IInv => DeviceStaysDevice
  <2>. SUFFICES ASSUME IInv, api = "run_ws", pc # "start", conn > 0,
                       env.deviceId \/ env.deviceSecret # Unset
                PROVE  /\ client.device /\ env.jwtSecret = Unset
                       /\ client.key.secret \in {env.deviceSecret, Unset}
    BY DEF DeviceStaysDevice
  <2>1. PICK c \in WsCredentials(env) :
          client.ws = c.ws /\ client.secret = c.secret /\ client.device = c.device
    BY DEF IInv, AllowedClient, Credentials
  <2>2. c = NewClient(TRUE, env.deviceSecret, TRUE) /\ env.jwtSecret = Unset
    BY <2>1 DEF WsCredentials
  <2>3. c.device = TRUE /\ c.secret = env.deviceSecret
    BY <2>2 DEF NewClient
  <2>4. client.key.secret \in {client.secret, Unset}
    BY DEF IInv, AllowedClient
  <2>5. client.device = TRUE
    BY <2>1, <2>3
  <2>. QED  BY <2>1, <2>2, <2>3, <2>4, <2>5
<1>. QED  BY <1>1, Invariance, PTL
=============================================================================
