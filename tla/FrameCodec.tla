----------------------------- MODULE FrameCodec -----------------------------
(***************************************************************************)
(* One frame of the wire protocol: what pack_frame writes and what the     *)
(* readers of src/vynkor/framing.py make of it.                            *)
(*                                                                         *)
(* The transports deliver bytes unchanged, so magic, length and checksum   *)
(* always fit, and a header is determined by its flags and payload; the    *)
(* target is left out.  HMAC and key derivation are taken as injective.    *)
(***************************************************************************)
EXTENDS Integers

CONSTANTS
  Data,       \* what payloads say
  Size,       \* Size[d]: the bytes of d
  ZipSize,    \* ZipSize[d]: the bytes of d compressed with zstd
  Secrets,    \* the secrets there are
  Unset,      \* no secret
  MaxPayload, \* MAX_PAYLOAD
  Threshold   \* COMPRESS_THRESHOLD

ASSUME SizesAssumption   == /\ Size \in [Data -> Nat] /\ ZipSize \in [Data -> Nat]
                            /\ MaxPayload \in Nat /\ Threshold \in Nat
ASSUME SecretsAssumption == Unset \notin Secrets

(* FLAG_MAC_PRESENT, FLAG_COMPRESSED, FLAG_FRAGMENTED, FLAG_RAW_BINARY     *)
Flags    == {"mac", "compressed", "fragmented", "raw"}
Payloads == [data : Data, zip : BOOLEAN]
Messages == [flags : SUBSET Flags, payload : Payloads]
Keys     == [secret : Secrets \cup {Unset}, nonce : Nat]
NoKey    == [secret |-> Unset, nonce |-> 0]
Tags     == [key : Keys, signed : Messages]
Frames   == [flags : SUBSET Flags, payload : Payloads, tag : Tags]

Bytes(p)    == IF p.zip THEN ZipSize[p.data] ELSE Size[p.data]
Zipped(p)   == [p EXCEPT !.zip = TRUE]
Unzipped(p) == [p EXCEPT !.zip = FALSE]

(* Mutation: the two are swapped.                                          *)
DeriveSwapped(secret, nonce) == [secret |-> nonce, nonce |-> secret]

(* derive_session_key: for one plugin id, the secret and the nonce.        *)
DeriveSessionKey(secret, nonce) == [secret |-> secret, nonce |-> nonce]

(* pack_frame raises VynkorPayloadTooLarge on anything else.               *)
Packable(msg) == Bytes(msg.payload) <= MaxPayload

(* Compressing what is compressed already gains nothing.                   *)
Compresses(msg, compress) ==
  /\ compress
  /\ Bytes(msg.payload) >= Threshold
  /\ msg.flags \cap {"compressed", "raw"} = {}
  /\ ~msg.payload.zip
  /\ ZipSize[msg.payload.data] < Size[msg.payload.data]

WireFlags(flags, zips) == IF zips THEN flags \cup {"compressed"} ELSE flags

(* Mutation: the tag covers the header that goes onto the wire.            *)
SignedWireFlags(flags, zips) == WireFlags(flags, zips)

(* The flags the tag covers: those of the header before compression.       *)
SignedFlags(flags, zips) == flags

PackFrame(msg, key, compress) ==
  LET flags == IF key = NoKey THEN msg.flags ELSE msg.flags \cup {"mac"}
      zips  == Compresses(msg, compress)
  IN  [flags   |-> WireFlags(flags, zips),
       payload |-> IF zips THEN Zipped(msg.payload) ELSE msg.payload,
       tag     |-> [key |-> key,
                    signed |-> [flags   |-> SignedFlags(flags, zips),
                                payload |-> msg.payload]]]

(* _decompress: of zstd output only, and not beyond the limit.             *)
Decompressible(p) == p.zip /\ Size[p.data] <= MaxPayload

(* Mutation: the flag stays set.                                           *)
NormalizedKeepingFlag(f) ==
  [flags |-> f.flags, payload |-> IF "compressed" \in f.flags
                                    THEN Unzipped(f.payload) ELSE f.payload]

(* _normalize: the message whose header the tag was computed over.         *)
Normalized(f) ==
  IF "compressed" \in f.flags
    THEN [flags |-> f.flags \ {"compressed"}, payload |-> Unzipped(f.payload)]
    ELSE [flags |-> f.flags, payload |-> f.payload]

(* Mutation: frames without a tag pass on a secured connection.            *)
VerifiedIfTagged(f, key) ==
  "mac" \in f.flags /\ key # NoKey =>
    f.tag.key = key /\ f.tag.signed = Normalized(f)

(* With a key, the tag must be there and match; without, it is skipped.    *)
Verified(f, key) ==
  key # NoKey => /\ "mac" \in f.flags
                 /\ f.tag.key = key /\ f.tag.signed = Normalized(f)

(* A reader with this key returns Normalized(f), or else raises.           *)
Readable(f, key) ==
  /\ Bytes(f.payload) <= MaxPayload
  /\ "compressed" \in f.flags => Decompressible(f.payload)
  /\ Verified(f, key)
=============================================================================
