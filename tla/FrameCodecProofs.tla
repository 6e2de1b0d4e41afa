-------------------------- MODULE FrameCodecProofs --------------------------
(***************************************************************************)
(* For every set of payloads, whatever their sizes and the limits: what    *)
(* pack_frame writes, a reader with the same key reads.                    *)
(***************************************************************************)
EXTENDS FrameCodec, TLAPS

(* A message as a caller hands it over: the flags of the framing layer are *)
(* left to it.                                                             *)
Ordinary(msg) == msg \in Messages /\ msg.flags \cap {"mac", "compressed"} = {}

(* The flags a reader finds.                                               *)
Tagged(flags, key) == IF key = NoKey THEN flags ELSE flags \cup {"mac"}

(* What was compressed decompresses to what it was.                        *)
LEMMA UnzippedZipped ==
  ASSUME NEW p \in Payloads, ~p.zip
  PROVE  /\ Zipped(p) \in Payloads /\ Zipped(p).zip
         /\ Zipped(p).data = p.data /\ Unzipped(Zipped(p)) = p
BY DEF Zipped, Unzipped, Payloads

(* pack_frame compresses only what gets smaller.                           *)
LEMMA CompressedFits ==
  ASSUME NEW msg, Ordinary(msg), Packable(msg), NEW compress \in BOOLEAN,
         Compresses(msg, compress)
  PROVE  /\ ~msg.payload.zip
         /\ Bytes(Zipped(msg.payload)) <= MaxPayload
         /\ Decompressible(Zipped(msg.payload))
<1>1. msg.payload \in Payloads /\ ~msg.payload.zip
  BY DEF Ordinary, Messages, Compresses
<1>2. /\ Size[msg.payload.data] \in Nat /\ ZipSize[msg.payload.data] \in Nat
      /\ MaxPayload \in Nat
  BY <1>1, SizesAssumption DEF Payloads
<1>3. /\ Size[msg.payload.data] <= MaxPayload
      /\ ZipSize[msg.payload.data] < Size[msg.payload.data]
  BY <1>1 DEF Packable, Bytes, Compresses
<1>4. /\ Zipped(msg.payload).zip /\ Zipped(msg.payload).data = msg.payload.data
  BY <1>1, UnzippedZipped
<1>. QED  BY <1>1, <1>2, <1>3, <1>4 DEF Bytes, Decompressible

(* pack_frame, _normalize and the readers (lines 125-255) fit: whatever is *)
(* packed, compressed or not, tagged or not, is accepted by a reader with  *)
(* the key of the writer, and gives the payload and the flags back.  The   *)
(* tag is computed before compression, and checked after decompression.    *)
THEOREM RoundTrip ==
  ASSUME NEW msg, Ordinary(msg), Packable(msg), NEW key \in Keys,
         NEW compress \in BOOLEAN
  PROVE  /\ Readable(PackFrame(msg, key, compress), key)
         /\ Normalized(PackFrame(msg, key, compress))
              = [flags |-> Tagged(msg.flags, key), payload |-> msg.payload]
<1>. DEFINE f     == PackFrame(msg, key, compress)
            flags == Tagged(msg.flags, key)
            plain == [flags |-> flags, payload |-> msg.payload]
<1>1. msg.payload \in Payloads /\ "compressed" \notin flags
  BY DEF Ordinary, Messages, Tagged
<1>2. f.tag = [key |-> key, signed |-> plain]
  BY DEF PackFrame, SignedFlags, Tagged
<1>3. key # NoKey => "mac" \in flags
  BY DEF Tagged
<1>4. CASE Compresses(msg, compress)
  <2>1. f.flags = flags \cup {"compressed"} /\ f.payload = Zipped(msg.payload)
    BY <1>4 DEF PackFrame, WireFlags, Tagged
  <2>2. Normalized(f) = plain
    <3>1. f.flags \ {"compressed"} = flags  BY <1>1, <2>1
    <3>2. Unzipped(f.payload) = msg.payload
      BY <1>1, <1>4, <2>1, CompressedFits, UnzippedZipped
    <3>3. "compressed" \in f.flags  BY <2>1
    <3>. QED  BY <3>1, <3>2, <3>3 DEF Normalized
  <2>3. Bytes(f.payload) <= MaxPayload /\ Decompressible(f.payload)
    BY <1>4, <2>1, CompressedFits
  <2>4. Verified(f, key)
    BY <1>2, <1>3, <2>1, <2>2 DEF Verified
  <2>. QED  BY <2>2, <2>3, <2>4 DEF Readable
<1>5. CASE ~Compresses(msg, compress)
  <2>1. f.flags = flags /\ f.payload = msg.payload
    BY <1>5 DEF PackFrame, WireFlags, Tagged
  <2>2. Normalized(f) = plain
    BY <1>1, <2>1 DEF Normalized
  <2>3. Verified(f, key)
    BY <1>2, <1>3, <2>1, <2>2 DEF Verified
  <2>. QED  BY <1>1, <2>1, <2>2, <2>3 DEF Readable, Packable
<1>. QED  BY <1>4, <1>5
=============================================================================
