-------------------------------- MODULE Wire --------------------------------
(***************************************************************************)
(* One message on its way from an encoder of src/src/protocol.c through a  *)
(* frame to the matching decoder.  The sender's and the receiver's fabric  *)
(* each hold a negotiated protocol version.  The payload may have been     *)
(* written by another build of the program, which agrees on the frame but  *)
(* not on every byte of the payload; and the link may damage a payload on  *)
(* the way, which the frame's CRC32C is there to notice.  The CRC is taken *)
(* to tell any two payloads of the model apart.                            *)
(***************************************************************************)
EXTENDS LayerCodecs

CONSTANTS Kinds,         \* the kinds of message sent
          Messages(_),   \* kind -> the messages a caller may hand to its encoder
          Versions,      \* negotiated protocol versions
          Capacities,    \* bytes of the encoder's buffer
          Rooms,         \* entries of the decoder's storage
          MaxFrame,      \* FG_MAX_FRAME_BYTES
          ByteValues     \* bound: the values another build or the link puts in a byte

VARIABLES kind,     \* the message's kind
          msg,      \* the message given to the encoder
          ver,      \* the sender's version
          peer,     \* the receiver's version
          payload,  \* the payload as it stands
          frame,    \* <<>> or the frame header: version, type, crc
          foreign,  \* the payload is not the one this build's encoder wrote
          damaged,  \* the link changed the payload
          got,      \* <<>> or the message decoded
          room,     \* storage the decoder had
          step      \* where the message is

vars == <<kind, msg, ver, peer, payload, frame, foreign, damaged, got, room, step>>

-----------------------------------------------------------------------------
(* The codecs by kind *)

PageKinds == {"page_append", "page_fetch", "page_result"}
NgramKinds == {"ngram_work", "ngram_result"}
\* Ring decode rides on the single-token layer codecs under message types of its own.
LayerKinds == {"layer_work", "ring_work"}
LayerResultKinds == {"layer_result", "ring_result"}

Valid(k, v, m) ==
    CASE k = "batch_work"     -> BatchWorkValid(v, m)
      [] k = "batch_result"   -> BatchResultValid(m)
      [] k = "block_work"     -> BlockWorkValid(v, m)
      [] k = "block_result"   -> BlockResultValid(m)
      [] k = "prefill_work"   -> PrefillWorkValid(v, m)
      [] k = "prefill_result" -> PrefillResultValid(m)
      [] k \in PageKinds      -> PagesValid(k, m)
      [] k = "barrier"        -> BarrierValid(m)
      [] k = "state_fetch"    -> StateFetchValid(m)
      [] k = "state_result"   -> StateResultValid(m)
      [] k = "slice"          -> SliceValid(m)
      [] k = "history"        -> HistoryValid(m)
      [] k = "control"        -> ControlValid(m)
      [] k \in LayerKinds -> LayerWorkValid(v, m)
      [] k \in LayerResultKinds -> LayerResultValid(m)
      [] k = "tile_work" -> LayerTileValid(v, m)
      [] k = "tile_result" -> TileResultValid(m)
      [] k = "expert_work" -> DecodeWorkValid(m)
      [] k = "expert_result" -> ExpertResultValid(m)
      [] k = "expert_tile" -> ExpertTileValid(m)
      [] k = "shard_sum" -> ShardSumValid(m)
      [] k \in NgramKinds -> NgramValid(m)
      [] k = "config"    -> ConfigValid(m)
      [] k = "output_work" -> OutputWorkValid(m)
      [] k = "output_result" -> OutputResultValid(m)
      [] k = "partial"   -> PartialValid(m)

Bytes(k, v, m) ==
    CASE k = "batch_work"     -> BatchWorkBytes(m)
      [] k = "batch_result"   -> BatchResultBytes(m)
      [] k = "block_work"     -> BlockWorkBytes(v, m)
      [] k = "block_result"   -> BlockResultBytes(m)
      [] k = "prefill_work"   -> PrefillWorkBytes(v, m)
      [] k = "prefill_result" -> PrefillResultBytes(m)
      [] k \in PageKinds      -> PagesBytes(k, m)
      [] k = "barrier"        -> BarrierBytes(m)
      [] k = "state_fetch"    -> StateFetchBytes(m)
      [] k = "state_result"   -> StateResultBytes(m)
      [] k = "slice"          -> SliceBytes(m)
      [] k = "history"        -> HistoryBytes(m)
      [] k = "control"        -> ControlBytes(m)
      [] k \in LayerKinds -> LayerWorkBytes(v, m)
      [] k \in LayerResultKinds -> LayerResultBytes(m)
      [] k = "tile_work" -> LayerTileBytes(v, m)
      [] k = "tile_result" -> TileResultBytes(m)
      [] k = "expert_work" -> DecodeWorkBytes(m)
      [] k = "expert_result" -> ExpertResultBytes(m)
      [] k = "expert_tile" -> ExpertTileBytes(m)
      [] k = "shard_sum" -> ShardSumBytes(m)
      [] k \in NgramKinds -> NgramBytes(k, m)
      [] k = "config"    -> ConfigBytes(m)
      [] k = "output_work" -> OutputWorkBytes(m)
      [] k = "output_result" -> OutputResultBytes(m)
      [] k = "partial"   -> PartialBytes(m)

Shape(k, v, p) ==
    CASE k = "batch_work"     -> BatchWorkShape(v, p)
      [] k = "batch_result"   -> BatchResultShape(p)
      [] k = "block_work"     -> BlockWorkShape(v, p)
      [] k = "block_result"   -> BlockResultShape(p)
      [] k = "prefill_work"   -> PrefillWorkShape(v, p)
      [] k = "prefill_result" -> PrefillResultShape(p)
      [] k \in PageKinds      -> PagesShape(k, p)
      [] k = "barrier"        -> BarrierShape(p)
      [] k = "state_fetch"    -> StateFetchShape(p)
      [] k = "state_result"   -> StateResultShape(p)
      [] k = "slice"          -> SliceShape(p)
      [] k = "history"        -> HistoryShape(p)
      [] k = "control"        -> ControlShape(p)
      [] k \in LayerKinds -> LayerWorkShape(v, p)
      [] k \in LayerResultKinds -> LayerResultShape(p)
      [] k = "tile_work" -> LayerTileShape(v, p)
      [] k = "tile_result" -> TileResultShape(p)
      [] k = "expert_work" -> DecodeWorkShape(p)
      [] k = "expert_result" -> ExpertResultShape(p)
      [] k = "expert_tile" -> ExpertTileShape(p)
      [] k = "shard_sum" -> ShardSumShape(p)
      [] k \in NgramKinds -> NgramShape(k, p)
      [] k = "config"    -> ConfigShape(p)
      [] k = "output_work" -> OutputWorkShape(p)
      [] k = "output_result" -> OutputResultShape(p)
      [] k = "partial"   -> PartialShape(p)

Read(k, v, p) ==
    CASE k = "batch_work"     -> BatchWorkRead(p)
      [] k = "batch_result"   -> BatchResultRead(p)
      [] k = "block_work"     -> BlockWorkRead(v, p)
      [] k = "block_result"   -> BlockResultRead(p)
      [] k = "prefill_work"   -> PrefillWorkRead(v, p)
      [] k = "prefill_result" -> PrefillResultRead(p)
      [] k \in PageKinds      -> PagesRead(k, p)
      [] k = "barrier"        -> BarrierRead(p)
      [] k = "state_fetch"    -> StateFetchRead(p)
      [] k = "state_result"   -> StateResultRead(p)
      [] k = "slice"          -> SliceRead(p)
      [] k = "history"        -> HistoryRead(p)
      [] k = "control"        -> ControlRead(p)
      [] k \in LayerKinds -> LayerWorkRead(v, p)
      [] k \in LayerResultKinds -> LayerResultRead(p)
      [] k = "tile_work" -> LayerTileRead(v, p)
      [] k = "tile_result" -> TileResultRead(p)
      [] k = "expert_work" -> DecodeWorkRead(p)
      [] k = "expert_result" -> ExpertResultRead(p)
      [] k = "expert_tile" -> ExpertTileRead(p)
      [] k = "shard_sum" -> ShardSumRead(p)
      [] k \in NgramKinds -> NgramRead(k, p)
      [] k = "config"    -> ConfigRead(p)
      [] k = "output_work" -> OutputWorkRead(p)
      [] k = "output_result" -> OutputResultRead(p)
      [] k = "partial"   -> PartialRead(p)

\* What a decoder requires of the message it read: the encoder's own conditions, except
\* where the shape of the payload stands in for some of them.
Sound(k, v, m) ==
    CASE k \in {"block_work", "block_result", "prefill_work", "prefill_result"} -> BlockSound(m)
      [] k = "state_result" -> StateResultSound(m)
      [] OTHER -> Valid(k, v, m)

Larger(a, b) == IF a > b THEN a ELSE b

\* Entries of caller's storage the message takes: slots, tokens, pairs, pages or history tokens.
Entries(k, m) ==
    CASE k = "batch_work"       -> Len(m.slots)
      [] k \in PageKinds        -> Len(m.pages)
      [] k = "history"          -> Len(m.tokens)
      [] k \in {"prefill_work", "prefill_result", "tile_work", "tile_result"} -> m.n
      [] k \in {"expert_tile", "shard_sum"} -> Larger(m.n, Len(m.pairs))
      [] k \in {"block_work", "block_result"}     -> 1
      [] OTHER -> 0

\* Kinds of one size: their encoders write to an array of that size and take no capacity.
FixedKinds == {"block_result", "barrier", "state_fetch", "slice", "control", "expert_work", "layer_result",
               "ring_result", "output_work", "output_result", "config", "partial"}

Encode(k, v, capacity, m) ==
    IF Valid(k, v, m) /\ (k \in FixedKinds \/ Len(Bytes(k, v, m)) <= capacity)
    THEN <<Bytes(k, v, m)>> ELSE <<>>

Decode(k, v, r, p) ==
    IF Shape(k, v, p) /\ Entries(k, Read(k, v, p)) <= r /\ Sound(k, v, Read(k, v, p))
    THEN <<Read(k, v, p)>> ELSE <<>>

-----------------------------------------------------------------------------
(* Frames *)

\* fg_message_type
MessageType(k, m) ==
    CASE k = "batch_work" -> 51     [] k = "batch_result" -> 52
      [] k = "block_work" -> 25     [] k = "block_result" -> 26
      [] k = "prefill_work" -> 27   [] k = "prefill_result" -> 28
      [] k = "page_append" -> 29    [] k = "barrier" -> 30
      [] k = "page_fetch" -> 32     [] k = "page_result" -> 33
      [] k = "state_fetch" -> 42    [] k = "state_result" -> 43
      [] k = "slice" -> 50          [] k = "history" -> 40
      [] k = "control" -> IF m.op <= 2 THEN 7 + m.op ELSE 16 + m.op
      [] k = "expert_work" -> 3     [] k = "expert_tile" -> 4
      [] k = "expert_result" -> 5   [] k = "shard_sum" -> 14
      [] k = "layer_work" -> 10     [] k = "layer_result" -> 11
      [] k = "ring_work" -> 44      [] k = "ring_result" -> 45
      [] k = "tile_work" -> 15      [] k = "tile_result" -> 16
      [] k = "ngram_work" -> 17     [] k = "ngram_result" -> 18
      [] k = "output_work" -> 12    [] k = "output_result" -> 13
      [] k = "config" -> 46         [] k = "partial" -> 49

TypeSupported(v, t) ==
    \/ t \in 1..18 \/ t \in 25..28
    \/ v >= Version /\ t \in (29..33) \cup (40..41) \cup (42..47) \cup (48..50) \cup (51..52) \cup (19..24)

VersionSupported(v) == v \in MinVersion..Version

FrameAccepted(h, v, p) ==
    /\ VersionSupported(v) /\ h.version = v
    /\ VersionSupported(h.version) /\ TypeSupported(h.version, h.type)
    /\ Len(p) <= MaxFrame /\ h.crc = p

-----------------------------------------------------------------------------
(* The message's way *)

Init == /\ kind \in Kinds /\ msg \in Messages(kind)
        /\ ver \in Versions /\ peer \in Versions
        /\ payload = <<>> /\ frame = <<>> /\ foreign = FALSE /\ damaged = FALSE
        /\ got = <<>> /\ room = 0 /\ step = "message"

EncodeMessage ==
    /\ step = "message"
    /\ \E c \in Capacities :
          LET e == Encode(kind, ver, c, msg)
          IN  IF e = <<>> THEN step' = "refused" /\ UNCHANGED payload
              ELSE step' = "encoded" /\ payload' = e[1]
    /\ UNCHANGED <<kind, msg, ver, peer, frame, foreign, damaged, got, room>>

\* External: what another build may have written instead of this payload.
OtherBuild ==
    /\ step = "encoded" /\ ~foreign
    /\ \/ payload' = Front(payload)
       \/ payload' = Append(payload, 0)
       \/ \E i \in DOMAIN payload : \E b \in ByteValues \ {payload[i]} :
             payload' = [payload EXCEPT ![i] = b]
    /\ foreign' = TRUE
    /\ UNCHANGED <<kind, msg, ver, peer, frame, damaged, got, room, step>>

SendFrame ==
    /\ step = "encoded"
    /\ LET t == MessageType(kind, msg)
       IN  IF VersionSupported(ver) /\ TypeSupported(ver, t) /\ Len(payload) <= MaxFrame
           THEN step' = "link" /\ frame' = <<[version |-> ver, type |-> t, crc |-> payload]>>
           ELSE step' = "refused" /\ UNCHANGED frame
    /\ UNCHANGED <<kind, msg, ver, peer, payload, foreign, damaged, got, room>>

\* External: the link changes a byte.
Damage ==
    /\ step = "link" /\ ~foreign /\ ~damaged
    /\ \E i \in {1, Len(payload)} : \E b \in ByteValues \ {payload[i]} :
          payload' = [payload EXCEPT ![i] = b]
    /\ damaged' = TRUE
    /\ UNCHANGED <<kind, msg, ver, peer, frame, foreign, got, room, step>>

ReceiveFrame ==
    /\ step = "link"
    /\ step' = IF FrameAccepted(frame[1], peer, payload) THEN "received" ELSE "dropped"
    /\ UNCHANGED <<kind, msg, ver, peer, payload, frame, foreign, damaged, got, room>>

DecodePayload ==
    /\ step = "received"
    /\ \E r \in Rooms : room' = r /\ got' = Decode(kind, peer, r, payload)
    /\ step' = "done"
    /\ UNCHANGED <<kind, msg, ver, peer, payload, frame, foreign, damaged>>

Over == step \in {"refused", "dropped", "done"} /\ UNCHANGED vars

Next == EncodeMessage \/ OtherBuild \/ SendFrame \/ Damage \/ ReceiveFrame \/ DecodePayload \/ Over

Spec == Init /\ [][Next]_vars

-----------------------------------------------------------------------------

\* A payload is bytes: no put_ helper stores a value a byte cannot hold.
TypeOK == /\ kind \in Kinds /\ {ver, peer} \subseteq Versions
          /\ payload \in Seq(0..255) /\ Len(frame) <= 1 /\ Len(got) <= 1
          /\ foreign \in BOOLEAN /\ damaged \in BOOLEAN /\ room \in Rooms \cup {0}
          /\ step \in {"message", "encoded", "link", "received", "refused", "dropped", "done"}

\* Round trip: what an encoder accepted, the decoder of the other rank accepts and reads
\* as the same message whenever its storage holds it, under protocol 5 as under 6.
RoundTrip == step = "done" /\ ~foreign /\ Entries(kind, msg) <= room => got = <<msg>>

\* A decoder accepts nothing an encoder could not have written: the message it read passes
\* the encoder's conditions and encodes to the very payload received.  The last four bytes
\* of a GDN state result header are the one exception (fg_gdn_state_result_decode).
OnlyCanonical ==
    step = "done" /\ got # <<>> =>
        LET e == Encode(kind, peer, Len(payload), got[1])
        IN  /\ Len(e) = 1 /\ Len(e[1]) = Len(payload)
            /\ \A i \in DOMAIN payload :
                  payload[i] = e[1][i] \/ (kind = "state_result" /\ i \in 13..16)

\* No decoder runs on a payload the link changed, nor between two ranks that negotiated
\* different versions, nor on a message that protocol 5 does not have.
OnlyOwnProtocol ==
    step \in {"received", "done"} =>
        /\ ~damaged /\ ver = peer
        /\ peer = MinVersion =>
              \/ kind \in {"block_work", "block_result", "prefill_work", "prefill_result", "layer_work",
                          "layer_result", "tile_work", "tile_result", "expert_work", "expert_result",
                          "expert_tile", "shard_sum", "output_work", "output_result"} \cup NgramKinds
              \/ kind = "control" /\ msg.op \in {1, 2}

\* A message arrives as it was sent, a decoder accepts only what its encoder
\* could have written, and only under its own protocol.
CodecsExact ==
    /\ TypeOK
    /\ RoundTrip
    /\ OnlyCanonical
    /\ OnlyOwnProtocol
=============================================================================
