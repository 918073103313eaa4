-------------------------------- MODULE Codec --------------------------------
(***************************************************************************)
(* The SCALE codec that #[derive(Encode, Decode)] gives XCMPMessage and    *)
(* OrderBase (src/pallets/common/src/lib.rs), as instantiated by both      *)
(* pallets' XCMPMessageOf: AccountId32, Balance and Moment as fixed-width  *)
(* little-endian fields, bool as one byte, OrderPayload = Vec<u8> as a     *)
(* compact length followed by its bytes, the enum variant as one byte.     *)
(* A message is a record [tag, fields], fields in declaration order.       *)
(* handle_blob_message calls `decode`, which leaves trailing bytes unread. *)
(*                                                                         *)
(* Field widths are constants (32, 16 and 8 bytes in the runtimes; smaller *)
(* for checking).  Blobs are bounded by MaxBlob < 64, so a compact length  *)
(* in a multi-byte mode, which is at least 64, never fits in the blob.     *)
(***************************************************************************)
EXTENDS Naturals, Sequences, SequencesExt

CONSTANTS
    Bytes,          \* byte values blobs are made of
    AccountBytes,   \* width of AccountId
    BalanceBytes,   \* width of Balance
    MomentBytes,    \* width of Moment
    MaxBlob         \* bound on the length of a blob

ASSUME /\ Bytes \subseteq 0..255 /\ {0, 1} \subseteq Bytes
       /\ MaxBlob < 64

VARIABLE blob       \* the bytes of the next blob handle_blob_message receives

Fail == [ok |-> FALSE]
Ok(v, rest) == [ok |-> TRUE, val |-> v, rest |-> rest]

\* The fields of each variant of XCMPMessage, indexed by variant + 1.
Schema ==
    << <<"account", "moment", "payload", "balance", "account">>,  \* NewOrder(client, OrderBase{until, data, fee, device})
       <<"account", "account">>,                                  \* OrderAccept(client, device)
       <<"account", "account", "bool">>,                          \* OrderReject(client, device, onoff)
       <<"account", "account", "bool">> >>                        \* OrderDone(client, device, onoff)

Width(k) == CASE k = "account" -> AccountBytes
              [] k = "balance" -> BalanceBytes
              [] k = "moment"  -> MomentBytes

RECURSIVE LE(_)
LE(s) == IF s = <<>> THEN 0 ELSE Head(s) + 256 * LE(Tail(s))

-----------------------------------------------------------------------------
(* Encoding. *)
EncodeField(k, v) ==
    CASE k = "account"              -> v
      [] k \in {"balance", "moment"} -> [i \in 1..Width(k) |-> (v \div 256^(i-1)) % 256]
      [] k = "bool"                 -> <<IF v THEN 1 ELSE 0>>
      [] k = "payload"              -> <<4 * Len(v)>> \o v

Encode(m) ==
    <<m.tag>> \o FlattenSeq([i \in DOMAIN m.fields |-> EncodeField(Schema[m.tag + 1][i], m.fields[i])])

-----------------------------------------------------------------------------
(* Decoding, one operator per field type. *)
DecodeFixed(k, b) ==
    IF Len(b) < Width(k) THEN Fail
    ELSE LET raw == SubSeq(b, 1, Width(k)) IN
         Ok(IF k = "account" THEN raw ELSE LE(raw), SubSeq(b, Width(k) + 1, Len(b)))

\* bool decoding accepting any nonzero byte as true.
DecodeBoolLenient(b) ==
    IF b = <<>> THEN Fail ELSE Ok(b[1] # 0, Tail(b))

\* bool: 0 is false, 1 is true, any other byte is an error.
DecodeBool(b) ==
    IF b = <<>> \/ b[1] \notin {0, 1} THEN Fail ELSE Ok(b[1] = 1, Tail(b))

\* Vec<u8>: a compact length, then that many bytes.  Only the single-byte
\* mode (low bits 00) can announce a length that fits in the blob.
DecodePayload(b) ==
    IF b = <<>> \/ b[1] % 4 # 0 \/ Len(b) < 1 + b[1] \div 4 THEN Fail
    ELSE Ok(SubSeq(b, 2, 1 + b[1] \div 4), SubSeq(b, 2 + b[1] \div 4, Len(b)))

DecodeField(k, b) ==
    CASE k = "bool"    -> DecodeBool(b)
      [] k = "payload" -> DecodePayload(b)
      [] OTHER         -> DecodeFixed(k, b)

RECURSIVE DecodeFields(_, _)
DecodeFields(ks, b) ==
    IF ks = <<>> THEN Ok(<<>>, b)
    ELSE LET f == DecodeField(Head(ks), b)
             r == IF f.ok THEN DecodeFields(Tail(ks), f.rest) ELSE Fail
         IN  IF r.ok THEN Ok(<<f.val>> \o r.val, r.rest) ELSE Fail

\* XCMPMessage::decode: the variant byte, then its fields.
Decode(b) ==
    IF b = <<>> \/ b[1] > 3 THEN Fail
    ELSE LET r == DecodeFields(Schema[b[1] + 1], Tail(b)) IN
         IF r.ok THEN Ok([tag |-> b[1], fields |-> r.val], r.rest) ELSE Fail

-----------------------------------------------------------------------------
(* The reference: a blob decodes to m exactly when it starts with m's     *)
(* encoding, over every message whose encoding fits in MaxBlob.           *)
NewOrderFixed == 1 + 2 * AccountBytes + MomentBytes + 1 + BalanceBytes

Values(k) ==
    CASE k = "account"              -> [1..AccountBytes -> Bytes]
      [] k \in {"balance", "moment"} -> {LE(s) : s \in [1..Width(k) -> Bytes]}
      [] k = "bool"                 -> BOOLEAN
      [] k = "payload"              -> SeqOf(Bytes, MaxBlob - NewOrderFixed)

RECURSIVE Tuples(_)
Tuples(ks) ==
    IF ks = <<>> THEN {<<>>}
    ELSE {<<v>> \o r : v \in Values(Head(ks)), r \in Tuples(Tail(ks))}

Msgs == UNION {{[tag |-> t, fields |-> f] : f \in Tuples(Schema[t + 1])} : t \in 0..3}

Encoded == {<<m, Encode(m)>> : m \in Msgs}

DecodeRef(b) ==
    IF \E e \in Encoded : IsPrefix(e[2], b)
    THEN LET e == CHOOSE e \in Encoded : IsPrefix(e[2], b) IN
         Ok(e[1], SubSeq(b, Len(e[2]) + 1, Len(b)))
    ELSE Fail

-----------------------------------------------------------------------------
(* The channel builds up a blob byte by byte and hands it to the handler. *)
Init == blob = <<>>

Extend == Len(blob) < MaxBlob /\ \E x \in Bytes : blob' = Append(blob, x)

Deliver == blob # <<>> /\ blob' = <<>>

Next == Extend \/ Deliver

Spec == Init /\ [][Next]_blob

\* The derived decoder, as handle_blob_message runs it on both chains,
\* takes a blob to message m and leftover bytes exactly when the blob starts
\* with m's encoding, and fails otherwise: no blob decodes to a message other
\* than the one its sender encoded, and a blob such as test's <<0, 0x20>>,
\* a prefix of no whole encoding, is dropped.
DecodeMatchesReference == Decode(blob) = DecodeRef(blob)

=============================================================================
