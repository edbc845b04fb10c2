------------------------------ MODULE PeerWire ------------------------------
(***************************************************************************)
(* bip_peer: the messages of the peer wire protocol (message/), the        *)
(* protocols that write and parse them (protocol/) and the codec that      *)
(* finds them in a stream of bytes (codec.rs), at the two ends of a TCP    *)
(* connection that delivers the bytes in pieces of any size.               *)
(*                                                                         *)
(* A stream is a sequence of bytes, with every length prefix, id and       *)
(* integer spelled out.  A bencoded dictionary stands in it as one unit,   *)
(* the record of its entries: bip_bencode gives back what it encoded, and  *)
(* the length of it.  An Option is a set with at most one member.          *)
(***************************************************************************)
EXTENDS Integers, Sequences, SequencesExt, FiniteSets

CONSTANTS
    Peers,          \* the two ends
    Outgoing,        \* the messages that the client of each end sends
    MaxSends,       \* bound: how many of them
    Cuts,           \* bound: sizes of the pieces that the bytes may arrive in
    max_payload     \* of each end's codec: an Option

VARIABLES
    wire,           \* the bytes under way to each end
    src,            \* the codec's read buffer
    ours,           \* our_extended_msg of each end's PeerExtensionProtocol
    theirs,         \* their_extended_msg
    sent,           \* history: the messages each end has written
    received,       \* history: the messages each end has parsed
    broken          \* the ends whose stream or sink returned an error

vars == <<wire, src, ours, theirs, sent, received, broken>>

Some(S) == CHOOSE x \in S : TRUE

-----------------------------------------------------------------------------
(* Integers and headers. *)

BigEndian(v, width) == [i \in 1..width |-> (v \div 256^(width - i)) % 256]

be_u32(bytes) == FoldLeft(LAMBDA acc, b : acc * 256 + b, 0, SubSeq(bytes, 1, 4))
be_u16(bytes) == bytes[1] * 256 + bytes[2]

MESSAGE_LENGTH_LEN_BYTES == 4
HEADER_LEN == MESSAGE_LENGTH_LEN_BYTES + 1

write_length_id_pair(length, opt_id) == BigEndian(length, 4) \o opt_id

\* The messages that consist of their id.
PlainIds == [Choke |-> 0, UnChoke |-> 1, Interested |-> 2, UnInterested |-> 3]
HAVE_ID == 4
BITFIELD_ID == 5
REQUEST_ID == 6
PIECE_ID == 7
CANCEL_ID == 8
PORT_ID == 9
EXTENDED_ID == 20
HANDSHAKE_ID == 0

-----------------------------------------------------------------------------
(* The extended message (bits_ext/handshake.rs, bencode.rs). *)

\* The dictionary key of each optional field.
KeyOf == [our_id |-> "v", our_tcp_port |-> "p", their_ip |-> "yourip",
          our_ipv6_addr |-> "ipv6", our_ipv4_addr |-> "ipv4",
          our_max_requests |-> "reqq", metadata_size |-> "metadata_size"]

\* An extended message: the id map, the optional fields that are set, and the
\* dictionary, which also has the client's custom entries.
bencode_from_builder(builder) ==
    [key \in {"m"} \union DOMAIN builder.custom_entries
                   \union {KeyOf[f] : f \in DOMAIN builder.fields} |->
        IF \E f \in DOMAIN builder.fields : KeyOf[f] = key
        THEN builder.fields[CHOOSE f \in DOMAIN builder.fields : KeyOf[f] = key]
        ELSE IF key \in DOMAIN builder.custom_entries THEN builder.custom_entries[key]
        ELSE builder.id_map]

from_builder(builder) ==
    [type |-> "Extended", id_map |-> builder.id_map, fields |-> builder.fields,
     raw_bencode |-> bencode_from_builder(builder)]

\* Ids are cut to a byte.
parse_id_map(dict) == [t \in DOMAIN dict["m"] |-> dict["m"][t] % 256]

\* A port that is no u16 and an address of an odd length are left out.
WellFormed(field, value) ==
    CASE field = "our_tcp_port" -> value < 65536
      [] field = "their_ip" -> Len(value) \in {4, 16}
      [] field = "our_ipv6_addr" -> Len(value) = 16
      [] field = "our_ipv4_addr" -> Len(value) = 4
      [] OTHER -> TRUE

ParseExtended(dict) ==
    [type |-> "Extended", id_map |-> parse_id_map(dict),
     fields |-> [f \in {g \in DOMAIN KeyOf : KeyOf[g] \in DOMAIN dict
                                             /\ WellFormed(g, dict[KeyOf[g]])} |-> dict[KeyOf[f]]],
     raw_bencode |-> dict]

query_id(extended, ext_type) ==
    IF ext_type \in DOMAIN extended.id_map THEN {extended.id_map[ext_type]} ELSE {}

-----------------------------------------------------------------------------
(* The ut_metadata messages (prot_ext/). *)

MessageTypes == [UtRequest |-> 0, UtData |-> 1, UtReject |-> 2]

\* The dictionary, and for a data message the block after it.
UtBytes(msg) ==
    IF msg.type = "UtData"
    THEN <<[msg_type |-> 1, piece |-> msg.piece, total_size |-> msg.total_size]>> \o msg.data
    ELSE <<[msg_type |-> MessageTypes[msg.type], piece |-> msg.piece]>>

UtMessageSize(msg) == 1 + (IF msg.type = "UtData" THEN Len(msg.data) ELSE 0)

\* An Option: without a mapping there is no message.
ExtensionBytes(msg, extended) ==
    {write_length_id_pair(2 + UtMessageSize(msg), <<EXTENDED_ID>>) \o <<id>> \o UtBytes(msg) :
        id \in query_id(extended, "ut_metadata")}

UtParse(bytes) ==
    LET dict == Head(bytes)
    IN CASE dict.msg_type = MessageTypes.UtRequest -> {[type |-> "UtRequest", piece |-> dict.piece]}
         [] dict.msg_type = MessageTypes.UtReject -> {[type |-> "UtReject", piece |-> dict.piece]}
         [] dict.msg_type = MessageTypes.UtData ->
                {[type |-> "UtData", piece |-> dict.piece, total_size |-> dict.total_size,
                  data |-> Tail(bytes)]}
         [] OTHER -> {}

parse_extensions_with_id(bytes, extended, id) ==
    IF query_id(extended, "ut_metadata") = {id} THEN UtParse(bytes) ELSE {}

\* The custom protocol below the extensions is NullProtocol: no message is its.
NullParse(bytes) == {}

parse_extensions(bytes, extended) ==
    LET message_len == be_u32(bytes)
        start == HEADER_LEN + 2
    IN IF Len(bytes) > HEADER_LEN /\ bytes[HEADER_LEN] = EXTENDED_ID
       THEN parse_extensions_with_id(SubSeq(bytes, start, start + message_len - 3),
                                     extended, bytes[HEADER_LEN + 1])
       ELSE NullParse(bytes)

-----------------------------------------------------------------------------
(* The messages of the wire protocol (message/mod.rs, message/standard.rs). *)

BlockBytes(msg) ==
    BigEndian(msg.piece_index, 4) \o BigEndian(msg.block_offset, 4) \o BigEndian(msg.block_length, 4)

IsExtension(msg) == msg.type \in DOMAIN MessageTypes

\* The bytes of a message, if it can be written: an extension message needs the
\* id that their extended message gives.
write_bytes(msg, their) ==
    CASE msg.type = "KeepAlive" -> {write_length_id_pair(0, <<>>)}
      [] msg.type \in DOMAIN PlainIds -> {write_length_id_pair(1, <<PlainIds[msg.type]>>)}
      [] msg.type = "Have" ->
            {write_length_id_pair(5, <<HAVE_ID>>) \o BigEndian(msg.piece_index, 4)}
      [] msg.type = "BitField" ->
            {write_length_id_pair(1 + Len(msg.bytes), <<BITFIELD_ID>>) \o msg.bytes}
      [] msg.type = "Request" -> {write_length_id_pair(13, <<REQUEST_ID>>) \o BlockBytes(msg)}
      [] msg.type = "Cancel" -> {write_length_id_pair(13, <<CANCEL_ID>>) \o BlockBytes(msg)}
      [] msg.type = "Piece" ->
            {write_length_id_pair(9 + Len(msg.block), <<PIECE_ID>>)
                \o BigEndian(msg.piece_index, 4) \o BigEndian(msg.block_offset, 4) \o msg.block}
      [] msg.type = "Port" -> {write_length_id_pair(3, <<PORT_ID>>) \o BigEndian(msg.port, 2)}
      [] msg.type = "Extended" ->
            {write_length_id_pair(2 + 1, <<EXTENDED_ID>>) \o <<HANDSHAKE_ID, msg.raw_bencode>>}
      [] IsExtension(msg) -> UNION {ExtensionBytes(msg, extended) : extended \in their}

ParseBlock(type, body) ==
    [type |-> type, piece_index |-> be_u32(body), block_offset |-> be_u32(SubSeq(body, 5, 8)),
     block_length |-> be_u32(SubSeq(body, 9, 12))]

\* An off-by-one: the length of the block does not count the id.
ParsePiece_Slip(body, len) ==
    [type |-> "Piece", piece_index |-> be_u32(body), block_offset |-> be_u32(SubSeq(body, 5, 8)),
     block |-> SubSeq(body, 9, len - 1)]

ParsePiece(body, len) ==
    [type |-> "Piece", piece_index |-> be_u32(body), block_offset |-> be_u32(SubSeq(body, 5, 8)),
     block |-> SubSeq(body, 9, len)]

\* The message of a whole frame, if it is one: the built in messages by length
\* and id, then the messages of the extension bits, then the extensions, which
\* go by the ids of our own extended message.
parse_message(bytes, our) ==
    LET message_len == be_u32(bytes)
        id   == IF Len(bytes) > MESSAGE_LENGTH_LEN_BYTES THEN bytes[HEADER_LEN] ELSE -1
        body == SubSeq(bytes, HEADER_LEN + 1, Len(bytes))
    IN CASE message_len = 0 -> {[type |-> "KeepAlive"]}
         [] message_len = 1 /\ \E t \in DOMAIN PlainIds : PlainIds[t] = id ->
                {[type |-> CHOOSE t \in DOMAIN PlainIds : PlainIds[t] = id]}
         [] message_len = 5 /\ id = HAVE_ID -> {[type |-> "Have", piece_index |-> be_u32(body)]}
         [] id = BITFIELD_ID -> {[type |-> "BitField", bytes |-> SubSeq(body, 1, message_len - 1)]}
         [] message_len = 13 /\ id = REQUEST_ID -> {ParseBlock("Request", body)}
         [] id = PIECE_ID -> {ParsePiece(body, message_len - 1)}
         [] message_len = 13 /\ id = CANCEL_ID -> {ParseBlock("Cancel", body)}
         [] message_len = 3 /\ id = PORT_ID -> {[type |-> "Port", port |-> be_u16(body)]}
         [] id = EXTENDED_ID /\ Head(body) = HANDSHAKE_ID -> {ParseExtended(body[2])}
         [] OTHER -> UNION {parse_extensions(bytes, extended) : extended \in our}

bytes_needed(bytes) ==
    IF Len(bytes) < MESSAGE_LENGTH_LEN_BYTES THEN {} ELSE {MESSAGE_LENGTH_LEN_BYTES + be_u32(bytes)}

-----------------------------------------------------------------------------
(* The two ends. *)

Other(p) == CHOOSE q \in Peers : q # p

Init ==
    /\ wire = [p \in Peers |-> <<>>]
    /\ src = [p \in Peers |-> <<>>]
    /\ ours = [p \in Peers |-> {}]
    /\ theirs = [p \in Peers |-> {}]
    /\ sent = [p \in Peers |-> <<>>]
    /\ received = [p \in Peers |-> <<>>]
    /\ broken = {}

\* PeerWireProtocol::write_bytes through the encoder: an extended message that
\* was written counts as sent for the ids from then on.
Encode(p, msg) ==
    LET bytes == write_bytes(msg, theirs[p])
    IN /\ p \notin broken /\ Len(sent[p]) < MaxSends[p]
       /\ IF bytes = {}
          THEN broken' = broken \union {p} /\ UNCHANGED <<wire, ours, sent>>
          ELSE /\ wire' = [wire EXCEPT ![Other(p)] = @ \o Some(bytes)]
               /\ ours' = IF msg.type = "Extended" THEN [ours EXCEPT ![p] = {msg}] ELSE ours
               /\ sent' = [sent EXCEPT ![p] = Append(@, msg)]
               /\ UNCHANGED broken
       /\ UNCHANGED <<src, theirs, received>>

\* Some of the bytes under way arrive, or all of them.
Arrive(p) ==
    \E n \in {k \in Cuts : k < Len(wire[p])} \union {Len(wire[p])} :
        /\ p \notin broken /\ wire[p] # <<>>
        /\ src' = [src EXCEPT ![p] = @ \o SubSeq(wire[p], 1, n)]
        /\ wire' = [wire EXCEPT ![p] = SubSeq(@, n + 1, Len(@))]
        /\ UNCHANGED <<ours, theirs, sent, received, broken>>

TooLarge(p, needed) == \E max \in max_payload[p] : needed > max

\* The buffer has a whole frame, or a prefix that is too large.
Decodable(p) ==
    p \notin broken /\ \E needed \in bytes_needed(src[p]) : TooLarge(p, needed) \/ needed <= Len(src[p])

Decode(p) ==
    \E needed \in bytes_needed(src[p]) :
        LET msg == parse_message(SubSeq(src[p], 1, needed), ours[p])
        IN /\ Decodable(p)
           /\ IF TooLarge(p, needed)
              THEN broken' = broken \union {p} /\ UNCHANGED <<src, theirs, received>>
              ELSE /\ src' = [src EXCEPT ![p] = SubSeq(@, needed + 1, Len(@))]
                   /\ IF msg = {}
                      THEN broken' = broken \union {p} /\ UNCHANGED <<theirs, received>>
                      ELSE /\ received' = [received EXCEPT ![p] = Append(@, Some(msg))]
                           /\ theirs' = IF Some(msg).type = "Extended"
                                        THEN [theirs EXCEPT ![p] = msg] ELSE theirs
                           /\ UNCHANGED broken
           /\ UNCHANGED <<wire, ours, sent>>

Next ==
    \E p \in Peers :
        \/ \E msg \in Outgoing[p] : Encode(p, msg)
        \/ Arrive(p)
        \/ Decode(p)

Spec == Init /\ [][Next]_vars

\* TCP delivers what was written, as long as neither end gives up, and the
\* task of the connection polls the stream when there is something to read.
\* There is only so much to send, so it is enough that something moves as long
\* as anything can.
CanMove == \E p \in Peers : Decodable(p) \/ (wire[p] # <<>> /\ broken = {})
Fairness == []<>~CanMove \/ []<><<TRUE>>_<<src, broken>>
FairSpec == Spec /\ Fairness

-----------------------------------------------------------------------------
(* What the connection promises. *)

Messages == UNION {Outgoing[p] : p \in Peers}
NeedsId  == {m \in Messages : IsExtension(m)}
GivesId  == {m \in Messages : m.type = "Extended" /\ query_id(m, "ut_metadata") # {}}
Size(msg) == IF IsExtension(msg) THEN HEADER_LEN + 1 + Len(UtBytes(msg))
             ELSE Len(Some(write_bytes(msg, {})))
Refused  == [p \in Peers |-> {m \in Messages : \E max \in max_payload[p] : Size(m) > max}]

Channel == INSTANCE PeerChannel WITH
    Messages <- Messages, NeedsId <- NeedsId, GivesId <- GivesId, Refused <- Refused,
    sent <- sent, received <- received, broken <- broken

\* The frames implement a channel of messages: whatever pieces the bytes arrive
\* in, each end gets the other's messages whole and in order, understands every
\* extension id, and breaks off only where PeerChannel says.  An end keeps the
\* ids it has given: under new ones it would not know a message that is on its
\* way with an old one (prot_ext/mod.rs:86), and break off.
IsChannel == Channel!Spec
=============================================================================
