---------------------------- MODULE TrackerWire ----------------------------
(***************************************************************************)
(* bip_utracker: the datagrams of the UDP tracker protocol (request.rs,    *)
(* response.rs, announce.rs, option.rs, scrape.rs, contact.rs, error.rs),  *)
(* as they are written to a buffer of limited size and parsed.             *)
(*                                                                         *)
(* A datagram is a sequence of bytes.  A record of fixed fields is         *)
(* described by its layout, the names of the fields and their widths.  The *)
(* ids, hashes and keys are left as the bytes they are; numbers and        *)
(* addresses are converted.  A parser returns a set, empty when the code   *)
(* returns Incomplete or Error, and an Option is a set too.                *)
(***************************************************************************)
EXTENDS Integers, Sequences, FiniteSets, SequencesExt, Functions, TLC

Nothing == {}
Some(S) == CHOOSE x \in S : TRUE
Zeros(n) == [i \in 1..n |-> 0]
From(bytes, n) == SubSeq(bytes, n, Len(bytes))

RECURSIVE BigEndian(_, _)
BigEndian(width, n) ==
    IF width = 0 THEN <<>> ELSE Append(BigEndian(width - 1, n \div 256), n % 256)

Unsigned(bytes) == FoldLeft(LAMBDA n, b : n * 256 + b, 0, bytes)
Signed(bytes) ==
    FoldLeft(LAMBDA n, b : n * 256 + b, IF Head(bytes) >= 128 THEN -1 ELSE 0, bytes)

\* A list of items of the same size, and the list that such bytes hold.
Pieces(bytes, size) == [i \in 1 .. Len(bytes) \div size |-> SubSeq(bytes, size * (i - 1) + 1, size * i)]
ParseList(bytes, size) == IF Len(bytes) % size = 0 THEN {Pieces(bytes, size)} ELSE Nothing

\* The fields of a layout one after the other, and what do_parse! takes from
\* the front of the bytes: the fields, and the bytes after them.
Put(layout, raw) == FlattenSeq([i \in DOMAIN layout |-> raw[layout[i][1]]])
Take(layout, bytes) ==
    LET end == [i \in 0 .. Len(layout) |->
                   FoldLeft(LAMBDA n, field : n + field[2], 0, SubSeq(layout, 1, i))]
        at(name) == CHOOSE i \in DOMAIN layout : layout[i][1] = name
    IN  IF Len(bytes) < end[Len(layout)] THEN Nothing
        ELSE {[raw  |-> [name \in {layout[i][1] : i \in DOMAIN layout} |->
                            SubSeq(bytes, end[at(name) - 1] + 1, end[at(name)])],
               rest |-> From(bytes, end[Len(layout)] + 1)]}

-----------------------------------------------------------------------------
(* Addresses (bip_util, convert.rs) and lists of them (contact.rs).  An    *)
(* IPv4 address is its four octets, an IPv6 address its eight segments.    *)

ipv6_to_bytes_be(segments) ==
    [i \in 1..16 |-> (segments[(i + 1) \div 2] \div (IF i % 2 = 1 THEN 256 ELSE 1)) % 256]
bytes_be_to_ipv6(bytes) == [i \in 1..8 |-> bytes[2 * i - 1] * 256 + bytes[2 * i]]

IpLength(v) == IF v = 4 THEN 4 ELSE 16
IpToBytes(v, ip) == IF v = 4 THEN ip ELSE ipv6_to_bytes_be(ip)
BytesToIp(v, bytes) == IF v = 4 THEN bytes ELSE bytes_be_to_ipv6(bytes)

SockLayout(v) == << <<"ip", IpLength(v)>>, <<"port", 2>> >>
sock_to_bytes_be(v, sock) ==
    Put(SockLayout(v), [ip |-> IpToBytes(v, sock.ip), port |-> BigEndian(2, sock.port)])
bytes_be_to_sock(v, bytes) ==
    LET raw == Some(Take(SockLayout(v), bytes)).raw
    IN  [ip |-> BytesToIp(v, raw.ip), port |-> Unsigned(raw.port)]

\* CompactPeers: peers.v is 4 or 6, and peers.list what iter() goes through.
WritePeers(peers) ==
    FlattenSeq([i \in DOMAIN peers.list |-> sock_to_bytes_be(peers.v, peers.list[i])])
ParsePeers(v, bytes) ==
    {[v |-> v, list |-> [i \in DOMAIN l |-> bytes_be_to_sock(v, l[i])]] :
         l \in ParseList(bytes, IpLength(v) + 2)}

-----------------------------------------------------------------------------
(* Announce options: a function from option bytes to contents. *)

END_OF_OPTIONS_BYTE == 0
NO_OPERATION_BYTE == 1
URL_DATA_BYTE == 2
NoOptions == <<>>

Chunks(content) ==
    [i \in 1 .. (Len(content) + 254) \div 255 |->
        SubSeq(content, 255 * (i - 1) + 1, Min({255 * i, Len(content)}))]

\* What write_bytes writes before the byte that ends the options.  The order
\* is that of the HashMap, any of those of the option bytes.
WriteOptions(options, order) ==
    FlattenSeq([i \in DOMAIN order |->
        FlattenSeq([c \in DOMAIN Chunks(options[order[i]]) |->
            LET chunk == Chunks(options[order[i]])[c] IN <<order[i], Len(chunk)>> \o chunk])])

\* An option that occurs again is continued; the slip replaces it.
AddOption_Slip(options, byte, content) == (byte :> content) @@ options
AddOption(options, byte, content) ==
    IF byte \in DOMAIN options THEN [options EXCEPT ![byte] = @ \o content]
    ELSE (byte :> content) @@ options

RECURSIVE parse_options(_, _)
parse_options(bytes, options) ==
    IF bytes = <<>> \/ Head(bytes) = END_OF_OPTIONS_BYTE THEN {options}
    ELSE IF Head(bytes) = NO_OPERATION_BYTE THEN parse_options(Tail(bytes), options)
    ELSE IF Len(bytes) < 2 \/ Len(bytes) < 2 + bytes[2] THEN Nothing
    ELSE parse_options(From(bytes, 3 + bytes[2]),
                       AddOption(options, bytes[1], SubSeq(bytes, 3, 2 + bytes[2])))

-----------------------------------------------------------------------------
(* The announce request and response. *)

\* The numbers of ClientState, and AnnounceEvent with its ids.
StateLayout == << <<"downloaded", 8>>, <<"left", 8>>, <<"uploaded", 8>>, <<"event", 4>> >>
EventIds == [None |-> 0, Completed |-> 1, Started |-> 2, Stopped |-> 3]
parse_event(id) == {event \in DOMAIN EventIds : EventIds[event] = id}

\* SourceIP: v is 4 or 6, and addr is empty when the address is implied.
IMPLIED_ID(v) == Zeros(IpLength(v))
WriteSourceIP(ip) ==
    IF ip.addr = Nothing THEN IMPLIED_ID(ip.v) ELSE IpToBytes(ip.v, Some(ip.addr))
parse_preference(v, bytes) ==
    [v |-> v, addr |-> IF bytes = IMPLIED_ID(v) THEN Nothing ELSE {BytesToIp(v, bytes)}]

\* DesiredPeers: empty for Default.
DEFAULT_NUM_WANT == -1
WriteDesired(num_want) == BigEndian(4, IF num_want = Nothing THEN DEFAULT_NUM_WANT ELSE Some(num_want))
parse_desired(n) == IF n = DEFAULT_NUM_WANT THEN Nothing ELSE {n}

INFO_HASH_LEN == 20
PEER_ID_LEN == 20
AnnounceLayout(v) ==
    << <<"info_hash", INFO_HASH_LEN>>, <<"peer_id", PEER_ID_LEN>> >> \o StateLayout
    \o << <<"ip", IpLength(v)>>, <<"key", 4>>, <<"num_want", 4>>, <<"port", 2>> >>

\* AnnounceRequest::write_bytes, up to the options.
WriteAnnounce(req) ==
    Put(AnnounceLayout(req.ip.v),
        [info_hash  |-> req.info_hash,
         peer_id    |-> req.peer_id,
         downloaded |-> BigEndian(8, req.downloaded),
         left       |-> BigEndian(8, req.left),
         uploaded   |-> BigEndian(8, req.uploaded),
         event      |-> BigEndian(4, EventIds[req.event]),
         ip         |-> WriteSourceIP(req.ip),
         key        |-> req.key,
         num_want   |-> WriteDesired(req.num_want),
         port       |-> BigEndian(2, req.port)])

ParseAnnounce(v, bytes) ==
    UNION {{[type       |-> "Announce",
             info_hash  |-> t.raw.info_hash,
             peer_id    |-> t.raw.peer_id,
             downloaded |-> Signed(t.raw.downloaded),
             left       |-> Signed(t.raw.left),
             uploaded   |-> Signed(t.raw.uploaded),
             event      |-> event,
             ip         |-> parse_preference(v, t.raw.ip),
             key        |-> t.raw.key,
             num_want   |-> parse_desired(Signed(t.raw.num_want)),
             port       |-> Unsigned(t.raw.port),
             options    |-> options] :
                event \in parse_event(Signed(t.raw.event)),
                options \in parse_options(t.rest, NoOptions)} :
                    t \in Take(AnnounceLayout(v), bytes)}

ResponseLayout == << <<"interval", 4>>, <<"leechers", 4>>, <<"seeders", 4>> >>
WriteAnnounceResponse(res) ==
    Put(ResponseLayout, [f \in {"interval", "leechers", "seeders"} |-> BigEndian(4, res[f])])
    \o WritePeers(res.peers)
ParseAnnounceResponse(v, bytes) ==
    UNION {{[type |-> "Announce", interval |-> Signed(t.raw.interval),
             leechers |-> Signed(t.raw.leechers), seeders |-> Signed(t.raw.seeders),
             peers |-> peers] : peers \in ParsePeers(v, t.rest)} :
                t \in Take(ResponseLayout, bytes)}

-----------------------------------------------------------------------------
(* The scrape request, a list of hashes, and its response, one ScrapeStats *)
(* for each.                                                               *)

StatsLayout == << <<"seeders", 4>>, <<"downloaded", 4>>, <<"leechers", 4>> >>
SCRAPE_STATS_BYTES == 12
ParseScrape(bytes) == {[type |-> "Scrape", hashes |-> l] : l \in ParseList(bytes, INFO_HASH_LEN)}

WriteStats(stats) == Put(StatsLayout, [f \in DOMAIN stats |-> BigEndian(4, stats[f])])
parse_stats(bytes) ==
    LET raw == Some(Take(StatsLayout, bytes)).raw IN [f \in DOMAIN raw |-> Signed(raw[f])]
WriteScrapeResponse(res) == FlattenSeq([i \in DOMAIN res.stats |-> WriteStats(res.stats[i])])
ParseScrapeResponse(bytes) ==
    {[type |-> "Scrape", stats |-> [i \in DOMAIN l |-> parse_stats(l[i])]] :
         l \in ParseList(bytes, SCRAPE_STATS_BYTES)}

-----------------------------------------------------------------------------
(* TrackerRequest and TrackerResponse.  A connection id and a transaction  *)
(* id are their bytes.                                                     *)

\* 0x41727101980
CONNECT_ID_PROTOCOL_ID == <<0, 0, 4, 23, 39, 16, 25, 128>>
CONNECT_ACTION_ID == 0
ANNOUNCE_IPV4_ACTION_ID == 1
SCRAPE_ACTION_ID == 2
ERROR_ACTION_ID == 3
ANNOUNCE_IPV6_ACTION_ID == 4
AnnounceActionId(v) == IF v = 4 THEN ANNOUNCE_IPV4_ACTION_ID ELSE ANNOUNCE_IPV6_ACTION_ID
AnnounceVersion(action) == IF action = ANNOUNCE_IPV4_ACTION_ID THEN 4 ELSE 6

\* A Cursor over a buffer: what does not fit is an error.
Fitting(bytes, capacity) == IF Len(bytes) > capacity THEN Nothing ELSE {bytes}

RequestHeader == << <<"cid", 8>>, <<"action", 4>>, <<"tid", 4>> >>
WriteHeader(cid, action, tid) ==
    Put(RequestHeader, [cid |-> cid, action |-> BigEndian(4, action), tid |-> tid])

Orders(options) == {o \in [1 .. Cardinality(DOMAIN options) -> DOMAIN options] : IsInjective(o)}

\* The datagrams that TrackerRequest::write_bytes may write.  The byte that
\* ends the options is written when there is room for it.
WriteRequest(request, capacity) ==
    LET req == request.req IN
    CASE req.type = "Connect" ->
             Fitting(WriteHeader(request.cid, CONNECT_ACTION_ID, request.tid), capacity)
      [] req.type = "Announce" ->
             UNION {{b \o (IF Len(b) < capacity THEN <<END_OF_OPTIONS_BYTE>> ELSE <<>>) :
                        b \in Fitting(WriteHeader(request.cid, AnnounceActionId(req.ip.v), request.tid)
                                      \o WriteAnnounce(req) \o WriteOptions(req.options, order),
                                      capacity)} : order \in Orders(req.options)}
      [] req.type = "Scrape" ->
             Fitting(WriteHeader(request.cid, SCRAPE_ACTION_ID, request.tid) \o FlattenSeq(req.hashes),
                     capacity)

parse_request(bytes) ==
    UNION {LET action == Unsigned(t.raw.action) IN
           {[cid |-> t.raw.cid, tid |-> t.raw.tid, req |-> req] : req \in
               CASE action = CONNECT_ACTION_ID ->
                        IF t.raw.cid = CONNECT_ID_PROTOCOL_ID THEN {[type |-> "Connect"]} ELSE Nothing
                 [] action \in {ANNOUNCE_IPV4_ACTION_ID, ANNOUNCE_IPV6_ACTION_ID} ->
                        ParseAnnounce(AnnounceVersion(action), t.rest)
                 [] action = SCRAPE_ACTION_ID -> ParseScrape(t.rest)
                 [] OTHER -> Nothing} : t \in Take(RequestHeader, bytes)}

ResponseHeader == << <<"action", 4>>, <<"tid", 4>> >>
WriteResponse(response, capacity) ==
    LET res == response.res
        body == CASE res.type = "Connect"  -> <<CONNECT_ACTION_ID, res.cid>>
                  [] res.type = "Announce" -> <<AnnounceActionId(res.peers.v), WriteAnnounceResponse(res)>>
                  [] res.type = "Scrape"   -> <<SCRAPE_ACTION_ID, WriteScrapeResponse(res)>>
                  [] res.type = "Error"    -> <<ERROR_ACTION_ID, res.message>>
    IN  Fitting(Put(ResponseHeader, [action |-> BigEndian(4, body[1]), tid |-> response.tid]) \o body[2],
                capacity)

parse_response(bytes) ==
    UNION {LET action == Unsigned(t.raw.action) IN
           {[tid |-> t.raw.tid, res |-> res] : res \in
               CASE action = CONNECT_ACTION_ID ->
                        {[type |-> "Connect", cid |-> c.raw.cid] : c \in Take(<< <<"cid", 8>> >>, t.rest)}
                 [] action \in {ANNOUNCE_IPV4_ACTION_ID, ANNOUNCE_IPV6_ACTION_ID} ->
                        ParseAnnounceResponse(AnnounceVersion(action), t.rest)
                 [] action = SCRAPE_ACTION_ID -> ParseScrapeResponse(t.rest)
                 [] action = ERROR_ACTION_ID  -> {[type |-> "Error", message |-> t.rest]}
                 [] OTHER -> Nothing} : t \in Take(ResponseHeader, bytes)}

=============================================================================
