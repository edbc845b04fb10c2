--------------------------- MODULE TrackerServer ---------------------------
(***************************************************************************)
(* bip_utracker: the tracker server (server/mod.rs) and its dispatcher     *)
(* (server/dispatcher.rs) between the clients, whose requests it parses,   *)
(* and the handler, whose results it writes back.  The datagrams are those *)
(* of TrackerWire.  UDP loses, repeats and reorders them: a datagram once  *)
(* sent may arrive at any time, any number of times, or never, and what is *)
(* longer than the buffer of the receiver's event loop arrives cut.        *)
(***************************************************************************)
EXTENDS TrackerWire

CONSTANTS
    Clients,        \* addresses of clients
    Requests,       \* the requests they send: [cid, tid, req]
    Results,        \* what the handler may answer to a request of each type
    ClientBuffer,   \* EXPECTED_PACKET_LENGTH of the client
    ServerBuffer,   \* and of the server
    MaxSends,       \* bound: requests sent
    MaxCalls        \* bound: calls of the handler

VARIABLES
    server,         \* TrackerServer: held, dropped, and "down" when the loop has ended
    sent,           \* history: the requests sent
    wire,           \* the datagrams sent to the server
    calls,          \* history: the calls of the handler, with its result
    back,           \* the datagrams sent to the clients
    heard           \* history: the responses the clients have parsed

vars == <<server, sent, wire, calls, back, heard>>

Init ==
    /\ server = "held"
    /\ sent = {} /\ wire = {} /\ calls = {} /\ back = {} /\ heard = {}

Received(bytes, buffer) == SubSeq(bytes, 1, Min({Len(bytes), buffer}))

\* A client writes a request; one that does not fit is not sent.
Request(client, request) ==
    /\ Cardinality(sent) < MaxSends
    /\ \E bytes \in WriteRequest(request, ClientBuffer) :
           /\ wire' = wire \cup {[from |-> client, bytes |-> bytes]}
           /\ sent' = sent \cup {[from |-> client, request |-> request]}
    /\ UNCHANGED <<server, calls, back, heard>>

\* write_response: a response that does not fit is not sent; the slip sends
\* what was written of it.
write_response_Slip(response, addr) ==
    {[to |-> addr, bytes |-> Received(bytes, ServerBuffer)] :
         bytes \in WriteResponse(response, 100 * ServerBuffer)}
write_response(response, addr) ==
    {[to |-> addr, bytes |-> bytes] : bytes \in WriteResponse(response, ServerBuffer)}

\* forward_connect, forward_announce and forward_scrape: the handler is called,
\* and calls the closure with a result or does not call it.
Forward(request, addr) ==
    \E result \in {Nothing} \cup {{res} : res \in Results[request.req.type]} :
        /\ calls' = calls \cup {[from |-> addr, request |-> request, result |-> result]}
        /\ back' = back \cup UNION {write_response([tid |-> request.tid, res |-> res], addr) : res \in result}

process_request(request, addr) ==
    /\ request.req.type = "Connect" => request.cid = CONNECT_ID_PROTOCOL_ID
    /\ Forward(request, addr)

\* A datagram that is not a request is ignored.
Incoming ==
    /\ server # "down"
    /\ Cardinality(calls) < MaxCalls
    /\ \E d \in wire : \E request \in parse_request(Received(d.bytes, ServerBuffer)) :
           process_request(request, d.from)
    /\ UNCHANGED <<server, sent, wire, heard>>

Hear ==
    /\ \E d \in back : \E response \in parse_response(Received(d.bytes, ClientBuffer)) :
           heard' = heard \cup {[at |-> d.to, response |-> response]}
    /\ UNCHANGED <<server, sent, wire, calls, back>>

\* TrackerServer::drop sends Shutdown to the loop; notify ends it.
Drop ==
    /\ server = "held"
    /\ server' = "dropped"
    /\ UNCHANGED <<sent, wire, calls, back, heard>>
Notify ==
    /\ server = "dropped"
    /\ server' = "down"
    /\ UNCHANGED <<sent, wire, calls, back, heard>>
Closed == server = "down" /\ UNCHANGED vars

Next ==
    \/ \E client \in Clients, request \in Requests : Request(client, request)
    \/ Incoming
    \/ Hear
    \/ Drop
    \/ Notify
    \/ Closed

Spec == Init /\ [][Next]_vars

-----------------------------------------------------------------------------
(* Properties. *)

\* What the format can say: an explicit address of zeros is an implied one,
\* DEFAULT_NUM_WANT is Default, and an option without contents is not there.
Canonical(req) ==
    IF req.type # "Announce" THEN req
    ELSE [req EXCEPT !.ip = parse_preference(@.v, WriteSourceIP(@)),
                     !.num_want = IF @ = {DEFAULT_NUM_WANT} THEN Nothing ELSE @,
                     !.options = Restrict(@, {b \in DOMAIN @ : @[b] # <<>>})]

\* The same announce request, up to what was cut off the end of its options.
Shorter(heardReq, saidReq) ==
    /\ {heardReq.type, saidReq.type} = {"Announce"}
    /\ [heardReq EXCEPT !.options = NoOptions] = [saidReq EXCEPT !.options = NoOptions]
    /\ \A b \in DOMAIN heardReq.options :
           b \in DOMAIN saidReq.options /\ IsPrefix(heardReq.options[b], saidReq.options[b])

WasCut(request) == \E bytes \in WriteRequest(request, ClientBuffer) : Len(bytes) > ServerBuffer

\* The handler is called only with a request that the client at that address
\* sent, with its connection id and transaction id, and with every field as it
\* was; when the datagram was longer than the server's buffer, at most the end
\* of the options is missing, and nothing is misread
\* (dispatcher.rs, incoming; request.rs, parse_request; option.rs).
RequestsUnderstood ==
    \A call \in calls : \E s \in sent :
        /\ s.from = call.from
        /\ <<s.request.cid, s.request.tid>> = <<call.request.cid, call.request.tid>>
        /\ \/ call.request.req = Canonical(s.request.req)
           \/ WasCut(s.request) /\ Shorter(call.request.req, Canonical(s.request.req))

\* A client parses only responses that are, whole, what the handler answered to
\* a request from its address with that transaction id: a response that does
\* not fit the server's buffer is not sent rather than cut
\* (dispatcher.rs, write_response; response.rs, parse_response).
RepliesAreAnswers ==
    \A h \in heard : \E call \in calls :
        /\ call.from = h.at
        /\ call.request.tid = h.response.tid
        /\ h.response.res \in call.result
=============================================================================
