----------------------------- MODULE MCTracker -----------------------------
(***************************************************************************)
(* Small instances for TLC of the modules of bip_utracker: TrackerClient,  *)
(* and TrackerServer with the datagrams of TrackerWire.  They share        *)
(* nothing, so a behaviour runs one of them.                               *)
(***************************************************************************)
EXTENDS TrackerClient, TLC

CONSTANTS
    Clients, ServerRequests, Results, ClientBuffer, ServerBuffer, MaxSends, MaxCalls,
    Parts       \* the parts that run

VARIABLES part, server, sent, wire, calls, back, heard

serverVars == <<server, sent, wire, calls, back, heard>>

Server == INSTANCE TrackerServer WITH Requests <- ServerRequests

Wire == INSTANCE TrackerWire

Id(n, width) == [i \in 1..width |-> n]
V6 == <<8193, 3512, 0, 0, 0, 0, 0, 1>>

Announce(ip, num_want, event, options) ==
    [type |-> "Announce", info_hash |-> Id(1, 20), peer_id |-> Id(2, 20), downloaded |-> 300,
     left |-> -1, uploaded |-> 0, event |-> event, ip |-> ip, key |-> Id(9, 4),
     num_want |-> num_want, port |-> 6881, options |-> options]
To(tid, req) == [cid |-> Id(7, 8), tid |-> Id(tid, 4), req |-> req]

\* An option in two chunks, whose datagram is as long as the server's buffer
\* but for the byte that ends the options; values the format cannot tell from
\* others, and options that hold the bytes that end and fill them; and a
\* datagram as long as the client's buffer, which the server's buffer cuts
\* between two options.
MCServerRequests ==
    {[cid |-> Wire!CONNECT_ID_PROTOCOL_ID, tid |-> Id(1, 4), req |-> [type |-> "Connect"]],
     To(2, Announce([v |-> 4, addr |-> {}], {50}, "Started", 2 :> [i \in 1..256 |-> i % 256])),
     To(2, Announce([v |-> 4, addr |-> {Id(0, 4)}], {-1}, "None",
                    2 :> <<0, 1>> @@ 3 :> <<>> @@ 4 :> <<2>>)),
     To(1, Announce([v |-> 6, addr |-> {V6}], {}, "Stopped", <<>>)),
     To(1, Announce([v |-> 6, addr |-> {}], {0}, "Completed", 2 :> Id(1, 246) @@ 3 :> Id(3, 10))),
     To(2, [type |-> "Scrape", hashes |-> <<Id(3, 20), Id(4, 20)>>])}

Error(n) == [type |-> "Error", message |-> Id(65, n)]
Found(leechers, peers) ==
    [type |-> "Announce", interval |-> 1800, leechers |-> leechers, seeders |-> 2, peers |-> peers]
Stats(seeders, downloaded) == [seeders |-> seeders, downloaded |-> downloaded, leechers |-> 3]

\* Answers of each kind, among them one that is too long by a byte.
MCResults ==
    [Connect  |-> {[type |-> "Connect", cid |-> Id(7, 8)], Error(ServerBuffer - 7)},
     Announce |-> {Found(-1, [v |-> 4, list |-> <<[ip |-> <<10, 0, 0, 1>>, port |-> 6881],
                                                  [ip |-> <<10, 0, 0, 2>>, port |-> 80]>>]),
                   Found(0, [v |-> 6, list |-> <<[ip |-> V6, port |-> 6881]>>])},
     Scrape   |-> {[type |-> "Scrape", stats |-> <<Stats(1, -2), Stats(0, 70000)>>], Error(0)}]

MCInit == part \in Parts /\ Init /\ Server!Init

MCNext ==
    \/ part = "client" /\ Next /\ UNCHANGED <<part, serverVars>>
    \/ part = "server" /\ Server!Next /\ UNCHANGED <<part, vars>>

MCSpec == MCInit /\ [][MCNext]_<<part, vars, serverVars>> /\ Fairness

\* TrackerServer's: the handler is called with the requests that the clients
\* sent (dispatcher.rs, incoming; request.rs, parse_request).
RequestsUnderstood == Server!RequestsUnderstood

\* TrackerServer's: the clients hear what the handler answered to them
\* (dispatcher.rs, write_response; response.rs, parse_response).
RepliesAreAnswers == Server!RepliesAreAnswers
=============================================================================
