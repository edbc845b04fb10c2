----------------------------- MODULE DhtAnnounce -----------------------------
(***************************************************************************)
(* bip_dht: how a node that is not read only serves get_peers and          *)
(* announce_peer requests (worker/handler.rs): the token store and the     *)
(* announce storage together.  The mark that a request leaves on a node in *)
(* the routing table is RoutingTable's.                                    *)
(***************************************************************************)
EXTENDS TokenStore, AnnounceStorage

CONSTANT Ports          \* ports a node may announce

VARIABLES
    active_stores,      \* the AnnounceStorage
    acknowledged        \* history: when each announcement was last acknowledged

vars == <<tokenVars, active_stores, acknowledged>>

Contacts == Ips \X Ports
Items    == Hashes \X Contacts
Never    == -1

Init ==
    /\ TokenInit
    /\ active_stores = EmptyStore
    /\ acknowledged = [x \in Items |-> Never]

\* The token is made without a look at the clock.
GetPeers_Slip(ip, h) ==
    /\ Cardinality(issued) < MaxIssued
    /\ issued' = issued \cup {[token |-> Token(ip, curr_secret), at |-> now]}
    /\ active_stores' = find(active_stores, h, now).store
    /\ UNCHANGED <<now, secretVars, acknowledged>>

\* GetPeers: the contacts are looked up, a token is handed out.
GetPeers(ip, h) ==
    /\ Cardinality(issued) < MaxIssued
    /\ checkout(ip)
    /\ active_stores' = find(active_stores, h, now).store
    /\ UNCHANGED acknowledged

\* An invalid token is no obstacle.
AnnouncePeer_Slip(ip, port, h, token) ==
    /\ \E valid \in BOOLEAN : checkin(ip, token, valid)
    /\ LET r == add(active_stores, h, <<ip, port>>, now)
       IN /\ active_stores' = r.store
          /\ acknowledged' = IF r.added THEN [acknowledged EXCEPT ![<<h, <<ip, port>>>>] = now] ELSE acknowledged

\* AnnouncePeer: the answer is an acknowledgement, "Received An Invalid Token"
\* or "Announce Storage Is Full".
AnnouncePeer(ip, port, h, token) ==
    LET r == add(active_stores, h, <<ip, port>>, now)
    IN \E valid \in BOOLEAN :
         /\ checkin(ip, token, valid)
         /\ \/ ~valid /\ UNCHANGED <<active_stores, acknowledged>>
            \/ /\ valid /\ r.added
               /\ active_stores' = r.store
               /\ acknowledged' = [acknowledged EXCEPT ![<<h, <<ip, port>>>>] = now]
            \/ /\ valid /\ ~r.added
               /\ active_stores' = r.store
               /\ UNCHANGED acknowledged

Next ==
    \/ \E ip \in Ips, h \in Hashes : GetPeers(ip, h)
    \/ \E ip \in Ips, port \in Ports, h \in Hashes, i \in issued : AnnouncePeer(ip, port, h, i.token)
    \/ Tick /\ UNCHANGED <<active_stores, acknowledged>>

Spec == Init /\ [][Next]_vars
(***************************************************************************)
(* Properties.                                                             *)
(***************************************************************************)
Expirations == Range(active_stores.expires)

TypeOK ==
    /\ TokenTypeOK
    /\ active_stores.storage \in [Hashes -> Seq(Contacts)]
    /\ \A e \in Expirations : e.hash \in Hashes /\ e.addr \in Contacts /\ e.inserted \in 0 .. now
    /\ acknowledged \in [Items -> 0 .. now \cup {Never}]
    /\ Len(active_stores.expires) <= MAX_ITEMS_STORED

RecentAt(ack, time, h, c) == ack[<<h, c>>] # Never /\ time - ack[<<h, c>>] < ExpirationTime
Recent(h) == {c \in Contacts : RecentAt(acknowledged, now, h, c)}

\* The storage is well typed and holds the contacts that were acknowledged less
\* than 24 hours ago.  A get_peers request is told exactly those, each once,
\* although expired contacts are only dropped from the head of the list of
\* expirations, which repeated announcements reorder.  And an announcement with
\* a valid token is refused only when the storage is full of other contacts;
\* one that repeats a valid announcement never is.
StorageIsExact ==
    /\ TypeOK
    /\ \A h \in Hashes :
         LET items == find(active_stores, h, now).items
         IN Range(items) = Recent(h) /\ Len(items) = Cardinality(Recent(h))
    /\ \A h \in Hashes, c \in Contacts : ~add(active_stores, h, c, now).added =>
         /\ c \notin Recent(h)
         /\ Cardinality({x \in Items : x[2] \in Recent(x[1])}) = MAX_ITEMS_STORED

\* Whether the node at ip held a token less than three refresh intervals old
\* when it announced itself at the given time.
HadToken(ip, time) ==
    \E i \in issued : i.token.ip = ip /\ i.at <= time /\ time - i.at < 3 * RefreshInterval

\* An announcement is only acknowledged, and so a contact is only stored, for an
\* ip that was itself given a token, less than three refresh intervals before.
AnnouncedHadToken ==
    \A h \in Hashes, ip \in Ips, port \in Ports :
        LET time == acknowledged[<<h, <<ip, port>>>>] IN time # Never => HadToken(ip, time)

(***************************************************************************)
(* The inductive invariant: that of the tokens, AnnouncedHadToken, and how *)
(* the two halves of the storage belong together.  The list of expirations *)
(* is in the order of time, so that what has expired is at its head.       *)
(***************************************************************************)
Expiration == [hash : Hashes, addr : Contacts, inserted : Nat]

Listed(expires, h, c)  == \E k \in DOMAIN expires : expires[k].hash = h /\ expires[k].addr = c
Stored(storage, h, c)  == \E k \in DOMAIN storage[h] : storage[h][k] = c

\* The store fits the acknowledgements so far, at the given time.
StoreOK(store, ack, time) ==
    /\ store.storage \in [Hashes -> Seq(Contacts)]
    /\ store.expires \in Seq(Expiration)
    /\ Len(store.expires) <= MAX_ITEMS_STORED
    /\ \A j, k \in DOMAIN store.expires :
         j < k => /\ store.expires[j].inserted <= store.expires[k].inserted
                  /\ ~Same(store.expires[j], store.expires[k])
    /\ \A k \in DOMAIN store.expires :
         LET e == store.expires[k] IN e.inserted = ack[<<e.hash, e.addr>>] /\ e.inserted <= time
    /\ \A h \in Hashes : \A j, k \in DOMAIN store.storage[h] :
         store.storage[h][j] = store.storage[h][k] => j = k
    /\ \A h \in Hashes, c \in Contacts : Stored(store.storage, h, c) <=> Listed(store.expires, h, c)
    /\ \A h \in Hashes, c \in Contacts : RecentAt(ack, time, h, c) => Listed(store.expires, h, c)

AnnounceInvariant ==
    /\ TokenInvariant
    /\ acknowledged \in [Items -> 0 .. now \cup {Never}]
    /\ AnnouncedHadToken
    /\ StoreOK(active_stores, acknowledged, now)
=============================================================================
