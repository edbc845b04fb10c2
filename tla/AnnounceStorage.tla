--------------------------- MODULE AnnounceStorage ---------------------------
(***************************************************************************)
(* bip_dht: the contacts announced to this node (storage.rs), as functions *)
(* on a store that has the contacts of each info hash and, in a list of    *)
(* its own, when each contact was announced.  An AnnounceItem is its       *)
(* expiration; two of them are equal when hash and address are.            *)
(***************************************************************************)
EXTENDS Integers, Sequences, FiniteSets, Functions

CONSTANTS
    Hashes,             \* info hashes
    MAX_ITEMS_STORED,
    ExpirationTime      \* EXPIRATION_TIME_HOURS, in ticks of the clock

ASSUME ExpirationTimePos == ExpirationTime \in Nat \ {0}
ASSUME MaxItemsNat == MAX_ITEMS_STORED \in Nat

\* An info hash without contacts has the empty list.
EmptyStore == [storage |-> [h \in Hashes |-> <<>>], expires |-> <<>>]

ItemExpiration(h, addr, now) == [hash |-> h, addr |-> addr, inserted |-> now]
Same(e, f) == e.hash = f.hash /\ e.addr = f.addr
is_expired(e, now) == now - e.inserted >= ExpirationTime

\* How many expirations at the head of the list are over.
num_expired_items(store, now) ==
    CHOOSE n \in 0 .. Len(store.expires) :
        /\ \A k \in 1 .. n : is_expired(store.expires[k], now)
        /\ n < Len(store.expires) => ~is_expired(store.expires[n + 1], now)

\* Vec::retain: the elements at the places kept, in their order.
retain(s, kept) ==
    LET place == CHOOSE f \in [1 .. Cardinality(kept) -> kept] :
                   \A i, j \in 1 .. Cardinality(kept) : i < j => f[i] < f[j]
    IN [i \in 1 .. Cardinality(kept) |-> s[place[i]]]

remove_expired_items(store, now) ==
    LET n == num_expired_items(store, now)
        Gone(h, addr) == \E k \in 1 .. n : Same(store.expires[k], ItemExpiration(h, addr, now))
        Kept(h) == {k \in DOMAIN store.storage[h] : ~Gone(h, store.storage[h][k])}
    IN [storage |-> [h \in Hashes |-> retain(store.storage[h], Kept(h))],
        expires |-> SubSeq(store.expires, n + 1, Len(store.expires))]

\* The list keeps its old entry for an item that is announced again.
UpdateExpiration_Slip(expires, item) == expires

\* The entry of an item announced again moves to the end of the list.
UpdateExpiration(expires, item) ==
    Append(retain(expires, {k \in DOMAIN expires : ~Same(expires[k], item)}), item)

\* The four cases of insert_contact.
can_store(already_in_list, expires) == already_in_list \/ Len(expires) < MAX_ITEMS_STORED

\* add: the store afterwards and whether the item was stored (insert_contact
\* returned Some).
add(store, h, addr, now) ==
    LET st   == remove_expired_items(store, now)
        item == ItemExpiration(h, addr, now)
        already_in_list == \E k \in DOMAIN st.storage[h] : st.storage[h][k] = addr
    IN IF ~can_store(already_in_list, st.expires) THEN [store |-> st, added |-> FALSE]
       ELSE IF already_in_list
         THEN [store |-> [st EXCEPT !.expires = UpdateExpiration(@, item)], added |-> TRUE]
         ELSE [store |-> [storage |-> [st.storage EXCEPT ![h] = Append(@, addr)],
                          expires |-> Append(st.expires, item)],
               added |-> TRUE]

\* find: the store afterwards and the addresses handed to the closure.
find(store, h, now) ==
    LET st == remove_expired_items(store, now) IN [store |-> st, items |-> st.storage[h]]
=============================================================================
