------------------------- MODULE DhtAnnounce_proofs -------------------------
(***************************************************************************)
(* The life time of a token, for every refresh interval and every sequence *)
(* of requests.  Then the handler that serves get_peers and announce_peer: *)
(* it uses the tokens as TokenStore says, acknowledges nobody who was      *)
(* given none, and keeps its storage exact.                                *)
(***************************************************************************)
EXTENDS DhtAnnounce, FiniteSetTheorems, SequenceTheorems, WellFoundedInduction, TLAPS

-----------------------------------------------------------------------------
(* The token store. *)

\* refresh_check keeps every token issued so far aged as its secret says, and
\* leaves a current secret that is younger than an interval.
LEMMA RefreshKeepsAges ==
    ASSUME TokenInvariant, refresh_check, UNCHANGED now
    PROVE  /\ drawn' \in Nat /\ drawn <= drawn'
           /\ last_refresh' \in 0 .. now /\ now < last_refresh' + RefreshInterval
           /\ curr_secret' \in 1 .. drawn' /\ last_secret' \in 1 .. drawn'
           /\ curr_secret' # last_secret'
           /\ \A i \in issued : Aged(i)'
<1> USE RefreshIntervalPos
<1>1. \A i \in issued : i.at \in Nat /\ i.at <= now /\ i.token.secret \in 1 .. drawn
  BY DEF TokenInvariant, TokenTypeOK
<1>2. CASE intervals_passed = 0
  BY <1>1, <1>2 DEF refresh_check, intervals_passed, secretVars, TokenInvariant, TokenTypeOK, Aged
<1>3. CASE intervals_passed = 1
  BY <1>1, <1>3 DEF refresh_check, intervals_passed, TokenInvariant, TokenTypeOK, Aged
<1>4. CASE intervals_passed = 2
  BY <1>1, <1>4 DEF refresh_check, intervals_passed, TokenInvariant, TokenTypeOK, Aged
<1> QED
  BY <1>2, <1>3, <1>4 DEF refresh_check

\* A token issued after the refresh has the current secret's age.
LEMMA CheckoutKeepsAges ==
    ASSUME TokenInvariant, NEW ip \in Ips, checkout(ip)
    PROVE  TokenInvariant'
<1> DEFINE i0 == [token |-> Token(ip, curr_secret'), at |-> now]
<1>1. /\ drawn' \in Nat /\ drawn <= drawn'
      /\ last_refresh' \in 0 .. now /\ now < last_refresh' + RefreshInterval
      /\ curr_secret' \in 1 .. drawn' /\ last_secret' \in 1 .. drawn'
      /\ curr_secret' # last_secret'
      /\ \A i \in issued : Aged(i)'
  BY RefreshKeepsAges DEF checkout
<1>2. now' = now /\ issued' = issued \cup {i0}
  BY DEF checkout
<1>3. issued \subseteq [token : [ip : Ips, secret : 1 .. drawn], at : 0 .. now] /\ now \in Nat /\ drawn \in Nat
  BY DEF TokenInvariant, TokenTypeOK
<1>4. i0 \in [token : [ip : Ips, secret : 1 .. drawn'], at : 0 .. now]
  BY <1>1, <1>3 DEF Token
<1>5. issued' \subseteq [token : [ip : Ips, secret : 1 .. drawn'], at : 0 .. now']
  BY <1>1, <1>2, <1>3, <1>4
<1>6. \A i \in issued' : Aged(i)'
  <2> SUFFICES ASSUME NEW i \in issued'
               PROVE  Aged(i)'
    OBVIOUS
  <2>1. CASE i \in issued
    BY <1>1, <2>1
  <2>2. CASE i = i0
    BY <1>1, <2>2 DEF Aged, Token
  <2> QED
    BY <1>2, <2>1, <2>2
<1> QED
  BY <1>1, <1>2, <1>3, <1>5, <1>6 DEF TokenInvariant, TokenTypeOK

LEMMA CheckinKeepsAges ==
    ASSUME TokenInvariant, refresh_check, UNCHANGED <<now, issued>>
    PROVE  TokenInvariant'
<1>1. issued \subseteq [token : [ip : Ips, secret : 1 .. drawn'], at : 0 .. now]
  BY RefreshKeepsAges DEF TokenInvariant, TokenTypeOK
<1> QED
  BY <1>1, RefreshKeepsAges DEF TokenInvariant, TokenTypeOK

\* One lemma for every step of the store.
LEMMA TokenStepKeepsAges ==
    ASSUME TokenInvariant, [TokenNext]_tokenVars
    PROVE  TokenInvariant'
<1>1. CASE Checkout
  BY <1>1, CheckoutKeepsAges DEF Checkout
<1>2. CASE Checkin
  BY <1>2, CheckinKeepsAges DEF Checkin, checkin
<1>3. CASE Tick
  BY <1>3 DEF Tick, secretVars, TokenInvariant, TokenTypeOK, Aged
<1>4. CASE UNCHANGED tokenVars
  BY <1>4 DEF tokenVars, TokenInvariant, TokenTypeOK, Aged
<1> QED
  BY <1>1, <1>2, <1>3, <1>4 DEF TokenNext

\* The secret of a token tells when it was issued (refresh_check, checkout and
\* checkin of the TokenStore, in any order and at any time).
THEOREM TokensAge == TokenSpec => []TokenInvariant
<1>1. TokenInit => TokenInvariant
  BY DEF TokenInit, TokenInvariant, TokenTypeOK
<1>2. TokenInvariant /\ [TokenNext]_tokenVars => TokenInvariant'
  BY TokenStepKeepsAges
<1> QED
  BY <1>1, <1>2, PTL DEF TokenSpec

\* Accepted says what checkin answers to a token that comes back from the node
\* it was given to.
THEOREM AcceptedIsCheckin ==
    ASSUME TokenInvariant, NEW i \in issued, NEW valid \in BOOLEAN,
           checkin(i.token.ip, i.token, valid)
    PROVE  valid <=> Accepted(i.token)
<1>1. i.token \in [ip : Ips, secret : 1 .. drawn] /\ drawn \in Nat
  BY DEF TokenInvariant, TokenTypeOK
<1>2. valid <=> i.token.secret \in {curr_secret', last_secret'}
  <2>1. valid <=> i.token \in {Token(i.token.ip, curr_secret'), Token(i.token.ip, last_secret')}
    BY Zenon DEF checkin, validate_token_from_addr
  <2>2. \A s : i.token = Token(i.token.ip, s) <=> i.token.secret = s
    BY <1>1 DEF Token
  <2> QED
    BY <2>1, <2>2
<1>3. curr_secret \in 1 .. drawn /\ last_secret \in 1 .. drawn /\ curr_secret # last_secret
  BY DEF TokenInvariant, TokenTypeOK
<1>4. i.token.secret \in Nat /\ i.token.secret <= drawn
  BY <1>1
<1>5. i.token.secret \in {curr_secret', last_secret'} <=> Accepted(i.token)
  <2>1. CASE intervals_passed = 0
    BY <2>1, <1>3, <1>4 DEF checkin, refresh_check, secretVars, Accepted
  <2>2. CASE intervals_passed = 1
    BY <2>2, <1>1, <1>3, <1>4 DEF checkin, refresh_check, Accepted
  <2>3. CASE intervals_passed = 2
    BY <2>3, <1>1, <1>3, <1>4 DEF checkin, refresh_check, Accepted
  <2> QED
    BY <2>1, <2>2, <2>3 DEF intervals_passed
<1> QED
  BY <1>2, <1>5

\* A token is accepted for at least a whole refresh interval, however the
\* lazy refreshes fall.
THEOREM RecentTokensAreAccepted == TokenSpec => []RecentTokenAccepted
<1>1. TokenInvariant => RecentTokenAccepted
  BY RefreshIntervalPos
     DEF TokenInvariant, TokenTypeOK, Aged, RecentTokenAccepted, Accepted, intervals_passed
<1> QED
  BY <1>1, TokensAge, PTL

\* No token is accepted for three refresh intervals.
THEOREM TokensExpire == TokenSpec => []TokenLifetime
<1>1. TokenInvariant => TokenLifetime
  BY RefreshIntervalPos
     DEF TokenInvariant, TokenTypeOK, Aged, TokenLifetime, Accepted, intervals_passed
<1> QED
  BY <1>1, TokensAge, PTL

-----------------------------------------------------------------------------
(* The handler's use of the tokens. *)

LEMMA GetPeersIsCheckout ==
    ASSUME NEW ip \in Ips, NEW h \in Hashes, GetPeers(ip, h)
    PROVE  Checkout
BY Zenon DEF GetPeers, Checkout

LEMMA AnnouncePeerIsCheckin ==
    ASSUME NEW ip \in Ips, NEW port \in Ports, NEW h \in Hashes, NEW i \in issued,
           AnnouncePeer(ip, port, h, i.token)
    PROVE  Checkin
<1>1. PICK valid \in BOOLEAN : checkin(ip, i.token, valid)
  BY Zenon DEF AnnouncePeer
<1> QED
  BY <1>1, Zenon DEF Checkin

\* Every step of the handler is a step of the token store, or none.
LEMMA StepIsTokenStep ==
    ASSUME [Next]_vars
    PROVE  [TokenNext]_tokenVars
<1>1. ASSUME NEW ip \in Ips, NEW h \in Hashes, GetPeers(ip, h)
      PROVE  TokenNext
  BY <1>1, GetPeersIsCheckout, Zenon DEF TokenNext
<1>2. ASSUME NEW ip \in Ips, NEW port \in Ports, NEW h \in Hashes, NEW i \in issued,
             AnnouncePeer(ip, port, h, i.token)
      PROVE  TokenNext
  BY <1>2, AnnouncePeerIsCheckin, Zenon DEF TokenNext
<1>3. CASE Tick
  BY <1>3, Zenon DEF TokenNext
<1>4. CASE UNCHANGED vars
  BY <1>4, Zenon DEF vars
<1> QED
  BY <1>1, <1>2, <1>3, <1>4, Zenon DEF Next

\* The handler of get_peers and announce_peer implements the token store: it
\* checks tokens out and in, and touches the secrets in no other way.
THEOREM HandlerUsesTokens == Spec => TokenSpec
<1>1. Init => TokenInit
  BY Zenon DEF Init
<1> QED
  BY <1>1, StepIsTokenStep, PTL DEF Spec, TokenSpec

\* The token in an answer to get_peers is accepted with an announce_peer that
\* comes within a refresh interval, whatever else the handler serves meanwhile.
THEOREM HandlerAcceptsRecentTokens == Spec => []RecentTokenAccepted
BY HandlerUsesTokens, RecentTokensAreAccepted, PTL

\* Who held a token still did: tokens are not taken back.
LEMMA IssuedGrows ==
    ASSUME [Next]_vars
    PROVE  issued \subseteq issued'
<1>1. [TokenNext]_tokenVars
  BY StepIsTokenStep, Zenon
<1> QED
  BY <1>1, Zenon DEF TokenNext, tokenVars, Checkout, checkout, Checkin, checkin, Tick

\* A token that is valid was given to the node that presents it, less than
\* three refresh intervals ago.
LEMMA ValidWasIssued ==
    ASSUME TokenInvariant, NEW ip \in Ips, NEW i \in issued, checkin(ip, i.token, TRUE)
    PROVE  HadToken(ip, now)
<1>1. i.token.ip = ip
  <2>1. i.token \in {Token(ip, curr_secret'), Token(ip, last_secret')}
    BY Zenon DEF checkin, validate_token_from_addr
  <2> QED
    BY <2>1 DEF Token
<1>2. Accepted(i.token)
  BY <1>1, AcceptedIsCheckin, Zenon
<1>3. now - i.at < 3 * RefreshInterval
  BY <1>2, RefreshIntervalPos
     DEF TokenInvariant, TokenTypeOK, Aged, Accepted, intervals_passed
<1>4. i.at <= now
  BY DEF TokenInvariant, TokenTypeOK
<1> QED
  BY <1>1, <1>3, <1>4, Zenon DEF HadToken

\* Every set of numbers has a least one.
LEMMA LeastNumber ==
    ASSUME NEW S \in SUBSET Nat, S # {}
    PROVE  \E x \in S : \A y \in S : x <= y
<1>1. PICK x \in S : \A y \in S : ~ (<<y, x>> \in OpToRel(<, Nat))
  BY NatLessThanWellFounded, WFMin, Zenon
<1>2. ASSUME NEW y \in S
      PROVE  x <= y
  <2>1. ~ (y < x)
    BY <1>1, Zenon DEF OpToRel
  <2> QED
    BY <2>1
<1> QED
  BY <1>2, Zenon

\* A set of places can be listed in its order, whatever the length of the list.
LEMMA PlacesInOrder ==
    ASSUME NEW n \in Nat, NEW K \in SUBSET (1 .. n)
    PROVE  \E f \in [1 .. Cardinality(K) -> K] : \A i, j \in 1 .. Cardinality(K) : i < j => f[i] < f[j]
<1> DEFINE InOrder(S) == \E f \in [1 .. Cardinality(S) -> S] :
                           \A i, j \in 1 .. Cardinality(S) : i < j => f[i] < f[j]
           Bad == {m \in Nat : \E S \in SUBSET (1 .. m) : ~InOrder(S)}
<1> HIDE DEF InOrder
<1>1. SUFFICES ASSUME Bad # {}
               PROVE  FALSE
  BY <1>1, Zenon DEF InOrder
<1>2. PICK m \in Bad : \A k \in Bad : m <= k
  <2>1. Bad \in SUBSET Nat
    BY Zenon
  <2> HIDE DEF Bad
  <2> QED
    BY <1>1, <2>1, LeastNumber, Zenon
<1>3. PICK S \in SUBSET (1 .. m) : ~InOrder(S)
  BY <1>2, Zenon
<1>4. m \in Nat
  BY <1>2, Zenon
<1>5. m # 0
  <2> SUFFICES ASSUME m = 0
               PROVE  FALSE
    BY Zenon
  <2>1. S = {}
    BY <1>3
  <2>2. Cardinality(S) = 0
    BY <2>1, FS_EmptySet, Zenon
  <2>3. [i \in 1 .. 0 |-> i] \in [1 .. 0 -> S] /\ \A i \in 1 .. 0 : FALSE
    OBVIOUS
  <2>4. \E f \in [1 .. 0 -> S] : \A i, j \in 1 .. 0 : i < j => f[i] < f[j]
    BY <2>3, Zenon
  <2>5. InOrder(S)
    BY <2>2, <2>4, Zenon DEF InOrder
  <2> QED
    BY <1>3, <2>5, Zenon
<1>6. m - 1 \in Nat /\ m - 1 \notin Bad
  <2> HIDE DEF Bad
  <2> QED
    BY <1>2, <1>4, <1>5
<1>7. \A T \in SUBSET (1 .. m - 1) : InOrder(T)
  BY <1>6, Zenon
<1>8. m \in S
  BY <1>3, <1>4, <1>7
<1> DEFINE T == S \ {m}
<1>9. T \in SUBSET (1 .. m - 1)
  BY <1>3, <1>4
<1>10. IsFiniteSet(S) /\ IsFiniteSet(T) /\ Cardinality(S) \in Nat /\ Cardinality(T) \in Nat
       /\ Cardinality(S) = Cardinality(T) + 1
  <2> HIDE DEF Bad
  <2>0. IsFiniteSet(1 .. m)
    BY <1>4, FS_Interval
  <2>1. IsFiniteSet(S)
    BY <1>3, <2>0, FS_Subset, Zenon
  <2>2. IsFiniteSet(T) /\ Cardinality(T) = Cardinality(S) - 1
    BY <1>8, <2>1, FS_RemoveElement, Zenon
  <2>3. Cardinality(S) \in Nat /\ Cardinality(T) \in Nat
    BY <2>1, <2>2, FS_CardinalityType, Zenon
  <2> QED
    BY <2>1, <2>2, <2>3
<1> HIDE DEF T
<1>11. PICK f \in [1 .. Cardinality(T) -> T] : \A i, j \in 1 .. Cardinality(T) : i < j => f[i] < f[j]
  BY <1>7, <1>9, Zenon DEF InOrder
<1>12. PICK c \in Nat : c = Cardinality(T) /\ c + 1 = Cardinality(S)
  BY <1>10, Zenon
<1> DEFINE g == [i \in 1 .. c + 1 |-> IF i = c + 1 THEN m ELSE f[i]]
<1>13. \A i \in 1 .. c : f[i] \in S /\ f[i] \in 1 .. m - 1
  BY <1>9, <1>11, <1>12, Zenon DEF T
<1>14. g \in [1 .. c + 1 -> S]
  BY <1>8, <1>12, <1>13
<1>15. \A i, j \in 1 .. c + 1 : i < j => g[i] < g[j]
  <2> SUFFICES ASSUME NEW i \in 1 .. c + 1, NEW j \in 1 .. c + 1, i < j
               PROVE  g[i] < g[j]
    BY Zenon
  <2>1. i \in 1 .. c /\ g[i] = f[i]
    BY <1>12
  <2>2. CASE j = c + 1
    <3>1. g[j] = m
      BY <2>2, Zenon
    <3>2. f[i] \in 1 .. m - 1
      BY <1>13, <2>1, Zenon
    <3> QED
      BY <1>4, <2>1, <3>1, <3>2
  <2>3. CASE j # c + 1
    <3>1. j \in 1 .. c /\ g[j] = f[j]
      BY <1>12, <2>3
    <3> QED
      BY <1>11, <1>12, <2>1, <3>1, Zenon
  <2> QED
    BY <2>2, <2>3, Zenon
<1> HIDE DEF g
<1>16. InOrder(S)
  BY <1>12, <1>14, <1>15, Zenon DEF InOrder
<1> QED
  BY <1>3, <1>16, Zenon

\* What Vec::retain leaves: the elements at the places kept, each once and in
\* their order.
LEMMA RetainProperties ==
    ASSUME NEW A, NEW s \in Seq(A), NEW kept \in SUBSET DOMAIN s
    PROVE  /\ retain(s, kept) \in Seq(A)
           /\ Len(retain(s, kept)) = Cardinality(kept)
           /\ \A i \in DOMAIN retain(s, kept) : \E a \in kept : retain(s, kept)[i] = s[a]
           /\ \A a \in kept : \E i \in DOMAIN retain(s, kept) : retain(s, kept)[i] = s[a]
           /\ \A i, j \in DOMAIN retain(s, kept) : i < j =>
                \E a, b \in kept : a < b /\ retain(s, kept)[i] = s[a] /\ retain(s, kept)[j] = s[b]
<1>1. DOMAIN s = 1 .. Len(s) /\ Len(s) \in Nat
  OBVIOUS
<1>2. IsFiniteSet(kept) /\ Cardinality(kept) \in Nat /\ Cardinality(kept) <= Len(s)
  <2>1. PICK l \in Nat : l = Len(s)
    BY <1>1, Zenon
  <2>2. IsFiniteSet(1 .. l) /\ Cardinality(1 .. l) = l
    BY FS_Interval
  <2>3. kept \in SUBSET (1 .. l)
    BY <1>1, <2>1, Zenon
  <2> QED
    BY <2>1, <2>2, <2>3, FS_Subset, FS_CardinalityType, Zenon
<1>3. PICK c \in Nat : c = Cardinality(kept)
  BY <1>2, Zenon
<1> DEFINE Goes(f) == \A i, j \in 1 .. c : i < j => f[i] < f[j]
           place == CHOOSE f \in [1 .. c -> kept] : Goes(f)
<1>4. \E f \in [1 .. c -> kept] : Goes(f)
  BY <1>1, <1>3, PlacesInOrder, Zenon
<1> HIDE DEF Goes
<1>5. place \in [1 .. c -> kept] /\ Goes(place)
  BY <1>4, Zenon
<1>6. retain(s, kept) = [i \in 1 .. c |-> s[place[i]]]
  BY <1>3 DEF retain, Goes
<1>7. PICK f \in [1 .. c -> kept] : Goes(f) /\ retain(s, kept) = [i \in 1 .. c |-> s[f[i]]]
  <2> HIDE DEF place
  <2> QED
    BY <1>5, <1>6, Zenon
<1>8. \A i \in 1 .. c : s[f[i]] \in A
  BY <1>1, <1>7
<1>9. retain(s, kept) \in Seq(A) /\ Len(retain(s, kept)) = c /\ DOMAIN retain(s, kept) = 1 .. c
  BY <1>7, <1>8
<1>10. \A k \in kept : \E i \in 1 .. c : f[i] = k
  <2>1. f \in Injection(1 .. c, kept)
    BY <1>1, <1>7 DEF Goes, Injection, IsInjective
  <2>2. Cardinality(1 .. c) = c
    BY FS_Interval
  <2>3. f \in Surjection(1 .. c, kept)
    BY <1>2, <1>3, <2>1, <2>2, FS_Injection, Zenon
  <2> QED
    BY <2>3, Zenon DEF Surjection
<1>11. \A i \in 1 .. c : retain(s, kept)[i] = s[f[i]]
  BY <1>7, Zenon
<1>12. \A i, j \in 1 .. c : i < j => f[i] < f[j]
  BY <1>7, Zenon DEF Goes
<1>13. \A i \in 1 .. c : f[i] \in kept
  BY <1>7, Zenon
<1>14. \A i, j \in 1 .. c : i < j =>
         \E a, b \in kept : a < b /\ retain(s, kept)[i] = s[a] /\ retain(s, kept)[j] = s[b]
  BY <1>11, <1>12, <1>13, Zenon
<1> QED
  BY <1>3, <1>9, <1>10, <1>11, <1>13, <1>14

\* take_while stops at the first expiration that is not over.
LEMMA ExpiredAtHead ==
    ASSUME NEW store, NEW time, store.expires \in Seq(Expiration)
    PROVE  LET n == num_expired_items(store, time)
           IN /\ n \in 0 .. Len(store.expires)
              /\ \A k \in 1 .. n : is_expired(store.expires[k], time)
              /\ n < Len(store.expires) => ~is_expired(store.expires[n + 1], time)
<1> DEFINE E == store.expires
           Over(n) == /\ \A k \in 1 .. n : is_expired(E[k], time)
                      /\ n < Len(E) => ~is_expired(E[n + 1], time)
           Live == {k \in DOMAIN E : ~is_expired(E[k], time)}
<1>1. DOMAIN E = 1 .. Len(E) /\ Len(E) \in Nat
  OBVIOUS
<1>2. \E n \in 0 .. Len(E) : Over(n)
  <2> HIDE DEF E
  <2>1. CASE Live = {}
    <3>1. Over(Len(E))
      BY <1>1, <2>1
    <3> QED
      BY <1>1, <3>1
  <2>2. CASE Live # {}
    <3>1. PICK k \in Live : \A j \in Live : k <= j
      <4>1. Live \in SUBSET Nat
        BY <1>1
      <4> HIDE DEF Live
      <4> QED
        BY <2>2, <4>1, LeastNumber, Zenon
    <3>2. k - 1 \in 0 .. Len(E) /\ Over(k - 1)
      BY <1>1, <3>1
    <3> QED
      BY <3>2, Zenon
  <2> QED
    BY <2>1, <2>2, Zenon
<1>3. num_expired_items(store, time) = CHOOSE n \in 0 .. Len(E) : Over(n)
  BY Zenon DEF num_expired_items
<1> HIDE DEF Over
<1>4. num_expired_items(store, time) \in 0 .. Len(E) /\ Over(num_expired_items(store, time))
  BY <1>2, <1>3, Zenon
<1> QED
  BY <1>4, Zenon DEF Over

\* Dropping what is expired from the head of the list keeps both halves of the
\* storage together and leaves nothing that is expired, because the list is in
\* the order of time.
LEMMA CleanStore ==
    ASSUME NEW store, NEW ack, NEW time \in Nat, StoreOK(store, ack, time)
    PROVE  LET st == remove_expired_items(store, time)
           IN /\ StoreOK(st, ack, time)
              /\ \A k \in DOMAIN st.expires : ~is_expired(st.expires[k], time)
<1>1. PICK n \in 0 .. Len(store.expires) :
        /\ n = num_expired_items(store, time)
        /\ \A k \in 1 .. n : is_expired(store.expires[k], time)
        /\ n < Len(store.expires) => ~is_expired(store.expires[n + 1], time)
  BY ExpiredAtHead, Zenon DEF StoreOK
<1>2. PICK E : E = store.expires
  BY Zenon
<1>3. PICK F : F = SubSeq(E, n + 1, Len(E))
  BY Zenon
<1>4. /\ E \in Seq(Expiration) /\ Len(E) \in Nat /\ DOMAIN E = 1 .. Len(E) /\ Len(E) <= MAX_ITEMS_STORED
      /\ \A j, k \in DOMAIN E : j < k => E[j].inserted <= E[k].inserted /\ ~Same(E[j], E[k])
      /\ \A k \in DOMAIN E : E[k].inserted = ack[<<E[k].hash, E[k].addr>>] /\ E[k].inserted <= time
  BY <1>2 DEF StoreOK
<1>5. /\ n \in 0 .. Len(E)
      /\ \A k \in 1 .. n : is_expired(E[k], time)
      /\ n < Len(E) => ~is_expired(E[n + 1], time)
  BY <1>1, <1>2, Zenon
<1>6. /\ F \in Seq(Expiration) /\ Len(F) = Len(E) - n /\ DOMAIN F = 1 .. Len(E) - n
      /\ \A k \in DOMAIN F : F[k] = E[n + k] /\ n + k \in DOMAIN E
  <2>1. PICK l \in Nat : l = Len(E)
    BY <1>4, Zenon
  <2>2. n \in Nat /\ n <= l /\ DOMAIN E = 1 .. l
    BY <1>4, <1>5, <2>1
  <2>a. \A k \in n + 1 .. l : E[k] \in Expiration
    BY <1>4, <2>2
  <2>3. F \in Seq(Expiration) /\ Len(F) = l - n
    BY <1>3, <2>1, <2>2, <2>a, SubSeqProperties
  <2>4. \A k \in 1 .. l - n : F[k] = E[n + 1 + k - 1]
    BY <1>3, <2>1, <2>2, <2>a, SubSeqProperties
  <2>5. DOMAIN F = 1 .. l - n
    BY <2>3
  <2>6. \A k \in 1 .. l - n : n + 1 + k - 1 = n + k /\ n + k \in DOMAIN E
    BY <2>2
  <2> QED
    BY <2>1, <2>3, <2>4, <2>5, <2>6, Zenon
<1> DEFINE Gone(h, addr) == \E k \in 1 .. n : Same(E[k], ItemExpiration(h, addr, time))
           Kept(h) == {k \in DOMAIN store.storage[h] : ~Gone(h, store.storage[h][k])}
           st == remove_expired_items(store, time)
<1>7. st = [storage |-> [h \in Hashes |-> retain(store.storage[h], Kept(h))], expires |-> F]
  BY <1>1, <1>2, <1>3, Zenon DEF remove_expired_items
<1>8. st.expires = F /\ st.storage = [h \in Hashes |-> retain(store.storage[h], Kept(h))]
  BY <1>7
<1> HIDE DEF st
<1>a. \A k \in DOMAIN E : E[k].inserted \in Nat
  <2>1. \A k \in DOMAIN E : E[k] \in Expiration
    BY <1>4
  <2> QED
    BY <2>1, Zenon DEF Expiration
<1>9. \A k \in DOMAIN F : ~is_expired(F[k], time)
  <2> SUFFICES ASSUME NEW k \in DOMAIN F
               PROVE  ~is_expired(E[n + k], time)
    BY <1>6, Zenon
  <2>1. n + 1 \in DOMAIN E /\ n + k \in DOMAIN E /\ ~is_expired(E[n + 1], time)
    BY <1>4, <1>5, <1>6
  <2>2. E[n + 1].inserted \in Nat /\ E[n + k].inserted \in Nat
    BY <1>a, <2>1, Zenon
  <2>3. E[n + 1].inserted <= E[n + k].inserted
    <3>1. k = 1 \/ n + 1 < n + k
      BY <1>5, <1>6
    <3> QED
      BY <1>4, <2>1, <2>2, <3>1
  <2> QED
    BY <2>1, <2>2, <2>3, ExpirationTimePos DEF is_expired
<1>10. ASSUME NEW h \in Hashes, NEW c \in Contacts
       PROVE  Listed(F, h, c) <=> Listed(E, h, c) /\ ~Gone(h, c)
  <2>1. \A k \in DOMAIN E : Same(E[k], ItemExpiration(h, c, time)) <=> E[k].hash = h /\ E[k].addr = c
    BY Zenon DEF Same, ItemExpiration
  <2>2. ASSUME Listed(F, h, c)
        PROVE  Listed(E, h, c) /\ ~Gone(h, c)
    <3>1. PICK k \in DOMAIN F : F[k].hash = h /\ F[k].addr = c
      BY <2>2, Zenon DEF Listed
    <3>2. n + k \in DOMAIN E /\ E[n + k].hash = h /\ E[n + k].addr = c
      BY <1>6, <3>1, Zenon
    <3>a. \A j \in 1 .. n : j \in DOMAIN E /\ j < n + k
      BY <1>4, <1>5, <1>6, <3>1
    <3>3. \A j \in 1 .. n : j \in DOMAIN E /\ ~Same(E[j], E[n + k])
      BY <1>4, <3>2, <3>a, Zenon
    <3> QED
      BY <2>1, <3>2, <3>3, Zenon DEF Listed, Same
  <2>3. ASSUME Listed(E, h, c), ~Gone(h, c)
        PROVE  Listed(F, h, c)
    <3>1. PICK k \in DOMAIN E : E[k].hash = h /\ E[k].addr = c
      BY <2>3, Zenon DEF Listed
    <3>2. k \notin 1 .. n
      BY <2>1, <2>3, <3>1, Zenon
    <3>3. k - n \in DOMAIN F /\ F[k - n] = E[k]
      BY <1>4, <1>5, <1>6, <3>1, <3>2
    <3> QED
      BY <3>1, <3>3, Zenon DEF Listed
  <2> QED
    BY <2>2, <2>3, Zenon
<1> HIDE DEF Gone
<1>11. ASSUME NEW h \in Hashes
       PROVE  /\ st.storage[h] \in Seq(Contacts)
              /\ \A j, k \in DOMAIN st.storage[h] : st.storage[h][j] = st.storage[h][k] => j = k
              /\ \A c \in Contacts : Stored(st.storage, h, c) <=> Stored(store.storage, h, c) /\ ~Gone(h, c)
  <2>1. PICK s \in Seq(Contacts) : s = store.storage[h] /\ \A j, k \in DOMAIN s : s[j] = s[k] => j = k
    BY Zenon DEF StoreOK
  <2>2. PICK K \in SUBSET DOMAIN s : K = {k \in DOMAIN s : ~Gone(h, s[k])}
    BY Zenon
  <2>a. /\ retain(s, K) \in Seq(Contacts)
        /\ \A i \in DOMAIN retain(s, K) : \E a \in K : retain(s, K)[i] = s[a]
        /\ \A a \in K : \E i \in DOMAIN retain(s, K) : retain(s, K)[i] = s[a]
        /\ \A i, j \in DOMAIN retain(s, K) : i < j =>
             \E a, b \in K : a < b /\ retain(s, K)[i] = s[a] /\ retain(s, K)[j] = s[b]
    BY RetainProperties
  <2>3. PICK r : r = retain(s, K)
    BY Zenon
  <2>4. st.storage[h] = r
    BY <1>8, <2>1, <2>2, <2>3
  <2>5. /\ r \in Seq(Contacts)
        /\ \A i \in DOMAIN r : \E a \in K : r[i] = s[a]
        /\ \A a \in K : \E i \in DOMAIN r : r[i] = s[a]
        /\ \A i, j \in DOMAIN r : i < j => \E a, b \in K : a < b /\ r[i] = s[a] /\ r[j] = s[b]
    BY <2>a, <2>3
  <2>6. \A i, j \in DOMAIN r : i < j => r[i] # r[j]
    <3>1. \A a, b \in K : a < b => s[a] # s[b]
      <4>1. DOMAIN s = 1 .. Len(s) /\ Len(s) \in Nat
        OBVIOUS
      <4> QED
        BY <2>1, <4>1
    <3> QED
      BY <2>5, <3>1
  <2>7. ASSUME NEW i \in DOMAIN r, NEW j \in DOMAIN r, r[i] = r[j]
        PROVE  i = j
    <3>1. DOMAIN r = 1 .. Len(r) /\ Len(r) \in Nat
      BY <2>5
    <3> QED
      BY <2>6, <2>7, <3>1
  <2>8. ASSUME NEW c \in Contacts
        PROVE  (\E i \in DOMAIN r : r[i] = c) <=> (\E k \in DOMAIN s : s[k] = c) /\ ~Gone(h, c)
    BY <2>2, <2>5
  <2> QED
    BY <2>1, <2>4, <2>5, <2>7, <2>8 DEF Stored
<1>12. ASSUME NEW h \in Hashes, NEW c \in Contacts, RecentAt(ack, time, h, c)
       PROVE  Listed(F, h, c)
  <2>1. Listed(E, h, c)
    BY <1>2, <1>12, Zenon DEF StoreOK
  <2>2. PICK k \in DOMAIN E : E[k].hash = h /\ E[k].addr = c
    BY <2>1, Zenon DEF Listed
  <2>3. ~is_expired(E[k], time)
    <3>1. E[k].inserted = ack[<<h, c>>] /\ E[k].inserted \in Nat
      BY <1>4, <1>a, <2>2, Zenon
    <3> QED
      BY <1>12, <3>1, ExpirationTimePos DEF is_expired, RecentAt
  <2>4. k - n \in DOMAIN F /\ F[k - n] = E[k]
    BY <1>4, <1>5, <1>6, <2>2, <2>3
  <2> QED
    BY <2>2, <2>4, Zenon DEF Listed
<1>13. \A h \in Hashes, c \in Contacts : Stored(st.storage, h, c) <=> Listed(F, h, c)
  BY <1>2, <1>10, <1>11, Zenon DEF StoreOK
<1>14. st.storage \in [Hashes -> Seq(Contacts)]
  <2>1. DOMAIN st.storage = Hashes /\ st.storage = [h \in Hashes |-> st.storage[h]]
    BY <1>8, Zenon
  <2> QED
    BY <1>11, <2>1, Zenon
<1>15. /\ Len(F) <= MAX_ITEMS_STORED
       /\ \A j, k \in DOMAIN F : j < k => F[j].inserted <= F[k].inserted /\ ~Same(F[j], F[k])
       /\ \A k \in DOMAIN F : F[k].inserted = ack[<<F[k].hash, F[k].addr>>] /\ F[k].inserted <= time
  <2>1. Len(F) <= MAX_ITEMS_STORED
    BY <1>4, <1>5, <1>6, MaxItemsNat
  <2>2. ASSUME NEW j \in DOMAIN F, NEW k \in DOMAIN F, j < k
        PROVE  F[j].inserted <= F[k].inserted /\ ~Same(F[j], F[k])
    <3>1. n + j \in DOMAIN E /\ n + k \in DOMAIN E /\ n + j < n + k /\ F[j] = E[n + j] /\ F[k] = E[n + k]
      BY <1>5, <1>6, <2>2
    <3> QED
      BY <1>4, <3>1, Zenon
  <2> QED
    BY <1>4, <1>6, <2>1, <2>2
<1>16. StoreOK(st, ack, time)
  BY <1>6, <1>8, <1>11, <1>12, <1>13, <1>14, <1>15, Zenon DEF StoreOK
<1> QED
  BY <1>8, <1>9, <1>16, Zenon DEF st

\* In a store from which the expired contacts were dropped, the contacts of a
\* hash are those acknowledged less than the expiration time ago.
LEMMA CleanIsRecent ==
    ASSUME NEW st, NEW ack, NEW time \in Nat, StoreOK(st, ack, time),
           \A k \in DOMAIN st.expires : ~is_expired(st.expires[k], time)
    PROVE  /\ \A h \in Hashes, c \in Contacts : Listed(st.expires, h, c) <=> RecentAt(ack, time, h, c)
           /\ \A h \in Hashes, c \in Contacts : Stored(st.storage, h, c) <=> RecentAt(ack, time, h, c)
<1>1. \A k \in DOMAIN st.expires : st.expires[k].inserted \in Nat
  <2>1. \A k \in DOMAIN st.expires : st.expires[k] \in Expiration
    BY DEF StoreOK
  <2> QED
    BY <2>1, Zenon DEF Expiration
<1>2. ASSUME NEW h \in Hashes, NEW c \in Contacts, Listed(st.expires, h, c)
      PROVE  RecentAt(ack, time, h, c)
  <2>1. PICK k \in DOMAIN st.expires : st.expires[k].hash = h /\ st.expires[k].addr = c
    BY <1>2, Zenon DEF Listed
  <2>2. ack[<<h, c>>] \in Nat /\ ~is_expired(st.expires[k], time) /\ st.expires[k].inserted = ack[<<h, c>>]
    BY <1>1, <2>1, Zenon DEF StoreOK
  <2> QED
    BY <2>2, ExpirationTimePos DEF is_expired, RecentAt, Never
<1>3. \A h \in Hashes, c \in Contacts : Listed(st.expires, h, c) <=> RecentAt(ack, time, h, c)
  BY <1>2, Zenon DEF StoreOK
<1> QED
  BY <1>3, Zenon DEF StoreOK

\* find hands out the contacts that were acknowledged less than the expiration
\* time ago, each once.
LEMMA FindIsExact ==
    ASSUME StoreOK(active_stores, acknowledged, now), now \in Nat, NEW h \in Hashes
    PROVE  LET items == find(active_stores, h, now).items
           IN Range(items) = Recent(h) /\ Len(items) = Cardinality(Recent(h))
<1>1. PICK st : st = remove_expired_items(active_stores, now)
  BY Zenon
<1>2. StoreOK(st, acknowledged, now) /\ \A k \in DOMAIN st.expires : ~is_expired(st.expires[k], now)
  BY <1>1, CleanStore, Zenon
<1>3. PICK items \in Seq(Contacts) : items = st.storage[h] /\ \A j, k \in DOMAIN items : items[j] = items[k] => j = k
  BY <1>2 DEF StoreOK
<1>4. find(active_stores, h, now).items = items
  BY <1>1, <1>3, Zenon DEF find
<1>5. \A c \in Contacts : (\E k \in DOMAIN items : items[k] = c) <=> c \in Recent(h)
  BY <1>2, <1>3, CleanIsRecent DEF Stored, Recent
<1>6. DOMAIN items = 1 .. Len(items) /\ Len(items) \in Nat /\ \A k \in DOMAIN items : items[k] \in Contacts
  OBVIOUS
<1>7. Range(items) = Recent(h)
  BY <1>5, <1>6, Zenon DEF Range, Recent
<1>8. Len(items) = Cardinality(Recent(h))
  <2>1. PICK l \in Nat : l = Len(items)
    BY <1>6, Zenon
  <2>2. items \in [1 .. l -> Recent(h)]
    BY <1>5, <1>6, <2>1
  <2>3. \A c \in Recent(h) : \E k \in 1 .. l : items[k] = c
    BY <1>5, <1>6, <2>1, Zenon DEF Recent
  <2>4. \A j, k \in 1 .. l : items[j] = items[k] => j = k
    BY <1>3, <1>6, <2>1, Zenon
  <2>5. items \in Bijection(1 .. l, Recent(h))
    BY <2>2, <2>3, <2>4, Zenon DEF Bijection, Injection, IsInjective, Surjection
  <2>6. Cardinality(Recent(h)) = l
    BY <2>5, FS_CountingElements, Zenon DEF ExistsBijection
  <2> QED
    BY <2>1, <2>6, Zenon
<1> QED
  BY <1>4, <1>7, <1>8, Zenon

\* An announcement is refused only when it is new and the storage is full of
\* contacts that have not expired.
LEMMA RefusedWhenFull ==
    ASSUME StoreOK(active_stores, acknowledged, now), now \in Nat,
           NEW h \in Hashes, NEW c \in Contacts, ~add(active_stores, h, c, now).added
    PROVE  /\ c \notin Recent(h)
           /\ Cardinality({x \in Items : x[2] \in Recent(x[1])}) = MAX_ITEMS_STORED
<1>1. PICK st : st = remove_expired_items(active_stores, now)
  BY Zenon
<1>2. StoreOK(st, acknowledged, now) /\ \A k \in DOMAIN st.expires : ~is_expired(st.expires[k], now)
  BY <1>1, CleanStore, Zenon
<1>3. ~can_store(Stored(st.storage, h, c), st.expires)
  BY <1>1, Zenon DEF add, Stored
<1>4. ~Stored(st.storage, h, c) /\ ~(Len(st.expires) < MAX_ITEMS_STORED)
  BY <1>3, Zenon DEF can_store
<1>5. c \notin Recent(h)
  BY <1>2, <1>4, CleanIsRecent, Zenon DEF Recent
<1> DEFINE Full == {x \in Items : x[2] \in Recent(x[1])}
<1>6. PICK E \in Seq(Expiration) :
        /\ E = st.expires
        /\ \A j, k \in DOMAIN E : j < k => ~Same(E[j], E[k])
        /\ Len(E) <= MAX_ITEMS_STORED
  BY <1>2, Zenon DEF StoreOK
<1>7. PICK l \in Nat : l = Len(E) /\ DOMAIN E = 1 .. l
  OBVIOUS
<1>8. l = MAX_ITEMS_STORED
  BY <1>4, <1>6, <1>7, MaxItemsNat
<1>9. \A k \in 1 .. l : E[k].hash \in Hashes /\ E[k].addr \in Contacts
  <2>1. \A k \in 1 .. l : E[k] \in Expiration
    BY <1>7
  <2> QED
    BY <2>1, Zenon DEF Expiration
<1>10. \A g \in Hashes, d \in Contacts : (\E k \in 1 .. l : E[k].hash = g /\ E[k].addr = d) <=> d \in Recent(g)
  BY <1>2, <1>6, <1>7, CleanIsRecent DEF Listed, Recent
<1> DEFINE f == [k \in 1 .. l |-> <<E[k].hash, E[k].addr>>]
<1>11. f \in [1 .. l -> Full]
  BY <1>9, <1>10, Zenon DEF Items
<1>12. \A x \in Full : \E k \in 1 .. l : f[k] = x
  <2> SUFFICES ASSUME NEW x \in Full
               PROVE  \E k \in 1 .. l : f[k] = x
    BY Zenon
  <2>1. PICK g \in Hashes, d \in Contacts : x = <<g, d>>
    BY DEF Items
  <2>2. d \in Recent(g)
    BY <2>1, Zenon
  <2>3. PICK k \in 1 .. l : E[k].hash = g /\ E[k].addr = d
    BY <1>10, <2>2
  <2> QED
    BY <2>1, <2>3, Zenon
<1>13. \A j, k \in 1 .. l : f[j] = f[k] => j = k
  <2> SUFFICES ASSUME NEW j \in 1 .. l, NEW k \in 1 .. l, f[j] = f[k]
               PROVE  j = k
    BY Zenon
  <2>1. E[j].hash = E[k].hash /\ E[j].addr = E[k].addr
    BY Zenon
  <2>2. ~(j < k) /\ ~(k < j)
    BY <1>6, <1>7, <2>1, Zenon DEF Same
  <2> QED
    BY <2>2
<1>14. f \in Bijection(1 .. l, Full)
  <2> HIDE DEF f, Full
  <2> QED
    BY <1>11, <1>12, <1>13, Zenon DEF Bijection, Injection, IsInjective, Surjection
<1>15. Cardinality(Full) = l
  <2> HIDE DEF f, Full
  <2> QED
    BY <1>14, FS_CountingElements, Zenon DEF ExistsBijection
<1> QED
  BY <1>5, <1>8, <1>15, Zenon

\* Vec::retain and push of the renewed expiration: the entry of the item moves
\* to the end, all others keep their order.
LEMMA RenewStore ==
    ASSUME NEW st, NEW ack, NEW time \in Nat, StoreOK(st, ack, time), ack \in [Items -> 0 .. time \cup {Never}],
           NEW h \in Hashes, NEW c \in Contacts, Stored(st.storage, h, c)
    PROVE  StoreOK([st EXCEPT !.expires = UpdateExpiration(@, ItemExpiration(h, c, time))],
                   [ack EXCEPT ![<<h, c>>] = time], time)
<1>1. PICK E \in Seq(Expiration) : E = st.expires
  BY Zenon DEF StoreOK
<1>2. PICK l \in Nat : l = Len(E) /\ DOMAIN E = 1 .. l
  OBVIOUS
<1>3. PICK item : item = ItemExpiration(h, c, time)
  BY Zenon
<1>4. item \in Expiration /\ item.hash = h /\ item.addr = c /\ item.inserted = time
  BY <1>3, Zenon DEF ItemExpiration, Expiration
<1>5. PICK K \in SUBSET DOMAIN E : K = {k \in DOMAIN E : ~Same(E[k], item)}
  BY Zenon
<1>6. PICK r : r = retain(E, K)
  BY Zenon
<1>7. /\ r \in Seq(Expiration) /\ Len(r) = Cardinality(K)
      /\ \A i \in DOMAIN r : \E a \in K : r[i] = E[a]
      /\ \A a \in K : \E i \in DOMAIN r : r[i] = E[a]
      /\ \A i, j \in DOMAIN r : i < j => \E a, b \in K : a < b /\ r[i] = E[a] /\ r[j] = E[b]
  BY <1>6, RetainProperties
<1>8. PICK m \in Nat : m = Len(r) /\ DOMAIN r = 1 .. m
  BY <1>7
<1>9. PICK F : F = Append(r, item)
  BY Zenon
<1>10. /\ F \in Seq(Expiration) /\ Len(F) = m + 1 /\ DOMAIN F = 1 .. m + 1
       /\ F[m + 1] = item /\ \A i \in 1 .. m : F[i] = r[i]
  BY <1>4, <1>7, <1>8, <1>9
<1>11. PICK new : new = [st EXCEPT !.expires = UpdateExpiration(@, ItemExpiration(h, c, time))]
  BY Zenon
<1>a. PICK e \in DOMAIN E : E[e].hash = h /\ E[e].addr = c
  BY <1>1 DEF StoreOK, Listed
<1>12. new.storage = st.storage /\ new.expires = F
  BY <1>1, <1>3, <1>5, <1>6, <1>9, <1>11 DEF UpdateExpiration
<1>13. PICK ack2 : ack2 = [ack EXCEPT ![<<h, c>>] = time]
  BY Zenon
<1>14. /\ ack2[<<h, c>>] = time
       /\ \A g \in Hashes, d \in Contacts : g # h \/ d # c => ack2[<<g, d>>] = ack[<<g, d>>]
  <2>1. \A g \in Hashes, d \in Contacts : <<g, d>> \in Items
    BY Zenon DEF Items
  <2> QED
    BY <1>13, <2>1, Zenon
<1>15. \A k \in DOMAIN E : E[k].hash \in Hashes /\ E[k].addr \in Contacts /\ E[k].inserted \in Nat
  <2>1. \A k \in DOMAIN E : E[k] \in Expiration
    OBVIOUS
  <2> QED
    BY <2>1, Zenon DEF Expiration
<1>16. \A a \in K : ~Same(E[a], item) /\ (E[a].hash # h \/ E[a].addr # c) /\ a \in DOMAIN E
  BY <1>4, <1>5, Zenon DEF Same
<1>17. m + 1 <= MAX_ITEMS_STORED
  <2>1. IsFiniteSet(1 .. l) /\ Cardinality(1 .. l) = l
    BY FS_Interval
  <2>a. PICK D : D = 1 .. l
    BY Zenon
  <2>2. e \in D /\ K \in SUBSET (D \ {e})
    BY <1>2, <1>a, <1>16, <2>a, Zenon
  <2>3. IsFiniteSet(D \ {e}) /\ Cardinality(D \ {e}) = l - 1
    <3>1. IsFiniteSet(D) /\ Cardinality(D) = l
      BY <2>1, <2>a, Zenon
    <3> QED
      BY <2>2, <3>1, FS_RemoveElement, Zenon
  <2>4. Cardinality(K) <= l - 1
    BY <2>2, <2>3, FS_Subset
  <2>5. l <= MAX_ITEMS_STORED
    BY <1>1, <1>2, Zenon DEF StoreOK
  <2> QED
    BY <1>7, <1>8, <2>4, <2>5, MaxItemsNat
<1>18. ASSUME NEW j \in DOMAIN F, NEW k \in DOMAIN F, j < k
       PROVE  F[j].inserted <= F[k].inserted /\ ~Same(F[j], F[k])
  <2>1. j \in 1 .. m /\ F[j] = r[j]
    BY <1>10, <1>18
  <2>2. CASE k = m + 1
    <3>1. PICK a \in K : r[j] = E[a]
      BY <1>7, <1>8, <2>1, Zenon
    <3>2. E[a].inserted <= time
      BY <1>1, <1>16, Zenon DEF StoreOK
    <3> QED
      BY <1>4, <1>10, <1>16, <2>1, <2>2, <3>1, <3>2, Zenon
  <2>3. CASE k # m + 1
    <3>1. k \in 1 .. m /\ F[k] = r[k]
      BY <1>10, <2>3
    <3>2. PICK a \in K, b \in K : a < b /\ r[j] = E[a] /\ r[k] = E[b]
      BY <1>7, <1>8, <1>18, <2>1, <3>1
    <3>3. E[a].inserted <= E[b].inserted /\ ~Same(E[a], E[b])
      BY <1>1, <1>16, <3>2, Zenon DEF StoreOK
    <3> QED
      BY <2>1, <3>1, <3>2, <3>3, Zenon
  <2> QED
    BY <2>2, <2>3, Zenon
<1>19. ASSUME NEW k \in DOMAIN F
       PROVE  F[k].inserted = ack2[<<F[k].hash, F[k].addr>>] /\ F[k].inserted <= time
  <2>1. CASE k = m + 1
    BY <1>4, <1>10, <1>14, <2>1
  <2>2. CASE k # m + 1
    <3>1. k \in 1 .. m /\ F[k] = r[k]
      BY <1>10, <2>2
    <3>2. PICK a \in K : r[k] = E[a]
      BY <1>7, <1>8, <3>1, Zenon
    <3>3. E[a].inserted = ack[<<E[a].hash, E[a].addr>>] /\ E[a].inserted <= time
      BY <1>1, <1>16, Zenon DEF StoreOK
    <3> QED
      BY <1>14, <1>15, <1>16, <3>1, <3>2, <3>3, Zenon
  <2> QED
    BY <2>1, <2>2, Zenon
<1>20. ASSUME NEW g \in Hashes, NEW d \in Contacts
       PROVE  Listed(F, g, d) <=> Listed(E, g, d)
  <2>1. CASE g = h /\ d = c
    <3>1. m + 1 \in DOMAIN F
      BY <1>10
    <3> QED
      BY <1>4, <1>10, <1>a, <2>1, <3>1 DEF Listed
  <2>2. CASE ~(g = h /\ d = c)
    <3>1. ASSUME NEW k \in DOMAIN F, F[k].hash = g, F[k].addr = d
          PROVE  Listed(E, g, d)
      <4>1. k \in 1 .. m /\ F[k] = r[k]
        BY <1>4, <1>10, <2>2, <3>1
      <4>2. PICK a \in K : r[k] = E[a]
        BY <1>7, <1>8, <4>1, Zenon
      <4> QED
        BY <1>16, <3>1, <4>1, <4>2, Zenon DEF Listed
    <3>2. ASSUME NEW k \in DOMAIN E, E[k].hash = g, E[k].addr = d
          PROVE  Listed(F, g, d)
      <4>1. k \in K
        BY <1>4, <1>5, <2>2, <3>2, Zenon DEF Same
      <4>2. PICK i \in 1 .. m : r[i] = E[k]
        BY <1>7, <1>8, <4>1, Zenon
      <4>3. i \in DOMAIN F /\ F[i] = E[k]
        BY <1>10, <4>2
      <4> QED
        BY <3>2, <4>3, Zenon DEF Listed
    <3> QED
      BY <3>1, <3>2, Zenon DEF Listed
  <2> QED
    BY <2>1, <2>2, Zenon
<1>21. \A g \in Hashes, d \in Contacts : Stored(st.storage, g, d) <=> Listed(F, g, d)
  BY <1>1, <1>20, Zenon DEF StoreOK
<1>22. \A g \in Hashes, d \in Contacts : RecentAt(ack2, time, g, d) => Listed(F, g, d)
  <2> SUFFICES ASSUME NEW g \in Hashes, NEW d \in Contacts, RecentAt(ack2, time, g, d)
               PROVE  Listed(F, g, d)
    BY Zenon
  <2>1. CASE g = h /\ d = c
    BY <1>20, <1>a, <2>1 DEF Listed
  <2>2. CASE ~(g = h /\ d = c)
    BY <1>1, <1>14, <1>20, <2>2, Zenon DEF StoreOK, RecentAt
  <2> QED
    BY <2>1, <2>2, Zenon
<1>23. StoreOK(new, ack2, time)
  <2>1. /\ new.storage \in [Hashes -> Seq(Contacts)]
        /\ \A g \in Hashes : \A j, k \in DOMAIN new.storage[g] : new.storage[g][j] = new.storage[g][k] => j = k
    BY <1>12, Zenon DEF StoreOK
  <2> QED
    BY <1>10, <1>12, <1>17, <1>18, <1>19, <1>21, <1>22, <2>1, Zenon DEF StoreOK
<1> QED
  BY <1>11, <1>13, <1>23, Zenon

\* A new contact goes to the end of both lists.
LEMMA ExtendStore ==
    ASSUME NEW st, NEW ack, NEW time \in Nat, StoreOK(st, ack, time), ack \in [Items -> 0 .. time \cup {Never}],
           NEW h \in Hashes, NEW c \in Contacts, ~Stored(st.storage, h, c), Len(st.expires) < MAX_ITEMS_STORED
    PROVE  StoreOK([storage |-> [st.storage EXCEPT ![h] = Append(@, c)],
                    expires |-> Append(st.expires, ItemExpiration(h, c, time))],
                   [ack EXCEPT ![<<h, c>>] = time], time)
<1>1. PICK E \in Seq(Expiration) : E = st.expires
  BY Zenon DEF StoreOK
<1>2. PICK l \in Nat : l = Len(E) /\ DOMAIN E = 1 .. l
  OBVIOUS
<1>3. PICK item : item = ItemExpiration(h, c, time)
  BY Zenon
<1>4. item \in Expiration /\ item.hash = h /\ item.addr = c /\ item.inserted = time
  BY <1>3, Zenon DEF ItemExpiration, Expiration
<1>5. PICK F : F = Append(E, item)
  BY Zenon
<1>6. /\ F \in Seq(Expiration) /\ Len(F) = l + 1 /\ DOMAIN F = 1 .. l + 1
      /\ F[l + 1] = item /\ \A i \in 1 .. l : F[i] = E[i]
  BY <1>2, <1>4, <1>5
<1>7. PICK S : S = [st.storage EXCEPT ![h] = Append(@, c)]
  BY Zenon
<1>8. PICK ack2 : ack2 = [ack EXCEPT ![<<h, c>>] = time]
  BY Zenon
<1>9. /\ ack2[<<h, c>>] = time
      /\ \A g \in Hashes, d \in Contacts : g # h \/ d # c => ack2[<<g, d>>] = ack[<<g, d>>]
  <2>1. \A g \in Hashes, d \in Contacts : <<g, d>> \in Items
    BY Zenon DEF Items
  <2> QED
    BY <1>8, <2>1, Zenon
<1>10. \A k \in 1 .. l : E[k].hash \in Hashes /\ E[k].addr \in Contacts /\ E[k].inserted \in Nat
  <2>1. \A k \in 1 .. l : E[k] \in Expiration
    BY <1>2
  <2> QED
    BY <2>1, Zenon DEF Expiration
<1>11. \A k \in 1 .. l : ~(E[k].hash = h /\ E[k].addr = c)
  BY <1>1, <1>2, Zenon DEF StoreOK, Listed
<1>12. PICK s \in Seq(Contacts) : s = st.storage[h]
  BY Zenon DEF StoreOK
<1>13. PICK t : t = Append(s, c)
  BY Zenon
<1>14. /\ t \in Seq(Contacts) /\ DOMAIN s = 1 .. Len(s) /\ Len(s) \in Nat
       /\ DOMAIN t = 1 .. Len(s) + 1 /\ t[Len(s) + 1] = c /\ \A k \in 1 .. Len(s) : t[k] = s[k]
  BY <1>13
<1>15. /\ S[h] = t /\ \A g \in Hashes : g # h => S[g] = st.storage[g]
       /\ S \in [Hashes -> Seq(Contacts)]
  BY <1>7, <1>12, <1>13, <1>14, Zenon DEF StoreOK
<1>16. ASSUME NEW g \in Hashes, NEW j \in DOMAIN S[g], NEW k \in DOMAIN S[g], S[g][j] = S[g][k]
       PROVE  j = k
  <2>1. CASE g # h
    BY <1>15, <1>16, <2>1, Zenon DEF StoreOK
  <2>2. CASE g = h
    <3>1. \A i \in 1 .. Len(s) : s[i] # c
      BY <1>12, <1>14, Zenon DEF Stored
    <3>2. \A a, b \in 1 .. Len(s) : s[a] = s[b] => a = b
      BY <1>12, <1>14 DEF StoreOK
    <3>3. PICK n \in Nat : n = Len(s)
      BY <1>14, Zenon
    <3>4. j \in 1 .. n + 1 /\ k \in 1 .. n + 1 /\ t[j] = t[k]
      BY <1>14, <1>15, <1>16, <2>2, <3>3, Zenon
    <3>5. /\ j \in 1 .. n \/ j = n + 1
          /\ k \in 1 .. n \/ k = n + 1
      BY <3>4
    <3>6. t[n + 1] = c /\ \A x \in 1 .. n : t[x] = s[x] /\ s[x] # c
      BY <1>14, <3>1, <3>3, Zenon
    <3> QED
      BY <3>2, <3>3, <3>4, <3>5, <3>6, Zenon
  <2> QED
    BY <2>1, <2>2, Zenon
<1>17. ASSUME NEW g \in Hashes, NEW d \in Contacts
       PROVE  /\ Stored(S, g, d) <=> Stored(st.storage, g, d) \/ (g = h /\ d = c)
              /\ Listed(F, g, d) <=> Listed(E, g, d) \/ (g = h /\ d = c)
  <2>1. CASE g # h
    <3>1. Stored(S, g, d) <=> Stored(st.storage, g, d)
      BY <1>15, <2>1, Zenon DEF Stored
    <3>2. Listed(F, g, d) <=> Listed(E, g, d)
      <4>1. \A k \in 1 .. l + 1 : k \in 1 .. l \/ k = l + 1
        OBVIOUS
      <4>2. \A k \in 1 .. l : k \in 1 .. l + 1
        OBVIOUS
      <4> QED
        BY <1>2, <1>4, <1>6, <2>1, <4>1, <4>2 DEF Listed
    <3> QED
      BY <2>1, <3>1, <3>2, Zenon
  <2>2. CASE g = h
    <3>1. (\E k \in DOMAIN t : t[k] = d) <=> (\E k \in DOMAIN s : s[k] = d) \/ d = c
      <4>1. PICK n \in Nat : n = Len(s)
        BY <1>14, Zenon
      <4>2. \A k \in 1 .. n + 1 : k \in 1 .. n \/ k = n + 1
        OBVIOUS
      <4>3. n + 1 \in 1 .. n + 1 /\ \A k \in 1 .. n : k \in 1 .. n + 1
        OBVIOUS
      <4>4. DOMAIN s = 1 .. n /\ DOMAIN t = 1 .. n + 1
        BY <1>14, <4>1, Zenon
      <4>5. t[n + 1] = c /\ \A k \in 1 .. n : t[k] = s[k]
        BY <1>14, <4>1, Zenon
      <4> QED
        BY <4>2, <4>3, <4>4, <4>5, Zenon
    <3>2. Stored(S, g, d) <=> Stored(st.storage, g, d) \/ d = c
      BY <1>12, <1>15, <2>2, <3>1 DEF Stored
    <3>3. (\E k \in DOMAIN F : F[k].hash = h /\ F[k].addr = d)
            <=> (\E k \in DOMAIN E : E[k].hash = h /\ E[k].addr = d) \/ d = c
      <4>1. \A k \in 1 .. l + 1 : k \in 1 .. l \/ k = l + 1
        OBVIOUS
      <4>2. l + 1 \in 1 .. l + 1 /\ \A k \in 1 .. l : k \in 1 .. l + 1
        BY <1>2
      <4>3. F[l + 1].hash = h /\ F[l + 1].addr = c
        BY <1>4, <1>6, Zenon
      <4> QED
        BY <1>2, <1>6, <4>1, <4>2, <4>3, Zenon
    <3> QED
      BY <2>2, <3>2, <3>3, Zenon DEF Listed
  <2> QED
    BY <2>1, <2>2, Zenon
<1>18. ASSUME NEW j \in DOMAIN F, NEW k \in DOMAIN F, j < k
       PROVE  F[j].inserted <= F[k].inserted /\ ~Same(F[j], F[k])
  <2>1. j \in 1 .. l /\ F[j] = E[j]
    BY <1>6, <1>18
  <2>2. CASE k = l + 1
    <3>1. E[j].inserted <= time
      BY <1>1, <1>2, <2>1, Zenon DEF StoreOK
    <3> QED
      BY <1>4, <1>6, <1>11, <2>1, <2>2, <3>1, Zenon DEF Same
  <2>3. CASE k # l + 1
    <3>1. k \in 1 .. l /\ F[k] = E[k]
      BY <1>6, <2>3
    <3> QED
      BY <1>1, <1>2, <1>18, <2>1, <3>1, Zenon DEF StoreOK
  <2> QED
    BY <2>2, <2>3, Zenon
<1>19. ASSUME NEW k \in DOMAIN F
       PROVE  F[k].inserted = ack2[<<F[k].hash, F[k].addr>>] /\ F[k].inserted <= time
  <2>1. CASE k = l + 1
    <3>1. F[k] = item
      BY <1>6, <2>1, Zenon
    <3>2. F[k].inserted = time /\ ack2[<<F[k].hash, F[k].addr>>] = time
      BY <1>4, <1>9, <3>1, Zenon
    <3> QED
      BY <3>2
  <2>2. CASE k # l + 1
    <3>1. k \in 1 .. l /\ F[k] = E[k]
      BY <1>6, <2>2
    <3>2. E[k].inserted = ack[<<E[k].hash, E[k].addr>>] /\ E[k].inserted <= time
      BY <1>1, <1>2, <3>1, Zenon DEF StoreOK
    <3> QED
      BY <1>9, <1>10, <1>11, <3>1, <3>2
  <2> QED
    BY <2>1, <2>2, Zenon
<1>20. \A g \in Hashes, d \in Contacts : Stored(S, g, d) <=> Listed(F, g, d)
  BY <1>1, <1>17, Zenon DEF StoreOK
<1>21. \A g \in Hashes, d \in Contacts : RecentAt(ack2, time, g, d) => Listed(F, g, d)
  BY <1>1, <1>9, <1>17, Zenon DEF StoreOK, RecentAt
<1>22. l + 1 <= MAX_ITEMS_STORED
  BY <1>1, <1>2, MaxItemsNat
<1>23. StoreOK([storage |-> S, expires |-> F], ack2, time)
  BY <1>6, <1>15, <1>16, <1>18, <1>19, <1>20, <1>21, <1>22, Zenon DEF StoreOK
<1> QED
  BY <1>1, <1>3, <1>5, <1>7, <1>8, <1>23

\* add keeps the store in order, whichever way insert_contact goes.
LEMMA AddKeepsStore ==
    ASSUME NEW store, NEW ack, NEW time \in Nat, StoreOK(store, ack, time),
           ack \in [Items -> 0 .. time \cup {Never}], NEW h \in Hashes, NEW c \in Contacts
    PROVE  LET r == add(store, h, c, time)
           IN StoreOK(r.store, IF r.added THEN [ack EXCEPT ![<<h, c>>] = time] ELSE ack, time)
<1>1. PICK st : st = remove_expired_items(store, time)
  BY Zenon
<1>2. StoreOK(st, ack, time)
  BY <1>1, CleanStore, Zenon
<1>3. PICK r : r = add(store, h, c, time)
  BY Zenon
<1>4. CASE ~can_store(Stored(st.storage, h, c), st.expires)
  <2>1. r = [store |-> st, added |-> FALSE]
    BY <1>1, <1>3, <1>4, Zenon DEF add, Stored
  <2> QED
    BY <1>2, <1>3, <2>1
<1>5. CASE Stored(st.storage, h, c)
  <2>1. r = [store |-> [st EXCEPT !.expires = UpdateExpiration(@, ItemExpiration(h, c, time))], added |-> TRUE]
    BY <1>1, <1>3, <1>5, Zenon DEF add, Stored, can_store
  <2>2. r.store = [st EXCEPT !.expires = UpdateExpiration(@, ItemExpiration(h, c, time))] /\ r.added
    BY <2>1, Zenon
  <2>3. StoreOK(r.store, [ack EXCEPT ![<<h, c>>] = time], time)
    <3>1. StoreOK([st EXCEPT !.expires = UpdateExpiration(@, ItemExpiration(h, c, time))],
                  [ack EXCEPT ![<<h, c>>] = time], time)
      BY <1>2, <1>5, RenewStore, Zenon
    <3> QED
      BY <2>2, <3>1, Zenon
  <2> QED
    BY <1>3, <2>2, <2>3, Zenon
<1>6. CASE ~Stored(st.storage, h, c) /\ Len(st.expires) < MAX_ITEMS_STORED
  <2>1. r = [store |-> [storage |-> [st.storage EXCEPT ![h] = Append(@, c)],
                        expires |-> Append(st.expires, ItemExpiration(h, c, time))], added |-> TRUE]
    BY <1>1, <1>3, <1>6, Zenon DEF add, Stored, can_store
  <2>2. /\ r.store = [storage |-> [st.storage EXCEPT ![h] = Append(@, c)],
                       expires |-> Append(st.expires, ItemExpiration(h, c, time))]
        /\ r.added
    BY <2>1, Zenon
  <2>3. StoreOK(r.store, [ack EXCEPT ![<<h, c>>] = time], time)
    BY <1>2, <1>6, <2>2, ExtendStore, Zenon
  <2> QED
    BY <1>3, <2>2, <2>3, Zenon
<1> QED
  BY <1>4, <1>5, <1>6, Zenon DEF can_store

LEMMA AnnouncePeerKeepsStore ==
    ASSUME AnnounceInvariant, NEW ip \in Ips, NEW port \in Ports, NEW h \in Hashes, NEW i \in issued,
           AnnouncePeer(ip, port, h, i.token)
    PROVE  StoreOK(active_stores, acknowledged, now)'
<1>1. PICK c \in Contacts : c = <<ip, port>>
  BY Zenon DEF Contacts
<1>2. PICK r : r = add(active_stores, h, c, now)
  BY Zenon
<1>3. now \in Nat /\ now' = now
  BY Zenon DEF AnnouncePeer, checkin, AnnounceInvariant, TokenInvariant, TokenTypeOK
<1>4. StoreOK(r.store, IF r.added THEN [acknowledged EXCEPT ![<<h, c>>] = now] ELSE acknowledged, now)
  BY <1>2, <1>3, AddKeepsStore, Zenon DEF AnnounceInvariant
<1>5. \/ UNCHANGED <<active_stores, acknowledged>>
      \/ r.added /\ active_stores' = r.store /\ acknowledged' = [acknowledged EXCEPT ![<<h, c>>] = now]
      \/ ~r.added /\ active_stores' = r.store /\ acknowledged' = acknowledged
  BY <1>1, <1>2, Zenon DEF AnnouncePeer
<1>6. StoreOK(active_stores', acknowledged', now)
  BY <1>4, <1>5, Zenon DEF AnnounceInvariant
<1> QED
  BY <1>3, <1>6 DEF StoreOK, Listed, Stored, RecentAt, Same

\* Time passes and requests for contacts are served: nothing is acknowledged.
LEMMA StoreAges ==
    ASSUME AnnounceInvariant,
           \/ Tick /\ UNCHANGED <<active_stores, acknowledged>>
           \/ \E ip \in Ips, h \in Hashes : GetPeers(ip, h)
    PROVE  StoreOK(active_stores, acknowledged, now)'
<1>1. now \in Nat /\ StoreOK(active_stores, acknowledged, now)
  BY Zenon DEF AnnounceInvariant, TokenInvariant, TokenTypeOK
<1>2. CASE Tick /\ UNCHANGED <<active_stores, acknowledged>>
  <2>1. now' = now + 1
    BY <1>2, Zenon DEF Tick
  <2>2. ASSUME NEW h \in Hashes, NEW c \in Contacts, RecentAt(acknowledged, now + 1, h, c)
        PROVE  RecentAt(acknowledged, now, h, c)
    <3>1. acknowledged[<<h, c>>] \in 0 .. now \cup {Never}
      BY Zenon DEF AnnounceInvariant, Items
    <3>2. acknowledged[<<h, c>>] \in Int
      BY <1>1, <3>1 DEF Never
    <3> QED
      BY <1>1, <2>2, <3>2, ExpirationTimePos DEF RecentAt
  <2>3. StoreOK(active_stores, acknowledged, now + 1)
    <3>1. \A k \in DOMAIN active_stores.expires : active_stores.expires[k].inserted <= now + 1
      <4>1. \A k \in DOMAIN active_stores.expires : active_stores.expires[k] \in Expiration
        BY <1>1 DEF StoreOK
      <4>2. \A k \in DOMAIN active_stores.expires : active_stores.expires[k].inserted \in Nat
        BY <4>1, Zenon DEF Expiration
      <4>3. \A k \in DOMAIN active_stores.expires : active_stores.expires[k].inserted <= now
        BY <1>1, Zenon DEF StoreOK
      <4> QED
        BY <1>1, <4>2, <4>3
    <3> QED
      BY <1>1, <2>2, <3>1, Zenon DEF StoreOK
  <2> QED
    BY <1>2, <2>1, <2>3 DEF StoreOK, Listed, Stored, RecentAt, Same
<1>3. CASE \E ip \in Ips, h \in Hashes : GetPeers(ip, h)
  <2>1. PICK ip \in Ips, h \in Hashes : GetPeers(ip, h)
    BY <1>3, Zenon
  <2>2. active_stores' = remove_expired_items(active_stores, now)
    BY <2>1, Zenon DEF GetPeers, find
  <2>3. now' = now /\ acknowledged' = acknowledged
    BY <2>1, Zenon DEF GetPeers, checkout
  <2>4. StoreOK(active_stores', acknowledged, now)
    BY <1>1, <2>2, CleanStore, Zenon
  <2> QED
    BY <2>3, <2>4 DEF StoreOK, Listed, Stored, RecentAt, Same
<1> QED
  BY <1>2, <1>3, Zenon

LEMMA AnnouncePeerKeepsTokens ==
    ASSUME AnnounceInvariant, NEW ip \in Ips, NEW port \in Ports, NEW h \in Hashes, NEW i \in issued,
           AnnouncePeer(ip, port, h, i.token)
    PROVE  /\ acknowledged' \in [Items -> 0 .. now' \cup {Never}]
           /\ AnnouncedHadToken'
<1> DEFINE item == <<h, <<ip, port>>>>
<1>1. PICK valid \in BOOLEAN :
        /\ checkin(ip, i.token, valid)
        /\ \/ UNCHANGED acknowledged
           \/ valid /\ acknowledged' = [acknowledged EXCEPT ![item] = now]
  BY Zenon DEF AnnouncePeer
<1>2. UNCHANGED <<now, issued>> /\ now \in Nat
  BY <1>1, Zenon DEF checkin, AnnounceInvariant, TokenInvariant, TokenTypeOK
<1>3. CASE UNCHANGED acknowledged
  BY <1>2, <1>3 DEF AnnounceInvariant, AnnouncedHadToken, HadToken
<1>4. CASE valid /\ acknowledged' = [acknowledged EXCEPT ![item] = now]
  <2>1. HadToken(ip, now)
    BY <1>1, <1>4, ValidWasIssued, Zenon DEF AnnounceInvariant
  <2>2. item \in Items
    BY Zenon DEF Items, Contacts
  <2>3. acknowledged' \in [Items -> 0 .. now' \cup {Never}]
    <3>1. now \in 0 .. now \cup {Never}
      BY <1>2
    <3> QED
      BY <1>2, <1>4, <3>1, Zenon DEF AnnounceInvariant
  <2>4. ASSUME NEW g \in Hashes, NEW p \in Ips, NEW q \in Ports, acknowledged'[<<g, <<p, q>>>>] # Never
        PROVE  HadToken(p, acknowledged'[<<g, <<p, q>>>>])
    <3>1. <<g, <<p, q>>>> \in Items
      BY DEF Items, Contacts
    <3>2. CASE <<g, <<p, q>>>> = item
      BY <1>4, <2>1, <2>2, <3>2, Zenon DEF AnnounceInvariant
    <3>3. CASE <<g, <<p, q>>>> # item
      BY <1>4, <2>4, <3>1, <3>3, Zenon DEF AnnounceInvariant, AnnouncedHadToken
    <3> QED
      BY <3>2, <3>3, Zenon
  <2> QED
    BY <1>2, <2>3, <2>4, Zenon DEF AnnouncedHadToken, HadToken
<1> QED
  BY <1>1, <1>3, <1>4, Zenon

\* The invariant of the handler: the ages of the tokens, and how the two halves
\* of the announce storage belong together.
THEOREM AnnouncesAreKept == Spec => []AnnounceInvariant
<1>1. Init => AnnounceInvariant
  <2> SUFFICES ASSUME Init
               PROVE  AnnounceInvariant
    BY Zenon
  <2>1. TokenInvariant
    BY DEF Init, TokenInit, TokenInvariant, TokenTypeOK
  <2>2. acknowledged = [x \in Items |-> Never] /\ active_stores = EmptyStore /\ now = 0
    BY Zenon DEF Init, TokenInit
  <2>3. AnnouncedHadToken /\ acknowledged \in [Items -> 0 .. now \cup {Never}]
    BY <2>2, Zenon DEF AnnouncedHadToken, Items, Contacts
  <2>4. StoreOK(active_stores, acknowledged, now)
    <3>1. /\ active_stores.expires = <<>> /\ active_stores.storage = [h \in Hashes |-> <<>>]
          /\ \A h \in Hashes, c \in Contacts : acknowledged[<<h, c>>] = Never
      BY <2>2, Zenon DEF EmptyStore, Items
    <3> QED
      BY <3>1, MaxItemsNat DEF StoreOK, Listed, Stored, RecentAt
  <2> QED
    BY <2>1, <2>3, <2>4, Zenon DEF AnnounceInvariant
<1>2. AnnounceInvariant /\ [Next]_vars => AnnounceInvariant'
  <2> SUFFICES ASSUME AnnounceInvariant, [Next]_vars
               PROVE  AnnounceInvariant'
    BY Zenon
  <2>1. TokenInvariant'
    BY StepIsTokenStep, TokenStepKeepsAges, Zenon DEF AnnounceInvariant
  <2>2. ASSUME UNCHANGED acknowledged, now' \in Nat, now <= now'
        PROVE  /\ acknowledged' \in [Items -> 0 .. now' \cup {Never}]
               /\ AnnouncedHadToken'
    <3>1. now \in Nat
      BY Zenon DEF AnnounceInvariant, TokenInvariant, TokenTypeOK
    <3>2. 0 .. now \cup {Never} \subseteq 0 .. now' \cup {Never}
      BY <2>2, <3>1
    <3> QED
      BY <2>2, <3>2, IssuedGrows, Zenon DEF AnnounceInvariant, AnnouncedHadToken, HadToken
  <2>3. ASSUME NEW ip \in Ips, NEW port \in Ports, NEW h \in Hashes, NEW i \in issued,
               AnnouncePeer(ip, port, h, i.token)
        PROVE  AnnounceInvariant'
    BY <2>1, <2>3, AnnouncePeerKeepsTokens, AnnouncePeerKeepsStore, Zenon DEF AnnounceInvariant
  <2>4. CASE \/ Tick /\ UNCHANGED <<active_stores, acknowledged>>
             \/ \E ip \in Ips, h \in Hashes : GetPeers(ip, h)
    <3>1. StoreOK(active_stores, acknowledged, now)'
      BY <2>4, StoreAges, Zenon
    <3>2. UNCHANGED acknowledged /\ now' \in Nat /\ now <= now'
      BY <2>4 DEF GetPeers, checkout, Tick, AnnounceInvariant, TokenInvariant, TokenTypeOK
    <3> QED
      BY <2>1, <2>2, <3>1, <3>2, Zenon DEF AnnounceInvariant
  <2>5. CASE UNCHANGED vars
    <3>1. UNCHANGED <<active_stores, acknowledged, now, issued>> /\ now \in Nat
      BY <2>5, Zenon DEF vars, tokenVars, AnnounceInvariant, TokenInvariant, TokenTypeOK
    <3>2. StoreOK(active_stores, acknowledged, now)'
      BY <3>1 DEF AnnounceInvariant, StoreOK, Listed, Stored, RecentAt, Same
    <3> QED
      BY <2>1, <2>2, <3>1, <3>2 DEF AnnounceInvariant
  <2> QED
    BY <2>3, <2>4, <2>5, Zenon DEF Next
<1> QED
  BY <1>1, <1>2, PTL DEF Spec

\* An announcement is acknowledged only to a node that was itself given a token
\* (handler.rs, announce_peer), less than three refresh intervals before.
THEOREM AnnouncedHadTokens == Spec => []AnnouncedHadToken
<1>1. AnnounceInvariant => AnnouncedHadToken
  BY Zenon DEF AnnounceInvariant
<1> QED
  BY <1>1, AnnouncesAreKept, PTL

\* The announce storage (storage.rs): a get_peers request is told exactly the
\* contacts acknowledged in the last 24 hours, each once, and an announcement is
\* refused only when the storage is full of such contacts and holds this one not.
THEOREM StorageStaysExact == Spec => []StorageIsExact
<1>1. AnnounceInvariant => StorageIsExact
  <2> SUFFICES ASSUME AnnounceInvariant
               PROVE  StorageIsExact
    BY Zenon
  <2>1. now \in Nat /\ StoreOK(active_stores, acknowledged, now) /\ TokenTypeOK
    BY Zenon DEF AnnounceInvariant, TokenInvariant, TokenTypeOK
  <2>2. TypeOK
    <3>1. \A e \in Expirations : e.hash \in Hashes /\ e.addr \in Contacts /\ e.inserted \in 0 .. now
      <4>1. ASSUME NEW e \in Expirations
            PROVE  e.hash \in Hashes /\ e.addr \in Contacts /\ e.inserted \in 0 .. now
        <5>1. PICK k \in DOMAIN active_stores.expires : e = active_stores.expires[k]
          BY Zenon DEF Expirations, Range
        <5>2. e \in Expiration
          BY <2>1, <5>1 DEF StoreOK
        <5>3. e.inserted <= now
          BY <2>1, <5>1, Zenon DEF StoreOK
        <5> QED
          BY <2>1, <5>2, <5>3 DEF Expiration
      <4> QED
        BY <4>1, Zenon
    <3>2. active_stores.storage \in [Hashes -> Seq(Contacts)] /\ Len(active_stores.expires) <= MAX_ITEMS_STORED
      BY <2>1, Zenon DEF StoreOK
    <3> QED
      BY <2>1, <3>1, <3>2, Zenon DEF TypeOK, AnnounceInvariant
  <2>3. \A h \in Hashes :
          LET items == find(active_stores, h, now).items
          IN Range(items) = Recent(h) /\ Len(items) = Cardinality(Recent(h))
    BY <2>1, FindIsExact, Zenon
  <2>4. \A h \in Hashes, c \in Contacts : ~add(active_stores, h, c, now).added =>
          /\ c \notin Recent(h)
          /\ Cardinality({x \in Items : x[2] \in Recent(x[1])}) = MAX_ITEMS_STORED
    BY <2>1, RefusedWhenFull, Zenon
  <2> QED
    BY <2>2, <2>3, <2>4, Zenon DEF StorageIsExact
<1> QED
  BY <1>1, AnnouncesAreKept, PTL
=============================================================================
