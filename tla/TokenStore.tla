----------------------------- MODULE TokenStore -----------------------------
(***************************************************************************)
(* bip_dht: the tokens a node must present to announce itself (token.rs).  *)
(* A token is a hash of the node's ip and the current secret; tokens are   *)
(* not stored, and the secrets are refreshed lazily, by the next request   *)
(* that needs them.  A random secret is a fresh number: two draws of a     *)
(* 32 bit secret are taken to differ.  Time does not run backwards.        *)
(***************************************************************************)
EXTENDS Integers, FiniteSets

CONSTANTS
    Ips,                \* ip addresses of nodes
    RefreshInterval,    \* REFRESH_INTERVAL_MINS, in ticks of the clock
    MaxTime,            \* bound: the clock stops here
    MaxIssued           \* bound: number of tokens handed out

ASSUME RefreshIntervalPos == RefreshInterval \in Nat \ {0}
ASSUME TokenBounds == MaxTime \in Nat /\ MaxIssued \in Nat

VARIABLES
    now,            \* UTC::now()
    curr_secret,
    last_secret,
    last_refresh,
    drawn,          \* number of secrets drawn so far
    issued          \* history: the tokens given out and when

secretVars == <<curr_secret, last_secret, last_refresh, drawn>>
tokenVars  == <<now, curr_secret, last_secret, last_refresh, drawn, issued>>

Token(ip, secret) == [ip |-> ip, secret |-> secret]

TokenInit ==
    /\ now = 0
    /\ curr_secret = 1 /\ last_secret = 2 /\ drawn = 2
    /\ last_refresh = now
    /\ issued = {}

\* Zero, one, or more (2) intervals.
intervals_passed ==
    IF now - last_refresh < RefreshInterval THEN 0
    ELSE IF now - last_refresh < 2 * RefreshInterval THEN 1 ELSE 2

\* Both secrets are replaced whenever an interval has passed.
refresh_check_Slip ==
    \/ intervals_passed = 0 /\ UNCHANGED secretVars
    \/ /\ intervals_passed # 0
       /\ last_secret' = drawn + 1 /\ curr_secret' = drawn + 2 /\ drawn' = drawn + 2
       /\ last_refresh' = now

refresh_check ==
    \/ intervals_passed = 0 /\ UNCHANGED secretVars
    \/ /\ intervals_passed = 1
       /\ last_secret' = curr_secret /\ curr_secret' = drawn + 1 /\ drawn' = drawn + 1
       /\ last_refresh' = now
    \/ /\ intervals_passed = 2
       /\ last_secret' = drawn + 1 /\ curr_secret' = drawn + 2 /\ drawn' = drawn + 2
       /\ last_refresh' = now

\* checkout: the token for ip under the secret that is current afterwards.
checkout(ip) ==
    /\ refresh_check
    /\ issued' = issued \cup {[token |-> Token(ip, curr_secret'), at |-> now]}
    /\ UNCHANGED now

validate_token_from_addr(ip, token, curr, last) == token \in {Token(ip, curr), Token(ip, last)}

\* checkin: valid says whether the token is accepted.
checkin(ip, token, valid) ==
    /\ refresh_check
    /\ valid = validate_token_from_addr(ip, token, curr_secret', last_secret')
    /\ UNCHANGED <<now, issued>>

Tick ==
    /\ now < MaxTime
    /\ now' = now + 1
    /\ UNCHANGED <<secretVars, issued>>

Checkout == \E ip \in Ips : Cardinality(issued) < MaxIssued /\ checkout(ip)
Checkin  == \E ip \in Ips, i \in issued, valid \in BOOLEAN : checkin(ip, i.token, valid)

TokenNext == Checkout \/ Checkin \/ Tick

\* What the token store does on its own.  The handler that serves get_peers and
\* announce_peer (DhtAnnounce) uses it in no other way: it checks tokens out and
\* in, each time after a look at the clock, so that what is proved of TokenSpec
\* holds for the tokens in the handler's answers.
TokenSpec == TokenInit /\ [][TokenNext]_tokenVars

(***************************************************************************)
(* Properties.                                                             *)
(***************************************************************************)
TokenTypeOK ==
    /\ now \in Nat /\ last_refresh \in 0 .. now
    /\ drawn \in Nat
    /\ curr_secret \in 1 .. drawn /\ last_secret \in 1 .. drawn
    /\ issued \subseteq [token : [ip : Ips, secret : 1 .. drawn], at : 0 .. now]

\* Whether a token would be accepted from the node it was given to, if it
\* came now: the secrets that refresh_check would leave, the fresh ones aside.
Accepted(token) ==
    \/ token.secret = curr_secret /\ intervals_passed < 2
    \/ token.secret = last_secret /\ intervals_passed = 0

\* "Tokens up to 10 minutes old will be accepted": whenever requests refresh
\* the secrets, a token is accepted for a whole interval.
RecentTokenAccepted ==
    \A i \in issued : now - i.at <= RefreshInterval => Accepted(i.token)

\* No token is accepted for three intervals.  (The documentation says that a
\* token is valid for up to 20 minutes; the lazy refresh makes it 30.)
TokenLifetime ==
    \A i \in issued : Accepted(i.token) => now - i.at < 3 * RefreshInterval

(***************************************************************************)
(* The inductive invariant: the secret of a token tells when the token was *)
(* issued.                                                                 *)
(***************************************************************************)
Aged(i) ==
    \/ /\ i.token.secret = curr_secret
       /\ last_refresh <= i.at /\ i.at < last_refresh + RefreshInterval
    \/ /\ i.token.secret = last_secret
       /\ last_refresh - 2 * RefreshInterval < i.at /\ i.at < last_refresh
    \/ /\ i.token.secret \notin {curr_secret, last_secret}
       /\ i.at + RefreshInterval < last_refresh

TokenInvariant == TokenTypeOK /\ curr_secret # last_secret /\ \A i \in issued : Aged(i)
=============================================================================
