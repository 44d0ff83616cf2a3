----------------------------- MODULE PqPskProof -----------------------------
(***************************************************************************)
(* What two TLS 1.3 peers with the post_quantum_pre_shared_key extension   *)
(* agree on, proved for every set of identities, every configuration of    *)
(* the two sides, every sequence of policy changes and every message of a  *)
(* peer that does not run this code.                                       *)
(***************************************************************************)
EXTENDS PqPsk, WellFoundedInduction, TLAPS

\* The inductive part of AgreementInv; FlagRepeated and PeersAgree follow.
IInv == /\ TypeOK
        /\ StreamsInv
        /\ ClientDecision /\ ClientProgress
        /\ ServerDecision /\ ServerProgress

-----------------------------------------------------------------------------
(* Streams *)

\* Taking the first record off a stream leaves the others.
LEMMA TakenOff ==
    ASSUME NEW S, NEW s \in Seq(S), s # <<>>
    PROVE  /\ Head(s) \in S
           /\ Head(s) \in Elements(s)
           /\ Tail(s) \in Seq(S)
           /\ Elements(Tail(s)) \subseteq Elements(s)
<1>1. Head(s) \in S /\ Tail(s) \in Seq(S) /\ Head(s) = s[1] /\ 1 \in DOMAIN s
  OBVIOUS
<1>2. \A i \in DOMAIN Tail(s) : i + 1 \in DOMAIN s /\ Tail(s)[i] = s[i + 1]
  OBVIOUS
<1> QED BY <1>1, <1>2 DEF Elements

\* A stream after something is sent on it.
LEMMA PutOn ==
    ASSUME NEW S, NEW s \in Seq(S), NEW out \in Seq(S)
    PROVE  /\ s \o out \in Seq(S)
           /\ Elements(s \o out) \subseteq Elements(s) \cup Elements(out)
<1>1. s \o out \in Seq(S) OBVIOUS
<1>2. ASSUME NEW i \in DOMAIN (s \o out)
      PROVE  \/ i \in DOMAIN s /\ (s \o out)[i] = s[i]
             \/ i - Len(s) \in DOMAIN out /\ (s \o out)[i] = out[i - Len(s)]
  OBVIOUS
<1> QED BY <1>1, <1>2 DEF Elements

LEMMA NothingSent ==
    ASSUME NEW S PROVE <<>> \in Seq(S) /\ Elements(<<>>) = {}
  BY DEF Elements

LEMMA OneSent ==
    ASSUME NEW S, NEW m \in S PROVE <<m>> \in Seq(S) /\ Elements(<<m>>) = {m}
  BY DEF Elements

LEMMA TwoSent ==
    ASSUME NEW S, NEW m \in S, NEW n \in S
    PROVE  <<m, n>> \in Seq(S) /\ Elements(<<m, n>>) = {m, n}
<1>1. <<m, n>> \in Seq(S) /\ DOMAIN <<m, n>> = {1, 2}
      /\ <<m, n>>[1] = m /\ <<m, n>>[2] = n
  OBVIOUS
<1> QED BY <1>1 DEF Elements

-----------------------------------------------------------------------------
(* The two named conjuncts of AgreementInv follow from the others. *)

LEMMA Consequences == ASSUME IInv PROVE FlagRepeated /\ PeersAgree
<1> USE DEF IInv
<1>1. FlagRepeated
  <2> SUFFICES ASSUME Honest, server.st = "client_hello_again", toS # <<>>,
                      Head(toS).type = "CH"
               PROVE  (Head(toS).flag = "yes") = server.offered
    BY DEF FlagRepeated
  <2>1. FromClient(Head(toS))
    BY TakenOff, Zenon DEF TypeOK, StreamsInv
  <2>2. Head(toS).flag = IF client.offered THEN "yes" ELSE "no"
    BY <2>1 DEF FromClient, Honest
  <2>3. server.offered = client.offered
    BY DEF ServerProgress, ServerDecision
  <2>4. client.offered \in BOOLEAN /\ server.offered \in BOOLEAN
    BY DEF TypeOK, ClientConns, ServerConns
  <2> QED BY <2>2, <2>3, <2>4
<1>2. PeersAgree
  <2> SUFFICES ASSUME BothOver
               PROVE  /\ client.negotiated = server.negotiated
                      /\ client.psk = server.psk
                      /\ client.mode = server.mode
                      /\ client.offered = server.offered
    BY DEF PeersAgree
  <2>1. Honest /\ odd.side # "server" /\ client.st = "over" /\ server.st = "over"
    BY DEF BothOver, Honest
  <2>2. Decided(client) /\ Decided(server)
    BY <2>1 DEF ClientProgress, ServerProgress
  <2> QED BY <2>1, <2>2 DEF ClientProgress, ServerDecision
<1> QED BY <1>1, <1>2

-----------------------------------------------------------------------------
(* The PSK list of the second ClientHello *)

\* Every nonempty set of naturals has a least element.
LEMMA LeastElement ==
    ASSUME NEW T, T \subseteq Nat, T # {}
    PROVE  \E x \in T : \A y \in T : ~ (y < x)
<1>1. PICK x \in T : \A y \in T : ~ (<<y, x>> \in OpToRel(<, Nat))
  BY NatLessThanWellFounded, WFMin, Zenon
<1>2. \A y \in T : y < x => <<y, x>> \in OpToRel(<, Nat)
  BY DEF OpToRel
<1> QED BY <1>1, <1>2

\* PskPrefixes computes what its recursive definition says.
PrefixOf(psks, g, n) ==
    IF n = 0 THEN <<>>
    ELSE IF psks[n].suite = Suite THEN Append(g[n - 1], psks[n])
    ELSE g[n - 1]

LEMMA PrefixesExist ==
    ASSUME NEW psks, NEW last \in Nat
    PROVE  \E g : g = [n \in 0..last |-> PrefixOf(psks, g, n)]
<1> DEFINE P(k) == \E g : g = [n \in 0..k |-> PrefixOf(psks, g, n)]
           T == {k \in Nat : ~ P(k)}
<1>1. P(0)
  <2> DEFINE g == [n \in 0..0 |-> <<>>]
  <2>1. g = [n \in 0..0 |-> PrefixOf(psks, g, n)]
    BY DEF PrefixOf
  <2> QED BY <2>1
<1>2. ASSUME NEW k \in Nat, P(k) PROVE P(k + 1)
  <2>1. PICK g : g = [n \in 0..k |-> PrefixOf(psks, g, n)]
    BY <1>2
  <2> DEFINE h == [n \in 0..(k + 1) |-> IF n = k + 1 THEN PrefixOf(psks, g, n) ELSE g[n]]
  <2>2. \A n \in 0..(k + 1) : n # 0 => n - 1 \in 0..k /\ h[n - 1] = g[n - 1]
    OBVIOUS
  <2>3. \A n \in 0..(k + 1) : PrefixOf(psks, g, n) = PrefixOf(psks, h, n)
    BY <2>2 DEF PrefixOf
  <2>4. \A n \in 0..(k + 1) : h[n] = PrefixOf(psks, g, n)
    BY <2>1
  <2>5. h = [n \in 0..(k + 1) |-> PrefixOf(psks, h, n)]
    BY <2>3, <2>4
  <2> QED BY <2>5
<1> HIDE DEF P
<1>3. T = {}
  <2> SUFFICES ASSUME T # {} PROVE FALSE
    OBVIOUS
  <2>1. PICK x \in T : \A y \in T : ~ (y < x)
    BY LeastElement
  <2>2. x # 0
    BY <1>1
  <2>3. x - 1 \in Nat /\ ~ (x - 1 \in T)
    BY <2>1, <2>2
  <2>4. P(x - 1 + 1)
    BY <2>3, <1>2
  <2>5. x - 1 + 1 = x
    BY <2>1
  <2> QED BY <2>1, <2>4, <2>5
<1>4. P(last)
  BY <1>3
<1> QED BY <1>4 DEF P

LEMMA PrefixesRecurse ==
    ASSUME NEW S, NEW psks \in Seq(S)
    PROVE  PskPrefixes(psks) =
             [n \in 0..Len(psks) |-> PrefixOf(psks, PskPrefixes(psks), n)]
<1> DEFINE Q(g) == g = [n \in 0..Len(psks) |-> PrefixOf(psks, g, n)]
<1>1. PskPrefixes(psks) = CHOOSE g : Q(g)
  BY DEF PskPrefixes, PrefixOf
<1>2. \E g : Q(g)
  BY PrefixesExist, SMTT(30)
<1> QED BY <1>1, <1>2

\* tls13_client_hello_again_psk_update keeps entries and makes none up.
LEMMA UpdateKeepsEntries ==
    ASSUME NEW S, NEW psks \in Seq(S)
    PROVE  LET kept == tls13_client_hello_again_psk_update(psks)
           IN kept \in Seq(S) /\ Elements(kept) \subseteq Elements(psks)
<1> DEFINE pre == PskPrefixes(psks)
           E == Elements(psks)
           T == {n \in Nat : n \in 0..Len(psks) /\ ~ (pre[n] \in Seq(E))}
<1>1. \A n \in 0..Len(psks) : pre[n] = PrefixOf(psks, pre, n)
  <2>1. PskPrefixes(psks) =
             [n \in 0..Len(psks) |-> PrefixOf(psks, PskPrefixes(psks), n)]
    BY PrefixesRecurse
  <2> QED BY <2>1
<1>2. \A n \in 0..Len(psks) : n # 0 => psks[n] \in E
  BY DEF Elements
<1> HIDE DEF pre, E
<1>3. pre[0] \in Seq(E)
  <2>1. 0 \in 0..Len(psks)
    OBVIOUS
  <2>2. pre[0] = <<>>
    BY <1>1, <2>1 DEF PrefixOf
  <2> QED BY <2>2
<1>4. T = {}
  <2> SUFFICES ASSUME T # {} PROVE FALSE
    OBVIOUS
  <2>1. PICK x \in T : \A y \in T : ~ (y < x)
    BY LeastElement
  <2>2. x # 0
    BY <1>3
  <2>3. x - 1 \in 0..Len(psks) /\ pre[x - 1] \in Seq(E)
    BY <2>1, <2>2
  <2>4. pre[x] = PrefixOf(psks, pre, x) /\ psks[x] \in E
    BY <1>1, <1>2, <2>1, <2>2
  <2>5. pre[x] \in Seq(E)
    BY <2>2, <2>3, <2>4 DEF PrefixOf
  <2> QED BY <2>1, <2>5
<1>5. pre[Len(psks)] \in Seq(E)
  <2>1. Len(psks) \in 0..Len(psks) /\ Len(psks) \in Nat
    OBVIOUS
  <2> QED BY <1>4, <2>1
<1>6. E \subseteq S
  BY DEF E, Elements
<1>7. ASSUME NEW s \in Seq(E) PROVE s \in Seq(S) /\ Elements(s) \subseteq E
  BY <1>6 DEF Elements
<1>8. tls13_client_hello_again_psk_update(psks) = pre[Len(psks)]
  BY DEF tls13_client_hello_again_psk_update, pre
<1> QED BY <1>5, <1>7, <1>8 DEF E

-----------------------------------------------------------------------------
(* A step of one side leaves the other's decision alone.                   *)

ClientStable ==
    /\ client.st # "client_hello" => /\ client'.st # "client_hello"
                                     /\ client'.offered = client.offered
    /\ client.st = "over" => client'.st = "over" /\ client'.psk = client.psk
    /\ client.retried => client'.retried

ServerStable ==
    /\ ServerSettled => /\ ServerSettled'
                        /\ server'.negotiated = server.negotiated
                        /\ server'.mode = server.mode
                        /\ server'.psk = server.psk
                        /\ server'.sel = server.sel
    /\ server.st # "client_hello" => server'.st # "client_hello"

LEMMA ClientMoves ==
    ASSUME IInv, ClientStable,
           UNCHANGED <<policy, cfg, odd, server, changes>>,
           client' \in ClientConns,
           toS' \in Seq(ClientMessages), toC' \in Seq(ServerMessages),
           Elements(toC') \subseteq Elements(toC),
           \A m \in Elements(toS') : m \in Elements(toS) \/ FromClient(m)',
           ClientDecision', ClientProgress'
    PROVE  IInv'
<1>1. TypeOK'
  BY DEF IInv, TypeOK, Scenario
<1>2. \A m \in Elements(toC') : FromServer(m)'
  <2>1. \A m : FromServer(m) => FromServer(m)'
    BY DEF FromServer, PeerHoldsCertificateKey, OddPsk, ServerSettled, Decided
  <2> QED BY <2>1 DEF IInv, StreamsInv
<1>3. \A m \in Elements(toS') : FromClient(m)'
  <2>1. \A m : FromClient(m) => FromClient(m)'
    BY DEF FromClient, OddPsk, ClientStable
  <2> QED BY <2>1 DEF IInv, StreamsInv
<1>4. ServerDecision'
  <2>1. ServerDecision
    BY DEF IInv
  <2>2. (MatchingIds = {}) => (MatchingIds = {})'
    BY DEF MatchingIds
  <2> QED BY <2>1, <2>2
       DEF ServerDecision, ClientStable, CertificateExpected, Decided, Honest
<1>5. ServerProgress'
  BY DEF IInv, ServerProgress, ClientStable, CertificateExpected, Decided, OddPsk
<1> QED BY <1>1, <1>2, <1>3, <1>4, <1>5 DEF IInv, StreamsInv

LEMMA ServerMoves ==
    ASSUME IInv, ServerStable,
           UNCHANGED <<policy, cfg, odd, client, changes>>,
           server' \in ServerConns,
           toS' \in Seq(ClientMessages), toC' \in Seq(ServerMessages),
           Elements(toS') \subseteq Elements(toS),
           \A m \in Elements(toC') : m \in Elements(toC) \/ FromServer(m)',
           ServerDecision', ServerProgress'
    PROVE  IInv'
<1>1. TypeOK'
  BY DEF IInv, TypeOK, Scenario
<1>2. \A m \in Elements(toS') : FromClient(m)'
  <2>1. \A m : FromClient(m) => FromClient(m)'
    BY DEF FromClient, OddPsk
  <2> QED BY <2>1 DEF IInv, StreamsInv
<1>3. \A m \in Elements(toC') : FromServer(m)'
  <2>1. \A m : FromServer(m) => FromServer(m)'
    BY DEF FromServer, PeerHoldsCertificateKey, OddPsk, ServerStable, Decided
  <2> QED BY <2>1 DEF IInv, StreamsInv
<1>4. ClientDecision'
  BY DEF IInv, ClientDecision, CertificateExpected, Decided
<1>5. ClientProgress'
  <2>1. ClientProgress
    BY DEF IInv
  <2>2. PeerHoldsCertificateKey => PeerHoldsCertificateKey'
    BY DEF PeerHoldsCertificateKey
  <2> QED BY <2>1, <2>2
       DEF ClientProgress, ServerStable, CertificateExpected, Decided, Honest, OddPsk
<1> QED BY <1>1, <1>2, <1>3, <1>4, <1>5 DEF IInv, StreamsInv

\* What a step of the client that decides nothing must show.
LEMMA ClientDecisionKept ==
    ASSUME ClientDecision, UNCHANGED <<policy, cfg, changes>>,
           client'.psks = client.psks, client'.modes = client.modes,
           client'.offered = client.offered, client'.mode = client.mode,
           client'.negotiated = client.negotiated, client'.psk = client.psk,
           client.retried => client'.retried
    PROVE  ClientDecision'
  BY DEF ClientDecision, CertificateExpected, Decided

LEMMA ServerDecisionKept ==
    ASSUME ServerDecision, UNCHANGED <<policy, cfg, odd, client, changes>>,
           server'.offered = server.offered, server'.mode = server.mode,
           server'.negotiated = server.negotiated, server'.psk = server.psk,
           server'.sel = server.sel
    PROVE  ServerDecision'
<1>1. (MatchingIds = {}) => (MatchingIds = {})'
  BY DEF MatchingIds
<1> QED BY <1>1 DEF ServerDecision, CertificateExpected, Decided, Honest

-----------------------------------------------------------------------------
(* Steps of the client *)

LEMMA ClientToState ==
    ASSUME client \in ClientConns, NEW st \in ClientStates,
           client' = [client EXCEPT !.st = st]
    PROVE  /\ client' \in ClientConns
           /\ client'.st = st
           /\ client'.psks = client.psks /\ client'.modes = client.modes
           /\ client'.offered = client.offered /\ client'.retried = client.retried
           /\ client'.mode = client.mode /\ client'.psk = client.psk
           /\ client'.negotiated = client.negotiated
           /\ client'.verified = client.verified
  BY DEF ClientConns

\* A handler leaves the stream to the client or takes its first record.
LEMMA ClientStream ==
    ASSUME TypeOK, toC' = toC \/ (toC # <<>> /\ toC' = Tail(toC))
    PROVE  toC' \in Seq(ServerMessages) /\ Elements(toC') \subseteq Elements(toC)
<1>1. toC \in Seq(ServerMessages)
  BY DEF TypeOK
<1> QED BY <1>1, TakenOff

LEMMA ClientSaysNothing ==
    ASSUME TypeOK, toS' = toS \o <<>>
    PROVE  toS' \in Seq(ClientMessages) /\ Elements(toS') \subseteq Elements(toS)
<1>1. toS \in Seq(ClientMessages)
  BY DEF TypeOK
<1> QED BY <1>1, PutOn, NothingSent

LEMMA ClientSays ==
    ASSUME TypeOK, NEW m \in ClientMessages, toS' = toS \o <<m>>
    PROVE  /\ toS' \in Seq(ClientMessages)
           /\ \A x \in Elements(toS') : x \in Elements(toS) \/ x = m
<1>1. toS \in Seq(ClientMessages)
  BY DEF TypeOK
<1>2. <<m>> \in Seq(ClientMessages) /\ Elements(<<m>>) = {m}
  BY OneSent
<1>3. /\ toS \o <<m>> \in Seq(ClientMessages)
      /\ Elements(toS \o <<m>>) \subseteq Elements(toS) \cup Elements(<<m>>)
  BY <1>1, <1>2, PutOn
<1> QED BY <1>2, <1>3

\* An alert carries nothing.
LEMMA AlertSaysNothing ==
    /\ Alert \in ClientMessages /\ Alert \in ServerMessages
    /\ FromClient(Alert)' /\ FromServer(Alert)'
<1>1. Alert \in ClientMessages /\ Alert \in ServerMessages
  BY DEF Alert, ClientMessages, ServerMessages, Plain
<1>2. Alert.type = "alert"
  BY DEF Alert
<1>3. FromClient(Alert)' /\ FromServer(Alert)'
  BY <1>2 DEF FromClient, FromServer
<1> QED BY <1>1, <1>3

LEMMA ClientFailing ==
    ASSUME IInv, ClientFails, client.st # "over", odd.side # "client",
           toC' = toC \/ (toC # <<>> /\ toC' = Tail(toC))
    PROVE  IInv'
<1>1. TypeOK /\ client \in ClientConns
  BY DEF IInv, TypeOK
<1>2. /\ client' = [client EXCEPT !.st = "failed"]
      /\ toS' = toS \o <<Alert>>
      /\ UNCHANGED <<policy, cfg, odd, server, changes>>
  BY DEF ClientFails, ClientGoes
<1>3. /\ client' \in ClientConns
      /\ client'.st = "failed"
      /\ client'.psks = client.psks /\ client'.modes = client.modes
      /\ client'.offered = client.offered /\ client'.retried = client.retried
      /\ client'.mode = client.mode /\ client'.psk = client.psk
      /\ client'.negotiated = client.negotiated
      /\ client'.verified = client.verified
  BY <1>1, <1>2, ClientToState, Zenon DEF ClientStates
<1>4. toC' \in Seq(ServerMessages) /\ Elements(toC') \subseteq Elements(toC)
  BY <1>1, ClientStream
<1>5. /\ toS' \in Seq(ClientMessages)
      /\ \A m \in Elements(toS') : m \in Elements(toS) \/ FromClient(m)'
  BY <1>1, <1>2, AlertSaysNothing, ClientSays
<1>6. ClientStable
  BY <1>3 DEF ClientStable
<1>7. ClientDecision'
  BY <1>2, <1>3, ClientDecisionKept DEF IInv
<1>8. ClientProgress'
  BY <1>2, <1>3 DEF IInv, ClientProgress, CertificateExpected, Decided, Honest,
        PeerHoldsCertificateKey, ServerSettled
<1> QED BY <1>2, <1>3, <1>4, <1>5, <1>6, <1>7, <1>8, ClientMoves

\* A handler that takes a record and moves on to another state.
LEMMA ClientAdvancing ==
    ASSUME IInv, NEW st \in {"encrypted_extensions", "certificate_request",
                             "server_certificate", "certificate_verify",
                             "server_finished", "client_finished"},
           ClientGoes([client EXCEPT !.st = st], <<>>),
           odd.side # "client", Decided(client), client.st # "over",
           toC' = toC \/ (toC # <<>> /\ toC' = Tail(toC)),
           st \in {"server_finished", "client_finished"} /\ CertificateExpected(client)
               => client.verified,
           st = "client_finished" =>
               IF odd.side = "server" THEN client.psk \in OddPsk
               ELSE ServerSettled /\ client.psk = server.psk
    PROVE  IInv'
<1>1. TypeOK /\ client \in ClientConns
  BY DEF IInv, TypeOK
<1>2. /\ client' = [client EXCEPT !.st = st]
      /\ toS' = toS \o <<>>
      /\ UNCHANGED <<policy, cfg, odd, server, changes>>
  BY DEF ClientGoes
<1>3. /\ client' \in ClientConns
      /\ client'.st = st
      /\ client'.psks = client.psks /\ client'.modes = client.modes
      /\ client'.offered = client.offered /\ client'.retried = client.retried
      /\ client'.mode = client.mode /\ client'.psk = client.psk
      /\ client'.negotiated = client.negotiated
      /\ client'.verified = client.verified
  BY <1>1, <1>2, ClientToState, Zenon DEF ClientStates
<1>4. toC' \in Seq(ServerMessages) /\ Elements(toC') \subseteq Elements(toC)
  BY <1>1, ClientStream
<1>5. toS' \in Seq(ClientMessages) /\ Elements(toS') \subseteq Elements(toS)
  BY <1>1, <1>2, ClientSaysNothing
<1>6. ClientStable
  BY <1>3 DEF ClientStable
<1>7. ClientDecision'
  BY <1>2, <1>3, ClientDecisionKept DEF IInv
<1>8. ClientProgress'
  BY <1>2, <1>3 DEF IInv, ClientProgress, CertificateExpected, Decided, Honest,
        PeerHoldsCertificateKey, ServerSettled, OddPsk
<1> QED BY <1>2, <1>3, <1>4, <1>5, <1>6, <1>7, <1>8, ClientMoves

LEMMA PolicyFacts ==
    ASSUME TypeOK, NEW side \in Sides
    PROVE  /\ policy[side].enable \in BOOLEAN /\ policy[side].require \in BOOLEAN
           /\ policy[side].require => policy[side].enable
<1>1. policy[side] \in Policies
  BY DEF TypeOK
<1>2. Off.enable = FALSE /\ Off.require = FALSE
  BY DEF Off
<1>3. Compatible.enable = TRUE /\ Compatible.require = FALSE
  BY DEF Compatible
<1>4. Strict.enable = TRUE /\ Strict.require = TRUE
  BY DEF Strict
<1> QED BY <1>1, <1>2, <1>3, <1>4, Zenon DEF Policies

LEMMA ConfigFacts ==
    ASSUME TypeOK
    PROVE  /\ cfg.psks \in Seq(PskEntries) /\ cfg.early \in BOOLEAN
           /\ cfg.modes["client"] \subseteq PskModes
           /\ cfg.modes["server"] \subseteq PskModes
           /\ cfg.share \in Shares /\ cfg.known \in Known /\ cfg.cert \in BOOLEAN
  BY DEF TypeOK, Configs, Sides

LEMMA ClientFacts ==
    ASSUME TypeOK
    PROVE  /\ client \in ClientConns
           /\ client.st \in ClientStates /\ client.psks \in Seq(PskEntries)
           /\ client.modes \subseteq PskModes /\ client.offered \in BOOLEAN
           /\ client.retried \in BOOLEAN /\ client.mode \in Modes
           /\ client.psk \in Secrets /\ client.negotiated \in BOOLEAN
           /\ client.verified \in BOOLEAN
  BY DEF TypeOK, ClientConns

\* A ClientHello of this code is one, and repeats its arguments.
LEMMA ClientHelloFacts ==
    ASSUME TypeOK, NEW flag \in BOOLEAN, NEW psks \in Seq(PskEntries),
           NEW modes \in SUBSET PskModes, NEW share \in Shares
    PROVE  LET m == ClientHello(flag, psks, modes, share)
           IN /\ m \in ClientMessages
              /\ m.type = "CH" /\ m.groups /\ m.psks = psks
              /\ m.flag = IF flag THEN "yes" ELSE "no"
              /\ psks # <<>> => m.modes = modes
<1>1. cfg.early \in BOOLEAN
  BY ConfigFacts
<1>2. ClientHello(flag, psks, modes, share) \in Hellos
  BY <1>1 DEF ClientHello, Hellos, Flags
<1> QED BY <1>2 DEF ClientHello, ClientMessages

LEMMA SendClientHello ==
    ASSUME IInv, tls13_send_client_hello PROVE IInv'
<1> DEFINE p == policy["client"]
           m == ClientHello(p.enable, client.psks, client.modes, cfg.share)
<1>1. TypeOK /\ odd.side # "client" /\ client.st = "client_hello"
  BY DEF IInv, tls13_send_client_hello, ClientAt
<1>2. CASE ~ tls13_post_quantum_psk_client_config_check(p, client.psks)
  <2>1. ClientFails /\ toC' = toC
    BY <1>2 DEF tls13_send_client_hello
  <2> QED BY <1>1, <2>1, ClientFailing
<1>3. CASE tls13_post_quantum_psk_client_config_check(p, client.psks)
  <2>1. /\ client' = [client EXCEPT !.st = "server_hello", !.offered = p.enable]
        /\ toS' = toS \o <<m>> /\ toC' = toC
        /\ UNCHANGED <<policy, cfg, odd, server, changes>>
    BY <1>3 DEF tls13_send_client_hello, ClientSends, ClientGoes
  <2>2. p.enable => "psk_dhe" \in client.modes /\ client.psks # <<>>
    BY <1>3 DEF tls13_post_quantum_psk_client_config_check
  <2>3. p.enable \in BOOLEAN
    BY <1>1, PolicyFacts DEF Sides
  <2>4. /\ client' \in ClientConns
        /\ client'.st = "server_hello"
        /\ client'.psks = client.psks /\ client'.modes = client.modes
        /\ client'.offered = p.enable /\ client'.retried = client.retried
        /\ client'.mode = client.mode /\ client'.psk = client.psk
        /\ client'.negotiated = client.negotiated
        /\ client'.verified = client.verified
    BY <1>1, <2>1, <2>3 DEF TypeOK, ClientConns, ClientStates
  <2> HIDE DEF p, m
  <2>5. /\ m \in ClientMessages
        /\ m.type = "CH" /\ m.groups /\ m.psks = client.psks
        /\ m.flag = IF p.enable THEN "yes" ELSE "no"
        /\ client.psks # <<>> => m.modes = client.modes
    BY <1>1, <2>3, ClientFacts, ConfigFacts, ClientHelloFacts DEF m
  <2>6. ~ Decided(client) /\ ~ client.retried
        /\ client.psks = cfg.psks /\ client.modes = cfg.modes["client"]
    BY <1>1 DEF IInv, ClientProgress, ClientDecision
  <2>7. ASSUME NEW x, x = m PROVE FromClient(x)'
    BY <2>7, <2>1, <2>4, <2>5, <2>6, <1>1 DEF FromClient
  <2>8. /\ toS' \in Seq(ClientMessages)
        /\ \A x \in Elements(toS') : x \in Elements(toS) \/ FromClient(x)'
    BY <1>1, <2>1, <2>5, <2>7, ClientSays
  <2>9. toC' \in Seq(ServerMessages) /\ Elements(toC') \subseteq Elements(toC)
    BY <1>1, <2>1, ClientStream
  <2>10. ClientStable
    BY <1>1, <2>4 DEF ClientStable
  <2>11. ClientDecision'
    BY <2>1, <2>2, <2>4, <2>6 DEF IInv, ClientDecision, CertificateExpected, Decided
  <2>12. ClientProgress'
    BY <1>1, <2>1, <2>4, <2>6 DEF IInv, ClientProgress, CertificateExpected, Decided,
        Honest, PeerHoldsCertificateKey, ServerSettled
  <2> QED BY <2>1, <2>4, <2>8, <2>9, <2>10, <2>11, <2>12, ClientMoves
<1> QED BY <1>2, <1>3

LEMMA RecvHelloRetryRequest ==
    ASSUME IInv, tls13_recv_hello_retry_request PROVE IInv'
<1>1. /\ TypeOK /\ odd.side # "client" /\ client.st = "server_hello"
      /\ toC # <<>> /\ toC' = Tail(toC) /\ Head(toC).type = "HRR"
  BY DEF IInv, tls13_recv_hello_retry_request, ClientReads, ClientAt
<1>2. CASE client.retried
  <2>1. ClientFails
    BY <1>2 DEF tls13_recv_hello_retry_request
  <2> QED BY <1>1, <2>1, ClientFailing
<1>3. CASE ~ client.retried
  <2>1. /\ client' = [client EXCEPT !.st = "client_hello_again", !.retried = TRUE]
        /\ toS' = toS \o <<>>
        /\ UNCHANGED <<policy, cfg, odd, server, changes>>
    BY <1>3 DEF tls13_recv_hello_retry_request, ClientGoes
  <2>2. /\ client' \in ClientConns
        /\ client'.st = "client_hello_again"
        /\ client'.psks = client.psks /\ client'.modes = client.modes
        /\ client'.offered = client.offered /\ client'.retried
        /\ client'.mode = client.mode /\ client'.psk = client.psk
        /\ client'.negotiated = client.negotiated
        /\ client'.verified = client.verified
    BY <1>1, <2>1 DEF TypeOK, ClientConns, ClientStates
  <2>3. FromServer(Head(toC))
    BY <1>1, TakenOff, Zenon DEF IInv, TypeOK, StreamsInv
  <2>4. Honest => server.st # "client_hello"
    BY <1>1, <2>3 DEF FromServer, Honest
  <2>5. toC' \in Seq(ServerMessages) /\ Elements(toC') \subseteq Elements(toC)
    BY <1>1, ClientStream
  <2>6. toS' \in Seq(ClientMessages) /\ Elements(toS') \subseteq Elements(toS)
    BY <1>1, <2>1, ClientSaysNothing
  <2>7. ClientStable
    BY <1>1, <2>2 DEF ClientStable
  <2>8. ClientDecision'
    BY <2>1, <2>2, ClientDecisionKept DEF IInv
  <2>9. ClientProgress'
    BY <1>1, <2>1, <2>2, <2>4 DEF IInv, ClientProgress, CertificateExpected, Decided,
        Honest, PeerHoldsCertificateKey, ServerSettled
  <2> QED BY <2>1, <2>2, <2>5, <2>6, <2>7, <2>8, <2>9, ClientMoves
<1> QED BY <1>2, <1>3

LEMMA SendClientHelloAgain ==
    ASSUME IInv, tls13_send_client_hello_again PROVE IInv'
<1> DEFINE kept == tls13_client_hello_again_psk_update(client.psks)
           modes == client.modes \ {"psk"}
           m == ClientHello(FlagAgain, kept, modes, "ok")
<1>1. TypeOK /\ odd.side # "client" /\ client.st = "client_hello_again"
  BY DEF IInv, tls13_send_client_hello_again, ClientAt
<1>2. CASE ClientFails /\ toC' = toC
  BY <1>1, <1>2, ClientFailing
<1>3. CASE ClientSends([client EXCEPT !.st = "server_hello", !.psks = kept,
                                     !.modes = modes], <<m>>)
  <2>1. /\ client' = [client EXCEPT !.st = "server_hello", !.psks = kept, !.modes = modes]
        /\ toS' = toS \o <<m>> /\ toC' = toC
        /\ UNCHANGED <<policy, cfg, odd, server, changes>>
    BY <1>3 DEF ClientSends, ClientGoes
  <2>2. /\ client.psks \in Seq(PskEntries) /\ client.offered \in BOOLEAN
        /\ client.modes \subseteq PskModes /\ client \in ClientConns
    BY <1>1, ClientFacts
  <2>3. kept \in Seq(PskEntries) /\ Elements(kept) \subseteq Elements(client.psks)
    BY <2>2, UpdateKeepsEntries
  <2> HIDE DEF kept
  <2>4. /\ client' \in ClientConns
        /\ client'.st = "server_hello"
        /\ client'.psks = kept
        /\ client'.offered = client.offered /\ client'.retried = client.retried
        /\ client'.mode = client.mode /\ client'.psk = client.psk
        /\ client'.negotiated = client.negotiated
        /\ client'.verified = client.verified
    BY <2>1, <2>2, <2>3 DEF ClientConns, ClientStates
  <2>5. /\ m \in ClientMessages
        /\ m.type = "CH" /\ m.groups
        /\ m.flag = IF client.offered THEN "yes" ELSE "no"
    BY <1>1, <2>2, <2>3, ClientHelloFacts DEF FlagAgain, Shares
  <2> HIDE DEF m
  <2>6. ~ Decided(client) /\ client.retried
    BY <1>1 DEF IInv, ClientProgress
  <2>7. ASSUME NEW x, x = m PROVE FromClient(x)'
    BY <2>7, <2>1, <2>4, <2>5, <2>6, <1>1 DEF FromClient
  <2>8. /\ toS' \in Seq(ClientMessages)
        /\ \A x \in Elements(toS') : x \in Elements(toS) \/ FromClient(x)'
    BY <1>1, <2>1, <2>5, <2>7, ClientSays
  <2>9. toC' \in Seq(ServerMessages) /\ Elements(toC') \subseteq Elements(toC)
    BY <1>1, <2>1, ClientStream
  <2>10. ClientStable
    BY <1>1, <2>4 DEF ClientStable
  <2>11. ClientDecision'
    BY <2>1, <2>3, <2>4, <2>6 DEF IInv, ClientDecision, CertificateExpected, Decided
  <2>12. ClientProgress'
    BY <1>1, <2>1, <2>4, <2>6 DEF IInv, ClientProgress, CertificateExpected, Decided,
        Honest, PeerHoldsCertificateKey, ServerSettled
  <2> QED BY <2>1, <2>4, <2>8, <2>9, <2>10, <2>11, <2>12, ClientMoves
<1> QED BY <1>2, <1>3 DEF tls13_send_client_hello_again

LEMMA ServerMessageFacts ==
    ASSUME NEW m \in ServerMessages
    PROVE  /\ m.type = "SH" => m.flag \in Flags /\ m.psk \in Nat /\ m.share \in BOOLEAN
           /\ m.type = "FIN" => m.psk \in Secrets /\ m.dhe \in BOOLEAN
           /\ m.type = "CV" => m.ok \in BOOLEAN
  BY DEF ServerMessages, ServerHellos, Finisheds, Verifies, Plain

LEMMA EntryFacts ==
    ASSUME NEW e \in PskEntries
    PROVE  /\ e.id \in Ids \cup {"ticket"} /\ e.key \in {"right", "wrong"}
           /\ e.type = "external" => e.id \in Ids
           /\ e.type \in {"external", "ticket"}
  BY DEF PskEntries

\* The record a client takes off its stream was sent by its peer.
LEMMA ClientHears ==
    ASSUME IInv, toC # <<>>
    PROVE  Head(toC) \in ServerMessages /\ FromServer(Head(toC))
<1>1. Head(toC) \in ServerMessages /\ Head(toC) \in Elements(toC)
  BY TakenOff DEF IInv, TypeOK
<1> QED BY <1>1, Zenon DEF IInv, StreamsInv

LEMMA RecvServerHello ==
    ASSUME IInv, tls13_recv_server_hello PROVE IInv'
<1> DEFINE sh == Head(toC)
           mode == ServerMode(sh)
           psk == IF sh.psk = 0 THEN NoPsk
                  ELSE [id |-> client.psks[sh.psk].id, key |-> client.psks[sh.psk].key]
           Accepted == /\ sh.type = "SH"
                       /\ FlagAcceptable(client, policy["client"], sh)
                       /\ client.retried => sh.share
                       /\ SelectionAcceptable(client, sh)
                       /\ mode \in client.modes \cup {"cert_dhe"}
                       /\ sh.flag = "yes" => mode = "psk_dhe"
<1>1. /\ TypeOK /\ odd.side # "client" /\ client.st = "server_hello"
      /\ toC # <<>> /\ toC' = Tail(toC)
  BY DEF IInv, tls13_recv_server_hello, ClientReads, ClientAt
<1>2. CASE ~ Accepted
  <2>1. ClientFails
    BY <1>2 DEF tls13_recv_server_hello
  <2> QED BY <1>1, <2>1, ClientFailing
<1>3. CASE Accepted
  <2>1. /\ client' = [client EXCEPT !.st = "encrypted_extensions", !.mode = mode,
                          !.negotiated = (sh.flag = "yes"), !.psk = psk]
        /\ toS' = toS \o <<>>
        /\ UNCHANGED <<policy, cfg, odd, server, changes>>
    BY <1>3 DEF tls13_recv_server_hello, ClientGoes, Negotiated
  <2>2. sh \in ServerMessages /\ FromServer(sh)
    BY <1>1, ClientHears
  <2>3. sh.flag \in Flags /\ sh.psk \in Nat /\ sh.share \in BOOLEAN
    BY <1>3, <2>2, ServerMessageFacts
  <2>4. /\ client.psks \in Seq(PskEntries) /\ client.modes \subseteq PskModes
        /\ client \in ClientConns /\ client.offered \in BOOLEAN
    BY <1>1, ClientFacts
  <2>5. mode \in Modes /\ mode # "none"
    BY <1>3, <2>4 DEF Modes, PskModes
  <2>6. /\ mode = "psk_dhe" => sh.share /\ sh.psk # 0
        /\ mode = "cert_dhe" => sh.share /\ sh.psk = 0
        /\ mode = "psk" => ~ sh.share /\ sh.psk # 0
    BY <2>3 DEF ServerMode
  <2>7. sh.flag = "yes" => sh.psk # 0 /\ mode = "psk_dhe"
    BY <1>3, <2>6
  <2>8. sh.psk = 0 => psk = NoPsk /\ psk \in Secrets
    BY DEF NoPsk, Secrets
  <2>9. /\ psk \in Secrets
        /\ sh.flag = "yes" => psk.id \in Ids
        /\ psk # NoPsk => \E e \in Elements(cfg.psks) : e.id = psk.id /\ e.key = psk.key
    <3>1. CASE sh.psk = 0
      BY <2>7, <2>8, <3>1
    <3>2. CASE sh.psk # 0
      <4> DEFINE e == client.psks[sh.psk]
      <4>1. sh.psk \in DOMAIN client.psks
        BY <1>3, <3>2 DEF SelectionAcceptable
      <4>2. e \in PskEntries /\ e \in Elements(client.psks)
        BY <4>1, <2>4 DEF Elements
      <4>3. sh.flag = "yes" => e.type = "external"
        BY <1>3, <4>1 DEF SelectionAcceptable
      <4>4. psk.id = e.id /\ psk.key = e.key /\ psk = [id |-> e.id, key |-> e.key]
        BY <3>2
      <4> HIDE DEF e, psk
      <4>5. /\ e.id \in Ids \cup {"ticket"} /\ e.key \in {"right", "wrong"}
            /\ e.type = "external" => e.id \in Ids
        BY <4>2, EntryFacts
      <4>6. psk \in Secrets
        BY <4>4, <4>5 DEF Secrets
      <4>7. e \in Elements(cfg.psks)
        BY <4>2 DEF IInv, ClientDecision
      <4> QED BY <4>3, <4>4, <4>5, <4>6, <4>7
    <3> QED BY <3>1, <3>2
  <2>10. /\ sh.flag = "yes" => mode = "psk_dhe"
         /\ client.offered => mode = "cert_dhe" \/ sh.flag = "yes"
         /\ policy["client"].require => sh.flag = "yes"
    BY <1>3, <2>4, <2>5, <2>6 DEF FlagAcceptable, Modes, PskModes
  <2>11. /\ Honest => /\ ServerSettled /\ Decided(server)
                      /\ sh.flag = IF server.negotiated THEN "yes" ELSE "no"
                      /\ sh.psk = server.sel
                      /\ sh.share = (server.mode # "psk")
    BY <1>3, <2>2 DEF FromServer, Honest
  <2>12. Honest => mode = server.mode
    <3> SUFFICES ASSUME Honest PROVE mode = server.mode
      OBVIOUS
    <3>1. (server.sel = 0) = (server.mode = "cert_dhe")
      BY <2>11 DEF IInv, ServerDecision
    <3>2. server.mode \in Modes /\ server.mode # "none"
      BY <2>11, <1>1 DEF TypeOK, ServerConns, Decided
    <3> QED BY <2>5, <2>6, <2>11, <3>1, <3>2 DEF Modes, PskModes
  <2>13. Honest => (sh.flag = "yes") = server.negotiated
    <3>1. server.negotiated \in BOOLEAN
      BY <1>1 DEF TypeOK, ServerConns
    <3> QED BY <2>11, <3>1
  <2> HIDE DEF sh, mode, psk
  <2>14. /\ client' \in ClientConns
         /\ client'.st = "encrypted_extensions"
         /\ client'.psks = client.psks /\ client'.modes = client.modes
         /\ client'.offered = client.offered /\ client'.retried = client.retried
         /\ client'.mode = mode /\ client'.psk = psk
         /\ client'.negotiated = (sh.flag = "yes")
         /\ client'.verified = client.verified
    BY <2>1, <2>4, <2>5, <2>9 DEF ClientConns, ClientStates
  <2>15. toC' \in Seq(ServerMessages) /\ Elements(toC') \subseteq Elements(toC)
    BY <1>1, ClientStream
  <2>16. toS' \in Seq(ClientMessages) /\ Elements(toS') \subseteq Elements(toS)
    BY <1>1, <2>1, ClientSaysNothing
  <2>17. ClientStable
    BY <1>1, <2>14 DEF ClientStable
  <2>18. ClientDecision'
    <3>1. client'.negotiated <=> sh.flag = "yes"
      BY <2>14
    <3>2. client'.negotiated => client'.mode = "psk_dhe" /\ client'.psk.id \in Ids
      BY <2>7, <2>9, <2>14, <3>1
    <3>3. client'.offered => client'.mode = "cert_dhe" \/ client'.negotiated
      BY <2>10, <2>14, <3>1
    <3>4. policy["client"].require => client'.negotiated
      BY <2>10, <3>1
    <3>5. client'.psk # NoPsk => \E e \in Elements(cfg.psks) :
                                    e.id = client'.psk.id /\ e.key = client'.psk.key
      BY <2>9, <2>14
    <3> QED BY <2>1, <2>14, <3>2, <3>3, <3>4, <3>5
         DEF IInv, ClientDecision, CertificateExpected, Decided
  <2>19. ClientProgress'
    BY <1>1, <2>1, <2>5, <2>11, <2>12, <2>13, <2>14 DEF IInv, ClientProgress,
        CertificateExpected, Decided, Honest, PeerHoldsCertificateKey, ServerSettled
  <2> QED BY <2>1, <2>14, <2>15, <2>16, <2>17, <2>18, <2>19, ClientMoves
<1> QED BY <1>2, <1>3

LEMMA RecvEncryptedExtensions ==
    ASSUME IInv, tls13_recv_encrypted_extensions PROVE IInv'
<1>1. /\ odd.side # "client" /\ client.st = "encrypted_extensions"
      /\ toC # <<>> /\ toC' = Tail(toC)
  BY DEF tls13_recv_encrypted_extensions, ClientReads, ClientAt
<1>2. Decided(client)
  BY <1>1 DEF IInv, ClientProgress
<1>3. CASE ClientFails
  BY <1>1, <1>3, ClientFailing
<1>4. CASE ClientGoes([client EXCEPT !.st = "certificate_request"], <<>>)
  BY <1>1, <1>2, <1>4, ClientAdvancing
<1> QED BY <1>3, <1>4 DEF tls13_recv_encrypted_extensions

LEMMA RecvCertificateRequest ==
    ASSUME IInv, tls13_recv_certificate_request PROVE IInv'
<1>1. /\ odd.side # "client" /\ client.st = "certificate_request"
      /\ toC # <<>> /\ (toC' = toC \/ toC' = Tail(toC))
  BY DEF tls13_recv_certificate_request, ClientAt
<1>2. Decided(client)
  BY <1>1 DEF IInv, ClientProgress
<1>3. ClientGoes([client EXCEPT !.st = AfterCertificateRequest(client)], <<>>)
  BY DEF tls13_recv_certificate_request
<1>4. CASE CertificateExpected(client)
  <2>1. AfterCertificateRequest(client) = "server_certificate"
    BY <1>4 DEF AfterCertificateRequest
  <2>2. ClientGoes([client EXCEPT !.st = "server_certificate"], <<>>)
    BY <1>3, <2>1
  <2> QED BY <1>1, <1>2, <2>2, ClientAdvancing
<1>5. CASE ~ CertificateExpected(client)
  <2>1. AfterCertificateRequest(client) = "server_finished"
    BY <1>5 DEF AfterCertificateRequest
  <2>2. ClientGoes([client EXCEPT !.st = "server_finished"], <<>>)
    BY <1>3, <2>1
  <2> QED BY <1>1, <1>2, <1>5, <2>2, ClientAdvancing
<1> QED BY <1>4, <1>5

LEMMA RecvServerCertificate ==
    ASSUME IInv, tls13_recv_server_certificate PROVE IInv'
<1>1. /\ odd.side # "client" /\ client.st = "server_certificate"
      /\ toC # <<>> /\ toC' = Tail(toC)
  BY DEF tls13_recv_server_certificate, ClientReads, ClientAt
<1>2. Decided(client)
  BY <1>1 DEF IInv, ClientProgress
<1>3. CASE ClientFails
  BY <1>1, <1>3, ClientFailing
<1>4. CASE ClientGoes([client EXCEPT !.st = "certificate_verify"], <<>>)
  BY <1>1, <1>2, <1>4, ClientAdvancing
<1> QED BY <1>3, <1>4 DEF tls13_recv_server_certificate

\* A CertificateVerify that verifies was made with the certificate's key.
LEMMA RecvCertificateVerify ==
    ASSUME IInv, tls13_recv_certificate_verify PROVE IInv'
<1>1. /\ TypeOK /\ odd.side # "client" /\ client.st = "certificate_verify"
      /\ toC # <<>> /\ toC' = Tail(toC)
  BY DEF IInv, tls13_recv_certificate_verify, ClientReads, ClientAt
<1>2. CASE ~ (Head(toC).type = "CV" /\ Head(toC).ok)
  <2>1. ClientFails
    BY <1>2 DEF tls13_recv_certificate_verify
  <2> QED BY <1>1, <2>1, ClientFailing
<1>3. CASE Head(toC).type = "CV" /\ Head(toC).ok
  <2>1. /\ client' = [client EXCEPT !.st = "server_finished", !.verified = TRUE]
        /\ toS' = toS \o <<>>
        /\ UNCHANGED <<policy, cfg, odd, server, changes>>
    BY <1>3 DEF tls13_recv_certificate_verify, ClientGoes
  <2>2. PeerHoldsCertificateKey
    BY <1>1, <1>3, ClientHears DEF FromServer
  <2>3. /\ client' \in ClientConns
        /\ client'.st = "server_finished"
        /\ client'.psks = client.psks /\ client'.modes = client.modes
        /\ client'.offered = client.offered /\ client'.retried = client.retried
        /\ client'.mode = client.mode /\ client'.psk = client.psk
        /\ client'.negotiated = client.negotiated
        /\ client'.verified
    BY <1>1, <2>1 DEF TypeOK, ClientConns, ClientStates
  <2>4. toC' \in Seq(ServerMessages) /\ Elements(toC') \subseteq Elements(toC)
    BY <1>1, ClientStream
  <2>5. toS' \in Seq(ClientMessages) /\ Elements(toS') \subseteq Elements(toS)
    BY <1>1, <2>1, ClientSaysNothing
  <2>6. ClientStable
    BY <1>1, <2>3 DEF ClientStable
  <2>7. ClientDecision'
    BY <2>1, <2>3, ClientDecisionKept DEF IInv
  <2>8. ClientProgress'
    BY <1>1, <2>1, <2>2, <2>3 DEF IInv, ClientProgress, CertificateExpected, Decided,
        Honest, PeerHoldsCertificateKey, ServerSettled
  <2> QED BY <2>1, <2>3, <2>4, <2>5, <2>6, <2>7, <2>8, ClientMoves
<1> QED BY <1>2, <1>3

\* The server's Finished verifies only under the PSK both have.
LEMMA RecvServerFinished ==
    ASSUME IInv, tls13_recv_server_finished PROVE IInv'
<1>1. /\ odd.side # "client" /\ client.st = "server_finished"
      /\ toC # <<>> /\ toC' = Tail(toC)
  BY DEF tls13_recv_server_finished, ClientReads, ClientAt
<1>2. /\ Decided(client)
      /\ CertificateExpected(client) => client.verified
  BY <1>1 DEF IInv, ClientProgress
<1>3. CASE Head(toC) # Finished(client)
  <2>1. ClientFails
    BY <1>3 DEF tls13_recv_server_finished
  <2> QED BY <1>1, <2>1, ClientFailing
<1>4. CASE Head(toC) = Finished(client)
  <2>1. ClientGoes([client EXCEPT !.st = "client_finished"], <<>>)
    BY <1>4 DEF tls13_recv_server_finished
  <2>2. Head(toC).type = "FIN" /\ Head(toC).psk = client.psk
    BY <1>4 DEF Finished
  <2>3. IF odd.side = "server" THEN client.psk \in OddPsk
        ELSE ServerSettled /\ client.psk = server.psk
    BY <1>1, <2>2, ClientHears DEF FromServer
  <2> QED BY <1>1, <1>2, <2>1, <2>3, ClientAdvancing
<1> QED BY <1>3, <1>4

LEMMA SendClientFinished ==
    ASSUME IInv, tls13_send_client_finished PROVE IInv'
<1> DEFINE m == Finished(client)
<1>1. TypeOK /\ odd.side # "client" /\ client.st = "client_finished"
  BY DEF IInv, tls13_send_client_finished, ClientAt
<1>2. /\ client' = [client EXCEPT !.st = "over"]
      /\ toS' = toS \o <<m>> /\ toC' = toC
      /\ UNCHANGED <<policy, cfg, odd, server, changes>>
  BY DEF tls13_send_client_finished, ClientSends, ClientGoes
<1>3. /\ client' \in ClientConns
      /\ client'.st = "over"
      /\ client'.psks = client.psks /\ client'.modes = client.modes
      /\ client'.offered = client.offered /\ client'.retried = client.retried
      /\ client'.mode = client.mode /\ client'.psk = client.psk
      /\ client'.negotiated = client.negotiated
      /\ client'.verified = client.verified
  BY <1>1, <1>2, ClientToState, Zenon DEF ClientStates, TypeOK
<1>4. m \in Finisheds /\ m.type = "FIN" /\ m.psk = client.psk
  BY <1>1, ClientFacts DEF Finished, Finisheds
<1>5. m \in ClientMessages
  BY <1>4 DEF ClientMessages
<1> HIDE DEF m
<1>6. ASSUME NEW x, x = m PROVE FromClient(x)'
  BY <1>1, <1>2, <1>3, <1>4, <1>6 DEF FromClient
<1>7. /\ toS' \in Seq(ClientMessages)
      /\ \A x \in Elements(toS') : x \in Elements(toS) \/ FromClient(x)'
  BY <1>1, <1>2, <1>5, <1>6, ClientSays
<1>8. toC' \in Seq(ServerMessages) /\ Elements(toC') \subseteq Elements(toC)
  BY <1>1, <1>2, ClientStream
<1>9. ClientStable
  BY <1>1, <1>3 DEF ClientStable
<1>10. ClientDecision'
  BY <1>2, <1>3, ClientDecisionKept DEF IInv
<1>11. ClientProgress'
  BY <1>1, <1>2, <1>3 DEF IInv, ClientProgress, CertificateExpected, Decided,
      Honest, PeerHoldsCertificateKey, ServerSettled, OddPsk
<1> QED BY <1>2, <1>3, <1>7, <1>8, <1>9, <1>10, <1>11, ClientMoves

-----------------------------------------------------------------------------
(* Steps of the server *)

LEMMA ServerFacts ==
    ASSUME TypeOK
    PROVE  /\ server \in ServerConns
           /\ server.st \in ServerStates /\ server.offered \in BOOLEAN
           /\ server.retried \in BOOLEAN /\ server.sel \in Nat
           /\ server.mode \in Modes /\ server.psk \in Secrets
           /\ server.negotiated \in BOOLEAN
  BY DEF TypeOK, ServerConns

LEMMA ServerToState ==
    ASSUME server \in ServerConns, NEW st \in ServerStates,
           server' = [server EXCEPT !.st = st]
    PROVE  /\ server' \in ServerConns
           /\ server'.st = st
           /\ server'.offered = server.offered /\ server'.retried = server.retried
           /\ server'.sel = server.sel /\ server'.mode = server.mode
           /\ server'.psk = server.psk /\ server'.negotiated = server.negotiated
  BY DEF ServerConns

LEMMA ServerStream ==
    ASSUME TypeOK, toS' = toS \/ (toS # <<>> /\ toS' = Tail(toS))
    PROVE  toS' \in Seq(ClientMessages) /\ Elements(toS') \subseteq Elements(toS)
<1>1. toS \in Seq(ClientMessages)
  BY DEF TypeOK
<1> QED BY <1>1, TakenOff

LEMMA ServerSays ==
    ASSUME TypeOK, NEW out \in Seq(ServerMessages), toC' = toC \o out
    PROVE  /\ toC' \in Seq(ServerMessages)
           /\ \A x \in Elements(toC') : x \in Elements(toC) \/ x \in Elements(out)
<1>1. toC \in Seq(ServerMessages)
  BY DEF TypeOK
<1> QED BY <1>1, PutOn

LEMMA ServerFailing ==
    ASSUME IInv, ServerFails, server.st # "over", odd.side # "server",
           toS' = toS \/ (toS # <<>> /\ toS' = Tail(toS))
    PROVE  IInv'
<1>1. TypeOK /\ server \in ServerConns
  BY DEF IInv, TypeOK
<1>2. /\ server' = [server EXCEPT !.st = "failed"]
      /\ toC' = toC \o <<Alert>>
      /\ UNCHANGED <<policy, cfg, odd, client, changes>>
  BY DEF ServerFails, ServerGoes
<1>3. "failed" \in ServerStates
  BY DEF ServerStates, ClientStates
<1>4. /\ server' \in ServerConns
      /\ server'.st = "failed"
      /\ server'.offered = server.offered /\ server'.retried = server.retried
      /\ server'.sel = server.sel /\ server'.mode = server.mode
      /\ server'.psk = server.psk /\ server'.negotiated = server.negotiated
  BY <1>1, <1>2, <1>3, ServerToState
<1>5. toS' \in Seq(ClientMessages) /\ Elements(toS') \subseteq Elements(toS)
  BY <1>1, ServerStream
<1>6. <<Alert>> \in Seq(ServerMessages) /\ Elements(<<Alert>>) = {Alert}
  BY AlertSaysNothing, OneSent
<1>7. /\ toC' \in Seq(ServerMessages)
      /\ \A m \in Elements(toC') : m \in Elements(toC) \/ FromServer(m)'
  BY <1>1, <1>2, <1>6, AlertSaysNothing, ServerSays
<1>8. ServerStable
  BY <1>4 DEF ServerStable, ServerSettled
<1>9. ServerDecision'
  BY <1>2, <1>4, ServerDecisionKept DEF IInv
<1>10. ServerProgress'
  BY <1>2, <1>4 DEF IInv, ServerProgress
<1> QED BY <1>2, <1>4, <1>5, <1>7, <1>8, <1>9, <1>10, ServerMoves

\* A handler that sends something and moves on to another state.
LEMMA ServerAdvancing ==
    ASSUME IInv, NEW st \in {"client_hello_again", "encrypted_extensions",
                             "certificate_request", "server_certificate",
                             "server_finished", "client_finished"},
           NEW out \in Seq(ServerMessages),
           ServerSends([server EXCEPT !.st = st], out),
           odd.side # "server", server.st \notin {"client_hello", "over", "failed"},
           ServerSettled => st # "client_hello_again",
           st = "server_certificate" => CertificateExpected(server),
           /\ server'.st = st
           /\ server'.sel = server.sel /\ server'.mode = server.mode
           /\ server'.psk = server.psk /\ server'.negotiated = server.negotiated
           /\ cfg' = cfg /\ odd' = odd
           => \A m \in Elements(out) : FromServer(m)'
    PROVE  IInv'
<1>1. TypeOK /\ server \in ServerConns
  BY DEF IInv, TypeOK
<1>2. /\ server' = [server EXCEPT !.st = st]
      /\ toC' = toC \o out /\ toS' = toS
      /\ UNCHANGED <<policy, cfg, odd, client, changes>>
  BY DEF ServerSends, ServerGoes
<1>3. st \in ServerStates
  BY DEF ServerStates, ClientStates
<1>4. /\ server' \in ServerConns
      /\ server'.st = st
      /\ server'.offered = server.offered /\ server'.retried = server.retried
      /\ server'.sel = server.sel /\ server'.mode = server.mode
      /\ server'.psk = server.psk /\ server'.negotiated = server.negotiated
  BY <1>1, <1>2, <1>3, ServerToState
<1>5. toS' \in Seq(ClientMessages) /\ Elements(toS') \subseteq Elements(toS)
  BY <1>1, <1>2, ServerStream
<1>6. \A m \in Elements(out) : FromServer(m)'
  BY <1>2, <1>4
<1>7. /\ toC' \in Seq(ServerMessages)
      /\ \A m \in Elements(toC') : m \in Elements(toC) \/ FromServer(m)'
  BY <1>1, <1>2, <1>6, ServerSays
<1>8. ServerStable
  BY <1>4 DEF ServerStable, ServerSettled
<1>9. ServerDecision'
  BY <1>2, <1>4, ServerDecisionKept DEF IInv
<1>10. ServerProgress'
  BY <1>2, <1>4 DEF IInv, ServerProgress, Decided, CertificateExpected
<1> QED BY <1>2, <1>4, <1>5, <1>7, <1>8, <1>9, <1>10, ServerMoves

LEMMA SendHelloRetryRequest ==
    ASSUME IInv, tls13_send_hello_retry_request PROVE IInv'
<1> DEFINE m == [type |-> "HRR"]
<1>1. odd.side # "server" /\ server.st = "hello_retry_request"
  BY DEF tls13_send_hello_retry_request, ServerAt
<1>2. ServerSends([server EXCEPT !.st = "client_hello_again"], <<m>>)
  BY DEF tls13_send_hello_retry_request
<1>3. m \in ServerMessages /\ m.type = "HRR"
  BY DEF ServerMessages, Plain
<1> HIDE DEF m
<1>4. <<m>> \in Seq(ServerMessages) /\ Elements(<<m>>) = {m}
  BY <1>3, OneSent
<1>5. ASSUME server'.st = "client_hello_again" PROVE FromServer(m)'
  BY <1>3, <1>5 DEF FromServer, m
<1> QED BY <1>1, <1>2, <1>4, <1>5, ServerAdvancing DEF ServerSettled

LEMMA SendServerHello ==
    ASSUME IInv, tls13_send_server_hello PROVE IInv'
<1> DEFINE m == [type |-> "SH", flag |-> IF server.negotiated THEN "yes" ELSE "no",
                 psk |-> server.sel, share |-> server.mode # "psk"]
<1>1. TypeOK /\ odd.side # "server" /\ server.st = "server_hello"
  BY DEF IInv, tls13_send_server_hello, ServerAt
<1>2. ServerSends([server EXCEPT !.st = "encrypted_extensions"], <<m>>)
  BY DEF tls13_send_server_hello
<1>3. Decided(server)
  BY <1>1 DEF IInv, ServerProgress
<1>4. /\ m \in ServerHellos /\ m.type = "SH"
      /\ m.flag = IF server.negotiated THEN "yes" ELSE "no"
      /\ m.psk = server.sel /\ m.share = (server.mode # "psk")
  BY <1>1, ServerFacts DEF ServerHellos, Flags
<1>5. m \in ServerMessages
  BY <1>4 DEF ServerMessages
<1> HIDE DEF m
<1>6. <<m>> \in Seq(ServerMessages) /\ Elements(<<m>>) = {m}
  BY <1>5, OneSent
<1>7. ASSUME server'.st = "encrypted_extensions",
             server'.sel = server.sel, server'.mode = server.mode,
             server'.negotiated = server.negotiated,
             NEW x, x = m
      PROVE  FromServer(x)'
  BY <1>3, <1>4, <1>7 DEF FromServer, ServerSettled, Decided
<1> QED BY <1>1, <1>2, <1>6, <1>7, ServerAdvancing

LEMMA SendEncryptedExtensions ==
    ASSUME IInv, tls13_send_encrypted_extensions PROVE IInv'
<1> DEFINE m == [type |-> "EE"]
<1>1. odd.side # "server" /\ server.st = "encrypted_extensions"
  BY DEF tls13_send_encrypted_extensions, ServerAt
<1>2. PICK next \in {"certificate_request", AfterCertificateRequest(server)} :
         ServerSends([server EXCEPT !.st = next], <<m>>)
  BY DEF tls13_send_encrypted_extensions
<1>3. m \in ServerMessages /\ m.type = "EE"
  BY DEF ServerMessages, Plain
<1> HIDE DEF m
<1>4. <<m>> \in Seq(ServerMessages) /\ Elements(<<m>>) = {m}
  BY <1>3, OneSent
<1>5. FromServer(m)'
  BY <1>3 DEF FromServer, m
<1>6. /\ next \in {"certificate_request", "server_certificate", "server_finished"}
      /\ next = "server_certificate" => CertificateExpected(server)
  BY <1>2 DEF AfterCertificateRequest
<1> QED BY <1>1, <1>2, <1>4, <1>5, <1>6, ServerAdvancing

LEMMA SendCertificateRequest ==
    ASSUME IInv, tls13_send_certificate_request PROVE IInv'
<1> DEFINE m == [type |-> "CR"]
<1>1. odd.side # "server" /\ server.st = "certificate_request"
  BY DEF tls13_send_certificate_request, ServerAt
<1>2. PICK next \in {AfterCertificateRequest(server)} :
         ServerSends([server EXCEPT !.st = next], <<m>>)
  BY DEF tls13_send_certificate_request
<1>3. m \in ServerMessages /\ m.type = "CR"
  BY DEF ServerMessages, Plain
<1> HIDE DEF m
<1>4. <<m>> \in Seq(ServerMessages) /\ Elements(<<m>>) = {m}
  BY <1>3, OneSent
<1>5. FromServer(m)'
  BY <1>3 DEF FromServer, m
<1>6. /\ next \in {"server_certificate", "server_finished"}
      /\ next = "server_certificate" => CertificateExpected(server)
  BY <1>2 DEF AfterCertificateRequest
<1> QED BY <1>1, <1>2, <1>4, <1>5, <1>6, ServerAdvancing

\* Only a server with a chain and its key comes to CertificateVerify.
LEMMA SendServerCertificate ==
    ASSUME IInv, tls13_send_server_certificate PROVE IInv'
<1> DEFINE m == [type |-> "CERT"]
           n == [type |-> "CV", ok |-> TRUE]
<1>1. odd.side # "server" /\ server.st = "server_certificate"
  BY DEF tls13_send_server_certificate, ServerAt
<1>2. ServerSends([server EXCEPT !.st = "server_finished"], <<m, n>>)
  BY DEF tls13_send_server_certificate
<1>3. m \in ServerMessages /\ m.type = "CERT" /\ n \in ServerMessages /\ n.type = "CV"
  BY DEF ServerMessages, Plain, Verifies
<1> HIDE DEF m, n
<1>4. <<m, n>> \in Seq(ServerMessages) /\ Elements(<<m, n>>) = {m, n}
  BY <1>3, TwoSent
<1>5. PeerHoldsCertificateKey
  BY <1>1 DEF IInv, ServerProgress, ServerDecision, PeerHoldsCertificateKey
<1>6. ASSUME cfg' = cfg, odd' = odd PROVE FromServer(m)' /\ FromServer(n)'
  BY <1>3, <1>5, <1>6 DEF FromServer, PeerHoldsCertificateKey, m, n
<1> QED BY <1>1, <1>2, <1>4, <1>6, ServerAdvancing

LEMMA SendServerFinished ==
    ASSUME IInv, tls13_send_server_finished PROVE IInv'
<1> DEFINE m == Finished(server)
<1>1. TypeOK /\ odd.side # "server" /\ server.st = "server_finished"
  BY DEF IInv, tls13_send_server_finished, ServerAt
<1>2. ServerSends([server EXCEPT !.st = "client_finished"], <<m>>)
  BY DEF tls13_send_server_finished
<1>3. m \in Finisheds /\ m.type = "FIN" /\ m.psk = server.psk
  BY <1>1, ServerFacts DEF Finished, Finisheds
<1>4. m \in ServerMessages
  BY <1>3 DEF ServerMessages
<1> HIDE DEF m
<1>5. <<m>> \in Seq(ServerMessages) /\ Elements(<<m>>) = {m}
  BY <1>4, OneSent
<1>6. ASSUME server'.st = "client_finished", server'.psk = server.psk, odd' = odd,
             NEW x, x = m
      PROVE  FromServer(x)'
  BY <1>1, <1>3, <1>6 DEF FromServer, ServerSettled
<1> QED BY <1>1, <1>2, <1>5, <1>6, ServerAdvancing

\* The record a server takes off its stream was sent by its peer.
LEMMA ServerHears ==
    ASSUME IInv, toS # <<>>
    PROVE  Head(toS) \in ClientMessages /\ FromClient(Head(toS))
<1>1. Head(toS) \in ClientMessages /\ Head(toS) \in Elements(toS)
  BY TakenOff DEF IInv, TypeOK
<1> QED BY <1>1, Zenon DEF IInv, StreamsInv

\* The client's Finished verifies only under the PSK both have.
LEMMA RecvClientFinished ==
    ASSUME IInv, tls13_recv_client_finished PROVE IInv'
<1>1. /\ TypeOK /\ odd.side # "server" /\ server.st = "client_finished"
      /\ toS # <<>> /\ toS' = Tail(toS)
  BY DEF IInv, tls13_recv_client_finished, ServerReads, ServerAt
<1>2. CASE Head(toS) # Finished(server)
  <2>1. ServerFails
    BY <1>2 DEF tls13_recv_client_finished
  <2> QED BY <1>1, <2>1, ServerFailing
<1>3. CASE Head(toS) = Finished(server)
  <2>1. /\ server' = [server EXCEPT !.st = "over"]
        /\ toC' = toC \o <<>>
        /\ UNCHANGED <<policy, cfg, odd, client, changes>>
    BY <1>3 DEF tls13_recv_client_finished, ServerGoes
  <2>2. Head(toS).type = "FIN" /\ Head(toS).psk = server.psk
    BY <1>3 DEF Finished
  <2>3. IF odd.side = "client" THEN server.psk \in OddPsk
        ELSE client.st = "over" /\ server.psk = client.psk
    BY <1>1, <2>2, ServerHears DEF FromClient
  <2>4. "over" \in ServerStates
    BY DEF ServerStates, ClientStates
  <2>5. /\ server' \in ServerConns
        /\ server'.st = "over"
        /\ server'.offered = server.offered /\ server'.retried = server.retried
        /\ server'.sel = server.sel /\ server'.mode = server.mode
        /\ server'.psk = server.psk /\ server'.negotiated = server.negotiated
    BY <1>1, <2>1, <2>4, ServerToState, ServerFacts
  <2>6. toS' \in Seq(ClientMessages) /\ Elements(toS') \subseteq Elements(toS)
    BY <1>1, ServerStream
  <2>7. /\ toC' \in Seq(ServerMessages)
        /\ \A m \in Elements(toC') : m \in Elements(toC) \/ FromServer(m)'
    BY <1>1, <2>1, NothingSent, ServerSays
  <2>8. ServerStable
    BY <1>1, <2>5 DEF ServerStable, ServerSettled
  <2>9. ServerDecision'
    BY <2>1, <2>5, ServerDecisionKept DEF IInv
  <2>10. ServerProgress'
    BY <1>1, <2>1, <2>3, <2>5 DEF IInv, ServerProgress, Decided, OddPsk
  <2> QED BY <2>1, <2>5, <2>6, <2>7, <2>8, <2>9, <2>10, ServerMoves
<1> QED BY <1>2, <1>3

LEMMA HelloFacts ==
    ASSUME NEW ch \in ClientMessages, ch.type = "CH"
    PROVE  /\ ch.flag \in Flags /\ ch.psks \in Seq(PskEntries)
           /\ ch.modes \subseteq PskModes /\ ch.share \in Shares
           /\ ch.groups \in BOOLEAN /\ ch.last \in BOOLEAN /\ ch.early \in BOOLEAN
<1>1. ch \in Hellos
  BY DEF ClientMessages, Finisheds, Alert
<1> QED BY <1>1 DEF Hellos

\* What tls13_process_client_pre_shared_key_external may answer.
LEMMA ExternalSelectionFacts ==
    ASSUME TypeOK, NEW ch, ch.psks \in Seq(PskEntries),
           NEW sel \in ExternalSelections(ch), sel # BadBinder
    PROVE  /\ sel \in Nat
           /\ sel # 0 => sel \in DOMAIN ch.psks /\ ch.psks[sel].id \in Ids
           /\ sel = 0 => \A i \in DOMAIN ch.psks :
                            ~ (/\ ch.psks[i].id \in Ids
                               /\ cfg.known[ch.psks[i].id] # "none"
                               /\ ch.psks[i].suite = Suite)
<1> DEFINE matching == {i \in DOMAIN ch.psks :
                          /\ ch.psks[i].id \in Ids
                          /\ cfg.known[ch.psks[i].id] # "none"
                          /\ ch.psks[i].suite = Suite}
<1>1. CASE matching = {}
  <2>1. sel = 0
    BY <1>1 DEF ExternalSelections
  <2> QED BY <1>1, <2>1
<1>2. CASE matching # {}
  <2>1. PICK i \in matching :
           sel = IF cfg.known[ch.psks[i].id] = ch.psks[i].key THEN i ELSE BadBinder
    BY <1>2 DEF ExternalSelections
  <2>2. sel = i /\ i \in DOMAIN ch.psks /\ ch.psks[i].id \in Ids /\ i \in Nat \ {0}
    BY <2>1
  <2> QED BY <2>2
<1> QED BY <1>1, <1>2

LEMMA PskSelectionFacts ==
    ASSUME TypeOK, NEW p, NEW ch, ch.psks \in Seq(PskEntries),
           NEW sel \in PskSelections(p, ch), sel # BadBinder
    PROVE  /\ sel \in Nat
           /\ sel # 0 => /\ sel \in DOMAIN ch.psks
                         /\ CommonModes(ch) # {}
                         /\ ch.flag = "yes" => ch.psks[sel].id \in Ids
           /\ sel = 0 /\ post_quantum_psk_eligible(p, ch) =>
                \A i \in DOMAIN ch.psks :
                   ~ (/\ ch.psks[i].id \in Ids
                      /\ cfg.known[ch.psks[i].id] # "none"
                      /\ ch.psks[i].suite = Suite)
<1>1. CASE \/ CommonModes(ch) = {}
           \/ ch.flag = "yes" /\ ~ post_quantum_psk_eligible(p, ch)
  <2>1. sel = 0
    BY <1>1 DEF PskSelections
  <2>2. ~ post_quantum_psk_eligible(p, ch)
    BY <1>1 DEF post_quantum_psk_eligible
  <2> QED BY <2>1, <2>2
<1>2. CASE /\ CommonModes(ch) # {}
           /\ ~ (ch.flag = "yes" /\ ~ post_quantum_psk_eligible(p, ch))
  <2>1. CASE HasPsks
    <3>1. sel \in ExternalSelections(ch)
      BY <1>2, <2>1 DEF PskSelections
    <3> QED BY <1>2, <3>1, ExternalSelectionFacts
  <2>2. CASE ~ HasPsks
    <3>1. \A id \in Ids : cfg.known[id] = "none"
      BY <2>2 DEF HasPsks
    <3>2. sel \in {0} \cup {i \in DOMAIN ch.psks : ch.psks[i].type = "ticket"}
          /\ (ch.flag = "yes" => sel = 0)
      BY <1>2, <2>2 DEF PskSelections
    <3> QED BY <1>2, <3>1, <3>2
  <2> QED BY <2>1, <2>2
<1> QED BY <1>1, <1>2

\* The server's copy of a PSK carries the key the server holds for it.
LEMMA ServerPskFacts ==
    ASSUME TypeOK, NEW psks \in Seq(PskEntries), NEW sel \in Nat,
           sel # 0 => sel \in DOMAIN psks
    PROVE  LET psk == ServerPsk(psks, sel)
           IN /\ psk \in Secrets
              /\ psk.id \in Ids => psk.key = cfg.known[psk.id]
              /\ sel # 0 /\ psks[sel].id \in Ids => psk.id \in Ids
<1>1. CASE sel = 0
  <2>1. ServerPsk(psks, sel) = NoPsk
    BY <1>1 DEF ServerPsk
  <2>2. NoPsk \in Secrets /\ NoPsk.id = "none" /\ "none" \notin Ids
    BY PqPskAssumption DEF NoPsk, Secrets
  <2> QED BY <1>1, <2>1, <2>2
<1>2. CASE sel # 0
  <2> DEFINE e == psks[sel]
  <2>1. e \in PskEntries
    BY <1>2
  <2>2. e.id \in Ids \cup {"ticket"} /\ e.key \in {"right", "wrong"}
    BY <2>1, EntryFacts
  <2>3. ServerPsk(psks, sel) =
          [id |-> e.id, key |-> IF e.id \in Ids THEN cfg.known[e.id] ELSE e.key]
    BY <1>2 DEF ServerPsk
  <2>4. e.id \in Ids => cfg.known[e.id] \in {"none", "right", "wrong"}
    BY ConfigFacts DEF Known
  <2> HIDE DEF e
  <2>5. ServerPsk(psks, sel) \in Secrets
    BY <2>2, <2>3, <2>4 DEF Secrets
  <2>6. /\ ServerPsk(psks, sel).id = e.id
        /\ e.id \in Ids => ServerPsk(psks, sel).key = cfg.known[e.id]
    BY <2>3
  <2> QED BY <2>5, <2>6 DEF e
<1> QED BY <1>1, <1>2

\* The key exchange mode that tls13_recv_client_hello settles on.
LEMMA KeyExchangeFacts ==
    ASSUME NEW p, NEW ch, NEW sel, KeyExchange(p, ch, sel) # "none"
    PROVE  LET mode == KeyExchange(p, ch, sel)
               negotiated == post_quantum_psk_eligible(p, ch) /\ sel # 0
           IN /\ mode \in {"psk", "psk_dhe", "cert_dhe"}
              /\ sel # BadBinder
              /\ ~ (ch.flag = "yes" /\ p.require /\ sel = 0)
              /\ mode = "cert_dhe" \/ negotiated => cfg.cert
              /\ negotiated => mode = "psk_dhe"
              /\ sel = 0 => mode = "cert_dhe"
              /\ /\ sel # 0 /\ ch.groups
                 /\ "psk" \in CommonModes(ch) \/ "psk_dhe" \in CommonModes(ch)
                 => mode # "cert_dhe"
  BY DEF KeyExchange, KeyExchangeOutsidePatch

\* What the server decides on a ClientHello that it does not refuse.
LEMMA RecvClientHello ==
    ASSUME IInv, tls13_recv_client_hello PROVE IInv'
<1> DEFINE ch == Head(toS)
           p == policy["server"]
<1>1. /\ TypeOK /\ odd.side # "server" /\ server.st = "client_hello"
      /\ toS # <<>> /\ toS' = Tail(toS)
  BY DEF IInv, tls13_recv_client_hello, ServerReads, ServerAt
<1>2. CASE ServerFails
  BY <1>1, <1>2, ServerFailing
<1>3. CASE ~ ServerFails
  <2>1. ch.type = "CH" /\ ~ ClientHelloRefused(p, ch)
    BY <1>3 DEF tls13_recv_client_hello
  <2>2. PICK sel \in PskSelections(p, ch) :
          LET mode == KeyExchange(p, ch, sel)
              retry == mode # "psk" /\ ch.share # "ok"
          IN /\ mode # "none"
             /\ ServerGoes([server EXCEPT
                    !.st = IF retry THEN "hello_retry_request" ELSE "server_hello",
                    !.offered = ch.flag = "yes", !.retried = retry,
                    !.sel = sel, !.mode = mode,
                    !.psk = ServerPsk(ch.psks, sel),
                    !.negotiated = post_quantum_psk_eligible(p, ch) /\ sel # 0], <<>>)
    BY <1>3, <2>1 DEF tls13_recv_client_hello
  <2> DEFINE mode == KeyExchange(p, ch, sel)
             retry == mode # "psk" /\ ch.share # "ok"
             psk == ServerPsk(ch.psks, sel)
             eligible == post_quantum_psk_eligible(p, ch)
             st == IF retry THEN "hello_retry_request" ELSE "server_hello"
  <2>3. /\ server' = [server EXCEPT !.st = st, !.offered = (ch.flag = "yes"),
                          !.retried = retry, !.sel = sel, !.mode = mode, !.psk = psk,
                          !.negotiated = (eligible /\ sel # 0)]
        /\ toC' = toC \o <<>>
        /\ UNCHANGED <<policy, cfg, odd, client, changes>>
    BY <2>2 DEF ServerGoes
  <2>4. ch \in ClientMessages /\ FromClient(ch)
    BY <1>1, ServerHears
  <2>5. /\ ch.flag \in Flags /\ ch.psks \in Seq(PskEntries)
        /\ ch.modes \subseteq PskModes /\ ch.groups \in BOOLEAN
    BY <2>1, <2>4, HelloFacts
  <2>6. /\ mode \in {"psk", "psk_dhe", "cert_dhe"}
        /\ sel # BadBinder
        /\ ~ (ch.flag = "yes" /\ p.require /\ sel = 0)
        /\ mode = "cert_dhe" \/ (eligible /\ sel # 0) => cfg.cert
        /\ eligible /\ sel # 0 => mode = "psk_dhe"
        /\ sel = 0 => mode = "cert_dhe"
        /\ /\ sel # 0 /\ ch.groups
           /\ "psk" \in CommonModes(ch) \/ "psk_dhe" \in CommonModes(ch)
           => mode # "cert_dhe"
    BY <2>2, KeyExchangeFacts
  <2>7. /\ sel \in Nat
        /\ sel # 0 => /\ sel \in DOMAIN ch.psks
                      /\ CommonModes(ch) # {}
                      /\ ch.flag = "yes" => ch.psks[sel].id \in Ids
        /\ sel = 0 /\ eligible =>
             \A i \in DOMAIN ch.psks :
                ~ (/\ ch.psks[i].id \in Ids
                   /\ cfg.known[ch.psks[i].id] # "none"
                   /\ ch.psks[i].suite = Suite)
    BY <1>1, <2>2, <2>5, <2>6, PskSelectionFacts
  <2>8. /\ psk \in Secrets
        /\ psk.id \in Ids => psk.key = cfg.known[psk.id]
        /\ sel # 0 /\ ch.psks[sel].id \in Ids => psk.id \in Ids
    BY <1>1, <2>5, <2>7, ServerPskFacts
  <2>9. eligible => ch.flag = "yes"
    BY DEF post_quantum_psk_eligible
  <2>10. p.require => eligible /\ sel # 0
    <3>1. p.require => p.enable
      BY <1>1, PolicyFacts DEF Sides
    <3> QED BY <2>1, <2>5, <2>6, <3>1
         DEF ClientHelloRefused, post_quantum_psk_eligible, Flags
  <2>11. Honest => /\ client.st # "client_hello" /\ ch.groups
                   /\ ch.flag = IF client.offered THEN "yes" ELSE "no"
                   /\ ch.psks = cfg.psks
                   /\ ch.psks # <<>> => ch.modes = cfg.modes["client"]
    BY <1>1, <2>1, <2>4 DEF FromClient, Honest, IInv, ClientProgress
  <2>12. Honest => (ch.flag = "yes") = client.offered
    <3>1. client.offered \in BOOLEAN
      BY <1>1, ClientFacts
    <3> QED BY <2>11, <3>1
  <2>13. Honest => (sel = 0) = (mode = "cert_dhe")
    <3>1. sel # 0 => "psk" \in CommonModes(ch) \/ "psk_dhe" \in CommonModes(ch)
      BY <2>5, <2>7 DEF CommonModes, PskModes
    <3> QED BY <2>6, <2>11, <3>1
  <2>14. Honest /\ p.enable /\ "psk_dhe" \in cfg.modes["server"]
           /\ ch.flag = "yes" /\ ~ (eligible /\ sel # 0) => MatchingIds = {}
    <3> SUFFICES ASSUME Honest, p.enable, "psk_dhe" \in cfg.modes["server"],
                        ch.flag = "yes", ~ (eligible /\ sel # 0)
                 PROVE  MatchingIds = {}
      OBVIOUS
    <3>1. ch.psks # <<>>
      BY <2>1 DEF ClientHelloRefused
    <3>2. client.offered
      BY <2>12
    <3>3. "psk_dhe" \in ch.modes
      BY <2>11, <3>1, <3>2 DEF IInv, ClientDecision
    <3>4. eligible
      BY <3>3 DEF post_quantum_psk_eligible, CommonModes
    <3>5. sel = 0
      BY <3>4
    <3> QED BY <2>7, <2>11, <3>4, <3>5 DEF MatchingIds
  <2> HIDE DEF ch, p, mode, psk, eligible
  <2>15. /\ server' \in ServerConns
         /\ server'.st \in {"hello_retry_request", "server_hello"}
         /\ server'.offered = (ch.flag = "yes")
         /\ server'.sel = sel /\ server'.mode = mode /\ server'.psk = psk
         /\ server'.negotiated = (eligible /\ sel # 0)
    <3>1. server \in ServerConns
      BY <1>1, ServerFacts
    <3>2. mode \in Modes
      BY <2>6 DEF Modes, PskModes
    <3>3. /\ st \in {"hello_retry_request", "server_hello"} /\ st \in ServerStates
          /\ retry \in BOOLEAN
      BY DEF ServerStates, ClientStates
    <3> HIDE DEF st, retry
    <3> QED BY <2>3, <2>7, <2>8, <3>1, <3>2, <3>3 DEF ServerConns
  <2>16. toS' \in Seq(ClientMessages) /\ Elements(toS') \subseteq Elements(toS)
    BY <1>1, ServerStream
  <2>17. /\ toC' \in Seq(ServerMessages)
         /\ \A m \in Elements(toC') : m \in Elements(toC) \/ FromServer(m)'
    BY <1>1, <2>3, NothingSent, ServerSays
  <2>18. ServerStable
    BY <1>1, <2>15 DEF ServerStable, ServerSettled
  <2>19. ServerDecision'
    <3>1. /\ server'.mode = "cert_dhe" \/ server'.negotiated => cfg.cert
          /\ server'.negotiated => server'.mode = "psk_dhe" /\ server'.psk.id \in Ids
      BY <2>6, <2>7, <2>8, <2>9, <2>15
    <3>2. server'.psk.id \in Ids => server'.psk.key = cfg.known[server'.psk.id]
      BY <2>8, <2>15
    <3>3. policy["server"].require => server'.negotiated
      BY <2>10, <2>15 DEF p
    <3>4. Honest => /\ client.st # "client_hello"
                    /\ server'.offered = client.offered
                    /\ (server'.sel = 0) = (server'.mode = "cert_dhe")
      BY <2>11, <2>12, <2>13, <2>15
    <3>5. Honest /\ policy["server"].enable /\ "psk_dhe" \in cfg.modes["server"]
            /\ server'.offered /\ ~ server'.negotiated => MatchingIds = {}
      BY <2>14, <2>15 DEF p
    <3>6. MatchingIds = {} => (MatchingIds = {})'
      BY <2>3 DEF MatchingIds
    <3> QED BY <2>3, <3>1, <3>2, <3>3, <3>4, <3>5, <3>6
         DEF ServerDecision, CertificateExpected, Decided, Honest
  <2>20. ServerProgress'
    BY <1>1, <2>3, <2>6, <2>15 DEF ServerProgress, Decided
  <2> QED BY <2>3, <2>15, <2>16, <2>17, <2>18, <2>19, <2>20, ServerMoves
<1> QED BY <1>2, <1>3

\* The second ClientHello may move the selected PSK, not the decision.
LEMMA RecvClientHelloAgain ==
    ASSUME IInv, tls13_recv_client_hello_again PROVE IInv'
<1> DEFINE ch == Head(toS)
<1>1. /\ TypeOK /\ odd.side # "server" /\ server.st = "client_hello_again"
      /\ toS # <<>> /\ toS' = Tail(toS)
  BY DEF IInv, tls13_recv_client_hello_again, ServerReads, ServerAt
<1>2. CASE ServerFails
  BY <1>1, <1>2, ServerFailing
<1>3. CASE ~ ServerFails
  <2>1. ch.type = "CH"
    BY <1>3 DEF tls13_recv_client_hello_again
  <2>2. PICK sel \in {server.sel} \cup
                (IF server.sel = 0 THEN {} ELSE ExternalSelections(ch)) :
          /\ sel \in {server.sel} \cup DOMAIN ch.psks
          /\ ~ (sel = 0 /\ server.sel # 0)
          /\ ServerGoes([server EXCEPT
                 !.st = "server_hello", !.sel = sel,
                 !.psk = IF sel = server.sel THEN @ ELSE ServerPsk(ch.psks, sel)], <<>>)
    BY <1>3, <2>1 DEF tls13_recv_client_hello_again
  <2> DEFINE psk == IF sel = server.sel THEN server.psk ELSE ServerPsk(ch.psks, sel)
  <2>3. /\ server' = [server EXCEPT !.st = "server_hello", !.sel = sel, !.psk = psk]
        /\ toC' = toC \o <<>>
        /\ UNCHANGED <<policy, cfg, odd, client, changes>>
    BY <2>2 DEF ServerGoes
  <2>4. ch \in ClientMessages
    BY <1>1, ServerHears
  <2>5. ch.psks \in Seq(PskEntries)
    BY <2>1, <2>4, HelloFacts
  <2>6. server \in ServerConns /\ server.psk \in Secrets /\ server.sel \in Nat
    BY <1>1, ServerFacts
  <2>7. /\ sel \in Nat /\ psk \in Secrets
        /\ psk.id \in Ids => psk.key = cfg.known[psk.id]
        /\ server.psk.id \in Ids => psk.id \in Ids
    <3>1. CASE sel = server.sel
      <4>1. psk = server.psk
        BY <3>1
      <4> QED BY <2>6, <3>1, <4>1 DEF IInv, ServerDecision
    <3>2. CASE sel # server.sel
      <4>1. sel \in ExternalSelections(ch) /\ sel \in DOMAIN ch.psks /\ sel # 0
        BY <2>2, <2>5, <3>2
      <4>2. sel # BadBinder
        BY <2>5, <4>1 DEF BadBinder
      <4>3. sel \in Nat /\ ch.psks[sel].id \in Ids
        BY <1>1, <2>5, <4>1, <4>2, ExternalSelectionFacts
      <4>4. psk = ServerPsk(ch.psks, sel)
        BY <3>2
      <4> QED BY <1>1, <2>5, <4>1, <4>3, <4>4, ServerPskFacts
    <3> QED BY <3>1, <3>2
  <2>8. (sel = 0) = (server.sel = 0)
    BY <2>2, <2>5, <2>6
  <2> HIDE DEF ch, psk
  <2>9. /\ server' \in ServerConns
        /\ server'.st = "server_hello"
        /\ server'.offered = server.offered
        /\ server'.sel = sel /\ server'.mode = server.mode /\ server'.psk = psk
        /\ server'.negotiated = server.negotiated
    BY <2>3, <2>6, <2>7 DEF ServerConns, ServerStates, ClientStates
  <2>10. toS' \in Seq(ClientMessages) /\ Elements(toS') \subseteq Elements(toS)
    BY <1>1, ServerStream
  <2>11. /\ toC' \in Seq(ServerMessages)
         /\ \A m \in Elements(toC') : m \in Elements(toC) \/ FromServer(m)'
    BY <1>1, <2>3, NothingSent, ServerSays
  <2>12. ServerStable
    BY <1>1, <2>9 DEF ServerStable, ServerSettled
  <2>13. ServerDecision'
    <3>1. MatchingIds = {} => (MatchingIds = {})'
      BY <2>3 DEF MatchingIds
    <3> QED BY <2>3, <2>7, <2>8, <2>9, <3>1
         DEF IInv, ServerDecision, CertificateExpected, Decided, Honest
  <2>14. ServerProgress'
    BY <1>1, <2>3, <2>9 DEF IInv, ServerProgress, Decided
  <2> QED BY <2>3, <2>9, <2>10, <2>11, <2>12, <2>13, <2>14, ServerMoves
<1> QED BY <1>2, <1>3

-----------------------------------------------------------------------------
(* The policy and the peers that do not run this code *)

\* The two setters keep a strict policy enabled.
LEMMA SettersKeepPolicies ==
    ASSUME NEW p \in Policies, NEW on \in BOOLEAN
    PROVE  /\ tls13_ctx_enable_post_quantum_pre_shared_key(p, on) \in Policies
           /\ tls13_ctx_require_post_quantum_pre_shared_key(p, on) \in Policies
<1>1. Off.enable = FALSE /\ Off.require = FALSE
  BY DEF Off
<1>2. Compatible.enable = TRUE /\ Compatible.require = FALSE
  BY DEF Compatible
<1>3. Strict.enable = TRUE /\ Strict.require = TRUE
  BY DEF Strict
<1>4. /\ p.enable \in BOOLEAN /\ p.require \in BOOLEAN /\ (p.require => p.enable)
  BY <1>1, <1>2, <1>3, Zenon DEF Policies
<1>5. ASSUME NEW e \in BOOLEAN, NEW r \in BOOLEAN, r => e
      PROVE  [enable |-> e, require |-> r] \in Policies
  BY <1>5 DEF Policies, Off, Compatible, Strict
<1>6. tls13_ctx_enable_post_quantum_pre_shared_key(p, on) \in Policies
  BY <1>4, <1>5 DEF tls13_ctx_enable_post_quantum_pre_shared_key
<1>7. tls13_ctx_require_post_quantum_pre_shared_key(p, on) \in Policies
  BY <1>4, <1>5 DEF tls13_ctx_require_post_quantum_pre_shared_key
<1> QED BY <1>6, <1>7

LEMMA PolicySet == ASSUME IInv, SetPolicy PROVE IInv'
<1>1. /\ changes < Scenario.changes /\ changes' = changes + 1
      /\ UNCHANGED <<cfg, odd, client, server, toS, toC>>
  BY DEF SetPolicy
<1>2. changes \in Nat /\ Scenario.changes \in Nat
      /\ policy \in [Sides -> Policies]
  BY PqPskAssumption DEF IInv, TypeOK, Configs, Scenario
<1>3. policy' \in [Sides -> Policies]
  <2>1. PICK side \in Sides, on \in BOOLEAN :
          \/ policy' = [policy EXCEPT ![side] =
                 tls13_ctx_enable_post_quantum_pre_shared_key(policy[side], on)]
          \/ policy' = [policy EXCEPT ![side] =
                 tls13_ctx_require_post_quantum_pre_shared_key(policy[side], on)]
    BY DEF SetPolicy
  <2>2. policy[side] \in Policies
    BY <1>2
  <2> QED BY <1>2, <2>1, <2>2, SettersKeepPolicies
<1>4. changes' # 0 /\ changes' \in 0..Scenario.changes /\ Scenario' = Scenario
  BY <1>1, <1>2 DEF Scenario
<1>5. TypeOK'
  BY <1>1, <1>3, <1>4 DEF IInv, TypeOK
<1>6. StreamsInv'
  BY <1>1 DEF IInv, StreamsInv, FromServer, FromClient, PeerHoldsCertificateKey,
      OddPsk, ServerSettled, Decided
<1>7. ClientDecision' /\ ClientProgress'
  BY <1>1, <1>4 DEF IInv, ClientDecision, ClientProgress, CertificateExpected,
      Decided, Honest, PeerHoldsCertificateKey, ServerSettled, OddPsk
<1>8. ServerDecision' /\ ServerProgress'
  BY <1>1, <1>4 DEF IInv, ServerDecision, ServerProgress, CertificateExpected,
      Decided, Honest, OddPsk
<1> QED BY <1>5, <1>6, <1>7, <1>8 DEF IInv

\* The lists an odd client may send are PSK lists.
LEMMA OddListsAreLists ==
    ASSUME TypeOK PROVE OddLists \subseteq Seq(PskEntries)
<1> SUFFICES ASSUME NEW list \in Scenario.psks
             PROVE  [i \in DOMAIN list |-> [list[i] EXCEPT
                        !.key = IF list[i].id \in odd.ids THEN list[i].key ELSE "wrong"]]
                    \in Seq(PskEntries)
  BY DEF OddLists
<1>1. list \in Seq(PskEntries)
  BY PqPskAssumption DEF TypeOK, Configs, Scenario
<1>2. ASSUME NEW e \in PskEntries
      PROVE  [e EXCEPT !.key = IF e.id \in odd.ids THEN e.key ELSE "wrong"] \in PskEntries
  BY DEF PskEntries
<1>3. DOMAIN list = 1..Len(list) /\ Len(list) \in Nat
      /\ \A i \in DOMAIN list : list[i] \in PskEntries
  BY <1>1
<1> QED BY <1>2, <1>3

LEMMA OddPskFacts == ASSUME TypeOK PROVE OddPsk \subseteq Secrets
<1>1. odd.ids \subseteq Ids
  BY DEF TypeOK, OddPeers
<1> QED BY <1>1 DEF OddPsk, NoPsk, Secrets

LEMMA OddClientStep == ASSUME IInv, OddClient PROVE IInv'
<1>1. /\ TypeOK /\ odd.side = "client" /\ toC' = <<>>
      /\ UNCHANGED <<policy, cfg, odd, client, server, changes>>
  BY DEF IInv, OddClient
<1>2. PICK msg \in OddClientMessages : toS' = <<msg>>
  BY DEF OddClient
<1>3. msg \in ClientMessages
  <2>1. Scenario.modes \subseteq SUBSET PskModes
    BY <1>1, PqPskAssumption DEF TypeOK, Configs, Scenario
  <2>2. OddLists \subseteq Seq(PskEntries) /\ OddPsk \subseteq Secrets
    BY <1>1, OddListsAreLists, OddPskFacts
  <2>3. msg \in Hellos \/ msg \in Finisheds
    BY <2>1, <2>2 DEF OddClientMessages, Hellos, Finisheds
  <2> QED BY <2>3 DEF ClientMessages
<1>4. msg.type = "FIN" => msg.psk \in OddPsk
  BY DEF OddClientMessages
<1>5. FromClient(msg)'
  BY <1>1, <1>4 DEF FromClient, OddPsk
<1>6. toS' \in Seq(ClientMessages) /\ Elements(toS') = {msg}
  BY <1>2, <1>3, OneSent
<1>7. toC' \in Seq(ServerMessages) /\ Elements(toC') = {}
  BY <1>1, NothingSent
<1>8. ClientStable
  BY <1>1 DEF ClientStable
<1>9. client' \in ClientConns
  BY <1>1, ClientFacts
<1>10. ClientDecision' /\ ClientProgress'
  BY <1>1 DEF IInv, ClientDecision, ClientProgress, CertificateExpected,
      Decided, Honest, PeerHoldsCertificateKey, ServerSettled, OddPsk
<1> QED BY <1>1, <1>5, <1>6, <1>7, <1>8, <1>9, <1>10, ClientMoves

LEMMA OddServerStep == ASSUME IInv, OddServer PROVE IInv'
<1>1. /\ TypeOK /\ odd.side = "server" /\ toS' = <<>>
      /\ UNCHANGED <<policy, cfg, odd, client, server, changes>>
  BY DEF IInv, OddServer
<1>2. PICK msg \in OddServerMessages : toC' = <<msg>>
  BY DEF OddServer
<1>3. msg \in ServerMessages
  <2>1. OddPsk \subseteq Secrets /\ odd.cert \in BOOLEAN
    BY <1>1, OddPskFacts DEF TypeOK, OddPeers
  <2>2. msg \in ServerHellos \/ msg \in Finisheds \/ msg \in Verifies \/ msg \in Plain
    BY <2>1 DEF OddServerMessages, ServerHellos, Finisheds, Verifies, Plain
  <2> QED BY <2>2 DEF ServerMessages
<1>4. /\ msg.type = "FIN" => msg.psk \in OddPsk
      /\ msg.type = "CV" => msg.ok = odd.cert
  BY DEF OddServerMessages
<1>5. FromServer(msg)'
  BY <1>1, <1>4 DEF FromServer, OddPsk, PeerHoldsCertificateKey
<1>6. toC' \in Seq(ServerMessages) /\ Elements(toC') = {msg}
  BY <1>2, <1>3, OneSent
<1>7. toS' \in Seq(ClientMessages) /\ Elements(toS') = {}
  BY <1>1, NothingSent
<1>8. ServerStable
  BY <1>1 DEF ServerStable, ServerSettled
<1>9. server' \in ServerConns
  BY <1>1, ServerFacts
<1>10. ServerDecision' /\ ServerProgress'
  BY <1>1 DEF IInv, ServerDecision, ServerProgress, CertificateExpected,
      Decided, Honest, OddPsk, MatchingIds
<1> QED BY <1>1, <1>5, <1>6, <1>7, <1>8, <1>9, <1>10, ServerMoves

-----------------------------------------------------------------------------
(* The theorems *)

LEMMA InitIInv == ASSUME Init PROVE IInv
<1>1. PICK n \in DOMAIN Scenarios :
        /\ odd \in Scenarios[n].odd
        /\ cfg \in [scenario : {n}, psks : Scenarios[n].psks, early : BOOLEAN,
                    modes : [Sides -> Scenarios[n].modes], share : Shares,
                    known : Scenarios[n].known, cert : BOOLEAN]
  BY DEF Init
<1>2. /\ policy \in [Sides -> Policies]
      /\ client = [st |-> "client_hello", psks |-> cfg.psks,
                   modes |-> cfg.modes["client"], offered |-> FALSE,
                   retried |-> FALSE, mode |-> "none", psk |-> NoPsk,
                   negotiated |-> FALSE, verified |-> FALSE]
      /\ server = [st |-> "client_hello", offered |-> FALSE, retried |-> FALSE,
                   sel |-> 0, mode |-> "none", psk |-> NoPsk,
                   negotiated |-> FALSE]
      /\ toS = <<>> /\ toC = <<>> /\ changes = 0
  BY DEF Init
<1>3. /\ Scenarios[n].psks \subseteq Seq(PskEntries)
      /\ Scenarios[n].known \subseteq Known
      /\ Scenarios[n].modes \subseteq SUBSET PskModes
      /\ Scenarios[n].odd \subseteq OddPeers
      /\ Scenarios[n].changes \in Nat
  BY PqPskAssumption
<1>4. /\ cfg \in Configs /\ cfg.scenario = n /\ odd \in OddPeers
      /\ cfg.psks \in Seq(PskEntries) /\ cfg.modes["client"] \subseteq PskModes
  BY <1>1, <1>3 DEF Configs, Sides
<1>5. NoPsk \in Secrets /\ NoPsk.id = "none" /\ "none" \notin Ids
  BY PqPskAssumption DEF NoPsk, Secrets
<1>6. client \in ClientConns
  BY <1>2, <1>4, <1>5 DEF ClientConns, ClientStates, Modes
<1>7. server \in ServerConns
  BY <1>2, <1>5 DEF ServerConns, ServerStates, ClientStates, Modes
<1>8. TypeOK
  <2>1. changes \in 0..Scenario.changes
    BY <1>2, <1>3, <1>4 DEF Scenario
  <2>2. toS \in Seq(ClientMessages) /\ toC \in Seq(ServerMessages)
    BY <1>2
  <2> QED BY <1>2, <1>4, <1>6, <1>7, <2>1, <2>2 DEF TypeOK
<1>9. StreamsInv
  BY <1>2, NothingSent DEF StreamsInv
<1>10. /\ client.st = "client_hello" /\ client.psks = cfg.psks
       /\ client.modes = cfg.modes["client"] /\ client.mode = "none"
       /\ client.psk = NoPsk /\ ~ client.offered /\ ~ client.retried
       /\ ~ client.negotiated /\ ~ client.verified
  BY <1>2
<1>11. /\ server.st = "client_hello" /\ server.mode = "none"
       /\ server.psk = NoPsk /\ ~ server.negotiated
  BY <1>2
<1>12. ClientDecision /\ ClientProgress
  BY <1>10 DEF ClientDecision, ClientProgress, Decided, CertificateExpected
<1>13. ServerDecision /\ ServerProgress
  BY <1>5, <1>11 DEF ServerDecision, ServerProgress, Decided, CertificateExpected
<1> QED BY <1>8, <1>9, <1>12, <1>13 DEF IInv

LEMMA StepIInv == ASSUME IInv, [Next]_vars PROVE IInv'
<1>1. CASE tls13_do_client_handshake
  BY <1>1, SendClientHello, RecvHelloRetryRequest, SendClientHelloAgain,
     RecvServerHello, RecvEncryptedExtensions, RecvCertificateRequest,
     RecvServerCertificate, RecvCertificateVerify, RecvServerFinished,
     SendClientFinished DEF tls13_do_client_handshake
<1>2. CASE tls13_do_server_handshake
  BY <1>2, RecvClientHello, SendHelloRetryRequest, RecvClientHelloAgain,
     SendServerHello, SendEncryptedExtensions, SendCertificateRequest,
     SendServerCertificate, SendServerFinished, RecvClientFinished
     DEF tls13_do_server_handshake
<1>3. CASE SetPolicy
  BY <1>3, PolicySet
<1>4. CASE OddClient
  BY <1>4, OddClientStep
<1>5. CASE OddServer
  BY <1>5, OddServerStep
<1>6. CASE UNCHANGED vars
  <2>1. UNCHANGED <<policy, cfg, odd, client, server, toS, toC, changes>>
    BY <1>6 DEF vars
  <2>2. TypeOK' /\ StreamsInv'
    BY <2>1 DEF IInv, TypeOK, Scenario, StreamsInv, FromServer, FromClient,
       PeerHoldsCertificateKey, OddPsk, ServerSettled, Decided
  <2>3. ClientDecision' /\ ClientProgress'
    BY <2>1 DEF IInv, ClientDecision, ClientProgress, CertificateExpected,
       Decided, Honest, PeerHoldsCertificateKey, ServerSettled, OddPsk
  <2>4. ServerDecision' /\ ServerProgress'
    BY <2>1 DEF IInv, ServerDecision, ServerProgress, CertificateExpected,
       Decided, Honest, OddPsk, MatchingIds
  <2> QED BY <2>2, <2>3, <2>4 DEF IInv
<1> QED BY <1>1, <1>2, <1>3, <1>4, <1>5, <1>6 DEF Next

LEMMA InductiveInvariant == Spec => []IInv
<1>1. Init => IInv
  BY InitIInv
<1>2. IInv /\ [Next]_vars => IInv'
  BY StepIInv
<1> QED BY <1>1, <1>2, PTL DEF Spec

\* Two peers that run this code agree, when both are done, on whether the PSK
\* was negotiated, on the PSK, the mode and the flag, and the second
\* ClientHello repeats the flag of the first: for every configuration, any
\* number of policy changes and with or without HelloRetryRequest.
THEOREM PeersAlwaysAgree == Spec => []AgreementInv
<1>1. IInv => AgreementInv
  BY Consequences DEF IInv, AgreementInv
<1> QED BY <1>1, InductiveInvariant, PTL

\* A client that offered the flag completes only with a server that proved the
\* certificate's private key, whatever that server sends.
THEOREM OfferedClientAuthenticates == Spec => []OfferedMeansCertificate
<1>1. IInv => OfferedMeansCertificate
  BY DEF IInv, ClientDecision, ClientProgress, OfferedMeansCertificate
<1> QED BY <1>1, InductiveInvariant, PTL

\* Recorded as negotiated, the handshake is hybrid on that side: DHE, an
\* external PSK that the peer holds, and a proved certificate key.
THEOREM NegotiatedIsHybrid == Spec => []NegotiatedMeansHybrid
<1>1. ASSUME IInv PROVE NegotiatedMeansHybrid
  <2>1. ASSUME client.st = "over", client.negotiated
        PROVE  /\ client.psk.id \in Ids /\ PeerHolds("client", client.psk)
               /\ client.mode = "psk_dhe" /\ PeerHoldsCertificateKey
    <3>1. client.psk.id \in Ids /\ client.mode = "psk_dhe"
      BY <1>1, <2>1 DEF IInv, ClientDecision
    <3>2. client.verified /\ PeerHoldsCertificateKey /\ odd.side # "client"
      BY <1>1, <2>1 DEF IInv, ClientProgress, CertificateExpected
    <3>3. CASE odd.side = "none"
      <4>1. client.psk = server.psk
        BY <1>1, <2>1, <3>3 DEF IInv, ClientProgress
      <4>2. cfg.known[client.psk.id] = client.psk.key
        BY <1>1, <3>1, <4>1 DEF IInv, ServerDecision
      <4> QED BY <3>1, <3>2, <3>3, <4>2 DEF PeerHolds
    <3>4. CASE odd.side = "server"
      <4>1. client.psk \in OddPsk
        BY <1>1, <2>1, <3>4 DEF IInv, ClientProgress
      <4>2. client.psk.id \in odd.ids \/ client.psk.key = "wrong"
        BY <3>1, <4>1, PqPskAssumption DEF OddPsk, NoPsk
      <4> QED BY <3>1, <3>2, <3>4, <4>2 DEF PeerHolds
    <3>5. odd.side \in {"none", "client", "server"}
      BY <1>1 DEF IInv, TypeOK, OddPeers, Sides
    <3> QED BY <3>2, <3>3, <3>4, <3>5
  <2>2. ASSUME server.st = "over", server.negotiated
        PROVE  /\ server.psk.id \in Ids /\ PeerHolds("server", server.psk)
               /\ server.mode = "psk_dhe" /\ cfg.cert
    <3>1. server.psk.id \in Ids /\ server.mode = "psk_dhe" /\ cfg.cert
      BY <1>1, <2>2 DEF IInv, ServerDecision, CertificateExpected
    <3>2. odd.side # "server"
      BY <1>1, <2>2 DEF IInv, ServerProgress
    <3>3. CASE odd.side = "none"
      <4>1. server.psk = client.psk
        BY <1>1, <2>2, <3>3 DEF IInv, ServerProgress
      <4>2. client.psk # NoPsk
        BY <3>1, <4>1, PqPskAssumption DEF NoPsk
      <4>3. PICK e \in Elements(cfg.psks) :
              e.id = server.psk.id /\ e.key = server.psk.key
        BY <1>1, <4>1, <4>2 DEF IInv, ClientDecision
      <4>4. \E i \in DOMAIN cfg.psks : /\ cfg.psks[i].id = server.psk.id
                                        /\ cfg.psks[i].key = server.psk.key
        BY <4>3 DEF Elements
      <4> QED BY <3>1, <3>3, <4>4 DEF PeerHolds
    <3>4. CASE odd.side = "client"
      <4>1. server.psk \in OddPsk
        BY <1>1, <2>2, <3>4 DEF IInv, ServerProgress
      <4>2. server.psk.id \in odd.ids \/ server.psk.key = "wrong"
        BY <3>1, <4>1, PqPskAssumption DEF OddPsk, NoPsk
      <4> QED BY <3>1, <3>4, <4>2 DEF PeerHolds
    <3>5. odd.side \in {"none", "client", "server"}
      BY <1>1 DEF IInv, TypeOK, OddPeers, Sides
    <3> QED BY <3>2, <3>3, <3>4, <3>5
  <2> QED BY <2>1, <2>2 DEF NegotiatedMeansHybrid
<1> QED BY <1>1, InductiveInvariant, PTL

\* Under a strict policy that nobody changes, a side completes only a
\* negotiated handshake.
THEOREM StrictStaysStrict == Spec => []StrictNeverFallsBack
<1>1. IInv => StrictNeverFallsBack
  BY DEF IInv, ClientDecision, ClientProgress, ServerDecision, ServerProgress,
     StrictNeverFallsBack
<1> QED BY <1>1, InductiveInvariant, PTL

\* Two peers that complete without the PSK although both wanted it share no
\* identity: no binder or protocol error became a fallback.
THEOREM FallbackIsMismatch == Spec => []FallbackOnlyWithoutMatch
<1>1. ASSUME IInv PROVE FallbackOnlyWithoutMatch
  <2> SUFFICES ASSUME BothOver, changes = 0, client.offered, ~ server.negotiated,
                      policy["server"].enable, "psk_dhe" \in cfg.modes["server"]
               PROVE  MatchingIds = {}
    BY DEF FallbackOnlyWithoutMatch
  <2>1. Honest /\ server.st = "over"
    BY DEF BothOver
  <2>2. Decided(server)
    BY <1>1, <2>1 DEF IInv, ServerProgress
  <2>3. server.offered
    BY <1>1, <2>1, <2>2 DEF IInv, ServerDecision
  <2> QED BY <1>1, <2>1, <2>2, <2>3 DEF IInv, ServerDecision
<1> QED BY <1>1, InductiveInvariant, PTL
=============================================================================
