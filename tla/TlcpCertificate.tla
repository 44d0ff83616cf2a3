-------------------------- MODULE TlcpCertificate ---------------------------
(***************************************************************************)
(* The TLCP client of patches/gmssl/0002 and 0003: from the server's       *)
(* Certificate message through ServerKeyExchange to ClientKeyExchange,     *)
(* with the Composite certificate callback of HybridCert.  The chain that  *)
(* arrives is what the CA issued, after up to MaxEdits alterations: any    *)
(* field changed, a certificate damaged, a component signature replaced.   *)
(* One component algorithm may be unsound: anybody can then produce        *)
(* signatures of that component in anybody's name, the CA's on a           *)
(* certificate and, if it is SM2, the server's on the ServerKeyExchange.   *)
(***************************************************************************)
EXTENDS HybridCert, Naturals

CONSTANTS MaxEdits      \* bound on the alterations of a chain

ASSUME MaxEditsAssumption == MaxEdits \in Nat

VARIABLES
    cfg,        \* the client's TLS_CTX: callback, policy, host, trust anchor
    unsound,    \* the algorithms whose signatures anybody can make
    chain,      \* the server's Certificate message
    edits,      \* alterations so far
    phase,      \* the client's handshake state
    consulted,  \* the original GmSSL verifier decided about the chain
    hybrid,     \* conn->tlcp_hybrid_sign_cert
    sm2Key,     \* conn->tlcp_hybrid_sm2_public_key
    skeBy,      \* who made the accepted ServerKeyExchange
    pmsTo       \* whose key the premaster secret was encrypted to

vars == <<cfg, unsound, chain, edits, phase, consulted, hybrid, sm2Key, skeBy, pmsTo>>
network == <<unsound, chain, edits>>

Roles == {"signing", "encryption"}

\* A conventional TLCP certificate: SM2 keys and an SM2 signature only.
Ordinary(subject, holder, profile) ==
    [create_sm2_encryption(subject, holder) EXCEPT
        !.profile = profile, !.eku = profile = "sign",
        !.san = IF profile = "sign" THEN subject ELSE "none",
        !.marker = FALSE, !.inner = "sm2", !.outer = "sm2", !.issued = FALSE]

\* The CA issued certificates to two servers.
Chains ==
    [signing : {create_server("server.local", "server.local", "server"),
                create_server("peer.local", "peer.local", "other")},
     encryption : {create_sm2_encryption("server.local", "server"),
                   create_sm2_encryption("peer.local", "other")}]
    \cup {[signing |-> Ordinary("server.local", "server", "sign"),
           encryption |-> Ordinary("server.local", "server", "enc")]}

\* The configured trust anchor: the CA's self-signed root or somebody else's of
\* the same name, valid or expired.
TrustAnchors ==
    {[create_root(p) EXCEPT !.live = b] : p \in {"ca", "other"}, b \in BOOLEAN}

\* What a client may be configured with.
Configs == [cb : BOOLEAN, expected : BOOLEAN, hostname : {"", "server.local"},
            root : TrustAnchors]

TypeOK ==
    /\ cfg \in Configs
    /\ unsound \in SUBSET Components
    /\ chain \in [Roles -> Certificate]
    /\ edits \in 0..MaxEdits
    /\ phase \in {"certificate", "key_exchange", "client_key", "done", "closed"}
    /\ consulted \in BOOLEAN /\ hybrid \in BOOLEAN
    /\ sm2Key \in Parties \cup {"none"}
    /\ hybrid => sm2Key # "none"
    /\ skeBy \in Parties \cup {"none"} /\ pmsTo \in Parties \cup {"none"}

\* tls_ctx_set_tlcp_hybrid_cert_verify sets callback and policy together.  The
\* trust anchor is valid when the client is set up, and may expire later.
Init ==
    /\ cfg \in Configs /\ cfg.root.live
    /\ ~cfg.cb => ~cfg.expected
    /\ unsound \in {{}, {"dil"}, {"sm2"}}
    /\ \E c \in Chains : chain = [r \in Roles |-> c[r]]
    /\ edits = 0
    /\ phase = "certificate"
    /\ consulted = FALSE /\ hybrid = FALSE
    /\ sm2Key = "none" /\ skeBy = "none" /\ pmsTo = "none"

-----------------------------------------------------------------------------
(* What may happen to the chain before the client sees it. *)

Alter(role, cert) ==
    /\ phase = "certificate"
    /\ edits < MaxEdits
    /\ cert # chain[role]
    /\ edits' = edits + 1
    /\ chain' = [chain EXCEPT ![role] = cert]
    /\ UNCHANGED <<cfg, unsound, phase, consulted, hybrid, sm2Key, skeBy, pmsTo>>

\* Any change of the TBS certificate: neither signature fits it any more.
ChangedTbs(cert) ==
    LET Unsigned(c) == [c EXCEPT !.issued = FALSE,
                                 !.fits = [x \in Components |-> FALSE]]
    IN {Unsigned(c) : c \in
          {[cert EXCEPT !.subject = v] : v \in Subjects}
          \cup {[cert EXCEPT !.issuer = v] : v \in Subjects}
          \cup {[cert EXCEPT !.spki = v] : v \in {"composite", "sm2"}}
          \cup {[cert EXCEPT !.holder = v] : v \in Parties}
          \cup {[cert EXCEPT !.san = v] : v \in Subjects \cup {"none"}}
          \cup {[cert EXCEPT !.profile = v] : v \in Profiles}
          \cup {[cert EXCEPT !.aki = compute_key_identifier(v)] : v \in Parties}
          \cup {[cert EXCEPT !.ski = NoId], [cert EXCEPT !.eku = FALSE],
                [cert EXCEPT !.live = FALSE], [cert EXCEPT !.marker = FALSE],
                [cert EXCEPT !.inner = "sm2"]}}

ChangeTbs(role) == \E cert \in ChangedTbs(chain[role]) : Alter(role, cert)

\* A change outside the TBS: the outer algorithm, the signature's encoding,
\* or bytes that keep the outer SEQUENCE and break the X.509 decoding.
ChangeWrapping(role) ==
    \E cert \in {[chain[role] EXCEPT !.outer = "sm2"],
                 [chain[role] EXCEPT !.sigForm = FALSE],
                 [chain[role] EXCEPT !.decodes = FALSE]} : Alter(role, cert)

\* A component signature made anew, with the key of the party making it, or
\* in the CA's name where the algorithm is unsound.
Resign(role, c) ==
    \E signer \in {"other"} \cup (IF c \in unsound THEN {"ca"} ELSE {}) :
        Alter(role, [chain[role] EXCEPT !.by[c] = signer, !.fits[c] = TRUE])

-----------------------------------------------------------------------------
(* The client. *)

\* The verdict of the callback on the received chain.
Verdict == tlcp_hybrid_cert_gmssl_verify_callback(
               chain["signing"], chain["encryption"], cfg.root, cfg.hostname)

Close == /\ phase' = "closed"
         /\ UNCHANGED <<cfg, network, skeBy, pmsTo>>

\* tlcp_recv_server_certificate, chain accepted by the Composite callback.
AcceptHybrid ==
    /\ phase = "certificate"
    /\ cfg.cb /\ Verdict = "VALID"
    /\ hybrid' = TRUE
    /\ sm2Key' = tlcp_hybrid_cert_get_sm2_sign_public_key(chain["signing"])
    /\ phase' = "key_exchange"
    /\ UNCHANGED <<cfg, network, consulted, skeBy, pmsTo>>

\* What the callback leaves in sm2Key when it refuses: the signing certificate
\* may have been fine and its key already written.
KeyLeftBehind ==
    IF tlcp_hybrid_cert_verify_der(chain["signing"], chain["signing"].decodes,
                                   cfg.root, cfg.hostname) = "VALID"
    THEN tlcp_hybrid_cert_get_sm2_sign_public_key(chain["signing"]) ELSE "none"

\* tlcp_recv_server_certificate: INVALID, or a downgrade in strict mode.
RejectHybrid ==
    /\ phase = "certificate"
    /\ cfg.cb
    /\ \/ Verdict = "INVALID"
       \/ Verdict = "NOT_APPLICABLE" /\ cfg.expected
    /\ sm2Key' = KeyLeftBehind
    /\ Close
    /\ UNCHANGED <<consulted, hybrid>>

\* Mutant: the strict policy is not consulted.
FallsBackAlways == ~cfg.cb \/ Verdict = "NOT_APPLICABLE"

\* Whether the client leaves the chain to tls_cert_chain_verify.
FallsBack == ~cfg.cb \/ (Verdict = "NOT_APPLICABLE" /\ ~cfg.expected)

\* tlcp_recv_server_certificate, original path: the GmSSL verifier may accept
\* or refuse.
VerifyOrdinary ==
    /\ phase = "certificate"
    /\ FallsBack
    /\ consulted' = TRUE
    /\ hybrid' = FALSE /\ sm2Key' = "none"
    /\ phase' \in {"key_exchange", "closed"}
    /\ UNCHANGED <<cfg, network, skeBy, pmsTo>>

\* The key ServerKeyExchange is verified with: the verified component, or the
\* SM2 key of cert[0].
SignKey == IF hybrid THEN sm2Key
           ELSE IF chain["signing"].decodes /\ chain["signing"].spki = "sm2"
                THEN chain["signing"].holder ELSE "none"

\* tlcp_recv_server_key_exchange on what signer made: with its own key, or, as
\* this signature is SM2 only, in anybody's name where SM2 is unsound.  A
\* signature that does not verify, or a cert[0] without usable key, ends the
\* handshake.
RecvServerKeyExchange(signer) ==
    /\ phase = "key_exchange"
    /\ \/ /\ SignKey = signer \/ (SignKey # "none" /\ "sm2" \in unsound)
          /\ skeBy' = signer
          /\ phase' = "client_key"
          /\ UNCHANGED <<cfg, network, pmsTo>>
       \/ /\ SignKey # signer
          /\ Close
    /\ UNCHANGED <<consulted, hybrid, sm2Key>>

\* tlcp_send_client_key_exchange: the premaster secret goes to cert[1].
SendClientKeyExchange ==
    /\ phase = "client_key"
    /\ \/ /\ chain["encryption"].decodes /\ chain["encryption"].spki = "sm2"
          /\ pmsTo' = chain["encryption"].holder
          /\ phase' = "done"
          /\ UNCHANGED <<cfg, network, skeBy>>
       \/ /\ ~(chain["encryption"].decodes /\ chain["encryption"].spki = "sm2")
          /\ Close
    /\ UNCHANGED <<consulted, hybrid, sm2Key>>

Next ==
    \/ \E role \in Roles : ChangeTbs(role) \/ ChangeWrapping(role)
    \/ \E role \in Roles, c \in Components : Resign(role, c)
    \/ AcceptHybrid \/ RejectHybrid \/ VerifyOrdinary
    \/ \E signer \in Parties : RecvServerKeyExchange(signer)
    \/ SendClientKeyExchange

Spec == Init /\ [][Next]_vars

-----------------------------------------------------------------------------
(* Properties. *)

Accepted == phase \in {"key_exchange", "client_key", "done"}

\* With the CA as trust anchor and at most one unsound component algorithm, a
\* client that takes the Composite path accepts only certificates the CA
\* issued, for one subject, unaltered in every checked field: both signature
\* components are needed, on both certificates.
HybridMeansIssued ==
    Accepted /\ hybrid /\ cfg.root.issued =>
        /\ \A role \in Roles : chain[role].issued
        /\ chain["signing"].subject = chain["encryption"].subject

\* On the Composite path the premaster secret is encrypted to the configured
\* host's server, whichever one of the two algorithms is unsound.  That the
\* party on the other end, which signed ServerKeyExchange, is the one that can
\* decrypt it needs SM2: that signature has no second component.
SecretReachesSigner ==
    phase = "done" /\ hybrid /\ cfg.root.issued =>
        /\ cfg.hostname = "server.local" => pmsTo = "server"
        /\ "sm2" \notin unsound => pmsTo = skeBy

\* Strict policy: the handshake goes on only with a verified Composite chain,
\* whatever was altered on the way.
StrictNeverDowngrades ==
    cfg.cb /\ cfg.expected /\ Accepted => hybrid /\ ~consulted

\* docs/tlcp-hybrid-certificate.md: INVALID is "recognized but malformed or
\* verification failed", and a recognized Composite certificate with a format
\* failure must close the connection.  tlcp_hybrid_cert_verify_der recognizes
\* undecodable bytes by the OID in them; through the callback it never sees
\* those bytes.  See the run tlcp_malformed_falls_back.
MalformedCompositeNeverFallsBack ==
    cfg.cb /\ consulted => ~certificate_mentions_composite(chain["signing"])
=============================================================================
