---------------------------- MODULE TlcpHandshake -----------------------------
(***************************************************************************)
(* The client of TlcpCertificate with one of two peers.                    *)
(*                                                                         *)
(* Somebody on the network: one connection, over which the chain arrives   *)
(* altered and anybody may sign the ServerKeyExchange, as there.           *)
(*                                                                         *)
(* A TLCP server that loads a Composite chain (patches/gmssl/0002 and      *)
(* 0003, src/tls_cert.c of GmSSL), over several connections.  The loader   *)
(* verifies the chain once, with the callback configured in the server's   *)
(* own TLS_CTX; every client verifies it again, later and with its own     *)
(* trust anchor.  A context may hold several chains; a file that is        *)
(* refused has already been read into it.  Nobody alters what is sent.     *)
(* Cipher suites are ECC: the server decrypts the premaster secret.        *)
(***************************************************************************)
EXTENDS TlcpCertificate

CONSTANTS MaxConnections,   \* bound on the connections
          MaxChains         \* chains that ctx->cert_chains has room for

ASSUME MaxConnectionsAssumption == MaxConnections \in Nat
ASSUME MaxChainsAssumption == MaxChains \in Nat

VARIABLES
    ctx,        \* the server's TLS_CTX
    server,     \* the server's side of the connection, "network" without one
    slot,       \* which chain of ctx the connection uses
    conns       \* connections so far

serverVars == <<ctx, server, slot, conns>>
clientVars == <<cfg, phase, consulted, hybrid, sm2Key, skeBy, pmsTo>>
allVars == <<vars, serverVars>>

Parameters == [root : TrustAnchors, hostname : {"", "server.local"}]
NoParameters == [root |-> NoId, hostname |-> ""]
NoChain == [r \in Roles |-> NoId]
NoKeys == [r \in Roles |-> "none"]

\* Chain files: what the CA issued, in any combination, and a conventional
\* chain; one server's Composite chain with a signing certificate issued by
\* somebody else, with an expired certificate, or with a second one that does
\* not decode; and a file without any certificate.
IssuedChains == {[r \in Roles |-> c[r]] : c \in Chains}
ServerChains == {c \in IssuedChains :
                   \A r \in Roles : c[r].subject = "server.local" /\ c[r].issued}
SignedByOther(c) == [c EXCEPT !["signing"].by = [x \in Components |-> "other"],
                              !["signing"].issued = FALSE]
Expired(c, r) == [c EXCEPT ![r].live = FALSE]
Undecodable(c) == [c EXCEPT !["encryption"].decodes = FALSE]
ChainFiles ==
    IssuedChains
    \cup {SignedByOther(c) : c \in ServerChains}
    \cup {Expired(c, r) : c \in ServerChains, r \in Roles}
    \cup {Undecodable(c) : c \in ServerChains}
    \cup {NoChain}

\* Key files: the private keys in it, signing key first, if the passphrase fits.
KeyFiles == [Roles -> {"server", "other"}]

\* A chain in ctx->cert_chains with its private keys; how it was loaded and
\* verified is history that only properties look at.
Entries ==
    [chain : [Roles -> Certificate] \cup {NoChain}, keys : KeyFiles \cup {NoKeys},
     loaded : {"none", "hybrid", "ordinary"},
     verified : Parameters \cup {NoParameters}]
NoEntry == [chain |-> NoChain, keys |-> NoKeys, loaded |-> "none",
            verified |-> NoParameters]

\* cb: the callback's argument; entries: the buffer cert_chains and the keys;
\* len: cert_chains_len, how many of the entries count.
Contexts ==
    [cb : Parameters \cup {NoParameters}, entries : [1..MaxChains -> Entries],
     len : 0..MaxChains]

ServerTypeOK ==
    /\ TypeOK
    /\ ctx \in Contexts
    /\ server \in {"network", "idle", "wait_key", "done", "closed"}
    /\ slot \in 0..MaxChains
    /\ conns \in 0..MaxConnections

HandshakeInit ==
    /\ Init
    /\ ctx = [cb |-> NoParameters, entries |-> [i \in 1..MaxChains |-> NoEntry],
              len |-> 0]
    /\ \/ server = "network"
       \/ /\ server = "idle"
          /\ unsound = {}
          /\ cfg = [cb |-> FALSE, expected |-> FALSE, hostname |-> "",
                    root |-> create_root("ca")]
          /\ chain["signing"] = Ordinary("server.local", "server", "sign")
    /\ slot = 0
    /\ conns = 0

-----------------------------------------------------------------------------
(* The server's TLS_CTX. *)

\* The certificates of a chain file that are a SEQUENCE and nothing after it;
\* damage keeps that, so here it only asks for at least one certificate.
tlcp_hybrid_certs_from_pem(file) == file # NoChain

\* tls_ctx_set_tlcp_hybrid_cert_verify on the server: at any time, before or
\* after a chain is loaded.
SetHybridCertVerify ==
    /\ \E p \in Parameters : ctx' = [ctx EXCEPT !.cb = p]
    /\ UNCHANGED <<vars, server, slot, conns>>

\* The verdict of the server's own callback on a chain file.
OwnVerdict(file) ==
    tlcp_hybrid_cert_gmssl_verify_callback(file["signing"], file["encryption"],
                                           ctx.cb.root, ctx.cb.hostname)

\* Whether the two private keys fit the SM2 component the callback returned and
\* the subject public key of the second certificate.
KeysMatch(file, keys) ==
    /\ keys["signing"] = tlcp_hybrid_cert_get_sm2_sign_public_key(file["signing"])
    /\ file["encryption"].decodes
    /\ keys["encryption"] = file["encryption"].holder

\* tlcp_ctx_add_certificate_and_keys with hybrid_sign_cert: no check of the
\* order of the chain; the verdict must be VALID; both keys must fit.
HybridAcceptable(file, keys) ==
    /\ tlcp_hybrid_certs_from_pem(file)
    /\ OwnVerdict(file) = "VALID"
    /\ KeysMatch(file, keys)

\* The original loader, which reads the SM2 key of each certificate itself.
OrdinaryAcceptable(file, keys) ==
    file # NoChain /\ \A r \in Roles :
                     /\ file[r].decodes
                     /\ subject_public_key_is_sm2(file[r])
                     /\ keys[r] = file[r].holder

\* The file is read behind the chains that count already; the keys are added
\* and cert_chains_len moves past it only when everything was in order.
Read(entry) == [ctx.entries EXCEPT ![ctx.len + 1] = entry]

Load(how, file, keys, verified) ==
    ctx' = [ctx EXCEPT !.len = ctx.len + 1,
                       !.entries = Read([chain |-> file, keys |-> keys, loaded |-> how,
                                         verified |-> verified])]

\* Mutant: cert_chains_len moves before the checks.
RefuseCounted(file) ==
    ctx' = [ctx EXCEPT !.len = ctx.len + 1,
                       !.entries = Read([NoEntry EXCEPT !.chain = file])]

\* A call that fails, as any call may (unreadable files, a wrong passphrase or
\* key file, a chain that is not accepted), leaves the file in the buffer.
Refuse(file) ==
    ctx' = [ctx EXCEPT !.entries = Read([NoEntry EXCEPT !.chain = file])]

\* tls_ctx_set_tlcp_hybrid_server_certificate_and_keys: needs the callback and
\* an empty context.
LoadHybrid ==
    /\ ctx.cb # NoParameters /\ ctx.len = 0 /\ ctx.len < MaxChains
    /\ \E file \in ChainFiles :
         \/ Refuse(file)
         \/ \E keys \in KeyFiles : /\ HybridAcceptable(file, keys)
                                  /\ Load("hybrid", file, keys, ctx.cb)
    /\ UNCHANGED <<vars, server, slot, conns>>

\* tlcp_ctx_add_server_certificate_and_keys: behind whatever is loaded.
LoadOrdinary ==
    /\ ctx.len < MaxChains
    /\ \E file \in ChainFiles :
         \/ Refuse(file)
         \/ \E keys \in KeyFiles : /\ OrdinaryAcceptable(file, keys)
                                  /\ Load("ordinary", file, keys, NoParameters)
    /\ UNCHANGED <<vars, server, slot, conns>>

-----------------------------------------------------------------------------
(* Connections *)

InProgress == server = "wait_key"

\* What the connection uses of the context.
Served == ctx.entries[slot]

Stale(c) == \E r \in Roles : ~c[r].live
Aged(c) == [r \in Roles |-> [c[r] EXCEPT !.live = FALSE]]
AgedEntry(e) == IF e.chain = NoChain THEN e ELSE [e EXCEPT !.chain = Aged(e.chain)]

\* The validity of the certificates ends, possibly between the Certificate
\* message and its verification: that of the server's certificates,
Expire ==
    /\ \E i \in 1..ctx.len : ~Stale(ctx.entries[i].chain)
    /\ ctx' = [ctx EXCEPT !.entries = [i \in 1..MaxChains |-> AgedEntry(ctx.entries[i])]]
    /\ chain' = Aged(chain)
    /\ UNCHANGED <<unsound, edits, clientVars, server, slot, conns>>

\* or that of the trust anchor a client is configured with.
ExpireRoot ==
    /\ InProgress /\ cfg.root.live
    /\ cfg' = [cfg EXCEPT !.root = [cfg.root EXCEPT !.live = FALSE]]
    /\ UNCHANGED <<network, phase, consulted, hybrid, sm2Key, skeBy, pmsTo, serverVars>>

\* A client of any configuration connects; the server's first flight is one of
\* its chains and the ServerKeyExchange signed with that chain's signing key.
Connect ==
    /\ ~InProgress /\ conns < MaxConnections
    /\ conns' = conns + 1
    /\ server' = "wait_key"
    /\ slot' \in 1..ctx.len
    /\ cfg' \in Configs /\ cfg'.root.live
    /\ ~cfg'.cb => ~cfg'.expected
    /\ chain' = ctx.entries[slot'].chain
    /\ phase' = "certificate"
    /\ consulted' = FALSE /\ hybrid' = FALSE
    /\ sm2Key' = "none" /\ skeBy' = "none" /\ pmsTo' = "none"
    /\ UNCHANGED <<unsound, edits, ctx>>

ClientStep ==
    /\ InProgress
    /\ \/ AcceptHybrid \/ RejectHybrid \/ VerifyOrdinary
       \/ RecvServerKeyExchange(Served.keys["signing"])
       \/ SendClientKeyExchange
    /\ UNCHANGED serverVars

\* tlcp_recv_client_key_exchange, or the client's alert.
ServerStep ==
    /\ InProgress
    /\ phase \in {"done", "closed"}
    /\ server' = IF phase = "done" /\ pmsTo = Served.keys["encryption"]
                 THEN "done" ELSE "closed"
    /\ UNCHANGED <<vars, ctx, slot, conns>>

HandshakeNext ==
    \/ /\ server = "network"
       /\ Next
       /\ UNCHANGED serverVars
    \/ /\ server # "network"
       /\ \/ SetHybridCertVerify \/ LoadHybrid \/ LoadOrdinary
          \/ Expire \/ ExpireRoot \/ Connect \/ ClientStep \/ ServerStep

\* Each peer takes the next step of a handshake it is in.
HandshakeSpec ==
    /\ HandshakeInit /\ [][HandshakeNext]_allVars
    /\ WF_allVars(ClientStep) /\ WF_allVars(ServerStep)

-----------------------------------------------------------------------------
(* Properties. *)

\* A client that accepts a Composite chain talks to a server that can use it:
\* the ServerKeyExchange verifies, and the secret it sends can be decrypted.
AcceptedServerHasKeys ==
    hybrid /\ InProgress =>
        /\ Served.loaded = "hybrid"
        /\ Served.keys["signing"] = sm2Key
        /\ phase = "done" => pmsTo = Served.keys["encryption"]

\* The CA issued its certificates to the servers they name.  One that it did
\* not issue lacks its signature by some sound component, unless it does not
\* claim to be signed with the Composite algorithm.
Genuine(cert, sound) ==
    IF cert.issued
    THEN /\ cert.subject \in {"server.local", "peer.local"}
         /\ cert.holder = IF cert.subject = "server.local" THEN "server" ELSE "other"
         /\ cert.san \in {"none", cert.subject}
    ELSE \/ cert.inner = "sm2"
         \/ \A c \in sound : ~(cert.by[c] = "ca" /\ cert.fits[c])

\* Whatever is altered on the way, no chain becomes one the CA signed.
CertificatesInv ==
    /\ Components \ unsound # {}
    /\ \A r \in Roles : Genuine(chain[r], Components \ unsound)

\* A chain that counts has been accepted and has its private keys.
EntryOK(e) ==
    /\ e.loaded # "none"
    /\ e.chain \in [Roles -> Certificate] /\ e.keys \in KeyFiles
    /\ \A r \in Roles : Genuine(e.chain[r], Components)
    /\ e.keys["signing"] =
           IF e.loaded = "hybrid"
           THEN tlcp_hybrid_cert_get_sm2_sign_public_key(e.chain["signing"])
           ELSE e.chain["signing"].holder
    /\ e.keys["encryption"] = e.chain["encryption"].holder
    /\ e.loaded = "ordinary" => subject_public_key_is_sm2(e.chain["signing"])

\* Whatever else was read into the context, no connection uses it.
ContextInv ==
    /\ \A i \in 1..ctx.len : EntryOK(ctx.entries[i])
    /\ InProgress => slot \in 1..ctx.len /\ chain = Served.chain

\* What the client has found out about the chain by the time it acts on it.
ClientInv ==
    /\ phase = "certificate" => ~hybrid /\ ~consulted
    /\ Accepted => hybrid \/ consulted
    /\ consulted => ~hybrid /\ ~(cfg.cb /\ cfg.expected)
    /\ hybrid => /\ sm2Key = chain["signing"].holder
                 /\ chain["signing"].subject = chain["encryption"].subject
                 /\ cfg.hostname \in {"", chain["signing"].san}
                 /\ cfg.root.issued => \A r \in Roles : chain[r].issued
                 /\ phase \in {"client_key", "done"} =>
                        skeBy = sm2Key \/ "sm2" \in unsound
                 /\ phase = "done" => pmsTo = chain["encryption"].holder

\* What both sides hold is of its type and fits together.
ConnectionInv ==
    /\ ServerTypeOK
    /\ CertificatesInv /\ ContextInv /\ ClientInv
    /\ AcceptedServerHasKeys

\* What the loader once accepted, a client with the parameters it was verified
\* under (or without a host name) accepts too, and the handshake ends on both
\* sides, unless the certificates or the trust anchor expire first.
LoadedChainServes ==
    (/\ InProgress /\ phase = "certificate"
     /\ Served.loaded = "hybrid" /\ ~Stale(chain)
     /\ cfg.cb /\ cfg.root = Served.verified.root
     /\ cfg.hostname \in {"", Served.verified.hostname})
        ~> ((server = "done" /\ hybrid) \/ Stale(chain) \/ ~cfg.root.live)

\* The verdict of load time is not what a client relies on: it accepts a
\* Composite chain only while the certificates and the trust anchor are valid,
\* however long ago the server loaded them, and only from a server that loaded
\* it as one.
NoStaleAcceptance ==
    [][ (server # "network" /\ phase = "certificate" /\ hybrid')
            => (Served.loaded = "hybrid" /\ ~Stale(Served.chain) /\ cfg.root.live) ]_allVars

\* A loaded chain serves the clients it was verified for, and only until it
\* expires.
ServesWhileValid == NoStaleAcceptance /\ LoadedChainServes
=============================================================================
