-------------------------- MODULE TlcpHandshakeProof --------------------------
(***************************************************************************)
(* Proofs about TlcpHandshake, for any number of alterations of a chain    *)
(* and of connections.  The argument has two halves.  No alteration makes  *)
(* a certificate that the CA did not issue look signed by it in both       *)
(* components, while one of them is sound (Genuine); and the client acts   *)
(* on nothing but the chain it has verified (ClientInv), which on the way  *)
(* from the server's loader only ages (ContextInv).                        *)
(***************************************************************************)
EXTENDS TlcpHandshake, TLAPS

-----------------------------------------------------------------------------
(* Certificates. *)

\* The fields the argument needs, of a certificate of any kind.
LEMMA CertificateFields ==
    ASSUME NEW cert \in Certificate
    PROVE  /\ cert.subject \in Subjects /\ cert.holder \in Parties
           /\ cert.issued \in BOOLEAN /\ cert.live \in BOOLEAN /\ cert.decodes \in BOOLEAN
           /\ cert.san \in Subjects \cup {"none"}
           /\ cert.spki \in {"composite", "sm2"}
           /\ cert.inner \in {"composite", "sm2"} /\ cert.outer \in {"composite", "sm2"}
           /\ cert.by \in [Components -> Parties] /\ cert.fits \in [Components -> BOOLEAN]
  BY DEF Certificate

\* What the CA signs for a server.
LEMMA ServerFacts ==
    ASSUME NEW subject \in Subjects, NEW holder \in Parties
    PROVE  LET cert == create_server(subject, subject, holder)
           IN /\ cert \in Certificate
              /\ cert.issued /\ cert.subject = subject /\ cert.holder = holder
              /\ cert.san = subject
<1> DEFINE cert == create_server(subject, subject, holder)
<1>1. cert = [decodes |-> TRUE, subject |-> subject, issuer |-> "CA",
     spki |-> "composite", holder |-> holder,
     profile |-> "sign", eku |-> TRUE, san |-> subject,
     live |-> TRUE, marker |-> TRUE, ski |-> compute_key_identifier(holder),
     aki |-> compute_key_identifier("ca"), inner |-> "composite", outer |-> "composite",
     sigForm |-> TRUE, by |-> [c \in Components |-> "ca"],
     fits |-> [c \in Components |-> TRUE], issued |-> TRUE]
  BY DEF create_server, sign_tbs, make_tbs, make_composite_spki,
         build_server_extensions, add_authority_key_identifier
<1>2. /\ compute_key_identifier(holder) \in KeyIds
      /\ compute_key_identifier("ca") \in KeyIds
  BY DEF KeyIds, compute_key_identifier, Parties
<1>3. [c \in Components |-> "ca"] \in [Components -> Parties]
  BY DEF Parties
<1>4. [c \in Components |-> TRUE] \in [Components -> BOOLEAN]
  OBVIOUS
<1>5. cert \in Certificate
  BY <1>1, <1>2, <1>3, <1>4 DEF Certificate, Subjects, Profiles
<1>6. cert.issued /\ cert.subject = subject /\ cert.holder = holder /\ cert.san = subject
  BY <1>1
<1> HIDE DEF cert
<1> QED
  BY <1>5, <1>6 DEF cert

LEMMA EncryptionFacts ==
    ASSUME NEW subject \in Subjects, NEW holder \in Parties
    PROVE  LET cert == create_sm2_encryption(subject, holder)
           IN /\ cert \in Certificate
              /\ cert.issued /\ cert.subject = subject /\ cert.holder = holder
              /\ cert.san = "none"
<1> DEFINE cert == create_sm2_encryption(subject, holder)
<1>1. cert = [decodes |-> TRUE, subject |-> subject, issuer |-> "CA",
     spki |-> "sm2", holder |-> holder,
     profile |-> "enc", eku |-> FALSE, san |-> "none",
     live |-> TRUE, marker |-> TRUE, ski |-> compute_sm2_key_identifier(holder),
     aki |-> compute_key_identifier("ca"), inner |-> "composite", outer |-> "composite",
     sigForm |-> TRUE, by |-> [c \in Components |-> "ca"],
     fits |-> [c \in Components |-> TRUE], issued |-> TRUE]
  BY DEF create_sm2_encryption, sign_tbs, make_tbs, make_sm2_spki,
         build_encryption_server_extensions, add_authority_key_identifier
<1>2. /\ compute_sm2_key_identifier(holder) \in KeyIds
      /\ compute_key_identifier("ca") \in KeyIds
  BY DEF KeyIds, compute_key_identifier, compute_sm2_key_identifier, Parties
<1>3. [c \in Components |-> "ca"] \in [Components -> Parties]
  BY DEF Parties
<1>4. [c \in Components |-> TRUE] \in [Components -> BOOLEAN]
  OBVIOUS
<1>5. cert \in Certificate
  BY <1>1, <1>2, <1>3, <1>4 DEF Certificate, Subjects, Profiles
<1>6. cert.issued /\ cert.subject = subject /\ cert.holder = holder /\ cert.san = "none"
  BY <1>1
<1> HIDE DEF cert
<1> QED
  BY <1>5, <1>6 DEF cert

\* A conventional certificate does not name the Composite algorithm.
LEMMA OrdinaryFacts ==
    ASSUME NEW profile \in {"sign", "enc"}
    PROVE  LET cert == Ordinary("server.local", "server", profile)
           IN cert \in Certificate /\ ~cert.issued /\ cert.inner = "sm2"
<1> DEFINE base == create_sm2_encryption("server.local", "server")
           cert == Ordinary("server.local", "server", profile)
           name == IF profile = "sign" THEN "server.local" ELSE "none"
<1>1. base \in Certificate
  BY EncryptionFacts DEF Subjects, Parties
<1> HIDE DEF base
<1>2. cert = [base EXCEPT !.profile = profile, !.eku = profile = "sign",
                          !.san = name,
                          !.marker = FALSE,
                          !.inner = "sm2", !.outer = "sm2", !.issued = FALSE]
  BY DEF Ordinary, base
<1> HIDE DEF cert
<1>4. name \in Subjects \cup {"none"} /\ profile \in Profiles
  BY DEF Subjects, Profiles
<1> HIDE DEF name
<1>3. cert \in Certificate /\ ~cert.issued /\ cert.inner = "sm2"
  BY <1>1, <1>2, <1>4, ZenonT(60) DEF Certificate
<1> QED
  BY <1>3 DEF cert

\* A trust anchor that the CA issued holds the CA's key.
LEMMA AnchorFacts ==
    ASSUME NEW root \in TrustAnchors
    PROVE  root.issued => root.holder = "ca"
<1>1. PICK p \in {"ca", "other"}, b \in BOOLEAN :
        root = [create_root(p) EXCEPT !.live = b]
  BY DEF TrustAnchors
<1>2. root.issued <=> p = "ca"
  BY <1>1 DEF create_root, sign_tbs, make_tbs, make_composite_spki
<1>3. root.holder = p
  BY <1>1 DEF create_root, sign_tbs, make_tbs, make_composite_spki
<1> QED
  BY <1>2, <1>3

\* The CA's certificates are genuine, whichever components are sound.
LEMMA ChainsGenuine ==
    ASSUME NEW c \in Chains, NEW r \in Roles, NEW sound
    PROVE  c[r] \in Certificate /\ Genuine(c[r], sound)
<1>1. \A cert \in {create_server("server.local", "server.local", "server"),
                   create_server("peer.local", "peer.local", "other"),
                   create_sm2_encryption("server.local", "server"),
                   create_sm2_encryption("peer.local", "other"),
                   Ordinary("server.local", "server", "sign"),
                   Ordinary("server.local", "server", "enc")} :
        cert \in Certificate /\ Genuine(cert, sound)
  BY ServerFacts, EncryptionFacts, OrdinaryFacts DEF Genuine, Subjects, Parties
<1> QED
  BY <1>1 DEF Chains, Roles

-----------------------------------------------------------------------------
(* What happens to a certificate on the way. *)

\* An altered TBS is not the CA's, and no signature fits it.
LEMMA ChangedTbsGenuine ==
    ASSUME NEW cert \in Certificate, NEW new \in ChangedTbs(cert), NEW sound \in SUBSET Components
    PROVE  new \in Certificate /\ Genuine(new, sound)
<1> DEFINE Unsigned(c) == [c EXCEPT !.issued = FALSE,
                                    !.fits = [x \in Components |-> FALSE]]
<1>1. ASSUME NEW c \in Certificate
      PROVE  Unsigned(c) \in Certificate /\ Genuine(Unsigned(c), sound)
  <2>1. [x \in Components |-> FALSE] \in [Components -> BOOLEAN]
    OBVIOUS
  <2>2. Unsigned(c) \in Certificate
    BY <2>1 DEF Certificate
  <2>3. ~Unsigned(c).issued /\ Unsigned(c).fits = [x \in Components |-> FALSE]
    BY DEF Certificate
  <2> QED
    BY <2>2, <2>3 DEF Genuine
<1>2. \A v \in Subjects : /\ [cert EXCEPT !.subject = v] \in Certificate
                          /\ [cert EXCEPT !.issuer = v] \in Certificate
  BY DEF Certificate
<1>3. \A v \in {"composite", "sm2"} : [cert EXCEPT !.spki = v] \in Certificate
  BY DEF Certificate
<1>4. \A v \in Parties : /\ [cert EXCEPT !.holder = v] \in Certificate
                         /\ [cert EXCEPT !.aki = compute_key_identifier(v)] \in Certificate
  BY DEF Certificate, compute_key_identifier, KeyIds
<1>8. \A v \in Subjects \cup {"none"} : [cert EXCEPT !.san = v] \in Certificate
  BY DEF Certificate
<1>5. \A v \in Profiles : [cert EXCEPT !.profile = v] \in Certificate
  BY DEF Certificate
<1>6. /\ [cert EXCEPT !.ski = NoId] \in Certificate
      /\ [cert EXCEPT !.eku = FALSE] \in Certificate
      /\ [cert EXCEPT !.live = FALSE] \in Certificate
      /\ [cert EXCEPT !.marker = FALSE] \in Certificate
      /\ [cert EXCEPT !.inner = "sm2"] \in Certificate
  <2>1. NoId \in KeyIds
    BY DEF KeyIds
  <2>2. [cert EXCEPT !.ski = NoId] \in Certificate
    BY <2>1 DEF Certificate
  <2>3. [cert EXCEPT !.eku = FALSE] \in Certificate
    BY DEF Certificate
  <2>4. [cert EXCEPT !.live = FALSE] \in Certificate
    BY DEF Certificate
  <2>5. [cert EXCEPT !.marker = FALSE] \in Certificate
    BY DEF Certificate
  <2>6. [cert EXCEPT !.inner = "sm2"] \in Certificate
    BY DEF Certificate
  <2> QED
    BY <2>2, <2>3, <2>4, <2>5, <2>6
<1>7. PICK c \in Certificate : new = Unsigned(c)
  BY <1>2, <1>3, <1>4, <1>5, <1>6, <1>8 DEF ChangedTbs
<1> QED
  BY <1>1, <1>7

\* What is around the TBS changes nothing about who signed it.
LEMMA ChangedWrappingGenuine ==
    ASSUME NEW cert \in Certificate, NEW sound, Genuine(cert, sound),
           NEW new \in {[cert EXCEPT !.outer = "sm2"], [cert EXCEPT !.sigForm = FALSE],
                        [cert EXCEPT !.decodes = FALSE]}
    PROVE  new \in Certificate /\ Genuine(new, sound)
<1>1. new \in Certificate
  <2>1. [cert EXCEPT !.outer = "sm2"] \in Certificate
    BY DEF Certificate
  <2>2. [cert EXCEPT !.sigForm = FALSE] \in Certificate
    BY DEF Certificate
  <2>3. [cert EXCEPT !.decodes = FALSE] \in Certificate
    BY DEF Certificate
  <2> QED
    BY <2>1, <2>2, <2>3
<1>2. /\ new.issued = cert.issued /\ new.subject = cert.subject
      /\ new.holder = cert.holder /\ new.inner = cert.inner /\ new.san = cert.san
      /\ new.by = cert.by /\ new.fits = cert.fits
  BY DEF Certificate
<1> QED
  BY <1>1, <1>2 DEF Genuine

\* A component signature made anew is not the CA's, if the component is sound.
LEMMA ResignedGenuine ==
    ASSUME NEW cert \in Certificate, NEW sound \in SUBSET Components, Genuine(cert, sound),
           NEW c \in Components, NEW signer \in Parties, c \in sound => signer # "ca"
    PROVE  LET new == [cert EXCEPT !.by[c] = signer, !.fits[c] = TRUE]
           IN new \in Certificate /\ Genuine(new, sound)
<1> DEFINE new == [cert EXCEPT !.by[c] = signer, !.fits[c] = TRUE]
<1>1. /\ [cert.by EXCEPT ![c] = signer] \in [Components -> Parties]
      /\ [cert.fits EXCEPT ![c] = TRUE] \in [Components -> BOOLEAN]
  BY CertificateFields
<1>2. /\ new \in Certificate
      /\ new.issued = cert.issued /\ new.subject = cert.subject
      /\ new.holder = cert.holder /\ new.inner = cert.inner /\ new.san = cert.san
      /\ new.by = [cert.by EXCEPT ![c] = signer]
      /\ new.fits = [cert.fits EXCEPT ![c] = TRUE]
  BY <1>1 DEF Certificate
<1> HIDE DEF new
<1>3. Genuine(new, sound)
  BY <1>2, CertificateFields DEF Genuine
<1> QED
  BY <1>2, <1>3 DEF new

\* A certificate that expires stays the one it is.
LEMMA AgedFacts ==
    ASSUME NEW cert \in Certificate
    PROVE  LET new == [cert EXCEPT !.live = FALSE]
           IN /\ new \in Certificate /\ ~new.live
              /\ new.issued = cert.issued /\ new.subject = cert.subject
              /\ new.holder = cert.holder /\ new.inner = cert.inner /\ new.san = cert.san
              /\ new.outer = cert.outer /\ new.spki = cert.spki
              /\ new.by = cert.by /\ new.fits = cert.fits
              /\ new.decodes = cert.decodes
  BY DEF Certificate

LEMMA AgedGenuine ==
    ASSUME NEW cert \in Certificate, NEW sound, Genuine(cert, sound)
    PROVE  Genuine([cert EXCEPT !.live = FALSE], sound)
  BY AgedFacts DEF Genuine

\* What a server may find in a chain file.
Fine(f) == /\ f \in [Roles -> Certificate]
           /\ \A r \in Roles : Genuine(f[r], Components)

LEMMA ChainFileFacts ==
    ASSUME NEW file \in ChainFiles, file # NoChain
    PROVE  Fine(file)
<1>0. ASSUME NEW f, Fine(f), NEW r \in Roles, NEW new \in Certificate,
             Genuine(new, Components)
      PROVE  Fine([f EXCEPT ![r] = new])
  BY <1>0 DEF Fine
<1>1. \A f \in IssuedChains : Fine(f)
  BY ChainsGenuine DEF IssuedChains, Fine
<1>2. ASSUME NEW f \in IssuedChains
      PROVE  Fine(SignedByOther(f))
  <2> DEFINE cert == f["signing"]
             new == [cert EXCEPT !.by = [x \in Components |-> "other"], !.issued = FALSE]
  <2>1. cert \in Certificate
    BY <1>1, <1>2 DEF Fine, Roles
  <2>2. [x \in Components |-> "other"] \in [Components -> Parties]
    BY DEF Parties
  <2>3. new \in Certificate /\ ~new.issued /\ new.by = [x \in Components |-> "other"]
    BY <2>1, <2>2 DEF Certificate
  <2>4. SignedByOther(f) = [f EXCEPT !["signing"] = new]
    BY <1>1, <1>2, <2>1 DEF Fine, SignedByOther, Roles, Certificate
  <2> HIDE DEF new
  <2>5. Genuine(new, Components)
    BY <2>3 DEF Genuine
  <2>6. Fine([f EXCEPT !["signing"] = new])
    BY <1>0, <1>1, <1>2, <2>3, <2>5 DEF Roles
  <2> QED
    BY <2>4, <2>6, Zenon
<1>3. ASSUME NEW f \in IssuedChains, NEW r \in Roles
      PROVE  Fine(Expired(f, r))
  <2> DEFINE new == [f[r] EXCEPT !.live = FALSE]
  <2>1. f[r] \in Certificate /\ Genuine(f[r], Components)
    BY <1>1, <1>3 DEF Fine
  <2>2. new \in Certificate /\ Genuine(new, Components)
    BY <2>1, AgedFacts, AgedGenuine
  <2>3. Expired(f, r) = [f EXCEPT ![r] = new]
    BY DEF Expired
  <2> HIDE DEF new
  <2> QED
    BY <1>0, <1>1, <1>3, <2>2, <2>3, ZenonT(60) DEF Roles
<1>4. ASSUME NEW f \in IssuedChains
      PROVE  Fine(Undecodable(f))
  <2> DEFINE new == [f["encryption"] EXCEPT !.decodes = FALSE]
  <2>1. f["encryption"] \in Certificate /\ Genuine(f["encryption"], Components)
    BY <1>1, <1>4 DEF Fine, Roles
  <2>2. new \in Certificate /\ Genuine(new, Components)
    BY <2>1, ChangedWrappingGenuine
  <2>3. Undecodable(f) = [f EXCEPT !["encryption"] = new]
    BY DEF Undecodable
  <2> HIDE DEF new
  <2> QED
    BY <1>0, <1>1, <1>4, <2>2, <2>3 DEF Roles
<1>5. \A f \in ServerChains : f \in IssuedChains
  BY DEF ServerChains
<1>6. CASE \E f \in ServerChains, r \in Roles : file = Expired(f, r)
  BY <1>3, <1>5, <1>6
<1>7. CASE file \notin {Expired(f, r) : f \in ServerChains, r \in Roles}
  <2> HIDE DEF ServerChains
  <2> QED
    BY <1>1, <1>2, <1>4, <1>5, <1>7 DEF ChainFiles
<1>8. file \in {Expired(f, r) : f \in ServerChains, r \in Roles} =>
        \E f \in ServerChains, r \in Roles : file = Expired(f, r)
  OBVIOUS
<1> QED
  BY <1>6, <1>7, <1>8

-----------------------------------------------------------------------------
(* What the callback's verdicts say. *)

\* VALID: both certificates carry both components of the trust anchor's
\* signature, are valid now, and are of one subject, the configured host.
Sealed(cert, holder) ==
    /\ cert.live /\ cert.inner = "composite"
    /\ \A c \in Components : cert.by[c] = holder /\ cert.fits[c]

OneHost(s, e, hostname) ==
    /\ s.decodes /\ s.spki = "composite"
    /\ s.subject = e.subject
    /\ hostname \in {"", s.san}
    /\ tlcp_hybrid_cert_get_sm2_sign_public_key(s) = s.holder
    /\ s.holder # "none"

LEMMA ValidFacts ==
    ASSUME NEW s \in Certificate, NEW e \in Certificate,
           NEW root \in TrustAnchors, NEW hostname \in {"", "server.local"},
           tlcp_hybrid_cert_gmssl_verify_callback(s, e, root, hostname) = "VALID"
    PROVE  /\ Sealed(s, root.holder) /\ Sealed(e, root.holder)
           /\ OneHost(s, e, hostname) /\ root.live
<1>1. /\ tlcp_hybrid_cert_verify_der(s, s.decodes, root, hostname) = "VALID"
      /\ hybrid_verify_encryption_certificate(e, root)
      /\ s.subject = e.subject
  BY DEF tlcp_hybrid_cert_gmssl_verify_callback, decode_next_certificate,
         tlcp_dual_identity_ok
<1>2. /\ decode_der_strict(s, s.decodes)
      /\ composite_algorithms_valid(s)
      /\ hybrid_verify_chain(root, s)
      /\ hostname = "" \/ X509_check_host(s, hostname)
      /\ tlcp_hybrid_cert_get_sm2_sign_public_key(s) # "none"
  BY <1>1 DEF tlcp_hybrid_cert_verify_der
<1>3. /\ s.decodes /\ s.inner = "composite" /\ s.spki = "composite"
      /\ tlcp_hybrid_cert_get_sm2_sign_public_key(s) = s.holder
      /\ s.holder # "none"
  BY <1>2 DEF decode_der_strict, composite_algorithms_valid,
              composite_signature_algorithms_valid, subject_public_key_is_composite,
              tlcp_hybrid_cert_get_sm2_sign_public_key, get_composite_public_key
<1>4. IssuedUnder(s, root, "sign") /\ IssuedUnder(e, root, "enc")
  BY <1>1, <1>2 DEF hybrid_verify_chain, hybrid_verify_certificate,
                    hybrid_verify_encryption_certificate
<1>5. ASSUME NEW cert, NEW profile, IssuedUnder(cert, root, profile)
      PROVE  Sealed(cert, root.holder)
  <2>1. /\ certificate_time_valid(cert)
        /\ composite_signature_algorithms_valid(cert)
        /\ subject_public_key_is_composite(root)
        /\ composite_valid(cert, get_composite_public_key(root))
    BY <1>5 DEF IssuedUnder, verify_certificate_signature
  <2>2. get_composite_public_key(root) = root.holder
    BY <2>1 DEF get_composite_public_key
  <2>3. get_signature(cert).by = cert.by
    BY DEF get_signature
  <2> QED
    BY <2>1, <2>2, <2>3 DEF Sealed, certificate_time_valid, composite_signature_algorithms_valid,
       composite_valid, ComponentValid, get_tbs_der
<1>6. s.san # "none"
  BY <1>2 DEF hybrid_verify_chain, hybrid_verify_certificate, server_san_valid
<1>7. hostname \in {"", s.san}
  BY <1>2, <1>6 DEF X509_check_host
<1>8. OneHost(s, e, hostname)
  BY <1>1, <1>3, <1>7 DEF OneHost
<1>9. root.live
  BY <1>2 DEF hybrid_verify_chain, hybrid_verify_root_self_signature, certificate_time_valid
<1> QED
  BY <1>4, <1>5, <1>8, <1>9

\* The one place where a chain becomes trusted: while a component is sound,
\* VALID under the CA's certificate means that the CA issued both.
LEMMA ValidMeansIssued ==
    ASSUME ServerTypeOK, CertificatesInv, Verdict = "VALID", cfg.root.issued
    PROVE  \A r \in Roles : chain[r].issued
<1>1. /\ chain["signing"] \in Certificate /\ chain["encryption"] \in Certificate
      /\ cfg.root \in TrustAnchors /\ cfg.hostname \in {"", "server.local"}
  BY DEF ServerTypeOK, TypeOK, Configs, Roles
<1>2. \A r \in Roles : Sealed(chain[r], "ca")
  <2>1. cfg.root.holder = "ca"
    BY <1>1, AnchorFacts
  <2>2. Sealed(chain["signing"], "ca") /\ Sealed(chain["encryption"], "ca")
    BY <1>1, <2>1, ValidFacts DEF Verdict
  <2> QED
    BY <2>2 DEF Roles
<1>3. PICK c \in Components : c \in Components \ unsound
  BY DEF CertificatesInv
<1> QED
  BY <1>2, <1>3 DEF CertificatesInv, Genuine, Sealed

-----------------------------------------------------------------------------
(* The client.  Neither the chain nor the context changes in its steps. *)

ChainStays == UNCHANGED <<cfg, unsound, chain, edits, ctx, server, slot, conns>>

LEMMA ChainStaysInv ==
    ASSUME ConnectionInv, ChainStays
    PROVE  CertificatesInv' /\ ContextInv'
  BY DEF ConnectionInv, ChainStays, CertificatesInv, ContextInv, InProgress, Served

LEMMA ServedType ==
    ASSUME ServerTypeOK, ContextInv, InProgress
    PROVE  Served.loaded \in {"none", "hybrid", "ordinary"}
<1>1. slot \in 1..MaxChains /\ ctx.entries \in [1..MaxChains -> Entries]
  BY MaxChainsAssumption DEF ServerTypeOK, ContextInv, Contexts
<1>2. Served \in Entries
  BY <1>1 DEF Served
<1> QED
  BY <1>2 DEF Entries

LEMMA AcceptHybridInv ==
    ASSUME ConnectionInv, AcceptHybrid, ChainStays
    PROVE  ConnectionInv'
<1> USE DEF ConnectionInv
<1>1. /\ phase = "certificate" /\ Verdict = "VALID"
      /\ hybrid' = TRUE /\ phase' = "key_exchange"
      /\ sm2Key' = tlcp_hybrid_cert_get_sm2_sign_public_key(chain["signing"])
      /\ UNCHANGED <<consulted, skeBy, pmsTo>>
  BY DEF AcceptHybrid
<1>2. OneHost(chain["signing"], chain["encryption"], cfg.hostname)
  <2>1. /\ chain["signing"] \in Certificate /\ chain["encryption"] \in Certificate
        /\ cfg.root \in TrustAnchors /\ cfg.hostname \in {"", "server.local"}
    BY DEF ServerTypeOK, TypeOK, Configs, Roles
  <2> QED
    BY <1>1, <2>1, ValidFacts DEF Verdict
<1>3. sm2Key' = chain["signing"].holder /\ sm2Key' \in Parties /\ sm2Key' # "none"
  <2>1. chain["signing"].holder \in Parties
    BY CertificateFields DEF ServerTypeOK, TypeOK, Roles
  <2> QED
    BY <1>1, <1>2, <2>1 DEF OneHost
<1>4. ServerTypeOK'
  BY <1>1, <1>3 DEF ServerTypeOK, TypeOK, ChainStays
<1>5. ClientInv'
  <2>1. cfg.root.issued => \A r \in Roles : chain[r].issued
    BY <1>1, ValidMeansIssued
  <2> QED
    BY <1>1, <1>2, <1>3, <2>1 DEF ClientInv, OneHost, ChainStays, Accepted
<1>6. AcceptedServerHasKeys'
  <2> SUFFICES ASSUME InProgress
               PROVE  Served.loaded = "hybrid" /\ Served.keys["signing"] = sm2Key'
    BY <1>1 DEF AcceptedServerHasKeys, ChainStays, InProgress, Served
  <2>1. EntryOK(Served) /\ chain = Served.chain
    BY DEF ContextInv, Served
  <2>2. Served.loaded # "ordinary"
    BY <1>2, <2>1 DEF OneHost, EntryOK, subject_public_key_is_sm2
  <2>3. Served.loaded \in {"hybrid", "ordinary"}
    BY <2>1, ServedType DEF EntryOK
  <2> QED
    BY <1>1, <2>1, <2>2, <2>3 DEF EntryOK
<1> QED
  BY <1>4, <1>5, <1>6, ChainStaysInv

LEMMA RejectHybridInv ==
    ASSUME ConnectionInv, RejectHybrid, ChainStays
    PROVE  ConnectionInv'
<1> USE DEF ConnectionInv
<1>1. /\ phase = "certificate" /\ phase' = "closed"
      /\ sm2Key' = KeyLeftBehind
      /\ UNCHANGED <<consulted, hybrid, skeBy, pmsTo>>
  BY DEF RejectHybrid, Close
<1>2. ~hybrid /\ ~consulted
  BY <1>1 DEF ClientInv
<1>3. sm2Key' \in Parties \cup {"none"}
  <2>1. chain["signing"].holder \in Parties
    BY CertificateFields DEF ServerTypeOK, TypeOK, Roles
  <2> QED
    BY <1>1, <2>1 DEF KeyLeftBehind, tlcp_hybrid_cert_get_sm2_sign_public_key,
                      get_composite_public_key
<1>4. ServerTypeOK'
  BY <1>1, <1>2, <1>3 DEF ServerTypeOK, TypeOK, ChainStays
<1>5. ClientInv' /\ AcceptedServerHasKeys'
  BY <1>1, <1>2 DEF ClientInv, AcceptedServerHasKeys, Accepted
<1> QED
  BY <1>4, <1>5, ChainStaysInv

LEMMA VerifyOrdinaryInv ==
    ASSUME ConnectionInv, VerifyOrdinary, ChainStays
    PROVE  ConnectionInv'
<1> USE DEF ConnectionInv
<1>1. /\ phase = "certificate" /\ FallsBack
      /\ consulted' = TRUE /\ hybrid' = FALSE /\ sm2Key' = "none"
      /\ phase' \in {"key_exchange", "closed"}
      /\ UNCHANGED <<skeBy, pmsTo>>
  BY DEF VerifyOrdinary
<1>2. ServerTypeOK'
  BY <1>1 DEF ServerTypeOK, TypeOK, ChainStays
<1>3. ~(cfg.cb /\ cfg.expected)
  BY <1>1 DEF FallsBack
<1>4. ClientInv' /\ AcceptedServerHasKeys'
  BY <1>1, <1>3 DEF ClientInv, AcceptedServerHasKeys, Accepted, ChainStays
<1> QED
  BY <1>2, <1>4, ChainStaysInv

LEMMA RecvServerKeyExchangeInv ==
    ASSUME ConnectionInv, NEW signer \in Parties, RecvServerKeyExchange(signer), ChainStays
    PROVE  ConnectionInv'
<1> USE DEF ConnectionInv
<1>1. /\ phase = "key_exchange" /\ phase' \in {"client_key", "closed"}
      /\ phase' = "client_key" =>
            skeBy' = signer /\ (SignKey = signer \/ "sm2" \in unsound)
      /\ phase' = "closed" => skeBy' = skeBy
      /\ UNCHANGED <<consulted, hybrid, sm2Key, pmsTo>>
  BY DEF RecvServerKeyExchange, Close
<1>2. ServerTypeOK'
  BY <1>1 DEF ServerTypeOK, TypeOK, ChainStays
<1>3. ClientInv'
  BY <1>1 DEF ClientInv, SignKey, Accepted, ChainStays
<1>4. AcceptedServerHasKeys'
  BY <1>1 DEF AcceptedServerHasKeys, ChainStays, InProgress, Served
<1> QED
  BY <1>2, <1>3, <1>4, ChainStaysInv

LEMMA SendClientKeyExchangeInv ==
    ASSUME ConnectionInv, SendClientKeyExchange, ChainStays
    PROVE  ConnectionInv'
<1> USE DEF ConnectionInv
<1>1. /\ phase = "client_key" /\ phase' \in {"done", "closed"}
      /\ phase' = "done" => pmsTo' = chain["encryption"].holder
      /\ phase' = "closed" => pmsTo' = pmsTo
      /\ UNCHANGED <<consulted, hybrid, sm2Key, skeBy>>
  BY DEF SendClientKeyExchange, Close
<1>2. ServerTypeOK'
  <2>1. chain["encryption"].holder \in Parties
    BY CertificateFields DEF ServerTypeOK, TypeOK, Roles
  <2> QED
    BY <1>1, <2>1 DEF ServerTypeOK, TypeOK, ChainStays
<1>3. ClientInv'
  BY <1>1 DEF ClientInv, Accepted, ChainStays
<1>4. AcceptedServerHasKeys'
  BY <1>1 DEF AcceptedServerHasKeys, ContextInv, EntryOK, ChainStays, InProgress, Served
<1> QED
  BY <1>2, <1>3, <1>4, ChainStaysInv

-----------------------------------------------------------------------------
(* The network. *)

LEMMA AlterInv ==
    ASSUME ConnectionInv, NEW role \in Roles, NEW cert \in Certificate,
           Genuine(cert, Components \ unsound), Alter(role, cert),
           server = "network", UNCHANGED serverVars
    PROVE  ConnectionInv'
<1> USE DEF ConnectionInv
<1>1. /\ phase = "certificate" /\ edits < MaxEdits /\ edits' = edits + 1
      /\ chain' = [chain EXCEPT ![role] = cert]
      /\ UNCHANGED <<cfg, unsound, phase, consulted, hybrid, sm2Key, skeBy, pmsTo>>
      /\ UNCHANGED <<ctx, server, slot, conns>>
  BY DEF Alter, serverVars
<1>2. ~hybrid /\ ~consulted
  BY <1>1 DEF ClientInv
<1>3. chain' \in [Roles -> Certificate]
  BY <1>1 DEF ServerTypeOK, TypeOK
<1>4. ServerTypeOK'
  BY <1>1, <1>3, MaxEditsAssumption DEF ServerTypeOK, TypeOK
<1>5. CertificatesInv'
  BY <1>1 DEF CertificatesInv, ServerTypeOK, TypeOK
<1>6. ContextInv'
  BY <1>1 DEF ContextInv, InProgress
<1>7. ClientInv' /\ AcceptedServerHasKeys'
  BY <1>1, <1>2 DEF ClientInv, AcceptedServerHasKeys, Accepted
<1> QED
  BY <1>4, <1>5, <1>6, <1>7

\* Whatever happens on the network, and the client's next step.
LEMMA NetworkInv ==
    ASSUME ConnectionInv, server = "network", Next, UNCHANGED serverVars
    PROVE  ConnectionInv'
<1>1. ASSUME NEW role \in Roles
      PROVE  chain[role] \in Certificate /\ Genuine(chain[role], Components \ unsound)
  BY DEF ConnectionInv, ServerTypeOK, TypeOK, CertificatesInv
<1>2. ASSUME NEW role \in Roles, ChangeTbs(role)
      PROVE  ConnectionInv'
  <2>1. PICK cert \in ChangedTbs(chain[role]) : Alter(role, cert)
    BY <1>2 DEF ChangeTbs
  <2>2. cert \in Certificate /\ Genuine(cert, Components \ unsound)
    BY <1>1, <1>2, ChangedTbsGenuine
  <2> QED
    BY <1>2, <2>1, <2>2, AlterInv
<1>3. ASSUME NEW role \in Roles, ChangeWrapping(role)
      PROVE  ConnectionInv'
  <2>1. PICK cert \in {[chain[role] EXCEPT !.outer = "sm2"],
                       [chain[role] EXCEPT !.sigForm = FALSE],
                       [chain[role] EXCEPT !.decodes = FALSE]} : Alter(role, cert)
    BY <1>3 DEF ChangeWrapping
  <2>2. cert \in Certificate /\ Genuine(cert, Components \ unsound)
    BY <1>1, <1>3, ChangedWrappingGenuine
  <2> QED
    BY <1>3, <2>1, <2>2, AlterInv
<1>4. ASSUME NEW role \in Roles, NEW c \in Components, Resign(role, c)
      PROVE  ConnectionInv'
  <2>1. PICK signer \in {"other"} \cup (IF c \in unsound THEN {"ca"} ELSE {}) :
          Alter(role, [chain[role] EXCEPT !.by[c] = signer, !.fits[c] = TRUE])
    BY <1>4 DEF Resign
  <2> DEFINE cert == [chain[role] EXCEPT !.by[c] = signer, !.fits[c] = TRUE]
  <2>2. signer \in Parties /\ (c \in Components \ unsound => signer # "ca")
    BY DEF Parties
  <2>3. cert \in Certificate /\ Genuine(cert, Components \ unsound)
    BY <1>1, <1>4, <2>2, ResignedGenuine
  <2>4. Alter(role, cert)
    BY <2>1
  <2> HIDE DEF cert
  <2> QED
    BY <1>4, <2>3, <2>4, AlterInv
<1>5. CASE AcceptHybrid
  BY <1>5, AcceptHybridInv DEF AcceptHybrid, ChainStays, network, serverVars
<1>6. CASE RejectHybrid
  BY <1>6, RejectHybridInv DEF RejectHybrid, Close, ChainStays, network, serverVars
<1>7. CASE VerifyOrdinary
  BY <1>7, VerifyOrdinaryInv DEF VerifyOrdinary, ChainStays, network, serverVars
<1>8. ASSUME NEW signer \in Parties, RecvServerKeyExchange(signer)
      PROVE  ConnectionInv'
  BY <1>8, RecvServerKeyExchangeInv
     DEF RecvServerKeyExchange, Close, ChainStays, network, serverVars
<1>9. CASE SendClientKeyExchange
  BY <1>9, SendClientKeyExchangeInv
     DEF SendClientKeyExchange, Close, ChainStays, network, serverVars
<1> QED
  BY <1>2, <1>3, <1>4, <1>5, <1>6, <1>7, <1>8, <1>9 DEF Next

-----------------------------------------------------------------------------
(* The server. *)

\* What the loaders do to the context, outside the entries that count.
Extends(n) ==
    /\ ctx' \in Contexts
    /\ ctx'.len = n
    /\ \A i \in 1..ctx.len : ctx'.entries[i] = ctx.entries[i]
    /\ UNCHANGED <<cfg, unsound, chain, edits, phase, consulted, hybrid, sm2Key,
                   skeBy, pmsTo, server, slot, conns>>

LEMMA ExtendsInv ==
    ASSUME ConnectionInv, NEW n \in {ctx.len, ctx.len + 1}, Extends(n),
           n = ctx.len + 1 => EntryOK(ctx'.entries[n])
    PROVE  ConnectionInv'
<1> USE DEF ConnectionInv
<1>1. ctx.len \in Nat /\ ctx'.len \in Nat
  BY MaxChainsAssumption DEF ServerTypeOK, Contexts, Extends
<1>2. ServerTypeOK'
  BY DEF Extends, ServerTypeOK, TypeOK
<1>3. \A i \in 1..ctx'.len : i \in 1..ctx.len \/ (i = ctx.len + 1 /\ n = ctx.len + 1)
  <2>1. ctx'.len = n
    BY DEF Extends
  <2>2. CASE n = ctx.len
    <3> SUFFICES ASSUME NEW i \in 1..ctx.len
                 PROVE  i \in 1..ctx.len
      BY <2>1, <2>2
    <3> QED
      OBVIOUS
  <2>3. CASE n = ctx.len + 1
    <3> SUFFICES ASSUME NEW i \in 1..(ctx.len + 1)
                 PROVE  i \in 1..ctx.len \/ i = ctx.len + 1
      BY <2>1, <2>3
    <3> QED
      BY <1>1
  <2> QED
    BY <2>2, <2>3
<1>4. InProgress => slot \in 1..ctx'.len /\ Served' = Served
  BY <1>1 DEF Extends, ContextInv, Served
<1>5. ContextInv'
  BY <1>3, <1>4 DEF Extends, ContextInv, InProgress
<1>6. CertificatesInv' /\ ClientInv'
  BY DEF Extends, CertificatesInv, ClientInv, Accepted
<1>7. AcceptedServerHasKeys'
  BY <1>4 DEF Extends, AcceptedServerHasKeys, InProgress
<1> QED
  BY <1>2, <1>5, <1>6, <1>7

LEMMA SetHybridCertVerifyInv ==
    ASSUME ConnectionInv, SetHybridCertVerify
    PROVE  ConnectionInv'
<1>1. PICK p \in Parameters : ctx' = [ctx EXCEPT !.cb = p]
  BY DEF SetHybridCertVerify
<1>2. /\ ctx' \in Contexts
      /\ ctx'.entries = ctx.entries /\ ctx'.len = ctx.len
  BY <1>1 DEF ConnectionInv, ServerTypeOK, Contexts
<1>3. Extends(ctx.len)
  BY <1>2 DEF Extends, SetHybridCertVerify, vars
<1>4. ctx.len # ctx.len + 1
  BY MaxChainsAssumption DEF ConnectionInv, ServerTypeOK, Contexts
<1> QED
  BY <1>3, <1>4, ExtendsInv

\* The file goes where no entry counts yet.
LEMMA ReadFacts ==
    ASSUME ServerTypeOK, ctx.len < MaxChains, NEW e \in Entries
    PROVE  /\ Read(e) \in [1..MaxChains -> Entries]
           /\ Read(e)[ctx.len + 1] = e
           /\ \A i \in 1..ctx.len : Read(e)[i] = ctx.entries[i]
<1>1. /\ ctx.len \in Nat /\ ctx.len + 1 \in 1..MaxChains
      /\ ctx.entries \in [1..MaxChains -> Entries]
  BY MaxChainsAssumption DEF ServerTypeOK, Contexts
<1>2. \A i \in 1..ctx.len : i \in 1..MaxChains /\ i # ctx.len + 1
  BY <1>1, MaxChainsAssumption
<1> QED
  BY <1>1, <1>2 DEF Read

LEMMA FileType ==
    ASSUME NEW file \in ChainFiles
    PROVE  file \in [Roles -> Certificate] \cup {NoChain}
  BY ChainFileFacts DEF Fine

LEMMA RefuseInv ==
    ASSUME ConnectionInv, NEW file \in ChainFiles, ctx.len < MaxChains, Refuse(file),
           UNCHANGED <<vars, server, slot, conns>>
    PROVE  ConnectionInv'
<1> DEFINE e == [NoEntry EXCEPT !.chain = file]
<1>1. e \in Entries
  BY FileType DEF Entries, NoEntry
<1>2. ctx' = [ctx EXCEPT !.entries = Read(e)]
  BY DEF Refuse
<1> HIDE DEF e
<1>3. /\ Read(e) \in [1..MaxChains -> Entries]
      /\ \A i \in 1..ctx.len : Read(e)[i] = ctx.entries[i]
  BY <1>1, ReadFacts DEF ConnectionInv
<1>4. ctx' \in Contexts /\ ctx'.entries = Read(e) /\ ctx'.len = ctx.len
  BY <1>2, <1>3 DEF ConnectionInv, ServerTypeOK, Contexts
<1>5. Extends(ctx.len)
  BY <1>3, <1>4 DEF Extends, vars
<1>6. ctx.len # ctx.len + 1
  BY MaxChainsAssumption DEF ConnectionInv, ServerTypeOK, Contexts
<1> QED
  BY <1>5, <1>6, ExtendsInv

\* A chain that is loaded comes with its own private keys.
LEMMA LoadInv ==
    ASSUME ConnectionInv, ctx.len < MaxChains,
           NEW how \in {"hybrid", "ordinary"}, NEW file \in ChainFiles, NEW keys \in KeyFiles,
           NEW verified \in Parameters \cup {NoParameters},
           file # NoChain, Load(how, file, keys, verified),
           UNCHANGED <<vars, server, slot, conns>>,
           keys["signing"] = IF how = "hybrid"
                             THEN tlcp_hybrid_cert_get_sm2_sign_public_key(file["signing"])
                             ELSE file["signing"].holder,
           keys["encryption"] = file["encryption"].holder,
           how = "ordinary" => subject_public_key_is_sm2(file["signing"])
    PROVE  ConnectionInv'
<1> DEFINE e == [chain |-> file, keys |-> keys, loaded |-> how, verified |-> verified]
<1>1. Fine(file)
  BY ChainFileFacts
<1>2. e \in Entries
  BY <1>1 DEF Entries, Fine
<1>3. EntryOK(e)
  BY <1>1 DEF EntryOK, Fine
<1>4. ctx' = [ctx EXCEPT !.len = ctx.len + 1, !.entries = Read(e)]
  BY DEF Load
<1> HIDE DEF e
<1>5. /\ Read(e) \in [1..MaxChains -> Entries]
      /\ Read(e)[ctx.len + 1] = e
      /\ \A i \in 1..ctx.len : Read(e)[i] = ctx.entries[i]
  BY <1>2, ReadFacts DEF ConnectionInv
<1>6. ctx.len + 1 \in 0..MaxChains
  BY MaxChainsAssumption DEF ConnectionInv, ServerTypeOK, Contexts
<1>7. ctx' \in Contexts /\ ctx'.entries = Read(e) /\ ctx'.len = ctx.len + 1
  BY <1>4, <1>5, <1>6 DEF ConnectionInv, ServerTypeOK, Contexts
<1>8. Extends(ctx.len + 1) /\ EntryOK(ctx'.entries[ctx.len + 1])
  BY <1>3, <1>5, <1>7 DEF Extends, vars
<1> QED
  BY <1>8, ExtendsInv

LEMMA LoadHybridInv ==
    ASSUME ConnectionInv, LoadHybrid
    PROVE  ConnectionInv'
<1>1. PICK file \in ChainFiles :
        \/ Refuse(file)
        \/ \E keys \in KeyFiles : /\ HybridAcceptable(file, keys)
                                 /\ Load("hybrid", file, keys, ctx.cb)
  BY DEF LoadHybrid
<1>2. ctx.len < MaxChains /\ UNCHANGED <<vars, server, slot, conns>>
  BY DEF LoadHybrid
<1>3. CASE Refuse(file)
  BY <1>2, <1>3, RefuseInv
<1>4. ASSUME NEW keys \in KeyFiles, HybridAcceptable(file, keys),
             Load("hybrid", file, keys, ctx.cb)
      PROVE  ConnectionInv'
  <2>1. file # NoChain /\ KeysMatch(file, keys)
    BY <1>4 DEF HybridAcceptable, tlcp_hybrid_certs_from_pem
  <2>2. ctx.cb \in Parameters \cup {NoParameters}
    BY DEF ConnectionInv, ServerTypeOK, Contexts
  <2> QED
    BY <1>2, <1>4, <2>1, <2>2, LoadInv DEF KeysMatch
<1> QED
  BY <1>1, <1>3, <1>4

LEMMA LoadOrdinaryInv ==
    ASSUME ConnectionInv, LoadOrdinary
    PROVE  ConnectionInv'
<1>1. PICK file \in ChainFiles :
        \/ Refuse(file)
        \/ \E keys \in KeyFiles : /\ OrdinaryAcceptable(file, keys)
                                 /\ Load("ordinary", file, keys, NoParameters)
  BY DEF LoadOrdinary
<1>2. ctx.len < MaxChains /\ UNCHANGED <<vars, server, slot, conns>>
  BY DEF LoadOrdinary
<1>3. CASE Refuse(file)
  BY <1>2, <1>3, RefuseInv
<1>4. ASSUME NEW keys \in KeyFiles, OrdinaryAcceptable(file, keys),
             Load("ordinary", file, keys, NoParameters)
      PROVE  ConnectionInv'
  <2>1. /\ file # NoChain
        /\ subject_public_key_is_sm2(file["signing"])
        /\ keys["signing"] = file["signing"].holder
        /\ keys["encryption"] = file["encryption"].holder
    BY <1>4 DEF OrdinaryAcceptable, Roles
  <2> QED
    BY <1>2, <1>4, <2>1, LoadInv
<1> QED
  BY <1>1, <1>3, <1>4

\* Expiry changes the validity of the certificates and nothing else.
LEMMA AgedChain ==
    ASSUME NEW c \in [Roles -> Certificate]
    PROVE  /\ Aged(c) \in [Roles -> Certificate]
           /\ \A r \in Roles :
                /\ Aged(c)[r].issued = c[r].issued /\ Aged(c)[r].subject = c[r].subject
                /\ Aged(c)[r].holder = c[r].holder /\ Aged(c)[r].inner = c[r].inner
                /\ Aged(c)[r].outer = c[r].outer /\ Aged(c)[r].spki = c[r].spki
                /\ Aged(c)[r].san = c[r].san
                /\ Aged(c)[r].decodes = c[r].decodes
                /\ \A sound : Genuine(c[r], sound) => Genuine(Aged(c)[r], sound)
  BY AgedFacts, AgedGenuine DEF Aged

LEMMA AgedEntryOK ==
    ASSUME NEW e \in Entries
    PROVE  /\ AgedEntry(e) \in Entries
           /\ EntryOK(e) => /\ EntryOK(AgedEntry(e))
                            /\ AgedEntry(e).chain = Aged(e.chain)
                            /\ AgedEntry(e).keys = e.keys
                            /\ AgedEntry(e).loaded = e.loaded
<1> DEFINE a == Aged(e.chain)
<1>1. CASE e.chain = NoChain
  <2>1. NoChain \notin [Roles -> Certificate]
    <3>1. NoChain["signing"] = NoId
      BY DEF NoChain, Roles
    <3>2. NoId \notin Certificate
      BY DEF NoId, Certificate
    <3> QED
      BY <3>1, <3>2 DEF Roles
  <2> QED
    BY <1>1, <2>1 DEF AgedEntry, EntryOK
<1>2. CASE e.chain # NoChain
  <2>1. e.chain \in [Roles -> Certificate]
    BY <1>2 DEF Entries
  <2>2. AgedEntry(e) = [e EXCEPT !.chain = a] /\ a \in [Roles -> Certificate]
    BY <1>2, <2>1, AgedChain DEF AgedEntry
  <2>3. /\ AgedEntry(e) \in Entries
        /\ AgedEntry(e).chain = a /\ AgedEntry(e).keys = e.keys
        /\ AgedEntry(e).loaded = e.loaded
    <3> HIDE DEF a
    <3> QED
      BY <2>2 DEF Entries
  <2>4. /\ \A r \in Roles : Genuine(e.chain[r], Components) => Genuine(a[r], Components)
        /\ a["signing"].holder = e.chain["signing"].holder
        /\ a["encryption"].holder = e.chain["encryption"].holder
        /\ a["signing"].spki = e.chain["signing"].spki
        /\ tlcp_hybrid_cert_get_sm2_sign_public_key(a["signing"])
             = tlcp_hybrid_cert_get_sm2_sign_public_key(e.chain["signing"])
    BY <2>1, AgedChain DEF tlcp_hybrid_cert_get_sm2_sign_public_key, decode_der_strict,
       composite_algorithms_valid, composite_signature_algorithms_valid,
       subject_public_key_is_composite, get_composite_public_key, Roles
  <2> HIDE DEF a
  <2>5. EntryOK(e) => EntryOK(AgedEntry(e))
    BY <2>2, <2>3, <2>4 DEF EntryOK, subject_public_key_is_sm2
  <2> QED
    BY <2>3, <2>5 DEF a
<1> QED
  BY <1>1, <1>2

LEMMA ExpireInv ==
    ASSUME ConnectionInv, Expire
    PROVE  ConnectionInv'
<1> USE DEF ConnectionInv
<1> DEFINE es == [i \in 1..MaxChains |-> AgedEntry(ctx.entries[i])]
<1>1. /\ ctx' = [ctx EXCEPT !.entries = es]
      /\ chain' = Aged(chain)
      /\ UNCHANGED <<unsound, edits, cfg, phase, consulted, hybrid, sm2Key, skeBy,
                     pmsTo, server, slot, conns>>
  BY DEF Expire, clientVars
<1>2. chain \in [Roles -> Certificate] /\ ctx.entries \in [1..MaxChains -> Entries]
  BY DEF ServerTypeOK, TypeOK, Contexts
<1>3. ctx.len \in 0..MaxChains /\ \A i \in 1..ctx.len : i \in 1..MaxChains
  BY MaxChainsAssumption DEF ServerTypeOK, Contexts
<1>4. es \in [1..MaxChains -> Entries]
  BY <1>2, AgedEntryOK
<1>5. \A i \in 1..ctx.len : /\ EntryOK(es[i]) /\ es[i].chain = Aged(ctx.entries[i].chain)
                            /\ es[i].keys = ctx.entries[i].keys
                            /\ es[i].loaded = ctx.entries[i].loaded
  BY <1>2, <1>3, AgedEntryOK DEF ContextInv
<1> HIDE DEF es
<1>6. ctx' \in Contexts /\ ctx'.entries = es /\ ctx'.len = ctx.len
  BY <1>1, <1>4 DEF ServerTypeOK, Contexts
<1>7. chain' \in [Roles -> Certificate]
  BY <1>1, <1>2, AgedChain
<1>8. ServerTypeOK'
  BY <1>1, <1>6, <1>7 DEF ServerTypeOK, TypeOK
<1>9. CertificatesInv'
  BY <1>1, <1>2, AgedChain DEF CertificatesInv
<1>10. InProgress => /\ slot \in 1..ctx.len /\ Served' = es[slot]
                     /\ Served'.keys = Served.keys /\ Served'.loaded = Served.loaded
                     /\ Served'.chain = chain'
  BY <1>1, <1>5, <1>6 DEF ContextInv, Served
<1>11. ContextInv'
  BY <1>1, <1>5, <1>6, <1>10 DEF ContextInv, InProgress
<1>12. ClientInv'
  BY <1>1, <1>2, AgedChain DEF ClientInv, Accepted, Roles
<1>13. AcceptedServerHasKeys'
  BY <1>1, <1>10 DEF AcceptedServerHasKeys, InProgress
<1> QED
  BY <1>8, <1>9, <1>11, <1>12, <1>13

\* A trust anchor that expires stays the CA's or somebody else's.
LEMMA ExpireRootInv ==
    ASSUME ConnectionInv, ExpireRoot
    PROVE  ConnectionInv'
<1> USE DEF ConnectionInv
<1> DEFINE new == [cfg.root EXCEPT !.live = FALSE]
<1>1. /\ cfg' = [cfg EXCEPT !.root = new]
      /\ UNCHANGED <<unsound, chain, edits, phase, consulted, hybrid, sm2Key, skeBy,
                     pmsTo, ctx, server, slot, conns>>
  BY DEF ExpireRoot, network, serverVars
<1>2. cfg \in Configs
  BY DEF ServerTypeOK, TypeOK
<1>3. new \in TrustAnchors /\ new.issued = cfg.root.issued
  <2>1. cfg.root \in TrustAnchors
    BY <1>2 DEF Configs
  <2>2. PICK p \in {"ca", "other"}, b \in BOOLEAN :
          cfg.root = [create_root(p) EXCEPT !.live = b]
    BY <2>1 DEF TrustAnchors
  <2>3. new = [create_root(p) EXCEPT !.live = FALSE] /\ new.issued = cfg.root.issued
    BY <2>2, ZenonT(60) DEF create_root, sign_tbs
  <2> QED
    <3>1. \E q \in {"ca", "other"}, d \in BOOLEAN :
            new = [create_root(q) EXCEPT !.live = d]
      BY <2>3, Zenon
    <3>2. new \in TrustAnchors
      <4> HIDE DEF new
      <4> QED
        BY <3>1, SMT DEF TrustAnchors
    <3> QED
      BY <2>3, <3>2
<1> HIDE DEF new
<1>4. /\ cfg' \in Configs /\ cfg'.root = new /\ cfg'.cb = cfg.cb
      /\ cfg'.expected = cfg.expected /\ cfg'.hostname = cfg.hostname
  BY <1>1, <1>2, <1>3 DEF Configs
<1>5. ServerTypeOK'
  BY <1>1, <1>4 DEF ServerTypeOK, TypeOK
<1>6. CertificatesInv' /\ ContextInv' /\ AcceptedServerHasKeys'
  BY <1>1 DEF CertificatesInv, ContextInv, AcceptedServerHasKeys, InProgress, Served
<1>7. ClientInv'
  BY <1>1, <1>3, <1>4 DEF ClientInv, Accepted
<1> QED
  BY <1>5, <1>6, <1>7

LEMMA ConnectInv ==
    ASSUME ConnectionInv, Connect
    PROVE  ConnectionInv'
<1> USE DEF ConnectionInv
<1>1. /\ conns < MaxConnections /\ conns' = conns + 1
      /\ server' = "wait_key" /\ slot' \in 1..ctx.len /\ cfg' \in Configs
      /\ chain' = ctx.entries[slot'].chain /\ phase' = "certificate"
      /\ consulted' = FALSE /\ hybrid' = FALSE
      /\ sm2Key' = "none" /\ skeBy' = "none" /\ pmsTo' = "none"
      /\ UNCHANGED <<unsound, edits, ctx>>
  BY DEF Connect
<1>2. /\ chain' \in [Roles -> Certificate]
      /\ \A r \in Roles : Genuine(chain'[r], Components)
  BY <1>1 DEF ContextInv, EntryOK
<1>3. ServerTypeOK'
  <2>1. slot' \in 0..MaxChains
    BY <1>1, MaxChainsAssumption DEF ServerTypeOK, Contexts
  <2>2. conns' \in 0..MaxConnections
    BY <1>1, MaxConnectionsAssumption DEF ServerTypeOK
  <2>3. TypeOK'
    BY <1>1, <1>2 DEF ServerTypeOK, TypeOK
  <2> QED
    BY <1>1, <2>1, <2>2, <2>3 DEF ServerTypeOK
<1>4. CertificatesInv'
  BY <1>1, <1>2 DEF CertificatesInv, Genuine
<1>5. ContextInv'
  BY <1>1 DEF ContextInv, InProgress, Served
<1>6. ClientInv' /\ AcceptedServerHasKeys'
  BY <1>1 DEF ClientInv, AcceptedServerHasKeys, Accepted
<1> QED
  BY <1>3, <1>4, <1>5, <1>6

LEMMA ClientStepInv ==
    ASSUME ConnectionInv, ClientStep
    PROVE  ConnectionInv'
<1>1. InProgress /\ UNCHANGED serverVars
  BY DEF ClientStep
<1>2. CASE AcceptHybrid
  BY <1>1, <1>2, AcceptHybridInv DEF AcceptHybrid, ChainStays, network, serverVars
<1>3. CASE RejectHybrid
  BY <1>1, <1>3, RejectHybridInv DEF RejectHybrid, Close, ChainStays, network, serverVars
<1>4. CASE VerifyOrdinary
  BY <1>1, <1>4, VerifyOrdinaryInv DEF VerifyOrdinary, ChainStays, network, serverVars
<1>5. CASE RecvServerKeyExchange(Served.keys["signing"])
  <2>1. Served.keys["signing"] \in Parties
    BY <1>1 DEF ConnectionInv, ContextInv, EntryOK, Served, KeyFiles, Roles, Parties
  <2> QED
    BY <1>1, <1>5, <2>1, RecvServerKeyExchangeInv
       DEF RecvServerKeyExchange, Close, ChainStays, network, serverVars
<1>6. CASE SendClientKeyExchange
  BY <1>1, <1>6, SendClientKeyExchangeInv
     DEF SendClientKeyExchange, Close, ChainStays, network, serverVars
<1> QED
  BY <1>2, <1>3, <1>4, <1>5, <1>6 DEF ClientStep

LEMMA ServerStepInv ==
    ASSUME ConnectionInv, ServerStep
    PROVE  ConnectionInv'
<1>1. /\ server' \in {"done", "closed"}
      /\ UNCHANGED <<cfg, unsound, chain, edits, phase, consulted, hybrid, sm2Key,
                     skeBy, pmsTo, ctx, slot, conns>>
  BY DEF ServerStep, vars
<1> USE DEF ConnectionInv
<1>2. ServerTypeOK'
  BY <1>1 DEF ServerTypeOK, TypeOK
<1>3. ~InProgress'
  BY <1>1 DEF InProgress
<1>4. CertificatesInv' /\ ClientInv'
  BY <1>1 DEF CertificatesInv, ClientInv, Accepted
<1>5. ContextInv' /\ AcceptedServerHasKeys'
  BY <1>1, <1>3 DEF ContextInv, AcceptedServerHasKeys
<1> QED
  BY <1>2, <1>4, <1>5

-----------------------------------------------------------------------------
(* The theorems. *)

LEMMA HandshakeInitInv == HandshakeInit => ConnectionInv
<1> SUFFICES ASSUME HandshakeInit
             PROVE  ConnectionInv
  OBVIOUS
<1>1. PICK c \in Chains : chain = [r \in Roles |-> c[r]]
  BY DEF HandshakeInit, Init
<1>2. /\ chain \in [Roles -> Certificate]
      /\ \A r \in Roles : Genuine(chain[r], Components \ unsound)
  BY <1>1, ChainsGenuine
<1>3. TypeOK
  <2>1. /\ cfg \in Configs /\ edits = 0
        /\ unsound \in {{}, {"dil"}, {"sm2"}}
    BY Zenon DEF HandshakeInit, Init
  <2>2. consulted \in BOOLEAN /\ hybrid \in BOOLEAN /\ ~hybrid
    BY Zenon DEF HandshakeInit, Init
  <2>3. /\ phase = "certificate"
        /\ sm2Key = "none" /\ skeBy = "none" /\ pmsTo = "none"
    BY DEF HandshakeInit, Init
  <2>4. unsound \in SUBSET Components
    BY <2>1 DEF Components
  <2> QED
    BY <1>2, <2>1, <2>2, <2>3, <2>4, MaxEditsAssumption DEF TypeOK
<1>4. ctx \in Contexts
  <2>1. NoEntry \in Entries
    BY DEF NoEntry, Entries
  <2>2. [i \in 1..MaxChains |-> NoEntry] \in [1..MaxChains -> Entries]
    BY <2>1
  <2>3. 0 \in 0..MaxChains
    BY MaxChainsAssumption
  <2>4. NoParameters \in Parameters \cup {NoParameters}
    OBVIOUS
  <2> HIDE DEF NoEntry
  <2> QED
    BY <2>2, <2>3, <2>4 DEF HandshakeInit, Contexts
<1>5. ServerTypeOK
  <2>1. server \in {"network", "idle"} /\ conns = 0 /\ slot = 0
    BY DEF HandshakeInit
  <2> QED
    BY <1>3, <1>4, <2>1, MaxConnectionsAssumption, MaxChainsAssumption DEF ServerTypeOK
<1>6. CertificatesInv
  <2>1. unsound \in {{}, {"dil"}, {"sm2"}}
    BY DEF HandshakeInit, Init
  <2>2. Components \ unsound # {}
    BY <2>1 DEF Components
  <2> QED
    BY <1>2, <2>2 DEF CertificatesInv
<1>7. ~InProgress /\ \A i \in 1..ctx.len : FALSE
  <2>1. ctx.len = 0 /\ server \in {"network", "idle"}
    BY DEF HandshakeInit
  <2> QED
    BY <2>1 DEF InProgress
<1>8. ContextInv /\ ClientInv /\ AcceptedServerHasKeys
  BY <1>7 DEF HandshakeInit, Init, ContextInv, ClientInv,
              AcceptedServerHasKeys, Accepted
<1> QED
  BY <1>5, <1>6, <1>8 DEF ConnectionInv

LEMMA HandshakeStepInv == ConnectionInv /\ [HandshakeNext]_allVars => ConnectionInv'
<1> SUFFICES ASSUME ConnectionInv, [HandshakeNext]_allVars
             PROVE  ConnectionInv'
  OBVIOUS
<1>1. CASE UNCHANGED allVars
  <2>1. /\ ChainStays
        /\ UNCHANGED <<phase, consulted, hybrid, sm2Key, skeBy, pmsTo>>
    BY <1>1 DEF allVars, vars, serverVars, ChainStays
  <2>2. ServerTypeOK'
    BY <2>1 DEF ChainStays, ConnectionInv, ServerTypeOK, TypeOK
  <2>3. ClientInv' /\ AcceptedServerHasKeys'
    BY <2>1 DEF ChainStays, ConnectionInv, ClientInv,
                AcceptedServerHasKeys, Accepted, InProgress, Served
  <2> QED
    BY <2>1, <2>2, <2>3, ChainStaysInv DEF ConnectionInv
<1> QED
  BY <1>1, NetworkInv, SetHybridCertVerifyInv, LoadHybridInv, LoadOrdinaryInv,
     ExpireInv, ExpireRootInv, ConnectInv, ClientStepInv, ServerStepInv DEF HandshakeNext

\* A client that accepts a Composite chain talks to a server that has the keys
\* of both its certificates, and everything either side holds fits together.
THEOREM ConnectionCorrect == HandshakeSpec => []ConnectionInv
  BY HandshakeInitInv, HandshakeStepInv, PTL DEF HandshakeSpec

\* Both signature components are needed, on both certificates: while one of the
\* two algorithms is sound, the Composite path of tlcp_recv_server_certificate
\* accepts only what the CA issued, to one subject.
THEOREM HybridChainIsIssued == HandshakeSpec => []HybridMeansIssued
<1>1. ConnectionInv => HybridMeansIssued
  BY DEF ConnectionInv, ClientInv, HybridMeansIssued
<1> QED
  BY <1>1, ConnectionCorrect, PTL

\* The premaster secret goes to the configured host, whichever algorithm is
\* unsound, and to whoever signed the ServerKeyExchange while SM2 is sound.
THEOREM SecretGoesToSigner == HandshakeSpec => []SecretReachesSigner
<1>1. ConnectionInv => SecretReachesSigner
  <2> SUFFICES ASSUME ConnectionInv, phase = "done", hybrid, cfg.root.issued
               PROVE  /\ cfg.hostname = "server.local" => pmsTo = "server"
                      /\ "sm2" \notin unsound => pmsTo = skeBy
    BY DEF SecretReachesSigner
  <2>1. /\ skeBy = chain["signing"].holder \/ "sm2" \in unsound
        /\ pmsTo = chain["encryption"].holder
        /\ chain["signing"].subject = chain["encryption"].subject
        /\ cfg.hostname \in {"", chain["signing"].san}
        /\ chain["signing"].issued /\ chain["encryption"].issued
    BY DEF ConnectionInv, ClientInv, Roles
  <2>2. /\ Genuine(chain["signing"], Components \ unsound)
        /\ Genuine(chain["encryption"], Components \ unsound)
    BY DEF ConnectionInv, CertificatesInv, Roles
  <2> QED
    BY <2>1, <2>2 DEF Genuine
<1> QED
  BY <1>1, ConnectionCorrect, PTL

\* The strict policy is never undercut: no alteration of the chain makes the
\* client go on without a verified Composite chain.
THEOREM NoDowngrade == HandshakeSpec => []StrictNeverDowngrades
<1>1. ConnectionInv => StrictNeverDowngrades
  BY DEF ConnectionInv, ClientInv, StrictNeverDowngrades
<1> QED
  BY <1>1, ConnectionCorrect, PTL

\* The verdict of load time is not what a client relies on: it accepts a
\* Composite chain only from a server that loaded it as one, and only while
\* both certificates and the trust anchor are valid.
THEOREM AcceptanceIsFresh == HandshakeSpec => NoStaleAcceptance
<1> DEFINE A == (server # "network" /\ phase = "certificate" /\ hybrid')
                    => (Served.loaded = "hybrid" /\ ~Stale(Served.chain) /\ cfg.root.live)
<1>1. ConnectionInv /\ [HandshakeNext]_allVars => [A]_allVars
  <2> SUFFICES ASSUME ConnectionInv, HandshakeNext,
                      server # "network", phase = "certificate", hybrid'
               PROVE  Served.loaded = "hybrid" /\ ~Stale(Served.chain) /\ cfg.root.live
    OBVIOUS
  <2>1. ~hybrid
    BY DEF ConnectionInv, ClientInv
  <2>2. ~UNCHANGED hybrid
    BY <2>1
  <2>3. ClientStep
    BY <2>2 DEF HandshakeNext, SetHybridCertVerify, LoadHybrid, LoadOrdinary,
                Expire, ExpireRoot, Connect, ServerStep, vars, clientVars
  <2>4. AcceptHybrid /\ InProgress
    BY <2>2, <2>3 DEF ClientStep, RejectHybrid, VerifyOrdinary,
                      RecvServerKeyExchange, SendClientKeyExchange
  <2>5. EntryOK(Served) /\ chain = Served.chain
    BY <2>4 DEF ConnectionInv, ContextInv, Served
  <2>6. /\ chain["signing"] \in Certificate /\ chain["encryption"] \in Certificate
        /\ cfg.root \in TrustAnchors /\ cfg.hostname \in {"", "server.local"}
        /\ Verdict = "VALID"
    BY <2>4 DEF AcceptHybrid, ConnectionInv, ServerTypeOK, TypeOK, Configs, Roles
  <2>7. /\ Sealed(chain["signing"], cfg.root.holder)
        /\ Sealed(chain["encryption"], cfg.root.holder)
        /\ OneHost(chain["signing"], chain["encryption"], cfg.hostname)
        /\ cfg.root.live
    BY <2>6, ValidFacts DEF Verdict
  <2>8. ~Stale(chain)
    BY <2>7 DEF Sealed, Roles, Stale
  <2>9. Served.loaded # "ordinary"
    BY <2>5, <2>7 DEF EntryOK, OneHost, subject_public_key_is_sm2
  <2>10. Served.loaded = "hybrid"
    BY <2>4, <2>5, <2>9, ServedType DEF ConnectionInv, EntryOK
  <2> QED
    BY <2>5, <2>7, <2>8, <2>10
<1> QED
  BY <1>1, ConnectionCorrect, PTL DEF HandshakeSpec, NoStaleAcceptance
=============================================================================
