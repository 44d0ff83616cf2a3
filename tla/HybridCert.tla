----------------------------- MODULE HybridCert -----------------------------
(***************************************************************************)
(* Composite X.509 certificates and their verification: src/hybrid_x509.c, *)
(* src/hybrid_chain.c, the verdict of src/tlcp_hybrid_cert_adapter.c.      *)
(* Cryptography is symbolic: a component signature is the party whose key  *)
(* made it and whether it fits the certificate's TBS as it now stands; a   *)
(* public key is the party that holds its private half.                    *)
(***************************************************************************)
Parties == {"ca", "server", "other"}
Subjects == {"CA", "server.local", "peer.local"}
Profiles == {"ca", "sign", "enc", "none"}
Components == {"dil", "sm2"}

\* A key identifier is a digest of one kind of key of a party.
NoId == [key |-> "none", of |-> "none"]
KeyIds == [key : {"composite", "sm2"}, of : Parties] \cup {NoId}

\* profile: BasicConstraints and KeyUsage, with their criticality; eku:
\* serverAuth; san: the DNS name of the subject alternative name, or none; ski,
\* aki: key identifiers;
\* spki: type of the subject public key; inner, outer: the two signature
\* AlgorithmIdentifiers; issued: the TBS is one the CA really signed (not part
\* of the certificate, only properties look at it).
Certificate ==
    [decodes : BOOLEAN, subject : Subjects, issuer : Subjects,
     spki : {"composite", "sm2"}, holder : Parties, profile : Profiles,
     eku : BOOLEAN, san : Subjects \cup {"none"}, live : BOOLEAN, marker : BOOLEAN,
     ski : KeyIds, aki : KeyIds,
     inner : {"composite", "sm2"}, outer : {"composite", "sm2"},
     sigForm : BOOLEAN, by : [Components -> Parties],
     fits : [Components -> BOOLEAN], issued : BOOLEAN]

-----------------------------------------------------------------------------
(* Issuing: src/hybrid_x509.c. *)

\* SHA-256 of the serialized Composite key; of the SM2 point alone.
compute_key_identifier(holder) == [key |-> "composite", of |-> holder]
compute_sm2_key_identifier(holder) == [key |-> "sm2", of |-> holder]

\* What names the issuer's key in what it signs.
add_authority_key_identifier(issuer) == compute_key_identifier(issuer)

\* The extensions of a CA certificate.
build_root_extensions(holder) ==
    [profile |-> "ca", eku |-> FALSE, san |-> "none", marker |-> TRUE,
     ski |-> compute_key_identifier(holder), aki |-> NoId]

\* Of a server's signing certificate.
build_server_extensions(ca, holder, dns_name) ==
    [profile |-> "sign", eku |-> TRUE, san |-> dns_name, marker |-> TRUE,
     ski |-> compute_key_identifier(holder), aki |-> add_authority_key_identifier(ca)]

\* Of a server's encryption certificate: no EKU and no SAN.
build_encryption_server_extensions(ca, holder) ==
    [profile |-> "enc", eku |-> FALSE, san |-> "none", marker |-> TRUE,
     ski |-> compute_sm2_key_identifier(holder), aki |-> add_authority_key_identifier(ca)]

make_composite_spki(holder) == [type |-> "composite", of |-> holder]
make_sm2_spki(holder) == [type |-> "sm2", of |-> holder]

\* The TBS certificate, its validity starting now.
make_tbs(subject, issuer, spki, ext) ==
    [subject |-> subject, issuer |-> issuer, spki |-> spki, ext |-> ext,
     inner |-> "composite", live |-> TRUE]

\* sign_tbs: both components sign, the outer algorithm is set, and the result
\* is decoded again.
sign_tbs(tbs, signer) ==
    [decodes |-> TRUE, subject |-> tbs.subject, issuer |-> tbs.issuer,
     spki |-> tbs.spki.type, holder |-> tbs.spki.of,
     profile |-> tbs.ext.profile, eku |-> tbs.ext.eku, san |-> tbs.ext.san,
     live |-> tbs.live, marker |-> tbs.ext.marker, ski |-> tbs.ext.ski,
     aki |-> tbs.ext.aki, inner |-> tbs.inner, outer |-> "composite",
     sigForm |-> TRUE, by |-> [c \in Components |-> signer],
     fits |-> [c \in Components |-> TRUE], issued |-> signer = "ca"]

\* A self-signed root of this name.
create_root(signer) ==
    sign_tbs(make_tbs("CA", "CA", make_composite_spki(signer),
                      build_root_extensions(signer)), signer)

create_server(subject, dns_name, holder) ==
    sign_tbs(make_tbs(subject, "CA", make_composite_spki(holder),
                      build_server_extensions("ca", holder, dns_name)), "ca")

create_sm2_encryption(subject, holder) ==
    sign_tbs(make_tbs(subject, "CA", make_sm2_spki(holder),
                      build_encryption_server_extensions("ca", holder)), "ca")

-----------------------------------------------------------------------------
(* Checks on one certificate: src/hybrid_x509.c. *)

composite_signature_algorithms_valid(cert) ==
    cert.inner = "composite" /\ cert.outer = "composite"

subject_public_key_is_composite(cert) == cert.spki = "composite"

subject_public_key_is_sm2(cert) == cert.spki = "sm2"

composite_algorithms_valid(cert) ==
    /\ composite_signature_algorithms_valid(cert)
    /\ subject_public_key_is_composite(cert)

has_pqc_extension(cert) == cert.marker

\* Whose Composite key the subject public key parses to, if it does.
get_composite_public_key(cert) ==
    IF subject_public_key_is_composite(cert) THEN cert.holder ELSE "none"

\* The signature BIT STRING: whole bytes that split into two components.
get_signature(cert) == [form |-> cert.sigForm, by |-> cert.by]

\* Which component signatures are over the TBS encoded again as it now stands.
get_tbs_der(cert) == cert.fits

-----------------------------------------------------------------------------
(* src/hybrid_chain.c. *)

\* Mutant: the validity period is not looked at.
certificate_time_ignored(cert) == TRUE

certificate_time_valid(cert) == cert.live

certificate_constraints_valid(cert, profile) == cert.profile = profile

\* A component signature verifies under the issuer's key of that component.
ComponentValid(cert, c, issuerHolder) ==
    get_signature(cert).by[c] = issuerHolder /\ get_tbs_der(cert)[c]

\* Mutant: one valid component is enough.
composite_valid_any(cert, issuerHolder) ==
    /\ get_signature(cert).form
    /\ \E c \in Components : ComponentValid(cert, c, issuerHolder)

\* composite_verify_detailed: format and both components, never one of them.
composite_valid(cert, issuerHolder) ==
    /\ get_signature(cert).form
    /\ \A c \in Components : ComponentValid(cert, c, issuerHolder)

\* Under the Composite key of the issuer's certificate.
verify_certificate_signature(cert, issuer) ==
    /\ get_composite_public_key(issuer) # "none"
    /\ composite_valid(cert, get_composite_public_key(issuer))

subject_key_identifier_present(cert) == cert.ski # NoId

server_eku_valid(cert) == cert.eku

server_san_valid(cert) == cert.san # "none"

server_key_identifiers_valid(cert, issuer) ==
    /\ subject_key_identifier_present(cert)
    /\ issuer.ski # NoId
    /\ cert.aki = issuer.ski

hybrid_verify_root_self_signature(root) ==
    /\ root.issuer = root.subject
    /\ certificate_time_valid(root)
    /\ certificate_constraints_valid(root, "ca")
    /\ subject_key_identifier_present(root)
    /\ has_pqc_extension(root)
    /\ composite_signature_algorithms_valid(root)
    /\ subject_public_key_is_composite(root)
    /\ verify_certificate_signature(root, root)

\* The checks shared by the signing and the encryption certificate.
IssuedUnder(cert, issuer, profile) ==
    /\ cert.issuer = issuer.subject
    /\ certificate_time_valid(cert)
    /\ certificate_constraints_valid(issuer, "ca")
    /\ certificate_constraints_valid(cert, profile)
    /\ server_key_identifiers_valid(cert, issuer)
    /\ has_pqc_extension(cert)
    /\ composite_signature_algorithms_valid(cert)
    /\ subject_public_key_is_composite(issuer)
    /\ verify_certificate_signature(cert, issuer)

hybrid_verify_certificate(cert, issuer) ==
    /\ IssuedUnder(cert, issuer, "sign")
    /\ server_eku_valid(cert)
    /\ server_san_valid(cert)
    /\ subject_public_key_is_composite(cert)

hybrid_verify_encryption_certificate(cert, issuer) ==
    /\ IssuedUnder(cert, issuer, "enc")
    /\ subject_public_key_is_sm2(cert)

hybrid_verify_chain(root, server) ==
    /\ hybrid_verify_root_self_signature(root)
    /\ hybrid_verify_certificate(server, root)

-----------------------------------------------------------------------------
(* src/tlcp_hybrid_cert_adapter.c.  A chain is a sequence of certificates;  *)
(* a certificate that does not decode hides everything after it.            *)

certificate_mentions_composite(cert) ==
    cert.inner = "composite" \/ cert.outer = "composite"

\* contains_composite_oid: a scan for the OID, wherever it stands, of the first
\* n bytes of the certificate; here n is all of them or none.
contains_composite_oid(cert, bytesGiven) ==
    /\ bytesGiven
    /\ certificate_mentions_composite(cert) \/ cert.spki = "composite"

\* The bytes are one certificate and nothing else.
decode_der_strict(cert, bytesGiven) == bytesGiven /\ cert.decodes

\* The SM2 component of the signing certificate's key, kept for the handshake.
tlcp_hybrid_cert_get_sm2_sign_public_key(cert) ==
    IF decode_der_strict(cert, TRUE) /\ composite_algorithms_valid(cert)
    THEN get_composite_public_key(cert) ELSE "none"

\* OpenSSL's rule: the DNS name decides, the common name only if there is none.
X509_check_host(cert, hostname) ==
    hostname = IF cert.san # "none" THEN cert.san ELSE cert.subject

\* tlcp_hybrid_cert_verify_der on the bytes of cert, or on no byte at all.
tlcp_hybrid_cert_verify_der(cert, bytesGiven, root, hostname) ==
    LET decoded == decode_der_strict(cert, bytesGiven)
        recognized == IF decoded THEN certificate_mentions_composite(cert)
                      ELSE contains_composite_oid(cert, bytesGiven)
        valid == /\ decoded
                 /\ composite_algorithms_valid(cert)
                 /\ has_pqc_extension(cert)
                 /\ decode_der_strict(root, TRUE)
                 /\ hybrid_verify_chain(root, cert)
                 /\ hostname = "" \/ X509_check_host(cert, hostname)
                 /\ tlcp_hybrid_cert_get_sm2_sign_public_key(cert) # "none"
    IN IF ~recognized THEN "NOT_APPLICABLE" ELSE IF valid THEN "VALID" ELSE "INVALID"

\* Mutant: only the issuers of the two TLCP certificates are compared.
tlcp_dual_issuer_ok(signing, encryption) == signing.issuer = encryption.issuer

\* Subject and issuer of the two TLCP certificates agree.
tlcp_dual_identity_ok(signing, encryption) ==
    signing.subject = encryption.subject /\ signing.issuer = encryption.issuer

\* Whether the next certificate of a chain decodes; it then also ends where the
\* one after it starts.
decode_next_certificate(cert) == cert.decodes

\* tlcp_hybrid_cert_gmssl_verify_callback: a signing certificate that does not
\* decode is passed on with length 0.
tlcp_hybrid_cert_gmssl_verify_callback(signing, encryption, root, hostname) ==
    LET result == tlcp_hybrid_cert_verify_der(signing, decode_next_certificate(signing),
                                              root, hostname)
    IN IF result # "VALID" THEN result
       ELSE IF /\ decode_next_certificate(encryption)
               /\ hybrid_verify_encryption_certificate(encryption, root)
               /\ tlcp_dual_identity_ok(signing, encryption)
            THEN "VALID" ELSE "INVALID"
=============================================================================
