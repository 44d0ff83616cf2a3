------------------------------- MODULE PqKex --------------------------------
(***************************************************************************)
(* The TLCP PQKEX capability extension (0xFF02) of patch 0001: encoding,   *)
(* strict parsing, selection and the handler a server calls once for every *)
(* such extension of a ClientHello.  Bytes are numbers; a KEM identifier   *)
(* takes two of them, big-endian.                                          *)
(***************************************************************************)
EXTENDS Naturals, Sequences, FiniteSetsExt, SequencesExt

CONSTANTS
    TLS_PQKEX_MAX_KEMS      \* 8 in the code

ASSUME MaxKemsAssumption == TLS_PQKEX_MAX_KEMS \in Nat \ {0}

TLS_PQKEX_KEM_NONE == 0
TLS_PQKEX_KEM_MLKEM768 == 1

uint16_to_bytes(n) == <<n \div 256, n % 256>>
uint16_from_bytes(data, at) == data[at] * 256 + data[at + 1]

\* Only ML-KEM-768 may be configured, up to the maximum.
tls_ctx_set_pqkex_kems(kems) ==
    /\ Len(kems) \in 1..TLS_PQKEX_MAX_KEMS
    /\ \A i \in DOMAIN kems : kems[i] = TLS_PQKEX_KEM_MLKEM768

\* The extension data for a list of KEMs.
tls_pqkex_ext_to_bytes(kems) ==
    uint16_to_bytes(Len(kems) * 2)
    \o [i \in 1..(Len(kems) * 2) |->
            uint16_to_bytes(kems[(i + 1) \div 2])[IF i % 2 = 1 THEN 1 ELSE 2]]

\* No list: a well formed one is not empty.
Malformed == <<>>

\* Mutant: what follows the declared list is ignored.
tls_pqkex_from_bytes_trailing(data) ==
    LET list_len == uint16_from_bytes(data, 1)
        count == list_len \div 2
    IN IF /\ Len(data) >= 2
          /\ list_len <= Len(data) - 2
          /\ list_len >= 2 /\ list_len % 2 = 0
          /\ count <= TLS_PQKEX_MAX_KEMS
       THEN [i \in 1..count |-> uint16_from_bytes(data, 2 * i + 1)]
       ELSE Malformed

\* The KEMs of well formed extension data.
tls_pqkex_from_bytes(data) ==
    LET list_len == uint16_from_bytes(data, 1)
        count == list_len \div 2
    IN IF /\ Len(data) >= 2
          /\ list_len = Len(data) - 2
          /\ list_len >= 2 /\ list_len % 2 = 0
          /\ count <= TLS_PQKEX_MAX_KEMS
       THEN [i \in 1..count |-> uint16_from_bytes(data, 2 * i + 1)]
       ELSE Malformed

\* The first of the client's KEMs that the server has too.
tls_pqkex_select_kem(client_kems, server_kems) ==
    LET common == {i \in DOMAIN client_kems : client_kems[i] \in ToSet(server_kems)}
    IN IF common = {} THEN TLS_PQKEX_KEM_NONE ELSE client_kems[Min(common)]

\* The fields of TLS_CONNECT that the handler uses.
NewConnection == [offered |-> FALSE, negotiated |-> FALSE,
                  selected |-> TLS_PQKEX_KEM_NONE, failed |-> FALSE]

tlcp_process_client_pqkex(conn, server_kems, data) ==
    LET kems == tls_pqkex_from_bytes(data)
        kem == tls_pqkex_select_kem(kems, server_kems)
    IN IF conn.offered \/ kems = Malformed
       THEN [conn EXCEPT !.failed = TRUE]
       ELSE [conn EXCEPT !.offered = TRUE, !.selected = kem,
                         !.negotiated = kem # TLS_PQKEX_KEM_NONE]

=============================================================================
