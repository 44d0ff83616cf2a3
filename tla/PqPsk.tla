------------------------------- MODULE PqPsk -------------------------------
(***************************************************************************)
(* The TLS 1.3 post_quantum_pre_shared_key handshake that patch 0004 adds  *)
(* to GmSSL: an empty flag (0xFF03) in ClientHello and ServerHello says    *)
(* that an external PSK is mixed into the ECDHE key schedule while the     *)
(* server still authenticates with Certificate and CertificateVerify.      *)
(*                                                                         *)
(* One connection.  A step is one handler of the two state machines; the   *)
(* peers talk over two FIFO byte streams.  The policy lives in the shared  *)
(* TLS_CTX and may change between two handlers.  Either peer may be one    *)
(* that does not run this code (odd): it sends what it likes, limited only *)
(* by the secrets it holds.  What GmSSL does outside the patch is external *)
(* and a choice where the patch does not tell.                             *)
(***************************************************************************)
EXTENDS Integers, Sequences

CONSTANTS
    Ids,            \* external PSK identities
    Scenarios       \* a sequence of records, what is tried together:
                    \*   psks     the PSK lists a client may be configured with
                    \*   known    what a server may hold for Ids: none, right, wrong
                    \*   modes    sets of PSK modes a side may be configured with
                    \*   odd      peers that do not run this code: see Nobody
                    \*   changes  bound on the policy changes during the handshake

VARIABLES
    policy,     \* the two flags of the TLS_CTX of either side
    cfg,        \* the configuration of both sides, fixed during a handshake
    odd,        \* which side does not run this code, and what it knows
    client,     \* TLS_CONNECT of the client
    server,     \* TLS_CONNECT of the server
    toS, toC,   \* the byte streams
    changes     \* policy changes so far

vars == <<policy, cfg, odd, client, server, toS, toC, changes>>

Sides == {"client", "server"}
PskModes == {"psk", "psk_dhe"}
NoPsk == [id |-> "none", key |-> "none"]
\* Nobody is odd: both sides run this code.
Nobody == [side |-> "none", ids |-> {}, cert |-> FALSE]

Off == [enable |-> FALSE, require |-> FALSE]
Compatible == [enable |-> TRUE, require |-> FALSE]
Strict == [enable |-> TRUE, require |-> TRUE]

ClientStates == {"client_hello", "client_hello_again", "server_hello",
                 "encrypted_extensions", "certificate_request",
                 "server_certificate", "certificate_verify",
                 "server_finished", "client_finished", "over", "failed"}
\* The server keeps the same names; hello_retry_request is its own.
ServerStates == ClientStates \cup {"hello_retry_request"}
Suite == "s1"   \* the cipher suite the server selects
Modes == PskModes \cup {"cert_dhe", "none"}
Policies == {Off, Compatible, Strict}
Flags == {"no", "yes", "bad"}
Shares == {"no", "other", "ok"}
Secrets == [id : Ids \cup {"ticket", "none"}, key : {"right", "wrong", "none"}]

\* An entry of a client's PSK list: an external identity or a ticket.
PskEntries ==
    [id : Ids, suite : {Suite, "s2"}, type : {"external"}, key : {"right", "wrong"}]
    \cup [id : {"ticket"}, suite : {Suite, "s2"}, type : {"ticket"},
          key : {"right", "wrong"}]
Known == [Ids -> {"none", "right", "wrong"}]
OddPeers == [side : Sides \cup {"none"}, ids : SUBSET Ids, cert : BOOLEAN]

ASSUME PqPskAssumption ==
    /\ Ids \cap {"none", "ticket"} = {}
    /\ \A n \in DOMAIN Scenarios :
         /\ Scenarios[n].psks \subseteq Seq(PskEntries)
         /\ Scenarios[n].known \subseteq Known
         /\ Scenarios[n].modes \subseteq SUBSET PskModes
         /\ Scenarios[n].odd \subseteq OddPeers
         /\ Scenarios[n].changes \in Nat

Scenario == Scenarios[cfg.scenario]

Configs == [scenario : DOMAIN Scenarios, psks : Seq(PskEntries), early : BOOLEAN,
            modes : [Sides -> SUBSET PskModes], share : Shares, known : Known,
            cert : BOOLEAN]
ClientConns == [st : ClientStates, psks : Seq(PskEntries), modes : SUBSET PskModes,
                offered : BOOLEAN, retried : BOOLEAN, mode : Modes,
                psk : Secrets, negotiated : BOOLEAN, verified : BOOLEAN]
ServerConns == [st : ServerStates, offered : BOOLEAN, retried : BOOLEAN, sel : Nat,
                mode : Modes, psk : Secrets, negotiated : BOOLEAN]

Alert == [type |-> "alert"]
Hellos == [type : {"CH"}, flag : Flags, psks : Seq(PskEntries),
           modes : SUBSET PskModes, share : Shares, groups : BOOLEAN,
           last : BOOLEAN, early : BOOLEAN]
ServerHellos == [type : {"SH"}, flag : Flags, psk : Nat, share : BOOLEAN]
Finisheds == [type : {"FIN"}, psk : Secrets, dhe : BOOLEAN]
Verifies == [type : {"CV"}, ok : BOOLEAN]
Plain == [type : {"HRR", "EE", "CR", "CERT", "alert"}]
ClientMessages == Hellos \cup Finisheds \cup {Alert}
ServerMessages == ServerHellos \cup Finisheds \cup Verifies \cup Plain

TypeOK ==
    /\ policy \in [Sides -> Policies]
    /\ cfg \in Configs
    /\ odd \in OddPeers
    /\ client \in ClientConns
    /\ server \in ServerConns
    /\ toS \in Seq(ClientMessages)
    /\ toC \in Seq(ServerMessages)
    /\ changes \in 0..Scenario.changes

\* The configuration of a side that does not run this code says nothing.
Immaterial(side) ==
    /\ policy[side] = Off
    /\ cfg.modes[side] = {}
    /\ side = "client" => cfg.psks = <<>> /\ ~ cfg.early /\ cfg.share = "ok"
    /\ side = "server" => cfg.cert /\ \A id \in Ids : cfg.known[id] = "none"

Init ==
    /\ policy \in [Sides -> Policies]
    /\ \E n \in DOMAIN Scenarios :
         /\ odd \in Scenarios[n].odd
         /\ cfg \in [scenario : {n},
                     psks  : Scenarios[n].psks,      \* the client's, in order
                     early : BOOLEAN,                \* early data configured
                     modes : [Sides -> Scenarios[n].modes],
                     share : Shares,                 \* client key_share: none,
                                       \* of another group, or the server's
                     known : Scenarios[n].known,     \* the server's keys
                     cert  : BOOLEAN]                \* server has a chain and key
    /\ odd.side # "none" => Immaterial(odd.side)
    /\ client = [st |-> "client_hello", psks |-> cfg.psks,
                 modes |-> cfg.modes["client"], offered |-> FALSE,
                 retried |-> FALSE, mode |-> "none", psk |-> NoPsk,
                 negotiated |-> FALSE, verified |-> FALSE]
    /\ server = [st |-> "client_hello", offered |-> FALSE, retried |-> FALSE,
                 sel |-> 0, mode |-> "none", psk |-> NoPsk,
                 negotiated |-> FALSE]
    /\ toS = <<>>
    /\ toC = <<>>
    /\ changes = 0

-----------------------------------------------------------------------------
(* Policy API *)

tls13_ctx_enable_post_quantum_pre_shared_key(p, on) ==
    [enable |-> on, require |-> p.require /\ on]

tls13_ctx_require_post_quantum_pre_shared_key(p, on) ==
    [enable |-> p.enable \/ on, require |-> on]

Running(side) == ~ (IF side = "client" THEN client ELSE server).st
                    \in {"over", "failed"}

SetPolicy ==
    /\ changes < Scenario.changes
    /\ \E side \in Sides, on \in BOOLEAN :
         /\ Running(side)
         /\ \/ policy' = [policy EXCEPT ![side] =
                    tls13_ctx_enable_post_quantum_pre_shared_key(@, on)]
            \/ policy' = [policy EXCEPT ![side] =
                    tls13_ctx_require_post_quantum_pre_shared_key(@, on)]
    /\ policy' # policy
    /\ changes' = changes + 1
    /\ UNCHANGED <<cfg, odd, client, server, toS, toC>>

-----------------------------------------------------------------------------
(* Plumbing: an honest peer that fails tells the other (alert or close).   *)

ClientGoes(c, out) ==
    /\ client' = c
    /\ toS' = toS \o out
    /\ UNCHANGED <<policy, cfg, odd, server, changes>>

ServerGoes(s, out) ==
    /\ server' = s
    /\ toC' = toC \o out
    /\ UNCHANGED <<policy, cfg, odd, client, changes>>

ClientSends(c, out) == ClientGoes(c, out) /\ UNCHANGED toC
ServerSends(s, out) == ServerGoes(s, out) /\ UNCHANGED toS
ClientFails == ClientGoes([client EXCEPT !.st = "failed"], <<Alert>>)
ServerFails == ServerGoes([server EXCEPT !.st = "failed"], <<Alert>>)

ClientAt(st) == odd.side # "client" /\ client.st = st
ServerAt(st) == odd.side # "server" /\ server.st = st

\* The next record for an honest peer in state st, taken off its stream.
ClientReads(st) == ClientAt(st) /\ toC # <<>> /\ toC' = Tail(toC)
ServerReads(st) == ServerAt(st) /\ toS # <<>> /\ toS' = Tail(toS)

-----------------------------------------------------------------------------
(* Client *)

tls13_post_quantum_psk_client_config_check(p, psks) ==
    p.enable =>
        /\ ~ cfg.early
        /\ cfg.share # "no"
        /\ "psk_dhe" \in client.modes
        /\ psks # <<>>
        /\ \A i \in DOMAIN psks : psks[i].type = "external"

\* GmSSL sends pre_shared_key and psk_key_exchange_modes when it has PSKs.
ClientHello(flag, psks, modes, share) ==
    [type |-> "CH", flag |-> IF flag THEN "yes" ELSE "no", psks |-> psks,
     modes |-> IF psks = <<>> THEN {} ELSE modes, share |-> share,
     groups |-> TRUE, last |-> TRUE, early |-> cfg.early]

tls13_send_client_hello ==
    /\ ClientAt("client_hello")
    /\ IF tls13_post_quantum_psk_client_config_check(policy["client"], client.psks)
       THEN ClientSends([client EXCEPT !.st = "server_hello",
                                       !.offered = policy["client"].enable],
                        <<ClientHello(policy["client"].enable, client.psks,
                                      client.modes, cfg.share)>>)
       ELSE ClientFails /\ UNCHANGED toC

\* HelloRetryRequest arrives where ServerHello is expected (external).
tls13_recv_hello_retry_request ==
    /\ ClientReads("server_hello")
    /\ Head(toC).type = "HRR"
    /\ IF client.retried
       THEN ClientFails
       ELSE ClientGoes([client EXCEPT !.st = "client_hello_again",
                                      !.retried = TRUE], <<>>)

\* Mutant: the key is copied with a length prefix of the wrong width.
PskUpdateMangled(psks) ==
    LET kept == SelectSeq(psks, LAMBDA e : e.suite = Suite)
    IN [i \in DOMAIN kept |-> [kept[i] EXCEPT !.key = "wrong"]]

\* The PSKs of the selected suite among the first n, for every n.
PskPrefixes(psks) ==
    LET kept[n \in 0..Len(psks)] ==
            IF n = 0 THEN <<>>
            ELSE IF psks[n].suite = Suite THEN Append(kept[n - 1], psks[n])
            ELSE kept[n - 1]
    IN kept

\* Keeps the PSKs of the selected suite; their types move with them.
tls13_client_hello_again_psk_update(psks) == PskPrefixes(psks)[Len(psks)]

FlagAgain == client.offered

\* The PSK update may come before or after the check (external order).
tls13_send_client_hello_again ==
    /\ ClientAt("client_hello_again")
    /\ LET psks == tls13_client_hello_again_psk_update(client.psks)
           modes == client.modes \ {"psk"}
       IN \E checked \in {client.psks, psks} :
            IF /\ tls13_post_quantum_psk_client_config_check(policy["client"], checked)
               /\ policy["client"].enable => client.offered
            THEN ClientSends([client EXCEPT !.st = "server_hello",
                                            !.psks = psks, !.modes = modes],
                             <<ClientHello(FlagAgain, psks, modes, "ok")>>)
            ELSE ClientFails /\ UNCHANGED toC

\* What ServerHello selects: external but for the two patched conditions.
ServerMode(sh) ==
    IF sh.psk # 0 THEN IF sh.share THEN "psk_dhe" ELSE "psk"
    ELSE IF sh.share THEN "cert_dhe" ELSE "none"

\* Mutant: a PSK without the flag is taken as an ordinary PSK handshake.
FlagAcceptableLax(c, p, sh) ==
    /\ sh.flag # "bad"
    /\ sh.flag = "yes" => c.offered /\ sh.share /\ sh.psk # 0
    /\ p.require => sh.flag = "yes"

\* The flag in ServerHello: well formed, solicited, accompanied; not missing.
FlagAcceptable(c, p, sh) ==
    /\ sh.flag # "bad"
    /\ sh.flag = "yes" => c.offered /\ sh.share /\ sh.psk # 0
    /\ c.offered /\ sh.psk # 0 => sh.flag = "yes"
    /\ p.require => sh.flag = "yes"

\* The selected PSK exists; with the flag it is an external one.
SelectionAcceptable(c, sh) ==
    /\ sh.psk # 0 => sh.psk \in DOMAIN c.psks
    /\ sh.flag = "yes" /\ sh.psk \in DOMAIN c.psks =>
           c.psks[sh.psk].type = "external"

\* Mutant: recorded as negotiated because it was offered.
NegotiatedIfOffered(c, sh) == c.offered

Negotiated(c, sh) == sh.flag = "yes"

tls13_recv_server_hello ==
    /\ ClientReads("server_hello")
    /\ Head(toC).type # "HRR"
    /\ LET sh == Head(toC)
           mode == ServerMode(sh)
       IN IF /\ sh.type = "SH"
             /\ FlagAcceptable(client, policy["client"], sh)
             /\ client.retried => sh.share
             /\ SelectionAcceptable(client, sh)
             /\ mode \in client.modes \cup {"cert_dhe"}
             /\ sh.flag = "yes" => mode = "psk_dhe"
          THEN ClientGoes([client EXCEPT
                   !.st = "encrypted_extensions",
                   !.mode = mode,
                   !.negotiated = Negotiated(client, sh),
                   !.psk = IF sh.psk = 0 THEN NoPsk
                           ELSE [id |-> client.psks[sh.psk].id,
                                 key |-> client.psks[sh.psk].key]], <<>>)
          ELSE ClientFails

tls13_recv_encrypted_extensions ==
    /\ ClientReads("encrypted_extensions")
    /\ IF Head(toC).type = "EE"
       THEN ClientGoes([client EXCEPT !.st = "certificate_request"], <<>>)
       ELSE ClientFails

\* Whether the handshake goes on with the server's Certificate.
CertificateExpected(c) == c.mode = "cert_dhe" \/ c.negotiated

AfterCertificateRequest(c) ==
    IF CertificateExpected(c) THEN "server_certificate" ELSE "server_finished"

\* Mutant: the optional message is waited for.
CertificateRequestAwaited ==
    /\ ClientReads("certificate_request")
    /\ Head(toC).type = "CR"
    /\ ClientGoes([client EXCEPT !.st = AfterCertificateRequest(client)], <<>>)

\* Optional message: anything else is left for the next state.
tls13_recv_certificate_request ==
    /\ ClientAt("certificate_request")
    /\ toC # <<>>
    /\ toC' = IF Head(toC).type = "CR" THEN Tail(toC) ELSE toC
    /\ ClientGoes([client EXCEPT !.st = AfterCertificateRequest(client)], <<>>)

tls13_recv_server_certificate ==
    /\ ClientReads("server_certificate")
    /\ IF Head(toC).type = "CERT"
       THEN ClientGoes([client EXCEPT !.st = "certificate_verify"], <<>>)
       ELSE ClientFails

tls13_recv_certificate_verify ==
    /\ ClientReads("certificate_verify")
    /\ IF Head(toC).type = "CV" /\ Head(toC).ok
       THEN ClientGoes([client EXCEPT !.st = "server_finished",
                                      !.verified = TRUE], <<>>)
       ELSE ClientFails

\* A Finished is computed from the PSK and the mode (DHE or not).
Finished(c) == [type |-> "FIN", psk |-> c.psk, dhe |-> c.mode # "psk"]

tls13_recv_server_finished ==
    /\ ClientReads("server_finished")
    /\ IF Head(toC) = Finished(client)
       THEN ClientGoes([client EXCEPT !.st = "client_finished"], <<>>)
       ELSE ClientFails

tls13_send_client_finished ==
    /\ ClientAt("client_finished")
    /\ ClientSends([client EXCEPT !.st = "over"], <<Finished(client)>>)

tls13_do_client_handshake ==
    \/ tls13_send_client_hello
    \/ tls13_recv_hello_retry_request
    \/ tls13_send_client_hello_again
    \/ tls13_recv_server_hello
    \/ tls13_recv_encrypted_extensions
    \/ tls13_recv_certificate_request
    \/ tls13_recv_server_certificate
    \/ tls13_recv_certificate_verify
    \/ tls13_recv_server_finished
    \/ tls13_send_client_finished

-----------------------------------------------------------------------------
(* Server *)

HasPsks == \E id \in Ids : cfg.known[id] # "none"
CommonModes(ch) == ch.modes \cap cfg.modes["server"]

\* ClientHellos refused before any PSK is looked at.
ClientHelloRefused(p, ch) ==
    \/ ch.flag = "bad"
    \/ p.require /\ ch.flag = "no"
    \/ /\ ch.flag = "yes"
       /\ \/ ~ ch.groups \/ ch.share = "no" \/ ch.modes = {} \/ ch.psks = <<>>
          \/ ~ ch.last
          \/ ch.early
          \/ p.require /\ "psk_dhe" \notin CommonModes(ch)

post_quantum_psk_eligible(p, ch) ==
    ch.flag = "yes" /\ "psk_dhe" \in CommonModes(ch) /\ p.enable

BadBinder == -1

\* Mutant: a binder that does not verify is passed over, as before the patch.
ExternalSelectionsLax(ch) ==
    LET matching == {i \in DOMAIN ch.psks :
                        /\ ch.psks[i].id \in Ids
                        /\ cfg.known[ch.psks[i].id] = ch.psks[i].key
                        /\ ch.psks[i].suite = Suite}
    IN IF matching = {} THEN {0} ELSE matching

\* tls13_process_client_pre_shared_key_external: an identity both sides have
\* for this suite (which one, if several, is external); 0 if there is none;
\* a binder made with another key is an error.
ExternalSelections(ch) ==
    LET matching == {i \in DOMAIN ch.psks :
                        /\ ch.psks[i].id \in Ids
                        /\ cfg.known[ch.psks[i].id] # "none"
                        /\ ch.psks[i].suite = Suite}
    IN IF matching = {} THEN {0}
       ELSE {IF cfg.known[ch.psks[i].id] = ch.psks[i].key THEN i ELSE BadBinder
                : i \in matching}

\* Which PSK the server takes: 0 for none (the PSK modes are then dropped).
PskSelections(p, ch) ==
    IF \/ CommonModes(ch) = {}
       \/ ch.flag = "yes" /\ ~ post_quantum_psk_eligible(p, ch)
    THEN {0}
    ELSE IF HasPsks THEN ExternalSelections(ch)
    ELSE IF ch.flag = "yes" THEN {0}
    ELSE {0} \cup {i \in DOMAIN ch.psks : ch.psks[i].type = "ticket"}

\* Without the extension: a PSK in a common mode, else the certificate.
KeyExchangeOutsidePatch(ch, sel) ==
    IF sel # 0 /\ "psk_dhe" \in CommonModes(ch) /\ ch.groups THEN "psk_dhe"
    ELSE IF sel # 0 /\ "psk" \in CommonModes(ch) THEN "psk"
    ELSE IF cfg.cert /\ ch.groups THEN "cert_dhe" ELSE "none"

\* Mutant: the server does not insist on a selected external PSK.
KeyExchangeNotStrict(p, ch, sel) ==
    IF sel = BadBinder THEN "none"
    ELSE IF post_quantum_psk_eligible(p, ch) /\ sel # 0
    THEN IF cfg.cert THEN "psk_dhe" ELSE "none"
    ELSE KeyExchangeOutsidePatch(ch, sel)

\* Mutant: with an external PSK the server does without a certificate.
KeyExchangeNoCertificate(p, ch, sel) ==
    IF post_quantum_psk_eligible(p, ch) /\ sel \notin {0, BadBinder}
    THEN "psk_dhe" ELSE KeyExchangeNotStrict(p, ch, sel)

\* The key exchange mode decided for a ClientHello; "none" is a failure.
KeyExchange(p, ch, sel) ==
    IF sel = BadBinder \/ (ch.flag = "yes" /\ p.require /\ sel = 0) THEN "none"
    ELSE IF post_quantum_psk_eligible(p, ch) /\ sel # 0
    THEN IF cfg.cert THEN "psk_dhe" ELSE "none"
    ELSE KeyExchangeOutsidePatch(ch, sel)

\* The server's own copy of the PSK an entry of the list names.
ServerPsk(psks, sel) ==
    IF sel = 0 THEN NoPsk
    ELSE [id |-> psks[sel].id,
          key |-> IF psks[sel].id \in Ids THEN cfg.known[psks[sel].id]
                  ELSE psks[sel].key]

tls13_recv_client_hello ==
    /\ ServerReads("client_hello")
    /\ LET ch == Head(toS)
           p == policy["server"]
       IN IF ch.type # "CH"
          THEN ServerFails
          ELSE IF ClientHelloRefused(p, ch)
          THEN ServerFails
          ELSE \E sel \in PskSelections(p, ch) :
                 LET mode == KeyExchange(p, ch, sel)
                     retry == mode # "psk" /\ ch.share # "ok"
                 IN IF mode = "none"
                    THEN ServerFails
                    ELSE ServerGoes([server EXCEPT
                            !.st = IF retry THEN "hello_retry_request"
                                            ELSE "server_hello",
                            !.offered = ch.flag = "yes",
                            !.retried = retry,
                            !.sel = sel,
                            !.mode = mode,
                            !.psk = ServerPsk(ch.psks, sel),
                            !.negotiated = post_quantum_psk_eligible(p, ch)
                                            /\ sel # 0], <<>>)

tls13_send_hello_retry_request ==
    /\ ServerAt("hello_retry_request")
    /\ ServerSends([server EXCEPT !.st = "client_hello_again"],
                   <<[type |-> "HRR"]>>)

\* The second ClientHello: whether its PSKs are looked up again or the first
\* selection stands is external; a PSK in use must still be offered.
tls13_recv_client_hello_again ==
    /\ ServerReads("client_hello_again")
    /\ LET ch == Head(toS)
       IN IF ch.type # "CH"
          THEN ServerFails
          ELSE IF \/ ch.share # "ok"
                  \/ server.offered /\ ch.psks # <<>> /\ ~ ch.last
                  \/ server.sel # 0 /\ ch.psks = <<>>
          THEN ServerFails
          ELSE \E sel \in {server.sel} \cup
                    (IF server.sel = 0 THEN {} ELSE ExternalSelections(ch)) :
                 IF sel \notin {server.sel} \cup DOMAIN ch.psks \/ (sel = 0 /\ server.sel # 0)
                 THEN ServerFails
                 ELSE ServerGoes([server EXCEPT
                         !.st = "server_hello", !.sel = sel,
                         !.psk = IF sel = server.sel THEN @
                                 ELSE ServerPsk(ch.psks, sel)], <<>>)

tls13_send_server_hello ==
    /\ ServerAt("server_hello")
    /\ ServerSends([server EXCEPT !.st = "encrypted_extensions"],
           <<[type |-> "SH",
              flag |-> IF server.negotiated THEN "yes" ELSE "no",
              psk |-> server.sel, share |-> server.mode # "psk"]>>)

\* A client certificate may be requested (client authentication: external).
tls13_send_encrypted_extensions ==
    /\ ServerAt("encrypted_extensions")
    /\ \E next \in {"certificate_request", AfterCertificateRequest(server)} :
         ServerSends([server EXCEPT !.st = next], <<[type |-> "EE"]>>)

tls13_send_certificate_request ==
    /\ ServerAt("certificate_request")
    /\ ServerSends([server EXCEPT !.st = AfterCertificateRequest(server)],
                   <<[type |-> "CR"]>>)

tls13_send_server_certificate ==
    /\ ServerAt("server_certificate")
    /\ ServerSends([server EXCEPT !.st = "server_finished"],
                   <<[type |-> "CERT"], [type |-> "CV", ok |-> TRUE]>>)

tls13_send_server_finished ==
    /\ ServerAt("server_finished")
    /\ ServerSends([server EXCEPT !.st = "client_finished"],
                   <<Finished(server)>>)

tls13_recv_client_finished ==
    /\ ServerReads("client_finished")
    /\ IF Head(toS) = Finished(server)
       THEN ServerGoes([server EXCEPT !.st = "over"], <<>>)
       ELSE ServerFails

tls13_do_server_handshake ==
    \/ tls13_recv_client_hello
    \/ tls13_send_hello_retry_request
    \/ tls13_recv_client_hello_again
    \/ tls13_send_server_hello
    \/ tls13_send_encrypted_extensions
    \/ tls13_send_certificate_request
    \/ tls13_send_server_certificate
    \/ tls13_send_server_finished
    \/ tls13_recv_client_finished

-----------------------------------------------------------------------------
(* A peer that does not run this code. *)

\* The PSKs it can name: with the right key only if it holds it.
OddPsk == {NoPsk} \cup
    [id : Ids, key : {"wrong"}] \cup [id : odd.ids, key : {"right"}]

OddLists == {[i \in DOMAIN list |-> [list[i] EXCEPT
                 !.key = IF list[i].id \in odd.ids THEN @ ELSE "wrong"]]
                : list \in Scenario.psks}

OddClientMessages ==
    [type : {"CH"}, flag : Flags, psks : OddLists,
     modes : Scenario.modes, share : Shares, groups : BOOLEAN,
     last : BOOLEAN, early : BOOLEAN]
    \cup [type : {"FIN"}, psk : OddPsk, dhe : BOOLEAN]

OddServerMessages ==
    [type : {"HRR", "EE", "CR", "CERT"}]
    \cup [type : {"SH"}, flag : Flags, psk : 0..3, share : BOOLEAN]
    \cup [type : {"CV"}, ok : {odd.cert}]
    \cup [type : {"FIN"}, psk : OddPsk, dhe : BOOLEAN]

OddClient ==
    /\ odd.side = "client" /\ Running("server") /\ toS = <<>>
    /\ server.st \in {"client_hello", "client_hello_again", "client_finished"}
    /\ \E msg \in OddClientMessages :
         /\ (server.st = "client_finished") = (msg.type = "FIN")
         /\ toS' = <<msg>>
    /\ toC' = <<>>
    /\ UNCHANGED <<policy, cfg, odd, client, server, changes>>

OddServer ==
    /\ odd.side = "server" /\ Running("client") /\ toC = <<>>
    /\ client.st \notin {"client_hello", "client_hello_again", "client_finished"}
    /\ \E msg \in OddServerMessages : toC' = <<msg>>
    /\ toS' = <<>>
    /\ UNCHANGED <<policy, cfg, odd, client, server, changes>>

Next ==
    \/ tls13_do_client_handshake
    \/ tls13_do_server_handshake
    \/ SetPolicy
    \/ OddClient
    \/ OddServer

\* Either handshake function is called until it returns; nobody is made to
\* change a policy, and an odd peer may fall silent.
Spec == Init /\ [][Next]_vars
FairSpec == Spec /\ WF_vars(tls13_do_client_handshake)
                 /\ WF_vars(tls13_do_server_handshake)

-----------------------------------------------------------------------------
(* Properties *)

Honest == odd.side = "none"
BothOver == Honest /\ client.st = "over" /\ server.st = "over"

PeerHoldsCertificateKey == IF odd.side = "server" THEN odd.cert ELSE cfg.cert

\* What the peer of a side can compute: its half of the PSKs.
PeerHolds(side, psk) ==
    IF odd.side = "none"
    THEN IF side = "client"
         THEN cfg.known[psk.id] = psk.key
         ELSE \E i \in DOMAIN cfg.psks :
                 cfg.psks[i].id = psk.id /\ cfg.psks[i].key = psk.key
    ELSE psk.id \in odd.ids \/ psk.key = "wrong"

\* A client that offered the flag never completes with a server that does not
\* hold the certificate's private key, whatever the server sends, selects or
\* leaves out (tls13_do_client_handshake, tls13_recv_server_hello).
OfferedMeansCertificate ==
    client.st = "over" /\ client.offered =>
        client.verified /\ PeerHoldsCertificateKey

\* A handshake recorded as post_quantum_psk_negotiated is hybrid on the side
\* that records it: an external PSK the peer really holds, DHE, and for the
\* client a server that proved its certificate key.
NegotiatedMeansHybrid ==
    /\ client.st = "over" /\ client.negotiated =>
          /\ client.psk.id \in Ids /\ PeerHolds("client", client.psk)
          /\ client.mode = "psk_dhe"
          /\ PeerHoldsCertificateKey
    /\ server.st = "over" /\ server.negotiated =>
          /\ server.psk.id \in Ids /\ PeerHolds("server", server.psk)
          /\ server.mode = "psk_dhe"
          /\ cfg.cert

\* A side under the strict policy completes only a negotiated handshake.
StrictNeverFallsBack ==
    changes = 0 =>
        /\ policy["client"].require /\ client.st = "over" => client.negotiated
        /\ policy["server"].require /\ server.st = "over" => server.negotiated

\* Two completed peers agree on whether the PSK was negotiated, on the PSK
\* and on the mode, also after a HelloRetryRequest reordered the PSK list.
PeersAgree ==
    BothOver => /\ client.negotiated = server.negotiated
                /\ client.psk = server.psk
                /\ client.mode = server.mode
                /\ client.offered = server.offered

\* The server has an identity of the client's for the suite, and both want it.
MatchingIds == {i \in DOMAIN cfg.psks :
                   /\ cfg.psks[i].id \in Ids
                   /\ cfg.known[cfg.psks[i].id] # "none"
                   /\ cfg.psks[i].suite = Suite}

\* The compatible policy falls back only when there is no matching identity:
\* a binder or protocol error is never turned into a handshake without PSK.
FallbackOnlyWithoutMatch ==
    /\ BothOver /\ changes = 0 /\ client.offered /\ ~ server.negotiated
    /\ policy["server"].enable
    /\ "psk_dhe" \in cfg.modes["server"]
    => MatchingIds = {}

\* The second ClientHello carries the flag exactly when the first did, even
\* when the policy of the context changed in between: with the flag the first
\* time only, the server would go on with a mode the client no longer offers.
FlagRepeated ==
    Honest /\ server.st = "client_hello_again" /\ toS # <<>>
        /\ Head(toS).type = "CH"
        => (Head(toS).flag = "yes") = server.offered

-----------------------------------------------------------------------------
(* Why it holds: what either connection has decided, and what is on its way. *)

Elements(s) == {s[i] : i \in DOMAIN s}
\* A connection has taken its decision once it has a key exchange mode.
Decided(c) == c.mode # "none"
\* The server has sent ServerHello, or stopped: its decision is final.
ServerSettled ==
    server.st \in {"encrypted_extensions", "certificate_request",
                   "server_certificate", "server_finished", "client_finished",
                   "over", "failed"}

\* A record on its way to the client says what its sender has decided; an odd
\* server cannot prove a certificate key or a PSK that it does not hold.
FromServer(m) ==
    /\ m.type = "CV" /\ m.ok => PeerHoldsCertificateKey
    /\ m.type = "FIN" => IF odd.side = "server" THEN m.psk \in OddPsk
                         ELSE ServerSettled /\ m.psk = server.psk
    /\ m.type = "SH" /\ odd.side # "server" =>
          /\ ServerSettled /\ Decided(server)
          /\ m.flag = IF server.negotiated THEN "yes" ELSE "no"
          /\ m.psk = server.sel
          /\ m.share = (server.mode # "psk")
    /\ m.type = "HRR" /\ odd.side # "server" => server.st # "client_hello"

FromClient(m) ==
    /\ m.type = "FIN" => IF odd.side = "client" THEN m.psk \in OddPsk
                         ELSE client.st = "over" /\ m.psk = client.psk
    /\ m.type = "CH" /\ odd.side # "client" =>
          /\ client.st # "client_hello"
          /\ m.flag = IF client.offered THEN "yes" ELSE "no"
          /\ m.groups
          /\ ~ client.retried =>
                /\ m.psks = cfg.psks
                /\ m.psks # <<>> => m.modes = cfg.modes["client"]

StreamsInv ==
    /\ \A m \in Elements(toC) : FromServer(m)
    /\ \A m \in Elements(toS) : FromClient(m)

\* What the client offers and accepts.
ClientDecision ==
    /\ Elements(client.psks) \subseteq Elements(cfg.psks)
    /\ ~ client.retried => /\ client.psks = cfg.psks
                           /\ client.modes = cfg.modes["client"]
    /\ client.offered => "psk_dhe" \in cfg.modes["client"] /\ cfg.psks # <<>>
    /\ client.offered /\ Decided(client) => CertificateExpected(client)
    /\ client.negotiated => client.mode = "psk_dhe" /\ client.psk.id \in Ids
    /\ client.psk # NoPsk => \E e \in Elements(cfg.psks) :
                                e.id = client.psk.id /\ e.key = client.psk.key
    /\ changes = 0 /\ policy["client"].require /\ Decided(client)
          => client.negotiated

\* Where the client stands, and what it has seen of its peer by then.
ClientProgress ==
    /\ client.st = "client_hello" => ~ client.retried /\ ~ client.offered
    /\ client.st = "client_hello_again" => client.retried
    /\ client.st \in {"client_hello", "client_hello_again", "server_hello"}
          => ~ Decided(client)
    /\ client.st \in {"encrypted_extensions", "certificate_request",
                     "server_certificate", "certificate_verify",
                     "server_finished", "client_finished", "over"}
          => Decided(client)
    /\ client.st \in {"server_finished", "client_finished", "over"}
          /\ CertificateExpected(client) => client.verified
    /\ client.verified => PeerHoldsCertificateKey
    /\ client.st \in {"client_finished", "over"} =>
          IF odd.side = "server" THEN client.psk \in OddPsk
          ELSE ServerSettled /\ client.psk = server.psk
    /\ odd.side = "client" => client.st = "client_hello"
    /\ Honest /\ client.retried => server.st # "client_hello"
    /\ Honest /\ Decided(client) =>
          /\ ServerSettled
          /\ client.negotiated = server.negotiated
          /\ client.mode = server.mode

\* What the server selects from the first ClientHello.
ServerDecision ==
    /\ CertificateExpected(server) => cfg.cert
    /\ server.negotiated => server.mode = "psk_dhe" /\ server.psk.id \in Ids
    /\ server.psk.id \in Ids => server.psk.key = cfg.known[server.psk.id]
    /\ changes = 0 /\ policy["server"].require /\ Decided(server)
          => server.negotiated
    /\ Honest /\ Decided(server) =>
          /\ client.st # "client_hello"
          /\ server.offered = client.offered
          /\ (server.sel = 0) = (server.mode = "cert_dhe")
    /\ /\ Honest /\ changes = 0 /\ Decided(server)
       /\ policy["server"].enable /\ "psk_dhe" \in cfg.modes["server"]
       /\ server.offered /\ ~ server.negotiated
       => MatchingIds = {}

ServerProgress ==
    /\ server.st = "client_hello" => ~ Decided(server)
    /\ server.st \notin {"client_hello", "failed"} => Decided(server)
    /\ server.st = "server_certificate" => CertificateExpected(server)
    /\ server.st = "over" =>
          IF odd.side = "client" THEN server.psk \in OddPsk
          ELSE client.st = "over" /\ server.psk = client.psk
    /\ odd.side = "server" => server.st = "client_hello"

\* What the two sides hold, at every step, is of its type and of one handshake:
\* neither a HelloRetryRequest nor a policy that changes under it sets the two
\* state machines of the patch apart.  The first two conjuncts say so; the
\* others are what makes it inductive.
AgreementInv ==
    /\ FlagRepeated /\ PeersAgree
    /\ TypeOK
    /\ StreamsInv
    /\ ClientDecision /\ ClientProgress
    /\ ServerDecision /\ ServerProgress

\* Every handshake of two such peers ends on both sides, whatever happens to
\* the policies meanwhile.
HandshakeEnds == Honest ~> (~ Running("client") /\ ~ Running("server"))

WellConfigured ==
    /\ Honest /\ ~ cfg.early /\ cfg.share # "no" /\ cfg.cert
    /\ \A side \in Sides : "psk_dhe" \in cfg.modes[side]
    /\ cfg.psks # <<>>
    /\ \A i \in DOMAIN cfg.psks : /\ cfg.psks[i].type = "external"
                                   /\ cfg.psks[i].suite = Suite
    /\ \A i \in MatchingIds : cfg.known[cfg.psks[i].id] = cfg.psks[i].key

\* Two well configured peers that enable the extension and share an identity
\* do negotiate it, with or without HelloRetryRequest.
MatchingPeersNegotiate ==
    /\ client.st = "client_hello"
    /\ WellConfigured /\ MatchingIds # {}
    /\ \A side \in Sides : policy[side].enable
    ~> \/ BothOver /\ client.negotiated /\ server.negotiated
       \/ changes > 0

\* Offering is harmless: against a server that has no matching identity, or
\* has the extension disabled, and where nobody is strict, the handshake ends
\* as an ordinary certificate handshake.
CompatiblePeersFallBack ==
    /\ client.st = "client_hello"
    /\ WellConfigured
    /\ MatchingIds = {} \/ ~ policy["server"].enable
    /\ \A side \in Sides : ~ policy[side].require
    /\ policy["client"].enable
    ~> \/ BothOver /\ client.mode = "cert_dhe" /\ client.verified
       \/ changes > 0

\* The configuration decides how a handshake ends: matching peers negotiate,
\* compatible ones that do not match fall back to the certificate.
ConfigurationDecides == MatchingPeersNegotiate /\ CompatiblePeersFallBack
=============================================================================
