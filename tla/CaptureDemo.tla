----------------------------- MODULE CaptureDemo ----------------------------
(***************************************************************************)
(* tools/pqkex_capture_demo.c: the parent listens on a loopback port,      *)
(* forks a child that sends one real TLCP ClientHello, parses what arrives *)
(* and reports PASS when both sides succeeded.  The port is open to        *)
(* everybody on the machine, so a stranger may connect first.  The receiver *)
(* may also be the patched TLCP server, which answers a bad extension with *)
(* an alert.                                                               *)
(***************************************************************************)
EXTENDS PqKex

CONSTANTS
    StrangerHellos      \* the ClientHellos a stranger may send

\* What tls_record_get_handshake_client_hello and tls_ext_from_bytes make of
\* a hello: a list of extensions, of a known type or the one with PQKEX data;
\* a "broken" one is where tls_ext_from_bytes fails.
Extension == [type : {"known", "pqkex", "broken"}, data : Seq(0..255)]

ASSUME StrangerAssumption == StrangerHellos \subseteq Seq(Extension)

VARIABLES
    receiver,   \* who parses the hello: "demo" or the "tlcp" server
    parent,     \* next step of the parent, or its exit
    child,      \* next step of the child, or its exit
    backlog,    \* connections not accepted yet
    wire,       \* what every connection carries: nothing yet, EOF, a record
                \* that is no TLCP ClientHello, or a hello
    peer,       \* the accepted connection
    rest,       \* extensions of the accepted hello still to be parsed
    conn,       \* TLS_CONNECT of the receiver
    alert,      \* alert sent by the tlcp receiver
    serverOk    \* server_ok

vars == <<receiver, parent, child, backlog, wire, peer, rest, conn, alert, serverOk>>

Clients == {"child", "stranger"}
Nothing == <<[type |-> "nothing", data |-> <<>>]>>
Eof == <<[type |-> "eof", data |-> <<>>]>>
Invalid == <<[type |-> "invalid", data |-> <<>>]>>
Kems == <<TLS_PQKEX_KEM_MLKEM768>>

\* The demo's own hello: one PQKEX extension among GmSSL's others.
DemoHello == <<[type |-> "known", data |-> <<>>],
               [type |-> "pqkex", data |-> tls_pqkex_ext_to_bytes(Kems)]>>

TypeOK ==
    /\ receiver \in {"demo", "tlcp"}
    /\ parent \in {"setup", "listen", "fork", "accept", "recv", "parse", "wait",
                   "success", "failure"}
    /\ child \in {"none", "setup", "connect", "send", "success", "failure"}
    /\ backlog \in [1..Len(backlog) -> Clients] /\ Len(backlog) <= 2
    /\ wire \in [Clients -> Seq([type : {"nothing", "eof", "invalid",
                                         "known", "pqkex", "broken"},
                                 data : Seq(Nat)])]
    /\ peer \in Clients \cup {"none"}
    /\ conn.offered \in BOOLEAN /\ conn.negotiated \in BOOLEAN
    /\ conn.negotiated => conn.offered /\ conn.selected = TLS_PQKEX_KEM_MLKEM768
    /\ alert \in {"none", "decode_error", "illegal_parameter"}
    /\ serverOk \in BOOLEAN

Init ==
    /\ receiver \in {"demo", "tlcp"}
    /\ parent = "setup" /\ child = "none"
    /\ backlog = <<>>
    /\ wire = [c \in Clients |-> Nothing]
    /\ peer = "none" /\ rest = <<>>
    /\ conn = NewConnection
    /\ alert = "none"
    /\ serverOk = FALSE

-----------------------------------------------------------------------------
(* The parent *)

ParentGoes(step) ==
    /\ parent' = step
    /\ UNCHANGED <<receiver, child, backlog, wire, peer, rest, conn, alert, serverOk>>

\* Arguments and context.
SetUpParent ==
    /\ parent = "setup"
    /\ \/ tls_ctx_set_pqkex_kems(Kems) /\ ParentGoes("listen")
       \/ ParentGoes("failure")

create_listener ==
    /\ parent = "listen"
    /\ \E step \in {"fork", "failure"} : ParentGoes(step)

Fork ==
    /\ parent = "fork"
    /\ \/ ParentGoes("failure")
       \/ /\ parent' = "accept"
          /\ child' = "setup"
          /\ UNCHANGED <<receiver, backlog, wire, peer, rest, conn, alert, serverOk>>

\* Mutant: a failed accept is tried again; the connection it dropped is gone.
AcceptAgain ==
    /\ parent = "accept"
    /\ backlog # <<>>
    /\ \E step \in {"accept", "recv"} :
         /\ parent' = step
         /\ peer' = IF step = "recv" THEN Head(backlog) ELSE peer
         /\ backlog' = Tail(backlog)
         /\ UNCHANGED <<receiver, child, wire, rest, conn, alert, serverOk>>

\* accept blocks until somebody has connected; it may fail.
Accept ==
    /\ parent = "accept"
    /\ backlog # <<>>
    /\ \/ ParentGoes("wait")
       \/ /\ parent' = "recv"
          /\ peer' = Head(backlog)
          /\ backlog' = Tail(backlog)
          /\ UNCHANGED <<receiver, child, wire, rest, conn, alert, serverOk>>

\* tls_recv_record blocks until a record or end of file is there.  A record
\* that is malformed, no ClientHello or of another protocol is refused too.
ReceiveRecord ==
    /\ parent = "recv"
    /\ wire[peer] # Nothing
    /\ IF wire[peer] \in {Eof, Invalid}
       THEN ParentGoes("wait")
       ELSE /\ parent' = "parse"
            /\ rest' = wire[peer]
            /\ UNCHANGED <<receiver, child, backlog, wire, peer, conn, alert, serverOk>>

Alert(failed) == IF failed.offered THEN "illegal_parameter" ELSE "decode_error"

\* One extension of the hello.  An error ends the demo's parsing; the TLCP
\* server sends an alert that depends on what it saw before.
ParseExtension ==
    /\ parent = "parse"
    /\ rest # <<>> /\ Head(rest).type # "broken"
    /\ LET ext == Head(rest)
           next == IF ext.type = "pqkex"
                   THEN tlcp_process_client_pqkex(conn, Kems, ext.data)
                   ELSE conn
       IN /\ conn' = next
          /\ rest' = IF next.failed THEN <<>> ELSE Tail(rest)
          /\ parent' = IF next.failed THEN "wait" ELSE "parse"
          /\ alert' = IF next.failed /\ receiver = "tlcp" THEN Alert(next) ELSE alert
    /\ UNCHANGED <<receiver, child, backlog, wire, peer, serverOk>>

\* tls_ext_from_bytes fails: the hello is refused, whatever came before it.
MalformedExtension ==
    /\ parent = "parse"
    /\ rest # <<>> /\ Head(rest).type = "broken"
    /\ rest' = <<>>
    /\ parent' = "wait"
    /\ UNCHANGED <<receiver, child, backlog, wire, peer, conn, alert, serverOk>>

Selected == conn.offered /\ conn.negotiated /\ conn.selected = TLS_PQKEX_KEM_MLKEM768

JudgeHello ==
    /\ parent = "parse"
    /\ rest = <<>>
    /\ serverOk' = Selected
    /\ parent' = "wait"
    /\ UNCHANGED <<receiver, child, backlog, wire, peer, rest, conn, alert>>

ChildOver == child \in {"success", "failure"}

\* Mutant: nothing looks at the child's status.
WaitIgnoringStatus ==
    /\ parent = "wait"
    /\ \/ ParentGoes("failure")
       \/ ChildOver /\ ParentGoes(IF serverOk THEN "success" ELSE "failure")

\* Both sockets are closed; waitpid blocks until the child is over, or fails;
\* the verdict.
Wait ==
    /\ parent = "wait"
    /\ \/ ParentGoes("failure")
       \/ /\ ChildOver
          /\ ParentGoes(IF serverOk /\ child = "success" THEN "success" ELSE "failure")

ParentStep ==
    \/ SetUpParent \/ create_listener \/ Fork \/ Accept \/ ReceiveRecord
    \/ ParseExtension \/ MalformedExtension \/ JudgeHello \/ Wait

-----------------------------------------------------------------------------
(* The child, and a stranger *)

ChildGoes(step) ==
    /\ child' = step
    /\ UNCHANGED <<receiver, parent, peer, rest, conn, alert, serverOk>>

SetUpChild ==
    /\ child = "setup"
    /\ \E step \in {"connect", "failure"} : ChildGoes(step)
    /\ UNCHANGED <<backlog, wire>>

\* connect to the listener, refused once the parent has closed it.
ConnectToLoopback ==
    /\ child = "connect"
    /\ \/ /\ parent \in {"accept", "recv", "parse"}
          /\ backlog' = Append(backlog, "child")
          /\ ChildGoes("send")
       \/ ChildGoes("failure") /\ UNCHANGED backlog
    /\ UNCHANGED wire

\* The hello goes out whole, or the connection is closed without one.
SendClientHello ==
    /\ child = "send"
    /\ \/ wire' = [wire EXCEPT !["child"] = DemoHello] /\ ChildGoes("success")
       \/ wire' = [wire EXCEPT !["child"] = Eof] /\ ChildGoes("failure")
    /\ UNCHANGED backlog

ChildStep == SetUpChild \/ ConnectToLoopback \/ SendClientHello

StrangerConnects ==
    /\ StrangerHellos # {}
    /\ parent = "accept"
    /\ "stranger" \notin ToSet(backlog)
    /\ backlog' = Append(backlog, "stranger")
    /\ UNCHANGED <<receiver, parent, child, wire, peer, rest, conn, alert, serverOk>>

StrangerSends ==
    /\ "stranger" \in ToSet(backlog) \cup {peer}
    /\ wire["stranger"] = Nothing
    /\ \E hello \in StrangerHellos \cup {Eof, Invalid} :
         wire' = [wire EXCEPT !["stranger"] = hello]
    /\ UNCHANGED <<receiver, parent, child, backlog, peer, rest, conn, alert, serverOk>>

Next == ParentStep \/ ChildStep \/ StrangerConnects \/ StrangerSends

Spec == Init /\ [][Next]_vars

\* Two processes of one kernel; nothing makes a stranger go on.
FairSpec == Spec /\ WF_vars(ParentStep) /\ WF_vars(ChildStep)

-----------------------------------------------------------------------------
(* Properties *)

PqkexData(hello) == {i \in DOMAIN hello : hello[i].type = "pqkex"}

\* A hello that should be selected, said without parsing: its extensions can
\* be told apart and exactly one is PQKEX, which is the encoding of a list with
\* ML-KEM-768 in it.
Advertises(hello) ==
  /\ \A i \in DOMAIN hello : hello[i].type # "broken"
  /\ \E i \in DOMAIN hello :
        /\ PqkexData(hello) = {i}
        /\ \E n \in 1..TLS_PQKEX_MAX_KEMS :
             \E kems \in [1..n -> {uint16_from_bytes(hello[i].data, 2 * k + 1) :
                                k \in 1..((Len(hello[i].data) - 2) \div 2)}] :
                /\ hello[i].data = tls_pqkex_ext_to_bytes(kems)
                /\ TLS_PQKEX_KEM_MLKEM768 \in ToSet(kems)

\* The verdict on a hello (process_client_hello_record) is what encoding says:
\* no malformed, truncated, oversized or repeated extension is selected, and
\* no proper one is missed, in any position.
VerdictMatchesEncoding ==
    (parent = "wait" /\ rest = <<>> /\ peer # "none") /\ wire[peer] \notin {Eof, Invalid} =>
        serverOk = Advertises(wire[peer])

\* PASS is printed only when the child's hello is on the wire, the child exited
\* well and a hello with the capability was selected.  Which hello that was,
\* the child's or a stranger's, it does not say.
PassMeansBothSides ==
    parent = "success" =>
        /\ child = "success" /\ wire["child"] = DemoHello
        /\ peer # "none" /\ Advertises(wire[peer])

\* What main prints and docs/pqkex-capture.md says: the vector that was
\* selected is the demo's, FF02 0004 0002 0001.  A stranger that connects before
\* the child makes main print it for another list with ML-KEM-768 in it
\* (run capture_stranger).
PassNamesTheVector ==
    parent = "success" =>
        \E i \in PqkexData(wire[peer]) :
            wire[peer][i].data = tls_pqkex_ext_to_bytes(Kems)

\* The TLCP server's alert tells a repeated extension from a malformed one.
AlertNamesTheFault ==
    alert # "none" =>
        (alert = "illegal_parameter") =
            (\E i \in PqkexData(wire[peer]) :
                /\ tls_pqkex_from_bytes(wire[peer][i].data) # Malformed
                /\ \A j \in PqkexData(wire[peer]) : j >= i)

\* The parent's verdict on the connection: selected or not, and with which
\* alert the TLCP server would have ended it.
VerdictIsRight == VerdictMatchesEncoding /\ AlertNamesTheFault

\* What a PASS of main rests on, with the types.
ProcessesInv == TypeOK /\ PassMeansBothSides

\* Once the child has connected, and with no stranger in the way, the parent
\* ends.  (A child that fails before it connects leaves the parent in accept.)
EndsOnceConnected ==
    (child = "send" /\ wire["stranger"] = Nothing /\ "stranger" \notin ToSet(backlog) \cup {peer})
        ~> (parent \in {"success", "failure"} \/ "stranger" \in ToSet(backlog) \cup {peer})

=============================================================================
