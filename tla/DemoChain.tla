----------------------------- MODULE DemoChain ------------------------------
(***************************************************************************)
(* tools/generate_demo_chain.c: the program that creates or reuses the CA, *)
(* Server and TLCP encryption keys and (re)issues the certificates.  It is *)
(* run again and again over the same key root and certificate files, one   *)
(* run at a time; a run may fail or die between any two writes.  Keys are  *)
(* named by the run that generated them; 0 is a run of another time: the   *)
(* certificates the repository ships without their keys, and an encryption *)
(* key kept when the operator removed the CA and Server directories.       *)
(* Concurrent writers of one key store are the subject of KeyStore.        *)
(***************************************************************************)
EXTENDS Naturals

CONSTANTS
    MaxRuns,        \* bound on the number of runs
    Passphrases,    \* values of HYBRID_KEY_PASSPHRASE of at least 12 bytes
    LongPassphrases \* those that do not fit the buffer of the PEM reader

ASSUME DemoChainAssumption == MaxRuns \in Nat /\ LongPassphrases \subseteq Passphrases

Gens == 0..MaxRuns

\* The key files, in the order a first run writes them.
KeyFiles == {"ca_sm2", "ca_dil", "srv_sm2", "srv_dil", "enc_sm2"}
StoreFiles == KeyFiles \ {"enc_sm2"}
Sm2Files == {"ca_sm2", "srv_sm2", "enc_sm2"}
Certs == {"root", "server", "enc"}
Formats == {"pem", "der"}

VARIABLES
    keys,       \* the key files: whose key, and whether all of it is there
    phraseOf,   \* the passphrase of the run a key is from
    certs,      \* the certificate files
    run,        \* number of the current or last run
    pc,         \* its next step
    withEnc,    \* generate_encryption
    loaded,     \* loaded: keys were reused
    mem,        \* the keys the run holds: CA, Server, encryption
    exit,       \* how the last run ended
    lost        \* a buffered write was lost at fclose in the last run

vars == <<keys, phraseOf, certs, run, pc, withEnc, loaded, mem, exit, lost>>
disk == <<keys, certs>>

NoFile == [state |-> "none", of |-> 0]
TornKey(g) == [state |-> "torn", of |-> g]
WholeKey(g) == [state |-> "whole", of |-> g]
KeyStates == {NoFile} \cup {TornKey(g) : g \in Gens} \cup {WholeKey(g) : g \in Gens}

NoCert == [state |-> "none", key |-> 0, signer |-> 0, live |-> FALSE]
TornCert == [NoCert EXCEPT !.state = "torn"]
Cert(key, signer) ==
    [state |-> "whole", key |-> key, signer |-> signer, live |-> TRUE]
CertStates == [state : {"none", "torn", "whole"}, key : Gens, signer : Gens,
               live : BOOLEAN]
Past(cert) == [cert EXCEPT !.live = FALSE]

SavingCA == {"save_ca_sm2", "fill_ca_sm2", "save_ca_dil", "fill_ca_dil"}
SavingServer == {"save_srv_sm2", "fill_srv_sm2", "save_srv_dil", "fill_srv_dil"}
SavingEncryption == {"save_enc_sm2", "fill_enc_sm2"}
Issuing == {"issue", "open_root", "write_root", "open_server", "write_server",
            "open_enc", "write_enc"}
EncryptionSteps == {"enc", "load_enc", "save_enc_sm2", "fill_enc_sm2",
                    "open_enc", "write_enc"}

TypeOK ==
    /\ keys \in [KeyFiles -> KeyStates]
    /\ phraseOf \in [Gens -> Passphrases]
    /\ certs \in [Certs -> [Formats -> CertStates]]
    /\ run \in Gens
    /\ pc \in {"idle", "stores", "load", "enc", "load_enc"} \cup SavingCA
                \cup SavingServer \cup SavingEncryption \cup Issuing
    /\ withEnc \in BOOLEAN /\ loaded \in BOOLEAN /\ lost \in BOOLEAN
    /\ mem \in [{"ca", "srv", "enc"} -> Gens]
    /\ exit \in {"none", "success", "failure", "died"}
    /\ pc \in EncryptionSteps => withEnc

Init ==
    /\ \E keptEnc \in BOOLEAN :
         keys = [f \in KeyFiles |-> IF f = "enc_sm2" /\ keptEnc
                                    THEN WholeKey(0) ELSE NoFile]
    /\ \E shipped \in {NoCert, Cert(0, 0)} :
         certs = [c \in Certs |-> [f \in Formats |-> shipped]]
    /\ \E phrase \in Passphrases : phraseOf = [g \in Gens |-> phrase]
    /\ run = 0 /\ pc = "idle"
    /\ withEnc = FALSE /\ loaded = FALSE /\ lost = FALSE
    /\ mem = [role \in {"ca", "srv", "enc"} |-> 0]
    /\ exit = "none"

-----------------------------------------------------------------------------
Goto(step) == pc' = step /\ UNCHANGED exit

Leave(how) == pc' = "idle" /\ exit' = how

Fails == Leave("failure")

RunUnchanged == UNCHANGED <<run, withEnc, phraseOf>>

-----------------------------------------------------------------------------
(* The key stores, as a run that has them to itself sees them. *)

\* hybrid_key_store_status: existence of the two files.
status(sm2, dil) ==
    CASE keys[sm2].state = "none" /\ keys[dil].state = "none" -> "MISSING"
      [] keys[sm2].state # "none" /\ keys[dil].state # "none" -> "COMPLETE"
      [] OTHER -> "INCOMPLETE"

ca_status == status("ca_sm2", "ca_dil")
server_status == status("srv_sm2", "srv_dil")

\* hybrid_sm2_key_store_status: a torn file is COMPLETE too.
encryption_status ==
    IF keys["enc_sm2"].state = "none" THEN "MISSING" ELSE "COMPLETE"

\* password_callback of the PKCS#8 reader: a passphrase that does not fit its
\* buffer is refused, though the save took it.
password_callback(phrase) == phrase \notin LongPassphrases

\* A key file decrypts under the passphrase of the run that wrote it.
Opens(f) == /\ keys[f].state = "whole"
            /\ phraseOf[keys[f].of] = phraseOf[run]
            /\ f \in Sm2Files => password_callback(phraseOf[run])

-----------------------------------------------------------------------------
(* main, in order. *)

\* Arguments, passphrase and ensure_key_root; any of them may be refused.
StartRun ==
    /\ pc = "idle"
    /\ run < MaxRuns
    /\ run' = run + 1
    /\ withEnc' \in BOOLEAN
    /\ loaded' = FALSE
    /\ lost' = FALSE
    /\ \E phrase \in Passphrases : phraseOf' = [phraseOf EXCEPT ![run + 1] = phrase]
    /\ Goto("stores") \/ Fails
    /\ UNCHANGED <<disk, mem>>

\* Both stores MISSING: generate two fresh pairs and save them.  Both
\* COMPLETE: load.  Anything else: refuse, as when key generation fails.
InspectStores ==
    /\ pc = "stores"
    /\ \/ /\ ca_status = "MISSING" /\ server_status = "MISSING"
          /\ mem' = [mem EXCEPT !["ca"] = run, !["srv"] = run]
          /\ Goto("save_ca_sm2")
       \/ /\ ca_status = "COMPLETE" /\ server_status = "COMPLETE"
          /\ Goto("load")
          /\ UNCHANGED mem
       \/ /\ ~(ca_status = "COMPLETE" /\ server_status = "COMPLETE")
          /\ Fails
          /\ UNCHANGED mem
    /\ UNCHANGED <<disk, loaded, lost>> /\ RunUnchanged

\* Exclusive create of one key file.
CreateKey(f, here, next) ==
    /\ pc = here
    /\ keys[f].state = "none"
    /\ keys' = [keys EXCEPT ![f] = TornKey(run)]
    /\ Goto(next)
    /\ UNCHANGED <<certs, loaded, mem, lost>> /\ RunUnchanged

\* Write, fsync and close of the key file just created.
FillKey(f, here, next) ==
    /\ pc = here
    /\ keys' = [keys EXCEPT ![f] = WholeKey(run)]
    /\ Goto(next)
    /\ UNCHANGED <<certs, loaded, mem, lost>> /\ RunUnchanged

\* Mutant: a failed save removes every key file of the key root.
SaveFailsRemovingAll(steps, files) ==
    /\ pc \in steps
    /\ keys' = [f \in KeyFiles |-> NoFile]
    /\ Fails
    /\ UNCHANGED <<certs, loaded, mem, lost>> /\ RunUnchanged

\* A save that fails unlinks the files of its own store and ends the run;
\* a store saved earlier in the run stays.
SaveFails(steps, files) ==
    /\ pc \in steps
    /\ keys' = [f \in KeyFiles |-> IF f \in files THEN NoFile ELSE keys[f]]
    /\ Fails
    /\ UNCHANGED <<certs, loaded, mem, lost>> /\ RunUnchanged

SaveCA ==
    \/ CreateKey("ca_sm2", "save_ca_sm2", "fill_ca_sm2")
    \/ FillKey("ca_sm2", "fill_ca_sm2", "save_ca_dil")
    \/ CreateKey("ca_dil", "save_ca_dil", "fill_ca_dil")
    \/ FillKey("ca_dil", "fill_ca_dil", "save_srv_sm2")
    \/ SaveFails(SavingCA, {"ca_sm2", "ca_dil"})

SaveServer ==
    \/ CreateKey("srv_sm2", "save_srv_sm2", "fill_srv_sm2")
    \/ FillKey("srv_sm2", "fill_srv_sm2", "save_srv_dil")
    \/ CreateKey("srv_dil", "save_srv_dil", "fill_srv_dil")
    \/ FillKey("srv_dil", "fill_srv_dil", IF withEnc THEN "enc" ELSE "issue")
    \/ SaveFails(SavingServer, {"srv_sm2", "srv_dil"})

\* hybrid_x509_read_pem parses what is there: a torn file gives no certificate.
readable(cert) == cert.state = "whole"

\* The certificate's Composite, or SM2, key is the public half of this one.
public_key_matches(cert, key) == readable(cert) /\ cert.key = key
sm2_public_key_matches(cert, key) == readable(cert) /\ cert.key = key

\* The root and server certificates on disk belong to these keys, verify and
\* have not expired (hybrid_verify_chain).
MatchesExisting(ca, srv) ==
    LET root == certs["root"]["pem"]  server == certs["server"]["pem"] IN
    /\ public_key_matches(root, ca) /\ public_key_matches(server, srv)
    /\ root.signer = root.key /\ server.signer = root.key
    /\ root.live /\ server.live

\* Mutant: the loaded keys are not compared with the certificates on disk.
LoadStoresUncompared ==
    /\ pc = "load"
    /\ \/ /\ \A f \in StoreFiles : Opens(f)
          /\ loaded' = TRUE
          /\ mem' = [mem EXCEPT !["ca"] = keys["ca_sm2"].of,
                                !["srv"] = keys["srv_sm2"].of]
          /\ Goto(IF withEnc THEN "enc" ELSE "issue")
       \/ /\ Fails
          /\ UNCHANGED <<loaded, mem>>
    /\ UNCHANGED <<disk, lost>> /\ RunUnchanged

\* Both stores open and belong to the certificates on disk.
StoresAccepted == /\ \A f \in StoreFiles : Opens(f)
                  /\ MatchesExisting(keys["ca_sm2"].of, keys["srv_sm2"].of)

\* Every private key the run works with opens.
KeysOpen == /\ \A f \in StoreFiles : Opens(f)
            /\ withEnc => Opens("enc_sm2")

\* Load both stores and compare with the certificates on disk; reading may
\* fail for other reasons too.
LoadStores ==
    /\ pc = "load"
    /\ \/ /\ StoresAccepted
          /\ loaded' = TRUE
          /\ mem' = [mem EXCEPT !["ca"] = keys["ca_sm2"].of,
                                !["srv"] = keys["srv_sm2"].of]
          /\ Goto(IF withEnc THEN "enc" ELSE "issue")
       \/ /\ Fails
          /\ UNCHANGED <<loaded, mem>>
    /\ UNCHANGED <<disk, lost>> /\ RunUnchanged

\* The encryption store: generate, reuse (only with reused CA and Server
\* keys), or refuse.
InspectEncryption ==
    /\ pc = "enc"
    /\ \/ /\ encryption_status = "MISSING"
          /\ mem' = [mem EXCEPT !["enc"] = run]
          /\ Goto("save_enc_sm2")
       \/ /\ encryption_status = "COMPLETE" /\ loaded
          /\ Goto("load_enc")
          /\ UNCHANGED mem
       \/ /\ encryption_status = "COMPLETE" /\ ~loaded
          /\ Fails
          /\ UNCHANGED mem
    /\ UNCHANGED <<disk, loaded, lost>> /\ RunUnchanged

SaveEncryption ==
    \/ CreateKey("enc_sm2", "save_enc_sm2", "fill_enc_sm2")
    \/ FillKey("enc_sm2", "fill_enc_sm2", "issue")
    \/ SaveFails(SavingEncryption, {"enc_sm2"})

\* The encryption store opens and belongs to the certificate on disk.
EncryptionAccepted ==
    LET cert == certs["enc"]["pem"] IN
    /\ Opens("enc_sm2")
    /\ sm2_public_key_matches(cert, keys["enc_sm2"].of)
    /\ cert.live
    /\ cert.signer = certs["root"]["pem"].key

LoadEncryption ==
    /\ pc = "load_enc"
    /\ \/ /\ EncryptionAccepted
          /\ mem' = [mem EXCEPT !["enc"] = keys["enc_sm2"].of]
          /\ Goto("issue")
       \/ /\ Fails
          /\ UNCHANGED mem
    /\ UNCHANGED <<disk, loaded, lost>> /\ RunUnchanged

\* The certificates a run issues from the keys it holds.
Issued(c) == CASE c = "root"   -> Cert(mem["ca"], mem["ca"])
               [] c = "server" -> Cert(mem["srv"], mem["ca"])
               [] c = "enc"    -> Cert(mem["enc"], mem["ca"])

\* Create and verify every certificate in memory before any file is touched.
IssueInMemory ==
    /\ pc = "issue"
    /\ Goto("open_root") \/ Fails
    /\ UNCHANGED <<disk, loaded, mem, lost>> /\ RunUnchanged

\* hybrid_x509_write_files: fopen "wb" truncates the PEM, then the DER file;
\* either may fail to open.
OpenCert(c, here, next) ==
    /\ pc = here
    /\ \/ certs' = [certs EXCEPT ![c] = [f \in Formats |-> TornCert]] /\ Goto(next)
       \/ /\ \E opened \in SUBSET Formats :
               certs' = [certs EXCEPT ![c] =
                           [f \in Formats |-> IF f \in opened THEN TornCert ELSE @[f]]]
          /\ Fails
    /\ UNCHANGED <<keys, loaded, mem, lost>> /\ RunUnchanged

\* Mutant: a failed PEM_write_X509 is not reported.
WriteCertUnchecked(c, here, next) ==
    /\ pc = here
    /\ \E kept \in SUBSET Formats :
         certs' = [certs EXCEPT ![c] =
                     [f \in Formats |-> IF f \in kept THEN Issued(c) ELSE TornCert]]
    /\ IF next = "idle" THEN Leave("success") ELSE Goto(next)
    /\ UNCHANGED <<keys, loaded, mem, lost>> /\ RunUnchanged

\* hybrid_x509_write_files: PEM_write_X509 and i2d_X509_fp.  A reported error
\* ends the run; an error of the final fclose is ignored.
WriteCert(c, here, next) ==
    /\ pc = here
    /\ \E kept \in SUBSET Formats :
         /\ certs' = [certs EXCEPT ![c] =
                        [f \in Formats |-> IF f \in kept THEN Issued(c) ELSE TornCert]]
         /\ \/ /\ lost' = (lost \/ kept # Formats)
               /\ IF next = "idle" THEN Leave("success") ELSE Goto(next)
            \/ Fails /\ UNCHANGED lost
    /\ UNCHANGED <<keys, loaded, mem>> /\ RunUnchanged

WriteCerts ==
    \/ OpenCert("root", "open_root", "write_root")
    \/ WriteCert("root", "write_root", "open_server")
    \/ OpenCert("server", "open_server", "write_server")
    \/ WriteCert("server", "write_server", IF withEnc THEN "open_enc" ELSE "idle")
    \/ OpenCert("enc", "open_enc", "write_enc")
    \/ WriteCert("enc", "write_enc", "idle")

\* The run dies (signal, power); the files stay.
Die ==
    /\ pc # "idle"
    /\ Leave("died")
    /\ UNCHANGED <<disk, loaded, mem, lost>> /\ RunUnchanged

\* A year passes: every certificate on disk is past notAfter.
Expire ==
    /\ pc = "idle"
    /\ certs' = [c \in Certs |-> [f \in Formats |-> Past(certs[c][f])]]
    /\ UNCHANGED <<keys, loaded, mem, lost, pc, exit>> /\ RunUnchanged

Next ==
    \/ StartRun \/ InspectStores \/ SaveCA \/ SaveServer \/ LoadStores
    \/ InspectEncryption \/ SaveEncryption \/ LoadEncryption
    \/ IssueInMemory \/ WriteCerts \/ Die \/ Expire

Spec == Init /\ [][Next]_vars

-----------------------------------------------------------------------------
(* Properties. *)

\* Issued by this tool over this key root (not shipped with the repository).
Ours(cert) == cert.state = "whole" /\ cert.signer # 0

\* Every certificate the tool ever wrote carries the keys now in the stores
\* and the signature of the CA key now in its store: no run, failed, killed or
\* repeated, leaves a certificate whose private key is gone.
CertsBelongToStoredKeys ==
    \A f \in Formats :
        LET root == certs["root"][f]  server == certs["server"][f]
            enc == certs["enc"][f] IN
        /\ \A cert \in {root, server, enc} : Ours(cert) =>
             keys["ca_sm2"] = WholeKey(cert.signer) /\ keys["ca_dil"] = WholeKey(cert.signer)
        /\ Ours(root) => root.key = root.signer
        /\ Ours(server) => keys["srv_sm2"] = WholeKey(server.key)
                           /\ keys["srv_dil"] = WholeKey(server.key)
        /\ Ours(enc) => keys["enc_sm2"] = WholeKey(enc.key)

\* A first run saves in order: the files before the one at hand are whole and
\* its own, the ones after it are not there.
StoresAre(caSm2, caDil, srvSm2, srvDil) ==
    /\ keys["ca_sm2"] = caSm2 /\ keys["ca_dil"] = caDil
    /\ keys["srv_sm2"] = srvSm2 /\ keys["srv_dil"] = srvDil

SavingInv ==
    LET no == NoFile  torn == TornKey(run)  whole == WholeKey(run) IN
    /\ pc \in SavingCA \cup SavingServer => mem["ca"] = run /\ mem["srv"] = run
    /\ pc = "save_ca_sm2"  => StoresAre(no, no, no, no)
    /\ pc = "fill_ca_sm2"  => StoresAre(torn, no, no, no)
    /\ pc = "save_ca_dil"  => StoresAre(whole, no, no, no)
    /\ pc = "fill_ca_dil"  => StoresAre(whole, torn, no, no)
    /\ pc = "save_srv_sm2" => StoresAre(whole, whole, no, no)
    /\ pc = "fill_srv_sm2" => StoresAre(whole, whole, torn, no)
    /\ pc = "save_srv_dil" => StoresAre(whole, whole, whole, no)
    /\ pc = "fill_srv_dil" => StoresAre(whole, whole, whole, torn)

\* Past the stores, a run holds the keys that are in them, under its own
\* passphrase, however it came by them; past the encryption store, that key too.
HoldingInv ==
    /\ pc \in {"enc", "load_enc"} \cup SavingEncryption \cup Issuing =>
         /\ mem["ca"] # 0
         /\ phraseOf[mem["ca"]] = phraseOf[run] /\ phraseOf[mem["srv"]] = phraseOf[run]
         /\ StoresAre(WholeKey(mem["ca"]), WholeKey(mem["ca"]),
                      WholeKey(mem["srv"]), WholeKey(mem["srv"]))
    /\ pc \in SavingEncryption => mem["enc"] = run
    /\ pc = "save_enc_sm2" => keys["enc_sm2"] = NoFile
    /\ pc = "fill_enc_sm2" => keys["enc_sm2"] = TornKey(run)
    /\ pc \in Issuing /\ withEnc => /\ keys["enc_sm2"] = WholeKey(mem["enc"])
                                   /\ phraseOf[mem["enc"]] = phraseOf[run]

\* The two files of a store never hold the keys of two runs, nor those of a
\* run of another time.
StoreInv ==
    /\ keys["ca_sm2"].state = "whole" /\ keys["ca_dil"].state = "whole"
         => keys["ca_sm2"].of = keys["ca_dil"].of
    /\ keys["srv_sm2"].state = "whole" /\ keys["srv_dil"].state = "whole"
         => keys["srv_sm2"].of = keys["srv_dil"].of
    /\ \A f \in StoreFiles : keys[f].state # "none" => keys[f].of # 0

\* What a run has written of the chain, unless a write was lost, is what it
\* issued.
WrittenInv ==
    ~lost =>
      /\ pc \in {"open_server", "write_server", "open_enc", "write_enc"} =>
           certs["root"]["pem"] = Issued("root")
      /\ pc \in {"open_enc", "write_enc"} =>
           certs["server"]["pem"] = Issued("server")

\* What the files and the run hold, after every step of any run.
ChainInv ==
    /\ TypeOK /\ CertsBelongToStoredKeys
    /\ SavingInv /\ HoldingInv /\ StoreInv /\ WrittenInv
    /\ pc # "idle" => run # 0

\* The CA and Server stores are never replaced: once a key file holds a whole
\* key of a run that saved both stores, it keeps it through every later run.
\* A partial store or a mismatch is refused; no substitute key is generated.
StoredKeysAreFinal ==
    [][ ca_status = "COMPLETE" /\ server_status = "COMPLETE"
          /\ (\A f \in StoreFiles : keys[f].state = "whole")
        => \A f \in StoreFiles : keys'[f] = keys[f] ]_vars

\* A run that reports success leaves what a next run with the same arguments
\* and passphrase accepts in every check it makes: both stores and the chain,
\* and with them the encryption key and its certificate when it was asked for
\* them.  A certificate lost unreported at fclose, or expired since, is refused;
\* the private keys open even then.  Only a passphrase that is too long to be
\* read back shuts them away.
SuccessIsReusable ==
    exit = "success" /\ pc = "idle" /\ password_callback(phraseOf[run]) =>
        /\ KeysOpen
        /\ \/ StoresAccepted /\ (withEnc => EncryptionAccepted)
           \/ lost \/ ~certs["root"]["pem"].live

\* What every next run asks of the CA and Server stores, whatever its arguments
\* and passphrase.
Reusable ==
    /\ \A f \in StoreFiles : keys[f].state = "whole"
    /\ MatchesExisting(keys["ca_sm2"].of, keys["srv_sm2"].of)

\* Keys are there, but the next run will refuse them.
Stranded ==
    /\ ~(ca_status = "MISSING" /\ server_status = "MISSING")
    /\ ~Reusable

\* Fail closed for good: once a run has ended with key files that do not match
\* a whole, unexpired chain (it died or failed before the certificates were
\* written, a rewrite was torn, the certificates expired), no number of later
\* runs changes that: nothing is repaired and no substitute key takes over.
StrandedForever ==
    [](pc = "idle" /\ Stranded => [](pc = "idle" => Stranded))
=============================================================================
