---------------------------- MODULE DemoChainProof ----------------------------
(***************************************************************************)
(* Proofs about DemoChain, for any number of runs and any passphrases.     *)
(* The invariant follows one run: which key files it has made so far, that *)
(* past the stores it holds the keys that are in them, and what it has     *)
(* written of the chain.  Between runs only the files remain, and they are *)
(* what the next run decides on.                                           *)
(***************************************************************************)
EXTENDS DemoChain, TLAPS

USE DemoChainAssumption

\* What a key file holds: the constructors, and what tells them apart.
LEMMA KeyFacts ==
    /\ NoFile \in KeyStates /\ NoFile.state = "none"
    /\ \A g \in Gens :
         /\ TornKey(g) \in KeyStates /\ TornKey(g).state = "torn" /\ TornKey(g).of = g
         /\ WholeKey(g) \in KeyStates /\ WholeKey(g).state = "whole" /\ WholeKey(g).of = g
    /\ \A k \in KeyStates :
         /\ k.of \in Gens
         /\ k.state = "none" => k = NoFile
         /\ k.state = "whole" => k = WholeKey(k.of)
<1>1. NoFile \in KeyStates /\ NoFile.state = "none"
  BY DEF NoFile, KeyStates
<1>2. ASSUME NEW g \in Gens
      PROVE  /\ TornKey(g) \in KeyStates /\ TornKey(g).state = "torn" /\ TornKey(g).of = g
             /\ WholeKey(g) \in KeyStates /\ WholeKey(g).state = "whole" /\ WholeKey(g).of = g
  BY DEF TornKey, WholeKey, KeyStates
<1>3. ASSUME NEW k \in KeyStates
      PROVE  /\ k.of \in Gens
             /\ k.state = "none" => k = NoFile
             /\ k.state = "whole" => k = WholeKey(k.of)
  BY DEF NoFile, TornKey, WholeKey, KeyStates, Gens
<1> QED
  BY <1>1, <1>2, <1>3

\* What a certificate file holds.
LEMMA CertFacts ==
    /\ NoCert \in CertStates /\ NoCert.state = "none"
    /\ TornCert \in CertStates /\ TornCert.state = "torn"
    /\ \A k \in Gens, signer \in Gens :
         /\ Cert(k, signer) \in CertStates /\ Cert(k, signer).state = "whole"
         /\ Cert(k, signer).key = k /\ Cert(k, signer).signer = signer
         /\ Cert(k, signer).live
    /\ \A cert \in CertStates :
         /\ cert.key \in Gens /\ cert.signer \in Gens /\ cert.live \in BOOLEAN
         /\ Past(cert) \in CertStates /\ Past(cert).state = cert.state
         /\ Past(cert).key = cert.key /\ Past(cert).signer = cert.signer
         /\ ~Past(cert).live
<1>1. NoCert \in CertStates /\ NoCert.state = "none"
  BY DEF NoCert, CertStates, Gens
<1>2. TornCert \in CertStates /\ TornCert.state = "torn"
  BY <1>1 DEF TornCert, CertStates
<1>3. ASSUME NEW k \in Gens, NEW signer \in Gens
      PROVE  /\ Cert(k, signer) \in CertStates /\ Cert(k, signer).state = "whole"
             /\ Cert(k, signer).key = k /\ Cert(k, signer).signer = signer
             /\ Cert(k, signer).live
  BY DEF Cert, CertStates
<1>4. ASSUME NEW cert \in CertStates
      PROVE  /\ cert.key \in Gens /\ cert.signer \in Gens /\ cert.live \in BOOLEAN
             /\ Past(cert) \in CertStates /\ Past(cert).state = cert.state
             /\ Past(cert).key = cert.key /\ Past(cert).signer = cert.signer
             /\ ~Past(cert).live
  BY DEF CertStates, Past
<1> QED
  BY <1>1, <1>2, <1>3, <1>4

\* The certificates of a run carry the keys it holds.
LEMMA IssuedFacts ==
    ASSUME TypeOK
    PROVE  /\ Issued("root") = Cert(mem["ca"], mem["ca"])
           /\ Issued("server") = Cert(mem["srv"], mem["ca"])
           /\ Issued("enc") = Cert(mem["enc"], mem["ca"])
           /\ \A c \in Certs : Issued(c) \in CertStates
           /\ mem["ca"] \in Gens /\ mem["srv"] \in Gens /\ mem["enc"] \in Gens
<1>1. /\ Issued("root") = Cert(mem["ca"], mem["ca"])
      /\ Issued("server") = Cert(mem["srv"], mem["ca"])
      /\ Issued("enc") = Cert(mem["enc"], mem["ca"])
  BY DEF Issued
<1>2. mem["ca"] \in Gens /\ mem["srv"] \in Gens /\ mem["enc"] \in Gens
  BY DEF TypeOK
<1> QED
  BY <1>1, <1>2, CertFacts DEF Certs

IInv == ChainInv /\ SuccessIsReusable

-----------------------------------------------------------------------------
(* The type invariant. *)

LEMMA InitType == Init => TypeOK
<1> SUFFICES ASSUME Init
             PROVE  TypeOK
  OBVIOUS
<1>1. 0 \in Gens
  BY DEF Gens
<1>2. keys \in [KeyFiles -> KeyStates]
  BY <1>1, KeyFacts DEF Init
<1>3. certs \in [Certs -> [Formats -> CertStates]]
  BY <1>1, CertFacts DEF Init
<1>4. phraseOf \in [Gens -> Passphrases]
  BY DEF Init
<1>5. withEnc \in BOOLEAN /\ loaded \in BOOLEAN /\ lost \in BOOLEAN
  BY DEF Init
<1>6. mem \in [{"ca", "srv", "enc"} -> Gens]
  BY <1>1 DEF Init
<1>7. run \in Gens /\ pc = "idle" /\ exit = "none"
  BY <1>1 DEF Init
<1> QED
  BY <1>2, <1>3, <1>4, <1>5, <1>6, <1>7 DEF TypeOK, EncryptionSteps

-----------------------------------------------------------------------------
(* What no longer holds once a run is at a given step. *)

LEMMA InitInv == Init => IInv
<1> SUFFICES ASSUME Init
             PROVE  IInv
  OBVIOUS
<1>1. TypeOK
  BY InitType
<1>2. CertsBelongToStoredKeys
  <2>1. ASSUME NEW c \in Certs, NEW f \in Formats
        PROVE  ~Ours(certs[c][f])
    BY CertFacts DEF Init, Ours, Gens
  <2> QED
    BY <2>1 DEF CertsBelongToStoredKeys, Certs
<1>3. SavingInv /\ HoldingInv /\ WrittenInv /\ SuccessIsReusable
  BY DEF Init, SavingInv, HoldingInv, WrittenInv, SuccessIsReusable, SavingCA, SavingServer,
         SavingEncryption, Issuing
<1>4. StoreInv
  BY KeyFacts DEF Init, StoreInv, StoreFiles, KeyFiles
<1> QED
  BY <1>1, <1>2, <1>3, <1>4 DEF Init, IInv, ChainInv

\* While a store is being saved, no certificate of its keys is there.
LEMMA NoneIssuedYet ==
    ASSUME IInv
    PROVE  /\ pc \in SavingCA => \A c \in Certs, f \in Formats : ~Ours(certs[c][f])
           /\ pc \in SavingServer => \A f \in Formats : ~Ours(certs["server"][f])
           /\ pc \in SavingEncryption => \A f \in Formats : ~Ours(certs["enc"][f])
<1>1. \A c \in Certs, f \in Formats : certs[c][f].signer \in Gens /\ certs[c][f].key \in Gens
  BY CertFacts DEF IInv, ChainInv, TypeOK
<1>2. run \in Gens
  BY DEF IInv, ChainInv, TypeOK
<1>3. ASSUME pc \in SavingCA, NEW c \in Certs, NEW f \in Formats
      PROVE  ~Ours(certs[c][f])
  <2>1. keys["ca_sm2"].state # "whole" \/ keys["ca_dil"].state # "whole"
    BY <1>2, <1>3, KeyFacts DEF IInv, ChainInv, SavingInv, StoresAre, SavingCA
  <2>2. Ours(certs[c][f]) => /\ keys["ca_sm2"] = WholeKey(certs[c][f].signer)
                             /\ keys["ca_dil"] = WholeKey(certs[c][f].signer)
    BY DEF IInv, ChainInv, CertsBelongToStoredKeys, Certs
  <2> QED
    BY <1>1, <2>1, <2>2, KeyFacts
<1>4. ASSUME pc \in SavingServer, NEW f \in Formats
      PROVE  ~Ours(certs["server"][f])
  <2>1. keys["srv_sm2"].state # "whole" \/ keys["srv_dil"].state # "whole"
    BY <1>2, <1>4, KeyFacts DEF IInv, ChainInv, SavingInv, StoresAre, SavingServer
  <2>2. Ours(certs["server"][f]) => /\ keys["srv_sm2"] = WholeKey(certs["server"][f].key)
                                    /\ keys["srv_dil"] = WholeKey(certs["server"][f].key)
    BY DEF IInv, ChainInv, CertsBelongToStoredKeys
  <2>3. certs["server"][f].key \in Gens
    BY <1>1 DEF Certs
  <2> QED
    BY <2>1, <2>2, <2>3, KeyFacts
<1>5. ASSUME pc \in SavingEncryption, NEW f \in Formats
      PROVE  ~Ours(certs["enc"][f])
  <2>1. keys["enc_sm2"].state # "whole"
    BY <1>2, <1>5, KeyFacts DEF IInv, ChainInv, HoldingInv, SavingEncryption
  <2>2. Ours(certs["enc"][f]) => keys["enc_sm2"] = WholeKey(certs["enc"][f].key)
    BY DEF IInv, ChainInv, CertsBelongToStoredKeys
  <2>3. certs["enc"][f].key \in Gens
    BY <1>1 DEF Certs
  <2> QED
    BY <2>1, <2>2, <2>3, KeyFacts
<1> QED
  BY <1>3, <1>4, <1>5

\* Steps that touch no file keep what is said of the files alone.
LEMMA DiskUnchangedKeeps ==
    ASSUME IInv, UNCHANGED disk
    PROVE  CertsBelongToStoredKeys' /\ StoreInv'
BY DEF IInv, ChainInv, disk, CertsBelongToStoredKeys, StoreInv, Ours

-----------------------------------------------------------------------------
(* Steps that touch no file. *)

\* A run that ends without success leaves nothing to say but of the files.
LEMMA LeavingKeeps ==
    ASSUME IInv, CertsBelongToStoredKeys', StoreInv', TypeOK', pc' = "idle", exit' # "success"
    PROVE  IInv'
BY DEF IInv, ChainInv, SavingInv, HoldingInv, WrittenInv, SuccessIsReusable,
       SavingCA, SavingServer, SavingEncryption, Issuing

LEMMA StartRunKeeps == IInv /\ StartRun => IInv'
<1> SUFFICES ASSUME IInv, StartRun
             PROVE  IInv'
  OBVIOUS
<1>1. CertsBelongToStoredKeys' /\ StoreInv'
  BY DiskUnchangedKeeps DEF StartRun
<1>2. run' \in Gens /\ run' # 0
  BY DEF IInv, ChainInv, TypeOK, StartRun, Gens
<1>3. phraseOf' \in [Gens -> Passphrases]
  BY DEF IInv, ChainInv, TypeOK, StartRun
<1>4. withEnc' \in BOOLEAN /\ loaded' \in BOOLEAN /\ lost' \in BOOLEAN
  BY DEF StartRun
<1>5. \/ pc' = "stores" /\ exit' = exit
      \/ pc' = "idle" /\ exit' = "failure"
  BY DEF StartRun, Goto, Fails, Leave
<1>6. TypeOK'
  BY <1>2, <1>3, <1>4, <1>5 DEF IInv, ChainInv, TypeOK, StartRun, disk, EncryptionSteps
<1>7. CASE pc' = "stores"
  <2>1. SavingInv' /\ HoldingInv' /\ WrittenInv' /\ SuccessIsReusable'
    BY <1>7 DEF SavingInv, HoldingInv, WrittenInv, SuccessIsReusable, SavingCA, SavingServer,
                SavingEncryption, Issuing
  <2> QED
    BY <1>1, <1>2, <1>6, <2>1 DEF IInv, ChainInv
<1>8. CASE pc' = "idle"
  BY <1>1, <1>5, <1>6, <1>8, LeavingKeeps
<1> QED
  BY <1>5, <1>7, <1>8

LEMMA InspectStoresKeeps == IInv /\ InspectStores => IInv'
<1> SUFFICES ASSUME IInv, InspectStores
             PROVE  IInv'
  OBVIOUS
<1>1. CertsBelongToStoredKeys' /\ StoreInv'
  BY DiskUnchangedKeeps DEF InspectStores
<1>2. TypeOK'
  BY DEF IInv, ChainInv, TypeOK, InspectStores, disk, RunUnchanged, Goto, Fails, Leave,
         EncryptionSteps, SavingCA
<1>3. CASE /\ ca_status = "MISSING" /\ server_status = "MISSING"
           /\ mem' = [mem EXCEPT !["ca"] = run, !["srv"] = run]
           /\ Goto("save_ca_sm2")
  <2>1. \A f \in StoreFiles : keys[f] = NoFile
    BY <1>3, KeyFacts DEF IInv, ChainInv, TypeOK, ca_status, server_status, status, StoreFiles,
                          KeyFiles
  <2>2. SavingInv'
    BY <1>3, <2>1 DEF IInv, ChainInv, TypeOK, InspectStores, RunUnchanged, disk, Goto, SavingInv,
                      StoresAre, SavingCA, SavingServer, StoreFiles, KeyFiles
  <2>3. HoldingInv' /\ WrittenInv' /\ SuccessIsReusable'
    BY <1>3 DEF Goto, HoldingInv, WrittenInv, SuccessIsReusable, SavingEncryption, Issuing
  <2> QED
    BY <1>1, <1>2, <2>2, <2>3 DEF IInv, ChainInv, InspectStores, RunUnchanged
<1>4. CASE Goto("load")
  <2>1. SavingInv' /\ HoldingInv' /\ WrittenInv' /\ SuccessIsReusable'
    BY <1>4 DEF Goto, SavingInv, HoldingInv, WrittenInv, SuccessIsReusable, SavingCA,
                SavingServer, SavingEncryption, Issuing
  <2> QED
    BY <1>1, <1>2, <2>1 DEF IInv, ChainInv, InspectStores, RunUnchanged
<1>5. CASE Fails
  BY <1>1, <1>2, <1>5, LeavingKeeps DEF Fails, Leave
<1> QED
  BY <1>3, <1>4, <1>5 DEF InspectStores

LEMMA LoadStoresKeeps == IInv /\ LoadStores => IInv'
<1> SUFFICES ASSUME IInv, LoadStores
             PROVE  IInv'
  OBVIOUS
<1>1. CertsBelongToStoredKeys' /\ StoreInv'
  BY DiskUnchangedKeeps DEF LoadStores
<1>2. keys["ca_sm2"].of \in Gens /\ keys["srv_sm2"].of \in Gens
  BY KeyFacts DEF IInv, ChainInv, TypeOK, KeyFiles
<1>3. TypeOK'
  BY <1>2 DEF IInv, ChainInv, TypeOK, LoadStores, disk, RunUnchanged, Goto, Fails, Leave,
              EncryptionSteps, Issuing
<1>4. CASE /\ \A f \in StoreFiles : Opens(f)
           /\ mem' = [mem EXCEPT !["ca"] = keys["ca_sm2"].of, !["srv"] = keys["srv_sm2"].of]
           /\ Goto(IF withEnc THEN "enc" ELSE "issue")
  <2>1. StoresAre(WholeKey(keys["ca_sm2"].of), WholeKey(keys["ca_sm2"].of),
                  WholeKey(keys["srv_sm2"].of), WholeKey(keys["srv_sm2"].of))
    BY <1>4, KeyFacts DEF IInv, ChainInv, TypeOK, StoreInv, Opens, StoresAre, StoreFiles, KeyFiles
  <2>2. keys["ca_sm2"].of # 0
    BY <1>4 DEF IInv, ChainInv, StoreInv, Opens, StoreFiles, KeyFiles
  <2>3. /\ phraseOf[keys["ca_sm2"].of] = phraseOf[run]
        /\ phraseOf[keys["srv_sm2"].of] = phraseOf[run]
    BY <1>4 DEF Opens, StoreFiles, KeyFiles
  <2>4. HoldingInv'
    BY <1>4, <2>1, <2>2, <2>3 DEF IInv, ChainInv, TypeOK, LoadStores, RunUnchanged, disk, Goto,
                            HoldingInv, StoresAre, SavingEncryption, Issuing
  <2>5. SavingInv' /\ WrittenInv' /\ SuccessIsReusable'
    BY <1>4 DEF Goto, SavingInv, WrittenInv, SuccessIsReusable, SavingCA, SavingServer
  <2> QED
    BY <1>1, <1>3, <2>4, <2>5 DEF IInv, ChainInv, LoadStores, RunUnchanged
<1>5. CASE Fails
  BY <1>1, <1>3, <1>5, LeavingKeeps DEF Fails, Leave
<1> QED
  BY <1>4, <1>5 DEF LoadStores, StoresAccepted

LEMMA InspectEncryptionKeeps == IInv /\ InspectEncryption => IInv'
<1> SUFFICES ASSUME IInv, InspectEncryption
             PROVE  IInv'
  OBVIOUS
<1>1. CertsBelongToStoredKeys' /\ StoreInv'
  BY DiskUnchangedKeeps DEF InspectEncryption
<1>2. TypeOK'
  BY DEF IInv, ChainInv, TypeOK, InspectEncryption, disk, RunUnchanged, Goto, Fails, Leave,
         EncryptionSteps, SavingEncryption
<1>3. CASE /\ encryption_status = "MISSING"
           /\ mem' = [mem EXCEPT !["enc"] = run]
           /\ Goto("save_enc_sm2")
  <2>1. keys["enc_sm2"] = NoFile
    BY <1>3, KeyFacts DEF IInv, ChainInv, TypeOK, encryption_status, KeyFiles
  <2>2. HoldingInv'
    BY <1>3, <2>1 DEF IInv, ChainInv, TypeOK, InspectEncryption, RunUnchanged, disk, Goto,
                      HoldingInv, StoresAre, SavingEncryption, Issuing
  <2>3. SavingInv' /\ WrittenInv' /\ SuccessIsReusable'
    BY <1>3 DEF Goto, SavingInv, WrittenInv, SuccessIsReusable, SavingCA, SavingServer
  <2> QED
    BY <1>1, <1>2, <2>2, <2>3 DEF IInv, ChainInv, InspectEncryption, RunUnchanged
<1>4. CASE Goto("load_enc") /\ UNCHANGED mem
  <2>1. HoldingInv'
    BY <1>4 DEF IInv, ChainInv, TypeOK, InspectEncryption, RunUnchanged, disk, Goto,
                HoldingInv, StoresAre, SavingEncryption, Issuing
  <2>2. SavingInv' /\ WrittenInv' /\ SuccessIsReusable'
    BY <1>4 DEF Goto, SavingInv, WrittenInv, SuccessIsReusable, SavingCA, SavingServer
  <2> QED
    BY <1>1, <1>2, <2>1, <2>2 DEF IInv, ChainInv, InspectEncryption, RunUnchanged
<1>5. CASE Fails
  BY <1>1, <1>2, <1>5, LeavingKeeps DEF Fails, Leave
<1> QED
  BY <1>3, <1>4, <1>5 DEF InspectEncryption

LEMMA LoadEncryptionKeeps == IInv /\ LoadEncryption => IInv'
<1> SUFFICES ASSUME IInv, LoadEncryption
             PROVE  IInv'
  OBVIOUS
<1>1. CertsBelongToStoredKeys' /\ StoreInv'
  BY DiskUnchangedKeeps DEF LoadEncryption
<1>2. keys["enc_sm2"].of \in Gens
  BY KeyFacts DEF IInv, ChainInv, TypeOK, KeyFiles
<1>3. TypeOK'
  BY <1>2 DEF IInv, ChainInv, TypeOK, LoadEncryption, disk, RunUnchanged, Goto, Fails, Leave,
              EncryptionSteps, Issuing
<1>4. CASE /\ Opens("enc_sm2")
           /\ mem' = [mem EXCEPT !["enc"] = keys["enc_sm2"].of]
           /\ Goto("issue")
  <2>1. keys["enc_sm2"] = WholeKey(keys["enc_sm2"].of)
    BY <1>4, KeyFacts DEF IInv, ChainInv, TypeOK, Opens, KeyFiles
  <2>2. phraseOf[keys["enc_sm2"].of] = phraseOf[run]
    BY <1>4 DEF Opens
  <2>3. HoldingInv'
    BY <1>4, <2>1, <2>2 DEF IInv, ChainInv, TypeOK, LoadEncryption, RunUnchanged, disk, Goto,
                      HoldingInv, StoresAre, SavingEncryption, Issuing
  <2>4. SavingInv' /\ WrittenInv' /\ SuccessIsReusable'
    BY <1>4 DEF Goto, SavingInv, WrittenInv, SuccessIsReusable, SavingCA, SavingServer
  <2> QED
    BY <1>1, <1>3, <2>3, <2>4 DEF IInv, ChainInv, LoadEncryption, RunUnchanged
<1>5. CASE Fails
  BY <1>1, <1>3, <1>5, LeavingKeeps DEF Fails, Leave
<1> QED
  BY <1>4, <1>5 DEF LoadEncryption, EncryptionAccepted

LEMMA IssueInMemoryKeeps == IInv /\ IssueInMemory => IInv'
<1> SUFFICES ASSUME IInv, IssueInMemory
             PROVE  IInv'
  OBVIOUS
<1>1. CertsBelongToStoredKeys' /\ StoreInv'
  BY DiskUnchangedKeeps DEF IssueInMemory
<1>2. TypeOK'
  BY DEF IInv, ChainInv, TypeOK, IssueInMemory, disk, RunUnchanged, Goto, Fails, Leave,
         EncryptionSteps, Issuing
<1>3. CASE Goto("open_root")
  <2>1. HoldingInv'
    BY <1>3 DEF IInv, ChainInv, IssueInMemory, RunUnchanged, disk, Goto, HoldingInv,
                StoresAre, SavingEncryption, Issuing
  <2>2. SavingInv' /\ WrittenInv' /\ SuccessIsReusable'
    BY <1>3 DEF Goto, SavingInv, WrittenInv, SuccessIsReusable, SavingCA, SavingServer
  <2> QED
    BY <1>1, <1>2, <2>1, <2>2 DEF IInv, ChainInv, IssueInMemory, RunUnchanged
<1>4. CASE Fails
  BY <1>1, <1>2, <1>4, LeavingKeeps DEF Fails, Leave
<1> QED
  BY <1>3, <1>4 DEF IssueInMemory

LEMMA DieKeeps == IInv /\ Die => IInv'
<1> SUFFICES ASSUME IInv, Die
             PROVE  IInv'
  OBVIOUS
<1>1. CertsBelongToStoredKeys' /\ StoreInv'
  BY DiskUnchangedKeeps DEF Die
<1>2. TypeOK'
  BY DEF IInv, ChainInv, TypeOK, Die, disk, RunUnchanged, Leave, EncryptionSteps
<1> QED
  BY <1>1, <1>2, LeavingKeeps DEF Die, Leave

-----------------------------------------------------------------------------
(* Steps that write key files. *)

LEMMA CreateKeyType ==
    ASSUME IInv, NEW f \in KeyFiles, NEW here, CreateKey(f, here, pc'),
           pc' \in SavingCA \cup SavingServer \cup SavingEncryption,
           pc' \in EncryptionSteps => withEnc
    PROVE  TypeOK'
BY KeyFacts DEF IInv, ChainInv, TypeOK, CreateKey, RunUnchanged, Goto

LEMMA FillKeyType ==
    ASSUME IInv, NEW f \in KeyFiles, NEW here, FillKey(f, here, pc'),
           pc' \in SavingCA \cup SavingServer \cup {"enc", "issue"},
           pc' \in EncryptionSteps => withEnc
    PROVE  TypeOK'
BY KeyFacts DEF IInv, ChainInv, TypeOK, FillKey, RunUnchanged, Goto, Issuing

LEMMA SaveFailsKeeps ==
    ASSUME IInv, NEW steps, NEW files, SaveFails(steps, files), CertsBelongToStoredKeys'
    PROVE  IInv'
<1>1. TypeOK'
  BY KeyFacts DEF IInv, ChainInv, TypeOK, SaveFails, RunUnchanged, Fails, Leave, EncryptionSteps
<1>2. \A f \in KeyFiles : keys'[f] = NoFile \/ keys'[f] = keys[f]
  BY DEF SaveFails
<1>3. StoreInv'
  BY <1>2, KeyFacts DEF IInv, ChainInv, StoreInv, StoreFiles, KeyFiles
<1> QED
  BY <1>1, <1>3, LeavingKeeps DEF SaveFails, Fails, Leave

LEMMA SaveCAKeeps == IInv /\ SaveCA => IInv'
<1> SUFFICES ASSUME IInv, SaveCA
             PROVE  IInv'
  OBVIOUS
<1>1. run \in Gens /\ (pc # "idle" => run # 0)
  BY DEF IInv, ChainInv, TypeOK
<1>2. CASE CreateKey("ca_sm2", "save_ca_sm2", "fill_ca_sm2")
  <2>1. TypeOK'
    BY <1>2, CreateKeyType DEF CreateKey, RunUnchanged, Goto, IInv, ChainInv, TypeOK, KeyFiles, SavingCA, SavingServer, EncryptionSteps
  <2>2. CertsBelongToStoredKeys'
    BY <1>2, NoneIssuedYet DEF CreateKey, RunUnchanged, Goto, IInv, ChainInv, TypeOK, CertsBelongToStoredKeys, Ours, Certs,
                                 KeyFiles, SavingCA
  <2>3. SavingInv' /\ HoldingInv'
    BY <1>1, <1>2 DEF CreateKey, RunUnchanged, Goto, IInv, ChainInv, TypeOK, SavingInv, HoldingInv, StoresAre, KeyFiles,
                        SavingCA, SavingServer, SavingEncryption, Issuing
  <2>4. StoreInv'
    BY <1>1, <1>2, KeyFacts DEF CreateKey, RunUnchanged, Goto, IInv, ChainInv, TypeOK, SavingInv, StoreInv, StoresAre,
                                  StoreFiles, KeyFiles
  <2>5. WrittenInv' /\ SuccessIsReusable'
    BY <1>2 DEF CreateKey, RunUnchanged, Goto, WrittenInv, SuccessIsReusable
  <2> QED
    BY <1>1, <1>2, <2>1, <2>2, <2>3, <2>4, <2>5 DEF CreateKey, RunUnchanged, Goto, IInv, ChainInv
<1>3. CASE FillKey("ca_sm2", "fill_ca_sm2", "save_ca_dil")
  <2>1. TypeOK'
    BY <1>3, FillKeyType DEF FillKey, RunUnchanged, Goto, IInv, ChainInv, TypeOK, KeyFiles, SavingCA, SavingServer, EncryptionSteps
  <2>2. CertsBelongToStoredKeys'
    BY <1>3, NoneIssuedYet DEF FillKey, RunUnchanged, Goto, IInv, ChainInv, TypeOK, CertsBelongToStoredKeys, Ours, Certs,
                                 KeyFiles, SavingCA
  <2>3. SavingInv' /\ HoldingInv'
    BY <1>1, <1>3 DEF FillKey, RunUnchanged, Goto, IInv, ChainInv, TypeOK, SavingInv, HoldingInv, StoresAre, KeyFiles,
                        SavingCA, SavingServer, SavingEncryption, Issuing
  <2>4. StoreInv'
    BY <1>1, <1>3, KeyFacts DEF FillKey, RunUnchanged, Goto, IInv, ChainInv, TypeOK, SavingInv, StoreInv, StoresAre,
                                  StoreFiles, KeyFiles
  <2>5. WrittenInv' /\ SuccessIsReusable'
    BY <1>3 DEF FillKey, RunUnchanged, Goto, WrittenInv, SuccessIsReusable
  <2> QED
    BY <1>1, <1>3, <2>1, <2>2, <2>3, <2>4, <2>5 DEF FillKey, RunUnchanged, Goto, IInv, ChainInv
<1>4. CASE CreateKey("ca_dil", "save_ca_dil", "fill_ca_dil")
  <2>1. TypeOK'
    BY <1>4, CreateKeyType DEF CreateKey, RunUnchanged, Goto, IInv, ChainInv, TypeOK, KeyFiles, SavingCA, SavingServer, EncryptionSteps
  <2>2. CertsBelongToStoredKeys'
    BY <1>4, NoneIssuedYet DEF CreateKey, RunUnchanged, Goto, IInv, ChainInv, TypeOK, CertsBelongToStoredKeys, Ours, Certs,
                                 KeyFiles, SavingCA
  <2>3. SavingInv' /\ HoldingInv'
    BY <1>1, <1>4 DEF CreateKey, RunUnchanged, Goto, IInv, ChainInv, TypeOK, SavingInv, HoldingInv, StoresAre, KeyFiles,
                        SavingCA, SavingServer, SavingEncryption, Issuing
  <2>4. StoreInv'
    BY <1>1, <1>4, KeyFacts DEF CreateKey, RunUnchanged, Goto, IInv, ChainInv, TypeOK, SavingInv, StoreInv, StoresAre,
                                  StoreFiles, KeyFiles
  <2>5. WrittenInv' /\ SuccessIsReusable'
    BY <1>4 DEF CreateKey, RunUnchanged, Goto, WrittenInv, SuccessIsReusable
  <2> QED
    BY <1>1, <1>4, <2>1, <2>2, <2>3, <2>4, <2>5 DEF CreateKey, RunUnchanged, Goto, IInv, ChainInv
<1>5. CASE FillKey("ca_dil", "fill_ca_dil", "save_srv_sm2")
  <2>1. TypeOK'
    BY <1>5, FillKeyType DEF FillKey, RunUnchanged, Goto, IInv, ChainInv, TypeOK, KeyFiles, SavingCA, SavingServer, EncryptionSteps
  <2>2. CertsBelongToStoredKeys'
    BY <1>5, NoneIssuedYet DEF FillKey, RunUnchanged, Goto, IInv, ChainInv, TypeOK, CertsBelongToStoredKeys, Ours, Certs,
                                 KeyFiles, SavingCA
  <2>3. SavingInv' /\ HoldingInv'
    BY <1>1, <1>5 DEF FillKey, RunUnchanged, Goto, IInv, ChainInv, TypeOK, SavingInv, HoldingInv, StoresAre, KeyFiles,
                        SavingCA, SavingServer, SavingEncryption, Issuing
  <2>4. StoreInv'
    BY <1>1, <1>5, KeyFacts DEF FillKey, RunUnchanged, Goto, IInv, ChainInv, TypeOK, SavingInv, StoreInv, StoresAre,
                                  StoreFiles, KeyFiles
  <2>5. WrittenInv' /\ SuccessIsReusable'
    BY <1>5 DEF FillKey, RunUnchanged, Goto, WrittenInv, SuccessIsReusable
  <2> QED
    BY <1>1, <1>5, <2>1, <2>2, <2>3, <2>4, <2>5 DEF FillKey, RunUnchanged, Goto, IInv, ChainInv
<1>6. CASE SaveFails(SavingCA, {"ca_sm2", "ca_dil"})
  <2>1. CertsBelongToStoredKeys'
    BY <1>6, NoneIssuedYet DEF SaveFails, IInv, ChainInv, CertsBelongToStoredKeys, Ours, Certs,
                                 KeyFiles
  <2> QED
    BY <1>6, <2>1, SaveFailsKeeps
<1> QED
  BY <1>2, <1>3, <1>4, <1>5, <1>6 DEF SaveCA

LEMMA SaveServerKeeps == IInv /\ SaveServer => IInv'
<1> SUFFICES ASSUME IInv, SaveServer
             PROVE  IInv'
  OBVIOUS
<1>1. run \in Gens /\ (pc # "idle" => run # 0)
  BY DEF IInv, ChainInv, TypeOK
<1>2. CASE CreateKey("srv_sm2", "save_srv_sm2", "fill_srv_sm2")
  <2>1. TypeOK'
    BY <1>2, CreateKeyType DEF CreateKey, RunUnchanged, Goto, IInv, ChainInv, TypeOK, KeyFiles, SavingServer, EncryptionSteps
  <2>2. CertsBelongToStoredKeys'
    BY <1>2, NoneIssuedYet DEF CreateKey, RunUnchanged, Goto, IInv, ChainInv, TypeOK, CertsBelongToStoredKeys, Ours, Certs,
                                 KeyFiles, SavingServer
  <2>3. SavingInv' /\ HoldingInv'
    BY <1>1, <1>2 DEF CreateKey, RunUnchanged, Goto, IInv, ChainInv, TypeOK, SavingInv, HoldingInv, StoresAre, KeyFiles,
                        SavingCA, SavingServer, SavingEncryption, Issuing
  <2>4. StoreInv'
    BY <1>1, <1>2, KeyFacts DEF CreateKey, RunUnchanged, Goto, IInv, ChainInv, TypeOK, SavingInv, StoreInv, StoresAre,
                                  StoreFiles, KeyFiles
  <2>5. WrittenInv' /\ SuccessIsReusable'
    BY <1>2 DEF CreateKey, RunUnchanged, Goto, WrittenInv, SuccessIsReusable
  <2> QED
    BY <1>1, <1>2, <2>1, <2>2, <2>3, <2>4, <2>5 DEF CreateKey, RunUnchanged, Goto, IInv, ChainInv
<1>3. CASE FillKey("srv_sm2", "fill_srv_sm2", "save_srv_dil")
  <2>1. TypeOK'
    BY <1>3, FillKeyType DEF FillKey, RunUnchanged, Goto, IInv, ChainInv, TypeOK, KeyFiles, SavingServer, EncryptionSteps
  <2>2. CertsBelongToStoredKeys'
    BY <1>3, NoneIssuedYet DEF FillKey, RunUnchanged, Goto, IInv, ChainInv, TypeOK, CertsBelongToStoredKeys, Ours, Certs,
                                 KeyFiles, SavingServer
  <2>3. SavingInv' /\ HoldingInv'
    BY <1>1, <1>3 DEF FillKey, RunUnchanged, Goto, IInv, ChainInv, TypeOK, SavingInv, HoldingInv, StoresAre, KeyFiles,
                        SavingCA, SavingServer, SavingEncryption, Issuing
  <2>4. StoreInv'
    BY <1>1, <1>3, KeyFacts DEF FillKey, RunUnchanged, Goto, IInv, ChainInv, TypeOK, SavingInv, StoreInv, StoresAre,
                                  StoreFiles, KeyFiles
  <2>5. WrittenInv' /\ SuccessIsReusable'
    BY <1>3 DEF FillKey, RunUnchanged, Goto, WrittenInv, SuccessIsReusable
  <2> QED
    BY <1>1, <1>3, <2>1, <2>2, <2>3, <2>4, <2>5 DEF FillKey, RunUnchanged, Goto, IInv, ChainInv
<1>4. CASE CreateKey("srv_dil", "save_srv_dil", "fill_srv_dil")
  <2>1. TypeOK'
    BY <1>4, CreateKeyType DEF CreateKey, RunUnchanged, Goto, IInv, ChainInv, TypeOK, KeyFiles, SavingServer, EncryptionSteps
  <2>2. CertsBelongToStoredKeys'
    BY <1>4, NoneIssuedYet DEF CreateKey, RunUnchanged, Goto, IInv, ChainInv, TypeOK, CertsBelongToStoredKeys, Ours, Certs,
                                 KeyFiles, SavingServer
  <2>3. SavingInv' /\ HoldingInv'
    BY <1>1, <1>4 DEF CreateKey, RunUnchanged, Goto, IInv, ChainInv, TypeOK, SavingInv, HoldingInv, StoresAre, KeyFiles,
                        SavingCA, SavingServer, SavingEncryption, Issuing
  <2>4. StoreInv'
    BY <1>1, <1>4, KeyFacts DEF CreateKey, RunUnchanged, Goto, IInv, ChainInv, TypeOK, SavingInv, StoreInv, StoresAre,
                                  StoreFiles, KeyFiles
  <2>5. WrittenInv' /\ SuccessIsReusable'
    BY <1>4 DEF CreateKey, RunUnchanged, Goto, WrittenInv, SuccessIsReusable
  <2> QED
    BY <1>1, <1>4, <2>1, <2>2, <2>3, <2>4, <2>5 DEF CreateKey, RunUnchanged, Goto, IInv, ChainInv
<1>5. CASE FillKey("srv_dil", "fill_srv_dil", IF withEnc THEN "enc" ELSE "issue")
  <2>1. TypeOK'
    BY <1>5, FillKeyType DEF FillKey, RunUnchanged, Goto, IInv, ChainInv, TypeOK, KeyFiles, SavingServer, EncryptionSteps
  <2>2. CertsBelongToStoredKeys'
    BY <1>5, NoneIssuedYet DEF FillKey, RunUnchanged, Goto, IInv, ChainInv, TypeOK, CertsBelongToStoredKeys, Ours, Certs,
                                 KeyFiles, SavingServer
  <2>3. SavingInv' /\ HoldingInv'
    BY <1>1, <1>5 DEF FillKey, RunUnchanged, Goto, IInv, ChainInv, TypeOK, SavingInv, HoldingInv, StoresAre, KeyFiles,
                        SavingCA, SavingServer, SavingEncryption, Issuing
  <2>4. StoreInv'
    BY <1>1, <1>5, KeyFacts DEF FillKey, RunUnchanged, Goto, IInv, ChainInv, TypeOK, SavingInv, StoreInv, StoresAre,
                                  StoreFiles, KeyFiles
  <2>5. WrittenInv' /\ SuccessIsReusable'
    BY <1>5 DEF FillKey, RunUnchanged, Goto, WrittenInv, SuccessIsReusable
  <2> QED
    BY <1>1, <1>5, <2>1, <2>2, <2>3, <2>4, <2>5 DEF FillKey, RunUnchanged, Goto, IInv, ChainInv
<1>6. CASE SaveFails(SavingServer, {"srv_sm2", "srv_dil"})
  <2>1. CertsBelongToStoredKeys'
    BY <1>6, NoneIssuedYet DEF SaveFails, IInv, ChainInv, CertsBelongToStoredKeys, Ours, Certs,
                                 KeyFiles
  <2> QED
    BY <1>6, <2>1, SaveFailsKeeps
<1> QED
  BY <1>2, <1>3, <1>4, <1>5, <1>6 DEF SaveServer

LEMMA SaveEncryptionKeeps == IInv /\ SaveEncryption => IInv'
<1> SUFFICES ASSUME IInv, SaveEncryption
             PROVE  IInv'
  OBVIOUS
<1>1. run \in Gens /\ (pc # "idle" => run # 0)
  BY DEF IInv, ChainInv, TypeOK
<1>2. CASE CreateKey("enc_sm2", "save_enc_sm2", "fill_enc_sm2")
  <2>1. TypeOK'
    BY <1>2, CreateKeyType DEF CreateKey, RunUnchanged, Goto, IInv, ChainInv, TypeOK, KeyFiles, SavingEncryption, EncryptionSteps
  <2>2. CertsBelongToStoredKeys'
    BY <1>2, NoneIssuedYet DEF CreateKey, RunUnchanged, Goto, IInv, ChainInv, TypeOK, CertsBelongToStoredKeys, Ours, Certs,
                                 KeyFiles, SavingEncryption
  <2>3. SavingInv' /\ HoldingInv'
    BY <1>1, <1>2 DEF CreateKey, RunUnchanged, Goto, IInv, ChainInv, TypeOK, SavingInv, HoldingInv, StoresAre, KeyFiles,
                        SavingCA, SavingServer, SavingEncryption, Issuing
  <2>4. StoreInv'
    BY <1>1, <1>2, KeyFacts DEF CreateKey, RunUnchanged, Goto, IInv, ChainInv, TypeOK, SavingInv, StoreInv, StoresAre,
                                  StoreFiles, KeyFiles
  <2>5. WrittenInv' /\ SuccessIsReusable'
    BY <1>2 DEF CreateKey, RunUnchanged, Goto, WrittenInv, SuccessIsReusable
  <2> QED
    BY <1>1, <1>2, <2>1, <2>2, <2>3, <2>4, <2>5 DEF CreateKey, RunUnchanged, Goto, IInv, ChainInv
<1>3. CASE FillKey("enc_sm2", "fill_enc_sm2", "issue")
  <2>1. TypeOK'
    BY <1>3, FillKeyType DEF FillKey, RunUnchanged, Goto, IInv, ChainInv, TypeOK, KeyFiles, SavingEncryption, EncryptionSteps
  <2>2. CertsBelongToStoredKeys'
    BY <1>3, NoneIssuedYet DEF FillKey, RunUnchanged, Goto, IInv, ChainInv, TypeOK, CertsBelongToStoredKeys, Ours, Certs,
                                 KeyFiles, SavingEncryption
  <2>3. SavingInv' /\ HoldingInv'
    BY <1>1, <1>3 DEF FillKey, RunUnchanged, Goto, IInv, ChainInv, TypeOK, SavingInv, HoldingInv, StoresAre, KeyFiles,
                        SavingCA, SavingServer, SavingEncryption, Issuing
  <2>4. StoreInv'
    BY <1>1, <1>3, KeyFacts DEF FillKey, RunUnchanged, Goto, IInv, ChainInv, TypeOK, SavingInv, StoreInv, StoresAre,
                                  StoreFiles, KeyFiles
  <2>5. WrittenInv' /\ SuccessIsReusable'
    BY <1>3 DEF FillKey, RunUnchanged, Goto, WrittenInv, SuccessIsReusable
  <2> QED
    BY <1>1, <1>3, <2>1, <2>2, <2>3, <2>4, <2>5 DEF FillKey, RunUnchanged, Goto, IInv, ChainInv
<1>4. CASE SaveFails(SavingEncryption, {"enc_sm2"})
  <2>1. CertsBelongToStoredKeys'
    BY <1>4, NoneIssuedYet DEF SaveFails, IInv, ChainInv, CertsBelongToStoredKeys, Ours, Certs,
                                 KeyFiles
  <2> QED
    BY <1>4, <2>1, SaveFailsKeeps
<1> QED
  BY <1>2, <1>3, <1>4 DEF SaveEncryption

-----------------------------------------------------------------------------
(* Steps that write certificates. *)

\* The files of a certificate after a step that touched them: each is as it
\* was, torn, or the certificate the run issued.
LEMMA CertWrites ==
    ASSUME IInv, NEW c \in Certs, NEW here, NEW next,
           OpenCert(c, here, next) \/ WriteCert(c, here, next)
    PROVE  /\ certs' \in [Certs -> [Formats -> CertStates]]
           /\ \A f \in Formats : \/ certs'[c][f] = certs[c][f]
                                 \/ certs'[c][f] = TornCert
                                 \/ pc = here /\ WriteCert(c, here, next)
                                     /\ certs'[c][f] = Issued(c)
           /\ \A d \in Certs \ {c} : certs'[d] = certs[d]
           /\ UNCHANGED <<keys, loaded, mem>> /\ RunUnchanged
<1>1. certs \in [Certs -> [Formats -> CertStates]] /\ Issued(c) \in CertStates
  BY IssuedFacts DEF IInv, ChainInv, TypeOK
<1>2. CASE OpenCert(c, here, next)
  BY <1>1, <1>2, CertFacts DEF OpenCert
<1>3. CASE WriteCert(c, here, next)
  <2>1. PICK kept \in SUBSET Formats : certs' = [certs EXCEPT ![c] =
           [f \in Formats |-> IF f \in kept THEN Issued(c) ELSE TornCert]]
    BY <1>3 DEF WriteCert
  <2>2. certs' \in [Certs -> [Formats -> CertStates]]
    BY <1>1, <2>1, CertFacts
  <2>3. \A f \in Formats : certs'[c][f] = TornCert \/ certs'[c][f] = Issued(c)
    BY <1>1, <2>1
  <2>4. \A d \in Certs \ {c} : certs'[d] = certs[d]
    BY <1>1, <2>1
  <2>5. UNCHANGED <<keys, loaded, mem>> /\ RunUnchanged /\ pc = here
    BY <1>3 DEF WriteCert
  <2> QED
    BY <1>3, <2>2, <2>3, <2>4, <2>5
<1> QED
  BY <1>2, <1>3

\* What a run writes belongs to the keys in the stores.
LEMMA CertsStayOurs ==
    ASSUME IInv, NEW c \in Certs, NEW here \in Issuing, NEW next,
           c = "enc" => here \in EncryptionSteps,
           OpenCert(c, here, next) \/ WriteCert(c, here, next)
    PROVE  CertsBelongToStoredKeys'
<1>1. pc = here
  BY DEF OpenCert, WriteCert
<1>2. keys' = keys
  BY CertWrites
<1>3. /\ keys["ca_sm2"] = WholeKey(mem["ca"]) /\ keys["ca_dil"] = WholeKey(mem["ca"])
      /\ keys["srv_sm2"] = WholeKey(mem["srv"]) /\ keys["srv_dil"] = WholeKey(mem["srv"])
  BY <1>1 DEF IInv, ChainInv, HoldingInv, StoresAre
<1>4. c = "enc" => keys["enc_sm2"] = WholeKey(mem["enc"])
  BY <1>1 DEF IInv, ChainInv, TypeOK, HoldingInv
<1>5. ~Ours(TornCert)
  BY CertFacts DEF Ours
<1>6. /\ c = "root" => Issued(c).signer = mem["ca"] /\ Issued(c).key = mem["ca"]
      /\ c = "server" => Issued(c).signer = mem["ca"] /\ Issued(c).key = mem["srv"]
      /\ c = "enc" => Issued(c).signer = mem["ca"] /\ Issued(c).key = mem["enc"]
  BY IssuedFacts, CertFacts DEF IInv, ChainInv
<1>7. ASSUME NEW f \in Formats
      PROVE  /\ \/ certs'["root"][f] = certs["root"][f]
                \/ ~Ours(certs'["root"][f])
                \/ certs'["root"][f].signer = mem["ca"] /\ certs'["root"][f].key = mem["ca"]
             /\ \/ certs'["server"][f] = certs["server"][f]
                \/ ~Ours(certs'["server"][f])
                \/ certs'["server"][f].signer = mem["ca"] /\ certs'["server"][f].key = mem["srv"]
             /\ \/ certs'["enc"][f] = certs["enc"][f]
                \/ ~Ours(certs'["enc"][f])
                \/ /\ certs'["enc"][f].signer = mem["ca"] /\ certs'["enc"][f].key = mem["enc"]
                   /\ keys["enc_sm2"] = WholeKey(mem["enc"])
  BY <1>4, <1>5, <1>6, CertWrites DEF Certs
<1> QED
  BY <1>2, <1>3, <1>7 DEF IInv, ChainInv, CertsBelongToStoredKeys, Ours

\* Opening a certificate's files truncates them, or fails.
LEMMA OpenCertKeeps ==
    ASSUME IInv, NEW c \in Certs, NEW here \in Issuing, NEW next \in Issuing,
           OpenCert(c, here, next),
           \/ c = "root" /\ here = "open_root" /\ next = "write_root"
           \/ c = "server" /\ here = "open_server" /\ next = "write_server"
           \/ c = "enc" /\ here = "open_enc" /\ next = "write_enc"
    PROVE  IInv'
<1>1. CertsBelongToStoredKeys'
  BY CertsStayOurs DEF EncryptionSteps
<1>2. /\ certs' \in [Certs -> [Formats -> CertStates]]
      /\ \A d \in Certs \ {c} : certs'[d] = certs[d]
      /\ UNCHANGED <<keys, loaded, mem, lost>> /\ RunUnchanged /\ pc = here
  BY CertWrites DEF OpenCert
<1>3. Goto(next) \/ Fails
  BY DEF OpenCert
<1>4. TypeOK'
  BY <1>2, <1>3 DEF IInv, ChainInv, TypeOK, RunUnchanged, Goto, Fails, Leave, EncryptionSteps
<1>5. StoreInv'
  BY <1>2 DEF IInv, ChainInv, StoreInv
<1>6. CASE Goto(next)
  <2>1. SavingInv' /\ SuccessIsReusable'
    BY <1>6 DEF Goto, SavingInv, SuccessIsReusable, SavingCA, SavingServer, Issuing
  <2>2. HoldingInv'
    BY <1>2, <1>6 DEF IInv, ChainInv, RunUnchanged, Goto, HoldingInv, StoresAre,
                      SavingEncryption, Issuing
  <2>3. WrittenInv'
    BY <1>2, <1>6 DEF IInv, ChainInv, RunUnchanged, Goto, WrittenInv, Issued, Certs
  <2> QED
    BY <1>1, <1>2, <1>4, <1>5, <2>1, <2>2, <2>3 DEF IInv, ChainInv, RunUnchanged, Issuing
<1>7. CASE Fails
  BY <1>1, <1>4, <1>5, <1>7, LeavingKeeps DEF Fails, Leave
<1> QED
  BY <1>3, <1>6, <1>7

\* Writing them ends in the next certificate, in success, or in failure; only
\* a write that was lost leaves less than the certificate.
LEMMA WriteCertKeeps ==
    ASSUME IInv, NEW c \in Certs, NEW here \in Issuing, NEW next \in Issuing \cup {"idle"},
           WriteCert(c, here, next),
           \/ c = "root" /\ here = "write_root" /\ next = "open_server"
           \/ c = "server" /\ here = "write_server"
                /\ next = IF withEnc THEN "open_enc" ELSE "idle"
           \/ c = "enc" /\ here = "write_enc" /\ next = "idle"
    PROVE  IInv'
<1>1. CertsBelongToStoredKeys'
  BY CertsStayOurs DEF EncryptionSteps
<1>2. /\ certs' \in [Certs -> [Formats -> CertStates]]
      /\ \A d \in Certs \ {c} : certs'[d] = certs[d]
      /\ UNCHANGED <<keys, loaded, mem>> /\ RunUnchanged /\ pc = here
  BY CertWrites DEF WriteCert
<1>3. StoreInv'
  BY <1>2 DEF IInv, ChainInv, StoreInv
<1>4. CASE Fails /\ UNCHANGED lost
  <2>1. TypeOK'
    BY <1>2, <1>4 DEF IInv, ChainInv, TypeOK, RunUnchanged, Fails, Leave, EncryptionSteps
  <2> QED
    BY <1>1, <1>3, <1>4, <2>1, LeavingKeeps DEF Fails, Leave
<1>5. ASSUME ~(Fails /\ UNCHANGED lost)
      PROVE  IInv'
  <2>1. /\ lost' \in BOOLEAN /\ (~lost' => ~lost /\ certs'[c]["pem"] = Issued(c))
        /\ IF next = "idle" THEN Leave("success") ELSE Goto(next)
    <3>1. PICK kept \in SUBSET Formats :
             /\ certs' = [certs EXCEPT ![c] =
                  [f \in Formats |-> IF f \in kept THEN Issued(c) ELSE TornCert]]
             /\ lost' = (lost \/ kept # Formats)
             /\ IF next = "idle" THEN Leave("success") ELSE Goto(next)
      BY <1>5 DEF WriteCert
    <3>2. lost' \in BOOLEAN /\ (~lost' => ~lost /\ kept = Formats)
      BY <3>1, Zenon
    <3>3. kept = Formats => certs'[c]["pem"] = Issued(c)
      BY <3>1 DEF IInv, ChainInv, TypeOK, Formats
    <3> QED
      BY <3>1, <3>2, <3>3
  <2>2. TypeOK'
    BY <1>2, <2>1 DEF IInv, ChainInv, TypeOK, RunUnchanged, Leave, Goto, EncryptionSteps, Issuing
  <2>3. SavingInv'
    BY <2>1 DEF Leave, Goto, SavingInv, SavingCA, SavingServer, Issuing
  <2>4. HoldingInv'
    BY <1>2, <2>1 DEF IInv, ChainInv, RunUnchanged, Leave, Goto, HoldingInv, StoresAre,
                      SavingEncryption, Issuing
  <2>5. WrittenInv'
    BY <1>2, <2>1 DEF IInv, ChainInv, RunUnchanged, Leave, Goto, WrittenInv, Issued, Certs
  <2>6. SuccessIsReusable'
    <3> SUFFICES ASSUME pc' = "idle", password_callback(phraseOf'[run'])
                 PROVE  /\ KeysOpen'
                        /\ ~lost' => StoresAccepted' /\ (withEnc' => EncryptionAccepted')
      BY DEF SuccessIsReusable
    <3>1. ~lost' =>
          /\ certs'["root"]["pem"] = Issued("root")
          /\ certs'["server"]["pem"] = Issued("server")
          /\ withEnc => certs'["enc"]["pem"] = Issued("enc")
      BY <1>2, <2>1 DEF IInv, ChainInv, WrittenInv, Certs, Goto, Issuing
    <3>2. /\ keys["ca_sm2"] = WholeKey(mem["ca"]) /\ keys["ca_dil"] = WholeKey(mem["ca"])
          /\ keys["srv_sm2"] = WholeKey(mem["srv"]) /\ keys["srv_dil"] = WholeKey(mem["srv"])
          /\ withEnc => keys["enc_sm2"] = WholeKey(mem["enc"])
      BY <1>2 DEF IInv, ChainInv, HoldingInv, StoresAre
    <3>3. /\ keys["ca_sm2"].of = mem["ca"] /\ keys["srv_sm2"].of = mem["srv"]
          /\ keys["ca_dil"].of = mem["ca"] /\ keys["srv_dil"].of = mem["srv"]
          /\ withEnc => keys["enc_sm2"].of = mem["enc"] /\ keys["enc_sm2"].state = "whole"
          /\ \A f \in StoreFiles : keys[f].state = "whole"
      BY <3>2, KeyFacts, IssuedFacts DEF IInv, ChainInv, StoreFiles, KeyFiles
    <3>4. /\ Issued("root").state = "whole" /\ Issued("server").state = "whole"
          /\ Issued("root").key = mem["ca"] /\ Issued("root").signer = mem["ca"]
          /\ Issued("server").key = mem["srv"] /\ Issued("server").signer = mem["ca"]
          /\ Issued("enc").state = "whole"
          /\ Issued("enc").key = mem["enc"] /\ Issued("enc").signer = mem["ca"]
          /\ Issued("root").live /\ Issued("server").live /\ Issued("enc").live
      BY IssuedFacts, CertFacts DEF IInv, ChainInv
    <3>5. /\ phraseOf[mem["ca"]] = phraseOf[run] /\ phraseOf[mem["srv"]] = phraseOf[run]
          /\ withEnc => phraseOf[mem["enc"]] = phraseOf[run]
      BY <1>2 DEF IInv, ChainInv, HoldingInv
    <3>6. UNCHANGED <<keys, phraseOf, run, withEnc>>
      BY <1>2 DEF RunUnchanged
    <3>7. /\ \A f \in StoreFiles : Opens(f)'
          /\ withEnc => Opens("enc_sm2")'
      BY <3>3, <3>5, <3>6 DEF Opens, StoreFiles, KeyFiles
    <3>8. ~lost' => MatchesExisting(keys["ca_sm2"].of, keys["srv_sm2"].of)'
      BY <3>1, <3>3, <3>4, <3>6 DEF MatchesExisting, public_key_matches, readable
    <3>9. ~lost' => (withEnc => EncryptionAccepted')
      BY <3>1, <3>3, <3>4, <3>6, <3>7 DEF EncryptionAccepted, sm2_public_key_matches, readable
    <3> QED
      BY <3>6, <3>7, <3>8, <3>9 DEF StoresAccepted, KeysOpen
  <2> QED
    BY <1>1, <1>2, <1>3, <2>2, <2>3, <2>4, <2>5, <2>6 DEF IInv, ChainInv, RunUnchanged, Issuing
<1> QED
  BY <1>4, <1>5

LEMMA WriteCertsKeeps == IInv /\ WriteCerts => IInv'
<1> SUFFICES ASSUME IInv, WriteCerts
             PROVE  IInv'
  OBVIOUS
<1>1. CASE OpenCert("root", "open_root", "write_root")
  BY <1>1, OpenCertKeeps DEF Certs, Issuing
<1>2. CASE WriteCert("root", "write_root", "open_server")
  BY <1>2, WriteCertKeeps DEF Certs, Issuing
<1>3. CASE OpenCert("server", "open_server", "write_server")
  BY <1>3, OpenCertKeeps DEF Certs, Issuing
<1>4. CASE WriteCert("server", "write_server", IF withEnc THEN "open_enc" ELSE "idle")
  BY <1>4, WriteCertKeeps DEF Certs, Issuing
<1>5. CASE OpenCert("enc", "open_enc", "write_enc")
  BY <1>5, OpenCertKeeps DEF Certs, Issuing
<1>6. CASE WriteCert("enc", "write_enc", "idle")
  BY <1>6, WriteCertKeeps DEF Certs, Issuing
<1> QED
  BY <1>1, <1>2, <1>3, <1>4, <1>5, <1>6 DEF WriteCerts

LEMMA ExpireKeeps == IInv /\ Expire => IInv'
<1> SUFFICES ASSUME IInv, Expire
             PROVE  IInv'
  OBVIOUS
<1>1. ASSUME NEW c \in Certs, NEW f \in Formats
      PROVE  /\ certs'[c][f] \in CertStates /\ certs'[c][f].state = certs[c][f].state
             /\ certs'[c][f].key = certs[c][f].key
             /\ certs'[c][f].signer = certs[c][f].signer
             /\ ~certs'[c][f].live
  BY CertFacts DEF IInv, ChainInv, TypeOK, Expire
<1>2. certs' \in [Certs -> [Formats -> CertStates]]
  BY <1>1 DEF Expire
<1>3. TypeOK'
  BY <1>2 DEF IInv, ChainInv, TypeOK, Expire, RunUnchanged
<1>4. CertsBelongToStoredKeys'
  BY <1>1 DEF IInv, ChainInv, Expire, CertsBelongToStoredKeys, Ours, Certs
<1>5. SavingInv' /\ HoldingInv' /\ StoreInv' /\ WrittenInv'
  BY DEF IInv, ChainInv, Expire, RunUnchanged, SavingInv, HoldingInv, StoreInv, WrittenInv,
         StoresAre, SavingCA, SavingServer, SavingEncryption, Issuing
<1>6. SuccessIsReusable'
  BY <1>1 DEF IInv, SuccessIsReusable, KeysOpen, Opens, Expire, RunUnchanged, Certs, Formats
<1> QED
  BY <1>3, <1>4, <1>5, <1>6 DEF IInv, ChainInv, Expire, RunUnchanged

LEMMA StepInv == IInv /\ [Next]_vars => IInv'
<1>1. IInv /\ UNCHANGED vars => IInv'
  BY DEF vars, IInv, ChainInv, TypeOK, CertsBelongToStoredKeys, Ours, SavingInv, HoldingInv,
         StoreInv, WrittenInv, StoresAre, Issued, SuccessIsReusable, StoresAccepted,
         EncryptionAccepted, KeysOpen, Opens, MatchesExisting, public_key_matches, sm2_public_key_matches, readable
<1> QED
  BY <1>1, StartRunKeeps, InspectStoresKeeps, SaveCAKeeps, SaveServerKeeps, LoadStoresKeeps,
     InspectEncryptionKeeps, SaveEncryptionKeeps, LoadEncryptionKeeps, IssueInMemoryKeeps,
     WriteCertsKeeps, DieKeeps, ExpireKeeps DEF Next

LEMMA Invariant == Spec => []IInv
BY InitInv, StepInv, PTL DEF Spec

-----------------------------------------------------------------------------
(* Theorems *)

\* After every step of any sequence of runs, finished, failed or killed, a
\* certificate that tools/generate_demo_chain.c wrote carries keys that are
\* whole in the stores, and the CA key that signed it is too.
THEOREM ChainCorrect == Spec => []ChainInv
BY Invariant, PTL DEF IInv

\* main returns 0 only after it left keys and certificates, those for
\* encryption included, that the next run accepts: see SuccessIsReusable for
\* the three exceptions.
THEOREM SuccessReusable == Spec => []SuccessIsReusable
BY Invariant, PTL DEF IInv

\* Files that a step of a run can create, fill or unlink.
LEMMA WhoWritesKeys ==
    ASSUME IInv, Next
    PROVE  \/ keys' = keys
           \/ pc \in SavingCA \cup SavingServer
           \/ \A f \in StoreFiles : keys'[f] = keys[f]
<1>1. CASE SaveCA
  BY <1>1 DEF SaveCA, CreateKey, FillKey, SaveFails, SavingCA
<1>2. CASE SaveServer
  BY <1>2 DEF SaveServer, CreateKey, FillKey, SaveFails, SavingServer
<1>3. CASE SaveEncryption
  <2>1. keys \in [KeyFiles -> KeyStates]
    BY DEF IInv, ChainInv, TypeOK
  <2> QED
    BY <1>3, <2>1 DEF SaveEncryption, CreateKey, FillKey, SaveFails, StoreFiles
<1>4. CASE WriteCerts
  BY <1>4 DEF WriteCerts, OpenCert, WriteCert
<1>5. CASE StartRun \/ InspectStores \/ LoadStores \/ InspectEncryption \/ LoadEncryption
            \/ IssueInMemory \/ Die \/ Expire
  BY <1>5 DEF StartRun, InspectStores, LoadStores, InspectEncryption, LoadEncryption,
              IssueInMemory, Die, Expire, disk
<1> QED
  BY <1>1, <1>2, <1>3, <1>4, <1>5 DEF Next

\* While a run saves the CA and Server stores, one of their files is missing
\* or torn.
LEMMA SavingMeansPartial ==
    ASSUME IInv, pc \in SavingCA \cup SavingServer
    PROVE  \E f \in StoreFiles : keys[f].state # "whole"
<1>1. run \in Gens
  BY DEF IInv, ChainInv, TypeOK
<1> QED
  BY <1>1, KeyFacts DEF IInv, ChainInv, SavingInv, StoresAre, SavingCA, SavingServer,
                        StoreFiles, KeyFiles

\* Keys once stored whole are final: no later step of any run, its error paths
\* included, replaces or removes them.
THEOREM StoredKeysFinal == Spec => StoredKeysAreFinal
<1> DEFINE Kept == ca_status = "COMPLETE" /\ server_status = "COMPLETE"
                     /\ (\A f \in StoreFiles : keys[f].state = "whole")
                   => \A f \in StoreFiles : keys'[f] = keys[f]
<1>1. IInv /\ [Next]_vars => [Kept]_vars
  BY WhoWritesKeys, SavingMeansPartial DEF vars
<1> QED
  BY <1>1, Invariant, PTL DEF Spec, StoredKeysAreFinal

\* A run over stranded keys gets no further than comparing them.
StrandedRun == Stranded /\ pc \in {"idle", "stores", "load"}

LEMMA StrandedStep ==
    ASSUME IInv, StrandedRun, [Next]_vars
    PROVE  StrandedRun'
<1>1. ASSUME UNCHANGED disk
      PROVE  Stranded'
  BY <1>1 DEF StrandedRun, Stranded, Reusable, MatchesExisting, public_key_matches, readable,
              ca_status, server_status, status, disk
<1>2. CASE StartRun
  BY <1>1, <1>2 DEF StrandedRun, StartRun, Goto, Fails, Leave
<1>3. CASE InspectStores
  BY <1>1, <1>3 DEF StrandedRun, Stranded, InspectStores, Goto, Fails, Leave
<1>4. CASE LoadStores
  <2>1. ~(/\ \A f \in StoreFiles : Opens(f)
          /\ MatchesExisting(keys["ca_sm2"].of, keys["srv_sm2"].of))
    BY DEF StrandedRun, Stranded, Reusable, Opens
  <2> QED
    BY <1>1, <1>4, <2>1 DEF StrandedRun, LoadStores, StoresAccepted, Fails, Leave
<1>5. CASE Die
  BY <1>1, <1>5 DEF StrandedRun, Die, Leave
<1>6. CASE Expire
  <2>1. keys' = keys /\ pc' = pc
    BY <1>6 DEF Expire
  <2>2. ASSUME NEW c \in Certs
        PROVE  ~certs'[c]["pem"].live
    BY <1>6, CertFacts DEF IInv, ChainInv, TypeOK, Expire, Formats
  <2>3. ~Reusable'
    BY <2>2 DEF Reusable, MatchesExisting, Certs
  <2> QED
    BY <2>1, <2>3 DEF StrandedRun, Stranded, ca_status, server_status, status
<1>7. CASE UNCHANGED vars
  BY <1>1, <1>7 DEF StrandedRun, vars, disk
<1>8. ASSUME SaveCA \/ SaveServer \/ SaveEncryption \/ WriteCerts \/ InspectEncryption
               \/ LoadEncryption \/ IssueInMemory
      PROVE  FALSE
  BY <1>8 DEF StrandedRun, SaveCA, SaveServer, SaveEncryption, CreateKey, FillKey, SaveFails,
              SavingCA, SavingServer, SavingEncryption, WriteCerts, OpenCert, WriteCert,
              InspectEncryption, LoadEncryption, IssueInMemory
<1> QED
  BY <1>2, <1>3, <1>4, <1>5, <1>6, <1>7, <1>8 DEF Next

\* Fail closed for good: once a run ended with keys that match no whole,
\* unexpired chain, every later run refuses them and repairs nothing.
THEOREM StrandedStays == Spec => StrandedForever
<1>1. IInv /\ StrandedRun /\ [Next]_vars => StrandedRun'
  BY StrandedStep
<1>2. pc = "idle" /\ Stranded => StrandedRun
  BY DEF StrandedRun
<1>3. StrandedRun => (pc = "idle" => Stranded)
  BY DEF StrandedRun
<1> QED
  BY <1>1, <1>2, <1>3, Invariant, PTL DEF Spec, StrandedForever

=============================================================================
