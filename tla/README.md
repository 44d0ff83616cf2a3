# TLA+ models of hybrid-pqc-cert

This directory holds TLA+ specifications of hybrid-pqc-cert, TLC configurations
that check them on small instances, and TLAPS proofs for every instance.
`PROJECT.json` lists the runs, the source lines each definition stands for, the
hazards the properties are aimed at, and the theorems.

## The system

hybrid-pqc-cert is a C library with command line tools and a set of GmSSL patches:
experimental X.509 certificates signed by SM2 and Dilithium2 together
("Composite"), their use in TLCP, and two handshake experiments.

| Component | State it keeps | Operations | What is hard about it |
|---|---|---|---|
| Composite key store (`src/hybrid_key_store.c`) | a directory with two encrypted files, one per component key | save, load, status | two files, many system calls, any number of processes, no lock, power failures |
| SM2 store (same file) | a directory with one encrypted file | save, load, status | races on create, files left by dead processes |
| Chain generator (`tools/generate_demo_chain.c`) | three key stores, six certificate files | one `main`, run again and again | each run writes up to eleven files and may stop between any two |
| Composite X.509 (`src/hybrid_x509.c`) | none | issue, inspect, write and read files | in-place rewrite, ignored `fclose` |
| Verification (`src/hybrid_chain.c`) | none | root, signing, encryption certificate, chain | many independent checks, all needed |
| TLCP adapter (`src/tlcp_hybrid_cert_adapter.c`) | last report | verdict on DER, GmSSL callback | three-valued verdict decides about fallback |
| TLCP Composite certificates (patches 0002, 0003) | policy, chain and keys in `TLS_CTX`; hybrid flag and SM2 key in `TLS_CONNECT` | server's loader; Certificate, ServerKeyExchange, ClientKeyExchange | verified at one time and used at another, by both sides |
| PQ-PSK (patch 0004) | enable/require in `TLS_CTX`; offered, selected, negotiated in `TLS_CONNECT` | ClientHello, HelloRetryRequest, ServerHello, certificate states | negotiation over several messages, shared policy, peers of another make |
| PQKEX (patch 0001) | offered, selected, negotiated in `TLS_CONNECT` | encode, parse, select, ClientHello handler | strict lengths, repeated extensions |
| Capture demo (`tools/pqkex_capture_demo.c`) | parent, child, a listening port | one `main` with `fork` | blocking calls, anybody may connect |
| Composite signature (`composite_sig.c`, wrappers) | none | build message, sign, verify, serialise, parse | one encoding, both components, context bound |
| Composite keys (`composite_key.c`, `hybrid_sign.c`) | key and signature objects, shared `EVP_PKEY` | generate, parse, serialise, sign, verify, cleanup | ownership on every failure path |
| ML-KEM wrapper (`src/mlkem.c`, `tools/mlkem_demo.c`) | key pair and secret buffers | keygen, encaps, decaps, cleanup | secrets after failures, implicit rejection |
| `verify_chain`, `inspect_hybrid_cert`, `benchmark_composite_verify`, scripts | none that is read back | printing, timing, building | not modelled |

The generator uses both stores, the X.509 code and the verifier. The TLCP patch
calls the adapter through a callback, and the adapter calls the verifier. Stores
are shared between processes only through the file system. Nothing in the library
starts threads; a `TLS_CTX` is shared by the connections made from it.

What makes each part correct:

* **key stores**: key generations never mix on disk; a save that returned 1 is not
  undone or replaced while the power stays on; a partial or torn store stays
  refused; a load returns a key that was stored; races do not make everybody fail;
* **generator**: certificates on disk always belong to the keys in the stores; a
  successful run can be repeated; no run replaces stored keys; an inconsistent key
  root is refused for good;
* **TLCP**: the Composite path accepts only what the CA issued, even with one
  component algorithm broken; the premaster secret goes to the configured host and,
  while SM2 is sound, to the party that signed;
  strict mode never falls back; compatible mode falls back only for what is not
  Composite (findings below); what a server could load, its clients can use;
* **PQ-PSK**: required means negotiated, negotiated means external PSK, DHE and
  certificate; peers agree; matching peers do negotiate; falling back is only for
  want of an identity;
* **PQKEX and its demo**: exactly the encodings of lists are accepted; PASS needs
  both processes; the parent ends;
* **Composite signatures**: what verifies was signed, for that key, message and
  context, and there is one encoding of it;
* **objects**: no reference or block too many or too few, and a failed call leaves
  neither a half-changed key nor an old result.

## Modules

| Module | Models | Kind |
|---|---|---|
| `KeyFile` | private key files, passphrases, the calls on a store | constants |
| `KeyStore`, `MCKeyStore` | Composite key store | state machine |
| `KeyStoreEnvironment` | the same calls over power failures, or while nothing fails of its own accord | fair specification, extends `KeyStore` |
| `KeyStoreProof` | theorems about both | TLAPS |
| `WriteOnce` | what a key store promises | abstract specification |
| `Sm2KeyStore`, `MCSm2KeyStore` | SM2 store, refines `WriteOnce` | state machine |
| `Sm2KeyStoreProof` | its theorems | TLAPS |
| `DemoChain` | chain generator over repeated runs | state machine |
| `DemoChainProof` | its theorems | TLAPS |
| `HybridCert` | symbolic certificates, issuing, verification, adapter verdict | operators |
| `TlcpCertificate` | TLCP client with the Composite callback | state machine, extends `HybridCert` |
| `TlcpHandshake` | that client against the network, and against the server's loader in whole handshakes | composition, extends `TlcpCertificate` |
| `TlcpHandshakeProof` | theorems about client, network and server | TLAPS |
| `PqPsk`, `MCPqPsk` | TLS 1.3 client and server with PQ-PSK | state machine |
| `PqPskProof` | its theorems | TLAPS |
| `PqKex` | PQKEX extension: encode, parse, select, handler | operators |
| `CaptureDemo`, `MCCaptureDemo` | the capture demo and the TLCP server's extension loop | state machine, extends `PqKex` |
| `CaptureDemoProof` | theorems about parser and processes | TLAPS |
| `CompositeSig` | Composite signing and verification on bytes | state machine |
| `CompositeKey` | life of key and signature objects | state machine |
| `CompositeProof` | theorems about signatures and objects | TLAPS |
| `MlKem` | ML-KEM wrapper and its demo | state machine |
| `MlKemProof` | its theorems | TLAPS |
| `MCCrypto` | the last three state machines side by side | instance for TLC |

Definitions whose comment starts with "Mutant" are wrong variants of the
definition that follows them. They are not part of any specification; each
property is seen to fail when the variant takes the definition's place.

### KeyStore, KeyStoreEnvironment

A call of `hybrid_key_store_save` or `_load` is a process; its `pc` names its next
system call. One action is one system call on the shared directory (or a piece of
code between two of them), so calls interleave at exactly the points where the
kernel lets them. Every system call that writes, reads, syncs or closes has a
failing branch, so has every `unlink` (whose result no caller looks at), and `Crash`
may stop a call anywhere. `unlinkFailed` remembers that an unlink failed: from then
on a file that should be gone may stand beside another save's, and `NeverMixed` and
`OnlyWithdrawnKeysMix` say nothing more, while `SavedNeverReplaced` still holds. A
key file is absent, torn or whole, and carries the name of the save whose key it
holds; that name is all the cryptography the properties need. `Decrypts` stands for
PBES2 and AES-256-GCM: a whole file and the passphrase it was written with. The
PKCS#8 file is read through `password_callback`, which refuses a passphrase that
does not fit the reader's buffer (`LongPassphrases`), though it was good enough to
save with. `keypair_self_test` compares each private part with the public part of
the same component, which is why it cannot notice two mixed generations.

| Source | Actions |
|---|---|
| `passphrase_valid`, `keypair_self_test` of save | `CheckArguments` |
| `ensure_private_directory` | `LstatDirectory`, `MakeDirectory` |
| `hybrid_key_store_status` | `AccessSm2`, `AccessDilithium` |
| `save_sm2_private_key` | `OpenSm2`, `WriteSm2`, `SyncSm2`, `DiscardSm2` |
| `save_dilithium_private_key` | `EncryptDilithium`, `OpenDilithium`, `WriteDilithium`, `SyncDilithium`, `DiscardDilithium` |
| `done:` of save | `CleanupSm2`, `CleanupDilithium` |
| load | `LoadSm2`, `LoadDilithium`, `SelfTest` |

`KeyStoreEnvironment` puts the same calls into one of two environments, chosen at
the start. In the calm one only those steps are taken whose
failure the code forces: EEXIST and the checks that refuse (`Refused`). It asks what
the races alone can do. The other one adds the directory as it is on disk. The code
fsyncs files and never the directory, so names reach the disk when the kernel writes
them (`WriteBack`) and a `PowerLoss` goes back to that. It assumes a file system
that writes names in the order they changed; without that, files of two generations
could be found together. Calls in that environment use `OutagePassphrases`, a bound
for TLC: nothing asked there is about a passphrase, and the theorems hold for any.

Left out: other programs writing to the directory, symbolic links and file modes
(the lstat checks refuse them).

### Sm2KeyStore and WriteOnce

The same style for the single-file store of the TLCP encryption key. `WriteOnce`
says what a store should be: one key, stored at most once and for good, given to
every later reader. The refinement maps the save that returned 1 to `stored` and
what loads returned to `given`. A failed `unlink` leaves the file where it is, which
`LeftoverIsFinal` includes. The Composite store is no write-once store in
this sense: see the run `keystore_saved_stays`.

### DemoChain

One run of `generate_demo_chain` after the other over the same key root and
certificate files. The state is what is on disk: five key files, and three
certificates in two formats, each naming the run whose key it carries and the run
whose CA key signed it. The key stores are seen as a single process sees them;
concurrent writers are the subject of `KeyStore`. `StartRun`, `InspectStores`,
`SaveCA`, `SaveServer`, `LoadStores`, `InspectEncryption`, `SaveEncryption`,
`LoadEncryption`, `IssueInMemory` and `WriteCerts` follow `main` in order; `Die`
stops a run anywhere and `Expire` lets a year pass between runs. Generation 0
stands for material of an earlier time: the certificates shipped in `certs/` whose
keys nobody has, and an encryption key that was kept when the other two
directories were removed. `StoresAccepted` and `EncryptionAccepted` are the checks a
run makes of what an earlier one left; `SuccessIsReusable` says in their words that
a successful run leaves what they accept. `lost` records that `fclose` lost a write,
which the run cannot know of: the certificate is then refused by the next run, while
the private keys open. A failing save is
taken to remove its files, as it does unless `unlink` fails.

### HybridCert, TlcpCertificate, TlcpHandshake

A certificate is a record of what the checks look at, built by operators named
after the C functions (`build_server_extensions`, `make_tbs`, `sign_tbs`). A
component signature is the party whose key made it and whether it fits the TBS as
it stands. The host name is compared with the SAN (`X509_check_host`), not with the
subject. The verification functions are predicates. The client has one action
for each outcome of the Certificate message, one for ServerKeyExchange and one for
ClientKeyExchange. What arrives is a pair the CA issued (possibly of two different
servers) or a conventional SM2 pair, after up to `MaxEdits` changes: a TBS field,
the outer algorithm, the signature encoding, damage that breaks decoding, or a
component signature made anew. At most one component algorithm is unsound; its
signatures can then be made by anybody. That includes the signature of
ServerKeyExchange, which is SM2 alone: when SM2 is unsound anybody can have signed
it, and what is left of the promise is that the premaster secret is encrypted to
the certified key of the configured host.

`TlcpHandshake` chooses the peer at the start. With `server = "network"` it is
the one above. Otherwise it is a server that runs this code. Its context is the
chain buffer: `entries` up to `len` count, and the next place holds whatever file
was read last. A loader reads the file there first and checks it afterwards, so a
refused load (`Refuse`) leaves the file behind without counting it. The Composite
loader wants an empty context and a callback, which can be set at any time; the
ordinary one adds to what is there. Then clients of every configuration connect one
after the other and are served one of the entries, while the server's certificates
(`Expire`) or the client's trust anchor (`ExpireRoot`), valid when the client is set
up, may expire. The chain is
verified twice, once by the loader and once by each client, at different times and
with different parameters: what those verdicts have to do with each other is what
the run asks.

External and therefore nondeterministic: the original GmSSL verifier
(`tls_cert_chain_verify`) may accept or refuse whatever it is given, and which of
several loaded chains the server sends. Only the ECC
key exchange is modelled, where the premaster secret is encrypted to the second
certificate.

### PqPsk

One connection, one action per handler of `tls13_do_client_handshake` and
`tls13_do_server_handshake`, two FIFO streams. The configuration (PSK list with
suites, keys the server holds, PSK modes, certificate, whether the server retries)
is chosen at the start, from one of the `Scenarios` of `MCPqPsk`; the policy of
either `TLS_CTX` may change between two handlers (`SetPolicy`). A binder is the PSK
it was computed with, a Finished is the secrets that go into the key schedule, so it
verifies exactly when both sides mixed in the same. `OddClient` and `OddServer` are
peers that do not run this code: they send any hello, certificate or Finished that
the secrets they hold allow. The parts of the GmSSL state machine the patch does not
show are external.

### PqKex and CaptureDemo

Extension data are byte sequences and the parser works on them, because its
properties are about lengths. The handler keeps its verdict in the connection and
is called once for each extension. `CaptureDemo` has the parent and the child
process, a listening queue, and a stranger who may connect first and send any
short hello, one whose extension block is malformed, a record that is no TLCP
ClientHello, or nothing. The receiver is the demo's own loop, or the patched TLCP
server, which answers with an alert. `waitpid` may fail.

### CompositeSig, CompositeKey, MlKem

`CompositeSig` computes on bytes: message framing, the DER of the SM2 signature with
its near misses, the fixed-length split of a Composite signature. The component
algorithms are symbolic: a signature names its key, its message and the nonce it was
made with, so that signing the same arguments twice gives different bytes, any of
which verifies. The integers of an SM2 signature are the nonce and a number that
stands for key and message (`Sm2Scalar`). Signers call `composite_sign`
(`SignCall`), and then a verifier is handed something put together from what they
made (`VerifyCall`): the Dilithium part of one signature, whole or a byte short, and
a tail made from the SM2 part of the same or another, with long length forms, sign
bytes too many or too few, zero or nothing for an integer, a byte more or less.
`CompositeKey` is about ownership: reference counts of `EVP_PKEY`s, blocks behind a
`HYBRID_SIGNATURE`, and which halves stand in which object, over any sequence of
calls with a failure at any point of each. The bytes that are parsed are those the
caller serialized, or `ForeignKeys`: keys somebody else put together, of halves that
need not belong together, which `composite_parse_public_key` accepts. `MlKem` does
the same for the KEM wrapper, with a provider that may fail after writing any of its
outputs, altered ciphertexts, and FIPS 203's implicit rejection. What a failing call
wrote to a secret is cleansed before it returns; what was written to a key stays in
freed memory unless it is freed securely (`freed`). The three share no state.
`MCCrypto` starts them together and lets each one move while the other two are in
their initial states, which covers what each can do.

## Runs

| Run | Instance | Distinct states | Shows |
|---|---|---|---|
| `keystore` | 3 saves, 1 load, 2 good passphrases, one of them long, and 1 short one | about 918 000 | all key store properties and the inductive invariant |
| `keystore_saved_stays` | 2 saves, 1 load | stops early | **violation**: a losing save deletes the winner's container |
| `keystore_load_mixes` | 2 saves, 1 load | stops early | **violation**: a load returns halves of two keys |
| `keystore_environment` | 2 saves, 1 load; 2 power failures, or nothing fails of its own accord, fair | about 734 000 | no mixing, lost keys are visibly lost, the lock survives; races alone never make every save fail, except to a load that creates the directory; an undisturbed load succeeds |
| `sm2_store` | 3 saves, 2 loads | about 347 000 | refinement of `WriteOnce`; leftovers untouched |
| `demo_chain` | 3 runs, 2 passphrases, one of them long | about 470 000 | consistency of keys and certificates across runs |
| `tlcp` | 2 alterations, or a server with 1 connection and room for 2 chains, fair | about 804 000 | acceptance, pairing and downgrade rules; what is served was accepted, keys fit, a loaded chain serves its clients, expiry is noticed |
| `tlcp_malformed_falls_back` | 1 alteration | stops early | **violation**: undecodable Composite certificate falls back |
| `pqpsk` | three scenarios (below), fair | about 752 000 | agreement, nobody ends with less than it recorded or requires, no needless fallback, termination, negotiation |
| `capture_demo` | every extension of up to 6 bytes and some longer, fair | about 31 000 | parser, verdict, alerts, what PASS means, termination |
| `capture_stranger` | the same | stops early | **violation**: PASS for a stranger's hello |
| `crypto` | 2 keys, 2 messages, 2 nonces, contexts of 0 to 2 bytes with maximum 1, 2 signatures; 2 private and 2 public objects, 4 `EVP_PKEY`s, 2 mixed keys; 3 ML-KEM key pairs, 3 encapsulations | about 1 130 000 | verified means signed, one encoding, contexts bind; references, blocks, halves, failures; secrets and buffers |

The scenarios of `pqpsk` are two peers that run this code with 5 PSK lists, 6 key
sets and 3 mode sets; two such peers whose policies change twice during a handshake
with HelloRetryRequest; and one peer of another make.

Properties that say one thing together are checked under one name: `AgreementInv`,
`ConnectionInv`, `ObjectInv`, `KemInv`, `ChainInv`, `ProcessesInv`,
`VerdictIsRight`, `PowerLossIsSafe`, `CalmCallsSucceed`, `ServesWhileValid` and
`ConfigurationDecides` are conjunctions of the properties named in their
definitions and, where a proof needs them, of what makes them inductive; so is
`IInv`.

Bounds. Three saves are one that owns the directory, one that is late from the same
generation, and one that starts after the first has withdrawn; the proofs lift the
bound. Two power failures are one that loses a stored key and one that strikes the
save that follows. Three generator runs are a first run that stops anywhere, one
that reacts to what it left, and one that reacts to that. Two alterations are enough
to repair one signature after changing a field while the other stays wrong, and to
touch both certificates. One connection comes before or after expiry and another
callback, and `Connect` sets every field a later one would read; two chains are a
Composite one and an ordinary one behind it, or one that is refused behind it. Two signatures are two of one message whose parts can
be exchanged, or two of different ones. The PSK lists have an entry of another suite
in front of the right one (so that HelloRetryRequest shifts the index), two usable
identities, a ticket, and a ticket behind an external PSK. Two policy changes can
switch off and on between the two hellos. Contexts reach one byte past the maximum;
extension data go one entry past the maximum count. Four `EVP_PKEY`s let each object
be replaced by generation and by parsing.

Symmetry is used for the calls of `keystore` and `sm2_store`, which no action tells
apart; the properties of those runs are invariants and step
properties. Deadlock is not checked: calls, runs, handshakes and a verification end,
and that they end as they should is what the liveness properties say.

Fairness. Four specifications assume weak fairness, and nothing stronger.

* `PqPsk!FairSpec`: the application calls `tls13_do_client_handshake` and its
  server counterpart until they return, and TCP delivers what was sent. Nobody is
  made to change a policy, and a peer of another make may fall silent.
* `CaptureDemo!FairSpec`: parent and child are processes of one kernel. Nothing
  makes the stranger go on, and `EndsOnceConnected` does not promise what the code
  does not: the parent waits in `accept` forever when its child fails before it
  connects, and in `tls_recv_record` when a silent stranger was first.
* `KeyStoreEnvironment!EnvSpec`: every calm call runs on. None waits for another, so each
  ends after a bounded number of its own steps.
* `TlcpHandshake!HandshakeSpec`: each peer takes the next step of a handshake it
  is in with a server that runs this code. Loading, expiry, new connections and
  what anybody does on the network are not forced.

`StrandedForever` of `DemoChain` has nested boxes; it says that something never
changes again and needs no fairness.

### Findings

1. `keystore_saved_stays`. `docs/security.md` (lines 50-51): writes use exclusive
   create, and on failure the incomplete files are deleted. A save that loses the
   race on the SM2 file also unlinks the Dilithium2 path, which may be the complete
   container of the save that won. That save returned 1, and the store is now
   INCOMPLETE for good. What still holds is proved: the SM2 file stays
   (`SavedNeverReplaced`) and generations do not mix (`NeverMixed`).
2. `keystore_load_mixes`. `docs/security.md` (lines 45-47): the self-test after
   decryption confirms that the component keys are a pair. It compares each component
   with itself. A load that reads the SM2 file of a save that then fails and withdraws
   it, and the container of the save that follows, returns 1 with halves of two keys.
   What still holds is proved: the SM2 half is that of the save that withdrew
   (`OnlyWithdrawnKeysMix`).
3. `tlcp_malformed_falls_back`. `docs/tlcp-hybrid-certificate.md` (lines 45 and
   76-77): a recognized Composite certificate that is malformed is INVALID and
   closes the connection. `tlcp_hybrid_cert_verify_der` does recognize undecodable
   bytes by their OID, but the callback hands it length 0 in that case, so the
   verdict is NOT_APPLICABLE. Strict mode still closes the connection
   (`StrictNeverDowngrades`); in compatible mode the original verifier decides.
4. `capture_stranger`. `tools/pqkex_capture_demo.c` (line 258) prints that the vector
   FF02000400020001 was sent and selected, and `docs/pqkex-capture.md` (lines 82-85)
   says what a successful capture proves. When a stranger connects first, what was
   sent and what was selected are two different hellos. What still holds is proved:
   the child did send its hello, and the selected one advertises ML-KEM-768
   (`ProcessesInv`).

Other things the models show are part of the properties' conditions instead of runs
of their own:

* `hybrid_key_store_load` creates a missing directory, so a load can make every
  concurrent first save fail with EEXIST (`SomeSaveSucceeds`).
* A save that returned 1 can be gone after a power failure (`LossIsVisible`).
* `docs/security.md` (lines 37 and 54) gives passphrases a minimum length only, and
  says later runs load what the first one generated. A passphrase longer than the
  buffer of OpenSSL's PEM reader is accepted by save and refused by every load, so
  `QuietLoadSucceeds` and `SuccessIsReusable` ask for `password_callback`.
* `hybrid_x509_write_files` ignores the results of `fclose`, so the generator may
  report a certificate as written whose last bytes are lost. `SuccessIsReusable`
  promises only the private keys then.
* `docs/tlcp-hybrid-certificate.md` (lines 79-80): only conventional dual-SM2 chains
  that do not use the experimental profile may take the original path. The adapter
  recognizes the profile by the two signature algorithms alone, so a certificate with
  a Composite public key and SM2 signatures takes it too. It is the decodable sibling
  of finding 3; no property claims otherwise.

## Proofs

TLC checks each invariant on the instance of its run; the theorems state it for
every value of the constants. The numbers that bound a run (`MaxLosses`, `MaxEdits`,
`MaxConnections`, `MaxChains`, `MaxKeys`, `MaxCiphertexts`, `MaxObjects`, `MaxRuns`,
the policy changes of a scenario) are any naturals in the theorems. `IInv` of the
key stores, `ChainInv`, `ConnectionInv`, `ObjectInv` and `AgreementInv` are
inductive invariants (with `SuccessIsReusable` and `SignatureIsCurrent` beside the
second and the fourth), so the runs check what the proofs rest on as it stands.

`KeyStoreProof`, for any sets of saves, loads and passphrases. Assumption: saves and
loads are different calls, `NoKey` is no call and a long passphrase is a good one
(`KeyStoreAssumption`). The argument is that the SM2 file works as a lock. `O_EXCL`
gives it to one save, and only that save's own failure path releases it. `IInv` says
who owns it (`LockInv`), how far the two files have got at each step of the owner
(`ProgressInv`), that only finished calls have results (`ResultInv`) and how what a
load has read relates to the saves (`LoadInv`). `NeverMixed` alone is not inductive:
it takes the lock to know that the owner of the SM2 file is the only one to create a
container, and the order of the unlinks to know that no container is left when the
lock is released. Proved from `IInv`: `KeyGenerationsNeverMix`,
`StoredKeyNeverReplaced`, `MixedKeysWereWithdrawn`, and the step properties
`OwnerUnlinksSm2` and `PartialStoreStays`. A failed unlink costs the first and the
third their conclusion (it leaves a container beside the next save's SM2 file), not
the others.

The same module proves `KeyStoreEnvironment`, for any number of power failures, calm
or not. A power failure takes names back, so most of `IInv` is lost: the lock of a
save that returned 1 may be gone, and another save may then take it. `EnvInv` is
what remains. A running save that holds the directory finds its own SM2 file there,
a file of a save that returned 1 is whole wherever its name turns up (`FileInv`),
the names on disk were never mixed at whatever moment they were written (`DiskInv`),
and no save returned 1 before both files were fsynced (`SyncInv`). `PowerLossSafe`
and `NeverMixedAcrossLosses` follow.

`Sm2KeyStoreProof`, under the assumption of `KeyStoreProof`: `InvariantHolds` (the
creator owns the file), `Sm2StoreIsWriteOnce` (refinement of `WriteOnce`: a
successful fsync and close is the Store step, a successful read is the Give step,
everything else stutters; uniqueness of the stored key comes from ownership),
`LeftoverStays`.

`DemoChainProof`, for any number of generator runs. `ChainInv` relates the files to
the point a run has reached: which of the stores it has written (`SavingInv`),
which keys it holds in memory (`HoldingInv`), what stores and certificates of
earlier runs can look like (`StoreInv`, `WrittenInv`). `CertsBelongToStoredKeys`
needs all of it, since a certificate is written long after the keys it carries.
`ChainCorrect`, `SuccessReusable`, `StoredKeysFinal`, and `StrandedStays`, which
has nested boxes: keys without a matching chain are stable under `Next`.

`TlcpHandshakeProof`, for any number of alterations and connections, over the
composition of client, network and loading server. `ConnectionInv` says that a
certificate the CA did not issue lacks its signature by some sound component
algorithm (`CertificatesInv`), that every entry of the context that counts was
accepted when it was loaded and has its private keys (`EntryOK`, `ContextInv`), a
refused file being none of them, and what the client has found out about the chain
by the time it acts on it (`ClientInv`). The hard step is an alteration: none turns
a certificate into one that both components vouch for, as long as one of them is
sound. From it follow `HybridChainIsIssued`, `SecretGoesToSigner`, `NoDowngrade` and
the step property `AcceptanceIsFresh` (`NoStaleAcceptance`, the safety half of
`ServesWhileValid`).

`CompositeProof`, first about signatures, for any number of signing calls.
Assumption `SigAssumption`: keys, messages, nonces and context bytes are numbers,
and the limit on contexts fits the length byte (it is 255 in the code), so that the
byte is the length. Assumption `ScalarAssumption`: `Sm2Scalar` is positive and tells
keys and messages apart, which is what SM2's being unforgeable comes to here. Three
facts about bytes carry it. `d2i_ECDSA_SIG` reads back what was encoded, whatever
the length forms, and leaves what follows (`ElementRead`, `DerRead`). Of all the
tails around an SM2 signature `sm2_signature_der_is_valid` lets one through, the one
it was made from (`ContentsRight`, `InvalidDer`, `ValidTail`): long forms differ
from their own re-encoding, a needless sign byte does not decode, a missing one
makes the integer negative, and with a Dilithium part one byte short the tail does
not begin with a SEQUENCE. The Dilithium part names the key, the message and the
whole context, since the length byte says where the context ends (`DilithiumBytes`,
`DilithiumNames`), and so does the SM2 part (`Sm2Names`). `SigInv`, that every
issued signature is one its arguments make under some nonces, together with the
three properties, is then inductive. The two components that verify need not come
from one call: signing is randomised, and the Dilithium2 part of one signature and
the SM2 part of another for the same key, message and context do verify together.
The theorems say that this is all the freedom there is. `OneEncodingHolds`,
`VerifiedWasSigned`, `SigningWorks`. `Numbers`, the value of a string of digits, is
a recursive function; that it computes what its definition says is proved with a
least counterexample (`NumbersExist`, `NumbersRecurse`), which is all the induction
over data there is: contents of integers have at most three bytes.

Then about objects, for any finite sets of them (`ObjectsAssumption`).
Reference counts are cardinalities of the sets of objects that point to an
`EVP_PKEY`. The proof counts: storing a pointer in an object changes the count of
the old and the new target by one each, and every path of the code, cleanup on
failure included, is a sequence of such changes that matches its
`EVP_PKEY_up_ref`s and frees. Halves that do not belong together come in only as
`ForeignKeys` (`SerializedKnown`). `PointersMade` (no object points past the last
`EVP_PKEY` made) is what the induction needs in addition. `ObjectsCorrect`,
`SignatureCurrent`, `FailureKeepsKeys`.

`MlKemProof`, for any number of key pairs and encapsulations: `KemCorrect` and
`MatchIsOneExchange`, from `ExchangeInv`, which says what is in the buffers after
a call of each outcome, whatever the provider wrote before it failed.

`PqPskProof`, for any set of identities, any scenarios over them and every message
of a peer of another make. Assumption `PqPskAssumption`: identities are neither
tickets nor "none", and the scenarios consist of PSK lists, key tables, mode sets
and peers. `AgreementInv` has two halves. One is about the connections: what
either has decided (`ClientDecision`, `ServerDecision`) and what it has seen by the
state it is in (`ClientProgress`, `ServerProgress`). The other is about the streams
(`StreamsInv`): a record on its way says what its sender has decided and will not
decide again, and a peer of another make can send no CertificateVerify or Finished
beyond its secrets. That is why agreement survives HelloRetryRequest, where the
two sides may pick different list entries: a Finished of the wrong PSK is refused.
Each step then needs only its own half (`ClientMoves`, `ServerMoves`).
`tls13_client_hello_again_psk_update` is a recursive function; that it keeps
entries and makes none up is proved with a least counterexample
(`PrefixesExist`, `UpdateKeepsEntries`). Proved: `PeersAlwaysAgree`,
`OfferedClientAuthenticates`, `NegotiatedIsHybrid`, `StrictStaysStrict`,
`FallbackIsMismatch`. The attempt found a flaw of the model, not of the code:
`ServerMode`, `PskSelections` and `KeyExchange` were CASE expressions with
overlapping guards. TLC takes the first that holds; TLA+ leaves the choice open,
and with another choice the peers do not agree. They are now nested conditions in
the order of the code's `else if`s.

`CaptureDemoProof`, for any hellos a stranger may send. Assumption
`StrangerAssumption`: a hello is a list of extensions whose data are bytes. The
verdict is about one function and one loop. The function: `tls_pqkex_from_bytes`
accepts a byte string of any length exactly when `tls_pqkex_ext_to_bytes` writes it
for some list, and returns that list (`StrictParsing`); writing and reading a list
are not recursive, entry k stands at byte 2k + 1, so no induction is needed. The
loop: `ParseInv` says that what the connection has recorded is the summary of the
extensions parsed so far, which are the hello without the rest. The remaining parts
of `DemoInv` say what is on the wire (`WireInv`), who waits in the listening queue
(`BacklogInv`) and how far parent and child can be apart (`ControlInv`).
`VerdictRight` and `ProcessesEndTogether` follow.

Only model-checked: liveness under fairness, which the prover cannot do. These are
`CalmCallsSucceed`, `LoadedChainServes` of `ServesWhileValid`, `HandshakeEnds`,
`ConfigurationDecides` and `EndsOnceConnected`. Every invariant and every step
property that a passing run checks is a theorem.

No module declares a RECURSIVE operator.

## What is left out

Modelled: every component of the table except the last row.

Not claimed: that the Composite key store implements `WriteOnce`, as the SM2 store
does. It does not: see `keystore_saved_stays` and `keystore_load_mixes`. Nor that the
capture demo always ends: its parent blocks in `accept` when the child fails before
it connects and in `tls_recv_record` on a silent stranger, and `EndsOnceConnected`
leaves both out by its condition.

Left out of modelled handlers, because nothing depends on it: the adapter's refusal of
a NULL configuration (`tlcp_hybrid_cert_adapter.c`, lines 251-253), which no caller
that registered the callback with its argument meets; the test of
`supported_groups_cnt` (patch 0004, line 419) and the `signature_algorithms` check of
a ClientHello (lines 743-744), which refuse a configuration or a hello no scenario has
and lead to the same error exit as the tests beside them. `DemoChain` does not repeat
the failing unlinks of `KeyStore`, nor concurrent runs.

Not modelled: SM2, Dilithium2 and ML-KEM themselves; DER beyond
the SM2 signature, and OpenSSL's encoders; ECDHE suites of TLCP; `verify_chain` and
`inspect_hybrid_cert`, which read a file, call one modelled function and print its
report; `benchmark_composite_verify`, a timing harness around `composite_verify`
whose results are mostly floating point and which writes two files nothing reads
back; the text the tools print; build files and scripts.
