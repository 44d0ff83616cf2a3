-------------------------- MODULE KeyStoreEnvironment -------------------------
(***************************************************************************)
(* The Composite key store in two environments.                            *)
(*                                                                         *)
(* Calm: no call dies, and a system call fails only because of what        *)
(* another call did to the directory.  What is left is the races between   *)
(* first calls.                                                            *)
(*                                                                         *)
(* Otherwise: a file system that loses what was not synced when the power  *)
(* fails.  save_*_private_key fsyncs the file it wrote and never the       *)
(* directory, so names appear on disk when the kernel gets to it, even     *)
(* after save has returned 1.  Assumed of the file system: the names on    *)
(* disk are the ones of some earlier moment, and the content of a file     *)
(* that was fsynced is whole wherever its name survives.                   *)
(***************************************************************************)
EXTENDS KeyStore, Naturals

CONSTANTS
    MaxLosses,          \* bound on the power failures
    OutagePassphrases   \* the passphrases of calls that power failures may hit

ASSUME EnvironmentAssumption == MaxLosses \in Nat /\ OutagePassphrases \subseteq Passphrases

VARIABLES
    calm,       \* which of the two environments it is
    onDisk,     \* the directory as the kernel last wrote it
    synced,     \* the files whose content was fsynced, as kind and call
    losses      \* power failures so far

envVars == <<vars, calm, onDisk, synced, losses>>

EnvInit ==
    /\ Init
    /\ calm \in BOOLEAN
    /\ onDisk = [dir |-> dir, sm2 |-> Absent, dil |-> Absent]
    /\ synced = {} /\ losses = 0

-----------------------------------------------------------------------------
(* Steps of a call. *)

Step(c) == \/ CommonStep(c)
           \/ c \in Savers /\ SaverStep(c)
           \/ c \in Loaders /\ LoaderStep(c)

\* The steps of a call that has failed.
Failing(c) == \/ pc[c] \in {"discard_sm2", "discard_dil", "cleanup_sm2", "cleanup_dil"}
              \/ result[c] = "fail"

\* Whether the code leaves the call nothing but to fail here: EEXIST of mkdir
\* and of the exclusive creates, and the checks that refuse.
Refused(c) ==
    CASE pc[c] = "mkdir"      -> dir # "absent"
      [] pc[c] = "access_dil" -> LET seen == status(sm2Seen[c], Exists(dilFile))
                                 IN seen # IF c \in Savers THEN "MISSING" ELSE "COMPLETE"
      [] pc[c] = "open_sm2"   -> Exists(sm2File)
      [] pc[c] = "open_dil"   -> Exists(dilFile)
      [] pc[c] = "read_sm2"   -> ~(Decrypts(sm2File, c) /\ password_callback(pass[c]))
      [] pc[c] = "read_dil"   -> ~Decrypts(dilFile, c)
      [] pc[c] = "self_test"  -> ~keypair_self_test(loaded[c])
      [] OTHER                -> pc[c] \in {"call", "lstat"} \/ Failing(c)

\* A step of a call that nothing disturbs.
CalmStep(c) ==
    /\ calm
    /\ Step(c)
    /\ pc'[c] # "crashed" /\ ~unlinkFailed'
    /\ Failing(c)' => Refused(c)
    /\ UNCHANGED <<calm, onDisk, synced, losses>>

\* Mutant: the container is closed without fsync.
FsyncedSm2Only ==
    {<<"sm2", s>> : s \in {t \in Savers : At(t, "sync_sm2") /\ pc'[t] = "encrypt_dil"}}

\* The files the step fsyncs: save_sm2_private_key and
\* save_dilithium_private_key do so before they report success.
Fsynced ==
    {<<"sm2", s>> : s \in {t \in Savers : At(t, "sync_sm2") /\ pc'[t] = "encrypt_dil"}}
    \cup {<<"dil", s>> : s \in {t \in Savers : At(t, "sync_dil") /\ result'[t] = "ok"}}

CallStep(c) ==
    /\ ~calm
    /\ Step(c) /\ pass'[c] \in OutagePassphrases \cup {NoKey}
    /\ synced' = synced \cup Fsynced
    /\ UNCHANGED <<calm, onDisk, losses>>

-----------------------------------------------------------------------------
(* The file system. *)

\* The kernel writes the directory back.
WriteBack ==
    /\ ~calm
    /\ onDisk' = [dir |-> dir, sm2 |-> sm2File, dil |-> dilFile]
    /\ UNCHANGED <<vars, calm, synced, losses>>

\* What may be found under a name that survived.  The content of a file that
\* was not fsynced is as written, or not, when its call had got that far.
Survivors(kind, file) ==
    IF <<kind, file.of>> \in synced THEN {Whole(file.of)}
    ELSE IF Exists(file) THEN {file, Torn(file.of)} ELSE {Absent}

\* Every call is gone, and so is every name the kernel had not written.
PowerLoss ==
    /\ ~calm /\ losses < MaxLosses
    /\ losses' = losses + 1
    /\ dir' = onDisk.dir
    /\ sm2File' \in Survivors("sm2", onDisk.sm2)
    /\ dilFile' \in Survivors("dil", onDisk.dil)
    /\ onDisk' = [dir |-> dir', sm2 |-> sm2File', dil |-> dilFile']
    /\ pc' = [c \in Calls |-> IF pc[c] \in {"call", "done"} THEN pc[c] ELSE "crashed"]
    /\ UNCHANGED <<pass, sm2Seen, loaded, result, unlinkFailed, calm, synced>>

EnvNext == \/ \E c \in Calls : CalmStep(c) \/ CallStep(c)
           \/ WriteBack
           \/ PowerLoss

\* Undisturbed calls run to their end: none waits for another.
EnvSpec == /\ EnvInit /\ [][EnvNext]_envVars
           /\ \A c \in Calls : WF_envVars(CalmStep(c))

-----------------------------------------------------------------------------
(* Properties *)

\* A key that was reported as stored is found whole or seen to be missing: a
\* store that counts as COMPLETE after any power failures and is of that call
\* has both files whole.  That it may be gone, and that another save may then
\* take its place, is the price of the missing fsync of the directory.
LossIsVisible ==
    \A s \in Savers :
        result[s] = "ok" /\ sm2File.of = s /\ dilFile.of = s
            => sm2File = Whole(s) /\ dilFile = Whole(s)

\* The SM2 file is a lock even across power failures: a save that has created
\* it has the directory to itself until it withdraws, and finds no container
\* there that an earlier save left, unless it failed to unlink it.
LockSurvives ==
    \A s \in Savers : pc[s] \in Holding =>
        sm2File.of = s /\ (dilFile.of \in {s, NoKey} \/ unlinkFailed)

\* Power failures cost hybrid_key_store_save no more than keys that are seen
\* to be missing.
PowerLossIsSafe == LossIsVisible /\ LockSurvives

\* First saves that race for the directory and for the SM2 file do not all
\* lose: once a save with good arguments has begun on a private directory, some
\* save returns 1.  On an absent directory everybody else can lose to one call
\* that creates it, and that may be a load, which then fails; the directory is
\* there for the next attempt.
SomeSaveSucceeds ==
    LET Begun == calm /\ \E s \in Savers : pc[s] = "lstat"
        Stored == \E s \in Savers : result[s] = "ok"
    IN /\ (dir = "private" /\ Begun) ~> Stored
       /\ (dir = "absent" /\ Begun) ~>
            (Stored \/ (dir = "private" /\ \E l \in Loaders : result[l] = "fail"))

\* A load that begins after a save has returned 1, with its passphrase, and
\* while no other save is running, returns that key, if the passphrase fits the
\* buffer of the PEM reader.
QuietLoadSucceeds ==
    \A l \in Loaders, s \in Savers :
        (/\ calm /\ result[s] = "ok" /\ dilFile = Whole(s)
         /\ \A t \in Savers : pc[t] \in {"call", "done"}
         /\ pc[l] = "lstat" /\ pass[l] = pass[s] /\ password_callback(pass[s]))
            ~> (result[l] = "ok" /\ loaded[l]["sm2sk"] = s /\ loaded[l]["dilsk"] = s)

\* Calls that nothing disturbs do what they are for: hybrid_key_store_save and
\* hybrid_key_store_load do not defeat each other for ever.
CalmCallsSucceed == SomeSaveSucceeds /\ QuietLoadSucceeds

-----------------------------------------------------------------------------
(* The inductive invariant behind PowerLossIsSafe: what is left of IInv when *)
(* names may go back in time.                                                *)

Kinds == {"sm2", "dil"}

\* The names on disk were never mixed either, at whatever moment they were
\* written.
DiskInv ==
    /\ onDisk \in [dir : {"absent", "private", "exposed"}, sm2 : File, dil : File]
    /\ ~unlinkFailed /\ Exists(onDisk.dil) => onDisk.dil.of = onDisk.sm2.of

\* What a save that holds the directory finds there.
HoldingInv == \A s \in Savers :
    /\ pc[s] \in Holding => sm2File.of = s
    /\ pc[s] \in {"write_sm2", "sync_sm2", "discard_sm2", "cleanup_sm2"}
            => unlinkFailed \/ ~Exists(dilFile)
    /\ pc[s] = "write_dil" => dilFile.of \in {s, NoKey}
    /\ pc[s] \in Holding \ {"write_sm2", "discard_sm2"} => sm2File = Whole(s)
    /\ pc[s] = "sync_dil" => dilFile \in {Absent, Whole(s)}

\* A file of a save that returned 1 is whole wherever its name is found.
SavedWhole == \A s \in Savers : result[s] = "ok" =>
    /\ sm2File.of = s => sm2File = Whole(s)
    /\ dilFile.of = s => dilFile = Whole(s)

FileInv == NeverMixed /\ HoldingInv /\ SavedWhole /\ ResultInv

\* The steps between the fsync of the SM2 file and that of the container, and
\* the two steps that fsync.
AfterSm2 == {"encrypt_dil", "open_dil", "write_dil", "sync_dil"}
Sm2Synced(s) == At(s, "sync_sm2") /\ pc'[s] = "encrypt_dil"
DilithiumSynced(s) == At(s, "sync_dil") /\ result'[s] = "ok"

\* No save returns 1 before both its files are fsynced.
SyncInv == ~calm => \A s \in Savers :
    /\ pc[s] \in AfterSm2 \/ result[s] = "ok" => <<"sm2", s>> \in synced
    /\ result[s] = "ok" => <<"dil", s>> \in synced

EnvInv ==
    /\ TypeOK /\ FileInv /\ DiskInv /\ SyncInv
    /\ calm \in BOOLEAN /\ losses \in Nat /\ synced \subseteq Kinds \X Savers
=============================================================================
