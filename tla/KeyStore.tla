------------------------------ MODULE KeyStore ------------------------------
(***************************************************************************)
(* The encrypted Composite key store of src/hybrid_key_store.c: one        *)
(* directory holding an encrypted SM2 key (PKCS#8) and an encrypted        *)
(* Dilithium2 container.  Savers are calls of hybrid_key_store_save, each  *)
(* with a key pair of its own (named by the call); Loaders are calls of    *)
(* hybrid_key_store_load.  Every call is a process: one step is one system *)
(* call on the shared directory, so calls interleave, any I/O may fail and *)
(* a process may die between two steps.                                    *)
(***************************************************************************)
EXTENDS KeyFile

VARIABLES
    dir,        \* the store directory: absent, owner-only, or open to others
    sm2File,    \* the SM2 file: whose key it holds, and whether it is whole
    dilFile,    \* the Dilithium2 container, likewise
    pc,         \* the next step of every call
    pass,       \* the passphrase of every call
    sm2Seen,    \* local sm2_exists of hybrid_key_store_status
    loaded,     \* locals loaded_private and loaded_public of a load
    result,     \* what the call returned
    unlinkFailed \* history: an unlink of the failure path has failed

vars == <<dir, sm2File, dilFile, pc, pass, sm2Seen, loaded, result, unlinkFailed>>

\* The four parts of a Composite key pair, each named by the call it is from.
Parts == {"sm2sk", "sm2pk", "dilsk", "dilpk"}
NothingLoaded == [part \in Parts |-> NoKey]

SaveSteps == {"open_sm2", "write_sm2", "sync_sm2", "discard_sm2",
              "encrypt_dil", "open_dil", "write_dil", "sync_dil",
              "discard_dil", "cleanup_sm2", "cleanup_dil"}
LoadSteps == {"read_sm2", "read_dil", "self_test"}
CommonSteps == {"call", "lstat", "mkdir", "access_sm2", "access_dil",
                "done", "crashed"}

TypeOK ==
    /\ dir \in {"absent", "private", "exposed"}
    /\ sm2File \in File
    /\ dilFile \in File
    /\ pc \in [Calls -> SaveSteps \cup LoadSteps \cup CommonSteps]
    /\ pass \in [Calls -> Passphrases \cup {NoKey}]
    /\ sm2Seen \in [Calls -> BOOLEAN]
    /\ loaded \in [Calls -> [Parts -> Savers \cup {NoKey}]]
    /\ result \in [Calls -> {"none", "ok", "fail"}]
    /\ unlinkFailed \in BOOLEAN

Init ==
    /\ dir \in {"absent", "private", "exposed"}
    /\ sm2File = Absent
    /\ dilFile = Absent
    /\ pc = [c \in Calls |-> "call"]
    /\ pass = [c \in Calls |-> NoKey]
    /\ sm2Seen = [c \in Calls |-> FALSE]
    /\ loaded = [c \in Calls |-> NothingLoaded]
    /\ result = [c \in Calls |-> "none"]
    /\ unlinkFailed = FALSE

-----------------------------------------------------------------------------
(* Control flow of one call. *)

At(c, step) == pc[c] = step

Goto(c, step) == /\ pc' = [pc EXCEPT ![c] = step]
                 /\ UNCHANGED result

Return(c, r) == /\ pc' = [pc EXCEPT ![c] = "done"]
                /\ result' = [result EXCEPT ![c] = r]

FilesUnchanged == UNCHANGED <<dir, sm2File, dilFile, unlinkFailed>>
LocalsUnchanged == UNCHANGED <<pass, sm2Seen, loaded>>

-----------------------------------------------------------------------------
(* The checks both operations start with. *)

\* keypair_self_test: a Composite signature made with the private parts
\* verifies under the public parts, each component against its own.
keypair_self_test(pair) == /\ pair.sm2sk = pair.sm2pk
                           /\ pair.dilsk = pair.dilpk

\* The arguments of a call: save also self-tests the pair it is given, whose
\* public half may belong to another pair.
CheckArguments(c) ==
    /\ At(c, "call")
    /\ \E phrase \in Passphrases, pairMatches \in BOOLEAN :
         /\ pass' = [pass EXCEPT ![c] = phrase]
         /\ \/ /\ passphrase_valid(phrase)
               /\ c \in Savers => pairMatches
               /\ Goto(c, "lstat")
            \/ /\ \/ ~passphrase_valid(phrase)
                  \/ c \in Savers /\ ~pairMatches
               /\ Return(c, "fail")
    /\ FilesUnchanged /\ UNCHANGED <<sm2Seen, loaded>>

\* ensure_private_directory: lstat; only an absent directory is created.
LstatDirectory(c) ==
    /\ At(c, "lstat")
    /\ \/ dir = "private" /\ Goto(c, "access_sm2")
       \/ dir = "exposed" /\ Return(c, "fail")
       \/ dir = "absent"  /\ Goto(c, "mkdir")
    /\ FilesUnchanged /\ LocalsUnchanged

\* Mutant: the lstat result of before mkdir is what is judged.
MakeDirectoryStale(c) ==
    /\ At(c, "mkdir")
    /\ Return(c, "fail")
    /\ dir' = IF dir = "absent" THEN "private" ELSE dir
    /\ UNCHANGED <<sm2File, dilFile, unlinkFailed>> /\ LocalsUnchanged

\* ensure_private_directory: mkdir 0700.  A directory that another call has
\* created meanwhile makes mkdir fail with EEXIST, and the call with it.
MakeDirectory(c) ==
    /\ At(c, "mkdir")
    /\ \/ /\ dir = "absent"
          /\ dir' = "private"
          /\ Goto(c, "access_sm2")
       \/ /\ Return(c, "fail")
          /\ UNCHANGED dir
    /\ UNCHANGED <<sm2File, dilFile, unlinkFailed>> /\ LocalsUnchanged

\* hybrid_key_store_status, first access(2).
AccessSm2(c) ==
    /\ At(c, "access_sm2")
    /\ sm2Seen' = [sm2Seen EXCEPT ![c] = Exists(sm2File)]
    /\ Goto(c, "access_dil")
    /\ FilesUnchanged /\ UNCHANGED <<pass, loaded>>

\* hybrid_key_store_status over what the two access(2) calls saw.
status(sm2Exists, dilExists) ==
    IF sm2Exists /\ dilExists THEN "COMPLETE"
    ELSE IF sm2Exists \/ dilExists THEN "INCOMPLETE"
    ELSE "MISSING"

\* The second access(2), and the caller's test of the status: save goes on
\* from MISSING only, load from COMPLETE only.  A path that cannot be built
\* makes the status INCOMPLETE, so the call may fail in any case.
AccessDilithium(c) ==
    /\ At(c, "access_dil")
    /\ LET seen == status(sm2Seen[c], Exists(dilFile)) IN
         \/ c \in Savers  /\ seen = "MISSING"  /\ Goto(c, "open_sm2")
         \/ c \in Loaders /\ seen = "COMPLETE" /\ Goto(c, "read_sm2")
         \/ Return(c, "fail")
    /\ FilesUnchanged /\ LocalsUnchanged

-----------------------------------------------------------------------------
(* hybrid_key_store_save, after the status check. *)

\* unlink(2) of either path, whosever file it names.  It may fail, and no
\* caller looks at its result.
UnlinkSm2 ==
    \/ sm2File' = Absent /\ UNCHANGED unlinkFailed
    \/ Exists(sm2File) /\ unlinkFailed' = TRUE /\ UNCHANGED sm2File

UnlinkDilithium ==
    \/ dilFile' = Absent /\ UNCHANGED unlinkFailed
    \/ Exists(dilFile) /\ unlinkFailed' = TRUE /\ UNCHANGED dilFile

\* Mutant: the SM2 file is opened with O_TRUNC instead of O_EXCL.
OpenSm2Truncating(s) ==
    /\ At(s, "open_sm2")
    /\ \/ /\ sm2File' = Torn(s)
          /\ Goto(s, "write_sm2")
       \/ /\ Goto(s, "cleanup_dil")
          /\ UNCHANGED sm2File
    /\ UNCHANGED <<dir, dilFile, unlinkFailed>> /\ LocalsUnchanged

\* Mutant: a failed open is cleaned up like a failed write.
OpenSm2CleaningUp(s) ==
    /\ At(s, "open_sm2")
    /\ \/ /\ ~Exists(sm2File)
          /\ sm2File' = Torn(s)
          /\ Goto(s, "write_sm2")
       \/ /\ Goto(s, "discard_sm2")
          /\ UNCHANGED sm2File
    /\ UNCHANGED <<dir, dilFile, unlinkFailed>> /\ LocalsUnchanged

\* save_sm2_private_key: open O_CREAT|O_EXCL.  When it fails nothing of this
\* call exists, yet save still unlinks the Dilithium2 path on its way out,
\* unless that path could not even be built (join_path out of memory).
OpenSm2(s) ==
    /\ At(s, "open_sm2")
    /\ \/ /\ ~Exists(sm2File)
          /\ sm2File' = Torn(s)
          /\ Goto(s, "write_sm2")
       \/ /\ Goto(s, "cleanup_dil") \/ Return(s, "fail")
          /\ UNCHANGED sm2File
    /\ UNCHANGED <<dir, dilFile, unlinkFailed>> /\ LocalsUnchanged

\* save_sm2_private_key: PEM write and fflush, into the file this call opened.
WriteSm2(s) ==
    /\ At(s, "write_sm2")
    /\ \/ /\ sm2File' = IF sm2File.of = s THEN Whole(s) ELSE sm2File
          /\ Goto(s, "sync_sm2")
       \/ /\ Goto(s, "discard_sm2")
          /\ UNCHANGED sm2File
    /\ UNCHANGED <<dir, dilFile, unlinkFailed>> /\ LocalsUnchanged

\* save_sm2_private_key: fsync and fclose; success sets sm2_saved.
SyncSm2(s) ==
    /\ At(s, "sync_sm2")
    /\ Goto(s, "encrypt_dil") \/ Goto(s, "discard_sm2")
    /\ FilesUnchanged /\ LocalsUnchanged

\* save_sm2_private_key: unlink(path) of a file that could not be written.
DiscardSm2(s) ==
    /\ At(s, "discard_sm2")
    /\ UnlinkSm2
    /\ Goto(s, "cleanup_dil")
    /\ UNCHANGED <<dir, dilFile>> /\ LocalsUnchanged

\* encrypt_dilithium_payload, in memory.
EncryptDilithium(s) ==
    /\ At(s, "encrypt_dil")
    /\ Goto(s, "open_dil") \/ Goto(s, "discard_dil")
    /\ FilesUnchanged /\ LocalsUnchanged

\* save_dilithium_private_key: open O_CREAT|O_EXCL.
OpenDilithium(s) ==
    /\ At(s, "open_dil")
    /\ \/ /\ ~Exists(dilFile)
          /\ dilFile' = Torn(s)
          /\ Goto(s, "write_dil")
       \/ /\ Goto(s, "discard_dil")
          /\ UNCHANGED dilFile
    /\ UNCHANGED <<dir, sm2File, unlinkFailed>> /\ LocalsUnchanged

\* save_dilithium_private_key: write_all into the descriptor.  The name may
\* have been unlinked by another call since it was opened.
WriteDilithium(s) ==
    /\ At(s, "write_dil")
    /\ \/ /\ dilFile' = IF dilFile.of = s THEN Whole(s) ELSE dilFile
          /\ Goto(s, "sync_dil")
       \/ /\ Goto(s, "discard_dil")
          /\ UNCHANGED dilFile
    /\ UNCHANGED <<dir, sm2File, unlinkFailed>> /\ LocalsUnchanged

\* save_dilithium_private_key: fsync and close; success is the save's.
SyncDilithium(s) ==
    /\ At(s, "sync_dil")
    /\ Return(s, "ok") \/ Goto(s, "discard_dil")
    /\ FilesUnchanged /\ LocalsUnchanged

\* Mutant: a container that could not be written is left to save's cleanup.
DiscardDilithiumLater(s) ==
    /\ At(s, "discard_dil")
    /\ Goto(s, "cleanup_sm2")
    /\ FilesUnchanged /\ LocalsUnchanged

\* save_dilithium_private_key: unlink(path) after any failure, whoever's file
\* the path names.
DiscardDilithium(s) ==
    /\ At(s, "discard_dil")
    /\ UnlinkDilithium
    /\ Goto(s, "cleanup_sm2")
    /\ UNCHANGED <<dir, sm2File>> /\ LocalsUnchanged

\* hybrid_key_store_save, done: unlink(sm2_path) when sm2_saved.
CleanupSm2(s) ==
    /\ At(s, "cleanup_sm2")
    /\ UnlinkSm2
    /\ Goto(s, "cleanup_dil")
    /\ UNCHANGED <<dir, dilFile>> /\ LocalsUnchanged

\* hybrid_key_store_save, done: unlink(dilithium_path), always.
CleanupDilithium(s) ==
    /\ At(s, "cleanup_dil")
    /\ UnlinkDilithium
    /\ Return(s, "fail")
    /\ UNCHANGED <<dir, sm2File>> /\ LocalsUnchanged

-----------------------------------------------------------------------------
(* hybrid_key_store_load, after the status check. *)

\* A file opens to its key under the passphrase it was written with.
Decrypts(file, c) == /\ file.whole
                     /\ pass[file.of] = pass[c]

\* load_sm2_private_key; the SM2 public key is the same object (up_ref).
LoadSm2(l) ==
    /\ At(l, "read_sm2")
    /\ \/ /\ Decrypts(sm2File, l) /\ password_callback(pass[l])
          /\ loaded' = [loaded EXCEPT ![l] =
                          [@ EXCEPT !["sm2sk"] = sm2File.of, !["sm2pk"] = sm2File.of]]
          /\ Goto(l, "read_dil")
       \/ /\ Return(l, "fail")
          /\ UNCHANGED loaded
    /\ FilesUnchanged /\ UNCHANGED <<pass, sm2Seen>>

\* load_dilithium_private_key: both halves come out of one container.
LoadDilithium(l) ==
    /\ At(l, "read_dil")
    /\ \/ /\ Decrypts(dilFile, l)
          /\ loaded' = [loaded EXCEPT ![l] =
                          [@ EXCEPT !["dilsk"] = dilFile.of, !["dilpk"] = dilFile.of]]
          /\ Goto(l, "self_test")
       \/ /\ Return(l, "fail")
          /\ UNCHANGED loaded
    /\ FilesUnchanged /\ UNCHANGED <<pass, sm2Seen>>

\* keypair_self_test and the hand-over of the loaded pair to the caller.
SelfTest(l) ==
    /\ At(l, "self_test")
    /\ \/ keypair_self_test(loaded[l]) /\ Return(l, "ok")
       \/ Return(l, "fail")
    /\ FilesUnchanged /\ LocalsUnchanged

-----------------------------------------------------------------------------
\* The process dies; the files stay as they are.
Crash(c) ==
    /\ pc[c] \notin {"call", "done", "crashed"}
    /\ Goto(c, "crashed")
    /\ FilesUnchanged /\ LocalsUnchanged

SaverStep(s) ==
    \/ OpenSm2(s) \/ WriteSm2(s) \/ SyncSm2(s) \/ DiscardSm2(s)
    \/ EncryptDilithium(s)
    \/ OpenDilithium(s) \/ WriteDilithium(s) \/ SyncDilithium(s)
    \/ DiscardDilithium(s) \/ CleanupSm2(s) \/ CleanupDilithium(s)

LoaderStep(l) == LoadSm2(l) \/ LoadDilithium(l) \/ SelfTest(l)

CommonStep(c) ==
    \/ CheckArguments(c) \/ LstatDirectory(c) \/ MakeDirectory(c)
    \/ AccessSm2(c) \/ AccessDilithium(c) \/ Crash(c)

Next == \/ \E c \in Calls : CommonStep(c)
        \/ \E s \in Savers : SaverStep(s)
        \/ \E l \in Loaders : LoaderStep(l)

Spec == Init /\ [][Next]_vars

-----------------------------------------------------------------------------
(* Properties. *)

\* A Dilithium2 container never stands without the SM2 file of the very call
\* that wrote it: O_EXCL on the SM2 file and the unlink order of the failure
\* path keep two generations from mixing in one directory, whatever dies and
\* whatever else fails than the unlink of the failure path itself.
NeverMixed == ~unlinkFailed /\ Exists(dilFile) => dilFile.of = sm2File.of

\* Once hybrid_key_store_save has returned 1, the directory holds that call's
\* SM2 key forever and never another call's container: later and concurrent
\* saves may not replace a generation that was reported as stored.
SavedNeverReplaced ==
    \A s \in Savers : result[s] = "ok" =>
        /\ sm2File = Whole(s)
        /\ dilFile \in {Absent, Whole(s)}

\* A save that can no longer return 1.
Withdrawn(s) == /\ pc[s] \in {"cleanup_dil", "done", "crashed"}
                /\ result[s] # "ok"

\* A load reads the two files one after the other, and a save may withdraw
\* between the two reads.  The SM2 half of a pair that mixes two calls is then
\* of the one that withdrew: whoever gets the SM2 half of a key that was, or
\* still may be, reported as stored gets its Dilithium2 half with it.
OnlyWithdrawnKeysMix ==
    \A l \in Loaders : result[l] = "ok" /\ ~unlinkFailed =>
        \/ loaded[l]["sm2sk"] = loaded[l]["dilsk"]
        \/ Withdrawn(loaded[l]["sm2sk"])

\* Stopped calls take no further step.
Stopped(c) == pc[c] \in {"done", "crashed"}

\* A store whose SM2 file was left alone by a call that stopped (died between
\* the two files, or lost its container) stays as it is: no save repairs or
\* replaces it, which is the documented fail-closed treatment of a partial
\* key store.
PartialStoreIsFinal ==
    [][ (\E s \in Savers : sm2File.of = s /\ Stopped(s) /\ ~Exists(dilFile))
            => UNCHANGED <<sm2File, dilFile>> ]_vars

\* Only a call that created the SM2 file ever unlinks it: the loser of the
\* O_EXCL race must not remove the winner's key.
OnlyOwnerUnlinksSm2 ==
    [][ \A s \in Savers : sm2File.of = s /\ sm2File'.of # s
            => pc[s] \in {"discard_sm2", "cleanup_sm2"} /\ pc'[s] # pc[s] ]_vars

-----------------------------------------------------------------------------
(* The inductive invariant behind these properties: the SM2 file is a lock. *)

\* From creating the SM2 file until unlinking it, a save owns the directory.
Holding == {"write_sm2", "sync_sm2", "discard_sm2", "encrypt_dil", "open_dil",
            "write_dil", "sync_dil", "discard_dil", "cleanup_sm2"}
Owns(s) == pc[s] \in Holding \/ result[s] = "ok"

LockInv == \A s \in Savers : Owns(s) => sm2File.of = s

\* How far the two files have got at each step of their owner.  The container
\* is gone before the SM2 file is, unless its unlink has failed.
ProgressInv == \A s \in Savers :
    /\ pc[s] \in {"write_sm2", "sync_sm2", "discard_sm2", "cleanup_sm2"}
            => unlinkFailed \/ ~Exists(dilFile)
    /\ pc[s] \in {"sync_sm2", "encrypt_dil", "open_dil", "write_dil",
                  "sync_dil", "discard_dil", "cleanup_sm2"}
        \/ result[s] = "ok" => sm2File = Whole(s)
    /\ pc[s] = "write_dil" => dilFile.of \in {s, NoKey}
    /\ pc[s] = "sync_dil" \/ result[s] = "ok" => dilFile \in {Absent, Whole(s)}

ResultInv == \A c \in Calls : result[c] # "none" => pc[c] = "done"

\* What a load has read, related to the saves it read from.
LoadInv == \A l \in Loaders :
    /\ \A s \in Savers : loaded[l]["sm2sk"] = s =>
            /\ sm2File.of = s \/ Withdrawn(s)
            /\ loaded[l]["dilsk"] \in {s, NoKey} \/ Withdrawn(s) \/ unlinkFailed
    /\ pc[l] \in {"read_dil", "self_test"} \/ result[l] = "ok" => loaded[l]["sm2sk"] \in Savers
    /\ pc[l] = "self_test" \/ result[l] = "ok" => loaded[l]["dilsk"] \in Savers
    /\ loaded[l]["dilsk"] # NoKey => pc[l] \in {"self_test", "done", "crashed"}

IInv == /\ TypeOK /\ NeverMixed /\ LockInv /\ ProgressInv /\ ResultInv
        /\ LoadInv

-----------------------------------------------------------------------------
\* docs/security.md says a failed save deletes incomplete files.  A container
\* that belongs to a save that returned 1 is complete, so nobody deletes it.
\* Not what the code does: see the run keystore_saved_stays.
SavedStaysComplete ==
    \A s \in Savers : result[s] = "ok" => sm2File = Whole(s) /\ dilFile = Whole(s)

\* docs/security.md says the self-test after decryption confirms that the
\* component keys are a pair, so a load hands out the two halves of one key.
\* Not what the code does: see the run keystore_load_mixes.
LoadedHalvesPair ==
    \A l \in Loaders : result[l] = "ok" /\ ~unlinkFailed
        => loaded[l]["sm2sk"] = loaded[l]["dilsk"]
=============================================================================
