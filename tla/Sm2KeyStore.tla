---------------------------- MODULE Sm2KeyStore -----------------------------
(***************************************************************************)
(* The single-file SM2 store of src/hybrid_key_store.c, which keeps the    *)
(* TLCP encryption key.  Savers are calls of hybrid_sm2_key_store_save,    *)
(* Loaders of hybrid_sm2_key_store_load; one step is one system call on    *)
(* the shared directory, any I/O may fail and a process may die.           *)
(***************************************************************************)
EXTENDS KeyFile

VARIABLES
    dir,        \* the store directory: absent, owner-only, or open to others
    sm2File,    \* the encrypted PKCS#8 file
    pc,         \* the next step of every call
    pass,       \* the passphrase of every call
    loaded,     \* the key a load returned
    result      \* what the call returned

vars == <<dir, sm2File, pc, pass, loaded, result>>

Steps == {"call", "access", "lstat", "mkdir", "open", "write", "sync",
          "discard", "read", "done", "crashed"}

TypeOK ==
    /\ dir \in {"absent", "private", "exposed"}
    /\ sm2File \in File
    /\ pc \in [Calls -> Steps]
    /\ pass \in [Calls -> Passphrases \cup {NoKey}]
    /\ loaded \in [Loaders -> Savers \cup {NoKey}]
    /\ result \in [Calls -> {"none", "ok", "fail"}]

Init ==
    /\ dir \in {"absent", "private", "exposed"}
    /\ sm2File = Absent
    /\ pc = [c \in Calls |-> "call"]
    /\ pass = [c \in Calls |-> NoKey]
    /\ loaded = [l \in Loaders |-> NoKey]
    /\ result = [c \in Calls |-> "none"]

At(c, step) == pc[c] = step

Goto(c, step) == /\ pc' = [pc EXCEPT ![c] = step]
                 /\ UNCHANGED result

Return(c, r) == /\ pc' = [pc EXCEPT ![c] = "done"]
                /\ result' = [result EXCEPT ![c] = r]

-----------------------------------------------------------------------------
\* save checks key type and passphrase before it looks at the store; load
\* checks its passphrase after the status, with the same outcome.
CheckArguments(c) ==
    /\ At(c, "call")
    /\ \E phrase \in Passphrases, isSm2 \in BOOLEAN :
         /\ pass' = [pass EXCEPT ![c] = phrase]
         /\ IF c \in Savers /\ ~(isSm2 /\ passphrase_valid(phrase))
            THEN Return(c, "fail") ELSE Goto(c, "access")
    /\ UNCHANGED <<dir, sm2File, loaded>>

\* hybrid_sm2_key_store_status, access(2): save goes on from MISSING only,
\* load from a file that exists.
Access(c) ==
    /\ At(c, "access")
    /\ \/ (c \in Savers <=> ~Exists(sm2File)) /\ Goto(c, "lstat")
       \/ Return(c, "fail")
    /\ UNCHANGED <<dir, sm2File, pass, loaded>>

\* ensure_private_directory (for load: the rest of the status).
LstatDirectory(c) ==
    /\ At(c, "lstat")
    /\ \/ dir = "private" /\ Goto(c, IF c \in Savers THEN "open" ELSE "read")
       \/ dir = "exposed" /\ Return(c, "fail")
       \/ dir = "absent"  /\ Goto(c, "mkdir")
    /\ UNCHANGED <<dir, sm2File, pass, loaded>>

\* ensure_private_directory, mkdir 0700: EEXIST after a race is a failure.
MakeDirectory(s) ==
    /\ At(s, "mkdir")
    /\ \/ /\ dir = "absent"
          /\ dir' = "private"
          /\ Goto(s, "open")
       \/ /\ Return(s, "fail")
          /\ UNCHANGED dir
    /\ UNCHANGED <<sm2File, pass, loaded>>

\* Mutant: the file is opened with O_TRUNC instead of O_EXCL.
OpenTruncating(s) ==
    /\ At(s, "open")
    /\ \/ sm2File' = Torn(s) /\ Goto(s, "write")
       \/ Return(s, "fail") /\ UNCHANGED sm2File
    /\ UNCHANGED <<dir, pass, loaded>>

\* Mutant: a failed open goes through the cleanup that unlinks the path.
OpenCleaningUp(s) ==
    /\ At(s, "open")
    /\ \/ ~Exists(sm2File) /\ sm2File' = Torn(s) /\ Goto(s, "write")
       \/ Goto(s, "discard") /\ UNCHANGED sm2File
    /\ UNCHANGED <<dir, pass, loaded>>

\* save_sm2_private_key: open O_CREAT|O_EXCL; a failed open returns at once.
Open(s) ==
    /\ At(s, "open")
    /\ \/ ~Exists(sm2File) /\ sm2File' = Torn(s) /\ Goto(s, "write")
       \/ Return(s, "fail") /\ UNCHANGED sm2File
    /\ UNCHANGED <<dir, pass, loaded>>

\* save_sm2_private_key: PEM write and fflush.
Write(s) ==
    /\ At(s, "write")
    /\ \/ /\ sm2File' = IF sm2File.of = s THEN Whole(s) ELSE sm2File
          /\ Goto(s, "sync")
       \/ /\ Goto(s, "discard")
          /\ UNCHANGED sm2File
    /\ UNCHANGED <<dir, pass, loaded>>

\* save_sm2_private_key: fsync and fclose.
Sync(s) ==
    /\ At(s, "sync")
    /\ Return(s, "ok") \/ Goto(s, "discard")
    /\ UNCHANGED <<dir, sm2File, pass, loaded>>

\* save_sm2_private_key: unlink(path) of a file this call created; its result
\* is ignored.
Discard(s) ==
    /\ At(s, "discard")
    /\ sm2File' = Absent \/ UNCHANGED sm2File
    /\ Return(s, "fail")
    /\ UNCHANGED <<dir, pass, loaded>>

\* load_sm2_private_key: one read of one file.
Load(l) ==
    /\ At(l, "read")
    /\ \/ /\ sm2File.whole
          /\ passphrase_valid(pass[l]) /\ password_callback(pass[l])
          /\ pass[sm2File.of] = pass[l]
          /\ loaded' = [loaded EXCEPT ![l] = sm2File.of]
          /\ Return(l, "ok")
       \/ /\ Return(l, "fail")
          /\ UNCHANGED loaded
    /\ UNCHANGED <<dir, sm2File, pass>>

\* The process dies; the file stays as it is.
Crash(c) ==
    /\ pc[c] \notin {"call", "done", "crashed"}
    /\ Goto(c, "crashed")
    /\ UNCHANGED <<dir, sm2File, pass, loaded>>

Next ==
    \/ \E c \in Calls : CheckArguments(c) \/ Access(c) \/ LstatDirectory(c) \/ Crash(c)
    \/ \E s \in Savers : \/ MakeDirectory(s) \/ Open(s) \/ Write(s) \/ Sync(s)
                         \/ Discard(s)
    \/ \E l \in Loaders : Load(l)

Spec == Init /\ [][Next]_vars

-----------------------------------------------------------------------------
(* Properties. *)

\* The key of the save that returned 1.
Stored == IF \E s \in Savers : result[s] = "ok"
          THEN CHOOSE s \in Savers : result[s] = "ok" ELSE NoKey

W == INSTANCE WriteOnce WITH
        Keys <- Savers, Readers <- Loaders, stored <- Stored, given <- loaded

\* The store implements the write-once store: whatever concurrent saves and
\* loads do, fail or leave behind, at most one save returns 1, its key stays,
\* and every load from then on returns that key or fails.
ImplementsWriteOnce == W!Spec

\* A file left by a save that died, or that returned 0 because its unlink
\* failed too, is never replaced or removed, by a save that fails later or by
\* one that starts later: recovery is left to the operator.
LeftoverIsFinal ==
    [][ (\E s \in Savers : sm2File.of = s /\ (pc[s] = "crashed" \/ result[s] = "fail"))
            => UNCHANGED sm2File ]_vars

\* From creating the file until its call returns 0, a save owns the file; what
\* a save has synced or returned for is all there.
Owns(s) == pc[s] \in {"write", "sync", "discard"} \/ result[s] = "ok"

OwnerInv == \A s \in Savers :
    /\ Owns(s) => sm2File.of = s
    /\ pc[s] = "sync" \/ result[s] = "ok" => sm2File = Whole(s)

CallInv ==
    /\ \A c \in Calls : result[c] # "none" => pc[c] = "done"
    /\ \A l \in Loaders : loaded[l] # NoKey => pc[l] = "done"

\* The inductive invariant behind both: whoever created the file owns it.
IInv == TypeOK /\ OwnerInv /\ CallInv
=============================================================================
