--------------------------- MODULE KeyStoreProof ----------------------------
(***************************************************************************)
(* Proofs about KeyStore and KeyStoreEnvironment, for any number of        *)
(* savers, loaders, passphrases and power failures.  The argument: the     *)
(* SM2 file is created with O_EXCL and only its creator unlinks it, so it  *)
(* is a lock (LockInv); the container is created and completed under that  *)
(* lock and removed before it is released (NeverMixed, ProgressInv).       *)
(*                                                                         *)
(* A power failure takes the directory back to an earlier moment, so that  *)
(* a save which returned 1 may lose its files and IInv no longer holds.    *)
(* What does (EnvInv): the names on disk were never mixed, a failure ends  *)
(* every call that held the directory, and a file of a call that returned  *)
(* 1 was fsynced.                                                          *)
(***************************************************************************)
EXTENDS KeyStoreEnvironment, TLAPS

\* The steps of a call, without their common frame.
USE DEF Calls, At, Goto, Return, FilesUnchanged, LocalsUnchanged,
        UnlinkSm2, UnlinkDilithium

\* The states of a file: the three constructors, and what tells them apart.
LEMMA FileFacts ==
    /\ Absent \in File
    /\ \A s \in Savers : Torn(s) \in File /\ Whole(s) \in File
    /\ \A s \in Savers : Torn(s).of = s /\ Whole(s).of = s
    /\ \A f \in File : f = Absent \/ (f.of \in Savers /\ f.of # NoKey)
    /\ \A f \in File : f.whole => f = Whole(f.of) /\ f.of \in Savers
    /\ Absent.of = NoKey /\ ~Absent.whole
<1>1. Absent \in File /\ Absent.of = NoKey /\ ~Absent.whole
  BY DEF Absent, File
<1>2. \A s \in Savers : Torn(s) \in File /\ Whole(s) \in File
  BY DEF Torn, Whole, File
<1>3. \A s \in Savers : Torn(s).of = s /\ Whole(s).of = s
  BY DEF Torn, Whole
<1>4. \A f \in File : f = Absent \/ (f.of \in Savers /\ f.of # NoKey)
  BY KeyStoreAssumption DEF File
<1>5. \A f \in File : f.whole => f = Whole(f.of) /\ f.of \in Savers
  BY <1>1 DEF File, Whole
<1> QED
  BY <1>1, <1>2, <1>3, <1>4, <1>5

\* One step of any call keeps the state well-formed.
LEMMA TypeInductive == TypeOK /\ [Next]_vars => TypeOK'
<1> SUFFICES ASSUME TypeOK, [Next]_vars
             PROVE  TypeOK'
  OBVIOUS
<1> USE DEF TypeOK
<1> USE DEF SaveSteps, LoadSteps, CommonSteps
<1>1. ASSUME NEW c \in Calls, CheckArguments(c)
      PROVE  TypeOK'
  BY <1>1 DEF CheckArguments, Passphrases
<1>2. ASSUME NEW c \in Calls, LstatDirectory(c)
      PROVE  TypeOK'
  BY <1>2 DEF LstatDirectory
<1>3. ASSUME NEW c \in Calls, MakeDirectory(c)
      PROVE  TypeOK'
  BY <1>3 DEF MakeDirectory
<1>4. ASSUME NEW c \in Calls, AccessSm2(c)
      PROVE  TypeOK'
  <2>1. Exists(sm2File) \in BOOLEAN
    BY DEF Exists
  <2>2. sm2Seen' \in [Calls -> BOOLEAN]
    BY <1>4, <2>1 DEF AccessSm2
  <2> QED
    BY <1>4, <2>2 DEF AccessSm2
<1>5. ASSUME NEW c \in Calls, AccessDilithium(c)
      PROVE  TypeOK'
  BY <1>5 DEF AccessDilithium
<1>6. ASSUME NEW c \in Calls, Crash(c)
      PROVE  TypeOK'
  BY <1>6 DEF Crash
<1>7. ASSUME NEW s \in Savers, OpenSm2(s)
      PROVE  TypeOK'
  <2>1. sm2File' \in File
    BY FileFacts, <1>7 DEF OpenSm2
  <2>2. /\ pc' \in [Calls -> SaveSteps \cup LoadSteps \cup CommonSteps]
        /\ result' \in [Calls -> {"none", "ok", "fail"}]
    BY <1>7 DEF OpenSm2
  <2> QED
    BY <1>7, <2>1, <2>2 DEF OpenSm2
<1>8. ASSUME NEW s \in Savers, WriteSm2(s)
      PROVE  TypeOK'
  BY FileFacts, <1>8 DEF WriteSm2
<1>9. ASSUME NEW s \in Savers, SyncSm2(s)
      PROVE  TypeOK'
  BY <1>9 DEF SyncSm2
<1>10. ASSUME NEW s \in Savers, DiscardSm2(s)
      PROVE  TypeOK'
  BY FileFacts, <1>10 DEF DiscardSm2
<1>11. ASSUME NEW s \in Savers, EncryptDilithium(s)
      PROVE  TypeOK'
  BY <1>11 DEF EncryptDilithium
<1>12. ASSUME NEW s \in Savers, OpenDilithium(s)
      PROVE  TypeOK'
  BY FileFacts, <1>12 DEF OpenDilithium
<1>13. ASSUME NEW s \in Savers, WriteDilithium(s)
      PROVE  TypeOK'
  BY FileFacts, <1>13 DEF WriteDilithium
<1>14. ASSUME NEW s \in Savers, SyncDilithium(s)
      PROVE  TypeOK'
  BY <1>14 DEF SyncDilithium
<1>15. ASSUME NEW s \in Savers, DiscardDilithium(s)
      PROVE  TypeOK'
  BY FileFacts, <1>15 DEF DiscardDilithium
<1>16. ASSUME NEW s \in Savers, CleanupSm2(s)
      PROVE  TypeOK'
  BY FileFacts, <1>16 DEF CleanupSm2
<1>17. ASSUME NEW s \in Savers, CleanupDilithium(s)
      PROVE  TypeOK'
  BY FileFacts, <1>17 DEF CleanupDilithium
<1>18. ASSUME NEW l \in Loaders, LoadSm2(l)
      PROVE  TypeOK'
  <2>1. CASE UNCHANGED loaded
    BY <1>18, <2>1 DEF LoadSm2
  <2>2. CASE Decrypts(sm2File, l)
    <3>1. sm2File.of \in Savers
      BY FileFacts, <2>2 DEF Decrypts
    <3>2. loaded' \in [Calls -> [Parts -> Savers \cup {NoKey}]]
      <4>1. [loaded[l] EXCEPT !["sm2sk"] = sm2File.of, !["sm2pk"] = sm2File.of]
              \in [Parts -> Savers \cup {NoKey}]
        BY <3>1
      <4> QED
        BY <1>18, <2>1, <4>1 DEF LoadSm2
    <3> QED
      BY <1>18, <3>2 DEF LoadSm2
  <2> QED
    BY <1>18, <2>1, <2>2 DEF LoadSm2
<1>19. ASSUME NEW l \in Loaders, LoadDilithium(l)
      PROVE  TypeOK'
  <2>1. CASE UNCHANGED loaded
    BY <1>19, <2>1 DEF LoadDilithium
  <2>2. CASE Decrypts(dilFile, l)
    <3>1. dilFile.of \in Savers
      BY FileFacts, <2>2 DEF Decrypts
    <3>2. loaded' \in [Calls -> [Parts -> Savers \cup {NoKey}]]
      <4>1. [loaded[l] EXCEPT !["dilsk"] = dilFile.of, !["dilpk"] = dilFile.of]
              \in [Parts -> Savers \cup {NoKey}]
        BY <3>1
      <4> QED
        BY <1>19, <2>1, <4>1 DEF LoadDilithium
    <3> QED
      BY <1>19, <3>2 DEF LoadDilithium
  <2> QED
    BY <1>19, <2>1, <2>2 DEF LoadDilithium
<1>20. ASSUME NEW l \in Loaders, SelfTest(l)
      PROVE  TypeOK'
  BY <1>20 DEF SelfTest
<1>21. CASE UNCHANGED vars
  BY <1>21 DEF vars
<1> QED
  BY <1>1, <1>2, <1>3, <1>4, <1>5, <1>6, <1>7, <1>8, <1>9, <1>10, <1>11,
     <1>12, <1>13, <1>14, <1>15, <1>16, <1>17, <1>18, <1>19, <1>20, <1>21
     DEF Next, CommonStep, SaverStep, LoaderStep

\* Every reachable state of the store and of its calls is well-formed.
THEOREM TypeCorrect == Spec => []TypeOK
<1>1. Init => TypeOK
  <2> SUFFICES ASSUME Init
               PROVE  TypeOK
    OBVIOUS
  <2> QED
    BY FileFacts DEF TypeOK, Init, NothingLoaded, CommonSteps
<1> QED
  BY <1>1, TypeInductive, PTL DEF Spec

\* The part of the invariant about savers and files.
SaveInv == NeverMixed /\ LockInv /\ ProgressInv /\ ResultInv

\* One step keeps the SM2 file a lock and the container under it.
LEMMA SaveInductive ==
    TypeOK /\ SaveInv /\ [Next]_vars => SaveInv'
<1> SUFFICES ASSUME TypeOK, SaveInv, [Next]_vars
             PROVE  SaveInv'
  OBVIOUS
<1> USE KeyStoreAssumption, FileFacts
    DEF TypeOK, SaveInv, NeverMixed, LockInv, ProgressInv, ResultInv, Owns,
        Holding, Exists
<1>1. ASSUME NEW c \in Calls, CheckArguments(c)
      PROVE  SaveInv'
  BY <1>1 DEF CheckArguments
<1>2. ASSUME NEW c \in Calls, LstatDirectory(c)
      PROVE  SaveInv'
  BY <1>2 DEF LstatDirectory
<1>3. ASSUME NEW c \in Calls, MakeDirectory(c)
      PROVE  SaveInv'
  BY <1>3 DEF MakeDirectory
<1>4. ASSUME NEW c \in Calls, AccessSm2(c)
      PROVE  SaveInv'
  BY <1>4 DEF AccessSm2
<1>5. ASSUME NEW c \in Calls, AccessDilithium(c)
      PROVE  SaveInv'
  BY <1>5 DEF AccessDilithium
<1>6. ASSUME NEW c \in Calls, Crash(c)
      PROVE  SaveInv'
  BY <1>6 DEF Crash
<1>7. ASSUME NEW s \in Savers, OpenSm2(s)
      PROVE  SaveInv'
  BY <1>7 DEF OpenSm2
<1>8. ASSUME NEW s \in Savers, WriteSm2(s)
      PROVE  SaveInv'
  BY <1>8 DEF WriteSm2
<1>9. ASSUME NEW s \in Savers, SyncSm2(s)
      PROVE  SaveInv'
  BY <1>9 DEF SyncSm2
<1>10. ASSUME NEW s \in Savers, DiscardSm2(s)
      PROVE  SaveInv'
  BY <1>10 DEF DiscardSm2
<1>11. ASSUME NEW s \in Savers, EncryptDilithium(s)
      PROVE  SaveInv'
  BY <1>11 DEF EncryptDilithium
<1>12. ASSUME NEW s \in Savers, OpenDilithium(s)
      PROVE  SaveInv'
  BY <1>12 DEF OpenDilithium
<1>13. ASSUME NEW s \in Savers, WriteDilithium(s)
      PROVE  SaveInv'
  BY <1>13 DEF WriteDilithium
<1>14. ASSUME NEW s \in Savers, SyncDilithium(s)
      PROVE  SaveInv'
  BY <1>14 DEF SyncDilithium
<1>15. ASSUME NEW s \in Savers, DiscardDilithium(s)
      PROVE  SaveInv'
  BY <1>15 DEF DiscardDilithium
<1>16. ASSUME NEW s \in Savers, CleanupSm2(s)
      PROVE  SaveInv'
  BY <1>16 DEF CleanupSm2
<1>17. ASSUME NEW s \in Savers, CleanupDilithium(s)
      PROVE  SaveInv'
  BY <1>17 DEF CleanupDilithium
<1>18. ASSUME NEW l \in Loaders, LoadSm2(l)
      PROVE  SaveInv'
  BY <1>18 DEF LoadSm2
<1>19. ASSUME NEW l \in Loaders, LoadDilithium(l)
      PROVE  SaveInv'
  <2>1. /\ At(l, "read_dil")
        /\ UNCHANGED <<dir, sm2File, dilFile, pass, sm2Seen, unlinkFailed>>
        /\ Goto(l, "self_test") \/ Return(l, "fail")
    BY <1>19 DEF LoadDilithium
  <2>2. CASE Goto(l, "self_test")
    BY <2>1, <2>2
  <2>3. CASE Return(l, "fail")
    BY <2>1, <2>3
  <2> QED
    BY <2>1, <2>2, <2>3
<1>20. ASSUME NEW l \in Loaders, SelfTest(l)
      PROVE  SaveInv'
  BY <1>20 DEF SelfTest
<1>21. CASE UNCHANGED vars
  BY <1>21 DEF vars
<1> QED
  BY <1>1, <1>2, <1>3, <1>4, <1>5, <1>6, <1>7, <1>8,
     <1>9, <1>10, <1>11, <1>12, <1>13, <1>14, <1>15,
     <1>16, <1>17, <1>18, <1>19, <1>20, <1>21
     DEF Next, CommonStep, SaverStep, LoaderStep

\* One step keeps every half that was read traceable: its save still holds
\* the directory or can no longer succeed.
LEMMA LoadInductive ==
    TypeOK /\ SaveInv /\ LoadInv /\ [Next]_vars => LoadInv'
<1> SUFFICES ASSUME TypeOK, SaveInv, LoadInv, [Next]_vars
             PROVE  LoadInv'
  OBVIOUS
<1> USE KeyStoreAssumption, FileFacts
    DEF TypeOK, SaveInv, NeverMixed, LockInv, ProgressInv, ResultInv, LoadInv,
        Owns, Holding, Exists, Withdrawn, Parts
<1>1. ASSUME NEW c \in Calls, CheckArguments(c)
      PROVE  LoadInv'
  BY <1>1 DEF CheckArguments
<1>2. ASSUME NEW c \in Calls, LstatDirectory(c)
      PROVE  LoadInv'
  BY <1>2 DEF LstatDirectory
<1>3. ASSUME NEW c \in Calls, MakeDirectory(c)
      PROVE  LoadInv'
  BY <1>3 DEF MakeDirectory
<1>4. ASSUME NEW c \in Calls, AccessSm2(c)
      PROVE  LoadInv'
  BY <1>4 DEF AccessSm2
<1>5. ASSUME NEW c \in Calls, AccessDilithium(c)
      PROVE  LoadInv'
  BY <1>5 DEF AccessDilithium
<1>6. ASSUME NEW c \in Calls, Crash(c)
      PROVE  LoadInv'
  BY <1>6 DEF Crash
<1>7. ASSUME NEW s \in Savers, OpenSm2(s)
      PROVE  LoadInv'
  BY <1>7 DEF OpenSm2
<1>8. ASSUME NEW s \in Savers, WriteSm2(s)
      PROVE  LoadInv'
  BY <1>8 DEF WriteSm2
<1>9. ASSUME NEW s \in Savers, SyncSm2(s)
      PROVE  LoadInv'
  BY <1>9 DEF SyncSm2
<1>10. ASSUME NEW s \in Savers, DiscardSm2(s)
      PROVE  LoadInv'
  BY <1>10 DEF DiscardSm2
<1>11. ASSUME NEW s \in Savers, EncryptDilithium(s)
      PROVE  LoadInv'
  BY <1>11 DEF EncryptDilithium
<1>12. ASSUME NEW s \in Savers, OpenDilithium(s)
      PROVE  LoadInv'
  BY <1>12 DEF OpenDilithium
<1>13. ASSUME NEW s \in Savers, WriteDilithium(s)
      PROVE  LoadInv'
  BY <1>13 DEF WriteDilithium
<1>14. ASSUME NEW s \in Savers, SyncDilithium(s)
      PROVE  LoadInv'
  BY <1>14 DEF SyncDilithium
<1>15. ASSUME NEW s \in Savers, DiscardDilithium(s)
      PROVE  LoadInv'
  BY <1>15 DEF DiscardDilithium
<1>16. ASSUME NEW s \in Savers, CleanupSm2(s)
      PROVE  LoadInv'
  BY <1>16 DEF CleanupSm2
<1>17. ASSUME NEW s \in Savers, CleanupDilithium(s)
      PROVE  LoadInv'
  BY <1>17 DEF CleanupDilithium
<1>18. ASSUME NEW l \in Loaders, LoadSm2(l)
      PROVE  LoadInv'
  BY <1>18 DEF LoadSm2, Decrypts
<1>19. ASSUME NEW l \in Loaders, LoadDilithium(l)
      PROVE  LoadInv'
  BY <1>19 DEF LoadDilithium, Decrypts
<1>20. ASSUME NEW l \in Loaders, SelfTest(l)
      PROVE  LoadInv'
  BY <1>20 DEF SelfTest
<1>21. CASE UNCHANGED vars
  BY <1>21 DEF vars
<1> QED
  BY <1>1, <1>2, <1>3, <1>4, <1>5, <1>6, <1>7, <1>8,
     <1>9, <1>10, <1>11, <1>12, <1>13, <1>14, <1>15,
     <1>16, <1>17, <1>18, <1>19, <1>20, <1>21
     DEF Next, CommonStep, SaverStep, LoaderStep

\* The inductive invariant holds in every reachable state.
THEOREM InvariantHolds == Spec => []IInv
<1>1. Init => IInv
  <2> SUFFICES ASSUME Init
               PROVE  IInv
    OBVIOUS
  <2>1. TypeOK
    BY FileFacts DEF TypeOK, Init, NothingLoaded, CommonSteps
  <2>2. NeverMixed /\ LockInv /\ ProgressInv /\ ResultInv
    BY FileFacts DEF Init, NeverMixed, LockInv, ProgressInv, ResultInv, Owns,
                     Holding, Exists
  <2>3. LoadInv
    BY KeyStoreAssumption
       DEF Init, LoadInv, NothingLoaded, Parts, Withdrawn
  <2> QED
    BY <2>1, <2>2, <2>3 DEF IInv
<1>2. IInv /\ [Next]_vars => IInv'
  BY TypeInductive, SaveInductive, LoadInductive DEF IInv, SaveInv
<1> QED
  BY <1>1, <1>2, PTL DEF Spec

\* Two generations never mix in one directory (O_EXCL on the SM2 file, and
\* the container unlinked first), whatever fails, dies or interleaves.
THEOREM KeyGenerationsNeverMix == Spec => []NeverMixed
<1>1. IInv => NeverMixed
  BY DEF IInv
<1> QED
  BY <1>1, InvariantHolds, PTL

\* A generation that hybrid_key_store_save reported as stored is never
\* replaced by another save, however many run.
THEOREM StoredKeyNeverReplaced == Spec => []SavedNeverReplaced
<1>1. IInv => SavedNeverReplaced
  BY DEF IInv, ProgressInv, SavedNeverReplaced
<1> QED
  BY <1>1, InvariantHolds, PTL

\* The SM2 half of a pair that mixes two calls is of a save that withdrew.
THEOREM MixedKeysWereWithdrawn == Spec => []OnlyWithdrawnKeysMix
<1>1. IInv => OnlyWithdrawnKeysMix
  <2> SUFFICES ASSUME IInv, NEW l \in Loaders, result[l] = "ok", ~unlinkFailed
               PROVE  \/ loaded[l]["sm2sk"] = loaded[l]["dilsk"]
                      \/ Withdrawn(loaded[l]["sm2sk"])
    BY DEF OnlyWithdrawnKeysMix
  <2>1. loaded[l]["sm2sk"] \in Savers /\ loaded[l]["dilsk"] \in Savers
    BY DEF IInv, LoadInv
  <2> QED
    BY <2>1, KeyStoreAssumption DEF IInv, LoadInv
<1> QED
  BY <1>1, InvariantHolds, PTL

\* Nobody but its creator unlinks the SM2 file.
THEOREM OwnerUnlinksSm2 == Spec => OnlyOwnerUnlinksSm2
<1> DEFINE A == \A s \in Savers : sm2File.of = s /\ sm2File'.of # s
            => pc[s] \in {"discard_sm2", "cleanup_sm2"} /\ pc'[s] # pc[s]
<1>1. IInv /\ [Next]_vars => [A]_vars
  <2> SUFFICES ASSUME IInv, Next, NEW o \in Savers,
                      sm2File.of = o, sm2File'.of # o
               PROVE  /\ pc[o] \in {"discard_sm2", "cleanup_sm2"}
                      /\ pc'[o] # pc[o]
    OBVIOUS
  <2> USE KeyStoreAssumption, FileFacts
      DEF IInv, TypeOK, LockInv, Owns, Holding, Exists
  <2>1. ASSUME NEW c \in Calls, CommonStep(c)
        PROVE  FALSE
    BY <2>1 DEF CommonStep, CheckArguments, LstatDirectory, MakeDirectory,
                AccessSm2, AccessDilithium, Crash
  <2>2. ASSUME NEW l \in Loaders, LoaderStep(l)
        PROVE  FALSE
    BY <2>2 DEF LoaderStep, LoadSm2, LoadDilithium, SelfTest
  <2>3. PICK s \in Savers : SaverStep(s)
    BY <2>1, <2>2 DEF Next
  <2>4. DiscardSm2(s) \/ CleanupSm2(s)
    BY <2>3 DEF SaverStep, OpenSm2, WriteSm2, SyncSm2, EncryptDilithium,
                OpenDilithium, WriteDilithium, SyncDilithium,
                DiscardDilithium, CleanupDilithium
  <2>5. s = o
    BY <2>4 DEF DiscardSm2, CleanupSm2
  <2> QED
    BY <2>4, <2>5 DEF DiscardSm2, CleanupSm2
<1> QED
  BY <1>1, InvariantHolds, PTL DEF Spec, OnlyOwnerUnlinksSm2

\* A store left with the SM2 file alone is neither repaired nor replaced.
THEOREM PartialStoreStays == Spec => PartialStoreIsFinal
<1> DEFINE A == (\E s \in Savers : sm2File.of = s /\ Stopped(s) /\ ~Exists(dilFile))
                    => UNCHANGED <<sm2File, dilFile>>
<1>1. IInv /\ [Next]_vars => [A]_vars
  <2> SUFFICES ASSUME IInv, Next, NEW o \in Savers,
                      sm2File.of = o, Stopped(o), ~Exists(dilFile)
               PROVE  UNCHANGED <<sm2File, dilFile>>
    OBVIOUS
  <2> USE KeyStoreAssumption, FileFacts
      DEF IInv, TypeOK, LockInv, Owns, Holding, Exists, Stopped
  <2>1. ASSUME NEW c \in Calls, CommonStep(c)
        PROVE  UNCHANGED <<sm2File, dilFile>>
    BY <2>1 DEF CommonStep, CheckArguments, LstatDirectory, MakeDirectory,
                AccessSm2, AccessDilithium, Crash
  <2>2. ASSUME NEW l \in Loaders, LoaderStep(l)
        PROVE  UNCHANGED <<sm2File, dilFile>>
    BY <2>2 DEF LoaderStep, LoadSm2, LoadDilithium, SelfTest
  <2>3. ASSUME NEW s \in Savers, SaverStep(s)
        PROVE  UNCHANGED <<sm2File, dilFile>>
    <3>1. pc[s] \notin Holding
      BY <2>3 DEF SaverStep, OpenSm2, WriteSm2, SyncSm2, DiscardSm2,
                  EncryptDilithium, OpenDilithium, WriteDilithium,
                  SyncDilithium, DiscardDilithium, CleanupSm2, CleanupDilithium
    <3>2. OpenSm2(s) \/ CleanupDilithium(s)
      BY <2>3, <3>1 DEF SaverStep, WriteSm2, SyncSm2, DiscardSm2,
                  EncryptDilithium, OpenDilithium, WriteDilithium,
                  SyncDilithium, DiscardDilithium, CleanupSm2
    <3> QED
      BY <3>2 DEF OpenSm2, CleanupDilithium
  <2> QED
    BY <2>1, <2>2, <2>3 DEF Next
<1> QED
  BY <1>1, InvariantHolds, PTL DEF Spec, PartialStoreIsFinal

-----------------------------------------------------------------------------
(* Power failures *)

\* One step of any call keeps the SM2 file a lock, without assuming that a
\* generation reported as stored is still there.
LEMMA FileInductive == TypeOK /\ FileInv /\ Next => FileInv'
<1> SUFFICES ASSUME TypeOK, FileInv, Next
             PROVE  FileInv'
  OBVIOUS
<1> USE KeyStoreAssumption, FileFacts
    DEF TypeOK, FileInv, NeverMixed, HoldingInv, SavedWhole, ResultInv,
        Holding, Exists
<1>1. ASSUME NEW c \in Calls, CheckArguments(c)
      PROVE  FileInv'
  BY <1>1 DEF CheckArguments
<1>2. ASSUME NEW c \in Calls, LstatDirectory(c)
      PROVE  FileInv'
  BY <1>2 DEF LstatDirectory
<1>3. ASSUME NEW c \in Calls, MakeDirectory(c)
      PROVE  FileInv'
  BY <1>3 DEF MakeDirectory
<1>4. ASSUME NEW c \in Calls, AccessSm2(c)
      PROVE  FileInv'
  BY <1>4 DEF AccessSm2
<1>5. ASSUME NEW c \in Calls, AccessDilithium(c)
      PROVE  FileInv'
  BY <1>5 DEF AccessDilithium
<1>6. ASSUME NEW c \in Calls, Crash(c)
      PROVE  FileInv'
  BY <1>6 DEF Crash
<1>7. ASSUME NEW s \in Savers, OpenSm2(s)
      PROVE  FileInv'
  BY <1>7 DEF OpenSm2
<1>8. ASSUME NEW s \in Savers, WriteSm2(s)
      PROVE  FileInv'
  BY <1>8 DEF WriteSm2
<1>9. ASSUME NEW s \in Savers, SyncSm2(s)
      PROVE  FileInv'
  BY <1>9 DEF SyncSm2
<1>10. ASSUME NEW s \in Savers, DiscardSm2(s)
      PROVE  FileInv'
  BY <1>10 DEF DiscardSm2
<1>11. ASSUME NEW s \in Savers, EncryptDilithium(s)
      PROVE  FileInv'
  BY <1>11 DEF EncryptDilithium
<1>12. ASSUME NEW s \in Savers, OpenDilithium(s)
      PROVE  FileInv'
  BY <1>12 DEF OpenDilithium
<1>13. ASSUME NEW s \in Savers, WriteDilithium(s)
      PROVE  FileInv'
  BY <1>13 DEF WriteDilithium
<1>14. ASSUME NEW s \in Savers, SyncDilithium(s)
      PROVE  FileInv'
  BY <1>14 DEF SyncDilithium
<1>15. ASSUME NEW s \in Savers, DiscardDilithium(s)
      PROVE  FileInv'
  BY <1>15 DEF DiscardDilithium
<1>16. ASSUME NEW s \in Savers, CleanupSm2(s)
      PROVE  FileInv'
  BY <1>16 DEF CleanupSm2
<1>17. ASSUME NEW s \in Savers, CleanupDilithium(s)
      PROVE  FileInv'
  BY <1>17 DEF CleanupDilithium
<1>18. ASSUME NEW l \in Loaders, LoadSm2(l)
      PROVE  FileInv'
  BY <1>18 DEF LoadSm2
<1>19. ASSUME NEW l \in Loaders, LoadDilithium(l)
      PROVE  FileInv'
  BY <1>19 DEF LoadDilithium
<1>20. ASSUME NEW l \in Loaders, SelfTest(l)
      PROVE  FileInv'
  BY <1>20 DEF SelfTest
<1> QED
  BY <1>1, <1>2, <1>3, <1>4, <1>5, <1>6, <1>7, <1>8, <1>9, <1>10,
     <1>11, <1>12, <1>13, <1>14, <1>15, <1>16, <1>17, <1>18, <1>19, <1>20
     DEF Next, CommonStep, SaverStep, LoaderStep

\* The way of a save to its success.
LEMMA WayToSuccess ==
    ASSUME TypeOK, Next, NEW s \in Savers
    PROVE  /\ pc'[s] \in AfterSm2 => pc[s] \in AfterSm2 \/ Sm2Synced(s)
           /\ result'[s] = "ok" => result[s] = "ok" \/ DilithiumSynced(s)
<1> USE KeyStoreAssumption DEF TypeOK, AfterSm2, Sm2Synced, DilithiumSynced
<1>1. ASSUME NEW c \in Calls, CommonStep(c)
      PROVE  /\ pc'[s] \in AfterSm2 => pc[s] \in AfterSm2
             /\ result'[s] = "ok" => result[s] = "ok"
  BY <1>1 DEF CommonStep, CheckArguments, LstatDirectory, MakeDirectory,
              AccessSm2, AccessDilithium, Crash
<1>2. ASSUME NEW l \in Loaders, LoaderStep(l)
      PROVE  pc'[s] = pc[s] /\ result'[s] = result[s]
  BY <1>2 DEF LoaderStep, LoadSm2, LoadDilithium, SelfTest
<1>3. ASSUME NEW t \in Savers, SaverStep(t)
      PROVE  /\ pc'[s] \in AfterSm2 => pc[s] \in AfterSm2 \/ Sm2Synced(s)
             /\ result'[s] = "ok" => result[s] = "ok" \/ DilithiumSynced(s)
  BY <1>3 DEF SaverStep, OpenSm2, WriteSm2, SyncSm2, DiscardSm2,
              EncryptDilithium, OpenDilithium, WriteDilithium,
              SyncDilithium, DiscardDilithium, CleanupSm2, CleanupDilithium
<1> QED
  BY <1>1, <1>2, <1>3 DEF Next

\* A failed unlink is not forgotten.
LEMMA UnlinkFailedStays == Next /\ unlinkFailed => unlinkFailed'
<1>1. ASSUME NEW c \in Calls, CommonStep(c)
      PROVE  UNCHANGED unlinkFailed
  BY <1>1 DEF CommonStep, CheckArguments, LstatDirectory, MakeDirectory,
              AccessSm2, AccessDilithium, Crash
<1>2. ASSUME NEW l \in Loaders, LoaderStep(l)
      PROVE  UNCHANGED unlinkFailed
  BY <1>2 DEF LoaderStep, LoadSm2, LoadDilithium, SelfTest
<1>3. ASSUME NEW s \in Savers, SaverStep(s), unlinkFailed
      PROVE  unlinkFailed'
  BY <1>3 DEF SaverStep, OpenSm2, WriteSm2, SyncSm2, DiscardSm2,
              EncryptDilithium, OpenDilithium, WriteDilithium,
              SyncDilithium, DiscardDilithium, CleanupSm2, CleanupDilithium
<1> QED
  BY <1>1, <1>2, <1>3 DEF Next

\* What is found under a name after a power failure is of the call whose name
\* it was, and whole if that call had fsynced it.
LEMMA SurvivorFacts ==
    ASSUME NEW kind \in Kinds, NEW file \in File, synced \subseteq Kinds \X Savers,
           NEW found \in Survivors(kind, file)
    PROVE  /\ found \in File /\ found.of = file.of
           /\ <<kind, file.of>> \in synced => found = Whole(file.of)
<1>1. CASE <<kind, file.of>> \in synced
  <2>1. file.of \in Savers /\ found = Whole(file.of)
    BY <1>1 DEF Survivors
  <2> QED
    BY <2>1, FileFacts
<1>2. CASE <<kind, file.of>> \notin synced /\ Exists(file)
  <2>1. file.of \in Savers /\ found \in {file, Torn(file.of)}
    BY <1>2, FileFacts DEF Survivors, Exists
  <2> QED
    BY <1>2, <2>1, FileFacts
<1>3. CASE <<kind, file.of>> \notin synced /\ ~Exists(file)
  BY <1>3, FileFacts DEF Survivors, Exists
<1> QED
  BY <1>1, <1>2, <1>3

\* A step of a call keeps what is fsynced in step with what is reported.
LEMMA CallStepInv ==
    ASSUME EnvInv, NEW c \in Calls, CalmStep(c) \/ CallStep(c)
    PROVE  EnvInv'
<1> USE DEF EnvInv
<1>1. Next
  BY DEF CalmStep, CallStep, Step, Next
<1>2. TypeOK' /\ FileInv'
  BY <1>1, TypeInductive, FileInductive
<1>3. /\ UNCHANGED <<calm, onDisk, losses>>
      /\ ~calm => synced' = synced \cup Fsynced
      /\ calm => synced' = synced
  BY DEF CalmStep, CallStep
<1>4. DiskInv'
  BY <1>1, <1>3, UnlinkFailedStays DEF DiskInv
<1>5. synced' \subseteq Kinds \X Savers
  BY <1>3 DEF Fsynced, Kinds
<1>6. SyncInv'
  <2> SUFFICES ASSUME ~calm', NEW s \in Savers
               PROVE  /\ pc'[s] \in AfterSm2 \/ result'[s] = "ok" => <<"sm2", s>> \in synced'
                      /\ result'[s] = "ok" => <<"dil", s>> \in synced'
    BY DEF SyncInv
  <2>1. ~calm /\ synced' = synced \cup Fsynced
    BY <1>3
  <2>2. Sm2Synced(s) => <<"sm2", s>> \in Fsynced
    BY DEF Sm2Synced, Fsynced
  <2>3. DilithiumSynced(s) => <<"dil", s>> \in Fsynced /\ pc[s] \in AfterSm2
    BY DEF DilithiumSynced, Fsynced, AfterSm2
  <2> QED
    BY <1>1, <2>1, <2>2, <2>3, WayToSuccess DEF SyncInv
<1> QED
  BY <1>2, <1>3, <1>4, <1>5, <1>6

\* A power failure ends the calls that held the directory, and leaves names
\* that were there at one moment.
LEMMA PowerLossInv == EnvInv /\ PowerLoss => EnvInv'
<1> SUFFICES ASSUME EnvInv, PowerLoss
             PROVE  EnvInv'
  OBVIOUS
<1> USE DEF EnvInv
<1>1. /\ sm2File' \in File /\ sm2File'.of = onDisk.sm2.of
      /\ <<"sm2", onDisk.sm2.of>> \in synced => sm2File' = Whole(onDisk.sm2.of)
  BY SurvivorFacts DEF PowerLoss, DiskInv, Kinds
<1>2. /\ dilFile' \in File /\ dilFile'.of = onDisk.dil.of
      /\ <<"dil", onDisk.dil.of>> \in synced => dilFile' = Whole(onDisk.dil.of)
  BY SurvivorFacts DEF PowerLoss, DiskInv, Kinds
<1>3. /\ pc' \in [Calls -> {"call", "done", "crashed"}]
      /\ \A c \in Calls : pc[c] \in {"call", "done"} => pc'[c] = pc[c]
      /\ UNCHANGED <<pass, sm2Seen, loaded, result, unlinkFailed, calm, synced>>
      /\ dir' = onDisk.dir
      /\ onDisk' = [dir |-> dir', sm2 |-> sm2File', dil |-> dilFile']
      /\ ~calm /\ losses' = losses + 1
  BY DEF PowerLoss
<1>4. TypeOK'
  BY <1>1, <1>2, <1>3 DEF TypeOK, CommonSteps, DiskInv
<1>5. NeverMixed'
  BY <1>1, <1>2, <1>3 DEF NeverMixed, DiskInv, Exists
<1>6. DiskInv'
  BY <1>1, <1>2, <1>3, <1>5 DEF DiskInv, NeverMixed, Exists
<1>7. ResultInv'
  BY <1>3 DEF FileInv, ResultInv, TypeOK
<1>8. HoldingInv'
  BY <1>3 DEF HoldingInv, Holding
<1>9. SavedWhole'
  BY <1>1, <1>2, <1>3 DEF SavedWhole, SyncInv
<1>10. SyncInv'
  BY <1>3 DEF SyncInv, AfterSm2
<1> QED
  BY <1>3, <1>4, <1>5, <1>6, <1>7, <1>8, <1>9, <1>10 DEF FileInv, SavedWhole

LEMMA EnvInvariant == EnvSpec => []EnvInv
<1>1. EnvInit => EnvInv
  <2> SUFFICES ASSUME EnvInit
               PROVE  EnvInv
    OBVIOUS
  <2>1. TypeOK
    BY FileFacts DEF EnvInit, TypeOK, Init, NothingLoaded, CommonSteps
  <2>2. FileInv
    BY FileFacts DEF EnvInit, Init, FileInv, NeverMixed, HoldingInv, Holding,
                     SavedWhole, ResultInv, Exists
  <2>3. DiskInv
    BY <2>1, FileFacts DEF EnvInit, DiskInv, TypeOK, Exists
  <2>4. SyncInv
    BY DEF EnvInit, Init, SyncInv, AfterSm2
  <2> QED
    BY <2>1, <2>2, <2>3, <2>4, EnvironmentAssumption DEF EnvInit, EnvInv
<1>2. EnvInv /\ [EnvNext]_envVars => EnvInv'
  <2> SUFFICES ASSUME EnvInv, [EnvNext]_envVars
               PROVE  EnvInv'
    OBVIOUS
  <2>1. CASE WriteBack
    BY <2>1 DEF WriteBack, vars, EnvInv, TypeOK, FileInv, NeverMixed, HoldingInv,
                SavedWhole, ResultInv, DiskInv, SyncInv, Exists
  <2>2. CASE UNCHANGED envVars
    BY <2>2 DEF envVars, vars, EnvInv, TypeOK, FileInv, NeverMixed, HoldingInv,
                SavedWhole, ResultInv, DiskInv, SyncInv, Exists
  <2> QED
    BY <2>1, <2>2, CallStepInv, PowerLossInv DEF EnvNext
<1> QED
  BY <1>1, <1>2, PTL DEF EnvSpec

\* Power failures cost hybrid_key_store_save no more than keys that are seen to
\* be missing, and a running save its exclusive hold on the directory never.
THEOREM PowerLossSafe == EnvSpec => []PowerLossIsSafe
<1>1. EnvInv => PowerLossIsSafe
  <2> SUFFICES ASSUME EnvInv
               PROVE  LossIsVisible /\ LockSurvives
    BY DEF PowerLossIsSafe
  <2>1. LossIsVisible
    BY DEF EnvInv, FileInv, SavedWhole, LossIsVisible
  <2>2. LockSurvives
    BY DEF EnvInv, FileInv, NeverMixed, HoldingInv, LockSurvives, Exists
  <2> QED
    BY <2>1, <2>2
<1> QED
  BY <1>1, EnvInvariant, PTL

\* Not even power failures leave two generations mixed in the directory.
THEOREM NeverMixedAcrossLosses == EnvSpec => []NeverMixed
<1>1. EnvInv => NeverMixed
  BY DEF EnvInv, FileInv
<1> QED
  BY <1>1, EnvInvariant, PTL
=============================================================================
