-------------------------- MODULE Sm2KeyStoreProof --------------------------
(***************************************************************************)
(* The SM2 key store implements the write-once store, for any number of    *)
(* calls.  The invariant says who owns the file: the call that created it, *)
(* until it has unlinked it.  Every step of the store is then a step of    *)
(* the write-once store (the save's fsync stores, a load's read gives) or  *)
(* leaves it unchanged.                                                    *)
(***************************************************************************)
EXTENDS Sm2KeyStore, TLAPS

\* The three kinds of file contents are files, and can be told apart.
LEMMA FileFacts ==
    /\ Absent \in File
    /\ Absent.of = NoKey
    /\ \A s \in Savers : /\ Torn(s) \in File
                         /\ Whole(s) \in File
                         /\ Torn(s).of = s
                         /\ Whole(s).of = s
    /\ \A file \in File : file.of # NoKey => file.of \in Savers
    /\ \A file \in File : file.whole => file.of \in Savers
  BY KeyStoreAssumption DEF File, Absent, Torn, Whole

\* A call is a save or a load, never both.
LEMMA CallFacts ==
    /\ \A s \in Savers : s \in Calls /\ s \notin Loaders /\ s # NoKey
    /\ \A l \in Loaders : l \in Calls /\ l \notin Savers
    /\ \A c \in Calls : c \in Savers \/ c \in Loaders
  BY KeyStoreAssumption DEF Calls

\* One step of any call keeps the state well-formed.
LEMMA TypeInductive == TypeOK /\ [Next]_vars => TypeOK'
<1> SUFFICES ASSUME TypeOK, [Next]_vars
             PROVE  TypeOK'
  OBVIOUS
<1> USE CallFacts DEF TypeOK, Steps, Goto, Return
<1>1. ASSUME NEW c \in Calls, CheckArguments(c)
      PROVE  TypeOK'
  BY <1>1 DEF CheckArguments, Passphrases
<1>2. ASSUME NEW c \in Calls, Access(c)
      PROVE  TypeOK'
  BY <1>2 DEF Access
<1>3. ASSUME NEW c \in Calls, LstatDirectory(c)
      PROVE  TypeOK'
  BY <1>3 DEF LstatDirectory
<1>4. ASSUME NEW c \in Calls, Crash(c)
      PROVE  TypeOK'
  BY <1>4 DEF Crash
<1>5. ASSUME NEW s \in Savers, MakeDirectory(s)
      PROVE  TypeOK'
  BY <1>5 DEF MakeDirectory
<1>6. ASSUME NEW s \in Savers, Open(s)
      PROVE  TypeOK'
  BY FileFacts, <1>6 DEF Open
<1>7. ASSUME NEW s \in Savers, Write(s)
      PROVE  TypeOK'
  BY FileFacts, <1>7 DEF Write
<1>8. ASSUME NEW s \in Savers, Sync(s)
      PROVE  TypeOK'
  BY <1>8 DEF Sync
<1>9. ASSUME NEW s \in Savers, Discard(s)
      PROVE  TypeOK'
  BY FileFacts, <1>9 DEF Discard
<1>10. ASSUME NEW l \in Loaders, Load(l)
       PROVE  TypeOK'
  BY FileFacts, <1>10 DEF Load
<1>11. CASE UNCHANGED vars
  BY <1>11 DEF vars
<1> QED
  BY <1>1, <1>2, <1>3, <1>4, <1>5, <1>6, <1>7, <1>8, <1>9, <1>10, <1>11
     DEF Next

\* One step keeps the owner of the file the owner, and finished calls finished.
LEMMA OwnerInductive == IInv /\ [Next]_vars => OwnerInv' /\ CallInv'
<1> SUFFICES ASSUME IInv, [Next]_vars
             PROVE  OwnerInv' /\ CallInv'
  OBVIOUS
<1> USE CallFacts DEF IInv, TypeOK, OwnerInv, CallInv, Owns, At, Goto, Return
<1>1. ASSUME NEW c \in Calls, CheckArguments(c)
      PROVE  OwnerInv' /\ CallInv'
  BY <1>1 DEF CheckArguments
<1>2. ASSUME NEW c \in Calls, Access(c)
      PROVE  OwnerInv' /\ CallInv'
  BY <1>2 DEF Access
<1>3. ASSUME NEW c \in Calls, LstatDirectory(c)
      PROVE  OwnerInv' /\ CallInv'
  BY <1>3 DEF LstatDirectory
<1>4. ASSUME NEW c \in Calls, Crash(c)
      PROVE  OwnerInv' /\ CallInv'
  BY <1>4 DEF Crash
<1>5. ASSUME NEW s \in Savers, MakeDirectory(s)
      PROVE  OwnerInv' /\ CallInv'
  BY <1>5 DEF MakeDirectory
<1>6. ASSUME NEW s \in Savers, Open(s)
      PROVE  OwnerInv' /\ CallInv'
  BY FileFacts, <1>6 DEF Open, Exists
<1>7. ASSUME NEW s \in Savers, Write(s)
      PROVE  OwnerInv' /\ CallInv'
  BY FileFacts, <1>7 DEF Write
<1>8. ASSUME NEW s \in Savers, Sync(s)
      PROVE  OwnerInv' /\ CallInv'
  BY <1>8 DEF Sync
<1>9. ASSUME NEW s \in Savers, Discard(s)
      PROVE  OwnerInv' /\ CallInv'
  BY FileFacts, <1>9 DEF Discard
<1>10. ASSUME NEW l \in Loaders, Load(l)
       PROVE  OwnerInv' /\ CallInv'
  BY <1>10 DEF Load
<1>11. CASE UNCHANGED vars
  BY <1>11 DEF vars
<1> QED
  BY <1>1, <1>2, <1>3, <1>4, <1>5, <1>6, <1>7, <1>8, <1>9, <1>10, <1>11
     DEF Next

\* The inductive invariant holds in every reachable state of
\* hybrid_sm2_key_store_save and hybrid_sm2_key_store_load, for any number of
\* concurrent calls.
THEOREM InvariantHolds == Spec => []IInv
<1>1. Init => IInv
  BY FileFacts, CallFacts DEF Init, IInv, TypeOK, Steps, OwnerInv, CallInv, Owns
<1>2. IInv /\ [Next]_vars => IInv'
  BY TypeInductive, OwnerInductive DEF IInv
<1> QED
  BY <1>1, <1>2, PTL DEF Spec

-----------------------------------------------------------------------------
\* The save that returned 1 is the only one, and Stored is its key.
LEMMA StoredIsTheOne ==
    ASSUME OwnerInv, NEW s \in Savers, result[s] = "ok"
    PROVE  Stored = s
<1>1. \A t \in Savers : result[t] = "ok" => t = s
  BY DEF OwnerInv, Owns
<1> QED
  BY <1>1 DEF Stored

\* Where no save has returned 1, nothing is stored.
LEMMA NothingStored ==
    ASSUME \A s \in Savers : result[s] # "ok"
    PROVE  Stored = NoKey
  BY DEF Stored

\* A step that leaves the results of the saves alone stores nothing.
LEMMA StoredUnchanged ==
    ASSUME \A s \in Savers : result'[s] = "ok" <=> result[s] = "ok",
           OwnerInv, OwnerInv'
    PROVE  Stored' = Stored
<1>1. CASE \E s \in Savers : result[s] = "ok"
  <2> PICK s \in Savers : result[s] = "ok"
    BY <1>1
  <2>1. Stored = s
    BY StoredIsTheOne
  <2>2. \A t \in Savers : result'[t] = "ok" => t = s
    BY DEF OwnerInv, Owns
  <2>3. Stored' = s
    BY <2>2 DEF Stored
  <2> QED
    BY <2>1, <2>3
<1>2. CASE ~\E s \in Savers : result[s] = "ok"
  BY <1>2 DEF Stored
<1> QED
  BY <1>1, <1>2

\* Every step of the SM2 key store is a step of the write-once store.
LEMMA StepRefines ==
    ASSUME IInv, IInv', [Next]_vars
    PROVE  [W!Next]_(W!vars)
<1> USE CallFacts DEF IInv, TypeOK, W!vars
<1>1. ASSUME NEW s \in Savers, Sync(s), result'[s] = "ok"
      PROVE  W!Next
  <2>1. \A t \in Savers : result[t] # "ok"
    BY <1>1 DEF OwnerInv, CallInv, Owns, Sync, At
  <2>2. Stored = NoKey
    BY <2>1, NothingStored
  <2>3. \A t \in Savers : result'[t] = "ok" => t = s
    BY <1>1, <2>1 DEF Sync, Return, Goto
  <2>4. Stored' = s
    BY <1>1, <2>3 DEF Stored
  <2>5. UNCHANGED loaded
    BY <1>1 DEF Sync
  <2> QED
    BY <2>2, <2>4, <2>5 DEF W!Next, W!Store
<1>2. ASSUME NEW l \in Loaders, Load(l), loaded' # loaded
      PROVE  W!Next
  <2> DEFINE k == sm2File.of
  <2>1. /\ k \in Savers
        /\ loaded' = [loaded EXCEPT ![l] = k]
    BY <1>2, FileFacts DEF Load
  <2>2. loaded[l] = NoKey
    BY <1>2 DEF CallInv, Load, At
  <2>3. \A s \in Savers : result'[s] = "ok" <=> result[s] = "ok"
    BY <1>2 DEF Load, Return
  <2>4. Stored' = Stored
    BY <2>3, StoredUnchanged
  <2>5. Stored # NoKey => k = Stored
    <3>1. CASE \E s \in Savers : result[s] = "ok"
      BY <3>1, StoredIsTheOne DEF OwnerInv, Owns
    <3>2. CASE ~\E s \in Savers : result[s] = "ok"
      BY <3>2, NothingStored
    <3> QED
      BY <3>1, <3>2
  <2> QED
    BY <2>1, <2>2, <2>4, <2>5 DEF W!Next, W!Give
<1>3. ASSUME \A s \in Savers : result'[s] = "ok" <=> result[s] = "ok",
             UNCHANGED loaded
      PROVE  UNCHANGED W!vars
  BY <1>3, StoredUnchanged
<1>4. ASSUME NEW c \in Calls,
             CheckArguments(c) \/ Access(c) \/ LstatDirectory(c) \/ Crash(c)
      PROVE  /\ \A s \in Savers : result'[s] = "ok" <=> result[s] = "ok"
             /\ UNCHANGED loaded
  BY <1>4 DEF CheckArguments, Access, LstatDirectory, Crash, Goto, Return,
              At, CallInv
<1>5. ASSUME NEW s \in Savers,
             MakeDirectory(s) \/ Open(s) \/ Write(s) \/ Discard(s)
      PROVE  /\ \A t \in Savers : result'[t] = "ok" <=> result[t] = "ok"
             /\ UNCHANGED loaded
  BY <1>5 DEF MakeDirectory, Open, Write, Discard, Goto, Return, At, CallInv
<1>6. ASSUME NEW s \in Savers, Sync(s), result'[s] # "ok"
      PROVE  /\ \A t \in Savers : result'[t] = "ok" <=> result[t] = "ok"
             /\ UNCHANGED loaded
  BY <1>6 DEF Sync, Goto, Return, At, CallInv
<1>7. ASSUME NEW l \in Loaders, Load(l), loaded' = loaded
      PROVE  \A t \in Savers : result'[t] = "ok" <=> result[t] = "ok"
  BY <1>7 DEF Load, Return
<1>8. CASE UNCHANGED vars
  BY <1>8, <1>3 DEF vars
<1> QED
  BY <1>1, <1>2, <1>3, <1>4, <1>5, <1>6, <1>7, <1>8 DEF Next

\* The SM2 key store implements the write-once store: at most one save ever
\* returns 1, its key stays, and every later load is given that key or fails.
THEOREM Sm2StoreIsWriteOnce == Spec => ImplementsWriteOnce
<1>1. Init => W!Init
  BY CallFacts DEF Init, W!Init, Stored
<1>2. IInv /\ IInv' /\ [Next]_vars => [W!Next]_(W!vars)
  BY StepRefines
<1> QED
  BY <1>1, <1>2, InvariantHolds, PTL DEF Spec, ImplementsWriteOnce, W!Spec

\* A file left by a save that died, or could not unlink it, is never replaced or removed: only its own
\* call unlinks a file, and O_EXCL keeps the others from writing it.
THEOREM LeftoverStays == Spec => LeftoverIsFinal
<1> DEFINE Left(s) == pc[s] = "crashed" \/ result[s] = "fail"
<1>1. ASSUME IInv, [Next]_vars,
             NEW s \in Savers, sm2File.of = s, Left(s)
      PROVE  UNCHANGED sm2File
  <2>1. \A t \in Savers : ~At(t, "write") /\ ~At(t, "discard")
    BY <1>1, CallFacts DEF IInv, OwnerInv, CallInv, Owns, At
  <2>2. Exists(sm2File)
    BY <1>1, CallFacts DEF Exists
  <2>3. CASE \E c \in Calls : \/ CheckArguments(c) \/ Access(c)
                              \/ LstatDirectory(c) \/ Crash(c)
    BY <2>3 DEF CheckArguments, Access, LstatDirectory, Crash
  <2>4. CASE \E t \in Savers : \/ MakeDirectory(t) \/ Open(t) \/ Write(t)
                               \/ Sync(t) \/ Discard(t)
    BY <2>1, <2>2, <2>4 DEF MakeDirectory, Open, Write, Sync, Discard
  <2>5. CASE \E l \in Loaders : Load(l)
    BY <2>5 DEF Load
  <2>6. CASE UNCHANGED vars
    BY <2>6 DEF vars
  <2> QED
    BY <1>1, <2>3, <2>4, <2>5, <2>6 DEF Next
<1>2. IInv /\ [Next]_vars =>
        [(\E s \in Savers : sm2File.of = s /\ Left(s))
            => UNCHANGED sm2File]_vars
  BY <1>1
<1> QED
  BY <1>2, InvariantHolds, PTL DEF Spec, LeftoverIsFinal
=============================================================================
