------------------------------ MODULE KeyFile -------------------------------
(***************************************************************************)
(* What the two encrypted key stores of src/hybrid_key_store.c share: the  *)
(* calls that use them, their passphrases, and a private key file.  A save *)
(* stores a key of its own, so the call names the key.                     *)
(***************************************************************************)
CONSTANTS
    Savers,             \* calls that save a key
    Loaders,            \* calls that load it
    GoodPassphrases,    \* passphrases of at least 12 bytes
    LongPassphrases,    \* those that do not fit the buffer of the PEM reader
    ShortPassphrases,   \* passphrases that passphrase_valid refuses
    NoKey               \* no key material

ASSUME KeyStoreAssumption ==
    /\ Savers \cap Loaders = {}
    /\ NoKey \notin Savers
    /\ LongPassphrases \subseteq GoodPassphrases

Calls == Savers \cup Loaders
Passphrases == GoodPassphrases \cup ShortPassphrases

\* passphrase_valid: at least 12 bytes.
passphrase_valid(phrase) == phrase \in GoodPassphrases

\* password_callback, which only the reading side of the PKCS#8 file uses: a
\* passphrase longer than the buffer it is given is refused.
password_callback(phrase) == phrase \notin LongPassphrases

\* A file is absent, or holds the key of one call, completely or in part.
Absent == [of |-> NoKey, whole |-> FALSE]
Torn(s) == [of |-> s, whole |-> FALSE]
Whole(s) == [of |-> s, whole |-> TRUE]
File == {Absent} \cup [of : Savers, whole : BOOLEAN]
Exists(file) == file.of # NoKey
=============================================================================
