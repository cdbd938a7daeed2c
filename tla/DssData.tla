------------------------------ MODULE DssData ------------------------------
(***************************************************************************)
(* The data the server's modules share: account records, the key that      *)
(* wraps a private key, and the contents of the two key files of a user.   *)
(***************************************************************************)
EXTENDS Integers

CONSTANTS
  User,       \* the usernames that can appear in the database or a request
  Password,   \* the passwords; a record's pw stands for its salt and hash
  MaxKeys,    \* bound: RSA key pairs generated in a behaviour
  NoAccount,  \* the entry of a username the account table does not hold
  NoFile,     \* the content of a key file that does not exist
  Torn        \* the content of a key file left empty or partly written

Flag == 0 .. 1

Account == [pw : Password, must_change : Flag, deleted : Flag]

\* A table of accounts: usernames are unique, so a function from usernames.
Table == [User -> Account \cup {NoAccount}]

\* Key pair 0 is the one a user may own at the start; the others are generated.
KeyId == 0 .. MaxKeys

\* The key that wraps a private key: PBKDF2 of the password with the salt
\* "dss-session:<user>" ("login") or with the salt in a version-1 blob ("blob").
WrapKey == [user : User, kdf : {"login", "blob"}, pw : Password]

\* private.enc: format version, the key pair inside, the key it is wrapped with.
Blob == [ver : 1 .. 2, key : KeyId, wrap : WrapKey]

PubFile == KeyId \cup {NoFile, Torn}
EncFile == Blob \cup {NoFile, Torn}

ASSUME MaxKeysAssumption == MaxKeys \in Nat
ASSUME NoAccountAssumption == NoAccount \notin Account
ASSUME FileAssumption ==
  /\ {NoFile, Torn} \cap KeyId = {}
  /\ {NoFile, Torn} \cap Blob = {}
  /\ NoFile # Torn

=============================================================================
