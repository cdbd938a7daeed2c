------------------------------ MODULE KeyStore ------------------------------
(***************************************************************************)
(* The key files of server/storage.c: public.pem and private.enc in a      *)
(* directory per user.  Each file is rewritten in place: opened, which     *)
(* truncates it, and then filled, two steps a crash can fall between.      *)
(***************************************************************************)
EXTENDS DssData

VARIABLES
  pub,  \* public.pem of each user: the key pair it belongs to
  enc   \* private.enc of each user

fileVars == <<pub, enc>>

Whole(f) == f \notin {NoFile, Torn}

\* ks_read_all and ks_file_exists: any file will do, an empty one too.
Exists(f) == f # NoFile

LoginKey(u, p) == [user |-> u, kdf |-> "login", pw |-> p]
BlobKey(u, p) == [user |-> u, kdf |-> "blob", pw |-> p]

\* The key a login derives: a whole version-1 blob provides the salt; without
\* one, or when private.enc cannot be read, the salt is made of the username.
ks_derive_session_key(u, p) ==
  IF Whole(enc[u]) /\ enc[u].ver = 1 THEN BlobKey(u, p) ELSE LoginKey(u, p)

\* ks_decrypt_private_blob_with_key succeeds.
Opens(f, k) == Whole(f) /\ f.wrap = k

\* Mutant: the rewritten blob keeps the version of the one it replaces.
WrappedLegacy(key, k) == [ver |-> 1, key |-> key, wrap |-> k]

\* ks_encrypt_private_pem_with_key: always a version-2 blob.
Wrapped(key, k) == [ver |-> 2, key |-> key, wrap |-> k]

SetPub(u, f) == pub' = [pub EXCEPT ![u] = f]
SetEnc(u, f) == enc' = [enc EXCEPT ![u] = f]

\* ks_create_keys_session creates a pair unless both files exist.
HasBothFiles(u) == Exists(pub[u]) /\ Exists(enc[u])

\* Mutant: the tombstone is not looked at before signing.
CanSignDeleted(u, deleted, k) == deleted \in Flag /\ Opens(enc[u], k)

\* ks_sign_doc_session: not tombstoned, and the private key opens.
CanSign(u, deleted, k) == deleted = 0 /\ Opens(enc[u], k)

=============================================================================
