------------------------------- MODULE Registry -------------------------------
(***************************************************************************)
(* The algorithm registry: read-only tables from one-octet protocol ids   *)
(* to algorithm handles, populated once before use (spec.md 4.1).  The    *)
(* codecs only ask whether an id is in a table and, for a hash, whether   *)
(* its handle is a CryptoHash, so a handle is its name.  hashNames and    *)
(* HashById are two tables kept by hand over the same ids.                *)
(***************************************************************************)
EXTENDS Integers, TLC

\* hash.go HashById: every entry is a CryptoHash, keyed by its own Id().
HashById ==
  (1 :> "MD5") @@ (2 :> "SHA1") @@ (3 :> "RIPEMD160") @@ (8 :> "SHA256") @@
  (9 :> "SHA384") @@ (10 :> "SHA512") @@ (11 :> "SHA224")

\* hash.go hashNames: the name CryptoHash.String gives each id.
hashNames ==
  (1 :> "MD5") @@ (2 :> "SHA1") @@ (3 :> "RIPEMD160") @@ (8 :> "SHA256") @@
  (9 :> "SHA384") @@ (10 :> "SHA512") @@ (11 :> "SHA224")

\* CryptoHash.String: the name of the hash's id; an id hashNames lacks
\* panics ("Unsupported hash function").
String(id) == IF id \in DOMAIN hashNames THEN hashNames[id] ELSE "Panic"

\* RFC 4880 9.1 public-key algorithm ids (algorithm.PublicKeyById).
PublicKeyById ==
  (1 :> "RSA") @@ (2 :> "RSAEncryptOnly") @@ (3 :> "RSASignOnly") @@
  (16 :> "ElGamal") @@ (17 :> "DSA") @@ (19 :> "ECDSA")
===============================================================================
