------------------------------ MODULE PrivateKey ------------------------------
(***************************************************************************)
(* The private-key packet codec of package packet (private_key.go): one   *)
(* PrivateKey value as parse, Decrypt and Serialize leave it.             *)
(*                                                                         *)
(* Data abstraction.  A packet body after the public-key portion is a     *)
(* record w with                                                          *)
(*   pub    - the public portion [algo, n, e] (n, e: RSA modulus/exponent);*)
(*   usage  - the s2k usage byte; cipher - the cipher id byte;            *)
(*   cut    - where the byte stream ends early ("none": it does not);     *)
(*   rest   - the remaining bytes: [mpis, trailer, len, pass], where mpis  *)
(*            is the sequence of MPIs they hold, trailer the checksum     *)
(*            mode whose trailer is correct for them ("sha1", "sum16",    *)
(*            or "none"), len their length in bytes and pass the          *)
(*            passphrase they were encrypted under (Nil: none, e.g. a     *)
(*            corrupted blob).                                            *)
(* The S2K function is injective: decrypting with passphrase p recovers   *)
(* the plaintext iff p = rest.pass.  With any other key the CFB output is *)
(* garbage: it parses as some member of GarbageBodies, its SHA-1 trailer  *)
(* never matches, and its 16-bit additive trailer may match by chance.    *)
(***************************************************************************)
EXTENDS Integers, Sequences, FiniteSets, Functions

CONSTANTS
  Passphrases,     \* passphrases a caller passes to Decrypt
  Wires,           \* packet bodies the framed packet reader delivers
  PublicKeyAlgos,  \* algorithms the public-key parser accepts
  CipherById,      \* registry: cipher id -> [blockSize, keySize]
  GarbageBodies,   \* MPI sequences garbage plaintext may parse as
  OwnKeys,         \* [pub, key]: keys a caller holds and wraps with New*
  Nil

RSAFamily == {"RSA", "RSASignOnly", "RSAEncryptOnly"}
ScalarFamily == {"DSA", "ElGamal", "ECDSA"}

Errors == {"None", "IO", "Unsupported", "Truncated", "Checksum",
           "RSAInvalid", "InvalidArgument", "Panic"}
\* The errors the errors.StructuralError type stands for.
StructuralErrors == {"Truncated", "Checksum"}

Secret == [d : Nat, primes : Seq(Nat), qinv : Nat]

VARIABLES
  pk,          \* the PrivateKey the caller holds, or Nil
  result,      \* the last call: [op, arg, err, fromOut]
  out,         \* the last packet body Serialize wrote, or Nil
  serialized   \* the secret that body was written from (history)

vars == <<pk, result, out, serialized>>

-----------------------------------------------------------------------------
(* Length, in bytes, of an MPI holding v < 256: two length octets and     *)
(* ceil(bits/8) value octets.                                             *)
MPILen(v) == 2 + (IF v = 0 THEN 0 ELSE 1)

RECURSIVE MPIsLen(_)
MPIsLen(s) == IF s = <<>> THEN 0 ELSE MPILen(Head(s)) + MPIsLen(Tail(s))

TrailerLen == [sha1 |-> 20, sum16 |-> 2]

\* The checksum mode sha1Checksum selects.
Mode(p) == IF p.sha1Checksum THEN "sha1" ELSE "sum16"

\* What a successful algorithm-specific parse leaves in the packet.
Unlocked(p, key) ==
  [p EXCEPT !.PrivateKey = key, !.Encrypted = FALSE, !.encryptedData = Nil]

\* Fault: Validate without the prime > 1 check (the Go 1.4 code behind
\* TestIssue11505): big.Int.Mod by prime - 1 = 0 panics.
ValidateNoPrimeCheck(pub, key) ==
  IF key.primes[1] * key.primes[2] # pub.n THEN "RSAInvalid"
  ELSE IF \E i \in 1..2 : key.primes[i] = 1 THEN "Panic"
  ELSE IF \E i \in 1..2 : (key.d * pub.e) % (key.primes[i] - 1) # 1
       THEN "RSAInvalid"
  ELSE "None"

\* rsa.(*PrivateKey).Validate: primes above 1, modulus = product of the
\* primes, d*e = 1 mod (prime - 1) for each prime; the first check keeps
\* the third from dividing by zero.
Validate(pub, key) ==
  IF \E i \in 1..2 : key.primes[i] <= 1 THEN "RSAInvalid"
  ELSE IF key.primes[1] * key.primes[2] # pub.n THEN "RSAInvalid"
  ELSE IF \E i \in 1..2 : (key.d * pub.e) % (key.primes[i] - 1) # 1
       THEN "RSAInvalid"
  ELSE "None"

\* rsa.(*PrivateKey).Precompute: Qinv = Primes[1]^-1 mod Primes[0].
Precompute(key) ==
  LET p == key.primes[1]
      q == key.primes[2]
  IN [key EXCEPT !.qinv =
        IF \E x \in 1..(p - 1) : (q * x) % p = 1
        THEN CHOOSE x \in 1..(p - 1) : (q * x) % p = 1 ELSE 0]

\* Fault: the key is installed without calling Validate.
ParseRSAPrivateKeyNoValidate(p, body) ==
  IF Len(body) < 3 THEN [err |-> "IO", pk |-> p]
  ELSE LET key == [d |-> body[1], primes |-> <<body[2], body[3]>>, qinv |-> 0]
       IN [err |-> "None", pk |-> Unlocked(p, Precompute(key))]

\* Fault: pk.PrivateKey and pk.Encrypted are assigned before Validate runs.
ParseRSAPrivateKeyEarlyInstall(p, body) ==
  IF Len(body) < 3 THEN [err |-> "IO", pk |-> p]
  ELSE LET key == [d |-> body[1], primes |-> <<body[2], body[3]>>, qinv |-> 0]
       IN [err |-> Validate(p.pub, key), pk |-> Unlocked(p, Precompute(key))]

\* parseRSAPrivateKey: three MPIs d, p, q in this order into D, Primes[0],
\* Primes[1]; the packet changes only after Validate accepts them.
ParseRSAPrivateKey(p, body) ==
  IF Len(body) < 3 THEN [err |-> "IO", pk |-> p]
  ELSE LET key == [d |-> body[1], primes |-> <<body[2], body[3]>>, qinv |-> 0]
       IN IF Validate(p.pub, key) # "None"
          THEN [err |-> Validate(p.pub, key), pk |-> p]
          ELSE [err |-> "None", pk |-> Unlocked(p, Precompute(key))]

\* Fault: pk.encryptedData = nil is left out.
ParseScalarPrivateKeyKeepsData(p, body) ==
  IF body = <<>> THEN [err |-> "IO", pk |-> p]
  ELSE [err |-> "None",
        pk |-> [p EXCEPT !.PrivateKey = [d |-> body[1], primes |-> <<>>,
                                         qinv |-> 0],
                         !.Encrypted = FALSE]]

\* parseDSAPrivateKey, parseElGamalPrivateKey, parseECDSAPrivateKey: one
\* MPI, the private scalar, with no further check.
ParseScalarPrivateKey(p, body) ==
  IF body = <<>> THEN [err |-> "IO", pk |-> p]
  ELSE [err |-> "None",
        pk |-> Unlocked(p, [d |-> body[1], primes |-> <<>>, qinv |-> 0])]

\* Fault: the ECDSA arm added by this fork is missing from the switch.
ParsePrivateKeyNoECDSA(p, body) ==
  IF p.pub.algo \in RSAFamily THEN ParseRSAPrivateKey(p, body)
  ELSE IF p.pub.algo \in ScalarFamily \ {"ECDSA"}
       THEN ParseScalarPrivateKey(p, body)
  ELSE [err |-> "Panic", pk |-> p]

\* parsePrivateKey: dispatch on the public key's algorithm; any other
\* algorithm reaches panic("impossible").
ParsePrivateKey(p, body) ==
  IF p.pub.algo \in RSAFamily THEN ParseRSAPrivateKey(p, body)
  ELSE IF p.pub.algo \in ScalarFamily THEN ParseScalarPrivateKey(p, body)
  ELSE [err |-> "Panic", pk |-> p]

\* parse: the checks in the order the code makes them, each with the error
\* it returns; the first that fails ends the parse.
ParseChecks(w) ==
  LET enc == w.usage \in {254, 255}
  IN << [fails |-> w.cut = "pub", err |-> "IO"],
        [fails |-> w.pub.algo \notin PublicKeyAlgos, err |-> "Unsupported"],
        [fails |-> w.cut = "usage", err |-> "IO"],
        [fails |-> w.usage \notin {0, 254, 255}, err |-> "Unsupported"],
        [fails |-> enc /\ w.cut = "cipher", err |-> "IO"],
        [fails |-> enc /\ w.cipher \notin DOMAIN CipherById,
         err |-> "Unsupported"],
        [fails |-> enc /\ w.cut = "s2k", err |-> "IO"],
        [fails |-> enc /\ w.cipher \in DOMAIN CipherById
                       /\ CipherById[w.cipher].blockSize = 0,
         err |-> "Unsupported"],
        [fails |-> enc /\ w.cut = "iv", err |-> "IO"] >>

\* Fault: encryptedData keeps the whole body, not the bytes after the IV.
ParsePacketWholeBody(w) ==
  LET failed == SelectSeq(ParseChecks(w), LAMBDA c : c.fails)
      enc == w.usage \in {254, 255}
      p == [pub |-> w.pub, Encrypted |-> enc,
            cipher |-> IF enc THEN w.cipher ELSE Nil,
            sha1Checksum |-> w.usage = 254,
            encryptedData |-> w, PrivateKey |-> Nil]
  IN IF failed # <<>> THEN [err |-> Head(failed).err, pk |-> Nil]
     ELSE IF enc THEN [err |-> "None", pk |-> p]
     ELSE ParsePrivateKey(p, w.rest.mpis)

ParsePacket(w) ==
  LET failed == SelectSeq(ParseChecks(w), LAMBDA c : c.fails)
      enc == w.usage \in {254, 255}
      p == [pub |-> w.pub, Encrypted |-> enc,
            cipher |-> IF enc THEN w.cipher ELSE Nil,
            sha1Checksum |-> w.usage = 254,
            encryptedData |-> w.rest, PrivateKey |-> Nil]
  IN IF failed # <<>> THEN [err |-> Head(failed).err, pk |-> Nil]
     ELSE IF enc THEN [err |-> "None", pk |-> p]
     ELSE ParsePrivateKey(p, w.rest.mpis)

\* The CFB decryption of blob under the key derived from pass.
Decipher(blob, pass) ==
  IF pass = blob.pass THEN {blob}
  ELSE {[blob EXCEPT !.mpis = g, !.trailer = t] :
          g \in GarbageBodies, t \in {"sum16", "none"}}

\* Fault: the SHA-1 branch checks the length but never compares digests.
DecryptDataNoDigestCompare(p, data) ==
  IF data.len < TrailerLen[Mode(p)] THEN [err |-> "Truncated", pk |-> p]
  ELSE IF Mode(p) = "sum16" /\ data.trailer # "sum16"
       THEN [err |-> "Checksum", pk |-> p]
  ELSE ParsePrivateKey(p, data.mpis)

\* Decrypt after the keystream: length check and trailer check for the
\* packet's checksum mode, then the algorithm-specific parse.
DecryptData(p, data) ==
  IF data.len < TrailerLen[Mode(p)] THEN [err |-> "Truncated", pk |-> p]
  ELSE IF data.trailer # Mode(p) THEN [err |-> "Checksum", pk |-> p]
  ELSE ParsePrivateKey(p, data.mpis)

\* Fault: serializeRSAPrivateKey writes Primes[1] twice.
SecretMPIsPrimeTwice(p) ==
  LET k == p.PrivateKey
  IN IF p.pub.algo \in RSAFamily
     THEN <<k.d, k.primes[2], k.primes[2], k.qinv>>
     ELSE <<k.d>>

\* serializeRSAPrivateKey and friends: the secret MPIs in write order.
SecretMPIs(p) ==
  LET k == p.PrivateKey
  IN IF p.pub.algo \in RSAFamily
     THEN <<k.d, k.primes[2], k.primes[1], k.qinv>>
     ELSE <<k.d>>

\* Serialize: public portion, usage byte 0, the secret MPIs and their
\* 16-bit additive checksum.
SerializedPacket(p) ==
  [pub |-> p.pub, usage |-> 0, cipher |-> 0, cut |-> "none",
   rest |-> [mpis |-> SecretMPIs(p), trailer |-> "sum16",
             len |-> MPIsLen(SecretMPIs(p)) + 2, pass |-> Nil]]

-----------------------------------------------------------------------------
Init ==
  /\ pk = Nil
  /\ result = [op |-> "None", arg |-> Nil, err |-> "None", fromOut |-> FALSE]
  /\ out = Nil
  /\ serialized = Nil

\* NewRSAPrivateKey, NewDSAPrivateKey, NewElGamalPrivateKey and
\* NewECDSAPrivateKey: the public part from the caller's public key and
\* the caller's private key as given; every other field keeps its zero
\* value, so the packet is not encrypted.
NewPrivateKey(own) ==
  /\ pk' = [pub |-> own.pub, Encrypted |-> FALSE, cipher |-> Nil,
            sha1Checksum |-> FALSE, encryptedData |-> Nil,
            PrivateKey |-> own.key]
  /\ result' = [op |-> "New", arg |-> Nil, err |-> "None", fromOut |-> FALSE]
  /\ UNCHANGED <<out, serialized>>

\* Read hands the body w to (*PrivateKey).parse; on error the caller gets
\* no packet.
Parse(w) ==
  LET r == ParsePacket(w)
  IN /\ pk' = IF r.err = "None" THEN r.pk ELSE Nil
     /\ result' = [op |-> "Parse", arg |-> Nil, err |-> r.err,
                   fromOut |-> w = out]
     /\ UNCHANGED <<out, serialized>>

\* Decrypt on a packet that is not encrypted returns nil at once.
DecryptNoop(pass) ==
  /\ pk # Nil
  /\ ~pk.Encrypted
  /\ result' = [op |-> "Decrypt", arg |-> pass, err |-> "None",
                fromOut |-> FALSE]
  /\ UNCHANGED <<pk, out, serialized>>

Decrypt(pass) ==
  /\ pk # Nil
  /\ pk.Encrypted
  /\ \E data \in Decipher(pk.encryptedData, pass) :
       LET r == DecryptData(pk, data)
       IN /\ pk' = r.pk
          /\ result' = [op |-> "Decrypt", arg |-> pass, err |-> r.err,
                        fromOut |-> FALSE]
  /\ UNCHANGED <<out, serialized>>

Serialize ==
  /\ pk # Nil
  /\ pk.PrivateKey # Nil
  /\ out' = SerializedPacket(pk)
  /\ serialized' = pk.PrivateKey
  /\ result' = [op |-> "Serialize", arg |-> Nil, err |-> "None",
                fromOut |-> FALSE]
  /\ UNCHANGED pk

\* The type switch on PrivateKey finds no key: InvalidArgumentError, and
\* nothing is written.
SerializeUnknownKey ==
  /\ pk # Nil
  /\ pk.PrivateKey = Nil
  /\ result' = [op |-> "Serialize", arg |-> Nil, err |-> "InvalidArgument",
                fromOut |-> FALSE]
  /\ UNCHANGED <<pk, out, serialized>>

Next ==
  \/ \E own \in OwnKeys : NewPrivateKey(own)
  \/ \E w \in Wires : Parse(w)
  \/ out # Nil /\ Parse(out)
  \/ \E pass \in Passphrases : DecryptNoop(pass) \/ Decrypt(pass)
  \/ Serialize
  \/ SerializeUnknownKey

Spec == Init /\ [][Next]_vars

-----------------------------------------------------------------------------
TypeOK ==
  /\ pk = Nil \/
     pk \in [pub : [algo : STRING, n : Nat, e : Nat], Encrypted : BOOLEAN,
            cipher : Nat \cup {Nil}, sha1Checksum : BOOLEAN,
            encryptedData : [mpis : Seq(Nat), trailer : STRING, len : Nat,
                             pass : Passphrases \cup {Nil}] \cup {Nil},
            PrivateKey : Secret \cup {Nil}]
  /\ result \in [op : {"None", "New", "Parse", "Decrypt", "Serialize"},
                 arg : Passphrases \cup {Nil}, err : Errors,
                 fromOut : BOOLEAN]
  /\ serialized \in Secret \cup {Nil}

(* spec.md 3: a packet is encrypted exactly when it still holds the       *)
(* encrypted blob and no secret material.  parse, every parse*PrivateKey  *)
(* and Decrypt each set part of this; all paths must agree.               *)
EncryptedConsistency ==
  pk # Nil =>
    /\ pk.Encrypted <=> pk.encryptedData # Nil
    /\ pk.Encrypted <=> pk.PrivateKey = Nil

(* Every RSA key the packet exposes, from a cleartext parse, a decrypt or *)
(* a re-parse of serialized output, is consistent with the public key:    *)
(* primes above 1 whose product is the modulus, and the CRT coefficient   *)
(* Precompute derives from them (parseRSAPrivateKey's Validate call).     *)
(* A key wrapped with NewRSAPrivateKey is the caller's and is taken valid. *)
RSAKeyValid ==
  (pk # Nil /\ pk.PrivateKey # Nil /\ pk.pub.algo \in RSAFamily) =>
    LET k == pk.PrivateKey IN
    /\ \A i \in 1..2 : k.primes[i] > 1
    /\ k.primes[1] * k.primes[2] = pk.pub.n
    /\ (k.primes[2] * k.qinv) % k.primes[1] = 1

(* spec.md 4.2 and 7: no packet the public-key parser hands on makes     *)
(* parse, Decrypt or Serialize panic: parsePrivateKey's panic is only for *)
(* algorithms that parser already rejects, and a prime of 1               *)
(* (TestIssue11505) is a validation error.                                *)
NoPanic == result.err # "Panic"

(* spec.md 4.2: a Decrypt that fails leaves no trace of partial           *)
(* decryption; the packet is as it was before the call.                   *)
DecryptAtomic ==
  [][result'.op = "Decrypt" /\ result'.err # "None" => pk' = pk]_vars

(* spec.md 8: parsing what Serialize wrote succeeds and yields the same   *)
(* secret: the same exponent and the same primes (their order may differ, *)
(* see RoundTripIdentical).                                               *)
RoundTripEquivalent ==
  (result.op = "Parse" /\ result.fromOut) =>
    /\ result.err = "None"
    /\ pk.PrivateKey.d = serialized.d
    /\ Range(pk.PrivateKey.primes) = Range(serialized.primes)

(* spec.md 4.2 Serialize: serializing a key that is still encrypted is   *)
(* reported as unsupported, an error kind apart from the invalid argument *)
(* of an unrecognised key type.                                           *)
SerializeEncryptedUnsupported ==
  (result.op = "Serialize" /\ pk.Encrypted) => result.err = "Unsupported"

(* spec.md 8, taken literally: Parse(Serialize(k)) reproduces identical   *)
(* secret components, Primes[0] and Primes[1] in the same slots.          *)
RoundTripIdentical ==
  (result.op = "Parse" /\ result.fromOut) =>
    /\ result.err = "None"
    /\ pk.PrivateKey = serialized

(* spec.md 7 and 8: a Decrypt with a wrong passphrase fails with the      *)
(* checksum StructuralError, never another kind (an oracle) and never     *)
(* success.                                                               *)
WrongPassphraseChecksumError ==
  [][(result'.op = "Decrypt" /\ pk # Nil /\ pk.Encrypted
      /\ result'.arg # pk.encryptedData.pass)
       => result'.err \in StructuralErrors]_vars

-----------------------------------------------------------------------------
(* Refinement: the packet as KeyLock sees it.  An encrypted packet's      *)
(* right passphrase and true secret are what decrypting its blob with the *)
(* key it was encrypted under yields; a blob that does not decrypt and    *)
(* parse even then has no right passphrase.                               *)
Opened(p) == DecryptData(p, p.encryptedData)

Held ==
  IF pk = Nil THEN Nil
  ELSE IF ~pk.Encrypted
  THEN [locked |-> FALSE, secret |-> pk.PrivateKey, pass |-> Nil,
        truth |-> pk.PrivateKey]
  ELSE LET r == Opened(pk)
           ok == r.err = "None"
       IN [locked |-> TRUE, secret |-> Nil,
           pass |-> IF ok THEN pk.encryptedData.pass ELSE Nil,
           truth |-> IF ok THEN r.pk.PrivateKey ELSE Nil]

KL == INSTANCE KeyLock
        WITH held <- Held, call <- [op |-> result.op, arg |-> result.arg]

(* The packet codec implements KeyLock: Decrypt exposes a secret only     *)
(* when given the passphrase the blob was encrypted under, and then       *)
(* exactly the secret its owner protected.                                *)
KeyLockRefinement == KL!Spec
===============================================================================
