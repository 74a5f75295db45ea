# TLA+ models of the openpgp private-key and v3-signature codecs

This directory holds TLA+ models of the core of benburkert/openpgp. Each
module is translated from the Go source under `src/`. The runs check the
models with TLC. `PROJECT.json` records which definition models which source
lines, every run, every mutant, the findings and the hazards.

## The system

| Part | Source | What it does |
|---|---|---|
| Algorithm registry | `src/algorithm/hash.go` | Read-only tables that map a one-octet id to a hash, cipher or public-key algorithm. `HashSlice.Intersect` negotiates two hash preference lists in place. |
| Private-key codec | `src/unnamed/part_000` (private_key.go) | `parse` reads a private-key packet body. The body is either cleartext key material or an encrypted blob with a cipher, an S2K, an IV and a SHA-1 or 16-bit additive checksum. `Decrypt` unlocks the blob with a passphrase. `Serialize` writes the key back out, unencrypted. |
| SignatureV3 codec | `src/packet/signature_v3.go` | `parse` and `Serialize` handle the fixed layout of a version 3 signature. The value part is one MPI for RSA and two for DSA. |
| Tests | `src/packet/private_key_test.go` | The sequence Read, Decrypt with a wrong passphrase, then Decrypt with the right one. Also a regression test for an RSA prime of 1. |

How the parts interact:

- Both codecs resolve ids through the registry.
- The private-key codec hands the passphrase to an S2K function and a CFB
  cipher, both outside `src/`. It verifies a checksum before it exposes key
  material, and dispatches on the public key's algorithm to a
  per-algorithm parser.
- Nothing runs concurrently inside the library. spec.md section 6 makes a
  caller who shares one packet between goroutines responsible for locking.
  So the hard behaviours here are:
  - long sequences of calls;
  - early returns part-way through an update;
  - data that only looks right (a checksum collision);
  - an in-place loop that reads and writes the same array.

## Modules

| Module | Models | State | Actions |
|---|---|---|---|
| `Registry` | `HashById` (hash.go 26-49), `hashNames` and `CryptoHash.String` (63-79, `String` panics for an id without a name); `PublicKeyById` from spec.md 4.1 | none (constants) | none |
| `HashSlice` | `HashSlice.Intersect` (hash.go 93-108), `CryptoHash.Id` (58-61), `HashSlice.Ids` (84-91). A `Hash` is an interface value: a record of its id and the implementation behind it | `hs` (backing array), `b`, `i` (range index), `j`, `done`, plus the history variable `a0` | `Step` (one iteration of the outer loop, with the inner loop and its `break`, written through `Iteration`), `Return` |
| `Checksum` | The 16-bit additive checksum octet by octet: `mod64kHash` and Serialize's trailer (part_000 132-138, 167-192), Decrypt's usage-255 loop and comparison (249-264) | `payload`, `written` (payload and trailer), `wire` (what the reader gets), `corrupted`, `result` (operation, octets read, error, data passed to `parsePrivateKey`) | `Serialize(p)`, `Corrupt(k, v)` (fault), `Decrypt` |
| `KeyLock` | The contract of a passphrase-protected key (spec.md 3, 4.2, 7): abstract | `held` (locked?, exposed secret, unlocking passphrase, true secret), `call` | `Load`, `Unlock`, `NoEffect` |
| `PrivateKey` | the `NewXPrivateKey` constructors, `parse`, `Decrypt`, `Serialize`, `parsePrivateKey`, `parse{RSA,DSA,ElGamal,ECDSA}PrivateKey`, `serialize*PrivateKey` | `pk` (the packet's fields), `result` (the last call and its error), `out` (the last serialized packet), `serialized` (the key that was written) | `NewPrivateKey(own)` (wrap a key the caller holds), `Parse(w)`, `DecryptNoop(pass)`, `Decrypt(pass)`, `Serialize`, `SerializeUnknownKey`, and re-parsing `out` |
| `SignatureV3` | `parse`, `Serialize` | `sig`, `result`, `input`, `out`, `serialized` | `Parse(w)`, `Build(b)`, `Sign(v1, v2)`, `Serialize`, and re-parsing `out` |
| `MCPrivateKey`, `MCSignatureV3`, `MCChecksum` | Model-checking instances | | |

### Data abstraction

- **Private-key wire.** A packet body is a record with these fields:
  - the public key (algorithm, n, e);
  - the s2k usage octet and cipher id;
  - where the body is cut short, if it is;
  - `rest`: the MPI values, the checksum trailer kind, the length and the
    passphrase that encrypted it.

  Each check in `parse` is one entry of `ParseChecks`, in code order. The
  first that fails decides the error, as the Go early returns do.
- **Passphrases and decryption.** S2K plus CFB is modelled as injective
  (`Decipher`):
  - The right passphrase gives back the plaintext.
  - Any other passphrase gives a garbage plaintext of the same length. Its
    trailer may or may not be a 16-bit additive collision.
  - A SHA-1 trailer never matches garbage.
- **RSA.** Validity is checked with the arithmetic of `rsa.Validate` on small
  numbers (n = 15, e = 3).
- **Signatures.**
  - MPIs are `[bytes |-> v]` records, and a nil `encoding.Field` interface is
    `Nil`.
  - `Buf(w)` models the reused 8-octet scratch buffer. It holds what the last
    read left in it, which is why the hash error's `buf[2]` is an issuer-key-id
    octet.
  - Creation times live in `0..TimeModulus-1`, and the `uint32` cast is
    `% TimeModulus`. TLC's integers are 32-bit, so the MC scales the modulus
    to 2^16. The test time 40000 has the top bit set.

### The checksum, octet by octet

`Checksum` models octets as values of `0..ByteMod-1`. The code's `uint16`
is two octets wide, so sums are taken modulo `ByteMod^2`. The code has
`ByteMod = 2^8`, and a sum wraps only after 258 octets of 0xFF. So
`MCChecksum` scales the octet to 2 bits (`ByteMod = 4`). The structure is
unchanged:

- two trailer octets, high octet first;
- `byte()` truncation;
- a `uint16` accumulator.

Its payloads sum to 2, 3, 15, 16 (which wraps to 0) and 18 (which wraps to
2). The shortest, `<<0, 1, 1>>`, is one MPI: two length octets and a value,
the least any `serialize*PrivateKey` writes.

A usage-255 plaintext has the layout Serialize writes (spec.md 5). So
`Decrypt` here checks what a writer sealed with `mod64kHash`. The passphrase
is right, and the keystream is undone as in `PrivateKey`'s `Decipher`.

`Corrupt` is the fault model. It changes up to `MaxCorrupt` octets between
writer and reader. Each result records the octets it read, so a property
compares a verdict with the packet that verdict was about.

The model checking turned up one thing worth knowing. `mod64kHash` and
`Decrypt` both truncate with `byte()` when they split the sum. So even an
accumulator that never wrapped would give the same trailer. What must agree
is the loop bound and the octet order. The mutants of those are caught.

### Refinement

`PrivateKey` defines `Held` from the concrete packet:

- `locked` is `Encrypted`;
- `pass` is the passphrase that sealed `encryptedData`;
- `truth` is what opening the blob with that passphrase would install.

The abstract module is then instantiated as
`KL == INSTANCE KeyLock WITH held <- Held, call <- ...`, and
`KeyLockRefinement == KL!Spec` is checked as a property. It says:

- parsing exposes either nothing or the true secret;
- only the right passphrase unlocks a key;
- nothing else ever changes it.

`Held` defines the true secret through `DecryptData` itself, so `Load` and
the right-passphrase `Unlock` hold by construction. What the refinement
really checks is that no wrong-passphrase or failed `Decrypt`, and no
`Serialize`, changes the key; `EncryptedConsistency`, not the refinement,
catches a parse that forgets to clear `Encrypted` or `encryptedData`.

## Runs

| Run | Checks | Result |
|---|---|---|
| `privkey_core` (`MCPrivateKey.cfg`) | TypeOK, EncryptedConsistency, RSAKeyValid, RoundTripEquivalent, DecryptAtomic, KeyLockRefinement | Passes (493 distinct states) |
| `privkey_roundtrip_identical` | RoundTripIdentical | Violated: a round trip swaps the RSA primes, for a parsed key and for a caller's own key wrapped with `NewRSAPrivateKey` |
| `privkey_sum16_refinement` | KeyLockRefinement with usage-255 blobs for every algorithm | Violated: a wrong passphrase unlocks a DSA key with a garbage secret |
| `privkey_sum16_error_oracle` | WrongPassphraseChecksumError | Violated: a wrong passphrase yields an MPI read error, not a checksum error |
| `sigv3_core` (`MCSignatureV3.cfg`) | TypeOK, SigShape, RoundTrip | Passes (1686 distinct states) |
| `sigv3_serialize_panic` | SerializeNoPanic | Violated: Serialize of a DSA signature panics on the nil `RSASignature` |
| `sigv3_parse_panic` | ParseNoPanic | Violated: a registered but undispatched algorithm (RSAEncryptOnly, ElGamal, ECDSA) reaches `panic("unreachable")` |
| `sigv3_hash_error` | HashErrorNamesHashId | Violated: the error names issuer key id octet 2 (66), not the hash id (5) |
| `privkey_serialize_encrypted` | SerializeEncryptedUnsupported | Violated: Serialize of a packet still encrypted returns InvalidArgument ("unknown private key type"), not Unsupported |
| `privkey_ecdh_panic` (`MCPrivateKey_ecdh.cfg`) | NoPanic | Violated: parse of a cleartext ECDH private key reaches `parsePrivateKey`'s `panic("impossible")` |
| `checksum_core` (`MCChecksum.cfg`) | TypeOK, IntactAccepted, SingleCorruptionRejected | Passes (299 distinct states) |
| `intersect` (`MCHashSlice.cfg`) | TypeOK, UnreadIntact, ResultIsOrderedFilter | Passes (33830 distinct states) |

Every property of a passing run has a mutant in `PROJECT.json`: a plausible
bug in the modelled code that TLC catches under the run's own configuration.

## Bounds and why they are enough

- **`MCPrivateKey`.**
  - Public keys: one RSA key (n = 15 = 3·5, e = 3) and one key of each scalar
    algorithm.
  - Bodies: a valid RSA body (d = 3, p = 3, q = 5), one that fails Validate
    (primes 1 and 15, the TestIssue11505 shape), and one too short.
  - Every usage octet class and a bad cipher id.
  - A cipher with block size 0, and a cut at each read.
  - SHA-1 blobs, corrupt blobs, and (in `WiresSum16`) additive-checksum blobs.
  - Two passphrases.
  - Keys a caller wraps with `NewXPrivateKey` (`MCOwnKeys`): the RSA key as
    `rsa.GenerateKey` returns it (`Precompute` done), with its primes in
    either order, and one key of each scalar algorithm.
  - Every branch of `parse` and `Decrypt` is reachable with these. Behaviours
    are unbounded in length, because the state space is finite and the model
    is explored to a fixpoint.
- **`MCSignatureV3`.**
  - An RSA v3 body and a DSA v2 body, each field varied once to a rejected
    value, and each cut point.
  - Signatures built unsigned for RSA and DSA, then signed with two values.
  - `HashById` holds the seven CryptoHashes of hash.go and a private hash,
    id 100, of another `Hash` type (the exported map may hold one; spec.md
    4.3 names the "non-standard hash family"). A body with hash id 100
    exercises the `CryptoHash` assertion (signature_v3.go 82-84).
- **`MCChecksum`.** Five payloads, which cover the shortest secret, a sum
  that stays below the wrap, one that lands exactly on it, and one that
  passes it. Every single-octet corruption of each packet, at every position
  and to every other value, is explored.
- **`MCHashSlice`.** Four `Hash` values over three ids:
  - the CryptoHashes SHA1 (2) and SHA256 (8), taken from `Registry`;
  - two different values for private id 100: the local implementation, and
    a peer's entry that only carries the id. The repository's README says
    the fork supports private and unassigned hash ids.

  Every list of 0 to 3 of these values is checked, for both lists. This
  includes duplicates in each list, every overlap, and every order. The
  private id is what lets `ResultIsOrderedFilter` tell "keep the
  receiver's value" from "keep b's value".

## Fairness

- No module asserts liveness, and none states fairness. Every operation
  of the code is a synchronous call that returns (spec.md 6); `Intersect`'s
  range over a slice of fixed length always ends, which Go guarantees and a
  property would only restate.
- The codec models state only safety. Which call a caller makes next is the
  caller's choice.
- `MCHashSlice.cfg` says `CHECK_DEADLOCK FALSE` because the function returns:
  `done` is a final state.

## Not modelled, and why

- `PublicKey.parse` and `serializeWithoutHeaders`, S2K parsing, `encoding.MPI`,
  packet framing and `Read` are not under `src/`. Their results appear as
  fields of the input wire.
- The `Hash` interface's `Available`, `HashFunc`, `New` and `Size` wrap
  `crypto.Hash` from the standard library. No codec in `src/` calls them.
- `PublicKey.parse` is not in `src/`. `MCPublicKeyAlgos` takes the
  repository README's word that this fork accepts ECDH keys (upstream's
  parser accepts them too), so ECDH keys reach `parsePrivateKey`; the
  `privkey_ecdh_panic` run shows them reaching its `panic("impossible")`.
- `hashNames` and `CryptoHash.String` are in `Registry` as tables, but no
  codec in `src/` prints a hash, so no property is about them.
- The cleartext branch of `parse` (part_000 120-127) never checks the
  trailer Serialize writes. `Checksum` works on octets and does not parse
  MPIs, so it cannot say what `parsePrivateKey` makes of the extra octets;
  no run asserts anything about a corrupted cleartext packet.
- The SHA-1 digest is not computed. In `PrivateKey` a trailer matches or it
  does not. The additive checksum is computed octet by octet in `Checksum`,
  but that module does not feed `PrivateKey`, which keeps the abstract
  trailer.
- The additive sum ignores octet order, so two compensating corruptions pass
  it. This is a weakness of the format, not of the code, and no property
  asserts it away. `MCChecksum` bounds corruption at one octet for that
  reason.
- `io.Writer` failures are not modelled at all: every write succeeds, and
  no property depends on a write error.

## Open work

- A `CipherById` module with the spec's cipher table, instead of the MC
  definition. The table is not under `src/`, so it would be modelled from
  spec.md alone.
- `IsSubkey` and the packet type Serialize frames with. Framing is not
  under `src/`.
