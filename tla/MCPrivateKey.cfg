CONSTANTS
  Nil = Nil
  pw1 = pw1
  pw2 = pw2
  Passphrases <- MCPassphrases
  Wires <- WiresCore
  PublicKeyAlgos <- MCPublicKeyAlgos
  CipherById <- MCCipherById
  GarbageBodies <- MCGarbageBodies
  OwnKeys <- MCOwnKeys
SPECIFICATION Spec
INVARIANTS
  TypeOK
  EncryptedConsistency
  RSAKeyValid
  RoundTripEquivalent
PROPERTIES
  DecryptAtomic
  KeyLockRefinement
