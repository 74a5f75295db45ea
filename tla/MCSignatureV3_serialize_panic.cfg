CONSTANTS
  Nil = Nil
  Wires <- WiresSafe
  PublicKeyById <- MCPublicKeyById
  HashIds <- MCHashIds
  CryptoHashIds <- MCCryptoHashIds
  Builds <- MCBuilds
  SigValues <- MCSigValues
  TimeModulus <- MCTimeModulus
SPECIFICATION Spec
INVARIANT
  SerializeNoPanic
