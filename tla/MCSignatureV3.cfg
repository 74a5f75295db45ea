CONSTANTS
  Nil = Nil
  Wires <- WiresSafe
  PublicKeyById <- MCPublicKeyById
  HashIds <- MCHashIds
  CryptoHashIds <- MCCryptoHashIds
  Builds <- MCBuilds
  SigValues <- MCSigValues
  TimeModulus <- MCTimeModulus
SPECIFICATION Spec
INVARIANTS
  TypeOK
  SigShape
  RoundTrip
