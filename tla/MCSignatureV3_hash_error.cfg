CONSTANTS
  Nil = Nil
  Wires <- WiresAll
  PublicKeyById <- MCPublicKeyById
  HashIds <- MCHashIds
  CryptoHashIds <- MCCryptoHashIds
  Builds <- MCBuilds
  SigValues <- MCSigValues
  TimeModulus <- MCTimeModulus
SPECIFICATION Spec
INVARIANT
  HashErrorNamesHashId
