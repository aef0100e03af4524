CONSTANTS
  ksPassphrase = ksPassphrase
  ksExists = ksExists
  ksBoth = ksBoth
  ksOther = ksOther
  KeystoreCases <- MCKeystoreCases
  InvalidPassphraseCases <- MCInvalidPassphraseCases
  KeyExistsCases <- MCKeyExistsCases
  CocoErrors <- MCCocoErrors
SPECIFICATION Spec
INVARIANT
  MalformedQueryIs400
