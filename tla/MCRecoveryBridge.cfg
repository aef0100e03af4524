CONSTANTS
  ksPassphrase = ksPassphrase
  ksExists = ksExists
  ksBoth = ksBoth
  ksOther = ksOther
  KeystoreCases <- MCKeystoreCases
  InvalidPassphraseCases <- MCInvalidPassphraseCases
  KeyExistsCases <- MCKeyExistsCases
  MaxCauses = 2
SPECIFICATION Spec
INVARIANTS
  TypeOK
  ClassifiedPerSpec
