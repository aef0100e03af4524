-------------------------- MODULE MCRecoveryBridge --------------------------
(***************************************************************************)
(* Model of the Recovery Bridge for TLC: four keystore cases covering     *)
(* every combination of the two predicates, rejections of up to two       *)
(* causes (enough for a Routing and an Error cause, or two Error causes,  *)
(* in either order).                                                       *)
(***************************************************************************)
EXTENDS RecoveryBridge

CONSTANTS ksPassphrase, ksExists, ksBoth, ksOther

MCKeystoreCases == {ksPassphrase, ksExists, ksBoth, ksOther}
MCInvalidPassphraseCases == {ksPassphrase, ksBoth}
MCKeyExistsCases == {ksExists, ksBoth}
=============================================================================
