--------------------------- MODULE MCSourceRoutes ---------------------------
(***************************************************************************)
(* Model of the source routes for TLC: every request shape, every error a  *)
(* coco call can return (all of error::Error), four keystore cases        *)
(* covering every combination of the two keystore predicates.              *)
(***************************************************************************)
EXTENDS SourceRoutes

CONSTANTS ksPassphrase, ksExists, ksBoth, ksOther

MCKeystoreCases == {ksPassphrase, ksExists, ksBoth, ksOther}
MCInvalidPassphraseCases == {ksPassphrase, ksBoth}
MCKeyExistsCases == {ksExists, ksBoth}
MCCocoErrors == Failures
=============================================================================
