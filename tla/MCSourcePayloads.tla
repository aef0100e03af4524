-------------------------- MODULE MCSourcePayloads --------------------------
(***************************************************************************)
(* Source payloads with two branch or tag names and lists of up to three  *)
(* elements: empty lists, single ones and lists with repeats all occur.   *)
(***************************************************************************)
EXTENDS SourcePayloads

MCNames == {"master", "dev"}

(***************************************************************************)
(* The walk of Pairs is complete: one more level below its JsonDepth       *)
(* levels finds no pair it has not got, for every body every handler can  *)
(* send, so the properties read every value of a reply.                    *)
(***************************************************************************)
ASSUME WalkComplete ==
  \A h \in Handlers : \A b \in ReplyBodies[h] :
    LET P == Pairs(b, DocumentedResponse[h]) IN Reach(P) = P
====
