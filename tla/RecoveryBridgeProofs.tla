------------------------- MODULE RecoveryBridgeProofs -------------------------
(***************************************************************************)
(* Proofs about the Recovery Bridge (RecoveryBridge): its type invariant   *)
(* and the classification of every answered rejection per spec.md section *)
(* 4.2, for every bound on the causes and every keystore.                  *)
(***************************************************************************)
EXTENDS RecoveryBridge, ClassificationProofs, TLAPS

\* TypeOK, and an answer that is not a handler's reply is recover's.
BInv ==
  /\ TypeOK
  /\ stage = "answered" => resp = OkReply \/ resp = Recover(rej)

LEMMA InitBInv == Init => BInv
BY DEF Init, BInv, TypeOK, Stages, NotFound, Rejection

LEMMA NextBInv == BInv /\ [Next]_vars => BInv'
<1> SUFFICES ASSUME BInv, [Next]_vars PROVE BInv'
  OBVIOUS
<1>1. CASE \E c \in Cause : Reject(c)
  <2>1. PICK c \in Cause : Reject(c)
    BY <1>1
  <2>2. rej' \in Rejection
    BY <2>1 DEF Reject, BInv, TypeOK, Combine, Rejection
  <2>3. QED
    BY <2>1, <2>2 DEF Reject, BInv, TypeOK
<1>2. CASE Succeed
  BY <1>2 DEF Succeed, BInv, TypeOK, Stages
<1>3. CASE Exhaust
  BY <1>3 DEF Exhaust, BInv, TypeOK, Stages
<1>4. CASE Answer
  <2>1. resp' \in ErrorResponse
    BY <1>4, RecoverTotal DEF Answer, BInv, TypeOK
  <2>2. QED
    BY <1>4, <2>1 DEF Answer, BInv, TypeOK, Stages
<1>5. CASE NextRequest
  BY <1>5 DEF NextRequest, BInv, TypeOK, Stages, NotFound, Rejection
<1>6. CASE UNCHANGED vars
  BY <1>6 DEF vars, BInv, TypeOK
<1>7. QED
  BY <1>1, <1>2, <1>3, <1>4, <1>5, <1>6 DEF Next

(***************************************************************************)
(* Type correctness of the bridge: the rejection combined by the stages is *)
(* always a warp rejection and the response sent is a handler's reply or  *)
(* one of recover's error responses.                                       *)
(***************************************************************************)
THEOREM BridgeTypeCorrect == Spec => []TypeOK
<1>1. BInv => TypeOK
  BY DEF BInv
<1>2. QED
  BY InitBInv, NextBInv, <1>1, PTL DEF Spec

(***************************************************************************)
(* Every answered rejection, of any number of causes combined in any       *)
(* order by any stages, gets the status and variant of spec.md section     *)
(* 4.2, and a NotFound rejection the "Resource not found" message          *)
(* (http/error.rs recover).                                                *)
(***************************************************************************)
THEOREM ClassifiedCorrect == Spec => []ClassifiedPerSpec
<1>1. BInv => ClassifiedPerSpec
  <2> SUFFICES ASSUME BInv, stage = "answered", resp # OkReply
               PROVE  /\ <<resp.status, resp.variant>> = SpecClassify(rej)
                      /\ IsNotFound(rej) => resp.message = Lit(SpecMessages.notFound)
    BY DEF ClassifiedPerSpec
  <2>1. resp = Recover(rej) /\ rej \in Rejection
    BY DEF BInv, TypeOK
  <2>2. <<resp.status, resp.variant>> = SpecClassify(rej)
    BY <2>1, RecoverMatchesSpec
  <2>3. IsNotFound(rej) => resp.message = Lit(SpecMessages.notFound)
    BY <2>1 DEF Recover, Reply, SpecMessages
  <2>4. QED
    BY <2>2, <2>3
<1>2. QED
  BY InitBInv, NextBInv, <1>1, PTL DEF Spec
=============================================================================
