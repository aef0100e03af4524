--------------------------- MODULE RecoveryBridge ---------------------------
(***************************************************************************)
(* The Recovery Bridge as an abstract specification: the stages that       *)
(* handle a request reject it one after the other, each rejection combined *)
(* into the one carried so far; a stage that succeeds answers the request; *)
(* when every stage has rejected, recover classifies the combined          *)
(* rejection and its response is sent.  Any stage of the whole API may    *)
(* reject with any cause, so this is what every filter chain of the proxy *)
(* promises.  SourceRoutes refines it.                                     *)
(***************************************************************************)
EXTENDS Recover, ClassificationSpec

CONSTANT
  MaxCauses   \* bound on the causes one rejection carries

ASSUME MaxCausesAssumption == MaxCauses \in Nat \ {0}

VARIABLES
  stage,  \* "handling", "recovering" (all stages rejected) or "answered"
  rej,    \* the rejection combined so far
  resp    \* the response sent, NoResponse before

vars == <<stage, rej, resp>>

\* The reply of a handler that succeeded, and the absence of a reply.
OkReply == Reply(200, "", Lit(""))
NoResponse == Reply(0, "", Lit(""))

Stages == {"handling", "recovering", "answered"}

Init ==
  /\ stage = "handling"
  /\ rej = NotFound
  /\ resp = NoResponse

\* A stage rejects with cause c (Filter::or combines it into rej).
Reject(c) ==
  /\ stage = "handling"
  /\ Len(rej) < MaxCauses
  /\ rej' = Combine(rej, <<c>>)
  /\ UNCHANGED <<stage, resp>>

\* A stage succeeds: the rejections so far are dropped and its reply sent.
Succeed ==
  /\ stage = "handling"
  /\ stage' = "answered"
  /\ resp' = OkReply
  /\ UNCHANGED rej

\* Every stage has rejected.
Exhaust ==
  /\ stage = "handling"
  /\ stage' = "recovering"
  /\ UNCHANGED <<rej, resp>>

\* recover turns the rejection into the response envelope.
Answer ==
  /\ stage = "recovering"
  /\ resp' = Recover(rej)
  /\ stage' = "answered"
  /\ UNCHANGED rej

\* The next request starts with nothing rejected and nothing answered.
NextRequest ==
  /\ stage = "answered"
  /\ stage' = "handling"
  /\ rej' = NotFound
  /\ resp' = NoResponse

Next ==
  \/ \E c \in Cause : Reject(c)
  \/ Succeed
  \/ Exhaust
  \/ Answer
  \/ NextRequest

Spec == Init /\ [][Next]_vars

(***************************************************************************)
(* Properties.                                                             *)
(***************************************************************************)

\* Type invariant.
TypeOK ==
  /\ stage \in Stages
  /\ rej \in Rejection
  /\ resp \in {OkReply, NoResponse} \cup ErrorResponse

(***************************************************************************)
(* Every answered rejection gets the status and variant spec.md section   *)
(* 4.2 prescribes, whatever causes the stages combined and in whatever     *)
(* order: recover's not-found test, its Routing-before-Error search and   *)
(* each arm of its nested matches (http/error.rs recover).                 *)
(***************************************************************************)
ClassifiedPerSpec ==
  (stage = "answered" /\ resp # OkReply) =>
    /\ <<resp.status, resp.variant>> = SpecClassify(rej)
    /\ IsNotFound(rej) => resp.message = Lit(SpecMessages.notFound)

=============================================================================
