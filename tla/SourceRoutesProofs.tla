------------------------- MODULE SourceRoutesProofs -------------------------
(***************************************************************************)
(* Proofs about the source routes (SourceRoutes): type correctness of the  *)
(* or-chain, the handlers and recover, for every set of coco errors and    *)
(* every keystore.                                                         *)
(***************************************************************************)
EXTENDS SourceRoutes, RecoverProofs, TLAPS

\* The path segments of the filters, in the order of the or-chain.
FilterPath ==
  <<"blob", "branches", "commit", "commits", "local-branches", "revisions", "tags", "tree">>

\* Facts about the table of filters that the proofs below use.
LEMMA FiltersFacts ==
  /\ NumFilters = 8
  /\ \A i \in 1 .. NumFilters :
       /\ Len(Filters[i].calls) \in 1 .. 2
       /\ Filters[i].params \in 0 .. MaxParams
       /\ Filters[i].query \in BOOLEAN
       /\ Filters[i].path = FilterPath[i]
<1>1. NumFilters = 8
  BY DEF NumFilters, Filters
<1>2. ASSUME NEW i \in 1 .. 8
      PROVE  /\ Len(Filters[i].calls) \in 1 .. 2
             /\ Filters[i].params \in 0 .. MaxParams
             /\ Filters[i].query \in BOOLEAN
             /\ Filters[i].path = FilterPath[i]
  <2>1. i \in {1, 2, 3, 4, 5, 6, 7, 8}
    OBVIOUS
  <2>2. CASE i = 1
    <3>1. Filters[i] = [path |-> "blob", params |-> 1, query |-> TRUE, calls |-> <<"blob">>]
      BY <2>2 DEF Filters
    <3>2. FilterPath[i] = "blob"
      BY <2>2 DEF FilterPath
    <3>3. QED
      BY <3>1, <3>2 DEF MaxParams
  <2>3. CASE i = 2
    <3>1. Filters[i] = [path |-> "branches", params |-> 1, query |-> FALSE, calls |-> <<"branches">>]
      BY <2>3 DEF Filters
    <3>2. FilterPath[i] = "branches"
      BY <2>3 DEF FilterPath
    <3>3. QED
      BY <3>1, <3>2 DEF MaxParams
  <2>4. CASE i = 3
    <3>1. Filters[i] = [path |-> "commit", params |-> 2, query |-> FALSE, calls |-> <<"commit">>]
      BY <2>4 DEF Filters
    <3>2. FilterPath[i] = "commit"
      BY <2>4 DEF FilterPath
    <3>3. QED
      BY <3>1, <3>2 DEF MaxParams
  <2>5. CASE i = 4
    <3>1. Filters[i] = [path |-> "commits", params |-> 2, query |-> FALSE, calls |-> <<"commits">>]
      BY <2>5 DEF Filters
    <3>2. FilterPath[i] = "commits"
      BY <2>5 DEF FilterPath
    <3>3. QED
      BY <3>1, <3>2 DEF MaxParams
  <2>6. CASE i = 5
    <3>1. Filters[i] = [path |-> "local-branches", params |-> 0, query |-> FALSE, calls |-> <<"local_branches">>]
      BY <2>6 DEF Filters
    <3>2. FilterPath[i] = "local-branches"
      BY <2>6 DEF FilterPath
    <3>3. QED
      BY <3>1, <3>2 DEF MaxParams
  <2>7. CASE i = 6
    <3>1. Filters[i] = [path |-> "revisions", params |-> 1, query |-> FALSE, calls |-> <<"branches", "tags">>]
      BY <2>7 DEF Filters
    <3>2. FilterPath[i] = "revisions"
      BY <2>7 DEF FilterPath
    <3>3. QED
      BY <3>1, <3>2 DEF MaxParams
  <2>8. CASE i = 7
    <3>1. Filters[i] = [path |-> "tags", params |-> 1, query |-> FALSE, calls |-> <<"tags">>]
      BY <2>8 DEF Filters
    <3>2. FilterPath[i] = "tags"
      BY <2>8 DEF FilterPath
    <3>3. QED
      BY <3>1, <3>2 DEF MaxParams
  <2>9. CASE i = 8
    <3>1. Filters[i] = [path |-> "tree", params |-> 1, query |-> TRUE, calls |-> <<"tree">>]
      BY <2>9 DEF Filters
    <3>2. FilterPath[i] = "tree"
      BY <2>9 DEF FilterPath
    <3>3. QED
      BY <3>1, <3>2 DEF MaxParams
  <2>10. QED
    BY <2>1, <2>2, <2>3, <2>4, <2>5, <2>6, <2>7, <2>8, <2>9
<1>3. QED
  BY <1>1, <1>2

\* No two filters of the or-chain share a path segment.
LEMMA DistinctPaths ==
  \A i, j \in 1 .. NumFilters : Filters[i].path = Filters[j].path => i = j
<1> SUFFICES ASSUME NEW i \in 1 .. 8, NEW j \in 1 .. 8, FilterPath[i] = FilterPath[j]
             PROVE  i = j
  BY FiltersFacts
<1>1. i \in {1, 2, 3, 4, 5, 6, 7, 8} /\ j \in {1, 2, 3, 4, 5, 6, 7, 8}
  OBVIOUS
<1>2. QED
  BY <1>1 DEF FilterPath

\* What a filter rejects with is a rejection.
LEMMA FilterRejectionType ==
  ASSUME NEW f, NEW r
  PROVE  FilterRejection(f, r) \in Rejection
<1>1. {KnownCause("MethodNotAllowed"), KnownCause("InvalidQuery")} \subseteq Cause
  BY DEF KnownCause, Cause, KnownCases
<1>2. {NotFound, <<KnownCause("MethodNotAllowed")>>, <<KnownCause("InvalidQuery")>>}
        \subseteq Rejection
  BY <1>1 DEF NotFound, Rejection
<1>3. QED
  BY <1>2 DEF FilterRejection

\* The strengthening of TypeOK: a handler runs only for a filter of the
\* chain, so its table entry is defined.
IInv ==
  /\ TypeOK
  /\ stage = "handler" => idx \in 1 .. NumFilters

LEMMA InitIInv == Init => IInv
<1> SUFFICES ASSUME Init PROVE IInv
  OBVIOUS
<1>1. PICK r \in Requests : Start(r)
  BY DEF Init
<1>2. NoResponse \in {OkReply, NoResponse}
  OBVIOUS
<1>3. QED
  BY <1>1, <1>2, FiltersFacts
     DEF Start, IInv, TypeOK, Stages, NotFound, Rejection, NoError

LEMMA NextIInv == IInv /\ [Next]_vars => IInv'
<1> SUFFICES ASSUME IInv, [Next]_vars PROVE IInv'
  OBVIOUS
<1> USE FiltersFacts
<1>1. CASE Receive
  BY <1>1 DEF Receive, IInv, TypeOK, Stages, NotFound, Rejection, NoError
<1>2. CASE FilterRejects
  <2>1. rej' \in Rejection
    BY <1>2, FilterRejectionType DEF FilterRejects, IInv, TypeOK, Combine, Rejection
  <2>2. QED
    BY <1>2, <2>1 DEF FilterRejects, IInv, TypeOK
<1>3. CASE FilterAdmits
  BY <1>3 DEF FilterAdmits, IInv, TypeOK, Stages
<1>4. CASE CocoReturns
  <2>1. idx \in 1 .. NumFilters
    BY <1>4 DEF CocoReturns, IInv
  <2>2. Len(Filters[idx].calls) \in 1 .. 2
    BY <2>1, FiltersFacts
  <2>3. call' \in 1 .. 2
    <3>1. call \in 1 .. 2
      BY DEF IInv, TypeOK
    <3>2. PICK n \in 1 .. 2 : n = Len(Filters[idx].calls)
      BY <2>2
    <3>3. call < n /\ call' = call + 1
      BY <1>4, <3>2 DEF CocoReturns
    <3>4. QED
      BY <3>1, <3>3
  <2>4. QED
    BY <1>4, <2>3 DEF CocoReturns, IInv, TypeOK
<1>5. CASE HandlerReplies
  BY <1>5 DEF HandlerReplies, IInv, TypeOK, Stages
<1>6. CASE \E e \in CocoErrors : HandlerFails(e)
  <2>1. PICK e \in CocoErrors : HandlerFails(e)
    BY <1>6
  <2>2. ErrorCause(e) \in Cause
    BY CocoErrorsAssumption DEF ErrorCause, Cause
  <2>3. rej' \in Rejection
    BY <2>1, <2>2 DEF HandlerFails, IInv, TypeOK, Combine, Rejection
  <2>4. QED
    BY <2>1, <2>3 DEF HandlerFails, IInv, TypeOK, Stages
<1>7. CASE Exhausted
  BY <1>7 DEF Exhausted, IInv, TypeOK, Stages
<1>8. CASE RecoverReplies
  <2>1. resp' \in ErrorResponse
    BY <1>8, RecoverTotal DEF RecoverReplies, IInv, TypeOK
  <2>2. QED
    BY <1>8, <2>1 DEF RecoverReplies, IInv, TypeOK, Stages
<1>9. CASE UNCHANGED vars
  BY <1>9 DEF vars, IInv, TypeOK
<1>10. QED
  BY <1>1, <1>2, <1>3, <1>4, <1>5, <1>6, <1>7, <1>8, <1>9 DEF Next

(***************************************************************************)
(* Type correctness of the source routes: every state of every behaviour   *)
(* has a request, a filter index within the or-chain, a coco call of the   *)
(* handler, a well-formed rejection and a response that is OK or one of    *)
(* recover's error responses.                                              *)
(***************************************************************************)
THEOREM TypeCorrect == Spec => []TypeOK
<1>1. Init => IInv
  BY InitIInv
<1>2. IInv /\ [Next]_vars => IInv'
  BY NextIInv
<1>3. IInv => TypeOK
  BY DEF IInv
<1>4. QED
  BY <1>1, <1>2, <1>3, PTL DEF Spec

(***************************************************************************)
(* The or-chain carries at most one cause: a cause is only added by the    *)
(* filter whose path is the request's, and no two filters share a path.   *)
(***************************************************************************)
OneCause ==
  /\ rej \in {NotFound} \cup {<<c>> : c \in Cause}
  /\ rej # NotFound => \E i \in 1 .. idx - 1 : Filters[i].path = req.route
  /\ stage = "handler" => Filters[idx].path = req.route /\ rej = NotFound

RInv == IInv /\ OneCause

\* A filter whose path is not the request's rejects NotFound; any other
\* rejection is a single warp cause.
LEMMA FilterRejectionCases ==
  ASSUME NEW f, NEW r \in Requests, f.params \in Nat, f.query \in BOOLEAN
  PROVE  \/ FilterRejection(f, r) = NotFound
         \/ /\ r.route = f.path
            /\ \E k \in KnownCases : FilterRejection(f, r) = <<KnownCause(k)>>
BY DEF FilterRejection, KnownCases

\* Once a cause has been carried, the filter of the request's path is behind.
LEMMA NoCauseBeforeMatch ==
  ASSUME IInv, OneCause, idx \in 1 .. NumFilters, Filters[idx].path = req.route
  PROVE  rej = NotFound
<1> SUFFICES ASSUME rej # NotFound PROVE FALSE
  OBVIOUS
<1>1. PICK i \in 1 .. idx - 1 : Filters[i].path = req.route
  BY DEF OneCause
<1>2. i \in 1 .. NumFilters
  BY <1>1, FiltersFacts
<1>3. i = idx
  BY <1>1, <1>2, DistinctPaths
<1>4. QED
  BY <1>1, <1>3, FiltersFacts

LEMMA InitOneCause == Init => OneCause
BY DEF Init, Start, OneCause

LEMMA NextOneCause == RInv /\ [Next]_vars => OneCause'
<1> SUFFICES ASSUME IInv, OneCause, [Next]_vars PROVE OneCause'
  BY DEF RInv
<1>0. idx \in 1 .. NumFilters + 1
  BY DEF IInv, TypeOK
<1>1. CASE Receive
  BY <1>1 DEF Receive, OneCause
<1>2. CASE FilterRejects
  <2> DEFINE fr == FilterRejection(Filters[idx], req)
  <2>1. idx \in 1 .. NumFilters /\ stage = "match" /\ stage' = "match"
    BY <1>0, <1>2 DEF FilterRejects
  <2>2. rej \in Seq(Cause)
    BY DEF IInv, TypeOK, Rejection
  <2>3. CASE fr = NotFound
    <3>1. rej' = rej
      BY <1>2, <2>2, <2>3 DEF FilterRejects, Combine, NotFound
    <3>2. QED
      BY <1>2, <2>1, <3>1 DEF FilterRejects, OneCause
  <2>4. CASE fr # NotFound
    <3>0. req \in Requests /\ Filters[idx].params \in Nat /\ Filters[idx].query \in BOOLEAN
      BY <2>1, FiltersFacts DEF IInv, TypeOK, MaxParams
    <3>1. req.route = Filters[idx].path
      BY <2>4, <3>0, FilterRejectionCases
    <3>2. PICK k \in KnownCases : fr = <<KnownCause(k)>>
      BY <2>4, <3>0, FilterRejectionCases
    <3>3. rej = NotFound
      BY <2>1, <3>1, NoCauseBeforeMatch
    <3>4. rej' = <<KnownCause(k)>>
      BY <1>2, <3>2, <3>3 DEF FilterRejects, Combine, NotFound
    <3>5. KnownCause(k) \in Cause
      BY DEF KnownCause, Cause
    <3>6. QED
      BY <1>2, <2>1, <3>1, <3>4, <3>5 DEF FilterRejects, OneCause
  <2>5. QED
    BY <2>3, <2>4
<1>3. CASE FilterAdmits
  <2>1. idx \in 1 .. NumFilters /\ Filters[idx].path = req.route
    BY <1>0, <1>3 DEF FilterAdmits, Admits
  <2>2. rej = NotFound
    BY <2>1, NoCauseBeforeMatch
  <2>3. QED
    BY <1>3, <2>1, <2>2 DEF FilterAdmits, OneCause
<1>4. CASE CocoReturns
  BY <1>4 DEF CocoReturns, OneCause
<1>5. CASE HandlerReplies
  BY <1>5 DEF HandlerReplies, OneCause
<1>6. CASE \E e \in CocoErrors : HandlerFails(e)
  <2>1. PICK e \in CocoErrors : HandlerFails(e)
    BY <1>6
  <2>2. rej = NotFound /\ Filters[idx].path = req.route /\ idx \in 1 .. NumFilters
    BY <2>1 DEF HandlerFails, OneCause, IInv
  <2>3. rej' = <<ErrorCause(e)>>
    BY <2>1, <2>2 DEF HandlerFails, Combine, NotFound
  <2>4. ErrorCause(e) \in Cause
    BY CocoErrorsAssumption DEF ErrorCause, Cause
  <2>5. QED
    BY <2>1, <2>2, <2>3, <2>4 DEF HandlerFails, OneCause
<1>7. CASE Exhausted
  BY <1>7 DEF Exhausted, OneCause
<1>8. CASE RecoverReplies
  BY <1>8 DEF RecoverReplies, OneCause
<1>9. CASE UNCHANGED vars
  BY <1>9 DEF vars, OneCause
<1>10. QED
  BY <1>1, <1>2, <1>3, <1>4, <1>5, <1>6, <1>7, <1>8, <1>9 DEF Next

\* Both invariants hold in every state of every behaviour.
LEMMA AlwaysRInv == Spec => []RInv
<1>1. Init => RInv
  BY InitIInv, InitOneCause DEF RInv
<1>2. RInv /\ [Next]_vars => RInv'
  BY NextIInv, NextOneCause DEF RInv
<1>3. QED
  BY <1>1, <1>2, PTL DEF Spec

\* The stage of the request as the Recovery Bridge sees it, before and after.
LEMMA BridgeStages ==
  /\ stage \in {"match", "handler"} => BridgeStage = "handling"
  /\ stage = "recover" => BridgeStage = "recovering"
  /\ stage = "done" => BridgeStage = "answered"
  /\ stage' \in {"match", "handler"} => BridgeStage' = "handling"
  /\ stage' = "recover" => BridgeStage' = "recovering"
  /\ stage' = "done" => BridgeStage' = "answered"
BY DEF BridgeStage

\* The operators the Recovery Bridge is stated with are the ones of the
\* source routes: the instance substitutes only stage and MaxCauses.
LEMMA BridgeOperators ==
  /\ Bridge!NotFound = NotFound
  /\ Bridge!NoResponse = NoResponse
  /\ Bridge!OkReply = OkReply
  /\ \A l, r : Bridge!Combine(l, r) = Combine(l, r)
  /\ Bridge!Cause = Cause
  /\ \A x : Bridge!Recover(x) = Recover(x)
<1>1. Bridge!NotFound = NotFound
  BY DEF Bridge!NotFound, NotFound
<1>2. Bridge!NoResponse = NoResponse /\ Bridge!OkReply = OkReply
  BY DEF Bridge!NoResponse, NoResponse, Bridge!OkReply, OkReply, Bridge!Reply, Reply,
         Bridge!Lit, Lit
<1>3. \A l, r : Bridge!Combine(l, r) = Combine(l, r)
  BY DEF Bridge!Combine, Combine
<1>4. Bridge!Cause = Cause
  BY DEF Bridge!Cause, Cause, Bridge!RoutingCases, RoutingCases, Bridge!Failures, Failures,
         Bridge!StateFailures, StateFailures, Bridge!SourceFailures, SourceFailures,
         Bridge!KeystoreFailures, KeystoreFailures, Bridge!PlainFailures, PlainFailures,
         Bridge!CheckoutCases, CheckoutCases, Bridge!ValidationCases, ValidationCases,
         Bridge!KnownCases, KnownCases
<1>5. \A x : Bridge!Recover(x) = Recover(x)
  BY DEF Recover, IsNotFound, Has, Find, RecoverRouting, RoutingRecovery, ReplyFrom, Reply, Shows, Lit, RecoverError, RecoverState, RecoverSource, RecoverKeystore, CheckoutRecovery, CheckoutMessage, ValidationRecovery, ValidationMessage, NotFound, Bridge!Recover, Bridge!IsNotFound, Bridge!Has, Bridge!Find, Bridge!RecoverRouting, Bridge!RoutingRecovery, Bridge!ReplyFrom, Bridge!Reply, Bridge!Shows, Bridge!Lit, Bridge!RecoverError, Bridge!RecoverState, Bridge!RecoverSource, Bridge!RecoverKeystore, Bridge!CheckoutRecovery, Bridge!CheckoutMessage, Bridge!ValidationRecovery, Bridge!ValidationMessage, Bridge!NotFound
<1>6. QED
  BY <1>1, <1>2, <1>3, <1>4, <1>5

\* Every step of the source routes is a step of the Recovery Bridge or
\* leaves its variables unchanged.
LEMMA StepRefines == RInv /\ [Next]_vars => [Bridge!Next]_Bridge!vars
<1> SUFFICES ASSUME IInv, OneCause, [Next]_vars PROVE [Bridge!Next]_Bridge!vars
  BY DEF RInv
<1> USE BridgeStages, BridgeOperators
<1>0. idx \in 1 .. NumFilters + 1 /\ stage \in Stages
  BY DEF IInv, TypeOK
<1>1. CASE Receive
  <2>1. Bridge!NextRequest
    BY <1>1 DEF Receive, Bridge!NextRequest
  <2>2. QED
    BY <2>1 DEF Bridge!Next
<1>2. CASE FilterRejects
  <2> DEFINE fr == FilterRejection(Filters[idx], req)
  <2>1. idx \in 1 .. NumFilters /\ stage = "match" /\ stage' = "match"
    BY <1>0, <1>2 DEF FilterRejects
  <2>2. rej \in Seq(Cause)
    BY DEF IInv, TypeOK, Rejection
  <2>3. CASE fr = NotFound
    <3>1. rej' = rej
      BY <1>2, <2>2, <2>3 DEF FilterRejects, Combine, NotFound
    <3>2. QED
      BY <1>2, <2>1, <3>1 DEF FilterRejects, Bridge!vars
  <2>4. CASE fr # NotFound
    <3>0. req \in Requests /\ Filters[idx].params \in Nat /\ Filters[idx].query \in BOOLEAN
      BY <2>1, FiltersFacts DEF IInv, TypeOK, MaxParams
    <3>1. req.route = Filters[idx].path
      BY <2>4, <3>0, FilterRejectionCases
    <3>2. PICK k \in KnownCases : fr = <<KnownCause(k)>>
      BY <2>4, <3>0, FilterRejectionCases
    <3>3. rej = NotFound
      BY <2>1, <3>1, NoCauseBeforeMatch
    <3>4. KnownCause(k) \in Cause
      BY DEF KnownCause, Cause
    <3>5. Bridge!Reject(KnownCause(k))
      BY <1>2, <2>1, <3>2, <3>3 DEF FilterRejects, Bridge!Reject, Combine, NotFound
    <3>6. QED
      BY <3>4, <3>5 DEF Bridge!Next
  <2>5. QED
    BY <2>3, <2>4
<1>3. CASE FilterAdmits
  BY <1>3 DEF FilterAdmits, Bridge!vars
<1>4. CASE CocoReturns
  BY <1>4 DEF CocoReturns, Bridge!vars
<1>5. CASE HandlerReplies
  <2>1. Bridge!Succeed
    BY <1>5 DEF HandlerReplies, Bridge!Succeed
  <2>2. QED
    BY <2>1 DEF Bridge!Next
<1>6. CASE \E e \in CocoErrors : HandlerFails(e)
  <2>1. PICK e \in CocoErrors : HandlerFails(e)
    BY <1>6
  <2>2. rej = NotFound
    BY <2>1 DEF HandlerFails, OneCause
  <2>3. ErrorCause(e) \in Cause
    BY CocoErrorsAssumption DEF ErrorCause, Cause
  <2>4. Bridge!Reject(ErrorCause(e))
    BY <2>1, <2>2 DEF HandlerFails, Bridge!Reject, NotFound
  <2>5. QED
    BY <2>3, <2>4 DEF Bridge!Next
<1>7. CASE Exhausted
  <2>1. Bridge!Exhaust
    BY <1>7 DEF Exhausted, Bridge!Exhaust
  <2>2. QED
    BY <2>1 DEF Bridge!Next
<1>8. CASE RecoverReplies
  <2>1. Bridge!Answer
    BY <1>8 DEF RecoverReplies, Bridge!Answer
  <2>2. QED
    BY <2>1 DEF Bridge!Next
<1>9. CASE UNCHANGED vars
  BY <1>9 DEF vars, Bridge!vars, BridgeStage
<1>10. QED
  BY <1>1, <1>2, <1>3, <1>4, <1>5, <1>6, <1>7, <1>8, <1>9 DEF Next

(***************************************************************************)
(* The source routes implement the Recovery Bridge (safety): every        *)
(* behaviour of the or-chain, its handlers and recover is a behaviour of  *)
(* the abstract bridge under the mapping of the stages, with at most one  *)
(* cause per rejection.  This is the ImplementsBridge property that the   *)
(* source_routes run checks.                                               *)
(***************************************************************************)
THEOREM Refinement == Spec => ImplementsBridge
<1>1. Init => Bridge!Init
  BY BridgeOperators DEF Init, Start, Bridge!Init, BridgeStage
<1>2. QED
  BY <1>1, AlwaysRInv, StepRefines, PTL DEF Spec, ImplementsBridge, Bridge!Spec
=============================================================================
