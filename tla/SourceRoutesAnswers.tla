------------------------- MODULE SourceRoutesAnswers -------------------------
(***************************************************************************)
(* Proofs about what the source routes answer: "Resource not found"       *)
(* exactly for the requests no filter routes, and the spec's class for a   *)
(* handler's error.                                                        *)
(***************************************************************************)
EXTENDS SourceRoutesProofs, ClassificationProofs, TLAPS

\* Filter i routes request r: its path matches and, for a GET, so do its
\* path parameters (the conjuncts of Routed).
Hit(i, r) ==
  /\ Filters[i].path = r.route
  /\ r.method = "GET" => r.args >= Filters[i].params

\* Some filter already tried routes the request.
RoutedBefore == \E i \in 1 .. idx - 1 : Hit(i, req)

(***************************************************************************)
(* The invariant behind NotFoundIffUnrouted: while the chain runs, the     *)
(* rejection carried is NotFound exactly when no filter tried so far       *)
(* routes the request; a handler runs for a filter that routes it; and a  *)
(* response is a handler's reply or recover's answer after all filters.   *)
(***************************************************************************)
NFInv ==
  /\ stage \in {"match", "recover"} => (rej = NotFound <=> ~RoutedBefore)
  /\ stage = "handler" => Hit(idx, req)
  /\ stage = "recover" => idx = NumFilters + 1
  /\ stage = "done" =>
       \/ resp = OkReply /\ idx \in 1 .. NumFilters /\ Hit(idx, req)
       \/ /\ resp = Recover(rej)
          /\ idx = NumFilters + 1
          /\ (rej = NotFound <=> ~RoutedBefore)

\* A filter that does not admit a request rejects it NotFound exactly when
\* the filter does not route it: warp::get() is checked before the path
\* parameters, and a bad query is rejected InvalidQuery.
LEMMA FilterRejectionHit ==
  ASSUME NEW f, NEW r \in Requests, f.params \in Nat, f.query \in BOOLEAN,
         ~Admits(f, r)
  PROVE  FilterRejection(f, r) = NotFound
           <=> ~(f.path = r.route /\ (r.method = "GET" => r.args >= f.params))
<1>1. r.args \in Nat /\ r.method \in {"GET", "POST"} /\ r.queryOk \in BOOLEAN
  BY DEF Requests, MaxParams
<1>2. <<KnownCause("MethodNotAllowed")>> # NotFound /\ <<KnownCause("InvalidQuery")>> # NotFound
  BY DEF NotFound
<1>3. CASE r.route # f.path
  BY <1>3 DEF FilterRejection
<1>4. CASE r.route = f.path /\ r.method # "GET"
  BY <1>2, <1>4 DEF FilterRejection
<1>5. CASE r.route = f.path /\ r.method = "GET" /\ r.args < f.params
  BY <1>1, <1>5 DEF FilterRejection
<1>6. CASE r.route = f.path /\ r.method = "GET" /\ ~(r.args < f.params)
  <2>1. f.query /\ ~r.queryOk
    BY <1>1, <1>6 DEF Admits
  <2>2. FilterRejection(f, r) = <<KnownCause("InvalidQuery")>>
    BY <1>6, <2>1 DEF FilterRejection
  <2>3. QED
    BY <1>1, <1>2, <1>6, <2>2
<1>7. QED
  BY <1>3, <1>4, <1>5, <1>6

\* Combining two rejections gives NotFound only when both are NotFound.
LEMMA CombineNotFound ==
  ASSUME NEW a \in Rejection, NEW b \in Rejection
  PROVE  Combine(a, b) = NotFound <=> a = NotFound /\ b = NotFound
BY DEF Combine, NotFound, Rejection

LEMMA InitNFInv == Init => NFInv
BY DEF Init, Start, NFInv, RoutedBefore

LEMMA NextNFInv == IInv /\ NFInv /\ [Next]_vars => NFInv'
<1> SUFFICES ASSUME IInv, NFInv, [Next]_vars PROVE NFInv'
  OBVIOUS
<1>0. idx \in 1 .. NumFilters + 1 /\ rej \in Rejection /\ req \in Requests
  BY DEF IInv, TypeOK
<1>1. CASE Receive
  BY <1>1 DEF Receive, NFInv, RoutedBefore
<1>2. CASE FilterRejects
  <2> DEFINE fr == FilterRejection(Filters[idx], req)
  <2>1. idx \in 1 .. NumFilters /\ stage = "match" /\ stage' = "match"
    BY <1>0, <1>2 DEF FilterRejects
  <2>2. rej' = NotFound <=> rej = NotFound /\ fr = NotFound
    BY <1>0, <1>2, FilterRejectionType, CombineNotFound DEF FilterRejects
  <2>3. fr = NotFound <=> ~Hit(idx, req)
    <3>1. Filters[idx].params \in Nat /\ Filters[idx].query \in BOOLEAN
      BY <2>1, FiltersFacts DEF MaxParams
    <3>2. ~Admits(Filters[idx], req)
      BY <1>2 DEF FilterRejects
    <3>3. QED
      BY <1>0, <3>1, <3>2, FilterRejectionHit DEF Hit
  <2>4. RoutedBefore' <=> RoutedBefore \/ Hit(idx, req)
    BY <1>0, <1>2 DEF FilterRejects, RoutedBefore, Hit
  <2>5. rej = NotFound <=> ~RoutedBefore
    BY <2>1 DEF NFInv
  <2>6. QED
    BY <2>1, <2>2, <2>3, <2>4, <2>5 DEF NFInv
<1>3. CASE FilterAdmits
  BY <1>3 DEF FilterAdmits, Admits, NFInv, Hit
<1>4. CASE CocoReturns
  BY <1>4 DEF CocoReturns, NFInv, RoutedBefore, Hit
<1>5. CASE HandlerReplies
  <2>1. idx \in 1 .. NumFilters /\ Hit(idx, req)
    BY <1>5 DEF HandlerReplies, IInv, NFInv
  <2>2. QED
    BY <1>5, <2>1 DEF HandlerReplies, NFInv, Hit
<1>6. CASE \E e \in CocoErrors : HandlerFails(e)
  <2>1. PICK e \in CocoErrors : HandlerFails(e)
    BY <1>6
  <2>2. idx \in 1 .. NumFilters /\ Hit(idx, req)
    BY <2>1 DEF HandlerFails, IInv, NFInv
  <2>3. rej' # NotFound
    BY <1>0, <2>1 DEF HandlerFails, Combine, NotFound, Rejection
  <2>4. RoutedBefore'
    BY <2>1, <2>2 DEF HandlerFails, RoutedBefore, Hit
  <2>5. QED
    BY <2>1, <2>3, <2>4 DEF HandlerFails, NFInv
<1>7. CASE Exhausted
  <2>1. idx = NumFilters + 1 /\ stage = "match" /\ stage' = "recover"
    BY <1>0, <1>7, FiltersFacts DEF Exhausted
  <2>2. QED
    BY <1>7, <2>1 DEF Exhausted, NFInv, RoutedBefore, Hit
<1>8. CASE RecoverReplies
  BY <1>8 DEF RecoverReplies, NFInv, RoutedBefore, Hit
<1>9. CASE UNCHANGED vars
  BY <1>9 DEF vars, NFInv, RoutedBefore, Hit
<1>10. QED
  BY <1>1, <1>2, <1>3, <1>4, <1>5, <1>6, <1>7, <1>8, <1>9 DEF Next
\* The invariant implies the property: a handler's reply is not the
\* not-found message and its filter routes the request; recover's answer
\* is, by NotFoundMessage, exactly when the rejection is NotFound.
LEMMA NFInvImplies == IInv /\ NFInv => NotFoundIffUnrouted
<1> SUFFICES ASSUME IInv, NFInv, stage = "done"
             PROVE  resp.message = Lit("Resource not found") <=> ~Routed(req)
  BY DEF NotFoundIffUnrouted
<1>1. CASE resp = OkReply /\ idx \in 1 .. NumFilters /\ Hit(idx, req)
  <2>1. resp.message # Lit("Resource not found")
    BY <1>1 DEF OkReply, Reply, Lit
  <2>2. Routed(req)
    BY <1>1 DEF Routed, Hit
  <2>3. QED
    BY <2>1, <2>2
<1>2. CASE /\ resp = Recover(rej)
           /\ idx = NumFilters + 1
           /\ (rej = NotFound <=> ~RoutedBefore)
  <2>1. resp.message = Lit("Resource not found") <=> rej = NotFound
    BY <1>2, NotFoundMessage DEF IInv, TypeOK, IsNotFound
  <2>2. RoutedBefore <=> Routed(req)
    BY <1>2, FiltersFacts DEF RoutedBefore, Routed, Hit
  <2>3. QED
    BY <1>2, <2>1, <2>2
<1>3. QED
  BY <1>1, <1>2 DEF NFInv

(***************************************************************************)
(* A request is answered "Resource not found" exactly when no filter of    *)
(* the or-chain of routes() routes it, for every set of coco errors: the   *)
(* NotFound rejections of the other filters are dropped by combine, a     *)
(* filter whose path matches never rejects NotFound for another method,   *)
(* and no arm of recover but the not-found test uses that message.        *)
(***************************************************************************)
THEOREM NotFoundCorrect == Spec => []NotFoundIffUnrouted
<1>1. Init => IInv /\ NFInv
  BY InitIInv, InitNFInv
<1>2. IInv /\ NFInv /\ [Next]_vars => (IInv /\ NFInv)'
  BY NextIInv, NextNFInv
<1>3. QED
  BY <1>1, <1>2, NFInvImplies, PTL DEF Spec
(***************************************************************************)
(* The invariant behind HandlerErrorPerSpec: once a handler failed, the    *)
(* rejection is its error alone, no handler runs again, and the answer is  *)
(* recover's classification of that rejection.                            *)
(***************************************************************************)
EInv ==
  raised # NoError =>
    /\ rej = <<ErrorCause(raised)>>
    /\ stage # "handler"
    /\ stage = "done" => resp = Recover(rej)

\* recover answers a rejection that carries one error::Error with the arm
\* of the match for that error.
LEMMA RecoverSingleError ==
  ASSUME NEW f \in Failures
  PROVE  Recover(<<ErrorCause(f)>>) = RecoverError(f)
<1> DEFINE one == <<ErrorCause(f)>>
<1>1. ~IsNotFound(one) /\ ~Has(one, "Routing") /\ Has(one, "Error")
  BY DEF IsNotFound, NotFound, Has, ErrorCause
<1>2. Find(one, "Error") = ErrorCause(f)
  BY DEF Find, ErrorCause
<1>3. QED
  BY <1>1, <1>2 DEF Recover, ErrorCause

LEMMA InitEInv == Init => EInv
BY DEF Init, Start, EInv

LEMMA NextEInv == RInv /\ EInv /\ [Next]_vars => EInv'
<1> SUFFICES ASSUME IInv, OneCause, EInv, [Next]_vars PROVE EInv'
  BY DEF RInv
<1>0. idx \in 1 .. NumFilters + 1 /\ rej \in Rejection /\ req \in Requests
  BY DEF IInv, TypeOK
<1>1. CASE Receive
  BY <1>1 DEF Receive, EInv
<1>2. CASE FilterRejects
  <2> DEFINE fr == FilterRejection(Filters[idx], req)
  <2> SUFFICES ASSUME raised # NoError PROVE EInv'
    BY <1>2 DEF FilterRejects, EInv
  <2>1. idx \in 1 .. NumFilters /\ rej = <<ErrorCause(raised)>> /\ stage' = "match"
    BY <1>0, <1>2 DEF FilterRejects, EInv
  <2>2. fr = NotFound
    <3>1. Filters[idx].params \in Nat /\ Filters[idx].query \in BOOLEAN
      BY <2>1, FiltersFacts DEF MaxParams
    <3>2. fr # NotFound => Filters[idx].path = req.route
      BY <1>0, <3>1, FilterRejectionCases
    <3>3. rej # NotFound
      BY <2>1 DEF NotFound
    <3>4. QED
      BY <2>1, <3>2, <3>3, NoCauseBeforeMatch
  <2>3. rej' = rej
    BY <1>0, <1>2, <2>2 DEF FilterRejects, Combine, NotFound, Rejection
  <2>4. QED
    BY <1>2, <2>1, <2>3 DEF FilterRejects, EInv
<1>3. CASE FilterAdmits
  <2>1. idx \in 1 .. NumFilters /\ Filters[idx].path = req.route
    BY <1>0, <1>3 DEF FilterAdmits, Admits
  <2>2. rej = NotFound
    BY <2>1, NoCauseBeforeMatch
  <2>3. raised = NoError
    BY <2>2 DEF EInv, NotFound
  <2>4. QED
    BY <1>3, <2>3 DEF FilterAdmits, EInv
<1>4. CASE CocoReturns
  BY <1>4 DEF CocoReturns, EInv
<1>5. CASE HandlerReplies
  BY <1>5 DEF HandlerReplies, EInv
<1>6. CASE \E e \in CocoErrors : HandlerFails(e)
  <2>1. PICK e \in CocoErrors : HandlerFails(e)
    BY <1>6
  <2>2. rej = NotFound
    BY <2>1 DEF HandlerFails, OneCause
  <2>3. rej' = <<ErrorCause(e)>>
    BY <2>1, <2>2 DEF HandlerFails, Combine, NotFound
  <2>4. QED
    BY <2>1, <2>3 DEF HandlerFails, EInv
<1>7. CASE Exhausted
  BY <1>7 DEF Exhausted, EInv
<1>8. CASE RecoverReplies
  BY <1>8 DEF RecoverReplies, EInv
<1>9. CASE UNCHANGED vars
  BY <1>9 DEF vars, EInv
<1>10. QED
  BY <1>1, <1>2, <1>3, <1>4, <1>5, <1>6, <1>7, <1>8, <1>9 DEF Next

\* The invariant implies the property, by the agreement of recover's
\* matches with the table.
LEMMA EInvImplies == IInv /\ EInv => HandlerErrorPerSpec
<1> SUFFICES ASSUME IInv, EInv, stage = "done", raised # NoError
             PROVE  <<resp.status, resp.variant>> = SpecClassifyFailure(raised)
  BY DEF HandlerErrorPerSpec
<1>1. raised \in Failures
  BY CocoErrorsAssumption DEF IInv, TypeOK
<1>2. resp = RecoverError(raised)
  BY <1>1, RecoverSingleError DEF EInv
<1>3. QED
  BY <1>1, <1>2, CodeMatchesTable DEF CodeClass

(***************************************************************************)
(* When a handler's coco call fails, the request is answered with the      *)
(* status and variant spec.md section 4.2 gives that error, for every set  *)
(* of coco errors and every keystore: `?` in the handler, the NotFound     *)
(* rejections of the later filters dropped by Rejection::combine, and the  *)
(* nested matches of recover.                                              *)
(***************************************************************************)
THEOREM HandlerErrorCorrect == Spec => []HandlerErrorPerSpec
<1>1. Init => RInv /\ EInv
  BY InitIInv, InitOneCause, InitEInv DEF RInv
<1>2. RInv /\ EInv /\ [Next]_vars => (RInv /\ EInv)'
  BY NextIInv, NextOneCause, NextEInv DEF RInv
<1>3. QED
  BY <1>1, <1>2, EInvImplies, PTL DEF Spec, RInv

(***************************************************************************)
(* A malformed query.  The filter of the request's path is the only one   *)
(* that adds a cause, InvalidQuery, and it never admits the request; so   *)
(* no handler runs and recover answers the single InvalidQuery cause.    *)
(***************************************************************************)
\* The filter of the request's path is behind in the or-chain.
MatchedBefore == \E i \in 1 .. idx - 1 : Filters[i].path = req.route

QInv ==
  QueryMalformed(req) =>
    /\ stage # "handler"
    /\ rej = IF MatchedBefore THEN <<KnownCause("InvalidQuery")>> ELSE NotFound
    /\ stage \in {"recover", "done"} => idx = NumFilters + 1
    /\ stage = "done" => resp = Recover(rej)

\* The filter of a malformed query's path rejects it InvalidQuery and
\* never admits it; its handler does not run.
LEMMA MalformedFilter ==
  ASSUME NEW r \in Requests, QueryMalformed(r),
         NEW i \in 1 .. NumFilters, Filters[i].path = r.route
  PROVE  /\ ~Admits(Filters[i], r)
         /\ FilterRejection(Filters[i], r) = <<KnownCause("InvalidQuery")>>
<1>1. PICK m \in 1 .. NumFilters :
        /\ Filters[m].query
        /\ Filters[m].path = r.route
        /\ r.method = "GET"
        /\ r.args >= Filters[m].params
        /\ ~r.queryOk
  BY DEF QueryMalformed
<1>2. m = i
  BY <1>1, DistinctPaths
<1>3. ~Admits(Filters[i], r)
  BY <1>1, <1>2 DEF Admits
<1>4. r.args \in Nat /\ Filters[i].params \in Nat
  BY FiltersFacts DEF Requests, MaxParams
<1>5. QED
  BY <1>1, <1>2, <1>3, <1>4 DEF FilterRejection

\* recover finds neither Routing nor error::Error in warp's InvalidQuery
\* and answers with its fallback.
LEMMA RecoverInvalidQuery ==
  Recover(<<KnownCause("InvalidQuery")>>) = Reply(500, "INTERNAL_ERROR", Lit("Something went wrong"))
<1>1. ~IsNotFound(<<KnownCause("InvalidQuery")>>)
  BY DEF IsNotFound, NotFound
<1>2. ~Has(<<KnownCause("InvalidQuery")>>, "Routing") /\ ~Has(<<KnownCause("InvalidQuery")>>, "Error")
  BY DEF Has, KnownCause
<1>3. QED
  BY <1>1, <1>2 DEF Recover

LEMMA InitQInv == Init => QInv
BY DEF Init, Start, QInv, MatchedBefore

LEMMA NextQInv == IInv /\ QInv /\ [Next]_vars => QInv'
<1> SUFFICES ASSUME IInv, QInv, [Next]_vars, QueryMalformed(req)' PROVE QInv'
  BY DEF QInv
<1> USE FiltersFacts
<1>0. req \in Requests /\ idx \in 1 .. NumFilters + 1 /\ rej \in Rejection
  BY DEF IInv, TypeOK
<1>1. CASE Receive
  BY <1>1 DEF Receive, QInv, MatchedBefore
<1>2. CASE FilterRejects
  <2>1. QueryMalformed(req) /\ req' = req /\ idx' = idx + 1 /\ stage' = "match" /\ stage = "match"
    BY <1>2 DEF FilterRejects
  <2>2. idx \in 1 .. NumFilters
    BY <1>0, <1>2 DEF FilterRejects
  <2>3. CASE Filters[idx].path = req.route
    <3>1. ~MatchedBefore
      BY <2>2, <2>3, DistinctPaths DEF MatchedBefore
    <3>2. rej = NotFound
      BY <2>1, <3>1 DEF QInv
    <3>3. rej' = <<KnownCause("InvalidQuery")>>
      BY <1>2, <1>0, <2>1, <2>2, <2>3, <3>2, MalformedFilter DEF FilterRejects, Combine, NotFound
    <3>4. MatchedBefore'
      BY <2>1, <2>2, <2>3 DEF MatchedBefore
    <3>5. QED
      BY <2>1, <3>3, <3>4 DEF QInv
  <2>4. CASE Filters[idx].path # req.route
    <3>1. rej' = rej
      <4>1. FilterRejection(Filters[idx], req) = NotFound
        BY <2>4 DEF FilterRejection
      <4>2. QED
        BY <1>0, <1>2, <4>1, ConcatEmptySeq DEF FilterRejects, Combine, NotFound, Rejection
    <3>2. MatchedBefore' <=> MatchedBefore
      BY <2>1, <2>2, <2>4 DEF MatchedBefore
    <3>3. QED
      BY <2>1, <3>1, <3>2 DEF QInv
  <2>5. QED
    BY <2>3, <2>4
<1>3. CASE FilterAdmits
  <2>1. idx \in 1 .. NumFilters /\ Admits(Filters[idx], req) /\ req' = req
    BY <1>0, <1>3 DEF FilterAdmits
  <2>2. Filters[idx].path = req.route
    BY <2>1 DEF Admits
  <2>3. QED
    BY <1>0, <2>1, <2>2, MalformedFilter
<1>4. CASE CocoReturns \/ HandlerReplies \/ \E e \in CocoErrors : HandlerFails(e)
  <2>1. stage = "handler" /\ req' = req
    BY <1>4 DEF CocoReturns, HandlerReplies, HandlerFails
  <2>2. QED
    BY <2>1 DEF QInv
<1>5. CASE Exhausted
  <2>1. idx = NumFilters + 1
    BY <1>0, <1>5 DEF Exhausted
  <2>2. QED
    BY <1>5, <2>1 DEF Exhausted, QInv, MatchedBefore
<1>6. CASE RecoverReplies
  BY <1>6 DEF RecoverReplies, QInv, MatchedBefore
<1>7. CASE UNCHANGED vars
  BY <1>7 DEF vars, QInv, MatchedBefore
<1>8. QED
  BY <1>1, <1>2, <1>3, <1>4, <1>5, <1>6, <1>7 DEF Next

LEMMA QInvImplies == IInv /\ QInv => MalformedQueryFallsBack
<1> SUFFICES ASSUME IInv, QInv, stage = "done", QueryMalformed(req)
             PROVE  resp = Reply(500, "INTERNAL_ERROR", Lit("Something went wrong"))
  BY DEF MalformedQueryFallsBack
<1>1. idx = NumFilters + 1 /\ resp = Recover(rej)
  BY DEF QInv
<1>2. MatchedBefore
  BY <1>1, FiltersFacts DEF QueryMalformed, MatchedBefore
<1>3. rej = <<KnownCause("InvalidQuery")>>
  BY <1>2 DEF QInv
<1>4. QED
  BY <1>1, <1>3, RecoverInvalidQuery

(***************************************************************************)
(* Every GET of blob or tree whose query string does not decode is         *)
(* answered 500 INTERNAL_ERROR "Something went wrong" (source.rs:56 and   *)
(* :240 with recover's fallback), for every keystore and every error the  *)
(* coco calls can return: spec.md section 4.2 step 2's 400 INVALID_QUERY   *)
(* is never given by these routes.                                         *)
(***************************************************************************)
THEOREM MalformedQueryFallsBackCorrect == Spec => []MalformedQueryFallsBack
<1>1. Init => IInv /\ QInv
  BY InitIInv, InitQInv
<1>2. IInv /\ QInv /\ [Next]_vars => (IInv /\ QInv)'
  BY NextIInv, NextQInv
<1>3. QED
  BY <1>1, <1>2, QInvImplies, PTL DEF Spec
=============================================================================
