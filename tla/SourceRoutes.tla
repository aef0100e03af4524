---------------------------- MODULE SourceRoutes ----------------------------
(***************************************************************************)
(* One request through the source-browsing routes of the proxy             *)
(* (proxy/src/http/source.rs) and, when they all reject it, through        *)
(* recover (proxy/api/src/http/error.rs).                                  *)
(*                                                                         *)
(* routes() is a left fold of Filter::or over eight filters.  Each filter *)
(* checks, in this order, its path segment, the GET method, its path      *)
(* parameters and (blob, tree) its query, then runs its handler, which     *)
(* calls one or two coco functions and returns the first error with `?`.  *)
(* The next filter is tried only when the previous one rejected, and its   *)
(* rejection is combined into the one carried so far.                      *)
(*                                                                         *)
(* A request is abstracted to its first path segment after /source, its   *)
(* method, how many further path segments it has and whether its query    *)
(* decodes into the filter's query struct.  The coco functions live        *)
(* outside this repository: each call returns Ok or any of CocoErrors.     *)
(* The read lock on the librad paths that handlers take is left out: no   *)
(* code of this repository ever takes it for writing.                      *)
(***************************************************************************)
EXTENDS Recover, ClassificationSpec

CONSTANT
  CocoErrors  \* the errors a coco function of a handler can return

ASSUME CocoErrorsAssumption == CocoErrors \subseteq Failures

(***************************************************************************)
(* The filters of routes(), in the order of the or-chain: their path       *)
(* segment, the number of path parameters they take (local-branches takes *)
(* a tail, which matches anything), whether they decode a query, and the  *)
(* coco calls of their handler.                                            *)
(***************************************************************************)
Filters ==
  << [path |-> "blob",           params |-> 1, query |-> TRUE,  calls |-> <<"blob">>],
     [path |-> "branches",       params |-> 1, query |-> FALSE, calls |-> <<"branches">>],
     [path |-> "commit",         params |-> 2, query |-> FALSE, calls |-> <<"commit">>],
     [path |-> "commits",        params |-> 2, query |-> FALSE, calls |-> <<"commits">>],
     [path |-> "local-branches", params |-> 0, query |-> FALSE, calls |-> <<"local_branches">>],
     [path |-> "revisions",      params |-> 1, query |-> FALSE, calls |-> <<"branches", "tags">>],
     [path |-> "tags",           params |-> 1, query |-> FALSE, calls |-> <<"tags">>],
     [path |-> "tree",           params |-> 1, query |-> TRUE,  calls |-> <<"tree">>] >>

NumFilters == Len(Filters)

\* The most path parameters a filter takes.
MaxParams == 2

Requests ==
  [ route   : {Filters[i].path : i \in 1 .. NumFilters} \cup {"other"},
    method  : {"GET", "POST"},
    args    : 0 .. MaxParams,
    queryOk : BOOLEAN ]

\* No error raised by a handler.
NoError == << >>

VARIABLES
  stage,   \* "match", "handler", "recover" or "done"
  req,     \* the request being served
  idx,     \* the filter of the or-chain being tried
  call,    \* the coco call of the handler being made
  rej,     \* the rejection combined so far
  raised,  \* the error a handler returned, NoError if none did
  resp     \* the response, NoResponse before

vars == <<stage, req, idx, call, rej, raised, resp>>

OkReply == Reply(200, "", Lit(""))
NoResponse == Reply(0, "", Lit(""))

(***************************************************************************)
(* What filter f rejects request r with, the first failing check in the  *)
(* filter's order:                                                         *)
(* path("...") and a missing param reject NotFound, warp::get() rejects    *)
(* MethodNotAllowed, warp::filters::query::query() InvalidQuery.           *)
(***************************************************************************)
\* Mutant: the path parameters are checked before warp::get().
FilterRejectionParamsFirst(f, r) ==
  IF r.route # f.path THEN NotFound
  ELSE IF r.args < f.params THEN NotFound
  ELSE IF r.method # "GET" THEN <<KnownCause("MethodNotAllowed")>>
  ELSE IF f.query /\ ~r.queryOk THEN <<KnownCause("InvalidQuery")>>
  ELSE NotFound

FilterRejection(f, r) ==
  IF r.route # f.path THEN NotFound
  ELSE IF r.method # "GET" THEN <<KnownCause("MethodNotAllowed")>>
  ELSE IF r.args < f.params THEN NotFound
  ELSE IF f.query /\ ~r.queryOk THEN <<KnownCause("InvalidQuery")>>
  ELSE NotFound

\* Mutant: the query is not checked before the handler runs.
AdmitsIgnoresQuery(f, r) ==
  /\ r.route = f.path
  /\ r.method = "GET"
  /\ r.args >= f.params

\* Filter f lets request r through to its handler.
Admits(f, r) ==
  /\ r.route = f.path
  /\ r.method = "GET"
  /\ r.args >= f.params
  /\ f.query => r.queryOk

\* Request r is at the first filter, nothing rejected or answered yet.
Start(r) ==
  /\ stage = "match"
  /\ req = r
  /\ idx = 1
  /\ call = 1
  /\ rej = NotFound
  /\ raised = NoError
  /\ resp = NoResponse

Init == \E r \in Requests : Start(r)

\* Mutant: the rejection of the previous request is carried over.
ReceiveKeepsRejection ==
  /\ stage = "done"
  /\ \E r \in Requests :
       /\ stage' = "match"
       /\ req' = r
       /\ idx' = 1
       /\ call' = 1
       /\ raised' = NoError
       /\ resp' = NoResponse
  /\ UNCHANGED rej

\* The previous request was answered; the next one arrives.
Receive ==
  /\ stage = "done"
  /\ \E r \in Requests :
       /\ stage' = "match"
       /\ req' = r
       /\ idx' = 1
       /\ call' = 1
       /\ rej' = NotFound
       /\ raised' = NoError
       /\ resp' = NoResponse

\* Filter idx rejects the request; the or-chain moves to the next filter.
FilterRejects ==
  /\ stage = "match"
  /\ idx <= NumFilters
  /\ ~Admits(Filters[idx], req)
  /\ rej' = Combine(rej, FilterRejection(Filters[idx], req))
  /\ idx' = idx + 1
  /\ UNCHANGED <<stage, req, call, raised, resp>>

\* Filter idx admits the request: its handler starts.
FilterAdmits ==
  /\ stage = "match"
  /\ idx <= NumFilters
  /\ Admits(Filters[idx], req)
  /\ stage' = "handler"
  /\ call' = 1
  /\ UNCHANGED <<req, idx, rej, raised, resp>>

\* Mutant: off by one on the handler's last call.
CocoReturnsPastLast ==
  /\ stage = "handler"
  /\ call <= Len(Filters[idx].calls)
  /\ call' = call + 1
  /\ UNCHANGED <<stage, req, idx, rej, raised, resp>>

\* A coco call that is not the handler's last returns Ok.
CocoReturns ==
  /\ stage = "handler"
  /\ call < Len(Filters[idx].calls)
  /\ call' = call + 1
  /\ UNCHANGED <<stage, req, idx, rej, raised, resp>>

\* The handler's last coco call returns Ok: reply::json of the result.
HandlerReplies ==
  /\ stage = "handler"
  /\ call = Len(Filters[idx].calls)
  /\ stage' = "done"
  /\ resp' = OkReply
  /\ UNCHANGED <<req, idx, call, rej, raised>>

\* A coco call returns e; `?` turns it into a rejection and the or-chain
\* tries the next filter.
HandlerFails(e) ==
  /\ stage = "handler"
  /\ rej' = Combine(rej, <<ErrorCause(e)>>)
  /\ raised' = e
  /\ idx' = idx + 1
  /\ stage' = "match"
  /\ UNCHANGED <<req, call, resp>>

\* Every filter rejected: the rejection reaches recover.
Exhausted ==
  /\ stage = "match"
  /\ idx > NumFilters
  /\ stage' = "recover"
  /\ UNCHANGED <<req, idx, call, rej, raised, resp>>

\* recover answers with the classification of the rejection.
RecoverReplies ==
  /\ stage = "recover"
  /\ resp' = Recover(rej)
  /\ stage' = "done"
  /\ UNCHANGED <<req, idx, call, rej, raised>>

Next ==
  \/ Receive
  \/ FilterRejects
  \/ FilterAdmits
  \/ CocoReturns
  \/ HandlerReplies
  \/ \E e \in CocoErrors : HandlerFails(e)
  \/ Exhausted
  \/ RecoverReplies

Spec == Init /\ [][Next]_vars

(***************************************************************************)
(* Properties.                                                             *)
(***************************************************************************)

Stages == {"match", "handler", "recover", "done"}

\* Type invariant.
TypeOK ==
  /\ stage \in Stages
  /\ req \in Requests
  /\ idx \in 1 .. NumFilters + 1
  /\ call \in 1 .. 2
  /\ rej \in Rejection
  /\ raised \in CocoErrors \cup {NoError}
  /\ resp \in {OkReply, NoResponse} \cup ErrorResponse

\* Some filter's path and parameters (or, for another method, its path
\* alone) accept the request, so that warp's NotFound is not its rejection.
Routed(r) ==
  \E i \in 1 .. NumFilters :
    /\ Filters[i].path = r.route
    /\ r.method = "GET" => r.args >= Filters[i].params

(***************************************************************************)
(* A request is answered "Resource not found" exactly when no filter       *)
(* routes it: NotFound rejections of the filters that do not match must   *)
(* neither mask the rejection of the one that does (Rejection::combine in *)
(* the or-chain of routes()) nor be produced by a filter whose path       *)
(* matched (warp::get() is checked before the parameters).                 *)
(***************************************************************************)
NotFoundIffUnrouted ==
  stage = "done" =>
    (resp.message = Lit("Resource not found") <=> ~Routed(req))

(***************************************************************************)
(* When a handler fails, the error its coco call returned survives the     *)
(* rest of the or-chain untouched and the request is answered with the     *)
(* status and variant spec.md section 4.2 gives that error: `?` in the      *)
(* handlers, Rejection::combine and recover together.                      *)
(***************************************************************************)
HandlerErrorPerSpec ==
  (stage = "done" /\ raised # NoError) =>
    <<resp.status, resp.variant>> = SpecClassifyFailure(raised)

(***************************************************************************)
(* spec.md section 4.2 step 2: a malformed query string is answered 400    *)
(* INVALID_QUERY.                                                          *)
(***************************************************************************)
QueryMalformed(r) ==
  \E i \in 1 .. NumFilters :
    /\ Filters[i].query
    /\ Filters[i].path = r.route
    /\ r.method = "GET"
    /\ r.args >= Filters[i].params
    /\ ~r.queryOk

MalformedQueryIs400 ==
  (stage = "done" /\ QueryMalformed(req)) =>
    /\ resp.status = 400
    /\ resp.variant = "INVALID_QUERY"

(***************************************************************************)
(* What the code does instead: blob and tree decode their query with       *)
(* warp::filters::query::query, whose InvalidQuery rejection is neither    *)
(* Routing nor error::Error, so no handler runs and, whatever the other    *)
(* filters of the or-chain add, recover answers with its 500 fallback.     *)
(***************************************************************************)
MalformedQueryFallsBack ==
  (stage = "done" /\ QueryMalformed(req)) =>
    resp = Reply(500, "INTERNAL_ERROR", Lit("Something went wrong"))

(***************************************************************************)
(* The source routes implement the Recovery Bridge: the filters and the    *)
(* handler are its stages, and a source request never carries more than   *)
(* one cause.                                                              *)
(***************************************************************************)
BridgeStage ==
  CASE stage \in {"match", "handler"} -> "handling"
    [] stage = "recover"              -> "recovering"
    [] stage = "done"                 -> "answered"

Bridge == INSTANCE RecoveryBridge WITH stage <- BridgeStage, MaxCauses <- 1

\* The refinement, as a property.
ImplementsBridge == Bridge!Spec
=============================================================================
