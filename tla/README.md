# Error recovery of the proxy HTTP API: TLA+ models

This directory holds TLA+ models of how the proxy's HTTP layer turns failures into responses. It covers three parts of the code:

- `proxy/api/src/error.rs`
- `proxy/api/src/http/error.rs`
- `proxy/src/http/source.rs`

Alongside the models are TLC configurations that check them, and TLAPS proofs of their main properties. It is meant to be read next to the code and `spec.md`.

## The system

**Failure taxonomy** (`api/src/error.rs`; `Routing` in `http/error.rs`)

- `error::Error` is the closed set of failures a handler can raise.
- Some of its variants wrap enums of `radicle_daemon` and `radicle_source`, for example `state::Error::Checkout(checkout::Error::Git(_))`.
- `Routing` holds the HTTP layer's own failures.
- Both implement `warp::reject::Reject`, so they travel inside a warp `Rejection`.

**Filters and handlers** (`source.rs`)

- `routes()` is a left fold of `Filter::or` over eight filters.
- Each filter checks, in order: its path segment, `warp::get()`, its path parameters and (for blob and tree) its query string.
- It then runs its handler. The handler makes one or two `coco` calls and turns the first error into a rejection with `?`.
- When a filter rejects, `or` tries the next one and combines the two rejections:
  - a `NotFound` side is dropped;
  - otherwise the result is `Combined(left, right)`.

**Classification engine** (`recover`, `recover_source`)

`recover` is applied to the final rejection:

- `is_not_found()` gives 404 "Resource not found";
- else the first `Routing` cause;
- else the first `error::Error` cause, through nested matches;
- else 500 INTERNAL_ERROR "Something went wrong".

It answers with a JSON envelope of `{message, variant}` and the status code.

**Payloads and their documentation** (`source.rs` 399–697)

- Each handler ends in `reply::json(&value)`. serde turns the coco value into JSON through the hand-written `Serialize` impls of `source.rs`.
- Each filter publishes the 200 body it returns for API discovery: `document::response(200, document::body(T::document()))`.
- `T::document()` comes from the `ToDocumentedType` impl written beside each `Serialize` impl. Nothing but review keeps the two in step.

**What is hard**

- The answer depends on the *combination* of rejections the or-chain builds, not on one failure.
- It also depends on the order of the checks inside each filter and the order of the arms of the nested matches.
- It depends on two opaque keystore predicates that may both hold.
- It depends on which kind of rejection a warp built-in produces: warp's own `InvalidQuery` and `MethodNotAllowed` are not `Routing`.
- None of this is easy to unit-test, because each case needs a specific request shape, a failing coco call and a specific combination of earlier rejections.

## Modules

| Module | Models | State and actions |
|---|---|---|
| `ErrorTaxonomy` | `error::Error` and the nested enums recover matches on; `Routing`; warp `Rejection`, `combine`, `is_not_found` and `find` | No state. A failure is the path of its variant names, e.g. `<<"State","Checkout","Git">>`. A rejection is the sequence of its causes in `find`'s left-to-right order: `NotFound` is `<<>>` and `combine` is concatenation. The keystore error is a constant set `KeystoreCases`, with the subsets on which `is_invalid_passphrase` and `is_key_exists` hold. |
| `Recover` | `recover`, `recover_source` and the envelope | Pure operators, one per match: `RecoverState`, `RecoverKeystore`, `RecoverError`, `RecoverRouting`, `Recover`. Each response is a record of status, variant and message. A message is either a literal of the code (`Lit`) or the text of a sub-value of the failure (`Shows(f, depth, format)`). The text itself is abstracted to which value is shown and how. |
| `ClassificationSpec` | spec.md §4.2, written from the spec text | The decision procedure and the mapping table, "most specific row wins". The properties compare `Recover` against it. |
| `RecoveryBridge` | spec.md §4.4; the contract of any filter chain ending in `recover` | Variables are `stage`, `rej` and `resp`. Actions: `Reject(c)` combines a cause into `rej`; `Succeed`; `Exhaust`; `Answer`, where `resp' = Recover(rej)`; `NextRequest`. |
| `SourceRoutes` | `routes()` and the handlers of `source.rs` | Variables:<br>• `stage`: match, handler, recover or done<br>• `req`, the current request<br>• `idx`, the filter being tried<br>• `call`, the handler's coco call<br>• `rej`<br>• `raised`, the handler error<br>• `resp`<br><br>Actions:<br>• `FilterRejects` and `FilterAdmits` for one filter's checks;<br>• `CocoReturns`, `HandlerReplies` and `HandlerFails(e)` for a handler;<br>• `Exhausted` and `RecoverReplies` for the end of the chain and `recover`;<br>• `Receive` for the next request.<br><br>A request is abstracted to its route segment, method, number of path parameters, and whether its query decodes. |
| `SourcePayloads` | the `Serialize` and `ToDocumentedType` impls of `source.rs`; the body each handler replies and the 200 response each filter documents | One `Serialise*` operator per `Serialize` impl and one `*Doc` operator per `ToDocumentedType` impl. A JSON value is a kind plus, for arrays and objects, its elements or its keyed fields. A string keeps its text only where an `enum_string` constrains it. A documented type is a type, a nullable flag and enum values, items or properties. `ReplyBodies[h]` is every body handler `h` can send for the coco values in the model: blobs of both contents and object types, trees, and lists of up to `MaxList` entries. `DocumentedResponse[h]` is the type its filter documents. One variable, `sent`, the last reply; one action, `Respond(h, body)`. `Pairs` walks a body and its documented type together, through array elements and the keys both sides have. It applies `Reach` (one level down) `JsonDepth` = 6 times, the deepest a body nests. `MCSourcePayloads` states as `ASSUME WalkComplete` that one more level adds no pair to any body, and TLC evaluates it on every run. In the model four levels already close the walk, because a set of pairs merges equal ones: a person's `name` pair is the same as a tree's `path` pair one level up. The walk is not recursive so that it can be proved about. |
| `MCRecoveryBridge`, `MCSourceRoutes`, `MCSourcePayloads` | TLC instances | The four keystore cases, as model values, cover every combination of the two predicates. `CocoErrors` is all of `error::Error`. |
| `RecoverProofs`, `ClassificationProofs`, `RecoveryBridgeProofs`, `SourceRoutesProofs`, `SourceRoutesAnswers`, `SourcePayloadsProofs` | TLAPS proofs | See below. |

`SourceRoutes` refines `RecoveryBridge` through this mapping:

```
Bridge == INSTANCE RecoveryBridge WITH stage <- BridgeStage, MaxCauses <- 1
```

- The match and handler stages map to "handling".
- `HandlerFails` and each filter rejection map to `Reject` when they add a cause, and to a stutter when they add `NotFound`.
- `Exhausted` maps to `Exhaust` and `RecoverReplies` to `Answer`.
- A source request never carries more than one cause, because at most one filter matches a route segment.

## Runs

| Run | Checks | Shows |
|---|---|---|
| `bridge_classification`<br>(`MCRecoveryBridge.cfg`, `MaxCauses = 2`, 10 204 states) | `TypeOK`, `ClassifiedPerSpec` | Every rejection of up to two causes, of every kind (Routing, every `error::Error`, warp's own) in either order, gets the status and variant of spec §4.2. `NotFound` gets the "Resource not found" message. |
| `source_routes`<br>(`MCSourceRoutes.cfg`, 9 360 states) | `TypeOK`, `NotFoundIffUnrouted`, `HandlerErrorPerSpec`, `MalformedQueryFallsBack`, `ImplementsBridge` | See the list below the table. |
| `source_malformed_query`<br>(`MCSourceRoutesQuery.cfg`) | `MalformedQueryIs400` | **Violated**, as expected: see Findings. |
| `source_payloads`<br>(`MCSourcePayloads.cfg`, 310 states) | `DocumentedKeysSerialised` | Every property a filter documents is present in every body its handler can send, at every depth (Blob > Info > Commit > Person, Tree > TreeEntry, Revision). |
| `source_payload_keys`<br>(`MCSourcePayloadsKeys.cfg`) | `SerialisedKeysDocumented` | **Violated**: the blob body has an undocumented `path` key. See Findings. |
| `source_payload_types`<br>(`MCSourcePayloadsTypes.cfg`) | `SerialisedTypesDocumented` | **Violated**: `committerTime` is an integer, documented as a string. See Findings. |

What `source_routes` shows:

- A request is answered "Resource not found" exactly when no filter routes it.
- When a handler fails, its error survives the rest of the chain and is classified per spec.
- A GET of blob or tree whose query does not decode always gets the 500 fallback. This is what the code does, and it is the finding below stated as a property that holds. A filter that ran its handler without checking the query (`AdmitsIgnoresQuery`) breaks it.
- The chain implements the Recovery Bridge.

**Bounds.** Two causes per rejection is the smallest bound at which the order of causes matters. That order decides between Routing and Error and between the first and a later Error. The source run enumerates:

- every route segment, plus one that no filter has;
- both GET and a non-GET method;
- 0 to 2 path parameters, the most any filter takes;
- a query that decodes and one that does not;
- every `error::Error` for every coco call, both calls of `revisions` included.

The payload runs use two branch or tag names and lists of up to three elements. That covers the empty list, a single element and lists with repeats, for every list a handler returns (branches, tags, commits, tree entries, revisions' branches and tags). Blobs come with ASCII and binary content (content `null`, which only a nullable documented type allows). Infos come with both object types (the `enum_string`). Each field's shape does not depend on the field's text, so longer lists or more names add no new shapes.

Every action and every disjunct of the next-state relations of the passing runs fires.

**Fairness.** None is assumed, and no liveness property is checked. The filter chain is a finite, acyclic sequence of stages. Its only awaits are the read lock on the librad paths and the coco calls, and the model takes them to return. So "every request is answered" would hold under weak fairness whatever the handlers did, and would say nothing about the code. Whether the lock and the coco calls return is outside this repository.

**Mutants.** Each property of a passing run is shown to be violated by a plausible bug in the definition it rests on, for example:

- the parameters checked before `warp::get()` (`FilterRejectionParamsFirst`);
- a checkout git error mapped like a state git error (`CheckoutRecoveryGitAs400`);
- a filter that runs its handler without decoding the query (`AdmitsIgnoresQuery`);
- `Serialize for coco::TreeEntry` without its `info` field (`SerialiseTreeEntryNoInfo`);
- the previous request's rejection carried over (`ReceiveKeepsRejection`).

## Findings

**Malformed query gets 500, not 400.**

- `blob` and `tree` decode their query with `warp::filters::query::query` (`source.rs:56`, `:240`).
- That filter rejects with warp's `InvalidQuery`, which is neither `Routing` nor `error::Error`.
- So `recover` answers 500 INTERNAL_ERROR "Something went wrong", while spec §4.2 step 2 says 400 INVALID_QUERY.
- Per its doc comment (`http/error.rs:24`), `Routing::InvalidQuery` is raised by `with_qs`/`with_qs_opt`, which these routes do not use.

**The documented blob has no `path`.** `Serialize for coco::Blob` writes `path` (`source.rs:430`), and the unit test expects it (line 783). `ToDocumentedType for coco::Blob` (435–449) documents only `binary`, `content` and `info`. So the published documentation of `GET /source/blob` omits a field of every reply.

**`committerTime` is documented as a string but sent as an integer.** `Serialize for coco::Commit` writes `committer_time.seconds()` (`source.rs:498`), an integer; the tests expect `1_575_283_425` and the like (lines 780, 911, 1191). `ToDocumentedType for coco::Commit` declares `document::string()` (527–532). Every reply that contains a commit disagrees with its documentation: blob, commit, commits and tree.

**Other differences from the spec.** These were seen while modelling but are not turned into runs:

- A non-GET request to a known source route is rejected `MethodNotAllowed` and answered 500 INTERNAL_ERROR.
- GIT_ERROR is 400 for state and source git errors but 500 for checkout and validation git errors. The spec table agrees with the code here.
- The passphrase message in the code has U+2019 for the apostrophe. TLA+ strings are ASCII, so the model writes `'`.

## Proofs (TLAPS)

Every safety property of a passing run is proved for every value of the constants: every keystore, every choice of the opaque predicate sets, every set `CocoErrors` of handler errors and every bound `MaxCauses`, every set of branch and tag `Names` and every list bound `MaxList`. TLC shows the same properties on one instance.

**`RecoverProofs`**: `recover` is total.

- `THEOREM RecoverTotal`: `\A rej \in Rejection : Recover(rej) \in ErrorResponse` (spec.md §8).
- `FindFirst`: the leftmost cause of a type exists, by well-foundedness of `<` on `Nat`, and `Find` returns it.
- One lemma per match (`RecoverStateType` ... `RecoverRoutingType`). Each shows its arm answers within `ClassifiedResponse`: the error responses whose message is not "Resource not found".
- `NotFoundMessage`: `recover` answers "Resource not found" exactly for `NotFound`. A missing blob says "entity not found".

**`ClassificationProofs`**: the code agrees with the spec's table.

- `THEOREM CodeMatchesTable`: for every `f \in Failures`, the status and variant of `RecoverError(f)` are `SpecClassifyFailure(f)`.
- "Most specific row wins" is a `CHOOSE`. `MostSpecificIs` shows it picks the row that is a prefix of `f` and longer than every other such row. `TableRow` reduces a failure to naming that row and showing every other row is shorter or `Differs` from `f` at some index.
- One lemma per group of failures:
  - `CheckoutAgrees` and `ValidationAgrees` take the row from the code's own table (`CheckoutRecovery[c]`), one row per case.
  - `OwnRowAgrees` covers failures with a row of their own.
  - `ParentRowAgrees` covers failures that fall to `<<"State">>` or `<<"Source">>`.
  - `NoRowAgrees` covers failures no row covers.
  - `KeystoreAgrees` covers the two predicates, passphrase first.
- `THEOREM RecoverMatchesSpec`: `recover` agrees with `SpecClassify` on every rejection, of any length. By `FindFirst`, both pick the same first Routing cause and the same first Error cause.

**`RecoveryBridgeProofs`**

- `THEOREM BridgeTypeCorrect` (`TypeOK`) and `THEOREM ClassifiedCorrect` (`ClassifiedPerSpec`), for every `MaxCauses`.
- The inductive invariant is `BInv == TypeOK /\ (stage = "answered" => resp = OkReply \/ resp = Recover(rej))`.
- `ClassifiedPerSpec` follows from `BInv` and `RecoverMatchesSpec`. TLC checks it only up to two causes.

**`SourceRoutesProofs`**

- `THEOREM TypeCorrect`: `Spec => []TypeOK`.
  - `TypeOK` is not inductive: `CocoReturns` reads `Filters[idx]`, so in state handler `idx` must be a filter of the chain.
  - The inductive invariant is `IInv == TypeOK /\ (stage = "handler" => idx \in 1..NumFilters)`.
- `THEOREM Refinement`: `Spec => ImplementsBridge`, the safety part.
  - `OneCause` says the rejection is `NotFound` or one cause, and is `NotFound` while the filter of the request's path has not been tried.
  - It holds because only the filter whose path is the request's adds a cause (`FilterRejectionCases`) and no two filters share a path (`DistinctPaths`).
  - Under `RInv == IInv /\ OneCause`, every step maps to a Bridge step with `MaxCauses = 1`, or to a stutter (`StepRefines`).
  - `BridgeOperators` equates the operators of the instance with this module's.

**`SourceRoutesAnswers`**

- `THEOREM NotFoundCorrect`: `Spec => []NotFoundIffUnrouted`. The invariant `NFInv` says:
  - while the chain runs, `rej = NotFound` iff no filter tried so far routes the request;
  - a handler runs only for a filter that routes it;
  - an answer is the handler's reply or `recover`'s after the last filter.
- `FilterRejectionHit` is where the order of checks matters. A filter that does not admit the request rejects `NotFound` exactly when it does not route it, because `warp::get()` comes before the parameters.
- `THEOREM HandlerErrorCorrect`: `Spec => []HandlerErrorPerSpec`. The invariant `EInv` says that once a handler failed, `rej = <<ErrorCause(raised)>>` and no handler runs again.
  - It needs `OneCause`: a later filter whose path is the request's would have to be the failed handler's own.
  - The property then follows from `RecoverSingleError` and `CodeMatchesTable`.
- `THEOREM MalformedQueryFallsBackCorrect`: `Spec => []MalformedQueryFallsBack`, so the finding "malformed query gets 500" holds for every request and every coco outcome, not just the TLC instance. The invariant `QInv` says that for a request whose query does not decode:
  - no handler runs (`MalformedFilter`: the one filter of its path never admits it);
  - `rej` is `<<InvalidQuery>>` once that filter was tried (`MatchedBefore`), and `NotFound` before;
  - at recover and done, every filter was tried, and the answer is `Recover(rej)`.

  `RecoverInvalidQuery` then shows that recover answers with its fallback. `QInv` is not inductive alone: it rests on `IInv` for the types of `idx` and `rej`. TLC checked `QInv` on the source run before it was proved.


**`SourcePayloadsProofs`**

- `THEOREM DocumentedKeysCorrect`: `Spec => []DocumentedKeysSerialised`, for every set of names and every list bound `MaxList`.
- The argument is a closed set of pairs. `Documented(p)` is the disjunction of 13 pair predicates, one per `Serialize`/`ToDocumentedType` pair that can meet in a walk (person, commit, info, blob, tree entry, tree, revision, the lists of them, and scalars). For each:
  - `DocumentedKeys`: an object pair of any of them has every documented key;
  - `ChildrenDocumented`: every child pair is again one of them (one case per predicate and one per key).
- `ReachDocumented` and `PairsDocumented` carry this through the six levels of the walk. `RootDocumented` shows every body of `ReplyBodies[h]` paired with `DocumentedResponse[h]` is one of them.
- The state invariant is `SentInv`: the last reply is a body its handler can send.

**Assumptions used:**

- `KeystoreAssumption`: the predicate sets are subsets of the keystore cases.
- `CocoErrorsAssumption`: coco calls raise `error::Error` values.
- `MaxCausesAssumption`.

**Only model-checked:**

- No liveness property: neither specification has fairness, so `ImplementsBridge` is a safety property, and it is proved in full (`Init` and `[][Next]_vars` of `Bridge`).
- `MalformedQueryIs400` is a violated run; its negation, `MalformedQueryFallsBack`, is proved.
- `SerialisedKeysDocumented` and `SerialisedTypesDocumented` are violated runs.
- `WalkComplete`, that six levels walk every body, is an `ASSUME` that TLC evaluates on the model's bodies. Proving it for every `MaxList` would be induction over the data of a body.

## Not modelled

- The JSON serialisation and the content-type header of the envelope.
- The text of messages beyond which value is shown in which format.
- In `SourcePayloads`: descriptions, examples and the text of strings. `identity::Identity` and its documentation live outside `source.rs` and are one opaque value on both sides. `Vec` serialises as a JSON array by serde.
- The coco functions, which live outside this repository. Only their outcomes are modelled.
- Tracing.
- The `#[cfg(test)]` code.

## Plan

**Done:**

- Modelled: the taxonomy, `recover`, the spec reference, the abstract bridge and the source routes.
- Three runs.
- The payloads of the source routes against their API documentation (`SourcePayloads`): one passing run and two violated ones, with two findings.
- Proved: totality, type correctness of both specifications, the refinement (safety part), `NotFoundIffUnrouted`, `HandlerErrorPerSpec`, `MalformedQueryFallsBack`, `DocumentedKeysSerialised`, and `ClassifiedPerSpec` for rejections of any length.

**Next:**

1. Properties of the messages, not only of status and variant:
   - which value of the failure each arm shows, and in which format, against spec.md §8;
   - the passphrase literal.

   `Shows` already records this, so these are properties of `Recover` and proofs in `RecoverProofs`.
2. A run whose requests try two filters with handlers that fail in turn, if the code ever lets a request reach a second handler. It cannot today: `DistinctPaths` and `OneCause` prove it never happens.
3. The filters `with_qs`/`with_qs_opt` and the session filter that raise `Routing` causes are not in this repository. If they are added, model them as another refinement of `RecoveryBridge`.
