---------------------------- MODULE RecoverProofs ----------------------------
(***************************************************************************)
(* Proofs about the classification (Recover): it is total on every warp    *)
(* rejection, for every keystore and every set of opaque keystore cases.   *)
(***************************************************************************)
EXTENDS Recover, WellFoundedInduction, SequenceTheorems, TLAPS

(***************************************************************************)
(* Rejection::find::<T>() is well defined: when a rejection has a cause   *)
(* of type t there is a leftmost one, and Find returns a cause of type t.  *)
(* The leftmost index exists because < is well founded on Nat.            *)
(***************************************************************************)
LEMMA FindFirst ==
  ASSUME NEW rej \in Rejection, NEW t, Has(rej, t)
  PROVE  /\ Find(rej, t) \in Cause
         /\ Find(rej, t).type = t
<1> DEFINE T == {i \in DOMAIN rej : rej[i].type = t}
<1>1. DOMAIN rej = 1 .. Len(rej)
  BY DEF Rejection
<1>2. T \subseteq Nat /\ T # {}
  BY <1>1 DEF Has
<1>3. \E x \in T : \A y \in T : ~(<<y, x>> \in OpToRel(<, Nat))
  BY <1>2, NatLessThanWellFounded, WFMin
<1>4. \E i \in DOMAIN rej : /\ rej[i].type = t
                             /\ \A j \in 1 .. i - 1 : rej[j].type # t
  <2>1. PICK x \in T : \A y \in T : ~(<<y, x>> \in OpToRel(<, Nat))
    BY <1>3
  <2>2. \A j \in 1 .. x - 1 : rej[j].type # t
    <3>1. OpToRel(<, Nat) = {ss \in Nat \X Nat : ss[1] < ss[2]}
      BY DEF OpToRel
    <3> SUFFICES ASSUME NEW j \in 1 .. x - 1 PROVE rej[j].type # t
      OBVIOUS
    <3>2. <<j, x>> \in {ss \in Nat \X Nat : ss[1] < ss[2]}
      BY <1>2
    <3>3. j \notin T
      BY <2>1, <3>1, <3>2
    <3>4. QED
      BY <1>1, <1>2, <3>3
  <2>3. QED
    BY <2>1, <2>2
<1>5. PICK i \in DOMAIN rej : /\ rej[i].type = t
                              /\ \A j \in 1 .. i - 1 : rej[j].type # t
      /\ Find(rej, t) = rej[i]
  BY <1>4 DEF Find
<1>6. rej[i] \in Cause
  BY <1>1 DEF Rejection
<1>7. QED
  BY <1>5, <1>6

\* Every failure and every cause value is a path of variant names.
LEMMA FailurePaths ==
  /\ Failures \subseteq Path
  /\ \A c \in Cause : c.val \in Path
<1>1. StateFailures \subseteq Path
  <2>1. ASSUME NEW c \in CheckoutCases PROVE <<"State", "Checkout", c>> \in Path
    BY DEF Path, Names
  <2>2. ASSUME NEW v \in ValidationCases
        PROVE <<"State", "Create", "Validation", v>> \in Path
    BY DEF Path, Names
  <2>3. { <<"State", "Create", "Other">>, <<"State", "Git">>,
          <<"State", "MissingOwner">>, <<"State", "Storage", "Blob", "NotFound">>,
          <<"State", "Storage", "Blob", "Other">>, <<"State", "Storage", "Other">>,
          <<"State", "IdentityExists">>, <<"State", "Other">> } \subseteq Path
    BY DEF Path, Names
  <2>4. QED
    BY <2>1, <2>2, <2>3 DEF StateFailures
<1>2. SourceFailures \subseteq Path
  <2>1. ASSUME NEW s \in {"Git", "NoBranches", "PathNotFound", "Other"}
        PROVE  <<"Source", s>> \in Path
    BY DEF Path, Names
  <2>2. QED
    BY <2>1 DEF SourceFailures
<1>3. KeystoreFailures \subseteq Path
  <2>1. ASSUME NEW k \in KeystoreCases PROVE <<"Keystore", k>> \in Path
    BY DEF Path, Names
  <2>2. QED
    BY <2>1 DEF KeystoreFailures
<1>4. PlainFailures \subseteq Path
  BY DEF PlainFailures, Path, Names
<1>5. Failures \subseteq Path
  BY <1>1, <1>2, <1>3, <1>4 DEF Failures
<1>6. \A c \in Cause : c.val \in Path
  <2>1. ASSUME NEW r \in RoutingCases \cup KnownCases PROVE <<r>> \in Path
    BY DEF Path, Names
  <2>2. QED
    BY <1>5, <2>1 DEF Cause
<1>7. QED
  BY <1>5, <1>6

(***************************************************************************)
(* The responses of every arm of recover but the not-found one: their    *)
(* message shows a value of the failure or is a literal other than        *)
(* "Resource not found".                                                   *)
(***************************************************************************)
OtherMessage ==
  [shows : Path, fmt : Formats] \cup [literal : Literals \ {"Resource not found"}]

ClassifiedResponse == [status : ErrorStatus, variant : Variants, message : OtherMessage]

\* The classified responses are error responses.
LEMMA ClassifiedIsError == ClassifiedResponse \subseteq ErrorResponse
BY DEF ClassifiedResponse, ErrorResponse, OtherMessage, Message

\* A message that shows a sub-value of a path is not one of the literals.
LEMMA ShowsType ==
  ASSUME NEW f \in Path, NEW d \in 1 .. Len(f), NEW fmt \in Formats
  PROVE  Shows(f, d, fmt) \in OtherMessage
<1>1. Shows(f, d, fmt) \in [shows : Path, fmt : Formats]
  BY SubSeqProperties DEF Shows, Path
<1>2. QED
  BY <1>1 DEF OtherMessage

\* Each arm of the state::Error match answers with a classified response.
LEMMA RecoverStateType ==
  ASSUME NEW f \in StateFailures
  PROVE  RecoverState(f) \in ClassifiedResponse
<1>1. f \in Path
  BY FailurePaths DEF Failures
<1>2. CASE \E c \in CheckoutCases : f = <<"State", "Checkout", c>>
  <2>1. PICK c \in CheckoutCases : f = <<"State", "Checkout", c>>
    BY <1>2
  <2>2. RecoverState(f) = ReplyFrom(CheckoutRecovery[c], CheckoutMessage(f))
    BY <2>1 DEF RecoverState
  <2>3. CheckoutRecovery[c] \in ErrorStatus \X Variants
    BY DEF CheckoutRecovery, CheckoutCases, ErrorStatus, Variants
  <2>4. CheckoutMessage(f) \in OtherMessage
    <3>1. \A fmt \in Formats : Shows(f, 3, fmt) \in OtherMessage
      BY <1>1, <2>1, ShowsType
    <3>2. QED
      BY <3>1 DEF CheckoutMessage, Formats
  <2>5. QED
    BY <2>2, <2>3, <2>4 DEF ReplyFrom, Reply, ClassifiedResponse
<1>3. CASE \E v \in ValidationCases : f = <<"State", "Create", "Validation", v>>
  <2>1. PICK v \in ValidationCases : f = <<"State", "Create", "Validation", v>>
    BY <1>3
  <2>2. RecoverState(f) = ReplyFrom(ValidationRecovery[v], ValidationMessage(f))
    BY <2>1 DEF RecoverState
  <2>3. ValidationRecovery[v] \in ErrorStatus \X Variants
    BY DEF ValidationRecovery, ValidationCases, ErrorStatus, Variants
  <2>4. ValidationMessage(f) \in OtherMessage
    <3>1. \A fmt \in Formats : Shows(f, 4, fmt) \in OtherMessage
      BY <1>1, <2>1, ShowsType
    <3>2. QED
      BY <3>1 DEF ValidationMessage, Formats
  <2>5. QED
    BY <2>2, <2>3, <2>4 DEF ReplyFrom, Reply, ClassifiedResponse
<1>4. CASE f \in { <<"State", "Create", "Other">>, <<"State", "Git">>,
                   <<"State", "MissingOwner">>, <<"State", "Storage", "Blob", "NotFound">>,
                   <<"State", "Storage", "Blob", "Other">>, <<"State", "Storage", "Other">>,
                   <<"State", "IdentityExists">>, <<"State", "Other">> }
  <2>1. \A fmt \in Formats : Shows(f, 2, fmt) \in OtherMessage
    BY <1>1, <1>4, ShowsType
  <2>2. Lit("entity not found") \in OtherMessage
    BY DEF Lit, OtherMessage, Literals
  <2>3. CASE f[2] = "Git"
    <3>0. f # <<"State", "Storage", "Blob", "NotFound">>
      BY <2>3
    <3>1. RecoverState(f) = Reply(400, "GIT_ERROR", Shows(f, 2, "InternalGitDebug"))
      BY <2>3, <3>0 DEF RecoverState
    <3>2. QED
      BY <2>1, <3>1 DEF Reply, ClassifiedResponse, ErrorStatus, Variants, Formats
  <2>4. CASE f[2] = "MissingOwner"
    <3>0. f # <<"State", "Storage", "Blob", "NotFound">>
      BY <2>4
    <3>1. RecoverState(f) = Reply(401, "UNAUTHORIZED", Shows(f, 2, "Display"))
      BY <2>4, <3>0 DEF RecoverState
    <3>2. QED
      BY <2>1, <3>1 DEF Reply, ClassifiedResponse, ErrorStatus, Variants, Formats
  <2>5. CASE f = <<"State", "Storage", "Blob", "NotFound">>
    <3>0. f[2] = "Storage"
      BY <2>5
    <3>1. RecoverState(f) = Reply(404, "NOT_FOUND", Lit("entity not found"))
      BY <2>5, <3>0 DEF RecoverState
    <3>2. Reply(404, "NOT_FOUND", Lit("entity not found")) \in ClassifiedResponse
      BY <2>2 DEF Reply, ClassifiedResponse, ErrorStatus, Variants
    <3>3. QED
      BY <3>1, <3>2
  <2>6. CASE f[2] = "IdentityExists"
    <3>0. f # <<"State", "Storage", "Blob", "NotFound">>
      BY <2>6
    <3>1. RecoverState(f) = Reply(409, "IDENTITY_EXISTS", Shows(f, 2, "Display"))
      BY <2>6, <3>0 DEF RecoverState
    <3>2. QED
      BY <2>1, <3>1 DEF Reply, ClassifiedResponse, ErrorStatus, Variants, Formats
  <2>7. CASE f \in { <<"State", "Create", "Other">>, <<"State", "Storage", "Blob", "Other">>,
                     <<"State", "Storage", "Other">>, <<"State", "Other">> }
    <3>0. /\ f[2] \in {"Create", "Storage", "Other"}
          /\ f[2] = "Create" => f[3] = "Other"
          /\ f # <<"State", "Storage", "Blob", "NotFound">>
      BY <2>7
    <3>1. RecoverState(f) = Reply(500, "INTERNAL_SERVER_ERROR", Shows(f, 2, "Display"))
      BY <3>0 DEF RecoverState
    <3>2. QED
      BY <2>1, <3>1 DEF Reply, ClassifiedResponse, ErrorStatus, Variants, Formats
  <2>8. QED
    BY <1>4, <2>3, <2>4, <2>5, <2>6, <2>7
<1>5. QED
  BY <1>2, <1>3, <1>4 DEF StateFailures

\* recover_source answers every source error with a classified response.
LEMMA RecoverSourceType ==
  ASSUME NEW f \in SourceFailures
  PROVE  RecoverSource(f) \in ClassifiedResponse
<1>1. f \in Path /\ Len(f) = 2
  BY FailurePaths DEF Failures, SourceFailures
<1>2. \A fmt \in Formats : Shows(f, 2, fmt) \in OtherMessage
  BY <1>1, ShowsType
<1>3. QED
  BY <1>2 DEF RecoverSource, Reply, ClassifiedResponse, ErrorStatus, Variants, Formats

\* The keystore arm answers every keystore error with a classified response.
LEMMA RecoverKeystoreType ==
  ASSUME NEW f \in KeystoreFailures
  PROVE  RecoverKeystore(f) \in ClassifiedResponse
<1>1. f \in Path /\ Len(f) = 2
  BY FailurePaths DEF Failures, KeystoreFailures
<1>2. Shows(f, 1, "Display") \in OtherMessage
  BY <1>1, ShowsType DEF Formats
<1>3. /\ Lit("That's the wrong passphrase.") \in OtherMessage
      /\ Lit("A key already exists") \in OtherMessage
  BY DEF Lit, OtherMessage, Literals
<1>4. CASE f[2] \in InvalidPassphraseCases
  <2>1. RecoverKeystore(f) = Reply(403, "INCORRECT_PASSPHRASE", Lit("That's the wrong passphrase."))
    BY <1>4 DEF RecoverKeystore
  <2>2. Reply(403, "INCORRECT_PASSPHRASE", Lit("That's the wrong passphrase.")) \in ClassifiedResponse
    BY <1>3 DEF Reply, ClassifiedResponse, ErrorStatus, Variants
  <2>3. QED
    BY <2>1, <2>2
<1>5. CASE f[2] \notin InvalidPassphraseCases /\ f[2] \in KeyExistsCases
  <2>1. RecoverKeystore(f) = Reply(409, "KEY_EXISTS", Lit("A key already exists"))
    BY <1>5 DEF RecoverKeystore
  <2>2. Reply(409, "KEY_EXISTS", Lit("A key already exists")) \in ClassifiedResponse
    BY <1>3 DEF Reply, ClassifiedResponse, ErrorStatus, Variants
  <2>3. QED
    BY <2>1, <2>2
<1>6. CASE f[2] \notin InvalidPassphraseCases /\ f[2] \notin KeyExistsCases
  BY <1>2, <1>6 DEF RecoverKeystore, Reply, ClassifiedResponse, ErrorStatus, Variants
<1>7. QED
  BY <1>4, <1>5, <1>6

\* Every arm of the error::Error match answers with a classified response.
LEMMA RecoverErrorType ==
  ASSUME NEW f \in Failures
  PROVE  RecoverError(f) \in ClassifiedResponse
<1>1. CASE f \in StateFailures
  <2>1. RecoverError(f) = RecoverState(f)
    BY <1>1 DEF RecoverError, StateFailures
  <2>2. QED
    BY <1>1, <2>1, RecoverStateType
<1>2. CASE f \in SourceFailures
  <2>1. RecoverError(f) = RecoverSource(f)
    BY <1>2 DEF RecoverError, SourceFailures
  <2>2. QED
    BY <1>2, <2>1, RecoverSourceType
<1>3. CASE f \in KeystoreFailures
  <2>1. RecoverError(f) = RecoverKeystore(f)
    BY <1>3 DEF RecoverError, KeystoreFailures
  <2>2. QED
    BY <1>3, <2>1, RecoverKeystoreType
<1>4. CASE f \in PlainFailures
  <2> DEFINE m == Shows(f, 1, "Display")
  <2>1. m \in OtherMessage
    BY <1>4, FailurePaths, ShowsType DEF Failures, PlainFailures, Formats
  <2>2. RecoverError(f) \in { Reply(403, "FORBIDDEN", m),
                              Reply(400, "SESSION_IN_USE", m),
                              Reply(500, "INTERNAL_SERVER_ERROR", m) }
    BY <1>4 DEF RecoverError, PlainFailures
  <2>3. { Reply(403, "FORBIDDEN", m), Reply(400, "SESSION_IN_USE", m),
          Reply(500, "INTERNAL_SERVER_ERROR", m) } \subseteq ClassifiedResponse
    BY <2>1 DEF Reply, ClassifiedResponse, ErrorStatus, Variants
  <2>4. QED
    BY <2>2, <2>3
<1>5. QED
  BY <1>1, <1>2, <1>3, <1>4 DEF Failures

\* Every Routing cause is answered with a classified response.
LEMMA RecoverRoutingType ==
  ASSUME NEW r \in RoutingCases
  PROVE  RecoverRouting(<<r>>) \in ClassifiedResponse
<1>1. Shows(<<r>>, 1, "Display") \in OtherMessage
  <2>1. <<r>> \in Path
    BY DEF Path, Names
  <2>2. 1 \in 1 .. Len(<<r>>) /\ "Display" \in Formats
    BY DEF Formats
  <2>3. QED
    BY <2>1, <2>2, ShowsType
<1>2. RoutingRecovery[r] \in ErrorStatus \X Variants
  BY DEF RoutingRecovery, RoutingCases, ErrorStatus, Variants
<1>3. QED
  BY <1>1, <1>2 DEF RecoverRouting, ReplyFrom, Reply, ClassifiedResponse

\* Every arm of recover after the not-found test answers with a classified
\* response: the first Routing cause, the first error::Error cause, or the
\* fallback.
LEMMA RecoverClassified ==
  ASSUME NEW rej \in Rejection, ~IsNotFound(rej)
  PROVE  Recover(rej) \in ClassifiedResponse
<1>1. CASE Has(rej, "Routing")
  <2>1. Find(rej, "Routing").val \in {<<r>> : r \in RoutingCases}
    BY <1>1, FindFirst DEF Cause
  <2>2. QED
    BY <1>1, <2>1, RecoverRoutingType DEF Recover
<1>2. CASE ~Has(rej, "Routing") /\ Has(rej, "Error")
  <2>1. Find(rej, "Error").val \in Failures
    BY <1>2, FindFirst DEF Cause
  <2>2. QED
    BY <1>2, <2>1, RecoverErrorType DEF Recover
<1>3. CASE ~Has(rej, "Routing") /\ ~Has(rej, "Error")
  <2>1. Reply(500, "INTERNAL_ERROR", Lit("Something went wrong")) \in ClassifiedResponse
    BY DEF Reply, Lit, ClassifiedResponse, ErrorStatus, Variants, OtherMessage, Literals
  <2>2. QED
    BY <1>3, <2>1 DEF Recover
<1>4. QED
  BY <1>1, <1>2, <1>3

(***************************************************************************)
(* recover is total: every rejection the filters of the API can produce, *)
(* whatever causes it combines and in whatever order, is answered with a  *)
(* status from the error set, a variant of the closed list and a message  *)
(* (spec.md section 8).  No arm of the nested matches is missing.          *)
(***************************************************************************)
THEOREM RecoverTotal ==
  \A rej \in Rejection : Recover(rej) \in ErrorResponse
<1> SUFFICES ASSUME NEW rej \in Rejection PROVE Recover(rej) \in ErrorResponse
  OBVIOUS
<1>1. CASE IsNotFound(rej)
  <2>1. Reply(404, "NOT_FOUND", Lit("Resource not found")) \in ErrorResponse
    BY DEF Reply, Lit, ErrorResponse, ErrorStatus, Variants, Message, Literals
  <2>2. QED
    BY <1>1, <2>1 DEF Recover
<1>2. CASE ~IsNotFound(rej)
  BY <1>2, RecoverClassified, ClassifiedIsError
<1>3. QED
  BY <1>1, <1>2

(***************************************************************************)
(* recover answers "Resource not found" exactly for a NotFound rejection:  *)
(* no arm of the Routing or error::Error matches, nor the fallback, uses   *)
(* that message (a blob that is not found says "entity not found").       *)
(***************************************************************************)
LEMMA NotFoundMessage ==
  ASSUME NEW rej \in Rejection
  PROVE  Recover(rej).message = Lit("Resource not found") <=> IsNotFound(rej)
<1>1. CASE IsNotFound(rej)
  BY <1>1 DEF Recover, Reply
<1>2. CASE ~IsNotFound(rej)
  <2>1. Recover(rej).message \in OtherMessage
    BY <1>2, RecoverClassified DEF ClassifiedResponse
  <2>2. Lit("Resource not found") \notin OtherMessage
    BY DEF Lit, OtherMessage
  <2>3. QED
    BY <1>2, <2>1, <2>2
<1>3. QED
  BY <1>1, <1>2
=============================================================================
