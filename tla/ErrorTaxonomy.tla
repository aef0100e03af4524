--------------------------- MODULE ErrorTaxonomy ---------------------------
(***************************************************************************)
(* The closed set of failures the HTTP layer of the proxy can be asked to  *)
(* turn into a response (proxy/api/src/error.rs, proxy/api/src/http/      *)
(* error.rs).                                                              *)
(*                                                                         *)
(* A failure value is a tree of Rust enums with one nested cause per      *)
(* level.  It is represented by the path of variant names from the        *)
(* outermost enum down to the leaf, e.g.                                   *)
(*   <<"State", "Checkout", "AlreadExists">>                               *)
(* stands for error::Error::State(state::Error::Checkout(                  *)
(*   checkout::Error::AlreadExists(_))).  The data a leaf carries (paths,  *)
(* URNs, git errors) is left out: recover never branches on it.  Element  *)
(* d of the path names the variant of the value at depth d.                *)
(*                                                                         *)
(* Enums of crates outside this repository (radicle_daemon,               *)
(* radicle_source) contribute only the variants recover names; every      *)
(* other variant of such an enum is the single tag "Other".                *)
(***************************************************************************)
EXTENDS Integers, Sequences

CONSTANTS
  KeystoreCases,          \* the keystore's own, opaque, error cases
  InvalidPassphraseCases, \* those for which is_invalid_passphrase() holds
  KeyExistsCases          \* those for which is_key_exists() holds

\* The keystore error is opaque to recover: only its two predicates are
\* visible, and nothing forbids a case from satisfying both.
ASSUME KeystoreAssumption ==
  /\ KeystoreCases # {}
  /\ InvalidPassphraseCases \subseteq KeystoreCases
  /\ KeyExistsCases \subseteq KeystoreCases

(***************************************************************************)
(* radicle_daemon::project::checkout::Error                                *)
(***************************************************************************)
CheckoutCases == {"AlreadExists", "Git", "Include", "Io", "Transport", "Prefix"}

(***************************************************************************)
(* radicle_daemon::project::create::validation::Error                      *)
(***************************************************************************)
ValidationCases ==
  { "AlreadExists", "EmptyExistingPath", "Git", "MissingAuthorEmail",
    "MissingGitConfig", "MissingAuthorName", "MissingDefaultBranch",
    "MissingUrl", "PathDoesNotExist", "NotARepo", "Io", "UrlMismatch",
    "Transport", "Remote" }

(***************************************************************************)
(* error::Error::State(radicle_daemon::state::Error)                       *)
(***************************************************************************)
StateFailures ==
       {<<"State", "Checkout", c>> : c \in CheckoutCases}
  \cup {<<"State", "Create", "Validation", v>> : v \in ValidationCases}
  \cup { <<"State", "Create", "Other">>,
         <<"State", "Git">>,
         <<"State", "MissingOwner">>,
         <<"State", "Storage", "Blob", "NotFound">>,
         <<"State", "Storage", "Blob", "Other">>,
         <<"State", "Storage", "Other">>,
         <<"State", "IdentityExists">>,
         <<"State", "Other">> }

(***************************************************************************)
(* error::Error::Source(radicle_source::error::Error)                      *)
(***************************************************************************)
SourceFailures ==
  {<<"Source", s>> : s \in {"Git", "NoBranches", "PathNotFound", "Other"}}

(***************************************************************************)
(* error::Error::Keystore(keystore::Error)                                 *)
(***************************************************************************)
KeystoreFailures == {<<"Keystore", k>> : k \in KeystoreCases}

(***************************************************************************)
(* The variants of error::Error that wrap nothing recover looks into.      *)
(***************************************************************************)
PlainFailures ==
  { <<"Peer">>, <<"Io">>, <<"SessionInUse">>, <<"Store">>,
    <<"KeystoreSealed">>, <<"InvalidAuthCookie">>, <<"WaitingRoom">>,
    <<"ProjectNotFound">>, <<"MissingDefaultBranch">> }

\* Every value of error::Error.
Failures == StateFailures \cup SourceFailures \cup KeystoreFailures \cup PlainFailures

\* http::error::Routing, the rejections of the HTTP layer itself.
RoutingCases == {"NoSession", "InvalidQuery", "QueryMissing"}

\* warp's own rejections that the filters of source.rs can raise:
\* warp::get() on another method, warp::query() on an undecodable query.
KnownCases == {"MethodNotAllowed", "InvalidQuery"}

\* The variant names a path is made of.
Names ==
  { "State", "Source", "Keystore", "Peer", "Io", "SessionInUse", "Store",
    "KeystoreSealed", "InvalidAuthCookie", "WaitingRoom", "ProjectNotFound",
    "MissingDefaultBranch", "Checkout", "Create", "Validation", "Git",
    "MissingOwner", "Storage", "Blob", "NotFound", "IdentityExists", "Other",
    "NoBranches", "PathNotFound" }
  \cup CheckoutCases \cup ValidationCases \cup RoutingCases \cup KnownCases

Path == Seq(Names \cup KeystoreCases)

(***************************************************************************)
(* A cause of a warp rejection: a custom Routing or error::Error value, or *)
(* one of warp's known rejections.  Like a failure, the value of a cause  *)
(* is a path of variant names, of length one for Routing and warp's own.  *)
(***************************************************************************)
Cause ==
       [type : {"Routing"}, val : {<<r>> : r \in RoutingCases}]
  \cup [type : {"Error"}, val : Failures]
  \cup [type : {"Known"}, val : {<<k>> : k \in KnownCases}]

RoutingCause(r) == [type |-> "Routing", val |-> <<r>>]
ErrorCause(f) == [type |-> "Error", val |-> f]
KnownCause(k) == [type |-> "Known", val |-> <<k>>]

(***************************************************************************)
(* A warp Rejection.  Its reason is NotFound, or Other(rejections) where   *)
(* rejections is a binary tree of causes that find::<T>() searches left to *)
(* right.  It is represented by the causes in that order; NotFound is the  *)
(* empty sequence.                                                         *)
(***************************************************************************)
Rejection == Seq(Cause)

NotFound == << >>

\* Rejection::is_not_found
IsNotFound(rej) == rej = NotFound

(***************************************************************************)
(* Rejection::combine, applied by Filter::or when both sides reject: a     *)
(* NotFound side is dropped, two Other sides become Combined(left, right).  *)
(***************************************************************************)
Combine(left, right) == left \o right

\* Rejection::find::<T>(): the leftmost cause of type t, if any.
Has(rej, t) == \E i \in DOMAIN rej : rej[i].type = t
Find(rej, t) ==
  rej[CHOOSE i \in DOMAIN rej :
        /\ rej[i].type = t
        /\ \A j \in 1 .. i - 1 : rej[j].type # t]
=============================================================================
