------------------------------ MODULE Recover ------------------------------
(***************************************************************************)
(* The classification of a rejection into a response: http::error::recover *)
(* and recover_source (proxy/api/src/http/error.rs).  Pure operators.      *)
(*                                                                         *)
(* A response carries the status code, the variant and the message.  A   *)
(* message is either a literal of the code, or the text of a sub-value of  *)
(* the failure: Shows(f, d, fmt) renders, with fmt, the value at depth d   *)
(* of the failure path f (see ErrorTaxonomy).  The formats are             *)
(*   "Display"          its to_string()                                    *)
(*   "Inner"            to_string() of the datum the variant wraps         *)
(*   "GitMessage"       message() of the git error it wraps                *)
(*   "InternalGit"      "Internal Git error: {}" of the git error          *)
(*   "InternalGitDebug" "Internal Git error: {:?}" of the git error        *)
(***************************************************************************)
EXTENDS ErrorTaxonomy

Lit(s) == [literal |-> s]
Shows(f, d, fmt) == [shows |-> SubSeq(f, d, Len(f)), fmt |-> fmt]

Reply(code, variant, message) ==
  [status |-> code, variant |-> variant, message |-> message]

\* The status codes recover can answer with.
ErrorStatus == {400, 401, 403, 404, 409, 500}

\* The fixed messages of the code.
Literals ==
  { "Resource not found", "Something went wrong", "entity not found",
    "That's the wrong passphrase.", "A key already exists" }

Formats == {"Display", "Inner", "GitMessage", "InternalGit", "InternalGitDebug"}

Message == [literal : Literals] \cup [shows : Path, fmt : Formats]

\* The variants recover can answer with.
Variants ==
  { "NOT_FOUND", "INVALID_QUERY", "QUERY_MISSING", "PATH_EXISTS", "GIT_ERROR",
    "INTERNAL_ERROR", "TRANSPORT_ERROR", "PREFIX_ERROR", "EMPTY_PATH",
    "MISSING_AUTHOR_EMAIL", "MISSING_GIT_CONFIG", "MISSING_AUTHOR_NAME",
    "MISSING_DEFAULT_BRANCH", "MISSING_URL", "PATH_DOES_NOT_EXIST",
    "NOT_A_REPO", "IO_ERROR", "URL_MISMATCH", "MISSING_REMOTE", "UNAUTHORIZED",
    "IDENTITY_EXISTS", "INTERNAL_SERVER_ERROR", "INCORRECT_PASSPHRASE",
    "KEY_EXISTS", "FORBIDDEN", "SESSION_IN_USE" }

\* The error responses: a status, a variant and a message.
ErrorResponse == [status : ErrorStatus, variant : Variants, message : Message]

(***************************************************************************)
(* recover_source: radicle_source errors.                                  *)
(***************************************************************************)
RecoverSource(f) ==
  CASE f[2] = "Git"          -> Reply(400, "GIT_ERROR", Shows(f, 2, "InternalGit"))
    [] f[2] = "NoBranches"   -> Reply(400, "GIT_ERROR", Shows(f, 2, "Display"))
    [] f[2] = "PathNotFound" -> Reply(404, "NOT_FOUND", Shows(f, 2, "Inner"))
    [] OTHER                 -> Reply(500, "INTERNAL_SERVER_ERROR", Shows(f, 2, "Display"))

\* Mutant: the checkout Git arm answers like state::Error::Git.
CheckoutRecoveryGitAs400 ==
  [ AlreadExists |-> <<409, "PATH_EXISTS">>,
    Git          |-> <<400, "GIT_ERROR">>,
    Include      |-> <<500, "INTERNAL_ERROR">>,
    Io           |-> <<500, "INTERNAL_ERROR">>,
    Transport    |-> <<500, "TRANSPORT_ERROR">>,
    Prefix       |-> <<500, "PREFIX_ERROR">> ]

(***************************************************************************)
(* The match on checkout::Error: status and variant per case.              *)
(***************************************************************************)
CheckoutRecovery ==
  [ AlreadExists |-> <<409, "PATH_EXISTS">>,
    Git          |-> <<500, "GIT_ERROR">>,
    Include      |-> <<500, "INTERNAL_ERROR">>,
    Io           |-> <<500, "INTERNAL_ERROR">>,
    Transport    |-> <<500, "TRANSPORT_ERROR">>,
    Prefix       |-> <<500, "PREFIX_ERROR">> ]

\* The message: the checkout error itself, the git error's message(), or
\* the wrapped error.
CheckoutMessage(f) ==
  CASE f[3] = "AlreadExists" -> Shows(f, 3, "Display")
    [] f[3] = "Git"          -> Shows(f, 3, "GitMessage")
    [] OTHER                 -> Shows(f, 3, "Inner")

\* Mutant: a validation Io error is answered as a server error.
ValidationRecoveryIoAs500 ==
  [ AlreadExists         |-> <<409, "PATH_EXISTS">>,
    EmptyExistingPath    |-> <<400, "EMPTY_PATH">>,
    Git                  |-> <<500, "GIT_ERROR">>,
    MissingAuthorEmail   |-> <<400, "MISSING_AUTHOR_EMAIL">>,
    MissingGitConfig     |-> <<400, "MISSING_GIT_CONFIG">>,
    MissingAuthorName    |-> <<400, "MISSING_AUTHOR_NAME">>,
    MissingDefaultBranch |-> <<400, "MISSING_DEFAULT_BRANCH">>,
    MissingUrl           |-> <<400, "MISSING_URL">>,
    PathDoesNotExist     |-> <<404, "PATH_DOES_NOT_EXIST">>,
    NotARepo             |-> <<400, "NOT_A_REPO">>,
    Io                   |-> <<500, "IO_ERROR">>,
    UrlMismatch          |-> <<400, "URL_MISMATCH">>,
    Transport            |-> <<500, "TRANSPORT_ERROR">>,
    Remote               |-> <<500, "MISSING_REMOTE">> ]

(***************************************************************************)
(* The match on create::validation::Error.                                 *)
(***************************************************************************)
ValidationRecovery ==
  [ AlreadExists         |-> <<409, "PATH_EXISTS">>,
    EmptyExistingPath    |-> <<400, "EMPTY_PATH">>,
    Git                  |-> <<500, "GIT_ERROR">>,
    MissingAuthorEmail   |-> <<400, "MISSING_AUTHOR_EMAIL">>,
    MissingGitConfig     |-> <<400, "MISSING_GIT_CONFIG">>,
    MissingAuthorName    |-> <<400, "MISSING_AUTHOR_NAME">>,
    MissingDefaultBranch |-> <<400, "MISSING_DEFAULT_BRANCH">>,
    MissingUrl           |-> <<400, "MISSING_URL">>,
    PathDoesNotExist     |-> <<404, "PATH_DOES_NOT_EXIST">>,
    NotARepo             |-> <<400, "NOT_A_REPO">>,
    Io                   |-> <<400, "IO_ERROR">>,
    UrlMismatch          |-> <<400, "URL_MISMATCH">>,
    Transport            |-> <<500, "TRANSPORT_ERROR">>,
    Remote               |-> <<500, "MISSING_REMOTE">> ]

\* The Io arm shadows err with the io error; every other arm shows the
\* validation error.
ValidationMessage(f) ==
  IF f[4] = "Io" THEN Shows(f, 4, "Inner") ELSE Shows(f, 4, "Display")

ReplyFrom(entry, message) == Reply(entry[1], entry[2], message)

\* Mutant: a missing blob is answered 410 Gone.
RecoverStateBlobGone(f) ==
  CASE f[2] = "Checkout" ->
         ReplyFrom(CheckoutRecovery[f[3]], CheckoutMessage(f))
    [] f[2] = "Create" /\ f[3] = "Validation" ->
         ReplyFrom(ValidationRecovery[f[4]], ValidationMessage(f))
    [] f[2] = "Git" ->
         Reply(400, "GIT_ERROR", Shows(f, 2, "InternalGitDebug"))
    [] f[2] = "MissingOwner" ->
         Reply(401, "UNAUTHORIZED", Shows(f, 2, "Display"))
    [] f = <<"State", "Storage", "Blob", "NotFound">> ->
         Reply(410, "NOT_FOUND", Lit("entity not found"))
    [] f[2] = "IdentityExists" ->
         Reply(409, "IDENTITY_EXISTS", Shows(f, 2, "Display"))
    [] OTHER ->
         Reply(500, "INTERNAL_SERVER_ERROR", Shows(f, 2, "Display"))

(***************************************************************************)
(* The match on radicle_daemon::state::Error, arms in source order.        *)
(***************************************************************************)
RecoverState(f) ==
  CASE f[2] = "Checkout" ->
         ReplyFrom(CheckoutRecovery[f[3]], CheckoutMessage(f))
    [] f[2] = "Create" /\ f[3] = "Validation" ->
         ReplyFrom(ValidationRecovery[f[4]], ValidationMessage(f))
    [] f[2] = "Git" ->
         Reply(400, "GIT_ERROR", Shows(f, 2, "InternalGitDebug"))
    [] f[2] = "MissingOwner" ->
         Reply(401, "UNAUTHORIZED", Shows(f, 2, "Display"))
    [] f = <<"State", "Storage", "Blob", "NotFound">> ->
         Reply(404, "NOT_FOUND", Lit("entity not found"))
    [] f[2] = "IdentityExists" ->
         Reply(409, "IDENTITY_EXISTS", Shows(f, 2, "Display"))
    [] OTHER ->
         Reply(500, "INTERNAL_SERVER_ERROR", Shows(f, 2, "Display"))

(***************************************************************************)
(* The Keystore arm: the two opaque predicates, passphrase first.          *)
(***************************************************************************)
RecoverKeystore(f) ==
  IF f[2] \in InvalidPassphraseCases
    \* The code's literal has U+2019 for the apostrophe; TLA+ strings are ASCII.
    THEN Reply(403, "INCORRECT_PASSPHRASE", Lit("That's the wrong passphrase."))
  ELSE IF f[2] \in KeyExistsCases
    THEN Reply(409, "KEY_EXISTS", Lit("A key already exists"))
  ELSE Reply(500, "INTERNAL_SERVER_ERROR", Shows(f, 1, "Display"))

(***************************************************************************)
(* The match on error::Error.                                              *)
(***************************************************************************)
RecoverError(f) ==
  CASE f[1] = "State"    -> RecoverState(f)
    [] f[1] = "Source"   -> RecoverSource(f)
    [] f[1] = "Keystore" -> RecoverKeystore(f)
    [] f[1] \in {"KeystoreSealed", "InvalidAuthCookie"} ->
         Reply(403, "FORBIDDEN", Shows(f, 1, "Display"))
    [] f[1] = "SessionInUse" ->
         Reply(400, "SESSION_IN_USE", Shows(f, 1, "Display"))
    [] OTHER ->
         Reply(500, "INTERNAL_SERVER_ERROR", Shows(f, 1, "Display"))

(***************************************************************************)
(* The match on Routing.                                                   *)
(***************************************************************************)
RoutingRecovery ==
  [ NoSession    |-> <<404, "NOT_FOUND">>,
    InvalidQuery |-> <<400, "INVALID_QUERY">>,
    QueryMissing |-> <<400, "QUERY_MISSING">> ]

RecoverRouting(r) == ReplyFrom(RoutingRecovery[r[1]], Shows(r, 1, "Display"))

(***************************************************************************)
(* recover: not-found first, then the first Routing cause, then the first  *)
(* error::Error cause, else the fallback.  The response envelope carries   *)
(* exactly this triple (status, {message, variant}, JSON content type).    *)
(***************************************************************************)
Recover(rej) ==
  IF IsNotFound(rej) THEN Reply(404, "NOT_FOUND", Lit("Resource not found"))
  ELSE IF Has(rej, "Routing") THEN RecoverRouting(Find(rej, "Routing").val)
  ELSE IF Has(rej, "Error") THEN RecoverError(Find(rej, "Error").val)
  ELSE Reply(500, "INTERNAL_ERROR", Lit("Something went wrong"))
=============================================================================
