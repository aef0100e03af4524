------------------------- MODULE ClassificationSpec -------------------------
(***************************************************************************)
(* The reference classification: the ordered decision procedure and the   *)
(* mapping table of the design document (spec.md section 4.2), written    *)
(* from that text and not from the code.  Recover is checked against it.  *)
(*                                                                         *)
(* Each table row is <<path of the failure, status, variant>>; a row       *)
(* whose path is a proper prefix applies to every failure below it that   *)
(* no longer row matches ("most specific wins").                          *)
(***************************************************************************)
EXTENDS ErrorTaxonomy

\* Is p a prefix of the failure path f?
IsPrefix(p, f) == Len(p) <= Len(f) /\ SubSeq(f, 1, Len(p)) = p

\* Section 4.2 step 3, the domain table, and step 4, source failures.
DomainTable ==
     {<<<<"State", "Checkout", c>>, 500, "INTERNAL_ERROR">> : c \in {"Include", "Io"}}
  \cup
  { <<<<"State", "Checkout", "AlreadExists">>, 409, "PATH_EXISTS">>,
    <<<<"State", "Checkout", "Git">>, 500, "GIT_ERROR">>,
    <<<<"State", "Checkout", "Transport">>, 500, "TRANSPORT_ERROR">>,
    <<<<"State", "Checkout", "Prefix">>, 500, "PREFIX_ERROR">>,
    <<<<"State", "Create", "Validation", "AlreadExists">>, 409, "PATH_EXISTS">>,
    <<<<"State", "Create", "Validation", "EmptyExistingPath">>, 400, "EMPTY_PATH">>,
    <<<<"State", "Create", "Validation", "Git">>, 500, "GIT_ERROR">>,
    <<<<"State", "Create", "Validation", "MissingAuthorEmail">>, 400, "MISSING_AUTHOR_EMAIL">>,
    <<<<"State", "Create", "Validation", "MissingGitConfig">>, 400, "MISSING_GIT_CONFIG">>,
    <<<<"State", "Create", "Validation", "MissingAuthorName">>, 400, "MISSING_AUTHOR_NAME">>,
    <<<<"State", "Create", "Validation", "MissingDefaultBranch">>, 400, "MISSING_DEFAULT_BRANCH">>,
    <<<<"State", "Create", "Validation", "MissingUrl">>, 400, "MISSING_URL">>,
    <<<<"State", "Create", "Validation", "PathDoesNotExist">>, 404, "PATH_DOES_NOT_EXIST">>,
    <<<<"State", "Create", "Validation", "NotARepo">>, 400, "NOT_A_REPO">>,
    <<<<"State", "Create", "Validation", "Io">>, 400, "IO_ERROR">>,
    <<<<"State", "Create", "Validation", "UrlMismatch">>, 400, "URL_MISMATCH">>,
    <<<<"State", "Create", "Validation", "Transport">>, 500, "TRANSPORT_ERROR">>,
    <<<<"State", "Create", "Validation", "Remote">>, 500, "MISSING_REMOTE">>,
    <<<<"State", "Git">>, 400, "GIT_ERROR">>,
    <<<<"State", "MissingOwner">>, 401, "UNAUTHORIZED">>,
    <<<<"State", "Storage", "Blob", "NotFound">>, 404, "NOT_FOUND">>,
    <<<<"State", "IdentityExists">>, 409, "IDENTITY_EXISTS">>,
    <<<<"State">>, 500, "INTERNAL_SERVER_ERROR">>,
    <<<<"Source", "Git">>, 400, "GIT_ERROR">>,
    <<<<"Source", "NoBranches">>, 400, "GIT_ERROR">>,
    <<<<"Source", "PathNotFound">>, 404, "NOT_FOUND">>,
    <<<<"Source">>, 500, "INTERNAL_SERVER_ERROR">>,
    \* steps 6 and 7
    <<<<"KeystoreSealed">>, 403, "FORBIDDEN">>,
    <<<<"InvalidAuthCookie">>, 403, "FORBIDDEN">>,
    <<<<"SessionInUse">>, 400, "SESSION_IN_USE">> }

\* The longest row of the table that is a prefix of f.
MostSpecific(f) ==
  CHOOSE row \in DomainTable :
    /\ IsPrefix(row[1], f)
    /\ \A other \in DomainTable : IsPrefix(other[1], f) => Len(other[1]) <= Len(row[1])

\* Step 5: the key-store predicates; step 8: the catch-all.
SpecClassifyFailure(f) ==
  IF f[1] = "Keystore"
    THEN IF f[2] \in InvalidPassphraseCases THEN <<403, "INCORRECT_PASSPHRASE">>
         ELSE IF f[2] \in KeyExistsCases THEN <<409, "KEY_EXISTS">>
         ELSE <<500, "INTERNAL_SERVER_ERROR">>
  ELSE IF \E row \in DomainTable : IsPrefix(row[1], f)
    THEN <<MostSpecific(f)[2], MostSpecific(f)[3]>>
  ELSE <<500, "INTERNAL_SERVER_ERROR">>

\* Step 2: routing-layer failures.
SpecRouting ==
  [ NoSession |-> <<404, "NOT_FOUND">>, InvalidQuery |-> <<400, "INVALID_QUERY">>,
    QueryMissing |-> <<400, "QUERY_MISSING">> ]

(***************************************************************************)
(* Steps 1 to 9 on a signal that may carry several failures: no handler    *)
(* matched; else a routing failure; else the failure raised first; else    *)
(* the absolute fallback.                                                  *)
(***************************************************************************)
SpecClassify(rej) ==
  IF rej = << >> THEN <<404, "NOT_FOUND">>
  ELSE IF \E i \in DOMAIN rej : rej[i].type = "Routing"
    THEN SpecRouting[Find(rej, "Routing").val[1]]
  ELSE IF \E i \in DOMAIN rej : rej[i].type = "Error"
    THEN SpecClassifyFailure(Find(rej, "Error").val)
  ELSE <<500, "INTERNAL_ERROR">>

\* The fixed messages section 8 quotes, by the classification they go with.
SpecMessages ==
  [ notFound   |-> "Resource not found",
    passphrase |-> "That's the wrong passphrase.",
    fallback   |-> "Something went wrong" ]
=============================================================================
