------------------------- MODULE ClassificationProofs -------------------------
(***************************************************************************)
(* Proofs that the nested matches of recover (Recover) agree with the      *)
(* mapping table of spec.md section 4.2 (ClassificationSpec), for every   *)
(* error::Error value and every keystore.                                  *)
(***************************************************************************)
EXTENDS RecoverProofs, ClassificationSpec, TLAPS

\* A row of the table that is a prefix of f, longer than every other such
\* row, is the one "most specific wins" picks.
LEMMA MostSpecificIs ==
  ASSUME NEW f, NEW r0 \in DomainTable, IsPrefix(r0[1], f),
         \A row \in DomainTable :
           IsPrefix(row[1], f) /\ row # r0 => Len(row[1]) < Len(r0[1])
  PROVE  MostSpecific(f) = r0
<1>1. \A row \in DomainTable : Len(row[1]) \in Nat
  BY DEF DomainTable
<1>2. /\ IsPrefix(r0[1], f)
      /\ \A other \in DomainTable : IsPrefix(other[1], f) => Len(other[1]) <= Len(r0[1])
  BY <1>1
<1>3. ASSUME NEW row \in DomainTable,
             IsPrefix(row[1], f),
             \A other \in DomainTable : IsPrefix(other[1], f) => Len(other[1]) <= Len(row[1])
      PROVE  row = r0
  BY <1>1, <1>3
<1>4. QED
  BY <1>2, <1>3 DEF MostSpecific

\* Key p of a row differs from the failure path f: it is longer, or it
\* differs at one of its (at most four) indices.
Differs(p, f) ==
  \/ Len(p) > Len(f)
  \/ p[1] # f[1]
  \/ Len(p) >= 2 /\ p[2] # f[2]
  \/ Len(p) >= 3 /\ p[3] # f[3]
  \/ Len(p) >= 4 /\ p[4] # f[4]

\* The keys of the table have one to four variant names.
LEMMA KeyLengths == \A row \in DomainTable : Len(row[1]) \in 1 .. 4
BY DEF DomainTable

LEMMA DiffersNotPrefix ==
  ASSUME NEW f \in Path, NEW p, Len(p) \in 1 .. 4, Differs(p, f)
  PROVE  ~IsPrefix(p, f)
<1> SUFFICES ASSUME IsPrefix(p, f) PROVE FALSE
  OBVIOUS
<1>1. Len(p) <= Len(f) /\ SubSeq(f, 1, Len(p)) = p
  BY DEF IsPrefix
<1>2. \A i \in 1 .. Len(p) : p[i] = f[i]
  BY <1>1, SubSeqProperties DEF Path
<1>3. QED
  BY <1>1, <1>2 DEF Differs

\* Every failure path is a prefix of itself.
LEMMA PrefixSelf ==
  ASSUME NEW f \in Failures
  PROVE  IsPrefix(f, f)
BY FailurePaths, SubSeqFull DEF IsPrefix, Path

\* The outermost variant of a failure is a prefix of it.
LEMMA HeadPrefix ==
  ASSUME NEW f \in Failures, Len(f) >= 1
  PROVE  IsPrefix(<<f[1]>>, f)
<1>1. f \in Path
  BY FailurePaths
<1>2. SubSeq(f, 1, 1) = <<f[1]>> \o SubSeq(f, 2, 1)
  BY <1>1, SubSeqRecursiveFirst DEF Path
<1>3. SubSeq(f, 2, 1) = << >>
  BY SubSeqEmpty
<1>4. <<f[1]>> \in Seq(Names \cup KeystoreCases)
  BY <1>1 DEF Path
<1>5. SubSeq(f, 1, 1) = <<f[1]>>
  BY <1>2, <1>3, <1>4, ConcatEmptySeq
<1>6. QED
  BY <1>5 DEF IsPrefix

\* A failure outside the keystore whose longest prefix row is r0 is
\* classified by r0.
LEMMA TableRow ==
  ASSUME NEW f \in Failures, f[1] # "Keystore",
         NEW r0 \in DomainTable, IsPrefix(r0[1], f),
         \A row \in DomainTable :
           row = r0 \/ Len(row[1]) < Len(r0[1]) \/ Differs(row[1], f)
  PROVE  SpecClassifyFailure(f) = <<r0[2], r0[3]>>
<1>1. f \in Path
  BY FailurePaths
<1>2. \A row \in DomainTable :
        IsPrefix(row[1], f) /\ row # r0 => Len(row[1]) < Len(r0[1])
  BY <1>1, KeyLengths, DiffersNotPrefix
<1>3. MostSpecific(f) = r0
  BY <1>2, MostSpecificIs
<1>4. QED
  BY <1>3 DEF SpecClassifyFailure

\* A failure outside the keystore that no row covers falls to step 8.
LEMMA NoTableRow ==
  ASSUME NEW f \in Failures, f[1] # "Keystore",
         \A row \in DomainTable : Differs(row[1], f)
  PROVE  SpecClassifyFailure(f) = <<500, "INTERNAL_SERVER_ERROR">>
<1>1. f \in Path
  BY FailurePaths
<1>2. ~\E row \in DomainTable : IsPrefix(row[1], f)
  BY <1>1, KeyLengths, DiffersNotPrefix
<1>3. QED
  BY <1>2 DEF SpecClassifyFailure
\* The status and variant recover answers a failure with.
CodeClass(f) == <<RecoverError(f).status, RecoverError(f).variant>>

\* The checkout arm agrees with the table, row for row.
LEMMA CheckoutAgrees ==
  ASSUME NEW c \in CheckoutCases
  PROVE  CodeClass(<<"State", "Checkout", c>>) = SpecClassifyFailure(<<"State", "Checkout", c>>)
<1> DEFINE f == <<"State", "Checkout", c>>
           r0 == <<f, CheckoutRecovery[c][1], CheckoutRecovery[c][2]>>
<1>1. f \in Failures
  BY DEF Failures, StateFailures
<1>2. r0 \in DomainTable
  BY DEF DomainTable, CheckoutRecovery, CheckoutCases
<1>3. IsPrefix(r0[1], f)
  BY <1>1, PrefixSelf
<1>4. \A row \in DomainTable : row = r0 \/ Len(row[1]) < Len(r0[1]) \/ Differs(row[1], f)
  BY DEF DomainTable, Differs, CheckoutRecovery, CheckoutCases
<1>5. SpecClassifyFailure(f) = <<r0[2], r0[3]>>
  BY <1>1, <1>2, <1>3, <1>4, TableRow
<1>6. RecoverError(f) = ReplyFrom(CheckoutRecovery[c], CheckoutMessage(f))
  BY DEF RecoverError, RecoverState
<1>7. QED
  BY <1>5, <1>6 DEF CodeClass, ReplyFrom, Reply

\* The validation arm agrees with the table, row for row.
LEMMA ValidationAgrees ==
  ASSUME NEW v \in ValidationCases
  PROVE  CodeClass(<<"State", "Create", "Validation", v>>)
           = SpecClassifyFailure(<<"State", "Create", "Validation", v>>)
<1> DEFINE f == <<"State", "Create", "Validation", v>>
           r0 == <<f, ValidationRecovery[v][1], ValidationRecovery[v][2]>>
<1>1. f \in Failures
  BY DEF Failures, StateFailures
<1>2. r0 \in DomainTable
  BY DEF DomainTable, ValidationRecovery, ValidationCases
<1>3. IsPrefix(r0[1], f)
  BY <1>1, PrefixSelf
<1>4. \A row \in DomainTable : row = r0 \/ Len(row[1]) < Len(r0[1]) \/ Differs(row[1], f)
  BY DEF DomainTable, Differs, ValidationRecovery, ValidationCases
<1>5. SpecClassifyFailure(f) = <<r0[2], r0[3]>>
  BY <1>1, <1>2, <1>3, <1>4, TableRow
<1>6. RecoverError(f) = ReplyFrom(ValidationRecovery[v], ValidationMessage(f))
  BY DEF RecoverError, RecoverState
<1>7. QED
  BY <1>5, <1>6 DEF CodeClass, ReplyFrom, Reply
\* The failures with a row of their own in the table.
OwnRow ==
  { <<"State", "Git">>, <<"State", "MissingOwner">>,
    <<"State", "Storage", "Blob", "NotFound">>, <<"State", "IdentityExists">>,
    <<"Source", "Git">>, <<"Source", "NoBranches">>, <<"Source", "PathNotFound">>,
    <<"KeystoreSealed">>, <<"InvalidAuthCookie">>, <<"SessionInUse">> }

\* The arms of state::Error, recover_source and error::Error for these
\* failures agree with their rows.
LEMMA OwnRowAgrees ==
  ASSUME NEW f \in OwnRow
  PROVE  CodeClass(f) = SpecClassifyFailure(f)
<1> DEFINE r0 == <<f, CodeClass(f)[1], CodeClass(f)[2]>>
<1>1. f \in Failures /\ f[1] # "Keystore"
  BY DEF OwnRow, Failures, StateFailures, SourceFailures, PlainFailures
<1>2. r0 \in DomainTable
  BY DEF OwnRow, DomainTable, CodeClass, RecoverError, RecoverState, RecoverSource, Reply
<1>3. IsPrefix(r0[1], f)
  BY <1>1, PrefixSelf
<1>4. \A row \in DomainTable : row = r0 \/ Len(row[1]) < Len(r0[1]) \/ Differs(row[1], f)
  BY DEF OwnRow, DomainTable, Differs, CodeClass, RecoverError, RecoverState, RecoverSource, Reply
<1>5. QED
  BY <1>1, <1>2, <1>3, <1>4, TableRow DEF CodeClass
\* The failures the catch-all rows of state::Error and source errors cover.
ParentRow ==
  { <<"State", "Create", "Other">>, <<"State", "Storage", "Blob", "Other">>,
    <<"State", "Storage", "Other">>, <<"State", "Other">>, <<"Source", "Other">> }

\* The catch-all arms of state::Error and recover_source agree with the
\* rows <<"State">> and <<"Source">>.
LEMMA ParentRowAgrees ==
  ASSUME NEW f \in ParentRow
  PROVE  CodeClass(f) = SpecClassifyFailure(f)
<1> DEFINE r0 == <<<<f[1]>>, 500, "INTERNAL_SERVER_ERROR">>
<1>1. f \in Failures /\ f[1] # "Keystore"
  BY DEF ParentRow, Failures, StateFailures, SourceFailures
<1>2. r0 \in DomainTable
  BY DEF ParentRow, DomainTable
<1>3. IsPrefix(r0[1], f)
  <2>1. Len(f) >= 1
    BY DEF ParentRow
  <2>2. QED
    BY <1>1, <2>1, HeadPrefix
<1>4. \A row \in DomainTable : row = r0 \/ Len(row[1]) < Len(r0[1]) \/ Differs(row[1], f)
  <2> SUFFICES ASSUME NEW row \in DomainTable
               PROVE  row = r0 \/ Len(row[1]) < Len(r0[1]) \/ Differs(row[1], f)
    OBVIOUS
  <2>1. CASE f = <<"State", "Create", "Other">>
    BY <2>1 DEF DomainTable, Differs
  <2>2. CASE f = <<"State", "Storage", "Blob", "Other">>
    BY <2>2 DEF DomainTable, Differs
  <2>3. CASE f = <<"State", "Storage", "Other">>
    BY <2>3 DEF DomainTable, Differs
  <2>4. CASE f = <<"State", "Other">>
    BY <2>4 DEF DomainTable, Differs
  <2>5. CASE f = <<"Source", "Other">>
    BY <2>5 DEF DomainTable, Differs
  <2>6. QED
    BY <2>1, <2>2, <2>3, <2>4, <2>5 DEF ParentRow
<1>5. CodeClass(f) = <<500, "INTERNAL_SERVER_ERROR">>
  BY DEF ParentRow, CodeClass, RecoverError, RecoverState, RecoverSource, Reply
<1>6. QED
  BY <1>1, <1>2, <1>3, <1>4, <1>5, TableRow

\* The variants of error::Error the table has no row for fall to the last
\* arm of the match and to step 8 alike.
LEMMA NoRowAgrees ==
  ASSUME NEW f \in PlainFailures \ OwnRow
  PROVE  CodeClass(f) = SpecClassifyFailure(f)
<1>1. f \in Failures /\ f[1] # "Keystore"
  BY DEF Failures, PlainFailures
<1>2. \A row \in DomainTable : Differs(row[1], f)
  BY DEF PlainFailures, OwnRow, DomainTable, Differs
<1>3. CodeClass(f) = <<500, "INTERNAL_SERVER_ERROR">>
  BY DEF PlainFailures, OwnRow, CodeClass, RecoverError, Reply
<1>4. QED
  BY <1>1, <1>2, <1>3, NoTableRow

\* The keystore arm tests the two opaque predicates in the order of step 5.
LEMMA KeystoreAgrees ==
  ASSUME NEW f \in KeystoreFailures
  PROVE  CodeClass(f) = SpecClassifyFailure(f)
<1>1. f[1] = "Keystore"
  BY DEF KeystoreFailures
<1>2. RecoverError(f) = RecoverKeystore(f)
  BY <1>1 DEF RecoverError
<1>3. CASE f[2] \in InvalidPassphraseCases
  <2>1. RecoverKeystore(f) = Reply(403, "INCORRECT_PASSPHRASE", Lit("That's the wrong passphrase."))
    BY <1>3 DEF RecoverKeystore
  <2>2. CodeClass(f) = <<403, "INCORRECT_PASSPHRASE">>
    <3>1. RecoverError(f) = Reply(403, "INCORRECT_PASSPHRASE", Lit("That's the wrong passphrase."))
      BY <1>2, <2>1
    <3>2. Reply(403, "INCORRECT_PASSPHRASE", Lit("That's the wrong passphrase.")).status = 403 /\ Reply(403, "INCORRECT_PASSPHRASE", Lit("That's the wrong passphrase.")).variant = "INCORRECT_PASSPHRASE"
      BY DEF Reply
    <3>3. QED
      BY <3>1, <3>2 DEF CodeClass
  <2>3. SpecClassifyFailure(f) = <<403, "INCORRECT_PASSPHRASE">>
    BY <1>1, <1>3 DEF SpecClassifyFailure
  <2>4. QED
    BY <2>2, <2>3
<1>4. CASE f[2] \notin InvalidPassphraseCases /\ f[2] \in KeyExistsCases
  <2>1. RecoverKeystore(f) = Reply(409, "KEY_EXISTS", Lit("A key already exists"))
    BY <1>4 DEF RecoverKeystore
  <2>2. CodeClass(f) = <<409, "KEY_EXISTS">>
    <3>1. RecoverError(f) = Reply(409, "KEY_EXISTS", Lit("A key already exists"))
      BY <1>2, <2>1
    <3>2. Reply(409, "KEY_EXISTS", Lit("A key already exists")).status = 409 /\ Reply(409, "KEY_EXISTS", Lit("A key already exists")).variant = "KEY_EXISTS"
      BY DEF Reply
    <3>3. QED
      BY <3>1, <3>2 DEF CodeClass
  <2>3. SpecClassifyFailure(f) = <<409, "KEY_EXISTS">>
    BY <1>1, <1>4 DEF SpecClassifyFailure
  <2>4. QED
    BY <2>2, <2>3
<1>5. CASE f[2] \notin InvalidPassphraseCases /\ f[2] \notin KeyExistsCases
  <2>1. RecoverKeystore(f) = Reply(500, "INTERNAL_SERVER_ERROR", Shows(f, 1, "Display"))
    BY <1>5 DEF RecoverKeystore
  <2>2. CodeClass(f) = <<500, "INTERNAL_SERVER_ERROR">>
    BY <1>2, <2>1 DEF CodeClass, Reply
  <2>3. SpecClassifyFailure(f) = <<500, "INTERNAL_SERVER_ERROR">>
    BY <1>1, <1>5 DEF SpecClassifyFailure
  <2>4. QED
    BY <2>2, <2>3
<1>6. QED
  BY <1>3, <1>4, <1>5

(***************************************************************************)
(* The nested matches of recover give every error::Error value the status  *)
(* and variant of the mapping table of spec.md section 4.2, for every      *)
(* keystore and whichever opaque cases satisfy its two predicates: no arm *)
(* of the code is missing or out of order with respect to "most specific  *)
(* row wins" (http/error.rs recover and recover_source).                   *)
(***************************************************************************)
THEOREM CodeMatchesTable ==
  \A f \in Failures : CodeClass(f) = SpecClassifyFailure(f)
<1> SUFFICES ASSUME NEW f \in Failures PROVE CodeClass(f) = SpecClassifyFailure(f)
  OBVIOUS
<1>1. CASE \E c \in CheckoutCases : f = <<"State", "Checkout", c>>
  BY <1>1, CheckoutAgrees
<1>2. CASE \E v \in ValidationCases : f = <<"State", "Create", "Validation", v>>
  BY <1>2, ValidationAgrees
<1>3. CASE f \in OwnRow
  BY <1>3, OwnRowAgrees
<1>4. CASE f \in ParentRow
  BY <1>4, ParentRowAgrees
<1>5. CASE f \in PlainFailures \ OwnRow
  BY <1>5, NoRowAgrees
<1>6. CASE f \in KeystoreFailures
  BY <1>6, KeystoreAgrees
<1>7. QED
  BY <1>1, <1>2, <1>3, <1>4, <1>5, <1>6
     DEF Failures, StateFailures, SourceFailures, OwnRow, ParentRow
(***************************************************************************)
(* recover agrees with the decision procedure of spec.md section 4.2 on    *)
(* every rejection, whatever causes it combines and in whatever order:     *)
(* the not-found test, the first Routing cause before any error::Error,    *)
(* the first error::Error cause, and the fallback.                         *)
(***************************************************************************)
THEOREM RecoverMatchesSpec ==
  \A rej \in Rejection :
    <<Recover(rej).status, Recover(rej).variant>> = SpecClassify(rej)
<1> SUFFICES ASSUME NEW rej \in Rejection
             PROVE  <<Recover(rej).status, Recover(rej).variant>> = SpecClassify(rej)
  OBVIOUS
<1>1. CASE IsNotFound(rej)
  BY <1>1 DEF IsNotFound, NotFound, Recover, SpecClassify, Reply
<1>2. CASE ~IsNotFound(rej) /\ Has(rej, "Routing")
  <2>1. PICK r \in RoutingCases : Find(rej, "Routing").val = <<r>>
    BY <1>2, FindFirst DEF Cause
  <2>2. Recover(rej) = ReplyFrom(RoutingRecovery[r], Shows(<<r>>, 1, "Display"))
    BY <1>2, <2>1 DEF Recover, RecoverRouting
  <2>3. SpecClassify(rej) = SpecRouting[r]
    BY <1>2, <2>1 DEF IsNotFound, NotFound, Has, SpecClassify
  <2>4. QED
    BY <2>2, <2>3 DEF ReplyFrom, Reply, RoutingRecovery, SpecRouting, RoutingCases
<1>3. CASE ~IsNotFound(rej) /\ ~Has(rej, "Routing") /\ Has(rej, "Error")
  <2>1. Find(rej, "Error").val \in Failures
    BY <1>3, FindFirst DEF Cause
  <2>2. Recover(rej) = RecoverError(Find(rej, "Error").val)
    BY <1>3 DEF Recover
  <2>3. SpecClassify(rej) = SpecClassifyFailure(Find(rej, "Error").val)
    BY <1>3 DEF IsNotFound, NotFound, Has, SpecClassify
  <2>4. QED
    BY <2>1, <2>2, <2>3, CodeMatchesTable DEF CodeClass
<1>4. CASE ~IsNotFound(rej) /\ ~Has(rej, "Routing") /\ ~Has(rej, "Error")
  BY <1>4 DEF IsNotFound, NotFound, Has, Recover, SpecClassify, Reply
<1>5. QED
  BY <1>1, <1>2, <1>3, <1>4
=============================================================================
