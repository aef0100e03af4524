------------------------ MODULE SourcePayloadsProofs ------------------------
(***************************************************************************)
(* Proof that every 200 body of the source routes carries every property   *)
(* its filter documents, at every depth, for every bound on the lists coco *)
(* returns and every set of branch and tag names.                          *)
(*                                                                         *)
(* The argument: Documented(p) says that p pairs a Serialize impl of       *)
(* source.rs (or a Vec of one) with its own ToDocumentedType impl, or that *)
(* p's JSON value is a scalar.  The root of every reply is such a pair,   *)
(* every child of such a pair is one, so every pair the walk reaches is   *)
(* one, and every such pair has all of its documented keys.               *)
(***************************************************************************)
EXTENDS SourcePayloads, TLAPS

\* A Vec<TreeEntry> as serialised inside a Tree.
EntriesJson(es) == JArr([k \in DOMAIN es |-> SerialiseTreeEntry(es[k])])

\* The pairs of one Serialize impl, or a Vec of one, with its documentation.
ScalarPair(p)    == p.json.kind \notin {"array", "object"}
PersonPair(p)    == p = [json |-> SerialisePerson, doc |-> PersonDoc]
CommitPair(p)    == p = [json |-> SerialiseCommit, doc |-> CommitDoc]
InfoPair(p)      == \E i \in Infos : p = [json |-> SerialiseInfo(i), doc |-> InfoDoc]
BlobPair(p)      == \E b \in Blobs : p = [json |-> SerialiseBlob(b), doc |-> BlobDoc]
TreeEntryPair(p) == \E e \in TreeEntries : p = [json |-> SerialiseTreeEntry(e), doc |-> TreeEntryDoc]
TreePair(p)      == \E t \in Trees : p = [json |-> SerialiseTree(t), doc |-> TreeDoc]
EntriesPair(p)   ==
  \E es \in ListsOf(TreeEntries) : p = [json |-> EntriesJson(es), doc |-> DArray(TreeEntryDoc)]
BranchesPair(p)  == \E ns \in ListsOf(Names) : p = [json |-> Branches(ns), doc |-> DArray(BranchDoc)]
TagsPair(p)      == \E ns \in ListsOf(Names) : p = [json |-> Tags(ns), doc |-> DArray(TagDoc)]
CommitsPair(p)   ==
  \E n \in 0 .. MaxList :
    p = [json |-> JArr([k \in 1 .. n |-> SerialiseCommit]), doc |-> DArray(CommitDoc)]
RevisionPair(p)  == \E r \in Revisions : p = [json |-> SerialiseRevision(r), doc |-> RevisionDoc]
RevisionsPair(p) ==
  \E r \in Revisions :
    p = [json |-> JArr([k \in 1 .. 3 |-> SerialiseRevision(r)]), doc |-> DArray(RevisionDoc)]

Documented(p) ==
  \/ ScalarPair(p) \/ PersonPair(p) \/ CommitPair(p) \/ InfoPair(p) \/ BlobPair(p)
  \/ TreeEntryPair(p) \/ TreePair(p) \/ EntriesPair(p) \/ BranchesPair(p) \/ TagsPair(p)
  \/ CommitsPair(p) \/ RevisionPair(p) \/ RevisionsPair(p)

\* The property DocumentedKeysSerialised states of each pair.
KeysOK(p) == IsObjectPair(p) => DOMAIN p.doc.props \subseteq DOMAIN p.json.val

\* A pair whose JSON value is a scalar has no children.
LEMMA ScalarLeaf ==
  ASSUME NEW p, p.json.kind \notin {"array", "object"}
  PROVE  Children(p) = {}
BY DEF Children

\* Every pair of a Serialize impl with its ToDocumentedType impl has all
\* of the documented keys.
LEMMA DocumentedKeys ==
  ASSUME NEW p, Documented(p)
  PROVE  KeysOK(p)
BY DEF Documented, ScalarPair, PersonPair, CommitPair, InfoPair, BlobPair, TreeEntryPair,
       TreePair, EntriesPair, BranchesPair, TagsPair, CommitsPair, RevisionPair, RevisionsPair,
       KeysOK, IsObjectPair, EntriesJson, Branches, Tags,
       SerialisePerson, PersonDoc, SerialiseCommit, CommitDoc, SerialiseInfo, InfoDoc,
       SerialiseBlob, BlobDoc, SerialiseTreeEntry, TreeEntryDoc, SerialiseTree, TreeDoc,
       SerialiseRevision, RevisionDoc, JObj, JArr, DObject, DArray

\* A child of an object pair is the pair of a key both sides have.
LEMMA ObjectChild ==
  ASSUME NEW p, p.json.kind = "object", p.doc.type = "object", NEW q \in Children(p)
  PROVE  \E k \in DOMAIN p.json.val \cap DOMAIN p.doc.props :
           q = [json |-> p.json.val[k], doc |-> p.doc.props[k]]
BY DEF Children

\* A child of an array pair is the pair of an element and the items' type.
LEMMA ArrayChild ==
  ASSUME NEW p, p.json.kind = "array", p.doc.type = "array", NEW q \in Children(p)
  PROVE  \E k \in DOMAIN p.json.val : q = [json |-> p.json.val[k], doc |-> p.doc.items]
BY DEF Children

\* A pair of a string, boolean, integer, null or identity is documented.
LEMMA ScalarDocumented ==
  ASSUME NEW q, q.json.kind \in {"string", "boolean", "integer", "null", "identity"}
  PROVE  Documented(q)
<1>1. ScalarPair(q)
  BY DEF ScalarPair
<1>2. QED
  BY <1>1 DEF Documented

\* Every child of a documented pair is documented.
LEMMA ChildrenDocumented ==
  ASSUME NEW p, Documented(p)
  PROVE  \A q \in Children(p) : Documented(q)
<1> SUFFICES ASSUME NEW q \in Children(p) PROVE Documented(q)
  OBVIOUS
<1>1. CASE ScalarPair(p)
  BY <1>1, ScalarLeaf DEF ScalarPair
<1>2. CASE PersonPair(p)
  <2>1. p.json.kind = "object" /\ p.doc.type = "object"
    BY <1>2 DEF PersonPair, SerialisePerson, PersonDoc, JObj, DObject
  <2>2. PICK k \in DOMAIN p.json.val \cap DOMAIN p.doc.props :
               q = [json |-> p.json.val[k], doc |-> p.doc.props[k]]
    BY <2>1, ObjectChild
  <2>3. q.json.kind = "string"
    BY <1>2, <2>2 DEF PersonPair, SerialisePerson, PersonDoc, JObj, DObject, JStr
  <2>4. QED
    BY <2>3, ScalarDocumented
<1>3. CASE CommitPair(p)
  <2>1. p.json.kind = "object" /\ p.doc.type = "object"
    BY <1>3 DEF CommitPair, SerialiseCommit, CommitDoc, JObj, DObject
  <2>2. PICK k \in DOMAIN p.json.val \cap DOMAIN p.doc.props :
               q = [json |-> p.json.val[k], doc |-> p.doc.props[k]]
    BY <2>1, ObjectChild
  <2>3. CASE k \in {"author", "committer"}
    <3>1. PersonPair(q)
      BY <1>3, <2>2, <2>3 DEF CommitPair, SerialiseCommit, CommitDoc, JObj, DObject, PersonPair
    <3>2. QED
      BY <3>1 DEF Documented
  <2>4. CASE k \notin {"author", "committer"}
    <3>1. q.json.kind \in {"string", "integer"}
      BY <1>3, <2>2, <2>4 DEF CommitPair, SerialiseCommit, CommitDoc, JObj, DObject, JStr, JInt
    <3>2. QED
      BY <3>1, ScalarDocumented
  <2>5. QED
    BY <2>3, <2>4
<1>4. CASE InfoPair(p)
  <2>1. PICK i \in Infos : p = [json |-> SerialiseInfo(i), doc |-> InfoDoc]
    BY <1>4 DEF InfoPair
  <2>2. p.json.kind = "object" /\ p.doc.type = "object"
    BY <2>1 DEF SerialiseInfo, InfoDoc, JObj, DObject
  <2>3. PICK k \in DOMAIN p.json.val \cap DOMAIN p.doc.props :
               q = [json |-> p.json.val[k], doc |-> p.doc.props[k]]
    BY <2>2, ObjectChild
  <2>4. CASE k = "lastCommit"
    <3>1. CommitPair(q)
      BY <2>1, <2>3, <2>4 DEF SerialiseInfo, InfoDoc, JObj, DObject, CommitPair
    <3>2. QED
      BY <3>1 DEF Documented
  <2>5. CASE k # "lastCommit"
    <3>1. q.json.kind = "string"
      BY <2>1, <2>3, <2>5 DEF SerialiseInfo, InfoDoc, JObj, DObject, JStr, SerialiseObjectType
    <3>2. QED
      BY <3>1, ScalarDocumented
  <2>6. QED
    BY <2>4, <2>5
<1>5. CASE BlobPair(p)
  <2>1. PICK b \in Blobs : p = [json |-> SerialiseBlob(b), doc |-> BlobDoc]
    BY <1>5 DEF BlobPair
  <2>2. p.json.kind = "object" /\ p.doc.type = "object"
    BY <2>1 DEF SerialiseBlob, BlobDoc, JObj, DObject
  <2>3. PICK k \in DOMAIN p.json.val \cap DOMAIN p.doc.props :
               q = [json |-> p.json.val[k], doc |-> p.doc.props[k]]
    BY <2>2, ObjectChild
  <2>4. CASE k = "info"
    <3>1. b.info \in Infos
      BY <2>1 DEF Blobs
    <3>2. q = [json |-> SerialiseInfo(b.info), doc |-> InfoDoc]
      BY <2>1, <2>3, <2>4 DEF SerialiseBlob, BlobDoc, JObj, DObject
    <3>3. InfoPair(q)
      BY <3>1, <3>2 DEF InfoPair
    <3>4. QED
      BY <3>3 DEF Documented
  <2>5. CASE k # "info"
    <3>1. q.json.kind \in {"string", "boolean", "null"}
      BY <2>1, <2>3, <2>5 DEF SerialiseBlob, BlobDoc, JObj, DObject, JStr, JBool, JNull,
                              SerialiseBlobContent
    <3>2. QED
      BY <3>1, ScalarDocumented
  <2>6. QED
    BY <2>4, <2>5
<1>6. CASE TreeEntryPair(p)
  <2>1. PICK e \in TreeEntries : p = [json |-> SerialiseTreeEntry(e), doc |-> TreeEntryDoc]
    BY <1>6 DEF TreeEntryPair
  <2>2. p.json.kind = "object" /\ p.doc.type = "object"
    BY <2>1 DEF SerialiseTreeEntry, TreeEntryDoc, JObj, DObject
  <2>3. PICK k \in DOMAIN p.json.val \cap DOMAIN p.doc.props :
               q = [json |-> p.json.val[k], doc |-> p.doc.props[k]]
    BY <2>2, ObjectChild
  <2>4. CASE k = "info"
    <3>1. e.info \in Infos
      BY <2>1 DEF TreeEntries
    <3>2. q = [json |-> SerialiseInfo(e.info), doc |-> InfoDoc]
      BY <2>1, <2>3, <2>4 DEF SerialiseTreeEntry, TreeEntryDoc, JObj, DObject
    <3>3. InfoPair(q)
      BY <3>1, <3>2 DEF InfoPair
    <3>4. QED
      BY <3>3 DEF Documented
  <2>5. CASE k # "info"
    <3>1. q.json.kind = "string"
      BY <2>1, <2>3, <2>5 DEF SerialiseTreeEntry, TreeEntryDoc, JObj, DObject, JStr
    <3>2. QED
      BY <3>1, ScalarDocumented
  <2>6. QED
    BY <2>4, <2>5
<1>7. CASE TreePair(p)
  <2>1. PICK t \in Trees : p = [json |-> SerialiseTree(t), doc |-> TreeDoc]
    BY <1>7 DEF TreePair
  <2>2. p.json.kind = "object" /\ p.doc.type = "object"
    BY <2>1 DEF SerialiseTree, TreeDoc, JObj, DObject
  <2>3. PICK k \in DOMAIN p.json.val \cap DOMAIN p.doc.props :
               q = [json |-> p.json.val[k], doc |-> p.doc.props[k]]
    BY <2>2, ObjectChild
  <2>4. t.info \in Infos /\ t.entries \in ListsOf(TreeEntries)
    BY <2>1 DEF Trees
  <2>5. CASE k = "info"
    <3>1. q = [json |-> SerialiseInfo(t.info), doc |-> InfoDoc]
      BY <2>1, <2>3, <2>5 DEF SerialiseTree, TreeDoc, JObj, DObject
    <3>2. InfoPair(q)
      BY <2>4, <3>1 DEF InfoPair
    <3>3. QED
      BY <3>2 DEF Documented
  <2>6. CASE k = "entries"
    <3>1. q = [json |-> EntriesJson(t.entries), doc |-> DArray(TreeEntryDoc)]
      BY <2>1, <2>3, <2>6 DEF SerialiseTree, TreeDoc, JObj, DObject, EntriesJson
    <3>2. EntriesPair(q)
      BY <2>4, <3>1 DEF EntriesPair
    <3>3. QED
      BY <3>2 DEF Documented
  <2>7. CASE k \notin {"info", "entries"}
    <3>1. q.json.kind = "string"
      BY <2>1, <2>3, <2>7 DEF SerialiseTree, TreeDoc, JObj, DObject, JStr
    <3>2. QED
      BY <3>1, ScalarDocumented
  <2>8. QED
    BY <2>5, <2>6, <2>7
<1>8. CASE EntriesPair(p)
  <2>1. PICK es \in ListsOf(TreeEntries) : p = [json |-> EntriesJson(es), doc |-> DArray(TreeEntryDoc)]
    BY <1>8 DEF EntriesPair
  <2>2. p.json.kind = "array" /\ p.doc.type = "array"
    BY <2>1 DEF EntriesJson, JArr, DArray
  <2>3. PICK k \in DOMAIN p.json.val : q = [json |-> p.json.val[k], doc |-> p.doc.items]
    BY <2>2, ArrayChild
  <2>4. k \in DOMAIN es /\ q = [json |-> SerialiseTreeEntry(es[k]), doc |-> TreeEntryDoc]
    BY <2>1, <2>3 DEF EntriesJson, JArr, DArray
  <2>5. es[k] \in TreeEntries
    BY <2>1, <2>4 DEF ListsOf
  <2>6. TreeEntryPair(q)
    BY <2>4, <2>5 DEF TreeEntryPair
  <2>7. QED
    BY <2>6 DEF Documented
<1>9. CASE BranchesPair(p)
  <2>1. PICK ns \in ListsOf(Names) : p = [json |-> Branches(ns), doc |-> DArray(BranchDoc)]
    BY <1>9 DEF BranchesPair
  <2>2. p.json.kind = "array" /\ p.doc.type = "array"
    BY <2>1 DEF Branches, JArr, DArray
  <2>3. PICK k \in DOMAIN p.json.val : q = [json |-> p.json.val[k], doc |-> p.doc.items]
    BY <2>2, ArrayChild
  <2>4. q.json.kind = "string"
    BY <2>1, <2>3 DEF Branches, SerialiseBranch, JArr, JStr
  <2>5. QED
    BY <2>4, ScalarDocumented
<1>10. CASE TagsPair(p)
  <2>1. PICK ns \in ListsOf(Names) : p = [json |-> Tags(ns), doc |-> DArray(TagDoc)]
    BY <1>10 DEF TagsPair
  <2>2. p.json.kind = "array" /\ p.doc.type = "array"
    BY <2>1 DEF Tags, JArr, DArray
  <2>3. PICK k \in DOMAIN p.json.val : q = [json |-> p.json.val[k], doc |-> p.doc.items]
    BY <2>2, ArrayChild
  <2>4. q.json.kind = "string"
    BY <2>1, <2>3 DEF Tags, SerialiseTag, JArr, JStr
  <2>5. QED
    BY <2>4, ScalarDocumented
<1>11. CASE CommitsPair(p)
  <2>1. PICK n \in 0 .. MaxList :
               p = [json |-> JArr([k \in 1 .. n |-> SerialiseCommit]), doc |-> DArray(CommitDoc)]
    BY <1>11 DEF CommitsPair
  <2>2. p.json.kind = "array" /\ p.doc.type = "array"
    BY <2>1 DEF JArr, DArray
  <2>3. PICK k \in DOMAIN p.json.val : q = [json |-> p.json.val[k], doc |-> p.doc.items]
    BY <2>2, ArrayChild
  <2>4. CommitPair(q)
    BY <2>1, <2>3 DEF JArr, DArray, CommitPair
  <2>5. QED
    BY <2>4 DEF Documented
<1>12. CASE RevisionPair(p)
  <2>1. PICK r \in Revisions : p = [json |-> SerialiseRevision(r), doc |-> RevisionDoc]
    BY <1>12 DEF RevisionPair
  <2>2. p.json.kind = "object" /\ p.doc.type = "object"
    BY <2>1 DEF SerialiseRevision, RevisionDoc, JObj, DObject
  <2>3. PICK k \in DOMAIN p.json.val \cap DOMAIN p.doc.props :
               q = [json |-> p.json.val[k], doc |-> p.doc.props[k]]
    BY <2>2, ObjectChild
  <2>4. r.branches \in ListsOf(Names) /\ r.tags \in ListsOf(Names)
    BY <2>1 DEF Revisions
  <2>5. CASE k = "branches"
    <3>1. q = [json |-> Branches(r.branches), doc |-> DArray(BranchDoc)]
      BY <2>1, <2>3, <2>5 DEF SerialiseRevision, RevisionDoc, JObj, DObject
    <3>2. BranchesPair(q)
      BY <2>4, <3>1 DEF BranchesPair
    <3>3. QED
      BY <3>2 DEF Documented
  <2>6. CASE k = "tags"
    <3>1. q = [json |-> Tags(r.tags), doc |-> DArray(TagDoc)]
      BY <2>1, <2>3, <2>6 DEF SerialiseRevision, RevisionDoc, JObj, DObject
    <3>2. TagsPair(q)
      BY <2>4, <3>1 DEF TagsPair
    <3>3. QED
      BY <3>2 DEF Documented
  <2>7. CASE k \notin {"branches", "tags"}
    <3>1. q.json.kind = "identity"
      BY <2>1, <2>3, <2>7 DEF SerialiseRevision, RevisionDoc, JObj, DObject, JIdentity
    <3>2. QED
      BY <3>1, ScalarDocumented
  <2>8. QED
    BY <2>5, <2>6, <2>7
<1>13. CASE RevisionsPair(p)
  <2>1. PICK r \in Revisions :
               p = [json |-> JArr([k \in 1 .. 3 |-> SerialiseRevision(r)]), doc |-> DArray(RevisionDoc)]
    BY <1>13 DEF RevisionsPair
  <2>2. p.json.kind = "array" /\ p.doc.type = "array"
    BY <2>1 DEF JArr, DArray
  <2>3. PICK k \in DOMAIN p.json.val : q = [json |-> p.json.val[k], doc |-> p.doc.items]
    BY <2>2, ArrayChild
  <2>4. RevisionPair(q)
    BY <2>1, <2>3 DEF JArr, DArray, RevisionPair
  <2>5. QED
    BY <2>4 DEF Documented
<1>14. QED
  BY <1>1, <1>2, <1>3, <1>4, <1>5, <1>6, <1>7, <1>8, <1>9, <1>10, <1>11, <1>12, <1>13
     DEF Documented

\* One level of the walk keeps every pair documented.
LEMMA ReachDocumented ==
  ASSUME NEW S, \A p \in S : Documented(p)
  PROVE  \A p \in Reach(S) : Documented(p)
BY ChildrenDocumented DEF Reach

\* Every pair the walk from a documented pair reaches is documented.
LEMMA PairsDocumented ==
  ASSUME NEW j, NEW d, Documented([json |-> j, doc |-> d])
  PROVE  \A p \in Pairs(j, d) : Documented(p)
<1> DEFINE R0 == {[json |-> j, doc |-> d]}
           R1 == Reach(R0)
           R2 == Reach(R1)
           R3 == Reach(R2)
           R4 == Reach(R3)
           R5 == Reach(R4)
<1>1. \A p \in R0 : Documented(p)
  OBVIOUS
<1>2. \A p \in R2 : Documented(p)
  BY <1>1, ReachDocumented
<1>3. \A p \in R4 : Documented(p)
  BY <1>2, ReachDocumented
<1>4. \A p \in Reach(R5) : Documented(p)
  BY <1>3, ReachDocumented
<1>5. Pairs(j, d) = Reach(R5)
  BY DEF Pairs
<1>6. QED
  BY <1>4, <1>5

\* The body of every reply, read against the response its filter
\* documents, is a documented pair.
LEMMA RootDocumented ==
  ASSUME NEW h \in Handlers, NEW b \in ReplyBodies[h]
  PROVE  Documented([json |-> b, doc |-> DocumentedResponse[h]])
<1> DEFINE root == [json |-> b, doc |-> DocumentedResponse[h]]
<1>1. CASE h = "blob"
  <2>1. BlobPair(root)
    BY <1>1 DEF ReplyBodies, DocumentedResponse, BlobPair
  <2>2. QED
    BY <2>1 DEF Documented
<1>2. CASE h \in {"branches", "local_branches"}
  <2>1. BranchesPair(root)
    BY <1>2 DEF ReplyBodies, DocumentedResponse, BranchesPair
  <2>2. QED
    BY <2>1 DEF Documented
<1>3. CASE h = "commit"
  <2>1. CommitPair(root)
    BY <1>3 DEF ReplyBodies, DocumentedResponse, CommitPair
  <2>2. QED
    BY <2>1 DEF Documented
<1>4. CASE h = "commits"
  <2>1. CommitsPair(root)
    BY <1>4 DEF ReplyBodies, DocumentedResponse, CommitsPair
  <2>2. QED
    BY <2>1 DEF Documented
<1>5. CASE h = "revisions"
  <2>1. RevisionsPair(root)
    BY <1>5 DEF ReplyBodies, DocumentedResponse, RevisionsPair
  <2>2. QED
    BY <2>1 DEF Documented
<1>6. CASE h = "tags"
  <2>1. TagsPair(root)
    BY <1>6 DEF ReplyBodies, DocumentedResponse, TagsPair
  <2>2. QED
    BY <2>1 DEF Documented
<1>7. CASE h = "tree"
  <2>1. TreePair(root)
    BY <1>7 DEF ReplyBodies, DocumentedResponse, TreePair
  <2>2. QED
    BY <2>1 DEF Documented
<1>8. QED
  BY <1>1, <1>2, <1>3, <1>4, <1>5, <1>6, <1>7 DEF Handlers

\* The last reply sent is none yet, or a body its handler can send.
SentInv ==
  \/ sent = NoReply
  \/ sent.handler \in Handlers /\ sent.body \in ReplyBodies[sent.handler]

LEMMA InitSentInv == Init => SentInv
BY DEF Init, SentInv

LEMMA NextSentInv == SentInv /\ [Next]_vars => SentInv'
<1> SUFFICES ASSUME SentInv, [Next]_vars PROVE SentInv'
  OBVIOUS
<1>1. CASE Next
  <2>1. PICK h \in Handlers : \E body \in ReplyBodies[h] : Respond(h, body)
    BY <1>1 DEF Next
  <2>2. PICK body \in ReplyBodies[h] : Respond(h, body)
    BY <2>1
  <2>3. QED
    BY <2>2 DEF Respond, SentInv
<1>2. CASE UNCHANGED vars
  BY <1>2 DEF vars, SentInv
<1>3. QED
  BY <1>1, <1>2

\* In every state reachable by the replies, every documented key is sent.
LEMMA SentInvKeys == SentInv => DocumentedKeysSerialised
<1> SUFFICES ASSUME SentInv, NEW p \in SentPairs
             PROVE  IsObjectPair(p) => DOMAIN p.doc.props \subseteq DOMAIN p.json.val
  BY DEF DocumentedKeysSerialised
<1>1. sent # NoReply
  BY DEF SentPairs
<1>2. sent.handler \in Handlers /\ sent.body \in ReplyBodies[sent.handler]
  BY <1>1 DEF SentInv
<1>3. p \in Pairs(sent.body, DocumentedResponse[sent.handler])
  BY <1>1 DEF SentPairs
<1>4. Documented(p)
  BY <1>2, <1>3, RootDocumented, PairsDocumented
<1>5. QED
  BY <1>4, DocumentedKeys DEF KeysOK

(***************************************************************************)
(* Every 200 reply of the source routes carries, at every depth, every     *)
(* property the response its filter documents lists: the Serialize impls  *)
(* of source.rs write every field their ToDocumentedType twins declare,   *)
(* and each filter documents the type its handler passes to reply::json.  *)
(* It holds for every MaxList and every set of names.                      *)
(***************************************************************************)
THEOREM DocumentedKeysCorrect == Spec => []DocumentedKeysSerialised
BY InitSentInv, NextSentInv, SentInvKeys, PTL DEF Spec
=============================================================================
