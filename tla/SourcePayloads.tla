--------------------------- MODULE SourcePayloads ---------------------------
(***************************************************************************)
(* The bodies of the 200 replies of the source routes                      *)
(* (proxy/src/http/source.rs) against the responses their filters         *)
(* document for API discovery.                                             *)
(*                                                                         *)
(* Each handler ends in reply::json(&value): serde turns the coco value    *)
(* into JSON through the Serialize impls of source.rs.  Each filter       *)
(* declares document::response(200, body(T::document())), built from the   *)
(* ToDocumentedType impls beside them.  Both are written by hand, so      *)
(* nothing but a check keeps them in step.                                 *)
(*                                                                         *)
(* JSON is modelled by its shape: a value is a kind and, for arrays and    *)
(* objects, its elements or its keyed fields.  Strings keep their text    *)
(* only where the documentation constrains it (enum_string).  The coco    *)
(* values are outside this repository: a handler returns any value of a    *)
(* small set of them.  Descriptions and examples are left out.             *)
(***************************************************************************)
EXTENDS Naturals, Sequences, FiniteSets

CONSTANTS
  Names,    \* branch and tag names coco returns
  MaxList   \* the longest list a coco call returns

ASSUME PayloadBounds == Names # {} /\ MaxList \in Nat

\* Lists of at most MaxList elements of S.
ListsOf(S) == UNION {[1 .. n -> S] : n \in 0 .. MaxList}

(***************************************************************************)
(* JSON values.                                                            *)
(***************************************************************************)
JNull       == [kind |-> "null",    val |-> "null"]
JBool(b)    == [kind |-> "boolean", val |-> b]
JInt        == [kind |-> "integer", val |-> 0]
JStr(s)     == [kind |-> "string",  val |-> s]
JArr(seq)   == [kind |-> "array",   val |-> seq]
JObj(f)     == [kind |-> "object",  val |-> f]
\* identity::Identity serialises through code outside source.rs.
JIdentity   == [kind |-> "identity", val |-> "identity"]

(***************************************************************************)
(* Documented types (the document crate): a type, whether null is allowed *)
(* and, for enum_string, arrays and objects, the values, items or         *)
(* properties.                                                             *)
(***************************************************************************)
DString        == [type |-> "string",  nullable |-> FALSE]
DBool          == [type |-> "boolean", nullable |-> FALSE]
DEnum(vals)    == [type |-> "string",  nullable |-> FALSE, enum |-> vals]
DArray(items)  == [type |-> "array",   nullable |-> FALSE, items |-> items]
DObject(props) == [type |-> "object",  nullable |-> FALSE, props |-> props]
DIdentity      == [type |-> "identity", nullable |-> FALSE]

(***************************************************************************)
(* Serialize impls and their documented types, type by type.              *)
(***************************************************************************)
SerialisePerson == JObj([name |-> JStr("s"), email |-> JStr("s"), avatar |-> JStr("s")])
PersonDoc       == DObject([name |-> DString, email |-> DString, avatar |-> DString])

\* committer_time.seconds() is an integer.
SerialiseCommit ==
  JObj([sha1 |-> JStr("s"), author |-> SerialisePerson, summary |-> JStr("s"),
        description |-> JStr("s"), committer |-> SerialisePerson,
        committerTime |-> JInt])
CommitDoc ==
  DObject([sha1 |-> DString, author |-> PersonDoc, summary |-> DString,
           description |-> DString, committer |-> PersonDoc,
           committerTime |-> DString])

SerialiseObjectType(t) == IF t = "Blob" THEN JStr("BLOB") ELSE JStr("TREE")
ObjectTypeDoc          == DEnum({"BLOB", "TREE"})

SerialiseInfo(i) ==
  JObj([name |-> JStr("s"), objectType |-> SerialiseObjectType(i.objectType),
        lastCommit |-> SerialiseCommit])
InfoDoc == DObject([name |-> DString, objectType |-> ObjectTypeDoc, lastCommit |-> CommitDoc])

SerialiseBlobContent(c) == IF c = "Ascii" THEN JStr("s") ELSE JNull
BlobContentDoc          == [DString EXCEPT !.nullable = TRUE]

\* is_binary() of coco holds of Binary content.
SerialiseBlob(b) ==
  JObj([binary |-> JBool(b.content = "Binary"), content |-> SerialiseBlobContent(b.content),
        info |-> SerialiseInfo(b.info), path |-> JStr("s")])
BlobDoc == DObject([binary |-> DBool, content |-> BlobContentDoc, info |-> InfoDoc])

\* Mutant: the serialize_field of "info" is dropped.
SerialiseTreeEntryNoInfo(e) == JObj([path |-> JStr("s")])

SerialiseTreeEntry(e) == JObj([path |-> JStr("s"), info |-> SerialiseInfo(e.info)])
TreeEntryDoc          == DObject([path |-> DString, info |-> InfoDoc])

SerialiseTree(t) ==
  JObj([path |-> JStr("s"),
        entries |-> JArr([k \in DOMAIN t.entries |-> SerialiseTreeEntry(t.entries[k])]),
        info |-> SerialiseInfo(t.info)])
TreeDoc == DObject([path |-> DString, entries |-> DArray(TreeEntryDoc), info |-> InfoDoc])

\* Branch and Tag serialise through to_string().
SerialiseBranch(n) == JStr(n)
BranchDoc          == DString
SerialiseTag(n)    == JStr(n)
TagDoc             == DString

\* A Vec of branches or tags.
Branches(ns) == JArr([k \in DOMAIN ns |-> SerialiseBranch(ns[k])])
Tags(ns)     == JArr([k \in DOMAIN ns |-> SerialiseTag(ns[k])])

\* #[derive(Serialize)] with camelCase: the field names as they are.
SerialiseRevision(r) ==
  JObj([identity |-> JIdentity, branches |-> Branches(r.branches), tags |-> Tags(r.tags)])
RevisionDoc == DObject([identity |-> DIdentity, branches |-> DArray(BranchDoc), tags |-> DArray(TagDoc)])

(***************************************************************************)
(* The coco values a handler can get back, and the body reply::json makes *)
(* of them.  revisions pairs the branches and tags it fetched with each of *)
(* three fixed identities.                                                 *)
(***************************************************************************)
Infos       == [objectType : {"Blob", "Tree"}]
Blobs       == [content : {"Ascii", "Binary"}, info : Infos]
TreeEntries == [info : Infos]
Trees       == [entries : ListsOf(TreeEntries), info : Infos]
Revisions   == [branches : ListsOf(Names), tags : ListsOf(Names)]

Handlers ==
  {"blob", "branches", "commit", "commits", "local_branches", "revisions", "tags", "tree"}

ReplyBodies ==
  [blob           |-> {SerialiseBlob(b) : b \in Blobs},
   branches       |-> {Branches(ns) : ns \in ListsOf(Names)},
   commit         |-> {SerialiseCommit},
   commits        |-> {JArr([k \in 1 .. n |-> SerialiseCommit]) : n \in 0 .. MaxList},
   local_branches |-> {Branches(ns) : ns \in ListsOf(Names)},
   revisions      |-> {JArr([k \in 1 .. 3 |-> SerialiseRevision(r)]) : r \in Revisions},
   tags           |-> {Tags(ns) : ns \in ListsOf(Names)},
   tree           |-> {SerialiseTree(t) : t \in Trees}]

\* The 200 body each filter documents with document::response.
DocumentedResponse ==
  [blob           |-> BlobDoc,
   branches       |-> DArray(BranchDoc),
   commit         |-> CommitDoc,
   commits        |-> DArray(CommitDoc),
   local_branches |-> DArray(BranchDoc),
   revisions      |-> DArray(RevisionDoc),
   tags           |-> DArray(TagDoc),
   tree           |-> TreeDoc]

NoReply == [handler |-> "none", body |-> JNull]

VARIABLE
  sent   \* the last 200 reply sent: its handler and its body

vars == <<sent>>

Init == sent = NoReply

\* Handler h gets value v from coco and replies reply::json of it.
Respond(h, body) == sent' = [handler |-> h, body |-> body]

Next == \E h \in Handlers : \E body \in ReplyBodies[h] : Respond(h, body)

Spec == Init /\ [][Next]_vars

(***************************************************************************)
(* Properties.                                                             *)
(***************************************************************************)

(***************************************************************************)
(* The pairs of a JSON value and the documented type it is read against,  *)
(* from the body down through array elements and the keys both sides have. *)
(***************************************************************************)
\* The pairs one level below p.
Children(p) ==
  IF p.json.kind = "array" /\ p.doc.type = "array"
  THEN {[json |-> p.json.val[k], doc |-> p.doc.items] : k \in DOMAIN p.json.val}
  ELSE IF p.json.kind = "object" /\ p.doc.type = "object"
  THEN {[json |-> p.json.val[k], doc |-> p.doc.props[k]] :
          k \in DOMAIN p.json.val \cap DOMAIN p.doc.props}
  ELSE {}

\* S and the pairs one level below it.
Reach(S) == S \cup UNION {Children(p) : p \in S}

(***************************************************************************)
(* JsonDepth is the deepest a body nests: tree > entries > TreeEntry >     *)
(* info > lastCommit > author > name.  The walk takes that many levels.    *)
(***************************************************************************)
JsonDepth == 6

Pairs(j, d) ==
  LET R0 == {[json |-> j, doc |-> d]}
      R2 == Reach(Reach(R0))
      R4 == Reach(Reach(R2))
  IN  Reach(Reach(R4))

SentPairs == IF sent = NoReply THEN {} ELSE Pairs(sent.body, DocumentedResponse[sent.handler])

IsObjectPair(p) == p.json.kind = "object" /\ p.doc.type = "object"

(***************************************************************************)
(* Every property the documentation promises is in the reply, at every     *)
(* depth: no ToDocumentedType impl documents a field its Serialize impl   *)
(* leaves out, and every filter documents the type its handler replies.   *)
(***************************************************************************)
DocumentedKeysSerialised ==
  \A p \in SentPairs : IsObjectPair(p) => DOMAIN p.doc.props \subseteq DOMAIN p.json.val

(***************************************************************************)
(* Every key of every object in a reply is documented: a client generated *)
(* from the API documentation sees all of the reply (a Serialize impl     *)
(* adds no field its ToDocumentedType impl leaves out).                    *)
(***************************************************************************)
SerialisedKeysDocumented ==
  \A p \in SentPairs : IsObjectPair(p) => DOMAIN p.json.val \subseteq DOMAIN p.doc.props

\* A JSON value has the documented type: null only where it is nullable,
\* and a string of an enum_string one of its values.
HasDocumentedType(j, d) ==
  IF j.kind = "null" THEN d.nullable
  ELSE /\ j.kind = d.type
       /\ "enum" \in DOMAIN d => j.val \in d.enum

(***************************************************************************)
(* Every value of a reply, at every depth, has the JSON type the           *)
(* documentation gives it.                                                 *)
(***************************************************************************)
SerialisedTypesDocumented == \A p \in SentPairs : HasDocumentedType(p.json, p.doc)
====
