------------------------------ MODULE Select ------------------------------
(***************************************************************************)
(* S3 Select: the Selector interface (selector.go) and its three           *)
(* implementations in package s3select: the JSON selector (Select,         *)
(* selectJSON, parseQuery), the SQL selector and the S3Select stub, and    *)
(* the SelectQuery builder whose methods the PEG parser calls back while   *)
(* executing a parsed query (p.Execute()).                                 *)
(*                                                                         *)
(* The PEG grammar is generated code outside src/: a query either parses   *)
(* or not, and a parsed query runs any sequence of at most MaxCallbacks    *)
(* builder callbacks.  An input document is one the json.Decoder accepts   *)
(* as an object ("doc") or one it rejects ("bad").  Go's int is an         *)
(* IntWidth-bit integer.                                                   *)
(***************************************************************************)
EXTENDS Integers, Sequences

CONSTANTS
  IntWidth,       \* bits of Go's int
  Names,          \* property names and alias texts
  Literals,       \* the digit strings an array index may carry, as numbers
  MaxCallbacks,   \* longest callback sequence of one query
  MaxDocs,        \* most documents in one input stream
  Empty           \* the empty string

ASSUME IntWidthAssumption == IntWidth \in Nat \ {0}
ASSUME BoundsAssumption == MaxCallbacks \in Nat /\ MaxDocs \in Nat
\* A fact of arithmetic about the int range, named so that proofs can cite
\* it: the provers do not evaluate 2^n for a symbolic n.
ASSUME IntRangeAssumption == 2^(IntWidth - 1) \in Nat \ {0}
ASSUME LiteralsAssumption == Literals \subseteq Nat /\ Empty \notin Names

MinInt == -(2^(IntWidth - 1))
MaxInt == 2^(IntWidth - 1) - 1

\* PathPartKind and FromKind (iota + 1); 0 is the unset zero value.
PathProp == 1
PathArray == 2
PathWildcard == 3
FromArchive == 1
FromObject == 2
FromS3Object == 3

PathParts == [Kind : 0..3, Index : MinInt..MaxInt, Name : Names \cup {Empty},
              NoCase : BOOLEAN]

Queries == [currentPath : Seq(PathParts), Fields : Seq(Seq(PathParts)),
            FromKind : 0..3, FromPath : Seq(PathParts), Alias : Names \cup {Empty}]

NewQuery == [currentPath |-> <<>>, Fields |-> <<>>, FromKind |-> 0,
             FromPath |-> <<>>, Alias |-> Empty]

\* A Select call: which Selector, the input's dynamic type, the expression.
Calls == [impl : {"json", "sql", "s3select"},
          input : {"json", "csv", "parquet", "other"},
          exprType : {"SQL", "other"}, initOK : BOOLEAN, syntaxOK : BOOLEAN,
          docs : UNION {[1..n -> {"doc", "bad"}] : n \in 0..MaxDocs}]

Errors == {"none", "NotImplemented", "InvalidDataSource", "Internal",
           "UnsupportedSyntax", "Decode"}

VARIABLES
  call,     \* the arguments of the Select call
  pc,       \* "select", "parse", "execute", "decode" or "done"
  q,        \* the *SelectQuery being built
  log,      \* history: every callback, with the part it reported or the path it ate
  pos,      \* documents decoded so far
  err       \* the error Select returned; its reader is always nil

vars == <<call, pc, q, log, pos, err>>

TypeOK ==
  /\ call \in Calls
  /\ pc \in {"select", "parse", "execute", "decode", "done"}
  /\ q \in Queries
  /\ log \in Seq([ev : {"part"}, part : PathParts] \cup [ev : {"eat"}, by : {"field", "from", "fromPath"}]
                  \cup [ev : {"other"}])
  /\ pos \in 0..MaxDocs
  /\ err \in Errors

Init ==
  /\ call \in Calls
  /\ pc = "select" /\ q = NewQuery /\ log = <<>> /\ pos = 0 /\ err = "none"

Return(e) == pc' = "done" /\ err' = e

\* s3select.Selector.Select (JSON): dispatch on the input's dynamic type.
JSONSelect ==
  /\ call.impl = "json"
  /\ \/ call.input = "json" /\ pc' = "parse" /\ UNCHANGED err
     \/ call.input \in {"csv", "parquet"} /\ Return("NotImplemented")
     \/ call.input = "other" /\ Return("InvalidDataSource")

\* The SQL Selector: NotImplemented whatever the expression type.
SQLSelect == call.impl = "sql" /\ Return("NotImplemented")

\* S3Select.Select: NotImplemented.
S3SelectSelect == call.impl = "s3select" /\ Return("NotImplemented")

\* Selector.Select, on whichever implementation the caller holds.
Select ==
  /\ pc = "select"
  /\ JSONSelect \/ SQLSelect \/ S3SelectSelect
  /\ UNCHANGED <<call, q, log, pos>>

\* parseQuery: the expression type, Peg.Init, Peg.Parse, then p.Execute().
ParseQuery ==
  /\ pc = "parse"
  /\ \/ call.exprType # "SQL" /\ Return("NotImplemented")
     \/ call.exprType = "SQL" /\ ~call.initOK /\ Return("Internal")
     \/ call.exprType = "SQL" /\ call.initOK /\ ~call.syntaxOK /\ Return("UnsupportedSyntax")
     \/ /\ call.exprType = "SQL" /\ call.initOK /\ call.syntaxOK
        /\ pc' = "execute" /\ UNCHANGED err
  /\ UNCHANGED <<call, q, log, pos>>

(***************************************************************************)
(* The SelectQuery callbacks.                                              *)
(***************************************************************************)
\* Mutant: eatPath returning the current path without resetting it.
EatPathKept(query) == query

\* eatPath: the state after it; what it returns is query.currentPath.
EatPath(query) == [query EXCEPT !.currentPath = <<>>]

Part(kind, index, name, noCase) == [Kind |-> kind, Index |-> index, Name |-> name, NoCase |-> noCase]

\* strconv.ParseInt(text, 10, 0) with its error ignored: out of range clamps.
\* Mutant: the literal kept as it is.
ParseIntUnclamped(l) == l

ParseIntClamped(l) == IF l > MaxInt THEN MaxInt ELSE l

Callback(query, entry) ==
  /\ pc = "execute" /\ Len(log) < MaxCallbacks
  /\ q' = query
  /\ log' = Append(log, entry)
  /\ UNCHANGED <<call, pc, pos, err>>

AppendPart(p) == Callback([q EXCEPT !.currentPath = Append(@, p)], [ev |-> "part", part |-> p])

FromArchiveCb == Callback([q EXCEPT !.FromKind = FromArchive], [ev |-> "other"])

FromObjectCb == Callback([EatPath(q) EXCEPT !.FromKind = FromObject], [ev |-> "eat", by |-> "from"])

FromS3ObjectPath ==
  Callback([EatPath(q) EXCEPT !.FromKind = FromS3Object, !.FromPath = q.currentPath],
           [ev |-> "eat", by |-> "fromPath"])

RegisterAlias(text) == Callback([q EXCEPT !.Alias = text], [ev |-> "other"])

AppendField ==
  Callback([EatPath(q) EXCEPT !.Fields = Append(@, q.currentPath)], [ev |-> "eat", by |-> "field"])

PathObjectPropNoCase(text) == AppendPart(Part(PathProp, 0, text, TRUE))

PathObjectProp(text) == AppendPart(Part(PathProp, 0, text, FALSE))

PathWildcardIndex == AppendPart(Part(PathWildcard, 0, Empty, FALSE))

\* Mutant: the array part appended without its Kind.
PathArrayIndexNoKind(l) == AppendPart(Part(0, ParseIntClamped(l), Empty, FALSE))

PathArrayIndex(l) == AppendPart(Part(PathArray, ParseIntClamped(l), Empty, FALSE))

\* p.Execute() has run every callback.
ExecuteDone ==
  /\ pc = "execute" /\ pc' = "decode"
  /\ UNCHANGED <<call, q, log, pos, err>>

\* One iteration of selectJSON's decode loop: EOF ends it with
\* ErrNotImplemented, a decode error is returned, and a document is walked
\* along the FROM path, whose parts must be of the three kinds.
Decode ==
  /\ pc = "decode"
  /\ \/ pos = Len(call.docs) /\ Return("NotImplemented") /\ UNCHANGED pos
     \/ pos < Len(call.docs) /\ call.docs[pos + 1] = "bad" /\ Return("Decode") /\ UNCHANGED pos
     \/ /\ pos < Len(call.docs) /\ call.docs[pos + 1] = "doc"
        /\ IF \E i \in DOMAIN q.FromPath : q.FromPath[i].Kind \notin {PathProp, PathArray, PathWildcard}
           THEN Return("Internal") /\ UNCHANGED pos
           ELSE pos' = pos + 1 /\ UNCHANGED <<pc, err>>
  /\ UNCHANGED <<call, q, log>>

Next ==
  \/ Select \/ ParseQuery \/ ExecuteDone \/ Decode
  \/ FromArchiveCb \/ FromObjectCb \/ FromS3ObjectPath \/ AppendField \/ PathWildcardIndex
  \/ \E t \in Names : RegisterAlias(t) \/ PathObjectPropNoCase(t) \/ PathObjectProp(t)
  \/ \E l \in Literals : PathArrayIndex(l)

Spec == Init /\ [][Next]_vars

(* The error a Select call owes its caller, decided by its arguments      *)
(* alone: every selector is a stub, so NotImplemented, unless the input is *)
(* no data source (the type switch of Selector.Select), the query does not *)
(* parse (parseQuery), or a document of the JSON stream does not decode    *)
(* (selectJSON).                                                           *)
Answer(c) ==
  IF c.impl # "json" \/ c.input \in {"csv", "parquet"} THEN "NotImplemented"
  ELSE IF c.input = "other" THEN "InvalidDataSource"
  ELSE IF c.exprType # "SQL" THEN "NotImplemented"
  ELSE IF ~c.initOK THEN "Internal"
  ELSE IF ~c.syntaxOK THEN "UnsupportedSyntax"
  ELSE IF \E i \in DOMAIN c.docs : c.docs[i] = "bad" THEN "Decode"
  ELSE "NotImplemented"

-----------------------------------------------------------------------------
(***************************************************************************)
(* Properties.                                                             *)
(***************************************************************************)
(***************************************************************************)
(* A callback history L read back as a query.  Callback i "eats" the       *)
(* current path when it is a clause (a field, FROM or FROM path); the      *)
(* parts pending at i are those reported before i with no eat in between;  *)
(* a path lists a set of parts when it holds their payloads in the order   *)
(* they were reported.                                                     *)
(***************************************************************************)
Eats(L) == {i \in 1..Len(L) : L[i].ev = "eat"}

EatenAt(L, by) == {i \in Eats(L) : L[i].by = by}

PendingParts(L, i) ==
  {p \in 1..Len(L) : L[p].ev = "part" /\ p < i /\ \A k \in Eats(L) : ~(p < k /\ k < i)}

\* e lists the members of S in increasing order.
Enumerates(e, S) ==
  /\ \A j, k \in DOMAIN e : j < k => e[j] < e[k]
  /\ \A s \in S : \E k \in DOMAIN e : e[k] = s

ListsParts(L, path, S) ==
  \E e \in [1..Len(path) -> S] :
    Enumerates(e, S) /\ \A k \in 1..Len(path) : path[k] = L[e[k]].part

\* The fields of Q list the parts pending at the field eats, in order.
FieldsFollow(L, Q) ==
  \E fe \in [1..Len(Q.Fields) -> EatenAt(L, "field")] :
    /\ Enumerates(fe, EatenAt(L, "field"))
    /\ \A k \in 1..Len(Q.Fields) : ListsParts(L, Q.Fields[k], PendingParts(L, fe[k]))

\* The FROM path of Q lists the parts pending at the last FromS3ObjectPath.
FromPathFollows(L, Q) ==
  IF EatenAt(L, "fromPath") = {} THEN Q.FromPath = << >>
  ELSE \E i \in EatenAt(L, "fromPath") :
         /\ \A j \in EatenAt(L, "fromPath") : j <= i
         /\ ListsParts(L, Q.FromPath, PendingParts(L, i))

\* The current path of Q lists the parts pending after the whole history.
CurrentPathFollows(L, Q) == ListsParts(L, Q.currentPath, PendingParts(L, Len(L) + 1))

\* The query Q is the one the history L builds.
Follows(L, Q) == FieldsFollow(L, Q) /\ FromPathFollows(L, Q) /\ CurrentPathFollows(L, Q)

(* The query the parser's callbacks build (SelectQuery, eatPath): each     *)
(* SELECT field holds exactly the path parts reported since the previous   *)
(* clause, in order, and the fields are in the order of their callbacks;   *)
(* the FROM path holds those before the last FromS3ObjectPath, and the     *)
(* current path those since the last clause.  No part is lost to, or       *)
(* carried over into, a later clause.                                      *)
QueryFollowsCallbacks == Follows(log, q)

(* The stubbed subsystem (spec section 1): every Select call of every      *)
(* Selector ends with a nil reader and an error decided by its arguments:  *)
(* NotImplemented unless the data source is unknown, the query does not    *)
(* parse, or a document of the JSON stream fails to decode, whatever       *)
(* callbacks the parser ran.  In particular selectJSON's FROM-path walk    *)
(* never reaches its FIXME ErrInternal branch.                             *)
SelectOutcome ==
  pc = "done" => err = Answer(call)
=============================================================================
