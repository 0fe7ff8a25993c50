--------------------------- MODULE SelectProofs ---------------------------
(***************************************************************************)
(* Proofs about Select: type correctness and the outcome of every Select   *)
(* call, for every int width, name set, literal set and bound.             *)
(***************************************************************************)
EXTENDS Select, SequenceTheorems, TLAPS

(***************************************************************************)
(* The inductive invariant.  Every path part a callback reports has one of *)
(* the three kinds selectJSON's walk knows, so the FROM path it walks has  *)
(* only those; the call reached parseQuery only with JSON input on the     *)
(* JSON Selector, and p.Execute() only for a query that parsed; every      *)
(* document decoded so far was one the decoder accepts; and a finished     *)
(* call has the error its arguments decide, an unfinished one none.        *)
(***************************************************************************)
KnownKinds(path) == \A i \in DOMAIN path : path[i].Kind \in {PathProp, PathArray, PathWildcard}

IInv ==
  /\ TypeOK
  /\ KnownKinds(q.currentPath) /\ KnownKinds(q.FromPath)
  /\ pc \in {"parse", "execute", "decode"} => call.impl = "json" /\ call.input = "json"
  /\ pc \in {"execute", "decode"} => call.exprType = "SQL" /\ call.initOK /\ call.syntaxOK
  /\ pos <= Len(call.docs) /\ \A i \in 1..pos : call.docs[i] = "doc"
  /\ pc = "done" => err = Answer(call)
  /\ pc # "done" => err = "none"

\* The entries the callback history holds.
LogEntries ==
  [ev : {"part"}, part : PathParts] \cup [ev : {"eat"}, by : {"field", "from", "fromPath"}]
    \cup [ev : {"other"}]

LEMMA IntBounds == MaxInt \in Nat /\ MinInt \in Int /\ MinInt <= 0
  BY IntRangeAssumption DEF MaxInt, MinInt

\* A call's document stream is a sequence of at most MaxDocs documents.
LEMMA DocsSeq ==
  ASSUME NEW c \in Calls
  PROVE  /\ c.docs \in Seq({"doc", "bad"})
         /\ Len(c.docs) \in 0..MaxDocs
         /\ DOMAIN c.docs = 1..Len(c.docs)
  <1>1. PICK n \in 0..MaxDocs : c.docs \in [1..n -> {"doc", "bad"}]
    BY DEF Calls
  <1>2. n \in Nat
    BY BoundsAssumption
  <1>3. c.docs \in Seq({"doc", "bad"}) /\ Len(c.docs) = n
    BY <1>1, <1>2, LenProperties
  <1>. QED
    BY <1>1, <1>3

\* Appending a part of a known kind keeps a path's kinds known.
LEMMA AppendKnown ==
  ASSUME NEW path \in Seq(PathParts), NEW p \in PathParts,
         KnownKinds(path), p.Kind \in {PathProp, PathArray, PathWildcard}
  PROVE  /\ Append(path, p) \in Seq(PathParts)
         /\ KnownKinds(Append(path, p))
  BY AppendProperties DEF KnownKinds

\* A query is the record of its five fields.
LEMMA QueryRecord ==
  ASSUME NEW r \in Queries
  PROVE  r = [currentPath |-> r.currentPath, Fields |-> r.Fields, FromKind |-> r.FromKind,
              FromPath |-> r.FromPath, Alias |-> r.Alias]
  BY Zenon DEF Queries

\* eatPath leaves a query with an empty current path and nothing else changed.
LEMMA EatPathQuery ==
  ASSUME NEW r \in Queries
  PROVE  EatPath(r) = [currentPath |-> << >>, Fields |-> r.Fields, FromKind |-> r.FromKind,
                       FromPath |-> r.FromPath, Alias |-> r.Alias]
  <1>1. r = [currentPath |-> r.currentPath, Fields |-> r.Fields, FromKind |-> r.FromKind,
             FromPath |-> r.FromPath, Alias |-> r.Alias]
    BY QueryRecord
  <1>. QED
    BY <1>1 DEF EatPath

\* Updating one field of a query gives the record with that field replaced.
LEMMA CurrentPathExcept ==
  ASSUME NEW r \in Queries, NEW v
  PROVE  [r EXCEPT !.currentPath = v] =
           [currentPath |-> v, Fields |-> r.Fields, FromKind |-> r.FromKind,
            FromPath |-> r.FromPath, Alias |-> r.Alias]
  <1>1. r = [currentPath |-> r.currentPath, Fields |-> r.Fields, FromKind |-> r.FromKind,
             FromPath |-> r.FromPath, Alias |-> r.Alias]
    BY QueryRecord
  <1>. QED
    BY <1>1

LEMMA FromKindExcept ==
  ASSUME NEW r \in Queries, NEW v
  PROVE  [r EXCEPT !.FromKind = v] =
           [currentPath |-> r.currentPath, Fields |-> r.Fields, FromKind |-> v,
            FromPath |-> r.FromPath, Alias |-> r.Alias]
  <1>1. r = [currentPath |-> r.currentPath, Fields |-> r.Fields, FromKind |-> r.FromKind,
             FromPath |-> r.FromPath, Alias |-> r.Alias]
    BY QueryRecord
  <1>. QED
    BY <1>1

LEMMA FieldsExcept ==
  ASSUME NEW r \in Queries, NEW v
  PROVE  [r EXCEPT !.Fields = v] =
           [currentPath |-> r.currentPath, Fields |-> v, FromKind |-> r.FromKind,
            FromPath |-> r.FromPath, Alias |-> r.Alias]
  <1>1. r = [currentPath |-> r.currentPath, Fields |-> r.Fields, FromKind |-> r.FromKind,
             FromPath |-> r.FromPath, Alias |-> r.Alias]
    BY QueryRecord
  <1>. QED
    BY <1>1

LEMMA AliasExcept ==
  ASSUME NEW r \in Queries, NEW v
  PROVE  [r EXCEPT !.Alias = v] =
           [currentPath |-> r.currentPath, Fields |-> r.Fields, FromKind |-> r.FromKind,
            FromPath |-> r.FromPath, Alias |-> v]
  <1>1. r = [currentPath |-> r.currentPath, Fields |-> r.Fields, FromKind |-> r.FromKind,
             FromPath |-> r.FromPath, Alias |-> r.Alias]
    BY QueryRecord
  <1>. QED
    BY <1>1

LEMMA InitIInv == Init => IInv
  <1> SUFFICES ASSUME Init PROVE IInv
    OBVIOUS
  <1>1. NewQuery \in Queries
    BY DEF NewQuery, Queries
  <1>2. Len(call.docs) \in 0..MaxDocs
    BY DocsSeq DEF Init
  <1>3. TypeOK
    BY <1>1, BoundsAssumption DEF Init, TypeOK, Errors
  <1>. QED
    BY <1>2, <1>3 DEF Init, IInv, KnownKinds, NewQuery

(***************************************************************************)
(* One builder callback keeps the invariant when the query it leaves is a  *)
(* query whose paths have known kinds and the history entry is an entry.   *)
(***************************************************************************)
LEMMA CallbackIInv ==
  ASSUME IInv, NEW query \in Queries, NEW entry \in LogEntries,
         KnownKinds(query.currentPath), KnownKinds(query.FromPath),
         Callback(query, entry)
  PROVE  IInv'
  <1>1. log \in Seq(LogEntries)
    BY DEF IInv, TypeOK, LogEntries
  <1>2. log' \in Seq(LogEntries)
    BY <1>1, AppendProperties DEF Callback
  <1>3. TypeOK'
    BY <1>2 DEF IInv, TypeOK, Callback, LogEntries
  <1>. QED
    BY <1>3 DEF IInv, Callback

LEMMA NextIInv == IInv /\ [Next]_vars => IInv'
  <1> SUFFICES ASSUME IInv, [Next]_vars PROVE IInv'
    OBVIOUS
  <1>1. /\ call \in Calls /\ q \in Queries /\ pos \in 0..MaxDocs
        /\ call.docs \in Seq({"doc", "bad"}) /\ DOMAIN call.docs = 1..Len(call.docs)
    BY DocsSeq DEF IInv, TypeOK
  <1>2. q.currentPath \in Seq(PathParts) /\ q.FromPath \in Seq(PathParts)
        /\ KnownKinds(q.currentPath) /\ KnownKinds(q.FromPath)
    BY <1>1 DEF Queries, IInv
  <1>3. ASSUME Select PROVE IInv'
    <2>1. UNCHANGED <<call, q, log, pos>> /\ pc = "select"
      BY <1>3 DEF Select
    <2>2. CASE JSONSelect
      <3>1. CASE call.input = "json" /\ pc' = "parse" /\ UNCHANGED err
        BY <2>1, <2>2, <3>1 DEF IInv, TypeOK, JSONSelect
      <3>2. CASE call.input \in {"csv", "parquet"} /\ Return("NotImplemented")
        <4>1. Answer(call) = "NotImplemented"
          BY <3>2 DEF Answer
        <4>. QED
          BY <2>1, <3>2, <4>1 DEF IInv, TypeOK, Return, Errors
      <3>3. CASE call.input = "other" /\ Return("InvalidDataSource")
        <4>1. Answer(call) = "InvalidDataSource"
          BY <2>2, <3>3 DEF Answer, JSONSelect
        <4>. QED
          BY <2>1, <3>3, <4>1 DEF IInv, TypeOK, Return, Errors
      <3>. QED
        BY <2>2, <3>1, <3>2, <3>3 DEF JSONSelect
    <2>3. CASE SQLSelect \/ S3SelectSelect
      <3>1. call.impl # "json" /\ Return("NotImplemented")
        BY <2>3 DEF SQLSelect, S3SelectSelect
      <3>2. Answer(call) = "NotImplemented"
        BY <3>1 DEF Answer
      <3>. QED
        BY <2>1, <3>1, <3>2 DEF IInv, TypeOK, Return, Errors
    <2>. QED
      BY <1>3, <2>2, <2>3 DEF Select
  <1>4. ASSUME ParseQuery PROVE IInv'
    <2>1. /\ UNCHANGED <<call, q, log, pos>> /\ pc = "parse"
          /\ call.impl = "json" /\ call.input = "json"
      BY <1>4 DEF ParseQuery, IInv
    <2>2. CASE call.exprType # "SQL" /\ Return("NotImplemented")
      <3>1. Answer(call) = "NotImplemented"
        BY <2>1, <2>2 DEF Answer
      <3>. QED
        BY <2>1, <2>2, <3>1 DEF IInv, TypeOK, Return, Errors
    <2>3. CASE call.exprType = "SQL" /\ ~call.initOK /\ Return("Internal")
      <3>1. Answer(call) = "Internal"
        BY <2>1, <2>3 DEF Answer
      <3>. QED
        BY <2>1, <2>3, <3>1 DEF IInv, TypeOK, Return, Errors
    <2>4. CASE call.exprType = "SQL" /\ call.initOK /\ ~call.syntaxOK /\ Return("UnsupportedSyntax")
      <3>1. Answer(call) = "UnsupportedSyntax"
        BY <2>1, <2>4 DEF Answer
      <3>. QED
        BY <2>1, <2>4, <3>1 DEF IInv, TypeOK, Return, Errors
    <2>5. CASE /\ call.exprType = "SQL" /\ call.initOK /\ call.syntaxOK
               /\ pc' = "execute" /\ UNCHANGED err
      BY <2>1, <2>5 DEF IInv, TypeOK
    <2>. QED
      BY <1>4, <2>2, <2>3, <2>4, <2>5 DEF ParseQuery
  <1>5. ASSUME ExecuteDone PROVE IInv'
    BY <1>5 DEF ExecuteDone, IInv, TypeOK
  <1>6. ASSUME Decode PROVE IInv'
    <2>1. pc = "decode" /\ UNCHANGED <<call, q, log>>
      BY <1>6 DEF Decode
    <2>2. /\ call.impl = "json" /\ call.input = "json"
          /\ call.exprType = "SQL" /\ call.initOK /\ call.syntaxOK
          /\ pos <= Len(call.docs) /\ \A i \in 1..pos : call.docs[i] = "doc"
      BY <2>1 DEF IInv
    <2>3. ~\E i \in DOMAIN q.FromPath : q.FromPath[i].Kind \notin {PathProp, PathArray, PathWildcard}
      BY <1>2 DEF KnownKinds
    <2>4. CASE pos = Len(call.docs) /\ Return("NotImplemented") /\ UNCHANGED pos
      <3>1. ~\E i \in DOMAIN call.docs : call.docs[i] = "bad"
        BY <1>1, <2>2, <2>4
      <3>2. Answer(call) = "NotImplemented"
        BY <2>2, <3>1 DEF Answer
      <3>. QED
        BY <2>1, <2>4, <3>2 DEF Return, IInv, TypeOK, Errors, KnownKinds
    <2>5. CASE pos < Len(call.docs) /\ call.docs[pos + 1] = "bad" /\ Return("Decode")
               /\ UNCHANGED pos
      <3>1. \E i \in DOMAIN call.docs : call.docs[i] = "bad"
        BY <1>1, <2>5
      <3>2. Answer(call) = "Decode"
        BY <2>2, <3>1 DEF Answer
      <3>. QED
        BY <2>1, <2>5, <3>2 DEF Return, IInv, TypeOK, Errors, KnownKinds
    <2>6. CASE pos < Len(call.docs) /\ call.docs[pos + 1] = "doc"
               /\ pos' = pos + 1 /\ UNCHANGED <<pc, err>>
      <3>1. Len(call.docs) <= MaxDocs
        BY <1>1, DocsSeq
      <3>2. call' = call
        BY <2>1
      <3>3. pos' \in 0..MaxDocs /\ pos' <= Len(call'.docs)
        BY <1>1, <2>2, <2>6, <3>1, <3>2, BoundsAssumption
      <3>4. \A i \in 1..pos' : call'.docs[i] = "doc"
        BY <1>1, <2>2, <2>6, <3>2
      <3>. QED
        BY <2>1, <2>6, <3>3, <3>4 DEF IInv, TypeOK, KnownKinds
    <2>. QED
      BY <1>6, <2>3, <2>4, <2>5, <2>6 DEF Decode
  <1>7. ASSUME NEW p \in PathParts, p.Kind \in {PathProp, PathArray, PathWildcard},
               AppendPart(p)
        PROVE  IInv'
    <2> DEFINE query == [q EXCEPT !.currentPath = Append(@, p)]
    <2>2. Append(q.currentPath, p) \in Seq(PathParts) /\ KnownKinds(Append(q.currentPath, p))
      BY <1>2, <1>7, AppendKnown
    <2>3. query = [currentPath |-> Append(q.currentPath, p), Fields |-> q.Fields,
                   FromKind |-> q.FromKind, FromPath |-> q.FromPath, Alias |-> q.Alias]
      BY <1>1, CurrentPathExcept
    <2>4. query \in Queries
      BY <1>1, <2>2, <2>3 DEF Queries
    <2>5. [ev |-> "part", part |-> p] \in LogEntries
      BY DEF LogEntries
    <2>. QED
      BY <1>2, <1>7, <2>2, <2>3, <2>4, <2>5, CallbackIInv DEF AppendPart
  <1>8. ASSUME FromArchiveCb PROVE IInv'
    <2> DEFINE query == [q EXCEPT !.FromKind = FromArchive]
    <2>1. query = [currentPath |-> q.currentPath, Fields |-> q.Fields,
                   FromKind |-> FromArchive, FromPath |-> q.FromPath, Alias |-> q.Alias]
      BY <1>1, FromKindExcept
    <2>2. query \in Queries
      BY <1>1, <2>1 DEF Queries, FromArchive
    <2>3. [ev |-> "other"] \in LogEntries
      BY DEF LogEntries
    <2>. QED
      BY <1>2, <1>8, <2>1, <2>2, <2>3, CallbackIInv DEF FromArchiveCb
  <1>9. ASSUME FromObjectCb PROVE IInv'
    <2> DEFINE query == [EatPath(q) EXCEPT !.FromKind = FromObject]
               R == [currentPath |-> << >>, Fields |-> q.Fields,
                     FromKind |-> FromObject, FromPath |-> q.FromPath, Alias |-> q.Alias]
    <2>1. << >> \in Seq(PathParts) /\ KnownKinds(<< >>)
      BY DEF KnownKinds
    <2>2. query = R
      BY <1>1, EatPathQuery
    <2>3. R \in Queries
      BY <1>1, <2>1 DEF Queries, FromObject
    <2>4. query \in Queries /\ query.currentPath = << >> /\ query.FromPath = q.FromPath
      BY <2>2, <2>3, Zenon
    <2>5. [ev |-> "eat", by |-> "from"] \in LogEntries
      BY DEF LogEntries
    <2>. QED
      BY <1>2, <1>9, <2>1, <2>4, <2>5, CallbackIInv DEF FromObjectCb
  <1>10. ASSUME FromS3ObjectPath PROVE IInv'
    <2> DEFINE E == [currentPath |-> << >>, Fields |-> q.Fields,
                     FromKind |-> q.FromKind, FromPath |-> q.FromPath, Alias |-> q.Alias]
               query == [EatPath(q) EXCEPT !.FromKind = FromS3Object, !.FromPath = q.currentPath]
               R == [currentPath |-> << >>, Fields |-> q.Fields,
                     FromKind |-> FromS3Object, FromPath |-> q.currentPath, Alias |-> q.Alias]
    <2>1. << >> \in Seq(PathParts) /\ KnownKinds(<< >>)
      BY DEF KnownKinds
    <2>2. EatPath(q) = E
      BY <1>1, EatPathQuery
    <2>3. [E EXCEPT !.FromKind = FromS3Object, !.FromPath = q.currentPath] = R
      <3> DEFINE E2 == [currentPath |-> << >>, Fields |-> q.Fields,
                        FromKind |-> FromS3Object, FromPath |-> q.FromPath, Alias |-> q.Alias]
      <3>1. [E EXCEPT !.FromKind = FromS3Object] = E2
        OBVIOUS
      <3>2. [E2 EXCEPT !.FromPath = q.currentPath] = R
        OBVIOUS
      <3>. QED
        BY <3>1, <3>2, Zenon
    <2>4. query = R
      BY <2>2, <2>3, Zenon
    <2>5. R \in Queries
      BY <1>1, <1>2, <2>1 DEF Queries, FromS3Object
    <2>6. query \in Queries /\ query.currentPath = << >> /\ query.FromPath = q.currentPath
      BY <2>4, <2>5, Zenon
    <2>7. [ev |-> "eat", by |-> "fromPath"] \in LogEntries
      BY DEF LogEntries
    <2>. QED
      BY <1>2, <1>10, <2>1, <2>6, <2>7, CallbackIInv DEF FromS3ObjectPath
  <1>11. ASSUME AppendField PROVE IInv'
    <2> DEFINE E == [currentPath |-> << >>, Fields |-> q.Fields,
                     FromKind |-> q.FromKind, FromPath |-> q.FromPath, Alias |-> q.Alias]
               query == [EatPath(q) EXCEPT !.Fields = Append(@, q.currentPath)]
               R == [currentPath |-> << >>, Fields |-> Append(q.Fields, q.currentPath),
                     FromKind |-> q.FromKind, FromPath |-> q.FromPath, Alias |-> q.Alias]
    <2>1. << >> \in Seq(PathParts) /\ KnownKinds(<< >>)
      BY DEF KnownKinds
    <2>2. Append(q.Fields, q.currentPath) \in Seq(Seq(PathParts))
      BY <1>1, <1>2, AppendProperties DEF Queries
    <2>3. EatPath(q) = E
      BY <1>1, EatPathQuery
    <2>4. E \in Queries
      BY <1>1, <2>1 DEF Queries
    <2>5. query = R
      <3>1. query = [E EXCEPT !.Fields = Append(E.Fields, q.currentPath)]
        BY <2>3, Zenon
      <3>2. [E EXCEPT !.Fields = Append(E.Fields, q.currentPath)] = R
        BY <2>4, FieldsExcept
      <3>. QED
        BY <3>1, <3>2, Zenon
    <2>6. R \in Queries
      BY <1>1, <2>1, <2>2 DEF Queries
    <2>7. query \in Queries /\ query.currentPath = << >> /\ query.FromPath = q.FromPath
      BY <2>5, <2>6, Zenon
    <2>8. [ev |-> "eat", by |-> "field"] \in LogEntries
      BY DEF LogEntries
    <2>. QED
      BY <1>2, <1>11, <2>1, <2>7, <2>8, CallbackIInv DEF AppendField
  <1>12. ASSUME NEW t \in Names, RegisterAlias(t) PROVE IInv'
    <2> DEFINE query == [q EXCEPT !.Alias = t]
    <2>1. query = [currentPath |-> q.currentPath, Fields |-> q.Fields,
                   FromKind |-> q.FromKind, FromPath |-> q.FromPath, Alias |-> t]
      BY <1>1, AliasExcept
    <2>2. query \in Queries
      BY <1>1, <2>1 DEF Queries
    <2>3. [ev |-> "other"] \in LogEntries
      BY DEF LogEntries
    <2>. QED
      BY <1>2, <1>12, <2>1, <2>2, <2>3, CallbackIInv DEF RegisterAlias
  <1>13. ASSUME NEW t \in Names, PathObjectPropNoCase(t) \/ PathObjectProp(t) PROVE IInv'
    <2>1. /\ Part(PathProp, 0, t, TRUE) \in PathParts
          /\ Part(PathProp, 0, t, FALSE) \in PathParts
      BY IntBounds DEF Part, PathParts, PathProp
    <2>. QED
      BY <1>7, <1>13, <2>1 DEF PathObjectPropNoCase, PathObjectProp, Part, PathProp
  <1>14. ASSUME PathWildcardIndex PROVE IInv'
    <2>1. Part(PathWildcard, 0, Empty, FALSE) \in PathParts
      BY IntBounds DEF Part, PathParts, PathWildcard
    <2>. QED
      BY <1>7, <1>14, <2>1 DEF PathWildcardIndex, Part, PathWildcard
  <1>15. ASSUME NEW l \in Literals, PathArrayIndex(l) PROVE IInv'
    <2>1. ParseIntClamped(l) \in MinInt..MaxInt
      BY IntBounds, LiteralsAssumption DEF ParseIntClamped
    <2>2. Part(PathArray, ParseIntClamped(l), Empty, FALSE) \in PathParts
      BY <2>1 DEF Part, PathParts, PathArray
    <2>. QED
      BY <1>7, <1>15, <2>2 DEF PathArrayIndex, Part, PathArray
  <1>16. CASE UNCHANGED vars
    BY <1>16 DEF vars, IInv, TypeOK, KnownKinds
  <1>. QED
    BY <1>3, <1>4, <1>5, <1>6, <1>8, <1>9, <1>10, <1>11, <1>12, <1>13, <1>14, <1>15, <1>16 DEF Next

(***************************************************************************)
(* The theorems.                                                           *)
(***************************************************************************)
\* Every state of a Select call is well typed: in particular the parser's
\* callbacks never build a path part with an index outside Go's int.
THEOREM SelectTypeCorrect == Spec => []TypeOK
  <1>1. IInv => TypeOK
    BY DEF IInv
  <1>. QED
    BY <1>1, InitIInv, NextIInv, PTL DEF Spec

\* Every Select call of every Selector ends with the error its arguments
\* decide, whatever callbacks the parser ran: selectJSON's FROM-path walk
\* never reaches its ErrInternal branch, for every int width and bound.
THEOREM SelectOutcomeHolds == Spec => []SelectOutcome
  <1>1. IInv => SelectOutcome
    BY DEF IInv, SelectOutcome
  <1>. QED
    BY <1>1, InitIInv, NextIInv, PTL DEF Spec
=============================================================================
