------------------------- MODULE SelectQueryProofs -------------------------
(***************************************************************************)
(* Proof that the query the builder callbacks leave is the one their       *)
(* history describes (QueryFollowsCallbacks), for every bound.  The        *)
(* history operators of Select take the history as a parameter, so the     *)
(* lemmas below are about a history L and its extension Append(L, entry) *)
(* by one callback, and the step proof instantiates them with log.         *)
(***************************************************************************)
EXTENDS SelectProofs

(***************************************************************************)
(* Lemmas about extending a history by one entry.                          *)
(***************************************************************************)
\* The extended history agrees with L on L's indices and ends with entry.
LEMMA HistAppend ==
  ASSUME NEW L \in Seq(LogEntries), NEW entry \in LogEntries
  PROVE  /\ Append(L, entry) \in Seq(LogEntries)
         /\ Len(Append(L, entry)) = Len(L) + 1
         /\ \A i \in 1..Len(L) : Append(L, entry)[i] = L[i]
         /\ Append(L, entry)[Len(L) + 1] = entry
  BY AppendProperties

\* A new entry is an eat of one clause or of none.
LEMMA EatenAtAppend ==
  ASSUME NEW L \in Seq(LogEntries), NEW entry \in LogEntries, NEW by
  PROVE  /\ Eats(Append(L, entry)) =
              IF entry.ev = "eat" THEN Eats(L) \cup {Len(L) + 1} ELSE Eats(L)
         /\ EatenAt(Append(L, entry), by) =
              IF entry.ev = "eat" /\ entry.by = by THEN EatenAt(L, by) \cup {Len(L) + 1}
              ELSE EatenAt(L, by)
  <1>1. Len(L) \in Nat
    OBVIOUS
  <1>2. Eats(Append(L, entry)) =
          IF entry.ev = "eat" THEN Eats(L) \cup {Len(L) + 1} ELSE Eats(L)
    BY <1>1, HistAppend DEF Eats
  <1>3. /\ \A i \in Eats(L) : i \in Eats(Append(L, entry)) /\ Append(L, entry)[i] = L[i]
        /\ \A i \in Eats(Append(L, entry)) : i \in Eats(L) \/ (i = Len(L) + 1 /\ entry.ev = "eat")
        /\ Append(L, entry)[Len(L) + 1] = entry
    BY <1>1, HistAppend DEF Eats
  <1>4. Len(L) + 1 \notin Eats(L)
    BY <1>1 DEF Eats
  <1>. QED
    BY <1>2, <1>3, <1>4 DEF EatenAt

\* Every set of pending parts is a set of indices of the history.
LEMMA PendingIndices ==
  ASSUME NEW L, NEW i
  PROVE  PendingParts(L, i) \subseteq 1..Len(L)
  BY DEF PendingParts

\* The parts pending at an index of L, or just after it, stay the same.
LEMMA PendingOld ==
  ASSUME NEW L \in Seq(LogEntries), NEW entry \in LogEntries, NEW i \in 1..Len(L) + 1
  PROVE  PendingParts(Append(L, entry), i) = PendingParts(L, i)
  <1> DEFINE L2 == Append(L, entry)
             n == Len(L)
  <1>1. n \in Nat /\ Len(L2) = n + 1 /\ \A j \in 1..n : L2[j] = L[j]
    BY HistAppend
  <1>2. Eats(L) \subseteq Eats(L2) /\ \A k \in Eats(L2) : k <= n => k \in Eats(L)
    BY <1>1 DEF Eats
  <1>. QED
    BY <1>1, <1>2 DEF PendingParts, Eats

\* After a new entry the pending parts are the old ones and the entry when
\* it is a part, none when it is an eat, and the old ones otherwise.
LEMMA PendingNew ==
  ASSUME NEW L \in Seq(LogEntries), NEW entry \in LogEntries
  PROVE  PendingParts(Append(L, entry), Len(L) + 2) =
           IF entry.ev = "part" THEN PendingParts(L, Len(L) + 1) \cup {Len(L) + 1}
           ELSE IF entry.ev = "eat" THEN {}
           ELSE PendingParts(L, Len(L) + 1)
  <1> DEFINE L2 == Append(L, entry)
             n == Len(L)
  <1>1. /\ n \in Nat /\ Len(L2) = n + 1
        /\ \A j \in 1..n : L2[j] = L[j]
        /\ L2[n + 1] = entry
    BY HistAppend
  <1>2. Eats(L2) = IF entry.ev = "eat" THEN Eats(L) \cup {n + 1} ELSE Eats(L)
    BY EatenAtAppend
  <1>3. Eats(L) \subseteq 1..n
    BY DEF Eats
  <1>4. CASE entry.ev = "eat"
    <2>1. n + 1 \in Eats(L2)
      BY <1>2, <1>4
    <2>2. L2[n + 1].ev # "part"
      BY <1>1, <1>4
    <2>3. \A p \in 1..n + 1 : p = n + 1 \/ (p < n + 1 /\ n + 1 < n + 2)
      BY <1>1
    <2>. QED
      BY <1>1, <1>4, <2>1, <2>2, <2>3 DEF PendingParts
  <1>5. CASE entry.ev # "eat"
    BY <1>1, <1>2, <1>3, <1>5 DEF PendingParts
  <1>. QED
    BY <1>4, <1>5

\* A path that lists parts of L lists the same parts of L extended.
LEMMA ListsStable ==
  ASSUME NEW L \in Seq(LogEntries), NEW entry \in LogEntries, NEW path,
         NEW S \in SUBSET (1..Len(L)), ListsParts(L, path, S)
  PROVE  ListsParts(Append(L, entry), path, S)
  <1>1. \A j \in 1..Len(L) : Append(L, entry)[j] = L[j]
    BY HistAppend
  <1>2. PICK e \in [1..Len(path) -> S] :
          Enumerates(e, S) /\ \A k \in 1..Len(path) : path[k] = L[e[k]].part
    BY DEF ListsParts
  <1>3. \A k \in 1..Len(path) : path[k] = Append(L, entry)[e[k]].part
    BY <1>1, <1>2
  <1>. QED
    BY <1>2, <1>3 DEF ListsParts

\* Appending an index above all of S to an enumeration of S enumerates
\* S and that index.
LEMMA EnumAppend ==
  ASSUME NEW n \in Nat, NEW S \in SUBSET (1..n), NEW m \in Nat,
         NEW e \in [1..m -> S], Enumerates(e, S)
  PROVE  /\ Append(e, n + 1) \in [1..m + 1 -> S \cup {n + 1}]
         /\ Enumerates(Append(e, n + 1), S \cup {n + 1})
         /\ \A k \in 1..m : Append(e, n + 1)[k] = e[k]
         /\ Append(e, n + 1)[m + 1] = n + 1
  <1> DEFINE T == S \cup {n + 1}
             f == Append(e, n + 1)
  <1>1. e \in Seq(T) /\ Len(e) = m /\ DOMAIN e = 1..m
    <2>1. e \in Seq(T)
      BY SeqDef
    <2>2. Len(e) \in Nat /\ DOMAIN e = 1..Len(e)
      BY <2>1, LenProperties
    <2>. QED
      BY <2>1, <2>2
  <1>2. /\ f \in Seq(T) /\ Len(f) = m + 1
        /\ \A k \in 1..m : f[k] = e[k]
        /\ f[m + 1] = n + 1
    BY <1>1, AppendProperties
  <1>3. f \in [1..m + 1 -> T] /\ DOMAIN f = 1..m + 1
    BY <1>2, LenProperties
  <1>4. \A j, k \in 1..m + 1 : j < k => f[j] < f[k]
    <2> SUFFICES ASSUME NEW j \in 1..m + 1, NEW k \in 1..m + 1, j < k PROVE f[j] < f[k]
      OBVIOUS
    <2>1. j \in 1..m
      OBVIOUS
    <2>4. f[j] = e[j] /\ e[j] \in S
      BY <1>2, <2>1
    <2>5. e[j] \in 1..n
      BY <2>4
    <2>2. CASE k = m + 1
      <3>1. f[k] = n + 1
        BY <1>2, <2>2
      <3>. QED
        BY <2>4, <2>5, <3>1
    <2>3. CASE k \in 1..m
      BY <1>1, <1>2, <2>1, <2>3, <2>4 DEF Enumerates
    <2>. QED
      BY <2>2, <2>3
  <1>5. \A s \in T : \E k \in 1..m + 1 : f[k] = s
    BY <1>1, <1>2 DEF Enumerates
  <1>6. Enumerates(f, T)
    BY <1>3, <1>4, <1>5 DEF Enumerates
  <1>. QED
    BY <1>2, <1>3, <1>6

\* A new part entry extends a path that lists parts of L.
LEMMA ListsAppend ==
  ASSUME NEW L \in Seq(LogEntries), NEW entry \in LogEntries, entry.ev = "part",
         NEW path \in Seq(PathParts), NEW S \in SUBSET (1..Len(L)), ListsParts(L, path, S)
  PROVE  ListsParts(Append(L, entry), Append(path, entry.part), S \cup {Len(L) + 1})
  <1> DEFINE L2 == Append(L, entry)
             n == Len(L)
             m == Len(path)
  <1>1. /\ n \in Nat
        /\ \A j \in 1..n : L2[j] = L[j]
        /\ L2[n + 1] = entry
    BY HistAppend
  <1>2. PICK e \in [1..m -> S] :
          Enumerates(e, S) /\ \A k \in 1..m : path[k] = L[e[k]].part
    BY DEF ListsParts
  <1>3. /\ Append(e, n + 1) \in [1..m + 1 -> S \cup {n + 1}]
        /\ Enumerates(Append(e, n + 1), S \cup {n + 1})
        /\ \A k \in 1..m : Append(e, n + 1)[k] = e[k]
        /\ Append(e, n + 1)[m + 1] = n + 1
    <2>1. m \in Nat /\ S \subseteq 1..n
      BY <1>1
    <2>. QED
      BY <1>1, <1>2, <2>1, EnumAppend
  <1>4. Len(Append(path, entry.part)) = m + 1
        /\ \A k \in 1..m : Append(path, entry.part)[k] = path[k]
        /\ Append(path, entry.part)[m + 1] = entry.part
    <2>1. entry.part \in PathParts
      BY DEF LogEntries
    <2>. QED
      BY <2>1, AppendProperties
  <1>5. \A k \in 1..m + 1 : Append(path, entry.part)[k] = L2[Append(e, n + 1)[k]].part
    <2> SUFFICES ASSUME NEW k \in 1..m + 1
                 PROVE  Append(path, entry.part)[k] = L2[Append(e, n + 1)[k]].part
      OBVIOUS
    <2>1. CASE k \in 1..m
      <3>1. Append(e, n + 1)[k] = e[k] /\ e[k] \in S
        BY <1>3, <2>1
      <3>2. e[k] \in 1..n
        BY <3>1
      <3>3. L2[e[k]] = L[e[k]]
        BY <1>1, <3>2
      <3>. QED
        BY <1>2, <1>4, <2>1, <3>1, <3>3
    <2>2. CASE k = m + 1
      BY <1>1, <1>3, <1>4, <2>2
    <2>3. k \in 1..m \/ k = m + 1
      <3>1. m \in Nat
        BY LenProperties
      <3>. QED
        BY <3>1
    <2>. QED
      BY <2>1, <2>2, <2>3, Zenon
  <1>. QED
    BY <1>3, <1>4, <1>5 DEF ListsParts

\* The empty path lists no parts.
LEMMA ListsEmpty ==
  ASSUME NEW L
  PROVE  ListsParts(L, << >>, {})
  <1>1. << >> \in [1..Len(<< >>) -> {}] /\ Enumerates(<< >>, {})
    BY DEF Enumerates
  <1>. QED
    BY <1>1 DEF ListsParts

(***************************************************************************)
(* One lemma per conjunct of Follows and per kind of entry: how a          *)
(* callback that appends entry to the history and leaves query Q2 where    *)
(* there was Q keeps the conjunct.                                         *)
(***************************************************************************)
\* A path listing the parts pending at an index of L, or just after it,
\* lists the same parts of L extended.
LEMMA PendingListsStable ==
  ASSUME NEW L \in Seq(LogEntries), NEW entry \in LogEntries, NEW path,
         NEW i \in 1..Len(L) + 1, ListsParts(L, path, PendingParts(L, i))
  PROVE  ListsParts(Append(L, entry), path, PendingParts(Append(L, entry), i))
  BY PendingOld, PendingIndices, ListsStable

\* A callback that is not a field eat keeps the fields.
LEMMA FieldsKept ==
  ASSUME NEW L \in Seq(LogEntries), NEW entry \in LogEntries,
         NEW Q \in Queries, NEW Q2 \in Queries,
         ~(entry.ev = "eat" /\ entry.by = "field"), Q2.Fields = Q.Fields,
         FieldsFollow(L, Q)
  PROVE  FieldsFollow(Append(L, entry), Q2)
  <1> DEFINE L2 == Append(L, entry)
             E == EatenAt(L, "field")
  <1>1. EatenAt(L2, "field") = E
    BY EatenAtAppend
  <1>2. PICK fe \in [1..Len(Q.Fields) -> E] :
          /\ Enumerates(fe, E)
          /\ \A k \in 1..Len(Q.Fields) : ListsParts(L, Q.Fields[k], PendingParts(L, fe[k]))
    BY DEF FieldsFollow
  <1>3. \A k \in 1..Len(Q.Fields) : fe[k] \in 1..Len(L) + 1
    BY <1>2 DEF EatenAt, Eats
  <1>4. \A k \in 1..Len(Q.Fields) : ListsParts(L2, Q.Fields[k], PendingParts(L2, fe[k]))
    BY <1>2, <1>3, PendingListsStable
  <1>. QED
    BY <1>1, <1>2, <1>4 DEF FieldsFollow

\* A field eat adds the current path as the last field.
LEMMA FieldsAdded ==
  ASSUME NEW L \in Seq(LogEntries), NEW entry \in LogEntries,
         NEW Q \in Queries, NEW Q2 \in Queries,
         entry.ev = "eat", entry.by = "field", Q2.Fields = Append(Q.Fields, Q.currentPath),
         FieldsFollow(L, Q), CurrentPathFollows(L, Q)
  PROVE  FieldsFollow(Append(L, entry), Q2)
  <1> DEFINE L2 == Append(L, entry)
             n == Len(L)
             E == EatenAt(L, "field")
             m == Len(Q.Fields)
  <1>1. EatenAt(L2, "field") = E \cup {n + 1}
    BY EatenAtAppend
  <1>2. PICK fe \in [1..m -> E] :
          /\ Enumerates(fe, E)
          /\ \A k \in 1..m : ListsParts(L, Q.Fields[k], PendingParts(L, fe[k]))
    BY DEF FieldsFollow
  <1>3. n \in Nat /\ m \in Nat /\ E \subseteq 1..n
    BY LenProperties DEF Queries, EatenAt, Eats
  <1>4. /\ Append(fe, n + 1) \in [1..m + 1 -> E \cup {n + 1}]
        /\ Enumerates(Append(fe, n + 1), E \cup {n + 1})
        /\ \A k \in 1..m : Append(fe, n + 1)[k] = fe[k]
        /\ Append(fe, n + 1)[m + 1] = n + 1
    BY <1>2, <1>3, EnumAppend
  <1>5. /\ Len(Q2.Fields) = m + 1
        /\ \A k \in 1..m : Q2.Fields[k] = Q.Fields[k]
        /\ Q2.Fields[m + 1] = Q.currentPath
    BY AppendProperties DEF Queries
  <1>6. \A k \in 1..m : ListsParts(L2, Q2.Fields[k], PendingParts(L2, Append(fe, n + 1)[k]))
    <2>1. \A k \in 1..m : fe[k] \in 1..n + 1
      BY <1>2, <1>3
    <2>. QED
      BY <1>2, <1>4, <1>5, <2>1, PendingListsStable
  <1>7. ListsParts(L2, Q2.Fields[m + 1], PendingParts(L2, Append(fe, n + 1)[m + 1]))
    <2>1. ListsParts(L, Q.currentPath, PendingParts(L, n + 1))
      BY DEF CurrentPathFollows
    <2>2. n + 1 \in 1..n + 1
      BY <1>3
    <2>. QED
      BY <1>4, <1>5, <2>1, <2>2, PendingListsStable
  <1>8. \A k \in 1..Len(Q2.Fields) :
          ListsParts(L2, Q2.Fields[k], PendingParts(L2, Append(fe, n + 1)[k]))
    BY <1>3, <1>5, <1>6, <1>7
  <1>. QED
    BY <1>1, <1>4, <1>5, <1>8 DEF FieldsFollow

\* A callback that is not a FromS3ObjectPath keeps the FROM path.
LEMMA FromPathKept ==
  ASSUME NEW L \in Seq(LogEntries), NEW entry \in LogEntries,
         NEW Q \in Queries, NEW Q2 \in Queries,
         ~(entry.ev = "eat" /\ entry.by = "fromPath"), Q2.FromPath = Q.FromPath,
         FromPathFollows(L, Q)
  PROVE  FromPathFollows(Append(L, entry), Q2)
  <1> DEFINE L2 == Append(L, entry)
             E == EatenAt(L, "fromPath")
  <1>1. EatenAt(L2, "fromPath") = E
    BY EatenAtAppend
  <1>2. CASE E = {}
    BY <1>1, <1>2 DEF FromPathFollows
  <1>3. CASE E # {}
    <2>1. PICK i \in E : /\ \A j \in E : j <= i
                        /\ ListsParts(L, Q.FromPath, PendingParts(L, i))
      BY <1>3 DEF FromPathFollows
    <2>2. i \in 1..Len(L) + 1
      BY DEF EatenAt, Eats
    <2>3. ListsParts(L2, Q2.FromPath, PendingParts(L2, i))
      BY <2>1, <2>2, PendingListsStable
    <2>. QED
      BY <1>1, <1>3, <2>1, <2>3 DEF FromPathFollows
  <1>. QED
    BY <1>2, <1>3

\* FromS3ObjectPath makes the current path the FROM path.
LEMMA FromPathSet ==
  ASSUME NEW L \in Seq(LogEntries), NEW entry \in LogEntries,
         NEW Q \in Queries, NEW Q2 \in Queries,
         entry.ev = "eat", entry.by = "fromPath", Q2.FromPath = Q.currentPath,
         CurrentPathFollows(L, Q)
  PROVE  FromPathFollows(Append(L, entry), Q2)
  <1> DEFINE L2 == Append(L, entry)
             n == Len(L)
  <1>1. EatenAt(L2, "fromPath") = EatenAt(L, "fromPath") \cup {n + 1}
    BY EatenAtAppend
  <1>2. \A j \in EatenAt(L2, "fromPath") : j <= n + 1
    BY <1>1 DEF EatenAt, Eats
  <1>3. ListsParts(L2, Q2.FromPath, PendingParts(L2, n + 1))
    BY PendingListsStable DEF CurrentPathFollows
  <1>. QED
    BY <1>1, <1>2, <1>3 DEF FromPathFollows

\* A part extends the current path.
LEMMA CurrentPathPart ==
  ASSUME NEW L \in Seq(LogEntries), NEW entry \in LogEntries,
         NEW Q \in Queries, NEW Q2 \in Queries,
         entry.ev = "part", Q2.currentPath = Append(Q.currentPath, entry.part),
         CurrentPathFollows(L, Q)
  PROVE  CurrentPathFollows(Append(L, entry), Q2)
  <1>1. Len(Append(L, entry)) + 1 = Len(L) + 2
    BY HistAppend
  <1>2. PendingParts(Append(L, entry), Len(L) + 2) = PendingParts(L, Len(L) + 1) \cup {Len(L) + 1}
    BY PendingNew
  <1>3. ListsParts(Append(L, entry), Append(Q.currentPath, entry.part),
                   PendingParts(L, Len(L) + 1) \cup {Len(L) + 1})
    BY PendingIndices, ListsAppend DEF CurrentPathFollows, Queries
  <1>. QED
    BY <1>1, <1>2, <1>3 DEF CurrentPathFollows

\* An entry that neither reports a part nor eats keeps the current path.
LEMMA CurrentPathOther ==
  ASSUME NEW L \in Seq(LogEntries), NEW entry \in LogEntries,
         NEW Q \in Queries, NEW Q2 \in Queries,
         entry.ev = "other", Q2.currentPath = Q.currentPath,
         CurrentPathFollows(L, Q)
  PROVE  CurrentPathFollows(Append(L, entry), Q2)
  <1>1. Len(Append(L, entry)) + 1 = Len(L) + 2
    BY HistAppend
  <1>2. PendingParts(Append(L, entry), Len(L) + 2) = PendingParts(L, Len(L) + 1)
    BY PendingNew
  <1>. QED
    BY <1>1, <1>2, PendingIndices, ListsStable DEF CurrentPathFollows

\* An eat leaves the current path empty, and nothing is pending after it.
LEMMA CurrentPathEaten ==
  ASSUME NEW L \in Seq(LogEntries), NEW entry \in LogEntries,
         NEW Q \in Queries, NEW Q2 \in Queries,
         entry.ev = "eat", Q2.currentPath = << >>
  PROVE  CurrentPathFollows(Append(L, entry), Q2)
  <1>1. Len(Append(L, entry)) + 1 = Len(L) + 2
    BY HistAppend
  <1>2. PendingParts(Append(L, entry), Len(L) + 2) = {}
    BY PendingNew
  <1>. QED
    BY <1>1, <1>2, ListsEmpty DEF CurrentPathFollows

(***************************************************************************)
(* The step: one builder callback appends its entry to the history, and    *)
(* leaves a query whose three paths are related to the old ones in one of *)
(* five ways, one per kind of entry.                                       *)
(***************************************************************************)
LEMMA CallbackFollows ==
  ASSUME IInv, QueryFollowsCallbacks,
         NEW query \in Queries, NEW entry \in LogEntries, Callback(query, entry),
         \/ /\ entry.ev = "part" /\ query.currentPath = Append(q.currentPath, entry.part)
            /\ query.Fields = q.Fields /\ query.FromPath = q.FromPath
         \/ /\ entry.ev = "other" /\ query.currentPath = q.currentPath
            /\ query.Fields = q.Fields /\ query.FromPath = q.FromPath
         \/ /\ entry.ev = "eat" /\ entry.by = "from" /\ query.currentPath = << >>
            /\ query.Fields = q.Fields /\ query.FromPath = q.FromPath
         \/ /\ entry.ev = "eat" /\ entry.by = "fromPath" /\ query.currentPath = << >>
            /\ query.Fields = q.Fields /\ query.FromPath = q.currentPath
         \/ /\ entry.ev = "eat" /\ entry.by = "field" /\ query.currentPath = << >>
            /\ query.Fields = Append(q.Fields, q.currentPath) /\ query.FromPath = q.FromPath
  PROVE  QueryFollowsCallbacks'
  <1>1. log \in Seq(LogEntries) /\ q \in Queries
    BY DEF IInv, TypeOK, LogEntries
  <1>2. FieldsFollow(log, q) /\ FromPathFollows(log, q) /\ CurrentPathFollows(log, q)
    BY DEF QueryFollowsCallbacks, Follows
  <1>3. SUFFICES /\ FieldsFollow(Append(log, entry), query)
                 /\ FromPathFollows(Append(log, entry), query)
                 /\ CurrentPathFollows(Append(log, entry), query)
    BY DEF QueryFollowsCallbacks, Follows, Callback
  <1>4. FieldsFollow(Append(log, entry), query)
    BY <1>1, <1>2, FieldsKept, FieldsAdded
  <1>5. FromPathFollows(Append(log, entry), query)
    BY <1>1, <1>2, FromPathKept, FromPathSet
  <1>6. CurrentPathFollows(Append(log, entry), query)
    BY <1>1, <1>2, CurrentPathPart, CurrentPathOther, CurrentPathEaten
  <1>. QED
    BY <1>4, <1>5, <1>6

LEMMA NextFollows == IInv /\ QueryFollowsCallbacks /\ [Next]_vars => QueryFollowsCallbacks'
  <1> SUFFICES ASSUME IInv, QueryFollowsCallbacks, [Next]_vars PROVE QueryFollowsCallbacks'
    OBVIOUS
  <1>1. q \in Queries /\ q.currentPath \in Seq(PathParts) /\ q.Fields \in Seq(Seq(PathParts))
    BY DEF IInv, TypeOK, Queries
  <1>2. CASE Select \/ ParseQuery \/ ExecuteDone \/ Decode \/ UNCHANGED vars
    BY <1>2 DEF Select, ParseQuery, ExecuteDone, Decode, vars, QueryFollowsCallbacks
  <1>3. ASSUME NEW p \in PathParts, AppendPart(p) PROVE QueryFollowsCallbacks'
    <2> DEFINE query == [q EXCEPT !.currentPath = Append(@, p)]
               R == [currentPath |-> Append(q.currentPath, p), Fields |-> q.Fields,
                     FromKind |-> q.FromKind, FromPath |-> q.FromPath, Alias |-> q.Alias]
               entry == [ev |-> "part", part |-> p]
    <2>1. query = R
      BY <1>1, CurrentPathExcept
    <2>2. R \in Queries
      BY <1>1, AppendProperties DEF Queries
    <2>3. /\ query \in Queries
          /\ query.currentPath = Append(q.currentPath, entry.part)
          /\ query.Fields = q.Fields /\ query.FromPath = q.FromPath
      BY <2>1, <2>2, Zenon
    <2>4. entry \in LogEntries /\ entry.ev = "part"
      BY DEF LogEntries
    <2>. QED
      BY <1>3, <2>3, <2>4, CallbackFollows DEF AppendPart
  <1>4. ASSUME FromArchiveCb PROVE QueryFollowsCallbacks'
    <2> DEFINE query == [q EXCEPT !.FromKind = FromArchive]
               R == [currentPath |-> q.currentPath, Fields |-> q.Fields,
                     FromKind |-> FromArchive, FromPath |-> q.FromPath, Alias |-> q.Alias]
    <2>1. query = R
      BY <1>1, FromKindExcept
    <2>2. R \in Queries
      BY <1>1 DEF Queries, FromArchive
    <2>3. /\ query \in Queries /\ query.currentPath = q.currentPath
          /\ query.Fields = q.Fields /\ query.FromPath = q.FromPath
      BY <2>1, <2>2, Zenon
    <2>4. [ev |-> "other"] \in LogEntries
      BY DEF LogEntries
    <2>. QED
      BY <1>4, <2>3, <2>4, CallbackFollows DEF FromArchiveCb
  <1>5. ASSUME NEW t \in Names, RegisterAlias(t) PROVE QueryFollowsCallbacks'
    <2> DEFINE query == [q EXCEPT !.Alias = t]
               R == [currentPath |-> q.currentPath, Fields |-> q.Fields,
                     FromKind |-> q.FromKind, FromPath |-> q.FromPath, Alias |-> t]
    <2>1. query = R
      BY <1>1, AliasExcept
    <2>2. R \in Queries
      BY <1>1 DEF Queries
    <2>3. /\ query \in Queries /\ query.currentPath = q.currentPath
          /\ query.Fields = q.Fields /\ query.FromPath = q.FromPath
      BY <2>1, <2>2, Zenon
    <2>4. [ev |-> "other"] \in LogEntries
      BY DEF LogEntries
    <2>. QED
      BY <1>5, <2>3, <2>4, CallbackFollows DEF RegisterAlias
  <1>6. ASSUME FromObjectCb PROVE QueryFollowsCallbacks'
    <2> DEFINE query == [EatPath(q) EXCEPT !.FromKind = FromObject]
               R == [currentPath |-> << >>, Fields |-> q.Fields,
                     FromKind |-> FromObject, FromPath |-> q.FromPath, Alias |-> q.Alias]
    <2>1. query = R
      BY <1>1, EatPathQuery
    <2>2. R \in Queries
      BY <1>1 DEF Queries, FromObject
    <2>3. /\ query \in Queries /\ query.currentPath = << >>
          /\ query.Fields = q.Fields /\ query.FromPath = q.FromPath
      BY <2>1, <2>2, Zenon
    <2>4. [ev |-> "eat", by |-> "from"] \in LogEntries
      BY DEF LogEntries
    <2>. QED
      BY <1>6, <2>3, <2>4, CallbackFollows DEF FromObjectCb
  <1>7. ASSUME FromS3ObjectPath PROVE QueryFollowsCallbacks'
    <2> DEFINE E == [currentPath |-> << >>, Fields |-> q.Fields,
                     FromKind |-> q.FromKind, FromPath |-> q.FromPath, Alias |-> q.Alias]
               E2 == [currentPath |-> << >>, Fields |-> q.Fields,
                      FromKind |-> FromS3Object, FromPath |-> q.FromPath, Alias |-> q.Alias]
               query == [EatPath(q) EXCEPT !.FromKind = FromS3Object, !.FromPath = q.currentPath]
               R == [currentPath |-> << >>, Fields |-> q.Fields,
                     FromKind |-> FromS3Object, FromPath |-> q.currentPath, Alias |-> q.Alias]
    <2>1. EatPath(q) = E
      BY <1>1, EatPathQuery
    <2>2. [E EXCEPT !.FromKind = FromS3Object] = E2 /\ [E2 EXCEPT !.FromPath = q.currentPath] = R
      OBVIOUS
    <2>3. query = R
      BY <2>1, <2>2, Zenon
    <2>4. R \in Queries
      BY <1>1 DEF Queries, FromS3Object
    <2>5. /\ query \in Queries /\ query.currentPath = << >>
          /\ query.Fields = q.Fields /\ query.FromPath = q.currentPath
      BY <2>3, <2>4, Zenon
    <2>6. [ev |-> "eat", by |-> "fromPath"] \in LogEntries
      BY DEF LogEntries
    <2>. QED
      BY <1>7, <2>5, <2>6, CallbackFollows DEF FromS3ObjectPath
  <1>8. ASSUME AppendField PROVE QueryFollowsCallbacks'
    <2> DEFINE E == [currentPath |-> << >>, Fields |-> q.Fields,
                     FromKind |-> q.FromKind, FromPath |-> q.FromPath, Alias |-> q.Alias]
               query == [EatPath(q) EXCEPT !.Fields = Append(@, q.currentPath)]
               R == [currentPath |-> << >>, Fields |-> Append(q.Fields, q.currentPath),
                     FromKind |-> q.FromKind, FromPath |-> q.FromPath, Alias |-> q.Alias]
    <2>1. EatPath(q) = E
      BY <1>1, EatPathQuery
    <2>2. [E EXCEPT !.Fields = Append(@, q.currentPath)] = R
      OBVIOUS
    <2>3. query = R
      BY <2>1, <2>2, Zenon
    <2>4. R \in Queries
      BY <1>1, AppendProperties DEF Queries
    <2>5. /\ query \in Queries /\ query.currentPath = << >>
          /\ query.Fields = Append(q.Fields, q.currentPath) /\ query.FromPath = q.FromPath
      BY <2>3, <2>4, Zenon
    <2>6. [ev |-> "eat", by |-> "field"] \in LogEntries
      BY DEF LogEntries
    <2>. QED
      BY <1>8, <2>5, <2>6, CallbackFollows DEF AppendField
  <1>9. ASSUME NEW t \in Names, PathObjectPropNoCase(t) \/ PathObjectProp(t)
        PROVE  QueryFollowsCallbacks'
    <2>1. /\ Part(PathProp, 0, t, TRUE) \in PathParts
          /\ Part(PathProp, 0, t, FALSE) \in PathParts
      BY IntBounds DEF Part, PathParts, PathProp
    <2>. QED
      BY <1>3, <1>9, <2>1 DEF PathObjectPropNoCase, PathObjectProp
  <1>10. ASSUME PathWildcardIndex PROVE QueryFollowsCallbacks'
    <2>1. Part(PathWildcard, 0, Empty, FALSE) \in PathParts
      BY IntBounds DEF Part, PathParts, PathWildcard
    <2>. QED
      BY <1>3, <1>10, <2>1 DEF PathWildcardIndex
  <1>11. ASSUME NEW l \in Literals, PathArrayIndex(l) PROVE QueryFollowsCallbacks'
    <2>1. ParseIntClamped(l) \in MinInt..MaxInt
      BY IntBounds, LiteralsAssumption DEF ParseIntClamped
    <2>2. Part(PathArray, ParseIntClamped(l), Empty, FALSE) \in PathParts
      BY <2>1 DEF Part, PathParts, PathArray
    <2>. QED
      BY <1>3, <1>11, <2>2 DEF PathArrayIndex
  <1>. QED
    BY <1>2, <1>3, <1>4, <1>5, <1>6, <1>7, <1>8, <1>9, <1>10, <1>11 DEF Next

LEMMA InitFollows == Init => QueryFollowsCallbacks
  <1> SUFFICES ASSUME Init PROVE QueryFollowsCallbacks
    OBVIOUS
  <1>1. Len(log) = 0 /\ EatenAt(log, "field") = {} /\ EatenAt(log, "fromPath") = {}
        /\ PendingParts(log, 1) = {}
    BY DEF Init, EatenAt, Eats, PendingParts
  <1>2. NewQuery.Fields = << >> /\ NewQuery.FromPath = << >> /\ NewQuery.currentPath = << >>
    BY DEF NewQuery
  <1>3. FieldsFollow(log, q)
    <2>1. << >> \in [1..0 -> {}] /\ Enumerates(<< >>, {})
      BY DEF Enumerates
    <2>. QED
      BY <1>1, <1>2, <2>1 DEF Init, FieldsFollow
  <1>4. FromPathFollows(log, q)
    BY <1>1, <1>2 DEF Init, FromPathFollows
  <1>5. CurrentPathFollows(log, q)
    <2>1. ListsParts(log, << >>, {})
      BY ListsEmpty
    <2>. QED
      BY <1>1, <1>2, <2>1 DEF Init, CurrentPathFollows
  <1>. QED
    BY <1>3, <1>4, <1>5 DEF QueryFollowsCallbacks, Follows

(***************************************************************************)
(* The theorem.                                                            *)
(***************************************************************************)
\* The query the parser's callbacks leave is the one their history builds:
\* each SELECT field holds exactly the path parts reported since the
\* previous clause (eatPath after every appendPart), in order, the FROM path
\* those before the last FromS3ObjectPath, the current path those since the
\* last clause.
THEOREM QueryFollowsCallbacksHolds == Spec => []QueryFollowsCallbacks
  <1>1. Spec => []IInv
    BY InitIInv, NextIInv, PTL DEF Spec
  <1>2. Init /\ [][Next]_vars /\ []IInv => []QueryFollowsCallbacks
    BY InitFollows, NextFollows, PTL
  <1>. QED
    BY <1>1, <1>2, PTL DEF Spec
=============================================================================
