-------------------------- MODULE MultipartProofs --------------------------
(***************************************************************************)
(* Proofs about Multipart, for every value of its constants.               *)
(***************************************************************************)
EXTENDS Multipart, TLAPS

(***************************************************************************)
(* Lemmas on the operators the uploader model is built from.               *)
(***************************************************************************)

\* The empty parts table is a parts table.
LEMMA EmptyTableType == EmptyTable \in PartTables
  <1>1. EmptyTable \in [{} -> Bodies]
    BY DEF EmptyTable
  <1>2. {} \in SUBSET PartNumbers
    OBVIOUS
  <1>. QED
    BY <1>1, <1>2 DEF PartTables

\* AddPart keeps a parts table a parts table.
LEMMA AddPartType ==
  ASSUME NEW p \in PartTables, NEW pn \in PartNumbers, NEW d \in Bodies
  PROVE  AddPart(p, pn, d) \in PartTables
  <1>1. PICK S \in SUBSET PartNumbers : p \in [S -> Bodies]
    BY DEF PartTables
  <1>2. AddPart(p, pn, d) \in [S \cup {pn} -> Bodies]
    BY <1>1 DEF AddPart
  <1>3. S \cup {pn} \in SUBSET PartNumbers
    BY <1>1
  <1>. QED
    BY <1>2, <1>3 DEF PartTables

\* The body Reassemble returns is a sequence of payloads.
LEMMA ReassembledType ==
  ASSUME NEW p \in PartTables, NEW list \in Seq(CompletePart),
         ReassembleOK(p, list)
  PROVE  Reassembled(p, list) \in Seq(Bodies)
  <1>1. PICK S \in SUBSET PartNumbers : p \in [S -> Bodies]
    BY DEF PartTables
  <1>2. \A i \in 1..Len(list) : p[list[i].pn] \in Bodies
    BY <1>1 DEF ReassembleOK
  <1>. QED
    BY <1>2 DEF Reassembled

\* The locals of an idle request are well typed.
LEMMA IdleReqType == IdleReq \in ReqRec
  BY EmptyTableType, NoneAssumption DEF IdleReq, ReqRec, NoUpload

\* The locals putMultipartUploadPart and completeMultipartUpload store.
LEMMA PartReqType ==
  ASSUME NEW b \in Buckets, NEW k \in Keys, NEW id \in Nat, NEW pn \in Nat
  PROVE  [IdleReq EXCEPT !.bucket = b, !.key = k, !.id = id, !.pn = pn] \in ReqRec
  BY IdleReqType DEF ReqRec

LEMMA CompleteReqType ==
  ASSUME NEW b \in Buckets, NEW k \in Keys, NEW id \in Nat,
         NEW list \in Seq(CompletePart), NEW snap \in PartTables
  PROVE  [IdleReq EXCEPT !.bucket = b, !.key = k, !.id = id, !.list = list,
                         !.snap = snap] \in ReqRec
  BY IdleReqType DEF ReqRec

\* The locals a successful Reassemble leaves to the PutObject step.
LEMMA ReassembledReqType ==
  ASSUME NEW r \in ReqRec, NEW a \in Seq(Bodies)
  PROVE  [r EXCEPT !.asm = a, !.list = << >>, !.snap = EmptyTable] \in ReqRec
  <1>1. << >> \in Seq(CompletePart)
    OBVIOUS
  <1>. QED
    BY <1>1, EmptyTableType DEF ReqRec

(***************************************************************************)
(* Type correctness.  TypeOK alone is not inductive: a step that uses a    *)
(* request's locals needs them to be those its earlier step stored.        *)
(***************************************************************************)
ReqInv ==
  \A c \in Clients :
    /\ pc[c] # "idle" => req[c].bucket \in Buckets /\ req[c].key \in Keys
    /\ pc[c] \in {"partAdd", "cmpReassemble", "cmpPut"} =>
         req[c].id \in 1..(nextId - 1)
    /\ pc[c] = "partAdd" => req[c].pn \in PartNumbers

IInv == TypeOK /\ ReqInv

LEMMA InitIInv == Init => IInv
  <1> SUFFICES ASSUME Init PROVE IInv
    OBVIOUS
  <1>1. TypeOK
    BY IdleReqType DEF Init, TypeOK, EmptyBucket, Steps
  <1>2. ReqInv
    BY DEF Init, ReqInv
  <1>. QED
    BY <1>1, <1>2 DEF IInv

\* A step that leaves the requests and the ID counter alone keeps ReqInv.
LEMMA ReqInvFrame ==
  ASSUME ReqInv, UNCHANGED <<pc, req, nextId>>
  PROVE  ReqInv'
  BY DEF ReqInv

\* A step of the backend alone keeps the uploader's and the requests' types.
LEMMA BackendFrame ==
  ASSUME TypeOK, UNCHANGED <<registry, uploads, nextId, pc, req, ended>>,
         buckets' \subseteq Buckets,
         objects' \in [Buckets -> [Keys -> ObjectRec \cup {None}]]
  PROVE  TypeOK'
  BY DEF TypeOK

LEMMA NextIInv == IInv /\ [Next]_vars => IInv'
  <1> SUFFICES ASSUME TypeOK, ReqInv, [Next]_vars PROVE TypeOK' /\ ReqInv'
    BY DEF IInv
  <1>1. ASSUME NEW b \in Buckets, CreateBucket(b) PROVE TypeOK' /\ ReqInv'
    <2>1. objects' \in [Buckets -> [Keys -> ObjectRec \cup {None}]]
      BY <1>1 DEF TypeOK, CreateBucket, EmptyBucket
    <2>. QED
      BY <1>1, <2>1, BackendFrame, ReqInvFrame DEF TypeOK, CreateBucket
  <1>2. ASSUME NEW b \in Buckets, DeleteBucket(b) PROVE TypeOK' /\ ReqInv'
    BY <1>2, BackendFrame, ReqInvFrame DEF TypeOK, DeleteBucket
  <1>3. ASSUME NEW b \in Buckets, NEW ks \in SUBSET Keys, DeleteMulti(b, ks)
        PROVE  TypeOK' /\ ReqInv'
    <2>1. objects' \in [Buckets -> [Keys -> ObjectRec \cup {None}]]
      BY <1>3 DEF TypeOK, DeleteMulti
    <2>. QED
      BY <1>3, <2>1, BackendFrame, ReqInvFrame DEF TypeOK, DeleteMulti
  <1>4. ASSUME NEW b \in Buckets, NEW k \in Keys, DeleteObject(b, k)
        PROVE  TypeOK' /\ ReqInv'
    <2>1. objects' \in [Buckets -> [Keys -> ObjectRec \cup {None}]]
      BY <1>4 DEF TypeOK, DeleteObject
    <2>. QED
      BY <1>4, <2>1, BackendFrame, ReqInvFrame DEF TypeOK, DeleteObject
  <1>5. ASSUME NEW b \in Buckets, NEW k \in Keys, NEW d \in Bodies, PutObject(b, k, d)
        PROVE  TypeOK' /\ ReqInv'
    <2>1. [content |-> <<d>>, from |-> NoUpload] \in ObjectRec
      BY DEF ObjectRec, NoUpload
    <2>2. objects' \in [Buckets -> [Keys -> ObjectRec \cup {None}]]
      BY <1>5, <2>1 DEF TypeOK, PutObject
    <2>. QED
      BY <1>5, <2>2, BackendFrame, ReqInvFrame DEF TypeOK, PutObject
  <1>6. ASSUME NEW b \in Buckets, NEW k \in Keys, NEW id \in UploadIdInput,
               AbortMultipartUpload(b, k, id)
        PROVE  TypeOK' /\ ReqInv'
    BY <1>6, ReqInvFrame DEF TypeOK, AbortMultipartUpload, UploadFound, Unregistered
  <1>7. ASSUME NEW c \in Clients, NEW b \in Buckets, NEW k \in Keys,
               InitiateMultipartUpload(c, b, k)
        PROVE  TypeOK' /\ ReqInv'
    <2>1. [IdleReq EXCEPT !.bucket = b, !.key = k] \in ReqRec
      BY IdleReqType DEF ReqRec
    <2>2. TypeOK'
      BY <1>7, <2>1 DEF TypeOK, InitiateMultipartUpload, Steps
    <2>3. ReqInv'
      BY <1>7 DEF TypeOK, ReqInv, InitiateMultipartUpload, IdleReq
    <2>. QED
      BY <2>2, <2>3
  <1>8. ASSUME NEW c \in Clients, NEW b \in Buckets, NEW k \in Keys,
               NEW id \in UploadIdInput, NEW pn \in PartNumberInput,
               PutMultipartUploadPart(c, b, k, id, pn)
        PROVE  TypeOK' /\ ReqInv'
    <2>1. pn \in PartNumbers /\ id \in 1..(nextId - 1)
      BY <1>8 DEF TypeOK, PutMultipartUploadPart, PartNumberValid, PartNumbers,
                  PartNumberInput, UploadFound
    <2>2. [IdleReq EXCEPT !.bucket = b, !.key = k, !.id = id, !.pn = pn] \in ReqRec
      <3>1. id \in Nat /\ pn \in Nat
        BY <2>1 DEF TypeOK, PartNumbers
      <3>. QED
        BY <3>1, PartReqType
    <2>3. TypeOK'
      BY <1>8, <2>2 DEF TypeOK, PutMultipartUploadPart, Steps
    <2>4. ReqInv'
      BY <1>8, <2>1 DEF TypeOK, ReqInv, PutMultipartUploadPart, IdleReq
    <2>. QED
      BY <2>3, <2>4
  <1>9. ASSUME NEW c \in Clients, NEW b \in Buckets, NEW k \in Keys,
               NEW id \in UploadIdInput, NEW list \in CompleteLists,
               CompleteMultipartUpload(c, b, k, id, list)
        PROVE  TypeOK' /\ ReqInv'
    <2>1. id \in 1..(nextId - 1) /\ uploads[id].parts \in PartTables
      BY <1>9 DEF TypeOK, CompleteMultipartUpload, UploadFound, UploadRec
    <2>2. list \in Seq(CompletePart)
      BY CompleteListsAssumption DEF CompletePart
    <2>3. [IdleReq EXCEPT !.bucket = b, !.key = k, !.id = id, !.list = list,
                          !.snap = uploads[id].parts] \in ReqRec
      <3>1. id \in Nat
        BY <2>1 DEF TypeOK
      <3>. QED
        BY <3>1, <2>1, <2>2, CompleteReqType
    <2>4. TypeOK'
      BY <1>9, <2>3 DEF TypeOK, CompleteMultipartUpload, Steps, Unregistered
    <2>5. ReqInv'
      BY <1>9, <2>1 DEF TypeOK, ReqInv, CompleteMultipartUpload, IdleReq
    <2>. QED
      BY <2>4, <2>5
  <1>10. ASSUME NEW c \in Clients, InitiateBegin(c)
         PROVE  TypeOK' /\ ReqInv'
    <2>1. [bucket |-> req[c].bucket, key |-> req[c].key, parts |-> EmptyTable]
            \in UploadRec
      BY <1>10, EmptyTableType DEF TypeOK, ReqInv, InitiateBegin, UploadRec
    <2>2. uploads' \in [1..(nextId' - 1) -> UploadRec]
      BY <1>10, <2>1 DEF TypeOK, InitiateBegin
    <2>3. req' \in [Clients -> ReqRec] /\ pc' \in [Clients -> Steps]
      BY <1>10, IdleReqType DEF TypeOK, InitiateBegin, Finish, Steps
    <2>4. TypeOK'
      BY <1>10, <2>2, <2>3 DEF TypeOK, InitiateBegin
    <2>5. ReqInv'
      BY <1>10 DEF TypeOK, ReqInv, InitiateBegin, Finish
    <2>. QED
      BY <2>4, <2>5
  <1>11. ASSUME NEW c \in Clients, PutPartAdd(c)
         PROVE  TypeOK' /\ ReqInv'
    <2>1. req' \in [Clients -> ReqRec] /\ pc' \in [Clients -> Steps]
      BY <1>11, IdleReqType DEF TypeOK, PutPartAdd, Finish, Steps
    <2>2. ReqInv'
      BY <1>11 DEF TypeOK, ReqInv, PutPartAdd, Finish
    <2>3. uploads' \in [1..(nextId - 1) -> UploadRec]
      <3>1. CASE UNCHANGED uploads
        BY <3>1 DEF TypeOK
      <3>2. CASE \E d \in Bodies :
                   uploads' = [uploads EXCEPT ![req[c].id].parts =
                                                AddPart(@, req[c].pn, d)]
        <4>1. PICK d \in Bodies :
                uploads' = [uploads EXCEPT ![req[c].id].parts =
                                             AddPart(@, req[c].pn, d)]
          BY <3>2
        <4>2. req[c].id \in 1..(nextId - 1) /\ req[c].pn \in PartNumbers
          BY <1>11 DEF ReqInv, PutPartAdd
        <4>3. AddPart(uploads[req[c].id].parts, req[c].pn, d) \in PartTables
          BY <4>2, AddPartType DEF TypeOK, UploadRec
        <4>. QED
          BY <4>1, <4>2, <4>3 DEF TypeOK, UploadRec
      <3>. QED
        BY <1>11, <3>1, <3>2 DEF PutPartAdd
    <2>4. TypeOK'
      BY <1>11, <2>1, <2>3 DEF TypeOK, PutPartAdd
    <2>. QED
      BY <2>2, <2>4
  <1>12. ASSUME NEW c \in Clients, CompleteReassemble(c)
         PROVE  TypeOK' /\ ReqInv'
    <2> DEFINE p == uploads[req[c].id].parts
               list == req[c].list
    <2>1. p \in PartTables /\ list \in Seq(CompletePart) /\ req[c] \in ReqRec
      BY <1>12 DEF TypeOK, ReqInv, CompleteReassemble, UploadRec, ReqRec
    <2>2. CASE ReassembleOK(p, list)
      <3>1. Reassembled(p, list) \in Seq(Bodies)
        BY <2>1, <2>2, ReassembledType
      <3>2. [req[c] EXCEPT !.asm = Reassembled(p, list), !.list = << >>,
                           !.snap = EmptyTable] \in ReqRec
        BY <2>1, <3>1, ReassembledReqType
      <3>3. req' = [req EXCEPT ![c] = [req[c] EXCEPT !.asm = Reassembled(p, list),
                                         !.list = << >>, !.snap = EmptyTable]]
        BY <1>12, <2>2 DEF CompleteReassemble, TypeOK
      <3>4. pc' = [pc EXCEPT ![c] = "cmpPut"]
            /\ UNCHANGED <<buckets, objects, registry, uploads, nextId, ended>>
        BY <1>12, <2>2 DEF CompleteReassemble
      <3>5. TypeOK'
        BY <3>2, <3>3, <3>4 DEF TypeOK, Steps
      <3>6. req[c].bucket \in Buckets /\ req[c].key \in Keys
            /\ req[c].id \in 1..(nextId - 1)
        BY <1>12 DEF ReqInv, CompleteReassemble
      <3>7. ReqInv'
        BY <2>1, <3>3, <3>4, <3>6 DEF TypeOK, ReqInv
      <3>. QED
        BY <3>5, <3>7
    <2>3. CASE ~ReassembleOK(p, list)
      BY <1>12, <2>3, IdleReqType DEF TypeOK, ReqInv, CompleteReassemble, Finish, Steps
    <2>. QED
      BY <2>2, <2>3
  <1>13. ASSUME NEW c \in Clients, CompletePut(c)
         PROVE  TypeOK' /\ ReqInv'
    <2>1. req[c].asm \in Seq(Bodies) /\ req[c].id \in Nat
      BY <1>13 DEF TypeOK, ReqRec, CompletePut
    <2>2. [content |-> req[c].asm, from |-> req[c].id] \in ObjectRec
      BY <2>1 DEF ObjectRec
    <2>3. req[c].bucket \in Buckets /\ req[c].key \in Keys
            /\ req[c].id \in 1..(nextId - 1)
      BY <1>13 DEF ReqInv, CompletePut
    <2>4. objects' \in [Buckets -> [Keys -> ObjectRec \cup {None}]]
          /\ ended' \in [1..(nextId - 1) -> Nat]
      <3>1. CASE BucketExists(req[c].bucket)
        <4>1. objects' = [objects EXCEPT ![req[c].bucket][req[c].key] =
                            [content |-> req[c].asm, from |-> req[c].id]]
              /\ ended' = [ended EXCEPT ![req[c].id] = @ + 1]
          BY <1>13, <3>1 DEF CompletePut, BucketExists
        <4>. QED
          BY <2>2, <2>3, <4>1 DEF TypeOK
      <3>2. CASE ~BucketExists(req[c].bucket)
        BY <1>13, <3>2 DEF CompletePut, TypeOK
      <3>. QED
        BY <3>1, <3>2
    <2>5. req' \in [Clients -> ReqRec] /\ pc' \in [Clients -> Steps]
      BY <1>13, IdleReqType DEF TypeOK, CompletePut, Finish, Steps
    <2>6. ReqInv'
      BY <1>13 DEF TypeOK, ReqInv, CompletePut, Finish
    <2>. QED
      BY <1>13, <2>4, <2>5, <2>6 DEF TypeOK, CompletePut
  <1>14. CASE UNCHANGED vars
    BY <1>14 DEF vars, TypeOK, ReqInv
  <1>. QED
    BY <1>1, <1>2, <1>3, <1>4, <1>5, <1>6, <1>7, <1>8, <1>9, <1>10, <1>11,
       <1>12, <1>13, <1>14 DEF Next, CreateObject, CreateObjectBrowserUpload

\* Every reachable state is well typed: the backend's buckets and objects,
\* the uploader's registry, uploads and ID counter, and every request's
\* locals keep the types the handlers rely on.
THEOREM TypeCorrect == Spec => []TypeOK
  <1>1. IInv => TypeOK
    BY DEF IInv
  <1>. QED
    BY <1>1, InitIInv, NextIInv, PTL DEF Spec

(***************************************************************************)
(* Abort and complete are exclusive.  The counter of an upload can only    *)
(* move while someone holds the upload: the registry until Complete        *)
(* detaches it, then the one completing request until it returns.  So the  *)
(* strengthening says that an ID is held by the registry, or by exactly    *)
(* one request in the Reassemble or PutObject step, or by nobody, and that *)
(* its counter is 0 while it is held.                                      *)
(***************************************************************************)
CmpHolds(c, id) == pc[c] \in {"cmpReassemble", "cmpPut"} /\ req[c].id = id

ExclInv ==
  \A id \in 1..(nextId - 1) :
    /\ ended[id] <= 1
    /\ id \in registry => ended[id] = 0 /\ \A c \in Clients : ~CmpHolds(c, id)
    /\ \A c \in Clients :
         CmpHolds(c, id) =>
           /\ ended[id] = 0
           /\ id \notin registry
           /\ \A d \in Clients : CmpHolds(d, id) => d = c

XInv == IInv /\ ExclInv

\* A step that changes no registration, counter or completing request
\* keeps ExclInv.
LEMMA ExclFrame ==
  ASSUME ExclInv, UNCHANGED <<registry, ended, nextId>>,
         \A c \in Clients, id \in 1..(nextId - 1) : CmpHolds(c, id)' = CmpHolds(c, id)
  PROVE  ExclInv'
  BY DEF ExclInv

\* A step of one client that neither starts nor ends a complete.
LEMMA OtherStepHolds ==
  ASSUME TypeOK, NEW c \in Clients,
         pc[c] \notin {"cmpReassemble", "cmpPut"},
         pc'[c] \notin {"cmpReassemble", "cmpPut"},
         pc' = [pc EXCEPT ![c] = pc'[c]], req' = [req EXCEPT ![c] = req'[c]]
  PROVE  \A x \in Clients, id \in 1..(nextId - 1) : CmpHolds(x, id)' = CmpHolds(x, id)
  BY DEF TypeOK, CmpHolds

LEMMA NextExclInv == XInv /\ [Next]_vars => ExclInv'
  <1> SUFFICES ASSUME TypeOK, ReqInv, ExclInv, [Next]_vars PROVE ExclInv'
    BY DEF XInv, IInv
  <1>1. CASE \/ \E b \in Buckets : CreateBucket(b) \/ DeleteBucket(b)
             \/ \E b \in Buckets, ks \in SUBSET Keys : DeleteMulti(b, ks)
             \/ \E b \in Buckets, k \in Keys : DeleteObject(b, k)
             \/ \E b \in Buckets, k \in Keys, d \in Bodies : PutObject(b, k, d)
    <2>1. UNCHANGED <<pc, req, registry, ended, nextId>>
      BY <1>1 DEF CreateBucket, DeleteBucket, DeleteMulti, DeleteObject, PutObject
    <2>. QED
      BY <2>1, ExclFrame DEF CmpHolds
  <1>2. ASSUME NEW c \in Clients, NEW b \in Buckets, NEW k \in Keys,
               InitiateMultipartUpload(c, b, k)
        PROVE  ExclInv'
    <2>1. pc' = [pc EXCEPT ![c] = "initBegin"] /\ req' = [req EXCEPT ![c] = req'[c]]
          /\ UNCHANGED <<registry, ended, nextId>> /\ pc[c] = "idle"
      BY <1>2 DEF InitiateMultipartUpload
    <2>. QED
      BY <2>1, ExclFrame, OtherStepHolds DEF TypeOK
  <1>3. ASSUME NEW c \in Clients, NEW b \in Buckets, NEW k \in Keys,
               NEW id \in UploadIdInput, NEW pn \in PartNumberInput,
               PutMultipartUploadPart(c, b, k, id, pn)
        PROVE  ExclInv'
    <2>1. pc' = [pc EXCEPT ![c] = "partAdd"] /\ req' = [req EXCEPT ![c] = req'[c]]
          /\ UNCHANGED <<registry, ended, nextId>> /\ pc[c] = "idle"
      BY <1>3 DEF PutMultipartUploadPart
    <2>. QED
      BY <2>1, ExclFrame, OtherStepHolds DEF TypeOK
  <1>4. ASSUME NEW c \in Clients, PutPartAdd(c)
        PROVE  ExclInv'
    <2>1. pc' = [pc EXCEPT ![c] = "idle"] /\ req' = [req EXCEPT ![c] = IdleReq]
          /\ UNCHANGED <<registry, ended, nextId>> /\ pc[c] = "partAdd"
      BY <1>4 DEF PutPartAdd, Finish
    <2>. QED
      BY <2>1, ExclFrame, OtherStepHolds DEF TypeOK
  <1>5. ASSUME NEW c \in Clients, InitiateBegin(c)
        PROVE  ExclInv'
    <2>1. pc' = [pc EXCEPT ![c] = "idle"] /\ req' = [req EXCEPT ![c] = IdleReq]
          /\ pc[c] = "initBegin"
          /\ registry' = registry \cup {nextId} /\ nextId' = nextId + 1
          /\ ended' = [i \in 1..nextId |-> IF i = nextId THEN 0 ELSE ended[i]]
      BY <1>5 DEF InitiateBegin, Finish
    <2>2. \A x \in Clients, id \in 1..(nextId - 1) : CmpHolds(x, id)' = CmpHolds(x, id)
      BY <2>1, OtherStepHolds DEF TypeOK
    <2>3. \A x \in Clients :
            ~(pc'[x] \in {"cmpReassemble", "cmpPut"} /\ req'[x].id = nextId)
      BY <2>1 DEF TypeOK, ReqInv, CmpHolds
    <2>4. SUFFICES ASSUME NEW id \in 1..(nextId' - 1)
                   PROVE  /\ ended'[id] <= 1
                          /\ id \in registry' =>
                               ended'[id] = 0 /\ \A x \in Clients : ~CmpHolds(x, id)'
                          /\ \A x \in Clients :
                               CmpHolds(x, id)' =>
                                 /\ ended'[id] = 0
                                 /\ id \notin registry'
                                 /\ \A d \in Clients : CmpHolds(d, id)' => d = x
      BY DEF ExclInv
    <2>5. CASE id = nextId
      <3>1. \A x \in Clients : ~CmpHolds(x, id)'
        BY <2>3, <2>5 DEF CmpHolds
      <3>2. ended'[id] = 0
        BY <2>1, <2>5 DEF TypeOK
      <3>. QED
        BY <3>1, <3>2
    <2>6. CASE id \in 1..(nextId - 1)
      <3>1. ended'[id] = ended[id] /\ (id \in registry' <=> id \in registry)
        BY <2>1, <2>6 DEF TypeOK
      <3>. QED
        BY <2>2, <2>6, <3>1 DEF ExclInv
    <2>. QED
      BY <2>1, <2>5, <2>6 DEF TypeOK
  <1>6. ASSUME NEW b \in Buckets, NEW k \in Keys, NEW id \in UploadIdInput,
               AbortMultipartUpload(b, k, id)
        PROVE  ExclInv'
    <2>1. /\ id \in registry /\ registry' = registry \ {id}
          /\ ended' = [ended EXCEPT ![id] = @ + 1]
          /\ UNCHANGED <<pc, req, nextId>>
      BY <1>6 DEF AbortMultipartUpload, UploadFound, Unregistered
    <2>2. ended[id] = 0 /\ \A c \in Clients : ~CmpHolds(c, id)
      BY <2>1 DEF TypeOK, ExclInv
    <2>. QED
      BY <2>1, <2>2 DEF TypeOK, ExclInv, CmpHolds
  <1>7. ASSUME NEW c \in Clients, NEW b \in Buckets, NEW k \in Keys,
               NEW id \in UploadIdInput, NEW list \in CompleteLists,
               CompleteMultipartUpload(c, b, k, id, list)
        PROVE  ExclInv'
    <2>1. /\ id \in registry /\ registry' = registry \ {id}
          /\ pc[c] = "idle" /\ pc' = [pc EXCEPT ![c] = "cmpReassemble"]
          /\ req' = [req EXCEPT ![c] = req'[c]] /\ req'[c].id = id
          /\ UNCHANGED <<ended, nextId>>
      BY <1>7 DEF CompleteMultipartUpload, UploadFound, Unregistered, TypeOK
    <2>2. ended[id] = 0 /\ \A x \in Clients : ~CmpHolds(x, id)
      BY <2>1 DEF TypeOK, ExclInv
    <2>3. \A x \in Clients \ {c}, i \in 1..(nextId - 1) : CmpHolds(x, i)' = CmpHolds(x, i)
      BY <2>1 DEF TypeOK, CmpHolds
    <2>4. \A i \in 1..(nextId - 1) : (CmpHolds(c, i)' <=> i = id) /\ ~CmpHolds(c, i)
      BY <2>1 DEF TypeOK, CmpHolds
    <2>5. SUFFICES ASSUME NEW i \in 1..(nextId - 1)
                   PROVE  /\ ended'[i] <= 1
                          /\ i \in registry' =>
                               ended'[i] = 0 /\ \A x \in Clients : ~CmpHolds(x, i)'
                          /\ \A x \in Clients :
                               CmpHolds(x, i)' =>
                                 /\ ended'[i] = 0
                                 /\ i \notin registry'
                                 /\ \A d \in Clients : CmpHolds(d, i)' => d = x
      BY <2>1 DEF ExclInv
    <2>6. CASE i = id
      BY <2>1, <2>2, <2>3, <2>4, <2>6 DEF ExclInv
    <2>7. CASE i # id
      <3>1. ASSUME NEW x \in Clients PROVE CmpHolds(x, i)' = CmpHolds(x, i)
        <4>1. CASE x = c
          <5>1. ~CmpHolds(c, i)' /\ ~CmpHolds(c, i)
            BY <2>4, <2>7
          <5>. QED
            BY <4>1, <5>1 DEF CmpHolds
        <4>2. CASE x # c
          BY <2>3, <4>2
        <4>. QED
          BY <4>1, <4>2
      <3>. QED
        BY <2>1, <2>7, <3>1 DEF ExclInv
    <2>. QED
      BY <2>6, <2>7
  <1>8. ASSUME NEW c \in Clients, CompleteReassemble(c)
        PROVE  ExclInv'
    <2> DEFINE p == uploads[req[c].id].parts
               list == req[c].list
    <2>1. pc[c] = "cmpReassemble" /\ UNCHANGED <<registry, ended, nextId>>
      BY <1>8 DEF CompleteReassemble
    <2>2. CASE ReassembleOK(p, list)
      <3>1. pc' = [pc EXCEPT ![c] = "cmpPut"]
            /\ req' = [req EXCEPT ![c].asm = Reassembled(p, list),
                                  ![c].list = << >>, ![c].snap = EmptyTable]
        BY <1>8, <2>2 DEF CompleteReassemble
      <3>2. \A x \in Clients, i \in 1..(nextId - 1) : CmpHolds(x, i)' = CmpHolds(x, i)
        BY <2>1, <3>1 DEF TypeOK, CmpHolds
      <3>. QED
        BY <2>1, <3>2, ExclFrame
    <2>3. CASE ~ReassembleOK(p, list)
      <3>1. pc' = [pc EXCEPT ![c] = "idle"] /\ req' = [req EXCEPT ![c] = IdleReq]
        BY <1>8, <2>3 DEF CompleteReassemble, Finish
      <3>2. \A x \in Clients, i \in 1..(nextId - 1) :
              CmpHolds(x, i)' = (CmpHolds(x, i) /\ x # c)
        BY <2>1, <3>1 DEF TypeOK, CmpHolds
      <3>. QED
        BY <2>1, <3>2 DEF ExclInv
    <2>. QED
      BY <2>2, <2>3
  <1>9. ASSUME NEW c \in Clients, CompletePut(c)
        PROVE  ExclInv'
    <2>1. /\ pc[c] = "cmpPut" /\ UNCHANGED <<registry, nextId>>
          /\ pc' = [pc EXCEPT ![c] = "idle"] /\ req' = [req EXCEPT ![c] = IdleReq]
          /\ \/ ended' = [ended EXCEPT ![req[c].id] = @ + 1]
             \/ ended' = ended
      BY <1>9 DEF CompletePut, Finish
    <2>2. PICK id \in 1..(nextId - 1) : id = req[c].id
      BY <2>1 DEF ReqInv
    <2>3. CmpHolds(c, id)
      BY <2>1, <2>2 DEF CmpHolds
    <2>4. ended[id] = 0 /\ id \notin registry
          /\ \A x \in Clients : CmpHolds(x, id) => x = c
      BY <2>3 DEF ExclInv
    <2>5. \A x \in Clients, i \in 1..(nextId - 1) :
            CmpHolds(x, i)' = (CmpHolds(x, i) /\ x # c)
      BY <2>1 DEF TypeOK, CmpHolds
    <2>6. \A x \in Clients : ~CmpHolds(x, id)'
      BY <2>4, <2>5
    <2>7. ended' = [ended EXCEPT ![id] = @ + 1] \/ ended' = ended
      BY <2>1, <2>2
    <2>. QED
      BY <2>1, <2>4, <2>5, <2>6, <2>7 DEF TypeOK, ExclInv
  <1>10. CASE UNCHANGED vars
    BY <1>10, ExclFrame DEF vars, CmpHolds
  <1>. QED
    BY <1>1, <1>2, <1>3, <1>4, <1>5, <1>6, <1>7, <1>8, <1>9, <1>10
       DEF Next, CreateObject, CreateObjectBrowserUpload

\* abortMultipartUpload and completeMultipartUpload racing on one upload ID,
\* and two completes, leave at most one of them successful: for every
\* number of clients, buckets, keys and part numbers.
THEOREM AbortCompleteExclusiveHolds == Spec => []AbortCompleteExclusive
  <1>1. Init => ExclInv
    BY DEF Init, ExclInv
  <1>2. XInv /\ [Next]_vars => XInv'
    BY NextIInv, NextExclInv DEF XInv
  <1>3. XInv => AbortCompleteExclusive
    BY DEF XInv, IInv, TypeOK, ExclInv, AbortCompleteExclusive
  <1>. QED
    BY <1>1, <1>2, <1>3, InitIInv, PTL DEF Spec, XInv

=============================================================================
