--------------------- MODULE MultipartRefinementProofs ---------------------
(***************************************************************************)
(* The handlers implement the upload lifecycle: Spec => Lifecycle!Spec,    *)
(* under the refinement mapping UploadFate / UploadHolders of Multipart.   *)
(* Each step of a handler maps to one lifecycle step on one upload ID, or  *)
(* to a stutter.  The argument rests on ExclInv of MultipartProofs: a      *)
(* registered ID is held by no request and not yet acknowledged, and a     *)
(* held ID is held by one request alone, with its counter at 0.            *)
(***************************************************************************)
EXTENDS MultipartProofs

Ids == 1..MaxUploads

\* The fate and the holders of one ID depend only on whether it is begun,
\* whether it is registered, its counter, and who holds it.
LEMMA FatePoint ==
  ASSUME NEW j \in Nat, nextId \in Nat, nextId' \in Nat,
         (j >= nextId') <=> (j >= nextId),
         j < nextId => /\ (j \in registry') <=> (j \in registry)
                       /\ ended'[j] = ended[j],
         \A c \in Clients : Completing(c, j)' <=> Completing(c, j)
  PROVE  UploadFate(j)' = UploadFate(j) /\ UploadHolders(j)' = UploadHolders(j)
  <1>1. (\E c \in Clients : Completing(c, j)') <=> (\E c \in Clients : Completing(c, j))
    OBVIOUS
  <1>2. UploadFate(j)' = UploadFate(j)
    <2>1. CASE j >= nextId
      BY <2>1 DEF UploadFate
    <2>2. CASE j < nextId
      BY <1>1, <2>2 DEF UploadFate
    <2>. QED
      BY <2>1, <2>2
  <1>3. UploadHolders(j)' = UploadHolders(j)
    BY DEF UploadHolders
  <1>. QED
    BY <1>2, <1>3

\* A step that keeps the fate and the holders of every ID is a stutter.
LEMMA FateStutter ==
  ASSUME \A j \in Ids : UploadFate(j)' = UploadFate(j) /\ UploadHolders(j)' = UploadHolders(j)
  PROVE  UNCHANGED Lifecycle!vars
  BY DEF Lifecycle!vars, Ids

\* A step that changes no ID's registration, counter or holders, nor nextId.
LEMMA QuietStep ==
  ASSUME TypeOK, UNCHANGED <<nextId, registry, ended>>,
         \A c \in Clients, j \in Ids : Completing(c, j)' <=> Completing(c, j)
  PROVE  UNCHANGED Lifecycle!vars
  <1>1. \A j \in Ids : UploadFate(j)' = UploadFate(j) /\ UploadHolders(j)' = UploadHolders(j)
    <2> SUFFICES ASSUME NEW j \in Ids
                 PROVE  UploadFate(j)' = UploadFate(j) /\ UploadHolders(j)' = UploadHolders(j)
      OBVIOUS
    <2>. QED
      BY FatePoint DEF TypeOK, Ids
  <1>. QED
    BY <1>1, FateStutter

\* The handlers start where the lifecycle starts: nothing begun, no holder.
LEMMA InitRefines == Init => Lifecycle!Init
  BY DEF Init, Lifecycle!Init, UploadFate, UploadHolders, Completing, Ids

\* abortMultipartUpload takes a registered upload to closed.
LEMMA AbortRefines ==
  ASSUME TypeOK, ExclInv, NEW b \in Buckets, NEW k \in Keys, NEW id \in UploadIdInput,
         AbortMultipartUpload(b, k, id)
  PROVE  Lifecycle!Abort(id)
  <1>1. /\ id \in registry /\ registry' = registry \ {id}
        /\ ended' = [ended EXCEPT ![id] = @ + 1]
        /\ UNCHANGED <<pc, req, nextId>>
    BY DEF AbortMultipartUpload, UploadFound, Unregistered
  <1>2. id \in 1..(nextId - 1) /\ ended[id] = 0 /\ \A c \in Clients : ~Completing(c, id)
    BY <1>1 DEF TypeOK, ExclInv, CmpHolds, Completing
  <1>3. UploadFate(id) = "open"
    BY <1>1, <1>2 DEF UploadFate, TypeOK
  <1>4. UploadFate(id)' = "closed"
    BY <1>1, <1>2 DEF UploadFate, Completing, TypeOK
  <1>5. \A c \in Clients, j \in Ids : Completing(c, j)' <=> Completing(c, j)
    BY <1>1 DEF Completing
  <1>6. \A j \in Ids \ {id} : UploadFate(j)' = UploadFate(j)
    <2> SUFFICES ASSUME NEW j \in Ids \ {id} PROVE UploadFate(j)' = UploadFate(j)
      OBVIOUS
    <2>1. j \in Nat /\ nextId \in Nat /\ nextId' \in Nat
      BY <1>1 DEF Ids, TypeOK
    <2>2. j < nextId => /\ (j \in registry') <=> (j \in registry)
                       /\ ended'[j] = ended[j]
      BY <1>1 DEF TypeOK
    <2>. QED
      BY <1>1, <1>5, <2>1, <2>2, FatePoint
  <1>7. \A j \in Ids : UploadHolders(j)' = UploadHolders(j)
    BY <1>5 DEF UploadHolders
  <1>. QED
    BY <1>3, <1>4, <1>6, <1>7 DEF Lifecycle!Abort, UploadIdInput, Ids
\* A completing request returns: its upload is committed when the counter
\* moved (PutObject stored the object), and failed otherwise.
LEMMA ReleaseRefines ==
  ASSUME TypeOK, TypeOK', ReqInv, ExclInv, NEW c \in Clients,
         pc[c] \in {"cmpReassemble", "cmpPut"},
         pc' = [pc EXCEPT ![c] = "idle"], req' = [req EXCEPT ![c] = IdleReq],
         UNCHANGED <<registry, nextId>>,
         ended' = ended \/ ended' = [ended EXCEPT ![req[c].id] = @ + 1]
  PROVE  [Lifecycle!Next]_Lifecycle!vars
  <1>1. PICK id \in 1..(nextId - 1) : id = req[c].id /\ Completing(c, id)
    BY DEF ReqInv, Completing
  <1>2. ended[id] = 0 /\ id \notin registry /\ \A x \in Clients : Completing(x, id) => x = c
    BY <1>1 DEF ExclInv, CmpHolds, Completing
  <1>3. \A x \in Clients, j \in Nat : Completing(x, j)' <=> (Completing(x, j) /\ x # c)
    BY DEF Completing, TypeOK, IdleReq
  <1>4. \A j \in Ids \ {id} : UploadFate(j)' = UploadFate(j) /\ UploadHolders(j)' = UploadHolders(j)
    <2> SUFFICES ASSUME NEW j \in Ids \ {id}
                 PROVE  UploadFate(j)' = UploadFate(j) /\ UploadHolders(j)' = UploadHolders(j)
      OBVIOUS
    <2>1. j \in Nat /\ nextId \in Nat /\ nextId' \in Nat
      BY DEF Ids, TypeOK
    <2>2. j < nextId => /\ (j \in registry') <=> (j \in registry)
                       /\ ended'[j] = ended[j]
      BY <1>1, <2>1 DEF TypeOK, Ids
    <2>3. \A x \in Clients : Completing(x, j)' <=> Completing(x, j)
      BY <1>1, <1>3, <2>1 DEF Completing
    <2>. QED
      BY <2>1, <2>2, <2>3, FatePoint
  <1>5. CASE id \notin Ids
    BY <1>4, <1>5, FateStutter
  <1>6. CASE id \in Ids
    <2>1. UploadFate(id) = "completing" /\ UploadHolders(id) = {c}
      BY <1>1, <1>2 DEF UploadFate, UploadHolders, TypeOK
    <2>2. UploadHolders(id)' = {} /\ ~\E x \in Clients : Completing(x, id)'
      <3>1. id \in Nat
        BY <1>1 DEF TypeOK
      <3>2. \A x \in Clients : ~Completing(x, id)'
        BY <1>2, <1>3, <3>1
      <3>. QED
        BY <3>2 DEF UploadHolders
    <2>3. CASE ended' = ended
      <3>1. UploadFate(id)' = "failed"
        BY <1>1, <1>2, <2>2, <2>3 DEF UploadFate, TypeOK
      <3>2. Lifecycle!Fail(id)
        BY <1>4, <1>6, <2>1, <2>2, <3>1 DEF Lifecycle!Fail, Ids
      <3>. QED
        BY <1>6, <3>2 DEF Lifecycle!Next, Ids
    <2>4. CASE ended' = [ended EXCEPT ![req[c].id] = @ + 1]
      <3>1. UploadFate(id)' = "closed"
        BY <1>1, <1>2, <2>2, <2>4 DEF UploadFate, TypeOK
      <3>2. Lifecycle!Commit(id)
        BY <1>4, <1>6, <2>1, <2>2, <3>1 DEF Lifecycle!Commit, Ids
      <3>. QED
        BY <1>6, <3>2 DEF Lifecycle!Next, Ids
    <2>. QED
      BY <2>3, <2>4
  <1>. QED
    BY <1>5, <1>6

\* uploader.Begin registers the next ID: it is begun, or, past the IDs the
\* lifecycle names, nothing the lifecycle sees changes.
LEMMA BeginRefines ==
  ASSUME TypeOK, TypeOK', NEW c \in Clients, InitiateBegin(c)
  PROVE  [Lifecycle!Next]_Lifecycle!vars
  <1>1. /\ pc[c] = "initBegin" /\ pc' = [pc EXCEPT ![c] = "idle"]
        /\ req' = [req EXCEPT ![c] = IdleReq]
        /\ registry' = registry \cup {nextId} /\ nextId' = nextId + 1
        /\ ended' = [i \in 1..nextId |-> IF i = nextId THEN 0 ELSE ended[i]]
    BY DEF InitiateBegin, Finish
  <1>2. \A x \in Clients, j \in Nat : Completing(x, j)' <=> Completing(x, j)
    BY <1>1 DEF Completing, TypeOK
  <1>3. \A j \in Ids \ {nextId} : UploadFate(j)' = UploadFate(j) /\ UploadHolders(j)' = UploadHolders(j)
    <2> SUFFICES ASSUME NEW j \in Ids \ {nextId}
                 PROVE  UploadFate(j)' = UploadFate(j) /\ UploadHolders(j)' = UploadHolders(j)
      OBVIOUS
    <2>1. j \in Nat /\ nextId \in Nat /\ nextId' \in Nat
      BY DEF Ids, TypeOK
    <2>2. (j >= nextId') <=> (j >= nextId)
      BY <1>1, <2>1
    <2>3. j < nextId => /\ (j \in registry') <=> (j \in registry)
                       /\ ended'[j] = ended[j]
      BY <1>1, <2>1 DEF TypeOK, Ids
    <2>4. \A x \in Clients : Completing(x, j)' <=> Completing(x, j)
      BY <1>2, <2>1
    <2>. QED
      BY <2>1, <2>2, <2>3, <2>4, FatePoint
  <1>4. CASE nextId \notin Ids
    BY <1>3, <1>4, FateStutter
  <1>5. CASE nextId \in Ids
    <2>1. PICK n \in Ids : n = nextId
      BY <1>5
    <2>2. UploadFate(n) = "none" /\ UploadFate(n)' = "open"
      BY <1>1, <2>1 DEF UploadFate, TypeOK
    <2>3. UploadHolders(n)' = UploadHolders(n)
      BY <1>2, <2>1 DEF UploadHolders, Ids
    <2>4. Lifecycle!Begin(n)
      BY <1>3, <2>1, <2>2, <2>3 DEF Lifecycle!Begin, Ids
    <2>. QED
      BY <2>4 DEF Lifecycle!Next, Ids
  <1>. QED
    BY <1>4, <1>5

\* uploader.Complete hands a registered upload to the completing request,
\* which held no other upload.
LEMMA CompleteRefines ==
  ASSUME TypeOK, TypeOK', ExclInv, NEW c \in Clients, NEW b \in Buckets, NEW k \in Keys,
         NEW id \in UploadIdInput, NEW list \in CompleteLists,
         CompleteMultipartUpload(c, b, k, id, list)
  PROVE  Lifecycle!Complete(c, id)
  <1>1. /\ id \in registry /\ registry' = registry \ {id}
        /\ pc[c] = "idle" /\ pc' = [pc EXCEPT ![c] = "cmpReassemble"]
        /\ req' = [req EXCEPT ![c] = req'[c]] /\ req'[c].id = id
        /\ UNCHANGED <<ended, nextId>>
    BY DEF CompleteMultipartUpload, UploadFound, Unregistered, TypeOK
  <1>2. id \in 1..(nextId - 1) /\ ended[id] = 0 /\ \A x \in Clients : ~Completing(x, id)
    BY <1>1 DEF TypeOK, ExclInv, CmpHolds, Completing
  <1>3. \A x \in Clients, j \in Nat :
          Completing(x, j)' <=> (IF x = c THEN j = id ELSE Completing(x, j))
    BY <1>1 DEF Completing, TypeOK
  <1>4. \A j \in Ids \ {id} : UploadFate(j)' = UploadFate(j) /\ UploadHolders(j)' = UploadHolders(j)
    <2> SUFFICES ASSUME NEW j \in Ids \ {id}
                 PROVE  UploadFate(j)' = UploadFate(j) /\ UploadHolders(j)' = UploadHolders(j)
      OBVIOUS
    <2>1. j \in Nat /\ nextId \in Nat /\ nextId' \in Nat
      BY DEF Ids, TypeOK
    <2>2. j < nextId => /\ (j \in registry') <=> (j \in registry)
                       /\ ended'[j] = ended[j]
      BY <1>1
    <2>3. \A x \in Clients : Completing(x, j)' <=> Completing(x, j)
      BY <1>1, <1>3, <2>1 DEF Completing
    <2>. QED
      BY <1>1, <2>1, <2>2, <2>3, FatePoint
  <1>5. id \in Nat
    BY DEF UploadIdInput
  <1>6. UploadFate(id) = "open" /\ UploadFate(id)' = "completing"
    <2>1. Completing(c, id)'
      BY <1>3, <1>5
    <2>. QED
      BY <1>1, <1>2, <2>1 DEF UploadFate, TypeOK
  <1>7. UploadHolders(id)' = {c}
    BY <1>2, <1>3, <1>5 DEF UploadHolders
  <1>8. \A j \in Ids : c \notin UploadHolders(j)
    BY <1>1 DEF UploadHolders, Completing
  <1>. QED
    BY <1>4, <1>6, <1>7, <1>8 DEF Lifecycle!Complete, UploadIdInput, Ids
\* A step of one request that neither holds an upload before it nor after it,
\* and leaves the registry and the counters alone.
LEMMA QuietClient ==
  ASSUME TypeOK, NEW c \in Clients,
         pc[c] \notin {"cmpReassemble", "cmpPut"}, pc'[c] \notin {"cmpReassemble", "cmpPut"},
         pc' = [pc EXCEPT ![c] = pc'[c]], req' = [req EXCEPT ![c] = req'[c]],
         UNCHANGED <<nextId, registry, ended>>
  PROVE  UNCHANGED Lifecycle!vars
  <1>1. \A x \in Clients, j \in Ids : Completing(x, j)' <=> Completing(x, j)
    BY DEF Completing, TypeOK
  <1>. QED
    BY <1>1, QuietStep

LEMMA NextRefines ==
  XInv /\ TypeOK' /\ [Next]_vars => [Lifecycle!Next]_Lifecycle!vars
  <1> SUFFICES ASSUME TypeOK, ReqInv, ExclInv, TypeOK', [Next]_vars
               PROVE  [Lifecycle!Next]_Lifecycle!vars
    BY DEF XInv, IInv
  <1>1. CASE \/ \E b \in Buckets : CreateBucket(b) \/ DeleteBucket(b)
             \/ \E b \in Buckets, ks \in SUBSET Keys : DeleteMulti(b, ks)
             \/ \E b \in Buckets, k \in Keys : DeleteObject(b, k)
             \/ \E b \in Buckets, k \in Keys, d \in Bodies : PutObject(b, k, d)
             \/ UNCHANGED vars
    <2>1. UNCHANGED <<nextId, registry, ended, pc, req>>
      BY <1>1 DEF CreateBucket, DeleteBucket, DeleteMulti, DeleteObject, PutObject, vars
    <2>2. \A x \in Clients, j \in Ids : Completing(x, j)' <=> Completing(x, j)
      BY <2>1 DEF Completing
    <2>. QED
      BY <2>1, <2>2, QuietStep
  <1>2. ASSUME NEW c \in Clients, NEW b \in Buckets, NEW k \in Keys,
               InitiateMultipartUpload(c, b, k)
        PROVE  [Lifecycle!Next]_Lifecycle!vars
    <2>1. /\ pc[c] \notin {"cmpReassemble", "cmpPut"}
          /\ pc'[c] \notin {"cmpReassemble", "cmpPut"}
          /\ pc' = [pc EXCEPT ![c] = pc'[c]] /\ req' = [req EXCEPT ![c] = req'[c]]
          /\ UNCHANGED <<nextId, registry, ended>>
      BY <1>2 DEF InitiateMultipartUpload, TypeOK
    <2>. QED
      BY <2>1, QuietClient
  <1>3. ASSUME NEW c \in Clients, NEW b \in Buckets, NEW k \in Keys,
               NEW id \in UploadIdInput, NEW pn \in PartNumberInput,
               PutMultipartUploadPart(c, b, k, id, pn)
        PROVE  [Lifecycle!Next]_Lifecycle!vars
    <2>1. /\ pc[c] \notin {"cmpReassemble", "cmpPut"}
          /\ pc'[c] \notin {"cmpReassemble", "cmpPut"}
          /\ pc' = [pc EXCEPT ![c] = pc'[c]] /\ req' = [req EXCEPT ![c] = req'[c]]
          /\ UNCHANGED <<nextId, registry, ended>>
      BY <1>3 DEF PutMultipartUploadPart, TypeOK
    <2>. QED
      BY <2>1, QuietClient
  <1>4. ASSUME NEW c \in Clients, PutPartAdd(c) PROVE [Lifecycle!Next]_Lifecycle!vars
    <2>1. /\ pc[c] \notin {"cmpReassemble", "cmpPut"}
          /\ pc'[c] \notin {"cmpReassemble", "cmpPut"}
          /\ pc' = [pc EXCEPT ![c] = pc'[c]] /\ req' = [req EXCEPT ![c] = req'[c]]
          /\ UNCHANGED <<nextId, registry, ended>>
      BY <1>4 DEF PutPartAdd, Finish, TypeOK
    <2>. QED
      BY <2>1, QuietClient
  <1>5. ASSUME NEW b \in Buckets, NEW k \in Keys, NEW id \in UploadIdInput,
               AbortMultipartUpload(b, k, id)
        PROVE  [Lifecycle!Next]_Lifecycle!vars
    BY <1>5, AbortRefines DEF Lifecycle!Next, UploadIdInput, Ids
  <1>6. ASSUME NEW c \in Clients, NEW b \in Buckets, NEW k \in Keys,
               NEW id \in UploadIdInput, NEW list \in CompleteLists,
               CompleteMultipartUpload(c, b, k, id, list)
        PROVE  [Lifecycle!Next]_Lifecycle!vars
    BY <1>6, CompleteRefines DEF Lifecycle!Next, UploadIdInput, Ids
  <1>7. ASSUME NEW c \in Clients, InitiateBegin(c) PROVE [Lifecycle!Next]_Lifecycle!vars
    BY <1>7, BeginRefines
  <1>8. ASSUME NEW c \in Clients, CompleteReassemble(c) PROVE [Lifecycle!Next]_Lifecycle!vars
    <2> DEFINE p == uploads[req[c].id].parts
               list == req[c].list
    <2>1. pc[c] = "cmpReassemble" /\ UNCHANGED <<registry, ended, nextId>>
      BY <1>8 DEF CompleteReassemble
    <2>2. CASE ReassembleOK(p, list)
      <3>1. pc' = [pc EXCEPT ![c] = "cmpPut"]
            /\ req' = [req EXCEPT ![c].asm = Reassembled(p, list),
                                  ![c].list = << >>, ![c].snap = EmptyTable]
        BY <1>8, <2>2 DEF CompleteReassemble
      <3>2. \A x \in Clients, j \in Ids : Completing(x, j)' <=> Completing(x, j)
        BY <2>1, <3>1 DEF Completing, TypeOK
      <3>. QED
        BY <2>1, <3>2, QuietStep
    <2>3. CASE ~ReassembleOK(p, list)
      <3>1. pc' = [pc EXCEPT ![c] = "idle"] /\ req' = [req EXCEPT ![c] = IdleReq]
        BY <1>8, <2>3 DEF CompleteReassemble, Finish
      <3>. QED
        BY <2>1, <3>1, ReleaseRefines
    <2>. QED
      BY <2>2, <2>3
  <1>9. ASSUME NEW c \in Clients, CompletePut(c) PROVE [Lifecycle!Next]_Lifecycle!vars
    <2>1. /\ pc[c] = "cmpPut" /\ UNCHANGED <<registry, nextId>>
          /\ pc' = [pc EXCEPT ![c] = "idle"] /\ req' = [req EXCEPT ![c] = IdleReq]
          /\ \/ ended' = [ended EXCEPT ![req[c].id] = @ + 1]
             \/ ended' = ended
      BY <1>9 DEF CompletePut, Finish
    <2>. QED
      BY <2>1, ReleaseRefines
  <1>. QED
    BY <1>1, <1>2, <1>3, <1>4, <1>5, <1>6, <1>7, <1>8, <1>9
    DEF Next, CreateObject, CreateObjectBrowserUpload

\* The concurrent handlers, interleaved in any order, keep the uploader's
\* promise: every step maps to one begin, abort, complete, commit or fail of
\* one upload in UploadLifecycle, or to no change, for every value of the
\* constants.
THEOREM LifecycleRefinedHolds == Spec => LifecycleRefined
  <1>1. XInv /\ [Next]_vars => XInv'
    BY NextIInv, NextExclInv DEF XInv
  <1>2. XInv /\ [Next]_vars => [Lifecycle!Next]_Lifecycle!vars
    BY NextIInv, NextRefines DEF XInv, IInv
  <1>3. Init => XInv
    BY InitIInv DEF Init, XInv, ExclInv
  <1>. QED
    BY <1>1, <1>2, <1>3, InitRefines, PTL DEF Spec, LifecycleRefined, Lifecycle!Spec
=============================================================================
