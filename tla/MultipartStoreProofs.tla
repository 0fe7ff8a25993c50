------------------------ MODULE MultipartStoreProofs ------------------------
(***************************************************************************)
(* Proof about what the multipart handlers leave in the backend: a         *)
(* completed object lies at its upload's bucket and key.  It rests on the  *)
(* type invariant of MultipartProofs.                                      *)
(***************************************************************************)
EXTENDS MultipartProofs

(***************************************************************************)
(* Completed objects lie at their upload's key.  CompletePut writes at the *)
(* bucket and key the request named, so the strengthening says that a     *)
(* request holding an upload for completion named the bucket and key the   *)
(* upload was begun for (uploader.Complete looks it up by all three), and  *)
(* that no step changes the bucket or key of an upload.                    *)
(***************************************************************************)
Completing3(c) == pc[c] \in {"cmpReassemble", "cmpPut"}

HeldKeyInv ==
  \A c \in Clients :
    Completing3(c) => /\ uploads[req[c].id].bucket = req[c].bucket
                      /\ uploads[req[c].id].key = req[c].key

KInv == CompletedObjectAtUploadKey /\ HeldKeyInv

\* A step that keeps every upload's bucket and key, writes no object of an
\* upload, and starts no complete keeps KInv.
LEMMA KInvFrame ==
  ASSUME TypeOK, TypeOK', ReqInv, KInv,
         nextId <= nextId',
         \A j \in 1..(nextId - 1) : /\ uploads'[j].bucket = uploads[j].bucket
                                    /\ uploads'[j].key = uploads[j].key,
         \A b \in Buckets, k \in Keys :
           objects'[b][k] \in {objects[b][k], None} \/ objects'[b][k].from = NoUpload,
         \A c \in Clients :
           Completing3(c)' => /\ Completing3(c)
                              /\ req'[c].id = req[c].id
                              /\ req'[c].bucket = req[c].bucket
                              /\ req'[c].key = req[c].key
  PROVE  KInv'
  <1>1. CompletedObjectAtUploadKey'
    <2> SUFFICES ASSUME NEW b \in Buckets, NEW k \in Keys,
                        objects'[b][k] # None, objects'[b][k].from # NoUpload
                 PROVE  /\ objects'[b][k].from \in DOMAIN uploads'
                        /\ uploads'[objects'[b][k].from].bucket = b
                        /\ uploads'[objects'[b][k].from].key = k
      BY DEF CompletedObjectAtUploadKey
    <2>1. objects'[b][k] = objects[b][k]
      OBVIOUS
    <2>2. objects[b][k].from \in 1..(nextId - 1)
          /\ uploads[objects[b][k].from].bucket = b
          /\ uploads[objects[b][k].from].key = k
      BY <2>1 DEF KInv, CompletedObjectAtUploadKey, TypeOK
    <2>3. DOMAIN uploads' = 1..(nextId' - 1) /\ nextId \in Nat /\ nextId' \in Nat
      BY DEF TypeOK
    <2>4. objects[b][k].from \in DOMAIN uploads'
      BY <2>2, <2>3
    <2>. QED
      BY <2>1, <2>2, <2>4
  <1>2. HeldKeyInv'
    <2> SUFFICES ASSUME NEW c \in Clients, Completing3(c)'
                 PROVE  /\ uploads'[req'[c].id].bucket = req'[c].bucket
                        /\ uploads'[req'[c].id].key = req'[c].key
      BY DEF HeldKeyInv
    <2>1. Completing3(c) /\ req'[c].id = req[c].id
          /\ req'[c].bucket = req[c].bucket /\ req'[c].key = req[c].key
      OBVIOUS
    <2>2. req[c].id \in 1..(nextId - 1)
      BY <2>1 DEF ReqInv, Completing3
    <2>. QED
      BY <2>1, <2>2 DEF KInv, HeldKeyInv
  <1>. QED
    BY <1>1, <1>2 DEF KInv


LEMMA NextKInv == IInv /\ KInv /\ [Next]_vars => KInv'
  <1> SUFFICES ASSUME TypeOK, ReqInv, KInv, [Next]_vars, TypeOK'
               PROVE  KInv'
    BY NextIInv DEF IInv
  <1>1. ASSUME NEW b \in Buckets, CreateBucket(b) PROVE KInv'
    BY <1>1, KInvFrame DEF CreateBucket, EmptyBucket, TypeOK, Completing3
  <1>2. ASSUME NEW b \in Buckets, DeleteBucket(b) PROVE KInv'
    BY <1>2, KInvFrame DEF DeleteBucket, TypeOK, Completing3
  <1>3. ASSUME NEW b \in Buckets, NEW ks \in SUBSET Keys, DeleteMulti(b, ks)
        PROVE  KInv'
    BY <1>3, KInvFrame DEF DeleteMulti, TypeOK, Completing3
  <1>4. ASSUME NEW b \in Buckets, NEW k \in Keys, DeleteObject(b, k) PROVE KInv'
    BY <1>4, KInvFrame DEF DeleteObject, TypeOK, Completing3
  <1>5. ASSUME NEW b \in Buckets, NEW k \in Keys, NEW d \in Bodies, PutObject(b, k, d)
        PROVE  KInv'
    BY <1>5, KInvFrame DEF PutObject, TypeOK, Completing3
  <1>6. ASSUME NEW b \in Buckets, NEW k \in Keys, NEW id \in UploadIdInput,
               AbortMultipartUpload(b, k, id)
        PROVE  KInv'
    BY <1>6, KInvFrame DEF AbortMultipartUpload, TypeOK, Completing3
  <1>7. ASSUME NEW c \in Clients, NEW b \in Buckets, NEW k \in Keys,
               InitiateMultipartUpload(c, b, k)
        PROVE  KInv'
    BY <1>7, KInvFrame DEF InitiateMultipartUpload, TypeOK, Completing3
  <1>8. ASSUME NEW c \in Clients, NEW b \in Buckets, NEW k \in Keys,
               NEW id \in UploadIdInput, NEW pn \in PartNumberInput,
               PutMultipartUploadPart(c, b, k, id, pn)
        PROVE  KInv'
    BY <1>8, KInvFrame DEF PutMultipartUploadPart, TypeOK, Completing3
  <1>9. ASSUME NEW c \in Clients, NEW b \in Buckets, NEW k \in Keys,
               NEW id \in UploadIdInput, NEW list \in CompleteLists,
               CompleteMultipartUpload(c, b, k, id, list)
        PROVE  KInv'
    <2>1. UNCHANGED <<objects, uploads>>
      BY <1>9 DEF CompleteMultipartUpload
    <2>2. CompletedObjectAtUploadKey'
      BY <2>1 DEF KInv, CompletedObjectAtUploadKey
    <2>3. uploads[id].bucket = b /\ uploads[id].key = k
      BY <1>9 DEF CompleteMultipartUpload, UploadFound
    <2>4. HeldKeyInv'
      BY <1>9, <2>1, <2>3 DEF CompleteMultipartUpload, KInv, HeldKeyInv,
                              Completing3, TypeOK, IdleReq
    <2>. QED
      BY <2>2, <2>4 DEF KInv
  <1>10. ASSUME NEW c \in Clients, InitiateBegin(c) PROVE KInv'
    BY <1>10, KInvFrame DEF InitiateBegin, Finish, TypeOK, Completing3
  <1>11. ASSUME NEW c \in Clients, PutPartAdd(c) PROVE KInv'
    <2>1. req[c].id \in 1..(nextId - 1)
      BY <1>11 DEF PutPartAdd, ReqInv
    <2>2. \A j \in 1..(nextId - 1) : /\ uploads'[j].bucket = uploads[j].bucket
                                     /\ uploads'[j].key = uploads[j].key
      <3>1. CASE UNCHANGED uploads
        BY <3>1
      <3>2. CASE \E d \in Bodies :
                   uploads' = [uploads EXCEPT ![req[c].id].parts = AddPart(@, req[c].pn, d)]
        BY <3>2, <2>1 DEF TypeOK
      <3>. QED
        BY <1>11, <3>1, <3>2 DEF PutPartAdd
    <2>3. UNCHANGED <<objects, nextId>> /\ pc'[c] = "idle"
          /\ \A x \in Clients \ {c} : pc'[x] = pc[x] /\ req'[x] = req[x]
      BY <1>11 DEF PutPartAdd, Finish, TypeOK
    <2>4. \A x \in Clients :
            Completing3(x)' => /\ Completing3(x)
                               /\ req'[x].id = req[x].id
                               /\ req'[x].bucket = req[x].bucket
                               /\ req'[x].key = req[x].key
      BY <2>3 DEF Completing3
    <2>5. nextId <= nextId'
      BY <2>3 DEF TypeOK
    <2>6. \A b \in Buckets, k \in Keys :
            objects'[b][k] \in {objects[b][k], None} \/ objects'[b][k].from = NoUpload
      BY <2>3
    <2>. QED
      BY <2>2, <2>4, <2>5, <2>6, KInvFrame
  <1>12. ASSUME NEW c \in Clients, CompleteReassemble(c) PROVE KInv'
    <2>1. UNCHANGED <<objects, uploads, nextId>> /\ Completing3(c)
          /\ \A x \in Clients \ {c} : pc'[x] = pc[x] /\ req'[x] = req[x]
      BY <1>12 DEF CompleteReassemble, Finish, TypeOK, Completing3
    <2>2. Completing3(c)' => /\ req'[c].id = req[c].id
                             /\ req'[c].bucket = req[c].bucket
                             /\ req'[c].key = req[c].key
      BY <1>12 DEF CompleteReassemble, Finish, TypeOK, Completing3, ReqRec
    <2>3. \A x \in Clients :
            Completing3(x)' => /\ Completing3(x)
                               /\ req'[x].id = req[x].id
                               /\ req'[x].bucket = req[x].bucket
                               /\ req'[x].key = req[x].key
      BY <2>1, <2>2 DEF Completing3
    <2>4. nextId <= nextId'
      BY <2>1 DEF TypeOK
    <2>5. \A b \in Buckets, k \in Keys :
            objects'[b][k] \in {objects[b][k], None} \/ objects'[b][k].from = NoUpload
      BY <2>1
    <2>6. \A j \in 1..(nextId - 1) : /\ uploads'[j].bucket = uploads[j].bucket
                                     /\ uploads'[j].key = uploads[j].key
      BY <2>1
    <2>. QED
      BY <2>3, <2>4, <2>5, <2>6, KInvFrame
  <1>13. ASSUME NEW c \in Clients, CompletePut(c) PROVE KInv'
    <2>1. req[c].id \in 1..(nextId - 1)
          /\ uploads[req[c].id].bucket = req[c].bucket
          /\ uploads[req[c].id].key = req[c].key
      BY <1>13 DEF CompletePut, ReqInv, KInv, HeldKeyInv, Completing3
    <2>2. UNCHANGED <<uploads, nextId>>
      BY <1>13 DEF CompletePut
    <2>3. CompletedObjectAtUploadKey'
      <3>1. CASE UNCHANGED objects
        BY <2>2, <3>1 DEF KInv, CompletedObjectAtUploadKey
      <3>2. CASE objects' = [objects EXCEPT ![req[c].bucket][req[c].key] =
                               [content |-> req[c].asm, from |-> req[c].id]]
        <4>1. req[c].bucket \in Buckets /\ req[c].key \in Keys
          BY <1>13 DEF CompletePut, ReqInv
        <4>2. SUFFICES ASSUME NEW b \in Buckets, NEW k \in Keys,
                              objects'[b][k] # None, objects'[b][k].from # NoUpload
                       PROVE  /\ objects'[b][k].from \in DOMAIN uploads'
                              /\ uploads'[objects'[b][k].from].bucket = b
                              /\ uploads'[objects'[b][k].from].key = k
          BY DEF CompletedObjectAtUploadKey
        <4>3. CASE b = req[c].bucket /\ k = req[c].key
          <5>1. objects'[b][k] = [content |-> req[c].asm, from |-> req[c].id]
            BY <3>2, <4>1, <4>3 DEF TypeOK
          <5>. QED
            BY <2>1, <2>2, <4>3, <5>1 DEF TypeOK
        <4>4. CASE ~(b = req[c].bucket /\ k = req[c].key)
          <5>1. objects'[b][k] = objects[b][k]
            BY <3>2, <4>1, <4>4 DEF TypeOK
          <5>. QED
            BY <2>2, <4>2, <5>1 DEF KInv, CompletedObjectAtUploadKey
        <4>. QED
          BY <4>3, <4>4
      <3>. QED
        BY <1>13, <3>1, <3>2 DEF CompletePut
    <2>4. HeldKeyInv'
      BY <1>13, <2>2 DEF CompletePut, Finish, KInv, HeldKeyInv, Completing3, TypeOK
    <2>. QED
      BY <2>3, <2>4 DEF KInv
  <1>14. CASE UNCHANGED vars
    BY <1>14 DEF vars, KInv, CompletedObjectAtUploadKey, HeldKeyInv, Completing3
  <1>. QED
    BY <1>1, <1>2, <1>3, <1>4, <1>5, <1>6, <1>7, <1>8, <1>9, <1>10, <1>11,
       <1>12, <1>13, <1>14 DEF Next, CreateObject, CreateObjectBrowserUpload

\* completeMultipartUpload stores its object at the bucket and key the
\* upload was initiated for, never at others a racing request named, for
\* every value of the constants.
THEOREM CompletedObjectAtUploadKeyHolds == Spec => []CompletedObjectAtUploadKey
  <1>1. Init => KInv
    BY DEF Init, KInv, CompletedObjectAtUploadKey, HeldKeyInv, Completing3,
           EmptyBucket
  <1>2. IInv /\ KInv /\ [Next]_vars => IInv' /\ KInv'
    BY NextIInv, NextKInv
  <1>. QED
    BY <1>1, <1>2, InitIInv, PTL DEF Spec, KInv
=============================================================================
