----------------------------- MODULE Multipart -----------------------------
(***************************************************************************)
(* The gofakes3 request handlers that change state (gofakes3.go), running  *)
(* concurrently, over the multipart uploader and a storage backend.        *)
(*                                                                         *)
(* Every HTTP request is served on its own goroutine.  The uploader and    *)
(* the backend are each internally locked, so a call into either is one   *)
(* atomic step; a handler that calls them several times is split into one *)
(* step per call, and requests of different clients interleave between    *)
(* those steps.  Local validation (header parsing, metadata size, key      *)
(* length) is folded into the step that follows it.                        *)
(*                                                                         *)
(* The uploader (uploader.go) and the backend are not part of the sources  *)
(* modelled here; their operations follow the spec (sections 4.3, 4.4, 5). *)
(***************************************************************************)
EXTENDS Naturals, Sequences, FiniteSets

CONSTANTS
  Clients,        \* concurrent request goroutines
  Buckets,        \* bucket names (all pass ValidateBucketName)
  Keys,           \* object keys (all within KeySizeLimit)
  Bodies,         \* request payloads; MD5 is taken to be injective on them
  LargeBodies,    \* payloads of at least DefaultUploadPartSize bytes
  MaxPartNumber,  \* stands for MaxUploadPartNumber (10000)
  MaxUploads,     \* bound: upload IDs the model lets the uploader allocate
  CompleteLists,  \* the <PartNumber, ETag> lists a client may send to complete
  None            \* absent bucket, key, object or payload

ASSUME BodiesAssumption == LargeBodies \subseteq Bodies
ASSUME PartNumberAssumption == MaxPartNumber \in Nat \ {0}
ASSUME MaxUploadsAssumption == MaxUploads \in Nat
ASSUME NoneAssumption == None \notin Buckets \cup Keys \cup Bodies \cup Clients

PartNumbers == 1..MaxPartNumber

\* Part numbers a client may put in the query string: the valid ones and one
\* on each side of them.
PartNumberInput == 0..(MaxPartNumber + 1)


NoUpload == 0

ASSUME CompleteListsAssumption ==
  CompleteLists \subseteq Seq([pn : PartNumbers, etag : Bodies])

VARIABLES
  buckets,   \* backend: the buckets that exist
  objects,   \* backend: objects[b][k] is an object record or None
  registry,  \* uploader: the upload IDs still registered
  uploads,   \* uploader: every upload ever begun, by ID, registered or detached
  nextId,    \* uploader: the next upload ID
  pc,        \* the step each client's request is at
  req,       \* the locals of each client's request
  ended      \* history: acknowledged aborts and completes, per upload ID

vars == <<buckets, objects, registry, uploads, nextId, pc, req, ended>>

(***************************************************************************)
(* Types.                                                                  *)
(***************************************************************************)
\* A parts table: part number to the payload stored there (its ETag is the
\* payload's MD5).
PartTables == UNION {[S -> Bodies] : S \in SUBSET PartNumbers}

EmptyTable == [n \in {} |-> None]

UploadRec == [bucket : Buckets, key : Keys, parts : PartTables]

ObjectRec == [content : Seq(Bodies), from : Nat]

CompletePart == [pn : PartNumbers, etag : Bodies]

Steps == {"idle", "initBegin", "partAdd", "cmpReassemble", "cmpPut"}

\* A request's locals; snap is a history field: the parts table as it was
\* when completeMultipartUpload detached the upload.
ReqRec == [bucket : Buckets \cup {None}, key : Keys \cup {None}, id : Nat,
           pn : Nat, list : Seq(CompletePart), asm : Seq(Bodies),
           snap : PartTables]

IdleReq == [bucket |-> None, key |-> None, id |-> NoUpload, pn |-> 0,
            list |-> << >>, asm |-> << >>, snap |-> EmptyTable]

TypeOK ==
  /\ buckets \subseteq Buckets
  /\ objects \in [Buckets -> [Keys -> ObjectRec \cup {None}]]
  /\ nextId \in Nat \ {0}
  /\ uploads \in [1..(nextId - 1) -> UploadRec]
  /\ registry \subseteq 1..(nextId - 1)
  /\ ended \in [1..(nextId - 1) -> Nat]
  /\ pc \in [Clients -> Steps]
  /\ req \in [Clients -> ReqRec]

(***************************************************************************)
(* The backend (spec 4.3; the implementations are not modelled).           *)
(***************************************************************************)
BucketExists(b) == b \in buckets

BucketIsEmpty(b) == \A k \in Keys : objects[b][k] = None

EmptyBucket == [k \in Keys |-> None]

(***************************************************************************)
(* The uploader (spec 4.4 and 5; uploader.go is not modelled).             *)
(***************************************************************************)

\* Mutant: the lookup keys on the ID alone, ignoring bucket and key.
UploadFoundByIdOnly(id, b, k) == id \in registry

\* uploader.Get and uploader.Complete: the ID is registered and was begun
\* for this bucket and key; otherwise ErrNoSuchUpload.
UploadFound(id, b, k) ==
  /\ id \in registry
  /\ uploads[id].bucket = b
  /\ uploads[id].key = k

\* Mutant: Complete hands out the upload but leaves it registered.
UnregisteredKept(id) == registry

\* uploader.Complete removes the upload from the registry, detaching it.
Unregistered(id) == registry \ {id}

\* multipartUpload.AddPart: last writer wins at a part number.
AddPart(p, pn, body) ==
  [n \in DOMAIN p \cup {pn} |-> IF n = pn THEN body ELSE p[n]]

\* multipartUpload.Reassemble's checks: part numbers strictly ascending,
\* every named part present with the named ETag, every part but the last
\* at least DefaultUploadPartSize.
ReassembleOK(p, list) ==
  /\ \A i \in 1..(Len(list) - 1) : list[i].pn < list[i + 1].pn
  /\ \A i \in 1..Len(list) :
       list[i].pn \in DOMAIN p /\ p[list[i].pn] = list[i].etag
  /\ \A i \in 1..(Len(list) - 1) : p[list[i].pn] \in LargeBodies

\* The concatenation Reassemble returns, one payload per named part.
Reassembled(p, list) == [i \in 1..Len(list) |-> p[list[i].pn]]

(***************************************************************************)
(* Handler helpers (gofakes3.go).                                          *)
(***************************************************************************)

\* Mutant: part number 0 let through.
PartNumberValidFromZero(pn) == pn >= 0 /\ pn <= MaxPartNumber

\* putMultipartUploadPart's check on the partNumber query parameter.
PartNumberValid(pn) == pn > 0 /\ pn <= MaxPartNumber

\* A request returns to the client; its locals are dropped.
Finish(c) ==
  /\ pc' = [pc EXCEPT ![c] = "idle"]
  /\ req' = [req EXCEPT ![c] = IdleReq]

Init ==
  /\ buckets = {}
  /\ objects = [b \in Buckets |-> EmptyBucket]
  /\ registry = {}
  /\ uploads = << >>
  /\ nextId = 1
  /\ pc = [c \in Clients |-> "idle"]
  /\ req = [c \in Clients |-> IdleReq]
  /\ ended = << >>

(***************************************************************************)
(* Bucket and object handlers: one backend call each.                      *)
(***************************************************************************)

\* createBucket: the backend refuses a name in use (BucketAlreadyExists).
CreateBucket(b) ==
  /\ ~BucketExists(b)
  /\ buckets' = buckets \cup {b}
  /\ objects' = [objects EXCEPT ![b] = EmptyBucket]
  /\ UNCHANGED <<registry, uploads, nextId, pc, req, ended>>

\* deleteBucket: NoSuchBucket, BucketNotEmpty, or the bucket is removed.
\* In-progress uploads into the bucket are not consulted.
DeleteBucket(b) ==
  /\ BucketExists(b)
  /\ BucketIsEmpty(b)
  /\ buckets' = buckets \ {b}
  /\ UNCHANGED <<objects, registry, uploads, nextId, pc, req, ended>>

\* The backend's PutObject of a one-payload object (NoSuchBucket otherwise).
PutObject(b, k, d) ==
  /\ BucketExists(b)
  /\ objects' = [objects EXCEPT ![b][k] = [content |-> <<d>>, from |-> NoUpload]]
  /\ UNCHANGED <<buckets, registry, uploads, nextId, pc, req, ended>>

\* createObject: metadata, Content-Length and key checks, the Content-MD5
\* hashing reader, then PutObject.  A digest mismatch fails the read at EOF
\* and the backend stores nothing.
CreateObject(b, k, d) == PutObject(b, k, d)

\* createObjectBrowserUpload: the form's key and single file, then PutObject.
CreateObjectBrowserUpload(b, k, d) == PutObject(b, k, d)

\* deleteObject: a missing key is deleted silently; NoSuchBucket otherwise.
DeleteObject(b, k) ==
  /\ BucketExists(b)
  /\ objects' = [objects EXCEPT ![b][k] = None]
  /\ UNCHANGED <<buckets, registry, uploads, nextId, pc, req, ended>>

\* deleteMulti: the keys of the XML body deleted in one backend call.
DeleteMulti(b, ks) ==
  /\ BucketExists(b)
  /\ objects' = [objects EXCEPT ![b] = [k \in Keys |-> IF k \in ks THEN None ELSE @[k]]]
  /\ UNCHANGED <<buckets, registry, uploads, nextId, pc, req, ended>>

(***************************************************************************)
(* Multipart handlers: one step per uploader or backend call.              *)
(***************************************************************************)

\* initiateMultipartUpload, first step: metadataHeaders, then
\* ensureBucketExists.  (Bound: no more than MaxUploads IDs are allocated.)
InitiateMultipartUpload(c, b, k) ==
  /\ pc[c] = "idle"
  /\ nextId + Cardinality({x \in Clients : pc[x] = "initBegin"}) <= MaxUploads
  /\ BucketExists(b)
  /\ pc' = [pc EXCEPT ![c] = "initBegin"]
  /\ req' = [req EXCEPT ![c] = [IdleReq EXCEPT !.bucket = b, !.key = k]]
  /\ UNCHANGED <<buckets, objects, registry, uploads, nextId, ended>>

\* initiateMultipartUpload, second step: uploader.Begin registers a fresh
\* upload; the bucket is not checked again.
InitiateBegin(c) ==
  /\ pc[c] = "initBegin"
  /\ uploads' = [i \in 1..nextId |->
                   IF i = nextId
                   THEN [bucket |-> req[c].bucket, key |-> req[c].key,
                         parts |-> EmptyTable]
                   ELSE uploads[i]]
  /\ registry' = registry \cup {nextId}
  /\ ended' = [i \in 1..nextId |-> IF i = nextId THEN 0 ELSE ended[i]]
  /\ nextId' = nextId + 1
  /\ Finish(c)
  /\ UNCHANGED <<buckets, objects>>

\* putMultipartUploadPart, first step: the partNumber and Content-Length
\* checks, then uploader.Get, whose result the handler keeps.
PutMultipartUploadPart(c, b, k, id, pn) ==
  /\ pc[c] = "idle"
  /\ PartNumberValid(pn)
  /\ UploadFound(id, b, k)
  /\ pc' = [pc EXCEPT ![c] = "partAdd"]
  /\ req' = [req EXCEPT ![c] = [IdleReq EXCEPT !.bucket = b, !.key = k,
                                               !.id = id, !.pn = pn]]
  /\ UNCHANGED <<buckets, objects, registry, uploads, nextId, ended>>

\* putMultipartUploadPart, second step: the body is read (BadDigest or
\* IncompleteBody end the request), then AddPart on the upload kept from
\* the first step, whether or not it is still registered.
PutPartAdd(c) ==
  /\ pc[c] = "partAdd"
  /\ \/ /\ UNCHANGED <<uploads>>
        /\ Finish(c)
     \/ \E d \in Bodies :
          /\ uploads' = [uploads EXCEPT ![req[c].id].parts =
                                          AddPart(@, req[c].pn, d)]
          /\ Finish(c)
  /\ UNCHANGED <<buckets, objects, registry, nextId, ended>>

\* abortMultipartUpload: uploader.Complete, and the upload is dropped.
AbortMultipartUpload(b, k, id) ==
  /\ UploadFound(id, b, k)
  /\ registry' = Unregistered(id)
  /\ ended' = [ended EXCEPT ![id] = @ + 1]
  /\ UNCHANGED <<buckets, objects, uploads, nextId, pc, req>>

\* completeMultipartUpload, first step: the XML body is parsed, then
\* uploader.Complete detaches the upload.
CompleteMultipartUpload(c, b, k, id, list) ==
  /\ pc[c] = "idle"
  /\ UploadFound(id, b, k)
  /\ registry' = Unregistered(id)
  /\ pc' = [pc EXCEPT ![c] = "cmpReassemble"]
  /\ req' = [req EXCEPT ![c] = [IdleReq EXCEPT !.bucket = b, !.key = k,
                 !.id = id, !.list = list, !.snap = uploads[id].parts]]
  /\ UNCHANGED <<buckets, objects, uploads, nextId, ended>>

\* completeMultipartUpload, second step: Reassemble on the detached upload.
\* On an error the upload stays detached: it is gone for good.
CompleteReassemble(c) ==
  LET p == uploads[req[c].id].parts
      list == req[c].list
  IN  /\ pc[c] = "cmpReassemble"
      /\ \/ /\ ReassembleOK(p, list)
            /\ pc' = [pc EXCEPT ![c] = "cmpPut"]
            /\ req' = [req EXCEPT ![c].asm = Reassembled(p, list),
                                  ![c].list = << >>, ![c].snap = EmptyTable]
         \/ /\ ~ReassembleOK(p, list)
            /\ Finish(c)
      /\ UNCHANGED <<buckets, objects, registry, uploads, nextId, ended>>

\* completeMultipartUpload, third step: PutObject of the reassembled body
\* into the upload's bucket and key (NoSuchBucket if it has gone).
CompletePut(c) ==
  LET b == req[c].bucket
      k == req[c].key
  IN  /\ pc[c] = "cmpPut"
      /\ \/ /\ BucketExists(b)
            /\ objects' = [objects EXCEPT ![b][k] =
                             [content |-> req[c].asm, from |-> req[c].id]]
            /\ ended' = [ended EXCEPT ![req[c].id] = @ + 1]
         \/ /\ ~BucketExists(b)
            /\ UNCHANGED <<objects, ended>>
      /\ Finish(c)
      /\ UNCHANGED <<buckets, registry, uploads, nextId>>

(***************************************************************************)
(* The next-state relation.  Inputs range over small sets; an upload ID is *)
(* any a client could send, allocated or not.                              *)
(***************************************************************************)
UploadIdInput == 1..MaxUploads

Next ==
  \/ \E b \in Buckets :
       \/ CreateBucket(b)
       \/ DeleteBucket(b)
       \/ \E ks \in SUBSET Keys : DeleteMulti(b, ks)
       \/ \E k \in Keys :
            \/ DeleteObject(b, k)
            \/ \E d \in Bodies : CreateObject(b, k, d) \/ CreateObjectBrowserUpload(b, k, d)
            \/ \E id \in UploadIdInput : AbortMultipartUpload(b, k, id)
            \/ \E c \in Clients :
                 \/ InitiateMultipartUpload(c, b, k)
                 \/ \E id \in UploadIdInput :
                      \/ \E pn \in PartNumberInput : PutMultipartUploadPart(c, b, k, id, pn)
                      \/ \E list \in CompleteLists : CompleteMultipartUpload(c, b, k, id, list)
  \/ \E c \in Clients :
       InitiateBegin(c) \/ PutPartAdd(c) \/ CompleteReassemble(c) \/ CompletePut(c)

Spec == Init /\ [][Next]_vars

(***************************************************************************)
(* Properties.                                                             *)
(***************************************************************************)

\* An upload is acknowledged as aborted or as completed at most once, and
\* never both: abortMultipartUpload and completeMultipartUpload racing on
\* one ID (or two completes) must leave exactly one of them successful.
AbortCompleteExclusive == \A id \in DOMAIN ended : ended[id] <= 1

\* An object written by completeMultipartUpload sits at the bucket and key
\* its upload was initiated for, whatever bucket and key the complete
\* request named.
CompletedObjectAtUploadKey ==
  \A b \in Buckets, k \in Keys :
    objects[b][k] # None /\ objects[b][k].from # NoUpload =>
      /\ objects[b][k].from \in DOMAIN uploads
      /\ uploads[objects[b][k].from].bucket = b
      /\ uploads[objects[b][k].from].key = k

\* Spec 5 and 9: complete observes the parts table as it was when the upload
\* was removed from the registry.  Reassemble's outcome, success or error and
\* the body it assembles, is the one that snapshot gives.
ReassembleSeesRemovalSnapshot ==
  [][\A c \in Clients :
       pc[c] = "cmpReassemble" /\ pc'[c] # "cmpReassemble" =>
         /\ (pc'[c] = "cmpPut") = ReassembleOK(req[c].snap, req[c].list)
         /\ pc'[c] = "cmpPut" =>
              req'[c].asm = Reassembled(req[c].snap, req[c].list)]_vars


-----------------------------------------------------------------------------
(***************************************************************************)
(* Refinement: the handlers, over the uploader, implement the upload       *)
(* lifecycle of UploadLifecycle.  An ID at or past nextId is not begun; a  *)
(* registered one is open; one a complete request holds (in Reassemble or  *)
(* PutObject) is completing; otherwise it is closed when acknowledged once *)
(* and failed when never acknowledged.                                     *)
(***************************************************************************)
Completing(c, id) == pc[c] \in {"cmpReassemble", "cmpPut"} /\ req[c].id = id

UploadFate(id) ==
  IF id >= nextId THEN "none"
  ELSE IF id \in registry THEN "open"
  ELSE IF \E c \in Clients : Completing(c, id) THEN "completing"
  ELSE IF ended[id] = 0 THEN "failed"
  ELSE IF ended[id] = 1 THEN "closed"
  ELSE "closed again"

UploadHolders(id) == {c \in Clients : Completing(c, id)}

Lifecycle == INSTANCE UploadLifecycle WITH
               Ids <- 1..MaxUploads,
               fate <- [id \in 1..MaxUploads |-> UploadFate(id)],
               holders <- [id \in 1..MaxUploads |-> UploadHolders(id)]

\* The handlers keep the uploader's promise (spec 4.4 and 5): an upload is
\* begun once, leaves the registry by one abort or one complete, and a
\* complete holds it for its own request alone until it commits or fails.
LifecycleRefined == Lifecycle!Spec

=============================================================================
