--------------------------- MODULE UploadLifecycle ---------------------------
(***************************************************************************)
(* What the multipart uploader promises its callers (spec sections 4.4 and *)
(* 5), with the parts and the bytes left out: an upload ID is begun once,  *)
(* and while it is open one abort or one complete may take it out of the   *)
(* registry.  A complete then holds it for one request until that request  *)
(* commits the object or fails; nobody else can finish it.  holders[id] is *)
(* the set of requests holding the upload: empty, or the one request that  *)
(* completed it.                                                           *)
(*                                                                         *)
(*   none --Begin--> open --Abort--> closed                                *)
(*                   open --Complete--> completing --Commit--> closed      *)
(*                                      completing --Fail--> failed        *)
(***************************************************************************)
CONSTANTS
  Ids,        \* the upload IDs
  Clients     \* the requests that may complete an upload

VARIABLES
  fate,       \* fate[id]: where the upload is in its lifecycle
  holders     \* holders[id]: the requests completing it

vars == <<fate, holders>>

Fates == {"none", "open", "completing", "closed", "failed"}

TypeOK ==
  /\ fate \in [Ids -> Fates]
  /\ holders \in [Ids -> SUBSET Clients]

Init ==
  /\ fate = [id \in Ids |-> "none"]
  /\ holders = [id \in Ids |-> {}]

Begin(id) ==
  /\ fate[id] = "none"
  /\ fate' = [fate EXCEPT ![id] = "open"]
  /\ UNCHANGED holders

Abort(id) ==
  /\ fate[id] = "open"
  /\ fate' = [fate EXCEPT ![id] = "closed"]
  /\ UNCHANGED holders

\* A request completes one upload at a time.
Complete(c, id) ==
  /\ fate[id] = "open"
  /\ \A j \in Ids : c \notin holders[j]
  /\ fate' = [fate EXCEPT ![id] = "completing"]
  /\ holders' = [holders EXCEPT ![id] = {c}]

Commit(id) ==
  /\ fate[id] = "completing"
  /\ fate' = [fate EXCEPT ![id] = "closed"]
  /\ holders' = [holders EXCEPT ![id] = {}]

Fail(id) ==
  /\ fate[id] = "completing"
  /\ fate' = [fate EXCEPT ![id] = "failed"]
  /\ holders' = [holders EXCEPT ![id] = {}]

Next ==
  \E id \in Ids :
    \/ Begin(id) \/ Abort(id) \/ Commit(id) \/ Fail(id)
    \/ \E c \in Clients : Complete(c, id)

Spec == Init /\ [][Next]_vars
=============================================================================
