# TLA+ models of gofakes3

This directory holds TLA+ models of the gofakes3 S3 emulator's request handlers, and the TLC runs and TLAPS proofs that check them. All line references are to files under `src/`:
- `src/unnamed/part_005` holds `gofakes3.go` (lines 1–674), followed by its tests (675–1096).
- `src/unnamed/part_002` holds `range.go` (lines 1–124), followed by the S3 Select JSON selector (`Select`, `selectJSON`, `parseQuery`).
- `src/unnamed/part_003` holds the SQL selector, and `src/unnamed/part_004` the `SelectQuery` builder the query parser calls back.
- `src/selector.go` holds the `Selector` interface.

## 1. The system

gofakes3 serves the S3 HTTP API over a pluggable storage backend.

- **Request flow.** Every request runs on its own goroutine. `Server` (part_005:92–104) builds the chain: `hostBucketMiddleware` outermost when enabled, then `timeSkewMiddleware` when a limit is set, then `withCORS` around the router. The router then calls one handler.
- **Two shared stores.** The handlers share state only through these two:
  - **The backend.** It holds buckets and, in each, objects by key. Its implementations are not under `src/`. The spec (sections 4.3 and 4.4) says each call is atomic and that `DeleteBucket` refuses a non-empty bucket.
  - **The uploader.** It keeps in-progress multipart uploads in a registry by ID. Each upload holds a parts table keyed by part number. `uploader.go` is not under `src/`. The spec (section 5) says `Begin`, `Get` and `Complete` are atomic. `Complete` removes the upload from the registry and hands it to its caller. `AddPart` and `Reassemble` work on the upload object itself.
- **How handlers interact.** A handler calls the stores one or more times. Between those calls, other requests run:
  - `putMultipartUploadPart` calls `uploader.Get` (line 502), reads the whole body, then calls `upload.AddPart` (line 534).
  - `completeMultipartUpload` calls `uploader.Complete` (line 563), then `Reassemble` (568), then `storage.PutObject` (573).
  - `initiateMultipartUpload` calls `ensureBucketExists` (473), then `uploader.Begin` (477).
  - `deleteBucket` never consults the uploader.
- **S3 Select.** Every `Selector` is a stub: the JSON selector parses the query and walks the input stream, then answers `ErrNotImplemented`; the SQL and S3Select selectors answer it at once.
- **Range requests.** `getObject` parses the `Range` header with `parseRangeHeader`. It resolves the result against the object's size with `ObjectRangeRequest.Range`, and writes `Content-Range` and `Content-Length` with `ObjectRange.writeHeader`. All of this is int64 arithmetic on client-supplied numbers.

### Hard behaviours

These are what tests hardly reach:
- a part upload racing an abort or a complete on the same upload;
- two completes, or an abort and a complete, on one ID;
- a bucket deleted between initiate's bucket check and `Begin`, or between complete's `Reassemble` and `PutObject`;
- failures after `Complete` has already removed the upload;
- part-number and byte-range boundaries, and int64 overflow in range arithmetic.

PROJECT.json lists each hazard at its line.

## 2. Modules

| Module | Models | State |
|---|---|---|
| `Multipart` | Bucket, object and multipart handlers over the backend and the uploader, with any number of concurrent clients | `buckets`, `objects` (backend); `registry`, `uploads`, `nextId` (uploader); `pc`, `req` (each client's step and locals); `ended` (history) |
| `UploadLifecycle` | What the uploader promises (spec 4.4, 5): the abstract lifecycle of an upload ID | `fate` (none, open, completing, closed, failed), `holders` |
| `MultipartProofs` | TLAPS: type correctness and abort/complete exclusivity | — |
| `MultipartStoreProofs` | TLAPS: `CompletedObjectAtUploadKey` | — |
| `MultipartRefinementProofs` | TLAPS: `Multipart` implements `UploadLifecycle` | — |
| `ObjectRange` | `parseRangeHeader`, `Range`, `writeHeader`, `getObject` | `request` (header, size), `response` |
| `ObjectRangeProofs` | TLAPS: type correctness and `RangeServesRequestedBytes` | — |
| `Middleware` | `Server`'s chain, `timeSkewMiddleware`, `hostBucketMiddleware`; `withCORS` and the router from the spec | `cfg`, `chain`, `stage`, `rq`, `url`, `now`, `resp` |
| `RequestDispatch` | What the chain promises (spec 4.2): one atomic answer per request | `cfg`, `rq`, `now`, `resp` |
| `MiddlewareProofs` | TLAPS: type correctness, `SkewWindow`, `HostRouting`, and `Middleware` implements `RequestDispatch` | — |
| `Select` | `Selector.Select` of the three selectors, `parseQuery`, the `SelectQuery` callbacks, `selectJSON`'s decode loop | `call`, `pc`, `q`, `log`, `pos`, `err` |
| `SelectProofs` | TLAPS: type correctness and `SelectOutcome` | — |
| `SelectQueryProofs` | TLAPS: `QueryFollowsCallbacks` | — |
| `MCMultipart`, `MCObjectRange`, `MCMiddleware`, `MCSelect` | TLC instances | — |

### Multipart

Each handler becomes one action per call it makes into a shared store. Local validation that precedes a call is folded into the action of that call. This covers metadata size, Content-Length, key length, XML parsing and the MD5 check. A failure there changes nothing, so it is a stutter.

| Action | Code | What it does |
|---|---|---|
| `CreateBucket`, `DeleteBucket` | `createBucket` 214–228, `deleteBucket` 230–235 | one backend call each |
| `CreateObject`, `CreateObjectBrowserUpload` | 345–387, 292–342 | `PutObject` of one payload |
| `DeleteObject`, `DeleteMulti` | 389–398, 400–435 | remove one key / a set of keys |
| `InitiateMultipartUpload` → `InitiateBegin` | 466–475 → 477–480 | bucket check, then `uploader.Begin` (fresh ID, empty parts) |
| `PutMultipartUploadPart` → `PutPartAdd` | 482–508 → 510–541 | part-number check and `uploader.Get`; then read the body (may fail) and `AddPart` on the upload kept from `Get` |
| `AbortMultipartUpload` | 543–547 | `uploader.Complete`, result dropped |
| `CompleteMultipartUpload` → `CompleteReassemble` → `CompletePut` | 549–566 → 568–571 → 573–582 | remove from the registry; check and concatenate the named parts; `PutObject` into the upload's bucket (NoSuchBucket if gone) |

Abstractions in `Multipart`:
- A payload is a model value. `LargeBodies` are the payloads at least `DefaultUploadPartSize` long. An ETag is the payload itself, since MD5 is taken as injective.
- Bucket names and keys are model values. All are valid.
- The uploader's lookups (`UploadFound`), removal (`Unregistered`), `AddPart`, and `Reassemble`'s checks (`ReassembleOK`, `Reassembled`) follow spec section 5. They are marked `spec_modelled` in the map.
- An upload stays in `uploads` after `Complete` has detached it, so that a late `AddPart` on the kept pointer is still modelled (see finding 1).
- There are two history variables:
  - `ended[id]` counts acknowledged aborts and successful completes.
  - `req[c].snap` records the parts table at the moment `Complete` removed the upload.

### ObjectRange

A header is abstracted to what `parseRangeHeader` looks at:
- the unit;
- the number of comma-separated ranges;
- whether there is a dash;
- the two tokens around the dash, each empty, junk, or a decimal literal.

Go's int64 is an `IntWidth`-bit two's-complement integer:
- `ParseIntOK` rejects a literal outside it;
- `Wrap` reduces every sum as Go does.

The backend's `GetObject` applies `rnge.Range(size)`, as the spec says. `getObject` answers 416 for `ErrInvalidRange` and otherwise never sets a status (so 200).

The reference is RFC 7233 section 2.1. It is given by `RFCSatisfiable`, `RFCFirst` and `RFCLast`.

### Middleware

One behaviour is one request passing down the chain `Server` built from the options (`Server`, `Init`). Each handler of the chain is one action:
- `HostBucketStep` (part_005:127–141): the first label of the Host becomes the bucket, and the path is rewritten to `/bucket` + path, or `/bucket` for `/` (`HostedPath`).
- `TimeSkewStep` (part_005:106–123): the request is refused `RequestTimeTooSkewed`, or passed on.
- `CorsStep` (spec 4.2, `spec_modelled`): OPTIONS is answered, anything else is routed by `Route` (spec 4.1, `spec_modelled`).

Time is counted in `time.Duration` ticks, a `DurWidth`-bit two's-complement integer:
- `Sub` is `Time.Sub`, which saturates at the Duration bounds;
- `Wrap` is Duration arithmetic, used for `-g.timeSkew`;
- `ParseDate` is `time.Parse` with its error discarded: an unparseable header yields `ZeroTime`, the zero `time.Time`, further from every clock reading than the largest Duration.

A Host is the sequence of its labels and a path the sequence of its segments, so the string splitting is modelled by what it does.

`RequestDispatch` is the abstract specification of the chain. Its one action `Respond` writes `Answer(cfg, rq, now)`:
- a refusal when a limit is set, the date header is present and the date is too far off;
- otherwise a preflight for OPTIONS;
- otherwise the router's answer for the path, rewritten when host-bucket addressing is on.

How a date is judged, a path rewritten and a path routed are constant operators of `RequestDispatch`. `Middleware` instantiates them with `TooSkewed`, `HostedPath` and `Route` (`Dispatch == INSTANCE RequestDispatch WITH ...`). So the refinement is about the order of the decisions and the once-only answer, not the arithmetic. `chain`, `stage` and `url` are hidden.

### Select

`Select` dispatches on the selector and the input's dynamic type (`JSONSelect`, `SQLSelect`, `S3SelectSelect`). `ParseQuery` follows `parseQuery`'s three error returns. A parsed query then runs any sequence of at most `MaxCallbacks` builder callbacks: the PEG grammar is generated code outside `src/`, so every order of callbacks is allowed. `Decode` is one iteration of `selectJSON`'s loop. Two details are modelled:
- `strconv.ParseInt`'s clamping of an out-of-range index (`ParseIntClamped`), in `IntWidth`-bit ints;
- `eatPath`'s reset of the current path (`EatPath`).

A document is one the `json.Decoder` accepts ("doc") or rejects ("bad"). `log` is a history variable of the callbacks. `QueryFollowsCallbacks` is `Follows(log, q)`: the history operators (`Eats`, `EatenAt`, `PendingParts`, `ListsParts`) take the history as a parameter and are non-recursive. A path lists a set of parts when some increasing enumeration of the set maps onto the path. So the same definitions serve TLC and TLAPS.

`Answer(c)` is the error a call owes its caller. It follows the error returns of `Selector.Select`, `selectJSON` and `parseQuery` in their order, and is decided by the call's arguments alone.

## 3. Runs

| Run | Config | Expect | Checks |
|---|---|---|---|
| multipart_safety | `MCMultipart.cfg` | pass | `TypeOK`, `AbortCompleteExclusive`, `CompletedObjectAtUploadKey` |
| multipart_snapshot | `MCMultipartSnapshot.cfg` | violation | `ReassembleSeesRemovalSnapshot` (action property) |
| range_reference | `MCObjectRange.cfg` | pass | `TypeOK`, `RangeServesRequestedBytes` |
| range_clamp | `MCObjectRangeClamp.cfg` | violation | `ResolvedRangeWithinObject` |
| middleware_chain | `MCMiddleware.cfg` | pass | `TypeOK`, `SkewWindow`, `HostRouting` |
| middleware_dispatch | `MCMiddlewareDispatch.cfg` | pass | `DispatchRefined` (`Dispatch!Spec` as a property) |
| middleware_unparseable_date | `MCMiddlewareParse.cfg` | violation | `UnparseableDateBypasses` |
| select_stub | `MCSelect.cfg` | pass | `TypeOK`, `QueryFollowsCallbacks`, `SelectOutcome` |
| multipart_refinement | `MCMultipartRefinement.cfg` | pass | `LifecycleRefined` (`Lifecycle!Spec` as a property) |

What the multipart properties say:
- **AbortCompleteExclusive.** Racing aborts and completes acknowledge an upload at most once.
- **CompletedObjectAtUploadKey.** A completed object lies at the bucket and key its upload was begun for.
- **LifecycleRefined.** The handlers implement `UploadLifecycle`. The refinement mapping (`UploadFate`, `UploadHolders` in `Multipart`) works as follows:
  - an ID at or past `nextId` is none;
  - a registered ID is open;
  - an ID held by a request in its Reassemble or PutObject step is completing, with that request as its holder;
  - otherwise the ID is closed when acknowledged once, and failed when never acknowledged.

What the other properties say:
- **SkewWindow.** With a limit below the largest Duration, a request with no date or a parseable one is refused exactly when a limit is set and the true distance between its date and the clock exceeds it. This is stated in exact arithmetic, against the code's saturating `Sub` and wrapped negation.
- **HostRouting.** With virtual-host addressing on, a routed request reaches the router with the first Host label as bucket and its whole original path as key.
- **DispatchRefined.** The chain implements `RequestDispatch`. The rewrite and pass-on steps are stutters, and the step that writes the response writes the abstract answer. A chain in which `hostBucketMiddleware` wrapped the base handler instead of the one built so far, dropping the skew check, is caught.
- **QueryFollowsCallbacks.** Each SELECT field, the FROM path and the current path of the `SelectQuery` hold exactly the path parts reported since the previous clause, in order.
- **SelectOutcome.** Every `Select` call ends with the error its arguments decide (`Answer(call)`), whatever callbacks ran. In particular `selectJSON`'s `ErrInternal` branch is unreachable.

### Bounds

**MCMultipart:**
- 2 clients;
- 1 bucket with 2 keys;
- 2 payloads, one large and one small;
- part numbers 1..2, with 0 and 3 also sent to probe the check;
- at most 2 upload IDs;
- 4 completion lists: empty, in order with a small last part, in order with a small first part, and out of order.

Why these bounds are enough:
- Two clients suffice for every race above: one request between two steps of another.
- Two keys let a request name an ID under the wrong key.
- Two IDs let an abort and a complete target different uploads.
- Symmetry over clients is sound, because nothing distinguishes them.
- The run has about 2 million distinct states and takes about 80 s.

**MCObjectRange:**
- 4-bit integers, so MinInt = −8 and MaxInt = 7;
- object sizes 0..4;
- literals from MinInt − 1 to MaxInt + 1, so every parse overflow, every wrap and every clamp boundary occurs.

**MCMiddleware:**
- 4-bit Durations, so MaxDur = 7;
- clock readings and dates {0, 1, 4, 13}, and the zero time at −100;
- limits {0, 3, 7}: off, one that distances 4 and 13 exceed, and the largest Duration;
- two labels, so that first and last Host labels differ.

So every sign of the skew occurs, and so do saturation and the wrapped negation of the largest limit.
middleware_dispatch uses the same instance: all four chains occur, with OPTIONS and GET requests, dated inside and outside the window.

**MCSelect:**
- 4-bit ints;
- index literals 1 and MaxInt + 1, the second to reach the clamp;
- one name;
- up to 4 callbacks, so that a FROM path, a field and parts before and after each occur;
- streams of up to 2 documents.

**MCMultipartRefinement:**
- 2 clients, 1 bucket, 2 keys, 2 upload IDs;
- one part number, with completion lists {empty, the small part, the large part}.

These smaller bounds keep the refinement check within minutes without symmetry. Every race of a complete with an abort, a part upload or a bucket deletion still occurs.

In `ObjectRange`, `Middleware` and `Select`, a behaviour is one call and its answer, so deadlock checking is off (`CHECK_DEADLOCK FALSE`): a finished call has no further step.

### Liveness

No liveness property is checked. Every continuation step of a multipart handler (`InitiateBegin`, `PutPartAdd`, `CompleteReassemble`, `CompletePut`) is enabled whenever its client is at that step. Each one also has an error branch that returns. So "every begun request returns" would hold under weak fairness by the shape of the model, whatever the handlers compute. A Go handler's `return err` cannot fail to return, so such a property would say nothing about the code.

## 4. Findings

1. **A part added after removal.** `putMultipartUploadPart` adds its part to the upload obtained from `uploader.Get` even after a complete removed it. `Reassemble` then sees a part added after the removal (`ReassembleSeesRemovalSnapshot`, part_005:534). The code's FIXME at lines 504–507 admits the retained reference.
2. **Ranges outside the object.** `Range` returns negative lengths or starts:
   - for a start at or beyond the object's end;
   - for a negative suffix `bytes=--N`, which `parseRangeHeader` accepts.

   The spec says the range is clamped to [0, size] (`ResolvedRangeWithinObject`). The test at part_005:959 ("if the requested start is beyond the real end, it should still work") covers only `bytes=1024-1024` on a 1024-byte object. That resolves to length 0; a start one byte further resolves to length −1.
3. **Unparseable dates are refused.** The spec (sections 4.2 and 9) says an unparseable `x-amz-date` bypasses the skew check. `timeSkewMiddleware` discards `time.Parse`'s error (part_005:111) and measures the skew from the zero time, which `Sub` saturates to the largest Duration. So a garbled date is refused whenever a limit below the largest Duration is set (`UnparseableDateBypasses`).

## 5. Proofs

Three modules hold the TLAPS proofs about `Multipart`, one module each those about `Middleware` and `ObjectRange`, and two those about `Select`. Each theorem holds for every value of the constants. For `Multipart` the only assumptions are its `ASSUME`s:
- `MaxPartNumber` is a positive natural;
- `LargeBodies` is a subset of `Bodies`;
- `None` is outside the data sets and the clients;
- the completion lists are sequences of ⟨part number, ETag⟩.

**`TypeCorrect`: `Spec => []TypeOK`** (`MultipartProofs`).
- `TypeOK` alone is not inductive. A step such as `PutPartAdd` or `CompletePut` uses locals that an earlier step stored.
- The strengthening `ReqInv` says that a client past its first step holds a real bucket and key. A client in a part or complete step holds an allocated ID, and a part step holds a valid part number.
- `IInv == TypeOK /\ ReqInv` is proved initial (`InitIInv`) and preserved (`NextIInv`), with one step per action.

**`AbortCompleteExclusiveHolds`: `Spec => []AbortCompleteExclusive`** (`MultipartProofs`).
- The strengthening `ExclInv` says that each allocated ID is held in one of three ways: by the registry, by exactly one request in its `Reassemble` or `PutObject` step, or by nobody. While the ID is held, its counter is 0.
- Abort and `CompletePut` are the only steps that raise the counter, and each needs the ID held. `Complete` moves the hold from the registry to one request.

**`CompletedObjectAtUploadKeyHolds`: `Spec => []CompletedObjectAtUploadKey`** (`MultipartStoreProofs`).
- `CompletePut` writes at the bucket and key the request named. So the strengthening `HeldKeyInv` says that a request holding an upload for completion named the bucket and key the upload was begun for. `CompleteMultipartUpload` establishes this through `UploadFound`.
- `KInvFrame` states what the other steps preserve: every upload's bucket and key, no object of an upload written, no complete started.

**`LifecycleRefinedHolds`: `Spec => LifecycleRefined`** (`MultipartRefinementProofs`).
- `InitRefines`: the initial state maps to `UploadLifecycle`'s.
- `NextRefines`: under `IInv /\ ExclInv`, each step maps to one lifecycle step or a stutter:
  - `InitiateBegin` is `Begin` (`BeginRefines`);
  - an abort is `Abort` (`AbortRefines`);
  - `CompleteMultipartUpload` is `Complete` (`CompleteRefines`);
  - a completing request that returns is `Commit` when `PutObject` stored the object, and `Fail` otherwise (`ReleaseRefines`);
  - every other step is a stutter (`QuietStep`, `QuietClient`).
- `ExclInv` is what makes the mapped step legal. A registered ID has no holder and a zero counter, so an abort lands on closed. A held ID has one holder, so its release leaves no other holder.
- `FatePoint` states that an ID's fate depends only on its own registration, counter and holders.
- Before the proofs, TLC checked each strengthening as an invariant of the MCMultipart instance.

**`MiddlewareTypeCorrect`, `SkewWindowHolds`, `HostRoutingHolds`** (`MiddlewareProofs`).
- The inductive invariant `IInv` adds to `TypeOK` four facts:
  - the chain is `Server(cfg)`;
  - `url` is the client's path, rewritten once `hostBucketMiddleware` has run (`UrlInv`);
  - a response is written only by the handler the request is in (`RespInv`);
  - a request that reached `withCORS` under a nonzero limit passed the skew test (`PassInv`).
- `ChainShape` states what the four chains `Server` builds look like: CORS last, host bucket first, and the skew check right before CORS.
- `SkewExact` turns the code's test, a saturating `Sub` compared with a wrapped negation, into `Abs(now - date) > limit` for limits below the largest Duration. Its proof needs `WrapId`: `Wrap` is the identity on Durations.
- `RoutePaths` states what `Route` makes of a rewritten path: the bucket is the first Host label and the key is the original path.

**`DispatchRefinedHolds`: `Spec => DispatchRefined`** (`MiddlewareProofs`).
- `InitDispatch`: the initial state maps to `RequestDispatch`'s.
- `StepDispatch`: under `IInv`, `HostBucketStep` and a passing `TimeSkewStep` change none of `cfg`, `rq`, `now` or `resp`. A refusing `TimeSkewStep` and `CorsStep` are `Respond`. `PassInv` and `UrlInv` show that `CorsStep`'s answer is `Answer`'s.

**`ObjectRangeTypeCorrect`, `RangeServesRequestedBytesHolds`** (`ObjectRangeProofs`).
- `IInv` says the response is either unwritten or is `getObject` of the request.
- `RangeExact` shows that a satisfiable header that parses resolves to a first and last byte inside the object, with `Range` equal to `ObjectRangeRec(first, last - first + 1)`. `WrapId` shows that the int64 arithmetic of `Range` and `writeHeader` never wraps on these values.

**`SelectTypeCorrect`, `SelectOutcomeHolds`** (`SelectProofs`).
- The inductive invariant `IInv` adds to `TypeOK`:
  - every part of the current and the FROM path has one of the three kinds (`KnownKinds`);
  - a call past `Select` has JSON input on the JSON selector, and a call past `parseQuery` has a query that parsed;
  - every document decoded so far was accepted;
  - a finished call has the error `Answer(call)`, and an unfinished one none.
- `KnownKinds` is what makes `selectJSON`'s `ErrInternal` branch unreachable. `CallbackIInv` covers every builder callback at once: a callback keeps `IInv` when the query it leaves has known kinds.

**`QueryFollowsCallbacksHolds`: `Spec => []QueryFollowsCallbacks`** (`SelectQueryProofs`).
- The invariant is inductive together with `IInv`. `IInv` supplies the types of `q` and `log`.
- The lemmas are about a history `L` and its extension `Append(L, entry)`, at constant level:
  - the old entries and eats are kept (`HistAppend`, `EatenAtAppend`);
  - the parts pending at an old index are unchanged (`PendingOld`);
  - after the new entry, the pending parts grow by the entry when it is a part, become empty after an eat, and are unchanged otherwise (`PendingNew`);
  - a listing survives the extension (`ListsStable`), and appending a part extends it by that index (`EnumAppend`, `ListsAppend`).
- One lemma per conjunct and per kind of entry (`FieldsKept`, `FieldsAdded`, `FromPathKept`, `FromPathSet`, `CurrentPathPart`, `CurrentPathOther`, `CurrentPathEaten`) gives `CallbackFollows`. That lemma covers every callback at once. `NextFollows` then shows, per callback, which of the five relations its query satisfies.

Assumptions on the constants:
- the `ASSUME`s of each module;
- for `Middleware`, `ObjectRange` and `Select`, one named fact about powers of two (`DurRangeAssumption`, `IntRangeAssumption`). The provers treat `2^n` as opaque for a symbolic `n`; TLC checks the fact on every run.

Before the proofs, TLC checked each strengthening as an invariant of its MC instance.

Only model-checked, on the bounds above:
- the properties of the violation runs, which are meant to fail.

Three kinds of fact stay with TLC:
- liveness and `ENABLED` (no liveness property is stated; see Liveness above);
- induction over data. No module declares a recursive operator: the one property that once needed one, `QueryFollowsCallbacks`, is now stated with bounded quantifiers over enumerations, and is proved;
- the arithmetic of `Wrap`/`Sub` beyond the range lemmas above, over all inputs.

## 6. Not modelled, and the plan

Not modelled:
- the read-only handlers (listings, HEAD), which change no state;
- `httpError`'s formatting, the tests, the magefile and the s3-tests script, which have no state or control a property tells apart;
- `metadataHeaders`, whose only visible effect is whether a handler proceeds;
- the PEG grammar of S3 Select, which is generated and not under `src/`: any callback sequence is allowed instead;
- `json.Decoder`, abstracted to accept or reject;
- the status code of a ranged GET. `getObject` writes 200 for every answer, and spec section 8 accepts 200 or 206, so no property is stated about it; the bytes served are checked by `RangeServesRequestedBytes` and `ResolvedRangeWithinObject`;
- the backends, which are not under `src/`. So the hazard at part_005:375 has no property. A Content-MD5 mismatch is found only at EOF, inside the backend's `PutObject`, and whether a partial object is stored depends on the backend. The model takes `PutObject` as all-or-nothing, as the spec says.

`withCORS`, `routeBase` and the uploader are not under `src/`. They are modelled from the spec and marked `spec_modelled` in the map.

Planned next:
- listing handlers checked against the `Multipart` state;
- a refinement that includes the part tables, where finding 1 shows the handlers fall short of an atomic uploader;
