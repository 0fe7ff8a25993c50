------------------------ MODULE ObjectRangeProofs ------------------------
(***************************************************************************)
(* Proofs about range requests: for every int64 width and object size      *)
(* below the largest int64, getObject's response is well typed and a       *)
(* satisfiable range is served exactly.                                    *)
(***************************************************************************)
EXTENDS ObjectRange, TLAPS

(***************************************************************************)
(* int64 arithmetic.                                                       *)
(***************************************************************************)
LEMMA IntBounds ==
  /\ MaxInt \in Nat /\ MinInt = -(MaxInt + 1)
  /\ 2^IntWidth = 2 * (MaxInt + 1)
  /\ MaxSize \in 0..MaxInt
  BY IntRangeAssumption, MaxSizeAssumption DEF MinInt, MaxInt

\* Every wrapped result is an int64.
LEMMA WrapInRange ==
  ASSUME NEW x \in Int
  PROVE  Wrap(x) \in IntRange
  <1>1. MaxInt \in Nat /\ MinInt = -(MaxInt + 1) /\ 2^IntWidth = 2 * (MaxInt + 1)
    BY IntBounds
  <1>. QED
    BY <1>1 DEF Wrap, IntRange

\* Wrap leaves an int64 as it is.
LEMMA WrapId ==
  ASSUME NEW x \in IntRange
  PROVE  Wrap(x) = x
  <1>1. MaxInt \in Nat /\ MinInt = -(MaxInt + 1) /\ 2^IntWidth = 2 * (MaxInt + 1)
    BY IntBounds
  <1>. QED
    BY <1>1 DEF Wrap, IntRange

(***************************************************************************)
(* What parseRangeHeader returns: no range, ErrInvalidRange, or a request  *)
(* whose start ParseInt accepted and is not negative and whose end is an   *)
(* int64.                                                                  *)
(***************************************************************************)
LEMMA ParseType ==
  ASSUME NEW h \in Headers \cup {NoHeader}
  PROVE  \/ parseRangeHeader(h) \in {NoRange, Invalid}
         \/ \E st \in 0..MaxInt, en \in IntRange, fe \in BOOLEAN :
              parseRangeHeader(h) = RangeRequest(st, en, fe)
  <1>1. MaxInt \in Nat /\ MinInt = -(MaxInt + 1)
    BY IntBounds
  <1>2. 0 \in 0..MaxInt /\ RangeNoEnd \in IntRange
    BY <1>1 DEF RangeNoEnd, IntRange
  <1>3. CASE h = NoHeader
    BY <1>3 DEF parseRangeHeader
  <1>4. CASE h # NoHeader /\ (h.unit # "bytes=" \/ h.count > 1 \/ ~h.dash)
    BY <1>4 DEF parseRangeHeader
  <1>5. CASE h # NoHeader /\ ~(h.unit # "bytes=" \/ h.count > 1 \/ ~h.dash)
    <2>1. h \in Headers
      BY <1>5
    <2>2. h.start \in Tokens /\ h.end \in Tokens
      BY <2>1 DEF Headers
    <2>3. CASE h.start.kind = "empty"
      <3>1. CASE ParseIntOK(h.end)
        <4>1. parseRangeHeader(h) = RangeRequest(0, h.end.val, TRUE)
          BY <1>5, <2>3, <3>1 DEF parseRangeHeader
        <4>2. h.end.val \in IntRange
          BY <3>1 DEF ParseIntOK
        <4>. QED
          BY <1>2, <4>1, <4>2
      <3>2. CASE ~ParseIntOK(h.end)
        BY <1>5, <2>3, <3>2 DEF parseRangeHeader
      <3>. QED
        BY <3>1, <3>2
    <2>4. CASE h.start.kind # "empty" /\ (~ParseIntOK(h.start) \/ h.start.val < 0)
      BY <1>5, <2>4 DEF parseRangeHeader
    <2>5. CASE h.start.kind # "empty" /\ ~(~ParseIntOK(h.start) \/ h.start.val < 0)
      <3>1. h.start.val \in 0..MaxInt
        BY <2>5 DEF ParseIntOK, IntRange
      <3>2. CASE h.end.kind = "empty"
        <4>1. parseRangeHeader(h) = RangeRequest(h.start.val, RangeNoEnd, FALSE)
          BY <1>5, <2>5, <3>2 DEF parseRangeHeader
        <4>. QED
          BY <1>2, <3>1, <4>1
      <3>3. CASE h.end.kind # "empty" /\ (~ParseIntOK(h.end) \/ h.start.val > h.end.val)
        BY <1>5, <2>5, <3>3 DEF parseRangeHeader
      <3>4. CASE h.end.kind # "empty" /\ ~(~ParseIntOK(h.end) \/ h.start.val > h.end.val)
        <4>1. parseRangeHeader(h) = RangeRequest(h.start.val, h.end.val, FALSE)
          BY <1>5, <2>5, <3>4 DEF parseRangeHeader
        <4>2. h.end.val \in IntRange
          BY <3>4 DEF ParseIntOK
        <4>. QED
          BY <3>1, <4>1, <4>2
      <3>. QED
        BY <3>2, <3>3, <3>4
    <2>. QED
      BY <2>3, <2>4, <2>5
  <1>. QED
    BY <1>3, <1>4, <1>5

(***************************************************************************)
(* ObjectRangeRequest.Range resolves a request to an int64 start and       *)
(* length.                                                                 *)
(***************************************************************************)
LEMMA RangeType ==
  ASSUME NEW st \in 0..MaxInt, NEW en \in IntRange, NEW fe \in BOOLEAN, NEW sz \in Sizes
  PROVE  /\ Range(RangeRequest(st, en, fe), sz).Start \in IntRange
         /\ Range(RangeRequest(st, en, fe), sz).Length \in IntRange
  <1>1. MaxInt \in Nat /\ MinInt = -(MaxInt + 1) /\ sz \in Int
    BY IntBounds DEF Sizes
  <1>2. \A x \in Int : Wrap(x) \in IntRange
    BY WrapInRange
  <1>3. st \in IntRange
    BY <1>1 DEF IntRange
  <1>. QED
    BY <1>1, <1>2, <1>3 DEF Range, RangeRequest, ObjectRangeRec, IntRange

\* getObject's response is well typed for every header and object size.
LEMMA GetObjectType ==
  ASSUME NEW h \in Headers \cup {NoHeader}, NEW sz \in Sizes
  PROVE  LET resp == getObject(h, sz) IN
         /\ resp.status \in {200, 416}
         /\ \/ resp.range = NoRange
            \/ resp.range.Start \in IntRange /\ resp.range.Length \in IntRange
         /\ resp.contentLength \in IntRange
  <1>1. MaxInt \in Nat /\ MinInt = -(MaxInt + 1) /\ MaxSize \in 0..MaxInt
    BY IntBounds
  <1>2. sz \in IntRange
    BY <1>1 DEF Sizes, IntRange
  <1>3. CASE parseRangeHeader(h) \in {NoRange, Invalid}
    BY <1>1, <1>2, <1>3 DEF getObject, writeHeader, NoRange, Invalid, NoResponse, IntRange
  <1>4. CASE \E st \in 0..MaxInt, en \in IntRange, fe \in BOOLEAN :
               parseRangeHeader(h) = RangeRequest(st, en, fe)
    <2>1. PICK st \in 0..MaxInt, en \in IntRange, fe \in BOOLEAN :
                 parseRangeHeader(h) = RangeRequest(st, en, fe)
      BY <1>4
    <2>2. /\ Range(RangeRequest(st, en, fe), sz).Start \in IntRange
          /\ Range(RangeRequest(st, en, fe), sz).Length \in IntRange
      BY RangeType
    <2>3. RangeRequest(st, en, fe) # NoRange /\ RangeRequest(st, en, fe) # Invalid
      BY DEF RangeRequest, NoRange, Invalid
    <2> DEFINE r == Range(RangeRequest(st, en, fe), sz)
    <2>4. r = ObjectRangeRec(r.Start, r.Length)
      BY DEF Range, ObjectRangeRec
    <2>5. r # NoRange
      <3>1. DOMAIN r = {"Start", "Length"} /\ DOMAIN NoRange = {"kind"}
        BY <2>4 DEF ObjectRangeRec, NoRange
      <3>. QED
        BY <3>1
    <2>6. getObject(h, sz) = [status |-> 200, range |-> r,
                              contentRange |-> writeHeader(r, sz).contentRange,
                              contentLength |-> r.Length]
      BY <2>1, <2>3, <2>5 DEF getObject, writeHeader
    <2>. QED
      BY <2>2, <2>6
  <1>. QED
    BY <1>3, <1>4, ParseType
(***************************************************************************)
(* A satisfiable range is resolved to the bytes RFC 7233 selects: the      *)
(* first byte, and the number of bytes from it to the last, for the three  *)
(* forms "-n", "s-" and "s-e".  No int64 operation wraps on the way, since *)
(* every value lies in 0..size and the size is an int64.                   *)
(***************************************************************************)
LEMMA RangeExact ==
  ASSUME NEW h \in Headers \cup {NoHeader}, NEW sz \in Sizes, RFCSatisfiable(h, sz)
  PROVE  LET first == RFCFirst(h, sz)
             last == RFCLast(h, sz)
         IN  /\ first \in 0..(sz - 1) /\ last \in first..(sz - 1)
             /\ \E st \in 0..MaxInt, en \in IntRange, fe \in BOOLEAN :
                  /\ parseRangeHeader(h) = RangeRequest(st, en, fe)
                  /\ Range(RangeRequest(st, en, fe), sz) = ObjectRangeRec(first, last - first + 1)
  <1> DEFINE first == RFCFirst(h, sz)
             last == RFCLast(h, sz)
  <1> USE DEF first, last
  <1>1. MaxInt \in Nat /\ MinInt = -(MaxInt + 1) /\ sz \in 0..MaxInt
    BY IntBounds DEF Sizes
  <1>2. \A x \in MinInt..MaxInt : Wrap(x) = x
    BY WrapId DEF IntRange
  <1>3. h \in Headers /\ h # NoHeader /\ h.unit = "bytes=" /\ h.count = 1 /\ h.dash
    BY DEF RFCSatisfiable
  <1>6. h # NoHeader /\ ~(h.unit # "bytes=" \/ h.count > 1 \/ ~h.dash)
    BY <1>3
  <1>4. CASE h.start.kind = "empty"
    <2>1. h.end.kind = "num" /\ h.end.val \in IntRange /\ h.end.val > 0 /\ sz > 0
      BY <1>4 DEF RFCSatisfiable, IsNum
    <2>2. parseRangeHeader(h) = RangeRequest(0, h.end.val, TRUE)
      BY <1>6, <1>4, <2>1 DEF parseRangeHeader, ParseIntOK
    <2> DEFINE en == IF h.end.val > sz THEN sz ELSE h.end.val
    <2> USE DEF en
    <2>3. first = sz - en /\ last = sz - 1
      BY <1>1, <1>4, <2>1 DEF RFCFirst, RFCLast
    <2>4. en \in 1..sz /\ sz - en \in 0..MaxInt
      BY <1>1, <2>1 DEF IntRange
    <2>5. Range(RangeRequest(0, h.end.val, TRUE), sz) = ObjectRangeRec(sz - en, en)
      BY <1>1, <1>2, <2>4 DEF Range, RangeRequest
    <2>6. 0 \in 0..MaxInt /\ h.end.val \in IntRange
      BY <1>1, <2>1
    <2>7. Range(RangeRequest(0, h.end.val, TRUE), sz) = ObjectRangeRec(first, last - first + 1)
      <3>1. first = sz - en /\ last - first + 1 = en
        BY <1>1, <2>3, <2>4
      <3>. QED
        BY <2>5, <3>1
    <2>8. first \in 0..(sz - 1) /\ last \in first..(sz - 1)
      BY <1>1, <2>3, <2>4
    <2>. QED
      BY <2>2, <2>6, <2>7, <2>8
  <1>5. CASE h.start.kind # "empty"
    <2>1. h.start.kind = "num" /\ h.start.val \in 0..MaxInt /\ h.start.val < sz
          /\ (h.end.kind = "empty" \/ (IsNum(h.end) /\ h.end.val >= h.start.val))
      BY <1>5 DEF RFCSatisfiable, IsNum, IntRange
    <2>2. ParseIntOK(h.start) /\ ~(h.start.val < 0)
      BY <1>1, <2>1 DEF ParseIntOK, IntRange
    <2>3. CASE h.end.kind = "empty"
      <3>1. parseRangeHeader(h) = RangeRequest(h.start.val, RangeNoEnd, FALSE)
        BY <1>6, <1>5, <2>2, <2>3 DEF parseRangeHeader
      <3>2. first = h.start.val /\ last = sz - 1
        BY <1>1, <1>5, <2>3 DEF RFCFirst, RFCLast
      <3>3. sz - h.start.val \in 0..MaxInt
        BY <1>1, <2>1
      <3>4. Range(RangeRequest(h.start.val, RangeNoEnd, FALSE), sz)
              = ObjectRangeRec(h.start.val, sz - h.start.val)
        BY <1>1, <1>2, <3>3 DEF Range, RangeRequest
      <3>5. RangeNoEnd \in IntRange
        BY <1>1 DEF RangeNoEnd, IntRange
      <3>6. Range(RangeRequest(h.start.val, RangeNoEnd, FALSE), sz)
              = ObjectRangeRec(first, last - first + 1)
        <4>1. first = h.start.val /\ last - first + 1 = sz - h.start.val
          BY <1>1, <2>1, <3>2
        <4>. QED
          BY <3>4, <4>1
      <3>7. first \in 0..(sz - 1) /\ last \in first..(sz - 1)
        BY <1>1, <2>1, <3>2
      <3>. QED
        BY <2>1, <3>1, <3>5, <3>6, <3>7
    <2>4. CASE h.end.kind # "empty"
      <3>1. h.end.kind = "num" /\ h.end.val \in IntRange /\ h.end.val >= h.start.val
        BY <2>1, <2>4 DEF IsNum
      <3>2. parseRangeHeader(h) = RangeRequest(h.start.val, h.end.val, FALSE)
        <4>1. ParseIntOK(h.end) /\ ~(h.start.val > h.end.val)
          BY <1>1, <2>1, <3>1 DEF ParseIntOK, IntRange
        <4>. QED
          BY <1>6, <1>5, <2>2, <2>4, <4>1 DEF parseRangeHeader
      <3> DEFINE en == IF h.end.val >= sz THEN sz - 1 ELSE h.end.val
      <3> USE DEF en
      <3>3. first = h.start.val /\ last = en
        BY <1>1, <1>5, <2>4, <3>1 DEF RFCFirst, RFCLast
      <3>4. en \in h.start.val..(sz - 1) /\ sz - 1 \in 0..MaxInt
            /\ en - h.start.val \in 0..MaxInt /\ en - h.start.val + 1 \in 0..MaxInt
        BY <1>1, <2>1, <3>1 DEF IntRange
      <3>5. h.end.val # RangeNoEnd
        BY <2>1, <3>1 DEF RangeNoEnd
      <3>6. Range(RangeRequest(h.start.val, h.end.val, FALSE), sz)
              = ObjectRangeRec(h.start.val, en - h.start.val + 1)
        BY <1>1, <1>2, <3>4, <3>5 DEF Range, RangeRequest
      <3>7. Range(RangeRequest(h.start.val, h.end.val, FALSE), sz)
              = ObjectRangeRec(first, last - first + 1)
        <4>1. first = h.start.val /\ last - first + 1 = en - h.start.val + 1
          BY <1>1, <2>1, <3>3, <3>4
        <4>. QED
          BY <3>6, <4>1
      <3>8. first \in 0..(sz - 1) /\ last \in first..(sz - 1)
        BY <1>1, <2>1, <3>3, <3>4
      <3>. QED
        BY <2>1, <3>1, <3>2, <3>7, <3>8
    <2>. QED
      BY <2>3, <2>4
  <1>. QED
    BY <1>4, <1>5
\* getObject serves a satisfiable range with the headers writeHeader
\* computes from it: Content-Length the range's length and Content-Range its
\* first and last byte.
LEMMA GetObjectServes ==
  ASSUME NEW h \in Headers \cup {NoHeader}, NEW sz \in Sizes, RFCSatisfiable(h, sz)
  PROVE  LET resp == getObject(h, sz)
             first == RFCFirst(h, sz)
             last == RFCLast(h, sz)
         IN  /\ resp.range # NoRange
             /\ resp.range.Start = first
             /\ resp.range.Length = last - first + 1
             /\ resp.contentLength = last - first + 1
             /\ resp.contentRange = << first, last, sz >>
  <1> DEFINE first == RFCFirst(h, sz)
             last == RFCLast(h, sz)
             r == ObjectRangeRec(first, last - first + 1)
  <1>1. MaxInt \in Nat /\ MinInt = -(MaxInt + 1) /\ sz \in 0..MaxInt
    BY IntBounds DEF Sizes
  <1>2. first \in 0..(sz - 1) /\ last \in first..(sz - 1)
    BY RangeExact
  <1>3. PICK st \in 0..MaxInt, en \in IntRange, fe \in BOOLEAN :
          /\ parseRangeHeader(h) = RangeRequest(st, en, fe)
          /\ Range(RangeRequest(st, en, fe), sz) = r
    BY RangeExact
  <1>4. RangeRequest(st, en, fe) # NoRange /\ RangeRequest(st, en, fe) # Invalid
    BY DEF RangeRequest, NoRange, Invalid
  <1>5. r # NoRange
    <2>1. DOMAIN r = {"Start", "Length"} /\ DOMAIN NoRange = {"kind"}
      BY DEF ObjectRangeRec, NoRange
    <2>. QED
      BY <2>1
  <1>6. r.Start = first /\ r.Length = last - first + 1
    BY DEF ObjectRangeRec
  <1>7. Wrap(Wrap(r.Start + r.Length) - 1) = last
    <2>1. r.Start + r.Length = last + 1 /\ last + 1 \in MinInt..MaxInt
      BY <1>1, <1>2, <1>6
    <2>2. Wrap(r.Start + r.Length) = last + 1 /\ last \in MinInt..MaxInt
      BY <1>1, <1>2, <2>1, WrapId DEF IntRange
    <2>. QED
      BY <2>2, WrapId DEF IntRange
  <1>8. getObject(h, sz) = [status |-> 200, range |-> r,
                            contentRange |-> << r.Start, Wrap(Wrap(r.Start + r.Length) - 1), sz >>,
                            contentLength |-> r.Length]
    BY <1>3, <1>4, <1>5 DEF getObject, writeHeader
  <1>. QED
    BY <1>5, <1>6, <1>7, <1>8

(***************************************************************************)
(* The inductive invariant: the request is one the client can send and the *)
(* response, once written, is getObject's answer to it.                    *)
(***************************************************************************)
IInv ==
  /\ request \in Requests
  /\ response \in {NoResponse, getObject(request.header, request.size)}

LEMMA InitIInv == Init => IInv
  BY DEF Init, IInv

LEMMA NextIInv == IInv /\ [Next]_vars => IInv'
  BY DEF IInv, Next, GetObject, vars

\* Every response getObject writes is well typed, whatever the Range header
\* and the object size.
THEOREM ObjectRangeTypeCorrect == Spec => []TypeOK
  <1>1. IInv => TypeOK
    <2> SUFFICES ASSUME IInv PROVE TypeOK
      OBVIOUS
    <2>1. request.header \in Headers \cup {NoHeader} /\ request.size \in Sizes
      BY DEF IInv, Requests
    <2>2. 0 \in IntRange
      BY IntBounds DEF IntRange
    <2>3. CASE response = NoResponse
      BY <2>1, <2>2, <2>3 DEF TypeOK, NoResponse
    <2>4. CASE response = getObject(request.header, request.size)
      BY <2>1, <2>4, GetObjectType DEF TypeOK
    <2>. QED
      BY <2>3, <2>4 DEF IInv
  <1>. QED
    BY <1>1, InitIInv, NextIInv, PTL DEF Spec

\* A satisfiable Range header is served exactly, for every int64 width and
\* object size: the clamping in ObjectRangeRequest.Range and the end
\* computed in writeHeader never wrap.
THEOREM RangeServesRequestedBytesHolds == Spec => []RangeServesRequestedBytes
  <1>1. IInv => RangeServesRequestedBytes
    <2> SUFFICES ASSUME IInv, response # NoResponse,
                        RFCSatisfiable(request.header, request.size)
                 PROVE  LET first == RFCFirst(request.header, request.size)
                            last == RFCLast(request.header, request.size)
                        IN  /\ response.range # NoRange
                            /\ response.range.Start = first
                            /\ response.range.Length = last - first + 1
                            /\ response.contentLength = last - first + 1
                            /\ response.contentRange = << first, last, request.size >>
      BY DEF RangeServesRequestedBytes
    <2>1. request.header \in Headers \cup {NoHeader} /\ request.size \in Sizes
      BY DEF IInv, Requests
    <2>2. response = getObject(request.header, request.size)
      BY DEF IInv
    <2>. QED
      BY <2>1, <2>2, GetObjectServes
  <1>. QED
    BY <1>1, InitIInv, NextIInv, PTL DEF Spec
=============================================================================
