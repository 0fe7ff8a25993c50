---------------------------- MODULE ObjectRange ----------------------------
(***************************************************************************)
(* Range requests on GET object (range.go and getObject in gofakes3.go):   *)
(* parseRangeHeader turns the Range header into an ObjectRangeRequest,     *)
(* ObjectRangeRequest.Range resolves it against the object's size, and     *)
(* ObjectRange.writeHeader sets Content-Range and Content-Length.          *)
(*                                                                         *)
(* A header is abstracted to what parseRangeHeader looks at: its unit, how *)
(* many comma-separated ranges it holds, whether the range has a dash, and *)
(* the two tokens around the dash, each empty, not a number, or a decimal  *)
(* literal.  Go's int64 is an IntWidth-bit two's complement integer:       *)
(* strconv.ParseInt rejects a literal outside it and arithmetic wraps.     *)
(***************************************************************************)
EXTENDS Integers

CONSTANTS
  IntWidth,   \* bits of Go's int64
  MaxSize,    \* largest object size in the model
  Literals    \* the decimal literals a header may carry

ASSUME IntWidthAssumption == IntWidth \in Nat \ {0}
\* Two facts of arithmetic about the int64 range, named so that proofs can
\* cite them: the provers do not evaluate 2^n for a symbolic n.
ASSUME IntRangeAssumption ==
  2^(IntWidth - 1) \in Nat \ {0} /\ 2^IntWidth = 2 * 2^(IntWidth - 1)
ASSUME MaxSizeAssumption == MaxSize \in Nat /\ MaxSize < 2^(IntWidth - 1)
ASSUME LiteralsAssumption == Literals \subseteq Int

MinInt == -(2^(IntWidth - 1))
MaxInt == 2^(IntWidth - 1) - 1
IntRange == MinInt..MaxInt

\* Two's complement wrap-around of an int64 result.
Wrap(x) == ((x - MinInt) % 2^IntWidth) + MinInt

(***************************************************************************)
(* Headers.                                                                *)
(***************************************************************************)
Tokens == [kind : {"empty", "junk"}, val : {0}] \cup [kind : {"num"}, val : Literals]

Headers == [unit : {"bytes=", "other"}, count : {1, 2}, dash : BOOLEAN,
            start : Tokens, end : Tokens]

NoHeader == [unit |-> "none"]

Sizes == 0..MaxSize

\* strconv.ParseInt(s, 10, 64): a literal within int64, else an error.
ParseIntOK(t) == t.kind = "num" /\ t.val \in IntRange

(***************************************************************************)
(* parseRangeHeader: NoRange for an absent header, Invalid for             *)
(* ErrInvalidRange, else an ObjectRangeRequest.                            *)
(***************************************************************************)
RangeNoEnd == -1

NoRange == [kind |-> "none"]

Invalid == [kind |-> "invalid"]

RangeRequest(s, e, fromEnd) == [kind |-> "request", Start |-> s, End |-> e, FromEnd |-> fromEnd]

\* Mutant: literals parsed without ParseInt's int64 range check.
parseRangeHeaderUnbounded(h) ==
  IF h = NoHeader THEN NoRange
  ELSE IF h.unit # "bytes=" \/ h.count > 1 \/ ~h.dash THEN Invalid
  ELSE IF h.start.kind = "empty"
       THEN IF h.end.kind = "num" THEN RangeRequest(0, h.end.val, TRUE) ELSE Invalid
  ELSE IF h.start.kind # "num" \/ h.start.val < 0 THEN Invalid
  ELSE IF h.end.kind = "empty" THEN RangeRequest(h.start.val, RangeNoEnd, FALSE)
  ELSE IF h.end.kind # "num" \/ h.start.val > h.end.val THEN Invalid
  ELSE RangeRequest(h.start.val, h.end.val, FALSE)

parseRangeHeader(h) ==
  IF h = NoHeader THEN NoRange
  ELSE IF h.unit # "bytes=" \/ h.count > 1 \/ ~h.dash THEN Invalid
  ELSE IF h.start.kind = "empty"
       THEN IF ParseIntOK(h.end) THEN RangeRequest(0, h.end.val, TRUE) ELSE Invalid
  ELSE IF ~ParseIntOK(h.start) \/ h.start.val < 0 THEN Invalid
  ELSE IF h.end.kind = "empty" THEN RangeRequest(h.start.val, RangeNoEnd, FALSE)
  ELSE IF ~ParseIntOK(h.end) \/ h.start.val > h.end.val THEN Invalid
  ELSE RangeRequest(h.start.val, h.end.val, FALSE)

(***************************************************************************)
(* ObjectRangeRequest.Range(size), with int64 arithmetic.                  *)
(***************************************************************************)
ObjectRangeRec(start, length) == [Start |-> start, Length |-> length]

\* Mutant: the end is clamped only once it passes the size.
RangeClampLate(o, size) ==
  IF ~o.FromEnd
  THEN IF o.End = RangeNoEnd
       THEN ObjectRangeRec(o.Start, Wrap(size - o.Start))
       ELSE LET end == IF o.End > size THEN Wrap(size - 1) ELSE o.End
            IN  ObjectRangeRec(o.Start, Wrap(Wrap(end - o.Start) + 1))
  ELSE LET end == IF o.End > size THEN size ELSE o.End
           start == Wrap(size - end)
       IN  ObjectRangeRec(start, Wrap(size - start))

Range(o, size) ==
  IF ~o.FromEnd
  THEN IF o.End = RangeNoEnd
       THEN ObjectRangeRec(o.Start, Wrap(size - o.Start))
       ELSE LET end == IF o.End >= size THEN Wrap(size - 1) ELSE o.End
            IN  ObjectRangeRec(o.Start, Wrap(Wrap(end - o.Start) + 1))
  ELSE LET end == IF o.End > size THEN size ELSE o.End
           start == Wrap(size - end)
       IN  ObjectRangeRec(start, Wrap(size - start))

(***************************************************************************)
(* getObject: the response a GET with header h on an object of size sz     *)
(* gets.  An invalid header is answered 416; otherwise the backend serves  *)
(* obj.Range = rnge.Range(size) (nil for no header) and writeHeader sets   *)
(* Content-Length, and Content-Range "bytes S-E/size" with                 *)
(* E = Start + Length - 1.  No status is written: the body goes out 200.   *)
(***************************************************************************)
NoResponse == [status |-> 0, range |-> NoRange, contentRange |-> << >>,
               contentLength |-> 0]

writeHeader(r, sz) ==
  IF r = NoRange
  THEN [contentRange |-> << >>, contentLength |-> sz]
  ELSE [contentRange |-> << r.Start, Wrap(Wrap(r.Start + r.Length) - 1), sz >>,
        contentLength |-> r.Length]

getObject(h, sz) ==
  LET rnge == parseRangeHeader(h)
      r == IF rnge = NoRange THEN NoRange ELSE Range(rnge, sz)
  IN  IF rnge = Invalid
      THEN [NoResponse EXCEPT !.status = 416]
      ELSE [status |-> 200, range |-> r,
            contentRange |-> writeHeader(r, sz).contentRange,
            contentLength |-> writeHeader(r, sz).contentLength]

(***************************************************************************)
(* One GET request, on any header and object size, and its response.       *)
(* Requests do not share state, so one request per behaviour covers them. *)
(***************************************************************************)
VARIABLES request, response

vars == <<request, response>>

Requests == [header : Headers \cup {NoHeader}, size : Sizes]

Init ==
  /\ request \in Requests
  /\ response = NoResponse

GetObject ==
  /\ response = NoResponse
  /\ response' = getObject(request.header, request.size)
  /\ UNCHANGED request

Next == GetObject

Spec == Init /\ [][Next]_vars

TypeOK ==
  /\ request.header \in Headers \cup {NoHeader}
  /\ request.size \in Sizes
  /\ response.status \in {0, 200, 416}
  /\ response.range = NoRange \/
       /\ response.range.Start \in IntRange
       /\ response.range.Length \in IntRange
  /\ response.contentLength \in IntRange

(***************************************************************************)
(* Reference: RFC 7233 section 2.1 byte ranges, for literals within int64. *)
(***************************************************************************)
IsNum(t) == t.kind = "num" /\ t.val \in IntRange /\ t.val >= 0

\* A well-formed single byte-range-spec or suffix-byte-range-spec that the
\* representation can satisfy.
RFCSatisfiable(h, sz) ==
  /\ h # NoHeader
  /\ h.unit = "bytes=" /\ h.count = 1 /\ h.dash
  /\ \/ /\ h.start.kind = "empty" /\ IsNum(h.end)
        /\ h.end.val > 0 /\ sz > 0
     \/ /\ IsNum(h.start) /\ h.start.val < sz
        /\ h.end.kind = "empty" \/ (IsNum(h.end) /\ h.end.val >= h.start.val)

\* The first and last byte positions the RFC selects.
RFCFirst(h, sz) ==
  IF h.start.kind = "empty"
  THEN IF h.end.val > sz THEN 0 ELSE sz - h.end.val
  ELSE h.start.val

RFCLast(h, sz) ==
  IF h.start.kind = "empty" \/ h.end.kind = "empty" \/ h.end.val >= sz
  THEN sz - 1
  ELSE h.end.val

(***************************************************************************)
(* Properties.                                                             *)
(***************************************************************************)

\* A satisfiable range (spec 4.5, RFC 7233) is served exactly: the resolved
\* range covers the bytes the RFC selects, Content-Length is their number
\* and Content-Range names the first and last of them: the clamping of an
\* end past the object and of a suffix longer than the object included.
RangeServesRequestedBytes ==
  response # NoResponse /\ RFCSatisfiable(request.header, request.size) =>
    LET first == RFCFirst(request.header, request.size)
        last == RFCLast(request.header, request.size)
    IN  /\ response.range # NoRange
        /\ response.range.Start = first
        /\ response.range.Length = last - first + 1
        /\ response.contentLength = last - first + 1
        /\ response.contentRange = << first, last, request.size >>

\* Spec 3: the resolved range (start, length) is clamped to [0, size], for
\* every header parseRangeHeader accepts.
ResolvedRangeWithinObject ==
  response.range # NoRange =>
    /\ response.range.Start >= 0
    /\ response.range.Length >= 0
    /\ response.range.Start + response.range.Length <= request.size

=============================================================================
