---------------------------- MODULE Middleware ----------------------------
(***************************************************************************)
(* The handler chain GoFakeS3.Server builds around the router, and one     *)
(* request passing through it (gofakes3.go, Server, timeSkewMiddleware,    *)
(* hostBucketMiddleware).  withCORS and routeBase are not under src/ and   *)
(* follow spec section 4.2 and 4.1.                                        *)
(*                                                                         *)
(* Time is counted in Duration ticks.  Go's time.Duration is a             *)
(* DurWidth-bit two's complement integer; a time.Time spans more than a    *)
(* Duration can, and Time.Sub saturates at the Duration bounds.  The zero  *)
(* time.Time, which time.Parse returns on error, is ZeroTime, further from *)
(* every clock reading than the largest Duration.                          *)
(*                                                                         *)
(* A Host header is the sequence of its dot-separated labels.  A URL path  *)
(* is the sequence of its slash-separated segments: "/" is <<Empty>>,      *)
(* "/a/b" is <<a, b>>.                                                     *)
(***************************************************************************)
EXTENDS Integers, Sequences

CONSTANTS
  DurWidth,   \* bits of time.Duration
  Times,      \* clock readings and parseable x-amz-date values
  ZeroTime,   \* time.Time{}, what time.Parse returns with its error
  Skews,      \* the configured GoFakeS3.timeSkew values
  Names,      \* host labels and path segments
  Empty,      \* the empty string
  Absent,     \* no x-amz-date header
  Garbled     \* an x-amz-date header time.Parse rejects

MinDur == -(2^(DurWidth - 1))
MaxDur == 2^(DurWidth - 1) - 1

ASSUME DurWidthAssumption == DurWidth \in Nat \ {0}
\* Two facts of arithmetic about the Duration range, named so that proofs
\* can cite them: the provers do not evaluate 2^n for a symbolic n.
ASSUME DurRangeAssumption ==
  2^(DurWidth - 1) \in Nat \ {0} /\ 2^DurWidth = 2 * 2^(DurWidth - 1)
ASSUME TimesAssumption == Times \subseteq Int /\ ZeroTime \in Int
ASSUME ZeroTimeAssumption == \A t \in Times : t - ZeroTime > MaxDur
ASSUME SkewsAssumption == Skews \subseteq 0..MaxDur
ASSUME NamesAssumption == Empty \notin Names /\ {Absent, Garbled} \cap Times = {}

\* Two's complement wrap-around of a Duration result.
Wrap(x) == ((x - MinDur) % 2^DurWidth) + MinDur

Hosts == {<<l>> : l \in Names} \cup {<<l, m>> : l, m \in Names}

Paths == {<<Empty>>} \cup {<<s>> : s \in Names} \cup {<<s, t>> : s, t \in Names}

Dates == Times \cup {Absent, Garbled}

Requests == [method : {"GET", "OPTIONS"}, host : Hosts, path : Paths, date : Dates]

Middlewares == {"hostBucket", "timeSkew", "cors"}

VARIABLES
  cfg,     \* the GoFakeS3 options: timeSkew and hostBucket
  chain,   \* the handlers Server returned, outermost first
  stage,   \* the handler the request is in
  rq,      \* the request as the client sent it
  url,     \* rq.URL.Path as the next handler sees it
  now,     \* timeSource.Now()
  resp     \* the response: kind "pending" until a handler writes it

vars == <<cfg, chain, stage, rq, url, now, resp>>

Routes == [kind : {"route"}, bucket : Names \cup {Empty}, key : Seq(Names)]

Responses == [kind : {"pending", "skewed", "preflight"}] \cup Routes

TypeOK ==
  /\ cfg \in [timeSkew : Skews, hostBucket : BOOLEAN]
  /\ chain \in Seq(Middlewares)
  /\ stage \in 1..Len(chain)
  /\ rq \in Requests
  /\ url \in Seq(Names \cup {Empty})
  /\ now \in Times
  /\ resp \in Responses

(***************************************************************************)
(* Server: withCORS around routeBase, then timeSkewMiddleware when the     *)
(* limit is nonzero, then hostBucketMiddleware outermost when enabled.     *)
(***************************************************************************)
\* Mutant: hostBucketMiddleware wrapping the CORS handler around routeBase
\* instead of the handler built so far, dropping timeSkewMiddleware.
ServerHostOverBase(c) ==
  IF c.hostBucket THEN <<"hostBucket", "cors">>
  ELSE (IF c.timeSkew # 0 THEN <<"timeSkew">> ELSE <<>>) \o <<"cors">>

Server(c) ==
  (IF c.hostBucket THEN <<"hostBucket">> ELSE <<>>)
  \o (IF c.timeSkew # 0 THEN <<"timeSkew">> ELSE <<>>)
  \o <<"cors">>

(***************************************************************************)
(* time.Parse("20060102T150405Z", hdr) with its error discarded, and       *)
(* Time.Sub, which saturates at the Duration bounds.                       *)
(***************************************************************************)
ParseDate(d) == IF d \in Times THEN d ELSE ZeroTime

\* Mutant: Time.Sub computed in Duration arithmetic, wrapping on overflow.
SubWrapping(t, u) == Wrap(t - u)

Sub(t, u) ==
  IF t - u > MaxDur THEN MaxDur ELSE IF t - u < MinDur THEN MinDur ELSE t - u

\* The rejection test of timeSkewMiddleware, -g.timeSkew in Duration arithmetic.
TooSkewed(at, d, limit) ==
  LET skew == Sub(at, ParseDate(d))
  IN  skew < Wrap(-limit) \/ skew > limit

\* routeBase (spec 4.1): the first segment names the bucket, the rest the key.
Route(path) ==
  [kind |-> "route", bucket |-> path[1],
   key |-> IF Tail(path) = <<Empty>> THEN <<>> ELSE Tail(path)]

\* Mutant: the whole Host taken as the bucket, without SplitN.
HostBucketWholeHost(host) == host

\* Mutant: the bucket taken from the last label of the Host.
HostBucketLastLabel(host) == host[Len(host)]

HostBucket(host) == host[1]

\* The path hostBucketMiddleware passes on: "/" + bucket, then + p unless p is "/".
HostedPath(host, path) ==
  IF path = <<Empty>> THEN <<HostBucket(host)>> ELSE <<HostBucket(host)>> \o path

Init ==
  /\ cfg \in [timeSkew : Skews, hostBucket : BOOLEAN]
  /\ chain = Server(cfg)
  /\ stage = 1
  /\ rq \in Requests
  /\ url = rq.path
  /\ now \in Times
  /\ resp = [kind |-> "pending"]

Handler == chain[stage]

\* hostBucketMiddleware: rewrite the path and pass the request on.
HostBucketStep ==
  /\ resp.kind = "pending" /\ Handler = "hostBucket"
  /\ url' = HostedPath(rq.host, url)
  /\ stage' = stage + 1
  /\ UNCHANGED <<cfg, chain, rq, now, resp>>

\* timeSkewMiddleware: a request with an x-amz-date header too far from now
\* is answered RequestTimeTooSkewed; any other goes to the next handler.
TimeSkewStep ==
  /\ resp.kind = "pending" /\ Handler = "timeSkew"
  /\ \/ /\ rq.date # Absent /\ TooSkewed(now, rq.date, cfg.timeSkew)
        /\ resp' = [kind |-> "skewed"]
        /\ UNCHANGED stage
     \/ /\ rq.date = Absent \/ ~TooSkewed(now, rq.date, cfg.timeSkew)
        /\ stage' = stage + 1
        /\ UNCHANGED resp
  /\ UNCHANGED <<cfg, chain, rq, url, now>>

\* withCORS (spec 4.2): OPTIONS is answered with headers only; anything else
\* goes to routeBase.
CorsStep ==
  /\ resp.kind = "pending" /\ Handler = "cors"
  /\ resp' = IF rq.method = "OPTIONS" THEN [kind |-> "preflight"] ELSE Route(url)
  /\ UNCHANGED <<cfg, chain, stage, rq, url, now>>

Next == HostBucketStep \/ TimeSkewStep \/ CorsStep

Spec == Init /\ [][Next]_vars

-----------------------------------------------------------------------------
(***************************************************************************)
(* Properties.                                                             *)
(***************************************************************************)
Abs(x) == IF x < 0 THEN -x ELSE x

(* The time-skew guard (spec 4.2, timeSkewMiddleware and Server's          *)
(* timeSkew != 0 test): a request without a date, or with a parseable one, *)
(* is refused as too skewed exactly when a limit is configured and the     *)
(* true distance between its date and the clock exceeds the limit.  This   *)
(* is exact arithmetic; the code computes the distance with a saturating   *)
(* Time.Sub and compares it with a negated Duration.  Limits equal to the  *)
(* largest Duration are left out: there saturation makes every date pass.  *)
SkewWindow ==
  (resp.kind # "pending" /\ rq.date # Garbled /\ cfg.timeSkew < MaxDur)
    => ((resp.kind = "skewed") <=> (/\ cfg.timeSkew # 0
                               /\ rq.date \in Times
                               /\ Abs(now - rq.date) > cfg.timeSkew))

(* Virtual-host addressing (spec 4.2, hostBucketMiddleware): with the      *)
(* option on, a routed request reaches the router with the first label of *)
(* its Host as the bucket and its whole original path as the key, "/"     *)
(* meaning no key.                                                         *)
HostRouting ==
  (cfg.hostBucket /\ resp.kind = "route")
    => /\ resp.bucket = rq.host[1]
       /\ resp.key = IF rq.path = <<Empty>> THEN <<>> ELSE rq.path

(* Spec 4.2 and 9: an unparseable x-amz-date header bypasses the skew      *)
(* check.  timeSkewMiddleware discards time.Parse's error at line 111 and  *)
(* measures the skew from the zero time.                                   *)
UnparseableDateBypasses ==
  (resp.kind = "skewed") => rq.date # Garbled

(* The handler chain implements the dispatch promise (RequestDispatch):    *)
(* however Server nests timeSkewMiddleware, hostBucketMiddleware and       *)
(* withCORS, the request is answered once, and as if the server had        *)
(* decided in one step: skew refusal before the CORS preflight, routing    *)
(* by the virtual-host path last.  The rewrite and pass-on steps of the    *)
(* middleware are stutters of the abstract answer.                         *)
Dispatch == INSTANCE RequestDispatch WITH
  Configs <- [timeSkew : Skews, hostBucket : BOOLEAN],
  Refused <- TooSkewed,
  Rewritten <- HostedPath,
  Routed <- Route

DispatchRefined == Dispatch!Spec
=============================================================================
