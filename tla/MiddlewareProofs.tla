------------------------- MODULE MiddlewareProofs -------------------------
(***************************************************************************)
(* Proofs about the handler chain of Middleware: type correctness, the     *)
(* time-skew window and virtual-host routing hold for every Duration width *)
(* and every set of clock readings, limits and names.                      *)
(***************************************************************************)
EXTENDS Middleware, SequenceTheorems, TLAPS

(***************************************************************************)
(* The inductive invariant.  Server fixes the chain once; the path the     *)
(* next handler sees is the client's, rewritten once hostBucketMiddleware  *)
(* has run; a response is written only by the handler the request is in,  *)
(* and a request that reached withCORS past a configured skew check passed *)
(* it.                                                                     *)
(***************************************************************************)
UrlInv ==
  url = IF cfg.hostBucket /\ stage > 1 THEN HostedPath(rq.host, rq.path) ELSE rq.path

Passed == rq.date = Absent \/ ~TooSkewed(now, rq.date, cfg.timeSkew)

RespInv ==
  /\ resp.kind = "skewed" => Handler = "timeSkew" /\ ~Passed
  /\ resp.kind \in {"route", "preflight"} => Handler = "cors"
  /\ resp.kind = "route" => resp = Route(url)

PassInv == (Handler = "cors" /\ cfg.timeSkew # 0) => Passed

IInv == TypeOK /\ chain = Server(cfg) /\ UrlInv /\ RespInv /\ PassInv

(***************************************************************************)
(* Duration arithmetic.                                                    *)
(***************************************************************************)
LEMMA DurBounds ==
  /\ MaxDur \in Nat /\ MinDur = -(MaxDur + 1)
  /\ 2^DurWidth = 2 * (MaxDur + 1)
  BY DurRangeAssumption DEF MinDur, MaxDur

\* Wrap leaves a value that fits in a Duration as it is.
LEMMA WrapId ==
  ASSUME NEW x \in MinDur..MaxDur
  PROVE  Wrap(x) = x
  <1>1. MaxDur \in Nat /\ MinDur = -(MaxDur + 1) /\ 2^DurWidth = 2 * (MaxDur + 1)
    BY DurBounds
  <1>. QED
    BY <1>1 DEF Wrap

(***************************************************************************)
(* The skew test is exact for a limit below the largest Duration: the      *)
(* negated limit fits in a Duration, and where Time.Sub saturates the     *)
(* true distance is past the limit on the same side.                       *)
(***************************************************************************)
LEMMA SkewExact ==
  ASSUME NEW at \in Times, NEW d \in Times, NEW limit \in Skews, limit < MaxDur
  PROVE  TooSkewed(at, d, limit) <=> Abs(at - d) > limit
  <1>1. MaxDur \in Nat /\ MinDur = -(MaxDur + 1)
    BY DurBounds
  <1>2. limit \in 0..MaxDur /\ at \in Int /\ d \in Int
    BY SkewsAssumption, TimesAssumption
  <1>3. Wrap(-limit) = -limit
    BY <1>1, <1>2, WrapId
  <1>4. ParseDate(d) = d
    BY DEF ParseDate
  <1>. QED
    BY <1>1, <1>2, <1>3, <1>4 DEF TooSkewed, Sub, Abs

\* Concatenations of short sequences, as Server and hostBucketMiddleware
\* build them.
LEMMA TupleConcat ==
  ASSUME NEW a, NEW x, NEW y
  PROVE  /\ <<a>> \o <<x>> = <<a, x>>
         /\ <<a>> \o <<x, y>> = <<a, x, y>>
         /\ <<a, x>> \o <<y>> = <<a, x, y>>
  <1> DEFINE S == {a, x, y}
  <1>1. /\ <<a>> \in Seq(S) /\ <<x>> \in Seq(S) /\ <<y>> \in Seq(S)
        /\ <<a, x>> \in Seq(S) /\ <<x, y>> \in Seq(S) /\ <<a, x, y>> \in Seq(S)
    OBVIOUS
  <1>2. <<a>> \o <<x>> = <<a, x>>
    <2>1. <<a>> \o <<x>> \in Seq(S) /\ Len(<<a>> \o <<x>>) = 2
      BY <1>1, ConcatProperties
    <2>2. \A i \in 1..2 : (<<a>> \o <<x>>)[i] = <<a, x>>[i]
      BY <1>1, <2>1
    <2>. QED
      BY <1>1, <2>1, <2>2, SeqEqual
  <1>3. <<a>> \o <<x, y>> = <<a, x, y>>
    <2>1. <<a>> \o <<x, y>> \in Seq(S) /\ Len(<<a>> \o <<x, y>>) = 3
      BY <1>1, ConcatProperties
    <2>2. \A i \in 1..3 : (<<a>> \o <<x, y>>)[i] = <<a, x, y>>[i]
      BY <1>1, <2>1
    <2>. QED
      BY <1>1, <2>1, <2>2, SeqEqual
  <1>4. <<a, x>> \o <<y>> = <<a, x, y>>
    <2>1. <<a, x>> \o <<y>> \in Seq(S) /\ Len(<<a, x>> \o <<y>>) = 3
      BY <1>1, ConcatProperties
    <2>2. \A i \in 1..3 : (<<a, x>> \o <<y>>)[i] = <<a, x, y>>[i]
      BY <1>1, <2>1
    <2>. QED
      BY <1>1, <2>1, <2>2, SeqEqual
  <1>. QED
    BY <1>2, <1>3, <1>4

(***************************************************************************)
(* The four chains Server builds.                                          *)
(***************************************************************************)
Configs == [timeSkew : Skews, hostBucket : BOOLEAN]

LEMMA ServerCases ==
  ASSUME NEW c \in Configs
  PROVE  /\ c.hostBucket /\ c.timeSkew # 0 => Server(c) = <<"hostBucket", "timeSkew", "cors">>
         /\ c.hostBucket /\ c.timeSkew = 0 => Server(c) = <<"hostBucket", "cors">>
         /\ ~c.hostBucket /\ c.timeSkew # 0 => Server(c) = <<"timeSkew", "cors">>
         /\ ~c.hostBucket /\ c.timeSkew = 0 => Server(c) = <<"cors">>
  <1> DEFINE H == "hostBucket"  T == "timeSkew"  C == "cors"
  <1>1. /\ <<H>> \o <<T>> = <<H, T>> /\ <<H, T>> \o <<C>> = <<H, T, C>>
        /\ <<H>> \o <<C>> = <<H, C>> /\ <<T>> \o <<C>> = <<T, C>>
    BY TupleConcat
  <1>2. /\ <<H>> \o << >> = <<H>> /\ << >> \o <<T>> = <<T>>
        /\ << >> \o << >> = << >> /\ << >> \o <<C>> = <<C>>
    <2>1. <<H>> \in Seq(Middlewares) /\ <<T>> \in Seq(Middlewares)
          /\ << >> \in Seq(Middlewares) /\ <<C>> \in Seq(Middlewares)
      BY DEF Middlewares
    <2>. QED
      BY <2>1, ConcatEmptySeq
  <1>. QED
    BY <1>1, <1>2 DEF Server, Configs

(***************************************************************************)
(* What routeBase makes of a path, as the client sent it or rewritten by   *)
(* hostBucketMiddleware: the path's shapes, one at a time.                 *)
(***************************************************************************)
LEMMA RouteShapes ==
  ASSUME NEW h \in Names, NEW x \in Names, NEW y \in Names
  PROVE  /\ Route(<<Empty>>) = [kind |-> "route", bucket |-> Empty, key |-> << >>]
         /\ Route(<<x>>) = [kind |-> "route", bucket |-> x, key |-> << >>]
         /\ Route(<<x, y>>) = [kind |-> "route", bucket |-> x, key |-> <<y>>]
         /\ Route(<<h, x>>) = [kind |-> "route", bucket |-> h, key |-> <<x>>]
         /\ Route(<<h, x, y>>) = [kind |-> "route", bucket |-> h, key |-> <<x, y>>]
  <1>1. /\ Tail(<<Empty>>) = << >> /\ Tail(<<x>>) = << >>
        /\ Tail(<<x, y>>) = <<y>> /\ Tail(<<h, x>>) = <<x>>
        /\ Tail(<<h, x, y>>) = <<x, y>>
    OBVIOUS
  <1>2. /\ << >> # <<Empty>> /\ <<y>> # <<Empty>> /\ <<x>> # <<Empty>>
        /\ <<x, y>> # <<Empty>>
    <2>1. Empty \notin Names
      BY NamesAssumption
    <2>. QED
      BY <2>1
  <1>. QED
    BY <1>1, <1>2 DEF Route

\* A path as the client sent it, and as hostBucketMiddleware rewrites it,
\* and what routeBase makes of it: with virtual hosts the bucket is the
\* Host's first label and the key the whole path the client sent.
LEMMA RoutePaths ==
  ASSUME NEW host \in Hosts, NEW path \in Paths
  PROVE  /\ path \in Seq(Names \cup {Empty})
         /\ HostedPath(host, path) \in Seq(Names \cup {Empty})
         /\ Route(path) \in Routes
         /\ Route(HostedPath(host, path)) \in Routes
         /\ Route(HostedPath(host, path)).bucket = host[1]
         /\ Route(HostedPath(host, path)).key = IF path = <<Empty>> THEN <<>> ELSE path
  <1>1. PICK h \in Names : host[1] = h
    BY DEF Hosts
  <1>2. CASE path = <<Empty>>
    <2>1. HostedPath(host, path) = <<h>>
      BY <1>1, <1>2 DEF HostedPath, HostBucket
    <2>2. Route(<<Empty>>) = [kind |-> "route", bucket |-> Empty, key |-> << >>]
      BY RouteShapes
    <2>3. Route(<<h>>) = [kind |-> "route", bucket |-> h, key |-> << >>]
      BY RouteShapes
    <2>4. << >> \in Seq(Names) /\ h \in Names \cup {Empty} /\ Empty \in Names \cup {Empty}
      BY <1>1
    <2>5. Route(path) \in Routes /\ Route(HostedPath(host, path)) \in Routes
      BY <1>2, <2>1, <2>2, <2>3, <2>4 DEF Routes, Route
    <2>6. path \in Seq(Names \cup {Empty}) /\ HostedPath(host, path) \in Seq(Names \cup {Empty})
      BY <1>1, <1>2, <2>1 DEF HostedPath
    <2>. QED
      BY <1>1, <1>2, <2>1, <2>3, <2>5, <2>6 DEF Route
  <1>3. CASE \E x \in Names : path = <<x>>
    <2>1. PICK x \in Names : path = <<x>>
      BY <1>3
    <2>2. path # <<Empty>>
      BY <2>1, NamesAssumption
    <2>3. HostedPath(host, path) = <<h, x>>
      BY <1>1, <2>1, <2>2, TupleConcat DEF HostedPath, HostBucket
    <2>4. Route(<<x>>) = [kind |-> "route", bucket |-> x, key |-> << >>]
      BY RouteShapes
    <2>5. Route(<<h, x>>) = [kind |-> "route", bucket |-> h, key |-> <<x>>]
      BY RouteShapes
    <2>6. << >> \in Seq(Names) /\ <<x>> \in Seq(Names)
      BY <1>1, <2>1
    <2>7. Route(path) \in Routes /\ Route(HostedPath(host, path)) \in Routes
      BY <1>1, <2>1, <2>3, <2>4, <2>5, <2>6 DEF Routes, Route
    <2>8. path \in Seq(Names \cup {Empty}) /\ HostedPath(host, path) \in Seq(Names \cup {Empty})
      <3>1. <<x>> \in Seq(Names \cup {Empty}) /\ <<h, x>> \in Seq(Names \cup {Empty})
        BY <1>1
      <3>. QED
        BY <2>1, <2>3, <3>1
    <2>. QED
      BY <1>1, <2>1, <2>2, <2>3, <2>5, <2>7, <2>8 DEF Route
  <1>4. CASE \E x, y \in Names : path = <<x, y>>
    <2>1. PICK x, y \in Names : path = <<x, y>>
      BY <1>4
    <2>2. path # <<Empty>>
      BY <2>1, NamesAssumption
    <2>3. HostedPath(host, path) = <<h, x, y>>
      BY <1>1, <2>1, <2>2, TupleConcat DEF HostedPath, HostBucket
    <2>4. Route(<<x, y>>) = [kind |-> "route", bucket |-> x, key |-> <<y>>]
      BY RouteShapes
    <2>5. Route(<<h, x, y>>) = [kind |-> "route", bucket |-> h, key |-> <<x, y>>]
      BY RouteShapes
    <2>6. <<y>> \in Seq(Names) /\ <<x, y>> \in Seq(Names)
      BY <1>1, <2>1
    <2>7. Route(path) \in Routes /\ Route(HostedPath(host, path)) \in Routes
      BY <1>1, <2>1, <2>3, <2>4, <2>5, <2>6 DEF Routes, Route
    <2>8. path \in Seq(Names \cup {Empty}) /\ HostedPath(host, path) \in Seq(Names \cup {Empty})
      <3>1. <<x, y>> \in Seq(Names \cup {Empty}) /\ <<h, x, y>> \in Seq(Names \cup {Empty})
        BY <1>1
      <3>. QED
        BY <2>1, <2>3, <3>1
    <2>. QED
      BY <1>1, <2>1, <2>2, <2>3, <2>5, <2>7, <2>8 DEF Route
  <1>. QED
    BY <1>2, <1>3, <1>4 DEF Paths

(***************************************************************************)
(* What the handlers need to know of the chain: withCORS is last and only  *)
(* last, hostBucketMiddleware is first when enabled, timeSkewMiddleware    *)
(* is there only with a limit and is followed by withCORS.                 *)
(***************************************************************************)
LEMMA ChainShape ==
  ASSUME NEW c \in Configs
  PROVE  LET ch == Server(c) IN
         /\ ch \in Seq(Middlewares) /\ Len(ch) \in 1..3
         /\ \A i \in 1..Len(ch) : ch[i] = "cors" <=> i = Len(ch)
         /\ c.hostBucket => ch[1] = "hostBucket"
         /\ c.timeSkew # 0 => 2 <= Len(ch)
         /\ \A i \in 1..Len(ch) : ch[i] = "hostBucket" =>
              /\ i = 1 /\ c.hostBucket /\ 2 <= Len(ch)
              /\ (ch[2] = "cors" => c.timeSkew = 0)
         /\ \A i \in 1..Len(ch) : ch[i] = "timeSkew" =>
              /\ c.timeSkew # 0 /\ i + 1 <= Len(ch) /\ ch[i + 1] = "cors"
  <1>1. c.hostBucket \in BOOLEAN
    BY DEF Configs
  <1>2. CASE c.hostBucket /\ c.timeSkew # 0
    <2>1. Server(c) = <<"hostBucket", "timeSkew", "cors">>
      BY <1>2, ServerCases
    <2>. QED
      BY <1>2, <2>1 DEF Middlewares
  <1>3. CASE c.hostBucket /\ c.timeSkew = 0
    <2>1. Server(c) = <<"hostBucket", "cors">>
      BY <1>3, ServerCases
    <2>. QED
      BY <1>3, <2>1 DEF Middlewares
  <1>4. CASE ~c.hostBucket /\ c.timeSkew # 0
    <2>1. Server(c) = <<"timeSkew", "cors">>
      BY <1>4, ServerCases
    <2>. QED
      BY <1>4, <2>1 DEF Middlewares
  <1>5. CASE ~c.hostBucket /\ c.timeSkew = 0
    <2>1. Server(c) = <<"cors">>
      BY <1>5, ServerCases
    <2>. QED
      BY <1>5, <2>1 DEF Middlewares
  <1>. QED
    BY <1>1, <1>2, <1>3, <1>4, <1>5

(***************************************************************************)
(* The inductive invariant holds initially and is kept by every handler.   *)
(***************************************************************************)
LEMMA InitIInv == Init => IInv
  <1> SUFFICES ASSUME Init PROVE IInv
    OBVIOUS
  <1>1. cfg \in Configs /\ chain = Server(cfg)
    BY DEF Init, Configs
  <1>2. rq.path \in Seq(Names \cup {Empty})
    BY RoutePaths DEF Init, Requests
  <1>3. TypeOK
    BY <1>1, <1>2, ChainShape DEF Init, TypeOK, Configs, Responses
  <1>4. PassInv
    BY <1>1, ChainShape DEF Init, PassInv, Handler
  <1>. QED
    BY <1>1, <1>3, <1>4 DEF Init, IInv, UrlInv, RespInv

LEMMA NextIInv == IInv /\ [Next]_vars => IInv'
  <1> SUFFICES ASSUME IInv, [Next]_vars PROVE IInv'
    OBVIOUS
  <1>1. /\ cfg \in Configs /\ chain = Server(cfg) /\ stage \in 1..Len(chain)
        /\ rq \in Requests /\ now \in Times /\ resp \in Responses
    BY DEF IInv, TypeOK, Configs
  <1>2. LET ch == chain IN
        /\ ch \in Seq(Middlewares) /\ Len(ch) \in 1..3
        /\ \A i \in 1..Len(ch) : ch[i] = "cors" <=> i = Len(ch)
        /\ cfg.hostBucket => ch[1] = "hostBucket"
        /\ cfg.timeSkew # 0 => 2 <= Len(ch)
        /\ \A i \in 1..Len(ch) : ch[i] = "hostBucket" =>
             /\ i = 1 /\ cfg.hostBucket /\ 2 <= Len(ch)
             /\ (ch[2] = "cors" => cfg.timeSkew = 0)
        /\ \A i \in 1..Len(ch) : ch[i] = "timeSkew" =>
             /\ cfg.timeSkew # 0 /\ i + 1 <= Len(ch) /\ ch[i + 1] = "cors"
    BY <1>1, ChainShape
  <1>3. rq.host \in Hosts /\ rq.path \in Paths
    BY <1>1 DEF Requests
  <1>4. ASSUME HostBucketStep PROVE IInv'
    <2>1. stage = 1 /\ cfg.hostBucket /\ stage' = 2 /\ 2 <= Len(chain)
          /\ (chain[2] = "cors" => cfg.timeSkew = 0)
      BY <1>1, <1>2, <1>4 DEF HostBucketStep, Handler
    <2>2. url = rq.path
      BY <2>1 DEF IInv, UrlInv
    <2>3. url' = HostedPath(rq.host, rq.path)
      BY <1>4, <2>2 DEF HostBucketStep, HostedPath
    <2>4. url' \in Seq(Names \cup {Empty})
      BY <1>3, <2>3, RoutePaths
    <2>5. TypeOK'
      BY <1>1, <1>4, <2>1, <2>4 DEF HostBucketStep, TypeOK, IInv
    <2>6. UrlInv'
      <3>1. cfg' = cfg /\ rq' = rq
        BY <1>4 DEF HostBucketStep
      <3>2. cfg'.hostBucket /\ stage' > 1
        BY <2>1, <3>1
      <3>. QED
        BY <2>3, <3>1, <3>2 DEF UrlInv
    <2>7. RespInv' /\ PassInv'
      BY <1>4, <2>1 DEF HostBucketStep, RespInv, PassInv, Handler
    <2>. QED
      BY <1>4, <2>5, <2>6, <2>7 DEF HostBucketStep, IInv
  <1>5. ASSUME TimeSkewStep PROVE IInv'
    <2>1. Handler = "timeSkew" /\ cfg.timeSkew # 0 /\ stage + 1 <= Len(chain)
          /\ chain[stage + 1] = "cors"
      BY <1>1, <1>2, <1>5 DEF TimeSkewStep, Handler
    <2>2. UNCHANGED <<cfg, chain, rq, url, now>>
      BY <1>5 DEF TimeSkewStep
    <2>3. CASE rq.date # Absent /\ TooSkewed(now, rq.date, cfg.timeSkew)
               /\ resp' = [kind |-> "skewed"] /\ UNCHANGED stage
      <3>1. TypeOK'
        BY <2>2, <2>3 DEF IInv, TypeOK, Responses
      <3>2. UrlInv' /\ PassInv'
        BY <2>1, <2>2, <2>3 DEF IInv, UrlInv, PassInv, Handler
      <3>3. RespInv'
        BY <2>1, <2>2, <2>3 DEF RespInv, Passed, Handler
      <3>. QED
        BY <2>2, <3>1, <3>2, <3>3 DEF IInv
    <2>4. CASE (rq.date = Absent \/ ~TooSkewed(now, rq.date, cfg.timeSkew))
               /\ stage' = stage + 1 /\ UNCHANGED resp
      <3>1. resp.kind = "pending"
        BY <1>5 DEF TimeSkewStep
      <3>2. TypeOK'
        BY <1>1, <2>1, <2>2, <2>4 DEF IInv, TypeOK
      <3>3. cfg.hostBucket => stage > 1
        BY <1>1, <1>2, <2>1 DEF Handler
      <3>4. UrlInv'
        <4>1. cfg' = cfg /\ rq' = rq /\ url' = url /\ stage' > 1 /\ stage > 0
          BY <1>1, <2>2, <2>4
        <4>. QED
          BY <3>3, <4>1 DEF IInv, UrlInv
      <3>5. RespInv' /\ PassInv'
        BY <2>1, <2>2, <2>4, <3>1 DEF RespInv, PassInv, Passed, Handler
      <3>. QED
        BY <2>2, <3>2, <3>4, <3>5 DEF IInv
    <2>. QED
      BY <1>5, <2>3, <2>4 DEF TimeSkewStep
  <1>6. ASSUME CorsStep PROVE IInv'
    <2>1. Handler = "cors" /\ UNCHANGED <<cfg, chain, stage, rq, url, now>>
      BY <1>6 DEF CorsStep
    <2>2. Route(url) \in Routes
      BY <1>3, RoutePaths DEF IInv, UrlInv
    <2>3. resp' \in Responses
      BY <1>6, <2>2 DEF CorsStep, Responses
    <2>4. TypeOK'
      BY <2>1, <2>3 DEF IInv, TypeOK
    <2>5. RespInv'
      BY <1>6, <2>1 DEF CorsStep, RespInv, Handler, Route
    <2>6. UrlInv' /\ PassInv'
      BY <2>1 DEF IInv, UrlInv, PassInv, Passed, Handler
    <2>. QED
      BY <2>1, <2>4, <2>5, <2>6 DEF IInv
  <1>7. CASE UNCHANGED vars
    BY <1>7 DEF vars, IInv, TypeOK, UrlInv, RespInv, PassInv, Passed, Handler
  <1>. QED
    BY <1>4, <1>5, <1>6, <1>7 DEF Next

\* Every state of one request through the chain Server builds is well typed:
\* in particular routeBase always gets a path it can split into a bucket
\* and a key of names.
THEOREM MiddlewareTypeCorrect == Spec => []TypeOK
  <1>1. IInv => TypeOK
    BY DEF IInv
  <1>. QED
    BY <1>1, InitIInv, NextIInv, PTL DEF Spec

(***************************************************************************)
(* The time-skew window, for every Duration width: a response that is not  *)
(* "skewed" was written by withCORS, so the request passed                 *)
(* timeSkewMiddleware's test whenever a limit was set; a "skewed" one was  *)
(* written by timeSkewMiddleware after its test failed.  SkewExact turns   *)
(* the code's saturating, negated-Duration test into the exact distance.   *)
(***************************************************************************)
LEMMA IInvSkewWindow == IInv => SkewWindow
  <1> SUFFICES ASSUME IInv, resp.kind # "pending", rq.date # Garbled, cfg.timeSkew < MaxDur
               PROVE  (resp.kind = "skewed") <=> (/\ cfg.timeSkew # 0
                                                  /\ rq.date \in Times
                                                  /\ Abs(now - rq.date) > cfg.timeSkew)
    BY DEF SkewWindow
  <1>1. /\ cfg \in Configs /\ chain = Server(cfg) /\ stage \in 1..Len(chain)
        /\ rq \in Requests /\ now \in Times /\ resp \in Responses
    BY DEF IInv, TypeOK, Configs
  <1>2. rq.date \in Times \cup {Absent} /\ cfg.timeSkew \in Skews
    BY <1>1 DEF Requests, Dates, Configs
  <1>3. Absent \notin Times
    BY NamesAssumption
  <1>4. CASE resp.kind = "skewed"
    <2>1. Handler = "timeSkew" /\ ~Passed
      BY <1>4 DEF IInv, RespInv
    <2>2. cfg.timeSkew # 0
      BY <1>1, <2>1, ChainShape DEF Handler
    <2>3. rq.date \in Times /\ TooSkewed(now, rq.date, cfg.timeSkew)
      BY <1>2, <2>1 DEF Passed
    <2>4. Abs(now - rq.date) > cfg.timeSkew
      BY <1>1, <1>2, <2>3, SkewExact
    <2>. QED
      BY <1>4, <2>2, <2>3, <2>4
  <1>5. CASE resp.kind # "skewed"
    <2>1. Handler = "cors"
      BY <1>1, <1>5 DEF IInv, RespInv, Responses, Routes
    <2>2. cfg.timeSkew # 0 /\ rq.date \in Times => ~TooSkewed(now, rq.date, cfg.timeSkew)
      BY <1>3, <2>1 DEF IInv, PassInv, Passed
    <2>3. cfg.timeSkew # 0 /\ rq.date \in Times => ~(Abs(now - rq.date) > cfg.timeSkew)
      BY <1>1, <1>2, <2>2, SkewExact
    <2>. QED
      BY <1>5, <2>3
  <1>. QED
    BY <1>4, <1>5

\* A request answered without RequestTimeTooSkewed was inside the window,
\* and one answered with it was outside, for every Duration width and limit
\* below the largest Duration.
THEOREM SkewWindowHolds == Spec => []SkewWindow
  BY InitIInv, NextIInv, IInvSkewWindow, PTL DEF Spec

\* Virtual-host addressing: a routed request reached withCORS past
\* hostBucketMiddleware, which rewrote the path once.
LEMMA IInvHostRouting == IInv => HostRouting
  <1> SUFFICES ASSUME IInv, cfg.hostBucket, resp.kind = "route"
               PROVE  /\ resp.bucket = rq.host[1]
                      /\ resp.key = IF rq.path = <<Empty>> THEN <<>> ELSE rq.path
    BY DEF HostRouting
  <1>1. /\ cfg \in Configs /\ chain = Server(cfg) /\ stage \in 1..Len(chain)
        /\ rq \in Requests
    BY DEF IInv, TypeOK, Configs
  <1>2. Handler = "cors" /\ resp = Route(url)
    BY DEF IInv, RespInv
  <1>3. stage > 1
    BY <1>1, <1>2, ChainShape DEF Handler
  <1>4. url = HostedPath(rq.host, rq.path)
    BY <1>3 DEF IInv, UrlInv
  <1>. QED
    BY <1>1, <1>2, <1>4, RoutePaths DEF Requests

\* With virtual hosts on, every routed request names the first label of its
\* Host as the bucket and its whole original path as the key.
THEOREM HostRoutingHolds == Spec => []HostRouting
  BY InitIInv, NextIInv, IInvHostRouting, PTL DEF Spec
(***************************************************************************)
(* The handler chain implements the dispatch promise.  The refinement      *)
(* mapping is the identity on cfg, rq, now and resp; chain, stage and url  *)
(* are hidden.  hostBucketMiddleware's rewrite and timeSkewMiddleware's    *)
(* pass-on change none of the four and are stutters; the step that writes  *)
(* the response is the abstract Respond, and the inductive invariant says  *)
(* why its answer is the abstract one: a refusal comes from                *)
(* timeSkewMiddleware, which runs only under a nonzero limit; withCORS is  *)
(* reached only past the skew test, with the path rewritten exactly when   *)
(* host-bucket addressing is on.                                           *)
(***************************************************************************)
\* A pending response is the record the abstract specification starts from.
LEMMA PendingResp ==
  ASSUME NEW r \in Responses, r.kind = "pending"
  PROVE  r = Dispatch!Pending
  <1>1. r \in [kind : {"pending", "skewed", "preflight"}]
    BY DEF Responses, Routes
  <1>. QED
    BY <1>1 DEF Dispatch!Pending

LEMMA InitDispatch == Init => Dispatch!Init
  BY DEF Init, Dispatch!Init, Dispatch!Pending

LEMMA StepDispatch ==
  IInv /\ [Next]_vars => [Dispatch!Respond]_Dispatch!vars
  <1> SUFFICES ASSUME IInv, [Next]_vars PROVE [Dispatch!Respond]_Dispatch!vars
    OBVIOUS
  <1>1. /\ cfg \in Configs /\ chain = Server(cfg) /\ stage \in 1..Len(chain)
        /\ rq \in Requests /\ now \in Times /\ resp \in Responses
    BY DEF IInv, TypeOK, Configs
  <1>2. ASSUME HostBucketStep PROVE UNCHANGED Dispatch!vars
    BY <1>2 DEF HostBucketStep, Dispatch!vars
  <1>3. ASSUME TimeSkewStep PROVE [Dispatch!Respond]_Dispatch!vars
    <2>1. resp = Dispatch!Pending /\ UNCHANGED <<cfg, rq, now>>
      BY <1>1, <1>3, PendingResp DEF TimeSkewStep
    <2>2. cfg.timeSkew # 0
      BY <1>1, <1>3, ChainShape DEF TimeSkewStep, Handler
    <2>3. CASE rq.date # Absent /\ TooSkewed(now, rq.date, cfg.timeSkew)
               /\ resp' = [kind |-> "skewed"]
      <3>1. Dispatch!Answer(cfg, rq, now) = [kind |-> "skewed"]
        BY <2>2, <2>3 DEF Dispatch!Answer
      <3>. QED
        BY <2>1, <2>3, <3>1 DEF Dispatch!Respond
    <2>4. CASE UNCHANGED resp
      BY <2>1, <2>4 DEF Dispatch!vars
    <2>. QED
      BY <1>3, <2>3, <2>4 DEF TimeSkewStep
  <1>4. ASSUME CorsStep PROVE Dispatch!Respond
    <2>1. resp = Dispatch!Pending /\ UNCHANGED <<cfg, rq, now>> /\ Handler = "cors"
      BY <1>1, <1>4, PendingResp DEF CorsStep
    <2>2. ~(cfg.timeSkew # 0 /\ rq.date # Absent /\ TooSkewed(now, rq.date, cfg.timeSkew))
      BY <2>1 DEF IInv, PassInv, Passed
    <2>3. url = IF cfg.hostBucket THEN HostedPath(rq.host, rq.path) ELSE rq.path
      <3>1. cfg.hostBucket => stage > 1
        BY <1>1, <2>1, ChainShape DEF Handler
      <3>. QED
        BY <3>1 DEF IInv, UrlInv
    <2>4. Dispatch!Answer(cfg, rq, now) =
            IF rq.method = "OPTIONS" THEN [kind |-> "preflight"] ELSE Route(url)
      BY <2>2, <2>3 DEF Dispatch!Answer
    <2>. QED
      BY <1>4, <2>1, <2>4 DEF CorsStep, Dispatch!Respond
  <1>5. CASE UNCHANGED vars
    BY <1>5 DEF vars, Dispatch!vars
  <1>. QED
    BY <1>2, <1>3, <1>4, <1>5 DEF Next

\* One request through the chain Server builds is answered once, as the
\* dispatch promise decides it: skew refusal, then CORS preflight, then
\* routing by the (virtual-host) path, for every Duration width, clock,
\* limit and name set.
THEOREM DispatchRefinedHolds == Spec => DispatchRefined
  <1>1. []IInv /\ [][Next]_vars => [][Dispatch!Respond]_Dispatch!vars
    BY StepDispatch, PTL
  <1>. QED
    BY InitIInv, NextIInv, InitDispatch, <1>1, PTL DEF Spec, DispatchRefined, Dispatch!Spec
=============================================================================
