--------------------------- MODULE RequestDispatch ---------------------------
(***************************************************************************)
(* What the handler chain GoFakeS3.Server returns promises for one         *)
(* request (spec section 4.2), with the handlers and the rewritten URL     *)
(* left out: the request is answered once, atomically, and the answer is   *)
(* a function of the options, the request and the clock.  A configured     *)
(* skew limit refuses a dated request first; otherwise an OPTIONS request  *)
(* is a CORS preflight; otherwise the request is routed, by its            *)
(* virtual-host path when host-bucket addressing is on.                    *)
(*                                                                         *)
(* How a date is judged too far from the clock, how a Host rewrites a      *)
(* path and how a path is routed are the constant operators Refused,       *)
(* Rewritten and Routed: the promise is about the order of the decisions,  *)
(* not about their arithmetic.                                             *)
(***************************************************************************)
CONSTANTS
  Configs,          \* the option values: [timeSkew, hostBucket]
  Requests,         \* the requests a client may send
  Times,            \* the clock readings
  Absent,           \* no x-amz-date header
  Refused(_, _, _), \* Refused(now, date, limit): the date is too far off
  Rewritten(_, _),  \* Rewritten(host, path): the virtual-host path
  Routed(_)         \* Routed(path): the router's answer for a path

VARIABLES
  cfg,   \* the options the server was built with
  rq,    \* the request
  now,   \* the clock
  resp   \* the answer, kind "pending" until one is written

vars == <<cfg, rq, now, resp>>

Pending == [kind |-> "pending"]

\* The answer the server owes a request.
Answer(c, r, t) ==
  IF c.timeSkew # 0 /\ r.date # Absent /\ Refused(t, r.date, c.timeSkew)
    THEN [kind |-> "skewed"]
  ELSE IF r.method = "OPTIONS"
    THEN [kind |-> "preflight"]
  ELSE Routed(IF c.hostBucket THEN Rewritten(r.host, r.path) ELSE r.path)

Init ==
  /\ cfg \in Configs
  /\ rq \in Requests
  /\ now \in Times
  /\ resp = Pending

\* The one step: the pending request gets its answer.
Respond ==
  /\ resp = Pending
  /\ resp' = Answer(cfg, rq, now)
  /\ UNCHANGED <<cfg, rq, now>>

Spec == Init /\ [][Respond]_vars
=============================================================================
