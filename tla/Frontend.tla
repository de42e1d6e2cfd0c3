------------------------------ MODULE Frontend ------------------------------
(***************************************************************************)
(* The chain of handlers that a request passes before and after the proxy  *)
(* (internal/middleware, internal/tracing), as runNetHttp and runFasthttp  *)
(* put it together: the rate limiter that requests share, the filters that *)
(* answer a request themselves, the bound on the response, and the         *)
(* recovery from a panic.                                                  *)
(*                                                                         *)
(* Handlers that only look at the request are local to its goroutine: they *)
(* are passed in one step.  The proxy itself is Proxy or FastProxy; here   *)
(* it answers in any of the ways those can.                                *)
(***************************************************************************)
EXTENDS Integers, Sequences, FiniteSets

CONSTANTS
  Requests,    \* the requests that may be served at a time
  IPs,         \* addresses
  NoHeader,    \* a header that is not set
  Configs,     \* the configurations to start with
  Burst,       \* cfg.RateLimit.Burst
  Text,        \* the length of an error text
  MaxBody,     \* bound: the length of a response
  MaxAge       \* bound: ticks of a window in which requests are counted

ASSUME FrontendAssumption ==
  /\ {Burst, Text, MaxBody, MaxAge} \subseteq Nat
  /\ NoHeader \notin IPs
  /\ Configs \subseteq [fasthttp : BOOLEAN, limited : BOOLEAN,
                        black : SUBSET IPs, white : SUBSET IPs, max : Nat]

VARIABLES
  cfg,        \* the configuration, fixed at start
  req,        \* the requests
  tokens,     \* RateLimiter.limiters: the tokens of an address that has a limiter
  win, age    \* history: admissions of each address in a window, and its age

vars == <<cfg, req, tokens, win, age>>

\* A request at this place that has done nothing yet.
Blank(place, peer, filters) ==
  [pc |-> place,
   at |-> 0,             \* the position in the chain
   peer |-> peer,        \* r.RemoteAddr
   filters |-> filters,  \* the handlers that will not pass it on
   paid |-> FALSE,       \* it has a token of the rate limiter
   status |-> 0,         \* the status sent, 0 before
   body |-> 0,           \* the length of the response so far
   cut |-> FALSE]        \* copying the response panicked

Idle == Blank("idle", NoHeader, {})

Becomes(r, q) == req' = [req EXCEPT ![r] = q]

Goto(q, place) == [q EXCEPT !.pc = place]

Reply(q, place, status, body) ==
  [q EXCEPT !.pc = place, !.status = status, !.body = body]

----------------------------------------------------------------------------
(* Wiring                                                                  *)

\* Each handler wraps the ones built before it.
NetOrder ==
  <<"Recovery", "Logging", "SizeLimit", "IPFilter", "Security", "RateLimit",
    "RequestID", "Proxy">>

FastOrder == <<"RateLimit", "Recovery", "Logging", "RequestID", "Proxy">>

Chain == IF cfg.fasthttp THEN FastOrder ELSE NetOrder

\* The handlers that the configuration leaves out are not wrapped.  SizeLimit
\* is the writer that bounds the response.  A bound on requests alone installs
\* the handler too, without that writer: what it does is to fail the read of a
\* long body, which comes back as ProxyError.
Installed(m) ==
  /\ m = "SizeLimit" => cfg.max > 0
  /\ m = "IPFilter" => cfg.white \cup cfg.black # {}
  /\ m = "RateLimit" => cfg.limited

Init ==
  /\ cfg \in Configs
  /\ req = [r \in Requests |-> Idle]
  /\ tokens = <<>>
  /\ win = [i \in IPs |-> 0] /\ age = 0

----------------------------------------------------------------------------
(* A request comes in and goes down the chain                              *)

\* The first address of X-Forwarded-For, X-Real-IP, or the peer.
getClientIP(peer, xff, xri) ==
  IF xff # NoHeader THEN xff ELSE IF xri # NoHeader THEN xri ELSE peer

Blocked(client) ==
  \/ cfg.black # {} /\ client \in cfg.black
  \/ cfg.white # {} /\ client \notin cfg.white

\* The handlers that will not pass the request on.  CORS is always on: the
\* configuration can only set its lists.
Filters(client, options) ==
  {i \in DOMAIN Chain : /\ Installed(Chain[i])
                        /\ \/ Chain[i] = "IPFilter" /\ Blocked(client)
                           \/ Chain[i] = "Security" /\ options}

Arrive(r, peer, client, options) ==
  /\ req[r] = Idle
  /\ Becomes(r, Blank("down", peer, Filters(client, options)))
  /\ UNCHANGED <<cfg, tokens, win, age>>

\* The handlers further down that do more than pass the request on.
Stops(q) ==
  {i \in DOMAIN Chain :
     /\ i > q.at /\ Installed(Chain[i])
     /\ i \in q.filters \/ Chain[i] \in {"RateLimit", "Proxy"}}

Reach(q, i) == [q EXCEPT !.at = i, !.pc = Chain[i]]

\* On to the first of them.
Down(r, i) ==
  /\ req[r].pc = "down"
  /\ i \in Stops(req[r]) /\ \A j \in Stops(req[r]) : i <= j
  /\ Becomes(r, Reach(req[r], i))
  /\ UNCHANGED <<cfg, tokens, win, age>>

----------------------------------------------------------------------------
(* Writing a response                                                      *)

Inside(q, m) == Installed(m) /\ \E i \in 1 .. q.at - 1 : Chain[i] = m

\* Mutant of TooLarge: what was written is compared, not what will have been.
TooLargeBefore(q, n) == Inside(q, "SizeLimit") /\ q.body > cfg.max

\* limitedResponseWriter.Write refuses.
TooLarge(q, n) == Inside(q, "SizeLimit") /\ q.body + n > cfg.max

\* The first status that is written counts.
Status(q, code) == IF q.status = 0 THEN code ELSE q.status

\* http.Error and ctx.Error; nobody looks at the result of the write.
Error(q, code) ==
  Reply(q, "done", Status(q, code), IF TooLarge(q, Text) THEN q.body ELSE q.body + Text)

----------------------------------------------------------------------------
(* Handlers that answer                                                    *)

IPFilter(r) ==
  /\ req[r].pc = "IPFilter"
  /\ Becomes(r, Error(req[r], 403))
  /\ UNCHANGED <<cfg, tokens, win, age>>

\* A preflight request is answered here.
Security(r) ==
  /\ req[r].pc = "Security"
  /\ Becomes(r, Reply(req[r], "done", 204, 0))
  /\ UNCHANGED <<cfg, tokens, win, age>>

\* Mutant of LimiterKey: one bucket for all.
LimiterKeyShared(q) == CHOOSE i \in IPs : TRUE

\* The address of the peer, whatever the headers say.
LimiterKey(q) == q.peer

NewLimiter == Burst

\* Mutant of getLimiter: the lookup is missing.
getLimiterAnew(r) ==
  /\ req[r].pc = "RateLimit"
  /\ tokens' = [i \in DOMAIN tokens \cup {LimiterKey(req[r])} |->
                  IF i = LimiterKey(req[r]) THEN NewLimiter ELSE tokens[i]]
  /\ Becomes(r, Goto(req[r], "allow"))
  /\ UNCHANGED <<cfg, win, age>>

\* The map is looked up, and a limiter added, under the mutex.
getLimiter(r) ==
  /\ req[r].pc = "RateLimit"
  /\ tokens' = [i \in DOMAIN tokens \cup {LimiterKey(req[r])} |->
                  IF i \in DOMAIN tokens THEN tokens[i] ELSE NewLimiter]
  /\ Becomes(r, Goto(req[r], "allow"))
  /\ UNCHANGED <<cfg, win, age>>

Pay(q) == [q EXCEPT !.pc = "down", !.paid = TRUE]

\* Limiter.Allow takes a token ...
Allow(r) ==
  LET q == req[r] IN
  /\ q.pc = "allow" /\ tokens[LimiterKey(q)] > 0
  /\ tokens' = [tokens EXCEPT ![LimiterKey(q)] = @ - 1]
  /\ win' = [win EXCEPT ![q.peer] = @ + 1]
  /\ Becomes(r, Pay(q))
  /\ UNCHANGED <<cfg, age>>

\* Mutant of TooMany: the return after http.Error is missing.
TooManyPassedOn(r) ==
  LET q == req[r] IN
  /\ q.pc = "allow" /\ tokens[LimiterKey(q)] = 0
  /\ Becomes(r, Goto(Error(q, 429), "down"))
  /\ UNCHANGED <<cfg, tokens, win, age>>

\* ... or there is none.
TooMany(r) ==
  LET q == req[r] IN
  /\ q.pc = "allow" /\ tokens[LimiterKey(q)] = 0
  /\ Becomes(r, Error(q, 429))
  /\ UNCHANGED <<cfg, tokens, win, age>>

----------------------------------------------------------------------------
(* The proxy, as seen from the chain                                       *)

\* No answer, or no backend: 502 stands for 503 too.
ProxyError(r) ==
  /\ req[r].pc = "Proxy"
  /\ Becomes(r, Error(req[r], 502))
  /\ UNCHANGED <<cfg, tokens, win, age>>

\* fasthttp has the whole response before it sets it.
FastAnswer(r, n) ==
  /\ req[r].pc = "Proxy" /\ cfg.fasthttp
  /\ Becomes(r, Reply(req[r], "done", 200, n))
  /\ UNCHANGED <<cfg, tokens, win, age>>

\* ReverseProxy sends the header: 200 stands for every status of a backend ...
Header(r) ==
  /\ req[r].pc = "Proxy" /\ ~cfg.fasthttp
  /\ Becomes(r, Reply(req[r], "copy", 200, 0))
  /\ UNCHANGED <<cfg, tokens, win, age>>

Panic(q) == [q EXCEPT !.pc = "panic", !.cut = TRUE]

\* ... copies the body as it comes, and panics if a write is refused, ...
Copy(r, n) ==
  LET q == req[r] IN
  /\ q.pc = "copy" /\ q.body + n <= MaxBody
  /\ Becomes(r, IF TooLarge(q, n) THEN Panic(q) ELSE Reply(q, "copy", 200, q.body + n))
  /\ UNCHANGED <<cfg, tokens, win, age>>

\* ... and also if the backend or the client is lost.
CopyFails(r) ==
  /\ req[r].pc = "copy"
  /\ Becomes(r, Panic(req[r]))
  /\ UNCHANGED <<cfg, tokens, win, age>>

CopyEnds(r) ==
  /\ req[r].pc = "copy"
  /\ Becomes(r, Goto(req[r], "done"))
  /\ UNCHANGED <<cfg, tokens, win, age>>

----------------------------------------------------------------------------
(* Back up the chain                                                       *)

\* Mutant of Recovery: it logs and panics again.
RecoveryAgain(r) ==
  /\ req[r].pc = "panic"
  /\ Becomes(r, Goto(req[r], "lost"))
  /\ UNCHANGED <<cfg, tokens, win, age>>

\* The deferred function answers on the writer that it was given, outside of
\* the bound; without it, the panic ends the goroutine.
Recovery(r) ==
  LET q == req[r] IN
  /\ q.pc = "panic"
  /\ Becomes(r, IF Inside(q, "Recovery")
                THEN Reply(q, "done", Status(q, 500), q.body + Text) ELSE Goto(q, "lost"))
  /\ UNCHANGED <<cfg, tokens, win, age>>

\* Logging writes its line, and the outermost handler returns.
Leave(r) ==
  /\ req[r].pc = "done"
  /\ Becomes(r, Idle)
  /\ UNCHANGED <<cfg, tokens, win, age>>

----------------------------------------------------------------------------
(* Time, in units of 1/rps                                                 *)

Refill(n) == IF n < Burst THEN n + 1 ELSE n

Clock ==
  /\ cfg.limited
  /\ tokens' = [i \in DOMAIN tokens |-> Refill(tokens[i])]
  /\ IF age < MaxAge
     THEN age' = age + 1 /\ UNCHANGED win
     ELSE age' = 0 /\ win' = [i \in IPs |-> 0]
  /\ UNCHANGED <<cfg, req>>

\* The window that is looked at may begin at any time.
StartWindow ==
  /\ age' = 0 /\ win' = [i \in IPs |-> 0]
  /\ UNCHANGED <<cfg, req, tokens>>

----------------------------------------------------------------------------

Serve(r) ==
  \/ \E i \in DOMAIN Chain : Down(r, i)
  \/ IPFilter(r) \/ Security(r) \/ getLimiter(r) \/ Allow(r) \/ TooMany(r)
  \/ ProxyError(r)
  \/ \E n \in {0, MaxBody} : FastAnswer(r, n)
  \/ Header(r) \/ CopyFails(r) \/ CopyEnds(r)
  \/ \E n \in 1 .. MaxBody : Copy(r, n)
  \/ Recovery(r) \/ Leave(r)

Next ==
  \/ Clock \/ StartWindow
  \/ \E r \in Requests :
       \/ Serve(r)
       \/ \E peer \in IPs, xff, xri \in IPs \cup {NoHeader}, options \in BOOLEAN :
            Arrive(r, peer, getClientIP(peer, xff, xri), options)

Spec == Init /\ [][Next]_vars

\* Goroutines run, what is copied ends, and time passes; requests come as
\* they like.
FairSpec == Spec /\ WF_vars(Clock) /\ \A r \in Requests : WF_vars(Serve(r))

----------------------------------------------------------------------------
(* Correctness                                                             *)

Places == {"idle", "down", "IPFilter", "Security", "RateLimit", "allow", "Proxy",
           "copy", "panic", "done", "lost"}

Statuses == {0, 200, 204, 403, 429, 500, 502}

Calls ==
  [pc : Places, at : 0 .. Len(Chain), peer : IPs \cup {NoHeader},
   filters : SUBSET DOMAIN Chain, paid : BOOLEAN, status : Statuses,
   body : 0 .. MaxBody + Text, cut : BOOLEAN]

\* Every variable has its type; no bucket holds more than Burst.
TypeOK ==
  /\ cfg \in Configs
  /\ req \in [Requests -> Calls]
  /\ DOMAIN tokens \subseteq IPs /\ tokens \in [DOMAIN tokens -> 0 .. Burst]
  /\ win \in [IPs -> Nat] /\ age \in 0 .. MaxAge

(***************************************************************************)
(* In any window, wherever it begins and however the requests of an        *)
(* address overlap, no more of them pass the rate limiter than the burst   *)
(* and one for each tick.                                                  *)
(***************************************************************************)
RateBound == \A i \in IPs : win[i] <= Burst + age

(***************************************************************************)
(* What reaches the proxy is nothing that a filter should have stopped     *)
(* (ipfilter.go:29, security.go:82), and with rate limiting it has taken a *)
(* token of its address, however the handlers are ordered: a handler that  *)
(* answers does not pass the request on, and none is forgotten in the      *)
(* chains of the two engines.                                              *)
(***************************************************************************)
ProxyGuarded ==
  \A r \in Requests : req[r].pc \in {"Proxy", "copy", "panic"} =>
    req[r].filters = {} /\ req[r].paid = cfg.limited

(***************************************************************************)
(* A response is not longer than max_response_size, whether the proxy or a *)
(* filter writes it; only the text of Recovery comes on top of one that    *)
(* was cut short.                                                          *)
(***************************************************************************)
ResponseBounded ==
  cfg.max > 0 /\ ~cfg.fasthttp =>
    \A r \in Requests :
      req[r].body <= cfg.max + (IF req[r].cut THEN Text ELSE 0)

(***************************************************************************)
(* Every request is answered with a status, also one whose copying         *)
(* panicked: no panic leaves the chain.                                    *)
(***************************************************************************)
Answered ==
  \A r \in Requests : req[r].pc = "down" ~> req[r].pc = "done" /\ req[r].status # 0

(***************************************************************************)
(* An address that is refused again and again is also admitted again and   *)
(* again, whatever other addresses do.                                     *)
(***************************************************************************)
NotStarved ==
  \A i \in IPs :
    []<>(\E r \in Requests : req[r].pc = "done" /\ req[r].peer = i /\ req[r].status = 429
                              /\ ~req[r].paid)
      => []<>(\E r \in Requests : req[r].pc # "idle" /\ req[r].peer = i /\ req[r].paid)

=============================================================================
