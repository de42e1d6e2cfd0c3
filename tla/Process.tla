------------------------------ MODULE Process ------------------------------
(***************************************************************************)
(* The life of the process (cmd/proxy): main loads the configuration,      *)
(* starts the health checker and the configuration watcher, and serves     *)
(* until a signal arrives; internal/config validates the file and loads it *)
(* again when it is written.                                               *)
(*                                                                         *)
(* Goroutines: main, the signal handler, the watcher, the health checker   *)
(* and one for each request.  When main returns, all of them stop.         *)
(***************************************************************************)
EXTENDS Integers, Sequences

CONSTANTS
  Requests,   \* the requests that may be served at a time
  Contents,   \* what the file may hold
  Torn,       \* what a reader may see in the middle of a write
  MaxEdits    \* bound: changes of the file

----------------------------------------------------------------------------
(* validator.go: a configuration is a record of what is validated; strings *)
(* are classes: "" is empty, "missing" is a file that does not exist.      *)

validateServer(c) == c.listen # "" /\ \A t \in c.timeouts : t > 0

validateBackends(c) ==
  /\ c.backends # <<>>
  /\ \A i \in DOMAIN c.backends :
       c.backends[i].url = "http" /\ c.backends[i].weight >= 0

\* The message says "must be less than"; the comparison accepts equality.
validateHealth(c) ==
  c.interval > 0 /\ c.timeout > 0 /\ ~(c.timeout > c.interval) /\ c.path = "/"

validateRateLimit(c) ==
  c.rps >= 0 /\ c.burst >= 0 /\ ~(c.burst > 0 /\ c.rps = 0)

validateStrategy(c) ==
  c.strategy \in {"round_robin", "least_conn", "consistent_hash", "weighted_round_robin"}

validateTLS(c) ==
  c.tls => /\ c.cert \notin {"", "missing"} /\ c.key \notin {"", "missing"}
           /\ c.ca # "missing"
           /\ {c.min, c.max} \subseteq {"", "TLS1.0", "TLS1.1", "TLS1.2", "TLS1.3"}

validateSecurity(c) == \A n \in c.sizes : n >= 0

Validate(c) ==
  /\ validateServer(c) /\ validateBackends(c) /\ validateHealth(c)
  /\ validateRateLimit(c) /\ validateStrategy(c) /\ validateTLS(c)
  /\ validateSecurity(c)

----------------------------------------------------------------------------

ASSUME ProcessAssumption == Torn \subseteq Contents /\ MaxEdits \in Nat

VARIABLES
  file,       \* config.yaml
  writing,    \* an editor has truncated the file and not yet filled it
  edits,      \* the number of changes so far
  watched,    \* the watch is attached to the file at this path
  event,      \* a Write event waits in watcher.Events
  heard,      \* history: the last change of the file was a watched write
  mgr,        \* Manager.config
  watcher,    \* the goroutine of the watcher
  data,       \* what its load has read
  cfg,        \* the configuration that main took from the manager
  main,       \* the main goroutine
  listener,   \* the proxy's listener
  tls,        \* the listener speaks TLS
  handler,    \* the goroutine that waits for a signal
  ctx,        \* the context of checker and watcher is not cancelled
  late,       \* history: the timeout of Shutdown ran out
  inflight    \* the requests that are being served

None == [file |-> "none"]

disk == <<file, writing, edits, watched, event, heard>>
watch == <<mgr, watcher, data>>
server == <<main, listener, tls, handler, ctx, late, inflight>>
vars == <<disk, watch, cfg, server>>

Init ==
  /\ file \in Contents
  /\ writing = FALSE /\ edits = 0
  /\ watched = FALSE /\ event = FALSE /\ heard = FALSE
  /\ mgr = None /\ cfg = None
  /\ watcher = "off" /\ data = None
  /\ main = "load"
  /\ listener = "none" /\ tls = FALSE
  /\ handler = "off"
  /\ ctx = TRUE /\ late = FALSE
  /\ inflight = {}

Fast == cfg.fasthttp

----------------------------------------------------------------------------
(* main                                                                    *)

\* NewManager; an error is fatal.
Load ==
  /\ main = "load"
  /\ IF Validate(file)
     THEN mgr' = file /\ cfg' = file /\ main' = "start"
     ELSE main' = "exited" /\ UNCHANGED <<mgr, cfg>>
  /\ UNCHANGED <<disk, watcher, data, listener, tls, handler, ctx, late, inflight>>

\* The checker, the watcher and the signal handler are started.
Start ==
  /\ main = "start"
  /\ main' = "listen" /\ watcher' = "starting" /\ handler' = "starting"
  /\ UNCHANGED <<disk, mgr, data, cfg, listener, tls, ctx, late, inflight>>

\* Both files must be named; otherwise the server is a plain one.
WantsTLS(c) == c.tls /\ c.cert # "" /\ c.key # ""

(***************************************************************************)
(* ListenAndServe.  net/http remembers a Shutdown that came first;         *)
(* fasthttp does not.  The fasthttp engine does not look at cfg.TLS.       *)
(***************************************************************************)
Listen ==
  /\ main = "listen"
  /\ IF listener = "closed"
     THEN main' = "returned" /\ UNCHANGED <<listener, tls>>
     ELSE /\ main' = "serving" /\ listener' = "open"
          /\ tls' = (~Fast /\ WantsTLS(cfg))
  /\ UNCHANGED <<disk, watch, cfg, handler, ctx, late, inflight>>

\* The address is in use, the certificate cannot be loaded, or the listener
\* fails while it is open: logger.Fatal, also for the admin server of the
\* fasthttp engine, which has a goroutine.
ListenFails ==
  /\ main = "listen" \/ (main = "serving" /\ (Fast \/ listener = "open"))
  /\ main' = "exited"
  /\ UNCHANGED <<disk, watch, cfg, listener, tls, handler, ctx, late, inflight>>

\* ErrServerClosed (nil for fasthttp), as soon as the listener is closed.
ServeReturns ==
  /\ main = "serving" /\ listener = "closed"
  /\ main' = "returned"
  /\ UNCHANGED <<disk, watch, cfg, listener, tls, handler, ctx, late, inflight>>

\* main returns: its deferred calls run and the process ends.
Exit ==
  /\ main = "returned"
  /\ main' = "exited" /\ ctx' = FALSE
  /\ UNCHANGED <<disk, watch, cfg, listener, tls, handler, late, inflight>>

----------------------------------------------------------------------------
(* Requests                                                                *)

Accept(r) ==
  /\ listener = "open" /\ r \notin inflight
  /\ inflight' = inflight \cup {r}
  /\ UNCHANGED <<disk, watch, cfg, main, listener, tls, handler, ctx, late>>

Finish(r) ==
  /\ r \in inflight
  /\ inflight' = inflight \ {r}
  /\ UNCHANGED <<disk, watch, cfg, main, listener, tls, handler, ctx, late>>

----------------------------------------------------------------------------
(* The signal handler                                                      *)

\* Shutdown found no listener and the server does not know of it.
Forgotten == handler \in {"draining", "drained"} /\ listener # "closed"

Notify ==
  /\ handler = "starting" /\ handler' = "waiting"
  /\ UNCHANGED <<disk, watch, cfg, main, listener, tls, ctx, late, inflight>>

\* A signal that nobody is waiting for kills the process, or is ignored if
\* an earlier one is being handled.
Signal ==
  /\ IF handler = "waiting"
     THEN handler' = "signalled" /\ UNCHANGED main
     ELSE handler \in {"off", "starting"} /\ main' = "exited" /\ UNCHANGED handler
  /\ UNCHANGED <<disk, watch, cfg, listener, tls, ctx, late, inflight>>

\* Mutant of Shutdown: the connections are drained before the listener is closed.
ShutdownDrainsFirst ==
  /\ handler = "signalled" /\ inflight = {}
  /\ handler' = "draining"
  /\ UNCHANGED <<disk, watch, cfg, main, listener, tls, ctx, late, inflight>>

(***************************************************************************)
(* Shutdown closes the listener.  fasthttp's returns at once if there is   *)
(* none yet, and the server listens although it was told to stop.          *)
(***************************************************************************)
Shutdown ==
  /\ handler = "signalled"
  /\ handler' = "draining"
  /\ listener' = IF Fast /\ listener = "none" THEN "none" ELSE "closed"
  /\ UNCHANGED <<disk, watch, cfg, main, tls, ctx, late, inflight>>

\* Mutant of Drained: Shutdown is not waited for.
DrainedAtOnce ==
  /\ handler = "draining"
  /\ handler' = "drained" /\ ctx' = FALSE
  /\ UNCHANGED <<disk, watch, cfg, main, listener, tls, late, inflight>>

\* Shutdown returns when the last request has ended, and cancel() is called.
Drained ==
  /\ handler = "draining" /\ (inflight = {} \/ Forgotten)
  /\ handler' = "drained" /\ ctx' = FALSE
  /\ UNCHANGED <<disk, watch, cfg, main, listener, tls, late, inflight>>

\* Shutdown returns because 30 seconds are over; fasthttp's has no timeout.
DrainTimeout ==
  /\ handler = "draining" /\ inflight # {} /\ ~Fast
  /\ handler' = "drained" /\ ctx' = FALSE /\ late' = TRUE
  /\ UNCHANGED <<disk, watch, cfg, main, listener, tls, inflight>>

----------------------------------------------------------------------------
(* watcher.go                                                              *)

AddWatch ==
  /\ watcher = "starting"
  /\ watcher' = "select" /\ watched' = TRUE
  /\ UNCHANGED <<file, writing, edits, event, heard, mgr, data, cfg, server>>

\* NewWatcher or Add fails: there is no reloading.
AddWatchFails ==
  /\ watcher = "starting"
  /\ watcher' = "done"
  /\ UNCHANGED <<disk, mgr, data, cfg, server>>

\* A Write event: Reload reads the file ...
ReadFile ==
  /\ watcher = "select" /\ event
  /\ event' = FALSE
  /\ watcher' = "reload" /\ data' = file
  /\ UNCHANGED <<file, writing, edits, watched, heard, mgr, cfg, server>>

\* Mutant of Reload: the events that have come in the meantime are skipped.
ReloadDebounced ==
  /\ watcher = "reload"
  /\ mgr' = IF Validate(data) THEN data ELSE mgr
  /\ watcher' = "select" /\ data' = None /\ event' = FALSE
  /\ UNCHANGED <<file, writing, edits, watched, heard, cfg, server>>

\* ... and stores what is valid.
Reload ==
  /\ watcher = "reload"
  /\ mgr' = IF Validate(data) THEN data ELSE mgr
  /\ watcher' = "select" /\ data' = None
  /\ UNCHANGED <<disk, cfg, server>>

\* ctx.Done()
StopWatching ==
  /\ watcher = "select" /\ ~ctx
  /\ watcher' = "done" /\ watched' = FALSE
  /\ UNCHANGED <<file, writing, edits, event, heard, mgr, data, cfg, server>>

----------------------------------------------------------------------------
(* Editors                                                                 *)

\* A write in place truncates the file, or has filled a part of it, ...
BeginWrite(c) ==
  /\ ~writing /\ edits < MaxEdits
  /\ writing' = TRUE /\ edits' = edits + 1
  /\ file' = c
  /\ event' = (event \/ watched) /\ heard' = watched
  /\ UNCHANGED <<watched, watch, cfg, server>>

\* ... and ends; each part is an event.
EndWrite(c) ==
  /\ writing
  /\ writing' = FALSE
  /\ file' = c
  /\ event' = (event \/ watched) /\ heard' = watched
  /\ UNCHANGED <<edits, watched, watch, cfg, server>>

\* A new file is renamed over the path: the watch goes with the old file.
Replace(c) ==
  /\ ~writing /\ edits < MaxEdits
  /\ edits' = edits + 1
  /\ file' = c
  /\ watched' = FALSE /\ heard' = FALSE
  /\ UNCHANGED <<writing, event, watch, cfg, server>>

----------------------------------------------------------------------------

Next ==
  /\ main # "exited"
  /\ \/ Load \/ Start \/ Listen \/ ListenFails \/ ServeReturns \/ Exit
     \/ \E r \in Requests : Accept(r) \/ Finish(r)
     \/ Notify \/ Signal \/ Shutdown \/ Drained \/ DrainTimeout
     \/ AddWatch \/ AddWatchFails \/ ReadFile \/ Reload \/ StopWatching
     \/ \E c \in Torn : BeginWrite(c)
     \/ \E c \in Contents : EndWrite(c) \/ Replace(c)

Spec == Init /\ [][Next]_vars

\* The goroutines of the process run; signals, requests and editors come as
\* they like, and a request may take for ever.
FairSpec ==
  /\ Spec
  /\ WF_vars(Load \/ Start \/ Listen \/ ServeReturns \/ Exit)
  /\ WF_vars(Notify \/ Shutdown \/ Drained)
  /\ WF_vars(AddWatch \/ ReadFile \/ Reload \/ StopWatching)

----------------------------------------------------------------------------
(* Correctness                                                             *)

\* Every variable has its type; a configuration in memory has been validated.
TypeOK ==
  /\ file \in Contents
  /\ {mgr, cfg} \subseteq {c \in Contents : Validate(c)} \cup {None}
  /\ data \in Contents \cup {None}
  /\ edits \in 0 .. MaxEdits
  /\ {writing, watched, event, heard, tls, ctx, late} \subseteq BOOLEAN
  /\ watcher \in {"off", "starting", "select", "reload", "done"}
  /\ main \in {"load", "start", "listen", "serving", "returned", "exited"}
  /\ listener \in {"none", "open", "closed"}
  /\ handler \in {"off", "starting", "waiting", "signalled", "draining", "drained"}
  /\ inflight \in SUBSET Requests

(***************************************************************************)
(* As long as requests are served or drained, the health checker runs: the *)
(* context is cancelled only after Shutdown has returned.  Exceptions are  *)
(* a drain that timed out and a Shutdown that fasthttp forgot.             *)
(***************************************************************************)
ServedIsChecked ==
  (listener = "open" \/ inflight # {}) /\ main # "exited"
    => ctx \/ late \/ Forgotten

(***************************************************************************)
(* A valid configuration that was written in place is the manager's in the *)
(* end, however reads and writes overlap, unless the file is changed again *)
(* or the process stops.                                                   *)
(***************************************************************************)
ReloadConverges ==
  (heard /\ ~writing /\ Validate(file) /\ main # "exited")
    ~> (mgr = file \/ ~heard \/ writing \/ ~ctx \/ main = "exited")

\* The process that has received a signal ends, even if requests never do,
\* unless fasthttp forgot the Shutdown.
StopsOnSignal ==
  handler = "signalled" ~> main = "exited" \/ Forgotten

(***************************************************************************)
(* When main returns after a signal, and the 30 seconds of Shutdown were   *)
(* enough, the requests in flight have completed.  README.md:378 promises  *)
(* it; main does not wait for the handler.                                 *)
(***************************************************************************)
InFlightComplete == main = "returned" /\ ~late => inflight = {}

============================================================================
