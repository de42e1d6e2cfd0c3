----------------------------- MODULE MCProcess -----------------------------
(* Process with a handful of configurations.                               *)
EXTENDS Process

Usable ==
  [listen |-> ":8080", timeouts |-> {30}, backends |-> <<[url |-> "http", weight |-> 1]>>,
   interval |-> 2, timeout |-> 1, path |-> "/", rps |-> 0, burst |-> 0,
   strategy |-> "round_robin", tls |-> FALSE, cert |-> "", key |-> "", ca |-> "",
   min |-> "", max |-> "", sizes |-> {0}, fasthttp |-> FALSE]

\* What yaml makes of an empty file.
Empty ==
  [Usable EXCEPT !.listen = "", !.timeouts = {0}, !.backends = <<>>,
                 !.interval = 0, !.timeout = 0, !.path = "", !.strategy = ""]

Secure == [Usable EXCEPT !.tls = TRUE, !.cert = "pem", !.key = "pem", !.min = "TLS1.2"]

MCContents ==
  {Usable, Empty, Secure, [Secure EXCEPT !.cert = ""],
   [Usable EXCEPT !.fasthttp = TRUE, !.timeout = 2], [Usable EXCEPT !.timeout = 3]}

\* A part of the file may be valid by itself.
MCTorn == {Empty, Usable}
============================================================================
