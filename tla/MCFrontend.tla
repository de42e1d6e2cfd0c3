----------------------------- MODULE MCFrontend -----------------------------
(* Frontend with both engines, with and without limits.                    *)
EXTENDS Frontend

CONSTANTS a, b

MCConfigs ==
  {[fasthttp |-> FALSE, limited |-> TRUE, black |-> {b}, white |-> {}, max |-> 2],
   [fasthttp |-> FALSE, limited |-> FALSE, black |-> {}, white |-> {a}, max |-> 0],
   [fasthttp |-> TRUE, limited |-> TRUE, black |-> {}, white |-> {}, max |-> 2]}
=============================================================================
