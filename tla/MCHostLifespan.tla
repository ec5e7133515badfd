--------------------------- MODULE MCHostLifespan ---------------------------
(* The defaults, and environments that differ from them in one place. *)
EXTENDS HostLifespan

Defaults ==
  [intent |-> 5, reasoning |-> 6, margin |-> 10, session |-> 30, queue |-> 8,
   backend |-> "development", tokens |-> TRUE]

MCEnvironment ==
  {Defaults,
   [Defaults EXCEPT !.reasoning = 15],
   [Defaults EXCEPT !.reasoning = 14],
   [Defaults EXCEPT !.intent = NaN],
   [Defaults EXCEPT !.session = NaN],
   [Defaults EXCEPT !.margin = Malformed],
   [Defaults EXCEPT !.queue = 0],
   [Defaults EXCEPT !.backend = "svc"],
   [Defaults EXCEPT !.tokens = FALSE]}
=============================================================================
