---------------------------- MODULE MCApiServer ----------------------------
(* A tab with a history and a queue of two events; or two uploads where the  *)
(* chunks, or the entries, need the room of others; or an upload while a file *)
(* of the runtime is registered and a file is read.                          *)
EXTENDS ApiServer, TLC

CONSTANTS v, w, u1, u2, p1, l1

Idle == [stored |-> <<v>>, uploads |-> {}, paths |-> {}, leases |-> {}, faults |-> 0, stops |-> TRUE]
MCTraffic ==
  {Idle,
   [Idle EXCEPT !.stored = <<v, w>>, !.uploads = {u1, u2}, !.faults = 1],
   [Idle EXCEPT !.uploads = {u1, u2}, !.faults = 1, !.stops = FALSE],
   [Idle EXCEPT !.stored = <<v, w>>, !.uploads = {u1}, !.paths = {p1}, !.leases = {l1}]}
=============================================================================
