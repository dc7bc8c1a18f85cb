-------------------------- MODULE MCSessionRoutes --------------------------
(* Repetitions of a submission; a submission with a deletion and a           *)
(* compaction; a job that is run by hand beside a submission and a deletion.  *)
EXTENDS SessionRoutes, TLC

CONSTANTS a, b, c, k1, k2

Plan(ka, kb, kc, keys, prints) ==
  [kind |-> a :> ka @@ b :> kb @@ c :> kc, key |-> a :> keys[1] @@ b :> keys[2] @@ c :> keys[3],
   print |-> a :> prints[1] @@ b :> prints[2] @@ c :> prints[3],
   outputs |-> 0, others |-> 0, fault |-> FALSE, closes |-> FALSE, forgets |-> FALSE]
Same == <<k1, k1, k1>>
MCPlans ==
  {[Plan("submit", "submit", "submit", Same, <<1, 1, 2>>) EXCEPT !.closes = TRUE],
   [Plan("submit", "submit", "absent", Same, <<1, 1, 1>>) EXCEPT !.forgets = TRUE],
   Plan("submit", "submit", "submit", <<k1, k2, k1>>, <<1, 1, 1>>),
   [Plan("submit", "delete", "compact", Same, <<1, 1, 1>>) EXCEPT !.fault = TRUE],
   Plan("submit", "delete", "submit", <<k1, k1, k2>>, <<1, 1, 1>>),
   [Plan("submit", "run", "delete", Same, <<1, 1, 1>>) EXCEPT !.outputs = 2, !.others = 1]}
=============================================================================
