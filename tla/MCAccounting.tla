---------------------------- MODULE MCAccounting ----------------------------
(* Accounting on a call, a put, an expired call, and a put between the two *)
(* times of expiry.                                                        *)
EXTENDS Accounting

MCKeys == {"call", "put", "old", "noon"}
MCDeltaOf ==
  [call |-> [f \in {1, 3} |-> IF f = 1 THEN 1 ELSE 2],
   put  |-> [f \in {1, 3} |-> IF f = 3 THEN 0 ELSE -1],
   old  |-> [f \in {1, 3} |-> 0],
   noon |-> [f \in {1, 3} |-> -1]]
MCThetaOf == [call |-> -2, put |-> -1, old |-> 0, noon |-> -1]
MCRiskArray == [call |-> <<-3, 2>>, put |-> <<1, -5>>, old |-> <<0, 0>>, noon |-> <<2, -2>>]
MCBasePrice == [call |-> 2, put |-> 1, old |-> 1, noon |-> 1]
MCEffects == {-2, 1}
MCThetaFloor == -3
MCThetaKill == -5
(* No position; two accounts that hold the same call; a put and an expired *)
(* call.                                                                   *)
MCSeeds ==
  {<<>>,
   <<Position("call", 1, 3), Position("call", 1, 1)>>,
   <<Position("old", -1, 1), Position("put", -2, 1)>>}
=============================================================================
