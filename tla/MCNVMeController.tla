-------------------------- MODULE MCNVMeController --------------------------
(* An instance of NVMeController: the scenarios are alternatives, so their *)
(* state spaces add.                                                       *)
EXTENDS NVMeController

Config(r) == [op |-> "config", request |-> r]
CreateQueue(q, c, p) == [op |-> "createSQ", q |-> q, cq |-> c, priority |-> p]
Under(a, p, n, todo) ==
  [arbitration |-> a, priority |-> p, limit |-> n, plan |-> todo]

MCScenarios ==
  {Under("WRR", LOW, 3, {CreateQueue(2, 1, URGENT)}),
   Under("RR", MEDIUM, 3, {[op |-> "deleteSQ", q |-> 1],
                           [op |-> "deleteCQ", q |-> 1]}),
   Under("RR", MEDIUM, 2, {[op |-> "createCQ", q |-> 2, iv |-> 1],
                           CreateQueue(2, 2, MEDIUM)}),
   Under("RR", MEDIUM, 2, {Config("disable"), Config("enable")}),
   Under("RR", MEDIUM, 2, {Config("shutdown")}),
   Under("RR", MEDIUM, 2, {[op |-> "abort", q |-> 1, c |-> 1]}),
   Under("RR", MEDIUM, 3, {[op |-> "coalesce", iv |-> 0, enable |-> TRUE]}),
   Under("RR", MEDIUM, 2, {[op |-> "createCQ", q |-> 2, iv |-> 1],
                           [op |-> "coalesce", iv |-> 1, enable |-> TRUE]})}

(* What the proofs assume holds here.                                      *)
ASSUME UsedOnce == NumbersUsedOnce
=============================================================================
