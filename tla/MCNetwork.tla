------------------------------- MODULE MCNetwork -------------------------------
(* Four nodes, each with four ways to register: as a stage of one of two groups, *)
(* there of a chain of two or of three (the late stage), of another model, or alone. *)
(* The tiers keep the form of the manifest.                                         *)
EXTENDS Network

Shape(g, m, s, t) ==
  [id |-> 0, group |-> g, stage |-> s, total |-> t, model |-> m, activation |-> FALSE,
   ggufIndex |-> 0, ggufTotal |-> 1, rpc |-> TRUE, cu |-> 1]

Start(g) == Shape(g, 1, 0, 2)
Second(g) == Shape(g, 1, 1, 2)
Third == Shape(2, 1, 2, 3)
OtherModel == Shape(1, 2, 1, 2)
Alone == Shape(0, 1, 0, 1)

Form(i, forms) == {[f EXCEPT !.id = i] : f \in forms}

MCShapes ==
  {<<a, b, c, d>> : a \in Form(1, {Start(1), Start(2), Third, Alone}),
                    b \in Form(2, {Second(1), Start(2), Second(2), OtherModel}),
                    c \in Form(3, {Start(1), Start(2), Second(2), Third}),
                    d \in Form(4, {Second(1), Start(2), Second(2), Alone})}

MCTiers ==
  <<[cu |-> 1, chains |-> 0, ram |-> 0, planned |-> FALSE, models |-> 1],
    [cu |-> 2, chains |-> 1, ram |-> 0, planned |-> FALSE, models |-> 1],
    [cu |-> 3, chains |-> 0, ram |-> 0, planned |-> TRUE, models |-> 0],
    [cu |-> 3, chains |-> 2, ram |-> 0, planned |-> TRUE, models |-> 1],
    [cu |-> 0, chains |-> 1, ram |-> 1, planned |-> TRUE, models |-> 1]>>
=============================================================================
