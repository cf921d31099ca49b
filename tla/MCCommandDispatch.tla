------------------------- MODULE MCCommandDispatch -------------------------
(* CommandDispatch for TLC: two nodes, one device. *)
EXTENDS CommandDispatch, TLC

CONSTANTS n1, n2, d1, c1, c2

OneTarget == (c1 :> d1) @@ (c2 :> d1)
SingleCommand == c1 :> d1

Calm == [workers |-> {}, faults |-> {}]
Stormy == [workers |-> {}, faults |-> ({n1} \X FaultKind) \cup {<<n2, "crash">>}]
Threaded == [workers |-> {n1}, faults |-> {<<n1, "crash">>}]

OnlyCalm == {Calm}
AllWeather == {Calm, Stormy, Threaded}
=============================================================================
