--------------------------- MODULE MCCoordinator ---------------------------
(* All short programs of register instructions, device accesses, hand      *)
(* overs of Word RAM, STOPs, timer writes, and holds and resets of the sub *)
(* processor, and a few longer ones with spans of register instructions.   *)
EXTENDS Coordinator

I(kind, cost) == [kind |-> kind, cost |-> cost]
R(cost) == I("reg", cost)
H == I("rte", 2)

MainOps == {R(2), I("look", 1), I("stop", 1), I("give", 1), I("word", 1), I("hold", 1), I("reset", 1)}
SubOps == {R(1), I("look", 1), I("stop", 1), I("give", 1), I("word", 1)}

Mains ==
  {<<I("go", 1), a, b, H>> : a, b \in MainOps}
  \cup {<<I("go", 1), R(1), R(2), R(1), I("look", 1), H>>, <<I("go", 1), I("give", 1), R(1), R(1), I("word", 1), H>>,
        <<I("go", 1), I("hold", 1), I("window", 1), H>>, <<I("go", 1), R(1), I("window", 1), H>>,
        <<R(1), R(1), I("go", 1), R(3), R(1), I("hold", 1), R(1), R(2), H>>}

Subs ==
  {<<a, I("timer", 1), b, H>> : a, b \in SubOps}
  \cup {<<R(1), R(1), R(2), I("look", 1), H>>, <<R(1), I("word", 1), R(2), R(1), I("give", 1), H>>}

MCPrograms == {[w \in CPUs |-> IF w = "M" THEN m ELSE s] : m \in Mains, s \in Subs}
=============================================================================
