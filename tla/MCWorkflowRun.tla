----------------------------- MODULE MCWorkflowRun -----------------------------
(* Small workflow graphs over the nodes 1..5; every shape comes with every *)
(* choice of the options listed for it.                                    *)
EXTENDS WorkflowRun

E(s, t, k) == [source |-> s, target |-> t, kind |-> k]

Plain(types, edges) ==
    LET ns == DOMAIN types IN
    [nodes |-> ns, type |-> types, edges |-> edges,
     maxAttempts |-> [n \in ns |-> 1],
     onError |-> [n \in ns |-> "fail"],
     gotoNode |-> [n \in ns |-> n],
     items |-> [n \in ns |-> IF types[n] = "loop" THEN 2 ELSE 0],
     timed |-> {}]

OnError(g, n, policy) == [g EXCEPT !.onError[n] = policy]
GoTo(g, n, m) == [g EXCEPT !.onError[n] = "goto", !.gotoNode[n] = m]
Attempts(g, n, k) == [g EXCEPT !.maxAttempts[n] = k]

(* A fan-out or a condition whose branches meet in a join, with one more   *)
(* node behind; node 2 may be skipped, retried or leave by a goto.         *)
Diamond(first, kind2, kind3) ==
    Plain(<<first, "action", "action", "join", "action">>,
          {E(1, 2, kind2), E(1, 3, kind3), E(2, 4, "default"),
           E(3, 4, "default"), E(4, 5, "default")})

Diamonds ==
    {Diamond("parallel", "branch", "branch"),
     Diamond("condition", "true", "false"),
     Diamond("condition", "default", "expression")}

Branching ==
    {OnError(Diamond("condition", "default", "expression"), 1, "skip")} \union
    UNION {{g, Attempts(OnError(g, 2, "skip"), 3, 2), GoTo(g, 2, 5)} :
              g \in Diamonds}

(* A loop over two items with a body of two nodes and a continuation.      *)
LoopGraph(kind) ==
    Plain(<<"loop", "action", "action", "join", "action">>,
          {E(1, 2, kind), E(1, 3, kind), E(1, 4, "default"),
           E(2, 5, "failure"), E(4, 5, "default")})

Loops == {LoopGraph("each"),
          OnError(LoopGraph("each"), 1, "skip"),
          OnError(LoopGraph("branch"), 3, "skip"),
          [LoopGraph("each") EXCEPT !.items[1] = 3]}

RetriedLoops == {Attempts(LoopGraph("each"), 1, 2),
                 [Attempts(LoopGraph("each"), 1, 2) EXCEPT !.timed = {1}]}

(* A loop inside a loop, a body that leads back to its loop, a cycle, a    *)
(* join in a body, a goto into a body, and a goto to no node.              *)
Nested(tries) ==
    Attempts(Plain(<<"loop", "loop", "action", "action">>,
                   {E(1, 2, "each"), E(2, 3, "each"), E(2, 4, "default")}),
             2, tries)

Tangled ==
    {Plain(<<"action", "loop", "action">>,
           {E(1, 2, "default"), E(2, 3, "each"), E(3, 2, "default")}),
     Plain(<<"action", "condition", "action">>,
           {E(1, 2, "default"), E(2, 3, "true"), E(3, 2, "default")}),
     Plain(<<"loop", "parallel", "action", "action", "join">>,
           {E(1, 2, "each"), E(2, 3, "branch"), E(2, 4, "branch"),
            E(3, 5, "default"), E(4, 5, "default")}),
     GoTo(Plain(<<"parallel", "action", "loop", "action">>,
                {E(1, 2, "branch"), E(1, 3, "branch"), E(3, 4, "default")}), 2, 4),
     GoTo(Plain(<<"action", "loop", "action">>,
                {E(1, 2, "default"), E(2, 3, "each")}), 3, 2),
     GoTo(Plain(<<"action", "loop", "action">>,
            {E(1, 2, "default"), E(2, 3, "each")}), 3, Root)}

(* A retried loop around a loop and around a fan-in: the second attempt     *)
(* meets the states that the first one left in the body.                   *)
Absorbing ==
    {[Attempts(Plain(<<"loop", "loop", "action", "action">>,
                     {E(1, 2, "each"), E(2, 3, "each"), E(2, 4, "each")}), 1, 2)
        EXCEPT !.items[2] = 1],
     [Attempts(Plain(<<"loop", "action", "action", "join">>,
                     {E(1, 2, "each"), E(1, 3, "each"), E(2, 4, "default"),
                      E(3, 4, "default")}), 1, 2)
        EXCEPT !.items[1] = 1]}

(* Every graph over three nodes that starts with an action, whatever the    *)
(* types of the others and the edges between them.                         *)
Small ==
    {Attempts(Plain(<<"action", t2, t3>>, {E(1, 2, "default")} \union es), 2, 2) :
        t2 \in NodeTypes, t3 \in NodeTypes,
        es \in SUBSET {E(1, 3, "default"), E(2, 3, "default"),
                       E(3, 2, "default"), E(3, 3, "default")}}

AllGraphs == Branching \union Loops \union RetriedLoops \union Tangled
                 \union {Nested(1), Nested(2)} \union Absorbing \union Small

=============================================================================
