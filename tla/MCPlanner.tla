----------------------------- MODULE MCPlanner -----------------------------
(***************************************************************************)
(* Models of up to four layers, light and heavy, with and without output   *)
(* tensors, and headers the planner turns down; up to three GPUs.          *)
(***************************************************************************)
EXTENDS Planner

Header(n, hidden, heads, kv_heads, bytes, output) ==
  [layers |-> n, hidden |-> hidden, heads |-> heads, kv_heads |-> kv_heads,
   bytes |-> bytes, output |-> output]

MCModels ==
  UNION {{Header(n, 1, 1, 1, bytes, output) : bytes \in [1..n -> {1, 4}], output \in {0, 3}}
           : n \in 1..4}
  \cup {Header(0, 1, 1, 1, <<>>, 0), Header(2, 3, 2, 1, <<1, 1>>, 0),
        Header(2, 2, 2, 3, <<1, 1>>, 0), Header(2, 0, 1, 1, <<1, 1>>, 0),
        Header(2, 2, 0, 0, <<1, 1>>, 0), Header(2, 1, 1, 1, <<1>>, 0)}
MCGpus == {[free |-> 2, total |-> 9], [free |-> 6, total |-> 9], [free |-> 40, total |-> 11],
           [free |-> 20, total |-> 20]}
=============================================================================
