----------------------------- MODULE MCPipeline -----------------------------
(* Instances of Pipeline: a two-layer model on one follower for the        *)
(* passing run, and the placements of two runs that share a follower.      *)
EXTENDS Pipeline, TLC

CONSTANTS f1, r1, r2

place(first, last, host) == [first |-> first, last |-> last, host |-> host]

(* Every sequence of at most two placements of a two-layer model. *)
Placements == [first : 0..1, last : 0..2, host : {Here, f1}]
EveryPlan == UNION {[1..n -> Placements] : n \in 0..2}

Behind == <<place(0, 1, Here), place(1, 2, f1)>>

(* One run with an arbitrary plan, one with a plan that shares a follower. *)
AnyPlans == (r1 :> EveryPlan) @@ (r2 :> {Behind})
SharedPlans == (r1 :> {Behind}) @@ (r2 :> {Behind})
=============================================================================
