------------------------------ MODULE Planner ------------------------------
(***************************************************************************)
(* build of latticed/src/chat/plan.rs: how the layers of a model are split *)
(* among the GPUs of the workers and the master, in order, so that every   *)
(* GPU gets at least one layer and none gets more than fits.  One step per *)
(* iteration of the loops: prefix sums, the table of feasible suffixes     *)
(* filled from the last GPU to the first with a sliding window, and the    *)
(* choice of the cuts.                                                     *)
(*                                                                         *)
(* The code computes in u128, where nothing here can overflow, except for  *)
(* the distance of a cut from its ideal place, in f64: it is exact here,   *)
(* and cuts that are equally far are taken either way.                     *)
(***************************************************************************)
EXTENDS Integers, Sequences, FiniteSets

CONSTANTS Models,    \* what may be read from the header of a model
          Contexts,  \* the --context options
          Gpus,      \* what a GPU may report
          MaxGpus,   \* bound on how many are selected
          Reserves   \* the --reserve-mib options, in bytes

ASSUME PlannerAssumption ==
  /\ Models \subseteq [layers : Nat, hidden : Nat, heads : Nat, kv_heads : Nat,
                       bytes : Seq(Nat), output : Nat]
  /\ Contexts \subseteq Nat /\ Reserves \subseteq Nat
  /\ Gpus \subseteq [free : Nat, total : Nat]
  /\ MaxGpus \in Nat

VARIABLES
  model, context, gpus, reserve,  \* the arguments
  phase,      \* "check", "prefix", "table", "assign", or how it ended
  budgets,    \* budgets[d]: the bytes GPU d may use, d from 0
  prefix,     \* prefix[n]: the bytes of the first n layers
  feasible,   \* feasible[d]: the n such that the layers from n on fit the GPUs from d on
  device, start, end,  \* the loops' variables
  assigned    \* assigned[d]: the layers of GPU d

arguments == <<model, context, gpus, reserve>>
vars == <<arguments, phase, budgets, prefix, feasible, device, start, end, assigned>>

layers == model.layers
count == Len(gpus)
Devices == 0..(count - 1)
Final == {"invalid", "refused", "done"}

Least(a, b) == IF a <= b THEN a ELSE b
Greatest(a, b) == IF a <= b THEN b ELSE a

(* Mutant: an ordinary subtraction. *)
plain_sub(a, b) == a - b

saturating_sub(a, b) == IF a <= b THEN 0 ELSE a - b

Init ==
  /\ model \in Models /\ context \in Contexts /\ reserve \in Reserves
  /\ \E n \in 0..MaxGpus : gpus \in [1..n -> Gpus]
  /\ phase = "check"
  /\ budgets = <<>> /\ prefix = <<>> /\ feasible = <<>> /\ assigned = <<>>
  /\ device = 0 /\ start = 0 /\ end = 0
-----------------------------------------------------------------------------
Supported ==
  /\ layers \in 1..4096 /\ model.hidden > 0
  /\ model.heads > 0 /\ model.hidden % model.heads = 0
  /\ model.kv_heads \in 1..model.heads
  /\ Len(model.bytes) = layers

Selectable == count \in 1..63 /\ count <= layers

Invalid ==
  /\ phase = "check" /\ ~ (Supported /\ Selectable)
  /\ phase' = "invalid"
  /\ UNCHANGED <<arguments, budgets, prefix, feasible, device, start, end, assigned>>

(* What a GPU may use: its free memory but for the reserve or a tenth. *)
Budget(gpu) ==
  LET free == Least(gpu.free, gpu.total)
  IN  saturating_sub(free, Greatest(reserve, free \div 10))

Begin ==
  /\ phase = "check" /\ Supported /\ Selectable
  /\ phase' = "prefix"
  /\ budgets' = [d \in Devices |-> Budget(gpus[d + 1])]
  /\ prefix' = [n \in 0..layers |-> 0]
  /\ start' = 0
  /\ UNCHANGED <<arguments, feasible, device, end, assigned>>

(* The f16 keys and values of one layer. *)
kv == 4 * model.kv_heads * (model.hidden \div model.heads) * context

AddLayer ==
  /\ phase = "prefix" /\ start < layers
  /\ prefix' = [prefix EXCEPT ![start + 1] = prefix[start] + model.bytes[start + 1] + kv]
  /\ start' = start + 1
  /\ UNCHANGED <<arguments, phase, budgets, feasible, device, end, assigned>>

BeginTable ==
  /\ phase = "prefix" /\ start = layers
  /\ phase' = "table"
  /\ feasible' = [d \in 0..count |-> IF d = count THEN {layers} ELSE {}]
  /\ device' = count - 1 /\ start' = 0 /\ end' = 0
  /\ UNCHANGED <<arguments, budgets, prefix, assigned>>

(* Mutant: the output tensors are forgotten. *)
ExtraNone(d) == 0

(* The output tensors go to the last GPU. *)
extra(d) == IF d = count - 1 THEN model.output ELSE 0

NextRow ==
  /\ device' = IF device = 0 THEN 0 ELSE device - 1
  /\ start' = 0 /\ end' = 0
  /\ phase' = IF device # 0 THEN "table" ELSE IF 0 \in feasible'[0] THEN "assign" ELSE "refused"
  /\ assigned' = IF device = 0 THEN [d \in Devices |-> 0] ELSE assigned

(* budgets[device].checked_sub(extra) fails: nothing from here on fits. *)
SkipRow ==
  /\ phase = "table" /\ budgets[device] < extra(device)
  /\ UNCHANGED feasible
  /\ NextRow
  /\ UNCHANGED <<arguments, budgets, prefix>>

(* Mutant: the window stops at a layer that just fits. *)
WindowStrict(e) ==
  /\ e \in Greatest(end, start)..layers
  /\ \A k \in Greatest(end, start)..(e - 1) :
       prefix[k + 1] - prefix[start] < budgets[device] - extra(device)
  /\ e < layers => prefix[e + 1] - prefix[start] >= budgets[device] - extra(device)

(* Where the window stops when it is moved on for this start. *)
Window(e) ==
  /\ e \in Greatest(end, start)..layers
  /\ \A k \in Greatest(end, start)..(e - 1) :
       prefix[k + 1] - prefix[start] <= budgets[device] - extra(device)
  /\ e < layers => prefix[e + 1] - prefix[start] > budgets[device] - extra(device)

(* How many of the places before n the GPUs after d can start at. *)
reachable(d, n) == Cardinality(feasible[d + 1] \cap 0..(n - 1))

(* Mutant: a GPU may be left without a layer. *)
CellEmpty ==
  /\ phase = "table" /\ budgets[device] >= extra(device)
  /\ \E e \in 0..layers :
       /\ Window(e)
       /\ feasible' = [feasible EXCEPT ![device] =
            @ \cup {s \in {start} : reachable(device, e + 1) > reachable(device, s)}]
       /\ \/ start + 1 < layers /\ start' = start + 1 /\ end' = e
             /\ UNCHANGED <<phase, device, assigned>>
          \/ start + 1 = layers /\ NextRow
  /\ UNCHANGED <<arguments, budgets, prefix>>

Cell ==
  /\ phase = "table" /\ budgets[device] >= extra(device)
  /\ \E e \in 0..layers :
       /\ Window(e)
       /\ feasible' = [feasible EXCEPT ![device] =
            @ \cup {s \in {start} : reachable(device, e + 1) > reachable(device, s + 1)}]
       /\ \/ start + 1 < layers /\ start' = start + 1 /\ end' = e
             /\ UNCHANGED <<phase, device, assigned>>
          \/ start + 1 = layers /\ NextRow
  /\ UNCHANGED <<arguments, budgets, prefix>>
-----------------------------------------------------------------------------
(* The cuts the iterator yields: the ones that fit, up to the first that   *)
(* does not, and after which the rest fits.                                *)
Cuts ==
  {e \in (start + 1)..layers :
     /\ \A k \in (start + 1)..e : prefix[k] - prefix[start] + extra(device) <= budgets[device]
     /\ e \in feasible[device + 1]}

cumulative_budget(n) ==
  LET sum[i \in 0..n] == IF i = 0 THEN 0 ELSE sum[i - 1] + budgets[i - 1] IN sum[n]

(* The distance of a cut from this GPU's share, times the total budget. *)
distance(e) ==
  LET d == (prefix[e] + extra(device)) * cumulative_budget(count)
             - (prefix[layers] + model.output) * cumulative_budget(device + 1)
  IN  IF d < 0 THEN -d ELSE d

Assign ==
  /\ phase = "assign"
  /\ \E e \in Cuts :
       /\ \A f \in Cuts : distance(e) <= distance(f)
       /\ assigned' = [assigned EXCEPT ![device] =
                         e - start + (IF device = count - 1 THEN 1 ELSE 0)]
       /\ start' = e
  /\ device' = device + 1
  /\ phase' = IF device + 1 = count THEN "done" ELSE "assign"
  /\ UNCHANGED <<arguments, budgets, prefix, feasible, end>>

Next == Invalid \/ Begin \/ AddLayer \/ BeginTable \/ SkipRow \/ Cell \/ Assign

Spec == Init /\ [][Next]_vars
-----------------------------------------------------------------------------
(* Every variable keeps its shape once it has a value, and no budget       *)
(* underflows.                                                             *)
TypeOK ==
  /\ model \in Models /\ context \in Contexts /\ reserve \in Reserves
  /\ gpus \in Seq(Gpus) /\ count <= MaxGpus
  /\ phase \in {"check", "prefix", "table", "assign"} \cup Final
  /\ device \in 0..count /\ start \in 0..layers /\ end \in 0..layers
  /\ phase \in {"prefix", "table", "assign", "refused", "done"} =>
       /\ budgets \in [Devices -> Nat]
       /\ prefix \in [0..layers -> Nat]
  /\ phase \in {"table", "assign", "refused", "done"} =>
       feasible \in [0..count -> SUBSET (0..layers)]
  /\ phase \in {"assign", "done"} => assigned \in [Devices -> Nat]

(* What the plan promises: cuts of the layers into one non-empty range per *)
(* GPU, in order, each with what it costs within its GPU's budget, the     *)
(* output tensors counted for the last one.                                *)
Allocation(cut) ==
  /\ cut[0] = 0 /\ cut[count] = layers
  /\ \A d \in Devices :
       /\ cut[d] < cut[d + 1]
       /\ prefix[cut[d + 1]] - prefix[cut[d]] + (IF d + 1 = count THEN model.output ELSE 0)
            <= budgets[d]
Allocations == {cut \in [0..count -> 0..layers] : Allocation(cut)}

(* expect("a feasible partition has a next cut"): the greedy choice of the *)
(* nearest cut never paints itself into a corner the table did not see.    *)
NextCutExists == phase = "assign" => Cuts # {}

(* A plan is an allocation: every layer is on one GPU, every GPU has one,  *)
(* everything fits, and the output counts as a layer of the last GPU.      *)
PlanFits ==
  phase = "done" =>
    \E cut \in Allocations : \A d \in Devices :
      assigned[d] = cut[d + 1] - cut[d] + (IF d + 1 = count THEN 1 ELSE 0)

(* "no contiguous layer allocation fits the selected GPUs" is only said    *)
(* when there is none: the sliding window and the counts miss nothing.     *)
RefusedMeansImpossible == phase = "refused" => Allocations = {}
=============================================================================
