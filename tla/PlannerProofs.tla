--------------------------- MODULE PlannerProofs ---------------------------
(***************************************************************************)
(* Theorems about Planner, for every model and every list of GPUs.  The    *)
(* argument is the one the code relies on: prefix sums grow, so the window *)
(* stops exactly after the last cut that fits; a filled entry of the table *)
(* says whether a cut leads to a feasible entry of the next row; every     *)
(* allocation passes through feasible entries only, and the choice follows *)
(* feasible entries from the first GPU to the last.                        *)
(***************************************************************************)
EXTENDS Planner, FiniteSetTheorems, TLAPS

Tabled == phase \in {"table", "assign", "refused", "done"}

ValidArguments == phase \notin {"check", "invalid"} => Supported /\ Selectable

(* The bytes of a range of layers grow with it. *)
Growing(n) == \A i, j \in 0..n : i <= j => prefix[i] <= prefix[j]
PrefixSound ==
  /\ phase = "prefix" => Growing(start)
  /\ Tabled => Growing(layers)

Fits(d, x, e) == prefix[e] - prefix[x] + extra(d) <= budgets[d]
Filled(d, x) == phase # "table" \/ d > device \/ (d = device /\ x < start)
Entry(d, x) == x \in feasible[d] <=> \E e \in (x + 1)..layers : Fits(d, x, e) /\ e \in feasible[d + 1]

TableSound ==
  /\ \A e \in 0..layers : e \in feasible[count] <=> e = layers
  /\ \A d \in Devices : layers \notin feasible[d]
  /\ \A d \in Devices : \A x \in 0..(layers - 1) :
       (Filled(d, x) => Entry(d, x)) /\ (~ Filled(d, x) => x \notin feasible[d])

(* No allocation is missed by the rows that are filled. *)
NoneMissed ==
  \A cut \in Allocations : \A d \in 0..count :
    (phase = "table" => d > device) => cut[d] \in feasible[d]

LoopSound ==
  phase = "table" =>
    /\ device \in Devices /\ start < layers
    /\ end > start => Fits(device, start, end)

(* The cuts made so far. *)
CutsMade(cut, n) ==
  /\ cut[0] = 0
  /\ \A d \in 0..(n - 1) : cut[d] < cut[d + 1] /\ Fits(d, cut[d], cut[d + 1])
                            /\ assigned[d] = cut[d + 1] - cut[d] + (IF d + 1 = count THEN 1 ELSE 0)
ChoiceSound ==
  /\ phase = "assign" =>
       /\ device \in Devices /\ start < layers /\ start \in feasible[device]
       /\ \E cut \in [0..count -> 0..layers] : cut[device] = start /\ CutsMade(cut, device)
  /\ PlanFits
  /\ phase = "refused" => 0 \notin feasible[0]

IInv ==
  /\ TypeOK /\ ValidArguments /\ PrefixSound
  /\ Tabled => TableSound /\ NoneMissed
  /\ LoopSound /\ ChoiceSound
-----------------------------------------------------------------------------
(* What is known of the arguments once they have been accepted. *)
LEMMA Arguments ==
  ASSUME TypeOK
  PROVE  /\ layers \in Nat /\ count \in Nat /\ model.output \in Nat
         /\ Supported /\ Selectable =>
              /\ count \in 1..layers /\ kv \in Nat
              /\ \A n \in 1..layers : model.bytes[n] \in Nat
<1>1. /\ model.layers \in Nat /\ model.output \in Nat /\ model.hidden \in Nat
      /\ model.heads \in Nat /\ model.kv_heads \in Nat /\ model.bytes \in Seq(Nat)
      /\ context \in Nat
  BY PlannerAssumption DEF TypeOK
<1>2. count \in Nat
  BY DEF TypeOK, count
<1>3. ASSUME Supported, Selectable PROVE kv \in Nat
  <2>0. \A a \in Nat, b \in Nat \ {0} : a \div b \in Nat
    OBVIOUS
  <2>1. model.hidden \div model.heads \in Nat
    BY <1>1, <1>3, <2>0 DEF Supported
  <2> DEFINE q == model.hidden \div model.heads
  <2> HIDE DEF q
  <2>2. \A a, b \in Nat : a * b \in Nat
    OBVIOUS
  <2>3. 4 * model.kv_heads \in Nat
    BY <1>1
  <2>4. (4 * model.kv_heads) * q \in Nat
    BY <2>1, <2>2, <2>3 DEF q
  <2>5. ((4 * model.kv_heads) * q) * context \in Nat
    BY <2>2, <2>4, <1>1
  <2> QED  BY <2>5 DEF kv, q
<1> QED  BY <1>1, <1>2, <1>3 DEF layers, Supported, Selectable

(* No step changes the arguments, nor what is computed from them alone. *)
LEMMA ArgumentsKept ==
  ASSUME UNCHANGED arguments
  PROVE  /\ layers' = layers /\ count' = count /\ Devices' = Devices
         /\ Supported' <=> Supported
         /\ Selectable' <=> Selectable
  BY DEF arguments, Supported, Selectable, layers, count, Devices

LEMMA InitIInv == Init => IInv
<1> SUFFICES ASSUME Init PROVE IInv
  OBVIOUS
<1>1. PICK n \in 0..MaxGpus : gpus \in [1..n -> Gpus]
  BY DEF Init
<1>2. gpus \in Seq(Gpus) /\ Len(gpus) = n
  BY <1>1
<1>3. model.layers \in Nat
  BY PlannerAssumption DEF Init
<1>4. TypeOK
  BY <1>2, <1>3, PlannerAssumption DEF Init, TypeOK, Final, layers, count
<1> QED
  BY <1>4 DEF Init, IInv, ValidArguments, PrefixSound, Tabled, LoopSound, ChoiceSound, PlanFits
-----------------------------------------------------------------------------
LEMMA InvalidIInv ==
  ASSUME IInv, Invalid
  PROVE  IInv'
<1>1. TypeOK'
  BY DEF IInv, TypeOK, Invalid, arguments, layers, count, Devices, Final
<1> QED
  BY <1>1 DEF IInv, Invalid, ValidArguments, PrefixSound, Tabled, LoopSound, ChoiceSound, PlanFits

LEMMA BeginIInv ==
  ASSUME IInv, Begin
  PROVE  IInv'
<1>0. /\ layers \in Nat /\ count \in 1..layers /\ layers' = layers /\ count' = count
      /\ gpus \in Seq(Gpus)
  BY Arguments DEF IInv, TypeOK, Begin, layers, count, arguments
<1>1. ASSUME NEW d \in Devices PROVE Budget(gpus[d + 1]) \in Nat
  <2>1. gpus[d + 1] \in Gpus
    BY <1>0, <1>1 DEF Devices, count
  <2>2. gpus[d + 1].free \in Nat /\ gpus[d + 1].total \in Nat /\ reserve \in Nat
    BY <2>1, PlannerAssumption DEF IInv, TypeOK
  <2> QED  BY <2>2 DEF Budget, Least, Greatest, saturating_sub
<1>2. budgets' \in [Devices' -> Nat] /\ prefix' \in [0..layers' -> Nat]
  BY <1>0, <1>1 DEF Begin, Devices
<1>3. TypeOK'
  BY <1>0, <1>2 DEF IInv, TypeOK, Begin, arguments, Final
<1>4. PrefixSound'
  BY <1>0 DEF Begin, PrefixSound, Tabled, Growing
<1>5. ValidArguments'
  BY ArgumentsKept DEF Begin, ValidArguments
<1> QED
  BY <1>3, <1>4, <1>5 DEF IInv, Begin, Tabled, LoopSound, ChoiceSound, PlanFits

LEMMA AddLayerIInv ==
  ASSUME IInv, AddLayer
  PROVE  IInv'
<1>0. /\ layers \in Nat /\ count \in 1..layers /\ layers' = layers /\ count' = count
      /\ Devices' = Devices
      /\ kv \in Nat /\ start \in 0..layers /\ start < layers /\ start' = start + 1
      /\ model.bytes[start + 1] \in Nat /\ prefix \in [0..layers -> Nat] /\ Growing(start)
  BY Arguments DEF IInv, TypeOK, AddLayer, ValidArguments, PrefixSound, layers, count, Devices, arguments
<1>1. /\ prefix' \in [0..layers -> Nat] /\ prefix'[start + 1] >= prefix[start]
      /\ \A i \in 0..start : prefix'[i] = prefix[i]
  BY <1>0 DEF AddLayer
<1>2. TypeOK'
  BY <1>0, <1>1 DEF IInv, TypeOK, AddLayer, arguments, Final
<1>3. Growing(start)'
  <2> SUFFICES ASSUME NEW i \in 0..(start + 1), NEW j \in 0..(start + 1), i <= j
               PROVE  prefix'[i] <= prefix'[j]
    BY <1>0 DEF Growing
  <2>1. CASE j \in 0..start
    BY <2>1, <1>0, <1>1 DEF Growing
  <2>2. CASE j = start + 1 /\ i \in 0..start
    <3>1. prefix[i] <= prefix[start]
      BY <2>2, <1>0 DEF Growing
    <3> QED  BY <2>2, <3>1, <1>0, <1>1
  <2>3. CASE i = start + 1 /\ j = start + 1
    BY <2>3, <1>0, <1>1
  <2> QED  BY <2>1, <2>2, <2>3, <1>0
<1>4. PrefixSound'
  BY <1>3 DEF AddLayer, PrefixSound, Tabled
<1>5. ValidArguments'
  BY ArgumentsKept DEF IInv, AddLayer, ValidArguments
<1> QED
  BY <1>2, <1>4, <1>5 DEF IInv, AddLayer, Tabled, LoopSound, ChoiceSound, PlanFits

LEMMA BeginTableIInv ==
  ASSUME IInv, BeginTable
  PROVE  IInv'
<1>0. /\ layers \in Nat /\ count \in 1..layers /\ layers' = layers /\ count' = count
      /\ Devices' = Devices /\ phase' = "table" /\ prefix' = prefix /\ budgets' = budgets
      /\ device' = count - 1 /\ start' = 0 /\ end' = 0 /\ start = layers
      /\ feasible' = [d \in 0..count |-> IF d = count THEN {layers} ELSE {}]
  BY Arguments DEF IInv, TypeOK, BeginTable, ValidArguments, layers, count, Devices, arguments
<1>1. feasible' \in [0..count -> SUBSET (0..layers)]
  BY <1>0
<1>2. \A d \in 0..count : \A n \in 0..layers : n \in feasible'[d] <=> d = count /\ n = layers
  BY <1>0
<1>3. TypeOK'
  BY <1>0, <1>1 DEF IInv, TypeOK, BeginTable, arguments, Final
<1>4. PrefixSound'
  BY <1>0 DEF IInv, BeginTable, PrefixSound, Tabled, Growing
<1>5. ValidArguments'
  BY ArgumentsKept DEF IInv, BeginTable, ValidArguments
<1>6. TableSound'
  <2>1. \A d \in Devices : d \in 0..count /\ d # count
    BY <1>0 DEF Devices
  <2>2. \A d \in Devices : \A x \in 0..(layers - 1) : ~ Filled(d, x)'
    BY <1>0 DEF Filled, Devices
  <2>3. \A e \in 0..layers : e \in feasible'[count] <=> e = layers
    BY <1>0, <1>2
  <2>4. \A d \in Devices : \A x \in 0..layers : x \notin feasible'[d]
    BY <1>2, <2>1
  <2> QED  BY <1>0, <2>2, <2>3, <2>4 DEF TableSound
<1>7. NoneMissed'
  <2> SUFFICES ASSUME NEW cut \in Allocations', NEW d \in 0..count, d > device'
               PROVE  cut[d] \in feasible'[d]
    BY <1>0 DEF NoneMissed
  <2>1. d = count
    BY <1>0
  <2>2. cut[count] = layers
    BY <1>0 DEF Allocations, Allocation
  <2> QED  BY <2>1, <2>2, <1>0, <1>2
<1>8. LoopSound'
  BY <1>0 DEF LoopSound, Devices
<1> QED
  BY <1>0, <1>3, <1>4, <1>5, <1>6, <1>7, <1>8 DEF IInv, ChoiceSound, PlanFits
-----------------------------------------------------------------------------
(* A row has been filled: allocations pass through it, and the table goes  *)
(* on to the row before it or to the choice.                               *)
LEMMA NextRowIInv ==
  ASSUME IInv, phase = "table", NextRow,
         UNCHANGED <<arguments, budgets, prefix>>,
         feasible' \in [0..count -> SUBSET (0..layers)],
         \A d \in 0..count : d # device => feasible'[d] = feasible[d],
         layers \notin feasible'[device],
         \A x \in 0..(layers - 1) : x \in feasible'[device] <=>
           \E e \in (x + 1)..layers : Fits(device, x, e) /\ e \in feasible[device + 1]
  PROVE  IInv'
<1>0. /\ layers \in Nat /\ count \in 1..layers /\ layers' = layers /\ count' = count
      /\ Devices' = Devices /\ device \in Devices /\ TableSound /\ NoneMissed
      /\ prefix' = prefix /\ budgets' = budgets
      /\ budgets \in [Devices -> Nat] /\ prefix \in [0..layers -> Nat]
  BY Arguments DEF IInv, TypeOK, ValidArguments, LoopSound, Tabled, layers, count, Devices, arguments
<1>a. device \in 0..count /\ device + 1 \in 0..count /\ device + 1 # device /\ device # count
  BY <1>0 DEF Devices
<1>b. /\ phase' \in {"table", "assign", "refused"} /\ start' = 0 /\ end' = 0
      /\ phase' = "table" <=> device # 0
      /\ device # 0 => device' = device - 1
      /\ device = 0 => device' = 0
      /\ phase' = "assign" => 0 \in feasible'[0] /\ assigned' = [d \in Devices |-> 0] /\ device' = 0
      /\ phase' = "refused" => 0 \notin feasible'[0]
  BY <1>0 DEF NextRow
<1>c. \A d \in Devices, x \in 0..layers, e \in 0..layers : Fits(d, x, e)' = Fits(d, x, e)
  BY <1>0 DEF Fits, extra, arguments
<1>1. TypeOK'
  <2>1. device' \in 0..count
    BY <1>b, <1>0 DEF Devices
  <2>2. phase' \in {"assign", "done"} => assigned' \in [Devices -> Nat]
    BY <1>b
  <2> QED  BY <1>0, <1>b, <2>1, <2>2 DEF IInv, TypeOK, arguments, Final
<1>2. PrefixSound'
  BY <1>0, <1>b DEF IInv, PrefixSound, Tabled, Growing
<1>3. ValidArguments'
  BY ArgumentsKept DEF IInv, ValidArguments
<1>4. TableSound'
  <2>1. \A e \in 0..layers : e \in feasible'[count] <=> e = layers
    BY <1>0, <1>a DEF TableSound
  <2>2. ASSUME NEW d \in Devices PROVE layers \notin feasible'[d]
    <3>1. d \in 0..count /\ layers \notin feasible[d]
      BY <1>0 DEF TableSound, Devices
    <3> QED  BY <3>1
  <2>3. ASSUME NEW d \in Devices, NEW x \in 0..(layers - 1), Filled(d, x)'
        PROVE  Entry(d, x)'
    <3>1. d \in 0..count /\ d + 1 \in 0..count /\ d >= device
      BY <2>3, <1>0, <1>b DEF Filled, Devices
    <3>2. CASE d = device
      BY <1>0, <1>a, <1>c, <3>2 DEF Entry
    <3>3. CASE d # device
      <4>1. d > device
        BY <3>1, <3>3, <1>0 DEF Devices
      <4>2. Entry(d, x)
        BY <4>1, <1>0 DEF TableSound, Filled
      <4>3. feasible'[d] = feasible[d] /\ feasible'[d + 1] = feasible[d + 1]
        BY <3>1, <4>1, <1>a
      <4> QED  BY <4>2, <4>3, <1>0, <1>c DEF Entry
    <3> QED  BY <3>2, <3>3
  <2>4. ASSUME NEW d \in Devices, NEW x \in 0..(layers - 1), ~ Filled(d, x)'
        PROVE  x \notin feasible'[d]
    <3>1. d < device /\ d \in 0..count
      BY <2>4, <1>0, <1>b DEF Filled, Devices
    <3>2. ~ Filled(d, x)
      BY <3>1, <1>0 DEF Filled, Devices
    <3>3. feasible'[d] = feasible[d]
      BY <3>1, <1>a
    <3> QED  BY <3>2, <3>3, <1>0 DEF TableSound
  <2> QED  BY <2>1, <2>2, <2>3, <2>4, <1>0 DEF TableSound
<1>5. NoneMissed'
  <2>0. Allocations' = Allocations
    BY <1>0 DEF Allocations, Allocation, arguments
  <2> SUFFICES ASSUME NEW cut \in Allocations, NEW d \in 0..count, phase' = "table" => d > device'
               PROVE  cut[d] \in feasible'[d]
    BY <2>0, <1>0 DEF NoneMissed
  <2>1. d >= device
    BY <1>0, <1>b DEF Devices
  <2>2. CASE d # device
    BY <2>1, <2>2, <1>0, <1>a DEF NoneMissed
  <2>3. CASE d = device
    <3>1. /\ cut \in [0..count -> 0..layers] /\ cut[device] < cut[device + 1]
          /\ Fits(device, cut[device], cut[device + 1])
      <4>1. cut \in [0..count -> 0..layers] /\ Allocation(cut)
        BY DEF Allocations
      <4>2. extra(device) = IF device + 1 = count THEN model.output ELSE 0
        <5>1. device = count - 1 <=> device + 1 = count
          BY <1>0 DEF Devices
        <5> QED  BY <5>1 DEF extra
      <4> QED  BY <4>1, <4>2, <1>0 DEF Allocation, Fits
    <3>2. cut[device + 1] \in feasible[device + 1]
      BY <1>0, <1>a DEF NoneMissed
    <3>3. cut[device] \in 0..(layers - 1) /\ cut[device + 1] \in (cut[device] + 1)..layers
      BY <3>1, <1>0, <1>a
    <3> QED  BY <2>3, <3>1, <3>2, <3>3
  <2> QED  BY <2>2, <2>3
<1>6. LoopSound'
  BY <1>0, <1>b DEF LoopSound, Devices
<1>7. ChoiceSound'
  <2>1. ASSUME phase' = "assign"
        PROVE  \E cut \in [0..count -> 0..layers] : cut[device'] = start' /\ CutsMade(cut, device)'
    <3>1. PICK cut \in [0..count -> 0..layers] : \A d \in 0..count : cut[d] = 0
      <4>1. [d \in 0..count |-> 0] \in [0..count -> 0..layers]
        BY <1>0
      <4> QED  BY <4>1
    <3>2. cut[device'] = start' /\ cut[0] = 0 /\ device' = 0
      BY <2>1, <3>1, <1>0, <1>b
    <3>3. CutsMade(cut, device)'
      BY <3>2 DEF CutsMade
    <3> QED  BY <3>2, <3>3
  <2>2. phase' = "assign" => device' \in Devices /\ start' < layers /\ start' \in feasible'[device']
    BY <1>0, <1>b DEF Devices
  <2> QED  BY <1>0, <1>b, <2>1, <2>2 DEF ChoiceSound, PlanFits
<1> QED  BY <1>1, <1>2, <1>3, <1>4, <1>5, <1>6, <1>7 DEF IInv

LEMMA SkipRowIInv ==
  ASSUME IInv, SkipRow
  PROVE  IInv'
<1>0. /\ layers \in Nat /\ count \in 1..layers /\ device \in Devices /\ TableSound
      /\ phase = "table" /\ prefix \in [0..layers -> Nat] /\ Growing(layers)
      /\ budgets \in [Devices -> Nat] /\ model.output \in Nat
      /\ feasible \in [0..count -> SUBSET (0..layers)]
  BY Arguments DEF IInv, TypeOK, ValidArguments, LoopSound, PrefixSound, Tabled, SkipRow
<1>1. ASSUME NEW x \in 0..(layers - 1), NEW e \in (x + 1)..layers
      PROVE  ~ Fits(device, x, e)
  <2>1. prefix[x] <= prefix[e] /\ prefix[x] \in Nat /\ prefix[e] \in Nat
    BY <1>0 DEF Growing
  <2>2. extra(device) \in Nat /\ budgets[device] \in Nat /\ budgets[device] < extra(device)
    BY <1>0 DEF extra, SkipRow
  <2> QED  BY <2>1, <2>2 DEF Fits
<1>2. \A x \in 0..(layers - 1) : x \notin feasible[device]
  BY <1>0, <1>1 DEF TableSound, Entry
<1>3. layers \notin feasible[device]
  BY <1>0 DEF TableSound
<1> QED  BY <1>0, <1>1, <1>2, <1>3, NextRowIInv DEF SkipRow

(* More places are reachable before n than before m when one is between. *)
LEMMA Counts ==
  ASSUME NEW F, NEW m \in Nat, NEW n \in Nat, m <= n
  PROVE  Cardinality(F \cap 0..(n - 1)) > Cardinality(F \cap 0..(m - 1))
           <=> \E e \in m..(n - 1) : e \in F
<1> DEFINE A == F \cap 0..(m - 1)
           B == F \cap 0..(n - 1)
<1>1. IsFiniteSet(B) /\ A \in SUBSET B
  <2>1. n - 1 \in Int /\ 0 \in Int
    OBVIOUS
  <2>2. IsFiniteSet(0..(n - 1))
    BY <2>1, FS_Interval
  <2>3. IsFiniteSet(F \cap 0..(n - 1))
    BY <2>2, FS_Intersection, Zenon
  <2>4. 0..(m - 1) \subseteq 0..(n - 1)
    OBVIOUS
  <2> QED  BY <2>3, <2>4
<1>2. /\ IsFiniteSet(A) /\ Cardinality(A) <= Cardinality(B)
      /\ Cardinality(B) = Cardinality(A) => B = A
  BY <1>1, FS_Subset
<1>3. Cardinality(A) \in Nat /\ Cardinality(B) \in Nat
  BY <1>1, <1>2, FS_CardinalityType
<1>4. B = A <=> ~ \E e \in m..(n - 1) : e \in F
  OBVIOUS
<1> HIDE DEF A, B
<1>5. Cardinality(B) > Cardinality(A) <=> B # A
  BY <1>2, <1>3
<1> QED  BY <1>4, <1>5 DEF A, B

(* The window ends after the last cut that fits. *)
LEMMA WindowExact ==
  ASSUME IInv, phase = "table", budgets[device] >= extra(device), NEW e \in 0..layers, Window(e)
  PROVE  /\ e >= start
         /\ \A k \in (start + 1)..layers : Fits(device, start, k) <=> k <= e
<1>0. /\ layers \in Nat /\ count \in 1..layers /\ device \in Devices
      /\ prefix \in [0..layers -> Nat] /\ Growing(layers)
      /\ budgets[device] \in Nat /\ model.output \in Nat
      /\ start \in 0..(layers - 1) /\ end \in 0..layers
      /\ end > start => Fits(device, start, end)
  BY Arguments DEF IInv, TypeOK, ValidArguments, LoopSound, PrefixSound, Tabled
<1>1. extra(device) \in Nat
  BY <1>0 DEF extra
<1>2. e >= start /\ e >= end
  BY <1>0 DEF Window, Greatest
<1>3. ASSUME e > start PROVE Fits(device, start, e)
  <2>1. CASE e = end
    BY <1>0, <1>3, <2>1
  <2>2. CASE e # end
    <3>1. e - 1 \in Greatest(end, start)..(e - 1) /\ (e - 1) + 1 = e
      BY <1>0, <1>2, <1>3, <2>2 DEF Greatest
    <3>2. prefix[e] - prefix[start] <= budgets[device] - extra(device)
      BY <3>1 DEF Window
    <3>3. prefix[e] \in Nat /\ prefix[start] \in Nat
      BY <1>0
    <3> QED  BY <1>0, <1>1, <3>2, <3>3 DEF Fits
  <2> QED  BY <2>1, <2>2
<1>4. ASSUME NEW k \in (start + 1)..layers, k <= e
      PROVE  Fits(device, start, k)
  <2>1. prefix[k] <= prefix[e] /\ prefix[k] \in Nat /\ prefix[e] \in Nat /\ prefix[start] \in Nat
    BY <1>0, <1>4 DEF Growing
  <2>2. Fits(device, start, e)
    BY <1>0, <1>3, <1>4
  <2> QED  BY <1>0, <1>1, <2>1, <2>2 DEF Fits
<1>5. ASSUME NEW k \in (start + 1)..layers, k > e
      PROVE  ~ Fits(device, start, k)
  <2>1. e < layers /\ e + 1 \in 0..layers /\ e + 1 <= k
    BY <1>0, <1>5
  <2>2. prefix[e + 1] - prefix[start] > budgets[device] - extra(device)
    BY <2>1 DEF Window
  <2>3. /\ prefix[e + 1] <= prefix[k] /\ prefix[k] \in Nat /\ prefix[e + 1] \in Nat
        /\ prefix[start] \in Nat
    BY <1>0, <1>5, <2>1 DEF Growing
  <2> QED  BY <1>0, <1>1, <2>2, <2>3 DEF Fits
<1> QED  BY <1>0, <1>2, <1>4, <1>5

LEMMA CellIInv ==
  ASSUME IInv, Cell
  PROVE  IInv'
<1>0. /\ layers \in Nat /\ count \in 1..layers /\ device \in Devices /\ TableSound /\ NoneMissed
      /\ phase = "table" /\ prefix \in [0..layers -> Nat] /\ Growing(layers)
      /\ budgets \in [Devices -> Nat] /\ model.output \in Nat
      /\ feasible \in [0..count -> SUBSET (0..layers)]
      /\ start \in 0..(layers - 1) /\ UNCHANGED <<arguments, budgets, prefix>>
  BY Arguments DEF IInv, TypeOK, ValidArguments, LoopSound, PrefixSound, Tabled, Cell
<1>a. /\ device \in 0..count /\ device + 1 \in 0..count /\ device # count
      /\ layers' = layers /\ count' = count /\ Devices' = Devices
  BY <1>0 DEF Devices, layers, count, arguments
<1>1. PICK e \in 0..layers :
        /\ Window(e)
        /\ feasible' = [feasible EXCEPT ![device] =
             @ \cup {s \in {start} : reachable(device, e + 1) > reachable(device, s + 1)}]
        /\ \/ start + 1 < layers /\ start' = start + 1 /\ end' = e
              /\ UNCHANGED <<phase, device, assigned>>
           \/ start + 1 = layers /\ NextRow
  BY DEF Cell
<1>2. e >= start /\ \A k \in (start + 1)..layers : Fits(device, start, k) <=> k <= e
  BY <1>0, <1>1, WindowExact DEF Cell
<1>3. reachable(device, e + 1) > reachable(device, start + 1) <=>
        \E k \in (start + 1)..layers : Fits(device, start, k) /\ k \in feasible[device + 1]
  <2>1. /\ start + 1 \in Nat /\ e + 1 \in Nat /\ start + 1 <= e + 1
        /\ (e + 1) - 1 = e
    BY <1>0, <1>2
  <2>2. reachable(device, e + 1) > reachable(device, start + 1) <=>
          \E k \in (start + 1)..((e + 1) - 1) : k \in feasible[device + 1]
    BY <2>1, Counts DEF reachable
  <2> QED  BY <1>0, <1>2, <2>1, <2>2
<1>4. /\ feasible' \in [0..count -> SUBSET (0..layers)]
      /\ \A d \in 0..count : d # device => feasible'[d] = feasible[d]
      /\ \A x \in 0..layers : x # start => (x \in feasible'[device] <=> x \in feasible[device])
  <2>1. PICK new \in SUBSET {start} :
          feasible' = [feasible EXCEPT ![device] = feasible[device] \cup new]
    BY <1>1
  <2>2. new \subseteq 0..layers
    BY <1>0
  <2>3. feasible' \in [0..count -> SUBSET (0..layers)]
    BY <2>1, <2>2, <1>0, <1>a
  <2>4. feasible'[device] = feasible[device] \cup new
    BY <2>1, <1>0, <1>a
  <2>5. \A d \in 0..count : d # device => feasible'[d] = feasible[d]
    BY <2>1, <1>0
  <2> QED  BY <2>3, <2>4, <2>5
<1>5. start \in feasible'[device] <=>
        \E k \in (start + 1)..layers : Fits(device, start, k) /\ k \in feasible[device + 1]
  <2>1. start \notin feasible[device]
    BY <1>0 DEF TableSound, Filled, Devices
  <2>2. feasible'[device] = feasible[device] \cup
          {s \in {start} : reachable(device, e + 1) > reachable(device, s + 1)}
    BY <1>0, <1>a, <1>1
  <2> QED  BY <2>1, <2>2, <1>3
<1>6. \A x \in 0..start : x \in feasible'[device] <=>
        \E k \in (x + 1)..layers : Fits(device, x, k) /\ k \in feasible[device + 1]
  <2> SUFFICES ASSUME NEW x \in 0..start, x # start
               PROVE  x \in feasible'[device] <=>
                        \E k \in (x + 1)..layers : Fits(device, x, k) /\ k \in feasible[device + 1]
    BY <1>5
  <2>1. x \in 0..(layers - 1) /\ x < start
    BY <1>0
  <2>2. Entry(device, x)
    BY <2>1, <1>0 DEF TableSound, Filled
  <2> QED  BY <2>1, <2>2, <1>4, <1>0 DEF Entry
<1>7. CASE start + 1 = layers /\ NextRow
  <2>1. layers \notin feasible'[device]
    BY <1>0, <1>4 DEF TableSound
  <2> QED  BY <1>0, <1>4, <1>6, <1>7, <2>1, NextRowIInv
<1>8. CASE start + 1 < layers /\ start' = start + 1 /\ end' = e /\ UNCHANGED <<phase, device, assigned>>
  <2>1. TypeOK'
    <3>1. /\ device' \in 0..count' /\ start' \in 0..layers' /\ end' \in 0..layers'
          /\ budgets' \in [Devices' -> Nat] /\ prefix' \in [0..layers' -> Nat]
          /\ feasible' \in [0..count' -> SUBSET (0..layers')] /\ phase' = "table"
      BY <1>0, <1>a, <1>4, <1>8
    <3>2. /\ model' \in Models /\ context' \in Contexts /\ reserve' \in Reserves
          /\ gpus' \in Seq(Gpus) /\ count' <= MaxGpus
      BY <1>0, <1>a DEF IInv, TypeOK, arguments
    <3> QED  BY <3>1, <3>2 DEF TypeOK
  <2>2. ValidArguments'
    BY <1>0, <1>8, ArgumentsKept DEF IInv, ValidArguments
  <2>3. PrefixSound'
    BY <1>0, <1>a, <1>8 DEF IInv, PrefixSound, Tabled, Growing
  <2>4. \A d \in Devices, x \in 0..layers, k \in 0..layers : Fits(d, x, k)' = Fits(d, x, k)
    BY <1>0, <1>a DEF Fits, extra, arguments
  <2>5. TableSound'
    <3>1. \A k \in 0..layers : k \in feasible'[count] <=> k = layers
      BY <1>0, <1>a, <1>4 DEF TableSound
    <3>2. ASSUME NEW d \in Devices PROVE layers \notin feasible'[d]
      <4>1. d \in 0..count /\ layers \notin feasible[d] /\ layers # start
        BY <1>0 DEF TableSound, Devices
      <4> QED  BY <4>1, <1>0, <1>4
    <3>3. ASSUME NEW d \in Devices, NEW x \in 0..(layers - 1), Filled(d, x)'
          PROVE  Entry(d, x)'
      <4>1. /\ d \in 0..count /\ d + 1 \in 0..count /\ d \in Nat /\ device \in Nat
            /\ d > device \/ (d = device /\ x \in 0..start)
        BY <3>3, <1>0, <1>8 DEF Filled, Devices
      <4>2. CASE d = device
        <5>1. feasible'[device + 1] = feasible[device + 1]
          BY <1>a, <1>4, <4>1
        <5> QED  BY <4>1, <4>2, <5>1, <1>0, <1>a, <1>6, <2>4 DEF Entry
      <4>3. CASE d > device
        <5>1. Entry(d, x)
          BY <4>3, <1>0 DEF TableSound, Filled
        <5>2. feasible'[d] = feasible[d] /\ feasible'[d + 1] = feasible[d + 1]
          BY <4>1, <4>3, <1>4
        <5>3. \A k \in (x + 1)..layers : Fits(d, x, k)' = Fits(d, x, k)
          BY <2>4, <1>0
        <5> QED  BY <5>1, <5>2, <5>3, <1>a DEF Entry
      <4> QED  BY <4>1, <4>2, <4>3
    <3>4. ASSUME NEW d \in Devices, NEW x \in 0..(layers - 1), ~ Filled(d, x)'
          PROVE  x \notin feasible'[d]
      <4>1. d \in 0..count /\ (x # start \/ d # device)
        BY <3>4, <1>0, <1>8 DEF Filled, Devices
      <4>2. ~ Filled(d, x)
        BY <3>4, <1>0, <1>8 DEF Filled, Devices
      <4>3. x \notin feasible[d] /\ d \in 0..count
        BY <4>2, <1>0 DEF TableSound, Devices
      <4> QED  BY <4>1, <4>3, <1>4, <1>0
    <3> QED  BY <3>1, <3>2, <3>3, <3>4, <1>a DEF TableSound
  <2>6. NoneMissed'
    <3>1. Allocations' = Allocations
      BY <1>0, <1>a DEF Allocations, Allocation, arguments
    <3>2. \A d \in 0..count : d > device => feasible'[d] = feasible[d]
      BY <1>4, <1>0 DEF Devices
    <3> QED  BY <3>1, <3>2, <1>0, <1>a, <1>8 DEF NoneMissed
  <2>7. LoopSound'
    <3>1. ASSUME e > start + 1 PROVE Fits(device, start + 1, e)
      <4>1. Fits(device, start, e)
        BY <1>0, <1>2, <3>1
      <4>2. /\ prefix[start] <= prefix[start + 1] /\ prefix[start] \in Nat
            /\ prefix[start + 1] \in Nat /\ prefix[e] \in Nat
        BY <1>0 DEF Growing
      <4>3. extra(device) \in Nat /\ budgets[device] \in Nat
        BY <1>0 DEF extra
      <4> QED  BY <4>1, <4>2, <4>3 DEF Fits
    <3>2. end' > start' => Fits(device, start, end)'
      BY <3>1, <2>4, <1>0, <1>8 DEF Fits, extra, count, arguments
    <3> QED  BY <3>2, <1>0, <1>a, <1>8 DEF LoopSound
  <2>8. ChoiceSound'
    BY <1>0, <1>8 DEF ChoiceSound, PlanFits
  <2> QED  BY <2>1, <2>2, <2>3, <2>5, <2>6, <2>7, <2>8 DEF IInv
<1> QED  BY <1>1, <1>7, <1>8
-----------------------------------------------------------------------------
(* The table's entry for the next GPU leads to a cut the iterator finds:   *)
(* whatever is before a cut that fits fits, too.                           *)
LEMMA CutExists == IInv => NextCutExists
<1> SUFFICES ASSUME IInv, phase = "assign" PROVE Cuts # {}
  BY DEF NextCutExists
<1>0. /\ layers \in Nat /\ count \in 1..layers /\ device \in Devices /\ TableSound
      /\ prefix \in [0..layers -> Nat] /\ Growing(layers) /\ budgets[device] \in Nat
      /\ start \in 0..(layers - 1) /\ start \in feasible[device] /\ extra(device) \in Nat
  BY Arguments DEF IInv, TypeOK, ValidArguments, ChoiceSound, PrefixSound, Tabled, extra
<1>1. PICK e \in (start + 1)..layers : Fits(device, start, e) /\ e \in feasible[device + 1]
  BY <1>0 DEF TableSound, Filled, Entry
<1>2. ASSUME NEW k \in (start + 1)..e
      PROVE  prefix[k] - prefix[start] + extra(device) <= budgets[device]
  <2>1. prefix[k] <= prefix[e] /\ prefix[k] \in Nat /\ prefix[e] \in Nat /\ prefix[start] \in Nat
    BY <1>0 DEF Growing
  <2>2. extra(device) \in Nat /\ budgets[device] \in Nat
    BY <1>0
  <2>3. prefix[e] - prefix[start] + extra(device) <= budgets[device]
    BY <1>1 DEF Fits
  <2> QED  BY <2>1, <2>2, <2>3
<1> QED  BY <1>1, <1>2 DEF Cuts

LEMMA AssignIInv ==
  ASSUME IInv, Assign
  PROVE  IInv'
<1>0. /\ layers \in Nat /\ count \in 1..layers /\ device \in Devices /\ TableSound /\ NoneMissed
      /\ phase = "assign" /\ UNCHANGED <<arguments, budgets, prefix, feasible, end>>
      /\ start \in 0..(layers - 1) /\ assigned \in [Devices -> Nat]
      /\ device' = device + 1 /\ phase' = IF device + 1 = count THEN "done" ELSE "assign"
  BY Arguments DEF IInv, TypeOK, ValidArguments, ChoiceSound, Tabled, Assign
<1>a. /\ device \in 0..count /\ device + 1 \in 0..count
      /\ layers' = layers /\ count' = count /\ Devices' = Devices
  BY <1>0 DEF Devices, layers, count, arguments
<1>1. PICK e \in Cuts :
        /\ assigned' = [assigned EXCEPT ![device] =
                          e - start + (IF device = count - 1 THEN 1 ELSE 0)]
        /\ start' = e
  BY DEF Assign
<1>2. /\ e \in (start + 1)..layers /\ e \in feasible[device + 1] /\ Fits(device, start, e)
  BY <1>0 DEF Cuts, Fits
<1>3. \A d \in Devices, x \in 0..layers, k \in 0..layers : Fits(d, x, k)' = Fits(d, x, k)
  BY <1>0, <1>a DEF Fits, extra, arguments
<1>4. TypeOK'
  <2>1. assigned' \in [Devices -> Nat] /\ start' \in 0..layers
    BY <1>0, <1>1, <1>2
  <2> QED  BY <1>0, <1>a, <2>1 DEF IInv, TypeOK, arguments, Final
<1>5. ValidArguments' /\ PrefixSound'
  <2>1. ValidArguments'
    BY <1>0, ArgumentsKept DEF IInv, ValidArguments
  <2> QED  BY <2>1, <1>0, <1>a DEF IInv, PrefixSound, Tabled, Growing
<1>6. TableSound'
  <2>1. \A d \in Devices, x \in 0..(layers - 1) : Entry(d, x) => Entry(d, x)'
    <3> SUFFICES ASSUME NEW d \in Devices, NEW x \in 0..(layers - 1), Entry(d, x)
                 PROVE  Entry(d, x)'
      OBVIOUS
    <3>1. \A k \in (x + 1)..layers : Fits(d, x, k)' = Fits(d, x, k)
      BY <1>0, <1>3
    <3> QED  BY <3>1, <1>0, <1>a DEF Entry
  <2>2. \A d \in Devices, x \in 0..(layers - 1) : Filled(d, x) /\ Filled(d, x)'
    BY <1>0 DEF Filled
  <2> QED  BY <2>1, <2>2, <1>0, <1>a DEF TableSound
<1>7. NoneMissed'
  <2>1. Allocations' = Allocations
    BY <1>0, <1>a DEF Allocations, Allocation, arguments
  <2> QED  BY <2>1, <1>0, <1>a DEF NoneMissed
<1>8. PICK old \in [0..count -> 0..layers] : old[device] = start /\ CutsMade(old, device)
  BY <1>0 DEF IInv, ChoiceSound
<1>9. PICK new \in [0..count -> 0..layers] :
        new[device + 1] = e /\ \A d \in 0..count : d # device + 1 => new[d] = old[d]
  <2>1. e \in 0..layers
    BY <1>0, <1>2
  <2>2. [old EXCEPT ![device + 1] = e] \in [0..count -> 0..layers]
    BY <2>1
  <2> QED  BY <2>2, <1>a
<1>10. /\ new[0] = 0
       /\ \A d \in 0..device : new[d] < new[d + 1] /\ Fits(d, new[d], new[d + 1])
            /\ assigned'[d] = new[d + 1] - new[d] + (IF d + 1 = count THEN 1 ELSE 0)
  <2>1. new[0] = 0
    BY <1>0, <1>8, <1>9, <1>a DEF CutsMade, Devices
  <2>2. ASSUME NEW d \in 0..(device - 1)
        PROVE  /\ new[d] < new[d + 1] /\ Fits(d, new[d], new[d + 1])
               /\ assigned'[d] = new[d + 1] - new[d] + (IF d + 1 = count THEN 1 ELSE 0)
    <3>1. /\ d \in Devices /\ d \in 0..count /\ d + 1 \in 0..count
          /\ d # device /\ d # device + 1 /\ d + 1 # device + 1
      BY <1>0 DEF Devices
    <3>2. new[d] = old[d] /\ new[d + 1] = old[d + 1] /\ assigned'[d] = assigned[d]
      BY <3>1, <1>0, <1>1, <1>9
    <3> QED  BY <3>2, <1>8 DEF CutsMade
  <2>3. /\ new[device] = start /\ new[device + 1] = e
        /\ assigned'[device] = e - start + (IF device + 1 = count THEN 1 ELSE 0)
    <3>1. device = count - 1 <=> device + 1 = count
      BY <1>0 DEF Devices
    <3> QED  BY <3>1, <1>0, <1>1, <1>8, <1>9, <1>a DEF Devices
  <2>4. start < e /\ Fits(device, start, e)
    BY <1>0, <1>2
  <2>5. \A d \in 0..device : d = device \/ d \in 0..(device - 1)
    BY <1>0 DEF Devices
  <2> QED  BY <2>1, <2>2, <2>3, <2>4, <2>5
<1>11. CASE device + 1 = count
  <2>1. e = layers
    BY <1>0, <1>2, <1>11, <1>a DEF TableSound
  <2>2. Devices = 0..device
    BY <1>0, <1>11 DEF Devices
  <2>3. new \in Allocations
    <3>1. \A d \in Devices : extra(d) = IF d + 1 = count THEN model.output ELSE 0
      <4>1. \A d \in Devices : d = count - 1 <=> d + 1 = count
        BY <1>0 DEF Devices
      <4> QED  BY <4>1 DEF extra
    <3> QED  BY <2>1, <2>2, <3>1, <1>9, <1>10, <1>11 DEF Allocations, Allocation, Fits
  <2>4. new \in Allocations'
    BY <2>3, <1>0, <1>a DEF Allocations, Allocation, arguments
  <2>5. PlanFits'
    BY <2>2, <2>4, <1>10, <1>a DEF PlanFits
  <2> QED
    BY <1>0, <1>11, <2>5, <1>4, <1>5, <1>6, <1>7 DEF IInv, LoopSound, ChoiceSound
<1>12. CASE device + 1 # count
  <2>1. device + 1 \in Devices /\ phase' = "assign"
    BY <1>0, <1>12 DEF Devices
  <2>2. e < layers
    BY <2>1, <1>0, <1>2 DEF TableSound
  <2>3. CutsMade(new, device)'
    <3>1. \A d \in 0..device : d \in Devices /\ new[d] \in 0..layers /\ new[d + 1] \in 0..layers
      BY <1>0, <1>9 DEF Devices
    <3>2. \A d \in 0..device : Fits(d, new[d], new[d + 1])'
      BY <3>1, <1>3, <1>10
    <3>3. (device + 1) - 1 = device
      BY <1>0 DEF Devices
    <3> QED  BY <3>2, <3>3, <1>0, <1>a, <1>10 DEF CutsMade
  <2>4. ChoiceSound'
    BY <2>1, <2>2, <2>3, <1>0, <1>1, <1>2, <1>9, <1>a DEF ChoiceSound, PlanFits
  <2> QED  BY <2>1, <2>4, <1>4, <1>5, <1>6, <1>7 DEF IInv, LoopSound
<1> QED  BY <1>11, <1>12
-----------------------------------------------------------------------------
(* Every step, and stuttering, preserves the invariant. *)
LEMMA StepIInv == IInv /\ [Next]_vars => IInv'
<1> SUFFICES ASSUME IInv, [Next]_vars PROVE IInv'
  OBVIOUS
<1>1. CASE UNCHANGED vars
  <2>1. /\ layers' = layers /\ count' = count /\ Devices' = Devices
        /\ Supported' <=> Supported
        /\ Selectable' <=> Selectable
    BY <1>1, ArgumentsKept DEF vars
  <2>2. TypeOK' /\ ValidArguments' /\ PrefixSound'
    <3>1. TypeOK'
      BY <1>1, <2>1 DEF vars, arguments, IInv, TypeOK
    <3>2. ValidArguments'
      BY <1>1, <2>1 DEF vars, IInv, ValidArguments
    <3>3. PrefixSound'
      BY <1>1, <2>1 DEF vars, IInv, PrefixSound, Tabled, Growing
    <3> QED  BY <3>1, <3>2, <3>3
  <2>3. Tabled => TableSound' /\ NoneMissed'
    BY <1>1, <2>1 DEF vars, arguments, IInv, TableSound, Filled, Entry, Fits, extra, NoneMissed,
                      Allocations, Allocation
  <2>4. LoopSound' /\ ChoiceSound'
    BY <1>1, <2>1 DEF vars, arguments, IInv, LoopSound, ChoiceSound, PlanFits, CutsMade, Fits, extra,
                      Allocations, Allocation
  <2> QED  BY <1>1, <2>2, <2>3, <2>4 DEF IInv, Tabled, vars
<1> QED
  BY <1>1, InvalidIInv, BeginIInv, AddLayerIInv, BeginTableIInv, SkipRowIInv, CellIInv, AssignIInv
  DEF Next

LEMMA Invariance == Spec => []IInv
  BY InitIInv, StepIInv, PTL DEF Spec

(* Every variable keeps its shape, and no budget underflows (the           *)
(* saturating and checked subtractions of build).                          *)
THEOREM TypeCorrect == Spec => []TypeOK
<1>1. IInv => TypeOK
  BY DEF IInv
<1> QED  BY <1>1, Invariance, PTL

(* The expect of build never fails: once the table is feasible, every GPU  *)
(* finds a next cut, whichever of the nearest ones were taken before.      *)
THEOREM NextCutExistsHolds == Spec => []NextCutExists
  BY CutExists, Invariance, PTL

(* The plan build returns puts every layer on one GPU, one at least on     *)
(* each, within its memory after reserves.                                 *)
THEOREM PlanFitsHolds == Spec => []PlanFits
<1>1. IInv => PlanFits
  BY DEF IInv, ChoiceSound
<1> QED  BY <1>1, Invariance, PTL

(* build only refuses what no contiguous allocation could fit.             *)
THEOREM RefusedMeansImpossibleHolds == Spec => []RefusedMeansImpossible
<1>1. IInv => RefusedMeansImpossible
  <2> SUFFICES ASSUME IInv, phase = "refused", NEW cut \in Allocations PROVE FALSE
    BY DEF RefusedMeansImpossible
  <2>1. 0 \in 0..count
    BY Arguments DEF IInv
  <2>2. cut[0] = 0
    BY DEF Allocations, Allocation
  <2> QED  BY <2>1, <2>2 DEF IInv, Tabled, NoneMissed, ChoiceSound
<1> QED  BY <1>1, Invariance, PTL
=============================================================================
