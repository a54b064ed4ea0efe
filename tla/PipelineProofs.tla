--------------------------- MODULE PipelineProofs ---------------------------
(***************************************************************************)
(* Proofs about Pipeline, for every model, every set of followers and      *)
(* runs, every placement and every prompt.  The argument: a step of the    *)
(* system is one of run r itself, a restart of a follower, or something    *)
(* that leaves all that is r's alone - its place in the loop, what it      *)
(* carries, and the shards behind its stages, unless r is disturbed by it. *)
(***************************************************************************)
EXTENDS Pipeline, SequenceTheorems, WellFoundedInduction, TLAPS

Payload == [kind : {"none", "tokens", "hidden", "logits"}, next : 0..Layers, sound : BOOLEAN]
Hosts == Followers \cup UNION {{r} \X Stages(r) : r \in Runs}

Streams == {"none", "open", "closing", "ended"}

(* Every variable is a function of its domain.                             *)
Shape ==
  /\ places \in [Runs -> Seq(Placement)]
  /\ phase \in [Runs -> Phases]
  /\ stage \in [Runs -> Nat]
  /\ step \in [Runs -> Nat]
  /\ payload \in [Runs -> Payload]
  /\ good \in [Runs -> BOOLEAN]
  /\ sent \in [Runs -> {"none", "load", "step"}]
  /\ DOMAIN stream = Runs
  /\ DOMAIN shard = Hosts
  /\ \A h \in Hosts : shard[h] \in Shard \cup {NoShard}
  /\ cut \subseteq Runs \X Followers
  /\ disturbed \in [Runs -> BOOLEAN]

(* Where a run can be, and what it may have asked for there.               *)
Progress(r) ==
  /\ places[r] \in Plans[r]
  /\ stage[r] <= Len(places[r]) + 1
  /\ step[r] <= MaxNew + 1
  /\ stream[r] \in [Stages(r) -> Streams]
  /\ \A i \in Stages(r) : stream[r][i] # "none" => places[r][i].host # Here
  /\ sent[r] # "none" => stage[r] \in Stages(r) /\ ~ IsLocal(r)
  /\ phase[r] \in {"new", "untiled"} => sent[r] = "none"
  /\ phase[r] \notin {"new", "untiled"} => check_tiling(places[r])
  /\ Alive(r) => stage[r] >= 1
  /\ phase[r] \in {"new", "opening"} => step[r] = 0
  /\ phase[r] = "running" => step[r] = 0 \/ step[r] < MaxNew
  /\ Alive(r) /\ sent[r] # "none" =>
       sent[r] = IF phase[r] = "opening" THEN "load" ELSE "step"

TypeInv == Shape /\ \A r \in Runs : Progress(r)

(* Stage i of r is open; r has been through it in the current step.        *)
Reached(r, i) == phase[r] = "running" \/ (phase[r] = "opening" /\ i < stage[r])
Past(r, i) == phase[r] = "running" /\ i < stage[r]
Remote(r, i) == places[r][i].host # Here

(* What is open and still connected has an open stream.                    *)
StreamsOpen(r) ==
  \A i \in Stages(r) :
    Reached(r, i) /\ Remote(r, i) /\ <<r, Host(r, i)>> \notin cut => stream[r][i] = "open"

(* The cache that holds the first n tokens of run r.                       *)
Upto(r, n) == [j \in 1..n |-> <<r, j - 1>>]

(* The shard behind stage i of a run nobody disturbed, and what the        *)
(* traversal carries to the current stage.                                 *)
Holds(sh, place, active, kv) ==
  /\ sh \in Shard
  /\ sh.first = place.first /\ sh.last = place.last
  /\ sh.active <=> active
  /\ sh.kv = kv
Held(r, i) ==
  Holds(shard[Host(r, i)], places[r][i], step[r] > 0 \/ Past(r, i),
        IF Past(r, i) THEN Context(r) ELSE Upto(r, Pos(r)))
Carries(p, r, n) ==
  /\ p.kind = IF n = 1 THEN "tokens" ELSE IF n \in Stages(r) THEN "hidden" ELSE "logits"
  /\ p.next = IF n = 1 THEN 0 ELSE places[r][n - 1].last
  /\ p.sound

Undisturbed(r) == ~ disturbed[r] /\ OnePlaceEach(places[r])
ShardsHeld(r) ==
  \A i \in Stages(r) : Reached(r, i) /\ <<r, Host(r, i)>> \notin cut => Held(r, i)

RunSound(r) ==
  Undisturbed(r) =>
    /\ ShardsHeld(r)
    /\ phase[r] = "running" => Carries(payload[r], r, stage[r])
    /\ good[r]
    /\ phase[r] # "refused"

IInv == TypeInv /\ \A r \in Runs : StreamsOpen(r) /\ RunSound(r)
-----------------------------------------------------------------------------
(* Lemmas about the operators of Pipeline.                                 *)

(* The least number principle, for sets.                                   *)
LEMMA LeastNumber ==
  ASSUME NEW T \in SUBSET Nat, T # {}
  PROVE  \E k \in T : \A m \in T : ~ (m < k)
<1> DEFINE Less == {ss \in Nat \X Nat : ss[1] < ss[2]}
<1>1. IsWellFoundedOn(Less, Nat)
  BY NatLessThanWellFounded DEF OpToRel
<1> HIDE DEF Less
<1>2. PICK k \in T : \A m \in T : ~ (<<m, k>> \in Less)
  BY <1>1, WFMin
<1>3. \A m \in T : m < k => <<m, k>> \in Less
  BY DEF Less
<1> QED  BY <1>2, <1>3

(* check_tiling: every range lies in the model, only the first one starts  *)
(* at the embedding and only the last one ends at the logits.              *)
LEMMA TilingFacts ==
  ASSUME NEW p \in Seq(Placement), check_tiling(p)
  PROVE  /\ Len(p) \in Nat \ {0}
         /\ p[Len(p)].last = Layers
         /\ \A i \in 1..Len(p) :
              /\ p[i] \in Placement
              /\ p[i].first < p[i].last /\ p[i].last <= Layers
              /\ p[i].last = Layers <=> i = Len(p)
              /\ p[i].first = 0 <=> i = 1
              /\ i > 1 => p[i].first = p[i - 1].last
<1> DEFINE n == Len(p)
           Beyond == {k \in 0..(n - 1) : p[n - k].last > Layers}
<1>1. n \in Nat \ {0} /\ p[n].last = Layers
  BY DEF check_tiling
<1>2. \A i \in 1..n :
        /\ p[i] \in Placement
        /\ p[i].first \in Nat /\ p[i].last \in Nat
        /\ p[i].first < p[i].last
        /\ p[i].first = IF i = 1 THEN 0 ELSE p[i - 1].last
  <2> SUFFICES ASSUME NEW i \in 1..n
               PROVE  /\ p[i] \in Placement
                      /\ p[i].first \in Nat /\ p[i].last \in Nat
                      /\ p[i].first < p[i].last
                      /\ p[i].first = IF i = 1 THEN 0 ELSE p[i - 1].last
    OBVIOUS
  <2>1. p[i] \in Placement
    OBVIOUS
  <2>2. p[i].first \in Nat /\ p[i].last \in Nat
    BY <2>1 DEF Placement
  <2>3. p[i].last > p[i].first /\ p[i].first = IF i = 1 THEN 0 ELSE p[i - 1].last
    BY DEF check_tiling
  <2> QED  BY <2>1, <2>2, <2>3
<1>3. ASSUME Beyond # {} PROVE FALSE
  <2>1. PICK k \in Beyond : \A m \in Beyond : ~ (m < k)
    <3>1. Beyond \subseteq Nat
      BY <1>1
    <3> QED  BY <1>3, <3>1, LeastNumber
  <2>2. k # 0
    BY <1>1, PipelineAssumption
  <2>3. k \in Nat /\ k - 1 \in Nat /\ k < n /\ n - k + 1 \in 2..n
    BY <1>1, <2>2
  <2>4. k - 1 < k
    BY <2>3
  <2>5. k - 1 \notin Beyond
    BY <2>1, <2>4
  <2>6. ~ (p[n - (k - 1)].last > Layers)
    BY <1>1, <2>3, <2>5
  <2>7. n - (k - 1) = n - k + 1 /\ (n - k + 1) - 1 = n - k
    BY <1>1, <2>3
  <2>8. /\ p[n - k + 1].first = p[n - k].last
        /\ p[n - k + 1].first < p[n - k + 1].last
        /\ p[n - k + 1].last <= Layers
        /\ p[n - k + 1].first \in Nat /\ p[n - k + 1].last \in Nat
    BY <1>2, <2>3, <2>6, <2>7, PipelineAssumption
  <2>9. p[n - k].last > Layers
    OBVIOUS
  <2> QED  BY <2>8, <2>9, PipelineAssumption
<1>4. \A i \in 1..n : p[i].last <= Layers
  <2> SUFFICES ASSUME NEW i \in 1..n, ~ (p[i].last <= Layers) PROVE FALSE
    OBVIOUS
  <2>1. n - i \in 0..(n - 1) /\ n - (n - i) = i
    BY <1>1
  <2>2. p[i].last > Layers
    BY <1>2, PipelineAssumption
  <2>3. n - i \in Beyond
    BY <2>1, <2>2
  <2> QED  BY <1>3, <2>3
<1>5. \A i \in 1..n : i # n => p[i].last # Layers
  <2> SUFFICES ASSUME NEW i \in 1..n, i # n PROVE p[i].last # Layers
    OBVIOUS
  <2>1. i + 1 \in 1..n /\ i + 1 # 1 /\ (i + 1) - 1 = i
    BY <1>1
  <2>2. p[i].last < p[i + 1].last /\ p[i + 1].last <= Layers
    BY <1>2, <1>4, <2>1
  <2> QED  BY <1>2, <2>1, <2>2, PipelineAssumption
<1>6. \A i \in 1..n : p[i].first = 0 => i = 1
  <2> SUFFICES ASSUME NEW i \in 1..n, i # 1 PROVE p[i].first > 0
    BY <1>2
  <2>1. i - 1 \in 1..n
    BY <1>1
  <2> QED  BY <1>2, <2>1
<1> QED  BY <1>1, <1>2, <1>4, <1>5, <1>6

(* The shards behind two stages are two, unless both are the one shard of  *)
(* a peer.                                                                 *)
LEMMA HostFacts ==
  ASSUME places \in [Runs -> Seq(Placement)], NEW r \in Runs, NEW i \in Stages(r)
  PROVE  /\ Len(places[r]) \in Nat
         /\ i \in Nat \ {0}
         /\ places[r][i] \in Placement
         /\ Host(r, i) \in Hosts
         /\ Remote(r, i) => Host(r, i) \in Followers /\ Host(r, i) = places[r][i].host
         /\ ~ Remote(r, i) => Host(r, i) = <<r, i>> /\ Host(r, i) \notin Followers
<1>1. /\ places[r] \in Seq(Placement)
      /\ Len(places[r]) \in Nat
      /\ i \in Nat \ {0}
      /\ places[r][i] \in Placement
  BY DEF Stages
<1>2. places[r][i].host \in Followers \cup {Here}
  BY <1>1 DEF Placement
<1>3. <<r, i>> \in Runs \X Nat
  BY <1>1
<1> QED  BY <1>1, <1>2, <1>3, PipelineAssumption DEF Host, Hosts, Remote

LEMMA HostsApart ==
  ASSUME places \in [Runs -> Seq(Placement)],
         NEW r \in Runs, NEW i \in Stages(r), NEW q \in Runs, NEW j \in Stages(q),
         Host(r, i) = Host(q, j)
  PROVE  (Remote(r, i) /\ Remote(q, j)) \/ (r = q /\ i = j)
<1>1. CASE Remote(r, i)
  BY <1>1, HostFacts
<1>2. CASE ~ Remote(r, i)
  <2>1. ~ Remote(q, j)
    BY <1>2, HostFacts
  <2>2. Host(r, i) = <<r, i>> /\ Host(q, j) = <<q, j>>
    BY <1>2, <2>1, HostFacts
  <2>3. <<r, i>> = <<q, j>>
    BY <2>2
  <2> QED  BY <2>3
<1> QED  BY <1>1, <1>2

(* The positions of a step, and that a cache of everything before them     *)
(* becomes the context of the step when its tokens are appended.           *)
LEMMA PosFacts ==
  ASSUME NEW r \in Runs, step[r] \in Nat
  PROVE  /\ Pos(r) \in Nat
         /\ Pos(r) = 0 <=> step[r] = 0
         /\ Len(Tokens(r)) = (IF step[r] = 0 THEN PromptLen ELSE 1)
         /\ Len(Tokens(r)) \in Nat
         /\ Tokens(r) \in Seq(Runs \X Nat)
         /\ Context(r) = Upto(r, Pos(r) + Len(Tokens(r)))
         /\ Pos(r) + Len(Tokens(r)) = PromptLen + step[r]
<1> DEFINE n == IF step[r] = 0 THEN PromptLen ELSE 1
<1>1. n \in Nat
  BY PipelineAssumption
<1>2. Pos(r) \in Nat /\ (Pos(r) = 0 <=> step[r] = 0)
  BY PipelineAssumption DEF Pos
<1>3. Tokens(r) \in [1..n -> Runs \X Nat]
  <2>1. \A j \in 1..n : <<r, Pos(r) + j - 1>> \in Runs \X Nat
    BY <1>1, <1>2
  <2> QED  BY <2>1 DEF Tokens
<1>4. Tokens(r) \in Seq(Runs \X Nat) /\ Len(Tokens(r)) = n
  BY <1>1, <1>3
<1>5. Context(r) = Upto(r, Pos(r) + Len(Tokens(r)))
  BY DEF Context, Upto
<1>6. Pos(r) + n = PromptLen + step[r]
  BY PipelineAssumption DEF Pos
<1> QED  BY <1>1, <1>2, <1>4, <1>5, <1>6

LEMMA UptoSeq ==
  ASSUME NEW r \in Runs, NEW n \in Nat
  PROVE  Upto(r, n) \in Seq(Runs \X Nat) /\ Len(Upto(r, n)) = n
<1>1. Upto(r, n) \in [1..n -> Runs \X Nat]
  BY DEF Upto
<1> QED  BY <1>1

LEMMA NothingYet ==
  ASSUME NEW r \in Runs
  PROVE  Upto(r, 0) = <<>>
<1>1. Upto(r, 0) \in Seq(Runs \X Nat) /\ Len(Upto(r, 0)) = 0
  BY UptoSeq
<1> QED  BY <1>1

LEMMA Appended ==
  ASSUME NEW r \in Runs, step[r] \in Nat
  PROVE  Upto(r, Pos(r)) \o Tokens(r) = Context(r)
<1> DEFINE n == IF step[r] = 0 THEN PromptLen ELSE 1
           u == Upto(r, Pos(r)) \o Tokens(r)
<1>1. Pos(r) \in Nat /\ n \in Nat /\ Len(Tokens(r)) = n /\ Tokens(r) \in Seq(Runs \X Nat)
  BY PosFacts, PipelineAssumption
<1>2. Upto(r, Pos(r)) \in Seq(Runs \X Nat) /\ Len(Upto(r, Pos(r))) = Pos(r)
  BY <1>1, UptoSeq
<1>3. /\ u \in Seq(Runs \X Nat)
      /\ Len(u) = Pos(r) + n
      /\ \A j \in 1..(Pos(r) + n) :
           u[j] = IF j <= Pos(r) THEN Upto(r, Pos(r))[j] ELSE Tokens(r)[j - Pos(r)]
  <2>1. /\ Len(u) = Len(Upto(r, Pos(r))) + Len(Tokens(r))
        /\ u \in Seq(Runs \X Nat)
        /\ \A j \in 1..(Len(Upto(r, Pos(r))) + Len(Tokens(r))) :
             u[j] = IF j <= Len(Upto(r, Pos(r))) THEN Upto(r, Pos(r))[j]
                    ELSE Tokens(r)[j - Len(Upto(r, Pos(r)))]
    BY <1>1, <1>2, ConcatProperties
  <2> QED  BY <1>1, <1>2, <2>1
<1>4. \A j \in 1..(Pos(r) + n) : u[j] = <<r, j - 1>>
  <2> SUFFICES ASSUME NEW j \in 1..(Pos(r) + n) PROVE u[j] = <<r, j - 1>>
    OBVIOUS
  <2>1. CASE j <= Pos(r)
    <3>1. j \in 1..Pos(r)
      BY <1>1, <2>1
    <3> QED  BY <1>3, <2>1, <3>1 DEF Upto
  <2>2. CASE ~ (j <= Pos(r))
    <3>1. j - Pos(r) \in 1..n /\ Pos(r) + (j - Pos(r)) - 1 = j - 1
      BY <1>1, <2>2
    <3>2. Tokens(r)[j - Pos(r)] = <<r, Pos(r) + (j - Pos(r)) - 1>>
      BY <3>1 DEF Tokens
    <3> QED  BY <1>3, <2>2, <3>1, <3>2
  <2> QED  BY <2>1, <2>2
<1>5. Context(r) \in Seq(Runs \X Nat) /\ Len(Context(r)) = Pos(r) + n
      /\ \A j \in 1..(Pos(r) + n) : Context(r)[j] = <<r, j - 1>>
  <2>1. Context(r) = Upto(r, Pos(r) + n) /\ Pos(r) + n \in Nat
    <3>1. Context(r) = Upto(r, Pos(r) + Len(Tokens(r)))
      BY PosFacts
    <3>2. Len(Tokens(r)) = n /\ Pos(r) + n \in Nat
      BY <1>1
    <3> HIDE DEF n
    <3> QED  BY <3>1, <3>2
  <2> QED  BY <2>1, UptoSeq DEF Upto
<1>6. \A j \in 1..Len(u) : u[j] = Context(r)[j]
  BY <1>3, <1>4, <1>5
<1> HIDE DEF u
<1> QED  BY <1>1, <1>3, <1>5, <1>6, SeqEqual DEF u

(* The shard's step keeps a shard a shard; one that was served has the     *)
(* session active, and one that was not is as before.                      *)
LEMMA ForwardType ==
  ASSUME NEW r \in Runs, step[r] \in 0..(MaxNew + 1), NEW sh \in Shard
  PROVE  /\ forward(sh, r) \in Shard
         /\ forward(sh, r).active = sh.active
         /\ Activated(sh, r) \in Shard
         /\ Serves(sh, r) => Activated(sh, r).active
<1> DEFINE Kv == Seq(Runs \X (0..(PromptLen + MaxNew)))
           n == IF step[r] = 0 THEN PromptLen ELSE 1
<1>1. n \in Nat /\ step[r] \in Nat
  BY PipelineAssumption
<1>2. Tokens(r) \in Kv
  <2>1. \A j \in 1..n : Pos(r) + j - 1 \in 0..(PromptLen + MaxNew)
    BY PipelineAssumption DEF Pos
  <2>2. Tokens(r) \in [1..n -> Runs \X (0..(PromptLen + MaxNew))]
    BY <2>1 DEF Tokens
  <2> QED  BY <1>1, <2>2
<1>3. sh.kv \in Kv /\ <<>> \in Kv
  BY DEF Shard
<1>4. ((IF Pos(r) = 0 THEN <<>> ELSE sh.kv) \o Tokens(r)) \in Kv
  BY <1>2, <1>3
<1> HIDE DEF Kv
<1>5. forward(sh, r) \in Shard /\ forward(sh, r).active = sh.active
  BY <1>4 DEF forward, Shard, Kv
<1>6. Activated(sh, r) \in Shard
  BY <1>3 DEF Activated, Shard, Kv
<1>7. Serves(sh, r) => Activated(sh, r).active
  <2> SUFFICES ASSUME Serves(sh, r) PROVE Activated(sh, r).active
    OBVIOUS
  <2>1. CASE step[r] = 0
    BY <2>1, PosFacts, <1>1 DEF Activated, Shard
  <2>2. CASE step[r] # 0
    BY <2>2 DEF Activated, Serves
  <2> QED  BY <2>1, <2>2
<1> QED  BY <1>5, <1>6, <1>7

LEMMA StepType ==
  ASSUME TypeInv, NEW r \in Runs, NEW h \in Hosts
  PROVE  /\ Stepped(h, r) \in Shard \cup {NoShard}
         /\ ~ Serves(shard[h], r) => Stepped(h, r) = shard[h]
         /\ Serves(shard[h], r) => Stepped(h, r) \in Shard /\ Stepped(h, r).active
         /\ StepSucceeds(h, r) => Output(Activated(shard[h], r), r) \in Payload
<1>1. shard[h] \in Shard \cup {NoShard} /\ step[r] \in 0..(MaxNew + 1)
  BY PipelineAssumption DEF TypeInv, Shape, Progress
<1>2. CASE Serves(shard[h], r)
  <2>1. shard[h] \in Shard
    BY <1>1, <1>2 DEF Serves
  <2> DEFINE sh == Activated(shard[h], r)
  <2>2. sh \in Shard /\ sh.active
    BY <1>1, <1>2, <2>1, ForwardType
  <2>3. forward(sh, r) \in Shard /\ forward(sh, r).active
    BY <1>1, <2>2, ForwardType
  <2>4. sh.last \in 0..Layers
    BY <2>2 DEF Shard
  <2>5. Output(sh, r) \in Payload
    <3> HIDE DEF sh
    <3>1. (/\ payload[r].sound /\ payload[r].next = sh.first /\ forward(sh, r).kv = Context(r)) \in BOOLEAN
      OBVIOUS
    <3> QED  BY <2>4, <3>1 DEF Output, Payload
  <2> QED  BY <1>2, <2>2, <2>3, <2>5 DEF Stepped
<1>3. CASE ~ Serves(shard[h], r)
  BY <1>1, <1>3 DEF Stepped, StepSucceeds
<1> QED  BY <1>2, <1>3

(* A step of a run whose shard and payload are what they should be         *)
(* succeeds, and leaves both so.                                           *)
LEMMA HeldStep ==
  ASSUME TypeInv, NEW r \in Runs, check_tiling(places[r]), phase[r] = "running",
         stage[r] \in Stages(r), Held(r, stage[r]), Carries(payload[r], r, stage[r]),
         NEW h, h = Host(r, stage[r])
  PROVE  /\ StepSucceeds(h, r)
         /\ Holds(Stepped(h, r), places[r][stage[r]], TRUE, Context(r))
         /\ Carries(Output(Activated(shard[h], r), r), r, stage[r] + 1)
<1> DEFINE i == stage[r]
           place == places[r][i]
           kv == Upto(r, Pos(r))
           sh == Activated(shard[h], r)
<1>1. /\ places[r] \in Seq(Placement)
      /\ i \in 1..Len(places[r]) /\ i \in Nat /\ Len(places[r]) \in Nat
      /\ step[r] \in Nat /\ step[r] \in 0..(MaxNew + 1)
  BY PipelineAssumption DEF TypeInv, Shape, Progress, Stages
<1>2. /\ place.last = Layers <=> i = Len(places[r])
      /\ place.first = 0 <=> i = 1
      /\ i > 1 => place.first = places[r][i - 1].last
  BY <1>1, TilingFacts
<1>3. /\ shard[h] \in Shard
      /\ shard[h].first = place.first /\ shard[h].last = place.last
      /\ shard[h].active <=> step[r] > 0
      /\ shard[h].kv = kv
  <2>1. ~ Past(r, i)
    BY <1>1 DEF Past
  <2> QED  BY <2>1 DEF Held, Holds
<1>4. shard[h] # NoShard /\ Serves(shard[h], r)
  BY <1>1, <1>3, NoShardAssumption DEF Serves
<1>5. /\ sh \in Shard /\ sh.active
      /\ sh.first = place.first /\ sh.last = place.last
      /\ sh.kv = kv
  <2>1. sh \in Shard /\ sh.active
    BY <1>1, <1>3, <1>4, ForwardType
  <2>2. CASE sh = shard[h]
    BY <1>3, <2>1, <2>2
  <2>3. CASE sh # shard[h]
    <3>1. step[r] = 0 /\ sh = [shard[h] EXCEPT !.active = TRUE, !.kv = <<>>]
      BY <2>3 DEF Activated
    <3>2. kv = <<>>
      BY <3>1, PosFacts, NothingYet
    <3>3. sh.kv = <<>> /\ sh.first = shard[h].first /\ sh.last = shard[h].last
      BY <1>3, <3>1 DEF Shard
    <3> QED  BY <1>3, <2>1, <3>2, <3>3
  <2> QED  BY <2>2, <2>3
<1>6. Holds(forward(sh, r), place, TRUE, Context(r))
  <2>1. (IF Pos(r) = 0 THEN <<>> ELSE kv) \o Tokens(r) = Context(r)
    <3>1. Pos(r) = 0 => kv = <<>>
      BY NothingYet
    <3> QED  BY <1>1, <3>1, Appended
  <2>2. forward(sh, r) = [sh EXCEPT !.kv = Context(r)]
    BY <1>5, <2>1 DEF forward
  <2>3. forward(sh, r) \in Shard
    BY <1>1, <1>5, ForwardType
  <2> HIDE DEF sh, kv, place
  <2>4. /\ forward(sh, r).kv = Context(r)
        /\ forward(sh, r).first = sh.first /\ forward(sh, r).last = sh.last
        /\ forward(sh, r).active = sh.active
    BY <1>5, <2>2 DEF Shard
  <2> QED  BY <1>5, <2>3, <2>4 DEF Holds
<1>7. payload[r].kind = (IF i = 1 THEN "tokens" ELSE "hidden") /\ payload[r].sound
      /\ payload[r].next = (IF i = 1 THEN 0 ELSE places[r][i - 1].last)
  BY DEF Carries
<1>8. StepSucceeds(h, r)
  BY <1>2, <1>3, <1>4, <1>7 DEF StepSucceeds, Takes
<1>9. payload[r].next = place.first
  BY <1>1, <1>2, <1>7
<1>10. Carries(Output(sh, r), r, i + 1)
  <2>1. forward(sh, r).kv = Context(r)
    BY <1>6 DEF Holds
  <2> HIDE DEF place, sh
  <2>2. /\ Output(sh, r).kind = (IF i = Len(places[r]) THEN "logits" ELSE "hidden")
        /\ Output(sh, r).next = place.last
        /\ Output(sh, r).sound
    BY <1>2, <1>5, <1>7, <1>9, <2>1 DEF Output
  <2>3. i + 1 # 1 /\ (i + 1) - 1 = i /\ (i + 1 \in Stages(r) <=> i # Len(places[r]))
    BY <1>1 DEF Stages
  <2> QED  BY <2>2, <2>3 DEF Carries, place
<1> QED  BY <1>6, <1>8, <1>10 DEF Stepped
-----------------------------------------------------------------------------
(* Types.                                                                  *)

LEMMA TypeInvIsTypeOK == TypeInv => TypeOK
<1> SUFFICES ASSUME TypeInv PROVE TypeOK
  OBVIOUS
<1>1. phase \in [Runs -> Phases] /\ good \in [Runs -> BOOLEAN] /\ cut \subseteq Runs \X Followers
      /\ disturbed \in [Runs -> BOOLEAN]
  BY DEF TypeInv, Shape
<1>2. step \in [Runs -> 0..(MaxNew + 1)]
  <2>1. \A r \in Runs : step[r] \in 0..(MaxNew + 1)
    BY PipelineAssumption DEF TypeInv, Shape, Progress
  <2> QED  BY <2>1 DEF TypeInv, Shape
<1>3. ASSUME NEW r \in Runs
      PROVE  /\ places[r] \in Plans[r]
             /\ stage[r] \in 0..(Len(places[r]) + 1)
             /\ stream[r] \in [Stages(r) -> {"none", "open", "closing", "ended"}]
             /\ sent[r] \in {"none", "load", "step"}
             /\ sent[r] # "none" => stage[r] \in Stages(r) /\ ~ IsLocal(r)
             /\ payload[r].kind \in {"none", "tokens", "hidden", "logits"}
             /\ payload[r].next \in 0..Layers
             /\ payload[r].sound \in BOOLEAN
  <2>1. payload[r] \in Payload
    BY DEF TypeInv, Shape
  <2>2. places[r] \in Seq(Placement) /\ stage[r] \in Nat
    BY DEF TypeInv, Shape
  <2>3. stage[r] \in 0..(Len(places[r]) + 1)
    BY <2>2 DEF TypeInv, Progress
  <2> QED  BY <2>1, <2>3 DEF TypeInv, Shape, Progress, Payload, Streams
<1>4. \A h \in DOMAIN shard : shard[h] \in Shard \cup {NoShard}
  BY DEF TypeInv, Shape
<1> QED  BY <1>1, <1>2, <1>3, <1>4 DEF TypeOK

(* The shard of the current stage.                                         *)
LEMMA CurrentHost ==
  ASSUME TypeInv, NEW q \in Runs, stage[q] \in Stages(q)
  PROVE  /\ Host(q, stage[q]) \in Hosts
         /\ check_tiling(places[q]) => Opened(places[q][stage[q]]) \in Shard
         /\ Stepped(Host(q, stage[q]), q) \in Shard \cup {NoShard}
         /\ StepSucceeds(Host(q, stage[q]), q) =>
              Output(Activated(shard[Host(q, stage[q])], q), q) \in Payload
<1>1. places \in [Runs -> Seq(Placement)] /\ Host(q, stage[q]) \in Hosts
  BY HostFacts DEF TypeInv, Shape
<1>2. ASSUME check_tiling(places[q]) PROVE Opened(places[q][stage[q]]) \in Shard
  <2>1. /\ places[q][stage[q]].first \in Nat /\ places[q][stage[q]].last \in Nat
        /\ places[q][stage[q]].first < places[q][stage[q]].last
        /\ places[q][stage[q]].last <= Layers
    BY <1>1, <1>2, TilingFacts DEF Stages, Placement
  <2>2. /\ places[q][stage[q]].first \in 0..Layers /\ places[q][stage[q]].last \in 0..Layers
    BY <2>1, PipelineAssumption
  <2> QED  BY <2>2 DEF Opened, Shard
<1> QED  BY <1>1, <1>2, StepType

LEMMA DroppedType ==
  ASSUME NEW sh \in Shard \cup {NoShard}
  PROVE  /\ Dropped(sh) \in Shard \cup {NoShard}
         /\ Dropped(sh) # NoShard => ~ Dropped(sh).active /\ Dropped(sh).kv = <<>>
<1>1. CASE sh = NoShard
  BY <1>1 DEF Dropped
<1>2. CASE sh \in Shard
  <2>1. Dropped(sh) = sh \/ Dropped(sh) = [sh EXCEPT !.active = FALSE, !.kv = <<>>]
    BY DEF Dropped
  <2>2. <<>> \in Seq(Runs \X (0..(PromptLen + MaxNew)))
    OBVIOUS
  <2>3. /\ [sh EXCEPT !.active = FALSE, !.kv = <<>>] \in Shard
        /\ [sh EXCEPT !.active = FALSE, !.kv = <<>>].active = FALSE
        /\ [sh EXCEPT !.active = FALSE, !.kv = <<>>].kv = <<>>
    BY <1>2, <2>2 DEF Shard
  <2> QED  BY <1>2, <2>3, NoShardAssumption DEF Dropped
<1> QED  BY <1>1, <1>2

(* Leaving the loop closes what is open, and changes nothing else.         *)
LEMMA LeaveFacts ==
  ASSUME TypeInv, NEW q \in Runs, NEW how \in Phases, Leave(q, how)
  PROVE  /\ phase' \in [Runs -> Phases]
         /\ \A r \in Runs : phase'[r] = IF r = q THEN how ELSE phase[r]
         /\ DOMAIN stream' = Runs
         /\ \A r \in Runs : r # q => stream'[r] = stream[r]
         /\ stream'[q] \in [Stages(q) -> Streams]
         /\ \A i \in Stages(q) :
              stream'[q][i] = IF stream[q][i] = "open" THEN "closing" ELSE stream[q][i]
<1> DEFINE left == [i \in Stages(q) |-> IF stream[q][i] = "open" THEN "closing" ELSE stream[q][i]]
<1>1. phase' = [phase EXCEPT ![q] = how] /\ stream' = [stream EXCEPT ![q] = left]
  BY DEF Leave
<1>2. left \in [Stages(q) -> Streams]
  BY DEF TypeInv, Progress, Streams
<1> HIDE DEF left
<1>3. DOMAIN stream' = Runs /\ stream'[q] = left /\ \A r \in Runs : r # q => stream'[r] = stream[r]
  BY <1>1 DEF TypeInv, Shape
<1>4. phase' \in [Runs -> Phases] /\ \A r \in Runs : phase'[r] = IF r = q THEN how ELSE phase[r]
  BY <1>1 DEF TypeInv, Shape
<1> QED  BY <1>2, <1>3, <1>4 DEF left

LEMMA ShapePreserved ==
  ASSUME TypeInv, [Next]_vars
  PROVE  Shape' /\ places' = places
<1> USE DEF TypeInv, Shape
<1>0. \A how \in {"done", "declined", "refused", "lost"} : how \in Phases
  BY DEF Phases
<1>1. ASSUME NEW q \in Runs, Begin(q) PROVE Shape' /\ places' = places
  BY <1>1 DEF Begin, Phases, Hosts, Stages
<1>2. ASSUME NEW q \in Runs, OpenHere(q) PROVE Shape' /\ places' = places
  <2>1. Opened(places[q][stage[q]]) \in Shard /\ Host(q, stage[q]) \in Hosts
    BY <1>2, CurrentHost DEF OpenHere, Progress
  <2> QED  BY <1>2, <2>1 DEF OpenHere, Advance, Hosts, Stages
<1>3. ASSUME NEW q \in Runs, SendLoad(q) PROVE Shape' /\ places' = places
  BY <1>3 DEF SendLoad, runVars, Hosts, Stages
<1>4. ASSUME NEW q \in Runs, StartRun(q) PROVE Shape' /\ places' = places
  BY <1>4, PipelineAssumption DEF StartRun, Phases, Input, Payload, Hosts, Stages
<1>5. ASSUME NEW q \in Runs, RunHere(q) PROVE Shape' /\ places' = places
  <2> DEFINE h == Host(q, stage[q])
  <2>1. /\ h \in Hosts /\ Stepped(h, q) \in Shard \cup {NoShard}
        /\ StepSucceeds(h, q) => Output(Activated(shard[h], q), q) \in Payload
    BY <1>5, CurrentHost DEF RunHere
  <2> HIDE DEF h
  <2>2. shard' = [shard EXCEPT ![h] = Stepped(h, q)]
        /\ UNCHANGED <<places, step, good, sent, disturbed, cut>>
    BY <1>5 DEF RunHere, h
  <2>3. CASE /\ StepSucceeds(h, q)
             /\ payload' = [payload EXCEPT ![q] = Output(Activated(shard[h], q), q)]
             /\ Advance(q)
             /\ UNCHANGED <<phase, stream>>
    BY <2>1, <2>2, <2>3 DEF Advance, Hosts, Stages
  <2>4. CASE Leave(q, "refused") /\ UNCHANGED <<payload, stage>>
    BY <1>0, <2>1, <2>2, <2>4, LeaveFacts DEF Hosts, Stages
  <2> QED  BY <1>5, <2>3, <2>4 DEF RunHere, h
<1>6. ASSUME NEW q \in Runs, SendStep(q) PROVE Shape' /\ places' = places
  BY <1>6 DEF SendStep, runVars, Hosts, Stages
<1>7. ASSUME NEW q \in Runs, Sample(q) PROVE Shape' /\ places' = places
  <2>0. UNCHANGED <<places, sent, shard, disturbed, cut>>
    BY <1>7 DEF Sample
  <2>1. good' \in [Runs -> BOOLEAN]
    <3> DEFINE g == good[q] /\ payload[q].sound /\ payload[q].next = Layers
    <3>1. g \in BOOLEAN
      OBVIOUS
    <3>2. good' = good \/ good' = [good EXCEPT ![q] = g]
      BY <1>7 DEF Sample
    <3> HIDE DEF g
    <3> QED  BY <3>1, <3>2
  <2>5. step' \in [Runs -> Nat]
    <3> DEFINE n == step[q] + 1
    <3>1. n \in Nat
      OBVIOUS
    <3>2. step' = step \/ step' = [step EXCEPT ![q] = n]
      BY <1>7 DEF Sample
    <3> HIDE DEF n
    <3> QED  BY <3>1, <3>2
  <2>2. Input \in Payload
    BY PipelineAssumption DEF Input, Payload
  <2>3. CASE /\ stage' = [stage EXCEPT ![q] = 1]
             /\ payload' = [payload EXCEPT ![q] = Input]
             /\ UNCHANGED <<phase, stream>>
    <3>1. stage' \in [Runs -> Nat] /\ payload' \in [Runs -> Payload]
      BY <2>2, <2>3
    <3>2. Hosts' = Hosts
      BY <2>0 DEF Hosts, Stages
    <3> QED  BY <2>0, <2>1, <2>3, <2>5, <3>1, <3>2
  <2>4. CASE (Leave(q, "done") \/ Leave(q, "refused")) /\ UNCHANGED <<stage, payload>>
    BY <1>0, <2>0, <2>1, <2>4, <2>5, LeaveFacts DEF Hosts, Stages
  <2> QED  BY <1>7, <2>3, <2>4 DEF Sample
<1>8. ASSUME NEW q \in Runs, ConnectionLost(q) \/ Fails(q) PROVE Shape' /\ places' = places
  <2>1. Leave(q, "lost") /\ UNCHANGED <<places, stage, step, payload, good, sent, shard, disturbed, cut>>
    BY <1>8 DEF ConnectionLost, Fails
  <2> QED  BY <1>0, <2>1, LeaveFacts DEF Hosts, Stages
<1>9. ASSUME NEW q \in Runs, ExecLoad(q) PROVE Shape' /\ places' = places
  <2> DEFINE h == Host(q, stage[q])
  <2>1. Opened(places[q][stage[q]]) \in Shard /\ h \in Hosts /\ stage[q] \in Stages(q)
    BY <1>9, CurrentHost DEF ExecLoad, Progress
  <2>2. /\ shard' = [shard EXCEPT ![h] = Opened(places[q][stage[q]])]
        /\ sent' = [sent EXCEPT ![q] = "none"]
        /\ UNCHANGED <<places, phase, step, payload, good, cut>>
    BY <1>9 DEF ExecLoad
  <2>3. disturbed' \in [Runs -> BOOLEAN]
    BY <1>9 DEF ExecLoad, Disturb
  <2>4. DOMAIN stream' = Runs /\ stage' \in [Runs -> Nat]
    <3>1. CASE stream' = [stream EXCEPT ![q][stage[q]] = "open"] /\ Advance(q)
      BY <3>1 DEF Advance
    <3>2. CASE UNCHANGED <<stream, stage>>
      BY <3>2
    <3> QED  BY <1>9, <3>1, <3>2 DEF ExecLoad
  <2> HIDE DEF h
  <2>5. DOMAIN shard' = Hosts /\ \A x \in Hosts : shard'[x] \in Shard \cup {NoShard}
    BY <2>1, <2>2
  <2>6. Hosts' = Hosts
    BY <2>2 DEF Hosts, Stages
  <2> QED  BY <2>2, <2>3, <2>4, <2>5, <2>6
<1>10. ASSUME NEW q \in Runs, RefuseLoad(q) PROVE Shape' /\ places' = places
  <2>1. /\ sent' = [sent EXCEPT ![q] = "none"]
        /\ UNCHANGED <<places, stage, step, payload, good, shard, disturbed, cut>>
        /\ Leave(q, "declined") \/ UNCHANGED <<phase, stream>>
    BY <1>10 DEF RefuseLoad
  <2> QED  BY <1>0, <2>1, LeaveFacts DEF Hosts, Stages
<1>11. ASSUME NEW q \in Runs, ExecStep(q) PROVE Shape' /\ places' = places
  <2> DEFINE h == Host(q, stage[q])
  <2>1. /\ h \in Hosts /\ Stepped(h, q) \in Shard \cup {NoShard}
        /\ StepSucceeds(h, q) => Output(Activated(shard[h], q), q) \in Payload
    BY <1>11, CurrentHost DEF ExecStep, Progress
  <2>2. disturbed' \in [Runs -> BOOLEAN]
    BY <1>11 DEF ExecStep, Disturb
  <2>3. /\ shard' = [shard EXCEPT ![h] = Stepped(h, q)]
        /\ sent' = [sent EXCEPT ![q] = "none"]
        /\ UNCHANGED <<places, step, good, cut>>
    BY <1>11 DEF ExecStep
  <2> HIDE DEF h
  <2>4. CASE /\ StepSucceeds(h, q)
             /\ payload' = [payload EXCEPT ![q] = Output(Activated(shard[h], q), q)]
             /\ Advance(q)
             /\ UNCHANGED <<phase, stream>>
    BY <2>1, <2>2, <2>3, <2>4 DEF Advance, Hosts, Stages
  <2>5. CASE Leave(q, "refused") /\ UNCHANGED <<payload, stage>>
    BY <1>0, <2>1, <2>2, <2>3, <2>5, LeaveFacts DEF Hosts, Stages
  <2>6. CASE UNCHANGED <<payload, stage, phase, stream>>
    BY <2>1, <2>2, <2>3, <2>6 DEF Hosts, Stages
  <2> QED  BY <1>11, <2>4, <2>5, <2>6 DEF ExecStep, h
<1>12. ASSUME NEW q \in Runs, LoseRequest(q) PROVE Shape' /\ places' = places
  BY <1>12 DEF LoseRequest, runVars, Hosts, Stages
<1>13. ASSUME NEW q \in Runs, NEW i \in Stages(q), EndStream(q, i) PROVE Shape' /\ places' = places
  <2>1. Host(q, i) \in Hosts
    BY HostFacts
  <2>2. Dropped(shard[Host(q, i)]) \in Shard \cup {NoShard}
    BY <2>1, DroppedType
  <2> QED  BY <1>13, <2>1, <2>2 DEF EndStream, Disturb, runVars, Hosts, Stages
<1>14. ASSUME NEW q \in Runs, NEW f \in Followers, Disconnect(q, f) PROVE Shape' /\ places' = places
  BY <1>14 DEF Disconnect, runVars, Hosts, Stages
<1>15. ASSUME NEW f \in Followers, Restart(f) PROVE Shape' /\ places' = places
  BY <1>15 DEF Restart, runVars, Hosts, Stages
<1>16. CASE UNCHANGED vars
  BY <1>16 DEF vars, Hosts, Stages
<1> QED
  BY <1>1, <1>2, <1>3, <1>4, <1>5, <1>6, <1>7, <1>8, <1>9, <1>10, <1>11, <1>12, <1>13, <1>14,
     <1>15, <1>16 DEF Next, Master, Serve
-----------------------------------------------------------------------------
(* What is another run's business.                                         *)

(* The step leaves r where it is, and its shards what they are, unless it  *)
(* reaches the shard behind an open stream of r and so disturbs r.         *)
Apart(r) ==
  \A i \in Stages(r) :
    \/ shard'[Host(r, i)] = shard[Host(r, i)]
    \/ Remote(r, i) /\ (stream[r][i] = "open" => disturbed'[r])
SameRun(r) ==
  /\ phase'[r] = phase[r] /\ stage'[r] = stage[r] /\ step'[r] = step[r]
  /\ payload'[r] = payload[r] /\ good'[r] = good[r]
  /\ disturbed[r] => disturbed'[r]
Elsewhere(r) ==
  /\ SameRun(r) /\ Apart(r)
  /\ sent'[r] = sent[r] /\ stream'[r] = stream[r]
  /\ \A f \in Followers : <<r, f>> \in cut' <=> <<r, f>> \in cut

(* The operators of a run that does not move mean what they meant.         *)
LEMMA SameStep ==
  ASSUME places' = places, NEW r \in Runs
  PROVE  /\ Stages(r)' = Stages(r)
         /\ \A i : Host(r, i)' = Host(r, i) /\ Remote(r, i)' = Remote(r, i)
         /\ OnePlaceEach(places[r])' = OnePlaceEach(places[r])
         /\ check_tiling(places[r])' = check_tiling(places[r])
         /\ stage'[r] = stage[r] => IsLocal(r)' = IsLocal(r)
         /\ step'[r] = step[r] => Pos(r)' = Pos(r) /\ Context(r)' = Context(r)
<1>1. step'[r] = step[r] => Pos(r)' = Pos(r) /\ Tokens(r)' = Tokens(r)
  BY DEF Pos, Tokens
<1>2. step'[r] = step[r] => Context(r)' = Context(r)
  BY <1>1 DEF Context
<1> QED  BY <1>1, <1>2 DEF Stages, Host, Remote, IsLocal, OnePlaceEach, check_tiling

(* A run that does not move stays sound if the stages it can still reach   *)
(* are left alone.                                                         *)
LEMMA Unharmed ==
  ASSUME TypeInv, places' = places, NEW r \in Runs, SameRun(r), StreamsOpen(r), RunSound(r),
         \A i \in Stages(r) : Reached(r, i) /\ <<r, Host(r, i)>> \notin cut' =>
           /\ <<r, Host(r, i)>> \notin cut
           /\ Remote(r, i) => stream'[r][i] = stream[r][i]
           /\ shard'[Host(r, i)] = shard[Host(r, i)] \/ ~ Undisturbed(r)'
  PROVE  StreamsOpen(r)' /\ RunSound(r)'
<1> USE DEF SameRun
<1>1. /\ Stages(r)' = Stages(r)
      /\ \A i : Host(r, i)' = Host(r, i) /\ Remote(r, i)' = Remote(r, i)
      /\ OnePlaceEach(places[r])' = OnePlaceEach(places[r])
      /\ Pos(r)' = Pos(r) /\ Context(r)' = Context(r)
  BY SameStep
<1>2. \A i \in Stages(r) : Reached(r, i)' = Reached(r, i) /\ Past(r, i)' = Past(r, i)
  BY DEF Reached, Past
<1>3. StreamsOpen(r)'
  BY <1>1, <1>2 DEF StreamsOpen
<1>4. ASSUME Undisturbed(r)'
      PROVE  /\ ShardsHeld(r)'
             /\ phase'[r] = "running" => Carries(payload[r], r, stage[r])'
             /\ good'[r]
             /\ phase'[r] # "refused"
  <2>1. Undisturbed(r)
    BY <1>1, <1>4 DEF Undisturbed
  <2>2. ASSUME NEW i \in Stages(r), Reached(r, i), <<r, Host(r, i)>> \notin cut'
        PROVE  Held(r, i)'
    <3>1. Held(r, i)
      BY <2>1, <2>2 DEF RunSound, ShardsHeld
    <3>2. shard'[Host(r, i)] = shard[Host(r, i)]
      BY <1>4, <2>2
    <3> QED  BY <1>1, <1>2, <3>1, <3>2 DEF Held, Holds
  <2>3. ShardsHeld(r)'
    BY <1>1, <1>2, <2>2 DEF ShardsHeld
  <2>4. Carries(payload[r], r, stage[r]) => Carries(payload[r], r, stage[r])'
    BY <1>1 DEF Carries
  <2> QED  BY <2>1, <2>3, <2>4 DEF RunSound
<1> QED  BY <1>3, <1>4 DEF RunSound

LEMMA ElsewhereKeeps ==
  ASSUME TypeInv, places' = places, NEW r \in Runs, Elsewhere(r), StreamsOpen(r), RunSound(r)
  PROVE  Progress(r)' /\ StreamsOpen(r)' /\ RunSound(r)'
<1> USE DEF Elsewhere, SameRun
<1>1. /\ Stages(r)' = Stages(r)
      /\ check_tiling(places[r])' = check_tiling(places[r])
      /\ IsLocal(r)' = IsLocal(r)
  BY SameStep
<1>2. Progress(r)'
  BY <1>1 DEF TypeInv, Progress, Alive
<1>3. ASSUME NEW i \in Stages(r), Reached(r, i), <<r, Host(r, i)>> \notin cut'
      PROVE  /\ <<r, Host(r, i)>> \notin cut
             /\ shard'[Host(r, i)] = shard[Host(r, i)] \/ ~ Undisturbed(r)'
  <2>1. <<r, Host(r, i)>> \notin cut
    BY <1>3 DEF TypeInv, Shape
  <2>2. CASE Remote(r, i) /\ (stream[r][i] = "open" => disturbed'[r])
    BY <1>3, <2>1, <2>2 DEF StreamsOpen, Undisturbed
  <2> QED  BY <2>1, <2>2 DEF Apart
<1>4. StreamsOpen(r)' /\ RunSound(r)'
  BY <1>3, Unharmed
<1> QED  BY <1>2, <1>4

(* A job of run q on the shard of a stage of its own.                      *)
LEMMA JobElsewhere ==
  ASSUME TypeInv, NEW q \in Runs, NEW j \in Stages(q), NEW r \in Runs, r # q,
         NEW sh, shard' = [shard EXCEPT ![Host(q, j)] = sh],
         Remote(q, j) => Disturb(Host(q, j), q)
  PROVE  Apart(r)
<1> SUFFICES ASSUME NEW i \in Stages(r)
             PROVE  \/ shard'[Host(r, i)] = shard[Host(r, i)]
                    \/ Remote(r, i) /\ (stream[r][i] = "open" => disturbed'[r])
  BY DEF Apart
<1>1. Host(r, i) \in Hosts /\ DOMAIN shard = Hosts
  BY HostFacts DEF TypeInv, Shape
<1>2. CASE Host(r, i) # Host(q, j)
  BY <1>1, <1>2
<1>3. CASE Host(r, i) = Host(q, j)
  <2>1. Remote(r, i) /\ Remote(q, j)
    BY <1>3, HostsApart DEF TypeInv, Shape
  <2> QED  BY <1>3, <2>1 DEF Disturb
<1> QED  BY <1>2, <1>3

(* Whatever q does - its own steps, and its followers' on its behalf - is  *)
(* elsewhere for every other run.                                          *)
OfRun(q) ==
  \/ Master(q) \/ Fails(q) \/ Serve(q)
  \/ \E i \in Stages(q) : EndStream(q, i)
  \/ \E f \in Followers : Disconnect(q, f)

LEMMA OthersStay ==
  ASSUME TypeInv, NEW q \in Runs, OfRun(q), NEW r \in Runs, r # q
  PROVE  Elsewhere(r)
<1> USE DEF TypeInv, Shape
<1>0. ASSUME UNCHANGED shard PROVE Apart(r)
  BY <1>0 DEF Apart
<1>1. CASE Begin(q)
  BY <1>0, <1>1 DEF Begin, Elsewhere, SameRun
<1>2. CASE OpenHere(q)
  <2>1. Apart(r)
    BY <1>2, JobElsewhere DEF OpenHere, IsLocal, Remote
  <2> QED  BY <1>2, <2>1 DEF OpenHere, Advance, Elsewhere, SameRun
<1>3. CASE SendLoad(q)
  BY <1>0, <1>3 DEF SendLoad, runVars, Elsewhere, SameRun
<1>4. CASE StartRun(q)
  BY <1>0, <1>4 DEF StartRun, Elsewhere, SameRun
<1>5. CASE RunHere(q)
  <2>1. Apart(r)
    BY <1>5, JobElsewhere DEF RunHere, IsLocal, Remote
  <2> QED  BY <1>5, <2>1 DEF RunHere, Advance, Leave, Elsewhere, SameRun
<1>6. CASE SendStep(q)
  BY <1>0, <1>6 DEF SendStep, runVars, Elsewhere, SameRun
<1>7. CASE Sample(q)
  BY <1>0, <1>7 DEF Sample, Leave, Elsewhere, SameRun
<1>8. CASE ConnectionLost(q) \/ Fails(q)
  BY <1>0, <1>8 DEF ConnectionLost, Fails, Leave, Elsewhere, SameRun
<1>9. CASE ExecLoad(q)
  <2>1. stage[q] \in Stages(q)
    BY <1>9 DEF ExecLoad, Progress
  <2>2. Apart(r)
    BY <1>9, <2>1, JobElsewhere DEF ExecLoad
  <2>3. stream'[r] = stream[r] /\ stage'[r] = stage[r] /\ (disturbed[r] => disturbed'[r])
    BY <1>9 DEF ExecLoad, Advance, Disturb
  <2> QED  BY <1>9, <2>2, <2>3 DEF ExecLoad, Elsewhere, SameRun
<1>10. CASE RefuseLoad(q)
  BY <1>0, <1>10 DEF RefuseLoad, Leave, Elsewhere, SameRun
<1>11. CASE ExecStep(q)
  <2>1. stage[q] \in Stages(q)
    BY <1>11 DEF ExecStep, Progress
  <2>2. Apart(r)
    BY <1>11, <2>1, JobElsewhere DEF ExecStep
  <2>3. disturbed[r] => disturbed'[r]
    BY <1>11 DEF ExecStep, Disturb
  <2> QED  BY <1>11, <2>2, <2>3 DEF ExecStep, Advance, Leave, Elsewhere, SameRun
<1>12. CASE LoseRequest(q)
  BY <1>0, <1>12 DEF LoseRequest, runVars, Elsewhere, SameRun
<1>13. ASSUME NEW i \in Stages(q), EndStream(q, i) PROVE Elsewhere(r)
  <2>1. Apart(r)
    BY <1>13, JobElsewhere DEF EndStream
  <2> QED  BY <1>13, <2>1 DEF EndStream, Disturb, runVars, Elsewhere, SameRun
<1>14. ASSUME NEW f \in Followers, Disconnect(q, f) PROVE Elsewhere(r)
  BY <1>0, <1>14 DEF Disconnect, runVars, Elsewhere, SameRun
<1> QED
  BY <1>1, <1>2, <1>3, <1>4, <1>5, <1>6, <1>7, <1>8, <1>9, <1>10, <1>11, <1>12, <1>13, <1>14
     DEF OfRun, Master, Serve
-----------------------------------------------------------------------------
(* A run's own steps.                                                      *)

(* What a job leaves behind the run's stages.                              *)
LEMMA OwnShards ==
  ASSUME TypeInv, NEW r \in Runs, NEW j \in Stages(r), OnePlaceEach(places[r]),
         NEW sh, shard' = [shard EXCEPT ![Host(r, j)] = sh]
  PROVE  /\ shard'[Host(r, j)] = sh
         /\ \A i \in Stages(r) : i # j => shard'[Host(r, i)] = shard[Host(r, i)]
<1>1. shard'[Host(r, j)] = sh
  BY HostFacts DEF TypeInv, Shape
<1>2. ASSUME NEW i \in Stages(r), i # j PROVE shard'[Host(r, i)] = shard[Host(r, i)]
  <2>1. Host(r, i) \in Hosts
    BY HostFacts DEF TypeInv, Shape
  <2>2. Host(r, i) # Host(r, j)
    <3> SUFFICES ASSUME Host(r, i) = Host(r, j) PROVE FALSE
      OBVIOUS
    <3>1. Remote(r, i) /\ Remote(r, j)
      BY <1>2, HostsApart DEF TypeInv, Shape
    <3>2. places[r][i].host = places[r][j].host
      BY <3>1 DEF Host, Remote
    <3> QED  BY <1>2, <3>1, <3>2 DEF OnePlaceEach, Stages, Remote
  <2> QED  BY <2>1, <2>2 DEF TypeInv, Shape
<1> QED  BY <1>1, <1>2

(* A local shard is never cut off.                                         *)
LEMMA LocalIsConnected ==
  ASSUME TypeInv, NEW r \in Runs, NEW i \in Stages(r), ~ Remote(r, i)
  PROVE  <<r, Host(r, i)>> \notin cut
BY HostFacts DEF TypeInv, Shape

(* A run that has left is over, and owes nothing but good tokens.          *)
LEMMA LeftIsOver ==
  ASSUME TypeInv, places' = places, NEW r \in Runs, Alive(r),
         NEW how \in {"done", "declined", "refused", "lost"}, Leave(r, how),
         stage'[r] = stage[r], step'[r] <= MaxNew + 1, sent'[r] \in {sent[r], "none"},
         Undisturbed(r)' => good'[r] /\ how # "refused"
  PROVE  Progress(r)' /\ StreamsOpen(r)' /\ RunSound(r)'
<1>1. /\ Stages(r)' = Stages(r)
      /\ check_tiling(places[r])' = check_tiling(places[r])
      /\ IsLocal(r)' = IsLocal(r)
  BY SameStep
<1>2. how \in Phases
  BY DEF Phases
<1>3. /\ phase'[r] = how
      /\ stream'[r] \in [Stages(r) -> Streams]
      /\ \A i \in Stages(r) : stream'[r][i] # "none" => stream[r][i] # "none"
  BY <1>2, LeaveFacts
<1>4. Progress(r)
  BY DEF TypeInv
<1>5. ~ Alive(r)' /\ phase'[r] \notin {"new", "untiled", "opening", "running"}
  BY <1>3 DEF Alive
<1>6. check_tiling(places[r])
  BY <1>4 DEF Progress, Alive
<1>7. Progress(r)'
  BY <1>1, <1>3, <1>4, <1>5, <1>6 DEF Progress
<1>8. \A i : ~ Reached(r, i)'
  BY <1>5 DEF Reached
<1> QED  BY <1>3, <1>5, <1>7, <1>8 DEF StreamsOpen, RunSound, ShardsHeld

(* The step of a run that ends its loop.                                   *)
Goes(r) == phase'[r] # phase[r] /\ phase'[r] \in {"done", "declined", "refused", "lost"}

LEMMA OwnProgress ==
  ASSUME TypeInv, places' = places, NEW r \in Runs, OfRun(r), ~ Goes(r)
  PROVE  Progress(r)'
<1> USE DEF TypeInv, Shape, Streams
<1>0. /\ Stages(r)' = Stages(r)
      /\ check_tiling(places[r])' = check_tiling(places[r])
      /\ stage'[r] = stage[r] => IsLocal(r)' = IsLocal(r)
      /\ Progress(r)
      /\ Len(places[r]) \in Nat
  BY SameStep
<1>1. CASE Begin(r)
  BY <1>0, <1>1 DEF Begin, Progress, Alive
<1>2. CASE OpenHere(r)
  <2>1. sent[r] = "none"
    BY <1>0, <1>2 DEF OpenHere, Progress
  <2> QED  BY <1>0, <1>2, <2>1 DEF OpenHere, Advance, Progress, Alive, Stages
<1>3. CASE SendLoad(r)
  BY <1>0, <1>3 DEF SendLoad, runVars, Progress, Alive
<1>4. CASE StartRun(r)
  BY <1>0, <1>4 DEF StartRun, Progress, Alive
<1>5. CASE RunHere(r) /\ Advance(r) /\ UNCHANGED <<phase, stream>>
  <2>1. sent[r] = "none"
    BY <1>0, <1>5 DEF RunHere, Progress
  <2> QED  BY <1>0, <1>5, <2>1 DEF RunHere, Advance, Progress, Alive, Stages
<1>6. CASE SendStep(r)
  BY <1>0, <1>6 DEF SendStep, runVars, Progress, Alive
<1>7. CASE Sample(r) /\ step[r] + 1 < MaxNew /\ UNCHANGED <<phase, stream>>
  <2>1. sent[r] = "none" /\ stage'[r] = 1 /\ step'[r] = step[r] + 1
    BY <1>0, <1>7 DEF Sample, Progress, Leave
  <2> QED  BY <1>0, <1>7, <2>1, PipelineAssumption DEF Sample, Progress, Alive
<1>9. CASE ExecLoad(r)
  <2>1. /\ sent'[r] = "none" /\ stage[r] \in Stages(r) /\ ~ IsLocal(r)
        /\ UNCHANGED <<places, phase, step>>
    BY <1>0, <1>9 DEF ExecLoad, Progress
  <2>2. CASE stream' = [stream EXCEPT ![r][stage[r]] = "open"] /\ Advance(r)
    <3>1. /\ stream'[r] \in [Stages(r) -> Streams]
          /\ \A i \in Stages(r) : stream'[r][i] # "none" =>
               stream[r][i] # "none" \/ i = stage[r]
      BY <1>0, <2>1, <2>2 DEF Progress
    <3> QED  BY <1>0, <2>1, <2>2, <3>1 DEF Advance, Progress, Alive, Stages, IsLocal
  <2>3. CASE UNCHANGED <<stream, stage>>
    BY <1>0, <2>1, <2>3 DEF Progress, Alive
  <2> QED  BY <1>9, <2>2, <2>3 DEF ExecLoad
<1>10. CASE RefuseLoad(r) /\ UNCHANGED <<phase, stream>>
  BY <1>0, <1>10 DEF RefuseLoad, Progress, Alive
<1>11. CASE ExecStep(r) /\ UNCHANGED <<phase, stream>>
  <2>1. /\ sent'[r] = "none" /\ stage[r] \in Stages(r)
        /\ UNCHANGED <<places, step, phase, stream>>
    BY <1>0, <1>11 DEF ExecStep, Progress
  <2>2. stage'[r] = stage[r] \/ stage'[r] = stage[r] + 1
    BY <1>0, <1>11 DEF ExecStep, Advance
  <2>3. stage'[r] <= Len(places[r]) + 1 /\ (stage[r] >= 1 => stage'[r] >= 1)
    BY <1>0, <2>1, <2>2 DEF Stages
  <2> QED  BY <1>0, <2>1, <2>3 DEF Progress, Alive
<1>12. CASE LoseRequest(r)
  BY <1>0, <1>12 DEF LoseRequest, runVars, Progress, Alive
<1>13. ASSUME NEW i \in Stages(r), EndStream(r, i) PROVE Progress(r)'
  <2>1. /\ stream'[r] \in [Stages(r) -> Streams]
        /\ \A k \in Stages(r) : stream'[r][k] # "none" => stream[r][k] # "none"
    BY <1>0, <1>13 DEF EndStream, Progress
  <2> QED  BY <1>0, <1>13, <2>1 DEF EndStream, runVars, Progress, Alive
<1>14. ASSUME NEW f \in Followers, Disconnect(r, f) PROVE Progress(r)'
  <2>1. /\ stream'[r] \in [Stages(r) -> Streams]
        /\ \A k \in Stages(r) : stream'[r][k] # "none" => stream[r][k] # "none"
    BY <1>0, <1>14 DEF Disconnect, Progress
  <2> QED  BY <1>0, <1>14, <2>1 DEF Disconnect, runVars, Progress, Alive
<1>15. ASSUME NEW how, Leave(r, how), Alive(r), how \in {"done", "declined", "refused", "lost"}
       PROVE  FALSE
  BY <1>15 DEF Leave, Goes, Alive
<1>16. CASE RunHere(r) \/ Sample(r) \/ RefuseLoad(r) \/ ExecStep(r)
  BY <1>5, <1>7, <1>10, <1>11, <1>15, <1>16
     DEF RunHere, Sample, RefuseLoad, ExecStep, Answerable, Alive
<1>17. CASE ConnectionLost(r) \/ Fails(r)
  BY <1>15, <1>17 DEF ConnectionLost, Fails
<1> QED
  BY <1>1, <1>2, <1>3, <1>4, <1>6, <1>9, <1>12, <1>13, <1>14, <1>16, <1>17
     DEF OfRun, Master, Serve

(* Where a run is while it is alive.                                       *)
LEMMA AliveFacts ==
  ASSUME TypeInv, NEW r \in Runs
  PROVE  /\ places[r] \in Seq(Placement) /\ Len(places[r]) \in Nat
         /\ Stages(r) \subseteq Nat \ {0}
         /\ stage[r] \in Nat /\ step[r] \in Nat
         /\ Alive(r) => check_tiling(places[r]) /\ stage[r] >= 1
         /\ phase[r] = "opening" => step[r] = 0
<1>1. Progress(r) /\ places[r] \in Seq(Placement) /\ stage[r] \in Nat /\ step[r] \in Nat
  BY DEF TypeInv, Shape
<1>2. Len(places[r]) \in Nat
  BY <1>1
<1>3. Alive(r) => check_tiling(places[r]) /\ stage[r] >= 1
  BY <1>1 DEF Progress, Alive
<1>4. phase[r] = "opening" => step[r] = 0
  BY <1>1 DEF Progress
<1> QED  BY <1>1, <1>2, <1>3, <1>4 DEF Stages

(* A stage opened by its run, and a stage stepped by it, are held.         *)
LEMMA OpenedIsHeld ==
  ASSUME TypeInv, places' = places, NEW r \in Runs, RunSound(r),
         phase[r] = "opening", phase'[r] = "opening",
         NEW j \in Stages(r), stage[r] = j, stage'[r] = j + 1, step'[r] = step[r],
         shard' = [shard EXCEPT ![Host(r, j)] = Opened(places[r][j])],
         good'[r] = good[r], disturbed'[r] = disturbed[r], cut' = cut
  PROVE  RunSound(r)'
<1>1. /\ Stages(r)' = Stages(r)
      /\ \A i : Host(r, i)' = Host(r, i) /\ Remote(r, i)' = Remote(r, i)
      /\ OnePlaceEach(places[r])' = OnePlaceEach(places[r])
      /\ Pos(r)' = Pos(r) /\ Context(r)' = Context(r)
  BY SameStep
<1>2. step[r] = 0 /\ check_tiling(places[r]) /\ j \in Nat /\ Stages(r) \subseteq Nat
  BY AliveFacts DEF Alive
<1>3. Pos(r) = 0 /\ Upto(r, 0) = <<>>
  BY <1>2, NothingYet DEF Pos
<1> SUFFICES ASSUME Undisturbed(r)' PROVE ShardsHeld(r)' /\ good'[r]
  BY DEF RunSound
<1>4. Undisturbed(r) /\ ShardsHeld(r) /\ good'[r]
  BY <1>1 DEF Undisturbed, RunSound
<1>5. \A i \in Stages(r) : ~ Past(r, i) /\ ~ Past(r, i)' /\ (Reached(r, i)' => Reached(r, i) \/ i = j)
  BY <1>2 DEF Past, Reached
<1>6. /\ shard'[Host(r, j)] = Opened(places[r][j])
      /\ \A i \in Stages(r) : i # j => shard'[Host(r, i)] = shard[Host(r, i)]
  BY <1>4, OwnShards DEF Undisturbed
<1>7. Held(r, j)'
  <2>1. Opened(places[r][j]) \in Shard
    BY <1>2, CurrentHost
  <2>2. Holds(Opened(places[r][j]), places[r][j], FALSE, <<>>)
    BY <2>1 DEF Holds, Opened
  <2> QED  BY <1>1, <1>2, <1>3, <1>5, <1>6, <2>2 DEF Held, Holds
<1>8. ASSUME NEW i \in Stages(r), i # j, Reached(r, i)', <<r, Host(r, i)>> \notin cut
      PROVE  Held(r, i)'
  <2>1. Held(r, i)
    BY <1>4, <1>5, <1>8 DEF ShardsHeld
  <2> QED  BY <1>1, <1>5, <1>6, <1>8, <2>1 DEF Held, Holds
<1> QED  BY <1>1, <1>4, <1>7, <1>8 DEF ShardsHeld

LEMMA SteppedIsHeld ==
  ASSUME TypeInv, places' = places, NEW r \in Runs, RunSound(r),
         phase[r] = "running", NEW j \in Stages(r), stage[r] = j,
         NEW h, h = Host(r, j), <<r, h>> \notin cut,
         shard' = [shard EXCEPT ![h] = Stepped(h, r)],
         disturbed[r] => disturbed'[r]
  PROVE  Undisturbed(r)' =>
           /\ StepSucceeds(h, r)
           /\ good[r]
           /\ /\ phase'[r] = "running" /\ stage'[r] = j + 1 /\ step'[r] = step[r]
              /\ payload'[r] = Output(Activated(shard[h], r), r)
              /\ good'[r] = good[r] /\ cut' = cut
              => RunSound(r)'
<1>1. /\ Stages(r)' = Stages(r)
      /\ \A i : Host(r, i)' = Host(r, i) /\ Remote(r, i)' = Remote(r, i)
      /\ OnePlaceEach(places[r])' = OnePlaceEach(places[r])
  BY SameStep
<1> SUFFICES ASSUME Undisturbed(r)'
             PROVE  /\ StepSucceeds(h, r)
                    /\ good[r]
                    /\ /\ phase'[r] = "running" /\ stage'[r] = j + 1 /\ step'[r] = step[r]
                       /\ payload'[r] = Output(Activated(shard[h], r), r)
                       /\ good'[r] = good[r] /\ cut' = cut
                       => RunSound(r)'
  OBVIOUS
<1>2. Undisturbed(r) /\ ShardsHeld(r) /\ good[r] /\ Carries(payload[r], r, j)
  BY <1>1 DEF Undisturbed, RunSound
<1>3. check_tiling(places[r]) /\ j \in Nat /\ Stages(r) \subseteq Nat
  BY AliveFacts DEF Alive
<1>4. Held(r, j)
  BY <1>2 DEF ShardsHeld, Reached
<1>5. /\ StepSucceeds(h, r)
      /\ Holds(Stepped(h, r), places[r][j], TRUE, Context(r))
      /\ Carries(Output(Activated(shard[h], r), r), r, j + 1)
  BY <1>2, <1>3, <1>4, HeldStep
<1>6. ASSUME phase'[r] = "running", stage'[r] = j + 1, step'[r] = step[r],
             payload'[r] = Output(Activated(shard[h], r), r), good'[r] = good[r], cut' = cut
      PROVE  RunSound(r)'
  <2>1. Pos(r)' = Pos(r) /\ Context(r)' = Context(r)
    BY <1>6, SameStep
  <2>2. /\ shard'[Host(r, j)] = Stepped(h, r)
        /\ \A i \in Stages(r) : i # j => shard'[Host(r, i)] = shard[Host(r, i)]
    BY <1>2, OwnShards DEF Undisturbed
  <2>3. \A i \in Stages(r) : /\ Reached(r, i) /\ Reached(r, i)'
                             /\ i # j => (Past(r, i)' <=> Past(r, i))
    BY <1>3, <1>6 DEF Reached, Past
  <2>4. Past(r, j)'
    BY <1>3, <1>6 DEF Past
  <2>5. Held(r, j)'
    BY <1>1, <1>5, <2>1, <2>2, <2>4 DEF Held, Holds
  <2>6. ASSUME NEW i \in Stages(r), i # j, <<r, Host(r, i)>> \notin cut PROVE Held(r, i)'
    <3>1. Held(r, i)
      BY <1>2, <2>3, <2>6 DEF ShardsHeld
    <3> QED  BY <1>1, <1>6, <2>1, <2>2, <2>3, <2>6, <3>1 DEF Held, Holds
  <2>7. ShardsHeld(r)'
    BY <1>1, <1>6, <2>2, <2>5, <2>6 DEF ShardsHeld
  <2>8. Carries(payload[r], r, stage[r])'
    BY <1>1, <1>5, <1>6 DEF Carries
  <2> QED  BY <1>2, <1>6, <2>7, <2>8 DEF RunSound
<1> QED  BY <1>2, <1>5, <1>6

(* After the last stage an undisturbed run has the logits it wants, and    *)
(* every shard is where the next step starts.                              *)
LEMMA SampleIsSound ==
  ASSUME TypeInv, places' = places, NEW r \in Runs, Sample(r), RunSound(r), Undisturbed(r)
  PROVE  /\ payload[r].kind = "logits"
         /\ good'[r]
         /\ step[r] + 1 < MaxNew => RunSound(r)'
<1>1. /\ Stages(r)' = Stages(r)
      /\ \A i : Host(r, i)' = Host(r, i)
  BY SameStep
<1>2. /\ places[r] \in Seq(Placement) /\ check_tiling(places[r])
      /\ stage[r] \in Nat /\ stage[r] >= 1 /\ stage[r] <= Len(places[r]) + 1
      /\ stage[r] \notin 1..Len(places[r])
      /\ step[r] \in Nat /\ good \in [Runs -> BOOLEAN]
      /\ phase[r] = "running"
  BY DEF TypeInv, Shape, Progress, Sample, Stages, Alive
<1>3. Len(places[r]) \in Nat \ {0} /\ places[r][Len(places[r])].last = Layers
  BY <1>2, TilingFacts
<1>4. stage[r] = Len(places[r]) + 1 /\ Stages(r) \subseteq Nat \ {0} /\ 1 \in Stages(r)
      /\ \A i \in Stages(r) : i < stage[r]
  BY <1>2, <1>3 DEF Stages
<1>5. payload[r].kind = "logits" /\ payload[r].next = Layers /\ payload[r].sound /\ good[r]
  <2>1. Carries(payload[r], r, stage[r]) /\ good[r]
    BY <1>2 DEF RunSound
  <2>2. stage[r] # 1 /\ stage[r] - 1 = Len(places[r]) /\ stage[r] \notin Stages(r)
    BY <1>3, <1>4 DEF Stages
  <2> QED  BY <1>3, <2>1, <2>2 DEF Carries
<1>6. good'[r]
  <2>1. good' = [good EXCEPT ![r] = good[r] /\ payload[r].sound /\ payload[r].next = Layers]
    BY <1>5 DEF Sample
  <2> QED  BY <1>2, <1>5, <2>1
<1>7. ASSUME step[r] + 1 < MaxNew PROVE RunSound(r)'
  <2>1. /\ stage'[r] = 1 /\ step'[r] = step[r] + 1 /\ phase'[r] = "running"
        /\ payload'[r] = Input
        /\ UNCHANGED <<shard, cut>>
    BY <1>2, <1>5, <1>7, PipelineAssumption DEF Sample, TypeInv, Shape
  <2>2. Pos(r)' = Pos(r) + Len(Tokens(r))
    <3>1. Pos(r) + Len(Tokens(r)) = PromptLen + step[r]
      BY <1>2, PosFacts
    <3>2. Pos(r)' = PromptLen + (step[r] + 1) - 1
      BY <1>2, <2>1 DEF Pos
    <3> QED  BY <1>2, <3>1, <3>2, PipelineAssumption
  <2>3. Context(r) = Upto(r, Pos(r)')
    BY <1>2, <2>2, PosFacts
  <2>4. ASSUME NEW i \in Stages(r), <<r, Host(r, i)>> \notin cut PROVE Held(r, i)'
    <3>1. Reached(r, i) /\ Past(r, i) /\ Held(r, i)
      BY <1>2, <1>4, <2>4 DEF Reached, Past, RunSound, ShardsHeld
    <3>2. ~ Past(r, i)' /\ step'[r] > 0
      BY <1>2, <1>4, <2>1 DEF Past
    <3>3. Upto(r, Pos(r))' = Upto(r, Pos(r)')
      BY DEF Upto
    <3> QED  BY <1>1, <2>1, <2>3, <3>1, <3>2, <3>3 DEF Held, Holds
  <2>5. ShardsHeld(r)'
    BY <1>1, <2>1, <2>4 DEF ShardsHeld
  <2>6. Carries(payload[r], r, stage[r])'
    BY <1>1, <2>1 DEF Carries, Input
  <2> QED  BY <1>6, <2>1, <2>5, <2>6 DEF RunSound
<1> QED  BY <1>5, <1>6, <1>7

(* A run leaves when it is told to, or when it has what it wants; nobody   *)
(* refuses an undisturbed run.                                             *)
LEMMA OwnLeaves ==
  ASSUME TypeInv, places' = places, NEW r \in Runs, OfRun(r), Goes(r), RunSound(r)
  PROVE  Progress(r)' /\ StreamsOpen(r)' /\ RunSound(r)'
<1> DEFINE Kept == Progress(r)' /\ StreamsOpen(r)' /\ RunSound(r)'
           h == Host(r, stage[r])
<1>0. /\ phase \in [Runs -> Phases] /\ MaxNew \in Nat /\ step[r] <= MaxNew + 1
      /\ OnePlaceEach(places[r])' = OnePlaceEach(places[r])
  BY SameStep, PipelineAssumption DEF TypeInv, Shape, Progress
<1>1. CASE RunHere(r)
  <2>1. /\ Leave(r, "refused") /\ ~ StepSucceeds(h, r)
        /\ shard' = [shard EXCEPT ![h] = Stepped(h, r)]
        /\ phase[r] = "running" /\ stage[r] \in Stages(r) /\ IsLocal(r)
        /\ UNCHANGED <<places, stage, step, payload, good, sent, disturbed, cut>>
    BY <1>1 DEF RunHere, Goes
  <2>2. <<r, h>> \notin cut
    BY <2>1, LocalIsConnected DEF IsLocal, Remote
  <2>3. ~ Undisturbed(r)'
    BY <2>1, <2>2, SteppedIsHeld
  <2> QED  BY <1>0, <2>1, <2>3, LeftIsOver DEF Alive
<1>2. CASE Sample(r)
  <2>1. /\ phase[r] = "running" /\ stage'[r] = stage[r] /\ sent'[r] = sent[r]
        /\ step[r] = 0 \/ step[r] < MaxNew
        /\ UNCHANGED disturbed
    BY <1>2 DEF Sample, Goes, TypeInv, Progress
  <2>2. CASE Leave(r, "done") /\ step' = [step EXCEPT ![r] = step[r] + 1]
    <3>1. step'[r] <= MaxNew + 1
      BY <1>0, <2>1, <2>2 DEF TypeInv, Shape
    <3>2. Undisturbed(r)' => good'[r]
      BY <1>0, <1>2, <2>1, SampleIsSound DEF Undisturbed
    <3> QED  BY <2>1, <2>2, <3>1, <3>2, LeftIsOver DEF Alive
  <2>3. CASE Leave(r, "refused") /\ payload[r].kind # "logits" /\ UNCHANGED step
    <3>1. ~ Undisturbed(r)'
      BY <1>0, <1>2, <2>1, <2>3, SampleIsSound DEF Undisturbed
    <3> QED  BY <1>0, <2>1, <2>3, <3>1, LeftIsOver DEF Alive
  <2> QED  BY <1>2, <2>2, <2>3 DEF Sample, Goes
<1>3. CASE ConnectionLost(r) \/ Fails(r)
  <2>1. /\ Leave(r, "lost") /\ Alive(r)
        /\ UNCHANGED <<places, stage, step, payload, good, sent, shard, disturbed, cut>>
    BY <1>3 DEF ConnectionLost, Fails
  <2>2. Undisturbed(r)' => good'[r]
    BY <1>0, <2>1 DEF Undisturbed, RunSound
  <2> QED  BY <1>0, <2>1, <2>2, LeftIsOver
<1>4. CASE RefuseLoad(r)
  <2>1. /\ Leave(r, "declined") /\ Alive(r)
        /\ sent' = [sent EXCEPT ![r] = "none"]
        /\ UNCHANGED <<places, stage, step, payload, good, shard, disturbed, cut>>
    BY <1>4 DEF RefuseLoad, Goes, Answerable
  <2>2. Undisturbed(r)' => good'[r]
    BY <1>0, <2>1 DEF Undisturbed, RunSound
  <2>3. sent'[r] = "none"
    BY <2>1 DEF TypeInv, Shape
  <2> QED  BY <1>0, <2>1, <2>2, <2>3, LeftIsOver
<1>5. CASE ExecStep(r)
  <2>1. /\ Leave(r, "refused") /\ Answerable(r) /\ ~ StepSucceeds(h, r)
        /\ shard' = [shard EXCEPT ![h] = Stepped(h, r)]
        /\ sent' = [sent EXCEPT ![r] = "none"] /\ sent[r] = "step"
        /\ UNCHANGED <<places, stage, step, payload, good, cut>>
        /\ disturbed[r] => disturbed'[r]
    BY <1>5 DEF ExecStep, Goes, Disturb
  <2>2. phase[r] = "running" /\ stage[r] \in Stages(r) /\ <<r, h>> \notin cut /\ Alive(r)
    BY <2>1 DEF Answerable, Alive, TypeInv, Progress
  <2>3. ~ Undisturbed(r)'
    BY <2>1, <2>2, SteppedIsHeld
  <2>4. sent'[r] = "none"
    BY <2>1 DEF TypeInv, Shape
  <2> QED  BY <1>0, <2>1, <2>2, <2>3, <2>4, LeftIsOver
<1>6. ~ (Begin(r) \/ OpenHere(r) \/ SendLoad(r) \/ StartRun(r) \/ SendStep(r) \/ ExecLoad(r)
         \/ LoseRequest(r) \/ (\E i \in Stages(r) : EndStream(r, i))
         \/ (\E f \in Followers : Disconnect(r, f)))
  BY <1>0 DEF Begin, OpenHere, SendLoad, StartRun, SendStep, ExecLoad, LoseRequest,
              EndStream, Disconnect, runVars, Goes
<1> QED  BY <1>1, <1>2, <1>3, <1>4, <1>5, <1>6 DEF OfRun, Master, Serve

(* A run that goes on keeps its streams and its shards.                    *)
LEMMA OwnStays ==
  ASSUME TypeInv, places' = places, NEW r \in Runs, OfRun(r), ~ Goes(r),
         StreamsOpen(r), RunSound(r)
  PROVE  StreamsOpen(r)' /\ RunSound(r)'
<1> DEFINE h == Host(r, stage[r])
           Kept == StreamsOpen(r)' /\ RunSound(r)'
<1>0. /\ Stages(r)' = Stages(r) /\ Stages(r) \subseteq Nat \ {0}
      /\ \A i : Host(r, i)' = Host(r, i) /\ Remote(r, i)' = Remote(r, i)
      /\ OnePlaceEach(places[r])' = OnePlaceEach(places[r])
      /\ Progress(r) /\ stage[r] \in Nat
  BY SameStep, AliveFacts DEF TypeInv
<1>1. ASSUME SameRun(r), UNCHANGED <<stream, shard, cut>> PROVE Kept
  BY <1>1, Unharmed
<1>2. CASE Begin(r)
  <2>1. /\ phase'[r] \in {"opening", "untiled"} /\ stage'[r] = 1
        /\ UNCHANGED <<good, disturbed>>
    BY <1>2 DEF Begin, TypeInv, Shape
  <2>2. \A i \in Stages(r) : ~ Reached(r, i)'
    BY <1>0, <2>1 DEF Reached
  <2> QED  BY <1>0, <2>1, <2>2 DEF StreamsOpen, RunSound, ShardsHeld, Undisturbed
<1>3. CASE OpenHere(r)
  <2>1. /\ phase[r] = "opening" /\ phase'[r] = "opening" /\ stage[r] \in Stages(r)
        /\ ~ Remote(r, stage[r]) /\ stage'[r] = stage[r] + 1
        /\ UNCHANGED <<step, good, stream, disturbed, cut>>
    BY <1>3 DEF OpenHere, Advance, IsLocal, Remote, TypeInv, Shape
  <2>2. StreamsOpen(r)'
    BY <1>0, <2>1 DEF StreamsOpen, Reached
  <2>3. RunSound(r)'
    BY <1>3, <2>1, OpenedIsHeld DEF OpenHere
  <2> QED  BY <2>2, <2>3
<1>4. CASE SendLoad(r) \/ SendStep(r) \/ LoseRequest(r)
  BY <1>1, <1>4 DEF SendLoad, SendStep, LoseRequest, runVars, SameRun
<1>5. CASE StartRun(r)
  <2>1. /\ phase[r] = "opening" /\ phase'[r] = "running" /\ stage'[r] = 1 /\ payload'[r] = Input
        /\ UNCHANGED <<places, step, good, stream, shard, disturbed, cut>>
    BY <1>5 DEF StartRun, TypeInv, Shape
  <2>2. \A i \in Stages(r) : Reached(r, i) /\ ~ Past(r, i) /\ ~ Past(r, i)'
    <3>1. \A i \in Stages(r) : i < stage[r]
      BY <1>0, <1>5, AliveFacts DEF StartRun, Stages, Alive
    <3> QED  BY <1>0, <2>1, <3>1 DEF Reached, Past
  <2>3. StreamsOpen(r)'
    BY <1>0, <2>1, <2>2 DEF StreamsOpen
  <2>4. ASSUME Undisturbed(r)' PROVE ShardsHeld(r)' /\ Carries(payload[r], r, stage[r])' /\ good'[r]
    <3>1. Undisturbed(r) /\ good'[r]
      BY <1>0, <2>1, <2>4 DEF Undisturbed, RunSound
    <3>2. Pos(r)' = Pos(r)
      BY <2>1, SameStep
    <3>3. ASSUME NEW i \in Stages(r), <<r, Host(r, i)>> \notin cut PROVE Held(r, i)'
      <4>1. Held(r, i)
        BY <2>2, <3>1, <3>3 DEF RunSound, ShardsHeld
      <4> QED  BY <1>0, <2>1, <2>2, <3>2, <4>1 DEF Held, Holds
    <3>4. ShardsHeld(r)'
      BY <1>0, <2>1, <3>3 DEF ShardsHeld
    <3>5. Carries(payload[r], r, stage[r])'
      BY <1>0, <2>1 DEF Carries, Input
    <3> QED  BY <3>1, <3>4, <3>5
  <2> QED  BY <2>1, <2>3, <2>4 DEF RunSound
<1>6. CASE RunHere(r)
  <2>1. /\ shard' = [shard EXCEPT ![h] = Stepped(h, r)]
        /\ phase[r] = "running" /\ stage[r] \in Stages(r) /\ IsLocal(r)
        /\ payload' = [payload EXCEPT ![r] = Output(Activated(shard[h], r), r)]
        /\ Advance(r)
        /\ UNCHANGED <<places, phase, step, good, sent, stream, disturbed, cut>>
    BY <1>6 DEF RunHere, Goes, Leave, TypeInv, Shape
  <2>2. <<r, h>> \notin cut
    BY <2>1, LocalIsConnected DEF IsLocal, Remote
  <2>3. /\ payload'[r] = Output(Activated(shard[h], r), r) /\ stage'[r] = stage[r] + 1
        /\ phase'[r] = "running"
    BY <2>1 DEF Advance, TypeInv, Shape
  <2>4. StreamsOpen(r)'
    BY <1>0, <2>1, <2>3 DEF StreamsOpen, Reached
  <2>5. RunSound(r)'
    BY <2>1, <2>2, <2>3, SteppedIsHeld DEF RunSound
  <2> QED  BY <2>4, <2>5
<1>7. CASE Sample(r)
  <2>1. /\ step[r] + 1 < MaxNew
        /\ phase[r] = "running" /\ phase'[r] = "running"
        /\ UNCHANGED <<stream, cut, disturbed>>
    BY <1>7 DEF Sample, Goes, Leave, TypeInv, Shape
  <2>2. StreamsOpen(r)'
    BY <1>0, <2>1 DEF StreamsOpen, Reached
  <2>3. RunSound(r)'
    BY <1>0, <1>7, <2>1, SampleIsSound DEF RunSound, Undisturbed
  <2> QED  BY <2>2, <2>3
<1>8. CASE ExecLoad(r)
  <2>1. /\ stage[r] \in Stages(r) /\ ~ IsLocal(r)
        /\ shard' = [shard EXCEPT ![h] = Opened(places[r][stage[r]])]
        /\ disturbed'[r] = disturbed[r]
        /\ UNCHANGED <<places, phase, step, payload, good, cut>>
    BY <1>0, <1>8 DEF ExecLoad, Disturb, Progress, TypeInv, Shape
  <2>2. CASE Answerable(r) /\ stream' = [stream EXCEPT ![r][stage[r]] = "open"] /\ Advance(r)
    <3>1. /\ phase[r] = "opening" /\ phase'[r] = "opening" /\ stage'[r] = stage[r] + 1
          /\ stream'[r][stage[r]] = "open"
          /\ \A i \in Stages(r) : i # stage[r] => stream'[r][i] = stream[r][i]
      BY <1>0, <1>8, <2>1, <2>2 DEF ExecLoad, Answerable, Alive, Advance, Progress, TypeInv, Shape
    <3>2. StreamsOpen(r)'
      BY <1>0, <2>1, <3>1 DEF StreamsOpen, Reached
    <3>3. RunSound(r)'
      BY <2>1, <3>1, OpenedIsHeld
    <3> QED  BY <3>2, <3>3
  <2>3. CASE ~ Answerable(r) /\ UNCHANGED <<stream, stage>>
    <3>1. \A i \in Stages(r) : Reached(r, i) /\ <<r, Host(r, i)>> \notin cut =>
            shard'[Host(r, i)] = shard[Host(r, i)] \/ ~ Undisturbed(r)'
      BY <1>0, <2>1, <2>3, OwnShards DEF Answerable, Alive, Reached, Undisturbed
    <3> QED  BY <2>1, <2>3, <3>1, Unharmed DEF SameRun
  <2> QED  BY <1>8, <2>2, <2>3 DEF ExecLoad
<1>9. CASE RefuseLoad(r)
  <2>1. UNCHANGED <<places, phase, stage, step, payload, good, stream, shard, disturbed, cut>>
    BY <1>9 DEF RefuseLoad, Goes, Leave, Answerable, Alive, TypeInv, Shape
  <2> QED  BY <1>1, <2>1 DEF SameRun
<1>10. CASE ExecStep(r)
  <2>1. /\ stage[r] \in Stages(r)
        /\ shard' = [shard EXCEPT ![h] = Stepped(h, r)]
        /\ disturbed'[r] = disturbed[r]
        /\ UNCHANGED <<places, step, good, cut>>
    BY <1>0, <1>10 DEF ExecStep, Disturb, Progress, TypeInv, Shape
  <2>2. CASE /\ Answerable(r)
             /\ payload' = [payload EXCEPT ![r] = Output(Activated(shard[h], r), r)]
             /\ Advance(r)
             /\ UNCHANGED <<phase, stream>>
    <3>1. /\ phase[r] = "running" /\ phase'[r] = "running" /\ stage'[r] = stage[r] + 1
          /\ payload'[r] = Output(Activated(shard[h], r), r)
          /\ <<r, h>> \notin cut
      BY <1>0, <1>10, <2>2 DEF ExecStep, Answerable, Alive, Advance, Progress, TypeInv, Shape
    <3>2. StreamsOpen(r)'
      BY <1>0, <2>1, <2>2, <3>1 DEF StreamsOpen, Reached
    <3>3. RunSound(r)'
      BY <2>1, <3>1, SteppedIsHeld DEF RunSound
    <3> QED  BY <3>2, <3>3
  <2>3. CASE ~ Answerable(r) /\ UNCHANGED <<payload, stage, phase, stream>>
    <3>1. \A i \in Stages(r) : Reached(r, i) /\ <<r, Host(r, i)>> \notin cut =>
            shard'[Host(r, i)] = shard[Host(r, i)] \/ ~ Undisturbed(r)'
      BY <1>0, <2>1, <2>3, OwnShards DEF Answerable, Alive, Reached, Undisturbed
    <3> QED  BY <2>1, <2>3, <3>1, Unharmed DEF SameRun
  <2>4. ~ (Answerable(r) /\ Leave(r, "refused"))
    BY DEF Goes, Leave, Answerable, Alive, TypeInv, Shape
  <2> QED  BY <1>10, <2>2, <2>3, <2>4 DEF ExecStep
<1>11. ASSUME NEW k \in Stages(r), EndStream(r, k) PROVE Kept
  <2>1. /\ stream[r][k] = "closing" /\ Remote(r, k)
        /\ shard' = [shard EXCEPT ![Host(r, k)] = Dropped(shard[Host(r, k)])]
        /\ stream' = [stream EXCEPT ![r][k] = "ended"]
        /\ SameRun(r) /\ disturbed'[r] = disturbed[r]
        /\ UNCHANGED <<places, cut>>
    BY <1>0, <1>11 DEF EndStream, Disturb, runVars, SameRun, Progress, Remote, TypeInv, Shape
  <2>2. ~ (Reached(r, k) /\ <<r, Host(r, k)>> \notin cut)
    BY <2>1 DEF StreamsOpen
  <2>3. \A i \in Stages(r) : i # k => stream'[r][i] = stream[r][i]
    BY <1>0, <2>1 DEF Progress, TypeInv, Shape
  <2>4. \A i \in Stages(r) : i # k =>
          shard'[Host(r, i)] = shard[Host(r, i)] \/ ~ Undisturbed(r)'
    <3>1. Undisturbed(r)' => OnePlaceEach(places[r])
      BY <1>0 DEF Undisturbed
    <3>2. OnePlaceEach(places[r]) => \A i \in Stages(r) : i # k =>
            shard'[Host(r, i)] = shard[Host(r, i)]
      BY <2>1, OwnShards
    <3> QED  BY <3>1, <3>2
  <2> QED  BY <2>1, <2>2, <2>3, <2>4, Unharmed
<1>12. ASSUME NEW f \in Followers, Disconnect(r, f) PROVE Kept
  <2>1. /\ SameRun(r) /\ UNCHANGED <<places, shard>>
        /\ cut' = cut \cup {<<r, f>>}
        /\ \A i \in Stages(r) : Host(r, i) # f => stream'[r][i] = stream[r][i]
    BY <1>0, <1>12 DEF Disconnect, runVars, SameRun, Progress, TypeInv, Shape
  <2> QED  BY <2>1, Unharmed
<1>13. ~ (ConnectionLost(r) \/ Fails(r))
  BY DEF ConnectionLost, Fails, Goes, Leave, Alive, TypeInv, Shape
<1> QED
  BY <1>2, <1>3, <1>4, <1>5, <1>6, <1>7, <1>8, <1>9, <1>10, <1>11, <1>12, <1>13
     DEF OfRun, Master, Serve

(* A follower restarts: whoever was connected to it is not any more.       *)
LEMMA RestartKeeps ==
  ASSUME TypeInv, NEW f \in Followers, Restart(f), NEW r \in Runs, StreamsOpen(r), RunSound(r)
  PROVE  Progress(r)' /\ StreamsOpen(r)' /\ RunSound(r)'
<1> USE DEF TypeInv, Shape
<1>1. /\ SameRun(r) /\ places' = places
      /\ sent'[r] \in {sent[r], "none"}
      /\ Alive(r) => <<r, f>> \in cut'
      /\ cut \subseteq cut'
      /\ stream'[r] = [i \in Stages(r) |->
            IF Host(r, i) = f /\ stream[r][i] # "none" THEN "ended" ELSE stream[r][i]]
      /\ \A h \in Hosts : h # f => shard'[h] = shard[h]
  BY DEF Restart, runVars, SameRun
<1>2. Progress(r) /\ Stages(r)' = Stages(r) /\ IsLocal(r)' = IsLocal(r)
      /\ check_tiling(places[r])' = check_tiling(places[r])
  BY <1>1, SameStep DEF SameRun
<1>3. Progress(r)'
  <2>1. /\ stream'[r] \in [Stages(r) -> Streams]
        /\ \A i \in Stages(r) : stream'[r][i] # "none" => stream[r][i] # "none"
    BY <1>1, <1>2 DEF Progress, Streams
  <2> QED  BY <1>1, <1>2, <2>1 DEF Progress, Alive, SameRun
<1>4. ASSUME NEW i \in Stages(r), Reached(r, i), <<r, Host(r, i)>> \notin cut'
      PROVE  /\ <<r, Host(r, i)>> \notin cut
             /\ stream'[r][i] = stream[r][i]
             /\ shard'[Host(r, i)] = shard[Host(r, i)]
  <2>1. Host(r, i) # f
    BY <1>1, <1>4 DEF Reached, Alive
  <2>2. Host(r, i) \in Hosts
    BY HostFacts
  <2> QED  BY <1>1, <1>4, <2>1, <2>2
<1> QED  BY <1>1, <1>3, <1>4, Unharmed
-----------------------------------------------------------------------------
(* The invariant, and what it says.                                        *)

LEMMA InitIInv == Init => IInv
<1> SUFFICES ASSUME Init PROVE IInv
  OBVIOUS
<1> USE DEF Init
<1>1. places \in [Runs -> Seq(Placement)]
  <2>1. \A r \in Runs : places[r] \in Seq(Placement)
    BY PipelineAssumption
  <2> QED  BY <2>1
<1>2. Shape
  <2>1. "new" \in Phases /\ NoPayload \in Payload
    BY PipelineAssumption DEF Phases, NoPayload, Payload
  <2>2. /\ DOMAIN shard = Hosts
        /\ \A h \in Hosts : shard[h] = NoShard
    BY DEF Hosts
  <2> QED  BY <1>1, <2>1, <2>2 DEF Shape
<1>3. ASSUME NEW r \in Runs PROVE Progress(r) /\ StreamsOpen(r) /\ RunSound(r)
  <2>1. Len(places[r]) \in Nat
    BY <1>1
  <2>2. Progress(r)
    BY <2>1, PipelineAssumption DEF Progress, Alive, Streams
  <2>3. StreamsOpen(r) /\ RunSound(r)
    BY DEF StreamsOpen, RunSound, ShardsHeld, Reached
  <2> QED  BY <2>2, <2>3
<1> QED  BY <1>2, <1>3 DEF IInv, TypeInv

LEMMA NextIInv == IInv /\ [Next]_vars => IInv'
<1> SUFFICES ASSUME IInv, [Next]_vars PROVE IInv'
  OBVIOUS
<1> USE DEF IInv
<1>1. Shape' /\ places' = places
  BY ShapePreserved
<1>2. ASSUME NEW r \in Runs PROVE Progress(r)' /\ StreamsOpen(r)' /\ RunSound(r)'
  <2>1. StreamsOpen(r) /\ RunSound(r)
    OBVIOUS
  <2>2. ASSUME NEW q \in Runs, OfRun(q) PROVE Progress(r)' /\ StreamsOpen(r)' /\ RunSound(r)'
    <3>1. CASE q # r
      BY <1>1, <2>1, <2>2, <3>1, OthersStay, ElsewhereKeeps
    <3>2. CASE q = r /\ Goes(r)
      BY <1>1, <2>1, <2>2, <3>2, OwnLeaves
    <3>3. CASE q = r /\ ~ Goes(r)
      BY <1>1, <2>1, <2>2, <3>3, OwnProgress, OwnStays
    <3> QED  BY <3>1, <3>2, <3>3
  <2>3. ASSUME NEW f \in Followers, Restart(f)
        PROVE  Progress(r)' /\ StreamsOpen(r)' /\ RunSound(r)'
    BY <2>1, <2>3, RestartKeeps
  <2>4. CASE UNCHANGED vars
    <3>1. Elsewhere(r)
      BY <2>4 DEF vars, Elsewhere, SameRun, Apart
    <3> QED  BY <1>1, <2>1, <3>1, ElsewhereKeeps
  <2> QED  BY <2>2, <2>3, <2>4 DEF Next, OfRun
<1> QED  BY <1>1, <1>2 DEF TypeInv

THEOREM IInvAlways == Spec => []IInv
<1> QED  BY InitIInv, NextIInv, PTL DEF Spec

(* A run in the middle of a request to a peer is at a stage that peer has, *)
(* and every variable keeps its shape.                                     *)
THEOREM TypeCorrect == Spec => []TypeOK
<1>1. IInv => TypeOK
  BY TypeInvIsTypeOK DEF IInv
<1> QED  BY <1>1, IInvAlways, PTL

(* Whatever placement check_tiling lets through and whatever crashes,      *)
(* restarts and earlier runs left on the followers: as long as no peer was *)
(* placed twice and no other run's job reached its shards, every token of  *)
(* the run came from logits that went through every layer once, in order,  *)
(* over exactly the run's own tokens.                                      *)
THEOREM UndisturbedRunsAreSound == Spec => []UndisturbedRunIsSound
<1>1. IInv => UndisturbedRunIsSound
  BY DEF IInv, RunSound, Undisturbed, UndisturbedRunIsSound
<1> QED  BY <1>1, IInvAlways, PTL

(* And no shard refuses such a run.                                        *)
THEOREM UndisturbedRunsAreServed == Spec => []UndisturbedRunIsServed
<1>1. IInv => UndisturbedRunIsServed
  BY DEF IInv, RunSound, Undisturbed, UndisturbedRunIsServed
<1> QED  BY <1>1, IInvAlways, PTL
-----------------------------------------------------------------------------
(* Sessions are freed.                                                     *)

(* A follower whose cache someone will still clear.                        *)
Live(f) ==
  \E r \in Runs : \E i \in Stages(r) : Host(r, i) = f /\ stream[r][i] \in {"open", "closing"}
Freed(f) ==
  shard[f] # NoShard =>
    /\ shard[f].kv # <<>> => shard[f].active
    /\ shard[f].active => Live(f)

(* Only the follower's end of a stream ends it.                            *)
LEMMA StreamsLiveOn ==
  ASSUME TypeInv, NEW q \in Runs, Master(q) \/ Fails(q) \/ Serve(q)
                                  \/ \E f \in Followers : Disconnect(q, f)
  PROVE  \A i \in Stages(q) : stream[q][i] \in {"open", "closing"} =>
           stream'[q][i] \in {"open", "closing"}
<1> SUFFICES ASSUME NEW i \in Stages(q), stream[q][i] \in {"open", "closing"}
             PROVE  stream'[q][i] \in {"open", "closing"}
  OBVIOUS
<1>1. CASE stream' = stream
  BY <1>1
<1>2. ASSUME NEW how \in {"done", "declined", "refused", "lost"}, Leave(q, how)
      PROVE  stream'[q][i] \in {"open", "closing"}
  <2>1. how \in Phases
    BY DEF Phases
  <2> QED  BY <1>2, <2>1, LeaveFacts
<1>3. CASE stream' = [stream EXCEPT ![q][stage[q]] = "open"]
  BY <1>3 DEF TypeInv, Shape
<1>4. ASSUME NEW f \in Followers, Disconnect(q, f) PROVE stream'[q][i] \in {"open", "closing"}
  BY <1>4 DEF Disconnect, TypeInv, Shape
<1>5. CASE Master(q) \/ Fails(q)
  BY <1>1, <1>2, <1>5 DEF Master, Fails, Begin, OpenHere, SendLoad, StartRun, RunHere, SendStep,
                          Sample, ConnectionLost
<1>6. CASE Serve(q)
  BY <1>1, <1>2, <1>3, <1>6 DEF Serve, ExecLoad, RefuseLoad, ExecStep, LoseRequest
<1> QED  BY <1>4, <1>5, <1>6

LEMMA FreedKept ==
  ASSUME TypeInv, [Next]_vars, NEW f \in Followers, Freed(f)
  PROVE  Freed(f)'
<1> USE DEF TypeInv, Shape
<1>0. places' = places /\ f \in Hosts
  BY ShapePreserved DEF Hosts
<1>1. \A r \in Runs : Stages(r)' = Stages(r) /\ \A i : Host(r, i)' = Host(r, i)
  BY <1>0, SameStep
<1>2. ASSUME shard'[f] = shard[f], Live(f) => Live(f)' PROVE Freed(f)'
  BY <1>2 DEF Freed
<1>3. ASSUME NEW q \in Runs, Master(q) \/ Fails(q) \/ Serve(q)
                             \/ \E g \in Followers : Disconnect(q, g)
      PROVE  Freed(f)'
  <2>1. \A r \in Runs : r # q => stream'[r] = stream[r]
    BY <1>3, OthersStay DEF OfRun, Elsewhere
  <2>2. Live(f) => Live(f)'
    <3> SUFFICES ASSUME NEW r \in Runs, NEW i \in Stages(r), Host(r, i) = f,
                        stream[r][i] \in {"open", "closing"}
                 PROVE  stream'[r][i] \in {"open", "closing"}
      BY <1>1 DEF Live
    <3>1. CASE r = q
      BY <1>3, <3>1, StreamsLiveOn
    <3> QED  BY <2>1, <3>1
  <2>3. CASE UNCHANGED shard
    BY <1>2, <2>2, <2>3
  <2>4. CASE OpenHere(q) \/ RunHere(q)
    <3>1. stage[q] \in Stages(q) /\ ~ Remote(q, stage[q])
      BY <2>4 DEF OpenHere, RunHere, IsLocal, Remote
    <3>2. Host(q, stage[q]) # f
      BY <3>1, HostFacts
    <3>3. shard'[f] = shard[f]
      BY <1>0, <2>4, <3>2 DEF OpenHere, RunHere
    <3> QED  BY <1>2, <2>2, <3>3
  <2>5. CASE ExecLoad(q)
    <3>1. CASE Host(q, stage[q]) # f
      BY <1>0, <1>2, <2>2, <2>5, <3>1 DEF ExecLoad
    <3>2. CASE Host(q, stage[q]) = f
      <4>1. shard'[f] = Opened(places[q][stage[q]])
        BY <1>0, <2>5, <3>2 DEF ExecLoad
      <4>2. shard'[f].active = FALSE /\ shard'[f].kv = <<>>
        BY <4>1 DEF Opened
      <4> QED  BY <4>2 DEF Freed
    <3> QED  BY <3>1, <3>2
  <2>6. CASE ExecStep(q)
    <3>1. CASE Host(q, stage[q]) # f
      BY <1>0, <1>2, <2>2, <2>6, <3>1 DEF ExecStep
    <3>2. CASE Host(q, stage[q]) = f
      <4>1. shard'[f] = Stepped(f, q)
        BY <1>0, <2>6, <3>2 DEF ExecStep
      <4>2. Live(f)
        BY <2>6, <3>2 DEF ExecStep, Progress, Live
      <4>3. CASE Serves(shard[f], q)
        <5>1. shard'[f].active
          BY <1>0, <4>1, <4>3, StepType
        <5> QED  BY <2>2, <4>2, <5>1 DEF Freed
      <4>4. CASE ~ Serves(shard[f], q)
        BY <1>0, <1>2, <2>2, <4>1, <4>4, StepType
      <4> QED  BY <4>3, <4>4
    <3> QED  BY <3>1, <3>2
  <2> QED
    BY <1>3, <2>3, <2>4, <2>5, <2>6
       DEF Master, Fails, Serve, Begin, SendLoad, StartRun, SendStep, Sample, ConnectionLost,
           RefuseLoad, LoseRequest, Disconnect
<1>4. ASSUME NEW q \in Runs, NEW k \in Stages(q), EndStream(q, k) PROVE Freed(f)'
  <2>1. CASE Host(q, k) # f
    <3>1. shard'[f] = shard[f]
      BY <1>0, <1>4, <2>1 DEF EndStream
    <3>2. ASSUME NEW r \in Runs, NEW i \in Stages(r), Host(r, i) = f
          PROVE  stream'[r][i] = stream[r][i]
      <4>1. stream' = [stream EXCEPT ![q][k] = "ended"]
        BY <1>4 DEF EndStream
      <4>2. r # q \/ i # k
        BY <2>1, <3>2
      <4>3. DOMAIN stream[q] = Stages(q) /\ DOMAIN stream = Runs
        BY DEF Progress
      <4> QED  BY <4>1, <4>2, <4>3
    <3>3. Live(f) => Live(f)'
      <4> SUFFICES ASSUME NEW r \in Runs, NEW i \in Stages(r), Host(r, i) = f,
                          stream[r][i] \in {"open", "closing"}
                   PROVE  stream'[r][i] \in {"open", "closing"}
        BY <1>1 DEF Live
      <4> QED  BY <3>2
    <3> QED  BY <1>2, <3>1, <3>3
  <2>2. CASE Host(q, k) = f
    <3>1. shard'[f] = Dropped(shard[f])
      BY <1>0, <1>4, <2>2 DEF EndStream
    <3>2. shard'[f] # NoShard => ~ shard'[f].active /\ shard'[f].kv = <<>>
      BY <1>0, <3>1, DroppedType
    <3> QED  BY <3>2 DEF Freed
  <2> QED  BY <2>1, <2>2
<1>5. ASSUME NEW g \in Followers, Restart(g) PROVE Freed(f)'
  <2>1. CASE f = g
    BY <1>0, <1>5, <2>1 DEF Restart, Freed
  <2>2. CASE f # g
    <3>1. shard'[f] = shard[f]
      BY <1>0, <1>5, <2>2 DEF Restart
    <3>2. \A r \in Runs : \A i \in Stages(r) : Host(r, i) = f => stream'[r][i] = stream[r][i]
      BY <1>5, <2>2 DEF Restart, Progress
    <3> QED  BY <1>1, <1>2, <3>1, <3>2 DEF Live
  <2> QED  BY <2>1, <2>2
<1>6. CASE UNCHANGED vars
  BY <1>2, <1>6 DEF vars, Live, Host, Stages
<1> QED  BY <1>3, <1>4, <1>5, <1>6 DEF Next

(* A follower has a session active, or anything in its cache, only while   *)
(* some master's stream to it has not ended, however that master went.     *)
THEOREM SessionsAreFreedAlways == Spec => []SessionsAreFreed
<1> DEFINE FInv == TypeInv /\ \A f \in Followers : Freed(f)
<1>1. Init => FInv
  <2>1. Init => TypeInv
    BY InitIInv DEF IInv
  <2>2. Init => \A f \in Followers : Freed(f)
    BY DEF Init, Freed
  <2> QED  BY <2>1, <2>2
<1>2. FInv /\ IInv /\ [Next]_vars => FInv'
  <2>1. IInv /\ [Next]_vars => TypeInv'
    BY NextIInv DEF IInv
  <2> QED  BY <2>1, FreedKept
<1>3. FInv => SessionsAreFreed
  BY DEF Freed, Live, SessionsAreFreed
<1> QED  BY <1>1, <1>2, <1>3, IInvAlways, PTL DEF Spec
=============================================================================
