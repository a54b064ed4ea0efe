------------------------------ MODULE Pipeline ------------------------------
(***************************************************************************)
(* Layer-split generation: the decode loop of latticed/src/generate.rs     *)
(* drives a chain of shards, some in its own process and some behind an    *)
(* activation stream (lattice-net/src/activation.rs) on a follower, whose  *)
(* shard thread (latticed/src/node.rs) owns one CandleShard                *)
(* (lattice-engine/src/candle.rs) with one KV cache.                       *)
(*                                                                         *)
(* A run is one call of generate::run by one master process.  Any number   *)
(* of masters may use the same follower: the follower runs the jobs of all *)
(* its streams one at a time, in the order they happen to arrive.  All     *)
(* masters call their session SESSION = 1 and send generation 0, and the   *)
(* follower looks at neither generation nor sender.                        *)
(*                                                                         *)
(* Tensors are abstracted to what says whether they are right: a payload   *)
(* knows its kind, how many layers it has been through in order and        *)
(* whether every one of them saw the right context; a cache entry knows    *)
(* whose token it is and at which position.                                *)
(***************************************************************************)
EXTENDS Naturals, Sequences

CONSTANTS Layers,      \* layers of the model
          Followers,   \* devices that serve shards
          Here,        \* Host::Here
          Runs,        \* calls of generate::run, in any number of processes
          Plans,       \* Plans[r]: the placements run r may be asked for
          PromptLen,   \* tokens in the prompt
          MaxNew,      \* Options::max_new
          NoShard

(* What --place asks for: layers first up to (not including) last, there.  *)
Placement == [first : Nat, last : Nat, host : Followers \cup {Here}]

(* The devices are told from Here and from the local shards <<r, i>>.      *)
ASSUME PipelineAssumption ==
  /\ Layers \in Nat \ {0}
  /\ PromptLen \in Nat \ {0}
  /\ MaxNew \in Nat
  /\ Here \notin Followers
  /\ Followers \cap (Runs \X Nat) = {}
  /\ \A r \in Runs : Plans[r] \subseteq Seq(Placement)

VARIABLES
  places,     \* places[r]: the placements of run r
  phase,      \* phase[r]: where run r is, or how it ended
  stage,      \* stage[r]: the place being opened, or the stage of the traversal
  step,       \* step[r]: tokens sampled so far; 0 while the prompt is prefilled
  payload,    \* payload[r]: what the traversal carries
  good,       \* good[r]: every token run r sampled came from the right logits
  sent,       \* sent[r]: a request to the follower of stage[r] is outstanding
  stream,     \* stream[r][i]: run r's activation stream for stage i
  shard,      \* shard[h]: the CandleShard of a follower or of a local stage
  cut,        \* <<r, f>>: run r's connection to follower f is gone
  disturbed   \* disturbed[r]: another run's job ran on a follower r is using

runVars == <<places, phase, stage, step, payload, good>>
vars == <<places, phase, stage, step, payload, good, sent, stream, shard, cut, disturbed>>

Stages(r) == 1..Len(places[r])
Alive(r) == phase[r] \in {"opening", "running"}

(* The shard behind stage i: a local stage has its own, a peer has one. *)
Host(r, i) == IF places[r][i].host = Here THEN <<r, i>> ELSE places[r][i].host
IsLocal(r) == places[r][stage[r]].host = Here

(* The follower of the current stage can still answer run r. *)
Answerable(r) == Alive(r) /\ <<r, Host(r, stage[r])>> \notin cut

NoPayload == [kind |-> "none", next |-> 0, sound |-> TRUE]
Input == [kind |-> "tokens", next |-> 0, sound |-> TRUE]

Init ==
  /\ places \in [Runs -> UNION {Plans[r] : r \in Runs}]
  /\ \A r \in Runs : places[r] \in Plans[r]
  /\ phase = [r \in Runs |-> "new"]
  /\ stage = [r \in Runs |-> 0]
  /\ step = [r \in Runs |-> 0]
  /\ payload = [r \in Runs |-> NoPayload]
  /\ good = [r \in Runs |-> TRUE]
  /\ sent = [r \in Runs |-> "none"]
  /\ stream = [r \in Runs |-> [i \in Stages(r) |-> "none"]]
  /\ shard = [h \in Followers \cup UNION {{r} \X Stages(r) : r \in Runs} |-> NoShard]
  /\ cut = {}
  /\ disturbed = [r \in Runs |-> FALSE]
-----------------------------------------------------------------------------
(* One CandleShard. *)

Opened(place) == [first |-> place.first, last |-> place.last, active |-> FALSE, kv |-> <<>>]

(* The step run r is at: a prefill from 0, then decodes of one token. *)
Pos(r) == IF step[r] = 0 THEN 0 ELSE PromptLen + step[r] - 1
Tokens(r) == [j \in 1..(IF step[r] = 0 THEN PromptLen ELSE 1) |-> <<r, Pos(r) + j - 1>>]

(* The context those tokens must attend to, themselves included. *)
Context(r) == [j \in 1..(Pos(r) + Len(Tokens(r))) |-> <<r, j - 1>>]

(* Mutant: a first step is refused like any other. *)
ServesActiveOnly(sh, r) == sh # NoShard /\ sh.active

(* decode only serves the active session; prefill makes its own active,    *)
(* and starts from an empty cache if it is new or starts at 0.             *)
Serves(sh, r) == sh # NoShard /\ (step[r] = 0 \/ sh.active)
Activated(sh, r) ==
  IF step[r] = 0 /\ (~ sh.active \/ Pos(r) = 0)
  THEN [sh EXCEPT !.active = TRUE, !.kv = <<>>]
  ELSE sh

(* CandleShard::run takes tokens at the embedding, hidden states elsewhere *)
Takes(sh, kind) == kind = IF sh.first = 0 THEN "tokens" ELSE "hidden"

(* Mutant: the cache starts over at every step. *)
forwardReplaces(sh, r) == [sh EXCEPT !.kv = Tokens(r)]

(* The layers append to the cache and attend to all of it. *)
forward(sh, r) == [sh EXCEPT !.kv = (IF Pos(r) = 0 THEN <<>> ELSE @) \o Tokens(r)]

Output(sh, r) ==
  [kind |-> IF sh.last = Layers THEN "logits" ELSE "hidden",
   next |-> sh.last,
   sound |-> /\ payload[r].sound
             /\ payload[r].next = sh.first
             /\ forward(sh, r).kv = Context(r)]

StepSucceeds(h, r) == Serves(shard[h], r) /\ Takes(shard[h], payload[r].kind)

(* What the step leaves in the shard; a payload of the wrong kind is       *)
(* noticed after prefill has made the session active.                      *)
Stepped(h, r) ==
  IF StepSucceeds(h, r) THEN forward(Activated(shard[h], r), r)
  ELSE IF Serves(shard[h], r) THEN Activated(shard[h], r)
  ELSE shard[h]

Dropped(sh) == IF sh = NoShard THEN sh ELSE [sh EXCEPT !.active = FALSE, !.kv = <<>>]
-----------------------------------------------------------------------------
(* The master. *)

(* Mutant: only the total is checked. *)
check_tilingTotal(p) == p # <<>> /\ p[Len(p)].last = Layers

(* Every layer exactly once, in order. *)
check_tiling(p) ==
  /\ p # <<>>
  /\ \A i \in 1..Len(p) :
       /\ p[i].first = IF i = 1 THEN 0 ELSE p[i - 1].last
       /\ p[i].last > p[i].first
  /\ p[Len(p)].last = Layers

(* The run is over: its streams are finished or dropped with it, and the   *)
(* followers find out later.                                               *)
Leave(r, how) ==
  /\ phase' = [phase EXCEPT ![r] = how]
  /\ stream' = [stream EXCEPT ![r] =
                  [i \in Stages(r) |-> IF @[i] = "open" THEN "closing" ELSE @[i]]]

Advance(r) == stage' = [stage EXCEPT ![r] = @ + 1]

(* Pipeline::open starts. *)
Begin(r) ==
  /\ phase[r] = "new"
  /\ phase' = [phase EXCEPT ![r] = IF check_tiling(places[r]) THEN "opening" ELSE "untiled"]
  /\ stage' = [stage EXCEPT ![r] = 1]
  /\ UNCHANGED <<places, step, payload, good, sent, stream, shard, disturbed, cut>>

OpenHere(r) ==
  /\ phase[r] = "opening" /\ stage[r] \in Stages(r) /\ IsLocal(r)
  /\ shard' = [shard EXCEPT ![Host(r, stage[r])] = Opened(places[r][stage[r]])]
  /\ Advance(r)
  /\ UNCHANGED <<places, phase, step, payload, good, sent, stream, disturbed, cut>>

(* open_remote asks the peer to load its range, ... *)
SendLoad(r) ==
  /\ phase[r] = "opening" /\ stage[r] \in Stages(r) /\ ~ IsLocal(r)
  /\ sent[r] = "none" /\ Answerable(r)
  /\ sent' = [sent EXCEPT ![r] = "load"]
  /\ UNCHANGED <<runVars, stream, shard, disturbed, cut>>

(* Mutant: the traversal starts at the stage opening left off. *)
StartRunLate(r) ==
  /\ phase[r] = "opening" /\ stage[r] \notin Stages(r)
  /\ phase' = [phase EXCEPT ![r] = "running"]
  /\ stage' = [stage EXCEPT ![r] = @ + 1]
  /\ payload' = [payload EXCEPT ![r] = Input]
  /\ UNCHANGED <<places, step, good, sent, stream, shard, disturbed, cut>>

(* All stages are open: the first traversal starts with the prompt. *)
StartRun(r) ==
  /\ phase[r] = "opening" /\ stage[r] \notin Stages(r)
  /\ phase' = [phase EXCEPT ![r] = "running"]
  /\ stage' = [stage EXCEPT ![r] = 1]
  /\ payload' = [payload EXCEPT ![r] = Input]
  /\ UNCHANGED <<places, step, good, sent, stream, shard, disturbed, cut>>

(* Stage::run on a local shard: done on the spot, or the run ends. *)
RunHere(r) ==
  /\ phase[r] = "running" /\ stage[r] \in Stages(r) /\ IsLocal(r)
  /\ LET h == Host(r, stage[r]) IN
     /\ shard' = [shard EXCEPT ![h] = Stepped(h, r)]
     /\ \/ /\ StepSucceeds(h, r)
           /\ payload' = [payload EXCEPT ![r] = Output(Activated(shard[h], r), r)]
           /\ Advance(r)
           /\ UNCHANGED <<phase, stream>>
        \/ /\ ~ StepSucceeds(h, r)
           /\ Leave(r, "refused")
           /\ UNCHANGED <<payload, stage>>
  /\ UNCHANGED <<places, step, good, sent, disturbed, cut>>

SendStep(r) ==
  /\ phase[r] = "running" /\ stage[r] \in Stages(r) /\ ~ IsLocal(r)
  /\ sent[r] = "none" /\ Answerable(r)
  /\ sent' = [sent EXCEPT ![r] = "step"]
  /\ UNCHANGED <<runVars, stream, shard, disturbed, cut>>

(* argmax of what came out of the last stage, then the next traversal, or  *)
(* the end: there is always one token, however small max_new is.           *)
Sample(r) ==
  /\ phase[r] = "running" /\ stage[r] \notin Stages(r)
  /\ \/ /\ payload[r].kind = "logits"
        /\ good' = [good EXCEPT ![r] = @ /\ payload[r].sound /\ payload[r].next = Layers]
        /\ step' = [step EXCEPT ![r] = @ + 1]
        /\ \/ /\ step[r] + 1 < MaxNew
              /\ stage' = [stage EXCEPT ![r] = 1]
              /\ payload' = [payload EXCEPT ![r] = Input]
              /\ UNCHANGED <<phase, stream>>
           \/ /\ step[r] + 1 >= MaxNew
              /\ Leave(r, "done")
              /\ UNCHANGED <<stage, payload>>
     \/ /\ payload[r].kind # "logits"
        /\ Leave(r, "refused")
        /\ UNCHANGED <<good, step, stage, payload>>
  /\ UNCHANGED <<places, sent, shard, disturbed, cut>>

(* The process is killed, or a local load fails. *)
Fails(r) ==
  /\ Alive(r)
  /\ Leave(r, "lost")
  /\ UNCHANGED <<places, stage, step, payload, good, sent, shard, disturbed, cut>>
-----------------------------------------------------------------------------
(* The follower of stage[r]: one job of its shard thread at a time. *)

(* The other runs that have a shard on h are no longer alone there. *)
Disturb(h, r) ==
  disturbed' = [x \in Runs |->
    disturbed[x] \/ (x # r /\ \E i \in Stages(x) : stream[x][i] = "open" /\ Host(x, i) = h)]

(* Job::Load replaces whatever the device held.  The master, if it still   *)
(* waits, opens the activation stream.                                     *)
ExecLoad(r) ==
  /\ sent[r] = "load"
  /\ LET h == Host(r, stage[r]) IN
     /\ shard' = [shard EXCEPT ![h] = Opened(places[r][stage[r]])]
     /\ Disturb(h, r)
  /\ sent' = [sent EXCEPT ![r] = "none"]
  /\ \/ /\ Answerable(r)
        /\ stream' = [stream EXCEPT ![r][stage[r]] = "open"]
        /\ Advance(r)
     \/ ~ Answerable(r) /\ UNCHANGED <<stream, stage>>
  /\ UNCHANGED <<places, phase, step, payload, good, cut>>

(* No model here, another model, or a shard that would not load: what the  *)
(* device held stays.                                                      *)
RefuseLoad(r) ==
  /\ sent[r] = "load"
  /\ sent' = [sent EXCEPT ![r] = "none"]
  /\ \/ Answerable(r) /\ Leave(r, "declined")
     \/ ~ Answerable(r) /\ UNCHANGED <<phase, stream>>
  /\ UNCHANGED <<places, stage, step, payload, good, shard, disturbed, cut>>

(* Job::Run, and its reply if the master still waits. *)
ExecStep(r) ==
  /\ sent[r] = "step"
  /\ stream[r][stage[r]] \in {"open", "closing"}
  /\ LET h == Host(r, stage[r]) IN
     /\ shard' = [shard EXCEPT ![h] = Stepped(h, r)]
     /\ Disturb(h, r)
     /\ \/ /\ Answerable(r) /\ StepSucceeds(h, r)
           /\ payload' = [payload EXCEPT ![r] = Output(Activated(shard[h], r), r)]
           /\ Advance(r)
           /\ UNCHANGED <<phase, stream>>
        \/ /\ Answerable(r) /\ ~ StepSucceeds(h, r)
           /\ Leave(r, "refused")
           /\ UNCHANGED <<payload, stage>>
        \/ ~ Answerable(r) /\ UNCHANGED <<payload, stage, phase, stream>>
  /\ sent' = [sent EXCEPT ![r] = "none"]
  /\ UNCHANGED <<places, step, good, cut>>

(* What was sent over a connection that is gone need not arrive. *)
LoseRequest(r) ==
  /\ sent[r] # "none" /\ ~ Answerable(r)
  /\ sent' = [sent EXCEPT ![r] = "none"]
  /\ UNCHANGED <<runVars, stream, shard, disturbed, cut>>

(* Mutant: the session is only freed when the master said Done. *)
EndStreamOnDone(r, i) ==
  /\ stream[r][i] = "closing"
  /\ ~ (sent[r] = "step" /\ stage[r] = i)
  /\ stream' = [stream EXCEPT ![r][i] = "ended"]
  /\ shard' = IF phase[r] = "done" THEN [shard EXCEPT ![Host(r, i)] = Dropped(@)] ELSE shard
  /\ Disturb(Host(r, i), r)
  /\ UNCHANGED <<runVars, sent, cut>>

(* serve_stream leaves its loop (Done, end of stream, a reply that cannot  *)
(* be delivered) and drops the session, whoever's it is by now.            *)
EndStream(r, i) ==
  /\ stream[r][i] = "closing"
  /\ ~ (sent[r] = "step" /\ stage[r] = i)
  /\ stream' = [stream EXCEPT ![r][i] = "ended"]
  /\ shard' = [shard EXCEPT ![Host(r, i)] = Dropped(@)]
  /\ Disturb(Host(r, i), r)
  /\ UNCHANGED <<runVars, sent, cut>>

(* A connection is lost while both sides live: the follower drops what it  *)
(* served there, the master finds out when it next needs it.               *)
Disconnect(r, f) ==
  /\ Alive(r) /\ <<r, f>> \notin cut
  /\ cut' = cut \cup {<<r, f>>}
  /\ stream' = [stream EXCEPT ![r] = [i \in Stages(r) |->
                  IF Host(r, i) = f /\ @[i] = "open" THEN "closing" ELSE @[i]]]
  /\ UNCHANGED <<runVars, sent, shard, disturbed>>

(* The follower's process restarts: it holds nothing, and every connection *)
(* to it is gone with all that was under way there.                        *)
Restart(f) ==
  /\ shard[f] # NoShard
  /\ shard' = [shard EXCEPT ![f] = NoShard]
  /\ cut' = cut \cup ({r \in Runs : Alive(r)} \X {f})
  /\ stream' = [r \in Runs |-> [i \in Stages(r) |->
                  IF Host(r, i) = f /\ stream[r][i] # "none" THEN "ended" ELSE stream[r][i]]]
  /\ sent' = [r \in Runs |->
                IF sent[r] # "none" /\ Host(r, stage[r]) = f THEN "none" ELSE sent[r]]
  /\ UNCHANGED <<runVars, disturbed>>

(* Mutant: the master waits for a peer that is gone. *)
ConnectionLostWaits(r) ==
  /\ Alive(r) /\ stage[r] \in Stages(r) /\ ~ IsLocal(r) /\ ~ Answerable(r)
  /\ UNCHANGED vars

(* The master needs a connection that is gone. *)
ConnectionLost(r) ==
  /\ Alive(r) /\ stage[r] \in Stages(r) /\ ~ IsLocal(r) /\ ~ Answerable(r)
  /\ Leave(r, "lost")
  /\ UNCHANGED <<places, stage, step, payload, good, sent, shard, disturbed, cut>>
-----------------------------------------------------------------------------
Master(r) == Begin(r) \/ OpenHere(r) \/ SendLoad(r) \/ StartRun(r) \/ RunHere(r)
             \/ SendStep(r) \/ Sample(r) \/ ConnectionLost(r)
Serve(r) == ExecLoad(r) \/ RefuseLoad(r) \/ ExecStep(r) \/ LoseRequest(r)

Next ==
  \/ \E r \in Runs : Master(r) \/ Fails(r) \/ Serve(r)
  \/ \E r \in Runs : \E i \in Stages(r) : EndStream(r, i)
  \/ \E r \in Runs, f \in Followers : Disconnect(r, f)
  \/ \E f \in Followers : Restart(f)

Spec == Init /\ [][Next]_vars

(* A master goes on as long as it can, a shard thread works through its    *)
(* jobs, and a stream its master has left is noticed (the stream's end, or *)
(* QUIC's idle timeout).  Failures and restarts need not happen.           *)
FairSpec ==
  /\ Spec
  /\ \A r \in Runs : WF_vars(Master(r)) /\ WF_vars(Serve(r))
  /\ \A r \in Runs : \A i \in 1..Layers : WF_vars(i \in Stages(r) /\ EndStream(r, i))
-----------------------------------------------------------------------------
Phases == {"new", "opening", "running", "done", "untiled", "declined", "refused", "lost"}
Shard == [first : 0..Layers, last : 0..Layers, active : BOOLEAN,
          kv : Seq(Runs \X (0..(PromptLen + MaxNew)))]

ASSUME NoShardAssumption == NoShard \notin Shard

(* Every variable keeps its shape; a run in the middle of a request to a   *)
(* peer is at a stage that peer has.                                       *)
TypeOK ==
  /\ phase \in [Runs -> Phases]
  /\ step \in [Runs -> 0..(MaxNew + 1)]
  /\ \A r \in Runs :
       /\ places[r] \in Plans[r]
       /\ stage[r] \in 0..(Len(places[r]) + 1)
       /\ stream[r] \in [Stages(r) -> {"none", "open", "closing", "ended"}]
       /\ sent[r] \in {"none", "load", "step"}
       /\ sent[r] # "none" => stage[r] \in Stages(r) /\ ~ IsLocal(r)
       /\ payload[r].kind \in {"none", "tokens", "hidden", "logits"}
       /\ payload[r].next \in 0..Layers
       /\ payload[r].sound \in BOOLEAN
  /\ good \in [Runs -> BOOLEAN]
  /\ cut \subseteq Runs \X Followers
  /\ disturbed \in [Runs -> BOOLEAN]
  /\ \A h \in DOMAIN shard : shard[h] \in Shard \cup {NoShard}

(* No peer holds two of the run's ranges. *)
OnePlaceEach(p) ==
  \A i, j \in 1..Len(p) : p[i].host = p[j].host /\ p[i].host # Here => i = j

(* "Every layer runs exactly once, in order": all logits a run samples     *)
(* from went through every layer once, in order, each over exactly the     *)
(* run's own tokens from 0 to the current position - whatever placement    *)
(* check_tiling let through, and whatever crashes, restarts and earlier    *)
(* runs left behind on the followers - provided no peer was placed twice   *)
(* and no other run's job reached its shards in between.                   *)
UndisturbedRunIsSound ==
  \A r \in Runs : ~ disturbed[r] /\ OnePlaceEach(places[r]) => good[r]

(* And such a run is not refused by a shard either: no unknown session, no *)
(* payload of the wrong kind, no hidden states where logits belong.        *)
UndisturbedRunIsServed ==
  \A r \in Runs : ~ disturbed[r] /\ OnePlaceEach(places[r]) => phase[r] # "refused"

(* "Free this session's KV": a follower has a session active, or anything  *)
(* in its cache, only while some master's stream to it has not ended,      *)
(* however that master went away.                                          *)
SessionsAreFreed ==
  \A f \in Followers : shard[f] # NoShard =>
    /\ shard[f].kv # <<>> => shard[f].active
    /\ shard[f].active => \E r \in Runs : \E i \in Stages(r) :
         Host(r, i) = f /\ stream[r][i] \in {"open", "closing"}

(* Every run ends, and with it every stream and every follower's session.  *)
RunsEnd ==
  <>[] ( /\ \A r \in Runs : ~ Alive(r)
         /\ \A f \in Followers : shard[f] = NoShard \/ ~ shard[f].active )

(* The unconditional claim: every token is sampled from logits that every  *)
(* layer of the model computed once, in order, over the run's own context. *)
EveryTokenIsSound == \A r \in Runs : good[r]
=============================================================================
