---------------------------- MODULE Registration ----------------------------
(***************************************************************************)
(* How a paired worker registers with the master and what the master does  *)
(* with it: the connect and register loop of latticed/src/startup/         *)
(* worker.rs, the handlers, the bounded queue and the worker registry of   *)
(* startup/master.rs, and the introductions it sends (node.rs).            *)
(*                                                                         *)
(* A connection has two ends that close independently.  A handler runs on  *)
(* a blocking thread of its own: it may run long after its request came,   *)
(* and after the connection is gone.  A worker's connections are slots it  *)
(* uses again once nobody refers to them.                                  *)
(***************************************************************************)
EXTENDS Naturals, Sequences

CONSTANTS Workers,
          Slots,       \* the connections a worker can have at once
          None,        \* no connection
          QueueCap,    \* the capacity of the queue of registrations
          MaxFaults    \* bound on timeouts, losses, restarts and failed introductions

ASSUME RegistrationAssumption ==
  /\ None \notin Workers \X Slots
  /\ QueueCap \in Nat \ {0}
  /\ MaxFaults \in Nat

Conns == Workers \X Slots
worker(c) == c[1]
Ends == {"worker", "master"}

VARIABLES
  paired,     \* the workers in the master's trust store
  phase,      \* phase[w]: "search", "asking" or "registered"
  cur,        \* cur[w]: the connection of worker w's loop, or None
  up,         \* up[c]: the ends at which c is open
  request,    \* request[c]: "none", "sent", "ok" or "busy"
  queue,      \* the registrations waiting for the workers task
  live,       \* live[w]: the registry
  watch,      \* watch[c]: the task that waits for the end of c
  roster,     \* roster[c]: the introductions on their way over c
  knows,      \* knows[w]: the workers w's trust store was told about
  overtaken,  \* a handler was overtaken by one of a newer connection
  missed,     \* an introduction was lost on a connection that stayed
  faults      \* faults so far

taskVars == <<queue, live, watch>>
introVars == <<roster, knows, missed>>
vars == <<paired, phase, cur, up, request, taskVars, introVars, overtaken, faults>>

Init ==
  /\ paired = {}
  /\ phase = [w \in Workers |-> "search"]
  /\ cur = [w \in Workers |-> None]
  /\ up = [c \in Conns |-> {}]
  /\ request = [c \in Conns |-> "none"]
  /\ queue = <<>>
  /\ live = [w \in Workers |-> None]
  /\ watch = [c \in Conns |-> "none"]
  /\ roster = [c \in Conns |-> {}]
  /\ knows = [w \in Workers |-> {}]
  /\ overtaken = FALSE
  /\ missed = FALSE
  /\ faults = 0
-----------------------------------------------------------------------------
Queued(c) == \E i \in 1..Len(queue) : queue[i] = c
Fault == faults < MaxFaults /\ faults' = faults + 1

(* Nobody refers to this connection any more. *)
Unused(c) ==
  /\ up[c] = {}
  /\ request[c] # "sent" /\ ~ Queued(c)
  /\ watch[c] = "none" /\ roster[c] = {}

(* Worker w pairs with the master (module Pairing). *)
Pairs(w) ==
  /\ w \notin paired
  /\ paired' = paired \cup {w}
  /\ UNCHANGED <<phase, cur, up, request, taskVars, introVars, overtaken, faults>>

(* The loop connects, serves the connection and sends RegisterWorker. *)
Connects(w, c) ==
  /\ w \in paired /\ phase[w] = "search"
  /\ worker(c) = w /\ Unused(c)
  /\ phase' = [phase EXCEPT ![w] = "asking"]
  /\ cur' = [cur EXCEPT ![w] = c]
  /\ up' = [up EXCEPT ![c] = Ends]
  /\ request' = [request EXCEPT ![c] = "sent"]
  /\ UNCHANGED <<paired, taskVars, introVars, overtaken, faults>>

(* The worker goes back to searching: its end of the connection closes. *)
Drops(w) ==
  /\ phase' = [phase EXCEPT ![w] = "search"]
  /\ cur' = [cur EXCEPT ![w] = None]
  /\ up' = [up EXCEPT ![cur[w]] = @ \ {"worker"}]

(* WorkerRegistered arrives: authorize_master, and wait for the end. *)
Registers(w) ==
  /\ phase[w] = "asking" /\ request[cur[w]] = "ok" /\ "worker" \in up[cur[w]]
  /\ phase' = [phase EXCEPT ![w] = "registered"]
  /\ UNCHANGED <<paired, cur, up, request, taskVars, introVars, overtaken, faults>>

(* Mutant: any answer at all is taken for WorkerRegistered. *)
RefusedIgnored(w) ==
  /\ phase[w] = "asking" /\ request[cur[w]] = "busy"
  /\ phase' = [phase EXCEPT ![w] = "registered"]
  /\ UNCHANGED <<paired, cur, up, request, taskVars, introVars, overtaken, faults>>

(* "master is busy; retry shortly" *)
Refused(w) ==
  /\ phase[w] = "asking" /\ request[cur[w]] = "busy"
  /\ Drops(w)
  /\ UNCHANGED <<paired, request, taskVars, introVars, overtaken, faults>>

(* The connection has closed, while registering or after. *)
Disconnected(w) ==
  /\ phase[w] # "search" /\ "worker" \notin up[cur[w]]
  /\ Drops(w)
  /\ UNCHANGED <<paired, request, taskVars, introVars, overtaken, faults>>

(* "Master registration timed out", or the worker is started again. *)
WorkerFails(w) ==
  /\ phase[w] # "search"
  /\ Fault
  /\ Drops(w)
  /\ UNCHANGED <<paired, request, taskVars, introVars, overtaken>>
-----------------------------------------------------------------------------
(* A close made at one end reaches the other. *)
CloseArrives(c) ==
  /\ \E e \in Ends : up[c] = {e}
  /\ up' = [up EXCEPT ![c] = {}]
  /\ UNCHANGED <<paired, phase, cur, request, taskVars, introVars, overtaken, faults>>

(* The master has not heard from the worker for the idle timeout. *)
IdleTimeout(c) ==
  /\ "master" \in up[c]
  /\ Fault
  /\ up' = [up EXCEPT ![c] = @ \ {"master"}]
  /\ UNCHANGED <<paired, phase, cur, request, taskVars, introVars, overtaken>>
-----------------------------------------------------------------------------
(* The master. *)

(* MasterHandler::handle, on its own thread: try_send never waits. *)
handle(c) ==
  /\ request[c] = "sent"
  /\ \/ /\ Len(queue) < QueueCap
        /\ queue' = Append(queue, c)
        /\ request' = [request EXCEPT ![c] = "ok"]
        /\ overtaken' = (overtaken \/
             \E d \in Conns : d # c /\ d = cur[worker(c)] /\ request[d] = "ok")
     \/ /\ Len(queue) >= QueueCap
        /\ request' = [request EXCEPT ![c] = "busy"]
        /\ UNCHANGED <<queue, overtaken>>
  /\ UNCHANGED <<paired, phase, cur, up, live, watch, introVars, faults>>

(* The connection closed before the request was read. *)
NeverRead(c) ==
  /\ request[c] = "sent" /\ up[c] # Ends
  /\ request' = [request EXCEPT ![c] = "none"]
  /\ UNCHANGED <<paired, phase, cur, up, taskVars, introVars, overtaken, faults>>

(* Mutant: only the newcomer is told. *)
JoinsTellsNewcomer ==
  /\ queue # <<>>
  /\ LET c == Head(queue) IN
     /\ live' = [live EXCEPT ![worker(c)] = c]
     /\ watch' = [watch EXCEPT ![c] = "probing"]
     /\ roster' = [roster EXCEPT ![c] = @ \cup (paired \ {worker(c)})]
  /\ queue' = Tail(queue)
  /\ UNCHANGED <<paired, phase, cur, up, request, knows, missed, overtaken, faults>>

(* The workers task takes a registration, which may be of a connection     *)
(* that has closed; it introduces everyone in the trust store to every     *)
(* registered worker and starts to test and watch this one.                *)
Joins ==
  /\ queue # <<>>
  /\ LET c == Head(queue) IN
     /\ live' = [live EXCEPT ![worker(c)] = c]
     /\ watch' = [watch EXCEPT ![c] = "probing"]
  /\ roster' = [x \in Conns |->
       IF live'[worker(x)] = x THEN roster[x] \cup (paired \ {worker(x)}) ELSE roster[x]]
  /\ queue' = Tail(queue)
  /\ UNCHANGED <<paired, phase, cur, up, request, knows, missed, overtaken, faults>>

(* Mutant: a worker that cannot be tested is not watched. *)
ProbedOnly(c) ==
  /\ watch[c] = "probing"
  /\ watch' = [watch EXCEPT ![c] = IF up[c] = Ends THEN "waiting" ELSE "none"]
  /\ UNCHANGED <<paired, phase, cur, up, request, queue, live, introVars, overtaken, faults>>

(* The test of the worker's listener is over, well or not. *)
Probed(c) ==
  /\ watch[c] = "probing"
  /\ watch' = [watch EXCEPT ![c] = "waiting"]
  /\ UNCHANGED <<paired, phase, cur, up, request, queue, live, introVars, overtaken, faults>>

(* Mutant: the registry's entry goes, whoever's it is by now. *)
RemovesAny(c) ==
  /\ watch[c] = "waiting" /\ "master" \notin up[c]
  /\ watch' = [watch EXCEPT ![c] = "none"]
  /\ live' = [live EXCEPT ![worker(c)] = None]
  /\ UNCHANGED <<paired, phase, cur, up, request, queue, introVars, overtaken, faults>>

(* The connection is closed: its entry goes, unless a newer one is there. *)
Removes(c) ==
  /\ watch[c] = "waiting" /\ "master" \notin up[c]
  /\ watch' = [watch EXCEPT ![c] = "none"]
  /\ live' = [live EXCEPT ![worker(c)] = IF @ = c THEN None ELSE @]
  /\ UNCHANGED <<paired, phase, cur, up, request, queue, introVars, overtaken, faults>>

(* The worker stores whom it was not told about before. *)
Introduced(c) ==
  /\ roster[c] # {} /\ up[c] = Ends
  /\ knows' = [knows EXCEPT ![worker(c)] = @ \cup roster[c]]
  /\ roster' = [roster EXCEPT ![c] = {}]
  /\ UNCHANGED <<paired, phase, cur, up, request, taskVars, missed, overtaken, faults>>

(* The request fails with its connection, or by itself; nobody repeats it. *)
IntroductionFails(c) ==
  /\ roster[c] # {}
  /\ \/ up[c] # Ends /\ UNCHANGED <<missed, faults>>
     \/ up[c] = Ends /\ Fault /\ missed' = TRUE
  /\ roster' = [roster EXCEPT ![c] = {}]
  /\ UNCHANGED <<paired, phase, cur, up, request, taskVars, knows, overtaken>>

(* The master is started again: the trust store is all that is left. *)
MasterRestarts ==
  /\ Fault
  /\ up' = [c \in Conns |-> up[c] \ {"master"}]
  /\ request' = [c \in Conns |-> IF request[c] = "sent" THEN "none" ELSE request[c]]
  /\ queue' = <<>>
  /\ live' = [w \in Workers |-> None]
  /\ watch' = [c \in Conns |-> "none"]
  /\ roster' = [c \in Conns |-> {}]
  /\ UNCHANGED <<paired, phase, cur, knows, missed, overtaken>>
-----------------------------------------------------------------------------
WorkerLoop(w) ==
  (\E c \in Conns : Connects(w, c)) \/ Registers(w) \/ Refused(w) \/ Disconnected(w)
Task(c) == handle(c) \/ NeverRead(c) \/ Probed(c) \/ Removes(c)
Introduction(c) == Introduced(c) \/ IntroductionFails(c)

Next ==
  \/ \E w \in Workers : Pairs(w) \/ WorkerLoop(w) \/ WorkerFails(w)
  \/ \E c \in Conns : CloseArrives(c) \/ IdleTimeout(c) \/ Task(c) \/ Introduction(c)
  \/ Joins
  \/ MasterRestarts

Spec == Init /\ [][Next]_vars

(* The loops and tasks run and closes arrive; nobody has to pair, and no   *)
(* introduction has to succeed.                                            *)
FairSpec ==
  /\ Spec
  /\ \A w \in Workers : WF_vars(WorkerLoop(w))
  /\ \A c \in Conns : WF_vars(CloseArrives(c) \/ Task(c) \/ Introduction(c))
  /\ WF_vars(Joins)
-----------------------------------------------------------------------------
(* Every variable keeps its shape, the queue its bound, and nobody is      *)
(* introduced to itself.                                                   *)
TypeOK ==
  /\ paired \subseteq Workers
  /\ phase \in [Workers -> {"search", "asking", "registered"}]
  /\ cur \in [Workers -> Conns \cup {None}]
  /\ \A w \in Workers : cur[w] = None <=> phase[w] = "search"
  /\ up \in [Conns -> SUBSET Ends]
  /\ request \in [Conns -> {"none", "sent", "ok", "busy"}]
  /\ queue \in Seq(Conns) /\ Len(queue) <= QueueCap
  /\ live \in [Workers -> Conns \cup {None}]
  /\ watch \in [Conns -> {"none", "probing", "waiting"}]
  /\ roster \in [Conns -> SUBSET Workers]
  /\ knows \in [Workers -> SUBSET Workers]
  /\ \A w \in Workers : w \notin knows[w]
  /\ overtaken \in BOOLEAN /\ missed \in BOOLEAN
  /\ faults \in 0..MaxFaults

(* The registry is right about a worker that thinks it is registered: once *)
(* its registration is out of the queue, and while its connection is open, *)
(* it is the one the registry names - through reconnects, watchers of old  *)
(* connections and restarts, as long as handlers run in the order of the   *)
(* connections they are for.                                               *)
Holds(w) == phase[w] = "registered" /\ up[cur[w]] = Ends /\ ~ Queued(cur[w])
RegistryNamesCurrent ==
  ~ overtaken => \A w \in Workers : Holds(w) => live[w] = cur[w]

(* Nothing is on its way to anybody. *)
AtRest ==
  /\ queue = <<>>
  /\ \A c \in Conns : request[c] # "sent" /\ roster[c] = {}

(* Workers get to know each other: when everything that was sent has       *)
(* arrived, two registered workers are in each other's trust store, unless *)
(* an introduction was lost or a handler overtaken.                        *)
MutuallyIntroduced ==
  AtRest /\ ~ missed /\ ~ overtaken =>
    \A v, w \in Workers : v # w /\ Holds(v) /\ Holds(w) => v \in knows[w]

(* Once nothing fails any more, the registry holds no closed connection,   *)
(* not even one whose registration was taken after it had closed.          *)
GhostsLeave == <>[](\A w \in Workers : live[w] # None => up[live[w]] # {})

(* A paired worker ends up registered and stays so, once nothing fails any *)
(* more, and the registry names its connection unless a handler was        *)
(* overtaken: through a full queue, lost answers and restarts of either    *)
(* side.                                                                   *)
WorkersRegister ==
  <>[](\A w \in paired :
         phase[w] = "registered" /\ up[cur[w]] = Ends /\ (overtaken \/ live[w] = cur[w]))
=============================================================================
