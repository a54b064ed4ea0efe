--------------------------- MODULE WorkerRuntime ---------------------------
(***************************************************************************)
(* The GPU worker: crates/latticed/src/runtime.rs, with the part of        *)
(* lattice-net/src/rpc.rs that calls it and holds what it returns.         *)
(*                                                                         *)
(* Three kinds of task share one WorkerRuntime:                            *)
(*   - the registration loop calls authorize when the master's connection  *)
(*     is registered and when it closes;                                   *)
(*   - every InferenceRpc stream runs connect (acquire, address, the dial  *)
(*     loop) and then keeps the permit until its tunnel ends;              *)
(*   - every InferenceInfo request runs capabilities on a blocking thread. *)
(* They meet in the State mutex (master, server), in the one-permit        *)
(* semaphore (slot) and in the child process.  A step is what one task     *)
(* does between two points where another can run: a lock region or an      *)
(* await.  Clocks are abstracted: a timeout may fire whenever the code is  *)
(* at an await it bounds.                                                  *)
(***************************************************************************)
CONSTANTS Devices,    \* paired devices: any of them may open streams
          Streams,    \* InferenceRpc streams open at once
          Queries,    \* InferenceInfo requests in progress at once
          Ports,      \* loopback ports the kernel may hand out
          NoDevice, NoPort, Free

ASSUME RuntimeAssumption ==
  /\ NoDevice \notin Devices
  /\ NoPort \notin Ports
  /\ Free \notin Streams \cup Queries
  /\ Streams \cap Queries = {}

VARIABLES
  master,     \* State.master
  server,     \* State.server with its child: [status, port, owner]
  slot,       \* holder of the semaphore's only permit, or Free
  pc,         \* pc[s]: where stream s is inside rpc::serve
  from,       \* from[s]: the device that opened stream s
  addr,       \* addr[s]: what address() returned to stream s
  sock,       \* sock[s]: "live" while its TcpStream reaches a running server
  expired,    \* expired[s]: the 90 s deadline of the dial loop has passed
  qpc, qfrom  \* the same for capability queries

streamVars == <<pc, from, addr, sock, expired>>
queryVars == <<qpc, qfrom>>
vars == <<master, server, slot, pc, from, addr, sock, expired, qpc, qfrom>>

Status == {"none", "starting", "listening", "exited"}
Server == [status : Status, port : Ports \cup {NoPort},
           owner : Devices \cup {NoDevice}]
NoServer == [status |-> "none", port |-> NoPort, owner |-> NoDevice]

(* The stream states in which connect holds the permit, and those in which *)
(* it has an address to dial.                                              *)
Dialing == {"loop", "dial", "sleep", "connected"}
Holding == {"granted", "owned"} \cup Dialing \cup {"tunnel"}
StreamState == {"idle", "waiting"} \cup Holding
QueryState == {"idle", "checked", "probing", "probed", "busy"}

Init ==
  /\ master = NoDevice
  /\ server = NoServer
  /\ slot = Free
  /\ pc = [s \in Streams |-> "idle"]
  /\ from = [s \in Streams |-> NoDevice]
  /\ addr = [s \in Streams |-> NoPort]
  /\ sock = [s \in Streams |-> "none"]
  /\ expired = [s \in Streams |-> FALSE]
  /\ qpc = [q \in Queries |-> "idle"]
  /\ qfrom = [q \in Queries |-> NoDevice]
-----------------------------------------------------------------------------
(* What the handlers share. *)

(* check_health(d) returns Ok; it rejects anyone but the master, and       *)
(* notices a child that exited.  No server at all is healthy.              *)
Healthy(d) == master = d /\ server.status # "exited"

(* What check_health(d) leaves in State: the exit it noticed is reaped. *)
Reaped(d) == IF master = d /\ server.status = "exited" THEN NoServer ELSE server

(* The sockets once the child process is gone. *)
Severed == [s \in Streams |-> IF sock[s] = "live" THEN "dead" ELSE sock[s]]

(* Stream s returns from rpc::serve: what it held is dropped. *)
Leave(s) ==
  /\ pc' = [pc EXCEPT ![s] = "idle"]
  /\ from' = [from EXCEPT ![s] = NoDevice]
  /\ addr' = [addr EXCEPT ![s] = NoPort]
  /\ sock' = [sock EXCEPT ![s] = "none"]
  /\ expired' = [expired EXCEPT ![s] = FALSE]
  /\ slot' = IF slot = s THEN Free ELSE slot

Goto(s, state) == pc' = [pc EXCEPT ![s] = state]

(* A released permit is handed to a waiter before anyone can barge in, so  *)
(* try_acquire finds none while somebody waits.  The semaphore serves      *)
(* waiters in order of arrival; here any of them may be next.              *)
PermitAvailable == slot = Free /\ \A s \in Streams : pc[s] # "waiting"
-----------------------------------------------------------------------------
(* Mutant: the record is cleared but the child is not killed. *)
authorizeLeaksChild(m) ==
  /\ master # m
  /\ master' = m
  /\ server' = NoServer
  /\ UNCHANGED <<slot, streamVars, queryVars>>

(* Mutant: the new master inherits the old master's server. *)
authorizeKeepsServer(m) ==
  /\ master # m
  /\ master' = m
  /\ UNCHANGED <<server, slot, streamVars, queryVars>>

(* authorize(m): a change of master kills the child and forgets it, in one *)
(* lock region.                                                            *)
authorize(m) ==
  /\ master # m
  /\ master' = m
  /\ server' = NoServer
  /\ sock' = Severed
  /\ UNCHANGED <<slot, pc, from, addr, expired, queryVars>>

(* The registration loop authorizes a master once it has registered, and   *)
(* nobody when that connection closes or the worker stops.                 *)
Registered(d) == master = NoDevice /\ authorize(d)
Disconnected == authorize(NoDevice)
-----------------------------------------------------------------------------
(* connect(from), run by rpc::serve for one stream. *)

(* acquire, first half: refused outright, or queued on the semaphore. *)
Open(s, d) ==
  /\ pc[s] = "idle"
  /\ Healthy(d)
  /\ Goto(s, "waiting")
  /\ from' = [from EXCEPT ![s] = d]
  /\ UNCHANGED <<master, server, slot, addr, sock, expired, queryVars>>

(* Refused at once; check_health has reaped the child if it had exited. *)
OpenRefused(s, d) ==
  /\ pc[s] = "idle"
  /\ ~ Healthy(d)
  /\ server' = Reaped(d)
  /\ UNCHANGED <<master, slot, streamVars, queryVars>>

WaitTimeout(s) ==
  /\ pc[s] = "waiting"
  /\ Leave(s)
  /\ UNCHANGED <<master, server, queryVars>>

(* Mutant: a semaphore with a permit to spare. *)
GrantedTwice(s) ==
  /\ pc[s] = "waiting"
  /\ slot' = s
  /\ Goto(s, "granted")
  /\ UNCHANGED <<master, server, from, addr, sock, expired, queryVars>>

Granted(s) ==
  /\ pc[s] = "waiting"
  /\ slot = Free
  /\ slot' = s
  /\ Goto(s, "granted")
  /\ UNCHANGED <<master, server, from, addr, sock, expired, queryVars>>

(* acquire, second half: the world may have changed during the wait. *)
Recheck(s) ==
  /\ pc[s] = "granted"
  /\ server' = Reaped(from[s])
  /\ \/ /\ Healthy(from[s])
        /\ Goto(s, "owned")
        /\ UNCHANGED <<slot, from, addr, sock, expired>>
     \/ ~ Healthy(from[s]) /\ Leave(s)
  /\ UNCHANGED <<master, queryVars>>

(* address: reuse the running child, ... *)
Reuse(s) ==
  /\ pc[s] = "owned"
  /\ master = from[s]
  /\ server.status \in {"starting", "listening"}
  /\ addr' = [addr EXCEPT ![s] = server.port]
  /\ Goto(s, "loop")
  /\ UNCHANGED <<master, server, slot, from, sock, expired, queryVars>>

(* ... or spawn one on a port the kernel picked, ... *)
Start(s) ==
  /\ pc[s] = "owned"
  /\ master = from[s]
  /\ server.status \in {"none", "exited"}
  /\ \E p \in Ports :
       /\ server' = [status |-> "starting", port |-> p, owner |-> from[s]]
       /\ addr' = [addr EXCEPT ![s] = p]
  /\ Goto(s, "loop")
  /\ UNCHANGED <<master, slot, from, sock, expired, queryVars>>

(* ... or fail: not the master any more, or the child did not spawn.       *)
AddressFails(s) ==
  /\ pc[s] = "owned"
  /\ \/ master # from[s] /\ UNCHANGED server
     \/ /\ master = from[s]
        /\ server.status \in {"none", "exited"}
        /\ server' = NoServer
  /\ Leave(s)
  /\ UNCHANGED <<master, queryVars>>

(* The dial loop: health, then a connection attempt, then a nap. *)
LoopCheck(s) ==
  /\ pc[s] = "loop"
  /\ server' = Reaped(from[s])
  /\ \/ /\ Healthy(from[s])
        /\ Goto(s, "dial")
        /\ UNCHANGED <<slot, from, addr, sock, expired>>
     \/ ~ Healthy(from[s]) /\ Leave(s)
  /\ UNCHANGED <<master, queryVars>>

(* An address only answers while a child listens on it. *)
Reachable(s) == server.status = "listening" /\ server.port = addr[s]

DialSucceeds(s) ==
  /\ pc[s] = "dial"
  /\ Reachable(s)
  /\ sock' = [sock EXCEPT ![s] = "live"]
  /\ Goto(s, "connected")
  /\ UNCHANGED <<master, server, slot, from, addr, expired, queryVars>>

(* Mutant: the loop forgets its deadline. *)
DialFailsForever(s) ==
  /\ pc[s] = "dial"
  /\ ~ Reachable(s)
  /\ Goto(s, "sleep")
  /\ UNCHANGED <<master, server, slot, from, addr, sock, expired, queryVars>>

DialFails(s) ==
  /\ pc[s] = "dial"
  /\ ~ Reachable(s)
  /\ \/ expired[s] /\ Leave(s)
     \/ ~ expired[s] /\ Goto(s, "sleep") /\ UNCHANGED <<slot, from, addr, sock, expired>>
  /\ UNCHANGED <<master, server, queryVars>>

Wake(s) ==
  /\ pc[s] = "sleep"
  /\ Goto(s, "loop")
  /\ UNCHANGED <<master, server, slot, from, addr, sock, expired, queryVars>>

Deadline(s) ==
  /\ pc[s] \in {"loop", "dial", "sleep"}
  /\ ~ expired[s]
  /\ expired' = [expired EXCEPT ![s] = TRUE]
  /\ UNCHANGED <<master, server, slot, pc, from, addr, sock, queryVars>>

(* Mutant: the session is returned without its permit. *)
FinalCheckDropsPermit(s) ==
  /\ pc[s] = "connected"
  /\ Healthy(from[s])
  /\ Goto(s, "tunnel")
  /\ slot' = Free
  /\ UNCHANGED <<master, server, from, addr, sock, expired, queryVars>>

(* The check after the dial; success hands stream and permit to the tunnel.*)
FinalCheck(s) ==
  /\ pc[s] = "connected"
  /\ server' = Reaped(from[s])
  /\ \/ /\ Healthy(from[s])
        /\ Goto(s, "tunnel")
        /\ UNCHANGED <<slot, from, addr, sock, expired>>
     \/ ~ Healthy(from[s]) /\ Leave(s)
  /\ UNCHANGED <<master, queryVars>>

(* rpc::serve drops the connect future at the await it is suspended in. *)
HandshakeTimeout(s) ==
  /\ pc[s] \in {"waiting", "dial", "sleep"}
  /\ Leave(s)
  /\ UNCHANGED <<master, server, queryVars>>

(* The acknowledgement cannot be written, the peer closes or goes away, or *)
(* a byte meets a dead socket: the tunnel ends and the permit is dropped.  *)
TunnelEnds(s) ==
  /\ pc[s] = "tunnel"
  /\ Leave(s)
  /\ UNCHANGED <<master, server, queryVars>>
-----------------------------------------------------------------------------
(* capabilities(from), run on a blocking thread: never cancelled. *)

QueryCheck(q, d) ==
  /\ qpc[q] = "idle"
  /\ server' = Reaped(d)
  /\ \/ /\ Healthy(d)
        /\ qpc' = [qpc EXCEPT ![q] = "checked"]
        /\ qfrom' = [qfrom EXCEPT ![q] = d]
     \/ ~ Healthy(d) /\ UNCHANGED queryVars
  /\ UNCHANGED <<master, slot, streamVars>>

QueryTry(q) ==
  /\ qpc[q] = "checked"
  /\ \/ /\ PermitAvailable
        /\ slot' = q
        /\ qpc' = [qpc EXCEPT ![q] = "probing"]
     \/ /\ ~ PermitAvailable
        /\ qpc' = [qpc EXCEPT ![q] = "busy"]
        /\ UNCHANGED slot
  /\ UNCHANGED <<master, server, streamVars, qfrom>>

QueryDone(q) ==
  /\ qpc' = [qpc EXCEPT ![q] = "idle"]
  /\ qfrom' = [qfrom EXCEPT ![q] = NoDevice]
  /\ slot' = IF slot = q THEN Free ELSE slot

(* engine.devices() reports within its own deadline, or the query fails. *)
Probe(q) ==
  /\ qpc[q] = "probing"
  /\ \/ qpc' = [qpc EXCEPT ![q] = "probed"] /\ UNCHANGED <<qfrom, slot>>
     \/ QueryDone(q)
  /\ UNCHANGED <<master, server, streamVars>>

QueryAnswer(q) ==
  /\ qpc[q] \in {"probed", "busy"}
  /\ server' = Reaped(qfrom[q])
  /\ QueryDone(q)
  /\ UNCHANGED <<master, streamVars>>
-----------------------------------------------------------------------------
(* The child process. *)

ServerListens ==
  /\ server.status = "starting"
  /\ server' = [server EXCEPT !.status = "listening"]
  /\ UNCHANGED <<master, slot, streamVars, queryVars>>

ServerExits ==
  /\ server.status \in {"starting", "listening"}
  /\ server' = [server EXCEPT !.status = "exited"]
  /\ sock' = Severed
  /\ UNCHANGED <<master, slot, pc, from, addr, expired, queryVars>>
-----------------------------------------------------------------------------
Acquire(s) == WaitTimeout(s) \/ Granted(s) \/ Recheck(s)
Address(s) == Reuse(s) \/ Start(s) \/ AddressFails(s)
Dial(s) == LoopCheck(s) \/ DialSucceeds(s) \/ DialFails(s) \/ Wake(s) \/ FinalCheck(s)
Query(q) == QueryTry(q) \/ Probe(q) \/ QueryAnswer(q)

Next ==
  \/ \E d \in Devices : Registered(d)
  \/ Disconnected
  \/ \E s \in Streams, d \in Devices : Open(s, d) \/ OpenRefused(s, d)
  \/ \E s \in Streams :
       \/ Acquire(s) \/ Address(s) \/ Dial(s)
       \/ Deadline(s) \/ HandshakeTimeout(s) \/ TunnelEnds(s)
  \/ \E q \in Queries, d \in Devices : QueryCheck(q, d)
  \/ \E q \in Queries : Query(q)
  \/ ServerListens
  \/ ServerExits

Spec == Init /\ [][Next]_vars

(* tokio keeps polling a task that can run, its timers fire, and the       *)
(* blocking pool finishes what it started.  Nothing is assumed of the      *)
(* master, of the peer behind a stream or of the child process.            *)
Fairness ==
  /\ \A s \in Streams :
       /\ WF_vars(Acquire(s))
       /\ WF_vars(Address(s))
       /\ WF_vars(Dial(s))
       /\ WF_vars(Deadline(s))
  /\ \A q \in Queries : WF_vars(Query(q))

FairSpec == Spec /\ Fairness
-----------------------------------------------------------------------------
(* Every variable keeps its shape, and what the code unwraps is there: a   *)
(* stream past its first check knows its peer, one past address() its      *)
(* port, and a server record its port and its owner.                       *)
TypeOK ==
  /\ master \in Devices \cup {NoDevice}
  /\ server \in Server
  /\ slot \in Streams \cup Queries \cup {Free}
  /\ pc \in [Streams -> StreamState]
  /\ from \in [Streams -> Devices \cup {NoDevice}]
  /\ addr \in [Streams -> Ports \cup {NoPort}]
  /\ sock \in [Streams -> {"none", "live", "dead"}]
  /\ expired \in [Streams -> BOOLEAN]
  /\ qpc \in [Queries -> QueryState]
  /\ qfrom \in [Queries -> Devices \cup {NoDevice}]
  /\ \A s \in Streams : pc[s] # "idle" => from[s] \in Devices
  /\ \A s \in Streams : pc[s] \in Dialing \cup {"tunnel"} => addr[s] \in Ports
  /\ server # NoServer => server.port \in Ports /\ server.owner \in Devices

(* Whatever authorize, the dial loop and the checks around its awaits      *)
(* interleave to, a socket that reaches the GPU server belongs to the      *)
(* device registered as master now, not to the one registered when the     *)
(* socket was requested.                                                   *)
MasterOnly == \A s \in Streams : sock[s] = "live" => from[s] = master

(* "Only one chat can use a worker at a time": two streams never reach the *)
(* GPU server together, and the memory figures of a capability query are   *)
(* taken while no stream does.                                             *)
GpuExclusive ==
  /\ \A s, t \in Streams : sock[s] = "live" /\ sock[t] = "live" => s = t
  /\ (\E q \in Queries : qpc[q] \in {"probing", "probed"})
       => \A s \in Streams : sock[s] # "live"

(* The address a stream took from under the lock and keeps dialling after  *)
(* it is still right whenever there is a server at all: nobody replaces    *)
(* the server behind the back of the stream that is waiting for it.        *)
DialsCurrentServer ==
  \A s \in Streams : pc[s] \in Dialing /\ server # NoServer => addr[s] = server.port

(* Each stream gets its acknowledgement and each capability query its      *)
(* answer, however the wait for the permit, the child's start-up and the   *)
(* master's comings and goings turn out.                                   *)
EveryRequestAnswered ==
  /\ \A s \in Streams : pc[s] # "idle" ~> pc[s] \in {"idle", "tunnel"}
  /\ \A q \in Queries : qpc[q] # "idle" ~> qpc[q] = "idle"

(* The runtime implements the lease: the user is the device behind the     *)
(* tunnel that reaches the server.                                         *)
Users == {s \in Streams : pc[s] = "tunnel" /\ sock[s] = "live"}
user == IF Users = {} THEN NoDevice ELSE from[CHOOSE s \in Users : TRUE]
Lease == INSTANCE GpuLease WITH master <- master, user <- user
ImplementsLease == Lease!LeaseSpec
=============================================================================
