# Verification of lattice (p2p distributed inference)

lattice lets the devices on a home network run one language model together.
Devices pair with a six-digit code, remember each other's keys, and talk over
mutually authenticated QUIC. There are two ways to compute: `latticed generate`
chains shards of a model (each device holds a range of layers) and streams
activations between them; `latticed chat` runs llama.cpp on the master and
tunnels its GPU RPC to workers that lend their GPU to the registered master.

This directory holds TLA+ modules that model the code, TLC configurations that
check them on small instances, and TLAPS proofs for every value of the
constants. `PROJECT.json` lists the runs, the theorems, the source lines behind
every definition, the hazards, and the findings.

## Inventory

| Part | State | Operations | Hard behaviour | What makes it correct |
|---|---|---|---|---|
| worker runtime (`runtime.rs`), tunnel (`rpc.rs` serve) | registered master, rpc-server child, one permit | authorize, connect (acquire, address, dial loop), capabilities | the lock is released at every await; the master may change, the child may exit | only the master of *now* reaches the GPU, one user at a time, every request is answered |
| mesh (`mesh.rs`, `transport.rs`) | peer -> connection | connect, accept/adopt, forget | simultaneous opens, closes in flight, stale addresses | both ends keep the same connection |
| generate pipeline (`generate.rs`, `activation.rs`, `node.rs`, `candle.rs`) | stages, streams, one shard and one KV cache per follower | check_tiling, load, prefill/decode, finish, drop | followers restart, masters die, masters overlap | every token comes from all layers, once, over the right context; sessions are freed |
| pairing (`pairing.rs`, `pairing_session.rs`, `startup/worker.rs`, `startup/master.rs`) | two trust stores, the code on the screen | exchange, save, confirm, retry | a connection lost between two saves, codes that change, a save that tears the file of earlier pairings | Ok on one side means both saved; a worker gets to join |
| trust store (`trust.rs`), introductions (`node.rs`), commands (`main.rs`) | map in memory, file on disk | load, insert, remove, save, introduce | several processes load, change and save one file; a crash between truncation and write | revoked stays revoked, paired stays paired, a restart keeps what the daemon knew |
| endpoint (`transport.rs`), accept loops (`main.rs`, `startup.rs`) | queue of incoming connections, one handshake | connect, accept, confirm | a dialer that never finishes, TLS that succeeds too early | only trusted devices get in, a success is a success, everybody gets a turn |
| registration (`startup/master.rs`, `startup/worker.rs`) | bounded queue, worker registry | RegisterWorker, probe, broadcast, remove | a worker's old and new connection overlap | the registry names the live connection |
| chat driver (`chat.rs`), proxies and tunnels (`rpc.rs`) | workers found and used, sockets, streams, half-closed directions | find, connect, check, run; bind, proxy, serve, tunnel | busy is asked before it matters, two chats meet, ends close in either order or break | the engine runs on what was asked, one session per GPU and never a silent local run, no break is taken for the end of the data, the permit comes back |
| planner (`chat/plan.rs`) | feasibility table, cuts | build | windows and boundaries | the split fits the memory it was given, and is found if there is one |
| identity, TLS, discovery, codec, facts, probe, host, scripts | - | - | pure I/O or cryptography | not modelled |

Parts interact through QUIC streams: control requests (LoadShard,
RegisterWorker, introductions, capabilities), activation streams and RPC
tunnels, each dispatched by `dispatch.rs` to a handler of the node. The trust
store decides who may connect at all; the worker's startup loop tells the
runtime who the master is.

## Modules

**GpuLease** is the abstract promise of a worker: a master is registered or
not, and the GPU has at most one user, who is the master. **WorkerRuntime**
models `runtime.rs` with the part of `rpc.rs` that calls it. Each action is what
happens between two awaits or under one lock: `Open`..`Recheck` is acquire,
`Reuse`/`Start`/`AddressFails` is address, `LoopCheck`..`FinalCheck` the dial
loop of connect, `QueryCheck`..`QueryAnswer` capabilities. The rpc-server child
is external: it starts listening and exits when it likes. A socket is "live"
while it leads to a running server and "dead" after; dropping the server severs
it.

**Mesh** models every device's registry and the connections between them. A
connection has two ends that open, are held, and are gone independently, and a
close made at one end reaches the other later. A call of connect looks into the
registry once (`connect`), then dials one address after the other (`connectNext`,
while the last dial is "failed") until one leads to `adopt`, as the code does. A
dial may be answered by a device other than the one wanted.

**Pipeline** models any number of `generate` runs (masters) over shared
followers: `check_tiling`, opening, traversals, sampling, and the follower's
single shard thread. Data is abstracted to what can go wrong with it: a cache is
the sequence of (run, position) it holds, a payload records its kind, the layer
it is ready for and whether all that went into it was right. `MCPipeline` gives
the placements.

**Pairing** models the worker's search loop, the master's pairing loop and the
exchange between them. SPAKE2 is abstracted to its outcome: it succeeds exactly
when both used the same code. Each side's progress is a number (started, sent
its confirmation, saved and said so, saw that the other saved). Either side has a
map while its process runs and a file, which `save` truncates before it writes:
a save that fails, or a process killed in one, may leave it torn
(`WorkerSaveFails`, `IntroductionFails`, `MasterSaveFails`, `MasterStops`), and with
it every earlier pairing is gone. A process does not start on a torn file; its
user removes it (`WorkerRepairs`, `MasterRepairs`), which `lost` records for the
properties. A process that runs keeps its map and mends the file with its next
save. Faults (lost connections, stops, crashes, timeouts, failed saves) are
counted and bounded; what users do is not.

**Registration** continues where Pairing ends: a paired worker connects, asks to
be registered and retries; the master's handler (on a thread of its own, at any
later time) puts the connection into a bounded queue, the workers task takes it
into the registry, introduces everyone to everyone, tests the worker and waits
for the end of the connection to remove it. Both ends of a connection close
independently, and a worker's next connection may overlap the last one. A
refusal other than "busy" (a port of 0, a peer that is no master) is not
reachable between these two programs.

**Planner** is `build` of `plan.rs`, which splits a model's layers among GPUs:
one action per iteration of its loops, so that the table, its sliding window and
the greedy choice can be compared with the definition of an allocation
(`Allocations`) and reasoned about step by step. `MCPlanner` gives the models and
GPUs. Distances are exact where the code rounds to f64; equally near cuts are
taken either way.

**TrustMap** is a daemon and its file without locks or records: the daemon takes
from a readable file whom it trusts when it starts, adds to that until it stops, and
saves nothing but its map; others write what they like, and it does not notice
before the next start. That is what the code does and not what its documentation
says (finding 3). **TrustStore** is the code: the daemon's
map under its lock, its handlers (pairing sessions and introductions), the
commands `pair`, `host` and `unpair` in processes of their own, and the file
between truncation and write. `outside`, `interrupted`, `revoked` and `kept` record
what happened, for the properties. `MCTrustStore` adds symmetry.

**Admission** composes TrustMap (which it extends) with `Endpoint::connect`
against `Endpoint::accept` in the loops that call it: one incoming connection is
taken, judged and greeted while the others wait. `patience` tells `serve`, which
waits as long as that takes, from the loops that drop a call of accept after
REQUEST_TIMEOUT.

**Chat** is a system of chats, links and sockets. A chat finds its workers
(`Locates`), asks one after the other (`NextPlace`, `Asks`, `Answers`), starts the
engine on at least one worker (`Launches`) and ends (`Over`). A link is open for each of its ends
separately. A socket of the engine has a stage at the proxy (`mst`) and at the
worker (`wst`) and the directions each tunnel has finished (`mdir`, `wdir`);
"out" carries what an end reads from its socket, "in" what it reads from the
stream. The GPU server's end of a socket is "ended" once the server has read it to
its end and closed it, and "died" if the server was lost with nothing unread, which
a tunnel cannot tell from that; a loss with data unread breaks the socket. The
worker's permit is the one of WorkerRuntime, whose acquire and dial
are one wait here.

**WorkerRuntimeProofs**, **ConnectionProofs** (Mesh and Admission),
**PipelineProofs**, **PairingProofs**, **RegistrationProofs**, **PlannerProofs**,
**TrustStoreProofs** and **ChatProofs** hold the theorems.

Definitions whose comment starts with "Mutant:" are plausible bugs, each used
to show that a property would notice it; no specification uses them.

## Runs

| Run | Bounds | Shows |
|---|---|---|
| `worker_runtime` | 2 devices, 2 streams, 1 query | MasterOnly, GpuExclusive, DialsCurrentServer, ImplementsLease (refinement of GpuLease), EveryRequestAnswered (liveness) |
| `mesh` | 2 devices, an absent one, 3 connections, 1 dial per peer at a time | OneConnectionPerPeer, RegistriesAgree, SimultaneousOpenSettles |
| `pipeline` | one run with any plan of up to two placements, a second one on the same follower, 2 layers, 3 tokens | UndisturbedRunIsSound, UndisturbedRunIsServed, SessionsAreFreed, RunsEnd (liveness) |
| `pipeline_shared` | two masters on one follower | violates EveryTokenIsSound (finding) |
| `pairing` | 2 workers with `--code`, 2 faults | OkMeansBothSaved, NoFaultNoSplit, WorkerJoins (liveness) |
| `pairing_rerun` | 1 worker without `--code`, 1 fault | violates WorkerJoins (finding) |
| `registration` | 2 workers with 2 overlapping connections each, a queue of 1, 1 fault | RegistryNamesCurrent, MutuallyIntroduced, GhostsLeave and WorkersRegister (liveness) |
| `planner` | models of 1-4 layers (light or heavy, with or without output tensors) and malformed ones, 0-3 GPUs of 4 kinds, 2 contexts, 2 reserves | NextCutExists, PlanFits, RefusedMeansImpossible |
| `trust_store` | 2 devices, a daemon with 2 handlers, 2 commands, 2 kills or failed saves | RestartKeepsTrust, TornOnlyByInterruption, RevocationsLast, PairingsLast, IntroductionsDefer, ImplementsTrustMap (refinement of TrustMap; finding 3) |
| `admission` | 3 devices, 1 restart, either kind of accept loop | OkMeansJudged, AdmittedIsTrusted, EveryDialIsTaken (liveness) |
| `chat` | 2 chats, 2 workers, up to 2 addresses, 2 faults, no sockets | RunsOnWhatWasAsked, LossEndsChat (liveness) |
| `chat_tunnels` | 2 chats, 1 worker, 2 sockets, 1 fault | CleanEndIsWholeEnd, OneSessionPerGpu, PermitsComeBack (liveness) |

Why the bounds are enough to be interesting: two streams and two devices are
what it takes for a session to be overtaken by a new master while another waits
for the permit; three connections allow a simultaneous open plus one redial or
misdirected dial; a chain of a local and a remote stage next to a second run
behind the same follower gives every kind of overlap, and a prompt of two tokens
with three sampled tokens exercises prefill, first decode, a later decode and
the boundaries between them; two workers and two faults allow a fault in an
exchange and another in its repetition, or a torn file that loses the other
worker's pairing and then the stop of the process that could still mend it; two connections per worker and one fault
let a new connection overtake what is left of the old one.

Two commands beside a daemon with two handlers give every pair of processes that
can meet at the file, and two faults a torn file and then the stop of whoever
repaired it. Three dialers put one behind another behind a stuck handshake. The
two runs of Chat divide its questions: which workers an engine starts with needs
two workers and no sockets; who gets the one permit needs two sockets, of one chat
after another or of two, and no choice of workers.

The planner's models reach every way a window can move, including rows that are
skipped, GPUs that fit nothing, and as many GPUs as layers or more.

Deadlock is checked in `worker_runtime`. The other systems really come to rest:
connections are bounded, runs end, and connected workers stay connected, as do
registered ones; the planner returns, dialers and handlers have nothing to do, and
every chat may be over.

A type invariant is checked where it is part of what could go wrong, and proved
for every component.

Fairness. `worker_runtime`: handlers run (tokio polls a ready task), timers fire,
the child's fate is not assumed. `pipeline`: a live master and a live follower
continue, streams that were closed are noticed; nothing is assumed of failures.
`pairing`: both loops run. What users have to do is a premise of WorkerJoins: they
run a stopped process again (a worker with a code read while the master waits with
it), remove a torn file, and stop a worker that only retries. So is that no other
worker is joining meanwhile (the repository's README says to join one at a time).

`registration`: the worker's loop, the master's tasks and threads run, and closes
arrive; nobody has to pair and no introduction has to succeed.

`admission`: the accept loop runs, and so does its timer where it has one (the loops
of master and worker). Nothing is assumed of the peers, except that the loop notices
a dialer that is gone (quinn's idle timeout). `serve` has no timer of its own, so there
EveryDialIsTaken has a premise: dialers finish or leave (`DialersFinish`).

`chat`, `chat_tunnels`: tasks run, timers fire (the two seconds of acquire, the
handshake timeout), a closed connection is noticed by the other end and the GPU
server closes a socket whose end it has read. What the user and the engine do is
owed to nobody: PermitsComeBack only speaks of sockets the engine has closed.

`trust_store` has only safety properties.

## Proofs

All theorems hold for any sets of devices, streams, connections, workers and any
bounds, from the assumptions named in the modules (model values are distinct,
device ids are numbers, bounds are naturals, a plan is a sequence of placements);
one of them adds a hypothesis, named below.

* `WorkerRuntimeProofs`. MasterOnly is not inductive: `IInv` adds that the
  permit is held by exactly the handler that is in a holding stage, that a
  recorded server was started for the current master, that a live socket leads
  to that server, and that whoever is past `address` holds the recorded
  server's address. From it follow TypeOK, MasterOnly, GpuExclusive,
  DialsCurrentServer, and step simulation of GpuLease (`Refinement`).
* `ConnectionProofs`, Mesh. `IInv` adds to the registry's shape that an end which was given
  up is closed, and that a held, open connection is the registered one; the
  agreement of the registries once everything has landed (`QuietAgrees`)
  follows from it alone. `CalmInv` is what a simultaneous open needs on top: while
  nothing fails, a connection is only ever closed, and a device only ever dials the
  same peer again, because the lower of the two devices has dialled too
  (`LowerDialled`). A connection of that one is never closed, so once all has landed
  both ends name it. This theorem assumes `MaxDials <= 1` (see "Known limits").
* `PipelineProofs`. For any model, plans and prompt, and any number of runs and
  followers. `Progress` says where a run can be and what it may be waiting for
  there. `Held` says what the shard behind an open, connected stage of an undisturbed
  run is: the stage's range, with exactly the run's tokens up to this step or, once
  the traversal has passed, its context; `Carries` says the same of the payload.
  `HeldStep` is the step of one shard, and uses what `check_tiling` guarantees
  (`TilingFacts`: every range inside the model, only the first at the embedding and
  only the last at the logits). A step of the system is then one of the run itself
  (`OwnProgress`, `OwnLeaves`, `OwnStays`), a restart (`RestartKeeps`), or another
  run's: `OthersStay` shows that it leaves the run's stages alone unless it marks the
  run disturbed. `SessionsAreFreed` has an invariant of its own (`Freed`), one per
  follower. That ranges do not pass the last layer is an argument backwards along
  the plan; it goes through the least offending range (`LeastNumber`).
* `PairingProofs`. `StoresSound` relates each map to its file (a process that runs
  has in its map what its file named when it was last loaded or written, torn or
  not). `ProgressSound` gives each progress number its meaning in both, except for
  workers in `lost`. `NoFault` says why one side can be out of an exchange the other
  is in: it was finished, or the codes differed.
* `RegistrationProofs`. The registry is right because of the order in the queue:
  `OrderSound` says that, unless a handler was overtaken, whatever is queued for
  a worker is ahead of the registration of its current connection. `NamedSound`
  and `KnownSound` follow it into the registry and the introductions.
* `PlannerProofs`. Prefix sums grow (`PrefixSound`), so the window ends exactly
  after the last cut that fits (`WindowExact`); a filled entry of the table says
  whether some cut leads to a feasible entry of the next row (`TableSound`); every
  allocation passes through feasible entries (`NoneMissed`), and the choice
  follows them (`ChoiceSound`). That prefix sums and rows are built one step at a
  time makes the argument an invariant and not an induction over data.

* `TrustStoreProofs`. `FileSound` relates the file to the map for whoever is
  saving, `LocalsSound` a handler's copy to what was known; with RevocationsLast
  and PairingsLast themselves they are inductive. `MapRefined` maps every step, of the
  daemon and of the commands, to a step of TrustMap or a stutter: `WriteMaps` and
  `TruncateMaps` do so for whoever writes the file.
* `ConnectionProofs`, Admission. A greeting is only sent to a judged dialer (`JudgedFirst`), and
  what was judged stays trusted because the map only grows.
* `ChatProofs`. Whoever is served holds the permit (`PermitSound`). What each
  finished direction says of the sockets is `TunnelSound`, which is why a tunnel that
  reports success has seen both ends, or a server that died. `AskedSound` counts: what
  is left to connect to, the worker being asked and those in use are together what
  was asked for, through every step of the driver.

Every invariant the passing runs check is proved. Only model-checked: the liveness
properties (fairness is outside the prover) and the two violated properties
of findings 1 and 2.

## Findings

1. Two masters sharing a follower silently mix their caches: the session is
   always 1 and the generation is never checked (`pipeline_shared`).
2. A pairing that broke after the worker saved cannot be repaired by running the
   worker again, as it suggests (`pairing_rerun`).
3. A running daemon never reads the trust file again: deleting a line, or `unpair`,
   does not revoke a device before the next start, and the daemon's next insert
   writes the device back. `trust.rs:3-5` says that the file shows exactly which
   machines can reach the model and that deleting a line revokes one. What the code
   does instead is TrustMap, where only `Starts` takes the map from the file, and
   `trust_store` shows that the code implements it (ImplementsTrustMap): this is a
   disagreement with the comment and not a promise.

## Known limits of the code

What the properties above state carefully, because the code does not do more:

* SimultaneousOpenSettles holds with one `Mesh::connect` call per peer at a time
  (`MaxDials = 1`). With two, both connections have the same dialer, each end
  keeps the one it adopted first, and each may close the one the other keeps. The
  safety of the registries does not depend on it.
* `check_tiling` looks at ranges only. A placement that names one peer for two of
  them passes, the second LoadShard replaces the first shard, and tokens come from
  a chain that runs one range twice and the other not at all (`OnePlaceEach` in
  the properties of Pipeline).
* A registration handler of a worker's old connection may run after that of its
  new one and put the dead connection into the registry; the worker is then not
  introduced to those that join later (`overtaken` in Registration).
* `save` writes `trusted_devices.json` in place. A save that fails half-way or is cut
  short loses every earlier pairing in the file, confirmed as they were, and the
  process does not start again before its user removes the file (`lost` in Pairing,
  `interrupted` in TrustStore).
* A command that saves the trust store beside a running daemon is undone by the
  daemon's next save; an introduction overwrites a pairing made while it was being
  handled. TrustStore says exactly when.
* `accept` in `serve` waits for a greeting as long as the dialer stays: a peer that
  connects, answers keepalives and never greets holds up everyone behind it. The
  loops of master and worker give up after REQUEST_TIMEOUT.
* A tunnel takes the end of a socket for the end of the data. If the GPU server is
  killed with nothing left unread in its socket, the end looks the same and the
  tunnel reports success; that the answer was whole is for llama.cpp to notice.
* A worker that is asked about its GPU while another chat's query looks at it
  answers "busy", though no chat runs there; the second chat stops (`Idle`).

## Not modelled

Cryptography and certificates (`identity.rs`, `tls.rs`, the SPAKE2 arithmetic), frame
encoding, GGUF parsing and hashing (`facts.rs`), tensor arithmetic, measurement
(`probe.rs`), host facts, the engine's command line, the shell scripts and the
engine helper: they hold no state that interleaves, or are outside what a model
checker can say anything about. mDNS is what the modules that browse may or may
not learn. A foreign process that takes the port an rpc-server was given
(`runtime.rs:270`) is outside the system. The bytes of a tunnel are: a direction is
finished or not, and an error is possible wherever a socket or a stream can fail.
`latticed chat --local` asks for a run without workers and starts none of this.
