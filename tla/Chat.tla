-------------------------------- MODULE Chat --------------------------------
(***************************************************************************)
(* The distributed chat: `latticed chat` processes of the master device    *)
(* (chat.rs), their RPC proxies and the tunnels to the workers' GPU        *)
(* servers (lattice-net/src/rpc.rs), and the one permit each worker has.   *)
(*                                                                         *)
(* A chat looks for workers, connects to them one after the other, asks    *)
(* each what its GPU can do, and starts the engine.  The engine's sockets  *)
(* go to the proxies; each becomes a stream and, once the worker has a     *)
(* permit for it and has acknowledged it, a tunnel to the GPU server.      *)
(* Busy is asked before any of that, the permit is taken per socket: two   *)
(* chats can pass the first and meet at the second.                        *)
(*                                                                         *)
(* WorkerRuntime has the worker's side of connect in detail; here it is    *)
(* the wait for the permit and the dial.  The engine and the GPU server    *)
(* are llama.cpp's: the engine closes its sockets when it likes, the       *)
(* server closes one when it has read its end.                             *)
(***************************************************************************)
EXTENDS Naturals, FiniteSets

CONSTANTS Chats,       \* chat processes, each run once
          Workers,     \* paired workers registered with this master
          NoWorker,    \* no worker
          Free,        \* nobody has the permit
          MaxAddrs,    \* bound on the addresses given with --worker
          MaxSockets,  \* bound on the sockets the engines open in all
          MaxFaults    \* bound on broken links, restarts and server crashes

Sockets == 1 .. MaxSockets

ASSUME ChatAssumption ==
  /\ NoWorker \notin Workers /\ IsFiniteSet(Workers)
  /\ Free \notin Sockets \cup Chats /\ Sockets \cap Chats = {}
  /\ MaxAddrs \in Nat /\ MaxSockets \in Nat /\ MaxFaults \in Nat

VARIABLES
  (* A chat. *)
  cpc,      \* its stage
  asked,    \* --worker: the ids and how many addresses
  found,    \* workers located by id and not yet connected to
  left,     \* addresses not yet connected to
  using,    \* workers it is connected to and has asked
  at,       \* the worker it is asking
  (* The connections, as each end sees them. *)
  mconn,    \* pairs <<chat, worker>> open for the chat
  wconn,    \* ... and for the worker
  permit,   \* holder of each worker's permit: a socket, a chat's query, or Free
  (* A socket of an engine, its stream and its tunnel. *)
  opened,   \* how many sockets there have been
  whose,    \* the chat and the worker of each
  esock,    \* the engine's end: "open", "ended" in order, or "broken"
  ssock,    \* the GPU server's end of the worker's socket; "died" is a crash that
            \* the worker sees as an end in order
  mst,      \* stage of the proxy's task
  wst,      \* stage of the worker's task
  mdir,     \* the directions the proxy's tunnel has finished
  wdir,     \* ... and the worker's
  faults

chatVars == <<cpc, asked, found, left, using, at>>
linkVars == <<mconn, wconn>>
masterVars == <<esock, mst, mdir>>
workerVars == <<permit, ssock, wst, wdir>>
vars == <<chatVars, linkVars, masterVars, workerVars, opened, whose, faults>>

Requests == [ids : SUBSET Workers, addrs : 0 .. MaxAddrs]
Anything == [ids |-> {}, addrs |-> 0]
Nobody == <<Free, NoWorker>>

Chat(s) == whose[s][1]
Worker(s) == whose[s][2]
Made == 1 .. opened

Init ==
  /\ cpc = [c \in Chats |-> "idle"]
  /\ asked = [c \in Chats |-> Anything]
  /\ found = [c \in Chats |-> {}]
  /\ left = [c \in Chats |-> 0]
  /\ using = [c \in Chats |-> {}]
  /\ at = [c \in Chats |-> NoWorker]
  /\ mconn = {} /\ wconn = {}
  /\ permit = [w \in Workers |-> Free]
  /\ opened = 0
  /\ whose = [s \in Sockets |-> Nobody]
  /\ esock = [s \in Sockets |-> "none"] /\ ssock = [s \in Sockets |-> "none"]
  /\ mst = [s \in Sockets |-> "none"] /\ wst = [s \in Sockets |-> "none"]
  /\ mdir = [s \in Sockets |-> {}] /\ wdir = [s \in Sockets |-> {}]
  /\ faults = 0

Fault == faults < MaxFaults /\ faults' = faults + 1

-----------------------------------------------------------------------------
(* Finding the workers.                                                    *)

(* Mutant: a discovery that finds nobody is good enough.                   *)
LocatesAnything(c, r, F) ==
  /\ cpc[c] = "idle"
  /\ r # Anything => F = r.ids
  /\ cpc' = [cpc EXCEPT ![c] = "connect"]
  /\ asked' = [asked EXCEPT ![c] = r]
  /\ left' = [left EXCEPT ![c] = r.addrs]
  /\ found' = [found EXCEPT ![c] = F]
  /\ UNCHANGED <<using, at, linkVars, masterVars, workerVars, opened, whose, faults>>

(* find_workers: discovery reports workers and their loss, late or early;  *)
(* F is what is left at the deadline.  Whoever was asked for by id must be *)
(* in it.  Without ids, addresses are enough and nobody browses.  The chat *)
(* bails if nobody is found and no address is given: only --local, which   *)
(* asks for no worker and is left out here, runs without one.              *)
Locates(c, r, F) ==
  /\ cpc[c] = "idle"
  /\ r # Anything => F = r.ids
  /\ F # {} \/ r.addrs > 0
  /\ cpc' = [cpc EXCEPT ![c] = "connect"]
  /\ asked' = [asked EXCEPT ![c] = r]
  /\ left' = [left EXCEPT ![c] = r.addrs]
  /\ found' = [found EXCEPT ![c] = F]
  /\ UNCHANGED <<using, at, linkVars, masterVars, workerVars, opened, whose, faults>>

LocatesNobody(c) ==
  /\ cpc[c] = "idle"
  /\ cpc' = [cpc EXCEPT ![c] = "over"]
  /\ UNCHANGED <<asked, found, left, using, at, linkVars, masterVars, workerVars, opened, whose, faults>>

-----------------------------------------------------------------------------
(* Connecting to them, one after the other.                                *)

(* Mutant: the addresses are counted down for ever.                        *)
NextPlaceUncounted(c, w) ==
  \/ left' = [left EXCEPT ![c] = @ - 1] /\ UNCHANGED found
  \/ /\ left[c] = 0 /\ w \in found[c]
     /\ found' = [found EXCEPT ![c] = @ \ {w}]
     /\ UNCHANGED left

(* The next place to try, and who may answer there: anybody at an address  *)
(* the user gave; addresses come first.                                    *)
NextPlace(c, w) ==
  \/ left[c] > 0 /\ left' = [left EXCEPT ![c] = @ - 1] /\ UNCHANGED found
  \/ /\ left[c] = 0 /\ w \in found[c]
     /\ found' = [found EXCEPT ![c] = @ \ {w}]
     /\ UNCHANGED left

Idle(w) == permit[w] = Free /\ \A s \in Made : Worker(s) = w => wst[s] # "waiting"

(* connect_any: one of the addresses answers, with an endpoint of its own. *)
Reaches(c, w) ==
  mconn' = mconn \cup {<<c, w>>} /\ wconn' = wconn \cup {<<c, w>>}

(* Mutant: whoever answers at the place of t will do.                      *)
AsksAnyone(c, w) ==
  /\ cpc[c] = "connect" /\ \E t \in Workers : NextPlace(c, t)
  /\ w \notin using[c] /\ Idle(w)
  /\ cpc' = [cpc EXCEPT ![c] = "ask"]
  /\ at' = [at EXCEPT ![c] = w]
  /\ Reaches(c, w)
  /\ permit' = [permit EXCEPT ![w] = c]
  /\ UNCHANGED <<asked, using, masterVars, ssock, wst, wdir, opened, whose, faults>>

(* connect_any reaches worker w, at an address the user gave or at one     *)
(* that was advertised for w, and sends InferenceInfo; the worker looks at *)
(* its GPU with the permit in hand.  Nobody there, another worker than the *)
(* one looked for, one it has already, or a busy one: the chat Bails.      *)
Asks(c, w) ==
  /\ cpc[c] = "connect" /\ NextPlace(c, w)
  /\ w \notin using[c] /\ Idle(w)
  /\ cpc' = [cpc EXCEPT ![c] = "ask"]
  /\ at' = [at EXCEPT ![c] = w]
  /\ Reaches(c, w)
  /\ permit' = [permit EXCEPT ![w] = c]
  /\ UNCHANGED <<asked, using, masterVars, ssock, wst, wdir, opened, whose, faults>>

(* The answer, and check_worker likes it.  A chat that is gone by then, or *)
(* has lost the connection, gets no answer, but the permit is free again.  *)
Answers(c, w) ==
  /\ permit[w] = c
  /\ permit' = [permit EXCEPT ![w] = Free]
  /\ IF cpc[c] = "ask" /\ at[c] = w /\ <<c, w>> \in mconn \cap wconn
       THEN /\ using' = [using EXCEPT ![c] = @ \cup {w}]
            /\ at' = [at EXCEPT ![c] = NoWorker]
            /\ cpc' = [cpc EXCEPT ![c] = "connect"]
       ELSE UNCHANGED <<cpc, using, at>>
  /\ UNCHANGED <<asked, found, left, linkVars, masterVars, ssock, wst, wdir, opened, whose, faults>>

(* No place is left to try: the layers are placed, a proxy is bound for    *)
(* each worker and the engine is started on what there is.                 *)
Launches(c) ==
  /\ cpc[c] = "connect" /\ left[c] = 0 /\ found[c] = {}
  /\ cpc' = [cpc EXCEPT ![c] = "run"]
  /\ asked' = [asked EXCEPT ![c] = Anything]
  /\ UNCHANGED <<found, left, using, at, linkVars, masterVars, workerVars, opened, whose, faults>>

-----------------------------------------------------------------------------
(* The end of a chat.                                                      *)

Of(c) == {s \in Made : Chat(s) = c}
Proxying == {s \in Made : mst[s] \in {"opening", "tunnel"}}

(* The proxies' tasks of these sockets end early.  A tunnel is reset; a    *)
(* stream without a tunnel yet is dropped, which finishes it.              *)
Dropped(S) ==
  mst' = [s \in Sockets |->
            IF s \notin S THEN mst[s]
            ELSE IF mst[s] = "opening" THEN "dropped" ELSE "cut"]

(* The engine is gone, connections are closed and tasks aborted, at once   *)
(* or with the process.                                                    *)
Over(c) ==
  /\ cpc' = [cpc EXCEPT ![c] = "over"]
  /\ asked' = [asked EXCEPT ![c] = Anything]
  /\ found' = [found EXCEPT ![c] = {}]
  /\ left' = [left EXCEPT ![c] = 0]
  /\ using' = [using EXCEPT ![c] = {}]
  /\ at' = [at EXCEPT ![c] = NoWorker]
  /\ mconn' = {l \in mconn : l[1] # c}
  /\ esock' = [s \in Sockets |-> IF s \in Of(c) /\ esock[s] = "open" THEN "broken" ELSE esock[s]]
  /\ Dropped(Of(c) \cap Proxying)
  /\ UNCHANGED <<wconn, mdir, workerVars, opened, whose, faults>>

(* Any step before the engine runs may fail: nobody found, nobody there,   *)
(* the wrong worker or the same twice, a GPU that is busy or refused, no   *)
(* placement.  Or the process is interrupted.                              *)
Bails(c) ==
  /\ cpc[c] \in {"connect", "ask"}
  /\ Over(c)

(* The engine exits, or the user stops the chat.                           *)
Exits(c) ==
  /\ cpc[c] = "run"
  /\ Over(c)

(* Mutant: only the loss of all workers ends the chat.                     *)
LosesAll(c) ==
  /\ cpc[c] = "run" /\ \A w \in using[c] : <<c, w>> \notin mconn
  /\ Over(c)

(* disconnects: the connection to a worker has closed.                     *)
LosesWorker(c) ==
  /\ cpc[c] = "run" /\ \E w \in using[c] : <<c, w>> \notin mconn
  /\ Over(c)

-----------------------------------------------------------------------------
(* The connections.                                                        *)

Between(c, w) == {s \in Made : whose[s] = <<c, w>>}

(* The chat learns that a connection is gone: its proxy stops and aborts   *)
(* its sessions, which drops the engine's sockets.                         *)
MasterLoses(c, w) ==
  /\ <<c, w>> \in mconn
  /\ mconn' = mconn \ {<<c, w>>}
  /\ Dropped(Between(c, w) \cap Proxying)
  /\ UNCHANGED <<chatVars, wconn, esock, mdir, workerVars, opened, whose>>

(* The worker's tasks that end, with what they hold.                       *)
Served(s) == wst[s] \in {"granted", "tunnel"}
Released(S) == [w \in Workers |-> IF permit[w] \in S THEN Free ELSE permit[w]]

(* Mutant: the tunnels stay.                                               *)
WorkerLosesLink(c, w) ==
  /\ <<c, w>> \in wconn
  /\ wconn' = wconn \ {<<c, w>>}
  /\ UNCHANGED <<chatVars, mconn, masterVars, workerVars, opened, whose>>

(* The worker learns it: what still reads from the connection fails.  A    *)
(* wait for the permit or the server goes on, and so does a tunnel that    *)
(* only reads from the server any more.                                    *)
WorkerLoses(c, w) ==
  LET hit == {s \in Between(c, w) : wst[s] = "tunnel" /\ "in" \notin wdir[s]} IN
  /\ <<c, w>> \in wconn
  /\ wconn' = wconn \ {<<c, w>>}
  /\ wst' = [s \in Sockets |-> IF s \in hit THEN "cut" ELSE wst[s]]
  /\ permit' = Released(hit)
  /\ UNCHANGED <<chatVars, mconn, masterVars, ssock, wdir, opened, whose>>

MasterNotices(c, w) == MasterLoses(c, w) /\ <<c, w>> \notin wconn /\ UNCHANGED faults
WorkerNotices(c, w) == WorkerLoses(c, w) /\ <<c, w>> \notin mconn /\ UNCHANGED faults
MasterTimesOut(c, w) == MasterLoses(c, w) /\ <<c, w>> \in wconn /\ Fault
WorkerTimesOut(c, w) == WorkerLoses(c, w) /\ <<c, w>> \in mconn /\ Fault

(* The worker's process restarts.                                          *)
Restarts(w) ==
  LET gone == {s \in Made : Worker(s) = w /\ wst[s] \in {"none", "waiting", "granted", "tunnel"}} IN
  /\ Fault
  /\ \E c \in Chats : <<c, w>> \in wconn
  /\ wconn' = {l \in wconn : l[2] # w}
  /\ wst' = [s \in Sockets |-> IF s \in gone THEN "cut" ELSE wst[s]]
  /\ ssock' = [s \in Sockets |-> IF s \in gone /\ ssock[s] = "open" THEN "broken" ELSE ssock[s]]
  /\ permit' = [permit EXCEPT ![w] = Free]
  /\ UNCHANGED <<chatVars, mconn, masterVars, wdir, opened, whose>>

-----------------------------------------------------------------------------
(* A session: the engine, the proxy, the worker, the GPU server.           *)

(* The engine connects to the proxy of a worker; it keeps one socket for   *)
(* each.                                                                   *)
Opens(c, w) ==
  LET s == opened + 1 IN
  /\ opened < MaxSockets
  /\ cpc[c] = "run" /\ w \in using[c] /\ <<c, w>> \in mconn
  /\ \A t \in Between(c, w) : esock[t] # "open"
  /\ opened' = s
  /\ whose' = [whose EXCEPT ![s] = <<c, w>>]
  /\ esock' = [esock EXCEPT ![s] = "open"]
  /\ mst' = [mst EXCEPT ![s] = "opening"]
  /\ UNCHANGED <<chatVars, linkVars, mdir, workerVars, faults>>

(* The engine is done with a socket; nobody obliges it to.                 *)
EngineCloses(s) ==
  /\ esock[s] = "open"
  /\ esock' = [esock EXCEPT ![s] = "ended"]
  /\ UNCHANGED <<chatVars, linkVars, mst, mdir, workerVars, opened, whose, faults>>

Linked(s) == whose[s] \in mconn \cap wconn

(* The stream arrives and serve asks for the permit.                       *)
Arrives(s) ==
  /\ mst[s] \in {"opening", "dropped"} /\ wst[s] = "none" /\ whose[s] \in wconn
  /\ wst' = [wst EXCEPT ![s] = "waiting"]
  /\ UNCHANGED <<chatVars, linkVars, masterVars, permit, ssock, wdir, opened, whose, faults>>

Granted(s) ==
  /\ wst[s] = "waiting" /\ permit[Worker(s)] = Free
  /\ wst' = [wst EXCEPT ![s] = "granted"]
  /\ permit' = [permit EXCEPT ![Worker(s)] = s]
  /\ UNCHANGED <<chatVars, linkVars, masterVars, ssock, wdir, opened, whose, faults>>

(* acquire's two seconds are over, or this master is not registered.       *)
Refused(s) ==
  /\ wst[s] = "waiting"
  /\ wst' = [wst EXCEPT ![s] = "refused"]
  /\ UNCHANGED <<chatVars, linkVars, masterVars, permit, ssock, wdir, opened, whose, faults>>

(* Mutant: the permit does not live as long as the tunnel.                 *)
AcksAndReleases(s) ==
  /\ wst[s] = "granted"
  /\ wst' = [wst EXCEPT ![s] = "tunnel"]
  /\ ssock' = [ssock EXCEPT ![s] = "open"]
  /\ permit' = Released({s})
  /\ UNCHANGED <<chatVars, linkVars, masterVars, wdir, opened, whose, faults>>

(* The GPU server is reached and the acknowledgement written.              *)
Acks(s) ==
  /\ wst[s] = "granted" /\ whose[s] \in wconn
  /\ wst' = [wst EXCEPT ![s] = "tunnel"]
  /\ ssock' = [ssock EXCEPT ![s] = "open"]
  /\ UNCHANGED <<chatVars, linkVars, masterVars, permit, wdir, opened, whose, faults>>

(* The server is not reached, or the acknowledgement cannot be written.    *)
AckFails(s) ==
  /\ wst[s] = "granted"
  /\ wst' = [wst EXCEPT ![s] = "refused"]
  /\ permit' = Released({s})
  /\ UNCHANGED <<chatVars, linkVars, masterVars, ssock, wdir, opened, whose, faults>>

(* The proxy reads the acknowledgement.                                    *)
Connected(s) ==
  /\ mst[s] = "opening" /\ wst[s] \in {"tunnel", "done"} /\ Linked(s)
  /\ mst' = [mst EXCEPT ![s] = "tunnel"]
  /\ UNCHANGED <<chatVars, linkVars, esock, mdir, workerVars, opened, whose, faults>>

(* It reads a refusal or an error, or nothing for HANDSHAKE_TIMEOUT, and   *)
(* drops the engine's socket.                                              *)
OpenFails(s) ==
  /\ mst[s] = "opening"
  /\ Dropped({s})
  /\ UNCHANGED <<chatVars, linkVars, esock, mdir, workerVars, opened, whose, faults>>

(* tunnel at the proxy.  What an end has read to its end it finishes, and  *)
(* a finished stream ends the socket on the other side.                    *)
ProxyDone(s, dir) ==
  /\ mst[s] = "tunnel" /\ dir \notin mdir[s]
  /\ mdir' = [mdir EXCEPT ![s] = @ \cup {dir}]
  /\ mst' = [mst EXCEPT ![s] = IF mdir'[s] = {"in", "out"} THEN "done" ELSE "tunnel"]
  /\ UNCHANGED <<chatVars, linkVars, esock, workerVars, opened, whose, faults>>
ProxyOut(s) == esock[s] = "ended" /\ ProxyDone(s, "out")
ProxyIn(s) == "out" \in wdir[s] /\ esock[s] # "broken" /\ ProxyDone(s, "in")

(* An error in either direction: TunnelStreams resets what is left.        *)
ProxyFails(s) ==
  /\ mst[s] = "tunnel"
  /\ \/ esock[s] = "broken" \/ (wst[s] = "cut" /\ Linked(s))
     \/ esock[s] = "ended" /\ "in" \notin mdir[s]    \* the answer has no reader
  /\ Dropped({s})
  /\ UNCHANGED <<chatVars, linkVars, esock, mdir, workerVars, opened, whose, faults>>

(* What the worker reads from the server has come to an end.               *)
Ended(s) == ssock[s] \in {"ended", "died"}

(* tunnel at the worker, and the permit with it.                           *)
ServeDone(s, dir) ==
  /\ wst[s] = "tunnel" /\ dir \notin wdir[s]
  /\ wdir' = [wdir EXCEPT ![s] = @ \cup {dir}]
  /\ IF wdir'[s] = {"in", "out"}
       THEN wst' = [wst EXCEPT ![s] = "done"] /\ permit' = Released({s})
       ELSE UNCHANGED <<wst, permit>>
  /\ UNCHANGED <<chatVars, linkVars, masterVars, ssock, opened, whose, faults>>
ServeOut(s) == Ended(s) /\ ServeDone(s, "out")
ServeIn(s) ==
  /\ "out" \in mdir[s] \/ mst[s] = "dropped"
  /\ ssock[s] # "broken"
  /\ ServeDone(s, "in")

(* Mutant: a tunnel that fails finishes its stream, as dropping it would.  *)
ServeFinishesAnyway(s) ==
  /\ wst[s] = "tunnel"
  /\ \/ ssock[s] = "broken" \/ (mst[s] \in {"cut", "dropped"} /\ Linked(s))
     \/ Ended(s) /\ "in" \notin wdir[s]
     \/ Ended(s) /\ whose[s] \notin wconn
  /\ wst' = [wst EXCEPT ![s] = "cut"]
  /\ wdir' = [wdir EXCEPT ![s] = @ \cup {"out"}]
  /\ permit' = Released({s})
  /\ UNCHANGED <<chatVars, linkVars, masterVars, ssock, opened, whose, faults>>

ServeFails(s) ==
  /\ wst[s] = "tunnel"
  /\ \/ ssock[s] = "broken" \/ (mst[s] \in {"cut", "dropped"} /\ Linked(s))
     \/ Ended(s) /\ "in" \notin wdir[s]
     \/ Ended(s) /\ whose[s] \notin wconn
  /\ wst' = [wst EXCEPT ![s] = "cut"]
  /\ permit' = Released({s})
  /\ UNCHANGED <<chatVars, linkVars, masterVars, ssock, wdir, opened, whose, faults>>

(* The GPU server has read the end of its socket and closes it.            *)
ServerCloses(s) ==
  /\ wst[s] = "tunnel" /\ "in" \in wdir[s] /\ ssock[s] = "open"
  /\ ssock' = [ssock EXCEPT ![s] = "ended"]
  /\ UNCHANGED <<chatVars, linkVars, masterVars, permit, wst, wdir, opened, whose, faults>>

(* It crashes or is killed (authorize), whatever it has read or was still  *)
(* to read and answer.  Its system resets the socket if something lies in  *)
(* it unread and otherwise closes it, which the worker takes for an end.   *)
ServerDies(s) ==
  /\ Fault
  /\ wst[s] = "tunnel" /\ ssock[s] = "open"
  /\ \E end \in {"died", "broken"} : ssock' = [ssock EXCEPT ![s] = end]
  /\ UNCHANGED <<chatVars, linkVars, masterVars, permit, wst, wdir, opened, whose>>

-----------------------------------------------------------------------------
Session(s) ==
  \/ Arrives(s) \/ Granted(s) \/ Refused(s) \/ Acks(s) \/ AckFails(s)
  \/ Connected(s) \/ ProxyOut(s) \/ ProxyIn(s) \/ ProxyFails(s)
  \/ ServeOut(s) \/ ServeIn(s) \/ ServeFails(s) \/ ServerCloses(s)

Links(c, w) ==
  \/ MasterNotices(c, w) \/ WorkerNotices(c, w)
  \/ MasterTimesOut(c, w) \/ WorkerTimesOut(c, w)

Driver(c) ==
  \/ \E r \in Requests, F \in SUBSET Workers : Locates(c, r, F)
  \/ \E w \in Workers : Asks(c, w) \/ Answers(c, w) \/ Opens(c, w)
  \/ LocatesNobody(c) \/ Launches(c) \/ Bails(c) \/ Exits(c) \/ LosesWorker(c)

Next ==
  \/ \E c \in Chats : Driver(c) \/ \E w \in Workers : Links(c, w)
  \/ \E w \in Workers : Restarts(w)
  \/ \E s \in Made : Session(s) \/ EngineCloses(s) \/ OpenFails(s) \/ ServerDies(s)

(* Tasks run, timers fire, a closed connection is noticed (IDLE_TIMEOUT at *)
(* the latest) and the GPU server reads what it was sent.  What the user   *)
(* or the engine does is owed to nobody.                                   *)
Fairness ==
  /\ \A s \in Sockets : WF_vars(s \in Made /\ Session(s))
  /\ \A c \in Chats :
       /\ WF_vars(LosesWorker(c))
       /\ \A w \in Workers :
            WF_vars(MasterNotices(c, w) \/ WorkerNotices(c, w)) /\ WF_vars(Answers(c, w))

Spec == Init /\ [][Next]_vars /\ Fairness

-----------------------------------------------------------------------------
TypeOK ==
  /\ cpc \in [Chats -> {"idle", "connect", "ask", "run", "over"}]
  /\ asked \in [Chats -> Requests]
  /\ found \in [Chats -> SUBSET Workers]
  /\ left \in [Chats -> 0 .. MaxAddrs]
  /\ using \in [Chats -> SUBSET Workers]
  /\ at \in [Chats -> Workers \cup {NoWorker}]
  /\ mconn \subseteq Chats \X Workers /\ wconn \subseteq Chats \X Workers
  /\ permit \in [Workers -> Sockets \cup Chats \cup {Free}]
  /\ opened \in 0 .. MaxSockets
  /\ whose \in [Sockets -> (Chats \X Workers) \cup {Nobody}]
  /\ \A s \in Made : whose[s] \in Chats \X Workers
  /\ esock \in [Sockets -> {"none", "open", "ended", "broken"}]
  /\ ssock \in [Sockets -> {"none", "open", "ended", "died", "broken"}]
  /\ mst \in [Sockets -> {"none", "opening", "tunnel", "done", "cut", "dropped"}]
  /\ wst \in [Sockets -> {"none", "waiting", "granted", "refused", "tunnel", "done", "cut"}]
  /\ mdir \in [Sockets -> SUBSET {"in", "out"}]
  /\ wdir \in [Sockets -> SUBSET {"in", "out"}]
  /\ faults \in 0 .. MaxFaults

(* The engine runs on what the user asked for: every worker named by id,   *)
(* one more for every address, no device twice, and with nobody named at   *)
(* least one worker, never this machine alone - whatever discovery said    *)
(* meanwhile and whoever answered at an address.                           *)
RunsOnWhatWasAsked ==
  [][\A c \in Chats : cpc[c] # "run" /\ cpc'[c] = "run" =>
       /\ using'[c] # {}
       /\ asked[c].ids \subseteq using'[c]
       /\ asked[c] # Anything =>
            Cardinality(using'[c]) = Cardinality(asked[c].ids) + asked[c].addrs]_vars

(* What success says, end by end.  At the proxy: the engine's socket came  *)
(* to its end, all of it was put into the server's socket, the server read *)
(* that to its end and closed, and all it wrote came back; the one thing   *)
(* success cannot tell from this is a server that died with an empty       *)
(* socket.  At the worker: the request was put into the server's socket up *)
(* to the end of the engine's, and the server's own end was read; whether  *)
(* the answer reached the engine it does not say.  (A stream dropped       *)
(* before its tunnel was a request of nothing.)  A broken socket, a cut    *)
(* tunnel or a lost connection is never taken for the end of the data.     *)
CleanEndIsWholeEnd ==
  \A s \in Made :
    /\ mst[s] = "done" =>
         /\ esock[s] = "ended" /\ "out" \in wdir[s]
         /\ ssock[s] = "died" \/ (ssock[s] = "ended" /\ "in" \in wdir[s])
    /\ wst[s] = "done" =>
         /\ ssock[s] \in {"ended", "died"}
         /\ mst[s] = "dropped" \/ ("out" \in mdir[s] /\ esock[s] = "ended")

(* "Only one chat can use a worker at a time", though busy was asked long  *)
(* before: a worker never serves two sockets, nor answers a query about a  *)
(* GPU that is in use.                                                     *)
OneSessionPerGpu ==
  \A s \in Made : Served(s) =>
    /\ \A t \in Made : Served(t) /\ Worker(t) = Worker(s) => t = s
    /\ permit[Worker(s)] \notin Chats

(* The permit comes back once the engine has closed its socket or the chat *)
(* is over - although the tunnel only ends when both directions have, and  *)
(* although nobody tells a wait for the permit that its chat is gone.      *)
PermitsComeBack ==
  \A s \in Sockets :
    (s \in Made /\ Served(s) /\ esock[s] # "open") ~> ~ Served(s)

(* A chat does not go on with a part of its GPUs: when the connection to   *)
(* any of its workers is lost it ends.                                     *)
LossEndsChat ==
  \A c \in Chats :
    (cpc[c] = "run" /\ \E w \in using[c] : <<c, w>> \notin wconn) ~> cpc[c] = "over"
=============================================================================
