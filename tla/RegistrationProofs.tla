------------------------ MODULE RegistrationProofs ------------------------
(***************************************************************************)
(* Theorems about Registration, for any workers, connections, capacity of  *)
(* the queue and number of faults.  They rest on the order of a worker's   *)
(* registrations in the queue: as long as no handler was overtaken, the    *)
(* one of its current connection is the last.                              *)
(***************************************************************************)
EXTENDS Registration, TLAPS

(* The handler of worker w's current connection has accepted it. *)
Ready(w) == cur[w] # None /\ request[cur[w]] = "ok" /\ up[cur[w]] = Ends
Taken(w) == Ready(w) /\ ~ Queued(cur[w])

(* Connections belong to the workers that use them. *)
OwnersSound ==
  /\ \A w \in Workers : cur[w] # None => worker(cur[w]) = w /\ w \in paired
  /\ \A w \in Workers : phase[w] = "registered" => request[cur[w]] = "ok"
  /\ \A c \in Conns : worker(c) \notin roster[c]

(* What is queued for the same worker is ahead of its current connection. *)
OrderSound ==
  ~ overtaken => \A w \in Workers : Ready(w) =>
    \A i \in 1..Len(queue) : worker(queue[i]) = w /\ queue[i] # cur[w] =>
      \E j \in 1..Len(queue) : i < j /\ queue[j] = cur[w]

NamedSound ==
  ~ overtaken => \A w \in Workers : Taken(w) => live[w] = cur[w]

(* Whoever was taken into the registry is known to the others in it, or on *)
(* its way to them.                                                        *)
KnownSound ==
  ~ overtaken /\ ~ missed =>
    \A v, w \in Workers : v # w /\ Taken(v) /\ Taken(w) =>
      v \in knows[w] \cup roster[cur[w]]

IInv == TypeOK /\ OwnersSound /\ OrderSound /\ NamedSound /\ KnownSound
-----------------------------------------------------------------------------
LEMMA WorkerOfConn ==
  /\ None \notin Conns
  /\ \A c \in Conns : worker(c) \in Workers
  BY RegistrationAssumption DEF Conns, worker

LEMMA InitIInv == Init => IInv
<1> SUFFICES ASSUME Init PROVE IInv
  OBVIOUS
<1>1. TypeOK
  <2>1. queue \in Seq(Conns) /\ Len(queue) <= QueueCap
    BY RegistrationAssumption DEF Init
  <2>2. overtaken \in BOOLEAN /\ missed \in BOOLEAN
    BY Zenon DEF Init
  <2>3. faults \in 0..MaxFaults
    BY RegistrationAssumption DEF Init
  <2> QED  BY <2>1, <2>2, <2>3 DEF Init, TypeOK
<1>2. OwnersSound
  BY DEF Init, OwnersSound
<1>3. \A w \in Workers : ~ Ready(w)
  BY DEF Init, Ready
<1> QED  BY <1>1, <1>2, <1>3 DEF IInv, OrderSound, NamedSound, KnownSound, Taken

(* Steps that leave the queue alone and make no worker ready. *)
LEMMA Frame ==
  ASSUME IInv, queue' = queue, overtaken' = overtaken, missed => missed',
         \A w \in Workers : Ready(w)' =>
           /\ Ready(w) /\ cur'[w] = cur[w]
           /\ live[w] = cur[w] => live'[w] = cur[w]
           /\ missed' \/ knows[w] \cup roster[cur[w]] \subseteq knows'[w] \cup roster'[cur[w]]
  PROVE  OrderSound' /\ NamedSound' /\ KnownSound'
<1>1. \A w \in Workers : Taken(w)' => Taken(w) /\ Ready(w)'
  BY DEF Taken, Queued
<1>2. OrderSound'
  BY DEF IInv, OrderSound
<1>3. NamedSound'
  BY <1>1 DEF IInv, NamedSound
<1>4. KnownSound'
  BY <1>1 DEF IInv, KnownSound
<1> QED  BY <1>2, <1>3, <1>4
-----------------------------------------------------------------------------
(* The worker's loop. *)

LEMMA PairsIInv ==
  ASSUME IInv, NEW w \in Workers, Pairs(w)
  PROVE  IInv'
<1>1. TypeOK' /\ OwnersSound'
  BY DEF IInv, TypeOK, OwnersSound, Pairs, taskVars, introVars
<1>2. OrderSound' /\ NamedSound' /\ KnownSound'
  BY Frame DEF Pairs, taskVars, introVars, Ready
<1> QED  BY <1>1, <1>2 DEF IInv

LEMMA ConnectsIInv ==
  ASSUME IInv, NEW w \in Workers, NEW c \in Conns, Connects(w, c)
  PROVE  IInv'
<1> USE WorkerOfConn
<1>1. TypeOK'
  BY DEF IInv, TypeOK, Connects, taskVars, introVars, Ends
<1>2. OwnersSound'
  BY DEF IInv, TypeOK, OwnersSound, Connects, taskVars, introVars
<1>3. ASSUME NEW v \in Workers, Ready(v)'
      PROVE  Ready(v) /\ cur'[v] = cur[v]
  <2>1. v # w
    BY <1>3 DEF IInv, TypeOK, Connects, Ready
  <2>2. cur'[v] = cur[v] /\ cur[v] # c
    BY <1>3, <2>1 DEF IInv, TypeOK, OwnersSound, Connects, Ready
  <2> QED  BY <1>3, <2>2 DEF IInv, TypeOK, Connects, Ready
<1>4. OrderSound' /\ NamedSound' /\ KnownSound'
  BY <1>3, Frame DEF Connects, taskVars, introVars
<1> QED  BY <1>1, <1>2, <1>4 DEF IInv

(* Every way the worker leaves its connection. *)
LEMMA DropsIInv ==
  ASSUME IInv, NEW w \in Workers, phase[w] # "search", Drops(w),
         faults' \in 0..MaxFaults,
         UNCHANGED <<paired, request, taskVars, introVars, overtaken>>
  PROVE  IInv'
<1> USE WorkerOfConn
<1>1. TypeOK'
  BY DEF IInv, TypeOK, Drops, taskVars, introVars
<1>2. OwnersSound'
  BY DEF IInv, TypeOK, OwnersSound, Drops, introVars
<1>3. ASSUME NEW v \in Workers, Ready(v)'
      PROVE  Ready(v) /\ cur'[v] = cur[v]
  <2>1. v # w
    BY <1>3 DEF IInv, TypeOK, Drops, Ready
  <2>2. cur'[v] = cur[v] /\ cur[v] # cur[w]
    BY <1>3, <2>1 DEF IInv, TypeOK, OwnersSound, Drops, Ready
  <2> QED  BY <1>3, <2>2 DEF IInv, TypeOK, Drops, Ready
<1>4. OrderSound' /\ NamedSound' /\ KnownSound'
  BY <1>3, Frame DEF taskVars, introVars
<1> QED  BY <1>1, <1>2, <1>4 DEF IInv

LEMMA RegistersIInv ==
  ASSUME IInv, NEW w \in Workers, Registers(w)
  PROVE  IInv'
<1>1. TypeOK'
  BY DEF IInv, TypeOK, Registers, taskVars, introVars
<1>2. OwnersSound'
  BY DEF IInv, TypeOK, OwnersSound, Registers, introVars
<1>3. OrderSound' /\ NamedSound' /\ KnownSound'
  BY Frame DEF Registers, taskVars, introVars, Ready
<1> QED  BY <1>1, <1>2, <1>3 DEF IInv

(* A connection goes at one end or both. *)
LEMMA ClosesIInv ==
  ASSUME IInv, NEW c \in Conns, NEW E \in SUBSET Ends, E # Ends,
         up' = [up EXCEPT ![c] = E], faults' \in 0..MaxFaults,
         UNCHANGED <<paired, phase, cur, request, taskVars, introVars, overtaken>>
  PROVE  IInv'
<1>1. TypeOK' /\ OwnersSound'
  BY DEF IInv, TypeOK, OwnersSound, taskVars, introVars
<1>2. \A v \in Workers : Ready(v)' => Ready(v)
  BY WorkerOfConn DEF IInv, TypeOK, Ready
<1>3. OrderSound' /\ NamedSound' /\ KnownSound'
  BY <1>2, Frame DEF taskVars, introVars
<1> QED  BY <1>1, <1>3 DEF IInv
-----------------------------------------------------------------------------
(* The master. *)

LEMMA NeverReadIInv ==
  ASSUME IInv, NEW c \in Conns, NeverRead(c)
  PROVE  IInv'
<1>1. TypeOK'
  BY DEF IInv, TypeOK, NeverRead, taskVars, introVars
<1>2. OwnersSound'
  BY DEF IInv, TypeOK, OwnersSound, NeverRead, introVars
<1>3. \A v \in Workers : Ready(v)' => Ready(v)
  BY WorkerOfConn DEF IInv, TypeOK, Ready, NeverRead
<1>4. OrderSound' /\ NamedSound' /\ KnownSound'
  BY <1>3, Frame DEF NeverRead, taskVars, introVars
<1> QED  BY <1>1, <1>2, <1>4 DEF IInv

(* A registration enters the queue.  The worker it is for becomes ready if *)
(* the connection is its current one; otherwise, unless the handler was    *)
(* overtaken, that worker is not ready yet.                                *)
LEMMA EnqueuedIInv ==
  ASSUME IInv, NEW c \in Conns, handle(c), Len(queue) < QueueCap
  PROVE  IInv'
<1> USE WorkerOfConn
<1>a. /\ request[c] = "sent" /\ queue' = Append(queue, c)
      /\ request' = [request EXCEPT ![c] = "ok"]
      /\ overtaken' = (overtaken \/
           \E d \in Conns : d # c /\ d = cur[worker(c)] /\ request[d] = "ok")
      /\ UNCHANGED <<paired, phase, cur, up, live, watch, introVars, faults>>
  BY RegistrationAssumption DEF handle, IInv, TypeOK
<1>b. /\ queue \in Seq(Conns) /\ queue' \in Seq(Conns) /\ Len(queue') = Len(queue) + 1
      /\ \A i \in 1..Len(queue) : queue'[i] = queue[i]
      /\ queue'[Len(queue) + 1] = c
  BY <1>a DEF IInv, TypeOK
<1>1. TypeOK'
  <2>1. overtaken' \in BOOLEAN
    BY <1>a, Zenon
  <2>2. queue' \in Seq(Conns) /\ Len(queue') <= QueueCap
    BY <1>b, RegistrationAssumption
  <2>3. request' \in [Conns -> {"none", "sent", "ok", "busy"}]
    BY <1>a DEF IInv, TypeOK
  <2> QED  BY <1>a, <2>1, <2>2, <2>3 DEF IInv, TypeOK, introVars
<1>2. OwnersSound'
  BY <1>a DEF IInv, TypeOK, OwnersSound, introVars
<1>3. ASSUME NEW v \in Workers, cur[v] # c
      PROVE  Ready(v)' = Ready(v) /\ (Taken(v)' => Taken(v))
  <2>1. Ready(v)' = Ready(v)
    BY <1>a, <1>3 DEF IInv, TypeOK, Ready
  <2>2. Queued(cur[v]) => Queued(cur[v])'
    BY <1>a, <1>b DEF Queued
  <2> QED  BY <2>1, <2>2, <1>a DEF Taken
<1>4. ASSUME NEW v \in Workers, cur[v] = c
      PROVE  ~ Taken(v)'
  <2>1. Queued(cur[v])'
    BY <1>a, <1>b, <1>4 DEF Queued
  <2> QED  BY <2>1 DEF Taken
<1>5. OrderSound'
  <2> SUFFICES ASSUME ~ overtaken', NEW w \in Workers, Ready(w)',
                      NEW i \in 1..Len(queue'), worker(queue'[i]) = w, queue'[i] # cur'[w]
               PROVE  \E j \in 1..Len(queue') : i < j /\ queue'[j] = cur'[w]
    BY DEF OrderSound
  <2>1. CASE cur[w] = c
    BY <1>a, <1>b, <2>1
  <2>2. CASE cur[w] # c
    <3>1. Ready(w) /\ ~ overtaken
      BY <2>2, <1>3, <1>a
    <3>2. cur[w] \in Conns /\ request[cur[w]] = "ok"
      BY <3>1 DEF IInv, TypeOK, Ready
    <3>3. i # Len(queue) + 1
      BY <1>a, <1>b, <2>2, <3>2
    <3>4. i \in 1..Len(queue) /\ queue'[i] = queue[i]
      BY <1>b, <3>3
    <3>5. PICK j \in 1..Len(queue) : i < j /\ queue[j] = cur[w]
      BY <3>1, <3>4, <1>a DEF IInv, OrderSound
    <3> QED  BY <3>5, <1>a, <1>b
  <2> QED  BY <2>1, <2>2
<1>6. NamedSound'
  BY <1>3, <1>4, <1>a DEF IInv, NamedSound
<1>7. KnownSound'
  BY <1>3, <1>4, <1>a DEF IInv, KnownSound, introVars
<1> QED  BY <1>1, <1>2, <1>5, <1>6, <1>7 DEF IInv

LEMMA HandleIInv ==
  ASSUME IInv, NEW c \in Conns, handle(c)
  PROVE  IInv'
<1>1. CASE Len(queue) < QueueCap
  BY <1>1, EnqueuedIInv
<1>2. CASE ~ (Len(queue) < QueueCap)
  <2>1. /\ request[c] = "sent" /\ request' = [request EXCEPT ![c] = "busy"]
        /\ UNCHANGED <<paired, phase, cur, up, taskVars, introVars, overtaken, faults>>
    BY <1>2, RegistrationAssumption DEF handle, IInv, TypeOK, taskVars
  <2>2. TypeOK' /\ OwnersSound'
    BY <2>1 DEF IInv, TypeOK, OwnersSound, taskVars, introVars
  <2>3. \A v \in Workers : Ready(v)' => Ready(v)
    BY <2>1, WorkerOfConn DEF IInv, TypeOK, Ready
  <2>4. OrderSound' /\ NamedSound' /\ KnownSound'
    BY <2>1, <2>3, Frame DEF taskVars, introVars
  <2> QED  BY <2>2, <2>4 DEF IInv
<1> QED  BY <1>1, <1>2

(* The workers task takes the head of the queue: everyone it had taken,    *)
(* and this one, is told of everyone.                                      *)
LEMMA JoinsIInv ==
  ASSUME IInv, Joins
  PROVE  IInv'
<1> DEFINE c == Head(queue)
<1> USE WorkerOfConn
<1>a. /\ queue \in Seq(Conns) /\ queue # <<>> /\ queue' = Tail(queue)
      /\ live' = [live EXCEPT ![worker(c)] = c]
      /\ watch' = [watch EXCEPT ![c] = "probing"]
      /\ roster' = [x \in Conns |->
           IF live'[worker(x)] = x THEN roster[x] \cup (paired \ {worker(x)}) ELSE roster[x]]
      /\ UNCHANGED <<paired, phase, cur, up, request, knows, missed, overtaken, faults>>
  BY DEF Joins, IInv, TypeOK
<1>b. /\ c \in Conns /\ c = queue[1] /\ queue' \in Seq(Conns)
      /\ Len(queue) \in Nat \ {0} /\ Len(queue') = Len(queue) - 1
      /\ \A i \in 1..Len(queue') : queue'[i] = queue[i + 1]
  BY <1>a
<1> HIDE DEF c
<1>1. TypeOK'
  <2>1. queue' \in Seq(Conns) /\ Len(queue') <= QueueCap
    BY <1>b, RegistrationAssumption DEF IInv, TypeOK
  <2>2. roster' \in [Conns -> SUBSET Workers]
    BY <1>a DEF IInv, TypeOK
  <2>3. live' \in [Workers -> Conns \cup {None}]
    BY <1>a, <1>b DEF IInv, TypeOK
  <2>4. watch' \in [Conns -> {"none", "probing", "waiting"}]
    BY <1>a, <1>b DEF IInv, TypeOK
  <2> QED  BY <1>a, <2>1, <2>2, <2>3, <2>4 DEF IInv, TypeOK
<1>2. OwnersSound'
  BY <1>a DEF IInv, TypeOK, OwnersSound
<1>3. \A w \in Workers : Ready(w)' = Ready(w)
  BY <1>a DEF Ready
<1>4. ASSUME NEW w \in Workers, Taken(w)'
      PROVE  Taken(w) \/ cur[w] = c
  <2> SUFFICES ASSUME cur[w] # c, Queued(cur[w])
               PROVE  Queued(cur[w])'
    BY <1>4, <1>3, <1>a DEF Taken
  <2>1. PICK i \in 1..Len(queue) : queue[i] = cur[w]
    BY DEF Queued
  <2>2. i # 1 /\ i - 1 \in 1..Len(queue') /\ queue'[i - 1] = queue[i]
    BY <1>b, <2>1
  <2> QED  BY <2>1, <2>2, <1>a DEF Queued
<1>5. OrderSound'
  <2> SUFFICES ASSUME ~ overtaken', NEW w \in Workers, Ready(w)',
                      NEW i \in 1..Len(queue'), worker(queue'[i]) = w, queue'[i] # cur'[w]
               PROVE  \E j \in 1..Len(queue') : i < j /\ queue'[j] = cur'[w]
    BY DEF OrderSound
  <2>1. i + 1 \in 1..Len(queue) /\ queue'[i] = queue[i + 1]
    BY <1>b
  <2>2. PICK j \in 1..Len(queue) : i + 1 < j /\ queue[j] = cur[w]
    BY <2>1, <1>a, <1>3 DEF IInv, OrderSound
  <2>3. j - 1 \in 1..Len(queue') /\ i < j - 1 /\ queue'[j - 1] = queue[j]
    BY <1>b, <2>2
  <2> QED  BY <2>2, <2>3, <1>a
<1>6. NamedSound'
  <2> SUFFICES ASSUME ~ overtaken', NEW w \in Workers, Taken(w)'
               PROVE  live'[w] = cur'[w]
    BY DEF NamedSound
  <2>0. Ready(w) /\ cur[w] \in Conns /\ worker(cur[w]) = w
    BY <1>3 DEF Taken, Ready, IInv, TypeOK, OwnersSound
  <2>1. CASE cur[w] = c
    BY <1>a, <1>b, <2>0, <2>1 DEF IInv, TypeOK
  <2>2. CASE cur[w] # c
    <3>1. Taken(w) /\ live[w] = cur[w]
      BY <1>4, <2>2, <1>a DEF IInv, NamedSound
    <3>2. worker(c) # w
      <4> SUFFICES ASSUME worker(c) = w PROVE FALSE
        OBVIOUS
      <4>1. PICK j \in 1..Len(queue) : 1 < j /\ queue[j] = cur[w]
        BY <2>0, <2>2, <1>a, <1>b DEF IInv, OrderSound
      <4> QED  BY <4>1, <3>1 DEF Taken, Queued
    <3> QED  BY <1>a, <3>1, <3>2 DEF IInv, TypeOK
  <2> QED  BY <2>1, <2>2
<1>7. KnownSound'
  <2> SUFFICES ASSUME ~ overtaken', NEW v \in Workers, NEW w \in Workers,
                      v # w, Taken(v)', Taken(w)'
               PROVE  v \in roster'[cur'[w]]
    BY DEF KnownSound
  <2>1. Ready(v) /\ Ready(w)
    BY <1>3 DEF Taken
  <2>2. v \in paired /\ cur[w] \in Conns /\ worker(cur[w]) = w
    BY <2>1 DEF Ready, IInv, TypeOK, OwnersSound
  <2>3. live'[w] = cur[w]
    BY <1>6, <1>a DEF NamedSound
  <2> QED  BY <1>a, <2>2, <2>3
<1> QED  BY <1>1, <1>2, <1>5, <1>6, <1>7 DEF IInv

(* The watcher of a connection; it removes nothing but a closed one. *)
LEMMA WatcherIInv ==
  ASSUME IInv, NEW c \in Conns, Probed(c) \/ Removes(c)
  PROVE  IInv'
<1> USE WorkerOfConn
<1>1. TypeOK'
  BY DEF IInv, TypeOK, Probed, Removes, introVars
<1>2. OwnersSound'
  BY DEF IInv, OwnersSound, Probed, Removes, introVars
<1>3. \A v \in Workers : Ready(v)' => Ready(v) /\ (live[v] = cur[v] => live'[v] = cur[v])
  BY DEF IInv, TypeOK, Probed, Removes, Ready, Ends
<1>4. OrderSound' /\ NamedSound' /\ KnownSound'
  BY <1>3, Frame DEF Probed, Removes, introVars
<1> QED  BY <1>1, <1>2, <1>4 DEF IInv

LEMMA IntroductionIInv ==
  ASSUME IInv, NEW c \in Conns, Introduction(c)
  PROVE  IInv'
<1> USE WorkerOfConn
<1>1. CASE Introduced(c)
  <2>1. TypeOK'
    BY <1>1 DEF IInv, TypeOK, OwnersSound, Introduced, taskVars
  <2>2. OwnersSound'
    BY <1>1 DEF IInv, TypeOK, OwnersSound, Introduced, taskVars
  <2>3. ASSUME NEW v \in Workers, Ready(v)
        PROVE  knows[v] \cup roster[cur[v]] \subseteq knows'[v] \cup roster'[cur[v]]
    <3>1. cur[v] \in Conns /\ worker(cur[v]) = v
      BY <2>3 DEF IInv, TypeOK, OwnersSound, Ready
    <3>2. CASE cur[v] = c
      BY <1>1, <3>1, <3>2 DEF IInv, TypeOK, Introduced
    <3>3. CASE cur[v] # c
      BY <1>1, <3>1, <3>3 DEF IInv, TypeOK, Introduced
    <3> QED  BY <3>2, <3>3
  <2>4. OrderSound' /\ NamedSound' /\ KnownSound'
    BY <1>1, <2>3, Frame DEF Introduced, taskVars, Ready
  <2> QED  BY <2>1, <2>2, <2>4 DEF IInv
<1>2. CASE IntroductionFails(c)
  <2>0. missed' \in BOOLEAN /\ (missed => missed') /\ (up[c] = Ends => missed')
    <3>1. missed \in BOOLEAN
      BY DEF IInv, TypeOK
    <3>2. (missed' = missed /\ up[c] # Ends) \/ missed' = TRUE
      BY <1>2 DEF IntroductionFails
    <3> QED  BY <3>1, <3>2, Zenon
  <2>1. TypeOK'
    BY <1>2, <2>0, RegistrationAssumption DEF IInv, TypeOK, IntroductionFails, Fault, taskVars
  <2>2. OwnersSound'
    BY <1>2 DEF IInv, TypeOK, OwnersSound, IntroductionFails, taskVars
  <2>3. ASSUME NEW v \in Workers, Ready(v), ~ missed'
        PROVE  knows[v] \cup roster[cur[v]] \subseteq knows'[v] \cup roster'[cur[v]]
    BY <1>2, <2>0, <2>3 DEF IInv, TypeOK, IntroductionFails, Ready
  <2>4. OrderSound' /\ NamedSound' /\ KnownSound'
    BY <1>2, <2>0, <2>3, Frame DEF IntroductionFails, taskVars, Ready
  <2> QED  BY <2>1, <2>2, <2>4 DEF IInv
<1> QED  BY <1>1, <1>2 DEF Introduction

LEMMA MasterRestartsIInv ==
  ASSUME IInv, MasterRestarts
  PROVE  IInv'
<1>1. TypeOK'
  <2>1. queue' \in Seq(Conns) /\ Len(queue') <= QueueCap /\ faults' \in 0..MaxFaults
    BY RegistrationAssumption DEF IInv, TypeOK, MasterRestarts, Fault
  <2>2. /\ up' \in [Conns -> SUBSET Ends] /\ roster' \in [Conns -> SUBSET Workers]
        /\ request' \in [Conns -> {"none", "sent", "ok", "busy"}]
    BY DEF IInv, TypeOK, MasterRestarts
  <2> QED  BY <2>1, <2>2 DEF IInv, TypeOK, MasterRestarts
<1>2. OwnersSound'
  BY WorkerOfConn DEF IInv, TypeOK, OwnersSound, MasterRestarts
<1>3. \A v \in Workers : ~ Ready(v)'
  BY WorkerOfConn DEF IInv, TypeOK, MasterRestarts, Ready, Ends
<1> QED  BY <1>1, <1>2, <1>3 DEF IInv, OrderSound, NamedSound, KnownSound, Taken
-----------------------------------------------------------------------------
(* Every step, and stuttering, preserves the invariant. *)
LEMMA StepIInv == IInv /\ [Next]_vars => IInv'
<1> SUFFICES ASSUME IInv, [Next]_vars PROVE IInv'
  OBVIOUS
<1>1. ASSUME NEW w \in Workers, Pairs(w) \/ WorkerLoop(w) \/ WorkerFails(w)
      PROVE  IInv'
  <2>1. CASE Refused(w) \/ Disconnected(w)
    BY <2>1, DropsIInv DEF Refused, Disconnected, IInv, TypeOK
  <2>2. CASE WorkerFails(w)
    <3>1. faults' \in 0..MaxFaults
      BY <2>2, RegistrationAssumption DEF WorkerFails, Fault, IInv, TypeOK
    <3> QED  BY <2>2, <3>1, DropsIInv DEF WorkerFails
  <2> QED
    BY <1>1, <2>1, <2>2, PairsIInv, ConnectsIInv, RegistersIInv DEF WorkerLoop
<1>2. ASSUME NEW c \in Conns, CloseArrives(c) PROVE IInv'
  <2>1. up' = [up EXCEPT ![c] = {}] /\ {} \in SUBSET Ends /\ {} # Ends
    BY <1>2 DEF CloseArrives, Ends
  <2> QED  BY <1>2, <2>1, ClosesIInv DEF CloseArrives, IInv, TypeOK
<1>3. ASSUME NEW c \in Conns, IdleTimeout(c) PROVE IInv'
  <2> DEFINE E == up[c] \ {"master"}
  <2>1. up' = [up EXCEPT ![c] = E] /\ E \in SUBSET Ends /\ E # Ends
    BY <1>3 DEF IdleTimeout, Ends, IInv, TypeOK
  <2>2. faults' \in 0..MaxFaults
    BY <1>3, RegistrationAssumption DEF IdleTimeout, Fault, IInv, TypeOK
  <2> HIDE DEF E
  <2> QED  BY <1>3, <2>1, <2>2, ClosesIInv DEF IdleTimeout
<1>4. ASSUME NEW c \in Conns, Task(c) \/ Introduction(c) PROVE IInv'
  BY <1>4, HandleIInv, NeverReadIInv, WatcherIInv, IntroductionIInv DEF Task
<1>5. CASE UNCHANGED vars
  <2>1. TypeOK' /\ OwnersSound'
    BY <1>5 DEF vars, taskVars, introVars, IInv, TypeOK, OwnersSound
  <2>2. OrderSound' /\ NamedSound' /\ KnownSound'
    BY <1>5, Frame DEF vars, taskVars, introVars, Ready
  <2> QED  BY <2>1, <2>2 DEF IInv
<1> QED
  BY <1>1, <1>2, <1>3, <1>4, <1>5, JoinsIInv, MasterRestartsIInv DEF Next

LEMMA Invariance == Spec => []IInv
  BY InitIInv, StepIInv, PTL DEF Spec

(* Every variable keeps its shape; the queue never holds more than its     *)
(* capacity, whatever handlers run at once, and nobody is introduced to    *)
(* itself (MasterHandler::handle, roster_for).                             *)
THEOREM TypeCorrect == Spec => []TypeOK
<1>1. IInv => TypeOK
  BY DEF IInv
<1> QED  BY <1>1, Invariance, PTL

(* The watchers of old connections, late registrations and restarts never  *)
(* take a registered worker's open connection out of the registry, unless  *)
(* a handler was overtaken (workers in startup/master.rs).                 *)
THEOREM RegistryNamesCurrentHolds == Spec => []RegistryNamesCurrent
<1>1. IInv => RegistryNamesCurrent
  <2> SUFFICES ASSUME IInv, ~ overtaken, NEW w \in Workers, Holds(w)
               PROVE  live[w] = cur[w]
    BY DEF RegistryNamesCurrent
  <2>1. Taken(w)
    BY DEF IInv, TypeOK, OwnersSound, Holds, Taken, Ready
  <2> QED  BY <2>1 DEF IInv, NamedSound
<1> QED  BY <1>1, Invariance, PTL

(* Two registered workers are in each other's trust store once everything  *)
(* that was sent has arrived, unless an introduction was lost or a handler *)
(* overtaken (workers in startup/master.rs, accept_introductions).         *)
THEOREM MutuallyIntroducedHolds == Spec => []MutuallyIntroduced
<1>1. IInv => MutuallyIntroduced
  <2> SUFFICES ASSUME IInv, AtRest, ~ missed, ~ overtaken,
                      NEW v \in Workers, NEW w \in Workers, v # w, Holds(v), Holds(w)
               PROVE  v \in knows[w]
    BY DEF MutuallyIntroduced
  <2>1. Taken(v) /\ Taken(w)
    BY DEF IInv, TypeOK, OwnersSound, Holds, Taken, Ready
  <2>2. roster[cur[w]] = {}
    BY <2>1 DEF IInv, TypeOK, AtRest, Taken, Ready
  <2> QED  BY <2>1, <2>2 DEF IInv, KnownSound
<1> QED  BY <1>1, Invariance, PTL
=============================================================================
