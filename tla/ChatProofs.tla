----------------------------- MODULE ChatProofs -----------------------------
(***************************************************************************)
(* The chat for any number of chats, workers, sockets, addresses and       *)
(* faults: types, the exclusive use of a GPU, and what a tunnel that ends  *)
(* in success says.                                                        *)
(***************************************************************************)
EXTENDS Chat, FiniteSetTheorems, TLAPS

(* Every step is one of these, a broken link being noticed or a fault.     *)
LEMMA NextCases ==
  ASSUME [Next]_vars
  PROVE  \/ \E c \in Chats, r \in Requests, F \in SUBSET Workers : Locates(c, r, F)
         \/ \E c \in Chats : LocatesNobody(c) \/ Launches(c) \/ Over(c)
         \/ \E c \in Chats, w \in Workers :
              Asks(c, w) \/ Answers(c, w) \/ Opens(c, w) \/ MasterLoses(c, w) \/ WorkerLoses(c, w)
         \/ \E w \in Workers : Restarts(w)
         \/ \E s \in Made : Session(s) \/ EngineCloses(s) \/ OpenFails(s) \/ ServerDies(s)
         \/ UNCHANGED vars
BY DEF Next, Driver, Links, Bails, Exits, LosesWorker, MasterNotices, WorkerNotices, MasterTimesOut, WorkerTimesOut

(* Faults are bounded.                                                     *)
LEMMA FaultsBounded ==
  ASSUME TypeOK, [Next]_vars
  PROVE  faults' \in 0 .. MaxFaults
<1> DEFINE Bounded == Fault \/ faults' = faults
<1>1. ASSUME NEW c \in Chats, Driver(c) PROVE Bounded
  BY <1>1 DEF Driver, Locates, LocatesNobody, Launches, Asks, Answers, Opens, Bails, Exits, LosesWorker, Over
<1>2. ASSUME NEW c \in Chats, NEW w \in Workers, Links(c, w) PROVE Bounded
  BY <1>2 DEF Links, MasterNotices, WorkerNotices, MasterTimesOut, WorkerTimesOut
<1>3. ASSUME NEW w \in Workers, Restarts(w) PROVE Bounded
  BY <1>3 DEF Restarts
<1>4. ASSUME NEW s \in Made, Session(s) \/ EngineCloses(s) \/ OpenFails(s) \/ ServerDies(s) PROVE Bounded
  BY <1>4 DEF Session, EngineCloses, Arrives, Granted, Refused, Acks, AckFails, Connected, OpenFails, ProxyOut,
     ProxyIn, ProxyDone, ProxyFails, ServeOut, ServeIn, ServeDone, ServeFails, ServerCloses, ServerDies
<1>5. Bounded
  BY <1>1, <1>2, <1>3, <1>4 DEF Next, vars
<1>6. QED
  BY <1>5, ChatAssumption DEF TypeOK, Fault

(* Types are preserved by every step.                                      *)
LEMMA TypePreserved ==
  ASSUME TypeOK, [Next]_vars
  PROVE  TypeOK'
<1> USE ChatAssumption DEF TypeOK, Sockets, Made, Requests, Anything, Nobody, chatVars, linkVars, masterVars, workerVars
<1>1. ASSUME NEW c \in Chats, NEW r \in Requests, NEW F \in SUBSET Workers, Locates(c, r, F) PROVE TypeOK'
  BY <1>1 DEF Locates
<1>2. ASSUME NEW c \in Chats, LocatesNobody(c) PROVE TypeOK'
  BY <1>2 DEF LocatesNobody
<1>3. ASSUME NEW c \in Chats, NEW w \in Workers, Asks(c, w) PROVE TypeOK'
  <2>1. left' \in [Chats -> 0 .. MaxAddrs] /\ found' \in [Chats -> SUBSET Workers]
    <3>1. CASE left[c] > 0 /\ left' = [left EXCEPT ![c] = @ - 1] /\ found' = found
      <4>1. left[c] - 1 \in 0 .. MaxAddrs
        BY <3>1
      <4>2. QED
        BY <3>1, <4>1
    <3>2. CASE left' = left /\ found' = [found EXCEPT ![c] = @ \ {w}]
      BY <3>2
    <3>3. QED
      BY <1>3, <3>1, <3>2 DEF Asks, Reaches, NextPlace
  <2>2. cpc' \in [Chats -> {"idle", "connect", "ask", "run", "over"}] /\ at' \in [Chats -> Workers \cup {NoWorker}]
    BY <1>3 DEF Asks, Reaches
  <2>3. mconn' \subseteq Chats \X Workers /\ wconn' \subseteq Chats \X Workers
    BY <1>3 DEF Asks, Reaches
  <2>4. permit' \in [Workers -> Sockets \cup Chats \cup {Free}]
    BY <1>3 DEF Asks, Reaches
  <2>5. QED
    BY <1>3, <2>1, <2>2, <2>3, <2>4 DEF Asks, Reaches
<1>4. ASSUME NEW c \in Chats, NEW w \in Workers, Answers(c, w) PROVE TypeOK'
  <2>1. CASE cpc[c] = "ask" /\ at[c] = w /\ <<c, w>> \in mconn \cap wconn
    <3>1. using' = [using EXCEPT ![c] = @ \cup {w}] /\ at' = [at EXCEPT ![c] = NoWorker]
          /\ cpc' = [cpc EXCEPT ![c] = "connect"]
      BY <1>4, <2>1 DEF Answers
    <3>2. permit' \in [Workers -> Sockets \cup Chats \cup {Free}]
      BY <1>4 DEF Answers
    <3>3. QED
      BY <1>4, <3>1, <3>2 DEF Answers
  <2>2. CASE cpc' = cpc /\ using' = using /\ at' = at
    BY <1>4, <2>2 DEF Answers
  <2>3. QED
    BY <1>4, <2>1, <2>2 DEF Answers
<1>5. ASSUME NEW c \in Chats, Over(c) PROVE TypeOK'
  BY <1>5 DEF Over, Dropped, Of, Proxying, Chat
<1>6. ASSUME NEW c \in Chats, NEW w \in Workers, Opens(c, w) PROVE TypeOK'
  BY <1>6 DEF Opens
<1>7. ASSUME NEW c \in Chats, NEW w \in Workers, MasterLoses(c, w), faults' \in 0 .. MaxFaults PROVE TypeOK'
  BY <1>7 DEF MasterLoses, Dropped, Between, Proxying
<1>8. ASSUME NEW c \in Chats, NEW w \in Workers, WorkerLoses(c, w), faults' \in 0 .. MaxFaults PROVE TypeOK'
  BY <1>8 DEF WorkerLoses, Between, Released
<1>9. ASSUME NEW w \in Workers, Restarts(w) PROVE TypeOK'
  BY <1>9 DEF Restarts, Fault, Worker
<1>10. ASSUME NEW s \in Made, EngineCloses(s) PROVE TypeOK'
  BY <1>10 DEF EngineCloses
<1>11. ASSUME NEW s \in Made, Arrives(s) PROVE TypeOK'
  BY <1>11 DEF Arrives
<1>12. ASSUME NEW s \in Made, Granted(s) PROVE TypeOK'
  BY <1>12 DEF Granted, Worker
<1>13. ASSUME NEW s \in Made, Refused(s) PROVE TypeOK'
  BY <1>13 DEF Refused
<1>14. ASSUME NEW s \in Made, Acks(s) PROVE TypeOK'
  BY <1>14 DEF Acks
<1>15. ASSUME NEW s \in Made, AckFails(s) PROVE TypeOK'
  BY <1>15 DEF AckFails, Released
<1>16. ASSUME NEW s \in Made, Connected(s) PROVE TypeOK'
  BY <1>16 DEF Connected
<1>17. ASSUME NEW s \in Made, OpenFails(s) PROVE TypeOK'
  BY <1>17 DEF OpenFails, Dropped
<1>18. ASSUME NEW s \in Made, ProxyOut(s) PROVE TypeOK'
  BY <1>18 DEF ProxyOut, ProxyDone
<1>19. ASSUME NEW s \in Made, ProxyIn(s) PROVE TypeOK'
  BY <1>19 DEF ProxyIn, ProxyDone
<1>20. ASSUME NEW s \in Made, ProxyFails(s) PROVE TypeOK'
  BY <1>20 DEF ProxyFails, Dropped
<1>21. ASSUME NEW s \in Made, ServeOut(s) PROVE TypeOK'
  <2>1. wdir' \in [Sockets -> SUBSET {"in", "out"}]
    BY <1>21 DEF ServeOut, Ended, ServeDone
  <2>2. wst' \in [Sockets -> {"none", "waiting", "granted", "refused", "tunnel", "done", "cut"}]
    BY <1>21 DEF ServeOut, Ended, ServeDone
  <2>3. permit' \in [Workers -> Sockets \cup Chats \cup {Free}]
    BY <1>21 DEF ServeOut, Ended, ServeDone, Released
  <2>4. QED
    BY <1>21, <2>1, <2>2, <2>3 DEF ServeOut, Ended, ServeDone
<1>22. ASSUME NEW s \in Made, ServeIn(s) PROVE TypeOK'
  <2>1. wdir' \in [Sockets -> SUBSET {"in", "out"}]
    BY <1>22 DEF ServeIn, ServeDone
  <2>2. wst' \in [Sockets -> {"none", "waiting", "granted", "refused", "tunnel", "done", "cut"}]
    BY <1>22 DEF ServeIn, ServeDone
  <2>3. permit' \in [Workers -> Sockets \cup Chats \cup {Free}]
    BY <1>22 DEF ServeIn, ServeDone, Released
  <2>4. QED
    BY <1>22, <2>1, <2>2, <2>3 DEF ServeIn, ServeDone
<1>23. ASSUME NEW s \in Made, ServeFails(s) PROVE TypeOK'
  BY <1>23 DEF ServeFails, Ended, Released
<1>24. ASSUME NEW s \in Made, ServerCloses(s) PROVE TypeOK'
  BY <1>24 DEF ServerCloses
<1>25. ASSUME NEW s \in Made, ServerDies(s) PROVE TypeOK'
  BY <1>25 DEF ServerDies, Fault
<1>26. CASE UNCHANGED vars
  BY <1>26 DEF vars
<1>27. ASSUME NEW c \in Chats, Launches(c) PROVE TypeOK'
  BY <1>27 DEF Launches
<1>28. QED
  BY <1>27, <1>1, <1>2, <1>3, <1>4, <1>5, <1>6, <1>7, <1>8, <1>9, <1>10, <1>11, <1>12, <1>13, <1>14, <1>15, <1>16, <1>17, <1>18, <1>19, <1>20, <1>21, <1>22, <1>23, <1>24, <1>25, <1>26, NextCases, FaultsBounded DEF Session

-----------------------------------------------------------------------------
(* Who is served holds the permit, and a socket that does not exist yet    *)
(* has no task.                                                            *)
PermitSound ==
  /\ \A s \in Made : Served(s) => permit[Worker(s)] = s
  /\ \A s \in Sockets \ Made :
       wst[s] = "none" /\ mst[s] = "none" /\ ssock[s] = "none" /\ mdir[s] = {} /\ wdir[s] = {}

(* The holder of a permit is a socket or a chat, and one can tell which.   *)
LEMMA SocketsAreNoChats == \A s \in Sockets, c \in Chats : s # c
BY ChatAssumption

(* Nobody is served on a permit that somebody else got.                    *)
LEMMA PermitPreserved ==
  ASSUME TypeOK, PermitSound, [Next]_vars
  PROVE  PermitSound'
<1> USE ChatAssumption DEF TypeOK, Sockets, Made, Requests, Anything, Nobody, chatVars, linkVars, masterVars, workerVars, PermitSound, Served, Worker
<1>1. ASSUME NEW c \in Chats, NEW r \in Requests, NEW F \in SUBSET Workers, Locates(c, r, F) PROVE PermitSound'
  BY <1>1 DEF Locates
<1>2. ASSUME NEW c \in Chats, LocatesNobody(c) PROVE PermitSound'
  BY <1>2 DEF LocatesNobody
<1>3. ASSUME NEW c \in Chats, NEW w \in Workers, Asks(c, w) PROVE PermitSound'
  BY <1>3 DEF Asks, Reaches, NextPlace, Idle, Worker
<1>4. ASSUME NEW c \in Chats, NEW w \in Workers, Answers(c, w) PROVE PermitSound'
  <2>1. /\ permit[w] = c /\ permit' = [permit EXCEPT ![w] = Free]
        /\ wst' = wst /\ wdir' = wdir /\ mst' = mst /\ ssock' = ssock /\ mdir' = mdir /\ whose' = whose /\ opened' = opened
    BY <1>4 DEF Answers
  <2>2. ASSUME NEW t \in Made, wst[t] \in {"granted", "tunnel"}
        PROVE  permit'[whose[t][2]] = t
    <3>1. t \in Sockets /\ whose[t] \in Chats \X Workers
      BY <2>2
    <3>2. permit[whose[t][2]] = t /\ whose[t][2] \in Workers /\ t # c
      BY <2>2, <3>1, SocketsAreNoChats
    <3>3. permit'[whose[t][2]] = permit[whose[t][2]]
      BY <2>1, <3>2
    <3>4. QED
      BY <3>2, <3>3
  <2>3. QED
    BY <2>1, <2>2
<1>5. ASSUME NEW c \in Chats, Over(c) PROVE PermitSound'
  BY <1>5 DEF Over, Dropped, Of, Proxying, Chat
<1>6. ASSUME NEW c \in Chats, NEW w \in Workers, Opens(c, w) PROVE PermitSound'
  BY <1>6 DEF Opens
<1>7. ASSUME NEW c \in Chats, NEW w \in Workers, MasterLoses(c, w) PROVE PermitSound'
  BY <1>7 DEF MasterLoses, Dropped, Between, Proxying
<1>8. ASSUME NEW c \in Chats, NEW w \in Workers, WorkerLoses(c, w) PROVE PermitSound'
  BY <1>8 DEF WorkerLoses, Between, Released
<1>9. ASSUME NEW w \in Workers, Restarts(w) PROVE PermitSound'
  BY <1>9 DEF Restarts, Fault, Worker
<1>10. ASSUME NEW s \in Made, EngineCloses(s) PROVE PermitSound'
  BY <1>10 DEF EngineCloses
<1>11. ASSUME NEW s \in Made, Arrives(s) PROVE PermitSound'
  BY <1>11 DEF Arrives
<1>12. ASSUME NEW s \in Made, Granted(s) PROVE PermitSound'
  BY <1>12 DEF Granted, Worker
<1>13. ASSUME NEW s \in Made, Refused(s) PROVE PermitSound'
  BY <1>13 DEF Refused
<1>14. ASSUME NEW s \in Made, Acks(s) PROVE PermitSound'
  BY <1>14 DEF Acks
<1>15. ASSUME NEW s \in Made, AckFails(s) PROVE PermitSound'
  BY <1>15 DEF AckFails, Released
<1>16. ASSUME NEW s \in Made, Connected(s) PROVE PermitSound'
  BY <1>16 DEF Connected
<1>17. ASSUME NEW s \in Made, OpenFails(s) PROVE PermitSound'
  BY <1>17 DEF OpenFails, Dropped
<1>18. ASSUME NEW s \in Made, ProxyOut(s) PROVE PermitSound'
  BY <1>18 DEF ProxyOut, ProxyDone
<1>19. ASSUME NEW s \in Made, ProxyIn(s) PROVE PermitSound'
  BY <1>19 DEF ProxyIn, ProxyDone
<1>20. ASSUME NEW s \in Made, ProxyFails(s) PROVE PermitSound'
  BY <1>20 DEF ProxyFails, Dropped
<1>21. ASSUME NEW s \in Made, ServeOut(s) PROVE PermitSound'
  <2>1. \/ wst' = wst /\ permit' = permit
        \/ wst' = [wst EXCEPT ![s] = "done"] /\ permit' = [w \in Workers |-> IF permit[w] \in {s} THEN Free ELSE permit[w]]
    BY <1>21 DEF ServeOut, Ended, ServeDone, Released
  <2>2. (\A t \in Sockets \ {s} : wdir'[t] = wdir[t]) /\ mst' = mst /\ ssock' = ssock /\ mdir' = mdir /\ whose' = whose /\ opened' = opened
    BY <1>21 DEF ServeOut, Ended, ServeDone
  <2>3. (\A t \in Sockets \ {s} : wst'[t] = wst[t]) /\ wst'[s] \in {wst[s], "done"}
    BY <2>1, SMTT(30)
  <2>4. \A t \in Sockets \ Made : wst'[t] = "none" /\ mst'[t] = "none" /\ ssock'[t] = "none" /\ mdir'[t] = {} /\ wdir'[t] = {}
    BY <2>2, <2>3
  <2>5. ASSUME NEW t \in Made, wst'[t] \in {"granted", "tunnel"}
        PROVE  permit'[whose[t][2]] = t
    <3>1. wst[t] \in {"granted", "tunnel"} /\ t \in Sockets
      BY <2>1, <2>3, <2>5
    <3>2. permit[whose[t][2]] = t /\ whose[t][2] \in Workers
      BY <3>1
    <3>3. CASE permit' = permit
      BY <3>2, <3>3
    <3>4. CASE t # s /\ permit' = [w \in Workers |-> IF permit[w] \in {s} THEN Free ELSE permit[w]]
      BY <3>2, <3>4
    <3>5. QED
      BY <2>1, <2>5, <3>3, <3>4
  <2>6. QED
    BY <2>2, <2>4, <2>5
<1>22. ASSUME NEW s \in Made, ServeIn(s) PROVE PermitSound'
  <2>1. \/ wst' = wst /\ permit' = permit
        \/ wst' = [wst EXCEPT ![s] = "done"] /\ permit' = [w \in Workers |-> IF permit[w] \in {s} THEN Free ELSE permit[w]]
    BY <1>22 DEF ServeIn, ServeDone, Released
  <2>2. (\A t \in Sockets \ {s} : wdir'[t] = wdir[t]) /\ mst' = mst /\ ssock' = ssock /\ mdir' = mdir /\ whose' = whose /\ opened' = opened
    BY <1>22 DEF ServeIn, ServeDone
  <2>3. (\A t \in Sockets \ {s} : wst'[t] = wst[t]) /\ wst'[s] \in {wst[s], "done"}
    BY <2>1, SMTT(30)
  <2>4. \A t \in Sockets \ Made : wst'[t] = "none" /\ mst'[t] = "none" /\ ssock'[t] = "none" /\ mdir'[t] = {} /\ wdir'[t] = {}
    BY <2>2, <2>3
  <2>5. ASSUME NEW t \in Made, wst'[t] \in {"granted", "tunnel"}
        PROVE  permit'[whose[t][2]] = t
    <3>1. wst[t] \in {"granted", "tunnel"} /\ t \in Sockets
      BY <2>1, <2>3, <2>5
    <3>2. permit[whose[t][2]] = t /\ whose[t][2] \in Workers
      BY <3>1
    <3>3. CASE permit' = permit
      BY <3>2, <3>3
    <3>4. CASE t # s /\ permit' = [w \in Workers |-> IF permit[w] \in {s} THEN Free ELSE permit[w]]
      BY <3>2, <3>4
    <3>5. QED
      BY <2>1, <2>5, <3>3, <3>4
  <2>6. QED
    BY <2>2, <2>4, <2>5
<1>23. ASSUME NEW s \in Made, ServeFails(s) PROVE PermitSound'
  BY <1>23 DEF ServeFails, Ended, Released
<1>24. ASSUME NEW s \in Made, ServerCloses(s) PROVE PermitSound'
  BY <1>24 DEF ServerCloses
<1>25. ASSUME NEW s \in Made, ServerDies(s) PROVE PermitSound'
  BY <1>25 DEF ServerDies, Fault
<1>26. CASE UNCHANGED vars
  BY <1>26 DEF vars
<1>27. ASSUME NEW c \in Chats, Launches(c) PROVE PermitSound'
  BY <1>27 DEF Launches
<1>28. QED
  BY <1>27, <1>1, <1>2, <1>3, <1>4, <1>5, <1>6, <1>7, <1>8, <1>9, <1>10, <1>11, <1>12, <1>13, <1>14, <1>15, <1>16, <1>17, <1>18, <1>19, <1>20, <1>21, <1>22, <1>23, <1>24, <1>25, <1>26, NextCases DEF Session

(* What each direction of a tunnel says of the sockets.                    *)
TunnelSound ==
  \A s \in Made :
    /\ "out" \in mdir[s] => esock[s] = "ended"
    /\ "out" \in wdir[s] => ssock[s] \in {"ended", "died"}
    /\ ssock[s] = "ended" => "in" \in wdir[s]
    /\ "in" \in mdir[s] => "out" \in wdir[s]
    /\ "in" \in wdir[s] => "out" \in mdir[s] \/ mst[s] = "dropped"
    /\ mst[s] = "done" => mdir[s] = {"in", "out"}
    /\ wst[s] = "done" => wdir[s] = {"in", "out"}
    /\ wst[s] \in {"none", "waiting", "granted"} => wdir[s] = {}

(* A direction is finished only after the socket it reads has ended.       *)
LEMMA TunnelPreserved ==
  ASSUME TypeOK, PermitSound, TunnelSound, [Next]_vars
  PROVE  TunnelSound'
<1> USE ChatAssumption DEF TypeOK, Sockets, Made, Requests, Anything, Nobody, chatVars, linkVars, masterVars, workerVars, PermitSound, TunnelSound
<1>1. ASSUME NEW c \in Chats, NEW r \in Requests, NEW F \in SUBSET Workers, Locates(c, r, F) PROVE TunnelSound'
  BY <1>1 DEF Locates
<1>2. ASSUME NEW c \in Chats, LocatesNobody(c) PROVE TunnelSound'
  BY <1>2 DEF LocatesNobody
<1>3. ASSUME NEW c \in Chats, NEW w \in Workers, Asks(c, w) PROVE TunnelSound'
  BY <1>3 DEF Asks, Reaches, NextPlace, Idle, Worker
<1>4. ASSUME NEW c \in Chats, NEW w \in Workers, Answers(c, w) PROVE TunnelSound'
  BY <1>4 DEF Answers
<1>5. ASSUME NEW c \in Chats, Over(c) PROVE TunnelSound'
  <2>1. ssock' = ssock /\ wst' = wst /\ wdir' = wdir /\ mdir' = mdir /\ opened' = opened
    BY <1>5 DEF Over
  <2>2. ASSUME NEW s \in Made
        PROVE  /\ esock[s] = "ended" => esock'[s] = "ended"
               /\ mst[s] = "dropped" => mst'[s] = "dropped"
               /\ mst'[s] = "done" => mst[s] = "done"
    BY <1>5 DEF Over, Dropped, Of, Proxying
  <2>3. ASSUME NEW s \in 1 .. opened'
        PROVE  /\ "out" \in mdir'[s] => esock'[s] = "ended"
               /\ "out" \in wdir'[s] => ssock'[s] \in {"ended", "died"}
               /\ ssock'[s] = "ended" => "in" \in wdir'[s]
               /\ "in" \in mdir'[s] => "out" \in wdir'[s]
               /\ "in" \in wdir'[s] => "out" \in mdir'[s] \/ mst'[s] = "dropped"
               /\ mst'[s] = "done" => mdir'[s] = {"in", "out"}
               /\ wst'[s] = "done" => wdir'[s] = {"in", "out"}
               /\ wst'[s] \in {"none", "waiting", "granted"} => wdir'[s] = {}
    <3>1. s \in Made
      BY <2>1
    <3>2. QED
      BY <2>1, <2>2, <3>1, SMTT(30)
  <2>4. QED
    BY <2>3
<1>6. ASSUME NEW c \in Chats, NEW w \in Workers, Opens(c, w) PROVE TunnelSound'
  BY <1>6 DEF Opens
<1>7. ASSUME NEW c \in Chats, NEW w \in Workers, MasterLoses(c, w) PROVE TunnelSound'
  BY <1>7 DEF MasterLoses, Dropped, Between, Proxying
<1>8. ASSUME NEW c \in Chats, NEW w \in Workers, WorkerLoses(c, w) PROVE TunnelSound'
  BY <1>8 DEF WorkerLoses, Between, Released
<1>9. ASSUME NEW w \in Workers, Restarts(w) PROVE TunnelSound'
  BY <1>9 DEF Restarts, Fault, Worker
<1>10. ASSUME NEW s \in Made, EngineCloses(s) PROVE TunnelSound'
  BY <1>10 DEF EngineCloses
<1>11. ASSUME NEW s \in Made, Arrives(s) PROVE TunnelSound'
  BY <1>11 DEF Arrives
<1>12. ASSUME NEW s \in Made, Granted(s) PROVE TunnelSound'
  BY <1>12 DEF Granted, Worker
<1>13. ASSUME NEW s \in Made, Refused(s) PROVE TunnelSound'
  BY <1>13 DEF Refused
<1>14. ASSUME NEW s \in Made, Acks(s) PROVE TunnelSound'
  BY <1>14 DEF Acks
<1>15. ASSUME NEW s \in Made, AckFails(s) PROVE TunnelSound'
  BY <1>15 DEF AckFails, Released
<1>16. ASSUME NEW s \in Made, Connected(s) PROVE TunnelSound'
  BY <1>16 DEF Connected
<1>17. ASSUME NEW s \in Made, OpenFails(s) PROVE TunnelSound'
  BY <1>17 DEF OpenFails, Dropped
<1>18. ASSUME NEW s \in Made, ProxyOut(s) PROVE TunnelSound'
  BY <1>18 DEF ProxyOut, ProxyDone
<1>19. ASSUME NEW s \in Made, ProxyIn(s) PROVE TunnelSound'
  BY <1>19 DEF ProxyIn, ProxyDone
<1>20. ASSUME NEW s \in Made, ProxyFails(s) PROVE TunnelSound'
  BY <1>20 DEF ProxyFails, Dropped
<1>21. ASSUME NEW s \in Made, ServeOut(s) PROVE TunnelSound'
  BY <1>21 DEF ServeOut, Ended, ServeDone, Released
<1>22. ASSUME NEW s \in Made, ServeIn(s) PROVE TunnelSound'
  BY <1>22 DEF ServeIn, ServeDone, Released
<1>23. ASSUME NEW s \in Made, ServeFails(s) PROVE TunnelSound'
  BY <1>23 DEF ServeFails, Ended, Released
<1>24. ASSUME NEW s \in Made, ServerCloses(s) PROVE TunnelSound'
  BY <1>24 DEF ServerCloses
<1>25. ASSUME NEW s \in Made, ServerDies(s) PROVE TunnelSound'
  BY <1>25 DEF ServerDies, Fault
<1>26. CASE UNCHANGED vars
  BY <1>26 DEF vars
<1>27. ASSUME NEW c \in Chats, Launches(c) PROVE TunnelSound'
  BY <1>27 DEF Launches
<1>28. QED
  BY <1>27, <1>1, <1>2, <1>3, <1>4, <1>5, <1>6, <1>7, <1>8, <1>9, <1>10, <1>11, <1>12, <1>13, <1>14, <1>15, <1>16, <1>17, <1>18, <1>19, <1>20, <1>21, <1>22, <1>23, <1>24, <1>25, <1>26, NextCases DEF Session

-----------------------------------------------------------------------------
(* What a chat has yet to connect to, is asking and has: together what it  *)
(* was asked for.                                                          *)
Asking(c) == IF at[c] = NoWorker THEN 0 ELSE 1
Sound(c) ==
  /\ cpc[c] = "idle" => found[c] = {} /\ using[c] = {} /\ at[c] = NoWorker
  /\ cpc[c] = "connect" => at[c] = NoWorker
  /\ at[c] \notin using[c]
  /\ cpc[c] = "connect" => found[c] \cup using[c] # {} \/ left[c] > 0
  /\ cpc[c] = "ask" => at[c] \in Workers
  /\ cpc[c] \in {"connect", "ask"} /\ asked[c] # Anything =>
       /\ asked[c].ids \subseteq found[c] \cup using[c] \cup {at[c]}
       /\ Cardinality(using[c]) + Cardinality(found[c]) + left[c] + Asking(c)
            = Cardinality(asked[c].ids) + asked[c].addrs
AskedSound == \A c \in Chats : Sound(c)

(* Sets of workers can be counted.                                         *)
LEMMA Counts ==
  ASSUME NEW S \in SUBSET Workers
  PROVE  /\ Cardinality(S) \in Nat
         /\ \A w \in Workers \ S : Cardinality(S \cup {w}) = Cardinality(S) + 1
         /\ \A w \in S : Cardinality(S \ {w}) = Cardinality(S) - 1
<1>1. IsFiniteSet(S)
  BY FS_Subset, ChatAssumption
<1>2. QED
  BY <1>1, FS_CardinalityType, FS_AddElement, FS_RemoveElement

(* The steps that a chat's own variables see.                              *)
LEMMA ChatCases ==
  ASSUME [Next]_vars
  PROVE  \/ \E c \in Chats, r \in Requests, F \in SUBSET Workers : Locates(c, r, F)
         \/ \E c \in Chats : LocatesNobody(c) \/ Launches(c) \/ Over(c) \/ \E w \in Workers : Asks(c, w) \/ Answers(c, w)
         \/ UNCHANGED chatVars
BY NextCases DEF vars, Session, Opens, MasterLoses, WorkerLoses, Restarts,
   EngineCloses, Arrives, Granted, Refused, Acks, AckFails, Connected, OpenFails, ProxyOut, ProxyIn,
   ProxyDone, ProxyFails, ServeOut, ServeIn, ServeDone, ServeFails, ServerCloses, ServerDies

(* Asking a worker moves it from the places left, an answer to those used. *)
LEMMA AskedPreserved ==
  ASSUME TypeOK, AskedSound, [Next]_vars
  PROVE  AskedSound'
<1> USE ChatAssumption DEF TypeOK, Requests, Anything, chatVars, AskedSound, Sound, Asking
<1>1. ASSUME NEW c \in Chats, NEW r \in Requests, NEW F \in SUBSET Workers, Locates(c, r, F) PROVE AskedSound'
  <2>1. /\ cpc' = [cpc EXCEPT ![c] = "connect"] /\ asked' = [asked EXCEPT ![c] = r]
        /\ left' = [left EXCEPT ![c] = r.addrs] /\ found' = [found EXCEPT ![c] = F]
        /\ using' = using /\ at' = at /\ cpc[c] = "idle" /\ (r # Anything => F = r.ids)
        /\ (F # {} \/ r.addrs > 0)
    BY <1>1 DEF Locates
  <2>2. ASSUME NEW d \in Chats, d # c PROVE Sound(d)'
    BY <2>1, <2>2
  <2>3. Cardinality({}) = 0 /\ Cardinality(F) \in Nat
    BY FS_EmptySet, Counts
  <2>4. Sound(c)'
    <3>1. /\ cpc'[c] = "connect" /\ asked'[c] = r /\ left'[c] = r.addrs /\ found'[c] = F
          /\ using'[c] = {} /\ at'[c] = NoWorker
      BY <2>1
    <3>2. at'[c] \notin using'[c]
      BY <3>1
    <3>3. ASSUME r # [ids |-> {}, addrs |-> 0]
          PROVE  /\ r.ids \subseteq F
                 /\ Cardinality({}) + Cardinality(F) + r.addrs + 0 = Cardinality(r.ids) + r.addrs
      <4>1. F = r.ids /\ r.addrs \in Nat
        BY <2>1, <3>3
      <4>2. QED
        BY <2>3, <4>1
    <3>4. found'[c] \cup using'[c] # {} \/ left'[c] > 0
      BY <2>1, <3>1
    <3>5. QED
      BY <3>1, <3>2, <3>3, <3>4
  <2>5. QED
    BY <2>2, <2>4
<1>2. ASSUME NEW c \in Chats, LocatesNobody(c) PROVE AskedSound'
  BY <1>2 DEF LocatesNobody
<1>3. ASSUME NEW c \in Chats, Over(c) PROVE AskedSound'
  BY <1>3 DEF Over
<1>4. ASSUME NEW c \in Chats, NEW w \in Workers, Asks(c, w) PROVE AskedSound'
  <2>1. /\ cpc' = [cpc EXCEPT ![c] = "ask"] /\ at' = [at EXCEPT ![c] = w] /\ asked' = asked /\ using' = using
        /\ cpc[c] = "connect" /\ w \notin using[c]
    BY <1>4 DEF Asks, Reaches
  <2>2. \/ left[c] > 0 /\ left' = [left EXCEPT ![c] = @ - 1] /\ found' = found
        \/ w \in found[c] /\ left' = left /\ found' = [found EXCEPT ![c] = @ \ {w}]
    BY <1>4 DEF Asks, Reaches, NextPlace
  <2>3. ASSUME NEW d \in Chats, d # c PROVE Sound(d)'
    BY <2>1, <2>2, <2>3
  <2>4. /\ Cardinality(using[c]) \in Nat /\ Cardinality(found[c]) \in Nat
        /\ w \in found[c] => Cardinality(found[c] \ {w}) = Cardinality(found[c]) - 1
    BY Counts
  <2>5. Sound(c)'
    <3>1. CASE left[c] > 0 /\ left' = [left EXCEPT ![c] = @ - 1] /\ found' = found
      BY <2>1, <2>4, <3>1
    <3>2. CASE w \in found[c] /\ left' = left /\ found' = [found EXCEPT ![c] = @ \ {w}]
      BY <2>1, <2>4, <3>2
    <3>3. QED
      BY <2>2, <3>1, <3>2
  <2>6. QED
    BY <2>3, <2>5
<1>5. ASSUME NEW c \in Chats, NEW w \in Workers, Answers(c, w) PROVE AskedSound'
  <2>1. CASE cpc' = cpc /\ using' = using /\ at' = at
    BY <1>5, <2>1 DEF Answers
  <2>2. CASE cpc[c] = "ask" /\ at[c] = w /\ <<c, w>> \in mconn \cap wconn
    <3>1. using' = [using EXCEPT ![c] = @ \cup {w}] /\ at' = [at EXCEPT ![c] = NoWorker]
          /\ left' = left /\ found' = found
      BY <1>5, <2>2 DEF Answers
    <3>2. cpc' = [cpc EXCEPT ![c] = "connect"] /\ asked' = asked
      BY <1>5, <2>2 DEF Answers
    <3>3. w \notin using[c] /\ Cardinality(using[c] \cup {w}) = Cardinality(using[c]) + 1 /\ Cardinality(using[c]) \in Nat
          /\ Cardinality(found[c]) \in Nat
      BY <2>2, Counts
    <3>4. ASSUME NEW d \in Chats, d # c PROVE Sound(d)'
      <4>1. cpc'[d] = cpc[d] /\ asked'[d] = asked[d]
        BY <3>2, <3>4
      <4>2. using'[d] = using[d] /\ at'[d] = at[d] /\ left'[d] = left[d] /\ found'[d] = found[d]
        BY <3>1, <3>4
      <4>3. Sound(d)
        BY <3>4
      <4>4. QED
        BY <4>1, <4>2, <4>3
    <3>5. Sound(c)'
      <4>1. /\ cpc'[c] = "connect" /\ asked'[c] = asked[c] /\ left'[c] = left[c] /\ found'[c] = found[c]
            /\ using'[c] = using[c] \cup {w} /\ at'[c] = NoWorker
        BY <3>1, <3>2
      <4>2. at'[c] \notin using'[c]
        BY <4>1
      <4>3. ASSUME asked[c] # [ids |-> {}, addrs |-> 0]
            PROVE  /\ asked[c].ids \subseteq found[c] \cup (using[c] \cup {w}) \cup {NoWorker}
                   /\ Cardinality(using[c] \cup {w}) + Cardinality(found[c]) + left[c] + 0
                        = Cardinality(asked[c].ids) + asked[c].addrs
        <5>1. /\ asked[c].ids \subseteq found[c] \cup using[c] \cup {w}
              /\ Cardinality(using[c]) + Cardinality(found[c]) + left[c] + 1
                   = Cardinality(asked[c].ids) + asked[c].addrs
          BY <2>2, <4>3
        <5>2. left[c] \in Nat
          OBVIOUS
        <5>3. asked[c].ids \subseteq found[c] \cup (using[c] \cup {w}) \cup {NoWorker}
          BY <5>1
        <5>4. \A m, n, k, l \in Nat : m + n + k + 1 = l => (m + 1) + n + k + 0 = l
          OBVIOUS
        <5>5. Cardinality(asked[c].ids) + asked[c].addrs \in Nat
          <6>1. asked[c].ids \in SUBSET Workers /\ asked[c].addrs \in Nat
            OBVIOUS
          <6>2. QED
            BY <6>1, Counts
        <5>6. Cardinality(using[c] \cup {w}) + Cardinality(found[c]) + left[c] + 0
                = Cardinality(asked[c].ids) + asked[c].addrs
          <6> HIDE ChatAssumption DEF TypeOK, Requests, Anything, chatVars, AskedSound, Sound, Asking
          <6>1. (Cardinality(using[c]) + 1) + Cardinality(found[c]) + left[c] + 0
                  = Cardinality(asked[c].ids) + asked[c].addrs
            BY <3>3, <5>1, <5>2, <5>4, <5>5
          <6>2. QED
            BY <3>3, <6>1
        <5>7. QED
          BY <5>3, <5>6
      <4>4. QED
        BY <4>1, <4>2, <4>3
    <3>6. QED
      BY <3>4, <3>5
  <2>3. QED
    BY <1>5, <2>1, <2>2 DEF Answers
<1>6. ASSUME NEW c \in Chats, Launches(c) PROVE AskedSound'
  BY <1>6 DEF Launches
<1>7. CASE UNCHANGED chatVars
  BY <1>7
<1>8. QED
  BY <1>1, <1>2, <1>3, <1>4, <1>5, <1>6, <1>7, ChatCases

-----------------------------------------------------------------------------
IInv == TypeOK /\ PermitSound /\ TunnelSound /\ AskedSound

LEMMA Inductive == Spec => []IInv
<1>1. Init => IInv
  BY ChatAssumption DEF Init, IInv, TypeOK, PermitSound, TunnelSound, AskedSound, Sound, Served, Sockets, Made, Requests, Anything, Nobody
<1>2. IInv /\ [Next]_vars => IInv'
  BY TypePreserved, PermitPreserved, TunnelPreserved, AskedPreserved DEF IInv
<1>3. QED
  BY <1>1, <1>2, PTL DEF Spec

(* Every variable keeps its type.                                          *)
THEOREM TypeCorrect == Spec => []TypeOK
<1>1. IInv => TypeOK
  BY DEF IInv
<1>2. QED
  BY <1>1, Inductive, PTL

(* A GPU serves one socket at a time, and no query meanwhile.              *)
THEOREM OneSessionPerGpuAlways == Spec => []OneSessionPerGpu
<1>1. IInv => OneSessionPerGpu
  <2>1. SUFFICES ASSUME IInv, NEW s \in Made, Served(s)
                 PROVE  /\ \A t \in Made : Served(t) /\ Worker(t) = Worker(s) => t = s
                        /\ permit[Worker(s)] \notin Chats
    BY DEF OneSessionPerGpu
  <2>2. \A t \in Made : Served(t) => permit[Worker(t)] = t
    BY <2>1 DEF IInv, PermitSound
  <2>3. s \in Sockets
    BY <2>1, ChatAssumption DEF IInv, TypeOK, Made, Sockets
  <2>4. permit[Worker(s)] \notin Chats
    BY <2>1, <2>2, <2>3, ChatAssumption
  <2>5. QED
    BY <2>1, <2>2, <2>4
<1>2. QED
  BY <1>1, Inductive, PTL

(* Success at one end of a tunnel: what it read had come to its end, and   *)
(* at the proxy the server had read the whole request, unless it died.     *)
THEOREM CleanEndIsWholeEndAlways == Spec => []CleanEndIsWholeEnd
<1>1. IInv => CleanEndIsWholeEnd
  BY DEF IInv, TunnelSound, CleanEndIsWholeEnd
<1>2. QED
  BY <1>1, Inductive, PTL

(* An engine is only started on every worker asked for, on at least one,   *)
(* and no worker counts twice.                                             *)
LEMMA LaunchSound ==
  ASSUME IInv, [Next]_vars, NEW c \in Chats, cpc[c] # "run", cpc'[c] = "run"
  PROVE  /\ using'[c] # {}
         /\ asked[c].ids \subseteq using'[c]
         /\ asked[c] # Anything => Cardinality(using'[c]) = Cardinality(asked[c].ids) + asked[c].addrs
<1> USE ChatAssumption DEF IInv, TypeOK, AskedSound, Sound, Asking, Requests
<1>1. PICK d \in Chats : Launches(d)
  <2>1. ASSUME NEW d \in Chats, NEW r \in Requests, NEW F \in SUBSET Workers PROVE ~ Locates(d, r, F)
    BY DEF Locates
  <2>2. ASSUME NEW d \in Chats PROVE ~ LocatesNobody(d) /\ ~ Over(d)
    BY DEF LocatesNobody, Over
  <2>3. ASSUME NEW d \in Chats, NEW w \in Workers PROVE ~ Asks(d, w) /\ ~ Answers(d, w)
    BY DEF Asks, Reaches, Answers
  <2>4. ~ UNCHANGED chatVars
    BY DEF chatVars
  <2>5. QED
    BY <2>1, <2>2, <2>3, <2>4, ChatCases
<1>2. /\ d = c /\ cpc[c] = "connect" /\ left[c] = 0 /\ found[c] = {} /\ at[c] = NoWorker
      /\ using' = using
  BY <1>1 DEF Launches
<1>3. using'[c] # {}
  BY <1>2
<1>4. Cardinality(found[c]) = 0 /\ Cardinality(using[c]) \in Nat
  BY <1>2, FS_EmptySet, Counts
<1>5. asked[c] # Anything => Cardinality(using'[c]) = Cardinality(asked[c].ids) + asked[c].addrs
  <2>1. SUFFICES ASSUME asked[c] # Anything
                 PROVE  Cardinality(using[c]) = Cardinality(asked[c].ids) + asked[c].addrs
    BY <1>2
  <2>2. Cardinality(using[c]) + 0 + 0 + 0 = Cardinality(asked[c].ids) + asked[c].addrs
    BY <1>2, <1>4, <2>1
  <2>3. QED
    BY <1>4, <2>2
<1>6. asked[c].ids \subseteq using'[c]
  <2>1. CASE asked[c] = Anything
    BY <2>1 DEF Anything
  <2>2. CASE asked[c] # Anything
    <3>1. asked[c].ids \subseteq {} \cup using[c] \cup {NoWorker}
      BY <1>2, <2>2
    <3>2. asked[c].ids \subseteq Workers
      OBVIOUS
    <3>3. QED
      BY <1>2, <3>1, <3>2
  <2>3. QED
    BY <2>1, <2>2
<1>7. QED
  BY <1>3, <1>5, <1>6

(* The engine runs on what the user asked for, for any number of workers,  *)
(* ids and addresses.                                                      *)
THEOREM RunsOnWhatWasAskedAlways == Spec => RunsOnWhatWasAsked
<1>1. IInv /\ [Next]_vars =>
        [\A c \in Chats : cpc[c] # "run" /\ cpc'[c] = "run" =>
           /\ using'[c] # {}
           /\ asked[c].ids \subseteq using'[c]
           /\ asked[c] # Anything =>
                Cardinality(using'[c]) = Cardinality(asked[c].ids) + asked[c].addrs]_vars
  BY LaunchSound
<1>2. QED
  BY <1>1, Inductive, PTL DEF Spec, RunsOnWhatWasAsked
=============================================================================
