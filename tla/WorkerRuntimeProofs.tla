------------------------ MODULE WorkerRuntimeProofs ------------------------
(***************************************************************************)
(* Theorems about WorkerRuntime, for any number of devices, streams,       *)
(* queries and ports.  MasterOnly, GpuExclusive and DialsCurrentServer are *)
(* not inductive: a live socket has to be tied to the server's owner, the  *)
(* owner to the master, and each stage of a handler to the permit.         *)
(***************************************************************************)
EXTENDS WorkerRuntime, TLAPS

(* The permit is held by exactly the handler that is in a holding stage. *)
PermitHeld ==
  /\ \A s \in Streams : pc[s] \in Holding <=> slot = s
  /\ \A q \in Queries : qpc[q] \in {"probing", "probed"} <=> slot = q

(* A recorded server was started for the device that is master now. *)
ServerOwned == server # NoServer => server.owner = master

(* "none" is the status of the absent server only. *)
StatusNone == server.status = "none" <=> server = NoServer

(* A live socket leads to the recorded, listening server, which was        *)
(* started for the socket's own device.                                    *)
LiveSocket ==
  \A s \in Streams :
    /\ sock[s] # "none" => pc[s] \in {"connected", "tunnel"}
    /\ sock[s] = "live" => server.status = "listening" /\ server.owner = from[s]

(* Past address(), a stream's device is the owner of whatever is recorded. *)
OwnAddress ==
  \A s \in Streams :
    pc[s] \in Dialing /\ server # NoServer =>
      addr[s] = server.port /\ server.owner = from[s]

IInv ==
  /\ TypeOK
  /\ PermitHeld
  /\ StatusNone
  /\ ServerOwned
  /\ LiveSocket
  /\ OwnAddress
-----------------------------------------------------------------------------
LEMMA InitIInv == Init => IInv
  BY RuntimeAssumption
  DEF Init, IInv, TypeOK, PermitHeld, StatusNone, ServerOwned, LiveSocket, OwnAddress,
      Server, Status, NoServer, StreamState, QueryState, Holding, Dialing

(* Leaving a handler keeps the invariant, whether or not the health check  *)
(* that made it leave reaped an exited child.                              *)
LEMMA LeaveIInv ==
  ASSUME IInv, NEW s \in Streams, Leave(s), UNCHANGED <<master, queryVars>>,
         \/ UNCHANGED server
         \/ server.status \in {"none", "exited"} /\ server' = NoServer
  PROVE  IInv'
  BY RuntimeAssumption
  DEF IInv, TypeOK, PermitHeld, StatusNone, ServerOwned, LiveSocket, OwnAddress,
      Server, Status, NoServer, StreamState, QueryState, Holding, Dialing,
      queryVars, Leave

LEMMA StepIInv == IInv /\ [Next]_vars => IInv'
<1> SUFFICES ASSUME IInv, [Next]_vars PROVE IInv'
  OBVIOUS
<1> USE RuntimeAssumption
    DEF IInv, TypeOK, PermitHeld, StatusNone, ServerOwned, LiveSocket, OwnAddress,
        Server, Status, NoServer, StreamState, QueryState, Holding, Dialing,
        queryVars, streamVars
<1>1. ASSUME NEW d \in Devices, Registered(d) PROVE IInv'
  BY <1>1 DEF Registered, authorize, Severed
<1>2. ASSUME Disconnected PROVE IInv'
  BY <1>2 DEF Disconnected, authorize, Severed
<1>3. ASSUME NEW s \in Streams, NEW d \in Devices, Open(s, d) PROVE IInv'
  BY <1>3 DEF Open, Healthy, Goto
<1>4. ASSUME NEW s \in Streams, NEW d \in Devices, OpenRefused(s, d) PROVE IInv'
  BY <1>4 DEF OpenRefused, Healthy, Reaped
<1>5. ASSUME NEW s \in Streams, WaitTimeout(s) PROVE IInv'
  BY <1>5 DEF WaitTimeout, Leave
<1>6. ASSUME NEW s \in Streams, Granted(s) PROVE IInv'
  BY <1>6 DEF Granted, Goto
<1>7. ASSUME NEW s \in Streams, Recheck(s) PROVE IInv'
  <2>1. CASE ~ Healthy(from[s])
    BY <1>7, <2>1, LeaveIInv DEF Recheck, Healthy, Reaped
  <2>2. CASE Healthy(from[s])
    <3>1. server' = server /\ pc' = [pc EXCEPT ![s] = "owned"]
      BY <1>7, <2>2 DEF Recheck, Healthy, Reaped, Goto
    <3>2. UNCHANGED <<master, slot, from, addr, sock, expired, qpc, qfrom>>
      BY <1>7, <2>2 DEF Recheck
    <3>3. pc[s] \in Holding
      BY <1>7 DEF Recheck
    <3>4. QED
      BY <1>7, <3>1, <3>2, <3>3 DEF Recheck
  <2>3. QED
    BY <2>1, <2>2
<1>8. ASSUME NEW s \in Streams, Reuse(s) PROVE IInv'
  BY <1>8 DEF Reuse, Goto
<1>9. ASSUME NEW s \in Streams, Start(s) PROVE IInv'
  BY <1>9 DEF Start, Goto
<1>10. ASSUME NEW s \in Streams, AddressFails(s) PROVE IInv'
  BY <1>10 DEF AddressFails, Leave
<1>11. ASSUME NEW s \in Streams, LoopCheck(s) PROVE IInv'
  <2>1. CASE ~ Healthy(from[s])
    BY <1>11, <2>1, LeaveIInv DEF LoopCheck, Healthy, Reaped
  <2>2. CASE Healthy(from[s])
    <3>1. server' = server /\ pc' = [pc EXCEPT ![s] = "dial"]
      BY <1>11, <2>2 DEF LoopCheck, Healthy, Reaped, Goto
    <3>2. UNCHANGED <<master, slot, from, addr, sock, expired, qpc, qfrom>>
      BY <1>11, <2>2 DEF LoopCheck
    <3>3. pc[s] \in Holding
      BY <1>11 DEF LoopCheck
    <3>4. QED
      BY <1>11, <3>1, <3>2, <3>3 DEF LoopCheck
  <2>3. QED
    BY <2>1, <2>2
<1>12. ASSUME NEW s \in Streams, DialSucceeds(s) PROVE IInv'
  BY <1>12 DEF DialSucceeds, Reachable, Goto
<1>13. ASSUME NEW s \in Streams, DialFails(s) PROVE IInv'
  <2>1. CASE expired[s]
    BY <1>13, <2>1, LeaveIInv DEF DialFails
  <2>2. CASE ~ expired[s]
    BY <1>13, <2>2 DEF DialFails, Goto
  <2>3. QED
    BY <2>1, <2>2
<1>14. ASSUME NEW s \in Streams, Wake(s) PROVE IInv'
  BY <1>14 DEF Wake, Goto
<1>15. ASSUME NEW s \in Streams, FinalCheck(s) PROVE IInv'
  <2>1. CASE ~ Healthy(from[s])
    BY <1>15, <2>1, LeaveIInv DEF FinalCheck, Healthy, Reaped
  <2>2. CASE Healthy(from[s])
    <3>1. server' = server /\ pc' = [pc EXCEPT ![s] = "tunnel"]
      BY <1>15, <2>2 DEF FinalCheck, Healthy, Reaped, Goto
    <3>2. UNCHANGED <<master, slot, from, addr, sock, expired, qpc, qfrom>>
      BY <1>15, <2>2 DEF FinalCheck
    <3>3. pc[s] \in Holding
      BY <1>15 DEF FinalCheck
    <3>4. QED
      BY <1>15, <3>1, <3>2, <3>3 DEF FinalCheck
  <2>3. QED
    BY <2>1, <2>2
<1>16. ASSUME NEW s \in Streams, Deadline(s) PROVE IInv'
  BY <1>16 DEF Deadline
<1>17. ASSUME NEW s \in Streams, HandshakeTimeout(s) PROVE IInv'
  BY <1>17 DEF HandshakeTimeout, Leave
<1>18. ASSUME NEW s \in Streams, TunnelEnds(s) PROVE IInv'
  BY <1>18 DEF TunnelEnds, Leave
<1>19. ASSUME NEW q \in Queries, NEW d \in Devices, QueryCheck(q, d) PROVE IInv'
  BY <1>19 DEF QueryCheck, Healthy, Reaped
<1>20. ASSUME NEW q \in Queries, QueryTry(q) PROVE IInv'
  BY <1>20 DEF QueryTry, PermitAvailable
<1>21. ASSUME NEW q \in Queries, Probe(q) PROVE IInv'
  BY <1>21 DEF Probe, QueryDone
<1>22. ASSUME NEW q \in Queries, QueryAnswer(q) PROVE IInv'
  BY <1>22 DEF QueryAnswer, Reaped, QueryDone
<1>23. ASSUME ServerListens PROVE IInv'
  BY <1>23 DEF ServerListens
<1>24. ASSUME ServerExits PROVE IInv'
  BY <1>24 DEF ServerExits, Severed
<1>25. ASSUME UNCHANGED vars PROVE IInv'
  BY <1>25 DEF vars
<1>26. QED
  BY <1>1, <1>2, <1>3, <1>4, <1>5, <1>6, <1>7, <1>8, <1>9, <1>10, <1>11, <1>12, <1>13, <1>14, <1>15, <1>16, <1>17, <1>18, <1>19, <1>20, <1>21, <1>22, <1>23, <1>24, <1>25
  DEF Next, Acquire, Address, Dial, Query

-----------------------------------------------------------------------------
THEOREM Invariance == Spec => []IInv
  BY InitIInv, StepIInv, PTL DEF Spec

(* Every variable of the GPU worker keeps its type, and what the code      *)
(* unwraps is there.                                                       *)
THEOREM TypeCorrect == Spec => []TypeOK
<1>1. IInv => TypeOK
  BY DEF IInv
<1>2. QED
  BY <1>1, Invariance, PTL

(* A socket that reaches the GPU server belongs to the current master. *)
THEOREM MasterOnlyHolds == Spec => []MasterOnly
<1>1. IInv => MasterOnly
  BY DEF IInv, LiveSocket, ServerOwned, StatusNone, MasterOnly, NoServer, TypeOK
<1>2. QED
  BY <1>1, Invariance, PTL

(* Two streams never reach the GPU server together, nor does one while a   *)
(* capability query measures memory.                                       *)
THEOREM GpuExclusiveHolds == Spec => []GpuExclusive
<1>1. IInv => GpuExclusive
  BY RuntimeAssumption DEF IInv, LiveSocket, PermitHeld, GpuExclusive, Holding, Dialing, TypeOK
<1>2. QED
  BY <1>1, Invariance, PTL

(* A stream in the dial loop dials the recorded server, if there is one. *)
THEOREM DialsCurrentServerHolds == Spec => []DialsCurrentServer
<1>1. IInv => DialsCurrentServer
  BY DEF IInv, OwnAddress, DialsCurrentServer
<1>2. QED
  BY <1>1, Invariance, PTL
-----------------------------------------------------------------------------
(* The refinement: who uses the GPU is decided by whether anybody does. *)
UserIsMaster ==
  /\ user = IF Users = {} THEN NoDevice ELSE master
  /\ Users # {} => master \in Devices

LEMMA IInvUser == IInv => UserIsMaster
<1> SUFFICES ASSUME IInv PROVE UserIsMaster
  OBVIOUS
<1> USE DEF UserIsMaster
<1>1. ASSUME NEW s \in Users PROVE from[s] = master /\ master \in Devices
  BY DEF Users, IInv, LiveSocket, ServerOwned, StatusNone, NoServer, TypeOK
<1>2. CASE Users = {}
  BY <1>2 DEF user
<1>3. CASE Users # {}
  <2> DEFINE t == CHOOSE s \in Users : TRUE
  <2>1. t \in Users
    BY <1>3
  <2>2. from[t] = master /\ master \in Devices
    BY <1>1, <2>1
  <2>3. user = from[t]
    BY <1>3 DEF user
  <2>4. QED
    BY <1>3, <2>2, <2>3
<1>4. QED
  BY <1>2, <1>3

(* What a step that leaves the master alone may do to the users. *)
UserStep ==
  \/ Users' = Users
  \/ Users' = {}
  \/ Users = {} /\ master \in Devices

LEMMA StepUsers ==
  ASSUME IInv, Next, UNCHANGED master
  PROVE  UserStep
<1> USE RuntimeAssumption DEF IInv, TypeOK
<1>1. ASSUME NEW s \in Streams, Leave(s) PROVE UserStep
  <2>1. CASE s \in Users
    <3>1. Users = {s}
      BY <2>1 DEF Users, PermitHeld, Holding
    <3>2. Users' = {}
      BY <1>1, <3>1 DEF Users, Leave
    <3>3. QED
      BY <3>2 DEF UserStep
  <2>2. CASE s \notin Users
    <3>1. Users' = Users
      BY <1>1, <2>2 DEF Users, Leave
    <3>2. QED
      BY <3>1 DEF UserStep
  <2>3. QED
    BY <2>1, <2>2
<1>2. ASSUME NEW s \in Streams, NEW x \in StreamState,
             Goto(s, x), UNCHANGED sock, sock[s] # "live"
      PROVE  UserStep
  <2>1. Users' = Users
    BY <1>2 DEF Users, Goto
  <2>2. QED
    BY <2>1 DEF UserStep
<1>3. ASSUME UNCHANGED <<pc, sock>> PROVE UserStep
  BY <1>3 DEF UserStep, Users
<1>4. ASSUME NEW s \in Streams, FinalCheck(s) PROVE UserStep
  <2>1. CASE ~ Healthy(from[s])
    BY <1>1, <1>4, <2>1 DEF FinalCheck
  <2>2. CASE Healthy(from[s])
    <3>1. Users = {}
      BY <1>4 DEF FinalCheck, Users, PermitHeld, Holding, Dialing
    <3>2. master \in Devices
      BY <1>4, <2>2 DEF FinalCheck, Healthy
    <3>3. QED
      BY <3>1, <3>2 DEF UserStep
  <2>3. QED
    BY <2>1, <2>2
<1>5. ASSUME NEW s \in Streams, DialSucceeds(s) PROVE UserStep
  <2>1. Users' = Users
    BY <1>5 DEF DialSucceeds, Users, Goto
  <2>2. QED
    BY <2>1 DEF UserStep
<1>6. ASSUME ServerExits PROVE UserStep
  <2>1. Users' = {}
    BY <1>6 DEF ServerExits, Severed, Users
  <2>2. QED
    BY <2>1 DEF UserStep
<1>7. ASSUME NEW s \in Streams, NEW d \in Devices, Open(s, d) \/ OpenRefused(s, d)
      PROVE  UserStep
  BY <1>2, <1>3, <1>7 DEF Open, OpenRefused, LiveSocket, StreamState, streamVars
<1>8. ASSUME NEW s \in Streams, Acquire(s) PROVE UserStep
  <2>1. CASE Recheck(s)
    BY <1>1, <1>2, <2>1 DEF Recheck, LiveSocket, StreamState, Holding
  <2>2. CASE WaitTimeout(s)
    BY <1>1, <2>2 DEF WaitTimeout
  <2>3. CASE Granted(s)
    BY <1>2, <2>3 DEF Granted, LiveSocket, StreamState, Holding
  <2>4. QED
    BY <1>8, <2>1, <2>2, <2>3 DEF Acquire
<1>9. ASSUME NEW s \in Streams, Address(s) PROVE UserStep
  BY <1>1, <1>2, <1>9
  DEF Address, Reuse, Start, AddressFails, LiveSocket, StreamState, Holding, Dialing
<1>10. ASSUME NEW s \in Streams, LoopCheck(s) \/ DialFails(s) \/ Wake(s) PROVE UserStep
  BY <1>1, <1>2, <1>10
  DEF LoopCheck, DialFails, Wake, LiveSocket, StreamState, Holding, Dialing
<1>11. ASSUME NEW s \in Streams, Deadline(s) \/ HandshakeTimeout(s) \/ TunnelEnds(s)
       PROVE  UserStep
  BY <1>1, <1>3, <1>11 DEF Deadline, HandshakeTimeout, TunnelEnds
<1>12. ASSUME NEW q \in Queries, Query(q) \/ \E d \in Devices : QueryCheck(q, d)
       PROVE  UserStep
  BY <1>3, <1>12 DEF Query, QueryTry, Probe, QueryAnswer, QueryCheck, streamVars
<1>13. CASE ServerListens
  BY <1>3, <1>13 DEF ServerListens, streamVars
<1>14. ASSUME NEW d \in Devices, Registered(d) PROVE FALSE
  BY <1>14 DEF Registered, authorize
<1>15. CASE Disconnected
  BY <1>15 DEF Disconnected, authorize
<1>16. QED
  BY <1>4, <1>5, <1>6, <1>7, <1>8, <1>9, <1>10, <1>11, <1>12, <1>13, <1>14, <1>15
  DEF Next, Dial

(* The runtime implements the lease: every step of the worker, seen        *)
(* through user, is a registration, a revocation, a grant to the master,   *)
(* the end of a use, or nothing.                                           *)
THEOREM Refinement == Spec => ImplementsLease
<1>1. Init => Lease!LeaseInit
  <2>1. Init => Users = {}
    BY DEF Init, Users
  <2>2. QED
    BY <2>1 DEF Init, user, Lease!LeaseInit
<1>2. IInv /\ IInv' /\ [Next]_vars => [Lease!LeaseNext]_(Lease!leaseVars)
  <2> SUFFICES ASSUME IInv, IInv', [Next]_vars
               PROVE  [Lease!LeaseNext]_(Lease!leaseVars)
    OBVIOUS
  <2> USE RuntimeAssumption
  <2>1. UserIsMaster /\ UserIsMaster'
    BY IInvUser, PTL
  <2>2. user' = IF Users' = {} THEN NoDevice ELSE master'
    BY <2>1 DEF UserIsMaster
  <2>3. master \in Devices \cup {NoDevice} /\ master' \in Devices \cup {NoDevice}
    BY DEF IInv, TypeOK
  <2>4. CASE Next /\ UNCHANGED master
    <3>1. UserStep
      BY <2>4, StepUsers
    <3>2. CASE Users' = Users
      BY <2>1, <2>2, <2>4, <3>2 DEF UserIsMaster, Lease!leaseVars
    <3>3. CASE Users' = {}
      BY <2>1, <2>2, <2>4, <3>3
      DEF UserIsMaster, Lease!leaseVars, Lease!LeaseNext, Lease!End
    <3>4. CASE Users = {} /\ master \in Devices
      BY <2>1, <2>2, <2>4, <3>4
      DEF UserIsMaster, Lease!leaseVars, Lease!LeaseNext, Lease!Grant
    <3>5. QED
      BY <3>1, <3>2, <3>3, <3>4 DEF UserStep
  <2>5. ASSUME NEW d \in Devices, Registered(d)
        PROVE  [Lease!LeaseNext]_(Lease!leaseVars)
    <3>1. master = NoDevice /\ master' = d
      BY <2>5 DEF Registered, authorize
    <3>2. Users' = {}
      BY <2>5 DEF Registered, authorize, Severed, Users, IInv, TypeOK
    <3>3. user = NoDevice /\ user' = NoDevice
      BY <2>1, <2>2, <3>1, <3>2 DEF UserIsMaster
    <3>4. QED
      BY <3>1, <3>3 DEF Lease!LeaseNext, Lease!Register
  <2>6. CASE Disconnected
    <3>1. master # NoDevice /\ master' = NoDevice
      BY <2>6 DEF Disconnected, authorize
    <3>2. user' = NoDevice
      BY <2>2, <3>1
    <3>3. QED
      BY <3>1, <3>2 DEF Lease!LeaseNext, Lease!Unregister
  <2>7. CASE UNCHANGED vars
    BY <2>7 DEF vars, user, Users, Lease!leaseVars
  <2>8. Next => UNCHANGED master \/ Disconnected \/ \E d \in Devices : Registered(d)
    BY DEF Next, Open, OpenRefused, Acquire, WaitTimeout, Granted, Recheck,
           Address, Reuse, Start, AddressFails, Dial, LoopCheck, DialSucceeds,
           DialFails, Wake, FinalCheck, Deadline, HandshakeTimeout, TunnelEnds,
           QueryCheck, Query, QueryTry, Probe, QueryAnswer,
           ServerListens, ServerExits
  <2>9. QED
    BY <2>4, <2>5, <2>6, <2>7, <2>8
<1>3. QED
  BY <1>1, <1>2, Invariance, PTL DEF Spec, ImplementsLease, Lease!LeaseSpec
=============================================================================
