-------------------------- MODULE ConnectionProofs --------------------------
(***************************************************************************)
(* Who gets a connection and which connection stays: proofs about Mesh,    *)
(* for every set of devices, every number of connections and every number  *)
(* of concurrent dials, and, at the end, about Admission, for every set of *)
(* peers and every number of restarts.  The two are systems of their own   *)
(* and share no variable.                                                  *)
(***************************************************************************)
EXTENDS Mesh, Admission, FiniteSetTheorems, TLAPS

(* What TypeOK and OneConnectionPerPeer need besides themselves: a         *)
(* connection has two distinct ends, both past "none" once it is dialled,  *)
(* and an end that gave up is closed.                                      *)
EndsSound ==
  \A c \in Dialled :
    /\ link[c].dialer # link[c].listener
    /\ \A d \in Ends(c) :
         /\ stage[c][d] # "none"
         /\ stage[c][d] \in {"failed", "gone"} => d \in shut[c]

IInv == TypeOK /\ OneConnectionPerPeer /\ EndsSound

(* The empty registries of Mesh::new satisfy the invariant. *)
LEMMA InitIInv == Init => IInv
  BY MeshAssumption DEF Init, IInv, TypeOK, OneConnectionPerPeer, EndsSound, RegistrySound, Dialled

(* Facts about the ends of a dialled connection that every case uses. *)
LEMMA EndFacts ==
  ASSUME TypeOK, EndsSound, NEW c \in Dialled
  PROVE  /\ c \in Conns /\ c # None
         /\ link[c].dialer \in Devices /\ link[c].listener \in Devices
         /\ Ends(c) \subseteq Devices
         /\ \A d \in Ends(c) : Other(c, d) \in Ends(c) /\ Other(c, d) # d
                               /\ Ends(c) = {d, Other(c, d)}
         /\ \A d \in Ends(c) : stage[c][d] \in {"opening", "held", "failed", "gone"}
<1>1. c \in Conns /\ c # None
  BY MeshAssumption DEF Dialled
<1>2. link[c].dialer \in Devices /\ link[c].listener \in Devices
  BY <1>1 DEF TypeOK, Dialled, Link
<1>3. link[c].dialer # link[c].listener
  BY DEF EndsSound
<1>4. \A d \in Ends(c) : Other(c, d) \in Ends(c) /\ Other(c, d) # d
                         /\ Ends(c) = {d, Other(c, d)}
  BY <1>3 DEF Ends, Other
<1>5. Ends(c) \subseteq Devices
  BY <1>2 DEF Ends
<1>6. \A d \in Ends(c) : stage[c][d] \in {"opening", "held", "failed", "gone"}
  BY <1>1, <1>5 DEF TypeOK, EndsSound
<1> QED  BY <1>1, <1>2, <1>4, <1>5, <1>6

(* Steps that leave link alone, only turn "opening" into something else,   *)
(* and only add ends to shut keep every part but the ones about peers.     *)
LEMMA AbandonIInv ==
  ASSUME IInv, NEW c \in Dialled, NEW d \in Ends(c),
         stage[c][d] = "opening",
         Abandon(c, d) \/ Fails(c, d), UNCHANGED <<link, peers, calm>>
  PROVE  IInv'
<1>1. /\ c \in Conns /\ d \in Devices
  BY EndFacts DEF IInv
<1>2. PICK left \in {"failed", "gone"} :
        /\ stage' = [stage EXCEPT ![c][d] = left]
        /\ shut' = [shut EXCEPT ![c] = @ \cup {d}]
  BY DEF Abandon, Fails, Failed
<1>3. /\ stage' \in [Conns -> [Devices -> {"none", "opening", "held", "failed", "gone"}]]
      /\ shut' \in [Conns -> SUBSET Devices]
      /\ \A e \in Conns, x \in Devices :
           /\ stage'[e][x] = IF e = c /\ x = d THEN left ELSE stage[e][x]
           /\ shut'[e] = IF e = c THEN shut[e] \cup {d} ELSE shut[e]
  BY <1>1, <1>2 DEF IInv, TypeOK
<1>4. Dialled' = Dialled /\ \A e : Ends(e)' = Ends(e) /\ \A x : Other(e, x)' = Other(e, x)
  BY DEF Dialled, Ends, Other
<1>5. TypeOK'
  <2>1. RegistrySound'
    <3> SUFFICES ASSUME NEW x \in Devices, NEW y \in Devices, peers[x][y] # None
                 PROVE  /\ peers[x][y] \in Dialled
                        /\ Ends(peers[x][y]) = {x, y}
                        /\ stage'[peers[x][y]][x] = "held"
      BY <1>4 DEF RegistrySound
    <3>1. /\ peers[x][y] \in Dialled
          /\ Ends(peers[x][y]) = {x, y}
          /\ stage[peers[x][y]][x] = "held"
      BY DEF IInv, TypeOK, RegistrySound
    <3>2. peers[x][y] \in Conns
      BY <3>1 DEF Dialled
    <3> QED  BY <1>3, <3>1, <3>2
  <2> QED  BY <1>3, <2>1 DEF IInv, TypeOK
<1>6. OneConnectionPerPeer'
  BY <1>1, <1>3, <1>4, EndFacts DEF IInv, OneConnectionPerPeer, is_live
<1>7. EndsSound'
  BY <1>1, <1>3, <1>4, EndFacts DEF IInv, EndsSound
<1> QED  BY <1>5, <1>6, <1>7 DEF IInv

(* Closing more ends never breaks the invariant. *)
LEMMA ShutIInv ==
  ASSUME IInv, NEW c \in Conns, NEW d \in Devices,
         shut' = [shut EXCEPT ![c] = @ \cup {d}],
         UNCHANGED <<link, stage, peers>>, calm' \in BOOLEAN
  PROVE  IInv'
<1>1. /\ shut' \in [Conns -> SUBSET Devices]
      /\ \A e \in Conns : shut'[e] = IF e = c THEN shut[e] \cup {d} ELSE shut[e]
  BY DEF IInv, TypeOK
<1>2. Dialled' = Dialled /\ \A e : Ends(e)' = Ends(e) /\ \A x : Other(e, x)' = Other(e, x)
  BY DEF Dialled, Ends, Other
<1>3. TypeOK'
  BY <1>1, <1>2 DEF IInv, TypeOK, RegistrySound
<1>4. OneConnectionPerPeer'
  BY <1>1, <1>2, EndFacts DEF IInv, OneConnectionPerPeer, is_live
<1>5. EndsSound'
  BY <1>1, <1>2, EndFacts DEF IInv, EndsSound
<1> QED  BY <1>3, <1>4, <1>5 DEF IInv

(* Dialling: the new connection is in no registry yet, and the dial before *)
(* it has only failed.                                                     *)
LEMMA ConnectIInv ==
  ASSUME IInv, NEW d \in Devices, NEW p \in Devices, NEW w \in Devices \cup Absent,
         NEW c \in Conns, dial(d, w, p, c),
         \/ connect(d, w, p, c)
         \/ \E f \in Conns : connectNext(d, f, p, c)
  PROVE  IInv'
<1>1. /\ c \notin Dialled
      /\ d # p
      /\ link' = [link EXCEPT ![c] = [dialer |-> d, listener |-> p, wanted |-> w]]
      /\ calm' \in BOOLEAN
      /\ UNCHANGED <<shut, peers>>
  BY DEF dial, IInv, TypeOK
<1>2. /\ link'[c] \in Link /\ link'[c].dialer = d /\ link'[c].listener = p
      /\ \A e \in Conns \ {c} : link'[e] = link[e]
      /\ link' \in [Conns -> Link \cup {None}]
  BY <1>1 DEF IInv, TypeOK, Link
<1>3. /\ stage' \in [Conns -> [Devices -> {"none", "opening", "held", "failed", "gone"}]]
      /\ \A e \in Conns \ {c} : \A x \in Devices :
           stage'[e][x] = stage[e][x] \/ (stage[e][x] = "failed" /\ stage'[e][x] = "gone")
      /\ \A x \in {d, p} : stage'[c][x] = "opening"
  <2>1. CASE connect(d, w, p, c)
    BY <2>1 DEF connect, IInv, TypeOK, Opened
  <2>2. CASE \E f \in Conns : connectNext(d, f, p, c)
    <3>1. PICK f \in Conns \ {c} : /\ stage[f][d] = "failed"
                                  /\ stage' = [stage EXCEPT ![f][d] = "gone", ![c] = Opened(d, p)]
      BY <1>1, <2>2 DEF connectNext
    <3> QED
      BY <3>1 DEF IInv, TypeOK, Opened
  <2> QED
    BY <2>1, <2>2
<1>4. /\ Dialled' \subseteq Dialled \cup {c}
      /\ Dialled \subseteq Dialled'
      /\ \A e \in Dialled : Ends(e)' = Ends(e) /\ \A x : Other(e, x)' = Other(e, x)
      /\ \A e \in Dialled : e \in Conns \ {c} /\ link'[e] = link[e]
      /\ Ends(c)' = {d, p}
  BY <1>1, <1>2 DEF Dialled, Ends, Other
<1>5. TypeOK'
  <2>1. RegistrySound'
    <3> SUFFICES ASSUME NEW x \in Devices, NEW y \in Devices, peers[x][y] # None
                 PROVE  /\ peers[x][y] \in Dialled'
                        /\ (Ends(peers[x][y]) = {x, y})'
                        /\ stage'[peers[x][y]][x] = "held"
      BY <1>1 DEF RegistrySound
    <3>1. /\ peers[x][y] \in Dialled
          /\ Ends(peers[x][y]) = {x, y}
          /\ stage[peers[x][y]][x] = "held"
      BY DEF IInv, TypeOK, RegistrySound
    <3> QED  BY <1>1, <1>3, <1>4, <3>1
  <2> QED  BY <1>1, <1>2, <1>3, <2>1 DEF IInv, TypeOK
<1>6. OneConnectionPerPeer'
  BY <1>1, <1>3, <1>4, EndFacts DEF IInv, OneConnectionPerPeer, is_live
<1>7. EndsSound'
  BY <1>1, <1>2, <1>3, <1>4, EndFacts DEF IInv, EndsSound
<1> QED  BY <1>5, <1>6, <1>7 DEF IInv

(* Adopting: a duplicate is abandoned, or it replaces and closes the       *)
(* connection that was registered, the only other one that was open.       *)
LEMMA AdoptIInv ==
  ASSUME IInv, NEW d \in Devices, NEW c \in Conns, adopt(d, c)
  PROVE  IInv'
<1> DEFINE p == Other(c, d)
           existing == get(d, p)
<1>1. /\ c \in Dialled /\ d \in Ends(c) /\ stage[c][d] = "opening"
      /\ UNCHANGED <<link, calm>>
  BY DEF adopt
<1>2. CASE Abandon(c, d) /\ UNCHANGED peers
  BY <1>1, <1>2, AbandonIInv
<1>3. CASE /\ stage' = [stage EXCEPT ![c][d] = "held"]
           /\ shut' = [e \in Conns |-> IF e = existing THEN shut[e] \cup {d} ELSE shut[e]]
           /\ peers' = [peers EXCEPT ![d][p] = c]
  <2>1. /\ p \in Devices /\ p # d /\ Ends(c) = {d, p}
        /\ p \in Ends(c)
    BY <1>1, EndFacts DEF IInv
  <2>2. /\ stage' \in [Conns -> [Devices -> {"none", "opening", "held", "failed", "gone"}]]
        /\ \A e \in Conns, x \in Devices :
             stage'[e][x] = IF e = c /\ x = d THEN "held" ELSE stage[e][x]
    BY <1>3 DEF IInv, TypeOK
  <2>3. /\ shut' \in [Conns -> SUBSET Devices]
        /\ \A e \in Conns :
             shut'[e] = IF e = existing THEN shut[e] \cup {d} ELSE shut[e]
    BY <1>3 DEF IInv, TypeOK
  <2>4. /\ peers' \in [Devices -> [Devices -> Conns \cup {None}]]
        /\ \A x, y \in Devices :
             peers'[x][y] = IF x = d /\ y = p THEN c ELSE peers[x][y]
    BY <1>3, <2>1 DEF IInv, TypeOK
  <2>5. Dialled' = Dialled /\ \A e : Ends(e)' = Ends(e) /\ \A x : Other(e, x)' = Other(e, x)
    BY <1>1 DEF Dialled, Ends, Other
  <2>6. RegistrySound'
    <3> SUFFICES ASSUME NEW x \in Devices, NEW y \in Devices, peers'[x][y] # None
                 PROVE  /\ peers'[x][y] \in Dialled
                        /\ Ends(peers'[x][y]) = {x, y}
                        /\ stage'[peers'[x][y]][x] = "held"
      BY <2>5 DEF RegistrySound
    <3>1. CASE x = d /\ y = p
      BY <1>1, <2>1, <2>2, <2>4, <3>1
    <3>2. CASE ~ (x = d /\ y = p)
      <4>1. /\ peers'[x][y] = peers[x][y]
            /\ peers[x][y] \in Dialled
            /\ Ends(peers[x][y]) = {x, y}
            /\ stage[peers[x][y]][x] = "held"
        BY <2>4, <3>2 DEF IInv, TypeOK, RegistrySound
      <4>2. peers[x][y] \in Conns
        BY <4>1 DEF Dialled
      <4> QED  BY <2>2, <4>1, <4>2
    <3> QED  BY <3>1, <3>2
  <2>7. TypeOK'
    BY <1>1, <2>2, <2>3, <2>4, <2>6 DEF IInv, TypeOK
  <2>8. OneConnectionPerPeer'
    <3> SUFFICES ASSUME NEW e \in Dialled, NEW x \in Ends(e),
                        stage'[e][x] = "held", x \notin shut'[e]
                 PROVE  peers'[x][Other(e, x)] = e
      BY <2>5 DEF OneConnectionPerPeer, is_live
    <3>1. e \in Conns /\ e # None /\ x \in Devices /\ Other(e, x) \in Devices
      BY EndFacts DEF IInv
    <3>2. CASE e = c /\ x = d
      BY <2>1, <2>4, <3>2
    <3>3. CASE ~ (e = c /\ x = d)
      <4>1. stage[e][x] = "held" /\ x \notin shut[e]
        BY <2>2, <2>3, <3>1, <3>3
      <4>2. peers[x][Other(e, x)] = e
        BY <3>1, <4>1 DEF IInv, OneConnectionPerPeer, is_live
      <4>3. ~ (x = d /\ Other(e, x) = p)
        <5> SUFFICES ASSUME x = d, Other(e, x) = p PROVE FALSE
          OBVIOUS
        <5>1. existing = e
          BY <3>1, <4>1, <4>2 DEF get, is_live
        <5> QED  BY <2>3, <3>1, <5>1
      <4> QED  BY <2>4, <3>1, <4>2, <4>3
    <3> QED  BY <3>2, <3>3
  <2>9. EndsSound'
    <3> SUFFICES ASSUME NEW e \in Dialled
                 PROVE  /\ link[e].dialer # link[e].listener
                        /\ \A x \in Ends(e) :
                             /\ stage'[e][x] # "none"
                             /\ stage'[e][x] \in {"failed", "gone"} => x \in shut'[e]
      BY <1>1, <2>5 DEF EndsSound
    <3>1. e \in Conns /\ Ends(e) \subseteq Devices
      BY EndFacts DEF IInv
    <3> QED  BY <2>2, <2>3, <3>1 DEF IInv, EndsSound
  <2> QED  BY <2>7, <2>8, <2>9 DEF IInv
<1> QED  BY <1>2, <1>3 DEF adopt

(* Forgetting closes what it removes. *)
LEMMA ForgetIInv ==
  ASSUME IInv, NEW d \in Devices, NEW p \in Devices, forget(d, p)
  PROVE  IInv'
<1> DEFINE c == peers[d][p]
<1>1. /\ c # None /\ c \in Dialled /\ Ends(c) = {d, p}
      /\ calm' = FALSE
      /\ UNCHANGED <<link, stage>>
  BY DEF forget, IInv, TypeOK, RegistrySound
<1>2. c \in Conns
  BY <1>1 DEF Dialled
<1>3. /\ shut' \in [Conns -> SUBSET Devices]
      /\ \A e \in Conns : shut'[e] = IF e = c THEN shut[e] \cup {d} ELSE shut[e]
  BY <1>2 DEF forget, IInv, TypeOK
<1>4. /\ peers' \in [Devices -> [Devices -> Conns \cup {None}]]
      /\ \A x, y \in Devices :
           peers'[x][y] = IF x = d /\ y = p THEN None ELSE peers[x][y]
  BY DEF forget, IInv, TypeOK
<1>5. Dialled' = Dialled /\ \A e : Ends(e)' = Ends(e) /\ \A x : Other(e, x)' = Other(e, x)
  BY <1>1 DEF Dialled, Ends, Other
<1>6. TypeOK'
  <2>1. RegistrySound'
    <3> SUFFICES ASSUME NEW x \in Devices, NEW y \in Devices, peers'[x][y] # None
                 PROVE  /\ peers'[x][y] \in Dialled
                        /\ Ends(peers'[x][y]) = {x, y}
                        /\ stage[peers'[x][y]][x] = "held"
      BY <1>1, <1>5 DEF RegistrySound
    <3>1. peers'[x][y] = peers[x][y]
      BY <1>4
    <3> QED  BY <3>1 DEF IInv, TypeOK, RegistrySound
  <2> QED  BY <1>1, <1>3, <1>4, <2>1 DEF IInv, TypeOK
<1>7. OneConnectionPerPeer'
  <2> SUFFICES ASSUME NEW e \in Dialled, NEW x \in Ends(e),
                      stage[e][x] = "held", x \notin shut'[e]
               PROVE  peers'[x][Other(e, x)] = e
    BY <1>1, <1>5 DEF OneConnectionPerPeer, is_live
  <2>1. e \in Conns /\ e # None /\ x \in Devices /\ Other(e, x) \in Devices
    BY EndFacts DEF IInv
  <2>2. peers[x][Other(e, x)] = e
    BY <1>3, <2>1 DEF IInv, OneConnectionPerPeer, is_live
  <2> QED  BY <1>3, <1>4, <2>1, <2>2
<1>8. EndsSound'
  BY <1>1, <1>3, <1>5, EndFacts DEF IInv, EndsSound
<1> QED  BY <1>6, <1>7, <1>8 DEF IInv

(* An end that gives up during the handshake is abandoned; later it is     *)
(* only closed.                                                            *)
LEMMA TimesOutIInv ==
  ASSUME IInv, NEW d \in Devices, NEW c \in Conns, TimesOut(d, c)
  PROVE  IInv'
<1>1. /\ c \in Dialled /\ d \in Ends(c)
      /\ calm' = FALSE
      /\ UNCHANGED <<link, peers>>
      /\ shut' = [shut EXCEPT ![c] = @ \cup {d}]
      /\ stage[c][d] \in {"opening", "held"}
      /\ stage' = [stage EXCEPT ![c][d] = IF @ = "opening" THEN Failed(c, d) ELSE @]
      /\ Failed(c, d) \in {"failed", "gone"}
  BY DEF TimesOut, Failed
<1>2. /\ stage' \in [Conns -> [Devices -> {"none", "opening", "held", "failed", "gone"}]]
      /\ \A e \in Conns, x \in Devices :
           stage'[e][x] = IF e = c /\ x = d /\ stage[c][d] = "opening" THEN Failed(c, d)
                                                                    ELSE stage[e][x]
  BY <1>1 DEF IInv, TypeOK
<1>3. /\ shut' \in [Conns -> SUBSET Devices]
      /\ \A e \in Conns : shut'[e] = IF e = c THEN shut[e] \cup {d} ELSE shut[e]
  BY <1>1 DEF IInv, TypeOK
<1>4. Dialled' = Dialled /\ \A e : Ends(e)' = Ends(e) /\ \A x : Other(e, x)' = Other(e, x)
  BY <1>1 DEF Dialled, Ends, Other
<1>5. TypeOK'
  <2>1. RegistrySound'
    <3> SUFFICES ASSUME NEW x \in Devices, NEW y \in Devices, peers[x][y] # None
                 PROVE  /\ peers[x][y] \in Dialled
                        /\ Ends(peers[x][y]) = {x, y}
                        /\ stage'[peers[x][y]][x] = "held"
      BY <1>1, <1>4 DEF RegistrySound
    <3>1. /\ peers[x][y] \in Dialled
          /\ Ends(peers[x][y]) = {x, y}
          /\ stage[peers[x][y]][x] = "held"
      BY DEF IInv, TypeOK, RegistrySound
    <3>2. peers[x][y] \in Conns
      BY <3>1 DEF Dialled
    <3> QED  BY <1>2, <3>1, <3>2
  <2> QED  BY <1>1, <1>2, <1>3, <2>1 DEF IInv, TypeOK
<1>6. OneConnectionPerPeer'
  BY <1>1, <1>2, <1>3, <1>4, EndFacts DEF IInv, OneConnectionPerPeer, is_live
<1>7. EndsSound'
  BY <1>1, <1>2, <1>3, <1>4, EndFacts DEF IInv, EndsSound
<1> QED  BY <1>5, <1>6, <1>7 DEF IInv

(* Every step of the mesh, and stuttering, preserves the invariant. *)
LEMMA StepIInv == IInv /\ [Next]_vars => IInv'
<1> SUFFICES ASSUME IInv, [Next]_vars PROVE IInv'
  OBVIOUS
<1>1. ASSUME NEW d \in Devices, NEW p \in Devices, NEW w \in Devices \cup Absent,
             NEW c \in Conns, connect(d, w, p, c)
      PROVE  IInv'
  BY <1>1, ConnectIInv DEF connect
<1>9. ASSUME NEW d \in Devices, NEW p \in Devices, NEW f \in Conns, NEW c \in Conns,
             connectNext(d, f, p, c)
      PROVE  IInv'
  <2>1. link[f].wanted \in Devices \cup Absent /\ dial(d, link[f].wanted, p, c)
    BY <1>9 DEF connectNext, Dialled, IInv, TypeOK, Link
  <2> QED  BY <1>9, <2>1, ConnectIInv
<1>2. ASSUME NEW d \in Devices, NEW c \in Conns, AnsweredAsAnother(d, c)
      PROVE  IInv'
  BY <1>2, AbandonIInv DEF AnsweredAsAnother, Ends
<1>3. ASSUME NEW d \in Devices, NEW c \in Conns, adopt(d, c) PROVE IInv'
  BY <1>3, AdoptIInv
<1>4. ASSUME NEW d \in Devices, NEW c \in Conns, CloseArrives(d, c) PROVE IInv'
  <2>1. calm' \in BOOLEAN
    BY <1>4 DEF CloseArrives, IInv, TypeOK
  <2> QED  BY <1>4, <2>1, ShutIInv DEF CloseArrives
<1>5. ASSUME NEW d \in Devices, NEW c \in Conns, HandshakeFails(d, c) PROVE IInv'
  BY <1>5, AbandonIInv DEF HandshakeFails
<1>6. ASSUME NEW d \in Devices, NEW c \in Conns, TimesOut(d, c) PROVE IInv'
  BY <1>6, TimesOutIInv
<1>7. ASSUME NEW d \in Devices, NEW p \in Devices, forget(d, p) PROVE IInv'
  BY <1>7, ForgetIInv
<1>8. CASE UNCHANGED vars
  <2>1. TypeOK'
    <3>1. RegistrySound'
      BY <1>8 DEF vars, IInv, TypeOK, RegistrySound, Dialled, Ends
    <3> QED  BY <1>8, <3>1 DEF vars, IInv, TypeOK
  <2>2. OneConnectionPerPeer'
    BY <1>8 DEF vars, IInv, OneConnectionPerPeer, Dialled, Ends, Other, is_live
  <2>3. EndsSound'
    BY <1>8 DEF vars, IInv, EndsSound, Dialled, Ends
  <2> QED  BY <2>1, <2>2, <2>3 DEF IInv
<1> QED  BY <1>1, <1>2, <1>3, <1>4, <1>5, <1>6, <1>7, <1>8, <1>9 DEF Next

(* The inductive invariant holds of every behaviour of the mesh. *)
THEOREM Invariance == Spec => []IInv
  BY InitIInv, StepIInv, PTL DEF Spec

(* The registries stay well formed: TypeOK for every mesh. *)
THEOREM TypeCorrect == Spec => []TypeOK
  BY Invariance, PTL DEF IInv

(* No device keeps an open connection its registry does not name.          *)
THEOREM OneConnectionPerPeerHolds == Spec => []OneConnectionPerPeer
  BY Invariance, PTL DEF IInv

(* In a quiet state of a pair the open ends of its connections match, so   *)
(* one connection per peer at each end makes it the same at both.          *)
LEMMA QuietAgrees ==
  ASSUME IInv, NEW d \in Devices, NEW p \in Devices, d # p, Quiet(d, p),
         get(d, p) # None
  PROVE  get(p, d) = get(d, p)
<1> DEFINE c == peers[d][p]
<1>1. get(d, p) = c /\ c # None /\ d \notin shut[c]
  BY DEF get, is_live
<1>2. c \in Dialled /\ Ends(c) = {d, p} /\ stage[c][d] = "held"
  BY <1>1 DEF IInv, TypeOK, RegistrySound
<1>3. Other(c, p) = d
  BY <1>2, EndFacts DEF IInv
<1>4. shut[c] = {} /\ stage[c][p] # "opening"
  BY <1>1, <1>2 DEF Quiet, Between
<1>5. stage[c][p] = "held"
  BY <1>2, <1>4, EndFacts DEF IInv, EndsSound
<1>6. peers[p][d] = c
  BY <1>1, <1>2, <1>3, <1>4, <1>5 DEF IInv, OneConnectionPerPeer, is_live
<1> QED  BY <1>1, <1>4, <1>6 DEF get, is_live

(* Two devices between which nothing is in flight name the same            *)
(* connection, or neither names one: adopt needs no negotiation.           *)
THEOREM RegistriesAgreeHolds == Spec => []RegistriesAgree
<1>1. IInv => RegistriesAgree
  <2> SUFFICES ASSUME IInv, NEW d \in Devices, NEW p \in Devices, d # p, Quiet(d, p)
               PROVE  get(d, p) = get(p, d)
    BY DEF RegistriesAgree
  <2>1. Quiet(p, d)
    BY DEF Quiet, Between
  <2> QED  BY <2>1, QuietAgrees
<1> QED  BY <1>1, Invariance, PTL

-----------------------------------------------------------------------------
(* The simultaneous open.  While nothing has failed, a connection is only  *)
(* closed, and a device only dials a second time, because the lower of the *)
(* two devices has dialled as well; its connection wins at both ends.      *)

LowerDialled(c) == \E e \in Dialled : Ends(e) = Ends(c) /\ dialer_of(e) < dialer_of(c)

CalmInv ==
  /\ IsFiniteSet(Dialled)
  /\ \A c \in Conns \ Dialled : shut[c] = {}
  /\ calm => \A c \in Dialled :
       /\ link[c].wanted = link[c].listener
       /\ shut[c] # {} => LowerDialled(c)
       /\ \A e \in Dialled : e # c /\ Ends(e) = Ends(c) /\ dialer_of(e) = dialer_of(c)
                               => LowerDialled(c)

(* What is dialled stays dialled, by the same device.                      *)
LEMMA DialledStays ==
  ASSUME IInv, [Next]_vars
  PROVE  \A e \in Dialled : e \in Dialled' /\ link'[e] = link[e] /\ (LowerDialled(e) => LowerDialled(e)')
<1>1. \A e \in Dialled : e \in Dialled' /\ link'[e] = link[e]
  <2>1. CASE UNCHANGED link
    BY <2>1 DEF Dialled
  <2>2. ASSUME NEW d, NEW p, NEW w, NEW c \in Conns, dial(d, w, p, c), NEW e \in Dialled
        PROVE  e \in Dialled' /\ link'[e] = link[e]
    <3>1. e # c /\ e \in Conns
      BY <2>2 DEF dial, Dialled
    <3>2. link'[e] = link[e]
      BY <2>2, <3>1 DEF dial, IInv, TypeOK
    <3> QED  BY <3>1, <3>2 DEF Dialled
  <2> QED
    BY <2>1, <2>2 DEF Next, vars, connect, connectNext, AnsweredAsAnother, adopt, CloseArrives,
                      HandshakeFails, TimesOut, forget
<1> QED  BY <1>1 DEF LowerDialled, Ends, dialer_of

(* A step that dials nothing only has to say why it closes something.      *)
LEMMA CalmKept ==
  ASSUME IInv, CalmInv, [Next]_vars, UNCHANGED link, calm' => calm,
         \A e \in Conns : shut'[e] # shut[e] => e \in Dialled /\ (calm' => LowerDialled(e))
  PROVE  CalmInv'
<1>1. Dialled' = Dialled /\ \A e : Ends(e)' = Ends(e) /\ dialer_of(e)' = dialer_of(e)
  BY DEF Dialled, Ends, dialer_of
<1>2. \A e \in Dialled : LowerDialled(e) => LowerDialled(e)'
  BY DialledStays
<1>3. ASSUME calm', NEW c \in Dialled
      PROVE  /\ link'[c].wanted = link'[c].listener
             /\ shut'[c] # {} => LowerDialled(c)'
             /\ \A e \in Dialled : e # c /\ Ends(e) = Ends(c) /\ dialer_of(e) = dialer_of(c)
                                     => LowerDialled(c)'
  <2>1. c \in Conns
    BY DEF Dialled
  <2> QED  BY <1>2, <1>3, <2>1 DEF CalmInv
<1> QED  BY <1>1, <1>3 DEF CalmInv

(* A device dials again only if its first dial lost to a lower one: it has *)
(* no live connection, or this is at least its second dial for this peer.  *)
LEMMA CalmConnect ==
  ASSUME MaxDials <= 1, IInv, CalmInv, [Next]_vars,
         NEW d \in Devices, NEW p \in Devices, NEW w \in Devices \cup Absent, NEW c \in Conns,
         dial(d, w, p, c),
         \/ w \in Devices => get(d, w) = None
         \/ \E f \in Dialled : d = link[f].dialer /\ w = link[f].wanted /\ stage[f][d] = "failed"
  PROVE  CalmInv'
<1>1. /\ c \notin Dialled /\ d # p /\ link'[c] = [dialer |-> d, listener |-> p, wanted |-> w]
      /\ Dialled \subseteq Dialled' /\ Dialled' \subseteq Dialled \cup {c}
      /\ UNCHANGED <<shut, peers>>
  <2>1. Dialled \subseteq Dialled'
    BY DialledStays
  <2>2. \A e \in Conns : e # c => link'[e] = link[e]
    BY DEF dial, IInv, TypeOK
  <2>3. Dialled' \subseteq Dialled \cup {c}
    BY <2>2 DEF Dialled
  <2> QED  BY <2>1, <2>3 DEF dial, IInv, TypeOK
<1>2. \A e \in Dialled : /\ link'[e] = link[e] /\ Ends(e)' = Ends(e) /\ dialer_of(e)' = dialer_of(e)
                         /\ LowerDialled(e) => LowerDialled(e)'
  <2>1. \A e \in Dialled : link'[e] = link[e] /\ (LowerDialled(e) => LowerDialled(e)')
    BY DialledStays
  <2> QED  BY <2>1 DEF Ends, dialer_of
<1>3. Ends(c)' = {d, p} /\ dialer_of(c)' = d
  BY <1>1 DEF Ends, dialer_of
<1>4. IsFiniteSet(Dialled')
  BY <1>1, FS_AddElement, FS_Subset DEF CalmInv
<1>5. \A e \in Conns \ Dialled' : shut'[e] = {}
  BY <1>1 DEF CalmInv
<1>6. ASSUME calm', NEW e \in Dialled, Ends(e) = {d, p}, dialer_of(e) = d PROVE LowerDialled(e)
  <2>1. calm /\ w = p /\ link[e].wanted = link[e].listener /\ link[e].dialer = d /\ link[e].listener = p
    BY <1>1, <1>6 DEF dial, CalmInv, Ends, dialer_of
  <2>2. Dialling(d, w) = {}
    <3>1. IsFiniteSet(Dialling(d, w))
      BY FS_Subset DEF CalmInv, Dialling
    <3>2. Cardinality(Dialling(d, w)) \in Nat /\ Cardinality(Dialling(d, w)) < MaxDials
      BY <3>1, FS_CardinalityType DEF dial
    <3>3. Cardinality(Dialling(d, w)) = 0
      BY <3>2, MeshAssumption
    <3> QED  BY <3>1, <3>3, FS_EmptySet
  <2>3. stage[e][d] \in {"held", "failed", "gone"} /\ d \in Ends(e) /\ Other(e, d) = p
    <3>1. stage[e][d] # "opening"
      BY <2>1, <2>2 DEF Dialling
    <3>2. d \in Ends(e) /\ Other(e, d) = p
      BY <2>1 DEF Ends, Other
    <3> QED  BY <3>1, <3>2, EndFacts DEF IInv
  <2>4. CASE stage[e][d] \in {"failed", "gone"}
    <3>1. d \in shut[e]
      BY <2>3, <2>4 DEF IInv, EndsSound
    <3> QED  BY <2>1, <3>1 DEF CalmInv
  <2>5. CASE stage[e][d] = "held" /\ get(d, p) = None
    <3>1. d \in shut[e]
      <4> SUFFICES ASSUME d \notin shut[e] PROVE FALSE
        OBVIOUS
      <4>1. peers[d][p] = e /\ e # None
        BY <2>3, <2>5, EndFacts DEF IInv, OneConnectionPerPeer, is_live
      <4> QED  BY <2>5, <4>1 DEF get, is_live
    <3> QED  BY <2>1, <3>1 DEF CalmInv
  <2>6. ASSUME stage[e][d] = "held",
               NEW f \in Dialled, d = link[f].dialer, w = link[f].wanted, stage[f][d] = "failed"
        PROVE  LowerDialled(e)
    <3>1. f # e /\ dialer_of(f) = dialer_of(e)
      BY <1>6, <2>6 DEF dialer_of
    <3>2. Ends(f) = Ends(e)
      BY <1>6, <2>1, <2>6 DEF CalmInv, Ends
    <3> QED  BY <2>1, <3>1, <3>2 DEF CalmInv
  <2> QED  BY <2>1, <2>3, <2>4, <2>5, <2>6
<1>7. ASSUME calm', NEW e \in Dialled' PROVE link'[e].wanted = link'[e].listener
  <2>1. calm /\ w = p
    BY <1>7 DEF dial
  <2> QED  BY <1>1, <1>2, <1>7, <2>1 DEF CalmInv
<1>8. ASSUME calm', NEW e \in Dialled', shut'[e] # {} PROVE LowerDialled(e)'
  <2>1. calm /\ shut[c] = {}
    BY <1>1, <1>8 DEF dial, CalmInv
  <2> QED  BY <1>1, <1>2, <1>8, <2>1 DEF CalmInv
<1>9. ASSUME calm', NEW e \in Dialled', NEW x \in Dialled', x # e,
             Ends(x)' = Ends(e)', dialer_of(x)' = dialer_of(e)'
      PROVE  LowerDialled(e)'
  <2>1. CASE e # c /\ x # c
    <3>1. calm
      BY <1>9 DEF dial
    <3> QED  BY <1>1, <1>2, <1>9, <2>1, <3>1 DEF CalmInv
  <2>2. CASE e # c /\ x = c
    BY <1>1, <1>2, <1>3, <1>6, <1>9, <2>2
  <2>3. CASE e = c /\ x # c
    <3>1. LowerDialled(x)'
      BY <1>1, <1>2, <1>3, <1>6, <1>9, <2>3
    <3> QED  BY <1>9, <3>1 DEF LowerDialled
  <2> QED  BY <1>9, <2>1, <2>2, <2>3
<1> QED  BY <1>4, <1>5, <1>7, <1>8, <1>9 DEF CalmInv

(* adopt closes the connection of the higher dialer, or one of two that    *)
(* the same device dialled; either way there is a lower dial.              *)
LEMMA CalmAdopt ==
  ASSUME IInv, CalmInv, [Next]_vars, NEW d \in Devices, NEW c \in Conns, adopt(d, c)
  PROVE  CalmInv'
<1> DEFINE p == Other(c, d)
           existing == get(d, p)
<1>1. c \in Dialled /\ d \in Ends(c) /\ stage[c][d] = "opening" /\ UNCHANGED <<link, calm>>
  BY DEF adopt
<1>2. p \in Devices /\ Ends(c) = {d, p}
  BY <1>1, EndFacts DEF IInv
<1>3. ASSUME existing # None
      PROVE  /\ existing \in Dialled /\ existing # c /\ Ends(existing) = Ends(c)
             /\ dialer_of(existing) \in Nat /\ dialer_of(c) \in Nat
  <2>1. existing = peers[d][p]
    BY <1>3 DEF get
  <2>2. existing \in Dialled /\ Ends(existing) = {d, p} /\ stage[existing][d] = "held"
    BY <1>2, <1>3, <2>1 DEF IInv, TypeOK, RegistrySound
  <2>3. dialer_of(existing) \in Devices /\ dialer_of(c) \in Devices
    BY <1>1, <2>2, EndFacts DEF IInv, dialer_of
  <2> QED  BY <1>1, <1>2, <2>2, <2>3, MeshAssumption
<1> HIDE DEF existing, p
<1>4. CASE existing # None /\ dialer_of(existing) <= dialer_of(c) /\ Abandon(c, d)
  <2>1. calm => LowerDialled(c)
    <3>1. CASE dialer_of(existing) < dialer_of(c)
      BY <1>3, <1>4, <3>1 DEF LowerDialled
    <3>2. CASE dialer_of(existing) = dialer_of(c)
      BY <1>1, <1>3, <1>4, <3>2 DEF CalmInv
    <3> QED  BY <1>3, <1>4, <3>1, <3>2
  <2>2. \A e \in Conns : shut'[e] # shut[e] => e = c
    BY <1>4 DEF Abandon, IInv, TypeOK
  <2> QED  BY <1>1, <2>1, <2>2, CalmKept
<1>5. CASE /\ existing # None => dialer_of(existing) > dialer_of(c)
           /\ shut' = [e \in Conns |-> IF e = existing THEN shut[e] \cup {d} ELSE shut[e]]
  <2>1. \A e \in Conns : shut'[e] # shut[e] => e = existing
    BY <1>5
  <2>2. ASSUME NEW e \in Conns, e = existing PROVE e \in Dialled /\ LowerDialled(e)
    <3>1. existing # None
      BY <2>2, MeshAssumption
    <3> QED  BY <1>1, <1>3, <1>5, <2>2, <3>1 DEF LowerDialled
  <2> QED  BY <1>1, <2>1, <2>2, CalmKept
<1> QED  BY <1>4, <1>5 DEF adopt, existing, p

LEMMA CalmStep ==
  ASSUME MaxDials <= 1, IInv, CalmInv, [Next]_vars
  PROVE  CalmInv'
<1>1. ASSUME NEW d \in Devices, NEW p \in Devices, NEW w \in Devices \cup Absent,
             NEW c \in Conns, connect(d, w, p, c)
      PROVE  CalmInv'
  BY <1>1, CalmConnect DEF connect
<1>8. ASSUME NEW d \in Devices, NEW p \in Devices, NEW f \in Conns, NEW c \in Conns,
             connectNext(d, f, p, c)
      PROVE  CalmInv'
  <2>1. link[f].wanted \in Devices \cup Absent /\ dial(d, link[f].wanted, p, c)
    BY <1>8 DEF connectNext, Dialled, IInv, TypeOK, Link
  <2> QED  BY <1>8, <2>1, CalmConnect DEF connectNext
<1>2. ASSUME NEW d \in Devices, NEW c \in Conns, AnsweredAsAnother(d, c) PROVE CalmInv'
  <2>1. ~ calm /\ UNCHANGED <<link, calm>> /\ c \in Dialled
    BY <1>2 DEF AnsweredAsAnother, CalmInv
  <2>2. \A e \in Conns : shut'[e] # shut[e] => e = c
    BY <1>2 DEF AnsweredAsAnother, Fails, IInv, TypeOK
  <2> QED  BY <2>1, <2>2, CalmKept
<1>3. ASSUME NEW d \in Devices, NEW c \in Conns, adopt(d, c) PROVE CalmInv'
  BY <1>3, CalmAdopt
<1>4. ASSUME NEW d \in Devices, NEW c \in Conns, CloseArrives(d, c) \/ HandshakeFails(d, c)
      PROVE  CalmInv'
  <2>1. UNCHANGED <<link, calm>> /\ c \in Dialled /\ shut[c] # {}
    BY <1>4 DEF CloseArrives, HandshakeFails
  <2>2. \A e \in Conns : shut'[e] # shut[e] => e = c
    BY <1>4 DEF CloseArrives, HandshakeFails, Fails, IInv, TypeOK
  <2> QED  BY <2>1, <2>2, CalmKept DEF CalmInv
<1>5. ASSUME NEW d \in Devices, NEW c \in Conns, TimesOut(d, c) PROVE CalmInv'
  <2>1. ~ calm' /\ UNCHANGED link /\ c \in Dialled
    BY <1>5 DEF TimesOut
  <2>2. \A e \in Conns : shut'[e] # shut[e] => e = c
    BY <1>5 DEF TimesOut, IInv, TypeOK
  <2> QED  BY <2>1, <2>2, CalmKept
<1>6. ASSUME NEW d \in Devices, NEW p \in Devices, forget(d, p) PROVE CalmInv'
  <2>1. ~ calm' /\ UNCHANGED link
    BY <1>6 DEF forget
  <2>2. peers[d][p] \in Dialled
    BY <1>6 DEF forget, IInv, TypeOK, RegistrySound
  <2>3. \A e \in Conns : shut'[e] # shut[e] => e = peers[d][p]
    BY <1>6 DEF forget, IInv, TypeOK
  <2> QED  BY <2>1, <2>2, <2>3, CalmKept
<1>7. CASE UNCHANGED vars
  BY <1>7, CalmKept DEF vars
<1> QED  BY <1>1, <1>2, <1>3, <1>4, <1>5, <1>6, <1>7, <1>8 DEF Next

(* In a quiet pair a connection nobody closed is the one both ends name.   *)
LEMMA OpenIsNamed ==
  ASSUME IInv, NEW d \in Devices, NEW p \in Devices, d # p, Quiet(d, p),
         NEW c \in Between(d, p), shut[c] = {}
  PROVE  get(d, p) = c
<1>1. c \in Dialled /\ Ends(c) = {d, p} /\ c # None /\ Other(c, d) = p
  <2>1. c \in Dialled /\ Ends(c) = {d, p}
    BY DEF Between
  <2> QED  BY <2>1, EndFacts DEF IInv
<1>2. stage[c][d] = "held"
  BY <1>1, EndFacts DEF Quiet, IInv, EndsSound
<1>3. peers[d][p] = c
  BY <1>1, <1>2 DEF IInv, OneConnectionPerPeer, is_live
<1> QED  BY <1>1, <1>3 DEF get, is_live

(* Two devices that dial each other, in any order, end up with one live    *)
(* connection at both ends, dialled by the lower of those who dialled -    *)
(* provided a device never has two dials to one peer under way, and        *)
(* nothing fails.                                                          *)
THEOREM SimultaneousOpenSettlesHolds ==
  ASSUME MaxDials <= 1
  PROVE  Spec => []SimultaneousOpenSettles
<1>1. Init => CalmInv
  BY FS_EmptySet DEF Init, CalmInv, Dialled
<1>2. IInv /\ CalmInv /\ [Next]_vars => CalmInv'
  BY CalmStep
<1>3. IInv /\ CalmInv => SimultaneousOpenSettles
  <2> SUFFICES ASSUME IInv, CalmInv, NEW d \in Devices, NEW p \in Devices,
                      calm, d # p, Quiet(d, p), Between(d, p) # {}
               PROVE  /\ get(d, p) # None
                      /\ get(d, p) = get(p, d)
                      /\ \A c \in Between(d, p) : dialer_of(get(d, p)) <= dialer_of(c)
    BY DEF SimultaneousOpenSettles
  <2>1. \A c \in Between(d, p) : /\ c \in Dialled /\ Ends(c) = {d, p} /\ c # None
                                 /\ dialer_of(c) \in {d, p}
    BY EndFacts DEF Between, Ends, dialer_of, IInv
  <2>2. d \in Nat /\ p \in Nat
    BY MeshAssumption
  <2>3. PICK c \in Between(d, p) : shut[c] = {} /\ \A e \in Between(d, p) : dialer_of(c) <= dialer_of(e)
    <3>1. CASE \E e \in Between(d, p) : LowerDialled(e)
      <4>1. PICK e \in Between(d, p) : LowerDialled(e)
        BY <3>1
      <4>2. PICK c \in Dialled : Ends(c) = {d, p} /\ dialer_of(c) < dialer_of(e)
        BY <2>1, <4>1 DEF LowerDialled
      <4>3. c \in Between(d, p) /\ \A x \in Between(d, p) : dialer_of(c) <= dialer_of(x)
        BY <2>1, <2>2, <4>2 DEF Between
      <4>4. ~ LowerDialled(c)
        BY <2>1, <2>2, <4>2, <4>3 DEF LowerDialled, Between
      <4> QED  BY <2>1, <4>3, <4>4 DEF CalmInv
    <3>2. CASE \A e \in Between(d, p) : ~ LowerDialled(e)
      <4>1. PICK c \in Between(d, p) : TRUE
        OBVIOUS
      <4>2. shut[c] = {}
        BY <2>1, <3>2 DEF CalmInv
      <4>3. \A e \in Between(d, p) : ~ (dialer_of(e) < dialer_of(c))
        BY <2>1, <3>2 DEF LowerDialled
      <4> QED  BY <2>1, <2>2, <4>2, <4>3
    <3> QED  BY <3>1, <3>2
  <2>4. Quiet(p, d) /\ Between(p, d) = Between(d, p)
    BY DEF Quiet, Between
  <2>5. get(d, p) = c /\ get(p, d) = c
    BY <2>3, <2>4, OpenIsNamed
  <2> QED  BY <2>1, <2>3, <2>5
<1> QED  BY <1>1, <1>2, <1>3, Invariance, PTL DEF Spec
-----------------------------------------------------------------------------
(* Admission: the listener greets only whom it has judged, and judges only *)
(* whom the map of the running daemon trusts.                              *)

(* Who was greeted was judged, whose handshake has passed the judgement is *)
(* trusted, and a stopped daemon is in no handshake.                       *)
JudgedFirst ==
  /\ hello \subseteq judged
  /\ \A p \in Peers : dpc[p] = "ok" => p \in hello
  /\ lpc \in {"greeting", "greeted"} => current \in judged /\ current \in trusted
  /\ daemon = "down" => lpc = "waiting" /\ admitted = {}

AdmissionInv == AdmissionTypeOK /\ JudgedFirst /\ AdmittedIsTrusted

(* Every step preserves the invariant.                                     *)
LEMMA AdmissionInvPreserved ==
  ASSUME AdmissionInv, [AdmissionNext]_admissionVars
  PROVE  AdmissionInv'
<1> USE AdmissionAssumption DEF AdmissionInv, AdmissionTypeOK, JudgedFirst, AdmittedIsTrusted, listenerVars, mapVars, storeVars, dialVars
<1>1. CASE Trust /\ UNCHANGED dialVars
  <2>1. CASE Starts
    BY <1>1, <2>1 DEF Starts
  <2>2. ASSUME NEW p \in Peers, Trusts(p), Saved PROVE AdmissionInv'
    BY <1>1, <2>2 DEF Trusts, Saved
  <2>3. CASE daemon = "down" /\ OthersWrite
    BY <1>1, <2>3 DEF OthersWrite, Torn
  <2> QED
    BY <1>1, <2>1, <2>2, <2>3 DEF Trust
<1>2. CASE DaemonStops
  BY <1>2 DEF DaemonStops, Stops, AcceptReturns
<1>3. ASSUME NEW p \in Peers, Dials(p) PROVE AdmissionInv'
  BY <1>3 DEF Dials
<1>4. ASSUME NEW p \in Peers, DialerConnects(p) PROVE AdmissionInv'
  BY <1>4 DEF DialerConnects
<1>5. ASSUME NEW p \in Peers, DialerConfirms(p) PROVE AdmissionInv'
  BY <1>5 DEF DialerConfirms
<1>6. ASSUME NEW p \in Peers, DialerGivesUp(p) PROVE AdmissionInv'
  BY <1>6 DEF DialerGivesUp, Trying
<1>7. ASSUME NEW p \in Peers, Vanishes(p) PROVE AdmissionInv'
  BY <1>7 DEF Vanishes, Trying
<1>8. ASSUME NEW p \in Peers, Returns(p) PROVE AdmissionInv'
  BY <1>8 DEF Returns
<1>9. CASE Takes
  BY <1>9 DEF Takes
<1>10. CASE Accepts
  BY <1>10 DEF Accepts
<1>11. CASE Refuses
  BY <1>11 DEF Refuses, AcceptReturns
<1>12. CASE Greets
  BY <1>12 DEF Greets
<1>13. CASE Admits
  BY <1>13 DEF Admits, AcceptReturns
<1>14. CASE DialerIsGone
  BY <1>14 DEF DialerIsGone, AcceptReturns
<1>15. CASE AcceptTimeout
  BY <1>15 DEF AcceptTimeout, AcceptReturns
<1>16. CASE UNCHANGED admissionVars
  BY <1>16 DEF admissionVars
<1>17. QED
  BY <1>1, <1>2, <1>3, <1>4, <1>5, <1>6, <1>7, <1>8, <1>9, <1>10, <1>11, <1>12, <1>13, <1>14, <1>15, <1>16 DEF AdmissionNext, Dialer, Listener

LEMMA AdmissionInvAlways == AdmissionSpec => []AdmissionInv
<1>1. AdmissionInit => AdmissionInv
  BY AdmissionAssumption DEF AdmissionInit, MapInit, AdmissionInv, AdmissionTypeOK, JudgedFirst, AdmittedIsTrusted
<1>2. AdmissionInv /\ [AdmissionNext]_admissionVars => AdmissionInv'
  BY AdmissionInvPreserved
<1>3. QED
  BY <1>1, <1>2, PTL DEF AdmissionSpec

(* Every variable keeps its type, and the loop is in a handshake exactly   *)
(* when it has a peer.                                                     *)
THEOREM AdmissionTypeCorrect == AdmissionSpec => []AdmissionTypeOK
<1>1. AdmissionInv => AdmissionTypeOK
  BY DEF AdmissionInv
<1>2. QED
  BY <1>1, AdmissionInvAlways, PTL

(* A dialer whose connect succeeds was accepted by the listener.           *)
THEOREM OkMeansJudgedAlways == AdmissionSpec => []OkMeansJudged
<1>1. AdmissionInv => OkMeansJudged
  BY DEF AdmissionInv, JudgedFirst, OkMeansJudged
<1>2. QED
  BY <1>1, AdmissionInvAlways, PTL

(* The dispatcher only sees connections of devices the map trusts.         *)
THEOREM AdmittedIsTrustedAlways == AdmissionSpec => []AdmittedIsTrusted
<1>1. AdmissionInv => AdmittedIsTrusted
  BY DEF AdmissionInv
<1>2. QED
  BY <1>1, AdmissionInvAlways, PTL
=============================================================================
