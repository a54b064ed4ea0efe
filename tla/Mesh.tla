-------------------------------- MODULE Mesh --------------------------------
(***************************************************************************)
(* The connection registries of crates/lattice-net/src/mesh.rs: every      *)
(* device keeps at most one connection per peer, any device may both dial  *)
(* and be dialled, and the two ends of a pair settle duplicates without    *)
(* talking to each other.                                                  *)
(*                                                                         *)
(* A step is one lock region of one registry, or one thing QUIC does to    *)
(* one end of a connection.  The handshake of transport.rs (TLS, then the  *)
(* confirm exchange) is the state "opening" of an end; either end may      *)
(* finish it first.  A close takes effect at the end that makes it and     *)
(* reaches the other end later.                                            *)
(***************************************************************************)
EXTENDS Naturals, FiniteSets

CONSTANTS Devices,    \* device ids; their order decides who wins
          Absent,     \* paired devices that are away; others may have their address
          Conns,      \* connections, each opened at most once
          None,       \* no connection: an empty registry entry
          MaxDials    \* dials of a device for one peer under way at once

ASSUME MeshAssumption ==
  /\ Devices \subseteq Nat
  /\ Absent \cap Devices = {}
  /\ None \notin Conns
  /\ MaxDials \in Nat

VARIABLES
  link,     \* link[c]: [dialer, listener, wanted], or None before it is dialled
  stage,    \* stage[c][d]: how far end d of connection c has come
  shut,     \* shut[c]: the ends at which c has a close_reason
  peers,    \* peers[d][p]: the registry of device d
  calm      \* no timeout, loss, forget or misdirected dial so far

vars == <<link, stage, shut, peers, calm>>

Link == [dialer : Devices, listener : Devices, wanted : Devices \cup Absent]

Init ==
  /\ link = [c \in Conns |-> None]
  /\ stage = [c \in Conns |-> [d \in Devices |-> "none"]]
  /\ shut = [c \in Conns |-> {}]
  /\ peers = [d \in Devices |-> [p \in Devices |-> None]]
  /\ calm = TRUE
-----------------------------------------------------------------------------
Dialled == {c \in Conns : link[c] # None}
Ends(c) == {link[c].dialer, link[c].listener}
Other(c, d) == IF d = link[c].dialer THEN link[c].listener ELSE link[c].dialer

(* Which device opened a connection: both ends give the same answer. *)
dialer_of(c) == link[c].dialer

is_live(d, c) == c # None /\ d \notin shut[c]

(* get: the registered connection, unless it is closed here. *)
get(d, p) == IF is_live(d, peers[d][p]) THEN peers[d][p] ELSE None

(* The dials of d for peer w that are under way.                           *)
Dialling(d, w) ==
  {c \in Dialled : link[c].dialer = d /\ link[c].wanted = w /\ stage[c][d] = "opening"}

(* End d of c is given up for good. *)
Abandon(c, d) ==
  /\ stage' = [stage EXCEPT ![c][d] = "gone"]
  /\ shut' = [shut EXCEPT ![c] = @ \cup {d}]

(* What a dial that did not succeed leaves at end d: the dialer's connect  *)
(* may have another address.                                               *)
Failed(c, d) == IF d = link[c].dialer THEN "failed" ELSE "gone"

Fails(c, d) ==
  /\ stage' = [stage EXCEPT ![c][d] = Failed(c, d)]
  /\ shut' = [shut EXCEPT ![c] = @ \cup {d}]
-----------------------------------------------------------------------------
(* One turn of connect's loop: an address that was once w's is dialled; p  *)
(* is the device that answers there now.                                   *)
dial(d, w, p, c) ==
  /\ c \notin Dialled
  /\ d \notin {w, p}
  /\ Cardinality(Dialling(d, w)) < MaxDials
  /\ link' = [link EXCEPT ![c] = [dialer |-> d, listener |-> p, wanted |-> w]]
  /\ calm' = (calm /\ w = p)
  /\ UNCHANGED <<shut, peers>>

Opened(d, p) == [e \in Devices |-> IF e \in {d, p} THEN "opening" ELSE "none"]

(* connect(w): reuse a live connection (no change), or dial.               *)
connect(d, w, p, c) ==
  /\ w \in Devices => get(d, w) = None
  /\ dial(d, w, p, c)
  /\ stage' = [stage EXCEPT ![c] = Opened(d, p)]

(* Dial f has failed and the same call tries its next address, without     *)
(* asking again whether w is connected by now.                             *)
connectNext(d, f, p, c) ==
  /\ f \in Dialled
  /\ d = link[f].dialer /\ stage[f][d] = "failed"
  /\ dial(d, link[f].wanted, p, c)
  /\ stage' = [stage EXCEPT ![f][d] = "gone", ![c] = Opened(d, p)]

(* The device that answered is not the one connect asked for: the          *)
(* connection is dropped, which closes it.                                 *)
AnsweredAsAnother(d, c) ==
  /\ c \in Dialled
  /\ d = link[c].dialer /\ link[c].wanted # link[c].listener
  /\ stage[c][d] = "opening"
  /\ Fails(c, d)
  /\ UNCHANGED <<link, peers, calm>>

(* Mutant: the loser of a duplicate is left open. *)
adoptKeepsBoth(d, c) ==
  /\ c \in Dialled
  /\ d \in Ends(c)
  /\ stage[c][d] = "opening"
  /\ stage' = [stage EXCEPT ![c][d] = "held"]
  /\ peers' = [peers EXCEPT ![d][Other(c, d)] = c]
  /\ UNCHANGED <<link, shut, calm>>

(* Mutant: first come, first kept. *)
adoptKeepsFirst(d, c) ==
  /\ c \in Dialled
  /\ d \in Ends(c)
  /\ d = link[c].dialer => link[c].wanted = link[c].listener
  /\ stage[c][d] = "opening"
  /\ LET p == Other(c, d) IN
     \/ /\ get(d, p) # None
        /\ Abandon(c, d)
        /\ UNCHANGED peers
     \/ /\ get(d, p) = None
        /\ stage' = [stage EXCEPT ![c][d] = "held"]
        /\ peers' = [peers EXCEPT ![d][p] = c]
        /\ UNCHANGED shut
  /\ UNCHANGED <<link, calm>>

(* adopt, run by connect and by accept when the handshake is through: of   *)
(* two live connections the one with the lower dialer stays, the one that  *)
(* was there first on a tie.  The new one may have been closed since; the  *)
(* code does not look.                                                     *)
adopt(d, c) ==
  /\ c \in Dialled
  /\ d \in Ends(c)
  /\ d = link[c].dialer => link[c].wanted = link[c].listener
  /\ stage[c][d] = "opening"
  /\ LET p == Other(c, d)
         existing == get(d, p) IN
     \/ /\ existing # None
        /\ dialer_of(existing) <= dialer_of(c)
        /\ Abandon(c, d)
        /\ UNCHANGED peers
     \/ /\ existing # None => dialer_of(existing) > dialer_of(c)
        /\ stage' = [stage EXCEPT ![c][d] = "held"]
        /\ shut' = [e \in Conns |-> IF e = existing THEN shut[e] \cup {d} ELSE shut[e]]
        /\ peers' = [peers EXCEPT ![d][p] = c]
  /\ UNCHANGED <<link, calm>>

(* Mutant: the entry goes, the connection stays open. *)
forgetKeepsOpen(d, p) ==
  /\ peers[d][p] # None
  /\ peers' = [peers EXCEPT ![d][p] = None]
  /\ calm' = FALSE
  /\ UNCHANGED <<link, stage, shut>>

forget(d, p) ==
  /\ peers[d][p] # None
  /\ shut' = [shut EXCEPT ![peers[d][p]] = @ \cup {d}]
  /\ peers' = [peers EXCEPT ![d][p] = None]
  /\ calm' = FALSE
  /\ UNCHANGED <<link, stage>>
-----------------------------------------------------------------------------
(* What QUIC does (external: quinn, as transport.rs configures it). *)

(* A close made at the other end reaches end d. *)
CloseArrives(d, c) ==
  /\ c \in Dialled
  /\ d \in Ends(c) \ shut[c]
  /\ Other(c, d) \in shut[c]
  /\ shut' = [shut EXCEPT ![c] = @ \cup {d}]
  /\ UNCHANGED <<link, stage, peers, calm>>

(* connect or accept fails at d because the connection closed before the   *)
(* other end's greeting was read.                                          *)
HandshakeFails(d, c) ==
  /\ c \in Dialled
  /\ d \in Ends(c) \cap shut[c]
  /\ stage[c][d] = "opening"
  /\ Fails(c, d)
  /\ UNCHANGED <<link, peers, calm>>

(* An end gives up by itself: connect's five seconds are over, or nothing  *)
(* was heard from the other end for the idle timeout.                      *)
TimesOut(d, c) ==
  /\ c \in Dialled
  /\ d \in Ends(c) \ shut[c]
  /\ stage[c][d] \in {"opening", "held"}
  /\ stage' = [stage EXCEPT ![c][d] = IF @ = "opening" THEN Failed(c, d) ELSE @]
  /\ shut' = [shut EXCEPT ![c] = @ \cup {d}]
  /\ calm' = FALSE
  /\ UNCHANGED <<link, peers>>
-----------------------------------------------------------------------------
Next ==
  \/ \E d, p \in Devices, w \in Devices \cup Absent, c \in Conns : connect(d, w, p, c)
  \/ \E d, p \in Devices, f, c \in Conns : connectNext(d, f, p, c)
  \/ \E d \in Devices, c \in Conns :
       \/ AnsweredAsAnother(d, c) \/ adopt(d, c)
       \/ CloseArrives(d, c) \/ HandshakeFails(d, c) \/ TimesOut(d, c)
  \/ \E d, p \in Devices : forget(d, p)

Spec == Init /\ [][Next]_vars
-----------------------------------------------------------------------------
RegistrySound ==
  \A d, p \in Devices : peers[d][p] # None =>
    /\ peers[d][p] \in Dialled
    /\ Ends(peers[d][p]) = {d, p}
    /\ stage[peers[d][p]][d] = "held"

(* Every variable keeps its shape, and what adopt and forget take for      *)
(* granted holds: a registered connection was dialled, joins that device   *)
(* and that peer, and its handshake is over at this end.                   *)
TypeOK ==
  /\ link \in [Conns -> Link \cup {None}]
  /\ stage \in [Conns -> [Devices -> {"none", "opening", "held", "failed", "gone"}]]
  /\ shut \in [Conns -> SUBSET Devices]
  /\ peers \in [Devices -> [Devices -> Conns \cup {None}]]
  /\ calm \in BOOLEAN
  /\ RegistrySound

(* One connection per peer: whatever a device adopted and has not closed   *)
(* is the connection its registry names.  No duplicate stays open that     *)
(* nobody can reach, whatever was dialled, lost or forgotten meanwhile.    *)
OneConnectionPerPeer ==
  \A c \in Dialled : \A d \in Ends(c) :
    stage[c][d] = "held" /\ is_live(d, c) => peers[d][Other(c, d)] = c

(* Nothing between d and p is in flight: no handshake, no close. *)
Between(d, p) == {c \in Dialled : Ends(c) = {d, p}}
Quiet(d, p) ==
  \A c \in Between(d, p) :
    /\ \A e \in Ends(c) : stage[c][e] # "opening"
    /\ shut[c] \in {{}, Ends(c)}

(* The registries settle without negotiation: once everything in flight    *)
(* between two devices has landed, get answers the same connection at      *)
(* both, or none at both.                                                  *)
RegistriesAgree ==
  \A d, p \in Devices : d # p /\ Quiet(d, p) => get(d, p) = get(p, d)

(* A simultaneous open converges: if nothing failed and the two devices    *)
(* dialled each other in any order, what is left at both ends is one live  *)
(* connection, dialled by the lower of those who dialled.                  *)
SimultaneousOpenSettles ==
  \A d, p \in Devices :
    calm /\ d # p /\ Quiet(d, p) /\ Between(d, p) # {} =>
      /\ get(d, p) # None
      /\ get(d, p) = get(p, d)
      /\ \A c \in Between(d, p) : dialer_of(get(d, p)) <= dialer_of(c)
=============================================================================
