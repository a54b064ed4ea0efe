------------------------------ MODULE TrustMap ------------------------------
(***************************************************************************)
(* Whom a daemon trusts and what its file names, without locks or records. *)
(* A daemon takes from the file whom it trusts when it starts, and does    *)
(* not start on a file that load cannot parse.  From then on insert adds   *)
(* one device after the other, to the map and, if the save succeeds, to    *)
(* the file; the file is not read again before the next start, so what     *)
(* other processes (pair, host, unpair, an editor) write to it meanwhile   *)
(* has no effect before that.  This is what the code does.  Its comment    *)
(* (trust.rs:3) promises that the file shows who can reach the model and   *)
(* that deleting a line revokes: true only once the daemon has restarted.  *)
(***************************************************************************)
CONSTANTS Peers,      \* the other devices
          Commands    \* other processes that write the file

VARIABLES daemon,     \* "up" or "down"
          trusted,    \* the devices TrustedPeers accepts
          disk,       \* the file is "readable" (or absent), or "torn"
          stored      \* the devices a readable file names

storeVars == <<disk, stored>>
mapVars == <<daemon, trusted, storeVars>>

MapInit ==
  /\ daemon = "down" /\ trusted = {}
  /\ disk = "readable" /\ stored = {}

(* What a save of the daemon leaves: its map, or a file cut short.         *)
Saved == disk' = "readable" /\ stored' = trusted'
Torn == disk' = "torn" /\ stored' = {}

Starts ==
  /\ daemon = "down" /\ disk = "readable"
  /\ daemon' = "up"
  /\ trusted' = stored
  /\ UNCHANGED storeVars

(* insert; the file is not even opened where the save fails at once.       *)
Trusts(p) ==
  /\ daemon = "up"
  /\ trusted' = trusted \cup {p}
  /\ Saved \/ Torn \/ UNCHANGED storeVars
  /\ UNCHANGED daemon

(* The save of an insert ends later than the map has changed.              *)
Saves ==
  /\ daemon = "up"
  /\ Saved \/ Torn
  /\ UNCHANGED <<daemon, trusted>>

OthersWrite ==
  /\ Commands # {}
  /\ Torn \/ (disk' = "readable" /\ stored' \in SUBSET Peers)
  /\ UNCHANGED <<daemon, trusted>>

Stops ==
  /\ daemon = "up"
  /\ daemon' = "down"
  /\ trusted' = {}
  /\ UNCHANGED storeVars

MapNext == Starts \/ (\E p \in Peers : Trusts(p)) \/ Saves \/ OthersWrite \/ Stops

MapSpec == MapInit /\ [][MapNext]_mapVars
=============================================================================
