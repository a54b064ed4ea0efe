----------------------------- MODULE TrustStore -----------------------------
(***************************************************************************)
(* One device's list of paired devices: the file, the copy the running     *)
(* daemon loaded when it started and keeps, and the copies the one-shot    *)
(* commands (pair, host, unpair) load, change and save in processes of     *)
(* their own.                                                              *)
(*                                                                         *)
(* Nothing coordinates the processes.  A save truncates the file and then  *)
(* writes it, so another process can look in between, write in between,    *)
(* or see what a crash in between left.  Inside the daemon a save happens  *)
(* under the store's write lock.                                           *)
(*                                                                         *)
(* A record is how the device came to be trusted; keys, names and dates    *)
(* are left out.  Files that serde cannot parse are all alike.             *)
(***************************************************************************)
EXTENDS Naturals

CONSTANTS Peers,      \* the other devices
          Commands,   \* processes of pair, host and unpair
          Handlers,   \* tasks of the daemon that pair or are told of devices
          NoHandler,  \* nobody holds the write lock
          NoPeer,     \* no device
          MaxFaults   \* bound on kills and failed saves

ASSUME TrustAssumption == 
  NoHandler \notin Handlers /\ NoPeer \notin Peers /\ MaxFaults \in Nat

VARIABLES
  fstate,      \* the file parses ("whole"), is truncated ("empty"), or is "garbage"
  file,        \* the records it holds when whole
  daemon,      \* "up" or "down"
  map,         \* TrustStore.peers of the daemon
  saver,       \* the handler saving under the write lock
  hpc,         \* stage of each handler
  hpeer,       \* the device it is about to record
  hrec,        \* the record it is about to insert
  cpc,         \* stage of each command
  copy,        \* TrustStore.peers of the command
  target,      \* the device it was told to pair or unpair
  faults,      \* kills and failed saves so far
  (* What happened, for the properties only. *)
  outside,     \* "yes" once somebody else has written, or a save failed, since the daemon
               \* started or last saved its whole map
  interrupted, \* "yes" if the last truncation was never followed by its own write, alone
  revoked,     \* devices whose removal nobody held a copy against
  kept,        \* devices whose record nobody held a copy without
  hknown       \* the devices each handler's request found known

fileVars == <<fstate, file>>
handlerVars == <<saver, hpc, hpeer, hrec, hknown>>
commandVars == <<cpc, copy, target>>
historyVars == <<outside, interrupted, revoked, kept>>
vars == <<fileVars, daemon, map, handlerVars, commandVars, faults, historyVars>>

Records == {"none", "direct", "introduced"}
Lists == [Peers -> Records]
NoPeers == [p \in Peers |-> "none"]

Init ==
  /\ fstate = "whole" /\ file = NoPeers   \* an absent file loads as an empty one
  /\ daemon = "down" /\ map = NoPeers
  /\ saver = NoHandler
  /\ hpc = [h \in Handlers |-> "idle"]
  /\ hpeer = [h \in Handlers |-> NoPeer]
  /\ hrec = [h \in Handlers |-> "direct"]
  /\ hknown = [h \in Handlers |-> {}]
  /\ cpc = [c \in Commands |-> "idle"]
  /\ copy = [c \in Commands |-> NoPeers]
  /\ target = [c \in Commands |-> NoPeer]
  /\ faults = 0
  /\ outside = "no" /\ interrupted = "no"
  /\ revoked = {} /\ kept = {}

-----------------------------------------------------------------------------
(* The file: fs::write opens with truncation and then writes from the      *)
(* start.                                                                  *)

Saving == {c \in Commands : cpc[c] = "saving"}
Writing == (saver # NoHandler) \/ (Saving # {})

(* Mutant: the file is overwritten without truncation.                     *)
Overwrite ==
  /\ fstate' = "garbage" /\ file' = NoPeers
  /\ interrupted' = IF Writing THEN "yes" ELSE "no"

Truncate ==
  /\ fstate' = "empty"
  /\ file' = NoPeers
  /\ interrupted' = IF Writing THEN "yes" ELSE "no"

(* Whoever else wrote since the truncation leaves a tail behind the end of *)
(* a shorter list.                                                         *)
Write(list) ==
  \/ fstate' = "whole" /\ file' = list
  \/ fstate # "empty" /\ fstate' = "garbage" /\ file' = NoPeers

knows(p) == map[p] # "none"

(* A handler's and a command's locals end with it.                         *)
HandlerDone(h) ==
  /\ hpc' = [hpc EXCEPT ![h] = "idle"]
  /\ hpeer' = [hpeer EXCEPT ![h] = NoPeer]
  /\ hrec' = [hrec EXCEPT ![h] = "direct"]
  /\ hknown' = [hknown EXCEPT ![h] = {}]
CommandDone(c) ==
  /\ cpc' = [cpc EXCEPT ![c] = "idle"]
  /\ copy' = [copy EXCEPT ![c] = NoPeers]
  /\ target' = [target EXCEPT ![c] = NoPeer]

-----------------------------------------------------------------------------
(* The daemon.                                                             *)

(* Mutant: a file that does not parse counts as no file.                   *)
StartAnyway ==
  /\ daemon = "down"
  /\ daemon' = "up"
  /\ map' = file
  /\ outside' = "no"
  /\ UNCHANGED <<fileVars, handlerVars, commandVars, faults, interrupted, revoked, kept>>

(* Mutant: ... or everybody is trusted then.                               *)
StartOpen ==
  /\ daemon = "down"
  /\ daemon' = "up"
  /\ map' = IF fstate = "whole" THEN file ELSE [p \in Peers |-> "direct"]
  /\ outside' = "no"
  /\ UNCHANGED <<fileVars, handlerVars, commandVars, faults, interrupted, revoked, kept>>

(* TrustStore::load; a file that does not parse keeps the daemon down.     *)
Start ==
  /\ daemon = "down" /\ fstate = "whole"
  /\ daemon' = "up"
  /\ map' = file
  /\ outside' = "no"
  /\ UNCHANGED <<fileVars, handlerVars, commandVars, faults, interrupted, revoked, kept>>

(* It stops or is killed, wherever its handlers are.                       *)
Stop ==
  /\ daemon = "up" /\ faults < MaxFaults
  /\ daemon' = "down" /\ map' = NoPeers
  /\ saver' = NoHandler
  /\ hpc' = [h \in Handlers |-> "idle"]
  /\ hpeer' = [h \in Handlers |-> NoPeer]
  /\ hrec' = [h \in Handlers |-> "direct"]
  /\ hknown' = [h \in Handlers |-> {}]
  /\ interrupted' = IF saver # NoHandler THEN "yes" ELSE interrupted
  /\ faults' = faults + 1
  /\ UNCHANGED <<fileVars, commandVars, outside, revoked, kept>>

(* A pairing session reaches its save.                                     *)
Paired(h, p) ==
  /\ daemon = "up" /\ hpc[h] = "idle"
  /\ hpc' = [hpc EXCEPT ![h] = "insert"]
  /\ hpeer' = [hpeer EXCEPT ![h] = p]
  /\ hrec' = [hrec EXCEPT ![h] = "direct"]
  /\ UNCHANGED <<fileVars, daemon, map, saver, hknown, commandVars, faults, historyVars>>

(* A known device sends its roster.                                        *)
Provision(h) ==
  /\ daemon = "up" /\ hpc[h] = "idle" /\ saver = NoHandler
  /\ \E from \in Peers : knows(from)
  /\ hpc' = [hpc EXCEPT ![h] = "introducing"]
  /\ hknown' = [hknown EXCEPT ![h] = {p \in Peers : knows(p)}]
  /\ UNCHANGED <<fileVars, daemon, map, saver, hpeer, hrec, commandVars, faults, historyVars>>

(* Mutant: nobody asks whether the device is known.                        *)
Unasked(h, p) ==
  /\ hpc[h] = "introducing" /\ saver = NoHandler
  /\ hpc' = [hpc EXCEPT ![h] = "insert"]
  /\ hpeer' = [hpeer EXCEPT ![h] = p]
  /\ hrec' = [hrec EXCEPT ![h] = "introduced"]
  /\ UNCHANGED <<fileVars, daemon, map, saver, hknown, commandVars, faults, historyVars>>

(* The next device of the roster is unknown; the read lock is given back.  *)
Unknown(h, p) ==
  /\ hpc[h] = "introducing" /\ saver = NoHandler
  /\ ~knows(p)
  /\ hpc' = [hpc EXCEPT ![h] = "insert"]
  /\ hpeer' = [hpeer EXCEPT ![h] = p]
  /\ hrec' = [hrec EXCEPT ![h] = "introduced"]
  /\ UNCHANGED <<fileVars, daemon, map, saver, hknown, commandVars, faults, historyVars>>

(* The rest of the roster is known already.                                *)
Provisioned(h) ==
  /\ hpc[h] = "introducing"
  /\ HandlerDone(h)
  /\ UNCHANGED <<fileVars, daemon, map, saver, commandVars, faults, historyVars>>

(* Mutant: the lock is given back before the save.                         *)
InsertUnlocked(h) ==
  /\ hpc[h] = "insert" /\ saver = NoHandler
  /\ map' = [map EXCEPT ![hpeer[h]] = hrec[h]]
  /\ Truncate
  /\ hpc' = [hpc EXCEPT ![h] = "saving"]
  /\ revoked' = revoked \ {hpeer[h]}
  /\ UNCHANGED <<daemon, saver, hpeer, hrec, hknown, commandVars, faults, outside, kept>>

(* Mutant: the store is loaded again before the insert.                    *)
InsertReloads(h) ==
  /\ hpc[h] = "insert" /\ saver = NoHandler
  /\ map' = [file EXCEPT ![hpeer[h]] = hrec[h]]
  /\ Truncate
  /\ saver' = h
  /\ hpc' = [hpc EXCEPT ![h] = "saving"]
  /\ revoked' = revoked \ {hpeer[h]}
  /\ UNCHANGED <<daemon, hpeer, hrec, hknown, commandVars, faults, outside, kept>>

(* insert under the write lock: the map, then the file.                    *)
Insert(h) ==
  /\ hpc[h] = "insert" /\ saver = NoHandler
  /\ map' = [map EXCEPT ![hpeer[h]] = hrec[h]]
  /\ Truncate
  /\ saver' = h
  /\ hpc' = [hpc EXCEPT ![h] = "saving"]
  /\ revoked' = revoked \ {hpeer[h]}
  /\ UNCHANGED <<daemon, hpeer, hrec, hknown, commandVars, faults, outside, kept>>

(* A roster goes on with its next device, a pairing session is done.       *)
Leave(h) ==
  /\ saver' = NoHandler
  /\ IF hrec[h] = "direct" THEN HandlerDone(h)
     ELSE /\ hpc' = [hpc EXCEPT ![h] = "introducing"]
          /\ hpeer' = [hpeer EXCEPT ![h] = NoPeer]
          /\ hrec' = [hrec EXCEPT ![h] = "direct"]
          /\ UNCHANGED hknown

Active == {c \in Commands : cpc[c] # "idle"}

Save(h) ==
  /\ hpc[h] = "saving" /\ saver = h
  /\ Write(map)
  /\ Leave(h)
  /\ kept' = IF fstate' = "whole" /\ \A c \in Active : copy[c][hpeer[h]] # "none"
               THEN kept \cup {hpeer[h]} ELSE kept
  /\ outside' = IF fstate' = "whole" THEN "no" ELSE outside
  /\ UNCHANGED <<daemon, map, commandVars, faults, interrupted, revoked>>

(* The file cannot be opened, or writing to it fails: the map keeps what   *)
(* the file does not have, and the handler gives up.                       *)
InsertFails(h) ==
  /\ hpc[h] = "insert" /\ saver = NoHandler /\ faults < MaxFaults
  /\ map' = [map EXCEPT ![hpeer[h]] = hrec[h]]
  /\ HandlerDone(h)
  /\ outside' = "yes"
  /\ faults' = faults + 1
  /\ revoked' = revoked \ {hpeer[h]}
  /\ UNCHANGED <<fileVars, daemon, saver, commandVars, interrupted, kept>>

SaveFails(h) ==
  /\ hpc[h] = "saving" /\ saver = h /\ faults < MaxFaults
  /\ saver' = NoHandler
  /\ HandlerDone(h)
  /\ outside' = "yes" /\ interrupted' = "yes"
  /\ faults' = faults + 1
  /\ UNCHANGED <<fileVars, daemon, map, commandVars, revoked, kept>>

-----------------------------------------------------------------------------
(* The commands.                                                           *)

Loaded(c, p, list) ==
  /\ cpc[c] = "idle" /\ fstate = "whole"
  /\ cpc' = [cpc EXCEPT ![c] = "loaded"]
  /\ target' = [target EXCEPT ![c] = p]
  /\ copy' = [copy EXCEPT ![c] = list]

(* pair and host load the file after the exchange and insert at once.      *)
Pair(c, p) ==
  /\ Loaded(c, p, [file EXCEPT ![p] = "direct"])
  /\ revoked' = revoked \ {p}
  /\ UNCHANGED <<fileVars, daemon, map, handlerVars, faults, outside, interrupted, kept>>

(* Mutant: remove shortens the list it was given.                          *)
UnpairShortens(c, p) ==
  /\ file[p] # "none"
  /\ Loaded(c, p, [q \in Peers \ {p} |-> file[q]])
  /\ kept' = kept \ {p}
  /\ UNCHANGED <<fileVars, daemon, map, handlerVars, faults, outside, interrupted, revoked>>

(* remove; an unknown device is an error and nothing is saved.             *)
Unpair(c, p) ==
  /\ file[p] # "none"
  /\ Loaded(c, p, [file EXCEPT ![p] = "none"])
  /\ kept' = kept \ {p}
  /\ UNCHANGED <<fileVars, daemon, map, handlerVars, faults, outside, interrupted, revoked>>

OpenFile(c) ==
  /\ cpc[c] = "loaded"
  /\ Truncate
  /\ cpc' = [cpc EXCEPT ![c] = "saving"]
  /\ outside' = IF daemon = "up" THEN "yes" ELSE outside
  /\ UNCHANGED <<daemon, map, handlerVars, copy, target, faults, revoked, kept>>

(* Every other copy, in the daemon and in the other commands, has or lacks  *)
(* the device.                                                             *)
OthersHave(c, p) ==
  /\ daemon = "up" => knows(p)
  /\ \A d \in Active \ {c} : copy[d][p] # "none"
OthersLack(c, p) ==
  /\ daemon = "up" => ~knows(p)
  /\ \A d \in Active \ {c} : copy[d][p] = "none"

SaveFile(c) ==
  LET p == target[c] IN
  /\ cpc[c] = "saving"
  /\ Write(copy[c])
  /\ CommandDone(c)
  /\ outside' = IF daemon = "up" THEN "yes" ELSE outside
  /\ kept' = IF fstate' = "whole" /\ copy[c][p] # "none" /\ OthersHave(c, p)
               THEN kept \cup {p} ELSE kept
  /\ revoked' = IF copy[c][p] = "none" /\ OthersLack(c, p)
                  THEN revoked \cup {p} ELSE revoked
  /\ UNCHANGED <<daemon, map, handlerVars, faults, interrupted>>

(* The process dies.                                                       *)
Killed(c) ==
  /\ cpc[c] # "idle" /\ faults < MaxFaults
  /\ CommandDone(c)
  /\ interrupted' = IF cpc[c] = "saving" THEN "yes" ELSE interrupted
  /\ faults' = faults + 1
  /\ UNCHANGED <<fileVars, daemon, map, handlerVars, outside, revoked, kept>>

-----------------------------------------------------------------------------
Handler(h) ==
  \/ \E p \in Peers : Paired(h, p) \/ Unknown(h, p)
  \/ Provision(h) \/ Provisioned(h) \/ Insert(h) \/ InsertFails(h)
  \/ Save(h) \/ SaveFails(h)

Command(c) ==
  \/ \E p \in Peers : Pair(c, p) \/ Unpair(c, p)
  \/ OpenFile(c) \/ SaveFile(c) \/ Killed(c)

Running == Start \/ (\E h \in Handlers : Handler(h)) \/ (\E c \in Commands : Command(c))

Next == Running \/ Stop

Spec == Init /\ [][Next]_vars

-----------------------------------------------------------------------------
TypeOK ==
  /\ fstate \in {"whole", "empty", "garbage"} /\ file \in Lists
  /\ daemon \in {"up", "down"} /\ map \in Lists
  /\ saver \in Handlers \cup {NoHandler}
  /\ hpc \in [Handlers -> {"idle", "introducing", "insert", "saving"}]
  /\ hpeer \in [Handlers -> Peers \cup {NoPeer}]
  /\ hrec \in [Handlers -> Records]
  /\ hknown \in [Handlers -> SUBSET Peers]
  /\ cpc \in [Commands -> {"idle", "loaded", "saving"}]
  /\ copy \in [Commands -> Lists]
  /\ target \in [Commands -> Peers \cup {NoPeer}]
  /\ faults \in 0 .. MaxFaults
  /\ outside \in {"yes", "no"} /\ interrupted \in {"yes", "no"}
  /\ revoked \subseteq Peers /\ kept \subseteq Peers

(* A restart brings back the trust the daemon had: the file is its map     *)
(* whenever no save is under way (insert changes the map first and saves   *)
(* it under the same lock), unless somebody else has written or a save has *)
(* failed since - and the daemon's next save that succeeds mends that.     *)
RestartKeepsTrust ==
  daemon = "up" /\ saver = NoHandler /\ outside = "no"
    => fstate = "whole" /\ file = map

(* The file does not parse only while somebody saves, or after a save that *)
(* was cut short or was not alone: a later save that finishes alone        *)
(* repairs it.                                                             *)
TornOnlyByInterruption ==
  fstate # "whole" => Writing \/ interrupted = "yes"

(* unpair has the last word if nobody held a copy with the device when it  *)
(* was written: no later save or restart brings the device back, only      *)
(* pairing with it or being introduced to it again.  (With a copy held,    *)
(* the holder's next save restores it.)                                    *)
RevocationsLast ==
  \A p \in revoked :
    /\ file[p] = "none" /\ map[p] = "none"
    /\ \A c \in Active : copy[c][p] = "none"

(* A pairing that was written while nobody held a copy without the device  *)
(* is not lost to any later save, only to unpair.                          *)
PairingsLast ==
  \A p \in kept :
    /\ fstate = "whole" => file[p] # "none"
    /\ daemon = "up" => knows(p)
    /\ \A c \in Active : copy[c][p] # "none"

(* The daemon and the file are a TrustMap: what a daemon trusts is what a  *)
(* file that parses named when it started and what its own handlers have   *)
(* inserted since; it saves nothing but its map; and with no other process *)
(* about, nobody else changes the file.                                    *)
Trusted == {p \in Peers : knows(p)}
Stored == {p \in Peers : file[p] # "none"}
Disk == IF fstate = "whole" THEN "readable" ELSE "torn"
Map == INSTANCE TrustMap WITH daemon <- daemon, trusted <- Trusted, disk <- Disk, stored <- Stored
ImplementsTrustMap == Map!MapSpec

(* A device the user has paired with keeps that record when it is          *)
(* introduced: only a pairing that came while the introduction was being   *)
(* handled is overwritten (knows is asked under a lock that is given back  *)
(* before the insert).                                                     *)
IntroductionsDefer ==
  [][\A p \in Peers : map[p] = "direct" /\ map'[p] = "introduced" =>
       \E h \in Handlers : hpeer[h] = p /\ hpc[h] = "insert" /\ p \notin hknown[h]]_vars
=============================================================================
