------------------------------ MODULE Pairing ------------------------------
(***************************************************************************)
(* How a worker comes to be trusted by a master and connects to it: the    *)
(* search loop of latticed/src/startup/worker.rs, the pairing loop of      *)
(* startup/master.rs, the exchange both run (pairing_session.rs around     *)
(* lattice-net/src/pairing.rs) and the trust stores it fills.              *)
(*                                                                         *)
(* The master serves one pairing connection at a time and shows a new code *)
(* after each.  SPAKE2 and the MACs are abstracted to what they decide: an *)
(* exchange is confirmed exactly when the worker's code is the one the     *)
(* master showed when the exchange began.  Each side's progress in an      *)
(* exchange is                                                             *)
(*   0 started, 1 confirmation sent, 2 peer verified, stored and "saved"   *)
(*   sent, 3 the peer's "saved" received: exchange returns Ok.             *)
(* A message that was sent may still be read after its sender has left,    *)
(* and is delivered if exchange returned Ok: it waits for send.stopped,    *)
(* the acknowledgement of its own "saved".                                 *)
(*                                                                         *)
(* A trust file is truncated and written in place, so a save that fails or *)
(* is cut short may leave one that does not parse: it is torn.  A process  *)
(* loads its file when it starts and does not start on a torn one; one     *)
(* that runs keeps its map, and its next save writes all of it.  Only its  *)
(* user can remove a torn file, and every pairing in it.                   *)
(***************************************************************************)
EXTENDS Naturals

CONSTANTS Workers,
          Nobody,      \* the master is not in an exchange
          WithCode,    \* workers are started with --code
          MaxFaults    \* bound on lost connections, stops, crashes and failed saves

ASSUME PairingAssumption ==
  /\ Nobody \notin Workers
  /\ WithCode \in BOOLEAN
  /\ MaxFaults \in Nat

VARIABLES
  phase,      \* phase[w]: where worker w's process is
  supplied,   \* supplied[w]: its --code has not been used yet
  current,    \* current[w]: the code w was given is the one on the screen
  agreed,     \* agreed[w]: both sides of w's latest exchange used one code
  saved,      \* saved[w]: worker-master.json names the master
  known,      \* known[w]: w's target carries the master's device id
  wtrust,     \* wtrust[w]: the store of w's process holds the master
  wdisk,      \* wdisk[w]: w's trust file names the master, does not, or is torn
  wn,         \* wn[w]: w's progress in its latest exchange
  mn,         \* mn[w]: the master's progress in that exchange
  busy,       \* the worker the master is in an exchange with, or Nobody
  master,     \* the master's process is "up" or "down"
  mtrust,     \* the workers in its store
  mdisk,      \* the workers in the master's trust file
  mtorn,      \* that file is torn (and then mdisk is empty)
  lost,       \* for the properties: workers one of whose files (their own or the
              \* master's) was torn and removed since their latest exchange began
  faults      \* faults so far

targetVars == <<saved, known>>
wstoreVars == <<wtrust, wdisk>>
mstoreVars == <<mtrust, mdisk, mtorn>>
workerVars == <<phase, supplied, current, agreed, targetVars, wstoreVars, wn>>
masterVars == <<mn, busy, master, mstoreVars>>
vars == <<workerVars, masterVars, lost, faults>>

Phases == {"off", "search", "dial", "exchange", "connected"}

Init ==
  /\ phase = [w \in Workers |-> "off"]
  /\ supplied = [w \in Workers |-> FALSE]
  /\ current = [w \in Workers |-> FALSE]
  /\ agreed = [w \in Workers |-> FALSE]
  /\ saved = [w \in Workers |-> FALSE]
  /\ known = [w \in Workers |-> FALSE]
  /\ wtrust = [w \in Workers |-> FALSE]
  /\ wdisk = [w \in Workers |-> "none"]
  /\ wn = [w \in Workers |-> 0]
  /\ mn = [w \in Workers |-> 0]
  /\ busy = Nobody
  /\ master = "up"
  /\ mtrust = {}
  /\ mdisk = {} /\ mtorn = FALSE
  /\ lost = {}
  /\ faults = 0
-----------------------------------------------------------------------------
Goto(w, p) == phase' = [phase EXCEPT ![w] = p]
Fault == faults < MaxFaults /\ faults' = faults + 1

(* The process ends, and its map with it.                                  *)
Ends(w) == Goto(w, "off") /\ wtrust' = [wtrust EXCEPT ![w] = FALSE]

(* The user runs latticed worker, with the code on the master's screen.    *)
(* find_target learns the master's id from mDNS; with --master <IPv4> only *)
(* from an earlier connection.                                             *)
Start(w) ==
  /\ phase[w] = "off" /\ wdisk[w] # "torn"
  /\ Goto(w, "search")
  /\ wtrust' = [wtrust EXCEPT ![w] = wdisk[w] = "paired"]
  /\ \E id \in {TRUE, saved[w]} : known' = [known EXCEPT ![w] = id]
  /\ supplied' = [supplied EXCEPT ![w] = WithCode]
  /\ current' = [current EXCEPT ![w] = WithCode /\ master = "up"]
  /\ UNCHANGED <<agreed, saved, wdisk, wn, masterVars, lost, faults>>

(* It says that the trust file cannot be read, and the user removes it.    *)
WorkerRepairs(w) ==
  /\ phase[w] = "off" /\ wdisk[w] = "torn"
  /\ wdisk' = [wdisk EXCEPT ![w] = "none"]
  /\ lost' = lost \cup {w}
  /\ UNCHANGED <<phase, supplied, current, agreed, targetVars, wtrust, wn, masterVars, faults>>

(* Mutual TLS: each end admits the devices of its own store. *)
Admitted(w) == wtrust[w] /\ w \in mtrust

Connects(w) ==
  /\ phase[w] = "search" /\ ~ supplied[w]
  /\ Admitted(w)
  /\ Goto(w, "connected")
  /\ saved' = [saved EXCEPT ![w] = TRUE]
  /\ known' = [known EXCEPT ![w] = TRUE]
  /\ UNCHANGED <<agreed, supplied, current, wstoreVars, wn, masterVars, lost, faults>>

(* The master of this target is in the worker's store.  If it does not     *)
(* admit the worker all the same, the loop only tries again: "Retrying;    *)
(* existing pairing is preserved".                                         *)
trusted(w) == known[w] /\ wtrust[w]

(* Mutant: the supplied code is cloned, not taken. *)
PairsReusesCode(w) ==
  /\ phase[w] = "search"
  /\ supplied[w] \/ (~ Admitted(w) /\ ~ trusted(w))
  /\ Goto(w, "dial")
  /\ current' = [current EXCEPT ![w] = IF supplied[w] THEN @ ELSE master = "up"]
  /\ UNCHANGED <<supplied, agreed, targetVars, wstoreVars, wn, masterVars, lost, faults>>

(* The user has seen "Retrying" for long enough and stops the worker.      *)
UserStops(w) ==
  /\ phase[w] = "search" /\ ~ supplied[w]
  /\ trusted(w) /\ ~ Admitted(w)
  /\ Ends(w)
  /\ UNCHANGED <<supplied, current, agreed, targetVars, wdisk, wn, masterVars, lost, faults>>

(* pair: the supplied code, or the one the user reads and types now. *)
Pairs(w) ==
  /\ phase[w] = "search"
  /\ supplied[w] \/ (~ Admitted(w) /\ ~ trusted(w))
  /\ Goto(w, "dial")
  /\ current' = [current EXCEPT ![w] = IF supplied[w] THEN @ ELSE master = "up"]
  /\ supplied' = [supplied EXCEPT ![w] = FALSE]
  /\ UNCHANGED <<agreed, targetVars, wstoreVars, wn, masterVars, lost, faults>>

(* The master accepts the pairing connection and both start exchange, ... *)
Accept(w) ==
  /\ phase[w] = "dial" /\ master = "up" /\ busy = Nobody
  /\ Goto(w, "exchange")
  /\ busy' = w
  /\ wn' = [wn EXCEPT ![w] = 0]
  /\ mn' = [mn EXCEPT ![w] = 0]
  /\ agreed' = [agreed EXCEPT ![w] = current[w]]
  /\ lost' = lost \ {w}
  /\ UNCHANGED <<supplied, current, targetVars, wstoreVars, master, mstoreVars, faults>>

(* ... or is not there, or in another exchange for longer than connect     *)
(* waits.                                                                  *)
DialTimeout(w) ==
  /\ phase[w] = "dial" /\ (busy # Nobody \/ master = "down")
  /\ Ends(w)
  /\ UNCHANGED <<supplied, current, agreed, targetVars, wdisk, wn, masterVars, lost, faults>>
-----------------------------------------------------------------------------
(* The worker's half of exchange. *)

InExchange(w) == phase[w] = "exchange"

WorkerConfirms(w) ==
  /\ InExchange(w) /\ wn[w] = 0
  /\ wn' = [wn EXCEPT ![w] = 1]
  /\ UNCHANGED <<phase, supplied, current, agreed, targetVars, wstoreVars, masterVars, lost, faults>>

WorkerInserts(w) == InExchange(w) /\ wn[w] = 1 /\ mn[w] >= 1 /\ agreed[w]

WorkerSaves(w) ==
  /\ WorkerInserts(w)
  /\ wtrust' = [wtrust EXCEPT ![w] = TRUE]
  /\ wdisk' = [wdisk EXCEPT ![w] = "paired"]
  /\ wn' = [wn EXCEPT ![w] = 2]
  /\ UNCHANGED <<phase, supplied, current, agreed, targetVars, masterVars, lost, faults>>

(* The save fails, which ends the process, or the process is killed in it: *)
(* the file was not opened yet or is torn.                                 *)
WorkerSaveFails(w) ==
  /\ WorkerInserts(w)
  /\ Fault
  /\ Ends(w)
  /\ \E file \in {wdisk[w], "torn"} : wdisk' = [wdisk EXCEPT ![w] = file]
  /\ UNCHANGED <<supplied, current, agreed, targetVars, wn, masterVars, lost>>

(* exchange returned Ok: the loop goes on with the trusted connection. *)
WorkerDone(w) ==
  /\ InExchange(w) /\ wn[w] = 2 /\ mn[w] >= 2
  /\ wn' = [wn EXCEPT ![w] = 3]
  /\ Goto(w, "search")
  /\ known' = [known EXCEPT ![w] = TRUE]
  /\ UNCHANGED <<agreed, supplied, current, saved, wstoreVars, masterVars, lost, faults>>

(* A wrong code, or the master has left the exchange: the worker stops     *)
(* with "check its current code and rerun latticed worker".                *)
WorkerGivesUp(w) ==
  /\ InExchange(w)
  /\ \/ wn[w] = 1 /\ mn[w] >= 1 /\ ~ agreed[w]
     \/ busy # w /\ mn[w] < 3
  /\ Ends(w)
  /\ UNCHANGED <<supplied, current, agreed, targetVars, wdisk, wn, masterVars, lost, faults>>

(* The process is stopped, its connection is lost, or its thirty seconds   *)
(* are over: an exchange ends the process, a connection only the wait.     *)
WorkerFails(w) ==
  /\ Fault
  /\ \/ phase[w] # "off" /\ Ends(w)
     \/ phase[w] = "connected" /\ Goto(w, "search") /\ UNCHANGED wtrust
  /\ UNCHANGED <<supplied, current, agreed, targetVars, wdisk, wn, masterVars, lost>>

(* The master introduces another worker, and w saves its whole store ...   *)
Introduced(w) ==
  /\ phase[w] = "connected" /\ mtrust \ {w} # {}
  /\ wdisk' = [wdisk EXCEPT ![w] = "paired"]
  /\ UNCHANGED <<phase, supplied, current, agreed, targetVars, wtrust, wn, masterVars, lost, faults>>

(* ... but the save is cut short: it is refused, or w is killed in it.     *)
IntroductionFails(w) ==
  /\ phase[w] = "connected" /\ mtrust \ {w} # {}
  /\ Fault
  /\ Ends(w) \/ UNCHANGED <<phase, wtrust>>
  /\ wdisk' = [wdisk EXCEPT ![w] = "torn"]
  /\ UNCHANGED <<supplied, current, agreed, targetVars, wn, masterVars, lost>>
-----------------------------------------------------------------------------
(* The master's half. *)

(* The loop comes round: whoever holds a code now holds an old one. *)
NewCode ==
  /\ busy' = Nobody
  /\ current' = [w \in Workers |-> FALSE]

MasterConfirms(w) ==
  /\ busy = w /\ mn[w] = 0
  /\ mn' = [mn EXCEPT ![w] = 1]
  /\ UNCHANGED <<workerVars, busy, master, mstoreVars, lost, faults>>

(* Mutant: "saved" is sent before the store is written. *)
MasterSavesLate(w) ==
  /\ busy = w /\ mn[w] = 1 /\ wn[w] >= 1
  /\ agreed[w]
  /\ mn' = [mn EXCEPT ![w] = 2]
  /\ UNCHANGED <<workerVars, busy, master, mstoreVars, lost, faults>>

(* Both have confirmed the code: insert may be anywhere in its save.       *)
MasterInserts(w) == busy = w /\ mn[w] = 1 /\ wn[w] >= 1 /\ agreed[w]

(* Mutant: the confirmation is not checked. *)
MasterSavesAnyone(w) ==
  /\ busy = w /\ mn[w] = 1 /\ wn[w] >= 1
  /\ mtrust' = mtrust \cup {w}
  /\ mdisk' = mtrust' /\ mtorn' = FALSE
  /\ mn' = [mn EXCEPT ![w] = 2]
  /\ UNCHANGED <<workerVars, busy, master, lost, faults>>

(* insert saves the whole map. *)
MasterSaves(w) ==
  /\ MasterInserts(w)
  /\ mtrust' = mtrust \cup {w}
  /\ mdisk' = mtrust' /\ mtorn' = FALSE
  /\ mn' = [mn EXCEPT ![w] = 2]
  /\ UNCHANGED <<workerVars, busy, master, lost, faults>>

(* What is left of the file by a save that did not finish.                 *)
MasterFileTorn == mtorn' = TRUE /\ mdisk' = {}

(* insert updates the map, then fails to open the file or to write it all. *)
MasterSaveFails(w) ==
  /\ MasterInserts(w)
  /\ Fault
  /\ mtrust' = mtrust \cup {w}
  /\ MasterFileTorn \/ UNCHANGED <<mdisk, mtorn>>
  /\ NewCode
  /\ UNCHANGED <<phase, supplied, agreed, targetVars, wstoreVars, wn, mn, master, lost>>

MasterDone(w) ==
  /\ busy = w /\ mn[w] = 2 /\ wn[w] >= 2
  /\ mn' = [mn EXCEPT ![w] = 3]
  /\ NewCode
  /\ UNCHANGED <<phase, supplied, agreed, targetVars, wstoreVars, wn, master, mstoreVars, lost, faults>>

(* A wrong code, or the worker has left. *)
MasterGivesUp(w) ==
  /\ busy = w
  /\ \/ mn[w] = 1 /\ wn[w] >= 1 /\ ~ agreed[w]
     \/ ~ InExchange(w) /\ wn[w] < 3
  /\ NewCode
  /\ UNCHANGED <<phase, supplied, agreed, targetVars, wstoreVars, wn, mn, master, mstoreVars, lost, faults>>

(* Thirty seconds are over, or the connection is lost. *)
MasterFails(w) ==
  /\ busy = w
  /\ Fault
  /\ NewCode
  /\ UNCHANGED <<phase, supplied, agreed, targetVars, wstoreVars, wn, mn, master, mstoreVars, lost>>

(* The master is stopped or killed, perhaps in the middle of a save. *)
MasterStops ==
  /\ master = "up"
  /\ Fault
  /\ master' = "down" /\ mtrust' = {}
  /\ \/ UNCHANGED <<mdisk, mtorn>>
     \/ MasterFileTorn /\ \E w \in Workers : MasterInserts(w)
  /\ NewCode
  /\ phase' = [w \in Workers |-> IF phase[w] = "connected" THEN "search" ELSE phase[w]]
  /\ UNCHANGED <<supplied, agreed, targetVars, wstoreVars, wn, mn, lost>>

(* It is run again: it knows what its file says. *)
MasterStarts ==
  /\ master = "down" /\ ~ mtorn
  /\ master' = "up" /\ mtrust' = mdisk
  /\ UNCHANGED <<workerVars, mn, busy, mdisk, mtorn, lost, faults>>

(* It does not run on a torn file, and its user removes that. *)
MasterRepairs ==
  /\ master = "down" /\ mtorn
  /\ mtorn' = FALSE
  /\ lost' = Workers
  /\ UNCHANGED <<workerVars, mn, busy, master, mtrust, mdisk, faults>>
-----------------------------------------------------------------------------
WorkerLoop(w) == Connects(w) \/ Pairs(w) \/ Accept(w) \/ DialTimeout(w)
WorkerHalf(w) == WorkerConfirms(w) \/ WorkerSaves(w) \/ WorkerDone(w) \/ WorkerGivesUp(w)
MasterHalf(w) == MasterConfirms(w) \/ MasterSaves(w) \/ MasterDone(w) \/ MasterGivesUp(w)

WorkerUser(w) == Start(w) \/ UserStops(w) \/ WorkerRepairs(w)
MasterUser == MasterStarts \/ MasterRepairs

Faults(w) ==
  \/ WorkerFails(w) \/ WorkerSaveFails(w) \/ IntroductionFails(w)
  \/ MasterFails(w) \/ MasterSaveFails(w)

Next ==
  \/ \E w \in Workers :
       \/ WorkerUser(w) \/ WorkerLoop(w) \/ WorkerHalf(w) \/ Introduced(w)
       \/ MasterHalf(w) \/ Faults(w)
  \/ MasterUser \/ MasterStops

Spec == Init /\ [][Next]_vars

(* Both programs keep running their loops, and while no master answers a   *)
(* worker may go on looking for one.  Nobody has to start a process.       *)
FairSpec ==
  /\ Spec
  /\ \A w \in Workers :
       /\ WF_vars(Connects(w) \/ (master = "up" /\ Pairs(w)) \/ Accept(w) \/ DialTimeout(w))
       /\ WF_vars(WorkerHalf(w)) /\ WF_vars(MasterHalf(w))
-----------------------------------------------------------------------------
(* Every variable keeps its shape, and the running master admits whoever   *)
(* is in its trust file.                                                   *)
TypeOK ==
  /\ phase \in [Workers -> Phases]
  /\ supplied \in [Workers -> BOOLEAN]
  /\ current \in [Workers -> BOOLEAN]
  /\ agreed \in [Workers -> BOOLEAN]
  /\ saved \in [Workers -> BOOLEAN]
  /\ known \in [Workers -> BOOLEAN]
  /\ wtrust \in [Workers -> BOOLEAN]
  /\ wdisk \in [Workers -> {"none", "paired", "torn"}]
  /\ wn \in [Workers -> 0..3]
  /\ mn \in [Workers -> 0..3]
  /\ busy \in Workers \cup {Nobody}
  /\ master \in {"up", "down"}
  /\ mtrust \subseteq Workers /\ mdisk \subseteq Workers
  /\ master = "up" => mdisk \subseteq mtrust
  /\ mtorn \in BOOLEAN
  /\ lost \subseteq Workers
  /\ faults \in 0..MaxFaults

(* If exchange returns Ok on either side, both have saved - which is what  *)
(* "saved" is sent for.  No lost message, timeout or restart leaves the    *)
(* other side behind, and neither does a later save that fails: a process  *)
(* that runs keeps the pairing, and a file that parses names it.  It is    *)
(* only lost with a torn file that its user had to remove.                 *)
OkMeansBothSaved ==
  \A w \in Workers \ lost : wn[w] = 3 \/ mn[w] = 3 =>
    /\ phase[w] # "off" => wtrust[w]
    /\ master = "up" => w \in mtrust
    /\ wdisk[w] # "torn" => wdisk[w] = "paired"
    /\ ~ mtorn => w \in mdisk

(* Pairing is all or nothing unless something fails: as long as no         *)
(* connection was lost, nothing stopped or crashed and every file was      *)
(* written, a device that is not in an exchange has the master in its file *)
(* exactly when the master has it in its own - through wrong codes, codes  *)
(* that changed meanwhile and dials that timed out.                        *)
NoFaultNoSplit ==
  faults = 0 =>
    \A w \in Workers : ~ InExchange(w) /\ busy # w => (wdisk[w] = "paired" <=> w \in mdisk)

(* The user reads a code off the screen while the master is waiting with   *)
(* it, not one that an exchange is about to replace.                       *)
ReadsFreshCode(w) == Start(w) \/ Pairs(w) => master = "up" /\ busy = Nobody

(* A worker that joins while no other is joining does get connected, once  *)
(* nothing fails any more, if the users do their part: they run what has   *)
(* stopped again, a worker with a fresh code as its message says, remove a *)
(* trust file that keeps it from starting, and stop a worker that goes on  *)
(* retrying although no master admits it.                                  *)
WorkerJoins ==
  \A w \in Workers :
    /\ <>[](\A x \in Workers \ {w} : phase[x] \in {"off", "connected"})
    /\ WF_vars(WorkerUser(w)) /\ WF_vars(MasterUser)
    /\ <>[][ReadsFreshCode(w)]_vars
    => <>(phase[w] = "connected")
=============================================================================
