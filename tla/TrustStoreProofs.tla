-------------------------- MODULE TrustStoreProofs --------------------------
(***************************************************************************)
(* What holds of the trust store for any devices, commands, handlers and   *)
(* any number of faults.  The argument: only who holds the write lock      *)
(* saves for the daemon, so inside the daemon a save is never disturbed;   *)
(* commands are followed through the copies they hold.                     *)
(***************************************************************************)
EXTENDS TrustStore, TLAPS

(* The locals of handlers and commands.                                    *)
LocalsSound ==
  /\ \A h \in Handlers :
       /\ hpc[h] = "saving" <=> saver = h
       /\ hpc[h] \in {"insert", "saving"} => hpeer[h] \in Peers /\ hrec[h] # "none"
       /\ hpc[h] = "saving" => knows(hpeer[h])
       /\ daemon = "down" => hpc[h] = "idle"
       /\ hknown[h] \subseteq Trusted
       /\ hpc[h] = "insert" /\ hrec[h] = "introduced" => hpeer[h] \notin hknown[h]
       /\ hpc[h] \in {"idle", "introducing"} => hrec[h] = "direct"
  /\ daemon = "down" => map = NoPeers /\ saver = NoHandler
  /\ \A c \in Commands : cpc[c] # "idle" => target[c] \in Peers

(* The file while somebody saves alone, and when nobody does.              *)
FileSound ==
  /\ fstate # "whole" => file = NoPeers
  /\ interrupted = "no" =>
       /\ saver # NoHandler => Saving = {}
       /\ \A c, d \in Saving : c = d
       /\ Writing => fstate = "empty"
       /\ ~Writing => fstate = "whole"
  /\ daemon = "up" /\ outside = "no" =>
       IF saver = NoHandler THEN fstate = "whole" /\ file = map ELSE fstate = "empty"

(* Types are preserved by every step.                                      *)
LEMMA TypePreserved ==
  ASSUME TypeOK, LocalsSound, [Next]_vars
  PROVE  TypeOK'
<1> USE TrustAssumption DEF TypeOK, LocalsSound, Lists, NoPeers, Records, fileVars, handlerVars, commandVars, historyVars
<1>1. CASE Start
  BY <1>1 DEF Start
<1>2. CASE Stop
  BY <1>2 DEF Stop
<1>3. ASSUME NEW h \in Handlers, NEW p \in Peers, Paired(h, p) PROVE TypeOK'
  BY <1>3 DEF Paired
<1>4. ASSUME NEW h \in Handlers, Provision(h) PROVE TypeOK'
  BY <1>4 DEF Provision
<1>5. ASSUME NEW h \in Handlers, NEW p \in Peers, Unknown(h, p) PROVE TypeOK'
  BY <1>5 DEF Unknown
<1>6. ASSUME NEW h \in Handlers, Provisioned(h) PROVE TypeOK'
  BY <1>6 DEF Provisioned, HandlerDone
<1>7. ASSUME NEW h \in Handlers, Insert(h) PROVE TypeOK'
  BY <1>7 DEF Insert, Truncate
<1>8. ASSUME NEW h \in Handlers, InsertFails(h) PROVE TypeOK'
  BY <1>8 DEF InsertFails, HandlerDone
<1>9. ASSUME NEW h \in Handlers, Save(h) PROVE TypeOK'
  <2>1. fstate' \in {"whole", "empty", "garbage"} /\ file' \in Lists
    BY <1>9 DEF Save, Write
  <2>2. hpc' \in [Handlers -> {"idle", "introducing", "insert", "saving"}]
    BY <1>9 DEF Save, Leave, HandlerDone
  <2>3. hpeer' \in [Handlers -> Peers \cup {NoPeer}]
    BY <1>9 DEF Save, Leave, HandlerDone
  <2>4. hrec' \in [Handlers -> Records] /\ saver' \in Handlers \cup {NoHandler}
    BY <1>9 DEF Save, Leave, HandlerDone
  <2>5. hknown' \in [Handlers -> SUBSET Peers]
    BY <1>9 DEF Save, Leave, HandlerDone
  <2>6. kept' \subseteq Peers
    BY <1>9 DEF Save
  <2>7. QED
    BY <1>9, <2>1, <2>2, <2>3, <2>4, <2>5, <2>6 DEF Save
<1>10. ASSUME NEW h \in Handlers, SaveFails(h) PROVE TypeOK'
  BY <1>10 DEF SaveFails, HandlerDone
<1>11. ASSUME NEW c \in Commands, NEW p \in Peers, Pair(c, p) PROVE TypeOK'
  BY <1>11 DEF Pair, Loaded
<1>12. ASSUME NEW c \in Commands, NEW p \in Peers, Unpair(c, p) PROVE TypeOK'
  BY <1>12 DEF Unpair, Loaded
<1>13. ASSUME NEW c \in Commands, OpenFile(c) PROVE TypeOK'
  BY <1>13 DEF OpenFile, Truncate
<1>14. ASSUME NEW c \in Commands, SaveFile(c) PROVE TypeOK'
  BY <1>14 DEF SaveFile, Write, CommandDone
<1>15. ASSUME NEW c \in Commands, Killed(c) PROVE TypeOK'
  BY <1>15 DEF Killed, CommandDone
<1>16. CASE UNCHANGED vars
  BY <1>16 DEF vars
<1>17. QED
  BY <1>1, <1>2, <1>3, <1>4, <1>5, <1>6, <1>7, <1>8, <1>9, <1>10, <1>11, <1>12, <1>13, <1>14, <1>15, <1>16 DEF Next, Running, Handler, Command

(* A handler saves exactly while it holds the lock, knows whom it saves,   *)
(* and introduces nobody its request found known.                          *)
LEMMA LocalsPreserved ==
  ASSUME TypeOK, LocalsSound, [Next]_vars
  PROVE  LocalsSound'
<1> USE TrustAssumption DEF TypeOK, LocalsSound, Lists, NoPeers, Records, Trusted, knows, fileVars, handlerVars, commandVars, historyVars
<1>1. CASE Start
  BY <1>1 DEF Start
<1>2. CASE Stop
  BY <1>2 DEF Stop
<1>3. ASSUME NEW h \in Handlers, NEW p \in Peers, Paired(h, p) PROVE LocalsSound'
  BY <1>3 DEF Paired
<1>4. ASSUME NEW h \in Handlers, Provision(h) PROVE LocalsSound'
  <2>1. hknown' = [hknown EXCEPT ![h] = Trusted] /\ Trusted' = Trusted
    BY <1>4 DEF Provision
  <2>2. \A i \in Handlers : hknown'[i] \subseteq Trusted'
    BY <2>1
  <2>3. QED
    BY <1>4, <2>2 DEF Provision
<1>5. ASSUME NEW h \in Handlers, NEW p \in Peers, Unknown(h, p) PROVE LocalsSound'
  BY <1>5 DEF Unknown
<1>6. ASSUME NEW h \in Handlers, Provisioned(h) PROVE LocalsSound'
  BY <1>6 DEF Provisioned, HandlerDone
<1>7. ASSUME NEW h \in Handlers, Insert(h) PROVE LocalsSound'
  BY <1>7 DEF Insert, Truncate
<1>8. ASSUME NEW h \in Handlers, InsertFails(h) PROVE LocalsSound'
  BY <1>8 DEF InsertFails, HandlerDone
<1>9. ASSUME NEW h \in Handlers, Save(h) PROVE LocalsSound'
  BY <1>9 DEF Save, Write, Leave, HandlerDone
<1>10. ASSUME NEW h \in Handlers, SaveFails(h) PROVE LocalsSound'
  BY <1>10 DEF SaveFails, HandlerDone
<1>11. ASSUME NEW c \in Commands, NEW p \in Peers, Pair(c, p) PROVE LocalsSound'
  BY <1>11 DEF Pair, Loaded
<1>12. ASSUME NEW c \in Commands, NEW p \in Peers, Unpair(c, p) PROVE LocalsSound'
  BY <1>12 DEF Unpair, Loaded
<1>13. ASSUME NEW c \in Commands, OpenFile(c) PROVE LocalsSound'
  BY <1>13 DEF OpenFile, Truncate
<1>14. ASSUME NEW c \in Commands, SaveFile(c) PROVE LocalsSound'
  BY <1>14 DEF SaveFile, Write, CommandDone
<1>15. ASSUME NEW c \in Commands, Killed(c) PROVE LocalsSound'
  BY <1>15 DEF Killed, CommandDone
<1>16. CASE UNCHANGED vars
  BY <1>16 DEF vars
<1>17. QED
  BY <1>1, <1>2, <1>3, <1>4, <1>5, <1>6, <1>7, <1>8, <1>9, <1>10, <1>11, <1>12, <1>13, <1>14, <1>15, <1>16 DEF Next, Running, Handler, Command

(* A save that nobody disturbs leaves a whole file.                        *)
LEMMA FilePreserved ==
  ASSUME TypeOK, LocalsSound, FileSound, [Next]_vars
  PROVE  FileSound'
<1> USE TrustAssumption DEF TypeOK, LocalsSound, FileSound, Lists, NoPeers, Records, Writing, Saving, fileVars, handlerVars, commandVars, historyVars
<1>1. CASE Start
  BY <1>1 DEF Start
<1>2. CASE Stop
  BY <1>2 DEF Stop
<1>3. ASSUME NEW h \in Handlers, NEW p \in Peers, Paired(h, p) PROVE FileSound'
  BY <1>3 DEF Paired
<1>4. ASSUME NEW h \in Handlers, Provision(h) PROVE FileSound'
  BY <1>4 DEF Provision
<1>5. ASSUME NEW h \in Handlers, NEW p \in Peers, Unknown(h, p) PROVE FileSound'
  BY <1>5 DEF Unknown
<1>6. ASSUME NEW h \in Handlers, Provisioned(h) PROVE FileSound'
  BY <1>6 DEF Provisioned, HandlerDone
<1>7. ASSUME NEW h \in Handlers, Insert(h) PROVE FileSound'
  BY <1>7 DEF Insert, Truncate
<1>8. ASSUME NEW h \in Handlers, InsertFails(h) PROVE FileSound'
  BY <1>8 DEF InsertFails, HandlerDone
<1>9. ASSUME NEW h \in Handlers, Save(h) PROVE FileSound'
  BY <1>9 DEF Save, Write, Leave, HandlerDone
<1>10. ASSUME NEW h \in Handlers, SaveFails(h) PROVE FileSound'
  BY <1>10 DEF SaveFails, HandlerDone
<1>11. ASSUME NEW c \in Commands, NEW p \in Peers, Pair(c, p) PROVE FileSound'
  BY <1>11 DEF Pair, Loaded
<1>12. ASSUME NEW c \in Commands, NEW p \in Peers, Unpair(c, p) PROVE FileSound'
  BY <1>12 DEF Unpair, Loaded
<1>13. ASSUME NEW c \in Commands, OpenFile(c) PROVE FileSound'
  BY <1>13 DEF OpenFile, Truncate
<1>14. ASSUME NEW c \in Commands, SaveFile(c) PROVE FileSound'
  BY <1>14 DEF SaveFile, Write, CommandDone
<1>15. ASSUME NEW c \in Commands, Killed(c) PROVE FileSound'
  BY <1>15 DEF Killed, CommandDone
<1>16. CASE UNCHANGED vars
  BY <1>16 DEF vars
<1>17. QED
  BY <1>1, <1>2, <1>3, <1>4, <1>5, <1>6, <1>7, <1>8, <1>9, <1>10, <1>11, <1>12, <1>13, <1>14, <1>15, <1>16 DEF Next, Running, Handler, Command

(* Nobody brings back a device that no copy holds.                         *)
LEMMA RevocationsPreserved ==
  ASSUME TypeOK, LocalsSound, FileSound, RevocationsLast, [Next]_vars
  PROVE  RevocationsLast'
<1> USE TrustAssumption DEF TypeOK, LocalsSound, FileSound, RevocationsLast, Lists, NoPeers, Records, Active, knows, fileVars, handlerVars, commandVars, historyVars
<1>1. CASE Start
  BY <1>1 DEF Start
<1>2. CASE Stop
  BY <1>2 DEF Stop
<1>3. ASSUME NEW h \in Handlers, NEW p \in Peers, Paired(h, p) PROVE RevocationsLast'
  BY <1>3 DEF Paired
<1>4. ASSUME NEW h \in Handlers, Provision(h) PROVE RevocationsLast'
  BY <1>4 DEF Provision
<1>5. ASSUME NEW h \in Handlers, NEW p \in Peers, Unknown(h, p) PROVE RevocationsLast'
  BY <1>5 DEF Unknown
<1>6. ASSUME NEW h \in Handlers, Provisioned(h) PROVE RevocationsLast'
  BY <1>6 DEF Provisioned, HandlerDone
<1>7. ASSUME NEW h \in Handlers, Insert(h) PROVE RevocationsLast'
  BY <1>7 DEF Insert, Truncate
<1>8. ASSUME NEW h \in Handlers, InsertFails(h) PROVE RevocationsLast'
  BY <1>8 DEF InsertFails, HandlerDone
<1>9. ASSUME NEW h \in Handlers, Save(h) PROVE RevocationsLast'
  BY <1>9 DEF Save, Write, Leave, HandlerDone
<1>10. ASSUME NEW h \in Handlers, SaveFails(h) PROVE RevocationsLast'
  BY <1>10 DEF SaveFails, HandlerDone
<1>11. ASSUME NEW c \in Commands, NEW p \in Peers, Pair(c, p) PROVE RevocationsLast'
  BY <1>11 DEF Pair, Loaded
<1>12. ASSUME NEW c \in Commands, NEW p \in Peers, Unpair(c, p) PROVE RevocationsLast'
  BY <1>12 DEF Unpair, Loaded
<1>13. ASSUME NEW c \in Commands, OpenFile(c) PROVE RevocationsLast'
  BY <1>13 DEF OpenFile, Truncate
<1>14. ASSUME NEW c \in Commands, SaveFile(c) PROVE RevocationsLast'
  BY <1>14 DEF SaveFile, Write, CommandDone, OthersLack
<1>15. ASSUME NEW c \in Commands, Killed(c) PROVE RevocationsLast'
  BY <1>15 DEF Killed, CommandDone
<1>16. CASE UNCHANGED vars
  BY <1>16 DEF vars
<1>17. QED
  BY <1>1, <1>2, <1>3, <1>4, <1>5, <1>6, <1>7, <1>8, <1>9, <1>10, <1>11, <1>12, <1>13, <1>14, <1>15, <1>16 DEF Next, Running, Handler, Command

(* Nobody loses a device that every copy holds.                            *)
LEMMA PairingsPreserved ==
  ASSUME TypeOK, LocalsSound, FileSound, PairingsLast, [Next]_vars
  PROVE  PairingsLast'
<1> USE TrustAssumption DEF TypeOK, LocalsSound, FileSound, PairingsLast, Lists, NoPeers, Records, Active, knows, fileVars, handlerVars, commandVars, historyVars
<1>1. CASE Start
  BY <1>1 DEF Start
<1>2. CASE Stop
  BY <1>2 DEF Stop
<1>3. ASSUME NEW h \in Handlers, NEW p \in Peers, Paired(h, p) PROVE PairingsLast'
  BY <1>3 DEF Paired
<1>4. ASSUME NEW h \in Handlers, Provision(h) PROVE PairingsLast'
  BY <1>4 DEF Provision
<1>5. ASSUME NEW h \in Handlers, NEW p \in Peers, Unknown(h, p) PROVE PairingsLast'
  BY <1>5 DEF Unknown
<1>6. ASSUME NEW h \in Handlers, Provisioned(h) PROVE PairingsLast'
  BY <1>6 DEF Provisioned, HandlerDone
<1>7. ASSUME NEW h \in Handlers, Insert(h) PROVE PairingsLast'
  BY <1>7 DEF Insert, Truncate
<1>8. ASSUME NEW h \in Handlers, InsertFails(h) PROVE PairingsLast'
  BY <1>8 DEF InsertFails, HandlerDone
<1>9. ASSUME NEW h \in Handlers, Save(h) PROVE PairingsLast'
  BY <1>9 DEF Save, Write, Leave, HandlerDone
<1>10. ASSUME NEW h \in Handlers, SaveFails(h) PROVE PairingsLast'
  BY <1>10 DEF SaveFails, HandlerDone
<1>11. ASSUME NEW c \in Commands, NEW p \in Peers, Pair(c, p) PROVE PairingsLast'
  BY <1>11 DEF Pair, Loaded
<1>12. ASSUME NEW c \in Commands, NEW p \in Peers, Unpair(c, p) PROVE PairingsLast'
  BY <1>12 DEF Unpair, Loaded
<1>13. ASSUME NEW c \in Commands, OpenFile(c) PROVE PairingsLast'
  BY <1>13 DEF OpenFile, Truncate
<1>14. ASSUME NEW c \in Commands, SaveFile(c) PROVE PairingsLast'
  BY <1>14 DEF SaveFile, Write, CommandDone, OthersHave
<1>15. ASSUME NEW c \in Commands, Killed(c) PROVE PairingsLast'
  BY <1>15 DEF Killed, CommandDone
<1>16. CASE UNCHANGED vars
  BY <1>16 DEF vars
<1>17. QED
  BY <1>1, <1>2, <1>3, <1>4, <1>5, <1>6, <1>7, <1>8, <1>9, <1>10, <1>11, <1>12, <1>13, <1>14, <1>15, <1>16 DEF Next, Running, Handler, Command

-----------------------------------------------------------------------------
IInv ==
  TypeOK /\ LocalsSound /\ FileSound /\ RevocationsLast /\ PairingsLast

LEMMA InitIInv ==
  ASSUME Init
  PROVE  IInv
<1> USE TrustAssumption DEF Init, Lists, NoPeers, Records
<1>1. TypeOK
  BY DEF TypeOK
<1>2. LocalsSound /\ RevocationsLast /\ PairingsLast
  BY DEF LocalsSound, RevocationsLast, PairingsLast, Trusted, knows, Active
<1>3. FileSound
  BY DEF FileSound, Writing, Saving
<1>4. QED
  BY <1>1, <1>2, <1>3 DEF IInv

LEMMA NextIInv ==
  ASSUME IInv, [Next]_vars
  PROVE  IInv'
BY TypePreserved, LocalsPreserved, FilePreserved, RevocationsPreserved, PairingsPreserved DEF IInv

LEMMA Inductive == Spec => []IInv
BY InitIInv, NextIInv, PTL DEF Spec

(* Every variable keeps its type.                                          *)
THEOREM TypeCorrect == Spec => []TypeOK
<1>1. IInv => TypeOK
  BY DEF IInv
<1>2. QED
  BY <1>1, Inductive, PTL

(* insert under the write lock: whatever handlers do, the file is the      *)
(* daemon's map between saves, if nobody else wrote and no save failed.    *)
THEOREM RestartKeepsTrustAlways == Spec => []RestartKeepsTrust
<1>1. IInv => RestartKeepsTrust
  BY DEF IInv, FileSound, RestartKeepsTrust
<1>2. QED
  BY <1>1, Inductive, PTL

(* Only a save that was cut short or disturbed leaves a torn file.         *)
THEOREM TornOnlyByInterruptionAlways == Spec => []TornOnlyByInterruption
<1>1. IInv => TornOnlyByInterruption
  BY DEF IInv, TypeOK, FileSound, TornOnlyByInterruption
<1>2. QED
  BY <1>1, Inductive, PTL

(* unpair is final when nobody held a copy with the device.                *)
THEOREM RevocationsLastAlways == Spec => []RevocationsLast
<1>1. IInv => RevocationsLast
  BY DEF IInv
<1>2. QED
  BY <1>1, Inductive, PTL

(* A pairing is final when nobody held a copy without the device.          *)
THEOREM PairingsLastAlways == Spec => []PairingsLast
<1>1. IInv => PairingsLast
  BY DEF IInv
<1>2. QED
  BY <1>1, Inductive, PTL

(* An introduction downgrades a pairing only if the pairing came after the *)
(* request: what the request found known it does not insert.               *)
LEMMA StepDefers ==
  ASSUME IInv, [Next]_vars, NEW p \in Peers,
         map[p] = "direct", map'[p] = "introduced"
  PROVE  \E h \in Handlers : hpeer[h] = p /\ hpc[h] = "insert" /\ p \notin hknown[h]
<1> USE DEF IInv, TypeOK, LocalsSound, Lists, Records, NoPeers
<1>1. (\E h \in Handlers : Insert(h) \/ InsertFails(h)) \/ Start \/ Stop \/ map' = map
  BY DEF Next, Running, Handler, Command, Paired, Provision, Unknown, Provisioned, Save, SaveFails,
         Pair, Unpair, OpenFile, SaveFile, Killed, vars
<1>2. ~Start /\ ~Stop
  BY DEF Start, Stop
<1>3. PICK h \in Handlers : Insert(h) \/ InsertFails(h)
  BY <1>1, <1>2
<1>4. hpc[h] = "insert" /\ map' = [map EXCEPT ![hpeer[h]] = hrec[h]]
  BY <1>3 DEF Insert, InsertFails
<1>5. hpeer[h] = p /\ hrec[h] = "introduced"
  BY <1>4
<1>6. QED
  BY <1>4, <1>5

THEOREM IntroductionsDeferAlways == Spec => IntroductionsDefer
<1>1. IInv /\ [Next]_vars =>
        [\A p \in Peers : map[p] = "direct" /\ map'[p] = "introduced" =>
           \E h \in Handlers : hpeer[h] = p /\ hpc[h] = "insert" /\ p \notin hknown[h]]_vars
  BY StepDefers
<1>2. QED
  BY <1>1, Inductive, PTL DEF Spec, IntroductionsDefer

-----------------------------------------------------------------------------
(* What Truncate and Write do to the file, as TrustMap sees it.            *)
LEMMA WriteMaps ==
  ASSUME NEW list \in Lists, Write(list)
  PROVE  \/ Disk' = "readable" /\ Stored' = {p \in Peers : list[p] # "none"}
         \/ Disk' = "torn" /\ Stored' = {}
BY DEF Write, Disk, Stored, NoPeers, Lists

LEMMA TruncateMaps ==
  ASSUME Truncate
  PROVE  Disk' = "torn" /\ Stored' = {}
BY DEF Truncate, Disk, Stored, NoPeers

(* Each step of the daemon is a step of TrustMap, and so is each write of  *)
(* another process.                                                        *)
LEMMA StepSimulates ==
  ASSUME IInv, [Next]_vars
  PROVE  [Map!MapNext]_(Map!mapVars)
<1> USE DEF IInv, TypeOK, LocalsSound, Lists, Records, NoPeers, Map!mapVars, Map!storeVars
<1>1. CASE Start
  <2>1. Map!Starts
    BY <1>1 DEF Start, Map!Starts, Trusted, Stored, Disk, knows, fileVars
  <2>2. QED
    BY <2>1 DEF Map!MapNext
<1>2. CASE Stop
  <2>1. Map!Stops
    BY <1>2 DEF Stop, Map!Stops, Trusted, Stored, Disk, knows, fileVars
  <2>2. QED
    BY <2>1 DEF Map!MapNext
<1>3. ASSUME NEW h \in Handlers, Insert(h) \/ InsertFails(h) PROVE [Map!MapNext]_(Map!mapVars)
  <2>1. hpeer[h] \in Peers /\ hrec[h] # "none" /\ daemon = "up" /\ daemon' = daemon
        /\ map' = [map EXCEPT ![hpeer[h]] = hrec[h]]
    BY <1>3 DEF Insert, InsertFails
  <2>2. Trusted' = Trusted \cup {hpeer[h]}
    BY <2>1 DEF Trusted, knows
  <2>3. (Disk' = "torn" /\ Stored' = {}) \/ (Disk' = Disk /\ Stored' = Stored)
    <3>1. CASE Insert(h)
      BY <3>1, TruncateMaps DEF Insert
    <3>2. CASE InsertFails(h)
      BY <3>2 DEF InsertFails, fileVars, Disk, Stored
    <3>3. QED
      BY <1>3, <3>1, <3>2
  <2>4. PICK p \in Peers : p = hpeer[h]
    BY <2>1
  <2>5. Map!Trusts(p)
    BY <2>1, <2>2, <2>3, <2>4 DEF Map!Trusts, Map!Torn
  <2>6. QED
    BY <2>5 DEF Map!MapNext
<1>4. ASSUME NEW h \in Handlers, Save(h) PROVE [Map!MapNext]_(Map!mapVars)
  <2>1. daemon = "up" /\ daemon' = daemon /\ Trusted' = Trusted
    BY <1>4 DEF Save, Trusted, knows
  <2>2. (Disk' = "readable" /\ Stored' = Trusted) \/ (Disk' = "torn" /\ Stored' = {})
    BY <1>4, WriteMaps DEF Save, Trusted, knows
  <2>3. Map!Saves
    BY <2>1, <2>2 DEF Map!Saves, Map!Saved, Map!Torn
  <2>4. QED
    BY <2>3 DEF Map!MapNext
<1>5. ASSUME NEW c \in Commands, OpenFile(c) \/ SaveFile(c) PROVE [Map!MapNext]_(Map!mapVars)
  <2>1. daemon' = daemon /\ Trusted' = Trusted
    BY <1>5 DEF OpenFile, SaveFile, Trusted, knows
  <2>2. (Disk' = "readable" /\ Stored' \in SUBSET Peers) \/ (Disk' = "torn" /\ Stored' = {})
    <3>1. CASE OpenFile(c)
      BY <3>1, TruncateMaps DEF OpenFile
    <3>2. CASE SaveFile(c)
      BY <3>2, WriteMaps DEF SaveFile
    <3>3. QED
      BY <1>5, <3>1, <3>2
  <2>3. Map!OthersWrite
    BY <2>1, <2>2 DEF Map!OthersWrite, Map!Torn
  <2>4. QED
    BY <2>3 DEF Map!MapNext
<1>6. ASSUME map' = map, daemon' = daemon, fstate' = fstate, file' = file PROVE [Map!MapNext]_(Map!mapVars)
  BY <1>6 DEF Trusted, Stored, Disk, knows
<1>7. \/ \E h \in Handlers : Insert(h) \/ InsertFails(h) \/ Save(h)
      \/ \E c \in Commands : OpenFile(c) \/ SaveFile(c)
      \/ Start \/ Stop
      \/ map' = map /\ daemon' = daemon /\ fstate' = fstate /\ file' = file
  BY DEF Next, Running, Handler, Command, Paired, Provision, Unknown, Provisioned, SaveFails,
         Pair, Unpair, Killed, vars, fileVars
<1>8. QED
  BY <1>1, <1>2, <1>3, <1>4, <1>5, <1>6, <1>7

(* Daemon and file implement TrustMap for any devices and commands.        *)
THEOREM MapRefined == Spec => ImplementsTrustMap
<1>1. Init => Map!MapInit
  BY DEF Init, NoPeers, Trusted, Stored, Disk, knows, Map!MapInit
<1>2. IInv /\ [Next]_vars => [Map!MapNext]_(Map!mapVars)
  BY StepSimulates
<1>3. QED
  BY <1>1, <1>2, Inductive, PTL DEF Spec, ImplementsTrustMap, Map!MapSpec
=============================================================================
