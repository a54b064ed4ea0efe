--------------------------- MODULE PairingProofs ---------------------------
(***************************************************************************)
(* Theorems about Pairing, for any number of workers and faults.  That Ok  *)
(* means both saved needs the meaning of each side's progress; that        *)
(* nothing but a fault splits a pairing needs to know why a side can have  *)
(* left an exchange the other is still in.                                 *)
(***************************************************************************)
EXTENDS Pairing, TLAPS

(* What a process holds in memory and what is in its file: a store is only *)
(* there while its process runs, and a worker's holds the master exactly   *)
(* if its file did when it was last loaded or written, torn or not.        *)
StoresSound ==
  /\ busy # Nobody => master = "up"
  /\ master = "down" => mtrust = {}
  /\ mtorn => mdisk = {}
  /\ \A w \in Workers :
       /\ phase[w] = "off" => ~ wtrust[w]
       /\ phase[w] # "off" => (wtrust[w] <=> wdisk[w] # "none")
       /\ phase[w] = "connected" => wtrust[w]

(* A side that sent "saved" has saved, and unless a torn file was removed  *)
(* since it knows the other as long as it runs and finds it in a file that *)
(* parses.  A side that returned Ok has seen the other's "saved".          *)
ProgressSound ==
  \A w \in Workers :
    /\ wn[w] >= 2 /\ w \notin lost =>
         /\ phase[w] # "off" => wtrust[w]
         /\ wdisk[w] # "torn" => wdisk[w] = "paired"
    /\ mn[w] >= 2 /\ w \notin lost =>
         /\ master = "up" => w \in mtrust
         /\ ~ mtorn => w \in mdisk
    /\ wn[w] = 3 => mn[w] >= 2
    /\ mn[w] = 3 => wn[w] >= 2

(* Without faults a side leaves an exchange early only over a wrong code,  *)
(* and a wrong code changes neither store.                                 *)
NoFault ==
  /\ master = "up" /\ ~ mtorn /\ mtrust = mdisk /\ lost = {}
  /\ \A w \in Workers :
       /\ wdisk[w] # "torn"
       /\ InExchange(w) /\ busy # w => mn[w] = 3 \/ ~ agreed[w]
       /\ ~ InExchange(w) /\ busy = w => wn[w] = 3 \/ ~ agreed[w]
       /\ ~ agreed[w] => (wdisk[w] = "paired" <=> w \in mdisk)
       /\ ~ InExchange(w) /\ busy # w => (wdisk[w] = "paired" <=> w \in mdisk)

IInv ==
  /\ TypeOK
  /\ StoresSound
  /\ ProgressSound
  /\ faults = 0 => NoFault
-----------------------------------------------------------------------------
LEMMA InitIInv == Init => IInv
<1>1. Init => TypeOK
  <2> SUFFICES ASSUME Init PROVE TypeOK
    OBVIOUS
  <2>1. /\ wn \in [Workers -> 0..3] /\ mn \in [Workers -> 0..3]
        /\ faults \in 0..MaxFaults
    BY PairingAssumption DEF Init
  <2>2. /\ phase \in [Workers -> Phases]
        /\ wdisk \in [Workers -> {"none", "paired", "torn"}]
    BY DEF Init, Phases
  <2> QED
    BY <2>1, <2>2 DEF Init, TypeOK
<1>2. Init => StoresSound /\ ProgressSound
  BY PairingAssumption DEF Init, StoresSound, ProgressSound
<1>3. Init => NoFault
  BY PairingAssumption DEF Init, NoFault, InExchange
<1> QED
  BY <1>1, <1>2, <1>3 DEF IInv

(* What a user does with a process.  A repaired file is a lost one. *)
LEMMA UserIInv ==
  ASSUME IInv, NEW w \in Workers, WorkerUser(w)
  PROVE  IInv'
<1>1. CASE Start(w)
  <2>1. PICK id \in BOOLEAN : known' = [known EXCEPT ![w] = id]
    BY <1>1 DEF Start, IInv, TypeOK
  <2>2. known' \in [Workers -> BOOLEAN]
    BY <2>1 DEF IInv, TypeOK
  <2>3. TypeOK'
    BY <1>1, <2>2, PairingAssumption DEF IInv, TypeOK, Phases, Start, Goto, masterVars, mstoreVars
  <2>4. StoresSound' /\ ProgressSound' /\ (faults = 0 => NoFault)'
    BY <1>1
    DEF IInv, TypeOK, StoresSound, ProgressSound, NoFault, InExchange,
        Start, Goto, masterVars, mstoreVars
  <2> QED
    BY <2>3, <2>4 DEF IInv
<1>2. CASE UserStops(w)
  BY <1>2, PairingAssumption
  DEF IInv, TypeOK, StoresSound, ProgressSound, NoFault, Phases, InExchange,
      UserStops, Ends, Goto, Admitted, targetVars, masterVars, mstoreVars
<1>3. CASE WorkerRepairs(w)
  BY <1>3, PairingAssumption
  DEF IInv, TypeOK, StoresSound, ProgressSound, NoFault, Phases, InExchange,
      WorkerRepairs, targetVars, masterVars, mstoreVars
<1> QED
  BY <1>1, <1>2, <1>3 DEF WorkerUser

(* What the worker's loop does outside an exchange, and starting one. *)
LEMMA LoopIInv ==
  ASSUME IInv, NEW w \in Workers, WorkerLoop(w) \/ Introduced(w)
  PROVE  IInv'
<1>1. CASE Connects(w)
  BY <1>1, PairingAssumption
  DEF IInv, TypeOK, StoresSound, ProgressSound, NoFault, Phases, InExchange,
      Connects, Goto, Admitted, wstoreVars, masterVars, mstoreVars
<1>2. CASE Pairs(w)
  <2>1. TypeOK'
    BY <1>2, PairingAssumption
    DEF IInv, TypeOK, Phases,
        Pairs, Goto, targetVars, wstoreVars, masterVars, mstoreVars
  <2>2. StoresSound'
    BY <1>2, PairingAssumption
    DEF IInv, TypeOK, StoresSound,
        Pairs, Goto, targetVars, wstoreVars, masterVars, mstoreVars
  <2>3. ProgressSound'
    BY <1>2, PairingAssumption
    DEF IInv, TypeOK, StoresSound, ProgressSound,
        Pairs, Goto, targetVars, wstoreVars, masterVars, mstoreVars
  <2>4. (faults = 0 => NoFault)'
    BY <1>2, PairingAssumption
    DEF IInv, TypeOK, StoresSound, ProgressSound, NoFault, InExchange,
        Pairs, Goto, targetVars, wstoreVars, masterVars, mstoreVars
  <2> QED
    BY <2>1, <2>2, <2>3, <2>4 DEF IInv
<1>3. CASE Accept(w)
  BY <1>3, PairingAssumption
  DEF IInv, TypeOK, StoresSound, ProgressSound, NoFault, Phases, InExchange,
      Accept, Goto, targetVars, wstoreVars, mstoreVars
<1>4. CASE DialTimeout(w)
  BY <1>4, PairingAssumption
  DEF IInv, TypeOK, StoresSound, ProgressSound, NoFault, Phases, InExchange,
      DialTimeout, Ends, Goto, targetVars, masterVars, mstoreVars
<1>5. CASE Introduced(w)
  BY <1>5, PairingAssumption
  DEF IInv, TypeOK, StoresSound, ProgressSound, NoFault, Phases, InExchange,
      Introduced, targetVars, masterVars, mstoreVars
<1> QED
  BY <1>1, <1>2, <1>3, <1>4, <1>5 DEF WorkerLoop

LEMMA WorkerIInv ==
  ASSUME IInv, NEW w \in Workers, WorkerHalf(w)
  PROVE  IInv'
<1>1. CASE WorkerConfirms(w)
  BY <1>1, PairingAssumption
  DEF IInv, TypeOK, StoresSound, ProgressSound, NoFault, Phases, InExchange,
      WorkerConfirms, targetVars, wstoreVars, masterVars, mstoreVars
<1>2. CASE WorkerSaves(w)
  BY <1>2, PairingAssumption
  DEF IInv, TypeOK, StoresSound, ProgressSound, NoFault, Phases, InExchange,
      WorkerSaves, WorkerInserts, targetVars, masterVars, mstoreVars
<1>3. CASE WorkerDone(w)
  <2>1. TypeOK'
    BY <1>3, PairingAssumption
    DEF IInv, TypeOK, Phases,
        WorkerDone, Goto, wstoreVars, masterVars, mstoreVars
  <2>2. StoresSound'
    BY <1>3, PairingAssumption
    DEF IInv, TypeOK, StoresSound, InExchange,
        WorkerDone, Goto, wstoreVars, masterVars, mstoreVars
  <2>3. ProgressSound'
    BY <1>3, PairingAssumption
    DEF IInv, TypeOK, StoresSound, ProgressSound, InExchange,
        WorkerDone, Goto, wstoreVars, masterVars, mstoreVars
  <2>4. (faults = 0 => NoFault)'
    <3> SUFFICES ASSUME faults = 0 PROVE NoFault'
      BY <1>3 DEF WorkerDone
    <3>1. wn' = [wn EXCEPT ![w] = 3] /\ phase' = [phase EXCEPT ![w] = "search"]
      BY <1>3 DEF WorkerDone, Goto
    <3>2. UNCHANGED <<agreed, wdisk, mn, busy, master, mtrust, mdisk, mtorn, lost>>
      BY <1>3 DEF WorkerDone, wstoreVars, masterVars, mstoreVars
    <3>3. wn[w] = 2 /\ mn[w] >= 2 /\ phase[w] = "exchange"
      BY <1>3 DEF WorkerDone, InExchange
    <3>4. NoFault /\ ProgressSound /\ TypeOK
      BY DEF IInv
    <3>5. busy # w => (wdisk[w] = "paired" <=> w \in mdisk)
      BY <3>3, <3>4 DEF NoFault, ProgressSound, InExchange, TypeOK
    <3> QED
      BY <3>1, <3>2, <3>3, <3>4, <3>5 DEF NoFault, InExchange, TypeOK
  <2> QED
    BY <2>1, <2>2, <2>3, <2>4 DEF IInv
<1>4. CASE WorkerGivesUp(w)
  BY <1>4, PairingAssumption
  DEF IInv, TypeOK, StoresSound, ProgressSound, NoFault, Phases, InExchange,
      WorkerGivesUp, Ends, Goto, targetVars, masterVars, mstoreVars
<1> QED
  BY <1>1, <1>2, <1>3, <1>4 DEF WorkerHalf

LEMMA MasterIInv ==
  ASSUME IInv, NEW w \in Workers, MasterHalf(w)
  PROVE  IInv'
<1>1. CASE MasterConfirms(w)
  BY <1>1, PairingAssumption
  DEF IInv, TypeOK, StoresSound, ProgressSound, NoFault, Phases, InExchange,
      MasterConfirms, workerVars, targetVars, wstoreVars, mstoreVars
<1>2. CASE MasterSaves(w)
  <2>1. TypeOK'
    <3>1. mn' \in [Workers -> 0..3]
      BY <1>2, PairingAssumption DEF IInv, TypeOK, Phases,
          MasterSaves, MasterInserts, workerVars, targetVars, wstoreVars
    <3> QED
      BY <1>2, <3>1 DEF IInv, TypeOK, MasterSaves, MasterInserts, workerVars, targetVars, wstoreVars
  <2>2. StoresSound'
    BY <1>2, PairingAssumption
    DEF IInv, TypeOK, StoresSound,
        MasterSaves, MasterInserts, workerVars, targetVars, wstoreVars
  <2>3. ProgressSound'
    BY <1>2, PairingAssumption
    DEF IInv, TypeOK, StoresSound, ProgressSound,
        MasterSaves, MasterInserts, workerVars, targetVars, wstoreVars
  <2>4. (faults = 0 => NoFault)'
    BY <1>2, PairingAssumption
    DEF IInv, TypeOK, StoresSound, ProgressSound, NoFault, InExchange,
        MasterSaves, MasterInserts, workerVars, targetVars, wstoreVars
  <2> QED
    BY <2>1, <2>2, <2>3, <2>4 DEF IInv
<1>3. CASE MasterDone(w)
  <2>1. TypeOK'
    BY <1>3, PairingAssumption
    DEF IInv, TypeOK, Phases,
        MasterDone, NewCode, targetVars, wstoreVars, mstoreVars
  <2>2. StoresSound'
    BY <1>3, PairingAssumption
    DEF IInv, TypeOK, StoresSound,
        MasterDone, NewCode, targetVars, wstoreVars, mstoreVars
  <2>3. ProgressSound'
    BY <1>3, PairingAssumption
    DEF IInv, TypeOK, StoresSound, ProgressSound,
        MasterDone, NewCode, targetVars, wstoreVars, mstoreVars
  <2>4. (faults = 0 => NoFault)'
    <3> SUFFICES ASSUME faults = 0 PROVE NoFault'
      BY <1>3 DEF MasterDone
    <3>1. mn' = [mn EXCEPT ![w] = 3] /\ busy' = Nobody
      BY <1>3 DEF MasterDone, NewCode
    <3>2. UNCHANGED <<phase, agreed, wdisk, wn, master, mtrust, mdisk, mtorn, lost>>
      BY <1>3 DEF MasterDone, wstoreVars, mstoreVars
    <3>3. mn[w] = 2 /\ wn[w] >= 2 /\ busy = w
      BY <1>3 DEF MasterDone
    <3>4. NoFault /\ ProgressSound /\ TypeOK
      BY DEF IInv
    <3>5. ~ InExchange(w) => (wdisk[w] = "paired" <=> w \in mdisk)
      BY <3>3, <3>4 DEF NoFault, ProgressSound, InExchange, TypeOK
    <3> QED
      BY <3>1, <3>2, <3>3, <3>4, <3>5, PairingAssumption DEF NoFault, InExchange, TypeOK
  <2> QED
    BY <2>1, <2>2, <2>3, <2>4 DEF IInv
<1>4. CASE MasterGivesUp(w)
  BY <1>4, PairingAssumption
  DEF IInv, TypeOK, StoresSound, ProgressSound, NoFault, Phases, InExchange,
      MasterGivesUp, NewCode, targetVars, wstoreVars, mstoreVars
<1> QED
  BY <1>1, <1>2, <1>3, <1>4 DEF MasterHalf

(* A fault only has to keep the stores and the meaning of the progress. *)
LEMMA FaultIInv ==
  ASSUME IInv, NEW w \in Workers, Faults(w)
  PROVE  IInv'
<1>1. CASE WorkerFails(w)
  <2>1. TypeOK'
    <3>1. PICK p \in Phases : phase' = [phase EXCEPT ![w] = p]
      BY <1>1 DEF WorkerFails, Ends, Goto, Phases
    <3>2. phase' \in [Workers -> Phases]
      BY <3>1 DEF IInv, TypeOK
    <3>3. wtrust' \in [Workers -> BOOLEAN]
      BY <1>1 DEF IInv, TypeOK, WorkerFails, Ends
    <3>4. faults' \in 0..MaxFaults
      BY <1>1, PairingAssumption DEF IInv, TypeOK, WorkerFails, Fault
    <3> QED
      BY <1>1, <3>2, <3>3, <3>4 DEF IInv, TypeOK, WorkerFails, Fault, Ends, Goto, targetVars, masterVars, mstoreVars
  <2>2. StoresSound'
    BY <1>1, PairingAssumption
    DEF IInv, TypeOK, StoresSound,
        WorkerFails, Fault, Ends, Goto, targetVars, masterVars, mstoreVars
  <2>3. ProgressSound'
    BY <1>1, PairingAssumption
    DEF IInv, TypeOK, StoresSound, ProgressSound,
        WorkerFails, Fault, Ends, Goto, targetVars, masterVars, mstoreVars
  <2>4. (faults = 0 => NoFault)'
    BY <1>1, PairingAssumption
    DEF IInv, TypeOK, StoresSound, ProgressSound, NoFault, InExchange,
        WorkerFails, Fault, Ends, Goto, targetVars, masterVars, mstoreVars
  <2> QED
    BY <2>1, <2>2, <2>3, <2>4 DEF IInv
<1>2. CASE WorkerSaveFails(w)
  BY <1>2, PairingAssumption
  DEF IInv, TypeOK, StoresSound, ProgressSound, NoFault, Phases, InExchange,
      WorkerSaveFails, WorkerInserts, Fault, Ends, Goto, targetVars, masterVars, mstoreVars
<1>3. CASE IntroductionFails(w)
  <2>1. TypeOK'
    <3>1. \/ phase' = [phase EXCEPT ![w] = "off"] /\ wtrust' = [wtrust EXCEPT ![w] = FALSE]
          \/ phase' = phase /\ wtrust' = wtrust
      BY <1>3 DEF IntroductionFails, Ends, Goto
    <3>2. phase' \in [Workers -> Phases] /\ wtrust' \in [Workers -> BOOLEAN]
      BY <3>1 DEF IInv, TypeOK, Phases
    <3>3. faults' \in 0..MaxFaults
      BY <1>3, PairingAssumption DEF IInv, TypeOK, IntroductionFails, Fault
    <3> QED
      BY <1>3, <3>2, <3>3 DEF IInv, TypeOK, IntroductionFails, Fault, Ends, Goto, targetVars, masterVars, mstoreVars
  <2>2. StoresSound'
    BY <1>3, PairingAssumption
    DEF IInv, TypeOK, StoresSound,
        IntroductionFails, Fault, Ends, Goto, targetVars, masterVars, mstoreVars
  <2>3. ProgressSound'
    BY <1>3, PairingAssumption
    DEF IInv, TypeOK, StoresSound, ProgressSound,
        IntroductionFails, Fault, Ends, Goto, targetVars, masterVars, mstoreVars
  <2>4. (faults = 0 => NoFault)'
    BY <1>3, PairingAssumption
    DEF IInv, TypeOK, StoresSound, ProgressSound, NoFault, InExchange,
        IntroductionFails, Fault, Ends, Goto, targetVars, masterVars, mstoreVars
  <2> QED
    BY <2>1, <2>2, <2>3, <2>4 DEF IInv
<1>4. CASE MasterFails(w)
  BY <1>4, PairingAssumption
  DEF IInv, TypeOK, StoresSound, ProgressSound, NoFault, Phases, InExchange,
      MasterFails, Fault, NewCode, targetVars, wstoreVars, mstoreVars
<1>5. CASE MasterSaveFails(w)
  <2>1. TypeOK'
    <3>1. current' \in [Workers -> BOOLEAN] /\ faults' \in 0..MaxFaults
      BY <1>5, PairingAssumption DEF IInv, TypeOK, Phases,
          MasterSaveFails, MasterInserts, MasterFileTorn, Fault, NewCode, targetVars, wstoreVars
    <3> QED
      BY <1>5, <3>1 DEF IInv, TypeOK, MasterSaveFails, MasterInserts, MasterFileTorn, Fault, NewCode, targetVars, wstoreVars
  <2>2. StoresSound'
    BY <1>5, PairingAssumption
    DEF IInv, TypeOK, StoresSound,
        MasterSaveFails, MasterInserts, MasterFileTorn, Fault, NewCode, targetVars, wstoreVars
  <2>3. ProgressSound'
    BY <1>5, PairingAssumption
    DEF IInv, TypeOK, StoresSound, ProgressSound,
        MasterSaveFails, MasterInserts, MasterFileTorn, Fault, NewCode, targetVars, wstoreVars
  <2>4. (faults = 0 => NoFault)'
    BY <1>5, PairingAssumption
    DEF IInv, TypeOK, StoresSound, ProgressSound, NoFault, InExchange,
        MasterSaveFails, MasterInserts, MasterFileTorn, Fault, NewCode, targetVars, wstoreVars
  <2> QED
    BY <2>1, <2>2, <2>3, <2>4 DEF IInv
<1> QED
  BY <1>1, <1>2, <1>3, <1>4, <1>5 DEF Faults

(* The master's process is stopped, killed and run again. *)
LEMMA ProcessIInv ==
  ASSUME IInv, MasterUser \/ MasterStops
  PROVE  IInv'
<1>1. CASE MasterStarts
  BY <1>1, PairingAssumption
  DEF IInv, TypeOK, StoresSound, ProgressSound, NoFault, Phases, InExchange,
      MasterStarts, workerVars, targetVars, wstoreVars
<1>2. CASE MasterRepairs
  BY <1>2, PairingAssumption
  DEF IInv, TypeOK, StoresSound, ProgressSound, NoFault, Phases, InExchange,
      MasterRepairs, workerVars, targetVars, wstoreVars
<1>3. CASE MasterStops
  <2>1. TypeOK'
    <3>1. phase' \in [Workers -> Phases] /\ current' \in [Workers -> BOOLEAN] /\ faults' \in 0..MaxFaults
      BY <1>3, PairingAssumption DEF IInv, TypeOK, Phases,
          MasterStops, MasterInserts, MasterFileTorn, Fault, NewCode, targetVars, wstoreVars
    <3> QED
      BY <1>3, <3>1 DEF IInv, TypeOK, MasterStops, MasterInserts, MasterFileTorn, Fault, NewCode, targetVars, wstoreVars
  <2>2. StoresSound'
    BY <1>3, PairingAssumption
    DEF IInv, TypeOK, StoresSound,
        MasterStops, MasterInserts, MasterFileTorn, Fault, NewCode, targetVars, wstoreVars
  <2>3. ProgressSound'
    BY <1>3, PairingAssumption
    DEF IInv, TypeOK, StoresSound, ProgressSound,
        MasterStops, MasterInserts, MasterFileTorn, Fault, NewCode, targetVars, wstoreVars
  <2>4. (faults = 0 => NoFault)'
    BY <1>3, PairingAssumption
    DEF IInv, TypeOK, StoresSound, ProgressSound, NoFault, InExchange,
        MasterStops, MasterInserts, MasterFileTorn, Fault, NewCode, targetVars, wstoreVars
  <2> QED
    BY <2>1, <2>2, <2>3, <2>4 DEF IInv
<1> QED
  BY <1>1, <1>2, <1>3 DEF MasterUser

LEMMA StepIInv == IInv /\ [Next]_vars => IInv'
<1> SUFFICES ASSUME IInv, [Next]_vars PROVE IInv'
  OBVIOUS
<1>1. CASE UNCHANGED vars
  BY <1>1
  DEF IInv, TypeOK, StoresSound, ProgressSound, NoFault, InExchange,
      vars, workerVars, targetVars, wstoreVars, masterVars, mstoreVars
<1>2. ASSUME NEW w \in Workers,
             \/ WorkerUser(w) \/ WorkerLoop(w) \/ WorkerHalf(w) \/ Introduced(w)
             \/ MasterHalf(w) \/ Faults(w)
      PROVE  IInv'
  BY <1>2, UserIInv, LoopIInv, WorkerIInv, MasterIInv, FaultIInv
<1>3. CASE MasterUser \/ MasterStops
  BY <1>3, ProcessIInv
<1> QED
  BY <1>1, <1>2, <1>3 DEF Next

(* The inductive invariant holds of every state the two programs reach. *)
THEOREM Invariance == Spec => []IInv
  BY InitIInv, StepIInv, PTL DEF Spec

(* Type correctness: every variable keeps its shape, and a master that     *)
(* runs admits every device its trust file names (trust.rs insert).        *)
THEOREM TypeCorrect == Spec => []TypeOK
<1>1. IInv => TypeOK
  BY DEF IInv
<1> QED
  BY <1>1, Invariance, PTL

(* Once exchange has returned Ok on one side (pairing_session.rs), both    *)
(* know each other while they run, and each finds the other in its trust   *)
(* file if that parses - whatever is lost, times out, restarts or fails to *)
(* be written later, until a user has to remove a torn file.               *)
THEOREM OkMeansBothSavedHolds == Spec => []OkMeansBothSaved
<1>1. IInv => OkMeansBothSaved
  BY DEF IInv, TypeOK, ProgressSound, OkMeansBothSaved
<1> QED
  BY <1>1, Invariance, PTL

(* Without a fault, no device outside an exchange has a master in its file *)
(* that does not have it in its own, or the other way round.               *)
THEOREM NoFaultNoSplitHolds == Spec => []NoFaultNoSplit
<1>1. IInv => NoFaultNoSplit
  BY DEF IInv, NoFault, NoFaultNoSplit
<1> QED
  BY <1>1, Invariance, PTL
=============================================================================
