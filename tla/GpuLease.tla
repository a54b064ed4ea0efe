------------------------------ MODULE GpuLease ------------------------------
(***************************************************************************)
(* What a GPU worker promises, without processes, ports or permits: the    *)
(* GPU is used by nobody or by the one device registered as the master,    *)
(* and losing the registration ends the use in the same step.              *)
(***************************************************************************)
CONSTANTS Devices,   \* the paired devices
          NoDevice   \* "no device": not a member of Devices

VARIABLES master,    \* the registered master
          user       \* the device whose session reaches the GPU

leaseVars == <<master, user>>

LeaseInit == master = NoDevice /\ user = NoDevice

Register(d) ==
  /\ master = NoDevice
  /\ master' = d
  /\ UNCHANGED user

(* Revocation is immediate: no step separates it from the end of the use.  *)
Unregister ==
  /\ master # NoDevice
  /\ master' = NoDevice
  /\ user' = NoDevice

Grant ==
  /\ master # NoDevice
  /\ user = NoDevice
  /\ user' = master
  /\ UNCHANGED master

End ==
  /\ user # NoDevice
  /\ user' = NoDevice
  /\ UNCHANGED master

LeaseNext == (\E d \in Devices : Register(d)) \/ Unregister \/ Grant \/ End

LeaseSpec == LeaseInit /\ [][LeaseNext]_leaseVars
=============================================================================
