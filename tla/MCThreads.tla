----------------------------- MODULE MCThreads -----------------------------
(* The readers-writers lock; the threads that the interface starts for     *)
(* each client (IFaceConnection); and of the kernel build the delayer and  *)
(* the device.  They share no state here: a behaviour is one of the        *)
(* component that part names, and the others rest.                         *)
EXTENDS RWLock, IFaceConnection, KernelDelayer, KernelDevice

CONSTANT Parts  \* the components to be checked

VARIABLE part

(* Replies of two integers, and the one to end_connection.                 *)
MCScript == <<2, 1>>

-----------------------------------------------------------------------------
allVars == <<part, vars, connectionVars, delayerVars, deviceVars>>

PartsInit == part \in Parts /\ Init /\ ConnectionInit /\ DelayerInit /\ DeviceInit

AllButLock == <<part, connectionVars, delayerVars, deviceVars>>
AllButConnection == <<part, vars, delayerVars, deviceVars>>

LockStep == part = "rwlock" /\ Next /\ UNCHANGED AllButLock
ConnectionStep == part = "connection" /\ ConnectionNext /\ UNCHANGED AllButConnection
KernelDelayerStep ==
  /\ part = "kernel_delayer" /\ DelayerNext
  /\ UNCHANGED <<part, vars, connectionVars, deviceVars>>
KernelDeviceStep ==
  /\ part = "kernel_device" /\ DeviceNext
  /\ UNCHANGED <<part, vars, connectionVars, delayerVars>>

PartsNext == LockStep \/ ConnectionStep \/ KernelDelayerStep \/ KernelDeviceStep

(* The fairness of RWLock and of IFaceConnection, each for its own part.   *)
Locking == part = "rwlock" /\ UNCHANGED AllButLock
Connecting == part = "connection" /\ ~ killed /\ UNCHANGED AllButConnection

PartsSpec ==
  /\ PartsInit /\ [][PartsNext]_allVars
  /\ \A t \in Readers : WF_allVars(Locking /\ (UpRead(t) \/ DownReadResume(t)
                                                 \/ DownReadWaitAgain(t)))
  /\ \A t \in Writers : WF_allVars(Locking /\ (UpWrite(t) \/ DownWriteResume(t)
                                                 \/ DownWriteWaitAgain(t)))
  /\ WF_allVars(Connecting /\ IfaceStep)
  /\ WF_allVars(Connecting /\ ClientStep)
  /\ \A t \in ConnThreads : WF_allVars(Connecting /\ PollConnStep(t))
                            /\ WF_allVars(Connecting /\ WritePollStep(t))
=============================================================================
