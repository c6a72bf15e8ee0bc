------------------------------- MODULE OpenFiles -------------------------------
(***************************************************************************)
(* What the HAL's system calls promise about open files: a descriptor      *)
(* stands for one device from the open that returned it to its close,      *)
(* whatever happens to the others; the standard ones stay open for good;   *)
(* and a device is locked by one descriptor at most, which keeps others    *)
(* from opening it until it lets go.  That a lock is only granted when no  *)
(* other descriptor shares the device is promised too, but not kept, and   *)
(* so not stated here but in Files, as LockIsExclusive.                    *)
(***************************************************************************)
CONSTANTS Handles, Standard,    \* descriptors, the standard ones among them
          Devices, NoDev, NoHandle

VARIABLES device,       \* of each descriptor, or NoDev
          holder        \* of each device's lock, or NoHandle

vars == <<device, holder>>

Init == /\ device \in [Handles -> Devices \union {NoDev}]
        /\ \A h \in Handles : device[h] # NoDev <=> h \in Standard
        /\ holder = [d \in Devices |-> NoHandle]

Open(h, d) ==
  /\ device[h] = NoDev /\ holder[d] = NoHandle
  /\ device' = [device EXCEPT ![h] = d]
  /\ UNCHANGED holder

\* Start-up directs a standard descriptor elsewhere.
Redirect(h, d) ==
  /\ h \in Standard /\ holder = [e \in Devices |-> NoHandle]
  /\ device' = [device EXCEPT ![h] = d]
  /\ UNCHANGED holder

Close(h) ==
  /\ h \notin Standard /\ device[h] # NoDev
  /\ device' = [device EXCEPT ![h] = NoDev]
  /\ holder' = [d \in Devices |-> IF holder[d] = h THEN NoHandle ELSE holder[d]]

Lock(h) ==
  /\ device[h] # NoDev /\ holder[device[h]] = NoHandle
  /\ holder' = [holder EXCEPT ![device[h]] = h]
  /\ UNCHANGED device

Unlock(h) ==
  /\ device[h] # NoDev /\ holder[device[h]] = h
  /\ holder' = [holder EXCEPT ![device[h]] = NoHandle]
  /\ UNCHANGED device

Next == \E h \in Handles : \/ \E d \in Devices : Open(h, d) \/ Redirect(h, d)
                           \/ Close(h) \/ Lock(h) \/ Unlock(h)

Spec == Init /\ [][Next]_vars
================================================================================
