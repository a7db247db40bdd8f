--------------------------------- MODULE Host ---------------------------------
(***************************************************************************)
(* The host program's side of an SSD (bam/include/ctrl.h and the library    *)
(* under it): its threads make and give back handles (DmaHandle) and send   *)
(* admin commands through the admin queue reference (AdminQueue).           *)
(*                                                                         *)
(* The program keeps to its part: it uses no handle it has given back.      *)
(***************************************************************************)
EXTENDS AdminQueue, DmaHandle

ASSUME HostAssumption == Callers = Threads

Init == AdminInit /\ HandleInit

\* A thread is in one call at a time.
Idle(t) == stage[t] = "idle"

\* A call on a handle; nvm_aq_destroy waits for the reference's lock.
HandleCall(t) ==
  /\ Idle(t)
  /\ HandleStep(t)
  /\ lock # NoOne => aq' = aq
  /\ UNCHANGED adminVars

RpcCall(t) ==
  /\ todo[t] = <<>> /\ aq = "live"
  /\ Rpc(t)
  /\ UNCHANGED handleVars

Controller == (Fetch \/ Complete) /\ UNCHANGED handleVars

Next == Controller \/ \E t \in Threads : HandleCall(t) \/ RpcCall(t)

vars == <<adminVars, handleVars>>

Spec == Init /\ [][Next]_vars
------------------------------------------------------------------------------
\* While a call waits for the controller or copies its answer, the queue memory
\* is mapped and the registers are, even if the window and the controller handle
\* were given back before: the reference holds both.
QueueStaysMapped ==
  \A t \in Threads : ~Idle(t) =>
    aq = "live" /\ va[MapOf[Queue]] /\ freed[MapOf[Queue]] = 0 /\ device
==============================================================================
