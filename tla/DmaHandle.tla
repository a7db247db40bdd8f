------------------------------ MODULE DmaHandle ------------------------------
(***************************************************************************)
(* The reference counts of the host library: the controller handle          *)
(* (bam/src/ctrl.cpp), the mapping descriptors that DMA handles share       *)
(* (bam/src/dma.cpp), and the admin queue reference, which holds one of     *)
(* each (bam/src/rpc.cpp).  Behind a mapping descriptor are pages that the  *)
(* kernel module pins for the thread that asks (bam/module/map.c).          *)
(*                                                                         *)
(* A section under a mutex is one step.  What a thread still has to do of a *)
(* call, after such a section, is its list "todo".                          *)
(***************************************************************************)
EXTENDS Integers, Sequences

CONSTANTS
  Threads,
  Maps,     \* mapping descriptors
  Handles,  \* DMA handles the program makes, each once
  MapOf,    \* mapping descriptor of each handle
  Window,   \* handle of the admin queue's memory
  Queue,    \* the handle nvm_aq_create makes of it
  Owner,    \* thread that makes and unmaps each handle; the admin queue reference
            \* is made and destroyed by the owner of Queue
  Main,     \* thread that frees the controller handle
  Nobody    \* owner of no mapping of the kernel module

ASSUME HandleAssumption ==
  /\ {Window, Queue} \subseteq Handles
  /\ MapOf \in [Handles -> Maps]
  /\ Window # Queue /\ MapOf[Window] = MapOf[Queue]
  /\ \A h, i \in Handles \ {Queue} : MapOf[h] = MapOf[i] => h = i
  /\ Owner \in [Handles -> Threads]
  /\ Main \in Threads /\ Nobody \notin Threads

VARIABLES
  count,    \* controller::count
  device,   \* whether the device is open (controller::device)
  removed,  \* times remove_handle freed the controller
  opened,   \* whether the program still has its nvm_ctrl_t
  uses,     \* map::count of each mapping descriptor
  va,       \* whether map::va is not NULL
  pinned,   \* the kernel's mapping of each descriptor's range: its owner, or Nobody
  freed,    \* times each mapping descriptor was freed
  handle,   \* none, live or gone, for each handle
  aq,       \* none, live or gone: the admin queue reference
  todo      \* what each thread has still to do of its call

handleVars == <<count, device, removed, opened, uses, va, pinned, freed,
                handle, aq, todo>>

HandleInit ==
  /\ count = 1
  /\ device = TRUE
  /\ removed = 0
  /\ opened = TRUE
  /\ uses = [m \in Maps |-> 0]
  /\ va = [m \in Maps |-> FALSE]
  /\ pinned = [m \in Maps |-> Nobody]
  /\ freed = [m \in Maps |-> 0]
  /\ handle = [h \in Handles |-> "none"]
  /\ aq = "none"
  /\ todo = [t \in Threads |-> <<>>]

Step(op, m) == [op |-> op, map |-> m]

\* put_map: a section under the map's lock, then the test of va.
PutMap(m) == <<Step("put_map", m), Step("test_va", m)>>

CtrlPut(m) == <<Step("ctrl_put", m)>>

\* remove_map: gives the controller back, then frees the descriptor.
RemoveMap(m) == CtrlPut(m) \o <<Step("free_map", m)>>

\* A call begins with the steps s.
Begin(t, s) == todo[t] = <<>> /\ todo' = [todo EXCEPT ![t] = s]

Doing(t, op) == todo[t] # <<>> /\ Head(todo[t]).op = op

\* The thread's next step is replaced by the steps s.
Continue(t, s) == todo' = [todo EXCEPT ![t] = s \o Tail(@)]

\* Fault: a mapping does not take the controller.
CtrlTakenNot == count

\* _nvm_ctrl_get
CtrlTaken == count + 1

\* nvm_dma_map and _nvm_dma_init: create_map, which takes the controller, and then
\* the handle.
dma_map(t, h) ==
  /\ t = Owner[h] /\ h # Queue /\ opened
  /\ handle[h] = "none"
  /\ Begin(t, <<Step("map", h)>>)
  /\ count' = CtrlTaken
  /\ uses' = [uses EXCEPT ![MapOf[h]] = 1]
  /\ va' = [va EXCEPT ![MapOf[h]] = TRUE]
  /\ UNCHANGED <<pinned, device, removed, opened, freed, handle, aq>>

\* The kernel pins the range for the calling thread and the handle is made, or
\* remove_map undoes create_map.
Mapped(t) ==
  /\ Doing(t, "map")
  /\ LET h == Head(todo[t]).map
         m == MapOf[h]
     IN \/ /\ handle' = [handle EXCEPT ![h] = "live"]
           /\ pinned' = [pinned EXCEPT ![m] = t]
           /\ Continue(t, <<>>)
           /\ UNCHANGED va
        \/ /\ handle' = [handle EXCEPT ![h] = "gone"]
           /\ va' = [va EXCEPT ![m] = FALSE]
           /\ Continue(t, RemoveMap(m))
           /\ UNCHANGED pinned
  /\ UNCHANGED <<count, device, removed, opened, uses, freed, aq>>

\* Fault: the reference uses the window without taking it.
TakenNot == uses

\* get_map of nvm_dma_remap.
TakenWindow == [uses EXCEPT ![MapOf[Window]] = @ + 1]

\* nvm_aq_create: _nvm_ref_get takes the controller.
aq_create(t) ==
  /\ t = Owner[Queue] /\ opened
  /\ aq = "none" /\ handle[Window] = "live"
  /\ Begin(t, <<Step("get_map", MapOf[Window])>>)
  /\ count' = CtrlTaken
  /\ aq' = "making"
  /\ UNCHANGED <<pinned, device, removed, opened, uses, va, freed, handle>>

\* create_admin: nvm_dma_remap of the window, which takes its map; a failure before
\* or after that gives back what was taken.
Remapped(t) ==
  /\ Doing(t, "get_map")
  /\ LET m == Head(todo[t]).map IN
     \/ /\ uses' = TakenWindow
        /\ handle' = [handle EXCEPT ![Queue] = "live"]
        /\ aq' = "live"
        /\ Continue(t, <<>>)
     \/ /\ uses' = TakenWindow
        /\ aq' = "gone"
        /\ Continue(t, PutMap(m) \o CtrlPut(m))
        /\ UNCHANGED handle
     \/ /\ aq' = "gone"
        /\ Continue(t, CtrlPut(m))
        /\ UNCHANGED <<uses, handle>>
  /\ UNCHANGED <<pinned, count, device, removed, opened, va, freed>>

\* nvm_aq_destroy: _nvm_ref_put releases the queue memory, then the controller.
aq_destroy(t) ==
  /\ t = Owner[Queue] /\ aq = "live"
  /\ Begin(t, PutMap(MapOf[Queue]) \o CtrlPut(MapOf[Queue]))
  /\ aq' = "gone"
  /\ handle' = [handle EXCEPT ![Queue] = "gone"]
  /\ UNCHANGED <<pinned, count, device, removed, opened, uses, va, freed>>

\* nvm_dma_unmap; the window is not unmapped while it is being mapped again.
dma_unmap(t, h) ==
  /\ t = Owner[h] /\ h # Queue
  /\ handle[h] = "live"
  /\ h = Window => aq # "making"
  /\ Begin(t, PutMap(MapOf[h]))
  /\ handle' = [handle EXCEPT ![h] = "gone"]
  /\ UNCHANGED <<pinned, count, device, removed, opened, uses, va, freed, aq>>

\* nvm_ctrl_free: the program gives back its own reference.
ctrl_free(t) ==
  /\ t = Main /\ opened
  /\ Begin(t, CtrlPut(MapOf[Window]))
  /\ opened' = FALSE
  /\ UNCHANGED <<pinned, count, device, removed, uses, va, freed, handle, aq>>

\* NVM_UNMAP_MEMORY: map_find looks among the mappings of the calling thread only,
\* and without one the request fails, which is only printed.
Unmapped(t, m) == IF pinned[m] = t THEN [pinned EXCEPT ![m] = Nobody] ELSE pinned

\* put_map under the lock: the last user unmaps and releases the range.
put_map(t) ==
  /\ Doing(t, "put_map")
  /\ LET m == Head(todo[t]).map IN
     /\ uses' = [uses EXCEPT ![m] = @ - 1]
     /\ va' = [va EXCEPT ![m] = @ /\ uses[m] # 1]
     /\ pinned' = IF uses[m] = 1 THEN Unmapped(t, m) ELSE pinned
  /\ Continue(t, <<>>)
  /\ UNCHANGED <<count, device, removed, opened, freed, handle, aq>>

\* Fault: the range is unmapped, but nobody removes the descriptor.
NothingAfter(m) == <<>>

\* What put_map does after the lock: with va NULL, remove_map.
AfterLock(m) == IF va[m] THEN <<>> ELSE RemoveMap(m)

test_va(t) ==
  /\ Doing(t, "test_va")
  /\ Continue(t, AfterLock(Head(todo[t]).map))
  /\ UNCHANGED <<count, device, removed, opened, uses, va, pinned, freed, handle, aq>>

free_map(t) ==
  /\ Doing(t, "free_map")
  /\ freed' = [freed EXCEPT ![Head(todo[t]).map] = @ + 1]
  /\ Continue(t, <<>>)
  /\ UNCHANGED <<pinned, count, device, removed, opened, uses, va, handle, aq>>

\* _nvm_ctrl_put under the lock: the last user releases the device and goes on to
\* remove_handle, because its own subtraction reached zero.
ctrl_put(t) ==
  /\ Doing(t, "ctrl_put")
  /\ count' = count - 1
  /\ device' = (device /\ count' # 0)
  /\ Continue(t, IF count' = 0 THEN <<Step("remove", Head(todo[t]).map)>> ELSE <<>>)
  /\ UNCHANGED <<pinned, removed, opened, uses, va, freed, handle, aq>>

remove_handle(t) ==
  /\ Doing(t, "remove")
  /\ removed' = removed + 1
  /\ Continue(t, <<>>)
  /\ UNCHANGED <<pinned, count, device, opened, uses, va, freed, handle, aq>>

HandleStep(t) ==
  \/ \E h \in Handles : dma_map(t, h) \/ dma_unmap(t, h)
  \/ aq_create(t) \/ aq_destroy(t) \/ ctrl_free(t)
  \/ Mapped(t) \/ Remapped(t)
  \/ put_map(t) \/ test_va(t) \/ free_map(t) \/ ctrl_put(t) \/ remove_handle(t)
------------------------------------------------------------------------------
Live == {h \in Handles : handle[h] = "live"}

\* Whoever has a handle has what is behind it: the range of a DMA handle stays
\* pinned, and the device open, until the last handle of the range is unmapped,
\* also when the controller handle was freed before.
LiveIsMapped ==
  /\ \A h \in Live :
       va[MapOf[h]] /\ pinned[MapOf[h]] # Nobody /\ freed[MapOf[h]] = 0
  /\ (opened \/ aq = "live" \/ Live # {}) => device /\ removed = 0

\* Nothing is freed twice, or used by a call that is under way after it was freed.
FreedOnce ==
  /\ removed <= 1
  /\ \A m \in Maps : freed[m] <= 1
  /\ \A t \in Threads : todo[t] # <<>> =>
       /\ Head(todo[t]).op \in {"put_map", "test_va", "free_map"} =>
            freed[Head(todo[t]).map] = 0
       /\ Head(todo[t]).op \in {"ctrl_put", "remove"} => removed = 0

\* When every handle has been given back and no call is under way, the device is
\* closed, every descriptor freed and no page pinned, whichever calls failed.
NothingLeaks ==
  (~opened /\ aq \notin {"making", "live"} /\ Live = {}
     /\ \A t \in Threads : todo[t] = <<>>) =>
    /\ removed = 1 /\ ~device
    /\ \A m \in Maps : pinned[m] = Nobody
    /\ \A h \in Handles \ {Queue} : handle[h] = "gone" => freed[MapOf[h]] = 1
==============================================================================
