------------------------------ MODULE PageStore ------------------------------
(***************************************************************************)
(* What the page cache of bam/include/page_cache.h promises to the GPU     *)
(* threads that index an array_d_t: every element behaves as one word of   *)
(* memory.  A thread names a page, reads, writes or exchanges its content  *)
(* in one indivisible step, any number of times, and lets go of it.        *)
(* Nothing here knows of slots, evictions, controllers or I/O.             *)
(***************************************************************************)
CONSTANTS
  Threads,   \* groups of lanes of a warp that access one page together
  Pages,     \* logical pages of the ranges
  Values,    \* contents of a page
  NoPage     \* the page of a thread that accesses none

VARIABLES
  mem,       \* content of every page
  asked,     \* page a thread has asked for
  got        \* last content a thread was given

storeVars == <<mem, asked, got>>

Init ==
  /\ mem \in [Pages -> Values]
  /\ asked = [t \in Threads |-> NoPage]
  /\ got \in [Threads -> Values]

Ask(t, p) ==
  /\ asked[t] = NoPage
  /\ asked' = [asked EXCEPT ![t] = p]
  /\ UNCHANGED <<mem, got>>

Read(t) ==
  /\ asked[t] \in Pages
  /\ got' = [got EXCEPT ![t] = mem[asked[t]]]
  /\ UNCHANGED <<mem, asked>>

Write(t, v) ==
  /\ asked[t] \in Pages
  /\ mem' = [mem EXCEPT ![asked[t]] = v]
  /\ UNCHANGED <<asked, got>>

Exchange(t, v) ==
  /\ asked[t] \in Pages
  /\ got' = [got EXCEPT ![t] = mem[asked[t]]]
  /\ mem' = [mem EXCEPT ![asked[t]] = v]
  /\ UNCHANGED asked

LetGo(t) ==
  /\ asked[t] \in Pages
  /\ asked' = [asked EXCEPT ![t] = NoPage]
  /\ UNCHANGED <<mem, got>>

Next ==
  \E t \in Threads :
    \/ \E p \in Pages : Ask(t, p)
    \/ \E v \in Values : Write(t, v) \/ Exchange(t, v)
    \/ Read(t)
    \/ LetGo(t)

Spec == Init /\ [][Next]_storeVars
==============================================================================
