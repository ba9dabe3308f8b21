------------------------------ MODULE AbReclaim ------------------------------
(***************************************************************************)
(* What the epoch scheme of abuf/ab_mem.c promises its clients, the        *)
(* lock-free containers: an item that was unlinked and given to            *)
(* ab_mem_free is not handed out again before every thread that was        *)
(* between ab_mem_epoch_enter and ab_mem_epoch_leave when the item was     *)
(* unlinked has called ab_mem_epoch_leave.  Nothing here says how.         *)
(***************************************************************************)
CONSTANTS Threads,   \* the threads that use the pool
          Items      \* the items of the pool

VARIABLES inside,    \* threads between epoch_enter and epoch_leave
          state,     \* state[x]: "free", "linked" or "retired"
          guards     \* guards[x]: threads that may still hold a pointer to x

vars == <<inside, state, guards>>

(* The pool's items are free or already linked into the container.         *)
Init ==
  /\ inside = {}
  /\ state \in [Items -> {"free", "linked"}]
  /\ guards = [x \in Items |-> {}]

Enter(t) ==
  /\ t \notin inside
  /\ inside' = inside \cup {t}
  /\ UNCHANGED <<state, guards>>

(* A thread that leaves gives up every pointer it had. *)
Leave(t) ==
  /\ t \in inside
  /\ inside' = inside \ {t}
  /\ guards' = [x \in Items |-> guards[x] \ {t}]
  /\ UNCHANGED state

(* A thread that did not leave enters again: the pointers of its last call *)
(* are gone.                                                               *)
Reenter(t) ==
  /\ t \in inside
  /\ guards' = [x \in Items |-> guards[x] \ {t}]
  /\ UNCHANGED <<inside, state>>

(* ab_mem_alloc hands x out and the caller links it. *)
Publish(x) ==
  /\ state[x] = "free"
  /\ state' = [state EXCEPT ![x] = "linked"]
  /\ UNCHANGED <<inside, guards>>

(* x is unlinked: whoever is inside may have read a pointer to it. *)
Retire(x) ==
  /\ state[x] = "linked"
  /\ state' = [state EXCEPT ![x] = "retired"]
  /\ guards' = [guards EXCEPT ![x] = inside]
  /\ UNCHANGED inside

(* The promise: x becomes free only when no guard is left. *)
Reclaim(x) ==
  /\ state[x] = "retired"
  /\ guards[x] = {}
  /\ state' = [state EXCEPT ![x] = "free"]
  /\ UNCHANGED <<inside, guards>>

Next ==
  \/ \E t \in Threads : Enter(t) \/ Leave(t) \/ Reenter(t)
  \/ \E x \in Items : Publish(x) \/ Retire(x) \/ Reclaim(x)

Spec == Init /\ [][Next]_vars
==============================================================================
