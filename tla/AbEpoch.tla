------------------------------- MODULE AbEpoch -------------------------------
(***************************************************************************)
(* The epoch-based reclamation of abuf/ab_mem.c: ab_mem_epoch_enter,       *)
(* ab_mem_epoch_leave, the thread-safe branch of ab_mem_free,              *)
(* ab_mem_epoch_increase and ab_mem_epoch_gc, one action per access to     *)
(* shared memory.                                                          *)
(*                                                                         *)
(* The client is any container that uses the pool as abuf/ab_list.c does:  *)
(* inside enter/leave a thread links items it allocated, unlinks linked    *)
(* items and passes an unlinked item to ab_mem_free.  A thread may hold a  *)
(* pointer to whatever was linked since it entered, so mayHold[x], the     *)
(* threads that were inside when x was unlinked, over-approximates the     *)
(* pointers that are left to x.                                            *)
(*                                                                         *)
(* Memory is x86-TSO, the target of the inline mfence of ab_os.h: the      *)
(* store to local_epoches, the only one another thread reads that no       *)
(* barrier follows (ab_mem.c:328-331), stays in a store buffer until Flush *)
(* or until the thread executes a locked instruction.  The lists           *)
(* free_head and epoch_head[] are sets here; AbFreeList models the CAS     *)
(* loops that work on them.                                                *)
(***************************************************************************)
EXTENDS Integers

CONSTANTS N,             \* number of threads; their ids are 0..N-1
          Items,         \* the items of the pool
          NoItem,        \* NULL
          Linked0,       \* items in the container at the start
          TickPeriod,    \* frees per attempt to increase the epoch: 256
          MaxEpoch,      \* bound: no item is unlinked in a later epoch
          Careless,      \* threads whose calls may return without leaving
          ThreadCount0   \* thread_count at the start: 0 in a new pool, N
                         \* once every thread has been counted

ASSUME NAssumption == N \in Nat \ {0}
ASSUME ItemAssumption == NoItem \notin Items /\ Linked0 \subseteq Items
ASSUME TickAssumption == TickPeriod \in Nat \ {0}
ASSUME EpochAssumption == MaxEpoch \in Nat
ASSUME CarelessAssumption == Careless \subseteq 0 .. N - 1
ASSUME CountAssumption == ThreadCount0 \in 0..N

Threads == 0 .. N - 1
MAX_EPOCH_LIST == 4

VARIABLES
  thread_count,    \* how many threads a scan looks at
  global_epoch,
  local_epoches,   \* per thread: the epoch it entered in, as others see it
  active_flags,    \* per thread: 1 between enter and leave
  logic_tick,      \* frees so far, modulo TickPeriod
  place,           \* per item: which list or whose hands it is in
  stamp,           \* per item in "limbo": cur_epoch of the ab_mem_free that
                   \* put it into epoch_head[stamp % MAX_EPOCH_LIST]
  pc,              \* per thread: the next access to shared memory
  snap,            \* per thread: value stored into its local_epoches
  unflushed,       \* per thread: that store is still in the store buffer
  item,            \* per thread: argument of ab_mem_free, or item of the gc
  cur_epoch,       \* per thread: local of ab_mem_free
  ge,              \* per thread: global_epoch local of epoch_increase
  i,               \* per thread: loop index of epoch_increase
  slot,            \* per thread: index of the list ab_mem_epoch_gc drains
  inside,          \* history: threads that have returned from epoch_enter
                   \* and not called epoch_leave since
  mayHold          \* history, per item: threads that may hold a pointer

epochVars == <<thread_count, global_epoch, local_epoches, active_flags,
               logic_tick>>
itemVars == <<place, stamp, mayHold>>
enterVars == <<snap, unflushed>>
freeVars == <<item, cur_epoch>>
scanVars == <<ge, i, slot>>
vars == <<epochVars, itemVars, pc, inside, enterVars, freeVars, scanVars>>

Places == {"free",      \* in free_head
           "linked",    \* in the container
           "unlinked",  \* out of the container, in the hands of one thread
           "limbo",     \* in epoch_head[stamp % MAX_EPOCH_LIST]
           "collected"} \* popped by the gc, not yet put to free_head

InPCs == {"in", "free_read", "free_push", "tick_add", "tick_test", "inc_read",
          "scan_count", "scan_flag", "scan_local", "inc_cas", "gc_read",
          "gc_pop", "gc_put", "leave_set", "leave_flag"}
PCs == InPCs \cup {"idle", "enter_set", "enter_flag", "enter_read"}
GcPCs == {"gc_pop", "gc_put"}

(* The items of epoch_head[k]. *)
EpochList(k) == {x \in Items : place[x] = "limbo"
                               /\ stamp[x] % MAX_EPOCH_LIST = k}

Init ==
  /\ thread_count = ThreadCount0
  /\ global_epoch = 0
  /\ local_epoches = [t \in Threads |-> 0]
  /\ active_flags = [t \in Threads |-> 0]
  /\ logic_tick \in 0 .. TickPeriod - 1   \* ab_mem_init does not set it
  /\ place = [x \in Items |-> IF x \in Linked0 THEN "linked" ELSE "free"]
  /\ stamp = [x \in Items |-> 0]
  /\ mayHold = [x \in Items |-> {}]
  /\ inside = {}
  /\ pc = [t \in Threads |-> "idle"]
  /\ snap = [t \in Threads |-> 0]
  /\ unflushed = [t \in Threads |-> FALSE]
  /\ item = [t \in Threads |-> NoItem]
  /\ cur_epoch = [t \in Threads |-> 0]
  /\ ge = [t \in Threads |-> 0]
  /\ i = [t \in Threads |-> 0]
  /\ slot = [t \in Threads |-> 0]

Goto(t, from, to) == pc[t] = from /\ pc' = [pc EXCEPT ![t] = to]

(* A locked instruction or an mfence waits for the store buffer.           *)
Drained(t) == ~unflushed[t]

-----------------------------------------------------------------------------
(* ab_mem_epoch_enter                                                      *)

(* thread_id: has this thread been counted? *)
Enter(t) ==
  /\ Goto(t, "idle", IF thread_count < t + 1 THEN "enter_set" ELSE "enter_flag")
  /\ UNCHANGED <<inside, epochVars, itemVars, enterVars, freeVars, scanVars>>

(* Mutant: the count becomes the id, not one more. *)
EnterSetId(t) ==
  /\ Goto(t, "enter_set", "enter_flag")
  /\ thread_count' = t
  /\ UNCHANGED <<inside, global_epoch, local_epoches, active_flags, logic_tick,
                 itemVars, enterVars, freeVars, scanVars>>

(* The count is set after the test, without a CAS. *)
EnterSet(t) ==
  /\ Goto(t, "enter_set", "enter_flag")
  /\ thread_count' = t + 1
  /\ UNCHANGED <<inside, global_epoch, local_epoches, active_flags, logic_tick,
                 itemVars, enterVars, freeVars, scanVars>>

(* The flag is stored and the mfence makes it visible. *)
EnterFlag(t) ==
  /\ Drained(t)
  /\ Goto(t, "enter_flag", "enter_read")
  /\ active_flags' = [active_flags EXCEPT ![t] = 1]
  /\ UNCHANGED <<inside, thread_count, global_epoch, local_epoches, logic_tick,
                 itemVars, enterVars, freeVars, scanVars>>

(* The global epoch is read; the store to local_epoches is buffered.  A    *)
(* thread that had not left, see Abandon, has no pointer of its last call. *)
EnterRead(t) ==
  /\ Goto(t, "enter_read", "in")
  /\ snap' = [snap EXCEPT ![t] = global_epoch]
  /\ unflushed' = [unflushed EXCEPT ![t] = TRUE]
  /\ inside' = inside \cup {t}
  /\ mayHold' = [x \in Items |-> mayHold[x] \ {t}]
  /\ UNCHANGED <<epochVars, place, stamp, freeVars, scanVars>>

(* The store to local_epoches becomes visible. *)
Flush(t) ==
  /\ unflushed[t]
  /\ local_epoches' = [local_epoches EXCEPT ![t] = snap[t]]
  /\ unflushed' = [unflushed EXCEPT ![t] = FALSE]
  /\ UNCHANGED <<inside, thread_count, global_epoch, active_flags, logic_tick,
                 itemVars, pc, snap, freeVars, scanVars>>

-----------------------------------------------------------------------------
(* ab_mem_epoch_leave                                                      *)

(* thread_id again, before the flag is cleared. *)
Leave(t) ==
  /\ Goto(t, "in", IF thread_count < t + 1 THEN "leave_set" ELSE "leave_flag")
  /\ UNCHANGED <<inside, epochVars, itemVars, enterVars, freeVars, scanVars>>

LeaveSet(t) ==
  /\ Goto(t, "leave_set", "leave_flag")
  /\ thread_count' = t + 1
  /\ UNCHANGED <<inside, global_epoch, local_epoches, active_flags, logic_tick,
                 itemVars, enterVars, freeVars, scanVars>>

(* Stores drain in order, so local_epoches is visible before the flag is   *)
(* cleared.  That store may be delayed too, until the fence of the next    *)
(* enter: a leave that takes effect late is a thread that leaves late.     *)
LeaveFlag(t) ==
  /\ Drained(t)
  /\ Goto(t, "leave_flag", "idle")
  /\ active_flags' = [active_flags EXCEPT ![t] = 0]
  /\ snap' = [snap EXCEPT ![t] = 0]
  /\ inside' = inside \ {t}
  /\ mayHold' = [x \in Items |-> mayHold[x] \ {t}]
  /\ UNCHANGED <<thread_count, global_epoch, local_epoches, logic_tick, place,
                 stamp, unflushed, freeVars, scanVars>>

(* A call that returns without ab_mem_epoch_leave, as ab_list_get does on   *)
(* an empty list: the flag stays up until the thread's next call.          *)
Abandon(t) ==
  /\ t \in Careless
  /\ Goto(t, "in", "idle")
  /\ UNCHANGED <<inside, epochVars, itemVars, enterVars, freeVars, scanVars>>

-----------------------------------------------------------------------------
(* The container: what ab_list.c does between enter and leave.             *)

(* A free item is allocated and linked. *)
Publish(t, x) ==
  /\ Drained(t)
  /\ pc[t] = "in"
  /\ place[x] = "free"
  /\ place' = [place EXCEPT ![x] = "linked"]
  /\ UNCHANGED <<inside, epochVars, stamp, mayHold, pc, enterVars, freeVars,
                 scanVars>>

(* A linked item is unlinked by a CAS and passed to ab_mem_free.           *)
Unlink(t, x) ==
  /\ Drained(t)
  /\ global_epoch < MaxEpoch
  /\ Goto(t, "in", "free_read")
  /\ place[x] = "linked"
  /\ place' = [place EXCEPT ![x] = "unlinked"]
  /\ mayHold' = [mayHold EXCEPT ![x] = inside]
  /\ item' = [item EXCEPT ![t] = x]
  /\ UNCHANGED <<inside, epochVars, stamp, enterVars, cur_epoch, scanVars>>

-----------------------------------------------------------------------------
(* ab_mem_free, thread-safe branch                                         *)

FreeRead(t) ==
  /\ Goto(t, "free_read", "free_push")
  /\ cur_epoch' = [cur_epoch EXCEPT ![t] = global_epoch]
  /\ UNCHANGED <<inside, epochVars, itemVars, enterVars, item, scanVars>>

(* ab_mem_put_head on epoch_head[cur_epoch % MAX_EPOCH_LIST] *)
FreePush(t) ==
  /\ Goto(t, "free_push", "tick_add")
  /\ place' = [place EXCEPT ![item[t]] = "limbo"]
  /\ stamp' = [stamp EXCEPT ![item[t]] = cur_epoch[t]]
  /\ item' = [item EXCEPT ![t] = NoItem]
  /\ cur_epoch' = [cur_epoch EXCEPT ![t] = 0]
  /\ UNCHANGED <<inside, epochVars, mayHold, enterVars, scanVars>>

TickAdd(t) ==
  /\ Goto(t, "tick_add", "tick_test")
  /\ logic_tick' = (logic_tick + 1) % TickPeriod
  /\ UNCHANGED <<inside, thread_count, global_epoch, local_epoches,
                 active_flags, itemVars, enterVars, freeVars, scanVars>>

(* The tick is read again: another thread may have added to it meanwhile.  *)
TickTest(t) ==
  /\ Goto(t, "tick_test",
          IF logic_tick = TickPeriod - 1 THEN "inc_read" ELSE "in")
  /\ UNCHANGED <<inside, epochVars, itemVars, enterVars, freeVars, scanVars>>

-----------------------------------------------------------------------------
(* ab_mem_epoch_increase                                                   *)

(* Mutant: thread 0 is not looked at. *)
IncReadFromOne(t) ==
  /\ Goto(t, "inc_read", "scan_count")
  /\ ge' = [ge EXCEPT ![t] = global_epoch]
  /\ i' = [i EXCEPT ![t] = 1]
  /\ UNCHANGED <<inside, epochVars, itemVars, enterVars, freeVars, slot>>

IncRead(t) ==
  /\ Goto(t, "inc_read", "scan_count")
  /\ ge' = [ge EXCEPT ![t] = global_epoch]
  /\ i' = [i EXCEPT ![t] = 0]
  /\ UNCHANGED <<inside, epochVars, itemVars, enterVars, freeVars, slot>>

(* The loop condition reads thread_count again in every turn. *)
ScanCount(t) ==
  /\ Goto(t, "scan_count",
          IF i[t] < thread_count THEN "scan_flag" ELSE "inc_cas")
  /\ UNCHANGED <<inside, epochVars, itemVars, enterVars, freeVars, scanVars>>

ScanFlag(t) ==
  /\ pc[t] = "scan_flag"
  /\ IF active_flags[i[t]] = 1
     THEN Goto(t, "scan_flag", "scan_local") /\ UNCHANGED i
     ELSE Goto(t, "scan_flag", "scan_count") /\ i' = [i EXCEPT ![t] = @ + 1]
  /\ UNCHANGED <<inside, epochVars, itemVars, enterVars, freeVars, ge, slot>>

(* Mutant: every active thread counts as being in the current epoch. *)
ScanLocalAnyEpoch(t) ==
  /\ Goto(t, "scan_local", "scan_count")
  /\ i' = [i EXCEPT ![t] = @ + 1]
  /\ UNCHANGED <<inside, epochVars, itemVars, enterVars, freeVars, slot, ge>>

(* One active thread that entered in another epoch stops the increase.     *)
ScanLocal(t) ==
  /\ pc[t] = "scan_local"
  /\ IF local_epoches[i[t]] # ge[t]
     THEN /\ Goto(t, "scan_local", "in")
          /\ ge' = [ge EXCEPT ![t] = 0]
          /\ i' = [i EXCEPT ![t] = 0]
     ELSE /\ Goto(t, "scan_local", "scan_count")
          /\ i' = [i EXCEPT ![t] = @ + 1]
          /\ UNCHANGED ge
  /\ UNCHANGED <<inside, epochVars, itemVars, enterVars, freeVars, slot>>

(* Mutant: a plain store instead of the CAS. *)
IncStore(t) ==
  /\ Goto(t, "inc_cas", "gc_read")
  /\ global_epoch' = ge[t] + 1
  /\ ge' = [ge EXCEPT ![t] = 0]
  /\ i' = [i EXCEPT ![t] = 0]
  /\ UNCHANGED <<inside, thread_count, local_epoches, active_flags, logic_tick,
                 itemVars, enterVars, freeVars, slot>>

IncCas(t) ==
  /\ IF global_epoch = ge[t]
     THEN Goto(t, "inc_cas", "gc_read") /\ global_epoch' = ge[t] + 1
     ELSE Goto(t, "inc_cas", "in") /\ UNCHANGED global_epoch
  /\ ge' = [ge EXCEPT ![t] = 0]
  /\ i' = [i EXCEPT ![t] = 0]
  /\ UNCHANGED <<inside, thread_count, local_epoches, active_flags, logic_tick,
                 itemVars, enterVars, freeVars, slot>>

-----------------------------------------------------------------------------
(* ab_mem_epoch_gc                                                         *)

(* Mutant: the list of the current epoch is drained. *)
GcReadCurrent(t) ==
  /\ Goto(t, "gc_read", "gc_pop")
  /\ slot' = [slot EXCEPT ![t] = global_epoch % MAX_EPOCH_LIST]
  /\ UNCHANGED <<inside, epochVars, itemVars, enterVars, freeVars, ge, i>>

(* The argument is global_epoch + 1, read again after the CAS. *)
GcRead(t) ==
  /\ Goto(t, "gc_read", "gc_pop")
  /\ slot' = [slot EXCEPT ![t] = (global_epoch + 1) % MAX_EPOCH_LIST]
  /\ UNCHANGED <<inside, epochVars, itemVars, enterVars, freeVars, ge, i>>

(* ab_mem_get_head on the epoch list, until it is empty *)
GcPop(t) ==
  /\ \E x \in EpochList(slot[t]) :
       /\ place' = [place EXCEPT ![x] = "collected"]
       /\ item' = [item EXCEPT ![t] = x]
  /\ Goto(t, "gc_pop", "gc_put")
  /\ UNCHANGED <<inside, epochVars, stamp, mayHold, enterVars, cur_epoch,
                 scanVars>>

GcDone(t) ==
  /\ EpochList(slot[t]) = {}
  /\ Goto(t, "gc_pop", "in")
  /\ slot' = [slot EXCEPT ![t] = 0]
  /\ UNCHANGED <<inside, epochVars, itemVars, enterVars, freeVars, ge, i>>

(* Mutant: the item goes back to the list it came from. *)
GcPutBack(t) ==
  /\ Goto(t, "gc_put", "gc_pop")
  /\ place' = [place EXCEPT ![item[t]] = "limbo"]
  /\ item' = [item EXCEPT ![t] = NoItem]
  /\ UNCHANGED <<inside, epochVars, stamp, mayHold, enterVars, cur_epoch,
                 scanVars>>

(* ab_mem_put_head on free_head *)
GcPut(t) ==
  /\ Goto(t, "gc_put", "gc_pop")
  /\ place' = [place EXCEPT ![item[t]] = "free"]
  /\ item' = [item EXCEPT ![t] = NoItem]
  /\ UNCHANGED <<inside, epochVars, stamp, mayHold, enterVars, cur_epoch,
                 scanVars>>

-----------------------------------------------------------------------------
(* What the code does once it was called.                                  *)
Work(t) ==
  \/ EnterSet(t) \/ EnterFlag(t) \/ EnterRead(t)
  \/ LeaveSet(t) \/ LeaveFlag(t)
  \/ FreeRead(t) \/ FreePush(t) \/ TickAdd(t) \/ TickTest(t)
  \/ IncRead(t) \/ ScanCount(t) \/ ScanFlag(t) \/ ScanLocal(t) \/ IncCas(t)
  \/ GcRead(t) \/ GcPop(t) \/ GcDone(t) \/ GcPut(t)

(* What the client chooses to call. *)
Call(t) ==
  \/ Enter(t) \/ Leave(t) \/ Abandon(t)
  \/ \E x \in Items : Publish(t, x) \/ Unlink(t, x)

Next == \E t \in Threads : Work(t) \/ Call(t) \/ Flush(t)

Spec == Init /\ [][Next]_vars

(* Fairness: the operating system keeps scheduling every thread, and the   *)
(* hardware empties every store buffer.  The client need not call anything.*)
FairSpec ==
  Spec /\ \A t \in Threads : WF_vars(Work(t)) /\ WF_vars(Flush(t))
-----------------------------------------------------------------------------
(* Properties                                                              *)

(* Every variable has its type. *)
TypeOK ==
  /\ thread_count \in 0 .. N
  /\ global_epoch \in Nat
  /\ local_epoches \in [Threads -> Nat]
  /\ active_flags \in [Threads -> {0, 1}]
  /\ logic_tick \in 0 .. TickPeriod - 1
  /\ place \in [Items -> Places]
  /\ stamp \in [Items -> Nat]
  /\ mayHold \in [Items -> SUBSET Threads]
  /\ inside \subseteq Threads
  /\ pc \in [Threads -> PCs]
  /\ snap \in [Threads -> Nat]
  /\ unflushed \in [Threads -> BOOLEAN]
  /\ item \in [Threads -> Items \cup {NoItem}]
  /\ cur_epoch \in [Threads -> Nat]
  /\ ge \in [Threads -> Nat]
  /\ i \in [Threads -> Nat]
  /\ slot \in [Threads -> 0 .. MAX_EPOCH_LIST - 1]

(* No item is in free_head, or on its way there, while a thread that was   *)
(* inside when the item was unlinked has not left (ab_mem_free's "logic    *)
(* free", ab_mem.c:143-149).                                               *)
NoReuseWhileHeld ==
  \A x \in Items : place[x] \in {"free", "collected"} => mayHold[x] = {}

(* "only one thread try gc" (ab_mem.c:375): two threads are never in       *)
(* ab_mem_epoch_gc at the same time.                                       *)
AtMostOneGc ==
  \A s, t \in Threads : pc[s] \in GcPCs /\ pc[t] \in GcPCs => s = t

(* The same for one list: two threads never drain it together. *)
GcExclusive ==
  \A s, t \in Threads :
    pc[s] \in GcPCs /\ pc[t] \in GcPCs /\ slot[s] = slot[t] => s = t

(* No ab_mem_free is about to push onto the list that is being drained,    *)
(* although it chose the list from an epoch that may be over.              *)
GcListQuiet ==
  \A s, t \in Threads :
    pc[s] \in GcPCs /\ pc[t] = "free_push"
      => cur_epoch[t] % MAX_EPOCH_LIST # slot[s]

(* A thread inside entered in the global epoch or in the one before, even  *)
(* while its store to local_epoches is not visible: the missing barrier    *)
(* only delays an increase (comment at ab_mem.c:329-331).                  *)
EpochLag ==
  \A t \in inside : global_epoch - snap[t] \in {0, 1}

(* A call of ab_mem_free returns: the drain of an epoch list ends, and no  *)
(* thread waits for another.                                               *)
FreeReturns ==
  \A t \in Threads : pc[t] = "free_read" ~> pc[t] = "in"

(* The epochs implement what AbReclaim promises.                           *)
AbsState(x) == IF place[x] \in {"free", "linked"} THEN place[x] ELSE "retired"

Promise == INSTANCE AbReclaim
  WITH state <- [x \in Items |-> AbsState(x)],
       guards <- mayHold

ReclaimSpec == Promise!Spec
(* The thread_count race heals: if every thread keeps coming back, the     *)
(* count settles at the number of threads, because enter and leave both    *)
(* test it again (ab_mem.c:298-305).                                       *)
CountSettles ==
  (\A t \in Threads : []<>(pc[t] = "idle") /\ []<>(pc[t] = "in"))
    => <>[](thread_count = N)

-----------------------------------------------------------------------------
(* The inductive invariant behind the safety properties, for a pool whose  *)
(* threads have all been counted (ThreadCount0 = N).                       *)

ScanPCs == {"scan_count", "scan_flag", "scan_local", "inc_cas"}
CollectPCs == {"gc_read"} \cup GcPCs
FreePCs == {"free_read", "free_push"}

(* Nobody has to be counted any more. *)
CountInv ==
  /\ thread_count = N
  /\ \A t \in Threads : pc[t] \notin {"enter_set", "leave_set"}

(* The flag covers the whole stay; the visible local epoch is the snapshot *)
(* or an older value.                                                      *)
FlagOK(t) ==
  /\ local_epoches[t] <= global_epoch
  /\ pc[t] \in InPCs => t \in inside
  /\ t \in inside \/ pc[t] = "enter_read" => active_flags[t] = 1
  /\ t \in inside => local_epoches[t] <= snap[t]
  /\ t \in inside /\ Drained(t) => local_epoches[t] = snap[t]
  /\ t \notin inside => Drained(t)

FlagInv == \A t \in Threads : FlagOK(t)

(* A scan that can still succeed has seen only threads of this epoch.      *)
ScanOK(s) == pc[s] \in ScanPCs =>
  /\ ge[s] <= global_epoch
  /\ i[s] <= N
  /\ pc[s] \in {"scan_flag", "scan_local"} => i[s] < N
  /\ pc[s] = "inc_cas" => i[s] = N
  /\ ge[s] = global_epoch =>
       \A t \in inside : t < i[s] => snap[t] = global_epoch

ScanInv == \A s \in Threads : ScanOK(s)

(* A thread that collects holds the epoch back, and is alone.              *)
CollectInv ==
  /\ \A s \in Threads : pc[s] \in CollectPCs => snap[s] = global_epoch - 1
  /\ \A s \in Threads :
       pc[s] \in GcPCs => slot[s] = (global_epoch + 1) % MAX_EPOCH_LIST
  /\ \A s, t \in Threads :
       pc[s] \in CollectPCs /\ pc[t] \in CollectPCs => s = t

(* The item a thread works on is in that thread's hands only.              *)
HandOK(s) ==
  /\ pc[s] \in FreePCs =>
       /\ item[s] \in Items
       /\ place[item[s]] = "unlinked"
       /\ \A t \in Threads : pc[t] \in FreePCs /\ item[t] = item[s] => t = s
  /\ pc[s] = "gc_put" => item[s] \in Items /\ place[item[s]] = "collected"

HandInv == \A s \in Threads : HandOK(s)

(* Who may hold a filed item entered no later than the epoch it is filed   *)
(* under; nobody holds an item that can be handed out.                     *)
ItemOK(x) ==
  /\ mayHold[x] \subseteq inside
  /\ place[x] \in {"free", "linked", "collected"} => mayHold[x] = {}
  /\ place[x] = "limbo" => /\ stamp[x] <= global_epoch
                          /\ \A t \in mayHold[x] : snap[t] <= stamp[x]

ItemInv == \A x \in Items : ItemOK(x)

(* The same for the epoch an item is about to be filed under.              *)
FileOK(s) == pc[s] = "free_push" =>
  /\ cur_epoch[s] <= global_epoch
  /\ snap[s] <= cur_epoch[s]
  /\ \A t \in mayHold[item[s]] : snap[t] <= cur_epoch[s]

FileInv == \A s \in Threads : FileOK(s)

IInv ==
  /\ TypeOK
  /\ CountInv
  /\ FlagInv
  /\ EpochLag
  /\ ScanInv
  /\ CollectInv
  /\ HandInv
  /\ ItemInv
  /\ FileInv
==============================================================================
