------------------------------- MODULE AbList -------------------------------
(***************************************************************************)
(* The lock-free queue of abuf/ab_list.c: ab_list_put, ab_list_del and     *)
(* ab_list_get, one action per access to shared memory.  The nodes come    *)
(* from a pool that keeps the promise of AbReclaim, which AbEpoch shows    *)
(* the epochs of ab_mem.c to implement; the ABA counts that node addresses *)
(* carry are left out, so reuse is safe here by that promise alone.        *)
(*                                                                         *)
(* The fields are plain C variables and the library is built with -O2      *)
(* (CMakeLists.txt).  The compiler may drop the second look at a field     *)
(* (ab_list.c:113 and 150; at 189 it may use the head it has), and may     *)
(* swap the loads at 147 and 148.  Each of these is a choice here.         *)
(***************************************************************************)
EXTENDS Integers, Sequences, FiniteSets

CONSTANTS Threads,
          Items,      \* the nodes of the pool
          Null,       \* NULL, as a node, as a value, and before a load
          Ops,        \* the operations that are called
          MaxPuts,    \* bound: number of calls of ab_list_put
          NumMod      \* num is unsigned: it is kept modulo NumMod, 2^64

ASSUME ThreadAssumption == IsFiniteSet(Threads)
ASSUME ItemAssumption == Items # {} /\ IsFiniteSet(Items) /\ Null \notin Items
ASSUME OpAssumption == Ops \subseteq {"put", "del", "get"}
ASSUME NumAssumption == MaxPuts \in Nat /\ NumMod \in Nat \ {0}
ASSUME NullAssumption == Null \notin 1 .. MaxPuts

VARIABLES
  inside, state, guards,   \* the pool, see AbReclaim
  head, tail, num,         \* the fields of ab_list_t
  next, value,             \* the fields of every node
  pc,                      \* per thread: the next access to shared memory
  node, hd, tl, nx, val,   \* per thread: the locals
  puts,                    \* calls of ab_list_put so far
  seen                     \* history: the fronts of the queue during a call

poolVars == <<inside, state, guards>>
listVars == <<head, tail, num, next, value>>
locals == <<node, hd, tl, nx, val>>
vars == <<poolVars, listVars, pc, locals, puts, seen>>

Pool == INSTANCE AbReclaim

(* ab_list_init: an empty list has one dummy node. *)
Init ==
  /\ \E dummy \in Items :
       /\ head = dummy
       /\ tail = dummy
       /\ state = [x \in Items |-> IF x = dummy THEN "linked" ELSE "free"]
  /\ inside = {}
  /\ guards = [x \in Items |-> {}]
  /\ num = 0
  /\ next = [x \in Items |-> Null]
  /\ value = [x \in Items |-> Null]
  /\ pc = [t \in Threads |-> "idle"]
  /\ node = [t \in Threads |-> Null]
  /\ hd = [t \in Threads |-> Null]
  /\ tl = [t \in Threads |-> Null]
  /\ nx = [t \in Threads |-> Null]
  /\ val = [t \in Threads |-> Null]
  /\ puts = 0
  /\ seen = [t \in Threads |-> {}]

(* The queue: the values of the nodes after head, up to tail.  A node that *)
(* is linked behind tail does not count yet.                               *)
Chain ==
  LET walk[n \in 1 .. Cardinality(Items)] ==
        IF n = 1 THEN <<head>>
        ELSE LET w == walk[n - 1]
                 last == w[Len(w)]
             IN  IF last = tail \/ next[last] = Null THEN w
                 ELSE Append(w, next[last])
  IN  walk[Cardinality(Items)]

Queue == [k \in 1 .. Len(Chain) - 1 |-> value[Chain[k + 1]]]
Front(h, last) == IF h = last \/ next[h] = Null THEN Null ELSE value[next[h]]

Goto(t, from, to) == pc[t] = from /\ pc' = [pc EXCEPT ![t] = to]

(* A thread is in no call, at "none" since a get that found the list empty. *)
Rest == {"idle", "none"}
Begin(t, to) == pc[t] \in Rest /\ pc' = [pc EXCEPT ![t] = to]

(* The locals are dead when a call returns or turns in its loop.           *)
Forget(t) ==
  /\ hd' = [hd EXCEPT ![t] = Null]
  /\ tl' = [tl EXCEPT ![t] = Null]
  /\ nx' = [nx EXCEPT ![t] = Null]
  /\ val' = [val EXCEPT ![t] = Null]

(* History: a call begins, the queue has changed, a call returns. *)
SeeFirst(t) == seen' = [seen EXCEPT ![t] = {Front(head, tail)}]
SeeNew(h, last) ==
  seen' = [t \in Threads |-> IF pc[t] \in Rest THEN {}
                             ELSE seen[t] \cup {Front(h, last)}]
SeeLast(t) == seen' = [seen EXCEPT ![t] = {}]

(* ab_mem_epoch_enter; the thread may not have left since its last call.   *)
EnterEpoch(t) == Pool!Enter(t) \/ Pool!Reenter(t)

-----------------------------------------------------------------------------
(* ab_list_put                                                             *)

(* The node is private until it is linked.  With no free node the pool     *)
(* asks for a new block or ab_list_put returns false: nothing changes.     *)
Put(t) ==
  /\ "put" \in Ops
  /\ puts < MaxPuts
  /\ Begin(t, "put_enter")
  /\ puts' = puts + 1
  /\ \E x \in Items :
       /\ Pool!Publish(x)
       /\ node' = [node EXCEPT ![t] = x]
       /\ next' = [next EXCEPT ![x] = Null]
       /\ value' = [value EXCEPT ![x] = puts']
  /\ SeeFirst(t)
  /\ UNCHANGED <<head, tail, num, hd, tl, nx, val>>

(* Mutant: tail is read before the epoch is entered. *)
PutEnterLate(t) ==
  \/ /\ Goto(t, "put_enter", "put_late")
     /\ tl' = [tl EXCEPT ![t] = tail]
     /\ UNCHANGED <<poolVars, listVars, node, hd, nx, val, puts, seen>>
  \/ /\ Goto(t, "put_late", "put_next")
     /\ EnterEpoch(t)
     /\ UNCHANGED <<listVars, locals, puts, seen>>

PutEnter(t) ==
  /\ Goto(t, "put_enter", "put_tail")
  /\ EnterEpoch(t)
  /\ UNCHANGED <<listVars, locals, puts, seen>>

PutTail(t) ==
  /\ Goto(t, "put_tail", "put_next")
  /\ tl' = [tl EXCEPT ![t] = tail]
  /\ UNCHANGED <<poolVars, listVars, node, hd, nx, val, puts, seen>>

PutNext(t) ==
  /\ Goto(t, "put_next", "put_again")
  /\ nx' = [nx EXCEPT ![t] = next[tl[t]]]
  /\ UNCHANGED <<poolVars, listVars, node, hd, tl, val, puts, seen>>

PutStale(t) ==
  /\ tail # tl[t]
  /\ Goto(t, "put_again", "put_tail")
  /\ Forget(t)
  /\ UNCHANGED <<poolVars, listVars, node, puts, seen>>

(* tail is as before, or the compiled code does not look. *)
PutGoOn(t) ==
  /\ Goto(t, "put_again", IF nx[t] # Null THEN "put_help" ELSE "put_link")
  /\ UNCHANGED <<poolVars, listVars, locals, puts, seen>>

(* Moving tail puts a value into the queue. *)
MoveTail(from, to) ==
  /\ tail' = IF tail = from THEN to ELSE tail
  /\ IF tail = from THEN SeeNew(head, to) ELSE UNCHANGED seen
  /\ UNCHANGED <<head, num, next, value>>

(* Mutant: the thread walks on instead of moving tail. *)
PutHelpWalk(t) ==
  /\ Goto(t, "put_help", "put_next")
  /\ tl' = [tl EXCEPT ![t] = nx[t]]
  /\ UNCHANGED <<poolVars, listVars, node, hd, nx, val, puts, seen>>

(* tail has fallen behind: help the thread that linked the next node.      *)
PutHelp(t) ==
  /\ Goto(t, "put_help", "put_tail")
  /\ MoveTail(tl[t], nx[t])
  /\ Forget(t)
  /\ UNCHANGED <<poolVars, node, puts>>

PutLink(t) ==
  /\ Goto(t, "put_link", "put_num")
  /\ next[tl[t]] = Null
  /\ next' = [next EXCEPT ![tl[t]] = node[t]]
  /\ UNCHANGED <<poolVars, head, tail, num, value, locals, puts, seen>>

PutRetry(t) ==
  /\ Goto(t, "put_link", "put_tail")
  /\ next[tl[t]] # Null
  /\ Forget(t)
  /\ UNCHANGED <<poolVars, listVars, node, puts, seen>>

PutNum(t) ==
  /\ Goto(t, "put_num", "put_swing")
  /\ num' = (num + 1) % NumMod
  /\ UNCHANGED <<poolVars, head, tail, next, value, locals, puts, seen>>

(* The CAS fails if another thread has helped. *)
PutSwing(t) ==
  /\ Goto(t, "put_swing", "put_leave")
  /\ MoveTail(tl[t], node[t])
  /\ Forget(t)
  /\ UNCHANGED <<poolVars, node, puts>>

PutLeave(t) ==
  /\ Goto(t, "put_leave", "idle")
  /\ Pool!Leave(t)
  /\ node' = [node EXCEPT ![t] = Null]
  /\ SeeLast(t)
  /\ UNCHANGED <<listVars, hd, tl, nx, val, puts>>

-----------------------------------------------------------------------------
(* ab_list_del                                                             *)

Del(t) ==
  /\ "del" \in Ops
  /\ Begin(t, "del_head")
  /\ EnterEpoch(t)
  /\ SeeFirst(t)
  /\ UNCHANGED <<listVars, locals, puts>>

DelHead(t) ==
  /\ Goto(t, "del_head", "del_read")
  /\ hd' = [hd EXCEPT ![t] = head]
  /\ UNCHANGED <<poolVars, listVars, node, tl, nx, val, puts, seen>>

(* The loads of tail and of head->next, in either order.                   *)
DelTail(t) ==
  /\ pc[t] \in {"del_read", "del_tail"}
  /\ pc' = [pc EXCEPT ![t] = IF @ = "del_tail" THEN "del_again" ELSE "del_next"]
  /\ tl' = [tl EXCEPT ![t] = tail]
  /\ UNCHANGED <<poolVars, listVars, node, hd, nx, val, puts, seen>>

DelNext(t) ==
  /\ pc[t] \in {"del_read", "del_next"}
  /\ pc' = [pc EXCEPT ![t] = IF @ = "del_next" THEN "del_again" ELSE "del_tail"]
  /\ nx' = [nx EXCEPT ![t] = next[hd[t]]]
  /\ UNCHANGED <<poolVars, listVars, node, hd, tl, val, puts, seen>>

DelStale(t) ==
  /\ head # hd[t]
  /\ Goto(t, "del_again", "del_head")
  /\ Forget(t)
  /\ UNCHANGED <<poolVars, listVars, node, puts, seen>>

(* Mutant: an empty list returns without leaving, as ab_list_get does.     *)
DelEmptyStay(t) ==
  /\ hd[t] = tl[t] \/ nx[t] = Null
  /\ Goto(t, "del_again", "idle")
  /\ Forget(t)
  /\ UNCHANGED <<poolVars, listVars, node, puts, seen>>

(* The next test, head = tail with a next node, can then never hold.       *)
DelEmpty(t) ==
  /\ hd[t] = tl[t] \/ nx[t] = Null
  /\ Goto(t, "del_again", "del_leave")
  /\ Forget(t)
  /\ UNCHANGED <<poolVars, listVars, node, puts, seen>>

(* Mutant: only the next node is looked at. *)
DelGoOnNext(t) ==
  /\ nx[t] # Null
  /\ Goto(t, "del_again", "del_value")
  /\ UNCHANGED <<poolVars, listVars, locals, puts, seen>>

DelGoOn(t) ==
  /\ hd[t] # tl[t] /\ nx[t] # Null
  /\ Goto(t, "del_again", "del_value")
  /\ UNCHANGED <<poolVars, listVars, locals, puts, seen>>

(* The value is read before the CAS, from a node that may be gone by then. *)
DelValue(t) ==
  /\ Goto(t, "del_value", "del_cas")
  /\ val' = [val EXCEPT ![t] = value[nx[t]]]
  /\ UNCHANGED <<poolVars, listVars, node, hd, tl, nx, puts, seen>>

(* The old dummy is unlinked.  It goes to ab_mem_free before this thread   *)
(* leaves, and so before the pool may reuse it.                            *)
DelCas(t) ==
  /\ head = hd[t]
  /\ Goto(t, "del_cas", "del_num")
  /\ head' = nx[t]
  /\ Pool!Retire(hd[t])
  /\ UNCHANGED <<tail, num, next, value>>
  /\ SeeNew(nx[t], tail)
  /\ UNCHANGED <<locals, puts>>

(* Mutant: the CAS is tried again with the head read before. *)
DelSpin(t) ==
  /\ head # hd[t]
  /\ Goto(t, "del_cas", "del_value")
  /\ UNCHANGED <<poolVars, listVars, locals, puts, seen>>

DelRetry(t) ==
  /\ head # hd[t]
  /\ Goto(t, "del_cas", "del_head")
  /\ Forget(t)
  /\ UNCHANGED <<poolVars, listVars, node, puts, seen>>

(* Mutant: a signed count. *)
DelNumPlain(t) ==
  /\ Goto(t, "del_num", "del_leave")
  /\ num' = num - 1
  /\ UNCHANGED <<poolVars, head, tail, next, value, locals, puts, seen>>

DelNum(t) ==
  /\ Goto(t, "del_num", "del_leave")
  /\ num' = (num - 1) % NumMod
  /\ UNCHANGED <<poolVars, head, tail, next, value, locals, puts, seen>>

DelLeave(t) ==
  /\ Goto(t, "del_leave", "idle")
  /\ Pool!Leave(t)
  /\ Forget(t)
  /\ SeeLast(t)
  /\ UNCHANGED <<listVars, node, puts>>

-----------------------------------------------------------------------------
(* ab_list_get                                                             *)

Get(t) ==
  /\ "get" \in Ops
  /\ Begin(t, "get_head")
  /\ EnterEpoch(t)
  /\ SeeFirst(t)
  /\ UNCHANGED <<listVars, locals, puts>>

GetHead(t) ==
  /\ Goto(t, "get_head", "get_next")
  /\ hd' = [hd EXCEPT ![t] = head]
  /\ UNCHANGED <<poolVars, listVars, node, tl, nx, val, puts, seen>>

GetNext(t) ==
  /\ Goto(t, "get_next", "get_again")
  /\ nx' = [nx EXCEPT ![t] = next[hd[t]]]
  /\ UNCHANGED <<poolVars, listVars, node, hd, tl, val, puts, seen>>

(* head is read again, or the compiled code uses the one it has. *)
GetAgain(t) ==
  /\ Goto(t, "get_again", "get_tail")
  /\ \E h \in {hd[t], head} : hd' = [hd EXCEPT ![t] = h]
  /\ UNCHANGED <<poolVars, listVars, node, tl, nx, val, puts, seen>>

GetTail(t) ==
  /\ LET empty == hd[t] = tail \/ nx[t] = Null
     IN  /\ Goto(t, "get_tail", IF empty THEN "get_none" ELSE "get_value")
         /\ IF empty THEN Forget(t) ELSE UNCHANGED <<hd, tl, nx, val>>
  /\ UNCHANGED <<poolVars, listVars, node, puts, seen>>

(* An empty list: the call returns and does not leave the epoch.           *)
GetNone(t) ==
  /\ Goto(t, "get_none", "none")
  /\ SeeLast(t)
  /\ UNCHANGED <<poolVars, listVars, locals, puts>>

GetValue(t) ==
  /\ Goto(t, "get_value", "get_leave")
  /\ val' = [val EXCEPT ![t] = value[nx[t]]]
  /\ UNCHANGED <<poolVars, listVars, node, hd, tl, nx, puts, seen>>

GetLeave(t) ==
  /\ Goto(t, "get_leave", "idle")
  /\ Pool!Leave(t)
  /\ Forget(t)
  /\ SeeLast(t)
  /\ UNCHANGED <<listVars, node, puts>>

-----------------------------------------------------------------------------
(* What the code does once it was called. *)
Work(t) ==
  \/ PutEnter(t) \/ PutTail(t) \/ PutNext(t) \/ PutStale(t) \/ PutGoOn(t)
  \/ PutHelp(t) \/ PutLink(t) \/ PutRetry(t) \/ PutNum(t) \/ PutSwing(t)
  \/ PutLeave(t)
  \/ DelHead(t) \/ DelTail(t) \/ DelNext(t) \/ DelStale(t) \/ DelEmpty(t)
  \/ DelGoOn(t) \/ DelValue(t) \/ DelCas(t) \/ DelRetry(t) \/ DelNum(t)
  \/ DelLeave(t)
  \/ GetHead(t) \/ GetNext(t) \/ GetAgain(t) \/ GetTail(t) \/ GetNone(t)
  \/ GetValue(t) \/ GetLeave(t)

Call(t) == Put(t) \/ Del(t) \/ Get(t)

(* The pool hands a node back when its promise allows it. *)
Reclaim(x) ==
  /\ Pool!Reclaim(x)
  /\ UNCHANGED <<listVars, pc, locals, puts, seen>>

Next ==
  \/ \E t \in Threads : Work(t) \/ Call(t)
  \/ \E x \in Items : Reclaim(x)

Spec == Init /\ [][Next]_vars

(* Fairness: the operating system keeps scheduling every thread.  Nobody   *)
(* has to call anything, and the pool need not reclaim.                    *)
FairSpec == Spec /\ \A t \in Threads : WF_vars(Work(t))

-----------------------------------------------------------------------------
(* Properties                                                              *)

PutPCs == {"put_enter", "put_tail", "put_next", "put_again", "put_help",
           "put_link", "put_num", "put_swing", "put_leave"}
DelPCs == {"del_head", "del_read", "del_tail", "del_next", "del_again",
           "del_value", "del_cas", "del_num", "del_leave"}
GetPCs == {"get_head", "get_next", "get_again", "get_tail", "get_none",
           "get_value", "get_leave"}
LinkedPCs == {"put_num", "put_swing", "put_leave"}

(* Every variable has its type. *)
TypeOK ==
  /\ inside \subseteq Threads
  /\ state \in [Items -> {"free", "linked", "retired"}]
  /\ guards \in [Items -> SUBSET Threads]
  /\ head \in Items /\ tail \in Items
  /\ num \in 0 .. NumMod - 1
  /\ next \in [Items -> Items \cup {Null}]
  /\ value \in [Items -> 1 .. MaxPuts \cup {Null}]
  /\ pc \in [Threads -> Rest \cup PutPCs \cup DelPCs \cup GetPCs]
  /\ \A f \in {node, hd, tl, nx} : f \in [Threads -> Items \cup {Null}]
  /\ val \in [Threads -> 1 .. MaxPuts \cup {Null}]
  /\ puts \in 0 .. MaxPuts
  /\ seen \in [Threads -> SUBSET (1 .. MaxPuts \cup {Null})]

(* No thread is about to follow a pointer to a node that the pool may have *)
(* handed out again: every pointer was read after epoch_enter.             *)
NoStalePointer ==
  \A t \in Threads :
    \A x \in {hd[t], tl[t], nx[t]} \ {Null} : state[x] # "free"

(* tail is at most one node behind ("tail has fail behind, reset tail",    *)
(* ab_list.c:115), and no node of the queue is with the pool.              *)
TailNear ==
  /\ next[tail] # Null => next[next[tail]] = Null
  /\ \A k \in 1 .. Len(Chain) : state[Chain[k]] = "linked"
  /\ Chain[Len(Chain)] = tail

(* ab_list_num is off only by the calls that are between their CAS and     *)
(* their update of num, in either direction: it can wrap below zero, and   *)
(* it is exact when nobody is there.                                       *)
NumExact ==
  LET linked == Len(Queue) + IF next[tail] = Null THEN 0 ELSE 1
      adding == Cardinality({t \in Threads : pc[t] = "put_num"})
      taking == Cardinality({t \in Threads : pc[t] = "del_num"})
  IN  num = (linked - adding + taking) % NumMod

(* The chain, its tail and its count fit together at any moment.           *)
QueueWhole == TailNear /\ NumExact

(* The list implements the queue of AbFifo.  A put takes effect when tail  *)
(* moves over its node, which another thread may do.                       *)
CallOf(t) ==
  CASE pc[t] \in Rest -> [op |-> "none", val |-> Null]
    [] pc[t] \in PutPCs ->
         IF pc[t] \in LinkedPCs /\ next[tail] # node[t]
         THEN [op |-> "done", val |-> Null]
         ELSE [op |-> "put", val |-> value[node[t]]]
    [] pc[t] \in {"del_num", "del_leave", "get_none", "get_leave"} ->
         [op |-> "done", val |-> val[t]]
    [] pc[t] \in DelPCs \ {"del_num", "del_leave"} ->
         [op |-> "del", val |-> Null]
    [] OTHER -> [op |-> "get", val |-> Null]

Fifo == INSTANCE AbFifo
  WITH Values <- 1 .. MaxPuts,
       NoValue <- Null,
       queue <- Queue,
       call <- [t \in Threads |-> CallOf(t)]

FifoSpec == Fifo!Spec

(* Lock freedom: finitely many puts (MaxPuts bounds them) let every call   *)
(* return, because a turn of a loop is lost only to a CAS that succeeded.  *)
CallsReturn == \A t \in Threads : pc[t] \notin Rest ~> pc[t] \in Rest

(* "释放：将item归还到free_head" (free: the item is returned to free_head,  *)
(* ab_mem.md:15): in the end nothing keeps a deleted node from the pool,   *)
(* but threads whose last call was a get of an empty list.                 *)
Released ==
  \A x \in Items :
    state[x] = "retired" ~> \A t \in guards[x] : pc[t] = "none"
==============================================================================
