------------------------------- MODULE AbBuf --------------------------------
(***************************************************************************)
(* The buffer of abuf/ab_buf.c: a value lies in one item of the mpool and  *)
(* is entered in several indexes, which know it by the keys it holds.  The *)
(* indexes are taken as what AbMap, AbOrder and AbFifo say of them, one    *)
(* action per call; the mpool as one size class, made at its first use,    *)
(* that keeps the promise of AbReclaim.                                    *)
(***************************************************************************)
EXTENDS Integers, Sequences, FiniteSets

CONSTANTS Threads,
          Items,      \* the items of the class
          Null,
          Schemas,    \* the kinds of the indexes, in the order they are attached
          Keys,
          Held,       \* what was put before: sequences of items and their keys per kind
          Garbage,    \* what incr holds in an item that was not used yet
          Tops,       \* how many values a call asks for
          MaxFails,   \* bound: how often the class cannot be made
          MaxCalls    \* bound: the number of calls

ASSUME NullAssumption == Null \notin Items
ASSUME KindAssumption ==
  \A s \in Schemas : s \in Seq({"uniq", "dupl", "list"}) /\ s # <<>>
ASSUME BoundAssumption ==
  Tops \subseteq Nat \ {0} /\ MaxFails \in Nat /\ MaxCalls \in Nat /\ Garbage \in Nat
ASSUME HeldAssumption ==
  \A h \in Held :
    /\ h \in Seq({h[n] : n \in DOMAIN h})
    /\ \A n \in DOMAIN h :
         /\ h[n].val \in Items
         /\ {h[n]["uniq"], h[n]["dupl"]} \subseteq Keys /\ h[n]["list"] = Null
    /\ \A m, n \in DOMAIN h : h[m].val = h[n].val \/ h[m]["uniq"] = h[n]["uniq"] => m = n

VARIABLES
  kinds,                   \* the index types of the buffer
  index,                   \* per index: its entries [key, incr, val]
  incr_key,                \* per index: the next incr
  has_init,                \* of the class: 0, 1 while it is made, 2
  inside, state, guards,   \* the class, see AbReclaim
  key, incr, updating,     \* per item: the fields of the value in it
  pc,                      \* per thread: the next step
  call,                    \* per thread: the arguments of its call
  val, at, from, num,      \* per thread: mp_ptr, the loop's index, incr and i
  aborted,                 \* the assertion of ab_buf_del_one has failed
  fails, calls,            \* for the bounds
  undone, astray, late,    \* history: items a put took back, whether a delete
                           \* went on with one, and whether one went on in a
                           \* list that had not entered the class
  got, due, raced          \* history, per thread that gets: see MultiGet

bufVars == <<kinds, index, incr_key>>
poolVars == <<has_init, inside, state, guards>>
valVars == <<key, incr, updating>>
locals == <<call, val, at, from, num>>
bounds == <<aborted, fails, calls>>
history == <<undone, astray, late, got, due, raced>>
vars == <<bufVars, poolVars, valVars, pc, locals, bounds, history>>

Pool == INSTANCE AbReclaim

Indexes == DOMAIN kinds
Entry(k, n, x) == [key |-> k, incr |-> n, val |-> x]
KeysOf(kind) == IF kind = "list" THEN {Null} ELSE Keys
NoCall == [op |-> "none", key |-> Null, id |-> 1, top |-> 1]

\* The values of h have been put, one after the other; if there are none the
\* class was not made yet.
Init ==
  /\ kinds \in Schemas
  /\ \E h \in Held :
       LET used == {h[n].val : n \in DOMAIN h}
           nth(x) == CHOOSE n \in DOMAIN h : h[n].val = x
           incrOf(i, n) == IF kinds[i] = "uniq" THEN 0 ELSE n
       IN  /\ index = [i \in Indexes |->
                         {Entry(h[n][kinds[i]], incrOf(i, n), h[n].val) : n \in DOMAIN h}]
           /\ incr_key = [i \in Indexes |-> IF kinds[i] = "uniq" THEN 1 ELSE Len(h) + 1]
           /\ has_init = (IF h = <<>> THEN 0 ELSE 2)
           /\ state = [x \in Items |-> IF x \in used THEN "linked" ELSE "free"]
           /\ key = [x \in Items |-> [i \in Indexes |->
                       IF x \in used THEN h[nth(x)][kinds[i]] ELSE Null]]
           /\ incr = [x \in Items |-> [i \in Indexes |->
                        IF x \in used /\ kinds[i] = "dupl" THEN nth(x) ELSE Garbage]]
  /\ inside = {} /\ guards = [x \in Items |-> {}]
  /\ updating = [x \in Items |-> 0]
  /\ pc = [t \in Threads |-> "idle"]
  /\ call = [t \in Threads |-> NoCall]
  /\ val = [t \in Threads |-> Null]
  /\ at = [t \in Threads |-> 1] /\ from = [t \in Threads |-> 0]
  /\ num = [t \in Threads |-> 0]
  /\ aborted = FALSE /\ fails = 0 /\ calls = 0
  /\ undone = {} /\ astray = FALSE /\ late = FALSE
  /\ got = [t \in Threads |-> <<>>] /\ due = [t \in Threads |-> {}]
  /\ raced = [t \in Threads |-> FALSE]

-----------------------------------------------------------------------------
(* The indexes.                                                            *)

\* What a get of key k from incr n on may find in index i: the hash looks at
\* the key alone, the list at nothing.
Hits(i, k, n) ==
  CASE kinds[i] = "uniq" -> {e \in index[i] : e.key = k}
    [] kinds[i] = "dupl" -> {e \in index[i] : e.key = k /\ e.incr >= n}
    [] kinds[i] = "list" -> index[i]

Found(i, k, n) == {e \in Hits(i, k, n) : \A f \in Hits(i, k, n) : e.incr <= f.incr}

\* What a del of value x takes out of index i: the entry of its key, that of
\* its key and incr, the front.
Taken(i, x) ==
  CASE kinds[i] = "dupl" -> {e \in index[i] : e.key = key[x][i] /\ e.incr = incr[x][i]}
    [] OTHER -> Found(i, key[x][i], 0)

\* Those that a get has still to come to lose what is taken out.
TakeOut(i, x) ==
  /\ index' = [index EXCEPT ![i] = @ \ Taken(i, x)]
  /\ due' = [t \in Threads |-> IF call[t].id = i
                               THEN due[t] \ {e.incr : e \in Taken(i, x)} ELSE due[t]]

\* Nothing happens any more once the assertion has failed.
Goto(t, from0, to) == ~aborted /\ pc[t] = from0 /\ pc' = [pc EXCEPT ![t] = to]

\* ab_mpool_epoch_enter of a class that is there, and ab_mpool_epoch_leave,
\* which also leaves a class that was never entered.
EnterEpoch(t) == Pool!Enter(t) \/ Pool!Reenter(t)
LeaveEpoch(t) == IF t \in inside THEN Pool!Leave(t) ELSE UNCHANGED <<inside, state, guards>>

Forget(t) ==
  /\ val' = [val EXCEPT ![t] = Null] /\ at' = [at EXCEPT ![t] = 1]
  /\ from' = [from EXCEPT ![t] = 0] /\ num' = [num EXCEPT ![t] = 0]
  /\ call' = [call EXCEPT ![t] = NoCall]
  /\ got' = [got EXCEPT ![t] = <<>>] /\ due' = [due EXCEPT ![t] = {}]
  /\ raced' = [raced EXCEPT ![t] = FALSE]

-----------------------------------------------------------------------------
(* ab_buf_put.  `at` is the index at hand, num the one that failed.         *)

Put(t) ==
  /\ Goto(t, "idle", "put_enter")
  /\ calls < MaxCalls /\ calls' = calls + 1
  /\ \E ks \in [Indexes -> Keys \cup {Null}] :
       /\ \A i \in Indexes : ks[i] \in KeysOf(kinds[i])
       /\ call' = [call EXCEPT ![t] = [NoCall EXCEPT !.op = "put", !.key = ks]]
  /\ UNCHANGED <<bufVars, poolVars, valVars, val, at, from, num, aborted, fails, history>>

PutEnter(t) ==
  /\ has_init = 2
  /\ Goto(t, "put_enter", "put_alloc")
  /\ EnterEpoch(t)
  /\ UNCHANGED <<bufVars, has_init, valVars, locals, bounds, history>>

\* ab_mpool_init_one, from ab_mpool_epoch_enter or ab_mpool_alloc.  A thread
\* that finds another at it turns in the loop.
Make(t) ==
  /\ has_init = 0 /\ has_init' = 1
  /\ \/ Goto(t, "put_enter", "enter_make")
     \/ Goto(t, "put_alloc", "alloc_make")
  /\ UNCHANGED <<bufVars, inside, state, guards, valVars, locals, bounds, history>>

Made(t) ==
  /\ has_init' = 2
  /\ \/ Goto(t, "enter_make", "put_enter")
     \/ Goto(t, "alloc_make", "put_alloc")
  /\ UNCHANGED <<bufVars, inside, state, guards, valVars, locals, bounds, history>>

\* The class could not be made: the put goes on without having entered.
MakeFails(t) ==
  /\ fails < MaxFails /\ fails' = fails + 1
  /\ Goto(t, "enter_make", "put_alloc")
  /\ has_init' = 0
  /\ UNCHANGED <<bufVars, inside, state, guards, valVars, locals, aborted, calls, history>>

\* The put then tries again to make it, and gives up.
AllocFails(t) ==
  /\ fails < MaxFails /\ fails' = fails + 1
  /\ Goto(t, "alloc_make", "idle")
  /\ has_init' = 0
  /\ Forget(t)
  /\ UNCHANGED <<bufVars, inside, state, guards, valVars, aborted, calls, undone, astray, late>>

\* No item is left: the put returns and does not leave.
PutNone(t) ==
  /\ has_init = 2 /\ \A x \in Items : state[x] # "free"
  /\ Goto(t, "put_alloc", "idle")
  /\ Forget(t)
  /\ UNCHANGED <<bufVars, poolVars, valVars, bounds, undone, astray, late>>

\* The value is copied into an item that nobody else knows yet (so one step
\* stands for all the writes); incr keeps what the item held before.
PutAlloc(t) ==
  /\ has_init = 2
  /\ Goto(t, "put_alloc", "put_index")
  /\ \E x \in Items :
       /\ Pool!Publish(x)
       /\ key' = [key EXCEPT ![x] = call[t].key]
       /\ updating' = [updating EXCEPT ![x] = 1]
       /\ val' = [val EXCEPT ![t] = x]
       /\ undone' = undone \ {x}
  /\ UNCHANGED <<bufVars, has_init, incr, call, at, from, num, bounds,
                 astray, late, got, due, raced>>

Refused(i, k) == kinds[i] = "uniq" /\ Found(i, k, 0) # {}

\* What the put does next when index i has the value.
Onward(t, i) ==
  /\ at' = [at EXCEPT ![t] = IF i = Len(kinds) THEN 1 ELSE i + 1]
  /\ pc' = [pc EXCEPT ![t] = IF i = Len(kinds) THEN "put_done" ELSE "put_index"]

\* A hash gives no incr, nor does a list; a skiplist links its node first.
PutIndex(t) ==
  LET i == at[t]
      k == key[val[t]][i]
  IN  /\ ~aborted /\ pc[t] = "put_index" /\ ~Refused(i, k)
      /\ index' = [index EXCEPT ![i] =
                     @ \cup {Entry(k, IF kinds[i] = "uniq" THEN 0 ELSE incr_key[i], val[t])}]
      /\ incr_key' = [incr_key EXCEPT ![i] = IF kinds[i] = "uniq" THEN @ ELSE @ + 1]
      /\ IF kinds[i] = "dupl"
         THEN pc' = [pc EXCEPT ![t] = "put_incr"] /\ UNCHANGED at
         ELSE Onward(t, i)
      /\ UNCHANGED <<kinds, poolVars, valVars, call, val, from, num, bounds, history>>

PutIncr(t) ==
  LET i == at[t]
  IN  /\ ~aborted /\ pc[t] = "put_incr"
      /\ \E e \in index[i] : e.val = val[t] /\ incr' = [incr EXCEPT ![val[t]][i] = e.incr]
      /\ Onward(t, i)
      /\ UNCHANGED <<bufVars, poolVars, key, updating, call, val, from, num, bounds, history>>

PutRefused(t) ==
  /\ Goto(t, "put_index", "put_undo")
  /\ Refused(at[t], key[val[t]][at[t]])
  /\ num' = [num EXCEPT ![t] = at[t]] /\ at' = [at EXCEPT ![t] = 1]
  /\ UNCHANGED <<bufVars, poolVars, valVars, call, val, from, bounds, history>>

\* Rollback: the value is deleted from the indexes that have it.
PutUndo(t) ==
  /\ ~aborted /\ pc[t] = "put_undo" /\ at[t] < num[t]
  /\ TakeOut(at[t], val[t])
  /\ at' = [at EXCEPT ![t] = @ + 1]
  /\ UNCHANGED <<kinds, incr_key, poolVars, valVars, pc, call, val, from, num, bounds,
                 undone, astray, late, got, raced>>

\* Mutant: the rollback stops one index short.
PutUnlockShort(t) ==
  /\ Goto(t, "put_undo", "put_free")
  /\ at[t] + 1 >= num[t]
  /\ updating' = [updating EXCEPT ![val[t]] = @ - 1]
  /\ undone' = undone \cup {val[t]}
  /\ UNCHANGED <<bufVars, poolVars, key, incr, locals, bounds, astray, late, got, due, raced>>

PutUnlock(t) ==
  /\ Goto(t, "put_undo", "put_free")
  /\ at[t] = num[t]
  /\ updating' = [updating EXCEPT ![val[t]] = @ - 1]
  /\ undone' = undone \cup {val[t]}
  /\ UNCHANGED <<bufVars, poolVars, key, incr, locals, bounds, astray, late, got, due, raced>>

\* An item that a delete gone astray has freed is not freed twice: the model
\* ends there, as the pool says nothing of it.
PutFree(t) ==
  /\ Goto(t, "put_free", "put_leave")
  /\ Pool!Retire(val[t])
  /\ UNCHANGED <<bufVars, has_init, valVars, locals, bounds, history>>

\* Mutant: the mark stays.
PutDoneMarked(t) ==
  /\ Goto(t, "put_done", "put_leave")
  /\ UNCHANGED <<bufVars, poolVars, valVars, locals, bounds, history>>

PutDone(t) ==
  /\ Goto(t, "put_done", "put_leave")
  /\ updating' = [updating EXCEPT ![val[t]] = @ - 1]
  /\ UNCHANGED <<bufVars, poolVars, key, incr, locals, bounds, history>>

PutLeave(t) ==
  /\ Goto(t, "put_leave", "idle")
  /\ LeaveEpoch(t)
  /\ Forget(t)
  /\ UNCHANGED <<bufVars, has_init, valVars, bounds, undone, astray, late>>

-----------------------------------------------------------------------------
(* ab_buf_get and ab_buf_del enter the class only if it is there.          *)

EnterIfMade(t) ==
  IF has_init = 2 THEN EnterEpoch(t) ELSE UNCHANGED <<inside, state, guards>>

Ask(t, op, to) ==
  /\ Goto(t, "idle", to)
  /\ calls < MaxCalls /\ calls' = calls + 1
  /\ \E i \in Indexes : \E k \in KeysOf(kinds[i]), n \in Tops :
       call' = [call EXCEPT ![t] = [op |-> op, key |-> k, id |-> i, top |-> n]]
  /\ UNCHANGED <<bufVars, poolVars, valVars, val, at, from, num, aborted, fails, history>>

Get(t) == Ask(t, "get", "get_enter")

GetEnter(t) ==
  LET c == call[t]
  IN  /\ Goto(t, "get_enter", "get_next")
      /\ EnterIfMade(t)
      /\ due' = [due EXCEPT ![t] = {e.incr : e \in Hits(c.id, c.key, 0)}]
      /\ UNCHANGED <<bufVars, has_init, valVars, locals, bounds, undone, astray, late, got, raced>>

GetNext(t) ==
  LET c == call[t]
  IN  /\ Goto(t, "get_next", "get_copy")
      /\ \E e \in Found(c.id, c.key, from[t]) :
           /\ val' = [val EXCEPT ![t] = e.val]
           /\ got' = [got EXCEPT ![t] = Append(@, e.incr)]
      /\ UNCHANGED <<bufVars, poolVars, valVars, call, at, from, num, bounds,
                     undone, astray, late, due, raced>>

GetNone(t) ==
  /\ Goto(t, "get_next", "get_leave")
  /\ Found(call[t].id, call[t].key, from[t]) = {}
  /\ val' = [val EXCEPT ![t] = Null]
  /\ UNCHANGED <<bufVars, poolVars, valVars, call, at, from, num, bounds, history>>

\* Mutant: the get goes on with the value it has copied.
GetCopyAgain(t) ==
  LET c == call[t]
      n == incr[val[t]][c.id]
  IN  /\ ~aborted /\ pc[t] = "get_copy"
      /\ pc' = [pc EXCEPT ![t] = IF num[t] + 1 = c.top THEN "get_leave" ELSE "get_next"]
      /\ from' = [from EXCEPT ![t] = n]
      /\ num' = [num EXCEPT ![t] = @ + 1]
      /\ raced' = [raced EXCEPT ![t] =
                     @ \/ \E u \in Threads : val[u] = val[t] /\ pc[u] = "put_incr"]
      /\ UNCHANGED <<bufVars, poolVars, valVars, call, val, at, bounds,
                     undone, astray, late, got, due>>

\* The value is copied, and its incr tells where to go on.
GetCopy(t) ==
  LET c == call[t]
      n == incr[val[t]][c.id]
  IN  /\ ~aborted /\ pc[t] = "get_copy"
      /\ pc' = [pc EXCEPT ![t] = IF num[t] + 1 = c.top THEN "get_leave" ELSE "get_next"]
      /\ from' = [from EXCEPT ![t] = n + 1]
      /\ num' = [num EXCEPT ![t] = @ + 1]
      /\ raced' = [raced EXCEPT ![t] =
                     @ \/ \E u \in Threads : val[u] = val[t] /\ pc[u] = "put_incr"]
      /\ UNCHANGED <<bufVars, poolVars, valVars, call, val, at, bounds,
                     undone, astray, late, got, due>>

GetLeave(t) ==
  /\ Goto(t, "get_leave", "idle")
  /\ LeaveEpoch(t)
  /\ Forget(t)
  /\ UNCHANGED <<bufVars, has_init, valVars, bounds, undone, astray, late>>

-----------------------------------------------------------------------------
(* ab_buf_del: ab_buf_del_one, `top` times.                                *)

Del(t) == Ask(t, "del", "del_enter")

DelEnter(t) ==
  /\ Goto(t, "del_enter", "del_get")
  /\ EnterIfMade(t)
  /\ UNCHANGED <<bufVars, has_init, valVars, locals, bounds, history>>

DelGet(t) ==
  /\ Goto(t, "del_get", "del_cas")
  /\ \E e \in Found(call[t].id, call[t].key, 0) : val' = [val EXCEPT ![t] = e.val]
  /\ UNCHANGED <<bufVars, poolVars, valVars, call, at, from, num, bounds, history>>

DelNone(t) ==
  /\ Goto(t, "del_get", "del_last")
  /\ Found(call[t].id, call[t].key, 0) = {}
  /\ UNCHANGED <<bufVars, poolVars, valVars, locals, bounds, history>>

\* Mutant: the mark is set whatever it was.
DelCasAny(t) ==
  /\ Goto(t, "del_cas", "del_index")
  /\ updating' = [updating EXCEPT ![val[t]] = 1]
  /\ astray' = (astray \/ val[t] \in undone)
  /\ late' = (late \/ (t \notin inside /\ kinds[call[t].id] = "list"))
  /\ UNCHANGED <<bufVars, poolVars, key, incr, locals, bounds, undone, got, due, raced>>

\* The CAS on updating: with 0 the value is this thread's.
DelCas(t) ==
  /\ Goto(t, "del_cas", "del_index")
  /\ updating[val[t]] = 0
  /\ updating' = [updating EXCEPT ![val[t]] = 1]
  /\ astray' = (astray \/ val[t] \in undone)
  /\ late' = (late \/ (t \notin inside /\ kinds[call[t].id] = "list"))
  /\ UNCHANGED <<bufVars, poolVars, key, incr, locals, bounds, undone, got, due, raced>>

\* Mutant: a delete that comes second takes the mark of the first one off.
DelBusyUnmark(t) ==
  /\ Goto(t, "del_cas", "del_enter")
  /\ updating[val[t]] # 0
  /\ updating' = [updating EXCEPT ![val[t]] = @ - 1]
  /\ val' = [val EXCEPT ![t] = Null]
  /\ UNCHANGED <<bufVars, poolVars, key, incr, call, at, from, num, bounds, history>>

\* Someone else has it: once more, without having left.
DelBusy(t) ==
  /\ Goto(t, "del_cas", "del_enter")
  /\ updating[val[t]] # 0
  /\ val' = [val EXCEPT ![t] = Null]
  /\ UNCHANGED <<bufVars, poolVars, valVars, call, at, from, num, bounds, history>>

\* The value is deleted from index after index; from counts those that did
\* not have it.
DelIndex(t) ==
  LET i == at[t]
  IN  /\ ~aborted /\ pc[t] = "del_index"
      /\ TakeOut(i, val[t])
      /\ from' = [from EXCEPT ![t] = @ + (IF Taken(i, val[t]) = {} THEN 1 ELSE 0)]
      /\ at' = [at EXCEPT ![t] = IF i = Len(kinds) THEN 1 ELSE i + 1]
      /\ pc' = [pc EXCEPT ![t] = IF i = Len(kinds) THEN "del_free" ELSE "del_index"]
      /\ UNCHANGED <<kinds, incr_key, poolVars, valVars, call, val, num, bounds,
                     undone, astray, late, got, raced>>

\* assert(all_deleted == 1): the process ends.
DelAssert(t) ==
  /\ ~aborted /\ pc[t] = "del_free" /\ from[t] # 0
  /\ aborted' = TRUE
  /\ UNCHANGED <<bufVars, poolVars, valVars, pc, locals, fails, calls, history>>

\* Mutant: the item goes back to the pool without waiting for the epoch.
DelFreeAtOnce(t) ==
  /\ Goto(t, "del_free", "del_leave")
  /\ from[t] = 0
  /\ state' = [state EXCEPT ![val[t]] = "free"]
  /\ UNCHANGED <<bufVars, has_init, inside, guards, valVars, locals, bounds, history>>

DelFree(t) ==
  /\ Goto(t, "del_free", "del_leave")
  /\ from[t] = 0
  /\ Pool!Retire(val[t])
  /\ UNCHANGED <<bufVars, has_init, valVars, locals, bounds, history>>

DelLeave(t) ==
  LET more == num[t] + 1 < call[t].top
  IN  /\ Goto(t, "del_leave", IF more THEN "del_enter" ELSE "idle")
      /\ LeaveEpoch(t)
      /\ IF more
         THEN /\ num' = [num EXCEPT ![t] = @ + 1] /\ val' = [val EXCEPT ![t] = Null]
              /\ UNCHANGED <<call, at, from, got, due, raced>>
         ELSE Forget(t)
      /\ UNCHANGED <<bufVars, has_init, valVars, bounds, undone, astray, late>>

DelLast(t) ==
  /\ Goto(t, "del_last", "idle")
  /\ LeaveEpoch(t)
  /\ Forget(t)
  /\ UNCHANGED <<bufVars, has_init, valVars, bounds, undone, astray, late>>

-----------------------------------------------------------------------------
Work(t) ==
  \/ PutEnter(t) \/ Make(t) \/ Made(t) \/ MakeFails(t) \/ AllocFails(t) \/ PutNone(t)
  \/ PutAlloc(t) \/ PutIndex(t) \/ PutIncr(t) \/ PutRefused(t) \/ PutUndo(t)
  \/ PutUnlock(t) \/ PutFree(t) \/ PutDone(t) \/ PutLeave(t)
  \/ GetEnter(t) \/ GetNext(t) \/ GetNone(t) \/ GetCopy(t) \/ GetLeave(t)
  \/ DelEnter(t) \/ DelGet(t) \/ DelNone(t) \/ DelCas(t) \/ DelBusy(t) \/ DelIndex(t)
  \/ DelAssert(t) \/ DelFree(t) \/ DelLeave(t) \/ DelLast(t)

\* The pool hands an item back when its promise allows it.
Reclaim(x) ==
  /\ ~aborted
  /\ Pool!Reclaim(x)
  /\ UNCHANGED <<bufVars, has_init, valVars, pc, locals, bounds, history>>

Next ==
  \/ \E t \in Threads : Put(t) \/ Get(t) \/ Del(t) \/ Work(t)
  \/ \E x \in Items : Reclaim(x)

Spec == Init /\ [][Next]_vars

\* The operating system keeps scheduling every thread; nobody has to call
\* anything, and the pool need not reclaim.
FairSpec == Spec /\ \A t \in Threads : WF_vars(Work(t))

-----------------------------------------------------------------------------
(* Properties                                                              *)

PutPCs == {"put_enter", "enter_make", "put_alloc", "alloc_make", "put_index", "put_incr",
           "put_undo", "put_free", "put_done", "put_leave"}
GetPCs == {"get_enter", "get_next", "get_copy", "get_leave"}
DelPCs == {"del_enter", "del_get", "del_cas", "del_index", "del_free", "del_leave", "del_last"}

\* Every variable has its type.
TypeOK ==
  /\ kinds \in Schemas
  /\ DOMAIN index = Indexes /\ incr_key \in [Indexes -> Nat]
  /\ \A i \in Indexes :
       index[i] \subseteq [key : KeysOf(kinds[i]), incr : 0 .. incr_key[i] - 1, val : Items]
  /\ has_init \in 0 .. 2
  /\ inside \subseteq Threads /\ guards \in [Items -> SUBSET Threads]
  /\ state \in [Items -> {"free", "linked", "retired"}]
  /\ key \in [Items -> [Indexes -> Keys \cup {Null}]] /\ incr \in [Items -> [Indexes -> Nat]]
  /\ updating \in [Items -> IF astray THEN Int ELSE {0, 1}]
  /\ pc \in [Threads -> {"idle"} \cup PutPCs \cup GetPCs \cup DelPCs]
  /\ \A t \in Threads : call[t].id \in Indexes /\ call[t].top \in Nat \ {0}
  /\ val \in [Threads -> Items \cup {Null}]
  /\ at \in [Threads -> Indexes]
  /\ from \in [Threads -> Nat] /\ num \in [Threads -> Nat]
  /\ got \in [Threads -> Seq(Nat)] /\ due \in [Threads -> SUBSET Nat]
  /\ raced \in [Threads -> BOOLEAN] /\ undone \subseteq Items
  /\ {aborted, astray, late} \subseteq BOOLEAN
  /\ fails \in 0 .. MaxFails /\ calls \in 0 .. MaxCalls

\* The threads that have the value in x to themselves: its put until it ends,
\* or the delete whose CAS has won.
Owners(x) ==
  {t \in Threads : /\ val[t] = x
                   /\ pc[t] \in {"put_index", "put_incr", "put_undo", "put_done",
                                 "del_index", "del_free"}}

In(i, x) == \E e \in index[i] : e.val = x

(* updating is a lock: a put and deletes of one value never work on its    *)
(* indexes at once, nor on an item that was given back; as long as no      *)
(* delete went on with a value that its put had taken back.                *)
OneOwner ==
  ~astray =>
    \A x \in Items :
      /\ \A t, u \in Owners(x) : t = u
      /\ Owners(x) # {} => updating[x] = 1 /\ state[x] = "linked"

(* "delete all indexs" (ab_buf.c:241) and "rollback and delete all keys has *)
(* inserted" (144): a value that nobody has to himself is in every index,  *)
(* under its key and incr, or in none, and then its item is given back.    *)
(* Nothing is in an index twice.  A list hands out its front, whatever was *)
(* marked: a delete that had not entered the class may mark a value that   *)
(* was given back and put again, and then takes out another one.           *)
IndexesAgree ==
  ~astray /\ ~late =>
    /\ \A i \in Indexes : \A e, f \in index[i] : e.val = f.val => e = f
    /\ \A x \in Items :
         Owners(x) = {} /\ (\A t \in Threads : val[t] = x => pc[t] # "put_free") =>
           \/ state[x] = "linked" /\ \A i \in Indexes :
                \E e \in index[i] : /\ e.val = x /\ e.key = key[x][i]
                                   /\ kinds[i] = "dupl" => e.incr = incr[x][i]
           \/ state[x] # "linked" /\ \A i \in Indexes : ~In(i, x)

(* The assertion of ab_buf_del_one holds, but for a delete that read the   *)
(* value before its put took it back and wins the CAS afterwards, and for  *)
(* those of a list (see IndexesAgree).                                     *)
AssertHolds == aborted => astray \/ late

\* A value comes and goes as a whole, and the code notices when it does not.
ValueWhole == IndexesAgree /\ AssertHolds

(* A value that a get copies or a delete deletes is still the one it read: *)
(* its item was not handed out again.  The exceptions are calls that had   *)
(* not entered the class, because it was not made yet or could not be, and *)
(* what follows when a delete goes on with a value that is not the one it  *)
(* read.                                                                   *)
NoStaleValue ==
  ~astray /\ ~late =>
    \A t \in Threads :
      pc[t] \in GetPCs \cup DelPCs /\ val[t] # Null /\ t \in inside => state[val[t]] # "free"

(* A get of a key of a dupl index returns values once and in the order of  *)
(* their incr, and all that were there from the call's beginning to its    *)
(* end if it has room; except when it met a value whose incr was not       *)
(* written yet, or one that may be stale (see NoStaleValue).               *)
MultiGet ==
  ~astray =>
    \A t \in inside :
      pc[t] = "get_leave" /\ kinds[call[t].id] = "dupl" /\ ~raced[t] =>
        /\ \A i, j \in DOMAIN got[t] : i < j => got[t][i] < got[t][j]
        /\ num[t] < call[t].top => \A n \in due[t] : \E i \in DOMAIN got[t] : got[t][i] = n

(* Every call returns: a delete that turns because a value is being put or *)
(* deleted, and a put that waits for the class to be made, do so only      *)
(* until the other thread is done.                                         *)
CallsReturn == \A t \in Threads : pc[t] # "idle" ~> pc[t] = "idle" \/ aborted
=============================================================================
