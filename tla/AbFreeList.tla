----------------------------- MODULE AbFreeList -----------------------------
(***************************************************************************)
(* The list of free items of abuf/ab_mem.c, thread-safe branches:          *)
(* ab_mem_alloc, ab_mem_get_head, ab_mem_put_head and ab_mem_new_block,    *)
(* one action per access to shared memory.  A head holds a count next to   *)
(* the pointer (AB_ABA_CNT_MASK), which is to make a CAS fail when the     *)
(* head was changed and changed back (the ABA problem).                    *)
(*                                                                         *)
(* A thread that allocated an item gives it back through put_head; the     *)
(* stay in an epoch list in between is AbEpoch's subject and is part of    *)
(* the time the item is out here.                                          *)
(***************************************************************************)
EXTENDS Integers, FiniteSets

CONSTANTS Threads,
          BlockSize,   \* num_per_block
          NumBlocks,   \* malloc fails once so many blocks were handed out
          MemId,       \* mem_id: 0 in a container's pool, else in an mpool
          CntMod,      \* counts are kept modulo CntMod: 2^16
          MaxCalls     \* bound: number of calls of alloc and put

ASSUME BlockAssumption == BlockSize \in Nat \ {0} /\ NumBlocks \in Nat \ {0}
ASSUME MemIdAssumption == MemId \in Nat
ASSUME CntAssumption == CntMod \in Nat \ {0} /\ MaxCalls \in Nat

Blocks == 1 .. NumBlocks
Items == 1 .. NumBlocks * BlockSize
Null == 0
First(b) == (b - 1) * BlockSize + 1
Last(b) == b * BlockSize
BlockItems(b) == First(b) .. Last(b)

(* A tagged pointer. *)
Ptr(c, p) == [cnt |-> c, ptr |-> p]
Ptrs == [cnt : 0 .. CntMod - 1, ptr : Items \cup {Null}]
NullPtr == Ptr(0, Null)

(* Mutants: the count is taken over unchanged; the mask is forgotten. *)
AbaKeep(f, p) == Ptr(f.cnt, p)
AbaWide(f, p) == Ptr(f.cnt + 1, p)

(* ABA_MASK_INCR: p with the count of f plus one. *)
AbaIncr(f, p) == Ptr((f.cnt + 1) % CntMod, p)

VARIABLES
  free_head,     \* tagged pointer to the first free item
  next,          \* per item: its next field, a tagged pointer or the mem_id
  used,          \* number of blocks malloc has handed out
  block_head,    \* the blocks that ab_mem_destory will free
  out,           \* per item: how many callers of ab_mem_alloc hold it
  pc,            \* per thread: the next access to shared memory
  old,           \* per thread: the head it read
  nxt,           \* per thread: the next field it read
  item,          \* per thread: item to put, item allocated, or block to link
  calls,         \* number of calls so far
  reset,         \* history, per thread: a block was linked since it read the head
  astray         \* history: a CAS of get_head has put in a next that was not
                 \* the head's any more

history == <<reset, astray>>
vars == <<free_head, next, used, block_head, out, pc, old, nxt, item,
          calls, history>>

(* In a new block every item points to the one after it. *)
Chained(f, b) ==
  [x \in Items |-> IF x \in BlockItems(b)
                   THEN Ptr(0, IF x = Last(b) THEN Null ELSE x + 1) ELSE f[x]]

(* ab_mem_init allocates the first block. *)
Init ==
  /\ free_head = Ptr(0, First(1))
  /\ next = Chained([x \in Items |-> NullPtr], 1)
  /\ used = 1
  /\ block_head = {1}
  /\ out = [x \in Items |-> 0]
  /\ pc = [t \in Threads |-> "idle"]
  /\ old = [t \in Threads |-> NullPtr]
  /\ nxt = [t \in Threads |-> Null]
  /\ item = [t \in Threads |-> Null]
  /\ calls = 0
  /\ reset = [t \in Threads |-> FALSE] /\ astray = FALSE

Goto(t, from, to) == pc[t] = from /\ pc' = [pc EXCEPT ![t] = to]

-----------------------------------------------------------------------------
(* ab_mem_alloc and ab_mem_get_head                                        *)

Alloc(t) ==
  /\ calls < MaxCalls
  /\ Goto(t, "idle", "get_read")
  /\ calls' = calls + 1
  /\ UNCHANGED <<free_head, next, used, block_head, out, old, nxt, item, history>>

(* An empty list makes ab_mem_alloc ask for a block. *)
GetRead(t) ==
  /\ Goto(t, "get_read", IF free_head.ptr = Null THEN "malloc" ELSE "get_next")
  /\ old' = [old EXCEPT ![t] = free_head]
  /\ reset' = [reset EXCEPT ![t] = FALSE]
  /\ UNCHANGED <<free_head, next, used, block_head, out, nxt, item, calls, astray>>

(* The item may be someone else's by now: its memory is still there.       *)
GetNext(t) ==
  /\ Goto(t, "get_next", "get_cas")
  /\ nxt' = [nxt EXCEPT ![t] = next[old[t].ptr].ptr]
  /\ UNCHANGED <<free_head, next, used, block_head, out, old, item, calls, history>>

GetCas(t) ==
  /\ free_head = old[t]
  /\ Goto(t, "get_cas", IF MemId = 0 THEN "idle" ELSE "set_id")
  /\ free_head' = AbaIncr(old[t], nxt[t])
  /\ out' = [out EXCEPT ![old[t].ptr] = @ + 1]
  /\ item' = [item EXCEPT ![t] = IF MemId = 0 THEN Null ELSE old[t].ptr]
  /\ old' = [old EXCEPT ![t] = NullPtr]
  /\ nxt' = [nxt EXCEPT ![t] = Null]
  /\ astray' = (astray \/ nxt[t] # next[old[t].ptr].ptr)
  /\ reset' = [reset EXCEPT ![t] = FALSE]
  /\ UNCHANGED <<next, used, block_head, calls>>

GetRetry(t) ==
  /\ free_head # old[t]
  /\ Goto(t, "get_cas", "get_read")
  /\ old' = [old EXCEPT ![t] = NullPtr]
  /\ nxt' = [nxt EXCEPT ![t] = Null]
  /\ reset' = [reset EXCEPT ![t] = FALSE]
  /\ UNCHANGED <<free_head, next, used, block_head, out, item, calls, astray>>

(* In an mpool the next field of an allocated item holds the mem_id, which *)
(* is not the address of an item.                                          *)
SetId(t) ==
  /\ Goto(t, "set_id", "idle")
  /\ next' = [next EXCEPT ![item[t]] = NullPtr]
  /\ item' = [item EXCEPT ![t] = Null]
  /\ UNCHANGED <<free_head, used, block_head, out, old, nxt, calls, history>>

-----------------------------------------------------------------------------
(* ab_mem_new_block                                                        *)

(* The block is private until it is linked. *)
Malloc(t) ==
  /\ used < NumBlocks
  /\ Goto(t, "malloc", "block_read")
  /\ used' = used + 1
  /\ next' = Chained(next, used + 1)
  /\ item' = [item EXCEPT ![t] = used + 1]
  /\ UNCHANGED <<free_head, block_head, out, old, nxt, calls, history>>

(* ab_mem_alloc returns NULL. *)
MallocFails(t) ==
  /\ used = NumBlocks
  /\ Goto(t, "malloc", "idle")
  /\ old' = [old EXCEPT ![t] = NullPtr]
  /\ UNCHANGED <<free_head, next, used, block_head, out, nxt, item, calls, history>>

BlockRead(t) ==
  /\ Goto(t, "block_read", "block_cas")
  /\ old' = [old EXCEPT ![t] = free_head]
  /\ next' = [next EXCEPT ![Last(item[t])] = free_head]
  /\ UNCHANGED <<free_head, used, block_head, out, nxt, item, calls, history>>

(* The new head is the plain address of the block's first item.  free_num, *)
(* which is raised next and which nothing reads, is left out.              *)
BlockCas(t) ==
  /\ free_head = old[t]
  /\ Goto(t, "block_cas", "block_keep")
  /\ free_head' = Ptr(0, First(item[t]))
  /\ reset' = [s \in Threads |-> reset[s] \/ pc[s] \in {"get_next", "get_cas"}]
  /\ UNCHANGED <<next, used, block_head, out, old, nxt, item, calls, astray>>

BlockRetry(t) ==
  /\ free_head # old[t]
  /\ Goto(t, "block_cas", "block_read")
  /\ UNCHANGED <<free_head, next, used, block_head, out, old, nxt, item, calls, history>>

(* The CAS loop on block_head: blocks are only ever added to that list, so *)
(* a failed turn of the loop has no effect.  Then ab_mem_alloc tries again.*)
BlockKeep(t) ==
  /\ Goto(t, "block_keep", "get_read")
  /\ block_head' = block_head \cup {item[t]}
  /\ old' = [old EXCEPT ![t] = NullPtr]
  /\ item' = [item EXCEPT ![t] = Null]
  /\ UNCHANGED <<free_head, next, used, out, nxt, calls, history>>

-----------------------------------------------------------------------------
(* ab_mem_put_head                                                         *)

(* The holder of an item gives it back. *)
Put(t, x) ==
  /\ calls < MaxCalls
  /\ out[x] > 0
  /\ \A s \in Threads : pc[s] = "set_id" => item[s] # x
  /\ Goto(t, "idle", "put_read")
  /\ out' = [out EXCEPT ![x] = @ - 1]
  /\ item' = [item EXCEPT ![t] = x]
  /\ calls' = calls + 1
  /\ UNCHANGED <<free_head, next, used, block_head, old, nxt, history>>

PutRead(t) ==
  /\ Goto(t, "put_read", "put_link")
  /\ old' = [old EXCEPT ![t] = free_head]
  /\ UNCHANGED <<free_head, next, used, block_head, out, nxt, item, calls, history>>

PutLink(t) ==
  /\ Goto(t, "put_link", "put_cas")
  /\ next' = [next EXCEPT ![item[t]] = old[t]]
  /\ UNCHANGED <<free_head, used, block_head, out, old, nxt, item, calls, history>>

PutCas(t) ==
  /\ free_head = old[t]
  /\ Goto(t, "put_cas", "idle")
  /\ free_head' = AbaIncr(old[t], item[t])
  /\ item' = [item EXCEPT ![t] = Null]
  /\ old' = [old EXCEPT ![t] = NullPtr]
  /\ UNCHANGED <<next, used, block_head, out, nxt, calls, history>>

(* Mutant: the CAS is tried again with the head it finds, but without      *)
(* linking the item to it.                                                 *)
PutRetryStale(t) ==
  /\ free_head # old[t]
  /\ Goto(t, "put_cas", "put_cas")
  /\ old' = [old EXCEPT ![t] = free_head]
  /\ UNCHANGED <<free_head, next, used, block_head, out, nxt, item, calls, history>>

PutRetry(t) ==
  /\ free_head # old[t]
  /\ Goto(t, "put_cas", "put_read")
  /\ UNCHANGED <<free_head, next, used, block_head, out, old, nxt, item, calls, history>>

-----------------------------------------------------------------------------
Work(t) ==
  \/ GetRead(t) \/ GetNext(t) \/ GetCas(t) \/ GetRetry(t) \/ SetId(t)
  \/ Malloc(t) \/ MallocFails(t)
  \/ BlockRead(t) \/ BlockCas(t) \/ BlockRetry(t) \/ BlockKeep(t)
  \/ PutRead(t) \/ PutLink(t) \/ PutCas(t) \/ PutRetry(t)

Call(t) == Alloc(t) \/ \E x \in Items : Put(t, x)

Next == \E t \in Threads : Work(t) \/ Call(t)

Spec == Init /\ [][Next]_vars

-----------------------------------------------------------------------------
(* Properties                                                              *)

PCs == {"idle", "get_read", "get_next", "get_cas", "set_id", "malloc",
        "block_read", "block_cas", "block_keep", "put_read", "put_link",
        "put_cas"}
PutPCs == {"put_read", "put_link", "put_cas"}

(* Every variable has its type. *)
TypeOK ==
  /\ free_head \in Ptrs
  /\ next \in [Items -> Ptrs]
  /\ used \in Blocks
  /\ block_head \subseteq Blocks
  /\ out \in [Items -> Nat]
  /\ pc \in [Threads -> PCs]
  /\ old \in [Threads -> Ptrs]
  /\ nxt \in [Threads -> Items \cup {Null}]
  /\ item \in [Threads -> Items \cup Blocks \cup {Null}]
  /\ calls \in 0 .. MaxCalls
  /\ reset \in [Threads -> BOOLEAN] /\ astray \in BOOLEAN

(* "从free_head中获取计数+1，用于新的free_head，保证CSA的准确性" (the count *)
(* guarantees the accuracy of the CAS, ab_mem.md:22): when the CAS of      *)
(* get_head is about to succeed, the next field it will install is still   *)
(* the one of the head.  It does not when a block was linked meanwhile,    *)
(* which starts the count at zero again.                                   *)
CasAccurate ==
  \A t \in Threads :
    pc[t] = "get_cas" /\ free_head = old[t] /\ ~reset[t] /\ ~astray
      => nxt[t] = next[free_head.ptr].ptr

(* The items reachable from free_head. *)
OnList ==
  LET walk[n \in 0 .. Cardinality(Items)] ==
        IF n = 0 THEN free_head.ptr
        ELSE IF walk[n - 1] = Null THEN Null ELSE next[walk[n - 1]].ptr
  IN  {walk[n] : n \in 0 .. Cardinality(Items)} \ {Null}

(* The items threads are putting back. *)
InHand(x) == {t \in Threads : pc[t] \in PutPCs /\ item[t] = x}

(* The items of blocks that have been linked. *)
Linked ==
  UNION {BlockItems(b) : b \in {c \in 1 .. used :
    \A t \in Threads : pc[t] \in {"block_read", "block_cas"} => item[t] # c}}

(* No item is lost and none has two owners: each one is on the free list,  *)
(* or with one caller of ab_mem_alloc, or on its way back.                 *)
OnePlace ==
  ~astray => \A x \in Linked :
    out[x] + Cardinality(InHand(x)) + (IF x \in OnList THEN 1 ELSE 0) = 1

(* When no call is running, ab_mem_destory would free every block.         *)
BlocksKept ==
  (\A t \in Threads : pc[t] = "idle") => block_head = 1 .. used

(* Neither items nor blocks are lost, whoever wins the CASes on the two    *)
(* heads; items as long as no CAS went astray.                             *)
NothingLost == OnePlace /\ BlocksKept
==============================================================================
