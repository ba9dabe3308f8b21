------------------------------- MODULE AbHash --------------------------------
(***************************************************************************)
(* The hash index of abuf/ab_hash.c: ab_hash_insert, ab_hash_get,          *)
(* ab_hash_delete and what they call, one action per access to memory that *)
(* another thread can change.                                              *)
(*                                                                         *)
(* All nodes are on one chain, ordered by the hash number, which is the    *)
(* hash with its bits reversed.  The table's entries point to dummy nodes  *)
(* on the chain; the table doubles and new entries are made when an insert *)
(* first needs them.                                                       *)
(*                                                                         *)
(* Epochs play no part: only a node that was never linked is given back to *)
(* the pool (ab_hash.c:110), a deleted one is not.  Allocation does not    *)
(* fail here.  A block of entries that is not allocated yet counts as a    *)
(* block of NULL entries.                                                  *)
(***************************************************************************)
EXTENDS Integers, Sequences, FiniteSets

CONSTANTS Threads,
          Keys,
          Hash,              \* hashfunc, per key
          NoKey,             \* the key of a dummy
          Null,
          Bits,              \* width of a hash: 32
          ENTRYS_PER_BLOCK,  \* entries of a block, and blocks of the table
          MaxNodes,          \* bound: nodes in the pool
          MaxInserts,        \* bound: calls of ab_hash_insert
          Ops,               \* the operations that are called
          NumMod             \* num is unsigned: it is kept modulo NumMod, 2^64

BUCKET_MAX == ENTRYS_PER_BLOCK * ENTRYS_PER_BLOCK
Nodes == 1 .. MaxNodes

(* The powers of two. *)
TwoTo[n \in Nat] == IF n = 0 THEN 1 ELSE 2 * TwoTo[n - 1]

ASSUME ThreadAssumption == IsFiniteSet(Threads)
ASSUME KeyAssumption == NoKey \notin Keys /\ Null \notin Nodes
ASSUME HashAssumption == Hash \in [Keys -> 0 .. TwoTo[Bits] - 1]
(* No bucket has the highest bit of a hash (4094^2 entries, 32 bits), so   *)
(* the hash numbers of dummies are even.                                   *)
ASSUME BoundAssumption ==
  /\ {Bits, ENTRYS_PER_BLOCK, MaxNodes} \subseteq Nat \ {0}
  /\ MaxInserts \in Nat /\ NumMod \in Nat \ {0}
  /\ 4 * BUCKET_MAX <= TwoTo[Bits]
ASSUME OpAssumption == Ops \subseteq {"insert", "delete", "get"}

VARIABLES
  num, size, maxload,      \* fields of ab_hash_t
  entrys,                  \* per bucket: its dummy, or Null
  next,                    \* per node: the node behind, and the delete flag
  hashnr, key,             \* per node: written before the node is linked
  free,                    \* the nodes that can be allocated
  pc, op, arg,             \* per thread: next access, operation, its key
  bucket,                  \* per thread: argument of ab_hash_entry_insert/get
  stack,                   \* per thread: <<bucket, dummy>> of the calls of
                           \* ab_hash_entry_insert that wait for a parent
  entry, prev, cur, node,  \* per thread: locals
  sz, ml,                  \* per thread: locals of ab_hash_check_resize
  inserts,                 \* calls of ab_hash_insert so far
  dict,                    \* history, per key: the node that was linked last
                           \* and not unlinked, and whether it is marked
  seen                     \* history: states of its key during a call

tableVars == <<num, size, maxload, entrys>>
nodeVars == <<next, hashnr, key, free>>
callVars == <<op, arg>>
locals == <<bucket, stack, entry, prev, cur, node, sz, ml>>
history == <<inserts, dict, seen>>
vars == <<tableVars, nodeVars, pc, callVars, locals, history>>

(* ab_reverse_bits *)
Reverse(v) ==
  LET rev[n \in 0 .. Bits] ==
        IF n = 0 THEN 0 ELSE 2 * rev[n - 1] + ((v \div TwoTo[n - 1]) % 2)
  IN  rev[Bits]

HashNr(k) == LET r == Reverse(Hash[k]) IN IF r % 2 = 0 THEN r + 1 ELSE r

(* ab_clear_highest_bit: the bucket this one was split from. *)
Parent(b) ==
  b - (CHOOSE p \in {TwoTo[n] : n \in 0 .. Bits} : p <= b /\ b < 2 * p)

IsDummy(n) == key[n] = NoKey
Buckets == 0 .. 2 * BUCKET_MAX - 1
list_head == 1

Absent == [val |-> Null, leaving |-> FALSE]

Init ==
  /\ num = 0
  /\ size = 2
  /\ maxload = 1
  /\ entrys = [b \in Buckets |-> Null]
  /\ next = [n \in Nodes |-> [to |-> Null, del |-> FALSE]]
  /\ hashnr = [n \in Nodes |-> 0]
  /\ key = [n \in Nodes |-> NoKey]
  /\ free = Nodes \ {list_head}
  /\ pc = [t \in Threads |-> "idle"]
  /\ op = [t \in Threads |-> "none"]
  /\ arg = [t \in Threads |-> NoKey]
  /\ bucket = [t \in Threads |-> 0]
  /\ stack = [t \in Threads |-> <<>>]
  /\ entry = [t \in Threads |-> Null]
  /\ prev = [t \in Threads |-> Null]
  /\ cur = [t \in Threads |-> Null]
  /\ node = [t \in Threads |-> Null]
  /\ sz = [t \in Threads |-> 0]
  /\ ml = [t \in Threads |-> 0]
  /\ inserts = 0
  /\ dict = [k \in Keys |-> Absent]
  /\ seen = [t \in Threads |-> {}]

(* The chain, as the set of nodes that can be reached from list_head. *)
Chain ==
  LET reach[n \in 0 .. MaxNodes] ==
        IF n = 0 THEN {list_head}
        ELSE LET r == reach[n - 1]
             IN  r \cup ({next[x].to : x \in r} \ {Null})
  IN  reach[MaxNodes]

(* The nodes of keys on the chain. *)
Stored == {n \in Chain : ~IsDummy(n)}

Goto(t, from, to) == pc[t] = from /\ pc' = [pc EXCEPT ![t] = to]

(* History: the key k becomes v, for every call that is about it. *)
Becomes(k, v) ==
  /\ dict' = [dict EXCEPT ![k] = v]
  /\ seen' = [t \in Threads |-> IF pc[t] # "idle" /\ arg[t] = k
                                THEN seen[t] \cup {v} ELSE seen[t]]

(* ab_mem_alloc; the node is private until it is linked. *)
Alloc(x, h, k) ==
  /\ x \in free
  /\ \A y \in free : x <= y
  /\ free' = free \ {x}
  /\ hashnr' = [hashnr EXCEPT ![x] = h]
  /\ key' = [key EXCEPT ![x] = k]

-----------------------------------------------------------------------------
(* The calls: size is read once, and the bucket computed from it.          *)

Begin(t, o, k, to) ==
  /\ o \in Ops
  /\ Goto(t, "idle", to)
  /\ op' = [op EXCEPT ![t] = o]
  /\ arg' = [arg EXCEPT ![t] = k]
  /\ bucket' = [bucket EXCEPT ![t] = Hash[k] % size]
  /\ seen' = [seen EXCEPT ![t] = {dict[k]}]
  /\ UNCHANGED <<dict, tableVars, next, stack, entry, prev, cur, sz, ml>>

Insert(t, k) ==
  /\ inserts < MaxInserts
  /\ inserts' = inserts + 1
  /\ \E x \in free : /\ Alloc(x, HashNr(k), k)
                     /\ node' = [node EXCEPT ![t] = x]
  /\ Begin(t, "insert", k, "ent_insert")

Get(t, k) ==
  /\ Begin(t, "get", k, "ent_get")
  /\ UNCHANGED <<hashnr, key, free, node, inserts>>

Delete(t, k) ==
  /\ Begin(t, "delete", k, "ent_get")
  /\ UNCHANGED <<hashnr, key, free, node, inserts>>

(* A search starts at e, and the bucket is not needed any more; or it ends. *)
StartAt(t, e) ==
  /\ bucket' = [bucket EXCEPT ![t] = 0]
  /\ entry' = [entry EXCEPT ![t] = e]
  /\ prev' = [prev EXCEPT ![t] = e]
EndSearch(t) == StartAt(t, Null)

Return(t) ==
  /\ Goto(t, "return", "idle")
  /\ op' = [op EXCEPT ![t] = "none"]
  /\ arg' = [arg EXCEPT ![t] = NoKey]
  /\ EndSearch(t)
  /\ node' = [node EXCEPT ![t] = Null]
  /\ sz' = [sz EXCEPT ![t] = 0]
  /\ ml' = [ml EXCEPT ![t] = 0]
  /\ seen' = [seen EXCEPT ![t] = {}]
  /\ UNCHANGED <<tableVars, nodeVars, stack, cur, inserts, dict>>

(* The call answers NULL or false: node is what it found or put in. *)
Fail(t, from) ==
  /\ Goto(t, from, "return")
  /\ node' = [node EXCEPT ![t] = Null]
  /\ EndSearch(t)

-----------------------------------------------------------------------------
(* ab_hash_entry_insert and ab_hash_entry_get                              *)

(* The entry exists. *)
EntFound(t) ==
  /\ Goto(t, "ent_insert", "ins_find")
  /\ entrys[bucket[t]] # Null
  /\ StartAt(t, entrys[bucket[t]])
  /\ UNCHANGED <<tableVars, nodeVars, callVars, stack, cur, node, sz, ml,
                 history>>

(* Bucket 0 starts at the head of the chain.  A dummy was allocated for it *)
(* all the same (ab_hash.c:397) and is lost.                               *)
EntHead(t) ==
  /\ Goto(t, "ent_insert", "ins_find")
  /\ bucket[t] = 0
  /\ entrys[0] = Null
  /\ entrys' = [entrys EXCEPT ![0] = list_head]
  /\ StartAt(t, list_head)
  /\ UNCHANGED <<num, size, maxload, nodeVars, callVars, stack, cur, node, sz,
                 ml, history>>

(* A dummy is made, and the parent's entry is needed first. *)
EntParent(t) ==
  /\ pc[t] = "ent_insert"
  /\ bucket[t] # 0
  /\ entrys[bucket[t]] = Null
  /\ \E d \in free :
       /\ Alloc(d, Reverse(bucket[t]), NoKey)
       /\ stack' = [stack EXCEPT ![t] = <<<<bucket[t], d>>>> \o @]
  /\ bucket' = [bucket EXCEPT ![t] = Parent(@)]
  /\ UNCHANGED <<tableVars, next, pc, callVars, entry, prev, cur, node, sz, ml,
                 history>>

(* Without an entry a search starts at the nearest ancestor's. *)
EntGetParent(t) ==
  /\ pc[t] = "ent_get"
  /\ bucket[t] # 0
  /\ entrys[bucket[t]] = Null
  /\ bucket' = [bucket EXCEPT ![t] = Parent(@)]
  /\ UNCHANGED <<tableVars, nodeVars, pc, callVars, stack, entry, prev, cur,
                 node, sz, ml, history>>

EntGetNone(t) ==
  /\ Fail(t, "ent_get")
  /\ bucket[t] = 0
  /\ entrys[0] = Null
  /\ UNCHANGED <<tableVars, nodeVars, callVars, stack, cur, sz, ml, history>>

EntGet(t) ==
  /\ Goto(t, "ent_get", "key_find")
  /\ entrys[bucket[t]] # Null
  /\ StartAt(t, entrys[bucket[t]])
  /\ UNCHANGED <<tableVars, nodeVars, callVars, stack, cur, node, sz, ml,
                 history>>

-----------------------------------------------------------------------------
(* ab_hash_list_insert with ab_hash_find_ge: the node is a dummy of        *)
(* ab_hash_entry_insert, or the node of the call.                          *)

Subject(t) == IF stack[t] = <<>> THEN node[t] ELSE Head(stack[t])[2]
After(t) == next[prev[t]].to
Passed(n, h) == n # Null => hashnr[n] > h

InsWalk(t) ==
  /\ pc[t] = "ins_find"
  /\ ~Passed(After(t), hashnr[Subject(t)])
  /\ IsDummy(Subject(t)) \/ key[After(t)] # key[Subject(t)]
  /\ prev' = [prev EXCEPT ![t] = After(t)]
  /\ UNCHANGED <<tableVars, nodeVars, pc, callVars, bucket, stack, entry, cur,
                 node, sz, ml, history>>

InsFound(t) ==
  /\ Goto(t, "ins_find", "ins_cas")
  /\ Passed(After(t), hashnr[Subject(t)])
  /\ cur' = [cur EXCEPT ![t] = After(t)]
  /\ UNCHANGED <<tableVars, nodeVars, callVars, bucket, stack, entry, prev,
                 node, sz, ml, history>>

(* The key is there, perhaps about to be unlinked: the new node was never  *)
(* linked and goes back to the pool.                                       *)
InsDuplicate(t) ==
  /\ Fail(t, "ins_find")
  /\ ~IsDummy(Subject(t))
  /\ ~Passed(After(t), hashnr[node[t]])
  /\ key[After(t)] = key[node[t]]
  /\ free' = free \cup {node[t]}
  /\ UNCHANGED <<tableVars, next, hashnr, key, callVars, stack, cur, sz, ml,
                 history>>

Link(t) ==
  next' = [next EXCEPT ![Subject(t)] = [to |-> cur[t], del |-> FALSE],
                       ![prev[t]] = [to |-> Subject(t), del |-> FALSE]]

(* Mutant: only the delete flag is compared. *)
InsLinkBlind(t) ==
  /\ Goto(t, "ins_cas", IF stack[t] = <<>> THEN "num_add" ELSE "ent_set")
  /\ ~next[prev[t]].del
  /\ Link(t)
  /\ cur' = [cur EXCEPT ![t] = Null]
  /\ IF stack[t] = <<>>
     THEN /\ Becomes(arg[t], [val |-> node[t], leaving |-> FALSE])
          /\ EndSearch(t)
     ELSE UNCHANGED <<dict, seen, bucket, entry, prev>>
  /\ UNCHANGED <<tableVars, hashnr, key, free, callVars, stack, node, sz, ml,
                 inserts>>

(* The CAS fails if the next node is another one, or prev is deleted.      *)
InsLink(t) ==
  /\ Goto(t, "ins_cas", IF stack[t] = <<>> THEN "num_add" ELSE "ent_set")
  /\ next[prev[t]] = [to |-> cur[t], del |-> FALSE]
  /\ Link(t)
  /\ cur' = [cur EXCEPT ![t] = Null]
  /\ IF stack[t] = <<>>
     THEN /\ Becomes(arg[t], [val |-> node[t], leaving |-> FALSE])
          /\ EndSearch(t)
     ELSE UNCHANGED <<dict, seen, bucket, entry, prev>>
  /\ UNCHANGED <<tableVars, hashnr, key, free, callVars, stack, node, sz, ml,
                 inserts>>

InsRetry(t) ==
  /\ Goto(t, "ins_cas", "ins_find")
  /\ next[prev[t]] # [to |-> cur[t], del |-> FALSE]
  /\ prev' = [prev EXCEPT ![t] = entry[t]]
  /\ cur' = [cur EXCEPT ![t] = Null]
  /\ UNCHANGED <<tableVars, nodeVars, callVars, bucket, stack, entry, node, sz,
                 ml, history>>

-----------------------------------------------------------------------------
(* The end of ab_hash_entry_insert                                         *)

(* ab_hash_entry_insert returns e: it is where the search of the caller    *)
(* starts, for the dummy of a bucket or for the node.                      *)
EntReturn(t, from, e) ==
  /\ Goto(t, from, "ins_find")
  /\ stack' = [stack EXCEPT ![t] = Tail(@)]
  /\ StartAt(t, e)

EntSet(t) ==
  LET b == Head(stack[t])[1]
  IN  /\ pc[t] = "ent_set"
      /\ entrys[b] = Null
      /\ entrys' = [entrys EXCEPT ![b] = Subject(t)]
      /\ EntReturn(t, "ent_set", Subject(t))
      /\ UNCHANGED <<num, size, maxload, nodeVars, callVars, cur, node, sz, ml,
                     history>>

(* Another thread was first: the own dummy is taken out again. *)
EntLost(t) ==
  /\ Goto(t, "ent_set", "node_find")
  /\ entrys[Head(stack[t])[1]] # Null
  /\ prev' = [prev EXCEPT ![t] = entry[t]]
  /\ UNCHANGED <<tableVars, nodeVars, callVars, bucket, stack, entry, cur,
                 node, sz, ml, history>>

-----------------------------------------------------------------------------
(* ab_hash_find_key for ab_hash_get and ab_hash_delete                     *)

KeyWalk(t) ==
  /\ pc[t] = "key_find"
  /\ ~Passed(After(t), HashNr(arg[t]))
  /\ key[After(t)] # arg[t]
  /\ prev' = [prev EXCEPT ![t] = After(t)]
  /\ UNCHANGED <<tableVars, nodeVars, pc, callVars, bucket, stack, entry, cur,
                 node, sz, ml, history>>

KeyNone(t) ==
  /\ Fail(t, "key_find")
  /\ Passed(After(t), HashNr(arg[t]))
  /\ UNCHANGED <<tableVars, nodeVars, callVars, stack, cur, sz, ml, history>>

(* Mutant: a delete unlinks the node without setting its flag. *)
KeyFoundNoMark(t) ==
  /\ Goto(t, "key_find", IF op[t] = "get" THEN "return" ELSE "unlink")
  /\ ~Passed(After(t), HashNr(arg[t]))
  /\ key[After(t)] = arg[t]
  /\ node' = [node EXCEPT ![t] = After(t)]
  /\ UNCHANGED <<tableVars, nodeVars, callVars, bucket, stack, entry, prev,
                 cur, sz, ml, history>>

(* Nobody looks at the delete flag of the node that is found. *)
KeyFound(t) ==
  /\ Goto(t, "key_find", IF op[t] = "get" THEN "return" ELSE "mark")
  /\ ~Passed(After(t), HashNr(arg[t]))
  /\ key[After(t)] = arg[t]
  /\ node' = [node EXCEPT ![t] = After(t)]
  /\ UNCHANGED <<tableVars, nodeVars, callVars, bucket, stack, entry, prev,
                 cur, sz, ml, history>>

-----------------------------------------------------------------------------
(* ab_hash_list_delete, for the node that was found and for a dummy that   *)
(* lost the race.  The loop that sets the flag is one step: it ends with a *)
(* CAS on what it has read, or with a flag that is never cleared.          *)

Mark(t) ==
  /\ Goto(t, "mark", "unlink")
  /\ ~next[Subject(t)].del
  /\ next' = [next EXCEPT ![Subject(t)].del = TRUE]
  /\ IF stack[t] = <<>>
     THEN Becomes(arg[t], [val |-> node[t], leaving |-> TRUE])
     ELSE UNCHANGED <<dict, seen>>
  /\ UNCHANGED <<tableVars, hashnr, key, free, callVars, locals, inserts>>

(* Mutant: a delete that comes second answers with the value too. *)
MarkLostWins(t) ==
  /\ Goto(t, "mark", "return")
  /\ next[Subject(t)].del
  /\ EndSearch(t)
  /\ UNCHANGED <<tableVars, nodeVars, callVars, stack, cur, node, sz, ml,
                 history>>

(* Another thread is deleting the node. *)
MarkLost(t) ==
  /\ Fail(t, "mark")
  /\ next[Subject(t)].del
  /\ UNCHANGED <<tableVars, nodeVars, callVars, stack, cur, sz, ml, history>>

(* A node with its flag set keeps its next node. *)
Bypass(t) ==
  next' = [next EXCEPT ![prev[t]].to = next[Subject(t)].to]

DummyGone(t, from) ==
  /\ stack[t] # <<>>
  /\ EntReturn(t, from, entrys[Head(stack[t])[1]])
  /\ UNCHANGED <<node, dict, seen>>

NodeGone(t) ==
  /\ stack[t] = <<>>
  /\ Goto(t, "unlink", "num_sub")
  /\ Becomes(arg[t], Absent)
  /\ EndSearch(t)
  /\ UNCHANGED <<stack, node>>

Unlink(t) ==
  /\ pc[t] = "unlink"
  /\ next[prev[t]] = [to |-> Subject(t), del |-> FALSE]
  /\ Bypass(t)
  /\ NodeGone(t) \/ DummyGone(t, "unlink")
  /\ UNCHANGED <<tableVars, hashnr, key, free, callVars, cur, sz, ml, inserts>>

(* Mutant: the CAS is tried again on the same node. *)
UnlinkSpin(t) ==
  /\ Goto(t, "unlink", "unlink")
  /\ next[prev[t]] # [to |-> Subject(t), del |-> FALSE]
  /\ UNCHANGED <<tableVars, nodeVars, callVars, locals, history>>

UnlinkRetry(t) ==
  /\ Goto(t, "unlink", "node_find")
  /\ next[prev[t]] # [to |-> Subject(t), del |-> FALSE]
  /\ prev' = [prev EXCEPT ![t] = entry[t]]
  /\ UNCHANGED <<tableVars, nodeVars, callVars, bucket, stack, entry, cur,
                 node, sz, ml, history>>

(* ab_hash_find_node: the node before the one to delete, which gives up at *)
(* the first node with the same hash number that is not it.                *)
NodeWalk(t) ==
  /\ pc[t] = "node_find"
  /\ After(t) # Subject(t)
  /\ ~Passed(After(t), hashnr[Subject(t)] - 1)
  /\ prev' = [prev EXCEPT ![t] = After(t)]
  /\ UNCHANGED <<tableVars, nodeVars, pc, callVars, bucket, stack, entry, cur,
                 node, sz, ml, history>>

NodeFound(t) ==
  /\ Goto(t, "node_find", IF next[Subject(t)].del THEN "unlink" ELSE "mark")
  /\ After(t) = Subject(t)
  /\ UNCHANGED <<tableVars, nodeVars, callVars, locals, history>>

(* The dummy stays on the chain; or the node stays, with its flag set, and *)
(* the call answers NULL.                                                  *)
NodeNone(t) ==
  /\ pc[t] = "node_find"
  /\ After(t) # Subject(t)
  /\ Passed(After(t), hashnr[Subject(t)] - 1)
  /\ \/ DummyGone(t, "node_find")
     \/ /\ stack[t] = <<>>
        /\ Fail(t, "node_find")
        /\ UNCHANGED <<stack, dict, seen>>
  /\ UNCHANGED <<tableVars, nodeVars, callVars, cur, sz, ml, inserts>>

(* Mutant: a signed count. *)
NumSubPlain(t) ==
  /\ Goto(t, "num_sub", "return")
  /\ num' = num - 1
  /\ UNCHANGED <<size, maxload, entrys, nodeVars, callVars, locals, history>>

NumSub(t) ==
  /\ Goto(t, "num_sub", "return")
  /\ num' = (num - 1) % NumMod
  /\ UNCHANGED <<size, maxload, entrys, nodeVars, callVars, locals, history>>

-----------------------------------------------------------------------------
(* The end of ab_hash_insert, with ab_hash_check_resize                    *)

NumAdd(t) ==
  /\ Goto(t, "num_add", "rs_size")
  /\ num' = (num + 1) % NumMod
  /\ UNCHANGED <<size, maxload, entrys, nodeVars, callVars, locals, history>>

RsSize(t) ==
  /\ Goto(t, "rs_size", "rs_load")
  /\ sz' = [sz EXCEPT ![t] = size]
  /\ UNCHANGED <<tableVars, nodeVars, callVars, bucket, stack, entry, prev,
                 cur, node, ml, history>>

RsLoad(t) ==
  /\ Goto(t, "rs_load", "rs_num")
  /\ ml' = [ml EXCEPT ![t] = maxload]
  /\ UNCHANGED <<tableVars, nodeVars, callVars, bucket, stack, entry, prev,
                 cur, node, sz, history>>

(* size is looked at again, but the CAS fails if it is not sz any more. *)
RsNum(t) ==
  /\ Goto(t, "rs_num", IF num >= ml[t] /\ size < BUCKET_MAX
                       THEN "rs_grow" ELSE "rs_size2")
  /\ ml' = [ml EXCEPT ![t] = 0]
  /\ UNCHANGED <<tableVars, nodeVars, callVars, bucket, stack, entry, prev,
                 cur, node, sz, history>>

RsGrow(t) ==
  /\ Goto(t, "rs_grow", "rs_size2")
  /\ size' = IF size = sz[t] THEN sz[t] * 2 ELSE size
  /\ UNCHANGED <<num, maxload, entrys, nodeVars, callVars, locals, history>>

(* Mutant: the table is taken for grown without another look at size. *)
RsSize2Grown(t) ==
  /\ Goto(t, "rs_size2", "rs_load2")
  /\ sz' = [sz EXCEPT ![t] = 2 * @]
  /\ UNCHANGED <<tableVars, nodeVars, callVars, bucket, stack, entry, prev,
                 cur, node, ml, history>>

RsSize2(t) ==
  /\ Goto(t, "rs_size2", "rs_load2")
  /\ sz' = [sz EXCEPT ![t] = size]
  /\ UNCHANGED <<tableVars, nodeVars, callVars, bucket, stack, entry, prev,
                 cur, node, ml, history>>

RsLoad2(t) ==
  /\ Goto(t, "rs_load2", IF maxload * 2 # sz[t] THEN "rs_fit" ELSE "return")
  /\ ml' = [ml EXCEPT ![t] = maxload]
  /\ UNCHANGED <<tableVars, nodeVars, callVars, bucket, stack, entry, prev,
                 cur, node, sz, history>>

RsFit(t) ==
  /\ Goto(t, "rs_fit", "return")
  /\ maxload' = IF maxload = ml[t] THEN sz[t] \div 2 ELSE maxload
  /\ UNCHANGED <<num, size, entrys, nodeVars, callVars, locals, history>>

-----------------------------------------------------------------------------
(* What the code does once it was called. *)
Work(t) ==
  \/ EntFound(t) \/ EntHead(t) \/ EntParent(t) \/ EntSet(t) \/ EntLost(t)
  \/ EntGet(t) \/ EntGetParent(t) \/ EntGetNone(t)
  \/ InsWalk(t) \/ InsFound(t) \/ InsDuplicate(t) \/ InsLink(t) \/ InsRetry(t)
  \/ KeyWalk(t) \/ KeyNone(t) \/ KeyFound(t)
  \/ Mark(t) \/ MarkLost(t) \/ Unlink(t) \/ UnlinkRetry(t)
  \/ NodeWalk(t) \/ NodeFound(t) \/ NodeNone(t)
  \/ NumAdd(t) \/ NumSub(t) \/ RsSize(t) \/ RsLoad(t) \/ RsNum(t) \/ RsGrow(t)
  \/ RsSize2(t) \/ RsLoad2(t) \/ RsFit(t) \/ Return(t)

Call(t) == \E k \in Keys : Insert(t, k) \/ Delete(t, k) \/ Get(t, k)

Next == \E t \in Threads : Work(t) \/ Call(t)

Spec == Init /\ [][Next]_vars

(* Fairness: the operating system keeps scheduling every thread. *)
FairSpec == Spec /\ \A t \in Threads : WF_vars(Work(t))
-----------------------------------------------------------------------------
(* Properties                                                              *)

PCs == {"idle", "ent_insert", "ent_get", "ent_set", "ins_find", "ins_cas",
        "key_find", "mark", "unlink", "node_find", "num_add", "num_sub",
        "rs_size", "rs_load", "rs_num", "rs_grow", "rs_size2", "rs_load2",
        "rs_fit", "return"}
MaybeNode == Nodes \cup {Null}

(* Every variable has its type. *)
TypeOK ==
  /\ num \in 0 .. NumMod - 1
  /\ size \in 2 .. 2 * BUCKET_MAX /\ maxload \in 1 .. BUCKET_MAX
  /\ entrys \in [Buckets -> MaybeNode]
  /\ next \in [Nodes -> [to : MaybeNode, del : BOOLEAN]]
  /\ hashnr \in [Nodes -> 0 .. TwoTo[Bits] - 1]
  /\ key \in [Nodes -> Keys \cup {NoKey}]
  /\ free \subseteq Nodes
  /\ pc \in [Threads -> PCs]
  /\ op \in [Threads -> Ops \cup {"none"}]
  /\ arg \in [Threads -> Keys \cup {NoKey}]
  /\ bucket \in [Threads -> Buckets]
  /\ stack \in [Threads -> Seq(Buckets \X Nodes)]
  /\ entry \in [Threads -> MaybeNode] /\ prev \in [Threads -> MaybeNode]
  /\ cur \in [Threads -> MaybeNode] /\ node \in [Threads -> MaybeNode]
  /\ sz \in [Threads -> Nat] /\ ml \in [Threads -> Nat]
  /\ inserts \in 0 .. MaxInserts
  /\ dict \in [Keys -> [val : MaybeNode, leaving : BOOLEAN]]
  /\ seen \in [Threads -> SUBSET [val : MaybeNode, leaving : BOOLEAN]]

(* The chain is ordered by hash number, whatever was linked and unlinked,  *)
(* and every entry of the table points to a dummy that is on the chain for *)
(* good, so that a search from it misses no key of its bucket.             *)
SplitOrder ==
  LET chain == Chain
  IN  /\ \A n \in chain :
           next[n].to # Null => hashnr[n] <= hashnr[next[n].to]
      /\ \A b \in Buckets :
           entrys[b] # Null => /\ entrys[b] \in chain
                              /\ ~next[entrys[b]].del
                              /\ hashnr[entrys[b]] = Reverse(b)

(* ab_hash_num is off only by the calls that are between their CAS and     *)
(* their update of num: a delete can be faster than the insert of its node *)
(* and num wrap below zero.                                                *)
NumExact ==
  LET at(l) == Cardinality({t \in Threads : pc[t] = l})
  IN  num = (Cardinality(Stored) - at("num_add") + at("num_sub")) % NumMod

(* The nodes on the chain are those of the dictionary, one per key and with *)
(* the same marks: no insert or delete beside it loses a node or brings it *)
(* back, whichever of the two entries a bucket had during a split they     *)
(* started from; and num counts them.                                      *)
ChainIsDict ==
  /\ {<<key[n], n, next[n].del>> : n \in Stored}
       = {<<k, dict[k].val, dict[k].leaving>> :
            k \in {j \in Keys : dict[j] # Absent}}
  /\ NumExact

(* "CuAssertTrue(tc, ab_hash_num(g_hash) == 0)" when every key has been    *)
(* deleted (test_ab_hash.c:213 and 238): with nobody at work num counts    *)
(* the nodes that can still be deleted.                                    *)
QuietCount ==
  (\A t \in Threads : pc[t] = "idle")
    => num = Cardinality({n \in Stored : ~next[n].del})

(* Resizes that work with stale values of size and maxload never shrink    *)
(* the table and never let the load limit pass half the size; the limit    *)
(* itself can fall back, which makes the next resize come early.           *)
LoadFollows ==
  [][size' >= size /\ 2 * maxload' <= size']_<<size, maxload>>

(* The index implements the dictionary of AbMap.                           *)
InsertedPCs == {"num_add", "rs_size", "rs_load", "rs_num", "rs_grow",
                "rs_size2", "rs_load2", "rs_fit"}
CallOf(t) ==
  LET is(o, v) == [op |-> o, key |-> arg[t], val |-> v]
  IN  IF pc[t] = "idle" THEN is("none", Null)
      ELSE IF pc[t] \in InsertedPCs \cup {"num_sub", "return"}
      THEN is("done", node[t])
      ELSE IF op[t] = "delete" /\ pc[t] \in {"unlink", "node_find"}
      THEN is("deleting", node[t])
      ELSE is(op[t], IF op[t] = "insert" THEN node[t] ELSE Null)

Map == INSTANCE AbMap
  WITH Values <- Nodes,
       NoValue <- Null,
       dict <- [k \in Keys |-> dict[k].val],
       leaving <- {k \in Keys : dict[k].leaving},
       call <- [t \in Threads |-> CallOf(t)]

MapSpec == Map!Spec

(* Finitely many inserts (MaxInserts bounds them) let every call return,   *)
(* although an insert behind a node with its flag set can only repeat its  *)
(* search until the deleting thread has unlinked the node.                 *)
CallsReturn == \A t \in Threads : pc[t] # "idle" ~> pc[t] = "idle"
==============================================================================
