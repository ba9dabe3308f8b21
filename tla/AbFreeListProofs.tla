-------------------------- MODULE AbFreeListProofs --------------------------
(***************************************************************************)
(* What is proved of the list of free items, for any threads, any number   *)
(* and size of blocks and any number of calls: every variable keeps its    *)
(* type (ListTyped), no item and no block is lost (NoneLost) and, when     *)
(* counts do not come round, the count guards every CAS but those that a   *)
(* linked block has misled (CountGuards, OnlyBlocksMislead).               *)
(*                                                                         *)
(* The free list is a sequence of items, the line, whose existence         *)
(* PlaceInv states; OnList of AbFreeList computes its items (OnListIsLine, *)
(* by induction).  A put appends in front, a get takes the front off, and  *)
(* a block is put in front as a whole; an item that is not in the line has *)
(* a holder, is in the hands of one thread, or its block is private.       *)
(* Nothing of this needs the count: it needs that no CAS of a get has gone *)
(* astray, and the count is what CountInv is about.  Each change of the    *)
(* count but the reset by a block is the end of a call, so a reader that   *)
(* finds its count again, with fewer than CntMod calls made, finds a head  *)
(* that has not moved.                                                     *)
(***************************************************************************)
EXTENDS AbFreeList, SequenceTheorems, AbInduct, TLAPS

-----------------------------------------------------------------------------
(* Types, and the blocks.                                                  *)

GetPCs == {"get_next", "get_cas"}
PrivatePCs == {"block_read", "block_cas"}
BlockPCs == PrivatePCs \cup {"block_keep"}

\* What t holds in its locals.
Has(t) ==
  /\ pc[t] \in GetPCs => old[t].ptr # Null
  /\ pc[t] \in PutPCs \cup {"set_id"} => item[t] \in Items
  /\ pc[t] \in BlockPCs => item[t] \in 1 .. used

Typed == TypeOK /\ \A t \in Threads : Has(t)

\* A block that malloc handed out is kept, or a thread is about to keep it.
BlocksHeld ==
  /\ block_head \subseteq 1 .. used
  /\ \A b \in 1 .. used :
       b \in block_head \/ \E t \in Threads : pc[t] \in BlockPCs /\ item[t] = b

-----------------------------------------------------------------------------
(* The free list is a sequence of items. *)

IsLine(s) ==
  /\ s \in Seq(Items)
  /\ \A i, j \in 1 .. Len(s) : s[i] = s[j] => i = j
  /\ free_head.ptr = IF Len(s) = 0 THEN Null ELSE s[1]
  /\ \A i \in 1 .. Len(s) : next[s[i]].ptr = IF i = Len(s) THEN Null ELSE s[i + 1]

InLine(s, x) == \E i \in 1 .. Len(s) : s[i] = x

\* The block of t is private: every item points to the one after it, and the
\* last one to the head that was read.
Private(t) ==
  pc[t] \in PrivatePCs =>
    /\ \A x \in BlockItems(item[t]) \ {Last(item[t])} : next[x].ptr = x + 1
    /\ pc[t] = "block_cas" => next[Last(item[t])].ptr = old[t].ptr
    /\ \A u \in Threads \ {t} : pc[u] \in PrivatePCs => item[u] # item[t]

\* The item of t is in no other hands, and its next field is what it wrote.
InHands(s, t) ==
  /\ pc[t] \in PutPCs =>
       /\ item[t] \in Linked /\ out[item[t]] = 0 /\ ~InLine(s, item[t])
       /\ \A u \in Threads \ {t} : pc[u] \in PutPCs => item[u] # item[t]
  /\ pc[t] = "put_cas" => next[item[t]].ptr = old[t].ptr
  /\ pc[t] = "set_id" => out[item[t]] = 1

Somewhere(s, x) ==
  /\ out[x] \in {0, 1}
  /\ out[x] = 1 \/ InLine(s, x) => x \in Linked
  /\ InLine(s, x) => out[x] = 0
  /\ x \in Linked =>
       \/ InLine(s, x) \/ out[x] = 1
       \/ \E t \in Threads : pc[t] \in PutPCs /\ item[t] = x

Placed(s) ==
  /\ IsLine(s)
  /\ \A t \in Threads : Private(t) /\ InHands(s, t)
  /\ \A x \in Items : Somewhere(s, x)

PlaceInv == ~astray => \E s : Placed(s)

-----------------------------------------------------------------------------
(* The count of the head. *)

\* The calls that may still change the head.
Pending == {s \in Threads : pc[s] \notin {"idle", "set_id"}}

\* By how much the count has moved on since t read the head.
Turns(t) ==
  IF free_head.cnt >= old[t].cnt THEN free_head.cnt - old[t].cnt
  ELSE free_head.cnt - old[t].cnt + CntMod

Reads(t) == pc[t] \in GetPCs /\ ~reset[t]

\* Every change was made by a call that is over.
Counted ==
  /\ IsFiniteSet(Pending) /\ Cardinality(Pending) <= calls
  /\ \A t \in Threads : Reads(t) => Turns(t) + Cardinality(Pending) <= calls

\* A head with the count that t read is the head that t read.
Unmoved(t) ==
  Reads(t) /\ Turns(t) = 0 =>
    /\ free_head = old[t]
    /\ pc[t] = "get_cas" /\ ~astray => nxt[t] = next[free_head.ptr].ptr

CountInv == Counted /\ \A t \in Threads : Unmoved(t)

-----------------------------------------------------------------------------
(* Items and blocks.                                                       *)

(* The items of a block are items of the pool.                             *)
LEMMA BlockFits ==
  ASSUME NEW b \in Blocks
  PROVE  /\ First(b) \in BlockItems(b) /\ Last(b) \in BlockItems(b)
         /\ BlockItems(b) \subseteq Items
         /\ First(b) \in Nat \ {0} /\ Last(b) = First(b) + BlockSize - 1
         /\ \A x \in BlockItems(b) \ {Last(b)} : x + 1 \in BlockItems(b)
<1>1. BlockSize \in Nat \ {0} /\ NumBlocks \in Nat \ {0} /\ b \in 1 .. NumBlocks
  BY BlockAssumption DEF Blocks
<1> DEFINE B == BlockSize
<1>2. b * B \in Nat /\ (b - 1) * B \in Nat /\ (b - 1) * B = b * B - B
  BY <1>1
<1>3. b * B <= NumBlocks * B /\ NumBlocks * B \in Nat
  BY <1>1
<1> QED
  BY <1>1, <1>2, <1>3 DEF First, Last, BlockItems, Items

(* No item is in two blocks.                                               *)
LEMMA BlocksApart ==
  ASSUME NEW b \in Blocks, NEW c \in Blocks, NEW x \in BlockItems(b), x \in BlockItems(c)
  PROVE  b = c
<1>1. BlockSize \in Nat \ {0} /\ NumBlocks \in Nat \ {0} /\ b \in Nat /\ c \in Nat
  BY BlockAssumption DEF Blocks
<1>2. \A i, j \in Nat : i < j => i * BlockSize <= (j - 1) * BlockSize
  BY <1>1
<1>3. /\ (b - 1) * BlockSize + 1 <= x /\ x <= b * BlockSize
      /\ (c - 1) * BlockSize + 1 <= x /\ x <= c * BlockSize
      /\ x \in Int /\ b * BlockSize \in Int /\ c * BlockSize \in Int
      /\ (b - 1) * BlockSize \in Int /\ (c - 1) * BlockSize \in Int
  BY <1>1 DEF BlockItems, First, Last
<1>4. ~ (b < c) /\ ~ (c < b)
  BY <1>1, <1>2, <1>3
<1> QED
  BY <1>1, <1>4

(* The next count is one more, or zero after the last one.                 *)
LEMMA IncrCounts ==
  ASSUME NEW f \in Ptrs, NEW p \in Items \cup {Null}
  PROVE  /\ AbaIncr(f, p) \in Ptrs
         /\ AbaIncr(f, p).ptr = p
         /\ AbaIncr(f, p).cnt = IF f.cnt + 1 = CntMod THEN 0 ELSE f.cnt + 1
<1>1. CntMod \in Nat \ {0} /\ f.cnt \in 0 .. CntMod - 1
  BY CntAssumption DEF Ptrs
<1>2. (f.cnt + 1) % CntMod = IF f.cnt + 1 = CntMod THEN 0 ELSE f.cnt + 1
  BY <1>1
<1> QED
  BY <1>1, <1>2 DEF AbaIncr, Ptr, Ptrs

-----------------------------------------------------------------------------
(* The types.                                                              *)

(* The parts of a tagged pointer.                                          *)
LEMMA PtrTypes ==
  /\ NullPtr \in Ptrs /\ \A p \in Items \cup {Null} : Ptr(0, p) \in Ptrs
  /\ \A q \in Ptrs : q.cnt \in 0 .. CntMod - 1 /\ q.ptr \in Items \cup {Null}
BY CntAssumption DEF Ptrs, Ptr, NullPtr

(* The items of a new block point into the block.                          *)
LEMMA ChainedType ==
  ASSUME NEW f \in [Items -> Ptrs], NEW b \in Blocks
  PROVE  Chained(f, b) \in [Items -> Ptrs]
<1>1. ASSUME NEW x \in Items
      PROVE  (IF x \in BlockItems(b)
              THEN Ptr(0, IF x = Last(b) THEN Null ELSE x + 1) ELSE f[x]) \in Ptrs
  <2>1. x \in BlockItems(b) /\ x # Last(b) => x + 1 \in Items
    BY BlockFits
  <2> QED
    BY <2>1, PtrTypes
<1> QED
  BY <1>1 DEF Chained

(* The types at first, and what the threads hold.                          *)
LEMMA InitTyped == Init => Typed
<1> SUFFICES ASSUME Init PROVE Typed
  OBVIOUS
<1>1. 1 \in Blocks
  BY BlockAssumption DEF Blocks
<1>2. First(1) \in Items /\ Ptr(0, First(1)) \in Ptrs
  BY <1>1, BlockFits, PtrTypes
<1>3. [x \in Items |-> NullPtr] \in [Items -> Ptrs]
  BY PtrTypes
<1>4. next \in [Items -> Ptrs]
  BY <1>1, <1>3, ChainedType DEF Init
<1>5. TypeOK
  <2>1. used \in Blocks /\ block_head \subseteq Blocks /\ calls \in 0 .. MaxCalls
    BY <1>1, CntAssumption DEF Init
  <2>2. out \in [Items -> Nat] /\ free_head \in Ptrs
    BY <1>2 DEF Init
  <2>3. /\ old \in [Threads -> Ptrs] /\ nxt \in [Threads -> Items \cup {Null}]
        /\ item \in [Threads -> Items \cup Blocks \cup {Null}]
        /\ pc \in [Threads -> PCs]
    BY PtrTypes DEF Init, PCs
  <2>4. reset \in [Threads -> BOOLEAN] /\ astray \in BOOLEAN
    BY DEF Init
  <2> QED
    BY <1>4, <2>1, <2>2, <2>3, <2>4 DEF TypeOK
<1>6. ASSUME NEW t \in Threads PROVE Has(t)
  BY <1>6 DEF Init, Has, GetPCs, PutPCs, BlockPCs, PrivatePCs
<1> QED
  BY <1>5, <1>6 DEF Typed

(* Every step keeps them.                                                  *)
LEMMA StepTyped == Typed /\ [Next]_vars => Typed'
<1> SUFFICES ASSUME Typed, [Next]_vars PROVE Typed'
  OBVIOUS
<1>0. TypeOK /\ \A t \in Threads : Has(t)
  BY DEF Typed
<1> DEFINE Ty(t) == pc'[t] \in PCs /\ Has(t)'
<1>1. used \in Nat /\ Blocks = 1 .. NumBlocks /\ NumBlocks \in Nat /\ used <= NumBlocks
  BY <1>0, BlockAssumption DEF TypeOK, Blocks
<1>2. ASSUME NEW t \in Threads, Work(t) \/ Call(t) PROVE Typed'
  <2> USE <1>0, <1>1 DEF Goto, history
  <2>0. Has(t) /\ pc \in [Threads -> PCs] /\ old[t] \in Ptrs
    BY DEF TypeOK
  <2>1. ASSUME Alloc(t) PROVE Typed'
    <3>1. TypeOK'
      BY <2>1, CntAssumption DEF Alloc, TypeOK, PCs
    <3>2. \A u \in Threads : Has(u)'
      BY <2>1 DEF Alloc, TypeOK, Has, GetPCs, PutPCs, BlockPCs, PrivatePCs
    <3> QED
      BY <3>1, <3>2 DEF Typed
  <2>2. ASSUME GetRead(t) PROVE Typed'
    <3>1. TypeOK'
      BY <2>2 DEF GetRead, TypeOK, PCs
    <3>2. \A u \in Threads : Has(u)'
      BY <2>2 DEF GetRead, TypeOK, Has, GetPCs, PutPCs, BlockPCs, PrivatePCs
    <3> QED
      BY <3>1, <3>2 DEF Typed
  <2>3. ASSUME GetNext(t) PROVE Typed'
    <3>1. old[t].ptr \in Items /\ next[old[t].ptr].ptr \in Items \cup {Null}
      BY <2>0, <2>3, PtrTypes DEF GetNext, Has, GetPCs, TypeOK
    <3>2. TypeOK'
      BY <2>3, <3>1 DEF GetNext, TypeOK, PCs
    <3>3. \A u \in Threads : Has(u)'
      BY <2>3 DEF GetNext, TypeOK, Has, GetPCs, PutPCs, BlockPCs, PrivatePCs
    <3> QED
      BY <3>2, <3>3 DEF Typed
  <2>4. ASSUME GetCas(t) PROVE Typed'
    <3>1. old[t].ptr \in Items /\ nxt[t] \in Items \cup {Null}
      BY <2>0, <2>4, PtrTypes DEF GetCas, Has, GetPCs, TypeOK
    <3>2. AbaIncr(old[t], nxt[t]) \in Ptrs
      BY <2>0, <3>1, IncrCounts
    <3>3. out' \in [Items -> Nat]
      BY <2>4, <3>1 DEF GetCas, TypeOK
    <3>4. astray' \in BOOLEAN
      BY <2>4 DEF GetCas, TypeOK
    <3>5. /\ free_head' \in Ptrs /\ old' \in [Threads -> Ptrs]
          /\ nxt' \in [Threads -> Items \cup {Null}]
          /\ item' \in [Threads -> Items \cup Blocks \cup {Null}]
          /\ pc' \in [Threads -> PCs] /\ reset' \in [Threads -> BOOLEAN]
      BY <2>4, <3>1, <3>2, PtrTypes DEF GetCas, TypeOK, PCs
    <3>6. TypeOK'
      BY <2>4, <3>3, <3>4, <3>5 DEF GetCas, TypeOK
    <3>7. \A u \in Threads : Has(u)'
      BY <2>4, <3>1 DEF GetCas, TypeOK, Has, GetPCs, PutPCs, BlockPCs, PrivatePCs
    <3> QED
      BY <3>6, <3>7 DEF Typed
  <2>5. ASSUME GetRetry(t) PROVE Typed'
    <3>1. TypeOK'
      BY <2>5, PtrTypes DEF GetRetry, TypeOK, PCs
    <3>2. \A u \in Threads : Has(u)'
      BY <2>5 DEF GetRetry, TypeOK, Has, GetPCs, PutPCs, BlockPCs, PrivatePCs
    <3> QED
      BY <3>1, <3>2 DEF Typed
  <2>6. ASSUME SetId(t) PROVE Typed'
    <3>1. TypeOK'
      BY <2>6, PtrTypes DEF SetId, TypeOK, PCs
    <3>2. \A u \in Threads : Has(u)'
      BY <2>6 DEF SetId, TypeOK, Has, GetPCs, PutPCs, BlockPCs, PrivatePCs
    <3> QED
      BY <3>1, <3>2 DEF Typed
  <2>7. ASSUME Malloc(t) PROVE Typed'
    <3>1. used + 1 \in Blocks /\ used + 1 \in 1 .. used + 1
      BY <2>7 DEF Malloc, TypeOK, Blocks
    <3>2. next' \in [Items -> Ptrs]
      BY <2>7, <3>1, ChainedType DEF Malloc, TypeOK
    <3>3. TypeOK'
      BY <2>7, <3>1, <3>2 DEF Malloc, TypeOK, PCs
    <3>4. \A u \in Threads : Has(u)'
      BY <2>7, <3>1 DEF Malloc, TypeOK, Has, GetPCs, PutPCs, BlockPCs, PrivatePCs
    <3> QED
      BY <3>3, <3>4 DEF Typed
  <2>8. ASSUME MallocFails(t) PROVE Typed'
    <3>1. TypeOK'
      BY <2>8, PtrTypes DEF MallocFails, TypeOK, PCs
    <3>2. \A u \in Threads : Has(u)'
      BY <2>8 DEF MallocFails, TypeOK, Has, GetPCs, PutPCs, BlockPCs, PrivatePCs
    <3> QED
      BY <3>1, <3>2 DEF Typed
  <2>9. ASSUME BlockRead(t) PROVE Typed'
    <3>1. item[t] \in Blocks /\ Last(item[t]) \in Items
      BY <2>0, <2>9, BlockFits DEF BlockRead, Has, BlockPCs, PrivatePCs
    <3>2. TypeOK'
      BY <2>9, <3>1 DEF BlockRead, TypeOK, PCs
    <3>3. \A u \in Threads : Has(u)'
      BY <2>9 DEF BlockRead, TypeOK, Has, GetPCs, PutPCs, BlockPCs, PrivatePCs
    <3> QED
      BY <3>2, <3>3 DEF Typed
  <2>10. ASSUME BlockCas(t) PROVE Typed'
    <3>1. item[t] \in Blocks /\ First(item[t]) \in Items
      BY <2>0, <2>10, BlockFits DEF BlockCas, Has, BlockPCs, PrivatePCs
    <3>2. free_head' \in Ptrs
      BY <2>10, <3>1, PtrTypes DEF BlockCas
    <3>3. reset' \in [Threads -> BOOLEAN]
      <4>1. \A s \in Threads : (reset[s] \/ pc[s] \in {"get_next", "get_cas"}) \in BOOLEAN
        OBVIOUS
      <4> QED
        BY <2>10, <4>1 DEF BlockCas
    <3>4. TypeOK'
      BY <2>10, <3>2, <3>3 DEF BlockCas, TypeOK, PCs
    <3>5. \A u \in Threads : Has(u)'
      BY <2>10 DEF BlockCas, TypeOK, Has, GetPCs, PutPCs, BlockPCs, PrivatePCs
    <3> QED
      BY <3>4, <3>5 DEF Typed
  <2>11. ASSUME BlockRetry(t) PROVE Typed'
    <3>1. TypeOK'
      BY <2>11 DEF BlockRetry, TypeOK, PCs
    <3>2. \A u \in Threads : Has(u)'
      BY <2>11 DEF BlockRetry, TypeOK, Has, GetPCs, PutPCs, BlockPCs, PrivatePCs
    <3> QED
      BY <3>1, <3>2 DEF Typed
  <2>12. ASSUME BlockKeep(t) PROVE Typed'
    <3>1. item[t] \in Blocks
      BY <2>0, <2>12 DEF BlockKeep, Has, BlockPCs, PrivatePCs
    <3>2. TypeOK'
      BY <2>12, <3>1, PtrTypes DEF BlockKeep, TypeOK, PCs
    <3>3. \A u \in Threads : Has(u)'
      BY <2>12 DEF BlockKeep, TypeOK, Has, GetPCs, PutPCs, BlockPCs, PrivatePCs
    <3> QED
      BY <3>2, <3>3 DEF Typed
  <2>13. ASSUME NEW x \in Items, Put(t, x) PROVE Typed'
    <3>1. out' \in [Items -> Nat]
      BY <2>13 DEF Put, TypeOK
    <3>2. TypeOK'
      BY <2>13, <3>1, CntAssumption DEF Put, TypeOK, PCs
    <3>3. \A u \in Threads : Has(u)'
      BY <2>13 DEF Put, TypeOK, Has, GetPCs, PutPCs, BlockPCs, PrivatePCs
    <3> QED
      BY <3>2, <3>3 DEF Typed
  <2>14. ASSUME PutRead(t) PROVE Typed'
    <3>1. TypeOK'
      BY <2>14 DEF PutRead, TypeOK, PCs
    <3>2. \A u \in Threads : Has(u)'
      BY <2>14 DEF PutRead, TypeOK, Has, GetPCs, PutPCs, BlockPCs, PrivatePCs
    <3> QED
      BY <3>1, <3>2 DEF Typed
  <2>15. ASSUME PutLink(t) PROVE Typed'
    <3>1. TypeOK'
      BY <2>15 DEF PutLink, TypeOK, PCs
    <3>2. \A u \in Threads : Has(u)'
      BY <2>15 DEF PutLink, TypeOK, Has, GetPCs, PutPCs, BlockPCs, PrivatePCs
    <3> QED
      BY <3>1, <3>2 DEF Typed
  <2>16. ASSUME PutCas(t) PROVE Typed'
    <3>1. item[t] \in Items
      BY <2>0, <2>16 DEF PutCas, Has, PutPCs
    <3>2. free_head' \in Ptrs
      BY <2>0, <2>16, <3>1, IncrCounts DEF PutCas
    <3>3. TypeOK'
      BY <2>16, <3>2, PtrTypes DEF PutCas, TypeOK, PCs
    <3>4. \A u \in Threads : Has(u)'
      BY <2>16 DEF PutCas, TypeOK, Has, GetPCs, PutPCs, BlockPCs, PrivatePCs
    <3> QED
      BY <3>3, <3>4 DEF Typed
  <2>17. ASSUME PutRetry(t) PROVE Typed'
    <3>1. TypeOK'
      BY <2>17 DEF PutRetry, TypeOK, PCs
    <3>2. \A u \in Threads : Has(u)'
      BY <2>17 DEF PutRetry, TypeOK, Has, GetPCs, PutPCs, BlockPCs, PrivatePCs
    <3> QED
      BY <3>1, <3>2 DEF Typed
  <2> QED
    BY <1>2, <2>1, <2>2, <2>3, <2>4, <2>5, <2>6, <2>7, <2>8, <2>9, <2>10, <2>11,
       <2>12, <2>13, <2>14, <2>15, <2>16, <2>17 DEF Work, Call
<1>3. CASE UNCHANGED vars
  BY <1>0, <1>3 DEF Typed, TypeOK, Has, vars, history
<1> QED
  BY <1>2, <1>3 DEF Next

(* Every variable keeps its type, whatever the threads do.                 *)
THEOREM ListTyped == Spec => []TypeOK
<1>1. Typed => TypeOK
  BY DEF Typed
<1> QED
  BY <1>1, InitTyped, StepTyped, PTL DEF Spec

-----------------------------------------------------------------------------
(* Blocks are kept.                                                        *)

(* A step that gives no block out and drops none.                          *)
LEMMA BlocksStay ==
  ASSUME BlocksHeld, used' = used, block_head' = block_head,
         \A u \in Threads : pc[u] \in BlockPCs => pc'[u] \in BlockPCs /\ item'[u] = item[u]
  PROVE  BlocksHeld'
BY DEF BlocksHeld

(* Only malloc gives a block out, and only its thread keeps it.            *)
LEMMA StepBlocks == Typed /\ BlocksHeld /\ [Next]_vars => BlocksHeld'
<1> SUFFICES ASSUME Typed, BlocksHeld, [Next]_vars PROVE BlocksHeld'
  OBVIOUS
<1>0. TypeOK /\ \A t \in Threads : Has(t)
  BY DEF Typed
<1>1. ASSUME NEW t \in Threads, Work(t) \/ Call(t) PROVE BlocksHeld'
  <2> USE <1>0 DEF Goto, history
  <2> DEFINE Stay == /\ used' = used /\ block_head' = block_head
                     /\ \A u \in Threads : pc[u] \in BlockPCs =>
                          pc'[u] \in BlockPCs /\ item'[u] = item[u]
  <2>1. ASSUME Alloc(t) \/ GetRead(t) \/ GetNext(t) \/ GetCas(t) \/ GetRetry(t) \/ SetId(t)
        PROVE  Stay
    BY <2>1 DEF Alloc, GetRead, GetNext, GetCas, GetRetry, SetId, TypeOK, BlockPCs, PrivatePCs
  <2>2. ASSUME Malloc(t) PROVE BlocksHeld'
    <3>1. used + 1 \in Nat /\ used' = used + 1 /\ used \in Nat /\ block_head' = block_head
      BY <2>2 DEF Malloc, TypeOK, Blocks
    <3>2. pc'[t] = "block_read" /\ item'[t] = used + 1
      BY <2>2 DEF Malloc, TypeOK
    <3>3. \A u \in Threads : pc[u] \in BlockPCs => pc'[u] \in BlockPCs /\ item'[u] = item[u]
      BY <2>2 DEF Malloc, TypeOK, BlockPCs, PrivatePCs
    <3> QED
      BY <3>1, <3>2, <3>3 DEF BlocksHeld, BlockPCs, PrivatePCs
  <2>3. ASSUME MallocFails(t) \/ BlockRead(t) \/ BlockCas(t) \/ BlockRetry(t) PROVE Stay
    BY <2>3 DEF MallocFails, BlockRead, BlockCas, BlockRetry, TypeOK, BlockPCs, PrivatePCs
  <2>4. ASSUME BlockKeep(t) PROVE BlocksHeld'
    <3>1. item[t] \in 1 .. used
      BY <2>4 DEF BlockKeep, Has, BlockPCs
    <3>2. used' = used /\ block_head' = block_head \cup {item[t]}
      BY <2>4 DEF BlockKeep
    <3>3. \A u \in Threads \ {t} : pc'[u] = pc[u] /\ item'[u] = item[u]
      BY <2>4 DEF BlockKeep, TypeOK
    <3> QED
      BY <3>1, <3>2, <3>3 DEF BlocksHeld
  <2>5. ASSUME (\E x \in Items : Put(t, x)) \/ PutRead(t) \/ PutLink(t) \/ PutCas(t) \/ PutRetry(t)
        PROVE  Stay
    BY <2>5 DEF Put, PutRead, PutLink, PutCas, PutRetry, TypeOK, BlockPCs, PrivatePCs
  <2>6. Stay => BlocksHeld'
    BY BlocksStay
  <2> HIDE DEF Stay
  <2> QED
    BY <1>1, <2>1, <2>2, <2>3, <2>4, <2>5, <2>6 DEF Work, Call
<1>2. CASE UNCHANGED vars
  BY <1>2, BlocksStay DEF vars, history
<1> QED
  BY <1>1, <1>2 DEF Next

(* The first block is kept.                                                *)
LEMMA InitBlocks == Init => BlocksHeld
BY DEF Init, BlocksHeld

(* When nobody holds a block, all of them are kept.                        *)
LEMMA HeldAreKept == BlocksHeld => BlocksKept
BY DEF BlocksHeld, BlocksKept, BlockPCs, PrivatePCs

-----------------------------------------------------------------------------
(* The line of free items.                                                 *)

(* The line, and where the head is in it.                                  *)
LEMMA LineTypes ==
  ASSUME NEW s, IsLine(s)
  PROVE  /\ Len(s) \in Nat /\ s \in [1 .. Len(s) -> Items]
         /\ \A i \in 1 .. Len(s) : s[i] \in Items
         /\ free_head.ptr # Null => Len(s) # 0 /\ s[1] = free_head.ptr /\ InLine(s, free_head.ptr)
         /\ free_head.ptr = Null => Len(s) = 0
<1>1. Len(s) \in Nat /\ s \in [1 .. Len(s) -> Items]
  BY DEF IsLine
<1>2. Null \notin Items
  BY DEF Null, Items
<1>3. Len(s) # 0 => 1 \in 1 .. Len(s) /\ s[1] \in Items
  BY <1>1
<1>4. free_head.ptr = IF Len(s) = 0 THEN Null ELSE s[1]
  BY DEF IsLine
<1> QED
  BY <1>1, <1>2, <1>3, <1>4 DEF InLine

(* The items stay where they are: the line is the same, and the items that *)
(* are changed are not in it.                                              *)
LEMMA LineStays ==
  ASSUME NEW s, IsLine(s), free_head' = free_head,
         \A x \in Items : InLine(s, x) => next'[x].ptr = next[x].ptr
  PROVE  IsLine(s)'
<1>1. \A i \in 1 .. Len(s) : next'[s[i]].ptr = next[s[i]].ptr
  BY LineTypes DEF InLine
<1> QED
  BY <1>1 DEF IsLine

(* The blocks that are linked are the same when nobody gets or links one.  *)
LEMMA LinkedStays ==
  ASSUME used' = used,
         \A u \in Threads : (pc'[u] \in PrivatePCs) = (pc[u] \in PrivatePCs),
         \A u \in Threads : pc[u] \in PrivatePCs => item'[u] = item[u]
  PROVE  Linked' = Linked
<1>1. \A b \in 1 .. used :
        (\A u \in Threads : pc[u] \in {"block_read", "block_cas"} => item[u] # b)
          <=> (\A u \in Threads : pc'[u] \in {"block_read", "block_cas"} => item'[u] # b)
  BY DEF PrivatePCs
<1> QED
  BY <1>1 DEF Linked

(* Linked by the blocks that no thread has to itself.                      *)
LEMMA LinkedIs ==
  ASSUME NEW x
  PROVE  x \in Linked <=>
           \E b \in 1 .. used : /\ x \in BlockItems(b)
                                /\ \A u \in Threads : pc[u] \in PrivatePCs => item[u] # b
BY DEF Linked, PrivatePCs

(* The block in a thread's hands is one of the pool's.                     *)
LEMMA HeldBlock ==
  ASSUME Typed
  PROVE  /\ used \in Nat /\ 1 .. used \subseteq Blocks
         /\ \A u \in Threads : pc[u] \in BlockPCs =>
              /\ item[u] \in 1 .. used /\ item[u] \in Blocks
              /\ First(item[u]) \in BlockItems(item[u]) /\ Last(item[u]) \in BlockItems(item[u])
              /\ BlockItems(item[u]) \subseteq Items
<1>1. used \in 1 .. NumBlocks /\ NumBlocks \in Nat
  BY BlockAssumption DEF Typed, TypeOK, Blocks
<1>2. used \in Nat /\ 1 .. used \subseteq Blocks
  BY <1>1 DEF Blocks
<1>3. \A u \in Threads : pc[u] \in BlockPCs => item[u] \in 1 .. used
  BY DEF Typed, Has
<1> QED
  BY <1>2, <1>3, BlockFits

-----------------------------------------------------------------------------
(* Every item keeps its one place.                                         *)

(* The line of the first block. *)
LEMMA InitPlaced == Init => PlaceInv
<1> SUFFICES ASSUME Init PROVE \E s : Placed(s)
  BY DEF PlaceInv
<1>1. 1 \in Blocks /\ BlockSize \in Nat \ {0}
  BY BlockAssumption DEF Blocks
<1>2. /\ First(1) = 1 /\ Last(1) = BlockSize /\ BlockItems(1) = 1 .. BlockSize
      /\ 1 .. BlockSize \subseteq Items
  BY <1>1, BlockFits DEF First, Last, BlockItems
<1> DEFINE s == [i \in 1 .. BlockSize |-> i]
<1>3. s \in Seq(Items) /\ Len(s) = BlockSize
  BY <1>1, <1>2
<1>4. \A i \in 1 .. BlockSize : next[i].ptr = IF i = BlockSize THEN Null ELSE i + 1
  <2>1. \A x \in Items : x \in 1 .. BlockSize =>
          next[x] = Ptr(0, IF x = BlockSize THEN Null ELSE x + 1)
    BY <1>2 DEF Init, Chained
  <2> SUFFICES ASSUME NEW i \in 1 .. BlockSize
               PROVE  next[i].ptr = IF i = BlockSize THEN Null ELSE i + 1
    OBVIOUS
  <2>2. i \in Items
    BY <1>2
  <2>3. next[i] = Ptr(0, IF i = BlockSize THEN Null ELSE i + 1)
    BY <2>1, <2>2
  <2> QED
    BY <2>3 DEF Ptr
<1>5. free_head.ptr = 1
  BY <1>2 DEF Init, Ptr
<1>6. \A i \in 1 .. BlockSize : s[i] = i
  OBVIOUS
<1>7. \A x : InLine(s, x) <=> x \in 1 .. BlockSize
  BY <1>3, <1>6 DEF InLine
<1>8. IsLine(s)
  <2> HIDE DEF s
  <2> QED
    BY <1>1, <1>3, <1>4, <1>5, <1>6 DEF IsLine
<1>9. Linked = 1 .. BlockSize
  <2>1. used = 1 /\ \A u \in Threads : pc[u] \notin PrivatePCs
    BY DEF Init, PrivatePCs
  <2>2. \A x : x \in Linked <=> x \in BlockItems(1)
    BY <2>1, LinkedIs
  <2> QED
    BY <1>2, <2>2
<1> HIDE DEF s
<1>10. ASSUME NEW t \in Threads PROVE Private(t) /\ InHands(s, t)
  BY DEF Init, Private, InHands, PrivatePCs, PutPCs
<1>11. ASSUME NEW x \in Items PROVE Somewhere(s, x)
  BY <1>7, <1>9 DEF Init, Somewhere
<1> QED
  BY <1>8, <1>10, <1>11 DEF Placed

(* A step of t that leaves line, owners and private blocks alone.          *)
LEMMA PlaceStays ==
  ASSUME Typed, NEW s, Placed(s), NEW t \in Threads,
         free_head' = free_head, out' = out, used' = used, next' = next,
         \A u \in Threads \ {t} :
           pc'[u] = pc[u] /\ item'[u] = item[u] /\ old'[u] = old[u],
         (pc'[t] \in PrivatePCs) = (pc[t] \in PrivatePCs),
         (pc'[t] \in PutPCs) = (pc[t] \in PutPCs),
         pc[t] \in PrivatePCs \cup PutPCs => item'[t] = item[t],
         pc'[t] \notin {"put_cas", "block_cas", "set_id"}
  PROVE  Placed(s)'
<1>0. IsLine(s) /\ \A u \in Threads : Private(u) /\ InHands(s, u)
  BY DEF Placed
<1>1. Linked' = Linked
  BY LinkedStays
<1>2. IsLine(s)'
  BY <1>0, LineStays
<1>3. ASSUME NEW u \in Threads PROVE Private(u)'
  <2>1. Private(u) /\ \A v \in Threads \ {u} : Private(v)
    BY <1>0
  <2>2. u = t => pc'[u] # "block_cas"
    OBVIOUS
  <2>3. u # t => pc'[u] = pc[u] /\ old'[u] = old[u]
    OBVIOUS
  <2>4. \A v \in Threads : pc'[v] \in PrivatePCs => pc[v] \in PrivatePCs /\ item'[v] = item[v]
    OBVIOUS
  <2> QED
    BY <2>1, <2>2, <2>3, <2>4 DEF Private
<1>4. ASSUME NEW u \in Threads PROVE InHands(s, u)'
  <2>1. InHands(s, u)
    BY <1>0
  <2>2. u = t => pc'[u] # "put_cas" /\ pc'[u] # "set_id"
    OBVIOUS
  <2>3. u # t => pc'[u] = pc[u] /\ old'[u] = old[u] /\ item'[u] = item[u]
    OBVIOUS
  <2>4. \A v \in Threads : pc'[v] \in PutPCs => pc[v] \in PutPCs /\ item'[v] = item[v]
    OBVIOUS
  <2> QED
    BY <1>1, <2>1, <2>2, <2>3, <2>4 DEF InHands, InLine
<1>5. ASSUME NEW x \in Items PROVE Somewhere(s, x)'
  <2>1. Somewhere(s, x)
    BY DEF Placed
  <2>2. \A v \in Threads : pc[v] \in PutPCs => pc'[v] \in PutPCs /\ item'[v] = item[v]
    OBVIOUS
  <2> QED
    BY <1>1, <2>1, <2>2 DEF Somewhere, InLine
<1> QED
  BY <1>2, <1>3, <1>4, <1>5 DEF Placed

(* A get takes the front off the line: what it installs is what is behind  *)
(* the front, as long as it does not go astray.                            *)
LEMMA GetCasPlaced ==
  ASSUME Typed, NEW s, Placed(s), NEW t \in Threads, GetCas(t), ~astray'
  PROVE  \E r : Placed(r)'
<1>0. /\ TypeOK /\ Has(t) /\ IsLine(s)
      /\ \A u \in Threads : Private(u) /\ InHands(s, u)
      /\ \A x \in Items : Somewhere(s, x)
  BY DEF Typed, Placed
<1> DEFINE y == old[t].ptr
           n == Len(s)
           r == [i \in 1 .. n - 1 |-> s[i + 1]]
<1>1. /\ free_head = old[t] /\ pc[t] = "get_cas" /\ y \in Items
      /\ nxt[t] = next[y].ptr /\ nxt[t] \in Items \cup {Null} /\ next' = next
      /\ used' = used /\ out' = [out EXCEPT ![y] = @ + 1]
      /\ free_head' = AbaIncr(old[t], nxt[t])
  BY <1>0, PtrTypes DEF GetCas, Goto, Has, GetPCs, TypeOK
<1>2. free_head'.ptr = next[y].ptr
  BY <1>0, <1>1, IncrCounts DEF TypeOK
<1>3. /\ pc'[t] \in {"idle", "set_id"} /\ (pc'[t] = "set_id" => item'[t] = y)
      /\ \A u \in Threads \ {t} : pc'[u] = pc[u] /\ item'[u] = item[u] /\ old'[u] = old[u]
  BY <1>0 DEF GetCas, Goto, TypeOK
<1>4. /\ n \in Nat /\ n # 0 /\ s \in [1 .. n -> Items] /\ s[1] = y /\ InLine(s, y)
  BY <1>0, <1>1, LineTypes DEF Null, Items
<1>5. r \in Seq(Items) /\ Len(r) = n - 1
  BY <1>4
<1>6. \A i \in 1 .. n - 1 : r[i] = s[i + 1] /\ i + 1 \in 1 .. n
  BY <1>4
<1> HIDE DEF r, n, y
<1>7. IsLine(r)'
  <2>1. \A i, j \in 1 .. n - 1 : r[i] = r[j] => i = j
    <3>1. \A i, j \in 1 .. n : s[i] = s[j] => i = j
      BY <1>0 DEF IsLine, n
    <3> QED
      BY <1>4, <1>6, <3>1
  <2>2. \A i \in 1 .. n : next[s[i]].ptr = IF i = n THEN Null ELSE s[i + 1]
    BY <1>0 DEF IsLine, n
  <2>3. next[y].ptr = IF n - 1 = 0 THEN Null ELSE r[1]
    <3>1. next[y].ptr = IF 1 = n THEN Null ELSE s[1 + 1]
      BY <1>4, <2>2
    <3>2. n # 1 => 1 \in 1 .. n - 1 /\ r[1] = s[1 + 1]
      BY <1>4, <1>6
    <3> QED
      BY <1>4, <3>1, <3>2
  <2>4. \A i \in 1 .. n - 1 : next[r[i]].ptr = IF i = n - 1 THEN Null ELSE r[i + 1]
    <3> SUFFICES ASSUME NEW i \in 1 .. n - 1
                 PROVE  next[r[i]].ptr = IF i = n - 1 THEN Null ELSE r[i + 1]
      OBVIOUS
    <3>1. next[r[i]].ptr = IF i + 1 = n THEN Null ELSE s[i + 1 + 1]
      BY <1>4, <1>6, <2>2
    <3>2. i # n - 1 => i + 1 \in 1 .. n - 1 /\ r[i + 1] = s[i + 1 + 1]
      BY <1>4, <1>6
    <3> QED
      BY <1>4, <3>1, <3>2
  <2> QED
    BY <1>1, <1>2, <1>5, <2>1, <2>3, <2>4 DEF IsLine
<1>8. \A x : InLine(r, x) <=> InLine(s, x) /\ x # y
  <2>0. \A i, j \in 1 .. n : s[i] = s[j] => i = j
    BY <1>0 DEF IsLine, n
  <2>1. ASSUME NEW i \in 1 .. n - 1 PROVE InLine(s, r[i]) /\ r[i] # y
    <3>1. r[i] = s[i + 1] /\ i + 1 \in 1 .. n /\ i + 1 # 1 /\ 1 \in 1 .. n
      BY <1>4, <1>6
    <3>2. r[i] # y
      BY <1>4, <2>0, <3>1
    <3> QED
      BY <3>1, <3>2 DEF InLine, n
  <2>2. ASSUME NEW i \in 1 .. n, s[i] # y PROVE InLine(r, s[i])
    <3>1. i - 1 \in 1 .. n - 1 /\ r[i - 1] = s[i]
      BY <1>4, <1>6, <2>2
    <3> QED
      BY <1>5, <3>1 DEF InLine
  <2> QED
    BY <1>5, <2>1, <2>2 DEF InLine, n
<1>9. Linked' = Linked
  <2>1. pc[t] \notin PrivatePCs /\ pc'[t] \notin PrivatePCs
    BY <1>1, <1>3 DEF PrivatePCs
  <2> QED
    BY <1>1, <1>3, <2>1, LinkedStays
<1>10. out[y] = 0 /\ y \in Linked
  BY <1>0, <1>1, <1>4 DEF Somewhere
<1>11. /\ out'[y] = 1 /\ \A x \in Items : x # y => out'[x] = out[x]
  BY <1>0, <1>1, <1>10 DEF TypeOK
<1>12. ASSUME NEW u \in Threads PROVE Private(u)'
  <2>1. Private(u) /\ pc'[t] \notin PrivatePCs
    BY <1>0, <1>3 DEF PrivatePCs
  <2>2. u # t => pc'[u] = pc[u] /\ item'[u] = item[u] /\ old'[u] = old[u]
    BY <1>3
  <2> QED
    BY <1>1, <1>3, <2>1, <2>2 DEF Private
<1>13. ASSUME NEW u \in Threads PROVE InHands(r, u)'
  <2>1. CASE u = t
    BY <1>3, <1>11, <2>1 DEF InHands, PutPCs
  <2>2. CASE u # t
    <3>1. InHands(s, u) /\ pc'[t] \notin PutPCs
      BY <1>0, <1>3 DEF PutPCs
    <3>2. pc'[u] = pc[u] /\ item'[u] = item[u] /\ old'[u] = old[u]
      BY <1>3, <2>2
    <3>3. pc[u] \in PutPCs => item[u] \in Items /\ item[u] # y
      BY <1>0, <1>4, <3>1 DEF Has, InHands, Typed
    <3>4. pc[u] = "set_id" => item[u] \in Items /\ item[u] # y
      BY <1>0, <1>10, <3>1 DEF Has, InHands, Typed
    <3>5. InLine(r, item[u]) => InLine(s, item[u])
      BY <1>8
    <3> QED
      BY <1>1, <1>3, <1>9, <1>11, <3>1, <3>2, <3>3, <3>4, <3>5 DEF InHands, InLine
  <2> QED
    BY <2>1, <2>2
<1>14. ASSUME NEW x \in Items PROVE Somewhere(r, x)'
  <2>1. Somewhere(s, x)
    BY <1>0
  <2>2. \A v \in Threads : pc[v] \in PutPCs => pc'[v] \in PutPCs /\ item'[v] = item[v]
    BY <1>1, <1>3 DEF PutPCs
  <2>3. InLine(r, x)' <=> InLine(r, x)
    BY DEF InLine
  <2>4. CASE x = y
    BY <1>8, <1>9, <1>10, <1>11, <2>3, <2>4 DEF Somewhere
  <2>5. CASE x # y
    BY <1>8, <1>9, <1>11, <2>1, <2>2, <2>3, <2>5 DEF Somewhere
  <2> QED
    BY <2>4, <2>5
<1> QED
  BY <1>7, <1>12, <1>13, <1>14 DEF Placed

(* The mem_id is written into an item that the thread owns.                *)
LEMMA SetIdPlaced ==
  ASSUME Typed, NEW s, Placed(s), NEW t \in Threads, SetId(t)
  PROVE  Placed(s)'
<1>0. /\ TypeOK /\ Has(t) /\ IsLine(s)
      /\ \A u \in Threads : Private(u) /\ InHands(s, u)
      /\ \A x \in Items : Somewhere(s, x)
  BY DEF Typed, Placed
<1> DEFINE y == item[t]
<1>1. /\ y \in Items /\ out[y] = 1 /\ pc[t] = "set_id" /\ pc'[t] = "idle"
      /\ next' = [next EXCEPT ![y] = NullPtr]
      /\ free_head' = free_head /\ used' = used /\ out' = out /\ old' = old
      /\ \A u \in Threads \ {t} : pc'[u] = pc[u] /\ item'[u] = item[u]
  BY <1>0 DEF SetId, Goto, Has, TypeOK, InHands
<1>2. \A x \in Items : x # y => next'[x] = next[x]
  BY <1>0, <1>1 DEF TypeOK
<1>3. y \in Linked /\ ~InLine(s, y)
  BY <1>0, <1>1 DEF Somewhere
<1>4. IsLine(s)'
  BY <1>0, <1>1, <1>2, <1>3, LineStays
<1>5. Linked' = Linked
  BY <1>1, LinkedStays DEF PrivatePCs
<1>6. ASSUME NEW u \in Threads PROVE Private(u)'
  <2>1. Private(u) /\ pc'[t] \notin PrivatePCs
    BY <1>0, <1>1 DEF PrivatePCs
  <2>2. u # t => pc'[u] = pc[u] /\ item'[u] = item[u]
    BY <1>1
  <2>3. ASSUME u # t, pc[u] \in PrivatePCs
        PROVE  \A x \in BlockItems(item[u]) : next'[x] = next[x]
    <3>1. item[u] \in 1 .. used /\ used \in Nat /\ item[u] \in Blocks
      BY <2>3, HeldBlock DEF BlockPCs
    <3>2. PICK b \in 1 .. used :
            y \in BlockItems(b) /\ \A v \in Threads : pc[v] \in PrivatePCs => item[v] # b
      BY <1>3, LinkedIs
    <3>3. b \in Blocks /\ b # item[u]
      BY <2>3, <3>2, HeldBlock
    <3>4. y \notin BlockItems(item[u]) /\ BlockItems(item[u]) \subseteq Items
      BY <3>1, <3>2, <3>3, BlocksApart, BlockFits
    <3> QED
      BY <1>2, <3>4
  <2>4. ASSUME u # t, pc[u] \in PrivatePCs PROVE Last(item[u]) \in BlockItems(item[u])
    BY <2>4, HeldBlock DEF BlockPCs
  <2> QED
    BY <1>1, <2>1, <2>2, <2>3, <2>4 DEF Private
<1>7. ASSUME NEW u \in Threads PROVE InHands(s, u)'
  <2>1. CASE u = t
    BY <1>1, <2>1 DEF InHands, PutPCs
  <2>2. CASE u # t
    <3>1. InHands(s, u) /\ pc'[t] \notin PutPCs
      BY <1>0, <1>1 DEF PutPCs
    <3>2. pc'[u] = pc[u] /\ item'[u] = item[u]
      BY <1>1, <2>2
    <3>3. pc[u] \in PutPCs => item[u] \in Items /\ item[u] # y
      BY <1>0, <1>1, <3>1 DEF Has, InHands, Typed
    <3>4. pc[u] = "put_cas" => next'[item[u]] = next[item[u]]
      BY <1>2, <3>3 DEF PutPCs
    <3> QED
      BY <1>1, <1>5, <3>1, <3>2, <3>4 DEF InHands, InLine
  <2> QED
    BY <2>1, <2>2
<1>8. ASSUME NEW x \in Items PROVE Somewhere(s, x)'
  <2>1. Somewhere(s, x)
    BY <1>0
  <2>2. \A v \in Threads : pc[v] \in PutPCs => pc'[v] \in PutPCs /\ item'[v] = item[v]
    BY <1>1 DEF PutPCs
  <2> QED
    BY <1>1, <1>5, <2>1, <2>2 DEF Somewhere, InLine
<1> QED
  BY <1>4, <1>6, <1>7, <1>8 DEF Placed

(* A linked item is in no private block and in none that is still to come. *)
LEMMA LinkedApart ==
  ASSUME Typed, NEW x \in Linked
  PROVE  /\ \A u \in Threads : pc[u] \in PrivatePCs => x \notin BlockItems(item[u])
         /\ \A b \in Blocks : b > used => x \notin BlockItems(b)
<1>1. PICK b \in 1 .. used :
        x \in BlockItems(b) /\ \A u \in Threads : pc[u] \in PrivatePCs => item[u] # b
  BY LinkedIs
<1>2. b \in Blocks /\ used \in Nat
  BY <1>1, HeldBlock
<1>3. \A u \in Threads : pc[u] \in PrivatePCs => item[u] \in Blocks /\ item[u] # b
  BY <1>1, HeldBlock DEF BlockPCs
<1>4. \A c \in Blocks : c > used => c # b
  BY <1>1, <1>2 DEF Blocks
<1> QED
  BY <1>1, <1>2, <1>3, <1>4, BlocksApart

(* A new block is private, and its items are nowhere yet.                  *)
LEMMA MallocPlaced ==
  ASSUME Typed, NEW s, Placed(s), NEW t \in Threads, Malloc(t)
  PROVE  Placed(s)'
<1>0. /\ TypeOK /\ Has(t) /\ IsLine(s)
      /\ \A u \in Threads : Private(u) /\ InHands(s, u)
      /\ \A x \in Items : Somewhere(s, x)
  BY DEF Typed, Placed
<1> DEFINE c == used + 1
<1>1. /\ pc[t] = "malloc" /\ pc'[t] = "block_read" /\ item'[t] = c /\ used' = c
      /\ next' = Chained(next, c)
      /\ free_head' = free_head /\ out' = out /\ old' = old
      /\ \A u \in Threads \ {t} : pc'[u] = pc[u] /\ item'[u] = item[u]
  BY <1>0 DEF Malloc, Goto, TypeOK
<1>2. c \in Blocks /\ c > used /\ used \in Nat /\ c \notin 1 .. used
  <2>1. used \in Nat \ {0} /\ used < NumBlocks /\ NumBlocks \in Nat
    BY <1>0, BlockAssumption DEF Malloc, TypeOK, Blocks
  <2> QED
    BY <2>1 DEF Blocks
<1>3. \A x \in Linked : x \notin BlockItems(c)
  BY <1>2, LinkedApart
<1>4. \A x \in Items : x \notin BlockItems(c) => next'[x] = next[x]
  BY <1>1 DEF Chained
<1>5. \A x \in BlockItems(c) \ {Last(c)} : next'[x].ptr = x + 1
  BY <1>1, <1>2, BlockFits DEF Chained, Ptr
<1> HIDE DEF c
<1>6. IsLine(s)'
  <2>1. \A x \in Items : InLine(s, x) => x \in Linked
    BY <1>0 DEF Somewhere
  <2> QED
    BY <1>0, <1>1, <1>3, <1>4, <2>1, LineStays
<1>7. Linked' = Linked
  <2>1. ASSUME NEW x, x \in Linked PROVE x \in Linked'
    <3>1. PICK b \in 1 .. used :
            x \in BlockItems(b) /\ \A u \in Threads : pc[u] \in PrivatePCs => item[u] # b
      BY <2>1, LinkedIs
    <3>2. b \in 1 .. used' /\ b # c
      BY <1>1, <1>2, <3>1 DEF c
    <3>3. \A u \in Threads : pc'[u] \in {"block_read", "block_cas"} => item'[u] # b
      BY <1>1, <3>1, <3>2 DEF PrivatePCs
    <3> QED
      BY <3>1, <3>2, <3>3 DEF Linked, BlockItems, First, Last
  <2>2. ASSUME NEW x, x \in Linked' PROVE x \in Linked
    <3>1. PICK b \in 1 .. c :
            /\ x \in BlockItems(b)
            /\ \A u \in Threads : pc'[u] \in {"block_read", "block_cas"} => item'[u] # b
      BY <1>1, <2>2 DEF Linked, BlockItems, First, Last
    <3>2. b \in 1 .. used
      BY <1>1, <1>2, <3>1 DEF c
    <3>3. \A u \in Threads : pc[u] \in {"block_read", "block_cas"} => item[u] # b
      BY <1>1, <3>1
    <3> QED
      BY <3>1, <3>2, <3>3 DEF Linked
  <2> QED
    BY <2>1, <2>2
<1>8. ASSUME NEW u \in Threads PROVE Private(u)'
  <2>1. \A v \in Threads \ {t} : pc[v] \in PrivatePCs => item[v] \in 1 .. used /\ item[v] # c
    BY <1>2, HeldBlock DEF BlockPCs
  <2>2. CASE u = t
    BY <1>1, <1>5, <2>1, <2>2 DEF Private, BlockItems, First, Last
  <2>3. CASE u # t
    <3>1. Private(u)
      BY <1>0
    <3>2. /\ pc'[u] = pc[u] /\ item'[u] = item[u] /\ old'[u] = old[u]
      BY <1>1, <2>3
    <3>3. ASSUME pc[u] \in PrivatePCs
          PROVE  /\ \A x \in BlockItems(item[u]) : next'[x] = next[x]
                 /\ Last(item[u]) \in BlockItems(item[u])
      <4>1. item[u] \in Blocks /\ item[u] # c /\ BlockItems(item[u]) \subseteq Items
        BY <2>1, <2>3, <3>3, HeldBlock DEF BlockPCs
      <4>2. Last(item[u]) \in BlockItems(item[u])
        BY <3>3, HeldBlock DEF BlockPCs
      <4>3. \A x \in BlockItems(item[u]) : x \notin BlockItems(c)
        BY <1>2, <4>1, BlocksApart
      <4> QED
        BY <1>4, <4>1, <4>2, <4>3
    <3> QED
      BY <1>1, <2>1, <2>3, <3>1, <3>2, <3>3 DEF Private
  <2> QED
    BY <2>2, <2>3
<1>9. ASSUME NEW u \in Threads PROVE InHands(s, u)'
  <2>1. InHands(s, u)
    BY <1>0
  <2>2. u # t => pc'[u] = pc[u] /\ item'[u] = item[u]
    BY <1>1
  <2>3. pc'[t] \notin PutPCs
    BY <1>1 DEF PutPCs
  <2>4. pc[u] \in PutPCs => item[u] \in Items /\ next'[item[u]] = next[item[u]]
    BY <1>0, <1>3, <1>4, <2>1 DEF InHands, Typed, Has
  <2>5. u = t => pc'[u] # "set_id" /\ pc'[u] # "put_cas"
    BY <1>1
  <2> QED
    BY <1>1, <1>7, <2>1, <2>2, <2>3, <2>4, <2>5 DEF InHands, InLine, PutPCs
<1>10. ASSUME NEW x \in Items PROVE Somewhere(s, x)'
  <2>1. Somewhere(s, x)
    BY <1>0
  <2>2. \A v \in Threads : pc[v] \in PutPCs => pc'[v] \in PutPCs /\ item'[v] = item[v]
    BY <1>1 DEF PutPCs
  <2> QED
    BY <1>1, <1>7, <2>1, <2>2 DEF Somewhere, InLine
<1> QED
  BY <1>6, <1>8, <1>9, <1>10 DEF Placed

(* The last item of a private block is pointed to the head.                *)
LEMMA BlockReadPlaced ==
  ASSUME Typed, NEW s, Placed(s), NEW t \in Threads, BlockRead(t)
  PROVE  Placed(s)'
<1>0. /\ TypeOK /\ Has(t) /\ IsLine(s)
      /\ \A u \in Threads : Private(u) /\ InHands(s, u)
      /\ \A x \in Items : Somewhere(s, x)
  BY DEF Typed, Placed
<1> DEFINE b == item[t]
           y == Last(b)
<1>1. /\ pc[t] = "block_read" /\ pc'[t] = "block_cas" /\ item' = item /\ used' = used
      /\ next' = [next EXCEPT ![y] = free_head] /\ old'[t] = free_head
      /\ free_head' = free_head /\ out' = out
      /\ \A u \in Threads \ {t} : pc'[u] = pc[u] /\ old'[u] = old[u]
  BY <1>0 DEF BlockRead, Goto, TypeOK
<1>2. b \in Blocks /\ y \in BlockItems(b) /\ y \in Items /\ BlockItems(b) \subseteq Items
  BY <1>1, HeldBlock DEF BlockPCs, PrivatePCs
<1>3. y \notin Linked
  BY <1>1, <1>2, LinkedApart DEF PrivatePCs
<1>4. next'[y] = free_head /\ \A x \in Items : x # y => next'[x] = next[x]
  BY <1>0, <1>1, <1>2 DEF TypeOK
<1>5. IsLine(s)'
  BY <1>0, <1>1, <1>3, <1>4, LineStays DEF Somewhere
<1>6. Linked' = Linked
  BY <1>1, LinkedStays DEF PrivatePCs
<1>7. ASSUME NEW u \in Threads PROVE Private(u)'
  <2>1. Private(u)
    BY <1>0
  <2>2. CASE u = t
    <3>1. \A x \in BlockItems(b) \ {y} : next'[x].ptr = x + 1
      BY <1>1, <1>2, <1>4, <2>1, <2>2 DEF Private, PrivatePCs
    <3>2. \A v \in Threads \ {t} : pc'[v] \in PrivatePCs => item[v] # b
      BY <1>1, <2>1, <2>2 DEF Private, PrivatePCs
    <3> QED
      BY <1>1, <1>4, <2>2, <3>1, <3>2 DEF Private, BlockItems, First, Last
  <2>3. CASE u # t
    <3>1. ASSUME pc[u] \in PrivatePCs
          PROVE  /\ \A x \in BlockItems(item[u]) : next'[x] = next[x]
                 /\ Last(item[u]) \in BlockItems(item[u]) /\ item[u] # b
      <4>1. item[u] \in Blocks /\ BlockItems(item[u]) \subseteq Items
        BY <3>1, HeldBlock DEF BlockPCs
      <4>2. Last(item[u]) \in BlockItems(item[u])
        BY <3>1, HeldBlock DEF BlockPCs
      <4>3. item[u] # b
        BY <1>1, <2>1, <2>3, <3>1 DEF Private, PrivatePCs
      <4>4. y \notin BlockItems(item[u])
        BY <1>2, <4>1, <4>3, BlocksApart
      <4> QED
        BY <1>4, <4>1, <4>2, <4>3, <4>4
    <3>2. pc'[u] = pc[u] /\ old'[u] = old[u] /\ item' = item
      BY <1>1, <2>3
    <3>3. pc[t] \in PrivatePCs /\ \A v \in Threads : pc'[v] \in PrivatePCs => pc[v] \in PrivatePCs
      BY <1>1 DEF PrivatePCs
    <3> QED
      BY <2>1, <3>1, <3>2, <3>3 DEF Private, BlockItems, First, Last
  <2> QED
    BY <2>2, <2>3
<1>8. ASSUME NEW u \in Threads PROVE InHands(s, u)'
  <2>1. InHands(s, u)
    BY <1>0
  <2>2. \A v \in Threads : pc'[v] \in PutPCs \cup {"set_id"} =>
          v # t /\ pc'[v] = pc[v] /\ old'[v] = old[v]
    BY <1>1 DEF PutPCs
  <2>3. pc[u] \in PutPCs => item[u] \in Items /\ next'[item[u]] = next[item[u]]
    BY <1>0, <1>3, <1>4, <2>1 DEF InHands, Typed, Has
  <2> QED
    BY <1>1, <1>6, <2>1, <2>2, <2>3 DEF InHands, InLine, PutPCs
<1>9. ASSUME NEW x \in Items PROVE Somewhere(s, x)'
  <2>1. Somewhere(s, x)
    BY <1>0
  <2>2. \A v \in Threads : pc[v] \in PutPCs => pc'[v] \in PutPCs
    BY <1>1 DEF PutPCs
  <2> QED
    BY <1>1, <1>6, <2>1, <2>2 DEF Somewhere, InLine
<1> QED
  BY <1>5, <1>7, <1>8, <1>9 DEF Placed

(* The item goes from its holder to the thread that puts it back.          *)
LEMMA PutPlaced ==
  ASSUME Typed, NEW s, Placed(s), NEW t \in Threads, NEW y \in Items, Put(t, y)
  PROVE  Placed(s)'
<1>0. /\ TypeOK /\ IsLine(s)
      /\ \A u \in Threads : Private(u) /\ InHands(s, u)
      /\ \A x \in Items : Somewhere(s, x)
  BY DEF Typed, Placed
<1>1. /\ pc[t] = "idle" /\ pc'[t] = "put_read" /\ item'[t] = y /\ used' = used
      /\ next' = next /\ old' = old /\ free_head' = free_head
      /\ out' = [out EXCEPT ![y] = @ - 1] /\ out[y] > 0
      /\ \A u \in Threads : pc[u] = "set_id" => item[u] # y
      /\ \A u \in Threads \ {t} : pc'[u] = pc[u] /\ item'[u] = item[u]
  BY <1>0 DEF Put, Goto, TypeOK
<1>2. out[y] = 1 /\ y \in Linked /\ ~InLine(s, y)
  <2>1. out[y] \in {0, 1} /\ out[y] > 0
    BY <1>0, <1>1 DEF Somewhere
  <2>2. out[y] = 1
    BY <2>1
  <2> QED
    BY <1>0, <2>2 DEF Somewhere
<1>3. /\ out'[y] = 0 /\ \A x \in Items : x # y => out'[x] = out[x]
  BY <1>0, <1>1, <1>2 DEF TypeOK
<1>4. IsLine(s)'
  BY <1>0, <1>1, LineStays
<1>5. Linked' = Linked
  BY <1>1, LinkedStays DEF PrivatePCs
<1>6. ASSUME NEW u \in Threads PROVE Private(u)'
  <2>1. Private(u) /\ pc'[t] \notin PrivatePCs
    BY <1>0, <1>1 DEF PrivatePCs
  <2>2. u # t => pc'[u] = pc[u] /\ item'[u] = item[u] /\ old'[u] = old[u]
    BY <1>1
  <2> QED
    BY <1>1, <2>1, <2>2 DEF Private
<1>7. ASSUME NEW u \in Threads PROVE InHands(s, u)'
  <2>0. \A v \in Threads : pc[v] \in PutPCs => item[v] # y
    BY <1>0, <1>2 DEF InHands
  <2>1. CASE u = t
    <3>1. \A v \in Threads \ {t} : pc'[v] \in PutPCs => item'[v] # y
      BY <1>1, <2>0
    <3> QED
      BY <1>1, <1>2, <1>3, <1>5, <2>1, <3>1 DEF InHands, InLine
  <2>2. CASE u # t
    <3>1. InHands(s, u) /\ pc'[u] = pc[u] /\ item'[u] = item[u]
      BY <1>0, <1>1, <2>2
    <3>2. pc[u] \in PutPCs \cup {"set_id"} => item[u] \in Items /\ item[u] # y
      BY <1>1, <2>0 DEF Typed, Has
    <3>3. \A v \in Threads \ {u} : pc'[v] \in PutPCs =>
             item'[v] = y \/ (pc[v] \in PutPCs /\ item'[v] = item[v])
      BY <1>1
    <3> QED
      BY <1>1, <1>3, <1>5, <3>1, <3>2, <3>3 DEF InHands, InLine
  <2> QED
    BY <2>1, <2>2
<1>8. ASSUME NEW x \in Items PROVE Somewhere(s, x)'
  <2>1. Somewhere(s, x)
    BY <1>0
  <2>2. \A v \in Threads : pc[v] \in PutPCs => pc'[v] \in PutPCs /\ item'[v] = item[v]
    BY <1>1 DEF PutPCs
  <2>3. pc'[t] \in PutPCs
    BY <1>1 DEF PutPCs
  <2> QED
    BY <1>1, <1>2, <1>3, <1>5, <2>1, <2>2, <2>3 DEF Somewhere, InLine
<1> QED
  BY <1>4, <1>6, <1>7, <1>8 DEF Placed

(* The item in the thread's hands is pointed to the head.                  *)
LEMMA PutLinkPlaced ==
  ASSUME Typed, NEW s, Placed(s), NEW t \in Threads, PutLink(t)
  PROVE  Placed(s)'
<1>0. /\ TypeOK /\ Has(t) /\ IsLine(s)
      /\ \A u \in Threads : Private(u) /\ InHands(s, u)
      /\ \A x \in Items : Somewhere(s, x)
  BY DEF Typed, Placed
<1> DEFINE y == item[t]
<1>1. /\ pc[t] = "put_link" /\ pc'[t] = "put_cas" /\ item' = item /\ used' = used
      /\ next' = [next EXCEPT ![y] = old[t]] /\ old' = old
      /\ free_head' = free_head /\ out' = out
      /\ \A u \in Threads \ {t} : pc'[u] = pc[u]
  BY <1>0 DEF PutLink, Goto, TypeOK
<1>2. y \in Items /\ y \in Linked /\ ~InLine(s, y)
  BY <1>0, <1>1 DEF Has, PutPCs, InHands
<1>3. next'[y] = old[t] /\ \A x \in Items : x # y => next'[x] = next[x]
  BY <1>0, <1>1, <1>2 DEF TypeOK
<1>4. IsLine(s)'
  BY <1>0, <1>1, <1>2, <1>3, LineStays
<1>5. Linked' = Linked
  BY <1>1, LinkedStays DEF PrivatePCs
<1>6. ASSUME NEW u \in Threads PROVE Private(u)'
  <2>1. Private(u) /\ pc'[t] \notin PrivatePCs
    BY <1>0, <1>1 DEF PrivatePCs
  <2>2. u # t => pc'[u] = pc[u]
    BY <1>1
  <2>3. ASSUME pc[u] \in PrivatePCs
        PROVE  /\ \A x \in BlockItems(item[u]) : next'[x] = next[x]
               /\ Last(item[u]) \in BlockItems(item[u])
    <3>1. BlockItems(item[u]) \subseteq Items /\ Last(item[u]) \in BlockItems(item[u])
      BY <2>3, HeldBlock DEF BlockPCs
    <3>2. y \notin BlockItems(item[u])
      BY <1>2, <2>3, LinkedApart
    <3> QED
      BY <1>3, <3>1, <3>2
  <2> QED
    BY <1>1, <2>1, <2>2, <2>3 DEF Private, BlockItems, First, Last
<1>7. ASSUME NEW u \in Threads PROVE InHands(s, u)'
  <2>1. InHands(s, u)
    BY <1>0
  <2>2. \A v \in Threads : pc'[v] \in PutPCs => pc[v] \in PutPCs
    BY <1>1 DEF PutPCs
  <2>3. CASE u = t
    <3>1. pc[t] \in PutPCs
      BY <1>1 DEF PutPCs
    <3> QED
      BY <1>1, <1>3, <1>5, <2>1, <2>2, <2>3, <3>1 DEF InHands, InLine
  <2>4. CASE u # t
    <3>1. pc'[u] = pc[u]
      BY <1>1, <2>4
    <3>2. pc[u] \in PutPCs => item[u] \in Items /\ item[u] # y
      BY <1>0, <1>1, <2>1, <2>4 DEF Typed, Has, InHands, PutPCs
    <3>3. pc[u] = "put_cas" => next'[item[u]] = next[item[u]]
      BY <1>3, <3>2 DEF PutPCs
    <3> QED
      BY <1>1, <1>5, <2>1, <2>2, <3>1, <3>3 DEF InHands, InLine
  <2> QED
    BY <2>3, <2>4
<1>8. ASSUME NEW x \in Items PROVE Somewhere(s, x)'
  <2>1. Somewhere(s, x)
    BY <1>0
  <2>2. \A v \in Threads : pc[v] \in PutPCs => pc'[v] \in PutPCs
    BY <1>1 DEF PutPCs
  <2> QED
    BY <1>1, <1>5, <2>1, <2>2 DEF Somewhere, InLine
<1> QED
  BY <1>4, <1>6, <1>7, <1>8 DEF Placed

(* The item becomes the front of the line. No count is needed here: the    *)
(* item points to what is the head, whether it came back or not.           *)
LEMMA PutCasPlaced ==
  ASSUME Typed, NEW s, Placed(s), NEW t \in Threads, PutCas(t)
  PROVE  \E r : Placed(r)'
<1>0. /\ TypeOK /\ Has(t) /\ IsLine(s)
      /\ \A u \in Threads : Private(u) /\ InHands(s, u)
      /\ \A x \in Items : Somewhere(s, x)
  BY DEF Typed, Placed
<1> DEFINE n == Len(s)
<1>a. PICK y : y = item[t]
  OBVIOUS
<1>b. PICK r : r = [i \in 1 .. n + 1 |-> IF i = 1 THEN y ELSE s[i - 1]]
  OBVIOUS
<1>1. /\ free_head = old[t] /\ pc[t] = "put_cas" /\ pc'[t] = "idle"
      /\ next' = next /\ used' = used /\ out' = out
      /\ free_head' = AbaIncr(old[t], y)
      /\ \A u \in Threads \ {t} : pc'[u] = pc[u] /\ item'[u] = item[u] /\ old'[u] = old[u]
  BY <1>0, <1>a DEF PutCas, Goto, TypeOK
<1>2. /\ y \in Items /\ y \in Linked /\ ~InLine(s, y) /\ out[y] = 0
      /\ next[y].ptr = free_head.ptr
  BY <1>0, <1>1, <1>a DEF Has, PutPCs, InHands
<1>3. free_head'.ptr = y
  BY <1>0, <1>1, <1>2, IncrCounts DEF TypeOK
<1>4. n \in Nat /\ s \in [1 .. n -> Items]
  BY <1>0, LineTypes
<1>5. r \in Seq(Items) /\ Len(r) = n + 1
  <2>1. \A i \in 1 .. n + 1 : (IF i = 1 THEN y ELSE s[i - 1]) \in Items
    BY <1>2, <1>4
  <2> QED
    BY <1>4, <1>b, <2>1
<1>6. r[1] = y /\ \A i \in 1 .. n : i + 1 \in 1 .. n + 1 /\ r[i + 1] = s[i]
  BY <1>4, <1>b
<1>7. \A x : InLine(r, x) <=> InLine(s, x) \/ x = y
  <2>1. ASSUME NEW i \in 1 .. n + 1, i # 1 PROVE InLine(s, r[i])
    <3>1. i - 1 \in 1 .. n /\ r[i] = s[i - 1]
      BY <1>4, <1>6, <2>1
    <3> QED
      BY <3>1 DEF InLine
  <2>2. ASSUME NEW i \in 1 .. n PROVE InLine(r, s[i])
    BY <1>5, <1>6 DEF InLine
  <2>3. InLine(r, y) /\ 1 \in 1 .. n + 1
    BY <1>4, <1>5, <1>6 DEF InLine
  <2>4. r[1] = y
    BY <1>6
  <2> HIDE DEF n
  <2> QED
    BY <1>5, <2>1, <2>2, <2>3, <2>4 DEF InLine, n
<1>8. IsLine(r)'
  <2>1. \A i, j \in 1 .. n + 1 : r[i] = r[j] => i = j
    <3> SUFFICES ASSUME NEW i \in 1 .. n + 1, NEW j \in 1 .. n + 1, r[i] = r[j] PROVE i = j
      OBVIOUS
    <3>1. \A k \in 1 .. n + 1 : k # 1 => k - 1 \in 1 .. n /\ r[k] = s[k - 1] /\ r[k] # y
      <4> SUFFICES ASSUME NEW k \in 1 .. n + 1, k # 1
                   PROVE  k - 1 \in 1 .. n /\ r[k] = s[k - 1] /\ r[k] # y
        OBVIOUS
      <4>1. k - 1 \in 1 .. n /\ r[k] = s[k - 1]
        BY <1>4, <1>6
      <4> QED
        BY <1>2, <4>1 DEF InLine
    <3>2. \A k, l \in 1 .. n : s[k] = s[l] => k = l
      BY <1>0 DEF IsLine
    <3>3. (i = 1) = (j = 1)
      BY <1>6, <3>1
    <3> QED
      BY <3>1, <3>2, <3>3
  <2>2. \A i \in 1 .. n : next[s[i]].ptr = IF i = n THEN Null ELSE s[i + 1]
    BY <1>0 DEF IsLine
  <2>3. next[y].ptr = IF n = 0 THEN Null ELSE s[1]
    BY <1>0, <1>2 DEF IsLine
  <2>4. ASSUME NEW i \in 1 .. n + 1
        PROVE  next[r[i]].ptr = IF i = n + 1 THEN Null ELSE r[i + 1]
    <3>1. CASE i = 1
      <4>1. n # 0 => r[1 + 1] = s[1]
        BY <1>4, <1>6
      <4> QED
        BY <1>4, <1>6, <2>3, <3>1, <4>1
    <3>2. CASE i # 1
      <4>1. i - 1 \in 1 .. n /\ r[i] = s[i - 1]
        BY <1>4, <1>6, <3>2
      <4>2. next[r[i]].ptr = IF i - 1 = n THEN Null ELSE s[i - 1 + 1]
        BY <2>2, <4>1
      <4>3. i # n + 1 => i \in 1 .. n /\ r[i + 1] = s[i]
        BY <1>4, <1>6
      <4> QED
        BY <1>4, <4>2, <4>3
    <3> QED
      BY <3>1, <3>2
  <2>5. free_head'.ptr = IF n + 1 = 0 THEN Null ELSE r[1]
    BY <1>3, <1>4, <1>6
  <2> HIDE DEF n
  <2> QED
    BY <1>1, <1>5, <2>1, <2>4, <2>5 DEF IsLine
<1>9. Linked' = Linked
  <2>1. pc[t] \notin PrivatePCs /\ pc'[t] \notin PrivatePCs
    BY <1>1 DEF PrivatePCs
  <2> QED
    BY <1>1, <2>1, LinkedStays
<1>10. ASSUME NEW u \in Threads PROVE Private(u)'
  <2>1. Private(u) /\ pc'[t] \notin PrivatePCs
    BY <1>0, <1>1 DEF PrivatePCs
  <2>2. u # t => pc'[u] = pc[u] /\ item'[u] = item[u] /\ old'[u] = old[u]
    BY <1>1
  <2> QED
    BY <1>1, <2>1, <2>2 DEF Private
<1>11. ASSUME NEW u \in Threads PROVE InHands(r, u)'
  <2>1. CASE u = t
    BY <1>1, <2>1 DEF InHands, PutPCs
  <2>2. CASE u # t
    <3>1. InHands(s, u) /\ InHands(s, t)
      BY <1>0
    <3>2. pc'[u] = pc[u] /\ item'[u] = item[u] /\ old'[u] = old[u] /\ pc'[t] \notin PutPCs
      BY <1>1, <2>2 DEF PutPCs
    <3>3. pc[u] \in PutPCs => item[u] # y
      BY <1>1, <1>a, <2>2, <3>1 DEF InHands, PutPCs
    <3>4. pc[u] \in PutPCs => ~InLine(r, item[u])
      BY <1>7, <3>1, <3>3 DEF InHands
    <3> QED
      BY <1>1, <1>9, <3>1, <3>2, <3>4 DEF InHands, InLine
  <2> QED
    BY <2>1, <2>2
<1>12. ASSUME NEW x \in Items PROVE Somewhere(r, x)'
  <2>1. Somewhere(s, x)
    BY <1>0
  <2>2. \A v \in Threads : pc[v] \in PutPCs =>
          item[v] = y \/ (pc'[v] \in PutPCs /\ item'[v] = item[v])
    BY <1>1, <1>a DEF PutPCs
  <2>3. InLine(r, x)' <=> InLine(r, x)
    BY DEF InLine
  <2> QED
    BY <1>1, <1>2, <1>7, <1>9, <2>1, <2>2, <2>3 DEF Somewhere
<1> QED
  BY <1>8, <1>10, <1>11, <1>12 DEF Placed

(* The block becomes the front part of the line.                           *)
LEMMA BlockCasPlaced ==
  ASSUME Typed, NEW s, Placed(s), NEW t \in Threads, BlockCas(t)
  PROVE  \E r : Placed(r)'
<1>0. /\ TypeOK /\ Has(t) /\ IsLine(s)
      /\ \A u \in Threads : Private(u) /\ InHands(s, u)
      /\ \A x \in Items : Somewhere(s, x)
  BY DEF Typed, Placed
<1> DEFINE n == Len(s)
           B == BlockSize
<1>a. PICK b : b = item[t]
  OBVIOUS
<1>f. PICK f : f = First(b)
  OBVIOUS
<1>b. PICK r : r = [i \in 1 .. B + n |-> IF i <= B THEN f + i - 1 ELSE s[i - B]]
  OBVIOUS
<1>1. /\ free_head = old[t] /\ pc[t] = "block_cas" /\ pc'[t] = "block_keep"
      /\ next' = next /\ used' = used /\ out' = out /\ item' = item /\ old' = old
      /\ free_head' = Ptr(0, f)
      /\ \A u \in Threads \ {t} : pc'[u] = pc[u]
  BY <1>0, <1>a, <1>f DEF BlockCas, Goto, TypeOK
<1>2. b \in Blocks /\ b \in 1 .. used /\ BlockItems(b) \subseteq Items
  BY <1>1, <1>a, HeldBlock DEF BlockPCs, PrivatePCs
<1>3. /\ B \in Nat \ {0} /\ f \in Nat \ {0} /\ Last(b) = f + B - 1
      /\ BlockItems(b) = f .. f + B - 1
  BY <1>2, <1>f, BlockAssumption, BlockFits DEF BlockItems
<1>4. /\ \A x \in BlockItems(b) \ {Last(b)} : next[x].ptr = x + 1
      /\ next[Last(b)].ptr = free_head.ptr
      /\ \A u \in Threads \ {t} : pc[u] \in PrivatePCs => item[u] # b
  BY <1>0, <1>1, <1>a DEF Private, PrivatePCs
<1>5. \A x \in Linked : x \notin BlockItems(b)
  BY <1>1, <1>a, LinkedApart DEF PrivatePCs
<1>6. \A x \in BlockItems(b) : ~InLine(s, x) /\ out[x] = 0
  <2> SUFFICES ASSUME NEW x \in BlockItems(b) PROVE ~InLine(s, x) /\ out[x] = 0
    OBVIOUS
  <2>1. x \in Items /\ x \notin Linked
    BY <1>2, <1>5
  <2> QED
    BY <1>0, <2>1 DEF Somewhere
<1>7. n \in Nat /\ s \in [1 .. n -> Items]
  BY <1>0, LineTypes
<1>8. /\ \A i \in 1 .. B : i \in 1 .. B + n /\ r[i] = f + i - 1 /\ r[i] \in BlockItems(b)
      /\ \A i \in B + 1 .. B + n : i - B \in 1 .. n /\ r[i] = s[i - B] /\ InLine(s, r[i])
      /\ \A i \in 1 .. n : i + B \in B + 1 .. B + n /\ r[i + B] = s[i]
  <2>1. ASSUME NEW i \in 1 .. B
        PROVE  i \in 1 .. B + n /\ r[i] = f + i - 1 /\ r[i] \in BlockItems(b)
    BY <1>3, <1>7, <1>b
  <2>2. ASSUME NEW i \in B + 1 .. B + n PROVE i - B \in 1 .. n /\ r[i] = s[i - B]
    BY <1>3, <1>7, <1>b
  <2>3. ASSUME NEW i \in B + 1 .. B + n PROVE InLine(s, r[i])
    BY <2>2 DEF InLine
  <2>4. ASSUME NEW i \in 1 .. n PROVE i + B \in B + 1 .. B + n /\ r[i + B] = s[i]
    <3>1. i + B \in B + 1 .. B + n /\ i + B - B = i
      BY <1>3, <1>7
    <3>2. PICK j : j = i + B
      OBVIOUS
    <3>3. j \in B + 1 .. B + n /\ j - B = i
      BY <1>3, <1>7, <3>1, <3>2
    <3>4. r[j] = s[j - B]
      BY <2>2, <3>3
    <3> QED
      BY <3>1, <3>2, <3>3, <3>4
  <2> QED
    BY <2>1, <2>2, <2>3, <2>4
<1>9. r \in Seq(Items) /\ Len(r) = B + n
  <2>1. ASSUME NEW i \in 1 .. B + n PROVE r[i] \in Items
    <3>1. i \in 1 .. B \/ i \in B + 1 .. B + n
      BY <1>3, <1>7
    <3> QED
      BY <1>2, <1>7, <1>8, <3>1
  <2>2. DOMAIN r = 1 .. B + n /\ r = [i \in 1 .. B + n |-> r[i]] /\ B + n \in Nat
    BY <1>3, <1>7, <1>b
  <2> QED
    BY <2>1, <2>2
<1>10. \A x : InLine(r, x) <=> InLine(s, x) \/ x \in BlockItems(b)
  <2>1. ASSUME NEW i \in 1 .. B + n PROVE InLine(s, r[i]) \/ r[i] \in BlockItems(b)
    <3>1. i \in 1 .. B \/ i \in B + 1 .. B + n
      BY <1>3, <1>7
    <3> QED
      BY <1>8, <3>1
  <2>2. ASSUME NEW i \in 1 .. n PROVE InLine(r, s[i])
    <3>1. i + B \in 1 .. B + n /\ r[i + B] = s[i]
      BY <1>3, <1>7, <1>8
    <3> QED
      BY <1>9, <3>1 DEF InLine
  <2>3. ASSUME NEW x \in BlockItems(b) PROVE InLine(r, x)
    <3>1. x - f + 1 \in 1 .. B /\ x = f + (x - f + 1) - 1
      BY <1>3
    <3>2. x - f + 1 \in 1 .. B + n /\ r[x - f + 1] = x
      BY <1>8, <3>1
    <3> QED
      BY <1>9, <3>2 DEF InLine
  <2> HIDE DEF n, B
  <2> QED
    BY <1>9, <2>1, <2>2, <2>3 DEF InLine, n
<1>11. IsLine(r)'
  <2>1. ASSUME NEW i \in 1 .. B + n, NEW j \in 1 .. B + n, r[i] = r[j] PROVE i = j
    <3>1. (i \in 1 .. B \/ i \in B + 1 .. B + n) /\ (j \in 1 .. B \/ j \in B + 1 .. B + n)
      BY <1>3, <1>7
    <3>2. CASE i \in 1 .. B /\ j \in 1 .. B
      BY <1>3, <1>8, <2>1, <3>2
    <3>3. CASE i \in B + 1 .. B + n /\ j \in B + 1 .. B + n
      <4>1. \A k, l \in 1 .. n : s[k] = s[l] => k = l
        BY <1>0 DEF IsLine
      <4>2. i - B = j - B
        BY <1>8, <2>1, <3>3, <4>1
      <4> QED
        BY <1>3, <1>7, <4>2
    <3> QED
      BY <1>6, <1>8, <2>1, <3>1, <3>2, <3>3
  <2>2. \A i \in 1 .. n : next[s[i]].ptr = IF i = n THEN Null ELSE s[i + 1]
    BY <1>0 DEF IsLine
  <2>3. free_head.ptr = IF n = 0 THEN Null ELSE s[1]
    BY <1>0 DEF IsLine
  <2>4. ASSUME NEW i \in 1 .. B + n
        PROVE  next[r[i]].ptr = IF i = B + n THEN Null ELSE r[i + 1]
    <3>1. CASE i \in 1 .. B - 1
      <4>1. i \in 1 .. B /\ i + 1 \in 1 .. B /\ i # B + n
        BY <1>3, <1>7, <3>1
      <4>2. r[i] = f + i - 1 /\ r[i + 1] = f + (i + 1) - 1 /\ r[i] \in BlockItems(b)
        BY <1>8, <4>1
      <4>3. r[i] # Last(b) /\ r[i + 1] = r[i] + 1
        BY <1>3, <4>1, <4>2
      <4> QED
        BY <1>4, <4>1, <4>2, <4>3
    <3>2. CASE i = B
      <4>1. r[i] = Last(b)
        BY <1>3, <1>8, <3>2
      <4>2. n # 0 => r[i + 1] = s[1]
        <5>1. n # 0 => 1 \in 1 .. n /\ 1 + B = i + 1
          BY <1>3, <1>7, <3>2
        <5> QED
          BY <1>8, <5>1
      <4> QED
        BY <1>3, <1>4, <1>7, <2>3, <3>2, <4>1, <4>2
    <3>3. CASE i \in B + 1 .. B + n
      <4>1. i - B \in 1 .. n /\ r[i] = s[i - B]
        BY <1>8, <3>3
      <4>2. next[r[i]].ptr = IF i - B = n THEN Null ELSE s[i - B + 1]
        BY <2>2, <4>1
      <4>3. i # B + n => i - B + 1 \in 1 .. n /\ i - B + 1 + B = i + 1
        BY <1>3, <1>7, <3>3
      <4>4. i # B + n => r[i + 1] = s[i - B + 1]
        BY <1>8, <4>3
      <4> QED
        BY <1>3, <1>7, <3>3, <4>2, <4>4
    <3> QED
      BY <1>3, <1>7, <3>1, <3>2, <3>3
  <2>5. free_head'.ptr = IF B + n = 0 THEN Null ELSE r[1]
    BY <1>1, <1>3, <1>7, <1>8 DEF Ptr
  <2> HIDE DEF n, B
  <2> QED
    BY <1>1, <1>9, <2>1, <2>4, <2>5 DEF IsLine
<1>12. \A x : x \in Linked' <=> x \in Linked \/ x \in BlockItems(b)
  <2>1. ASSUME NEW c \in 1 .. used
        PROVE  (\A u \in Threads : pc'[u] \in {"block_read", "block_cas"} => item'[u] # c)
                 <=> \/ c = b
                     \/ \A u \in Threads : pc[u] \in {"block_read", "block_cas"} => item[u] # c
    BY <1>1, <1>4, <1>a DEF PrivatePCs
  <2> QED
    BY <1>1, <1>2, <2>1 DEF Linked, BlockItems, First, Last
<1>13. ASSUME NEW u \in Threads PROVE Private(u)'
  <2>1. Private(u) /\ pc'[t] \notin PrivatePCs
    BY <1>0, <1>1 DEF PrivatePCs
  <2>2. u # t => pc'[u] = pc[u]
    BY <1>1
  <2> QED
    BY <1>1, <2>1, <2>2 DEF Private
<1>14. ASSUME NEW u \in Threads PROVE InHands(r, u)'
  <2>1. CASE u = t
    BY <1>1, <2>1 DEF InHands, PutPCs
  <2>2. CASE u # t
    <3>1. InHands(s, u)
      BY <1>0
    <3>2. pc'[u] = pc[u] /\ pc'[t] \notin PutPCs
      BY <1>1, <2>2 DEF PutPCs
    <3>3. pc[u] \in PutPCs => ~InLine(r, item[u]) /\ item[u] \in Linked'
      BY <1>5, <1>10, <1>12, <3>1 DEF InHands
    <3> QED
      BY <1>1, <3>1, <3>2, <3>3 DEF InHands, InLine
  <2> QED
    BY <2>1, <2>2
<1>15. ASSUME NEW x \in Items PROVE Somewhere(r, x)'
  <2>1. Somewhere(s, x)
    BY <1>0
  <2>2. \A v \in Threads : pc[v] \in PutPCs => pc'[v] \in PutPCs
    BY <1>1 DEF PutPCs
  <2>3. InLine(r, x)' <=> InLine(r, x)
    BY DEF InLine
  <2> QED
    BY <1>1, <1>6, <1>10, <1>12, <2>1, <2>2, <2>3 DEF Somewhere
<1> QED
  BY <1>11, <1>13, <1>14, <1>15 DEF Placed

(* Every step keeps each item at its place.                                *)
LEMMA StepPlaced == Typed /\ PlaceInv /\ [Next]_vars => PlaceInv'
<1> SUFFICES ASSUME Typed, PlaceInv, [Next]_vars, ~astray' PROVE \E r : Placed(r)'
  BY DEF PlaceInv
<1>0. TypeOK
  BY DEF Typed
<1>1. ASSUME NEW t \in Threads, Work(t) \/ Call(t) PROVE \E r : Placed(r)'
  <2>0. ~astray
    BY <1>1 DEF Work, Call, Alloc, GetRead, GetNext, GetCas, GetRetry, SetId, Malloc,
       MallocFails, BlockRead, BlockCas, BlockRetry, BlockKeep, Put, PutRead, PutLink,
       PutCas, PutRetry, history
  <2>1. PICK s : Placed(s)
    BY <2>0 DEF PlaceInv
  <2> DEFINE Stay == /\ free_head' = free_head /\ out' = out /\ used' = used /\ next' = next
                     /\ \A u \in Threads \ {t} :
                          pc'[u] = pc[u] /\ item'[u] = item[u] /\ old'[u] = old[u]
                     /\ (pc'[t] \in PrivatePCs) = (pc[t] \in PrivatePCs)
                     /\ (pc'[t] \in PutPCs) = (pc[t] \in PutPCs)
                     /\ (pc[t] \in PrivatePCs \cup PutPCs => item'[t] = item[t])
                     /\ pc'[t] \notin {"put_cas", "block_cas", "set_id"}
  <2> USE <1>0 DEF Goto, history
  <2>2. ASSUME Alloc(t) \/ GetRead(t) \/ GetNext(t) \/ GetRetry(t) \/ MallocFails(t)
        PROVE  Stay
    BY <2>2 DEF Alloc, GetRead, GetNext, GetRetry, MallocFails, TypeOK, PrivatePCs, PutPCs
  <2>3. ASSUME BlockRetry(t) \/ BlockKeep(t) \/ PutRead(t) \/ PutRetry(t) PROVE Stay
    BY <2>3 DEF BlockRetry, BlockKeep, PutRead, PutRetry, TypeOK, PrivatePCs, PutPCs
  <2>4. Stay => Placed(s)'
    BY <2>1, PlaceStays
  <2> HIDE DEF Stay
  <2>5. ASSUME GetCas(t) PROVE \E r : Placed(r)'
    BY <2>1, <2>5, GetCasPlaced
  <2>6. ASSUME SetId(t) PROVE \E r : Placed(r)'
    BY <2>1, <2>6, SetIdPlaced
  <2>7. ASSUME Malloc(t) PROVE \E r : Placed(r)'
    BY <2>1, <2>7, MallocPlaced
  <2>8. ASSUME BlockRead(t) PROVE \E r : Placed(r)'
    BY <2>1, <2>8, BlockReadPlaced
  <2>9. ASSUME BlockCas(t) PROVE \E r : Placed(r)'
    BY <2>1, <2>9, BlockCasPlaced
  <2>10. ASSUME NEW x \in Items, Put(t, x) PROVE \E r : Placed(r)'
    BY <2>1, <2>10, PutPlaced
  <2>11. ASSUME PutLink(t) PROVE \E r : Placed(r)'
    BY <2>1, <2>11, PutLinkPlaced
  <2>12. ASSUME PutCas(t) PROVE \E r : Placed(r)'
    BY <2>1, <2>12, PutCasPlaced
  <2> QED
    BY <1>1, <2>2, <2>3, <2>4, <2>5, <2>6, <2>7, <2>8, <2>9, <2>10, <2>11, <2>12 DEF Work, Call
<1>2. CASE UNCHANGED vars
  <2>1. PICK s : Placed(s)
    BY <1>2 DEF PlaceInv, vars, history
  <2>2. Placed(s)'
    BY <1>2, <2>1 DEF Placed, IsLine, Private, InHands, Somewhere, InLine, Linked,
       BlockItems, First, Last, vars, history
  <2> QED
    BY <2>2
<1> QED
  BY <1>1, <1>2 DEF Next

-----------------------------------------------------------------------------
(* The walk of OnList, n steps from the head, is at the n + 1st item of    *)
(* the line, and stays at NULL from its end on.                            *)
LEMMA OnListIsLine ==
  ASSUME NEW s, IsLine(s)
  PROVE  \A x : x \in OnList <=> InLine(s, x)
<1> DEFINE N == Cardinality(Items)
           len == Len(s)
           Cut(n) == IF n < len THEN s[n + 1] ELSE Null
           After(x) == IF x = Null THEN Null ELSE next[x].ptr
           Is(f) == f = [n \in 0 .. N |-> IF n = 0 THEN free_head.ptr
                                          ELSE IF f[n - 1] = Null THEN Null
                                          ELSE next[f[n - 1]].ptr]
           walk == CHOOSE f : Is(f)
<1>0. OnList = {walk[n] : n \in 0 .. N} \ {Null}
  BY DEF OnList
<1>1. len \in Nat /\ s \in [1 .. len -> Items] /\ Null \notin Items
  BY LineTypes DEF Null, Items
<1>2. N \in Nat /\ len <= N
  <2>1. IsFiniteSet(Items) /\ N \in Nat
    <3>1. NumBlocks * BlockSize \in Nat
      BY BlockAssumption
    <3> QED
      BY <3>1, FS_Interval, FS_CardinalityType DEF Items
  <2>2. s \in Injection(1 .. len, Items)
    BY <1>1 DEF IsLine, Injection, IsInjective
  <2>3. Cardinality(1 .. len) = len /\ IsFiniteSet(1 .. len)
    BY <1>1, FS_Interval
  <2>4. Cardinality(1 .. len) <= N
    BY <2>1, <2>2, FS_Injection
  <2> QED
    BY <2>1, <2>3, <2>4
<1>3. Cut(0) = free_head.ptr
  <2>1. Cut(0) = IF len = 0 THEN Null ELSE s[1]
    BY <1>1
  <2>2. free_head.ptr = IF len = 0 THEN Null ELSE s[1]
    BY DEF IsLine
  <2> HIDE DEF Cut
  <2> QED
    BY <2>1, <2>2
<1>4. ASSUME NEW n \in 0 .. N - 1 PROVE After(Cut(n)) = Cut(n + 1)
  <2>1. CASE n < len
    <3>1. n + 1 \in 1 .. len /\ s[n + 1] \in Items
      BY <1>1, <2>1
    <3>2. next[s[n + 1]].ptr = IF n + 1 = len THEN Null ELSE s[n + 1 + 1]
      BY <3>1 DEF IsLine
    <3> QED
      BY <1>1, <2>1, <3>1, <3>2
  <2>2. CASE ~ (n < len)
    BY <1>1, <2>2
  <2> QED
    BY <2>1, <2>2
<1> HIDE DEF Cut
<1>5. Is([n \in 0 .. N |-> Cut(n)])
  <2>1. \A n \in 0 .. N : n # 0 => n - 1 \in 0 .. N - 1 /\ n - 1 \in 0 .. N /\ n - 1 + 1 = n
    BY <1>2
  <2> QED
    BY <1>3, <1>4, <2>1
<1>6. \A n \in 0 .. N : walk[n] = IF n = 0 THEN free_head.ptr ELSE After(walk[n - 1])
  <2>1. Is(walk)
    BY <1>5
  <2> HIDE DEF walk
  <2> QED
    BY <2>1
<1> HIDE DEF walk, After
<1>7. \A n \in 0 .. N : walk[n] = Cut(n)
  <2> DEFINE T == {n \in Nat : n <= N => walk[n] = Cut(n)}
  <2>1. 0 \in T
    BY <1>2, <1>3, <1>6
  <2>2. ASSUME NEW k \in Nat, k \in T PROVE k + 1 \in T
    <3> SUFFICES ASSUME k + 1 <= N PROVE walk[k + 1] = Cut(k + 1)
      OBVIOUS
    <3>1. k + 1 \in 0 .. N /\ k + 1 # 0 /\ k + 1 - 1 = k /\ k \in 0 .. N - 1
      BY <1>2
    <3>2. walk[k + 1] = After(walk[k]) /\ walk[k] = Cut(k)
      BY <1>2, <1>6, <2>2, <3>1
    <3> QED
      BY <1>4, <3>1, <3>2
  <2> HIDE DEF T
  <2>3. Nat \subseteq T
    BY <2>1, <2>2, NatSetInduction
  <2> QED
    BY <1>2, <2>3 DEF T
<1>8. ASSUME NEW n \in 0 .. N, walk[n] # Null PROVE InLine(s, walk[n])
  <2>1. n < len /\ walk[n] = s[n + 1]
    BY <1>7, <1>8 DEF Cut
  <2>2. n + 1 \in 1 .. len
    BY <1>1, <1>2, <2>1
  <2> QED
    BY <2>1, <2>2 DEF InLine
<1>9. ASSUME NEW i \in 1 .. len PROVE s[i] \in OnList
  <2>1. i - 1 \in 0 .. N /\ i - 1 < len /\ i - 1 + 1 = i
    BY <1>1, <1>2
  <2>2. walk[i - 1] = s[i]
    BY <1>7, <2>1 DEF Cut
  <2> QED
    BY <1>0, <1>1, <2>1, <2>2
<1> QED
  BY <1>0, <1>8, <1>9 DEF InLine

(* One place per item: the three terms of OnePlace add up to one.          *)
LEMMA PlacedIsOnePlace == Typed /\ PlaceInv => OnePlace
<1> SUFFICES ASSUME Typed, PlaceInv, ~astray, NEW x \in Linked
             PROVE  out[x] + Cardinality(InHand(x)) + (IF x \in OnList THEN 1 ELSE 0) = 1
  BY DEF OnePlace
<1>1. PICK s : Placed(s)
  BY DEF PlaceInv
<1>2. x \in OnList <=> InLine(s, x)
  BY <1>1, OnListIsLine DEF Placed
<1>3. x \in Items
  <2>1. PICK b \in 1 .. used : x \in BlockItems(b)
    BY LinkedIs
  <2> QED
    BY <2>1, HeldBlock, BlockFits
<1>4. Somewhere(s, x) /\ \A t \in Threads : InHands(s, t)
  BY <1>1, <1>3 DEF Placed
<1>5. CASE InHand(x) = {}
  <2>1. Cardinality(InHand(x)) = 0
    BY <1>5, FS_EmptySet
  <2>2. out[x] = IF InLine(s, x) THEN 0 ELSE 1
    BY <1>4, <1>5 DEF Somewhere, InHand
  <2> QED
    BY <1>2, <2>1, <2>2
<1>6. CASE InHand(x) # {}
  <2>1. PICK t \in Threads : pc[t] \in PutPCs /\ item[t] = x
    BY <1>6 DEF InHand
  <2>2. InHand(x) = {t}
    BY <1>4, <2>1 DEF InHands, InHand
  <2>3. Cardinality(InHand(x)) = 1
    BY <2>2, FS_Singleton
  <2>4. out[x] = 0 /\ ~InLine(s, x)
    BY <1>4, <2>1 DEF InHands
  <2> QED
    BY <1>2, <2>3, <2>4
<1> QED
  BY <1>5, <1>6

(* For any threads, blocks and number of calls: no item is lost and none   *)
(* has two owners as long as no CAS of get_head went astray, and every     *)
(* block is kept for ab_mem_destory.                                       *)
THEOREM NoneLost == Spec => []NothingLost
<1> DEFINE I == Typed /\ BlocksHeld /\ PlaceInv
<1>1. Init => I
  BY InitTyped, InitBlocks, InitPlaced
<1>2. I /\ [Next]_vars => I'
  BY StepTyped, StepBlocks, StepPlaced
<1>3. I => NothingLost
  BY HeldAreKept, PlacedIsOnePlace DEF NothingLost
<1> QED
  BY <1>1, <1>2, <1>3, PTL DEF Spec

-----------------------------------------------------------------------------
(* Counts that do not come round: each change of the head but a block's is *)
(* the end of a call.  In the code the count has 16 bits: between the load *)
(* and the CAS of one get_head fewer than 2^16 others may succeed.         *)

CountsLast == MaxCalls <= CntMod

(* Nobody reads at first.                                                  *)
LEMMA InitCounted == Init => CountInv
<1> SUFFICES ASSUME Init PROVE CountInv
  OBVIOUS
<1>1. Pending = {} /\ \A t \in Threads : ~Reads(t)
  BY DEF Init, Pending, Reads, GetPCs
<1>2. IsFiniteSet(Pending) /\ Cardinality(Pending) = 0
  BY <1>1, FS_EmptySet
<1> QED
  BY <1>1, <1>2 DEF Init, CountInv, Counted, Unmoved

(* The numbers involved. *)
LEMMA TurnTypes ==
  ASSUME Typed, CountInv
  PROVE  /\ Cardinality(Pending) \in Nat /\ calls \in Nat /\ calls <= MaxCalls
         /\ CntMod \in Nat \ {0} /\ MaxCalls \in Nat
         /\ free_head.cnt \in 0 .. CntMod - 1 /\ \A u \in Threads : old[u].cnt \in 0 .. CntMod - 1
         /\ \A u \in Threads : Turns(u) \in 0 .. CntMod - 1
<1>1. Cardinality(Pending) \in Nat
  BY FS_CardinalityType DEF CountInv, Counted
<1>2. calls \in 0 .. MaxCalls /\ free_head \in Ptrs /\ \A u \in Threads : old[u] \in Ptrs
  BY DEF Typed, TypeOK
<1>3. free_head.cnt \in 0 .. CntMod - 1 /\ \A u \in Threads : old[u].cnt \in 0 .. CntMod - 1
  BY <1>2, PtrTypes
<1>4. CntMod \in Nat \ {0} /\ MaxCalls \in Nat
  BY CntAssumption
<1> QED
  BY <1>1, <1>2, <1>3, <1>4 DEF Turns

(* A step that leaves head, calls and readers alone. *)
LEMMA CountedStays ==
  ASSUME Counted, free_head' = free_head, calls' = calls, Pending' = Pending,
         \A u \in Threads : Reads(u)' => Reads(u) /\ old'[u] = old[u]
  PROVE  Counted' /\ \A u \in Threads : Reads(u)' => Turns(u)' = Turns(u)
<1>1. \A u \in Threads : Reads(u)' => Turns(u)' = Turns(u)
  BY DEF Turns
<1> QED
  BY <1>1 DEF Counted

(* The front of the line has the same next field after a step that keeps   *)
(* the line.                                                               *)
LEMMA FrontStays ==
  ASSUME NEW s, Placed(s), Placed(s)', free_head' = free_head, free_head.ptr # Null
  PROVE  next'[free_head.ptr].ptr = next[free_head.ptr].ptr
<1>1. IsLine(s) /\ Len(s) \in Nat /\ Len(s) # 0 /\ s[1] = free_head.ptr
  BY LineTypes DEF Placed
<1>2. IsLine(s)'
  BY DEF Placed
<1>3. 1 \in 1 .. Len(s)
  BY <1>1
<1>4. next[s[1]].ptr = IF 1 = Len(s) THEN Null ELSE s[1 + 1]
  BY <1>1, <1>3 DEF IsLine
<1>5. next'[s[1]].ptr = IF 1 = Len(s) THEN Null ELSE s[1 + 1]
  BY <1>2, <1>3 DEF IsLine
<1> QED
  BY <1>1, <1>4, <1>5

(* A call begins. *)
LEMMA CallCounted ==
  ASSUME Typed, CountInv, NEW t \in Threads, Call(t)
  PROVE  CountInv'
<1>0. TypeOK
  BY DEF Typed
<1>1. /\ pc[t] = "idle" /\ pc'[t] \in {"get_read", "put_read"} /\ calls' = calls + 1
      /\ free_head' = free_head /\ next' = next /\ old' = old /\ nxt' = nxt
      /\ reset' = reset /\ astray' = astray
      /\ \A u \in Threads \ {t} : pc'[u] = pc[u]
  BY <1>0 DEF Call, Alloc, Put, Goto, TypeOK, history
<1>2. Pending' = Pending \cup {t} /\ t \notin Pending
  BY <1>1 DEF Pending
<1>3. IsFiniteSet(Pending') /\ Cardinality(Pending') = Cardinality(Pending) + 1
  BY <1>2, FS_AddElement DEF CountInv, Counted
<1>4. \A u \in Threads : Reads(u)' => Reads(u) /\ Turns(u)' = Turns(u)
  BY <1>1 DEF Reads, Turns, GetPCs
<1>5. Counted'
  <2>1. ASSUME NEW u \in Threads, Reads(u)'
        PROVE  Turns(u)' + Cardinality(Pending') <= calls'
    <3>1. Turns(u) + Cardinality(Pending) <= calls
      BY <1>4, <2>1 DEF CountInv, Counted
    <3> QED
      BY <1>1, <1>3, <1>4, <2>1, <3>1, TurnTypes
  <2>2. Cardinality(Pending') <= calls'
    <3>1. Cardinality(Pending) <= calls
      BY DEF CountInv, Counted
    <3> QED
      BY <1>1, <1>3, <3>1, TurnTypes
  <2> QED
    BY <1>3, <2>1, <2>2 DEF Counted
<1>6. ASSUME NEW u \in Threads PROVE Unmoved(u)'
  <2>1. Unmoved(u)
    BY DEF CountInv
  <2> QED
    BY <1>1, <1>4, <2>1 DEF Unmoved
<1> QED
  BY <1>5, <1>6 DEF CountInv

(* A CAS of get_head or put_head ends a call: the count moves on by one,   *)
(* and what any reader has seen is not the head any more.                  *)
LEMMA CasCounted ==
  ASSUME CountsLast, Typed, CountInv, NEW t \in Threads, GetCas(t) \/ PutCas(t)
  PROVE  CountInv'
<1>0. TypeOK /\ Has(t)
  BY DEF Typed
<1>1. /\ pc[t] \in {"get_cas", "put_cas"} /\ pc'[t] \in {"idle", "set_id"} /\ calls' = calls
      /\ \A u \in Threads \ {t} : pc'[u] = pc[u] /\ old'[u] = old[u] /\ reset'[u] = reset[u]
  BY <1>0 DEF GetCas, PutCas, Goto, TypeOK, history
<1>2. free_head'.cnt = IF free_head.cnt + 1 = CntMod THEN 0 ELSE free_head.cnt + 1
  <2>1. old[t] \in Ptrs /\ nxt[t] \in Items \cup {Null}
    BY <1>0 DEF TypeOK
  <2>2. CASE GetCas(t)
    BY <2>1, <2>2, IncrCounts DEF GetCas
  <2>3. CASE PutCas(t)
    <3>1. item[t] \in Items
      BY <1>0, <2>3 DEF PutCas, Goto, Has, PutPCs
    <3> QED
      BY <2>1, <2>3, <3>1, IncrCounts DEF PutCas
  <2> QED
    BY <2>2, <2>3
<1>3. Pending' = Pending \ {t} /\ t \in Pending
  BY <1>1 DEF Pending
<1>4. IsFiniteSet(Pending') /\ Cardinality(Pending') = Cardinality(Pending) - 1
  BY <1>3, FS_RemoveElement DEF CountInv, Counted
<1>5. ASSUME NEW u \in Threads, Reads(u)'
      PROVE  Turns(u)' = Turns(u) + 1 /\ Turns(u) + Cardinality(Pending) <= calls
  <2>1. u # t
    BY <1>1, <1>5 DEF Reads, GetPCs
  <2>2. Reads(u) /\ u \in Pending /\ old'[u] = old[u]
    BY <1>1, <1>5, <2>1 DEF Reads, Pending, GetPCs
  <2>3. Turns(u) + Cardinality(Pending) <= calls
    BY <2>2 DEF CountInv, Counted
  <2>4. Cardinality(Pending) >= 2
    <3>1. {u, t} \subseteq Pending /\ IsFiniteSet(Pending)
      BY <1>3, <2>2 DEF CountInv, Counted
    <3>2. IsFiniteSet({u}) /\ Cardinality({u}) = 1 /\ t \notin {u}
      BY <2>1, FS_Singleton
    <3>3. Cardinality({u} \cup {t}) = 2
      BY <3>2, FS_AddElement
    <3>4. {u} \cup {t} \subseteq Pending
      BY <3>1
    <3>5. Cardinality({u} \cup {t}) <= Cardinality(Pending)
      BY <3>1, <3>4, FS_Subset
    <3> QED
      BY <3>3, <3>5, TurnTypes
  <2>5. Turns(u) + 1 < CntMod
    <3>1. Turns(u) \in Nat
      BY TurnTypes
    <3> QED
      BY <2>3, <2>4, <3>1, TurnTypes DEF CountsLast
  <2>6. Turns(u)' = IF free_head'.cnt >= old[u].cnt THEN free_head'.cnt - old[u].cnt
                    ELSE free_head'.cnt - old[u].cnt + CntMod
    BY <2>2 DEF Turns
  <2>7. Turns(u) = IF free_head.cnt >= old[u].cnt THEN free_head.cnt - old[u].cnt
                   ELSE free_head.cnt - old[u].cnt + CntMod
    BY DEF Turns
  <2>8. PICK c, d : c = free_head.cnt /\ d = free_head'.cnt
    OBVIOUS
  <2>9. /\ c \in 0 .. CntMod - 1 /\ old[u].cnt \in 0 .. CntMod - 1 /\ CntMod \in Nat \ {0}
        /\ d = IF c + 1 = CntMod THEN 0 ELSE c + 1
    BY <1>2, <2>8, TurnTypes
  <2> QED
    BY <2>3, <2>5, <2>6, <2>7, <2>8, <2>9
<1>6. Counted'
  <2>1. ASSUME NEW u \in Threads, Reads(u)'
        PROVE  Turns(u)' + Cardinality(Pending') <= calls'
    <3>1. Turns(u) \in Nat
      BY TurnTypes
    <3> QED
      BY <1>1, <1>4, <1>5, <2>1, <3>1, TurnTypes
  <2>2. Cardinality(Pending') <= calls'
    <3>1. Cardinality(Pending) <= calls
      BY DEF CountInv, Counted
    <3> QED
      BY <1>1, <1>4, <3>1, TurnTypes
  <2> QED
    BY <1>4, <2>1, <2>2 DEF Counted
<1>7. ASSUME NEW u \in Threads PROVE Unmoved(u)'
  <2>1. Reads(u)' => Turns(u)' # 0
    <3>1. Turns(u) \in Nat
      BY TurnTypes
    <3> QED
      BY <1>5, <3>1
  <2> QED
    BY <2>1 DEF Unmoved
<1> QED
  BY <1>6, <1>7 DEF CountInv

(* Every step keeps the counts.                                            *)
LEMMA StepCounted == CountsLast /\ Typed /\ PlaceInv /\ CountInv /\ [Next]_vars => CountInv'
<1> SUFFICES ASSUME CountsLast, Typed, PlaceInv, CountInv, [Next]_vars PROVE CountInv'
  OBVIOUS
<1>0. TypeOK /\ Counted /\ \A u \in Threads : Unmoved(u)
  BY DEF Typed, CountInv
<1>1. ASSUME NEW t \in Threads, Work(t) \/ Call(t) PROVE CountInv'
  <2> USE <1>0 DEF Goto, history
  <2>1. CASE Call(t)
    BY <2>1, CallCounted
  <2>2. CASE GetCas(t) \/ PutCas(t)
    BY <2>2, CasCounted
  <2>3. CASE GetRead(t)
    <3>1. /\ pc[t] = "get_read" /\ pc'[t] \in {"malloc", "get_next"} /\ old'[t] = free_head
          /\ free_head' = free_head /\ next' = next /\ nxt' = nxt /\ calls' = calls
          /\ astray' = astray
          /\ \A u \in Threads \ {t} : pc'[u] = pc[u] /\ old'[u] = old[u] /\ reset'[u] = reset[u]
      BY <2>3 DEF GetRead, TypeOK
    <3>2. Pending' = Pending
      BY <3>1 DEF Pending
    <3>3. Turns(t)' = 0 /\ \A u \in Threads \ {t} : Turns(u)' = Turns(u) /\ (Reads(u)' <=> Reads(u))
      BY <3>1, TurnTypes DEF Turns, Reads
    <3>4. Counted'
      <4>1. Cardinality(Pending) <= calls /\ Cardinality(Pending) \in Nat
        BY TurnTypes DEF Counted
      <4>2. ASSUME NEW u \in Threads, Reads(u)'
            PROVE  Turns(u)' + Cardinality(Pending) <= calls
        <5>1. CASE u = t
          BY <3>3, <4>1, <5>1
        <5>2. CASE u # t
          BY <3>3, <4>2, <5>2 DEF Counted
        <5> QED
          BY <5>1, <5>2
      <4> QED
        BY <3>1, <3>2, <4>1, <4>2 DEF Counted
    <3>5. ASSUME NEW u \in Threads PROVE Unmoved(u)'
      <4>1. CASE u = t
        BY <3>1, <4>1 DEF Unmoved
      <4>2. CASE u # t
        BY <3>1, <3>3, <4>2 DEF Unmoved
      <4> QED
        BY <4>1, <4>2
    <3> QED
      BY <3>4, <3>5 DEF CountInv
  <2>4. CASE BlockCas(t)
    <3>1. /\ pc[t] = "block_cas" /\ pc'[t] = "block_keep" /\ calls' = calls
          /\ \A u \in Threads \ {t} : pc'[u] = pc[u]
          /\ \A u \in Threads : pc[u] \in GetPCs => reset'[u]
      BY <2>4 DEF BlockCas, TypeOK, GetPCs
    <3>2. Pending' = Pending
      BY <3>1 DEF Pending
    <3>3. \A u \in Threads : ~Reads(u)'
      BY <3>1 DEF Reads, GetPCs
    <3> QED
      BY <3>1, <3>2, <3>3 DEF CountInv, Counted, Unmoved
  <2>5. CASE MallocFails(t)
    <3>1. /\ pc[t] = "malloc" /\ pc'[t] = "idle" /\ calls' = calls /\ free_head' = free_head
          /\ next' = next /\ nxt' = nxt /\ astray' = astray /\ reset' = reset
          /\ \A u \in Threads \ {t} : pc'[u] = pc[u] /\ old'[u] = old[u]
      BY <2>5 DEF MallocFails, TypeOK
    <3>2. Pending' = Pending \ {t} /\ t \in Pending
      BY <3>1 DEF Pending
    <3>3. IsFiniteSet(Pending') /\ Cardinality(Pending') = Cardinality(Pending) - 1
      BY <3>2, FS_RemoveElement DEF Counted
    <3>4. ASSUME NEW u \in Threads, Reads(u)' PROVE u # t /\ Reads(u) /\ Turns(u)' = Turns(u)
      BY <3>1, <3>4 DEF Reads, GetPCs, Turns
    <3>5. Counted'
      <4>1. Cardinality(Pending') <= Cardinality(Pending) /\ Cardinality(Pending') \in Int
        BY <3>3, TurnTypes
      <4>2. Cardinality(Pending') <= calls'
        BY <3>1, <4>1, TurnTypes DEF Counted
      <4>3. ASSUME NEW u \in Threads, Reads(u)'
            PROVE  Turns(u)' + Cardinality(Pending') <= calls'
        <5>1. Turns(u) + Cardinality(Pending) <= calls /\ Turns(u) \in Nat
          BY <3>4, <4>3, TurnTypes DEF Counted
        <5> QED
          BY <3>1, <3>4, <4>1, <4>3, <5>1, TurnTypes
      <4> QED
        BY <3>3, <4>2, <4>3 DEF Counted
    <3>6. ASSUME NEW u \in Threads PROVE Unmoved(u)'
      BY <3>1, <3>4 DEF Unmoved
    <3> QED
      BY <3>5, <3>6 DEF CountInv
  <2>6. CASE GetNext(t)
    <3>1. /\ pc[t] = "get_next" /\ pc'[t] = "get_cas" /\ nxt'[t] = next[old[t].ptr].ptr
          /\ free_head' = free_head /\ next' = next /\ calls' = calls /\ old' = old
          /\ astray' = astray /\ reset' = reset
          /\ \A u \in Threads \ {t} : pc'[u] = pc[u] /\ nxt'[u] = nxt[u]
      BY <2>6 DEF GetNext, TypeOK
    <3>2. Pending' = Pending
      BY <3>1 DEF Pending
    <3>3. \A u \in Threads : Reads(u)' => Reads(u) /\ old'[u] = old[u]
      BY <3>1 DEF Reads, GetPCs
    <3>4. Counted' /\ \A u \in Threads : Reads(u)' => Turns(u)' = Turns(u)
      BY <3>1, <3>2, <3>3, CountedStays
    <3>5. ASSUME NEW u \in Threads PROVE Unmoved(u)'
      BY <3>1, <3>3, <3>4 DEF Unmoved
    <3> QED
      BY <3>4, <3>5 DEF CountInv
  <2>7. ASSUME GetRetry(t) \/ BlockRetry(t) \/ BlockKeep(t) \/ PutRead(t) \/ PutRetry(t)
        PROVE  CountInv'
    <3>1. /\ free_head' = free_head /\ next' = next /\ calls' = calls /\ astray' = astray
          /\ \A u \in Threads \ {t} : /\ pc'[u] = pc[u] /\ nxt'[u] = nxt[u]
                                      /\ old'[u] = old[u] /\ reset'[u] = reset[u]
          /\ pc[t] \notin {"idle", "set_id"} /\ pc'[t] \notin {"idle", "set_id"} \cup GetPCs
      BY <2>7 DEF GetRetry, BlockRetry, BlockKeep, PutRead, PutRetry, TypeOK, GetPCs
    <3>2. Pending' = Pending
      BY <3>1 DEF Pending
    <3>3. \A u \in Threads : Reads(u)' => u # t /\ Reads(u) /\ old'[u] = old[u]
      BY <3>1 DEF Reads
    <3>4. Counted' /\ \A u \in Threads : Reads(u)' => Turns(u)' = Turns(u)
      BY <3>1, <3>2, <3>3, CountedStays
    <3>5. ASSUME NEW u \in Threads PROVE Unmoved(u)'
      BY <3>1, <3>3, <3>4 DEF Unmoved
    <3> QED
      BY <3>4, <3>5 DEF CountInv
  <2>8. ASSUME SetId(t) \/ Malloc(t) \/ BlockRead(t) \/ PutLink(t) PROVE CountInv'
    <3>1. /\ free_head' = free_head /\ calls' = calls /\ astray' = astray /\ nxt' = nxt
          /\ reset' = reset
          /\ \A u \in Threads \ {t} : pc'[u] = pc[u] /\ old'[u] = old[u]
          /\ pc[t] \notin GetPCs /\ pc'[t] \notin GetPCs
          /\ (pc[t] \in {"idle", "set_id"}) = (pc'[t] \in {"idle", "set_id"})
      BY <2>8 DEF SetId, Malloc, BlockRead, PutLink, TypeOK, GetPCs
    <3>2. Pending' = Pending
      BY <3>1 DEF Pending
    <3>3. \A u \in Threads : Reads(u)' => u # t /\ Reads(u) /\ old'[u] = old[u]
      BY <3>1 DEF Reads
    <3>4. Counted' /\ \A u \in Threads : Reads(u)' => Turns(u)' = Turns(u)
      BY <3>1, <3>2, <3>3, CountedStays
    <3>5. ASSUME ~astray, free_head.ptr # Null
          PROVE  next'[free_head.ptr].ptr = next[free_head.ptr].ptr
      <4>1. PICK s : Placed(s)
        BY <3>5 DEF PlaceInv
      <4>2. Placed(s)'
        BY <2>8, <4>1, SetIdPlaced, MallocPlaced, BlockReadPlaced, PutLinkPlaced
      <4> QED
        BY <3>1, <3>5, <4>1, <4>2, FrontStays
    <3>6. ASSUME NEW u \in Threads PROVE Unmoved(u)'
      <4>1. Reads(u) => old[u].ptr # Null
        BY DEF Reads, Typed, Has
      <4> QED
        BY <3>1, <3>3, <3>4, <3>5, <4>1 DEF Unmoved
    <3> QED
      BY <3>4, <3>6 DEF CountInv
  <2> QED
    BY <1>1, <2>1, <2>2, <2>3, <2>4, <2>5, <2>6, <2>7, <2>8 DEF Work
<1>2. CASE UNCHANGED vars
  <2>1. Pending' = Pending /\ \A u \in Threads : Reads(u)' <=> Reads(u)
    BY <1>2 DEF Pending, Reads, vars, history
  <2>2. \A u \in Threads : Turns(u)' = Turns(u)
    BY <1>2 DEF Turns, vars, history
  <2> QED
    BY <1>0, <1>2, <2>1, <2>2 DEF CountInv, Counted, Unmoved, vars, history
<1> QED
  BY <1>1, <1>2 DEF Next

(* A reader whose head is the head has read the next of the head.          *)
LEMMA CountIsAccurate == Typed /\ CountInv => CasAccurate
<1> SUFFICES ASSUME Typed, CountInv, NEW t \in Threads, pc[t] = "get_cas",
                    free_head = old[t], ~reset[t], ~astray
             PROVE  nxt[t] = next[free_head.ptr].ptr
  BY DEF CasAccurate
<1>1. Reads(t)
  BY DEF Reads, GetPCs
<1>2. Turns(t) = 0
  BY TurnTypes DEF Turns
<1> QED
  BY <1>1, <1>2 DEF CountInv, Unmoved

(* For any threads, blocks and calls, when counts do not come round: the   *)
(* count guarantees the accuracy of the CAS, as ab_mem.md says, but for    *)
(* the blocks that start it at zero again.                                 *)
THEOREM CountGuards ==
  ASSUME CountsLast
  PROVE  Spec => []CasAccurate
<1> DEFINE I == Typed /\ PlaceInv /\ CountInv
<1>1. Init => I
  BY InitTyped, InitPlaced, InitCounted
<1>2. I /\ [Next]_vars => I'
  BY StepTyped, StepPlaced, StepCounted
<1>3. I => CasAccurate
  BY CountIsAccurate
<1> QED
  BY <1>1, <1>2, <1>3, PTL DEF Spec

(* The first CAS that goes astray is one that a block has misled.          *)
BlocksMislead == ~astray /\ astray' => \E t \in Threads : GetCas(t) /\ reset[t]

(* So an item can be lost or come to have two owners through a linked      *)
(* block only: whoever makes the first CAS that installs a wrong next read *)
(* the head before the block was linked.                                   *)
THEOREM OnlyBlocksMislead ==
  ASSUME CountsLast
  PROVE  Spec => [][BlocksMislead]_vars
<1> DEFINE I == Typed /\ PlaceInv /\ CountInv
<1>1. Init => I
  BY InitTyped, InitPlaced, InitCounted
<1>2. I /\ [Next]_vars => I'
  BY StepTyped, StepPlaced, StepCounted
<1>3. I /\ [Next]_vars => [BlocksMislead]_vars
  <2> SUFFICES ASSUME I, Next, ~astray, astray'
               PROVE  \E t \in Threads : GetCas(t) /\ reset[t]
    BY DEF BlocksMislead
  <2>1. CasAccurate
    BY CountIsAccurate
  <2>2. PICK t \in Threads : Work(t) \/ Call(t)
    BY DEF Next
  <2>3. GetCas(t)
    BY <2>2 DEF Work, Call, Alloc, GetRead, GetNext, GetRetry, SetId, Malloc,
       MallocFails, BlockRead, BlockCas, BlockRetry, BlockKeep, Put, PutRead, PutLink,
       PutCas, PutRetry, history
  <2>4. nxt[t] # next[old[t].ptr].ptr /\ pc[t] = "get_cas" /\ free_head = old[t]
    BY <2>3 DEF GetCas, Goto
  <2>5. reset[t]
    BY <2>1, <2>4 DEF CasAccurate
  <2> QED
    BY <2>3, <2>5
<1> QED
  BY <1>1, <1>2, <1>3, PTL DEF Spec
==============================================================================
