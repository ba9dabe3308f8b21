-------------------------- MODULE AbOrderProofs --------------------------
(***************************************************************************)
(* What is proved of the skip list on top of the invariant IInv of         *)
(* AbSkiplistProofs, for any threads, keys, incrs, items and heights: the  *)
(* levels stay sorted, each a part of the one below (LevelsAreWhole); the  *)
(* lowest level is what the calls have made of it (ListIsRecords); and the *)
(* index implements AbOrder (OrderImplemented).                            *)
(*                                                                         *)
(* The order is the invariant SortInv: neighbours are in order, the incrs  *)
(* of a list with duplicates are different, and what an insert has noted   *)
(* lies on the two sides of its node. Its steps need IInv before and       *)
(* after, which says that what is noted is in use and so keeps its key.    *)
(* The records of the history are those of the nodes on the lowest level   *)
(* (Listed), and num is off by the calls between their link or unlink and  *)
(* their count (CountInv).                                                 *)
(*                                                                         *)
(* What is left for AbOrder is that the answer of a call that changes      *)
(* nothing was right at some moment of the call. A search may stand on a   *)
(* node that has left the list, so what is known of it has to be kept from *)
(* when it left. Hind says so of every node of may[t] that is not on the   *)
(* lowest level: the call has seen its record going, when that has the key *)
(* of the call, and, if what is behind it is where the search would stop,  *)
(* has seen the list with just that answer. The next of such a node does   *)
(* not change any more, for its marker is there. With it, Answer says that *)
(* wherever a search stops on the lowest level there is a view that its    *)
(* call has seen and that says the same (Tells). Met is what a call keeps  *)
(* of such an answer until it uses it: a delete between its search and its *)
(* flag, an insert between its search and its first link. KnowInv puts     *)
(* these together; each step then is a step of AbOrder for the calls as    *)
(* Said maps them, or none (OrderStep).                                    *)
(***************************************************************************)
EXTENDS AbSkiplistProofs

-----------------------------------------------------------------------------
(* The order of the nodes. *)

\* The order of keys and incrs, and what two neighbours have to keep.
Less(a, b) ==
  \/ info[a].key < info[b].key
  \/ info[a].key = info[b].key /\ info[a].incr < info[b].incr
Before(a, b) ==
  \/ info[a].key < info[b].key
  \/ info[a].key = info[b].key /\ (info[a].incr < info[b].incr \/ ~dupl)

InOrder ==
  \A l \in Levels : \A n \in Line(l) : After(n, l) # Null => Before(n, After(n, l))

\* In a list with duplicates every node has an incr of its own.
Incred ==
  dupl => \A x \in Items : state[x] # "free" =>
            /\ info[x].incr < incr_key
            /\ \A y \in Items : state[y] # "free" /\ info[y].incr = info[x].incr => y = x

\* An insert at p with the locals r looks for the place of r.x: what it has
\* noted is in front of r.x and not in front of it.
Sorting(p, r) == r.op = "insert" /\ p \in {"find", "check", "set", "link"}
SortedAt(p, r) ==
  Sorting(p, r) =>
    /\ \A k \in Levels : r.prev[k] # Null => Less(r.prev[k], r.x)
    /\ \A k \in Levels : r.fwd[k] # Null => ~Less(r.fwd[k], r.x)
    /\ p = "find" => Less(r.at, r.x)

SortInv == InOrder /\ Incred /\ \A t \in Threads : SortedAt(pc[t], loc[t])

\* n is a node that the pool has handed out.
Used(n) == n \in Nodes /\ (n = head \/ state[n] # "free")

(* Keys and incrs are numbers.                                             *)
LEMMA InfoNums ==
  TypeOK => \A n \in Nodes : info[n].key \in Nat /\ info[n].incr \in Nat
<1> SUFFICES ASSUME TypeOK, NEW n \in Nodes PROVE info[n].key \in Nat /\ info[n].incr \in Nat
  OBVIOUS
<1>1. info[n] \in [key : Keys \cup {0}, incr : Nat, lvl : 0 .. MaxHeight,
                   marker : BOOLEAN, deleting : BOOLEAN, inserting : BOOLEAN]
  BY DEF TypeOK
<1>2. info[n].key \in Keys \cup {0} /\ info[n].incr \in Nat
  BY <1>1, Zenon
<1>3. \A k \in Keys \cup {0} : k \in Nat
  BY KeyAssumption
<1> QED
  BY <1>2, <1>3, Zenon

\* What an insert holds that looks for its place.
SortHeld ==
  \A t \in Threads : Sorting(pc[t], loc[t]) =>
    /\ loc[t].x \in Items /\ Used(loc[t].x)
    /\ \A k \in Levels : loc[t].prev[k] # Null => Used(loc[t].prev[k])
    /\ \A k \in Levels : loc[t].fwd[k] # Null =>
         Used(loc[t].fwd[k]) /\ ~info[loc[t].fwd[k]].marker
    /\ pc[t] = "find" => Used(loc[t].at)

(* An insert that searches or links holds nodes of the pool, as Inv says   *)
(* of each of its steps.                                                   *)
LEMMA SortsHeld == IInv => SortHeld
<1> SUFFICES ASSUME NEW may, Inv(may), NEW t \in Threads, Sorting(pc[t], loc[t])
             PROVE  /\ loc[t].x \in Items /\ Used(loc[t].x)
                    /\ \A k \in Levels : loc[t].prev[k] # Null => Used(loc[t].prev[k])
                    /\ \A k \in Levels : loc[t].fwd[k] # Null =>
                         Used(loc[t].fwd[k]) /\ ~info[loc[t].fwd[k]].marker
                    /\ pc[t] = "find" => Used(loc[t].at)
  BY DEF IInv, SortHeld
<1> PICK p, r : p = pc[t] /\ r = loc[t]
  OBVIOUS
<1>1. ThreadOK(may, t, p, r) /\ Sorting(p, r) /\ r \in Locals
  BY LocalsTyped DEF Inv, ThreadInv
<1>2. t \in inside /\ r.op = "insert" /\ p \in {"find", "check", "set", "link"}
  BY <1>1 DEF Sorting, ThreadOK, Local
<1>3. r.x # Null
  BY <1>1, <1>2 DEF ThreadOK, About
<1>4. r.x \in Items /\ Used(r.x)
  <2>1. Puts(p, r)
    BY <1>2, <1>3 DEF Puts, PutPCs, SearchPCs
  <2>2. state[r.x] = "linked"
    BY <1>1, <2>1 DEF ThreadOK, PutOK
  <2>3. r.x \in Items
    BY <1>1, <1>3 DEF Locals
  <2> QED
    BY <2>2, <2>3 DEF Used, Nodes
<1>5. ASSUME NEW n \in Nodes, NEW k \in Levels, <<n, k>> \in may[t]
      PROVE  Used(n) /\ ~info[n].marker
  <2>1. Safe(t, n) /\ ~info[n].marker
    BY <1>5, MayFacts
  <2> QED
    BY <2>1 DEF Used, Safe
<1>6. /\ \A k \in Levels : r.prev[k] # Null => <<r.prev[k], k>> \in may[t]
      /\ \A k \in Levels : r.fwd[k] # Null => <<r.fwd[k], k>> \in may[t]
      /\ p = "find" => <<r.at, r.lvl>> \in may[t]
  BY <1>1, <1>2 DEF ThreadOK, Held
<1>7. \A n, k : <<n, k>> \in may[t] => n \in Nodes /\ k \in Levels
  BY DEF Inv, Ghost
<1> QED
  BY <1>4, <1>5, <1>6, <1>7

(* SortsHeld after a step.                                                 *)
LEMMA SortsHeldNext == IInv' => SortHeld'
<1>1. IInv => SortHeld
  BY SortsHeld
<1> QED
  BY <1>1, PTL

(* The nodes of a level, and those behind them, are in use.                *)
LEMMA LinesUsed ==
  IInv => TypeOK /\ \A l \in Levels : \A n \in Line(l) :
            Used(n) /\ (After(n, l) # Null => After(n, l) \in On(next, l) /\ Used(After(n, l)))
<1> SUFFICES ASSUME NEW may, Inv(may)
             PROVE  TypeOK /\ \A l \in Levels : \A n \in Line(l) :
               Used(n) /\ (After(n, l) # Null => After(n, l) \in On(next, l) /\ Used(After(n, l)))
  BY DEF IInv
<1>1. TypeOK /\ Nodal
  BY DEF Inv, ListInv
<1>2. \A l \in Levels : \A n \in Line(l) : Used(n)
  BY <1>1 DEF Nodal, Line, Used, Nodes
<1>3. \A l \in Levels : \A n \in Line(l) : After(n, l) \in On(next, l) \cup {Null}
  BY <1>1, LineFacts
<1>4. \A l \in Levels : On(next, l) \subseteq Line(l)
  BY DEF Line
<1> QED
  BY <1>1, <1>2, <1>3, <1>4

(* LinesUsed after a step.                                                 *)
LEMMA LinesUsedNext ==
  IInv' => (TypeOK /\ \A l \in Levels : \A n \in Line(l) :
            Used(n) /\ (After(n, l) # Null => After(n, l) \in On(next, l) /\ Used(After(n, l))))'
<1>1. IInv => TypeOK /\ \A l \in Levels : \A n \in Line(l) :
        Used(n) /\ (After(n, l) # Null => After(n, l) \in On(next, l) /\ Used(After(n, l)))
  BY LinesUsed
<1> QED
  BY <1>1, PTL

\* Nodes that stay in use keep their key and incr.
SameSort(n) == info'[n].key = info[n].key /\ info'[n].incr = info[n].incr
Steady == dupl' = dupl /\ \A n \in Nodes : Used(n) /\ Used(n)' => SameSort(n)

\* So they do, and no node is handed out.
Settled ==
  /\ dupl' = dupl /\ incr_key' = incr_key
  /\ \A n \in Nodes : Used(n)' => Used(n) /\ SameSort(n)

(* A step that hands out no node keeps the incrs apart.                    *)
LEMMA SettledSteady ==
  ASSUME Settled, Incred
  PROVE  Steady /\ Incred'
<1>1. Steady
  BY DEF Settled, Steady
<1>2. Incred'
  BY NodeAssumption DEF Settled, SameSort, Incred, Used, Nodes
<1> QED
  BY <1>1, <1>2

(* A step after which every node has the same one behind it keeps the      *)
(* order.                                                                  *)
LEMMA InOrderStays ==
  ASSUME IInv, IInv', InOrder, Flat, Steady
  PROVE  InOrder'
<1> SUFFICES ASSUME NEW l \in Levels, NEW n \in Line(l)', After(n, l)' # Null
             PROVE  Before(n, After(n, l))'
  BY DEF InOrder
<1> PICK f : f = After(n, l)
  OBVIOUS
<1>1. n \in Line(l) /\ After(n, l)' = f
  BY DEF Flat, Line
<1>2. Before(n, f)
  BY <1>1 DEF InOrder
<1>3. Used(n) /\ Used(f) /\ Used(n)' /\ Used(f)'
  BY <1>1, LinesUsed, LinesUsedNext
<1>4. SameSort(n) /\ SameSort(f) /\ dupl' = dupl
  BY <1>3 DEF Steady, Used
<1>5. Before(n, f)'
  BY <1>2, <1>4 DEF SameSort, Before
<1> QED
  BY <1>1, <1>5

(* A thread that stays where it is keeps what it knows of its place.       *)
LEMMA SortedStays ==
  ASSUME IInv, IInv', Steady, NEW t \in Threads, SortedAt(pc[t], loc[t]),
         pc'[t] = pc[t], loc'[t] = loc[t]
  PROVE  SortedAt(pc[t], loc[t])'
<1> PICK p, r : p = pc[t] /\ r = loc[t]
  OBVIOUS
<1> SUFFICES ASSUME Sorting(p, r)
             PROVE  /\ \A k \in Levels : r.prev[k] # Null => Less(r.prev[k], r.x)'
                    /\ \A k \in Levels : r.fwd[k] # Null => ~Less(r.fwd[k], r.x)'
                    /\ p = "find" => Less(r.at, r.x)'
  BY DEF SortedAt, Sorting
<1>1. /\ Used(r.x)
      /\ \A k \in Levels : r.prev[k] # Null => Used(r.prev[k])
      /\ \A k \in Levels : r.fwd[k] # Null => Used(r.fwd[k])
      /\ p = "find" => Used(r.at)
  BY SortsHeld DEF SortHeld
<1>2. /\ Used(r.x)'
      /\ \A k \in Levels : r.prev[k] # Null => Used(r.prev[k])'
      /\ \A k \in Levels : r.fwd[k] # Null => Used(r.fwd[k])'
      /\ p = "find" => Used(r.at)'
  <2>1. SortHeld'
    BY SortsHeldNext
  <2>2. Sorting(pc[t], loc[t])'
    BY DEF Sorting
  <2>3. pc'[t] = p /\ loc'[t] = r
    OBVIOUS
  <2> QED
    BY <2>1, <2>2, <2>3 DEF SortHeld
<1>3. \A a, b : Used(a) /\ Used(a)' /\ Used(b) /\ Used(b)' => (Less(a, b)' <=> Less(a, b))
  BY DEF Steady, Used, SameSort, Less
<1>4. /\ \A k \in Levels : r.prev[k] # Null => Less(r.prev[k], r.x)
      /\ \A k \in Levels : r.fwd[k] # Null => ~Less(r.fwd[k], r.x)
      /\ p = "find" => Less(r.at, r.x)
  BY DEF SortedAt
<1> QED
  BY <1>1, <1>2, <1>3, <1>4

\* Nobody but t moves.
Alone(t) == \A u \in Threads : u # t => pc'[u] = pc[u] /\ loc'[u] = loc[u]

(* It is enough to look at the list, the incrs and the thread of the step. *)
LEMMA SortStep ==
  ASSUME IInv, IInv', SortInv, NEW t \in Threads, Steady, InOrder', Incred', Alone(t),
         SortedAt(pc[t], loc[t])'
  PROVE  SortInv'
<1>1. \A u \in Threads : SortedAt(pc[u], loc[u])'
  BY SortedStays DEF Alone, SortInv
<1> QED
  BY <1>1 DEF SortInv
-----------------------------------------------------------------------------
(* Steps that sort nothing. *)

\* No node is written, and none is handed out.
Kept ==
  /\ UNCHANGED <<next, info, dupl, incr_key>>
  /\ \A x \in Items : state'[x] # "free" => state[x] # "free"

(* A step that writes to no node and hands out none changes neither the    *)
(* levels nor the keys.                                                    *)
LEMMA KeptSettled ==
  ASSUME TypeOK, TypeOK', Kept
  PROVE  Flat /\ Settled
<1>1. Flat
  BY ListStays DEF Kept, Flat
<1>2. Settled
  BY NodeAssumption DEF Kept, Settled, Used, Nodes, SameSort
<1> QED
  BY <1>1, <1>2

(* A search that ends so is such a step.                                   *)
LEMMA EndsFacts ==
  ASSUME TypeOK, NEW t \in Threads, NEW n, NEW q, NEW s, Ends(t, n, q, s)
  PROVE  Kept /\ Alone(t) /\ pc'[t] = q /\ loc'[t] = s
<1>1. /\ pc' = [pc EXCEPT ![t] = q] /\ loc' = [loc EXCEPT ![t] = s]
      /\ UNCHANGED <<next, info, dupl, incr_key, state>>
      /\ pc \in [Threads -> PCs] /\ loc \in [Threads -> Locals]
  BY LocalsTyped DEF Ends, poolVars, listVars, fields
<1>2. Kept
  BY <1>1 DEF Kept
<1>3. Alone(t)
  BY <1>1 DEF Alone
<1> QED
  BY <1>1, <1>2, <1>3

\* The thread does not look for a place any more, or not yet.
Aside(t) == Kept /\ Alone(t) /\ ~Sorting(pc'[t], loc'[t])

(* The steps that end a search of a get or a delete, or start it again.    *)
LEMMA AsideEnds ==
  ASSUME TypeOK, NEW t \in Threads,
         FindAgain(t) \/ FindNone(t) \/ FindEqual(t) \/ InsertDup(t) \/ GetFound(t)
  PROVE  Aside(t)
<1>1. PICK n, q, s : Ends(t, n, q, s) /\ q \in {"find_start", "leave", "forward", "dup_free"}
  BY DEF FindAgain, FindNone, FindEqual, InsertDup, GetFound
<1>2. Kept /\ Alone(t) /\ pc'[t] = q /\ loc'[t] = s
  BY <1>1, EndsFacts
<1> QED
  BY <1>1, <1>2 DEF Aside, Sorting

(* A step that goes to where nobody looks for a place.                     *)
LEMMA AsideGoto ==
  ASSUME TypeOK, NEW t \in Threads, NEW p, NEW q, Goto(t, p, q),
         q \notin {"find", "check", "set", "link"}, Kept,
         \A u \in Threads : u # t => loc'[u] = loc[u]
  PROVE  Aside(t)
<1>1. pc' = [pc EXCEPT ![t] = q] /\ pc \in [Threads -> PCs]
  BY LocalsTyped DEF Goto
<1>2. pc'[t] = q /\ Alone(t)
  BY <1>1 DEF Alone
<1> QED
  BY <1>2 DEF Aside, Sorting

(* The first step of a call.                                               *)
LEMMA AsideCall ==
  ASSUME TypeOK, NEW t \in Threads, Call(t)
  PROVE  Aside(t)
<1>1. PICK q, r : Start(t, r, q) /\ q \in {"new", "enter"}
  BY DEF Call, Insert, Delete, Get
<1>3. Kept
  BY DEF Call, Insert, Delete, Get, poolVars, listVars, fields, Kept
<1>4. Goto(t, "idle", q) /\ loc' = [loc EXCEPT ![t] = r] /\ loc \in [Threads -> Locals]
  BY <1>1, LocalsTyped DEF Start
<1> QED
  BY <1>1, <1>3, <1>4, AsideGoto

(* The steps that go in and out and give nodes back.                       *)
LEMMA AsidePool ==
  ASSUME TypeOK, NEW t \in Threads,
         \/ InsertEnter(t) \/ DeleteEnter(t) \/ GetEnter(t) \/ Return(t) \/ DeleteAgain(t)
         \/ InsertDupFree(t) \/ DeleteFree(t) \/ DeleteFreeMarker(t)
  PROVE  Aside(t)
<1>0. loc \in [Threads -> Locals] /\ state \in [Items -> {"free", "linked", "retired"}]
  BY LocalsTyped DEF TypeOK
<1>1. CASE InsertEnter(t) \/ DeleteEnter(t) \/ GetEnter(t)
  <2>1. EnterEpoch(t, "enter")
    BY <1>1 DEF InsertEnter, DeleteEnter, GetEnter
  <2>2. Kept /\ Goto(t, "enter", "find_start") /\ loc' = loc
    BY <2>1 DEF EnterEpoch, Pool!Enter, listVars, fields, Kept
  <2> QED
    BY <2>2, AsideGoto
<1>2. CASE Return(t)
  <2>1. Kept /\ Goto(t, "leave", "idle") /\ loc' = [loc EXCEPT ![t] = NoLocals]
    BY <1>2 DEF Return, Leave, Pool!Leave, listVars, fields, Kept
  <2> QED
    BY <1>0, <2>1, AsideGoto
<1>3. CASE DeleteAgain(t)
  <2>1. Kept /\ Goto(t, "again", "enter") /\ loc' = loc
    BY <1>3 DEF DeleteAgain, Pool!Leave, listVars, fields, Kept
  <2> QED
    BY <2>1, AsideGoto
<1>4. ASSUME NEW x, Pool!Retire(x), UNCHANGED listVars PROVE Kept
  BY <1>0, <1>4 DEF Pool!Retire, listVars, fields, Kept
<1>5. CASE InsertDupFree(t)
  <2>1. Kept /\ Goto(t, "dup_free", "leave")
    BY <1>4, <1>5 DEF InsertDupFree
  <2>2. \A u \in Threads : u # t => loc'[u] = loc[u]
    BY <1>0, <1>5 DEF InsertDupFree
  <2> QED
    BY <2>1, <2>2, AsideGoto
<1>6. CASE DeleteFree(t)
  <2>1. Kept /\ Goto(t, "free_x", "free_m")
    BY <1>4, <1>6 DEF DeleteFree
  <2>2. \A u \in Threads : u # t => loc'[u] = loc[u]
    BY <1>0, <1>6 DEF DeleteFree
  <2> QED
    BY <2>1, <2>2, AsideGoto
<1>7. CASE DeleteFreeMarker(t)
  <2>1. Kept /\ Goto(t, "free_m", "num_sub") /\ loc' = loc
    BY <1>4, <1>7 DEF DeleteFreeMarker
  <2> QED
    BY <2>1, AsideGoto
<1> QED
  BY <1>1, <1>2, <1>3, <1>5, <1>6, <1>7

(* The other steps of the calls that look for no place.                    *)
LEMMA AsideWork ==
  ASSUME TypeOK, NEW t \in Threads,
         \/ Forward(t) \/ InsertRetry(t) \/ InsertNum(t) \/ DeleteBusy(t) \/ DeletePrev(t)
         \/ DeleteRetry(t) \/ DeleteNum(t)
  PROVE  Aside(t)
<1>0. loc \in [Threads -> Locals]
  BY LocalsTyped
<1>1. CASE Forward(t)
  <2> DEFINE last == loc[t].lvl = info[loc[t].at].lvl
  <2>1. Goto(t, "forward", IF ~last THEN "forward" ELSE IF loc[t].x = Null THEN "flag" ELSE "prev")
    BY <1>1 DEF Forward
  <2>2. Kept
    BY <1>1 DEF Forward, Kept, poolVars, listVars, fields
  <2>3. \A u \in Threads : u # t => loc'[u] = loc[u]
    BY <1>0, <1>1 DEF Forward
  <2> QED
    BY <2>1, <2>2, <2>3, AsideGoto
<1>2. CASE InsertRetry(t) \/ InsertNum(t) \/ DeletePrev(t) \/ DeleteRetry(t) \/ DeleteNum(t)
  <2>1. /\ \/ Goto(t, "link", "find_start") \/ Goto(t, "num_add", "leave")
           \/ Goto(t, "prev", "find_start") \/ Goto(t, "prev", "mark")
           \/ Goto(t, "unlink", "find_start") \/ Goto(t, "num_sub", "leave")
        /\ Kept /\ loc' = loc
    BY <1>2 DEF InsertRetry, InsertNum, DeletePrev, DeleteRetry, DeleteNum, Goto, Kept, poolVars,
       listVars, fields
  <2> QED
    BY <2>1, AsideGoto
<1>3. CASE DeleteBusy(t)
  <2>1. /\ Goto(t, "flag", "again") \/ Goto(t, "flag", "leave")
        /\ Kept
    BY <1>3 DEF DeleteBusy, Goto, Kept, poolVars, listVars, fields
  <2>2. \A u \in Threads : u # t => loc'[u] = loc[u]
    BY <1>0, <1>3 DEF DeleteBusy
  <2> QED
    BY <2>1, <2>2, AsideGoto
<1> QED
  BY <1>1, <1>2, <1>3

(* They keep the order.                                                    *)
LEMMA AsideSort ==
  ASSUME IInv, IInv', SortInv, NEW t \in Threads, Aside(t)
  PROVE  SortInv'
<1>1. TypeOK /\ TypeOK'
  BY LinesUsed, LinesUsedNext
<1>2. Flat /\ Steady /\ Incred'
  BY <1>1, KeptSettled, SettledSteady DEF Aside, SortInv
<1>3. InOrder'
  BY <1>2, InOrderStays DEF SortInv
<1>4. SortedAt(pc[t], loc[t])'
  BY DEF Aside, SortedAt, Sorting
<1> QED
  BY <1>2, <1>3, <1>4, SortStep DEF Aside
-----------------------------------------------------------------------------
(* Steps of a search. *)

(* A step that leaves the levels keeps the order if its thread still knows *)
(* its place.                                                              *)
LEMMA FlatSort ==
  ASSUME IInv, IInv', SortInv, NEW t \in Threads, Flat, Settled, Alone(t),
         SortedAt(pc[t], loc[t])'
  PROVE  SortInv'
<1>1. Steady /\ Incred'
  BY SettledSteady DEF SortInv
<1>2. InOrder'
  BY <1>1, InOrderStays DEF SortInv
<1> QED
  BY <1>1, <1>2, SortStep

(* And so does one that writes to no node.                                 *)
LEMMA SortKept ==
  ASSUME IInv, IInv', SortInv, NEW t \in Threads, Kept, Alone(t),
         NEW q, NEW s, pc'[t] = q, loc'[t] = s, SortedAt(q, s)
  PROVE  SortInv'
<1>1. Flat /\ Settled
  BY KeptSettled, LinesUsed, LinesUsedNext
<1>2. SortedAt(q, s)'
  BY DEF Kept, SortedAt, Less
<1>3. SortedAt(pc[t], loc[t])'
  BY <1>2 DEF SortedAt, Sorting
<1> QED
  BY <1>1, <1>3, FlatSort

(* What _after tells an insert is that a node is in front of its own.      *)
LEMMA AfterIsLess ==
  ASSUME NEW t \in Threads, NEW n, loc[t].x # Null
  PROVE  IsAfter(t, n) <=> n # Null /\ Less(n, loc[t].x)
BY DEF IsAfter, Target, Less

(* What a search notes when it goes down is in front of the place and not  *)
(* in front of it.                                                         *)
LEMMA SortedNoted ==
  ASSUME NEW t \in Threads, NEW l \in Levels, NEW a \in Nodes, NEW n \in Items \cup {Null},
         loc[t] \in Locals, loc[t].op = "insert", loc[t].x # Null, pc[t] = "find",
         SortedAt(pc[t], loc[t]), a = loc[t].at, ~IsAfter(t, n),
         NEW q \in {"find", "check"}, NEW s, s.op = loc[t].op, s.x = loc[t].x,
         s.prev = NotedIn(loc[t], l, a, n).prev, s.fwd = NotedIn(loc[t], l, a, n).fwd,
         q = "find" => s.at = a
  PROVE  SortedAt(q, s)
<1> PICK r : r = loc[t]
  OBVIOUS
<1>1. \A k \in Levels : /\ s.prev[k] = IF k = l THEN a ELSE r.prev[k]
                        /\ s.fwd[k] = IF k = l THEN n ELSE r.fwd[k]
  BY NotedFields
<1>2. /\ \A k \in Levels : r.prev[k] # Null => Less(r.prev[k], r.x)
      /\ \A k \in Levels : r.fwd[k] # Null => ~Less(r.fwd[k], r.x)
      /\ Less(a, r.x)
  BY DEF SortedAt, Sorting
<1>3. n # Null => ~Less(n, r.x)
  BY AfterIsLess
<1>4. s.x = r.x
  OBVIOUS
<1> QED
  BY <1>1, <1>2, <1>3, <1>4 DEF SortedAt

(* Where a search is.                                                      *)
LEMMA SearchFacts ==
  ASSUME IInv, NEW t \in Threads, pc[t] = "find", NEW n, n = Behind(next, loc[t].at, loc[t].lvl)
  PROVE  /\ pc \in [Threads -> PCs] /\ loc \in [Threads -> Locals] /\ loc[t] \in Locals
         /\ loc[t].lvl \in Levels /\ loc[t].at \in Nodes /\ n \in Items \cup {Null}
         /\ loc[t].op = "insert" => loc[t].x # Null
<1>1. PICK may : Inv(may)
  BY DEF IInv
<1>2. TypeOK /\ pc \in [Threads -> PCs] /\ loc \in [Threads -> Locals] /\ loc[t] \in Locals
  BY <1>1, LocalsTyped DEF Inv
<1>3. loc[t].lvl \in Levels /\ loc[t].at \in Nodes /\ n \in Items \cup {Null}
  BY <1>1, FindFacts
<1>4. loc[t].op = "insert" => loc[t].x # Null
  BY <1>1 DEF Inv, ThreadInv, ThreadOK, About
<1> QED
  BY <1>2, <1>3, <1>4

(* The head is in front of every place.                                    *)
LEMMA FindStartSort ==
  ASSUME IInv, IInv', SortInv, NEW t \in Threads, FindStart(t)
  PROVE  SortInv'
<1>1. PICK may : Inv(may)
  BY DEF IInv
<1> PICK r : r = loc[t]
  OBVIOUS
<1> DEFINE s == [r EXCEPT !.at = head, !.lvl = height, !.prev = Nowhere, !.fwd = Nowhere]
<1>2. /\ ThreadOK(may, t, "find_start", r) /\ pc[t] = "find_start" /\ HeadIs
      /\ pc \in [Threads -> PCs] /\ loc \in [Threads -> Locals] /\ r \in Locals
  BY <1>1, LocalsTyped DEF Inv, ThreadInv, ListInv, FindStart, Goto
<1>3. /\ pc' = [pc EXCEPT ![t] = "find"] /\ loc' = [loc EXCEPT ![t] = s] /\ Kept
  BY <1>2 DEF FindStart, Goto, Kept, poolVars, listVars, fields, Locals
<1>4. s.op = r.op /\ s.x = r.x /\ s.at = head /\ s.prev = Nowhere /\ s.fwd = Nowhere
  BY <1>2 DEF Locals
<1> HIDE DEF s
<1>5. pc'[t] = "find" /\ loc'[t] = s /\ Alone(t)
  BY <1>2, <1>3 DEF Alone
<1>6. s.op = "insert" => Less(head, s.x)
  <2> SUFFICES ASSUME r.op = "insert" PROVE Less(head, r.x)
    BY <1>4
  <2>1. r.x # Null /\ r.key \in Keys
    BY <1>2 DEF ThreadOK, About, Local
  <2>2. Puts("find_start", r)
    BY <2>1 DEF Puts, PutPCs, SearchPCs
  <2>3. info[r.x].key \in Keys
    BY <1>2, <2>1, <2>2 DEF ThreadOK, PutOK
  <2>4. info[head].key = 0
    BY <1>2 DEF HeadIs, NoInfo
  <2>5. \A k \in Keys : 0 < k
    BY KeyAssumption
  <2> QED
    BY <2>3, <2>4, <2>5 DEF Less
<1>7. SortedAt("find", s)
  BY <1>4, <1>6 DEF SortedAt, Sorting, Nowhere
<1> QED
  BY <1>3, <1>5, <1>7, SortKept

(* A search moves to a node that is in front of its place.                 *)
LEMMA FindMoveSort ==
  ASSUME IInv, IInv', SortInv, NEW t \in Threads, FindMove(t)
  PROVE  SortInv'
<1> PICK r, n : r = loc[t] /\ n = Behind(next, loc[t].at, loc[t].lvl)
  OBVIOUS
<1> DEFINE s == [r EXCEPT !.at = n]
<1>1. pc[t] = "find" /\ IsAfter(t, n) /\ Kept /\ pc' = pc
  BY DEF FindMove, Kept, poolVars, listVars, fields
<1>2. /\ pc \in [Threads -> PCs] /\ loc \in [Threads -> Locals] /\ r \in Locals
      /\ r.op = "insert" => r.x # Null
  BY <1>1, SearchFacts
<1>3. loc' = [loc EXCEPT ![t] = s]
  BY <1>2 DEF FindMove, Locals
<1>4. s.op = r.op /\ s.x = r.x /\ s.at = n /\ s.prev = r.prev /\ s.fwd = r.fwd
  BY <1>2 DEF Locals
<1> HIDE DEF s
<1>5. pc'[t] = "find" /\ loc'[t] = s /\ Alone(t)
  BY <1>1, <1>2, <1>3 DEF Alone
<1>6. r.op = "insert" => Less(n, r.x)
  BY <1>1, <1>2, AfterIsLess
<1>7. SortedAt("find", r)
  BY <1>1 DEF SortInv
<1>8. SortedAt("find", s)
  BY <1>4, <1>6, <1>7 DEF SortedAt, Sorting
<1> QED
  BY <1>1, <1>5, <1>8, SortKept

(* It notes where it is and what is behind.                                *)
LEMMA FindDownSort ==
  ASSUME IInv, IInv', SortInv, NEW t \in Threads, FindDown(t)
  PROVE  SortInv'
<1> PICK a, l : a = loc[t].at /\ l = loc[t].lvl
  OBVIOUS
<1> PICK n \in Items \cup {Null} :
       /\ Stops(t, n) /\ l > 1
       /\ loc' = [loc EXCEPT ![t] = [Noted(t, n) EXCEPT !.lvl = @ - 1]]
       /\ UNCHANGED <<poolVars, listVars, pc, todo, hist>>
  BY DEF FindDown
<1>1. pc[t] = "find" /\ n = Behind(next, a, l) /\ ~IsAfter(t, n) /\ Kept /\ pc' = pc
  BY DEF Stops, Kept, poolVars, listVars, fields
<1>2. /\ pc \in [Threads -> PCs] /\ loc \in [Threads -> Locals] /\ loc[t] \in Locals
      /\ l \in Levels /\ a \in Nodes
      /\ loc[t].op = "insert" => loc[t].x # Null
  BY <1>1, SearchFacts
<1> PICK o : o = NotedIn(loc[t], l, a, n)
  OBVIOUS
<1> DEFINE s == [o EXCEPT !.lvl = @ - 1]
<1>3. Noted(t, n) = o
  BY DEF Noted, NotedIn
<1>4. o \in Locals /\ o.op = loc[t].op /\ o.x = loc[t].x /\ o.at = a
  BY <1>2, NotedFields
<1>5. s.op = o.op /\ s.x = o.x /\ s.at = o.at /\ s.prev = o.prev /\ s.fwd = o.fwd
  BY <1>4 DEF Locals
<1>6. loc' = [loc EXCEPT ![t] = s]
  BY <1>3
<1> HIDE DEF s
<1>7. pc'[t] = "find" /\ loc'[t] = s /\ Alone(t)
  BY <1>1, <1>2, <1>6 DEF Alone
<1>8. SortedAt("find", s)
  <2>1. CASE loc[t].op = "insert"
    <3>1. SortedAt(pc[t], loc[t])
      BY DEF SortInv
    <3>2. /\ s.op = loc[t].op /\ s.x = loc[t].x /\ s.at = a
          /\ s.prev = NotedIn(loc[t], l, a, n).prev /\ s.fwd = NotedIn(loc[t], l, a, n).fwd
      BY <1>4, <1>5
    <3> QED
      BY <1>1, <1>2, <2>1, <3>1, <3>2, SortedNoted
  <2>2. CASE loc[t].op # "insert"
    BY <1>4, <1>5, <2>2 DEF SortedAt, Sorting
  <2> QED
    BY <2>1, <2>2
<1> QED
  BY <1>1, <1>7, <1>8, SortKept

(* What the insert has noted goes with it to link.                         *)
LEMMA InsertFoundSort ==
  ASSUME IInv, IInv', SortInv, NEW t \in Threads, InsertFound(t)
  PROVE  SortInv'
<1> PICK a, l : a = loc[t].at /\ l = loc[t].lvl
  OBVIOUS
<1> PICK n \in Items \cup {Null} :
       Ends(t, n, "check", [Noted(t, n) EXCEPT !.at = Null, !.lvl = 0,
                                               !.i = IF @ = 0 THEN 1 ELSE @])
  BY DEF InsertFound
<1>1. pc[t] = "find" /\ n = Behind(next, a, l) /\ ~IsAfter(t, n) /\ loc[t].op = "insert"
  BY DEF Ends, Stops, InsertFound
<1>2. /\ pc \in [Threads -> PCs] /\ loc \in [Threads -> Locals] /\ loc[t] \in Locals
      /\ l \in Levels /\ a \in Nodes /\ loc[t].x # Null
  BY <1>1, SearchFacts
<1> PICK o : o = NotedIn(loc[t], l, a, n)
  OBVIOUS
<1> DEFINE s == [o EXCEPT !.at = Null, !.lvl = 0, !.i = IF @ = 0 THEN 1 ELSE @]
<1>3. Noted(t, n) = o
  BY DEF Noted, NotedIn
<1>4. o \in Locals /\ o.op = loc[t].op /\ o.x = loc[t].x
  BY <1>2, NotedFields
<1>5. s.op = o.op /\ s.x = o.x /\ s.prev = o.prev /\ s.fwd = o.fwd
  BY <1>4 DEF Locals
<1>6. Ends(t, n, "check", s)
  BY <1>3
<1> HIDE DEF s
<1>7. pc'[t] = "check" /\ loc'[t] = s /\ Alone(t) /\ Kept
  BY <1>6, EndsFacts, LinesUsed
<1>8. SortedAt("check", s)
  <2>1. SortedAt(pc[t], loc[t])
    BY DEF SortInv
  <2>2. /\ s.op = loc[t].op /\ s.x = loc[t].x
        /\ s.prev = NotedIn(loc[t], l, a, n).prev /\ s.fwd = NotedIn(loc[t], l, a, n).fwd
    BY <1>4, <1>5
  <2> QED
    BY <1>1, <1>2, <2>1, <2>2, SortedNoted
<1> QED
  BY <1>7, <1>8, SortKept

(* And it stays the same while it links.                                   *)
LEMMA InsertCheckSort ==
  ASSUME IInv, IInv', SortInv, NEW t \in Threads, InsertCheck(t)
  PROVE  SortInv'
<1> PICK q, r : q = (IF info[Prev(t)].deleting THEN "find_start" ELSE "set") /\ r = loc[t]
  OBVIOUS
<1>1. pc[t] = "check" /\ pc' = [pc EXCEPT ![t] = q] /\ loc' = loc /\ Kept
  BY DEF InsertCheck, Goto, Kept, poolVars, listVars, fields
<1>2. pc'[t] = q /\ loc'[t] = r /\ Alone(t) /\ q \in {"find_start", "set"}
  BY <1>1, LinesUsed DEF Alone, TypeOK
<1>3. SortedAt("check", r)
  BY <1>1 DEF SortInv
<1>4. SortedAt(q, r)
  BY <1>2, <1>3 DEF SortedAt, Sorting
<1> QED
  BY <1>1, <1>2, <1>4, SortKept
-----------------------------------------------------------------------------
(* Steps that write to nodes. *)

(* A new node has an incr that no other node has.                          *)
LEMMA NewSort ==
  ASSUME IInv, IInv', SortInv, NEW t \in Threads, Alone(t), SortedAt(pc[t], loc[t])',
         Flat, NEW x, NEW w, NewNode(x, w),
         w \in [key : Keys \cup {0}, incr : Nat, lvl : 0 .. MaxHeight,
                marker : BOOLEAN, deleting : BOOLEAN, inserting : BOOLEAN]
  PROVE  SortInv'
<1> DEFINE v == [w EXCEPT !.incr = IF dupl THEN incr_key ELSE 0]
<1>1. TypeOK /\ incr_key \in Nat
  BY LinesUsed DEF TypeOK
<1>2. /\ v.incr = (IF dupl THEN incr_key ELSE 0)
      /\ v \in [key : Keys \cup {0}, incr : Nat, lvl : 0 .. MaxHeight,
                marker : BOOLEAN, deleting : BOOLEAN, inserting : BOOLEAN]
  BY <1>1
<1>3. v = [w EXCEPT !.incr = IF dupl THEN incr_key ELSE 0]
  OBVIOUS
<1> HIDE DEF v
<1>4. Renews(x) /\ info'[x] = v /\ dupl' = dupl
  BY <1>1, <1>2, <1>3, NewNodeFacts
<1>5. state[x] = "free" /\ x \in Items /\ incr_key' = IF dupl THEN incr_key + 1 ELSE incr_key
  BY DEF NewNode, Pool!Publish
<1>6. /\ \A n \in Items : n # x => state'[n] = state[n]
      /\ \A n \in Nodes : n # x => info'[n] = info[n]
  BY <1>4 DEF Renews
<1>7. Steady
  BY <1>4, <1>5, <1>6, NodeAssumption DEF Steady, Used, SameSort
<1>8. Incred'
  <2> SUFFICES ASSUME dupl
               PROVE  \A y \in Items : state'[y] # "free" =>
                        /\ info'[y].incr < incr_key'
                        /\ \A z \in Items : state'[z] # "free" /\ info'[z].incr = info'[y].incr
                                              => z = y
    BY <1>4 DEF Incred
  <2>1. info'[x].incr = incr_key /\ incr_key' = incr_key + 1
    BY <1>2, <1>4, <1>5
  <2>2. ASSUME NEW y \in Items, state'[y] # "free", y # x
        PROVE  /\ info'[y].incr = info[y].incr /\ state[y] # "free"
               /\ info[y].incr < incr_key /\ info[y].incr \in Nat
    BY <1>1, <1>6, <2>2, InfoNums DEF SortInv, Incred, Nodes
  <2>3. \A y, z \in Items :
          state[y] # "free" /\ state[z] # "free" /\ info[z].incr = info[y].incr => z = y
    BY DEF SortInv, Incred
  <2>4. ASSUME NEW y \in Items, state'[y] # "free" PROVE info'[y].incr < incr_key'
    BY <1>1, <2>1, <2>2, <2>4
  <2>5. ASSUME NEW y \in Items, state'[y] # "free", NEW z \in Items, state'[z] # "free",
               info'[z].incr = info'[y].incr
        PROVE  z = y
    BY <1>1, <2>1, <2>2, <2>3, <2>5
  <2> QED
    BY <2>4, <2>5
<1>9. InOrder'
  BY <1>7, InOrderStays DEF SortInv
<1> QED
  BY <1>7, <1>8, <1>9, SortStep

(* The node of an insert is such a node.                                   *)
LEMMA InsertNewSort ==
  ASSUME IInv, IInv', SortInv, NEW t \in Threads, InsertNew(t)
  PROVE  SortInv'
<1>1. PICK may : Inv(may)
  BY DEF IInv
<1> PICK x : x = FreeItem
  OBVIOUS
<1> DEFINE w == [NoInfo EXCEPT !.key = loc[t].key, !.lvl = loc[t].lvl, !.inserting = TRUE]
<1>2. /\ NewNode(x, w) /\ pc' = [pc EXCEPT ![t] = "enter"] /\ Flat /\ pc[t] = "new"
      /\ pc \in [Threads -> PCs] /\ loc \in [Threads -> Locals]
      /\ loc' = [loc EXCEPT ![t].x = x, ![t].lvl = 0]
  BY <1>1, LinesUsed, LocalsTyped, InsertNewInv DEF InsertNew, Goto
<1>3. w \in [key : Keys \cup {0}, incr : Nat, lvl : 0 .. MaxHeight,
             marker : BOOLEAN, deleting : BOOLEAN, inserting : BOOLEAN]
  <2>1. loc[t].key \in Keys \cup {0} /\ loc[t].lvl \in 0 .. MaxHeight
    BY <1>2 DEF Locals
  <2> QED
    BY <2>1 DEF NoInfo
<1> HIDE DEF w
<1>4. Alone(t) /\ pc'[t] = "enter"
  BY <1>2 DEF Alone
<1>5. SortedAt(pc[t], loc[t])'
  BY <1>4 DEF SortedAt, Sorting
<1> QED
  BY <1>2, <1>3, <1>4, <1>5, NewSort

(* And so is a marker.                                                     *)
LEMMA DeleteMarkerSort ==
  ASSUME IInv, IInv', SortInv, NEW t \in Threads, DeleteMarker(t)
  PROVE  SortInv'
<1>1. PICK may : Inv(may)
  BY DEF IInv
<1> PICK m : m = FreeItem
  OBVIOUS
<1> DEFINE w == [NoInfo EXCEPT !.lvl = info[loc[t].x].lvl, !.marker = TRUE]
<1>2. /\ NewNode(m, w) /\ pc' = [pc EXCEPT ![t] = "prev"] /\ Flat /\ pc[t] = "marker"
      /\ pc \in [Threads -> PCs] /\ loc \in [Threads -> Locals]
      /\ loc' = [loc EXCEPT ![t].m = m, ![t].i = info[loc[t].x].lvl]
  BY <1>1, LinesUsed, LocalsTyped, DeleteMarkerInv DEF DeleteMarker, Goto
<1>3. w \in [key : Keys \cup {0}, incr : Nat, lvl : 0 .. MaxHeight,
             marker : BOOLEAN, deleting : BOOLEAN, inserting : BOOLEAN]
  <2>1. TakeOK("marker", loc[t])
    BY <1>1, <1>2 DEF Inv, ThreadInv, ThreadOK
  <2>2. info[loc[t].x].lvl \in 0 .. MaxHeight
    BY <2>1, BoundAssumption DEF TakeOK, Takes, Levels
  <2> QED
    BY <2>2 DEF NoInfo
<1> HIDE DEF w
<1>4. Alone(t) /\ pc'[t] = "prev"
  BY <1>2 DEF Alone
<1>5. SortedAt(pc[t], loc[t])'
  BY <1>4 DEF SortedAt, Sorting
<1> QED
  BY <1>2, <1>3, <1>4, <1>5, NewSort

(* Setting a flag of a node changes no order.                              *)
LEMMA FlagSort ==
  ASSUME IInv, IInv', SortInv, NEW t \in Threads, Inserted(t) \/ DeleteFlag(t)
  PROVE  SortInv'
<1>1. PICK may : Inv(may)
  BY DEF IInv
<1>2. Flat
  BY <1>1, InsertedInv, DeleteFlagInv
<1>3. /\ TypeOK /\ pc \in [Threads -> PCs] /\ loc \in [Threads -> Locals]
      /\ info \in [Nodes -> [key : Keys \cup {0}, incr : Nat, lvl : 0 .. MaxHeight,
                             marker : BOOLEAN, deleting : BOOLEAN, inserting : BOOLEAN]]
  BY LinesUsed, LocalsTyped DEF TypeOK
<1>4. /\ dupl' = dupl /\ incr_key' = incr_key /\ state' = state
      /\ \A u \in Threads : u # t => loc'[u] = loc[u]
  BY <1>3 DEF Inserted, DeleteFlag, poolVars, fields
<1>5. \A n \in Nodes : SameSort(n)
  BY <1>3 DEF Inserted, DeleteFlag, SameSort
<1>6. Alone(t) /\ pc'[t] \in {"num_add", "marker"}
  BY <1>3, <1>4 DEF Inserted, DeleteFlag, Goto, Alone
<1>7. Settled
  BY <1>4, <1>5 DEF Settled, Used
<1>8. SortedAt(pc[t], loc[t])'
  BY <1>6 DEF SortedAt, Sorting
<1> QED
  BY <1>2, <1>6, <1>7, <1>8, FlatSort

(* Nor does a write to a node that is on no such level, or one that puts a *)
(* marker behind a node.                                                   *)
LEMMA WriteSort ==
  ASSUME IInv, IInv', SortInv, NEW t \in Threads, InsertSet(t) \/ DeleteMark(t)
  PROVE  SortInv'
<1>1. PICK may : Inv(may)
  BY DEF IInv
<1> PICK r : r = loc[t]
  OBVIOUS
<1>2. Flat
  BY <1>1, InsertSetInv, DeleteMarkInv
<1>3. TypeOK /\ pc \in [Threads -> PCs] /\ loc \in [Threads -> Locals]
  BY LinesUsed, LocalsTyped
<1>4. dupl' = dupl /\ incr_key' = incr_key /\ state' = state /\ loc' = loc /\ info' = info
  BY DEF InsertSet, DeleteMark, poolVars, fields
<1>5. Settled
  BY <1>4 DEF Settled, Used, SameSort
<1>6. SortedAt(pc[t], loc[t])'
  <2>1. CASE InsertSet(t)
    <3>1. pc[t] = "set" /\ pc'[t] = "link" /\ loc'[t] = r
      BY <1>3, <1>4, <2>1 DEF InsertSet, Goto
    <3>2. SortedAt("set", r)
      BY <3>1 DEF SortInv
    <3>3. SortedAt("link", r)'
      BY <1>4, <3>2 DEF SortedAt, Sorting, Less
    <3> QED
      BY <3>1, <3>3 DEF SortedAt, Sorting
  <2>2. CASE DeleteMark(t)
    <3>1. PICK q \in {"unlink", "find_start"} : Goto(t, "mark", q)
      BY <2>2 DEF DeleteMark
    <3>2. pc'[t] = q
      BY <1>3, <3>1 DEF Goto
    <3> QED
      BY <3>2 DEF SortedAt, Sorting
  <2> QED
    BY <2>1, <2>2
<1>7. Alone(t)
  BY <1>3, <1>4 DEF Alone, InsertSet, DeleteMark, Goto
<1> QED
  BY <1>2, <1>5, <1>6, <1>7, FlatSort

(* A step of nobody.                                                       *)
LEMMA NobodySort ==
  ASSUME IInv, IInv', SortInv, Flat, Settled, pc' = pc, loc' = loc
  PROVE  SortInv'
<1>1. Steady /\ Incred'
  BY SettledSteady DEF SortInv
<1>2. InOrder'
  BY <1>1, InOrderStays DEF SortInv
<1>3. \A u \in Threads : SortedAt(pc[u], loc[u])'
  BY <1>1, SortedStays DEF SortInv
<1> QED
  BY <1>1, <1>2, <1>3 DEF SortInv

(* A node that goes back to the pool was on no level.                      *)
LEMMA ReclaimSort ==
  ASSUME IInv, IInv', SortInv, NEW x \in Items, Reclaim(x)
  PROVE  SortInv'
<1>1. PICK may : Inv(may)
  BY DEF IInv
<1>2. Flat
  BY <1>1, ReclaimInv
<1>3. /\ state \in [Items -> {"free", "linked", "retired"}] /\ DOMAIN info = Nodes
  BY LinesUsed DEF TypeOK
<1>4. /\ dupl' = dupl /\ incr_key' = incr_key /\ pc' = pc /\ loc' = loc
      /\ state' = [state EXCEPT ![x] = "free"] /\ state[x] = "retired"
      /\ info' = [info EXCEPT ![x] = NoInfo]
  BY DEF Reclaim, Pool!Reclaim, fields
<1>5. Settled
  BY <1>3, <1>4, NodeAssumption DEF Settled, Used, SameSort, Nodes
<1> QED
  BY <1>2, <1>4, <1>5, NobodySort

(* A step of something else.                                               *)
LEMMA StutterSort ==
  ASSUME IInv, IInv', SortInv, UNCHANGED vars
  PROVE  SortInv'
<1>1. Kept /\ pc' = pc /\ loc' = loc
  BY DEF vars, poolVars, listVars, fields, Kept
<1>2. Flat /\ Settled
  BY <1>1, LinesUsed, LinesUsedNext, KeptSettled
<1> QED
  BY <1>1, <1>2, NobodySort
-----------------------------------------------------------------------------
(* Steps that link and unlink. *)

(* The order of two nodes stays when they are not written.                 *)
LEMMA BeforeNext ==
  ASSUME dupl' = dupl, info' = info, NEW a, NEW b, Before(a, b)
  PROVE  Before(a, b)'
BY DEF Before

(* A new node comes behind one that is less and in front of one that is    *)
(* not less, so its level stays in order.                                  *)
LEMMA InsertLinkOrder ==
  ASSUME IInv, SortInv, NEW t \in Threads, InsertLink(t),
         NEW i, NEW p, NEW x, i = loc[t].i, p = loc[t].prev[i], x = loc[t].x,
         GoesIn(i, p, x)
  PROVE  InOrder'
<1> PICK f : f = loc[t].fwd[i]
  OBVIOUS
<1>1. /\ pc[t] = "link" /\ next[p][i] = f /\ info' = info /\ dupl' = dupl
      /\ i \in Levels /\ p \in Line(i) /\ x \in Items /\ x \notin On(next, i)
  BY DEF InsertLink, Goto, Prev, Fwd, fields, GoesIn
<1>2. TypeOK /\ p \in Nodes /\ Used(p)
  BY <1>1, LinesUsed DEF Used
<1>3. loc[t].op = "insert"
  BY <1>1 DEF IInv, Inv, ThreadInv, ThreadOK, Local, InsertOnly
<1>4. /\ Used(x) /\ p # Null
      /\ f # Null => Used(f) /\ ~info[f].marker
  BY <1>1, <1>2, <1>3, SortsHeld, NodeAssumption DEF SortHeld, Sorting, Nodes
<1>5. After(p, i) = f
  BY <1>1, <1>4 DEF After, Behind
<1>6. f # Null => f \in On(next, i) /\ f # x
  BY <1>1, <1>5, LinesUsed
<1>7. SortedAt("link", loc[t])
  BY <1>1 DEF SortInv
<1>8. Less(p, x) /\ (f # Null => ~Less(f, x))
  BY <1>1, <1>3, <1>4, <1>7 DEF SortedAt, Sorting
<1>9. Before(p, x)
  BY <1>8 DEF Less, Before
<1>10. f # Null => Before(x, f)
  <2> SUFFICES ASSUME f # Null PROVE Before(x, f)
    OBVIOUS
  <2>1. /\ info[x].key \in Nat /\ info[x].incr \in Nat
        /\ info[f].key \in Nat /\ info[f].incr \in Nat
    BY <1>2, <1>4, InfoNums DEF Used
  <2>2. dupl => info[f].incr # info[x].incr
    <3>1. f \in Items /\ f # head /\ x # head
      BY <1>1, <1>2, <1>6, LineFacts, NodeAssumption
    <3>2. state[f] # "free" /\ state[x] # "free"
      BY <1>4, <3>1 DEF Used
    <3> QED
      BY <1>1, <1>6, <3>1, <3>2 DEF SortInv, Incred
  <2> QED
    BY <1>8, <2>1, <2>2 DEF Less, Before
<1> SUFFICES ASSUME NEW l \in Levels, NEW n \in Line(l)', After(n, l)' # Null
             PROVE  Before(n, After(n, l))'
  BY DEF InOrder
<1> PICK y : y = After(n, l)'
  OBVIOUS
<1> SUFFICES Before(n, y)
  <2>1. Before(n, y)'
    BY <1>1, BeforeNext
  <2>2. After(n, l)' = y
    OBVIOUS
  <2> QED
    BY <2>1, <2>2
<1>11. CASE n \in Line(l) /\ ~(n = p /\ l = i)
  <2>1. y = After(n, l)
    BY <1>11 DEF GoesIn, Beside
  <2> QED
    BY <1>11, <2>1 DEF SortInv, InOrder
<1>12. CASE n = p /\ l = i
  BY <1>9, <1>12 DEF GoesIn
<1>13. CASE n \notin Line(l)
  <2>1. l = i /\ n = x
    BY <1>13 DEF GoesIn, Beside, Line
  <2>2. y = f
    BY <1>5, <2>1 DEF GoesIn
  <2> QED
    BY <1>10, <2>1, <2>2
<1> QED
  BY <1>11, <1>12, <1>13

(* So linking keeps the order.                                             *)
LEMMA InsertLinkSort ==
  ASSUME IInv, IInv', SortInv, NEW t \in Threads, InsertLink(t)
  PROVE  SortInv'
<1>1. PICK may : Inv(may)
  BY DEF IInv
<1> PICK r, i, p, x : r = loc[t] /\ i = r.i /\ p = r.prev[i] /\ x = r.x
  OBVIOUS
<1> DEFINE s == [r EXCEPT !.i = i + 1]
<1>2. GoesIn(i, p, x)
  BY <1>1, InsertLinkInv
<1>3. InOrder'
  BY <1>2, InsertLinkOrder
<1>4. TypeOK /\ pc \in [Threads -> PCs] /\ loc \in [Threads -> Locals] /\ r \in Locals
  BY LinesUsed, LocalsTyped
<1>5. /\ dupl' = dupl /\ incr_key' = incr_key /\ state' = state /\ info' = info
      /\ loc' = [loc EXCEPT ![t] = s] /\ pc[t] = "link"
  BY <1>4 DEF InsertLink, Goto, poolVars, fields, Locals
<1>6. s.op = r.op /\ s.x = r.x /\ s.prev = r.prev /\ s.fwd = r.fwd
  BY <1>4 DEF Locals
<1> HIDE DEF s
<1>7. PICK q \in {"inserted", "check"} : Goto(t, "link", q)
  BY DEF InsertLink
<1>8. pc'[t] = q /\ loc'[t] = s /\ Alone(t)
  BY <1>4, <1>5, <1>7 DEF Goto, Alone
<1>9. Steady /\ Incred'
  BY <1>5 DEF Steady, SameSort, SortInv, Incred
<1>10. SortedAt(pc[t], loc[t])'
  <2>1. SortedAt("link", r)
    BY <1>5 DEF SortInv
  <2>2. SortedAt(q, s)'
    BY <1>5, <1>6, <2>1 DEF SortedAt, Sorting, Less
  <2> QED
    BY <1>8, <2>2 DEF SortedAt, Sorting
<1> QED
  BY <1>3, <1>8, <1>9, <1>10, SortStep

(* The order of the nodes is transitive.                                   *)
LEMMA BeforeTrans ==
  ASSUME TypeOK, NEW a \in Nodes, NEW b \in Nodes, NEW c \in Nodes, Before(a, b), Before(b, c)
  PROVE  Before(a, c)
<1>1. /\ info[a].key \in Nat /\ info[a].incr \in Nat /\ info[b].key \in Nat
      /\ info[b].incr \in Nat /\ info[c].key \in Nat /\ info[c].incr \in Nat
  BY InfoNums
<1> QED
  BY <1>1 DEF Before

(* So what is left is in order when a node has been taken out.             *)
LEMMA DeleteUnlinkSort ==
  ASSUME IInv, IInv', SortInv, NEW t \in Threads, DeleteUnlink(t)
  PROVE  SortInv'
<1>1. PICK may : Inv(may)
  BY DEF IInv
<1> PICK i, p, x : i = loc[t].i /\ p = loc[t].prev[i] /\ x = loc[t].x
  OBVIOUS
<1>2. GoesOff(i, p, x)
  BY <1>1, DeleteUnlinkInv
<1>3. TypeOK /\ pc \in [Threads -> PCs] /\ loc \in [Threads -> Locals]
  BY LinesUsed, LocalsTyped
<1>4. /\ dupl' = dupl /\ incr_key' = incr_key /\ state' = state /\ info' = info
      /\ \A u \in Threads : u # t => loc'[u] = loc[u]
  BY <1>3 DEF DeleteUnlink, poolVars, fields
<1>5. PICK q \in {"free_x", "prev"} : Goto(t, "unlink", q)
  BY DEF DeleteUnlink
<1>6. pc'[t] = q /\ Alone(t)
  BY <1>3, <1>4, <1>5 DEF Goto, Alone
<1>7. Steady /\ Incred'
  BY <1>4 DEF Steady, SameSort, SortInv, Incred
<1>8. SortedAt(pc[t], loc[t])'
  BY <1>6 DEF SortedAt, Sorting
<1>9. InOrder'
  <2> SUFFICES ASSUME NEW l \in Levels, NEW n \in Line(l)', After(n, l)' # Null
               PROVE  Before(n, After(n, l))'
    BY DEF InOrder
  <2> PICK y : y = After(n, l)'
    OBVIOUS
  <2> SUFFICES Before(n, y)
    <3>1. Before(n, y)'
      BY <1>4, BeforeNext
    <3>2. After(n, l)' = y
      OBVIOUS
    <3> QED
      BY <3>1, <3>2
  <2>1. n \in Line(l)
    BY <1>2 DEF GoesOff, Beside, Line
  <2>2. CASE ~(n = p /\ l = i)
    <3>1. y = After(n, l)
      BY <1>2, <2>1, <2>2 DEF GoesOff, Beside
    <3> QED
      BY <2>1, <3>1 DEF SortInv, InOrder
  <2>3. CASE n = p /\ l = i
    <3>1. y = After(x, i) /\ After(p, i) = x /\ i \in Levels /\ x \in Line(i) /\ p \in Line(i)
      BY <1>2, <2>3 DEF GoesOff, Line
    <3>2. p \in Nodes /\ x \in Nodes /\ y \in Nodes /\ x # Null
      BY <3>1, LinesUsed, NodeAssumption DEF Used, Nodes
    <3>3. Before(p, x) /\ Before(x, y)
      BY <3>1, <3>2 DEF SortInv, InOrder
    <3> QED
      BY <1>3, <2>3, <3>2, <3>3, BeforeTrans
  <2> QED
    BY <2>2, <2>3
<1> QED
  BY <1>6, <1>7, <1>8, <1>9, SortStep
-----------------------------------------------------------------------------
(* The order holds at the start and after every step. *)

(* The list that the calls find at the start is in order.                  *)
LEMMA SortAtStart ==
  ASSUME NEW s, NEW n, NEW h, NEW at, Begun(s, n, h, at)
  PROVE  SortInv
<1>1. /\ n \in Nat /\ dupl = s.dupl /\ dupl \in BOOLEAN
      /\ incr_key = (IF dupl THEN n + 2 ELSE 1)
      /\ pc = [t \in Threads |-> "idle"]
  BY StartAssumption DEF Begun, StartRest, Placed
<1>2. ASSUME NEW a \in 1 .. n
      PROVE  /\ at[a] \in Items /\ info[at[a]].key = s.loaded[a] /\ s.loaded[a] \in Nat \ {0}
             /\ info[at[a]].incr = IF dupl THEN a + 1 ELSE 0
  <2>1. info[at[a]] = Fresh(s.loaded[a], IF s.dupl THEN a + 1 ELSE 0, h[a])
    BY BegunFacts DEF NodeAtStart
  <2>2. at[a] \in Items /\ s.loaded[a] \in Keys
    BY NodesAtStart
  <2> PICK k, j : k = s.loaded[a] /\ j = IF s.dupl THEN a + 1 ELSE 0
    OBVIOUS
  <2>3. info[at[a]].key = k /\ info[at[a]].incr = j
    BY <2>1, FreshFields
  <2>4. k \in Nat \ {0}
    BY <2>2, KeyAssumption
  <2> QED
    BY <1>1, <2>2, <2>3, <2>4
<1>3. ASSUME NEW a \in 1 .. n, NEW b \in 1 .. n, a < b
      PROVE  s.loaded[a] <= s.loaded[b] /\ (dupl \/ s.loaded[a] # s.loaded[b])
  BY <1>1, <1>3, StartAssumption DEF Begun
<1>4. info[head].key = 0
  <2>1. info[head] = [NoInfo EXCEPT !.lvl = MaxHeight]
    BY BegunFacts DEF NodeAtStart
  <2> QED
    BY <2>1 DEF NoInfo
<1>5. InOrder
  <2> SUFFICES ASSUME NEW l \in Levels, NEW x \in Line(l), After(x, l) # Null
               PROVE  Before(x, After(x, l))
    BY DEF InOrder
  <2>1. x \in Nodes /\ After(x, l) = next[x][l]
    BY BegunTyped, LineFacts, BegunLine
  <2>2. CASE x = head
    <3>1. After(x, l) = First(1 .. n, h, at, 0, l)
      BY <2>1, <2>2, BegunFacts DEF NextAtStart
    <3>2. Placed(n, h, at) /\ 0 \in 0 .. n
      BY <1>1 DEF Begun
    <3>3. PICK b \in 1 .. n : After(x, l) = at[b]
      BY <3>1, <3>2, FirstFacts
    <3>4. info[at[b]].key \in Nat \ {0}
      BY <1>2
    <3> QED
      BY <1>4, <2>2, <3>3, <3>4 DEF Before
  <2>3. CASE x # head
    <3>1. PICK a \in 1 .. n : x = at[a] /\ h[a] >= l
      BY <2>3, NodesAtStart DEF Line
    <3>2. h[a] \in Levels
      BY NodesAtStart
    <3>3. l <= h[a] /\ a \in 0 .. n
      BY <1>1, <3>1, <3>2, BoundAssumption DEF Levels
    <3>4. After(x, l) = First(1 .. n, h, at, a, l)
      BY <2>1, <3>1, <3>3, BegunFacts DEF NextAtStart
    <3>5. Placed(n, h, at)
      BY DEF Begun
    <3>6. PICK b \in 1 .. n : After(x, l) = at[b] /\ b > a
      BY <3>3, <3>4, <3>5, FirstFacts
    <3>7. a < b
      BY <3>6
    <3>8. s.loaded[a] <= s.loaded[b] /\ (dupl \/ s.loaded[a] # s.loaded[b])
      BY <1>3, <3>7
    <3>9. s.loaded[a] \in Nat /\ s.loaded[b] \in Nat
      BY <1>2
    <3>10. /\ info[x].key = s.loaded[a] /\ info[at[b]].key = s.loaded[b]
           /\ info[x].incr = (IF dupl THEN a + 1 ELSE 0)
           /\ info[at[b]].incr = (IF dupl THEN b + 1 ELSE 0)
      BY <1>2, <3>1
    <3>11. s.loaded[a] < s.loaded[b] \/ (s.loaded[a] = s.loaded[b] /\ dupl)
      BY <3>8, <3>9
    <3>12. a + 1 < b + 1
      BY <3>7
    <3> QED
      BY <3>6, <3>10, <3>11, <3>12 DEF Before
  <2> QED
    BY <2>2, <2>3
<1>6. Incred
  <2> SUFFICES ASSUME dupl
               PROVE  \A x \in Items : state[x] # "free" =>
                        /\ info[x].incr < incr_key
                        /\ \A y \in Items : state[y] # "free" /\ info[y].incr = info[x].incr
                                              => y = x
    BY DEF Incred
  <2>1. ASSUME NEW x \in Items, state[x] # "free"
        PROVE  \E a \in 1 .. n : x = at[a] /\ info[x].incr = a + 1
    <3>1. \E a \in 1 .. n : x = at[a]
      BY <2>1, BegunFacts DEF NodeAtStart
    <3> QED
      BY <1>2, <3>1
  <2>2. ASSUME NEW x \in Items, state[x] # "free" PROVE info[x].incr < incr_key
    <3>1. PICK a \in 1 .. n : info[x].incr = a + 1
      BY <2>1, <2>2
    <3>2. n \in Nat /\ incr_key = n + 2
      BY <1>1, Zenon
    <3>3. a + 1 < n + 2
      BY <3>2
    <3> QED
      BY <3>1, <3>2, <3>3
  <2>3. ASSUME NEW x \in Items, state[x] # "free", NEW y \in Items, state[y] # "free",
               info[y].incr = info[x].incr
        PROVE  y = x
    <3>1. PICK a \in 1 .. n : x = at[a] /\ info[x].incr = a + 1
      BY <2>1, <2>3
    <3>2. PICK b \in 1 .. n : y = at[b] /\ info[y].incr = b + 1
      BY <2>1, <2>3
    <3>3. a = b
      BY <1>1, <2>3, <3>1, <3>2
    <3> QED
      BY <3>1, <3>2, <3>3
  <2> QED
    BY <2>2, <2>3
<1>7. \A t \in Threads : SortedAt(pc[t], loc[t])
  BY <1>1 DEF SortedAt, Sorting
<1> QED
  BY <1>5, <1>6, <1>7 DEF SortInv

(* Every step of a thread keeps the order.                                 *)
LEMMA WorkSort ==
  ASSUME IInv, IInv', SortInv, NEW t \in Threads, Work(t) \/ Call(t)
  PROVE  SortInv'
<1>0. TypeOK
  BY LinesUsed
<1>1. CASE \/ FindAgain(t) \/ FindNone(t) \/ FindEqual(t) \/ InsertDup(t) \/ GetFound(t)
           \/ Call(t)
  <2>1. Aside(t)
    BY <1>0, <1>1, AsideEnds, AsideCall
  <2> QED
    BY <2>1, AsideSort
<1>2. CASE \/ InsertEnter(t) \/ DeleteEnter(t) \/ GetEnter(t) \/ Return(t) \/ DeleteAgain(t)
           \/ InsertDupFree(t) \/ DeleteFree(t) \/ DeleteFreeMarker(t)
  <2>1. Aside(t)
    BY <1>0, <1>2, AsidePool
  <2> QED
    BY <2>1, AsideSort
<1>3. CASE \/ Forward(t) \/ InsertRetry(t) \/ InsertNum(t) \/ DeleteBusy(t) \/ DeletePrev(t)
           \/ DeleteRetry(t) \/ DeleteNum(t)
  <2>1. Aside(t)
    BY <1>0, <1>3, AsideWork
  <2> QED
    BY <2>1, AsideSort
<1>4. CASE FindStart(t) \/ FindMove(t) \/ FindDown(t) \/ InsertFound(t) \/ InsertCheck(t)
  BY <1>4, FindStartSort, FindMoveSort, FindDownSort, InsertFoundSort, InsertCheckSort
<1>5. CASE InsertNew(t) \/ DeleteMarker(t) \/ Inserted(t) \/ DeleteFlag(t)
  BY <1>5, InsertNewSort, DeleteMarkerSort, FlagSort
<1>6. CASE InsertSet(t) \/ DeleteMark(t) \/ InsertLink(t) \/ DeleteUnlink(t)
  BY <1>6, WriteSort, InsertLinkSort, DeleteUnlinkSort
<1> QED
  BY <1>1, <1>2, <1>3, <1>4, <1>5, <1>6 DEF Work

(* The order holds in every state.                                         *)
LEMMA SortAlways == Spec => [](IInv /\ SortInv)
<1>1. Init => IInv /\ SortInv
  BY InitInv, InitBegun, SortAtStart DEF IInv
<1>2. IInv /\ [Next]_vars => IInv'
  BY IInvNext
<1>3. IInv /\ SortInv /\ [Next]_vars => SortInv'
  <2> SUFFICES ASSUME IInv, SortInv, [Next]_vars PROVE SortInv'
    OBVIOUS
  <2>1. IInv'
    BY <1>2
  <2>2. CASE UNCHANGED vars
    BY <2>1, <2>2, StutterSort
  <2>3. ASSUME NEW t \in Threads, Work(t) \/ Call(t) PROVE SortInv'
    BY <2>1, <2>3, WorkSort
  <2>4. ASSUME NEW x \in Items, Reclaim(x) PROVE SortInv'
    BY <2>1, <2>4, ReclaimSort
  <2> QED
    BY <2>2, <2>3, <2>4 DEF Next
<1> QED
  BY <1>1, <1>2, <1>3, PTL DEF Spec

(* The nodes of every level are in order, by key and in a list with        *)
(* duplicates by incr, those of a level are also on the level below, and a *)
(* node that is neither being put in nor being taken out is on every level *)
(* up to its own: a search of ab_skiplist_get, insert or delete (_forward, *)
(* _before, _after) that goes down a level has passed over nothing.        *)
THEOREM LevelsAreWhole == Spec => []LevelsWhole
<1>1. ASSUME IInv, SortInv PROVE LevelsWhole
  <2>1. InOrder /\ Lower /\ Towers
    BY <1>1 DEF IInv, Inv, ListInv, SortInv
  <2>2. Ordered
    BY <2>1 DEF Ordered, InOrder, Lower, Before, After, Line
  <2> QED
    BY <2>1, <2>2 DEF LevelsWhole
<1>2. IInv /\ SortInv => LevelsWhole
  BY <1>1
<1> QED
  BY <1>2, SortAlways, PTL
-----------------------------------------------------------------------------
(* The records of the history are the nodes of the lowest level. *)

\* The record of a node.
Rec(x) ==
  [id |-> x, key |-> info[x].key, incr |-> info[x].incr,
   st |-> IF info[x].deleting THEN "going" ELSE IF info[x].inserting THEN "coming" ELSE "there"]

Listed == recs = {Rec(x) : x \in On(next, 1)}

(* The records that the history should hold are those of the lowest level. *)
LEMMA RecsAreRecs == RecsOf(next, info) = {Rec(x) : x \in On(next, 1)}
BY DEF RecsOf, Rec

(* The records stay when the lowest level and its nodes do.                *)
LEMMA ListedStays ==
  ASSUME Listed, On(next, 1)' = On(next, 1), \A x \in On(next, 1) : info'[x] = info[x],
         recs' = recs
  PROVE  Listed'
<1>1. \A x \in On(next, 1) : Rec(x)' = Rec(x)
  BY DEF Rec
<1>2. {Rec(x)' : x \in On(next, 1)} = {Rec(x) : x \in On(next, 1)}
  BY <1>1
<1> QED
  BY <1>2 DEF Listed

(* A step that writes flags and then looks at the list (See) has the new   *)
(* records.                                                                *)
LEMMA FlagListed ==
  ASSUME On(next, 1)' = On(next, 1), See(next, info')
  PROVE  Listed'
BY DEF See, RecsOf, Listed, Rec

(* So has one that writes a next word and then looks.                      *)
LEMMA WordListed ==
  ASSUME info' = info, See(next', info)
  PROVE  Listed'
<1>1. On(next', 1) = On(next, 1)'
  BY OnNext
<1> QED
  BY <1>1 DEF See, RecsOf, Listed, Rec

\* The nodes of the lowest level keep what is in them.
Still == \A x \in On(next, 1) : info'[x] = info[x]

(* Writing to an item that is not linked writes to no node of the lowest   *)
(* level.                                                                  *)
LEMMA LooseStill ==
  ASSUME IInv, NEW x \in Items, state[x] # "linked",
         \A n \in Nodes : n # x => info'[n] = info[n]
  PROVE  Still
BY LevelOne DEF IInv, Inv, ListInv, Nodal, Still, Nodes

(* When the levels stay, the lowest one does.                              *)
LEMMA FlatLow ==
  ASSUME Flat
  PROVE  On(next, 1)' = On(next, 1)
BY LevelOne DEF Flat

\* The steps of the calls that leave the levels and the history as they are.
Hidden(t) ==
  \/ FindStart(t) \/ FindMove(t) \/ FindDown(t) \/ FindAgain(t) \/ FindNone(t)
  \/ FindEqual(t) \/ Forward(t)
  \/ InsertEnter(t) \/ InsertDup(t) \/ InsertDupFree(t)
  \/ InsertFound(t) \/ InsertCheck(t)
  \/ InsertRetry(t) \/ InsertNum(t)
  \/ DeleteEnter(t) \/ DeleteBusy(t) \/ DeleteAgain(t)
  \/ DeletePrev(t) \/ DeleteRetry(t) \/ DeleteFree(t) \/ DeleteFreeMarker(t) \/ DeleteNum(t)
  \/ GetEnter(t) \/ GetFound(t)

(* These steps write to no node and leave the history alone.               *)
LEMMA HiddenKept ==
  ASSUME TypeOK, NEW t \in Threads, Hidden(t)
  PROVE  Kept /\ Alone(t) /\ UNCHANGED hist
<1>0. loc \in [Threads -> Locals] /\ pc \in [Threads -> PCs]
  BY LocalsTyped
<1>1. CASE \/ FindAgain(t) \/ FindNone(t) \/ FindEqual(t) \/ InsertDup(t) \/ GetFound(t)
  <2>1. Aside(t)
    BY <1>1, AsideEnds
  <2>2. UNCHANGED hist
    BY <1>1 DEF FindAgain, FindNone, FindEqual, InsertDup, GetFound, Ends, hist
  <2> QED
    BY <2>1, <2>2 DEF Aside
<1>2. CASE \/ InsertEnter(t) \/ DeleteEnter(t) \/ GetEnter(t) \/ DeleteAgain(t)
           \/ InsertDupFree(t) \/ DeleteFree(t) \/ DeleteFreeMarker(t)
  <2>1. Aside(t)
    BY <1>2, AsidePool
  <2>2. UNCHANGED hist
    BY <1>2 DEF InsertEnter, DeleteEnter, GetEnter, EnterEpoch, DeleteAgain, InsertDupFree,
       DeleteFree, DeleteFreeMarker, hist
  <2> QED
    BY <2>1, <2>2 DEF Aside
<1>3. CASE \/ Forward(t) \/ InsertRetry(t) \/ InsertNum(t) \/ DeleteBusy(t) \/ DeletePrev(t)
           \/ DeleteRetry(t) \/ DeleteNum(t)
  <2>1. Aside(t)
    BY <1>3, AsideWork
  <2>2. UNCHANGED hist
    BY <1>3 DEF Forward, InsertRetry, InsertNum, DeleteBusy, DeletePrev, DeleteRetry,
       DeleteNum, hist
  <2> QED
    BY <2>1, <2>2 DEF Aside
<1>4. CASE FindStart(t) \/ FindMove(t) \/ FindDown(t)
  <2>1. Kept /\ UNCHANGED hist
    BY <1>4 DEF FindStart, FindMove, FindDown, Kept, poolVars, listVars, fields, hist
  <2>2. \A u \in Threads : u # t => pc'[u] = pc[u] /\ loc'[u] = loc[u]
    BY <1>0, <1>4 DEF FindStart, FindMove, FindDown, Goto
  <2> QED
    BY <2>1, <2>2 DEF Alone
<1>5. CASE InsertFound(t) \/ InsertCheck(t)
  <2>1. Kept /\ UNCHANGED hist
    BY <1>5 DEF InsertFound, Ends, InsertCheck, Kept, poolVars, listVars, fields, hist
  <2>2. \A u \in Threads : u # t => pc'[u] = pc[u] /\ loc'[u] = loc[u]
    BY <1>0, <1>5 DEF InsertFound, Ends, InsertCheck, Goto
  <2> QED
    BY <2>1, <2>2 DEF Alone
<1> QED
  BY <1>1, <1>2, <1>3, <1>4, <1>5 DEF Hidden

(* A step that makes or frees a node, or sets a next of its own, changes   *)
(* nothing of the lowest level.                                            *)
LEMMA NodeSteps ==
  ASSUME IInv, NEW t \in Threads,
         InsertNew(t) \/ DeleteMarker(t) \/ InsertSet(t) \/ DeleteMark(t)
  PROVE  Flat /\ Still /\ UNCHANGED hist
<1>1. PICK may : Inv(may)
  BY DEF IInv
<1>2. Flat
  BY <1>1, InsertNewInv, DeleteMarkerInv, InsertSetInv, DeleteMarkInv
<1>3. UNCHANGED hist
  BY DEF InsertNew, DeleteMarker, InsertSet, DeleteMark, hist
<1>4. Still
  <2>1. CASE InsertSet(t) \/ DeleteMark(t)
    BY <2>1 DEF InsertSet, DeleteMark, Still
  <2>2. CASE InsertNew(t) \/ DeleteMarker(t)
    <3>1. PICK x, w : NewNode(x, w)
      BY <2>2 DEF InsertNew, DeleteMarker
    <3>2. DOMAIN info = Nodes
      BY LinesUsed DEF TypeOK
    <3>3. x \in Items /\ state[x] = "free" /\ \A n \in Nodes : n # x => info'[n] = info[n]
      BY <3>1, <3>2 DEF NewNode, Pool!Publish
    <3> QED
      BY <3>3, LooseStill
  <2> QED
    BY <2>1, <2>2
<1> QED
  BY <1>2, <1>3, <1>4

(* A node that the pool takes back is on no level.                         *)
LEMMA ReclaimStill ==
  ASSUME IInv, NEW x \in Items, Reclaim(x)
  PROVE  Flat /\ Still
<1>1. PICK may : Inv(may)
  BY DEF IInv
<1>2. DOMAIN info = Nodes
  BY LinesUsed DEF TypeOK
<1>3. state[x] = "retired" /\ \A n \in Nodes : n # x => info'[n] = info[n]
  BY <1>2 DEF Reclaim, Pool!Reclaim
<1>4. state[x] # "linked"
  BY <1>3
<1> QED
  BY <1>1, <1>3, <1>4, ReclaimInv, LooseStill

(* The step that links or unlinks at the lowest level looks at the list;   *)
(* at another level the lowest one stays.                                  *)
LEMMA WordSteps ==
  ASSUME IInv, NEW t \in Threads, InsertLink(t) \/ DeleteUnlink(t)
  PROVE  /\ info' = info
         /\ loc[t].i = 1 => See(next', info)
         /\ loc[t].i # 1 => UNCHANGED hist /\ On(next, 1)' = On(next, 1)
<1>1. PICK may : Inv(may)
  BY DEF IInv
<1>2. /\ info' = info
      /\ loc[t].i = 1 => See(next', info)
      /\ loc[t].i # 1 => UNCHANGED hist
  BY DEF InsertLink, DeleteUnlink
<1> PICK i, p, x : i = loc[t].i /\ p = loc[t].prev[i] /\ x = loc[t].x
  OBVIOUS
<1>3. GoesIn(i, p, x) \/ GoesOff(i, p, x)
  BY <1>1, InsertLinkInv, DeleteUnlinkInv
<1>4. i # 1 => On(next, 1)' = On(next, 1)
  BY <1>3, LevelOne DEF GoesIn, GoesOff, Beside
<1> QED
  BY <1>2, <1>4

(* Every step of a call keeps the records of the history those of the      *)
(* lowest level.                                                           *)
LEMMA ListedStep ==
  ASSUME IInv, IInv', Listed, NEW t \in Threads, Work(t) \/ Call(t)
  PROVE  Listed'
<1>0. TypeOK /\ TypeOK'
  BY LinesUsed, LinesUsedNext
<1>1. ASSUME Kept, recs' = recs PROVE Listed'
  <2>1. Flat
    BY <1>0, <1>1, KeptSettled
  <2> QED
    BY <1>1, <2>1, FlatLow, ListedStays DEF Kept
<1>2. CASE Hidden(t)
  BY <1>0, <1>1, <1>2, HiddenKept DEF hist
<1>3. CASE Call(t)
  <2>1. Kept
    BY <1>0, <1>3, AsideCall DEF Aside
  <2>2. recs' = recs
    BY <1>3 DEF Call, Insert, Delete, Get, Start
  <2> QED
    BY <1>1, <2>1, <2>2
<1>4. CASE Return(t)
  <2>1. Kept
    BY <1>0, <1>4, AsidePool DEF Aside
  <2>2. recs' = recs
    BY <1>4 DEF Return, Leave
  <2> QED
    BY <1>1, <2>1, <2>2
<1>5. CASE InsertNew(t) \/ DeleteMarker(t) \/ InsertSet(t) \/ DeleteMark(t)
  BY <1>5, NodeSteps, FlatLow, ListedStays DEF Still, hist
<1>6. CASE Inserted(t) \/ DeleteFlag(t)
  <2>1. PICK may : Inv(may)
    BY DEF IInv
  <2>2. Flat
    BY <1>6, <2>1, InsertedInv, DeleteFlagInv
  <2>3. See(next, info')
    BY <1>6 DEF Inserted, DeleteFlag
  <2> QED
    BY <2>2, <2>3, FlatLow, FlagListed
<1>7. CASE InsertLink(t) \/ DeleteUnlink(t)
  <2>1. CASE loc[t].i = 1
    BY <1>7, <2>1, WordSteps, WordListed
  <2>2. CASE loc[t].i # 1
    BY <1>7, <2>2, WordSteps, ListedStays DEF hist
  <2> QED
    BY <2>1, <2>2
<1> QED
  BY <1>2, <1>3, <1>4, <1>5, <1>6, <1>7 DEF Work, Hidden

(* And so do the steps of nobody.                                          *)
LEMMA ListedRest ==
  ASSUME IInv, IInv', Listed, UNCHANGED vars \/ \E x \in Items : Reclaim(x)
  PROVE  Listed'
<1>1. recs' = recs
  BY DEF vars, hist, Reclaim
<1>2. CASE UNCHANGED vars
  <2>1. Kept
    BY <1>2 DEF vars, poolVars, listVars, fields, Kept
  <2>2. Flat
    BY <2>1, LinesUsed, LinesUsedNext, KeptSettled
  <2> QED
    BY <1>1, <2>1, <2>2, FlatLow, ListedStays DEF Kept
<1>3. ASSUME NEW x \in Items, Reclaim(x) PROVE Listed'
  BY <1>1, <1>3, ReclaimStill, FlatLow, ListedStays DEF Still
<1> QED
  BY <1>2, <1>3
-----------------------------------------------------------------------------
(* The calls that are between their link or unlink and their count. *)

Adds(p, r) ==
  \/ p \in {"inserted", "num_add"}
  \/ r.op = "insert" /\ r.i > 1
Subs(p) == p \in {"free_x", "free_m", "num_sub"}
Adding == {t \in Threads : Adds(pc[t], loc[t])}
Taking == {t \in Threads : Subs(pc[t])}
Size == Cardinality(On(next, 1))

Counted ==
  /\ IsFiniteSet(Adding) /\ IsFiniteSet(Taking)
  /\ num = (Size - Cardinality(Adding) + Cardinality(Taking)) % NumMod

\* An insert that is over has no level left to link.
RestAt(p, r) == p \in {"num_add", "leave"} /\ r.op = "insert" => r.i = 0
CountInv == Counted /\ \A t \in Threads : RestAt(pc[t], loc[t])

(* A counter that wraps can be moved by one before or after it wraps.      *)
LEMMA Turned ==
  ASSUME NEW M \in Nat \ {0}, NEW a \in Int, NEW d \in {-1, 1}
  PROVE  ((a % M) + d) % M = (a + d) % M
<1> PICK r, q : r = a % M /\ q = a \div M
  OBVIOUS
<1>1. r \in 0 .. M - 1 /\ q \in Int /\ a = (M * q) + r
  OBVIOUS
<1> PICK e, k : e = (r + d) % M /\ k = (r + d) \div M
  OBVIOUS
<1>2. e \in 0 .. M - 1 /\ k \in Int /\ r + d = (M * k) + e
  <2>1. r + d \in Int
    BY <1>1
  <2> PICK b \in Int : b = r + d
    BY <2>1
  <2>2. b % M \in 0 .. M - 1 /\ b \div M \in Int /\ b = M * (b \div M) + (b % M)
    OBVIOUS
  <2> QED
    BY <2>2
<1>3. M * (q + k) = (M * q) + (M * k)
  BY <1>1, <1>2
<1>4. a + d = e + (M * (q + k)) /\ q + k \in Int
  <2>1. \A u, v, w, z \in Int : w + d = v + z => (u + w) + d = z + (u + v)
    OBVIOUS
  <2>2. M * q \in Int /\ M * k \in Int /\ r \in Int /\ e \in Int
    BY <1>1, <1>2
  <2> PICK u, v : u = M * q /\ v = M * k
    OBVIOUS
  <2>3. a = u + r /\ r + d = v + e /\ M * (q + k) = u + v
    BY <1>1, <1>2, <1>3
  <2>4. a + d = e + (u + v)
    BY <2>1, <2>2, <2>3
  <2> QED
    BY <1>1, <1>2, <2>3, <2>4
<1>5. (e + (M * (q + k))) % M = e
  BY <1>2, <1>4, TurnsOff
<1> QED
  BY <1>4, <1>5

(* What a step of t does to the inserts that are linked and not counted    *)
(* yet.                                                                    *)
LEMMA AddingIs ==
  ASSUME NEW t \in Threads, Alone(t)
  PROVE  Adding' = IF Adds(pc'[t], loc'[t]) THEN Adding \cup {t} ELSE Adding \ {t}
BY DEF Alone, Adding

(* What it does to the deletes that are unlinked and not counted yet.      *)
LEMMA TakingIs ==
  ASSUME NEW t \in Threads, Alone(t)
  PROVE  Taking' = IF Subs(pc'[t]) THEN Taking \cup {t} ELSE Taking \ {t}
BY DEF Alone, Taking

(* The lowest level is finite.                                             *)
LEMMA SizeNat ==
  ASSUME IInv
  PROVE  IsFiniteSet(On(next, 1)) /\ Size \in Nat
<1>1. On(next, 1) \subseteq Items
  BY LinesUsed, LineFacts, LevelOne
<1>2. IsFiniteSet(On(next, 1))
  BY <1>1, FS_Subset, ItemsFinite
<1> QED
  BY <1>2, FS_CardinalityType DEF Size

\* A step that counts nothing and links nothing.
Uncounted(t) ==
  /\ Alone(t) /\ num' = num /\ On(next, 1)' = On(next, 1)
  /\ Adds(pc'[t], loc'[t]) <=> Adds(pc[t], loc[t])
  /\ Subs(pc'[t]) <=> Subs(pc[t])
  /\ RestAt(pc'[t], loc'[t])

(* An insert of another thread that is over stays so.                      *)
LEMMA RestStays ==
  ASSUME CountInv, NEW t \in Threads, Alone(t), RestAt(pc'[t], loc'[t]), Counted'
  PROVE  CountInv'
<1>1. \A u \in Threads : RestAt(pc'[u], loc'[u])
  BY DEF Alone, CountInv
<1>2. \A u \in Threads : RestAt(pc[u], loc[u])'
  BY <1>1 DEF RestAt
<1> QED
  BY <1>2 DEF CountInv

(* A step that counts nothing and links nothing keeps the count.           *)
LEMMA UncountedStep ==
  ASSUME CountInv, NEW t \in Threads, Uncounted(t)
  PROVE  CountInv'
<1>1. Adding' = Adding /\ Taking' = Taking
  BY AddingIs, TakingIs DEF Uncounted, Adding, Taking
<1>2. Size' = Size
  BY DEF Uncounted, Size
<1>3. Counted'
  BY <1>1, <1>2 DEF CountInv, Counted, Uncounted
<1> QED
  BY <1>3, RestStays DEF Uncounted

\* One of the three numbers and the count change by one.
Count(n, a, b) == (n - a + b) % NumMod
Moved(n, a, b, c, N, A, B, e) ==
  \/ N = n + 1 /\ A = a + 1 /\ B = b /\ e = c
  \/ N = n - 1 /\ A = a /\ B = b + 1 /\ e = c
  \/ N = n /\ A = a - 1 /\ B = b /\ e = (c + 1) % NumMod
  \/ N = n /\ A = a /\ B = b - 1 /\ e = (c - 1) % NumMod

(* The count stays right when it moves with one of the three numbers that  *)
(* make it up.                                                             *)
LEMMA CountsOn ==
  ASSUME NEW n \in Nat, NEW a \in Nat, NEW b \in Nat, NEW N, NEW A, NEW B, NEW c, NEW e,
         c = Count(n, a, b), Moved(n, a, b, c, N, A, B, e)
  PROVE  e = Count(N, A, B)
<1> PICK k \in Int : k = n - a + b
  OBVIOUS
<1>0. c = k % NumMod
  BY DEF Count
<1>1. NumMod \in Nat \ {0}
  BY BoundAssumption
<1>2. ((k % NumMod) + 1) % NumMod = (k + 1) % NumMod
  BY <1>1, Turned
<1>3. ((k % NumMod) + -1) % NumMod = (k + -1) % NumMod
  BY <1>1, Turned
<1>4. k % NumMod \in Int
  BY <1>1
<1>5. CASE N = n + 1 /\ A = a + 1 /\ B = b /\ e = c
  <2>1. N - A + B = k
    BY <1>5
  <2> QED
    BY <1>0, <1>5, <2>1 DEF Count
<1>6. CASE N = n - 1 /\ A = a /\ B = b + 1 /\ e = c
  <2>1. N - A + B = k
    BY <1>6
  <2> QED
    BY <1>0, <1>6, <2>1 DEF Count
<1>7. CASE N = n /\ A = a - 1 /\ B = b /\ e = (c + 1) % NumMod
  <2>1. N - A + B = k + 1
    BY <1>7
  <2> QED
    BY <1>0, <1>2, <1>7, <2>1 DEF Count
<1>8. CASE N = n /\ A = a /\ B = b - 1 /\ e = (c - 1) % NumMod
  <2>1. N - A + B = k + -1
    BY <1>8
  <2>2. c - 1 = (k % NumMod) + -1
    BY <1>0, <1>4, <1>8
  <2> QED
    BY <1>0, <1>3, <1>8, <2>1, <2>2 DEF Count
<1> QED
  BY <1>5, <1>6, <1>7, <1>8 DEF Moved

(* The four steps that move the count: a link, an unlink and the addition  *)
(* and subtraction that follow them.                                       *)
LEMMA CountedStep ==
  ASSUME IInv, CountInv, NEW t \in Threads, Alone(t), RestAt(pc'[t], loc'[t]),
         NEW x,
         \/ /\ num' = num /\ x \notin On(next, 1) /\ On(next, 1)' = On(next, 1) \cup {x}
            /\ t \notin Adding /\ Adds(pc'[t], loc'[t])
            /\ Subs(pc'[t]) <=> Subs(pc[t])
         \/ /\ num' = num /\ x \in On(next, 1) /\ On(next, 1)' = On(next, 1) \ {x}
            /\ t \notin Taking /\ Subs(pc'[t])
            /\ Adds(pc'[t], loc'[t]) <=> Adds(pc[t], loc[t])
         \/ /\ num' = (num + 1) % NumMod /\ On(next, 1)' = On(next, 1)
            /\ t \in Adding /\ ~Adds(pc'[t], loc'[t])
            /\ Subs(pc'[t]) <=> Subs(pc[t])
         \/ /\ num' = (num - 1) % NumMod /\ On(next, 1)' = On(next, 1)
            /\ t \in Taking /\ ~Subs(pc'[t])
            /\ Adds(pc'[t], loc'[t]) <=> Adds(pc[t], loc[t])
  PROVE  CountInv'
<1> PICK n, a, b : n = Size /\ a = Cardinality(Adding) /\ b = Cardinality(Taking)
  OBVIOUS
<1> PICK N, A, B : N = Size' /\ A = Cardinality(Adding)' /\ B = Cardinality(Taking)'
  OBVIOUS
<1>1. /\ IsFiniteSet(On(next, 1)) /\ IsFiniteSet(Adding) /\ IsFiniteSet(Taking)
      /\ n \in Nat /\ a \in Nat /\ b \in Nat
      /\ num = (n - a + b) % NumMod
  BY SizeNat, FS_CardinalityType DEF CountInv, Counted
<1>2. Adding' = Adding \/ Adding' = Adding \cup {t} \/ Adding' = Adding \ {t}
  BY AddingIs
<1>3. Taking' = Taking \/ Taking' = Taking \cup {t} \/ Taking' = Taking \ {t}
  BY TakingIs
<1>4. IsFiniteSet(Adding') /\ IsFiniteSet(Taking')
  BY <1>1, <1>2, <1>3, FS_AddElement, FS_RemoveElement
<1>5. \/ N = n + 1 /\ A = a + 1 /\ B = b /\ num' = num
      \/ N = n - 1 /\ A = a /\ B = b + 1 /\ num' = num
      \/ N = n /\ A = a - 1 /\ B = b /\ num' = (num + 1) % NumMod
      \/ N = n /\ A = a /\ B = b - 1 /\ num' = (num - 1) % NumMod
  <2>1. (Subs(pc'[t]) <=> Subs(pc[t])) => B = b
    <3>1. (Subs(pc'[t]) <=> Subs(pc[t])) => Taking' = Taking
      BY TakingIs DEF Taking
    <3> QED
      BY <3>1
  <2>2. (Adds(pc'[t], loc'[t]) <=> Adds(pc[t], loc[t])) => A = a
    <3>1. (Adds(pc'[t], loc'[t]) <=> Adds(pc[t], loc[t])) => Adding' = Adding
      BY AddingIs DEF Adding
    <3> QED
      BY <3>1
  <2>3. On(next, 1)' = On(next, 1) => N = n
    BY DEF Size
  <2>4. CASE /\ num' = num /\ x \notin On(next, 1) /\ On(next, 1)' = On(next, 1) \cup {x}
             /\ t \notin Adding /\ Adds(pc'[t], loc'[t])
             /\ Subs(pc'[t]) <=> Subs(pc[t])
    <3>1. Adding' = Adding \cup {t}
      BY <2>4, AddingIs
    <3>2. A = a + 1
      BY <1>1, <2>4, <3>1, FS_AddElement
    <3>3. N = n + 1
      BY <1>1, <2>4, FS_AddElement DEF Size
    <3> QED
      BY <2>1, <2>4, <3>2, <3>3
  <2>5. CASE /\ num' = num /\ x \in On(next, 1) /\ On(next, 1)' = On(next, 1) \ {x}
             /\ t \notin Taking /\ Subs(pc'[t])
             /\ Adds(pc'[t], loc'[t]) <=> Adds(pc[t], loc[t])
    <3>1. Taking' = Taking \cup {t}
      BY <2>5, TakingIs
    <3>2. B = b + 1
      BY <1>1, <2>5, <3>1, FS_AddElement
    <3>3. N = n - 1
      BY <1>1, <2>5, FS_RemoveElement DEF Size
    <3> QED
      BY <2>2, <2>5, <3>2, <3>3
  <2>6. CASE /\ num' = (num + 1) % NumMod /\ On(next, 1)' = On(next, 1)
             /\ t \in Adding /\ ~Adds(pc'[t], loc'[t])
             /\ Subs(pc'[t]) <=> Subs(pc[t])
    <3>1. Adding' = Adding \ {t}
      BY <2>6, AddingIs
    <3>2. A = a - 1
      BY <1>1, <2>6, <3>1, FS_RemoveElement
    <3> QED
      BY <2>1, <2>3, <2>6, <3>2
  <2>7. CASE /\ num' = (num - 1) % NumMod /\ On(next, 1)' = On(next, 1)
             /\ t \in Taking /\ ~Subs(pc'[t])
             /\ Adds(pc'[t], loc'[t]) <=> Adds(pc[t], loc[t])
    <3>1. Taking' = Taking \ {t}
      BY <2>7, TakingIs
    <3>2. B = b - 1
      BY <1>1, <2>7, <3>1, FS_RemoveElement
    <3> QED
      BY <2>2, <2>3, <2>7, <3>2
  <2> QED
    BY <2>4, <2>5, <2>6, <2>7
<1>6. num' = (N - A + B) % NumMod
  <2> PICK c, e : c = num /\ e = num'
    OBVIOUS
  <2>1. c = Count(n, a, b)
    BY <1>1 DEF Count
  <2>2. Moved(n, a, b, c, N, A, B, e)
    BY <1>5 DEF Moved
  <2>3. n \in Nat /\ a \in Nat /\ b \in Nat
    BY <1>1
  <2>4. e = Count(N, A, B)
    BY <2>1, <2>2, <2>3, CountsOn
  <2> QED
    BY <2>4 DEF Count
<1>7. Counted'
  BY <1>4, <1>6 DEF Counted
<1> QED
  BY <1>7, RestStays
-----------------------------------------------------------------------------
(* Which steps count and link. *)

\* The other steps, but the starts and the ends of calls.
Ending == {"inserted", "num_add", "free_x", "free_m", "num_sub", "leave"}
Middle(t) ==
  /\ pc[t] \notin Ending /\ pc'[t] \notin Ending
  /\ loc'[t].op = loc[t].op /\ loc'[t].i = loc[t].i

(* Steps that only go on inside a call are middle steps.                   *)
LEMMA MiddleGoto ==
  ASSUME TypeOK, NEW t \in Threads,
         \/ InsertEnter(t) \/ DeleteEnter(t) \/ GetEnter(t) \/ InsertCheck(t) \/ InsertRetry(t)
         \/ DeleteAgain(t) \/ DeletePrev(t) \/ DeleteRetry(t) \/ InsertSet(t) \/ DeleteMark(t)
         \/ DeleteFlag(t)
  PROVE  Middle(t)
<1>1. PICK p, q : Goto(t, p, q) /\ p \notin Ending /\ q \notin Ending
  <2>1. \/ Goto(t, "enter", "find_start") \/ Goto(t, "check", "find_start")
        \/ Goto(t, "check", "set") \/ Goto(t, "link", "find_start") \/ Goto(t, "again", "enter")
        \/ Goto(t, "prev", "find_start") \/ Goto(t, "prev", "mark")
        \/ Goto(t, "unlink", "find_start") \/ Goto(t, "set", "link")
        \/ Goto(t, "mark", "unlink") \/ Goto(t, "mark", "find_start") \/ Goto(t, "flag", "marker")
    BY DEF InsertEnter, DeleteEnter, GetEnter, EnterEpoch, InsertCheck, InsertRetry, DeleteAgain,
       DeletePrev, DeleteRetry, InsertSet, DeleteMark, DeleteFlag
  <2> QED
    BY <2>1 DEF Ending
<1>2. loc' = loc
  BY DEF InsertEnter, DeleteEnter, GetEnter, EnterEpoch, InsertCheck, InsertRetry, DeleteAgain,
     DeletePrev, DeleteRetry, InsertSet, DeleteMark, DeleteFlag
<1>3. pc[t] = p /\ pc'[t] = q
  BY <1>1, LocalsTyped DEF Goto
<1> QED
  BY <1>1, <1>2, <1>3 DEF Middle

(* The steps of a search are.                                              *)
LEMMA MiddleFind ==
  ASSUME IInv, NEW t \in Threads,
         \/ FindStart(t) \/ FindMove(t) \/ FindDown(t) \/ FindAgain(t) \/ FindEqual(t)
  PROVE  Middle(t)
<1>0. pc \in [Threads -> PCs] /\ loc \in [Threads -> Locals] /\ loc[t] \in Locals
  BY LinesUsed, LocalsTyped
<1>1. CASE FindStart(t)
  BY <1>0, <1>1 DEF FindStart, Goto, Middle, Ending, Locals
<1>2. CASE FindMove(t)
  BY <1>0, <1>2 DEF FindMove, Middle, Ending, Locals
<1>3. ASSUME pc[t] = "find", NEW n \in Items \cup {Null}, NEW r, r = Noted(t, n),
             n = Behind(next, loc[t].at, loc[t].lvl)
      PROVE  r \in Locals /\ r.op = loc[t].op /\ r.i = loc[t].i
  <2>1. loc[t].lvl \in Levels /\ loc[t].at \in Nodes
    BY <1>3, SearchFacts
  <2>2. r = NotedIn(loc[t], loc[t].lvl, loc[t].at, n)
    BY <1>3 DEF Noted, NotedIn
  <2> QED
    BY <1>0, <2>1, <2>2, NotedFields
<1>4. CASE FindDown(t)
  <2> PICK n \in Items \cup {Null} :
         /\ Stops(t, n) /\ pc' = pc
         /\ loc' = [loc EXCEPT ![t] = [Noted(t, n) EXCEPT !.lvl = @ - 1]]
    BY <1>4 DEF FindDown
  <2> PICK r : r = Noted(t, n)
    OBVIOUS
  <2>1. pc[t] = "find" /\ r \in Locals /\ r.op = loc[t].op /\ r.i = loc[t].i
    BY <1>3 DEF Stops
  <2>2. loc'[t] = [r EXCEPT !.lvl = @ - 1]
    BY <1>0
  <2>3. loc'[t].op = r.op /\ loc'[t].i = r.i
    BY <2>1, <2>2 DEF Locals
  <2> QED
    BY <2>1, <2>3 DEF Middle, Ending
<1>5. CASE FindAgain(t) \/ FindEqual(t)
  <2> PICK n \in Items \cup {Null}, q \in {"find_start", "forward"} :
         Ends(t, n, q, Noted(t, n)) \/ Ends(t, n, q, [Noted(t, n) EXCEPT !.at = n])
    BY <1>5 DEF FindAgain, FindEqual
  <2> PICK s : Ends(t, n, q, s) /\ (s = Noted(t, n) \/ s = [Noted(t, n) EXCEPT !.at = n])
    OBVIOUS
  <2> PICK r : r = Noted(t, n)
    OBVIOUS
  <2>1. pc[t] = "find" /\ r \in Locals /\ r.op = loc[t].op /\ r.i = loc[t].i
    BY <1>3 DEF Ends, Stops
  <2>2. loc'[t] = s /\ pc'[t] = q
    BY LinesUsed, EndsFacts
  <2>3. s.op = r.op /\ s.i = r.i
    BY <2>1 DEF Locals
  <2> QED
    BY <2>1, <2>2, <2>3 DEF Middle, Ending
<1> QED
  BY <1>1, <1>2, <1>4, <1>5

(* Reading a level of the node and making a node are.                      *)
LEMMA MiddleRest ==
  ASSUME TypeOK, NEW t \in Threads, Forward(t) \/ InsertNew(t)
  PROVE  Middle(t)
<1>0. pc \in [Threads -> PCs] /\ loc \in [Threads -> Locals] /\ loc[t] \in Locals
  BY LocalsTyped
<1>1. CASE Forward(t)
  <2>1. PICK q \in {"forward", "flag", "prev"} : Goto(t, "forward", q)
    BY <1>1 DEF Forward
  <2>2. pc[t] = "forward" /\ pc'[t] = q
    BY <1>0, <2>1 DEF Goto
  <2>3. loc'[t].op = loc[t].op /\ loc'[t].i = loc[t].i
    BY <1>0, <1>1 DEF Forward, Locals
  <2> QED
    BY <2>2, <2>3 DEF Middle, Ending
<1>2. CASE InsertNew(t)
  <2>1. pc[t] = "new" /\ pc'[t] = "enter"
    BY <1>0, <1>2 DEF InsertNew, Goto
  <2>2. loc'[t].op = loc[t].op /\ loc'[t].i = loc[t].i
    BY <1>0, <1>2 DEF InsertNew, Locals
  <2> QED
    BY <2>1, <2>2 DEF Middle, Ending
<1> QED
  BY <1>1, <1>2

\* Steps of t after which nothing is linked that was not.
Linking(t) == InsertLink(t) \/ DeleteUnlink(t)
(* Only InsertLink and DeleteUnlink change a level.                        *)
LEMMA FlatSteps ==
  ASSUME IInv, IInv', NEW t \in Threads, Work(t) \/ Call(t), ~Linking(t)
  PROVE  Alone(t) /\ Flat
<1>0. TypeOK /\ TypeOK' /\ pc \in [Threads -> PCs] /\ loc \in [Threads -> Locals]
  BY LinesUsed, LinesUsedNext, LocalsTyped
<1>1. CASE Hidden(t)
  BY <1>0, <1>1, HiddenKept, KeptSettled
<1>2. CASE Call(t) \/ Return(t)
  <2>1. Kept /\ Alone(t)
    BY <1>0, <1>2, AsideCall, AsidePool DEF Aside
  <2> QED
    BY <1>0, <2>1, KeptSettled
<1>3. CASE InsertNew(t) \/ DeleteMarker(t) \/ InsertSet(t) \/ DeleteMark(t)
  <2>1. Flat
    BY <1>3, NodeSteps
  <2>2. Alone(t)
    BY <1>0, <1>3 DEF InsertNew, DeleteMarker, InsertSet, DeleteMark, Goto, Alone
  <2> QED
    BY <2>1, <2>2
<1>4. CASE Inserted(t) \/ DeleteFlag(t)
  <2>1. PICK may : Inv(may)
    BY DEF IInv
  <2>2. Flat
    BY <1>4, <2>1, InsertedInv, DeleteFlagInv
  <2>3. Alone(t)
    BY <1>0, <1>4 DEF Inserted, DeleteFlag, Goto, Alone
  <2> QED
    BY <2>2, <2>3
<1> QED
  BY <1>1, <1>2, <1>3, <1>4 DEF Work, Hidden, Linking

(* Which call a thread is in, from where it is.                            *)
LEMMA OpFacts ==
  ASSUME IInv, NEW t \in Threads
  PROVE  /\ pc[t] \in InsertOnly => loc[t].op = "insert"
         /\ pc[t] \in DeleteOnly => loc[t].op = "delete"
         /\ pc[t] = "idle" => loc[t] = NoLocals
         /\ pc[t] = "dup_free" => loc[t].i = 0
<1>1. PICK may : Inv(may)
  BY DEF IInv
<1> PICK p, r : p = pc[t] /\ r = loc[t]
  OBVIOUS
<1>2. ThreadOK(may, t, p, r)
  BY <1>1 DEF Inv, ThreadInv
<1>3. p \in InsertOnly => r.op = "insert"
  BY <1>2 DEF ThreadOK, Local
<1>4. p \in DeleteOnly => r.op = "delete"
  BY <1>2 DEF ThreadOK, Local
<1>5. p = "idle" => r = NoLocals
  BY <1>2 DEF ThreadOK, Local
<1>6. p = "dup_free" => r.i = 0
  <2> SUFFICES ASSUME p = "dup_free" PROVE r.i = 0
    OBVIOUS
  <2>1. r.op = "insert"
    BY <1>3 DEF InsertOnly
  <2>2. r.x # Null
    BY <1>2, <2>1 DEF ThreadOK, About
  <2>3. Puts(p, r)
    BY <2>1, <2>2 DEF Puts, PutPCs
  <2> QED
    BY <1>2, <2>3 DEF ThreadOK, PutOK
<1> QED
  BY <1>3, <1>4, <1>5, <1>6
-----------------------------------------------------------------------------
(* Every step keeps the count. *)

(* A middle step keeps the count.                                          *)
LEMMA MiddleCount ==
  ASSUME IInv, IInv', CountInv, NEW t \in Threads, Work(t), ~Linking(t), Middle(t), num' = num
  PROVE  CountInv'
<1>1. Alone(t) /\ On(next, 1)' = On(next, 1)
  BY FlatSteps, FlatLow
<1>2. /\ Adds(pc'[t], loc'[t]) <=> Adds(pc[t], loc[t])
      /\ Subs(pc'[t]) <=> Subs(pc[t])
      /\ RestAt(pc'[t], loc'[t])
  BY DEF Middle, Ending, Adds, Subs, RestAt
<1> QED
  BY <1>1, <1>2, UncountedStep DEF Uncounted

(* So do the other steps that count nothing.                               *)
LEMMA EndsCount ==
  ASSUME IInv, IInv', CountInv, NEW t \in Threads,
         \/ FindNone(t) \/ InsertDup(t) \/ InsertFound(t) \/ GetFound(t) \/ Call(t) \/ Return(t)
         \/ InsertDupFree(t) \/ DeleteBusy(t) \/ DeleteMarker(t) \/ DeleteFree(t)
         \/ DeleteFreeMarker(t) \/ Inserted(t)
  PROVE  CountInv'
<1>0. TypeOK /\ pc \in [Threads -> PCs] /\ loc \in [Threads -> Locals] /\ loc[t] \in Locals
  BY LinesUsed, LocalsTyped
<1>1. Alone(t) /\ On(next, 1)' = On(next, 1)
  <2>1. ~Linking(t)
    BY DEF Linking, InsertLink, DeleteUnlink, Goto, FindNone, InsertDup, InsertFound, GetFound,
       Ends, Stops, Call, Insert, Delete, Get, Start, Return, Leave, InsertDupFree, DeleteBusy,
       DeleteMarker, DeleteFree, DeleteFreeMarker, Inserted
  <2>2. Work(t) \/ Call(t)
    BY DEF Work
  <2> QED
    BY <2>1, <2>2, FlatSteps, FlatLow
<1>2. num' = num
  BY DEF FindNone, InsertDup, InsertFound, GetFound, Ends, Call, Insert, Delete, Get, Return,
     Leave, InsertDupFree, DeleteBusy, DeleteMarker, NewNode, DeleteFree, DeleteFreeMarker,
     Inserted, listVars, fields
<1> SUFFICES /\ Adds(pc'[t], loc'[t]) <=> Adds(pc[t], loc[t])
             /\ Subs(pc'[t]) <=> Subs(pc[t])
             /\ RestAt(pc'[t], loc'[t])
  BY <1>1, <1>2, UncountedStep DEF Uncounted
<1>3. /\ pc[t] \in InsertOnly => loc[t].op = "insert"
      /\ pc[t] \in DeleteOnly => loc[t].op = "delete"
      /\ pc[t] = "idle" => loc[t] = NoLocals
      /\ pc[t] = "dup_free" => loc[t].i = 0
      /\ RestAt(pc[t], loc[t])
  BY OpFacts DEF CountInv
<1>4. /\ Bare(t).op = loc[t].op /\ Bare(t).i = 0 /\ Bare(t) \in Locals
  BY <1>0, BareFields
<1>5. CASE FindNone(t) \/ GetFound(t) \/ InsertDup(t)
  <2> PICK n, q, s : /\ Ends(t, n, q, s) /\ (s = Bare(t) \/ \E x : s = [Bare(t) EXCEPT !.x = x])
                     /\ \/ loc[t].op = "delete" /\ q = "leave"
                        \/ loc[t].op = "get" /\ q = "leave"
                        \/ loc[t].op = "insert" /\ loc[t].i = 0 /\ q = "dup_free"
    BY <1>5 DEF FindNone, GetFound, InsertDup
  <2>1. s.op = loc[t].op /\ s.i = 0
    BY <1>4 DEF Locals
  <2>2. pc[t] = "find" /\ pc'[t] = q /\ loc'[t] = s
    BY <1>0, EndsFacts DEF Ends, Stops
  <2> QED
    BY <2>1, <2>2 DEF Adds, Subs, RestAt
<1>6. CASE InsertFound(t)
  <2> PICK n \in Items \cup {Null} :
         Ends(t, n, "check", [Noted(t, n) EXCEPT !.at = Null, !.lvl = 0,
                                                 !.i = IF @ = 0 THEN 1 ELSE @])
    BY <1>6 DEF InsertFound
  <2> PICK r : r = Noted(t, n)
    OBVIOUS
  <2>1. pc[t] = "find" /\ n = Behind(next, loc[t].at, loc[t].lvl)
    BY DEF Ends, Stops
  <2>2. r \in Locals /\ r.op = loc[t].op /\ r.i = loc[t].i
    <3>1. loc[t].lvl \in Levels /\ loc[t].at \in Nodes
      BY <2>1, SearchFacts
    <3>2. r = NotedIn(loc[t], loc[t].lvl, loc[t].at, n)
      BY DEF Noted, NotedIn
    <3> QED
      BY <1>0, <3>1, <3>2, NotedFields
  <2> PICK s : s = [r EXCEPT !.at = Null, !.lvl = 0, !.i = IF @ = 0 THEN 1 ELSE @]
    OBVIOUS
  <2>3. s.op = r.op /\ s.i = IF r.i = 0 THEN 1 ELSE r.i
    BY <2>2 DEF Locals
  <2>4. pc'[t] = "check" /\ loc'[t] = s
    BY <1>0, EndsFacts
  <2> QED
    BY <2>1, <2>2, <2>3, <2>4 DEF Adds, Subs, RestAt
<1>7. CASE Call(t)
  <2> PICK q, r : Start(t, r, q) /\ r.i = 0 /\ q \in {"new", "enter"}
    <3>1. ASSUME NEW k, NEW h
          PROVE  /\ [NoLocals EXCEPT !.op = "insert", !.key = k, !.lvl = h].i = 0
                 /\ [NoLocals EXCEPT !.op = "delete", !.key = k, !.incr = h].i = 0
                 /\ [NoLocals EXCEPT !.op = "get", !.key = k, !.incr = h].i = 0
      BY DEF NoLocals
    <3> QED
      BY <1>7, <3>1 DEF Call, Insert, Delete, Get
  <2>1. pc[t] = "idle" /\ pc'[t] = q /\ loc'[t] = r
    BY <1>0 DEF Start, Goto
  <2>2. loc[t].op = "none" /\ r.i = 0
    BY <1>3, <2>1 DEF NoLocals
  <2> QED
    BY <2>1, <2>2 DEF Adds, Subs, RestAt
<1>8. CASE Return(t)
  <2>1. pc[t] = "leave" /\ pc'[t] = "idle" /\ loc'[t] = NoLocals
    BY <1>0, <1>8 DEF Return, Leave, Goto
  <2>2. loc[t].op = "insert" => loc[t].i = 0
    BY <1>3, <2>1 DEF RestAt
  <2> QED
    BY <2>1, <2>2 DEF Adds, Subs, RestAt, NoLocals
<1>9. CASE InsertDupFree(t)
  <2>1. pc[t] = "dup_free" /\ pc'[t] = "leave"
    BY <1>0, <1>9 DEF InsertDupFree, Goto
  <2>2. loc'[t].op = loc[t].op /\ loc'[t].i = loc[t].i /\ loc[t].i = 0
    BY <1>0, <1>3, <1>9, <2>1 DEF InsertDupFree, Locals
  <2> QED
    BY <2>1, <2>2 DEF Adds, Subs, RestAt
<1>10. CASE DeleteBusy(t) \/ DeleteMarker(t)
  <2>1. PICK p \in {"flag", "marker"}, q \in {"again", "leave", "prev"} : Goto(t, p, q)
    BY <1>10 DEF DeleteBusy, DeleteMarker
  <2>2. pc[t] = p /\ pc'[t] = q /\ loc[t].op = "delete"
    BY <1>0, <1>3, <2>1 DEF Goto, DeleteOnly
  <2>3. loc'[t].op = loc[t].op
    BY <1>0, <1>4, <1>10 DEF DeleteBusy, DeleteMarker, Locals
  <2> QED
    BY <2>2, <2>3 DEF Adds, Subs, RestAt
<1>11. CASE DeleteFree(t) \/ DeleteFreeMarker(t)
  <2>1. PICK p \in {"free_x", "free_m"}, q \in {"free_m", "num_sub"} : Goto(t, p, q)
    BY <1>11 DEF DeleteFree, DeleteFreeMarker
  <2>2. pc[t] = p /\ pc'[t] = q /\ loc[t].op = "delete"
    BY <1>0, <1>3, <2>1 DEF Goto, DeleteOnly
  <2>3. loc'[t].op = loc[t].op
    BY <1>0, <1>11 DEF DeleteFree, DeleteFreeMarker, Locals
  <2> QED
    BY <2>2, <2>3 DEF Adds, Subs, RestAt
<1>12. CASE Inserted(t)
  <2>1. pc[t] = "inserted" /\ pc'[t] = "num_add"
    BY <1>0, <1>12 DEF Inserted, Goto
  <2>2. loc'[t].i = 0
    BY <1>0, <1>12 DEF Inserted, Locals
  <2> QED
    BY <2>1, <2>2 DEF Adds, Subs, RestAt
<1> QED
  BY <1>5, <1>6, <1>7, <1>8, <1>9, <1>10, <1>11, <1>12

(* An insert or delete that counts its node keeps the count.               *)
LEMMA NumCount ==
  ASSUME IInv, IInv', CountInv, NEW t \in Threads, InsertNum(t) \/ DeleteNum(t)
  PROVE  CountInv'
<1>0. TypeOK /\ pc \in [Threads -> PCs] /\ loc \in [Threads -> Locals] /\ loc' = loc
  BY LinesUsed, LocalsTyped DEF InsertNum, DeleteNum
<1>1. Alone(t) /\ On(next, 1)' = On(next, 1)
  <2>1. Kept /\ Alone(t)
    BY <1>0, AsideWork DEF Aside
  <2> QED
    BY <1>0, <2>1, LinesUsedNext, KeptSettled, FlatLow
<1>2. /\ pc[t] \in InsertOnly => loc[t].op = "insert"
      /\ pc[t] \in DeleteOnly => loc[t].op = "delete"
      /\ RestAt(pc[t], loc[t])
  BY OpFacts DEF CountInv
<1>3. CASE InsertNum(t)
  <2>1. pc[t] = "num_add" /\ pc'[t] = "leave" /\ num' = (num + 1) % NumMod
    BY <1>0, <1>3 DEF InsertNum, Goto
  <2>2. loc'[t].i = 0 /\ t \in Adding
    BY <1>0, <1>2, <2>1 DEF RestAt, InsertOnly, Adding, Adds
  <2>3. /\ t \in Adding /\ ~Adds(pc'[t], loc'[t]) /\ RestAt(pc'[t], loc'[t])
        /\ Subs(pc'[t]) <=> Subs(pc[t])
    BY <2>1, <2>2 DEF Adds, Subs, RestAt
  <2> QED
    BY <1>1, <2>1, <2>3, CountedStep
<1>4. CASE DeleteNum(t)
  <2>1. pc[t] = "num_sub" /\ pc'[t] = "leave" /\ num' = (num - 1) % NumMod
    BY <1>0, <1>4 DEF DeleteNum, Goto
  <2>2. loc[t].op = "delete"
    BY <1>2, <2>1 DEF DeleteOnly
  <2>3. /\ t \in Taking /\ ~Subs(pc'[t]) /\ RestAt(pc'[t], loc'[t])
        /\ Adds(pc'[t], loc'[t]) <=> Adds(pc[t], loc[t])
    BY <1>0, <2>1, <2>2 DEF Adds, Subs, RestAt, Taking
  <2> QED
    BY <1>1, <2>1, <2>3, CountedStep
<1> QED
  BY <1>3, <1>4

(* Linking a node on the lowest level adds a node that its insert has not  *)
(* counted yet.                                                            *)
LEMMA LinkCount ==
  ASSUME IInv, IInv', CountInv, NEW t \in Threads, InsertLink(t)
  PROVE  CountInv'
<1>0. TypeOK /\ pc \in [Threads -> PCs] /\ loc \in [Threads -> Locals] /\ loc[t] \in Locals
  BY LinesUsed, LocalsTyped
<1>1. PICK may : Inv(may)
  BY DEF IInv
<1> PICK i, p, x : i = loc[t].i /\ p = loc[t].prev[i] /\ x = loc[t].x
  OBVIOUS
<1>2. GoesIn(i, p, x)
  BY <1>1, InsertLinkInv
<1>3. PICK q \in {"inserted", "check"} : Goto(t, "link", q)
  BY DEF InsertLink
<1>4. pc[t] = "link" /\ pc'[t] = q /\ num' = num
  BY <1>0, <1>3 DEF Goto, InsertLink, fields
<1>5. loc[t].op = "insert"
  BY <1>4, OpFacts DEF InsertOnly
<1>6. loc'[t].op = "insert" /\ loc'[t].i = i + 1 /\ i \in Nat \ {0}
  <2>1. i \in Nat \ {0}
    BY <1>2, BoundAssumption DEF GoesIn, Levels
  <2>2. loc' = [loc EXCEPT ![t].i = @ + 1]
    BY DEF InsertLink
  <2> QED
    BY <1>0, <1>5, <2>1, <2>2 DEF Locals
<1>7. Alone(t)
  BY <1>0, <1>3 DEF InsertLink, Goto, Alone
<1>8. Adds(pc'[t], loc'[t]) /\ RestAt(pc'[t], loc'[t]) /\ (Subs(pc'[t]) <=> Subs(pc[t]))
  BY <1>4, <1>6 DEF Adds, RestAt, Subs
<1>9. CASE i = 1
  <2>1. x \notin On(next, 1) /\ On(next, 1)' = On(next, 1) \cup {x}
    BY <1>2, <1>9 DEF GoesIn
  <2>2. t \notin Adding
    <3>1. ~(i > 1)
      BY <1>9
    <3>2. ~Adds(pc[t], loc[t])
      BY <1>4, <3>1 DEF Adds
    <3> QED
      BY <3>2 DEF Adding
  <2> QED
    BY <1>4, <1>7, <1>8, <2>1, <2>2, CountedStep
<1>10. CASE i # 1
  <2>1. On(next, 1)' = On(next, 1)
    BY <1>10, WordSteps
  <2>2. Adds(pc[t], loc[t])
    BY <1>5, <1>6, <1>10 DEF Adds
  <2> QED
    BY <1>4, <1>7, <1>8, <2>1, <2>2, UncountedStep DEF Uncounted
<1> QED
  BY <1>9, <1>10

(* Unlinking it there takes away one that its delete has not counted yet.  *)
LEMMA UnlinkCount ==
  ASSUME IInv, IInv', CountInv, NEW t \in Threads, DeleteUnlink(t)
  PROVE  CountInv'
<1>0. TypeOK /\ pc \in [Threads -> PCs] /\ loc \in [Threads -> Locals] /\ loc[t] \in Locals
  BY LinesUsed, LocalsTyped
<1>1. PICK may : Inv(may)
  BY DEF IInv
<1> PICK i, p, x : i = loc[t].i /\ p = loc[t].prev[i] /\ x = loc[t].x
  OBVIOUS
<1>2. GoesOff(i, p, x)
  BY <1>1, DeleteUnlinkInv
<1>3. Goto(t, "unlink", IF i = 1 THEN "free_x" ELSE "prev") /\ num' = num
  BY DEF DeleteUnlink, fields
<1>4. pc[t] = "unlink" /\ pc'[t] = IF i = 1 THEN "free_x" ELSE "prev"
  BY <1>0, <1>3 DEF Goto
<1>5. loc[t].op = "delete"
  BY <1>4, OpFacts DEF DeleteOnly
<1>6. loc'[t].op = "delete"
  BY <1>0, <1>5 DEF DeleteUnlink, Locals
<1>7. Alone(t)
  BY <1>0, <1>3 DEF DeleteUnlink, Goto, Alone
<1>8. ~Adds(pc'[t], loc'[t]) /\ ~Adds(pc[t], loc[t]) /\ RestAt(pc'[t], loc'[t]) /\ ~Subs(pc[t])
  BY <1>4, <1>5, <1>6 DEF Adds, RestAt, Subs
<1>9. CASE i = 1
  <2>1. x \in On(next, 1) /\ On(next, 1)' = On(next, 1) \ {x}
    BY <1>2, <1>9 DEF GoesOff
  <2>2. t \notin Taking /\ Subs(pc'[t])
    BY <1>4, <1>8, <1>9 DEF Taking, Subs
  <2> QED
    BY <1>3, <1>7, <1>8, <2>1, <2>2, CountedStep
<1>10. CASE i # 1
  <2>1. On(next, 1)' = On(next, 1)
    BY <1>10, WordSteps
  <2>2. ~Subs(pc'[t])
    BY <1>4, <1>10 DEF Subs
  <2> QED
    BY <1>3, <1>7, <1>8, <2>1, <2>2, UncountedStep DEF Uncounted
<1> QED
  BY <1>9, <1>10
-----------------------------------------------------------------------------
(* What the calls have made of the list is what is linked. *)

(* After the list has been loaded no call is under way and num is the      *)
(* number of its nodes.                                                    *)
LEMMA CountAtStart ==
  ASSUME NEW s, NEW n, NEW h, NEW at, Begun(s, n, h, at)
  PROVE  CountInv
<1>1. /\ n \in Nat /\ num = n % NumMod /\ pc = [t \in Threads |-> "idle"]
      /\ loc = [t \in Threads |-> NoLocals]
  BY DEF Begun, StartRest, Placed
<1>2. \A t \in Threads :
        ~Adds(pc[t], loc[t]) /\ ~Subs(pc[t]) /\ RestAt(pc[t], loc[t])
  BY <1>1 DEF Adds, Subs, RestAt, NoLocals
<1>3. Adding = {} /\ Taking = {}
  BY <1>2 DEF Adding, Taking
<1>4. /\ at \in [1 .. n -> Items] /\ \A a, b \in 1 .. n : at[a] = at[b] => a = b
      /\ h \in [1 .. n -> Levels]
  BY DEF Begun, Placed
<1>5. On(next, 1) = {at[a] : a \in 1 .. n}
  <2>1. On(next, 1) = {at[a] : a \in High(1 .. n, h, 1)}
    BY BegunLine, LevelOne
  <2>2. \A a \in 1 .. n : h[a] >= 1
    BY <1>4, BoundAssumption DEF Levels
  <2>3. High(1 .. n, h, 1) = 1 .. n
    BY <2>2 DEF High
  <2> QED
    BY <2>1, <2>3
<1>6. at \in Bijection(1 .. n, On(next, 1))
  BY <1>4, <1>5 DEF Bijection, Injection, IsInjective, Surjection
<1>7. Size = n
  <2>1. ExistsBijection(1 .. n, On(next, 1))
    BY <1>6 DEF ExistsBijection
  <2>2. IsFiniteSet(1 .. n) /\ Cardinality(1 .. n) = n
    BY <1>1, FS_Interval
  <2> QED
    BY <2>1, <2>2, FS_Bijection DEF Size
<1>8. IsFiniteSet({}) /\ Cardinality({}) = 0
  BY FS_EmptySet
<1>9. n - 0 + 0 = n
  BY <1>1
<1> QED
  BY <1>1, <1>2, <1>3, <1>7, <1>8, <1>9 DEF CountInv, Counted

(* Every step of a call keeps the count.                                   *)
LEMMA StepCount ==
  ASSUME IInv, IInv', CountInv, NEW t \in Threads, Work(t) \/ Call(t)
  PROVE  CountInv'
<1>0. TypeOK
  BY LinesUsed
<1>1. CASE \/ FindNone(t) \/ InsertDup(t) \/ InsertFound(t) \/ GetFound(t) \/ Call(t) \/ Return(t)
           \/ InsertDupFree(t) \/ DeleteBusy(t) \/ DeleteMarker(t) \/ DeleteFree(t)
           \/ DeleteFreeMarker(t) \/ Inserted(t)
  BY <1>1, EndsCount
<1>2. CASE InsertNum(t) \/ DeleteNum(t)
  BY <1>2, NumCount
<1>3. CASE InsertLink(t) \/ DeleteUnlink(t)
  BY <1>3, LinkCount, UnlinkCount
<1>4. CASE \/ InsertEnter(t) \/ DeleteEnter(t) \/ GetEnter(t) \/ InsertCheck(t) \/ InsertRetry(t)
           \/ DeleteAgain(t) \/ DeletePrev(t) \/ DeleteRetry(t) \/ InsertSet(t) \/ DeleteMark(t)
           \/ DeleteFlag(t)
  <2>1. Middle(t)
    BY <1>0, <1>4, MiddleGoto
  <2>2. num' = num
    BY <1>4 DEF InsertEnter, DeleteEnter, GetEnter, EnterEpoch, InsertCheck, InsertRetry,
       DeleteAgain, DeletePrev, DeleteRetry, InsertSet, DeleteMark, DeleteFlag, listVars, fields
  <2>3. ~Linking(t)
    BY <1>4 DEF InsertEnter, DeleteEnter, GetEnter, EnterEpoch, InsertCheck, InsertRetry,
       DeleteAgain, DeletePrev, DeleteRetry, InsertSet, DeleteMark, DeleteFlag, Linking,
       InsertLink, DeleteUnlink, Goto
  <2> QED
    BY <1>4, <2>1, <2>2, <2>3, MiddleCount DEF Work
<1>5. CASE FindStart(t) \/ FindMove(t) \/ FindDown(t) \/ FindAgain(t) \/ FindEqual(t)
  <2>1. Middle(t)
    BY <1>5, MiddleFind
  <2>2. num' = num /\ ~Linking(t)
    BY <1>5 DEF FindStart, FindMove, FindDown, FindAgain, FindEqual, Ends, Stops, listVars,
       fields, Linking, InsertLink, DeleteUnlink, Goto
  <2> QED
    BY <1>5, <2>1, <2>2, MiddleCount DEF Work
<1>6. CASE Forward(t) \/ InsertNew(t)
  <2>1. Middle(t)
    BY <1>0, <1>6, MiddleRest
  <2>2. num' = num /\ ~Linking(t)
    BY <1>6 DEF Forward, InsertNew, NewNode, listVars, fields, Linking, InsertLink, DeleteUnlink,
       Goto
  <2> QED
    BY <1>6, <2>1, <2>2, MiddleCount DEF Work
<1> QED
  BY <1>1, <1>2, <1>3, <1>4, <1>5, <1>6 DEF Work

(* The steps of nobody keep it.                                            *)
LEMMA RestCount ==
  ASSUME IInv, IInv', CountInv, UNCHANGED vars \/ \E x \in Items : Reclaim(x)
  PROVE  CountInv'
<1>1. On(next, 1)' = On(next, 1)
  <2>1. CASE UNCHANGED vars
    BY <2>1, ListStays, LinesUsed, LinesUsedNext, LevelOne DEF vars, listVars
  <2>2. ASSUME NEW x \in Items, Reclaim(x) PROVE On(next, 1)' = On(next, 1)
    BY <2>2, ReclaimStill, FlatLow
  <2> QED
    BY <2>1, <2>2
<1>2. num' = num /\ pc' = pc /\ loc' = loc
  BY DEF vars, listVars, fields, Reclaim
<1>3. Adding' = Adding /\ Taking' = Taking /\ Size' = Size
  BY <1>1, <1>2 DEF Adding, Taking, Size
<1>4. \A t \in Threads : RestAt(pc[t], loc[t])'
  BY <1>2 DEF CountInv, RestAt
<1> QED
  BY <1>2, <1>3, <1>4 DEF CountInv, Counted

(* The records of the history are those of the lowest level and num counts *)
(* its nodes, but for the calls between their link or unlink and their     *)
(* count.                                                                  *)
LEMMA RecsAlways == Spec => [](Listed /\ CountInv)
<1>1. Init => Listed /\ CountInv
  <2>1. Init => Listed
    <3>1. ASSUME Init PROVE recs = RecsOf(next, info)
      BY <3>1 DEF Init, Loaded
    <3> QED
      BY <3>1, RecsAreRecs DEF Listed
  <2>2. Init => CountInv
    BY InitBegun, CountAtStart
  <2> QED
    BY <2>1, <2>2
<1>2. IInv /\ IInv' /\ Listed /\ CountInv /\ [Next]_vars => (Listed /\ CountInv)'
  <2> SUFFICES ASSUME IInv, IInv', Listed, CountInv, [Next]_vars PROVE Listed' /\ CountInv'
    OBVIOUS
  <2>1. CASE UNCHANGED vars \/ \E x \in Items : Reclaim(x)
    BY <2>1, ListedRest, RestCount
  <2>2. ASSUME NEW t \in Threads, Work(t) \/ Call(t) PROVE Listed' /\ CountInv'
    BY <2>2, ListedStep, StepCount
  <2> QED
    BY <2>1, <2>2 DEF Next
<1> QED
  BY <1>1, <1>2, InvAlways, PTL DEF Spec

(* ListIsRecs of AbSkiplist, for any threads, keys and heights: the lowest *)
(* level holds the records that the link, the last word of the links, the  *)
(* flag and the unlink of ab_skiplist_insert and ab_skiplist_delete have   *)
(* made, each in the state its flags say, and num differs from their       *)
(* number by the calls that have still to count.                           *)
THEOREM ListIsRecords == Spec => []ListIsRecs
<1>1. Listed /\ CountInv => ListIsRecs
  BY RecsAreRecs DEF ListIsRecs, Listed, CountInv, Counted, NumExact, Adding, Taking, Adds, Subs,
     Size
<1> QED
  BY <1>1, RecsAlways, PTL
-----------------------------------------------------------------------------
(* What a search that has come to a node can say of the lowest level. *)

\* n is in front of what a search for k and i looks for.
Low(n, k, i) ==
  \/ info[n].key < k
  \/ info[n].key = k /\ info[n].incr < i

\* The order of the nodes of a level.
NotAfter(a, b) ==
  \/ info[a].key < info[b].key
  \/ info[a].key = info[b].key /\ (info[a].incr <= info[b].incr \/ ~dupl)

\* A walk from z comes to a.
Ahead(z, a) ==
  \A S \in SUBSET Line(1) :
    z \in S /\ (\A m \in S : After(m, 1) \in S \cup {Null}) => a \in S

(* The order of the nodes is transitive.                                   *)
LEMMA NotAfterTrans ==
  ASSUME TypeOK, NEW a \in Nodes, NEW b \in Nodes, NEW c \in Nodes,
         NotAfter(a, b), NotAfter(b, c)
  PROVE  NotAfter(a, c)
<1>1. /\ info[a].key \in Nat /\ info[a].incr \in Nat /\ info[b].key \in Nat
      /\ info[b].incr \in Nat /\ info[c].key \in Nat /\ info[c].incr \in Nat
  BY InfoNums
<1> QED
  BY <1>1 DEF NotAfter

(* What is used of the lowest level: it is what a walk from the head comes *)
(* to, and neighbours are in order.                                        *)
LEMMA LineOrder ==
  ASSUME IInv, InOrder
  PROVE  /\ TypeOK /\ Least(Succ(1), On(next, 1)) /\ Line(1) \subseteq Nodes
         /\ Line(1) = On(next, 1) \cup {head} /\ On(next, 1) \subseteq Items
         /\ \A m \in Line(1) :
              /\ After(m, 1) \in On(next, 1) \cup {Null}
              /\ After(m, 1) # Null => NotAfter(m, After(m, 1))
<1>1. TypeOK
  BY LinesUsed
<1>2. /\ Least(Succ(1), On(next, 1)) /\ Line(1) \subseteq Nodes /\ On(next, 1) \subseteq Items
      /\ \A m \in Line(1) : After(m, 1) \in On(next, 1) \cup {Null}
  BY <1>1, LineFacts, LevelOne
<1>3. ASSUME NEW m \in Line(1), After(m, 1) # Null PROVE NotAfter(m, After(m, 1))
  <2> PICK y : y = After(m, 1)
    OBVIOUS
  <2>1. Before(m, y)
    BY <1>3, LevelOne DEF InOrder
  <2>2. m \in Nodes /\ y \in Nodes
    BY <1>2, <1>3 DEF Nodes
  <2>3. info[m].incr \in Nat /\ info[y].incr \in Nat
    BY <1>1, <2>2, InfoNums
  <2> QED
    BY <2>1, <2>3 DEF Before, NotAfter
<1> QED
  BY <1>1, <1>2, <1>3 DEF Line

(* What a walk comes to later is not in front.                             *)
LEMMA AheadOrder ==
  ASSUME IInv, InOrder, NEW z \in Line(1), NEW a \in Line(1), Ahead(z, a)
  PROVE  NotAfter(z, a)
<1> DEFINE S == {y \in Line(1) : NotAfter(z, y)}
<1>1. TypeOK /\ z \in Nodes /\ Line(1) \subseteq Nodes
  BY LineOrder
<1>2. z \in S
  <2>1. info[z].incr \in Nat
    BY <1>1, InfoNums
  <2> QED
    BY <2>1 DEF NotAfter
<1>3. ASSUME NEW m \in S PROVE After(m, 1) \in S \cup {Null}
  <2> PICK y : y = After(m, 1)
    OBVIOUS
  <2> SUFFICES ASSUME y # Null PROVE y \in S
    OBVIOUS
  <2>1. y \in Line(1) /\ NotAfter(m, y) /\ m \in Line(1)
    BY LineOrder
  <2>2. NotAfter(z, y)
    BY <1>1, <2>1, NotAfterTrans
  <2> QED
    BY <2>1, <2>2
<1> HIDE DEF S
<1>4. S \in SUBSET Line(1)
  BY DEF S
<1>5. a \in S
  BY <1>2, <1>3, <1>4 DEF Ahead
<1> QED
  BY <1>5 DEF S

(* Every node of the lowest level is either not behind a or not in front   *)
(* of the one that follows a.                                              *)
LEMMA LineBehind ==
  ASSUME IInv, InOrder, NEW a \in Line(1), NEW n, n = After(a, 1), NEW z \in On(next, 1)
  PROVE  NotAfter(z, a) \/ (n # Null /\ NotAfter(n, z))
<1> DEFINE T == {y \in On(next, 1) : Ahead(y, a) \/ (n # Null /\ NotAfter(n, y))}
<1>1. /\ TypeOK /\ Least(Succ(1), On(next, 1)) /\ Line(1) \subseteq Nodes
      /\ Line(1) = On(next, 1) \cup {head} /\ On(next, 1) \subseteq Items
      /\ \A m \in Line(1) :
           /\ After(m, 1) \in On(next, 1) \cup {Null}
           /\ After(m, 1) # Null => NotAfter(m, After(m, 1))
  BY LineOrder
<1>2. \A m \in Nodes : Succ(1)[m] = After(m, 1)
  BY DEF Succ
<1>3. Ahead(head, a)
  <2> SUFFICES ASSUME NEW S \in SUBSET Line(1), head \in S,
                      \A m \in S : After(m, 1) \in S \cup {Null}
               PROVE  a \in S
    BY DEF Ahead
  <2> DEFINE R == S \ {head}
  <2>1. \A m \in S : After(m, 1) # head
    BY <1>1, NodeAssumption
  <2>2. Shut(Succ(1), R)
    BY <1>1, <1>2, <2>1 DEF Shut, Nodes
  <2>3. R \in SUBSET Items
    BY <1>1
  <2>4. On(next, 1) \subseteq R
    BY <1>1, <2>2, <2>3 DEF Least
  <2> QED
    BY <1>1, <2>4
<1>4. n # Null => NotAfter(n, n)
  <2>1. n # Null => n \in Nodes
    BY <1>1
  <2>2. n # Null => info[n].incr \in Nat
    BY <1>1, <2>1, InfoNums
  <2> QED
    BY <2>2 DEF NotAfter
<1>5. ASSUME NEW m \in Line(1), Ahead(m, a), m # a, After(m, 1) # Null
      PROVE  Ahead(After(m, 1), a)
  <2> PICK y : y = After(m, 1)
    OBVIOUS
  <2> SUFFICES ASSUME NEW S \in SUBSET Line(1), y \in S,
                      \A j \in S : After(j, 1) \in S \cup {Null}
               PROVE  a \in S
    BY DEF Ahead
  <2>1. S \cup {m} \in SUBSET Line(1)
    OBVIOUS
  <2>2. \A j \in S \cup {m} : After(j, 1) \in (S \cup {m}) \cup {Null}
    OBVIOUS
  <2>3. a \in S \cup {m}
    BY <1>5, <2>1, <2>2 DEF Ahead
  <2> QED
    BY <1>5, <2>3
<1>6. ASSUME NEW m \in T \cup {head} PROVE After(m, 1) \in T \cup {Null}
  <2> PICK y : y = After(m, 1)
    OBVIOUS
  <2> SUFFICES ASSUME y # Null PROVE y \in T
    OBVIOUS
  <2>1. m \in Line(1) /\ y \in On(next, 1) /\ NotAfter(m, y)
    BY <1>1
  <2>2. CASE m = a
    BY <1>4, <2>1, <2>2
  <2>3. CASE Ahead(m, a) /\ m # a
    BY <1>5, <2>1, <2>3
  <2>4. CASE n # Null /\ NotAfter(n, m)
    <3>1. n \in Nodes /\ m \in Nodes /\ y \in Nodes
      BY <1>1, <2>1, <2>4
    <3>2. NotAfter(n, y)
      BY <1>1, <2>1, <2>4, <3>1, NotAfterTrans
    <3> QED
      BY <2>1, <2>4, <3>2
  <2> QED
    BY <1>3, <2>2, <2>3, <2>4
<1> HIDE DEF T
<1>7. T \in SUBSET Items
  BY <1>1 DEF T
<1>8. Shut(Succ(1), T)
  BY <1>2, <1>6, <1>7 DEF Shut, Nodes
<1>9. z \in T
  BY <1>1, <1>7, <1>8 DEF Least
<1>10. Ahead(z, a) => NotAfter(z, a)
  BY <1>1, AheadOrder
<1> QED
  BY <1>9, <1>10 DEF T
-----------------------------------------------------------------------------
(* What a search finds was right at some moment of the call. *)

\* Without duplicates no incr is used.
Plain0 ==
  ~dupl => /\ \A n \in Nodes : info[n].incr = 0
           /\ \A t \in Threads : /\ loc[t].incr = 0
                                 /\ \A v \in seen[t] : \A r \in v : r.incr = 0

\* What the list is like now is one of the things a call has seen.
SeenNow == \A t \in Threads : pc[t] # "idle" => View(recs, loc[t].key) \in seen[t]

\* y is the first record of the view v of the key k from i on, or is not of
\* this key and v has none.
Tells(v, k, i, y) ==
  LET of == {r \in v : r.incr >= i}
  IN  \/ of = {} /\ (y = Null \/ info[y].key # k)
      \/ /\ y # Null /\ info[y].key = k
         /\ \E r \in of : r.id = y /\ r.incr = info[y].incr /\ \A q \in of : r.incr <= q.incr

(* A search that stands in front of its target, with the next node of the  *)
(* lowest level at or behind it, knows what the list is like now.          *)
LEMMA AnswerNow ==
  ASSUME IInv, InOrder, Listed, Plain0, NEW t \in Threads,
         NEW k, NEW i, k = loc[t].key, i = loc[t].incr,
         NEW a \in Line(1), NEW n, n = After(a, 1), Low(a, k, i), n = Null \/ ~Low(n, k, i),
         NEW v, v = View(recs, k)
  PROVE  Tells(v, k, i, n)
<1>1. /\ TypeOK /\ Line(1) \subseteq Nodes /\ Line(1) = On(next, 1) \cup {head}
      /\ On(next, 1) \subseteq Items /\ n \in On(next, 1) \cup {Null}
  BY LineOrder
<1>2. k \in Nat /\ i \in Nat
  <2>1. k \in Keys \cup {0} /\ i \in Nat
    BY <1>1, LocalsTyped DEF Locals
  <2> QED
    BY <2>1, KeyAssumption
<1>3. ~dupl => i = 0 /\ \A m \in Nodes : info[m].incr = 0
  BY DEF Plain0
<1> DEFINE of == {r \in v : r.incr >= i}
<1>4. \A r \in of : \E z \in On(next, 1) :
        r = Rec(z) /\ r.id = z /\ info[z].key = k /\ r.incr = info[z].incr /\ info[z].incr >= i
  BY DEF Listed, View, Rec
<1>5. \A z \in On(next, 1) : info[z].key = k /\ info[z].incr >= i =>
        Rec(z) \in of /\ Rec(z).id = z /\ Rec(z).incr = info[z].incr
  BY DEF Listed, View, Rec
<1>6. ASSUME NEW z \in On(next, 1), info[z].key = k, info[z].incr >= i
      PROVE  n # Null /\ info[n].key = k /\ info[n].incr >= i /\ info[n].incr <= info[z].incr
  <2>1. z \in Nodes /\ a \in Nodes /\ (n # Null => n \in Nodes)
    BY <1>1 DEF Nodes
  <2>2. /\ info[a].key \in Nat /\ info[a].incr \in Nat /\ info[z].incr \in Nat
        /\ n # Null => info[n].key \in Nat /\ info[n].incr \in Nat
    BY <1>1, <2>1, InfoNums
  <2>3. ~NotAfter(z, a)
    BY <1>2, <1>3, <1>6, <2>1, <2>2 DEF NotAfter, Low
  <2>4. n # Null /\ NotAfter(n, z)
    BY <2>3, LineBehind
  <2> QED
    BY <1>2, <1>3, <1>6, <2>1, <2>2, <2>4 DEF NotAfter, Low
<1>7. CASE of = {}
  <2>1. n # Null /\ info[n].key = k => info[n].incr >= i
    <3>1. n # Null => info[n].incr \in Nat
      BY <1>1, InfoNums DEF Nodes
    <3> QED
      BY <1>2, <3>1 DEF Low
  <2>2. n = Null \/ info[n].key # k
    BY <1>1, <1>5, <1>7, <2>1
  <2> QED
    BY <1>7, <2>2 DEF Tells
<1>8. CASE of # {}
  <2>1. n # Null /\ info[n].key = k /\ info[n].incr >= i
    BY <1>4, <1>6, <1>8
  <2>2. Rec(n) \in of /\ Rec(n).id = n /\ Rec(n).incr = info[n].incr
    BY <1>1, <1>5, <2>1
  <2>3. \A q \in of : Rec(n).incr <= q.incr
    BY <1>4, <1>6, <2>2
  <2> QED
    BY <2>1, <2>2, <2>3 DEF Tells
<1> QED
  BY <1>7, <1>8

\* n has gone from the lowest level during the call of t: the call has seen it
\* going, and has seen what is behind it when that was the first from its
\* target on.
Going(t, n) ==
  \E v \in seen[t] : \E r \in v : r.id = n /\ r.st = "going" /\ r.incr = info[n].incr
Hind(may, t) ==
  \A n \in Nodes : <<n, 1>> \in may[t] /\ n \notin Line(1) =>
    /\ info[n].key = loc[t].key => Going(t, n)
    /\ Low(n, loc[t].key, loc[t].incr)
         /\ (After(n, 1) = Null \/ ~Low(After(n, 1), loc[t].key, loc[t].incr))
       => \E v \in seen[t] : Tells(v, loc[t].key, loc[t].incr, After(n, 1))

\* The call of t goes on.
CallOn(t) ==
  /\ loc'[t].op = loc[t].op /\ loc'[t].key = loc[t].key /\ loc'[t].incr = loc[t].incr
  /\ seen[t] \subseteq seen'[t]

(* What a view tells of a node stays while the node keeps its key.         *)
LEMMA TellsStays ==
  ASSUME NEW v, NEW k, NEW i, NEW y, Tells(v, k, i, y), y # Null => SameSort(y)
  PROVE  Tells(v, k, i, y)'
BY DEF Tells, SameSort

(* A step keeps what is known of the nodes that have left the lowest       *)
(* level: a node that goes is seen going, and what is behind it then is    *)
(* right at that moment.                                                   *)
LEMMA HindStep ==
  ASSUME NEW may, Inv(may), NEW g, Inv(g)', Follows(may, g), NEW t \in Threads, Hind(may, t),
         InOrder, Listed, Plain0, SeenNow, Steady, Flat \/ info' = info,
         t \in inside /\ t \in inside' => CallOn(t)
  PROVE  Hind(g, t)'
<1> PICK k, i : k = loc[t].key /\ i = loc[t].incr
  OBVIOUS
<1> SUFFICES ASSUME NEW n \in Nodes, <<n, 1>> \in g[t], n \notin Line(1)'
             PROVE  /\ info'[n].key = loc'[t].key => Going(t, n)'
                    /\ Low(n, loc[t].key, loc[t].incr)'
                         /\ (After(n, 1)' = Null \/ ~Low(After(n, 1), loc[t].key, loc[t].incr)')
                       => \E v \in seen'[t] : Tells(v, loc[t].key, loc[t].incr, After(n, 1))'
  BY DEF Hind
<1> PICK y : y = After(n, 1)
  OBVIOUS
<1>1. <<n, 1>> \in may[t] /\ After(n, 1)' = y
  BY LevelOne DEF Follows
<1>2. t \in inside /\ t \in inside'
  BY <1>1 DEF Inv, Ghost
<1>3. CallOn(t) /\ loc'[t].key = k /\ loc'[t].incr = i
  BY <1>2 DEF CallOn
<1>4. IInv /\ IInv' /\ TypeOK
  BY DEF IInv, Inv
<1>5. SameSort(n) /\ (y # Null => SameSort(y)) /\ (y # Null => y \in Items)
  <2>1. Safe(t, n) /\ (y # Null => <<y, 1>> \in may[t] /\ y \in Items)
    BY <1>1, LevelOne, MayFacts
  <2>2. y # Null => Safe(t, y) /\ y \in Nodes
    BY <2>1, LevelOne, MayFacts DEF Nodes
  <2>3. MayOK(g, t)'
    BY DEF Inv, Ghost
  <2>4. Safe(t, n)' /\ (y # Null => <<y, 1>> \in g[t])
    BY <1>1, <2>3, LevelOne DEF MayOK
  <2>5. y # Null => Safe(t, y)'
    BY <2>2, <2>3, <2>4, LevelOne DEF MayOK
  <2>6. Used(n) /\ Used(n)' /\ (y # Null => Used(y) /\ Used(y)')
    <3>1. \A m \in Nodes : Safe(t, m) => Used(m)
      BY DEF Safe, Used
    <3>2. \A m \in Nodes : Safe(t, m)' => Used(m)'
      BY DEF Safe, Used
    <3> QED
      BY <2>1, <2>2, <2>4, <2>5, <3>1, <3>2
  <2> QED
    BY <2>1, <2>2, <2>6 DEF Steady
<1>6. /\ Low(n, k, i)' <=> Low(n, k, i)
      /\ y # Null => (Low(y, k, i)' <=> Low(y, k, i))
  BY <1>5 DEF Low, SameSort
<1>7. info[n].key = k => Going(t, n)
  <2>1. CASE n \notin Line(1)
    BY <1>1, <2>1 DEF Hind
  <2>2. CASE n \in Line(1)
    <3>1. ~Flat
      BY <2>2, LevelOne DEF Flat, Line
    <3>2. info' = info
      BY <3>1
    <3>3. Gone(t, n, 1)'
      BY LevelOne DEF Inv, Ghost, MayOK
    <3>4. info[n].deleting
      BY <3>2, <3>3 DEF Gone
    <3>5. n \in On(next, 1)
      <4>1. head \in Line(1)'
        BY DEF Line
      <4> QED
        BY <2>2, <4>1 DEF Line
    <3>6. Rec(n) \in recs
      BY <3>5 DEF Listed
    <3>7. /\ Rec(n).id = n /\ Rec(n).st = "going" /\ Rec(n).incr = info[n].incr
          /\ Rec(n).key = info[n].key
      BY <3>4 DEF Rec
    <3>8. pc[t] # "idle"
      BY <1>2 DEF Inv, ThreadInv, ThreadOK, Local
    <3>9. View(recs, k) \in seen[t]
      BY <3>8 DEF SeenNow
    <3>10. info[n].key = k => Rec(n) \in View(recs, k)
      BY <3>6, <3>7 DEF View
    <3> QED
      BY <3>7, <3>9, <3>10 DEF Going
  <2> QED
    BY <2>1, <2>2
<1>8. ASSUME Low(n, k, i), y = Null \/ ~Low(y, k, i)
      PROVE  \E v \in seen[t] : Tells(v, k, i, y)
  <2>1. CASE n \notin Line(1)
    BY <1>1, <1>8, <2>1 DEF Hind
  <2>2. CASE n \in Line(1)
    <3>1. pc[t] # "idle"
      BY <1>2 DEF Inv, ThreadInv, ThreadOK, Local
    <3> PICK v : v = View(recs, k)
      OBVIOUS
    <3>2. v \in seen[t]
      BY <3>1 DEF SeenNow
    <3>3. Tells(v, k, i, y)
      BY <1>4, <1>8, <2>2, AnswerNow
    <3> QED
      BY <3>2, <3>3
  <2> QED
    BY <2>1, <2>2
<1>9. info'[n].key = k => Going(t, n)'
  <2> SUFFICES ASSUME info'[n].key = k PROVE Going(t, n)'
    OBVIOUS
  <2>1. Going(t, n) /\ info'[n].incr = info[n].incr
    BY <1>5, <1>7 DEF SameSort
  <2> QED
    BY <1>3, <2>1 DEF Going, CallOn
<1>10. ASSUME Low(n, k, i)', y = Null \/ ~Low(y, k, i)'
       PROVE  \E v \in seen'[t] : Tells(v, k, i, y)'
  <2>1. PICK v \in seen[t] : Tells(v, k, i, y)
    BY <1>6, <1>8, <1>10
  <2>2. Tells(v, k, i, y)'
    BY <1>5, <2>1, TellsStays
  <2> QED
    BY <1>3, <2>1, <2>2 DEF CallOn
<1>11. /\ Low(n, loc[t].key, loc[t].incr)' <=> Low(n, k, i)'
       /\ \A v : Tells(v, loc[t].key, loc[t].incr, After(n, 1))' <=> Tells(v, k, i, y)'
       /\ Low(After(n, 1), loc[t].key, loc[t].incr)' <=> Low(y, k, i)'
  BY <1>1, <1>3 DEF Low, Tells
<1> QED
  BY <1>1, <1>3, <1>9, <1>10, <1>11
-----------------------------------------------------------------------------
(* What a step makes of the call of its thread. *)

\* A call goes on, or waits, between its start and its effect.
Amid == {"new", "enter", "find_start", "find", "forward", "check", "set", "link",
         "inserted", "flag", "again", "prev", "mark", "unlink"}
\* The arguments stay, and the nodes of the call.
SameArgs(s, r) == s.op = r.op /\ s.key = r.key /\ s.incr = r.incr
SameNodes(s, r) == SameArgs(s, r) /\ s.x = r.x /\ s.m = r.m /\ s.i = r.i

(* Steps that go on inside a call without a change of its locals.          *)
LEMMA GotoCall ==
  ASSUME TypeOK, NEW t \in Threads,
         \/ InsertEnter(t) \/ DeleteEnter(t) \/ GetEnter(t) \/ InsertCheck(t) \/ InsertRetry(t)
         \/ DeleteAgain(t) \/ DeletePrev(t) \/ DeleteRetry(t) \/ InsertSet(t) \/ DeleteMark(t)
  PROVE  pc[t] \in Amid \ {"find"} /\ pc'[t] \in Amid \ {"find", "forward", "flag"} /\ loc' = loc
<1>1. PICK p, q : /\ Goto(t, p, q) /\ p \in Amid \ {"find"}
                  /\ q \in Amid \ {"find", "forward", "flag"}
  <2>1. \/ Goto(t, "enter", "find_start") \/ Goto(t, "check", "find_start")
        \/ Goto(t, "check", "set") \/ Goto(t, "link", "find_start") \/ Goto(t, "again", "enter")
        \/ Goto(t, "prev", "find_start") \/ Goto(t, "prev", "mark")
        \/ Goto(t, "unlink", "find_start") \/ Goto(t, "set", "link")
        \/ Goto(t, "mark", "unlink") \/ Goto(t, "mark", "find_start")
    BY DEF InsertEnter, DeleteEnter, GetEnter, EnterEpoch, InsertCheck, InsertRetry, DeleteAgain,
       DeletePrev, DeleteRetry, InsertSet, DeleteMark
  <2> QED
    BY <2>1 DEF Amid
<1>2. loc' = loc
  BY DEF InsertEnter, DeleteEnter, GetEnter, EnterEpoch, InsertCheck, InsertRetry, DeleteAgain,
     DeletePrev, DeleteRetry, InsertSet, DeleteMark
<1>3. pc[t] = p /\ pc'[t] = q
  BY <1>1, LocalsTyped DEF Goto
<1> QED
  BY <1>1, <1>2, <1>3

(* What a search notes when it goes down changes nothing of its call.      *)
LEMMA NotedCall ==
  ASSUME IInv, NEW t \in Threads, pc[t] = "find", NEW n \in Items \cup {Null},
         NEW r, r = Noted(t, n), n = Behind(next, loc[t].at, loc[t].lvl)
  PROVE  r \in Locals /\ SameNodes(r, loc[t]) /\ r.at = loc[t].at
<1>1. loc[t] \in Locals /\ loc[t].lvl \in Levels /\ loc[t].at \in Nodes
  BY SearchFacts
<1>2. r = NotedIn(loc[t], loc[t].lvl, loc[t].at, n)
  BY DEF Noted, NotedIn
<1> QED
  BY <1>1, <1>2, NotedFields DEF SameNodes, SameArgs

(* The steps of a search change nothing of the call.                       *)
LEMMA FindCall ==
  ASSUME IInv, NEW t \in Threads,
         \/ FindStart(t) \/ FindMove(t) \/ FindDown(t) \/ FindAgain(t) \/ FindEqual(t)
  PROVE  pc[t] \in Amid /\ pc'[t] \in Amid /\ SameNodes(loc'[t], loc[t])
<1>0. pc \in [Threads -> PCs] /\ loc \in [Threads -> Locals] /\ loc[t] \in Locals
  BY LinesUsed, LocalsTyped
<1>1. CASE FindStart(t)
  BY <1>0, <1>1 DEF FindStart, Goto, Amid, SameNodes, SameArgs, Locals
<1>2. CASE FindMove(t)
  BY <1>0, <1>2 DEF FindMove, Amid, SameNodes, SameArgs, Locals
<1>4. CASE FindDown(t)
  <2> PICK n \in Items \cup {Null} :
         /\ Stops(t, n) /\ pc' = pc
         /\ loc' = [loc EXCEPT ![t] = [Noted(t, n) EXCEPT !.lvl = @ - 1]]
    BY <1>4 DEF FindDown
  <2> PICK r : r = Noted(t, n)
    OBVIOUS
  <2>1. pc[t] = "find" /\ r \in Locals /\ SameNodes(r, loc[t])
    BY NotedCall DEF Stops
  <2>2. loc'[t] = [r EXCEPT !.lvl = @ - 1]
    BY <1>0
  <2>3. SameNodes(loc'[t], r)
    BY <2>1, <2>2 DEF Locals, SameNodes, SameArgs
  <2> QED
    BY <2>1, <2>3 DEF Amid, SameNodes, SameArgs
<1>5. CASE FindAgain(t) \/ FindEqual(t)
  <2> PICK n \in Items \cup {Null}, q \in {"find_start", "forward"} :
         Ends(t, n, q, Noted(t, n)) \/ Ends(t, n, q, [Noted(t, n) EXCEPT !.at = n])
    BY <1>5 DEF FindAgain, FindEqual
  <2> PICK s : Ends(t, n, q, s) /\ (s = Noted(t, n) \/ s = [Noted(t, n) EXCEPT !.at = n])
    OBVIOUS
  <2> PICK r : r = Noted(t, n)
    OBVIOUS
  <2>1. pc[t] = "find" /\ r \in Locals /\ SameNodes(r, loc[t])
    BY NotedCall DEF Ends, Stops
  <2>2. loc'[t] = s /\ pc'[t] = q
    BY LinesUsed, EndsFacts
  <2>3. SameNodes(s, r)
    BY <2>1 DEF Locals, SameNodes, SameArgs
  <2> QED
    BY <2>1, <2>2, <2>3 DEF Amid, SameNodes, SameArgs
<1> QED
  BY <1>1, <1>2, <1>4, <1>5

(* The steps that end a search without a node to link or to delete.        *)
LEMMA EndCall ==
  ASSUME IInv, NEW t \in Threads, InsertDup(t) \/ FindNone(t) \/ GetFound(t)
  PROVE  /\ pc[t] = "find" /\ pc'[t] \in {"dup_free", "leave"}
         /\ SameArgs(loc'[t], loc[t]) /\ loc'[t].m = Null /\ loc'[t].i = 0
<1>0. pc \in [Threads -> PCs] /\ loc \in [Threads -> Locals] /\ loc[t] \in Locals
  BY LinesUsed, LocalsTyped
<1>1. ASSUME NEW n, NEW q \in {"dup_free", "leave"}, NEW y, NEW s, Ends(t, n, q, s),
             s = Bare(t) \/ s = [Bare(t) EXCEPT !.x = y]
      PROVE  /\ pc[t] = "find" /\ pc'[t] \in {"dup_free", "leave"}
             /\ SameArgs(loc'[t], loc[t]) /\ loc'[t].m = Null /\ loc'[t].i = 0
  <2> PICK r : r = Bare(t)
    OBVIOUS
  <2>1. r \in Locals /\ SameArgs(r, loc[t]) /\ r.m = Null /\ r.i = 0
    BY <1>0, BareFields DEF SameArgs
  <2>2. s = r \/ s = [r EXCEPT !.x = y]
    BY <1>1
  <2>3. SameArgs(s, loc[t]) /\ s.m = Null /\ s.i = 0
    BY <2>1, <2>2 DEF SameArgs, Locals
  <2>4. loc'[t] = s /\ pc'[t] = q
    BY <1>1, LinesUsed, EndsFacts
  <2>5. pc[t] = "find"
    BY <1>1 DEF Ends, Stops
  <2> QED
    BY <2>3, <2>4, <2>5
<1>2. CASE InsertDup(t)
  <2> PICK n : Ends(t, n, "dup_free", [Bare(t) EXCEPT !.x = loc[t].x])
    BY <1>2 DEF InsertDup
  <2> QED
    BY <1>1
<1>3. CASE FindNone(t)
  <2> PICK n : Ends(t, n, "leave", Bare(t))
    BY <1>3 DEF FindNone
  <2> QED
    BY <1>1
<1>4. CASE GetFound(t)
  <2> PICK n : Ends(t, n, "leave", [Bare(t) EXCEPT !.x = IF SameKey(t, n) THEN n ELSE Null])
    BY <1>4 DEF GetFound
  <2> PICK y : y = IF SameKey(t, n) THEN n ELSE Null
    OBVIOUS
  <2>1. Ends(t, n, "leave", [Bare(t) EXCEPT !.x = y])
    OBVIOUS
  <2> QED
    BY <1>1, <2>1
<1> QED
  BY <1>2, <1>3, <1>4

(* An insert that has found its place starts at the lowest level.          *)
LEMMA FoundCall ==
  ASSUME IInv, NEW t \in Threads, InsertFound(t)
  PROVE  /\ pc[t] = "find" /\ pc'[t] = "check"
         /\ SameArgs(loc'[t], loc[t]) /\ loc'[t].x = loc[t].x /\ loc'[t].m = loc[t].m
         /\ loc'[t].i = IF loc[t].i = 0 THEN 1 ELSE loc[t].i
<1> PICK n \in Items \cup {Null} :
       Ends(t, n, "check", [Noted(t, n) EXCEPT !.at = Null, !.lvl = 0,
                                               !.i = IF @ = 0 THEN 1 ELSE @])
  BY DEF InsertFound
<1> PICK r : r = Noted(t, n)
  OBVIOUS
<1>1. pc[t] = "find" /\ n = Behind(next, loc[t].at, loc[t].lvl)
  BY DEF Ends, Stops
<1>2. r \in Locals /\ SameNodes(r, loc[t])
  BY <1>1, NotedCall
<1> PICK s : s = [r EXCEPT !.at = Null, !.lvl = 0, !.i = IF @ = 0 THEN 1 ELSE @]
  OBVIOUS
<1>3. SameArgs(s, r) /\ s.x = r.x /\ s.m = r.m /\ s.i = IF r.i = 0 THEN 1 ELSE r.i
  BY <1>2 DEF Locals, SameArgs
<1>4. pc'[t] = "check" /\ loc'[t] = s
  BY LinesUsed, EndsFacts
<1> QED
  BY <1>1, <1>2, <1>3, <1>4 DEF SameNodes, SameArgs

(* The other steps keep the arguments too.                                 *)
LEMMA NodeCall ==
  ASSUME IInv, NEW t \in Threads,
         \/ InsertNew(t) \/ InsertDupFree(t) \/ InsertLink(t) \/ Inserted(t) \/ InsertNum(t)
         \/ DeleteFlag(t) \/ DeleteBusy(t) \/ DeleteMarker(t) \/ DeleteUnlink(t) \/ DeleteFree(t)
         \/ DeleteFreeMarker(t) \/ DeleteNum(t) \/ Forward(t)
  PROVE  SameArgs(loc'[t], loc[t]) /\ pc[t] # "idle" /\ pc'[t] # "idle"
         /\ pc'[t] # "find" /\ pc[t] # "find"
<1>0. pc \in [Threads -> PCs] /\ loc \in [Threads -> Locals] /\ loc[t] \in Locals
  BY LinesUsed, LocalsTyped
<1>1. PICK p, q : Goto(t, p, q) /\ p # "idle" /\ q # "idle" /\ q # "find" /\ p # "find"
  <2>1. \/ Goto(t, "new", "enter") \/ Goto(t, "dup_free", "leave") \/ Goto(t, "link", "inserted")
        \/ Goto(t, "link", "check") \/ Goto(t, "inserted", "num_add") \/ Goto(t, "num_add", "leave")
        \/ Goto(t, "flag", "marker") \/ Goto(t, "flag", "again") \/ Goto(t, "flag", "leave")
        \/ Goto(t, "marker", "prev") \/ Goto(t, "unlink", "free_x") \/ Goto(t, "unlink", "prev")
        \/ Goto(t, "free_x", "free_m") \/ Goto(t, "free_m", "num_sub")
        \/ Goto(t, "num_sub", "leave") \/ Goto(t, "forward", "forward")
        \/ Goto(t, "forward", "flag") \/ Goto(t, "forward", "prev")
    BY DEF InsertNew, InsertDupFree, InsertLink, Inserted, InsertNum, DeleteFlag, DeleteBusy,
       DeleteMarker, DeleteUnlink, DeleteFree, DeleteFreeMarker, DeleteNum, Forward
  <2> QED
    BY <2>1
<1>2. pc[t] = p /\ pc'[t] = q
  BY <1>0, <1>1 DEF Goto
<1>3. SameArgs(loc'[t], loc[t])
  <2>1. CASE DeleteBusy(t)
    BY <1>0, <2>1, BareFields DEF DeleteBusy, SameArgs
  <2>2. CASE InsertNew(t) \/ InsertDupFree(t)
    BY <1>0, <2>2 DEF InsertNew, InsertDupFree, SameArgs, Locals
  <2>5. CASE InsertLink(t)
    BY <1>0, <2>5 DEF InsertLink, SameArgs, Locals
  <2>6. CASE Inserted(t)
    BY <1>0, <2>6 DEF Inserted, SameArgs, Locals
  <2>7. CASE Forward(t)
    BY <1>0, <2>7 DEF Forward, SameArgs, Locals
  <2>3. CASE \/ DeleteMarker(t) \/ DeleteUnlink(t) \/ DeleteFree(t)
    BY <1>0, <2>3 DEF DeleteMarker, DeleteUnlink, DeleteFree, SameArgs, Locals
  <2>4. CASE InsertNum(t) \/ DeleteFlag(t) \/ DeleteFreeMarker(t) \/ DeleteNum(t)
    BY <2>4 DEF InsertNum, DeleteFlag, DeleteFreeMarker, DeleteNum, SameArgs
  <2> QED
    BY <2>1, <2>2, <2>3, <2>4, <2>5, <2>6, <2>7
<1> QED
  BY <1>1, <1>2, <1>3

(* Every step of a call but the last keeps its arguments.                  *)
LEMMA WorkCall ==
  ASSUME IInv, NEW t \in Threads, Work(t), ~Return(t)
  PROVE  SameArgs(loc'[t], loc[t]) /\ pc[t] # "idle" /\ pc'[t] # "idle"
<1>1. CASE \/ InsertEnter(t) \/ DeleteEnter(t) \/ GetEnter(t) \/ InsertCheck(t) \/ InsertRetry(t)
           \/ DeleteAgain(t) \/ DeletePrev(t) \/ DeleteRetry(t) \/ InsertSet(t) \/ DeleteMark(t)
  BY <1>1, LinesUsed, GotoCall DEF Amid, SameArgs
<1>2. CASE \/ FindStart(t) \/ FindMove(t) \/ FindDown(t) \/ FindAgain(t) \/ FindEqual(t)
  BY <1>2, FindCall DEF Amid, SameNodes
<1>3. CASE InsertDup(t) \/ FindNone(t) \/ GetFound(t)
  BY <1>3, EndCall
<1>4. CASE InsertFound(t)
  BY <1>4, FoundCall
<1>5. CASE \/ InsertNew(t) \/ InsertDupFree(t) \/ InsertLink(t) \/ Inserted(t) \/ InsertNum(t)
           \/ DeleteFlag(t) \/ DeleteBusy(t) \/ DeleteMarker(t) \/ DeleteUnlink(t) \/ DeleteFree(t)
           \/ DeleteFreeMarker(t) \/ DeleteNum(t) \/ Forward(t)
  BY <1>5, NodeCall
<1> QED
  BY <1>1, <1>2, <1>3, <1>4, <1>5 DEF Work
-----------------------------------------------------------------------------
(* What the steps do to the keys and to what the calls have seen. *)

(* Nodes that are in use keep their key and incr over every step.          *)
LEMMA InfoSteps ==
  ASSUME IInv, IInv', [Next]_vars
  PROVE  /\ dupl' = dupl /\ Steady
         /\ \A n \in Nodes : SameSort(n) \/ (~dupl => info'[n].incr = 0)
<1>0. TypeOK /\ TypeOK'
  BY LinesUsed, LinesUsedNext
<1>1. \A n \in Nodes : info' = info => SameSort(n)
  BY DEF SameSort
<1> DEFINE Sound == /\ dupl' = dupl
                    /\ \A n \in Nodes : \/ SameSort(n)
                                        \/ /\ ~Used(n) \/ ~Used(n)'
                                           /\ ~dupl => info'[n].incr = 0
<1>2. ASSUME NEW t \in Threads, Work(t) \/ Call(t) PROVE Sound
  <2>1. CASE Hidden(t) \/ Call(t) \/ Return(t)
    <3>1. Kept
      BY <1>0, <2>1, HiddenKept, AsideCall, AsidePool DEF Aside
    <3> QED
      BY <1>1, <3>1 DEF Kept
  <2>2. CASE InsertSet(t) \/ DeleteMark(t) \/ Linking(t)
    <3>1. dupl' = dupl /\ info' = info
      BY <2>2 DEF InsertSet, DeleteMark, Linking, InsertLink, DeleteUnlink, fields
    <3> QED
      BY <1>1, <3>1
  <2>3. CASE Inserted(t) \/ DeleteFlag(t)
    <3>1. dupl' = dupl
      BY <2>3 DEF Inserted, DeleteFlag, fields
    <3>2. info \in [Nodes -> [key : Keys \cup {0}, incr : Nat, lvl : 0 .. MaxHeight,
                              marker : BOOLEAN, deleting : BOOLEAN, inserting : BOOLEAN]]
      BY <1>0 DEF TypeOK
    <3> PICK x : x = loc[t].x
      OBVIOUS
    <3>3. \/ info' = [info EXCEPT ![x].inserting = FALSE]
          \/ info' = [info EXCEPT ![x].deleting = TRUE]
      BY <2>3 DEF Inserted, DeleteFlag
    <3>4. \A n \in Nodes : SameSort(n)
      BY <3>2, <3>3 DEF SameSort
    <3> QED
      BY <3>1, <3>4
  <2>4. CASE InsertNew(t) \/ DeleteMarker(t)
    <3>1. PICK x, w : NewNode(x, w) /\ w.incr = 0 /\ DOMAIN w = DOMAIN NoInfo
      <4>1. \A k, l : /\ [NoInfo EXCEPT !.key = k, !.lvl = l, !.inserting = TRUE].incr = 0
                      /\ DOMAIN [NoInfo EXCEPT !.key = k, !.lvl = l, !.inserting = TRUE]
                           = DOMAIN NoInfo
                      /\ [NoInfo EXCEPT !.lvl = l, !.marker = TRUE].incr = 0
                      /\ DOMAIN [NoInfo EXCEPT !.lvl = l, !.marker = TRUE] = DOMAIN NoInfo
        BY DEF NoInfo
      <4>2. CASE InsertNew(t)
        <5> PICK x, k, l : NewNode(x, [NoInfo EXCEPT !.key = k, !.lvl = l, !.inserting = TRUE])
          BY <4>2 DEF InsertNew
        <5> QED
          BY <4>1
      <4>3. CASE DeleteMarker(t)
        <5> PICK x, l : NewNode(x, [NoInfo EXCEPT !.lvl = l, !.marker = TRUE])
          BY <4>3 DEF DeleteMarker
        <5> QED
          BY <4>1
      <4> QED
        BY <2>4, <4>2, <4>3
    <3>2. DOMAIN info = Nodes
      BY <1>0 DEF TypeOK
    <3>3. /\ x \in Items /\ state[x] = "free" /\ \A n \in Nodes : n # x => info'[n] = info[n]
          /\ info'[x] = [w EXCEPT !.incr = IF dupl THEN incr_key ELSE 0] /\ dupl' = dupl
      BY <3>1, <3>2 DEF NewNode, Pool!Publish, Nodes
    <3>4. ~Used(x)
      BY <3>3, NodeAssumption DEF Used
    <3>5. ~dupl => info'[x].incr = 0
      <4>1. "incr" \in DOMAIN w
        BY <3>1 DEF NoInfo
      <4>2. info'[x].incr = IF dupl THEN incr_key ELSE 0
        BY <3>3, <4>1
      <4> QED
        BY <4>2
    <3>6. \A n \in Nodes : n # x => SameSort(n)
      BY <3>3 DEF SameSort
    <3> QED
      BY <3>3, <3>4, <3>5, <3>6
  <2> QED
    BY <1>2, <2>1, <2>2, <2>3, <2>4 DEF Work, Hidden, Linking
<1>3. ASSUME NEW x \in Items, Reclaim(x) PROVE Sound
  <2>1. DOMAIN info = Nodes /\ DOMAIN state = Items
    BY <1>0 DEF TypeOK
  <2>2. /\ state'[x] = "free" /\ \A n \in Nodes : n # x => info'[n] = info[n]
        /\ info'[x] = NoInfo /\ dupl' = dupl
    BY <1>3, <2>1 DEF Reclaim, Pool!Reclaim, Nodes, fields
  <2>3. ~Used(x)' /\ info'[x].incr = 0
    BY <2>2, NodeAssumption DEF Used, NoInfo
  <2>4. \A n \in Nodes : n # x => SameSort(n)
    BY <2>2 DEF SameSort
  <2> QED
    BY <2>2, <2>3, <2>4
<1>4. ASSUME UNCHANGED vars PROVE Sound
  <2>1. info' = info /\ dupl' = dupl
    BY <1>4 DEF vars, listVars, fields
  <2> QED
    BY <1>1, <2>1
<1> HIDE DEF Sound
<1>5. Sound
  BY <1>2, <1>3, <1>4 DEF Next
<1>6. Steady
  BY <1>5 DEF Steady, Sound
<1> QED
  BY <1>5, <1>6 DEF Sound

\* A call that is running has seen what it saw and sees what the list is like.
Watches(u) ==
  /\ seen'[u] \subseteq seen[u] \cup {View(recs', loc[u].key)}
  /\ pc[u] # "idle" => seen[u] \subseteq seen'[u] /\ View(recs', loc[u].key) \in seen'[u]

(* After a step of a call every call has seen what the list is like now.   *)
LEMMA WorkSeen ==
  ASSUME IInv, SeenNow, NEW t \in Threads, Work(t), ~Return(t), NEW u \in Threads
  PROVE  Watches(u)
<1>1. ASSUME UNCHANGED hist PROVE Watches(u)
  BY <1>1 DEF hist, Watches, SeenNow
<1>2. ASSUME NEW nx, NEW nf, See(nx, nf) PROVE Watches(u)
  BY <1>2 DEF See, Watches
<1>3. CASE Hidden(t)
  BY <1>1, <1>3, LinesUsed, HiddenKept
<1>4. CASE InsertNew(t) \/ DeleteMarker(t) \/ InsertSet(t) \/ DeleteMark(t)
  BY <1>1, <1>4, NodeSteps
<1>5. CASE Inserted(t) \/ DeleteFlag(t)
  <2>1. See(next, info')
    BY <1>5 DEF Inserted, DeleteFlag
  <2> QED
    BY <1>2, <2>1
<1>6. CASE InsertLink(t) \/ DeleteUnlink(t)
  <2>1. See(next', info) \/ UNCHANGED hist
    BY <1>6, WordSteps
  <2> QED
    BY <1>1, <1>2, <2>1
<1> QED
  BY <1>3, <1>4, <1>5, <1>6 DEF Work, Hidden

(* A call that begins has seen the list as it is.                          *)
LEMMA CallSeen ==
  ASSUME IInv, NEW t \in Threads, Call(t)
  PROVE  /\ pc[t] = "idle" /\ pc'[t] \in {"new", "enter"} /\ recs' = recs
         /\ loc'[t].op \in Ops /\ loc'[t].key \in Keys
         /\ loc'[t].incr \in (IF dupl THEN Incrs ELSE {0})
         /\ loc'[t].i = 0 /\ loc'[t].x = Null /\ loc'[t].m = Null
         /\ seen' = [seen EXCEPT ![t] = {View(recs, loc'[t].key)}]
<1>0. pc \in [Threads -> PCs] /\ loc \in [Threads -> Locals]
  BY LinesUsed, LocalsTyped
<1>1. PICK q, r : /\ Start(t, r, q) /\ q \in {"new", "enter"} /\ r.key \in Keys
                  /\ r.incr \in (IF dupl THEN Incrs ELSE {0})
                  /\ r.i = 0 /\ r.x = Null /\ r.m = Null
  <2>1. ASSUME NEW k \in Keys, NEW h \in Levels, NEW r,
               r = [NoLocals EXCEPT !.op = "insert", !.key = k, !.lvl = h]
        PROVE  r.key \in Keys /\ r.incr = 0 /\ r.i = 0 /\ r.x = Null /\ r.m = Null
    BY <2>1 DEF NoLocals
  <2>3. CASE Insert(t)
    <3> PICK k \in Keys, h \in Levels :
           Start(t, [NoLocals EXCEPT !.op = "insert", !.key = k, !.lvl = h], "new")
      BY <2>3 DEF Insert
    <3> PICK r : r = [NoLocals EXCEPT !.op = "insert", !.key = k, !.lvl = h]
      OBVIOUS
    <3>1. Start(t, r, "new")
      OBVIOUS
    <3>2. r.key \in Keys /\ r.incr = 0 /\ r.i = 0 /\ r.x = Null /\ r.m = Null
      BY <2>1
    <3>3. r.incr \in (IF dupl THEN Incrs ELSE {0})
      BY <3>2, IncrAssumption
    <3> QED
      BY <3>1, <3>2, <3>3
  <2>4. CASE Delete(t) \/ Get(t)
    <3>1. PICK k \in Keys, i \in IF dupl THEN Incrs ELSE {0} :
             \/ Start(t, [NoLocals EXCEPT !.op = "delete", !.key = k, !.incr = i], "enter")
             \/ Start(t, [NoLocals EXCEPT !.op = "get", !.key = k, !.incr = i], "enter")
      BY <2>4 DEF Delete, Get
    <3>2. PICK r : /\ Start(t, r, "enter")
                   /\ \/ r = [NoLocals EXCEPT !.op = "delete", !.key = k, !.incr = i]
                      \/ r = [NoLocals EXCEPT !.op = "get", !.key = k, !.incr = i]
      BY <3>1
    <3>3. k \in Keys
      OBVIOUS
    <3>4. r.key \in Keys /\ r.incr = i /\ r.i = 0 /\ r.x = Null /\ r.m = Null
      <4>1. CASE r = [NoLocals EXCEPT !.op = "delete", !.key = k, !.incr = i]
        BY <3>3, <4>1 DEF NoLocals
      <4>2. CASE r = [NoLocals EXCEPT !.op = "get", !.key = k, !.incr = i]
        BY <3>3, <4>2 DEF NoLocals
      <4> QED
        BY <3>2, <4>1, <4>2
    <3>5. r.incr \in (IF dupl THEN Incrs ELSE {0})
      BY <3>4
    <3> QED
      BY <3>2, <3>4, <3>5
  <2> QED
    BY <2>3, <2>4 DEF Call
<1>2. pc[t] = "idle" /\ pc'[t] = q /\ loc'[t] = r /\ r.op \in Ops
  BY <1>0, <1>1 DEF Start, Goto
<1>3. recs' = recs /\ seen' = [seen EXCEPT ![t] = {View(recs, r.key)}]
  BY <1>1 DEF Start
<1> QED
  BY <1>1, <1>2, <1>3

(* A call that returns forgets what it has seen.                           *)
LEMMA ReturnSeen ==
  ASSUME IInv, NEW t \in Threads, Return(t)
  PROVE  /\ pc[t] = "leave" /\ pc'[t] = "idle" /\ loc'[t] = NoLocals /\ recs' = recs
         /\ seen' = [seen EXCEPT ![t] = {}] /\ t \notin inside'
<1>0. pc \in [Threads -> PCs] /\ loc \in [Threads -> Locals]
  BY LinesUsed, LocalsTyped
<1> QED
  BY <1>0 DEF Return, Leave, Goto, Pool!Leave

(* The calls of the other threads keep what they have seen.                *)
LEMMA StepSeen ==
  ASSUME IInv, IInv', SeenNow, NEW t \in Threads, Work(t) \/ Call(t)
  PROVE  /\ Alone(t)
         /\ \A u \in Threads : u # t => Watches(u)
<1>1. Alone(t)
  <2>1. CASE ~Linking(t)
    BY <2>1, FlatSteps
  <2>2. CASE Linking(t)
    <3>1. pc \in [Threads -> PCs] /\ loc \in [Threads -> Locals]
      BY LinesUsed, LocalsTyped
    <3> QED
      BY <2>2, <3>1 DEF Linking, InsertLink, DeleteUnlink, Goto, Alone
  <2> QED
    BY <2>1, <2>2
<1>2. CASE Work(t) /\ ~Return(t)
  BY <1>1, <1>2, WorkSeen
<1>3. CASE Call(t) \/ Return(t)
  <2>1. DOMAIN seen = Threads
    BY LinesUsed DEF TypeOK
  <2>2. recs' = recs /\ \A u \in Threads : u # t => seen'[u] = seen[u]
    BY <1>3, <2>1, CallSeen, ReturnSeen
  <2> QED
    BY <1>1, <2>2 DEF Watches, SeenNow
<1> QED
  BY <1>2, <1>3
-----------------------------------------------------------------------------
(* What the calls have seen goes with the list. *)

\* The call of u has seen the keys of a list without duplicates, and sees what
\* the list is like now.
PlainOf(u) ==
  ~dupl => /\ loc[u].incr = 0
           /\ \A v \in seen[u] : \A r \in v : r.incr = 0
NowOf(u) == pc[u] # "idle" => View(recs, loc[u].key) \in seen[u]

(* The steps of nobody touch no call.                                      *)
LEMMA NobodySeen ==
  ASSUME UNCHANGED vars \/ \E x \in Items : Reclaim(x)
  PROVE  UNCHANGED <<pc, loc, hist>>
BY DEF vars, Reclaim

(* The two facts stay: no incr is used without duplicates, and every call  *)
(* has seen the list as it is.                                             *)
LEMMA PlainStep ==
  ASSUME IInv, IInv', Listed', Plain0, SeenNow, [Next]_vars
  PROVE  Plain0' /\ SeenNow'
<1>1. dupl' = dupl /\ (~dupl => \A n \in Nodes : info'[n].incr = 0)
  BY InfoSteps DEF Plain0, SameSort
<1>2. ~dupl => \A r \in recs' : r.incr = 0
  <2>1. TypeOK'
    BY LinesUsedNext
  <2>2. On(next, 1)' \subseteq Nodes
    BY <2>1, LineFactsNext, LevelOne DEF Nodes
  <2>3. \A r \in recs' : \E x \in On(next, 1)' : r.incr = info'[x].incr
    BY DEF Listed, Rec
  <2> QED
    BY <1>1, <2>2, <2>3
<1>3. ASSUME NEW u \in Threads, Watches(u), pc'[u] # "idle" => pc[u] # "idle",
             loc'[u].incr = loc[u].incr, loc'[u].key = loc[u].key
      PROVE  PlainOf(u)' /\ NowOf(u)'
  <2>1. NowOf(u)'
    BY <1>3 DEF Watches, NowOf
  <2>2. PlainOf(u)'
    <3> SUFFICES ASSUME ~dupl, NEW v \in seen'[u], NEW r \in v PROVE r.incr = 0
      BY <1>1, <1>3 DEF PlainOf, Plain0
    <3>1. v \in seen[u] \/ v \subseteq recs'
      BY <1>3 DEF Watches, View
    <3> QED
      BY <1>2, <3>1 DEF Plain0
  <2> QED
    BY <2>1, <2>2
<1>4. ASSUME NEW t \in Threads, Call(t) \/ Return(t) PROVE PlainOf(t)' /\ NowOf(t)'
  <2>0. DOMAIN seen = Threads
    BY LinesUsed DEF TypeOK
  <2>1. CASE Return(t)
    <3>1. pc'[t] = "idle" /\ loc'[t] = NoLocals /\ seen'[t] = {}
      BY <2>0, <2>1, ReturnSeen
    <3> QED
      BY <3>1 DEF PlainOf, NowOf, NoLocals
  <2>2. CASE Call(t)
    <3> PICK k : k = loc'[t].key
      OBVIOUS
    <3>1. /\ recs' = recs /\ seen'[t] = {View(recs, k)}
          /\ loc'[t].incr \in (IF dupl THEN Incrs ELSE {0})
      BY <2>0, <2>2, CallSeen
    <3>2. NowOf(t)'
      BY <3>1 DEF NowOf
    <3>3. PlainOf(t)'
      BY <1>1, <1>2, <3>1 DEF PlainOf, View
    <3> QED
      BY <3>2, <3>3
  <2> QED
    BY <1>4, <2>1, <2>2
<1>5. ASSUME NEW u \in Threads PROVE PlainOf(u)' /\ NowOf(u)'
  <2>1. ASSUME NEW t \in Threads, Work(t) \/ Call(t) PROVE PlainOf(u)' /\ NowOf(u)'
    <3>1. CASE u # t
      <4>1. Watches(u) /\ pc'[u] = pc[u] /\ loc'[u] = loc[u]
        BY <2>1, <3>1, StepSeen DEF Alone
      <4> QED
        BY <1>3, <4>1
    <3>2. CASE u = t /\ (Call(t) \/ Return(t))
      BY <1>4, <3>2
    <3>3. CASE u = t /\ Work(t) /\ ~Return(t)
      <4>1. Watches(u) /\ SameArgs(loc'[t], loc[t]) /\ pc[t] # "idle"
        BY <3>3, WorkSeen, WorkCall
      <4> QED
        BY <1>3, <3>3, <4>1 DEF SameArgs
    <3> QED
      BY <2>1, <3>1, <3>2, <3>3
  <2>2. CASE UNCHANGED vars \/ \E x \in Items : Reclaim(x)
    <3>1. UNCHANGED <<pc, loc, hist>>
      BY <2>2, NobodySeen
    <3>2. Watches(u)
      BY <3>1 DEF hist, Watches, SeenNow
    <3> QED
      BY <1>3, <3>1, <3>2
  <2> QED
    BY <2>1, <2>2 DEF Next
<1>6. SeenNow'
  BY <1>5 DEF SeenNow, NowOf
<1>7. Plain0'
  BY <1>1, <1>5 DEF Plain0, PlainOf
<1> QED
  BY <1>6, <1>7

(* They hold after the load.                                               *)
LEMMA PlainAtStart ==
  ASSUME NEW s, NEW n, NEW h, NEW at, Begun(s, n, h, at)
  PROVE  Plain0 /\ SeenNow
<1>1. /\ pc = [t \in Threads |-> "idle"] /\ loc = [t \in Threads |-> NoLocals]
      /\ seen = [t \in Threads |-> {}] /\ dupl = s.dupl
  BY DEF Begun, StartRest
<1>2. NodeAtStart(s, n, h, at)
  BY BegunFacts
<1>3. ASSUME ~dupl, NEW x \in Nodes PROVE info[x].incr = 0
  <2>1. CASE x = head
    BY <1>2, <2>1 DEF NodeAtStart, NoInfo
  <2>2. ASSUME NEW a \in 1 .. n, x = at[a] PROVE info[x].incr = 0
    BY <1>1, <1>2, <1>3, <2>2, FreshFields DEF NodeAtStart
  <2>3. CASE x \in Items /\ \A a \in 1 .. n : x # at[a]
    BY <1>2, <2>3 DEF NodeAtStart, NoInfo
  <2> QED
    BY <2>1, <2>2, <2>3 DEF Nodes
<1>4. SeenNow
  BY <1>1 DEF SeenNow
<1>5. Plain0
  BY <1>1, <1>3 DEF Plain0, NoLocals
<1> QED
  BY <1>4, <1>5

(* Every step keeps the main invariant together with what is known of the  *)
(* nodes behind a delete's marker, with the same sets of nodes.            *)
LEMMA NextHind ==
  ASSUME NEW may, Inv(may), \A u \in Threads : Hind(may, u), SortInv, Listed, Plain0, SeenNow,
         [Next]_vars
  PROVE  \E g : /\ Inv(g)' /\ Follows(may, g)
                /\ \A u \in Threads : Hind(g, u)'
<1>1. PICK g : Inv(g)' /\ Follows(may, g)
  BY NextInv
<1>2. IInv /\ IInv' /\ InOrder /\ TypeOK /\ TypeOK'
  BY <1>1, LinesUsed, LinesUsedNext DEF IInv, SortInv
<1>3. Steady
  BY <1>2, InfoSteps
<1>4. Flat \/ info' = info
  <2>1. ASSUME NEW t \in Threads, Work(t) \/ Call(t) PROVE Flat \/ info' = info
    BY <1>2, <2>1, FlatSteps, WordSteps DEF Linking
  <2>2. ASSUME NEW x \in Items, Reclaim(x) PROVE Flat
    BY <1>2, <2>2, ReclaimStill
  <2>3. UNCHANGED vars => info' = info
    BY DEF vars, listVars
  <2> QED
    BY <2>1, <2>2, <2>3 DEF Next
<1>5. ASSUME NEW u \in Threads, u \in inside, u \in inside' PROVE CallOn(u)
  <2>0. pc[u] # "idle"
    BY <1>5 DEF Inv, ThreadInv, ThreadOK, Local
  <2>1. ASSUME Watches(u), SameArgs(loc'[u], loc[u]) PROVE CallOn(u)
    BY <2>0, <2>1 DEF CallOn, Watches, SameArgs
  <2>2. ASSUME NEW t \in Threads, Work(t) \/ Call(t) PROVE CallOn(u)
    <3>1. CASE u # t
      BY <1>2, <2>1, <2>2, <3>1, StepSeen DEF Alone, SameArgs
    <3>2. CASE u = t /\ (Call(t) \/ Return(t))
      BY <1>2, <1>5, <2>0, <3>2, CallSeen, ReturnSeen
    <3>3. CASE u = t /\ Work(t) /\ ~Return(t)
      BY <1>2, <2>1, <3>3, WorkSeen, WorkCall
    <3> QED
      BY <2>2, <3>1, <3>2, <3>3
  <2>3. CASE UNCHANGED vars \/ \E x \in Items : Reclaim(x)
    <3>1. UNCHANGED <<pc, loc, hist>>
      BY <2>3, NobodySeen
    <3>2. Watches(u)
      BY <3>1 DEF hist, Watches, SeenNow
    <3> QED
      BY <2>1, <3>1, <3>2 DEF SameArgs
  <2> QED
    BY <2>2, <2>3 DEF Next
<1>6. ASSUME NEW u \in Threads PROVE Hind(g, u)'
  <2>1. u \in inside /\ u \in inside' => CallOn(u)
    BY <1>5
  <2> QED
    BY <1>1, <1>2, <1>3, <1>4, <2>1, HindStep
<1> QED
  BY <1>1, <1>6
-----------------------------------------------------------------------------
(* What a search answers. *)

\* The search is for the arguments of the call.
Asks(t) == loc[t].x = Null \/ (~dupl /\ loc[t].op = "insert")
\* The call has chosen the node y to delete.
Found(t, y) ==
  /\ info[y].key = loc[t].key
  /\ loc[t].incr # 0 => info[y].incr = loc[t].incr
  /\ \E v \in seen[t] : \E q \in Order!Chosen(v, loc[t].incr) : q.id = y
\* What a call knows of what it has seen.
Met(t) ==
  /\ loc[t].op = "insert" /\ ~dupl /\ loc[t].i = 1 => {} \in seen[t]
  /\ pc[t] = "find" /\ Asks(t) => Low(loc[t].at, loc[t].key, loc[t].incr)
  /\ pc[t] = "forward" /\ loc[t].x = Null => Found(t, loc[t].at)
  /\ pc[t] = "flag" => Found(t, loc[t].x)

(* A view that tells of no node of the key has no record that a get could  *)
(* return or a delete choose.                                              *)
LEMMA TellsNone ==
  ASSUME NEW v, v \subseteq Recs, NEW k, NEW i \in Nat, NEW y, Tells(v, k, i, y),
         y = Null \/ info[y].key # k
  PROVE  Order!FirstIds(v, i) = {Null} /\ Order!Chosen(v, i) = {} /\ (i = 0 => v = {})
<1>1. {r \in v : r.incr >= i} = {}
  BY DEF Tells
<1>2. \A r \in v : r.incr \in Nat
  BY DEF Recs
<1>3. Order!FirstIds(v, i) = {Null}
  BY <1>1 DEF Order!FirstIds
<1>4. i = 0 => v = {}
  BY <1>1, <1>2
<1>5. Order!Chosen(v, i) = {}
  <2>1. CASE i = 0
    BY <1>4, <2>1 DEF Order!Chosen
  <2>2. CASE i # 0
    <3>1. \A r \in v : r.incr # i
      BY <1>1, <1>2
    <3> QED
      BY <2>2, <3>1 DEF Order!Chosen
  <2> QED
    BY <2>1, <2>2
<1> QED
  BY <1>3, <1>4, <1>5

(* A view that tells of a node of the key has it as the first one.         *)
LEMMA TellsFirst ==
  ASSUME NEW v, v \subseteq Recs, NEW k, NEW i \in Nat, NEW y, Tells(v, k, i, y),
         y # Null, info[y].key = k
  PROVE  /\ y \in Order!FirstIds(v, i) /\ v # {}
         /\ i = 0 \/ info[y].incr = i => \E q \in Order!Chosen(v, i) : q.id = y
         /\ i # 0 /\ info[y].incr # i => Order!Chosen(v, i) = {}
<1> DEFINE of == {r \in v : r.incr >= i}
<1>1. PICK r \in of : r.id = y /\ r.incr = info[y].incr /\ \A q \in of : r.incr <= q.incr
  BY DEF Tells
<1>2. \A q \in v : q.incr \in Nat
  BY DEF Recs
<1>3. r \in {p \in of : \A q \in of : p.incr <= q.incr}
  BY <1>1
<1>4. y \in Order!FirstIds(v, i)
  BY <1>1, <1>3 DEF Order!FirstIds
<1>5. ASSUME i = 0 \/ info[y].incr = i PROVE r \in Order!Chosen(v, i)
  <2>1. CASE i = 0
    BY <1>1, <1>4, <2>1 DEF Order!Chosen
  <2>2. CASE i # 0
    BY <1>1, <1>5, <2>2 DEF Order!Chosen
  <2> QED
    BY <2>1, <2>2
<1>6. ASSUME i # 0, info[y].incr # i PROVE Order!Chosen(v, i) = {}
  <2>1. \A q \in v : q.incr # i
    BY <1>1, <1>2, <1>6
  <2> QED
    BY <1>6, <2>1 DEF Order!Chosen
<1> QED
  BY <1>1, <1>4, <1>5, <1>6

(* What the search of a call looks for.                                    *)
LEMMA TargetIs ==
  ASSUME IInv, Plain0, NEW t \in Threads, pc[t] = "find", Asks(t)
  PROVE  Target(t) = <<loc[t].key, loc[t].incr>>
<1>1. CASE loc[t].x = Null
  BY <1>1 DEF Target
<1>2. CASE loc[t].x # Null
  <2>1. PICK may : Inv(may)
    BY DEF IInv
  <2> PICK p, r : p = pc[t] /\ r = loc[t]
    OBVIOUS
  <2>2. ~dupl /\ r.op = "insert" /\ r.x # Null /\ p = "find"
    BY <1>2 DEF Asks
  <2>3. PutOK(p, r)
    BY <2>1 DEF Inv, ThreadInv, ThreadOK
  <2>4. Puts(p, r)
    BY <2>2 DEF Puts, PutPCs, SearchPCs
  <2>5. info[r.x].key = r.key
    BY <2>3, <2>4 DEF PutOK
  <2>6. r.x \in Nodes
    <3>1. r \in Locals
      BY LinesUsed, LocalsTyped
    <3> QED
      BY <2>2, <3>1 DEF Locals, Nodes
  <2>7. info[r.x].incr = 0 /\ r.incr = 0
    BY <2>2, <2>6 DEF Plain0
  <2> QED
    BY <1>2, <2>5, <2>7 DEF Target
<1> QED
  BY <1>1, <1>2

(* The comparisons of a search for the arguments of its call.              *)
LEMMA AsksLow ==
  ASSUME IInv, Plain0, NEW t \in Threads, pc[t] = "find", Asks(t), NEW n
  PROVE  /\ IsAfter(t, n) <=> n # Null /\ Low(n, loc[t].key, loc[t].incr)
         /\ SameKey(t, n) <=> n # Null /\ info[n].key = loc[t].key
         /\ Equal(t, n) <=> SameKey(t, n) /\ loc[t].incr \in {0, info[n].incr}
<1>1. Target(t)[1] = loc[t].key /\ Target(t)[2] = loc[t].incr
  BY TargetIs
<1> QED
  BY <1>1 DEF IsAfter, Low, SameKey, Equal

(* Where a search stops on the lowest level is right for one of the views  *)
(* that its call has seen: for the one of now when it stands on the level, *)
(* for an older one when its node has left the level.                      *)
LEMMA Answer ==
  ASSUME NEW may, Inv(may), NEW t \in Threads, Hind(may, t), InOrder, Listed, Plain0, SeenNow,
         Met(t), NEW n, Stops(t, n), loc[t].lvl = 1, Asks(t)
  PROVE  /\ pc[t] = "find" /\ n \in Items \cup {Null}
         /\ \E v \in seen[t] : v \subseteq Recs /\ Tells(v, loc[t].key, loc[t].incr, n)
<1>0. IInv /\ TypeOK /\ pc[t] = "find"
  BY LinesUsed DEF IInv, Stops
<1> PICK a, k, i : a = loc[t].at /\ k = loc[t].key /\ i = loc[t].incr
  OBVIOUS
<1>1. /\ n = After(a, 1) /\ a \in Nodes /\ <<a, 1>> \in may[t] /\ n \in Items \cup {Null}
      /\ Behind(next, a, loc[t].lvl) = n
  BY <1>0, FindFacts DEF Stops, After
<1>2. Low(a, k, i)
  BY <1>0 DEF Met
<1>3. n = Null \/ ~Low(n, k, i)
  BY <1>0, AsksLow DEF Stops
<1>4. \A v \in seen[t] : v \subseteq Recs
  BY <1>0 DEF TypeOK
<1>5. CASE a \in Line(1)
  <2> PICK v : v = View(recs, k)
    OBVIOUS
  <2>1. v \in seen[t]
    BY <1>0 DEF SeenNow
  <2>2. Tells(v, k, i, n)
    BY <1>0, <1>1, <1>2, <1>3, <1>5, AnswerNow
  <2> QED
    BY <1>0, <1>1, <1>4, <2>1, <2>2
<1>6. CASE a \notin Line(1)
  <2>1. \E v \in seen[t] : Tells(v, k, i, n)
    BY <1>1, <1>2, <1>3, <1>6 DEF Hind
  <2> QED
    BY <1>0, <1>1, <1>4, <2>1
<1> QED
  BY <1>5, <1>6

\* All that is known when t ends a search.
Knows(may, t) ==
  /\ Inv(may) /\ Hind(may, t) /\ InOrder /\ Listed /\ Plain0 /\ SeenNow /\ Met(t)

(* An insert that gives up has seen the key taken.                         *)
LEMMA DupAnswer ==
  ASSUME NEW may, NEW t \in Threads, Knows(may, t), InsertDup(t)
  PROVE  ~dupl /\ \E v \in seen[t] : v # {}
<1> PICK n \in Items : /\ loc[t].op = "insert" /\ ~dupl /\ SameKey(t, n)
                       /\ Stops(t, n) /\ loc[t].lvl = 1
  BY DEF InsertDup, Ends
<1>1. Asks(t)
  BY DEF Asks
<1>2. /\ pc[t] = "find"
      /\ \E v \in seen[t] : v \subseteq Recs /\ Tells(v, loc[t].key, loc[t].incr, n)
  BY <1>1, Answer DEF Knows
<1>3. IInv /\ Plain0
  BY DEF Knows, IInv
<1>4. n # Null /\ info[n].key = loc[t].key
  BY <1>1, <1>2, <1>3, AsksLow
<1>5. loc[t].incr \in Nat
  BY <1>3, LinesUsed, LocalsTyped DEF Locals
<1> QED
  BY <1>2, <1>4, <1>5, TellsFirst

(* An insert that has found its place has seen the key free.               *)
LEMMA FreshAnswer ==
  ASSUME NEW may, NEW t \in Threads, Knows(may, t), InsertFound(t), loc[t].i = 0, ~dupl
  PROVE  {} \in seen[t]
<1> PICK n \in Items \cup {Null} : /\ loc[t].op = "insert" /\ ~SameKey(t, n)
                                   /\ Stops(t, n) /\ loc[t].lvl = 1
  BY DEF InsertFound, Ends
<1>1. Asks(t)
  BY DEF Asks
<1>2. /\ pc[t] = "find"
      /\ \E v \in seen[t] : v \subseteq Recs /\ Tells(v, loc[t].key, loc[t].incr, n)
  BY <1>1, Answer DEF Knows
<1>3. IInv /\ Plain0
  BY DEF Knows, IInv
<1>4. n = Null \/ info[n].key # loc[t].key
  BY <1>1, <1>2, <1>3, AsksLow
<1>5. loc[t].incr = 0
  BY <1>3 DEF Plain0
<1> PICK k, i : k = loc[t].key /\ i = loc[t].incr
  OBVIOUS
<1>6. PICK v \in seen[t] : v \subseteq Recs /\ Tells(v, k, i, n)
  BY <1>2
<1>7. i \in Nat
  BY <1>5
<1>8. v = {}
  BY <1>4, <1>5, <1>6, <1>7, TellsNone
<1> QED
  BY <1>6, <1>8

(* A delete that finds nothing has seen the list without its record.       *)
LEMMA NoneAnswer ==
  ASSUME NEW may, NEW t \in Threads, Knows(may, t), FindNone(t)
  PROVE  \E v \in seen[t] : Order!Chosen(v, loc[t].incr) = {}
<1> PICK n \in Items \cup {Null} : /\ loc[t].x = Null /\ ~Equal(t, n)
                                   /\ Stops(t, n) /\ loc[t].lvl = 1
  BY DEF FindNone, Ends
<1>1. Asks(t)
  BY DEF Asks
<1>2. /\ pc[t] = "find"
      /\ \E v \in seen[t] : v \subseteq Recs /\ Tells(v, loc[t].key, loc[t].incr, n)
  BY <1>1, Answer DEF Knows
<1>3. IInv /\ Plain0
  BY DEF Knows, IInv
<1>4. \/ n = Null \/ info[n].key # loc[t].key
      \/ loc[t].incr # 0 /\ info[n].incr # loc[t].incr
  BY <1>1, <1>2, <1>3, AsksLow
<1>5. loc[t].incr \in Nat
  BY <1>3, LinesUsed, LocalsTyped DEF Locals
<1> PICK k, i : k = loc[t].key /\ i = loc[t].incr
  OBVIOUS
<1>6. PICK v \in seen[t] : v \subseteq Recs /\ Tells(v, k, i, n)
  BY <1>2
<1>7. CASE n = Null \/ info[n].key # k
  BY <1>5, <1>6, <1>7, TellsNone
<1>8. CASE n # Null /\ info[n].key = k
  BY <1>4, <1>5, <1>6, <1>8, TellsFirst
<1> QED
  BY <1>7, <1>8

(* The node that a delete stops at is one that it may choose.              *)
LEMMA EqualAnswer ==
  ASSUME NEW may, NEW t \in Threads, Knows(may, t), NEW n \in Items, Equal(t, n),
         Stops(t, n), loc[t].lvl = 1, loc[t].x = Null
  PROVE  Found(t, n)
<1>1. Asks(t)
  BY DEF Asks
<1>2. /\ pc[t] = "find"
      /\ \E v \in seen[t] : v \subseteq Recs /\ Tells(v, loc[t].key, loc[t].incr, n)
  BY <1>1, Answer DEF Knows
<1>3. IInv /\ Plain0
  BY DEF Knows, IInv
<1>4. n # Null /\ info[n].key = loc[t].key /\ loc[t].incr \in {0, info[n].incr}
  BY <1>1, <1>2, <1>3, AsksLow
<1>5. loc[t].incr \in Nat
  BY <1>3, LinesUsed, LocalsTyped DEF Locals
<1>6. \E v \in seen[t] : \E q \in Order!Chosen(v, loc[t].incr) : q.id = n
  BY <1>2, <1>4, <1>5, TellsFirst
<1> QED
  BY <1>4, <1>6 DEF Found

(* What a get returns was the first record of its key when the call had    *)
(* seen it.                                                                *)
LEMMA GetAnswer ==
  ASSUME NEW may, NEW t \in Threads, Knows(may, t), loc[t].op = "get",
         NEW n, Stops(t, n), loc[t].lvl = 1
  PROVE  \E v \in seen[t] :
           (IF SameKey(t, n) THEN n ELSE Null) \in Order!FirstIds(v, loc[t].incr)
<1>0. IInv /\ Plain0 /\ pc[t] = "find"
  BY DEF Knows, IInv, Stops
<1>1. Asks(t)
  <2>1. About(pc[t], loc[t])
    BY DEF Knows, Inv, ThreadInv, ThreadOK
  <2>2. loc[t].x = Null
    BY <1>0, <2>1 DEF About
  <2> QED
    BY <2>2 DEF Asks
<1>2. \E v \in seen[t] : v \subseteq Recs /\ Tells(v, loc[t].key, loc[t].incr, n)
  BY <1>1, Answer DEF Knows
<1>3. SameKey(t, n) <=> n # Null /\ info[n].key = loc[t].key
  BY <1>0, <1>1, AsksLow
<1>4. loc[t].incr \in Nat
  BY <1>0, LinesUsed, LocalsTyped DEF Locals
<1>5. CASE SameKey(t, n)
  BY <1>2, <1>3, <1>4, <1>5, TellsFirst
<1>6. CASE ~SameKey(t, n)
  <2> PICK k, i : k = loc[t].key /\ i = loc[t].incr
    OBVIOUS
  <2>1. PICK v \in seen[t] : v \subseteq Recs /\ Tells(v, k, i, n)
    BY <1>2
  <2>2. n = Null \/ info[n].key # k
    BY <1>3, <1>6
  <2>3. Order!FirstIds(v, i) = {Null}
    BY <1>4, <2>1, <2>2, TellsNone
  <2> QED
    BY <1>6, <2>1, <2>3
<1> QED
  BY <1>5, <1>6
-----------------------------------------------------------------------------
(* What a call knows stays, and every step adds what it found. *)

\* The nodes that a call knows something of are in use.
MetHeld ==
  \A t \in Threads :
    /\ pc[t] \in {"find", "forward"} => Used(loc[t].at)
    /\ pc[t] = "flag" => Used(loc[t].x)
(* A thread that has found a node holds one that is in use.                *)
LEMMA MetsHeld == IInv => MetHeld
<1> SUFFICES ASSUME IInv, NEW t \in Threads
             PROVE  /\ pc[t] \in {"find", "forward"} => Used(loc[t].at)
                    /\ pc[t] = "flag" => Used(loc[t].x)
  BY DEF MetHeld
<1>1. PICK may : Inv(may)
  BY DEF IInv
<1> PICK p, r : p = pc[t] /\ r = loc[t]
  OBVIOUS
<1>2. ThreadOK(may, t, p, r) /\ r \in Locals
  BY <1>1, LocalsTyped DEF Inv, ThreadInv
<1>3. \A n \in Nodes : <<n, 1>> \in may[t] => Used(n)
  BY <1>1, LevelOne, MayFacts DEF Safe, Used
<1>4. p = "find" => Used(r.at)
  <2> SUFFICES ASSUME p = "find" PROVE Used(r.at)
    OBVIOUS
  <2> PICK n : n = Behind(next, r.at, r.lvl)
    OBVIOUS
  <2>1. r.at \in Nodes /\ <<r.at, 1>> \in may[t]
    BY <1>1, FindFacts
  <2> QED
    BY <1>3, <2>1
<1>5. p \in {"forward", "flag"} => t \in inside
  BY <1>2 DEF ThreadOK, Local
<1>6. p = "forward" => Used(r.at)
  <2> SUFFICES ASSUME p = "forward" PROVE Used(r.at)
    OBVIOUS
  <2>1. r.at \in Items
    BY <1>2 DEF ThreadOK, Local
  <2>2. <<r.at, 1>> \in may[t]
    BY <1>2, <1>5, <2>1, NodeAssumption DEF ThreadOK, Held
  <2> QED
    BY <1>3, <2>1, <2>2 DEF Nodes
<1>7. p = "flag" => Used(r.x)
  <2> SUFFICES ASSUME p = "flag" PROVE Used(r.x)
    OBVIOUS
  <2>1. r.op = "delete"
    BY <1>2 DEF ThreadOK, Local, DeleteOnly
  <2>2. r.x # Null
    BY <1>2, <2>1 DEF ThreadOK, About, SearchPCs
  <2>3. ~Puts(p, r)
    BY <2>1 DEF Puts
  <2>4. <<r.x, 1>> \in may[t]
    BY <1>2, <1>5, <2>2, <2>3 DEF ThreadOK, Held
  <2>5. r.x \in Nodes
    BY <1>2, <2>2 DEF Locals, Nodes
  <2> QED
    BY <1>3, <2>4, <2>5
<1> QED
  BY <1>4, <1>6, <1>7
(* MetsHeld after a step.                                                  *)
LEMMA MetsHeldNext == IInv' => MetHeld'
BY MetsHeld, PTL

(* A node that a delete may choose stays one.                              *)
LEMMA FoundStays ==
  ASSUME NEW t \in Threads, NEW y, Found(t, y), SameSort(y), SameArgs(loc'[t], loc[t]),
         seen[t] \subseteq seen'[t]
  PROVE  Found(t, y)'
BY DEF Found, SameSort, SameArgs

(* A step of another thread takes nothing from what a call knows.          *)
LEMMA MetOther ==
  ASSUME IInv, IInv', Steady, NEW u \in Threads, Met(u), Watches(u),
         pc'[u] = pc[u], loc'[u] = loc[u]
  PROVE  Met(u)'
<1> PICK p, r : p = pc[u] /\ r = loc[u]
  OBVIOUS
<1>1. p # "idle" => seen[u] \subseteq seen'[u]
  BY DEF Watches
<1>2. dupl' = dupl
  BY DEF Steady
<1>3. (p \in {"find", "forward"} => SameSort(r.at)) /\ (p = "flag" => SameSort(r.x))
  <2>1. /\ p \in {"find", "forward"} => Used(r.at)
        /\ p = "flag" => Used(r.x)
    BY MetsHeld DEF MetHeld
  <2>2. /\ p \in {"find", "forward"} => Used(r.at)'
        /\ p = "flag" => Used(r.x)'
    <3>1. /\ p \in {"find", "forward"} => Used(loc[u].at)'
          /\ p = "flag" => Used(loc[u].x)'
      BY MetsHeldNext DEF MetHeld
    <3> QED
      BY <3>1 DEF Used
  <2>3. \A n : Used(n) => n \in Nodes
    BY DEF Used
  <2> QED
    BY <2>1, <2>2, <2>3 DEF Steady
<1>4. p = "idle" => r.op # "insert"
  <2>1. p = "idle" => r = NoLocals
    BY OpFacts
  <2>2. NoLocals.op = "none"
    BY DEF NoLocals
  <2> QED
    BY <2>1, <2>2
<1>5. SameArgs(loc'[u], loc[u])
  BY DEF SameArgs
<1>6. ASSUME NEW y, Found(u, y), SameSort(y), p # "idle" PROVE Found(u, y)'
  BY <1>1, <1>5, <1>6, FoundStays
<1>7. r.op = "insert" /\ ~dupl /\ r.i = 1 => {} \in seen'[u]
  BY <1>1, <1>4 DEF Met
<1>8. p = "find" /\ Asks(u)' => Low(r.at, r.key, r.incr)'
  <2>1. Asks(u)' => Asks(u)
    BY <1>2 DEF Asks
  <2> QED
    BY <1>3, <2>1 DEF Met, Low, SameSort
<1>9. p = "forward" /\ r.x = Null => Found(u, r.at)'
  BY <1>3, <1>6 DEF Met
<1>10. p = "flag" => Found(u, r.x)'
  BY <1>3, <1>6 DEF Met
<1>11. /\ Low(loc[u].at, loc[u].key, loc[u].incr)' <=> Low(r.at, r.key, r.incr)'
       /\ Found(u, loc[u].at)' <=> Found(u, r.at)'
       /\ Found(u, loc[u].x)' <=> Found(u, r.x)'
  BY DEF Low, Found
<1> QED
  BY <1>2, <1>7, <1>8, <1>9, <1>10, <1>11 DEF Met

(* Outside a search there is little to know.                               *)
LEMMA MetAway ==
  ASSUME NEW t \in Threads, dupl' = dupl, pc'[t] \notin {"find", "forward", "flag"},
         loc'[t].op = "insert" /\ ~dupl /\ loc'[t].i = 1 => {} \in seen'[t]
  PROVE  Met(t)'
BY DEF Met

(* A key that was seen free stays seen.                                    *)
LEMMA MetCarried ==
  ASSUME IInv, SeenNow, NEW t \in Threads, Met(t), Watches(t), pc[t] # "idle",
         loc'[t].op = loc[t].op, loc'[t].i = loc[t].i
  PROVE  loc'[t].op = "insert" /\ ~dupl /\ loc'[t].i = 1 => {} \in seen'[t]
BY DEF Met, Watches

(* The steps of a search keep what its call knows: it never goes past its  *)
(* target.                                                                 *)
LEMMA SearchMet ==
  ASSUME NEW may, NEW t \in Threads, Knows(may, t), Watches(t),
         \/ FindStart(t) \/ FindMove(t) \/ FindDown(t) \/ FindAgain(t) \/ FindEqual(t)
  PROVE  Met(t)'
<1>0. /\ IInv /\ Plain0 /\ Met(t) /\ TypeOK /\ pc \in [Threads -> PCs]
      /\ loc \in [Threads -> Locals] /\ loc[t] \in Locals
  BY LinesUsed, LocalsTyped DEF Knows, IInv
<1>1. info' = info /\ dupl' = dupl /\ UNCHANGED hist
  BY DEF FindStart, FindMove, FindDown, FindAgain, FindEqual, Ends, listVars, fields
<1>2. pc[t] # "idle" /\ SameNodes(loc'[t], loc[t])
  BY <1>0, FindCall DEF Amid
<1>3. loc'[t].op = "insert" /\ ~dupl /\ loc'[t].i = 1 => {} \in seen'[t]
  BY <1>0, <1>2, MetCarried DEF Knows, SameNodes, SameArgs
<1> PICK k, i : k = loc[t].key /\ i = loc[t].incr
  OBVIOUS
<1>4. loc'[t].key = k /\ loc'[t].incr = i /\ (Asks(t)' <=> Asks(t))
  BY <1>1, <1>2 DEF SameNodes, SameArgs, Asks
<1>5. ASSUME NEW b, loc'[t].at = b, pc'[t] = "find", Asks(t) => Low(b, k, i)
      PROVE  Met(t)'
  <2>1. Asks(t)' => Low(b, k, i)'
    BY <1>1, <1>4, <1>5 DEF Low
  <2>2. Low(loc[t].at, loc[t].key, loc[t].incr)' <=> Low(b, k, i)'
    BY <1>4, <1>5 DEF Low
  <2> QED
    BY <1>1, <1>3, <1>5, <2>1, <2>2 DEF Met
<1>6. CASE FindStart(t)
  <2>1. loc'[t].at = head /\ pc'[t] = "find"
    BY <1>0, <1>6 DEF FindStart, Goto, Locals
  <2>2. info[head].key = 0
    BY DEF Knows, Inv, ListInv, HeadIs, NoInfo
  <2>3. k \in Keys
    BY <1>2 DEF Knows, Inv, ThreadInv, ThreadOK, Local
  <2>4. Low(head, k, i)
    BY <2>2, <2>3, KeyAssumption DEF Low
  <2> QED
    BY <1>5, <2>1, <2>4
<1>7. CASE FindMove(t)
  <2> PICK n : n = Behind(next, loc[t].at, loc[t].lvl)
    OBVIOUS
  <2>1. /\ pc[t] = "find" /\ IsAfter(t, n) /\ pc' = pc
        /\ loc' = [loc EXCEPT ![t].at = n]
    BY <1>7 DEF FindMove
  <2>2. loc'[t].at = n
    BY <1>0, <2>1 DEF Locals
  <2>3. Asks(t) => Low(n, k, i)
    BY <1>0, <2>1, AsksLow
  <2> QED
    BY <1>5, <2>1, <2>2, <2>3
<1>8. CASE FindDown(t)
  <2> PICK n \in Items \cup {Null} :
         /\ Stops(t, n) /\ pc' = pc
         /\ loc' = [loc EXCEPT ![t] = [Noted(t, n) EXCEPT !.lvl = @ - 1]]
    BY <1>8 DEF FindDown
  <2> PICK r : r = Noted(t, n)
    OBVIOUS
  <2>1. pc[t] = "find" /\ r \in Locals /\ r.at = loc[t].at
    BY <1>0, NotedCall DEF Stops
  <2>2. loc'[t] = [r EXCEPT !.lvl = @ - 1]
    BY <1>0
  <2>3. loc'[t].at = loc[t].at
    BY <2>1, <2>2 DEF Locals
  <2>4. Asks(t) => Low(loc[t].at, k, i)
    BY <1>0, <2>1 DEF Met
  <2> QED
    BY <1>5, <2>1, <2>3, <2>4
<1>9. CASE FindAgain(t)
  <2> PICK n \in Items \cup {Null} : Ends(t, n, "find_start", Noted(t, n))
    BY <1>9 DEF FindAgain
  <2>1. pc'[t] = "find_start"
    BY <1>0, EndsFacts
  <2> QED
    BY <1>1, <1>3, <2>1, MetAway
<1>10. CASE FindEqual(t)
  <2> PICK n \in Items : /\ Ends(t, n, "forward", [Noted(t, n) EXCEPT !.at = n])
                         /\ Equal(t, n)
    BY <1>10 DEF FindEqual
  <2> PICK s : s = [Noted(t, n) EXCEPT !.at = n]
    OBVIOUS
  <2>1. pc'[t] = "forward" /\ loc'[t] = s
    BY <1>0, EndsFacts
  <2>2. Noted(t, n) \in Locals
    BY <1>0, NotedCall DEF Ends, Stops
  <2>3. loc'[t].at = n
    BY <2>1, <2>2 DEF Locals
  <2>4. loc'[t].x = Null => Found(t, n)'
    <3> SUFFICES ASSUME loc[t].x = Null PROVE Found(t, n)'
      BY <1>2 DEF SameNodes
    <3>1. Found(t, n)
      BY EqualAnswer DEF Ends
    <3>2. SameSort(n) /\ seen[t] \subseteq seen'[t]
      BY <1>1 DEF SameSort, hist
    <3> QED
      BY <1>2, <3>1, <3>2, FoundStays DEF SameNodes
  <2>5. Found(t, loc[t].at)' <=> Found(t, n)'
    BY <2>3 DEF Found
  <2> QED
    BY <1>1, <1>3, <2>1, <2>4, <2>5 DEF Met
<1> QED
  BY <1>6, <1>7, <1>8, <1>9, <1>10

(* A delete that reads the levels of its node keeps it chosen.             *)
LEMMA ForwardMet ==
  ASSUME NEW may, NEW t \in Threads, Knows(may, t), Watches(t), Forward(t)
  PROVE  Met(t)'
<1>0. /\ IInv /\ Met(t) /\ pc \in [Threads -> PCs] /\ loc \in [Threads -> Locals]
      /\ loc[t] \in Locals
  BY LinesUsed, LocalsTyped DEF Knows, IInv
<1>1. info' = info /\ dupl' = dupl /\ UNCHANGED hist
  BY DEF Forward, listVars, fields
<1> PICK y, l : y = loc[t].at /\ l = loc[t].lvl
  OBVIOUS
<1> PICK last : last = (l = info[y].lvl)
  OBVIOUS
<1>2. Goto(t, "forward", IF ~last THEN "forward" ELSE IF loc[t].x = Null THEN "flag" ELSE "prev")
  BY DEF Forward
<1>3. pc[t] = "forward" /\ loc[t].op = "delete"
  <2>1. pc[t] = "forward"
    BY <1>2 DEF Goto
  <2> QED
    BY <1>0, <2>1, OpFacts DEF DeleteOnly
<1>4. SameArgs(loc'[t], loc[t])
  BY <1>0, NodeCall
<1>5. /\ loc'[t].at = IF last THEN Null ELSE y
      /\ loc'[t].x = IF last THEN y ELSE loc[t].x
  <2>1. loc' = [loc EXCEPT ![t].fwd[l] = Behind(next, y, l), ![t].lvl = IF last THEN 0 ELSE l + 1,
                           ![t].at = IF last THEN Null ELSE @, ![t].x = IF last THEN y ELSE @]
    BY DEF Forward
  <2> QED
    BY <1>0, <2>1 DEF Locals
<1>6. loc[t].x = Null => Found(t, y)'
  <2> SUFFICES ASSUME loc[t].x = Null PROVE Found(t, y)'
    OBVIOUS
  <2>1. Found(t, y)
    BY <1>0, <1>3 DEF Met
  <2>2. SameSort(y) /\ seen[t] \subseteq seen'[t]
    BY <1>1 DEF SameSort, hist
  <2> QED
    BY <1>4, <2>1, <2>2, FoundStays
<1>7. loc'[t].op # "insert"
  BY <1>3, <1>4 DEF SameArgs
<1>8. CASE ~last
  <2>1. pc'[t] = "forward" /\ loc'[t].at = y /\ loc'[t].x = loc[t].x
    BY <1>0, <1>2, <1>5, <1>8 DEF Goto
  <2>2. Found(t, loc[t].at)' <=> Found(t, y)'
    BY <2>1 DEF Found
  <2> QED
    BY <1>6, <1>7, <2>1, <2>2 DEF Met
<1>9. CASE last /\ loc[t].x = Null
  <2>1. pc'[t] = "flag" /\ loc'[t].x = y
    BY <1>0, <1>2, <1>5, <1>9 DEF Goto
  <2>2. Found(t, loc[t].x)' <=> Found(t, y)'
    BY <2>1 DEF Found
  <2> QED
    BY <1>6, <1>7, <1>9, <2>1, <2>2 DEF Met
<1>10. CASE last /\ loc[t].x # Null
  <2>1. pc'[t] = "prev"
    BY <1>0, <1>2, <1>10 DEF Goto
  <2> QED
    BY <1>1, <1>7, <2>1, MetAway
<1> QED
  BY <1>8, <1>9, <1>10

(* An insert that goes on to link has seen its key free.                   *)
LEMMA FoundMet ==
  ASSUME NEW may, NEW t \in Threads, Knows(may, t), Watches(t), InsertFound(t)
  PROVE  Met(t)'
<1>0. IInv /\ Met(t)
  BY DEF Knows, IInv
<1>1. dupl' = dupl /\ UNCHANGED hist
  BY DEF InsertFound, Ends, listVars, fields
<1>2. /\ pc'[t] = "check" /\ SameArgs(loc'[t], loc[t])
      /\ loc'[t].i = IF loc[t].i = 0 THEN 1 ELSE loc[t].i
  BY <1>0, FoundCall
<1>3. loc'[t].op = "insert" /\ ~dupl /\ loc'[t].i = 1 => {} \in seen[t]
  <2>1. CASE loc[t].i = 0
    BY <2>1, FreshAnswer
  <2>2. CASE loc[t].i # 0
    BY <1>0, <1>2, <2>2 DEF Met, SameArgs
  <2> QED
    BY <2>1, <2>2
<1>4. seen' = seen
  BY <1>1 DEF hist
<1> QED
  BY <1>1, <1>2, <1>3, <1>4, MetAway

(* The other steps find nothing.                                           *)
LEMMA RestMet ==
  ASSUME NEW may, NEW t \in Threads, Knows(may, t), Watches(t), dupl' = dupl, Work(t),
         ~Return(t), ~Forward(t), ~InsertFound(t),
         ~ (FindStart(t) \/ FindMove(t) \/ FindDown(t) \/ FindAgain(t) \/ FindEqual(t))
  PROVE  Met(t)'
<1>0. /\ IInv /\ Met(t) /\ SeenNow /\ TypeOK /\ pc \in [Threads -> PCs]
      /\ loc \in [Threads -> Locals] /\ loc[t] \in Locals
  BY LinesUsed, LocalsTyped DEF Knows, IInv
<1>1. SameArgs(loc'[t], loc[t]) /\ pc[t] # "idle"
  BY <1>0, WorkCall
<1>2. loc'[t].i = loc[t].i => (loc'[t].op = "insert" /\ ~dupl /\ loc'[t].i = 1 => {} \in seen'[t])
  BY <1>0, <1>1, MetCarried DEF SameArgs
<1>3. ASSUME pc'[t] \notin {"find", "forward", "flag"},
             \/ loc'[t].i = loc[t].i \/ loc'[t].i # 1 \/ loc[t].op # "insert"
      PROVE  Met(t)'
  BY <1>1, <1>2, <1>3, MetAway DEF SameArgs
<1>4. CASE \/ InsertEnter(t) \/ DeleteEnter(t) \/ GetEnter(t) \/ InsertCheck(t) \/ InsertRetry(t)
           \/ DeleteAgain(t) \/ DeletePrev(t) \/ DeleteRetry(t) \/ InsertSet(t) \/ DeleteMark(t)
  BY <1>0, <1>3, <1>4, GotoCall
<1>5. CASE InsertDup(t) \/ FindNone(t) \/ GetFound(t)
  <2>1. pc'[t] \in {"dup_free", "leave"} /\ loc'[t].i = 0
    BY <1>0, <1>5, EndCall
  <2> QED
    BY <1>3, <2>1
<1>6. CASE InsertNew(t) \/ InsertDupFree(t)
  <2>1. PICK q \in {"enter", "leave"} : \E p : Goto(t, p, q)
    BY <1>6 DEF InsertNew, InsertDupFree
  <2>2. pc'[t] = q
    BY <1>0, <2>1 DEF Goto
  <2>3. loc'[t].i = loc[t].i
    BY <1>0, <1>6 DEF InsertNew, InsertDupFree, Locals
  <2> QED
    BY <1>3, <2>2, <2>3
<1>7. CASE InsertLink(t)
  <2>1. PICK q \in {"inserted", "check"} : Goto(t, "link", q)
    BY <1>7 DEF InsertLink
  <2>2. pc'[t] = q
    BY <1>0, <2>1 DEF Goto
  <2> PICK i, p, x : i = loc[t].i /\ p = loc[t].prev[i] /\ x = loc[t].x
    OBVIOUS
  <2>3. i \in Levels
    BY <1>7, InsertLinkInv DEF Knows, GoesIn
  <2>4. loc'[t].i = i + 1
    BY <1>0, <1>7 DEF InsertLink, Locals
  <2>5. loc'[t].i # 1
    BY <2>3, <2>4, BoundAssumption DEF Levels
  <2> QED
    BY <1>3, <2>2, <2>5
<1>8. CASE Inserted(t) \/ InsertNum(t)
  <2>1. PICK q \in {"num_add", "leave"} : \E p : Goto(t, p, q)
    BY <1>8 DEF Inserted, InsertNum
  <2>2. pc'[t] = q
    BY <1>0, <2>1 DEF Goto
  <2>3. loc'[t].i = loc[t].i \/ loc'[t].i = 0
    BY <1>0, <1>8 DEF Inserted, InsertNum, Locals
  <2> QED
    BY <1>3, <2>2, <2>3
<1>9. CASE \/ DeleteFlag(t) \/ DeleteBusy(t) \/ DeleteMarker(t) \/ DeleteUnlink(t)
           \/ DeleteFree(t) \/ DeleteFreeMarker(t) \/ DeleteNum(t)
  <2>1. PICK p, q : Goto(t, p, q) /\ p \in DeleteOnly /\ q \notin {"find", "forward", "flag"}
    <3>1. \/ Goto(t, "flag", "marker") \/ Goto(t, "flag", "again") \/ Goto(t, "flag", "leave")
          \/ Goto(t, "marker", "prev") \/ Goto(t, "unlink", "free_x") \/ Goto(t, "unlink", "prev")
          \/ Goto(t, "free_x", "free_m") \/ Goto(t, "free_m", "num_sub")
          \/ Goto(t, "num_sub", "leave")
      BY <1>9 DEF DeleteFlag, DeleteBusy, DeleteMarker, DeleteUnlink, DeleteFree,
         DeleteFreeMarker, DeleteNum
    <3> QED
      BY <3>1 DEF DeleteOnly
  <2>2. pc[t] = p /\ pc'[t] = q
    BY <1>0, <2>1 DEF Goto
  <2>3. loc[t].op = "delete"
    BY <1>0, <2>1, <2>2, OpFacts
  <2> QED
    BY <1>3, <2>1, <2>2, <2>3
<1> QED
  BY <1>4, <1>5, <1>6, <1>7, <1>8, <1>9 DEF Work

(* Every step keeps what all calls know.                                   *)
LEMMA MetStep ==
  ASSUME NEW may, \A u \in Threads : Knows(may, u), Inv(may), [Next]_vars
  PROVE  \A u \in Threads : Met(u)'
<1> SUFFICES ASSUME NEW u \in Threads PROVE Met(u)'
  OBVIOUS
<1>0. IInv /\ IInv' /\ SeenNow /\ Met(u) /\ Knows(may, u)
  BY NextInv DEF IInv, Knows
<1>1. Steady /\ dupl' = dupl
  BY <1>0, InfoSteps
<1>2. ASSUME NEW t \in Threads, Work(t) \/ Call(t) PROVE Met(u)'
  <2>1. CASE u # t
    <3>1. Watches(u) /\ pc'[u] = pc[u] /\ loc'[u] = loc[u]
      BY <1>0, <1>2, <2>1, StepSeen DEF Alone
    <3> QED
      BY <1>0, <1>1, <3>1, MetOther
  <2>2. CASE u = t /\ (Call(t) \/ Return(t))
    <3>1. /\ pc'[u] \notin {"find", "forward", "flag"} /\ loc'[u].i = 0
      BY <1>0, <2>2, CallSeen, ReturnSeen DEF NoLocals
    <3> QED
      BY <1>1, <3>1, MetAway
  <2>3. CASE u = t /\ Work(t) /\ ~Return(t)
    <3>1. Watches(u)
      BY <1>0, <2>3, WorkSeen
    <3> QED
      BY <1>0, <1>1, <2>3, <3>1, SearchMet, ForwardMet, FoundMet, RestMet
  <2> QED
    BY <1>2, <2>1, <2>2, <2>3
<1>3. CASE UNCHANGED vars \/ \E x \in Items : Reclaim(x)
  <2>1. UNCHANGED <<pc, loc, hist>>
    BY <1>3, NobodySeen
  <2>2. Watches(u)
    BY <1>0, <2>1 DEF hist, Watches, SeenNow
  <2> QED
    BY <1>0, <1>1, <2>1, <2>2, MetOther
<1> QED
  BY <1>2, <1>3 DEF Next
-----------------------------------------------------------------------------
(* What AbOrder sees of a call. *)

Told(r, o, x) == [op |-> o, key |-> r.key, incr |-> r.incr, id |-> x]
\* The call of a thread that is at p with the locals r.
Said(p, r) ==
  IF r.op = "insert"
  THEN IF p = "dup_free" THEN Told(r, "done", Null)
       ELSE IF p \in {"num_add", "leave"} THEN Told(r, "done", r.x)
       ELSE IF r.i > 1 THEN Told(r, "inserting", r.x)
       ELSE Told(r, "insert", Null)
  ELSE IF r.op = "delete"
  THEN IF p \in {"free_x", "free_m", "num_sub"} \/ (p = "leave" /\ r.m # Null)
       THEN Told(r, "done", r.x)
       ELSE IF p = "leave" THEN Told(r, "done", Null)
       ELSE IF p = "marker" \/ r.m # Null THEN Told(r, "deleting", r.x)
       ELSE Told(r, "delete", Null)
  ELSE IF r.op = "get"
  THEN IF p = "leave" THEN Told(r, "done", r.x) ELSE Told(r, "get", Null)
  ELSE Told(r, "none", Null)
MCalls == [t \in Threads |-> CallOf(t)]

(* What AbOrder sees of a call, from where its thread is.                  *)
LEMMA CallNow == \A t : CallOf(t) = Said(pc[t], loc[t])
<1> TAKE t
<1>1. CASE loc[t].op = "insert"
  BY <1>1 DEF CallOf, Said, Told
<1>2. CASE loc[t].op = "delete"
  BY <1>2 DEF CallOf, Said, Told
<1>3. CASE loc[t].op = "get"
  BY <1>3 DEF CallOf, Said, Told
<1>4. CASE loc[t].op \notin {"insert", "delete", "get"}
  BY <1>4 DEF CallOf, Said, Told
<1> QED
  BY <1>1, <1>2, <1>3, <1>4

(* The same after a step.                                                  *)
LEMMA CallThen == \A t : CallOf(t)' = Said(pc'[t], loc'[t])
<1>1. (\A t : CallOf(t) = Said(pc[t], loc[t]))'
  BY CallNow, PTL
<1> QED
  BY <1>1 DEF Said, Told

(* Told, field by field.                                                   *)
LEMMA ToldFields ==
  \A r, o, x : /\ Told(r, o, x).op = o /\ Told(r, o, x).key = r.key
               /\ Told(r, o, x).incr = r.incr /\ Told(r, o, x).id = x
BY DEF Told

(* A call is seen with its arguments.                                      *)
LEMMA SaidKey ==
  \A p, r : Said(p, r).key = r.key /\ Said(p, r).incr = r.incr
<1> TAKE p, r
<1>1. \E o, x : Said(p, r) = Told(r, o, x)
  <2>1. CASE r.op = "insert"
    BY <2>1 DEF Said
  <2>2. CASE r.op = "delete"
    BY <2>2 DEF Said
  <2>3. CASE r.op \notin {"insert", "delete"}
    BY <2>3 DEF Said
  <2> QED
    BY <2>1, <2>2, <2>3
<1> QED
  BY <1>1, ToldFields

(* A thread is in no call exactly when it is idle.                         *)
LEMMA InNoCall ==
  ASSUME IInv, NEW t \in Threads
  PROVE  CallOf(t) = Order!NoCall <=> pc[t] = "idle"
<1>1. PICK may : Inv(may)
  BY DEF IInv
<1> PICK p, r : p = pc[t] /\ r = loc[t]
  OBVIOUS
<1>2. /\ p = "idle" <=> r.op = "none"
      /\ p = "idle" => r = NoLocals
  BY <1>1 DEF Inv, ThreadInv, ThreadOK, Local
<1>3. Order!NoCall = [op |-> "none", key |-> 0, incr |-> 0, id |-> Null]
  BY DEF Order!NoCall
<1>4. ASSUME p = "idle" PROVE Said(p, r) = Order!NoCall
  <2>1. r.op = "none" /\ r.key = 0 /\ r.incr = 0
    BY <1>2, <1>4 DEF NoLocals
  <2>2. Said(p, r) = Told(r, "none", Null)
    BY <2>1 DEF Said
  <2> QED
    BY <1>3, <2>1, <2>2 DEF Told
<1>5. ASSUME p # "idle" PROVE Said(p, r).op # "none"
  <2>1. loc[t] \in Locals
    BY LinesUsed, LocalsTyped
  <2>2. r.op \in {"insert", "delete", "get"}
    BY <1>2, <1>5, <2>1, OpAssumption DEF Locals
  <2>3. CASE r.op = "insert"
    BY <2>3, ToldFields DEF Said
  <2>4. CASE r.op = "delete"
    BY <2>4, ToldFields DEF Said
  <2>5. CASE r.op = "get"
    BY <2>5, ToldFields DEF Said
  <2> QED
    BY <2>2, <2>3, <2>4, <2>5
<1>6. Order!NoCall.op = "none"
  BY <1>3
<1> QED
  BY <1>4, <1>5, <1>6, CallNow

(* A step of one thread changes one call.                                  *)
LEMMA OneCall ==
  ASSUME NEW t \in Threads, Alone(t), NEW c, Said(pc'[t], loc'[t]) = c
  PROVE  MCalls' = [MCalls EXCEPT ![t] = c]
<1>1. \A u \in Threads \ {t} : CallOf(u)' = CallOf(u)
  BY CallNow, CallThen DEF Alone
<1>2. CallOf(t)' = c
  BY CallThen
<1> QED
  BY <1>1, <1>2 DEF MCalls

(* When that call has its arguments and its part of the work done, the     *)
(* step is Goes of AbOrder.                                                *)
LEMMA GoesIs ==
  ASSUME NEW t \in Threads, Alone(t), SameArgs(loc'[t], loc[t]),
         NEW from, NEW to, NEW x, NEW y,
         Said(pc[t], loc[t]) = Told(loc[t], from, y),
         Said(pc'[t], loc'[t]) = Told(loc'[t], to, x)
  PROVE  Order!Goes(t, from, to, x)
<1> PICK k, i : k = loc[t].key /\ i = loc[t].incr
  OBVIOUS
<1>1. loc'[t].key = k /\ loc'[t].incr = i
  BY DEF SameArgs
<1>2. MCalls[t] = [op |-> from, key |-> k, incr |-> i, id |-> y]
  BY CallNow DEF MCalls, Told
<1>3. MCalls' = [MCalls EXCEPT ![t] = [op |-> to, key |-> k, incr |-> i, id |-> x]]
  <2>1. Said(pc'[t], loc'[t]) = [op |-> to, key |-> k, incr |-> i, id |-> x]
    BY <1>1 DEF Told
  <2> QED
    BY <2>1, OneCall
<1>4. [[MCalls[t] EXCEPT !.op = to] EXCEPT !.id = x]
        = [op |-> to, key |-> k, incr |-> i, id |-> x]
  <2>1. [MCalls[t] EXCEPT !.op = to] = [op |-> to, key |-> k, incr |-> i, id |-> y]
    BY <1>2
  <2>2. [[op |-> to, key |-> k, incr |-> i, id |-> y] EXCEPT !.id = x]
          = [op |-> to, key |-> k, incr |-> i, id |-> x]
    OBVIOUS
  <2> QED
    BY <2>1, <2>2
<1>5. MCalls' = [MCalls EXCEPT ![t].op = to, ![t].id = x]
  BY <1>3, <1>4 DEF MCalls
<1>6. MCalls[t].op = from
  BY <1>2
<1> QED
  BY <1>5, <1>6 DEF Order!Goes, MCalls

(* A step after which the call is seen as before is none for AbOrder.      *)
LEMMA Stutters ==
  ASSUME NEW t \in Threads, Alone(t), dupl' = dupl, UNCHANGED hist,
         Said(pc'[t], loc'[t]) = Said(pc[t], loc[t])
  PROVE  UNCHANGED Order!vars
<1>1. MCalls' = MCalls
  <2>1. MCalls' = [MCalls EXCEPT ![t] = CallOf(t)]
    BY OneCall, CallNow
  <2> QED
    BY <2>1 DEF MCalls
<1> QED
  BY <1>1 DEF Order!vars, MCalls, hist

(* So are the steps between the start of a call and its effect.            *)
LEMMA AmidSame ==
  ASSUME NEW p \in Amid, NEW q \in Amid, NEW s, NEW r, SameNodes(s, r)
  PROVE  Said(q, s) = Said(p, r)
<1>1. /\ s.op = r.op /\ s.key = r.key /\ s.incr = r.incr
      /\ s.x = r.x /\ s.m = r.m /\ s.i = r.i
  BY DEF SameNodes, SameArgs
<1>2. {p, q} \cap {"dup_free", "num_add", "leave", "free_x", "free_m", "num_sub", "marker"} = {}
  BY DEF Amid
<1>3. \A o, x : Told(s, o, x) = Told(r, o, x)
  BY <1>1 DEF Told
<1>4. CASE r.op = "insert"
  BY <1>1, <1>2, <1>3, <1>4 DEF Said
<1>5. CASE r.op = "delete"
  BY <1>1, <1>2, <1>3, <1>5 DEF Said
<1>6. CASE r.op \notin {"insert", "delete"}
  BY <1>1, <1>2, <1>3, <1>6 DEF Said
<1> QED
  BY <1>4, <1>5, <1>6
-----------------------------------------------------------------------------
(* Steps inside a call that the list of the callers does not know of. *)

(* What a delete holds at each of its steps.                               *)
LEMMA DeleteFacts ==
  ASSUME IInv, NEW t \in Threads
  PROVE  /\ pc[t] \in DeleteOnly => loc[t].op = "delete"
         /\ pc[t] \in {"prev", "mark", "unlink", "free_x", "free_m", "num_sub"}
              => loc[t].m # Null /\ loc[t].x # Null
         /\ pc[t] \in {"flag", "marker"} => loc[t].m = Null /\ loc[t].x # Null
         /\ pc[t] = "forward" => /\ loc[t].m # Null => loc[t].x # Null
                                 /\ loc[t].x \in {Null, loc[t].at}
<1> PICK p, r : p = pc[t] /\ r = loc[t]
  OBVIOUS
<1>1. PICK may : Inv(may)
  BY DEF IInv
<1>2. About(p, r) /\ Local(t, p, r)
  BY <1>1 DEF Inv, ThreadInv, ThreadOK
<1>3. p \in DeleteOnly => r.op = "delete"
  BY <1>2 DEF Local
<1>4. p \in {"prev", "mark", "unlink", "free_x", "free_m", "num_sub"} => r.m # Null /\ r.x # Null
  BY <1>2, <1>3 DEF About, DeleteOnly, TakePCs, SearchPCs
<1>5. p \in {"flag", "marker"} => r.m = Null /\ r.x # Null
  BY <1>2, <1>3 DEF About, DeleteOnly, TakePCs, SearchPCs
<1>6. p = "forward" => (r.m # Null => r.x # Null) /\ r.x \in {Null, r.at}
  BY <1>2, <1>3 DEF About, Local, DeleteOnly
<1> QED
  BY <1>3, <1>4, <1>5, <1>6

(* A search is hidden from AbOrder.                                        *)
LEMMA SearchQuiet ==
  ASSUME IInv, NEW t \in Threads, Alone(t), dupl' = dupl,
         \/ FindStart(t) \/ FindMove(t) \/ FindDown(t) \/ FindAgain(t) \/ FindEqual(t)
  PROVE  UNCHANGED Order!vars
<1>1. UNCHANGED hist
  BY LinesUsed, HiddenKept DEF Hidden
<1>2. pc[t] \in Amid /\ pc'[t] \in Amid /\ SameNodes(loc'[t], loc[t])
  BY FindCall
<1> QED
  BY <1>1, <1>2, AmidSame, Stutters

(* So are the checks and retries.                                          *)
LEMMA GotoQuiet ==
  ASSUME IInv, NEW t \in Threads, Alone(t), dupl' = dupl,
         \/ InsertEnter(t) \/ DeleteEnter(t) \/ GetEnter(t) \/ InsertCheck(t) \/ InsertRetry(t)
         \/ DeleteAgain(t) \/ DeletePrev(t) \/ DeleteRetry(t) \/ InsertSet(t) \/ DeleteMark(t)
  PROVE  UNCHANGED Order!vars
<1>0. TypeOK
  BY LinesUsed
<1>1. UNCHANGED hist
  <2>1. CASE InsertSet(t) \/ DeleteMark(t)
    BY <2>1, NodeSteps
  <2>2. CASE ~ (InsertSet(t) \/ DeleteMark(t))
    BY <1>0, <2>2, HiddenKept DEF Hidden
  <2> QED
    BY <2>1, <2>2
<1>2. pc[t] \in Amid /\ pc'[t] \in Amid /\ loc'[t] = loc[t]
  BY <1>0, GotoCall
<1>3. SameNodes(loc'[t], loc[t])
  BY <1>2 DEF SameNodes, SameArgs
<1> QED
  BY <1>1, <1>2, <1>3, AmidSame, Stutters

(* So are the steps of an insert but its link on the lowest level, the end *)
(* of its links and its answer.                                            *)
LEMMA InsertQuiet ==
  ASSUME IInv, NEW t \in Threads, Alone(t), dupl' = dupl,
         \/ InsertNew(t) \/ InsertDupFree(t) \/ InsertFound(t) \/ InsertNum(t)
         \/ (InsertLink(t) /\ loc[t].i # 1)
  PROVE  UNCHANGED Order!vars
<1>0. TypeOK /\ pc \in [Threads -> PCs] /\ loc \in [Threads -> Locals] /\ loc[t] \in Locals
  BY LinesUsed, LocalsTyped
<1>1. PICK may : Inv(may)
  BY DEF IInv
<1> PICK p, r, q, s : p = pc[t] /\ r = loc[t] /\ q = pc'[t] /\ s = loc'[t]
  OBVIOUS
<1>2. Local(t, p, r) /\ About(p, r) /\ PutOK(p, r)
  BY <1>1 DEF Inv, ThreadInv, ThreadOK
<1>3. SameArgs(s, r)
  BY NodeCall, FoundCall
<1>4. \A o, x : Told(s, o, x) = Told(r, o, x)
  BY <1>3 DEF Told, SameArgs
<1>5. UNCHANGED hist
  <2>1. CASE InsertNew(t)
    BY <2>1, NodeSteps
  <2>2. CASE InsertLink(t) /\ loc[t].i # 1
    BY <2>2, WordSteps
  <2>3. CASE InsertDupFree(t) \/ InsertFound(t) \/ InsertNum(t)
    BY <1>0, <2>3, HiddenKept DEF Hidden
  <2> QED
    BY <2>1, <2>2, <2>3
<1>6. CASE InsertNew(t)
  <2>1. p = "new" /\ q = "enter" /\ s.i = r.i
    BY <1>0, <1>6 DEF InsertNew, Goto, Locals
  <2>2. r.op = "insert" /\ s.op = "insert" /\ r.i = 0
    BY <1>2, <1>3, <2>1 DEF Local, SameArgs, InsertOnly
  <2>3. Said(q, s) = Told(s, "insert", Null)
    BY <2>1, <2>2 DEF Said
  <2>4. Said(p, r) = Told(r, "insert", Null)
    BY <2>1, <2>2 DEF Said
  <2> QED
    BY <1>4, <1>5, <2>3, <2>4, Stutters
<1>7. CASE InsertDupFree(t)
  <2>1. p = "dup_free" /\ q = "leave" /\ s.x = Null
    BY <1>0, <1>7 DEF InsertDupFree, Goto, Locals
  <2>2. r.op = "insert" /\ s.op = "insert"
    BY <1>2, <1>3, <2>1 DEF Local, SameArgs, InsertOnly
  <2>3. Said(q, s) = Told(s, "done", Null) /\ Said(p, r) = Told(r, "done", Null)
    BY <2>1, <2>2 DEF Said
  <2> QED
    BY <1>4, <1>5, <2>3, Stutters
<1>8. CASE InsertFound(t)
  <2>1. p = "find" /\ q = "check" /\ s.x = r.x /\ s.i = IF r.i = 0 THEN 1 ELSE r.i
    BY <1>8, FoundCall
  <2>2. r.op = "insert" /\ s.op = "insert" /\ r.i \in Nat
    <3>1. r.op = "insert" /\ s.op = "insert"
      BY <1>3, <1>8 DEF InsertFound, SameArgs
    <3>2. r.i \in 0 .. MaxHeight + 1
      BY <1>0 DEF Locals
    <3> QED
      BY <3>1, <3>2
  <2>3. s.i > 1 <=> r.i > 1
    BY <2>1, <2>2
  <2>4. Said(q, s) = IF r.i > 1 THEN Told(s, "inserting", r.x) ELSE Told(s, "insert", Null)
    BY <2>1, <2>2, <2>3 DEF Said
  <2>5. Said(p, r) = IF r.i > 1 THEN Told(r, "inserting", r.x) ELSE Told(r, "insert", Null)
    BY <2>1, <2>2 DEF Said
  <2> QED
    BY <1>4, <1>5, <2>4, <2>5, Stutters
<1>9. CASE InsertNum(t)
  <2>1. p = "num_add" /\ q = "leave" /\ s = r
    BY <1>0, <1>9 DEF InsertNum, Goto
  <2>2. r.op = "insert"
    BY <1>2, <2>1 DEF Local, InsertOnly
  <2>3. Said(q, s) = Told(r, "done", r.x) /\ Said(p, r) = Told(r, "done", r.x)
    BY <2>1, <2>2 DEF Said
  <2> QED
    BY <1>5, <2>3, Stutters
<1>10. CASE InsertLink(t) /\ loc[t].i # 1
  <2>1. p = "link" /\ q \in {"inserted", "check"} /\ s = [r EXCEPT !.i = @ + 1]
    BY <1>0, <1>10 DEF InsertLink, Goto
  <2>2. r.op = "insert"
    BY <1>2, <2>1 DEF Local, InsertOnly
  <2>3. r.x # Null
    BY <1>2, <2>1, <2>2 DEF About
  <2>4. Puts(p, r)
    BY <2>1, <2>2, <2>3 DEF Puts, PutPCs
  <2>5. r.i \in 1 .. info[r.x].lvl /\ info[r.x].lvl \in Levels
    BY <1>2, <2>1, <2>4 DEF PutOK
  <2>6. s.i = r.i + 1 /\ s.x = r.x
    BY <1>0, <2>1 DEF Locals
  <2>7. r.i > 1 /\ s.i > 1
    BY <1>10, <2>5, <2>6
  <2>8. s.op = "insert"
    BY <1>3, <2>2 DEF SameArgs
  <2>9. Said(q, s) = Told(s, "inserting", s.x)
    BY <2>1, <2>7, <2>8 DEF Said
  <2>10. Said(p, r) = Told(r, "inserting", r.x)
    BY <2>1, <2>2, <2>7 DEF Said
  <2> QED
    BY <1>4, <1>5, <2>6, <2>9, <2>10, Stutters
<1> QED
  BY <1>6, <1>7, <1>8, <1>9, <1>10

(* So are those of a delete but its flag, its unlink on the lowest level   *)
(* and its answer.                                                         *)
LEMMA DeleteQuiet ==
  ASSUME IInv, NEW t \in Threads, Alone(t), dupl' = dupl,
         \/ Forward(t) \/ DeleteMarker(t) \/ DeleteFree(t) \/ DeleteFreeMarker(t)
         \/ DeleteNum(t) \/ (DeleteUnlink(t) /\ loc[t].i # 1)
         \/ (DeleteBusy(t) /\ dupl /\ loc[t].incr = 0)
  PROVE  UNCHANGED Order!vars
<1>0. TypeOK /\ pc \in [Threads -> PCs] /\ loc \in [Threads -> Locals] /\ loc[t] \in Locals
  BY LinesUsed, LocalsTyped
<1> PICK p, r, q, s : p = pc[t] /\ r = loc[t] /\ q = pc'[t] /\ s = loc'[t]
  OBVIOUS
<1>1. /\ p \in DeleteOnly => r.op = "delete"
      /\ p \in {"prev", "mark", "unlink", "free_x", "free_m", "num_sub"} => r.m # Null /\ r.x # Null
      /\ p \in {"flag", "marker"} => r.m = Null /\ r.x # Null
      /\ p = "forward" => (r.m # Null => r.x # Null) /\ r.x \in {Null, r.at}
  BY DeleteFacts
<1>2. SameArgs(s, r)
  BY NodeCall
<1>3. \A o, x : Told(s, o, x) = Told(r, o, x)
  BY <1>2 DEF Told, SameArgs
<1>4. s.op = r.op
  BY <1>2 DEF SameArgs
<1>5. UNCHANGED hist
  <2>1. CASE DeleteMarker(t)
    BY <2>1, NodeSteps
  <2>2. CASE DeleteUnlink(t) /\ loc[t].i # 1
    BY <2>2, WordSteps
  <2>3. CASE Forward(t) \/ DeleteFree(t) \/ DeleteFreeMarker(t) \/ DeleteNum(t) \/ DeleteBusy(t)
    BY <1>0, <2>3, HiddenKept DEF Hidden
  <2> QED
    BY <2>1, <2>2, <2>3
<1>6. CASE Forward(t)
  <2>1. /\ p = "forward" /\ q \in {"forward", "flag", "prev"} /\ s.m = r.m
        /\ s.x \in {r.x, r.at}
    BY <1>0, <1>6 DEF Forward, Goto, Locals
  <2>2. r.op = "delete"
    BY <1>1, <2>1 DEF DeleteOnly
  <2>3. r.m # Null => s.x = r.x
    BY <1>1, <2>1
  <2>4. Said(q, s) = IF r.m # Null THEN Told(s, "deleting", s.x) ELSE Told(s, "delete", Null)
    BY <1>4, <2>1, <2>2 DEF Said
  <2>5. Said(p, r) = IF r.m # Null THEN Told(r, "deleting", r.x) ELSE Told(r, "delete", Null)
    BY <2>1, <2>2 DEF Said
  <2> QED
    BY <1>3, <1>5, <2>3, <2>4, <2>5, Stutters
<1>7. CASE DeleteMarker(t)
  <2>1. p = "marker" /\ q = "prev" /\ s.x = r.x
    BY <1>0, <1>7 DEF DeleteMarker, Goto, Locals
  <2>2. r.op = "delete"
    BY <1>1, <2>1 DEF DeleteOnly
  <2>3. Said(q, s) = Told(s, "deleting", s.x)
    <3>1. s.m # Null
      <4>1. PICK m : m = FreeItem
        OBVIOUS
      <4>2. m \in Items
        BY <1>7, <4>1 DEF DeleteMarker, NewNode
      <4>3. s.m = m
        BY <1>0, <1>7, <4>1 DEF DeleteMarker, Locals
      <4> QED
        BY <4>2, <4>3, NodeAssumption
    <3> QED
      BY <1>4, <2>1, <2>2, <3>1 DEF Said
  <2>4. Said(p, r) = Told(r, "deleting", r.x)
    BY <2>1, <2>2 DEF Said
  <2> QED
    BY <1>3, <1>5, <2>1, <2>3, <2>4, Stutters
<1>8. CASE DeleteFree(t) \/ DeleteFreeMarker(t) \/ DeleteNum(t)
  <2>1. /\ p \in {"free_x", "free_m", "num_sub"} /\ q \in {"free_m", "num_sub", "leave"}
        /\ s.x = r.x /\ s.m = r.m
    <3>1. CASE DeleteFree(t)
      BY <1>0, <3>1 DEF DeleteFree, Goto, Locals
    <3>2. CASE DeleteFreeMarker(t) \/ DeleteNum(t)
      BY <1>0, <3>2 DEF DeleteFreeMarker, DeleteNum, Goto
    <3> QED
      BY <1>8, <3>1, <3>2
  <2>2. r.op = "delete" /\ r.m # Null
    BY <1>1, <2>1 DEF DeleteOnly
  <2>3. Said(q, s) = Told(s, "done", s.x) /\ Said(p, r) = Told(r, "done", r.x)
    BY <1>4, <2>1, <2>2 DEF Said
  <2> QED
    BY <1>3, <1>5, <2>1, <2>3, Stutters
<1>9. CASE DeleteUnlink(t) /\ loc[t].i # 1
  <2>1. p = "unlink" /\ q = "prev" /\ s.x = r.x /\ s.m = r.m
    BY <1>0, <1>9 DEF DeleteUnlink, Goto, Locals
  <2>2. r.op = "delete" /\ r.m # Null
    BY <1>1, <2>1 DEF DeleteOnly
  <2>3. Said(q, s) = Told(s, "deleting", s.x) /\ Said(p, r) = Told(r, "deleting", r.x)
    BY <1>4, <2>1, <2>2 DEF Said
  <2> QED
    BY <1>3, <1>5, <2>1, <2>3, Stutters
<1>10. CASE DeleteBusy(t) /\ dupl /\ loc[t].incr = 0
  <2>1. p = "flag" /\ q = "again" /\ s = Bare(t)
    BY <1>0, <1>10 DEF DeleteBusy, Goto
  <2>2. s.m = Null
    BY <1>0, <2>1, BareFields
  <2>3. r.op = "delete" /\ r.m = Null
    BY <1>1, <2>1 DEF DeleteOnly
  <2>4. Said(q, s) = Told(s, "delete", Null)
    BY <1>4, <2>1, <2>2, <2>3 DEF Said
  <2>5. Said(p, r) = Told(r, "delete", Null)
    BY <2>1, <2>3 DEF Said
  <2> QED
    BY <1>3, <1>5, <2>4, <2>5, Stutters
<1> QED
  BY <1>6, <1>7, <1>8, <1>9, <1>10
-----------------------------------------------------------------------------
(* Steps that begin, answer or end a call. *)

(* A call begins in AbOrder too.                                           *)
LEMMA StartStep ==
  ASSUME IInv, NEW t \in Threads, Alone(t), dupl' = dupl, Call(t)
  PROVE  Order!Next
<1> PICK s, q : s = loc'[t] /\ q = pc'[t]
  OBVIOUS
<1>1. /\ pc[t] = "idle" /\ q \in {"new", "enter"} /\ recs' = recs
      /\ s.op \in Ops /\ s.key \in Keys /\ s.i = 0 /\ s.x = Null /\ s.m = Null
      /\ seen' = [seen EXCEPT ![t] = {View(recs, s.key)}]
  BY CallSeen
<1>2. s.incr \in Incrs
  <2>1. s.incr \in (IF dupl THEN Incrs ELSE {0})
    BY CallSeen
  <2> QED
    BY <2>1, IncrAssumption
<1>3. s.op \in {"insert", "delete", "get"}
  BY <1>1, OpAssumption
<1>4. Said(q, s) = Told(s, s.op, Null)
  <2>1. CASE s.op = "insert"
    BY <1>1, <2>1 DEF Said
  <2>2. CASE s.op = "delete"
    BY <1>1, <2>2 DEF Said
  <2>3. CASE s.op = "get"
    BY <1>1, <2>3 DEF Said
  <2> QED
    BY <1>3, <2>1, <2>2, <2>3
<1> PICK o, k, i : o = s.op /\ k = s.key /\ i = s.incr
  OBVIOUS
<1>5. MCalls[t] = Order!NoCall
  BY <1>1, InNoCall DEF MCalls
<1>6. MCalls' = [MCalls EXCEPT ![t] = [Order!NoCall EXCEPT !.op = o, !.key = k, !.incr = i]]
  <2> PICK c : c = Order!NoCall
    OBVIOUS
  <2>1. c = [op |-> "none", key |-> 0, incr |-> 0, id |-> Null]
    BY DEF Order!NoCall
  <2>2. [c EXCEPT !.op = o, !.key = k, !.incr = i]
          = [op |-> o, key |-> k, incr |-> i, id |-> Null]
    <3>1. [c EXCEPT !.op = o] = [op |-> o, key |-> 0, incr |-> 0, id |-> Null]
      BY <2>1
    <3>2. [[op |-> o, key |-> 0, incr |-> 0, id |-> Null] EXCEPT !.key = k]
            = [op |-> o, key |-> k, incr |-> 0, id |-> Null]
      OBVIOUS
    <3>3. [[op |-> o, key |-> k, incr |-> 0, id |-> Null] EXCEPT !.incr = i]
            = [op |-> o, key |-> k, incr |-> i, id |-> Null]
      OBVIOUS
    <3>4. [[[c EXCEPT !.op = o] EXCEPT !.key = k] EXCEPT !.incr = i]
            = [op |-> o, key |-> k, incr |-> i, id |-> Null]
      BY <3>1, <3>2, <3>3
    <3> QED
      BY <3>4
  <2>3. [Order!NoCall EXCEPT !.op = o, !.key = k, !.incr = i] = Said(q, s)
    BY <1>4, <2>2 DEF Told
  <2> QED
    BY <2>3, OneCall
<1>7. seen' = [seen EXCEPT ![t] = {Order!View(recs, k)}]
  BY <1>1 DEF View, Order!View
<1>8. o \in {"insert", "delete", "get"} /\ k \in Keys /\ i \in Incrs
  BY <1>1, <1>2, <1>3
<1>9. Order!Start(t)
  <2>1. \E a \in {"insert", "delete", "get"}, b \in Keys, c \in Incrs :
          /\ MCalls' = [MCalls EXCEPT ![t] = [Order!NoCall EXCEPT !.op = a, !.key = b, !.incr = c]]
          /\ seen' = [seen EXCEPT ![t] = {Order!View(recs, b)}]
    BY <1>6, <1>7, <1>8, Zenon
  <2>2. dupl' = dupl /\ recs' = recs
    BY <1>1
  <2> QED
    BY <1>5, <2>1, <2>2, Zenon DEF Order!Start, MCalls
<1> QED
  BY <1>9 DEF Order!Next

(* It returns there too.                                                   *)
LEMMA ReturnsStep ==
  ASSUME IInv, NEW t \in Threads, Alone(t), dupl' = dupl, Return(t)
  PROVE  Order!Next
<1> PICK p, r, q, s : p = pc[t] /\ r = loc[t] /\ q = pc'[t] /\ s = loc'[t]
  OBVIOUS
<1>1. /\ p = "leave" /\ q = "idle" /\ s = NoLocals /\ recs' = recs
      /\ seen' = [seen EXCEPT ![t] = {}]
  BY ReturnSeen
<1>2. Said(q, s) = Order!NoCall
  <2>1. s.op = "none" /\ s.key = 0 /\ s.incr = 0
    BY <1>1 DEF NoLocals
  <2>2. Said(q, s) = Told(s, "none", Null)
    BY <2>1 DEF Said
  <2> QED
    BY <2>1, <2>2 DEF Told, Order!NoCall
<1>3. MCalls' = [MCalls EXCEPT ![t] = Order!NoCall]
  BY <1>2, OneCall
<1>4. Said(p, r).op = "done"
  <2>1. PICK may : Inv(may)
    BY DEF IInv
  <2>2. p = "idle" <=> r.op = "none"
    BY <2>1 DEF Inv, ThreadInv, ThreadOK, Local
  <2>3. loc[t] \in Locals
    BY LinesUsed, LocalsTyped
  <2>4. r.op \in {"insert", "delete", "get"}
    BY <1>1, <2>2, <2>3, OpAssumption DEF Locals
  <2>5. CASE r.op = "insert"
    BY <1>1, <2>5, ToldFields DEF Said
  <2>6. CASE r.op = "delete"
    BY <1>1, <2>6, ToldFields DEF Said
  <2>7. CASE r.op = "get"
    BY <1>1, <2>7, ToldFields DEF Said
  <2> QED
    BY <2>4, <2>5, <2>6, <2>7
<1>5. MCalls[t].op = "done"
  BY <1>4, CallNow DEF MCalls
<1>6. Order!Return(t)
  BY <1>1, <1>3, <1>5 DEF Order!Return, MCalls
<1> QED
  BY <1>6 DEF Order!Next

(* The arguments are the same.                                             *)
LEMMA CallArgs == \A t \in Threads : MCalls[t].key = loc[t].key /\ MCalls[t].incr = loc[t].incr
BY CallNow, SaidKey DEF MCalls

(* An insert that gives up answers as AbOrder allows: the key was taken at *)
(* some moment of the call.                                                *)
LEMMA DupMaps ==
  ASSUME NEW may, NEW t \in Threads, Knows(may, t), Alone(t), dupl' = dupl, InsertDup(t)
  PROVE  Order!Next
<1> PICK p, r, q, s : p = pc[t] /\ r = loc[t] /\ q = pc'[t] /\ s = loc'[t]
  OBVIOUS
<1>0. IInv /\ TypeOK
  BY LinesUsed DEF Knows, IInv
<1>1. ~dupl /\ \E v \in seen[t] : v # {}
  BY DupAnswer
<1>2. /\ p = "find" /\ SameArgs(s, r) /\ q = "dup_free" /\ r.op = "insert" /\ r.i = 0
  <2>1. p = "find" /\ SameArgs(s, r)
    BY <1>0, EndCall
  <2>2. pc \in [Threads -> PCs]
    BY <1>0, LocalsTyped
  <2> QED
    BY <2>1, <2>2 DEF InsertDup, Ends
<1>3. Said(p, r) = Told(r, "insert", Null) /\ Said(q, s) = Told(s, "done", Null)
  <2>1. s.op = "insert"
    BY <1>2 DEF SameArgs
  <2> QED
    BY <1>2, <2>1 DEF Said
<1>4. Order!Goes(t, "insert", "done", Null)
  BY <1>2, <1>3, GoesIs
<1>5. recs' = recs /\ seen' = seen
  BY <1>0, HiddenKept DEF Hidden, hist
<1>6. Order!InsertFails(t)
  BY <1>1, <1>4, <1>5 DEF Order!InsertFails
<1> QED
  BY <1>6 DEF Order!Next

(* So does a delete that finds nothing.                                    *)
LEMMA NoneMaps ==
  ASSUME NEW may, NEW t \in Threads, Knows(may, t), Alone(t), dupl' = dupl, FindNone(t)
  PROVE  Order!Next
<1> PICK p, r, q, s : p = pc[t] /\ r = loc[t] /\ q = pc'[t] /\ s = loc'[t]
  OBVIOUS
<1>0. IInv /\ TypeOK
  BY LinesUsed DEF Knows, IInv
<1>1. \E v \in seen[t] : Order!Chosen(v, r.incr) = {}
  BY NoneAnswer
<1>2. /\ p = "find" /\ SameArgs(s, r) /\ q = "leave" /\ r.op = "delete" /\ r.m = Null
      /\ s.m = Null
  <2>1. p = "find" /\ SameArgs(s, r) /\ s.m = Null
    BY <1>0, EndCall
  <2>2. pc \in [Threads -> PCs]
    BY <1>0, LocalsTyped
  <2>3. q = "leave" /\ r.op = "delete" /\ r.x = Null
    BY <2>2 DEF FindNone, Ends
  <2>4. About(p, r)
    BY DEF Knows, Inv, ThreadInv, ThreadOK
  <2> QED
    BY <2>1, <2>3, <2>4 DEF About
<1>3. Said(p, r) = Told(r, "delete", Null) /\ Said(q, s) = Told(s, "done", Null)
  <2>1. s.op = "delete"
    BY <1>2 DEF SameArgs
  <2> QED
    BY <1>2, <2>1 DEF Said
<1>4. Order!Goes(t, "delete", "done", Null)
  BY <1>2, <1>3, GoesIs
<1>5. recs' = recs /\ seen' = seen
  BY <1>0, HiddenKept DEF Hidden, hist
<1>6. \E v \in seen[t] : Order!Chosen(v, MCalls[t].incr) = {}
  BY <1>1, CallArgs
<1>7. Order!DeleteFails(t)
  BY <1>4, <1>5, <1>6 DEF Order!DeleteFails, MCalls
<1> QED
  BY <1>7 DEF Order!Next

(* And a get, whether it returns a node or none.                           *)
LEMMA GetMaps ==
  ASSUME NEW may, NEW t \in Threads, Knows(may, t), Alone(t), dupl' = dupl, GetFound(t)
  PROVE  Order!Next
<1> PICK p, r, q, s : p = pc[t] /\ r = loc[t] /\ q = pc'[t] /\ s = loc'[t]
  OBVIOUS
<1>0. IInv /\ TypeOK /\ pc \in [Threads -> PCs] /\ loc \in [Threads -> Locals] /\ r \in Locals
  BY LinesUsed, LocalsTyped DEF Knows, IInv
<1>1. PICK n : /\ r.op = "get" /\ Stops(t, n) /\ r.lvl = 1 /\ q = "leave"
               /\ s = [Bare(t) EXCEPT !.x = IF SameKey(t, n) THEN n ELSE Null]
  BY <1>0 DEF GetFound, Ends
<1> PICK y : y = IF SameKey(t, n) THEN n ELSE Null
  OBVIOUS
<1>2. \E v \in seen[t] : y \in Order!FirstIds(v, r.incr)
  BY <1>1, GetAnswer
<1>3. p = "find" /\ SameArgs(s, r) /\ s.op = "get"
  <2>1. p = "find" /\ SameArgs(s, r)
    BY <1>0, EndCall
  <2>2. r.op = "get"
    BY <1>1
  <2> QED
    BY <2>1, <2>2 DEF SameArgs
<1>4. s.x = y
  BY <1>0, <1>1, BareFields DEF Locals
<1>5. Said(p, r) = Told(r, "get", Null) /\ Said(q, s) = Told(s, "done", y)
  BY <1>1, <1>3, <1>4 DEF Said
<1>6. Order!Goes(t, "get", "done", y)
  BY <1>3, <1>5, GoesIs
<1>7. recs' = recs /\ seen' = seen
  BY <1>0, HiddenKept DEF Hidden, hist
<1>8. \E v \in seen[t] : y \in Order!FirstIds(v, MCalls[t].incr)
  BY <1>2, CallArgs
<1>9. Order!Get(t)
  BY <1>6, <1>7, <1>8 DEF Order!Get, MCalls
<1> QED
  BY <1>9 DEF Order!Next

(* The record of a node that a delete has found is one it may choose.      *)
LEMMA ChosenIs ==
  ASSUME NEW v, v \subseteq Recs, NEW r \in v, NEW i,
         i = 0 => \A q \in v : q.incr = 0, i # 0 => r.incr = i
  PROVE  r \in Order!Chosen(v, i)
<1>1. CASE i = 0
  <2>1. \A q \in v : q.incr >= 0 /\ r.incr <= q.incr
    BY <1>1
  <2>2. r.id \in Order!FirstIds(v, 0)
    BY <2>1 DEF Order!FirstIds
  <2> QED
    BY <1>1, <2>2 DEF Order!Chosen
<1>2. CASE i # 0
  BY <1>2 DEF Order!Chosen
<1> QED
  BY <1>1, <1>2

(* A delete that meets a node that is being inserted or deleted has seen   *)
(* its record like that.                                                   *)
LEMMA BusyAnswer ==
  ASSUME NEW may, NEW t \in Threads, Knows(may, t), DeleteBusy(t), ~(dupl /\ loc[t].incr = 0)
  PROVE  \E v \in seen[t] : \E r \in Order!Chosen(v, loc[t].incr) : r.st # "there"
<1> PICK p, r : p = pc[t] /\ r = loc[t]
  OBVIOUS
<1> PICK x, k, i : x = r.x /\ k = r.key /\ i = r.incr
  OBVIOUS
<1>0. IInv /\ TypeOK /\ r \in Locals
  BY LinesUsed, LocalsTyped DEF Knows, IInv
<1>1. p = "flag" /\ (info[x].deleting \/ info[x].inserting)
  BY DEF DeleteBusy, Goto
<1>2. r.op = "delete" /\ r.x # Null /\ x \in Items
  BY <1>0, <1>1, DeleteFacts DEF DeleteOnly, Locals
<1>3. Found(t, x)
  BY <1>1 DEF Knows, Met
<1>4. info[x].key = k /\ (i # 0 => info[x].incr = i)
  BY <1>3 DEF Found
<1>5. /\ \A v \in seen[t] : v \subseteq Recs
      /\ i = 0 => \A v \in seen[t] : \A q \in v : q.incr = 0
  BY <1>0 DEF TypeOK, Knows, Plain0
<1>6. \E v \in seen[t] : \E q \in v : q.st # "there" /\ q.incr = info[x].incr
  <2>1. CASE x \in On(next, 1)
    <3>1. Rec(x) \in View(recs, k)
      BY <1>4, <2>1 DEF Knows, Listed, Rec, View
    <3>2. View(recs, k) \in seen[t]
      BY <1>1 DEF Knows, SeenNow
    <3>3. Rec(x).st # "there" /\ Rec(x).incr = info[x].incr
      BY <1>1 DEF Rec
    <3> QED
      BY <3>1, <3>2, <3>3
  <2>2. CASE x \notin On(next, 1)
    <3>1. x \in Nodes /\ x \notin Line(1)
      BY <1>2, <2>2, NodeAssumption DEF Nodes, Line
    <3>2. <<x, 1>> \in may[t]
      <4>1. Held(may, t, p, r) /\ Local(t, p, r)
        BY DEF Knows, Inv, ThreadInv, ThreadOK
      <4>2. ~Puts(p, r) /\ t \in inside
        BY <1>1, <1>2, <4>1 DEF Puts, Local
      <4> QED
        BY <1>2, <4>1, <4>2 DEF Held
    <3>3. Going(t, x)
      BY <1>4, <3>1, <3>2 DEF Knows, Hind
    <3> QED
      BY <3>3 DEF Going
  <2> QED
    BY <2>1, <2>2
<1>7. PICK v \in seen[t] : \E q \in v : q.st # "there" /\ q.incr = info[x].incr
  BY <1>6
<1>8. PICK q \in v : q.st # "there" /\ q.incr = info[x].incr
  BY <1>7
<1>9. q \in Order!Chosen(v, i)
  BY <1>4, <1>5, <1>8, ChosenIs
<1> QED
  BY <1>8, <1>9

(* So it answers as AbOrder allows.                                        *)
LEMMA BusyMaps ==
  ASSUME NEW may, NEW t \in Threads, Knows(may, t), Alone(t), dupl' = dupl, DeleteBusy(t),
         ~(dupl /\ loc[t].incr = 0)
  PROVE  Order!Next
<1> PICK p, r, q, s : p = pc[t] /\ r = loc[t] /\ q = pc'[t] /\ s = loc'[t]
  OBVIOUS
<1>0. IInv /\ TypeOK /\ pc \in [Threads -> PCs] /\ loc \in [Threads -> Locals] /\ r \in Locals
  BY LinesUsed, LocalsTyped DEF Knows, IInv
<1>1. p = "flag" /\ q = "leave" /\ s = Bare(t)
  BY <1>0 DEF DeleteBusy, Goto
<1>2. r.op = "delete" /\ r.m = Null /\ s.m = Null
  BY <1>0, <1>1, DeleteFacts, BareFields DEF DeleteOnly
<1>3. SameArgs(s, r)
  BY <1>0, NodeCall
<1>4. Said(p, r) = Told(r, "delete", Null) /\ Said(q, s) = Told(s, "done", Null)
  BY <1>1, <1>2, <1>3 DEF Said, SameArgs
<1>5. Order!Goes(t, "delete", "done", Null)
  BY <1>3, <1>4, GoesIs
<1>6. recs' = recs /\ seen' = seen
  BY <1>0, HiddenKept DEF Hidden, hist
<1>7. MCalls[t].incr = r.incr
  BY CallArgs
<1>8. \E v \in seen[t] : \E w \in Order!Chosen(v, MCalls[t].incr) : w.st # "there"
  BY <1>7, BusyAnswer
<1>9. Order!DeleteFails(t)
  BY <1>5, <1>6, <1>7, <1>8 DEF Order!DeleteFails, MCalls
<1> QED
  BY <1>9 DEF Order!Next
-----------------------------------------------------------------------------
(* Steps that change what the list holds. *)

(* A step that looks at the list changes it as AbOrder does, and what the  *)
(* calls have seen.                                                        *)
LEMMA BecomesIs ==
  ASSUME IInv, dupl' = dupl,
         seen' = [u \in Threads |-> IF pc[u] = "idle" THEN {}
                                    ELSE seen[u] \cup {View(recs', loc[u].key)}],
         NEW rs, rs = recs'
  PROVE  Order!Becomes(rs)
<1>1. ASSUME NEW u \in Threads
      PROVE  seen'[u] = IF MCalls[u] = Order!NoCall THEN {}
                        ELSE seen[u] \cup {Order!View(rs, MCalls[u].key)}
  <2>1. MCalls[u] = Order!NoCall <=> pc[u] = "idle"
    BY InNoCall DEF MCalls
  <2>2. MCalls[u].key = loc[u].key
    BY CallArgs
  <2>3. seen'[u] = IF pc[u] = "idle" THEN {} ELSE seen[u] \cup {View(rs, loc[u].key)}
    OBVIOUS
  <2>4. View(rs, loc[u].key) = Order!View(rs, loc[u].key)
    BY DEF View, Order!View
  <2> QED
    BY <2>1, <2>2, <2>3, <2>4
<1>2. seen' = [u \in Threads |-> seen'[u]]
  OBVIOUS
<1>3. seen' = [u \in Threads |-> IF MCalls[u] = Order!NoCall THEN {}
                                 ELSE seen[u] \cup {Order!View(rs, MCalls[u].key)}]
  BY <1>1, <1>2
<1> QED
  BY <1>3 DEF Order!Becomes, MCalls

(* Writing the flags of one node changes one record.                       *)
LEMMA TurnRecs ==
  ASSUME Listed, Listed', On(next, 1)' = On(next, 1), NEW x \in On(next, 1),
         \A y \in On(next, 1) : y # x => info'[y] = info[y],
         NEW r, r = Rec(x), NEW w, w = Rec(x)'
  PROVE  r \in recs /\ recs' = (recs \ {r}) \cup {w}
<1>1. \A y \in On(next, 1) : y # x => Rec(y)' = Rec(y) /\ Rec(y) # r
  BY DEF Rec
<1>2. r \in recs
  BY DEF Listed
<1>3. recs' = {Rec(y)' : y \in On(next, 1)}
  BY DEF Listed
<1>4. recs = {Rec(y) : y \in On(next, 1)}
  BY DEF Listed
<1>5. \A z : z \in recs' <=> z \in (recs \ {r}) \cup {w}
  <2>1. ASSUME NEW z, z \in recs' PROVE z \in (recs \ {r}) \cup {w}
    BY <1>1, <1>3, <1>4, <2>1
  <2>2. ASSUME NEW z \in recs, z # r PROVE z \in recs'
    BY <1>1, <1>3, <1>4, <2>2
  <2>3. w \in recs'
    BY <1>3
  <2> QED
    BY <2>1, <2>2, <2>3
<1> QED
  BY <1>2, <1>5

(* The end of the links is where AbOrder ends an insert.                   *)
LEMMA InsertedMaps ==
  ASSUME NEW may, NEW t \in Threads, Knows(may, t), Listed', Alone(t), dupl' = dupl, Inserted(t)
  PROVE  Order!Next
<1> PICK p, r, q, s : p = pc[t] /\ r = loc[t] /\ q = pc'[t] /\ s = loc'[t]
  OBVIOUS
<1> PICK x : x = r.x
  OBVIOUS
<1>0. /\ IInv /\ TypeOK /\ pc \in [Threads -> PCs] /\ loc \in [Threads -> Locals]
      /\ r \in Locals /\ DOMAIN info = Nodes
  BY LinesUsed, LocalsTyped DEF Knows, IInv, TypeOK
<1>1. p = "inserted" /\ q = "num_add" /\ s.x = x
  BY <1>0 DEF Inserted, Goto, Locals
<1>2. SameArgs(s, r) /\ r.op = "insert" /\ s.op = "insert"
  <2>1. SameArgs(s, r)
    BY <1>0, NodeCall
  <2>2. r.op = "insert"
    BY <1>0, <1>1, OpFacts DEF InsertOnly
  <2> QED
    BY <2>1, <2>2 DEF SameArgs
<1>3. Puts(p, r) /\ PutOK(p, r) /\ x \in Items
  <2>1. PutOK(p, r) /\ About(p, r)
    BY DEF Knows, Inv, ThreadInv, ThreadOK
  <2>2. x # Null
    BY <1>1, <1>2, <2>1 DEF About
  <2> QED
    BY <1>0, <1>1, <1>2, <2>1, <2>2 DEF Puts, PutPCs, Locals
<1>4. /\ info[x].inserting /\ ~info[x].deleting /\ info[x].lvl \in Levels
      /\ r.i = info[x].lvl + 1 /\ \A l \in Levels : x \in On(next, l) <=> l < r.i
  BY <1>1, <1>3 DEF PutOK
<1>5. r.i > 1
  <2>1. info[x].lvl >= 1 /\ info[x].lvl \in Int
    BY <1>4, BoundAssumption DEF Levels
  <2> QED
    BY <1>4, <2>1
<1>6. x \in On(next, 1)
  <2>1. 1 < r.i
    BY <1>4, <1>5
  <2> QED
    BY <1>4, <2>1, LevelOne
<1>7. On(next, 1)' = On(next, 1)
  BY FlatLow, InsertedInv DEF Knows
<1>8. info' = [info EXCEPT ![x].inserting = FALSE] /\ See(next, info')
  BY DEF Inserted
<1>9. \A y \in On(next, 1) : y # x => info'[y] = info[y]
  BY <1>8
<1> PICK u, w : u = Rec(x) /\ w = Rec(x)'
  OBVIOUS
<1>10. u \in recs /\ recs' = (recs \ {u}) \cup {w}
  BY <1>6, <1>7, <1>9, TurnRecs DEF Knows
<1>11. u.id = x /\ u.st = "coming" /\ w = [u EXCEPT !.st = "there"]
  <2>1. x \in Nodes
    BY <1>3 DEF Nodes
  <2>2. /\ info'[x].key = info[x].key /\ info'[x].incr = info[x].incr
        /\ ~info'[x].deleting /\ ~info'[x].inserting
    <3>1. info[x] \in [key : Keys \cup {0}, incr : Nat, lvl : 0 .. MaxHeight,
                       marker : BOOLEAN, deleting : BOOLEAN, inserting : BOOLEAN]
      BY <1>0, <2>1 DEF TypeOK
    <3> QED
      BY <1>0, <1>4, <1>8, <2>1, <3>1
  <2> PICK k, i : k = info[x].key /\ i = info[x].incr
    OBVIOUS
  <2>3. u = [id |-> x, key |-> k, incr |-> i, st |-> "coming"]
    BY <1>4 DEF Rec
  <2>4. w = [id |-> x, key |-> k, incr |-> i, st |-> "there"]
    BY <2>2 DEF Rec
  <2> QED
    BY <2>3, <2>4
<1>12. Order!Turns(u, "there")
  <2>1. Order!Becomes((recs \ {u}) \cup {w})
    <3>1. seen' = [v \in Threads |-> IF pc[v] = "idle" THEN {}
                                     ELSE seen[v] \cup {View(recs', loc[v].key)}]
      BY <1>8 DEF See
    <3> QED
      BY <1>0, <1>10, <3>1, BecomesIs
  <2> QED
    BY <1>11, <2>1 DEF Order!Turns
<1>13. Order!Goes(t, "inserting", "done", x)
  <2>1. Said(p, r) = Told(r, "inserting", x)
    BY <1>1, <1>2, <1>5 DEF Said
  <2>2. Said(q, s) = Told(s, "done", x)
    BY <1>1, <1>2 DEF Said
  <2> QED
    BY <1>2, <2>1, <2>2, GoesIs
<1>14. MCalls[t].id = x
  <2>1. Said(p, r) = Told(r, "inserting", x)
    BY <1>1, <1>2, <1>5 DEF Said
  <2>2. MCalls[t] = Said(p, r)
    BY CallNow DEF MCalls
  <2> QED
    BY <2>1, <2>2, ToldFields
<1>15. Order!InsertEnds(t)
  BY <1>10, <1>11, <1>12, <1>13, <1>14 DEF Order!InsertEnds, MCalls
<1> QED
  BY <1>15 DEF Order!Next

(* The flag of a delete is where AbOrder chooses the record.               *)
LEMMA FlagMaps ==
  ASSUME NEW may, NEW t \in Threads, Knows(may, t), Listed', Alone(t), dupl' = dupl, DeleteFlag(t)
  PROVE  Order!Next
<1> PICK p, r, q, s : p = pc[t] /\ r = loc[t] /\ q = pc'[t] /\ s = loc'[t]
  OBVIOUS
<1> PICK x : x = r.x
  OBVIOUS
<1>0. /\ IInv /\ TypeOK /\ pc \in [Threads -> PCs] /\ loc \in [Threads -> Locals]
      /\ r \in Locals /\ DOMAIN info = Nodes
  BY LinesUsed, LocalsTyped DEF Knows, IInv, TypeOK
<1>1. p = "flag" /\ q = "marker" /\ s = r /\ ~info[x].deleting /\ ~info[x].inserting
  BY <1>0 DEF DeleteFlag, Goto
<1>2. SameArgs(s, r) /\ r.op = "delete" /\ r.m = Null /\ x \in Items
  BY <1>0, <1>1, DeleteFacts DEF DeleteOnly, Locals, SameArgs
<1>3. x \in On(next, 1)
  <2>1. x \in Nodes /\ x # head
    BY <1>2, NodeAssumption DEF Nodes
  <2>2. <<x, 1>> \in may[t]
    <3>1. Held(may, t, p, r) /\ Local(t, p, r)
      BY DEF Knows, Inv, ThreadInv, ThreadOK
    <3>2. ~Puts(p, r) /\ t \in inside /\ r.x # Null
      BY <1>1, <1>2, <3>1, NodeAssumption DEF Puts, Local
    <3> QED
      BY <3>1, <3>2 DEF Held
  <2>3. x \notin Line(1) => info[x].deleting
    BY <2>1, <2>2, MayFacts, LevelOne DEF Knows, Gone
  <2> QED
    BY <1>1, <2>1, <2>3 DEF Line
<1>7. On(next, 1)' = On(next, 1)
  BY FlatLow, DeleteFlagInv DEF Knows
<1>8. info' = [info EXCEPT ![x].deleting = TRUE] /\ See(next, info')
  BY DEF DeleteFlag
<1>9. \A y \in On(next, 1) : y # x => info'[y] = info[y]
  BY <1>8
<1> PICK u, w : u = Rec(x) /\ w = Rec(x)'
  OBVIOUS
<1>10. u \in recs /\ recs' = (recs \ {u}) \cup {w}
  BY <1>3, <1>7, <1>9, TurnRecs DEF Knows
<1>11. u.id = x /\ u.st = "there" /\ w = [u EXCEPT !.st = "going"]
  <2>1. x \in Nodes
    BY <1>2 DEF Nodes
  <2>2. /\ info'[x].key = info[x].key /\ info'[x].incr = info[x].incr /\ info'[x].deleting
    <3>1. info[x] \in [key : Keys \cup {0}, incr : Nat, lvl : 0 .. MaxHeight,
                       marker : BOOLEAN, deleting : BOOLEAN, inserting : BOOLEAN]
      BY <1>0, <2>1 DEF TypeOK
    <3> QED
      BY <1>0, <1>8, <2>1, <3>1
  <2> PICK k, i : k = info[x].key /\ i = info[x].incr
    OBVIOUS
  <2>3. u = [id |-> x, key |-> k, incr |-> i, st |-> "there"]
    BY <1>1 DEF Rec
  <2>4. w = [id |-> x, key |-> k, incr |-> i, st |-> "going"]
    BY <2>2 DEF Rec
  <2> QED
    BY <2>3, <2>4
<1>12. Order!Turns(u, "going")
  <2>1. Order!Becomes((recs \ {u}) \cup {w})
    <3>1. seen' = [v \in Threads |-> IF pc[v] = "idle" THEN {}
                                     ELSE seen[v] \cup {View(recs', loc[v].key)}]
      BY <1>8 DEF See
    <3> QED
      BY <1>0, <1>10, <3>1, BecomesIs
  <2> QED
    BY <1>11, <2>1 DEF Order!Turns
<1>13. Order!Goes(t, "delete", "deleting", x)
  <2>1. Said(p, r) = Told(r, "delete", Null)
    BY <1>1, <1>2 DEF Said
  <2>2. Said(q, s) = Told(s, "deleting", x)
    BY <1>1, <1>2 DEF Said
  <2> QED
    BY <1>2, <2>1, <2>2, GoesIs
<1>14. \E v \in seen[t] : \E z \in Order!Chosen(v, MCalls[t].incr) : z.id = x
  <2>1. Found(t, x)
    BY <1>1 DEF Knows, Met
  <2>2. MCalls[t].incr = r.incr
    BY CallArgs
  <2> QED
    BY <2>1, <2>2 DEF Found
<1>15. Order!DeleteBegins(t)
  BY <1>10, <1>11, <1>12, <1>13, <1>14 DEF Order!DeleteBegins, MCalls
<1> QED
  BY <1>15 DEF Order!Next

(* The link on the lowest level is where AbOrder puts the record in: in a  *)
(* list without duplicates the key was seen free, with duplicates the incr *)
(* is a new one.                                                           *)
LEMMA LinkMaps ==
  ASSUME NEW may, NEW t \in Threads, Knows(may, t), SortInv, Listed', Alone(t), dupl' = dupl,
         InsertLink(t), loc[t].i = 1
  PROVE  Order!Next
<1> PICK p, r, q, s : p = pc[t] /\ r = loc[t] /\ q = pc'[t] /\ s = loc'[t]
  OBVIOUS
<1> PICK x, a : x = r.x /\ a = r.prev[1]
  OBVIOUS
<1>0. /\ IInv /\ TypeOK /\ pc \in [Threads -> PCs] /\ loc \in [Threads -> Locals]
      /\ r \in Locals
  BY LinesUsed, LocalsTyped DEF Knows, IInv
<1>1. GoesIn(1, a, x) /\ r.i = 1
  <2>1. GoesIn(loc[t].i, loc[t].prev[loc[t].i], loc[t].x)
    BY InsertLinkInv DEF Knows
  <2> QED
    BY <2>1
<1>2. x \in Items /\ x \notin On(next, 1) /\ On(next, 1)' = On(next, 1) \cup {x}
  BY <1>1 DEF GoesIn
<1>3. p = "link" /\ q \in {"inserted", "check"} /\ s.x = x /\ s.i = 2 /\ info' = info
  <2>1. p = "link" /\ q \in {"inserted", "check"} /\ s = [r EXCEPT !.i = @ + 1]
    BY <1>0 DEF InsertLink, Goto
  <2>2. s.x = x /\ s.i = r.i + 1
    BY <1>0, <2>1 DEF Locals
  <2> QED
    BY <1>1, <2>1, <2>2 DEF InsertLink
<1>4. SameArgs(s, r) /\ r.op = "insert" /\ s.op = "insert"
  <2>1. SameArgs(s, r)
    BY <1>0, NodeCall
  <2>2. r.op = "insert"
    BY <1>0, <1>3, OpFacts DEF InsertOnly
  <2> QED
    BY <2>1, <2>2 DEF SameArgs
<1>5. info[x].inserting /\ ~info[x].deleting /\ info[x].key = r.key /\ state[x] = "linked"
  <2>1. PutOK(p, r)
    BY DEF Knows, Inv, ThreadInv, ThreadOK
  <2>2. Puts(p, r)
    BY <1>2, <1>3, <1>4, NodeAssumption DEF Puts, PutPCs
  <2> QED
    BY <2>1, <2>2 DEF PutOK
<1> PICK u : u = Rec(x)
  OBVIOUS
<1>6. /\ u.id = x /\ u.key = r.key /\ u.incr = info[x].incr /\ u.st = "coming"
  BY <1>5 DEF Rec
<1>7. recs' = recs \cup {u}
  <2>1. recs' = {Rec(y)' : y \in On(next, 1)'}
    BY DEF Listed
  <2>2. \A y : Rec(y)' = Rec(y)
    BY <1>3 DEF Rec
  <2>3. recs = {Rec(y) : y \in On(next, 1)}
    BY DEF Knows, Listed
  <2>4. recs' = {Rec(y) : y \in On(next, 1) \cup {x}}
    BY <1>2, <2>1, <2>2
  <2> QED
    BY <2>3, <2>4
<1>8. \A z \in recs : \E y \in On(next, 1) : z.id = y /\ z.incr = info[y].incr
  BY DEF Knows, Listed, Rec
<1>9. \A z \in recs : z.id # u.id
  BY <1>2, <1>6, <1>8
<1>10. u \in recs' \ recs
  BY <1>7, <1>9
<1>11. ASSUME dupl PROVE \A z \in recs : z.incr # u.incr
  <2>1. ASSUME NEW y \in On(next, 1) PROVE info[y].incr # info[x].incr
    <3>1. y \in Items /\ state[y] = "linked" /\ y # x
      BY <1>2, LevelOne DEF Knows, Inv, ListInv, Nodal
    <3>2. state[y] # "free" /\ state[x] # "free"
      BY <1>5, <3>1
    <3> QED
      BY <1>2, <1>11, <3>1, <3>2 DEF SortInv, Incred
  <2> QED
    BY <1>6, <1>8, <2>1
<1>12. ASSUME ~dupl PROVE u.incr = 0 /\ {} \in seen[t]
  <2>1. info[x].incr = 0
    BY <1>2, <1>12 DEF Knows, Plain0, Nodes
  <2>2. {} \in seen[t]
    BY <1>1, <1>4, <1>12 DEF Knows, Met
  <2> QED
    BY <1>6, <2>1, <2>2
<1>13. Order!Becomes(recs \cup {u})
  <2>1. See(next', info)
    BY <1>1 DEF InsertLink
  <2>2. seen' = [v \in Threads |-> IF pc[v] = "idle" THEN {}
                                   ELSE seen[v] \cup {View(recs', loc[v].key)}]
    BY <2>1 DEF See
  <2> QED
    BY <1>0, <1>7, <2>2, BecomesIs
<1>14. Order!Goes(t, "insert", "inserting", x)
  <2>1. ~(r.i > 1) /\ s.i > 1
    BY <1>1, <1>3
  <2>2. Said(p, r) = Told(r, "insert", Null)
    BY <1>3, <1>4, <2>1 DEF Said
  <2>3. Said(q, s) = Told(s, "inserting", x)
    BY <1>3, <1>4, <2>1 DEF Said
  <2> QED
    BY <1>4, <2>2, <2>3, GoesIs
<1>15. MCalls[t].key = r.key
  BY CallArgs
<1>16. Order!Insert(t)
  <2>1. /\ u.key = MCalls[t].key /\ u.st = "coming"
        /\ \A z \in recs : z.id # u.id
        /\ IF dupl THEN \A z \in recs : z.incr # u.incr
           ELSE u.incr = 0 /\ {} \in seen[t]
        /\ Order!Goes(t, "insert", "inserting", u.id)
    BY <1>6, <1>9, <1>11, <1>12, <1>14, <1>15
  <2> QED
    BY <1>10, <1>13, <2>1 DEF Order!Insert, MCalls
<1> QED
  BY <1>16 DEF Order!Next

(* The unlink on the lowest level is where AbOrder takes the record out.   *)
LEMMA UnlinkMaps ==
  ASSUME NEW may, NEW t \in Threads, Knows(may, t), Listed', Alone(t), dupl' = dupl,
         DeleteUnlink(t), loc[t].i = 1
  PROVE  Order!Next
<1> PICK p, r, q, s : p = pc[t] /\ r = loc[t] /\ q = pc'[t] /\ s = loc'[t]
  OBVIOUS
<1> PICK x, a : x = r.x /\ a = r.prev[1]
  OBVIOUS
<1>0. /\ IInv /\ TypeOK /\ pc \in [Threads -> PCs] /\ loc \in [Threads -> Locals]
      /\ r \in Locals
  BY LinesUsed, LocalsTyped DEF Knows, IInv
<1>1. GoesOff(1, a, x) /\ r.i = 1
  <2>1. GoesOff(loc[t].i, loc[t].prev[loc[t].i], loc[t].x)
    BY DeleteUnlinkInv DEF Knows
  <2> QED
    BY <2>1
<1>2. x \in On(next, 1) /\ On(next, 1)' = On(next, 1) \ {x}
  BY <1>1 DEF GoesOff
<1>3. p = "unlink" /\ q = "free_x" /\ s.x = x /\ s.m = r.m /\ info' = info
  <2>1. p = "unlink" /\ q = "free_x"
    BY <1>0, <1>1 DEF DeleteUnlink, Goto
  <2>2. s.x = x /\ s.m = r.m
    BY <1>0 DEF DeleteUnlink, Locals
  <2> QED
    BY <2>1, <2>2 DEF DeleteUnlink
<1>4. SameArgs(s, r) /\ r.op = "delete" /\ s.op = "delete" /\ r.m # Null
  <2>1. SameArgs(s, r)
    BY <1>0, NodeCall
  <2>2. r.op = "delete" /\ r.m # Null
    BY <1>0, <1>3, DeleteFacts DEF DeleteOnly
  <2> QED
    BY <2>1, <2>2 DEF SameArgs
<1>5. info[x].deleting
  <2>1. TakeOK(p, r)
    BY DEF Knows, Inv, ThreadInv, ThreadOK
  <2>2. Takes(p, r)
    BY <1>3, <1>4 DEF Takes, Marks, TakePCs
  <2> QED
    BY <2>1, <2>2 DEF TakeOK
<1> PICK u : u = Rec(x)
  OBVIOUS
<1>6. u.id = x /\ u.st = "going"
  BY <1>5 DEF Rec
<1>7. u \in recs /\ recs' = recs \ {u}
  <2>1. recs' = {Rec(y)' : y \in On(next, 1)'}
    BY DEF Listed
  <2>2. \A y : Rec(y)' = Rec(y)
    BY <1>3 DEF Rec
  <2>3. recs = {Rec(y) : y \in On(next, 1)}
    BY DEF Knows, Listed
  <2>4. recs' = {Rec(y) : y \in On(next, 1) \ {x}}
    BY <1>2, <2>1, <2>2
  <2>5. \A y : y # x => Rec(y) # u
    BY DEF Rec
  <2> QED
    BY <1>2, <2>3, <2>4, <2>5
<1>8. Order!Becomes(recs \ {u})
  <2>1. See(next', info)
    BY <1>1 DEF DeleteUnlink
  <2>2. seen' = [v \in Threads |-> IF pc[v] = "idle" THEN {}
                                   ELSE seen[v] \cup {View(recs', loc[v].key)}]
    BY <2>1 DEF See
  <2> QED
    BY <1>0, <1>7, <2>2, BecomesIs
<1>9. Said(p, r) = Told(r, "deleting", x)
  BY <1>3, <1>4 DEF Said
<1>10. Order!Goes(t, "deleting", "done", x)
  <2>1. Said(q, s) = Told(s, "done", x)
    BY <1>3, <1>4 DEF Said
  <2> QED
    BY <1>4, <1>9, <2>1, GoesIs
<1>11. MCalls[t].id = x
  <2>1. MCalls[t] = Said(p, r)
    BY CallNow DEF MCalls
  <2> QED
    BY <1>9, <2>1, ToldFields
<1>12. Order!DeleteEnds(t)
  BY <1>6, <1>7, <1>8, <1>10, <1>11 DEF Order!DeleteEnds, MCalls
<1> QED
  BY <1>12 DEF Order!Next
-----------------------------------------------------------------------------
(* The index implements the list of AbOrder. *)

(* The loaded list is a start of AbOrder.                                  *)
LEMMA OrderInit == Init => Order!Init
<1> SUFFICES ASSUME Init PROVE Order!Init
  OBVIOUS
<1>1. PICK s, n, h, at : Begun(s, n, h, at)
  BY InitBegun
<1>2. /\ pc = [t \in Threads |-> "idle"] /\ loc = [t \in Threads |-> NoLocals]
      /\ seen = [t \in Threads |-> {}] /\ recs = RecsOf(next, info)
  BY <1>1 DEF Begun, StartRest
<1>3. IInv /\ TypeOK
  BY InitInv, LinesUsed DEF IInv
<1>4. MCalls = [t \in Threads |-> Order!NoCall]
  <2>1. \A t \in Threads : CallOf(t) = Order!NoCall
    BY <1>2, <1>3, InNoCall
  <2> QED
    BY <2>1 DEF MCalls
<1>5. recs = {Rec(x) : x \in On(next, 1)}
  BY <1>2, RecsAreRecs
<1>6. ASSUME NEW x \in On(next, 1)
      PROVE  Rec(x) \in [id : Items, key : Keys, incr : Nat, st : {"there"}]
  <2>1. /\ info[x].key \in Keys /\ info[x].incr \in Nat /\ ~info[x].deleting
        /\ ~info[x].inserting /\ x \in Items
    BY <1>1, NodesAtStart, LevelOne
  <2> QED
    BY <2>1 DEF Rec
<1>7. recs \subseteq [id : Items, key : Keys, incr : Nat, st : {"there"}]
  BY <1>5, <1>6
<1>8. dupl \in BOOLEAN
  BY <1>3 DEF TypeOK
<1> QED
  BY <1>2, <1>4, <1>7, <1>8 DEF Order!Init, MCalls

(* The steps of nobody are hidden.                                         *)
LEMMA OrderRest ==
  ASSUME UNCHANGED vars \/ \E x \in Items : Reclaim(x)
  PROVE  UNCHANGED Order!vars
<1>1. UNCHANGED <<pc, loc, hist>> /\ dupl' = dupl
  BY NobodySeen DEF vars, listVars, fields, Reclaim
<1>2. \A t : CallOf(t)' = CallOf(t)
  BY <1>1, CallNow, CallThen
<1>3. MCalls' = MCalls
  BY <1>2 DEF MCalls
<1> QED
  BY <1>1, <1>3 DEF Order!vars, MCalls, hist

(* Every step is one of AbOrder or none there.                             *)
LEMMA OrderStep ==
  ASSUME NEW may, Inv(may), \A u \in Threads : Knows(may, u), SortInv, Listed, SeenNow,
         [Next]_vars
  PROVE  Order!Next \/ UNCHANGED Order!vars
<1>0. IInv /\ IInv' /\ dupl' = dupl
  <2>1. IInv /\ IInv'
    BY NextInv DEF IInv
  <2> QED
    BY <2>1, InfoSteps
<1>1. CASE UNCHANGED vars \/ \E x \in Items : Reclaim(x)
  BY <1>1, OrderRest
<1>2. ASSUME NEW t \in Threads, Work(t) \/ Call(t)
      PROVE  Order!Next \/ UNCHANGED Order!vars
  <2>1. Alone(t) /\ Listed' /\ Knows(may, t)
    BY <1>0, <1>2, StepSeen, ListedStep
  <2>2. CASE Call(t) \/ Return(t)
    BY <1>0, <2>1, <2>2, StartStep, ReturnsStep
  <2>3. CASE FindStart(t) \/ FindMove(t) \/ FindDown(t) \/ FindAgain(t) \/ FindEqual(t)
    BY <1>0, <2>1, <2>3, SearchQuiet
  <2>4. CASE \/ InsertEnter(t) \/ DeleteEnter(t) \/ GetEnter(t) \/ InsertCheck(t)
             \/ InsertRetry(t) \/ DeleteAgain(t) \/ DeletePrev(t) \/ DeleteRetry(t)
             \/ InsertSet(t) \/ DeleteMark(t)
    BY <1>0, <2>1, <2>4, GotoQuiet
  <2>5. CASE \/ InsertNew(t) \/ InsertDupFree(t) \/ InsertFound(t) \/ InsertNum(t)
             \/ (InsertLink(t) /\ loc[t].i # 1)
    BY <1>0, <2>1, <2>5, InsertQuiet
  <2>6. CASE \/ Forward(t) \/ DeleteMarker(t) \/ DeleteFree(t) \/ DeleteFreeMarker(t)
             \/ DeleteNum(t) \/ (DeleteUnlink(t) /\ loc[t].i # 1)
             \/ (DeleteBusy(t) /\ dupl /\ loc[t].incr = 0)
    BY <1>0, <2>1, <2>6, DeleteQuiet
  <2>7. CASE InsertDup(t) \/ FindNone(t) \/ GetFound(t)
    BY <1>0, <2>1, <2>7, DupMaps, NoneMaps, GetMaps
  <2>8. CASE DeleteBusy(t) /\ ~(dupl /\ loc[t].incr = 0)
    BY <1>0, <2>1, <2>8, BusyMaps
  <2>9. CASE Inserted(t) \/ DeleteFlag(t)
    BY <1>0, <2>1, <2>9, InsertedMaps, FlagMaps
  <2>10. CASE (InsertLink(t) \/ DeleteUnlink(t)) /\ loc[t].i = 1
    BY <1>0, <2>1, <2>10, LinkMaps, UnlinkMaps
  <2> QED
    BY <1>2, <2>2, <2>3, <2>4, <2>5, <2>6, <2>7, <2>8, <2>9, <2>10 DEF Work
<1> QED
  BY <1>1, <1>2 DEF Next

\* What all calls know, with the nodes that they can have come to.
Known(may) == Inv(may) /\ \A u \in Threads : Hind(may, u)
KnowInv == (\E g : Known(g)) /\ Plain0 /\ SeenNow /\ \A u \in Threads : Met(u)

(* What the calls know holds after the load.                               *)
LEMMA KnowInit == Init => KnowInv
<1> SUFFICES ASSUME Init PROVE KnowInv
  OBVIOUS
<1>1. PICK s, n, h, at : Begun(s, n, h, at)
  BY InitBegun
<1>2. inside = {} /\ pc = [t \in Threads |-> "idle"] /\ loc = [t \in Threads |-> NoLocals]
  BY <1>1 DEF Begun, StartRest
<1>3. PICK g : Inv(g)
  BY InitInv
<1>4. \A u \in Threads : g[u] = {}
  BY <1>2, <1>3 DEF Inv, Ghost
<1>5. \A u \in Threads : Hind(g, u)
  BY <1>4 DEF Hind
<1>6. \A u \in Threads : Met(u)
  BY <1>2 DEF Met, NoLocals
<1> QED
  BY <1>1, <1>3, <1>5, <1>6, PlainAtStart DEF KnowInv, Known

(* Every step keeps it, and is a step of AbOrder or none.                  *)
LEMMA KnowNext ==
  ASSUME KnowInv, SortInv, Listed, Listed', [Next]_vars
  PROVE  KnowInv' /\ (Order!Next \/ UNCHANGED Order!vars)
<1>1. PICK may : Inv(may) /\ \A u \in Threads : Hind(may, u)
  BY DEF KnowInv, Known
<1>2. Plain0 /\ SeenNow /\ \A u \in Threads : Met(u)
  BY DEF KnowInv
<1>3. \A u \in Threads : Knows(may, u)
  BY <1>1, <1>2 DEF Knows, SortInv
<1>4. PICK g : Inv(g)' /\ \A u \in Threads : Hind(g, u)'
  BY <1>1, <1>2, NextHind
<1>5. \A u \in Threads : Met(u)'
  BY <1>1, <1>3, MetStep
<1>6. Plain0' /\ SeenNow'
  BY <1>1, <1>2, <1>4, PlainStep DEF IInv
<1>7. KnowInv'
  BY <1>4, <1>5, <1>6 DEF KnowInv, Known
<1>8. Order!Next \/ UNCHANGED Order!vars
  BY <1>1, <1>2, <1>3, OrderStep
<1> QED
  BY <1>7, <1>8

(* OrderSpec of AbSkiplist, for any threads, keys, incrs and heights: the  *)
(* index implements AbOrder. The links, the flag and the unlinks of        *)
(* ab_skiplist_insert and ab_skiplist_delete change the list as AbOrder    *)
(* says, and every other answer was right at some moment of its call,      *)
(* although the searches of ab_skiplist.c may stand on nodes that others   *)
(* have unlinked.                                                          *)
THEOREM OrderImplemented == Spec => OrderSpec
<1>1. Init => Order!Init
  BY OrderInit
<1>2. KnowInv /\ SortInv /\ Listed /\ Listed' /\ [Next]_vars
        => KnowInv' /\ [Order!Next]_(Order!vars)
  BY KnowNext
<1> QED
  BY <1>1, <1>2, KnowInit, SortAlways, RecsAlways, PTL DEF Spec, OrderSpec, Order!Spec
=============================================================================
