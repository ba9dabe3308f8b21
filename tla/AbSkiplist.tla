----------------------------- MODULE AbSkiplist -----------------------------
(***************************************************************************)
(* The lock-free skiplist of abuf/ab_skiplist.c: ab_skiplist_insert,       *)
(* ab_skiplist_delete and ab_skiplist_get, one action per access to shared *)
(* memory.  Levels are counted from 1 here and from 0 in the code.  The    *)
(* two pools of a list are entered and left together: they are one pool    *)
(* with the promise of AbReclaim.  A loop that repeats a CAS on one word   *)
(* until it succeeds (ab_skiplist_incr_height and incr_key) is one step.   *)
(*                                                                         *)
(* A delete takes the node's deleting flag, then puts a marker node behind *)
(* it on each level from the top down, so that nothing can be linked there *)
(* any more, and unlinks both.                                             *)
(***************************************************************************)
EXTENDS Integers, Sequences, FiniteSets

CONSTANTS Threads,
          Items,      \* the nodes of the pools
          head,       \* list->head, a node of every level
          Null,       \* NULL
          Keys,
          MaxHeight,  \* AB_SKIPLIST_MAX_HEIGH
          Starts,     \* the lists that are tried: dupl, the keys that are used,
                      \* the ones loaded at first in order, bound on the calls
          Ops,        \* the operations that are called
          Incrs,      \* the incr they are called with: 0 for any record
          NumMod      \* num is unsigned: it is kept modulo NumMod, 2^64

ASSUME NodeAssumption ==
  IsFiniteSet(Items) /\ Null \notin Items /\ head \notin Items /\ head # Null
ASSUME KeyAssumption == Keys \subseteq Nat \ {0}
ASSUME StartAssumption ==
  \A s \in Starts : /\ s.dupl \in BOOLEAN /\ s.keys \subseteq Keys
                    /\ s.loaded \in Seq(s.keys) /\ s.calls \in Nat
                    /\ Len(s.loaded) <= Cardinality(Items)
                    /\ \A a, b \in DOMAIN s.loaded : a < b =>
                         s.loaded[a] <= s.loaded[b] /\ (s.dupl \/ s.loaded[a] # s.loaded[b])
ASSUME BoundAssumption == {MaxHeight, NumMod} \subseteq Nat \ {0}
ASSUME IncrAssumption == 0 \in Incrs /\ Incrs \subseteq Nat
ASSUME OpAssumption == Ops \subseteq {"insert", "delete", "get"}

VARIABLES
  inside, state, guards,   \* the pool, see AbReclaim
  dupl,                    \* list->attr: duplicate keys are allowed
  height, incr_key, num,   \* the fields of ab_skiplist_t that change
  next,                    \* next[n][l]: the node behind n on level l
  info,                    \* key, incr_key, height and flags of each node
  pc,                      \* per thread: the next access to shared memory
  loc,                     \* per thread: the locals of its call
  todo,                    \* bound: calls left, and the keys they are about
  recs,                    \* history: the list as its callers see it
  seen                     \* history: what a call may have found

poolVars == <<inside, state, guards>>
fields == <<dupl, height, incr_key, num>>
listVars == <<fields, next, info>>
hist == <<recs, seen>>
vars == <<poolVars, listVars, pc, loc, todo, hist>>

Pool == INSTANCE AbReclaim

Levels == 1 .. MaxHeight
Nodes == Items \cup {head}
Nowhere == [l \in Levels |-> Null]
NoInfo == [key |-> 0, incr |-> 0, lvl |-> 0,
           marker |-> FALSE, deleting |-> FALSE, inserting |-> FALSE]
NoLocals == [op |-> "none", key |-> 0, incr |-> 0, x |-> Null, m |-> Null,
             i |-> 0, at |-> Null, lvl |-> 0, prev |-> Nowhere, fwd |-> Nowhere]

(* The locals of a call that has not found anything yet.                   *)
Bare(t) == [NoLocals EXCEPT !.op = loc[t].op, !.key = loc[t].key,
                            !.incr = loc[t].incr]

(* next without a marker: what is behind n once its delete is over.        *)
Behind(nx, n, l) ==
  LET y == nx[n][l]
  IN  IF y # Null /\ info[y].marker THEN nx[y][l] ELSE y

(* The nodes on a level: those that a walk from head comes to.             *)
On(nx, l) ==
  LET walk[k \in 0 .. Cardinality(Items)] ==
        IF k = 0 THEN {head}
        ELSE UNION {{n, IF n = Null THEN Null ELSE Behind(nx, n, l)} : n \in walk[k - 1]}
  IN  walk[Cardinality(Items)] \ {head, Null}

-----------------------------------------------------------------------------
(* History: what the calls may answer                                      *)

(* The nodes of the lowest level, and whether their insert or delete is    *)
(* not over.                                                               *)
RecsOf(nx, nf) ==
  {[id |-> x, key |-> nf[x].key, incr |-> nf[x].incr,
    st |-> IF nf[x].deleting THEN "going"
           ELSE IF nf[x].inserting THEN "coming" ELSE "there"] : x \in On(nx, 1)}

View(rs, k) == {r \in rs : r.key = k}

(* The lowest level or a flag has changed. *)
See(nx, nf) ==
  /\ recs' = RecsOf(nx, nf)
  /\ seen' = [t \in Threads |-> IF pc[t] = "idle" THEN {}
                                ELSE seen[t] \cup {View(recs', loc[t].key)}]

(* A start: node at[a] has place a of D and the height h[a].  First is the *)
(* first node behind place a on level l.                                   *)
Chosen(D) == CHOOSE f \in [D -> Items] : \A a, b \in D : f[a] = f[b] => a = b
Tallest(D, h) ==
  CHOOSE k \in Levels : /\ \A a \in D : h[a] <= k
                        /\ k = 1 \/ \E a \in D : h[a] = k
Place(D, at, x) == CHOOSE a \in D : at[a] = x
Later(D, h, a, l) == {b \in D : b > a /\ h[b] >= l}
First(D, h, at, a, l) ==
  IF Later(D, h, a, l) = {} THEN Null
  ELSE at[CHOOSE b \in Later(D, h, a, l) : \A c \in Later(D, h, a, l) : b <= c]

(* What ab_skiplist_init and one thread's inserts of the keys of a start   *)
(* leave, with any heights.  The head takes the first incr_key.            *)
Loaded(s, h) ==
  LET D == DOMAIN s.loaded
      at == Chosen(D)
      used == {at[a] : a \in D}
      pos(x) == Place(D, at, x)
  IN  /\ dupl = s.dupl
      /\ height = Tallest(D, h)
      /\ incr_key = IF s.dupl THEN Len(s.loaded) + 2 ELSE 1
      /\ num = Len(s.loaded) % NumMod
      /\ next = [n \in Nodes |-> [l \in Levels |->
                   IF n = head THEN First(D, h, at, 0, l)
                   ELSE IF n \in used /\ l <= h[pos(n)] THEN First(D, h, at, pos(n), l)
                   ELSE Null]]
      /\ info = [n \in Nodes |->
                   IF n = head THEN [NoInfo EXCEPT !.lvl = MaxHeight]
                   ELSE IF n \in used
                   THEN [NoInfo EXCEPT !.key = s.loaded[pos(n)],
                                       !.incr = IF s.dupl THEN pos(n) + 1 ELSE 0,
                                       !.lvl = h[pos(n)]]
                   ELSE NoInfo]
      /\ state = [x \in Items |-> IF x \in used THEN "linked" ELSE "free"]
      /\ inside = {}
      /\ guards = [x \in Items |-> {}]
      /\ pc = [t \in Threads |-> "idle"]
      /\ loc = [t \in Threads |-> NoLocals]
      /\ todo = [calls |-> s.calls, keys |-> s.keys]
      /\ recs = RecsOf(next, info)
      /\ seen = [t \in Threads |-> {}]

Init == \E s \in Starts : \E h \in [DOMAIN s.loaded -> Levels] : Loaded(s, h)

-----------------------------------------------------------------------------
(* Steps and calls                                                         *)

Goto(t, from, to) == pc[t] = from /\ pc' = [pc EXCEPT ![t] = to]

(* A call starts: its arguments are chosen. *)
Start(t, r, to) ==
  /\ r.op \in Ops
  /\ todo.calls > 0 /\ r.key \in todo.keys
  /\ Goto(t, "idle", to)
  /\ todo' = [todo EXCEPT !.calls = @ - 1]
  /\ loc' = [loc EXCEPT ![t] = r]
  /\ seen' = [seen EXCEPT ![t] = {View(recs, r.key)}]
  /\ UNCHANGED recs

Leave(t, from) ==
  /\ Goto(t, from, "idle")
  /\ Pool!Leave(t)
  /\ loc' = [loc EXCEPT ![t] = NoLocals]
  /\ seen' = [seen EXCEPT ![t] = {}]
  /\ UNCHANGED <<listVars, todo, recs>>

(* Any free node will do: they are alike. *)
FreeItem == CHOOSE x \in Items : state[x] = "free"

(* ab_skiplist_new_node: a node of the pool with all next NULL and, when   *)
(* keys may be equal, an incr_key of its own.                              *)
NewNode(x, r) ==
  /\ x \in Items /\ Pool!Publish(x)
  /\ info' = [info EXCEPT ![x] = [r EXCEPT !.incr = IF dupl THEN incr_key ELSE 0]]
  /\ next' = [next EXCEPT ![x] = Nowhere]
  /\ incr_key' = IF dupl THEN incr_key + 1 ELSE incr_key
  /\ UNCHANGED <<dupl, height, num>>

EnterEpoch(t, from) ==
  /\ Goto(t, from, "find_start")
  /\ Pool!Enter(t)
  /\ UNCHANGED <<listVars, loc, todo, hist>>

-----------------------------------------------------------------------------
(* ab_skiplist_find_ge and ab_skiplist_find_equal                          *)

(* What is searched: an own node's key and incr_key, or the arguments.     *)
Target(t) ==
  IF loc[t].x = Null THEN <<loc[t].key, loc[t].incr>>
  ELSE <<info[loc[t].x].key, info[loc[t].x].incr>>

(* ab_skiplist_is_after_node *)
IsAfter(t, n) ==
  /\ n # Null
  /\ \/ info[n].key < Target(t)[1]
     \/ info[n].key = Target(t)[1] /\ info[n].incr < Target(t)[2]

FindStart(t) ==
  /\ Goto(t, "find_start", "find")
  /\ loc' = [loc EXCEPT ![t].at = head, ![t].lvl = height,
                        ![t].prev = Nowhere, ![t].fwd = Nowhere]
  /\ UNCHANGED <<poolVars, listVars, todo, hist>>

FindMove(t) ==
  LET n == Behind(next, loc[t].at, loc[t].lvl)
  IN  /\ pc[t] = "find"
      /\ IsAfter(t, n)
      /\ loc' = [loc EXCEPT ![t].at = n]
      /\ UNCHANGED <<poolVars, listVars, pc, todo, hist>>

(* The search stops before n on this level: prev and forward are set.      *)
Stops(t, n) ==
  /\ pc[t] = "find"
  /\ n = Behind(next, loc[t].at, loc[t].lvl)
  /\ ~IsAfter(t, n)

Noted(t, n) ==
  [loc[t] EXCEPT !.prev[loc[t].lvl] = loc[t].at, !.fwd[loc[t].lvl] = n]

FindDown(t) ==
  \E n \in Items \cup {Null} :
    /\ Stops(t, n)
    /\ loc[t].lvl > 1
    /\ loc' = [loc EXCEPT ![t] = [Noted(t, n) EXCEPT !.lvl = @ - 1]]
    /\ UNCHANGED <<poolVars, listVars, pc, todo, hist>>

(* The search is over: it found n, the first node not before its target.   *)
Ends(t, n, to, r) ==
  /\ Stops(t, n)
  /\ loc[t].lvl = 1
  /\ pc' = [pc EXCEPT ![t] = to]
  /\ loc' = [loc EXCEPT ![t] = r]
  /\ UNCHANGED <<poolVars, listVars, todo, hist>>

SameKey(t, n) == n # Null /\ info[n].key = Target(t)[1]
(* ab_skiplist_find_equal accepts n. *)
Equal(t, n) == SameKey(t, n) /\ Target(t)[2] \in {0, info[n].incr}

(* A delete of a node that waits for the node ahead of it searches again   *)
(* until it finds its node.                                                *)
FindAgain(t) ==
  \E n \in Items \cup {Null} :
    /\ loc[t].op = "delete" /\ loc[t].x # Null
    /\ ~(Equal(t, n) /\ n = loc[t].x)
    /\ Ends(t, n, "find_start", Noted(t, n))

FindNone(t) ==
  \E n \in Items \cup {Null} :
    /\ loc[t].op = "delete" /\ loc[t].x = Null
    /\ ~Equal(t, n)
    /\ Ends(t, n, "leave", Bare(t))

(* Found: its own next on every level are read to be the forward nodes.    *)
FindEqual(t) ==
  \E n \in Items :
    /\ loc[t].op = "delete"
    /\ Equal(t, n) /\ loc[t].x \in {Null, n}
    /\ Ends(t, n, "forward", [Noted(t, n) EXCEPT !.at = n])

Forward(t) ==
  LET x == loc[t].at
      l == loc[t].lvl
      last == l = info[x].lvl
  IN  /\ Goto(t, "forward", IF ~last THEN "forward"
                            ELSE IF loc[t].x = Null THEN "flag" ELSE "prev")
      /\ loc' = [loc EXCEPT ![t].fwd[l] = Behind(next, x, l),
                            ![t].lvl = IF last THEN 0 ELSE l + 1,
                            ![t].at = IF last THEN Null ELSE @,
                            ![t].x = IF last THEN x ELSE @]
      /\ UNCHANGED <<poolVars, listVars, todo, hist>>

-----------------------------------------------------------------------------
(* ab_skiplist_insert                                                      *)

(* The height of the list grows before the node is made. *)
Insert(t) ==
  \E k \in Keys, h \in Levels :
    /\ Start(t, [NoLocals EXCEPT !.op = "insert", !.key = k, !.lvl = h], "new")
    /\ height' = IF h > height THEN h ELSE height
    /\ UNCHANGED <<poolVars, dupl, incr_key, num, next, info>>

InsertNew(t) ==
  LET x == FreeItem
  IN
    /\ Goto(t, "new", "enter")
    /\ NewNode(x, [NoInfo EXCEPT !.key = loc[t].key, !.lvl = loc[t].lvl,
                                 !.inserting = TRUE])
    /\ loc' = [loc EXCEPT ![t].x = x, ![t].lvl = 0]
    /\ UNCHANGED <<todo, hist>>

InsertEnter(t) == loc[t].op = "insert" /\ EnterEpoch(t, "enter")

(* The first search finds the key in a list without duplicates.            *)
InsertDup(t) ==
  \E n \in Items :
    /\ loc[t].op = "insert" /\ loc[t].i = 0
    /\ ~dupl /\ SameKey(t, n)
    /\ Ends(t, n, "dup_free", [Bare(t) EXCEPT !.x = loc[t].x])

InsertDupFree(t) ==
  /\ Goto(t, "dup_free", "leave")
  /\ Pool!Retire(loc[t].x)
  /\ loc' = [loc EXCEPT ![t].x = Null]
  /\ UNCHANGED <<listVars, todo, hist>>

(* i is the level to link.  Later searches do not look for the key.        *)
InsertFound(t) ==
  \E n \in Items \cup {Null} :
    /\ loc[t].op = "insert"
    /\ loc[t].i = 0 => dupl \/ ~SameKey(t, n)
    /\ Ends(t, n, "check", [Noted(t, n) EXCEPT !.at = Null, !.lvl = 0,
                                              !.i = IF @ = 0 THEN 1 ELSE @])

Prev(t) == loc[t].prev[loc[t].i]
Fwd(t) == loc[t].fwd[loc[t].i]

(* A node that is being deleted takes no new successor.                    *)
InsertCheck(t) ==
  /\ Goto(t, "check", IF info[Prev(t)].deleting THEN "find_start" ELSE "set")
  /\ UNCHANGED <<poolVars, listVars, loc, todo, hist>>

InsertSet(t) ==
  /\ Goto(t, "set", "link")
  /\ next' = [next EXCEPT ![loc[t].x][loc[t].i] = Fwd(t)]
  /\ UNCHANGED <<poolVars, fields, info, loc, todo, hist>>

(* Mutant: the pointer is stored whatever it was. *)
InsertLinkBlind(t) ==
  /\ Goto(t, "link", IF loc[t].i = info[loc[t].x].lvl THEN "inserted" ELSE "check")
  /\ next' = [next EXCEPT ![Prev(t)][loc[t].i] = loc[t].x]
  /\ loc' = [loc EXCEPT ![t].i = @ + 1]
  /\ IF loc[t].i = 1 THEN See(next', info) ELSE UNCHANGED hist
  /\ UNCHANGED <<poolVars, fields, info, todo>>

InsertLink(t) ==
  /\ Goto(t, "link", IF loc[t].i = info[loc[t].x].lvl THEN "inserted" ELSE "check")
  /\ next[Prev(t)][loc[t].i] = Fwd(t)
  /\ next' = [next EXCEPT ![Prev(t)][loc[t].i] = loc[t].x]
  /\ loc' = [loc EXCEPT ![t].i = @ + 1]
  /\ IF loc[t].i = 1 THEN See(next', info) ELSE UNCHANGED hist
  /\ UNCHANGED <<poolVars, fields, info, todo>>

InsertRetry(t) ==
  /\ Goto(t, "link", "find_start")
  /\ next[Prev(t)][loc[t].i] # Fwd(t)
  /\ UNCHANGED <<poolVars, listVars, loc, todo, hist>>

Inserted(t) ==
  /\ Goto(t, "inserted", "num_add")
  /\ info' = [info EXCEPT ![loc[t].x].inserting = FALSE]
  /\ See(next, info')
  /\ loc' = [loc EXCEPT ![t].prev = Nowhere, ![t].fwd = Nowhere, ![t].i = 0]
  /\ UNCHANGED <<poolVars, fields, next, todo>>

(* Mutant: a count of unlimited width. *)
InsertNumPlain(t) ==
  /\ Goto(t, "num_add", "leave")
  /\ num' = num + 1
  /\ UNCHANGED <<poolVars, dupl, height, incr_key, next, info, loc, todo, hist>>

InsertNum(t) ==
  /\ Goto(t, "num_add", "leave")
  /\ num' = (num + 1) % NumMod
  /\ UNCHANGED <<poolVars, dupl, height, incr_key, next, info, loc, todo, hist>>

-----------------------------------------------------------------------------
(* ab_skiplist_delete                                                      *)

Delete(t) ==
  \E k \in Keys, i \in IF dupl THEN Incrs ELSE {0} :
    /\ Start(t, [NoLocals EXCEPT !.op = "delete", !.key = k, !.incr = i], "enter")
    /\ UNCHANGED <<poolVars, listVars>>

(* Mutant: the list is read outside the epoch. *)
DeleteNoEnter(t) ==
  /\ loc[t].op = "delete"
  /\ Goto(t, "enter", "find_start")
  /\ UNCHANGED <<poolVars, listVars, loc, todo, hist>>

DeleteEnter(t) == loc[t].op = "delete" /\ EnterEpoch(t, "enter")

(* Step 1: the flag.  The bit is_inserting that the new word takes from    *)
(* the read before is left out: nobody looks at it in a deleted node.      *)
DeleteFlag(t) ==
  LET x == loc[t].x
  IN  /\ Goto(t, "flag", "marker")
      /\ ~info[x].deleting /\ ~info[x].inserting
      /\ info' = [info EXCEPT ![x].deleting = TRUE]
      /\ See(next, info')
      /\ UNCHANGED <<poolVars, fields, next, loc, todo>>

(* The node has another thread's insert or delete on it: the call fails,   *)
(* or starts again if any record of the key will do.                       *)
DeleteBusy(t) ==
  LET again == dupl /\ loc[t].incr = 0
  IN  /\ Goto(t, "flag", IF again THEN "again" ELSE "leave")
      /\ info[loc[t].x].deleting \/ info[loc[t].x].inserting
      /\ loc' = [loc EXCEPT ![t] = Bare(t)]
      /\ UNCHANGED <<poolVars, listVars, todo, hist>>

DeleteAgain(t) ==
  /\ Goto(t, "again", "enter")
  /\ Pool!Leave(t)
  /\ UNCHANGED <<listVars, loc, todo, hist>>

DeleteMarker(t) ==
  LET m == FreeItem
  IN
    /\ Goto(t, "marker", "prev")
    /\ NewNode(m, [NoInfo EXCEPT !.lvl = info[loc[t].x].lvl, !.marker = TRUE])
    /\ loc' = [loc EXCEPT ![t].m = m, ![t].i = info[loc[t].x].lvl]
    /\ UNCHANGED <<todo, hist>>

(* Mutant: the same nodes are looked at again. *)
DeletePrevStay(t) ==
  /\ Goto(t, "prev", IF Prev(t) = Null THEN "find_start"
                     ELSE IF info[Prev(t)].deleting THEN "prev" ELSE "mark")
  /\ UNCHANGED <<poolVars, listVars, loc, todo, hist>>

(* i is the level to unlink.  The list may have been lower when the node   *)
(* was found, and the node ahead may be on its way out: search again.      *)
DeletePrev(t) ==
  /\ Goto(t, "prev", IF Prev(t) = Null \/ info[Prev(t)].deleting
                     THEN "find_start" ELSE "mark")
  /\ UNCHANGED <<poolVars, listVars, loc, todo, hist>>

(* Mutant: the node's next is not locked. *)
DeleteMarkNot(t) ==
  /\ Goto(t, "mark", "unlink")
  /\ UNCHANGED <<poolVars, listVars, loc, todo, hist>>

(* Mutant: the marker is stored whatever the next is by now.               *)
DeleteMarkBlind(t) ==
  /\ Goto(t, "mark", "unlink")
  /\ next' = [next EXCEPT ![loc[t].m][loc[t].i] = Fwd(t),
                          ![loc[t].x][loc[t].i] = loc[t].m]
  /\ UNCHANGED <<poolVars, fields, info, loc, todo, hist>>

(* Step 2: the marker becomes the node's next, if that is still the        *)
(* forward node that was found.                                            *)
DeleteMark(t) ==
  LET x == loc[t].x
      m == loc[t].m
      l == loc[t].i
      ok == next[x][l] \in {m, Fwd(t)}
  IN  /\ Goto(t, "mark", IF ok THEN "unlink" ELSE "find_start")
      /\ next' = [next EXCEPT ![m][l] = Fwd(t), ![x][l] = IF ok THEN m ELSE @]
      /\ UNCHANGED <<poolVars, fields, info, loc, todo, hist>>

(* Step 3: unlink the node and its marker. *)
DeleteUnlink(t) ==
  LET l == loc[t].i
  IN  /\ Goto(t, "unlink", IF l = 1 THEN "free_x" ELSE "prev")
      /\ next[Prev(t)][l] = loc[t].x
      /\ next' = [next EXCEPT ![Prev(t)][l] = Fwd(t)]
      /\ loc' = [loc EXCEPT ![t].i = l - 1]
      /\ IF l = 1 THEN See(next', info) ELSE UNCHANGED hist
      /\ UNCHANGED <<poolVars, fields, info, todo>>

DeleteRetry(t) ==
  /\ Goto(t, "unlink", "find_start")
  /\ next[Prev(t)][loc[t].i] # loc[t].x
  /\ UNCHANGED <<poolVars, listVars, loc, todo, hist>>

DeleteFree(t) ==
  /\ Goto(t, "free_x", "free_m")
  /\ Pool!Retire(loc[t].x)
  /\ loc' = [loc EXCEPT ![t].prev = Nowhere, ![t].fwd = Nowhere]
  /\ UNCHANGED <<listVars, todo, hist>>

DeleteFreeMarker(t) ==
  /\ Goto(t, "free_m", "num_sub")
  /\ Pool!Retire(loc[t].m)
  /\ UNCHANGED <<listVars, loc, todo, hist>>

DeleteNum(t) ==
  /\ Goto(t, "num_sub", "leave")
  /\ num' = (num - 1) % NumMod
  /\ UNCHANGED <<poolVars, dupl, height, incr_key, next, info, loc, todo, hist>>

-----------------------------------------------------------------------------
(* ab_skiplist_get                                                         *)

(* The answer is the first record of the key from incr on, whatever its    *)
(* flags; ab_buf_get asks with the incr of its last answer plus one.       *)
Get(t) ==
  \E k \in Keys, i \in IF dupl THEN Incrs ELSE {0} :
    /\ Start(t, [NoLocals EXCEPT !.op = "get", !.key = k, !.incr = i], "enter")
    /\ UNCHANGED <<poolVars, listVars>>

GetEnter(t) == loc[t].op = "get" /\ EnterEpoch(t, "enter")

GetFound(t) ==
  \E n \in Items \cup {Null} :
    /\ loc[t].op = "get"
    /\ Ends(t, n, "leave",
            [Bare(t) EXCEPT !.x = IF SameKey(t, n) THEN n ELSE Null])

Return(t) == Leave(t, "leave")

-----------------------------------------------------------------------------
(* What the code does once it was called. *)
Work(t) ==
  \/ FindStart(t) \/ FindMove(t) \/ FindDown(t) \/ FindAgain(t) \/ FindNone(t)
  \/ FindEqual(t) \/ Forward(t)
  \/ InsertNew(t) \/ InsertEnter(t) \/ InsertDup(t) \/ InsertDupFree(t)
  \/ InsertFound(t) \/ InsertCheck(t) \/ InsertSet(t) \/ InsertLink(t)
  \/ InsertRetry(t) \/ Inserted(t) \/ InsertNum(t)
  \/ DeleteEnter(t) \/ DeleteFlag(t) \/ DeleteBusy(t) \/ DeleteAgain(t)
  \/ DeleteMarker(t) \/ DeletePrev(t) \/ DeleteMark(t) \/ DeleteUnlink(t)
  \/ DeleteRetry(t) \/ DeleteFree(t) \/ DeleteFreeMarker(t) \/ DeleteNum(t)
  \/ GetEnter(t) \/ GetFound(t)
  \/ Return(t)

Call(t) == Insert(t) \/ Delete(t) \/ Get(t)

(* The pool may hand the node out again; nobody reads its fields any more. *)
Reclaim(x) ==
  /\ Pool!Reclaim(x)
  /\ info' = [info EXCEPT ![x] = NoInfo]
  /\ next' = [next EXCEPT ![x] = Nowhere]
  /\ UNCHANGED <<fields, pc, loc, todo, hist>>

Next ==
  \/ \E t \in Threads : Work(t) \/ Call(t)
  \/ \E x \in Items : Reclaim(x)

Spec == Init /\ [][Next]_vars

(* Fairness: the operating system keeps scheduling every thread.  Nobody   *)
(* has to call anything, and the pool need not reclaim.                    *)
FairSpec == Spec /\ \A t \in Threads : WF_vars(Work(t))

-----------------------------------------------------------------------------
(* Properties                                                              *)

PCs == {"idle", "new", "enter", "find_start", "find", "forward", "dup_free",
        "check", "set", "link", "inserted", "num_add", "flag", "again",
        "marker", "prev", "mark", "unlink", "free_x", "free_m", "num_sub",
        "leave"}

Recs == [id : Items, key : Keys, incr : Nat, st : {"coming", "there", "going"}]

(* Every variable has its type. *)
TypeOK ==
  LET maybe == Items \cup {Null}
  IN  /\ inside \subseteq Threads
      /\ state \in [Items -> {"free", "linked", "retired"}]
      /\ guards \in [Items -> SUBSET Threads]
      /\ dupl \in BOOLEAN
      /\ height \in Levels /\ incr_key \in Nat /\ num \in 0 .. NumMod - 1
      /\ next \in [Nodes -> [Levels -> maybe]]
      /\ info \in [Nodes -> [key : Keys \cup {0}, incr : Nat, lvl : 0 .. MaxHeight,
                             marker : BOOLEAN, deleting : BOOLEAN,
                             inserting : BOOLEAN]]
      /\ pc \in [Threads -> PCs]
      /\ loc \in [Threads -> [op : Ops \cup {"none"}, key : Keys \cup {0}, incr : Nat,
                              x : maybe, m : maybe, i : 0 .. MaxHeight + 1,
                              at : maybe \cup {head}, lvl : 0 .. MaxHeight,
                              prev : [Levels -> maybe \cup {head}],
                              fwd : [Levels -> maybe]]]
      /\ todo \in [calls : Nat, keys : SUBSET Keys]
      /\ recs \subseteq Recs
      /\ seen \in [Threads -> SUBSET SUBSET Recs]

(* On every level the nodes are in the order of their keys and incr_keys,  *)
(* equal only where two threads have put one key into a list without       *)
(* duplicates, and every node of a level is on the level below: nothing    *)
(* that is linked is lost to a search that starts higher.                  *)
Ordered ==
  \A l \in Levels :
    /\ \A a \in On(next, l) :
         LET b == Behind(next, a, l)
         IN  b # Null => \/ info[a].key < info[b].key
                         \/ /\ info[a].key = info[b].key
                            /\ info[a].incr < info[b].incr \/ ~dupl
    /\ l > 1 => On(next, l) \subseteq On(next, l - 1)

(* ab_skiplist_num is off only by the calls that are between their link or *)
(* unlink on the lowest level and their update of num.                     *)
NumExact ==
  LET adding == {t \in Threads : \/ pc[t] \in {"inserted", "num_add"}
                                 \/ loc[t].op = "insert" /\ loc[t].i > 1}
      taking == {t \in Threads : pc[t] \in {"free_x", "free_m", "num_sub"}}
  IN  num = (Cardinality(On(next, 1)) - Cardinality(adding) + Cardinality(taking))
            % NumMod

(* What the calls have made of the list is what is linked: no insert or    *)
(* delete beside it loses a node or brings it back, and num counts them.   *)
ListIsRecs == recs = RecsOf(next, info) /\ NumExact

(* A node that nobody inserts or deletes is linked on all of its levels.   *)
Towers ==
  \A x \in On(next, 1) :
    ~info[x].inserting /\ ~info[x].deleting
      => \A l \in 1 .. info[x].lvl : x \in On(next, l)

(* So a search finds what is in the list from whatever level it starts.    *)
LevelsWhole == Ordered /\ Towers

(* What a walk comes to is neither given back nor handed out again,        *)
(* markers included, and no thread holds a node that the pool may have     *)
(* handed out again.  The forward nodes are left out: nobody follows them. *)
(* They are compared, and stored where the comparison holds; and those     *)
(* that a delete reads from a node which another thread is taking off the  *)
(* upper levels may have been unlinked before it entered.                  *)
NoStalePointer ==
  /\ \A l \in Levels : \A n \in {head} \cup On(next, l) :
       next[n][l] # Null => state[next[n][l]] = "linked"
  /\ \A t \in Threads :
       LET held == {loc[t].at, loc[t].x, loc[t].m} \cup {loc[t].prev[l] : l \in Levels}
       IN  \A x \in held \cap Items : state[x] # "free"

(* The index implements AbOrder: a call takes effect when the lowest level *)
(* changes, and a delete begins with its flag.                             *)
CallOf(t) ==
  LET is(o, x) == [op |-> o, key |-> loc[t].key, incr |-> loc[t].incr, id |-> x]
      x == loc[t].x
      at(S) == pc[t] \in S
  IN  CASE loc[t].op = "insert" ->
             IF at({"dup_free"}) THEN is("done", Null)
             ELSE IF at({"num_add", "leave"}) THEN is("done", x)
             ELSE IF loc[t].i > 1 THEN is("inserting", x)
             ELSE is("insert", Null)
        [] loc[t].op = "delete" ->
             IF \/ at({"free_x", "free_m", "num_sub"})
                \/ at({"leave"}) /\ loc[t].m # Null
             THEN is("done", x)
             ELSE IF at({"leave"}) THEN is("done", Null)
             ELSE IF at({"marker"}) \/ loc[t].m # Null THEN is("deleting", x)
             ELSE is("delete", Null)
        [] loc[t].op = "get" ->
             IF at({"leave"}) THEN is("done", x) ELSE is("get", Null)
        [] OTHER -> is("none", Null)

Order == INSTANCE AbOrder
  WITH Ids <- Items,
       NoId <- Null,
       call <- [t \in Threads |-> CallOf(t)]

OrderSpec == Order!Spec

(* Finitely many calls (Starts bounds them) on a list with duplicates      *)
(* return, although a delete waits for the nodes ahead of its own to go    *)
(* and for a node of its key that is not being changed.  In a list without *)
(* duplicates racing inserts can make two records of a key; find_equal     *)
(* stops at the first of them, and a delete that has chosen the second     *)
(* spins until somebody deletes the first, which nobody need do.           *)
CallsReturn == \A t \in Threads : dupl /\ pc[t] # "idle" ~> pc[t] = "idle"
==============================================================================
