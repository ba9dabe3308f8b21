------------------------- MODULE AbSkiplistProofs -------------------------
(***************************************************************************)
(* What is proved of the skip list, for any threads, keys, items, heights  *)
(* and calls: every variable keeps its type (TypeCorrect) and no thread    *)
(* that is inside an epoch holds a node that the pool has taken back       *)
(* (NotStale). AbOrderProofs goes on from here to the order of the levels  *)
(* and to what the callers see.                                            *)
(*                                                                         *)
(* The nodes of a level are the least set that a walk along the level from *)
(* the head comes to (Least), so a lemma about such sets says what linking *)
(* or unlinking one node does to a level (LeastIn, LeastOut). The          *)
(* invariant Inv has four parts: the types; ListInv, what the levels are   *)
(* made of; ThreadInv, how far the call of each thread has come with the   *)
(* node that it puts in or takes out; and Ghost, about a set may[t] of the *)
(* nodes that t can have come to since it is inside. A node of may[t] is   *)
(* on the list or behind the marker of its delete, and whoever t comes to  *)
(* from it is again in may[t]: a step keeps what it does not touch, adds   *)
(* what is on the list now (Grown) and forgets it all when t goes out. The *)
(* sets are in no variable of the model: the invariant is that there are   *)
(* such sets (IInv).                                                       *)
(***************************************************************************)
EXTENDS AbSkiplist, AbInduct, TLAPS

-----------------------------------------------------------------------------
(* The nodes that a walk comes to. *)

\* The nodes S, with the head, have nothing else behind them.
Shut(F, S) == \A n \in S \cup {head} : F[n] \in S \cup {Null}

\* S is what a walk along F from the head comes to.
Least(F, S) ==
  S \subseteq Items /\ Shut(F, S) /\ \A T \in SUBSET Items : Shut(F, T) => S \subseteq T

\* One access more of every walk.
Wider(F, S) == UNION {{n, IF n = Null THEN Null ELSE F[n]} : n \in S}

(* There are finitely many items.                                          *)
LEMMA ItemsFinite == IsFiniteSet(Items) /\ Cardinality(Items) \in Nat
BY NodeAssumption, FS_CardinalityType

(* A walk that makes as many steps as there are items has come to          *)
(* everything.                                                             *)
LEMMA WalkIsLeast ==
  ASSUME NEW F \in [Nodes -> Items \cup {Null}], NEW w,
         w[0] = {head},
         \A k \in 1 .. Cardinality(Items) : w[k] = Wider(F, w[k - 1])
  PROVE  Least(F, w[Cardinality(Items)] \ {head, Null})
<1> DEFINE N == Cardinality(Items)
           all == Items \cup {head, Null}
           in(k) == w[k] \cap Items
<1>0. N \in Nat /\ IsFiniteSet(Items) /\ Null \notin Items /\ head \notin Items /\ head # Null
  BY ItemsFinite, NodeAssumption
<1>1. \A S : Wider(F, S) = S \cup {IF n = Null THEN Null ELSE F[n] : n \in S}
  BY DEF Wider
<1>2. ASSUME NEW k \in Nat, k < N
      PROVE  w[k + 1] = w[k] \cup {IF n = Null THEN Null ELSE F[n] : n \in w[k]}
  <2>1. k + 1 \in 1 .. N /\ k + 1 - 1 = k
    BY <1>0, <1>2
  <2>2. w[k + 1] = Wider(F, w[k])
    BY <2>1
  <2> QED
    BY <1>1, <2>2
<1>3. ASSUME NEW T \in SUBSET Items, Shut(F, T)
      PROVE  \A k \in Nat : k <= N => w[k] \subseteq T \cup {head, Null}
  <2> DEFINE U == {k \in Nat : k <= N => w[k] \subseteq T \cup {head, Null}}
  <2>1. 0 \in U
    OBVIOUS
  <2>2. ASSUME NEW k \in Nat, k \in U PROVE k + 1 \in U
    <3> SUFFICES ASSUME k + 1 <= N PROVE w[k + 1] \subseteq T \cup {head, Null}
      OBVIOUS
    <3>1. k < N /\ w[k] \subseteq T \cup {head, Null}
      BY <1>0, <2>2
    <3>2. \A n \in T \cup {head} : F[n] \in T \cup {Null}
      BY <1>3 DEF Shut
    <3> QED
      BY <1>2, <3>1, <3>2
  <2> HIDE DEF U
  <2>3. Nat \subseteq U
    BY <2>1, <2>2, NatSetInduction
  <2> QED
    BY <2>3 DEF U
<1>4. Shut(F, Items)
  BY DEF Shut, Nodes
<1>5. \A k \in Nat : k <= N => w[k] \subseteq all
  BY <1>3, <1>4
<1>6. \A k \in Nat : k <= N => head \in w[k]
  <2> DEFINE U == {k \in Nat : k <= N => head \in w[k]}
  <2>1. 0 \in U
    OBVIOUS
  <2>2. ASSUME NEW k \in Nat, k \in U PROVE k + 1 \in U
    BY <1>0, <1>2, <2>2
  <2> HIDE DEF U
  <2>3. Nat \subseteq U
    BY <2>1, <2>2, NatSetInduction
  <2> QED
    BY <2>3 DEF U
<1>7. \A k \in Nat : k <= N => IsFiniteSet(in(k)) /\ Cardinality(in(k)) \in Nat
  BY <1>0, FS_Intersection, FS_CardinalityType
<1>8. \A k \in Nat : k <= N => Shut(F, in(k)) \/ Cardinality(in(k)) >= k
  <2> DEFINE U == {k \in Nat : k <= N => Shut(F, in(k)) \/ Cardinality(in(k)) >= k}
  <2>1. 0 \in U
    BY <1>7, <1>0
  <2>2. ASSUME NEW k \in Nat, k \in U PROVE k + 1 \in U
    <3> SUFFICES ASSUME k + 1 <= N
                 PROVE  Shut(F, in(k + 1)) \/ Cardinality(in(k + 1)) >= k + 1
      OBVIOUS
    <3>1. k < N /\ k <= N /\ k + 1 \in Nat
      BY <1>0
    <3>2. w[k + 1] = w[k] \cup {IF n = Null THEN Null ELSE F[n] : n \in w[k]}
      BY <1>2, <3>1
    <3>3. in(k) \subseteq in(k + 1)
      BY <3>2
    <3>4. CASE Shut(F, in(k))
      <4>1. \A n \in w[k] : n = Null \/ F[n] \in in(k) \cup {Null}
        BY <1>5, <3>1, <3>4 DEF Shut
      <4>2. in(k + 1) = in(k)
        BY <1>0, <3>2, <4>1
      <4> QED
        BY <3>4, <4>2
    <3>5. CASE ~ Shut(F, in(k))
      <4>1. PICK n \in in(k) \cup {head} : F[n] \notin in(k) \cup {Null}
        BY <3>5 DEF Shut
      <4>2. n \in w[k] /\ n # Null /\ n \in Nodes
        BY <1>0, <1>6, <3>1, <4>1 DEF Nodes
      <4>3. F[n] \in Items
        BY <4>1, <4>2
      <4>4. F[n] \in in(k + 1) /\ F[n] \notin in(k)
        BY <3>2, <4>1, <4>2, <4>3
      <4>5. Cardinality(in(k) \cup {F[n]}) = Cardinality(in(k)) + 1
        BY <1>7, <3>1, <4>4, FS_AddElement
      <4>6. Cardinality(in(k) \cup {F[n]}) <= Cardinality(in(k + 1))
        <5>1. in(k) \cup {F[n]} \subseteq in(k + 1)
          BY <3>3, <4>4
        <5> QED
          BY <1>7, <3>1, <5>1, FS_Subset
      <4>7. Cardinality(in(k)) >= k
        BY <2>2, <3>1, <3>5
      <4>8. Cardinality(in(k)) \in Nat /\ Cardinality(in(k + 1)) \in Nat
        BY <1>7, <3>1
      <4> HIDE DEF in
      <4> QED
        BY <4>5, <4>6, <4>7, <4>8
    <3> QED
      BY <3>4, <3>5
  <2> HIDE DEF U
  <2>3. Nat \subseteq U
    BY <2>1, <2>2, NatSetInduction
  <2> QED
    BY <2>3 DEF U
<1>9. Shut(F, in(N))
  <2>1. CASE Cardinality(in(N)) >= N
    <3>1. Cardinality(in(N)) <= N /\ in(N) \subseteq Items
      BY <1>0, FS_Subset
    <3>2. in(N) = Items
      BY <1>0, <1>7, <2>1, <3>1, FS_Subset
    <3> QED
      BY <1>4, <3>2
  <2> QED
    BY <1>0, <1>8, <2>1
<1>10. w[N] \ {head, Null} = in(N)
  BY <1>0, <1>5
<1>11. ASSUME NEW T \in SUBSET Items, Shut(F, T) PROVE in(N) \subseteq T
  BY <1>0, <1>3, <1>11
<1> QED
  BY <1>9, <1>10, <1>11 DEF Least

-----------------------------------------------------------------------------
(* What walks come to when one node is put in or taken out. *)

(* There is one such set.                                                  *)
LEMMA LeastOne ==
  ASSUME NEW F, NEW S, NEW T, Least(F, S), Least(F, T)
  PROVE  S = T
BY DEF Least

(* A walk along pointers that are the same comes to the same nodes.        *)
LEMMA LeastSame ==
  ASSUME NEW F, NEW E, NEW S, NEW T, Least(F, S), Least(E, T),
         \A n \in S \cup {head} : E[n] = F[n]
  PROVE  T = S
<1>1. Shut(E, S) /\ T \subseteq S
  BY DEF Least, Shut
<1>2. Shut(F, T)
  BY <1>1 DEF Least, Shut
<1> QED
  BY <1>1, <1>2 DEF Least

(* When x is put behind p and what was behind p is behind x, a walk comes  *)
(* to x too.                                                               *)
LEMMA LeastIn ==
  ASSUME NEW F, NEW E, NEW S, NEW T, Least(F, S), Least(E, T),
         NEW p \in S \cup {head}, NEW x \in Items \ S,
         E[p] = x, E[x] = F[p],
         \A n \in (S \cup {head}) \ {p} : E[n] = F[n]
  PROVE  T = S \cup {x}
<1>0. x # head
  BY NodeAssumption
<1>1. Shut(E, S \cup {x})
  BY DEF Least, Shut
<1>2. T \subseteq S \cup {x}
  BY <1>1 DEF Least
<1> DEFINE U == (T \ {x}) \cap S
<1>3. ASSUME NEW n \in U \cup {head} PROVE F[n] \in U \cup {Null}
  <2>1. n \in S \cup {head} /\ F[n] \in S \cup {Null} /\ F[n] # x
    BY NodeAssumption DEF Least, Shut
  <2>2. CASE n = p
    <3>1. x \in T
      BY <2>2, NodeAssumption DEF Least, Shut
    <3>2. F[p] \in T \cup {Null}
      BY <3>1 DEF Least, Shut
    <3> QED
      BY <2>1, <2>2, <3>2
  <2>3. CASE n # p
    BY <2>1, <2>3 DEF Least, Shut
  <2> QED
    BY <2>2, <2>3
<1>4. S \subseteq U
  BY <1>3 DEF Least, Shut
<1>5. p \in T \cup {head}
  BY <1>4
<1>6. x \in T
  BY <1>5, NodeAssumption DEF Least, Shut
<1> QED
  BY <1>2, <1>4, <1>6

\* Every node of S has one node behind which it is.
OneEach(F, S) ==
  \A a, b \in S \cup {head} : F[a] = F[b] /\ F[a] # Null => a = b

(* No node that a walk comes to is behind itself.                          *)
LEMMA NotItself ==
  ASSUME NEW F, NEW S, Least(F, S), OneEach(F, S), NEW x \in S
  PROVE  F[x] # x
<1> SUFFICES ASSUME F[x] = x PROVE FALSE
  OBVIOUS
<1>0. x # head /\ x # Null
  BY NodeAssumption DEF Least
<1>1. ASSUME NEW n \in (S \ {x}) \cup {head} PROVE F[n] \in (S \ {x}) \cup {Null}
  BY <1>0 DEF Least, Shut, OneEach
<1>2. S \subseteq S \ {x}
  BY <1>1 DEF Least, Shut
<1> QED
  BY <1>2

(* When what was behind x is put behind p, where x was, a walk comes to x  *)
(* no more.                                                                *)
LEMMA LeastOut ==
  ASSUME NEW F, NEW E, NEW S, NEW T, Least(F, S), Least(E, T), OneEach(F, S),
         NEW p \in S \cup {head}, NEW x \in S,
         F[p] = x, E[p] = F[x],
         \A n \in (S \cup {head}) \ {p} : E[n] = F[n]
  PROVE  T = S \ {x}
<1>0. x # head /\ x # Null /\ F[x] # x
  BY NodeAssumption, NotItself DEF Least
<1>1. ASSUME NEW n \in (S \ {x}) \cup {head} PROVE E[n] \in (S \ {x}) \cup {Null}
  <2>1. CASE n = p
    BY <1>0, <2>1 DEF Least, Shut
  <2>2. CASE n # p
    BY <1>0, <2>2 DEF Least, Shut, OneEach
  <2> QED
    BY <2>1, <2>2
<1>2. T \subseteq S \ {x}
  BY <1>1 DEF Least, Shut
<1>3. p \in T \cup {head}
  <2> SUFFICES ASSUME p \notin T \cup {head} PROVE FALSE
    OBVIOUS
  <2>1. Shut(F, T)
    BY <1>2 DEF Least, Shut
  <2> QED
    BY <2>1 DEF Least
<1>4. ASSUME NEW n \in T \cup {x} \cup {head} PROVE F[n] \in T \cup {x} \cup {Null}
  <2>1. CASE n = p
    BY <2>1
  <2>2. CASE n = x
    <3>1. F[x] \in T \cup {Null}
      BY <1>3 DEF Least, Shut
    <3> QED
      BY <2>2, <3>1
  <2>3. CASE n # p /\ n # x
    BY <1>2, <2>3 DEF Least, Shut
  <2> QED
    BY <2>1, <2>2, <2>3
<1>5. S \subseteq T \cup {x}
  <2>1. T \cup {x} \in SUBSET Items
    BY DEF Least
  <2> QED
    BY <1>4, <2>1 DEF Least, Shut
<1> QED
  BY <1>2, <1>5

(* Pointers that are the same lead to different nodes as before.           *)
LEMMA OneEachSame ==
  ASSUME NEW F, NEW E, NEW S, OneEach(F, S), \A n \in S \cup {head} : E[n] = F[n]
  PROVE  OneEach(E, S)
BY DEF OneEach

(* They do when a node is put in.                                          *)
LEMMA OneEachIn ==
  ASSUME NEW F, NEW E, NEW S, Shut(F, S), OneEach(F, S),
         NEW p \in S \cup {head}, NEW x \in Items \ S,
         E[p] = x, E[x] = F[p],
         \A n \in (S \cup {head}) \ {p} : E[n] = F[n]
  PROVE  OneEach(E, S \cup {x})
<1>1. \A n \in S \cup {head} : F[n] # x
  BY NodeAssumption DEF Shut
<1> QED
  BY <1>1 DEF OneEach

(* They do when a node is taken out.                                       *)
LEMMA OneEachOut ==
  ASSUME NEW F, NEW E, NEW S, Least(F, S), OneEach(F, S),
         NEW p \in S \cup {head}, NEW x \in S,
         F[p] = x, E[p] = F[x],
         \A n \in (S \cup {head}) \ {p} : E[n] = F[n]
  PROVE  OneEach(E, S \ {x})
<1>1. x # head /\ x # Null /\ F[x] # x
  BY NodeAssumption, NotItself DEF Least
<1> QED
  BY <1>1 DEF OneEach
-----------------------------------------------------------------------------
(* The list and who works on it. *)

Line(l) == On(next, l) \cup {head}
After(n, l) == Behind(next, n, l)
Succ(l) == [n \in Nodes |-> After(n, l)]

NextTyped == next \in [Nodes -> [Levels -> Items \cup {Null}]]

(* On of AbSkiplist, which is computed step by step, is what a walk comes  *)
(* to.                                                                     *)
LEMMA OnIsLeast == NextTyped => \A l \in Levels : Least(Succ(l), On(next, l))
<1> SUFFICES ASSUME NextTyped, NEW l \in Levels
             PROVE  Least(Succ(l), On(next, l))
  OBVIOUS
<1> DEFINE N == Cardinality(Items)
           F == Succ(l)
           Is(f) == f = [k \in 0 .. N |->
                           IF k = 0 THEN {head}
                           ELSE UNION {{n, IF n = Null THEN Null ELSE Behind(next, n, l)} :
                                         n \in f[k - 1]}]
           w == CHOOSE f : Is(f)
<1>1. F \in [Nodes -> Items \cup {Null}]
  BY NodeAssumption DEF Succ, After, Behind, NextTyped, Nodes
<1>2. On(next, l) = w[N] \ {head, Null}
  BY DEF On
<1>3. N \in Nat
  BY ItemsFinite
<1> DEFINE h == [k \in Nat |-> [S \in SUBSET (Nodes \cup {Null}) |-> Wider(F, S)]]
<1>4. \E f : Recurs(f, {head}, h, SUBSET (Nodes \cup {Null}))
  <2>1. {head} \in SUBSET (Nodes \cup {Null})
    BY DEF Nodes
  <2>2. Steps(h, SUBSET (Nodes \cup {Null}))
    <3> SUFFICES ASSUME NEW k \in Nat, NEW S \in SUBSET (Nodes \cup {Null})
                 PROVE  Wider(F, S) \in SUBSET (Nodes \cup {Null})
      BY DEF Steps
    <3> HIDE DEF F
    <3> QED
      BY <1>1 DEF Wider, Nodes
  <2> HIDE DEF h
  <2> QED
    BY <2>1, <2>2, NatRecursion
<1>5. PICK f : Recurs(f, {head}, h, SUBSET (Nodes \cup {Null}))
  BY <1>4
<1>6. ASSUME NEW S \in SUBSET (Nodes \cup {Null})
      PROVE  Wider(F, S) = UNION {{n, IF n = Null THEN Null ELSE Behind(next, n, l)} : n \in S}
  BY <1>6 DEF Wider, Succ, After
<1>7. Is([k \in 0 .. N |-> f[k]])
  <2> SUFFICES ASSUME NEW k \in 0 .. N, k # 0
               PROVE  f[k] = UNION {{n, IF n = Null THEN Null ELSE Behind(next, n, l)} :
                                      n \in f[k - 1]}
    <3>1. f[0] = {head}
      BY <1>5 DEF Recurs
    <3>2. \A k \in 0 .. N : k # 0 => k - 1 \in 0 .. N
      BY <1>3
    <3> QED
      BY <3>1, <3>2
  <2>1. k - 1 \in Nat /\ k - 1 + 1 = k
    OBVIOUS
  <2>2. f[k - 1] \in SUBSET (Nodes \cup {Null}) /\ f[k] = h[k - 1][f[k - 1]]
    <3> HIDE DEF h
    <3> QED
      BY <1>5, <2>1 DEF Recurs
  <2>3. f[k] = Wider(F, f[k - 1])
    BY <2>1, <2>2
  <2> QED
    BY <1>6, <2>2, <2>3
<1>8. Is(w)
  BY <1>7
<1> HIDE DEF w, h
<1>9. w[0] = {head}
  BY <1>3, <1>8
<1>10. \A k \in 1 .. N : w[k] = UNION {{n, IF n = Null THEN Null ELSE Behind(next, n, l)} :
                                         n \in w[k - 1]}
  <2>1. \A k \in 0 .. N :
          w[k] = IF k = 0 THEN {head}
                 ELSE UNION {{n, IF n = Null THEN Null ELSE Behind(next, n, l)} : n \in w[k - 1]}
    BY <1>8
  <2>2. \A k \in 1 .. N : k \in 0 .. N /\ k # 0
    BY <1>3
  <2> HIDE DEF N
  <2> QED
    BY <2>1, <2>2, Zenon
<1> DEFINE U == {k \in Nat : k <= N => w[k] \in SUBSET (Nodes \cup {Null})}
<1>11. Nat \subseteq U
  <2>1. 0 \in U
    BY <1>9 DEF Nodes
  <2>2. ASSUME NEW k \in Nat, k \in U PROVE k + 1 \in U
    <3> SUFFICES ASSUME k + 1 <= N PROVE w[k + 1] \in SUBSET (Nodes \cup {Null})
      OBVIOUS
    <3>1. k + 1 \in 1 .. N /\ k + 1 - 1 = k /\ w[k] \in SUBSET (Nodes \cup {Null})
      BY <1>3, <2>2
    <3>2. w[k + 1] = Wider(F, w[k])
      <4>1. w[k + 1] = UNION {{n, IF n = Null THEN Null ELSE Behind(next, n, l)} :
                                n \in w[k]}
        BY <1>10, <3>1
      <4> QED
        BY <1>6, <3>1, <4>1
    <3> HIDE DEF F
    <3> QED
      BY <1>1, <3>1, <3>2 DEF Wider, Nodes
  <2> HIDE DEF U
  <2> QED
    BY <2>1, <2>2, NatSetInduction
<1>12. \A k \in 1 .. N : w[k] = Wider(F, w[k - 1])
  <2> SUFFICES ASSUME NEW k \in 1 .. N PROVE w[k] = Wider(F, w[k - 1])
    OBVIOUS
  <2>1. k - 1 \in U /\ k - 1 <= N
    BY <1>3, <1>11
  <2>2. w[k - 1] \in SUBSET (Nodes \cup {Null})
    BY <2>1
  <2> QED
    BY <1>6, <1>10, <2>2
<1> HIDE DEF F
<1>13. Least(F, w[N] \ {head, Null})
  BY <1>1, <1>9, <1>12, WalkIsLeast
<1> QED
  BY <1>2, <1>13 DEF F
-----------------------------------------------------------------------------
(* The invariant. *)

\* A thread that is inside may follow the pointers it finds in n.
Safe(t, n) ==
  \/ n = head
  \/ n \in Items /\ state[n] = "linked"
  \/ n \in Items /\ state[n] = "retired" /\ t \in guards[n]

SearchPCs == {"find_start", "find"}
PutPCs == {"enter", "dup_free", "check", "set", "link", "inserted"} \cup SearchPCs
TakePCs == {"forward", "prev", "mark", "unlink", "free_x"} \cup SearchPCs
InsertOnly == {"new", "dup_free", "check", "set", "link", "inserted", "num_add"}
DeleteOnly == {"forward", "flag", "again", "marker", "prev", "mark", "unlink",
               "free_x", "free_m", "num_sub"}

\* A thread at p with the locals r is putting r.x in, taking it out, has a
\* marker for that.
Puts(p, r) == r.op = "insert" /\ r.x # Null /\ p \in PutPCs
Marks(p, r) == r.op = "delete" /\ r.m # Null /\ p \in TakePCs
Takes(p, r) == Marks(p, r) \/ p = "marker"
HasMark(p, r) == Marks(p, r) \/ p = "free_m"

\* The nodes that nobody else writes to: only what is in front of them changes.
Owns(p, r, x) ==
  \/ (Puts(p, r) \/ Takes(p, r)) /\ x = r.x
  \/ HasMark(p, r) /\ x = r.m

Apart ==
  \A t, u \in Threads : t # u =>
    \A x \in Items : ~ (Owns(pc[t], loc[t], x) /\ Owns(pc[u], loc[u], x))

Nodal ==
  \A l \in Levels : \A n \in On(next, l) :
    /\ n \in Items /\ state[n] = "linked" /\ ~info[n].marker
    /\ l <= info[n].lvl /\ info[n].key \in Keys

OneBehind == \A l \in Levels : OneEach(Succ(l), On(next, l))

Lower == \A l \in Levels : l > 1 => On(next, l) \subseteq On(next, l - 1)

HeadIs == info[head] = [NoInfo EXCEPT !.lvl = MaxHeight]

\* What is next to a node of the line is linked, and a marker belongs to the
\* delete that is about to unlink the node.
NextIs ==
  \A l \in Levels : \A n \in Line(l) :
    next[n][l] # Null =>
      /\ state[next[n][l]] = "linked"
      /\ info[next[n][l]].marker =>
           \E t \in Threads : Marks(pc[t], loc[t]) /\ n = loc[t].x /\ next[n][l] = loc[t].m
                              /\ l = loc[t].i

PutOK(p, r) ==
  Puts(p, r) =>
    LET x == r.x
        i == r.i
        top == info[x].lvl
    IN  /\ state[x] = "linked"
        /\ info[x].inserting /\ ~info[x].deleting /\ ~info[x].marker
        /\ info[x].key = r.key /\ top \in Levels /\ top <= height
        /\ \A l \in Levels : x \in On(next, l) <=> l < i
        /\ p \in {"enter", "dup_free"} => i = 0
        /\ p \in SearchPCs => i <= top
        /\ p \in {"check", "set", "link"} =>
             /\ i \in 1 .. top
             /\ \A k \in 1 .. top : r.prev[k] # Null
        /\ p = "inserted" => i = top + 1
        /\ p = "find" => \A k \in 1 .. top : k > r.lvl => r.prev[k] # Null
        /\ p = "link" => next[x][i] = r.fwd[i]

TakeOK(p, r) ==
  Takes(p, r) =>
    LET x == r.x
    IN  /\ x # Null /\ state[x] = "linked"
        /\ info[x].deleting /\ ~info[x].inserting /\ ~info[x].marker
        /\ info[x].lvl \in Levels
        /\ p = "marker" => \A l \in 1 .. info[x].lvl : x \in On(next, l)

MarkOK(p, r) ==
  /\ HasMark(p, r) => r.m # Null /\ state[r.m] = "linked" /\ info[r.m].marker
  /\ Marks(p, r) =>
       LET x == r.x
           m == r.m
           i == r.i
       IN  /\ i <= info[x].lvl
           /\ i = 0 <=> p = "free_x"
           /\ \A l \in Levels : x \in On(next, l) <=> l <= i
           /\ p \in {"prev", "mark", "unlink"} \/ (p = "forward" /\ r.lvl > i)
              => (next[x][i] = m => next[m][i] = r.fwd[i])
           /\ p \in {"mark", "unlink"} => r.prev[i] # Null
           /\ p = "unlink" => next[x][i] = m

\* The locals at each step.
Local(t, p, r) ==
  /\ p = "idle" <=> r.op = "none"
  /\ p \in InsertOnly => r.op = "insert"
  /\ p \in DeleteOnly => r.op = "delete"
  /\ p \in {"idle", "new", "enter"} <=> t \notin inside
  /\ p = "idle" => r = NoLocals
  /\ p # "idle" => r.key \in Keys
  /\ p = "new" => r.lvl \in Levels /\ r.lvl <= height /\ r.x = Null /\ r.i = 0
  /\ p \in {"new", "enter", "again"} =>
       r.m = Null /\ r.prev = Nowhere /\ r.fwd = Nowhere /\ r.at = Null
  /\ p = "find" => r.lvl \in Levels
  /\ p = "forward" => /\ r.lvl \in Levels /\ r.at \in Items
                      /\ r.lvl <= info[r.at].lvl /\ r.x \in {Null, r.at}

\* What the thread is about, by the operation.
About(p, r) ==
  /\ r.op = "insert" => r.m = Null /\ (r.x = Null => p \in {"new", "leave"})
  /\ r.op = "get" => r.m = Null /\ (r.x # Null => p = "leave")
  /\ r.op = "delete" /\ r.x = Null =>
       r.m = Null /\ p \in {"enter", "forward", "again", "leave"} \cup SearchPCs
  /\ r.op = "delete" /\ r.x # Null =>
       /\ p \in {"flag", "marker", "free_m", "num_sub", "leave"} \cup TakePCs
       /\ r.m = Null <=> p \in {"flag", "marker"}

\* may[t]: the nodes, with their levels, that t can have come to.
Held(may, t, p, r) ==
  t \in inside =>
    /\ \A k \in Levels : r.prev[k] # Null => <<r.prev[k], k>> \in may[t]
    /\ r.op # "delete" =>
         \A k \in Levels : r.fwd[k] # Null => <<r.fwd[k], k>> \in may[t]
    /\ p = "find" => <<r.at, r.lvl>> \in may[t]
    /\ r.at # Null => <<r.at, 1>> \in may[t]
    /\ r.x # Null /\ ~ (Puts(p, r) /\ r.i <= 1) => <<r.x, 1>> \in may[t]
    /\ r.m # Null => Safe(t, r.m)

\* n has been taken from level l: its next keeps what was behind it.
Gone(t, n, l) ==
  LET y == next[n][l]
  IN  /\ info[n].deleting
      /\ y # Null /\ info[y].marker /\ Safe(t, y)
      /\ \A u \in Threads : Marks(pc[u], loc[u]) /\ y = loc[u].m => n = loc[u].x

MayOK(may, t) ==
  \A n \in Nodes, l \in Levels : <<n, l>> \in may[t] =>
    /\ Safe(t, n) /\ ~info[n].marker /\ l <= info[n].lvl
    /\ n # head => info[n].key \in Keys
    /\ l > 1 => <<n, l - 1>> \in may[t]
    /\ After(n, l) # Null => <<After(n, l), l>> \in may[t]
    /\ n \notin Line(l) => Gone(t, n, l)

Ghost(may) ==
  /\ may \in [Threads -> SUBSET (Nodes \X Levels)]
  /\ \A t \in Threads : t \notin inside => may[t] = {}
  /\ \A t \in inside : \A l \in Levels : \A n \in Line(l) : <<n, l>> \in may[t]
  /\ \A t \in Threads : MayOK(may, t)

ThreadOK(may, t, p, r) ==
  /\ PutOK(p, r) /\ TakeOK(p, r) /\ MarkOK(p, r)
  /\ Local(t, p, r) /\ About(p, r) /\ Held(may, t, p, r)

ThreadInv(may, t) == ThreadOK(may, t, pc[t], loc[t])

ListInv == Nodal /\ OneBehind /\ Lower /\ Towers /\ HeadIs /\ NextIs /\ Apart

Inv(may) ==
  TypeOK /\ ListInv /\ Ghost(may) /\ \A t \in Threads : ThreadInv(may, t)
-----------------------------------------------------------------------------
(* The line. *)

(* The type of next.                                                       *)
LEMMA TypedNext == TypeOK => NextTyped
BY DEF TypeOK, NextTyped

(* What a level is: a set of items, and behind each of its nodes is        *)
(* another one or nothing.                                                 *)
LEMMA LineFacts ==
  TypeOK => \A l \in Levels :
              /\ Least(Succ(l), On(next, l))
              /\ On(next, l) \subseteq Items /\ Line(l) \subseteq Nodes /\ head \in Line(l)
              /\ \A n \in Line(l) : After(n, l) \in On(next, l) \cup {Null}
<1> SUFFICES ASSUME TypeOK, NEW l \in Levels
             PROVE  /\ Least(Succ(l), On(next, l))
                    /\ On(next, l) \subseteq Items /\ Line(l) \subseteq Nodes /\ head \in Line(l)
                    /\ \A n \in Line(l) : After(n, l) \in On(next, l) \cup {Null}
  OBVIOUS
<1>1. Least(Succ(l), On(next, l))
  BY TypedNext, OnIsLeast
<1>2. On(next, l) \subseteq Items
  BY <1>1 DEF Least
<1>3. Line(l) \subseteq Nodes /\ head \in Line(l)
  BY <1>2 DEF Line, Nodes
<1>4. \A n \in Line(l) : After(n, l) \in On(next, l) \cup {Null}
  BY <1>1, <1>3 DEF Least, Shut, Succ, Line
<1> QED
  BY <1>1, <1>2, <1>3, <1>4

(* OnIsLeast after a step.                                                 *)
LEMMA OnIsLeastNext == NextTyped' => (\A l \in Levels : Least(Succ(l), On(next, l)))'
BY OnIsLeast, PTL

(* A level stays when what is behind its nodes stays.                      *)
LEMMA LineStays ==
  ASSUME TypeOK, TypeOK', NEW l \in Levels,
         \A n \in Line(l) : After(n, l)' = After(n, l)
  PROVE  On(next, l)' = On(next, l) /\ Line(l)' = Line(l)
<1>1. Least(Succ(l), On(next, l)) /\ Line(l) \subseteq Nodes
  BY LineFacts
<1>2. Least(Succ(l)', On(next, l)')
  <2>1. NextTyped'
    BY DEF TypeOK, NextTyped
  <2> QED
    BY <2>1, OnIsLeastNext
<1>3. \A n \in On(next, l) \cup {head} : Succ(l)'[n] = Succ(l)[n]
  BY <1>1 DEF Succ, Line
<1>4. On(next, l)' = On(next, l)
  BY <1>1, <1>2, <1>3, LeastSame
<1> QED
  BY <1>4 DEF Line

(* And no two of its nodes have the same one behind them.                  *)
LEMMA OneBehindStays ==
  ASSUME TypeOK, OneBehind, NEW l \in Levels,
         \A n \in Line(l) : After(n, l)' = After(n, l),
         On(next, l)' = On(next, l)
  PROVE  OneEach(Succ(l)', On(next, l)')
<1>1. Line(l) \subseteq Nodes
  BY LineFacts
<1>2. \A n \in On(next, l) \cup {head} : Succ(l)'[n] = Succ(l)[n]
  BY <1>1 DEF Succ, Line
<1>3. OneEach(Succ(l), On(next, l))
  BY DEF OneBehind
<1> QED
  BY <1>2, <1>3, OneEachSame

(* A step that writes to no node changes no level.                         *)
LEMMA ListStays ==
  ASSUME TypeOK, TypeOK', UNCHANGED <<next, info>>
  PROVE  /\ \A l \in Levels : On(next, l)' = On(next, l) /\ Line(l)' = Line(l)
         /\ \A n, l : After(n, l)' = After(n, l)
<1>1. \A n, l : After(n, l)' = After(n, l)
  BY DEF After, Behind
<1> QED
  BY <1>1, LineStays

-----------------------------------------------------------------------------
(* Steps that change nothing but the locals of their thread. *)

Quiet(t) ==
  /\ UNCHANGED <<inside, state, guards, next, info>>
  /\ height' \in Levels /\ height' >= height
  /\ \A u \in Threads : u # t => pc'[u] = pc[u] /\ loc'[u] = loc[u]

\* The thread goes on with the nodes that it has.
SameWork(p, r, q, s) ==
  /\ Marks(q, s) <=> Marks(p, r)
  /\ Marks(p, r) => s.x = r.x /\ s.m = r.m /\ s.i = r.i
  /\ \A x \in Items : Owns(q, s, x) => Owns(p, r, x)

(* Such a step leaves every thread where it was.                           *)
LEMMA QuietThread ==
  ASSUME NEW may, TypeOK, TypeOK', NEW t \in Threads, Quiet(t),
         NEW u \in Threads, NEW p, NEW r, ThreadOK(may, u, p, r)
  PROVE  ThreadOK(may, u, p, r)'
<1>1. /\ \A l \in Levels : On(next, l)' = On(next, l)
      /\ inside' = inside /\ state' = state /\ guards' = guards /\ next' = next /\ info' = info
      /\ height \in Levels /\ height' \in Levels /\ height' >= height
  BY ListStays DEF Quiet, TypeOK
<1>2. PutOK(p, r)'
  BY <1>1 DEF ThreadOK, PutOK, Levels
<1>3. TakeOK(p, r)'
  <2> SUFFICES ASSUME Takes(p, r) PROVE TakeOK(p, r)'
    BY DEF TakeOK
  <2>1. info[r.x].lvl \in Levels
    BY DEF ThreadOK, TakeOK
  <2>2. \A l \in 1 .. info[r.x].lvl : l \in Levels
    BY <2>1, BoundAssumption DEF Levels
  <2> QED
    BY <1>1, <2>2 DEF ThreadOK, TakeOK
<1>4. MarkOK(p, r)'
  BY <1>1 DEF ThreadOK, MarkOK
<1>5. Local(u, p, r)'
  BY <1>1 DEF ThreadOK, Local, Levels
<1>6. About(p, r)'
  BY DEF ThreadOK
<1>7. Held(may, u, p, r)'
  BY <1>1 DEF ThreadOK, Held, Safe
<1> QED
  BY <1>2, <1>3, <1>4, <1>5, <1>6, <1>7 DEF ThreadOK

\* The threads work on the same nodes as before.
SameWorks ==
  \A u \in Threads :
    /\ Marks(pc'[u], loc'[u]) <=> Marks(pc[u], loc[u])
    /\ Marks(pc[u], loc[u]) => /\ loc'[u].x = loc[u].x /\ loc'[u].m = loc[u].m
                               /\ loc'[u].i = loc[u].i
    /\ \A x \in Items : Owns(pc'[u], loc'[u], x) => Owns(pc[u], loc[u], x)

(* It changes nothing of the list and of what the threads may have come    *)
(* to.                                                                     *)
LEMMA QuietList ==
  ASSUME NEW may, Inv(may), TypeOK', UNCHANGED <<inside, state, guards, next, info>>, SameWorks
  PROVE  ListInv' /\ Ghost(may)'
<1>1. /\ \A l \in Levels : On(next, l)' = On(next, l) /\ Line(l)' = Line(l)
      /\ \A n, l : After(n, l)' = After(n, l)
      /\ inside' = inside /\ state' = state /\ guards' = guards /\ next' = next /\ info' = info
  BY ListStays DEF Inv
<1>2. \A u \in Threads :
        /\ Marks(pc'[u], loc'[u]) <=> Marks(pc[u], loc[u])
        /\ Marks(pc[u], loc[u]) => /\ loc'[u].x = loc[u].x /\ loc'[u].m = loc[u].m
                                   /\ loc'[u].i = loc[u].i
        /\ \A x \in Items : Owns(pc'[u], loc'[u], x) => Owns(pc[u], loc[u], x)
  BY DEF SameWorks
<1>3. Nodal' /\ Lower' /\ Towers' /\ HeadIs'
  <2>1. Nodal'
    BY <1>1 DEF Inv, ListInv, Nodal
  <2>2. Lower'
    <3>1. \A l \in Levels : l > 1 => l - 1 \in Levels
      BY BoundAssumption DEF Levels
    <3> QED
      BY <1>1, <3>1 DEF Inv, ListInv, Lower
  <2>3. Towers'
    <3>1. 1 \in Levels /\ \A x \in On(next, 1) : x \in Items /\ 1 .. info[x].lvl \subseteq Levels
      <4>1. 1 \in Levels
        BY BoundAssumption DEF Levels
      <4>2. \A x \in On(next, 1) : x \in Items
        BY <4>1, LineFacts DEF Inv
      <4>3. \A x \in Items : info[x].lvl \in 0 .. MaxHeight
        BY DEF Inv, TypeOK, Nodes
      <4> QED
        BY <4>1, <4>2, <4>3, BoundAssumption DEF Levels
    <3> QED
      BY <1>1, <3>1 DEF Inv, ListInv, Towers
  <2>4. HeadIs'
    BY <1>1 DEF Inv, ListInv, HeadIs, NoInfo
  <2> QED
    BY <2>1, <2>2, <2>3, <2>4
<1>4. OneBehind'
  <2> SUFFICES ASSUME NEW l \in Levels PROVE OneEach(Succ(l)', On(next, l)')
    BY DEF OneBehind
  <2> QED
    BY <1>1, OneBehindStays DEF Inv, ListInv
<1>5. NextIs'
  BY <1>1, <1>2 DEF Inv, ListInv, NextIs
<1>6. Apart'
  BY <1>2 DEF Inv, ListInv, Apart
<1>7. Ghost(may)'
  <2>1. \A u \in Threads, n \in Nodes, l \in Levels : Gone(u, n, l) => Gone(u, n, l)'
    BY <1>1, <1>2 DEF Gone, Safe
  <2>2. ASSUME NEW u \in Threads PROVE MayOK(may, u)'
    <3>1. MayOK(may, u)
      BY DEF Inv, Ghost
    <3> QED
      BY <1>1, <2>1, <3>1 DEF MayOK, Safe
  <2> QED
    BY <1>1, <2>2 DEF Inv, Ghost
<1> QED
  BY <1>3, <1>4, <1>5, <1>6, <1>7 DEF ListInv

(* So it keeps the invariant when its thread has a right to go on.         *)
LEMMA QuietStep ==
  ASSUME NEW may, Inv(may), TypeOK', NEW t \in Threads, Quiet(t),
         NEW q, NEW s, pc'[t] = q, loc'[t] = s,
         SameWork(pc[t], loc[t], q, s), ThreadOK(may, t, q, s)'
  PROVE  Inv(may)'
<1>1. /\ \A l \in Levels : On(next, l)' = On(next, l) /\ Line(l)' = Line(l)
      /\ \A n, l : After(n, l)' = After(n, l)
      /\ \A u \in Threads : u # t => pc'[u] = pc[u] /\ loc'[u] = loc[u]
      /\ inside' = inside /\ state' = state /\ guards' = guards /\ next' = next /\ info' = info
  BY ListStays DEF Quiet, Inv
<1>2. SameWorks
  <2> SUFFICES ASSUME NEW u \in Threads
               PROVE  /\ Marks(pc'[u], loc'[u]) <=> Marks(pc[u], loc[u])
                      /\ Marks(pc[u], loc[u]) => /\ loc'[u].x = loc[u].x /\ loc'[u].m = loc[u].m
                                                 /\ loc'[u].i = loc[u].i
                      /\ \A x \in Items : Owns(pc'[u], loc'[u], x) => Owns(pc[u], loc[u], x)
    BY DEF SameWorks
  <2>1. CASE u = t
    BY <2>1 DEF SameWork
  <2>2. CASE u # t
    BY <1>1, <2>2
  <2> QED
    BY <2>1, <2>2
<1>3. ListInv' /\ Ghost(may)'
  BY <1>1, <1>2, QuietList
<1>4. ASSUME NEW u \in Threads PROVE ThreadInv(may, u)'
  <2>1. CASE u = t
    BY <2>1 DEF ThreadInv
  <2>2. CASE u # t
    <3>1. PICK p, r : p = pc[u] /\ r = loc[u]
      OBVIOUS
    <3>2. ThreadOK(may, u, p, r)
      BY <3>1 DEF Inv, ThreadInv
    <3>3. ThreadOK(may, u, p, r)'
      BY <3>2, QuietThread DEF Inv
    <3>4. pc'[u] = p /\ loc'[u] = r
      BY <1>1, <2>2, <3>1
    <3> QED
      BY <3>3, <3>4 DEF ThreadInv
  <2> QED
    BY <2>1, <2>2
<1> QED
  BY <1>3, <1>4 DEF Inv
-----------------------------------------------------------------------------
(* Steps of a thread to p with the locals r that change nothing else. *)

Locals ==
  [op : Ops \cup {"none"}, key : Keys \cup {0}, incr : Nat,
   x : Items \cup {Null}, m : Items \cup {Null}, i : 0 .. MaxHeight + 1,
   at : Items \cup {Null} \cup {head}, lvl : 0 .. MaxHeight,
   prev : [Levels -> Items \cup {Null} \cup {head}], fwd : [Levels -> Items \cup {Null}]]

Moves(t, p, r) ==
  /\ pc' = [pc EXCEPT ![t] = p] /\ loc' = [loc EXCEPT ![t] = r]
  /\ UNCHANGED <<poolVars, listVars, todo, hist>>

(* The types of pc and loc.                                                *)
LEMMA LocalsTyped == TypeOK => pc \in [Threads -> PCs] /\ loc \in [Threads -> Locals]
BY DEF TypeOK, Locals

(* A step that changes only where its thread is keeps the invariant.       *)
LEMMA MovesStep ==
  ASSUME NEW may, Inv(may), NEW t \in Threads, NEW p \in PCs, NEW r \in Locals,
         Moves(t, p, r), SameWork(pc[t], loc[t], p, r), ThreadOK(may, t, p, r)
  PROVE  Inv(may)'
<1>1. /\ pc \in [Threads -> PCs] /\ loc \in [Threads -> Locals] /\ height \in Levels
      /\ UNCHANGED <<inside, state, guards, next, info, dupl, height, incr_key, num,
                     todo, recs, seen>>
  BY DEF Inv, TypeOK, Locals, Moves, poolVars, listVars, fields, hist
<1>2. pc' \in [Threads -> PCs] /\ loc' \in [Threads -> Locals]
  BY <1>1 DEF Moves
<1>3. TypeOK'
  BY <1>1, <1>2 DEF Inv, TypeOK, Locals
<1>4. Quiet(t)
  BY <1>1 DEF Quiet, Moves, Levels
<1>5. pc'[t] = p /\ loc'[t] = r
  BY <1>1 DEF Moves
<1>6. ThreadOK(may, t, p, r)'
  BY <1>3, <1>4, QuietThread DEF Inv
<1> QED
  BY <1>3, <1>4, <1>5, <1>6, QuietStep

(* There is a level.                                                       *)
LEMMA LevelOne == 1 \in Levels
BY BoundAssumption DEF Levels

(* A thread that is inside can have come to the head.                      *)
LEMMA HeadMay ==
  ASSUME NEW may, Inv(may), NEW t \in inside
  PROVE  \A l \in Levels : <<head, l>> \in may[t]
BY DEF Inv, Ghost, Line

(* What is known of a node that a thread can have come to.                 *)
LEMMA MayFacts ==
  ASSUME NEW may, Inv(may), NEW t \in Threads, NEW n \in Nodes, NEW l \in Levels,
         <<n, l>> \in may[t]
  PROVE  /\ Safe(t, n) /\ ~info[n].marker /\ l <= info[n].lvl
         /\ n # head => info[n].key \in Keys
         /\ After(n, l) # Null => <<After(n, l), l>> \in may[t] /\ After(n, l) \in Items
         /\ n \notin Line(l) => Gone(t, n, l)
         /\ t \in inside
<1>1. MayOK(may, t) /\ (t \notin inside => may[t] = {}) /\ TypeOK
  BY DEF Inv, Ghost
<1>2. After(n, l) \in Items \cup {Null}
  BY <1>1, NodeAssumption DEF After, Behind, TypeOK, Nodes
<1> QED
  BY <1>1, <1>2 DEF MayOK

(* Whoever can have come to a node on a level can have come to it on the   *)
(* lowest one.                                                             *)
LEMMA MayDown ==
  ASSUME NEW may, Inv(may), NEW t \in Threads, NEW n \in Nodes, NEW l \in Levels,
         <<n, l>> \in may[t]
  PROVE  <<n, 1>> \in may[t]
<1> DEFINE S == {k \in Nat : k < l => <<n, l - k>> \in may[t]}
<1>1. 0 \in S
  BY DEF Levels
<1>2. ASSUME NEW k \in Nat, k \in S PROVE k + 1 \in S
  <2> SUFFICES ASSUME k + 1 < l PROVE <<n, l - (k + 1)>> \in may[t]
    OBVIOUS
  <2>1. l - k \in Levels /\ l - k > 1 /\ <<n, l - k>> \in may[t] /\ l - (k + 1) = l - k - 1
    <3>1. MaxHeight \in Nat /\ l \in Nat /\ l <= MaxHeight /\ k < l
      BY BoundAssumption DEF Levels
    <3>2. <<n, l - k>> \in may[t]
      BY <1>2, <3>1
    <3> HIDE DEF S
    <3> QED
      BY <3>1, <3>2 DEF Levels
  <2>2. MayOK(may, t)
    BY DEF Inv, Ghost
  <2>3. <<n, l - k - 1>> \in may[t]
    <3>1. PICK j \in Levels : j = l - k
      BY <2>1
    <3> QED
      BY <2>1, <2>2, <3>1 DEF MayOK
  <2> QED
    BY <2>1, <2>3
<1> HIDE DEF S
<1>3. l - 1 \in S /\ l - 1 < l /\ l - (l - 1) = 1
  <2>1. l - 1 \in Nat /\ l - 1 < l /\ l - (l - 1) = 1
    BY DEF Levels
  <2> QED
    BY <1>1, <1>2, <2>1, NatSetInduction
<1> QED
  BY <1>3 DEF S

(* A search starts at the head, on the highest level of the list.          *)
LEMMA FindStartInv ==
  ASSUME NEW may, Inv(may), NEW t \in Threads, FindStart(t)
  PROVE  Inv(may)'
<1> DEFINE r == [loc[t] EXCEPT !.at = head, !.lvl = height, !.prev = Nowhere, !.fwd = Nowhere]
<1>1. /\ ThreadOK(may, t, pc[t], loc[t]) /\ pc[t] = "find_start" /\ height \in Levels
      /\ loc \in [Threads -> Locals]
  BY LocalsTyped DEF Inv, ThreadInv, FindStart, Goto, TypeOK
<1>2. r \in Locals
  <2>1. height \in 0 .. MaxHeight /\ Nowhere \in [Levels -> Items \cup {Null}]
    BY <1>1 DEF Levels, Nowhere
  <2>2. Nowhere \in [Levels -> Items \cup {Null} \cup {head}]
    BY DEF Nowhere
  <2> QED
    BY <1>1, <2>1, <2>2 DEF Locals
<1>3. Moves(t, "find", r)
  BY <1>1 DEF FindStart, Goto, Moves, Locals
<1>4. /\ r.op = loc[t].op /\ r.key = loc[t].key /\ r.x = loc[t].x /\ r.m = loc[t].m
      /\ r.i = loc[t].i /\ r.at = head /\ r.lvl = height
      /\ r.prev = Nowhere /\ r.fwd = Nowhere
  BY <1>1 DEF Locals
<1> HIDE DEF r
<1>5. SameWork(pc[t], loc[t], "find", r)
  BY <1>1, <1>4 DEF SameWork, Owns, Puts, Takes, Marks, HasMark, TakePCs, PutPCs, SearchPCs
<1>6. ThreadOK(may, t, "find", r)
  <2>1. PutOK("find", r)
    BY <1>1, <1>4 DEF ThreadOK, PutOK, Puts, PutPCs, SearchPCs, Levels
  <2>2. TakeOK("find", r)
    BY <1>1, <1>4 DEF ThreadOK, TakeOK, Takes, Marks, TakePCs, SearchPCs
  <2>3. MarkOK("find", r)
    BY <1>1, <1>4 DEF ThreadOK, MarkOK, HasMark, Marks, TakePCs, SearchPCs
  <2>4. Local(t, "find", r)
    BY <1>1, <1>4 DEF ThreadOK, Local, InsertOnly, DeleteOnly
  <2>5. About("find", r)
    BY <1>1, <1>4 DEF ThreadOK, About, TakePCs, SearchPCs
  <2>6. Held(may, t, "find", r)
    <3>1. t \in inside => <<head, 1>> \in may[t] /\ <<head, height>> \in may[t]
      BY <1>1, LevelOne, HeadMay
    <3> QED
      BY <1>1, <1>4, <3>1 DEF ThreadOK, Held, Puts, PutPCs, SearchPCs, Nowhere
  <2> QED
    BY <2>1, <2>2, <2>3, <2>4, <2>5, <2>6 DEF ThreadOK
<1>7. "find" \in PCs
  BY DEF PCs
<1> QED
  BY <1>2, <1>3, <1>5, <1>6, <1>7, MovesStep
-----------------------------------------------------------------------------
(* The searches. *)

(* A search is at a node of its level and sees one behind it.              *)
LEMMA FindFacts ==
  ASSUME NEW may, Inv(may), NEW t \in Threads, pc[t] = "find",
         NEW a, NEW l, NEW n,
         a = loc[t].at, l = loc[t].lvl, n = Behind(next, a, l)
  PROVE  /\ t \in inside /\ l \in Levels /\ a \in Nodes /\ a # Null
         /\ <<a, l>> \in may[t] /\ <<a, 1>> \in may[t] /\ (l > 1 => <<a, l - 1>> \in may[t])
         /\ n \in Items \cup {Null}
         /\ n # Null => <<n, l>> \in may[t] /\ <<n, 1>> \in may[t]
<1>1. t \in inside /\ l \in Levels
  BY DEF Inv, ThreadInv, ThreadOK, Local
<1>2. <<a, l>> \in may[t]
  BY <1>1 DEF Inv, ThreadInv, ThreadOK, Held
<1>3. a \in Nodes
  BY <1>2 DEF Inv, Ghost
<1>4. n = After(a, l)
  BY DEF After
<1>5. n # Null => <<n, l>> \in may[t] /\ n \in Items
  BY <1>1, <1>2, <1>3, <1>4, MayFacts
<1>6. <<a, 1>> \in may[t] /\ (n # Null => <<n, 1>> \in may[t])
  BY <1>1, <1>2, <1>3, <1>5, MayDown DEF Nodes
<1>7. a # Null
  BY <1>3, NodeAssumption DEF Nodes
<1>8. l > 1 => <<a, l - 1>> \in may[t]
  <2>1. MayOK(may, t)
    BY DEF Inv, Ghost
  <2> QED
    BY <1>1, <1>2, <1>3, <2>1 DEF MayOK
<1> QED
  BY <1>1, <1>2, <1>3, <1>5, <1>6, <1>7, <1>8

NotedIn(s, l, a, n) == [s EXCEPT !.prev[l] = a, !.fwd[l] = n]

(* What a search notes when it goes down, field by field.                  *)
LEMMA NotedFields ==
  ASSUME NEW s \in Locals, NEW l \in Levels, NEW a \in Nodes, NEW n \in Items \cup {Null},
         NEW r, r = NotedIn(s, l, a, n)
  PROVE  /\ r \in Locals
         /\ r.op = s.op /\ r.key = s.key /\ r.incr = s.incr /\ r.x = s.x /\ r.m = s.m
         /\ r.i = s.i /\ r.at = s.at /\ r.lvl = s.lvl
         /\ \A k \in Levels : /\ r.prev[k] = IF k = l THEN a ELSE s.prev[k]
                              /\ r.fwd[k] = IF k = l THEN n ELSE s.fwd[k]
<1>1. [s.prev EXCEPT ![l] = a] \in [Levels -> Items \cup {Null} \cup {head}]
  BY DEF Locals, Nodes
<1>2. [s.fwd EXCEPT ![l] = n] \in [Levels -> Items \cup {Null}]
  BY DEF Locals
<1>3. r = [s EXCEPT !.prev = [s.prev EXCEPT ![l] = a], !.fwd = [s.fwd EXCEPT ![l] = n]]
  BY DEF NotedIn, Locals
<1>4. r \in Locals
  BY <1>1, <1>2, <1>3 DEF Locals
<1>5. /\ r.op = s.op /\ r.key = s.key /\ r.incr = s.incr /\ r.x = s.x /\ r.m = s.m
      /\ r.i = s.i /\ r.at = s.at /\ r.lvl = s.lvl
      /\ r.prev = [s.prev EXCEPT ![l] = a] /\ r.fwd = [s.fwd EXCEPT ![l] = n]
  BY <1>3 DEF Locals
<1>6. \A k \in Levels : /\ r.prev[k] = IF k = l THEN a ELSE s.prev[k]
                        /\ r.fwd[k] = IF k = l THEN n ELSE s.fwd[k]
  BY <1>5 DEF Locals
<1> QED
  BY <1>4, <1>5, <1>6

(* What a search notes it can have come to.                                *)
LEMMA NotedHeld ==
  ASSUME NEW may, NEW t \in inside, NEW p, NEW s \in Locals, Held(may, t, p, s),
         NEW l \in Levels, NEW a \in Nodes, NEW n \in Items \cup {Null},
         <<a, l>> \in may[t], n # Null => <<n, l>> \in may[t]
  PROVE  /\ \A k \in Levels : NotedIn(s, l, a, n).prev[k] # Null =>
              <<NotedIn(s, l, a, n).prev[k], k>> \in may[t]
         /\ s.op # "delete" => \A k \in Levels : NotedIn(s, l, a, n).fwd[k] # Null =>
              <<NotedIn(s, l, a, n).fwd[k], k>> \in may[t]
<1> DEFINE r == NotedIn(s, l, a, n)
<1>1. \A k \in Levels : /\ r.prev[k] = IF k = l THEN a ELSE s.prev[k]
                        /\ r.fwd[k] = IF k = l THEN n ELSE s.fwd[k]
  BY NotedFields
<1> HIDE DEF r
<1>2. /\ \A k \in Levels : r.prev[k] # Null => <<r.prev[k], k>> \in may[t]
      /\ s.op # "delete" => \A k \in Levels : r.fwd[k] # Null => <<r.fwd[k], k>> \in may[t]
  BY <1>1 DEF Held
<1> QED
  BY <1>2 DEF r

(* The search goes on to the next node of its level.                       *)
LEMMA FindMoveInv ==
  ASSUME NEW may, Inv(may), NEW t \in Threads, FindMove(t)
  PROVE  Inv(may)'
<1> PICK a, l : a = loc[t].at /\ l = loc[t].lvl
  OBVIOUS
<1> PICK n : n = Behind(next, a, l)
  OBVIOUS
<1>0. /\ ThreadOK(may, t, pc[t], loc[t]) /\ pc[t] = "find"
      /\ pc \in [Threads -> PCs] /\ loc \in [Threads -> Locals]
      /\ n = Behind(next, a, l) /\ n # Null
  BY LocalsTyped DEF Inv, ThreadInv, FindMove, IsAfter
<1>1. /\ t \in inside /\ l \in Levels /\ a \in Nodes /\ a # Null
      /\ <<a, l>> \in may[t] /\ <<a, 1>> \in may[t] /\ (l > 1 => <<a, l - 1>> \in may[t])
      /\ n \in Items \cup {Null}
      /\ n # Null => <<n, l>> \in may[t] /\ <<n, 1>> \in may[t]
  BY <1>0, FindFacts
<1> DEFINE r == [loc[t] EXCEPT !.at = n]
<1>2. r \in Locals
  <2>1. loc[t] \in Locals
    BY <1>0
  <2>2. n \in Items \cup {Null} \cup {head}
    BY <1>1
  <2> QED
    BY <2>1, <2>2 DEF Locals
<1>3. Moves(t, "find", r)
  BY <1>0 DEF FindMove, Moves, Locals, Ends, Stops
<1>4. /\ r.op = loc[t].op /\ r.key = loc[t].key /\ r.x = loc[t].x /\ r.m = loc[t].m
      /\ r.i = loc[t].i /\ r.at = n /\ r.lvl = l
      /\ r.prev = loc[t].prev /\ r.fwd = loc[t].fwd
  BY <1>0, <1>1 DEF Locals
<1> HIDE DEF r
<1>5. SameWork(pc[t], loc[t], "find", r)
  BY <1>0, <1>1, <1>4 DEF SameWork, Owns, Puts, Takes, Marks, HasMark, TakePCs, PutPCs, SearchPCs
<1>6. ThreadOK(may, t, "find", r)
  <2>1. PutOK("find", r)
    BY <1>0, <1>1, <1>4 DEF ThreadOK, PutOK, Puts, PutPCs, SearchPCs, Levels
  <2>2. TakeOK("find", r)
    BY <1>0, <1>1, <1>4 DEF ThreadOK, TakeOK, Takes, Marks, TakePCs, SearchPCs
  <2>3. MarkOK("find", r)
    BY <1>0, <1>1, <1>4 DEF ThreadOK, MarkOK, HasMark, Marks, TakePCs, SearchPCs
  <2>4. Local(t, "find", r)
    BY <1>0, <1>1, <1>4 DEF ThreadOK, Local, InsertOnly, DeleteOnly
  <2>5. About("find", r)
    BY <1>0, <1>1, <1>4 DEF ThreadOK, About, TakePCs, SearchPCs
  <2>6. Held(may, t, "find", r)
    BY <1>0, <1>1, <1>4 DEF ThreadOK, Held, Puts, PutPCs, SearchPCs
  <2> QED
    BY <2>1, <2>2, <2>3, <2>4, <2>5, <2>6 DEF ThreadOK
<1>7. "find" \in PCs
  BY DEF PCs
<1> QED
  BY <1>2, <1>3, <1>5, <1>6, <1>7, MovesStep

(* The search notes where it is and goes down, or ends.                    *)
LEMMA FindDownInv ==
  ASSUME NEW may, Inv(may), NEW t \in Threads, FindDown(t)
  PROVE  Inv(may)'
<1> PICK a, l : a = loc[t].at /\ l = loc[t].lvl
  OBVIOUS
<1> PICK n \in Items \cup {Null} :
       /\ Stops(t, n) /\ l > 1
       /\ loc' = [loc EXCEPT ![t] = [Noted(t, n) EXCEPT !.lvl = @ - 1]]
       /\ UNCHANGED <<poolVars, listVars, pc, todo, hist>>
  BY DEF FindDown
<1>0. /\ ThreadOK(may, t, pc[t], loc[t]) /\ pc[t] = "find"
      /\ pc \in [Threads -> PCs] /\ loc \in [Threads -> Locals]
      /\ n = Behind(next, a, l) /\ l > 1
  BY LocalsTyped DEF Inv, ThreadInv, FindDown, Ends, Stops
<1>1. /\ t \in inside /\ l \in Levels /\ a \in Nodes /\ a # Null
      /\ <<a, l>> \in may[t] /\ <<a, 1>> \in may[t] /\ (l > 1 => <<a, l - 1>> \in may[t])
      /\ n \in Items \cup {Null}
      /\ n # Null => <<n, l>> \in may[t] /\ <<n, 1>> \in may[t]
  BY <1>0, FindFacts
<1> PICK o : o = NotedIn(loc[t], l, a, n)
  OBVIOUS
<1>a. /\ o \in Locals /\ Noted(t, n) = o
      /\ o.op = loc[t].op /\ o.key = loc[t].key /\ o.x = loc[t].x /\ o.m = loc[t].m
      /\ o.i = loc[t].i /\ o.at = a /\ o.lvl = l
      /\ \A k \in Levels : /\ o.prev[k] = IF k = l THEN a ELSE loc[t].prev[k]
                           /\ o.fwd[k] = IF k = l THEN n ELSE loc[t].fwd[k]
  <2>1. loc[t] \in Locals
    BY <1>0
  <2>2. Noted(t, n) = o
    BY DEF Noted, NotedIn
  <2>3. o.at = loc[t].at /\ o.lvl = loc[t].lvl
    BY <1>1, <2>1, NotedFields
  <2> QED
    BY <1>1, <2>1, <2>2, <2>3, NotedFields
<1>b. /\ \A k \in Levels : o.prev[k] # Null => <<o.prev[k], k>> \in may[t]
      /\ loc[t].op # "delete" => \A k \in Levels : o.fwd[k] # Null => <<o.fwd[k], k>> \in may[t]
  <2>1. Held(may, t, pc[t], loc[t]) /\ loc[t] \in Locals
    BY <1>0 DEF ThreadOK
  <2> QED
    BY <1>1, <2>1, NotedHeld
<1>c. l - 1 \in Levels /\ l - 1 \in 0 .. MaxHeight
  BY <1>0, <1>1, LevelOne, BoundAssumption, NodeAssumption DEF Levels, Locals
<1> DEFINE r == [o EXCEPT !.lvl = @ - 1]
<1>2. r \in Locals
  BY <1>1, <1>a, <1>c DEF Locals
<1>3. Moves(t, "find", r)
  BY <1>0, <1>a DEF FindDown, Moves, Ends, Stops
<1>4. /\ r.op = loc[t].op /\ r.key = loc[t].key /\ r.x = loc[t].x /\ r.m = loc[t].m
      /\ r.i = loc[t].i /\ r.at = a /\ r.lvl = l - 1
      /\ r.prev = o.prev /\ r.fwd = o.fwd
  BY <1>1, <1>a, <1>c DEF Locals
<1> HIDE DEF r
<1>5. SameWork(pc[t], loc[t], "find", r)
  BY <1>0, <1>1, <1>4 DEF SameWork, Owns, Puts, Takes, Marks, HasMark, TakePCs, PutPCs, SearchPCs
<1>6. ThreadOK(may, t, "find", r)
  <2>1. PutOK("find", r)
    <3> SUFFICES ASSUME Puts("find", r) PROVE PutOK("find", r)
      BY DEF PutOK
    <3>1. Puts(pc[t], loc[t]) /\ PutOK(pc[t], loc[t]) /\ loc[t].lvl = l /\ l \in Nat
      BY <1>0, <1>1, <1>4 DEF Puts, PutPCs, SearchPCs, ThreadOK, Levels
    <3>2. info[r.x].lvl \in Levels
      BY <1>4, <3>1 DEF PutOK
    <3>3. ASSUME NEW k \in 1 .. info[r.x].lvl, k > l - 1 PROVE o.prev[k] # Null
      <4>1. k \in Levels
        BY <3>2, BoundAssumption DEF Levels
      <4>2. CASE k = l
        BY <1>1, <1>a, <4>1, <4>2
      <4>3. CASE k # l
        <5>1. k > l
          BY <3>1, <3>3, <4>3
        <5>2. loc[t].prev[k] # Null
          BY <1>0, <1>4, <3>1, <5>1 DEF PutOK
        <5> QED
          BY <1>a, <4>1, <4>3, <5>2
      <4> QED
        BY <4>2, <4>3
    <3> QED
      BY <1>0, <1>4, <3>1, <3>3 DEF PutOK, SearchPCs
  <2>2. TakeOK("find", r)
    BY <1>0, <1>1, <1>4 DEF ThreadOK, TakeOK, Takes, Marks, TakePCs, SearchPCs
  <2>3. MarkOK("find", r)
    BY <1>0, <1>1, <1>4, <1>a DEF ThreadOK, MarkOK, HasMark, Marks, TakePCs, SearchPCs
  <2>4. Local(t, "find", r)
    BY <1>0, <1>1, <1>4, <1>c DEF ThreadOK, Local, InsertOnly, DeleteOnly
  <2>5. About("find", r)
    BY <1>0, <1>1, <1>4 DEF ThreadOK, About, TakePCs, SearchPCs
  <2>6. Held(may, t, "find", r)
    BY <1>0, <1>1, <1>4, <1>b, <1>c DEF ThreadOK, Held, Puts, PutPCs, SearchPCs
  <2> QED
    BY <2>1, <2>2, <2>3, <2>4, <2>5, <2>6 DEF ThreadOK
<1>7. "find" \in PCs
  BY DEF PCs
<1> QED
  BY <1>2, <1>3, <1>5, <1>6, <1>7, MovesStep

(* A delete that has lost its predecessor searches from the head again.    *)
LEMMA FindAgainInv ==
  ASSUME NEW may, Inv(may), NEW t \in Threads, FindAgain(t)
  PROVE  Inv(may)'
<1> PICK a, l : a = loc[t].at /\ l = loc[t].lvl
  OBVIOUS
<1> PICK n \in Items \cup {Null} : Ends(t, n, "find_start", Noted(t, n))
  BY DEF FindAgain
<1>0. /\ ThreadOK(may, t, pc[t], loc[t]) /\ pc[t] = "find"
      /\ pc \in [Threads -> PCs] /\ loc \in [Threads -> Locals]
      /\ n = Behind(next, a, l) /\ l = 1 /\ loc[t].op = "delete" /\ loc[t].x # Null
  BY LocalsTyped DEF Inv, ThreadInv, FindAgain, Ends, Stops
<1>1. /\ t \in inside /\ l \in Levels /\ a \in Nodes /\ a # Null
      /\ <<a, l>> \in may[t] /\ <<a, 1>> \in may[t] /\ (l > 1 => <<a, l - 1>> \in may[t])
      /\ n \in Items \cup {Null}
      /\ n # Null => <<n, l>> \in may[t] /\ <<n, 1>> \in may[t]
  BY <1>0, FindFacts
<1> PICK o : o = NotedIn(loc[t], l, a, n)
  OBVIOUS
<1>a. /\ o \in Locals /\ Noted(t, n) = o
      /\ o.op = loc[t].op /\ o.key = loc[t].key /\ o.x = loc[t].x /\ o.m = loc[t].m
      /\ o.i = loc[t].i /\ o.at = a /\ o.lvl = l
      /\ \A k \in Levels : /\ o.prev[k] = IF k = l THEN a ELSE loc[t].prev[k]
                           /\ o.fwd[k] = IF k = l THEN n ELSE loc[t].fwd[k]
  <2>1. loc[t] \in Locals
    BY <1>0
  <2>2. Noted(t, n) = o
    BY DEF Noted, NotedIn
  <2>3. o.at = loc[t].at /\ o.lvl = loc[t].lvl
    BY <1>1, <2>1, NotedFields
  <2> QED
    BY <1>1, <2>1, <2>2, <2>3, NotedFields
<1>b. /\ \A k \in Levels : o.prev[k] # Null => <<o.prev[k], k>> \in may[t]
      /\ loc[t].op # "delete" => \A k \in Levels : o.fwd[k] # Null => <<o.fwd[k], k>> \in may[t]
  <2>1. Held(may, t, pc[t], loc[t]) /\ loc[t] \in Locals
    BY <1>0 DEF ThreadOK
  <2> QED
    BY <1>1, <2>1, NotedHeld
<1>c. 1 \in Levels
  BY <1>0, <1>1, LevelOne, BoundAssumption, NodeAssumption DEF Levels, Locals
<1> DEFINE r == o
<1>2. r \in Locals
  BY <1>1, <1>a, <1>c DEF Locals
<1>3. Moves(t, "find_start", r)
  BY <1>0, <1>a DEF FindAgain, Moves, Ends, Stops
<1>4. /\ r.op = loc[t].op /\ r.key = loc[t].key /\ r.x = loc[t].x /\ r.m = loc[t].m
      /\ r.i = loc[t].i /\ r.at = a
      /\ r.prev = o.prev /\ r.fwd = o.fwd
  BY <1>1, <1>a, <1>c DEF Locals
<1> HIDE DEF r
<1>5. SameWork(pc[t], loc[t], "find_start", r)
  BY <1>0, <1>1, <1>4 DEF SameWork, Owns, Puts, Takes, Marks, HasMark, TakePCs, PutPCs, SearchPCs
<1>6. ThreadOK(may, t, "find_start", r)
  <2>1. PutOK("find_start", r)
    BY <1>0, <1>1, <1>4, <1>a DEF ThreadOK, PutOK, Puts, PutPCs, SearchPCs, Levels
  <2>2. TakeOK("find_start", r)
    BY <1>0, <1>1, <1>4 DEF ThreadOK, TakeOK, Takes, Marks, TakePCs, SearchPCs
  <2>3. MarkOK("find_start", r)
    BY <1>0, <1>1, <1>4, <1>a DEF ThreadOK, MarkOK, HasMark, Marks, TakePCs, SearchPCs
  <2>4. Local(t, "find_start", r)
    BY <1>0, <1>1, <1>4 DEF ThreadOK, Local, InsertOnly, DeleteOnly
  <2>5. About("find_start", r)
    BY <1>0, <1>1, <1>4 DEF ThreadOK, About, TakePCs, SearchPCs
  <2>6. Held(may, t, "find_start", r)
    BY <1>0, <1>1, <1>4, <1>b DEF ThreadOK, Held, Puts, PutPCs, SearchPCs
  <2> QED
    BY <2>1, <2>2, <2>3, <2>4, <2>5, <2>6 DEF ThreadOK
<1>7. "find_start" \in PCs
  BY DEF PCs
<1> QED
  BY <1>2, <1>3, <1>5, <1>6, <1>7, MovesStep

(* A thread that has only a node in its hands.                             *)
LEMMA BareFields ==
  ASSUME NEW t \in Threads, loc[t] \in Locals
  PROVE  /\ Bare(t) \in Locals
         /\ Bare(t).op = loc[t].op /\ Bare(t).key = loc[t].key /\ Bare(t).incr = loc[t].incr
         /\ Bare(t).x = Null /\ Bare(t).m = Null /\ Bare(t).i = 0 /\ Bare(t).at = Null
         /\ Bare(t).prev = Nowhere /\ Bare(t).fwd = Nowhere
<1>1. /\ Nowhere \in [Levels -> Items \cup {Null}]
      /\ Nowhere \in [Levels -> Items \cup {Null} \cup {head}]
  BY DEF Nowhere
<1>2. 0 \in 0 .. MaxHeight /\ 0 \in 0 .. MaxHeight + 1
  BY BoundAssumption
<1> QED
  BY <1>1, <1>2 DEF Bare, NoLocals, Locals

(* A search that has found nothing ends a delete.                          *)
LEMMA FindNoneInv ==
  ASSUME NEW may, Inv(may), NEW t \in Threads, FindNone(t)
  PROVE  Inv(may)'
<1> PICK a, l : a = loc[t].at /\ l = loc[t].lvl
  OBVIOUS
<1> PICK n \in Items \cup {Null} : Ends(t, n, "leave", Bare(t))
  BY DEF FindNone
<1>0. /\ ThreadOK(may, t, pc[t], loc[t]) /\ pc[t] = "find"
      /\ pc \in [Threads -> PCs] /\ loc \in [Threads -> Locals]
      /\ n = Behind(next, a, l)
      /\ loc[t].op = "delete" /\ loc[t].x = Null
  BY LocalsTyped DEF Inv, ThreadInv, FindNone, Ends, Stops
<1>1. /\ t \in inside /\ l \in Levels /\ n \in Items \cup {Null}
      /\ n # Null => <<n, l>> \in may[t] /\ <<n, 1>> \in may[t]
  BY <1>0, FindFacts
<1>a. /\ Bare(t) \in Locals
      /\ Bare(t).op = loc[t].op /\ Bare(t).key = loc[t].key /\ Bare(t).x = Null
      /\ Bare(t).m = Null /\ Bare(t).i = 0 /\ Bare(t).at = Null
      /\ Bare(t).prev = Nowhere /\ Bare(t).fwd = Nowhere
  BY <1>0, BareFields
<1> PICK b : b = Bare(t)
  OBVIOUS
<1> DEFINE r == b
<1>2. r \in Locals
  BY <1>0, <1>1, <1>a DEF Locals
<1>3. Moves(t, "leave", r)
  BY <1>0 DEF Moves, Ends
<1>4. /\ r.op = loc[t].op /\ r.key = loc[t].key /\ r.x = Null
      /\ r.m = Null /\ r.i = 0 /\ r.at = Null
      /\ r.prev = Nowhere /\ r.fwd = Nowhere
  BY <1>0, <1>a DEF Locals
<1> HIDE DEF r
<1>5. SameWork(pc[t], loc[t], "leave", r)
  BY <1>0, <1>1, <1>4 DEF ThreadOK, About, SameWork, Owns, Puts, Takes, Marks, HasMark, TakePCs,
       PutPCs, SearchPCs
<1>6. ThreadOK(may, t, "leave", r)
  <2>1. PutOK("leave", r)
    BY <1>0, <1>1, <1>4 DEF ThreadOK, PutOK, Puts, PutPCs, SearchPCs, Levels
  <2>2. TakeOK("leave", r)
    BY <1>0, <1>1, <1>4 DEF ThreadOK, TakeOK, Takes, Marks, TakePCs, SearchPCs
  <2>3. MarkOK("leave", r)
    BY <1>0, <1>1, <1>4 DEF ThreadOK, MarkOK, HasMark, Marks, TakePCs, SearchPCs
  <2>4. Local(t, "leave", r)
    BY <1>0, <1>1, <1>4 DEF ThreadOK, Local, InsertOnly, DeleteOnly
  <2>5. About("leave", r)
    BY <1>0, <1>1, <1>4 DEF ThreadOK, About, TakePCs, SearchPCs
  <2>6. Held(may, t, "leave", r)
    BY <1>0, <1>1, <1>4 DEF ThreadOK, Held, Puts, PutPCs, SearchPCs, Nowhere
  <2> QED
    BY <2>1, <2>2, <2>3, <2>4, <2>5, <2>6 DEF ThreadOK
<1>7. "leave" \in PCs
  BY DEF PCs
<1> QED
  BY <1>2, <1>3, <1>5, <1>6, <1>7, MovesStep

(* An insert that has found its key gives up.                              *)
LEMMA InsertDupInv ==
  ASSUME NEW may, Inv(may), NEW t \in Threads, InsertDup(t)
  PROVE  Inv(may)'
<1> PICK a, l : a = loc[t].at /\ l = loc[t].lvl
  OBVIOUS
<1> PICK n \in Items : Ends(t, n, "dup_free", [Bare(t) EXCEPT !.x = loc[t].x])
  BY DEF InsertDup
<1>0. /\ ThreadOK(may, t, pc[t], loc[t]) /\ pc[t] = "find"
      /\ pc \in [Threads -> PCs] /\ loc \in [Threads -> Locals]
      /\ n = Behind(next, a, l)
      /\ loc[t].op = "insert" /\ loc[t].i = 0
  BY LocalsTyped DEF Inv, ThreadInv, InsertDup, Ends, Stops
<1>1. /\ t \in inside /\ l \in Levels /\ n \in Items \cup {Null}
      /\ n # Null => <<n, l>> \in may[t] /\ <<n, 1>> \in may[t]
  BY <1>0, FindFacts
<1>a. /\ Bare(t) \in Locals
      /\ Bare(t).op = loc[t].op /\ Bare(t).key = loc[t].key /\ Bare(t).x = Null
      /\ Bare(t).m = Null /\ Bare(t).i = 0 /\ Bare(t).at = Null
      /\ Bare(t).prev = Nowhere /\ Bare(t).fwd = Nowhere
  BY <1>0, BareFields
<1> PICK b : b = Bare(t)
  OBVIOUS
<1> DEFINE r == [b EXCEPT !.x = loc[t].x]
<1>2. r \in Locals
  BY <1>0, <1>1, <1>a DEF Locals
<1>3. Moves(t, "dup_free", r)
  BY <1>0 DEF Moves, Ends
<1>4. /\ r.op = loc[t].op /\ r.key = loc[t].key /\ r.x = loc[t].x
      /\ r.m = Null /\ r.i = 0 /\ r.at = Null
      /\ r.prev = Nowhere /\ r.fwd = Nowhere
  BY <1>0, <1>a DEF Locals
<1> HIDE DEF r
<1>5. SameWork(pc[t], loc[t], "dup_free", r)
  BY <1>0, <1>1, <1>4 DEF ThreadOK, About, SameWork, Owns, Puts, Takes, Marks, HasMark, TakePCs,
       PutPCs, SearchPCs
<1>6. ThreadOK(may, t, "dup_free", r)
  <2>1. PutOK("dup_free", r)
    BY <1>0, <1>1, <1>4 DEF ThreadOK, PutOK, Puts, PutPCs, SearchPCs, Levels
  <2>2. TakeOK("dup_free", r)
    BY <1>0, <1>1, <1>4 DEF ThreadOK, TakeOK, Takes, Marks, TakePCs, SearchPCs
  <2>3. MarkOK("dup_free", r)
    BY <1>0, <1>1, <1>4 DEF ThreadOK, MarkOK, HasMark, Marks, TakePCs, SearchPCs
  <2>4. Local(t, "dup_free", r)
    BY <1>0, <1>1, <1>4 DEF ThreadOK, Local, InsertOnly, DeleteOnly
  <2>5. About("dup_free", r)
    BY <1>0, <1>1, <1>4 DEF ThreadOK, About, TakePCs, SearchPCs
  <2>6. Held(may, t, "dup_free", r)
    BY <1>0, <1>1, <1>4 DEF ThreadOK, Held, Puts, PutPCs, SearchPCs, Nowhere
  <2> QED
    BY <2>1, <2>2, <2>3, <2>4, <2>5, <2>6 DEF ThreadOK
<1>7. "dup_free" \in PCs
  BY DEF PCs
<1> QED
  BY <1>2, <1>3, <1>5, <1>6, <1>7, MovesStep

(* A get returns the node it has found.                                    *)
LEMMA GetFoundInv ==
  ASSUME NEW may, Inv(may), NEW t \in Threads, GetFound(t)
  PROVE  Inv(may)'
<1> PICK a, l : a = loc[t].at /\ l = loc[t].lvl
  OBVIOUS
<1> PICK n \in Items \cup {Null} :
       Ends(t, n, "leave", [Bare(t) EXCEPT !.x = IF SameKey(t, n) THEN n ELSE Null])
  BY DEF GetFound
<1>0. /\ ThreadOK(may, t, pc[t], loc[t]) /\ pc[t] = "find"
      /\ pc \in [Threads -> PCs] /\ loc \in [Threads -> Locals]
      /\ n = Behind(next, a, l)
      /\ loc[t].op = "get"
  BY LocalsTyped DEF Inv, ThreadInv, GetFound, Ends, Stops
<1>1. /\ t \in inside /\ l \in Levels /\ n \in Items \cup {Null}
      /\ n # Null => <<n, l>> \in may[t] /\ <<n, 1>> \in may[t]
  BY <1>0, FindFacts
<1>a. /\ Bare(t) \in Locals
      /\ Bare(t).op = loc[t].op /\ Bare(t).key = loc[t].key /\ Bare(t).x = Null
      /\ Bare(t).m = Null /\ Bare(t).i = 0 /\ Bare(t).at = Null
      /\ Bare(t).prev = Nowhere /\ Bare(t).fwd = Nowhere
  BY <1>0, BareFields
<1> PICK b : b = Bare(t)
  OBVIOUS
<1> DEFINE r == [b EXCEPT !.x = IF SameKey(t, n) THEN n ELSE Null]
<1>2. r \in Locals
  BY <1>0, <1>1, <1>a DEF Locals
<1>3. Moves(t, "leave", r)
  BY <1>0 DEF Moves, Ends
<1>4. /\ r.op = loc[t].op /\ r.key = loc[t].key /\ r.x \in {n, Null}
      /\ r.m = Null /\ r.i = 0 /\ r.at = Null
      /\ r.prev = Nowhere /\ r.fwd = Nowhere
  BY <1>0, <1>a DEF Locals
<1> HIDE DEF r
<1>5. SameWork(pc[t], loc[t], "leave", r)
  BY <1>0, <1>1, <1>4 DEF ThreadOK, About, SameWork, Owns, Puts, Takes, Marks, HasMark, TakePCs,
       PutPCs, SearchPCs
<1>6. ThreadOK(may, t, "leave", r)
  <2>1. PutOK("leave", r)
    BY <1>0, <1>1, <1>4 DEF ThreadOK, PutOK, Puts, PutPCs, SearchPCs, Levels
  <2>2. TakeOK("leave", r)
    BY <1>0, <1>1, <1>4 DEF ThreadOK, TakeOK, Takes, Marks, TakePCs, SearchPCs
  <2>3. MarkOK("leave", r)
    BY <1>0, <1>1, <1>4 DEF ThreadOK, MarkOK, HasMark, Marks, TakePCs, SearchPCs
  <2>4. Local(t, "leave", r)
    BY <1>0, <1>1, <1>4 DEF ThreadOK, Local, InsertOnly, DeleteOnly
  <2>5. About("leave", r)
    BY <1>0, <1>1, <1>4 DEF ThreadOK, About, TakePCs, SearchPCs
  <2>6. Held(may, t, "leave", r)
    BY <1>0, <1>1, <1>4 DEF ThreadOK, Held, Puts, PutPCs, SearchPCs, Nowhere
  <2> QED
    BY <2>1, <2>2, <2>3, <2>4, <2>5, <2>6 DEF ThreadOK
<1>7. "leave" \in PCs
  BY DEF PCs
<1> QED
  BY <1>2, <1>3, <1>5, <1>6, <1>7, MovesStep

(* A delete that has found its key looks at the node.                      *)
LEMMA FindEqualInv ==
  ASSUME NEW may, Inv(may), NEW t \in Threads, FindEqual(t)
  PROVE  Inv(may)'
<1> PICK a, l : a = loc[t].at /\ l = loc[t].lvl
  OBVIOUS
<1> PICK n \in Items : Ends(t, n, "forward", [Noted(t, n) EXCEPT !.at = n])
                        /\ loc[t].x \in {Null, n}
  BY DEF FindEqual
<1>0. /\ ThreadOK(may, t, pc[t], loc[t]) /\ pc[t] = "find"
      /\ pc \in [Threads -> PCs] /\ loc \in [Threads -> Locals]
      /\ n = Behind(next, a, l) /\ l = 1 /\ loc[t].op = "delete"
  BY LocalsTyped DEF Inv, ThreadInv, FindEqual, Ends, Stops
<1>1. /\ t \in inside /\ l \in Levels /\ a \in Nodes /\ a # Null
      /\ <<a, l>> \in may[t] /\ <<a, 1>> \in may[t] /\ (l > 1 => <<a, l - 1>> \in may[t])
      /\ n \in Items \cup {Null}
      /\ n # Null => <<n, l>> \in may[t] /\ <<n, 1>> \in may[t]
  BY <1>0, FindFacts
<1> PICK o : o = NotedIn(loc[t], l, a, n)
  OBVIOUS
<1>a. /\ o \in Locals /\ Noted(t, n) = o
      /\ o.op = loc[t].op /\ o.key = loc[t].key /\ o.x = loc[t].x /\ o.m = loc[t].m
      /\ o.i = loc[t].i /\ o.at = a /\ o.lvl = l
      /\ \A k \in Levels : /\ o.prev[k] = IF k = l THEN a ELSE loc[t].prev[k]
                           /\ o.fwd[k] = IF k = l THEN n ELSE loc[t].fwd[k]
  <2>1. loc[t] \in Locals
    BY <1>0
  <2>2. Noted(t, n) = o
    BY DEF Noted, NotedIn
  <2>3. o.at = loc[t].at /\ o.lvl = loc[t].lvl
    BY <1>1, <2>1, NotedFields
  <2> QED
    BY <1>1, <2>1, <2>2, <2>3, NotedFields
<1>b. /\ \A k \in Levels : o.prev[k] # Null => <<o.prev[k], k>> \in may[t]
      /\ loc[t].op # "delete" => \A k \in Levels : o.fwd[k] # Null => <<o.fwd[k], k>> \in may[t]
  <2>1. Held(may, t, pc[t], loc[t]) /\ loc[t] \in Locals
    BY <1>0 DEF ThreadOK
  <2> QED
    BY <1>1, <2>1, NotedHeld
<1>c. 1 \in Levels /\ loc[t].i \in Nat /\ n # Null /\ l = 1
  BY <1>0, <1>1, LevelOne, BoundAssumption, NodeAssumption DEF Levels, Locals
<1> DEFINE r == [o EXCEPT !.at = n]
<1>2. r \in Locals
  BY <1>1, <1>a, <1>c DEF Locals
<1>3. Moves(t, "forward", r)
  BY <1>0, <1>a DEF FindEqual, Moves, Ends, Stops
<1>4. /\ r.op = loc[t].op /\ r.key = loc[t].key /\ r.x = loc[t].x /\ r.m = loc[t].m
      /\ r.i = loc[t].i /\ r.at = n /\ r.lvl = 1
      /\ r.prev = o.prev /\ r.fwd = o.fwd
  BY <1>1, <1>a, <1>c DEF Locals
<1> HIDE DEF r
<1>d. 1 <= info[n].lvl
  BY <1>0, <1>1, <1>c, MayFacts DEF Nodes
<1>5. SameWork(pc[t], loc[t], "forward", r)
  BY <1>0, <1>1, <1>4 DEF SameWork, Owns, Puts, Takes, Marks, HasMark, TakePCs, PutPCs, SearchPCs
<1>6. ThreadOK(may, t, "forward", r)
  <2>1. PutOK("forward", r)
    BY <1>0, <1>1, <1>4, <1>a DEF ThreadOK, PutOK, Puts, PutPCs, SearchPCs, Levels
  <2>2. TakeOK("forward", r)
    BY <1>0, <1>1, <1>4 DEF ThreadOK, TakeOK, Takes, Marks, TakePCs, SearchPCs
  <2>3. MarkOK("forward", r)
    BY <1>0, <1>1, <1>4, <1>a, <1>c DEF ThreadOK, MarkOK, HasMark, Marks, TakePCs, SearchPCs
  <2>4. Local(t, "forward", r)
    BY <1>0, <1>1, <1>4, <1>c, <1>d DEF ThreadOK, Local, InsertOnly, DeleteOnly
  <2>5. About("forward", r)
    BY <1>0, <1>1, <1>4 DEF ThreadOK, About, TakePCs, SearchPCs
  <2>6. Held(may, t, "forward", r)
    BY <1>0, <1>1, <1>4, <1>b DEF ThreadOK, Held, Puts, PutPCs, SearchPCs
  <2> QED
    BY <2>1, <2>2, <2>3, <2>4, <2>5, <2>6 DEF ThreadOK
<1>7. "forward" \in PCs
  BY DEF PCs
<1> QED
  BY <1>2, <1>3, <1>5, <1>6, <1>7, MovesStep

(* An insert has its predecessors and goes on to link.                     *)
LEMMA InsertFoundInv ==
  ASSUME NEW may, Inv(may), NEW t \in Threads, InsertFound(t)
  PROVE  Inv(may)'
<1> PICK a, l : a = loc[t].at /\ l = loc[t].lvl
  OBVIOUS
<1> PICK n \in Items \cup {Null} :
       Ends(t, n, "check", [Noted(t, n) EXCEPT !.at = Null, !.lvl = 0,
                                               !.i = IF @ = 0 THEN 1 ELSE @])
  BY DEF InsertFound
<1>0. /\ ThreadOK(may, t, pc[t], loc[t]) /\ pc[t] = "find"
      /\ pc \in [Threads -> PCs] /\ loc \in [Threads -> Locals]
      /\ n = Behind(next, a, l) /\ l = 1 /\ loc[t].op = "insert"
  BY LocalsTyped DEF Inv, ThreadInv, InsertFound, Ends, Stops
<1>1. /\ t \in inside /\ l \in Levels /\ a \in Nodes /\ a # Null
      /\ <<a, l>> \in may[t] /\ <<a, 1>> \in may[t] /\ (l > 1 => <<a, l - 1>> \in may[t])
      /\ n \in Items \cup {Null}
      /\ n # Null => <<n, l>> \in may[t] /\ <<n, 1>> \in may[t]
  BY <1>0, FindFacts
<1> PICK o : o = NotedIn(loc[t], l, a, n)
  OBVIOUS
<1>a. /\ o \in Locals /\ Noted(t, n) = o
      /\ o.op = loc[t].op /\ o.key = loc[t].key /\ o.x = loc[t].x /\ o.m = loc[t].m
      /\ o.i = loc[t].i /\ o.at = a /\ o.lvl = l
      /\ \A k \in Levels : /\ o.prev[k] = IF k = l THEN a ELSE loc[t].prev[k]
                           /\ o.fwd[k] = IF k = l THEN n ELSE loc[t].fwd[k]
  <2>1. loc[t] \in Locals
    BY <1>0
  <2>2. Noted(t, n) = o
    BY DEF Noted, NotedIn
  <2>3. o.at = loc[t].at /\ o.lvl = loc[t].lvl
    BY <1>1, <2>1, NotedFields
  <2> QED
    BY <1>1, <2>1, <2>2, <2>3, NotedFields
<1>b. /\ \A k \in Levels : o.prev[k] # Null => <<o.prev[k], k>> \in may[t]
      /\ loc[t].op # "delete" => \A k \in Levels : o.fwd[k] # Null => <<o.fwd[k], k>> \in may[t]
  <2>1. Held(may, t, pc[t], loc[t]) /\ loc[t] \in Locals
    BY <1>0 DEF ThreadOK
  <2> QED
    BY <1>1, <2>1, NotedHeld
<1>c. 1 \in 0 .. MaxHeight + 1 /\ 0 \in 0 .. MaxHeight /\ loc[t].i \in Nat
  BY <1>0, <1>1, LevelOne, BoundAssumption, NodeAssumption DEF Levels, Locals
<1> DEFINE r == [o EXCEPT !.at = Null, !.lvl = 0, !.i = IF @ = 0 THEN 1 ELSE @]
<1>2. r \in Locals
  BY <1>1, <1>a, <1>c DEF Locals
<1>3. Moves(t, "check", r)
  BY <1>0, <1>a DEF InsertFound, Moves, Ends, Stops
<1>4. /\ r.op = loc[t].op /\ r.key = loc[t].key /\ r.x = loc[t].x /\ r.m = loc[t].m
      /\ r.i = (IF loc[t].i = 0 THEN 1 ELSE loc[t].i) /\ r.at = Null /\ r.lvl = 0
      /\ r.prev = o.prev /\ r.fwd = o.fwd
  BY <1>1, <1>a, <1>c DEF Locals
<1> HIDE DEF r
<1>5. SameWork(pc[t], loc[t], "check", r)
  BY <1>0, <1>1, <1>4 DEF SameWork, Owns, Puts, Takes, Marks, HasMark, TakePCs, PutPCs, SearchPCs
<1>6. ThreadOK(may, t, "check", r)
  <2>1. PutOK("check", r)
    <3> SUFFICES ASSUME Puts("check", r) PROVE PutOK("check", r)
      BY DEF PutOK
    <3>1. /\ Puts(pc[t], loc[t]) /\ PutOK(pc[t], loc[t]) /\ loc[t].lvl = 1
          /\ pc[t] \in SearchPCs
      BY <1>0, <1>1, <1>4 DEF Puts, PutPCs, SearchPCs, ThreadOK
    <3>2. info[r.x].lvl \in Levels /\ loc[t].i <= info[r.x].lvl
      BY <1>4, <3>1 DEF PutOK
    <3>3. ASSUME NEW k \in 1 .. info[r.x].lvl PROVE o.prev[k] # Null
      <4>1. k \in Levels
        BY <3>2, BoundAssumption DEF Levels
      <4>2. CASE k = 1
        BY <1>0, <1>1, <1>a, <4>1, <4>2
      <4>3. CASE k # 1
        <5>1. k > 1
          BY <4>3
        <5>2. loc[t].prev[k] # Null
          BY <1>0, <1>4, <3>1, <5>1 DEF PutOK
        <5> QED
          BY <1>0, <1>a, <4>1, <4>3, <5>2
      <4> QED
        BY <4>2, <4>3
    <3>4. r.i \in 1 .. info[r.x].lvl
      BY <1>4, <1>c, <3>2 DEF Levels
    <3>5. \A k \in Levels : r.x \in On(next, k) <=> k < r.i
      <4>1. \A k \in Levels : r.x \in On(next, k) <=> k < loc[t].i
        BY <1>4, <3>1 DEF PutOK
      <4> QED
        BY <1>4, <1>c, <4>1 DEF Levels
    <3> QED
      BY <1>4, <3>1, <3>3, <3>4, <3>5 DEF PutOK, SearchPCs
  <2>2. TakeOK("check", r)
    BY <1>0, <1>1, <1>4 DEF ThreadOK, TakeOK, Takes, Marks, TakePCs, SearchPCs
  <2>3. MarkOK("check", r)
    BY <1>0, <1>1, <1>4 DEF ThreadOK, MarkOK, HasMark, Marks, TakePCs, SearchPCs
  <2>4. Local(t, "check", r)
    BY <1>0, <1>1, <1>4 DEF ThreadOK, Local, InsertOnly, DeleteOnly
  <2>5. About("check", r)
    BY <1>0, <1>1, <1>4 DEF ThreadOK, About, TakePCs, SearchPCs
  <2>6. Held(may, t, "check", r)
    <3>1. /\ Puts(pc[t], loc[t]) /\ Held(may, t, pc[t], loc[t]) /\ About(pc[t], loc[t])
          /\ Puts("check", r) /\ r.m = Null /\ loc[t].x # Null
      BY <1>0, <1>4 DEF Puts, PutPCs, SearchPCs, ThreadOK, About
    <3>2. r.i <= 1 \/ <<r.x, 1>> \in may[t]
      BY <1>1, <1>4, <1>c, <3>1 DEF Held
    <3> QED
      BY <1>1, <1>4, <1>b, <3>1, <3>2 DEF Held
  <2> QED
    BY <2>1, <2>2, <2>3, <2>4, <2>5, <2>6 DEF ThreadOK
<1>7. "check" \in PCs
  BY DEF PCs
<1> QED
  BY <1>2, <1>3, <1>5, <1>6, <1>7, MovesStep
-----------------------------------------------------------------------------
(* The other steps that change no node. *)

(* An insert checks the predecessor of its level and searches again if it  *)
(* is going.                                                               *)
LEMMA InsertCheckInv ==
  ASSUME NEW may, Inv(may), NEW t \in Threads, InsertCheck(t)
  PROVE  Inv(may)'
<1>1. /\ TypeOK /\ ThreadOK(may, t, pc[t], loc[t]) /\ pc[t] = "check"
      /\ pc \in [Threads -> PCs] /\ loc \in [Threads -> Locals]
  BY LocalsTyped DEF Inv, ThreadInv, InsertCheck, Goto
<1>o. loc[t].op = "insert"
  BY <1>1 DEF ThreadOK, Local, InsertOnly, DeleteOnly
<1> DEFINE r == loc[t]
<1>2. r \in Locals
  BY <1>1 DEF Locals
<1> PICK q : q = IF info[Prev(t)].deleting THEN "find_start" ELSE "set"
  OBVIOUS
<1>3. Moves(t, q, r)
  BY <1>1 DEF InsertCheck, Goto, Moves
<1>4. /\ r.op = loc[t].op /\ r.key = loc[t].key /\ r.x = loc[t].x /\ r.m = loc[t].m
      /\ r.i = loc[t].i /\ r.at = loc[t].at /\ r.lvl = loc[t].lvl
      /\ r.prev = loc[t].prev /\ r.fwd = loc[t].fwd
      /\ q \in {"find_start", "set"}
  BY <1>1 DEF Locals
<1> HIDE DEF r
<1>5. SameWork(pc[t], loc[t], q, r)
  BY <1>1, <1>o, <1>4 DEF ThreadOK, About, SameWork, Owns, Puts, Takes, Marks, HasMark, TakePCs,
       PutPCs, SearchPCs
<1>6. ThreadOK(may, t, q, r)
  <2>1. PutOK(q, r)
    BY <1>1, <1>o, <1>4 DEF ThreadOK, PutOK, Puts, PutPCs, SearchPCs, Levels
  <2>2. TakeOK(q, r)
    BY <1>1, <1>o, <1>4 DEF ThreadOK, TakeOK, Takes, Marks, TakePCs, SearchPCs
  <2>3. MarkOK(q, r)
    BY <1>1, <1>o, <1>4 DEF ThreadOK, MarkOK, HasMark, Marks, TakePCs, SearchPCs
  <2>4. Local(t, q, r)
    BY <1>1, <1>o, <1>4 DEF ThreadOK, Local, InsertOnly, DeleteOnly
  <2>5. About(q, r)
    BY <1>1, <1>o, <1>4 DEF ThreadOK, About, TakePCs, SearchPCs
  <2>6. Held(may, t, q, r)
    BY <1>1, <1>o, <1>4 DEF ThreadOK, Held, Puts, PutPCs, SearchPCs
  <2> QED
    BY <2>1, <2>2, <2>3, <2>4, <2>5, <2>6 DEF ThreadOK
<1>7. q \in PCs
  BY <1>4 DEF PCs
<1> QED
  BY <1>2, <1>3, <1>5, <1>6, <1>7, MovesStep

(* An insert whose CAS has failed searches again.                          *)
LEMMA InsertRetryInv ==
  ASSUME NEW may, Inv(may), NEW t \in Threads, InsertRetry(t)
  PROVE  Inv(may)'
<1>1. /\ TypeOK /\ ThreadOK(may, t, pc[t], loc[t]) /\ pc[t] = "link"
      /\ pc \in [Threads -> PCs] /\ loc \in [Threads -> Locals]
  BY LocalsTyped DEF Inv, ThreadInv, InsertRetry, Goto
<1>o. loc[t].op = "insert"
  BY <1>1 DEF ThreadOK, Local, InsertOnly, DeleteOnly
<1> DEFINE r == loc[t]
<1>2. r \in Locals
  BY <1>1 DEF Locals
<1> PICK q : q = "find_start"
  OBVIOUS
<1>3. Moves(t, q, r)
  BY <1>1 DEF InsertRetry, Goto, Moves
<1>4. /\ r.op = loc[t].op /\ r.key = loc[t].key /\ r.x = loc[t].x /\ r.m = loc[t].m
      /\ r.i = loc[t].i /\ r.at = loc[t].at /\ r.lvl = loc[t].lvl
      /\ r.prev = loc[t].prev /\ r.fwd = loc[t].fwd
      /\ q = "find_start"
  BY <1>1 DEF Locals
<1> HIDE DEF r
<1>5. SameWork(pc[t], loc[t], q, r)
  BY <1>1, <1>o, <1>4 DEF ThreadOK, About, SameWork, Owns, Puts, Takes, Marks, HasMark, TakePCs,
       PutPCs, SearchPCs
<1>6. ThreadOK(may, t, q, r)
  <2>1. PutOK(q, r)
    BY <1>1, <1>o, <1>4 DEF ThreadOK, PutOK, Puts, PutPCs, SearchPCs, Levels
  <2>2. TakeOK(q, r)
    BY <1>1, <1>o, <1>4 DEF ThreadOK, TakeOK, Takes, Marks, TakePCs, SearchPCs
  <2>3. MarkOK(q, r)
    BY <1>1, <1>o, <1>4 DEF ThreadOK, MarkOK, HasMark, Marks, TakePCs, SearchPCs
  <2>4. Local(t, q, r)
    BY <1>1, <1>o, <1>4 DEF ThreadOK, Local, InsertOnly, DeleteOnly
  <2>5. About(q, r)
    BY <1>1, <1>o, <1>4 DEF ThreadOK, About, TakePCs, SearchPCs
  <2>6. Held(may, t, q, r)
    BY <1>1, <1>o, <1>4 DEF ThreadOK, Held, Puts, PutPCs, SearchPCs
  <2> QED
    BY <2>1, <2>2, <2>3, <2>4, <2>5, <2>6 DEF ThreadOK
<1>7. q \in PCs
  BY <1>4 DEF PCs
<1> QED
  BY <1>2, <1>3, <1>5, <1>6, <1>7, MovesStep

(* A delete looks whether its predecessor is still the one before its      *)
(* node.                                                                   *)
LEMMA DeletePrevInv ==
  ASSUME NEW may, Inv(may), NEW t \in Threads, DeletePrev(t)
  PROVE  Inv(may)'
<1>1. /\ TypeOK /\ ThreadOK(may, t, pc[t], loc[t]) /\ pc[t] = "prev"
      /\ pc \in [Threads -> PCs] /\ loc \in [Threads -> Locals]
  BY LocalsTyped DEF Inv, ThreadInv, DeletePrev, Goto
<1>o. loc[t].op = "delete"
  BY <1>1 DEF ThreadOK, Local, InsertOnly, DeleteOnly
<1> DEFINE r == loc[t]
<1>2. r \in Locals
  BY <1>1 DEF Locals
<1> PICK q : q = IF Prev(t) = Null \/ info[Prev(t)].deleting THEN "find_start" ELSE "mark"
  OBVIOUS
<1>3. Moves(t, q, r)
  BY <1>1 DEF DeletePrev, Goto, Moves
<1>4. /\ r.op = loc[t].op /\ r.key = loc[t].key /\ r.x = loc[t].x /\ r.m = loc[t].m
      /\ r.i = loc[t].i /\ r.at = loc[t].at /\ r.lvl = loc[t].lvl
      /\ r.prev = loc[t].prev /\ r.fwd = loc[t].fwd
      /\ q \in {"find_start", "mark"} /\ (q = "mark" => loc[t].prev[loc[t].i] # Null)
  BY <1>1 DEF Locals, Prev
<1> HIDE DEF r
<1>5. SameWork(pc[t], loc[t], q, r)
  BY <1>1, <1>o, <1>4 DEF ThreadOK, About, SameWork, Owns, Puts, Takes, Marks, HasMark, TakePCs,
       PutPCs, SearchPCs
<1>6. ThreadOK(may, t, q, r)
  <2>1. PutOK(q, r)
    BY <1>1, <1>o, <1>4 DEF ThreadOK, PutOK, Puts, PutPCs, SearchPCs, Levels
  <2>2. TakeOK(q, r)
    BY <1>1, <1>o, <1>4 DEF ThreadOK, TakeOK, Takes, Marks, TakePCs, SearchPCs
  <2>3. MarkOK(q, r)
    BY <1>1, <1>o, <1>4 DEF ThreadOK, MarkOK, HasMark, Marks, TakePCs, SearchPCs
  <2>4. Local(t, q, r)
    BY <1>1, <1>o, <1>4 DEF ThreadOK, Local, InsertOnly, DeleteOnly
  <2>5. About(q, r)
    BY <1>1, <1>o, <1>4 DEF ThreadOK, About, TakePCs, SearchPCs
  <2>6. Held(may, t, q, r)
    BY <1>1, <1>o, <1>4 DEF ThreadOK, Held, Puts, PutPCs, SearchPCs
  <2> QED
    BY <2>1, <2>2, <2>3, <2>4, <2>5, <2>6 DEF ThreadOK
<1>7. q \in PCs
  BY <1>4 DEF PCs
<1> QED
  BY <1>2, <1>3, <1>5, <1>6, <1>7, MovesStep

(* A delete whose CAS has failed searches again.                           *)
LEMMA DeleteRetryInv ==
  ASSUME NEW may, Inv(may), NEW t \in Threads, DeleteRetry(t)
  PROVE  Inv(may)'
<1>1. /\ TypeOK /\ ThreadOK(may, t, pc[t], loc[t]) /\ pc[t] = "unlink"
      /\ pc \in [Threads -> PCs] /\ loc \in [Threads -> Locals]
  BY LocalsTyped DEF Inv, ThreadInv, DeleteRetry, Goto
<1>o. loc[t].op = "delete"
  BY <1>1 DEF ThreadOK, Local, InsertOnly, DeleteOnly
<1> DEFINE r == loc[t]
<1>2. r \in Locals
  BY <1>1 DEF Locals
<1> PICK q : q = "find_start"
  OBVIOUS
<1>3. Moves(t, q, r)
  BY <1>1 DEF DeleteRetry, Goto, Moves
<1>4. /\ r.op = loc[t].op /\ r.key = loc[t].key /\ r.x = loc[t].x /\ r.m = loc[t].m
      /\ r.i = loc[t].i /\ r.at = loc[t].at /\ r.lvl = loc[t].lvl
      /\ r.prev = loc[t].prev /\ r.fwd = loc[t].fwd
      /\ q = "find_start"
  BY <1>1 DEF Locals
<1> HIDE DEF r
<1>5. SameWork(pc[t], loc[t], q, r)
  BY <1>1, <1>o, <1>4 DEF ThreadOK, About, SameWork, Owns, Puts, Takes, Marks, HasMark, TakePCs,
       PutPCs, SearchPCs
<1>6. ThreadOK(may, t, q, r)
  <2>1. PutOK(q, r)
    BY <1>1, <1>o, <1>4 DEF ThreadOK, PutOK, Puts, PutPCs, SearchPCs, Levels
  <2>2. TakeOK(q, r)
    BY <1>1, <1>o, <1>4 DEF ThreadOK, TakeOK, Takes, Marks, TakePCs, SearchPCs
  <2>3. MarkOK(q, r)
    BY <1>1, <1>o, <1>4 DEF ThreadOK, MarkOK, HasMark, Marks, TakePCs, SearchPCs
  <2>4. Local(t, q, r)
    BY <1>1, <1>o, <1>4 DEF ThreadOK, Local, InsertOnly, DeleteOnly
  <2>5. About(q, r)
    BY <1>1, <1>o, <1>4 DEF ThreadOK, About, TakePCs, SearchPCs
  <2>6. Held(may, t, q, r)
    BY <1>1, <1>o, <1>4 DEF ThreadOK, Held, Puts, PutPCs, SearchPCs
  <2> QED
    BY <2>1, <2>2, <2>3, <2>4, <2>5, <2>6 DEF ThreadOK
<1>7. q \in PCs
  BY <1>4 DEF PCs
<1> QED
  BY <1>2, <1>3, <1>5, <1>6, <1>7, MovesStep

(* A delete whose node another one has taken tries again or gives up.      *)
LEMMA DeleteBusyInv ==
  ASSUME NEW may, Inv(may), NEW t \in Threads, DeleteBusy(t)
  PROVE  Inv(may)'
<1>1. /\ TypeOK /\ ThreadOK(may, t, pc[t], loc[t]) /\ pc[t] = "flag"
      /\ pc \in [Threads -> PCs] /\ loc \in [Threads -> Locals]
  BY LocalsTyped DEF Inv, ThreadInv, DeleteBusy, Goto
<1>o. loc[t].op = "delete"
  BY <1>1 DEF ThreadOK, Local, InsertOnly, DeleteOnly
<1> DEFINE r == Bare(t)
<1>2. r \in Locals
  BY <1>1, BareFields DEF Locals
<1> PICK q : q = IF dupl /\ loc[t].incr = 0 THEN "again" ELSE "leave"
  OBVIOUS
<1>3. Moves(t, q, r)
  BY <1>1 DEF DeleteBusy, Goto, Moves
<1>4. /\ r.op = loc[t].op /\ r.key = loc[t].key /\ r.x = Null /\ r.m = Null
      /\ r.i = 0 /\ r.at = Null /\ r.prev = Nowhere /\ r.fwd = Nowhere
      /\ q \in {"again", "leave"}
  BY <1>1, BareFields DEF Locals
<1> HIDE DEF r
<1>5. SameWork(pc[t], loc[t], q, r)
  BY <1>1, <1>o, <1>4 DEF ThreadOK, About, SameWork, Owns, Puts, Takes, Marks, HasMark, TakePCs,
       PutPCs, SearchPCs
<1>6. ThreadOK(may, t, q, r)
  <2>1. PutOK(q, r)
    BY <1>1, <1>o, <1>4 DEF ThreadOK, PutOK, Puts, PutPCs, SearchPCs, Levels
  <2>2. TakeOK(q, r)
    BY <1>1, <1>o, <1>4 DEF ThreadOK, TakeOK, Takes, Marks, TakePCs, SearchPCs
  <2>3. MarkOK(q, r)
    BY <1>1, <1>o, <1>4 DEF ThreadOK, MarkOK, HasMark, Marks, TakePCs, SearchPCs
  <2>4. Local(t, q, r)
    BY <1>1, <1>o, <1>4 DEF ThreadOK, Local, InsertOnly, DeleteOnly
  <2>5. About(q, r)
    BY <1>1, <1>o, <1>4 DEF ThreadOK, About, TakePCs, SearchPCs
  <2>6. Held(may, t, q, r)
    BY <1>1, <1>o, <1>4 DEF ThreadOK, Held, Puts, PutPCs, SearchPCs, Nowhere
  <2> QED
    BY <2>1, <2>2, <2>3, <2>4, <2>5, <2>6 DEF ThreadOK
<1>7. q \in PCs
  BY <1>4 DEF PCs
<1> QED
  BY <1>2, <1>3, <1>5, <1>6, <1>7, MovesStep

(* A delete reads a level of its node; after the last one it goes on.      *)
LEMMA ForwardInv ==
  ASSUME NEW may, Inv(may), NEW t \in Threads, Forward(t)
  PROVE  Inv(may)'
<1> PICK s, a, l : s = loc[t] /\ a = s.at /\ l = s.lvl
  OBVIOUS
<1> PICK y : y = Behind(next, a, l)
  OBVIOUS
<1> PICK last : last = (l = info[a].lvl)
  OBVIOUS
<1> PICK q : q = IF ~last THEN "forward" ELSE IF s.x = Null THEN "flag" ELSE "prev"
  OBVIOUS
<1>1. /\ TypeOK /\ ThreadOK(may, t, pc[t], s) /\ pc[t] = "forward"
      /\ pc \in [Threads -> PCs] /\ loc \in [Threads -> Locals] /\ s \in Locals
  BY LocalsTyped DEF Inv, ThreadInv, Forward, Goto
<1>2. /\ s.op = "delete" /\ l \in Levels /\ a \in Items /\ l <= info[a].lvl
      /\ s.x \in {Null, a} /\ t \in inside /\ a # Null
  BY <1>1, NodeAssumption DEF ThreadOK, Local, InsertOnly, DeleteOnly
<1>3. y \in Items \cup {Null} /\ info[a].lvl \in 0 .. MaxHeight
  BY <1>1, <1>2, NodeAssumption DEF Behind, TypeOK, Nodes
<1>l. (last => l = info[a].lvl) /\ (~last => l # info[a].lvl)
  OBVIOUS
<1> PICK top : top = info[a].lvl
  OBVIOUS
<1> DEFINE f == [s.fwd EXCEPT ![l] = y]
           r == [s EXCEPT !.fwd = f, !.lvl = IF last THEN 0 ELSE l + 1,
                          !.at = IF last THEN Null ELSE a, !.x = IF last THEN a ELSE s.x]
<1>4. /\ f \in [Levels -> Items \cup {Null}]
      /\ \A k \in Levels : f[k] = IF k = l THEN y ELSE s.fwd[k]
  BY <1>1, <1>2, <1>3 DEF Locals
<1>5. /\ 0 \in 0 .. MaxHeight
      /\ ~last => l + 1 \in 0 .. MaxHeight /\ l + 1 \in Levels /\ l + 1 <= info[a].lvl
  <2>1. l # top => l + 1 \in 0 .. MaxHeight /\ l + 1 \in Levels /\ l + 1 <= top
    BY <1>2, <1>3, BoundAssumption DEF Levels
  <2> QED
    BY <1>l, <2>1, BoundAssumption
<1>6. Moves(t, q, r)
  BY <1>1 DEF Forward, Goto, Moves, Locals
<1> HIDE DEF f
<1>7. r \in Locals
  BY <1>1, <1>2, <1>4, <1>5 DEF Locals
<1>8. /\ r.op = "delete" /\ r.key = s.key /\ r.m = s.m /\ r.i = s.i /\ r.prev = s.prev
      /\ r.fwd = f /\ r.lvl = (IF last THEN 0 ELSE l + 1) /\ r.at = (IF last THEN Null ELSE a)
      /\ r.x = (IF last THEN a ELSE s.x)
  BY <1>1, <1>2 DEF Locals
<1> HIDE DEF r
<1>9. /\ About("forward", s) /\ (s.x = Null => s.m = Null)
      /\ s.x # Null => s.m # Null /\ q \in {"forward", "prev"} /\ r.x = s.x
      /\ q \in {"forward", "flag", "prev"} /\ (q = "forward" <=> ~last)
      /\ (q = "prev" => s.x # Null) /\ (q = "flag" => s.x = Null)
  BY <1>1, <1>2, <1>8 DEF ThreadOK, About
<1>10. /\ Marks(q, r) <=> Marks("forward", s)
       /\ Marks(q, r) <=> s.x # Null
  BY <1>2, <1>8, <1>9 DEF Marks, TakePCs
<1>11. SameWork(pc[t], loc[t], q, r)
  BY <1>1, <1>2, <1>8, <1>9, <1>10 DEF SameWork, Owns, Puts, Takes, HasMark
<1>12. ThreadOK(may, t, q, r)
  <2>1. PutOK(q, r)
    BY <1>8 DEF PutOK, Puts
  <2>2. TakeOK(q, r)
    <3> SUFFICES ASSUME Marks(q, r) PROVE TakeOK(q, r)
      BY <1>9 DEF TakeOK, Takes
    <3> QED
      BY <1>1, <1>9, <1>10 DEF ThreadOK, TakeOK, Takes
  <2>3. MarkOK(q, r)
    <3>1. HasMark(q, r) => Marks(q, r)
      BY <1>9 DEF HasMark
    <3> SUFFICES ASSUME Marks(q, r) PROVE MarkOK(q, r)
      BY <3>1 DEF MarkOK
    <3>2. /\ s.x = a /\ s.x # Null /\ MarkOK("forward", s)
          /\ Marks("forward", s) /\ HasMark("forward", s)
      BY <1>1, <1>2, <1>10 DEF ThreadOK, HasMark
    <3>3. /\ s.i <= info[a].lvl /\ s.i # 0 /\ s.i \in Nat
          /\ s.m # Null /\ info[s.m].marker /\ state[s.m] = "linked"
          /\ \A k \in Levels : a \in On(next, k) <=> k <= s.i
      BY <1>1, <3>2 DEF MarkOK, Locals
    <3>4. s.i \in Levels
      BY <1>3, <3>3, BoundAssumption DEF Levels
    <3>5. q = "prev" \/ (q = "forward" /\ r.lvl > s.i) =>
            (next[a][s.i] = s.m => next[s.m][s.i] = r.fwd[s.i])
      <4>1. CASE s.i = l
        <5>1. next[a][l] = s.m => y = next[s.m][l]
          BY <3>3 DEF Behind
        <5> QED
          BY <1>2, <1>4, <1>8, <4>1, <5>1
      <4>2. CASE s.i # l
        <5>1. q = "prev" \/ (q = "forward" /\ r.lvl > s.i) => l > s.i
          <6>1. CASE last
            BY <1>2, <1>9, <1>l, <3>3, <4>2, <6>1 DEF Levels
          <6>2. CASE ~last
            <7>1. r.lvl = l + 1
              BY <1>8, <6>2
            <7> QED
              BY <1>2, <1>9, <3>3, <4>2, <6>2, <7>1 DEF Levels
          <6> QED
            BY <6>1, <6>2
        <5>2. r.fwd[s.i] = s.fwd[s.i]
          BY <1>4, <1>8, <3>4, <4>2
        <5>3. l > s.i => (next[a][s.i] = s.m => next[s.m][s.i] = s.fwd[s.i])
          BY <3>2 DEF MarkOK
        <5> QED
          BY <5>1, <5>2, <5>3
      <4> QED
        BY <4>1, <4>2
    <3> QED
      BY <1>8, <1>9, <3>2, <3>3, <3>5 DEF MarkOK
  <2>4. Local(t, q, r)
    BY <1>1, <1>2, <1>5, <1>8, <1>9 DEF ThreadOK, Local, InsertOnly, DeleteOnly
  <2>5. About(q, r)
    BY <1>2, <1>8, <1>9 DEF About, TakePCs
  <2>6. Held(may, t, q, r)
    <3>1. Held(may, t, "forward", s)
      BY <1>1 DEF ThreadOK
    <3> QED
      BY <1>2, <1>8, <1>9, <3>1 DEF Held
  <2> QED
    BY <2>1, <2>2, <2>3, <2>4, <2>5, <2>6 DEF ThreadOK
<1>13. q \in PCs
  BY <1>9 DEF PCs
<1> QED
  BY <1>6, <1>7, <1>11, <1>12, <1>13, MovesStep

(* Steps that change the height, the number of nodes or the history too.   *)
LEMMA FreeStep ==
  ASSUME NEW may, Inv(may), NEW t \in Threads, NEW p \in PCs, NEW r \in Locals,
         pc' = [pc EXCEPT ![t] = p], loc' = [loc EXCEPT ![t] = r],
         UNCHANGED <<inside, state, guards, next, info, dupl, incr_key>>,
         height' \in Levels, height' >= height, num' \in 0 .. NumMod - 1,
         todo' \in [calls : Nat, keys : SUBSET Keys], recs' \subseteq Recs,
         seen' \in [Threads -> SUBSET SUBSET Recs],
         SameWork(pc[t], loc[t], p, r), ThreadOK(may, t, p, r)'
  PROVE  Inv(may)'
<1>1. pc \in [Threads -> PCs] /\ loc \in [Threads -> Locals]
  BY LocalsTyped DEF Inv
<1>2. pc' \in [Threads -> PCs] /\ loc' \in [Threads -> Locals]
  BY <1>1
<1>3. TypeOK'
  BY <1>2 DEF Inv, TypeOK, Locals
<1>4. Quiet(t)
  BY <1>1 DEF Quiet
<1>5. pc'[t] = p /\ loc'[t] = r
  BY <1>1
<1> QED
  BY <1>3, <1>4, <1>5, QuietStep

(* Adding to num and leaving are such steps.                               *)
LEMMA NumStep ==
  ASSUME NEW may, Inv(may), NEW t \in Threads, NEW p \in PCs,
         pc' = [pc EXCEPT ![t] = p],
         UNCHANGED <<inside, state, guards, next, info, dupl, incr_key, height, loc, todo,
                     recs, seen>>,
         num' \in 0 .. NumMod - 1,
         SameWork(pc[t], loc[t], p, loc[t]), ThreadOK(may, t, p, loc[t])
  PROVE  Inv(may)'
<1> PICK r : r = loc[t]
  OBVIOUS
<1>1. pc \in [Threads -> PCs] /\ loc \in [Threads -> Locals] /\ height \in Levels
  BY LocalsTyped DEF Inv, TypeOK
<1>2. pc' \in [Threads -> PCs] /\ loc' = [loc EXCEPT ![t] = r] /\ r \in Locals
  BY <1>1
<1>3. TypeOK'
  BY <1>2 DEF Inv, TypeOK, Locals
<1>4. Quiet(t)
  BY <1>1 DEF Quiet, Levels
<1>5. ThreadOK(may, t, p, r)'
  BY <1>3, <1>4, QuietThread DEF Inv
<1>6. pc'[t] = p /\ loc'[t] = r
  BY <1>1, <1>2
<1> QED
  BY <1>3, <1>4, <1>5, <1>6, QuietStep

(* An insert counts its node.                                              *)
LEMMA InsertNumInv ==
  ASSUME NEW may, Inv(may), NEW t \in Threads, InsertNum(t)
  PROVE  Inv(may)'
<1> PICK r : r = loc[t]
  OBVIOUS
<1>1. /\ TypeOK /\ ThreadOK(may, t, pc[t], loc[t]) /\ pc[t] = "num_add"
      /\ r \in Locals
  BY LocalsTyped DEF Inv, ThreadInv, InsertNum, Goto
<1>2. num' \in 0 .. NumMod - 1
  BY <1>1, BoundAssumption DEF TypeOK, InsertNum
<1>3. pc' = [pc EXCEPT ![t] = "leave"]
  BY DEF InsertNum, Goto
<1>4. loc[t].op = "insert"
  BY <1>1 DEF ThreadOK, Local, InsertOnly, DeleteOnly
<1>5. SameWork(pc[t], loc[t], "leave", r)
  BY <1>1, <1>4 DEF ThreadOK, About, SameWork, Owns, Puts, Takes, Marks, HasMark, TakePCs, PutPCs,
       SearchPCs
<1>6. ThreadOK(may, t, "leave", r)
  <2>1. PutOK("leave", r)
    BY <1>1, <1>4 DEF ThreadOK, PutOK, Puts, PutPCs, SearchPCs, Levels
  <2>2. TakeOK("leave", r)
    BY <1>1, <1>4 DEF ThreadOK, TakeOK, Takes, Marks, TakePCs, SearchPCs
  <2>3. MarkOK("leave", r)
    BY <1>1, <1>4 DEF ThreadOK, MarkOK, HasMark, Marks, TakePCs, SearchPCs
  <2>4. Local(t, "leave", r)
    BY <1>1, <1>4 DEF ThreadOK, Local, InsertOnly, DeleteOnly
  <2>5. About("leave", r)
    BY <1>1, <1>4 DEF ThreadOK, About, TakePCs, SearchPCs
  <2>6. Held(may, t, "leave", r)
    BY <1>1, <1>4 DEF ThreadOK, Held, Puts, PutPCs, SearchPCs
  <2> QED
    BY <2>1, <2>2, <2>3, <2>4, <2>5, <2>6 DEF ThreadOK
<1>7. "leave" \in PCs
  BY DEF PCs
<1> QED
  BY <1>2, <1>3, <1>5, <1>6, <1>7, NumStep DEF InsertNum, poolVars, hist

(* A delete counts its node.                                               *)
LEMMA DeleteNumInv ==
  ASSUME NEW may, Inv(may), NEW t \in Threads, DeleteNum(t)
  PROVE  Inv(may)'
<1> PICK r : r = loc[t]
  OBVIOUS
<1>1. /\ TypeOK /\ ThreadOK(may, t, pc[t], loc[t]) /\ pc[t] = "num_sub"
      /\ r \in Locals
  BY LocalsTyped DEF Inv, ThreadInv, DeleteNum, Goto
<1>2. num' \in 0 .. NumMod - 1
  BY <1>1, BoundAssumption DEF TypeOK, DeleteNum
<1>3. pc' = [pc EXCEPT ![t] = "leave"]
  BY DEF DeleteNum, Goto
<1>4. loc[t].op = "delete"
  BY <1>1 DEF ThreadOK, Local, InsertOnly, DeleteOnly
<1>5. SameWork(pc[t], loc[t], "leave", r)
  BY <1>1, <1>4 DEF ThreadOK, About, SameWork, Owns, Puts, Takes, Marks, HasMark, TakePCs, PutPCs,
       SearchPCs
<1>6. ThreadOK(may, t, "leave", r)
  <2>1. PutOK("leave", r)
    BY <1>1, <1>4 DEF ThreadOK, PutOK, Puts, PutPCs, SearchPCs, Levels
  <2>2. TakeOK("leave", r)
    BY <1>1, <1>4 DEF ThreadOK, TakeOK, Takes, Marks, TakePCs, SearchPCs
  <2>3. MarkOK("leave", r)
    BY <1>1, <1>4 DEF ThreadOK, MarkOK, HasMark, Marks, TakePCs, SearchPCs
  <2>4. Local(t, "leave", r)
    BY <1>1, <1>4 DEF ThreadOK, Local, InsertOnly, DeleteOnly
  <2>5. About("leave", r)
    BY <1>1, <1>4 DEF ThreadOK, About, TakePCs, SearchPCs
  <2>6. Held(may, t, "leave", r)
    BY <1>1, <1>4 DEF ThreadOK, Held, Puts, PutPCs, SearchPCs
  <2> QED
    BY <2>1, <2>2, <2>3, <2>4, <2>5, <2>6 DEF ThreadOK
<1>7. "leave" \in PCs
  BY DEF PCs
<1> QED
  BY <1>2, <1>3, <1>5, <1>6, <1>7, NumStep DEF DeleteNum, poolVars, hist

(* A call starts with its arguments.                                       *)
LEMMA StartFacts ==
  ASSUME TypeOK, NEW t \in Threads, NEW r \in Locals, NEW p, Start(t, r, p)
  PROVE  /\ pc' = [pc EXCEPT ![t] = p] /\ loc' = [loc EXCEPT ![t] = r] /\ pc[t] = "idle"
         /\ todo' \in [calls : Nat, keys : SUBSET Keys] /\ recs' \subseteq Recs
         /\ seen' \in [Threads -> SUBSET SUBSET Recs]
<1>1. todo' \in [calls : Nat, keys : SUBSET Keys]
  <2>1. todo.calls \in Nat /\ todo.calls > 0 /\ todo \in [calls : Nat, keys : SUBSET Keys]
    BY DEF TypeOK, Start
  <2>2. todo.calls - 1 \in Nat
    BY <2>1
  <2>3. todo' = [todo EXCEPT !.calls = todo.calls - 1]
    BY <2>1 DEF Start
  <2> QED
    BY <2>1, <2>2, <2>3
<1>2. recs' \subseteq Recs
  BY DEF TypeOK, Start
<1>3. View(recs, r.key) \in SUBSET Recs
  BY DEF TypeOK, View
<1>4. seen' \in [Threads -> SUBSET SUBSET Recs]
  <2> PICK v : v = View(recs, r.key)
    OBVIOUS
  <2>1. seen' = [seen EXCEPT ![t] = {v}] /\ seen \in [Threads -> SUBSET SUBSET Recs]
    BY DEF Start, TypeOK
  <2> QED
    BY <1>3, <2>1
<1> QED
  BY <1>1, <1>2, <1>4 DEF Start, Goto

(* A thread that is idle has nothing.                                      *)
LEMMA LocalsBlank ==
  /\ Nowhere \in [Levels -> Items \cup {Null}]
  /\ Nowhere \in [Levels -> Items \cup {Null} \cup {head}]
  /\ 0 \in 0 .. MaxHeight /\ 0 \in 0 .. MaxHeight + 1
BY BoundAssumption DEF Nowhere

(* An insert begins and may raise the height of the list.                  *)
LEMMA InsertInv ==
  ASSUME NEW may, Inv(may), NEW t \in Threads, Insert(t)
  PROVE  Inv(may)'
<1> PICK k \in Keys, h \in Levels :
      /\ Start(t, [NoLocals EXCEPT !.op = "insert", !.key = k, !.lvl = h], "new")
      /\ height' = IF h > height THEN h ELSE height
      /\ UNCHANGED <<poolVars, dupl, incr_key, num, next, info>>
  BY DEF Insert
<1> DEFINE r == [NoLocals EXCEPT !.op = "insert", !.key = k, !.lvl = h]
<1>0. r.op \in Ops /\ r.op = "insert"
  BY DEF Start, NoLocals
<1>z. h \in 0 .. MaxHeight
  BY BoundAssumption DEF Levels
<1>1. /\ r \in Locals
      /\ r.op = "insert" /\ r.key = k /\ r.lvl = h /\ r.x = Null /\ r.m = Null /\ r.i = 0
      /\ r.at = Null /\ r.prev = Nowhere /\ r.fwd = Nowhere
  BY <1>0, <1>z, LocalsBlank DEF NoLocals, Locals
<1>2. Start(t, r, "new")
  OBVIOUS
<1> HIDE DEF r
<1>3. TypeOK /\ ThreadOK(may, t, pc[t], loc[t])
  BY DEF Inv, ThreadInv
<1>4. /\ pc' = [pc EXCEPT ![t] = "new"] /\ loc' = [loc EXCEPT ![t] = r] /\ pc[t] = "idle"
      /\ todo' \in [calls : Nat, keys : SUBSET Keys] /\ recs' \subseteq Recs
      /\ seen' \in [Threads -> SUBSET SUBSET Recs]
  BY <1>1, <1>2, <1>3, StartFacts
<1>5. height' \in Levels /\ height' >= height /\ h <= height'
  BY <1>3 DEF TypeOK, Levels
<1>6. SameWork(pc[t], loc[t], "new", r)
  BY <1>1, <1>4 DEF SameWork, Owns, Puts, Takes, Marks, HasMark, TakePCs, PutPCs, SearchPCs
<1>7. t \notin inside /\ inside' = inside
  BY <1>3, <1>4 DEF ThreadOK, Local, poolVars
<1>8. ThreadOK(may, t, "new", r)'
  BY <1>1, <1>5, <1>7 DEF ThreadOK, PutOK, TakeOK, MarkOK, Local, About, Held, Puts, Marks, Takes,
     HasMark, PutPCs, TakePCs, SearchPCs, InsertOnly, DeleteOnly
<1>9. "new" \in PCs /\ num' \in 0 .. NumMod - 1
  BY <1>3 DEF PCs, TypeOK
<1> QED
  BY <1>1, <1>4, <1>5, <1>6, <1>8, <1>9, FreeStep DEF poolVars

(* A delete begins.                                                        *)
LEMMA DeleteInv ==
  ASSUME NEW may, Inv(may), NEW t \in Threads, Delete(t)
  PROVE  Inv(may)'
<1> PICK k \in Keys, i \in IF dupl THEN Incrs ELSE {0} :
      /\ Start(t, [NoLocals EXCEPT !.op = "delete", !.key = k, !.incr = i], "enter")
      /\ UNCHANGED <<poolVars, listVars>>
  BY DEF Delete
<1> DEFINE r == [NoLocals EXCEPT !.op = "delete", !.key = k, !.incr = i]
<1>0. r.op \in Ops /\ r.op = "delete" /\ i \in Nat
  BY IncrAssumption DEF Start, NoLocals
<1>1. /\ r \in Locals
      /\ r.op = "delete" /\ r.key = k /\ r.x = Null /\ r.m = Null /\ r.i = 0
      /\ r.at = Null /\ r.prev = Nowhere /\ r.fwd = Nowhere
  BY <1>0, LocalsBlank, BoundAssumption DEF NoLocals, Locals, Levels
<1>2. Start(t, r, "enter")
  OBVIOUS
<1> HIDE DEF r
<1>3. TypeOK /\ ThreadOK(may, t, pc[t], loc[t])
  BY DEF Inv, ThreadInv
<1>4. /\ pc' = [pc EXCEPT ![t] = "enter"] /\ loc' = [loc EXCEPT ![t] = r] /\ pc[t] = "idle"
      /\ todo' \in [calls : Nat, keys : SUBSET Keys] /\ recs' \subseteq Recs
      /\ seen' \in [Threads -> SUBSET SUBSET Recs]
  BY <1>1, <1>2, <1>3, StartFacts
<1>5. UNCHANGED <<inside, state, guards, next, info, dupl, incr_key, height, num>>
  BY DEF poolVars, listVars, fields
<1>6. SameWork(pc[t], loc[t], "enter", r)
  BY <1>1, <1>4 DEF SameWork, Owns, Puts, Takes, Marks, HasMark, TakePCs, PutPCs, SearchPCs
<1>7. t \notin inside /\ inside' = inside
  BY <1>3, <1>4, <1>5 DEF ThreadOK, Local
<1>8. ThreadOK(may, t, "enter", r)'
  BY <1>1, <1>5, <1>7 DEF ThreadOK, PutOK, TakeOK, MarkOK, Local, About, Held, Puts, Marks, Takes,
     HasMark, PutPCs, TakePCs, SearchPCs, InsertOnly, DeleteOnly
<1>9. "enter" \in PCs /\ num' \in 0 .. NumMod - 1 /\ height' \in Levels /\ height' >= height
  BY <1>3, <1>5 DEF PCs, TypeOK, Levels
<1> QED
  BY <1>1, <1>4, <1>5, <1>6, <1>8, <1>9, FreeStep

(* A get begins.                                                           *)
LEMMA GetInv ==
  ASSUME NEW may, Inv(may), NEW t \in Threads, Get(t)
  PROVE  Inv(may)'
<1> PICK k \in Keys, i \in IF dupl THEN Incrs ELSE {0} :
      /\ Start(t, [NoLocals EXCEPT !.op = "get", !.key = k, !.incr = i], "enter")
      /\ UNCHANGED <<poolVars, listVars>>
  BY DEF Get
<1> DEFINE r == [NoLocals EXCEPT !.op = "get", !.key = k, !.incr = i]
<1>0. r.op \in Ops /\ r.op = "get" /\ i \in Nat
  BY IncrAssumption DEF Start, NoLocals
<1>1. /\ r \in Locals
      /\ r.op = "get" /\ r.key = k /\ r.x = Null /\ r.m = Null /\ r.i = 0
      /\ r.at = Null /\ r.prev = Nowhere /\ r.fwd = Nowhere
  BY <1>0, LocalsBlank, BoundAssumption DEF NoLocals, Locals, Levels
<1>2. Start(t, r, "enter")
  OBVIOUS
<1> HIDE DEF r
<1>3. TypeOK /\ ThreadOK(may, t, pc[t], loc[t])
  BY DEF Inv, ThreadInv
<1>4. /\ pc' = [pc EXCEPT ![t] = "enter"] /\ loc' = [loc EXCEPT ![t] = r] /\ pc[t] = "idle"
      /\ todo' \in [calls : Nat, keys : SUBSET Keys] /\ recs' \subseteq Recs
      /\ seen' \in [Threads -> SUBSET SUBSET Recs]
  BY <1>1, <1>2, <1>3, StartFacts
<1>5. UNCHANGED <<inside, state, guards, next, info, dupl, incr_key, height, num>>
  BY DEF poolVars, listVars, fields
<1>6. SameWork(pc[t], loc[t], "enter", r)
  BY <1>1, <1>4 DEF SameWork, Owns, Puts, Takes, Marks, HasMark, TakePCs, PutPCs, SearchPCs
<1>7. t \notin inside /\ inside' = inside
  BY <1>3, <1>4, <1>5 DEF ThreadOK, Local
<1>8. ThreadOK(may, t, "enter", r)'
  BY <1>1, <1>5, <1>7 DEF ThreadOK, PutOK, TakeOK, MarkOK, Local, About, Held, Puts, Marks, Takes,
     HasMark, PutPCs, TakePCs, SearchPCs, InsertOnly, DeleteOnly
<1>9. "enter" \in PCs /\ num' \in 0 .. NumMod - 1 /\ height' \in Levels /\ height' >= height
  BY <1>3, <1>5 DEF PCs, TypeOK, Levels
<1> QED
  BY <1>1, <1>4, <1>5, <1>6, <1>8, <1>9, FreeStep
-----------------------------------------------------------------------------
(* What the steps that change nodes have in common. *)

(* A node of a level is one that every thread may come to.                 *)
LEMMA LinePairs ==
  TypeOK /\ Nodal /\ HeadIs /\ Lower =>
    \A u \in Threads, l \in Levels : \A n \in Line(l) :
      /\ Safe(u, n) /\ ~info[n].marker /\ l <= info[n].lvl
      /\ n # head => info[n].key \in Keys
      /\ l > 1 => n \in Line(l - 1)
      /\ After(n, l) # Null => After(n, l) \in Line(l)
<1> SUFFICES ASSUME TypeOK, Nodal, HeadIs, Lower, NEW u \in Threads, NEW l \in Levels,
                    NEW n \in Line(l)
             PROVE  /\ Safe(u, n) /\ ~info[n].marker /\ l <= info[n].lvl
                    /\ n # head => info[n].key \in Keys
                    /\ l > 1 => n \in Line(l - 1)
                    /\ After(n, l) # Null => After(n, l) \in Line(l)
  OBVIOUS
<1>1. After(n, l) # Null => After(n, l) \in Line(l)
  BY LineFacts DEF Line
<1>2. l > 1 => n \in Line(l - 1)
  BY DEF Line, Lower
<1>3. CASE n = head
  <2>1. ~info[head].marker /\ info[head].lvl = MaxHeight
    BY DEF HeadIs, NoInfo
  <2> QED
    BY <1>1, <1>2, <1>3, <2>1, BoundAssumption DEF Safe, Levels
<1>4. CASE n \in On(next, l)
  BY <1>1, <1>2, <1>4 DEF Safe, Nodal
<1> QED
  BY <1>3, <1>4 DEF Line

(* LinePairs after a step.                                                 *)
LEMMA LinePairsNext ==
  (TypeOK /\ Nodal /\ HeadIs /\ Lower)' =>
    (\A u \in Threads, l \in Levels : \A n \in Line(l) :
      /\ Safe(u, n) /\ ~info[n].marker /\ l <= info[n].lvl
      /\ n # head => info[n].key \in Keys
      /\ l > 1 => n \in Line(l - 1)
      /\ After(n, l) # Null => After(n, l) \in Line(l))'
BY LinePairs, PTL

(* LineFacts after a step.                                                 *)
LEMMA LineFactsNext ==
  TypeOK' => (\A l \in Levels :
                /\ Least(Succ(l), On(next, l))
                /\ On(next, l) \subseteq Items /\ Line(l) \subseteq Nodes /\ head \in Line(l)
                /\ \A n \in Line(l) : After(n, l) \in On(next, l) \cup {Null})'
BY LineFacts, PTL

\* What the threads that are inside may have come to after a step.
Grown(may) ==
  [u \in Threads |-> IF u \in inside'
                     THEN may[u] \cup {e \in Nodes \X Levels : e[1] \in Line(e[2])'}
                     ELSE {}]

\* A node that is off the line stays as it was for those who have come to it.
StaysGone(u, n, l) ==
  /\ Safe(u, n)' /\ ~info'[n].marker /\ l <= info'[n].lvl
  /\ n # head => info'[n].key \in Keys
  /\ After(n, l)' = After(n, l)
  /\ Gone(u, n, l)'

\* What the threads may have come to after the step is on the line now, or
\* they had come to it and it is as it was.
Follows(may, g) ==
  \A u \in Threads, n \in Nodes, l \in Levels :
    <<n, l>> \in g[u] /\ n \notin Line(l)'
      => <<n, l>> \in may[u] /\ After(n, l)' = After(n, l)

(* What the threads can have come to after a step, when the nodes that     *)
(* have left the list stay as they were.                                   *)
LEMMA GhostStep ==
  ASSUME NEW may, Inv(may), TypeOK', Nodal', HeadIs', Lower',
         \A u \in Threads, n \in Nodes, l \in Levels :
           u \in inside /\ u \in inside' /\ <<n, l>> \in may[u] /\ n \notin Line(l)'
             => StaysGone(u, n, l),
         NEW g, g = Grown(may)
  PROVE  Ghost(g)' /\ Follows(may, g)
<1>1. \A u \in Threads, l \in Levels : \A n \in Line(l)' :
        /\ Safe(u, n)' /\ ~info'[n].marker /\ l <= info'[n].lvl
        /\ n # head => info'[n].key \in Keys
        /\ l > 1 => n \in Line(l - 1)'
        /\ After(n, l)' # Null => After(n, l)' \in Line(l)'
  BY LinePairsNext
<1>2. \A l \in Levels : Line(l)' \subseteq Nodes
  BY LineFactsNext
<1>3. /\ may \in [Threads -> SUBSET (Nodes \X Levels)]
      /\ \A u \in Threads : u \notin inside => may[u] = {}
      /\ \A u \in Threads : MayOK(may, u)
  BY DEF Inv, Ghost
<1>4. /\ g \in [Threads -> SUBSET (Nodes \X Levels)]
      /\ \A u \in Threads : u \notin inside' => g[u] = {}
      /\ \A u \in Threads, n \in Nodes, l \in Levels :
           u \in inside' => (<<n, l>> \in g[u] <=> <<n, l>> \in may[u] \/ n \in Line(l)')
  BY <1>3 DEF Grown
<1>5. \A l \in Levels : l > 1 => l - 1 \in Levels
  BY BoundAssumption DEF Levels
<1>6. inside' \subseteq Threads
  BY DEF TypeOK
<1>7. ASSUME NEW u \in Threads PROVE MayOK(g, u)'
  <2> SUFFICES ASSUME NEW n \in Nodes, NEW l \in Levels, <<n, l>> \in g[u]
               PROVE  /\ Safe(u, n)' /\ ~info'[n].marker /\ l <= info'[n].lvl
                      /\ n # head => info'[n].key \in Keys
                      /\ l > 1 => <<n, l - 1>> \in g[u]
                      /\ After(n, l)' # Null => <<After(n, l)', l>> \in g[u]
                      /\ n \notin Line(l)' => Gone(u, n, l)'
    BY DEF MayOK
  <2>1. u \in inside'
    BY <1>4
  <2>2. CASE n \in Line(l)'
    BY <1>1, <1>2, <1>4, <1>5, <2>1, <2>2
  <2>3. CASE n \notin Line(l)'
    <3>1. <<n, l>> \in may[u] /\ u \in inside
      BY <1>3, <1>4, <2>1, <2>3
    <3>2. StaysGone(u, n, l)
      BY <2>1, <2>3, <3>1
    <3>3. /\ l > 1 => <<n, l - 1>> \in may[u]
          /\ After(n, l) # Null => <<After(n, l), l>> \in may[u]
      BY <1>3, <3>1 DEF MayOK
    <3>4. After(n, l) # Null => After(n, l) \in Nodes
      BY <1>3, <3>3
    <3> QED
      BY <1>4, <1>5, <2>1, <3>2, <3>3, <3>4 DEF StaysGone
  <2> QED
    BY <2>2, <2>3
<1>8. ASSUME NEW u \in inside', NEW l \in Levels, NEW n \in Line(l)' PROVE <<n, l>> \in g[u]
  BY <1>2, <1>4, <1>6
<1>9. Follows(may, g)
  <2> SUFFICES ASSUME NEW u \in Threads, NEW n \in Nodes, NEW l \in Levels,
                      <<n, l>> \in g[u], n \notin Line(l)'
               PROVE  <<n, l>> \in may[u] /\ After(n, l)' = After(n, l)
    BY DEF Follows
  <2>1. u \in inside' /\ <<n, l>> \in may[u]
    BY <1>4
  <2>2. u \in inside
    BY <1>3, <2>1
  <2> QED
    BY <2>1, <2>2 DEF StaysGone
<1> QED
  BY <1>4, <1>7, <1>8, <1>9 DEF Ghost

(* A node that a thread works on is linked and says so.                    *)
LEMMA OwnsFacts ==
  ASSUME NEW may, Inv(may), NEW u \in Threads, NEW x, Owns(pc[u], loc[u], x)
  PROVE  /\ x \in Items /\ state[x] = "linked"
         /\ info[x].marker \/ info[x].deleting \/ info[x].inserting
<1> PICK p, r : p = pc[u] /\ r = loc[u]
  OBVIOUS
<1>1. TypeOK /\ ThreadOK(may, u, p, r) /\ r \in Locals
  BY LocalsTyped DEF Inv, ThreadInv
<1>2. CASE Puts(p, r) /\ x = r.x
  BY <1>1, <1>2 DEF ThreadOK, PutOK, Puts, Locals
<1>3. CASE Takes(p, r) /\ x = r.x
  BY <1>1, <1>3 DEF ThreadOK, TakeOK, Locals
<1>4. CASE HasMark(p, r) /\ x = r.m
  BY <1>1, <1>4 DEF ThreadOK, MarkOK, Locals
<1> QED
  BY <1>2, <1>3, <1>4 DEF Owns

(* A thread whose nodes are let alone. *)
Undisturbed(u) ==
  LET p == pc[u]
      r == loc[u]
  IN  /\ \A x \in Items : Owns(p, r, x) =>
           /\ state'[x] = state[x] /\ info'[x] = info[x]
           /\ \A l \in Levels : x \in On(next, l)' <=> x \in On(next, l)
      /\ Puts(p, r) /\ p = "link" => next'[r.x][r.i] = next[r.x][r.i]
      /\ Marks(p, r) => /\ next'[r.x][r.i] = r.m <=> next[r.x][r.i] = r.m
                        /\ next'[r.m][r.i] = next[r.m][r.i]

(* A thread whose nodes are let alone is where it was.                     *)
LEMMA OtherThread ==
  ASSUME NEW may, Inv(may), TypeOK', NEW g, NEW u \in Threads, may[u] \subseteq g[u],
         u \in inside' <=> u \in inside, height' >= height,
         \A n \in Nodes : u \in inside /\ Safe(u, n) =>
                            Safe(u, n)' /\ info'[n].lvl = info[n].lvl,
         Undisturbed(u), pc'[u] = pc[u], loc'[u] = loc[u]
  PROVE  ThreadInv(g, u)'
<1> PICK p, r : p = pc[u] /\ r = loc[u]
  OBVIOUS
<1>1. /\ TypeOK /\ ThreadOK(may, u, p, r) /\ r \in Locals
      /\ height \in Levels /\ height' \in Levels
  BY LocalsTyped DEF Inv, ThreadInv, TypeOK
<1>2. /\ \A x \in Items : Owns(p, r, x) =>
           /\ state'[x] = state[x] /\ info'[x] = info[x]
           /\ \A l \in Levels : x \in On(next, l)' <=> x \in On(next, l)
      /\ Puts(p, r) /\ p = "link" => next'[r.x][r.i] = next[r.x][r.i]
      /\ Marks(p, r) => /\ next'[r.x][r.i] = r.m <=> next[r.x][r.i] = r.m
                        /\ next'[r.m][r.i] = next[r.m][r.i]
  BY DEF Undisturbed
<1>3. PutOK(p, r)'
  <2> SUFFICES ASSUME Puts(p, r) PROVE PutOK(p, r)'
    BY DEF PutOK
  <2>1. r.x \in Items /\ Owns(p, r, r.x)
    BY <1>1 DEF Owns, Puts, Locals
  <2>2. PutOK(p, r) /\ (info[r.x].lvl <= height => info[r.x].lvl <= height')
    BY <1>1 DEF ThreadOK, PutOK, Levels
  <2> QED
    BY <1>2, <2>1, <2>2 DEF PutOK
<1>4. TakeOK(p, r)'
  <2> SUFFICES ASSUME Takes(p, r) PROVE TakeOK(p, r)'
    BY DEF TakeOK
  <2>1. TakeOK(p, r) /\ info[r.x].lvl \in Levels /\ r.x # Null
    BY <1>1 DEF ThreadOK, TakeOK
  <2>2. r.x \in Items /\ Owns(p, r, r.x)
    BY <1>1, <2>1 DEF Owns, Locals
  <2>3. \A l \in 1 .. info[r.x].lvl : l \in Levels
    BY <2>1, BoundAssumption DEF Levels
  <2> QED
    BY <1>2, <2>1, <2>2, <2>3 DEF TakeOK
<1>5. MarkOK(p, r)'
  <2>1. MarkOK(p, r) /\ TakeOK(p, r)
    BY <1>1 DEF ThreadOK
  <2>2. HasMark(p, r) => r.m \in Items /\ Owns(p, r, r.m)
    BY <1>1, <2>1 DEF MarkOK, Owns, Locals
  <2>3. Marks(p, r) => r.x \in Items /\ Owns(p, r, r.x)
    BY <1>1, <2>1 DEF TakeOK, Takes, Owns, Locals
  <2> QED
    BY <1>2, <2>1, <2>2, <2>3 DEF MarkOK
<1>6. Held(may, u, p, r) /\ Local(u, p, r) /\ About(p, r)
  BY <1>1 DEF ThreadOK
<1>7. Local(u, p, r)'
  <2>1. p = "forward" => info'[r.at].lvl = info[r.at].lvl
    <3> SUFFICES ASSUME p = "forward" PROVE info'[r.at].lvl = info[r.at].lvl
      OBVIOUS
    <3>1. u \in inside /\ r.at \in Items /\ r.at # Null
      BY <1>6, NodeAssumption DEF Local
    <3>2. <<r.at, 1>> \in may[u]
      BY <1>6, <3>1 DEF Held
    <3>3. Safe(u, r.at)
      BY <3>1, <3>2, LevelOne, MayFacts DEF Nodes
    <3> QED
      BY <3>1, <3>3 DEF Nodes
  <2>2. r.lvl <= height => r.lvl <= height'
    <3>1. r.lvl \in Int /\ height \in Int /\ height' \in Int
      BY <1>1, BoundAssumption DEF Locals, Levels
    <3> QED
      BY <3>1
  <2> QED
    BY <1>6, <2>1, <2>2 DEF Local
<1>8. Held(g, u, p, r)'
  <2>1. r.m # Null => r.m \in Nodes
    BY <1>1 DEF Locals, Nodes
  <2> QED
    BY <1>6, <2>1 DEF Held
<1> QED
  BY <1>3, <1>4, <1>5, <1>6, <1>7, <1>8 DEF ThreadOK, ThreadInv

(* Steps after which the levels are what they were.                        *)
LEMMA LineKeeps ==
  ASSUME NEW may, Inv(may), TypeOK',
         \A l \in Levels : \A n \in Line(l) : After(n, l)' = After(n, l),
         \A l \in Levels : \A n \in On(next, l) :
           /\ state'[n] = "linked" /\ info'[n].marker = info[n].marker
           /\ info'[n].lvl = info[n].lvl /\ info'[n].key = info[n].key,
         info'[head] = info[head],
         \A x \in On(next, 1) : ~info'[x].inserting /\ ~info'[x].deleting =>
           \/ ~info[x].inserting /\ ~info[x].deleting
           \/ \A l \in 1 .. info[x].lvl : x \in On(next, l)
  PROVE  /\ \A l \in Levels : On(next, l)' = On(next, l) /\ Line(l)' = Line(l)
         /\ Nodal' /\ OneBehind' /\ Lower' /\ Towers' /\ HeadIs'
<1>1. \A l \in Levels : On(next, l)' = On(next, l) /\ Line(l)' = Line(l)
  BY LineStays DEF Inv
<1>2. Nodal'
  BY <1>1 DEF Inv, ListInv, Nodal
<1>3. OneBehind'
  <2> SUFFICES ASSUME NEW l \in Levels PROVE OneEach(Succ(l)', On(next, l)')
    BY DEF OneBehind
  <2> QED
    BY <1>1, OneBehindStays DEF Inv, ListInv
<1>4. Lower'
  <2>1. \A l \in Levels : l > 1 => l - 1 \in Levels
    BY BoundAssumption DEF Levels
  <2> QED
    BY <1>1, <2>1 DEF Inv, ListInv, Lower
<1>5. Towers'
  <2>1. 1 \in Levels
    BY LevelOne
  <2>2. \A x \in On(next, 1) : 1 .. info[x].lvl \subseteq Levels
    <3>1. \A x \in On(next, 1) : x \in Items
      BY <2>1, LineFacts DEF Inv
    <3>2. \A x \in Items : info[x].lvl \in 0 .. MaxHeight
      BY DEF Inv, TypeOK, Nodes
    <3> QED
      BY <3>1, <3>2, BoundAssumption DEF Levels
  <2> SUFFICES ASSUME NEW x \in On(next, 1), ~info'[x].inserting, ~info'[x].deleting,
                      NEW l \in 1 .. info[x].lvl
               PROVE  x \in On(next, l)
    BY <1>1, <2>1, <2>2 DEF Towers
  <2>3. Towers
    BY DEF Inv, ListInv
  <2> QED
    BY <2>3 DEF Towers
<1>6. HeadIs'
  BY DEF Inv, ListInv, HeadIs, NoInfo
<1> QED
  BY <1>1, <1>2, <1>3, <1>4, <1>5, <1>6

(* Nothing new is next to the nodes of a level.                            *)
LEMMA NextKeeps ==
  ASSUME NEW may, Inv(may),
         \A l \in Levels : Line(l)' = Line(l),
         \A l \in Levels : \A n \in Line(l) :
           /\ next'[n][l] = next[n][l]
           /\ next[n][l] # Null => /\ state'[next[n][l]] = "linked"
                                   /\ info'[next[n][l]].marker = info[next[n][l]].marker,
         \A u \in Threads : Marks(pc[u], loc[u]) /\ loc[u].i \in Levels =>
           /\ Marks(pc'[u], loc'[u])
           /\ loc'[u].x = loc[u].x /\ loc'[u].m = loc[u].m /\ loc'[u].i = loc[u].i
  PROVE  NextIs'
BY DEF Inv, ListInv, NextIs

(* No two threads come to work on one node.                                *)
LEMMA ApartKeeps ==
  ASSUME NEW may, Inv(may),
         \A u \in Threads, x \in Items : Owns(pc'[u], loc'[u], x) =>
           \/ Owns(pc[u], loc[u], x)
           \/ \A v \in Threads : v # u => ~Owns(pc'[v], loc'[v], x)
  PROVE  Apart'
BY DEF Inv, ListInv, Apart

(* Steps that leave the levels as they were keep the invariant when they   *)
(* keep its parts.                                                         *)
LEMMA CalmStep ==
  ASSUME NEW may, Inv(may), TypeOK',
         \A l \in Levels : On(next, l)' = On(next, l) /\ Line(l)' = Line(l),
         Nodal', OneBehind', Lower', Towers', HeadIs', NextIs', Apart',
         \A u \in Threads, n \in Nodes, l \in Levels :
           u \in inside /\ u \in inside' /\ <<n, l>> \in may[u] /\ n \notin Line(l)
             => StaysGone(u, n, l),
         NEW g, g = Grown(may), \A u \in Threads : ThreadInv(g, u)'
  PROVE  Inv(g)' /\ Follows(may, g)
<1>1. Ghost(g)' /\ Follows(may, g)
  BY GhostStep
<1> QED
  BY <1>1 DEF Inv, ListInv

\* A thread that was inside and stays there sees the nodes that it may come
\* to as they were.
Sees(u) ==
  \A n \in Nodes : Safe(u, n) =>
    /\ Safe(u, n)'
    /\ info'[n].marker = info[n].marker /\ info'[n].lvl = info[n].lvl
    /\ info'[n].key = info[n].key /\ (info[n].deleting => info'[n].deleting)

(* A node that has left the list stays as it was when nobody writes to it  *)
(* or to its marker.                                                       *)
LEMMA GoneStays ==
  ASSUME NEW may, Inv(may), NEW u \in Threads, NEW n \in Nodes, NEW l \in Levels,
         <<n, l>> \in may[u], n \notin Line(l), Sees(u),
         NEW y, y = next[n][l], next'[n][l] = y, next'[y][l] = next[y][l],
         \A v \in Threads : Marks(pc'[v], loc'[v]) /\ y = loc'[v].m =>
           n = loc'[v].x \/ (Marks(pc[v], loc[v]) /\ y = loc[v].m /\ loc'[v].x = loc[v].x)
  PROVE  StaysGone(u, n, l)
<1>1. /\ Safe(u, n) /\ ~info[n].marker /\ l <= info[n].lvl
      /\ n # head => info[n].key \in Keys
      /\ Gone(u, n, l)
  BY MayFacts
<1>2. /\ info[n].deleting /\ y # Null /\ info[y].marker /\ Safe(u, y)
      /\ \A v \in Threads : Marks(pc[v], loc[v]) /\ y = loc[v].m => n = loc[v].x
  BY <1>1 DEF Gone
<1>3. y \in Nodes
  BY <1>2 DEF Safe, Nodes
<1>4. After(n, l)' = After(n, l)
  BY <1>2, <1>3 DEF After, Behind, Sees
<1>5. Gone(u, n, l)'
  BY <1>1, <1>2, <1>3 DEF Gone, Sees
<1> QED
  BY <1>1, <1>4, <1>5 DEF StaysGone, Sees

(* A thread whose nodes nobody has touched at all.                         *)
LEMMA LetAlone ==
  ASSUME NEW u \in Threads,
         \A x \in Items : Owns(pc[u], loc[u], x) =>
           state'[x] = state[x] /\ info'[x] = info[x] /\ next'[x] = next[x],
         TypeOK, NEW may, Inv(may),
         \A l \in Levels : On(next, l)' = On(next, l)
  PROVE  Undisturbed(u)
<1> PICK p, r : p = pc[u] /\ r = loc[u]
  OBVIOUS
<1>1. ThreadOK(may, u, p, r) /\ r \in Locals
  BY LocalsTyped DEF Inv, ThreadInv
<1>2. Puts(p, r) => Owns(p, r, r.x) /\ r.x \in Items
  BY <1>1 DEF Owns, Puts, Locals
<1>3. Marks(p, r) => Owns(p, r, r.x) /\ r.x \in Items /\ Owns(p, r, r.m) /\ r.m \in Items
  BY <1>1 DEF Owns, Marks, Takes, HasMark, Locals, ThreadOK, TakeOK
<1> QED
  BY <1>2, <1>3 DEF Undisturbed

-----------------------------------------------------------------------------
(* The epoch is entered and left. *)

(* An epoch is entered: the thread can have come to what is on the list.   *)
LEMMA EnterInv ==
  ASSUME NEW may, Inv(may), NEW t \in Threads, EnterEpoch(t, "enter")
  PROVE  \E g : Inv(g)' /\ Follows(may, g)
<1> PICK r : r = loc[t]
  OBVIOUS
<1>1. /\ TypeOK /\ ThreadOK(may, t, "enter", r) /\ pc[t] = "enter" /\ r \in Locals
      /\ pc \in [Threads -> PCs] /\ loc \in [Threads -> Locals] /\ height \in Levels
  BY LocalsTyped DEF Inv, ThreadInv, EnterEpoch, Goto, TypeOK
<1>2. /\ t \notin inside /\ inside' = inside \cup {t} /\ state' = state /\ guards' = guards
      /\ pc' = [pc EXCEPT ![t] = "find_start"]
      /\ UNCHANGED <<dupl, height, incr_key, num, next, info, loc, todo, recs, seen>>
  BY DEF EnterEpoch, Goto, Pool!Enter, listVars, fields, hist
<1>3. TypeOK'
  <2>1. pc' \in [Threads -> PCs]
    BY <1>1, <1>2 DEF PCs
  <2> QED
    BY <1>1, <1>2, <2>1 DEF TypeOK
<1>4. /\ r.m = Null /\ r.prev = Nowhere /\ r.fwd = Nowhere /\ r.at = Null
      /\ r.op # "insert" => r.x = Null
      /\ r.op # "none" /\ r.key \in Keys
      /\ Puts("enter", r) => r.i = 0
  <2>1. Local(t, "enter", r) /\ About("enter", r) /\ PutOK("enter", r)
    BY <1>1 DEF ThreadOK
  <2>2. r.op \in {"none", "insert", "delete", "get"}
    BY <1>1, OpAssumption DEF Locals
  <2>3. r.op # "insert" => r.x = Null
    BY <2>1, <2>2 DEF About, Local, TakePCs, SearchPCs
  <2>4. Puts("enter", r) => r.i = 0
    BY <2>1 DEF PutOK
  <2> QED
    BY <2>1, <2>3, <2>4 DEF Local
<1>5. /\ ~Marks("enter", r) /\ ~Marks("find_start", r)
      /\ ~HasMark("enter", r) /\ ~HasMark("find_start", r)
      /\ ~Takes("enter", r) /\ ~Takes("find_start", r)
      /\ Puts("find_start", r) <=> Puts("enter", r)
  BY <1>4 DEF Marks, HasMark, Takes, Puts, PutPCs, SearchPCs
<1>6. \A u \in Threads :
        /\ Marks(pc'[u], loc'[u]) <=> Marks(pc[u], loc[u])
        /\ loc'[u].x = loc[u].x /\ loc'[u].m = loc[u].m /\ loc'[u].i = loc[u].i
        /\ \A x \in Items : Owns(pc'[u], loc'[u], x) => Owns(pc[u], loc[u], x)
  BY <1>1, <1>2, <1>5 DEF Owns
<1>7. \A u \in Threads, n \in Nodes : Safe(u, n)' <=> Safe(u, n)
  BY <1>2 DEF Safe
<1>8. /\ \A l \in Levels : On(next, l)' = On(next, l) /\ Line(l)' = Line(l)
      /\ Nodal' /\ OneBehind' /\ Lower' /\ Towers' /\ HeadIs'
  <2>1. \A n, l : After(n, l)' = After(n, l)
    BY <1>2 DEF After, Behind
  <2>2. \A l \in Levels : \A n \in On(next, l) : state[n] = "linked"
    BY DEF Inv, ListInv, Nodal
  <2> QED
    BY <1>2, <1>3, <2>1, <2>2, LineKeeps
<1>9. NextIs'
  <2>1. \A l \in Levels : \A n \in Line(l) : next[n][l] # Null => state[next[n][l]] = "linked"
    BY DEF Inv, ListInv, NextIs
  <2> QED
    BY <1>2, <1>6, <1>8, <2>1, NextKeeps
<1>10. Apart'
  BY <1>6, ApartKeeps
<1>11. ASSUME NEW u \in Threads, NEW n \in Nodes, NEW l \in Levels,
              <<n, l>> \in may[u], n \notin Line(l)
       PROVE  StaysGone(u, n, l)
  BY <1>2, <1>6, <1>7, <1>11, GoneStays DEF Sees
<1> PICK g : g = Grown(may)
  OBVIOUS
<1>12. ASSUME NEW u \in Threads, u # t PROVE ThreadInv(g, u)'
  <2>1. Undisturbed(u)
    BY <1>1, <1>2, <1>8, LetAlone
  <2>2. may[u] \subseteq g[u]
    BY <1>2 DEF Grown, Inv, Ghost
  <2>3. height' >= height
    BY <1>1, <1>2, BoundAssumption DEF Levels
  <2> QED
    BY <1>1, <1>2, <1>3, <1>7, <1>12, <2>1, <2>2, <2>3, OtherThread
<1>13. ThreadInv(g, t)'
  <2>1. PutOK("find_start", r)'
    <3>1. info[r.x].lvl \in Levels => 0 <= info[r.x].lvl
      BY DEF Levels
    <3> QED
      BY <1>1, <1>2, <1>4, <1>5, <1>8, <3>1 DEF ThreadOK, PutOK, SearchPCs
  <2>2. TakeOK("find_start", r)' /\ MarkOK("find_start", r)'
    BY <1>5 DEF TakeOK, MarkOK
  <2>3. Local(t, "find_start", r)'
    BY <1>2, <1>4 DEF Local, InsertOnly, DeleteOnly
  <2>4. About("find_start", r)
    BY <1>1, <1>4 DEF ThreadOK, About, SearchPCs
  <2>5. Held(g, t, "find_start", r)'
    BY <1>4, <1>5, NodeAssumption DEF Held, Nowhere, Puts, PutPCs, SearchPCs
  <2>6. pc'[t] = "find_start" /\ loc'[t] = r
    BY <1>1, <1>2
  <2> QED
    BY <2>1, <2>2, <2>3, <2>4, <2>5, <2>6 DEF ThreadInv, ThreadOK
<1>14. Inv(g)' /\ Follows(may, g)
  BY <1>3, <1>8, <1>9, <1>10, <1>11, <1>12, <1>13, CalmStep
<1> QED
  BY <1>14

(* A thread goes out and gives up what it may have come to.                *)
LEMMA GoesOut ==
  ASSUME NEW may, Inv(may), NEW t \in Threads, NEW q \in PCs, NEW s \in Locals,
         Pool!Leave(t), UNCHANGED <<listVars, todo, recs>>,
         pc' = [pc EXCEPT ![t] = q], loc' = [loc EXCEPT ![t] = s],
         seen' \in [Threads -> SUBSET SUBSET Recs],
         pc[t] \in {"leave", "again"},
         \A x \in Items : ~Owns(q, s, x), ~Marks(q, s), ~Takes(q, s), ~Puts(q, s), ~HasMark(q, s),
         Local(t, q, s)', About(q, s)
  PROVE  \E g : Inv(g)' /\ Follows(may, g)
<1>1. /\ TypeOK /\ pc \in [Threads -> PCs] /\ loc \in [Threads -> Locals] /\ height \in Levels
  BY LocalsTyped DEF Inv, TypeOK
<1>2. /\ inside' = inside \ {t} /\ state' = state
      /\ guards' = [x \in Items |-> guards[x] \ {t}]
      /\ UNCHANGED <<dupl, height, incr_key, num, next, info, todo, recs>>
  BY DEF Pool!Leave, listVars, fields
<1>3. TypeOK'
  <2>1. pc' \in [Threads -> PCs] /\ loc' \in [Threads -> Locals]
    BY <1>1
  <2>2. guards' \in [Items -> SUBSET Threads]
    BY <1>1, <1>2 DEF TypeOK
  <2> QED
    BY <1>1, <1>2, <2>1, <2>2 DEF TypeOK, Locals
<1>4. ~Marks(pc[t], loc[t])
  BY DEF Marks, TakePCs, SearchPCs
<1>5. pc'[t] = q /\ loc'[t] = s /\ \A u \in Threads : u # t => pc'[u] = pc[u] /\ loc'[u] = loc[u]
  BY <1>1
<1>6. \A u \in Threads :
        /\ Marks(pc'[u], loc'[u]) <=> Marks(pc[u], loc[u])
        /\ u # t => loc'[u].x = loc[u].x /\ loc'[u].m = loc[u].m /\ loc'[u].i = loc[u].i
        /\ \A x \in Items : Owns(pc'[u], loc'[u], x) => Owns(pc[u], loc[u], x)
  BY <1>4, <1>5
<1>7. \A u \in Threads, n \in Nodes : u # t => (Safe(u, n)' <=> Safe(u, n))
  BY <1>2 DEF Safe
<1>8. /\ \A l \in Levels : On(next, l)' = On(next, l) /\ Line(l)' = Line(l)
      /\ Nodal' /\ OneBehind' /\ Lower' /\ Towers' /\ HeadIs'
  <2>1. \A n, l : After(n, l)' = After(n, l)
    BY <1>2 DEF After, Behind
  <2>2. \A l \in Levels : \A n \in On(next, l) : state[n] = "linked"
    BY DEF Inv, ListInv, Nodal
  <2> QED
    BY <1>2, <1>3, <2>1, <2>2, LineKeeps
<1>9. NextIs'
  <2>1. \A l \in Levels : \A n \in Line(l) : next[n][l] # Null => state[next[n][l]] = "linked"
    BY DEF Inv, ListInv, NextIs
  <2> QED
    BY <1>2, <1>4, <1>6, <1>8, <2>1, NextKeeps
<1>10. Apart'
  BY <1>6, ApartKeeps
<1>11. ASSUME NEW u \in Threads, u # t, NEW n \in Nodes, NEW l \in Levels,
              <<n, l>> \in may[u], n \notin Line(l)
       PROVE  StaysGone(u, n, l)
  <2>1. \A v \in Threads : Marks(pc'[v], loc'[v]) => Marks(pc[v], loc[v]) /\ v # t
    BY <1>4, <1>6
  <2>2. Sees(u)
    BY <1>2, <1>7, <1>11 DEF Sees
  <2> QED
    BY <1>2, <1>6, <1>11, <2>1, <2>2, GoneStays
<1> PICK g : g = Grown(may)
  OBVIOUS
<1>12. ASSUME NEW u \in Threads, u # t PROVE ThreadInv(g, u)'
  <2>1. Undisturbed(u)
    BY <1>1, <1>2, <1>8, LetAlone
  <2>2. may[u] \subseteq g[u]
    BY <1>2, <1>12 DEF Grown, Inv, Ghost
  <2>3. height' >= height
    BY <1>1, <1>2, BoundAssumption DEF Levels
  <2> QED
    BY <1>2, <1>3, <1>5, <1>7, <1>12, <2>1, <2>2, <2>3, OtherThread
<1>13. ThreadInv(g, t)'
  <2>1. PutOK(q, s)' /\ TakeOK(q, s)' /\ MarkOK(q, s)'
    BY DEF PutOK, TakeOK, MarkOK
  <2>2. Held(g, t, q, s)'
    BY <1>2 DEF Held
  <2> QED
    BY <1>5, <2>1, <2>2 DEF ThreadInv, ThreadOK
<1>14. t \notin inside'
  BY <1>2
<1>15. Inv(g)' /\ Follows(may, g)
  BY <1>3, <1>8, <1>9, <1>10, <1>11, <1>12, <1>13, <1>14, CalmStep
<1> QED
  BY <1>15

(* A call returns.                                                         *)
LEMMA ReturnInv ==
  ASSUME NEW may, Inv(may), NEW t \in Threads, Return(t)
  PROVE  \E g : Inv(g)' /\ Follows(may, g)
<1>1. TypeOK /\ t \in inside /\ inside' = inside \ {t}
  BY DEF Inv, Return, Leave, Pool!Leave
<1>2. /\ NoLocals \in Locals /\ "idle" \in PCs /\ NoLocals.op = "none" /\ NoLocals.x = Null
      /\ NoLocals.m = Null
  BY LocalsBlank DEF NoLocals, Locals, PCs
<1>3. /\ ~Marks("idle", NoLocals) /\ ~Takes("idle", NoLocals) /\ ~Puts("idle", NoLocals)
      /\ ~HasMark("idle", NoLocals)
  BY <1>2 DEF Marks, Takes, Puts, HasMark
<1>4. seen' \in [Threads -> SUBSET SUBSET Recs]
  <2>1. seen \in [Threads -> SUBSET SUBSET Recs] /\ seen' = [seen EXCEPT ![t] = {}]
    BY <1>1 DEF TypeOK, Return, Leave
  <2> QED
    BY <2>1
<1>5. Local(t, "idle", NoLocals)'
  BY <1>1, <1>2 DEF Local, InsertOnly, DeleteOnly
<1>6. About("idle", NoLocals)
  BY <1>2 DEF About
<1> QED
  BY <1>2, <1>3, <1>4, <1>5, <1>6, GoesOut DEF Return, Leave, Goto, Owns

(* A delete leaves the epoch to try again.                                 *)
LEMMA DeleteAgainInv ==
  ASSUME NEW may, Inv(may), NEW t \in Threads, DeleteAgain(t)
  PROVE  \E g : Inv(g)' /\ Follows(may, g)
<1> PICK r : r = loc[t]
  OBVIOUS
<1>1. /\ TypeOK /\ ThreadOK(may, t, "again", r) /\ pc[t] = "again" /\ r \in Locals
      /\ loc \in [Threads -> Locals] /\ t \in inside /\ inside' = inside \ {t}
  BY LocalsTyped DEF Inv, ThreadInv, DeleteAgain, Goto, Pool!Leave
<1>2. /\ r.op = "delete" /\ r.x = Null /\ r.m = Null /\ Local(t, "again", r)
      /\ loc' = [loc EXCEPT ![t] = r]
  BY <1>1 DEF ThreadOK, Local, About, DeleteOnly, TakePCs, SearchPCs, DeleteAgain
<1>3. /\ ~Marks("enter", r) /\ ~Takes("enter", r) /\ ~Puts("enter", r) /\ ~HasMark("enter", r)
  BY <1>2 DEF Marks, Takes, Puts, HasMark
<1>4. seen' \in [Threads -> SUBSET SUBSET Recs]
  BY <1>1 DEF TypeOK, DeleteAgain, hist
<1>5. Local(t, "enter", r)'
  BY <1>1, <1>2 DEF Local, InsertOnly, DeleteOnly
<1>6. About("enter", r)
  BY <1>2 DEF About
<1>7. "enter" \in PCs
  BY DEF PCs
<1> QED
  BY <1>1, <1>2, <1>3, <1>4, <1>5, <1>6, <1>7, GoesOut DEF DeleteAgain, Goto, Owns, hist
-----------------------------------------------------------------------------
(* The pool hands a node out and takes it back. *)

\* Nobody can come to x.
Loose(x) == /\ x \in Items /\ state[x] # "linked"
            /\ \A u \in Threads : ~Safe(u, x)

(* A node that nobody is inside for is not on the list, and no pointer     *)
(* that a thread can follow leads to it.                                   *)
LEMMA LooseFacts ==
  ASSUME NEW may, Inv(may), NEW x, Loose(x)
  PROVE  /\ \A l \in Levels : x \notin Line(l)
         /\ \A l \in Levels : \A n \in Line(l) : next[n][l] # x
         /\ \A u \in Threads : ~Owns(pc[u], loc[u], x)
         /\ \A u \in Threads, l \in Levels : <<x, l>> \notin may[u]
         /\ \A u \in Threads, n \in Nodes, l \in Levels :
              <<n, l>> \in may[u] /\ n \notin Line(l) => next[n][l] # x
<1>1. x # Null /\ x # head /\ x \in Nodes
  BY NodeAssumption DEF Loose, Nodes
<1>2. \A l \in Levels : x \notin Line(l)
  BY <1>1 DEF Inv, ListInv, Nodal, Line, Loose
<1>3. \A l \in Levels : \A n \in Line(l) : next[n][l] # x
  BY <1>1 DEF Inv, ListInv, NextIs, Loose
<1>4. \A u \in Threads : ~Owns(pc[u], loc[u], x)
  BY OwnsFacts DEF Loose
<1>5. \A u \in Threads, l \in Levels : <<x, l>> \notin may[u]
  BY <1>1, MayFacts DEF Loose
<1>6. ASSUME NEW u \in Threads, NEW n \in Nodes, NEW l \in Levels,
             <<n, l>> \in may[u], n \notin Line(l)
      PROVE  next[n][l] # x
  <2>1. Gone(u, n, l)
    BY <1>6, MayFacts
  <2> QED
    BY <2>1 DEF Gone, Loose
<1> QED
  BY <1>2, <1>3, <1>4, <1>5, <1>6

\* A step that changes no node but x.
Renews(x) ==
  /\ inside' = inside /\ guards' = guards /\ height' = height
  /\ \A n \in Items \ {x} : state'[n] = state[n]
  /\ \A n \in Nodes \ {x} : info'[n] = info[n] /\ next'[n] = next[n]

\* Every level is what it was.
Flat ==
  \A l \in Levels : /\ On(next, l)' = On(next, l)
                    /\ \A n \in Line(l) : After(n, l)' = After(n, l)

(* Writing to such a node changes no level.                                *)
LEMMA LooseLine ==
  ASSUME NEW may, Inv(may), TypeOK', NEW x, Loose(x), Renews(x)
  PROVE  /\ \A l \in Levels : On(next, l)' = On(next, l) /\ Line(l)' = Line(l)
         /\ Nodal' /\ OneBehind' /\ Lower' /\ Towers' /\ HeadIs' /\ Flat
<1>1. \A l \in Levels : Line(l) \subseteq Nodes /\ On(next, l) \subseteq Items
  BY LineFacts DEF Inv
<1>2. \A l \in Levels : x \notin Line(l) /\ \A n \in Line(l) : next[n][l] # x
  BY LooseFacts
<1>3. next \in [Nodes -> [Levels -> Items \cup {Null}]]
  BY DEF Inv, TypeOK
<1>4. ASSUME NEW l \in Levels, NEW n \in Line(l) PROVE After(n, l)' = After(n, l)
  <2>1. n \in Nodes \ {x} /\ next[n][l] \in Items \cup {Null} /\ next[n][l] # x
    BY <1>1, <1>2, <1>3
  <2>2. next'[n] = next[n]
    BY <2>1 DEF Renews
  <2>3. next[n][l] # Null => /\ info'[next[n][l]] = info[next[n][l]]
                             /\ next'[next[n][l]] = next[next[n][l]]
    BY <2>1 DEF Renews, Nodes
  <2> QED
    BY <2>2, <2>3 DEF After, Behind
<1>5. ASSUME NEW l \in Levels, NEW n \in On(next, l)
      PROVE  state'[n] = "linked" /\ info'[n] = info[n]
  <2>1. n \in Items \ {x} /\ n \in Nodes \ {x} /\ state[n] = "linked"
    BY <1>1, <1>2 DEF Line, Nodes, Inv, ListInv, Nodal
  <2> QED
    BY <2>1 DEF Renews
<1>6. info'[head] = info[head]
  BY NodeAssumption DEF Renews, Nodes, Loose
<1>7. /\ \A l \in Levels : On(next, l)' = On(next, l) /\ Line(l)' = Line(l)
      /\ Nodal' /\ OneBehind' /\ Lower' /\ Towers' /\ HeadIs'
  BY <1>4, <1>5, <1>6, LevelOne, LineKeeps
<1> QED
  BY <1>4, <1>7 DEF Flat

(* So a step that takes one, or gives one back, keeps the invariant.       *)
LEMMA LooseStep ==
  ASSUME NEW may, Inv(may), TypeOK', NEW x, Loose(x), Renews(x),
         \A u \in Threads : Marks(pc[u], loc[u]) =>
           /\ Marks(pc'[u], loc'[u])
           /\ loc'[u].x = loc[u].x /\ loc'[u].m = loc[u].m /\ loc'[u].i = loc[u].i,
         \A u \in Threads : Marks(pc'[u], loc'[u]) =>
           \/ Marks(pc[u], loc[u])
           \/ loc'[u].m = x,
         \A u \in Threads, y \in Items : Owns(pc'[u], loc'[u], y) =>
           Owns(pc[u], loc[u], y) \/ y = x,
         \A u, v \in Threads : Owns(pc'[u], loc'[u], x) /\ Owns(pc'[v], loc'[v], x) => u = v,
         NEW g, g = Grown(may),
         \A u \in Threads : \/ pc'[u] = pc[u] /\ loc'[u] = loc[u]
                            \/ ThreadInv(g, u)'
  PROVE  Inv(g)' /\ Follows(may, g)
<1>0. inside' = inside /\ guards' = guards /\ height' = height /\ x \in Items /\ height \in Levels
  BY DEF Renews, Loose, Inv, TypeOK
<1>1. /\ \A l \in Levels : On(next, l)' = On(next, l) /\ Line(l)' = Line(l)
      /\ Nodal' /\ OneBehind' /\ Lower' /\ Towers' /\ HeadIs'
  BY LooseLine
<1>2. /\ \A l \in Levels : x \notin Line(l) /\ \A n \in Line(l) : next[n][l] # x
      /\ \A u \in Threads : ~Owns(pc[u], loc[u], x)
      /\ \A u \in Threads, l \in Levels : <<x, l>> \notin may[u]
      /\ \A u \in Threads, n \in Nodes, l \in Levels :
           <<n, l>> \in may[u] /\ n \notin Line(l) => next[n][l] # x
  BY LooseFacts
<1>3. next \in [Nodes -> [Levels -> Items \cup {Null}]]
  BY DEF Inv, TypeOK
<1>4. \A l \in Levels : Line(l) \subseteq Nodes /\ On(next, l) \subseteq Items
  BY LineFacts DEF Inv
<1>5. NextIs'
  <2>1. ASSUME NEW l \in Levels, NEW n \in Line(l)
        PROVE  /\ next'[n][l] = next[n][l]
               /\ next[n][l] # Null => /\ state'[next[n][l]] = "linked"
                                       /\ info'[next[n][l]].marker = info[next[n][l]].marker
    <3>1. n \in Nodes \ {x} /\ next[n][l] \in Items \cup {Null} /\ next[n][l] # x
      BY <1>2, <1>3, <1>4
    <3>2. next[n][l] # Null => state[next[n][l]] = "linked"
      BY DEF Inv, ListInv, NextIs
    <3> QED
      BY <3>1, <3>2 DEF Renews, Nodes
  <2> QED
    BY <1>1, <2>1, NextKeeps
<1>6. Apart'
  BY <1>2, ApartKeeps
<1>7. ASSUME NEW u \in Threads PROVE Sees(u)
  <2> SUFFICES ASSUME NEW n \in Nodes, Safe(u, n)
               PROVE  Safe(u, n)' /\ info'[n] = info[n]
    BY DEF Sees
  <2>1. n # x
    BY DEF Loose
  <2>2. n \in Items => state'[n] = state[n]
    BY <2>1 DEF Renews
  <2> QED
    BY <1>0, <2>1, <2>2 DEF Renews, Safe
<1>8. ASSUME NEW u \in Threads, NEW n \in Nodes, NEW l \in Levels,
             <<n, l>> \in may[u], n \notin Line(l)
      PROVE  StaysGone(u, n, l)
  <2> PICK y : y = next[n][l]
    OBVIOUS
  <2>1. n # x /\ y # x /\ y \in Items
    <3>1. Gone(u, n, l)
      BY <1>8, MayFacts
    <3>2. y \in Items \cup {Null}
      BY <1>3
    <3> QED
      BY <1>2, <1>8, <3>1, <3>2 DEF Gone
  <2>2. next'[n][l] = y /\ next'[y][l] = next[y][l]
    BY <2>1 DEF Renews, Nodes
  <2>3. \A v \in Threads : Marks(pc'[v], loc'[v]) /\ y = loc'[v].m =>
          Marks(pc[v], loc[v]) /\ y = loc[v].m /\ loc'[v].x = loc[v].x
    BY <2>1
  <2> QED
    BY <1>7, <1>8, <2>2, <2>3, GoneStays
<1>9. ASSUME NEW u \in Threads PROVE ThreadInv(g, u)'
  <2> SUFFICES ASSUME pc'[u] = pc[u], loc'[u] = loc[u] PROVE ThreadInv(g, u)'
    OBVIOUS
  <2>1. Undisturbed(u)
    <3>1. \A y \in Items : Owns(pc[u], loc[u], y) =>
            state'[y] = state[y] /\ info'[y] = info[y] /\ next'[y] = next[y]
      BY <1>2 DEF Renews, Nodes
    <3> QED
      BY <1>1, <3>1, LetAlone DEF Inv
  <2>2. may[u] \subseteq g[u]
    BY <1>0 DEF Grown, Inv, Ghost
  <2>3. height' >= height
    BY <1>0, BoundAssumption DEF Levels
  <2>4. \A n \in Nodes : Safe(u, n) => Safe(u, n)' /\ info'[n].lvl = info[n].lvl
    BY <1>7 DEF Sees
  <2> QED
    BY <1>0, <2>1, <2>2, <2>3, <2>4, OtherThread
<1> QED
  BY <1>1, <1>5, <1>6, <1>8, <1>9, CalmStep

(* A retired node is taken back.                                           *)
LEMMA ReclaimInv ==
  ASSUME NEW may, Inv(may), NEW x \in Items, Reclaim(x)
  PROVE  (\E g : Inv(g)' /\ Follows(may, g)) /\ Flat
<1>1. /\ state[x] = "retired" /\ guards[x] = {} /\ state' = [state EXCEPT ![x] = "free"]
      /\ info' = [info EXCEPT ![x] = NoInfo] /\ next' = [next EXCEPT ![x] = Nowhere]
      /\ UNCHANGED <<inside, guards, dupl, height, incr_key, num, pc, loc, todo, recs, seen>>
  BY DEF Reclaim, Pool!Reclaim, fields, hist
<1>2. TypeOK
  BY DEF Inv
<1>3. TypeOK'
  <2>1. state' \in [Items -> {"free", "linked", "retired"}]
    BY <1>1, <1>2 DEF TypeOK
  <2>2. next' \in [Nodes -> [Levels -> Items \cup {Null}]]
    BY <1>1, <1>2, LocalsBlank DEF TypeOK
  <2>3. info' \in [Nodes -> [key : Keys \cup {0}, incr : Nat, lvl : 0 .. MaxHeight,
                             marker : BOOLEAN, deleting : BOOLEAN, inserting : BOOLEAN]]
    <3>1. NoInfo \in [key : Keys \cup {0}, incr : Nat, lvl : 0 .. MaxHeight,
                      marker : BOOLEAN, deleting : BOOLEAN, inserting : BOOLEAN]
      BY LocalsBlank DEF NoInfo
    <3> QED
      BY <1>1, <1>2, <3>1 DEF TypeOK
  <2> QED
    BY <1>1, <1>2, <2>1, <2>2, <2>3 DEF TypeOK
<1>4. Loose(x)
  BY <1>1, NodeAssumption DEF Loose, Safe
<1>5. Renews(x)
  <2>1. /\ state \in [Items -> {"free", "linked", "retired"}]
        /\ next \in [Nodes -> [Levels -> Items \cup {Null}]]
        /\ info \in [Nodes -> [key : Keys \cup {0}, incr : Nat, lvl : 0 .. MaxHeight,
                               marker : BOOLEAN, deleting : BOOLEAN, inserting : BOOLEAN]]
    BY <1>2 DEF TypeOK
  <2> QED
    BY <1>1, <2>1 DEF Renews
<1> PICK g : g = Grown(may)
  OBVIOUS
<1>6. Inv(g)' /\ Follows(may, g)
  <2>1. \A u \in Threads : ~Owns(pc[u], loc[u], x)
    BY <1>4, LooseFacts
  <2> QED
    BY <1>1, <1>3, <1>4, <1>5, <2>1, LooseStep
<1> QED
  BY <1>3, <1>4, <1>5, <1>6, LooseLine

(* A new node is nobody's yet.                                             *)
LEMMA NewNodeFacts ==
  ASSUME TypeOK, NEW x, NEW r, NewNode(x, r), NEW v,
         v = [r EXCEPT !.incr = IF dupl THEN incr_key ELSE 0],
         v \in [key : Keys \cup {0}, incr : Nat, lvl : 0 .. MaxHeight,
                marker : BOOLEAN, deleting : BOOLEAN, inserting : BOOLEAN]
  PROVE  /\ Loose(x) /\ Renews(x) /\ x \in Items /\ x # Null /\ state'[x] = "linked"
         /\ info'[x] = v /\ next'[x] = Nowhere
         /\ state' \in [Items -> {"free", "linked", "retired"}]
         /\ next' \in [Nodes -> [Levels -> Items \cup {Null}]]
         /\ info' \in [Nodes -> [key : Keys \cup {0}, incr : Nat, lvl : 0 .. MaxHeight,
                                 marker : BOOLEAN, deleting : BOOLEAN, inserting : BOOLEAN]]
         /\ UNCHANGED <<inside, guards, dupl, height, num>> /\ incr_key' \in Nat
<1>1. /\ x \in Items /\ state[x] = "free" /\ state' = [state EXCEPT ![x] = "linked"]
      /\ info' = [info EXCEPT ![x] = v] /\ next' = [next EXCEPT ![x] = Nowhere]
      /\ incr_key' = IF dupl THEN incr_key + 1 ELSE incr_key
      /\ UNCHANGED <<inside, guards, dupl, height, num>>
  BY DEF NewNode, Pool!Publish
<1>2. /\ state \in [Items -> {"free", "linked", "retired"}]
      /\ next \in [Nodes -> [Levels -> Items \cup {Null}]]
      /\ info \in [Nodes -> [key : Keys \cup {0}, incr : Nat, lvl : 0 .. MaxHeight,
                             marker : BOOLEAN, deleting : BOOLEAN, inserting : BOOLEAN]]
      /\ incr_key \in Nat
  BY DEF TypeOK
<1>3. Loose(x)
  BY <1>1, NodeAssumption DEF Loose, Safe
<1>4. Renews(x)
  BY <1>1, <1>2 DEF Renews
<1>5. /\ state' \in [Items -> {"free", "linked", "retired"}] /\ state'[x] = "linked"
  BY <1>1, <1>2
<1>6. next' \in [Nodes -> [Levels -> Items \cup {Null}]] /\ next'[x] = Nowhere
  BY <1>1, <1>2, LocalsBlank DEF Nodes
<1>7. /\ info' \in [Nodes -> [key : Keys \cup {0}, incr : Nat, lvl : 0 .. MaxHeight,
                              marker : BOOLEAN, deleting : BOOLEAN, inserting : BOOLEAN]]
      /\ info'[x] = v
  BY <1>1, <1>2 DEF Nodes
<1>8. incr_key' \in Nat
  BY <1>1, <1>2
<1> QED
  BY <1>1, <1>3, <1>4, <1>5, <1>6, <1>7, <1>8, NodeAssumption

(* An insert makes its node.                                               *)
LEMMA InsertNewInv ==
  ASSUME NEW may, Inv(may), NEW t \in Threads, InsertNew(t)
  PROVE  (\E g : Inv(g)' /\ Follows(may, g)) /\ Flat
<1> PICK x : x = FreeItem
  OBVIOUS
<1> PICK r : r = loc[t]
  OBVIOUS
<1> DEFINE w == [NoInfo EXCEPT !.key = loc[t].key, !.lvl = loc[t].lvl, !.inserting = TRUE]
           v == [w EXCEPT !.incr = IF dupl THEN incr_key ELSE 0]
           s == [r EXCEPT !.x = x, !.lvl = 0]
<1>1. /\ TypeOK /\ ThreadOK(may, t, "new", r) /\ pc[t] = "new" /\ r \in Locals
      /\ pc \in [Threads -> PCs] /\ loc \in [Threads -> Locals]
      /\ NewNode(x, w) /\ pc' = [pc EXCEPT ![t] = "enter"]
      /\ UNCHANGED <<todo, recs, seen>>
  BY LocalsTyped DEF Inv, ThreadInv, InsertNew, Goto, hist
<1>2. /\ r.op = "insert" /\ t \notin inside /\ r.key \in Keys /\ r.lvl \in Levels
      /\ r.lvl <= height /\ r.x = Null /\ r.i = 0 /\ r.m = Null
      /\ r.prev = Nowhere /\ r.fwd = Nowhere /\ r.at = Null
  BY <1>1 DEF ThreadOK, Local, InsertOnly
<1>3. /\ v.key = r.key /\ v.lvl = r.lvl /\ v.inserting /\ ~v.deleting /\ ~v.marker
      /\ v \in [key : Keys \cup {0}, incr : Nat, lvl : 0 .. MaxHeight,
                marker : BOOLEAN, deleting : BOOLEAN, inserting : BOOLEAN]
  <2>1. /\ r.lvl \in 0 .. MaxHeight
        /\ (IF dupl THEN incr_key ELSE 0) \in Nat
    BY <1>1 DEF TypeOK, Locals
  <2> QED
    BY <1>2, <2>1 DEF NoInfo
<1> HIDE DEF v
<1>4. /\ Loose(x) /\ Renews(x) /\ x \in Items /\ x # Null /\ state'[x] = "linked"
      /\ info'[x] = v
      /\ state' \in [Items -> {"free", "linked", "retired"}]
      /\ next' \in [Nodes -> [Levels -> Items \cup {Null}]]
      /\ info' \in [Nodes -> [key : Keys \cup {0}, incr : Nat, lvl : 0 .. MaxHeight,
                              marker : BOOLEAN, deleting : BOOLEAN, inserting : BOOLEAN]]
      /\ UNCHANGED <<inside, guards, dupl, height, num>> /\ incr_key' \in Nat
  <2>1. v = [w EXCEPT !.incr = IF dupl THEN incr_key ELSE 0]
    BY DEF v
  <2> HIDE DEF w
  <2> QED
    BY <1>1, <1>3, <2>1, NewNodeFacts
<1>5. loc' = [loc EXCEPT ![t] = s]
  BY <1>1 DEF InsertNew, Locals
<1>6. /\ s \in Locals
      /\ s.op = "insert" /\ s.key = r.key /\ s.x = x /\ s.i = 0 /\ s.m = Null
      /\ s.prev = Nowhere /\ s.fwd = Nowhere /\ s.at = Null
  BY <1>1, <1>2, <1>4, LocalsBlank DEF Locals
<1> HIDE DEF s
<1>7. TypeOK'
  <2>1. pc' \in [Threads -> PCs] /\ loc' \in [Threads -> Locals]
    BY <1>1, <1>5, <1>6 DEF PCs
  <2> QED
    BY <1>1, <1>4, <2>1 DEF TypeOK, Locals
<1>8. /\ pc'[t] = "enter" /\ loc'[t] = s
       /\ \A u \in Threads : u # t => pc'[u] = pc[u] /\ loc'[u] = loc[u]
  BY <1>1, <1>5
<1>9. /\ ~Marks("new", r) /\ ~Marks("enter", s) /\ ~Takes("enter", s) /\ ~HasMark("enter", s)
      /\ \A y : Owns("enter", s, y) => y = x
  BY <1>2, <1>6 DEF Marks, Takes, HasMark, Owns
<1>10. \A l \in Levels : On(next, l)' = On(next, l) /\ x \notin On(next, l)
  BY <1>4, <1>7, LooseLine, LooseFacts DEF Line
<1> PICK g : g = Grown(may)
  OBVIOUS
<1>11. ThreadInv(g, t)'
  <2>1. PutOK("enter", s)'
    <3>1. \A l \in Levels : ~(l < 0)
      BY DEF Levels
    <3> QED
      BY <1>2, <1>3, <1>4, <1>6, <1>10, <3>1 DEF PutOK, SearchPCs
  <2>2. TakeOK("enter", s)' /\ MarkOK("enter", s)'
    BY <1>9 DEF TakeOK, MarkOK
  <2>3. Local(t, "enter", s)'
    BY <1>2, <1>4, <1>6 DEF Local, InsertOnly, DeleteOnly
  <2>4. About("enter", s)
    BY <1>4, <1>6 DEF About
  <2>5. Held(g, t, "enter", s)'
    BY <1>2, <1>4 DEF Held
  <2> QED
    BY <1>8, <2>1, <2>2, <2>3, <2>4, <2>5 DEF ThreadInv, ThreadOK
<1>12. /\ \A u \in Threads : Marks(pc[u], loc[u]) =>
            /\ Marks(pc'[u], loc'[u])
            /\ loc'[u].x = loc[u].x /\ loc'[u].m = loc[u].m /\ loc'[u].i = loc[u].i
       /\ \A u \in Threads : Marks(pc'[u], loc'[u]) =>
            Marks(pc[u], loc[u]) \/ loc'[u].m = x
       /\ \A u \in Threads, y \in Items : Owns(pc'[u], loc'[u], y) =>
            Owns(pc[u], loc[u], y) \/ y = x
       /\ \A u, z \in Threads : Owns(pc'[u], loc'[u], x) /\ Owns(pc'[z], loc'[z], x) => u = z
  <2>1. \A u \in Threads : ~Owns(pc[u], loc[u], x)
    BY <1>4, LooseFacts
  <2> QED
    BY <1>1, <1>8, <1>9, <2>1
<1>13. \A u \in Threads : \/ pc'[u] = pc[u] /\ loc'[u] = loc[u]
                         \/ ThreadInv(g, u)'
  BY <1>8, <1>11
<1>14. Inv(g)' /\ Follows(may, g)
  BY <1>4, <1>7, <1>12, <1>13, LooseStep
<1> QED
  BY <1>4, <1>7, <1>14, LooseLine

(* A delete makes its marker.                                              *)
LEMMA DeleteMarkerInv ==
  ASSUME NEW may, Inv(may), NEW t \in Threads, DeleteMarker(t)
  PROVE  (\E g : Inv(g)' /\ Follows(may, g)) /\ Flat
<1> PICK m : m = FreeItem
  OBVIOUS
<1> PICK r, x, i : r = loc[t] /\ x = r.x /\ i = info[x].lvl
  OBVIOUS
<1> DEFINE w == [NoInfo EXCEPT !.lvl = info[loc[t].x].lvl, !.marker = TRUE]
           v == [w EXCEPT !.incr = IF dupl THEN incr_key ELSE 0]
           s == [r EXCEPT !.m = m, !.i = i]
<1>1. /\ TypeOK /\ ThreadOK(may, t, "marker", r) /\ pc[t] = "marker" /\ r \in Locals
      /\ pc \in [Threads -> PCs] /\ loc \in [Threads -> Locals]
      /\ NewNode(m, w) /\ pc' = [pc EXCEPT ![t] = "prev"]
      /\ UNCHANGED <<todo, recs, seen>>
  BY LocalsTyped DEF Inv, ThreadInv, DeleteMarker, Goto, hist
<1>2. /\ r.op = "delete" /\ t \in inside /\ r.key \in Keys /\ Takes("marker", r)
      /\ TakeOK("marker", r) /\ About("marker", r) /\ Held(may, t, "marker", r)
  BY <1>1 DEF ThreadOK, Local, DeleteOnly, Takes
<1>3. /\ x # Null /\ state[x] = "linked" /\ x \in Items /\ x \in Nodes
      /\ info[x].deleting /\ ~info[x].inserting /\ ~info[x].marker
      /\ i \in Levels /\ \A l \in 1 .. i : x \in On(next, l)
      /\ r.m = Null
  BY <1>1, <1>2 DEF TakeOK, About, Locals, Nodes
<1>4. /\ i \in 0 .. MaxHeight /\ i \in 0 .. MaxHeight + 1 /\ i # 0 /\ i \in 1 .. i
      /\ \A l \in Levels : x \in On(next, l) <=> l <= i
  <2>1. \A l \in Levels : l <= i <=> l \in 1 .. i
    BY <1>3 DEF Levels
  <2>2. \A l \in Levels : x \in On(next, l) => l <= i
    BY DEF Inv, ListInv, Nodal
  <2>3. i \in 0 .. MaxHeight /\ i \in 0 .. MaxHeight + 1 /\ i # 0 /\ i \in 1 .. i
    BY <1>3, BoundAssumption DEF Levels
  <2> QED
    BY <1>3, <2>1, <2>2, <2>3
<1>5. /\ v.marker
      /\ v \in [key : Keys \cup {0}, incr : Nat, lvl : 0 .. MaxHeight,
                marker : BOOLEAN, deleting : BOOLEAN, inserting : BOOLEAN]
  <2>1. (IF dupl THEN incr_key ELSE 0) \in Nat
    BY <1>1 DEF TypeOK
  <2> QED
    BY <1>4, <2>1 DEF NoInfo
<1> HIDE DEF v
<1>6. /\ Loose(m) /\ Renews(m) /\ m \in Items /\ m # Null /\ state'[m] = "linked"
      /\ info'[m] = v
      /\ state' \in [Items -> {"free", "linked", "retired"}]
      /\ next' \in [Nodes -> [Levels -> Items \cup {Null}]]
      /\ info' \in [Nodes -> [key : Keys \cup {0}, incr : Nat, lvl : 0 .. MaxHeight,
                              marker : BOOLEAN, deleting : BOOLEAN, inserting : BOOLEAN]]
      /\ UNCHANGED <<inside, guards, dupl, height, num>> /\ incr_key' \in Nat
  <2>1. v = [w EXCEPT !.incr = IF dupl THEN incr_key ELSE 0]
    BY DEF v
  <2> HIDE DEF w
  <2> QED
    BY <1>1, <1>5, <2>1, NewNodeFacts
<1>7. loc' = [loc EXCEPT ![t] = s]
  BY <1>1 DEF DeleteMarker, Locals
<1>8. /\ s \in Locals
      /\ s.op = "delete" /\ s.key = r.key /\ s.x = x /\ s.i = i /\ s.m = m
      /\ s.prev = r.prev /\ s.fwd = r.fwd /\ s.at = r.at /\ s.lvl = r.lvl
  BY <1>1, <1>2, <1>4, <1>6 DEF Locals
<1> HIDE DEF s
<1>9. TypeOK'
  <2>1. pc' \in [Threads -> PCs] /\ loc' \in [Threads -> Locals]
    BY <1>1, <1>7, <1>8 DEF PCs
  <2> QED
    BY <1>1, <1>6, <2>1 DEF TypeOK, Locals
<1>10. /\ pc'[t] = "prev" /\ loc'[t] = s
        /\ \A u \in Threads : u # t => pc'[u] = pc[u] /\ loc'[u] = loc[u]
  BY <1>1, <1>7
<1>11. /\ ~Marks("marker", r) /\ Marks("prev", s) /\ Takes("prev", s) /\ HasMark("prev", s)
       /\ ~Puts("prev", s) /\ Owns("marker", r, x)
       /\ \A y : Owns("prev", s, y) => y = x \/ y = m
  BY <1>2, <1>3, <1>6, <1>8 DEF Marks, Takes, HasMark, Owns, Puts, TakePCs, PutPCs, SearchPCs
<1>12. /\ \A l \in Levels : On(next, l)' = On(next, l) /\ \A n \in On(next, l) : next[n][l] # m
       /\ x # m
  BY <1>3, <1>6, <1>9, LooseLine, LooseFacts DEF Line, Loose
<1>13. info'[x] = info[x] /\ next'[x] = next[x] /\ state'[x] = state[x] /\ next[x][i] # m
  BY <1>3, <1>4, <1>6, <1>12 DEF Renews
<1> PICK g : g = Grown(may)
  OBVIOUS
<1>14. ThreadInv(g, t)'
  <2>1. PutOK("prev", s)'
    BY <1>11 DEF PutOK
  <2>2. TakeOK("prev", s)'
    BY <1>3, <1>8, <1>13 DEF TakeOK
  <2>3. MarkOK("prev", s)'
    <3>1. i <= info[x].lvl
      BY <1>3 DEF Levels
    <3> QED
      BY <1>4, <1>5, <1>6, <1>8, <1>12, <1>13, <3>1 DEF MarkOK
  <2>4. Local(t, "prev", s)'
    BY <1>2, <1>6, <1>8 DEF Local, InsertOnly, DeleteOnly
  <2>5. About("prev", s)
    BY <1>3, <1>6, <1>8 DEF About, TakePCs
  <2>6. Held(g, t, "prev", s)'
    <3>1. may[t] \subseteq g[t]
      BY <1>2, <1>6 DEF Grown
    <3>2. ~Puts("marker", r)
      BY DEF Puts, PutPCs, SearchPCs
    <3>3. Safe(t, m)'
      BY <1>6 DEF Safe
    <3> QED
      BY <1>2, <1>8, <3>1, <3>2, <3>3 DEF Held
  <2> QED
    BY <1>10, <2>1, <2>2, <2>3, <2>4, <2>5, <2>6 DEF ThreadInv, ThreadOK
<1>15. /\ \A u \in Threads : Marks(pc[u], loc[u]) =>
            /\ Marks(pc'[u], loc'[u])
            /\ loc'[u].x = loc[u].x /\ loc'[u].m = loc[u].m /\ loc'[u].i = loc[u].i
       /\ \A u \in Threads : Marks(pc'[u], loc'[u]) =>
            Marks(pc[u], loc[u]) \/ loc'[u].m = m
       /\ \A u \in Threads, y \in Items : Owns(pc'[u], loc'[u], y) =>
            Owns(pc[u], loc[u], y) \/ y = m
       /\ \A u, z \in Threads : Owns(pc'[u], loc'[u], m) /\ Owns(pc'[z], loc'[z], m) => u = z
  <2>1. \A u \in Threads : ~Owns(pc[u], loc[u], m)
    BY <1>6, LooseFacts
  <2> QED
    BY <1>1, <1>8, <1>10, <1>11, <2>1
<1>16. \A u \in Threads : \/ pc'[u] = pc[u] /\ loc'[u] = loc[u]
                         \/ ThreadInv(g, u)'
  BY <1>10, <1>14
<1>17. Inv(g)' /\ Follows(may, g)
  BY <1>6, <1>9, <1>15, <1>16, LooseStep
<1> QED
  BY <1>6, <1>9, <1>17, LooseLine
-----------------------------------------------------------------------------
(* Nodes are given back to the pool. *)

(* A node that is on no level is given to the pool.                        *)
LEMMA RetireStep ==
  ASSUME NEW may, Inv(may), NEW t \in Threads, NEW x \in Items, Pool!Retire(x),
         UNCHANGED <<listVars, todo, hist>>, NEW q \in PCs, NEW s \in Locals,
         pc' = [pc EXCEPT ![t] = q], loc' = [loc EXCEPT ![t] = s],
         Owns(pc[t], loc[t], x), \A l \in Levels : x \notin On(next, l),
         Marks(pc[t], loc[t]) => loc[t].i \notin Levels,
         ~Marks(q, s), \A y \in Items : Owns(q, s, y) => Owns(pc[t], loc[t], y),
         NEW g, g = Grown(may), ThreadInv(g, t)'
  PROVE  Inv(g)' /\ Follows(may, g)
<1>1. /\ TypeOK /\ pc \in [Threads -> PCs] /\ loc \in [Threads -> Locals] /\ height \in Levels
      /\ guards \in [Items -> SUBSET Threads] /\ inside \subseteq Threads
      /\ state \in [Items -> {"free", "linked", "retired"}]
      /\ next \in [Nodes -> [Levels -> Items \cup {Null}]]
  BY LocalsTyped DEF Inv, TypeOK
<1>2. /\ inside' = inside /\ state[x] = "linked" /\ state' = [state EXCEPT ![x] = "retired"]
      /\ guards' = [guards EXCEPT ![x] = inside]
      /\ UNCHANGED <<dupl, height, incr_key, num, next, info, todo, recs, seen>>
  BY DEF Pool!Retire, listVars, fields, hist
<1>3. TypeOK'
  <2>1. pc' \in [Threads -> PCs] /\ loc' \in [Threads -> Locals]
    BY <1>1
  <2>2. guards' \in [Items -> SUBSET Threads]
    BY <1>1, <1>2
  <2>3. state' \in [Items -> {"free", "linked", "retired"}]
    BY <1>1, <1>2
  <2> QED
    BY <1>1, <1>2, <2>1, <2>2, <2>3 DEF TypeOK, Locals
<1>4. /\ state'[x] = "retired" /\ guards'[x] = inside
      /\ \A n \in Items : n # x => state'[n] = state[n] /\ guards'[n] = guards[n]
  BY <1>1, <1>2
<1>5. pc'[t] = q /\ loc'[t] = s /\ \A u \in Threads : u # t => pc'[u] = pc[u] /\ loc'[u] = loc[u]
  BY <1>1
<1>6. \A u \in Threads :
        /\ Marks(pc'[u], loc'[u]) => Marks(pc[u], loc[u]) /\ u # t
        /\ Marks(pc[u], loc[u]) /\ loc[u].i \in Levels => Marks(pc'[u], loc'[u]) /\ u # t
        /\ u # t => loc'[u].x = loc[u].x /\ loc'[u].m = loc[u].m /\ loc'[u].i = loc[u].i
        /\ \A y \in Items : Owns(pc'[u], loc'[u], y) => Owns(pc[u], loc[u], y)
  BY <1>5
<1>7. \A u \in inside, n \in Nodes : Safe(u, n) => Safe(u, n)'
  BY <1>2, <1>4 DEF Safe
<1>8. \A u \in Threads : u # t => ~Owns(pc[u], loc[u], x)
  BY DEF Inv, ListInv, Apart
<1>9. \A l \in Levels : \A n \in Line(l) :
        n \in Nodes /\ next[n][l] \in Items \cup {Null} /\ next[n][l] # x
  <2> SUFFICES ASSUME NEW l \in Levels, NEW n \in Line(l)
               PROVE  n \in Nodes /\ next[n][l] \in Items \cup {Null} /\ next[n][l] # x
    OBVIOUS
  <2>1. n \in Nodes /\ next[n][l] \in Items \cup {Null}
    BY <1>1, LineFacts
  <2>2. ASSUME next[n][l] = x PROVE FALSE
    <3>1. CASE info[x].marker
      <4>1. PICK u \in Threads : Marks(pc[u], loc[u]) /\ x = loc[u].m /\ l = loc[u].i
        BY <2>2, <3>1, NodeAssumption DEF Inv, ListInv, NextIs
      <4>2. u # t
        BY <4>1
      <4>3. Owns(pc[u], loc[u], x)
        BY <4>1 DEF Owns, HasMark
      <4> QED
        BY <1>8, <4>2, <4>3
    <3>2. CASE ~info[x].marker
      <4>1. After(n, l) = x
        BY <2>2, <3>2 DEF After, Behind
      <4> QED
        BY <1>1, <4>1, LineFacts, NodeAssumption
    <3> QED
      BY <3>1, <3>2
  <2> QED
    BY <2>1, <2>2
<1>10. /\ \A l \in Levels : On(next, l)' = On(next, l) /\ Line(l)' = Line(l)
       /\ Nodal' /\ OneBehind' /\ Lower' /\ Towers' /\ HeadIs'
  <2>1. \A n, l : After(n, l)' = After(n, l)
    BY <1>2 DEF After, Behind
  <2>2. \A l \in Levels : \A n \in On(next, l) : n \in Items /\ n # x /\ state[n] = "linked"
    BY DEF Inv, ListInv, Nodal
  <2>3. \A l \in Levels : \A n \in On(next, l) : state'[n] = "linked"
    BY <1>4, <2>2
  <2> QED
    BY <1>2, <1>3, <2>1, <2>3, LineKeeps
<1>11. NextIs'
  <2>1. \A l \in Levels : \A n \in Line(l) :
          next[n][l] # Null => state[next[n][l]] = "linked"
    BY DEF Inv, ListInv, NextIs
  <2>2. \A l \in Levels : \A n \in Line(l) :
          next[n][l] # Null => state'[next[n][l]] = "linked"
    BY <1>4, <1>9, <2>1
  <2> QED
    BY <1>2, <1>6, <1>10, <2>2, NextKeeps
<1>12. Apart'
  BY <1>6, ApartKeeps
<1>13. ASSUME NEW u \in inside, u \in Threads, NEW n \in Nodes, NEW l \in Levels,
              <<n, l>> \in may[u], n \notin Line(l)
       PROVE  StaysGone(u, n, l)
  <2>1. Sees(u)
    BY <1>2, <1>7 DEF Sees
  <2> QED
    BY <1>2, <1>6, <1>13, <2>1, GoneStays
<1>14. ASSUME NEW u \in Threads, u # t PROVE ThreadInv(g, u)'
  <2>1. Undisturbed(u)
    <3>1. \A y \in Items : Owns(pc[u], loc[u], y) => state'[y] = state[y]
      BY <1>4, <1>8, <1>14
    <3> QED
      BY <1>1, <1>2, <1>10, <3>1, LetAlone
  <2>2. may[u] \subseteq g[u]
    BY <1>2 DEF Grown, Inv, Ghost
  <2>3. height' >= height
    BY <1>1, <1>2, BoundAssumption DEF Levels
  <2> QED
    BY <1>2, <1>3, <1>5, <1>7, <1>14, <2>1, <2>2, <2>3, OtherThread
<1>15. \A u \in Threads : ThreadInv(g, u)'
  BY <1>14
<1> QED
  BY <1>2, <1>3, <1>10, <1>11, <1>12, <1>13, <1>15, CalmStep

(* An insert that has found its key frees its node.                        *)
LEMMA InsertDupFreeInv ==
  ASSUME NEW may, Inv(may), NEW t \in Threads, InsertDupFree(t)
  PROVE  \E g : Inv(g)' /\ Follows(may, g)
<1> PICK r, x : r = loc[t] /\ x = r.x
  OBVIOUS
<1> DEFINE s == [r EXCEPT !.x = Null]
<1>1. /\ TypeOK /\ ThreadOK(may, t, "dup_free", r) /\ pc[t] = "dup_free" /\ r \in Locals
      /\ pc \in [Threads -> PCs] /\ loc \in [Threads -> Locals]
  BY LocalsTyped DEF Inv, ThreadInv, InsertDupFree, Goto
<1>2. /\ Pool!Retire(x) /\ UNCHANGED <<listVars, todo, hist>> /\ inside' = inside
      /\ pc' = [pc EXCEPT ![t] = "leave"]
  BY DEF InsertDupFree, Goto, Pool!Retire
<1>3. loc' = [loc EXCEPT ![t] = s]
  BY <1>1 DEF InsertDupFree, Locals
<1>4. /\ r.op = "insert" /\ r.x # Null /\ r.m = Null /\ t \in inside /\ r.key \in Keys
      /\ Puts("dup_free", r) /\ x \in Items
  BY <1>1 DEF ThreadOK, Local, About, InsertOnly, Puts, PutPCs, Locals
<1>5. /\ s \in Locals
      /\ s.op = "insert" /\ s.key = r.key /\ s.x = Null /\ s.i = r.i /\ s.m = Null
      /\ s.prev = r.prev /\ s.fwd = r.fwd /\ s.at = r.at
  BY <1>1, <1>4 DEF Locals
<1> HIDE DEF s
<1>6. /\ ~Marks("leave", s) /\ ~Takes("leave", s) /\ ~HasMark("leave", s) /\ ~Puts("leave", s)
      /\ ~Marks("dup_free", r)
  BY <1>4, <1>5 DEF Marks, Takes, HasMark, Puts
<1>7. \A l \in Levels : x \notin On(next, l)
  <2>1. r.i = 0 /\ \A l \in Levels : x \in On(next, l) <=> l < r.i
    BY <1>1, <1>4 DEF ThreadOK, PutOK
  <2> QED
    BY <2>1 DEF Levels
<1> PICK g : g = Grown(may)
  OBVIOUS
<1>8. ThreadInv(g, t)'
  <2>1. PutOK("leave", s)' /\ TakeOK("leave", s)' /\ MarkOK("leave", s)'
    BY <1>6 DEF PutOK, TakeOK, MarkOK
  <2>2. Local(t, "leave", s)'
    BY <1>2, <1>4, <1>5 DEF Local, InsertOnly, DeleteOnly
  <2>3. About("leave", s)
    BY <1>5 DEF About
  <2>4. Held(g, t, "leave", s)'
    <3>1. may[t] \subseteq g[t] /\ Held(may, t, "dup_free", r)
      BY <1>1, <1>2, <1>4 DEF Grown, ThreadOK
    <3> QED
      BY <1>4, <1>5, <3>1 DEF Held
  <2>5. pc'[t] = "leave" /\ loc'[t] = s
    BY <1>1, <1>2, <1>3
  <2> QED
    BY <2>1, <2>2, <2>3, <2>4, <2>5 DEF ThreadInv, ThreadOK
<1>9. Inv(g)' /\ Follows(may, g)
  <2>1. "leave" \in PCs /\ Owns("dup_free", r, x)
    BY <1>4 DEF PCs, Owns
  <2>2. \A y \in Items : ~Owns("leave", s, y)
    BY <1>6 DEF Owns
  <2> QED
    BY <1>1, <1>2, <1>3, <1>4, <1>5, <1>6, <1>7, <1>8, <2>1, <2>2, RetireStep
<1> QED
  BY <1>9

(* A delete frees its node.                                                *)
LEMMA DeleteFreeInv ==
  ASSUME NEW may, Inv(may), NEW t \in Threads, DeleteFree(t)
  PROVE  \E g : Inv(g)' /\ Follows(may, g)
<1> PICK r, x : r = loc[t] /\ x = r.x
  OBVIOUS
<1> DEFINE s == [r EXCEPT !.prev = Nowhere, !.fwd = Nowhere]
<1>1. /\ TypeOK /\ ThreadOK(may, t, "free_x", r) /\ pc[t] = "free_x" /\ r \in Locals
      /\ pc \in [Threads -> PCs] /\ loc \in [Threads -> Locals]
  BY LocalsTyped DEF Inv, ThreadInv, DeleteFree, Goto
<1>2. /\ Pool!Retire(x) /\ UNCHANGED <<listVars, todo, hist>> /\ inside' = inside
      /\ state' = [state EXCEPT ![x] = "retired"] /\ UNCHANGED <<next, info>>
      /\ pc' = [pc EXCEPT ![t] = "free_m"]
  BY DEF DeleteFree, Goto, Pool!Retire, listVars
<1>3. loc' = [loc EXCEPT ![t] = s]
  BY <1>1 DEF DeleteFree, Locals
<1>4. /\ r.op = "delete" /\ r.m # Null /\ r.x # Null /\ t \in inside /\ r.key \in Keys
  <2>1. Local(t, "free_x", r) /\ About("free_x", r)
    BY <1>1 DEF ThreadOK
  <2>2. r.op = "delete" /\ t \in inside /\ r.key \in Keys
    BY <2>1 DEF Local, DeleteOnly
  <2> QED
    BY <2>1, <2>2 DEF About, SearchPCs
<1>5. /\ x \in Items /\ r.m \in Items
      /\ Marks("free_x", r) /\ Takes("free_x", r) /\ HasMark("free_x", r)
  BY <1>1, <1>4 DEF Marks, Takes, HasMark, TakePCs, Locals
<1>6. /\ s \in Locals
      /\ s.op = "delete" /\ s.key = r.key /\ s.x = x /\ s.i = r.i /\ s.m = r.m
      /\ s.prev = Nowhere /\ s.fwd = Nowhere /\ s.at = r.at
  BY <1>1, <1>4, LocalsBlank DEF Locals
<1> HIDE DEF s
<1>7. /\ ~Marks("free_m", s) /\ ~Takes("free_m", s) /\ ~Puts("free_m", s)
      /\ \A y : Owns("free_m", s, y) => y = r.m
  BY <1>6 DEF Marks, Takes, Puts, Owns, TakePCs, SearchPCs
<1>8. /\ state[r.m] = "linked" /\ info[r.m].marker /\ ~info[x].marker /\ r.i = 0
      /\ \A l \in Levels : x \in On(next, l) <=> l <= r.i
  BY <1>1, <1>5 DEF ThreadOK, MarkOK, TakeOK
<1>9. r.i \notin Levels /\ \A l \in Levels : x \notin On(next, l)
  BY <1>8 DEF Levels
<1>10. state'[r.m] = "linked" /\ info'[r.m].marker
  BY <1>1, <1>2, <1>5, <1>8 DEF TypeOK
<1> PICK g : g = Grown(may)
  OBVIOUS
<1>11. ThreadInv(g, t)'
  <2>1. PutOK("free_m", s)' /\ TakeOK("free_m", s)' /\ MarkOK("free_m", s)'
    BY <1>4, <1>6, <1>7, <1>10 DEF PutOK, TakeOK, MarkOK
  <2>2. Local(t, "free_m", s)'
    BY <1>2, <1>4, <1>6 DEF Local, InsertOnly, DeleteOnly
  <2>3. About("free_m", s)
    BY <1>4, <1>6 DEF About
  <2>4. Held(g, t, "free_m", s)'
    <3>1. may[t] \subseteq g[t] /\ Held(may, t, "free_x", r)
      BY <1>1, <1>2, <1>4 DEF Grown, ThreadOK
    <3>2. ~Puts("free_x", r)
      BY <1>4 DEF Puts
    <3>3. Safe(t, r.m)'
      BY <1>5, <1>10 DEF Safe
    <3> QED
      BY <1>4, <1>6, <3>1, <3>2, <3>3 DEF Held, Nowhere
  <2>5. pc'[t] = "free_m" /\ loc'[t] = s
    BY <1>1, <1>2, <1>3
  <2> QED
    BY <2>1, <2>2, <2>3, <2>4, <2>5 DEF ThreadInv, ThreadOK
<1>12. Inv(g)' /\ Follows(may, g)
  <2>1. "free_m" \in PCs /\ Owns("free_x", r, x) /\ Owns("free_x", r, r.m)
    BY <1>5 DEF PCs, Owns
  <2> QED
    BY <1>1, <1>2, <1>3, <1>5, <1>6, <1>7, <1>9, <1>11, <2>1, RetireStep
<1> QED
  BY <1>12

(* A delete frees its marker.                                              *)
LEMMA DeleteFreeMarkerInv ==
  ASSUME NEW may, Inv(may), NEW t \in Threads, DeleteFreeMarker(t)
  PROVE  \E g : Inv(g)' /\ Follows(may, g)
<1> PICK r, m : r = loc[t] /\ m = r.m
  OBVIOUS
<1>1. /\ TypeOK /\ ThreadOK(may, t, "free_m", r) /\ pc[t] = "free_m" /\ r \in Locals
      /\ pc \in [Threads -> PCs] /\ loc \in [Threads -> Locals]
  BY LocalsTyped DEF Inv, ThreadInv, DeleteFreeMarker, Goto
<1>2. /\ Pool!Retire(m) /\ UNCHANGED <<listVars, todo, hist>> /\ inside' = inside
      /\ state' = [state EXCEPT ![m] = "retired"] /\ guards' = [guards EXCEPT ![m] = inside]
      /\ UNCHANGED <<next, info>>
      /\ pc' = [pc EXCEPT ![t] = "num_sub"] /\ loc' = [loc EXCEPT ![t] = r]
  BY <1>1 DEF DeleteFreeMarker, Goto, Pool!Retire, listVars
<1>3. /\ r.op = "delete" /\ t \in inside /\ r.key \in Keys
      /\ HasMark("free_m", r) /\ ~Marks("free_m", r) /\ ~Marks("num_sub", r)
      /\ ~HasMark("num_sub", r) /\ ~Takes("num_sub", r) /\ ~Puts("num_sub", r)
  BY <1>1 DEF ThreadOK, Local, DeleteOnly, Marks, HasMark, Takes, Puts, TakePCs, SearchPCs
<1>4. /\ m # Null /\ m \in Items /\ info[m].marker
  BY <1>1, <1>3 DEF ThreadOK, MarkOK, Locals
<1>5. \A l \in Levels : m \notin On(next, l)
  BY <1>4 DEF Inv, ListInv, Nodal
<1> PICK g : g = Grown(may)
  OBVIOUS
<1>6. ThreadInv(g, t)'
  <2>1. PutOK("num_sub", r)' /\ TakeOK("num_sub", r)' /\ MarkOK("num_sub", r)'
    BY <1>3 DEF PutOK, TakeOK, MarkOK
  <2>2. Local(t, "num_sub", r)'
    BY <1>2, <1>3 DEF Local, InsertOnly, DeleteOnly
  <2>3. About("num_sub", r)
    BY <1>1, <1>3, <1>4 DEF ThreadOK, About
  <2>4. Held(g, t, "num_sub", r)'
    <3>1. may[t] \subseteq g[t] /\ Held(may, t, "free_m", r)
      BY <1>1, <1>2, <1>3 DEF Grown, ThreadOK
    <3>2. Safe(t, m)'
      <4>1. state'[m] = "retired" /\ guards'[m] = inside
        BY <1>1, <1>2, <1>4 DEF TypeOK
      <4> QED
        BY <1>3, <1>4, <4>1 DEF Safe
    <3>3. ~Puts("free_m", r)
      BY <1>3 DEF Puts
    <3> QED
      BY <1>2, <1>3, <3>1, <3>2, <3>3 DEF Held
  <2>5. pc'[t] = "num_sub" /\ loc'[t] = r
    BY <1>1, <1>2
  <2> QED
    BY <2>1, <2>2, <2>3, <2>4, <2>5 DEF ThreadInv, ThreadOK
<1>7. Inv(g)' /\ Follows(may, g)
  <2>1. "num_sub" \in PCs /\ Owns("free_m", r, m) /\ \A y \in Items : ~Owns("num_sub", r, y)
    BY <1>3 DEF PCs, Owns
  <2> QED
    BY <1>1, <1>2, <1>3, <1>4, <1>5, <1>6, <2>1, RetireStep
<1> QED
  BY <1>7
-----------------------------------------------------------------------------
(* Flags are set, and a thread writes to its own nodes. *)

(* The history keeps its type.                                             *)
LEMMA SeeTyped ==
  ASSUME TypeOK, NEW nx, NEW nf, See(nx, nf),
         \A x \in On(nx, 1) : x \in Items /\ nf[x].key \in Keys /\ nf[x].incr \in Nat
  PROVE  recs' \subseteq Recs /\ seen' \in [Threads -> SUBSET SUBSET Recs]
<1>1. recs' \subseteq Recs
  BY DEF See, RecsOf, Recs
<1>2. ASSUME NEW u \in Threads
      PROVE  (IF pc[u] = "idle" THEN {} ELSE seen[u] \cup {View(recs', loc[u].key)})
               \in SUBSET SUBSET Recs
  <2>1. View(recs', loc[u].key) \in SUBSET Recs
    BY <1>1 DEF View
  <2>2. seen[u] \in SUBSET SUBSET Recs
    BY DEF TypeOK
  <2> QED
    BY <2>1, <2>2
<1>3. seen' \in [Threads -> SUBSET SUBSET Recs]
  BY <1>2 DEF See
<1> QED
  BY <1>1, <1>3

(* Steps that set flags, or write to nodes of the thread that are on no    *)
(* level.                                                                  *)
LEMMA StillStep ==
  ASSUME NEW may, Inv(may), TypeOK', NEW t \in Threads, NEW q, NEW s,
         pc' = [pc EXCEPT ![t] = q], loc' = [loc EXCEPT ![t] = s],
         UNCHANGED <<inside, state, guards, height>>,
         \A l \in Levels : \A n \in Line(l) : After(n, l)' = After(n, l),
         \A n \in Nodes : /\ info'[n].marker = info[n].marker /\ info'[n].lvl = info[n].lvl
                          /\ info'[n].key = info[n].key
                          /\ (info[n].deleting => info'[n].deleting),
         info'[head] = info[head],
         \A x \in On(next, 1) : ~info'[x].inserting /\ ~info'[x].deleting =>
           \/ ~info[x].inserting /\ ~info[x].deleting
           \/ \A l \in 1 .. info[x].lvl : x \in On(next, l),
         NextIs',
         \A y \in Items : Owns(q, s, y) =>
           Owns(pc[t], loc[t], y) \/ \A u \in Threads : ~Owns(pc[u], loc[u], y),
         \A u \in Threads : u # t => Undisturbed(u),
         \A u \in Threads, n \in Nodes, l \in Levels : <<n, l>> \in may[u] /\ n \notin Line(l) =>
           next'[n][l] = next[n][l] /\ next'[next[n][l]][l] = next[next[n][l]][l],
         Marks(q, s) => Marks(pc[t], loc[t]) /\ s.x = loc[t].x /\ s.m = loc[t].m,
         NEW g, g = Grown(may), ThreadInv(g, t)'
  PROVE  Inv(g)' /\ Follows(may, g)
<1>1. /\ TypeOK /\ pc \in [Threads -> PCs] /\ loc \in [Threads -> Locals] /\ height \in Levels
  BY LocalsTyped DEF Inv, TypeOK
<1>2. pc'[t] = q /\ loc'[t] = s /\ \A u \in Threads : u # t => pc'[u] = pc[u] /\ loc'[u] = loc[u]
  BY <1>1
<1>3. /\ \A l \in Levels : On(next, l)' = On(next, l) /\ Line(l)' = Line(l)
      /\ Nodal' /\ OneBehind' /\ Lower' /\ Towers' /\ HeadIs'
  <2>1. \A l \in Levels : \A n \in On(next, l) :
          /\ state'[n] = "linked" /\ info'[n].marker = info[n].marker
          /\ info'[n].lvl = info[n].lvl /\ info'[n].key = info[n].key
    <3>1. \A l \in Levels : \A n \in On(next, l) : n \in Nodes /\ state[n] = "linked"
      BY DEF Inv, ListInv, Nodal, Nodes
    <3> QED
      BY <3>1
  <2> QED
    BY <2>1, LineKeeps
<1>4. Apart'
  <2>1. \A u \in Threads, y \in Items : Owns(pc'[u], loc'[u], y) =>
          \/ Owns(pc[u], loc[u], y)
          \/ u = t /\ \A v \in Threads : v # t => ~Owns(pc'[v], loc'[v], y)
    BY <1>2
  <2> QED
    BY <2>1, ApartKeeps
<1>5. \A u \in Threads, n \in Nodes : Safe(u, n) => Safe(u, n)'
  BY DEF Safe
<1>6. \A u \in Threads : Sees(u)
  BY <1>5 DEF Sees
<1>7. ASSUME NEW u \in Threads, NEW n \in Nodes, NEW l \in Levels,
             <<n, l>> \in may[u], n \notin Line(l)
      PROVE  StaysGone(u, n, l)
  <2> PICK y : y = next[n][l]
    OBVIOUS
  <2>1. next'[n][l] = y /\ next'[y][l] = next[y][l]
    BY <1>7
  <2>2. \A v \in Threads : Marks(pc'[v], loc'[v]) /\ y = loc'[v].m =>
          Marks(pc[v], loc[v]) /\ y = loc[v].m /\ loc'[v].x = loc[v].x
    BY <1>2
  <2> QED
    BY <1>6, <1>7, <2>1, <2>2, GoneStays
<1>8. ASSUME NEW u \in Threads, u # t PROVE ThreadInv(g, u)'
  <2>1. may[u] \subseteq g[u]
    BY DEF Grown, Inv, Ghost
  <2>2. height' >= height
    BY <1>1, BoundAssumption DEF Levels
  <2>3. Undisturbed(u) /\ pc'[u] = pc[u] /\ loc'[u] = loc[u]
    BY <1>2, <1>8
  <2> QED
    BY <1>5, <2>1, <2>2, <2>3, OtherThread
<1>9. \A u \in Threads : ThreadInv(g, u)'
  BY <1>8
<1> QED
  BY <1>3, <1>4, <1>7, <1>9, CalmStep

(* An insert points its node to what will be behind it.                    *)
LEMMA InsertSetInv ==
  ASSUME NEW may, Inv(may), NEW t \in Threads, InsertSet(t)
  PROVE  (\E g : Inv(g)' /\ Follows(may, g)) /\ Flat
<1> PICK r, x, i : r = loc[t] /\ x = r.x /\ i = r.i
  OBVIOUS
<1> PICK f : f = r.fwd[i]
  OBVIOUS
<1>1. /\ TypeOK /\ ThreadOK(may, t, "set", r) /\ pc[t] = "set" /\ r \in Locals
      /\ pc \in [Threads -> PCs] /\ loc \in [Threads -> Locals]
      /\ next \in [Nodes -> [Levels -> Items \cup {Null}]]
  BY LocalsTyped DEF Inv, ThreadInv, InsertSet, Goto, TypeOK
<1>2. /\ pc' = [pc EXCEPT ![t] = "link"] /\ loc' = [loc EXCEPT ![t] = r]
      /\ next' = [next EXCEPT ![x][i] = f]
      /\ UNCHANGED <<inside, state, guards, dupl, height, incr_key, num, info, todo, recs, seen>>
  BY <1>1 DEF InsertSet, Goto, Fwd, poolVars, fields, hist
<1>3. /\ r.op = "insert" /\ r.x # Null /\ t \in inside /\ Puts("set", r) /\ Puts("link", r)
      /\ x \in Items /\ x \in Nodes /\ Local(t, "set", r) /\ About("set", r)
      /\ Held(may, t, "set", r) /\ PutOK("set", r)
  BY <1>1 DEF ThreadOK, Local, About, InsertOnly, Puts, PutPCs, Locals, Nodes
<1>4. /\ info[x].lvl \in Levels /\ i \in 1 .. info[x].lvl
      /\ ~info[x].deleting /\ ~info[x].marker
      /\ \A l \in Levels : x \in On(next, l) <=> l < i
      /\ state[x] = "linked" /\ info[x].inserting /\ info[x].key = r.key
      /\ info[x].lvl <= height /\ \A k \in 1 .. info[x].lvl : r.prev[k] # Null
  BY <1>3 DEF PutOK
<1>5. i \in Levels /\ f \in Items \cup {Null}
  <2>1. i \in Levels
    BY <1>4, BoundAssumption DEF Levels
  <2> QED
    BY <1>1, <2>1 DEF Locals
<1>6. x \notin Line(i)
  <2>1. x # head /\ ~(i < i)
    BY <1>3, <1>5, NodeAssumption DEF Levels
  <2> QED
    BY <1>4, <1>5, <2>1 DEF Line
<1>7. /\ next' \in [Nodes -> [Levels -> Items \cup {Null}]]
      /\ \A n \in Nodes : n # x => next'[n] = next[n]
      /\ \A l \in Levels : l # i => next'[x][l] = next[x][l]
      /\ next'[x][i] = f
  BY <1>1, <1>2, <1>3, <1>5
<1>8. TypeOK'
  <2>1. pc' \in [Threads -> PCs] /\ loc' \in [Threads -> Locals]
    BY <1>1, <1>2 DEF PCs
  <2> QED
    BY <1>1, <1>2, <1>7, <2>1 DEF TypeOK, Locals
<1>9. ASSUME NEW l \in Levels, NEW n \in Line(l)
      PROVE  next'[n][l] = next[n][l] /\ After(n, l)' = After(n, l)
  <2>1. n \in Nodes /\ next[n][l] \in Items \cup {Null}
    BY <1>1, LineFacts
  <2>2. next'[n][l] = next[n][l]
    BY <1>6, <1>7, <2>1
  <2> PICK y : y = next[n][l]
    OBVIOUS
  <2>3. y # Null /\ info[y].marker => next'[y] = next[y]
    BY <1>4, <1>7, <2>1 DEF Nodes
  <2>4. info'[y] = info[y]
    BY <1>2
  <2> QED
    BY <2>2, <2>3, <2>4 DEF After, Behind
<1>10. \A l \in Levels : On(next, l)' = On(next, l) /\ Line(l)' = Line(l)
  BY <1>1, <1>8, <1>9, LineStays
<1>11. ASSUME NEW u \in Threads, NEW n \in Nodes, NEW l \in Levels,
              <<n, l>> \in may[u], n \notin Line(l)
       PROVE  next'[n][l] = next[n][l] /\ next'[next[n][l]][l] = next[next[n][l]][l]
  <2>1. Gone(u, n, l) /\ next[n][l] \in Items \cup {Null}
    BY <1>1, <1>11, MayFacts
  <2>2. n # x /\ next[n][l] # x /\ next[n][l] \in Nodes
    BY <1>4, <2>1 DEF Gone, Nodes
  <2> QED
    BY <1>7, <2>2
<1>12. \A u \in Threads : u # t => Undisturbed(u)
  <2> SUFFICES ASSUME NEW u \in Threads, u # t PROVE Undisturbed(u)
    OBVIOUS
  <2>1. ~Owns(pc[u], loc[u], x)
    <3>1. Owns(pc[t], loc[t], x)
      BY <1>1, <1>3 DEF Owns
    <3> QED
      BY <1>3, <3>1 DEF Inv, ListInv, Apart
  <2>2. \A y \in Items : Owns(pc[u], loc[u], y) => next'[y] = next[y]
    BY <1>7, <2>1 DEF Nodes
  <2> QED
    BY <1>1, <1>2, <1>10, <2>2, LetAlone
<1>13. NextIs'
  <2>1. \A l \in Levels : \A n \in Line(l) : next[n][l] # Null => state[next[n][l]] = "linked"
    BY DEF Inv, ListInv, NextIs
  <2>2. \A u \in Threads : Marks(pc[u], loc[u]) =>
           /\ Marks(pc'[u], loc'[u])
           /\ loc'[u].x = loc[u].x /\ loc'[u].m = loc[u].m /\ loc'[u].i = loc[u].i
    BY <1>1, <1>2, <1>3 DEF Marks
  <2> QED
    BY <1>2, <1>9, <1>10, <2>1, <2>2, NextKeeps
<1>14. /\ \A y : Owns("link", r, y) => y = x /\ Owns("set", r, y)
       /\ ~Marks("link", r) /\ ~Takes("link", r) /\ ~HasMark("link", r)
  BY <1>3 DEF Owns, Marks, Takes, HasMark
<1> PICK g : g = Grown(may)
  OBVIOUS
<1>15. ThreadInv(g, t)'
  <2>1. PutOK("link", r)'
    <3>1. /\ state'[x] = "linked" /\ info'[x] = info[x] /\ height' = height
          /\ \A l \in Levels : x \in On(next, l)' <=> l < i
      BY <1>2, <1>4, <1>10
    <3> QED
      BY <1>4, <1>7, <3>1 DEF PutOK, SearchPCs
  <2>2. TakeOK("link", r)' /\ MarkOK("link", r)'
    BY <1>14 DEF TakeOK, MarkOK
  <2>3. Local(t, "link", r)'
    BY <1>2, <1>3 DEF Local, InsertOnly, DeleteOnly
  <2>4. About("link", r)
    BY <1>3 DEF About
  <2>5. Held(g, t, "link", r)'
    <3>1. may[t] \subseteq g[t]
      BY <1>2, <1>3 DEF Grown
    <3>2. r.m = Null
      BY <1>3 DEF About
    <3> QED
      BY <1>2, <1>3, <3>1, <3>2 DEF Held
  <2>6. pc'[t] = "link" /\ loc'[t] = r
    BY <1>1, <1>2
  <2> QED
    BY <2>1, <2>2, <2>3, <2>4, <2>5, <2>6 DEF ThreadInv, ThreadOK
<1>16. Inv(g)' /\ Follows(may, g)
  <2>1. \A y \in Items : Owns("link", r, y) => Owns(pc[t], loc[t], y)
    BY <1>1, <1>14
  <2>2. /\ \A n \in Nodes : info'[n] = info[n]
        /\ info'[head] = info[head]
    BY <1>2
  <2> QED
    <3>1. \A l \in Levels : \A n \in Line(l) : After(n, l)' = After(n, l)
      BY <1>9
    <3>2. \A u \in Threads, n \in Nodes, l \in Levels : <<n, l>> \in may[u] /\ n \notin Line(l) =>
            next'[n][l] = next[n][l] /\ next'[next[n][l]][l] = next[next[n][l]][l]
      BY <1>11
    <3>3. ~Marks("link", r)
      BY <1>14
    <3> QED
      BY <1>2, <1>8, <1>12, <1>13, <1>15, <2>1, <2>2, <3>1, <3>2, <3>3, StillStep
<1> QED
  BY <1>9, <1>10, <1>16 DEF Flat

(* An insert is done with the last level of its node.                      *)
LEMMA InsertedInv ==
  ASSUME NEW may, Inv(may), NEW t \in Threads, Inserted(t)
  PROVE  (\E g : Inv(g)' /\ Follows(may, g)) /\ Flat
<1> PICK r, x : r = loc[t] /\ x = r.x
  OBVIOUS
<1> DEFINE s == [r EXCEPT !.prev = Nowhere, !.fwd = Nowhere, !.i = 0]
<1>1. /\ TypeOK /\ ThreadOK(may, t, "inserted", r) /\ pc[t] = "inserted" /\ r \in Locals
      /\ pc \in [Threads -> PCs] /\ loc \in [Threads -> Locals]
  BY LocalsTyped DEF Inv, ThreadInv, Inserted, Goto
<1>2. /\ pc' = [pc EXCEPT ![t] = "num_add"]
      /\ info' = [info EXCEPT ![x].inserting = FALSE]
      /\ UNCHANGED <<inside, state, guards, dupl, height, incr_key, num, next, todo>>
      /\ See(next, info')
  BY DEF Inserted, Goto, poolVars, fields
<1>3. loc' = [loc EXCEPT ![t] = s]
  BY <1>1 DEF Inserted, Locals
<1>4. /\ r.op = "insert" /\ r.x # Null /\ t \in inside /\ Puts("inserted", r) /\ r.m = Null
      /\ x \in Items /\ x \in Nodes /\ Local(t, "inserted", r) /\ r.key \in Keys
      /\ Held(may, t, "inserted", r) /\ PutOK("inserted", r)
  BY <1>1 DEF ThreadOK, Local, About, InsertOnly, Puts, PutPCs, Locals, Nodes
<1>5. /\ info[x].lvl \in Levels /\ r.i = info[x].lvl + 1
      /\ \A l \in Levels : x \in On(next, l) <=> l < r.i
  BY <1>4 DEF PutOK
<1>6. /\ \A l \in 1 .. info[x].lvl : x \in On(next, l)
      /\ ~(r.i <= 1)
  <2>1. \A l \in 1 .. info[x].lvl : l \in Levels /\ l < info[x].lvl + 1
    BY <1>5, BoundAssumption DEF Levels
  <2>2. ~(info[x].lvl + 1 <= 1)
    BY <1>5 DEF Levels
  <2> QED
    BY <1>5, <2>1, <2>2
<1>7. /\ s \in Locals
      /\ s.op = "insert" /\ s.key = r.key /\ s.x = x /\ s.i = 0 /\ s.m = Null
      /\ s.prev = Nowhere /\ s.fwd = Nowhere /\ s.at = r.at
  BY <1>1, <1>4, LocalsBlank DEF Locals
<1> HIDE DEF s
<1>8. /\ info' \in [Nodes -> [key : Keys \cup {0}, incr : Nat, lvl : 0 .. MaxHeight,
                              marker : BOOLEAN, deleting : BOOLEAN, inserting : BOOLEAN]]
      /\ \A n \in Nodes : n # x => info'[n] = info[n]
      /\ \A n \in Nodes : /\ info'[n].marker = info[n].marker /\ info'[n].lvl = info[n].lvl
                          /\ info'[n].key = info[n].key /\ info'[n].deleting = info[n].deleting
  <2>1. info \in [Nodes -> [key : Keys \cup {0}, incr : Nat, lvl : 0 .. MaxHeight,
                            marker : BOOLEAN, deleting : BOOLEAN, inserting : BOOLEAN]]
    BY <1>1 DEF TypeOK
  <2> PICK v : v = [info[x] EXCEPT !.inserting = FALSE]
    OBVIOUS
  <2>2. /\ v \in [key : Keys \cup {0}, incr : Nat, lvl : 0 .. MaxHeight,
                  marker : BOOLEAN, deleting : BOOLEAN, inserting : BOOLEAN]
        /\ v.marker = info[x].marker /\ v.lvl = info[x].lvl /\ v.key = info[x].key
        /\ v.deleting = info[x].deleting
    BY <1>4, <2>1
  <2>3. info' = [info EXCEPT ![x] = v]
    BY <1>2
  <2>4. info'[x] = v /\ \A n \in Nodes : n # x => info'[n] = info[n]
    BY <1>4, <2>1, <2>3
  <2>5. info' \in [Nodes -> [key : Keys \cup {0}, incr : Nat, lvl : 0 .. MaxHeight,
                             marker : BOOLEAN, deleting : BOOLEAN, inserting : BOOLEAN]]
    BY <2>1, <2>2, <2>3
  <2> QED
    BY <2>2, <2>4, <2>5
<1>9. recs' \subseteq Recs /\ seen' \in [Threads -> SUBSET SUBSET Recs]
  <2>1. \A n \in On(next, 1) : n \in Items /\ n \in Nodes /\ info[n].key \in Keys
    BY LevelOne DEF Inv, ListInv, Nodal, Nodes
  <2>2. \A n \in On(next, 1) : n \in Items /\ info'[n].key \in Keys /\ info'[n].incr \in Nat
    BY <1>8, <2>1
  <2> QED
    BY <1>1, <1>2, <2>2, SeeTyped
<1>10. TypeOK'
  <2>1. pc' \in [Threads -> PCs] /\ loc' \in [Threads -> Locals]
    BY <1>1, <1>2, <1>3, <1>7 DEF PCs
  <2> QED
    BY <1>1, <1>2, <1>8, <1>9, <2>1 DEF TypeOK, Locals
<1>11. ASSUME NEW l \in Levels, NEW n \in Line(l) PROVE After(n, l)' = After(n, l)
  <2>1. n \in Nodes /\ next[n][l] \in Items \cup {Null}
    BY <1>1, LineFacts DEF TypeOK
  <2>2. next[n][l] # Null => info'[next[n][l]].marker = info[next[n][l]].marker
    BY <1>8, <2>1 DEF Nodes
  <2> QED
    BY <1>2, <2>2 DEF After, Behind
<1>12. \A l \in Levels : On(next, l)' = On(next, l) /\ Line(l)' = Line(l)
  BY <1>1, <1>10, <1>11, LineStays
<1>13. \A u \in Threads : u # t => Undisturbed(u)
  <2> SUFFICES ASSUME NEW u \in Threads, u # t PROVE Undisturbed(u)
    OBVIOUS
  <2>1. ~Owns(pc[u], loc[u], x)
    <3>1. Owns(pc[t], loc[t], x)
      BY <1>1, <1>4 DEF Owns
    <3> QED
      BY <1>4, <3>1 DEF Inv, ListInv, Apart
  <2>2. \A y \in Items : Owns(pc[u], loc[u], y) => info'[y] = info[y]
    BY <1>8, <2>1 DEF Nodes
  <2> QED
    BY <1>1, <1>2, <1>12, <2>2, LetAlone
<1>14. /\ ~Marks("num_add", s) /\ ~Takes("num_add", s) /\ ~HasMark("num_add", s)
       /\ ~Puts("num_add", s) /\ ~Marks("inserted", r)
  BY <1>4, <1>7 DEF Marks, Takes, HasMark, Puts, PutPCs, SearchPCs
<1>15. NextIs'
  <2>1. \A l \in Levels : \A n \in Line(l) :
          next[n][l] # Null => /\ state[next[n][l]] = "linked"
                               /\ info'[next[n][l]].marker = info[next[n][l]].marker
    <3>1. \A l \in Levels : \A n \in Line(l) : n \in Nodes /\ next[n][l] \in Items \cup {Null}
      BY <1>1, LineFacts DEF TypeOK
    <3> QED
      BY <1>8, <3>1 DEF Inv, ListInv, NextIs, Nodes
  <2>2. \A u \in Threads : Marks(pc[u], loc[u]) =>
           /\ Marks(pc'[u], loc'[u])
           /\ loc'[u].x = loc[u].x /\ loc'[u].m = loc[u].m /\ loc'[u].i = loc[u].i
    BY <1>1, <1>2, <1>3, <1>14
  <2> QED
    BY <1>2, <1>12, <2>1, <2>2, NextKeeps
<1>16. \A n \in On(next, 1) : ~info'[n].inserting /\ ~info'[n].deleting =>
           \/ ~info[n].inserting /\ ~info[n].deleting
           \/ \A l \in 1 .. info[n].lvl : n \in On(next, l)
  <2>1. \A n \in On(next, 1) : n \in Nodes
    BY LevelOne DEF Inv, ListInv, Nodal, Nodes
  <2> QED
    BY <1>6, <1>8, <2>1
<1> PICK g : g = Grown(may)
  OBVIOUS
<1>17. ThreadInv(g, t)'
  <2>1. PutOK("num_add", s)' /\ TakeOK("num_add", s)' /\ MarkOK("num_add", s)'
    BY <1>14 DEF PutOK, TakeOK, MarkOK
  <2>2. Local(t, "num_add", s)'
    BY <1>2, <1>4, <1>7 DEF Local, InsertOnly, DeleteOnly
  <2>3. About("num_add", s)
    BY <1>4, <1>7 DEF About
  <2>4. Held(g, t, "num_add", s)'
    <3>1. may[t] \subseteq g[t]
      BY <1>2, <1>4 DEF Grown
    <3> QED
      BY <1>4, <1>6, <1>7, <3>1 DEF Held, Nowhere
  <2>5. pc'[t] = "num_add" /\ loc'[t] = s
    BY <1>1, <1>2, <1>3
  <2> QED
    BY <2>1, <2>2, <2>3, <2>4, <2>5 DEF ThreadInv, ThreadOK
<1>18. info'[head] = info[head]
  BY <1>4, <1>8, NodeAssumption DEF Nodes
<1>19. \A y \in Items : ~Owns("num_add", s, y)
  BY <1>14 DEF Owns
<1>20. Inv(g)' /\ Follows(may, g)
  BY <1>2, <1>3, <1>8, <1>10, <1>11, <1>13, <1>14, <1>15, <1>16, <1>17, <1>18, <1>19, StillStep
<1> QED
  BY <1>11, <1>12, <1>20 DEF Flat

(* A delete flags the node it has found, which makes it the thread's own.  *)
LEMMA DeleteFlagInv ==
  ASSUME NEW may, Inv(may), NEW t \in Threads, DeleteFlag(t)
  PROVE  (\E g : Inv(g)' /\ Follows(may, g)) /\ Flat
<1> PICK r, x : r = loc[t] /\ x = r.x
  OBVIOUS
<1>1. /\ TypeOK /\ ThreadOK(may, t, "flag", r) /\ pc[t] = "flag" /\ r \in Locals
      /\ pc \in [Threads -> PCs] /\ loc \in [Threads -> Locals]
  BY LocalsTyped DEF Inv, ThreadInv, DeleteFlag, Goto
<1>2. /\ pc' = [pc EXCEPT ![t] = "marker"] /\ loc' = [loc EXCEPT ![t] = r]
      /\ info' = [info EXCEPT ![x].deleting = TRUE]
      /\ ~info[x].deleting /\ ~info[x].inserting
      /\ UNCHANGED <<inside, state, guards, dupl, height, incr_key, num, next, todo>>
      /\ See(next, info')
  BY <1>1 DEF DeleteFlag, Goto, poolVars, fields
<1>3. /\ r.op = "delete" /\ t \in inside /\ Local(t, "flag", r) /\ About("flag", r)
      /\ Held(may, t, "flag", r) /\ ~Puts("flag", r)
  BY <1>1 DEF ThreadOK, Local, DeleteOnly, Puts, PutPCs, SearchPCs
<1>4. x # Null /\ x \in Items /\ x \in Nodes /\ r.m = Null
  BY <1>1, <1>3 DEF About, Locals, Nodes, TakePCs, SearchPCs
<1>5. x \in On(next, 1)
  <2>1. <<x, 1>> \in may[t]
    BY <1>3, <1>4 DEF Held
  <2>2. x \in Line(1)
    BY <1>2, <1>4, <2>1, LevelOne, MayFacts DEF Gone
  <2> QED
    BY <1>4, <2>2, NodeAssumption DEF Line
<1>6. /\ \A l \in 1 .. info[x].lvl : x \in On(next, l)
      /\ state[x] = "linked" /\ ~info[x].marker /\ info[x].lvl \in Levels
  <2>1. /\ state[x] = "linked" /\ ~info[x].marker /\ 1 <= info[x].lvl
    BY <1>5, LevelOne DEF Inv, ListInv, Nodal
  <2>2. info[x].lvl \in 0 .. MaxHeight
    BY <1>1, <1>4 DEF TypeOK
  <2>3. info[x].lvl \in Levels
    BY <2>1, <2>2 DEF Levels
  <2> QED
    BY <1>2, <1>5, <2>1, <2>3 DEF Inv, ListInv, Towers
<1>7. \A u \in Threads : ~Owns(pc[u], loc[u], x)
  BY <1>2, <1>6, OwnsFacts
<1>8. /\ info' \in [Nodes -> [key : Keys \cup {0}, incr : Nat, lvl : 0 .. MaxHeight,
                              marker : BOOLEAN, deleting : BOOLEAN, inserting : BOOLEAN]]
      /\ \A n \in Nodes : n # x => info'[n] = info[n]
      /\ \A n \in Nodes : /\ info'[n].marker = info[n].marker /\ info'[n].lvl = info[n].lvl
                          /\ info'[n].key = info[n].key /\ info'[n].inserting = info[n].inserting
                          /\ (info[n].deleting => info'[n].deleting)
      /\ info'[x].deleting
  <2>1. info \in [Nodes -> [key : Keys \cup {0}, incr : Nat, lvl : 0 .. MaxHeight,
                            marker : BOOLEAN, deleting : BOOLEAN, inserting : BOOLEAN]]
    BY <1>1 DEF TypeOK
  <2> PICK v : v = [info[x] EXCEPT !.deleting = TRUE]
    OBVIOUS
  <2>2. /\ v \in [key : Keys \cup {0}, incr : Nat, lvl : 0 .. MaxHeight,
                  marker : BOOLEAN, deleting : BOOLEAN, inserting : BOOLEAN]
        /\ v.marker = info[x].marker /\ v.lvl = info[x].lvl /\ v.key = info[x].key
        /\ v.inserting = info[x].inserting /\ v.deleting
    BY <1>4, <2>1
  <2>3. info' = [info EXCEPT ![x] = v]
    BY <1>2
  <2>4. info'[x] = v /\ \A n \in Nodes : n # x => info'[n] = info[n]
    BY <1>4, <2>1, <2>3
  <2>5. info' \in [Nodes -> [key : Keys \cup {0}, incr : Nat, lvl : 0 .. MaxHeight,
                             marker : BOOLEAN, deleting : BOOLEAN, inserting : BOOLEAN]]
    BY <2>1, <2>2, <2>3
  <2> QED
    BY <2>2, <2>4, <2>5
<1>9. recs' \subseteq Recs /\ seen' \in [Threads -> SUBSET SUBSET Recs]
  <2>1. \A n \in On(next, 1) : n \in Items /\ n \in Nodes /\ info[n].key \in Keys
    BY LevelOne DEF Inv, ListInv, Nodal, Nodes
  <2>2. \A n \in On(next, 1) : n \in Items /\ info'[n].key \in Keys /\ info'[n].incr \in Nat
    BY <1>8, <2>1
  <2> QED
    BY <1>1, <1>2, <2>2, SeeTyped
<1>10. TypeOK'
  <2>1. pc' \in [Threads -> PCs] /\ loc' \in [Threads -> Locals]
    BY <1>1, <1>2 DEF PCs
  <2> QED
    BY <1>1, <1>2, <1>8, <1>9, <2>1 DEF TypeOK, Locals
<1>11. \A l \in Levels : \A n \in Line(l) : After(n, l)' = After(n, l)
  <2> SUFFICES ASSUME NEW l \in Levels, NEW n \in Line(l) PROVE After(n, l)' = After(n, l)
    OBVIOUS
  <2>1. n \in Nodes /\ next[n][l] \in Items \cup {Null}
    BY <1>1, LineFacts DEF TypeOK
  <2>2. next[n][l] # Null => info'[next[n][l]].marker = info[next[n][l]].marker
    BY <1>8, <2>1 DEF Nodes
  <2> QED
    BY <1>2, <2>2 DEF After, Behind
<1>12. \A l \in Levels : On(next, l)' = On(next, l) /\ Line(l)' = Line(l)
  BY <1>1, <1>10, <1>11, LineStays
<1>13. \A u \in Threads : u # t => Undisturbed(u)
  <2> SUFFICES ASSUME NEW u \in Threads PROVE Undisturbed(u)
    OBVIOUS
  <2>1. \A y \in Items : Owns(pc[u], loc[u], y) => info'[y] = info[y]
    BY <1>7, <1>8 DEF Nodes
  <2> QED
    BY <1>1, <1>2, <1>12, <2>1, LetAlone
<1>14. /\ ~Marks("marker", r) /\ ~HasMark("marker", r) /\ ~Puts("marker", r) /\ ~Marks("flag", r)
       /\ \A y : Owns("marker", r, y) => y = x
  BY <1>3, <1>4 DEF Marks, HasMark, Puts, Owns
<1>15. NextIs'
  <2>1. \A l \in Levels : \A n \in Line(l) :
          next[n][l] # Null => /\ state[next[n][l]] = "linked"
                               /\ info'[next[n][l]].marker = info[next[n][l]].marker
    <3>1. \A l \in Levels : \A n \in Line(l) : n \in Nodes /\ next[n][l] \in Items \cup {Null}
      BY <1>1, LineFacts DEF TypeOK
    <3> QED
      BY <1>8, <3>1 DEF Inv, ListInv, NextIs, Nodes
  <2>2. \A u \in Threads : Marks(pc[u], loc[u]) =>
           /\ Marks(pc'[u], loc'[u])
           /\ loc'[u].x = loc[u].x /\ loc'[u].m = loc[u].m /\ loc'[u].i = loc[u].i
    BY <1>1, <1>2, <1>14
  <2> QED
    BY <1>2, <1>12, <2>1, <2>2, NextKeeps
<1>16. \A n \in On(next, 1) : ~info'[n].inserting /\ ~info'[n].deleting =>
           ~info[n].inserting /\ ~info[n].deleting
  <2>1. \A n \in On(next, 1) : n \in Nodes
    BY LevelOne DEF Inv, ListInv, Nodal, Nodes
  <2> QED
    BY <1>8, <2>1
<1> PICK g : g = Grown(may)
  OBVIOUS
<1>17. ThreadInv(g, t)'
  <2>1. PutOK("marker", r)' /\ MarkOK("marker", r)'
    BY <1>14 DEF PutOK, MarkOK
  <2>2. TakeOK("marker", r)'
    <3>1. \A l \in 1 .. info[x].lvl : x \in On(next, l)'
      <4>1. \A l \in 1 .. info[x].lvl : l \in Levels
        BY <1>6, BoundAssumption DEF Levels
      <4> QED
        BY <1>6, <1>12, <4>1
    <3>2. /\ state'[x] = "linked" /\ info'[x].deleting /\ ~info'[x].inserting
          /\ ~info'[x].marker /\ info'[x].lvl = info[x].lvl
      BY <1>2, <1>4, <1>6, <1>8
    <3> QED
      BY <1>4, <1>6, <3>1, <3>2 DEF TakeOK
  <2>3. Local(t, "marker", r)'
    BY <1>2, <1>3 DEF Local, InsertOnly, DeleteOnly
  <2>4. About("marker", r)
    BY <1>3, <1>4 DEF About
  <2>5. Held(g, t, "marker", r)'
    <3>1. may[t] \subseteq g[t]
      BY <1>2, <1>3 DEF Grown
    <3> QED
      BY <1>3, <1>4, <3>1 DEF Held
  <2>6. pc'[t] = "marker" /\ loc'[t] = r
    BY <1>1, <1>2
  <2> QED
    BY <2>1, <2>2, <2>3, <2>4, <2>5, <2>6 DEF ThreadInv, ThreadOK
<1>18. Inv(g)' /\ Follows(may, g)
  <2>1. \A y \in Items : Owns("marker", r, y) => \A u \in Threads : ~Owns(pc[u], loc[u], y)
    BY <1>7, <1>14
  <2>2. info'[head] = info[head]
    BY <1>4, <1>8, NodeAssumption DEF Nodes
  <2> QED
    BY <1>2, <1>8, <1>10, <1>11, <1>13, <1>14, <1>15, <1>16, <1>17, <2>1, <2>2, StillStep
<1> QED
  BY <1>11, <1>12, <1>18 DEF Flat

(* One word, and two words of different nodes are written. *)

Table(S) == [Nodes -> [Levels -> S]]
Write(ny, nx, x, i, z) == ny = [nx EXCEPT ![x][i] = z]
WriteTwo(ny, nx, m, x, i, f, z) == ny = [nx EXCEPT ![m][i] = f, ![x][i] = z]
WriteAndKeep(ny, nx, m, x, i, f) == ny = [nx EXCEPT ![m][i] = f, ![x][i] = @]

(* One word of a table is written.                                         *)
LEMMA OneWrite ==
  ASSUME NEW S, NEW nx \in Table(S), NEW x \in Nodes, NEW i \in Levels,
         NEW z \in S, NEW ny, Write(ny, nx, x, i, z)
  PROVE  /\ ny \in Table(S)
         /\ \A n \in Nodes : n # x => ny[n] = nx[n]
         /\ \A l \in Levels : l # i => ny[x][l] = nx[x][l]
         /\ ny[x][i] = z
BY DEF Table, Write

(* Words of two nodes are written.                                         *)
LEMMA TwoWrites ==
  ASSUME NEW S, NEW nx \in Table(S), NEW m \in Nodes, NEW x \in Nodes, m # x,
         NEW i \in Levels, NEW f \in S, NEW z \in S, NEW ny,
         WriteTwo(ny, nx, m, x, i, f, z)
  PROVE  /\ ny \in Table(S)
         /\ \A n \in Nodes : n # x /\ n # m => ny[n] = nx[n]
         /\ \A l \in Levels : l # i => ny[x][l] = nx[x][l] /\ ny[m][l] = nx[m][l]
         /\ ny[m][i] = f /\ ny[x][i] = z
<1> PICK h : Write(h, nx, m, i, f)
  BY DEF Write
<1>1. /\ h \in Table(S)
      /\ \A n \in Nodes : n # m => h[n] = nx[n]
      /\ \A l \in Levels : l # i => h[m][l] = nx[m][l]
      /\ h[m][i] = f
  BY OneWrite
<1>2. Write(ny, h, x, i, z)
  BY DEF Write, WriteTwo
<1>3. /\ ny \in Table(S)
      /\ \A n \in Nodes : n # x => ny[n] = h[n]
      /\ \A l \in Levels : l # i => ny[x][l] = h[x][l]
      /\ ny[x][i] = z
  BY <1>1, <1>2, OneWrite
<1> QED
  BY <1>1, <1>3

(* A word is written to itself.                                            *)
LEMMA WriteKept ==
  ASSUME NEW S, NEW nx \in Table(S), NEW m \in Nodes, NEW x \in Nodes, m # x,
         NEW i \in Levels, NEW f \in S, NEW ny, WriteAndKeep(ny, nx, m, x, i, f)
  PROVE  Write(ny, nx, m, i, f)
<1> PICK z : z = nx[x][i]
  OBVIOUS
<1>1. z \in S
  BY DEF Table
<1>2. WriteTwo(ny, nx, m, x, i, f, z)
  <2>1. [nx EXCEPT ![m][i] = f][x][i] = z
    BY DEF Table
  <2> QED
    BY <2>1 DEF WriteAndKeep, WriteTwo
<1>3. /\ ny \in Table(S)
      /\ \A n \in Nodes : n # x /\ n # m => ny[n] = nx[n]
      /\ \A l \in Levels : l # i => ny[x][l] = nx[x][l] /\ ny[m][l] = nx[m][l]
      /\ ny[m][i] = f /\ ny[x][i] = z
  BY <1>1, <1>2, TwoWrites
<1> PICK h : Write(h, nx, m, i, f)
  BY DEF Write
<1>4. /\ h \in Table(S)
      /\ \A n \in Nodes : n # m => h[n] = nx[n]
      /\ \A l \in Levels : l # i => h[m][l] = nx[m][l]
      /\ h[m][i] = f
  BY OneWrite
<1>5. \A n \in Nodes : \A l \in Levels : ny[n][l] = h[n][l]
  BY <1>3, <1>4
<1>6. \A n \in Nodes : ny[n] = h[n]
  <2> SUFFICES ASSUME NEW n \in Nodes PROVE ny[n] = h[n]
    OBVIOUS
  <2>1. ny[n] \in [Levels -> S] /\ h[n] \in [Levels -> S]
    BY <1>3, <1>4 DEF Table
  <2> QED
    BY <1>5, <2>1
<1>7. ny = h
  BY <1>3, <1>4, <1>6 DEF Table
<1> QED
  BY <1>7

\* What DeleteMark writes, and what that means.
MarkWrite(ny, nx, m, x, i, f) ==
  ny = [nx EXCEPT ![m][i] = f, ![x][i] = IF nx[x][i] \in {m, f} THEN m ELSE @]
MarkWritten(ny, nx, S, m, x, i, f) ==
  /\ ny \in Table(S)
  /\ \A n \in Nodes : n # x /\ n # m => ny[n] = nx[n]
  /\ \A l \in Levels : l # i => ny[x][l] = nx[x][l] /\ ny[m][l] = nx[m][l]
  /\ ny[m][i] = f
  /\ ny[x][i] = IF nx[x][i] \in {m, f} THEN m ELSE nx[x][i]

(* What the two words are after DeleteMark, whether its CAS succeeds or    *)
(* not.                                                                    *)
LEMMA MarkWrites ==
  ASSUME NEW S, NEW nx \in Table(S), NEW m \in Nodes, NEW x \in Nodes, m # x,
         NEW i \in Levels, NEW f \in S, m \in S, NEW ny, MarkWrite(ny, nx, m, x, i, f)
  PROVE  MarkWritten(ny, nx, S, m, x, i, f)
<1>1. CASE nx[x][i] \in {m, f}
  <2>1. WriteTwo(ny, nx, m, x, i, f, m)
    BY <1>1 DEF MarkWrite, WriteTwo
  <2>2. /\ ny \in Table(S)
        /\ \A n \in Nodes : n # x /\ n # m => ny[n] = nx[n]
        /\ \A l \in Levels : l # i => ny[x][l] = nx[x][l] /\ ny[m][l] = nx[m][l]
        /\ ny[m][i] = f /\ ny[x][i] = m
    BY <2>1, TwoWrites
  <2> QED
    BY <1>1, <2>2 DEF MarkWritten
<1>2. CASE nx[x][i] \notin {m, f}
  <2>1. WriteAndKeep(ny, nx, m, x, i, f)
    BY <1>2 DEF MarkWrite, WriteAndKeep
  <2>2. Write(ny, nx, m, i, f)
    BY <2>1, WriteKept
  <2>3. /\ ny \in Table(S)
        /\ \A n \in Nodes : n # m => ny[n] = nx[n]
        /\ \A l \in Levels : l # i => ny[m][l] = nx[m][l]
        /\ ny[m][i] = f
    BY <2>2, OneWrite
  <2> QED
    BY <1>2, <2>3 DEF MarkWritten
<1> QED
  BY <1>1, <1>2

(* A delete puts its marker behind its node.                               *)
LEMMA DeleteMarkInv ==
  ASSUME NEW may, Inv(may), NEW t \in Threads, DeleteMark(t)
  PROVE  (\E g : Inv(g)' /\ Follows(may, g)) /\ Flat
<1> PICK r, x, m, i : r = loc[t] /\ x = r.x /\ m = r.m /\ i = r.i
  OBVIOUS
<1>f. PICK f : f = r.fwd[i]
  OBVIOUS
<1>0. PICK q, z : /\ q = IF next[x][i] \in {m, f} THEN "unlink" ELSE "find_start"
                  /\ z = IF next[x][i] \in {m, f} THEN m ELSE next[x][i]
  OBVIOUS
<1>z. next[x][i] \notin {m, f} => z = next[x][i]
  BY <1>0
<1>1. /\ TypeOK /\ ThreadOK(may, t, "mark", r) /\ pc[t] = "mark" /\ r \in Locals
      /\ pc \in [Threads -> PCs] /\ loc \in [Threads -> Locals]
      /\ next \in [Nodes -> [Levels -> Items \cup {Null}]]
  BY <1>f, LocalsTyped DEF Inv, ThreadInv, DeleteMark, Goto, TypeOK
<1>o. \/ q = "unlink" /\ z = m /\ next[x][i] \in {m, f}
      \/ q = "find_start" /\ z = next[x][i] /\ next[x][i] # m
  BY <1>0
<1>2. /\ pc' = [pc EXCEPT ![t] = q] /\ loc' = [loc EXCEPT ![t] = r]
      /\ UNCHANGED <<inside, state, guards, dupl, height, incr_key, num, info, todo, recs, seen>>
      /\ q \in {"unlink", "find_start"}
  BY <1>0, <1>f, <1>1 DEF DeleteMark, Goto, Fwd, poolVars, fields, hist
<1>w. next' = [next EXCEPT ![m][i] = f, ![x][i] = IF next[x][i] \in {m, f} THEN m ELSE @]
  BY <1>f DEF DeleteMark, Fwd
<1>3. /\ r.op = "delete" /\ t \in inside /\ Local(t, "mark", r) /\ About("mark", r)
      /\ Held(may, t, "mark", r) /\ TakeOK("mark", r) /\ MarkOK("mark", r)
  BY <1>1 DEF ThreadOK, Local, DeleteOnly
<1>4. /\ r.x # Null /\ r.m # Null
  <2>1. r.x # Null
    BY <1>3 DEF About, SearchPCs
  <2> QED
    BY <1>3, <2>1 DEF About
<1>5. /\ Marks("mark", r) /\ Marks(q, r) /\ HasMark("mark", r) /\ Takes("mark", r)
      /\ ~Puts("mark", r) /\ ~Puts(q, r) /\ x \in Items /\ m \in Items /\ x \in Nodes /\ m \in Nodes
      /\ \A y : Owns("mark", r, y) <=> y = x \/ y = m
      /\ \A y : Owns(q, r, y) => y = x \/ y = m
  BY <1>1, <1>2, <1>3, <1>4 DEF Marks, HasMark, Takes, Puts, Owns, TakePCs, SearchPCs, Locals, Nodes
<1>6. /\ state[x] = "linked" /\ info[x].deleting /\ ~info[x].inserting /\ ~info[x].marker
      /\ info[x].lvl \in Levels
  BY <1>3, <1>5 DEF TakeOK
<1>7. /\ state[m] = "linked" /\ info[m].marker
      /\ i <= info[x].lvl /\ i # 0 /\ \A l \in Levels : x \in On(next, l) <=> l <= i
      /\ (next[x][i] = m => next[m][i] = f) /\ r.prev[i] # Null
  BY <1>f, <1>3, <1>5 DEF MarkOK
<1>8. /\ i \in Levels /\ x # m /\ f \in Items \cup {Null}
  <2>1. i \in 0 .. MaxHeight + 1
    BY <1>1 DEF Locals
  <2>2. i \in Levels
    BY <1>6, <1>7, <2>1, BoundAssumption DEF Levels
  <2>3. r.fwd[i] \in Items \cup {Null}
    BY <1>1, <2>2 DEF Locals
  <2> QED
    BY <1>f, <1>6, <1>7, <2>2, <2>3
<1>9. x \in On(next, i) /\ x \in Line(i) /\ (\A l \in Levels : m \notin Line(l))
  <2>1. x \in On(next, i)
    <3>1. i <= i
      BY <1>8 DEF Levels
    <3> QED
      BY <1>7, <1>8, <3>1
  <2>2. \A l \in Levels : m \notin On(next, l)
    BY <1>7 DEF Inv, ListInv, Nodal
  <2>3. m # head
    BY <1>5, NodeAssumption
  <2> QED
    BY <2>1, <2>2, <2>3 DEF Line
<1>10. /\ next' \in [Nodes -> [Levels -> Items \cup {Null}]]
       /\ \A n \in Nodes : n # x /\ n # m => next'[n] = next[n]
       /\ \A l \in Levels : l # i => next'[x][l] = next[x][l] /\ next'[m][l] = next[m][l]
       /\ next'[m][i] = f /\ next'[x][i] = z
  <2>1. /\ next \in Table(Items \cup {Null}) /\ m \in Items \cup {Null}
        /\ f \in Items \cup {Null}
        /\ m \in Nodes /\ x \in Nodes /\ m # x /\ i \in Levels
    BY <1>1, <1>5, <1>8 DEF Table
  <2>2. MarkWrite(next', next, m, x, i, f)
    BY <1>w DEF MarkWrite
  <2>3. MarkWritten(next', next, Items \cup {Null}, m, x, i, f)
    BY <2>1, <2>2, MarkWrites
  <2> QED
    BY <1>0, <2>3 DEF MarkWritten, Table
<1>11. TypeOK'
  <2>1. pc' \in [Threads -> PCs] /\ loc' \in [Threads -> Locals]
    BY <1>1, <1>2 DEF PCs
  <2> QED
    BY <1>1, <1>2, <1>10, <2>1 DEF TypeOK, Locals
<1>12. \A u \in Threads : u # t => ~Owns(pc[u], loc[u], x) /\ ~Owns(pc[u], loc[u], m)
  BY <1>1, <1>5 DEF Inv, ListInv, Apart
\* A marker next to a node of the line is that of the node's delete.
<1>13. ASSUME NEW l \in Levels, NEW n \in Line(l), next[n][l] # Null, info[next[n][l]].marker
       PROVE  /\ n = x => next[n][l] = m /\ l = i
              /\ next[n][l] = m => n = x /\ l = i
  <2>1. PICK u \in Threads :
          Marks(pc[u], loc[u]) /\ n = loc[u].x /\ next[n][l] = loc[u].m /\ l = loc[u].i
    BY <1>13 DEF Inv, ListInv, NextIs
  <2>2. Owns(pc[u], loc[u], n) /\ Owns(pc[u], loc[u], next[n][l])
    BY <2>1 DEF Owns, HasMark, Takes
  <2>3. u # t => n # x /\ next[n][l] # m
    BY <1>12, <2>2
  <2> QED
    BY <2>1, <2>3
<1>14. \A l \in Levels : \A n \in Line(l) : After(n, l)' = After(n, l)
  <2> SUFFICES ASSUME NEW l \in Levels, NEW n \in Line(l) PROVE After(n, l)' = After(n, l)
    OBVIOUS
  <2> PICK y : y = next[n][l]
    OBVIOUS
  <2>1. n \in Nodes /\ n # m /\ y \in Items \cup {Null} /\ (y \in Items => y \in Nodes)
    BY <1>1, <1>9, LineFacts DEF Nodes
  <2>2. CASE n = x /\ l = i /\ q = "unlink"
    <3>1. After(n, l)' = f
      <4>1. next'[x][i] = m /\ next'[m][i] = f /\ info'[m].marker /\ m # Null
        BY <1>2, <1>4, <1>7, <1>10, <1>o, <2>2
      <4> QED
        BY <2>2, <4>1 DEF After, Behind
    <3>2. After(n, l) = f
      <4>1. CASE y = m
        BY <1>4, <1>7, <2>2, <4>1 DEF After, Behind
      <4>2. CASE y # m
        <5>1. y = f /\ (y # Null => ~info[y].marker)
          BY <1>13, <1>o, <2>2, <4>2
        <5> QED
          BY <5>1 DEF After, Behind
      <4> QED
        BY <4>1, <4>2
    <3> QED
      BY <3>1, <3>2
  <2>3. CASE ~(n = x /\ l = i /\ q = "unlink")
    <3>1. next'[n][l] = y
      BY <1>10, <1>o, <2>1, <2>3
    <3>2. y # Null /\ info[y].marker => next'[y][l] = next[y][l]
      <4> SUFFICES ASSUME y # Null, info[y].marker PROVE next'[y][l] = next[y][l]
        OBVIOUS
      <4>1. y # m
        BY <1>13, <1>o, <2>3
      <4>2. y # x
        BY <1>6
      <4> QED
        BY <1>10, <2>1, <4>1, <4>2
    <3>3. info' = info
      BY <1>2
    <3> QED
      BY <3>1, <3>2, <3>3 DEF After, Behind
  <2> QED
    BY <2>2, <2>3
<1>15. \A l \in Levels : On(next, l)' = On(next, l) /\ Line(l)' = Line(l)
  BY <1>1, <1>11, <1>14, LineStays
<1>16. \A u \in Threads : u # t => Undisturbed(u)
  <2> SUFFICES ASSUME NEW u \in Threads, u # t PROVE Undisturbed(u)
    OBVIOUS
  <2>1. \A y \in Items : Owns(pc[u], loc[u], y) => next'[y] = next[y]
    BY <1>10, <1>12 DEF Nodes
  <2> QED
    BY <1>1, <1>2, <1>15, <2>1, LetAlone
<1>17. \A u \in Threads, n \in Nodes, l \in Levels : <<n, l>> \in may[u] /\ n \notin Line(l) =>
         next'[n][l] = next[n][l] /\ next'[next[n][l]][l] = next[next[n][l]][l]
  <2> SUFFICES ASSUME NEW u \in Threads, NEW n \in Nodes, NEW l \in Levels,
                      <<n, l>> \in may[u], n \notin Line(l)
               PROVE  next'[n][l] = next[n][l] /\ next'[next[n][l]][l] = next[next[n][l]][l]
    OBVIOUS
  <2> PICK y : y = next[n][l]
    OBVIOUS
  <2>1. Gone(u, n, l) /\ ~info[n].marker /\ y \in Items \cup {Null}
    BY <1>1, MayFacts
  <2>2. /\ y # Null /\ info[y].marker
        /\ Marks(pc[t], loc[t]) /\ y = loc[t].m => n = loc[t].x
    BY <2>1 DEF Gone
  <2>3. n # m /\ y # x /\ y \in Nodes /\ (n = x => l # i) /\ (y = m => n = x)
    BY <1>1, <1>5, <1>6, <1>7, <1>9, <2>1, <2>2 DEF Nodes
  <2>4. next'[n][l] = y
    BY <1>10, <2>3
  <2>5. next'[y][l] = next[y][l]
    BY <1>10, <2>3
  <2> QED
    BY <2>4, <2>5
<1>18. \A u \in Threads : Marks(pc[u], loc[u]) =>
         /\ Marks(pc'[u], loc'[u])
         /\ loc'[u].x = loc[u].x /\ loc'[u].m = loc[u].m /\ loc'[u].i = loc[u].i
  BY <1>1, <1>2, <1>5
<1>19. NextIs'
  <2> SUFFICES ASSUME NEW l \in Levels, NEW n \in Line(l), next'[n][l] # Null
               PROVE  /\ state[next'[n][l]] = "linked"
                      /\ info[next'[n][l]].marker =>
                           \E u \in Threads :
                             /\ Marks(pc'[u], loc'[u]) /\ n = loc'[u].x
                             /\ next'[n][l] = loc'[u].m /\ l = loc'[u].i
    <3>1. state' = state /\ info' = info /\ \A l \in Levels : Line(l)' = Line(l)
      BY <1>2, <1>15
    <3> QED
      BY <3>1 DEF NextIs
  <2>1. CASE n = x /\ l = i /\ q = "unlink"
    <3>1. pc'[t] = q /\ loc'[t] = r /\ next'[n][l] = m
      <4>1. pc'[t] = q /\ loc'[t] = r
        BY <1>1, <1>2
      <4>2. z = m /\ next'[x][i] = z
        BY <1>10, <1>o, <2>1
      <4> QED
        BY <2>1, <4>1, <4>2
    <3> QED
      BY <1>5, <1>7, <2>1, <3>1
  <2>2. CASE ~(n = x /\ l = i /\ q = "unlink")
    <3>1. n \in Nodes /\ n # m
      BY <1>1, <1>9, LineFacts
    <3>2. next'[n][l] = next[n][l]
      BY <1>10, <1>o, <2>2, <3>1
    <3> QED
      BY <1>18, <3>2 DEF Inv, ListInv, NextIs
  <2> QED
    BY <2>1, <2>2
<1> PICK g : g = Grown(may)
  OBVIOUS
<1>20. ThreadInv(g, t)'
  <2>1. PutOK(q, r)'
    BY <1>5 DEF PutOK
  <2>2. TakeOK(q, r)'
    BY <1>2, <1>4, <1>6 DEF TakeOK
  <2>3. MarkOK(q, r)'
    <3>1. /\ state' = state /\ info' = info /\ next'[m][i] = f /\ (q = "unlink" => next'[x][i] = m)
          /\ \A l \in Levels : x \in On(next, l)' <=> l <= i
      <4>1. state' = state /\ info' = info /\ next'[m][i] = f
        BY <1>2, <1>10
      <4>2. q = "unlink" => next'[x][i] = m
        BY <1>10, <1>o
      <4>3. \A l \in Levels : x \in On(next, l)' <=> l <= i
        BY <1>7, <1>15
      <4> QED
        BY <4>1, <4>2, <4>3
    <3> QED
      BY <1>f, <1>2, <1>4, <1>7, <3>1 DEF MarkOK
  <2>4. Local(t, q, r)'
    BY <1>2, <1>3 DEF Local, InsertOnly, DeleteOnly
  <2>5. About(q, r)
    BY <1>2, <1>3, <1>4 DEF About, TakePCs, SearchPCs
  <2>6. Held(g, t, q, r)'
    <3>1. may[t] \subseteq g[t]
      BY <1>2, <1>3 DEF Grown
    <3>2. Safe(t, m)'
      BY <1>2, <1>5, <1>7 DEF Safe
    <3>3. q # "find"
      BY <1>2
    <3> QED
      BY <1>2, <1>3, <1>5, <3>1, <3>2, <3>3 DEF Held
  <2>7. pc'[t] = q /\ loc'[t] = r
    BY <1>1, <1>2
  <2> QED
    BY <2>1, <2>2, <2>3, <2>4, <2>5, <2>6, <2>7 DEF ThreadInv, ThreadOK
<1>21. Inv(g)' /\ Follows(may, g)
  <2>1. \A y \in Items : Owns(q, r, y) => Owns(pc[t], loc[t], y)
    BY <1>1, <1>5
  <2>2. \A n : info'[n] = info[n]
    BY <1>2
  <2>3. Marks(pc[t], loc[t]) /\ r.x = loc[t].x /\ r.m = loc[t].m
    BY <1>1, <1>5
  <2> QED
    BY <1>2, <1>11, <1>14, <1>16, <1>17, <1>19, <1>20, <2>1, <2>2, <2>3, StillStep
<1> QED
  BY <1>14, <1>15, <1>21 DEF Flat
-----------------------------------------------------------------------------
(* One pointer of the line is changed: a node is linked or unlinked. *)

\* On with the infos of the nodes as an argument.
BehindOf(nx, nf, n, l) ==
  LET y == nx[n][l]
  IN  IF y # Null /\ nf[y].marker THEN nx[y][l] ELSE y

OnOf(nx, nf, l) ==
  LET walk[k \in 0 .. Cardinality(Items)] ==
        IF k = 0 THEN {head}
        ELSE UNION {{n, IF n = Null THEN Null ELSE BehindOf(nx, nf, n, l)} : n \in walk[k - 1]}
  IN  walk[Cardinality(Items)] \ {head, Null}

(* The levels after a step that changes no info.                           *)
LEMMA OnNext == info' = info => On(next', 1) = On(next, 1)'
<1>1. On(next', 1) = OnOf(next', info, 1)
  BY DEF On, OnOf, Behind, BehindOf
<1>2. On(next, 1)' = OnOf(next', info', 1)
  BY DEF On, OnOf, Behind, BehindOf
<1> QED
  BY <1>1, <1>2

\* The word of p on level i becomes v.
Sets(p, i, v) ==
  /\ info' = info
  /\ \A n \in Nodes : n # p => next'[n] = next[n]
  /\ \A n \in Nodes, l \in Levels : ~(n = p /\ l = i) => next'[n][l] = next[n][l]
  /\ next'[p][i] = v

\* No marker.
Plain(v) == v # Null => ~info[v].marker

(* One pointer of the list is changed: what is behind the other nodes      *)
(* stays.                                                                  *)
LEMMA SetsAfter ==
  ASSUME NextTyped, NEW i \in Levels, NEW p \in Nodes, NEW v \in Items \cup {Null},
         Sets(p, i, v), Plain(v), ~info[p].marker
  PROVE  /\ After(p, i)' = v
         /\ \A n \in Nodes, l \in Levels : ~(n = p /\ l = i) => After(n, l)' = After(n, l)
<1>1. After(p, i)' = v
  BY DEF Sets, Plain, After, Behind
<1>2. ASSUME NEW n \in Nodes, NEW l \in Levels, ~(n = p /\ l = i)
      PROVE  After(n, l)' = After(n, l)
  <2> PICK y : y = next[n][l]
    OBVIOUS
  <2>1. next'[n][l] = y /\ y \in Items \cup {Null}
    BY <1>2 DEF Sets, NextTyped
  <2>2. y # Null /\ info[y].marker => next'[y][l] = next[y][l]
    <3> SUFFICES ASSUME y # Null, info[y].marker PROVE next'[y][l] = next[y][l]
      OBVIOUS
    <3>1. y \in Nodes /\ y # p
      BY <2>1 DEF Nodes
    <3> QED
      BY <3>1 DEF Sets
  <2>3. info' = info
    BY DEF Sets
  <2> QED
    BY <2>1, <2>2, <2>3 DEF After, Behind
<1> QED
  BY <1>1, <1>2

\* On level i only what is behind p changes.
Beside(i, p) ==
  \A l \in Levels : /\ l # i => On(next, l)' = On(next, l)
                    /\ \A n \in Line(l) : ~(n = p /\ l = i) => After(n, l)' = After(n, l)

\* x is put behind p on level i, and x, which was behind p, is taken out.
GoesIn(i, p, x) ==
  /\ i \in Levels /\ p \in Line(i) /\ x \in Items /\ x \notin On(next, i)
  /\ On(next, i)' = On(next, i) \cup {x}
  /\ After(p, i)' = x /\ After(x, i)' = After(p, i)
  /\ Beside(i, p)
GoesOff(i, p, x) ==
  /\ i \in Levels /\ p \in Line(i) /\ x \in On(next, i)
  /\ On(next, i)' = On(next, i) \ {x}
  /\ After(p, i) = x /\ After(p, i)' = After(x, i)
  /\ Beside(i, p)

(* So the other levels stay.                                               *)
LEMMA OtherLines ==
  ASSUME NEW may, Inv(may), NextTyped', NEW i \in Levels, NEW p \in Line(i),
         NEW v \in Items \cup {Null}, Sets(p, i, v), Plain(v), NEW l \in Levels, l # i
  PROVE  On(next, l)' = On(next, l) /\ OneEach(Succ(l)', On(next, l)')
<1>1. /\ NextTyped /\ p \in Nodes /\ ~info[p].marker
      /\ Least(Succ(l), On(next, l)) /\ On(next, l) \cup {head} \subseteq Nodes
      /\ OneEach(Succ(l), On(next, l))
  <2>1. TypeOK /\ Nodal /\ HeadIs /\ Lower /\ OneBehind
    BY DEF Inv, ListInv
  <2>2. ~info[p].marker
    BY <2>1 DEF Line, Nodal, HeadIs, NoInfo
  <2> QED
    BY <2>1, <2>2, LineFacts, TypedNext DEF OneBehind, Line
<1>2. Least(Succ(l)', On(next, l)')
  BY OnIsLeastNext
<1>3. \A n \in On(next, l) \cup {head} : Succ(l)'[n] = Succ(l)[n]
  BY <1>1, SetsAfter DEF Succ
<1>4. On(next, l)' = On(next, l)
  BY <1>1, <1>2, <1>3, LeastSame
<1> QED
  BY <1>1, <1>3, <1>4, OneEachSame

(* x is linked behind p.                                                   *)
LEMMA LineIn ==
  ASSUME NEW may, Inv(may), NextTyped', NEW i \in Levels, NEW p \in Line(i),
         NEW x \in Items, x \notin On(next, i), Sets(p, i, x), Plain(x),
         After(x, i) = After(p, i)
  PROVE  On(next, i)' = On(next, i) \cup {x} /\ OneEach(Succ(i)', On(next, i)')
<1>1. /\ NextTyped /\ p \in Nodes /\ ~info[p].marker /\ x # head /\ x # p /\ x \in Nodes
      /\ Least(Succ(i), On(next, i)) /\ On(next, i) \cup {head} \subseteq Nodes
      /\ OneEach(Succ(i), On(next, i)) /\ p \in On(next, i) \cup {head}
  <2>1. TypeOK /\ Nodal /\ HeadIs /\ OneBehind
    BY DEF Inv, ListInv
  <2>2. ~info[p].marker
    BY <2>1 DEF Line, Nodal, HeadIs, NoInfo
  <2> QED
    BY <2>1, <2>2, LineFacts, TypedNext, NodeAssumption DEF OneBehind, Line, Nodes
<1>2. Least(Succ(i)', On(next, i)')
  BY OnIsLeastNext
<1>3. /\ After(p, i)' = x
      /\ \A n \in Nodes : n # p => After(n, i)' = After(n, i)
  BY <1>1, SetsAfter
<1> PICK F, E, S, T : F = Succ(i) /\ E = Succ(i)' /\ S = On(next, i) /\ T = On(next, i)'
  OBVIOUS
<1>4. /\ E[p] = x /\ E[x] = F[p]
      /\ \A n \in (S \cup {head}) \ {p} : E[n] = F[n]
  BY <1>1, <1>3 DEF Succ
<1>5. T = S \cup {x}
  <2>1. Least(F, S) /\ Least(E, T) /\ p \in S \cup {head} /\ x \in Items \ S
    BY <1>1, <1>2
  <2> QED
    BY <1>4, <2>1, LeastIn
<1>6. OneEach(E, S \cup {x})
  <2>1. Shut(F, S) /\ OneEach(F, S) /\ p \in S \cup {head} /\ x \in Items \ S
    BY <1>1 DEF Least
  <2> QED
    BY <1>4, <2>1, OneEachIn
<1> QED
  BY <1>5, <1>6

(* x, which was behind p, is unlinked.                                     *)
LEMMA LineOut ==
  ASSUME NEW may, Inv(may), NextTyped', NEW i \in Levels, NEW p \in Line(i),
         NEW x \in On(next, i), NEW v \in Items \cup {Null}, Sets(p, i, v), Plain(v),
         After(p, i) = x, After(x, i) = v
  PROVE  On(next, i)' = On(next, i) \ {x} /\ OneEach(Succ(i)', On(next, i)')
<1>1. /\ NextTyped /\ p \in Nodes /\ ~info[p].marker
      /\ Least(Succ(i), On(next, i)) /\ On(next, i) \cup {head} \subseteq Nodes
      /\ OneEach(Succ(i), On(next, i)) /\ p \in On(next, i) \cup {head}
  <2>1. TypeOK /\ Nodal /\ HeadIs /\ OneBehind
    BY DEF Inv, ListInv
  <2>2. ~info[p].marker
    BY <2>1 DEF Line, Nodal, HeadIs, NoInfo
  <2> QED
    BY <2>1, <2>2, LineFacts, TypedNext DEF OneBehind, Line
<1>2. Least(Succ(i)', On(next, i)')
  BY OnIsLeastNext
<1>3. /\ After(p, i)' = v
      /\ \A n \in Nodes : n # p => After(n, i)' = After(n, i)
  BY <1>1, SetsAfter
<1> PICK F, E, S, T : F = Succ(i) /\ E = Succ(i)' /\ S = On(next, i) /\ T = On(next, i)'
  OBVIOUS
<1>4. /\ F[p] = x /\ E[p] = F[x]
      /\ \A n \in (S \cup {head}) \ {p} : E[n] = F[n]
  BY <1>1, <1>3 DEF Succ
<1>5. Least(F, S) /\ Least(E, T) /\ OneEach(F, S) /\ p \in S \cup {head} /\ x \in S
  BY <1>1, <1>2
<1>6. T = S \ {x}
  BY <1>4, <1>5, LeastOut
<1>7. OneEach(E, S \ {x})
  BY <1>4, <1>5, OneEachOut
<1> QED
  BY <1>6, <1>7

(* A thread that links or unlinks its node x behind p keeps the invariant. *)
LEMMA WordStep ==
  ASSUME NEW may, Inv(may), TypeOK', NEW t \in Threads, NEW q, NEW s,
         pc' = [pc EXCEPT ![t] = q], loc' = [loc EXCEPT ![t] = s],
         UNCHANGED <<inside, state, guards, height>>,
         NEW i \in Levels, NEW p \in Line(i), NEW x \in Items,
         NEW v \in Items \cup {Null}, Sets(p, i, v),
         Plain(v), Plain(next[p][i]), v # Null => state[v] = "linked",
         Owns(pc[t], loc[t], x), p # x,
         \A l \in Levels : l # i => On(next, l)' = On(next, l),
         \/ /\ On(next, i)' = On(next, i) \cup {x} /\ ~Marks(pc[t], loc[t])
            /\ Plain(next[x][i]) /\ (next[x][i] # Null => state[next[x][i]] = "linked")
         \/ /\ On(next, i)' = On(next, i) \ {x} /\ Marks(pc[t], loc[t])
            /\ loc[t].x = x /\ loc[t].i = i
            /\ \A u \in inside : StaysGone(u, x, i),
         Nodal', OneBehind', Lower', Towers',
         Marks(q, s) <=> Marks(pc[t], loc[t]), s.x = loc[t].x, s.m = loc[t].m,
         \A y \in Items : Owns(q, s, y) => Owns(pc[t], loc[t], y),
         NEW g, g = Grown(may), ThreadInv(g, t)'
  PROVE  Inv(g)' /\ Follows(may, g)
<1>1. /\ TypeOK /\ pc \in [Threads -> PCs] /\ loc \in [Threads -> Locals] /\ height \in Levels
      /\ next \in [Nodes -> [Levels -> Items \cup {Null}]]
  BY LocalsTyped DEF Inv, TypeOK
<1>2. pc'[t] = q /\ loc'[t] = s /\ \A u \in Threads : u # t => pc'[u] = pc[u] /\ loc'[u] = loc[u]
  BY <1>1
<1>3. /\ info' = info /\ next'[p][i] = v
      /\ \A n \in Nodes : n # p => next'[n] = next[n]
      /\ \A n \in Nodes, l \in Levels : ~(n = p /\ l = i) => next'[n][l] = next[n][l]
  BY DEF Sets
<1>4. /\ p \in Nodes /\ ~info[p].marker /\ x \in Nodes
      /\ \A l \in Levels : Line(l) \subseteq Nodes /\ Line(l)' = On(next, l)' \cup {head}
      /\ Line(i) = On(next, i) \cup {head}
  <2>1. Nodal /\ HeadIs
    BY DEF Inv, ListInv
  <2>2. ~info[p].marker
    BY <2>1 DEF Line, Nodal, HeadIs, NoInfo
  <2> QED
    BY <1>1, <2>2, LineFacts DEF Nodes, Line
<1>5. /\ \A l \in Levels : l # i => Line(l)' = Line(l)
      /\ Line(i)' = Line(i) \cup {x} \/ Line(i)' = On(next, i)' \cup {head}
  BY <1>4 DEF Line
<1>6. HeadIs'
  BY <1>3 DEF Inv, ListInv, HeadIs, NoInfo
<1>7. \A u \in Threads : u # t => ~Owns(pc[u], loc[u], x)
  BY DEF Inv, ListInv, Apart
<1>8. NextIs'
  <2> SUFFICES ASSUME NEW l \in Levels, NEW n \in Line(l)', next'[n][l] # Null
               PROVE  /\ state[next'[n][l]] = "linked"
                      /\ info[next'[n][l]].marker =>
                           \E u \in Threads :
                             /\ Marks(pc'[u], loc'[u]) /\ n = loc'[u].x
                             /\ next'[n][l] = loc'[u].m /\ l = loc'[u].i
    <3>1. state' = state /\ info' = info
      BY <1>3
    <3> QED
      BY <3>1 DEF NextIs
  <2>1. CASE n = p /\ l = i
    BY <1>3, <2>1 DEF Plain
  <2>2. CASE ~(n = p /\ l = i) /\ n = x /\ l = i
    <3>1. next'[n][l] = next[x][i] /\ x \in On(next, i)'
      <4>1. x # head /\ n \in On(next, i)' \cup {head}
        BY <1>4, <2>2, NodeAssumption
      <4> QED
        BY <1>3, <1>4, <2>2, <4>1
    <3> QED
      BY <3>1 DEF Plain
  <2>3. CASE ~(n = p /\ l = i) /\ ~(n = x /\ l = i)
    <3>1. n \in Line(l)
      BY <1>4, <1>5, <2>3
    <3>2. next'[n][l] = next[n][l]
      BY <1>3, <1>4, <2>3, <3>1
    <3>3. state[next[n][l]] = "linked"
      BY <3>1, <3>2 DEF Inv, ListInv, NextIs
    <3>4. ASSUME info[next[n][l]].marker
          PROVE  \E u \in Threads : /\ Marks(pc'[u], loc'[u]) /\ n = loc'[u].x
                                    /\ next[n][l] = loc'[u].m /\ l = loc'[u].i
      <4>1. PICK u \in Threads : /\ Marks(pc[u], loc[u]) /\ n = loc[u].x
                                 /\ next[n][l] = loc[u].m /\ l = loc[u].i
        BY <3>1, <3>2, <3>4 DEF Inv, ListInv, NextIs
      <4>2. u # t
        BY <2>3, <4>1
      <4> QED
        BY <1>2, <4>1, <4>2
    <3> QED
      BY <3>2, <3>3, <3>4
  <2> QED
    BY <2>1, <2>2, <2>3
<1>9. Apart'
  <2>1. \A u \in Threads, y \in Items : Owns(pc'[u], loc'[u], y) => Owns(pc[u], loc[u], y)
    BY <1>2
  <2> QED
    BY <2>1, ApartKeeps
<1>10. \A u \in Threads, n \in Nodes : Safe(u, n) => Safe(u, n)'
  BY DEF Safe
<1>11. ASSUME NEW u \in Threads, NEW n \in Nodes, NEW l \in Levels,
              u \in inside, <<n, l>> \in may[u], n \notin Line(l)'
       PROVE  StaysGone(u, n, l)
  <2>1. CASE n \notin Line(l)
    <3> PICK y : y = next[n][l]
      OBVIOUS
    <3>1. Gone(u, n, l) /\ ~info[n].marker
      BY <1>11, <2>1, MayFacts
    <3>2. y \in Items /\ y \in Nodes /\ info[y].marker
      BY <1>1, <3>1 DEF Gone, Nodes
    <3>3. next'[n][l] = y /\ next'[y][l] = next[y][l]
      BY <1>3, <1>4, <2>1, <3>2
    <3>4. \A w \in Threads : Marks(pc'[w], loc'[w]) /\ y = loc'[w].m =>
            Marks(pc[w], loc[w]) /\ y = loc[w].m /\ loc'[w].x = loc[w].x
      BY <1>2
    <3>5. Sees(u)
      BY <1>3, <1>10 DEF Sees
    <3> QED
      BY <1>11, <2>1, <3>3, <3>4, <3>5, GoneStays
  <2>2. CASE n \in Line(l)
    <3>1. l = i /\ n = x /\ n \in On(next, i)
      BY <1>4, <1>5, <1>11, <2>2
    <3>2. x \notin On(next, i)'
      BY <1>4, <1>11, <3>1
    <3> QED
      BY <1>11, <3>1, <3>2
  <2> QED
    BY <2>1, <2>2
<1>12. ASSUME NEW u \in Threads, u # t PROVE Undisturbed(u)
  <2> PICK o, r : o = pc[u] /\ r = loc[u]
    OBVIOUS
  <2>1. ThreadOK(may, u, o, r) /\ r \in Locals
    BY <1>1 DEF Inv, ThreadInv
  <2>2. \A y \in Items : Owns(o, r, y) =>
          /\ state'[y] = state[y] /\ info'[y] = info[y]
          /\ \A l \in Levels : y \in On(next, l)' <=> y \in On(next, l)
    <3> SUFFICES ASSUME NEW y \in Items, Owns(o, r, y), NEW l \in Levels
                 PROVE  y \in On(next, l)' <=> y \in On(next, l)
      BY <1>3
    <3>1. y # x
      BY <1>7, <1>12
    <3> QED
      BY <3>1
  <2>3. Puts(o, r) /\ o = "link" => next'[r.x][r.i] = next[r.x][r.i]
    <3> SUFFICES ASSUME Puts(o, r), o = "link" PROVE next'[r.x][r.i] = next[r.x][r.i]
      OBVIOUS
    <3>1. /\ r.x \in Items /\ r.x \in Nodes
          /\ \A l \in Levels : r.x \in On(next, l) <=> l < r.i
          /\ info[r.x].lvl \in Levels /\ r.i \in 1 .. info[r.x].lvl
      BY <2>1 DEF ThreadOK, PutOK, Puts, Locals, Nodes
    <3>2. r.i \in Levels /\ ~(r.i < r.i)
      BY <3>1, BoundAssumption DEF Levels
    <3>3. ~(r.x = p /\ r.i = i)
      <4>1. r.x # head
        BY <3>1, NodeAssumption
      <4>2. r.x \notin On(next, r.i)
        BY <3>1, <3>2
      <4> QED
        BY <1>4, <4>1, <4>2
    <3> QED
      BY <1>3, <3>1, <3>2, <3>3
  <2>4. Marks(o, r) => /\ next'[r.x][r.i] = r.m <=> next[r.x][r.i] = r.m
                       /\ next'[r.m][r.i] = next[r.m][r.i]
    <3> SUFFICES ASSUME Marks(o, r)
                 PROVE  /\ next'[r.x][r.i] = r.m <=> next[r.x][r.i] = r.m
                        /\ next'[r.m][r.i] = next[r.m][r.i]
      OBVIOUS
    <3>1. /\ r.x \in Items /\ r.x \in Nodes /\ r.m \in Items /\ r.m \in Nodes /\ r.m # Null
          /\ info[r.m].marker
          /\ \A l \in Levels : r.x \in On(next, l) <=> l <= r.i
          /\ r.i <= info[r.x].lvl /\ info[r.x].lvl \in Levels
      BY <2>1 DEF ThreadOK, TakeOK, MarkOK, Takes, HasMark, Locals, Nodes
    <3>2. r.m # p
      BY <1>4, <3>1
    <3>3. CASE r.x # p
      BY <1>3, <3>1, <3>2, <3>3
    <3>4. CASE r.x = p
      <4>1. r.x # head /\ p \in On(next, i)
        BY <1>4, <3>1, <3>4, NodeAssumption
      <4>2. i <= r.i
        BY <3>1, <3>4, <4>1
      <4>3. r.i \in Levels
        <5>1. r.i \in 0 .. MaxHeight + 1
          BY <2>1 DEF Locals
        <5> QED
          BY <3>1, <4>2, <5>1, BoundAssumption DEF Levels
      <4>4. next[p][i] # r.m /\ v # r.m
        BY <3>1 DEF Plain
      <4> QED
        BY <1>3, <1>4, <3>1, <3>2, <3>4, <4>3, <4>4
    <3> QED
      BY <3>3, <3>4
  <2> QED
    BY <2>2, <2>3, <2>4 DEF Undisturbed
<1>13. ASSUME NEW u \in Threads, u # t PROVE ThreadInv(g, u)'
  <2>1. may[u] \subseteq g[u]
    BY DEF Grown, Inv, Ghost
  <2>2. height' >= height
    BY <1>1, BoundAssumption DEF Levels
  <2>3. Undisturbed(u) /\ pc'[u] = pc[u] /\ loc'[u] = loc[u]
    BY <1>2, <1>12, <1>13
  <2>4. \A n \in Nodes : u \in inside /\ Safe(u, n) => Safe(u, n)' /\ info'[n].lvl = info[n].lvl
    BY <1>3, <1>10
  <2> QED
    BY <2>1, <2>2, <2>3, <2>4, OtherThread
<1>14. Ghost(g)' /\ Follows(may, g)
  BY <1>6, <1>11, GhostStep
<1> QED
  BY <1>6, <1>8, <1>9, <1>13, <1>14 DEF Inv, ListInv

(* An insert links its node on a level.                                    *)
LEMMA InsertLinkInv ==
  ASSUME NEW may, Inv(may), NEW t \in Threads, InsertLink(t)
  PROVE  (\E g : Inv(g)' /\ Follows(may, g)) /\ GoesIn(loc[t].i, loc[t].prev[loc[t].i], loc[t].x)
<1> PICK r, x, i : r = loc[t] /\ x = r.x /\ i = r.i
  OBVIOUS
<1>p. PICK p, f : p = r.prev[i] /\ f = r.fwd[i]
  OBVIOUS
<1> DEFINE s == [r EXCEPT !.i = i + 1]
<1>0. PICK q : q = IF i = info[x].lvl THEN "inserted" ELSE "check"
  OBVIOUS
<1>1. /\ TypeOK /\ ThreadOK(may, t, "link", r) /\ pc[t] = "link" /\ r \in Locals
      /\ pc \in [Threads -> PCs] /\ loc \in [Threads -> Locals]
      /\ next \in [Nodes -> [Levels -> Items \cup {Null}]] /\ NextTyped
  BY <1>p, LocalsTyped, TypedNext DEF Inv, ThreadInv, InsertLink, Goto, TypeOK
<1>2. /\ pc' = [pc EXCEPT ![t] = q] /\ next[p][i] = f
      /\ next' = [next EXCEPT ![p][i] = x]
      /\ UNCHANGED <<inside, state, guards, dupl, height, incr_key, num, info, todo>>
      /\ IF i = 1 THEN See(next', info) ELSE UNCHANGED hist
  BY <1>0, <1>p DEF InsertLink, Goto, Fwd, Prev, poolVars, fields
<1>3. loc' = [loc EXCEPT ![t] = s]
  BY <1>1, <1>p DEF InsertLink, Locals
<1>4. /\ r.op = "insert" /\ r.x # Null /\ t \in inside /\ Puts("link", r)
      /\ x \in Items /\ x \in Nodes /\ Local(t, "link", r) /\ About("link", r)
      /\ Held(may, t, "link", r) /\ PutOK("link", r) /\ r.key \in Keys /\ r.m = Null
  BY <1>1 DEF ThreadOK, Local, About, InsertOnly, Puts, PutPCs, Locals, Nodes
<1>5. /\ info[x].lvl \in Levels /\ i \in 1 .. info[x].lvl
      /\ ~info[x].deleting /\ ~info[x].marker
      /\ \A l \in Levels : x \in On(next, l) <=> l < i
      /\ state[x] = "linked" /\ info[x].inserting /\ info[x].key = r.key
      /\ info[x].lvl <= height /\ \A k \in 1 .. info[x].lvl : r.prev[k] # Null
      /\ next[x][i] = f
  BY <1>p, <1>4 DEF PutOK
<1>6. /\ i \in Levels /\ f \in Items \cup {Null} /\ p \in Nodes /\ i + 1 \in 1 .. MaxHeight + 1
      /\ i \in Nat /\ i >= 1 /\ i <= info[x].lvl /\ info[x].lvl \in Nat
  <2>1. i \in Levels /\ i + 1 \in 1 .. MaxHeight + 1 /\ i \in Nat /\ i >= 1 /\ i <= info[x].lvl
        /\ info[x].lvl \in Nat
    BY <1>5, BoundAssumption DEF Levels
  <2>2. r.fwd[i] \in Items \cup {Null} /\ r.prev[i] \in Items \cup {Null} \cup {head}
    BY <1>1, <2>1 DEF Locals
  <2>3. p # Null
    BY <1>p, <1>5, <2>1
  <2> QED
    BY <1>p, <2>1, <2>2, <2>3 DEF Nodes
<1>7. /\ q \in {"inserted", "check"} /\ (q = "inserted" <=> i = info[x].lvl)
  BY <1>0
<1>8. /\ s \in Locals
      /\ s.op = "insert" /\ s.key = r.key /\ s.x = x /\ s.i = i + 1 /\ s.m = Null
      /\ s.prev = r.prev /\ s.fwd = r.fwd /\ s.at = r.at /\ s.lvl = r.lvl
  <2>1. i + 1 \in 0 .. MaxHeight + 1
    BY <1>6
  <2> QED
    BY <1>1, <1>4, <2>1 DEF Locals
<1> HIDE DEF s
<1>9. <<p, i>> \in may[t] /\ (f # Null => <<f, i>> \in may[t])
  BY <1>p, <1>4, <1>5, <1>6 DEF Held
<1>10. Plain(f)
  BY <1>6, <1>9, MayFacts DEF Plain, Nodes
<1>11. p \in Line(i)
  <2> SUFFICES ASSUME p \notin Line(i) PROVE FALSE
    OBVIOUS
  <2>1. Gone(t, p, i)
    BY <1>6, <1>9, MayFacts
  <2> QED
    BY <1>2, <1>10, <2>1 DEF Gone, Plain
<1>12. /\ x \notin On(next, i) /\ x \notin Line(i) /\ p # x
       /\ After(p, i) = f /\ After(x, i) = f
  <2>1. x # head /\ ~(i < i)
    BY <1>4, <1>6, NodeAssumption
  <2>2. x \notin On(next, i)
    BY <1>5, <1>6, <2>1
  <2>3. x \notin Line(i)
    BY <2>1, <2>2 DEF Line
  <2> QED
    BY <1>2, <1>5, <1>10, <1>11, <2>2, <2>3 DEF After, Behind, Plain
<1>13. f # Null => state[f] = "linked"
  BY <1>2, <1>6, <1>11 DEF Inv, ListInv, NextIs
<1>14. /\ Sets(p, i, x) /\ next' \in [Nodes -> [Levels -> Items \cup {Null}]] /\ NextTyped'
       /\ next'[x] = next[x]
  <2>1. /\ next' \in [Nodes -> [Levels -> Items \cup {Null}]]
        /\ \A n \in Nodes : n # p => next'[n] = next[n]
        /\ \A l \in Levels : l # i => next'[p][l] = next[p][l]
        /\ next'[p][i] = x
    BY <1>1, <1>2, <1>4, <1>6
  <2>2. \A n \in Nodes, l \in Levels : ~(n = p /\ l = i) => next'[n][l] = next[n][l]
    BY <2>1
  <2>3. next'[x] = next[x]
    BY <1>4, <1>12, <2>1
  <2>4. Sets(p, i, x)
    BY <1>2, <2>1, <2>2 DEF Sets
  <2> QED
    BY <2>1, <2>3, <2>4 DEF NextTyped
<1>15. Plain(x)
  BY <1>5 DEF Plain
<1>16. /\ \A l \in Levels : l # i => On(next, l)' = On(next, l) /\ OneEach(Succ(l)', On(next, l)')
       /\ On(next, i)' = On(next, i) \cup {x} /\ OneEach(Succ(i)', On(next, i)')
  <2>1. \A l \in Levels : l # i => On(next, l)' = On(next, l) /\ OneEach(Succ(l)', On(next, l)')
    BY <1>4, <1>6, <1>11, <1>14, <1>15, OtherLines
  <2>2. On(next, i)' = On(next, i) \cup {x} /\ OneEach(Succ(i)', On(next, i)')
    BY <1>4, <1>6, <1>11, <1>12, <1>14, <1>15, LineIn
  <2> QED
    BY <2>1, <2>2
<1>17. \A l \in Levels : \A n \in On(next, l)' :
         /\ n \in Items /\ state[n] = "linked" /\ ~info[n].marker
         /\ l <= info[n].lvl /\ info[n].key \in Keys
  <2>1. Nodal
    BY DEF Inv, ListInv
  <2>2. \A l \in Levels : \A n \in On(next, l) :
          /\ n \in Items /\ state[n] = "linked" /\ ~info[n].marker
          /\ l <= info[n].lvl /\ info[n].key \in Keys
    BY <2>1 DEF Nodal
  <2> QED
    BY <1>4, <1>5, <1>6, <1>16, <2>2
<1>18. Nodal'
  <2>1. state' = state /\ info' = info
    BY <1>2
  <2> QED
    BY <1>17, <2>1 DEF Nodal
<1>19. TypeOK'
  <2>1. recs' \subseteq Recs /\ seen' \in [Threads -> SUBSET SUBSET Recs]
    <3>1. CASE i = 1
      <4>1. \A n \in On(next', 1) : n \in Items /\ info[n].key \in Keys /\ info[n].incr \in Nat
        <5>1. On(next', 1) = On(next, 1)'
          BY <1>2, OnNext
        <5>2. \A n \in Items : info[n].incr \in Nat
          BY <1>1 DEF TypeOK, Nodes
        <5> QED
          BY <1>17, <5>1, <5>2, LevelOne
      <4>2. See(next', info)
        BY <1>2, <3>1
      <4> QED
        BY <1>1, <4>1, <4>2, SeeTyped
    <3>2. CASE i # 1
      BY <1>1, <1>2, <3>2 DEF TypeOK, hist
    <3> QED
      BY <3>1, <3>2
  <2>2. pc' \in [Threads -> PCs] /\ loc' \in [Threads -> Locals]
    BY <1>1, <1>2, <1>3, <1>7, <1>8 DEF PCs
  <2> QED
    BY <1>1, <1>2, <1>14, <2>1, <2>2 DEF TypeOK, Locals
<1>20. OneBehind'
  BY <1>16 DEF OneBehind
<1>21. Lower'
  <2> SUFFICES ASSUME NEW l \in Levels, l > 1 PROVE On(next, l)' \subseteq On(next, l - 1)'
    BY DEF Lower
  <2> PICK k : k = l - 1
    OBVIOUS
  <2>1. k \in Levels /\ (l = i => k < i /\ k # i) /\ (k = i => l # i)
    BY <1>6, BoundAssumption DEF Levels
  <2>2. On(next, l) \subseteq On(next, k)
    BY DEF Inv, ListInv, Lower
  <2>3. l = i => x \in On(next, k)
    BY <1>5, <2>1
  <2>4. On(next, k) \subseteq On(next, k)'
    BY <1>16, <2>1
  <2>5. On(next, l)' \subseteq On(next, l) \cup {x} /\ (l # i => On(next, l)' = On(next, l))
    BY <1>16
  <2>6. On(next, l)' \subseteq On(next, k)'
    BY <2>2, <2>3, <2>4, <2>5
  <2>7. On(next, l - 1)' = On(next, k)'
    OBVIOUS
  <2> QED
    BY <2>6, <2>7
<1>22. Towers'
  <2> SUFFICES ASSUME NEW y \in On(next, 1)', ~info[y].inserting, ~info[y].deleting,
                      NEW l \in 1 .. info[y].lvl
               PROVE  y \in On(next, l)'
    <3>1. info' = info
      BY <1>2
    <3> QED
      BY <3>1 DEF Towers
  <2>1. y # x
    BY <1>5
  <2>2. y \in On(next, 1)
    BY <1>16, <2>1, LevelOne
  <2>3. y \in On(next, l)
    BY <2>2 DEF Inv, ListInv, Towers
  <2>4. l \in Levels
    <3>1. info[y].lvl \in 0 .. MaxHeight
      BY <1>1, <1>17, LevelOne DEF TypeOK, Nodes
    <3> QED
      BY <3>1, BoundAssumption DEF Levels
  <2> QED
    BY <1>16, <2>3, <2>4
<1>23. /\ ~Marks("link", r) /\ ~Marks(q, s) /\ ~Takes(q, s) /\ ~HasMark(q, s)
       /\ Owns("link", r, x) /\ \A y : Owns(q, s, y) => y = x
       /\ Puts(q, s)
  BY <1>4, <1>7, <1>8 DEF Marks, Takes, HasMark, Puts, PutPCs, Owns
<1> PICK g : g = Grown(may)
  OBVIOUS
<1>24. ThreadInv(g, t)'
  <2>1. PutOK(q, s)'
    <3>1. /\ state'[x] = "linked" /\ info'[x] = info[x] /\ height' = height
      BY <1>2, <1>5
    <3>2. \A l \in Levels : x \in On(next, l)' <=> l < i + 1
      <4> SUFFICES ASSUME NEW l \in Levels PROVE x \in On(next, l)' <=> l < i + 1
        OBVIOUS
      <4>1. l \in Nat
        BY DEF Levels
      <4>2. x \in On(next, l)' <=> l < i \/ l = i
        BY <1>5, <1>16
      <4> QED
        BY <1>6, <4>1, <4>2
    <3>3. /\ q = "inserted" => i + 1 = info[x].lvl + 1
          /\ q = "check" => i + 1 \in 1 .. info[x].lvl
      BY <1>6, <1>7
    <3> QED
      BY <1>5, <1>7, <1>8, <3>1, <3>2, <3>3 DEF PutOK, SearchPCs
  <2>2. TakeOK(q, s)' /\ MarkOK(q, s)'
    BY <1>23 DEF TakeOK, MarkOK
  <2>3. Local(t, q, s)'
    BY <1>2, <1>4, <1>7, <1>8 DEF Local, InsertOnly, DeleteOnly
  <2>4. About(q, s)
    BY <1>4, <1>7, <1>8 DEF About
  <2>5. Held(g, t, q, s)'
    <3>1. may[t] \subseteq g[t]
      BY <1>2, <1>4 DEF Grown
    <3>2. <<x, 1>> \in g[t]
      <4>1. x \in On(next, 1)'
        <5>1. 1 < i \/ 1 = i
          BY <1>6
        <5> QED
          BY <1>5, <1>16, <5>1, LevelOne
      <4>2. x \in Line(1)' /\ t \in inside'
        BY <1>2, <1>4, <4>1 DEF Line
      <4>3. <<x, 1>> \in {e \in Nodes \X Levels : e[1] \in Line(e[2])'}
        BY <1>4, <4>2, LevelOne
      <4> QED
        BY <4>2, <4>3 DEF Grown
    <3> QED
      BY <1>2, <1>4, <1>7, <1>8, <3>1, <3>2 DEF Held
  <2>6. pc'[t] = q /\ loc'[t] = s
    BY <1>1, <1>2, <1>3
  <2> QED
    BY <2>1, <2>2, <2>3, <2>4, <2>5, <2>6 DEF ThreadInv, ThreadOK
<1>25. Inv(g)' /\ Follows(may, g)
  <2>1. UNCHANGED <<inside, state, guards, height>>
    BY <1>2
  <2> PICK v : v = x
    OBVIOUS
  <2>2. /\ Plain(next[p][i]) /\ Plain(v)
        /\ (v # Null => state[v] = "linked") /\ v \in Items \cup {Null}
    BY <1>2, <1>4, <1>5, <1>10, <1>15
  <2>3. Owns(pc[t], loc[t], x) /\ ~Marks(pc[t], loc[t])
    BY <1>1, <1>23
  <2>4. Plain(next[x][i]) /\ (next[x][i] # Null => state[next[x][i]] = "linked")
    BY <1>5, <1>10, <1>13
  <2>5. \A l \in Levels : l # i => On(next, l)' = On(next, l)
    BY <1>16
  <2>6. (Marks(q, s) <=> Marks(pc[t], loc[t])) /\ s.x = loc[t].x /\ s.m = loc[t].m
    BY <1>4, <1>8, <1>23, <2>3
  <2>7. \A y \in Items : Owns(q, s, y) => Owns(pc[t], loc[t], y)
    BY <1>23, <2>3
  <2>8. \/ /\ On(next, i)' = On(next, i) \cup {x} /\ ~Marks(pc[t], loc[t])
           /\ Plain(next[x][i]) /\ (next[x][i] # Null => state[next[x][i]] = "linked")
        \/ /\ On(next, i)' = On(next, i) \ {x} /\ Marks(pc[t], loc[t])
           /\ loc[t].x = x /\ loc[t].i = i
           /\ \A u \in inside : StaysGone(u, x, i)
    BY <1>16, <2>3, <2>4
  <2>9. /\ pc' = [pc EXCEPT ![t] = q] /\ loc' = [loc EXCEPT ![t] = s] /\ i \in Levels
        /\ x \in Items /\ Sets(p, i, v) /\ p # x
    BY <1>2, <1>3, <1>4, <1>6, <1>12, <1>14
  <2> QED
    BY <1>11, <1>18, <1>19, <1>20, <1>21, <1>22, <1>24, <2>1, <2>2, <2>3, <2>5, <2>6,
       <2>7, <2>8, <2>9, WordStep, ZenonT(60)
<1>26. GoesIn(i, p, x)
  <2>1. ~info[p].marker
    BY <1>6, <1>9, MayFacts
  <2>2. /\ After(p, i)' = x
        /\ \A n \in Nodes, l \in Levels : ~(n = p /\ l = i) => After(n, l)' = After(n, l)
    BY <1>1, <1>4, <1>6, <1>14, <1>15, <2>1, SetsAfter
  <2>3. \A l \in Levels : Line(l) \subseteq Nodes
    BY <1>1, LineFacts
  <2>4. After(x, i)' = After(p, i)
    BY <1>4, <1>6, <1>12, <2>2
  <2> QED
    BY <1>4, <1>6, <1>11, <1>12, <1>16, <2>2, <2>3, <2>4 DEF GoesIn, Beside
<1> QED
  BY <1>p, <1>25, <1>26

(* A delete unlinks its node, with its marker, from a level.               *)
LEMMA DeleteUnlinkInv ==
  ASSUME NEW may, Inv(may), NEW t \in Threads, DeleteUnlink(t)
  PROVE  (\E g : Inv(g)' /\ Follows(may, g)) /\ GoesOff(loc[t].i, loc[t].prev[loc[t].i], loc[t].x)
<1> PICK r, x, m, i : r = loc[t] /\ x = r.x /\ m = r.m /\ i = r.i
  OBVIOUS
<1>p. PICK p, f : p = r.prev[i] /\ f = r.fwd[i]
  OBVIOUS
<1> DEFINE s == [r EXCEPT !.i = i - 1]
<1>0. PICK q : q = IF i = 1 THEN "free_x" ELSE "prev"
  OBVIOUS
<1>1. /\ TypeOK /\ ThreadOK(may, t, "unlink", r) /\ pc[t] = "unlink" /\ r \in Locals
      /\ pc \in [Threads -> PCs] /\ loc \in [Threads -> Locals]
      /\ next \in [Nodes -> [Levels -> Items \cup {Null}]] /\ NextTyped
  BY <1>p, LocalsTyped, TypedNext DEF Inv, ThreadInv, DeleteUnlink, Goto, TypeOK
<1>2. /\ pc' = [pc EXCEPT ![t] = q] /\ next[p][i] = x
      /\ next' = [next EXCEPT ![p][i] = f]
      /\ UNCHANGED <<inside, state, guards, dupl, height, incr_key, num, info, todo>>
      /\ IF i = 1 THEN See(next', info) ELSE UNCHANGED hist
  BY <1>0, <1>p DEF DeleteUnlink, Goto, Fwd, Prev, poolVars, fields
<1>3. loc' = [loc EXCEPT ![t] = s]
  BY <1>1, <1>p DEF DeleteUnlink, Locals
<1>4. /\ r.op = "delete" /\ t \in inside /\ Local(t, "unlink", r) /\ About("unlink", r)
      /\ Held(may, t, "unlink", r) /\ TakeOK("unlink", r) /\ MarkOK("unlink", r)
  BY <1>1 DEF ThreadOK, Local, DeleteOnly
<1>5. r.x # Null /\ r.m # Null
  <2>1. r.x # Null
    BY <1>4 DEF About, SearchPCs
  <2> QED
    BY <1>4, <2>1 DEF About
<1>6. /\ Marks("unlink", r) /\ HasMark("unlink", r) /\ Takes("unlink", r) /\ ~Puts("unlink", r)
      /\ x \in Items /\ m \in Items /\ x \in Nodes /\ m \in Nodes
      /\ \A y : Owns("unlink", r, y) <=> y = x \/ y = m
  BY <1>1, <1>4, <1>5 DEF Marks, HasMark, Takes, Puts, Owns, TakePCs, SearchPCs, Locals, Nodes
<1>7. /\ state[x] = "linked" /\ info[x].deleting /\ ~info[x].inserting /\ ~info[x].marker
      /\ info[x].lvl \in Levels
  BY <1>4, <1>6 DEF TakeOK
<1>8. /\ state[m] = "linked" /\ info[m].marker
      /\ i <= info[x].lvl /\ i # 0 /\ (\A l \in Levels : x \in On(next, l) <=> l <= i)
      /\ next[x][i] = m /\ next[m][i] = f /\ p # Null
  BY <1>p, <1>4, <1>6 DEF MarkOK
<1>9. /\ i \in Levels /\ x # m /\ f \in Items \cup {Null} /\ p \in Nodes
      /\ i \in Nat /\ i >= 1 /\ i - 1 \in 0 .. MaxHeight /\ info[x].lvl \in Nat
  <2>1. i \in 0 .. MaxHeight + 1
    BY <1>1 DEF Locals
  <2>2. /\ i \in Levels /\ i \in Nat /\ i >= 1 /\ i - 1 \in 0 .. MaxHeight
        /\ info[x].lvl \in Nat
    BY <1>7, <1>8, <2>1, BoundAssumption DEF Levels
  <2>3. r.fwd[i] \in Items \cup {Null} /\ r.prev[i] \in Items \cup {Null} \cup {head}
    BY <1>1, <2>2 DEF Locals
  <2> QED
    BY <1>p, <1>7, <1>8, <2>2, <2>3 DEF Nodes
<1>10. /\ q \in {"free_x", "prev"} /\ (q = "free_x" <=> i = 1)
  BY <1>0
<1>11. /\ s \in Locals
       /\ s.op = "delete" /\ s.key = r.key /\ s.x = x /\ s.i = i - 1 /\ s.m = m
       /\ s.prev = r.prev /\ s.fwd = r.fwd /\ s.at = r.at /\ s.lvl = r.lvl
  <2>1. i - 1 \in 0 .. MaxHeight + 1
    BY <1>9, BoundAssumption
  <2> QED
    BY <1>1, <1>4, <2>1 DEF Locals
<1> HIDE DEF s
<1>12. <<p, i>> \in may[t]
  BY <1>p, <1>4, <1>8, <1>9 DEF Held
<1>13. p \in Line(i)
  <2> SUFFICES ASSUME p \notin Line(i) PROVE FALSE
    OBVIOUS
  <2>1. Gone(t, p, i)
    BY <1>9, <1>12, MayFacts
  <2> QED
    BY <1>2, <1>7, <2>1 DEF Gone
<1>14. x \in On(next, i) /\ x \in Line(i)
  <2>1. i <= i
    BY <1>9
  <2> QED
    BY <1>8, <1>9, <2>1 DEF Line
<1>15. After(p, i) = x /\ After(x, i) = f
  BY <1>2, <1>5, <1>7, <1>8 DEF After, Behind
<1>16. p # x
  <2>1. Least(Succ(i), On(next, i)) /\ OneEach(Succ(i), On(next, i))
    BY <1>1, <1>9, LineFacts DEF Inv, ListInv, OneBehind
  <2>2. Succ(i)[x] # x
    BY <1>14, <2>1, NotItself
  <2>3. Succ(i)[p] = x
    BY <1>9, <1>15 DEF Succ
  <2> QED
    BY <2>2, <2>3
<1>17. Plain(f) /\ (f # Null => state[f] = "linked")
  <2>1. f \in On(next, i) \cup {Null}
    BY <1>1, <1>9, <1>14, <1>15, LineFacts
  <2> QED
    BY <1>9, <2>1 DEF Inv, ListInv, Nodal, Plain
<1>18. /\ Sets(p, i, f) /\ next' \in [Nodes -> [Levels -> Items \cup {Null}]] /\ NextTyped'
       /\ next'[x] = next[x] /\ next'[m] = next[m]
  <2>1. /\ next' \in [Nodes -> [Levels -> Items \cup {Null}]]
        /\ \A n \in Nodes : n # p => next'[n] = next[n]
        /\ \A l \in Levels : l # i => next'[p][l] = next[p][l]
        /\ next'[p][i] = f
    BY <1>1, <1>2, <1>9
  <2>2. \A n \in Nodes, l \in Levels : ~(n = p /\ l = i) => next'[n][l] = next[n][l]
    BY <2>1
  <2>3. next'[x] = next[x]
    BY <1>6, <1>16, <2>1
  <2>4. Sets(p, i, f)
    BY <1>2, <2>1, <2>2 DEF Sets
  <2>5. m # p
    BY <1>8, <1>9, <1>12, MayFacts
  <2>6. next'[m] = next[m]
    BY <1>6, <2>1, <2>5
  <2> QED
    BY <2>1, <2>3, <2>4, <2>6 DEF NextTyped
<1>19. /\ \A l \in Levels : l # i => On(next, l)' = On(next, l) /\ OneEach(Succ(l)', On(next, l)')
       /\ On(next, i)' = On(next, i) \ {x} /\ OneEach(Succ(i)', On(next, i)')
  <2>1. \A l \in Levels : l # i => On(next, l)' = On(next, l) /\ OneEach(Succ(l)', On(next, l)')
    BY <1>9, <1>13, <1>17, <1>18, OtherLines
  <2>2. On(next, i)' = On(next, i) \ {x} /\ OneEach(Succ(i)', On(next, i)')
    BY <1>9, <1>13, <1>14, <1>15, <1>17, <1>18, LineOut
  <2> QED
    BY <2>1, <2>2
<1>20. \A l \in Levels : On(next, l)' \subseteq On(next, l)
  BY <1>19
<1>21. \A l \in Levels : \A n \in On(next, l)' :
         /\ n \in Items /\ state[n] = "linked" /\ ~info[n].marker
         /\ l <= info[n].lvl /\ info[n].key \in Keys
  <2>1. Nodal
    BY DEF Inv, ListInv
  <2> QED
    BY <1>20, <2>1 DEF Nodal
<1>22. Nodal'
  <2>1. state' = state /\ info' = info
    BY <1>2
  <2> QED
    BY <1>21, <2>1 DEF Nodal
<1>23. TypeOK'
  <2>1. recs' \subseteq Recs /\ seen' \in [Threads -> SUBSET SUBSET Recs]
    <3>1. CASE i = 1
      <4>1. \A n \in On(next', 1) : n \in Items /\ info[n].key \in Keys /\ info[n].incr \in Nat
        <5>1. On(next', 1) = On(next, 1)'
          BY <1>2, OnNext
        <5>2. \A n \in Items : info[n].incr \in Nat
          BY <1>1 DEF TypeOK, Nodes
        <5> QED
          BY <1>21, <5>1, <5>2, LevelOne
      <4>2. See(next', info)
        BY <1>2, <3>1
      <4> QED
        BY <1>1, <4>1, <4>2, SeeTyped
    <3>2. CASE i # 1
      BY <1>1, <1>2, <3>2 DEF TypeOK, hist
    <3> QED
      BY <3>1, <3>2
  <2>2. pc' \in [Threads -> PCs] /\ loc' \in [Threads -> Locals]
    BY <1>1, <1>2, <1>3, <1>10, <1>11 DEF PCs
  <2> QED
    BY <1>1, <1>2, <1>18, <2>1, <2>2 DEF TypeOK, Locals
<1>24. OneBehind'
  BY <1>19 DEF OneBehind
<1>25. Lower'
  <2> SUFFICES ASSUME NEW l \in Levels, l > 1 PROVE On(next, l)' \subseteq On(next, l - 1)'
    BY DEF Lower
  <2> PICK k : k = l - 1
    OBVIOUS
  <2>1. k \in Levels /\ (k = i => l # i /\ ~(l <= i))
    BY <1>9, BoundAssumption DEF Levels
  <2>2. On(next, l) \subseteq On(next, k)
    BY DEF Inv, ListInv, Lower
  <2>3. k = i => x \notin On(next, l)
    BY <1>8, <2>1
  <2>4. On(next, k) \ {x} \subseteq On(next, k)' /\ (k # i => On(next, k)' = On(next, k))
    BY <1>19, <2>1
  <2>5. On(next, l)' \subseteq On(next, l)
    BY <1>20
  <2>6. On(next, l)' \subseteq On(next, k)'
    BY <2>2, <2>3, <2>4, <2>5
  <2>7. On(next, l - 1)' = On(next, k)'
    OBVIOUS
  <2> QED
    BY <2>6, <2>7
<1>26. Towers'
  <2> SUFFICES ASSUME NEW y \in On(next, 1)', ~info[y].inserting, ~info[y].deleting,
                      NEW l \in 1 .. info[y].lvl
               PROVE  y \in On(next, l)'
    <3>1. info' = info
      BY <1>2
    <3> QED
      BY <3>1 DEF Towers
  <2>1. y # x
    BY <1>7
  <2>2. y \in On(next, 1)
    BY <1>20, LevelOne
  <2>3. y \in On(next, l)
    BY <2>2 DEF Inv, ListInv, Towers
  <2>4. l \in Levels
    <3>1. info[y].lvl \in 0 .. MaxHeight
      BY <1>1, <1>21, LevelOne DEF TypeOK, Nodes
    <3> QED
      BY <3>1, BoundAssumption DEF Levels
  <2> QED
    BY <1>19, <2>1, <2>3, <2>4
<1>27. /\ Marks(q, s) /\ Takes(q, s) /\ HasMark(q, s) /\ ~Puts(q, s)
       /\ \A y : Owns(q, s, y) => y = x \/ y = m
  BY <1>4, <1>5, <1>10, <1>11 DEF Marks, Takes, HasMark, Puts, TakePCs, Owns
\* The marker is next to x on this level only.
<1>28. \A l \in Levels : l <= i /\ next[x][l] = m => l = i
  <2> SUFFICES ASSUME NEW l \in Levels, l <= i, next[x][l] = m PROVE l = i
    OBVIOUS
  <2>1. x \in Line(l)
    BY <1>8 DEF Line
  <2>2. PICK u \in Threads : Marks(pc[u], loc[u]) /\ x = loc[u].x /\ l = loc[u].i
    BY <1>5, <1>8, <2>1 DEF Inv, ListInv, NextIs
  <2>3. Owns(pc[u], loc[u], x) /\ Owns(pc[t], loc[t], x)
    BY <1>1, <1>6, <2>2 DEF Owns, Takes
  <2>4. u = t
    BY <1>6, <2>3 DEF Inv, ListInv, Apart
  <2> QED
    BY <2>2, <2>4
<1> PICK g : g = Grown(may)
  OBVIOUS
<1>29. ThreadInv(g, t)'
  <2>1. PutOK(q, s)'
    BY <1>27 DEF PutOK
  <2>2. TakeOK(q, s)'
    BY <1>2, <1>5, <1>7, <1>10, <1>11 DEF TakeOK
  <2>3. MarkOK(q, s)'
    <3>1. state' = state /\ info' = info
      BY <1>2
    <3>2. \A l \in Levels : x \in On(next, l)' <=> l <= i - 1
      <4> SUFFICES ASSUME NEW l \in Levels PROVE x \in On(next, l)' <=> l <= i - 1
        OBVIOUS
      <4>1. l \in Nat
        BY DEF Levels
      <4>2. x \in On(next, l)' <=> l <= i /\ l # i
        BY <1>8, <1>19
      <4> QED
        BY <1>9, <4>1, <4>2
    <3>3. i - 1 <= info[x].lvl /\ (i - 1 = 0 <=> q = "free_x")
      BY <1>8, <1>9, <1>10
    <3>4. q = "prev" => next'[x][i - 1] # m
      <4> SUFFICES ASSUME q = "prev" PROVE next'[x][i - 1] # m
        OBVIOUS
      <4> PICK k : k = i - 1
        OBVIOUS
      <4>1. k \in Levels /\ k <= i /\ k # i
        BY <1>9, <1>10, BoundAssumption DEF Levels
      <4>2. next[x][k] # m
        BY <1>28, <4>1
      <4> QED
        BY <1>18, <4>2
    <3> QED
      BY <1>5, <1>8, <1>10, <1>11, <3>1, <3>2, <3>3, <3>4 DEF MarkOK
  <2>4. Local(t, q, s)'
    BY <1>2, <1>4, <1>10, <1>11 DEF Local, InsertOnly, DeleteOnly
  <2>5. About(q, s)
    BY <1>4, <1>5, <1>10, <1>11 DEF About, TakePCs
  <2>6. Held(g, t, q, s)'
    <3>1. may[t] \subseteq g[t]
      BY <1>2, <1>4 DEF Grown
    <3>2. Safe(t, m)'
      BY <1>2, <1>6, <1>8 DEF Safe
    <3>3. <<x, 1>> \in may[t]
      BY <1>4, <1>5, <1>6 DEF Held
    <3> QED
      BY <1>2, <1>4, <1>5, <1>10, <1>11, <3>1, <3>2, <3>3 DEF Held
  <2>7. pc'[t] = q /\ loc'[t] = s
    BY <1>1, <1>2, <1>3
  <2> QED
    BY <2>1, <2>2, <2>3, <2>4, <2>5, <2>6, <2>7 DEF ThreadInv, ThreadOK
<1>30. \A u \in inside : StaysGone(u, x, i)
  <2> SUFFICES ASSUME NEW u \in inside PROVE StaysGone(u, x, i)
    OBVIOUS
  <2>1. Safe(u, x)' /\ Safe(u, m)'
    BY <1>2, <1>6, <1>7, <1>8 DEF Safe
  <2>2. info[x].key \in Keys
    BY <1>9, <1>14 DEF Inv, ListInv, Nodal
  <2>3. After(x, i)' = After(x, i)
    <3>1. next'[x][i] = next[x][i] /\ next'[m][i] = next[m][i] /\ info' = info
      BY <1>2, <1>18
    <3>2. next[x][i] = m
      BY <1>8
    <3> QED
      BY <3>1, <3>2 DEF After, Behind
  <2>4. Gone(u, x, i)'
    <3>1. \A w \in Threads : Marks(pc'[w], loc'[w]) /\ m = loc'[w].m => x = loc'[w].x
      <4> SUFFICES ASSUME NEW w \in Threads, Marks(pc'[w], loc'[w]), m = loc'[w].m
                   PROVE  x = loc'[w].x
        OBVIOUS
      <4>1. CASE w = t
        BY <1>1, <1>3, <1>11, <4>1
      <4>2. CASE w # t
        <5>1. Owns(pc[w], loc[w], m) /\ Owns(pc[t], loc[t], m)
          BY <1>1, <1>2, <1>3, <1>6, <4>2 DEF Owns, HasMark
        <5> QED
          BY <1>6, <4>2, <5>1 DEF Inv, ListInv, Apart
      <4> QED
        BY <4>1, <4>2
    <3>2. next'[x][i] = m /\ info' = info
      BY <1>2, <1>8, <1>18
    <3> QED
      BY <1>5, <1>7, <1>8, <2>1, <3>1, <3>2 DEF Gone
  <2> QED
    BY <1>2, <1>7, <1>8, <2>1, <2>2, <2>3, <2>4 DEF StaysGone
<1>31. Inv(g)' /\ Follows(may, g)
  <2>1. UNCHANGED <<inside, state, guards, height>>
    BY <1>2
  <2>2. Plain(next[p][i]) /\ Plain(f) /\ (f # Null => state[f] = "linked")
    BY <1>2, <1>7, <1>17 DEF Plain
  <2>3. Owns(pc[t], loc[t], x) /\ Marks(pc[t], loc[t])
    BY <1>1, <1>6
  <2>4. \A l \in Levels : l # i => On(next, l)' = On(next, l)
    BY <1>19
  <2>5. (Marks(q, s) <=> Marks(pc[t], loc[t])) /\ s.x = loc[t].x /\ s.m = loc[t].m
    BY <1>11, <1>27, <2>3
  <2>6. \A y \in Items : Owns(q, s, y) => Owns(pc[t], loc[t], y)
    BY <1>1, <1>6, <1>27
  <2>7. loc[t].x = x /\ loc[t].i = i
    OBVIOUS
  <2>8. \/ /\ On(next, i)' = On(next, i) \cup {x} /\ ~Marks(pc[t], loc[t])
           /\ Plain(next[x][i]) /\ (next[x][i] # Null => state[next[x][i]] = "linked")
        \/ /\ On(next, i)' = On(next, i) \ {x} /\ Marks(pc[t], loc[t])
           /\ loc[t].x = x /\ loc[t].i = i
           /\ \A u \in inside : StaysGone(u, x, i)
    BY <1>19, <1>30, <2>3, <2>7
  <2>9. /\ pc' = [pc EXCEPT ![t] = q] /\ loc' = [loc EXCEPT ![t] = s] /\ i \in Levels
        /\ x \in Items /\ f \in Items \cup {Null} /\ Sets(p, i, f) /\ p # x
    BY <1>2, <1>3, <1>6, <1>9, <1>16, <1>18
  <2> QED
    BY <1>13, <1>22, <1>23, <1>24, <1>25, <1>26, <1>29, <2>1, <2>2, <2>3, <2>4, <2>5, <2>6,
       <2>8, <2>9, WordStep
<1>32. GoesOff(i, p, x)
  <2>1. ~info[p].marker
    BY <1>9, <1>12, MayFacts
  <2>2. /\ After(p, i)' = f
        /\ \A n \in Nodes, l \in Levels : ~(n = p /\ l = i) => After(n, l)' = After(n, l)
    BY <1>1, <1>9, <1>17, <1>18, <2>1, SetsAfter
  <2>3. \A l \in Levels : Line(l) \subseteq Nodes
    BY <1>1, LineFacts
  <2> QED
    BY <1>9, <1>13, <1>14, <1>15, <1>19, <2>2, <2>3 DEF GoesOff, Beside
<1> QED
  BY <1>p, <1>31, <1>32
-----------------------------------------------------------------------------
(* The list at the start. *)

\* The places of height l and more, when b has height h[b].
High(D, h, l) == {b \in D : h[b] >= l}

Placed(n, h, at) ==
  /\ n \in Nat /\ h \in [1 .. n -> Levels] /\ at \in [1 .. n -> Items]
  /\ \A a, b \in 1 .. n : at[a] = at[b] => a = b

(* First is the next place of that height, or Null.                        *)
LEMMA FirstFacts ==
  ASSUME NEW n, NEW h, NEW at, Placed(n, h, at), NEW a \in 0 .. n, NEW l \in Levels
  PROVE  \/ /\ First(1 .. n, h, at, a, l) = Null
            /\ \A c \in 1 .. n : c > a => h[c] < l
         \/ \E b \in 1 .. n : /\ First(1 .. n, h, at, a, l) = at[b] /\ b > a /\ h[b] >= l
                              /\ \A c \in 1 .. n : c > a /\ c < b => h[c] < l
<1> PICK S : S = Later(1 .. n, h, a, l)
  OBVIOUS
<1>1. S = {b \in 1 .. n : b > a /\ h[b] >= l} /\ S \subseteq Nat
  BY DEF Later, Placed
<1>2. \A c \in 1 .. n : c \in Nat /\ h[c] \in Nat /\ l \in Nat
  BY DEF Placed, Levels
<1>3. CASE S = {}
  BY <1>1, <1>2, <1>3 DEF First
<1>4. CASE S # {}
  <2>1. \E b \in S : \A c \in S : b <= c
    BY <1>1, <1>4, LeastNumber
  <2> PICK b : b = CHOOSE e \in S : \A c \in S : e <= c
    OBVIOUS
  <2>2. b \in S /\ \A c \in S : b <= c
    BY <2>1
  <2>3. First(1 .. n, h, at, a, l) = at[b]
    BY <1>4 DEF First
  <2>4. ASSUME NEW c \in 1 .. n, c > a, c < b PROVE h[c] < l
    <3>1. c \notin S
      BY <1>1, <1>2, <2>2, <2>4
    <3> QED
      BY <1>1, <1>2, <2>4, <3>1
  <2> QED
    BY <1>1, <2>2, <2>3, <2>4
<1> QED
  BY <1>3, <1>4

(* A level at the start is the nodes of that height.                       *)
LEMMA StartLine ==
  ASSUME NEW n, NEW h, NEW at, Placed(n, h, at), NEW l \in Levels, NEW F,
         F[head] = First(1 .. n, h, at, 0, l),
         \A a \in 1 .. n : h[a] >= l => F[at[a]] = First(1 .. n, h, at, a, l),
         NEW S, S = {at[a] : a \in High(1 .. n, h, l)}
  PROVE  Least(F, S) /\ OneEach(F, S)
<1>1. /\ n \in Nat /\ S \subseteq Items /\ \A a \in 1 .. n : at[a] \in Items
      /\ \A a \in 1 .. n : h[a] >= l => at[a] \in S
      /\ \A x \in S : \E a \in 1 .. n : x = at[a] /\ h[a] >= l
      /\ \A a \in 1 .. n : h[a] \in Nat /\ l \in Nat
  BY DEF Placed, High, Levels
<1> DEFINE T(a) == IF a = 0 THEN head ELSE at[a]
\* The place of each node of the line.
<1>2. \A x \in S \cup {head} : \E a \in 0 .. n :
        x = T(a) /\ F[x] = First(1 .. n, h, at, a, l) /\ (a # 0 => h[a] >= l)
  <2> SUFFICES ASSUME NEW x \in S \cup {head}
               PROVE  \E a \in 0 .. n : /\ x = T(a) /\ F[x] = First(1 .. n, h, at, a, l)
                                        /\ (a # 0 => h[a] >= l)
    OBVIOUS
  <2>1. CASE x = head
    <3>1. 0 \in 0 .. n
      BY <1>1
    <3> QED
      BY <2>1, <3>1
  <2>2. CASE x \in S
    <3>1. PICK a \in 1 .. n : x = at[a] /\ h[a] >= l
      BY <1>1, <2>2
    <3>2. a \in 0 .. n /\ a # 0
      BY <1>1
    <3> QED
      BY <3>1, <3>2
  <2> QED
    BY <2>1, <2>2
<1>3. Shut(F, S)
  <2> SUFFICES ASSUME NEW x \in S \cup {head} PROVE F[x] \in S \cup {Null}
    BY DEF Shut
  <2>1. PICK a \in 0 .. n : F[x] = First(1 .. n, h, at, a, l)
    BY <1>2
  <2> QED
    BY <1>1, <2>1, FirstFacts
<1>4. OneEach(F, S)
  <2> SUFFICES ASSUME NEW x \in S \cup {head}, NEW y \in S \cup {head}, F[x] = F[y], F[x] # Null
               PROVE  x = y
    BY DEF OneEach
  <2>1. PICK a \in 0 .. n : /\ x = T(a) /\ F[x] = First(1 .. n, h, at, a, l)
                            /\ (a # 0 => h[a] >= l)
    BY <1>2
  <2>2. PICK b \in 0 .. n : /\ y = T(b) /\ F[y] = First(1 .. n, h, at, b, l)
                            /\ (b # 0 => h[b] >= l)
    BY <1>2
  <2>3. PICK c \in 1 .. n : /\ F[x] = at[c] /\ c > a /\ h[c] >= l
                            /\ \A d \in 1 .. n : d > a /\ d < c => h[d] < l
    BY <2>1, FirstFacts
  <2>4. PICK e \in 1 .. n : /\ F[y] = at[e] /\ e > b /\ h[e] >= l
                            /\ \A d \in 1 .. n : d > b /\ d < e => h[d] < l
    BY <2>2, FirstFacts
  <2>5. c = e
    BY <2>3, <2>4 DEF Placed
  <2>6. ~(a < b)
    <3> SUFFICES ASSUME a < b PROVE FALSE
      OBVIOUS
    <3>1. b \in 1 .. n /\ b > a /\ b < c /\ b # 0
      BY <1>1, <2>4, <2>5
    <3>2. h[b] < l /\ h[b] >= l
      BY <2>2, <2>3, <3>1
    <3> QED
      BY <1>1, <3>1, <3>2
  <2>7. ~(b < a)
    <3> SUFFICES ASSUME b < a PROVE FALSE
      OBVIOUS
    <3>1. a \in 1 .. n /\ a > b /\ a < e /\ a # 0
      BY <1>1, <2>3, <2>5
    <3>2. h[a] < l /\ h[a] >= l
      BY <2>1, <2>4, <3>1
    <3> QED
      BY <1>1, <3>1, <3>2
  <2>8. a = b
    BY <1>1, <2>6, <2>7
  <2> QED
    BY <2>1, <2>2, <2>8
<1>5. ASSUME NEW U \in SUBSET Items, Shut(F, U) PROVE S \subseteq U
  <2> DEFINE Reach(k) ==
        /\ \A b \in 1 .. n : b <= k /\ h[b] >= l => at[b] \in U
        /\ \E a \in 0 .. k : /\ a = 0 \/ (h[a] >= l /\ at[a] \in U)
                             /\ \A c \in 1 .. n : c > a /\ c <= k => h[c] < l
      W == {k \in Nat : k <= n => Reach(k)}
  <2>1. 0 \in W
    BY <1>1
  <2>2. ASSUME NEW k \in Nat, k \in W PROVE k + 1 \in W
    <3> SUFFICES ASSUME k + 1 <= n PROVE Reach(k + 1)
      OBVIOUS
    <3>1. /\ k < n /\ k + 1 \in 1 .. n
          /\ \A b \in 1 .. n : b <= k + 1 <=> b <= k \/ b = k + 1
          /\ \A a \in 0 .. k : a \in 0 .. n /\ a \in 0 .. k + 1 /\ (a # 0 => a \in 1 .. n)
      BY <1>1
    <3>2. Reach(k)
      BY <1>1, <2>2, <3>1
    <3>3. PICK a \in 0 .. k : /\ a = 0 \/ (h[a] >= l /\ at[a] \in U)
                              /\ \A c \in 1 .. n : c > a /\ c <= k => h[c] < l
      BY <3>2
    <3>4. CASE h[k + 1] < l
      <4>1. \A c \in 1 .. n : c > a /\ c <= k + 1 => h[c] < l
        BY <3>1, <3>3, <3>4
      <4>2. \A b \in 1 .. n : b <= k + 1 /\ h[b] >= l => at[b] \in U
        BY <1>1, <3>1, <3>2, <3>4
      <4> QED
        BY <3>1, <3>3, <4>1, <4>2
    <3>5. CASE h[k + 1] >= l
      <4>1. F[T(a)] = First(1 .. n, h, at, a, l) /\ T(a) \in U \cup {head}
        BY <3>1, <3>3
      <4>2. a \in 0 .. n /\ k + 1 > a
        BY <3>1
      <4>3. PICK b \in 1 .. n : /\ First(1 .. n, h, at, a, l) = at[b] /\ b > a /\ h[b] >= l
                                /\ \A c \in 1 .. n : c > a /\ c < b => h[c] < l
        <5>1. ~ \A c \in 1 .. n : c > a => h[c] < l
          BY <1>1, <3>1, <3>5, <4>2
        <5> QED
          BY <4>2, <5>1, FirstFacts
      <4>4. b = k + 1
        <5>1. ~(b <= k)
          BY <1>1, <3>3, <4>3
        <5>2. ~(k + 1 < b)
          BY <1>1, <3>1, <3>5, <4>2, <4>3
        <5> QED
          BY <5>1, <5>2
      <4>5. at[k + 1] \in U
        <5>1. at[b] \in Items /\ at[b] \in U \cup {Null}
          BY <1>1, <1>5, <4>1, <4>3 DEF Shut
        <5> QED
          BY <4>4, <5>1, NodeAssumption
      <4>6. \A b2 \in 1 .. n : b2 <= k + 1 /\ h[b2] >= l => at[b2] \in U
        BY <3>1, <3>2, <4>5
      <4>7. \A c \in 1 .. n : ~(c > k + 1 /\ c <= k + 1)
        OBVIOUS
      <4>8. k + 1 \in 0 .. k + 1
        OBVIOUS
      <4> QED
        BY <3>5, <4>5, <4>6, <4>7, <4>8
    <3> QED
      BY <1>1, <3>1, <3>4, <3>5
  <2> HIDE DEF W
  <2>3. n \in W
    BY <1>1, <2>1, <2>2, NatSetInduction
  <2>4. Reach(n)
    BY <1>1, <2>3 DEF W
  <2>5. \A b \in 1 .. n : h[b] >= l => at[b] \in U
    BY <2>4
  <2> QED
    BY <1>1, <2>5
<1> QED
  BY <1>1, <1>3, <1>4, <1>5 DEF Least

\* What Init says of the nodes once they are chosen.
StartNodes(s, h, D, at) ==
  /\ next = [n \in Nodes |-> [l \in Levels |->
               IF n = head THEN First(D, h, at, 0, l)
               ELSE IF n \in {at[a] : a \in D} /\ l <= h[Place(D, at, n)]
               THEN First(D, h, at, Place(D, at, n), l)
               ELSE Null]]
  /\ info = [n \in Nodes |->
               IF n = head THEN [NoInfo EXCEPT !.lvl = MaxHeight]
               ELSE IF n \in {at[a] : a \in D}
               THEN [NoInfo EXCEPT !.key = s.loaded[Place(D, at, n)],
                                   !.incr = IF s.dupl THEN Place(D, at, n) + 1 ELSE 0,
                                   !.lvl = h[Place(D, at, n)]]
               ELSE NoInfo]
  /\ state = [x \in Items |-> IF x \in {at[a] : a \in D} THEN "linked" ELSE "free"]

StartRest(s, h, D) ==
  /\ dupl = s.dupl
  /\ height = Tallest(D, h)
  /\ incr_key = IF s.dupl THEN Len(s.loaded) + 2 ELSE 1
  /\ num = Len(s.loaded) % NumMod
  /\ inside = {}
  /\ guards = [x \in Items |-> {}]
  /\ pc = [t \in Threads |-> "idle"]
  /\ loc = [t \in Threads |-> NoLocals]
  /\ todo = [calls |-> s.calls, keys |-> s.keys]
  /\ recs = RecsOf(next, info)
  /\ seen = [t \in Threads |-> {}]

(* What Init says of the nodes, one variable at a time.                    *)
LEMMA LoadedIs ==
  ASSUME NEW s, NEW h, Loaded(s, h), NEW D, D = DOMAIN s.loaded, NEW at, at = Chosen(D)
  PROVE  StartRest(s, h, D) /\ StartNodes(s, h, D, at)
<1>1. StartRest(s, h, D)
  BY DEF Loaded, StartRest
<1>2. StartNodes(s, h, D, at)
  BY DEF Loaded, StartNodes
<1> QED
  BY <1>1, <1>2

(* There are as many nodes as the start needs.                             *)
LEMMA Places ==
  ASSUME NEW n \in Nat, n <= Cardinality(Items)
  PROVE  \E f \in [1 .. n -> Items] : \A a, b \in 1 .. n : f[a] = f[b] => a = b
<1>1. ExistsBijection(1 .. Cardinality(Items), Items) /\ Cardinality(Items) \in Nat
  BY NodeAssumption, FS_CardinalityType
<1>2. PICK f \in [1 .. Cardinality(Items) -> Items] :
        \A a, b \in 1 .. Cardinality(Items) : f[a] = f[b] => a = b
  BY <1>1 DEF ExistsBijection, Bijection, Injection, IsInjective, Surjection
<1>3. 1 .. n \subseteq 1 .. Cardinality(Items)
  BY <1>1
<1> DEFINE g == [a \in 1 .. n |-> f[a]]
<1>4. g \in [1 .. n -> Items] /\ \A a, b \in 1 .. n : g[a] = g[b] => a = b
  BY <1>2, <1>3
<1> QED
  BY <1>4

(* The height of the list is that of its highest node.                     *)
LEMMA Highest ==
  ASSUME NEW n \in Nat, NEW h \in [1 .. n -> Levels]
  PROVE  \E k \in Levels : /\ \A a \in 1 .. n : h[a] <= k
                           /\ k = 1 \/ \E a \in 1 .. n : h[a] = k
<1> DEFINE S == {k \in Levels : \A a \in 1 .. n : h[a] <= k}
<1>1. MaxHeight \in S /\ S \subseteq Nat
  BY BoundAssumption DEF Levels
<1>2. PICK k \in S : \A j \in S : k <= j
  BY <1>1, LeastNumber
<1>3. SUFFICES ASSUME k # 1, \A a \in 1 .. n : h[a] # k PROVE FALSE
  BY <1>2
<1>4. \A a \in 1 .. n : h[a] \in Nat /\ h[a] <= k - 1
  BY <1>2, <1>3 DEF Levels
<1>5. k - 1 \in Levels
  BY <1>2, <1>3, BoundAssumption DEF Levels
<1>6. k - 1 \in S
  BY <1>4, <1>5
<1> QED
  BY <1>1, <1>2, <1>6
-----------------------------------------------------------------------------
(* The initial states. *)

\* The start s with n nodes.
Begun(s, n, h, at) ==
  /\ s \in Starts /\ DOMAIN s.loaded = 1 .. n /\ Len(s.loaded) = n
  /\ Placed(n, h, at)
  /\ StartRest(s, h, 1 .. n) /\ StartNodes(s, h, 1 .. n, at)

(* An initial state is a start with its nodes.                             *)
LEMMA InitBegun == Init => \E s, n, h, at : Begun(s, n, h, at)
<1> SUFFICES ASSUME Init PROVE \E s, n, h, at : Begun(s, n, h, at)
  OBVIOUS
<1>0. PICK s \in Starts : \E h \in [DOMAIN s.loaded -> Levels] : Loaded(s, h)
  BY DEF Init
<1>1. PICK h \in [DOMAIN s.loaded -> Levels] : Loaded(s, h)
  BY <1>0
<1> DEFINE n == Len(s.loaded)
<1>2. /\ s.loaded \in Seq(s.keys) /\ n \in Nat /\ n <= Cardinality(Items)
      /\ DOMAIN s.loaded = 1 .. n
  BY StartAssumption
<1> HIDE DEF n
<1>3. \E f : f \in [1 .. n -> Items] /\ \A a, b \in 1 .. n : f[a] = f[b] => a = b
  BY <1>2, Places
<1> PICK at : at = Chosen(1 .. n)
  OBVIOUS
<1>4. Placed(n, h, at)
  <2>1. at \in [1 .. n -> Items] /\ \A a, b \in 1 .. n : at[a] = at[b] => a = b
    BY <1>3, Zenon DEF Chosen
  <2> QED
    BY <1>2, <2>1 DEF Placed
<1>5. StartRest(s, h, 1 .. n) /\ StartNodes(s, h, 1 .. n, at)
  BY <1>1, <1>2, LoadedIs
<1> QED
  BY <1>2, <1>4, <1>5 DEF Begun, n

\* Who is where at the start.
Fresh(k, j, l) == [NoInfo EXCEPT !.key = k, !.incr = j, !.lvl = l]

NextAtStart(n, h, at) ==
  /\ n \in Nat /\ \A a \in 1 .. n : at[a] \in Items /\ at[a] # head /\ h[a] \in Levels
  /\ \A l \in Levels : next[head][l] = First(1 .. n, h, at, 0, l)
  /\ \A a \in 1 .. n, l \in Levels :
       next[at[a]][l] = IF l <= h[a] THEN First(1 .. n, h, at, a, l) ELSE Null
  /\ \A x \in Items : (\A a \in 1 .. n : x # at[a]) => \A l \in Levels : next[x][l] = Null

NodeAtStart(s, n, h, at) ==
  /\ n \in Nat /\ \A a \in 1 .. n : at[a] \in Items /\ at[a] # head /\ h[a] \in Levels
  /\ info[head] = [NoInfo EXCEPT !.lvl = MaxHeight]
  /\ \A x \in Items : (\A a \in 1 .. n : x # at[a]) => info[x] = NoInfo /\ state[x] = "free"
  /\ \A a \in 1 .. n :
       /\ state[at[a]] = "linked"
       /\ info[at[a]] = Fresh(s.loaded[a], IF s.dupl THEN a + 1 ELSE 0, h[a])

(* Where the pointers of such a state lead, and what its nodes are.        *)
LEMMA BegunFacts ==
  ASSUME NEW s, NEW n, NEW h, NEW at, Begun(s, n, h, at)
  PROVE  NextAtStart(n, h, at) /\ NodeAtStart(s, n, h, at)
<1>1. /\ n \in Nat /\ at \in [1 .. n -> Items]
      /\ \A a \in 1 .. n : at[a] \in Items /\ at[a] # head /\ h[a] \in Levels
      /\ \A a \in 1 .. n : at[a] \in Nodes
      /\ head \in Nodes /\ \A x \in Items : x \in Nodes /\ x # head
  BY NodeAssumption DEF Begun, Placed, Nodes
<1>2. ASSUME NEW a \in 1 .. n PROVE Place(1 .. n, at, at[a]) = a
  BY DEF Place, Begun, Placed
<1>3. ASSUME NEW l \in Levels PROVE next[head][l] = First(1 .. n, h, at, 0, l)
  BY <1>1 DEF Begun, StartNodes
<1>4. ASSUME NEW a \in 1 .. n, NEW l \in Levels
      PROVE  next[at[a]][l] = IF l <= h[a] THEN First(1 .. n, h, at, a, l) ELSE Null
  BY <1>1, <1>2 DEF Begun, StartNodes
<1>5. ASSUME NEW x \in Items, \A a \in 1 .. n : x # at[a]
      PROVE  (\A l \in Levels : next[x][l] = Null) /\ info[x] = NoInfo /\ state[x] = "free"
  BY <1>1, <1>5 DEF Begun, StartNodes
<1>6. info[head] = [NoInfo EXCEPT !.lvl = MaxHeight]
  BY <1>1 DEF Begun, StartNodes
<1>7. ASSUME NEW a \in 1 .. n
      PROVE  /\ state[at[a]] = "linked"
             /\ info[at[a]] = Fresh(s.loaded[a], IF s.dupl THEN a + 1 ELSE 0, h[a])
  BY <1>1, <1>2 DEF Begun, StartNodes, Fresh
<1> QED
  BY <1>1, <1>3, <1>4, <1>5, <1>6, <1>7 DEF NextAtStart, NodeAtStart

(* The type of its next.                                                   *)
LEMMA BegunNext ==
  ASSUME NEW s, NEW n, NEW h, NEW at, Begun(s, n, h, at)
  PROVE  NextTyped
<1>0. NextAtStart(n, h, at) /\ NodeAtStart(s, n, h, at) /\ Placed(n, h, at)
  BY BegunFacts DEF Begun
<1>1. \A m \in Nodes : m = head \/ (m \in Items /\ \E a \in 1 .. n : m = at[a])
                       \/ (m \in Items /\ \A a \in 1 .. n : m # at[a])
  BY DEF Nodes
<1>2. ASSUME NEW m \in Nodes, NEW l \in Levels PROVE next[m][l] \in Items \cup {Null}
  <2>1. ASSUME NEW a \in 0 .. n PROVE First(1 .. n, h, at, a, l) \in Items \cup {Null}
    <3>1. First(1 .. n, h, at, a, l) = Null \/ \E b \in 1 .. n : First(1 .. n, h, at, a, l) = at[b]
      BY <1>0, FirstFacts
    <3>2. \A b \in 1 .. n : at[b] \in Items
      BY <1>0 DEF NextAtStart
    <3> QED
      BY <3>1, <3>2
  <2>2. CASE m = head
    <3>1. 0 \in 0 .. n
      BY <1>0 DEF NextAtStart
    <3> QED
      BY <2>1, <2>2, <3>1, <1>0 DEF NextAtStart
  <2>3. ASSUME NEW a \in 1 .. n, m = at[a] PROVE next[m][l] \in Items \cup {Null}
    <3>1. a \in 0 .. n
      OBVIOUS
    <3> QED
      BY <2>1, <2>3, <3>1, <1>0 DEF NextAtStart
  <2>4. CASE m \in Items /\ \A a \in 1 .. n : m # at[a]
    BY <2>4, <1>0 DEF NextAtStart
  <2> QED
    BY <1>1, <2>2, <2>3, <2>4
<1>3. next \in [Nodes -> [Levels -> Items \cup {Null}]]
  <2>1. next = [m \in Nodes |-> next[m]] /\ \A m \in Nodes : next[m] = [l \in Levels |-> next[m][l]]
    BY DEF Begun, StartNodes
  <2> QED
    BY <1>2, <2>1
<1> QED
  BY <1>3 DEF NextTyped

(* The levels at the start.                                                *)
LEMMA BegunLine ==
  ASSUME NEW s, NEW n, NEW h, NEW at, Begun(s, n, h, at), NEW l \in Levels
  PROVE  /\ On(next, l) = {at[a] : a \in High(1 .. n, h, l)}
         /\ OneEach(Succ(l), On(next, l))
         /\ \A m \in Nodes : After(m, l) = next[m][l]
<1>0. NextAtStart(n, h, at) /\ NodeAtStart(s, n, h, at) /\ Placed(n, h, at)
  BY BegunFacts DEF Begun
<1>1. ASSUME NEW m \in Nodes PROVE After(m, l) = next[m][l]
  <2> PICK y : y = next[m][l]
    OBVIOUS
  <2>1. y \in Items \cup {Null}
    BY BegunNext DEF NextTyped
  <2>2. y # Null => ~info[y].marker
    <3> SUFFICES ASSUME y \in Items PROVE ~info[y].marker
      BY <2>1
    <3>1. CASE \A a \in 1 .. n : y # at[a]
      <4>1. info[y] = NoInfo
        BY <1>0, <3>1 DEF NodeAtStart
      <4> QED
        BY <4>1 DEF NoInfo
    <3>2. ASSUME NEW a \in 1 .. n, y = at[a] PROVE ~info[y].marker
      <4>1. info[y] = Fresh(s.loaded[a], IF s.dupl THEN a + 1 ELSE 0, h[a])
        BY <1>0, <3>2 DEF NodeAtStart
      <4> QED
        BY <4>1 DEF Fresh, NoInfo
    <3> QED
      BY <3>1, <3>2
  <2> QED
    BY <2>2 DEF After, Behind
<1> DEFINE F == Succ(l)
           S == {at[a] : a \in High(1 .. n, h, l)}
<1>2. F[head] = First(1 .. n, h, at, 0, l)
  BY <1>1, <1>0 DEF NextAtStart, Succ, Nodes
<1>3. ASSUME NEW a \in 1 .. n, h[a] >= l PROVE F[at[a]] = First(1 .. n, h, at, a, l)
  <2>1. at[a] \in Nodes /\ l <= h[a]
    BY <1>3, <1>0 DEF NextAtStart, Nodes, Levels
  <2> QED
    BY <1>1, <2>1, <1>0 DEF NextAtStart, Succ
<1> HIDE DEF F, S
<1>4. Placed(n, h, at)
  BY DEF Begun
<1>5. Least(F, S) /\ OneEach(F, S)
  BY <1>2, <1>3, <1>4, StartLine DEF S
<1>6. Least(F, On(next, l))
  BY BegunNext, OnIsLeast DEF F
<1>7. On(next, l) = S
  BY <1>5, <1>6, LeastOne
<1> QED
  BY <1>1, <1>5, <1>7 DEF F, S
-----------------------------------------------------------------------------
(* The invariant at the start. *)

(* A new node, field by field.                                             *)
LEMMA FreshFields ==
  \A k, j, l : /\ Fresh(k, j, l).key = k /\ Fresh(k, j, l).incr = j /\ Fresh(k, j, l).lvl = l
               /\ ~Fresh(k, j, l).marker /\ ~Fresh(k, j, l).deleting
               /\ ~Fresh(k, j, l).inserting
               /\ Fresh(k, j, l) = [key |-> k, incr |-> j, lvl |-> l, marker |-> FALSE,
                                    deleting |-> FALSE, inserting |-> FALSE]
<1> TAKE k, j, l
<1> PICK N : N = NoInfo
  OBVIOUS
<1>1. N \in [key : {0}, incr : {0}, lvl : {0}, marker : {FALSE}, deleting : {FALSE},
             inserting : {FALSE}]
  BY DEF NoInfo
<1>2. Fresh(k, j, l) = [N EXCEPT !.key = k, !.incr = j, !.lvl = l]
  BY DEF Fresh
<1>3. Fresh(k, j, l) = [key |-> k, incr |-> j, lvl |-> l, marker |-> FALSE,
                        deleting |-> FALSE, inserting |-> FALSE]
  BY <1>1, <1>2
<1> QED
  BY <1>3

(* The nodes at the start.                                                 *)
LEMMA NodesAtStart ==
  ASSUME NEW s, NEW n, NEW h, NEW at, Begun(s, n, h, at)
  PROVE  /\ n \in Nat /\ at \in [1 .. n -> Items] /\ h \in [1 .. n -> Levels]
         /\ \A a \in 1 .. n :
              /\ at[a] \in Items /\ h[a] \in Levels /\ s.loaded[a] \in Keys
              /\ state[at[a]] = "linked" /\ info[at[a]].key = s.loaded[a]
              /\ info[at[a]].incr \in Nat /\ info[at[a]].lvl = h[a]
              /\ ~info[at[a]].marker /\ ~info[at[a]].deleting /\ ~info[at[a]].inserting
         /\ \A l \in Levels : \A x \in On(next, l) : \E a \in 1 .. n : x = at[a] /\ h[a] >= l
         /\ \A l \in Levels : \A a \in 1 .. n : h[a] >= l => at[a] \in On(next, l)
<1>1. /\ n \in Nat /\ at \in [1 .. n -> Items] /\ h \in [1 .. n -> Levels]
      /\ \A a \in 1 .. n : at[a] \in Items /\ h[a] \in Levels
  BY DEF Begun, Placed
<1>2. ASSUME NEW a \in 1 .. n
      PROVE  /\ s.loaded[a] \in Keys
             /\ state[at[a]] = "linked" /\ info[at[a]].key = s.loaded[a]
             /\ info[at[a]].incr \in Nat /\ info[at[a]].lvl = h[a]
             /\ ~info[at[a]].marker /\ ~info[at[a]].deleting /\ ~info[at[a]].inserting
  <2> DEFINE j == IF s.dupl THEN a + 1 ELSE 0
  <2>1. j \in Nat
    BY <1>1
  <2>2. info[at[a]] = Fresh(s.loaded[a], j, h[a]) /\ state[at[a]] = "linked"
    BY BegunFacts DEF NodeAtStart
  <2>3. s.loaded[a] \in Keys
    <3> PICK q, K : q = s.loaded /\ K = s.keys
      OBVIOUS
    <3>1. q \in Seq(K) /\ K \subseteq Keys /\ Len(q) = n
      BY StartAssumption DEF Begun
    <3> QED
      BY <3>1
  <2> HIDE DEF j
  <2> QED
    BY <2>1, <2>2, <2>3, FreshFields
<1>3. \A l \in Levels : On(next, l) = {at[a] : a \in High(1 .. n, h, l)}
  BY BegunLine
<1>4. \A l \in Levels : \A x \in On(next, l) : \E a \in 1 .. n : x = at[a] /\ h[a] >= l
  BY <1>3 DEF High
<1>5. \A l \in Levels : \A a \in 1 .. n : h[a] >= l => at[a] \in On(next, l)
  BY <1>3 DEF High
<1> QED
  BY <1>1, <1>2, <1>4, <1>5

(* The initial states have their type.                                     *)
LEMMA BegunTyped ==
  ASSUME NEW s, NEW n, NEW h, NEW at, Begun(s, n, h, at)
  PROVE  TypeOK
<1>1. /\ StartRest(s, h, 1 .. n) /\ n \in Nat /\ Len(s.loaded) = n
      /\ s.dupl \in BOOLEAN /\ s.keys \subseteq Keys /\ s.calls \in Nat
  BY StartAssumption DEF Begun, Placed
<1>2. inside \subseteq Threads /\ guards \in [Items -> SUBSET Threads] /\ dupl \in BOOLEAN
  BY <1>1 DEF StartRest
<1>3. state \in [Items -> {"free", "linked", "retired"}]
  BY DEF Begun, StartNodes
<1>4. height \in Levels
  <2>1. h \in [1 .. n -> Levels]
    BY DEF Begun, Placed
  <2>2. \E k : k \in Levels /\ (\A a \in 1 .. n : h[a] <= k)
                 /\ (k = 1 \/ \E a \in 1 .. n : h[a] = k)
    BY <1>1, <2>1, Highest
  <2>3. Tallest(1 .. n, h) \in Levels
    BY <2>2, Zenon DEF Tallest
  <2> QED
    BY <1>1, <2>3 DEF StartRest
<1>5. incr_key \in Nat /\ num \in 0 .. NumMod - 1
  BY <1>1, BoundAssumption DEF StartRest
<1>6. next \in [Nodes -> [Levels -> Items \cup {Null}]]
  BY BegunNext DEF NextTyped
<1>7. info \in [Nodes -> [key : Keys \cup {0}, incr : Nat, lvl : 0 .. MaxHeight,
                          marker : BOOLEAN, deleting : BOOLEAN, inserting : BOOLEAN]]
  <2> DEFINE I == [key : Keys \cup {0}, incr : Nat, lvl : 0 .. MaxHeight,
                   marker : BOOLEAN, deleting : BOOLEAN, inserting : BOOLEAN]
  <2>1. info = [x \in Nodes |-> info[x]]
    BY DEF Begun, StartNodes
  <2>2. ASSUME NEW x \in Nodes PROVE info[x] \in I
    <3>1. CASE x = head
      <4>1. info[x] = [NoInfo EXCEPT !.lvl = MaxHeight]
        BY <3>1, BegunFacts DEF NodeAtStart
      <4>2. info[x] = [key |-> 0, incr |-> 0, lvl |-> MaxHeight, marker |-> FALSE,
                       deleting |-> FALSE, inserting |-> FALSE]
        BY <4>1 DEF NoInfo
      <4> QED
        BY <4>2, BoundAssumption
    <3>2. ASSUME NEW a \in 1 .. n, x = at[a] PROVE info[x] \in I
      <4> DEFINE j == IF s.dupl THEN a + 1 ELSE 0
      <4>1. j \in Nat
        BY <1>1
      <4>2. info[x] = Fresh(s.loaded[a], j, h[a])
        BY <3>2, BegunFacts DEF NodeAtStart
      <4>3. s.loaded[a] \in Keys /\ h[a] \in 0 .. MaxHeight
        BY NodesAtStart DEF Levels
      <4> HIDE DEF j
      <4>4. info[x] = [key |-> s.loaded[a], incr |-> j, lvl |-> h[a], marker |-> FALSE,
                       deleting |-> FALSE, inserting |-> FALSE]
        BY <4>2, FreshFields
      <4> QED
        BY <4>1, <4>3, <4>4
    <3>3. CASE x \in Items /\ \A a \in 1 .. n : x # at[a]
      <4>1. info[x] = NoInfo
        BY <3>3, BegunFacts DEF NodeAtStart
      <4> QED
        BY <4>1, BoundAssumption DEF NoInfo
    <3> QED
      BY <3>1, <3>2, <3>3 DEF Nodes
  <2> HIDE DEF I
  <2> QED
    BY <2>1, <2>2 DEF I
<1>8. pc \in [Threads -> PCs] /\ seen \in [Threads -> SUBSET SUBSET Recs]
  BY <1>1 DEF StartRest, PCs
<1>9. loc \in [Threads -> [op : Ops \cup {"none"}, key : Keys \cup {0}, incr : Nat,
                           x : Items \cup {Null}, m : Items \cup {Null}, i : 0 .. MaxHeight + 1,
                           at : Items \cup {Null} \cup {head}, lvl : 0 .. MaxHeight,
                           prev : [Levels -> Items \cup {Null} \cup {head}],
                           fwd : [Levels -> Items \cup {Null}]]]
  BY <1>1, BoundAssumption DEF StartRest, NoLocals, Nowhere
<1>10. todo \in [calls : Nat, keys : SUBSET Keys]
  BY <1>1 DEF StartRest
<1>11. recs \subseteq Recs
  <2>1. 1 \in Levels
    BY BoundAssumption DEF Levels
  <2>2. ASSUME NEW x \in On(next, 1)
        PROVE  x \in Items /\ info[x].key \in Keys /\ info[x].incr \in Nat
    BY <2>1, NodesAtStart
  <2>3. RecsOf(next, info) \subseteq Recs
    BY <2>2 DEF RecsOf, Recs
  <2> QED
    BY <1>1, <2>3 DEF StartRest
<1> QED
  BY <1>2, <1>3, <1>4, <1>5, <1>6, <1>7, <1>8, <1>9, <1>10, <1>11 DEF TypeOK

(* The levels at the start are as ListInv says.                            *)
LEMMA BegunList ==
  ASSUME NEW s, NEW n, NEW h, NEW at, Begun(s, n, h, at)
  PROVE  ListInv
<1>1. 1 \in Levels /\ Levels \subseteq Nat /\ \A l \in Levels : l > 1 => l - 1 \in Levels
  BY BoundAssumption DEF Levels
<1>2. Nodal
  <2> SUFFICES ASSUME NEW l \in Levels, NEW x \in On(next, l)
               PROVE  /\ x \in Items /\ state[x] = "linked" /\ ~info[x].marker
                      /\ l <= info[x].lvl /\ info[x].key \in Keys
    BY DEF Nodal
  <2>1. PICK a \in 1 .. n : x = at[a] /\ h[a] >= l
    BY NodesAtStart
  <2>2. /\ at[a] \in Items /\ h[a] \in Nat /\ s.loaded[a] \in Keys
        /\ state[at[a]] = "linked" /\ info[at[a]].key = s.loaded[a]
        /\ info[at[a]].lvl = h[a] /\ ~info[at[a]].marker
    BY <1>1, NodesAtStart
  <2> QED
    BY <1>1, <2>1, <2>2
<1>3. OneBehind
  BY BegunLine DEF OneBehind
<1>4. Lower
  <2> SUFFICES ASSUME NEW l \in Levels, l > 1, NEW x \in On(next, l) PROVE x \in On(next, l - 1)
    BY DEF Lower
  <2>1. PICK a \in 1 .. n : x = at[a] /\ h[a] >= l
    BY NodesAtStart
  <2>2. h[a] \in Nat /\ l - 1 \in Levels
    BY <1>1, NodesAtStart
  <2>3. h[a] >= l - 1
    BY <1>1, <2>1, <2>2
  <2> QED
    BY <2>1, <2>2, <2>3, NodesAtStart
<1>5. Towers
  <2> SUFFICES ASSUME NEW x \in On(next, 1), NEW l \in 1 .. info[x].lvl PROVE x \in On(next, l)
    BY DEF Towers
  <2>1. PICK a \in 1 .. n : x = at[a]
    BY <1>1, NodesAtStart
  <2>2. h[a] \in Levels /\ info[x].lvl = h[a]
    BY <2>1, NodesAtStart
  <2>3. l \in Levels /\ h[a] >= l
    BY <2>2, BoundAssumption DEF Levels
  <2> QED
    BY <2>1, <2>3, NodesAtStart
<1>6. HeadIs
  BY BegunFacts DEF NodeAtStart, HeadIs
<1>7. NextIs
  <2> SUFFICES ASSUME NEW l \in Levels, NEW x \in Line(l), next[x][l] # Null
               PROVE  state[next[x][l]] = "linked" /\ ~info[next[x][l]].marker
    BY DEF NextIs
  <2>1. x \in Nodes /\ After(x, l) \in On(next, l) \cup {Null}
    BY LineFacts, BegunTyped
  <2>2. next[x][l] \in On(next, l)
    BY <2>1, BegunLine
  <2> QED
    BY <1>2, <2>2 DEF Nodal
<1>8. Apart
  BY DEF Begun, StartRest, Apart, Owns, Puts, Takes, Marks, HasMark, PutPCs, TakePCs, SearchPCs,
         NoLocals
<1> QED
  BY <1>2, <1>3, <1>4, <1>5, <1>6, <1>7, <1>8 DEF ListInv

(* The invariant holds at first, when nobody is inside.                    *)
LEMMA InitInv == Init => \E g : Inv(g)
<1> SUFFICES ASSUME Init PROVE \E g : Inv(g)
  OBVIOUS
<1>1. PICK s, n, h, at : Begun(s, n, h, at)
  BY InitBegun
<1> DEFINE g == [t \in Threads |-> {}]
<1>2. TypeOK /\ ListInv
  BY <1>1, BegunTyped, BegunList
<1>3. inside = {} /\ pc = [t \in Threads |-> "idle"] /\ loc = [t \in Threads |-> NoLocals]
  BY <1>1 DEF Begun, StartRest
<1>4. Ghost(g)
  BY <1>3 DEF Ghost, MayOK
<1>5. ASSUME NEW t \in Threads PROVE ThreadInv(g, t)
  <2> PICK p, r : p = pc[t] /\ r = loc[t]
    OBVIOUS
  <2>1. p = "idle" /\ r = NoLocals /\ t \notin inside
    BY <1>3
  <2>2. r.op = "none" /\ r.x = Null /\ r.m = Null
    BY <2>1 DEF NoLocals
  <2>3. ~Puts(p, r) /\ ~Takes(p, r) /\ ~HasMark(p, r) /\ ~Marks(p, r)
    BY <2>1, <2>2 DEF Puts, Takes, HasMark, Marks
  <2>4. PutOK(p, r) /\ TakeOK(p, r) /\ MarkOK(p, r)
    BY <2>3 DEF PutOK, TakeOK, MarkOK
  <2>5. Local(t, p, r)
    BY <2>1, <2>2 DEF Local, InsertOnly, DeleteOnly, SearchPCs
  <2>6. About(p, r) /\ Held(g, t, p, r)
    BY <2>1, <2>2 DEF About, Held
  <2> QED
    BY <2>4, <2>5, <2>6 DEF ThreadInv, ThreadOK
<1> QED
  BY <1>2, <1>4, <1>5 DEF Inv
-----------------------------------------------------------------------------
(* Every step keeps the invariant, with what the threads may have come to. *)

(* And when nothing happens.                                               *)
LEMMA StutterInv ==
  ASSUME NEW may, Inv(may), UNCHANGED vars
  PROVE  Inv(may)'
<1>1. /\ inside' = inside /\ state' = state /\ guards' = guards /\ dupl' = dupl
      /\ height' = height /\ incr_key' = incr_key /\ num' = num /\ next' = next /\ info' = info
      /\ pc' = pc /\ loc' = loc /\ todo' = todo /\ recs' = recs /\ seen' = seen
  BY DEF vars, poolVars, listVars, fields, hist
<1>2. TypeOK'
  BY <1>1 DEF Inv, TypeOK
<1>3. SameWorks
  BY <1>1 DEF SameWorks
<1>4. ListInv' /\ Ghost(may)'
  BY <1>1, <1>2, <1>3, QuietList
<1>5. ASSUME NEW t \in Threads PROVE ThreadInv(may, t)'
  <2>1. PICK p, r : p = pc[t] /\ r = loc[t]
    OBVIOUS
  <2>2. ThreadOK(may, t, p, r) /\ TypeOK
    BY <2>1 DEF Inv, ThreadInv
  <2>3. Quiet(t)
    BY <1>1, <2>2 DEF Quiet, TypeOK, Levels
  <2>4. ThreadOK(may, t, p, r)'
    BY <1>2, <2>2, <2>3, QuietThread
  <2>5. pc'[t] = p /\ loc'[t] = r
    BY <1>1, <2>1
  <2> QED
    BY <2>4, <2>5 DEF ThreadInv
<1> QED
  BY <1>2, <1>4, <1>5 DEF Inv

(* When no node is written, the sets of such nodes can stay as they are.   *)
LEMMA QuietFollows ==
  ASSUME NEW may, UNCHANGED <<next, info>>
  PROVE  Follows(may, may)
BY DEF Follows, After, Behind

(* A call that begins keeps the invariant.                                 *)
LEMMA CallInv ==
  ASSUME NEW may, Inv(may), NEW t \in Threads, Call(t)
  PROVE  \E g : Inv(g)' /\ Follows(may, g)
<1>1. Inv(may)'
  BY InsertInv, DeleteInv, GetInv DEF Call
<1>2. UNCHANGED <<next, info>>
  BY DEF Call, Insert, Delete, Get, listVars
<1> QED
  BY <1>1, <1>2, QuietFollows

(* So does a step of a call.                                               *)
LEMMA WorkInv ==
  ASSUME NEW may, Inv(may), NEW t \in Threads, Work(t)
  PROVE  \E g : Inv(g)' /\ Follows(may, g)
<1>1. CASE FindStart(t) \/ FindMove(t) \/ FindDown(t) \/ FindAgain(t) \/ FindNone(t)
           \/ FindEqual(t) \/ Forward(t)
  <2>1. Inv(may)'
    BY <1>1, FindStartInv, FindMoveInv, FindDownInv, FindAgainInv, FindNoneInv, FindEqualInv,
       ForwardInv
  <2>2. UNCHANGED <<next, info>>
    BY <1>1 DEF FindStart, FindMove, FindDown, FindAgain, FindNone, FindEqual, Forward, Ends,
                listVars
  <2> QED
    BY <2>1, <2>2, QuietFollows
<1>2. CASE InsertDup(t) \/ InsertFound(t) \/ InsertCheck(t) \/ InsertRetry(t) \/ InsertNum(t)
  <2>1. Inv(may)'
    BY <1>2, InsertDupInv, InsertFoundInv, InsertCheckInv, InsertRetryInv, InsertNumInv
  <2>2. UNCHANGED <<next, info>>
    BY <1>2 DEF InsertDup, InsertFound, InsertCheck, InsertRetry, InsertNum, Ends, listVars
  <2> QED
    BY <2>1, <2>2, QuietFollows
<1>3. CASE DeleteBusy(t) \/ DeletePrev(t) \/ DeleteRetry(t) \/ DeleteNum(t) \/ GetFound(t)
  <2>1. Inv(may)'
    BY <1>3, DeleteBusyInv, DeletePrevInv, DeleteRetryInv, DeleteNumInv, GetFoundInv
  <2>2. UNCHANGED <<next, info>>
    BY <1>3 DEF DeleteBusy, DeletePrev, DeleteRetry, DeleteNum, GetFound, Ends, listVars
  <2> QED
    BY <2>1, <2>2, QuietFollows
<1>4. CASE InsertNew(t) \/ InsertDupFree(t) \/ InsertSet(t) \/ InsertLink(t) \/ Inserted(t)
  BY <1>4, InsertNewInv, InsertDupFreeInv, InsertSetInv, InsertLinkInv, InsertedInv
<1>5. CASE DeleteFlag(t) \/ DeleteAgain(t) \/ DeleteMarker(t) \/ DeleteMark(t)
  BY <1>5, DeleteFlagInv, DeleteAgainInv, DeleteMarkerInv, DeleteMarkInv
<1>6. CASE DeleteUnlink(t) \/ DeleteFree(t) \/ DeleteFreeMarker(t)
  BY <1>6, DeleteUnlinkInv, DeleteFreeInv, DeleteFreeMarkerInv
<1>7. CASE InsertEnter(t) \/ DeleteEnter(t) \/ GetEnter(t)
  BY <1>7, EnterInv DEF InsertEnter, DeleteEnter, GetEnter
<1>8. CASE Return(t)
  BY <1>8, ReturnInv
<1> QED
  BY <1>1, <1>2, <1>3, <1>4, <1>5, <1>6, <1>7, <1>8 DEF Work

(* Every step keeps it for new sets of nodes that follow the old ones.     *)
LEMMA NextInv ==
  ASSUME NEW may, Inv(may), [Next]_vars
  PROVE  \E g : Inv(g)' /\ Follows(may, g)
<1>1. CASE UNCHANGED vars
  <2>1. Inv(may)'
    BY <1>1, StutterInv
  <2>2. UNCHANGED <<next, info>>
    BY <1>1 DEF vars, listVars
  <2> QED
    BY <2>1, <2>2, QuietFollows
<1>2. ASSUME NEW t \in Threads, Work(t) \/ Call(t)
      PROVE  \E g : Inv(g)' /\ Follows(may, g)
  BY <1>2, WorkInv, CallInv
<1>3. ASSUME NEW x \in Items, Reclaim(x)
      PROVE  \E g : Inv(g)' /\ Follows(may, g)
  BY <1>3, ReclaimInv
<1> QED
  BY <1>1, <1>2, <1>3 DEF Next

\* The invariant holds with some nodes that the threads may have come to.
IInv == \E g : Inv(g)

(* Every step keeps the invariant.                                         *)
LEMMA IInvNext == IInv /\ [Next]_vars => IInv'
<1> SUFFICES ASSUME IInv, [Next]_vars PROVE IInv'
  OBVIOUS
<1>1. PICK may : Inv(may)
  BY DEF IInv
<1>2. \E g : Inv(g)' /\ Follows(may, g)
  BY <1>1, NextInv
<1> QED
  BY <1>2 DEF IInv

(* The invariant always holds.                                             *)
LEMMA InvAlways == Spec => []IInv
<1>1. Init => IInv
  BY InitInv DEF IInv
<1> QED
  BY <1>1, IInvNext, PTL DEF Spec

(* Every variable keeps its type, whatever the threads, keys, nodes and    *)
(* calls.                                                                  *)
THEOREM TypeCorrect == Spec => []TypeOK
<1>1. IInv => TypeOK
  BY DEF IInv, Inv
<1> QED
  BY <1>1, InvAlways, PTL

-----------------------------------------------------------------------------
(* The nodes that are held. *)

(* A thread holds only nodes that it can have come to, and they are not    *)
(* free.                                                                   *)
LEMMA InvNotStale == IInv => NoStalePointer
<1> SUFFICES ASSUME NEW may, Inv(may) PROVE NoStalePointer
  BY DEF IInv
<1>1. ASSUME NEW l \in Levels, NEW n \in {head} \cup On(next, l), next[n][l] # Null
      PROVE  state[next[n][l]] = "linked"
  BY <1>1 DEF Inv, ListInv, NextIs, Line
<1>2. ASSUME NEW t \in Threads, NEW n, Safe(t, n), n \in Items PROVE state[n] # "free"
  BY <1>2, NodeAssumption DEF Safe
<1>3. ASSUME NEW t \in Threads,
             NEW x \in ({loc[t].at, loc[t].x, loc[t].m} \cup {loc[t].prev[l] : l \in Levels})
                       \cap Items
      PROVE  state[x] # "free"
  <2> PICK p, r : p = pc[t] /\ r = loc[t]
    OBVIOUS
  <2>1. ThreadOK(may, t, p, r) /\ TypeOK
    BY DEF Inv, ThreadInv
  <2>2. x \in Items /\ x # Null /\ (x \in {r.at, r.x, r.m} \/ \E l \in Levels : x = r.prev[l])
    BY NodeAssumption
  <2>3. ASSUME NEW k \in Levels, <<x, k>> \in may[t] PROVE state[x] # "free"
    <3>1. MayOK(may, t) /\ x \in Nodes
      BY <2>2 DEF Inv, Ghost, Nodes
    <3>2. Safe(t, x)
      BY <2>3, <3>1 DEF MayOK
    <3> QED
      BY <1>2, <2>2, <3>2
  <2>4. 1 \in Levels
    BY BoundAssumption DEF Levels
  <2>5. CASE t \in inside
    <3>1. /\ \A k \in Levels : r.prev[k] # Null => <<r.prev[k], k>> \in may[t]
          /\ r.at # Null => <<r.at, 1>> \in may[t]
          /\ r.x # Null /\ ~Puts(p, r) => <<r.x, 1>> \in may[t]
          /\ r.m # Null => Safe(t, r.m)
      BY <2>1, <2>5 DEF ThreadOK, Held
    <3>2. Puts(p, r) => state[r.x] = "linked"
      BY <2>1 DEF ThreadOK, PutOK
    <3>3. CASE x = r.at
      BY <2>2, <2>3, <2>4, <3>1, <3>3
    <3>4. CASE x = r.x
      BY <2>2, <2>3, <2>4, <3>1, <3>2, <3>4
    <3>5. CASE x = r.m
      BY <1>2, <2>2, <3>1, <3>5
    <3>6. CASE \E l \in Levels : x = r.prev[l]
      BY <2>2, <2>3, <3>1, <3>6
    <3> QED
      BY <2>2, <3>3, <3>4, <3>5, <3>6
  <2>6. CASE t \notin inside
    <3>1. p \in {"idle", "new", "enter"}
      BY <2>1, <2>6 DEF ThreadOK, Local
    <3>2. r.at = Null /\ r.m = Null /\ \A l \in Levels : r.prev[l] = Null
      BY <2>1, <3>1 DEF ThreadOK, Local, NoLocals, Nowhere
    <3>3. r.x # Null => p = "enter" /\ r.op = "insert"
      <4>1. r.op \in {"insert", "delete", "get", "none"}
        BY <2>1, OpAssumption DEF TypeOK
      <4> QED
        BY <2>1, <3>1, <4>1 DEF ThreadOK, Local, About, NoLocals, SearchPCs, TakePCs
    <3>4. r.x # Null => state[r.x] = "linked"
      BY <2>1, <3>3 DEF ThreadOK, PutOK, Puts, PutPCs
    <3> QED
      BY <2>2, <3>2, <3>4
  <2> QED
    BY <2>5, <2>6
<1> QED
  BY <1>1, <1>3 DEF NoStalePointer

(* Whatever a walk along a level comes to, markers included, is linked,    *)
(* and no thread holds a node that ab_mem_epoch_gc has taken back: the     *)
(* node that it works on, where its search is and what the search has      *)
(* noted are linked, or retired and guarded by the thread.                 *)
THEOREM NotStale == Spec => []NoStalePointer
BY InvNotStale, InvAlways, PTL
=============================================================================
