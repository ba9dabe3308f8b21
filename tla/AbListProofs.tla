---------------------------- MODULE AbListProofs ----------------------------
(***************************************************************************)
(* What is proved of the lock-free queue, for any finite number of         *)
(* threads and nodes, any number of puts and any pool that keeps the       *)
(* promise of AbReclaim: no stale pointer is followed (NothingStale), the  *)
(* list implements the queue of AbFifo (ListIsFifo), and chain, tail and   *)
(* count fit together at any moment (WholeQueue).                          *)
(*                                                                         *)
(* The danger is a chain of reads: a thread reads next of a node that was  *)
(* unlinked meanwhile, and what it finds there may be unlinked too.  It    *)
(* is safe because nodes are unlinked in the order of the queue: whoever   *)
(* was inside when a node went was still inside when the next one did.     *)
(* Inv says so of each node and the one behind it.                         *)
(*                                                                         *)
(* The queue as a whole is a sequence of nodes, the line, whose existence  *)
(* LineInv states.  Chain of AbList computes it (ChainIsLine, by           *)
(* induction), a put appends to it when tail moves, a delete takes its     *)
(* first node off, and Saw ties what a call has read to the fronts the     *)
(* queue has had since the call began.                                     *)
(***************************************************************************)
EXTENDS AbList, SequenceTheorems, AbInduct, TLAPS

-----------------------------------------------------------------------------
(* The inductive invariant.                                                *)

Outside == Rest \cup {"put_enter"}
Empty == Outside \cup {"put_tail", "put_leave", "del_head", "get_head", "get_none"}
TailPCs == {"put_next", "put_again", "put_help", "put_link", "put_num", "put_swing"}
HeadPCs == {"del_read", "del_tail", "del_next", "del_again", "del_value", "del_cas",
            "get_next", "get_again", "get_tail", "get_value"}
PrivatePCs == PutPCs \ LinkedPCs

\* The pool cannot hand x out while t is in its call.
Safe(t, x) == state[x] = "linked" \/ (state[x] = "retired" /\ t \in guards[x])

\* What t has read and still uses is safe, and it uses it inside only.
Holds(t) ==
  /\ pc[t] \notin Outside => t \in inside
  /\ pc[t] \in Empty => hd[t] = Null /\ tl[t] = Null /\ nx[t] = Null
  /\ pc[t] \in TailPCs => tl[t] # Null
  /\ pc[t] \in HeadPCs => hd[t] # Null
  /\ \A x \in {hd[t], tl[t], nx[t]} \ {Null} : Safe(t, x)

\* What t knows of the nodes it holds: a next field that was not NULL stays
\* as it is, the old head has not come back, and tail does not return to it.
Knows(t) ==
  /\ hd[t] # Null => hd[t] = head \/ state[hd[t]] = "retired"
  /\ pc[t] = "put_again" => nx[t] \in {Null, next[tl[t]]}
  /\ pc[t] = "put_help" => nx[t] # Null /\ nx[t] = next[tl[t]]
  /\ pc[t] \in {"put_num", "put_swing"} => node[t] # Null /\ next[tl[t]] = node[t]
  /\ pc[t] \in {"del_next", "del_again"} => tl[t] = hd[t] \/ hd[t] # tail
  /\ pc[t] \in {"del_tail", "del_again"} => nx[t] \in {Null, next[hd[t]]}
  /\ pc[t] \in {"del_value", "del_cas"} =>
       nx[t] # Null /\ nx[t] = next[hd[t]] /\ hd[t] # tail
  /\ pc[t] = "get_value" => nx[t] # Null

\* The node of a put that is not linked yet is known to nobody else.
Private(t) ==
  pc[t] \in PrivatePCs =>
    /\ node[t] # Null /\ state[node[t]] = "linked" /\ next[node[t]] = Null
    /\ node[t] # head /\ node[t] # tail
    /\ \A x \in Items : state[x] = "linked" => next[x] # node[t]
    /\ \A u \in Threads : tl[u] # node[t]
    /\ \A u \in Threads \ {t} : pc[u] \in PrivatePCs => node[u] # node[t]

\* Nodes are linked one behind the other, and head is the first.
Lined ==
  /\ state[head] = "linked" /\ state[tail] = "linked"
  /\ \A x \in Items : state[x] = "linked" /\ next[x] # Null =>
       /\ state[next[x]] = "linked" /\ next[x] # head
       /\ \A z \in Items : state[z] = "linked" /\ next[z] = next[x] => z = x

\* A node that was unlinked leads whoever may still hold it to a safe node.
Leads ==
  \A x \in Items :
    /\ guards[x] \subseteq inside
    /\ state[x] = "retired" =>
         \A t \in guards[x] : next[x] # Null /\ Safe(t, next[x])

Inv ==
  /\ TypeOK
  /\ Lined
  /\ Leads
  /\ \A t \in Threads : Holds(t) /\ Knows(t) /\ Private(t)

-----------------------------------------------------------------------------
(* Types.                                                                  *)

LEMMA FrontType ==
  ASSUME TypeOK, NEW h \in Items, NEW last
  PROVE  Front(h, last) \in 1 .. MaxPuts \cup {Null}
BY DEF TypeOK, Front

LEMMA TypeInit == Init => TypeOK
BY NumAssumption DEF Init, TypeOK, Rest

LEMMA TypePut ==
  ASSUME Inv, NEW t \in Threads,
         \/ PutEnter(t) \/ PutTail(t) \/ PutNext(t) \/ PutStale(t) \/ PutGoOn(t)
         \/ PutHelp(t) \/ PutLink(t) \/ PutRetry(t) \/ PutNum(t) \/ PutSwing(t)
         \/ PutLeave(t)
  PROVE  TypeOK'
<1> USE ItemAssumption DEF Inv, TypeOK, Goto, Rest, PutPCs, Forget, poolVars, listVars, locals
<1>1. CASE PutEnter(t)
  BY <1>1 DEF PutEnter, EnterEpoch, Pool!Enter, Pool!Reenter
<1>2. CASE PutTail(t)
  BY <1>2 DEF PutTail
<1>3. CASE PutNext(t)
  BY <1>3 DEF PutNext, Holds, TailPCs
<1>4. CASE PutStale(t) \/ PutRetry(t)
  BY <1>4 DEF PutStale, PutRetry
<1>5. CASE PutGoOn(t)
  BY <1>5 DEF PutGoOn
<1>6. CASE PutLink(t)
  BY <1>6 DEF PutLink
<1>7. CASE PutNum(t)
  BY <1>7, NumAssumption DEF PutNum
<1>8. CASE PutLeave(t)
  BY <1>8 DEF PutLeave, Pool!Leave, SeeLast
<1>9. CASE PutHelp(t) \/ PutSwing(t)
  <2>1. PICK to \in Items : MoveTail(tl[t], to)
    BY <1>9 DEF PutHelp, PutSwing, Knows
  <2>2. seen' \in [Threads -> SUBSET (1 .. MaxPuts \cup {Null})]
    BY <2>1, FrontType DEF MoveTail, SeeNew
  <2>3. tail' \in Items /\ UNCHANGED <<head, num, next, value>>
    BY <2>1 DEF MoveTail
  <2>4. \E l \in {"put_tail", "put_leave"} : pc' = [pc EXCEPT ![t] = l]
    BY <1>9 DEF PutHelp, PutSwing
  <2>5. /\ hd' = [hd EXCEPT ![t] = Null] /\ tl' = [tl EXCEPT ![t] = Null]
        /\ nx' = [nx EXCEPT ![t] = Null] /\ val' = [val EXCEPT ![t] = Null]
        /\ UNCHANGED <<inside, state, guards, node, puts>>
    BY <1>9 DEF PutHelp, PutSwing
  <2> QED
    BY <2>2, <2>3, <2>4, <2>5
<1> QED
  BY <1>1, <1>2, <1>3, <1>4, <1>5, <1>6, <1>7, <1>8, <1>9

LEMMA TypeDel ==
  ASSUME Inv, NEW t \in Threads,
         \/ DelHead(t) \/ DelTail(t) \/ DelNext(t) \/ DelStale(t) \/ DelEmpty(t)
         \/ DelGoOn(t) \/ DelValue(t) \/ DelCas(t) \/ DelRetry(t) \/ DelNum(t)
         \/ DelLeave(t)
  PROVE  TypeOK'
<1> USE ItemAssumption DEF Inv, TypeOK, Goto, Rest, DelPCs, Forget, poolVars, listVars, locals
<1>1. CASE DelHead(t)
  BY <1>1 DEF DelHead
<1>2. CASE DelTail(t)
  BY <1>2 DEF DelTail
<1>3. CASE DelNext(t)
  BY <1>3 DEF DelNext, Holds, HeadPCs
<1>4. CASE DelStale(t) \/ DelEmpty(t) \/ DelRetry(t)
  BY <1>4 DEF DelStale, DelEmpty, DelRetry
<1>5. CASE DelGoOn(t)
  BY <1>5 DEF DelGoOn
<1>6. CASE DelValue(t)
  BY <1>6 DEF DelValue, Knows
<1>7. CASE DelCas(t)
  <2>1. nx[t] \in Items
    BY <1>7 DEF DelCas, Knows
  <2>2. seen' \in [Threads -> SUBSET (1 .. MaxPuts \cup {Null})]
    BY <1>7, <2>1, FrontType DEF DelCas, SeeNew
  <2> QED
    BY <1>7, <2>1, <2>2 DEF DelCas, Pool!Retire
<1>8. CASE DelNum(t)
  BY <1>8, NumAssumption DEF DelNum
<1>9. CASE DelLeave(t)
  BY <1>9 DEF DelLeave, Pool!Leave, SeeLast
<1> QED
  BY <1>1, <1>2, <1>3, <1>4, <1>5, <1>6, <1>7, <1>8, <1>9

LEMMA TypeGet ==
  ASSUME Inv, NEW t \in Threads,
         \/ GetHead(t) \/ GetNext(t) \/ GetAgain(t) \/ GetTail(t) \/ GetNone(t)
         \/ GetValue(t) \/ GetLeave(t)
  PROVE  TypeOK'
<1> USE ItemAssumption DEF Inv, TypeOK, Goto, Rest, GetPCs, Forget, poolVars, listVars, locals
<1>1. CASE GetHead(t)
  BY <1>1 DEF GetHead
<1>2. CASE GetNext(t)
  BY <1>2 DEF GetNext, Holds, HeadPCs
<1>3. CASE GetAgain(t)
  BY <1>3 DEF GetAgain
<1>4. CASE GetTail(t)
  BY <1>4 DEF GetTail
<1>5. CASE GetNone(t)
  BY <1>5 DEF GetNone, SeeLast
<1>6. CASE GetValue(t)
  BY <1>6 DEF GetValue, Knows
<1>7. CASE GetLeave(t)
  BY <1>7 DEF GetLeave, Pool!Leave, SeeLast
<1> QED
  BY <1>1, <1>2, <1>3, <1>4, <1>5, <1>6, <1>7

LEMMA TypeCall ==
  ASSUME Inv, NEW t \in Threads, Call(t)
  PROVE  TypeOK'
<1> USE ItemAssumption DEF Inv, TypeOK, Begin, Rest, PutPCs, DelPCs, GetPCs, listVars, locals
<1>1. seen' \in [Threads -> SUBSET (1 .. MaxPuts \cup {Null})]
  BY FrontType DEF Call, Put, Del, Get, SeeFirst
<1>2. CASE Put(t)
  BY <1>1, <1>2, NumAssumption DEF Put, Pool!Publish
<1>3. CASE Del(t) \/ Get(t)
  BY <1>1, <1>3 DEF Del, Get, EnterEpoch, Pool!Enter, Pool!Reenter
<1> QED
  BY <1>2, <1>3 DEF Call

LEMMA TypeStep == Inv /\ [Next]_vars => TypeOK'
<1> SUFFICES ASSUME Inv, [Next]_vars PROVE TypeOK'
  OBVIOUS
<1>1. CASE UNCHANGED vars
  BY <1>1 DEF Inv, TypeOK, vars, poolVars, listVars, locals
<1>2. ASSUME NEW x \in Items, Reclaim(x) PROVE TypeOK'
  BY <1>2 DEF Inv, TypeOK, Reclaim, Pool!Reclaim, listVars, locals
<1>3. ASSUME NEW t \in Threads, Work(t) PROVE TypeOK'
  BY <1>3, TypePut, TypeDel, TypeGet DEF Work
<1> QED
  BY <1>1, <1>2, <1>3, TypeCall DEF Next

-----------------------------------------------------------------------------
(* Preservation.                                                           *)

\* The locals of the other threads.
OthersKeep(t) ==
  \A u \in Threads \ {t} :
    pc'[u] = pc[u] /\ hd'[u] = hd[u] /\ tl'[u] = tl[u] /\ nx'[u] = nx[u] /\ node'[u] = node[u]

(* A step that changes only what t has in hand: it reads tail or nothing   *)
(* new into tl, and what it holds and knows is shown elsewhere.            *)
LEMMA Quiet ==
  ASSUME Inv, TypeOK', NEW t \in Threads, OthersKeep(t),
         UNCHANGED <<inside, state, guards, head, tail, next>>, node'[t] = node[t],
         pc'[t] \in PrivatePCs => pc[t] \in PrivatePCs,
         tl'[t] \in {tl[t], tail, Null},
         Holds(t)', Knows(t)'
  PROVE  Inv'
<1>1. Lined' /\ Leads'
  BY DEF Inv, Lined, Leads, Safe
<1>2. ASSUME NEW u \in Threads PROVE Holds(u)' /\ Knows(u)'
  <2> SUFFICES ASSUME u # t PROVE Holds(u)' /\ Knows(u)'
    OBVIOUS
  <2> QED
    BY DEF Inv, Holds, Knows, Safe, OthersKeep
<1>3. \A u \in Threads : pc'[u] \in PrivatePCs => pc[u] \in PrivatePCs /\ node'[u] = node[u]
  BY DEF OthersKeep
<1>4. \A u \in Threads : tl'[u] \in {tl[u], tail, Null}
  BY DEF OthersKeep
<1>5. ASSUME NEW u \in Threads PROVE Private(u)'
  <2> SUFFICES ASSUME pc[u] \in PrivatePCs, pc'[u] \in PrivatePCs PROVE Private(u)'
    BY <1>3 DEF Private
  <2>1. Private(u)
    BY DEF Inv
  <2> QED
    BY <1>3, <1>4, <2>1 DEF Private
<1> QED
  BY <1>1, <1>2, <1>5 DEF Inv

(* t enters or leaves the epoch with empty hands. *)
LEMMA Gate ==
  ASSUME Inv, TypeOK', NEW t \in Threads, OthersKeep(t),
         UNCHANGED <<state, head, tail, next>>,
         \/ Pool!Enter(t) \/ Pool!Reenter(t) \/ Pool!Leave(t),
         pc'[t] \in Empty, pc'[t] \notin Outside => t \in inside',
         pc'[t] \in PrivatePCs => pc[t] \in PrivatePCs /\ node'[t] = node[t],
         hd'[t] = Null, tl'[t] = Null, nx'[t] = Null
  PROVE  Inv'
<1>1. \A x \in Items : guards'[x] \subseteq guards[x] /\ guards[x] \ {t} \subseteq guards'[x]
  BY DEF Inv, TypeOK, Pool!Enter, Pool!Reenter, Pool!Leave
<1>2. \A x \in Items : guards'[x] \subseteq inside'
  BY DEF Inv, TypeOK, Leads, Pool!Enter, Pool!Reenter, Pool!Leave
<1>3. inside \ {t} \subseteq inside'
  BY DEF Pool!Enter, Pool!Reenter, Pool!Leave
<1>4. \A x \in Items, y \in Items : t \in guards'[x] /\ t \in guards[y] => t \in guards'[y]
  BY DEF Inv, TypeOK, Pool!Enter, Pool!Reenter, Pool!Leave
<1>5. Lined'
  BY DEF Inv, Lined
<1>6. Leads'
  <2> SUFFICES ASSUME NEW x \in Items, state[x] = "retired", NEW u \in guards'[x]
               PROVE  next[x] # Null /\ Safe(u, next[x])'
    BY <1>2 DEF Leads
  <2>1. next[x] \in Items /\ Safe(u, next[x])
    BY <1>1 DEF Inv, TypeOK, Leads
  <2> QED
    BY <1>1, <1>4, <2>1, ItemAssumption DEF Safe
<1>7. ASSUME NEW u \in Threads PROVE Holds(u)' /\ Knows(u)'
  <2>1. CASE u = t
    BY <2>1, ItemAssumption DEF Holds, Knows, Empty, Outside, Rest, TailPCs, HeadPCs
  <2>2. CASE u # t
    BY <1>1, <1>3, <2>2 DEF Inv, TypeOK, Holds, Knows, Safe, OthersKeep
  <2> QED
    BY <2>1, <2>2
<1>8. \A u \in Threads : pc'[u] \in PrivatePCs => pc[u] \in PrivatePCs /\ node'[u] = node[u]
  BY DEF OthersKeep
<1>9. \A u \in Threads : tl'[u] \in {tl[u], Null}
  BY DEF OthersKeep
<1>10. ASSUME NEW u \in Threads PROVE Private(u)'
  <2> SUFFICES ASSUME pc[u] \in PrivatePCs, pc'[u] \in PrivatePCs PROVE Private(u)'
    BY <1>8 DEF Private
  <2>1. Private(u)
    BY DEF Inv
  <2> QED
    BY <1>8, <1>9, <2>1 DEF Private
<1> QED
  BY <1>5, <1>6, <1>7, <1>10 DEF Inv

(* The pool hands a node back: nobody holds it. *)
LEMMA StepReclaim ==
  ASSUME Inv, TypeOK', NEW x \in Items, Reclaim(x)
  PROVE  Inv'
<1> USE DEF Reclaim, Pool!Reclaim, listVars, locals
<1>1. Lined' /\ Leads'
  BY ItemAssumption DEF Inv, TypeOK, Lined, Leads, Safe
<1>2. ASSUME NEW u \in Threads PROVE Holds(u)' /\ Knows(u)' /\ Private(u)'
  BY ItemAssumption DEF Inv, TypeOK, Lined, Holds, Knows, Private, Safe
<1> QED
  BY <1>1, <1>2 DEF Inv

(* A put takes a free node, which nobody can have seen. *)
LEMMA StepPut ==
  ASSUME Inv, TypeOK', NEW t \in Threads, Put(t)
  PROVE  Inv'
<1>1. PICK n \in Items :
        /\ state[n] = "free" /\ state' = [state EXCEPT ![n] = "linked"]
        /\ next' = [next EXCEPT ![n] = Null] /\ node' = [node EXCEPT ![t] = n]
        /\ pc[t] \in Rest /\ pc' = [pc EXCEPT ![t] = "put_enter"]
        /\ UNCHANGED <<inside, guards, head, tail, hd, tl, nx>>
  BY DEF Put, Begin, Pool!Publish
<1>2. \A x \in Items : state[x] = "linked" => next[x] # n /\ x # n
  BY <1>1, ItemAssumption DEF Inv, Lined
<1>3. Lined'
  BY <1>1, <1>2 DEF Inv, TypeOK, Lined
<1>4. Leads'
  BY <1>1, ItemAssumption DEF Inv, TypeOK, Leads, Safe
<1>5. \A u \in Threads : hd[u] # n /\ tl[u] # n /\ nx[u] # n
  BY <1>1, ItemAssumption DEF Inv, Holds, Safe
<1>6. ASSUME NEW u \in Threads PROVE Holds(u)'
  BY <1>1, <1>5, ItemAssumption
     DEF Inv, TypeOK, Holds, Safe, Rest, Outside, Empty, TailPCs, HeadPCs
<1>7. ASSUME NEW u \in Threads PROVE Knows(u)'
  <2>1. CASE u = t
    BY <1>1, <1>5, <2>1 DEF Inv, TypeOK, Knows, Holds, Empty, Outside
  <2>2. CASE u # t
    <3>1. pc[u] \in TailPCs => next'[tl[u]] = next[tl[u]]
      BY <1>1, <1>5, ItemAssumption DEF Inv, TypeOK, Holds
    <3>2. pc[u] \in HeadPCs => next'[hd[u]] = next[hd[u]]
      BY <1>1, <1>5, ItemAssumption DEF Inv, TypeOK, Holds
    <3> QED
      BY <1>1, <1>5, <2>2, <3>1, <3>2 DEF Inv, TypeOK, Knows, TailPCs, HeadPCs
  <2> QED
    BY <2>1, <2>2
<1>8. ASSUME NEW u \in Threads PROVE Private(u)'
  <2>1. CASE u = t
    BY <1>1, <1>2, <1>5, <2>1, ItemAssumption DEF Inv, TypeOK, Lined, Private
  <2>2. CASE u # t
    BY <1>1, <1>2, <2>2, ItemAssumption DEF Inv, TypeOK, Private
  <2> QED
    BY <2>1, <2>2
<1> QED
  BY <1>3, <1>4, <1>6, <1>7, <1>8 DEF Inv

(* The node behind which a put links its own is the last: nobody unlinked  *)
(* it, since an unlinked node that is held has a next node.                *)
LEMMA StepPutLink ==
  ASSUME Inv, TypeOK', NEW t \in Threads, PutLink(t)
  PROVE  Inv'
<1> DEFINE p == tl[t]
           n == node[t]
<1>1. /\ next[p] = Null /\ next' = [next EXCEPT ![p] = n]
      /\ pc[t] = "put_link" /\ pc' = [pc EXCEPT ![t] = "put_num"]
      /\ UNCHANGED <<inside, state, guards, head, tail, hd, tl, nx, node>>
  BY DEF PutLink, Goto, poolVars, locals
<1>2. p \in Items /\ state[p] = "linked"
  <2>1. p \in Items /\ Safe(t, p)
    BY <1>1 DEF Inv, TypeOK, Holds, TailPCs
  <2> QED
    BY <1>1, <2>1 DEF Inv, Leads, Safe
<1>3. /\ n \in Items /\ state[n] = "linked" /\ next[n] = Null /\ n # head /\ n # tail
      /\ \A x \in Items : state[x] = "linked" => next[x] # n
      /\ \A u \in Threads : tl[u] # n
      /\ \A u \in Threads \ {t} : pc[u] \in PrivatePCs => node[u] # n
  BY <1>1 DEF Inv, TypeOK, Private, PrivatePCs, PutPCs, LinkedPCs
<1>4. Lined'
  BY <1>1, <1>2, <1>3, ItemAssumption DEF Inv, TypeOK, Lined
<1>5. Leads'
  BY <1>1, <1>2 DEF Inv, TypeOK, Leads, Safe
<1>6. ASSUME NEW u \in Threads PROVE Holds(u)'
  BY <1>1 DEF Inv, TypeOK, Holds, Safe, Outside, Rest, Empty, TailPCs, HeadPCs
<1>7. ASSUME NEW u \in Threads PROVE Knows(u)'
  <2>1. \A y : next[y] # Null => next'[y] = next[y]
    BY <1>1, <1>2 DEF Inv, TypeOK
  <2> QED
    BY <1>1, <1>2, <1>3, <2>1, ItemAssumption DEF Inv, TypeOK, Knows
<1>8. ASSUME NEW u \in Threads PROVE Private(u)'
  <2>1. CASE u = t
    BY <1>1, <2>1 DEF Inv, TypeOK, Private, PrivatePCs, LinkedPCs
  <2>2. CASE u # t
    BY <1>1, <1>2, <1>3, <2>2, ItemAssumption DEF Inv, TypeOK, Private
  <2> QED
    BY <2>1, <2>2
<1> QED
  BY <1>4, <1>5, <1>6, <1>7, <1>8 DEF Inv

(* Where a CAS moves tail, it moves to the next node; a thread that found  *)
(* tail ahead of its head does not find it at its head again.              *)
LEMMA StepMoveTail ==
  ASSUME Inv, TypeOK', NEW t \in Threads, PutHelp(t) \/ PutSwing(t)
  PROVE  Inv'
<1>1. /\ pc[t] \in {"put_help", "put_swing"}
      /\ \E to \in {"put_tail", "put_leave"} : pc' = [pc EXCEPT ![t] = to]
      /\ hd' = [hd EXCEPT ![t] = Null] /\ tl' = [tl EXCEPT ![t] = Null]
      /\ nx' = [nx EXCEPT ![t] = Null]
      /\ pc[t] = "put_swing" => pc' = [pc EXCEPT ![t] = "put_leave"]
      /\ UNCHANGED <<inside, state, guards, head, next, node>>
  BY DEF PutHelp, PutSwing, Goto, Forget, MoveTail, poolVars
<1>2. tail' = tail \/ (tail' = next[tail] /\ next[tail] # Null)
  BY ItemAssumption DEF PutHelp, PutSwing, MoveTail, Goto, Inv, Knows
<1>3. Lined' /\ Leads'
  <2>1. state[tail'] = "linked"
    BY <1>2 DEF Inv, TypeOK, Lined
  <2>2. Lined'
    BY <1>1, <2>1 DEF Inv, Lined
  <2>3. Leads'
    BY <1>1 DEF Inv, Leads, Safe
  <2> QED
    BY <2>2, <2>3
<1>4. ASSUME NEW u \in Threads PROVE Holds(u)'
  <2>1. CASE u = t
    <3>1. pc'[t] \in {"put_tail", "put_leave"} /\ hd'[t] = Null /\ tl'[t] = Null /\ nx'[t] = Null
      BY <1>1 DEF Inv, TypeOK
    <3>2. t \in inside
      BY <1>1 DEF Inv, Holds, Outside, Rest
    <3> QED
      BY <1>1, <2>1, <3>1, <3>2 DEF Holds, Empty, TailPCs, HeadPCs
  <2>2. CASE u # t
    BY <1>1, <2>2 DEF Inv, TypeOK, Holds, Safe
  <2> QED
    BY <2>1, <2>2
<1>5. ASSUME NEW u \in Threads PROVE Knows(u)'
  <2>1. CASE u = t
    BY <1>1, <2>1 DEF Inv, TypeOK, Knows
  <2>2. CASE u # t
    <3>1. hd[u] # Null /\ hd[u] # tail => hd[u] # tail'
      BY <1>2, ItemAssumption DEF Inv, TypeOK, Lined, Knows
    <3> QED
      BY <1>1, <2>2, <3>1 DEF Inv, TypeOK, Knows, Holds, HeadPCs
  <2> QED
    BY <2>1, <2>2
<1>6. ASSUME NEW u \in Threads PROVE Private(u)'
  <2> SUFFICES ASSUME pc'[u] \in PrivatePCs PROVE Private(u)'
    BY DEF Private
  <2>1. pc[u] \in PrivatePCs
    BY <1>1 DEF Inv, TypeOK, PrivatePCs, PutPCs, LinkedPCs
  <2>2. tail' # node[u]
    BY <1>2, <2>1 DEF Inv, TypeOK, Lined, Private
  <2>3. \A v \in Threads : pc'[v] \in PrivatePCs => pc[v] \in PrivatePCs
    BY <1>1 DEF Inv, TypeOK, PrivatePCs, PutPCs, LinkedPCs
  <2> QED
    BY <1>1, <2>1, <2>2, <2>3, ItemAssumption DEF Inv, TypeOK, Private
<1> QED
  BY <1>3, <1>4, <1>5, <1>6 DEF Inv

(* The old head is unlinked: no linked node leads to it, it is not tail,   *)
(* and whoever is inside now is kept in its guards.                        *)
LEMMA StepDelCas ==
  ASSUME Inv, TypeOK', NEW t \in Threads, DelCas(t)
  PROVE  Inv'
<1> DEFINE h == head
<1>1. /\ hd[t] = h /\ nx[t] = next[h] /\ next[h] # Null /\ h # tail
      /\ head' = next[h]
      /\ state[h] = "linked" /\ state' = [state EXCEPT ![h] = "retired"]
      /\ guards' = [guards EXCEPT ![h] = inside]
      /\ pc[t] = "del_cas" /\ pc' = [pc EXCEPT ![t] = "del_num"]
      /\ UNCHANGED <<inside, tail, next, hd, tl, nx, node>>
  BY DEF DelCas, Goto, Pool!Retire, Inv, Knows, locals
<1>2. /\ next[h] \in Items /\ state[next[h]] = "linked" /\ next[h] # h
      /\ \A x \in Items \ {h} : state[x] = "linked" => next[x] # h /\ next[x] # next[h]
  BY <1>1, ItemAssumption DEF Inv, TypeOK, Lined
<1>3. Lined'
  BY <1>1, <1>2 DEF Inv, TypeOK, Lined
<1>4. \A u \in inside, x \in Items : Safe(u, x) => Safe(u, x)'
  BY <1>1 DEF Inv, TypeOK, Safe
<1>5. Leads'
  BY <1>1, <1>2, <1>4, ItemAssumption DEF Inv, TypeOK, Leads, Safe
<1>6. ASSUME NEW u \in Threads PROVE Holds(u)'
  BY <1>1, <1>4, ItemAssumption
     DEF Inv, TypeOK, Holds, Outside, Rest, Empty, TailPCs, HeadPCs
<1>7. ASSUME NEW u \in Threads PROVE Knows(u)'
  BY <1>1, <1>2, ItemAssumption DEF Inv, TypeOK, Knows
<1>8. ASSUME NEW u \in Threads PROVE Private(u)'
  BY <1>1, <1>2, ItemAssumption DEF Inv, TypeOK, Private, PrivatePCs, PutPCs, LinkedPCs
<1> QED
  BY <1>3, <1>5, <1>6, <1>7, <1>8 DEF Inv

(* What is left of a put, a delete and a get changes the locals only.      *)
LEMMA StepPutQuiet ==
  ASSUME Inv, TypeOK', NEW t \in Threads,
         \/ PutTail(t) \/ PutNext(t) \/ PutStale(t) \/ PutGoOn(t) \/ PutRetry(t) \/ PutNum(t)
  PROVE  Inv'
<1> USE ItemAssumption DEF Inv, TypeOK, Goto, Forget, poolVars, listVars, locals, OthersKeep,
        PrivatePCs, PutPCs, LinkedPCs, Outside, Rest, Empty, TailPCs, HeadPCs
<1>1. CASE PutTail(t)
  <2>1. Holds(t)' /\ Knows(t)'
    BY <1>1 DEF PutTail, Holds, Knows, Lined, Safe
  <2> QED
    BY <1>1, <2>1, Quiet DEF PutTail
<1>2. CASE PutNext(t)
  <2>1. tl[t] \in Items /\ Safe(t, tl[t])
    BY <1>2 DEF PutNext, Holds
  <2>2. next[tl[t]] # Null => Safe(t, next[tl[t]])
    BY <2>1 DEF Lined, Leads, Safe
  <2>3. Holds(t)' /\ Knows(t)'
    BY <1>2, <2>1, <2>2 DEF PutNext, Holds, Knows, Safe
  <2> QED
    BY <1>2, <2>3, Quiet DEF PutNext
<1>3. CASE PutStale(t) \/ PutRetry(t)
  <2>1. Holds(t)' /\ Knows(t)'
    BY <1>3 DEF PutStale, PutRetry, Holds, Knows
  <2> QED
    BY <1>3, <2>1, Quiet DEF PutStale, PutRetry
<1>4. CASE PutGoOn(t)
  <2>1. Holds(t)' /\ Knows(t)'
    BY <1>4 DEF PutGoOn, Holds, Knows, Safe
  <2> QED
    BY <1>4, <2>1, Quiet DEF PutGoOn
<1>5. CASE PutNum(t)
  <2>1. Holds(t)' /\ Knows(t)'
    BY <1>5 DEF PutNum, Holds, Knows, Safe
  <2> QED
    BY <1>5, <2>1, Quiet DEF PutNum
<1> QED
  BY <1>1, <1>2, <1>3, <1>4, <1>5

LEMMA StepDelQuiet ==
  ASSUME Inv, TypeOK', NEW t \in Threads,
         \/ DelHead(t) \/ DelTail(t) \/ DelNext(t) \/ DelStale(t) \/ DelEmpty(t)
         \/ DelGoOn(t) \/ DelValue(t) \/ DelRetry(t) \/ DelNum(t)
  PROVE  Inv'
<1> USE ItemAssumption DEF Inv, TypeOK, Goto, Forget, poolVars, listVars, locals, OthersKeep,
        PrivatePCs, PutPCs, LinkedPCs, Outside, Rest, Empty, TailPCs, HeadPCs
<1>1. CASE DelHead(t)
  <2>1. Holds(t)' /\ Knows(t)'
    BY <1>1 DEF DelHead, Holds, Knows, Lined, Safe
  <2> QED
    BY <1>1, <2>1, Quiet DEF DelHead
<1>2. CASE DelTail(t)
  <2>1. Holds(t)' /\ Knows(t)'
    BY <1>2 DEF DelTail, Holds, Knows, Lined, Safe
  <2> QED
    BY <1>2, <2>1, Quiet DEF DelTail
<1>3. CASE DelNext(t)
  <2>1. hd[t] \in Items /\ Safe(t, hd[t])
    BY <1>3 DEF DelNext, Holds
  <2>2. next[hd[t]] # Null => Safe(t, next[hd[t]])
    BY <2>1 DEF Lined, Leads, Safe
  <2>3. Holds(t)' /\ Knows(t)'
    BY <1>3, <2>1, <2>2 DEF DelNext, Holds, Knows, Safe
  <2> QED
    BY <1>3, <2>3, Quiet DEF DelNext
<1>4. CASE DelStale(t) \/ DelEmpty(t) \/ DelRetry(t)
  <2>1. /\ pc[t] \in {"del_again", "del_cas"} /\ pc'[t] \in {"del_head", "del_leave"}
        /\ hd'[t] = Null /\ tl'[t] = Null /\ nx'[t] = Null
        /\ UNCHANGED <<inside, state, guards, head, tail, next, node>>
        /\ OthersKeep(t)
    BY <1>4 DEF DelStale, DelEmpty, DelRetry
  <2>2. Holds(t)' /\ Knows(t)'
    BY <2>1 DEF Holds, Knows
  <2> QED
    BY <2>1, <2>2, Quiet
<1>5. CASE DelGoOn(t)
  <2>1. Holds(t)' /\ Knows(t)'
    BY <1>5 DEF DelGoOn, Holds, Knows, Safe
  <2> QED
    BY <1>5, <2>1, Quiet DEF DelGoOn
<1>6. CASE DelValue(t)
  <2>1. Holds(t)' /\ Knows(t)'
    BY <1>6 DEF DelValue, Holds, Knows, Safe
  <2> QED
    BY <1>6, <2>1, Quiet DEF DelValue
<1>7. CASE DelNum(t)
  <2>1. Holds(t)' /\ Knows(t)'
    BY <1>7 DEF DelNum, Holds, Knows, Safe
  <2> QED
    BY <1>7, <2>1, Quiet DEF DelNum
<1> QED
  BY <1>1, <1>2, <1>3, <1>4, <1>5, <1>6, <1>7

LEMMA StepGetQuiet ==
  ASSUME Inv, TypeOK', NEW t \in Threads,
         GetHead(t) \/ GetNext(t) \/ GetAgain(t) \/ GetTail(t) \/ GetNone(t) \/ GetValue(t)
  PROVE  Inv'
<1> USE ItemAssumption DEF Inv, TypeOK, Goto, Forget, poolVars, listVars, locals, OthersKeep,
        PrivatePCs, PutPCs, LinkedPCs, Outside, Rest, Empty, TailPCs, HeadPCs
<1>1. CASE GetHead(t)
  <2>1. Holds(t)' /\ Knows(t)'
    BY <1>1 DEF GetHead, Holds, Knows, Lined, Safe
  <2> QED
    BY <1>1, <2>1, Quiet DEF GetHead
<1>2. CASE GetNext(t)
  <2>1. hd[t] \in Items /\ Safe(t, hd[t])
    BY <1>2 DEF GetNext, Holds
  <2>2. next[hd[t]] # Null => Safe(t, next[hd[t]])
    BY <2>1 DEF Lined, Leads, Safe
  <2>3. Holds(t)' /\ Knows(t)'
    BY <1>2, <2>1, <2>2 DEF GetNext, Holds, Knows, Safe
  <2> QED
    BY <1>2, <2>3, Quiet DEF GetNext
<1>3. CASE GetAgain(t)
  <2>1. Holds(t)' /\ Knows(t)'
    BY <1>3 DEF GetAgain, Holds, Knows, Lined, Safe
  <2> QED
    BY <1>3, <2>1, Quiet DEF GetAgain
<1>4. CASE GetTail(t)
  <2>1. Holds(t)' /\ Knows(t)'
    BY <1>4 DEF GetTail, Holds, Knows, Safe
  <2> QED
    BY <1>4, <2>1, Quiet DEF GetTail
<1>5. CASE GetNone(t)
  <2>1. Holds(t)' /\ Knows(t)'
    BY <1>5 DEF GetNone, Holds, Knows
  <2> QED
    BY <1>5, <2>1, Quiet DEF GetNone
<1>6. CASE GetValue(t)
  <2>1. Holds(t)' /\ Knows(t)'
    BY <1>6 DEF GetValue, Holds, Knows, Safe
  <2> QED
    BY <1>6, <2>1, Quiet DEF GetValue
<1> QED
  BY <1>1, <1>2, <1>3, <1>4, <1>5, <1>6

(* The steps into and out of the epoch. *)
LEMMA StepGate ==
  ASSUME Inv, TypeOK', NEW t \in Threads,
         \/ PutEnter(t) \/ PutLeave(t) \/ Del(t) \/ DelLeave(t) \/ Get(t) \/ GetLeave(t)
  PROVE  Inv'
<1> USE DEF Inv, TypeOK, OthersKeep, PrivatePCs, PutPCs, LinkedPCs, Outside, Rest, Empty
<1>1. CASE PutEnter(t)
  <2>1. /\ pc' = [pc EXCEPT ![t] = "put_tail"] /\ pc[t] = "put_enter"
        /\ Pool!Enter(t) \/ Pool!Reenter(t)
        /\ UNCHANGED <<head, tail, next, node, hd, tl, nx>>
    BY <1>1 DEF PutEnter, EnterEpoch, Goto, listVars, locals
  <2>2. t \in inside' /\ UNCHANGED state
    BY <2>1 DEF Pool!Enter, Pool!Reenter
  <2>3. hd[t] = Null /\ tl[t] = Null /\ nx[t] = Null
    BY <2>1 DEF Holds
  <2> QED
    BY <2>1, <2>2, <2>3, Gate
<1>2. CASE Del(t) \/ Get(t)
  <2>1. /\ pc[t] \in Rest /\ \E to \in {"del_head", "get_head"} : pc' = [pc EXCEPT ![t] = to]
        /\ Pool!Enter(t) \/ Pool!Reenter(t)
        /\ UNCHANGED <<head, tail, next, node, hd, tl, nx>>
    BY <1>2 DEF Del, Get, EnterEpoch, Begin, listVars, locals
  <2>2. t \in inside' /\ UNCHANGED state
    BY <2>1 DEF Pool!Enter, Pool!Reenter
  <2>3. hd[t] = Null /\ tl[t] = Null /\ nx[t] = Null
    BY <2>1 DEF Holds
  <2> QED
    BY <2>1, <2>2, <2>3, Gate
<1>3. CASE PutLeave(t)
  <2>1. /\ pc' = [pc EXCEPT ![t] = "idle"] /\ Pool!Leave(t)
        /\ node' = [node EXCEPT ![t] = Null]
        /\ UNCHANGED <<state, head, tail, next, hd, tl, nx>>
    BY <1>3 DEF PutLeave, Goto, listVars, Pool!Leave
  <2>2. hd[t] = Null /\ tl[t] = Null /\ nx[t] = Null
    BY <1>3 DEF PutLeave, Goto, Holds
  <2> QED
    BY <2>1, <2>2, Gate
<1>4. CASE DelLeave(t) \/ GetLeave(t)
  <2>1. /\ pc' = [pc EXCEPT ![t] = "idle"] /\ Pool!Leave(t)
        /\ hd' = [hd EXCEPT ![t] = Null] /\ tl' = [tl EXCEPT ![t] = Null]
        /\ nx' = [nx EXCEPT ![t] = Null]
        /\ UNCHANGED <<state, head, tail, next, node>>
    BY <1>4 DEF DelLeave, GetLeave, Goto, Forget, listVars, Pool!Leave
  <2> QED
    BY <2>1, Gate
<1> QED
  BY <1>1, <1>2, <1>3, <1>4

LEMMA InvInit == Init => Inv
<1> SUFFICES ASSUME Init PROVE Inv
  OBVIOUS
<1>1. TypeOK
  BY TypeInit
<1>2. Lined /\ Leads
  BY DEF Init, Lined, Leads
<1>3. ASSUME NEW t \in Threads PROVE Holds(t) /\ Knows(t) /\ Private(t)
  BY DEF Init, Holds, Knows, Private, Outside, Rest, Empty, TailPCs, HeadPCs, PrivatePCs,
         PutPCs, LinkedPCs
<1> QED
  BY <1>1, <1>2, <1>3 DEF Inv

LEMMA InvStep == Inv /\ [Next]_vars => Inv'
<1> SUFFICES ASSUME Inv, [Next]_vars PROVE Inv'
  OBVIOUS
<1>1. TypeOK'
  BY TypeStep
<1>2. CASE UNCHANGED vars
  BY <1>1, <1>2 DEF Inv, Lined, Leads, Holds, Knows, Private, Safe,
                    vars, poolVars, listVars, locals
<1>3. ASSUME NEW t \in Threads, Work(t) PROVE Inv'
  BY <1>1, <1>3, StepPutQuiet, StepDelQuiet, StepGetQuiet, StepPutLink, StepMoveTail,
     StepDelCas, StepGate DEF Work
<1>4. ASSUME NEW t \in Threads, Call(t) PROVE Inv'
  BY <1>1, <1>4, StepPut, StepGate DEF Call
<1> QED
  BY <1>1, <1>2, <1>3, <1>4, StepReclaim DEF Next

LEMMA InvHolds == Spec => []Inv
BY InvInit, InvStep, PTL DEF Spec

(* Every variable keeps its type; no step of ab_list.c reads a field of    *)
(* NULL.                                                                   *)
THEOREM TypeCorrect == Spec => []TypeOK
<1>1. Inv => TypeOK
  BY DEF Inv
<1> QED
  BY <1>1, InvHolds, PTL

(* No thread follows a pointer to a node that the pool may have handed out *)
(* again, although nodes it holds are unlinked behind its back             *)
(* (ab_list.c:108-122, 143-165 and 186-195).                               *)
THEOREM NothingStale == Spec => []NoStalePointer
<1>1. Inv => NoStalePointer
  BY DEF Inv, Holds, Safe, NoStalePointer
<1> QED
  BY <1>1, InvHolds, PTL

-----------------------------------------------------------------------------
(* The line: the nodes of the queue from head to tail.  Chain is the line. *)

InLine(s, x) == \E i \in 1 .. Len(s) : s[i] = x
IsLine(s) ==
  /\ s \in Seq(Items) /\ s # <<>>
  /\ s[1] = head /\ s[Len(s)] = tail
  /\ \A i \in 1 .. Len(s) : state[s[i]] = "linked"
  /\ \A i \in 1 .. Len(s) - 1 : next[s[i]] = s[i + 1]
  /\ \A i, j \in 1 .. Len(s) : s[i] = s[j] => i = j

Prefix(s, k) == [i \in 1 .. k |-> s[i]]

(* One more node of a sequence.                                            *)
LEMMA PrefixGrows ==
  ASSUME NEW S, NEW s \in Seq(S), NEW k \in 1 .. Len(s) - 1
  PROVE  /\ Prefix(s, k) \in Seq(S) /\ Len(Prefix(s, k)) = k /\ Prefix(s, k)[k] = s[k]
         /\ Append(Prefix(s, k), s[k + 1]) = Prefix(s, k + 1)
<1>1. \A m \in 1 .. Len(s) : Prefix(s, m) \in Seq(S) /\ Len(Prefix(s, m)) = m
  BY LenProperties DEF Prefix
<1>2. k \in 1 .. Len(s) /\ k + 1 \in 1 .. Len(s)
  OBVIOUS
<1>3. s[k + 1] \in S
  BY <1>2, ElementOfSeq
<1> DEFINE a == Append(Prefix(s, k), s[k + 1])
<1>4. /\ a \in Seq(S) /\ Len(a) = k + 1
      /\ \A i \in 1 .. k : a[i] = Prefix(s, k)[i]
      /\ a[k + 1] = s[k + 1]
  BY <1>1, <1>2, <1>3, AppendProperties
<1>5. \A i \in 1 .. k + 1 : a[i] = Prefix(s, k + 1)[i]
  BY <1>2, <1>4 DEF Prefix
<1>6. a = Prefix(s, k + 1)
  BY <1>1, <1>2, <1>4, <1>5, SeqEqual
<1> QED
  BY <1>1, <1>2, <1>6 DEF Prefix

(* No node is in the line twice, so the pool has room for it.              *)
LEMMA LineFits ==
  ASSUME TypeOK, NEW s, IsLine(s)
  PROVE  /\ Len(s) \in Nat \ {0} /\ Cardinality(Items) \in Nat /\ Len(s) <= Cardinality(Items)
         /\ s \in [1 .. Len(s) -> Items]
<1>1. s \in Seq(Items) /\ s \in [1 .. Len(s) -> Items] /\ Len(s) \in Nat \ {0}
  BY LenProperties, EmptySeq DEF IsLine
<1>2. s \in Injection(1 .. Len(s), Items)
  BY <1>1 DEF IsLine, Injection, IsInjective
<1>3. Cardinality(1 .. Len(s)) = Len(s)
  BY <1>1, FS_Interval
<1>4. Cardinality(1 .. Len(s)) <= Cardinality(Items)
  BY <1>2, ItemAssumption, FS_Injection
<1>5. Cardinality(Items) \in Nat
  BY ItemAssumption, FS_CardinalityType
<1> QED
  BY <1>1, <1>3, <1>4, <1>5

(* The walk of Chain, n steps from head, is the first n nodes of the line, *)
(* and stays at the whole line from its end on.                            *)
LEMMA ChainIsLine ==
  ASSUME TypeOK, NEW s, IsLine(s)
  PROVE  Chain = s
<1> DEFINE N == Cardinality(Items)
           len == Len(s)
           Cut(n) == Prefix(s, IF n < len THEN n ELSE len)
           Longer(w) == LET last == w[Len(w)]
                        IN  IF last = tail \/ next[last] = Null THEN w
                            ELSE Append(w, next[last])
           Is(f) == f = [n \in 1 .. N |-> IF n = 1 THEN <<head>> ELSE Longer(f[n - 1])]
           walk == CHOOSE f : Is(f)
<1>0. Chain = walk[N]
  BY DEF Chain
<1>1. len \in Nat \ {0} /\ N \in Nat /\ len <= N /\ s \in [1 .. len -> Items]
  BY LineFits
<1>2. Cut(1) = <<head>>
  BY <1>1 DEF Prefix, IsLine
<1>3. ASSUME NEW n \in 1 .. N - 1 PROVE Longer(Cut(n)) = Cut(n + 1)
  <2>1. CASE n < len
    <3>1. n \in 1 .. len - 1
      BY <1>1, <2>1
    <3>2. /\ Len(Prefix(s, n)) = n /\ Prefix(s, n)[n] = s[n]
          /\ Append(Prefix(s, n), s[n + 1]) = Prefix(s, n + 1)
      BY <3>1, PrefixGrows DEF IsLine
    <3>3. s[n] # tail /\ next[s[n]] = s[n + 1] /\ s[n + 1] \in Items
      BY <1>1, <3>1 DEF IsLine
    <3>4. Cut(n) = Prefix(s, n) /\ Cut(n + 1) = Prefix(s, n + 1)
      BY <1>1, <2>1
    <3>5. Longer(Prefix(s, n)) = Append(Prefix(s, n), s[n + 1])
      <4> DEFINE p == Prefix(s, n)
      <4> HIDE DEF p
      <4> QED
        BY <3>2, <3>3, ItemAssumption DEF p
    <3> HIDE DEF Cut, Longer
    <3> QED
      BY <3>2, <3>4, <3>5
  <2>2. CASE ~(n < len)
    <3>1. Cut(n) = Prefix(s, len) /\ Cut(n + 1) = Prefix(s, len)
      BY <1>1, <2>2
    <3>2. Prefix(s, len) = s
      BY <1>1 DEF Prefix
    <3>3. Longer(s) = s
      BY DEF IsLine
    <3> HIDE DEF Cut, Longer
    <3> QED
      BY <3>1, <3>2, <3>3
  <2> QED
    BY <2>1, <2>2
<1> HIDE DEF Cut, Longer
<1>4. Is([n \in 1 .. N |-> Cut(n)])
  <2>1. \A n \in 1 .. N : n # 1 => n - 1 \in 1 .. N - 1 /\ n - 1 \in 1 .. N /\ n - 1 + 1 = n
    BY <1>1
  <2> QED
    BY <1>2, <1>3, <2>1
<1>5. \A n \in 1 .. N : walk[n] = IF n = 1 THEN <<head>> ELSE Longer(walk[n - 1])
  <2>1. Is(walk)
    BY <1>4
  <2> HIDE DEF walk
  <2> QED
    BY <2>1
<1> HIDE DEF walk
<1>6. \A n \in 1 .. N : walk[n] = Cut(n)
  <2> DEFINE T == {n \in 1 .. N : walk[n] = Cut(n)}
  <2>1. 1 \in T
    BY <1>1, <1>2, <1>5
  <2>2. ASSUME NEW k \in 1 .. N - 1, k \in T PROVE k + 1 \in T
    <3>1. k + 1 \in 1 .. N /\ k + 1 # 1 /\ k + 1 - 1 = k
      BY <1>1
    <3>2. walk[k + 1] = Longer(walk[k])
      BY <1>5, <3>1
    <3> QED
      BY <1>3, <2>2, <3>1, <3>2
  <2> HIDE DEF T
  <2>3. 1 .. N \subseteq T
    BY <1>1, <2>1, <2>2, SpanInduction
  <2> QED
    BY <2>3 DEF T
<1>7. Cut(N) = s
  BY <1>1 DEF Cut, Prefix
<1> QED
  BY <1>0, <1>1, <1>6, <1>7

-----------------------------------------------------------------------------
(* The invariant of the line.  Drawn: what threads and unlinked nodes      *)
(* point to is still in the line, or unlinked; Behind: a node behind tail  *)
(* is the node of a put that will move tail; Owns: the nodes of two puts   *)
(* are two nodes; Saw: what a call has read was the front at some moment   *)
(* of the call.                                                            *)

Drawn(s) ==
  /\ IsLine(s)
  /\ next[tail] # Null => next[next[tail]] = Null
  /\ \A t \in Threads : tl[t] # Null /\ state[tl[t]] = "linked" => InLine(s, tl[t])
  /\ \A x \in Items :
       state[x] = "retired" /\ guards[x] # {} /\ state[next[x]] = "linked" => InLine(s, next[x])

Behind ==
  next[tail] # Null =>
    \E u \in Threads : pc[u] \in {"put_num", "put_swing"} /\ node[u] = next[tail]

Owns(t) ==
  /\ pc[t] \in PutPCs =>
       /\ node[t] # Null /\ Safe(t, node[t])
       /\ \A u \in Threads \ {t} : pc[u] \in PutPCs => node[u] # node[t]
  /\ pc[t] = "put_leave" => next[tail] # node[t]

Saw(t) ==
  /\ pc[t] \notin Rest => Front(head, tail) \in seen[t]
  /\ pc[t] \in {"del_next", "del_again"} /\ tl[t] = hd[t] => Null \in seen[t]
  /\ pc[t] \in {"del_tail", "del_again", "get_again", "get_tail"} /\ nx[t] = Null =>
       Null \in seen[t]
  /\ pc[t] = "del_cas" => val[t] = value[nx[t]]
  /\ pc[t] = "get_next" /\ hd[t] # head => next[hd[t]] # Null /\ value[next[hd[t]]] \in seen[t]
  /\ pc[t] \in {"get_again", "get_tail"} /\ nx[t] # Null =>
       \/ value[nx[t]] \in seen[t]
       \/ hd[t] = head /\ head = tail /\ nx[t] = next[head]
  /\ pc[t] = "get_value" => value[nx[t]] \in seen[t]

LineInv ==
  /\ \E s : Drawn(s)
  /\ Behind
  /\ \A t \in Threads : Owns(t) /\ Saw(t)

OthersSee(t) ==
  \A u \in Threads \ {t} : val'[u] = val[u] /\ seen'[u] = seen[u]

(* A step of t that changes no field of the list or of a node.             *)
LEMMA LineQuiet ==
  ASSUME Inv, LineInv, NEW t \in Threads, OthersKeep(t), OthersSee(t),
         UNCHANGED <<state, head, tail, next, value>>,
         \A x \in Items : guards'[x] \subseteq guards[x] /\ guards[x] \ {t} \subseteq guards'[x],
         tl'[t] \in {tl[t], tail, Null},
         pc'[t] \in PutPCs => pc[t] \in PutPCs /\ node'[t] = node[t] /\ Safe(t, node[t])',
         pc'[t] = "put_leave" => next[tail] # node[t],
         pc[t] \in {"put_num", "put_swing"} /\ next[tail] = node[t] =>
           pc'[t] \in {"put_num", "put_swing"} /\ node'[t] = node[t],
         Saw(t)'
  PROVE  LineInv'
<1>1. PICK s : Drawn(s)
  BY DEF LineInv
<1>2. Drawn(s)'
  <2>1. IsLine(s)'
    BY <1>1 DEF Drawn, IsLine
  <2>2. InLine(s, tail)
    BY <1>1, LineFits DEF Inv, Drawn, IsLine, InLine
  <2>3. \A x : InLine(s, x)' <=> InLine(s, x)
    BY DEF InLine
  <2>4. ASSUME NEW u \in Threads, tl'[u] # Null, state'[tl'[u]] = "linked"
        PROVE  InLine(s, tl'[u])
    BY <1>1, <2>2, <2>4 DEF Drawn, OthersKeep
  <2> QED
    BY <1>1, <2>1, <2>3, <2>4 DEF Drawn
<1>3. Behind'
  <2> SUFFICES ASSUME next[tail] # Null PROVE Behind'
    BY DEF Behind
  <2>1. PICK u \in Threads : pc[u] \in {"put_num", "put_swing"} /\ node[u] = next[tail]
    BY DEF LineInv, Behind
  <2>2. pc'[u] \in {"put_num", "put_swing"} /\ node'[u] = next[tail]
    BY <2>1 DEF OthersKeep
  <2> QED
    BY <2>2 DEF Behind
<1>4. ASSUME NEW u \in Threads PROVE Owns(u)'
  <2>1. CASE u = t
    BY <2>1 DEF LineInv, Owns, OthersKeep, PutPCs
  <2>2. CASE u # t
    <3>1. \A v \in Threads \ {u} : pc'[v] \in PutPCs /\ pc[u] \in PutPCs => node'[v] # node[u]
      BY <2>2 DEF LineInv, Owns, OthersKeep
    <3>2. pc[u] \in PutPCs => node[u] \in Items
      BY DEF LineInv, Owns, Inv, TypeOK
    <3> QED
      BY <2>2, <3>1, <3>2 DEF LineInv, Owns, OthersKeep, Safe
  <2> QED
    BY <2>1, <2>2
<1>5. ASSUME NEW u \in Threads, u # t PROVE Saw(u)'
  BY <1>5 DEF LineInv, Saw, OthersKeep, OthersSee, Front
<1> QED
  BY <1>2, <1>3, <1>4, <1>5 DEF LineInv

(* The pool takes back a node that nobody may hold: none of the line.      *)
LEMMA LineReclaim ==
  ASSUME Inv, LineInv, NEW x \in Items, Reclaim(x)
  PROVE  LineInv'
<1> USE DEF Reclaim, Pool!Reclaim, listVars, locals
<1>1. PICK s : Drawn(s)
  BY DEF LineInv
<1>2. \A y : state'[y] = "linked" => state[y] = "linked"
  BY DEF Inv, TypeOK
<1>3. Drawn(s)'
  <2>1. IsLine(s)'
    BY <1>1, LineFits DEF Drawn, IsLine, Inv, TypeOK
  <2>2. \A y : InLine(s, y)' <=> InLine(s, y)
    BY DEF InLine
  <2> QED
    BY <1>1, <1>2, <2>1, <2>2 DEF Drawn, Inv, TypeOK
<1>4. Behind'
  BY DEF LineInv, Behind
<1>5. ASSUME NEW u \in Threads PROVE Owns(u)' /\ Saw(u)'
  <2>1. Owns(u)'
    BY DEF LineInv, Owns, Safe, Inv, TypeOK
  <2>2. Saw(u)'
    BY DEF LineInv, Saw, Front
  <2> QED
    BY <2>1, <2>2
<1> QED
  BY <1>3, <1>4, <1>5 DEF LineInv

(* A put takes a node from the pool; nobody knows it.                      *)
LEMMA LinePut ==
  ASSUME Inv, LineInv, TypeOK', NEW t \in Threads, Put(t)
  PROVE  LineInv'
<1>1. PICK n \in Items :
        /\ state[n] = "free" /\ state' = [state EXCEPT ![n] = "linked"]
        /\ next' = [next EXCEPT ![n] = Null] /\ node' = [node EXCEPT ![t] = n]
        /\ value' = [value EXCEPT ![n] = puts']
        /\ pc[t] \in Rest /\ pc' = [pc EXCEPT ![t] = "put_enter"]
        /\ seen' = [seen EXCEPT ![t] = {Front(head, tail)}]
        /\ UNCHANGED <<inside, guards, head, tail, hd, tl, nx, val>>
  BY DEF Put, Begin, Pool!Publish, SeeFirst
<1>2. PICK s : Drawn(s)
  BY DEF LineInv
<1>3. /\ \A x \in Items \ {n} : next'[x] = next[x] /\ value'[x] = value[x] /\ state'[x] = state[x]
      /\ head # n /\ tail # n /\ next[head] # n /\ next[tail] # n
  BY <1>1, ItemAssumption DEF Inv, TypeOK, Lined
<1>4. \A u \in Threads : hd[u] # n /\ tl[u] # n /\ nx[u] # n
  BY <1>1, ItemAssumption DEF Inv, Holds, Safe
<1>5. \A x \in Items : state[x] = "retired" /\ guards[x] # {} => next[x] \in Items \ {n}
  BY <1>1, ItemAssumption DEF Inv, TypeOK, Leads, Safe
<1>6. Drawn(s)'
  <2>0. IsLine(s) /\ \A i \in 1 .. Len(s) : s[i] \in Items \ {n}
    BY <1>1, <1>2, LineFits DEF Drawn, IsLine, Inv
  <2>1. IsLine(s)'
    <3>1. \A i \in 1 .. Len(s) - 1 : i \in 1 .. Len(s)
      BY <2>0, LineFits DEF Inv
    <3> QED
      BY <1>1, <1>3, <2>0, <3>1 DEF IsLine
  <2>2. \A y : InLine(s, y)' <=> InLine(s, y)
    BY DEF InLine
  <2>3. \A u \in Threads : tl[u] # Null /\ state'[tl[u]] = "linked" => InLine(s, tl[u])
    BY <1>1, <1>2, <1>3, <1>4 DEF Drawn, Inv, TypeOK
  <2>4. \A x \in Items : state'[x] = "retired" /\ guards[x] # {} /\ state'[next'[x]] = "linked"
          => InLine(s, next'[x])
    BY <1>1, <1>2, <1>3, <1>5 DEF Drawn, Inv, TypeOK
  <2>5. next'[tail] # Null => next'[next'[tail]] = Null
    BY <1>2, <1>3 DEF Drawn, Inv, TypeOK
  <2> QED
    BY <1>1, <2>1, <2>2, <2>3, <2>4, <2>5 DEF Drawn
<1>7. Behind'
  BY <1>1, <1>3 DEF LineInv, Behind, Inv, TypeOK, Rest
<1>8. ASSUME NEW u \in Threads PROVE Owns(u)'
  <2>1. pc[u] \in PutPCs => node[u] \in Items \ {n}
    BY <1>1 DEF LineInv, Owns, Safe, Inv, TypeOK
  <2>2. CASE u = t
    <3>1. \A v \in Threads \ {t} : pc[v] \in PutPCs => node[v] # n
      BY <1>1 DEF LineInv, Owns, Safe
    <3> QED
      BY <1>1, <2>2, <3>1, ItemAssumption DEF Owns, Safe, Inv, TypeOK
  <2>3. CASE u # t
    BY <1>1, <1>3, <2>1, <2>3 DEF LineInv, Owns, Safe, Inv, TypeOK
  <2> QED
    BY <2>2, <2>3
<1>9. ASSUME NEW u \in Threads PROVE Saw(u)'
  <2>1. Front(head, tail)' = Front(head, tail)
    BY <1>1, <1>3, ItemAssumption DEF Front, Inv, TypeOK
  <2>2. CASE u = t
    BY <1>1, <2>1, <2>2 DEF Saw, Inv, TypeOK, Rest
  <2>3. CASE u # t
    <3>1. pc'[u] = pc[u] /\ seen'[u] = seen[u]
      BY <1>1, <2>3 DEF Inv, TypeOK
    <3>2. nx[u] # Null => value'[nx[u]] = value[nx[u]]
      BY <1>3, <1>4 DEF Inv, TypeOK
    <3>3. ASSUME pc[u] = "get_next", hd[u] # head
          PROVE  next'[hd[u]] = next[hd[u]] /\ value'[next[hd[u]]] = value[next[hd[u]]]
      <4>1. hd[u] \in Items \ {n} /\ state[hd[u]] = "retired" /\ u \in guards[hd[u]]
        BY <1>1, <3>3 DEF Inv, TypeOK, Holds, Knows, HeadPCs, Safe
      <4> QED
        BY <1>3, <1>5, <4>1
    <3>4. pc[u] = "del_cas" \/ pc[u] = "get_value" => nx[u] # Null
      BY DEF Inv, Knows
    <3>5. Saw(u)
      BY DEF LineInv
    <3>6. next'[head] = next[head]
      BY <1>3 DEF Inv, TypeOK
    <3> QED
      BY <1>1, <2>1, <3>1, <3>2, <3>3, <3>4, <3>5, <3>6 DEF Saw
  <2> QED
    BY <2>2, <2>3
<1> QED
  BY <1>6, <1>7, <1>8, <1>9 DEF LineInv

-----------------------------------------------------------------------------
(* The steps that change the line.                                         *)

(* On the line only tail may have no next node. *)
(* In the line next leads to the line, up to tail.                         *)
LEMMA LineEnds ==
  ASSUME Inv, NEW s, IsLine(s), NEW x, InLine(s, x)
  PROVE  /\ x \in Items /\ state[x] = "linked"
         /\ x # tail => InLine(s, next[x]) /\ next[x] # Null
<1>1. PICK i \in 1 .. Len(s) : s[i] = x
  BY DEF InLine
<1>2. x \in Items /\ state[x] = "linked"
  BY <1>1, LineFits DEF Inv, IsLine
<1>3. ASSUME x # tail PROVE InLine(s, next[x]) /\ next[x] # Null
  <2>1. i \in 1 .. Len(s) - 1 /\ i + 1 \in 1 .. Len(s)
    BY <1>1, <1>3, LineFits DEF Inv, IsLine
  <2> QED
    BY <1>1, <2>1, LineFits, ItemAssumption DEF Inv, IsLine, InLine
<1> QED
  BY <1>2, <1>3

(* The node behind tail is not on the line. *)
(* The node behind tail is new: next of a line has no cycle.               *)
LEMMA NotYetInLine ==
  ASSUME Inv, NEW s, IsLine(s), next[tail] # Null
  PROVE  ~ InLine(s, next[tail])
<1> SUFFICES ASSUME NEW i \in 1 .. Len(s), s[i] = next[tail] PROVE FALSE
  BY DEF InLine
<1>1. next[tail] # head /\ tail \in Items /\ state[tail] = "linked"
  BY DEF Inv, Lined, TypeOK
<1>2. i - 1 \in 1 .. Len(s) - 1 /\ i - 1 \in 1 .. Len(s) /\ Len(s) \in 1 .. Len(s) /\ i - 1 + 1 = i
  BY <1>1, LineFits DEF Inv, IsLine
<1>3. next[s[i - 1]] = next[tail] /\ state[s[i - 1]] = "linked" /\ s[i - 1] \in Items
  BY <1>2, LineFits DEF Inv, IsLine
<1>4. s[i - 1] = tail
  BY <1>1, <1>3 DEF Inv, Lined
<1> QED
  BY <1>2, <1>4 DEF IsLine

(* A put links its node behind tail only. *)
(* The CAS of a put succeeds at tail only, as tail is the only node of the *)
(* line without a next, and an unlinked node has one.                      *)
LEMMA PutsAtTail ==
  ASSUME Inv, LineInv, NEW t \in Threads, PutLink(t)
  PROVE  tl[t] = tail
<1>1. PICK s : Drawn(s)
  BY DEF LineInv
<1>2. pc[t] = "put_link" /\ next[tl[t]] = Null
  BY DEF PutLink, Goto
<1>3. tl[t] \in Items /\ Safe(t, tl[t])
  BY <1>2 DEF Inv, TypeOK, Holds, TailPCs
<1>4. state[tl[t]] = "linked"
  BY <1>2, <1>3 DEF Inv, Leads, Safe
<1>5. InLine(s, tl[t])
  BY <1>1, <1>3, <1>4, ItemAssumption DEF Drawn
<1> QED
  BY <1>1, <1>2, <1>5, LineEnds DEF Drawn

(* The node is linked behind tail (ab_list.c:123).                         *)
LEMMA LinePutLink ==
  ASSUME Inv, LineInv, TypeOK', NEW t \in Threads, PutLink(t)
  PROVE  LineInv'
<1> DEFINE n == node[t]
<1>0. /\ next[tl[t]] = Null /\ next' = [next EXCEPT ![tl[t]] = n]
      /\ pc[t] = "put_link" /\ pc' = [pc EXCEPT ![t] = "put_num"]
      /\ UNCHANGED <<inside, state, guards, head, tail, value, hd, tl, nx, val, node, seen>>
  BY DEF PutLink, Goto, poolVars, locals
<1>1. PICK s : Drawn(s)
  BY DEF LineInv
<1>2. tl[t] = tail
  BY PutsAtTail
<1>3. /\ n \in Items /\ state[n] = "linked" /\ next[n] = Null /\ n # tail
  BY <1>0 DEF Inv, TypeOK, Private, PrivatePCs, PutPCs, LinkedPCs
<1>4. /\ next[tail] = Null /\ next'[tail] = n /\ next'[n] = Null
      /\ \A x \in Items \ {tail} : next'[x] = next[x]
  BY <1>0, <1>2, <1>3 DEF Inv, TypeOK
<1>5. Drawn(s)'
  <2>0. IsLine(s) /\ \A i \in 1 .. Len(s) - 1 : i \in 1 .. Len(s) /\ s[i] \in Items \ {tail}
    BY <1>1, LineFits DEF Drawn, IsLine, Inv
  <2>1. IsLine(s)'
    BY <1>0, <1>4, <2>0 DEF IsLine
  <2>2. \A y : InLine(s, y)' <=> InLine(s, y)
    BY DEF InLine
  <2>3. \A x \in Items : state[x] = "retired" => x # tail
    BY DEF Inv, Lined
  <2> QED
    BY <1>0, <1>1, <1>3, <1>4, <2>1, <2>2, <2>3, ItemAssumption DEF Drawn
<1>6. Behind'
  BY <1>0, <1>4 DEF Behind, Inv, TypeOK
<1>7. ASSUME NEW u \in Threads PROVE Owns(u)'
  <2>1. \A v \in Threads : pc'[v] \in PutPCs <=> pc[v] \in PutPCs
    BY <1>0 DEF PutPCs, Inv, TypeOK
  <2>2. pc'[u] = "put_leave" => u # t /\ pc[u] \in PutPCs /\ node[u] # n
    BY <1>0 DEF PutPCs, Inv, TypeOK, LineInv, Owns
  <2> QED
    BY <1>0, <1>4, <2>1, <2>2 DEF LineInv, Owns, Safe
<1>8. ASSUME NEW u \in Threads PROVE Saw(u)'
  <2>1. Front(head, tail)' = Front(head, tail)
    BY <1>0, <1>4 DEF Front, Inv, TypeOK
  <2>2. CASE u = t
    BY <1>0, <2>1, <2>2 DEF Saw, Inv, TypeOK, LineInv, Rest
  <2>3. CASE u # t
    <3>1. pc[u] = "get_next" /\ hd[u] # head => next'[hd[u]] = next[hd[u]]
      <4> SUFFICES ASSUME pc[u] = "get_next", hd[u] # head PROVE hd[u] \in Items \ {tail}
        BY <1>4
      <4> QED
        BY DEF Inv, TypeOK, Lined, Holds, Knows, HeadPCs
    <3>2. pc'[u] = pc[u]
      BY <1>0, <2>3 DEF Inv, TypeOK
    <3>3. Saw(u)
      BY DEF LineInv
    <3> QED
      BY <1>0, <1>4, <2>1, <3>1, <3>2, <3>3 DEF Saw
  <2> QED
    BY <2>2, <2>3
<1> QED
  BY <1>5, <1>6, <1>7, <1>8 DEF LineInv

(* tail moves over the node behind it: the line grows by one.              *)
LEMMA LineMoveTail ==
  ASSUME Inv, LineInv, TypeOK', NEW t \in Threads, PutHelp(t) \/ PutSwing(t), tl[t] = tail
  PROVE  /\ LineInv'
         /\ \E m \in Items :
              /\ next[tail] = m /\ tail' = m
              /\ seen' = [u \in Threads |-> IF pc[u] \in Rest THEN {}
                                            ELSE seen[u] \cup {Front(head, m)}]
              /\ \A s : IsLine(s) => IsLine(Append(s, m))'
<1>p. PICK m : m = next[tail]
  OBVIOUS
<1>0. /\ pc[t] \in {"put_help", "put_swing"}
      /\ \E to \in {"put_tail", "put_leave"} : pc' = [pc EXCEPT ![t] = to]
      /\ hd' = [hd EXCEPT ![t] = Null] /\ tl' = [tl EXCEPT ![t] = Null]
      /\ nx' = [nx EXCEPT ![t] = Null]
      /\ UNCHANGED <<inside, state, guards, head, next, value, node>>
  BY DEF PutHelp, PutSwing, Goto, Forget, MoveTail, poolVars
<1>1. /\ m # Null /\ tail' = m
      /\ seen' = [u \in Threads |-> IF pc[u] \in Rest THEN {} ELSE seen[u] \cup {Front(head, m)}]
  BY <1>p, ItemAssumption DEF PutHelp, PutSwing, MoveTail, SeeNew, Goto, Inv, Knows
<1>2. m \in Items /\ state[m] = "linked" /\ m # head
  BY <1>p, <1>1 DEF Inv, TypeOK, Lined
<1>3. ASSUME NEW s, IsLine(s) PROVE IsLine(Append(s, m))'
  <2> DEFINE a == Append(s, m)
  <2>1. /\ s \in Seq(Items) /\ Len(s) \in Nat \ {0} /\ a \in Seq(Items) /\ a # <<>>
        /\ Len(a) = Len(s) + 1 /\ a[Len(s) + 1] = m
        /\ \A i \in 1 .. Len(s) : a[i] = s[i]
    BY <1>2, <1>3, LineFits, AppendProperties DEF Inv, IsLine
  <2>2. \A i \in 1 .. Len(s) : s[i] # m
    BY <1>p, <1>1, <1>3, NotYetInLine DEF InLine
  <2> HIDE DEF a
  <2>3. 1 \in 1 .. Len(s) /\ Len(s) \in 1 .. Len(s) /\ Len(s) + 1 \in 1 .. Len(a)
        /\ \A i \in 1 .. Len(a) : i \in 1 .. Len(s) \/ i = Len(s) + 1
    BY <2>1
  <2>4. a[1] = head /\ a[Len(a)] = m
    BY <1>3, <2>1, <2>3 DEF IsLine
  <2>5. \A i \in 1 .. Len(a) : state[a[i]] = "linked"
    BY <1>2, <1>3, <2>1, <2>3 DEF IsLine
  <2>6. ASSUME NEW i \in 1 .. Len(a) - 1 PROVE next[a[i]] = a[i + 1]
    <3>1. CASE i = Len(s)
      BY <1>p, <1>3, <2>1, <2>3, <3>1 DEF IsLine
    <3>2. CASE i # Len(s)
      <4>1. i \in 1 .. Len(s) - 1 /\ i \in 1 .. Len(s) /\ i + 1 \in 1 .. Len(s)
        BY <2>1, <3>2
      <4> QED
        BY <1>3, <2>1, <4>1 DEF IsLine
    <3> QED
      BY <3>1, <3>2
  <2>7. \A i, j \in 1 .. Len(a) : a[i] = a[j] => i = j
    BY <1>3, <2>1, <2>2, <2>3 DEF IsLine
  <2> QED
    BY <1>0, <1>1, <2>1, <2>4, <2>5, <2>6, <2>7 DEF IsLine, a
<1>4. PICK s : Drawn(s)
  BY DEF LineInv
<1>5. next'[tail'] = Null
  BY <1>p, <1>0, <1>1, <1>4 DEF Drawn
<1>6. Drawn(Append(s, m))'
  <2>1. \A y : InLine(s, y) => InLine(Append(s, m), y)'
    <3> SUFFICES ASSUME NEW i \in 1 .. Len(s) PROVE InLine(Append(s, m), s[i])'
      BY DEF InLine
    <3>1. i \in 1 .. Len(Append(s, m)) /\ Append(s, m)[i] = s[i]
      BY <1>2, <1>4, LineFits, AppendProperties DEF Inv, Drawn, IsLine
    <3> QED
      BY <3>1 DEF InLine
  <2>2. \A u \in Threads : tl'[u] \in {tl[u], Null}
    BY <1>0 DEF Inv, TypeOK
  <2>3. IsLine(Append(s, m))'
    BY <1>3, <1>4 DEF Drawn
  <2> QED
    BY <1>0, <1>4, <1>5, <2>1, <2>2, <2>3 DEF Drawn
<1>7. Behind'
  BY <1>5 DEF Behind
<1>8. ASSUME NEW u \in Threads PROVE Owns(u)'
  <2>1. \A v \in Threads : pc'[v] \in PutPCs <=> pc[v] \in PutPCs
    BY <1>0 DEF PutPCs, Inv, TypeOK
  <2>2. Owns(u) /\ ("put_leave" \in PutPCs)
    BY DEF LineInv, PutPCs
  <2> QED
    BY <1>0, <1>5, <2>1, <2>2 DEF LineInv, Owns, Safe
<1>9. ASSUME NEW u \in Threads PROVE Saw(u)'
  <2>1. Front(head, tail)' = Front(head, m)
    BY <1>0, <1>1 DEF Front
  <2>2. pc'[u] \in Rest <=> pc[u] \in Rest
    BY <1>0 DEF Rest, Inv, TypeOK
  <2>3. pc[u] \notin Rest => seen[u] \subseteq seen'[u] /\ Front(head, m) \in seen'[u]
    BY <1>1
  <2>4. CASE u = t
    BY <1>0, <2>1, <2>2, <2>3, <2>4 DEF Saw, Inv, TypeOK
  <2>5. CASE u # t
    <3>1. pc'[u] = pc[u] /\ hd'[u] = hd[u] /\ tl'[u] = tl[u] /\ nx'[u] = nx[u] /\ val'[u] = val[u]
      BY <1>0, <2>5 DEF Inv, TypeOK, PutHelp, PutSwing, Forget
    <3>2. Saw(u)
      BY DEF LineInv
    <3>3. head = tail => Front(head, m) = value[next[head]]
      BY <1>p, <1>1, <1>2 DEF Front
    <3> QED
      BY <1>0, <2>1, <2>3, <3>1, <3>2, <3>3 DEF Saw, Rest
  <2> QED
    BY <2>4, <2>5
<1> QED
  BY <1>p, <1>1, <1>2, <1>3, <1>6, <1>7, <1>8, <1>9 DEF LineInv

(* head moves: the first node leaves the line.                             *)
LEMMA LineDelCas ==
  ASSUME Inv, LineInv, TypeOK', NEW t \in Threads, DelCas(t)
  PROVE  /\ LineInv'
         /\ \A s : IsLine(s) => Len(s) > 1 /\ IsLine(Tail(s))'
<1> DEFINE h == head
<1>0. /\ hd[t] = h /\ nx[t] = next[h] /\ next[h] # Null /\ h # tail
      /\ head' = next[h]
      /\ state[h] = "linked" /\ state' = [state EXCEPT ![h] = "retired"]
      /\ guards' = [guards EXCEPT ![h] = inside]
      /\ pc[t] = "del_cas" /\ pc' = [pc EXCEPT ![t] = "del_num"]
      /\ seen' = [u \in Threads |-> IF pc[u] \in Rest THEN {}
                                    ELSE seen[u] \cup {Front(next[h], tail)}]
      /\ UNCHANGED <<inside, tail, next, value, hd, tl, nx, val, node>>
  BY DEF DelCas, Goto, Pool!Retire, Inv, Knows, locals, SeeNew
<1>1. /\ next[h] \in Items /\ state[next[h]] = "linked" /\ next[h] # h
      /\ \A x \in Items \ {h} : state'[x] = state[x] /\ guards'[x] = guards[x]
      /\ state'[h] = "retired" /\ guards'[h] = inside
  BY <1>0, ItemAssumption DEF Inv, TypeOK, Lined
<1>2. ASSUME NEW s, IsLine(s) PROVE Len(s) > 1 /\ IsLine(Tail(s))' /\ s[2] = next[h]
  <2> DEFINE a == Tail(s)
  <2>1. s \in Seq(Items) /\ Len(s) \in Nat \ {0} /\ s # <<>> /\ s[1] = h /\ s[Len(s)] = tail
    BY <1>2, LineFits DEF Inv, IsLine
  <2>2. Len(s) > 1
    BY <1>0, <2>1
  <2>3. /\ a \in Seq(Items) /\ Len(a) = Len(s) - 1
        /\ \A i \in 1 .. Len(a) : a[i] = s[i + 1] /\ i + 1 \in 1 .. Len(s) /\ i + 1 # 1
    BY <2>1, HeadTailProperties
  <2>4. s[2] = next[h]
    BY <1>2, <2>1, <2>2 DEF IsLine
  <2> HIDE DEF a
  <2>5. a # <<>> /\ a[1] = next[h] /\ a[Len(a)] = tail
    BY <2>1, <2>2, <2>3, <2>4
  <2>6. \A i \in 1 .. Len(a) : state'[a[i]] = "linked"
    <3> SUFFICES ASSUME NEW i \in 1 .. Len(a) PROVE state'[a[i]] = "linked"
      OBVIOUS
    <3>1. a[i] = s[i + 1] /\ i + 1 \in 1 .. Len(s) /\ 1 \in 1 .. Len(s) /\ i + 1 # 1
      BY <2>1, <2>3
    <3>2. a[i] \in Items \ {h} /\ state[a[i]] = "linked"
      BY <1>2, <2>1, <2>3, <3>1, ElementOfSeq DEF IsLine
    <3> QED
      BY <1>1, <3>2
  <2>7. ASSUME NEW i \in 1 .. Len(a) - 1 PROVE next[a[i]] = a[i + 1]
    <3>1. i \in 1 .. Len(a) /\ i + 1 \in 1 .. Len(a) /\ i + 1 \in 1 .. Len(s) - 1
      BY <2>1, <2>3
    <3> QED
      BY <1>2, <2>3, <3>1 DEF IsLine
  <2>8. \A i, j \in 1 .. Len(a) : a[i] = a[j] => i = j
    <3> SUFFICES ASSUME NEW i \in 1 .. Len(a), NEW j \in 1 .. Len(a), a[i] = a[j] PROVE i = j
      OBVIOUS
    <3>1. i + 1 = j + 1
      BY <1>2, <2>3 DEF IsLine
    <3> QED
      BY <2>1, <2>3, <3>1
  <2>9. IsLine(a)'
    BY <1>0, <2>3, <2>5, <2>6, <2>7, <2>8 DEF IsLine
  <2> QED
    BY <2>2, <2>4, <2>9 DEF a
<1>3. PICK s : Drawn(s)
  BY DEF LineInv
<1>4. Drawn(Tail(s))'
  <2>1. s \in Seq(Items) /\ Len(s) \in Nat /\ Len(s) > 1 /\ s[1] = h /\ s[2] = next[h]
    BY <1>2, <1>3, LineFits DEF Inv, Drawn, IsLine
  <2>2. ASSUME NEW y, InLine(s, y), y # h PROVE InLine(Tail(s), y)'
    <3>1. PICK i \in 1 .. Len(s) : s[i] = y
      BY <2>2 DEF InLine
    <3>2. i - 1 \in 1 .. Len(Tail(s)) /\ Tail(s)[i - 1] = y
      BY <2>1, <2>2, <3>1, HeadTailProperties
    <3> QED
      BY <3>2 DEF InLine
  <2>3. InLine(s, next[h])
    BY <2>1 DEF InLine
  <2>4. \A y : state'[y] = "linked" => state[y] = "linked" /\ y # h
    BY <1>0 DEF Inv, TypeOK
  <2>5. \A u \in Threads : tl[u] # Null /\ state'[tl[u]] = "linked" => InLine(Tail(s), tl[u])'
    BY <1>0, <1>3, <2>2, <2>4 DEF Drawn
  <2>6. \A x \in Items : state'[x] = "retired" /\ guards'[x] # {} /\ state'[next[x]] = "linked"
          => InLine(Tail(s), next[x])'
    <3> SUFFICES ASSUME NEW x \in Items, state'[x] = "retired", guards'[x] # {},
                        state'[next[x]] = "linked"
                 PROVE  InLine(Tail(s), next[x])'
      BY <1>0
    <3>1. InLine(s, next[x]) /\ next[x] # h
      BY <1>1, <1>3, <2>3, <2>4 DEF Drawn
    <3> QED
      BY <1>0, <2>2, <3>1
  <2>7. IsLine(Tail(s))'
    BY <1>2, <1>3 DEF Drawn
  <2> QED
    BY <1>0, <1>3, <2>5, <2>6, <2>7 DEF Drawn
<1>5. Behind'
  <2> SUFFICES ASSUME next[tail] # Null PROVE Behind'
    BY <1>0 DEF Behind
  <2>1. PICK u \in Threads : pc[u] \in {"put_num", "put_swing"} /\ node[u] = next[tail]
    BY DEF LineInv, Behind
  <2>2. pc'[u] \in {"put_num", "put_swing"}
    BY <1>0, <2>1 DEF Inv, TypeOK
  <2> QED
    BY <1>0, <2>1, <2>2 DEF Behind
<1>6. ASSUME NEW u \in Threads PROVE Owns(u)'
  <2>1. \A v \in Threads : /\ pc'[v] \in PutPCs <=> pc[v] \in PutPCs
                           /\ pc'[v] = "put_leave" <=> pc[v] = "put_leave"
    BY <1>0 DEF PutPCs, Inv, TypeOK
  <2>2. pc[u] \in PutPCs /\ node[u] = h => u \in inside
    BY DEF Inv, Private, PrivatePCs, LinkedPCs, Holds, Outside, Rest
  <2>3. pc[u] \in PutPCs => node[u] \in Items
    BY DEF LineInv, Owns, Inv, TypeOK
  <2>4. pc[u] \in PutPCs => Safe(u, node[u])'
    <3> SUFFICES ASSUME pc[u] \in PutPCs PROVE Safe(u, node[u])'
      OBVIOUS
    <3>1. CASE node[u] = h
      BY <1>0, <1>1, <2>2, <3>1 DEF Safe
    <3>2. CASE node[u] # h
      BY <1>0, <1>1, <2>3, <3>2 DEF LineInv, Owns, Safe
    <3> QED
      BY <3>1, <3>2
  <2> QED
    BY <1>0, <2>1, <2>4 DEF LineInv, Owns
<1>7. ASSUME NEW u \in Threads PROVE Saw(u)'
  <2>1. Front(head, tail)' = Front(next[h], tail)
    BY <1>0 DEF Front
  <2>2. pc'[u] \in Rest <=> pc[u] \in Rest
    BY <1>0 DEF Rest, Inv, TypeOK
  <2>3. pc[u] \notin Rest => seen[u] \subseteq seen'[u] /\ Front(next[h], tail) \in seen'[u]
    BY <1>0
  <2>4. CASE u = t
    BY <1>0, <2>1, <2>2, <2>3, <2>4 DEF Saw, Inv, TypeOK
  <2>5. CASE u # t
    <3>1. pc'[u] = pc[u]
      BY <1>0, <2>5 DEF Inv, TypeOK
    <3>2. Saw(u)
      BY DEF LineInv
    <3>3. Front(h, tail) = value[next[h]]
      BY <1>0 DEF Front
    <3> QED
      BY <1>0, <2>1, <2>3, <3>1, <3>2, <3>3 DEF Saw, Rest
  <2> QED
    BY <2>4, <2>5
<1> QED
  BY <1>2, <1>4, <1>5, <1>6, <1>7 DEF LineInv

-----------------------------------------------------------------------------
(* The steps that leave the line alone, and the initial state.             *)

(* A CAS of tail that fails: another thread has moved tail over the node. *)
LEMMA MovedOver ==
  ASSUME Inv, LineInv, NEW t \in Threads, pc[t] = "put_swing", tl[t] # tail
  PROVE  next[tail] # node[t]
<1> SUFFICES ASSUME next[tail] = node[t] PROVE FALSE
  OBVIOUS
<1>1. PICK s : Drawn(s)
  BY DEF LineInv
<1>2. /\ next[tl[t]] = next[tail] /\ next[tail] \in Items /\ state[next[tail]] = "linked"
      /\ tl[t] \in Items /\ Safe(t, tl[t]) /\ tail \in Items /\ state[tail] = "linked"
  BY ItemAssumption DEF Inv, TypeOK, Knows, Holds, TailPCs, Lined
<1>3. state[tl[t]] = "retired" /\ t \in guards[tl[t]]
  BY <1>2, ItemAssumption DEF Inv, Lined, Safe
<1>4. InLine(s, next[tail])
  BY <1>1, <1>2, <1>3 DEF Drawn
<1> QED
  BY <1>1, <1>2, <1>4, NotYetInLine, ItemAssumption DEF Drawn

(* An old head has a next node, and a list whose head has none is empty.   *)
LEMMA Emptiness ==
  ASSUME Inv, LineInv, NEW t \in Threads, pc[t] \in HeadPCs, hd[t] = tail \/ next[hd[t]] = Null
  PROVE  hd[t] = head /\ Null \in seen[t]
<1>1. hd[t] \in Items /\ Safe(t, hd[t]) /\ (hd[t] = head \/ state[hd[t]] = "retired")
  BY DEF Inv, TypeOK, Holds, Knows
<1>2. hd[t] = head
  BY <1>1 DEF Inv, Lined, Leads, Safe
<1>3. Front(head, tail) = Null
  BY <1>2 DEF Front
<1>4. pc[t] \notin Rest
  BY DEF HeadPCs, Rest
<1> QED
  BY <1>2, <1>3, <1>4 DEF LineInv, Saw

(* The other steps of ab_list_put.                                         *)
LEMMA LinePutQuiet ==
  ASSUME Inv, LineInv, TypeOK', NEW t \in Threads,
         \/ PutEnter(t) \/ PutTail(t) \/ PutNext(t) \/ PutStale(t) \/ PutGoOn(t)
         \/ PutRetry(t) \/ PutNum(t) \/ PutLeave(t)
         \/ (PutHelp(t) \/ PutSwing(t)) /\ tl[t] # tail
  PROVE  LineInv'
<1> USE DEF Goto, Forget, poolVars, listVars, locals, OthersKeep, OthersSee, PutPCs, Rest
<1>1. Saw(t)' 
  <2>1. Front(head, tail)' = Front(head, tail)
    BY DEF PutEnter, PutTail, PutNext, PutStale, PutGoOn, PutRetry, PutNum, PutLeave,
           PutHelp, PutSwing, MoveTail, Front
  <2>2. /\ pc[t] \in PutPCs /\ pc'[t] \in PutPCs \cup {"idle"}
        /\ pc'[t] \in PutPCs => UNCHANGED seen
    BY DEF PutEnter, PutTail, PutNext, PutStale, PutGoOn, PutRetry, PutNum, PutLeave,
           PutHelp, PutSwing, MoveTail, Inv, TypeOK
  <2>3. pc'[t] \in PutPCs => Front(head, tail)' \in seen'[t]
    BY <2>1, <2>2 DEF LineInv, Saw
  <2> QED
    BY <2>2, <2>3 DEF Saw
<1>2. pc[t] \in PutPCs => Safe(t, node[t])
  BY DEF LineInv, Owns
<1>3. CASE PutEnter(t)
  <2>1. state[node[t]] = "linked"
    BY <1>3 DEF PutEnter, Inv, Private, PrivatePCs, LinkedPCs
  <2>2. /\ pc' = [pc EXCEPT ![t] = "put_tail"] /\ pc[t] = "put_enter"
        /\ UNCHANGED <<state, head, tail, next, value, node, hd, tl, nx, val, seen>>
        /\ \A x \in Items : guards'[x] \subseteq guards[x] /\ guards[x] \ {t} \subseteq guards'[x]
    BY <1>3 DEF PutEnter, EnterEpoch, Pool!Enter, Pool!Reenter, Inv, TypeOK
  <2> QED
    BY <1>1, <2>1, <2>2, LineQuiet DEF Safe, Inv, TypeOK
<1>4. CASE PutLeave(t)
  <2>1. /\ pc' = [pc EXCEPT ![t] = "idle"] /\ pc[t] = "put_leave"
        /\ node' = [node EXCEPT ![t] = Null] /\ seen' = [seen EXCEPT ![t] = {}]
        /\ UNCHANGED <<state, head, tail, next, value, hd, tl, nx, val>>
        /\ \A x \in Items : guards'[x] \subseteq guards[x] /\ guards[x] \ {t} \subseteq guards'[x]
    BY <1>4 DEF PutLeave, Pool!Leave, SeeLast, Inv, TypeOK
  <2> QED
    BY <1>1, <2>1, LineQuiet DEF Inv, TypeOK
<1>5. CASE PutTail(t) \/ PutNext(t) \/ PutStale(t) \/ PutGoOn(t) \/ PutRetry(t) \/ PutNum(t)
  <2>1. /\ \E to \in {"put_tail", "put_next", "put_again", "put_help", "put_link", "put_swing"} :
             pc' = [pc EXCEPT ![t] = to]
        /\ pc[t] \in PutPCs /\ pc[t] # "put_swing"
        /\ pc[t] = "put_num" => pc'[t] = "put_swing"
        /\ UNCHANGED <<state, guards, head, tail, next, value, node, seen>>
        /\ tl'[t] \in {tl[t], tail, Null}
        /\ OthersKeep(t) /\ OthersSee(t)
    BY <1>5 DEF PutTail, PutNext, PutStale, PutGoOn, PutRetry, PutNum, Inv, TypeOK
  <2> QED
    BY <1>1, <1>2, <2>1, LineQuiet DEF Safe, Inv, TypeOK
<1>6. CASE (PutHelp(t) \/ PutSwing(t)) /\ tl[t] # tail
  <2>1. /\ \/ pc[t] = "put_help" /\ pc' = [pc EXCEPT ![t] = "put_tail"]
           \/ pc[t] = "put_swing" /\ pc' = [pc EXCEPT ![t] = "put_leave"]
        /\ UNCHANGED <<state, guards, head, tail, next, value, node, seen>>
        /\ tl'[t] = Null
        /\ OthersKeep(t) /\ OthersSee(t)
    BY <1>6 DEF PutHelp, PutSwing, MoveTail, Inv, TypeOK
  <2>2. pc[t] = "put_swing" => next[tail] # node[t]
    BY <1>6, MovedOver
  <2> QED
    BY <1>1, <1>2, <2>1, <2>2, LineQuiet DEF Safe, Inv, TypeOK
<1> QED
  BY <1>3, <1>4, <1>5, <1>6

(* A step of a delete or a get that only reads or passes the gate. *)
LEMMA LineRead ==
  ASSUME Inv, LineInv, NEW t \in Threads, OthersKeep(t), OthersSee(t),
         UNCHANGED <<state, head, tail, next, value>>,
         \A x \in Items : guards'[x] \subseteq guards[x] /\ guards[x] \ {t} \subseteq guards'[x],
         tl'[t] \in {tl[t], tail, Null}, pc[t] \notin PutPCs, pc'[t] \notin PutPCs,
         Saw(t)'
  PROVE  LineInv'
BY LineQuiet DEF PutPCs

(* The other steps of ab_list_del.                                         *)
LEMMA LineDelQuiet ==
  ASSUME Inv, LineInv, TypeOK', NEW t \in Threads,
         \/ Del(t) \/ DelHead(t) \/ DelTail(t) \/ DelNext(t) \/ DelStale(t) \/ DelEmpty(t)
         \/ DelGoOn(t) \/ DelValue(t) \/ DelRetry(t) \/ DelNum(t) \/ DelLeave(t)
  PROVE  LineInv'
<1> USE DEF Goto, Forget, poolVars, listVars, locals, OthersKeep, OthersSee, PutPCs, Rest,
            Inv, TypeOK
<1>1. CASE Del(t)
  <2>1. /\ pc' = [pc EXCEPT ![t] = "del_head"] /\ pc[t] \in Rest
        /\ seen' = [seen EXCEPT ![t] = {Front(head, tail)}]
        /\ UNCHANGED <<state, head, tail, next, value, node, hd, tl, nx, val>>
        /\ \A x \in Items : guards'[x] \subseteq guards[x] /\ guards[x] \ {t} \subseteq guards'[x]
    BY <1>1 DEF Del, EnterEpoch, Begin, SeeFirst, Pool!Enter, Pool!Reenter
  <2>2. Saw(t)'
    BY <2>1 DEF Saw, Front
  <2> QED
    BY <2>1, <2>2, LineRead
<1>2. CASE DelLeave(t)
  <2>1. /\ pc' = [pc EXCEPT ![t] = "idle"] /\ pc[t] = "del_leave"
        /\ seen' = [seen EXCEPT ![t] = {}] /\ tl' = [tl EXCEPT ![t] = Null]
        /\ UNCHANGED <<state, head, tail, next, value>> /\ OthersKeep(t) /\ OthersSee(t)
        /\ \A x \in Items : guards'[x] \subseteq guards[x] /\ guards[x] \ {t} \subseteq guards'[x]
    BY <1>2 DEF DelLeave, SeeLast, Pool!Leave
  <2>2. Saw(t)'
    BY <2>1 DEF Saw
  <2> QED
    BY <2>1, <2>2, LineRead
<1> DEFINE Kept == /\ UNCHANGED <<state, guards, head, tail, next, value, node, seen>>
                   /\ OthersKeep(t) /\ OthersSee(t) /\ tl'[t] \in {tl[t], tail, Null}
                   /\ pc[t] \notin Rest
<1>3. Kept => /\ Front(head, tail)' = Front(head, tail) /\ Front(head, tail) \in seen[t]
              /\ \A x \in Items : guards'[x] \subseteq guards[x] /\ guards[x] \ {t} \subseteq guards'[x]
  BY DEF LineInv, Saw, Front
<1>4. CASE DelHead(t) \/ DelStale(t) \/ DelEmpty(t) \/ DelGoOn(t) \/ DelRetry(t) \/ DelNum(t)
  <2>1. Kept /\ pc[t] \notin PutPCs /\ pc'[t] \in {"del_head", "del_read", "del_leave", "del_value"}
    BY <1>4 DEF DelHead, DelStale, DelEmpty, DelGoOn, DelRetry, DelNum
  <2>2. Saw(t)'
    BY <1>3, <2>1 DEF Saw
  <2> QED
    BY <1>3, <2>1, <2>2, LineRead
<1>5. CASE DelTail(t)
  <2>1. /\ Kept /\ pc[t] \in HeadPCs /\ pc[t] \notin PutPCs
        /\ tl'[t] = tail /\ UNCHANGED <<hd, nx, val>>
        /\ \/ pc[t] = "del_read" /\ pc'[t] = "del_next"
           \/ pc[t] = "del_tail" /\ pc'[t] = "del_again"
    BY <1>5 DEF DelTail, HeadPCs
  <2>2. hd[t] = tail => Null \in seen[t]
    BY <2>1, Emptiness
  <2>3. Saw(t)'
    BY <1>3, <2>1, <2>2 DEF LineInv, Saw
  <2> QED
    BY <1>3, <2>1, <2>3, LineRead
<1>6. CASE DelNext(t)
  <2>1. /\ Kept /\ pc[t] \in HeadPCs /\ pc[t] \notin PutPCs
        /\ nx'[t] = next[hd[t]] /\ UNCHANGED <<hd, tl, val>>
        /\ \/ pc[t] = "del_read" /\ pc'[t] = "del_tail"
           \/ pc[t] = "del_next" /\ pc'[t] = "del_again"
    BY <1>6 DEF DelNext, HeadPCs
  <2>2. nx'[t] = Null => Null \in seen[t]
    BY <2>1, Emptiness
  <2>3. Saw(t)'
    BY <1>3, <2>1, <2>2 DEF LineInv, Saw
  <2> QED
    BY <1>3, <2>1, <2>3, LineRead
<1>7. CASE DelValue(t)
  <2>1. /\ Kept /\ pc[t] \notin PutPCs /\ val'[t] = value[nx[t]] /\ UNCHANGED <<hd, tl, nx>>
        /\ pc'[t] = "del_cas"
    BY <1>7 DEF DelValue
  <2>2. Saw(t)'
    BY <1>3, <2>1 DEF Saw
  <2> QED
    BY <1>3, <2>1, <2>2, LineRead
<1> QED
  BY <1>1, <1>2, <1>4, <1>5, <1>6, <1>7

(* The steps of ab_list_get.                                               *)
LEMMA LineGetQuiet ==
  ASSUME Inv, LineInv, TypeOK', NEW t \in Threads,
         \/ Get(t) \/ GetHead(t) \/ GetNext(t) \/ GetAgain(t) \/ GetTail(t) \/ GetNone(t)
         \/ GetValue(t) \/ GetLeave(t)
  PROVE  LineInv'
<1> USE DEF Goto, Forget, poolVars, listVars, locals, OthersKeep, OthersSee, PutPCs, Rest,
            Inv, TypeOK
<1>1. CASE Get(t)
  <2>1. /\ pc' = [pc EXCEPT ![t] = "get_head"] /\ pc[t] \in Rest
        /\ seen' = [seen EXCEPT ![t] = {Front(head, tail)}]
        /\ UNCHANGED <<state, head, tail, next, value, node, hd, tl, nx, val>>
        /\ \A x \in Items : guards'[x] \subseteq guards[x] /\ guards[x] \ {t} \subseteq guards'[x]
    BY <1>1 DEF Get, EnterEpoch, Begin, SeeFirst, Pool!Enter, Pool!Reenter
  <2>2. Saw(t)'
    BY <2>1 DEF Saw, Front
  <2> QED
    BY <2>1, <2>2, LineRead
<1>2. CASE GetLeave(t) \/ GetNone(t)
  <2>1. /\ pc'[t] \in Rest /\ pc[t] \notin PutPCs
        /\ seen' = [seen EXCEPT ![t] = {}] /\ tl'[t] \in {tl[t], Null}
        /\ UNCHANGED <<state, head, tail, next, value>> /\ OthersKeep(t) /\ OthersSee(t)
        /\ \A x \in Items : guards'[x] \subseteq guards[x] /\ guards[x] \ {t} \subseteq guards'[x]
    BY <1>2 DEF GetLeave, GetNone, SeeLast, Pool!Leave
  <2>2. Saw(t)'
    BY <2>1 DEF Saw
  <2> QED
    BY <2>1, <2>2, LineRead
<1> DEFINE Kept == /\ UNCHANGED <<state, guards, head, tail, next, value, node, seen>>
                   /\ OthersKeep(t) /\ OthersSee(t) /\ tl'[t] \in {tl[t], tail, Null}
                   /\ pc[t] \notin Rest
<1>3. Kept => /\ Front(head, tail)' = Front(head, tail) /\ Front(head, tail) \in seen[t]
              /\ \A x \in Items : guards'[x] \subseteq guards[x] /\ guards[x] \ {t} \subseteq guards'[x]
  BY DEF LineInv, Saw, Front
<1>4. CASE GetHead(t)
  <2>1. Kept /\ pc[t] \notin PutPCs /\ pc'[t] = "get_next" /\ hd'[t] = head
    BY <1>4 DEF GetHead
  <2>2. Saw(t)'
    BY <1>3, <2>1 DEF Saw
  <2> QED
    BY <1>3, <2>1, <2>2, LineRead
<1>5. CASE GetNext(t)
  <2>1. /\ Kept /\ pc[t] = "get_next" /\ pc'[t] = "get_again" /\ nx'[t] = next[hd[t]]
        /\ UNCHANGED <<hd, tl, val>>
    BY <1>5 DEF GetNext
  <2>2. nx'[t] = Null => Null \in seen[t]
    BY <2>1, Emptiness DEF HeadPCs
  <2>3. nx'[t] # Null => \/ value[nx'[t]] \in seen[t]
                         \/ hd[t] = head /\ head = tail /\ nx'[t] = next[head]
    BY <1>3, <2>1 DEF LineInv, Saw, Front
  <2>4. Saw(t)'
    BY <1>3, <2>1, <2>2, <2>3 DEF Saw
  <2> QED
    BY <1>3, <2>1, <2>4, LineRead
<1>6. CASE GetAgain(t)
  <2>1. /\ Kept /\ pc[t] = "get_again" /\ pc'[t] = "get_tail" /\ hd'[t] \in {hd[t], head}
        /\ UNCHANGED <<tl, nx, val>>
    BY <1>6 DEF GetAgain
  <2>2. Saw(t)'
    BY <1>3, <2>1 DEF LineInv, Saw
  <2> QED
    BY <1>3, <2>1, <2>2, LineRead
<1>7. CASE GetTail(t)
  <2>1. /\ Kept /\ pc[t] = "get_tail"
        /\ \/ pc'[t] = "get_none"
           \/ /\ pc'[t] = "get_value" /\ hd[t] # tail /\ nx[t] # Null
              /\ UNCHANGED <<hd, tl, nx, val>>
    BY <1>7 DEF GetTail
  <2>2. Saw(t)'
    BY <1>3, <2>1 DEF LineInv, Saw
  <2> QED
    BY <1>3, <2>1, <2>2, LineRead
<1>8. CASE GetValue(t)
  <2>1. Kept /\ pc[t] \notin PutPCs /\ pc'[t] = "get_leave"
    BY <1>8 DEF GetValue
  <2>2. Saw(t)'
    BY <1>3, <2>1 DEF Saw
  <2> QED
    BY <1>3, <2>1, <2>2, LineRead
<1> QED
  BY <1>1, <1>2, <1>4, <1>5, <1>6, <1>7, <1>8

LEMMA LineInit == Init => LineInv
<1> SUFFICES ASSUME Init PROVE LineInv
  OBVIOUS
<1>1. Drawn(<<head>>)
  <2>1. head \in Items /\ tail = head /\ state[head] = "linked" /\ next[head] = Null
    BY DEF Init
  <2> DEFINE s == <<head>>
  <2>2. s \in Seq(Items) /\ Len(s) = 1 /\ s[1] = head /\ s # <<>>
    BY <2>1
  <2> HIDE DEF s
  <2>3. IsLine(s)
    BY <2>1, <2>2 DEF IsLine
  <2>4. \A x \in Items : state[x] # "retired"
    BY DEF Init
  <2> QED
    BY <2>1, <2>3, <2>4 DEF Drawn, Init, s
<1>2. Behind
  BY DEF Init, Behind
<1>3. ASSUME NEW t \in Threads PROVE Owns(t) /\ Saw(t)
  BY DEF Init, Owns, Saw, PutPCs, Rest
<1> QED
  BY <1>1, <1>2, <1>3 DEF LineInv

LEMMA LineStep == Inv /\ LineInv /\ [Next]_vars => LineInv'
<1> SUFFICES ASSUME Inv, LineInv, [Next]_vars PROVE LineInv'
  OBVIOUS
<1>1. TypeOK'
  BY TypeStep
<1>2. CASE UNCHANGED vars
  <2>1. UNCHANGED <<inside, state, guards, head, tail, next, value, pc, node, hd, tl, nx, val, seen>>
    BY <1>2 DEF vars, poolVars, listVars, locals
  <2>2. PICK s : Drawn(s)
    BY DEF LineInv
  <2>3. Drawn(s)'
    BY <2>1, <2>2 DEF Drawn, IsLine, InLine
  <2>4. Behind'
    BY <2>1 DEF LineInv, Behind
  <2>5. ASSUME NEW t \in Threads PROVE Owns(t)'
    BY <2>1 DEF LineInv, Owns, Safe
  <2>6. ASSUME NEW t \in Threads PROVE Saw(t)'
    BY <2>1 DEF LineInv, Saw, Front
  <2> QED
    BY <2>3, <2>4, <2>5, <2>6 DEF LineInv
<1>3. ASSUME NEW t \in Threads, Work(t) PROVE LineInv'
  BY <1>1, <1>3, LinePutQuiet, LineDelQuiet, LineGetQuiet, LinePutLink, LineMoveTail,
     LineDelCas DEF Work
<1>4. ASSUME NEW t \in Threads, Call(t) PROVE LineInv'
  BY <1>1, <1>4, LinePut, LineDelQuiet, LineGetQuiet DEF Call
<1> QED
  BY <1>1, <1>2, <1>3, <1>4, LineReclaim DEF Next

(* Both invariants hold at any moment.                                     *)
LEMMA LineHolds == Spec => [](Inv /\ LineInv)
BY InvInit, InvStep, LineInit, LineStep, PTL DEF Spec

-----------------------------------------------------------------------------
(* The queue and the calls that callers see, read off the line.            *)

(* The queue that callers see, read off a line. *)
QueueIs(s) ==
  /\ Chain = s
  /\ Queue = [k \in 1 .. Len(s) - 1 |-> value[s[k + 1]]]
  /\ Queue \in Seq(1 .. MaxPuts \cup {Null})
  /\ Len(Queue) = Len(s) - 1
  /\ Front(head, tail) = Fifo!Front(Queue)

(* The line gives the queue and its front.                                 *)
LEMMA QueueOfLine == \A s : TypeOK /\ IsLine(s) => QueueIs(s)
<1> SUFFICES ASSUME NEW s, TypeOK, IsLine(s) PROVE QueueIs(s)
  OBVIOUS
<1>1. Chain = s
  BY ChainIsLine
<1>2. Queue = [k \in 1 .. Len(s) - 1 |-> value[s[k + 1]]]
  BY <1>1 DEF Queue
<1>3. Len(s) \in Nat \ {0} /\ s \in [1 .. Len(s) -> Items] /\ s[1] = head /\ s[Len(s)] = tail
  BY LineFits DEF IsLine
<1>4. \A k \in 1 .. Len(s) - 1 : value[s[k + 1]] \in 1 .. MaxPuts \cup {Null}
  <2>1. \A k \in 1 .. Len(s) - 1 : k + 1 \in 1 .. Len(s)
    BY <1>3
  <2> QED
    BY <1>3, <2>1 DEF TypeOK
<1>5. Queue \in Seq(1 .. MaxPuts \cup {Null}) /\ Len(Queue) = Len(s) - 1
  BY <1>2, <1>3, <1>4
<1>6. ASSUME Len(s) = 1 PROVE Front(head, tail) = Fifo!Front(Queue)
  <2>1. Queue = <<>>
    BY <1>5, <1>6
  <2> QED
    BY <1>3, <1>6, <2>1 DEF Front, Fifo!Front
<1>7. ASSUME Len(s) > 1 PROVE Front(head, tail) = Fifo!Front(Queue)
  <2>1. Queue # <<>> /\ Head(Queue) = value[s[2]]
    BY <1>2, <1>3, <1>5, <1>7
  <2>2. next[head] = s[2] /\ head # tail /\ s[2] \in Items
    BY <1>3, <1>7 DEF IsLine
  <2>3. Front(head, tail) = value[s[2]]
    BY <2>2, ItemAssumption DEF Front
  <2> QED
    BY <2>1, <2>3 DEF Fifo!Front
<1>8. Len(s) = 1 \/ Len(s) > 1
  BY <1>3
<1> QED
  BY <1>1, <1>2, <1>5, <1>6, <1>7, <1>8 DEF QueueIs

(* The same in the next state.                                             *)
LEMMA QueueOfNextLine == (\A s : TypeOK /\ IsLine(s) => QueueIs(s))'
BY QueueOfLine, PTL

(* The same line with the same values is the same queue.                   *)
LEMMA SameQueue ==
  ASSUME TypeOK, TypeOK', NEW s, IsLine(s), IsLine(s)',
         \A x \in Items : InLine(s, x) => value'[x] = value[x]
  PROVE  Queue' = Queue
<1>1. Queue = [k \in 1 .. Len(s) - 1 |-> value[s[k + 1]]]
  BY QueueOfLine DEF QueueIs
<1>2. Queue' = [k \in 1 .. Len(s) - 1 |-> value'[s[k + 1]]]
  BY QueueOfNextLine DEF QueueIs
<1>3. \A k \in 1 .. Len(s) - 1 : s[k + 1] \in Items /\ InLine(s, s[k + 1])
  <2>1. \A k \in 1 .. Len(s) - 1 : k + 1 \in 1 .. Len(s)
    BY LineFits
  <2> QED
    BY <2>1, LineFits DEF InLine
<1> QED
  BY <1>1, <1>2, <1>3

(* What a thread's place in the code says of its call. *)
CallIs(t) ==
  /\ pc[t] \in Rest => CallOf(t) = [op |-> "none", val |-> Null]
  /\ pc[t] \in PutPCs =>
       CallOf(t) = IF pc[t] \in LinkedPCs /\ next[tail] # node[t]
                   THEN [op |-> "done", val |-> Null]
                   ELSE [op |-> "put", val |-> value[node[t]]]
  /\ pc[t] \in {"del_num", "del_leave", "get_none", "get_leave"} =>
       CallOf(t) = [op |-> "done", val |-> val[t]]
  /\ pc[t] \in DelPCs \ {"del_num", "del_leave"} => CallOf(t) = [op |-> "del", val |-> Null]
  /\ pc[t] \in GetPCs \ {"get_none", "get_leave"} => CallOf(t) = [op |-> "get", val |-> Null]

(* CallOf by cases.                                                        *)
LEMMA CallNow == \A t \in Threads : TypeOK => CallIs(t)
BY DEF CallIs, CallOf, Rest, PutPCs, DelPCs, GetPCs, TypeOK

LEMMA CallThen == (\A t \in Threads : TypeOK => CallIs(t))'
BY CallNow, PTL

(* A call looks the same while its thread and its node do.                 *)
LEMMA SameCall ==
  ASSUME Inv, TypeOK', NEW t \in Threads,
         pc'[t] = pc[t], node'[t] = node[t], val'[t] = val[t],
         pc[t] \in PutPCs => value'[node[t]] = value[node[t]],
         pc[t] \in LinkedPCs => (next'[tail'] = node[t] <=> next[tail] = node[t])
  PROVE  CallOf(t)' = CallOf(t)
<1>1. CallIs(t) /\ CallIs(t)'
  BY CallNow, CallThen DEF Inv
<1>2. pc[t] \in Rest \cup PutPCs \cup DelPCs \cup GetPCs
  BY DEF Inv, TypeOK
<1> QED
  BY <1>1, <1>2 DEF CallIs, PutPCs, DelPCs, GetPCs

(* Who is in no call of the list is in no call of AbFifo.                  *)
LEMMA InNoCall ==
  ASSUME TypeOK
  PROVE  \A t \in Threads : CallOf(t) = Fifo!NoCall <=> pc[t] \in Rest
<1> SUFFICES ASSUME NEW t \in Threads PROVE CallOf(t) = Fifo!NoCall <=> pc[t] \in Rest
  OBVIOUS
<1>1. CallIs(t) /\ pc[t] \in Rest \cup PutPCs \cup DelPCs \cup GetPCs
  BY CallNow DEF TypeOK
<1>2. Fifo!NoCall = [op |-> "none", val |-> Null]
  BY DEF Fifo!NoCall
<1> QED
  BY <1>1, <1>2 DEF CallIs, PutPCs, DelPCs, GetPCs, Rest

LEMMA FifoStutter ==
  ASSUME Queue' = Queue, seen' = seen, \A u \in Threads : CallOf(u)' = CallOf(u)
  PROVE  UNCHANGED Fifo!vars
BY DEF Fifo!vars

Calls == [u \in Threads |-> CallOf(u)]

(* One call changes. *)
LEMMA OneCall ==
  ASSUME NEW t \in Threads, NEW c, CallOf(t)' = c,
         \A u \in Threads \ {t} : CallOf(u)' = CallOf(u)
  PROVE  Calls' = [Calls EXCEPT ![t] = c]
BY DEF Calls

-----------------------------------------------------------------------------
(* The steps that start or answer a call of AbFifo and change its queue.   *)

(* SeeNew records what Becomes of AbFifo does.                             *)
LEMMA BecomesIs ==
  ASSUME TypeOK, NEW q, NEW f, Queue' = q, f = Fifo!Front(q),
         seen' = [u \in Threads |-> IF pc[u] \in Rest THEN {} ELSE seen[u] \cup {f}]
  PROVE  Fifo!Becomes(q)
<1>1. seen' = [u \in Threads |-> IF CallOf(u) = Fifo!NoCall THEN {}
                                 ELSE seen[u] \cup {Fifo!Front(q)}]
  BY InNoCall
<1>2. \A u \in Threads : [v \in Threads |-> CallOf(v)][u] = CallOf(u)
  OBVIOUS
<1> QED
  BY <1>1, <1>2 DEF Fifo!Becomes

(* A call of ab_list_put starts a put.                                     *)
LEMMA FifoPut ==
  ASSUME Inv, LineInv, TypeOK', NEW t \in Threads, Put(t)
  PROVE  [Fifo!Next]_Fifo!vars
<1>1. PICK n \in Items :
        /\ state[n] = "free" /\ state' = [state EXCEPT ![n] = "linked"]
        /\ next' = [next EXCEPT ![n] = Null] /\ node' = [node EXCEPT ![t] = n]
        /\ value' = [value EXCEPT ![n] = puts']
        /\ pc[t] \in Rest /\ pc' = [pc EXCEPT ![t] = "put_enter"]
        /\ seen' = [seen EXCEPT ![t] = {Front(head, tail)}]
        /\ UNCHANGED <<head, tail, hd, tl, nx, val>>
  BY DEF Put, Begin, Pool!Publish, SeeFirst
<1>0. puts' \in 1 .. MaxPuts
  BY NumAssumption DEF Put, Inv, TypeOK
<1>2. PICK s : Drawn(s)
  BY DEF LineInv
<1>3. IsLine(s) /\ \A x \in Items : InLine(s, x) => x # n
  BY <1>1, <1>2, LineEnds DEF Drawn
<1>4. IsLine(s)'
  <2>1. \A i \in 1 .. Len(s) : s[i] \in Items \ {n}
    BY <1>3, LineFits DEF InLine, Inv
  <2>2. \A i \in 1 .. Len(s) - 1 : i \in 1 .. Len(s)
    BY <1>3, LineFits DEF Inv
  <2> QED
    BY <1>1, <1>3, <2>1, <2>2 DEF IsLine, Inv, TypeOK
<1>5. Queue' = Queue
  BY <1>1, <1>3, <1>4, SameQueue DEF Inv, TypeOK
<1>6. ASSUME NEW u \in Threads \ {t} PROVE CallOf(u)' = CallOf(u)
  <2>1. pc[u] \in PutPCs => node[u] \in Items \ {n}
    BY <1>1 DEF LineInv, Owns, Safe, Inv, TypeOK
  <2>2. tail # n
    BY <1>1 DEF Inv, Lined
  <2> QED
    BY <1>1, <2>1, <2>2, SameCall DEF Inv, TypeOK
<1>7. CallOf(t)' = [op |-> "put", val |-> puts']
  BY <1>1, CallThen DEF CallIs, Inv, TypeOK, PutPCs, LinkedPCs
<1>8. CallOf(t) = Fifo!NoCall
  BY <1>1, InNoCall DEF Inv
<1>9. Front(head, tail) = Fifo!Front(Queue)
  BY <1>3, QueueOfLine DEF Inv, QueueIs
<1>10. Fifo!Start(t, "put", puts')
  <2>1. Calls' = [Calls EXCEPT ![t] = [op |-> "put", val |-> puts']]
    BY <1>6, <1>7, OneCall
  <2> QED
    BY <1>1, <1>5, <1>8, <1>9, <2>1 DEF Fifo!Start, Calls
<1> QED
  BY <1>0, <1>10 DEF Fifo!Next

(* Linking a node is not the put yet: callers see no change.               *)
LEMMA FifoPutLink ==
  ASSUME Inv, LineInv, TypeOK', NEW t \in Threads, PutLink(t)
  PROVE  [Fifo!Next]_Fifo!vars
<1> DEFINE n == node[t]
<1>1. /\ next[tl[t]] = Null /\ next' = [next EXCEPT ![tl[t]] = n]
      /\ pc[t] = "put_link" /\ pc' = [pc EXCEPT ![t] = "put_num"]
      /\ UNCHANGED <<state, head, tail, value, val, node, seen>>
  BY DEF PutLink, Goto, poolVars, locals
<1>2. tl[t] = tail
  BY PutsAtTail
<1>3. PICK s : IsLine(s)
  BY DEF LineInv, Drawn
<1>4. IsLine(s)'
  <2>1. \A i \in 1 .. Len(s) - 1 : i \in 1 .. Len(s) /\ s[i] \in Items \ {tail}
    BY <1>3, LineFits DEF IsLine, Inv
  <2> QED
    BY <1>1, <1>2, <1>3, <2>1 DEF IsLine, Inv, TypeOK
<1>5. Queue' = Queue
  BY <1>1, <1>3, <1>4, SameQueue DEF Inv
<1>6. next[tail] = Null /\ next'[tail] = n /\ n # Null /\ value'[n] = value[n]
  BY <1>1, <1>2 DEF Inv, TypeOK, LineInv, Owns, PutPCs
<1>7. ASSUME NEW u \in Threads PROVE CallOf(u)' = CallOf(u)
  <2>1. CASE u = t
    BY <1>1, <1>6, <2>1, CallNow, CallThen DEF CallIs, Inv, TypeOK, PutPCs, LinkedPCs
  <2>2. CASE u # t
    <3>1. pc[u] \in LinkedPCs => node[u] # Null /\ node[u] # n
      BY <1>1, <2>2 DEF LineInv, Owns, LinkedPCs, PutPCs
    <3> QED
      BY <1>1, <1>6, <2>2, <3>1, SameCall DEF Inv, TypeOK
  <2> QED
    BY <2>1, <2>2
<1> QED
  BY <1>1, <1>5, <1>7, FifoStutter

(* The put takes effect, for its own thread or by the help of another.     *)
LEMMA FifoMoveTail ==
  ASSUME Inv, LineInv, TypeOK', NEW t \in Threads, PutHelp(t) \/ PutSwing(t), tl[t] = tail
  PROVE  [Fifo!Next]_Fifo!vars
<1>1. PICK m \in Items :
        /\ next[tail] = m /\ tail' = m
        /\ seen' = [u \in Threads |-> IF pc[u] \in Rest THEN {} ELSE seen[u] \cup {Front(head, m)}]
        /\ \A s : IsLine(s) => IsLine(Append(s, m))'
  BY LineMoveTail
<1>2. /\ \/ pc[t] = "put_help" /\ pc' = [pc EXCEPT ![t] = "put_tail"]
         \/ pc[t] = "put_swing" /\ pc' = [pc EXCEPT ![t] = "put_leave"]
      /\ UNCHANGED <<head, next, value, node>>
      /\ \A u \in Threads \ {t} : val'[u] = val[u]
  BY DEF PutHelp, PutSwing, Goto, Forget, MoveTail, Inv, TypeOK
<1>3. next'[tail'] = Null
  BY <1>1, <1>2, ItemAssumption DEF LineInv, Drawn
<1>4. PICK u \in Threads : pc[u] \in {"put_num", "put_swing"} /\ node[u] = m
  BY <1>1, ItemAssumption DEF LineInv, Behind
<1>5. CallOf(u) = [op |-> "put", val |-> value[m]] /\ CallOf(u)' = [op |-> "done", val |-> Null]
  <2>1. pc'[u] \in LinkedPCs
    BY <1>2, <1>4 DEF LinkedPCs, Inv, TypeOK
  <2> QED
    BY <1>1, <1>2, <1>3, <1>4, <2>1, CallNow, CallThen, ItemAssumption
       DEF CallIs, Inv, PutPCs, LinkedPCs
<1>6. ASSUME NEW v \in Threads \ {u} PROVE CallOf(v)' = CallOf(v)
  <2>1. pc[v] \in PutPCs => node[v] # m /\ node[v] # Null
    BY <1>4 DEF LineInv, Owns, PutPCs
  <2>2. CASE v = t
    <3>1. \/ pc[v] = "put_help" /\ pc'[v] = "put_tail"
          \/ pc[v] = "put_swing" /\ pc'[v] = "put_leave"
      BY <1>2, <2>2 DEF Inv, TypeOK
    <3>2. CallIs(v) /\ CallIs(v)'
      BY CallNow, CallThen DEF Inv
    <3>3. /\ pc[v] \in PutPCs /\ pc'[v] \in PutPCs
          /\ pc'[v] \in LinkedPCs <=> pc[v] \in LinkedPCs
      BY <3>1 DEF PutPCs, LinkedPCs
    <3> QED
      BY <1>1, <1>2, <1>3, <2>1, <3>2, <3>3 DEF CallIs
  <2>3. CASE v # t
    BY <1>1, <1>2, <1>3, <2>1, <2>3, SameCall DEF Inv, TypeOK, LinkedPCs, PutPCs
  <2> QED
    BY <2>2, <2>3
<1>7. PICK s : IsLine(s)
  BY DEF LineInv, Drawn
<1>8. QueueIs(s) /\ QueueIs(Append(s, m))'
  BY <1>1, <1>7, QueueOfLine, QueueOfNextLine DEF Inv
<1>9. Queue' = Append(Queue, value[m])
  <2>1. /\ s \in Seq(Items) /\ Len(s) \in Nat \ {0} /\ Append(s, m) \in Seq(Items)
        /\ Len(Append(s, m)) = Len(s) + 1 /\ Append(s, m)[Len(s) + 1] = m
        /\ \A i \in 1 .. Len(s) : Append(s, m)[i] = s[i]
    BY <1>7, LineFits, AppendProperties DEF Inv, IsLine
  <2>2. value[m] \in 1 .. MaxPuts \cup {Null}
    BY DEF Inv, TypeOK
  <2> DEFINE V == 1 .. MaxPuts \cup {Null}
             a == Append(Queue, value[m])
  <2>3. /\ Queue \in Seq(V) /\ Len(Queue) = Len(s) - 1 /\ Queue' \in Seq(V) /\ Len(Queue') = Len(s)
    BY <1>8, <2>1 DEF QueueIs
  <2>4. a \in Seq(V) /\ Len(a) = Len(s) /\ a[Len(s)] = value[m]
        /\ \A i \in 1 .. Len(s) - 1 : a[i] = Queue[i]
    BY <2>1, <2>2, <2>3, AppendProperties
  <2>5. \A i \in 1 .. Len(s) : Queue'[i] = a[i]
    <3> SUFFICES ASSUME NEW i \in 1 .. Len(s) PROVE Queue'[i] = a[i]
      OBVIOUS
    <3>1. Queue'[i] = value[Append(s, m)[i + 1]]
      BY <1>2, <1>8, <2>1 DEF QueueIs
    <3>2. CASE i = Len(s)
      BY <2>1, <2>4, <3>1, <3>2
    <3>3. CASE i # Len(s)
      <4>1. i \in 1 .. Len(s) - 1 /\ i + 1 \in 1 .. Len(s)
        BY <2>1, <3>3
      <4>2. Queue[i] = value[s[i + 1]]
        BY <1>8, <4>1 DEF QueueIs
      <4> HIDE DEF a
      <4> QED
        BY <2>1, <2>4, <3>1, <4>1, <4>2
    <3> QED
      BY <3>2, <3>3
  <2> HIDE DEF a, V
  <2>6. Queue' = a
    BY <2>3, <2>4, <2>5, SeqEqual
  <2> QED
    BY <2>6 DEF a
<1>10. Front(head, m) = Fifo!Front(Append(Queue, value[m]))
  <2>1. Front(head, tail)' = Front(head, m)
    BY <1>1, <1>2 DEF Front
  <2> QED
    BY <1>8, <1>9, <2>1 DEF QueueIs, Fifo!Front
<1>11. Fifo!Put(u)
  <2>1. Calls' = [Calls EXCEPT ![u] = [op |-> "done", val |-> Null]]
    BY <1>5, <1>6, OneCall
  <2>2. Fifo!Becomes(Append(Queue, value[m]))
    BY <1>1, <1>9, <1>10, BecomesIs DEF Inv
  <2>3. Calls[u].op = "put" /\ Calls[u].val = value[m]
    BY <1>5 DEF Calls
  <2> QED
    BY <2>1, <2>2, <2>3 DEF Fifo!Put, Fifo!Done, Calls
<1> QED
  BY <1>11 DEF Fifo!Next

(* The delete takes effect and has the value of the front.                 *)
LEMMA FifoDelCas ==
  ASSUME Inv, LineInv, TypeOK', NEW t \in Threads, DelCas(t)
  PROVE  [Fifo!Next]_Fifo!vars
<1>1. /\ hd[t] = head /\ nx[t] = next[head] /\ next[head] # Null /\ head # tail
      /\ head' = next[head]
      /\ pc[t] = "del_cas" /\ pc' = [pc EXCEPT ![t] = "del_num"]
      /\ seen' = [u \in Threads |-> IF pc[u] \in Rest THEN {}
                                    ELSE seen[u] \cup {Front(next[head], tail)}]
      /\ UNCHANGED <<tail, next, value, val, node>>
  BY DEF DelCas, Goto, Inv, Knows, locals, SeeNew
<1>2. PICK s : IsLine(s)
  BY DEF LineInv, Drawn
<1>3. Len(s) > 1 /\ IsLine(Tail(s))'
  BY <1>2, LineDelCas
<1>4. QueueIs(s) /\ QueueIs(Tail(s))'
  BY <1>2, <1>3, QueueOfLine, QueueOfNextLine DEF Inv
<1>5. /\ s \in Seq(Items) /\ Len(s) \in Nat /\ Tail(s) \in Seq(Items) /\ Len(Tail(s)) = Len(s) - 1
      /\ \A i \in 1 .. Len(Tail(s)) : Tail(s)[i] = s[i + 1]
      /\ s[1] = head
  BY <1>2, <1>3, LineFits, HeadTailProperties DEF Inv, IsLine
<1> DEFINE V == 1 .. MaxPuts \cup {Null}
<1>6. Queue \in Seq(V) /\ Len(Queue) = Len(s) - 1 /\ Queue # <<>>
      /\ Queue' \in Seq(V) /\ Len(Queue') = Len(s) - 2
  <2>1. Queue \in Seq(V) /\ Len(Queue) = Len(s) - 1
    BY <1>4 DEF QueueIs
  <2>2. Queue' \in Seq(V) /\ Len(Queue') = Len(Tail(s)) - 1
    BY <1>4 DEF QueueIs
  <2> QED
    BY <1>3, <1>5, <2>1, <2>2
<1>7. Queue' = Tail(Queue)
  <2> DEFINE a == Tail(Queue)
  <2>1. a \in Seq(V) /\ Len(a) = Len(s) - 2 /\ \A i \in 1 .. Len(s) - 2 : a[i] = Queue[i + 1]
    BY <1>6, HeadTailProperties
  <2>2. \A i \in 1 .. Len(s) - 2 : Queue'[i] = a[i]
    <3> SUFFICES ASSUME NEW i \in 1 .. Len(s) - 2 PROVE Queue'[i] = a[i]
      OBVIOUS
    <3>0. i + 1 \in 1 .. Len(s) - 1
      BY <1>5
    <3>1. Queue'[i] = value[Tail(s)[i + 1]]
      BY <1>1, <1>4, <1>5 DEF QueueIs
    <3>2. Tail(s)[i + 1] = s[i + 1 + 1]
      BY <1>5, <3>0
    <3>3. Queue[i + 1] = value[s[i + 1 + 1]]
      BY <1>4, <3>0 DEF QueueIs
    <3> HIDE DEF a
    <3> QED
      BY <2>1, <3>1, <3>2, <3>3
  <2> HIDE DEF a, V
  <2>3. Queue' = a
    BY <1>6, <2>1, <2>2, SeqEqual
  <2> QED
    BY <2>3 DEF a
<1>8. Head(Queue) = val[t]
  <2>1. Front(head, tail) = value[next[head]]
    BY <1>1 DEF Front
  <2>2. val[t] = value[nx[t]]
    BY <1>1 DEF LineInv, Saw
  <2> QED
    BY <1>1, <1>4, <1>6, <2>1, <2>2 DEF QueueIs, Fifo!Front
<1>9. Front(next[head], tail) = Fifo!Front(Tail(Queue))
  <2>1. Front(head, tail)' = Front(next[head], tail)
    BY <1>1 DEF Front
  <2> QED
    BY <1>4, <1>7, <2>1 DEF QueueIs, Fifo!Front
<1>10. CallOf(t) = [op |-> "del", val |-> Null] /\ CallOf(t)' = [op |-> "done", val |-> val[t]]
  BY <1>1, CallNow, CallThen DEF CallIs, Inv, TypeOK, DelPCs
<1>11. ASSUME NEW u \in Threads \ {t} PROVE CallOf(u)' = CallOf(u)
  BY <1>1, SameCall DEF Inv, TypeOK
<1>12. Fifo!Del(t)
  <2>1. Calls' = [Calls EXCEPT ![t] = [op |-> "done", val |-> val[t]]]
    BY <1>10, <1>11, OneCall
  <2>2. Fifo!Becomes(Tail(Queue))
    BY <1>1, <1>7, <1>9, BecomesIs DEF Inv
  <2>3. Calls[t].op = "del"
    BY <1>10 DEF Calls
  <2> HIDE DEF V
  <2> QED
    BY <1>6, <1>8, <2>1, <2>2, <2>3 DEF Fifo!Del, Fifo!Done, Calls
<1> QED
  BY <1>12 DEF Fifo!Next

-----------------------------------------------------------------------------
(* The steps that leave the queue alone.                                   *)

(* A step of t that changes nothing of the list. *)
Aside(t) ==
  /\ UNCHANGED <<state, head, tail, next, value>>
  /\ OthersKeep(t) /\ OthersSee(t)

(* It leaves the queue and the other calls alone.                          *)
LEMMA AsideKeeps ==
  ASSUME Inv, LineInv, TypeOK', NEW t \in Threads, Aside(t)
  PROVE  /\ Queue' = Queue
         /\ \A u \in Threads \ {t} : CallOf(u)' = CallOf(u)
         /\ Front(head, tail) = Fifo!Front(Queue)
<1>1. PICK s : IsLine(s)
  BY DEF LineInv, Drawn
<1>2. IsLine(s)'
  BY <1>1 DEF IsLine, Aside
<1>3. Queue' = Queue
  BY <1>1, <1>2, SameQueue DEF Aside, Inv
<1>4. ASSUME NEW u \in Threads \ {t} PROVE CallOf(u)' = CallOf(u)
  BY SameCall DEF Aside, OthersKeep, OthersSee
<1>5. Front(head, tail) = Fifo!Front(Queue)
  BY <1>1, QueueOfLine DEF Inv, QueueIs
<1> QED
  BY <1>3, <1>4, <1>5

(* ... of which callers see nothing. *)
LEMMA AsideIdle ==
  ASSUME Inv, LineInv, TypeOK', NEW t \in Threads, Aside(t), UNCHANGED seen,
         CallOf(t)' = CallOf(t)
  PROVE  [Fifo!Next]_Fifo!vars
BY AsideKeeps, FifoStutter

(* ... that starts a call.                                                 *)
LEMMA AsideStart ==
  ASSUME Inv, LineInv, TypeOK', NEW t \in Threads, Aside(t), NEW op \in {"del", "get"},
         CallOf(t) = [op |-> "none", val |-> Null], CallOf(t)' = [op |-> op, val |-> Null],
         seen' = [seen EXCEPT ![t] = {Front(head, tail)}]
  PROVE  [Fifo!Next]_Fifo!vars
<1>1. Queue' = Queue /\ Calls' = [Calls EXCEPT ![t] = [op |-> op, val |-> Null]]
      /\ Front(head, tail) = Fifo!Front(Queue)
  BY AsideKeeps, OneCall
<1>2. Calls[t] = Fifo!NoCall
  BY DEF Calls, Fifo!NoCall
<1>3. Fifo!Start(t, op, Null)
  BY <1>1, <1>2 DEF Fifo!Start, Calls
<1> QED
  BY <1>3 DEF Fifo!Next

(* ... that has the answer of a call, one of the fronts it has seen.       *)
LEMMA AsideAnswer ==
  ASSUME Inv, LineInv, TypeOK', NEW t \in Threads, Aside(t), UNCHANGED seen, NEW v \in seen[t],
         \/ CallOf(t) = [op |-> "get", val |-> Null]
         \/ CallOf(t) = [op |-> "del", val |-> Null] /\ v = Null,
         CallOf(t)' = [op |-> "done", val |-> v]
  PROVE  [Fifo!Next]_Fifo!vars
<1>1. Queue' = Queue /\ Calls' = [Calls EXCEPT ![t] = [op |-> "done", val |-> v]]
  BY AsideKeeps, OneCall
<1>2. CASE CallOf(t) = [op |-> "get", val |-> Null]
  <2>1. Calls[t].op = "get"
    BY <1>2 DEF Calls
  <2>2. Fifo!Get(t)
    BY <1>1, <2>1 DEF Fifo!Get, Fifo!Done, Calls
  <2> QED
    BY <2>2 DEF Fifo!Next
<1>3. CASE CallOf(t) = [op |-> "del", val |-> Null] /\ v = Null
  <2>1. Calls[t].op = "del"
    BY <1>3 DEF Calls
  <2>2. Fifo!DelEmpty(t)
    BY <1>1, <1>3, <2>1 DEF Fifo!DelEmpty, Fifo!Done, Calls
  <2> QED
    BY <2>2 DEF Fifo!Next
<1> QED
  BY <1>2, <1>3

(* ... that returns from a call.                                           *)
LEMMA AsideReturn ==
  ASSUME Inv, LineInv, TypeOK', NEW t \in Threads, Aside(t),
         seen' = [seen EXCEPT ![t] = {}],
         NEW v, CallOf(t) = [op |-> "done", val |-> v], CallOf(t)' = [op |-> "none", val |-> Null]
  PROVE  [Fifo!Next]_Fifo!vars
<1>1. Queue' = Queue /\ Calls' = [Calls EXCEPT ![t] = [op |-> "none", val |-> Null]]
  BY AsideKeeps, OneCall
<1>2. Calls[t].op = "done"
  BY DEF Calls
<1>3. Fifo!Return(t)
  BY <1>1, <1>2 DEF Fifo!Return, Fifo!NoCall, Calls
<1> QED
  BY <1>3 DEF Fifo!Next

(* The other steps of ab_list_put.                                         *)
LEMMA FifoPutQuiet ==
  ASSUME Inv, LineInv, TypeOK', NEW t \in Threads,
         \/ PutEnter(t) \/ PutTail(t) \/ PutNext(t) \/ PutStale(t) \/ PutGoOn(t)
         \/ PutRetry(t) \/ PutNum(t) \/ PutLeave(t)
         \/ (PutHelp(t) \/ PutSwing(t)) /\ tl[t] # tail
  PROVE  [Fifo!Next]_Fifo!vars
<1> USE DEF Goto, Forget, poolVars, listVars, locals, OthersKeep, OthersSee, PutPCs, LinkedPCs,
            Rest, Inv, TypeOK
<1>1. CallIs(t) /\ CallIs(t)'
  BY CallNow, CallThen
<1>2. CASE PutEnter(t)
  <2>1. Aside(t) /\ UNCHANGED seen
    BY <1>2 DEF PutEnter, Aside, EnterEpoch, Pool!Enter, Pool!Reenter
  <2>2. pc[t] = "put_enter" /\ pc'[t] = "put_tail" /\ UNCHANGED <<head, tail, next, value, node>>
    BY <1>2 DEF PutEnter
  <2>3. CallOf(t)' = CallOf(t)
    BY <1>1, <2>2 DEF CallIs
  <2> QED
    BY <2>1, <2>3, AsideIdle
<1>3. CASE PutLeave(t)
  <2>1. Aside(t) /\ seen' = [seen EXCEPT ![t] = {}]
    BY <1>3 DEF PutLeave, Aside, SeeLast, Pool!Leave
  <2>2. pc[t] = "put_leave" /\ pc'[t] = "idle"
    BY <1>3 DEF PutLeave
  <2>3. next[tail] # node[t]
    BY <2>2 DEF LineInv, Owns
  <2>4. CallOf(t) = [op |-> "done", val |-> Null] /\ CallOf(t)' = [op |-> "none", val |-> Null]
    BY <1>1, <2>2, <2>3 DEF CallIs
  <2> QED
    BY <2>1, <2>4, AsideReturn
<1>4. CASE \/ PutTail(t) \/ PutNext(t) \/ PutStale(t) \/ PutGoOn(t) \/ PutRetry(t) \/ PutNum(t)
  <2>1. Aside(t) /\ UNCHANGED seen
    BY <1>4 DEF PutTail, PutNext, PutStale, PutGoOn, PutRetry, PutNum, Aside
  <2>2. /\ UNCHANGED <<head, tail, next, value, node>>
        /\ pc[t] \in PutPCs /\ pc'[t] \in PutPCs
        /\ pc[t] \in LinkedPCs <=> pc'[t] \in LinkedPCs
    BY <1>4 DEF PutTail, PutNext, PutStale, PutGoOn, PutRetry, PutNum
  <2>3. CallOf(t)' = CallOf(t)
    BY <1>1, <2>2 DEF CallIs
  <2> QED
    BY <2>1, <2>3, AsideIdle
<1>5. CASE (PutHelp(t) \/ PutSwing(t)) /\ tl[t] # tail
  <2>1. Aside(t) /\ UNCHANGED seen
    BY <1>5 DEF PutHelp, PutSwing, MoveTail, Aside
  <2>2. /\ UNCHANGED <<head, tail, next, value, node>>
        /\ \/ pc[t] = "put_help" /\ pc'[t] = "put_tail"
           \/ pc[t] = "put_swing" /\ pc'[t] = "put_leave"
    BY <1>5 DEF PutHelp, PutSwing, MoveTail
  <2>3. CallOf(t)' = CallOf(t)
    BY <1>1, <2>2 DEF CallIs
  <2> QED
    BY <2>1, <2>3, AsideIdle
<1> QED
  BY <1>2, <1>3, <1>4, <1>5

(* The other steps of ab_list_del.                                         *)
LEMMA FifoDelQuiet ==
  ASSUME Inv, LineInv, TypeOK', NEW t \in Threads,
         \/ Del(t) \/ DelHead(t) \/ DelTail(t) \/ DelNext(t) \/ DelStale(t) \/ DelEmpty(t)
         \/ DelGoOn(t) \/ DelValue(t) \/ DelRetry(t) \/ DelNum(t) \/ DelLeave(t)
  PROVE  [Fifo!Next]_Fifo!vars
<1> USE DEF Goto, Forget, poolVars, listVars, locals, OthersKeep, OthersSee, DelPCs, Rest,
            Inv, TypeOK
<1>1. CallIs(t) /\ CallIs(t)'
  BY CallNow, CallThen
<1>2. CASE Del(t)
  <2>1. Aside(t) /\ seen' = [seen EXCEPT ![t] = {Front(head, tail)}]
    BY <1>2 DEF Del, Aside, Begin, SeeFirst, EnterEpoch, Pool!Enter, Pool!Reenter
  <2>2. pc[t] \in Rest /\ pc'[t] = "del_head"
    BY <1>2 DEF Del, Begin
  <2>3. CallOf(t) = [op |-> "none", val |-> Null] /\ CallOf(t)' = [op |-> "del", val |-> Null]
    BY <1>1, <2>2 DEF CallIs
  <2> QED
    BY <2>1, <2>3, AsideStart
<1>3. CASE DelLeave(t)
  <2>1. Aside(t) /\ seen' = [seen EXCEPT ![t] = {}]
    BY <1>3 DEF DelLeave, Aside, SeeLast, Pool!Leave
  <2>2. pc[t] = "del_leave" /\ pc'[t] = "idle"
    BY <1>3 DEF DelLeave
  <2>3. CallOf(t) = [op |-> "done", val |-> val[t]] /\ CallOf(t)' = [op |-> "none", val |-> Null]
    BY <1>1, <2>2 DEF CallIs
  <2> QED
    BY <2>1, <2>3, AsideReturn
<1>4. CASE DelEmpty(t)
  <2>1. Aside(t) /\ UNCHANGED seen
    BY <1>4 DEF DelEmpty, Aside
  <2>2. pc[t] = "del_again" /\ pc'[t] = "del_leave" /\ val'[t] = Null
    BY <1>4 DEF DelEmpty
  <2>3. Null \in seen[t]
    BY <1>4 DEF DelEmpty, LineInv, Saw
  <2>4. CallOf(t) = [op |-> "del", val |-> Null] /\ CallOf(t)' = [op |-> "done", val |-> Null]
    BY <1>1, <2>2 DEF CallIs
  <2> QED
    BY <2>1, <2>3, <2>4, AsideAnswer
<1>5. CASE \/ DelHead(t) \/ DelTail(t) \/ DelNext(t) \/ DelStale(t) \/ DelGoOn(t) \/ DelValue(t)
           \/ DelRetry(t)
  <2>1. Aside(t) /\ UNCHANGED seen
    BY <1>5 DEF DelHead, DelTail, DelNext, DelStale, DelGoOn, DelValue, DelRetry, Aside
  <2>2. pc[t] \in DelPCs \ {"del_num", "del_leave"} /\ pc'[t] \in DelPCs \ {"del_num", "del_leave"}
    BY <1>5 DEF DelHead, DelTail, DelNext, DelStale, DelGoOn, DelValue, DelRetry
  <2>3. CallOf(t)' = CallOf(t)
    BY <1>1, <2>2 DEF CallIs
  <2> QED
    BY <2>1, <2>3, AsideIdle
<1>6. CASE DelNum(t)
  <2>1. Aside(t) /\ UNCHANGED seen
    BY <1>6 DEF DelNum, Aside
  <2>2. pc[t] = "del_num" /\ pc'[t] = "del_leave" /\ val'[t] = val[t]
    BY <1>6 DEF DelNum
  <2>3. CallOf(t)' = CallOf(t)
    BY <1>1, <2>2 DEF CallIs
  <2> QED
    BY <2>1, <2>3, AsideIdle
<1> QED
  BY <1>2, <1>3, <1>4, <1>5, <1>6

(* The steps of ab_list_get.                                               *)
LEMMA FifoGetQuiet ==
  ASSUME Inv, LineInv, TypeOK', NEW t \in Threads,
         \/ Get(t) \/ GetHead(t) \/ GetNext(t) \/ GetAgain(t) \/ GetTail(t) \/ GetNone(t)
         \/ GetValue(t) \/ GetLeave(t)
  PROVE  [Fifo!Next]_Fifo!vars
<1> USE DEF Goto, Forget, poolVars, listVars, locals, OthersKeep, OthersSee, GetPCs, Rest,
            Inv, TypeOK
<1>1. CallIs(t) /\ CallIs(t)'
  BY CallNow, CallThen
<1>2. CASE Get(t)
  <2>1. Aside(t) /\ seen' = [seen EXCEPT ![t] = {Front(head, tail)}]
    BY <1>2 DEF Get, Aside, Begin, SeeFirst, EnterEpoch, Pool!Enter, Pool!Reenter
  <2>2. pc[t] \in Rest /\ pc'[t] = "get_head"
    BY <1>2 DEF Get, Begin
  <2>3. CallOf(t) = [op |-> "none", val |-> Null] /\ CallOf(t)' = [op |-> "get", val |-> Null]
    BY <1>1, <2>2 DEF CallIs
  <2> QED
    BY <2>1, <2>3, AsideStart
<1>3. CASE GetLeave(t) \/ GetNone(t)
  <2>1. Aside(t) /\ seen' = [seen EXCEPT ![t] = {}]
    BY <1>3 DEF GetLeave, GetNone, Aside, SeeLast, Pool!Leave
  <2>2. pc[t] \in {"get_leave", "get_none"} /\ pc'[t] \in Rest
    BY <1>3 DEF GetLeave, GetNone
  <2>3. CallOf(t) = [op |-> "done", val |-> val[t]] /\ CallOf(t)' = [op |-> "none", val |-> Null]
    BY <1>1, <2>2 DEF CallIs
  <2> QED
    BY <2>1, <2>3, AsideReturn
<1>4. CASE \/ GetHead(t) \/ GetNext(t) \/ GetAgain(t)
           \/ (GetTail(t) /\ pc'[t] = "get_value")
  <2>1. Aside(t) /\ UNCHANGED seen
    BY <1>4 DEF GetHead, GetNext, GetAgain, GetTail, Aside
  <2>2. {pc[t], pc'[t]} \subseteq GetPCs \ {"get_none", "get_leave"}
    BY <1>4 DEF GetHead, GetNext, GetAgain, GetTail
  <2>3. CallOf(t)' = CallOf(t)
    BY <1>1, <2>2 DEF CallIs
  <2> QED
    BY <2>1, <2>3, AsideIdle
<1>5. CASE GetTail(t) /\ pc'[t] # "get_value"
  <2>1. Aside(t) /\ UNCHANGED seen
    BY <1>5 DEF GetTail, Aside
  <2>2. /\ pc[t] = "get_tail" /\ pc'[t] = "get_none" /\ val'[t] = Null
        /\ hd[t] = tail \/ nx[t] = Null
    BY <1>5 DEF GetTail
  <2>3. Null \in seen[t]
    BY <2>2, Emptiness DEF LineInv, Saw, HeadPCs
  <2>4. CallOf(t) = [op |-> "get", val |-> Null] /\ CallOf(t)' = [op |-> "done", val |-> Null]
    BY <1>1, <2>2 DEF CallIs
  <2> QED
    BY <2>1, <2>3, <2>4, AsideAnswer
<1>6. CASE GetValue(t)
  <2>1. Aside(t) /\ UNCHANGED seen
    BY <1>6 DEF GetValue, Aside
  <2>2. pc[t] = "get_value" /\ pc'[t] = "get_leave" /\ val'[t] = value[nx[t]]
    BY <1>6 DEF GetValue
  <2>3. value[nx[t]] \in seen[t]
    BY <2>2 DEF LineInv, Saw
  <2>4. CallOf(t) = [op |-> "get", val |-> Null]
        /\ CallOf(t)' = [op |-> "done", val |-> value[nx[t]]]
    BY <1>1, <2>2 DEF CallIs
  <2> QED
    BY <2>1, <2>3, <2>4, AsideAnswer
<1> QED
  BY <1>2, <1>3, <1>4, <1>5, <1>6

(* The pool takes a node back.                                             *)
LEMMA FifoReclaim ==
  ASSUME Inv, LineInv, TypeOK', NEW x \in Items, Reclaim(x)
  PROVE  [Fifo!Next]_Fifo!vars
<1>1. PICK s : Drawn(s)
  BY DEF LineInv
<1>2. /\ state[x] = "retired" /\ state' = [state EXCEPT ![x] = "free"]
      /\ UNCHANGED <<head, tail, next, value, pc, node, val, seen>>
  BY DEF Reclaim, Pool!Reclaim, listVars, locals
<1>3. IsLine(s)'
  <2>1. \A i \in 1 .. Len(s) : s[i] \in Items \ {x}
    BY <1>1, <1>2, LineFits DEF Drawn, IsLine, Inv
  <2> QED
    BY <1>1, <1>2, <2>1 DEF Drawn, IsLine, Inv, TypeOK
<1>4. Queue' = Queue
  BY <1>1, <1>2, <1>3, SameQueue DEF Drawn, Inv
<1>5. \A u \in Threads : CallOf(u)' = CallOf(u)
  BY <1>2, SameCall
<1> QED
  BY <1>2, <1>4, <1>5, FifoStutter

LEMMA FifoInit == Init => Fifo!Init
<1> SUFFICES ASSUME Init PROVE Fifo!Init
  OBVIOUS
<1>1. TypeOK /\ LineInv
  BY TypeInit, LineInit
<1>2. PICK s : IsLine(s)
  BY <1>1 DEF LineInv, Drawn
<1>3. Len(s) = 1
  <2>1. Len(s) \in Nat \ {0} /\ head = tail
    BY <1>1, <1>2, LineFits DEF Init
  <2>2. 1 \in 1 .. Len(s) /\ Len(s) \in 1 .. Len(s) /\ s[1] = s[Len(s)]
    BY <1>2, <2>1 DEF IsLine
  <2> QED
    BY <1>2, <2>2 DEF IsLine
<1>4. Queue = <<>>
  <2>1. Len(Queue) = 0 /\ Queue \in Seq(1 .. MaxPuts \cup {Null})
    BY <1>1, <1>2, <1>3, QueueOfLine DEF QueueIs
  <2> QED
    BY <2>1
<1>5. \A t \in Threads : CallOf(t) = Fifo!NoCall
  BY <1>1, InNoCall DEF Init, Rest
<1> QED
  BY <1>4, <1>5 DEF Fifo!Init, Init

LEMMA FifoStep == Inv /\ LineInv /\ [Next]_vars => [Fifo!Next]_Fifo!vars
<1> SUFFICES ASSUME Inv, LineInv, [Next]_vars PROVE [Fifo!Next]_Fifo!vars
  OBVIOUS
<1>1. TypeOK'
  BY TypeStep
<1>2. CASE UNCHANGED vars
  <2>1. Chain' = Chain
    BY <1>2 DEF Chain, vars, listVars
  <2>2. Queue' = Queue /\ seen' = seen
    BY <1>2, <2>1 DEF Queue, vars, listVars
  <2>3. \A u \in Threads : CallOf(u)' = CallOf(u)
    BY <1>1, <1>2, SameCall DEF vars, listVars, locals
  <2> QED
    BY <2>2, <2>3, FifoStutter
<1>3. ASSUME NEW t \in Threads, Work(t) PROVE [Fifo!Next]_Fifo!vars
  BY <1>1, <1>3, FifoPutQuiet, FifoDelQuiet, FifoGetQuiet, FifoPutLink, FifoMoveTail, FifoDelCas
     DEF Work
<1>4. ASSUME NEW t \in Threads, Call(t) PROVE [Fifo!Next]_Fifo!vars
  BY <1>1, <1>4, FifoPut, FifoDelQuiet, FifoGetQuiet DEF Call
<1> QED
  BY <1>1, <1>2, <1>3, <1>4, FifoReclaim DEF Next

(* The list implements AbFifo, its queue as Chain finds it, its calls as   *)
(* CallOf sees them: a put takes effect when tail moves over its node      *)
(* (ab_list.c:118 and 131), a delete at its CAS on head (ab_list.c:171),   *)
(* and an answer of "empty" or of ab_list_get was true at some moment      *)
(* between the start and the end of its call.                              *)
THEOREM ListIsFifo == Spec => FifoSpec
<1>1. Spec => [](Inv /\ LineInv)
  BY LineHolds
<1> QED
  BY <1>1, FifoInit, FifoStep, PTL DEF Spec, FifoSpec, Fifo!Spec

-----------------------------------------------------------------------------
(* The count.  Owed is what num would be, did nobody stand between its CAS *)
(* and its update of num; num is Owed, wrapped.                            *)

At(p) == {t \in Threads : pc[t] = p}
Linked == Len(Queue) + IF next[tail] = Null THEN 0 ELSE 1
Owed == Linked - Cardinality(At("put_num")) + Cardinality(At("del_num"))

Counted == \E k \in Int : Owed = num + NumMod * k

LEMMA AtCount == \A p : IsFiniteSet(At(p)) /\ Cardinality(At(p)) \in Nat
<1> SUFFICES ASSUME NEW p PROVE IsFiniteSet(At(p)) /\ Cardinality(At(p)) \in Nat
  OBVIOUS
<1>1. At(p) \in SUBSET Threads
  BY DEF At
<1> QED
  BY <1>1, ThreadAssumption, FS_Subset, FS_CardinalityType

(* A thread comes to a place, or leaves it.                                *)
LEMMA AtMoves ==
  ASSUME TypeOK, NEW t \in Threads, NEW to, pc' = [pc EXCEPT ![t] = to], NEW p
  PROVE  /\ pc[t] # p /\ to = p => Cardinality(At(p))' = Cardinality(At(p)) + 1
         /\ pc[t] = p /\ to # p => Cardinality(At(p))' = Cardinality(At(p)) - 1
<1>1. IsFiniteSet(At(p)) /\ Cardinality(At(p)) \in Nat
  BY AtCount
<1>2. CASE pc[t] # p /\ to = p
  <2>1. At(p)' = At(p) \cup {t} /\ t \notin At(p)
    BY <1>2 DEF At, TypeOK
  <2> QED
    BY <1>1, <1>2, <2>1, FS_AddElement
<1>3. CASE pc[t] = p /\ to # p
  <2>1. At(p)' = At(p) \ {t} /\ t \in At(p)
    BY <1>3 DEF At, TypeOK
  <2> QED
    BY <1>1, <1>3, <2>1, FS_RemoveElement
<1> QED
  BY <1>2, <1>3

(* The length of the queue.                                                *)
LEMMA LinkedIs ==
  \A s : TypeOK /\ IsLine(s) =>
    Len(Queue) = Len(s) - 1 /\ Len(s) \in Nat \ {0} /\ Linked \in Int
BY QueueOfLine, LineFits DEF QueueIs, Linked

LEMMA LinkedNextIs ==
  (\A s : TypeOK /\ IsLine(s) =>
     Len(Queue) = Len(s) - 1 /\ Len(s) \in Nat \ {0} /\ Linked \in Int)'
BY LinkedIs, PTL

(* A step that changes nothing that is counted.                            *)
LEMMA CountQuiet ==
  ASSUME Counted, UNCHANGED num, Linked' = Linked,
         At("put_num")' = At("put_num"), At("del_num")' = At("del_num")
  PROVE  Counted'
BY DEF Counted, Owed

(* The steps that only read.                                               *)
LEMMA CountReads ==
  ASSUME Inv, Counted, NEW t \in Threads,
         \/ PutEnter(t) \/ PutTail(t) \/ PutNext(t) \/ PutStale(t) \/ PutGoOn(t)
         \/ PutRetry(t) \/ PutLeave(t) \/ ((PutHelp(t) \/ PutSwing(t)) /\ tl[t] # tail)
         \/ Del(t) \/ DelHead(t) \/ DelTail(t) \/ DelNext(t) \/ DelStale(t) \/ DelEmpty(t)
         \/ DelGoOn(t) \/ DelValue(t) \/ DelRetry(t) \/ DelLeave(t)
         \/ Get(t) \/ GetHead(t) \/ GetNext(t) \/ GetAgain(t) \/ GetTail(t) \/ GetNone(t)
         \/ GetValue(t) \/ GetLeave(t)
  PROVE  Counted'
<1>1. UNCHANGED <<head, tail, num, next, value>>
  BY DEF PutEnter, PutTail, PutNext, PutStale, PutGoOn, PutRetry, PutLeave, PutHelp, PutSwing,
         MoveTail, Del, DelHead, DelTail, DelNext, DelStale, DelEmpty, DelGoOn, DelValue,
         DelRetry, DelLeave, Get, GetHead, GetNext, GetAgain, GetTail, GetNone, GetValue,
         GetLeave, listVars
<1>2. \E to : /\ pc' = [pc EXCEPT ![t] = to]
              /\ {pc[t], to} \cap {"put_num", "del_num"} = {}

  <2> USE DEF Goto, Begin, Rest
  <2>1. CASE PutEnter(t) \/ PutTail(t) \/ PutNext(t) \/ PutStale(t) \/ PutGoOn(t)
             \/ PutRetry(t) \/ PutLeave(t) \/ PutHelp(t) \/ PutSwing(t)
    BY <2>1 DEF PutEnter, PutTail, PutNext, PutStale, PutGoOn, PutRetry, PutLeave, PutHelp,
                PutSwing
  <2>2. CASE \/ Del(t) \/ DelHead(t) \/ DelTail(t) \/ DelNext(t) \/ DelStale(t) \/ DelEmpty(t)
             \/ DelGoOn(t) \/ DelValue(t) \/ DelRetry(t) \/ DelLeave(t)
    BY <2>2 DEF Del, DelHead, DelTail, DelNext, DelStale, DelEmpty, DelGoOn, DelValue,
                DelRetry, DelLeave
  <2>3. CASE \/ Get(t) \/ GetHead(t) \/ GetNext(t) \/ GetAgain(t) \/ GetTail(t) \/ GetNone(t)
             \/ GetValue(t) \/ GetLeave(t)
    BY <2>3 DEF Get, GetHead, GetNext, GetAgain, GetTail, GetNone, GetValue, GetLeave
  <2> QED
    BY <2>1, <2>2, <2>3
<1>3. At("put_num")' = At("put_num") /\ At("del_num")' = At("del_num")
  BY <1>2 DEF At, Inv, TypeOK
<1>4. Linked' = Linked
  BY <1>1 DEF Linked, Queue, Chain
<1> QED
  BY <1>1, <1>3, <1>4, CountQuiet

(* A new node is not in the line.                                          *)
LEMMA CountPut ==
  ASSUME Inv, LineInv, TypeOK', Counted, NEW t \in Threads, Put(t)
  PROVE  Counted'
<1>1. PICK n \in Items :
        /\ state[n] = "free" /\ state' = [state EXCEPT ![n] = "linked"]
        /\ next' = [next EXCEPT ![n] = Null]
        /\ pc[t] \in Rest /\ pc' = [pc EXCEPT ![t] = "put_enter"]
        /\ UNCHANGED <<head, tail, num>>
  BY DEF Put, Begin, Pool!Publish
<1>2. PICK s : IsLine(s)
  BY DEF LineInv, Drawn
<1>3. IsLine(s)' /\ tail # n
  <2>1. \A i \in 1 .. Len(s) : s[i] \in Items \ {n}
    BY <1>1, <1>2, LineFits DEF IsLine, Inv
  <2>2. \A i \in 1 .. Len(s) - 1 : i \in 1 .. Len(s)
    BY <1>2, LineFits DEF Inv
  <2> QED
    BY <1>1, <1>2, <2>1, <2>2 DEF IsLine, Inv, TypeOK, Lined
<1>4. Len(Queue)' = Len(Queue)
  BY <1>2, <1>3, LinkedIs, LinkedNextIs DEF Inv
<1>5. Linked' = Linked
  BY <1>1, <1>3, <1>4 DEF Linked, Inv, TypeOK
<1>6. At("put_num")' = At("put_num") /\ At("del_num")' = At("del_num")
  BY <1>1 DEF At, Rest, Inv, TypeOK
<1> QED
  BY <1>1, <1>5, <1>6, CountQuiet

LEMMA CountReclaim ==
  ASSUME Counted, NEW x \in Items, Reclaim(x)
  PROVE  Counted'
<1>1. Linked' = Linked
  BY DEF Reclaim, listVars, Linked, Queue, Chain
<1> QED
  BY <1>1, CountQuiet DEF Reclaim, listVars, At

(* A node is linked: one more, and a thread that has yet to count it. *)
LEMMA CountPutLink ==
  ASSUME Inv, LineInv, TypeOK', Counted, NEW t \in Threads, PutLink(t)
  PROVE  Counted'
<1> DEFINE n == node[t]
<1>1. /\ next[tl[t]] = Null /\ next' = [next EXCEPT ![tl[t]] = n]
      /\ pc[t] = "put_link" /\ pc' = [pc EXCEPT ![t] = "put_num"]
      /\ UNCHANGED <<state, head, tail, num>>
  BY DEF PutLink, Goto, poolVars
<1>2. tl[t] = tail
  BY PutsAtTail
<1>3. PICK s : IsLine(s)
  BY DEF LineInv, Drawn
<1>4. IsLine(s)'
  <2>1. \A i \in 1 .. Len(s) - 1 : i \in 1 .. Len(s) /\ s[i] \in Items \ {tail}
    BY <1>3, LineFits DEF IsLine, Inv
  <2> QED
    BY <1>1, <1>2, <1>3, <2>1 DEF IsLine, Inv, TypeOK
<1>5. next[tail] = Null /\ next'[tail'] # Null
  BY <1>1, <1>2 DEF Inv, TypeOK, LineInv, Owns, PutPCs
<1>6. Linked' = Linked + 1 /\ Linked \in Int
  <2>1. TypeOK
    BY DEF Inv
  <2>2. Len(Queue) = Len(s) - 1 /\ Len(s) \in Nat \ {0}
    BY <2>1, <1>3, LinkedIs
  <2>3. Len(Queue)' = Len(s) - 1
    BY <1>4, LinkedNextIs
  <2> QED
    BY <1>5, <2>2, <2>3 DEF Linked
<1>7. /\ Cardinality(At("put_num"))' = Cardinality(At("put_num")) + 1
      /\ Cardinality(At("del_num"))' = Cardinality(At("del_num"))
  <2>1. TypeOK
    BY DEF Inv
  <2>2. Cardinality(At("put_num"))' = Cardinality(At("put_num")) + 1
    BY <1>1, <2>1, AtMoves
  <2>3. At("del_num")' = At("del_num")
    BY <1>1, <2>1 DEF At, TypeOK
  <2> QED
    BY <2>2, <2>3
<1>8. Owed' = Owed
  BY <1>6, <1>7, AtCount DEF Owed
<1> QED
  BY <1>1, <1>8 DEF Counted

(* tail moves over the node that was counted as linked behind it. *)
LEMMA CountMoveTail ==
  ASSUME Inv, LineInv, TypeOK', Counted, NEW t \in Threads,
         PutHelp(t) \/ PutSwing(t), tl[t] = tail
  PROVE  Counted'
<1>1. PICK m \in Items :
        next[tail] = m /\ tail' = m /\ \A s : IsLine(s) => IsLine(Append(s, m))'
  BY LineMoveTail
<1>2. /\ UNCHANGED <<next, num>>
      /\ \E to : pc' = [pc EXCEPT ![t] = to] /\ {pc[t], to} \cap {"put_num", "del_num"} = {}
  BY DEF PutHelp, PutSwing, Goto, MoveTail
<1>3. next[tail] # Null /\ next'[tail'] = Null
  BY <1>1, <1>2, ItemAssumption DEF LineInv, Drawn
<1>4. PICK s : IsLine(s)
  BY DEF LineInv, Drawn
<1>5. Len(Append(s, m)) = Len(s) + 1
  BY <1>1, <1>4, AppendProperties DEF IsLine
<1>6. Linked' = Linked
  <2>1. TypeOK
    BY DEF Inv
  <2>2. Len(Queue) = Len(s) - 1 /\ Len(s) \in Nat \ {0}
    BY <2>1, <1>4, LinkedIs
  <2>3. Len(Queue)' = Len(Append(s, m)) - 1
    BY <1>1, <1>4, LinkedNextIs
  <2> QED
    BY <1>3, <1>5, <2>2, <2>3 DEF Linked
<1>7. At("put_num")' = At("put_num") /\ At("del_num")' = At("del_num")
  BY <1>2 DEF At, Inv, TypeOK
<1> QED
  BY <1>2, <1>6, <1>7, CountQuiet

(* A node is unlinked: one less, and a thread that has yet to count it. *)
LEMMA CountDelCas ==
  ASSUME Inv, LineInv, TypeOK', Counted, NEW t \in Threads, DelCas(t)
  PROVE  Counted'
<1>1. /\ pc[t] = "del_cas" /\ pc' = [pc EXCEPT ![t] = "del_num"]
      /\ UNCHANGED <<tail, next, num>>
  BY DEF DelCas, Goto
<1>2. PICK s : IsLine(s)
  BY DEF LineInv, Drawn
<1>3. Len(s) > 1 /\ IsLine(Tail(s))'
  BY <1>2, LineDelCas
<1>4. Len(s) \in Nat /\ Len(Tail(s)) = Len(s) - 1
  BY <1>2, <1>3, LineFits, HeadTailProperties DEF Inv, IsLine
<1>5. Linked' = Linked - 1 /\ Linked \in Int
  <2>1. TypeOK
    BY DEF Inv
  <2>2. Len(Queue) = Len(s) - 1 /\ Len(s) \in Nat \ {0}
    BY <2>1, <1>2, LinkedIs
  <2>3. Len(Queue)' = Len(Tail(s)) - 1
    BY <1>3, LinkedNextIs
  <2> QED
    BY <1>1, <1>4, <2>2, <2>3 DEF Linked
<1>6. /\ Cardinality(At("put_num"))' = Cardinality(At("put_num"))
      /\ Cardinality(At("del_num"))' = Cardinality(At("del_num")) + 1
  <2>1. TypeOK
    BY DEF Inv
  <2>2. Cardinality(At("del_num"))' = Cardinality(At("del_num")) + 1
    BY <1>1, <2>1, AtMoves
  <2>3. At("put_num")' = At("put_num")
    BY <1>1, <2>1 DEF At, TypeOK
  <2> QED
    BY <2>2, <2>3
<1>7. Owed' = Owed
  BY <1>5, <1>6, AtCount DEF Owed
<1> QED
  BY <1>1, <1>7 DEF Counted

(* num itself is counted up or down, and may wrap. *)
LEMMA CountNum ==
  ASSUME Inv, LineInv, Counted, NEW t \in Threads, PutNum(t) \/ DelNum(t)
  PROVE  Counted'
<1>1. PICK s : IsLine(s)
  BY DEF LineInv, Drawn
<1>2. Linked \in Int /\ num \in Int
  BY <1>1, LinkedIs DEF Inv, TypeOK
<1>3. Linked' = Linked
  <2>1. UNCHANGED <<head, tail, next, value>>
    BY DEF PutNum, DelNum
  <2> QED
    BY <2>1 DEF Linked, Queue, Chain
<1>4. PICK k \in Int : Owed = num + NumMod * k
  BY DEF Counted
<1>5. \A c \in Int : \E j \in Int : c = (c % NumMod) + NumMod * j
  <2> SUFFICES ASSUME NEW c \in Int PROVE \E j \in Int : c = (c % NumMod) + NumMod * j
    OBVIOUS
  <2>1. c \div NumMod \in Int /\ c = (c % NumMod) + NumMod * (c \div NumMod)
    BY NumAssumption
  <2> QED
    BY <2>1
<1>6. CASE PutNum(t)
  <2>1. pc[t] = "put_num" /\ pc' = [pc EXCEPT ![t] = "put_swing"] /\ num' = (num + 1) % NumMod
    BY <1>6 DEF PutNum, Goto
  <2>2. /\ Cardinality(At("put_num"))' = Cardinality(At("put_num")) - 1
        /\ Cardinality(At("del_num"))' = Cardinality(At("del_num"))
    <3>1. TypeOK
      BY DEF Inv
    <3>2. Cardinality(At("put_num"))' = Cardinality(At("put_num")) - 1
      BY <2>1, <3>1, AtMoves
    <3>3. At("del_num")' = At("del_num")
      BY <2>1, <3>1 DEF At, TypeOK
    <3> QED
      BY <3>2, <3>3
  <2>3. Owed' = Owed + 1
    BY <1>2, <1>3, <2>2, AtCount DEF Owed
  <2>4. PICK j \in Int : num + 1 = num' + NumMod * j
    BY <1>2, <1>5, <2>1
  <2>5. Owed' = num' + NumMod * (j + k)
    BY <1>2, <1>4, <2>1, <2>3, <2>4, NumAssumption
  <2> QED
    BY <2>5 DEF Counted
<1>7. CASE DelNum(t)
  <2>1. pc[t] = "del_num" /\ pc' = [pc EXCEPT ![t] = "del_leave"] /\ num' = (num - 1) % NumMod
    BY <1>7 DEF DelNum, Goto
  <2>2. /\ Cardinality(At("put_num"))' = Cardinality(At("put_num"))
        /\ Cardinality(At("del_num"))' = Cardinality(At("del_num")) - 1
    <3>1. TypeOK
      BY DEF Inv
    <3>2. At("put_num")' = At("put_num")
      BY <2>1, <3>1 DEF At, TypeOK
    <3>3. Cardinality(At("del_num"))' = Cardinality(At("del_num")) - 1
      BY <2>1, <3>1, AtMoves
    <3> QED
      BY <3>2, <3>3
  <2>3. Owed' = Owed - 1
    BY <1>2, <1>3, <2>2, AtCount DEF Owed
  <2>4. PICK j \in Int : num - 1 = num' + NumMod * j
    BY <1>2, <1>5, <2>1
  <2>5. Owed' = num' + NumMod * (j + k)
    BY <1>2, <1>4, <2>1, <2>3, <2>4, NumAssumption
  <2> QED
    BY <2>5 DEF Counted
<1> QED
  BY <1>6, <1>7

LEMMA CountInit == Init => Counted
<1> SUFFICES ASSUME Init PROVE Counted
  OBVIOUS
<1>1. Queue = <<>>
  BY FifoInit DEF Fifo!Init
<1>2. At("put_num") = {} /\ At("del_num") = {}
  BY DEF Init, At
<1>3. num = 0 /\ next[tail] = Null
  BY DEF Init
<1>4. Owed = num + NumMod * 0
  <2>1. Cardinality(At("put_num")) = 0 /\ Cardinality(At("del_num")) = 0
    BY <1>2, FS_EmptySet
  <2>2. Linked = 0
    BY <1>1, <1>3 DEF Linked
  <2> QED
    BY <1>3, <2>1, <2>2, NumAssumption DEF Owed
<1> QED
  BY <1>4 DEF Counted

LEMMA CountStep == Inv /\ LineInv /\ Counted /\ [Next]_vars => Counted'
<1> SUFFICES ASSUME Inv, LineInv, Counted, [Next]_vars PROVE Counted'
  OBVIOUS
<1>1. TypeOK'
  BY TypeStep
<1>2. CASE UNCHANGED vars
  <2>1. Linked' = Linked
    BY <1>2 DEF Chain, Queue, Linked, vars, listVars
  <2> QED
    BY <1>2, <2>1, CountQuiet DEF vars, listVars, At
<1>3. ASSUME NEW t \in Threads, Work(t) PROVE Counted'
  <2>1. CASE PutLink(t)
    BY <1>1, <2>1, CountPutLink
  <2>2. CASE (PutHelp(t) \/ PutSwing(t)) /\ tl[t] = tail
    BY <1>1, <2>2, CountMoveTail
  <2>3. CASE DelCas(t)
    BY <1>1, <2>3, CountDelCas
  <2>4. CASE PutNum(t) \/ DelNum(t)
    BY <2>4, CountNum
  <2>5. CASE \/ PutEnter(t) \/ PutTail(t) \/ PutNext(t) \/ PutStale(t) \/ PutGoOn(t)
             \/ PutRetry(t) \/ PutLeave(t) \/ ((PutHelp(t) \/ PutSwing(t)) /\ tl[t] # tail)
             \/ DelHead(t) \/ DelTail(t) \/ DelNext(t) \/ DelStale(t) \/ DelEmpty(t)
             \/ DelGoOn(t) \/ DelValue(t) \/ DelRetry(t) \/ DelLeave(t)
             \/ GetHead(t) \/ GetNext(t) \/ GetAgain(t) \/ GetTail(t) \/ GetNone(t)
             \/ GetValue(t) \/ GetLeave(t)
    BY <2>5, CountReads
  <2> QED
    BY <1>3, <2>1, <2>2, <2>3, <2>4, <2>5 DEF Work
<1>4. ASSUME NEW t \in Threads, Call(t) PROVE Counted'
  BY <1>1, <1>4, CountPut, CountReads DEF Call
<1> QED
  BY <1>1, <1>2, <1>3, <1>4, CountReclaim DEF Next

LEMMA WholeNow == Inv /\ LineInv /\ Counted => QueueWhole
<1> SUFFICES ASSUME Inv, LineInv, Counted PROVE QueueWhole
  OBVIOUS
<1>1. PICK s : Drawn(s)
  BY DEF LineInv
<1>2. Chain = s /\ Len(s) \in Nat \ {0}
  BY <1>1, ChainIsLine, LineFits DEF Drawn, Inv
<1>3. TailNear
  BY <1>1, <1>2 DEF TailNear, Drawn, IsLine
<1>4. PICK k \in Int : Owed = num + NumMod * k
  BY DEF Counted
<1>5. Owed % NumMod = num
  BY <1>4, TurnsOff, NumAssumption DEF Inv, TypeOK
<1>6. NumExact
  BY <1>5 DEF NumExact, Owed, Linked, At
<1> QED
  BY <1>3, <1>6 DEF QueueWhole

(* tail is at most one node behind (ab_list.c:115), the nodes of the queue *)
(* are none of the pool's, and num differs from their number by the calls  *)
(* between their CAS and their update of num only (ab_list.c:125, 173),    *)
(* though it may wrap below zero.                                          *)
THEOREM WholeQueue == Spec => []QueueWhole
BY LineHolds, CountInit, CountStep, WholeNow, PTL DEF Spec
=============================================================================
