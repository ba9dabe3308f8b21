----------------------------- MODULE AbBufProofs -----------------------------
(***************************************************************************)
(* The properties of AbBuf for any number of threads, items, keys and      *)
(* indexes.  The word `updating` gives a value to one put or delete at a   *)
(* time (OneOwner); with that, types are kept, a value is in every index   *)
(* or in none (ValueWhole), a call works on the value it has read          *)
(* (NoStaleValue), and a get of several values misses and repeats none     *)
(* (MultiGet).  The last three are for buffers whose list, if they have    *)
(* one, is their only index.                                               *)
(* At the end: what the comparison of keys in AbBufCmp gets right, and     *)
(* what writing to the buffer of AbJsBuf keeps.                            *)
(***************************************************************************)
EXTENDS AbBuf, AbBufCmp, AbJsBuf, AbInduct, SequenceTheorems, TLAPS

OwnPCs == {"put_index", "put_incr", "put_undo", "put_done", "del_index", "del_free"}
HoldPCs == OwnPCs \cup {"put_free"}
PCs == {"idle"} \cup PutPCs \cup GetPCs \cup DelPCs

Types ==
  /\ pc \in [Threads -> PCs]
  /\ val \in [Threads -> Items \cup {Null}]
  /\ \A t \in Threads : pc[t] \in HoldPCs \cup {"del_cas"} => val[t] \in Items
  /\ updating \in [Items -> Int]
  /\ state \in [Items -> {"free", "linked", "retired"}]
  /\ DOMAIN call = Threads /\ \A t \in Threads : call[t].id \in DOMAIN index

IndexTypes ==
  /\ DOMAIN index = DOMAIN kinds /\ 1 \in DOMAIN kinds
  /\ \A i \in DOMAIN kinds : kinds[i] \in {"uniq", "dupl", "list"}
  /\ \A i \in DOMAIN index : \A e \in index[i] : e.val \in Items

(* A value that a thread is putting or deleting is marked and linked.      *)
Owned ==
  \A t \in Threads : pc[t] \in OwnPCs => updating[val[t]] = 1 /\ state[val[t]] = "linked"

(* One that a put has taken back and not freed yet is linked.              *)
TakenBack ==
  \A t \in Threads : pc[t] = "put_free" => val[t] \in undone /\ state[val[t]] = "linked"

Apart ==
  \A t, u \in Threads : pc[t] \in HoldPCs /\ pc[u] \in HoldPCs /\ val[t] = val[u] => t = u

Fresh(x) ==
  /\ \A t \in Threads : val[t] # x
  /\ \A i \in DOMAIN index : \A e \in index[i] : e.val # x

(* An item that is not linked cannot be won by a CAS: it keeps the mark of *)
(* its delete, or its put took it back, or nobody ever saw it.             *)
Unlinked ==
  \A x \in Items : state[x] = "linked" \/ updating[x] = 1 \/ x \in undone \/ Fresh(x)

Inv == Types /\ IndexTypes /\ (~astray => Owned /\ TakenBack /\ Apart /\ Unlinked)

(* What the initial state says of the indexes, with the items behind it.   *)
LEMMA InvInit == Init => Inv
<1> SUFFICES ASSUME Init PROVE Inv
  OBVIOUS
<1>1. 1 \in DOMAIN kinds /\ \A i \in DOMAIN kinds : kinds[i] \in {"uniq", "dupl", "list"}
  BY KindAssumption DEF Init
<1>2. PICK h \in Held :
        /\ index = [i \in Indexes |-> {Entry(h[n][kinds[i]],
                      IF kinds[i] = "uniq" THEN 0 ELSE n, h[n].val) : n \in DOMAIN h}]
        /\ state = [x \in Items |->
                      IF x \in {h[n].val : n \in DOMAIN h} THEN "linked" ELSE "free"]
  BY Zenon DEF Init
<1>3. \A i \in DOMAIN index : \A e \in index[i] : \E n \in DOMAIN h : e.val = h[n].val
  BY <1>2 DEF Entry
<1>4. Types
  BY <1>1, <1>2 DEF Init, Types, PCs, HoldPCs, OwnPCs, NoCall, Indexes
<1>5. IndexTypes
  <2>1. \A n \in DOMAIN h : h[n].val \in Items
    BY HeldAssumption
  <2>2. \A i \in DOMAIN index : \A e \in index[i] : e.val \in Items
    BY <1>3, <2>1
  <2>3. DOMAIN index = DOMAIN kinds
    BY <1>2 DEF Indexes
  <2> QED
    BY <1>1, <2>2, <2>3 DEF IndexTypes
<1>6. Owned /\ TakenBack /\ Apart
  BY DEF Init, Owned, TakenBack, Apart, HoldPCs, OwnPCs
<1>7. Unlinked
  <2> SUFFICES ASSUME NEW x \in Items, state[x] # "linked" PROVE Fresh(x)
    BY DEF Unlinked
  <2>1. \A n \in DOMAIN h : h[n].val # x
    BY <1>2
  <2>2. \A t \in Threads : val[t] # x
    BY NullAssumption DEF Init
  <2> QED
    BY <1>3, <2>1, <2>2 DEF Fresh
<1> QED
  BY <1>4, <1>5, <1>6, <1>7 DEF Inv

(* A get finds what the index holds. *)
LEMMA FoundIn ==
  ASSUME IndexTypes, NEW i \in DOMAIN index, NEW k, NEW n
  PROVE  \A e \in Found(i, k, n) : e \in index[i]
BY DEF IndexTypes, Found, Hits

(* A step of t that leaves marks, items and history alone, and ends where  *)
(* no value is held, or goes on with the one it holds.  What it adds to an *)
(* index or takes as its value is known already.                           *)
LEMMA Frame ==
  ASSUME Inv, NEW t \in Threads, NEW to \in PCs,
         pc' = [pc EXCEPT ![t] = to],
         UNCHANGED <<kinds, state, updating, undone, astray>>,
         to \in HoldPCs => to # "put_free" /\ pc[t] \in OwnPCs /\ val' = val,
         \/ val' = val /\ (to = "del_cas" => val[t] \in Items)
         \/ /\ to # "del_cas"
            /\ val' = [val EXCEPT ![t] = Null]
         \/ \E i \in DOMAIN index : \E e \in index[i] : val' = [val EXCEPT ![t] = e.val],
         DOMAIN call' = Threads, \A u \in Threads : call'[u].id \in DOMAIN index,
         DOMAIN index' = DOMAIN index,
         \A i \in DOMAIN index : \A e \in index'[i] :
           e \in index[i] \/ (e.val = val[t] /\ pc[t] \in OwnPCs)
  PROVE  Inv'
<1>1. IndexTypes'
  BY DEF Inv, IndexTypes, Types, HoldPCs
<1>2. Types'
  <2>1. val' \in [Threads -> Items \cup {Null}]
    BY DEF Inv, Types, IndexTypes
  <2>2. \A u \in Threads : pc'[u] \in HoldPCs \cup {"del_cas"} => val'[u] \in Items
    <3> SUFFICES ASSUME NEW u \in Threads, pc'[u] \in HoldPCs \cup {"del_cas"}
                 PROVE  val'[u] \in Items
      OBVIOUS
    <3>1. CASE u # t
      BY <3>1 DEF Inv, Types
    <3>2. CASE u = t
      BY <3>2 DEF Inv, Types, IndexTypes, HoldPCs
    <3> QED
      BY <3>1, <3>2
  <2> QED
    BY <2>1, <2>2 DEF Inv, Types
<1>3. ASSUME ~astray PROVE (Owned /\ TakenBack /\ Apart)'
  BY <1>3 DEF Inv, Types, Owned, TakenBack, Apart, HoldPCs, OwnPCs
<1>4. ASSUME ~astray PROVE Unlinked'
  <2> SUFFICES ASSUME NEW x \in Items, Fresh(x) PROVE Fresh(x)'
    BY <1>4 DEF Inv, Unlinked
  <2>1. \A u \in Threads : val'[u] # x
    BY NullAssumption DEF Fresh, Inv, Types
  <2>2. \A i \in DOMAIN index' : \A e \in index'[i] : e.val # x
    BY DEF Fresh
  <2> QED
    BY <2>1, <2>2 DEF Fresh
<1> QED
  BY <1>1, <1>2, <1>3, <1>4 DEF Inv

-----------------------------------------------------------------------------
(* The steps that change a mark, an item or the history.                   *)
LEMMA StepPutAlloc ==
  ASSUME Inv, NEW t \in Threads, PutAlloc(t)
  PROVE  Inv'
<1>1. PICK x \in Items :
        /\ state[x] = "free" /\ state' = [state EXCEPT ![x] = "linked"]
        /\ updating' = [updating EXCEPT ![x] = 1]
        /\ val' = [val EXCEPT ![t] = x]
        /\ undone' = undone \ {x}
  BY DEF PutAlloc, Pool!Publish
<1>2. /\ pc[t] = "put_alloc" /\ pc' = [pc EXCEPT ![t] = "put_index"]
      /\ UNCHANGED <<kinds, index, call, astray>>
  BY DEF PutAlloc, Goto, bufVars
<1>3. Types' /\ IndexTypes'
  BY <1>1, <1>2 DEF Inv, Types, IndexTypes, PCs, PutPCs, HoldPCs, OwnPCs
<1>4. ASSUME ~astray PROVE (Owned /\ TakenBack /\ Apart)'
  <2>1. \A u \in Threads : pc[u] \in HoldPCs => val[u] \in Items /\ val[u] # x
    BY <1>1, <1>4 DEF Inv, Types, Owned, TakenBack, HoldPCs
  <2>2. Owned'
    BY <1>1, <1>2, <1>4, <2>1 DEF Inv, Types, Owned, HoldPCs
  <2>3. TakenBack'
    BY <1>1, <1>2, <1>4, <2>1 DEF Inv, Types, TakenBack, HoldPCs
  <2>4. Apart'
    BY <1>1, <1>2, <1>4, <2>1 DEF Inv, Types, Apart
  <2> QED
    BY <2>2, <2>3, <2>4
<1>5. ASSUME ~astray PROVE Unlinked'
  BY <1>1, <1>2, <1>5 DEF Inv, Types, Unlinked, Fresh
<1> QED
  BY <1>2, <1>3, <1>4, <1>5 DEF Inv

(* The put takes its mark off: when all is put, or when all is taken back. *)
LEMMA StepPutUnmark ==
  ASSUME Inv, NEW t \in Threads, PutUnlock(t) \/ PutDone(t)
  PROVE  Inv'
<1>1. /\ pc[t] \in OwnPCs /\ pc' = [pc EXCEPT ![t] = IF pc[t] = "put_undo" THEN "put_free" ELSE "put_leave"]
      /\ updating' = [updating EXCEPT ![val[t]] = @ - 1]
      /\ undone' = (IF pc[t] = "put_undo" THEN undone \cup {val[t]} ELSE undone)
      /\ UNCHANGED <<kinds, index, state, call, val, astray>>
  BY DEF Inv, Types, PutUnlock, PutDone, Goto, OwnPCs, bufVars, poolVars, locals, history
<1>2. Types' /\ IndexTypes'
  BY <1>1 DEF Inv, Types, IndexTypes, PCs, PutPCs, HoldPCs, OwnPCs
<1>3. ASSUME ~astray PROVE (Owned /\ TakenBack /\ Apart)'
  <2>1. \A u \in Threads : pc[u] \in HoldPCs /\ u # t => val[u] # val[t]
    BY <1>1, <1>3 DEF Inv, Apart, HoldPCs
  <2>2. Owned'
    BY <1>1, <1>3, <2>1 DEF Inv, Types, Owned, HoldPCs, OwnPCs
  <2>3. TakenBack'
    BY <1>1, <1>3 DEF Inv, Types, Owned, TakenBack
  <2>4. Apart'
    BY <1>1, <1>3 DEF Inv, Types, Apart, HoldPCs, OwnPCs
  <2> QED
    BY <2>2, <2>3, <2>4
<1>4. ASSUME ~astray PROVE Unlinked'
  BY <1>1, <1>4 DEF Inv, Types, Owned, Unlinked, Fresh
<1> QED
  BY <1>1, <1>2, <1>3, <1>4 DEF Inv

(* The item goes back: what was taken back stays so, what was deleted      *)
(* keeps its mark.                                                         *)
LEMMA StepFree ==
  ASSUME Inv, NEW t \in Threads, PutFree(t) \/ DelFree(t)
  PROVE  Inv'
<1>1. /\ pc[t] \in HoldPCs /\ \E to \in {"put_leave", "del_leave"} : pc' = [pc EXCEPT ![t] = to]
      /\ state' = [state EXCEPT ![val[t]] = "retired"]
      /\ UNCHANGED <<kinds, index, updating, call, val, astray, undone>>
  BY DEF Inv, Types, PutFree, DelFree, Goto, HoldPCs, OwnPCs, Pool!Retire, bufVars, valVars, locals, history
<1>2. Types' /\ IndexTypes'
  BY <1>1 DEF Inv, Types, IndexTypes, PCs, PutPCs, DelPCs, HoldPCs, OwnPCs
<1>3. ASSUME ~astray PROVE (Owned /\ TakenBack /\ Apart)'
  <2>1. \A u \in Threads : pc[u] \in HoldPCs /\ u # t => val[u] # val[t]
    BY <1>1, <1>3 DEF Inv, Apart
  <2>2. Owned'
    BY <1>1, <1>3, <2>1 DEF Inv, Types, Owned, HoldPCs, OwnPCs
  <2>3. TakenBack'
    BY <1>1, <1>3, <2>1 DEF Inv, Types, TakenBack, HoldPCs
  <2>4. Apart'
    BY <1>1, <1>3 DEF Inv, Types, Apart, HoldPCs, OwnPCs
  <2> QED
    BY <2>2, <2>3, <2>4
<1>4. ASSUME ~astray PROVE Unlinked'
  BY <1>1, <1>4 DEF Inv, Types, Owned, TakenBack, Unlinked, Fresh, HoldPCs
<1> QED
  BY <1>1, <1>2, <1>3, <1>4 DEF Inv

(* A delete wins the CAS: nobody has the value, and as its put has not     *)
(* taken it back, it is linked.                                            *)
LEMMA StepDelCas ==
  ASSUME Inv, NEW t \in Threads, DelCas(t)
  PROVE  Inv'
<1>1. /\ pc[t] = "del_cas" /\ pc' = [pc EXCEPT ![t] = "del_index"]
      /\ updating[val[t]] = 0 /\ updating' = [updating EXCEPT ![val[t]] = 1]
      /\ astray' = (astray \/ val[t] \in undone)
      /\ UNCHANGED <<kinds, index, state, call, val, undone>>
  BY DEF DelCas, Goto, bufVars, poolVars, locals
<1>2. Types' /\ IndexTypes'
  BY <1>1 DEF Inv, Types, IndexTypes, PCs, DelPCs, HoldPCs, OwnPCs
<1>3. ASSUME ~astray' PROVE (Owned /\ TakenBack /\ Apart)'
  <2>1. ~astray /\ val[t] \notin undone
    BY <1>1, <1>3
  <2>2. \A u \in Threads : pc[u] \in HoldPCs => val[u] # val[t]
    BY <1>1, <2>1 DEF Inv, Owned, TakenBack, HoldPCs
  <2>3. val[t] \in Items /\ state[val[t]] = "linked"
    BY <1>1, <2>1 DEF Inv, Types, Unlinked, Fresh
  <2>4. Owned'
    BY <1>1, <2>1, <2>2, <2>3 DEF Inv, Types, Owned, HoldPCs
  <2>5. TakenBack'
    BY <1>1, <2>1 DEF Inv, Types, TakenBack
  <2>6. Apart'
    BY <1>1, <2>1, <2>2 DEF Inv, Types, Apart
  <2> QED
    BY <2>4, <2>5, <2>6
<1>4. ASSUME ~astray' PROVE Unlinked'
  BY <1>1, <1>4 DEF Inv, Types, Unlinked, Fresh
<1> QED
  BY <1>2, <1>3, <1>4 DEF Inv

(* The pool hands out only what nobody has.                                *)
LEMMA StepReclaim ==
  ASSUME Inv, NEW x \in Items, Reclaim(x)
  PROVE  Inv'
<1>1. /\ state[x] = "retired" /\ state' = [state EXCEPT ![x] = "free"]
      /\ UNCHANGED <<kinds, index, updating, call, val, pc, astray, undone>>
  BY DEF Reclaim, Pool!Reclaim, bufVars, valVars, locals, history
<1>2. Types' /\ IndexTypes'
  BY <1>1 DEF Inv, Types, IndexTypes
<1>3. ASSUME ~astray PROVE (Owned /\ TakenBack /\ Apart)'
  BY <1>1, <1>3 DEF Inv, Types, Owned, TakenBack, Apart, HoldPCs
<1>4. ASSUME ~astray PROVE Unlinked'
  BY <1>1, <1>4 DEF Inv, Types, Unlinked, Fresh
<1> QED
  BY <1>1, <1>2, <1>3, <1>4 DEF Inv

-----------------------------------------------------------------------------
(* All other steps are of the form Frame.                                  *)
LEMMA StepPutQuiet ==
  ASSUME Inv, NEW t \in Threads,
         \/ PutEnter(t) \/ Make(t) \/ Made(t) \/ MakeFails(t) \/ AllocFails(t) \/ PutNone(t)
         \/ PutIndex(t) \/ PutIncr(t) \/ PutRefused(t) \/ PutUndo(t) \/ PutLeave(t)
  PROVE  Inv'
<1> USE DEF PCs, PutPCs, HoldPCs, OwnPCs, Goto, Inv, Types
<1>1. CASE PutEnter(t)
  BY <1>1, Frame
  DEF PutEnter, EnterEpoch, Pool!Enter, Pool!Reenter, bufVars, valVars, locals, history
<1>2. CASE Make(t) \/ Made(t)
  BY <1>2, Frame DEF Make, Made, bufVars, valVars, locals, history
<1>3. CASE MakeFails(t)
  BY <1>3, Frame DEF MakeFails, bufVars, valVars, locals, history
<1>4. CASE AllocFails(t)
  BY <1>4, Frame DEF AllocFails, Forget, NoCall, IndexTypes, bufVars, valVars
<1>5. CASE PutNone(t)
  BY <1>5, Frame DEF PutNone, Forget, NoCall, IndexTypes, bufVars, poolVars, valVars
<1>6. CASE PutIndex(t)
  <2>1. PICK to \in {"put_incr", "put_done", "put_index"} : pc' = [pc EXCEPT ![t] = to]
    BY <1>6 DEF PutIndex, Onward
  <2>2. \A i \in DOMAIN index : \A e \in index'[i] : e \in index[i] \/ e.val = val[t]
    BY <1>6 DEF PutIndex, Entry
  <2> QED
    BY <1>6, <2>1, <2>2, Frame DEF PutIndex, poolVars, valVars, history
<1>7. CASE PutIncr(t)
  <2>1. PICK to \in {"put_done", "put_index"} : pc' = [pc EXCEPT ![t] = to]
    BY <1>7 DEF PutIncr, Onward
  <2> QED
    BY <1>7, <2>1, Frame DEF PutIncr, bufVars, poolVars, history
<1>8. CASE PutRefused(t)
  BY <1>8, Frame DEF PutRefused, bufVars, poolVars, valVars, history
<1>9. CASE PutUndo(t)
  <2>1. pc' = [pc EXCEPT ![t] = "put_undo"]
    BY <1>9 DEF PutUndo
  <2> QED
    BY <1>9, <2>1, Frame DEF PutUndo, TakeOut, poolVars, valVars
<1>10. CASE PutLeave(t)
  BY <1>10, Frame DEF PutLeave, LeaveEpoch, Pool!Leave, Forget, NoCall, IndexTypes, bufVars, valVars
<1> QED
  BY <1>1, <1>2, <1>3, <1>4, <1>5, <1>6, <1>7, <1>8, <1>9, <1>10

(* The steps of a get.                                                     *)
LEMMA StepGet ==
  ASSUME Inv, NEW t \in Threads,
         GetEnter(t) \/ GetNext(t) \/ GetNone(t) \/ GetCopy(t) \/ GetLeave(t)
  PROVE  Inv'
<1> USE DEF PCs, GetPCs, HoldPCs, OwnPCs, Goto, Inv, Types
<1>1. CASE GetEnter(t)
  BY <1>1, Frame DEF GetEnter, EnterIfMade, EnterEpoch, Pool!Enter, Pool!Reenter,
                     bufVars, valVars, locals
<1>2. CASE GetNext(t)
  <2>1. \E i \in DOMAIN index : \E e \in index[i] : val' = [val EXCEPT ![t] = e.val]
    BY <1>2, FoundIn DEF GetNext
  <2> QED
    BY <1>2, <2>1, Frame DEF GetNext, bufVars, poolVars, valVars
<1>3. CASE GetNone(t)
  BY <1>3, Frame DEF GetNone, bufVars, poolVars, valVars, history
<1>4. CASE GetCopy(t)
  <2>1. PICK to \in {"get_leave", "get_next"} : pc' = [pc EXCEPT ![t] = to]
    BY <1>4 DEF GetCopy
  <2> QED
    BY <1>4, <2>1, Frame DEF GetCopy, bufVars, poolVars, valVars
<1>5. CASE GetLeave(t)
  BY <1>5, Frame DEF GetLeave, LeaveEpoch, Pool!Leave, Forget, NoCall, IndexTypes, bufVars, valVars
<1> QED
  BY <1>1, <1>2, <1>3, <1>4, <1>5

(* The steps of a delete, but for its CAS and the free.                    *)
LEMMA StepDelQuiet ==
  ASSUME Inv, NEW t \in Threads,
         \/ DelEnter(t) \/ DelGet(t) \/ DelNone(t) \/ DelBusy(t) \/ DelIndex(t)
         \/ DelAssert(t) \/ DelLeave(t) \/ DelLast(t)
  PROVE  Inv'
<1> USE DEF PCs, DelPCs, HoldPCs, OwnPCs, Goto, Inv, Types
<1>1. CASE DelEnter(t)
  BY <1>1, Frame DEF DelEnter, EnterIfMade, EnterEpoch, Pool!Enter, Pool!Reenter,
                     bufVars, valVars, locals, history
<1>2. CASE DelGet(t)
  <2>1. \E i \in DOMAIN index : \E e \in index[i] : val' = [val EXCEPT ![t] = e.val]
    BY <1>2, FoundIn DEF DelGet
  <2> QED
    BY <1>2, <2>1, Frame DEF DelGet, bufVars, poolVars, valVars, history
<1>3. CASE DelNone(t)
  BY <1>3, Frame DEF DelNone, bufVars, poolVars, valVars, locals, history
<1>4. CASE DelBusy(t)
  BY <1>4, Frame DEF DelBusy, bufVars, poolVars, valVars, history
<1>5. CASE DelIndex(t)
  <2>1. PICK to \in {"del_free", "del_index"} : pc' = [pc EXCEPT ![t] = to]
    BY <1>5 DEF DelIndex
  <2> QED
    BY <1>5, <2>1, Frame DEF DelIndex, TakeOut, poolVars, valVars
<1>6. CASE DelAssert(t)
  BY <1>6 DEF DelAssert, Owned, TakenBack, Apart, Unlinked, Fresh, IndexTypes,
              bufVars, poolVars, valVars, locals, history
<1>7. CASE DelLeave(t)
  <2>1. PICK to \in {"del_enter", "idle"} : pc' = [pc EXCEPT ![t] = to]
    BY <1>7 DEF DelLeave
  <2>2. val' = [val EXCEPT ![t] = Null] /\ (call' = call \/ call' = [call EXCEPT ![t] = NoCall])
    BY <1>7 DEF DelLeave, Forget
  <2>3. UNCHANGED <<kinds, index, state, updating, undone, astray>>
    BY <1>7 DEF DelLeave, LeaveEpoch, Pool!Leave, bufVars, valVars
  <2>4. DOMAIN call' = Threads /\ \A u \in Threads : call'[u].id \in DOMAIN index
    BY <2>2 DEF NoCall, IndexTypes
  <2>5. to \in PCs /\ to \notin HoldPCs \cup {"del_cas"}
    OBVIOUS
  <2> QED
    BY <2>1, <2>2, <2>3, <2>4, <2>5, Frame
<1>8. CASE DelLast(t)
  BY <1>8, Frame DEF DelLast, LeaveEpoch, Pool!Leave, Forget, NoCall, IndexTypes, bufVars, valVars
<1> QED
  BY <1>1, <1>2, <1>3, <1>4, <1>5, <1>6, <1>7, <1>8

(* A call begins.                                                          *)
LEMMA StepCall ==
  ASSUME Inv, NEW t \in Threads, Put(t) \/ Get(t) \/ Del(t)
  PROVE  Inv'
<1>1. /\ \E to \in {"put_enter", "get_enter", "del_enter"} : pc' = [pc EXCEPT ![t] = to]
      /\ UNCHANGED <<kinds, index, state, updating, val, undone, astray>>
  BY DEF Put, Get, Del, Ask, Goto, bufVars, poolVars, valVars, history
<1>2. DOMAIN call' = Threads /\ \A u \in Threads : call'[u].id \in DOMAIN index
  <2>1. CASE Put(t)
    <3>1. PICK ks : call' = [call EXCEPT ![t] = [NoCall EXCEPT !.op = "put", !.key = ks]]
      BY <2>1 DEF Put
    <3>2. [NoCall EXCEPT !.op = "put", !.key = ks].id = 1
      BY DEF NoCall
    <3> QED
      BY <3>1, <3>2 DEF Inv, Types, IndexTypes
  <2>2. ASSUME NEW op, NEW to, Ask(t, op, to)
        PROVE  DOMAIN call' = Threads /\ \A u \in Threads : call'[u].id \in DOMAIN index
    <3>1. PICK i \in Indexes : \E k \in KeysOf(kinds[i]), n \in Tops :
            call' = [call EXCEPT ![t] = [op |-> op, key |-> k, id |-> i, top |-> n]]
      BY <2>2, Zenon DEF Ask
    <3> QED
      BY <3>1 DEF Inv, Types, IndexTypes, Indexes
  <2> QED
    BY <2>1, <2>2 DEF Get, Del
<1> QED
  BY <1>1, <1>2, Frame DEF Inv, Types, PCs, PutPCs, GetPCs, DelPCs, HoldPCs, OwnPCs

(* Every step keeps the invariant of the marks.                            *)
LEMMA InvStep == Inv /\ [Next]_vars => Inv'
<1> SUFFICES ASSUME Inv, [Next]_vars PROVE Inv'
  OBVIOUS
<1>1. CASE UNCHANGED vars
  BY <1>1 DEF vars, bufVars, poolVars, valVars, locals, history, Inv, Types, IndexTypes,
              Owned, TakenBack, Apart, Unlinked, Fresh
<1>2. ASSUME NEW t \in Threads, Work(t) PROVE Inv'
  BY <1>2, StepPutAlloc, StepPutUnmark, StepFree, StepDelCas, StepPutQuiet, StepGet, StepDelQuiet
     DEF Work
<1> QED
  BY <1>1, <1>2, StepCall, StepReclaim DEF Next

(* A value belongs to one put or delete at a time, which has it marked and *)
(* not given back, whatever the threads do.                                *)
THEOREM OneOwnerHolds == Spec => []OneOwner
<1>1. Inv => OneOwner
  BY DEF Inv, Types, Owned, Apart, OneOwner, Owners, HoldPCs, OwnPCs
<1> QED
  BY <1>1, InvInit, InvStep, PTL DEF Spec

-----------------------------------------------------------------------------
(* The inductive invariant.                                                *)

MakePCs == {"enter_make", "alloc_make"}
NewPCs == MakePCs \cup {"put_enter", "put_alloc"}
EmptyPCs == NewPCs \cup {"idle", "get_enter", "del_enter", "del_get", "del_last"}
CallPCs == GetPCs \cup DelPCs

\* The keys a value can have.
KeyRows == {ks \in [Indexes -> Keys \cup {Null}] : \A i \in Indexes : ks[i] \in KeysOf(kinds[i])}

\* What the locals hold, by place.
Shape ==
  \A t \in Threads :
    /\ pc[t] \in NewPCs => call[t].key \in KeyRows
    /\ pc[t] \in EmptyPCs => val[t] = Null
    /\ pc[t] \in HoldPCs \cup {"del_cas", "get_copy"} => val[t] \in Items
    /\ val[t] # Null => key[val[t]] \in KeyRows
    /\ pc[t] = "put_undo" => num[t] \in Indexes /\ at[t] <= num[t]
    /\ pc[t] \in EmptyPCs \cup {"del_cas", "del_leave"} => from[t] = 0
    /\ pc[t] \in EmptyPCs \cup {"del_cas", "del_free", "del_leave"} => at[t] = 1
    /\ pc[t] \in EmptyPCs \cup DelPCs => got[t] = <<>>

\* The entries of an index.
Filed ==
  \A i \in Indexes :
    /\ incr_key[i] > 0
    /\ kinds[i] = "uniq" => \A e \in index[i] : e.incr = 0
    /\ \A e \in index[i] : key[e.val] \in KeyRows
    /\ \A e, f \in index[i] :
         (IF kinds[i] = "uniq" THEN e.key = f.key ELSE e.incr = f.incr) => e = f

Basic == TypeOK /\ Shape /\ Filed

(* The indexes are numbered from 1, and there are three kinds.             *)
LEMMA KindsAre ==
  ASSUME TypeOK
  PROVE  /\ Len(kinds) \in Nat \ {0} /\ Indexes = 1 .. Len(kinds)
         /\ \A i \in Indexes : kinds[i] \in {"uniq", "dupl", "list"}
BY KindAssumption DEF TypeOK, Indexes

Globals ==
  /\ kinds \in Schemas
  /\ DOMAIN index = Indexes /\ incr_key \in [Indexes -> Nat]
  /\ \A i \in Indexes :
       index[i] \subseteq [key : KeysOf(kinds[i]), incr : 0 .. incr_key[i] - 1, val : Items]
  /\ has_init \in 0 .. 2
  /\ inside \subseteq Threads /\ guards \in [Items -> SUBSET Threads]
  /\ state \in [Items -> {"free", "linked", "retired"}]
  /\ key \in [Items -> [Indexes -> Keys \cup {Null}]] /\ incr \in [Items -> [Indexes -> Nat]]

Marks == updating \in [Items -> IF astray THEN Int ELSE {0, 1}]

Histories ==
  /\ raced \in [Threads -> BOOLEAN] /\ undone \subseteq Items
  /\ {aborted, astray, late} \subseteq BOOLEAN
  /\ fails \in 0 .. MaxFails /\ calls \in 0 .. MaxCalls

Locals ==
  /\ pc \in [Threads -> PCs]
  /\ DOMAIN call = Threads
  /\ \A t \in Threads : call[t].id \in Indexes /\ call[t].top \in Nat \ {0}
  /\ val \in [Threads -> Items \cup {Null}]
  /\ at \in [Threads -> Indexes]
  /\ from \in [Threads -> Nat] /\ num \in [Threads -> Nat]
  /\ got \in [Threads -> Seq(Nat)] /\ due \in [Threads -> SUBSET Nat]

(* TypeOK in four parts, each with the steps that change it.               *)
LEMMA TypeParts == Inv => (TypeOK <=> Globals /\ Marks /\ Histories /\ Locals)
BY DEF Inv, Types, TypeOK, Globals, Marks, Histories, Locals, PCs

(* The same of the next state.                                             *)
LEMMA TypePartsNext == Inv' => (TypeOK' <=> (Globals /\ Marks /\ Histories /\ Locals)')
BY DEF Inv, Types, TypeOK, Globals, Marks, Histories, Locals, PCs

Known == Inv /\ Basic

(* The indexes, the class and the values keep their types.                 *)
LEMMA GlobalStep ==
  ASSUME Known, NEW t \in Threads, Put(t) \/ Get(t) \/ Del(t) \/ Work(t)
  PROVE  Globals'
<1>1. Globals /\ Locals /\ Shape
  BY TypeParts DEF Known, Basic
<1>2. /\ Len(kinds) \in Nat \ {0} /\ Indexes = 1 .. Len(kinds)
      /\ \A i \in Indexes : kinds[i] \in {"uniq", "dupl", "list"}
  BY KindsAre DEF Known, Basic
<1> DEFINE Same == UNCHANGED <<kinds, index, incr_key, key, incr>>
<1>3. ASSUME Same, has_init' \in 0 .. 2,
             inside' \subseteq Threads, guards' \in [Items -> SUBSET Threads],
             state' \in [Items -> {"free", "linked", "retired"}]
      PROVE  Globals'
  BY <1>1, <1>3 DEF Globals, Indexes, KeysOf
<1>4. CASE EnterEpoch(t) /\ Same /\ UNCHANGED has_init
  BY <1>1, <1>3, <1>4 DEF EnterEpoch, Pool!Enter, Pool!Reenter, Globals
<1>5. CASE LeaveEpoch(t) /\ Same /\ UNCHANGED has_init
  BY <1>1, <1>3, <1>5 DEF LeaveEpoch, Pool!Leave, Globals
<1>6. CASE Same /\ UNCHANGED <<inside, state, guards>> /\ has_init' \in 0 .. 2
  BY <1>1, <1>3, <1>6 DEF Globals
<1>7. CASE Same /\ Pool!Retire(val[t]) /\ UNCHANGED has_init
  BY <1>1, <1>3, <1>7 DEF Pool!Retire, Globals
<1>8. CASE \/ PutEnter(t) \/ GetEnter(t) \/ DelEnter(t)
  BY <1>1, <1>8, <1>4, <1>6 DEF PutEnter, GetEnter, DelEnter, EnterIfMade, bufVars, valVars, Globals
<1>9. CASE PutLeave(t) \/ GetLeave(t) \/ DelLeave(t) \/ DelLast(t)
  BY <1>9, <1>5 DEF PutLeave, GetLeave, DelLeave, DelLast, bufVars, valVars
<1>10. CASE Make(t) \/ Made(t) \/ MakeFails(t) \/ AllocFails(t)
  BY <1>10, <1>6 DEF Make, Made, MakeFails, AllocFails, bufVars, valVars
<1>11. CASE \/ PutNone(t) \/ PutRefused(t) \/ PutUnlock(t) \/ PutDone(t) \/ GetNext(t)
            \/ GetNone(t) \/ GetCopy(t) \/ DelGet(t) \/ DelNone(t) \/ DelCas(t)
            \/ DelBusy(t) \/ DelAssert(t) \/ Put(t) \/ Get(t) \/ Del(t)
  <2>1. Same /\ UNCHANGED <<inside, state, guards, has_init>>
    BY <1>11 DEF PutNone, PutRefused, PutUnlock, PutDone, GetNext, GetNone, GetCopy, DelGet,
       DelNone, DelCas, DelBusy, DelAssert, Put, Get, Del, Ask, bufVars, poolVars, valVars
  <2> QED
    BY <1>1, <1>6, <2>1 DEF Globals
<1>12. CASE PutFree(t) \/ DelFree(t)
  BY <1>12, <1>7 DEF PutFree, DelFree, bufVars, valVars
<1>13. CASE PutAlloc(t)
  <2>1. PICK x \in Items :
          /\ inside' = inside /\ guards' = guards /\ state' = [state EXCEPT ![x] = "linked"]
          /\ key' = [key EXCEPT ![x] = call[t].key]
          /\ UNCHANGED <<kinds, index, incr_key, has_init, incr>>
    BY <1>13 DEF PutAlloc, Pool!Publish, bufVars
  <2>2. call[t].key \in [Indexes -> Keys \cup {Null}]
    BY <1>1, <1>13 DEF PutAlloc, Goto, Shape, NewPCs, KeyRows
  <2> QED
    BY <1>1, <2>1, <2>2 DEF Globals, Indexes, KeysOf
<1>14. CASE PutIndex(t)
  <2> DEFINE i == at[t]
             k == key[val[t]][i]
             n == IF kinds[i] = "uniq" THEN 0 ELSE incr_key[i]
  <2>0. i \in Indexes /\ val[t] \in Items /\ val[t] # Null
    BY <1>1, <1>14, NullAssumption DEF PutIndex, Locals, Shape, HoldPCs, OwnPCs
  <2>1. /\ i \in Indexes /\ val[t] \in Items /\ k \in KeysOf(kinds[i])
        /\ incr_key[i] \in Nat \ {0}
    BY <1>1, <2>0 DEF Globals, Shape, KeyRows, Known, Basic, Filed
  <2>2. /\ index' = [index EXCEPT ![i] = @ \cup {[key |-> k, incr |-> n, val |-> val[t]]}]
        /\ incr_key' = [incr_key EXCEPT ![i] = IF kinds[i] = "uniq" THEN @ ELSE @ + 1]
        /\ UNCHANGED <<kinds, has_init, inside, state, guards, key, incr>>
    BY <1>14 DEF PutIndex, Entry, poolVars, valVars
  <2>3. incr_key' \in [Indexes -> Nat] /\ \A j \in Indexes : incr_key'[j] >= incr_key[j]
        /\ n \in 0 .. incr_key'[i] - 1
    BY <1>1, <2>1, <2>2 DEF Globals
  <2>4. ASSUME NEW j \in Indexes, NEW e \in index'[j]
        PROVE  e \in [key : KeysOf(kinds[j]), incr : 0 .. incr_key'[j] - 1, val : Items]
    <3>1. CASE e \in index[j]
      <4>1. e \in [key : KeysOf(kinds[j]), incr : 0 .. incr_key[j] - 1, val : Items]
        BY <1>1, <3>1 DEF Globals
      <4>2. \A m \in 0 .. incr_key[j] - 1 : m \in 0 .. incr_key'[j] - 1
        BY <1>1, <2>3 DEF Globals
      <4> QED
        BY <4>1, <4>2
    <3>2. CASE j = i /\ e = [key |-> k, incr |-> n, val |-> val[t]]
      BY <2>1, <2>3, <3>2
    <3> QED
      BY <1>1, <2>2, <3>1, <3>2 DEF Globals
  <2>5. DOMAIN index' = Indexes /\ Indexes' = Indexes
    BY <1>1, <2>2 DEF Globals, Indexes
  <2> QED
    BY <1>1, <2>2, <2>3, <2>4, <2>5 DEF Globals, KeysOf
<1>15. CASE PutIncr(t)
  <2>1. PICK e \in index[at[t]] : incr' = [incr EXCEPT ![val[t]][at[t]] = e.incr]
    BY <1>15 DEF PutIncr
  <2>2. at[t] \in Indexes /\ val[t] \in Items
    BY <1>1, <1>15 DEF PutIncr, Locals, Shape, HoldPCs, OwnPCs
  <2>3. e.incr \in Nat
    BY <1>1, <2>1, <2>2 DEF Globals
  <2>4. incr' \in [Items -> [Indexes -> Nat]]
    BY <1>1, <2>1, <2>2, <2>3 DEF Globals
  <2> QED
    BY <1>1, <1>15, <2>4 DEF PutIncr, Globals, Indexes, KeysOf, bufVars, poolVars
<1>16. CASE PutUndo(t) \/ DelIndex(t)
  <2>1. /\ index' = [index EXCEPT ![at[t]] = @ \ Taken(at[t], val[t])]
        /\ UNCHANGED <<kinds, incr_key, has_init, inside, state, guards, key, incr>>
    BY <1>16 DEF PutUndo, DelIndex, TakeOut, poolVars, valVars
  <2>2. DOMAIN index' = Indexes /\ \A j \in Indexes : index'[j] \subseteq index[j]
    BY <1>1, <2>1 DEF Globals
  <2> QED
    BY <1>1, <2>1, <2>2 DEF Globals, Indexes, KeysOf
<1> QED
  BY <1>8, <1>9, <1>10, <1>11, <1>12, <1>13, <1>14, <1>15, <1>16 DEF Work

(* The marks are 0 or 1 as long as no delete went astray.                  *)
LEMMA MarksStep ==
  ASSUME Known, Inv', NEW t \in Threads, Put(t) \/ Get(t) \/ Del(t) \/ Work(t)
  PROVE  Marks'
<1>1. Marks /\ Locals /\ Shape
  BY TypeParts DEF Known, Basic
<1>2. updating' \in [Items -> Int]
  BY DEF Inv, Types
<1>3. CASE astray'
  BY <1>2, <1>3 DEF Marks
<1>4. CASE ~astray' /\ UNCHANGED <<updating, astray>>
  BY <1>1, <1>4 DEF Marks
<1>5. ASSUME ~astray', ~astray, NEW x \in Items, NEW n \in {0, 1},
             updating' = [updating EXCEPT ![x] = n]
      PROVE  Marks'
  BY <1>1, <1>5 DEF Marks
<1>6. CASE ~astray' /\ PutAlloc(t)
  BY <1>5, <1>6 DEF PutAlloc
<1>7. CASE ~astray' /\ (PutUnlock(t) \/ PutDone(t))
  <2>1. ~astray /\ pc[t] \in OwnPCs /\ val[t] \in Items
    BY <1>1, <1>7 DEF PutUnlock, PutDone, Goto, OwnPCs, HoldPCs, Shape, history
  <2>2. updating[val[t]] = 1
    BY <2>1 DEF Known, Inv, Owned
  <2>3. updating' = [updating EXCEPT ![val[t]] = 0]
    BY <1>7, <2>2 DEF PutUnlock, PutDone
  <2> QED
    BY <1>5, <1>7, <2>1, <2>3
<1>8. CASE ~astray' /\ DelCas(t)
  BY <1>1, <1>5, <1>8 DEF DelCas, Goto, Shape
<1> QED
  BY <1>3, <1>4, <1>6, <1>7, <1>8
  DEF Work, Put, Get, Del, Ask, PutEnter, Make, Made, MakeFails, AllocFails, PutNone, PutIndex,
      PutIncr, PutRefused, PutUndo, PutFree, PutLeave, GetEnter, GetNext, GetNone, GetCopy,
      GetLeave, DelEnter, DelGet, DelNone, DelBusy, DelIndex, DelAssert, DelFree, DelLeave,
      DelLast, valVars, history

(* The bounds and the history keep their types.                            *)
LEMMA HistoryStep ==
  ASSUME Known, NEW t \in Threads, Put(t) \/ Get(t) \/ Del(t) \/ Work(t)
  PROVE  Histories'
<1>1. Histories /\ Locals /\ Shape
  BY TypeParts DEF Known, Basic
<1> USE <1>1, BoundAssumption DEF Histories
<1>2. CASE Put(t) \/ Get(t) \/ Del(t)
  <2>1. /\ calls < MaxCalls /\ calls' = calls + 1
        /\ UNCHANGED <<raced, undone, aborted, astray, late, fails>>
    BY <1>2 DEF Put, Get, Del, Ask, history
  <2>2. calls' \in 0 .. MaxCalls
    BY <2>1
  <2> QED
    BY <2>1, <2>2
<1>3. CASE PutEnter(t) \/ Make(t) \/ Made(t)
  BY <1>3 DEF PutEnter, Make, Made, bounds, history
<1>4. CASE MakeFails(t)
  BY <1>4 DEF MakeFails, history
<1>5. CASE AllocFails(t)
  BY <1>5 DEF AllocFails, Forget
<1>6. CASE PutNone(t) \/ PutLeave(t) \/ GetLeave(t) \/ DelLast(t) \/ DelLeave(t)
  BY <1>6 DEF PutNone, PutLeave, GetLeave, DelLast, DelLeave, Forget, bounds
<1>7. CASE PutAlloc(t)
  BY <1>7 DEF PutAlloc, bounds
<1>8. CASE PutIndex(t) \/ PutIncr(t)
  BY <1>8 DEF PutIndex, PutIncr, bounds, history
<1>9. CASE PutRefused(t) \/ PutFree(t) \/ PutDone(t)
  BY <1>9 DEF PutRefused, PutFree, PutDone, bounds, history
<1>10. CASE PutUnlock(t)
  <2>1. val[t] \in Items
    BY <1>10 DEF PutUnlock, Goto, Shape, HoldPCs, OwnPCs
  <2> QED
    BY <1>10, <2>1 DEF PutUnlock, bounds
<1>11. CASE PutUndo(t) \/ DelIndex(t)
  BY <1>11 DEF PutUndo, DelIndex, bounds
<1>12. CASE GetEnter(t) \/ GetNext(t) \/ GetNone(t)
  BY <1>12 DEF GetEnter, GetNext, GetNone, bounds, history
<1>13. CASE GetCopy(t)
  <2>1. PICK b \in BOOLEAN : raced' = [raced EXCEPT ![t] = b]
    BY <1>13 DEF GetCopy
  <2> QED
    BY <1>13, <2>1 DEF GetCopy, bounds
<1>14. CASE DelEnter(t) \/ DelGet(t) \/ DelNone(t) \/ DelBusy(t) \/ DelFree(t)
  BY <1>14 DEF DelEnter, DelGet, DelNone, DelBusy, DelFree, bounds, history
<1>15. CASE DelCas(t)
  BY <1>15 DEF DelCas, bounds
<1>16. CASE DelAssert(t)
  BY <1>16 DEF DelAssert, history
<1> QED
  BY <1>2, <1>3, <1>4, <1>5, <1>6, <1>7, <1>8, <1>9, <1>10, <1>11, <1>12, <1>13, <1>14, <1>15,
     <1>16 DEF Work

(* What an index has of a key belongs to the index. *)
LEMMA FoundType ==
  ASSUME TypeOK, NEW i \in Indexes, NEW k, NEW n, NEW e \in Found(i, k, n)
  PROVE  e \in index[i] /\ e.val \in Items /\ e.incr \in Nat /\ e.key \in KeysOf(kinds[i])
<1>1. e \in index[i]
  BY KindsAre DEF Found, Hits
<1>2. incr_key[i] \in Nat
  BY DEF TypeOK
<1>3. e \in [key : KeysOf(kinds[i]), incr : 0 .. incr_key[i] - 1, val : Items]
  BY <1>1 DEF TypeOK
<1> QED
  BY <1>1, <1>2, <1>3

(* The same of all that a key matches.                                     *)
LEMMA HitsType ==
  ASSUME TypeOK, NEW i \in Indexes, NEW k, NEW n, NEW e \in Hits(i, k, n)
  PROVE  e \in index[i] /\ e.val \in Items /\ e.incr \in Nat /\ e.key \in KeysOf(kinds[i])
<1>1. e \in index[i]
  BY KindsAre DEF Hits
<1>2. incr_key[i] \in Nat
  BY DEF TypeOK
<1>3. e \in [key : KeysOf(kinds[i]), incr : 0 .. incr_key[i] - 1, val : Items]
  BY <1>1 DEF TypeOK
<1> QED
  BY <1>1, <1>2, <1>3

(* The locals, and what they hold by place.  Of the other threads a step   *)
(* changes due alone.                                                      *)
Mine(t) ==
  /\ pc[t] \in PCs
  /\ call[t].id \in Indexes /\ call[t].top \in Nat \ {0}
  /\ val[t] \in Items \cup {Null} /\ at[t] \in Indexes
  /\ from[t] \in Nat /\ num[t] \in Nat /\ got[t] \in Seq(Nat) /\ due[t] \in SUBSET Nat
  /\ pc[t] \in NewPCs => call[t].key \in KeyRows
  /\ pc[t] \in EmptyPCs => val[t] = Null
  /\ pc[t] \in HoldPCs \cup {"del_cas", "get_copy"} => val[t] \in Items
  /\ val[t] # Null => key[val[t]] \in KeyRows
  /\ pc[t] = "put_undo" => num[t] \in Indexes /\ at[t] <= num[t]
  /\ pc[t] \in EmptyPCs \cup {"del_cas", "del_leave"} => from[t] = 0
  /\ pc[t] \in EmptyPCs \cup {"del_cas", "del_free", "del_leave"} => at[t] = 1
  /\ pc[t] \in EmptyPCs \cup DelPCs => got[t] = <<>>

Others(t) ==
  \A u \in Threads \ {t} :
    /\ pc'[u] = pc[u] /\ call'[u] = call[u] /\ val'[u] = val[u] /\ at'[u] = at[u]
    /\ from'[u] = from[u] /\ num'[u] = num[u] /\ got'[u] = got[u]
    /\ due'[u] \subseteq due[u] /\ raced'[u] = raced[u]

(* A thread writes its own locals; of the others' it only takes out what   *)
(* is no longer due.                                                       *)
LEMMA OnlyOwn ==
  ASSUME Locals, Histories,
         NEW t \in Threads, Put(t) \/ Get(t) \/ Del(t) \/ Work(t)
  PROVE  Others(t)
<1> USE DEF Others, Locals, Histories, Goto
<1>1. CASE Put(t) \/ Get(t) \/ Del(t)
  BY <1>1 DEF Put, Get, Del, Ask, history
<1>2. CASE PutEnter(t) \/ Make(t) \/ Made(t) \/ MakeFails(t)
  BY <1>2 DEF PutEnter, Make, Made, MakeFails, locals, history
<1>3. CASE \/ AllocFails(t) \/ PutNone(t) \/ PutLeave(t) \/ GetLeave(t) \/ DelLast(t) \/ DelLeave(t)
  BY <1>3 DEF AllocFails, PutNone, PutLeave, GetLeave, DelLast, DelLeave, Forget
<1>4. CASE PutAlloc(t)
  BY <1>4 DEF PutAlloc
<1>5. CASE PutIndex(t) \/ PutIncr(t)
  BY <1>5 DEF PutIndex, PutIncr, Onward, history
<1>6. CASE PutRefused(t) \/ PutUnlock(t) \/ PutFree(t) \/ PutDone(t)
  BY <1>6 DEF PutRefused, PutUnlock, PutFree, PutDone, locals, history
<1>7. CASE PutUndo(t) \/ DelIndex(t)
  <2>1. TakeOut(at[t], val[t])
    BY <1>7 DEF PutUndo, DelIndex
  <2>2. PICK out : due' = [u \in Threads |-> IF call[u].id = at[t] THEN due[u] \ out ELSE due[u]]
    BY <2>1, Zenon DEF TakeOut
  <2>3. \A u \in Threads : due'[u] \subseteq due[u]
    BY <2>2
  <2> QED
    BY <1>7, <2>3 DEF PutUndo, DelIndex
<1>8. CASE GetEnter(t) \/ GetNext(t) \/ GetNone(t) \/ GetCopy(t)
  BY <1>8 DEF GetEnter, GetNext, GetNone, GetCopy, locals, history
<1>9. CASE DelEnter(t) \/ DelGet(t) \/ DelNone(t) \/ DelCas(t) \/ DelBusy(t) \/ DelAssert(t) \/ DelFree(t)
  BY <1>9 DEF DelEnter, DelGet, DelNone, DelCas, DelBusy, DelAssert, DelFree, locals, history
<1> QED
  BY <1>1, <1>2, <1>3, <1>4, <1>5, <1>6, <1>7, <1>8, <1>9 DEF Work

(* After its step a thread has in its locals what the place asks for.      *)
LEMMA MineStep ==
  ASSUME Known, NEW t \in Threads, Globals', Put(t) \/ Get(t) \/ Del(t) \/ Work(t)
  PROVE  Mine(t)'
<1>1. Globals /\ Locals /\ Shape /\ TypeOK /\ Filed
  BY TypeParts DEF Known, Basic
<1>2. /\ Len(kinds) \in Nat \ {0} /\ Indexes = 1 .. Len(kinds)
  BY KindsAre DEF Known, Basic
<1>3. Mine(t)
  BY <1>1 DEF Locals, Shape, Mine
<1> DEFINE Kept == UNCHANGED <<kinds, key>>
<1>4. Kept => (KeyRows' = KeyRows /\ Indexes' = Indexes)
  BY DEF KeyRows, Indexes, KeysOf
<1>5. Null \in Items \cup {Null} /\ <<>> \in Seq(Nat) /\ {} \in SUBSET Nat /\ 1 \in Indexes
  BY <1>2
<1> USE DEF Mine, Goto, PCs, PutPCs, GetPCs, DelPCs, MakePCs, NewPCs, EmptyPCs, HoldPCs, OwnPCs
<1>6. CASE Put(t)
  <2>1. PICK ks \in [Indexes -> Keys \cup {Null}] :
          /\ \A i \in Indexes : ks[i] \in KeysOf(kinds[i])
          /\ call' = [call EXCEPT ![t] = [NoCall EXCEPT !.op = "put", !.key = ks]]
    BY <1>6 DEF Put
  <2>2. LET c == [NoCall EXCEPT !.op = "put", !.key = ks]
        IN  c.key = ks /\ c.id = 1 /\ c.top = 1
    BY DEF NoCall
  <2>3. ks \in KeyRows
    BY <2>1 DEF KeyRows
  <2>4. call'[t].key = ks /\ call'[t].id = 1 /\ call'[t].top = 1
    BY <1>1, <2>1, <2>2 DEF Locals
  <2>5. /\ pc[t] = "idle" /\ pc'[t] = "put_enter"
        /\ Kept /\ UNCHANGED <<val, at, from, num, got, due>>
    BY <1>1, <1>6 DEF Put, Locals, bufVars, valVars, history
  <2> QED
    BY <1>3, <1>4, <1>5, <2>3, <2>4, <2>5
<1>7. CASE Get(t) \/ Del(t)
  <2>1. PICK i \in Indexes, n \in Tops : \E op, k :
          call' = [call EXCEPT ![t] = [op |-> op, key |-> k, id |-> i, top |-> n]]
    BY <1>7 DEF Get, Del, Ask
  <2>2. call'[t].id = i /\ call'[t].top = n /\ n \in Nat \ {0}
    BY <1>1, <2>1, BoundAssumption DEF Locals
  <2>3. /\ pc[t] = "idle" /\ pc'[t] \in {"get_enter", "del_enter"}
        /\ Kept /\ UNCHANGED <<val, at, from, num, got, due>>
    BY <1>1, <1>7 DEF Get, Del, Ask, Locals, bufVars, valVars, history
  <2> QED
    BY <1>3, <1>4, <2>2, <2>3
<1>8. CASE PutEnter(t) \/ Make(t) \/ Made(t) \/ MakeFails(t)
  <2>1. /\ pc[t] \in NewPCs /\ pc'[t] \in NewPCs
        /\ Kept /\ UNCHANGED <<call, val, at, from, num, got, due>>
    BY <1>1, <1>8 DEF PutEnter, Make, Made, MakeFails, Locals, bufVars, valVars, locals, history
  <2> QED
    BY <1>3, <1>4, <2>1
<1>9. ASSUME Forget(t), pc'[t] = "idle", Kept PROVE Mine(t)'
  <2>1. /\ val'[t] = Null /\ at'[t] = 1 /\ from'[t] = 0 /\ num'[t] = 0 /\ call'[t] = NoCall
        /\ got'[t] = <<>> /\ due'[t] = {}
    BY <1>1, <1>9 DEF Forget, Locals
  <2> QED
    BY <1>4, <1>5, <1>9, <2>1 DEF NoCall
<1>10. CASE AllocFails(t) \/ PutNone(t) \/ PutLeave(t) \/ GetLeave(t) \/ DelLast(t)
  BY <1>1, <1>9, <1>10
  DEF AllocFails, PutNone, PutLeave, GetLeave, DelLast, Locals, bufVars, valVars
<1>11. CASE PutAlloc(t)
  <2>1. PICK x \in Items : /\ key' = [key EXCEPT ![x] = call[t].key]
                          /\ val' = [val EXCEPT ![t] = x]
    BY <1>11 DEF PutAlloc
  <2>2. /\ pc[t] = "put_alloc" /\ pc'[t] = "put_index"
        /\ UNCHANGED <<kinds, call, at, from, num, got, due>>
    BY <1>1, <1>11 DEF PutAlloc, Locals, bufVars
  <2>3. val'[t] = x /\ key'[x] = call[t].key
    BY <1>1, <2>1 DEF Locals, Globals
  <2>4. KeyRows' = KeyRows /\ Indexes' = Indexes
    BY <2>2 DEF KeyRows, Indexes, KeysOf
  <2> QED
    BY <1>3, <2>2, <2>3, <2>4
<1>12. CASE PutIndex(t) \/ PutIncr(t)
  <2>1. /\ pc[t] \in {"put_index", "put_incr"} /\ pc'[t] \in {"put_incr", "put_done", "put_index"}
        /\ at'[t] \in {at[t], 1, at[t] + 1} /\ at'[t] \in Indexes
        /\ Kept /\ UNCHANGED <<call, val, from, num, got, due>>
    BY <1>1, <1>2, <1>12 DEF PutIndex, PutIncr, Onward, Locals, bufVars, valVars, history
  <2> QED
    BY <1>3, <1>4, <2>1
<1>13. CASE PutRefused(t)
  <2>1. /\ pc[t] = "put_index" /\ pc'[t] = "put_undo" /\ num'[t] = at[t] /\ at'[t] = 1
        /\ Kept /\ UNCHANGED <<call, val, from, got, due>>
    BY <1>1, <1>13 DEF PutRefused, Locals, bufVars, valVars, history
  <2> QED
    BY <1>2, <1>3, <1>4, <2>1
<1>14. CASE PutUndo(t)
  <2>1. /\ pc[t] = "put_undo" /\ pc'[t] = "put_undo" /\ at[t] < num[t] /\ at'[t] = at[t] + 1
        /\ Kept /\ UNCHANGED <<call, val, from, num, got>>
    BY <1>1, <1>14 DEF PutUndo, Locals, valVars
  <2>2. due'[t] \subseteq due[t]
    BY <1>14 DEF PutUndo, TakeOut
  <2> QED
    BY <1>2, <1>3, <1>4, <2>1, <2>2
<1>15. CASE PutUnlock(t) \/ PutFree(t) \/ PutDone(t)
  <2>1. /\ pc[t] \in HoldPCs /\ pc'[t] \in {"put_free", "put_leave"}
        /\ Kept /\ UNCHANGED <<call, val, at, from, num, got, due>>
    BY <1>1, <1>15 DEF PutUnlock, PutFree, PutDone, Locals, bufVars, valVars, locals, history
  <2> QED
    BY <1>3, <1>4, <2>1
<1>16. CASE GetEnter(t)
  <2>1. /\ pc[t] = "get_enter" /\ pc'[t] = "get_next"
        /\ Kept /\ UNCHANGED <<call, val, at, from, num, got>>
        /\ due'[t] = {e.incr : e \in Hits(call[t].id, call[t].key, 0)}
    BY <1>1, <1>16 DEF GetEnter, Locals, bufVars, valVars, locals
  <2>2. due'[t] \in SUBSET Nat
    BY <1>1, <1>3, <2>1, HitsType
  <2> QED
    BY <1>3, <1>4, <2>1, <2>2
<1>17. CASE GetNext(t)
  <2>1. PICK e \in Found(call[t].id, call[t].key, from[t]) :
          val' = [val EXCEPT ![t] = e.val] /\ got' = [got EXCEPT ![t] = Append(@, e.incr)]
    BY <1>17 DEF GetNext
  <2>2. e.val \in Items /\ e.incr \in Nat
    BY <1>1, <1>3, FoundType
  <2>3. val'[t] \in Items /\ got'[t] \in Seq(Nat) /\ key[val'[t]] \in KeyRows
    BY <1>1, <1>3, <2>1, <2>2, FoundType DEF Locals, Filed
  <2>4. /\ pc[t] = "get_next" /\ pc'[t] = "get_copy"
        /\ Kept /\ UNCHANGED <<call, at, from, num, due>>
    BY <1>1, <1>17 DEF GetNext, Locals, bufVars, valVars
  <2> QED
    BY <1>3, <1>4, <2>3, <2>4
<1>18. CASE GetNone(t)
  <2>1. /\ pc[t] = "get_next" /\ pc'[t] = "get_leave" /\ val'[t] = Null
        /\ Kept /\ UNCHANGED <<call, at, from, num, got, due>>
    BY <1>1, <1>18 DEF GetNone, Locals, bufVars, valVars, history
  <2> QED
    BY <1>3, <1>4, <2>1
<1>19. CASE GetCopy(t)
  <2>1. incr[val[t]][call[t].id] \in Nat
    BY <1>1, <1>3, <1>19 DEF GetCopy, Globals
  <2>2. /\ pc[t] = "get_copy" /\ pc'[t] \in {"get_leave", "get_next"}
        /\ from'[t] = incr[val[t]][call[t].id] + 1 /\ num'[t] = num[t] + 1
        /\ Kept /\ UNCHANGED <<call, val, at, got, due>>
    BY <1>1, <1>19 DEF GetCopy, Locals, bufVars, valVars
  <2> QED
    BY <1>3, <1>4, <2>1, <2>2
<1>20. CASE DelEnter(t) \/ DelNone(t) \/ DelCas(t) \/ DelFree(t)
  <2>1. /\ \/ pc[t] = "del_enter" /\ pc'[t] = "del_get"
           \/ pc[t] = "del_get" /\ pc'[t] = "del_last"
           \/ pc[t] = "del_cas" /\ pc'[t] = "del_index"
           \/ pc[t] = "del_free" /\ pc'[t] = "del_leave" /\ from[t] = 0
        /\ Kept /\ UNCHANGED <<call, val, at, from, num, got, due>>
    BY <1>1, <1>20 DEF DelEnter, DelNone, DelCas, DelFree, Locals, bufVars, valVars, locals, history
  <2> QED
    BY <1>3, <1>4, <2>1
<1>21. CASE DelGet(t)
  <2>1. PICK e \in Found(call[t].id, call[t].key, 0) : val' = [val EXCEPT ![t] = e.val]
    BY <1>21 DEF DelGet
  <2>2. e \in index[call[t].id] /\ e.val \in Items
    BY <1>1, <1>3, FoundType
  <2>3. val'[t] \in Items /\ key[val'[t]] \in KeyRows
    BY <1>1, <1>3, <2>1, <2>2 DEF Locals, Filed
  <2>4. /\ pc[t] = "del_get" /\ pc'[t] = "del_cas"
        /\ Kept /\ UNCHANGED <<call, at, from, num, got, due>>
    BY <1>1, <1>21 DEF DelGet, Locals, bufVars, valVars, history
  <2> QED
    BY <1>3, <1>4, <2>3, <2>4
<1>22. CASE DelBusy(t)
  <2>1. /\ pc[t] = "del_cas" /\ pc'[t] = "del_enter" /\ val'[t] = Null
        /\ Kept /\ UNCHANGED <<call, at, from, num, got, due>>
    BY <1>1, <1>22 DEF DelBusy, Locals, bufVars, valVars, history
  <2> QED
    BY <1>3, <1>4, <2>1
<1>23. CASE DelIndex(t)
  <2>1. /\ pc[t] = "del_index" /\ pc'[t] \in {"del_index", "del_free"}
        /\ at'[t] \in {1, at[t] + 1} /\ at'[t] \in Indexes
        /\ pc'[t] = "del_free" => at'[t] = 1
        /\ from'[t] \in Nat
        /\ Kept /\ UNCHANGED <<call, val, num, got>>
    BY <1>1, <1>2, <1>23 DEF DelIndex, Locals, valVars
  <2>2. due'[t] \subseteq due[t]
    BY <1>23 DEF DelIndex, TakeOut
  <2> QED
    BY <1>3, <1>4, <2>1, <2>2
<1>24. CASE DelAssert(t)
  BY <1>3, <1>4, <1>24 DEF DelAssert, bufVars, valVars, locals, history
<1>25. CASE DelLeave(t)
  <2> DEFINE more == num[t] + 1 < call[t].top
  <2>1. CASE ~more
    <3>1. Forget(t) /\ pc'[t] = "idle" /\ Kept
      BY <1>1, <1>25, <2>1 DEF DelLeave, Locals, bufVars, valVars
    <3> QED
      BY <1>9, <3>1
  <2>2. CASE more
    <3>1. /\ pc[t] = "del_leave" /\ pc'[t] = "del_enter"
          /\ num'[t] = num[t] + 1 /\ val'[t] = Null
          /\ Kept /\ UNCHANGED <<call, at, from, got, due>>
      BY <1>1, <1>25, <2>2 DEF DelLeave, Locals, bufVars, valVars, history
    <3> QED
      BY <1>3, <1>4, <3>1
  <2> QED
    BY <2>1, <2>2
<1> QED
  BY <1>6, <1>7, <1>8, <1>10, <1>11, <1>12, <1>13, <1>14, <1>15, <1>16, <1>17, <1>18, <1>19,
     <1>20, <1>21, <1>22, <1>23, <1>24, <1>25 DEF Work

(* The locals stay functions of the threads. *)
Funs ==
  /\ at = [u \in Threads |-> at[u]] /\ from = [u \in Threads |-> from[u]]
  /\ num = [u \in Threads |-> num[u]] /\ got = [u \in Threads |-> got[u]]
  /\ due = [u \in Threads |-> due[u]]

(* The locals stay functions on the threads.                               *)
LEMMA FunsStep ==
  ASSUME Locals, Histories, NEW t \in Threads, Put(t) \/ Get(t) \/ Del(t) \/ Work(t)
  PROVE  Funs'
<1>1. Funs
  BY DEF Locals, Funs
<1> USE DEF Funs
<1>2. CASE Put(t) \/ Get(t) \/ Del(t)
  BY <1>1, <1>2 DEF Put, Get, Del, Ask, history
<1>3. CASE PutEnter(t) \/ Make(t) \/ Made(t) \/ MakeFails(t)
  BY <1>1, <1>3 DEF PutEnter, Make, Made, MakeFails, locals, history
<1>4. CASE \/ AllocFails(t) \/ PutNone(t) \/ PutLeave(t) \/ GetLeave(t) \/ DelLast(t)
  <2>1. Forget(t)
    BY <1>4 DEF AllocFails, PutNone, PutLeave, GetLeave, DelLast
  <2> QED
    BY <1>1, <2>1 DEF Forget
<1>5. CASE DelLeave(t)
  <2>1. \/ UNCHANGED <<at, from, got, due>> /\ num' = [num EXCEPT ![t] = @ + 1]
        \/ Forget(t)
    BY <1>5 DEF DelLeave
  <2> QED
    BY <1>1, <2>1 DEF Forget
<1>6. CASE PutAlloc(t)
  BY <1>1, <1>6 DEF PutAlloc
<1>7. CASE PutIndex(t) \/ PutIncr(t)
  BY <1>1, <1>7 DEF PutIndex, PutIncr, Onward, history
<1>8. CASE PutRefused(t) \/ PutUnlock(t) \/ PutFree(t) \/ PutDone(t)
  BY <1>1, <1>8 DEF PutRefused, PutUnlock, PutFree, PutDone, locals, history
<1>9. CASE PutUndo(t) \/ DelIndex(t)
  <2>1. PICK out : due' = [u \in Threads |-> IF call[u].id = at[t] THEN due[u] \ out ELSE due[u]]
    BY <1>9, Zenon DEF TakeOut, PutUndo, DelIndex
  <2>2. due' = [u \in Threads |-> due'[u]]
    BY <2>1
  <2> QED
    BY <1>1, <1>9, <2>2 DEF PutUndo, DelIndex
<1>10. CASE GetEnter(t) \/ GetNext(t) \/ GetNone(t) \/ GetCopy(t)
  BY <1>1, <1>10 DEF GetEnter, GetNext, GetNone, GetCopy, locals, history
<1>11. CASE DelEnter(t) \/ DelGet(t) \/ DelNone(t) \/ DelCas(t) \/ DelBusy(t) \/ DelAssert(t) \/ DelFree(t)
  BY <1>1, <1>11 DEF DelEnter, DelGet, DelNone, DelCas, DelBusy, DelAssert, DelFree, locals, history
<1> QED
  BY <1>2, <1>3, <1>4, <1>5, <1>6, <1>7, <1>8, <1>9, <1>10, <1>11 DEF Work

(* The keys of a value that is known are kept: a key changes when its item *)
(* is handed out, and then it is that of the put.                          *)
LEMMA KeyStep ==
  ASSUME Known, NEW t \in Threads, Put(t) \/ Get(t) \/ Del(t) \/ Work(t)
  PROVE  /\ kinds' = kinds /\ KeyRows' = KeyRows /\ Indexes' = Indexes
         /\ \A x \in Items : key[x] \in KeyRows => key'[x] \in KeyRows
<1>1. Globals /\ Locals /\ Shape
  BY TypeParts DEF Known, Basic
<1>2. kinds' = kinds
  BY DEF Work, Put, Get, Del, Ask, PutEnter, Make, Made, MakeFails, AllocFails, PutNone, PutAlloc,
      PutIndex, PutIncr, PutRefused, PutUndo, TakeOut, PutUnlock, PutFree, PutDone, PutLeave,
      GetEnter, GetNext, GetNone, GetCopy, GetLeave, DelEnter, DelGet, DelNone, DelCas, DelBusy,
      DelIndex, DelAssert, DelFree, DelLeave, DelLast, bufVars
<1>3. KeyRows' = KeyRows /\ Indexes' = Indexes
  BY <1>2 DEF KeyRows, Indexes, KeysOf
<1>4. CASE PutAlloc(t)
  <2>1. PICK x \in Items : key' = [key EXCEPT ![x] = call[t].key]
    BY <1>4 DEF PutAlloc
  <2>2. call[t].key \in KeyRows
    BY <1>1, <1>4 DEF PutAlloc, Goto, Shape, NewPCs
  <2> QED
    BY <1>1, <1>2, <1>3, <2>1, <2>2 DEF Globals
<1>5. CASE key' = key
  BY <1>2, <1>3, <1>5
<1> QED
  BY <1>4, <1>5
  DEF Work, Put, Get, Del, Ask, PutEnter, Make, Made, MakeFails, AllocFails, PutNone,
      PutIndex, PutIncr, PutRefused, PutUndo, PutUnlock, PutFree, PutDone, PutLeave,
      GetEnter, GetNext, GetNone, GetCopy, GetLeave, DelEnter, DelGet, DelNone, DelCas, DelBusy,
      DelIndex, DelAssert, DelFree, DelLeave, DelLast, valVars

(* The locals keep their types and what they hold by place.                *)
LEMMA LocalsStep ==
  ASSUME Known, Inv', NEW t \in Threads, Put(t) \/ Get(t) \/ Del(t) \/ Work(t)
  PROVE  Locals' /\ Shape'
<1>1. Locals /\ Histories /\ Shape
  BY TypeParts DEF Known, Basic
<1>2. Mine(t)'
  BY GlobalStep, MineStep
<1>3. Others(t) /\ Funs'
  BY <1>1, OnlyOwn, FunsStep
<1>4. ASSUME NEW u \in Threads \ {t} PROVE Mine(u)'
  <2>1. Mine(u)
    BY <1>1 DEF Locals, Shape, Mine
  <2>2. val[u] # Null => key'[val[u]] \in KeyRows
    BY <2>1, KeyStep DEF Mine
  <2>3. /\ pc'[u] = pc[u] /\ call'[u] = call[u] /\ val'[u] = val[u] /\ at'[u] = at[u]
        /\ from'[u] = from[u] /\ num'[u] = num[u] /\ got'[u] = got[u] /\ due'[u] \in SUBSET Nat
    BY <1>3, <2>1 DEF Others, Mine
  <2>4. KeyRows' = KeyRows /\ Indexes' = Indexes
    BY KeyStep
  <2> QED
    BY <2>1, <2>2, <2>3, <2>4 DEF Mine
<1>5. \A u \in Threads : Mine(u)'
  BY <1>2, <1>4
<1>6. Shape'
  BY <1>5 DEF Mine, Shape
<1>7. Locals'
  BY <1>3, <1>5 DEF Mine, Locals, Funs, Inv, Types
<1> QED
  BY <1>6, <1>7

(* An index keeps its order: one entry per key in a hash, one per incr     *)
(* elsewhere.                                                              *)
LEMMA FiledStep ==
  ASSUME Known, NEW t \in Threads, Put(t) \/ Get(t) \/ Del(t) \/ Work(t)
  PROVE  Filed'
<1>1. Globals /\ Locals /\ Shape /\ Filed
  BY TypeParts DEF Known, Basic
<1>2. /\ kinds' = kinds /\ KeyRows' = KeyRows /\ Indexes' = Indexes
      /\ \A x \in Items : key[x] \in KeyRows => key'[x] \in KeyRows
  BY KeyStep
<1>3. \A i \in Indexes : \A e \in index[i] : e.val \in Items /\ e.incr \in 0 .. incr_key[i] - 1
  BY <1>1 DEF Globals
<1>4. CASE UNCHANGED incr_key /\ \A i \in Indexes : index'[i] \subseteq index[i]
  BY <1>1, <1>2, <1>3, <1>4 DEF Filed
<1>5. CASE PutIndex(t)
  <2> DEFINE i == at[t]
             k == key[val[t]][i]
             n == IF kinds[i] = "uniq" THEN 0 ELSE incr_key[i]
             new == [key |-> k, incr |-> n, val |-> val[t]]
  <2>1. i \in Indexes /\ val[t] \in Items /\ val[t] # Null /\ incr_key[i] \in Nat
    BY <1>1, <1>5, NullAssumption DEF PutIndex, Locals, Globals, Shape, HoldPCs, OwnPCs
  <2>2. /\ index' = [index EXCEPT ![i] = @ \cup {new}]
        /\ incr_key' = [incr_key EXCEPT ![i] = IF kinds[i] = "uniq" THEN @ ELSE @ + 1]
        /\ UNCHANGED key
    BY <1>5 DEF PutIndex, Entry, valVars
  <2>3. kinds[i] = "uniq" => \A e \in index[i] : e.key # k
    <3> SUFFICES ASSUME kinds[i] = "uniq" PROVE \A e \in index[i] : e.key # k
      OBVIOUS
    <3>1. Found(i, k, 0) = {}
      BY <1>5 DEF PutIndex, Refused
    <3>2. \A e, f \in index[i] : e.incr <= f.incr
      BY <1>1, <2>1 DEF Filed
    <3> QED
      BY <3>1, <3>2 DEF Found, Hits
  <2>4. kinds[i] # "uniq" => \A e \in index[i] : e.incr < incr_key[i]
    BY <1>3, <2>1
  <2>5. ASSUME NEW j \in Indexes, j # i
        PROVE  index'[j] = index[j] /\ incr_key'[j] = incr_key[j]
    BY <1>1, <2>1, <2>2, <2>5 DEF Globals
  <2>6. index'[i] = index[i] \cup {new}
    BY <1>1, <2>1, <2>2 DEF Globals
  <2>7. /\ new.key = k /\ new.incr = n /\ new.val = val[t]
        /\ incr_key'[i] > 0
    BY <1>1, <2>1, <2>2 DEF Globals, Filed
  <2>8. key[val[t]] \in KeyRows
    BY <1>1, <2>1 DEF Shape
  <2>9. ASSUME NEW j \in Indexes, j = i
        PROVE  /\ incr_key'[j] > 0
               /\ kinds[j] = "uniq" => \A e \in index'[j] : e.incr = 0
               /\ \A e \in index'[j] : key[e.val] \in KeyRows
               /\ \A e, f \in index'[j] :
                    (IF kinds[j] = "uniq" THEN e.key = f.key ELSE e.incr = f.incr) => e = f
    <3> HIDE DEF i, k, new
    <3>1. \A e \in index'[i] : e \in index[i] \/ e = new
      BY <2>6
    <3>2. kinds[i] = "uniq" => \A e \in index'[i] : e.incr = 0
      BY <1>1, <2>1, <2>7, <3>1 DEF Filed
    <3>3. \A e \in index'[i] : key[e.val] \in KeyRows
      BY <1>1, <2>1, <2>7, <2>8, <3>1 DEF Filed
    <3>4. ASSUME NEW e \in index'[i], NEW f \in index'[i],
                 IF kinds[i] = "uniq" THEN e.key = f.key ELSE e.incr = f.incr
          PROVE  e = f
      <4>1. CASE e \in index[i] /\ f \in index[i]
        BY <1>1, <2>1, <3>4, <4>1 DEF Filed
      <4>2. \A g \in index[i] : (IF kinds[i] = "uniq" THEN g.key # new.key ELSE g.incr # new.incr)
        BY <1>3, <2>1, <2>3, <2>4, <2>7
      <4> QED
        BY <3>1, <3>4, <4>1, <4>2
    <3> QED
      BY <2>7, <2>9, <3>2, <3>3, <3>4
  <2> QED
    BY <1>1, <1>2, <2>2, <2>5, <2>9 DEF Filed
<1>6. CASE PutUndo(t) \/ DelIndex(t)
  <2>0. index' = [index EXCEPT ![at[t]] = @ \ Taken(at[t], val[t])]
    BY <1>6 DEF PutUndo, DelIndex, TakeOut
  <2>1. \A i \in Indexes : index'[i] \subseteq index[i]
    BY <1>1, <2>0 DEF Globals
  <2> QED
    BY <1>4, <1>6, <2>1 DEF PutUndo, DelIndex
<1>7. CASE UNCHANGED bufVars
  BY <1>4, <1>7 DEF bufVars
<1> QED
  BY <1>5, <1>6, <1>7
  DEF Work, Put, Get, Del, Ask, PutEnter, Make, Made, MakeFails, AllocFails, PutNone, PutAlloc,
      PutIncr, PutRefused, PutUnlock, PutFree, PutDone, PutLeave,
      GetEnter, GetNext, GetNone, GetCopy, GetLeave, DelEnter, DelGet, DelNone, DelCas, DelBusy,
      DelAssert, DelFree, DelLeave, DelLast

(* What the code's caller has put before the model begins. *)
LEMMA BasicInit == Init => Known
<1> SUFFICES ASSUME Init PROVE Known
  OBVIOUS
<1>1. /\ kinds \in Schemas /\ kinds # <<>> /\ kinds \in Seq({"uniq", "dupl", "list"})
      /\ Indexes = 1 .. Len(kinds) /\ Len(kinds) \in Nat \ {0} /\ 1 \in Indexes
      /\ \A i \in Indexes : kinds[i] \in {"uniq", "dupl", "list"}
  BY KindAssumption DEF Init, Indexes
<1> DEFINE nth(h, x) == CHOOSE n \in DOMAIN h : h[n].val = x
           used(h) == {h[n].val : n \in DOMAIN h}
<1>2. PICK h \in Held :
        /\ index = [i \in Indexes |-> {Entry(h[n][kinds[i]],
                      IF kinds[i] = "uniq" THEN 0 ELSE n, h[n].val) : n \in DOMAIN h}]
        /\ incr_key = [i \in Indexes |-> IF kinds[i] = "uniq" THEN 1 ELSE Len(h) + 1]
        /\ has_init = (IF h = <<>> THEN 0 ELSE 2)
        /\ state = [x \in Items |-> IF x \in used(h) THEN "linked" ELSE "free"]
        /\ key = [x \in Items |-> [i \in Indexes |->
                    IF x \in used(h) THEN h[nth(h, x)][kinds[i]] ELSE Null]]
        /\ incr = [x \in Items |-> [i \in Indexes |->
                     IF x \in used(h) /\ kinds[i] = "dupl" THEN nth(h, x) ELSE Garbage]]
  BY Zenon DEF Init
<1> HIDE DEF nth, used
<1>3. /\ Len(h) \in Nat /\ DOMAIN h = 1 .. Len(h)
      /\ \A n \in DOMAIN h :
           /\ h[n].val \in Items
           /\ {h[n]["uniq"], h[n]["dupl"]} \subseteq Keys /\ h[n]["list"] = Null
      /\ \A m, n \in DOMAIN h : h[m].val = h[n].val \/ h[m]["uniq"] = h[n]["uniq"] => m = n
  <2>1. h \in Seq({h[n] : n \in DOMAIN h})
    BY HeldAssumption
  <2>2. Len(h) \in Nat /\ DOMAIN h = 1 .. Len(h)
    BY <2>1
  <2> QED
    BY <2>2, HeldAssumption
<1>4. \A n \in DOMAIN h, i \in Indexes : h[n][kinds[i]] \in KeysOf(kinds[i])
  BY <1>1, <1>3 DEF KeysOf
<1>5. \A x \in used(h) : nth(h, x) \in DOMAIN h /\ h[nth(h, x)].val = x
  BY DEF nth, used
<1>6. \A n \in DOMAIN h : h[n].val \in used(h) /\ nth(h, h[n].val) = n
  BY <1>3, <1>5 DEF used
<1>7. \A x \in used(h) : key[x] \in KeyRows
  <2> SUFFICES ASSUME NEW x \in used(h) PROVE key[x] \in KeyRows
    OBVIOUS
  <2>1. x \in Items /\ key[x] = [i \in Indexes |-> h[nth(h, x)][kinds[i]]]
    BY <1>2, <1>3, <1>5
  <2>2. \A i \in Indexes : h[nth(h, x)][kinds[i]] \in KeysOf(kinds[i])
    BY <1>4, <1>5
  <2> QED
    BY <2>1, <2>2 DEF KeyRows, KeysOf
<1>8. ASSUME NEW i \in Indexes, NEW e \in index[i]
      PROVE  \E n \in DOMAIN h : /\ e.key = h[n][kinds[i]] /\ e.val = h[n].val
                                /\ e.incr = (IF kinds[i] = "uniq" THEN 0 ELSE n)
                                /\ e = [key |-> e.key, incr |-> e.incr, val |-> e.val]
  <2>1. PICK n \in DOMAIN h : e = [key |-> h[n][kinds[i]],
                                   incr |-> (IF kinds[i] = "uniq" THEN 0 ELSE n), val |-> h[n].val]
    BY <1>2, <1>8 DEF Entry
  <2> QED
    BY <2>1
<1>9. Globals
  <2>1. incr_key \in [Indexes -> Nat] /\ DOMAIN index = Indexes /\ has_init \in 0 .. 2
    BY <1>2, <1>3
  <2>2. \A i \in Indexes : index[i] \subseteq
          [key : KeysOf(kinds[i]), incr : 0 .. incr_key[i] - 1, val : Items]
    <3> SUFFICES ASSUME NEW i \in Indexes, NEW e \in index[i]
                 PROVE  e \in [key : KeysOf(kinds[i]), incr : 0 .. incr_key[i] - 1, val : Items]
      OBVIOUS
    <3>1. PICK n \in DOMAIN h : /\ e.key = h[n][kinds[i]] /\ e.val = h[n].val
                                /\ e.incr = (IF kinds[i] = "uniq" THEN 0 ELSE n)
                                /\ e = [key |-> e.key, incr |-> e.incr, val |-> e.val]
      BY <1>8
    <3>2. e.incr \in 0 .. incr_key[i] - 1
      BY <1>2, <1>3, <3>1
    <3>3. e.key \in KeysOf(kinds[i]) /\ e.val \in Items
      BY <1>3, <1>4, <3>1
    <3> QED
      BY <3>1, <3>2, <3>3
  <2>3. state \in [Items -> {"free", "linked", "retired"}] /\ guards \in [Items -> SUBSET Threads]
        /\ inside \subseteq Threads
    BY <1>2 DEF Init
  <2>4. key \in [Items -> [Indexes -> Keys \cup {Null}]]
    <3>1. \A x \in Items, i \in Indexes :
            (IF x \in used(h) THEN h[nth(h, x)][kinds[i]] ELSE Null) \in Keys \cup {Null}
      BY <1>4, <1>5 DEF KeysOf
    <3> QED
      BY <1>2, <3>1
  <2>5. incr \in [Items -> [Indexes -> Nat]]
    <3>1. \A x \in Items, i \in Indexes :
            (IF x \in used(h) /\ kinds[i] = "dupl" THEN nth(h, x) ELSE Garbage) \in Nat
      BY <1>3, <1>5, BoundAssumption
    <3> QED
      BY <1>2, <3>1
  <2> QED
    BY <1>1, <2>1, <2>2, <2>3, <2>4, <2>5 DEF Globals
<1>10. Marks /\ Histories
  <2>1. Marks
    BY DEF Init, Marks
  <2>2. fails = 0 /\ calls = 0 /\ aborted = FALSE /\ astray = FALSE /\ late = FALSE
        /\ undone = {}
        /\ raced = [t \in Threads |-> FALSE]
    BY DEF Init
  <2>3. {aborted, astray, late} \subseteq BOOLEAN
    BY <2>2, Zenon
  <2>4. fails \in 0 .. MaxFails /\ calls \in 0 .. MaxCalls
    BY <2>2, BoundAssumption
  <2>5. raced \in [Threads -> BOOLEAN] /\ undone \subseteq Items
    BY <2>2
  <2> QED
    BY <2>1, <2>3, <2>4, <2>5 DEF Histories
<1>11. Locals /\ Shape
  BY <1>1 DEF Init, Locals, Shape, NoCall, PCs, HoldPCs, OwnPCs, NewPCs, MakePCs, DelPCs
<1>12. Filed
  <2> SUFFICES ASSUME NEW i \in Indexes
               PROVE  /\ incr_key[i] > 0
                      /\ kinds[i] = "uniq" => \A e \in index[i] : e.incr = 0
                      /\ \A e \in index[i] : key[e.val] \in KeyRows
                      /\ \A e, f \in index[i] :
                           (IF kinds[i] = "uniq" THEN e.key = f.key ELSE e.incr = f.incr) => e = f
    BY DEF Filed
  <2>1. incr_key[i] > 0
    BY <1>2, <1>3
  <2>2. kinds[i] = "uniq" => \A e \in index[i] : e.incr = 0
    BY <1>8
  <2>3. \A e \in index[i] : key[e.val] \in KeyRows
    BY <1>6, <1>7, <1>8
  <2>4. ASSUME NEW e \in index[i], NEW f \in index[i],
               IF kinds[i] = "uniq" THEN e.key = f.key ELSE e.incr = f.incr
        PROVE  e = f
    <3>1. PICK m \in DOMAIN h : /\ e.key = h[m][kinds[i]] /\ e.val = h[m].val
                                /\ e.incr = (IF kinds[i] = "uniq" THEN 0 ELSE m)
                                /\ e = [key |-> e.key, incr |-> e.incr, val |-> e.val]
      BY <1>8
    <3>2. PICK n \in DOMAIN h : /\ f.key = h[n][kinds[i]] /\ f.val = h[n].val
                                /\ f.incr = (IF kinds[i] = "uniq" THEN 0 ELSE n)
                                /\ f = [key |-> f.key, incr |-> f.incr, val |-> f.val]
      BY <1>8
    <3>3. m = n
      BY <1>3, <2>4, <3>1, <3>2
    <3>4. e.key = f.key /\ e.incr = f.incr /\ e.val = f.val
      BY <3>1, <3>2, <3>3
    <3> QED
      BY <3>1, <3>2, <3>4
  <2> QED
    BY <2>1, <2>2, <2>3, <2>4
<1> QED
  BY <1>9, <1>10, <1>11, <1>12, InvInit, TypeParts DEF Known, Basic

(* What the pool does touches no local and no index.                       *)
LEMMA ReclaimBasic ==
  ASSUME Known, NEW x \in Items, Reclaim(x)
  PROVE  Basic'
<1>1. Globals /\ Marks /\ Histories /\ Locals /\ Shape /\ Filed
  BY TypeParts DEF Known, Basic
<1>2. /\ state' = [state EXCEPT ![x] = "free"]
      /\ UNCHANGED <<inside, guards, kinds, index, incr_key, has_init, key, incr, updating, pc,
                     call, val, at, from, num, aborted, fails, calls, undone, astray, late, got, due,
                     raced>>
  BY DEF Reclaim, Pool!Reclaim, bufVars, valVars, locals, bounds, history
<1>3. Globals'
  BY <1>1, <1>2 DEF Globals, Indexes, KeysOf
<1>4. Marks' /\ Histories' /\ Locals'
  BY <1>1, <1>2 DEF Marks, Histories, Locals, Indexes
<1>5. Shape' /\ Filed'
  BY <1>1, <1>2 DEF Shape, Filed, KeyRows, Indexes, KeysOf
<1>6. Inv'
  BY StepReclaim DEF Known
<1> QED
  BY <1>3, <1>4, <1>5, <1>6, TypePartsNext DEF Basic

(* Every step keeps types and shape.                                       *)
LEMMA BasicStep == Known /\ [Next]_vars => Known'
<1> SUFFICES ASSUME Known, [Next]_vars PROVE Known'
  OBVIOUS
<1>1. Inv'
  BY InvStep DEF Known
<1>2. ASSUME NEW t \in Threads, Put(t) \/ Get(t) \/ Del(t) \/ Work(t) PROVE Basic'
  <2>1. Globals' /\ Marks' /\ Histories' /\ Locals' /\ Shape' /\ Filed'
    BY <1>1, <1>2, GlobalStep, MarksStep, HistoryStep, LocalsStep, FiledStep
  <2> QED
    BY <1>1, <2>1, TypePartsNext DEF Basic
<1>3. CASE UNCHANGED vars
  <2>1. Globals /\ Marks /\ Histories /\ Locals /\ Shape /\ Filed
    BY TypeParts DEF Known, Basic
  <2>2. UNCHANGED <<inside, guards, state, kinds, index, incr_key, has_init, key, incr, updating, pc,
                    call, val, at, from, num, aborted, fails, calls, undone, astray, late, got, due,
                     raced>>
    BY <1>3 DEF vars, bufVars, poolVars, valVars, locals, bounds, history
  <2>3. Globals'
    BY <2>1, <2>2 DEF Globals, Indexes, KeysOf
  <2>4. Marks' /\ Histories' /\ Locals'
    BY <2>1, <2>2 DEF Marks, Histories, Locals, Indexes
  <2>5. Shape' /\ Filed'
    BY <2>1, <2>2 DEF Shape, Filed, KeyRows, Indexes, KeysOf
  <2> QED
    BY <1>1, <2>3, <2>4, <2>5, TypePartsNext DEF Basic, Known
<1> QED
  BY <1>1, <1>2, <1>3, ReclaimBasic DEF Next, Known

(* Every variable has its type in every reachable state, for any number of *)
(* threads, items, keys and indexes, in any order of kinds.                *)
THEOREM TypeCorrect == Spec => []TypeOK
<1>1. Known => TypeOK
  BY DEF Known, Basic
<1> QED
  BY <1>1, BasicInit, BasicStep, PTL DEF Spec

-----------------------------------------------------------------------------
(* What a step of one thread does to the others.                           *)

(* What a step of t does to what the others rely on. *)
Adds(t) ==
  \A i \in Indexes : \A e \in index'[i] :
    \/ e \in index[i]
    \/ /\ pc[t] = "put_index" /\ at[t] = i /\ e.val = val[t]
       /\ kinds[i] # "uniq" => e.incr = incr_key[i]

Notes(t) ==
  \/ incr' = incr /\ pc[t] # "put_incr"
  \/ /\ pc[t] = "put_incr"
     /\ \E e \in index[at[t]] : /\ e.val = val[t]
                               /\ incr' = [incr EXCEPT ![val[t]][at[t]] = e.incr]

Guarding(t) ==
  /\ \A u \in Threads \ {t} : u \in inside' <=> u \in inside
  /\ \A x \in Items :
       \/ state'[x] = state[x] /\ guards[x] \ {t} \subseteq guards'[x]
       \/ state[x] = "free"
       \/ state[x] = "linked" /\ state'[x] = "retired" /\ guards'[x] = inside

Advances(t) ==
  pc'[t] \in {"put_index", "put_incr"} =>
    \/ val'[t] \in Items /\ state[val'[t]] = "free"
    \/ /\ val'[t] = val[t] /\ pc[t] \in {"put_index", "put_incr"}
       /\ at'[t] > at[t] \/ (at'[t] = at[t] /\ pc[t] = "put_index" /\ pc'[t] = "put_incr")

Leaves(t) ==
  \A u \in Threads : (u = t => pc[u] # "get_enter") =>
    \A e \in index[call[u].id] : e.incr \in due'[u] => e \in index'[call[u].id]

(* Only the thread that puts adds an entry, with the next incr.            *)
LEMMA AddsStep ==
  ASSUME Known, NEW t \in Threads, Put(t) \/ Get(t) \/ Del(t) \/ Work(t)
  PROVE  Adds(t)
<1>1. Globals /\ Locals /\ Shape /\ Filed
  BY TypeParts DEF Known, Basic
<1>2. CASE PutIndex(t)
  <2> DEFINE i == at[t]
             n == IF kinds[i] = "uniq" THEN 0 ELSE incr_key[i]
             new == [key |-> key[val[t]][i], incr |-> n, val |-> val[t]]
  <2>1. pc[t] = "put_index" /\ index' = [index EXCEPT ![i] = @ \cup {new}]
    BY <1>2 DEF PutIndex, Entry
  <2>2. new.incr = n /\ new.val = val[t]
    OBVIOUS
  <2> HIDE DEF new
  <2> QED
    BY <1>1, <2>1, <2>2 DEF Adds, Globals, Locals
<1>3. CASE PutUndo(t) \/ DelIndex(t)
  <2>1. index' = [index EXCEPT ![at[t]] = @ \ Taken(at[t], val[t])]
    BY <1>3 DEF PutUndo, DelIndex, TakeOut
  <2> QED
    BY <1>1, <2>1 DEF Adds, Globals
<1>4. CASE index' = index
  BY <1>4 DEF Adds
<1> QED
  BY <1>2, <1>3, <1>4
  DEF Work, Put, Get, Del, Ask, PutEnter, Make, Made, MakeFails, AllocFails, PutNone, PutAlloc,
      PutIncr, PutRefused, PutUnlock, PutFree, PutDone, PutLeave,
      GetEnter, GetNext, GetNone, GetCopy, GetLeave, DelEnter, DelGet, DelNone, DelCas, DelBusy,
      DelAssert, DelFree, DelLeave, DelLast, bufVars

(* Only put_incr writes an incr, that of the entry it has made.            *)
LEMMA NotesStep ==
  ASSUME Known, NEW t \in Threads, Put(t) \/ Get(t) \/ Del(t) \/ Work(t)
  PROVE  Notes(t)
<1>1. CASE PutIncr(t)
  BY <1>1 DEF PutIncr, Notes
<1>2. CASE incr' = incr /\ pc[t] # "put_incr"
  BY <1>2 DEF Notes
<1> QED
  BY <1>1, <1>2
  DEF Work, Put, Get, Del, Ask, PutEnter, Make, Made, MakeFails, AllocFails, PutNone, PutAlloc,
      PutIndex, PutRefused, PutUndo, PutUnlock, PutFree, PutDone, PutLeave,
      GetEnter, GetNext, GetNone, GetCopy, GetLeave, DelEnter, DelGet, DelNone, DelCas, DelBusy,
      DelIndex, DelAssert, DelFree, DelLeave, DelLast, valVars, Goto

(* A step guards what it retires with all that are inside, and takes no    *)
(* guard of another thread off.                                            *)
LEMMA GuardingStep ==
  ASSUME Known, NEW t \in Threads, Put(t) \/ Get(t) \/ Del(t) \/ Work(t)
  PROVE  Guarding(t)
<1>1. Globals /\ Locals /\ Shape
  BY TypeParts DEF Known, Basic
<1>2. CASE UNCHANGED <<inside, state, guards>>
  BY <1>2 DEF Guarding
<1>3. CASE EnterEpoch(t) \/ LeaveEpoch(t)
  BY <1>1, <1>3 DEF Guarding, Globals, EnterEpoch, LeaveEpoch, Pool!Enter, Pool!Reenter, Pool!Leave
<1>4. CASE PutAlloc(t)
  <2>1. PICK x \in Items : Pool!Publish(x)
    BY <1>4 DEF PutAlloc
  <2> QED
    BY <1>1, <2>1 DEF Pool!Publish, Guarding, Globals
<1>5. CASE PutFree(t) \/ DelFree(t)
  <2>1. val[t] \in Items /\ Pool!Retire(val[t])
    BY <1>1, <1>5 DEF PutFree, DelFree, Goto, Shape, HoldPCs, OwnPCs
  <2> QED
    BY <1>1, <2>1 DEF Pool!Retire, Guarding, Globals
<1> QED
  BY <1>2, <1>3, <1>4, <1>5
  DEF Work, Put, Get, Del, Ask, PutEnter, Make, Made, MakeFails, AllocFails, PutNone, PutIndex,
      PutIncr, PutRefused, PutUndo, PutUnlock, PutDone, PutLeave, EnterIfMade,
      GetEnter, GetNext, GetNone, GetCopy, GetLeave, DelEnter, DelGet, DelNone, DelCas, DelBusy,
      DelIndex, DelAssert, DelLeave, DelLast, poolVars

(* A put goes through the indexes upwards, from a free item on.            *)
LEMMA AdvancesStep ==
  ASSUME Known, NEW t \in Threads, Put(t) \/ Get(t) \/ Del(t) \/ Work(t)
  PROVE  Advances(t)
<1>1. Globals /\ Locals /\ Shape
  BY TypeParts DEF Known, Basic
<1>2. CASE PutAlloc(t)
  <2>1. PICK x \in Items : Pool!Publish(x) /\ val' = [val EXCEPT ![t] = x]
    BY <1>2 DEF PutAlloc
  <2> QED
    BY <1>1, <2>1 DEF Pool!Publish, Advances, Locals
<1>3. CASE PutIndex(t) \/ PutIncr(t)
  <2>1. /\ pc[t] \in {"put_index", "put_incr"} /\ val' = val
        /\ \/ Onward(t, at[t])
           \/ pc[t] = "put_index" /\ pc'[t] = "put_incr" /\ at' = at
    BY <1>1, <1>3 DEF PutIndex, PutIncr, Locals
  <2>2. /\ at[t] \in Nat
        /\ Onward(t, at[t]) => \/ pc'[t] = "put_done"
                               \/ pc'[t] = "put_index" /\ at'[t] = at[t] + 1
    BY <1>1, KindsAre DEF Known, Basic, Locals, Onward
  <2> QED
    BY <2>1, <2>2 DEF Advances
<1>4. CASE \E to \in PCs \ {"put_index", "put_incr"} : pc' = [pc EXCEPT ![t] = to]
  BY <1>1, <1>4 DEF Advances, Locals
<1>5. CASE DelAssert(t)
  BY <1>5 DEF DelAssert, Advances
<1>6. CASE PutUndo(t)
  BY <1>6 DEF PutUndo, Advances
<1>7. CASE DelIndex(t) \/ DelLeave(t) \/ GetCopy(t)
  <2>1. pc'[t] \in {"del_free", "del_index", "del_enter", "idle", "get_leave", "get_next"}
    BY <1>1, <1>7 DEF DelIndex, DelLeave, GetCopy, Goto, Locals
  <2> QED
    BY <2>1 DEF Advances
<1> QED
  BY <1>2, <1>3, <1>4, <1>5, <1>6, <1>7
  DEF Work, Put, Get, Del, Ask, PutEnter, Make, Made, MakeFails, AllocFails, PutNone,
      PutRefused, PutUnlock, PutFree, PutDone, PutLeave, GetEnter, GetNext, GetNone, GetLeave,
      DelEnter, DelGet, DelNone, DelCas, DelBusy, DelFree, DelLast,
      Goto, PCs, PutPCs, GetPCs, DelPCs

(* An entry that is still due to a get was not taken out.                  *)
LEMMA LeavesStep ==
  ASSUME Known, NEW t \in Threads, Put(t) \/ Get(t) \/ Del(t) \/ Work(t)
  PROVE  Leaves(t)
<1>1. Globals /\ Locals /\ Shape
  BY TypeParts DEF Known, Basic
<1>2. CASE index' = index
  BY <1>2 DEF Leaves
<1>3. CASE PutIndex(t)
  BY <1>1, <1>3 DEF PutIndex, Leaves, Globals, Locals
<1>4. CASE PutUndo(t) \/ DelIndex(t)
  <2>1. /\ index' = [index EXCEPT ![at[t]] = @ \ Taken(at[t], val[t])]
        /\ due' = [u \in Threads |-> IF call[u].id = at[t]
                                     THEN due[u] \ {e.incr : e \in Taken(at[t], val[t])} ELSE due[u]]
    BY <1>4 DEF PutUndo, DelIndex, TakeOut
  <2>2. at[t] \in Indexes
    BY <1>1 DEF Locals
  <2> QED
    BY <1>1, <2>1, <2>2 DEF Leaves, Globals, Locals
<1> QED
  BY <1>2, <1>3, <1>4
  DEF Work, Put, Get, Del, Ask, PutEnter, Make, Made, MakeFails, AllocFails, PutNone, PutAlloc,
      PutIncr, PutRefused, PutUnlock, PutFree, PutDone, PutLeave,
      GetEnter, GetNext, GetNone, GetCopy, GetLeave, DelEnter, DelGet, DelNone, DelCas, DelBusy,
      DelAssert, DelFree, DelLeave, DelLast, bufVars

-----------------------------------------------------------------------------
(* The invariant behind ValueWhole, NoStaleValue and MultiGet.             *)

\* The indexes that have the value of t.
Entered(t) ==
  IF pc[t] = "put_index" THEN 1 .. at[t] - 1
  ELSE IF pc[t] = "put_incr" THEN 1 .. at[t]
  ELSE IF pc[t] = "put_done" THEN Indexes
  ELSE IF pc[t] = "put_undo" THEN at[t] .. num[t] - 1
  ELSE IF pc[t] = "del_index" THEN at[t] .. Len(kinds)
  ELSE {}

Has(x) == {i \in Indexes : In(i, x)}

Placed ==
  /\ \A t \in Threads : pc[t] \in HoldPCs => Has(val[t]) = Entered(t)
  /\ \A x \in Items : (\A t \in Threads : pc[t] \in HoldPCs => val[t] # x)
                        => Has(x) = IF state[x] = "linked" THEN Indexes ELSE {}

Once == \A i \in Indexes : \A e, f \in index[i] : e.val = f.val => e = f

\* Entries have the key and the incr of their value.
Right ==
  \A i \in Indexes : \A e \in index[i] :
    /\ e.key = key[e.val][i]
    /\ kinds[i] = "dupl" =>
         \/ e.incr = incr[e.val][i]
         \/ \E t \in Threads : pc[t] = "put_incr" /\ val[t] = e.val /\ at[t] = i

\* A delete finds what it has marked.
Finds ==
  /\ \A t \in Threads : pc[t] \in {"del_index", "del_free"} => from[t] = 0
  /\ ~aborted

\* What a call has read cannot be handed out again, nor is it entered again
\* in the index it was read from.
SafeOf(t) ==
  t \in inside /\ pc[t] \in CallPCs /\ val[t] # Null =>
    /\ state[val[t]] = "linked" \/ (state[val[t]] = "retired" /\ t \in guards[val[t]])
    /\ pc[t] \in {"get_copy", "del_cas"} =>
         \A u \in Threads : val[u] = val[t] =>
           /\ pc[u] = "put_index" => at[u] > call[t].id
           /\ pc[u] = "put_incr" => at[u] >= call[t].id

Safe == \A t \in Threads : SafeOf(t)

\* A list is the only index, and only a list knows late deletes.
Listed ==
  /\ (\E i \in Indexes : kinds[i] = "list") => Len(kinds) = 1
  /\ late => \E i \in Indexes : kinds[i] = "list"

\* A delete in a list that has its value for sure has the first one.
Fronted(t) == pc[t] = "del_index" \/ (pc[t] = "del_cas" /\ t \in inside)
FirstOf(t) ==
  Fronted(t) /\ kinds[1] = "list" =>
    \A e, f \in index[1] : e.val = val[t] => e.incr <= f.incr

First == \A t \in Threads : FirstOf(t)

\* What a get has still to come to is in the index.
DueOf(t) ==
  pc[t] \in GetPCs \ {"get_enter"} /\ kinds[call[t].id] = "dupl" =>
    \A n \in due[t] : \E e \in index[call[t].id] : e.key = call[t].key /\ e.incr = n

Due == \A t \in Threads : DueOf(t)

\* A get has returned what was due before the place it has come to.
Passed(t, n) == \A d \in due[t] : d >= n \/ \E a \in DOMAIN got[t] : got[t][a] = d
Rises(t) == \A a, b \in DOMAIN got[t] : a < b => got[t][a] < got[t][b]
LastGot(t) == got[t][Len(got[t])]
Copies(t) ==
  /\ Len(got[t]) # 0 /\ Passed(t, LastGot(t))
  /\ \A e \in index[call[t].id] : e.val = val[t] => e.incr = LastGot(t)
  /\ \/ incr[val[t]][call[t].id] = LastGot(t)
     \/ \E u \in Threads : pc[u] = "put_incr" /\ val[u] = val[t] /\ at[u] = call[t].id

GetsOf(t) ==
  t \in inside /\ pc[t] \in GetPCs \ {"get_enter"} /\ kinds[call[t].id] = "dupl" /\ ~raced[t] =>
    /\ Rises(t)
    /\ pc[t] = "get_next" => Passed(t, from[t]) /\ \A a \in DOMAIN got[t] : got[t][a] < from[t]
    /\ pc[t] = "get_copy" => Copies(t)
    /\ pc[t] = "get_leave" /\ num[t] < call[t].top =>
         \A d \in due[t] : \E a \in DOMAIN got[t] : got[t][a] = d

Getting == \A t \in Threads : GetsOf(t)

Whole == Placed /\ Once /\ Right /\ Finds /\ Safe /\ First /\ Getting

(* The facts on one thread that others do not disturb. *)
LEMMA SafeOthers ==
  ASSUME Known, Safe, NEW t \in Threads, Put(t) \/ Get(t) \/ Del(t) \/ Work(t),
         NEW u \in Threads \ {t}
  PROVE  SafeOf(u)'
<1>1. Globals /\ Locals /\ Histories
  BY TypeParts DEF Known, Basic
<1>2. Others(t) /\ Guarding(t) /\ Advances(t)
  BY <1>1, OnlyOwn, GuardingStep, AdvancesStep
<1> SUFFICES ASSUME u \in inside', pc'[u] \in CallPCs, val'[u] # Null
             PROVE  /\ \/ state'[val'[u]] = "linked"
                       \/ state'[val'[u]] = "retired" /\ u \in guards'[val'[u]]
                    /\ pc'[u] \in {"get_copy", "del_cas"} =>
                         \A w \in Threads : val'[w] = val'[u] =>
                           /\ pc'[w] = "put_index" => at'[w] > call'[u].id
                           /\ pc'[w] = "put_incr" => at'[w] >= call'[u].id
  BY DEF SafeOf
<1>3. /\ pc'[u] = pc[u] /\ call'[u] = call[u] /\ val'[u] = val[u] /\ u \in inside
      /\ val[u] \in Items
  BY <1>1, <1>2 DEF Others, Guarding, Locals
<1>4. /\ state[val[u]] = "linked" \/ (state[val[u]] = "retired" /\ u \in guards[val[u]])
      /\ pc[u] \in {"get_copy", "del_cas"} =>
           \A w \in Threads : val[w] = val[u] =>
             /\ pc[w] = "put_index" => at[w] > call[u].id
             /\ pc[w] = "put_incr" => at[w] >= call[u].id
  BY <1>3 DEF Safe, SafeOf
<1>5. state'[val[u]] = "linked" \/ (state'[val[u]] = "retired" /\ u \in guards'[val[u]])
  BY <1>2, <1>3, <1>4 DEF Guarding
<1>6. ASSUME pc[u] \in {"get_copy", "del_cas"}, NEW w \in Threads, val'[w] = val[u]
      PROVE  /\ pc'[w] = "put_index" => at'[w] > call[u].id
             /\ pc'[w] = "put_incr" => at'[w] >= call[u].id
  <2>1. CASE w # t
    BY <1>2, <1>4, <1>6, <2>1 DEF Others
  <2>2. CASE w = t
    <3>1. at[t] \in Nat /\ call[u].id \in Nat
      BY <1>1, KindsAre DEF Known, Basic, Locals
    <3>2. at'[t] \in Nat
      <4>1. Globals'
        BY GlobalStep
      <4>2. Mine(t)'
        BY <4>1, MineStep
      <4>3. Indexes' = Indexes
        BY KeyStep
      <4> QED
        BY <4>2, <4>3, KindsAre DEF Mine, Known, Basic
    <3> QED
      BY <1>2, <1>4, <1>6, <2>2, <3>1, <3>2 DEF Advances
  <2> QED
    BY <2>1, <2>2
<1> QED
  BY <1>3, <1>5, <1>6

(* What is first in a list stays so: nothing is put before it.             *)
LEMMA FirstKept ==
  ASSUME Known, ~astray, Safe, Listed, NEW t \in Threads, Put(t) \/ Get(t) \/ Del(t) \/ Work(t),
         NEW u \in Threads, Fronted(u), FirstOf(u), kinds[1] = "list"
  PROVE  \A e, f \in index'[1] : e.val = val[u] => e.incr <= f.incr
<1>1. Globals /\ Locals /\ Shape /\ TypeOK
  BY TypeParts DEF Known, Basic
<1>2. Adds(t)
  BY AddsStep
<1>3. Indexes = {1} /\ u \in Threads /\ call[u].id = 1 /\ at[t] = 1
  <2>1. Indexes = 1 .. Len(kinds) /\ Len(kinds) \in Nat \ {0}
    BY <1>1, KindsAre
  <2>2. 1 \in Indexes
    BY <2>1
  <2>3. Len(kinds) = 1
    BY <2>2 DEF Listed
  <2>4. call[u].id \in Indexes /\ at[t] \in Indexes
    BY <1>1 DEF Locals
  <2> QED
    BY <2>1, <2>3, <2>4
<1>4. \A e, f \in index[1] : e.val = val[u] => e.incr <= f.incr
  BY DEF FirstOf
<1>5. \A e \in index[1] : e.incr \in Nat /\ e.incr < incr_key[1] /\ incr_key[1] \in Nat
  BY <1>1, <1>3 DEF Globals
<1>6. val[u] \in Items /\ val[u] # Null
  BY <1>1, NullAssumption DEF Fronted, Shape, HoldPCs, OwnPCs
<1>7. ~ (pc[t] = "put_index" /\ val[t] = val[u])
  <2> SUFFICES ASSUME pc[t] = "put_index", val[t] = val[u] PROVE FALSE
    OBVIOUS
  <2>1. CASE pc[u] = "del_index"
    BY <2>1 DEF Known, Inv, Apart, HoldPCs, OwnPCs
  <2>2. CASE pc[u] = "del_cas"
    BY <1>3, <1>6, <2>2 DEF Fronted, Safe, SafeOf, CallPCs, DelPCs
  <2> QED
    BY <2>1, <2>2 DEF Fronted
<1> QED
  BY <1>2, <1>3, <1>4, <1>5, <1>7 DEF Adds

(* An entry that is due stays in the index.                                *)
LEMMA DueKept ==
  ASSUME Known, Due, NEW t \in Threads, Put(t) \/ Get(t) \/ Del(t) \/ Work(t),
         NEW u \in Threads, u = t => pc[u] # "get_enter",
         call'[u] = call[u], due'[u] \subseteq due[u], pc[u] \in GetPCs \ {"get_enter"}
  PROVE  DueOf(u)'
<1>1. Leaves(t) /\ kinds' = kinds
  BY LeavesStep, KeyStep
<1>2. \A e \in index[call[u].id] : e.incr \in due'[u] => e \in index'[call[u].id]
  BY <1>1 DEF Leaves
<1>3. DueOf(u)
  BY DEF Due
<1> QED
  BY <1>1, <1>2, <1>3 DEF DueOf

(* A get's progress does not depend on what others do.                     *)
LEMMA GetsOthers ==
  ASSUME Known, Safe, Once, Getting, NEW t \in Threads, Put(t) \/ Get(t) \/ Del(t) \/ Work(t),
         NEW u \in Threads \ {t}
  PROVE  GetsOf(u)'
<1>1. Globals /\ Locals /\ Histories /\ Shape /\ TypeOK
  BY TypeParts DEF Known, Basic
<1>2. Others(t) /\ Guarding(t) /\ Adds(t) /\ Notes(t) /\ kinds' = kinds
  BY <1>1, OnlyOwn, GuardingStep, AddsStep, NotesStep, KeyStep
<1>3. /\ pc'[u] = pc[u] /\ call'[u] = call[u] /\ val'[u] = val[u] /\ from'[u] = from[u]
      /\ num'[u] = num[u] /\ got'[u] = got[u] /\ raced'[u] = raced[u] /\ due'[u] \subseteq due[u]
      /\ u \in inside' <=> u \in inside
  BY <1>2 DEF Others, Guarding
<1> SUFFICES ASSUME u \in inside, pc[u] \in GetPCs \ {"get_enter"},
                    kinds[call[u].id] = "dupl", ~raced[u]
             PROVE  /\ Rises(u)'
                    /\ pc[u] = "get_next" => /\ Passed(u, from[u])'
                                             /\ \A a \in DOMAIN got[u] : got[u][a] < from[u]
                    /\ pc[u] = "get_copy" => Copies(u)'
                    /\ pc[u] = "get_leave" /\ num[u] < call[u].top =>
                         \A d \in due'[u] : \E a \in DOMAIN got[u] : got[u][a] = d
  BY <1>2, <1>3 DEF GetsOf
<1>4. /\ Rises(u)
      /\ pc[u] = "get_next" => Passed(u, from[u]) /\ \A a \in DOMAIN got[u] : got[u][a] < from[u]
      /\ pc[u] = "get_copy" => Copies(u)
      /\ pc[u] = "get_leave" /\ num[u] < call[u].top =>
           \A d \in due[u] : \E a \in DOMAIN got[u] : got[u][a] = d
  BY DEF Getting, GetsOf
<1>5. Rises(u)'
  BY <1>3, <1>4 DEF Rises
<1>6. pc[u] = "get_next" => Passed(u, from[u])'
  BY <1>3, <1>4 DEF Passed
<1>7. ASSUME pc[u] = "get_copy" PROVE Copies(u)'
  <2> DEFINE i == call[u].id
             v == val[u]
             n == LastGot(u)
  <2>1. i \in Indexes /\ v \in Items /\ v # Null /\ Copies(u)
    BY <1>1, <1>4, <1>7, NullAssumption DEF Locals, Shape
  <2>2. \A w \in Threads : val[w] = v => (pc[w] = "put_index" => at[w] > i)
    BY <1>7, <2>1 DEF Safe, SafeOf, CallPCs, GetPCs
  <2>3. LastGot(u)' = n /\ (Passed(u, n) => Passed(u, LastGot(u))')
    BY <1>3 DEF LastGot, Passed
  <2>4. \A e \in index'[i] : e.val = v => e \in index[i]
    <3>1. i \in Nat /\ at[t] \in Nat
      BY <1>1, <2>1, KindsAre DEF Locals
    <3> QED
      BY <1>2, <2>1, <2>2, <3>1 DEF Adds
  <2>5. \/ incr'[v][i] = n
        \/ \E w \in Threads : pc'[w] = "put_incr" /\ val'[w] = v /\ at'[w] = i
    <3>1. CASE incr' = incr /\ pc[t] # "put_incr"
      <4>1. CASE incr[v][i] = n
        BY <3>1, <4>1
      <4>2. ASSUME NEW w \in Threads, pc[w] = "put_incr" /\ val[w] = v /\ at[w] = i
            PROVE  \E w2 \in Threads : pc'[w2] = "put_incr" /\ val'[w2] = v /\ at'[w2] = i
        <5>1. w # t
          BY <3>1, <4>2
        <5> QED
          BY <1>2, <4>2, <5>1 DEF Others
      <4> QED
        BY <2>1, <4>1, <4>2 DEF Copies
    <3>2. CASE pc[t] = "put_incr" /\ val[t] = v /\ at[t] = i
      <4>1. PICK e \in index[i] : e.val = v /\ incr' = [incr EXCEPT ![v][i] = e.incr]
        BY <1>2, <3>2 DEF Notes
      <4>2. incr'[v][i] = e.incr
        BY <1>1, <2>1, <4>1 DEF Globals
      <4> QED
        BY <2>1, <4>1, <4>2 DEF Copies
    <3>3. CASE pc[t] = "put_incr" /\ ~ (val[t] = v /\ at[t] = i)
      <4>0. PICK k : incr' = [incr EXCEPT ![val[t]][at[t]] = k]
        BY <1>2, <3>3 DEF Notes
      <4>1. incr'[v][i] = incr[v][i]
        BY <1>1, <2>1, <3>3, <4>0 DEF Globals
      <4>2. ASSUME NEW w \in Threads, pc[w] = "put_incr" /\ val[w] = v /\ at[w] = i
            PROVE  \E w2 \in Threads : pc'[w2] = "put_incr" /\ val'[w2] = v /\ at'[w2] = i
        <5>1. w # t
          BY <3>3, <4>2
        <5> QED
          BY <1>2, <4>2, <5>1 DEF Others
      <4> QED
        BY <2>1, <4>1, <4>2 DEF Copies
    <3> QED
      BY <1>2, <3>1, <3>2, <3>3 DEF Notes
  <2> HIDE DEF n
  <2>6. Copies(u)' = (/\ Len(got[u]) # 0 /\ Passed(u, LastGot(u))'
                      /\ \A e \in index'[i] : e.val = v => e.incr = LastGot(u)'
                      /\ \/ incr'[v][i] = LastGot(u)'
                         \/ \E w \in Threads : pc'[w] = "put_incr" /\ val'[w] = v /\ at'[w] = i)
    BY <1>3 DEF Copies
  <2>7. /\ Len(got[u]) # 0 /\ Passed(u, n)
        /\ \A e \in index[i] : e.val = v => e.incr = n
    BY <2>1 DEF Copies, n
  <2> QED
    BY <2>3, <2>4, <2>5, <2>6, <2>7
<1> QED
  BY <1>3, <1>4, <1>5, <1>6, <1>7

(* An entry's value is linked, and whoever works on it has come past the   *)
(* index.                                                                  *)
LEMMA EntryLinked ==
  ASSUME Known, ~astray, Placed, NEW i \in Indexes, NEW e \in index[i]
  PROVE  /\ e.val \in Items /\ state[e.val] = "linked"
         /\ \A u \in Threads : pc[u] \in HoldPCs /\ val[u] = e.val => i \in Entered(u)
<1>1. e.val \in Items /\ i \in Has(e.val)
  BY DEF Known, Inv, IndexTypes, Indexes, Has, In
<1>2. CASE \E u \in Threads : pc[u] \in HoldPCs /\ val[u] = e.val
  BY <1>1, <1>2 DEF Known, Inv, Owned, TakenBack, Placed, HoldPCs
<1>3. CASE \A u \in Threads : pc[u] \in HoldPCs => val[u] # e.val
  BY <1>1, <1>3 DEF Placed
<1> QED
  BY <1>2, <1>3

(* A step of t that works on y alone. *)
LEMMA PlacedBut ==
  ASSUME Placed, NEW t \in Threads, NEW y \in Items,
         Others(t), kinds' = kinds,
         pc[t] \in HoldPCs => val[t] = y,
         pc'[t] \in HoldPCs => val'[t] = y,
         \A u \in Threads \ {t} : pc[u] \in HoldPCs => val[u] # y,
         \A x \in Items \ {y} : state'[x] = state[x] /\ \A i \in Indexes : In(i, x)' <=> In(i, x),
         pc'[t] \in HoldPCs => Has(y)' = Entered(t)',
         pc'[t] \notin HoldPCs => Has(y)' = IF state'[y] = "linked" THEN Indexes ELSE {},
         \A u \in Threads : pc[u] \in HoldPCs => val[u] \in Items
  PROVE  Placed'
<1>0. Indexes' = Indexes
  BY DEF Indexes
<1>1. \A x \in Items \ {y} : Has(x)' = Has(x)
  BY <1>0 DEF Has
<1>2. ASSUME NEW u \in Threads, pc'[u] \in HoldPCs PROVE (Has(val[u]) = Entered(u))'
  <2>1. CASE u = t
    <3>1. val'[u] = y
      BY <1>2, <2>1
    <3> QED
      BY <1>2, <2>1, <3>1 DEF Has
  <2>2. CASE u # t
    <3>1. pc'[u] = pc[u] /\ val'[u] = val[u] /\ at'[u] = at[u] /\ num'[u] = num[u]
      BY <2>2 DEF Others
    <3>2. val[u] \in Items \ {y}
      BY <1>2, <2>2, <3>1
    <3>3. Entered(u)' = Entered(u)
      BY <1>0, <3>1 DEF Entered
    <3>4. Has(val[u]) = Entered(u)
      BY <1>2, <3>1 DEF Placed
    <3>5. PICK x \in Items \ {y} : x = val[u]
      BY <3>2
    <3>6. Has(x)' = Entered(u)'
      BY <1>1, <3>3, <3>4, <3>5
    <3> QED
      BY <3>1, <3>5, <3>6 DEF Has
  <2> QED
    BY <2>1, <2>2
<1>3. ASSUME NEW x \in Items, \A u \in Threads : pc'[u] \in HoldPCs => val'[u] # x
      PROVE  Has(x)' = IF state'[x] = "linked" THEN Indexes ELSE {}
  <2>1. CASE x = y
    BY <1>3, <2>1
  <2>2. CASE x # y
    <3>1. \A u \in Threads : pc[u] \in HoldPCs => val[u] # x
      BY <1>3, <2>2 DEF Others
    <3>2. Has(x) = IF state[x] = "linked" THEN Indexes ELSE {}
      BY <3>1 DEF Placed
    <3> QED
      BY <1>1, <2>2, <3>2
  <2> QED
    BY <2>1, <2>2
<1>4. (\A u \in Threads : pc[u] \in HoldPCs => Has(val[u]) = Entered(u))'
  BY <1>2
<1> QED
  BY <1>0, <1>3, <1>4 DEF Placed

(* One that works on no value. *)
LEMMA PlacedStill ==
  ASSUME Placed, NEW t \in Threads, Others(t), UNCHANGED <<kinds, index, state>>,
         pc[t] \notin HoldPCs, pc'[t] \notin HoldPCs
  PROVE  Placed'
<1>0. Indexes' = Indexes /\ \A x \in Items : Has(x)' = Has(x)
  BY DEF Indexes, Has, In
<1>1. ASSUME NEW u \in Threads, pc'[u] \in HoldPCs PROVE (Has(val[u]) = Entered(u))'
  <2>1. u # t
    BY <1>1
  <2>2. pc'[u] = pc[u] /\ val'[u] = val[u] /\ at'[u] = at[u] /\ num'[u] = num[u]
    BY <2>1 DEF Others
  <2>3. Entered(u)' = Entered(u) /\ Has(val[u]) = Entered(u)
    BY <1>0, <1>1, <2>2 DEF Entered, Placed
  <2>4. Has(val[u])' = Has(val[u])
    BY <2>2 DEF Has, In, Indexes
  <2> QED
    BY <2>3, <2>4
<1>2. ASSUME NEW x \in Items, \A u \in Threads : pc'[u] \in HoldPCs => val'[u] # x
      PROVE  Has(x)' = IF state'[x] = "linked" THEN Indexes ELSE {}
  <2>1. \A u \in Threads : pc[u] \in HoldPCs => val[u] # x
    BY <1>2 DEF Others
  <2> QED
    BY <1>0, <2>1 DEF Placed
<1>3. (\A u \in Threads : pc[u] \in HoldPCs => Has(val[u]) = Entered(u))'
  BY <1>1
<1> QED
  BY <1>0, <1>2, <1>3 DEF Placed

(* Nor do the entries' keys and incrs.                                     *)
LEMMA EntriesStill ==
  ASSUME Once, Right, NEW t \in Threads, Others(t), UNCHANGED <<kinds, index, key, incr>>,
         pc[t] # "put_incr"
  PROVE  Once' /\ Right'
<1>1. Indexes' = Indexes
  BY DEF Indexes
<1>2. Once'
  BY <1>1 DEF Once
<1>3. ASSUME NEW i \in Indexes, NEW e \in index[i]
      PROVE  /\ e.key = key[e.val][i]
             /\ kinds[i] = "dupl" =>
                  \/ e.incr = incr[e.val][i]
                  \/ \E u \in Threads : pc'[u] = "put_incr" /\ val'[u] = e.val /\ at'[u] = i
  BY DEF Right, Others
<1> QED
  BY <1>1, <1>2, <1>3 DEF Right

(* Nor what the deletes have found.                                        *)
LEMMA FindsStill ==
  ASSUME Finds, NEW t \in Threads, Others(t), aborted' = aborted,
         pc'[t] \in {"del_index", "del_free"} => from'[t] = 0
  PROVE  Finds'
<1>1. ASSUME NEW u \in Threads, pc'[u] \in {"del_index", "del_free"} PROVE from'[u] = 0
  BY <1>1 DEF Finds, Others
<1> QED
  BY <1>1 DEF Finds

(* What a del takes out is the entry of its value, and nothing else. *)
LEMMA TakenIs ==
  ASSUME Known, ~astray, Placed, Once, Right, First, Listed,
         NEW t \in Threads, pc[t] \in {"put_undo", "del_index"},
         pc[t] = "put_undo" => at[t] < num[t]
  PROVE  \E e \in index[at[t]] : e.val = val[t] /\ Taken(at[t], val[t]) = {e}
<1> DEFINE i == at[t]
           x == val[t]
<1>1. Globals /\ Locals /\ Shape /\ Filed /\ TypeOK
  BY TypeParts DEF Known, Basic
<1>2. /\ i \in Indexes /\ x \in Items /\ Indexes = 1 .. Len(kinds) /\ Len(kinds) \in Nat \ {0}
      /\ kinds[i] \in {"uniq", "dupl", "list"}
      /\ pc[t] = "put_undo" => num[t] \in Indexes
  BY <1>1, KindsAre DEF Locals, Shape, HoldPCs, OwnPCs
<1>3. i \in Entered(t)
  BY <1>2 DEF Entered
<1>4. PICK e \in index[i] : e.val = x
  <2>1. i \in Has(x)
    BY <1>3 DEF Placed, HoldPCs, OwnPCs
  <2> QED
    BY <2>1 DEF Has, In
<1>5. e.key = key[x][i] /\ (kinds[i] = "dupl" => e.incr = incr[x][i])
  <2>1. \A u \in Threads : ~ (pc[u] = "put_incr" /\ val[u] = x)
    BY DEF Known, Inv, Apart, HoldPCs, OwnPCs
  <2> QED
    BY <1>2, <1>4, <2>1 DEF Right
<1>6. \A f \in index[i] : (IF kinds[i] = "uniq" THEN e.key = f.key ELSE e.incr = f.incr) => e = f
  BY <1>1, <1>2, <1>4 DEF Filed
<1>7. \A f \in index[i] : f.incr \in Nat
  BY <1>1, <1>2 DEF Globals
<1> HIDE DEF i, x
<1>8. CASE kinds[i] = "dupl"
  <2>1. Taken(i, x) = {f \in index[i] : f.key = key[x][i] /\ f.incr = incr[x][i]}
    BY <1>8 DEF Taken
  <2> QED
    BY <1>4, <1>5, <1>6, <1>8, <2>1 DEF i, x
<1>9. CASE kinds[i] = "uniq"
  <2>1. Taken(i, x) = Found(i, key[x][i], 0)
    BY <1>9 DEF Taken
  <2>2. Hits(i, key[x][i], 0) = {f \in index[i] : f.key = key[x][i]}
    BY <1>9 DEF Hits
  <2>3. Hits(i, key[x][i], 0) = {e}
    BY <1>4, <1>5, <1>6, <1>9, <2>2
  <2>4. Found(i, key[x][i], 0) = {e}
    BY <1>4, <1>7, <2>3 DEF Found
  <2> QED
    BY <1>4, <2>1, <2>4 DEF i, x
<1>10. CASE kinds[i] = "list"
  <2>0. Len(kinds) = 1 /\ i = 1
    <3>1. Len(kinds) = 1
      BY <1>2, <1>10 DEF Listed
    <3> QED
      BY <1>2, <3>1
  <2>1. Len(kinds) = 1 /\ i = 1 /\ pc[t] = "del_index"
    BY <1>2, <2>0 DEF i
  <2>2. \A f \in index[i] : e.incr <= f.incr
    BY <1>4, <1>10, <2>1 DEF First, FirstOf, Fronted, x
  <2>3. Taken(i, x) = Found(i, key[x][i], 0)
    BY <1>10 DEF Taken
  <2>4. Hits(i, key[x][i], 0) = index[i]
    BY <1>10 DEF Hits
  <2>5. \A f \in Found(i, key[x][i], 0) : f = e
    BY <1>4, <1>6, <1>7, <1>10, <2>2, <2>4 DEF Found
  <2>6. e \in Found(i, key[x][i], 0)
    BY <1>4, <2>2, <2>4 DEF Found
  <2> QED
    BY <1>4, <2>3, <2>5, <2>6 DEF i, x
<1> QED
  BY <1>2, <1>8, <1>9, <1>10

(* A delete is late in a list only.                                        *)
LEMMA ListedStep ==
  ASSUME Known, Listed, NEW t \in Threads, Put(t) \/ Get(t) \/ Del(t) \/ Work(t)
  PROVE  Listed'
<1>1. kinds' = kinds /\ Indexes' = Indexes
  BY KeyStep
<1>2. late' => late \/ \E i \in Indexes : kinds[i] = "list"
  <2>1. CASE DelCas(t)
    <3>1. call[t].id \in Indexes
      BY TypeParts DEF Known, Basic, Locals
    <3> QED
      BY <2>1, <3>1 DEF DelCas
  <2>2. CASE late' = late
    BY <2>2
  <2> QED
    BY <2>1, <2>2
    DEF Work, Put, Get, Del, Ask, PutEnter, Make, Made, MakeFails, AllocFails, PutNone, PutAlloc,
        PutIndex, PutIncr, PutRefused, PutUndo, PutUnlock, PutFree, PutDone, PutLeave,
        GetEnter, GetNext, GetNone, GetCopy, GetLeave, DelEnter, DelGet, DelNone, DelBusy,
        DelIndex, DelAssert, DelFree, DelLeave, DelLast, history
<1> QED
  BY <1>1, <1>2 DEF Listed

(* The places a thread comes to from elsewhere. *)
LEMMA Arrives ==
  ASSUME Known, NEW t \in Threads, Put(t) \/ Get(t) \/ Del(t) \/ Work(t)
  PROVE  /\ pc'[t] \in GetPCs \ {"get_enter"} => GetEnter(t) \/ GetNext(t) \/ GetNone(t) \/ GetCopy(t)
         /\ pc'[t] = "get_enter" => Get(t)
         /\ pc'[t] = "del_enter" => Del(t) \/ DelBusy(t) \/ DelLeave(t)
         /\ pc'[t] \in DelPCs \ {"del_enter"} =>
              \/ DelEnter(t) \/ DelGet(t) \/ DelNone(t) \/ DelCas(t) \/ DelIndex(t)
              \/ DelAssert(t) \/ DelFree(t)
<1>1. Locals
  BY TypeParts DEF Known, Basic
<1> DEFINE to == pc'[t]
<1>2. CASE Put(t) \/ PutEnter(t) \/ Make(t) \/ Made(t) \/ MakeFails(t) \/ AllocFails(t)
  BY <1>1, <1>2 DEF Put, PutEnter, Make, Made, MakeFails, AllocFails, Goto, Locals, GetPCs, DelPCs
<1>3. CASE PutNone(t) \/ PutAlloc(t) \/ PutRefused(t) \/ PutUnlock(t) \/ PutFree(t) \/ PutDone(t) \/ PutLeave(t)
  BY <1>1, <1>3
  DEF PutNone, PutAlloc, PutRefused, PutUnlock, PutFree, PutDone, PutLeave, Goto, Locals, GetPCs,
      DelPCs
<1>4. CASE PutIndex(t) \/ PutIncr(t) \/ PutUndo(t)
  BY <1>1, <1>4 DEF PutIndex, PutIncr, PutUndo, Onward, Locals, GetPCs, DelPCs
<1>5. CASE Get(t) \/ Del(t)
  BY <1>1, <1>5 DEF Get, Del, Ask, Goto, Locals, GetPCs, DelPCs
<1>6. CASE GetEnter(t) \/ GetNext(t) \/ GetNone(t) \/ GetCopy(t) \/ GetLeave(t)
  <2>1. CASE GetLeave(t)
    BY <1>1, <2>1 DEF GetLeave, Goto, Locals, GetPCs, DelPCs
  <2>2. CASE ~GetLeave(t)
    <3>1. pc'[t] \in {"get_next", "get_copy", "get_leave"}
      BY <1>1, <1>6, <2>2 DEF GetEnter, GetNext, GetNone, GetCopy, Goto, Locals
    <3> QED
      BY <1>6, <2>2, <3>1 DEF GetPCs, DelPCs
  <2> QED
    BY <2>1, <2>2
<1>7. CASE DelBusy(t) \/ DelLeave(t) \/ DelLast(t)
  <2>1. pc'[t] \in {"del_enter", "idle"} /\ (DelLast(t) => pc'[t] = "idle")
    BY <1>1, <1>7 DEF DelBusy, DelLeave, DelLast, Goto, Locals
  <2> QED
    BY <1>7, <2>1 DEF GetPCs, DelPCs
<1>8. CASE DelEnter(t) \/ DelGet(t) \/ DelNone(t) \/ DelCas(t) \/ DelIndex(t) \/ DelAssert(t) \/ DelFree(t)
  <2>1. pc'[t] \in DelPCs \ {"del_enter"}
    BY <1>1, <1>8
    DEF DelEnter, DelGet, DelNone, DelCas, DelIndex, DelAssert, DelFree, Goto, Locals, DelPCs
  <2> QED
    BY <1>8, <2>1 DEF GetPCs, DelPCs
<1> QED
  BY <1>2, <1>3, <1>4, <1>5, <1>6, <1>7, <1>8 DEF Work

(* Every step keeps what is due in the index.                              *)
LEMMA DueStep ==
  ASSUME Known, Due, NEW t \in Threads, Put(t) \/ Get(t) \/ Del(t) \/ Work(t)
  PROVE  Due'
<1>1. Globals /\ Locals /\ Histories
  BY TypeParts DEF Known, Basic
<1>2. Others(t)
  BY <1>1, OnlyOwn
<1>3. ASSUME NEW u \in Threads \ {t} PROVE DueOf(u)'
  <2>1. pc'[u] = pc[u] /\ call'[u] = call[u] /\ due'[u] \subseteq due[u]
    BY <1>2 DEF Others
  <2>2. CASE pc[u] \in GetPCs \ {"get_enter"}
    BY <2>1, <2>2, DueKept
  <2>3. CASE pc[u] \notin GetPCs \ {"get_enter"}
    BY <2>1, <2>3 DEF DueOf
  <2> QED
    BY <2>2, <2>3
<1>4. DueOf(t)'
  <2>1. CASE GetEnter(t)
    <3>1. /\ call' = call /\ index' = index /\ kinds' = kinds
          /\ due'[t] = {e.incr : e \in Hits(call[t].id, call[t].key, 0)}
      BY <1>1, <2>1 DEF GetEnter, locals, bufVars, Locals
    <3>2. kinds[call[t].id] = "dupl" => \A e \in Hits(call[t].id, call[t].key, 0) :
                                          e \in index[call[t].id] /\ e.key = call[t].key
      BY DEF Hits
    <3> QED
      BY <3>1, <3>2 DEF DueOf
  <2>2. CASE GetNext(t) \/ GetNone(t) \/ GetCopy(t)
    <3>1. /\ call' = call /\ due' = due /\ pc[t] \in GetPCs \ {"get_enter"}
      BY <2>2 DEF GetNext, GetNone, GetCopy, Goto, history, GetPCs
    <3> QED
      BY <3>1, DueKept
  <2>3. CASE pc'[t] \notin GetPCs \ {"get_enter"}
    BY <2>3 DEF DueOf
  <2> QED
    BY <2>1, <2>2, <2>3, Arrives
<1> QED
  BY <1>3, <1>4 DEF Due

(* A call that reads an entry while it is inside is safe with its value. *)
LEMMA ReadSafe ==
  ASSUME Known, ~astray, Placed, NEW t \in Threads, t \in inside, NEW e \in index[call[t].id],
         pc[t] \notin {"put_index", "put_incr"},
         pc' = [pc EXCEPT ![t] = "get_copy"] \/ pc' = [pc EXCEPT ![t] = "del_cas"],
         val' = [val EXCEPT ![t] = e.val],
         UNCHANGED <<inside, state, guards, call, at>>
  PROVE  SafeOf(t)'
<1>1. Globals /\ Locals /\ Shape
  BY TypeParts DEF Known, Basic
<1>2. /\ call[t].id \in Indexes /\ val'[t] = e.val /\ pc'[t] \in {"get_copy", "del_cas"}
      /\ \A u \in Threads \ {t} : pc'[u] = pc[u] /\ val'[u] = val[u]
  BY <1>1 DEF Locals
<1>3. /\ state[e.val] = "linked"
      /\ \A u \in Threads : pc[u] \in HoldPCs /\ val[u] = e.val => call[t].id \in Entered(u)
  BY <1>2, EntryLinked
<1>4. ASSUME NEW u \in Threads, val'[u] = e.val
      PROVE  /\ pc'[u] = "put_index" => at[u] > call[t].id
             /\ pc'[u] = "put_incr" => at[u] >= call[t].id
  <2>1. at[u] \in Nat /\ call[t].id \in Nat
    BY <1>1, KindsAre DEF Known, Basic, Locals
  <2>2. CASE u = t
    BY <1>2, <2>2
  <2>3. CASE u # t
    <3>1. pc[u] \in HoldPCs => call[t].id \in Entered(u)
      BY <1>2, <1>3, <1>4, <2>3
    <3> QED
      BY <1>2, <2>1, <2>3, <3>1 DEF Entered, HoldPCs, OwnPCs
  <2> QED
    BY <2>2, <2>3
<1> QED
  BY <1>2, <1>3, <1>4 DEF SafeOf

(* Every step keeps the values safe that calls have read.                  *)
LEMMA SafeStep ==
  ASSUME Known, ~astray, Placed, Safe, NEW t \in Threads, Put(t) \/ Get(t) \/ Del(t) \/ Work(t)
  PROVE  Safe'
<1>1. Globals /\ Locals /\ Shape /\ TypeOK
  BY TypeParts DEF Known, Basic
<1>2. pc'[t] \in EmptyPCs => val'[t] = Null
  BY GlobalStep, MineStep DEF Mine
<1>3. ASSUME val' = val, pc[t] \in CallPCs, UNCHANGED <<inside, state, guards>>,
             pc'[t] \notin {"get_copy", "del_cas"}
      PROVE  SafeOf(t)'
  BY <1>3 DEF Safe, SafeOf
<1>4. ASSUME GetNext(t) \/ DelGet(t) PROVE SafeOf(t)'
  <2>1. \E e \in index[call[t].id] : val' = [val EXCEPT ![t] = e.val]
    <3>1. call[t].id \in Indexes
      BY <1>1 DEF Locals
    <3> QED
      BY <1>1, <1>4, <3>1, FoundType DEF GetNext, DelGet
  <2>2. CASE t \notin inside
    BY <1>4, <2>2 DEF GetNext, DelGet, poolVars, SafeOf
  <2>3. CASE t \in inside
    BY <1>4, <2>1, <2>3, ReadSafe DEF GetNext, DelGet, Goto, poolVars
  <2> QED
    BY <2>2, <2>3
<1>5. ASSUME GetNone(t) PROVE SafeOf(t)'
  <2>1. val'[t] = Null
    BY <1>1, <1>5 DEF GetNone, Locals
  <2> QED
    BY <2>1 DEF SafeOf
<1>6. ASSUME GetEnter(t) \/ DelEnter(t) PROVE SafeOf(t)'
  <2>1. val' = val /\ val[t] = Null
    BY <1>1, <1>6 DEF GetEnter, DelEnter, Goto, Shape, EmptyPCs, locals
  <2> QED
    BY <2>1 DEF SafeOf
<1>7. ASSUME GetCopy(t) \/ DelIndex(t) PROVE SafeOf(t)'
  <2>1. /\ pc[t] \in {"get_copy", "del_index"} /\ val' = val
        /\ pc'[t] \in {"del_free", "del_index", "get_leave", "get_next"}
        /\ UNCHANGED <<inside, state, guards>>
    BY <1>1, <1>7 DEF DelIndex, GetCopy, Locals, poolVars
  <2> QED
    BY <1>3, <2>1 DEF CallPCs, GetPCs, DelPCs
<1>8. ASSUME DelNone(t) PROVE SafeOf(t)'
  <2>1. val' = val /\ val[t] = Null
    BY <1>1, <1>8 DEF DelNone, Goto, Shape, EmptyPCs, locals
  <2> QED
    BY <2>1 DEF SafeOf
<1>9. ASSUME DelCas(t) PROVE SafeOf(t)'
  <2>1. /\ pc[t] = "del_cas" /\ pc'[t] = "del_index" /\ val' = val
        /\ UNCHANGED <<inside, state, guards>>
    BY <1>1, <1>9 DEF DelCas, Goto, Locals, poolVars, locals
  <2> QED
    BY <1>3, <2>1 DEF CallPCs, DelPCs
<1>10. ASSUME DelAssert(t) PROVE SafeOf(t)'
  <2>1. /\ pc[t] = "del_free" /\ pc' = pc /\ val' = val
        /\ UNCHANGED <<inside, state, guards>>
    BY <1>1, <1>10 DEF DelAssert, poolVars, locals
  <2> QED
    BY <1>3, <2>1 DEF CallPCs, DelPCs
<1>11. ASSUME DelFree(t) PROVE SafeOf(t)'
  <2>1. /\ val[t] \in Items /\ val' = val /\ pc'[t] = "del_leave" /\ inside' = inside
        /\ state' = [state EXCEPT ![val[t]] = "retired"]
        /\ guards' = [guards EXCEPT ![val[t]] = inside]
    BY <1>1, <1>11 DEF DelFree, Goto, Pool!Retire, Locals, Shape, HoldPCs, OwnPCs, locals
  <2> QED
    BY <1>1, <2>1 DEF SafeOf, Globals
<1>12. ASSUME pc'[t] \in EmptyPCs PROVE SafeOf(t)'
  BY <1>2, <1>12 DEF SafeOf
<1>13. ASSUME pc'[t] \notin CallPCs PROVE SafeOf(t)'
  BY <1>13 DEF SafeOf
<1>14. SafeOf(t)'
  <2>1. pc'[t] \in CallPCs => \/ pc'[t] \in GetPCs \ {"get_enter"}
                              \/ pc'[t] \in DelPCs \ {"del_enter"} \/ pc'[t] \in EmptyPCs
    BY DEF CallPCs, EmptyPCs
  <2> QED
    BY <1>4, <1>5, <1>6, <1>7, <1>8, <1>9, <1>10, <1>11, <1>12, <1>13, <2>1, Arrives
<1> QED
  BY <1>14, SafeOthers DEF Safe

(* A delete in a list reads the front and keeps it.                        *)
LEMMA FirstStep ==
  ASSUME Known, ~astray, ~late', Safe, Listed, Once, First,
         NEW t \in Threads, Put(t) \/ Get(t) \/ Del(t) \/ Work(t)
  PROVE  First'
<1>1. Globals /\ Locals /\ Histories /\ TypeOK
  BY TypeParts DEF Known, Basic
<1>2. Others(t) /\ Guarding(t) /\ kinds' = kinds
  BY <1>1, OnlyOwn, KeyStep, GuardingStep
<1> SUFFICES ASSUME NEW u \in Threads, Fronted(u)', kinds[1] = "list"
             PROVE  \A e, f \in index'[1] : e.val = val'[u] => e.incr <= f.incr
  BY <1>2 DEF First, FirstOf
<1>3. CASE Fronted(u) /\ val'[u] = val[u]
  BY <1>3, FirstKept DEF First
<1>0. call[t].id = 1 /\ 1 \in Indexes
  <2>1. 1 \in Indexes /\ Indexes = 1 .. Len(kinds)
    BY <1>1, KindsAre
  <2>2. Len(kinds) = 1
    BY <2>1 DEF Listed
  <2> QED
    BY <1>1, <2>1, <2>2 DEF Locals
<1>4. CASE u = t /\ DelGet(t)
  <2>2. PICK e \in Found(1, call[t].key, 0) : val' = [val EXCEPT ![t] = e.val]
    BY <1>4, <1>0 DEF DelGet
  <2>3. e \in index[1] /\ val'[t] = e.val /\ index' = index
    BY <1>1, <1>4, <1>0, <2>2, FoundType DEF DelGet, Locals, bufVars
  <2>4. \A f \in index[1] : e.incr <= f.incr
    <3>1. Hits(1, call[t].key, 0) = index[1]
      BY DEF Hits
    <3> QED
      BY <2>2, <3>1 DEF Found
  <2> QED
    BY <1>4, <1>0, <2>3, <2>4 DEF Once
<1>5. CASE u = t /\ ~DelGet(t)
  <2>1. DelCas(t) \/ DelIndex(t)
    <3>1. pc'[t] \in DelPCs \ {"del_enter"} /\ pc'[t] \in {"del_cas", "del_index"}
      BY <1>5 DEF DelPCs, Fronted
    <3>2. DelEnter(t) => pc'[t] = "del_get"
      BY <1>1 DEF DelEnter, Goto, Locals
    <3>3. DelNone(t) => pc'[t] = "del_last"
      BY <1>1 DEF DelNone, Goto, Locals
    <3>4. DelFree(t) => pc'[t] = "del_leave"
      BY <1>1 DEF DelFree, Goto, Locals
    <3>5. DelAssert(t) => pc'[t] = "del_free"
      BY DEF DelAssert
    <3> QED
      BY <1>5, <3>1, <3>2, <3>3, <3>4, <3>5, Arrives
  <2>2. Fronted(t) /\ val' = val
    <3>1. DelCas(t) => t \in inside
      BY <1>0 DEF DelCas
    <3> QED
      BY <2>1, <3>1 DEF DelCas, DelIndex, Goto, Fronted, locals
  <2> QED
    BY <1>3, <1>5, <2>2
<1>6. CASE u # t
  BY <1>2, <1>3, <1>6 DEF Others, Guarding, Fronted
<1> QED
  BY <1>4, <1>5, <1>6

(* A delete finds its value in every index, so the assertion holds.        *)
LEMMA FindsStep ==
  ASSUME Known, ~astray, Placed, Once, Right, First, Listed, Finds,
         NEW t \in Threads, Put(t) \/ Get(t) \/ Del(t) \/ Work(t)
  PROVE  Finds'
<1>1. Globals /\ Locals /\ Histories /\ Shape
  BY TypeParts DEF Known, Basic
<1>2. Others(t)
  BY <1>1, OnlyOwn
<1>3. ~DelAssert(t)
  BY DEF DelAssert, Finds
<1>4. aborted' = aborted
  BY <1>3
  DEF Work, Put, Get, Del, Ask, PutEnter, Make, Made, MakeFails, AllocFails, PutNone, PutAlloc,
      PutIndex, PutIncr, PutRefused, PutUndo, PutUnlock, PutFree, PutDone, PutLeave,
      GetEnter, GetNext, GetNone, GetCopy, GetLeave, DelEnter, DelGet, DelNone, DelCas, DelBusy,
      DelIndex, DelFree, DelLeave, DelLast, bounds
<1>5. ASSUME pc'[t] \in {"del_index", "del_free"} PROVE from'[t] = 0
  <2>1. CASE DelCas(t)
    BY <1>1, <2>1 DEF DelCas, Goto, Shape, locals
  <2>2. CASE DelIndex(t)
    <3>1. pc[t] = "del_index"
      BY <2>2 DEF DelIndex
    <3>2. Taken(at[t], val[t]) # {}
      BY <3>1, TakenIs
    <3>3. from[t] = 0
      BY <3>1 DEF Finds
    <3> QED
      BY <1>1, <2>2, <3>2, <3>3 DEF DelIndex, Locals
  <2>3. DelCas(t) \/ DelIndex(t)
    <3>1. pc'[t] \in DelPCs \ {"del_enter"}
      BY <1>5 DEF DelPCs
    <3>2. DelEnter(t) => pc'[t] = "del_get"
      BY <1>1 DEF DelEnter, Goto, Locals
    <3>3. DelNone(t) => pc'[t] = "del_last"
      BY <1>1 DEF DelNone, Goto, Locals
    <3>4. DelFree(t) => pc'[t] = "del_leave"
      BY <1>1 DEF DelFree, Goto, Locals
    <3>5. DelGet(t) => pc'[t] = "del_cas"
      BY <1>1 DEF DelGet, Goto, Locals
    <3> QED
      BY <1>3, <1>5, <3>1, <3>2, <3>3, <3>4, <3>5, Arrives
  <2> QED
    BY <2>1, <2>2, <2>3
<1> QED
  BY <1>2, <1>4, <1>5, FindsStill

(* A get finds nothing only if there is nothing from its place on. *)
LEMMA FoundSome ==
  ASSUME TypeOK, NEW i \in Indexes, NEW k, NEW n, Found(i, k, n) = {}
  PROVE  Hits(i, k, n) = {}
<1> SUFFICES ASSUME Hits(i, k, n) # {} PROVE FALSE
  OBVIOUS
<1> DEFINE S == {e.incr : e \in Hits(i, k, n)}
<1>1. S \subseteq Nat /\ S # {}
  BY HitsType
<1> HIDE DEF S
<1>2. PICK m \in S : \A j \in S : m <= j
  BY <1>1, LeastNumber
<1>3. PICK e \in Hits(i, k, n) : e.incr = m
  BY DEF S
<1>4. \A f \in Hits(i, k, n) : e.incr <= f.incr
  BY <1>2, <1>3 DEF S
<1> QED
  BY <1>4 DEF Found

(* What is due from the get's place on can be found. *)
LEMMA DueHits ==
  ASSUME Due, NEW t \in Threads, pc[t] = "get_next", kinds[call[t].id] = "dupl",
         NEW d \in due[t], d >= from[t]
  PROVE  \E e \in Hits(call[t].id, call[t].key, from[t]) : e.incr = d
<1>1. PICK e \in index[call[t].id] : e.key = call[t].key /\ e.incr = d
  BY DEF Due, DueOf, GetPCs
<1> QED
  BY <1>1 DEF Hits

(* A get's own steps: the next value has a greater incr, and nothing that  *)
(* is due lies between.                                                    *)
LEMMA GetsOwn ==
  ASSUME Known, Due, Placed, Once, Right, Getting,
         NEW t \in Threads, Put(t) \/ Get(t) \/ Del(t) \/ Work(t)
  PROVE  GetsOf(t)'
<1>1. Globals /\ Locals /\ Histories /\ Shape /\ TypeOK
  BY TypeParts DEF Known, Basic
<1> DEFINE i == call[t].id
<1>2. i \in Indexes /\ got[t] \in Seq(Nat) /\ due[t] \in SUBSET Nat /\ from[t] \in Nat
  BY <1>1 DEF Locals
<1>3. ASSUME GetEnter(t) PROVE GetsOf(t)'
  <2>1. /\ pc'[t] = "get_next" /\ got'[t] = <<>> /\ from'[t] = 0
    BY <1>1, <1>3 DEF GetEnter, Goto, Locals, Shape, EmptyPCs, locals
  <2>2. due'[t] \in SUBSET Nat
    BY GlobalStep, MineStep DEF Mine
  <2>3. Rises(t)'
    BY <2>1 DEF Rises
  <2>4. Passed(t, from[t])'
    BY <2>1, <2>2 DEF Passed
  <2> QED
    BY <2>1, <2>3, <2>4 DEF GetsOf
<1>4. ASSUME GetNext(t) PROVE GetsOf(t)'
  <2>1. PICK e \in Found(i, call[t].key, from[t]) :
          val' = [val EXCEPT ![t] = e.val] /\ got' = [got EXCEPT ![t] = Append(@, e.incr)]
    BY <1>4 DEF GetNext
  <2>2. /\ pc[t] = "get_next" /\ pc' = [pc EXCEPT ![t] = "get_copy"]
        /\ UNCHANGED <<kinds, index, inside, incr, call, at, due, raced>>
    BY <1>4 DEF GetNext, Goto, bufVars, poolVars, valVars
  <2> SUFFICES ASSUME t \in inside, kinds[i] = "dupl", ~raced[t]
               PROVE  Rises(t)' /\ Copies(t)'
    BY <1>1, <2>2 DEF GetsOf, Locals
  <2>3. e \in index[i] /\ e.incr \in Nat /\ e.val \in Items
    BY <1>1, <1>2, FoundType
  <2>4. e.incr >= from[t] /\ \A f \in Hits(i, call[t].key, from[t]) : e.incr <= f.incr
    BY <2>1 DEF Found, Hits
  <2>5. /\ Rises(t) /\ Passed(t, from[t]) /\ \A a \in DOMAIN got[t] : got[t][a] < from[t]
    BY <2>2 DEF Getting, GetsOf, GetPCs
  <2>6. /\ val'[t] = e.val /\ got'[t] = Append(got[t], e.incr)
    BY <1>1, <2>1 DEF Locals
  <2> DEFINE g == got[t]
             m == Len(g)
  <2>7. /\ m \in Nat /\ DOMAIN g = 1 .. m /\ \A a \in 1 .. m : g[a] \in Nat
        /\ Len(got'[t]) = m + 1 /\ DOMAIN got'[t] = 1 .. m + 1 /\ got'[t][m + 1] = e.incr
        /\ \A a \in 1 .. m : got'[t][a] = g[a]
    BY <1>2, <2>3, <2>6
  <2>8. Rises(t)'
    <3> SUFFICES ASSUME NEW a \in 1 .. m + 1, NEW b \in 1 .. m + 1, a < b
                 PROVE  got'[t][a] < got'[t][b]
      BY <2>7 DEF Rises
    <3>1. a \in 1 .. m
      BY <2>7
    <3>2. CASE b \in 1 .. m
      BY <2>5, <2>7, <3>1, <3>2 DEF Rises
    <3>3. CASE b = m + 1
      <4>1. g[a] < from[t] /\ g[a] \in Nat
        BY <2>5, <2>7, <3>1
      <4> QED
        BY <1>2, <2>3, <2>4, <2>7, <3>1, <3>3, <4>1
    <3> QED
      BY <2>7, <3>2, <3>3
  <2>9. LastGot(t)' = e.incr
    BY <2>7 DEF LastGot
  <2>10. \A d \in due[t] : d >= e.incr \/ \E a \in DOMAIN got'[t] : got'[t][a] = d
    <3> SUFFICES ASSUME NEW d \in due[t] PROVE d >= e.incr \/ \E a \in 1 .. m + 1 : got'[t][a] = d
      BY <2>7
    <3>1. CASE d >= from[t]
      <4>1. PICK f \in Hits(i, call[t].key, from[t]) : f.incr = d
        BY <2>2, <3>1, DueHits
      <4> QED
        BY <1>2, <2>3, <2>4, <4>1
    <3>2. CASE \E a \in DOMAIN g : g[a] = d
      BY <2>7, <3>2
    <3> QED
      BY <2>5, <3>1, <3>2 DEF Passed
  <2>11. Passed(t, LastGot(t))'
    BY <2>2, <2>9, <2>10 DEF Passed
  <2>12. \A f \in index[i] : f.val = e.val => f.incr = e.incr
    BY <1>2, <2>3 DEF Once
  <2>13. \/ incr[e.val][i] = e.incr
         \/ \E u \in Threads : pc'[u] = "put_incr" /\ val'[u] = e.val /\ at'[u] = i
    <3>1. CASE incr[e.val][i] = e.incr
      BY <3>1
    <3>2. ASSUME NEW u \in Threads, pc[u] = "put_incr" /\ val[u] = e.val /\ at[u] = i
          PROVE  pc'[u] = "put_incr" /\ val'[u] = e.val /\ at'[u] = i
      <4>1. u # t
        BY <2>2, <3>2
      <4> QED
        BY <1>1, <2>1, <2>2, <3>2, <4>1 DEF Locals
    <3> QED
      BY <1>2, <2>3, <3>1, <3>2 DEF Right
  <2>14. Len(got'[t]) # 0
    BY <2>7
  <2>15. Copies(t)'
    <3> HIDE DEF i
    <3>1. call'[t].id = i
      BY <2>2 DEF i
    <3> QED
      BY <2>2, <2>6, <2>9, <2>11, <2>12, <2>13, <2>14, <3>1 DEF Copies
  <2> QED
    BY <2>8, <2>15
<1>5. ASSUME GetNone(t) PROVE GetsOf(t)'
  <2>1. /\ pc[t] = "get_next" /\ pc' = [pc EXCEPT ![t] = "get_leave"]
        /\ Found(i, call[t].key, from[t]) = {}
        /\ UNCHANGED <<kinds, index, inside, call, num, due, raced, got>>
    BY <1>5 DEF GetNone, Goto, bufVars, poolVars, valVars, history
  <2> SUFFICES ASSUME t \in inside, kinds[i] = "dupl", ~raced[t]
               PROVE  Rises(t)' /\ \A d \in due[t] : \E a \in DOMAIN got[t] : got[t][a] = d
    BY <1>1, <2>1 DEF GetsOf, Locals
  <2>2. Hits(i, call[t].key, from[t]) = {}
    BY <1>1, <1>2, <2>1, FoundSome
  <2>3. Rises(t) /\ Passed(t, from[t])
    BY <2>1 DEF Getting, GetsOf, GetPCs
  <2>4. Rises(t)'
    BY <2>1, <2>3 DEF Rises
  <2>5. ASSUME NEW d \in due[t] PROVE \E a \in DOMAIN got[t] : got[t][a] = d
    BY <2>1, <2>2, <2>3, DueHits DEF Passed
  <2> QED
    BY <2>4, <2>5
<1>6. ASSUME GetCopy(t) PROVE GetsOf(t)'
  <2> DEFINE n == incr[val[t]][i]
             met == \E u \in Threads : val[u] = val[t] /\ pc[u] = "put_incr"
  <2>1. /\ pc[t] = "get_copy" /\ from' = [from EXCEPT ![t] = n + 1]
        /\ pc' = [pc EXCEPT ![t] = IF num[t] + 1 = call[t].top THEN "get_leave" ELSE "get_next"]
        /\ num' = [num EXCEPT ![t] = @ + 1]
        /\ raced' = [raced EXCEPT ![t] = @ \/ met]
        /\ UNCHANGED <<kinds, index, inside, call, due, got>>
    BY <1>6 DEF GetCopy, bufVars, poolVars, valVars
  <2>2. /\ from'[t] = n + 1 /\ num'[t] = num[t] + 1 /\ raced'[t] = (raced[t] \/ met)
        /\ pc'[t] = (IF num[t] + 1 = call[t].top THEN "get_leave" ELSE "get_next")
    BY <1>1, <2>1 DEF Locals, Histories
  <2>10. n' = n
    BY <1>6, <2>1 DEF GetCopy, valVars
  <2> SUFFICES ASSUME t \in inside, kinds[i] = "dupl", ~raced[t], ~met
               PROVE  /\ Rises(t)' /\ Passed(t, n + 1)' /\ \A a \in DOMAIN got[t] : got[t][a] < n + 1
    <3>1. pc'[t] = "get_leave" => ~ (num'[t] < call[t].top)
      BY <1>1, <2>2 DEF Locals
    <3>2. pc'[t] # "get_copy"
      BY <2>2
    <3>3. (t \in inside)' /\ (kinds[call[t].id] = "dupl")' /\ ~raced'[t]
            => t \in inside /\ kinds[i] = "dupl" /\ ~raced[t] /\ ~met
      BY <2>1, <2>2
    <3>4. (Passed(t, n + 1)' => Passed(t, from[t])') /\ call' = call /\ got' = got
      BY <2>1, <2>2, <2>10 DEF Passed
    <3> HIDE DEF met, n
    <3> QED
      BY <2>2, <3>1, <3>2, <3>3, <3>4 DEF GetsOf
  <2>3. Rises(t) /\ Copies(t)
    BY <2>1 DEF Getting, GetsOf, GetPCs
  <2>4. n = LastGot(t) /\ Passed(t, n) /\ Len(got[t]) # 0
    BY <2>3 DEF Copies
  <2>5. n \in Nat /\ Len(got[t]) \in DOMAIN got[t] /\ got[t][Len(got[t])] = n
        /\ \A a \in DOMAIN got[t] : a <= Len(got[t]) /\ got[t][a] \in Nat
    BY <1>2, <2>4 DEF LastGot
  <2>6. \A a \in DOMAIN got[t] : got[t][a] < n + 1
    <3> HIDE DEF n
    <3> SUFFICES ASSUME NEW a \in DOMAIN got[t] PROVE got[t][a] < n + 1
      OBVIOUS
    <3>1. a = Len(got[t]) \/ a < Len(got[t])
      BY <1>2, <2>5
    <3> QED
      BY <2>3, <2>5, <3>1 DEF Rises
  <2>7. \A d \in due[t] : d >= n + 1 \/ \E a \in DOMAIN got[t] : got[t][a] = d
    <3> HIDE DEF n
    <3> SUFFICES ASSUME NEW d \in due[t], ~ \E a \in DOMAIN got[t] : got[t][a] = d
                 PROVE  d >= n + 1
      OBVIOUS
    <3>1. d >= n /\ d # n /\ d \in Nat
      BY <1>2, <2>4, <2>5 DEF Passed
    <3> QED
      BY <2>5, <3>1
  <2>8. Rises(t)'
    BY <2>1, <2>3 DEF Rises
  <2>9. (\A d \in due[t] : d >= n + 1 \/ \E a \in DOMAIN got[t] : got[t][a] = d)
          => \A d \in due'[t] : d >= n + 1 \/ \E a \in DOMAIN got'[t] : got'[t][a] = d
    BY <2>1
  <2> QED
    BY <2>6, <2>7, <2>8, <2>9, <2>10 DEF Passed
<1> QED
  <2>1. pc'[t] \notin GetPCs \ {"get_enter"} => GetsOf(t)'
    BY DEF GetsOf
  <2> QED
    BY <1>3, <1>4, <1>5, <1>6, <2>1, Arrives

(* The entry of y leaves index i, or comes to it. *)
LEMMA HasLess ==
  ASSUME Globals, Once, NEW i \in Indexes, NEW e \in index[i], NEW y, y = e.val,
         index' = [index EXCEPT ![i] = @ \ {e}], kinds' = kinds
  PROVE  /\ \A x \in Items \ {y}, j \in Indexes : In(j, x)' <=> In(j, x)
         /\ Has(y)' = Has(y) \ {i}
<1>1. Indexes' = Indexes
  BY DEF Indexes
<1>2. \A j \in Indexes : index'[j] = IF j = i THEN index[i] \ {e} ELSE index[j]
  BY DEF Globals
<1>3. \A x \in Items \ {y}, j \in Indexes : In(j, x)' <=> In(j, x)
  BY <1>2 DEF In
<1>4. ASSUME NEW j \in Indexes PROVE In(j, y)' <=> In(j, y) /\ j # i
  BY <1>2 DEF In, Once
<1> QED
  BY <1>1, <1>3, <1>4 DEF Has

(* An index that got a value has it, and the others are as they were.      *)
LEMMA HasMore ==
  ASSUME Globals, NEW i \in Indexes, NEW e, NEW y, y = e.val,
         index' = [index EXCEPT ![i] = @ \cup {e}], kinds' = kinds
  PROVE  /\ \A x \in Items \ {y}, j \in Indexes : In(j, x)' <=> In(j, x)
         /\ Has(y)' = Has(y) \cup {i}
<1>1. Indexes' = Indexes
  BY DEF Indexes
<1>2. \A j \in Indexes : index'[j] = IF j = i THEN index[i] \cup {e} ELSE index[j]
  BY DEF Globals
<1>3. \A x \in Items \ {y}, j \in Indexes : In(j, x)' <=> In(j, x)
  BY <1>2 DEF In
<1>4. ASSUME NEW j \in Indexes PROVE In(j, y)' <=> In(j, y) \/ j = i
  BY <1>2 DEF In
<1> QED
  BY <1>1, <1>3, <1>4 DEF Has

(* A value that is held is held by one thread, and entered where it says. *)
LEMMA Holding ==
  ASSUME Known, ~astray, Placed, NEW t \in Threads, pc[t] \in HoldPCs
  PROVE  /\ val[t] \in Items /\ val[t] # Null /\ Has(val[t]) = Entered(t)
         /\ \A u \in Threads \ {t} : pc[u] \in HoldPCs => val[u] # val[t]
         /\ state[val[t]] = "linked"
<1>1. val[t] \in Items /\ val[t] # Null
  BY NullAssumption DEF Known, Basic, Shape
<1>2. state[val[t]] = "linked"
  BY DEF Known, Inv, Owned, TakenBack, HoldPCs
<1> QED
  BY <1>1, <1>2 DEF Placed, Known, Inv, Apart

(* A new value is in no index.                                             *)
LEMMA PlacedAlloc ==
  ASSUME Known, ~astray, Placed, Once, Right, NEW t \in Threads, PutAlloc(t)
  PROVE  Placed' /\ Once' /\ Right'
<1>1. Globals /\ Locals /\ Histories /\ Shape
  BY TypeParts DEF Known, Basic
<1>2. PICK x \in Items :
        /\ state[x] = "free" /\ state' = [state EXCEPT ![x] = "linked"]
        /\ key' = [key EXCEPT ![x] = call[t].key]
        /\ val' = [val EXCEPT ![t] = x]
  BY DEF PutAlloc, Pool!Publish
<1>3. /\ pc[t] = "put_alloc" /\ pc'[t] = "put_index" /\ at'[t] = 1 /\ val'[t] = x
      /\ UNCHANGED <<kinds, index, incr>>
  BY <1>1, <1>2 DEF PutAlloc, Goto, Locals, Shape, EmptyPCs, NewPCs, bufVars
<1>4. \A u \in Threads : pc[u] \in HoldPCs => val[u] # x /\ val[u] \in Items
  BY <1>2, Holding
<1>5. Has(x) = {}
  BY <1>2, <1>4 DEF Placed
<1>6. Indexes' = Indexes /\ Has(x)' = {} /\ \A z \in Items, i \in Indexes : In(i, z)' <=> In(i, z)
  BY <1>3, <1>5 DEF Has, In, Indexes
<1>7. Others(t)
  BY <1>1, OnlyOwn DEF Work
<1>8. Placed'
  <2>1. Entered(t)' = {}
    BY <1>3 DEF Entered
  <2>2. \A z \in Items \ {x} : state'[z] = state[z]
    BY <1>1, <1>2 DEF Globals
  <2>3. pc[t] \notin HoldPCs /\ pc'[t] \in HoldPCs
    BY <1>3 DEF HoldPCs, OwnPCs
  <2> QED
    BY <1>3, <1>4, <1>6, <1>7, <2>1, <2>2, <2>3, PlacedBut
<1>9. Once'
  BY <1>3, <1>6 DEF Once
<1>10. ASSUME NEW i \in Indexes, NEW e \in index[i]
       PROVE  /\ e.key = key'[e.val][i]
              /\ kinds[i] = "dupl" =>
                   \/ e.incr = incr[e.val][i]
                   \/ \E u \in Threads : pc'[u] = "put_incr" /\ val'[u] = e.val /\ at'[u] = i
  <2>1. e.val # x
    BY <1>5 DEF Has, In
  <2>2. key'[e.val] = key[e.val]
    BY <1>1, <1>2, <2>1 DEF Globals
  <2>3. ASSUME NEW u \in Threads, pc[u] = "put_incr" /\ val[u] = e.val /\ at[u] = i
        PROVE  pc'[u] = "put_incr" /\ val'[u] = e.val /\ at'[u] = i
    BY <1>3, <1>7, <2>3 DEF Others
  <2> QED
    BY <2>2, <2>3 DEF Right
<1> QED
  BY <1>3, <1>6, <1>8, <1>9, <1>10 DEF Right

(* A put enters the value in the index at hand.                            *)
LEMMA PlacedIndex ==
  ASSUME Known, ~astray, Placed, Once, Right, NEW t \in Threads, PutIndex(t)
  PROVE  Placed' /\ Once' /\ Right'
<1>1. Globals /\ Locals /\ Histories /\ Shape /\ TypeOK
  BY TypeParts DEF Known, Basic
<1>0. PICK y \in Items : y = val[t]
  BY <1>1 DEF PutIndex, Shape, HoldPCs, OwnPCs
<1> DEFINE i == at[t]
           n == IF kinds[i] = "uniq" THEN 0 ELSE incr_key[i]
           new == [key |-> key[y][i], incr |-> n, val |-> y]
<1>2. /\ pc[t] = "put_index" /\ index' = [index EXCEPT ![i] = @ \cup {new}]
      /\ UNCHANGED <<kinds, key, incr, state, val>>
      /\ IF kinds[i] = "dupl" THEN pc' = [pc EXCEPT ![t] = "put_incr"] /\ at' = at
         ELSE Onward(t, i)
  BY <1>0 DEF PutIndex, Entry, poolVars, valVars
<1>3. /\ i \in Indexes /\ Indexes = 1 .. Len(kinds) /\ Len(kinds) \in Nat
      /\ y \in Items /\ Has(y) = 1 .. i - 1
      /\ \A u \in Threads \ {t} : pc[u] \in HoldPCs => val[u] # y
  BY <1>0, <1>1, <1>2, KindsAre, Holding DEF Locals, Entered, HoldPCs, OwnPCs
<1>4. new.val = y /\ new.key = key[y][i] /\ new.incr = n
  OBVIOUS
<1> HIDE DEF new
<1>5. /\ \A x \in Items \ {y}, j \in Indexes : In(j, x)' <=> In(j, x)
      /\ Has(y)' = Has(y) \cup {i}
  BY <1>1, <1>2, <1>3, <1>4, HasMore
<1>6. Others(t)
  BY <1>1, OnlyOwn DEF Work
<1>7. /\ pc'[t] \in {"put_incr", "put_index", "put_done"} /\ (kinds[i] = "dupl" => pc'[t] = "put_incr")
      /\ Entered(t)' = 1 .. i
  <2>1. CASE kinds[i] = "dupl"
    BY <1>1, <1>2, <2>1 DEF Locals, Entered
  <2>2. CASE kinds[i] # "dupl" /\ i = Len(kinds)
    <3>1. pc'[t] = "put_done" /\ Indexes' = Indexes
      BY <1>1, <1>2, <2>2 DEF Locals, Onward, Indexes
    <3> QED
      BY <1>3, <2>2, <3>1 DEF Entered
  <2>3. CASE kinds[i] # "dupl" /\ i # Len(kinds)
    <3>1. pc'[t] = "put_index" /\ at'[t] = i + 1
      BY <1>1, <1>2, <2>3 DEF Locals, Onward
    <3> QED
      BY <1>3, <2>3, <3>1 DEF Entered
  <2> QED
    BY <2>1, <2>2, <2>3
<1>8. Placed'
  <2>1. Has(y)' = Entered(t)'
    BY <1>3, <1>5, <1>7
  <2>2. pc[t] \in HoldPCs /\ pc'[t] \in HoldPCs /\ val'[t] = y
    BY <1>0, <1>2, <1>7 DEF HoldPCs, OwnPCs
  <2>3. \A u \in Threads : pc[u] \in HoldPCs => val[u] \in Items
    BY Holding
  <2> HIDE DEF i
  <2> QED
    BY <1>0, <1>2, <1>3, <1>5, <1>6, <2>1, <2>2, <2>3, PlacedBut
<1>9. \A j \in Indexes : index'[j] = IF j = i THEN index[i] \cup {new} ELSE index[j]
  BY <1>1, <1>2, <1>3 DEF Globals
<1>10. Indexes' = Indexes
  BY <1>2 DEF Indexes
<1>11. Once'
  <2>1. \A e \in index[i] : e.val # y
    BY <1>3 DEF Has, In
  <2> QED
    BY <1>3, <1>4, <1>9, <1>10, <2>1 DEF Once
<1>12. ASSUME NEW j \in Indexes, NEW e \in index'[j]
       PROVE  /\ e.key = key[e.val][j]
              /\ kinds[j] = "dupl" =>
                   \/ e.incr = incr[e.val][j]
                   \/ \E u \in Threads : pc'[u] = "put_incr" /\ val'[u] = e.val /\ at'[u] = j
  <2>1. CASE e \in index[j]
    <3>1. ASSUME NEW u \in Threads, pc[u] = "put_incr" /\ val[u] = e.val /\ at[u] = j
          PROVE  pc'[u] = "put_incr" /\ val'[u] = e.val /\ at'[u] = j
      BY <1>2, <1>6, <3>1 DEF Others
    <3> QED
      BY <2>1, <3>1 DEF Right
  <2>2. CASE j = i /\ e = new
    <3>1. kinds[i] = "dupl" => pc'[t] = "put_incr" /\ val'[t] = y /\ at'[t] = i
      BY <1>0, <1>2, <1>7
    <3> QED
      BY <1>4, <2>2, <3>1
  <2> QED
    BY <1>9, <2>1, <2>2
<1> QED
  BY <1>2, <1>8, <1>10, <1>11, <1>12 DEF Right

(* The incr that the put writes is its entry's.                            *)
LEMMA PlacedIncr ==
  ASSUME Known, ~astray, Placed, Once, Right, NEW t \in Threads, PutIncr(t)
  PROVE  Placed' /\ Once' /\ Right'
<1>1. Globals /\ Locals /\ Histories /\ Shape /\ TypeOK
  BY TypeParts DEF Known, Basic
<1>0. PICK y \in Items : y = val[t]
  BY <1>1 DEF PutIncr, Shape, HoldPCs, OwnPCs
<1> DEFINE i == at[t]
<1>2. PICK e \in index[i] : e.val = y /\ incr' = [incr EXCEPT ![y][i] = e.incr]
  BY <1>0 DEF PutIncr
<1>3. pc[t] = "put_incr" /\ UNCHANGED <<kinds, index, key, state, val>> /\ Onward(t, i)
  BY DEF PutIncr, bufVars, poolVars
<1>4. /\ i \in Indexes /\ Indexes = 1 .. Len(kinds) /\ Len(kinds) \in Nat
      /\ y \in Items /\ Has(y) = 1 .. i
      /\ \A u \in Threads \ {t} : pc[u] \in HoldPCs => val[u] # y
  BY <1>0, <1>1, <1>3, KindsAre, Holding DEF Locals, Entered, HoldPCs, OwnPCs
<1>5. Others(t)
  BY <1>1, OnlyOwn DEF Work
<1>6. Indexes' = Indexes
  BY <1>3 DEF Indexes
<1>7. pc'[t] \in {"put_index", "put_done"} /\ Entered(t)' = 1 .. i
  <2>1. CASE i = Len(kinds)
    BY <1>1, <1>3, <1>4, <1>6, <2>1 DEF Locals, Onward, Entered
  <2>2. CASE i # Len(kinds)
    <3>1. pc'[t] = "put_index" /\ at'[t] = i + 1
      BY <1>1, <1>3, <2>2 DEF Locals, Onward
    <3> QED
      BY <1>4, <2>2, <3>1 DEF Entered
  <2> QED
    BY <2>1, <2>2
<1>8. Placed'
  <2>1. Has(y)' = Entered(t)' /\ \A x \in Items, j \in Indexes : In(j, x)' <=> In(j, x)
    BY <1>3, <1>4, <1>6, <1>7 DEF Has, In
  <2>2. pc[t] \in HoldPCs /\ pc'[t] \in HoldPCs /\ val'[t] = y
    BY <1>0, <1>3, <1>7 DEF HoldPCs, OwnPCs
  <2>3. \A u \in Threads : pc[u] \in HoldPCs => val[u] \in Items
    BY Holding
  <2> HIDE DEF i
  <2> QED
    BY <1>0, <1>3, <1>4, <1>5, <2>1, <2>2, <2>3, PlacedBut
<1>9. Once'
  BY <1>3, <1>6 DEF Once
<1>10. ASSUME NEW j \in Indexes, NEW f \in index[j]
       PROVE  /\ f.key = key[f.val][j]
              /\ kinds[j] = "dupl" =>
                   \/ f.incr = incr'[f.val][j]
                   \/ \E u \in Threads : pc'[u] = "put_incr" /\ val'[u] = f.val /\ at'[u] = j
  <2>0. f.val \in Items
    BY <1>1 DEF Globals
  <2>1. CASE f.val = y /\ j = i
    <3>1. f = e
      BY <1>2, <1>4, <2>1 DEF Once
    <3>2. incr'[y][i] = e.incr
      BY <1>1, <1>2, <1>4 DEF Globals
    <3> QED
      BY <2>1, <3>1, <3>2 DEF Right
  <2>2. CASE ~ (f.val = y /\ j = i)
    <3>1. incr'[f.val][j] = incr[f.val][j]
      BY <1>1, <1>2, <1>4, <2>0, <2>2 DEF Globals
    <3>2. ASSUME NEW u \in Threads, pc[u] = "put_incr" /\ val[u] = f.val /\ at[u] = j
          PROVE  pc'[u] = "put_incr" /\ val'[u] = f.val /\ at'[u] = j
      <4>1. u # t
        BY <1>0, <2>2, <3>2
      <4> QED
        BY <1>5, <3>2, <4>1 DEF Others
    <3> QED
      BY <3>1, <3>2 DEF Right
  <2> QED
    BY <2>1, <2>2
<1> QED
  BY <1>3, <1>6, <1>8, <1>9, <1>10 DEF Right

(* A step that ends an owner's part, or goes on without touching an index. *)
LEMMA PlacedTurns ==
  ASSUME Known, ~astray, Placed, Once, Right, NEW t \in Threads, Work(t),
         pc[t] \in HoldPCs \ {"put_incr"}, val' = val,
         UNCHANGED <<kinds, index, key, incr>>,
         \A x \in Items \ {val[t]} : state'[x] = state[x],
         pc'[t] \in HoldPCs => Entered(t) = Entered(t)',
         pc'[t] \notin HoldPCs => Entered(t) = IF state'[val[t]] = "linked" THEN Indexes ELSE {}
  PROVE  Placed' /\ Once' /\ Right'
<1>1. Locals /\ Histories
  BY TypeParts DEF Known, Basic
<1>2. Others(t)
  BY <1>1, OnlyOwn
<1>3. PICK y \in Items : y = val[t]
  BY Holding
<1>4. /\ Has(y) = Entered(t)
      /\ \A u \in Threads \ {t} : pc[u] \in HoldPCs => val[u] # y
      /\ \A u \in Threads : pc[u] \in HoldPCs => val[u] \in Items
  BY <1>3, Holding
<1>5. /\ Indexes' = Indexes /\ Has(y)' = Has(y)
      /\ \A x \in Items, i \in Indexes : In(i, x)' <=> In(i, x)
  BY DEF Has, In, Indexes
<1>6. Placed'
  BY <1>2, <1>3, <1>4, <1>5, PlacedBut
<1> QED
  BY <1>2, <1>6, EntriesStill

(* The steps that keep the indexes and go on with the value, or let it go. *)
LEMMA PlacedGoes ==
  ASSUME Known, ~astray, Placed, Once, Right, NEW t \in Threads,
         PutRefused(t) \/ PutUnlock(t) \/ PutFree(t) \/ PutDone(t) \/ DelFree(t)
  PROVE  Placed' /\ Once' /\ Right'
<1>1. Globals /\ Locals /\ Histories /\ Shape /\ TypeOK
  BY TypeParts DEF Known, Basic
<1>2. /\ Indexes = 1 .. Len(kinds) /\ Len(kinds) \in Nat /\ at[t] \in Indexes
  BY <1>1, KindsAre DEF Locals
<1>3. Work(t)
  BY DEF Work
<1>4. CASE PutRefused(t)
  <2>1. /\ pc[t] = "put_index" /\ pc'[t] = "put_undo" /\ num'[t] = at[t] /\ at'[t] = 1
        /\ UNCHANGED <<kinds, index, key, incr, state, val>>
    BY <1>1, <1>4 DEF PutRefused, Goto, Locals, bufVars, poolVars, valVars
  <2>2. Entered(t) = 1 .. at[t] - 1 /\ Entered(t)' = 1 .. at[t] - 1
    BY <2>1 DEF Entered
  <2> QED
    BY <1>3, <2>1, <2>2, PlacedTurns DEF HoldPCs, OwnPCs
<1>5. CASE PutUnlock(t)
  <2>1. /\ pc[t] = "put_undo" /\ pc'[t] = "put_free" /\ at[t] = num[t]
        /\ UNCHANGED <<kinds, index, key, incr, state, val>>
    BY <1>1, <1>5 DEF PutUnlock, Goto, Locals, bufVars, poolVars, locals
  <2>2. Entered(t) = {} /\ Entered(t)' = {}
    BY <1>2, <2>1 DEF Entered
  <2> QED
    BY <1>3, <2>1, <2>2, PlacedTurns DEF HoldPCs, OwnPCs
<1>6. CASE PutFree(t) \/ DelFree(t)
  <2>1. /\ pc[t] \in {"put_free", "del_free"} /\ pc'[t] \in {"put_leave", "del_leave"}
        /\ state' = [state EXCEPT ![val[t]] = "retired"]
        /\ UNCHANGED <<kinds, index, key, incr, val>>
    BY <1>1, <1>6 DEF PutFree, DelFree, Pool!Retire, Goto, Locals, bufVars, valVars, locals
  <2>2. Entered(t) = {} /\ val[t] \in Items
    BY <1>1, <2>1 DEF Entered, Shape, HoldPCs, OwnPCs
  <2>3. state'[val[t]] = "retired" /\ \A x \in Items \ {val[t]} : state'[x] = state[x]
    BY <1>1, <2>1, <2>2 DEF Globals
  <2> QED
    BY <1>3, <2>1, <2>2, <2>3, PlacedTurns DEF HoldPCs, OwnPCs
<1>7. CASE PutDone(t)
  <2>1. /\ pc[t] = "put_done" /\ pc'[t] = "put_leave"
        /\ UNCHANGED <<kinds, index, key, incr, state, val>>
    BY <1>1, <1>7 DEF PutDone, Goto, Locals, bufVars, poolVars, locals
  <2>2. Entered(t) = Indexes /\ state'[val[t]] = "linked"
    BY <2>1, Holding DEF Entered, HoldPCs, OwnPCs
  <2> QED
    BY <1>3, <2>1, <2>2, PlacedTurns DEF HoldPCs, OwnPCs
<1> QED
  BY <1>4, <1>5, <1>6, <1>7

(* The CAS is won: the value was whole, and is the thread's now. *)
LEMMA PlacedCas ==
  ASSUME Known, ~astray', Placed, Once, Right, NEW t \in Threads, DelCas(t)
  PROVE  Placed' /\ Once' /\ Right'
<1>1. Globals /\ Locals /\ Histories /\ Shape /\ TypeOK
  BY TypeParts DEF Known, Basic
<1>2. PICK y \in Items : y = val[t]
  BY <1>1 DEF DelCas, Goto, Shape
<1>3. /\ pc[t] = "del_cas" /\ pc'[t] = "del_index" /\ val' = val /\ at[t] = 1 /\ at'[t] = 1
      /\ UNCHANGED <<kinds, index, key, incr, state>>
      /\ updating[y] = 0 /\ ~astray /\ y \notin undone
  BY <1>1, <1>2 DEF DelCas, Goto, Locals, Shape, bufVars, poolVars, locals
<1>4. \A u \in Threads : pc[u] \in HoldPCs => val[u] # y /\ val[u] \in Items
  BY <1>1, <1>3 DEF Known, Inv, Owned, TakenBack, HoldPCs, Shape
<1>5. state[y] = "linked"
  BY <1>2, <1>3 DEF Known, Inv, Unlinked, Fresh
<1>6. Has(y) = Indexes
  BY <1>4, <1>5 DEF Placed
<1>7. /\ Indexes' = Indexes /\ Has(y)' = Has(y)
      /\ \A x \in Items, i \in Indexes : In(i, x)' <=> In(i, x)
  BY <1>3 DEF Has, In, Indexes
<1>8. Entered(t)' = Indexes
  BY <1>1, <1>3, <1>7, KindsAre DEF Entered
<1>9. Others(t)
  BY <1>1, OnlyOwn DEF Work
<1>10. pc[t] \notin HoldPCs /\ pc'[t] \in HoldPCs
  BY <1>3 DEF HoldPCs, OwnPCs
<1>11. Placed'
  BY <1>2, <1>3, <1>4, <1>6, <1>7, <1>8, <1>9, <1>10, PlacedBut
<1> QED
  BY <1>3, <1>9, <1>11, EntriesStill

(* The value leaves the index at hand, and no other value does. *)
LEMMA PlacedTakes ==
  ASSUME Known, ~astray, Placed, Once, Right, First, Listed,
         NEW t \in Threads, PutUndo(t) \/ DelIndex(t)
  PROVE  Placed' /\ Once' /\ Right'
<1>1. Globals /\ Locals /\ Histories /\ Shape /\ TypeOK
  BY TypeParts DEF Known, Basic
<1>2. /\ pc[t] \in {"put_undo", "del_index"} /\ (pc[t] = "put_undo" => at[t] < num[t])
      /\ TakeOut(at[t], val[t]) /\ UNCHANGED <<kinds, key, incr, state, val, num>>
  BY DEF PutUndo, DelIndex, poolVars, valVars
<1>3. PICK y \in Items : y = val[t]
  BY <1>1, <1>2 DEF Shape, HoldPCs, OwnPCs
<1>4. PICK i \in Indexes : i = at[t]
  BY <1>1 DEF Locals
<1>5. PICK e \in index[i] : e.val = y /\ Taken(i, y) = {e}
  BY <1>2, <1>3, <1>4, TakenIs
<1>6. index' = [index EXCEPT ![i] = @ \ {e}]
  BY <1>2, <1>3, <1>4, <1>5 DEF TakeOut
<1>7. /\ \A x \in Items \ {y}, j \in Indexes : In(j, x)' <=> In(j, x)
      /\ Has(y)' = Has(y) \ {i}
  BY <1>1, <1>2, <1>5, <1>6, HasLess
<1>8. /\ Has(y) = Entered(t) /\ \A u \in Threads \ {t} : pc[u] \in HoldPCs => val[u] # y
      /\ \A u \in Threads : pc[u] \in HoldPCs => val[u] \in Items
  BY <1>2, <1>3, Holding DEF HoldPCs, OwnPCs
<1>9. Indexes = 1 .. Len(kinds) /\ Len(kinds) \in Nat /\ num[t] \in Nat
  BY <1>1, KindsAre DEF Locals
<1>10. pc'[t] \in HoldPCs /\ Entered(t)' = Entered(t) \ {i}
  <2>1. CASE PutUndo(t)
    <3>1. /\ pc[t] = "put_undo" /\ pc'[t] = "put_undo" /\ at'[t] = i + 1 /\ num'[t] = num[t]
      BY <1>1, <1>2, <1>4, <2>1 DEF PutUndo, Locals
    <3> QED
      BY <1>4, <1>9, <3>1 DEF Entered, HoldPCs, OwnPCs
  <2>2. CASE DelIndex(t)
    <3>1. /\ pc[t] = "del_index"
          /\ IF i = Len(kinds) THEN pc'[t] = "del_free"
             ELSE pc'[t] = "del_index" /\ at'[t] = i + 1
          /\ kinds' = kinds
      BY <1>1, <1>2, <1>4, <2>2 DEF DelIndex, Locals
    <3>2. Entered(t) = i .. Len(kinds)
      BY <1>4, <3>1 DEF Entered
    <3>3. Entered(t)' = (IF i = Len(kinds) THEN {} ELSE i + 1 .. Len(kinds))
      BY <3>1 DEF Entered
    <3> QED
      BY <1>4, <1>9, <3>1, <3>2, <3>3 DEF HoldPCs, OwnPCs
  <2> QED
    BY <2>1, <2>2
<1>11. Others(t)
  BY <1>1, OnlyOwn DEF Work
<1>12. Placed'
  <2>1. pc[t] \in HoldPCs /\ Has(y)' = Entered(t)'
    BY <1>2, <1>7, <1>8, <1>10 DEF HoldPCs, OwnPCs
  <2> QED
    BY <1>2, <1>3, <1>7, <1>8, <1>10, <1>11, <2>1, PlacedBut
<1>13. \A j \in Indexes : index'[j] \subseteq index[j]
  BY <1>1, <1>6 DEF Globals
<1>14. Indexes' = Indexes
  BY <1>2 DEF Indexes
<1>15. Once'
  BY <1>13, <1>14 DEF Once
<1>16. ASSUME NEW j \in Indexes, NEW f \in index[j]
       PROVE  /\ f.key = key[f.val][j]
              /\ kinds[j] = "dupl" =>
                   \/ f.incr = incr[f.val][j]
                   \/ \E u \in Threads : pc'[u] = "put_incr" /\ val'[u] = f.val /\ at'[u] = j
  <2>1. ASSUME NEW u \in Threads, pc[u] = "put_incr" /\ val[u] = f.val /\ at[u] = j
        PROVE  pc'[u] = "put_incr" /\ val'[u] = f.val /\ at'[u] = j
    BY <1>2, <1>11, <2>1 DEF Others
  <2> QED
    BY <2>1 DEF Right
<1> QED
  BY <1>2, <1>12, <1>13, <1>14, <1>15, <1>16 DEF Right

(* Every step keeps a value in the indexes its owner has entered it in, or *)
(* in all, or in none.                                                     *)
LEMMA PlacedStep ==
  ASSUME Known, ~astray', ~astray, Placed, Once, Right, First, Listed, Finds,
         NEW t \in Threads, Put(t) \/ Get(t) \/ Del(t) \/ Work(t)
  PROVE  Placed' /\ Once' /\ Right'
<1>1. Locals /\ Histories
  BY TypeParts DEF Known, Basic
<1>2. Others(t)
  BY <1>1, OnlyOwn
<1>3. ASSUME pc[t] \notin HoldPCs, pc'[t] \notin HoldPCs, UNCHANGED <<kinds, index, key, incr, state>>
      PROVE  Placed' /\ Once' /\ Right'
  <2>1. pc[t] # "put_incr"
    BY <1>3 DEF HoldPCs, OwnPCs
  <2> QED
    BY <1>2, <1>3, <2>1, PlacedStill, EntriesStill
<1>4. CASE Put(t) \/ Get(t) \/ Del(t)
  <2>1. /\ pc[t] = "idle" /\ pc'[t] \in {"put_enter", "get_enter", "del_enter"}
        /\ UNCHANGED <<kinds, index, key, incr, state>>
    BY <1>1, <1>4 DEF Put, Get, Del, Ask, Goto, Locals, bufVars, poolVars, valVars
  <2> QED
    BY <1>3, <2>1 DEF HoldPCs, OwnPCs
<1>5. CASE PutEnter(t) \/ GetEnter(t) \/ DelEnter(t)
  <2>1. /\ pc[t] \notin HoldPCs /\ pc'[t] \notin HoldPCs
        /\ UNCHANGED <<kinds, index, key, incr>>
    BY <1>1, <1>5 DEF PutEnter, GetEnter, DelEnter, Goto, Locals, bufVars, valVars, HoldPCs, OwnPCs
  <2>2. state' = state
    BY <1>5 DEF PutEnter, GetEnter, DelEnter, EnterIfMade, EnterEpoch, Pool!Enter, Pool!Reenter
  <2> QED
    BY <1>3, <2>1, <2>2
<1>6. CASE Make(t) \/ Made(t) \/ MakeFails(t) \/ AllocFails(t) \/ PutNone(t)
  BY <1>1, <1>3, <1>6
  DEF Make, Made, MakeFails, AllocFails, PutNone, Goto, Locals, bufVars, poolVars, valVars,
      HoldPCs, OwnPCs
<1>7. CASE PutLeave(t) \/ GetLeave(t) \/ DelLast(t) \/ DelLeave(t)
  <2>1. /\ pc[t] \in {"put_leave", "get_leave", "del_last", "del_leave"}
        /\ pc'[t] \in {"idle", "del_enter"}
        /\ UNCHANGED <<kinds, index, key, incr>>
    BY <1>1, <1>7 DEF PutLeave, GetLeave, DelLast, DelLeave, Goto, Locals, bufVars, valVars
  <2>2. state' = state
    BY <1>7 DEF PutLeave, GetLeave, DelLast, DelLeave, LeaveEpoch, Pool!Leave
  <2> QED
    BY <1>3, <2>1, <2>2 DEF HoldPCs, OwnPCs
<1>8. CASE GetNext(t) \/ GetNone(t) \/ GetCopy(t) \/ DelGet(t) \/ DelNone(t) \/ DelBusy(t)
  <2>1. /\ pc[t] \in {"get_next", "get_copy", "del_get", "del_cas"}
        /\ pc'[t] \in {"get_next", "get_copy", "get_leave", "del_cas", "del_last", "del_enter"}
        /\ UNCHANGED <<kinds, index, key, incr, state>>
    BY <1>1, <1>8
    DEF GetNext, GetNone, GetCopy, DelGet, DelNone, DelBusy, Goto, Locals, bufVars, poolVars,
        valVars
  <2> QED
    BY <1>3, <2>1 DEF HoldPCs, OwnPCs
<1>9. ~DelAssert(t)
  BY DEF DelAssert, Finds
<1> QED
  BY <1>4, <1>5, <1>6, <1>7, <1>8, <1>9, PlacedAlloc, PlacedIndex, PlacedIncr, PlacedGoes,
     PlacedCas, PlacedTakes DEF Work

(* The history does not forget.                                            *)
LEMMA AstrayKept ==
  ASSUME NEW t \in Threads, Put(t) \/ Get(t) \/ Del(t) \/ Work(t), ~astray'
  PROVE  ~astray /\ (~late' => ~late)
<1>1. CASE DelCas(t)
  BY <1>1 DEF DelCas
<1>2. CASE astray' = astray /\ late' = late
  BY <1>2
<1> QED
  BY <1>1, <1>2
  DEF Work, Put, Get, Del, Ask, PutEnter, Make, Made, MakeFails, AllocFails, PutNone, PutAlloc,
      PutIndex, PutIncr, PutRefused, PutUndo, PutUnlock, PutFree, PutDone, PutLeave,
      GetEnter, GetNext, GetNone, GetCopy, GetLeave, DelEnter, DelGet, DelNone, DelBusy,
      DelIndex, DelAssert, DelFree, DelLeave, DelLast, history

Full == Known /\ Due /\ Listed /\ (~astray /\ ~late => Whole)

(* Every step of a thread keeps the whole invariant.                       *)
LEMMA ThreadStep ==
  ASSUME Full, NEW t \in Threads, Put(t) \/ Get(t) \/ Del(t) \/ Work(t)
  PROVE  Full'
<1>1. Known'
  BY BasicStep DEF Full, Next
<1>2. Due' /\ Listed'
  BY DueStep, ListedStep DEF Full
<1>3. ASSUME ~astray', ~late' PROVE Whole'
  <2>1. ~astray /\ ~late /\ Known /\ Due /\ Listed /\ Whole
    BY <1>3, AstrayKept DEF Full
  <2>2. Placed' /\ Once' /\ Right'
    BY <1>3, <2>1, PlacedStep DEF Whole
  <2>3. Finds' /\ Safe' /\ First'
    BY <1>3, <2>1, FindsStep, SafeStep, FirstStep DEF Whole
  <2>4. Getting'
    BY <2>1, GetsOwn, GetsOthers DEF Whole, Getting
  <2> QED
    BY <2>2, <2>3, <2>4 DEF Whole
<1> QED
  BY <1>1, <1>2, <1>3 DEF Full

(* Nothing but an item of the pool changes. *)
LEMMA PoolStep ==
  ASSUME Full, UNCHANGED <<inside, guards, kinds, index, incr_key, has_init, key, incr, updating, pc,
                           call, val, at, from, num, aborted, undone, astray, late, got, due, raced>>,
         \A x \in Items : \/ state'[x] = state[x]
                          \/ state[x] = "retired" /\ guards[x] = {} /\ state'[x] # "linked",
         Known'
  PROVE  Full'
<1>1. Due' /\ Listed'
  BY DEF Full, Due, DueOf, Listed, Indexes
<1>2. ASSUME ~astray', ~late' PROVE Whole'
  <2>1. ~astray /\ ~late /\ Known /\ Whole
    BY <1>2 DEF Full
  <2>2. Indexes' = Indexes
    BY DEF Indexes
  <2>3. Once' /\ Right' /\ Finds' /\ First'
    BY <2>1, <2>2 DEF Whole, Once, Right, Finds, First, FirstOf, Fronted
  <2>4. Getting'
    BY <2>1 DEF Whole, Getting, GetsOf, Rises, Passed, Copies, LastGot
  <2>5. Safe'
    <3> SUFFICES ASSUME NEW t \in Threads PROVE SafeOf(t)'
      BY DEF Safe
    <3>1. SafeOf(t) /\ val[t] \in Items \cup {Null}
      BY <2>1 DEF Whole, Safe, Known, Inv, Types
    <3> QED
      BY <3>1 DEF SafeOf
  <2>6. Placed'
    <3>1. \A x \in Items : Has(x)' = Has(x)
      BY <2>2 DEF Has, In
    <3>2. \A t \in Threads : pc[t] \in HoldPCs => Has(val[t]) = Entered(t) /\ val[t] \in Items
      BY <2>1, Holding DEF Whole
    <3>3. \A t \in Threads : Entered(t)' = Entered(t) /\ Has(val[t])' = Has(val[t])
      BY <2>2 DEF Entered, Has, In
    <3>4. ASSUME NEW x \in Items, \A t \in Threads : pc[t] \in HoldPCs => val[t] # x
          PROVE  Has(x)' = IF state'[x] = "linked" THEN Indexes ELSE {}
      BY <2>1, <3>1, <3>4 DEF Whole, Placed
    <3>5. (\A t \in Threads : pc[t] \in HoldPCs => Has(val[t]) = Entered(t))'
      BY <3>2, <3>3
    <3> QED
      BY <2>2, <3>4, <3>5 DEF Placed
  <2> QED
    BY <2>3, <2>4, <2>5, <2>6 DEF Whole
<1> QED
  BY <1>1, <1>2 DEF Full

(* Every step keeps the whole invariant.                                   *)
LEMMA FullStep == Full /\ [Next]_vars => Full'
<1> SUFFICES ASSUME Full, [Next]_vars PROVE Full'
  OBVIOUS
<1>1. Known'
  BY BasicStep DEF Full
<1>2. CASE UNCHANGED vars
  <2>1. UNCHANGED <<inside, guards, kinds, index, incr_key, has_init, key, incr, updating, pc,
                    call, val, at, from, num, aborted, undone, astray, late, got, due, raced, state>>
    BY <1>2 DEF vars, bufVars, poolVars, valVars, locals, bounds, history
  <2> QED
    BY <1>1, <2>1, PoolStep
<1>3. ASSUME NEW x \in Items, Reclaim(x) PROVE Full'
  <2>1. UNCHANGED <<inside, guards, kinds, index, incr_key, has_init, key, incr, updating, pc,
                    call, val, at, from, num, aborted, undone, astray, late, got, due, raced>>
    BY <1>3 DEF Reclaim, Pool!Reclaim, bufVars, valVars, locals, bounds, history
  <2>2. \A y \in Items : \/ state'[y] = state[y]
                         \/ state[y] = "retired" /\ guards[y] = {} /\ state'[y] # "linked"
    <3>1. state \in [Items -> {"free", "linked", "retired"}]
      BY DEF Full, Known, Inv, Types
    <3> QED
      BY <1>3, <3>1 DEF Reclaim, Pool!Reclaim
  <2> QED
    BY <1>1, <2>1, <2>2, PoolStep
<1> QED
  BY <1>2, <1>3, ThreadStep DEF Next

-----------------------------------------------------------------------------
(* The theorems.                                                           *)

\* A buffer with a list has no other index: a put that a hash refuses would take
\* back the front of the list, whatever it is, and so would a delete by key.
ListAlone == \A s \in Schemas : (\E i \in DOMAIN s : s[i] = "list") => Len(s) = 1

(* The values put before are in all indexes.                               *)
LEMMA FullInit == ASSUME ListAlone PROVE Init => Full
<1> SUFFICES ASSUME Init PROVE Full
  OBVIOUS
<1>1. Known
  BY BasicInit
<1>2. Globals /\ Locals /\ Shape /\ TypeOK
  BY <1>1, TypeParts DEF Known, Basic
<1>3. /\ pc = [t \in Threads |-> "idle"] /\ aborted = FALSE /\ late = FALSE
      /\ kinds \in Schemas /\ Indexes = DOMAIN kinds
  BY DEF Init, Indexes
<1> DEFINE nth(h, x) == CHOOSE n \in DOMAIN h : h[n].val = x
           used(h) == {h[n].val : n \in DOMAIN h}
<1>4. PICK h \in Held :
        /\ index = [i \in Indexes |-> {Entry(h[n][kinds[i]],
                      IF kinds[i] = "uniq" THEN 0 ELSE n, h[n].val) : n \in DOMAIN h}]
        /\ has_init = (IF h = <<>> THEN 0 ELSE 2)
        /\ state = [x \in Items |-> IF x \in used(h) THEN "linked" ELSE "free"]
        /\ key = [x \in Items |-> [i \in Indexes |->
                    IF x \in used(h) THEN h[nth(h, x)][kinds[i]] ELSE Null]]
        /\ incr = [x \in Items |-> [i \in Indexes |->
                     IF x \in used(h) /\ kinds[i] = "dupl" THEN nth(h, x) ELSE Garbage]]
  BY Zenon DEF Init
<1> HIDE DEF nth, used
<1>5. /\ \A n \in DOMAIN h : h[n].val \in Items
      /\ \A m, n \in DOMAIN h : h[m].val = h[n].val => m = n
  BY HeldAssumption
<1>6. \A n \in DOMAIN h : h[n].val \in used(h) /\ nth(h, h[n].val) = n
  BY <1>5 DEF used, nth
<1>7. \A x \in used(h) : \E n \in DOMAIN h : h[n].val = x
  BY DEF used
<1>8. ASSUME NEW i \in Indexes, NEW e \in index[i]
      PROVE  \E n \in DOMAIN h : /\ e.key = h[n][kinds[i]] /\ e.val = h[n].val
                                /\ e.incr = (IF kinds[i] = "uniq" THEN 0 ELSE n)
                                /\ e = [key |-> e.key, incr |-> e.incr, val |-> e.val]
  <2>1. PICK n \in DOMAIN h : e = [key |-> h[n][kinds[i]],
                                   incr |-> (IF kinds[i] = "uniq" THEN 0 ELSE n), val |-> h[n].val]
    BY <1>4, <1>8 DEF Entry
  <2> QED
    BY <2>1
<1>9. ASSUME NEW i \in Indexes, NEW n \in DOMAIN h PROVE \E e \in index[i] : e.val = h[n].val
  <2>1. Entry(h[n][kinds[i]], IF kinds[i] = "uniq" THEN 0 ELSE n, h[n].val) \in index[i]
    BY <1>4
  <2> QED
    BY <2>1 DEF Entry
<1>10. Due
  BY <1>3 DEF Due, DueOf, GetPCs
<1>11. Listed
  BY <1>3 DEF Listed, ListAlone
<1>12. Placed
  <2>1. \A t \in Threads : pc[t] \notin HoldPCs
    BY <1>3 DEF HoldPCs, OwnPCs
  <2>2. ASSUME NEW x \in Items PROVE Has(x) = IF state[x] = "linked" THEN Indexes ELSE {}
    <3>1. CASE x \in used(h)
      <4>1. PICK n \in DOMAIN h : h[n].val = x
        BY <1>7, <3>1
      <4>2. state[x] = "linked" /\ \A i \in Indexes : In(i, x)
        BY <1>4, <1>9, <3>1, <4>1 DEF In
      <4> QED
        BY <4>2 DEF Has
    <3>2. CASE x \notin used(h)
      <4>1. state[x] = "free" /\ \A i \in Indexes : ~In(i, x)
        BY <1>4, <1>6, <1>8, <3>2 DEF In
      <4> QED
        BY <4>1 DEF Has
    <3> QED
      BY <3>1, <3>2
  <2> QED
    BY <2>1, <2>2 DEF Placed
<1>13. Once
  <2> SUFFICES ASSUME NEW i \in Indexes, NEW e \in index[i], NEW f \in index[i], e.val = f.val
               PROVE  e = f
    BY DEF Once
  <2>1. PICK m \in DOMAIN h : /\ e.key = h[m][kinds[i]] /\ e.val = h[m].val
                              /\ e.incr = (IF kinds[i] = "uniq" THEN 0 ELSE m)
                              /\ e = [key |-> e.key, incr |-> e.incr, val |-> e.val]
    BY <1>8
  <2>2. PICK n \in DOMAIN h : /\ f.key = h[n][kinds[i]] /\ f.val = h[n].val
                              /\ f.incr = (IF kinds[i] = "uniq" THEN 0 ELSE n)
                              /\ f = [key |-> f.key, incr |-> f.incr, val |-> f.val]
    BY <1>8
  <2>3. m = n
    BY <1>5, <2>1, <2>2
  <2>4. e.key = f.key /\ e.incr = f.incr
    BY <2>1, <2>2, <2>3
  <2> QED
    BY <2>1, <2>2, <2>4
<1>14. Right
  <2> SUFFICES ASSUME NEW i \in Indexes, NEW e \in index[i]
               PROVE  e.key = key[e.val][i] /\ (kinds[i] = "dupl" => e.incr = incr[e.val][i])
    BY DEF Right
  <2>1. PICK n \in DOMAIN h : /\ e.key = h[n][kinds[i]] /\ e.val = h[n].val
                              /\ e.incr = (IF kinds[i] = "uniq" THEN 0 ELSE n)
    BY <1>8
  <2>2. e.val \in Items /\ e.val \in used(h) /\ nth(h, e.val) = n
    BY <1>5, <1>6, <2>1
  <2>3. key[e.val][i] = h[n][kinds[i]] /\ (kinds[i] = "dupl" => incr[e.val][i] = n)
    BY <1>4, <2>2
  <2> QED
    BY <2>1, <2>3
<1>15. Finds /\ Safe /\ First /\ Getting
  BY <1>3 DEF Finds, Safe, SafeOf, First, FirstOf, Fronted, Getting, GetsOf, CallPCs, GetPCs, DelPCs
<1> QED
  BY <1>1, <1>10, <1>11, <1>12, <1>13, <1>14, <1>15 DEF Full, Whole

(* The invariant holds in every reachable state.                           *)
LEMMA FullAlways == ASSUME ListAlone PROVE Spec => []Full
BY FullInit, FullStep, PTL DEF Spec

(* A value comes and goes as a whole: it is in all indexes, under its      *)
(* keys, or in none, and the assertion of ab_buf_del_one (ab_buf.c:250)    *)
(* holds, unless a delete went on with a value that its put had taken      *)
(* back, or was late in a list.                                            *)
THEOREM ValuesWhole == ASSUME ListAlone PROVE Spec => []ValueWhole
<1>1. Full => IndexesAgree
  <2> SUFFICES ASSUME Full, ~astray, ~late
               PROVE  /\ \A i \in Indexes : \A e, f \in index[i] : e.val = f.val => e = f
                      /\ \A x \in Items :
                           Owners(x) = {} /\ (\A t \in Threads : val[t] = x => pc[t] # "put_free") =>
                             \/ state[x] = "linked" /\ \A i \in Indexes :
                                  \E e \in index[i] : /\ e.val = x /\ e.key = key[x][i]
                                                     /\ kinds[i] = "dupl" => e.incr = incr[x][i]
                             \/ state[x] # "linked" /\ \A i \in Indexes : ~In(i, x)
    BY DEF IndexesAgree
  <2>1. Placed /\ Once /\ Right
    BY DEF Full, Whole
  <2>2. ASSUME NEW x \in Items, Owners(x) = {},
               \A t \in Threads : val[t] = x => pc[t] # "put_free"
        PROVE  \/ state[x] = "linked" /\ \A i \in Indexes :
                    \E e \in index[i] : /\ e.val = x /\ e.key = key[x][i]
                                       /\ kinds[i] = "dupl" => e.incr = incr[x][i]
               \/ state[x] # "linked" /\ \A i \in Indexes : ~In(i, x)
    <3>1. \A t \in Threads : pc[t] \in HoldPCs => val[t] # x
      BY <2>2 DEF Owners, HoldPCs, OwnPCs
    <3>2. Has(x) = IF state[x] = "linked" THEN Indexes ELSE {}
      BY <2>1, <3>1 DEF Placed
    <3>3. ASSUME state[x] = "linked", NEW i \in Indexes
          PROVE  \E e \in index[i] : /\ e.val = x /\ e.key = key[x][i]
                                    /\ kinds[i] = "dupl" => e.incr = incr[x][i]
      <4>1. PICK e \in index[i] : e.val = x
        BY <3>2, <3>3 DEF Has, In
      <4>2. \A t \in Threads : ~ (pc[t] = "put_incr" /\ val[t] = x)
        BY <3>1 DEF HoldPCs, OwnPCs
      <4> QED
        BY <2>1, <4>1, <4>2 DEF Right
    <3>4. ASSUME state[x] # "linked", NEW i \in Indexes PROVE ~In(i, x)
      BY <3>2, <3>4 DEF Has
    <3> QED
      BY <3>3, <3>4
  <2> QED
    BY <2>1, <2>2 DEF Once
<1>2. Full => AssertHolds
  BY DEF Full, Whole, Finds, AssertHolds
<1> QED
  BY <1>1, <1>2, FullAlways, PTL DEF ValueWhole

(* A value that a call has read while it was in the class is not handed    *)
(* out again before the call is done with it.                              *)
THEOREM NothingStale == ASSUME ListAlone PROVE Spec => []NoStaleValue
<1>1. Full => NoStaleValue
  BY DEF Full, Whole, Safe, SafeOf, NoStaleValue, CallPCs
<1> QED
  BY <1>1, FullAlways, PTL

(* A get of several values returns them once, in the order of their incr,  *)
(* and all that were there throughout, unless it met a value whose incr    *)
(* was not written yet.                                                    *)
THEOREM GetsInOrder == ASSUME ListAlone PROVE Spec => []MultiGet
<1>1. Full => MultiGet
  <2> SUFFICES ASSUME Full, ~astray, NEW t \in inside, pc[t] = "get_leave",
                      kinds[call[t].id] = "dupl", ~raced[t]
               PROVE  /\ \A i, j \in DOMAIN got[t] : i < j => got[t][i] < got[t][j]
                      /\ num[t] < call[t].top =>
                           \A n \in due[t] : \E i \in DOMAIN got[t] : got[t][i] = n
    BY DEF MultiGet
  <2>1. t \in Threads
    BY DEF Full, Known, Basic, TypeOK
  <2>2. GetsOf(t)
    <3>1. call[t].id \in Indexes /\ Indexes = 1 .. Len(kinds)
      BY <2>1, KindsAre DEF Full, Known, Basic, TypeOK
    <3>2. ASSUME late PROVE FALSE
      <4>1. PICK i \in Indexes : kinds[i] = "list"
        BY <3>2 DEF Full, Listed
      <4>2. Len(kinds) = 1
        BY <4>1 DEF Full, Listed
      <4>3. call[t].id = i
        BY <3>1, <4>2
      <4> QED
        BY <4>1, <4>3
    <3> QED
      BY <2>1, <3>2 DEF Full, Whole, Getting
  <2> QED
    BY <2>2 DEF GetsOf, Rises, GetPCs
<1> QED
  BY <1>1, FullAlways, PTL

-----------------------------------------------------------------------------
(* The comparison of keys.                                                 *)

(* Keys of one and two bytes are compared as the numbers they are.         *)
THEOREM SmallKeysOrdered ==
  ASSUME NEW len \in {1, 2}, NEW a \in Unsigned(len), NEW b \in Unsigned(len)
  PROVE  /\ CmpUi(a, b, len) < 0 <=> a < b
         /\ CmpUi(a, b, len) = 0 <=> a = b
<1>1. a \in Int /\ b \in Int
  BY SMT DEF Unsigned, Values, TwoTo16
<1> QED
  BY <1>1, SMT DEF CmpUi

(* Keys of four bytes are, as long as they are less than 2^31 apart.       *)
THEOREM NearKeysOrdered ==
  ASSUME NEW a \in Unsigned(4), NEW b \in Unsigned(4),
         a - b < TwoTo31, b - a <= TwoTo31
  PROVE  /\ CmpUi(a, b, 4) < 0 <=> a < b
         /\ CmpUi(a, b, 4) = 0 <=> a = b
<1>1. a \in Int /\ b \in Int
  BY SMT DEF Unsigned, Values, TwoTo16, TwoTo32
<1>2. CmpUi(a, b, 4) = a - b
  BY <1>1, SMT DEF CmpUi, ToInt, TwoTo16, TwoTo31, TwoTo32
<1> QED
  BY <1>1, <1>2, SMT

(* Keys further apart are not: there are three of which each one comes     *)
(* before the next and the last before the first, so that a skiplist of    *)
(* them is no list in order.                                               *)
THEOREM WideKeysTurn ==
  \E a, b, c \in Unsigned(4) :
    CmpUi(a, b, 4) < 0 /\ CmpUi(b, c, 4) < 0 /\ CmpUi(c, a, 4) < 0
<1> DEFINE b == 20000 * TwoTo16
           c == 40000 * TwoTo16
<1>1. 0 \in Unsigned(4) /\ b \in Unsigned(4) /\ c \in Unsigned(4)
  BY SMT DEF Unsigned, Values, TwoTo16, TwoTo32
<1>2. CmpUi(0, b, 4) < 0
  BY SMT DEF CmpUi, ToInt, TwoTo16, TwoTo31, TwoTo32
<1>3. CmpUi(b, c, 4) < 0
  BY SMT DEF CmpUi, ToInt, TwoTo16, TwoTo31, TwoTo32
<1>4. CmpUi(c, 0, 4) < 0
  BY SMT DEF CmpUi, ToInt, TwoTo16, TwoTo31, TwoTo32
<1> QED
  BY <1>1, <1>2, <1>3, <1>4

(* Keys of eight bytes are the same when their low halves are: an index    *)
(* with unique keys refuses the second one.                                *)
THEOREM LongKeysCollide ==
  ASSUME NEW a \in Unsigned(8), NEW n \in Nat, a + n * TwoTo32 \in Unsigned(8)
  PROVE  CmpUi(a, a + n * TwoTo32, 8) = 0
<1>1. a \in Int
  BY SMT DEF Unsigned, Values, TwoTo16, TwoTo32
<1>2. (a - (a + n * TwoTo32)) % TwoTo32 = 0
  BY <1>1, SMT DEF TwoTo16, TwoTo32
<1> QED
  BY <1>2, SMT DEF CmpUi, ToInt, TwoTo16, TwoTo31

(* Which string is asked first does not matter.                            *)
THEOREM StringsAntisymmetric ==
  ASSUME NEW a \in Seq(Chars), NEW b \in Seq(Chars)
  PROVE  CmpStr(a, b) = -CmpStr(b, a)
<1>1. Stops(a, b) = Stops(b, a)
  BY DEF Stops
<1>2. Stop(a, b) = Stop(b, a)
  BY <1>1 DEF Stop
<1>3. Stop(a, b) \in Nat \ {0}
  <2>1. Len(a) + 1 \in Stops(a, b) /\ Stops(a, b) \subseteq Nat
    BY DEF Stops
  <2>2. \E n \in Stops(a, b) : \A m \in Stops(a, b) : n <= m
    BY <2>1, LeastNumber
  <2>3. Stop(a, b) \in Stops(a, b)
    BY <2>2, Zenon DEF Stop
  <2> QED
    BY <2>3 DEF Stops
<1> DEFINE n == Stop(a, b)
<1>4. /\ n <= Len(a) => a[n] \in Chars
      /\ n <= Len(b) => b[n] \in Chars
  <2> HIDE DEF n
  <2> QED
    BY <1>3 DEF n
<1>5. \A c \in Chars : c \in Int
  BY DEF Chars
<1>6. /\ n <= Len(a) => a[n] \in Int
      /\ n <= Len(b) => b[n] \in Int
  BY <1>4, <1>5
<1> QED
  BY <1>2, <1>3, <1>6 DEF CmpStr

-----------------------------------------------------------------------------
(* What writing to the buffer of AbJsBuf keeps, for every content, size    *)
(* and base: it never holds more than fits, and a length that is rewritten *)
(* in its midst leaves what stands before and behind it as it was.         *)

Cells == Seq(Nat)
Answers == {"ok", "no_left_space", "no_left_content", "invalid_token", "invalid_number",
            "invalid_escape", "invalid_unicode", "invalid_syntax", "invalid_type",
            "expect_string", "expect_colon", "expect_brackets_a", "expect_brackets_o"}
IsBuffer(jb) == jb \in [cells : Cells, size : Nat, ret : Answers]
Fits(jb) == Len(jb.cells) <= jb.size

(* ab_jsbuf_append (ab_jsonbin.c:1383) writes all or nothing.              *)
THEOREM AppendFits ==
  ASSUME NEW jb, IsBuffer(jb), Fits(jb), NEW s \in Cells
  PROVE  /\ IsBuffer(PutCells(jb, s)) /\ Fits(PutCells(jb, s))
         /\ PutCells(jb, s).cells \in {jb.cells, jb.cells \o s}
<1>1. CASE jb.ret # "ok"
  BY <1>1 DEF PutCells
<1>2. CASE jb.ret = "ok" /\ Len(jb.cells) + Len(s) > jb.size
  <2>1. PutCells(jb, s) = [jb EXCEPT !.ret = "no_left_space"]
    BY <1>2 DEF PutCells
  <2>2. PutCells(jb, s).cells = jb.cells /\ PutCells(jb, s).size = jb.size
    BY <2>1 DEF IsBuffer
  <2>3. IsBuffer(PutCells(jb, s))
    BY <2>1 DEF IsBuffer, Answers
  <2> QED
    BY <2>2, <2>3 DEF Fits
<1>3. CASE jb.ret = "ok" /\ ~(Len(jb.cells) + Len(s) > jb.size)
  <2>1. PutCells(jb, s) = [jb EXCEPT !.cells = jb.cells \o s]
    BY <1>3 DEF PutCells
  <2>2. jb.cells \o s \in Seq(Nat) /\ Len(jb.cells \o s) = Len(jb.cells) + Len(s)
    BY DEF IsBuffer, Cells
  <2>3. Len(jb.cells) + Len(s) <= jb.size
    BY <1>3 DEF IsBuffer, Cells
  <2> QED
    BY <2>1, <2>2, <2>3 DEF IsBuffer, Fits, Cells
<1> QED
  BY <1>1, <1>2, <1>3

(* A varint has one to MaxDigits digits. *)
LEMMA VarintDigits ==
  ASSUME NEW v
  PROVE  \E n \in 1..MaxDigits : EncodeVarint(v) = [i \in 1..n |-> EncodeVarint(v)[i]]
<1> DEFINE S == {k \in 1..MaxDigits : v < VarBase ^ k} \cup {MaxDigits}
<1>1. S \subseteq 1..5 /\ 5 \in S
  BY DEF MaxDigits
<1>2. \E n \in S : \A m \in S : n <= m
  <2> HIDE DEF S
  <2>1. CASE 1 \in S
    BY <1>1, <2>1
  <2>2. CASE 1 \notin S /\ 2 \in S
    BY <1>1, <2>2
  <2>3. CASE 1 \notin S /\ 2 \notin S /\ 3 \in S
    BY <1>1, <2>3
  <2>4. CASE 1 \notin S /\ 2 \notin S /\ 3 \notin S
    <3>1. S \subseteq {4, 5}
      BY <1>1, <2>4
    <3> QED
      BY <1>1, <3>1
  <2> QED
    BY <2>1, <2>2, <2>3, <2>4
<1>3. Min(S) \in S
  BY <1>2, Zenon DEF Min
<1>4. Min(S) \in 1..MaxDigits
  BY <1>1, <1>3 DEF MaxDigits
<1> QED
  BY <1>4 DEF EncodeVarint

(* Cells that are replaced by others, those from p up to q by s: how many  *)
(* there are then, and that the others are what and where they should be.  *)
Spliced(c, p, q, s) == SubSeq(c, 1, p - 1) \o s \o SubSeq(c, q, Len(c))

LEMMA Splice ==
  ASSUME NEW S, NEW c \in Seq(S), NEW s \in Seq(S),
         NEW p \in 1..Len(c), NEW q \in (p + 1)..(Len(c) + 1)
  PROVE  /\ Len(Spliced(c, p, q, s)) = Len(c) + Len(s) - (q - p)
         /\ \A i \in 1..(p - 1) : Spliced(c, p, q, s)[i] = c[i]
         /\ \A i \in 1..Len(s) : Spliced(c, p, q, s)[p - 1 + i] = s[i]
         /\ \A i \in q..Len(c) : Spliced(c, p, q, s)[i + Len(s) - (q - p)] = c[i]
<1> DEFINE a == SubSeq(c, 1, p - 1)
           b == SubSeq(c, q, Len(c))
           e == a \o s
           d == e \o b
<1>1. a \in Seq(S) /\ Len(a) = p - 1 /\ \A i \in 1..(p - 1) : a[i] = c[i]
  OBVIOUS
<1>2. b \in Seq(S) /\ Len(b) = Len(c) - q + 1 /\ \A i \in 1..Len(b) : b[i] = c[q - 1 + i]
  OBVIOUS
<1> HIDE DEF a, b
<1>4. e \in Seq(S) /\ Len(e) = Len(a) + Len(s)
  BY <1>1, ConcatProperties
<1>5. \A i \in 1..Len(a) + Len(s) : e[i] = IF i <= Len(a) THEN a[i] ELSE s[i - Len(a)]
  BY <1>1, ConcatProperties
<1> HIDE DEF e
<1>6. Len(d) = Len(e) + Len(b)
  BY <1>2, <1>4, ConcatProperties
<1>7. \A i \in 1..Len(e) + Len(b) : d[i] = IF i <= Len(e) THEN e[i] ELSE b[i - Len(e)]
  BY <1>2, <1>4, ConcatProperties
<1> HIDE DEF d
<1>8. /\ p \in Int /\ q \in Int /\ 1 <= p /\ p < q /\ q <= Len(c) + 1
      /\ Len(s) \in Nat /\ Len(c) \in Nat
      /\ Len(a) = p - 1 /\ Len(b) = Len(c) - q + 1 /\ Len(e) = p - 1 + Len(s)
  BY <1>1, <1>2, <1>4
<1>9. \A i \in 1..(p - 1) : d[i] = c[i]
  <2> TAKE i \in 1..(p - 1)
  <2>1. i \in 1..Len(e) + Len(b) /\ i <= Len(e) /\ i \in 1..Len(a) + Len(s) /\ i <= Len(a)
    BY <1>8
  <2> QED
    BY <1>1, <1>5, <1>7, <2>1
<1>10. \A i \in 1..Len(s) : d[p - 1 + i] = s[i]
  <2> TAKE i \in 1..Len(s)
  <2> DEFINE k == p - 1 + i
  <2>1. /\ k \in 1..Len(e) + Len(b) /\ k <= Len(e)
        /\ k \in 1..Len(a) + Len(s) /\ ~(k <= Len(a)) /\ k - Len(a) = i
    BY <1>8
  <2> HIDE DEF k
  <2>2. d[k] = s[i]
    BY <1>5, <1>7, <2>1
  <2> QED
    BY <2>2 DEF k
<1>11. \A i \in q..Len(c) : d[i + Len(s) - (q - p)] = c[i]
  <2> TAKE i \in q..Len(c)
  <2> DEFINE k == i + Len(s) - (q - p)
             m == i - q + 1
  <2>1. /\ k \in 1..Len(e) + Len(b) /\ ~(k <= Len(e)) /\ k - Len(e) = m
        /\ m \in 1..Len(b) /\ q - 1 + m = i
    BY <1>8
  <2> HIDE DEF k, m
  <2>2. d[k] = c[i]
    BY <1>2, <1>7, <2>1
  <2> QED
    BY <2>2 DEF k
<1>12. Len(d) = Len(c) + Len(s) - (q - p)
  BY <1>6, <1>8
<1> QED
  BY <1>9, <1>10, <1>11, <1>12, Zenon DEF Spliced, a, b, e, d

(* ab_jsbuf_update_len (ab_jsonbin.c:1427): if there is room, the varint   *)
(* at pos becomes that of the new length, what stood before it stays, and  *)
(* what stood behind it is moved as far as it grew or shrank; if there is  *)
(* none, nothing is written.                                               *)
THEOREM UpdateLenFits ==
  ASSUME NEW jb, IsBuffer(jb), Fits(jb), NEW diff,
         NEW pos \in 1..Len(jb.cells),
         GetVarint(jb.cells, pos).next \in (pos + 1)..(Len(jb.cells) + 1)
  PROVE  LET old  == GetVarint(jb.cells, pos)
             new  == EncodeVarint(old.value + diff)
             grow == Len(new) - (old.next - pos)
             res  == UpdateLen(jb, pos, diff)
         IN  \/ res.cells = jb.cells /\ res.ret = "no_left_space"
             \/ /\ Len(res.cells) = Len(jb.cells) + grow /\ Fits(res)
                /\ \A i \in 1..(pos - 1) : res.cells[i] = jb.cells[i]
                /\ \A i \in 1..Len(new) : res.cells[pos - 1 + i] = new[i]
                /\ \A i \in old.next..Len(jb.cells) : res.cells[i + grow] = jb.cells[i]
<1> DEFINE old  == GetVarint(jb.cells, pos)
           new  == EncodeVarint(old.value + diff)
           grow == Len(new) - (old.next - pos)
           res  == UpdateLen(jb, pos, diff)
           S    == Nat \cup {new[i] : i \in 1..MaxDigits}
           d    == Spliced(jb.cells, pos, old.next, new)
<1>1. jb.cells \in Seq(S) /\ jb.size \in Nat
  BY DEF IsBuffer, Cells
<1>2. new \in Seq(S) /\ Len(new) \in Nat
  <2>1. PICK n \in 1..MaxDigits : new = [i \in 1..n |-> new[i]]
    BY VarintDigits
  <2>2. \A i \in 1..n : new[i] \in S
    BY DEF MaxDigits
  <2> HIDE DEF new, S
  <2>3. [i \in 1..n |-> new[i]] \in Seq(S)
    BY <2>2 DEF MaxDigits
  <2> QED
    BY <2>1, <2>3
<1>3. old.next \in (pos + 1)..(Len(jb.cells) + 1)
  OBVIOUS
<1>4. res = (IF grow # 0 /\ Len(jb.cells) + grow > jb.size
             THEN [jb EXCEPT !.ret = "no_left_space"]
             ELSE [jb EXCEPT !.cells = d])
  BY DEF UpdateLen, Spliced
<1>d. d = Spliced(jb.cells, pos, old.next, new)
  OBVIOUS
<1> HIDE DEF old, new, res, S, d
<1>5. /\ Len(d) = Len(jb.cells) + Len(new) - (old.next - pos)
      /\ \A i \in 1..(pos - 1) : d[i] = jb.cells[i]
      /\ \A i \in 1..Len(new) : d[pos - 1 + i] = new[i]
      /\ \A i \in old.next..Len(jb.cells) : d[i + Len(new) - (old.next - pos)] = jb.cells[i]
  <2>1. PICK c : c = jb.cells
    OBVIOUS
  <2>2. PICK q : q = old.next
    OBVIOUS
  <2>3. c \in Seq(S) /\ pos \in 1..Len(c) /\ q \in (pos + 1)..(Len(c) + 1)
    BY <1>1, <1>3, <2>1, <2>2
  <2>4. d = Spliced(c, pos, q, new)
    BY <1>d, <2>1, <2>2, Zenon
  <2>5. /\ Len(Spliced(c, pos, q, new)) = Len(c) + Len(new) - (q - pos)
        /\ \A i \in 1..(pos - 1) : Spliced(c, pos, q, new)[i] = c[i]
        /\ \A i \in 1..Len(new) : Spliced(c, pos, q, new)[pos - 1 + i] = new[i]
        /\ \A i \in q..Len(c) : Spliced(c, pos, q, new)[i + Len(new) - (q - pos)] = c[i]
    BY <1>2, <2>3, Splice, SMTT(60)
  <2> QED
    BY <2>1, <2>2, <2>4, <2>5, Zenon
<1>6. CASE grow # 0 /\ Len(jb.cells) + grow > jb.size
  <2>1. res.cells = jb.cells /\ res.ret = "no_left_space"
    BY <1>4, <1>6 DEF IsBuffer
  <2> QED
    BY <2>1 DEF old, new, res
<1>7. CASE ~(grow # 0 /\ Len(jb.cells) + grow > jb.size)
  <2>1. res.cells = d /\ res.size = jb.size
    BY <1>4, <1>7 DEF IsBuffer
  <2>2. Len(d) = Len(jb.cells) + grow
    BY <1>1, <1>2, <1>3, <1>5
  <2>3. Len(d) <= jb.size
    BY <1>1, <1>2, <1>3, <1>7, <2>2 DEF Fits
  <2>4. \A i \in old.next..Len(jb.cells) : d[i + grow] = jb.cells[i]
    <3> TAKE i \in old.next..Len(jb.cells)
    <3>1. i + grow = i + Len(new) - (old.next - pos)
      BY <1>1, <1>2, <1>3
    <3> QED
      BY <1>5, <3>1
  <2>5. Fits(res)
    BY <2>1, <2>3 DEF Fits
  <2> QED
    BY <1>5, <2>1, <2>2, <2>4, <2>5 DEF old, new, res
<1> QED
  BY <1>6, <1>7
=============================================================================
