---------------------------- MODULE AbEpochProofs ----------------------------
(***************************************************************************)
(* Proofs about AbEpoch, for any number of threads, items and epochs and   *)
(* any tick period, once every thread has been counted.                    *)
(***************************************************************************)
EXTENDS AbEpoch, TLAPS

ASSUME AllCounted == ThreadCount0 = N

(* The initial state has the types. *)
LEMMA InitTypeOK == Init => TypeOK
BY NAssumption, TickAssumption, ItemAssumption, CountAssumption
   DEF Init, TypeOK, Threads, Places, PCs, InPCs, MAX_EPOCH_LIST

(* The initial state satisfies the inductive invariant. *)
LEMMA InitIInv == Init => IInv
<1> SUFFICES ASSUME Init PROVE IInv
  OBVIOUS
<1> USE NAssumption, TickAssumption, ItemAssumption, AllCounted DEF Init
<1>1. TypeOK
  BY InitTypeOK
<1>3. FlagInv /\ EpochLag
  BY DEF InPCs, FlagInv, FlagOK, EpochLag, Drained
<1>4. ScanInv /\ CollectInv /\ HandInv
  BY DEF ScanInv, ScanOK, CollectInv, HandInv, HandOK, ScanPCs, CollectPCs,
     GcPCs,
         FreePCs
<1>5. ItemInv /\ FileInv /\ CountInv
  BY DEF ItemInv, ItemOK, FileInv, FileOK, CountInv
<1> QED
  BY <1>1, <1>3, <1>4, <1>5 DEF IInv

(* Every step keeps the types. *)
LEMMA TypeStep == TypeOK /\ [Next]_vars => TypeOK'
<1> SUFFICES ASSUME TypeOK, [Next]_vars PROVE TypeOK'
  OBVIOUS
<1> USE NAssumption, TickAssumption, ItemAssumption DEF TypeOK, Goto
<1>1. CASE UNCHANGED vars
  BY <1>1 DEF vars, epochVars, itemVars, enterVars, freeVars, scanVars
<1>2. ASSUME NEW t \in Threads, Work(t) PROVE TypeOK'
  <2> USE DEF epochVars, itemVars, enterVars, freeVars, scanVars, PCs, InPCs,
     Places
  <2>0. t + 1 \in 0 .. N
    BY DEF Threads
  <2>1. CASE EnterSet(t) BY <2>0, <2>1 DEF EnterSet
  <2>2. CASE EnterFlag(t) BY <2>2 DEF EnterFlag
  <2>3. CASE EnterRead(t) BY <2>3 DEF EnterRead
  <2>4. CASE LeaveSet(t) BY <2>0, <2>4 DEF LeaveSet
  <2>5. CASE LeaveFlag(t) BY <2>5 DEF LeaveFlag
  <2>6. CASE FreeRead(t) BY <2>6 DEF FreeRead
  <2>7. CASE FreePush(t) BY <2>7 DEF FreePush
  <2>8. CASE TickAdd(t) BY <2>8 DEF TickAdd
  <2>9. CASE TickTest(t) BY <2>9 DEF TickTest
  <2>10. CASE IncRead(t) BY <2>10 DEF IncRead
  <2>11. CASE ScanCount(t) BY <2>11 DEF ScanCount
  <2>12. CASE ScanFlag(t) BY <2>12 DEF ScanFlag
  <2>13. CASE ScanLocal(t) BY <2>13 DEF ScanLocal
  <2>14. CASE IncCas(t) BY <2>14 DEF IncCas
  <2>15. CASE GcRead(t) BY <2>15 DEF GcRead, MAX_EPOCH_LIST
  <2>16. CASE GcPop(t) BY <2>16 DEF GcPop, EpochList
  <2>17. CASE GcDone(t) BY <2>17 DEF GcDone, MAX_EPOCH_LIST
  <2>18. CASE GcPut(t) BY <2>18 DEF GcPut
  <2> QED
    BY <1>2, <2>1, <2>2, <2>3, <2>4, <2>5, <2>6, <2>7, <2>8, <2>9, <2>10, <2>11,
       <2>12, <2>13, <2>14, <2>15, <2>16, <2>17, <2>18 DEF Work
<1>3. ASSUME NEW t \in Threads, Call(t) PROVE TypeOK'
  <2> USE DEF epochVars, itemVars, enterVars, freeVars, scanVars, PCs, InPCs,
     Places
  <2>1. CASE Enter(t) BY <2>1 DEF Enter
  <2>2. CASE Leave(t) BY <2>2 DEF Leave
  <2>5. CASE Abandon(t) BY <2>5 DEF Abandon
  <2>3. ASSUME NEW x \in Items, Publish(t, x) PROVE TypeOK'
    BY <2>3 DEF Publish
  <2>4. ASSUME NEW x \in Items, Unlink(t, x) PROVE TypeOK'
    BY <2>4 DEF Unlink
  <2> QED
    BY <1>3, <2>1, <2>2, <2>3, <2>4, <2>5 DEF Call
<1>4. ASSUME NEW t \in Threads, Flush(t) PROVE TypeOK'
  BY <1>4 DEF Flush, epochVars, itemVars, enterVars, freeVars, scanVars
<1> QED
  BY <1>1, <1>2, <1>3, <1>4 DEF Next

(* Type correctness. *)
THEOREM TypeCorrect == Spec => []TypeOK
<1>1. Init => TypeOK
  BY InitTypeOK
<1> QED
  BY <1>1, TypeStep, PTL DEF Spec

-----------------------------------------------------------------------------
(* Frame lemmas: what a step must leave alone for a part of the invariant  *)
(* to carry over.                                                          *)

(* A step outside the scans, in the same epoch, at which nobody enters. *)
LEMMA ScanFrame ==
  ASSUME ScanInv,
         global_epoch' = global_epoch,
         inside' \subseteq inside,
         \A u \in inside' : snap'[u] = snap[u],
         \A s \in Threads : pc'[s] \in ScanPCs =>
           pc'[s] = pc[s] /\ ge'[s] = ge[s] /\ i'[s] = i[s]
  PROVE  ScanInv'
BY DEF ScanInv, ScanOK, ScanPCs

(* A step after which only those collect who did before. *)
LEMMA CollectFrame ==
  ASSUME CollectInv,
         global_epoch' = global_epoch,
         \A s \in Threads : pc'[s] \in CollectPCs =>
           pc[s] \in CollectPCs /\ snap'[s] = snap[s],
         \A s \in Threads : pc'[s] \in GcPCs =>
           pc[s] \in GcPCs /\ slot'[s] = slot[s]
  PROVE  CollectInv'
BY DEF CollectInv

(* A step that moves no item and gives no thread another one. *)
LEMMA HandFrame ==
  ASSUME HandInv,
         place' = place,
         \A s \in Threads : pc'[s] \in FreePCs =>
           pc[s] \in FreePCs /\ item'[s] = item[s],
         \A s \in Threads : pc'[s] = "gc_put" =>
           pc[s] = "gc_put" /\ item'[s] = item[s]
  PROVE  HandInv'
BY DEF HandInv, HandOK

(* A step that moves no item, and after which no thread holds more.        *)
LEMMA ItemFrame ==
  ASSUME ItemInv, TypeOK, TypeOK',
         UNCHANGED <<place, stamp>>,
         global_epoch <= global_epoch',
         \A x \in Items : mayHold'[x] \subseteq mayHold[x] \cap inside',
         \A u \in inside \cap inside' : snap'[u] = snap[u]
  PROVE  ItemInv'
<1> SUFFICES ASSUME NEW x \in Items PROVE ItemOK(x)'
  BY DEF ItemInv
<1>1. mayHold[x] \subseteq inside /\ ItemOK(x)
  BY DEF ItemInv, ItemOK
<1>2. \A u \in mayHold'[x] : u \in mayHold[x] /\ snap'[u] = snap[u]
  BY <1>1
<1>3. stamp[x] \in Nat /\ global_epoch \in Nat /\ global_epoch' \in Nat
  BY DEF TypeOK
<1> QED
  BY <1>1, <1>2, <1>3 DEF ItemOK

(* A step that lets no further thread file an item. *)
LEMMA FileFrame ==
  ASSUME FileInv, HandInv, ItemInv, TypeOK, TypeOK',
         global_epoch <= global_epoch',
         \A x \in Items : mayHold'[x] \subseteq mayHold[x] \cap inside',
         \A u \in inside \cap inside' : snap'[u] = snap[u],
         \A s \in Threads : pc'[s] = "free_push" =>
           /\ pc[s] = "free_push" /\ s \in inside \cap inside'
           /\ cur_epoch'[s] = cur_epoch[s] /\ item'[s] = item[s]
  PROVE  FileInv'
<1> SUFFICES ASSUME NEW s \in Threads, pc'[s] = "free_push" PROVE FileOK(s)'
  BY DEF FileInv, FileOK
<1>1. pc[s] = "free_push" /\ FileOK(s) /\ item[s] \in Items
  BY DEF FileInv, HandInv, HandOK, FreePCs
<1>2. \A u \in mayHold'[item[s]] : u \in mayHold[item[s]] /\ snap'[u] = snap[u]
  BY <1>1 DEF ItemInv, ItemOK
<1>3. cur_epoch[s] \in Nat /\ global_epoch \in Nat /\ global_epoch' \in Nat
  BY DEF TypeOK
<1> QED
  BY <1>1, <1>2, <1>3 DEF FileOK

-----------------------------------------------------------------------------
(* One lemma per action.  A part of the invariant that has a frame lemma   *)
(* in its step is one the action cannot disturb.                           *)

(* The call of epoch_enter: only a test of thread_count. *)
LEMMA EnterStep ==
  ASSUME IInv, TypeOK', NEW t \in Threads, Enter(t)
  PROVE  IInv'
<1> USE DEF IInv, Goto, epochVars, itemVars, enterVars, freeVars, scanVars,
        Enter
<1>1. CountInv'
  <2>1. ~(thread_count < t + 1)
    BY NAssumption DEF CountInv, Threads
  <2>2. pc' = [pc EXCEPT ![t] = "enter_flag"]
    BY <2>1
  <2> QED
    BY <2>2 DEF TypeOK, CountInv
<1>2. FlagInv' /\ EpochLag'
  BY DEF TypeOK, FlagInv, FlagOK, InPCs, Drained, EpochLag
<1>3. ScanInv' /\ CollectInv'
  BY ScanFrame, CollectFrame DEF TypeOK, ScanPCs, CollectPCs, GcPCs
<1>4. HandInv'
  BY HandFrame DEF TypeOK, FreePCs
<1>5. ItemInv' /\ FileInv'
  BY ItemFrame, FileFrame DEF TypeOK, ItemInv, ItemOK, FlagInv, FlagOK, InPCs
<1> QED
  BY <1>1, <1>2, <1>3, <1>4, <1>5

(* The flag goes up before the thread is inside. *)
LEMMA EnterFlagStep ==
  ASSUME IInv, TypeOK', NEW t \in Threads, EnterFlag(t)
  PROVE  IInv'
<1> USE DEF IInv, Goto, epochVars, itemVars, enterVars, freeVars, scanVars,
        EnterFlag
<1>1. CountInv'
  BY NAssumption DEF TypeOK, CountInv, Threads
<1>2. FlagInv' /\ EpochLag'
  BY DEF TypeOK, FlagInv, FlagOK, InPCs, Drained, EpochLag
<1>3. ScanInv' /\ CollectInv'
  BY ScanFrame, CollectFrame DEF TypeOK, ScanPCs, CollectPCs, GcPCs
<1>4. HandInv'
  BY HandFrame DEF TypeOK, FreePCs
<1>5. ItemInv' /\ FileInv'
  BY ItemFrame, FileFrame DEF TypeOK, ItemInv, ItemOK, FlagInv, FlagOK, InPCs
<1> QED
  BY <1>1, <1>2, <1>3, <1>4, <1>5

(* The thread enters in the current epoch, so running scans stay valid. *)
LEMMA EnterReadStep ==
  ASSUME IInv, TypeOK', NEW t \in Threads, EnterRead(t)
  PROVE  IInv'
<1> USE DEF IInv, Goto, epochVars, itemVars, enterVars, freeVars, scanVars,
        EnterRead
<1>1. CountInv'
  BY DEF TypeOK, CountInv
<1>2. EpochLag'
  BY DEF TypeOK, EpochLag
<1>3. FlagInv'
  <2> SUFFICES ASSUME NEW s \in Threads PROVE FlagOK(s)'
    BY DEF FlagInv
  <2>1. FlagOK(s)
    BY DEF FlagInv
  <2>2. CASE s = t
    BY <2>1, <2>2 DEF FlagOK, TypeOK, Drained, InPCs
  <2>3. CASE s # t
    BY <2>1, <2>3 DEF FlagOK, TypeOK, Drained, InPCs
  <2> QED
    BY <2>2, <2>3
<1>4. CollectInv'
  BY CollectFrame DEF TypeOK, CollectPCs, GcPCs
<1>5. ScanInv'
  <2> SUFFICES ASSUME NEW s \in Threads, pc'[s] \in ScanPCs PROVE ScanOK(s)'
    BY DEF ScanInv, ScanOK
  <2>1. pc[s] = pc'[s] /\ ScanOK(s)
    BY DEF TypeOK, ScanPCs, ScanInv
  <2>2. ASSUME NEW u \in inside', u < i'[s], ge'[s] = global_epoch'
        PROVE  snap'[u] = global_epoch'
    BY <2>1, <2>2 DEF ScanOK, TypeOK
  <2> QED
    BY <2>1, <2>2 DEF ScanOK
<1>6. HandInv'
  BY HandFrame DEF TypeOK, FreePCs
<1>7. ItemInv'
  <2>1. \A u \in inside : u # t => snap'[u] = snap[u]
    BY DEF TypeOK
  <2> SUFFICES ASSUME NEW x \in Items PROVE ItemOK(x)'
    BY DEF ItemInv
  <2> QED
    BY <2>1 DEF ItemInv, ItemOK, TypeOK
<1>8. FileInv'
  <2> SUFFICES ASSUME NEW s \in Threads, pc'[s] = "free_push" PROVE FileOK(s)'
    BY DEF FileInv, FileOK
  <2>1. s # t /\ pc[s] = "free_push" /\ FileOK(s) /\ item[s] \in Items
    BY DEF FileInv, HandInv, HandOK, FreePCs, TypeOK
  <2>2. mayHold[item[s]] \subseteq inside /\ inside \subseteq Threads
    BY <2>1 DEF ItemInv, ItemOK, TypeOK
  <2> QED
    BY <2>1, <2>2 DEF FileOK, TypeOK
<1> QED
  BY <1>1, <1>2, <1>3, <1>4, <1>5, <1>6, <1>7, <1>8

(* The visible local epoch becomes the snapshot. *)
LEMMA FlushStep ==
  ASSUME IInv, TypeOK', NEW t \in Threads, Flush(t)
  PROVE  IInv'
<1> USE DEF IInv, Goto, epochVars, itemVars, enterVars, freeVars, scanVars,
        Flush
<1>1. CountInv'
  BY NAssumption DEF TypeOK, CountInv, Threads
<1>2. EpochLag'
  BY DEF TypeOK, EpochLag
<1>3. FlagInv'
  <2> SUFFICES ASSUME NEW s \in Threads PROVE FlagOK(s)'
    BY DEF FlagInv
  <2>1. FlagOK(s) /\ FlagOK(t)
    BY DEF FlagInv
  <2>2. t \in inside
    BY <2>1 DEF FlagOK, Drained
  <2>3. snap[t] <= global_epoch
    BY <2>2 DEF EpochLag, TypeOK
  <2>4. CASE s = t
    BY <2>1, <2>2, <2>3, <2>4 DEF FlagOK, TypeOK, Drained
  <2>5. CASE s # t
    BY <2>1, <2>5 DEF FlagOK, TypeOK, Drained
  <2> QED
    BY <2>4, <2>5
<1>4. ScanInv' /\ CollectInv'
  BY ScanFrame, CollectFrame DEF TypeOK, ScanPCs, CollectPCs, GcPCs
<1>5. HandInv'
  BY HandFrame DEF TypeOK, FreePCs
<1>6. ItemInv' /\ FileInv'
  BY ItemFrame, FileFrame DEF TypeOK, ItemInv, ItemOK, FlagInv, FlagOK, InPCs
<1> QED
  BY <1>1, <1>2, <1>3, <1>4, <1>5, <1>6

(* The call of epoch_leave: only a test of thread_count. *)
LEMMA LeaveStep ==
  ASSUME IInv, TypeOK', NEW t \in Threads, Leave(t)
  PROVE  IInv'
<1> USE DEF IInv, Goto, epochVars, itemVars, enterVars, freeVars, scanVars,
        Leave
<1>1. CountInv'
  <2>1. ~(thread_count < t + 1)
    BY NAssumption DEF CountInv, Threads
  <2>2. pc' = [pc EXCEPT ![t] = "leave_flag"]
    BY <2>1
  <2> QED
    BY <2>2 DEF TypeOK, CountInv
<1>2. FlagInv' /\ EpochLag'
  BY DEF TypeOK, FlagInv, FlagOK, InPCs, Drained, EpochLag
<1>3. ScanInv' /\ CollectInv'
  BY ScanFrame, CollectFrame DEF TypeOK, ScanPCs, CollectPCs, GcPCs
<1>4. HandInv'
  BY HandFrame DEF TypeOK, FreePCs
<1>5. ItemInv' /\ FileInv'
  BY ItemFrame, FileFrame DEF TypeOK, ItemInv, ItemOK, FlagInv, FlagOK, InPCs
<1> QED
  BY <1>1, <1>2, <1>3, <1>4, <1>5

(* The thread gives up what it held before its flag goes down. *)
LEMMA LeaveFlagStep ==
  ASSUME IInv, TypeOK', NEW t \in Threads, LeaveFlag(t)
  PROVE  IInv'
<1> USE DEF IInv, Goto, epochVars, itemVars, enterVars, freeVars, scanVars,
        LeaveFlag
<1>1. CountInv'
  BY NAssumption DEF TypeOK, CountInv, Threads
<1>2. FlagInv' /\ EpochLag'
  BY DEF TypeOK, FlagInv, FlagOK, InPCs, Drained, EpochLag
<1>3. ScanInv' /\ CollectInv'
  BY ScanFrame, CollectFrame DEF TypeOK, ScanPCs, CollectPCs, GcPCs
<1>4. HandInv'
  BY HandFrame DEF TypeOK, FreePCs
<1>5. ItemInv' /\ FileInv'
  BY ItemFrame, FileFrame DEF TypeOK, ItemInv, ItemOK, FlagInv, FlagOK, InPCs
<1> QED
  BY <1>1, <1>2, <1>3, <1>4, <1>5

(* The flag stays up, and so does what it covers. *)
LEMMA AbandonStep ==
  ASSUME IInv, TypeOK', NEW t \in Threads, Abandon(t)
  PROVE  IInv'
<1> USE DEF IInv, Goto, epochVars, itemVars, enterVars, freeVars, scanVars,
        Abandon
<1>1. CountInv'
  BY NAssumption DEF TypeOK, CountInv, Threads
<1>2. FlagInv' /\ EpochLag'
  BY DEF TypeOK, FlagInv, FlagOK, InPCs, Drained, EpochLag
<1>3. ScanInv' /\ CollectInv'
  BY ScanFrame, CollectFrame DEF TypeOK, ScanPCs, CollectPCs, GcPCs
<1>4. HandInv'
  BY HandFrame DEF TypeOK, FreePCs
<1>5. ItemInv' /\ FileInv'
  BY ItemFrame, FileFrame DEF TypeOK, ItemInv, ItemOK, FlagInv, FlagOK, InPCs
<1> QED
  BY <1>1, <1>2, <1>3, <1>4, <1>5

(* Nobody holds a free item, so a linked one starts with no holders. *)
LEMMA PublishStep ==
  ASSUME IInv, TypeOK', NEW t \in Threads, NEW x \in Items, Publish(t, x)
  PROVE  IInv'
<1> USE DEF IInv, Goto, epochVars, itemVars, enterVars, freeVars, scanVars,
        Publish
<1>1. CountInv'
  BY NAssumption DEF TypeOK, CountInv, Threads
<1>2. FlagInv' /\ EpochLag'
  BY DEF TypeOK, FlagInv, FlagOK, InPCs, Drained, EpochLag
<1>3. ScanInv' /\ CollectInv'
  BY ScanFrame, CollectFrame DEF TypeOK, ScanPCs, CollectPCs, GcPCs
<1>4. HandInv'
  BY DEF TypeOK, HandInv, HandOK, FreePCs
<1>5. FileInv'
  BY FileFrame DEF TypeOK, ItemInv, ItemOK, FlagInv, FlagOK, InPCs
<1>6. ItemInv'
  BY DEF TypeOK, ItemInv, ItemOK
<1> QED
  BY <1>1, <1>2, <1>3, <1>4, <1>5, <1>6

(* The item leaves the container with every thread inside as a holder. *)
LEMMA UnlinkStep ==
  ASSUME IInv, TypeOK', NEW t \in Threads, NEW x \in Items, Unlink(t, x)
  PROVE  IInv'
<1> USE DEF IInv, Goto, epochVars, itemVars, enterVars, freeVars, scanVars,
        Unlink
<1>1. CountInv'
  BY NAssumption DEF TypeOK, CountInv, Threads
<1>2. FlagInv' /\ EpochLag'
  BY DEF TypeOK, FlagInv, FlagOK, InPCs, Drained, EpochLag
<1>3. ScanInv' /\ CollectInv'
  BY ScanFrame, CollectFrame DEF TypeOK, ScanPCs, CollectPCs, GcPCs
<1>4. HandInv'
  <2> SUFFICES ASSUME NEW s \in Threads PROVE HandOK(s)'
    BY DEF HandInv
  <2>1. HandOK(s) /\ (pc[s] \in FreePCs => item[s] # x)
    BY DEF HandInv, HandOK
  <2>2. CASE s = t
    BY <2>2 DEF HandInv, HandOK, TypeOK, FreePCs
  <2>3. CASE s # t
    BY <2>1, <2>3 DEF HandOK, TypeOK, FreePCs
  <2> QED
    BY <2>2, <2>3
<1>5. ItemInv'
  BY DEF TypeOK, ItemInv, ItemOK
<1>6. FileInv'
  <2> SUFFICES ASSUME NEW s \in Threads, pc'[s] = "free_push" PROVE FileOK(s)'
    BY DEF FileInv, FileOK
  <2>1. pc[s] = "free_push" /\ FileOK(s) /\ item'[s] = item[s]
    BY DEF TypeOK, FileInv
  <2>2. item[s] \in Items /\ item[s] # x
    BY <2>1 DEF HandInv, HandOK, FreePCs
  <2> QED
    BY <2>1, <2>2 DEF FileOK, TypeOK
<1> QED
  BY <1>1, <1>2, <1>3, <1>4, <1>5, <1>6

(* No holder entered later than the epoch that is read. *)
LEMMA FreeReadStep ==
  ASSUME IInv, TypeOK', NEW t \in Threads, FreeRead(t)
  PROVE  IInv'
<1> USE DEF IInv, Goto, epochVars, itemVars, enterVars, freeVars, scanVars,
        FreeRead
<1>1. CountInv'
  BY NAssumption DEF TypeOK, CountInv, Threads
<1>2. FlagInv' /\ EpochLag'
  BY DEF TypeOK, FlagInv, FlagOK, InPCs, Drained, EpochLag
<1>3. ScanInv' /\ CollectInv'
  BY ScanFrame, CollectFrame DEF TypeOK, ScanPCs, CollectPCs, GcPCs
<1>4. HandInv'
  BY HandFrame DEF TypeOK, FreePCs
<1>5. ItemInv'
  BY ItemFrame DEF TypeOK, ItemInv, ItemOK
<1>6. FileInv'
  <2> SUFFICES ASSUME NEW s \in Threads, pc'[s] = "free_push" PROVE FileOK(s)'
    BY DEF FileInv, FileOK
  <2>1. CASE s = t
    <3>1. t \in inside /\ item[t] \in Items
      BY DEF FlagInv, FlagOK, InPCs, HandInv, HandOK, FreePCs
    <3>2. mayHold[item[t]] \subseteq inside
      BY <3>1 DEF ItemInv, ItemOK
    <3>3. \A u \in inside : snap[u] <= global_epoch
      BY DEF EpochLag, TypeOK
    <3> QED
      BY <2>1, <3>1, <3>2, <3>3 DEF FileOK, TypeOK
  <2>2. CASE s # t
    BY <2>2 DEF FileInv, FileOK, TypeOK
  <2> QED
    BY <2>1, <2>2
<1> QED
  BY <1>1, <1>2, <1>3, <1>4, <1>5, <1>6

(* The item is filed under an epoch no holder entered after. *)
LEMMA FreePushStep ==
  ASSUME IInv, TypeOK', NEW t \in Threads, FreePush(t)
  PROVE  IInv'
<1> USE DEF IInv, Goto, epochVars, itemVars, enterVars, freeVars, scanVars,
        FreePush
<1>1. CountInv'
  BY NAssumption DEF TypeOK, CountInv, Threads
<1>2. FlagInv' /\ EpochLag'
  BY DEF TypeOK, FlagInv, FlagOK, InPCs, Drained, EpochLag
<1>3. ScanInv' /\ CollectInv'
  BY ScanFrame, CollectFrame DEF TypeOK, ScanPCs, CollectPCs, GcPCs
<1>4. HandInv'
  <2> SUFFICES ASSUME NEW s \in Threads PROVE HandOK(s)'
    BY DEF HandInv
  <2>1. item[t] \in Items /\ place[item[t]] = "unlinked"
    BY DEF HandInv, HandOK, FreePCs
  <2>2. HandOK(s) /\ (s # t /\ pc[s] \in FreePCs => item[s] # item[t])
    BY DEF HandInv, HandOK, FreePCs
  <2>3. CASE s = t
    BY <2>3 DEF HandOK, TypeOK, FreePCs
  <2>4. CASE s # t
    BY <2>1, <2>2, <2>4 DEF HandOK, TypeOK, FreePCs
  <2> QED
    BY <2>3, <2>4
<1>5. FileInv'
  BY FileFrame DEF TypeOK, ItemInv, ItemOK, FlagInv, FlagOK, InPCs
<1>6. ItemInv'
  <2> SUFFICES ASSUME NEW x \in Items PROVE ItemOK(x)'
    BY DEF ItemInv
  <2>1. CASE x = item[t]
    BY <2>1 DEF ItemInv, ItemOK, FileInv, FileOK, TypeOK
  <2>2. CASE x # item[t]
    BY <2>2 DEF ItemInv, ItemOK, TypeOK
  <2> QED
    BY <2>1, <2>2
<1> QED
  BY <1>1, <1>2, <1>3, <1>4, <1>5, <1>6

(* The tick is not part of the invariant. *)
LEMMA TickAddStep ==
  ASSUME IInv, TypeOK', NEW t \in Threads, TickAdd(t)
  PROVE  IInv'
<1> USE DEF IInv, Goto, epochVars, itemVars, enterVars, freeVars, scanVars,
        TickAdd
<1>1. CountInv'
  BY NAssumption DEF TypeOK, CountInv, Threads
<1>2. FlagInv' /\ EpochLag'
  BY DEF TypeOK, FlagInv, FlagOK, InPCs, Drained, EpochLag
<1>3. ScanInv' /\ CollectInv'
  BY ScanFrame, CollectFrame DEF TypeOK, ScanPCs, CollectPCs, GcPCs
<1>4. HandInv'
  BY HandFrame DEF TypeOK, FreePCs
<1>5. ItemInv' /\ FileInv'
  BY ItemFrame, FileFrame DEF TypeOK, ItemInv, ItemOK, FlagInv, FlagOK, InPCs
<1> QED
  BY <1>1, <1>2, <1>3, <1>4, <1>5

(* The tick is not part of the invariant. *)
LEMMA TickTestStep ==
  ASSUME IInv, TypeOK', NEW t \in Threads, TickTest(t)
  PROVE  IInv'
<1> USE DEF IInv, Goto, epochVars, itemVars, enterVars, freeVars, scanVars,
        TickTest
<1>1. CountInv'
  BY NAssumption DEF TypeOK, CountInv, Threads
<1>2. FlagInv' /\ EpochLag'
  BY DEF TypeOK, FlagInv, FlagOK, InPCs, Drained, EpochLag
<1>3. ScanInv' /\ CollectInv'
  BY ScanFrame, CollectFrame DEF TypeOK, ScanPCs, CollectPCs, GcPCs
<1>4. HandInv'
  BY HandFrame DEF TypeOK, FreePCs
<1>5. ItemInv' /\ FileInv'
  BY ItemFrame, FileFrame DEF TypeOK, ItemInv, ItemOK, FlagInv, FlagOK, InPCs
<1> QED
  BY <1>1, <1>2, <1>3, <1>4, <1>5

(* A scan starts with nobody looked at. *)
LEMMA IncReadStep ==
  ASSUME IInv, TypeOK', NEW t \in Threads, IncRead(t)
  PROVE  IInv'
<1> USE DEF IInv, Goto, epochVars, itemVars, enterVars, freeVars, scanVars,
        IncRead
<1>1. CountInv'
  BY NAssumption DEF TypeOK, CountInv, Threads
<1>2. FlagInv' /\ EpochLag'
  BY DEF TypeOK, FlagInv, FlagOK, InPCs, Drained, EpochLag
<1>3. CollectInv'
  BY CollectFrame DEF TypeOK, CollectPCs, GcPCs
<1>4. ScanInv'
  <2> SUFFICES ASSUME NEW s \in Threads PROVE ScanOK(s)'
    BY DEF ScanInv
  <2>1. ScanOK(s) /\ ScanOK(t)
    BY DEF ScanInv
  <2>3. CASE s = t
    BY <2>1, <2>3, NAssumption DEF ScanOK, FlagOK, ScanPCs, TypeOK, CountInv,
       Threads
  <2>4. CASE s # t
    BY <2>1, <2>4 DEF ScanOK, ScanPCs, TypeOK
  <2> QED
    BY <2>3, <2>4
<1>5. HandInv'
  BY HandFrame DEF TypeOK, FreePCs
<1>6. ItemInv' /\ FileInv'
  BY ItemFrame, FileFrame DEF TypeOK, ItemInv, ItemOK, FlagInv, FlagOK, InPCs
<1> QED
  BY <1>1, <1>2, <1>3, <1>4, <1>5, <1>6

(* The loop ends only after all N threads. *)
LEMMA ScanCountStep ==
  ASSUME IInv, TypeOK', NEW t \in Threads, ScanCount(t)
  PROVE  IInv'
<1> USE DEF IInv, Goto, epochVars, itemVars, enterVars, freeVars, scanVars,
        ScanCount
<1>1. CountInv'
  BY NAssumption DEF TypeOK, CountInv, Threads
<1>2. FlagInv' /\ EpochLag'
  BY DEF TypeOK, FlagInv, FlagOK, InPCs, Drained, EpochLag
<1>3. CollectInv'
  BY CollectFrame DEF TypeOK, CollectPCs, GcPCs
<1>4. ScanInv'
  <2> SUFFICES ASSUME NEW s \in Threads PROVE ScanOK(s)'
    BY DEF ScanInv
  <2>1. ScanOK(s) /\ ScanOK(t)
    BY DEF ScanInv
  <2>3. CASE s = t
    BY <2>1, <2>3, NAssumption DEF ScanOK, FlagOK, ScanPCs, TypeOK, CountInv
  <2>4. CASE s # t
    BY <2>1, <2>4 DEF ScanOK, ScanPCs, TypeOK
  <2> QED
    BY <2>3, <2>4
<1>5. HandInv'
  BY HandFrame DEF TypeOK, FreePCs
<1>6. ItemInv' /\ FileInv'
  BY ItemFrame, FileFrame DEF TypeOK, ItemInv, ItemOK, FlagInv, FlagOK, InPCs
<1> QED
  BY <1>1, <1>2, <1>3, <1>4, <1>5, <1>6

(* A thread whose flag is down is not inside. *)
LEMMA ScanFlagStep ==
  ASSUME IInv, TypeOK', NEW t \in Threads, ScanFlag(t)
  PROVE  IInv'
<1> USE DEF IInv, Goto, epochVars, itemVars, enterVars, freeVars, scanVars,
        ScanFlag
<1>1. CountInv'
  BY NAssumption DEF TypeOK, CountInv, Threads
<1>2. FlagInv' /\ EpochLag'
  BY DEF TypeOK, FlagInv, FlagOK, InPCs, Drained, EpochLag
<1>3. CollectInv'
  BY CollectFrame DEF TypeOK, CollectPCs, GcPCs
<1>4. ScanInv'
  <2> SUFFICES ASSUME NEW s \in Threads PROVE ScanOK(s)'
    BY DEF ScanInv
  <2>1. ScanOK(s) /\ ScanOK(t)
    BY DEF ScanInv
  <2>2. i[t] < N /\ i[t] \in Threads /\ FlagOK(i[t])
    <3>1. i[t] < N /\ i[t] \in Nat
      BY <2>1 DEF ScanOK, ScanPCs, TypeOK
    <3>2. i[t] \in Threads
      BY <3>1, NAssumption DEF Threads
    <3> QED
      BY <3>1, <3>2 DEF FlagInv
  <2>3. CASE s = t
    <3>1. ASSUME NEW u \in inside', u < i'[t], ge'[t] = global_epoch',
                 pc'[t] \in ScanPCs
          PROVE  snap'[u] = global_epoch'
      <4>1. u \in Nat /\ u \in inside
        BY DEF TypeOK, Threads
      <4>2. CASE u < i[t]
        BY <2>1, <3>1, <4>1, <4>2 DEF ScanOK, ScanPCs, TypeOK
      <4>3. CASE u = i[t]
        BY <2>1, <2>2, <3>1, <4>1, <4>3 DEF ScanOK, FlagOK, ScanPCs, TypeOK,
           EpochLag, Drained
      <4> QED
        BY <3>1, <4>1, <4>2, <4>3 DEF TypeOK
    <3>2. pc'[t] \in ScanPCs =>
            /\ ge'[t] <= global_epoch'
            /\ i'[t] <= N
            /\ pc'[t] \in {"scan_flag", "scan_local"} => i'[t] < N
            /\ pc'[t] = "inc_cas" => i'[t] = N
      <4>1. i[t] + 1 <= N /\ ge[t] <= global_epoch
        BY <2>1, <2>2, NAssumption DEF ScanOK, ScanPCs, TypeOK
      <4> QED
        BY <2>1, <4>1 DEF ScanOK, ScanPCs, TypeOK
    <3> QED
      BY <2>3, <3>1, <3>2 DEF ScanOK
  <2>4. CASE s # t
    BY <2>1, <2>4 DEF ScanOK, ScanPCs, TypeOK
  <2> QED
    BY <2>3, <2>4
<1>5. HandInv'
  BY HandFrame DEF TypeOK, FreePCs
<1>6. ItemInv' /\ FileInv'
  BY ItemFrame, FileFrame DEF TypeOK, ItemInv, ItemOK, FlagInv, FlagOK, InPCs
<1> QED
  BY <1>1, <1>2, <1>3, <1>4, <1>5, <1>6

(* A local epoch equal to the global one is the snapshot, flushed or not. *)
LEMMA ScanLocalStep ==
  ASSUME IInv, TypeOK', NEW t \in Threads, ScanLocal(t)
  PROVE  IInv'
<1> USE DEF IInv, Goto, epochVars, itemVars, enterVars, freeVars, scanVars,
        ScanLocal
<1>1. CountInv'
  BY NAssumption DEF TypeOK, CountInv, Threads
<1>2. FlagInv' /\ EpochLag'
  BY DEF TypeOK, FlagInv, FlagOK, InPCs, Drained, EpochLag
<1>3. CollectInv'
  BY CollectFrame DEF TypeOK, CollectPCs, GcPCs
<1>4. ScanInv'
  <2> SUFFICES ASSUME NEW s \in Threads PROVE ScanOK(s)'
    BY DEF ScanInv
  <2>1. ScanOK(s) /\ ScanOK(t)
    BY DEF ScanInv
  <2>2. i[t] < N /\ i[t] \in Threads /\ FlagOK(i[t])
    <3>1. i[t] < N /\ i[t] \in Nat
      BY <2>1 DEF ScanOK, ScanPCs, TypeOK
    <3>2. i[t] \in Threads
      BY <3>1, NAssumption DEF Threads
    <3> QED
      BY <3>1, <3>2 DEF FlagInv
  <2>3. CASE s = t
    <3>1. ASSUME NEW u \in inside', u < i'[t], ge'[t] = global_epoch',
                 pc'[t] \in ScanPCs
          PROVE  snap'[u] = global_epoch'
      <4>1. u \in Nat /\ u \in inside
        BY DEF TypeOK, Threads
      <4>2. CASE u < i[t]
        BY <2>1, <3>1, <4>1, <4>2 DEF ScanOK, ScanPCs, TypeOK
      <4>3. CASE u = i[t]
        BY <2>1, <2>2, <3>1, <4>1, <4>3 DEF ScanOK, FlagOK, ScanPCs, TypeOK,
           EpochLag, Drained
      <4> QED
        BY <3>1, <4>1, <4>2, <4>3 DEF TypeOK
    <3>2. pc'[t] \in ScanPCs =>
            /\ ge'[t] <= global_epoch'
            /\ i'[t] <= N
            /\ pc'[t] \in {"scan_flag", "scan_local"} => i'[t] < N
            /\ pc'[t] = "inc_cas" => i'[t] = N
      <4>1. i[t] + 1 <= N /\ ge[t] <= global_epoch
        BY <2>1, <2>2, NAssumption DEF ScanOK, ScanPCs, TypeOK
      <4> QED
        BY <2>1, <4>1 DEF ScanOK, ScanPCs, TypeOK
    <3> QED
      BY <2>3, <3>1, <3>2 DEF ScanOK
  <2>4. CASE s # t
    BY <2>1, <2>4 DEF ScanOK, ScanPCs, TypeOK
  <2> QED
    BY <2>3, <2>4
<1>5. HandInv'
  BY HandFrame DEF TypeOK, FreePCs
<1>6. ItemInv' /\ FileInv'
  BY ItemFrame, FileFrame DEF TypeOK, ItemInv, ItemOK, FlagInv, FlagOK, InPCs
<1> QED
  BY <1>1, <1>2, <1>3, <1>4, <1>5, <1>6

(* The epoch moves on only if everyone inside is in it: nobody collects. *)
LEMMA IncCasStep ==
  ASSUME IInv, TypeOK', NEW t \in Threads, IncCas(t)
  PROVE  IInv'
<1> USE DEF IInv, Goto, epochVars, itemVars, enterVars, freeVars, scanVars,
        IncCas
<1>1. CountInv'
  BY DEF TypeOK, CountInv
<1>2. FlagInv'
  BY DEF TypeOK, FlagInv, FlagOK, InPCs, Drained
<1>3. EpochLag'
  <2>1. CASE global_epoch = ge[t]
    <3>1. \A u \in inside : snap[u] = global_epoch
      <4>1. ScanOK(t) /\ pc[t] = "inc_cas"
        BY DEF ScanInv
      <4>2. \A u \in inside : u < N
        BY NAssumption DEF TypeOK, Threads
      <4> QED
        BY <2>1, <4>1, <4>2 DEF ScanOK, ScanPCs
    <3> QED
      BY <2>1, <3>1 DEF EpochLag, TypeOK
  <2>2. CASE global_epoch # ge[t]
    BY <2>2 DEF EpochLag, TypeOK
  <2> QED
    BY <2>1, <2>2
<1>4. ScanInv'
  <2> SUFFICES ASSUME NEW s \in Threads, pc'[s] \in ScanPCs PROVE ScanOK(s)'
    BY DEF ScanInv, ScanOK
  <2>1. s # t /\ pc[s] = pc'[s] /\ ScanOK(s)
    BY DEF TypeOK, ScanPCs, ScanInv
  <2>2. global_epoch' \in {global_epoch, global_epoch + 1}
    OBVIOUS
  <2> QED
    BY <2>1, <2>2 DEF ScanOK, TypeOK
<1>5. CollectInv'
  <2>1. CASE global_epoch = ge[t]
    <3>1. \A u \in inside : snap[u] = global_epoch
      <4>1. ScanOK(t) /\ pc[t] = "inc_cas"
        BY DEF ScanInv
      <4>2. \A u \in inside : u < N
        BY NAssumption DEF TypeOK, Threads
      <4> QED
        BY <2>1, <4>1, <4>2 DEF ScanOK, ScanPCs
    <3>2. \A s \in Threads : pc[s] \notin CollectPCs
      BY <3>1 DEF CollectInv, CollectPCs, GcPCs, FlagInv, FlagOK, InPCs, TypeOK
    <3>3. t \in inside
      BY DEF FlagInv, FlagOK, InPCs
    <3>4. \A s \in Threads : pc'[s] \in CollectPCs => s = t /\ pc'[s] = "gc_read"
      BY <2>1, <3>2 DEF TypeOK
    <3>5. snap'[t] = global_epoch' - 1
      BY <2>1, <3>1, <3>3 DEF TypeOK
    <3> QED
      BY <3>4, <3>5 DEF CollectInv, CollectPCs, GcPCs
  <2>2. CASE global_epoch # ge[t]
    BY <2>2, CollectFrame DEF TypeOK, CollectPCs, GcPCs
  <2> QED
    BY <2>1, <2>2
<1>6. HandInv'
  BY HandFrame DEF TypeOK, FreePCs
<1>7. ItemInv' /\ FileInv'
  BY ItemFrame, FileFrame DEF TypeOK, ItemInv, ItemOK, FlagInv, FlagOK, InPCs
<1> QED
  BY <1>1, <1>2, <1>3, <1>4, <1>5, <1>6, <1>7

(* The epoch cannot move while the thread is inside, so the index is exact. *)
LEMMA GcReadStep ==
  ASSUME IInv, TypeOK', NEW t \in Threads, GcRead(t)
  PROVE  IInv'
<1> USE DEF IInv, Goto, epochVars, itemVars, enterVars, freeVars, scanVars,
        GcRead
<1>1. CountInv'
  BY NAssumption DEF TypeOK, CountInv, Threads
<1>2. FlagInv' /\ EpochLag'
  BY DEF TypeOK, FlagInv, FlagOK, InPCs, Drained, EpochLag
<1>3. ScanInv'
  BY ScanFrame DEF TypeOK, ScanPCs
<1>4. CollectInv'
  BY DEF CollectInv, CollectPCs, GcPCs, TypeOK
<1>5. HandInv'
  BY HandFrame DEF TypeOK, FreePCs
<1>6. ItemInv' /\ FileInv'
  BY ItemFrame, FileFrame DEF TypeOK, ItemInv, ItemOK, FlagInv, FlagOK, InPCs
<1> QED
  BY <1>1, <1>2, <1>3, <1>4, <1>5, <1>6

(* Items of the drained list were filed two epochs before the oldest entry. *)
LEMMA GcPopStep ==
  ASSUME IInv, TypeOK', NEW t \in Threads, GcPop(t)
  PROVE  IInv'
<1> USE DEF IInv, Goto, epochVars, itemVars, enterVars, freeVars, scanVars,
        GcPop
<1>1. CountInv'
  BY NAssumption DEF TypeOK, CountInv, Threads
<1>2. FlagInv' /\ EpochLag'
  BY DEF TypeOK, FlagInv, FlagOK, InPCs, Drained, EpochLag
<1>3. ScanInv' /\ CollectInv'
  BY ScanFrame, CollectFrame DEF TypeOK, ScanPCs, CollectPCs, GcPCs
<1>4. HandInv'
  <2> SUFFICES ASSUME NEW s \in Threads PROVE HandOK(s)'
    BY DEF HandInv
  <2>1. PICK x \in EpochList(slot[t]) : /\ place' = [place EXCEPT ![x] = "collected"]
                                        /\ item' = [item EXCEPT ![t] = x]
    OBVIOUS
  <2>2. HandOK(s) /\ x \in Items /\ place[x] = "limbo"
    BY DEF HandInv, EpochList
  <2>3. CASE s = t
    BY <2>1, <2>2, <2>3 DEF HandOK, TypeOK, FreePCs
  <2>4. CASE s # t
    BY <2>1, <2>2, <2>4 DEF HandOK, TypeOK, FreePCs
  <2> QED
    BY <2>3, <2>4
<1>5. FileInv'
  BY FileFrame DEF TypeOK, ItemInv, ItemOK, FlagInv, FlagOK, InPCs
<1>6. ItemInv'
  <2>1. PICK x \in EpochList(slot[t]) : place' = [place EXCEPT ![x] = "collected"]
    OBVIOUS
  <2>2. /\ x \in Items /\ place[x] = "limbo"
        /\ stamp[x] % 4 = (global_epoch + 1) % 4
    BY DEF EpochList, CollectInv, GcPCs, MAX_EPOCH_LIST
  <2>3. stamp[x] \in Nat /\ global_epoch \in Nat /\ stamp[x] <= global_epoch
    BY <2>2 DEF ItemInv, ItemOK, TypeOK
  <2>4. stamp[x] # global_epoch /\ stamp[x] # global_epoch - 1
    BY <2>2, <2>3
  <2>5. ASSUME NEW u \in mayHold[x] PROVE FALSE
    <3>1. u \in inside /\ snap[u] <= stamp[x] /\ snap[u] \in Nat
      BY <2>2 DEF ItemInv, ItemOK, TypeOK
    <3>2. global_epoch - snap[u] \in {0, 1}
      BY <3>1 DEF EpochLag
    <3> QED
      BY <2>3, <2>4, <3>1, <3>2
  <2>6. mayHold'[x] = {}
    BY <2>5
  <2> SUFFICES ASSUME NEW y \in Items PROVE ItemOK(y)'
    BY DEF ItemInv
  <2>7. CASE y = x
    BY <2>1, <2>2, <2>6, <2>7 DEF ItemOK, TypeOK
  <2>8. CASE y # x
    BY <2>1, <2>2, <2>8 DEF ItemInv, ItemOK, TypeOK
  <2> QED
    BY <2>7, <2>8
<1> QED
  BY <1>1, <1>2, <1>3, <1>4, <1>5, <1>6

(* The list is empty. *)
LEMMA GcDoneStep ==
  ASSUME IInv, TypeOK', NEW t \in Threads, GcDone(t)
  PROVE  IInv'
<1> USE DEF IInv, Goto, epochVars, itemVars, enterVars, freeVars, scanVars,
        GcDone
<1>1. CountInv'
  BY NAssumption DEF TypeOK, CountInv, Threads
<1>2. FlagInv' /\ EpochLag'
  BY DEF TypeOK, FlagInv, FlagOK, InPCs, Drained, EpochLag
<1>3. ScanInv' /\ CollectInv'
  BY ScanFrame, CollectFrame DEF TypeOK, ScanPCs, CollectPCs, GcPCs
<1>4. HandInv'
  BY HandFrame DEF TypeOK, FreePCs
<1>5. ItemInv' /\ FileInv'
  BY ItemFrame, FileFrame DEF TypeOK, ItemInv, ItemOK, FlagInv, FlagOK, InPCs
<1> QED
  BY <1>1, <1>2, <1>3, <1>4, <1>5

(* Nobody holds a collected item. *)
LEMMA GcPutStep ==
  ASSUME IInv, TypeOK', NEW t \in Threads, GcPut(t)
  PROVE  IInv'
<1> USE DEF IInv, Goto, epochVars, itemVars, enterVars, freeVars, scanVars,
        GcPut
<1>1. CountInv'
  BY NAssumption DEF TypeOK, CountInv, Threads
<1>2. FlagInv' /\ EpochLag'
  BY DEF TypeOK, FlagInv, FlagOK, InPCs, Drained, EpochLag
<1>3. ScanInv' /\ CollectInv'
  BY ScanFrame, CollectFrame DEF TypeOK, ScanPCs, CollectPCs, GcPCs
<1>4. HandInv'
  <2> SUFFICES ASSUME NEW s \in Threads PROVE HandOK(s)'
    BY DEF HandInv
  <2>1. HandOK(s) /\ item[t] \in Items /\ place[item[t]] = "collected"
    BY DEF HandInv, HandOK
  <2>2. CASE s = t
    BY <2>2 DEF HandOK, TypeOK, FreePCs
  <2>3. CASE s # t
    <3>1. pc[s] # "gc_put"
      BY <2>3 DEF CollectInv, CollectPCs, GcPCs
    <3> QED
      BY <2>1, <2>3, <3>1 DEF HandOK, TypeOK, FreePCs
  <2> QED
    BY <2>2, <2>3
<1>5. FileInv'
  BY FileFrame DEF TypeOK, ItemInv, ItemOK, FlagInv, FlagOK, InPCs
<1>6. ItemInv'
  <2>1. item[t] \in Items /\ place[item[t]] = "collected"
    BY DEF HandInv, HandOK
  <2> QED
    BY <2>1 DEF ItemInv, ItemOK, TypeOK
<1> QED
  BY <1>1, <1>2, <1>3, <1>4, <1>5, <1>6

-----------------------------------------------------------------------------
(* IInv is inductive. *)
LEMMA IInvStep == IInv /\ [Next]_vars => IInv'
<1> SUFFICES ASSUME IInv, [Next]_vars PROVE IInv'
  OBVIOUS
<1>1. TypeOK'
  BY TypeStep DEF IInv
<1>2. CASE UNCHANGED vars
  BY <1>2 DEF IInv, TypeOK, CountInv, FlagInv, FlagOK, EpochLag, ScanInv,
     ScanOK,
     CollectInv, HandInv, HandOK, ItemInv, ItemOK, FileInv, FileOK, Drained,
     vars, epochVars, itemVars, enterVars, freeVars, scanVars
<1>3. ASSUME NEW t \in Threads, Work(t) PROVE IInv'
  <2>1. ~EnterSet(t) /\ ~LeaveSet(t)
    BY DEF IInv, CountInv, EnterSet, LeaveSet, Goto
  <2> QED
    BY <1>1, <1>3, <2>1, EnterFlagStep, EnterReadStep, LeaveFlagStep,
       FreeReadStep,
       FreePushStep, TickAddStep, TickTestStep, IncReadStep, ScanCountStep,
       ScanFlagStep, ScanLocalStep, IncCasStep, GcReadStep, GcPopStep,
          GcDoneStep,
       GcPutStep DEF Work
<1>4. ASSUME NEW t \in Threads, Call(t) PROVE IInv'
  BY <1>1, <1>4, EnterStep, LeaveStep, AbandonStep, PublishStep,
     UnlinkStep DEF Call
<1>5. ASSUME NEW t \in Threads, Flush(t) PROVE IInv'
  BY <1>1, <1>5, FlushStep
<1> QED
  BY <1>2, <1>3, <1>4, <1>5 DEF Next

(* The inductive invariant holds in every state. *)
THEOREM Invariance == Spec => []IInv
BY InitIInv, IInvStep, PTL DEF Spec

(* No item is handed out again while a thread may hold a pointer to it.    *)
THEOREM ReuseIsSafe == Spec => []NoReuseWhileHeld
<1>1. IInv => NoReuseWhileHeld
  BY DEF IInv, ItemInv, ItemOK, NoReuseWhileHeld
<1> QED
  BY <1>1, Invariance, PTL

(* ab_mem.c:375: only one thread collects at a time. *)
THEOREM OneCollector == Spec => []AtMostOneGc
<1>1. IInv => AtMostOneGc
  BY DEF IInv, CollectInv, CollectPCs, GcPCs, AtMostOneGc
<1> QED
  BY <1>1, Invariance, PTL

(* No ab_mem_free pushes onto the list that is being drained. *)
THEOREM DrainIsUndisturbed == Spec => []GcListQuiet
<1>1. ASSUME IInv, NEW s \in Threads, NEW t \in Threads,
             pc[s] \in GcPCs, pc[t] = "free_push"
      PROVE  cur_epoch[t] % 4 # slot[s]
  <2>1. slot[s] = (global_epoch + 1) % 4
    BY <1>1 DEF IInv, CollectInv, CollectPCs, MAX_EPOCH_LIST
  <2>2. t \in inside
    BY <1>1 DEF IInv, FlagInv, FlagOK, InPCs
  <2>3. cur_epoch[t] \in Nat /\ global_epoch \in Nat /\ snap[t] \in Nat
    BY <1>1 DEF IInv, TypeOK
  <2>4. /\ snap[t] <= cur_epoch[t] /\ cur_epoch[t] <= global_epoch
        /\ global_epoch - snap[t] \in {0, 1}
    BY <1>1, <2>2 DEF IInv, FileInv, FileOK, EpochLag
  <2>5. cur_epoch[t] = global_epoch \/ cur_epoch[t] = global_epoch - 1
    BY <2>3, <2>4
  <2> QED
    BY <2>1, <2>3, <2>5
<1>2. IInv => GcListQuiet
  BY <1>1 DEF GcListQuiet, MAX_EPOCH_LIST
<1> QED
  BY <1>2, Invariance, PTL

(* A buffered store to local_epoches lets the global epoch run at most one *)
(* ahead of a thread that is inside (ab_mem.c:329-331).                    *)
THEOREM LagIsBounded == Spec => []EpochLag
<1>1. IInv => EpochLag
  BY DEF IInv
<1> QED
  BY <1>1, Invariance, PTL

-----------------------------------------------------------------------------
(* AbEpoch implements AbReclaim.                                           *)

(* The initial state maps to an initial state. *)
LEMMA PromiseInit == Init => Promise!Init
BY DEF Init, Promise!Init, AbsState

(* Every step maps to a step or a stutter. *)
LEMMA PromiseStep == IInv /\ [Next]_vars => [Promise!Next]_Promise!vars
<1> SUFFICES ASSUME IInv, [Next]_vars PROVE [Promise!Next]_Promise!vars
  OBVIOUS
<1> DEFINE abs == [x \in Items |-> AbsState(x)]
<1> USE DEF IInv, TypeOK
<1>1. ASSUME UNCHANGED <<inside, abs, mayHold>>
      PROVE  UNCHANGED Promise!vars
  BY <1>1 DEF Promise!vars
<1>2. ASSUME UNCHANGED <<inside, place, mayHold>>
      PROVE  UNCHANGED Promise!vars
  BY <1>1, <1>2 DEF AbsState
<1>3. CASE UNCHANGED vars
  BY <1>2, <1>3 DEF vars, itemVars
<1> USE DEF Goto, epochVars, itemVars, enterVars, freeVars, scanVars
<1>4. ASSUME NEW t \in Threads, Flush(t) PROVE UNCHANGED Promise!vars
  BY <1>2, <1>4 DEF Flush
<1>5. ASSUME NEW t \in Threads, Call(t) PROVE [Promise!Next]_Promise!vars
  <2>1. CASE Enter(t) \/ Leave(t) \/ Abandon(t)
    BY <1>2, <2>1 DEF Enter, Leave, Abandon
  <2>2. ASSUME NEW x \in Items, Publish(t, x) PROVE Promise!Publish(x)
    BY <2>2 DEF Publish, Promise!Publish, AbsState
  <2>3. ASSUME NEW x \in Items, Unlink(t, x) PROVE Promise!Retire(x)
    BY <2>3 DEF Unlink, Promise!Retire, AbsState
  <2> QED
    BY <1>5, <2>1, <2>2, <2>3 DEF Call, Promise!Next
<1>6. ASSUME NEW t \in Threads, Work(t) PROVE [Promise!Next]_Promise!vars
  <2>1. CASE EnterFlag(t) \/ FreeRead(t) \/ TickAdd(t) \/ TickTest(t)
             \/ IncRead(t) \/ ScanCount(t) \/ ScanFlag(t) \/ ScanLocal(t)
             \/ IncCas(t) \/ GcRead(t) \/ GcDone(t)
    BY <1>2, <2>1 DEF EnterFlag, FreeRead, TickAdd, TickTest, IncRead,
       ScanCount,
       ScanFlag, ScanLocal, IncCas, GcRead, GcDone
  <2>2. CASE EnterSet(t) \/ LeaveSet(t)
    BY <2>2 DEF CountInv, EnterSet, LeaveSet
  <2>3. CASE EnterRead(t)
    <3>1. CASE t \notin inside
      <4>1. mayHold' = mayHold
        BY <2>3, <3>1 DEF EnterRead, ItemInv, ItemOK
      <4>2. Promise!Enter(t)
        BY <2>3, <3>1, <4>1 DEF EnterRead, Promise!Enter, AbsState
      <4> QED
        BY <4>2 DEF Promise!Next
    <3>2. CASE t \in inside
      <4>1. inside' = inside
        BY <2>3, <3>2 DEF EnterRead
      <4>2. Promise!Reenter(t)
        BY <2>3, <3>2, <4>1 DEF EnterRead, Promise!Reenter, AbsState
      <4> QED
        BY <4>2 DEF Promise!Next
    <3> QED
      BY <3>1, <3>2
  <2>4. CASE LeaveFlag(t)
    <3>1. t \in inside
      BY <2>4 DEF LeaveFlag, FlagInv, FlagOK, InPCs
    <3>2. Promise!Leave(t)
      BY <2>4, <3>1 DEF LeaveFlag, Promise!Leave, AbsState
    <3> QED
      BY <3>2 DEF Promise!Next
  <2>5. CASE FreePush(t)
    <3>1. place[item[t]] = "unlinked"
      BY <2>5 DEF FreePush, HandInv, HandOK, FreePCs
    <3>2. abs' = abs
      BY <2>5, <3>1 DEF FreePush, AbsState
    <3> QED
      BY <1>1, <2>5, <3>2 DEF FreePush
  <2>6. CASE GcPop(t)
    <3>1. PICK x \in EpochList(slot[t]) :
            place' = [place EXCEPT ![x] = "collected"]
      BY <2>6 DEF GcPop
    <3>2. abs' = abs
      BY <3>1 DEF EpochList, AbsState
    <3> QED
      BY <1>1, <2>6, <3>2 DEF GcPop
  <2>7. CASE GcPut(t)
    <3>1. item[t] \in Items /\ place[item[t]] = "collected"
      BY <2>7 DEF GcPut, HandInv, HandOK
    <3>2. mayHold[item[t]] = {}
      BY <3>1 DEF ItemInv, ItemOK
    <3>3. Promise!Reclaim(item[t])
      BY <2>7, <3>1, <3>2 DEF GcPut, Promise!Reclaim, AbsState
    <3> QED
      BY <3>1, <3>3 DEF Promise!Next
  <2> QED
    BY <1>6, <2>1, <2>2, <2>3, <2>4, <2>5, <2>6, <2>7 DEF Work
<1> QED
  BY <1>3, <1>4, <1>5, <1>6 DEF Next

(* The epochs keep the promise of AbReclaim. *)
THEOREM KeepsPromise == Spec => ReclaimSpec
<1>1. ReclaimSpec <=> Promise!Init /\ [][Promise!Next]_Promise!vars
  BY DEF ReclaimSpec, Promise!Spec
<1> QED
  BY <1>1, Invariance, PromiseInit, PromiseStep, PTL DEF Spec
==============================================================================
