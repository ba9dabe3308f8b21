------------------------------- MODULE AbOrder -------------------------------
(***************************************************************************)
(* What abuf/ab_skiplist.c keeps of an ordered index when several threads  *)
(* use it.  A record is found by its key and, where a key may have several *)
(* records, by its incr, a number of its own.  From the moment an insert   *)
(* puts its record in until the insert is over the record is coming: it    *)
(* can be found and not yet deleted.  From the moment a delete has chosen  *)
(* its record until it takes it out the record is going: it can still be   *)
(* found and not be deleted again.                                         *)
(*                                                                         *)
(* A call that changes nothing may answer with anything that was right at  *)
(* some moment of the call: seen[t] collects what its key was like.        *)
(***************************************************************************)
EXTENDS Naturals

CONSTANTS Threads,
          Ids,         \* the records
          NoId,        \* NULL
          Keys,
          Incrs        \* the incr that calls name; 0 is for any

VARIABLES dupl,        \* a key may have several records
          recs,        \* the records: [id, key, incr, st]
          call,        \* per thread: the call it is in and its result
          seen         \* per thread: the records of its key during the call

vars == <<dupl, recs, call, seen>>

NoCall == [op |-> "none", key |-> 0, incr |-> 0, id |-> NoId]

View(rs, k) == {r \in rs : r.key = k}

(* The first record of a view from incr on; a record of just this incr,    *)
(* where 0 stands for the first; NoId if there is none.                    *)
FirstIds(v, i) ==
  LET of == {r \in v : r.incr >= i}
      least == {r \in of : \A q \in of : r.incr <= q.incr}
  IN  IF of = {} THEN {NoId} ELSE {r.id : r \in least}

Chosen(v, i) ==
  IF i = 0 THEN {r \in v : r.id \in FirstIds(v, 0)}
  ELSE {r \in v : r.incr = i}

Init ==
  /\ dupl \in BOOLEAN
  /\ recs \subseteq [id : Ids, key : Keys, incr : Nat, st : {"there"}]
  /\ call = [t \in Threads |-> NoCall]
  /\ seen = [t \in Threads |-> {}]

(* The new records can be the answer of every call that is running. *)
Becomes(rs) ==
  /\ recs' = rs
  /\ seen' = [t \in Threads |-> IF call[t] = NoCall THEN {}
                                ELSE seen[t] \cup {View(rs, call[t].key)}]
  /\ UNCHANGED dupl

Goes(t, from, to, id) ==
  /\ call[t].op = from
  /\ call' = [call EXCEPT ![t].op = to, ![t].id = id]

Start(t) ==
  /\ call[t] = NoCall
  /\ \E o \in {"insert", "delete", "get"}, k \in Keys, i \in Incrs :
       /\ call' = [call EXCEPT ![t] = [NoCall EXCEPT !.op = o, !.key = k, !.incr = i]]
       /\ seen' = [seen EXCEPT ![t] = {View(recs, k)}]
  /\ UNCHANGED <<dupl, recs>>

(* Without duplicates the key had no record at some moment of the call,    *)
(* which is all that is promised.                                          *)
Insert(t) ==
  \E r \in recs' \ recs :
    /\ r.key = call[t].key /\ r.st = "coming"
    /\ \A q \in recs : q.id # r.id
    /\ IF dupl THEN \A q \in recs : q.incr # r.incr
       ELSE r.incr = 0 /\ {} \in seen[t]
    /\ Goes(t, "insert", "inserting", r.id)
    /\ Becomes(recs \cup {r})

Turns(r, st) == Becomes((recs \ {r}) \cup {[r EXCEPT !.st = st]})

InsertEnds(t) ==
  \E r \in recs :
    /\ r.id = call[t].id /\ r.st = "coming"
    /\ Goes(t, "inserting", "done", r.id)
    /\ Turns(r, "there")

InsertFails(t) ==
  /\ ~dupl
  /\ \E v \in seen[t] : v # {}
  /\ Goes(t, "insert", "done", NoId)
  /\ UNCHANGED <<dupl, recs, seen>>

(* The record was the one to delete at some moment of the call.            *)
DeleteBegins(t) ==
  \E r \in recs :
    /\ r.st = "there"
    /\ \E v \in seen[t] : \E q \in Chosen(v, call[t].incr) : q.id = r.id
    /\ Goes(t, "delete", "deleting", r.id)
    /\ Turns(r, "going")

DeleteEnds(t) ==
  \E r \in recs :
    /\ r.id = call[t].id /\ r.st = "going"
    /\ Goes(t, "deleting", "done", r.id)
    /\ Becomes(recs \ {r})

(* There was no such record, or it was not to be had.  Among duplicates    *)
(* any record will do, and a delete waits for one.                         *)
DeleteFails(t) ==
  /\ \E v \in seen[t] :
       LET of == Chosen(v, call[t].incr)
       IN  \/ of = {}
           \/ /\ ~dupl \/ call[t].incr # 0
              /\ \E r \in of : r.st # "there"
  /\ Goes(t, "delete", "done", NoId)
  /\ UNCHANGED <<dupl, recs, seen>>

Get(t) ==
  /\ \E v \in seen[t] : \E x \in FirstIds(v, call[t].incr) :
       Goes(t, "get", "done", x)
  /\ UNCHANGED <<dupl, recs, seen>>

Return(t) ==
  /\ call[t].op = "done"
  /\ call' = [call EXCEPT ![t] = NoCall]
  /\ seen' = [seen EXCEPT ![t] = {}]
  /\ UNCHANGED <<dupl, recs>>

Next ==
  \E t \in Threads :
    \/ Start(t)
    \/ Insert(t) \/ InsertEnds(t) \/ InsertFails(t)
    \/ DeleteBegins(t) \/ DeleteEnds(t) \/ DeleteFails(t)
    \/ Get(t) \/ Return(t)

Spec == Init /\ [][Next]_vars
==============================================================================
