------------------------------- MODULE AbFifo -------------------------------
(***************************************************************************)
(* What abuf/ab_list.c promises its callers: ab_list_put, ab_list_del and  *)
(* ab_list_get work on a first-in-first-out queue, and each call takes     *)
(* effect at one moment between its start and its return.                  *)
(*                                                                         *)
(* A call that changes nothing (ab_list_get, and ab_list_del on an empty   *)
(* queue) may answer with anything that was right at some moment of the    *)
(* call: seen[t] collects these answers.                                   *)
(***************************************************************************)
EXTENDS Sequences

CONSTANTS Threads,
          Values,      \* what is put
          NoValue      \* NULL: nothing to return

VARIABLES queue,       \* the values put and not yet deleted, oldest first
          call,        \* per thread: the call it is in and its result
          seen         \* per thread: the fronts of the queue during the call

vars == <<queue, call, seen>>

NoCall == [op |-> "none", val |-> NoValue]
Done(v) == [op |-> "done", val |-> v]
Front(q) == IF q = <<>> THEN NoValue ELSE Head(q)

Init ==
  /\ queue = <<>>
  /\ call = [t \in Threads |-> NoCall]
  /\ seen = [t \in Threads |-> {}]

(* A new front is an answer for every call that is running. *)
Becomes(q) ==
  /\ queue' = q
  /\ seen' = [t \in Threads |-> IF call[t] = NoCall THEN {}
                                ELSE seen[t] \cup {Front(q)}]

Start(t, op, v) ==
  /\ call[t] = NoCall
  /\ call' = [call EXCEPT ![t] = [op |-> op, val |-> v]]
  /\ seen' = [seen EXCEPT ![t] = {Front(queue)}]
  /\ UNCHANGED queue

Put(t) ==
  /\ call[t].op = "put"
  /\ Becomes(Append(queue, call[t].val))
  /\ call' = [call EXCEPT ![t] = Done(NoValue)]

Del(t) ==
  /\ call[t].op = "del"
  /\ queue # <<>>
  /\ Becomes(Tail(queue))
  /\ call' = [call EXCEPT ![t] = Done(Head(queue))]

DelEmpty(t) ==
  /\ call[t].op = "del"
  /\ NoValue \in seen[t]
  /\ call' = [call EXCEPT ![t] = Done(NoValue)]
  /\ UNCHANGED <<queue, seen>>

Get(t) ==
  /\ call[t].op = "get"
  /\ \E v \in seen[t] : call' = [call EXCEPT ![t] = Done(v)]
  /\ UNCHANGED <<queue, seen>>

Return(t) ==
  /\ call[t].op = "done"
  /\ call' = [call EXCEPT ![t] = NoCall]
  /\ seen' = [seen EXCEPT ![t] = {}]
  /\ UNCHANGED queue

Next ==
  \E t \in Threads :
    \/ \E v \in Values : Start(t, "put", v)
    \/ Start(t, "del", NoValue) \/ Start(t, "get", NoValue)
    \/ Put(t) \/ Del(t) \/ DelEmpty(t) \/ Get(t) \/ Return(t)

Spec == Init /\ [][Next]_vars
==============================================================================
