-------------------------------- MODULE AbMap --------------------------------
(***************************************************************************)
(* What abuf/ab_hash.c keeps of a dictionary when several threads use it.  *)
(* ab_hash_insert takes effect at one moment, and so does the answer of    *)
(* ab_hash_get, but ab_hash_delete takes effect in two steps: from the     *)
(* first on nobody else can delete the key, and until the second everybody *)
(* still finds it.  In between, a second delete answers NULL and a get     *)
(* after it still answers with the value, which one moment cannot explain. *)
(*                                                                         *)
(* A call that changes nothing may answer with anything that was right at  *)
(* some moment of the call: seen[t] collects what its key was like.        *)
(***************************************************************************)
CONSTANTS Threads,
          Keys,
          Values,      \* every insert brings a value of its own
          NoKey,
          NoValue      \* NULL

VARIABLES dict,        \* per key: its value, or NoValue
          leaving,     \* the keys that are being deleted
          call,        \* per thread: the call it is in and its result
          seen         \* per thread: the states of its key during the call

vars == <<dict, leaving, call, seen>>

NoCall == [op |-> "none", key |-> NoKey, val |-> NoValue]

Init ==
  /\ dict = [k \in Keys |-> NoValue]
  /\ leaving = {}
  /\ call = [t \in Threads |-> NoCall]
  /\ seen = [t \in Threads |-> {}]

View(d, l, k) == [val |-> d[k], leaving |-> k \in l]

(* The new state of a key can be the answer of every call that is running. *)
Becomes(d, l) ==
  /\ dict' = d
  /\ leaving' = l
  /\ seen' = [t \in Threads |-> IF call[t] = NoCall THEN {}
                                ELSE seen[t] \cup {View(d, l, call[t].key)}]

Goes(t, from, to, v) ==
  /\ call[t].op = from
  /\ call' = [call EXCEPT ![t].op = to, ![t].val = v]

(* Inserts bring a value. *)
Calls == ({"insert"} \X Values) \cup ({"delete", "get"} \X {NoValue})

Start(t) ==
  /\ call[t] = NoCall
  /\ \E k \in Keys, c \in Calls :
       /\ call' = [call EXCEPT ![t] = [op |-> c[1], key |-> k, val |-> c[2]]]
       /\ seen' = [seen EXCEPT ![t] = {View(dict, leaving, k)}]
  /\ UNCHANGED <<dict, leaving>>

Insert(t) ==
  LET k == call[t].key
  IN  /\ Goes(t, "insert", "done", call[t].val)
      /\ dict[k] = NoValue
      /\ Becomes([dict EXCEPT ![k] = call[t].val], leaving)

InsertFails(t) ==
  /\ Goes(t, "insert", "done", NoValue)
  /\ \E s \in seen[t] : s.val # NoValue
  /\ UNCHANGED <<dict, leaving, seen>>

DeleteBegins(t) ==
  LET k == call[t].key
  IN  /\ Goes(t, "delete", "deleting", dict[k])
      /\ dict[k] # NoValue
      /\ k \notin leaving
      /\ Becomes(dict, leaving \cup {k})

DeleteEnds(t) ==
  LET k == call[t].key
  IN  /\ Goes(t, "deleting", "done", call[t].val)
      /\ Becomes([dict EXCEPT ![k] = NoValue], leaving \ {k})

DeleteFails(t) ==
  /\ Goes(t, "delete", "done", NoValue)
  /\ \E s \in seen[t] : s.val = NoValue \/ s.leaving
  /\ UNCHANGED <<dict, leaving, seen>>

Get(t) ==
  /\ \E s \in seen[t] : Goes(t, "get", "done", s.val)
  /\ UNCHANGED <<dict, leaving, seen>>

Return(t) ==
  /\ call[t].op = "done"
  /\ call' = [call EXCEPT ![t] = NoCall]
  /\ seen' = [seen EXCEPT ![t] = {}]
  /\ UNCHANGED <<dict, leaving>>

Next ==
  \E t \in Threads :
    \/ Start(t)
    \/ Insert(t) \/ InsertFails(t) \/ DeleteBegins(t) \/ DeleteEnds(t)
    \/ DeleteFails(t) \/ Get(t) \/ Return(t)

Spec == Init /\ [][Next]_vars
==============================================================================
