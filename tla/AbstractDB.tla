----------------------------- MODULE AbstractDB -----------------------------
(***************************************************************************)
(* What the SenderDB promises its callers (sender/apsi/sender_db.h): a map *)
(* from items to labels.  A call is pending from its invocation to its     *)
(* return and takes effect at one moment in between.  set_data is a clear  *)
(* followed by an insertion, not one atomic step.                          *)
(*                                                                         *)
(* Some changes may end with an exception.  What such a change has done to *)
(* the items it names is left open, until the database is cleared: they    *)
(* are torn.  It has done nothing to the other items.                      *)
(***************************************************************************)
EXTENDS Naturals

CONSTANTS Threads, Items, Absent, Garbled, NoCall, Calls,
          Labeled   \* items have labels, which a second insertion replaces

VARIABLES db,       \* item -> its label, or Absent
          torn,     \* the items whose label nobody knows
          frozen,   \* the database has been stripped
          pending,  \* thread -> the call it has not returned from, or NoCall
          result    \* thread -> how its last call ended

avars == <<db, torn, frozen, pending, result>>

Named(data) == {data[j].item : j \in DOMAIN data}
Distinct(data) == \A j, m \in DOMAIN data : data[j].item = data[m].item => j = m
Known == {i \in Items : db[i] # Absent}

\* The last label a batch gives an item.
LabelIn(data, i) ==
    LET at == {j \in DOMAIN data : data[j].item = i}
    IN  data[CHOOSE j \in at : \A m \in at : m <= j].label

\* A batch with labels that must go in names no item twice and no torn item,
\* and the known items behind the new ones.
Orderly(data) ==
    /\ Distinct(data) /\ Named(data) \cap torn = {}
    /\ \A j, m \in DOMAIN data : j < m /\ data[j].item \in Known => data[m].item \in Known

\* Nothing is said about torn items.
Becomes(label) == \A i \in Items \ torn' : db'[i] = label[i]

AInit ==
    /\ db = [i \in Items |-> Absent] /\ torn = {} /\ frozen = FALSE
    /\ pending = [t \in Threads |-> NoCall] /\ result = [t \in Threads |-> "none"]

Return(t, how) ==
    /\ pending' = [pending EXCEPT ![t] = NoCall]
    /\ result' = [result EXCEPT ![t] = how]

\* A stripped database takes no changes.
Invoke(t) ==
    /\ pending[t] = NoCall
    /\ \E c \in Calls : /\ c.op \in {"insert", "remove"} => ~frozen
                        /\ pending' = [pending EXCEPT ![t] = c]
    /\ UNCHANGED <<db, torn, frozen, result>>

Refuse(t) ==
    /\ frozen /\ (pending[t] = NoCall \/ pending[t].op = "insert")
    /\ Return(t, "threw") /\ UNCHANGED <<db, torn, frozen>>

\* An insertion gives every item it names its label.  A label that is
\* replaced, or given twice in one batch, may be torn instead: the old and the
\* new one are then both found.
InsertOrAssign(t) ==
    LET data == pending[t].data IN
    /\ pending[t].op = "insert"
    /\ torn' = torn \cup {i \in Named(data) : db'[i] = Garbled}
    /\ Distinct(data) => torn' \ torn \subseteq Known
    /\ ~Labeled => torn' = torn
    /\ Becomes([i \in Items |-> IF i \in Named(data) THEN LabelIn(data, i) ELSE db[i]])
    /\ Return(t, "ok") /\ UNCHANGED frozen

Remove(t) ==
    LET data == pending[t].data IN
    /\ pending[t].op = "remove" /\ ~frozen
    /\ Named(data) \subseteq Known \cup torn /\ torn' = torn
    /\ Becomes([i \in Items |-> IF i \in Named(data) THEN Absent ELSE db[i]])
    /\ Return(t, "ok") /\ UNCHANGED frozen

\* A change that ends with an exception: one that was under way when the
\* database was stripped, a batch with labels that is not orderly, or a removal
\* that names an item that is not there, is torn or is removed already.
Throw(t) ==
    LET data == pending[t].data IN
    /\ \/ pending[t].op \in {"insert", "remove"} /\ frozen
       \/ pending[t].op = "insert" /\ Labeled /\ ~Orderly(data)
       \/ pending[t].op = "remove" /\ ~(Distinct(data) /\ Named(data) \subseteq Known \ torn)
    /\ torn' = torn \cup Named(data)
    /\ Becomes(db)
    /\ Return(t, "threw") /\ UNCHANGED frozen

\* While a change that threw still has tasks running, clear() does not mend
\* what they are writing.
Clear(t) ==
    /\ pending[t].op \in {"clear", "set_data"}
    /\ torn' \in {{}, torn} /\ frozen' = FALSE
    /\ Becomes([i \in Items |-> Absent])
    /\ IF pending[t].op = "clear" THEN Return(t, "ok")
       ELSE pending' = [pending EXCEPT ![t].op = "insert"] /\ UNCHANGED result

\* A stripped database refuses changes from the moment strip() holds the
\* lock; its answers stay.
Freeze(t) == pending[t].op = "strip" /\ frozen' = TRUE /\ UNCHANGED <<db, torn, pending, result>>
Strip(t)  == /\ pending[t].op = "strip" /\ frozen /\ torn' = torn /\ Becomes(db)
             /\ Return(t, "ok") /\ UNCHANGED frozen

\* A query changes nothing.  It fails only while an item is torn.
Query(t) == pending[t].op = "query" /\ Return(t, "ok") /\ UNCHANGED <<db, torn, frozen>>
QueryFails(t) ==
    /\ \/ /\ pending[t].op = "query" /\ torn # {}
          /\ pending' = [pending EXCEPT ![t].op = "failed"] /\ UNCHANGED result
       \/ pending[t].op = "failed" /\ Return(t, "threw")
    /\ UNCHANGED <<db, torn, frozen>>

ANext == \E t \in Threads :
    \/ Invoke(t) \/ Refuse(t) \/ InsertOrAssign(t) \/ Remove(t) \/ Throw(t)
    \/ Clear(t) \/ Freeze(t) \/ Strip(t) \/ Query(t) \/ QueryFails(t)

ASpec == AInit /\ [][ANext]_avars
=============================================================================
