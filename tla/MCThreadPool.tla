---------------------------- MODULE MCThreadPool ----------------------------
(***************************************************************************)
(* Clients of the pool as the code uses it: dispatches of tasks with a     *)
(* wait for each, two dispatches at once, tasks that throw, tasks that     *)
(* use the pool themselves, and calls that resize the pool meanwhile.      *)
(***************************************************************************)
EXTENDS ThreadPool, TLC

CONSTANTS c1, c2, a, b, d

Do(op) == [op |-> op]
On(op, k) == [op |-> op, task |-> k]
With(op, n) == [op |-> op, n |-> n]

\* One dispatch: a manager, the tasks, the waits in the same order.
Dispatch1(k) == <<Do("acquire"), On("enqueue", k), On("get", k), Do("release")>>
Dispatch2(k, m) == <<Do("acquire"), On("enqueue", k), On("enqueue", m),
                     On("get", k), On("get", m), Do("release")>>

TwoClients(p, q) == (c1 :> p) @@ (c2 :> q)

MCPrograms ==
    {TwoClients(Dispatch2(a, b), Dispatch1(d)),
     TwoClients(Dispatch2(a, b), <<With("set_thread_count", 1)>> \o Dispatch1(d)),
     TwoClients(<<Do("acquire"), On("enqueue", a), On("enqueue", b), With("set_queue_size_limit", 0),
                  On("enqueue", d), Do("wait_until_empty"), Do("wait_until_nothing_in_flight"),
                  Do("release")>>,
                <<With("set_thread_count", 1), With("set_thread_count", 3)>>)}

MCBody == [k \in Tasks |-> <<>>]

\* A task that dispatches another, as strip() does with stale caches.
NestedBody == [k \in Tasks |-> IF k = a THEN Dispatch1(b) ELSE <<>>]
NestedPrograms == {TwoClients(Dispatch1(a), <<>>)}

\* sender_db.h:130-131, of strip(): "Returns a copy of the OPRF key": a client
\* whose task dispatches to the same pool and waits there gets its answer.
StripReturns == <>(\A c \in Clients : todo[c] = <<>>)
=============================================================================
