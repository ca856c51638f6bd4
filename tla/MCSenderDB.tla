----------------------------- MODULE MCSenderDB -----------------------------
(***************************************************************************)
(* Small databases: two bundle indices of four bins, two felts per item,   *)
(* two locations per item.                                                 *)
(***************************************************************************)
EXTENDS SenderDB

CONSTANTS t1, t2, t3, w, x, y, z, f1, f2, f3, f4, f5, f6, f7, L1, L2

\* x and y share their first felt and both locations; all four meet at one.
MCFelts == (x :> <<f1, f2>>) @@ (y :> <<f1, f3>>) @@ (z :> <<f4, f5>>) @@ (w :> <<f6, f7>>)
MCLocs  == (x :> <<0, 2>>) @@ (y :> <<2, 0>>) @@ (z :> <<0, 1>>) @@ (w :> <<0, 3>>)

Item(i)      == [item |-> i, label |-> NoLabel]
ItemLabel(i, l) == [item |-> i, label |-> l]
Insertion(d)  == [op |-> "insert", data |-> d]
Removal(d)  == [op |-> "remove", data |-> d]
SetData(d) == [op |-> "set_data", data |-> d]
Simple(op) == [op |-> op, data |-> <<>>]

Script(s1, s2, s3) == (t1 :> s1) @@ (t2 :> s2) @@ (t3 :> s3)

InsXY == Insertion(<<Item(x), Item(y)>>)
InsZX == Insertion(<<Item(z), Item(x), Item(z)>>)
Query == Simple("query")

\* A thread that fills, shrinks and refills the database, against threads
\* that query it, that replace its content, or that do the same work.
CalmScripts ==
    {Script(<<InsXY, InsZX, Removal(<<Item(x), Item(z)>>)>>, <<Insertion(<<Item(w)>>)>>, <<Query>>),
     Script(<<InsZX, Simple("clear"), InsXY>>, <<InsXY, Query>>, <<Query>>),
     Script(<<InsZX, Removal(<<Item(z)>>)>>, <<InsXY, Removal(<<Item(x)>>)>>, <<InsXY>>)}

\* A removal that names an absent item first, and a query meanwhile.
RemoveAbsent == Removal(<<Item(z), Item(x)>>)

\* Calls that throw while others run: the removal of an absent item, and
\* changes that race with strip() or clear(), and strip() after a removal that
\* left two bundles with stale caches.
FailureScripts ==
    {Script(<<InsXY, RemoveAbsent, InsXY>>, <<Query>>, <<Query>>),
     Script(<<InsXY, RemoveAbsent>>, <<Query>>, <<InsZX>>),
     Script(<<InsXY, Simple("strip")>>, <<Insertion(<<Item(w)>>), Simple("clear")>>,
            <<SetData(<<Item(z)>>), Query>>),
     Script(<<InsXY, Removal(<<Item(x), Item(z)>>), Simple("strip")>>, <<Query>>, <<>>)}

UnlabeledScripts == CalmScripts \cup FailureScripts

\* Every sequence of four calls of one thread on a labeled database, and
\* last a batch that may name a known item before a new one (it then throws),
\* a new one before a known one, two new or two known ones.
InsX == Insertion(<<ItemLabel(x, L1)>>)
InsY == Insertion(<<ItemLabel(y, L2)>>)
LabeledCalls ==
    {InsX, InsY, Insertion(<<ItemLabel(x, L2)>>), Insertion(<<ItemLabel(y, L1), ItemLabel(y, L2)>>),
     Removal(<<Item(x)>>), SetData(<<ItemLabel(y, L2)>>), Simple("strip"), Query}
Batch == Insertion(<<ItemLabel(y, L1), ItemLabel(x, L1)>>)

\* Threads that fill, shrink, replace and strip a labeled database while others
\* query it or insert the same items; batches that throw after half their work.
SharedLabeledScripts ==
    {Script(<<InsX, InsY, Removal(<<Item(x)>>), InsX>>, <<Query>>, <<Query>>),
     Script(<<InsX, InsY, Removal(<<Item(x), Item(y)>>)>>, <<Query>>, <<Query>>),
     Script(<<InsX>>, <<SetData(<<ItemLabel(y, L2)>>), Removal(<<Item(y)>>)>>, <<Query, InsX>>),
     Script(<<InsY, Simple("clear"), InsX>>, <<InsX, Query>>, <<Query>>),
     Script(<<InsX, Simple("strip")>>, <<InsY, Simple("clear")>>, <<Query, InsY>>),
     Script(<<InsX, Batch, Simple("clear"), InsY>>, <<Query, Removal(<<Item(y)>>)>>, <<Query>>)}

\* z shares a bundle with x; y conflicts with x and opens a second bundle;
\* then z is given a new label, for which the second bundle has room.
NewLabelWithRoom ==
    <<Insertion(<<ItemLabel(z, L1), ItemLabel(x, L1)>>),
      Insertion(<<ItemLabel(y, L1)>>), Insertion(<<ItemLabel(z, L2)>>)>>
OverwriteScripts == {(t1 :> NewLabelWithRoom)}

RoomScripts ==
    {Script(NewLabelWithRoom \o s, <<Query>>, <<>>) :
        s \in {<<Removal(<<Item(z)>>), Query>>, <<InsX, Simple("strip")>>,
               <<Insertion(<<ItemLabel(z, L1)>>), Batch>>, <<Simple("clear"), InsY>>}}

LabeledScripts ==
    SharedLabeledScripts \cup RoomScripts
    \cup {Script(s \o <<Batch, Query>>, <<>>, <<>>) : s \in [1..4 -> LabeledCalls]}

=============================================================================
