--------------------------- MODULE MCQueryProtocol ---------------------------
(***************************************************************************)
(* Two receivers, two threads, as many pool threads as the tests of the    *)
(* ZeroMQ channel set (twice the thread count).                            *)
(***************************************************************************)
EXTENDS QueryProtocol

CONSTANTS r1, r2, a, b

DB(bundles, fault) == [bundles |-> bundles, fault |-> fault]

\* Empty, two bundles, two of them stale, and an item in two bundles with
\* parameters the evaluation may refuse.
MCDBs == {DB(<<>>, "none"), DB(<<{a}, {b}>>, "none"), DB(<<{b}, {}>>, "stale"),
          DB(<<{a}, {a}>>, "eval")}

\* A repeated item has one place in the cuckoo table and two in the query.
MCQueries == {<<a, b, a>>}
=============================================================================
