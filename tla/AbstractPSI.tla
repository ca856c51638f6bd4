----------------------------- MODULE AbstractPSI -----------------------------
(***************************************************************************)
(* What a query promises the receiver (receiver/apsi/receiver.h): the      *)
(* items of its query that are in the sender's set at one moment between   *)
(* the call and its return, or no answer at all.                           *)
(***************************************************************************)
CONSTANTS Receivers, Items

VARIABLES db,       \* the items the sender holds
          status,   \* receiver -> "idle", "asked", "answered" or "failed"
          wanted,   \* receiver -> the items it asks for
          answer    \* receiver -> the items found for its last query

avars == <<db, status, wanted, answer>>

AInit ==
    /\ db \in SUBSET Items
    /\ status = [r \in Receivers |-> "idle"]
    /\ wanted = [r \in Receivers |-> {}] /\ answer = [r \in Receivers |-> {}]

ChangeDB == db' \in SUBSET Items /\ UNCHANGED <<status, wanted, answer>>

Ask(r) ==
    /\ status[r] = "idle"
    /\ status' = [status EXCEPT ![r] = "asked"]
    /\ \E s \in SUBSET Items : wanted' = [wanted EXCEPT ![r] = s]
    /\ answer' = [answer EXCEPT ![r] = {}]
    /\ UNCHANGED db

Evaluate(r) ==
    /\ status[r] = "asked"
    /\ status' = [status EXCEPT ![r] = "answered"]
    /\ answer' = [answer EXCEPT ![r] = wanted[r] \cap db]
    /\ UNCHANGED <<db, wanted>>

Return(r) ==
    /\ status[r] = "answered"
    /\ status' = [status EXCEPT ![r] = "idle"]
    /\ UNCHANGED <<db, wanted, answer>>

\* The sender threw, or the receiver did.
Fail(r) ==
    /\ status[r] \in {"asked", "answered"}
    /\ status' = [status EXCEPT ![r] = "failed"]
    /\ answer' = [answer EXCEPT ![r] = {}]
    /\ UNCHANGED <<db, wanted>>

ANext ==
    \/ ChangeDB
    \/ \E r \in Receivers : Ask(r) \/ Evaluate(r) \/ Return(r) \/ Fail(r)

ASpec == AInit /\ [][ANext]_avars
=============================================================================
