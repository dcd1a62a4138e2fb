------------------------------ MODULE WriteBehind ------------------------------
(***************************************************************************)
(* What a flow's write-behind loop promises to who changes rows: a table   *)
(* in memory, a store behind it, and for every row that the store has not  *)
(* got as it is either a debt that the loop will pay, or a change that it  *)
(* gave up: after a failure that it logged, or in silence.  How changes    *)
(* are recorded, woken for, taken and carried is FlowSync's business.      *)
(***************************************************************************)
CONSTANTS
  Flows,     \* the flows
  Keys,      \* row identities of a table
  Values,    \* contents of a row
  NoRow,     \* a row that is not there
  ReadOnly,  \* flows that store nothing
  Deletes    \* flows whose deletions are stored

VARIABLES
  volatile,  \* the table of each flow
  durable,   \* the store of each flow
  loaded,    \* has the table been loaded from the store?
  owed,      \* rows the loop will store
  given,     \* rows whose change was given up
  silent     \* rows whose change was given up without a word

vars == <<volatile, durable, loaded, owed, given, silent>>

Rows == Values \cup {NoRow}
Blank == [f \in Flows |-> [k \in Keys |-> NoRow]]
Nobody == [f \in Flows |-> {}]

Lags(f, k) ==
  /\ f \notin ReadOnly
  /\ volatile[f][k] # durable[f][k]
  /\ volatile[f][k] = NoRow => f \in Deletes /\ loaded[f]

Known(f, k) == k \in owed[f] \cup given[f]

Init ==
  /\ volatile = Blank /\ durable \in [Flows -> [Keys -> Rows]]
  /\ loaded = [f \in Flows |-> FALSE] /\ owed = Nobody
  /\ given = Nobody /\ silent = Nobody

\* A row changes; the change is owed, or lost at once, which is known.
Change(f, k) ==
  /\ \E r \in Rows : volatile' = [volatile EXCEPT ![f][k] = r]
  /\ \E ks \in {owed[f] \cup {k}, owed[f] \ {k}} : owed' = [owed EXCEPT ![f] = ks]
  /\ \/ UNCHANGED <<given, silent>>
     \/ /\ given' = [given EXCEPT ![f] = @ \cup {k}]
        /\ silent' = [silent EXCEPT ![f] = @ \cup {k}]
     \/ /\ given' = [given EXCEPT ![f] = @ \ {k}]
        /\ silent' = [silent EXCEPT ![f] = @ \ {k}]
  /\ Known(f, k)'
  /\ UNCHANGED <<durable, loaded>>

\* The store gets the row as it is; or as it was, and then it stays known.
Store(f, k) ==
  /\ \E r \in Rows : durable' = [durable EXCEPT ![f][k] = r]
  /\ \E ks \in {owed[f], owed[f] \ {k}} : owed' = [owed EXCEPT ![f] = ks]
  /\ (Lags(f, k) => Known(f, k))'
  /\ UNCHANGED <<volatile, loaded, given, silent>>

\* A debt that is none.
Settle(f, k) ==
  /\ k \in owed[f] /\ ~Lags(f, k)
  /\ owed' = [owed EXCEPT ![f] = @ \ {k}]
  /\ UNCHANGED <<volatile, durable, loaded, given, silent>>

\* Debts are given up with an error in the log.
GiveUp(f) ==
  /\ \E ks \in SUBSET Keys, os \in SUBSET owed[f] :
       /\ owed[f] \ os \subseteq ks
       /\ given' = [given EXCEPT ![f] = @ \cup ks]
       /\ owed' = [owed EXCEPT ![f] = os]
  /\ UNCHANGED <<volatile, durable, loaded, silent>>

\* One debt is given up in silence.
Drop(f, k) ==
  /\ given' = [given EXCEPT ![f] = @ \cup {k}]
  /\ silent' = [silent EXCEPT ![f] = @ \cup {k}]
  /\ \E ks \in {owed[f], owed[f] \ {k}} : owed' = [owed EXCEPT ![f] = ks]
  /\ UNCHANGED <<volatile, durable, loaded>>

\* What was given up is owed after all.
TakeUp(f, k) ==
  /\ k \in owed[f]
  /\ given' = [given EXCEPT ![f] = @ \ {k}]
  /\ silent' = [silent EXCEPT ![f] = @ \ {k}]
  /\ UNCHANGED <<volatile, durable, loaded, owed>>

\* Rows that are not there come from the store.
Load(f) ==
  /\ \E ks \in SUBSET {k \in Keys : volatile[f][k] = NoRow} :
       volatile' = [volatile EXCEPT ![f] = [k \in Keys |-> IF k \in ks THEN durable[f][k] ELSE @[k]]]
  /\ loaded' = [loaded EXCEPT ![f] = TRUE]
  /\ \A k \in Keys : (Lags(f, k) => Known(f, k))'
  /\ UNCHANGED <<durable, owed, given, silent>>

\* A table that stores no deletions is emptied.
Truncate(f) ==
  /\ f \notin Deletes
  /\ volatile' = [volatile EXCEPT ![f] = [k \in Keys |-> NoRow]]
  /\ \E os \in SUBSET owed[f] : owed' = [owed EXCEPT ![f] = os]
  /\ UNCHANGED <<durable, loaded, given, silent>>

Restart ==
  /\ volatile' = Blank /\ loaded' = [f \in Flows |-> FALSE]
  /\ owed' = Nobody /\ given' = Nobody /\ silent' = Nobody
  /\ UNCHANGED durable

Next ==
  \/ Restart
  \/ \E f \in Flows :
       \/ GiveUp(f) \/ Load(f) \/ Truncate(f)
       \/ \E k \in Keys :
            Change(f, k) \/ Store(f, k) \/ Settle(f, k) \/ Drop(f, k) \/ TakeUp(f, k)

Spec == Init /\ [][Next]_vars

\* A change is owed, or known to be given up.
NothingLost == \A f \in Flows, k \in Keys : Lags(f, k) => Known(f, k)
=============================================================================
