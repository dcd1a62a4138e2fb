--------------------------- MODULE FlowSyncProofs ---------------------------
(***************************************************************************)
(* The invariants of FlowSync for every number of flows, rows, cycles and  *)
(* writers, and for every choice of the calls that may fail.               *)
(***************************************************************************)
EXTENDS FlowSync, TLAPS

(* A cycle is a flow and the number of one of its Contexts. *)
LEMMA CycleParts ==
  ASSUME NEW p \in Cycles
  PROVE  p[1] \in Flows /\ p[2] \in 1 .. MaxCycles
BY DEF Cycles

(* A key is never the printed nil, and no cycle is None. *)
LEMMA Distinct == NilId \notin Keys /\ NoRow \notin Values /\ None \notin Cycles
BY FlowAssumption DEF Cycles

-----------------------------------------------------------------------------
(* Type correctness. *)

LEMMA TypeInit == Init => TypeOK
BY FlowAssumption DEF Init, TypeOK, AtFlows, Armed, AtCycles, EmptyRows, Rows, Ids, Cycles,
  CycleStates, Idle, NoEntry

LEMMA TypeRestarted == TypeOK /\ Restarted => TypeOK'
BY FlowAssumption DEF Restarted, TypeOK, AtFlows, Armed, AtCycles, EmptyRows, Rows, Ids, Cycles,
  CycleStates, Idle, NoEntry, storeVars

LEMMA TypeLoad ==
  ASSUME TypeOK, NEW p \in Cycles, SyncTableCycle(p) \/ Load(p)
  PROVE  TypeOK'
<1>1. CASE SyncTableCycle(p)
  BY <1>1, CycleParts, FlowAssumption DEF SyncTableCycle, TypeOK, Goto, CycleStates, tableVars,
    storeVars, ghosts, flowVars
<1>2. CASE ReadVault(p)
  BY <1>2, CycleParts, FlowAssumption DEF ReadVault, TypeOK, Goto, CycleStates, Excuse,
    tableVars, storeVars, flowVars, Rows
<1>3. CASE InsertRows(p)
  BY <1>3, CycleParts, FlowAssumption DEF InsertRows, TypeOK, Goto, CycleStates, tableVars,
    storeVars, ghosts, flowVars, Rows, EmptyRows, Restored
<1> QED BY <1>1, <1>2, <1>3 DEF Load

LEMMA TypeSelect ==
  ASSUME TypeOK, NEW p \in Cycles, Select(p)
  PROVE  TypeOK'
<1>1. CASE Notified(p)
  BY <1>1, CycleParts, FlowAssumption DEF Notified, TypeOK, Goto, CycleStates, storeVars,
    flowVars, ghosts
<1>2. CASE Done(p)
  BY <1>2, CycleParts DEF Done, TypeOK, Goto, CycleStates, tableVars, storeVars, flowVars,
    ghosts
<1>3. CASE Kicked(p)
  BY <1>3, CycleParts DEF Kicked, TypeOK, tableVars, storeVars, ghosts
<1> QED BY <1>1, <1>2, <1>3 DEF Select

LEMMA TypeRemove ==
  ASSUME TypeOK, NEW p \in Cycles, Remove(p)
  PROVE  TypeOK'
<1> USE CycleParts DEF TypeOK, Goto, CycleStates, Removing
<1>1. CASE Acquire(p)
  BY <1>1 DEF Acquire, tableVars, storeVars, flowVars, ghosts
<1>2. CASE Scan(p)
  BY <1>2 DEF Scan, tableVars, storeVars, flowVars, ghosts
<1>3. CASE Drain(p)
  BY <1>3 DEF Drain, storeVars, flowVars, ghosts
<1>4. CASE Drained(p)
  BY <1>4 DEF Drained, Unlock, tableVars, storeVars, flowVars, ghosts
<1>5. CASE RemoveFails(p)
  BY <1>5 DEF RemoveFails, AfterPersist, Excuse, tableVars, storeVars, flowVars
<1> QED BY <1>1, <1>2, <1>3, <1>4, <1>5 DEF Remove

LEMMA TypePersist ==
  ASSUME TypeOK, HandOK, NEW p \in Cycles, Persist(p)
  PROVE  TypeOK'
<1> USE CycleParts DEF TypeOK, Goto, CycleStates, InHand, EntryDone, NoEntry, HandOK
<1>1. CASE ReadEntry(p)
  <2>1. PICK id \in batch[p] :
          /\ batch' = [batch EXCEPT ![p] = @ \ {id}]
          /\ \/ UNCHANGED <<cur, pc>>
             \/ /\ cur' = [cur EXCEPT ![p] = [key |-> id, row |-> RowOf(p[1], id)]]
                /\ Goto(p, IF RowOf(p[1], id) = NoRow THEN "delete" ELSE "store")
    BY <1>1 DEF ReadEntry
  <2>2. id \in Ids /\ RowOf(p[1], id) \in Rows
    BY <2>1 DEF RowOf, Rows
  <2>3. cur' \in [Cycles -> [key : Ids \cup {None}, row : Rows]]
    <3>1. [key |-> id, row |-> RowOf(p[1], id)] \in [key : Ids \cup {None}, row : Rows]
      BY <2>2
    <3>2. cur \in [Cycles -> [key : Ids \cup {None}, row : Rows]]
      OBVIOUS
    <3> HIDE DEF TypeOK, HandOK
    <3> QED BY <2>1, <3>1, <3>2
  <2>4. pc' \in [Cycles -> CycleStates]
    <3>1. CASE UNCHANGED pc
      BY <3>1
    <3>2. CASE Goto(p, IF RowOf(p[1], id) = NoRow THEN "delete" ELSE "store")
      BY <3>2
    <3> QED BY <2>1, <3>1, <3>2
  <2>5. batch' \in [Cycles -> SUBSET Ids]
    BY <2>1
  <2> QED BY <1>1, <2>3, <2>4, <2>5 DEF ReadEntry, tableVars, storeVars, flowVars, ghosts
<1>2. CASE ReadFails(p)
  BY <1>2 DEF ReadFails, Excuse, tableVars, storeVars, flowVars
<1>3. CASE PathFails(p)
  BY <1>3 DEF PathFails, ChangedId, Ids, Excuse, storeVars, flowVars, Rows
<1>4. CASE NoTenant(p)
  BY <1>4 DEF NoTenant, Drop, Excuse, tableVars, storeVars, flowVars, Rows
<1>5. CASE StoreRow(p)
  BY <1>5 DEF StoreRow, tableVars, flowVars, ghosts
<1>6. CASE SeedPanics(p)
  BY <1>6, TypeRestarted DEF SeedPanics
<1>7. CASE PushRow(p)
  BY <1>7 DEF PushRow, tableVars, flowVars, Rows
<1>8. CASE PushFails(p)
  BY <1>8 DEF PushFails, tableVars, storeVars, flowVars, Rows
<1>9. CASE NoPush(p)
  BY <1>9 DEF NoPush, tableVars, storeVars, flowVars, ghosts, Rows
<1>10. CASE PushDelete(p)
  BY <1>10 DEF PushDelete, tableVars, flowVars, ghosts, Rows
<1>11. CASE SoftDelete(p)
  BY <1>11 DEF SoftDelete, tableVars, flowVars, ghosts, Rows
<1>12. CASE SoftDeleteFails(p)
  BY <1>12 DEF SoftDeleteFails, Excuse, tableVars, storeVars, flowVars, Rows
<1>13. CASE Finish(p)
  BY <1>13 DEF Finish, AfterPersist, tableVars, storeVars, flowVars, ghosts
<1>14. CASE Clear(p)
  BY <1>14, FlowAssumption DEF Clear, storeVars, flowVars, ghosts
<1> QED BY <1>1, <1>2, <1>3, <1>4, <1>5, <1>6, <1>7, <1>8, <1>9, <1>10, <1>11, <1>12, <1>13,
           <1>14 DEF Persist

LEMMA TypeFlow ==
  ASSUME TypeOK, NEW f \in Flows, FlowNext(f)
  PROVE  TypeOK'
<1>1. CASE Cancel(f)
  BY <1>1 DEF Cancel, TypeOK, tableVars, storeVars, cycleVars, ghosts
<1>2. CASE Truncate(f)
  BY <1>2 DEF Truncate, TypeOK, storeVars, flowVars, cycleVars, ghosts, Rows
<1> QED BY <1>1, <1>2 DEF FlowNext

LEMMA TypeWriter ==
  ASSUME TypeOK, NEW w \in Writers, WriterNext(w)
  PROVE  TypeOK'
<1> DEFINE Owing == [at : {"record", "notify"}, flow : Flows, key : Keys]
<1>0. /\ changes \in [Flows -> SUBSET Ids]
      /\ excused \in [Flows -> SUBSET Keys] /\ dropped \in [Flows -> SUBSET Keys]
      /\ table \in [Flows -> [Keys -> Rows]] /\ wr \in [Writers -> {Idle} \cup Owing]
  BY DEF TypeOK
<1>1. ASSUME NEW f \in Flows, NEW k \in Keys, NEW r \in Rows, CallDBQuery(w, f, k, r)
      PROVE  TypeOK'
  BY <1>1 DEF CallDBQuery, TypeOK, Idle, storeVars, flowVars, cycleVars, ghosts, PutRow, Ids
\* A row goes into the history of what was given up, or comes out of it.
<1> DEFINE Moved(f, k, h, g) == g = h \/ g = [h EXCEPT ![f] = @ \cup {k}] \/ g = [h EXCEPT ![f] = @ \ {k}]
<1>h. ASSUME NEW f \in Flows, NEW k \in Keys, NEW h \in [Flows -> SUBSET Keys], NEW g, Moved(f, k, h, g)
      PROVE  g \in [Flows -> SUBSET Keys]
  <2>1. h[f] \cup {k} \in SUBSET Keys /\ h[f] \ {k} \in SUBSET Keys
    OBVIOUS
  <2> QED BY <1>h, <2>1
<1>2. ASSUME NEW f \in Flows, NEW k \in Keys, NEW r \in Rows, SqlStatement(w, f, k, r)
      PROVE  TypeOK'
  <2>1. k \in Ids /\ [at |-> "notify", flow |-> f, key |-> k] \in Owing
    BY DEF Ids
  <2>2. /\ table' = [table EXCEPT ![f][k] = r]
        /\ wr' = [wr EXCEPT ![w] = [at |-> "notify", flow |-> f, key |-> k]]
        /\ changes' = changes \/ changes' = [changes EXCEPT ![f] = @ \cup {k}]
        /\ Moved(f, k, excused, excused') /\ Moved(f, k, dropped, dropped')
    BY <1>2 DEF SqlStatement, PutRow, Excuse, Drop, TakeUp
  <2>3. changes' \in [Flows -> SUBSET Ids]
    <3>1. changes[f] \cup {k} \in SUBSET Ids
      BY <1>0, <2>1
    <3> QED BY <1>0, <2>2, <3>1
  <2>4. table' \in [Flows -> [Keys -> Rows]]
    BY <1>0, <2>2
  <2>5. wr' \in [Writers -> {Idle} \cup Owing]
    <3> HIDE DEF Owing
    <3> QED BY <1>0, <2>1, <2>2
  <2>6. excused' \in [Flows -> SUBSET Keys] /\ dropped' \in [Flows -> SUBSET Keys]
    <3> HIDE DEF Moved
    <3> QED BY <1>0, <1>h, <2>2
  <2> QED BY <1>2, <2>3, <2>4, <2>5, <2>6 DEF SqlStatement, TypeOK, storeVars, flowVars, cycleVars
<1>3. CASE RecordChange(w)
  <2>1. wr[w] \in Owing
    BY <1>0, <1>3 DEF RecordChange, Idle
  <2>2. /\ wr[w].flow \in Flows /\ wr[w].key \in Keys /\ wr[w].key \in Ids
        /\ [wr[w] EXCEPT !.at = "notify"] \in Owing
    BY <2>1 DEF Ids
  <2>3. changes' \in [Flows -> SUBSET Ids]
    BY <1>0, <1>3, <2>2 DEF RecordChange
  <2>4. excused' \in [Flows -> SUBSET Keys] /\ dropped' \in [Flows -> SUBSET Keys]
    <3>1. /\ Moved(wr[w].flow, wr[w].key, excused, excused')
          /\ Moved(wr[w].flow, wr[w].key, dropped, dropped')
      BY <1>3 DEF RecordChange, Excuse, TakeUp
    <3> HIDE DEF Moved
    <3> QED BY <1>0, <1>h, <2>2, <3>1
  <2>5. wr' \in [Writers -> {Idle} \cup Owing]
    <3>1. wr' = [wr EXCEPT ![w] = [wr[w] EXCEPT !.at = "notify"]]
      BY <1>3 DEF RecordChange
    <3> HIDE DEF Owing
    <3> QED BY <1>0, <2>2, <3>1
  <2> QED BY <1>3, <2>3, <2>4, <2>5
          DEF RecordChange, TypeOK, storeVars, flowVars, cycleVars
<1>4. CASE Notify(w)
  BY <1>4, FlowAssumption DEF Notify, Bcast, TypeOK, Idle, storeVars, flowVars, cycleVars, ghosts
<1> QED BY <1>1, <1>2, <1>3, <1>4 DEF WriterNext

LEMMA TypeNext == TypeOK /\ HandOK /\ [Next]_vars => TypeOK'
<1> SUFFICES ASSUME TypeOK, HandOK, [Next]_vars PROVE TypeOK'
  OBVIOUS
<1>1. ASSUME NEW p \in Cycles, CycleNext(p) PROVE TypeOK'
  BY <1>1, TypeLoad, TypeSelect, TypeRemove, TypePersist, TypeRestarted
  DEF CycleNext, Shutdown
<1>2. ASSUME NEW f \in Flows, FlowNext(f) PROVE TypeOK'
  BY <1>2, TypeFlow
<1>3. ASSUME NEW w \in Writers, WriterNext(w) PROVE TypeOK'
  BY <1>3, TypeWriter
<1>4. CASE TriggerAllChangeChannel
  BY <1>4, FlowAssumption DEF TriggerAllChangeChannel, TypeOK, storeVars, flowVars, cycleVars,
    ghosts
<1>5. CASE UNCHANGED vars
  BY <1>5 DEF vars, TypeOK, tableVars, storeVars, flowVars, cycleVars, ghosts
<1> QED BY <1>1, <1>2, <1>3, <1>4, <1>5 DEF Next

-----------------------------------------------------------------------------
(* What a cycle has in hand, and where. *)

LEMMA HandNext == TypeOK /\ HandOK /\ [Next]_vars => HandOK'
<1> SUFFICES ASSUME TypeOK, HandOK, [Next]_vars PROVE HandOK'
  OBVIOUS
<1>0. /\ pc \in [Cycles -> CycleStates]
      /\ cur \in [Cycles -> [key : Ids \cup {None}, row : Rows]]
      /\ batch \in [Cycles -> SUBSET Ids]
  BY DEF TypeOK
<1> USE DEF Propagates
<1>1. ASSUME NEW p \in Cycles, SyncTableCycle(p) \/ Load(p) \/ Select(p) \/ Remove(p)
      PROVE  HandOK'
  <2>1. cur' = cur
    BY <1>1 DEF SyncTableCycle, Load, ReadVault, InsertRows, Select, Notified, Done, Kicked,
      Remove, Acquire, Scan, Drain, Drained, RemoveFails
  <2>2. PICK s \in CycleStates \ InHand : pc' = pc \/ pc' = [pc EXCEPT ![p] = s]
    BY <1>1 DEF SyncTableCycle, Load, ReadVault, InsertRows, Select, Notified, Done, Kicked,
      Remove, Acquire, Scan, Drain, Drained, RemoveFails, Goto, AfterPersist, CycleStates,
      InHand, Removing
  <2> QED BY <1>0, <2>1, <2>2 DEF HandOK, InHand
<1>2. ASSUME NEW p \in Cycles, Restarted PROVE HandOK'
  BY <1>2 DEF Restarted, AtCycles, HandOK
<1>3. ASSUME NEW p \in Cycles, Persist(p) PROVE HandOK'
  <2>1. CASE ReadEntry(p)
    <3>1. PICK id \in batch[p] :
            \/ UNCHANGED <<cur, pc>>
            \/ /\ RowOf(p[1], id) # NoRow \/ Propagates(p[1])
               /\ cur' = [cur EXCEPT ![p] = [key |-> id, row |-> RowOf(p[1], id)]]
               /\ pc' = [pc EXCEPT ![p] = IF RowOf(p[1], id) = NoRow THEN "delete" ELSE "store"]
      BY <2>1 DEF ReadEntry, Goto
    <3>2. id \in Ids
      BY <1>0
    <3>3. RowOf(p[1], id) # NoRow => id \in Keys
      BY DEF RowOf
    <3> QED BY <1>0, <3>1, <3>2, <3>3 DEF HandOK
  <2>2. CASE ReadFails(p) \/ Finish(p) \/ Clear(p)
    <3>1. PICK s \in CycleStates \ InHand : pc' = pc \/ pc' = [pc EXCEPT ![p] = s]
      BY <2>2 DEF ReadFails, Finish, Clear, Goto, AfterPersist, CycleStates, InHand, Removing
    <3>2. cur' = cur
      BY <2>2 DEF ReadFails, Finish, Clear
    <3> QED BY <1>0, <3>1, <3>2 DEF HandOK, InHand
  <2>3. CASE EntryDone(p)
    BY <1>0, <2>3 DEF EntryDone, Goto, HandOK, NoEntry
  <2>4. CASE StoreRow(p)
    BY <1>0, <2>4 DEF StoreRow, Goto, HandOK
  <2>5. CASE PushDelete(p)
    BY <1>0, <2>5 DEF PushDelete, Goto, HandOK
  <2>6. CASE SeedPanics(p)
    BY <1>2, <2>6 DEF SeedPanics
  <2> QED BY <1>3, <2>1, <2>2, <2>3, <2>4, <2>5, <2>6
          DEF Persist, PathFails, NoTenant, PushRow, PushFails, NoPush, SoftDelete,
              SoftDeleteFails
<1>4. CASE UNCHANGED <<pc, cur>>
  BY <1>4 DEF HandOK
<1> QED
  BY <1>1, <1>2, <1>3, <1>4, ZenonT(60)
  DEF Next, CycleNext, Shutdown, FlowNext, Cancel, Truncate, WriterNext, CallDBQuery,
      RecordChange, SqlStatement, Notify, TriggerAllChangeChannel, vars, cycleVars

LEMMA BatchNext == TypeOK /\ BatchOK /\ [Next]_vars => BatchOK'
<1> SUFFICES ASSUME TypeOK, BatchOK, [Next]_vars PROVE BatchOK'
  OBVIOUS
<1>0. /\ pc \in [Cycles -> CycleStates]
      /\ batch \in [Cycles -> SUBSET Ids] /\ undrained \in [Cycles -> SUBSET Ids]
      /\ changes \in [Flows -> SUBSET Ids]
  BY DEF TypeOK
<1> USE DEF Goto, EntryDone, InHand
<1>1. ASSUME NEW p \in Cycles, SyncTableCycle(p) \/ Load(p) \/ Select(p) \/ Acquire(p)
      PROVE  BatchOK'
  <2>1. batch' = batch /\ undrained' = undrained
    BY <1>1 DEF SyncTableCycle, Load, ReadVault, InsertRows, Select, Notified, Done, Kicked,
      Acquire
  <2>2. \/ pc' = pc
        \/ /\ pc[p] \in {"none", "load", "insert", "select", "lock"}
           /\ \E s \in CycleStates : pc' = [pc EXCEPT ![p] = s]
    BY <1>1 DEF SyncTableCycle, Load, ReadVault, InsertRows, Select, Notified, Done, Kicked,
      Acquire, CycleStates, Removing
  <2> QED BY <1>0, <2>1, <2>2 DEF BatchOK
<1>2. ASSUME NEW p \in Cycles, Scan(p) \/ Drain(p) \/ Drained(p) \/ RemoveFails(p)
      PROVE  BatchOK'
  <2>1. CASE Scan(p)
    BY <1>0, <2>1 DEF Scan, BatchOK
  <2>2. CASE Drain(p)
    BY <1>0, <2>2 DEF Drain, BatchOK
  <2>3. CASE Drained(p)
    BY <1>0, <2>3 DEF Drained, BatchOK
  <2>4. CASE RemoveFails(p)
    BY <1>0, <2>4 DEF RemoveFails, BatchOK
  <2> QED BY <1>2, <2>1, <2>2, <2>3, <2>4
<1>3. ASSUME NEW p \in Cycles, ReadEntry(p) \/ ReadFails(p) PROVE BatchOK'
  BY <1>0, <1>3 DEF ReadEntry, ReadFails, BatchOK
<1>4. ASSUME NEW p \in Cycles, Finish(p) PROVE BatchOK'
  BY <1>0, <1>4 DEF Finish, AfterPersist, BatchOK
<1>5. ASSUME NEW p \in Cycles, Persist(p), ~ReadEntry(p), ~ReadFails(p), ~Finish(p),
             ~SeedPanics(p)
      PROVE  BatchOK'
  <2>1. batch' = batch /\ undrained' = undrained
    BY <1>5 DEF Persist, PathFails, NoTenant, StoreRow, PushRow, PushFails, NoPush, PushDelete,
      SoftDelete, SoftDeleteFails, Clear
  <2>2. \/ /\ pc[p] \in InHand
           /\ \E s \in InHand \cup {"entry"} : pc' = [pc EXCEPT ![p] = s]
        \/ pc[p] = "clear" /\ pc' = [pc EXCEPT ![p] = "select"]
    BY <1>5 DEF Persist, PathFails, NoTenant, StoreRow, PushRow, PushFails, NoPush, PushDelete,
      SoftDelete, SoftDeleteFails, Clear
  <2> QED BY <1>0, <2>1, <2>2 DEF BatchOK
<1>6. ASSUME Restarted PROVE BatchOK'
  BY <1>6 DEF Restarted, AtCycles, BatchOK
<1>7. CASE UNCHANGED <<pc, batch, undrained>>
  BY <1>7 DEF BatchOK
<1> QED
  BY <1>1, <1>2, <1>3, <1>4, <1>5, <1>6, <1>7, ZenonT(60)
  DEF Next, CycleNext, Remove, SeedPanics, Shutdown, FlowNext, Cancel, Truncate, WriterNext,
      CallDBQuery, RecordChange, SqlStatement, Notify, TriggerAllChangeChannel, vars, cycleVars

(* Loads keep their triggers. *)
LEMMA LoadNext == TypeOK /\ LoadOK /\ [Next]_vars => LoadOK'
<1> SUFFICES ASSUME TypeOK, LoadOK, [Next]_vars PROVE LoadOK'
  OBVIOUS
<1>0. /\ pc \in [Cycles -> CycleStates] /\ removed \subseteq Cycles
      /\ triggers \in [Flows -> BOOLEAN]
  BY DEF TypeOK
<1>1. ASSUME NEW p \in Cycles, SyncTableCycle(p) PROVE LoadOK'
  <2>1. /\ pc[p] = "none" /\ pc' = [pc EXCEPT ![p] = "load"]
        /\ triggers' = [triggers EXCEPT ![p[1]] = FALSE]
        /\ removed' = IF triggers[p[1]] THEN removed \cup {p} ELSE removed
    BY <1>1 DEF SyncTableCycle, Goto
  <2>2. \A q \in removed' : pc'[q] \in {"load", "insert"}
    BY <1>0, <2>1 DEF LoadOK
  <2>3. ASSUME NEW f \in Flows PROVE triggers'[f] \/ \E q \in removed' : q[1] = f
    <3>1. CASE f = p[1] /\ triggers[f]
      BY <2>1, <3>1
    <3>2. CASE ~(f = p[1] /\ triggers[f])
      <4>1. removed \subseteq removed'
        BY <2>1
      <4>2. CASE f # p[1] /\ triggers[f]
        BY <1>0, <2>1, <4>2, CycleParts
      <4>3. CASE ~triggers[f]
        BY <4>1, <4>3 DEF LoadOK
      <4> QED BY <3>2, <4>2, <4>3
    <3> QED BY <3>1, <3>2
  <2> QED BY <2>2, <2>3 DEF LoadOK
<1>2. ASSUME NEW p \in Cycles, InsertRows(p) PROVE LoadOK'
  <2>1. /\ pc' = [pc EXCEPT ![p] = "select"]
        /\ triggers' = [triggers EXCEPT ![p[1]] = triggers[p[1]] \/ p \in removed]
        /\ removed' = removed \ {p}
    BY <1>2 DEF InsertRows, Goto, Restored
  <2>2. \A q \in removed' : pc'[q] \in {"load", "insert"}
    BY <1>0, <2>1 DEF LoadOK
  <2>3. ASSUME NEW f \in Flows PROVE triggers'[f] \/ \E q \in removed' : q[1] = f
    <3>1. CASE f = p[1] /\ p \in removed
      <4>1. triggers'[f] = (triggers[f] \/ p \in removed)
        BY <1>0, <2>1, <3>1
      <4> QED BY <3>1, <4>1
    <3>2. CASE ~triggers[f] /\ ~(f = p[1] /\ p \in removed)
      <4>1. PICK q \in removed : q[1] = f
        BY <3>2 DEF LoadOK
      <4> QED BY <2>1, <3>2, <4>1
    <3>3. CASE triggers[f]
      <4>1. triggers'[f] = triggers[f] \/ triggers'[f] = (triggers[f] \/ p \in removed)
        BY <1>0, <2>1
      <4> QED BY <3>3, <4>1
    <3> QED BY <3>1, <3>2, <3>3
  <2> QED BY <2>2, <2>3 DEF LoadOK
<1>3. ASSUME Restarted PROVE LoadOK'
  BY <1>3 DEF Restarted, AtFlows, Armed, LoadOK
<1>4. CASE /\ removed' = removed /\ triggers' = triggers
           /\ \/ pc' = pc
              \/ \E p \in Cycles, s \in CycleStates :
                   pc' = [pc EXCEPT ![p] = s] /\ (pc[p] = "load" => s = "insert")
                                              /\ pc[p] # "insert"
  BY <1>0, <1>4 DEF LoadOK
<1>5. ASSUME NEW p \in Cycles, ReadVault(p) \/ Select(p) \/ Remove(p) PROVE LoadOK'
  <2>1. removed' = removed /\ triggers' = triggers
    BY <1>5 DEF ReadVault, Select, Notified, Done, Kicked, Remove, Acquire, Scan, Drain,
      Drained, RemoveFails, flowVars
  <2>2. \/ pc' = pc
        \/ \E s \in CycleStates :
             pc' = [pc EXCEPT ![p] = s] /\ (pc[p] = "load" => s = "insert") /\ pc[p] # "insert"
    BY <1>5 DEF ReadVault, Select, Notified, Done, Kicked, Remove, Acquire, Scan, Drain,
      Drained, RemoveFails, Goto, AfterPersist, CycleStates, Removing
  <2> QED BY <1>4, <2>1, <2>2
<1>6. ASSUME NEW p \in Cycles, Persist(p), ~SeedPanics(p) PROVE LoadOK'
  <2>1. removed' = removed /\ triggers' = triggers
    BY <1>6 DEF Persist, ReadEntry, ReadFails, PathFails, NoTenant, StoreRow, PushRow,
      PushFails, NoPush, PushDelete, SoftDelete, SoftDeleteFails, Finish, Clear, flowVars
  <2>2. \/ pc' = pc
        \/ \E s \in CycleStates :
             pc' = [pc EXCEPT ![p] = s] /\ (pc[p] = "load" => s = "insert") /\ pc[p] # "insert"
    BY <1>6 DEF Persist, ReadEntry, ReadFails, PathFails, NoTenant, StoreRow, PushRow,
      PushFails, NoPush, PushDelete, SoftDelete, SoftDeleteFails, Finish, Clear, Goto,
      EntryDone, AfterPersist, CycleStates, InHand
  <2> QED BY <1>4, <2>1, <2>2
<1>7. CASE UNCHANGED <<pc, removed, triggers>>
  BY <1>4, <1>7
<1> QED
  BY <1>1, <1>2, <1>3, <1>5, <1>6, <1>7, ZenonT(60)
  DEF Next, CycleNext, Load, SeedPanics, Shutdown, FlowNext, Cancel, Truncate, WriterNext,
      CallDBQuery, RecordChange, SqlStatement, Notify, TriggerAllChangeChannel, vars,
      flowVars, cycleVars

(* changesLock keeps everyone out who has not locked it. *)
LEMMA ExclusiveNext == TypeOK /\ RemovalIsExclusive /\ [Next]_vars => RemovalIsExclusive'
<1> SUFFICES ASSUME TypeOK, RemovalIsExclusive, [Next]_vars PROVE RemovalIsExclusive'
  OBVIOUS
<1>0. pc \in [Cycles -> CycleStates]
  BY DEF TypeOK
<1> USE DEF RemovalIsExclusive, Removing
<1>1. ASSUME NEW p \in Cycles, Acquire(p) PROVE RemovalIsExclusive'
  BY <1>0, <1>1, Distinct DEF Acquire, Unlocked, Goto
<1>2. ASSUME NEW p \in Cycles, Scan(p) \/ Drain(p) \/ Drained(p) \/ RemoveFails(p)
      PROVE  RemovalIsExclusive'
  BY <1>0, <1>2 DEF Scan, Drain, Drained, Unlock, RemoveFails, Goto, AfterPersist
<1>3. CASE /\ lock' = lock
           /\ \/ pc' = pc
              \/ \E p \in Cycles, s \in CycleStates \ Removing : pc' = [pc EXCEPT ![p] = s]
  BY <1>0, <1>3
<1>4. ASSUME NEW p \in Cycles, SyncTableCycle(p) \/ Load(p) \/ Select(p)
      PROVE  RemovalIsExclusive'
  <2>1. /\ lock' = lock
        /\ \/ pc' = pc
           \/ \E s \in CycleStates \ Removing : pc' = [pc EXCEPT ![p] = s]
    BY <1>4 DEF SyncTableCycle, Load, ReadVault, InsertRows, Select, Notified, Done, Kicked,
      Goto, CycleStates
  <2> QED BY <1>3, <2>1
<1>5. ASSUME NEW p \in Cycles, Persist(p), ~SeedPanics(p) PROVE RemovalIsExclusive'
  <2>1. /\ lock' = lock
        /\ \/ pc' = pc
           \/ \E s \in CycleStates \ Removing : pc' = [pc EXCEPT ![p] = s]
    BY <1>5 DEF Persist, ReadEntry, ReadFails, PathFails, NoTenant, StoreRow, PushRow,
      PushFails, NoPush, PushDelete, SoftDelete, SoftDeleteFails, Finish, Clear, Goto,
      EntryDone, AfterPersist, CycleStates, InHand
  <2> QED BY <1>3, <2>1
<1>6. ASSUME Restarted PROVE RemovalIsExclusive'
  BY <1>6 DEF Restarted, AtCycles
<1>7. CASE UNCHANGED <<pc, lock>>
  BY <1>3, <1>7
<1> QED
  BY <1>1, <1>2, <1>4, <1>5, <1>6, <1>7, ZenonT(60)
  DEF Next, CycleNext, Remove, SeedPanics, Shutdown, FlowNext, Cancel, Truncate, WriterNext,
      CallDBQuery, RecordChange, SqlStatement, Notify, TriggerAllChangeChannel, vars, cycleVars

LEMMA ShapeInit == Init => Shape
<1> SUFFICES ASSUME Init PROVE Shape
  OBVIOUS
<1>1. TypeOK
  BY TypeInit
<1>2. HandOK /\ BatchOK /\ LoadOK /\ RemovalIsExclusive
  BY DEF Init, HandOK, BatchOK, LoadOK, RemovalIsExclusive, Removing, AtCycles, AtFlows, Armed
<1> QED BY <1>1, <1>2 DEF Shape

LEMMA ShapeNext == Shape /\ [Next]_vars => Shape'
BY TypeNext, HandNext, BatchNext, LoadNext, ExclusiveNext DEF Shape

THEOREM ShapeCorrect == Spec => []Shape
BY ShapeInit, ShapeNext, PTL DEF Spec

(* Every variable keeps to its type, whatever overlaps and whatever fails. *)
THEOREM TypeCorrect == Spec => []TypeOK
<1>1. Shape => TypeOK
  BY DEF Shape
<1> QED BY <1>1, ShapeCorrect, PTL

(* The critical section of changesLock is exclusive across all cycles of all    *)
(* flows, also when cycles overlap and when one leaves it without unlocking.    *)
THEOREM RemovalExclusive == Spec => []RemovalIsExclusive
<1>1. Shape => RemovalIsExclusive
  BY DEF Shape
<1> QED BY <1>1, ShapeCorrect, PTL

(* However many loads of a flow overlap, the last one to end leaves the flow    *)
(* with its triggers.                                                           *)
THEOREM TriggersRestored == Spec => []TriggersComeBack
<1>1. Shape => TriggersComeBack
  <2> SUFFICES ASSUME Shape, NEW f \in Flows,
                      \A p \in CyclesOf(f) : pc[p] \notin {"load", "insert"}
               PROVE  triggers[f]
    BY DEF TriggersComeBack
  <2> QED BY DEF Shape, LoadOK, TypeOK, CyclesOf
<1> QED BY <1>1, ShapeCorrect, PTL

-----------------------------------------------------------------------------
(* From here on cycles do not overlap. *)

LEMMA OneCycleNext ==
  ASSUME ~Overlap, TypeOK, OneCycle, [Next]_vars
  PROVE  OneCycle'
<1>0. pc \in [Cycles -> CycleStates]
  BY DEF TypeOK
<1> USE DEF OneCycle, Busy
<1>1. ASSUME NEW p \in Cycles, SyncTableCycle(p) PROVE OneCycle'
  <2>1. pc' = [pc EXCEPT ![p] = "load"] /\ \A q \in CyclesOf(p[1]) : ~Busy(q)
    BY <1>1 DEF SyncTableCycle, Goto
  <2> QED BY <1>0, <2>1, CycleParts DEF CyclesOf
<1>2. CASE pc' = pc \/ \E p \in Cycles, s \in CycleStates :
                         Busy(p) /\ pc' = [pc EXCEPT ![p] = s]
  BY <1>0, <1>2
<1>3. ASSUME NEW p \in Cycles, Load(p) \/ Select(p) \/ Remove(p) PROVE OneCycle'
  <2>1. pc' = pc \/ \E s \in CycleStates : Busy(p) /\ pc' = [pc EXCEPT ![p] = s]
    BY <1>3 DEF Load, ReadVault, InsertRows, Select, Notified, Done, Kicked, Remove, Acquire,
      Scan, Drain, Drained, RemoveFails, Goto, AfterPersist, CycleStates, Removing
  <2> QED BY <1>2, <2>1
<1>4. ASSUME NEW p \in Cycles, Persist(p), ~SeedPanics(p) PROVE OneCycle'
  <2>1. pc' = pc \/ \E s \in CycleStates : Busy(p) /\ pc' = [pc EXCEPT ![p] = s]
    BY <1>4 DEF Persist, ReadEntry, ReadFails, PathFails, NoTenant, StoreRow, PushRow,
      PushFails, NoPush, PushDelete, SoftDelete, SoftDeleteFails, Finish, Clear, Goto,
      EntryDone, AfterPersist, CycleStates, InHand
  <2> QED BY <1>2, <2>1
<1>5. ASSUME Restarted PROVE OneCycle'
  BY <1>5 DEF Restarted, AtCycles
<1>6. CASE UNCHANGED pc
  BY <1>2, <1>6
<1> QED
  BY <1>1, <1>3, <1>4, <1>5, <1>6, ZenonT(60)
  DEF Next, CycleNext, SeedPanics, Shutdown, FlowNext, Cancel, Truncate, WriterNext,
      CallDBQuery, RecordChange, SqlStatement, Notify, TriggerAllChangeChannel, vars, cycleVars

(* The invariants below speak of one row of one flow: this is what they say of *)
(* row k of flow f.                                                            *)
Noted(f, k) == k \in changes[f] \cup excused[f]

RowAgrees(f, k) ==
  /\ \A p \in CyclesOf(f) :
       /\ pc[p] = "insert" =>
            snap[p][k] = vault[f][k] \/ (snap[p][k] = NoRow /\ Noted(f, k))
       /\ pc[p] \in {"store", "delete", "softdelete"} /\ cur[p].key = k =>
            \/ cur[p].row = table[f][k]
            \/ Noted(f, k) \/ WriterOwes(f, k)
            \/ table[f][k] = NoRow /\ ~Propagates(f)
       /\ pc[p] = "push" /\ cur[p].key = k /\ f \notin ReadOnly => vault[f][k] = cur[p].row
  /\ Diverged(f, k) => Accounted(f, k) \/ k \in excused[f]
  /\ f \in Pushes \ ReadOnly /\ vault[f][k] \notin {NoRow, remote[f][k]} =>
       \/ k \in unpushed[f]
       \/ \E p \in CyclesOf(f) : cur[p].key = k /\ pc[p] = "push"

RowsAgree == \A f \in Flows, k \in Keys : RowAgrees(f, k)

LEMMA RowsAgreeMeans ==
  ASSUME Shape
  PROVE  RowsAgree => SnapOK /\ HeldIsFresh /\ PushOK /\ LossIsNamed /\ RemoteFollowsVault
<1>1. \A p \in Cycles : p[1] \in Flows /\ p \in CyclesOf(p[1])
  BY CycleParts DEF CyclesOf
<1>2. \A p \in Cycles : pc[p] = "push" => cur[p].key \in Keys
  BY DEF Shape, HandOK
<1>3. RowsAgree => LossIsNamed /\ RemoteFollowsVault
  BY FlowAssumption DEF RowsAgree, RowAgrees, LossIsNamed, Logged, RemoteFollowsVault
<1>4. RowsAgree => SnapOK /\ HeldIsFresh
  BY <1>1 DEF RowsAgree, RowAgrees, SnapOK, HeldIsFresh, Noted
<1>5. RowsAgree => PushOK
  BY <1>1, <1>2 DEF RowsAgree, RowAgrees, PushOK
<1> QED BY <1>3, <1>4, <1>5

(* A step that leaves a row, its copies and its cycles alone, and forgets       *)
(* nothing that is known of it, keeps what was said of it.                      *)
LEMMA RowKept ==
  ASSUME NEW f \in Flows, NEW k \in Keys, RowAgrees(f, k),
         table'[f][k] = table[f][k], vault'[f][k] = vault[f][k],
         remote'[f][k] = remote[f][k], loaded'[f] = loaded[f],
         \A p \in CyclesOf(f) : /\ pc'[p] = pc[p] /\ cur'[p] = cur[p]
                                /\ batch'[p] = batch[p] /\ snap'[p] = snap[p],
         Noted(f, k) => Noted(f, k)',
         WriterOwes(f, k) => WriterOwes(f, k)' \/ Noted(f, k)',
         k \in unpushed[f] => k \in unpushed'[f]
  PROVE  RowAgrees(f, k)'
<1>1. \A p \in CyclesOf(f) : Carries(p, k) => Carries(p, k)'
  BY DEF Carries, CyclesOf
<1>2. Diverged(f, k)' => Diverged(f, k)
  BY DEF Diverged, Propagates
<1> HIDE DEF Carries
<1>3. Diverged(f, k)' => Accounted(f, k)' \/ k \in excused'[f]
  BY <1>1, <1>2 DEF RowAgrees, Accounted, Noted, CyclesOf
<1>4. f \in Pushes \ ReadOnly /\ vault'[f][k] \notin {NoRow, remote'[f][k]} =>
       \/ k \in unpushed'[f]
       \/ \E p \in CyclesOf(f) : cur'[p].key = k /\ pc'[p] = "push"
  BY DEF RowAgrees
<1>5. ASSUME NEW p \in CyclesOf(f)
      PROVE  /\ pc'[p] = "insert" =>
                  snap'[p][k] = vault'[f][k] \/ (snap'[p][k] = NoRow /\ Noted(f, k)')
             /\ pc'[p] \in {"store", "delete", "softdelete"} /\ cur'[p].key = k =>
                  \/ cur'[p].row = table'[f][k]
                  \/ Noted(f, k)' \/ WriterOwes(f, k)'
                  \/ table'[f][k] = NoRow /\ ~Propagates(f)
             /\ pc'[p] = "push" /\ cur'[p].key = k /\ f \notin ReadOnly =>
                  vault'[f][k] = cur'[p].row
  BY <1>5 DEF RowAgrees
<1> QED BY <1>3, <1>4, <1>5 DEF RowAgrees, CyclesOf, Propagates

(* A step of a cycle changes nothing of another flow. *)
LEMMA OtherFlowKept ==
  ASSUME TypeOK, NEW p \in Cycles, CycleNext(p), ~Restarted, NEW f \in Flows, f # p[1]
  PROVE  /\ table'[f] = table[f] /\ vault'[f] = vault[f] /\ remote'[f] = remote[f]
         /\ loaded'[f] = loaded[f] /\ changes'[f] = changes[f] /\ excused'[f] = excused[f]
         /\ unpushed'[f] = unpushed[f] /\ wr' = wr
         /\ \A q \in CyclesOf(f) : /\ pc'[q] = pc[q] /\ cur'[q] = cur[q]
                                   /\ batch'[q] = batch[q] /\ snap'[q] = snap[q]
<1> DEFINE Kept == 
         /\ table'[f] = table[f] /\ vault'[f] = vault[f] /\ remote'[f] = remote[f]
         /\ loaded'[f] = loaded[f] /\ changes'[f] = changes[f] /\ excused'[f] = excused[f]
         /\ unpushed'[f] = unpushed[f] /\ wr' = wr
         /\ \A q \in CyclesOf(f) : /\ pc'[q] = pc[q] /\ cur'[q] = cur[q]
                                   /\ batch'[q] = batch[q] /\ snap'[q] = snap[q]
<1>0. \A q \in CyclesOf(f) : q \in Cycles /\ q # p
  BY DEF CyclesOf
<1> USE <1>0 DEF TypeOK, Goto, Excuse, Drop, EntryDone, tableVars, storeVars, flowVars, ghosts
<1>1. CASE SyncTableCycle(p) \/ Load(p)
  BY <1>1 DEF SyncTableCycle, Load, ReadVault, InsertRows
<1>2. CASE Select(p)
  BY <1>2 DEF Select, Notified, Done, Kicked
<1>3. CASE Remove(p)
  BY <1>3 DEF Remove, Acquire, Scan, Drain, Drained, RemoveFails
<1>4. CASE ReadEntry(p) \/ ReadFails(p) \/ PathFails(p) \/ NoTenant(p) \/ StoreRow(p)
  BY <1>4 DEF ReadEntry, ReadFails, PathFails, NoTenant, StoreRow
<1>5. CASE PushRow(p) \/ PushFails(p) \/ NoPush(p) \/ PushDelete(p)
  BY <1>5 DEF PushRow, PushFails, NoPush, PushDelete
<1>6. CASE SoftDelete(p) \/ SoftDeleteFails(p) \/ Finish(p) \/ Clear(p)
  BY <1>6 DEF SoftDelete, SoftDeleteFails, Finish, Clear
<1> QED BY <1>1, <1>2, <1>3, <1>4, <1>5, <1>6
        DEF CycleNext, Shutdown, Persist, SeedPanics

(* While a cycle of a flow runs, the flow's other cycles hold nothing. *)
LEMMA AloneInFlow ==
  ASSUME Shape, OneCycle, NEW p \in Cycles, Busy(p), NEW q \in CyclesOf(p[1]), q # p
  PROVE  ~Busy(q) /\ batch[q] = {}
BY DEF CyclesOf, OneCycle, Shape, BatchOK, Busy, InHand

(* What RowAgrees asks of the only cycle of a flow that runs. *)
Lone(p, k) ==
  LET f == p[1] IN
  /\ pc[p] = "insert" =>
       snap[p][k] = vault[f][k] \/ (snap[p][k] = NoRow /\ Noted(f, k))
  /\ pc[p] \in {"store", "delete", "softdelete"} /\ cur[p].key = k =>
       \/ cur[p].row = table[f][k]
       \/ Noted(f, k) \/ WriterOwes(f, k)
       \/ table[f][k] = NoRow /\ ~Propagates(f)
  /\ pc[p] = "push" /\ cur[p].key = k /\ f \notin ReadOnly => vault[f][k] = cur[p].row
  /\ Diverged(f, k) => Noted(f, k) \/ WriterOwes(f, k) \/ Carries(p, k)
  /\ f \in Pushes \ ReadOnly /\ vault[f][k] \notin {NoRow, remote[f][k]} =>
       k \in unpushed[f] \/ (cur[p].key = k /\ pc[p] = "push")

LEMMA LoneBefore ==
  ASSUME NEW p \in Cycles, NEW k \in Keys, RowAgrees(p[1], k),
         \A q \in CyclesOf(p[1]) : q = p \/ (~Busy(q) /\ batch[q] = {})
  PROVE  Lone(p, k)
<1>1. p \in CyclesOf(p[1])
  BY DEF CyclesOf
<1>2. \A q \in CyclesOf(p[1]) : Carries(q, k) => q = p
  BY DEF Carries, Busy
<1>3. Diverged(p[1], k) => Noted(p[1], k) \/ WriterOwes(p[1], k) \/ Carries(p, k)
  BY <1>2 DEF RowAgrees, Accounted, Noted
<1>4. \A q \in CyclesOf(p[1]) : pc[q] = "push" => q = p
  BY DEF Busy
<1> QED BY <1>1, <1>3, <1>4 DEF RowAgrees, Lone

LEMMA LoneAfter ==
  ASSUME NEW p \in Cycles, NEW k \in Keys, Lone(p, k)',
         \A q \in CyclesOf(p[1]) : q = p \/ ~Busy(q)'
  PROVE  RowAgrees(p[1], k)'
<1>1. p \in CyclesOf(p[1])
  BY DEF CyclesOf
<1>2. Diverged(p[1], k)' => Accounted(p[1], k)' \/ k \in excused'[p[1]]
  BY <1>1 DEF Lone, Accounted, Noted, CyclesOf
<1> QED BY <1>1, <1>2 DEF Lone, RowAgrees, Busy, CyclesOf

Holding == {"insert", "store", "delete", "softdelete", "push"}

(* Steps between places where the cycle holds no copy of a row. *)
LEMMA LoneMoves ==
  ASSUME Shape, NEW p \in Cycles, NEW k \in Keys, Lone(p, k),
         pc[p] \notin Holding, pc'[p] \notin Holding,
         UNCHANGED <<table, vault, remote, loaded, changes, wr, batch, ghosts>>
  PROVE  Lone(p, k)'
<1>1. Carries(p, k) => Carries(p, k)'
  BY DEF Carries, Holding
<1>2. /\ Diverged(p[1], k)' <=> Diverged(p[1], k)
      /\ Noted(p[1], k)' <=> Noted(p[1], k)
      /\ WriterOwes(p[1], k)' <=> WriterOwes(p[1], k)
  BY DEF Diverged, Propagates, Noted, WriterOwes, ghosts
<1> QED BY <1>1, <1>2 DEF Lone, Holding, ghosts

LEMMA LoneLoad ==
  ASSUME Shape, NEW p \in Cycles, NEW k \in Keys, Lone(p, k), SyncTableCycle(p) \/ Load(p)
  PROVE  Lone(p, k)'
<1>0. /\ TypeOK /\ p[1] \in Flows
  BY CycleParts DEF Shape
<1>1. CASE SyncTableCycle(p)
  BY <1>0, <1>1, LoneMoves DEF SyncTableCycle, TypeOK, Goto, Holding, tableVars, storeVars, ghosts
<1>2. CASE ReadVault(p)
  <2>1. /\ pc[p] = "load" /\ pc'[p] = "insert" /\ batch[p] = {}
        /\ UNCHANGED <<table, vault, remote, loaded, changes, wr, batch, unpushed>>
    BY <1>0, <1>2 DEF ReadVault, Goto, TypeOK, tableVars, storeVars, flowVars, Shape, BatchOK,
      InHand
  <2>2. PICK skipped \in SUBSET {j \in Keys : vault[p[1]][j] # NoRow} :
          /\ snap' = [snap EXCEPT ![p] =
                        [j \in Keys |-> IF j \in skipped THEN NoRow ELSE vault[p[1]][j]]]
          /\ excused' = [excused EXCEPT ![p[1]] = @ \cup skipped]
    BY <1>2 DEF ReadVault, Excuse
  <2>3. /\ snap'[p][k] = vault[p[1]][k] \/ (snap'[p][k] = NoRow /\ k \in excused'[p[1]])
        /\ excused[p[1]] \subseteq excused'[p[1]]
    BY <1>0, <2>2 DEF TypeOK
  <2> QED BY <2>1, <2>3 DEF Lone, Carries, Diverged, Propagates, Noted, WriterOwes
<1>3. CASE InsertRows(p)
  <2>1. /\ pc[p] = "insert" /\ pc'[p] = "select" /\ loaded'[p[1]] = TRUE
        /\ table'[p[1]][k] = IF table[p[1]][k] = NoRow THEN snap[p][k] ELSE table[p[1]][k]
        /\ batch[p] = {}
        /\ UNCHANGED <<vault, remote, changes, wr, batch, ghosts>>
    BY <1>0, <1>3 DEF InsertRows, Goto, TypeOK, storeVars, Shape, BatchOK, InHand
  <2>2. /\ Noted(p[1], k)' <=> Noted(p[1], k)
        /\ WriterOwes(p[1], k)' <=> WriterOwes(p[1], k)
    BY <2>1 DEF Noted, WriterOwes, ghosts
  <2>3. Diverged(p[1], k)' => Noted(p[1], k) \/ WriterOwes(p[1], k)
    <3>1. CASE table[p[1]][k] = NoRow
      BY <2>1, <3>1 DEF Lone, Diverged
    <3>2. CASE table[p[1]][k] # NoRow
      BY <2>1, <3>2 DEF Lone, Diverged, Carries
    <3> QED BY <3>1, <3>2
  <2> QED BY <2>1, <2>2, <2>3 DEF Lone, ghosts
<1> QED BY <1>1, <1>2, <1>3 DEF Load

LEMMA LoneRemove ==
  ASSUME Shape, NEW p \in Cycles, NEW k \in Keys, Lone(p, k), Select(p) \/ Remove(p)
  PROVE  Lone(p, k)'
<1>0. /\ TypeOK /\ BatchOK /\ p[1] \in Flows
  BY CycleParts DEF Shape
<1>1. CASE Select(p) \/ Acquire(p) \/ Drained(p)
  <2>1. /\ pc[p] \notin Holding /\ pc'[p] \notin Holding
        /\ UNCHANGED <<table, vault, remote, loaded, changes, wr, batch, ghosts>>
    BY <1>0, <1>1 DEF Select, Notified, Done, Kicked, Acquire, Drained, Goto, TypeOK, Holding,
      tableVars, storeVars, flowVars, ghosts
  <2> QED BY <2>1, LoneMoves
<1>2. CASE Scan(p)
  <2>1. /\ pc[p] = "scan" /\ pc'[p] = "drain"
        /\ batch[p] = {} /\ batch'[p] = changes[p[1]]
        /\ UNCHANGED <<table, vault, remote, loaded, changes, wr, cur, ghosts>>
    BY <1>0, <1>2 DEF Scan, Goto, TypeOK, BatchOK, InHand, tableVars, storeVars, flowVars
  <2> QED BY <2>1 DEF Lone, Carries, Diverged, Propagates, Noted, WriterOwes, ghosts
<1>3. CASE Drain(p)
  <2>1. PICK id \in undrained[p] : changes' = [changes EXCEPT ![p[1]] = @ \ {id}]
    BY <1>3 DEF Drain
  <2>2. id \in batch[p]
    BY <1>0 DEF BatchOK
  <2>3. /\ pc[p] = "drain" /\ pc' = pc
        /\ UNCHANGED <<table, vault, remote, loaded, batch, wr, cur, ghosts>>
    BY <1>3 DEF Drain, storeVars, flowVars
  <2>4. Noted(p[1], k) => Noted(p[1], k)' \/ k \in batch[p]
    BY <1>0, <2>1, <2>2, <2>3 DEF Noted, TypeOK, ghosts
  <2> QED BY <2>3, <2>4 DEF Lone, Carries, Diverged, Propagates, WriterOwes, ghosts
<1>4. CASE RemoveFails(p)
  <2>1. /\ pc[p] \in Removing /\ pc'[p] \in {"gone", "clear"}
        /\ excused'[p[1]] = excused[p[1]] \cup (Keys \cap (batch[p] \ changes[p[1]]))
        /\ UNCHANGED <<table, vault, remote, loaded, changes, wr, cur, unpushed>>
    BY <1>0, <1>4 DEF RemoveFails, Goto, AfterPersist, Excuse, TypeOK, tableVars, storeVars,
      flowVars
  <2>2. Noted(p[1], k) \/ Carries(p, k) => Noted(p[1], k)'
    BY <2>1 DEF Noted, Carries, Removing
  <2> QED BY <2>1, <2>2 DEF Lone, Diverged, Propagates, WriterOwes, Removing
<1> QED BY <1>1, <1>2, <1>3, <1>4 DEF Remove

LEMMA LonePersist ==
  ASSUME Shape, NEW p \in Cycles, NEW k \in Keys, Lone(p, k), Persist(p), ~SeedPanics(p)
  PROVE  Lone(p, k)'
<1>0. /\ TypeOK /\ BatchOK /\ HandOK /\ p[1] \in Flows
  BY CycleParts DEF Shape
<1> DEFINE f == p[1]
<1>1. CASE Finish(p) \/ Clear(p)
  <2>1. /\ pc[p] \notin Holding /\ pc'[p] \notin Holding
        /\ UNCHANGED <<table, vault, remote, loaded, changes, wr, batch, ghosts>>
    BY <1>0, <1>1 DEF Finish, Clear, AfterPersist, Goto, TypeOK, Holding, tableVars, storeVars,
      flowVars, ghosts
  <2> QED BY <2>1, LoneMoves
<1>2. CASE ReadEntry(p)
  <2>1. /\ pc[p] = "entry"
        /\ UNCHANGED <<table, vault, remote, loaded, changes, wr, ghosts>>
    BY <1>2 DEF ReadEntry, tableVars, storeVars, flowVars
  <2>2. PICK id \in batch[p] :
          /\ batch' = [batch EXCEPT ![p] = @ \ {id}]
          /\ \/ /\ RowOf(f, id) = NoRow /\ ~Propagates(f)
                /\ UNCHANGED <<cur, pc>>
             \/ /\ cur' = [cur EXCEPT ![p] = [key |-> id, row |-> RowOf(f, id)]]
                /\ pc' = [pc EXCEPT ![p] = IF RowOf(f, id) = NoRow THEN "delete" ELSE "store"]
    BY <1>2 DEF ReadEntry, Goto
  <2>3. batch'[p] = batch[p] \ {id}
    BY <1>0, <2>2 DEF TypeOK
  <2>4. id = k => RowOf(f, id) = table[f][k]
    BY DEF RowOf
  <2>5. /\ Diverged(f, k)' <=> Diverged(f, k)
        /\ Noted(f, k)' <=> Noted(f, k)
        /\ WriterOwes(f, k)' <=> WriterOwes(f, k)
    BY <2>1 DEF Diverged, Propagates, Noted, WriterOwes, ghosts
  <2>6. CASE RowOf(f, id) = NoRow /\ ~Propagates(f) /\ UNCHANGED <<cur, pc>>
    <3>1. Diverged(f, k) /\ Carries(p, k) => Carries(p, k)'
      BY <2>1, <2>3, <2>4, <2>6 DEF Carries, Diverged
    <3> QED BY <2>1, <2>5, <2>6, <3>1 DEF Lone, ghosts
  <2>7. CASE /\ cur' = [cur EXCEPT ![p] = [key |-> id, row |-> RowOf(f, id)]]
             /\ pc' = [pc EXCEPT ![p] = IF RowOf(f, id) = NoRow THEN "delete" ELSE "store"]
    <3>1. /\ cur'[p] = [key |-> id, row |-> RowOf(f, id)] /\ pc'[p] \in {"delete", "store"}
      BY <1>0, <2>7 DEF TypeOK
    <3>2. Carries(p, k) => Carries(p, k)'
      BY <2>1, <2>3, <2>4, <3>1 DEF Carries
    <3> QED BY <2>1, <2>4, <2>5, <3>1, <3>2 DEF Lone, ghosts
  <2> QED BY <2>2, <2>6, <2>7
<1>3. CASE ReadFails(p)
  <2>1. PICK id \in batch[p] :
          /\ batch' = [batch EXCEPT ![p] = @ \ {id}]
          /\ excused' = [excused EXCEPT ![f] = @ \cup (Keys \cap {id})]
    BY <1>3 DEF ReadFails, Excuse
  <2>2. /\ pc[p] = "entry" /\ pc' = pc
        /\ UNCHANGED <<table, vault, remote, loaded, changes, wr, cur, unpushed>>
    BY <1>3 DEF ReadFails, tableVars, storeVars, flowVars
  <2>3. /\ batch'[p] = batch[p] \ {id}
        /\ excused'[f] = excused[f] \cup (Keys \cap {id})
    BY <1>0, <2>1 DEF TypeOK
  <2>4. Noted(f, k) \/ Carries(p, k) => Noted(f, k)' \/ Carries(p, k)'
    BY <2>2, <2>3 DEF Noted, Carries
  <2> QED BY <2>2, <2>4 DEF Lone, Diverged, Propagates, WriterOwes
\* The entry in hand is given up, or its row is stored and it is done with.
<1>4. CASE EntryDone(p) /\ (PathFails(p) \/ NoTenant(p) \/ SoftDeleteFails(p))
  <2>1. /\ pc'[p] = "entry" /\ changes[f] \subseteq changes'[f]
        /\ excused'[f] = excused[f] \cup (Keys \cap {cur[p].key})
        /\ UNCHANGED <<table, vault, remote, loaded, wr, batch, unpushed>>
        /\ pc[p] \in {"store", "softdelete"}
    BY <1>0, <1>4 DEF PathFails, NoTenant, SoftDeleteFails, EntryDone, Goto, Excuse, Drop, TypeOK,
      HandOK, tableVars, storeVars, flowVars
  <2>2. Noted(f, k) \/ Carries(p, k) => Noted(f, k)' \/ Carries(p, k)'
    BY <2>1 DEF Noted, Carries
  <2> QED BY <2>1, <2>2 DEF Lone, Diverged, Propagates, WriterOwes
<1>5. CASE StoreRow(p)
  <2>1. /\ pc[p] = "store" /\ pc'[p] = "push" /\ cur[p].key \in Keys
        /\ vault'[f][k] = IF f \notin ReadOnly /\ cur[p].key = k THEN cur[p].row ELSE vault[f][k]
        /\ UNCHANGED <<table, changes, remote, loaded, wr, batch, cur, ghosts>>
    BY <1>0, <1>5 DEF StoreRow, Goto, TypeOK, HandOK, tableVars, flowVars
  <2>2. /\ Noted(f, k)' <=> Noted(f, k)
        /\ WriterOwes(f, k)' <=> WriterOwes(f, k)
    BY <2>1 DEF Noted, WriterOwes, ghosts
  <2>3. CASE cur[p].key = k
    BY <2>1, <2>2, <2>3 DEF Lone, Diverged, Propagates, Carries, ghosts
  <2>4. CASE cur[p].key # k
    BY <2>1, <2>2, <2>4 DEF Lone, Diverged, Propagates, Carries, ghosts
  <2> QED BY <2>3, <2>4
<1>6. CASE PushRow(p) \/ PushFails(p) \/ NoPush(p)
  <2>1. /\ pc[p] = "push" /\ pc'[p] = "entry"
        /\ UNCHANGED <<table, changes, vault, loaded, wr, batch, excused>>
    BY <1>0, <1>6 DEF PushRow, PushFails, NoPush, EntryDone, Goto, TypeOK, tableVars, storeVars,
      flowVars, ghosts
  <2>2. /\ Noted(f, k)' <=> Noted(f, k)
        /\ WriterOwes(f, k)' <=> WriterOwes(f, k)
        /\ Diverged(f, k)' <=> Diverged(f, k)
        /\ Carries(p, k)' <=> Carries(p, k)
    BY <2>1 DEF Noted, WriterOwes, Diverged, Propagates, Carries
  <2>3. f \in Pushes \ ReadOnly /\ vault[f][k] \notin {NoRow, remote'[f][k]}
          => k \in unpushed'[f]
    <3>1. CASE PushRow(p)
      BY <1>0, <2>1, <3>1 DEF PushRow, TypeOK, HandOK, Lone
    <3>2. CASE PushFails(p)
      BY <1>0, <2>1, <3>2 DEF PushFails, TypeOK, Lone, storeVars
    <3>3. CASE NoPush(p)
      BY <3>3 DEF NoPush
    <3> QED BY <1>6, <3>1, <3>2, <3>3
  <2> QED BY <2>1, <2>2, <2>3 DEF Lone
<1>7. CASE PushDelete(p)
  <2>1. remote'[f][k] = remote[f][k]
    BY <1>0, <1>7, Distinct DEF PushDelete, TypeOK, ChangedId
  <2>2. /\ pc[p] = "delete" /\ pc'[p] = "softdelete"
        /\ UNCHANGED <<table, changes, vault, loaded, wr, batch, cur, ghosts>>
    BY <1>0, <1>7 DEF PushDelete, Goto, TypeOK, tableVars, flowVars
  <2> QED BY <2>1, <2>2 DEF Lone, Noted, WriterOwes, Diverged, Propagates, Carries, ghosts
<1>8. CASE SoftDelete(p)
  <2>1. /\ pc[p] = "softdelete" /\ pc'[p] = "entry" /\ cur[p].row = NoRow
        /\ vault'[f][k] = IF f \notin ReadOnly /\ cur[p].key = k THEN NoRow ELSE vault[f][k]
        /\ UNCHANGED <<table, changes, remote, loaded, wr, batch, ghosts>>
    BY <1>0, <1>8 DEF SoftDelete, EntryDone, Goto, TypeOK, HandOK, tableVars, flowVars
  <2>2. /\ Noted(f, k)' <=> Noted(f, k)
        /\ WriterOwes(f, k)' <=> WriterOwes(f, k)
    BY <2>1 DEF Noted, WriterOwes, ghosts
  <2>3. CASE cur[p].key = k
    BY <2>1, <2>2, <2>3 DEF Lone, Diverged, Propagates, Carries, ghosts
  <2>4. CASE cur[p].key # k
    BY <2>1, <2>2, <2>4 DEF Lone, Diverged, Propagates, Carries, ghosts
  <2> QED BY <2>3, <2>4
<1> QED
  BY <1>1, <1>2, <1>3, <1>4, <1>5, <1>6, <1>7, <1>8
  DEF Persist, PathFails, NoTenant, SoftDeleteFails

LEMMA OwnCounter ==
  ASSUME TypeOK, NEW p \in Cycles, CycleNext(p), ~Restarted
  PROVE  /\ \A q \in Cycles : q # p => pc'[q] = pc[q]
         /\ Busy(p) \/ SyncTableCycle(p)
<1> USE DEF TypeOK, Goto, EntryDone, Busy
<1>1. CASE SyncTableCycle(p) \/ Load(p) \/ Select(p) \/ Remove(p)
  BY <1>1 DEF SyncTableCycle, Load, ReadVault, InsertRows, Select, Notified, Done, Kicked,
    Remove, Acquire, Scan, Drain, Drained, RemoveFails, Removing
<1>2. CASE Persist(p)
  BY <1>2 DEF Persist, ReadEntry, ReadFails, PathFails, NoTenant, StoreRow, SeedPanics, PushRow,
    PushFails, NoPush, PushDelete, SoftDelete, SoftDeleteFails, Finish, Clear
<1> QED BY <1>1, <1>2 DEF CycleNext, Shutdown

LEMMA RowByCycle ==
  ASSUME ~Overlap, Shape, OneCycle, RowsAgree, NEW p \in Cycles, CycleNext(p), ~Restarted,
         NEW f \in Flows, NEW k \in Keys
  PROVE  RowAgrees(f, k)'
<1>0. RowAgrees(f, k) /\ TypeOK /\ BatchOK
  BY DEF RowsAgree, Shape
<1>1. CASE f = p[1]
  <2>1. \A q \in CyclesOf(f) : q = p \/ (~Busy(q) /\ batch[q] = {})
    <3>1. CASE Busy(p)
      BY <1>1, <3>1, AloneInFlow
    <3>2. CASE SyncTableCycle(p)
      <4>1. \A q \in CyclesOf(f) : ~Busy(q)
        BY <1>1, <3>2 DEF SyncTableCycle, Busy
      <4> QED BY <1>0, <4>1 DEF BatchOK, Busy, InHand, CyclesOf
    <3> QED BY <1>0, <3>1, <3>2, OwnCounter
  <2>2. \A q \in CyclesOf(f) : q = p \/ ~Busy(q)'
    BY <1>0, <2>1, OwnCounter DEF Busy, CyclesOf
  <2>3. Lone(p, k)
    BY <1>0, <1>1, <2>1, LoneBefore
  <2>4. Lone(p, k)'
    BY <2>3, LoneLoad, LoneRemove, LonePersist DEF CycleNext, Shutdown, SeedPanics
  <2> QED BY <1>1, <2>2, <2>4, LoneAfter
<1>2. CASE f # p[1]
  <2>1. /\ table'[f] = table[f] /\ vault'[f] = vault[f] /\ remote'[f] = remote[f]
        /\ loaded'[f] = loaded[f] /\ changes'[f] = changes[f] /\ excused'[f] = excused[f]
        /\ unpushed'[f] = unpushed[f] /\ wr' = wr
        /\ \A q \in CyclesOf(f) : /\ pc'[q] = pc[q] /\ cur'[q] = cur[q]
                                  /\ batch'[q] = batch[q] /\ snap'[q] = snap[q]
    BY <1>0, <1>2, OtherFlowKept
  <2>2. /\ Noted(f, k) => Noted(f, k)'
        /\ WriterOwes(f, k) => WriterOwes(f, k)'
    BY <2>1 DEF Noted, WriterOwes
  <2> QED BY <1>0, <2>1, <2>2, RowKept
<1> QED BY <1>1, <1>2

LEMMA RowByRestart ==
  ASSUME TypeOK, Restarted, NEW f \in Flows, NEW k \in Keys
  PROVE  RowAgrees(f, k)'
<1>1. /\ \A p \in CyclesOf(f) : pc'[p] = "none"
      /\ table'[f][k] = NoRow /\ ~loaded'[f]
      /\ vault' = vault /\ remote' = remote
      /\ unpushed'[f] = {j \in Keys : vault[f][j] # remote[f][j]}
  BY DEF Restarted, AtCycles, AtFlows, Armed, EmptyRows, storeVars, CyclesOf
<1>2. ~Diverged(f, k)'
  BY <1>1 DEF Diverged
<1> QED BY <1>1, <1>2 DEF RowAgrees, CyclesOf

LEMMA RowByFlow ==
  ASSUME TypeOK, RowsAgree, NEW g \in Flows, FlowNext(g), NEW f \in Flows, NEW k \in Keys
  PROVE  RowAgrees(f, k)'
<1>0. RowAgrees(f, k)
  BY DEF RowsAgree
<1>1. CASE Cancel(g)
  BY <1>0, <1>1, RowKept
  DEF Cancel, tableVars, storeVars, cycleVars, ghosts, Noted, WriterOwes
<1>2. CASE Truncate(g) /\ f # g
  BY <1>0, <1>2, RowKept
  DEF Truncate, TypeOK, storeVars, flowVars, cycleVars, ghosts, Noted, WriterOwes
<1>3. CASE Truncate(g) /\ f = g
  <2>1. /\ table'[f][k] = NoRow /\ ~Propagates(f)
        /\ UNCHANGED <<changes, vault, remote, pc, cur, batch, snap, wr, ghosts>>
    BY <1>3 DEF Truncate, Propagates, storeVars, cycleVars, TypeOK
  <2>2. ~Diverged(f, k)'
    BY <2>1 DEF Diverged, Propagates
  <2> QED BY <1>0, <2>1, <2>2 DEF RowAgrees, Noted, CyclesOf, Propagates, ghosts
<1> QED BY <1>1, <1>2, <1>3 DEF FlowNext

LEMMA RowByWriter ==
  ASSUME TypeOK, RowsAgree, NEW w \in Writers, WriterNext(w), NEW f \in Flows, NEW k \in Keys
  PROVE  RowAgrees(f, k)'
<1>0. /\ RowAgrees(f, k)
      /\ changes \in [Flows -> SUBSET Ids] /\ excused \in [Flows -> SUBSET Keys]
      /\ table \in [Flows -> [Keys -> Rows]]
      /\ wr \in [Writers -> {Idle} \cup [at : {"record", "notify"}, flow : Flows, key : Keys]]
  BY DEF RowsAgree, TypeOK
\* A row that is known to have changed needs no more than its copies of vault.
<1>1. ASSUME Noted(f, k)' \/ WriterOwes(f, k)', Noted(f, k) => Noted(f, k)',
             UNCHANGED <<vault, remote, pc, cur, snap, unpushed>>
      PROVE  RowAgrees(f, k)'
  <2>1. Accounted(f, k)' \/ k \in excused'[f]
    BY <1>1 DEF Noted, Accounted
  <2> QED BY <1>0, <1>1, <2>1 DEF RowAgrees, CyclesOf, Propagates
<1>2. ASSUME NEW g \in Flows, NEW j \in Keys, NEW r \in Rows, CallDBQuery(w, g, j, r)
      PROVE  RowAgrees(f, k)'
  <2>1. /\ wr[w] = Idle
        /\ table' = [table EXCEPT ![g][j] = r]
        /\ wr' = [wr EXCEPT ![w] = [at |-> "record", flow |-> g, key |-> j]]
        /\ UNCHANGED <<vault, remote, loaded, pc, cur, batch, snap, ghosts>>
        /\ changes' = changes \/ changes' = [changes EXCEPT ![g] = @ \cup {j}]
    BY <1>2 DEF CallDBQuery, PutRow, storeVars, flowVars, cycleVars
  <2>2. Noted(f, k) => Noted(f, k)'
    BY <1>0, <2>1 DEF Noted, ghosts
  <2>3. CASE f = g /\ k = j
    <3>1. WriterOwes(f, k)'
      BY <1>0, <2>1, <2>3 DEF WriterOwes
    <3> QED BY <1>1, <2>1, <2>2, <3>1 DEF ghosts
  <2>4. CASE ~(f = g /\ k = j)
    <3>1. table'[f][k] = table[f][k]
      BY <1>0, <2>1, <2>4
    <3>2. WriterOwes(f, k) => WriterOwes(f, k)'
      BY <1>0, <2>1 DEF WriterOwes, Idle
    <3> QED BY <1>0, <2>1, <2>2, <3>1, <3>2, RowKept DEF ghosts
  <2> QED BY <2>3, <2>4
<1>3. ASSUME NEW g \in Flows, NEW j \in Keys, NEW r \in Rows, SqlStatement(w, g, j, r)
      PROVE  RowAgrees(f, k)'
  <2>1. /\ wr[w] = Idle
        /\ table' = [table EXCEPT ![g][j] = r]
        /\ wr' = [wr EXCEPT ![w] = [at |-> "notify", flow |-> g, key |-> j]]
        /\ UNCHANGED <<vault, remote, loaded, pc, cur, batch, snap, unpushed>>
        /\ \/ /\ changes' = [changes EXCEPT ![g] = @ \cup {j}]
              /\ excused' = [excused EXCEPT ![g] = @ \ {j}]
           \/ /\ changes' = changes
              /\ excused' = [excused EXCEPT ![g] = @ \cup {j}]
    BY <1>3 DEF SqlStatement, PutRow, Excuse, Drop, TakeUp, storeVars, flowVars, cycleVars
  <2>2. Noted(f, k) => Noted(f, k)'
    BY <1>0, <2>1 DEF Noted
  <2>3. CASE f = g /\ k = j
    <3>1. Noted(f, k)'
      BY <1>0, <2>1, <2>3 DEF Noted
    <3> QED BY <1>1, <2>1, <2>2, <3>1
  <2>4. CASE ~(f = g /\ k = j)
    <3>1. table'[f][k] = table[f][k]
      BY <1>0, <2>1, <2>4
    <3>2. WriterOwes(f, k) => WriterOwes(f, k)'
      BY <1>0, <2>1 DEF WriterOwes, Idle
    <3> QED BY <1>0, <2>1, <2>2, <3>1, <3>2, RowKept
  <2> QED BY <2>3, <2>4
<1>4. CASE RecordChange(w)
  <2> DEFINE g == wr[w].flow
             j == wr[w].key
  <2>1. /\ g \in Flows /\ j \in Keys
        /\ wr' = [wr EXCEPT ![w].at = "notify"]
        /\ UNCHANGED <<table, vault, remote, loaded, pc, cur, batch, snap, unpushed>>
        /\ \/ /\ changes' = [changes EXCEPT ![g] = @ \cup {j}]
              /\ excused' = [excused EXCEPT ![g] = @ \ {j}]
           \/ /\ changes' = changes
              /\ excused' = [excused EXCEPT ![g] = @ \cup {j}]
    BY <1>0, <1>4 DEF RecordChange, Excuse, TakeUp, storeVars, flowVars, cycleVars, Idle
  <2>2. Noted(f, k) => Noted(f, k)'
    <3> HIDE DEF g, j
    <3>1. CASE changes' = [changes EXCEPT ![g] = @ \cup {j}]
      BY <1>0, <2>1, <3>1 DEF Noted
    <3>2. CASE changes' = changes /\ excused' = [excused EXCEPT ![g] = @ \cup {j}]
      BY <1>0, <2>1, <3>2 DEF Noted
    <3> QED BY <2>1, <3>1, <3>2
  <2>3. f = g /\ k = j => Noted(f, k)'
    <3> HIDE DEF g, j
    <3>1. CASE changes' = [changes EXCEPT ![g] = @ \cup {j}]
      BY <1>0, <2>1, <3>1 DEF Noted
    <3>2. CASE excused' = [excused EXCEPT ![g] = @ \cup {j}]
      BY <1>0, <2>1, <3>2 DEF Noted
    <3> QED BY <2>1, <3>1, <3>2
  <2>4. WriterOwes(f, k) => WriterOwes(f, k)' \/ Noted(f, k)'
    <3> SUFFICES ASSUME NEW x \in Writers, wr[x] = [at |-> "record", flow |-> f, key |-> k]
                 PROVE  WriterOwes(f, k)' \/ Noted(f, k)'
      BY DEF WriterOwes
    <3>1. CASE x = w
      <4>1. f = g /\ k = j
        BY <3>1
      <4> QED BY <2>3, <4>1
    <3>2. CASE x # w
      BY <1>0, <2>1, <3>2 DEF WriterOwes
    <3> QED BY <3>1, <3>2
  <2> QED BY <1>0, <2>1, <2>2, <2>4, RowKept
<1>5. CASE Notify(w)
  <2>1. WriterOwes(f, k) => WriterOwes(f, k)'
    BY <1>0, <1>5 DEF WriterOwes, Notify
  <2> QED BY <1>0, <1>5, <2>1, RowKept
          DEF Notify, Noted, storeVars, flowVars, cycleVars, ghosts
<1> QED BY <1>2, <1>3, <1>4, <1>5 DEF WriterNext

LEMMA RowsAgreeNext ==
  ASSUME ~Overlap, Shape, OneCycle, RowsAgree, [Next]_vars
  PROVE  RowsAgree'
<1> SUFFICES ASSUME NEW f \in Flows, NEW k \in Keys PROVE RowAgrees(f, k)'
  BY DEF RowsAgree
<1>0. TypeOK /\ RowAgrees(f, k)
  BY DEF Shape, RowsAgree
<1>1. ASSUME NEW p \in Cycles, CycleNext(p), ~Restarted PROVE RowAgrees(f, k)'
  BY <1>1, RowByCycle
<1>2. CASE Restarted
  BY <1>0, <1>2, RowByRestart
<1>3. ASSUME NEW g \in Flows, FlowNext(g) PROVE RowAgrees(f, k)'
  BY <1>0, <1>3, RowByFlow
<1>4. ASSUME NEW w \in Writers, WriterNext(w) PROVE RowAgrees(f, k)'
  BY <1>0, <1>4, RowByWriter
<1>5. CASE TriggerAllChangeChannel \/ UNCHANGED vars
  BY <1>0, <1>5, RowKept
  DEF TriggerAllChangeChannel, vars, tableVars, storeVars, flowVars, cycleVars, ghosts, Noted,
      WriterOwes
<1> QED BY <1>1, <1>2, <1>3, <1>4, <1>5 DEF Next

LEMMA RowsAgreeInit == Init => OneCycle /\ RowsAgree
<1> SUFFICES ASSUME Init PROVE OneCycle /\ RowsAgree
  OBVIOUS
<1>1. OneCycle
  BY DEF Init, OneCycle, Busy, AtCycles
<1>2. ASSUME NEW f \in Flows, NEW k \in Keys PROVE RowAgrees(f, k)
  <2>1. /\ \A p \in CyclesOf(f) : pc[p] = "none"
        /\ table[f][k] = NoRow /\ ~loaded[f] /\ remote = vault
    BY DEF Init, AtCycles, AtFlows, Armed, EmptyRows, CyclesOf
  <2>2. ~Diverged(f, k)
    BY <2>1 DEF Diverged
  <2> QED BY <2>1, <2>2 DEF RowAgrees
<1> QED BY <1>1, <1>2 DEF RowsAgree

(* The inductive invariant of flows whose cycles do not overlap. *)
Agreement == Shape /\ OneCycle /\ RowsAgree

LEMMA AgreementAlways == ASSUME ~Overlap PROVE Spec => []Agreement
<1>1. Init => Agreement
  BY ShapeInit, RowsAgreeInit DEF Agreement
<1>2. Agreement /\ [Next]_vars => Agreement'
  BY ShapeNext, OneCycleNext, RowsAgreeNext DEF Agreement, Shape
<1> QED BY <1>1, <1>2, PTL DEF Spec

(* What a cycle copies of a row agrees with the row, or the row is known to     *)
(* have changed since: the snapshot of a load, the entry in hand, the push.     *)
THEOREM CopiesAgreeAlways == ASSUME ~Overlap PROVE Spec => []CopiesAgree
<1>1. Agreement => CopiesAgree
  BY RowsAgreeMeans DEF Agreement, CopiesAgree
<1> QED BY <1>1, AgreementAlways, PTL

(* A change of a row is lost at known places only (the write-behind loop's      *)
(* promise): with an error in the log, or for want of a tenant or of a trigger, *)
(* for any set of flows, rows, writers and failing calls, as long as the cycles *)
(* of a flow do not overlap.                                                    *)
THEOREM NoChangeLost == ASSUME ~Overlap PROVE Spec => []LossIsNamed
<1>1. Agreement => LossIsNamed
  BY RowsAgreeMeans DEF Agreement
<1> QED BY <1>1, AgreementAlways, PTL

\* Nothing was given up in silence.
NoDrops == \A f \in Flows : dropped[f] = {}

LEMMA NoDropsNext ==
  ASSUME "tenant" \notin Errors, FALSE \notin TriggerOutcomes, Shape, NoDrops, [Next]_vars
  PROVE  NoDrops'
<1>0. /\ TypeOK /\ LoadOK /\ dropped \in [Flows -> SUBSET Keys]
      /\ wr \in [Writers -> {Idle} \cup [at : {"record", "notify"}, flow : Flows, key : Keys]]
  BY DEF Shape, TypeOK
<1>1. CASE UNCHANGED dropped
  BY <1>1 DEF NoDrops
<1>2. ASSUME NEW p \in Cycles, CycleNext(p), ~Restarted PROVE UNCHANGED dropped
  <2>1. CASE SyncTableCycle(p) \/ Load(p) \/ Select(p) \/ Remove(p)
    BY <2>1 DEF SyncTableCycle, Load, ReadVault, InsertRows, Select, Notified, Done, Kicked, Remove,
      Acquire, Scan, Drain, Drained, RemoveFails, ghosts
  <2>2. CASE Persist(p)
    BY <1>2, <2>2 DEF Persist, ReadEntry, ReadFails, PathFails, NoTenant, StoreRow, SeedPanics,
      PushRow, PushFails, NoPush, PushDelete, SoftDelete, SoftDeleteFails, Finish, Clear, ghosts
  <2> QED BY <1>2, <2>1, <2>2 DEF CycleNext, Shutdown
<1>3. CASE Restarted
  BY <1>3 DEF Restarted, AtFlows, NoDrops
<1>4. ASSUME NEW f \in Flows, FlowNext(f) PROVE UNCHANGED dropped
  BY <1>4 DEF FlowNext, Cancel, Truncate, ghosts
\* A session is let in when no load runs, and then the triggers are there.
<1>5. ASSUME NEW w \in Writers, NEW f \in Flows, NEW k \in Keys, NEW r \in Rows,
             SqlStatement(w, f, k, r)
      PROVE  TakeUp(f, k)
  <2>1. triggers[f] = TRUE
    <3>1. \A p \in CyclesOf(f) : pc[p] \notin {"load", "insert"}
      BY <1>5 DEF SqlStatement, Permitted
    <3> QED BY <1>0, <3>1 DEF LoadOK, TypeOK, CyclesOf
  <2>2. \A fired \in Fires(f) : fired = TRUE
    BY <2>1, FlowAssumption DEF Fires
  <2> QED BY <1>5, <2>2 DEF SqlStatement
<1>6. ASSUME NEW f \in Flows, NEW k \in Keys, TakeUp(f, k) PROVE NoDrops'
  BY <1>0, <1>6 DEF TakeUp, NoDrops
<1>7. ASSUME NEW w \in Writers, WriterNext(w) PROVE NoDrops'
  <2>1. CASE RecordChange(w)
    <3>1. wr[w].flow \in Flows /\ wr[w].key \in Keys
      BY <1>0, <2>1 DEF RecordChange, Idle
    <3>2. UNCHANGED dropped \/ TakeUp(wr[w].flow, wr[w].key)
      BY <2>1 DEF RecordChange
    <3> QED BY <1>1, <1>6, <3>1, <3>2
  <2>2. ASSUME NEW f \in Flows, NEW k \in Keys, NEW r \in Rows, CallDBQuery(w, f, k, r)
        PROVE  UNCHANGED dropped
    BY <2>2 DEF CallDBQuery, ghosts
  <2>3. CASE Notify(w)
    BY <1>1, <2>3 DEF Notify, ghosts
  <2> QED BY <1>1, <1>5, <1>6, <1>7, <2>1, <2>2, <2>3 DEF WriterNext
<1>8. CASE TriggerAllChangeChannel \/ UNCHANGED vars
  BY <1>1, <1>8 DEF TriggerAllChangeChannel, vars, ghosts
<1> QED BY <1>1, <1>2, <1>3, <1>4, <1>7, <1>8 DEF Next

(* Where every row's path has a tenant and every installed trigger fires, every *)
(* change that is lost left an error in the log: the two silences are the only  *)
(* ones, for sessions reach a table only while its triggers are installed.      *)
THEOREM LossIsLogged ==
  ASSUME ~Overlap, "tenant" \notin Errors, FALSE \notin TriggerOutcomes
  PROVE  Spec => []NoSilentLoss
<1>1. Init => NoDrops
  BY DEF Init, NoDrops, AtFlows
<1>2. Shape /\ NoDrops /\ [Next]_vars => NoDrops'
  BY NoDropsNext
<1>3. LossIsNamed /\ NoDrops => NoSilentLoss
  BY DEF LossIsNamed, NoDrops, NoSilentLoss
<1> QED BY <1>1, <1>2, <1>3, ShapeCorrect, NoChangeLost, PTL DEF Spec

(* What vault holds and the remote data source has not got is on its way to it, *)
(* or its push is known to have failed, under the same condition.               *)
THEOREM RemoteNeverLags == ASSUME ~Overlap PROVE Spec => []RemoteFollowsVault
<1>1. Agreement => RemoteFollowsVault
  BY RowsAgreeMeans DEF Agreement
<1> QED BY <1>1, AgreementAlways, PTL

-----------------------------------------------------------------------------
(* The sync cycle implements WriteBehind, step by step. *)

\* The abstract debts of a flow, and of all flows.
OwedBy(f) == {k \in Keys : Accounted(f, k)}
Owed      == [f \in Flows |-> OwedBy(f)]

\* What is owed of a row in a flow whose only cycle is p.
Owes(p, k) == k \in changes[p[1]] \/ WriterOwes(p[1], k) \/ Carries(p, k)

(* The abstract module's words for what this one says of a row. *)
LEMMA SameWords ==
  /\ WB!vars = <<table, vault, loaded, Owed, excused, dropped>>
  /\ WB!Rows = Rows
  /\ \A f \in Flows, k \in Keys :
       /\ WB!Lags(f, k) <=> Diverged(f, k)
       /\ WB!Known(f, k) <=> Accounted(f, k) \/ k \in excused[f]
BY DEF WB!vars, WB!Rows, Rows, WB!Lags, WB!Known, Diverged, Owed, OwedBy

(* The same words, after a step. *)
LEMMA SameWordsNext ==
  /\ WB!vars' = <<table', vault', loaded', Owed', excused', dropped'>>
  /\ \A f \in Flows, k \in Keys :
       /\ WB!Lags(f, k)' <=> Diverged(f, k)'
       /\ WB!Known(f, k)' <=> Accounted(f, k)' \/ k \in excused'[f]
BY DEF WB!vars, WB!Lags, WB!Known, Diverged, Propagates, Owed, OwedBy

(* A step that leaves the abstract variables and every debt alone is a stutter. *)
LEMMA Stutters ==
  ASSUME UNCHANGED <<table, vault, loaded, excused, dropped>>,
         \A f \in Flows, k \in Keys : Accounted(f, k)' <=> Accounted(f, k)
  PROVE  UNCHANGED WB!vars
<1>1. Owed' = Owed
  BY DEF Owed, OwedBy
<1> QED BY <1>1, SameWords, SameWordsNext

(* A step of one flow changes that flow's debts alone. *)
LEMMA OwedElsewhere ==
  ASSUME NEW f \in Flows,
         \A g \in Flows, k \in Keys : g # f => (Accounted(g, k)' <=> Accounted(g, k))
  PROVE  Owed' = [Owed EXCEPT ![f] = OwedBy(f)']
BY DEF Owed, OwedBy

(* What a cycle's step does to the debts, where it is the flow's only cycle. *)
LEMMA OwedByCycle ==
  ASSUME ~Overlap, Shape, OneCycle, Shape', NEW p \in Cycles, CycleNext(p), ~Restarted
  PROVE  /\ wr' = wr
         /\ \A k \in Keys : Accounted(p[1], k) <=> Owes(p, k)
         /\ \A k \in Keys : Accounted(p[1], k)' <=> Owes(p, k)'
         /\ \A g \in Flows, k \in Keys : g # p[1] => (Accounted(g, k)' <=> Accounted(g, k))
         /\ Owed' = [Owed EXCEPT ![p[1]] = OwedBy(p[1])']
<1> DEFINE f == p[1]
<1>0. /\ TypeOK /\ BatchOK /\ BatchOK' /\ f \in Flows /\ p \in CyclesOf(f)
  BY CycleParts DEF Shape, CyclesOf
<1>1. \A q \in CyclesOf(f) : q = p \/ (~Busy(q) /\ batch[q] = {})
  <2>1. CASE Busy(p)
    BY <2>1, AloneInFlow
  <2>2. CASE SyncTableCycle(p)
    <3>1. \A q \in CyclesOf(f) : ~Busy(q)
      BY <2>2 DEF SyncTableCycle, Busy
    <3> QED BY <1>0, <3>1 DEF BatchOK, Busy, InHand, CyclesOf
  <2> QED BY <1>0, <2>1, <2>2, OwnCounter
<1>2. \A q \in CyclesOf(f) : q = p \/ (~Busy(q)' /\ batch'[q] = {})
  <2>1. \A q \in CyclesOf(f) : q = p \/ ~Busy(q)'
    BY <1>0, <1>1, OwnCounter DEF Busy, CyclesOf
  <2> QED BY <1>0, <2>1 DEF BatchOK, Busy, InHand, CyclesOf
<1>3. \A k \in Keys : Accounted(f, k) <=> Owes(p, k)
  <2>1. \A k \in Keys, q \in CyclesOf(f) : Carries(q, k) => q = p
    BY <1>1 DEF Carries, Busy
  <2> QED BY <1>0, <2>1 DEF Accounted, Owes
<1>4. \A k \in Keys : Accounted(f, k)' <=> Owes(p, k)'
  <2>1. \A k \in Keys, q \in CyclesOf(f) : Carries(q, k)' => q = p
    BY <1>2 DEF Carries, Busy
  <2> QED BY <1>0, <2>1 DEF Accounted, Owes, CyclesOf
<1>5. wr' = wr
  BY DEF CycleNext, SyncTableCycle, Load, ReadVault, InsertRows, Select, Notified, Done, Kicked,
    Shutdown, Remove, Acquire, Scan, Drain, Drained, RemoveFails, Persist, ReadEntry, ReadFails,
    PathFails, NoTenant, StoreRow, SeedPanics, PushRow, PushFails, NoPush, PushDelete,
    SoftDelete, SoftDeleteFails, Finish, Clear
<1>6. ASSUME NEW g \in Flows, NEW k \in Keys, g # f
      PROVE  Accounted(g, k)' <=> Accounted(g, k)
  <2>1. /\ table'[g] = table[g] /\ changes'[g] = changes[g]
        /\ \A q \in CyclesOf(g) : pc'[q] = pc[q] /\ cur'[q] = cur[q] /\ batch'[q] = batch[q]
    BY <1>0, <1>6, OtherFlowKept
  <2>2. \A q \in CyclesOf(g) : Carries(q, k)' <=> Carries(q, k)
    BY <2>1 DEF Carries, CyclesOf
  <2>3. WriterOwes(g, k)' <=> WriterOwes(g, k)
    BY <1>5 DEF WriterOwes
  <2> QED BY <2>1, <2>2, <2>3 DEF Accounted, CyclesOf
<1> QED BY <1>0, <1>3, <1>4, <1>5, <1>6, OwedElsewhere

\* A step of cycle p, the only one of its flow, from a state of the invariant to
\* another.
Step(p) == ~Overlap /\ Agreement /\ Agreement' /\ CycleNext(p) /\ ~Restarted

LEMMA SilentStep ==
  ASSUME NEW p \in Cycles, Step(p), UNCHANGED <<table, vault, loaded, excused, dropped>>,
         \A k \in Keys : Owes(p, k)' <=> Owes(p, k)
  PROVE  UNCHANGED WB!vars
<1>1. \A f \in Flows, k \in Keys : Accounted(f, k)' <=> Accounted(f, k)
  BY OwedByCycle DEF Step, Agreement
<1> QED BY <1>1, Stutters

(* A step that logs the rows ks, and owes fewer only of those. *)
LEMMA LoggedStep ==
  ASSUME NEW p \in Cycles, Step(p), NEW ks \in SUBSET Keys,
         UNCHANGED <<table, vault, loaded, dropped>>,
         excused' = [excused EXCEPT ![p[1]] = @ \cup ks],
         \A k \in Keys : Owes(p, k)' => Owes(p, k),
         \A k \in Keys : Owes(p, k) => Owes(p, k)' \/ k \in ks
  PROVE  WB!Next
<1> DEFINE f == p[1]
           os == OwedBy(f)'
<1>0. f \in Flows
  BY CycleParts
<1>1. Owed' = [Owed EXCEPT ![f] = os] /\ Owed[f] = OwedBy(f)
  BY <1>0, OwedByCycle DEF Step, Agreement, Owed
<1>2. os \in SUBSET Owed[f] /\ Owed[f] \ os \subseteq ks
  BY <1>1, OwedByCycle DEF Step, Agreement, OwedBy
<1>3. WB!GiveUp(f)
  <2> HIDE DEF os
  <2> QED BY <1>1, <1>2 DEF WB!GiveUp, Owed, OwedBy
<1> QED BY <1>0, <1>3 DEF WB!Next

(* A step that writes the row k of vault, and owes fewer only of that. *)
LEMMA StoringStep ==
  ASSUME NEW p \in Cycles, Step(p), NEW k \in Keys, NEW r \in Rows,
         vault' = [vault EXCEPT ![p[1]][k] = r], UNCHANGED <<table, loaded, excused, dropped>>,
         \A j \in Keys : Owes(p, j)' => Owes(p, j),
         \A j \in Keys : Owes(p, j) => Owes(p, j)' \/ j = k
  PROVE  WB!Next
<1> DEFINE f == p[1]
           os == OwedBy(f)'
<1>0. f \in Flows
  BY CycleParts
<1>1. Owed' = [Owed EXCEPT ![f] = os] /\ Owed[f] = OwedBy(f)
  BY <1>0, OwedByCycle DEF Step, Agreement, Owed
<1>2. os \in {Owed[f], Owed[f] \ {k}}
  <2>1. os = {j \in Keys : Owes(p, j)'} /\ Owed[f] = {j \in Keys : Owes(p, j)}
    BY <1>1, OwedByCycle DEF Step, Agreement, OwedBy
  <2> QED BY <2>1
<1>3. (WB!Lags(f, k) => WB!Known(f, k))'
  BY <1>0, SameWordsNext DEF Step, Agreement, RowsAgree, RowAgrees
<1>4. WB!Store(f, k)
  <2> HIDE DEF os
  <2> QED BY <1>1, <1>2, <1>3, SameWords DEF WB!Store, Owed, OwedBy
<1> QED BY <1>0, <1>4 DEF WB!Next

(* A step that drops the row k in silence, and owes fewer only of that. *)
LEMMA DroppingStep ==
  ASSUME NEW p \in Cycles, Step(p), NEW k \in Keys, UNCHANGED <<table, vault, loaded>>,
         excused' = [excused EXCEPT ![p[1]] = @ \cup {k}],
         dropped' = [dropped EXCEPT ![p[1]] = @ \cup {k}],
         \A j \in Keys : Owes(p, j)' => Owes(p, j),
         \A j \in Keys : Owes(p, j) => Owes(p, j)' \/ j = k
  PROVE  WB!Next
<1> DEFINE f == p[1]
           os == OwedBy(f)'
<1>0. f \in Flows
  BY CycleParts
<1>1. Owed' = [Owed EXCEPT ![f] = os] /\ Owed[f] = OwedBy(f)
  BY <1>0, OwedByCycle DEF Step, Agreement, Owed
<1>2. os \in {Owed[f], Owed[f] \ {k}}
  <2>1. os = {j \in Keys : Owes(p, j)'} /\ Owed[f] = {j \in Keys : Owes(p, j)}
    BY <1>1, OwedByCycle DEF Step, Agreement, OwedBy
  <2> QED BY <2>1
<1>3. WB!Drop(f, k)
  <2> HIDE DEF os
  <2> QED BY <1>1, <1>2 DEF WB!Drop, Owed, OwedBy
<1> QED BY <1>0, <1>3 DEF WB!Next

LEMMA LoadImplements ==
  ASSUME NEW p \in Cycles, Step(p), SyncTableCycle(p) \/ Load(p)
  PROVE  WB!Next \/ UNCHANGED WB!vars
<1> DEFINE f == p[1]
<1>0. /\ TypeOK /\ BatchOK /\ TypeOK' /\ f \in Flows /\ p \in CyclesOf(f)
  BY CycleParts DEF Step, Agreement, Shape, CyclesOf
<1>1. CASE SyncTableCycle(p) \/ ReadVault(p)
  <2>1. /\ pc[p] \in {"none", "load"} /\ pc'[p] \in {"load", "insert"}
        /\ UNCHANGED <<table, vault, loaded, changes, wr, batch, cur>>
    BY <1>0, <1>1 DEF SyncTableCycle, ReadVault, Goto, TypeOK, tableVars, storeVars, flowVars
  <2>2. \A k \in Keys : Owes(p, k)' <=> Owes(p, k)
    BY <2>1 DEF Owes, WriterOwes, Carries
  <2>3. CASE SyncTableCycle(p)
    BY <2>1, <2>2, <2>3, SilentStep DEF SyncTableCycle, ghosts
  <2>4. CASE ReadVault(p)
    <3>1. PICK ks \in SUBSET Keys : excused' = [excused EXCEPT ![f] = @ \cup ks]
      BY <2>4 DEF ReadVault, Excuse
    <3>2. UNCHANGED dropped
      BY <2>4 DEF ReadVault
    <3> QED BY <2>1, <2>2, <3>1, <3>2, LoggedStep
  <2> QED BY <1>1, <2>3, <2>4
<1>2. CASE InsertRows(p)
  <2> DEFINE ks == {k \in Keys : table[f][k] = NoRow /\ snap[p][k] = vault[f][k]}
  <2>1. /\ pc[p] = "insert" /\ pc'[p] = "select"
        /\ table' = [table EXCEPT ![f] =
                       [k \in Keys |-> IF @[k] = NoRow THEN snap[p][k] ELSE @[k]]]
        /\ loaded' = [loaded EXCEPT ![f] = TRUE]
        /\ UNCHANGED <<vault, changes, wr, batch, cur, excused, dropped>>
    BY <1>0, <1>2 DEF InsertRows, Goto, TypeOK, storeVars, ghosts
  <2>2. \A k \in Keys : snap[p][k] = vault[f][k] \/ snap[p][k] = NoRow
    BY <1>0, <2>1 DEF Step, Agreement, RowsAgree, RowAgrees
  <2>3. table' = [table EXCEPT ![f] = [k \in Keys |-> IF k \in ks THEN vault[f][k] ELSE @[k]]]
    <3>1. [k \in Keys |-> IF table[f][k] = NoRow THEN snap[p][k] ELSE table[f][k]]
            = [k \in Keys |-> IF k \in ks THEN vault[f][k] ELSE table[f][k]]
      BY <2>2
    <3> HIDE DEF ks
    <3> QED BY <1>0, <2>1, <3>1
  <2>4. \A k \in Keys : Owes(p, k)' <=> Owes(p, k)
    BY <2>1 DEF Owes, WriterOwes, Carries
  <2>5. Owed' = Owed
    <3>1. Owed' = [Owed EXCEPT ![f] = OwedBy(f)'] /\ OwedBy(f)' = OwedBy(f)
      BY <2>4, OwedByCycle DEF Step, Agreement, OwedBy
    <3> QED BY <1>0, <3>1 DEF Owed
  <2>6. \A k \in Keys : (WB!Lags(f, k) => WB!Known(f, k))'
    BY <1>0, SameWordsNext DEF Step, Agreement, RowsAgree, RowAgrees
  <2>7. ks \in SUBSET {k \in Keys : table[f][k] = NoRow}
    OBVIOUS
  <2>8. WB!Load(f)
    <3> HIDE DEF ks
    <3> QED BY <2>1, <2>3, <2>5, <2>6, <2>7 DEF WB!Load, Owed, OwedBy
  <2> QED BY <1>0, <2>8 DEF WB!Next
<1> QED BY <1>1, <1>2 DEF Load

LEMMA RemoveImplements ==
  ASSUME NEW p \in Cycles, Step(p), Select(p) \/ Remove(p)
  PROVE  WB!Next \/ UNCHANGED WB!vars
<1> DEFINE f == p[1]
<1>0. /\ TypeOK /\ BatchOK /\ f \in Flows
  BY CycleParts DEF Step, Agreement, Shape
<1>1. CASE Select(p) \/ Acquire(p) \/ Drained(p)
  <2>1. /\ pc[p] \notin Holding /\ pc'[p] \notin Holding
        /\ UNCHANGED <<table, vault, loaded, changes, wr, batch, excused, dropped>>
    BY <1>0, <1>1 DEF Select, Notified, Done, Kicked, Acquire, Drained, Goto, TypeOK, Holding,
      tableVars, storeVars, flowVars, ghosts
  <2>2. \A k \in Keys : Owes(p, k)' <=> Owes(p, k)
    BY <2>1 DEF Owes, WriterOwes, Carries, Holding
  <2> QED BY <2>1, <2>2, SilentStep
<1>2. CASE Scan(p)
  <2>1. /\ pc[p] = "scan" /\ pc'[p] = "drain" /\ batch[p] = {} /\ batch'[p] = changes[f]
        /\ UNCHANGED <<table, vault, loaded, changes, wr, excused, dropped>>
    BY <1>0, <1>2 DEF Scan, Goto, TypeOK, BatchOK, InHand, tableVars, storeVars, flowVars, ghosts
  <2>2. \A k \in Keys : Owes(p, k)' <=> Owes(p, k)
    BY <2>1 DEF Owes, WriterOwes, Carries
  <2> QED BY <2>1, <2>2, SilentStep
<1>3. CASE Drain(p)
  <2>1. /\ pc[p] = "drain" /\ pc'[p] = "drain" /\ undrained[p] \subseteq batch[p]
        /\ \E k \in undrained[p] : changes'[f] = changes[f] \ {k}
        /\ UNCHANGED <<table, vault, loaded, wr, batch, excused, dropped>>
    BY <1>0, <1>3 DEF Drain, TypeOK, BatchOK, storeVars, flowVars, ghosts
  <2>2. \A k \in Keys : Owes(p, k)' <=> Owes(p, k)
    BY <2>1 DEF Owes, WriterOwes, Carries
  <2> QED BY <2>1, <2>2, SilentStep
<1>4. CASE RemoveFails(p)
  <2>1. /\ pc[p] \in Removing /\ pc'[p] \in {"clear", "gone"} /\ batch'[p] = {}
        /\ excused' = [excused EXCEPT ![f] = @ \cup (Keys \cap (batch[p] \ changes[f]))]
        /\ UNCHANGED <<table, vault, loaded, changes, wr, dropped>>
    BY <1>0, <1>4 DEF RemoveFails, Goto, AfterPersist, Excuse, TypeOK, tableVars, storeVars,
      flowVars
  <2>2. \A k \in Keys : /\ Owes(p, k)' => Owes(p, k)
                        /\ Owes(p, k) => Owes(p, k)' \/ k \in Keys \cap (batch[p] \ changes[f])
    BY <2>1 DEF Owes, WriterOwes, Carries, Removing
  <2> QED BY <2>1, <2>2, LoggedStep
<1> QED BY <1>1, <1>2, <1>3, <1>4 DEF Remove

LEMMA PersistImplements ==
  ASSUME NEW p \in Cycles, Step(p), Persist(p)
  PROVE  WB!Next \/ UNCHANGED WB!vars
<1> DEFINE f == p[1]
           j == cur[p].key
<1>0. /\ TypeOK /\ BatchOK /\ HandOK /\ f \in Flows
  BY CycleParts DEF Step, Agreement, Shape
<1>1. CASE Finish(p) \/ Clear(p)
  <2>1. /\ pc[p] \notin Holding /\ pc'[p] \notin Holding
        /\ UNCHANGED <<table, vault, loaded, changes, wr, batch, excused, dropped>>
    BY <1>0, <1>1 DEF Finish, Clear, AfterPersist, Goto, TypeOK, Holding, tableVars, storeVars,
      flowVars, ghosts
  <2>2. \A k \in Keys : Owes(p, k)' <=> Owes(p, k)
    BY <2>1 DEF Owes, WriterOwes, Carries, Holding
  <2> QED BY <2>1, <2>2, SilentStep
\* What is not pushed, and what is not told the remote, was owed to vault before.
<1>2. CASE PushRow(p) \/ PushFails(p) \/ NoPush(p) \/ PushDelete(p)
  <2>1. /\ UNCHANGED <<table, vault, loaded, changes, wr, batch, excused, dropped>>
        /\ \/ pc[p] = "push" /\ pc'[p] = "entry"
           \/ pc[p] = "delete" /\ pc'[p] = "softdelete" /\ cur'[p] = cur[p]
    BY <1>0, <1>2 DEF PushRow, PushFails, NoPush, PushDelete, EntryDone, Goto, TypeOK, tableVars,
      storeVars, flowVars, ghosts
  <2>2. \A k \in Keys : Owes(p, k)' <=> Owes(p, k)
    BY <2>1 DEF Owes, WriterOwes, Carries
  <2> QED BY <2>1, <2>2, SilentStep
<1>3. CASE ReadEntry(p)
  <2>1. PICK id \in batch[p] :
          /\ batch'[p] = batch[p] \ {id}
          /\ \/ RowOf(f, id) = NoRow /\ ~Propagates(f) /\ UNCHANGED <<cur, pc>>
             \/ /\ cur'[p] = [key |-> id, row |-> RowOf(f, id)]
                /\ pc'[p] \in {"store", "delete"}
    BY <1>0, <1>3 DEF ReadEntry, Goto, TypeOK
  <2>2. /\ pc[p] = "entry"
        /\ UNCHANGED <<table, vault, loaded, changes, wr, excused, dropped>>
    BY <1>3 DEF ReadEntry, tableVars, storeVars, flowVars, ghosts
  <2>3. \A k \in Keys : k # id => (Owes(p, k)' <=> Owes(p, k))
    BY <2>1, <2>2 DEF Owes, WriterOwes, Carries
  <2>4. \A k \in Keys : Owes(p, k)' => Owes(p, k)
    BY <2>1, <2>2, <2>3 DEF Owes, Carries
  <2>5. CASE \A k \in Keys : Owes(p, k)' <=> Owes(p, k)
    BY <2>2, <2>5, SilentStep
  <2>6. CASE \E k \in Keys : Owes(p, k) /\ ~Owes(p, k)'
    <3>1. id \in Keys /\ Owes(p, id) /\ ~Owes(p, id)'
      BY <2>3, <2>6
    <3>2. table[f][id] = NoRow /\ ~Propagates(f)
      <4>1. ~Carries(p, id)'
        BY <3>1 DEF Owes
      <4>2. RowOf(f, id) = table[f][id]
        BY <3>1 DEF RowOf
      <4> QED BY <2>1, <2>2, <4>1, <4>2 DEF Carries
    <3>3. ~WB!Lags(f, id)
      BY <1>0, <3>1, <3>2, SameWords DEF Diverged
    <3>4. Owed' = [Owed EXCEPT ![f] = @ \ {id}] /\ id \in Owed[f]
      <4>1. /\ OwedBy(f)' = {k \in Keys : Owes(p, k)'}
            /\ OwedBy(f) = {k \in Keys : Owes(p, k)}
        BY OwedByCycle DEF Step, Agreement, OwedBy
      <4>2. OwedBy(f)' = OwedBy(f) \ {id} /\ id \in OwedBy(f)
        BY <2>3, <3>1, <4>1
      <4>3. Owed' = [Owed EXCEPT ![f] = OwedBy(f)'] /\ Owed[f] = OwedBy(f)
        BY <1>0, OwedByCycle DEF Step, Agreement, Owed
      <4> QED BY <1>0, <4>2, <4>3
    <3>5. WB!Settle(f, id)
      BY <2>2, <3>3, <3>4 DEF WB!Settle, Owed, OwedBy
    <3> QED BY <1>0, <3>1, <3>5 DEF WB!Next
  <2> QED BY <2>4, <2>5, <2>6
<1>4. CASE ReadFails(p)
  <2>1. PICK id \in batch[p] :
          /\ batch'[p] = batch[p] \ {id}
          /\ excused' = [excused EXCEPT ![f] = @ \cup (Keys \cap {id})]
    BY <1>0, <1>4 DEF ReadFails, Excuse, TypeOK
  <2>2. /\ pc[p] = "entry" /\ pc'[p] = "entry"
        /\ UNCHANGED <<table, vault, loaded, changes, wr, dropped>>
    BY <1>4 DEF ReadFails, tableVars, storeVars, flowVars
  <2>3. \A k \in Keys : /\ Owes(p, k)' => Owes(p, k)
                        /\ Owes(p, k) => Owes(p, k)' \/ k \in Keys \cap {id}
    BY <2>1, <2>2 DEF Owes, WriterOwes, Carries
  <2> QED BY <2>1, <2>2, <2>3, LoggedStep
<1>5. CASE PathFails(p) \/ SoftDeleteFails(p)
  <2>1. /\ pc[p] \in {"store", "softdelete"} /\ pc'[p] = "entry"
        /\ \A k \in Keys : k \in changes'[f] <=> k \in changes[f]
        /\ excused' = [excused EXCEPT ![f] = @ \cup (Keys \cap {j})]
        /\ UNCHANGED <<table, vault, loaded, wr, batch, dropped>>
    <3>1. CASE PathFails(p)
      <4>1. j \in Keys
        BY <1>0, <3>1 DEF PathFails, HandOK
      <4>2. Keys \cap {j} = {j}
        BY <4>1
      <4> QED BY <1>0, <3>1, <4>2, Distinct
              DEF PathFails, EntryDone, Goto, Excuse, ChangedId, TypeOK, storeVars, flowVars
    <3>2. CASE SoftDeleteFails(p)
      BY <1>0, <3>2 DEF SoftDeleteFails, EntryDone, Goto, Excuse, TypeOK, tableVars, storeVars,
        flowVars
    <3> QED BY <1>5, <3>1, <3>2
  <2>2. \A k \in Keys : /\ Owes(p, k)' => Owes(p, k)
                        /\ Owes(p, k) => Owes(p, k)' \/ k \in Keys \cap {j}
    BY <2>1 DEF Owes, WriterOwes, Carries
  <2> QED BY <2>1, <2>2, LoggedStep
\* A row without tenant is passed over.
<1>8. CASE NoTenant(p)
  <2>1. /\ pc[p] = "store" /\ pc'[p] = "entry" /\ j \in Keys
        /\ excused' = [excused EXCEPT ![f] = @ \cup {j}]
        /\ dropped' = [dropped EXCEPT ![f] = @ \cup {j}]
        /\ UNCHANGED <<table, vault, loaded, changes, wr, batch>>
    BY <1>0, <1>8 DEF NoTenant, EntryDone, Goto, Excuse, Drop, TypeOK, HandOK, tableVars, storeVars,
      flowVars
  <2>2. \A k \in Keys : /\ Owes(p, k)' => Owes(p, k)
                        /\ Owes(p, k) => Owes(p, k)' \/ k = j
    BY <2>1 DEF Owes, WriterOwes, Carries
  <2> QED BY <2>1, <2>2, DroppingStep
<1>6. CASE StoreRow(p) \/ SoftDelete(p)
  <2>1. /\ pc[p] \in {"store", "softdelete"} /\ pc'[p] \in {"push", "entry"}
        /\ UNCHANGED <<table, loaded, changes, wr, batch, excused, dropped>>
    BY <1>0, <1>6 DEF StoreRow, SoftDelete, EntryDone, Goto, TypeOK, tableVars, flowVars, ghosts
  <2>2. \A k \in Keys : /\ Owes(p, k)' => Owes(p, k)
                        /\ Owes(p, k) => Owes(p, k)' \/ k = j
    BY <2>1 DEF Owes, WriterOwes, Carries
  <2>3. CASE j \in Keys
    <3>1. PICK r \in Rows : vault' = [vault EXCEPT ![f][j] = r]
      <4>1. CASE f \in ReadOnly
        <5>1. vault' = vault /\ vault[f][j] \in Rows
          BY <1>0, <1>6, <2>3, <4>1 DEF StoreRow, SoftDelete, TypeOK
        <5>2. vault = [vault EXCEPT ![f][j] = vault[f][j]]
          BY <1>0, <2>3 DEF TypeOK
        <5> QED BY <5>1, <5>2
      <4>2. CASE f \notin ReadOnly
        BY <1>0, <1>6, <2>3, <4>2 DEF StoreRow, SoftDelete, TypeOK, Rows
      <4> QED BY <4>1, <4>2
    <3> QED BY <2>1, <2>2, <2>3, <3>1, StoringStep
  <2>4. CASE j \notin Keys
    <3>1. vault' = vault
      BY <1>0, <1>6, <2>4 DEF StoreRow, SoftDelete, HandOK
    <3> QED BY <2>1, <2>2, <2>4, <3>1, SilentStep
  <2> QED BY <2>3, <2>4
<1>7. ~SeedPanics(p)
  BY DEF Step, SeedPanics
<1> QED BY <1>1, <1>2, <1>3, <1>4, <1>5, <1>6, <1>7, <1>8 DEF Persist

(* The controller's steps; a truncated table holds no row that is to be stored, *)
(* so it only loses debts.                                                      *)
LEMMA FlowImplements ==
  ASSUME Agreement, NEW g \in Flows, FlowNext(g)
  PROVE  WB!Next \/ UNCHANGED WB!vars
<1>0. TypeOK /\ HandOK
  BY DEF Agreement, Shape
<1>1. CASE Cancel(g)
  <2>1. UNCHANGED <<table, vault, loaded, excused, dropped, changes, wr, pc, cur, batch>>
    BY <1>1 DEF Cancel, tableVars, storeVars, cycleVars, ghosts
  <2>2. \A f \in Flows, k \in Keys : Accounted(f, k)' <=> Accounted(f, k)
    BY <2>1 DEF Accounted, WriterOwes, Carries, CyclesOf
  <2> QED BY <2>1, <2>2, Stutters
<1>2. CASE Truncate(g)
  <2>1. /\ table' = [table EXCEPT ![g] = [k \in Keys |-> NoRow]] /\ ~Propagates(g)
        /\ UNCHANGED <<vault, loaded, excused, dropped, changes, wr, pc, cur, batch>>
    BY <1>2 DEF Truncate, Propagates, storeVars, flowVars, cycleVars, ghosts
  <2>2. \A f \in Flows, k \in Keys : f # g => (Accounted(f, k)' <=> Accounted(f, k))
    <3> SUFFICES ASSUME NEW f \in Flows, NEW k \in Keys, f # g
                 PROVE  Accounted(f, k)' <=> Accounted(f, k)
      OBVIOUS
    <3>1. table'[f] = table[f]
      BY <1>0, <2>1 DEF TypeOK
    <3>2. ASSUME NEW p \in CyclesOf(f) PROVE Carries(p, k)' <=> Carries(p, k)
      BY <2>1, <3>1, p[1] = f DEF Carries, CyclesOf
    <3>3. WriterOwes(f, k)' <=> WriterOwes(f, k)
      BY <2>1 DEF WriterOwes
    <3>4. CyclesOf(f)' = CyclesOf(f)
      BY DEF CyclesOf
    <3> QED BY <2>1, <3>2, <3>3, <3>4 DEF Accounted
  <2>3. ASSUME NEW k \in Keys, Accounted(g, k)' PROVE Accounted(g, k)
    <3>1. \A p \in CyclesOf(g) : Carries(p, k)' => k \in batch[p]
      <4> SUFFICES ASSUME NEW p \in CyclesOf(g), Carries(p, k)', k \notin batch[p]
                   PROVE  FALSE
        OBVIOUS
      <4>1. p \in Cycles /\ p[1] = g
        BY DEF CyclesOf
      <4>2. /\ pc[p] \in {"store", "delete", "softdelete"}
            /\ cur[p] = [key |-> k, row |-> NoRow]
        BY <1>0, <2>1, <4>1 DEF Carries, TypeOK
      <4>3. pc[p] = "store"
        BY <1>0, <2>1, <4>1, <4>2 DEF HandOK
      <4>4. cur[p].row # NoRow
        BY <1>0, <4>1, <4>3 DEF HandOK
      <4> QED BY <4>2, <4>4
    <3> QED BY <2>1, <2>3, <3>1 DEF Accounted, WriterOwes, Carries, CyclesOf
  <2>4. /\ Owed' = [Owed EXCEPT ![g] = OwedBy(g)']
        /\ OwedBy(g)' \in SUBSET Owed[g]
    BY <2>2, <2>3, OwedElsewhere DEF Owed, OwedBy
  <2>5. WB!Truncate(g)
    BY <2>1, <2>4 DEF WB!Truncate, Owed, OwedBy
  <2> QED BY <2>5 DEF WB!Next
<1> QED BY <1>1, <1>2 DEF FlowNext

LEMMA RestartImplements ==
  ASSUME Restarted
  PROVE  WB!Next
<1>1. /\ table' = WB!Blank /\ loaded' = [f \in Flows |-> FALSE] /\ vault' = vault
      /\ excused' = WB!Nobody /\ dropped' = WB!Nobody
  BY DEF Restarted, WB!Blank, WB!Nobody, AtFlows, EmptyRows, storeVars
<1>2. ASSUME NEW f \in Flows, NEW k \in Keys PROVE ~Accounted(f, k)'
  <2>1. /\ changes'[f] = {} /\ wr' = [w \in Writers |-> Idle]
        /\ \A p \in CyclesOf(f) : batch'[p] = {} /\ pc'[p] = "none"
    BY DEF Restarted, AtFlows, AtCycles, CyclesOf
  <2>2. ~WriterOwes(f, k)'
    BY <2>1 DEF WriterOwes, Idle
  <2> QED BY <2>1, <2>2 DEF Accounted, Carries, CyclesOf
<1>3. Owed' = WB!Nobody
  BY <1>2 DEF Owed, OwedBy, WB!Nobody
<1>4. WB!Restart
  BY <1>1, <1>3 DEF WB!Restart, Owed, OwedBy
<1> QED BY <1>4 DEF WB!Next

(* A statement on row k of flow g: the debt of that row alone can change, and   *)
(* afterwards its change is owed or given up.                                   *)
LEMMA StatementImplements ==
  ASSUME TypeOK, NEW g \in Flows, NEW k \in Keys, NEW r \in Rows,
         table' = [table EXCEPT ![g][k] = r], UNCHANGED <<vault, loaded>>,
         UNCHANGED <<excused, dropped>> \/ Drop(g, k) \/ TakeUp(g, k),
         Accounted(g, k)' \/ k \in excused'[g],
         \A f \in Flows, j \in Keys :
           ~(f = g /\ j = k) => (Accounted(f, j)' <=> Accounted(f, j))
  PROVE  WB!Next
<1> DEFINE os == OwedBy(g)'
<1>1. Owed' = [Owed EXCEPT ![g] = os] /\ Owed[g] = OwedBy(g)
  BY OwedElsewhere DEF Owed
<1>2. os \in {Owed[g] \cup {k}, Owed[g] \ {k}}
  <2>1. CASE Accounted(g, k)'
    <3>1. os = OwedBy(g) \cup {k}
      BY <2>1 DEF OwedBy
    <3> QED BY <1>1, <3>1
  <2>2. CASE ~Accounted(g, k)'
    <3>1. os = OwedBy(g) \ {k}
      BY <2>2 DEF OwedBy
    <3> QED BY <1>1, <3>1
  <2> QED BY <2>1, <2>2
<1>3. WB!Known(g, k)'
  BY SameWordsNext
<1>4. WB!Change(g, k)
  <2> HIDE DEF os
  <2> QED BY <1>1, <1>2, <1>3, SameWords DEF WB!Change, Owed, OwedBy, Drop, Excuse, TakeUp
<1> QED BY <1>4 DEF WB!Next

LEMMA WriterImplements ==
  ASSUME Agreement, NEW w \in Writers, WriterNext(w)
  PROVE  WB!Next \/ UNCHANGED WB!vars
<1>0. /\ TypeOK
      /\ changes \in [Flows -> SUBSET Ids] /\ excused \in [Flows -> SUBSET Keys]
      /\ table \in [Flows -> [Keys -> Rows]]
      /\ wr \in [Writers -> {Idle} \cup [at : {"record", "notify"}, flow : Flows, key : Keys]]
  BY DEF Agreement, Shape, TypeOK
<1>1. ASSUME NEW g \in Flows, NEW k \in Keys, NEW r \in Rows,
             CallDBQuery(w, g, k, r) \/ SqlStatement(w, g, k, r)
      PROVE  WB!Next
  <2>1. /\ wr[w] = Idle
        /\ table' = [table EXCEPT ![g][k] = r]
        /\ UNCHANGED <<vault, loaded, pc, cur, batch>>
    BY <1>1 DEF CallDBQuery, SqlStatement, PutRow, storeVars, flowVars, cycleVars
  <2>2. /\ \E a \in {"record", "notify"} :
             wr' = [wr EXCEPT ![w] = [at |-> a, flow |-> g, key |-> k]]
        /\ changes' \in {changes, [changes EXCEPT ![g] = @ \cup {k}]}
        /\ UNCHANGED <<excused, dropped>> \/ Drop(g, k) \/ TakeUp(g, k)
    BY <1>1 DEF CallDBQuery, SqlStatement, ghosts
  <2>3. ASSUME NEW f \in Flows, NEW j \in Keys, ~(f = g /\ j = k)
        PROVE  Accounted(f, j)' <=> Accounted(f, j)
    <3>1. j \in changes'[f] <=> j \in changes[f]
      BY <1>0, <2>2, <2>3
    <3>2. WriterOwes(f, j)' <=> WriterOwes(f, j)
      <4>1. \A x \in Writers : x # w => wr'[x] = wr[x]
        BY <1>0, <2>2
      <4>2. wr'[w].flow = g /\ wr'[w].key = k
        BY <1>0, <2>2
      <4> QED BY <2>1, <2>3, <4>1, <4>2 DEF WriterOwes, Idle
    <3>3. table'[f][j] = table[f][j]
      BY <1>0, <2>1, <2>3
    <3>4. \A p \in CyclesOf(f) : Carries(p, j)' <=> Carries(p, j)
      BY <2>1, <3>3 DEF Carries, CyclesOf
    <3> QED BY <3>1, <3>2, <3>4 DEF Accounted, CyclesOf
  <2>4. Accounted(g, k)' \/ k \in excused'[g]
    <3>1. CASE CallDBQuery(w, g, k, r)
      <4>1. wr' = [wr EXCEPT ![w] = [at |-> "record", flow |-> g, key |-> k]]
        BY <3>1 DEF CallDBQuery
      <4>2. WriterOwes(g, k)'
        BY <1>0, <4>1 DEF WriterOwes
      <4> QED BY <4>2 DEF Accounted
    <3>2. CASE SqlStatement(w, g, k, r)
      BY <1>0, <3>2 DEF SqlStatement, Drop, Excuse, Accounted
    <3> QED BY <1>1, <3>1, <3>2
  <2> QED BY <1>0, <2>1, <2>2, <2>3, <2>4, StatementImplements
<1>2. CASE RecordChange(w)
  <2>1. PICK g \in Flows, k \in Keys :
          /\ wr[w] = [at |-> "record", flow |-> g, key |-> k]
          /\ wr' = [wr EXCEPT ![w].at = "notify"]
          /\ UNCHANGED <<table, vault, loaded, pc, cur, batch>>
          /\ \/ changes' = [changes EXCEPT ![g] = @ \cup {k}] /\ TakeUp(g, k)
             \/ changes' = changes /\ Excuse(g, {k}) /\ dropped' = dropped
    BY <1>0, <1>2 DEF RecordChange, Excuse, TakeUp, storeVars, flowVars, cycleVars, Idle
  <2>2. Accounted(g, k)
    BY <2>1 DEF Accounted, WriterOwes
  <2>3. ASSUME NEW f \in Flows, NEW j \in Keys, ~(f = g /\ j = k)
        PROVE  Accounted(f, j)' <=> Accounted(f, j)
    <3>1. j \in changes'[f] <=> j \in changes[f]
      BY <1>0, <2>1, <2>3
    <3>2. WriterOwes(f, j)' <=> WriterOwes(f, j)
      <4>1. \A x \in Writers : x # w => wr'[x] = wr[x]
        BY <1>0, <2>1
      <4>2. wr'[w].at = "notify"
        BY <1>0, <2>1
      <4> QED BY <2>1, <2>3, <4>1, <4>2 DEF WriterOwes
    <3>3. \A p \in CyclesOf(f) : Carries(p, j)' <=> Carries(p, j)
      BY <2>1 DEF Carries, CyclesOf
    <3> QED BY <3>1, <3>2, <3>3 DEF Accounted, CyclesOf
  <2>4. Owed' = [Owed EXCEPT ![g] = OwedBy(g)'] /\ Owed[g] = OwedBy(g)
    <3>1. \A f \in Flows, j \in Keys : f # g => (Accounted(f, j)' <=> Accounted(f, j))
      BY <2>3
    <3> QED BY <3>1, OwedElsewhere DEF Owed
  <2>5. OwedBy(g)' \subseteq OwedBy(g) /\ OwedBy(g) \ OwedBy(g)' \subseteq {k}
    BY <2>2, <2>3 DEF OwedBy
  <2>6. CASE changes' = [changes EXCEPT ![g] = @ \cup {k}] /\ TakeUp(g, k)
    <3>1. Accounted(g, k)'
      BY <1>0, <2>6 DEF Accounted
    <3>2. OwedBy(g)' = OwedBy(g) /\ k \in OwedBy(g)
      BY <2>2, <2>5, <3>1 DEF OwedBy
    <3>3. Owed' = Owed
      BY <2>4, <3>2 DEF Owed
    <3>4. WB!TakeUp(g, k)
      BY <2>1, <2>4, <2>6, <3>2, <3>3 DEF WB!TakeUp, TakeUp, Owed, OwedBy
    <3> QED BY <3>4 DEF WB!Next
  <2>7. CASE Excuse(g, {k}) /\ dropped' = dropped
    <3>1. /\ {k} \in SUBSET Keys /\ OwedBy(g)' \in SUBSET Owed[g]
          /\ Owed[g] \ OwedBy(g)' \subseteq {k}
      BY <2>4, <2>5
    <3>2. WB!GiveUp(g)
      BY <2>1, <2>4, <2>7, <3>1 DEF WB!GiveUp, Excuse, Owed, OwedBy
    <3> QED BY <3>2 DEF WB!Next
  <2> QED BY <2>1, <2>6, <2>7
<1>3. CASE Notify(w)
  <2>1. /\ UNCHANGED <<table, vault, loaded, excused, dropped, changes, pc, cur, batch>>
        /\ wr[w].at = "notify" /\ wr' = [wr EXCEPT ![w] = Idle]
    BY <1>3 DEF Notify, storeVars, flowVars, cycleVars, ghosts
  <2>2. \A f \in Flows, k \in Keys : WriterOwes(f, k)' <=> WriterOwes(f, k)
    BY <1>0, <2>1 DEF WriterOwes, Idle
  <2>3. \A f \in Flows, k \in Keys : Accounted(f, k)' <=> Accounted(f, k)
    BY <2>1, <2>2 DEF Accounted, Carries, CyclesOf
  <2> QED BY <2>1, <2>3, Stutters
<1> QED BY <1>1, <1>2, <1>3 DEF WriterNext

(* Every step of the flows is a step of WriteBehind, or none.                   *)
LEMMA NextImplements ==
  ASSUME ~Overlap, Agreement, Agreement', [Next]_vars
  PROVE  [WB!Next]_(WB!vars)
<1>1. ASSUME NEW p \in Cycles, CycleNext(p), ~Restarted
      PROVE  WB!Next \/ UNCHANGED WB!vars
  BY <1>1, LoadImplements, RemoveImplements, PersistImplements DEF Step, CycleNext, Shutdown
<1>2. CASE Restarted
  BY <1>2, RestartImplements
<1>3. ASSUME NEW g \in Flows, FlowNext(g) PROVE WB!Next \/ UNCHANGED WB!vars
  BY <1>3, FlowImplements
<1>4. ASSUME NEW w \in Writers, WriterNext(w) PROVE WB!Next \/ UNCHANGED WB!vars
  BY <1>4, WriterImplements
<1>5. CASE TriggerAllChangeChannel \/ UNCHANGED vars
  <2>1. UNCHANGED <<table, vault, loaded, excused, dropped, changes, wr, pc, cur, batch>>
    BY <1>5 DEF TriggerAllChangeChannel, vars, tableVars, storeVars, flowVars, cycleVars, ghosts
  <2>2. \A f \in Flows, k \in Keys : Accounted(f, k)' <=> Accounted(f, k)
    BY <2>1 DEF Accounted, WriterOwes, Carries, CyclesOf
  <2> QED BY <2>1, <2>2, Stutters
<1> QED BY <1>1, <1>2, <1>3, <1>4, <1>5 DEF Next

LEMMA InitImplements == Init => WB!Init
<1> SUFFICES ASSUME Init PROVE WB!Init
  OBVIOUS
<1>1. \A f \in Flows, k \in Keys : ~Accounted(f, k)
  BY DEF Init, Accounted, WriterOwes, Carries, CyclesOf, AtFlows, AtCycles, Idle
<1>2. Owed = WB!Nobody
  BY <1>1 DEF Owed, OwedBy, WB!Nobody
<1> QED BY <1>2 DEF Init, WB!Init, WB!Blank, WB!Nobody, WB!Rows, Rows, AtFlows, EmptyRows, Owed,
          OwedBy

(* The write-behind loop keeps the promise WriteBehind makes to who changes     *)
(* rows, for any set of flows, rows, writers and failing calls: what the code   *)
(* does between a change and its row in vault is paying the debt, logging that  *)
(* it will not be paid, dropping it in silence for want of a tenant or of a     *)
(* trigger, emptying the table, or dying.  Again cycles must not overlap.       *)
THEOREM WriteBehindImplemented == ASSUME ~Overlap PROVE Spec => ImplementsWriteBehind
<1>1. Init => WB!Init
  BY InitImplements
<1>2. Agreement /\ Agreement' /\ [Next]_vars => [WB!Next]_(WB!vars)
  BY NextImplements
<1> QED BY <1>1, <1>2, AgreementAlways, PTL DEF Spec, ImplementsWriteBehind, WB!Spec

-----------------------------------------------------------------------------
(* What the promise comes to, from the abstract steps alone.                    *)

AbstractTypeOK ==
  /\ table \in [Flows -> [Keys -> Rows]] /\ vault \in [Flows -> [Keys -> Rows]]
  /\ loaded \in [Flows -> BOOLEAN]
  /\ Owed \in [Flows -> SUBSET Keys]
  /\ excused \in [Flows -> SUBSET Keys] /\ dropped \in [Flows -> SUBSET Keys]

(* What happens to the histories of what was given up happens to one row. *)
LEMMA HistoryMoves ==
  ASSUME excused \in [Flows -> SUBSET Keys], dropped \in [Flows -> SUBSET Keys],
         NEW f \in Flows, NEW k \in Keys,
         UNCHANGED <<excused, dropped>> \/ Drop(f, k) \/ TakeUp(f, k)
  PROVE  /\ excused' \in [Flows -> SUBSET Keys] /\ dropped' \in [Flows -> SUBSET Keys]
         /\ \A g \in Flows, j \in Keys :
              ~(g = f /\ j = k) => (j \in excused'[g] <=> j \in excused[g])
         /\ Drop(f, k) => k \in excused'[f]
<1>1. CASE UNCHANGED <<excused, dropped>>
  BY <1>1 DEF Drop, Excuse
<1>2. CASE Drop(f, k)
  <2>1. excused[f] \cup {k} \in SUBSET Keys /\ dropped[f] \cup {k} \in SUBSET Keys
    OBVIOUS
  <2> QED BY <1>2, <2>1 DEF Drop, Excuse
<1>3. CASE TakeUp(f, k)
  <2>1. excused[f] \ {k} \in SUBSET Keys /\ dropped[f] \ {k} \in SUBSET Keys
    OBVIOUS
  <2>2. /\ excused' \in [Flows -> SUBSET Keys] /\ dropped' \in [Flows -> SUBSET Keys]
    BY <1>3, <2>1 DEF TakeUp
  <2>3. \A g \in Flows, j \in Keys :
          ~(g = f /\ j = k) => (j \in excused'[g] <=> j \in excused[g])
    BY <1>3 DEF TakeUp
  <2>4. Drop(f, k) => k \in excused'[f]
    BY DEF Drop, Excuse
  <2> QED BY <2>2, <2>3, <2>4
<1> QED BY <1>1, <1>2, <1>3

LEMMA AbstractNext ==
  ASSUME AbstractTypeOK, WB!NothingLost, [WB!Next]_(WB!vars)
  PROVE  AbstractTypeOK' /\ WB!NothingLost'
<1> USE DEF AbstractTypeOK
<1>0. WB!Rows = Rows /\ NoRow \in Rows
  BY SameWords DEF Rows
\* What NothingLost says of one row, before and after a step.
<1> DEFINE Kept(f, k) == Diverged(f, k) => k \in Owed[f] \cup excused[f]
<1>1. (WB!NothingLost <=> \A f \in Flows, k \in Keys : Kept(f, k))
      /\ (WB!NothingLost' <=> \A f \in Flows, k \in Keys : Kept(f, k)')
  BY SameWords, SameWordsNext DEF WB!NothingLost, Owed, OwedBy
<1>2. CASE WB!Restart
  <2>1. /\ table' = [f \in Flows |-> [k \in Keys |-> NoRow]]
        /\ loaded' = [f \in Flows |-> FALSE]
        /\ Owed' = [f \in Flows |-> {}] /\ excused' = [f \in Flows |-> {}]
        /\ dropped' = [f \in Flows |-> {}] /\ vault' = vault
    BY <1>2 DEF WB!Restart, WB!Blank, WB!Nobody, Owed, OwedBy
  <2> QED BY <1>0, <1>1, <2>1 DEF Diverged
<1>3. ASSUME NEW f \in Flows, WB!GiveUp(f) PROVE AbstractTypeOK' /\ WB!NothingLost'
  <2>1. PICK ks \in SUBSET Keys, os \in SUBSET Owed[f] :
          /\ Owed[f] \ os \subseteq ks
          /\ excused' = [excused EXCEPT ![f] = @ \cup ks]
          /\ Owed' = [Owed EXCEPT ![f] = os]
    BY <1>3 DEF WB!GiveUp, Owed, OwedBy
  <2>2. UNCHANGED <<table, vault, loaded, dropped>>
    BY <1>3 DEF WB!GiveUp
  <2>3. AbstractTypeOK'
    <3> HIDE DEF Kept
    <3> QED BY <2>1, <2>2
  <2>4. \A g \in Flows, k \in Keys : Kept(g, k)'
    BY <1>1, <2>1, <2>2 DEF Diverged
  <2> QED BY <1>1, <2>3, <2>4
<1>4. ASSUME NEW f \in Flows, WB!Load(f) PROVE AbstractTypeOK' /\ WB!NothingLost'
  <2>1. PICK ks \in SUBSET Keys :
          table' = [table EXCEPT ![f] = [k \in Keys |-> IF k \in ks THEN vault[f][k] ELSE @[k]]]
    BY <1>4 DEF WB!Load
  <2>2. /\ loaded' = [loaded EXCEPT ![f] = TRUE]
        /\ Owed' = Owed /\ UNCHANGED <<vault, excused, dropped>>
        /\ \A k \in Keys : (WB!Lags(f, k) => WB!Known(f, k))'
    BY <1>4 DEF WB!Load, Owed, OwedBy
  <2>3. AbstractTypeOK'
    BY <2>1, <2>2
  <2>4. \A k \in Keys : Kept(f, k)'
    BY <2>2, SameWordsNext DEF Owed, OwedBy
  <2>5. \A g \in Flows, k \in Keys : g # f => Kept(g, k)'
    BY <1>1, <2>1, <2>2 DEF Diverged
  <2> QED BY <1>1, <2>3, <2>4, <2>5
<1>5. ASSUME NEW f \in Flows, WB!Truncate(f) PROVE AbstractTypeOK' /\ WB!NothingLost'
  <2>1. /\ ~Propagates(f) /\ table' = [table EXCEPT ![f] = [k \in Keys |-> NoRow]]
        /\ \E os \in SUBSET Owed[f] : Owed' = [Owed EXCEPT ![f] = os]
        /\ UNCHANGED <<vault, loaded, excused, dropped>>
    BY <1>5 DEF WB!Truncate, Owed, OwedBy
  <2>2. \A k \in Keys : ~Diverged(f, k)'
    BY <2>1 DEF Diverged, Propagates
  <2>3. \A g \in Flows, k \in Keys : g # f => Kept(g, k)'
    BY <1>1, <2>1 DEF Diverged
  <2> QED BY <1>0, <1>1, <2>1, <2>2, <2>3
<1>6. ASSUME NEW f \in Flows, NEW k \in Keys, WB!Change(f, k)
      PROVE  AbstractTypeOK' /\ WB!NothingLost'
  <2>1. PICK r \in Rows : table' = [table EXCEPT ![f][k] = r]
    BY <1>0, <1>6 DEF WB!Change
  <2>2. /\ \E ks \in {Owed[f] \cup {k}, Owed[f] \ {k}} : Owed' = [Owed EXCEPT ![f] = ks]
        /\ UNCHANGED <<excused, dropped>> \/ Drop(f, k) \/ TakeUp(f, k)
        /\ k \in Owed'[f] \cup excused'[f]
        /\ UNCHANGED <<vault, loaded>>
    BY <1>6 DEF WB!Change, WB!Known, Drop, Excuse, TakeUp, Owed, OwedBy
  <2>3. AbstractTypeOK'
    BY <2>1, <2>2, HistoryMoves
  <2>4. \A g \in Flows, j \in Keys : ~(g = f /\ j = k) => Kept(g, j)'
    <3>1. \A g \in Flows, j \in Keys :
            ~(g = f /\ j = k) => (j \in excused'[g] <=> j \in excused[g])
      BY <2>2, HistoryMoves
    <3> QED BY <1>1, <2>1, <2>2, <3>1 DEF Diverged
  <2> QED BY <1>1, <2>2, <2>3, <2>4
<1>7. ASSUME NEW f \in Flows, NEW k \in Keys, WB!Store(f, k)
      PROVE  AbstractTypeOK' /\ WB!NothingLost'
  <2>1. PICK r \in Rows : vault' = [vault EXCEPT ![f][k] = r]
    BY <1>0, <1>7 DEF WB!Store
  <2>2. /\ \E ks \in {Owed[f], Owed[f] \ {k}} : Owed' = [Owed EXCEPT ![f] = ks]
        /\ UNCHANGED <<table, loaded, excused, dropped>>
        /\ (WB!Lags(f, k) => WB!Known(f, k))'
    BY <1>7 DEF WB!Store, Owed, OwedBy
  <2>3. AbstractTypeOK'
    BY <2>1, <2>2
  <2>4. Kept(f, k)'
    BY <2>2, SameWordsNext DEF Owed, OwedBy
  <2>5. \A g \in Flows, j \in Keys : ~(g = f /\ j = k) => Kept(g, j)'
    BY <1>1, <2>1, <2>2 DEF Diverged
  <2> QED BY <1>1, <2>3, <2>4, <2>5
<1>8. ASSUME NEW f \in Flows, NEW k \in Keys,
             WB!Settle(f, k) \/ WB!Drop(f, k) \/ WB!TakeUp(f, k)
      PROVE  AbstractTypeOK' /\ WB!NothingLost'
  <2>1. /\ \/ /\ ~Diverged(f, k) /\ UNCHANGED <<excused, dropped>>
              /\ Owed' = [Owed EXCEPT ![f] = @ \ {k}]
           \/ /\ Drop(f, k)
              /\ \E ks \in {Owed[f], Owed[f] \ {k}} : Owed' = [Owed EXCEPT ![f] = ks]
           \/ /\ k \in Owed[f] /\ Owed' = Owed
              /\ TakeUp(f, k)
        /\ UNCHANGED <<table, vault, loaded>>
    BY <1>8, SameWords DEF WB!Settle, WB!Drop, WB!TakeUp, Drop, Excuse, TakeUp, Owed, OwedBy
  <2>2. AbstractTypeOK'
    <3>1. UNCHANGED <<excused, dropped>> \/ Drop(f, k) \/ TakeUp(f, k)
      BY <2>1
    <3>2. excused' \in [Flows -> SUBSET Keys] /\ dropped' \in [Flows -> SUBSET Keys]
      BY <3>1, HistoryMoves
    <3>3. Owed' \in [Flows -> SUBSET Keys]
      BY <2>1
    <3> QED BY <2>1, <3>2, <3>3
  <2>3. /\ \A g \in Flows, j \in Keys :
              ~(g = f /\ j = k) => (j \in excused'[g] <=> j \in excused[g])
        /\ Drop(f, k) => k \in excused'[f]
    BY <2>1, HistoryMoves
  <2>4. \A g \in Flows, j \in Keys : ~(g = f /\ j = k) => Kept(g, j)'
    BY <1>1, <2>1, <2>3 DEF Diverged
  <2>5. Kept(f, k)'
    <3>1. Diverged(f, k)' <=> Diverged(f, k)
      BY <2>1 DEF Diverged, Propagates
    <3>2. CASE Drop(f, k)
      BY <2>3, <3>2
    <3>3. CASE ~Drop(f, k)
      BY <1>1, <2>1, <3>1, <3>3
    <3> QED BY <3>2, <3>3
  <2> QED BY <1>1, <2>2, <2>4, <2>5
<1>9. CASE UNCHANGED WB!vars
  <2>1. UNCHANGED <<table, vault, loaded, Owed, excused, dropped>>
    BY <1>9, SameWords, SameWordsNext
  <2> QED BY <1>1, <2>1 DEF Diverged
<1> QED BY <1>2, <1>3, <1>4, <1>5, <1>6, <1>7, <1>8, <1>9 DEF WB!Next

(* Whatever keeps WriteBehind's promise knows of every change it loses: a row   *)
(* the store has not got as it is is owed, or was given up, with an error in    *)
(* the log or as one of the drops that are counted apart.  With                 *)
(* WriteBehindImplemented this is NoChangeLost again, from the promise.         *)
THEOREM PromiseLosesNothing == WB!Spec => []WB!NothingLost
<1>1. WB!Init => AbstractTypeOK /\ WB!NothingLost
  <2> SUFFICES ASSUME WB!Init PROVE AbstractTypeOK /\ WB!NothingLost
    OBVIOUS
  <2>1. /\ table = [f \in Flows |-> [k \in Keys |-> NoRow]] /\ vault \in [Flows -> [Keys -> Rows]]
        /\ loaded = [f \in Flows |-> FALSE]
        /\ Owed = [f \in Flows |-> {}]
        /\ excused = [f \in Flows |-> {}] /\ dropped = [f \in Flows |-> {}]
    BY SameWords DEF WB!Init, WB!Blank, WB!Nobody, Owed, OwedBy
  <2> QED BY <2>1, SameWords DEF AbstractTypeOK, WB!NothingLost, Diverged, Rows
<1> QED BY <1>1, AbstractNext, PTL DEF WB!Spec
=============================================================================
