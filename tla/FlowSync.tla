------------------------------ MODULE FlowSync ------------------------------
(***************************************************************************)
(* The write-behind loop of one flow machine (atrium/trcflow/core).  Every *)
(* flow owns a table of the in-memory SQL engine.  Writers change rows and *)
(* leave the id of the row in the flow's change table, then wake the flow  *)
(* through its notification channel.  The flow's sync cycle empties the    *)
(* change table under changesLock, rereads each row and stores it in vault *)
(* and, for flows with a remote connection, in the remote database.        *)
(*                                                                         *)
(* A sync cycle is <<f, i>>: the goroutines of the i-th SyncTableCycle     *)
(* call for flow f since the plugin came up.  A row is a member of Rows;   *)
(* the process of a path or a query string is left out.  Every call of the *)
(* SQL engine is atomic, as it is under the flow's FlowLock.               *)
(***************************************************************************)
EXTENDS Naturals, FiniteSets

CONSTANTS
  Flows,            \* the flows of this machine
  Keys,             \* row identities of a table
  Values,           \* contents of a row
  NoRow,            \* a row that is not there
  NilId,            \* what a changedId that was never assigned prints as
  None,             \* nobody holds changesLock; no entry is in hand
  Writers,          \* goroutines and SQL sessions that change rows
  KeyColumns,       \* id columns of each flow's change table: 1, 2 or 3
  Synced,           \* flows that GetSyncedTables lists
  ReadOnly,         \* flows whose ReadOnly flag is set
  Pushes,           \* flows with sqlState, a flowPushRemote and a connection
  PushesDeletes,    \* flows whose SyncMode is push or pushonce and State # 0
  TriggerOutcomes,  \* may an installed SQL trigger fire (TRUE), stay silent (FALSE)?
  Errors,           \* the calls that may fail in this instance
  Overlap,          \* may a cycle start while an earlier one still runs?
  BcastCopies,      \* receptions one Bcast allows before a Clear
  MaxCycles         \* bound: SyncTableCycle calls per flow and plugin start

ErrorKinds ==
  {"load", "record", "query", "path", "tenant", "seed", "delete", "push"}

ASSUME FlowAssumption ==
  /\ NoRow \notin Values
  /\ NilId \notin Keys
  /\ None \notin Flows \X (1 .. MaxCycles)
  /\ KeyColumns \in [Flows -> 1 .. 3]
  /\ Synced \subseteq Flows /\ ReadOnly \subseteq Flows
  /\ Pushes \subseteq Flows /\ PushesDeletes \subseteq Flows
  /\ TriggerOutcomes \subseteq BOOLEAN
  /\ Errors \subseteq ErrorKinds
  /\ Overlap \in BOOLEAN
  /\ BcastCopies \in Nat \ {0}
  /\ MaxCycles \in Nat \ {0}

VARIABLES
  table,      \* the engine's table of each flow
  changes,    \* <table>_Changes: ids recorded and not yet taken
  tokens,     \* what is left to receive from the notification channel
  lock,       \* the cycle that locked changesLock last, or None
  vault,      \* the rows in vault
  remote,     \* the rows of the remote data source
  triggers,   \* are the flow's triggers installed?
  loaded,     \* has a load from vault completed since the plugin came up?
  ctx,        \* number of the flow's current Context
  cancelled,  \* numbers of the Contexts CancelContext has cancelled
  kicks,      \* sends pending on ContextNotifyChan
  pc,         \* where each cycle is
  watch,      \* the Context whose Done() a cycle's select waits on
  final,      \* is the cycle in the persist of its Done branch?
  removed,    \* cycles that dropped the triggers and will put them back
  snap,       \* rows a loading cycle has read from vault
  batch,      \* matrixChangedEntries still to process
  undrained,  \* those of batch still to delete from the change table
  cur,        \* the entry in hand, with the row that was read for it
  wr,         \* where each writer is
  excused,    \* history: rows whose change the code gave up
  dropped,    \* history: rows whose change it gave up without a word in the log
  unpushed    \* history: rows whose push to the remote was given up

tableVars  == <<table, changes, tokens>>
storeVars  == <<vault, remote>>
flowVars   == <<triggers, loaded, ctx, cancelled, kicks>>
cycleVars  == <<pc, watch, final, removed, snap, batch, undrained, cur>>
ghosts     == <<excused, dropped, unpushed>>
vars == <<tableVars, lock, storeVars, flowVars, cycleVars, wr, ghosts>>

Rows   == Values \cup {NoRow}
Ids    == Keys \cup {NilId}
Cycles == Flows \X (1 .. MaxCycles)
CyclesOf(f) == {p \in Cycles : p[1] = f}

Removing == {"scan", "drain"}
InHand   == {"store", "push", "delete", "softdelete"}
CycleStates ==
  {"none", "load", "insert", "select", "lock", "entry", "clear", "gone"}
    \cup Removing \cup InHand

\* Deletions reach vault only from synced tables whose entries are not 3 wide.
Propagates(f) == f \in Synced /\ KeyColumns[f] # 3

\* The SQL front end lets sessions write a table from the permission update
\* that ends a load to the one that announces a stop.
Permitted(f) ==
  /\ loaded[f]
  /\ ctx[f] \notin cancelled[f]
  /\ \A p \in CyclesOf(f) : pc[p] \notin {"load", "insert"}

Idle == [at |-> "idle"]
NoEntry == [key |-> None, row |-> NoRow]

-----------------------------------------------------------------------------
(* The state a plugin process starts in: an empty engine beside a full vault. *)
EmptyRows  == [k \in Keys |-> NoRow]
AtFlows(x)  == [f \in Flows |-> x]
AtCycles(x) == [p \in Cycles |-> x]

\* CreateTableTriggers, before the first cycle of a flow; the triggers of a table
\* that has them are not made again.
Armed == AtFlows(TRUE)

Init ==
  /\ table = AtFlows(EmptyRows) /\ changes = AtFlows({}) /\ tokens = AtFlows(0)
  /\ lock = None
  /\ vault \in [Flows -> [Keys -> Rows]] /\ remote = vault
  /\ triggers = Armed /\ loaded = AtFlows(FALSE)
  /\ ctx = AtFlows(0) /\ cancelled = AtFlows({}) /\ kicks = AtFlows(0)
  /\ pc = AtCycles("none") /\ watch = AtCycles(0) /\ final = AtCycles(FALSE)
  /\ removed = {} /\ snap = AtCycles(EmptyRows)
  /\ batch = AtCycles({}) /\ undrained = AtCycles({}) /\ cur = AtCycles(NoEntry)
  /\ wr = [w \in Writers |-> Idle]
  /\ excused = AtFlows({}) /\ dropped = AtFlows({}) /\ unpushed = AtFlows({})

\* os.Exit or a panic ends every goroutine; vault starts the plugin again.
Restarted ==
  /\ table' = AtFlows(EmptyRows) /\ changes' = AtFlows({}) /\ tokens' = AtFlows(0)
  /\ lock' = None
  /\ UNCHANGED storeVars
  /\ triggers' = Armed /\ loaded' = AtFlows(FALSE)
  /\ ctx' = AtFlows(0) /\ cancelled' = AtFlows({}) /\ kicks' = AtFlows(0)
  /\ pc' = AtCycles("none") /\ watch' = AtCycles(0) /\ final' = AtCycles(FALSE)
  /\ removed' = {} /\ snap' = AtCycles(EmptyRows)
  /\ batch' = AtCycles({}) /\ undrained' = AtCycles({}) /\ cur' = AtCycles(NoEntry)
  /\ wr' = [w \in Writers |-> Idle]
  /\ excused' = AtFlows({}) /\ dropped' = AtFlows({})
  /\ unpushed' = [f \in Flows |-> {k \in Keys : vault[f][k] # remote[f][k]}]

\* Mutant of AfterPersist: the Done branch does not return.
AlwaysClear(p)  == "clear"
AfterPersist(p) == IF final[p] THEN "gone" ELSE "clear"

Goto(p, s) == pc' = [pc EXCEPT ![p] = s]
\* Mutant of Bcast: a notification does not replace the one before.
BcastMore(f) == tokens' = [tokens EXCEPT ![f] = @ + BcastCopies]
Bcast(f)     == tokens' = [tokens EXCEPT ![f] = BcastCopies]
PutRow(f, k, r) == table' = [table EXCEPT ![f][k] = r]
Excuse(f, ks)   == excused' = [excused EXCEPT ![f] = @ \cup ks]

\* The change of row k is given up and nothing is logged; it is recorded after all.
Drop(f, k) ==
  /\ Excuse(f, {k})
  /\ dropped' = [dropped EXCEPT ![f] = @ \cup {k}]
TakeUp(f, k) ==
  /\ excused' = [excused EXCEPT ![f] = @ \ {k}]
  /\ dropped' = [dropped EXCEPT ![f] = @ \ {k}]

-----------------------------------------------------------------------------
(* SyncTableCycle and seedTrcDbCycle: load a table from vault. *)

\* A new Context, a send on ContextNotifyChan, and the triggers dropped.
SyncTableCycle(p) ==
  LET f == p[1] IN
  /\ pc[p] = "none" /\ p[2] = ctx[f] + 1
  /\ Overlap \/ \A q \in CyclesOf(f) : pc[q] \in {"none", "gone"}
  /\ ctx' = [ctx EXCEPT ![f] = p[2]]
  /\ kicks' = [kicks EXCEPT ![f] = @ + 1]
  /\ removed' = IF triggers[f] THEN removed \cup {p} ELSE removed
  /\ triggers' = [triggers EXCEPT ![f] = FALSE]
  /\ Goto(p, "load")
  /\ UNCHANGED <<tableVars, lock, storeVars, loaded, cancelled, watch, final, snap,
                 batch, undrained, cur, wr, ghosts>>

\* seedTrcDbFromVault reads the rows; one it cannot read is logged and skipped.
ReadVault(p) ==
  LET f == p[1] IN
  /\ pc[p] = "load"
  /\ \E skipped \in SUBSET {k \in Keys : vault[f][k] # NoRow} :
       /\ skipped # {} => "load" \in Errors
       /\ snap' = [snap EXCEPT ![p] =
                     [k \in Keys |-> IF k \in skipped THEN NoRow ELSE vault[f][k]]]
       /\ Excuse(f, skipped)
  /\ Goto(p, "insert")
  /\ UNCHANGED <<tableVars, lock, storeVars, flowVars, watch, final, removed, batch,
                 undrained, cur, wr, dropped, unpushed>>

\* Mutant of Restored: a cycle that took no trigger away leaves none.
RestoredOwn(p) == p \in removed
Restored(p) == triggers[p[1]] \/ p \in removed

\* The rows go in beside the triggers (a row already there stays), then the
\* triggers come back, permission is announced and seedVaultCycle starts.  The two
\* sends on the way, on a flow's vaultImportChannel and on PermissionChan, find
\* room or a reader here; FlowControl models PermissionChan's limit.
InsertRows(p) ==
  LET f == p[1] IN
  /\ pc[p] = "insert"
  /\ table' = [table EXCEPT ![f] =
                 [k \in Keys |-> IF @[k] = NoRow THEN snap[p][k] ELSE @[k]]]
  /\ snap' = [snap EXCEPT ![p] = EmptyRows]
  /\ triggers' = [triggers EXCEPT ![f] = Restored(p)]
  /\ removed' = removed \ {p}
  /\ loaded' = [loaded EXCEPT ![f] = TRUE]
  /\ watch' = [watch EXCEPT ![p] = ctx[f]]
  /\ Goto(p, "select")
  /\ UNCHANGED <<changes, tokens, lock, storeVars, ctx, cancelled, kicks, final, batch,
                 undrained, cur, wr, ghosts>>

-----------------------------------------------------------------------------
(* The select of seedVaultCycle. *)

Notified(p) ==
  /\ pc[p] = "select" /\ tokens[p[1]] > 0
  /\ tokens' = [tokens EXCEPT ![p[1]] = @ - 1]
  /\ Goto(p, "lock")
  /\ UNCHANGED <<table, changes, lock, storeVars, flowVars, watch, final, removed, snap,
                 batch, undrained, cur, wr, ghosts>>

\* Mutant of Done: the cycle ends without its last persist.
DoneAtOnce(p) ==
  /\ pc[p] = "select" /\ watch[p] \in cancelled[p[1]]
  /\ Goto(p, "gone")
  /\ UNCHANGED <<tableVars, lock, storeVars, flowVars, watch, final, removed, snap, batch,
                 undrained, cur, wr, ghosts>>

\* The Context this select waits on was cancelled: persist once more, then end.
Done(p) ==
  /\ pc[p] = "select" /\ watch[p] \in cancelled[p[1]]
  /\ final' = [final EXCEPT ![p] = TRUE]
  /\ Goto(p, "lock")
  /\ UNCHANGED <<tableVars, lock, storeVars, flowVars, watch, removed, snap, batch,
                 undrained, cur, wr, ghosts>>

\* A receive on ContextNotifyChan only makes the loop read the Context again.
Kicked(p) ==
  /\ pc[p] = "select" /\ kicks[p[1]] > 0
  /\ kicks' = [kicks EXCEPT ![p[1]] = @ - 1]
  /\ watch' = [watch EXCEPT ![p] = ctx[p[1]]]
  /\ UNCHANGED <<tableVars, lock, storeVars, triggers, loaded, ctx, cancelled, pc, final,
                 removed, snap, batch, undrained, cur, wr, ghosts>>

\* A signal: the plugin process exits.
Shutdown(p) == pc[p] = "select" /\ Restarted

-----------------------------------------------------------------------------
(* removeChangedTableEntries and its composite and statistic forms. *)

\* Mutant of Unlocked: a Lock that waits for nobody.
NeverLocked == TRUE
Unlocked    == lock = None

Acquire(p) ==
  /\ pc[p] = "lock" /\ Unlocked
  /\ lock' = p
  /\ Goto(p, "scan")
  /\ UNCHANGED <<tableVars, storeVars, flowVars, watch, final, removed, snap, batch,
                 undrained, cur, wr, ghosts>>

\* SELECT of the ids in the change table.
Scan(p) ==
  /\ pc[p] = "scan"
  /\ batch' = [batch EXCEPT ![p] = changes[p[1]]]
  /\ undrained' = [undrained EXCEPT ![p] = changes[p[1]]]
  /\ Goto(p, "drain")
  /\ UNCHANGED <<tableVars, lock, storeVars, flowVars, watch, final, removed, snap, cur,
                 wr, ghosts>>

\* Mutant of Drain: DELETE without its WHERE.
DrainAll(p) ==
  /\ pc[p] = "drain"
  /\ changes' = [changes EXCEPT ![p[1]] = {}]
  /\ undrained' = [undrained EXCEPT ![p] = {}]
  /\ UNCHANGED <<table, tokens, lock, storeVars, flowVars, pc, watch, final, removed, snap,
                 batch, cur, wr, ghosts>>

\* DELETE of one id.
Drain(p) ==
  /\ pc[p] = "drain"
  /\ \E k \in undrained[p] :
       /\ changes' = [changes EXCEPT ![p[1]] = @ \ {k}]
       /\ undrained' = [undrained EXCEPT ![p] = @ \ {k}]
  /\ UNCHANGED <<table, tokens, lock, storeVars, flowVars, pc, watch, final, removed, snap,
                 batch, cur, wr, ghosts>>

\* Mutant of Unlock: it is missing.
StayLocked == UNCHANGED lock
Unlock     == lock' = None

Drained(p) ==
  /\ pc[p] = "drain" /\ undrained[p] = {}
  /\ Unlock
  /\ Goto(p, "entry")
  /\ UNCHANGED <<tableVars, storeVars, flowVars, watch, final, removed, snap, batch,
                 undrained, cur, wr, ghosts>>

\* A query failed: the ids already deleted are forgotten, and the function
\* returns its error without changesLock.Unlock().  The caller ignores it.
RemoveFails(p) ==
  LET f == p[1] IN
  /\ "query" \in Errors
  /\ pc[p] = "drain" => undrained[p] # {}
  /\ pc[p] \in Removing
  /\ Excuse(f, Keys \cap (batch[p] \ changes[f]))
  /\ batch' = [batch EXCEPT ![p] = {}]
  /\ undrained' = [undrained EXCEPT ![p] = {}]
  /\ Goto(p, AfterPersist(p))
  /\ UNCHANGED <<tableVars, lock, storeVars, flowVars, watch, final, removed, snap, cur,
                 wr, dropped, unpushed>>

-----------------------------------------------------------------------------
(* vaultPersistPushRemoteChanges: one entry after the other. *)

\* Mutant of RowOf: a WHERE that names the wrong column.
RowOfNobody(f, id) == NoRow
RowOf(f, id) == IF id \in Keys THEN table[f][id] ELSE NoRow

EntryDone(p) ==
  /\ cur' = [cur EXCEPT ![p] = NoEntry]
  /\ Goto(p, "entry")

\* SELECT of the changed row.  One that is not there was a delete.
ReadEntry(p) ==
  LET f == p[1] IN
  /\ pc[p] = "entry"
  /\ \E id \in batch[p] :
       /\ batch' = [batch EXCEPT ![p] = @ \ {id}]
       /\ \/ /\ RowOf(f, id) = NoRow /\ ~Propagates(f)
             /\ UNCHANGED <<cur, pc>>
          \/ /\ RowOf(f, id) # NoRow \/ Propagates(f)
             /\ cur' = [cur EXCEPT ![p] = [key |-> id, row |-> RowOf(f, id)]]
             /\ Goto(p, IF RowOf(f, id) = NoRow THEN "delete" ELSE "store")
  /\ UNCHANGED <<tableVars, lock, storeVars, flowVars, watch, final, removed, snap,
                 undrained, wr, ghosts>>

\* The SELECT failed: logged, and the entry is gone.
ReadFails(p) ==
  /\ "query" \in Errors /\ pc[p] = "entry"
  /\ \E id \in batch[p] :
       /\ batch' = [batch EXCEPT ![p] = @ \ {id}]
       /\ Excuse(p[1], Keys \cap {id})
  /\ UNCHANGED <<tableVars, lock, storeVars, flowVars, pc, watch, final, removed, snap,
                 undrained, cur, wr, dropped, unpushed>>

\* The loop declares a changedId and never assigns it.
ChangedId == NilId

\* No vault path for the row.  The change is recorded again under changedId: a
\* single id column takes the text of a nil, a wider change table refuses a row
\* of two values.
PathFails(p) ==
  LET f == p[1] IN
  /\ "path" \in Errors /\ pc[p] = "store"
  /\ changes' = IF KeyColumns[f] = 1 THEN [changes EXCEPT ![f] = @ \cup {ChangedId}] ELSE changes
  /\ Excuse(f, {cur[p].key})
  /\ EntryDone(p)
  /\ UNCHANGED <<table, tokens, lock, storeVars, flowVars, watch, final, removed, snap,
                 batch, undrained, wr, dropped, unpushed>>

\* The path is empty without an error: the row has no tenant and is passed over,
\* with nothing in the log.
NoTenant(p) ==
  /\ "tenant" \in Errors /\ pc[p] = "store"
  /\ Drop(p[1], cur[p].key)
  /\ EntryDone(p)
  /\ UNCHANGED <<tableVars, lock, storeVars, flowVars, watch, final, removed, snap, batch,
                 undrained, wr, unpushed>>

\* SeedVaultById.
StoreRow(p) ==
  /\ pc[p] = "store"
  /\ vault' = IF p[1] \in ReadOnly THEN vault
              ELSE [vault EXCEPT ![p[1]][cur[p].key] = cur[p].row]
  /\ Goto(p, "push")
  /\ UNCHANGED <<tableVars, lock, remote, flowVars, watch, final, removed, snap, batch,
                 undrained, cur, wr, ghosts>>

\* SeedVaultById failed: changedId.(string) on a nil changedId panics.
SeedPanics(p) ==
  /\ "seed" \in Errors /\ pc[p] = "store" /\ p[1] \notin ReadOnly
  /\ Restarted

PushRow(p) ==
  LET f == p[1] IN
  /\ pc[p] = "push" /\ f \in Pushes
  /\ remote' = [remote EXCEPT ![f][cur[p].key] = cur[p].row]
  /\ unpushed' = [unpushed EXCEPT ![f] = @ \ {cur[p].key}]
  /\ EntryDone(p)
  /\ UNCHANGED <<tableVars, lock, vault, flowVars, watch, final, removed, snap, batch,
                 undrained, wr, excused, dropped>>

PushFails(p) ==
  LET f == p[1] IN
  /\ "push" \in Errors /\ pc[p] = "push" /\ f \in Pushes
  /\ unpushed' = [unpushed EXCEPT ![f] = @ \cup {cur[p].key}]
  /\ EntryDone(p)
  /\ UNCHANGED <<tableVars, lock, storeVars, flowVars, watch, final, removed, snap, batch,
                 undrained, wr, excused, dropped>>

\* Mutant of NoPush: taken for a nil flowPushRemote when there is one.
NoPushEver(p) ==
  /\ pc[p] = "push"
  /\ EntryDone(p)
  /\ UNCHANGED <<tableVars, lock, storeVars, flowVars, watch, final, removed, snap, batch,
                 undrained, wr, ghosts>>

NoPush(p) ==
  /\ pc[p] = "push" /\ p[1] \notin Pushes
  /\ EntryDone(p)
  /\ UNCHANGED <<tableVars, lock, storeVars, flowVars, watch, final, removed, snap, batch,
                 undrained, wr, ghosts>>

\* The remote is told first, with changedId for the id and every column blank;
\* an error is only logged.
PushDelete(p) ==
  LET f == p[1] IN
  /\ pc[p] = "delete"
  /\ remote' = IF f \in PushesDeletes
                 THEN [remote EXCEPT ![f] =
                         [k \in Keys |-> IF k = ChangedId THEN NoRow ELSE @[k]]]
                 ELSE remote
  /\ Goto(p, "softdelete")
  /\ UNCHANGED <<tableVars, lock, vault, flowVars, watch, final, removed, snap, batch,
                 undrained, cur, wr, ghosts>>

SoftDelete(p) ==
  LET f == p[1] IN
  /\ pc[p] = "softdelete"
  /\ vault' = IF f \in ReadOnly \/ cur[p].key \notin Keys THEN vault
              ELSE [vault EXCEPT ![f][cur[p].key] = NoRow]
  /\ EntryDone(p)
  /\ UNCHANGED <<tableVars, lock, remote, flowVars, watch, final, removed, snap, batch,
                 undrained, wr, ghosts>>

\* No path for the deleted row, or vault refused: logged, and the entry is gone.
SoftDeleteFails(p) ==
  /\ {"path", "delete"} \cap Errors # {} /\ pc[p] = "softdelete"
  /\ Excuse(p[1], Keys \cap {cur[p].key})
  /\ EntryDone(p)
  /\ UNCHANGED <<tableVars, lock, storeVars, flowVars, watch, final, removed, snap, batch,
                 undrained, wr, dropped, unpushed>>

Finish(p) ==
  /\ pc[p] = "entry" /\ batch[p] = {}
  /\ Goto(p, AfterPersist(p))
  /\ UNCHANGED <<tableVars, lock, storeVars, flowVars, watch, final, removed, snap, batch,
                 undrained, cur, wr, ghosts>>

\* flowChangedChannel.Clear(), then around the loop to the select.
Clear(p) ==
  /\ pc[p] = "clear"
  /\ tokens' = [tokens EXCEPT ![p[1]] = 0]
  /\ watch' = [watch EXCEPT ![p] = ctx[p[1]]]
  /\ Goto(p, "select")
  /\ UNCHANGED <<table, changes, lock, storeVars, flowVars, final, removed, snap, batch,
                 undrained, cur, wr, ghosts>>

-----------------------------------------------------------------------------
(* The flow's own controller. *)

\* State 3: CancelContext.
Cancel(f) ==
  /\ ctx[f] > 0 /\ ctx[f] \notin cancelled[f]
  /\ cancelled' = [cancelled EXCEPT ![f] = @ \cup {ctx[f]}]
  /\ UNCHANGED <<tableVars, lock, storeVars, triggers, loaded, ctx, kicks, cycleVars, wr,
                 ghosts>>

\* State 1 of the statistics flow: the table is emptied before it is loaded again.
Truncate(f) ==
  /\ KeyColumns[f] = 3 /\ ctx[f] \in cancelled[f]
  /\ table' = [table EXCEPT ![f] = [k \in Keys |-> NoRow]]
  /\ UNCHANGED <<changes, tokens, lock, storeVars, flowVars, cycleVars, wr, ghosts>>

-----------------------------------------------------------------------------
(* Writers. *)

\* What a statement on row k leaves in the change table by itself.
Fires(f) == IF triggers[f] THEN TriggerOutcomes ELSE {FALSE}

\* CallDBQuery with a TrcChangeId: the statement, the change record, the Bcast.
CallDBQuery(w, f, k, r) ==
  /\ wr[w] = Idle
  /\ PutRow(f, k, r)
  /\ \E fired \in Fires(f) :
       changes' = IF fired THEN [changes EXCEPT ![f] = @ \cup {k}] ELSE changes
  /\ wr' = [wr EXCEPT ![w] = [at |-> "record", flow |-> f, key |-> k]]
  /\ UNCHANGED <<tokens, lock, storeVars, flowVars, cycleVars, ghosts>>

RecordChange(w) ==
  LET f == wr[w].flow
      k == wr[w].key IN
  /\ wr[w].at = "record"
  /\ \/ /\ changes' = [changes EXCEPT ![f] = @ \cup {k}]
        /\ TakeUp(f, k)
     \/ /\ "record" \in Errors
        /\ Excuse(f, {k})
        /\ UNCHANGED <<changes, dropped>>
  /\ wr' = [wr EXCEPT ![w].at = "notify"]
  /\ UNCHANGED <<table, tokens, lock, storeVars, flowVars, cycleVars, unpushed>>

\* A statement of an SQL session: only a trigger can record the change, and where
\* none fires nothing tells of it.
SqlStatement(w, f, k, r) ==
  /\ wr[w] = Idle /\ Permitted(f)
  /\ PutRow(f, k, r)
  /\ \E fired \in Fires(f) :
       IF fired
         THEN changes' = [changes EXCEPT ![f] = @ \cup {k}] /\ TakeUp(f, k)
         ELSE Drop(f, k) /\ UNCHANGED changes
  /\ wr' = [wr EXCEPT ![w] = [at |-> "notify", flow |-> f, key |-> k]]
  /\ UNCHANGED <<tokens, lock, storeVars, flowVars, cycleVars, unpushed>>

\* The Bcast at the end of CallDBQuery, or of QueryCompleted for a statement.
Notify(w) ==
  /\ wr[w].at = "notify"
  /\ Bcast(wr[w].flow)
  /\ wr' = [wr EXCEPT ![w] = Idle]
  /\ UNCHANGED <<table, changes, lock, storeVars, flowVars, cycleVars, ghosts>>

\* QueryCompleted for a statement on a table this machine has no channel for.
TriggerAllChangeChannel ==
  /\ tokens' = [f \in Flows |-> BcastCopies]
  /\ UNCHANGED <<table, changes, lock, storeVars, flowVars, cycleVars, wr, ghosts>>

-----------------------------------------------------------------------------
Load(p)   == ReadVault(p) \/ InsertRows(p)
Select(p) == Notified(p) \/ Done(p) \/ Kicked(p)
Remove(p) == Acquire(p) \/ Scan(p) \/ Drain(p) \/ Drained(p) \/ RemoveFails(p)
Persist(p) ==
  \/ ReadEntry(p) \/ ReadFails(p) \/ PathFails(p) \/ NoTenant(p) \/ StoreRow(p)
  \/ SeedPanics(p) \/ PushRow(p) \/ PushFails(p) \/ NoPush(p)
  \/ PushDelete(p) \/ SoftDelete(p) \/ SoftDeleteFails(p)
  \/ Finish(p) \/ Clear(p)

CycleNext(p) ==
  SyncTableCycle(p) \/ Load(p) \/ Select(p) \/ Shutdown(p) \/ Remove(p) \/ Persist(p)
FlowNext(f) == Cancel(f) \/ Truncate(f)
WriterNext(w) ==
  \/ \E f \in Flows, k \in Keys, r \in Rows : CallDBQuery(w, f, k, r) \/ SqlStatement(w, f, k, r)
  \/ RecordChange(w) \/ Notify(w)

Next ==
  \/ \E p \in Cycles : CycleNext(p)
  \/ \E f \in Flows : FlowNext(f)
  \/ \E w \in Writers : WriterNext(w)
  \/ TriggerAllChangeChannel

Spec == Init /\ [][Next]_vars

\* Goroutines run (weak fairness); Go's select picks any ready case in the long
\* run and sync.Mutex starves no waiter (strong fairness).  That a load ends also
\* takes it that whoever reads PermissionChan and vaultImportChannel does.
\* Nothing is assumed of signals, of the controller or of who starts a statement.
Fairness ==
  /\ \A p \in Cycles :
       /\ WF_vars(Load(p)) /\ WF_vars(Remove(p) \/ Persist(p))
       /\ SF_vars(Notified(p)) /\ SF_vars(Done(p)) /\ SF_vars(Acquire(p))
  /\ \A w \in Writers : WF_vars(RecordChange(w) \/ Notify(w))

FairSpec == Spec /\ Fairness

-----------------------------------------------------------------------------
(* What the loop promises. *)

TypeOK ==
  /\ table \in [Flows -> [Keys -> Rows]]
  /\ changes \in [Flows -> SUBSET Ids]
  /\ tokens \in [Flows -> 0 .. BcastCopies]
  /\ lock \in Cycles \cup {None}
  /\ vault \in [Flows -> [Keys -> Rows]]
  /\ remote \in [Flows -> [Keys -> Rows]]
  /\ triggers \in [Flows -> BOOLEAN]
  /\ loaded \in [Flows -> BOOLEAN]
  /\ ctx \in [Flows -> 0 .. MaxCycles]
  /\ cancelled \in [Flows -> SUBSET (1 .. MaxCycles)]
  /\ kicks \in [Flows -> Nat]
  /\ pc \in [Cycles -> CycleStates]
  /\ watch \in [Cycles -> 0 .. MaxCycles]
  /\ final \in [Cycles -> BOOLEAN]
  /\ removed \subseteq Cycles
  /\ snap \in [Cycles -> [Keys -> Rows]]
  /\ batch \in [Cycles -> SUBSET Ids]
  /\ undrained \in [Cycles -> SUBSET Ids]
  /\ cur \in [Cycles -> [key : Ids \cup {None}, row : Rows]]
  /\ wr \in [Writers -> {Idle} \cup [at : {"record", "notify"}, flow : Flows, key : Keys]]
  /\ excused \in [Flows -> SUBSET Keys]
  /\ dropped \in [Flows -> SUBSET Keys]
  /\ unpushed \in [Flows -> SUBSET Keys]

\* Vault and the table disagree on a row.  That a table lacks a row vault has
\* counts only where deletions propagate, and once the table is loaded.
Diverged(f, k) ==
  /\ f \notin ReadOnly
  /\ table[f][k] # vault[f][k]
  /\ table[f][k] = NoRow => Propagates(f) /\ loaded[f]

WriterOwes(f, k) == \E w \in Writers : wr[w] = [at |-> "record", flow |-> f, key |-> k]

\* Cycle p is about to read the row, or holds what it read and will store it.
Carries(p, k) ==
  \/ k \in batch[p]
  \/ /\ pc[p] \in {"store", "delete", "softdelete"}
     /\ cur[p] = [key |-> k, row |-> table[p[1]][k]]

Accounted(f, k) ==
  k \in changes[f] \/ WriterOwes(f, k) \/ \E p \in CyclesOf(f) : Carries(p, k)

\* The code gave the row's change up, and logged an error when it did.
Logged(f, k) == k \in excused[f] \ dropped[f]

(* A change is lost at known places only: as long as vault has not got a row's *)
(* present content, the row's id is in the change table, with a writer that is *)
(* about to put it there, or with the sync cycle that took it and will store   *)
(* that content - unless the code logged an error and gave the change up, or   *)
(* came to one of the two places where it says nothing: the row of a path      *)
(* without a tenant, and a statement of an SQL session for which no trigger    *)
(* fires.  It rests on the order of removeChangedTableEntries (delete the id   *)
(* first) and vaultPersistPushRemoteChanges (read the row afterwards).         *)
LossIsNamed ==
  \A f \in Flows, k \in Keys :
    Diverged(f, k) => Accounted(f, k) \/ Logged(f, k) \/ k \in dropped[f]

(* The same without the two: every loss left an error in the log.  The code    *)
(* keeps this only where every row has a tenant and every trigger fires.       *)
NoSilentLoss ==
  \A f \in Flows, k \in Keys :
    Diverged(f, k) => Accounted(f, k) \/ Logged(f, k)

(* The write-behind promise on its own, of which the loop is an implementation: *)
(* what a row's change owes is what Accounted says of it.                      *)
WB == INSTANCE WriteBehind WITH
        volatile <- table, durable <- vault, given <- excused, silent <- dropped,
        owed <- [f \in Flows |-> {k \in Keys : Accounted(f, k)}],
        Deletes <- {f \in Flows : Propagates(f)}

(* The sync cycle implements WriteBehind: nothing but a writer and a load      *)
(* changes a table, vault gets a row as it is or keeps owing it, and no debt   *)
(* disappears but by paying, by a failure that is logged, by one of the two    *)
(* drops that are not, with the table that is emptied, or with the process.    *)
ImplementsWriteBehind == WB!Spec

(* The remote data source lags vault only by what is on its way to it: a row   *)
(* vault holds and the remote has not got as it is there is being pushed, or   *)
(* its push was given up after an error or with the process.                   *)
RemoteFollowsVault ==
  \A f \in Pushes \ ReadOnly, k \in Keys :
    vault[f][k] \notin {NoRow, remote[f][k]} =>
      \/ k \in unpushed[f]
      \/ \E p \in CyclesOf(f) : cur[p].key = k /\ pc[p] = "push"

(* A load puts back the triggers that it took away, whichever of two loads of  *)
(* a flow finds them: a flow that nobody is loading has its triggers.          *)
TriggersComeBack ==
  \A f \in Flows :
    (\A p \in CyclesOf(f) : pc[p] \notin {"load", "insert"}) => triggers[f]

(* changesLock: no two cycles, of one flow or of two, are between the Lock and *)
(* the Unlock of removeChangedTableEntries, and the one that is there is the   *)
(* last to have locked it - also after a cycle has left without unlocking.     *)
RemovalIsExclusive ==
  \A p \in Cycles : pc[p] \in Removing => lock = p

-----------------------------------------------------------------------------
(* What these invariants rest on. *)

Busy(p) == pc[p] \notin {"none", "gone"}

\* Ids are in hand only where the code holds them: a row to store is there, and
\* one that is not there is deleted only where deletions reach vault.
HandOK ==
  \A p \in Cycles :
    /\ pc[p] \in {"store", "push"} => cur[p].key \in Keys
    /\ pc[p] = "store" => cur[p].row # NoRow
    /\ pc[p] \in {"delete", "softdelete"} =>
         cur[p].key \in Ids /\ cur[p].row = NoRow /\ Propagates(p[1])

BatchOK ==
  \A p \in Cycles :
    /\ undrained[p] \subseteq batch[p]
    /\ undrained[p] # {} => pc[p] = "drain"
    /\ batch[p] # {} => pc[p] \in {"drain", "entry"} \cup InHand

\* Triggers that are away are with a load that will put them back.
LoadOK ==
  /\ \A p \in removed : pc[p] \in {"load", "insert"}
  /\ \A f \in Flows : triggers[f] \/ \E p \in removed : p[1] = f

Shape == TypeOK /\ HandOK /\ BatchOK /\ LoadOK /\ RemovalIsExclusive

OneCycle ==
  \A p, q \in Cycles : p[1] = q[1] /\ Busy(p) /\ Busy(q) => p = q

\* A load holds what vault has, or knows what it is missing.
SnapOK ==
  \A p \in Cycles, k \in Keys :
    pc[p] = "insert" =>
      \/ snap[p][k] = vault[p[1]][k]
      \/ snap[p][k] = NoRow /\ k \in excused[p[1]] \cup changes[p[1]]

\* A row read for an entry is still the row, or the row's change was left again.
HeldIsFresh ==
  \A p \in Cycles, k \in Keys :
    LET f == p[1] IN
    pc[p] \in {"store", "delete", "softdelete"} /\ cur[p].key = k =>
      \/ cur[p].row = table[f][k]
      \/ k \in changes[f] \cup excused[f] \/ WriterOwes(f, k)
      \/ table[f][k] = NoRow /\ ~Propagates(f)

PushOK ==
  \A p \in Cycles :
    pc[p] = "push" /\ p[1] \notin ReadOnly => vault[p[1]][cur[p].key] = cur[p].row

(* The strengthening of LossIsNamed and RemoteFollowsVault, for cycles that do *)
(* not overlap: one cycle of a flow at a time, whose copies of rows (the load's *)
(* snapshot, the entry in hand, the row being pushed) agree with their source   *)
(* or are known to be out of date.                                              *)
CopiesAgree == Shape /\ OneCycle /\ SnapOK /\ HeldIsFresh /\ PushOK

-----------------------------------------------------------------------------
(* Progress, where no call fails and cycles do not overlap. *)

(* A flow that finds its notification in the select takes every change that    *)
(* was recorded by then out of the change table.                               *)
NotifiedIsDrained ==
  \A p \in Cycles, k \in Keys :
    (pc[p] = "select" /\ tokens[p[1]] > 0 /\ k \in changes[p[1]])
      ~> (k \notin changes[p[1]])

(* A cycle waiting in its select when CancelContext is called persists what is *)
(* in the change table before it ends ("pushes any final changes to vault      *)
(* before closing sync cycle").                                                *)
CancelFlushes ==
  \A p \in Cycles, k \in Keys :
    (pc[p] = "select" /\ watch[p] \in cancelled[p[1]] /\ k \in changes[p[1]])
      ~> (k \notin changes[p[1]])

(* A flow that is stopped stops: the cycle whose Context is cancelled ends -   *)
(* unless the flow is started again before the cycle is back in its select,    *)
(* which then watches the new Context.                                         *)
CancelCloses ==
  \A p \in Cycles :
    (pc[p] \notin {"none", "gone"} /\ ctx[p[1]] = p[2] /\ p[2] \in cancelled[p[1]])
      ~> (pc[p] \in {"none", "gone"})

\* No writer is busy, and every flow's latest cycle has not been cancelled.
Quiet ==
  /\ \A w \in Writers : wr[w] = Idle
  /\ \A f \in Flows : ctx[f] > 0 /\ ctx[f] \notin cancelled[f]

(* When writers fall silent and notifications keep arriving, vault catches up  *)
(* with every table for good, but for the changes that were given up.          *)
Converges ==
  (<>[]Quiet /\ \A f \in Flows : []<>(tokens[f] > 0))
    => <>[](\A f \in Flows, k \in Keys : Diverged(f, k) => k \in excused[f])

(* A failed path or store leaves the change to be tried again ("Re-inject into *)
(* changes because it might not be here yet...").  Violated.                   *)
NothingGivenUp ==
  \A f \in Flows, k \in Keys : Diverged(f, k) => Accounted(f, k)
=============================================================================
