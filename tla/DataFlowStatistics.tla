------------------------- MODULE DataFlowStatistics -------------------------
(***************************************************************************)
(* The statistics of the flows.  A flow that loads its table reports two   *)
(* states ("Loading", "Load complete") in a tree of its own and then puts  *)
(* them into the table of the DataFlowStatistics flow, one by one: by a    *)
(* statement and a change row or, when the statement changed nothing,      *)
(* straight into vault.  The DataFlowStatistics flow stores changed rows   *)
(* in vault (FlowSync has the steps of this) and fills the table from      *)
(* vault, at its start and, after it has emptied it, at every restart and  *)
(* refresh; in vault there are also the failures of tests that others      *)
(* report.                                                                 *)
(*                                                                         *)
(* A statistic is a name and a state code, and its value is the start it   *)
(* is about; tenants and groups of names are left out.  The whole database *)
(* is in memory, and a panic of any goroutine ends it.                     *)
(***************************************************************************)
EXTENDS Naturals, FiniteSets

CONSTANTS
  Reporters,   \* flows that report their start
  Tests,       \* tests whose failure may be in vault
  NoRow,       \* no row, or no entry
  MaxReports,  \* bound: trees
  MaxBreaks,   \* bound: calls that fail
  MaxPulls     \* bound: fills from vault

ASSUME StatisticsAssumption ==
  /\ Reporters \cap Tests = {} /\ NoRow \notin Nat
  /\ MaxReports \in Nat /\ MaxBreaks \in Nat /\ MaxPulls \in Nat

VARIABLES
  up,        \* does the process run?
  prepared,  \* has the flow made its tables?
  rows,      \* the table: the date of each statistic
  changed,   \* its change table
  saved,     \* vault
  flush,     \* the row that is on its way to vault, as it was read
  tree,      \* the tree of each reporter
  pull,      \* the fill from vault
  reports, breaks, pulls,  \* counters of the bounds
  told,      \* history: the date each reporter last finished a statistic with
  excused    \* history: statistics a failure or an overlap may have taken

tableVars == <<prepared, rows, changed>>
countVars == <<reports, breaks, pulls>>
statVars == <<up, tableVars, saved, flush, tree, pull, countVars, told, excused>>

Codes  == {1, 2}                             \* "Loading", "Load complete"
Stats  == (Reporters \X Codes) \cup (Tests \X {1})
NoDate == 0                                  \* an empty lastTestedDate
GroupDate == MaxReports + 1                  \* the one of the group, in vault
Dates  == 0 .. GroupDate
Failed(s) == s[1] \in Tests                  \* its state is a failure
NoTree  == [at |-> "none", date |-> NoDate, kids |-> 0, next |-> 1]
NoPull  == [at |-> "none", todo |-> {}, left |-> {}, got |-> {}, put |-> <<>>]
NoFlush == <<>>
Breaks  == breaks < MaxBreaks /\ breaks' = breaks + 1

StatInit ==
  /\ up = TRUE /\ prepared = FALSE
  /\ rows = [s \in Stats |-> NoRow] /\ changed = {}
  /\ saved \in {v \in [Stats -> {NoRow, NoDate}] : \A s \in Stats : Failed(s) \/ v[s] = NoRow}
  /\ flush = NoFlush /\ tree = [f \in Reporters |-> NoTree] /\ pull = NoPull
  /\ reports = 0 /\ breaks = 0 /\ pulls = 0
  /\ told = [s \in Stats |-> NoRow] /\ excused = {}

-----------------------------------------------------------------------------
(* The tables, their triggers and the rows on their way to vault. *)

\* The change table is dropped and made again, with three key columns.
PrepareTables ==
  /\ up /\ ~prepared
  /\ prepared' = TRUE /\ changed' = {}
  /\ UNCHANGED <<up, rows, saved, flush, tree, pull, countVars, told, excused>>

Mine(f) == <<f, tree[f].next>>
Pending(s) == s \in changed \/ (flush # NoFlush /\ flush[1] = s)

UnderWay(s) == \E f \in Reporters : tree[f].at = "record" /\ Mine(f) = s

\* State 1 of the flow, a restart or the end of a daily refresh: the table is
\* emptied to be filled from vault again, and the change table is not.  What
\* had not been read for vault yet is gone.
TruncateTable ==
  /\ up /\ prepared
  /\ rows' = [s \in Stats |-> NoRow]
  /\ excused' = excused \cup {s \in Stats : s \in changed \/ UnderWay(s)}
  /\ UNCHANGED <<up, prepared, changed, saved, flush, tree, pull, countVars, told>>

\* The id leaves the change table and its row is read, if there is one: of a
\* statistic that has none nothing is stored, nor deleted in vault.
FlushRead(s) ==
  /\ up /\ flush = NoFlush /\ s \in changed
  /\ changed' = changed \ {s}
  /\ flush' = IF rows[s] = NoRow THEN NoFlush ELSE <<s, rows[s]>>
  /\ UNCHANGED <<up, prepared, rows, saved, tree, pull, countVars, told, excused>>

FlushStore ==
  /\ up /\ flush # NoFlush
  /\ saved' = [saved EXCEPT ![flush[1]] = flush[2]] /\ flush' = NoFlush
  /\ UNCHANGED <<up, tableVars, tree, pull, countVars, told, excused>>

-----------------------------------------------------------------------------
(* SyncTableCycle: the tree of a start, and its end. *)

InitDataFlow(f) ==
  /\ up /\ tree[f].at = "none" /\ reports < MaxReports
  /\ reports' = reports + 1
  /\ tree' = [tree EXCEPT ![f] = [NoTree EXCEPT !.at = "tree", !.date = reports + 1]]
  /\ UNCHANGED <<up, tableVars, saved, flush, pull, breaks, pulls, told, excused>>

\* Once before and once after the load of the table; what it logs is left out.
UpdateDataFlowStatistic(f) ==
  /\ up /\ tree[f].at = "tree" /\ tree[f].kids < Cardinality(Codes)
  /\ tree' = [tree EXCEPT ![f].kids = @ + 1]
  /\ UNCHANGED <<up, tableVars, saved, flush, pull, countVars, told, excused>>

FinishStatistic(f) ==
  /\ up /\ tree[f].at = "tree" /\ tree[f].kids = Cardinality(Codes)
  /\ tree' = [tree EXCEPT ![f].at = "insert"]
  /\ UNCHANGED <<up, tableVars, saved, flush, pull, countVars, told, excused>>

\* Mutant of Unchanged: a statement that fails is not written to vault.
Forgotten(f) == "record"
\* Where FinishStatistic goes when the statement changed nothing.
Unchanged(f) == "write"

\* A trigger may record the change ("If triggers are ever fixed"), when it is
\* not down for a fill.
Fires == pull.at = "none"

\* The statement, under the lock of the reporter's flow.  A date is new with
\* each tree, so it changes the row unless it fails, as it does without a table.
InsertStatistic(f) ==
  /\ up /\ tree[f].at = "insert"
  /\ \/ /\ prepared /\ rows' = [rows EXCEPT ![Mine(f)] = tree[f].date]
        /\ changed' = changed \/ (Fires /\ changed' = changed \cup {Mine(f)})
        /\ tree' = [tree EXCEPT ![f].at = "record"]
        /\ excused' = excused \ {Mine(f)} /\ UNCHANGED breaks
     \/ /\ tree' = [tree EXCEPT ![f].at = Unchanged(f)]
        /\ UNCHANGED <<rows, changed, excused>>
        /\ IF prepared THEN Breaks ELSE UNCHANGED breaks
  /\ UNCHANGED <<up, prepared, saved, flush, pull, reports, pulls, told>>

Onward(f) ==
  /\ told' = [told EXCEPT ![Mine(f)] = tree[f].date]
  /\ tree' = [tree EXCEPT ![f] = IF tree[f].next = tree[f].kids THEN NoTree
                                 ELSE [tree[f] EXCEPT !.at = "insert", !.next = @ + 1]]

\* A change row that is refused is logged, and the row never reaches vault.
RecordStatistic(f) ==
  /\ up /\ tree[f].at = "record" /\ Onward(f)
  /\ \/ changed' = changed \cup {Mine(f)} /\ UNCHANGED <<breaks, excused>>
     \/ Breaks /\ excused' = excused \cup {Mine(f)} /\ UNCHANGED changed
  /\ UNCHANGED <<up, prepared, rows, saved, flush, pull, reports, pulls>>

\* Nobody hears of a write that fails: the tree has no LogFunc.  An older row of
\* the same statistic may still be on its way to vault.
WriteStatistic(f) ==
  /\ up /\ tree[f].at = "write" /\ Onward(f)
  /\ \/ /\ saved' = [saved EXCEPT ![Mine(f)] = tree[f].date] /\ UNCHANGED breaks
        /\ excused' = IF Pending(Mine(f)) THEN excused \cup {Mine(f)} ELSE excused \ {Mine(f)}
     \/ Breaks /\ excused' = excused \cup {Mine(f)} /\ UNCHANGED saved
  /\ UNCHANGED <<up, tableVars, flush, pull, reports, pulls>>

-----------------------------------------------------------------------------
(* dataFlowStatPullRemote. *)

Pulling(p) == pull' = p
Known(n) == {s \in Stats : s[1] = n /\ saved[s] # NoRow}

\* The lists of tenants, groups and names; the fill ends when one of them fails,
\* or when a name has been seen to by the time it was listed.
PullStart ==
  /\ up /\ prepared /\ pull.at = "none" /\ pulls < MaxPulls
  /\ pulls' = pulls + 1
  /\ Pulling([NoPull EXCEPT !.at = "names", !.todo = {n \in Reporters \cup Tests : Known(n) # {}}])
  /\ UNCHANGED <<up, tableVars, saved, flush, tree, reports, breaks, told, excused>>

PullEnds ==
  /\ up /\ pull.at = "names"
  /\ IF pull.todo = {} THEN UNCHANGED breaks ELSE Breaks
  /\ Pulling(NoPull)
  /\ UNCHANGED <<up, tableVars, saved, flush, tree, reports, pulls, told, excused>>

\* RetrieveStatistic: the codes of a name, unless the list fails, ...
Retrieve(n) ==
  /\ up /\ pull.at = "names" /\ n \in pull.todo
  /\ \/ /\ UNCHANGED breaks
        /\ Pulling([pull EXCEPT !.at = "read", !.todo = @ \ {n}, !.left = Known(n)])
     \/ Breaks /\ Pulling([pull EXCEPT !.at = "push", !.todo = @ \ {n}])
  /\ UNCHANGED <<up, tableVars, saved, flush, tree, reports, pulls, told, excused>>

\* ... and each of them; a read that fails, or finds nothing twice, leaves the rest.
RetrieveStatistic(s) ==
  /\ up /\ pull.at = "read" /\ s \in pull.left
  /\ \/ /\ Pulling([pull EXCEPT !.left = @ \ {s}, !.got = @ \cup {<<s, saved[s]>>},
                                !.at = IF pull.left = {s} THEN "push" ELSE "read"])
        /\ UNCHANGED breaks
     \/ Breaks /\ Pulling([pull EXCEPT !.left = {}, !.at = "push"])
  /\ UNCHANGED <<up, tableVars, saved, flush, tree, reports, pulls, told, excused>>

\* The date of the group, when there is none and it can be read.
StatisticToMap(d) == IF d = NoDate THEN {NoDate, GroupDate} ELSE {d}

\* CompareLastModified compares the map with itself, and the map has no such
\* field: a statistic the table has is never updated.
SameLastModified(s, d) == TRUE

\* Is the statistic in the table?  The statement comes after the answer.
LookUp(s, d) ==
  /\ up /\ pull.at = "push" /\ <<s, d>> \in pull.got
  /\ Pulling([pull EXCEPT !.got = @ \ {<<s, d>>},
                          !.at = IF rows[s] = NoRow \/ ~SameLastModified(s, d) THEN "put"
                                 ELSE IF pull.got = {<<s, d>>} THEN "names" ELSE "push",
                          !.put = <<s, d>>])
  /\ UNCHANGED <<up, tableVars, saved, flush, tree, countVars, told, excused>>

\* The triggers of the table are down while it is filled, and the statement is
\* not one that records a change.  A reporter may have been there in between.
PutStatistic ==
  /\ up /\ pull.at = "put"
  /\ LET s == pull.put[1] IN
       \/ /\ \E d \in StatisticToMap(pull.put[2]) : rows' = [rows EXCEPT ![s] = d]
          /\ excused' = IF rows[s] = NoRow THEN excused ELSE excused \cup {s}
          /\ UNCHANGED breaks
       \/ Breaks /\ UNCHANGED <<rows, excused>>
  /\ Pulling([pull EXCEPT !.at = IF pull.got = {} THEN "names" ELSE "push"])
  /\ UNCHANGED <<up, prepared, changed, saved, flush, tree, reports, pulls, told>>

-----------------------------------------------------------------------------
\* What is lost with the memory: changes, and rows that never were changes.
Dies ==
  /\ up' = FALSE
  /\ excused' = excused \cup {s \in Stats : Pending(s) \/ UnderWay(s)}
  /\ prepared' = FALSE /\ rows' = [s \in Stats |-> NoRow] /\ changed' = {}
  /\ flush' = NoFlush /\ pull' = NoPull /\ tree' = [f \in Reporters |-> NoTree]
  /\ UNCHANGED <<saved, countVars, told>>

\* A name of which nothing was retrieved is inserted as it is, and the strings
\* the statement is made of are not there.
NothingRetrieved == up /\ pull.at = "push" /\ pull.got = {} /\ pull.left = {} /\ Dies
Killed  == up /\ Dies
Restart == ~up /\ up' = TRUE /\ UNCHANGED <<tableVars, saved, flush, tree, pull, countVars, told, excused>>

StatNext ==
  \/ PrepareTables \/ TruncateTable \/ FlushStore \/ PullStart \/ PullEnds \/ PutStatistic
  \/ NothingRetrieved \/ Killed \/ Restart
  \/ \E s \in Stats : FlushRead(s) \/ RetrieveStatistic(s) \/ \E d \in Dates : LookUp(s, d)
  \/ \E n \in Reporters \cup Tests : Retrieve(n)
  \/ \E f \in Reporters :
       \/ InitDataFlow(f) \/ UpdateDataFlowStatistic(f) \/ FinishStatistic(f)
       \/ InsertStatistic(f) \/ RecordStatistic(f) \/ WriteStatistic(f)

StatTypeOK ==
  /\ up \in BOOLEAN /\ prepared \in BOOLEAN
  /\ rows \in [Stats -> Dates \cup {NoRow}] /\ saved \in [Stats -> Dates \cup {NoRow}]
  /\ changed \subseteq Stats /\ (flush = NoFlush \/ flush \in Stats \X Dates)
  /\ tree \in [Reporters -> [at : {"none", "tree", "insert", "record", "write"},
                             date : 0 .. MaxReports, kids : 0 .. 2, next : Codes]]
  /\ pull \in [at : {"none", "names", "read", "push", "put"},
               todo : SUBSET (Reporters \cup Tests), left : SUBSET Stats,
               got : SUBSET (Stats \X Dates), put : {<<>>} \cup (Stats \X Dates)]
  /\ reports \in 0 .. MaxReports /\ breaks \in 0 .. MaxBreaks /\ pulls \in 0 .. MaxPulls
  /\ told \in [Stats -> Dates \cup {NoRow}] /\ excused \subseteq Stats

\* A statistic a reporter has finished with is in vault once its row is no
\* longer on its way (dataFlowStatistics.go:570-580: "We want all statistics to
\* be written during registrations").  Excused are those whose own call failed,
\* whose row was wiped by a restart of the flow before it was read for vault,
\* was written over by a fill that had looked before, or was written to vault
\* while an older one was on its way, and what was in memory alone.
KeptInVault ==
  \A s \in Stats :
    told[s] # NoRow /\ ~Pending(s) /\ ~UnderWay(s) /\ s \notin excused => saved[s] = told[s]
=============================================================================
