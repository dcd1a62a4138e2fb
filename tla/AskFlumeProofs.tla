---------------------------- MODULE AskFlumeProofs ----------------------------
(***************************************************************************)
(* Proofs about the statistics (DataFlowStatistics) and the questions      *)
(* about them (AskFlume): every type, that what a reporter has finished    *)
(* with is in vault, and that the turn goes around with the question; and  *)
(* of the four sessions of MCTrcdbBackend, with what TrcdbBackendProofs    *)
(* shows of the first two.  For any number of reporters, tests and         *)
(* questions, and any bound on trees, fills and failures.                  *)
(***************************************************************************)
EXTENDS MCTrcdbBackend, TrcdbBackendProofs, FiniteSetTheorems

-----------------------------------------------------------------------------
(* The inductive invariant of the statistics. *)

(* A tree that is complete is put into the table; between its statement and   *)
(* its change row nobody else has written the row, or the row is excused.     *)
Trees ==
  \A f \in Reporters :
    /\ tree[f].at \in {"insert", "record", "write"} => tree[f].kids = 2
    /\ tree[f].at = "record" =>
         /\ prepared
         /\ Mine(f) \notin excused => rows[Mine(f)] = tree[f].date

(* What is to be read from vault is there, and what is put was looked up. *)
Pulled ==
  /\ \A s \in pull.left : saved[s] # NoRow
  /\ pull.at = "put" => pull.put \in Stats \X Dates

(* A change whose row is not there was wiped with the table. *)
Changes ==
  /\ \A s \in changed : rows[s] = NoRow => s \in excused
  /\ ~prepared => changed = {}

(* The date a reporter finished with is in the row that is still a change, in  *)
(* the row that is on its way, or in vault.                                    *)
Reported ==
  \A s \in Stats \ excused :
    told[s] # NoRow /\ ~UnderWay(s) =>
      IF s \in changed THEN rows[s] = told[s]
      ELSE IF flush # NoFlush /\ flush[1] = s THEN flush[2] = told[s]
      ELSE saved[s] = told[s]

StatInv == StatTypeOK /\ Trees /\ Pulled /\ Changes /\ Reported

-----------------------------------------------------------------------------
(* The inductive invariant of the questions. *)

ClientTurn == flumeClient \in {"call", "proxy", "query"}
CaseTurn   == flowCase \notin {NoCase, sender}

(* One has the turn, or none; *)
OneTurn ==
  /\ ~(ClientTurn /\ CaseTurn) /\ ~(ClientTurn /\ sending # {}) /\ ~(ClientTurn /\ receiver = "upsert")
  /\ ~(CaseTurn /\ sending # {}) /\ ~(CaseTurn /\ receiver = "upsert")
  /\ ~(sending # {} /\ receiver = "upsert")

(* and what goes around is the case of the element, about the question taken   *)
(* last: in the element, in the reply, in FlowCase and in what is sent.        *)
OneQuestion ==
  /\ element.name # "get" => element.about = latest
  /\ flumeClient = "query" => reply = [name |-> Case[element.name], about |-> latest]
  /\ CaseTurn => flowCase = Case[element.name] /\ query = latest
  /\ \A c \in sending : c = Case[element.name] /\ query = latest

-----------------------------------------------------------------------------
(* The statistics: dates, codes and trees. *)

Tree == [at : {"none", "tree", "insert", "record", "write"},
         date : 0 .. MaxReports, kids : 0 .. 2, next : Codes]
Fill == [at : {"none", "names", "read", "push", "put"},
         todo : SUBSET (Reporters \cup Tests), left : SUBSET Stats,
         got : SUBSET (Stats \X Dates), put : {<<>>} \cup (Stats \X Dates)]

LEMMA DateFacts ==
  /\ 0 .. MaxReports \subseteq Dates /\ NoDate \in Dates /\ GroupDate \in Dates /\ NoRow \notin Dates
  /\ Cardinality(Codes) = 2 /\ Codes = {1, 2}
  /\ \A f \in Reporters, c \in Codes : <<f, c>> \in Stats
<1>1. 0 .. MaxReports \subseteq Dates /\ NoDate \in Dates /\ GroupDate \in Dates /\ NoRow \notin Dates
  BY StatisticsAssumption DEF Dates, GroupDate, NoDate
<1>2. Cardinality(Codes) = 2
  <2>1. IsFiniteSet({1}) /\ Cardinality({1}) = 1
    BY FS_Singleton
  <2>2. Cardinality({1} \cup {2}) = 2
    BY <2>1, FS_AddElement
  <2>3. Codes = {1} \cup {2}
    BY DEF Codes
  <2> QED BY <2>2, <2>3
<1> QED BY <1>1, <1>2 DEF Codes, Stats

LEMMA StatTypes ==
  ASSUME StatTypeOK
  PROVE  /\ tree \in [Reporters -> Tree] /\ pull \in Fill
         /\ rows \in [Stats -> Dates \cup {NoRow}] /\ saved \in [Stats -> Dates \cup {NoRow}]
         /\ told \in [Stats -> Dates \cup {NoRow}]
         /\ \A f \in Reporters : Mine(f) \in Stats /\ tree[f].date \in Dates /\ tree[f].date # NoRow
         /\ \A f, g \in Reporters : Mine(f) = Mine(g) => f = g
<1>1. tree \in [Reporters -> Tree] /\ pull \in Fill
  BY DEF StatTypeOK, Tree, Fill
<1>2. \A f \in Reporters : tree[f].date \in 0 .. MaxReports /\ tree[f].next \in Codes
  BY <1>1 DEF Tree
<1>3. \A f \in Reporters : Mine(f) \in Stats /\ tree[f].date \in Dates /\ tree[f].date # NoRow
  BY <1>2, DateFacts DEF Mine
<1> QED BY <1>1, <1>3 DEF StatTypeOK, Mine

LEMMA StatInitial == StatInit => StatInv
<1> SUFFICES ASSUME StatInit PROVE StatInv
  OBVIOUS
<1>0. NoTree \in Tree /\ NoPull \in Fill
  BY StatisticsAssumption DEF NoTree, NoPull, Tree, Fill, Codes, NoDate
<1>1. StatTypeOK
  <2>1. tree \in [Reporters -> Tree] /\ pull \in Fill
    BY <1>0 DEF StatInit
  <2>2. saved \in [Stats -> Dates \cup {NoRow}]
    BY DateFacts DEF StatInit
  <2>3. /\ up \in BOOLEAN /\ prepared \in BOOLEAN /\ rows \in [Stats -> Dates \cup {NoRow}]
        /\ changed \subseteq Stats /\ flush = NoFlush /\ excused \subseteq Stats
        /\ told \in [Stats -> Dates \cup {NoRow}]
    BY DEF StatInit
  <2>4. reports \in 0 .. MaxReports /\ breaks \in 0 .. MaxBreaks /\ pulls \in 0 .. MaxPulls
    BY StatisticsAssumption DEF StatInit
  <2> QED BY <2>1, <2>2, <2>3, <2>4 DEF StatTypeOK, Tree, Fill
<1>2. Trees /\ Pulled /\ Changes /\ Reported
  BY DEF StatInit, Trees, Pulled, Changes, Reported, NoTree, NoPull
<1> QED BY <1>1, <1>2 DEF StatInv

(* The rows between their statement and their change row, when one tree moves. *)
LEMMA UnderWayBut ==
  ASSUME NEW f \in Reporters,
         \A g \in Reporters \ {f} : tree'[g] = tree[g],
         tree[f].at # "record", tree'[f].at # "record"
  PROVE  \A s : UnderWay(s)' <=> UnderWay(s)
<1>1. \A g \in Reporters : tree'[g].at = "record" => g # f /\ tree'[g] = tree[g]
  OBVIOUS
<1>2. \A g \in Reporters : tree[g].at = "record" => g # f /\ tree'[g] = tree[g]
  OBVIOUS
<1> QED BY <1>1, <1>2 DEF UnderWay, Mine

-----------------------------------------------------------------------------
(* The steps of the statistics. *)

LEMMA FlushKeeps ==
  ASSUME StatInv,
         PrepareTables \/ TruncateTable \/ FlushStore \/ \E s \in Stats : FlushRead(s)
  PROVE  StatInv'
<1> USE DEF countVars, tableVars
<1>0. /\ StatTypeOK /\ Trees /\ Pulled /\ Changes /\ Reported
      /\ rows \in [Stats -> Dates \cup {NoRow}] /\ saved \in [Stats -> Dates \cup {NoRow}]
      /\ NoRow \notin Dates /\ NoFlush = <<>>
  BY StatTypes, DateFacts DEF StatInv, NoFlush
<1>1. CASE PrepareTables
  <2>1. /\ UNCHANGED <<up, rows, saved, flush, tree, pull, countVars, told, excused>>
        /\ prepared' = TRUE /\ changed' = {} /\ changed = {}
    BY <1>0, <1>1 DEF PrepareTables, Changes
  <2>2. \A s : UnderWay(s)' <=> UnderWay(s)
    BY <2>1 DEF UnderWay, Mine
  <2>3. StatTypeOK'
    BY <1>0, <2>1 DEF StatTypeOK
  <2>4. Trees' /\ Pulled' /\ Changes'
    BY <1>0, <2>1 DEF Trees, Pulled, Changes, Mine
  <2>5. Reported'
    BY <1>0, <2>1, <2>2 DEF Reported
  <2> QED BY <2>3, <2>4, <2>5 DEF StatInv
<1>2. CASE FlushStore
  <2>1. /\ UNCHANGED <<up, tableVars, tree, pull, countVars, told, excused>>
        /\ flush # NoFlush /\ saved' = [saved EXCEPT ![flush[1]] = flush[2]] /\ flush' = NoFlush
    BY <1>2 DEF FlushStore
  <2>2. flush \in Stats \X Dates
    BY <1>0, <2>1 DEF StatTypeOK
  <2>3. /\ saved' \in [Stats -> Dates \cup {NoRow}] /\ saved'[flush[1]] = flush[2] /\ flush[2] # NoRow
        /\ \A s \in Stats : s # flush[1] => saved'[s] = saved[s]
    BY <1>0, <2>1, <2>2
  <2>4. \A s : UnderWay(s)' <=> UnderWay(s)
    BY <2>1 DEF UnderWay, Mine
  <2>5. StatTypeOK'
    BY <1>0, <2>1, <2>3 DEF StatTypeOK
  <2>6. Trees' /\ Changes'
    BY <1>0, <2>1 DEF Trees, Changes, Mine
  <2>7. Pulled'
    <3>1. pull.left \subseteq Stats
      BY <1>0 DEF StatTypeOK
    <3>2. \A s \in Stats : saved[s] # NoRow => saved'[s] # NoRow
      BY <2>3
    <3> QED BY <1>0, <2>1, <3>1, <3>2 DEF Pulled
  <2>8. Reported'
    BY <1>0, <2>1, <2>3, <2>4 DEF Reported
  <2> QED BY <2>5, <2>6, <2>7, <2>8 DEF StatInv
<1>3. ASSUME NEW s \in Stats, FlushRead(s) PROVE StatInv'
  <2>1. /\ UNCHANGED <<up, prepared, rows, saved, tree, pull, countVars, told, excused>>
        /\ s \in changed /\ flush = NoFlush /\ changed' = changed \ {s}
        /\ flush' = IF rows[s] = NoRow THEN NoFlush ELSE <<s, rows[s]>>
    BY <1>3 DEF FlushRead
  <2>2. \/ rows[s] = NoRow /\ flush' = NoFlush /\ s \in excused
        \/ /\ rows[s] \in Dates
           /\ flush'[1] = s /\ flush'[2] = rows[s] /\ flush' # NoFlush /\ flush' = <<s, rows[s]>>
    BY <1>0, <2>1 DEF Changes
  <2>3. \A q : UnderWay(q)' <=> UnderWay(q)
    BY <2>1 DEF UnderWay, Mine
  <2>4. StatTypeOK'
    BY <1>0, <2>1, <2>2 DEF StatTypeOK
  <2>5. Trees' /\ Changes' /\ Pulled'
    BY <1>0, <2>1 DEF Trees, Changes, Pulled, Mine
  <2>6. Reported'
    BY <1>0, <2>1, <2>2, <2>3 DEF Reported
  <2> QED BY <2>4, <2>5, <2>6 DEF StatInv
<1>4. CASE TruncateTable
  <2>1. /\ UNCHANGED <<up, prepared, changed, saved, flush, tree, pull, countVars, told>>
        /\ rows' = [s \in Stats |-> NoRow]
        /\ excused' = excused \cup {s \in Stats : s \in changed \/ UnderWay(s)}
    BY <1>4 DEF TruncateTable
  <2>2. \A s : UnderWay(s)' <=> UnderWay(s)
    BY <2>1 DEF UnderWay, Mine
  <2>3. StatTypeOK'
    BY <1>0, <2>1 DEF StatTypeOK
  <2>4. Trees'
    <3>1. \A f \in Reporters : tree[f].at = "record" => Mine(f) \in excused'
      BY <2>1, StatTypes, <1>0 DEF UnderWay, StatInv
    <3>2. \A f \in Reporters : Mine(f)' = Mine(f)
      BY <2>1 DEF Mine
    <3> QED BY <1>0, <2>1, <3>1, <3>2 DEF Trees
  <2>5. Pulled' /\ Changes'
    BY <1>0, <2>1 DEF Pulled, Changes, StatTypeOK
  <2>6. Reported'
    BY <1>0, <2>1, <2>2 DEF Reported
  <2> QED BY <2>3, <2>4, <2>5, <2>6 DEF StatInv
<1> QED BY <1>1, <1>2, <1>3, <1>4

LEMMA TreeKeeps ==
  ASSUME StatInv, NEW f \in Reporters,
         InitDataFlow(f) \/ UpdateDataFlowStatistic(f) \/ FinishStatistic(f)
  PROVE  StatInv'
<1> USE DEF countVars, tableVars
<1>0. StatTypeOK /\ Trees /\ Pulled /\ Changes /\ Reported /\ tree \in [Reporters -> Tree]
  BY StatTypes DEF StatInv
<1>1. /\ UNCHANGED <<up, tableVars, saved, flush, pull, breaks, pulls, told, excused>>
      /\ tree[f].at \in {"none", "tree"} /\ reports' \in 0 .. MaxReports
      /\ tree' \in [Reporters -> Tree] /\ tree'[f].at \in {"tree", "insert"}
      /\ tree'[f].at = "insert" => tree'[f].kids = 2
      /\ \A g \in Reporters \ {f} : tree'[g] = tree[g]
  <2>1. CASE InitDataFlow(f)
    <3>1. reports + 1 \in 0 .. MaxReports
      BY <1>0, <2>1, StatisticsAssumption DEF InitDataFlow, StatTypeOK
    <3>2. [NoTree EXCEPT !.at = "tree", !.date = reports + 1] \in Tree
      <4>1. NoTree \in Tree
        BY StatisticsAssumption, DateFacts DEF NoTree, Tree, NoDate
      <4> HIDE DEF NoTree
      <4> QED BY <3>1, <4>1 DEF Tree
    <3> QED BY <1>0, <2>1, <3>1, <3>2 DEF InitDataFlow, NoTree
  <2>2. CASE UpdateDataFlowStatistic(f)
    <3>1. tree[f].kids < 2 /\ tree[f] \in Tree /\ tree[f].at = "tree"
      BY <1>0, <2>2, DateFacts DEF UpdateDataFlowStatistic
    <3>2. [tree[f] EXCEPT !.kids = @ + 1] \in Tree
      BY <3>1 DEF Tree
    <3>3. tree' = [tree EXCEPT ![f] = [tree[f] EXCEPT !.kids = @ + 1]]
      BY <2>2 DEF UpdateDataFlowStatistic
    <3>4. [tree[f] EXCEPT !.kids = @ + 1].at = "tree"
      BY <3>1 DEF Tree
    <3> QED BY <1>0, <2>2, <3>1, <3>2, <3>3, <3>4 DEF UpdateDataFlowStatistic, StatTypeOK
  <2>3. CASE FinishStatistic(f)
    <3>1. tree[f].kids = 2 /\ tree[f] \in Tree /\ tree[f].at = "tree"
      BY <1>0, <2>3, DateFacts DEF FinishStatistic
    <3>2. [tree[f] EXCEPT !.at = "insert"] \in Tree
      BY <3>1 DEF Tree
    <3>3. tree' = [tree EXCEPT ![f] = [tree[f] EXCEPT !.at = "insert"]]
      BY <2>3 DEF FinishStatistic
    <3>4. /\ [tree[f] EXCEPT !.at = "insert"].at = "insert"
          /\ [tree[f] EXCEPT !.at = "insert"].kids = 2
      BY <3>1 DEF Tree
    <3> QED BY <1>0, <2>3, <3>1, <3>2, <3>3, <3>4 DEF FinishStatistic, StatTypeOK
  <2> QED BY <2>1, <2>2, <2>3
<1>2. StatTypeOK'
  BY <1>0, <1>1 DEF StatTypeOK, Tree
<1>3. Trees'
  <2> SUFFICES ASSUME NEW g \in Reporters
               PROVE  /\ tree'[g].at \in {"insert", "record", "write"} => tree'[g].kids = 2
                      /\ tree'[g].at = "record" =>
                           /\ prepared'
                           /\ Mine(g)' \notin excused' => rows'[Mine(g)'] = tree'[g].date
    BY DEF Trees
  <2>1. CASE g = f
    BY <1>1, <2>1
  <2>2. CASE g # f
    BY <1>0, <1>1, <2>2 DEF Trees, Mine
  <2> QED BY <2>1, <2>2
<1>4. Pulled' /\ Changes'
  BY <1>0, <1>1 DEF Pulled, Changes
<1>5. \A s : UnderWay(s)' <=> UnderWay(s)
  BY <1>1, UnderWayBut
<1>6. Reported'
  BY <1>0, <1>1, <1>5 DEF Reported
<1> QED BY <1>2, <1>3, <1>4, <1>6 DEF StatInv

LEMMA InsertKeeps ==
  ASSUME StatInv, NEW f \in Reporters, InsertStatistic(f)
  PROVE  StatInv'
<1> USE DEF countVars, tableVars
<1> DEFINE m == Mine(f)
           moved(l) == tree' = [tree EXCEPT ![f] = [tree[f] EXCEPT !.at = l]]
<1>0. /\ StatTypeOK /\ Trees /\ Pulled /\ Changes /\ Reported /\ tree \in [Reporters -> Tree]
      /\ rows \in [Stats -> Dates \cup {NoRow}] /\ m \in Stats /\ changed \subseteq Stats
      /\ tree[f].date \in Dates /\ tree[f].date # NoRow
      /\ \A g \in Reporters \ {f} : Mine(g) # m
  BY StatTypes DEF StatInv, StatTypeOK
<1>1. /\ UNCHANGED <<up, prepared, saved, flush, pull, reports, pulls, told>>
      /\ tree[f].at = "insert" /\ tree[f].kids = 2 /\ tree[f] \in Tree
  BY <1>0 DEF InsertStatistic, Trees
<1>2. \A l \in {"record", "write"} :
        /\ [tree[f] EXCEPT !.at = l] \in Tree
        /\ [tree[f] EXCEPT !.at = l].at = l /\ [tree[f] EXCEPT !.at = l].kids = 2
        /\ [tree[f] EXCEPT !.at = l].date = tree[f].date /\ [tree[f] EXCEPT !.at = l].next = tree[f].next
  BY <1>1 DEF Tree
<1>3. ASSUME NEW l \in {"record", "write"}, moved(l)
      PROVE  /\ tree' \in [Reporters -> Tree] /\ tree'[f].at = l /\ tree'[f].kids = 2
             /\ tree'[f].date = tree[f].date /\ \A g \in Reporters \ {f} : tree'[g] = tree[g]
             /\ \A g \in Reporters : Mine(g)' = Mine(g)
  <2>1. tree'[f] = [tree[f] EXCEPT !.at = l] /\ \A g \in Reporters \ {f} : tree'[g] = tree[g]
    BY <1>0, <1>3
  <2>2. tree' \in [Reporters -> Tree]
    BY <1>0, <1>2, <1>3
  <2> QED BY <1>2, <2>1, <2>2 DEF Mine
<1>4. CASE /\ prepared /\ rows' = [rows EXCEPT ![m] = tree[f].date]
           /\ changed' \in {changed, changed \cup {m}} /\ moved("record")
           /\ excused' = excused \ {m} /\ UNCHANGED breaks
  <2>1. /\ tree' \in [Reporters -> Tree] /\ tree'[f].at = "record" /\ tree'[f].kids = 2
        /\ tree'[f].date = tree[f].date /\ \A g \in Reporters \ {f} : tree'[g] = tree[g]
        /\ \A g \in Reporters : Mine(g)' = Mine(g)
    BY <1>3, <1>4
  <2>2. /\ rows' \in [Stats -> Dates \cup {NoRow}] /\ rows'[m] = tree[f].date
        /\ \A s \in Stats : s # m => rows'[s] = rows[s]
    BY <1>0, <1>4
  <2>3. changed' \subseteq Stats /\ \A s : s # m => (s \in changed' <=> s \in changed)
    BY <1>0, <1>4
  <2>4. StatTypeOK'
    BY <1>0, <1>1, <1>4, <2>1, <2>2, <2>3 DEF StatTypeOK, Tree
  <2>5. Trees'
    <3> SUFFICES ASSUME NEW g \in Reporters
                 PROVE  /\ tree'[g].at \in {"insert", "record", "write"} => tree'[g].kids = 2
                        /\ tree'[g].at = "record" =>
                             /\ prepared'
                             /\ Mine(g)' \notin excused' => rows'[Mine(g)'] = tree'[g].date
      BY DEF Trees
    <3>1. CASE g = f
      BY <1>0, <1>1, <1>4, <2>1, <2>2, <3>1
    <3>2. CASE g # f
      <4>1. Mine(g) \in Stats /\ Mine(g) # m /\ Mine(g)' = Mine(g) /\ tree'[g] = tree[g]
        BY <1>0, <2>1, <3>2, StatTypes
      <4> QED BY <1>0, <1>1, <1>4, <2>2, <4>1 DEF Trees
    <3> QED BY <3>1, <3>2
  <2>6. Pulled' /\ Changes'
    BY <1>0, <1>1, <1>4, <2>2, <2>3 DEF Pulled, Changes
  <2>7. \A s : s # m => (UnderWay(s)' <=> UnderWay(s))
    <3> TAKE s
    <3>1. \A g \in Reporters : Mine(g) = s /\ s # m => tree'[g] = tree[g]
      BY <2>1
    <3> QED BY <2>1, <3>1 DEF UnderWay
  <2>8. \A s : s = m => UnderWay(s)'
    BY <2>1 DEF UnderWay
  <2>9. Reported'
    <3>1. ASSUME NEW s \in Stats \ excused', s # m, told'[s] # NoRow, ~UnderWay(s)'
          PROVE  IF s \in changed' THEN rows'[s] = told'[s]
                 ELSE IF flush' # NoFlush /\ flush'[1] = s THEN flush'[2] = told'[s]
                 ELSE saved'[s] = told'[s]
      BY <1>0, <1>1, <1>4, <2>2, <2>3, <2>7, <3>1 DEF Reported
    <3> QED BY <2>8, <3>1 DEF Reported
  <2> QED BY <2>4, <2>5, <2>6, <2>9 DEF StatInv
<1>5. CASE moved("write") /\ UNCHANGED <<rows, changed, excused>> /\ breaks' \in 0 .. MaxBreaks
  <2>1. /\ tree' \in [Reporters -> Tree] /\ tree'[f].at = "write" /\ tree'[f].kids = 2
        /\ \A g \in Reporters \ {f} : tree'[g] = tree[g]
        /\ \A g \in Reporters : Mine(g)' = Mine(g)
    BY <1>3, <1>5
  <2>2. StatTypeOK'
    BY <1>0, <1>1, <1>5, <2>1 DEF StatTypeOK, Tree
  <2>3. Trees'
    BY <1>0, <1>1, <1>5, <2>1 DEF Trees
  <2>4. \A s : UnderWay(s)' <=> UnderWay(s)
    BY <1>1, <2>1, UnderWayBut
  <2>5. Pulled' /\ Changes' /\ Reported'
    BY <1>0, <1>1, <1>5, <2>4 DEF Pulled, Changes, Reported
  <2> QED BY <2>2, <2>3, <2>5 DEF StatInv
<1>6. breaks' \in 0 .. MaxBreaks
  BY <1>0, StatisticsAssumption DEF InsertStatistic, Breaks, StatTypeOK
<1> QED BY <1>4, <1>5, <1>6 DEF InsertStatistic, Unchanged

(* A reporter goes on to its next statistic, or its tree is done with. *)
LEMMA OnwardFacts ==
  ASSUME StatTypeOK, Trees, NEW f \in Reporters, tree[f].at \in {"record", "write"}, Onward(f)
  PROVE  /\ tree' \in [Reporters -> Tree] /\ \A g \in Reporters \ {f} : tree'[g] = tree[g]
         /\ tree'[f].at \in {"none", "insert"} /\ (tree'[f].at = "insert" => tree'[f].kids = 2)
         /\ told' \in [Stats -> Dates \cup {NoRow}] /\ told'[Mine(f)] = tree[f].date
         /\ \A s \in Stats : s # Mine(f) => told'[s] = told[s]
<1>0. /\ tree \in [Reporters -> Tree] /\ told \in [Stats -> Dates \cup {NoRow}]
      /\ Mine(f) \in Stats /\ tree[f].date \in Dates
  BY StatTypes
<1>1. tree[f] \in Tree /\ tree[f].kids = 2 /\ tree[f].next \in {1, 2}
  BY <1>0, DateFacts DEF Trees, Tree
<1>2. /\ told' = [told EXCEPT ![Mine(f)] = tree[f].date]
      /\ tree' = [tree EXCEPT ![f] = IF tree[f].next = tree[f].kids THEN NoTree
                                     ELSE [tree[f] EXCEPT !.at = "insert", !.next = @ + 1]]
  BY DEF Onward
<1>3. NoTree \in Tree /\ NoTree.at = "none"
  BY StatisticsAssumption, DateFacts DEF NoTree, Tree, NoDate
<1>4. tree[f].next # 2 =>
        /\ [tree[f] EXCEPT !.at = "insert", !.next = @ + 1] \in Tree
        /\ [tree[f] EXCEPT !.at = "insert", !.next = @ + 1].at = "insert"
        /\ [tree[f] EXCEPT !.at = "insert", !.next = @ + 1].kids = 2
  <2>1. tree[f].next # 2 => tree[f].next + 1 \in Codes
    BY <1>1, DateFacts
  <2> QED BY <1>1, <2>1 DEF Tree
<1>5. /\ tree' \in [Reporters -> Tree] /\ \A g \in Reporters \ {f} : tree'[g] = tree[g]
      /\ tree'[f] = IF tree[f].next = 2 THEN NoTree
                    ELSE [tree[f] EXCEPT !.at = "insert", !.next = @ + 1]
  BY <1>0, <1>1, <1>2, <1>3, <1>4
<1>6. tree'[f].at \in {"none", "insert"} /\ (tree'[f].at = "insert" => tree'[f].kids = 2)
  BY <1>3, <1>4, <1>5
<1> QED BY <1>0, <1>2, <1>5, <1>6

LEMMA RecordKeeps ==
  ASSUME StatInv, NEW f \in Reporters, RecordStatistic(f) \/ WriteStatistic(f)
  PROVE  StatInv'
<1> USE DEF countVars, tableVars
<1> DEFINE m == Mine(f)
<1>0. /\ StatTypeOK /\ Trees /\ Pulled /\ Changes /\ Reported
      /\ tree \in [Reporters -> Tree] /\ saved \in [Stats -> Dates \cup {NoRow}]
      /\ m \in Stats /\ changed \subseteq Stats /\ excused \subseteq Stats
      /\ tree[f].date \in Dates /\ tree[f].date # NoRow
      /\ \A g \in Reporters \ {f} : Mine(g) # m
      /\ \A g \in Reporters : Mine(g) \in Stats
  BY StatTypes DEF StatInv, StatTypeOK
<1>1. /\ tree[f].at \in {"record", "write"} /\ Onward(f)
      /\ UNCHANGED <<up, prepared, rows, flush, pull, reports, pulls>>
  BY DEF RecordStatistic, WriteStatistic
<1>2. /\ tree' \in [Reporters -> Tree] /\ \A g \in Reporters \ {f} : tree'[g] = tree[g]
      /\ tree'[f].at \in {"none", "insert"} /\ (tree'[f].at = "insert" => tree'[f].kids = 2)
      /\ told' \in [Stats -> Dates \cup {NoRow}] /\ told'[m] = tree[f].date
      /\ \A s \in Stats : s # m => told'[s] = told[s]
  BY <1>0, <1>1, OnwardFacts
<1>3. /\ breaks' \in 0 .. MaxBreaks
      /\ changed' \in {changed, changed \cup {m}} /\ saved' \in {saved, [saved EXCEPT ![m] = tree[f].date]}
      /\ excused' \in {excused, excused \cup {m}, excused \ {m}}
  BY <1>0, StatisticsAssumption DEF RecordStatistic, WriteStatistic, Breaks, StatTypeOK
<1>4. /\ saved' \in [Stats -> Dates \cup {NoRow}] /\ \A s \in Stats : s # m => saved'[s] = saved[s]
      /\ changed' \subseteq Stats /\ excused' \subseteq Stats
      /\ \A s \in Stats : s # m => (s \in changed' <=> s \in changed) /\ (s \in excused' <=> s \in excused)
  BY <1>0, <1>3
<1>5. StatTypeOK'
  BY <1>0, <1>1, <1>2, <1>3, <1>4 DEF StatTypeOK, Tree
<1>6. Trees'
  <2> SUFFICES ASSUME NEW g \in Reporters
               PROVE  /\ tree'[g].at \in {"insert", "record", "write"} => tree'[g].kids = 2
                      /\ tree'[g].at = "record" =>
                           /\ prepared'
                           /\ Mine(g)' \notin excused' => rows'[Mine(g)'] = tree'[g].date
    BY DEF Trees
  <2>1. CASE g = f
    BY <1>2, <2>1
  <2>2. CASE g # f
    <3>1. tree'[g] = tree[g] /\ Mine(g)' = Mine(g) /\ Mine(g) # m /\ Mine(g) \in Stats
      BY <1>0, <1>2, <2>2 DEF Mine
    <3> QED BY <1>0, <1>1, <1>4, <3>1 DEF Trees
  <2> QED BY <2>1, <2>2
<1>7. \A s : s # m => (UnderWay(s)' <=> UnderWay(s))
  <2> TAKE s
  <2>1. \A g \in Reporters \ {f} : tree'[g] = tree[g] /\ Mine(g)' = Mine(g)
    BY <1>2 DEF Mine
  <2> QED BY <1>2, <2>1 DEF UnderWay
<1>8. ASSUME NEW s \in Stats \ excused', s # m, told'[s] # NoRow, ~UnderWay(s)'
      PROVE  IF s \in changed' THEN rows'[s] = told'[s]
             ELSE IF flush' # NoFlush /\ flush'[1] = s THEN flush'[2] = told'[s]
             ELSE saved'[s] = told'[s]
  BY <1>0, <1>1, <1>2, <1>4, <1>7, <1>8 DEF Reported
<1>9. CASE RecordStatistic(f)
  <2>1. /\ tree[f].at = "record" /\ UNCHANGED saved
        /\ m \in excused' \/ (m \in changed' /\ UNCHANGED excused)
    BY <1>9 DEF RecordStatistic
  <2>2. prepared /\ (m \notin excused => rows[m] = tree[f].date)
    BY <1>0, <2>1 DEF Trees
  <2>3. Pulled' /\ Changes'
    BY <1>0, <1>1, <1>3, <2>1, <2>2 DEF Pulled, Changes
  <2>4. m \notin excused' => m \in changed' /\ rows'[m] = told'[m]
    BY <1>1, <1>2, <2>1, <2>2
  <2>5. Reported'
    BY <1>8, <2>4 DEF Reported
  <2> QED BY <1>5, <1>6, <2>3, <2>5 DEF StatInv
<1>10. CASE WriteStatistic(f)
  <2>1. /\ UNCHANGED changed
        /\ m \in excused' \/ (~Pending(m) /\ saved' = [saved EXCEPT ![m] = tree[f].date])
    BY <1>10 DEF WriteStatistic
  <2>2. Pulled' /\ Changes'
    <3>1. \A s \in pull.left : s \in Stats
      BY <1>0 DEF StatTypeOK
    <3>2. \A s \in Stats : saved[s] # NoRow => saved'[s] # NoRow
      BY <1>0, <1>3
    <3>3. Pulled'
      BY <1>0, <1>1, <3>1, <3>2 DEF Pulled
    <3>4. m \in changed => m \in excused'
      BY <2>1 DEF Pending
    <3>5. Changes'
      BY <1>0, <1>1, <1>4, <2>1, <3>4 DEF Changes
    <3> QED BY <3>3, <3>5
  <2>3. m \notin excused' => /\ m \notin changed' /\ ~(flush' # NoFlush /\ flush'[1] = m)
                             /\ saved'[m] = told'[m]
    BY <1>0, <1>1, <1>2, <2>1 DEF Pending
  <2>4. Reported'
    BY <1>8, <2>3 DEF Reported
  <2> QED BY <1>5, <1>6, <2>2, <2>4 DEF StatInv
<1> QED BY <1>9, <1>10

(* The fill, up to the statement that puts a row. *)
LEMMA PullKeeps ==
  ASSUME StatInv,
         \/ PullStart \/ PullEnds
         \/ \E n \in Reporters \cup Tests : Retrieve(n)
         \/ \E s \in Stats : RetrieveStatistic(s) \/ \E d \in Dates : LookUp(s, d)
  PROVE  StatInv'
<1> USE DEF countVars, tableVars, Pulling
<1>0. /\ StatTypeOK /\ Trees /\ Pulled /\ Changes /\ Reported /\ pull \in Fill
      /\ saved \in [Stats -> Dates \cup {NoRow}] /\ NoPull \in Fill
      /\ NoPull.left = {} /\ NoPull.at = "none"
  BY StatTypes DEF StatInv, NoPull, Fill
<1>1. /\ UNCHANGED <<up, prepared, rows, changed, saved, flush, tree, reports, told, excused>>
      /\ breaks' \in 0 .. MaxBreaks /\ pulls' \in 0 .. MaxPulls
  <2>1. UNCHANGED <<up, prepared, rows, changed, saved, flush, tree, reports, told, excused>>
    BY DEF PullStart, PullEnds, Retrieve, RetrieveStatistic, LookUp
  <2>2. breaks' = breaks \/ Breaks
    BY DEF PullStart, PullEnds, Retrieve, RetrieveStatistic, LookUp
  <2>3. pulls' = pulls \/ (pulls < MaxPulls /\ pulls' = pulls + 1)
    BY DEF PullStart, PullEnds, Retrieve, RetrieveStatistic, LookUp
  <2> QED BY <1>0, <2>1, <2>2, <2>3, StatisticsAssumption DEF StatTypeOK, Breaks
<1>2. pull' \in Fill /\ Pulled'
  <2>0. \A n : Known(n) \subseteq {s \in Stats : saved[s] # NoRow}
    BY DEF Known
  <2>1. CASE PullStart
    <3>1. pull' = [NoPull EXCEPT !.at = "names", !.todo = {n \in Reporters \cup Tests : Known(n) # {}}]
      BY <2>1 DEF PullStart
    <3> HIDE DEF NoPull
    <3>2. pull' \in Fill /\ pull'.left = {} /\ pull'.at = "names"
      BY <1>0, <3>1 DEF Fill
    <3> QED BY <3>2 DEF Pulled
  <2>2. CASE PullEnds
    BY <1>0, <2>2 DEF PullEnds, Pulled
  <2>3. ASSUME NEW n \in Reporters \cup Tests, Retrieve(n) PROVE pull' \in Fill /\ Pulled'
    <3>1. \/ pull' = [pull EXCEPT !.at = "read", !.todo = @ \ {n}, !.left = Known(n)]
          \/ pull' = [pull EXCEPT !.at = "push", !.todo = @ \ {n}]
      BY <2>3 DEF Retrieve
    <3>2. pull' \in Fill /\ pull'.at \in {"read", "push"} /\ pull'.left \in {Known(n), pull.left}
      <4> DEFINE names == pull.todo \ {n}
      <4>1. names \in SUBSET (Reporters \cup Tests) /\ Known(n) \in SUBSET Stats
        BY <1>0, <2>0 DEF Fill
      <4>2. \/ pull' = [pull EXCEPT !.at = "read", !.todo = names, !.left = Known(n)]
            \/ pull' = [pull EXCEPT !.at = "push", !.todo = names]
        BY <3>1
      <4> HIDE DEF names
      <4> QED BY <1>0, <4>1, <4>2 DEF Fill
    <3> QED BY <1>0, <1>1, <2>0, <3>2 DEF Pulled
  <2>4. ASSUME NEW s \in Stats, RetrieveStatistic(s) PROVE pull' \in Fill /\ Pulled'
    <3>1. s \in pull.left /\ saved[s] \in Dates
      BY <1>0, <2>4 DEF RetrieveStatistic, Pulled
    <3>2. \/ pull' = [pull EXCEPT !.left = @ \ {s}, !.got = @ \cup {<<s, saved[s]>>},
                                  !.at = IF pull.left = {s} THEN "push" ELSE "read"]
          \/ pull' = [pull EXCEPT !.left = {}, !.at = "push"]
      BY <2>4 DEF RetrieveStatistic
    <3>3. pull' \in Fill /\ pull'.at \in {"read", "push"} /\ pull'.left \in {{}, pull.left \ {s}}
      <4> DEFINE rest == pull.left \ {s}
                 read == pull.got \cup {<<s, saved[s]>>}
      <4>1. rest \in SUBSET Stats /\ read \in SUBSET (Stats \X Dates) /\ {} \in SUBSET Stats
        BY <1>0, <3>1 DEF Fill
      <4>2. \/ \E l \in {"push", "read"} : pull' = [pull EXCEPT !.left = rest, !.got = read, !.at = l]
            \/ pull' = [pull EXCEPT !.left = {}, !.at = "push"]
        BY <3>2
      <4>3. rest \in {{}, pull.left \ {s}}
        OBVIOUS
      <4> HIDE DEF rest, read
      <4> QED BY <1>0, <4>1, <4>2, <4>3 DEF Fill
    <3> QED BY <1>0, <1>1, <3>3 DEF Pulled
  <2>5. ASSUME NEW s \in Stats, NEW d \in Dates, LookUp(s, d) PROVE pull' \in Fill /\ Pulled'
    <3>1. PICK l \in {"put", "names", "push"} :
            pull' = [pull EXCEPT !.got = @ \ {<<s, d>>}, !.at = l, !.put = <<s, d>>]
      BY <2>5 DEF LookUp
    <3>2. pull' \in Fill /\ pull'.left = pull.left /\ pull'.put = <<s, d>>
      BY <1>0, <3>1 DEF Fill
    <3> QED BY <1>0, <1>1, <3>2 DEF Pulled
  <2> QED BY <2>1, <2>2, <2>3, <2>4, <2>5
<1>3. \A s : UnderWay(s)' <=> UnderWay(s)
  BY <1>1 DEF UnderWay, Mine
<1>4. StatTypeOK'
  BY <1>0, <1>1, <1>2 DEF StatTypeOK, Fill
<1>5. Trees' /\ Changes' /\ Reported'
  BY <1>0, <1>1, <1>3 DEF Trees, Changes, Reported, Mine
<1> QED BY <1>2, <1>4, <1>5 DEF StatInv

(* A row that is written over between its look-up and its statement is excused. *)
LEMMA PutKeeps ==
  ASSUME StatInv, PutStatistic
  PROVE  StatInv'
<1> USE DEF countVars, tableVars, Pulling
<1> DEFINE s == pull.put[1]
<1>0. /\ StatTypeOK /\ Trees /\ Pulled /\ Changes /\ Reported /\ pull \in Fill
      /\ rows \in [Stats -> Dates \cup {NoRow}] /\ excused \subseteq Stats /\ changed \subseteq Stats
      /\ \A f \in Reporters : Mine(f) \in Stats /\ tree[f].date # NoRow
  BY StatTypes DEF StatInv, StatTypeOK
<1>1. /\ UNCHANGED <<up, prepared, changed, saved, flush, tree, reports, pulls, told>>
      /\ pull.at = "put"
      /\ \E l \in {"names", "push"} : pull' = [pull EXCEPT !.at = l]
  BY DEF PutStatistic
<1>2. s \in Stats /\ pull.put[2] \in Dates
  BY <1>0, <1>1 DEF Pulled
<1>3. StatisticToMap(pull.put[2]) \subseteq Dates
  BY <1>2, DateFacts DEF StatisticToMap
<1>4. \/ /\ \E d \in Dates : rows' = [rows EXCEPT ![s] = d]
         /\ excused' = IF rows[s] = NoRow THEN excused ELSE excused \cup {s}
         /\ UNCHANGED breaks
      \/ Breaks /\ UNCHANGED <<rows, excused>>
  BY <1>3 DEF PutStatistic
<1>5. /\ rows' \in [Stats -> Dates \cup {NoRow}] /\ excused' \subseteq Stats /\ excused \subseteq excused'
      /\ \A q \in Stats : q # s => rows'[q] = rows[q]
      /\ rows'[s] = rows[s] \/ (rows'[s] # NoRow /\ (rows[s] = NoRow \/ s \in excused'))
  BY <1>0, <1>2, <1>4, DateFacts
<1>6. breaks' \in 0 .. MaxBreaks
  BY <1>0, <1>4, StatisticsAssumption DEF StatTypeOK, Breaks
<1>7. pull' \in Fill /\ pull'.at # "put" /\ pull'.left = pull.left
  BY <1>0, <1>1 DEF Fill
<1>8. StatTypeOK'
  BY <1>0, <1>1, <1>5, <1>6, <1>7 DEF StatTypeOK, Fill
<1>9. \A q : UnderWay(q)' <=> UnderWay(q)
  BY <1>1 DEF UnderWay, Mine
<1>10. Trees' /\ Pulled' /\ Changes'
  <2>1. \A f \in Reporters : Mine(f)' = Mine(f)
    BY <1>1 DEF Mine
  <2>2. Trees'
    BY <1>0, <1>1, <1>5, <2>1 DEF Trees
  <2>3. Pulled'
    BY <1>0, <1>1, <1>7 DEF Pulled
  <2>4. Changes'
    <3>1. \A q \in changed : rows'[q] = NoRow => rows[q] = NoRow
      BY <1>0, <1>5
    <3> QED BY <1>0, <1>1, <1>5, <3>1 DEF Changes
  <2> QED BY <2>2, <2>3, <2>4
<1>11. ASSUME NEW q \in Stats \ excused', told'[q] # NoRow, ~UnderWay(q)'
       PROVE  IF q \in changed' THEN rows'[q] = told'[q]
              ELSE IF flush' # NoFlush /\ flush'[1] = q THEN flush'[2] = told'[q]
              ELSE saved'[q] = told'[q]
  <2>1. q \in changed => rows[q] # NoRow
    BY <1>0, <1>5, <1>11 DEF Changes
  <2>2. q \in changed => rows'[q] = rows[q]
    BY <1>5, <1>11, <2>1
  <2> QED BY <1>0, <1>1, <1>5, <1>9, <1>11, <2>2 DEF Reported
<1> QED BY <1>8, <1>10, <1>11 DEF StatInv, Reported

(* What is lost when the process dies is excused. *)
LEMMA DiesKeeps ==
  ASSUME StatInv, Dies \/ Restart
  PROVE  StatInv'
<1> USE DEF countVars, tableVars
<1>0. StatTypeOK /\ Trees /\ Pulled /\ Changes /\ Reported
  BY DEF StatInv
<1>1. CASE Restart
  <2>1. up' \in BOOLEAN
        /\ UNCHANGED <<prepared, rows, changed, saved, flush, tree, pull, countVars, told, excused>>
    BY <1>1 DEF Restart
  <2>2. \A s : UnderWay(s)' <=> UnderWay(s)
    BY <2>1 DEF UnderWay, Mine
  <2>3. StatTypeOK'
    BY <1>0, <2>1 DEF StatTypeOK
  <2>4. Trees' /\ Pulled' /\ Changes' /\ Reported'
    BY <1>0, <2>1, <2>2 DEF Trees, Pulled, Changes, Reported, Mine
  <2> QED BY <2>3, <2>4 DEF StatInv
<1>2. CASE Dies
  <2>1. /\ up' = FALSE /\ prepared' = FALSE /\ rows' = [s \in Stats |-> NoRow] /\ changed' = {}
        /\ flush' = NoFlush /\ pull' = NoPull /\ tree' = [f \in Reporters |-> NoTree]
        /\ excused' = excused \cup {s \in Stats : Pending(s) \/ UnderWay(s)}
        /\ UNCHANGED <<saved, countVars, told>>
    BY <1>2 DEF Dies
  <2>2. NoTree \in Tree /\ NoTree.at = "none" /\ NoPull \in Fill /\ NoPull.left = {} /\ NoPull.at = "none"
    BY StatisticsAssumption, DateFacts DEF NoTree, NoPull, Tree, Fill, NoDate
  <2>3. StatTypeOK'
    BY <1>0, <2>1, <2>2 DEF StatTypeOK, Tree, Fill
  <2>4. Trees' /\ Pulled' /\ Changes'
    BY <2>1, <2>2 DEF Trees, Pulled, Changes
  <2>5. Reported'
    <3> SUFFICES ASSUME NEW s \in Stats \ excused', told'[s] # NoRow PROVE saved'[s] = told'[s]
      BY <2>1 DEF Reported
    <3>1. s \notin excused /\ ~Pending(s) /\ ~UnderWay(s)
      BY <2>1
    <3> QED BY <1>0, <2>1, <3>1 DEF Reported, Pending
  <2> QED BY <2>3, <2>4, <2>5 DEF StatInv
<1> QED BY <1>1, <1>2

LEMMA StatKeeps == ASSUME StatInv, StatNext PROVE StatInv'
BY FlushKeeps, TreeKeeps, InsertKeeps, RecordKeeps, PullKeeps, PutKeeps, DiesKeeps
   DEF StatNext, NothingRetrieved, Killed

LEMMA StatStutters == ASSUME StatInv, UNCHANGED statVars PROVE StatInv'
<1> USE DEF statVars, countVars, tableVars
<1>1. \A s : UnderWay(s)' <=> UnderWay(s)
  BY DEF UnderWay, Mine
<1>2. StatTypeOK'
  BY DEF StatInv, StatTypeOK
<1> QED BY <1>1, <1>2 DEF StatInv, Trees, Pulled, Changes, Reported, Mine

LEMMA InvKeptInVault == StatInv => KeptInVault
BY DEF StatInv, Reported, Pending, KeptInVault

-----------------------------------------------------------------------------
(* The questions. *)

ChatTypes ==
  /\ manual \in BOOLEAN /\ chatEvents \in Seq(Questions) /\ Len(chatEvents) <= EventLength
  /\ asked \in [Questions -> {"new", "posted", "queued", "taken", "answered", "empty", "parked"}]
  /\ flumeClient \in {"call", "proxy", "query", "wait", "ended"}
  /\ element \in [name : DOMAIN Case, about : Questions \cup {NoQuestion}, rows : BOOLEAN]
  /\ reply \in [name : Cases \cup {NoCase}, about : Questions \cup {NoQuestion}]
  /\ query \in Questions \cup {NoQuestion} /\ latest \in Questions \cup {NoQuestion}
  /\ flowCase \in Cases \cup {NoCase} /\ sender \in Cases \cup {NoCase}
  /\ sending \subseteq Cases /\ receiver \in {"listen", "upsert"} /\ eaten \in BOOLEAN

ChatInv == ChatTypes /\ OneTurn /\ OneQuestion

LEMMA CaseFacts ==
  /\ DOMAIN Case = {"get", "DialogFlow", "DialogFlowResponse", "GChatResponse"}
  /\ Case["get"] = "GChatQuery" /\ Case["DialogFlow"] = "DFQuery"
  /\ Case["DialogFlowResponse"] = "DFAnswer" /\ Case["GChatResponse"] = "GChatAnswer"
  /\ Cases = {"GChatQuery", "DFQuery", "DFAnswer", "GChatAnswer"}
  /\ NoCase \notin Cases
<1>1. DOMAIN Case = {"get", "DialogFlow", "DialogFlowResponse", "GChatResponse"}
  BY DEF Case
<1>2. /\ Case["get"] = "GChatQuery" /\ Case["DialogFlow"] = "DFQuery"
      /\ Case["DialogFlowResponse"] = "DFAnswer" /\ Case["GChatResponse"] = "GChatAnswer"
  BY DEF Case
<1>3. Cases = {"GChatQuery", "DFQuery", "DFAnswer", "GChatAnswer"}
  BY <1>1, <1>2 DEF Cases
<1> QED BY <1>1, <1>2, <1>3 DEF NoCase

LEMMA ElementFacts ==
  \A n, q, r : /\ Element(n, q, r).name = n /\ Element(n, q, r).about = q /\ Element(n, q, r).rows = r
               /\ n \in DOMAIN Case /\ q \in Questions \cup {NoQuestion} /\ r \in BOOLEAN =>
                    Element(n, q, r) \in [name : DOMAIN Case, about : Questions \cup {NoQuestion}, rows : BOOLEAN]
BY DEF Element

LEMMA ChatInitial == ChatInit => ChatInv
<1> SUFFICES ASSUME ChatInit PROVE ChatInv
  OBVIOUS
<1>1. /\ element \in [name : DOMAIN Case, about : Questions \cup {NoQuestion}, rows : BOOLEAN]
      /\ element.name = "get"
  <2>1. element = Element("get", NoQuestion, FALSE)
    BY DEF ChatInit, GetMessage
  <2>2. "get" \in DOMAIN Case
    BY CaseFacts
  <2>3. /\ Element("get", NoQuestion, FALSE)
              \in [name : DOMAIN Case, about : Questions \cup {NoQuestion}, rows : BOOLEAN]
        /\ Element("get", NoQuestion, FALSE).name = "get"
    BY <2>2 DEF Element
  <2> QED BY <2>1, <2>3
<1>2. ChatTypes
  <2>1. chatEvents = <<>> /\ <<>> \in Seq(Questions) /\ Len(<<>>) = 0 /\ 0 <= EventLength
    BY AskAssumption DEF ChatInit
  <2>2. NoReply \in [name : Cases \cup {NoCase}, about : Questions \cup {NoQuestion}]
    BY DEF NoReply
  <2>3. chatEvents \in Seq(Questions) /\ Len(chatEvents) <= EventLength
    BY <2>1
  <2> QED BY <1>1, <2>2, <2>3 DEF ChatInit, ChatTypes
<1>3. OneTurn /\ OneQuestion
  BY <1>1 DEF ChatInit, OneTurn, OneQuestion, ClientTurn, CaseTurn
<1> QED BY <1>2, <1>3 DEF ChatInv

LEMMA EndsKeeps == ASSUME ChatInv, SessionEnds PROVE ChatInv'
BY DEF ChatInv, ChatTypes, OneTurn, OneQuestion, ClientTurn, CaseTurn, SessionEnds, proxyVars

LEMMA UsersKeep ==
  ASSUME ChatInv, NEW q \in Questions, Post(q) \/ PubChatEvent(q)
  PROVE  ChatInv'
<1>1. /\ UNCHANGED <<manual, flumeVars, eaten, latest>>
      /\ asked' \in {[asked EXCEPT ![q] = "posted"], [asked EXCEPT ![q] = "queued"]}
      /\ \/ UNCHANGED chatEvents
         \/ Len(chatEvents) < EventLength /\ chatEvents' = Append(chatEvents, q)
  BY DEF Post, PubChatEvent
<1>2. /\ chatEvents \in Seq(Questions) /\ Len(chatEvents) \in Nat /\ Len(chatEvents) <= EventLength
      /\ EventLength \in Nat
  BY AskAssumption DEF ChatInv, ChatTypes
<1>3. chatEvents' \in Seq(Questions) /\ Len(chatEvents') <= EventLength
  BY <1>1, <1>2
<1>4. asked' \in [Questions -> {"new", "posted", "queued", "taken", "answered", "empty", "parked"}]
  BY <1>1 DEF ChatInv, ChatTypes
<1> QED BY <1>1, <1>3, <1>4 DEF flumeVars, ChatInv, ChatTypes, OneTurn, OneQuestion, ClientTurn, CaseTurn

LEMMA GetKeeps ==
  ASSUME ChatInv, NEW q \in Questions, getUserInput(q)
  PROVE  ChatInv'
<1>1. /\ UNCHANGED <<manual, element, query, flowCase, sender, sending, receiver, eaten>>
      /\ flumeClient = "proxy" /\ element.name = "get" /\ flumeClient' = "query"
      /\ reply' = [name |-> "GChatQuery", about |-> q] /\ latest' = q
      /\ asked' = [asked EXCEPT ![q] = "taken"]
      /\ UNCHANGED chatEvents \/ (chatEvents # <<>> /\ chatEvents' = Tail(chatEvents))
  BY DEF getUserInput, Answers
<1>2. chatEvents \in Seq(Questions) /\ Len(chatEvents) <= EventLength /\ EventLength \in Nat
  BY AskAssumption DEF ChatInv, ChatTypes
<1>3. chatEvents' \in Seq(Questions) /\ Len(chatEvents') <= EventLength
  <2>1. ASSUME chatEvents # <<>>
        PROVE  /\ Tail(chatEvents) \in Seq(Questions) /\ Len(Tail(chatEvents)) = Len(chatEvents) - 1
               /\ Len(chatEvents) \in Nat
    BY <1>2, <2>1
  <2>2. CASE chatEvents' = Tail(chatEvents) /\ chatEvents # <<>>
    BY <1>2, <2>1, <2>2
  <2> QED BY <1>1, <1>2, <2>2
<1>4. /\ asked' \in [Questions -> {"new", "posted", "queued", "taken", "answered", "empty", "parked"}]
      /\ reply' \in [name : Cases \cup {NoCase}, about : Questions \cup {NoQuestion}]
  BY <1>1, CaseFacts DEF ChatInv, ChatTypes
<1>5. ChatTypes'
  BY <1>1, <1>3, <1>4 DEF ChatInv, ChatTypes
<1>6. OneTurn' /\ ~CaseTurn' /\ sending' = {}
  BY <1>1 DEF ChatInv, OneTurn, ClientTurn, CaseTurn
<1>7. OneQuestion'
  BY <1>1, <1>6, CaseFacts DEF OneQuestion
<1> QED BY <1>5, <1>6, <1>7 DEF ChatInv

LEMMA ClientKeeps == ASSUME ChatInv, Client PROVE ChatInv'
<1>0. ChatTypes /\ OneTurn /\ OneQuestion
  BY DEF ChatInv
<1>1. CASE UpsertElements
  BY <1>0, <1>1 DEF UpsertElements, proxyVars, ChatInv, ChatTypes, OneTurn, OneQuestion, ClientTurn, CaseTurn
<1>2. CASE GetQuery
  <2>1. /\ UNCHANGED <<proxyVars, element, reply, sender, sending, receiver, eaten, latest>>
        /\ flumeClient = "query" /\ flumeClient' = "wait"
        /\ query' = reply.about /\ flowCase' = reply.name
    BY <1>2 DEF GetQuery, Announced
  <2>2. reply.about = latest /\ reply.name = Case[element.name]
    BY <1>0, <2>1 DEF OneQuestion
  <2>3. ChatTypes'
    BY <1>0, <2>1 DEF ChatTypes, proxyVars
  <2>4. OneTurn' /\ sending' = {}
    BY <1>0, <2>1 DEF OneTurn, ClientTurn, CaseTurn
  <2>5. OneQuestion'
    BY <1>0, <2>1, <2>2, <2>4 DEF OneQuestion
  <2> QED BY <2>3, <2>4, <2>5 DEF ChatInv
<1>3. CASE ProcessDF
  <2>1. /\ UNCHANGED <<proxyVars, element, query, flowCase, sender, sending, receiver, eaten, latest>>
        /\ flumeClient = "proxy" /\ flumeClient' = "query" /\ element.name # "get"
        /\ reply' = [name |-> Case[element.name], about |-> element.about]
        /\ element.name \in {"DialogFlow", "DialogFlowResponse"}
    BY <1>3 DEF ProcessDF, Answers
  <2>2. reply' \in [name : Cases \cup {NoCase}, about : Questions \cup {NoQuestion}]
    BY <1>0, <2>1, CaseFacts DEF ChatTypes
  <2>3. ChatTypes'
    BY <1>0, <2>1, <2>2 DEF ChatTypes, proxyVars
  <2>4. OneTurn' /\ ~CaseTurn' /\ sending' = {}
    BY <1>0, <2>1 DEF OneTurn, ClientTurn, CaseTurn
  <2>5. OneQuestion'
    BY <1>0, <2>1, <2>4 DEF OneQuestion
  <2> QED BY <2>3, <2>4, <2>5 DEF ChatInv
<1>4. CASE ProcessGChatAnswer
  <2>1. /\ UNCHANGED <<manual, chatEvents, element, query, flowCase, sender, sending, receiver, eaten, latest>>
        /\ flumeClient = "proxy" /\ flumeClient' = "query" /\ element.name = "GChatResponse"
        /\ reply' = [name |-> "GChatAnswer", about |-> element.about]
        /\ \E l \in {"answered", "empty", "parked"} : asked' = [asked EXCEPT ![element.about] = l]
    BY <1>4 DEF ProcessGChatAnswer, Answers
  <2>2. /\ reply' \in [name : Cases \cup {NoCase}, about : Questions \cup {NoQuestion}]
        /\ asked' \in [Questions -> {"new", "posted", "queued", "taken", "answered", "empty", "parked"}]
    BY <1>0, <2>1, CaseFacts, ZenonT(60) DEF ChatTypes
  <2>3. ChatTypes'
    BY <1>0, <2>1, <2>2 DEF ChatTypes
  <2>4. OneTurn' /\ ~CaseTurn' /\ sending' = {}
    BY <1>0, <2>1 DEF OneTurn, ClientTurn, CaseTurn
  <2>5. OneQuestion'
    BY <1>0, <2>1, <2>4, CaseFacts DEF OneQuestion
  <2> QED BY <2>3, <2>4, <2>5 DEF ChatInv
<1> QED BY <1>1, <1>2, <1>3, <1>4 DEF Client

LEMMA FailsKeeps == ASSUME ChatInv, UpsertFails PROVE ChatInv'
BY DEF ChatInv, UpsertFails, proxyVars, ChatTypes, OneTurn, OneQuestion, ClientTurn, CaseTurn

LEMMA SenderKeeps == ASSUME ChatInv, Sender PROVE ChatInv'
<1>0. ChatTypes /\ OneTurn /\ OneQuestion
  BY DEF ChatInv
<1>1. CASE SendCase
  <2>1. /\ UNCHANGED <<proxyVars, flumeClient, element, reply, query, flowCase, receiver, eaten, latest>>
        /\ sender = NoCase /\ flowCase # NoCase /\ sending' = sending \cup {flowCase} /\ sender' = flowCase
    BY <1>1 DEF SendCase
  <2>2. CaseTurn /\ ~CaseTurn'
    BY <2>1 DEF CaseTurn
  <2>3. ChatTypes'
    BY <1>0, <2>1 DEF ChatTypes, proxyVars
  <2>4. OneTurn' /\ sending' = {flowCase}
    BY <1>0, <2>1, <2>2 DEF OneTurn, ClientTurn
  <2>5. OneQuestion'
    BY <1>0, <2>1, <2>2, <2>4 DEF OneQuestion
  <2> QED BY <2>3, <2>4, <2>5 DEF ChatInv
<1>2. CASE ResetCase
  <2>1. /\ UNCHANGED <<proxyVars, flumeClient, element, reply, query, sending, receiver, latest>>
        /\ sender' = NoCase /\ flowCase' = NoCase /\ eaten' \in BOOLEAN
    BY <1>0, <1>2 DEF ResetCase, Reset, ChatTypes
  <2> QED BY <1>0, <2>1 DEF ChatInv, ChatTypes, OneTurn, OneQuestion, ClientTurn, CaseTurn, proxyVars
<1> QED BY <1>1, <1>2 DEF Sender

(* A handler works with the element and the query that its case is about. *)
LEMMA HandlerKeeps ==
  ASSUME ChatInv, NEW c, Receives(c),
         NEW n \in DOMAIN Case, NEW a \in Questions \cup {NoQuestion}, NEW r \in BOOLEAN,
         element' = Element(n, a, r), n # "get" => a = latest
  PROVE  ChatInv'
<1>0. ChatTypes /\ OneTurn /\ OneQuestion
  BY DEF ChatInv
<1>1. /\ UNCHANGED <<proxyVars, flumeClient, reply, query, flowCase, sender, eaten, latest>>
      /\ c \in sending /\ sending' = sending \ {c} /\ receiver' = "upsert"
  BY DEF Receives
<1>2. /\ element' \in [name : DOMAIN Case, about : Questions \cup {NoQuestion}, rows : BOOLEAN]
      /\ element'.name = n /\ element'.about = a
  BY ElementFacts
<1>3. ChatTypes'
  BY <1>0, <1>1, <1>2 DEF ChatTypes, proxyVars
<1>4. sending' = {}
  BY <1>0, <1>1 DEF OneQuestion
<1>5. OneTurn' /\ ~CaseTurn' /\ flumeClient' # "query"
  BY <1>0, <1>1, <1>4 DEF OneTurn, ClientTurn, CaseTurn
<1>6. OneQuestion'
  BY <1>1, <1>2, <1>4, <1>5 DEF OneQuestion
<1> QED BY <1>3, <1>5, <1>6 DEF ChatInv

LEMMA ReceiverKeeps == ASSUME ChatInv, Receiver PROVE ChatInv'
<1>0. /\ ChatTypes /\ OneTurn /\ OneQuestion /\ FailedRows \in BOOLEAN
      /\ element.about \in Questions \cup {NoQuestion} /\ element.rows \in BOOLEAN
      /\ query \in Questions \cup {NoQuestion}
  BY DEF ChatInv, ChatTypes, FailedRows
<1>a. /\ \A c \in sending : c = Case[element.name] /\ query = latest
      /\ element.name \in DOMAIN Case /\ (element.name # "get" => element.about = latest)
  BY <1>0 DEF OneQuestion, ChatTypes
<1>1. CASE handleGChatQuery
  <2>1. Receives("GChatQuery") /\ element' = Element("DialogFlow", query, element.rows) /\ query = latest
    BY <1>1, <1>a DEF handleGChatQuery, Receives
  <2> QED BY <1>0, <2>1, CaseFacts, HandlerKeeps
<1>2. CASE handleDFQuery
  <2>1. Receives("DFQuery") /\ element' = Element("DialogFlowResponse", element.about, FailedRows)
    BY <1>2 DEF handleDFQuery
  <2>2. element.name # "get"
    BY <1>a, <2>1, CaseFacts DEF Receives
  <2> QED BY <1>0, <1>a, <2>1, <2>2, CaseFacts, HandlerKeeps
<1>3. CASE handleDFAnswer
  <2>1. Receives("DFAnswer") /\ element' = Element("GChatResponse", element.about, element.rows)
    BY <1>3 DEF handleDFAnswer
  <2>2. element.name # "get"
    BY <1>a, <2>1, CaseFacts DEF Receives
  <2> QED BY <1>0, <1>a, <2>1, <2>2, CaseFacts, HandlerKeeps
<1>4. CASE handleGchatAnswer
  <2>1. Receives("GChatAnswer") /\ element' = Element("get", NoQuestion, FALSE)
    BY <1>4 DEF handleGchatAnswer, GetMessage
  <2> QED BY <2>1, CaseFacts, HandlerKeeps
<1>5. CASE NoResponse
  BY <1>5, EndsKeeps DEF NoResponse
<1>6. CASE Upsert
  <2>1. /\ UNCHANGED <<proxyVars, element, reply, query, flowCase, sender, sending, eaten, latest>>
        /\ receiver = "upsert" /\ flumeClient = "wait" /\ receiver' = "listen" /\ flumeClient' = "call"
    BY <1>6 DEF Upsert
  <2>2. ~CaseTurn /\ sending = {}
    BY <1>0, <2>1 DEF OneTurn
  <2> QED BY <1>0, <2>1, <2>2 DEF ChatInv, ChatTypes, OneTurn, OneQuestion, ClientTurn, CaseTurn, proxyVars
<1> QED BY <1>1, <1>2, <1>3, <1>4, <1>5, <1>6 DEF Receiver

LEMMA ChatStutters == ASSUME ChatInv, UNCHANGED chatVars PROVE ChatInv'
BY DEF ChatInv, chatVars, proxyVars, flumeVars, ChatTypes, OneTurn, OneQuestion, ClientTurn, CaseTurn

LEMMA InvTurn == ChatInv => TurnGoesAround
<1> SUFFICES ASSUME ChatInv PROVE TurnGoesAround
  OBVIOUS
<1>0. OneTurn /\ OneQuestion
  BY DEF ChatInv
<1>1. \A S : (\A x, y \in S : x = y) => Cardinality(S) <= 1
  <2> TAKE S
  <2> HAVE \A x, y \in S : x = y
  <2>1. CASE S = {}
    BY <2>1, FS_EmptySet
  <2>2. ASSUME NEW x \in S PROVE Cardinality(S) <= 1
    <3>1. S = {x}
      BY <2>2
    <3> QED BY <3>1, FS_Singleton
  <2> QED BY <2>1, <2>2
<1>2. \A x, y \in sending : x = y
  BY <1>0 DEF OneQuestion
<1>3. \A x, y \in Turns : x = y
  <2>1. \A x \in Turns :
          \/ x = "client" /\ ClientTurn
          \/ x = "case" /\ CaseTurn
          \/ x = "sending" /\ sending # {}
          \/ x = "receiver" /\ receiver = "upsert"
    BY DEF Turns, ClientTurn, CaseTurn
  <2> QED BY <1>0, <2>1 DEF OneTurn
<1>4. Cardinality(Turns) <= 1 /\ Cardinality(sending) <= 1
  BY <1>1, <1>2, <1>3
<1> QED BY <1>0, <1>4 DEF TurnGoesAround, OneQuestion

-----------------------------------------------------------------------------
(* The four sessions. *)

SessionInv == BackendInv /\ StatInv /\ ChatInv

LEMMA AskingKeeps == ASSUME SessionInv, Asking PROVE StatInv' /\ ChatInv'
<1>0. StatInv /\ ChatInv
  BY DEF SessionInv
<1>1. CASE Statistics
  BY <1>0, <1>1, StatKeeps, ChatStutters, EndsKeeps DEF Statistics
<1>2. CASE Client
  <2>1. UNCHANGED statVars
    BY <1>2 DEF Client, UpsertElements, GetQuery, ProcessDF, ProcessGChatAnswer
  <2> QED BY <1>0, <1>2, <2>1, StatStutters, ClientKeeps
<1>3. CASE UpsertFails
  <2>1. /\ UNCHANGED <<up, tableVars, saved, flush, tree, pull, reports, pulls, told, excused>>
        /\ breaks' \in 0 .. MaxBreaks
    BY <1>0, <1>3, StatisticsAssumption DEF UpsertFails, Breaks, StatInv, StatTypeOK
  <2>2. \A s : UnderWay(s)' <=> UnderWay(s)
    BY <2>1 DEF UnderWay, Mine
  <2>3. StatTypeOK'
    BY <1>0, <2>1 DEF StatInv, StatTypeOK, tableVars
  <2>4. StatInv'
    BY <1>0, <2>1, <2>2, <2>3 DEF StatInv, Trees, Pulled, Changes, Reported, Mine, tableVars
  <2> QED BY <1>0, <1>3, <2>4, FailsKeeps
<1>4. CASE Sender
  <2>1. UNCHANGED statVars
    BY <1>4 DEF Sender, SendCase, ResetCase
  <2> QED BY <1>0, <1>4, <2>1, StatStutters, SenderKeeps
<1>5. CASE Receiver
  <2>1. UNCHANGED statVars \/ Dies
    BY <1>5 DEF Receiver, handleGChatQuery, handleDFQuery, handleDFAnswer, handleGchatAnswer,
                NoResponse, Upsert
  <2> QED BY <1>0, <1>5, <2>1, StatStutters, DiesKeeps, ReceiverKeeps
<1>6. ASSUME NEW q \in Questions, Post(q) \/ PubChatEvent(q) \/ getUserInput(q) PROVE StatInv' /\ ChatInv'
  <2>1. UNCHANGED statVars
    BY <1>6 DEF Post, PubChatEvent, getUserInput
  <2> QED BY <1>0, <1>6, <2>1, StatStutters, UsersKeep, GetKeeps
<1> QED BY <1>1, <1>2, <1>3, <1>4, <1>5, <1>6 DEF Asking, ChatNext

LEMMA SessionNext == ASSUME SessionInv, [Next]_vars PROVE SessionInv'
<1> USE DEF vars, askVars
<1>1. CASE BackendNext /\ UNCHANGED <<session, askVars>>
  BY <1>1, BackendKeeps, StatStutters, ChatStutters DEF SessionInv
<1>2. CASE StatNext /\ UNCHANGED <<session, backendVars, chatVars>>
  BY <1>2, BackendStutters, StatKeeps, ChatStutters DEF SessionInv
<1>3. CASE Asking /\ UNCHANGED <<session, backendVars>>
  BY <1>3, BackendStutters, AskingKeeps DEF SessionInv
<1>4. CASE UNCHANGED vars
  BY <1>4, BackendStutters, StatStutters, ChatStutters DEF SessionInv
<1>5. Requesting => BackendNext
  BY DEF Requesting, BackendNext
<1> QED BY <1>1, <1>2, <1>3, <1>4, <1>5 DEF Next

LEMMA SessionAlways == Spec => []SessionInv
<1>1. Init => SessionInv
  BY BackendInitial, StatInitial, ChatInitial DEF Init, SessionInv
<1> QED BY <1>1, SessionNext, PTL DEF Spec

(* Every variable of the backend, of the start-ups it begins, of the           *)
(* statistics and of the questions keeps its type: tokenEnvChan,               *)
(* PermissionChan and chatEvents never hold more than they have room for.      *)
THEOREM SessionsTypeCorrect == Spec => []TypeOK
<1>1. SessionInv => TypeOK
  BY DEF SessionInv, BackendInv, StatInv, ChatInv, ChatTypes, TypeOK, AskTypeOK
<1> QED BY <1>1, SessionAlways, PTL

(* A flow runs only when the controller has its connections, has loaded the    *)
(* table and has sent the states, and an interface opens only after the flows  *)
(* have been started, whatever the order in which the goroutines of any number *)
(* of start-ups go on.                                                         *)
THEOREM SignalsComeFirst == Spec => []StatesFirst
<1>1. SessionInv => StatesFirst
  BY InvStatesFirst DEF SessionInv
<1> QED BY <1>1, SessionAlways, PTL

(* When no request is on its way and no two of them met, the flows of an       *)
(* environment were last started with the entry vault has for it.              *)
THEOREM NewestIsStarted == Spec => []LatestStored
<1>1. SessionInv => LatestStored
  BY InvLatestStored DEF SessionInv
<1> QED BY <1>1, SessionAlways, PTL

(* A statistic a reporter has finished with is in vault once its row is no     *)
(* longer on its way, but for the excused.                                     *)
THEOREM StatisticsAreKept == Spec => []KeptInVault
<1>1. SessionInv => KeptInVault
  BY InvKeptInVault DEF SessionInv
<1> QED BY <1>1, SessionAlways, PTL

(* One goroutine at a time works with the context that no lock guards, and     *)
(* what is sent is the case of the element as it stands.                       *)
THEOREM OneHasTheTurn == Spec => []TurnGoesAround
<1>1. SessionInv => TurnGoesAround
  BY InvTurn DEF SessionInv
<1> QED BY <1>1, SessionAlways, PTL
=============================================================================
