------------------------- MODULE CatalogCacheProofs -------------------------
(***************************************************************************)
(* Theorems about CatalogCache, for every number of rows, sizes of pages    *)
(* and of the retained log, changes, faults and orders of the tab's steps.  *)
(***************************************************************************)
EXTENDS CatalogCache, TLAPS

-----------------------------------------------------------------------------
(***************************************************************************)
(* Types.                                                                   *)
(***************************************************************************)
LEMMA HeadType == log \in Seq(Entity) => HeadSequence \in Nat /\ Len(log) \in Nat
BY DEF HeadSequence

LEMMA LogEntries == log \in Seq(Entity) => \A i \in 1..Len(log) : log[i] \in Entity
OBVIOUS

\* An answer claims the log up to a place between the one it was asked for and the head.
LEMMA NextSequenceBetween ==
  ASSUME log \in Seq(Entity), NEW n \in Nat
  PROVE  /\ NextSequence(n) \in Nat /\ More(n) \in BOOLEAN /\ ResetRequired(n) \in BOOLEAN
         /\ NextSequence(n) <= Len(log)
         /\ n <= Len(log) => n <= NextSequence(n)
         /\ n < Len(log) => n < NextSequence(n)
BY HeadType, JournalAssumption DEF NextSequence, More, ResetRequired, HeadSequence, JournalAssumption

LEMMA AnswerType ==
  ASSUME JournalTypeOK, NEW n \in Nat
  PROVE  SyncAnswer(n, FALSE) \in [reset : BOOLEAN, changes : SUBSET Entity, to : Nat, more : BOOLEAN]
<1>1. log \in Seq(Entity) /\ HeadSequence \in Nat
  BY HeadType DEF JournalTypeOK
<1>2. NextSequence(n) \in Nat /\ More(n) \in BOOLEAN /\ NextSequence(n) <= Len(log)
  BY <1>1, NextSequenceBetween
<1>3. {log[i] : i \in {k \in (n+1)..NextSequence(n) : k > floor}} \in SUBSET Entity
  BY <1>1, <1>2, LogEntries
<1> QED BY <1>1, <1>2, <1>3 DEF SyncAnswer

\* What a pass of the journal reads and writes of its own tab.
LoopTypes ==
  /\ open \in SUBSET Tab
  /\ wake \in [Tab -> BOOLEAN] /\ pending \in [Tab -> BOOLEAN] /\ timer \in [Tab -> BOOLEAN]
  /\ phase \in [Tab -> Phase]
  /\ after \in [Tab -> Nat]
  /\ answer \in [Tab -> [reset : BOOLEAN, changes : SUBSET Entity, to : Nat, more : BOOLEAN]]

StreamTypes ==
  /\ log \in Seq(Entity) /\ rows \in [Entity -> Nat] /\ floor \in Nat
  /\ online \in BOOLEAN /\ faults \in Nat /\ mark \in Nat

LEMMA JournalSplit == JournalTypeOK <=> StreamTypes /\ LoopTypes
BY DEF JournalTypeOK, StreamTypes, LoopTypes

LEMMA EmitTypes ==
  ASSUME JournalTypeOK, NEW e \in Entity, Emit(e)
  PROVE  JournalTypeOK'
<1>1. log' \in Seq(Entity) /\ HeadSequence + 1 \in Nat
  BY HeadType DEF JournalTypeOK, Emit
<1>2. rows' \in [Entity -> Nat]
  BY <1>1 DEF JournalTypeOK, Emit
<1>3. wake' \in [Tab -> BOOLEAN]
  BY DEF JournalTypeOK, Emit
<1> QED BY <1>1, <1>2, <1>3 DEF JournalTypeOK, Emit, device

LEMMA ServerTypes ==
  ASSUME JournalTypeOK, Prune \/ GoOffline \/ GoOnline
  PROVE  JournalTypeOK'
<1>1. CASE Prune
  <2>1. floor' \in Nat
    BY <1>1, HeadType, JournalAssumption DEF Prune, JournalTypeOK, JournalAssumption
  <2> QED BY <1>1, <2>1 DEF Prune, JournalTypeOK, device, loop
<1>2. CASE GoOffline
  <2>1. faults' \in Nat
    BY <1>2 DEF GoOffline, JournalTypeOK
  <2>2. wake' \in [Tab -> BOOLEAN] /\ online' \in BOOLEAN
    BY <1>2 DEF GoOffline
  <2> QED BY <1>2, <2>1, <2>2 DEF GoOffline, JournalTypeOK, server
<1>3. CASE GoOnline
  BY <1>3 DEF GoOnline, JournalTypeOK, server
<1> QED BY <1>1, <1>2, <1>3

LEMMA TabTypes ==
  ASSUME JournalTypeOK, NEW t \in Tab,
         Register(t) \/ Unload(t) \/ Resume(t) \/ WakeUp(t) \/ RetryTimer(t) \/ SaveMark(t)
           \/ Receive(t, FALSE) \/ LoseAnswer(t)
  PROVE  JournalTypeOK'
<1>1. CASE Register(t)
  BY <1>1 DEF Register, JournalTypeOK, server, device
<1>2. CASE Unload(t)
  BY <1>2 DEF Unload, JournalTypeOK, server, device, NoAnswer, Phase
<1>3. CASE Resume(t)
  BY <1>3 DEF Resume, JournalTypeOK, server, device
<1>4. CASE WakeUp(t) \/ RetryTimer(t)
  <2>1. /\ pending' \in [Tab -> BOOLEAN] /\ timer' \in [Tab -> BOOLEAN]
        /\ phase' \in [Tab -> Phase] /\ after' \in [Tab -> Nat]
    <3>1. CASE Reconcile(t)
      BY <3>1 DEF Reconcile, JournalTypeOK, Phase
    <3>2. CASE timer' = [timer EXCEPT ![t] = FALSE] /\ UNCHANGED <<pending, phase, after>>
      BY <3>2 DEF JournalTypeOK
    <3> QED BY <1>4, <3>1, <3>2 DEF WakeUp, RetryTimer
  <2>2. wake' \in [Tab -> BOOLEAN]
    BY <1>4 DEF WakeUp, RetryTimer, JournalTypeOK
  <2> QED BY <1>4, <2>1, <2>2 DEF WakeUp, RetryTimer, JournalTypeOK, server, device
<1>5. CASE SaveMark(t)
  <2>1. answer[t].to \in Nat
    BY DEF JournalTypeOK
  <2>2. /\ pending' \in [Tab -> BOOLEAN] /\ phase' \in [Tab -> Phase] /\ after' \in [Tab -> Nat]
    BY <1>5, <2>1 DEF SaveMark, JournalTypeOK, Phase
  <2> QED BY <1>5, <2>1, <2>2 DEF SaveMark, JournalTypeOK, server, device
<1>6. CASE Receive(t, FALSE)
  <2>1. SyncAnswer(after[t], FALSE) \in [reset : BOOLEAN, changes : SUBSET Entity, to : Nat, more : BOOLEAN]
    BY AnswerType DEF JournalTypeOK
  <2>2. phase' \in [Tab -> Phase]
    BY <1>6 DEF Receive, JournalTypeOK, Phase
  <2>3. answer' \in [Tab -> [reset : BOOLEAN, changes : SUBSET Entity, to : Nat, more : BOOLEAN]]
    BY <1>6, <2>1 DEF Receive, JournalTypeOK
  <2> QED BY <1>6, <2>2, <2>3 DEF Receive, JournalTypeOK, server, device
<1>7. CASE LoseAnswer(t)
  BY <1>7 DEF LoseAnswer, CountFault, FailPass, JournalTypeOK, server, Phase
<1> QED BY <1>1, <1>2, <1>3, <1>4, <1>5, <1>6, <1>7

LEMMA HandlerTypes ==
  ASSUME JournalTypeOK, NEW t \in Tab,
         HandlerDone(t) \/ (CountFault /\ FailPass(t)) \/ (UNCHANGED faults /\ FailPass(t))
         \/ UNCHANGED jvars \/ (CountFault /\ UNCHANGED <<server, online, mark, open, loop>>)
  PROVE  JournalTypeOK'
<1>1. CASE HandlerDone(t)
  BY <1>1 DEF HandlerDone, JournalTypeOK, server, device, Phase
<1>2. CASE FailPass(t) /\ (CountFault \/ UNCHANGED faults)
  <2>1. faults' \in Nat
    BY <1>2 DEF CountFault, JournalTypeOK
  <2> QED BY <1>2, <2>1 DEF FailPass, JournalTypeOK, server, Phase
<1>3. CASE UNCHANGED jvars
  BY <1>3 DEF jvars, JournalTypeOK, server, device, loop
<1>4. CASE CountFault /\ UNCHANGED <<server, online, mark, open, loop>>
  BY <1>4 DEF CountFault, JournalTypeOK, server, loop
<1> QED BY <1>1, <1>2, <1>3, <1>4

\* Every step of the catalogue makes a step of the journal.
LEMMA JournalStep ==
  ASSUME JournalTypeOK, [Next]_vars
  PROVE  JournalTypeOK'
<1>1. CASE UNCHANGED vars
  BY <1>1 DEF vars, jvars, JournalTypeOK, server, device, loop
<1>2. ASSUME NEW e \in Entity, Change(e) PROVE JournalTypeOK'
  BY <1>2, EmitTypes DEF Change
<1>3. CASE Prune \/ GoOffline \/ GoOnline
  BY <1>3, ServerTypes
<1>4. ASSUME NEW t \in Tab, OpenTab(t) \/ CloseTab(t) \/ Resume(t) \/ LosePage(t) PROVE JournalTypeOK'
  BY <1>4, TabTypes DEF OpenTab, CloseTab, LosePage
<1>5. ASSUME NEW t \in Tab, FailPatch(t) \/ FailFetch(t) \/ ScreenRefresh(t) PROVE JournalTypeOK'
  BY <1>5, HandlerTypes DEF FailPatch, FailFetch, ScreenRefresh
<1>6. ASSUME NEW t \in Tab, NEW e \in Entity, CountStock(t, e) PROVE JournalTypeOK'
  BY <1>6, EmitTypes DEF CountStock
<1>7. ASSUME NEW t \in Tab, Loading(t) PROVE JournalTypeOK'
  BY <1>7, HandlerTypes DEF Loading, ReadSnapshot, ShowSnapshot
<1>8. ASSUME NEW t \in Tab, Waking(t) \/ Saving(t) PROVE JournalTypeOK'
  BY <1>8, TabTypes DEF Waking, Saving
<1>9. ASSUME NEW t \in Tab, Patching(t) PROVE JournalTypeOK'
  BY <1>9, TabTypes, HandlerTypes
     DEF Patching, ReceiveAnswer, ReadChanged, PersistPatch, ShowPatch, NothingToPatch
<1>10. ASSUME NEW t \in Tab, Refreshing(t) PROVE JournalTypeOK'
  BY <1>10, HandlerTypes DEF Refreshing, StoreFetched, ShowFetched, FetchRow
<1>11. ASSUME NEW t \in Tab, Counting(t) PROVE JournalTypeOK'
  BY <1>11, HandlerTypes DEF Counting, ApplyConfirmedStock, PersistCounted
<1> QED BY <1>1, <1>2, <1>3, <1>4, <1>5, <1>6, <1>7, <1>8, <1>9, <1>10, <1>11 DEF Next, Environment

\* What the catalogue keeps beside the journal.
CacheTypes ==
  /\ have \in BOOLEAN /\ stored \in [Entity -> Nat]
  /\ shown \in [Tab -> [Entity -> Nat]] /\ loaded \in [Tab -> BOOLEAN]
  /\ load \in [Tab -> {"closed", "reading", "read", "done"}]
  /\ copy \in [Tab -> Snapshot]

WorkTypes ==
  /\ queue \in [Tab -> Seq(Task)]
  /\ draft \in [Tab -> [Entity -> Nat]] /\ got \in [Tab -> SUBSET Entity]
  /\ durable \in [Tab -> BOOLEAN]
  /\ reply \in [Tab -> [Entity -> Nat]]

LEMMA CatalogSplit == TypeOK <=> JournalTypeOK /\ CacheTypes /\ WorkTypes
BY DEF TypeOK, CacheTypes, WorkTypes

LEMMA NothingType == Nothing \in [Entity -> Nat]
BY DEF Nothing

LEMMA FetchingType ==
  ASSUME WorkTypes, NEW t \in Tab
  PROVE  Fetching(t) \in Seq(Task) /\ Append(queue[t], "apply") \in Seq(Task)
BY DEF WorkTypes, Fetching, Task

LEMMA FinishTypes ==
  ASSUME WorkTypes, NEW t \in Tab, NEW task, Running(t, task), Finish(t)
  PROVE  /\ queue' \in [Tab -> Seq(Task)]
         /\ draft' \in [Tab -> [Entity -> Nat]] /\ got' \in [Tab -> SUBSET Entity]
         /\ durable' \in [Tab -> BOOLEAN]
<1>1. Tail(queue[t]) \in Seq(Task)
  BY DEF WorkTypes, Running
<1> QED BY <1>1, NothingType DEF WorkTypes, Finish

LEMMA CacheStep ==
  ASSUME TypeOK, [Next]_vars
  PROVE  CacheTypes'
<1>t. JournalTypeOK /\ CacheTypes /\ WorkTypes
  BY CatalogSplit
<1>1. CASE UNCHANGED <<disk, screen>>
  BY <1>t, <1>1 DEF CacheTypes, disk, screen
<1>2. ASSUME NEW t \in Tab, OpenTab(t) PROVE CacheTypes'
  BY <1>t, <1>2 DEF OpenTab, CacheTypes, disk
<1>3. ASSUME NEW t \in Tab, CloseTab(t) PROVE CacheTypes'
  BY <1>t, <1>3, NothingType DEF CloseTab, CacheTypes, disk, Snapshot
<1>4. ASSUME NEW t \in Tab, ReadSnapshot(t) PROVE CacheTypes'
  BY <1>t, <1>4 DEF ReadSnapshot, CacheTypes, disk, Snapshot
<1>5. ASSUME NEW t \in Tab, ShowSnapshot(t) PROVE CacheTypes'
  <2>1. copy[t].rows \in [Entity -> Nat]
    BY <1>t DEF CacheTypes, Snapshot
  <2>2. copy' \in [Tab -> Snapshot]
    BY <1>t, <1>5, NothingType DEF ShowSnapshot, CacheTypes, Snapshot
  <2>3. shown' \in [Tab -> [Entity -> Nat]] /\ loaded' \in [Tab -> BOOLEAN]
    BY <1>t, <1>5, <2>1 DEF ShowSnapshot, CacheTypes
  <2> QED BY <1>t, <1>5, <2>2, <2>3 DEF ShowSnapshot, CacheTypes, disk
<1>6. ASSUME NEW t \in Tab, PersistPatch(t) PROVE CacheTypes'
  <2>1. stored' \in [Entity -> Nat]
    BY <1>t, <1>6 DEF PersistPatch, CacheTypes, WorkTypes
  <2> QED BY <1>t, <1>6, <2>1 DEF PersistPatch, CacheTypes, screen
<1>7. ASSUME NEW t \in Tab, ShowPatch(t) \/ ShowFetched(t) PROVE CacheTypes'
  <2>1. draft[t] \in [Entity -> Nat]
    BY <1>t DEF WorkTypes
  <2> QED BY <1>t, <1>7, <2>1 DEF ShowPatch, ShowFetched, CacheTypes, disk
<1>8. ASSUME NEW t \in Tab, StoreFetched(t) PROVE CacheTypes'
  BY <1>t, <1>8 DEF StoreFetched, CacheTypes, WorkTypes, screen
<1>9. ASSUME NEW t \in Tab, NEW e \in Entity, ApplyConfirmedStock(t, e) PROVE CacheTypes'
  <2>1. reply[t][e] \in Nat
    BY <1>t DEF WorkTypes
  <2>2. shown' \in [Tab -> [Entity -> Nat]]
    BY <1>t, <1>9, <2>1 DEF ApplyConfirmedStock, CacheTypes
  <2> QED BY <1>t, <1>9, <2>2 DEF ApplyConfirmedStock, CacheTypes, disk
<1>10. ASSUME NEW t \in Tab, NEW e \in Entity, PersistCounted(t, e) PROVE CacheTypes'
  <2>1. stored' \in [Entity -> Nat]
    BY <1>t, <1>10 DEF PersistCounted, CacheTypes
  <2> QED BY <1>t, <1>10, <2>1 DEF PersistCounted, CacheTypes, screen
<1>11. CASE \/ UNCHANGED vars \/ (\E e \in Entity : Change(e))
            \/ (Prune \/ GoOffline \/ GoOnline) /\ UNCHANGED <<disk, screen, work>>
  BY <1>1, <1>11 DEF vars, Change
<1>12. ASSUME NEW t \in Tab,
             \/ Resume(t) /\ UNCHANGED <<disk, screen, work>>
             \/ LosePage(t) \/ FailPatch(t) \/ FailFetch(t) \/ ScreenRefresh(t)
             \/ (\E e \in Entity : CountStock(t, e)) \/ Waking(t) \/ Saving(t)
       PROVE CacheTypes'
  BY <1>1, <1>12 DEF LosePage, FailPatch, FailFetch, ScreenRefresh, CountStock, Waking, Saving
<1>13. ASSUME NEW t \in Tab,
             ReceiveAnswer(t) \/ ReadChanged(t) \/ NothingToPatch(t) \/ (\E e \in Entity : FetchRow(t, e))
       PROVE CacheTypes'
  BY <1>1, <1>13 DEF ReceiveAnswer, ReadChanged, NothingToPatch, FetchRow
<1> QED BY <1>2, <1>3, <1>4, <1>5, <1>6, <1>7, <1>8, <1>9, <1>10, <1>11, <1>12, <1>13
        DEF Next, Environment, Loading, Patching, Refreshing, Counting

LEMMA WorkStep ==
  ASSUME TypeOK, [Next]_vars
  PROVE  WorkTypes'
<1>t. JournalTypeOK /\ CacheTypes /\ WorkTypes
  BY CatalogSplit
<1>1. CASE UNCHANGED work
  BY <1>t, <1>1 DEF WorkTypes, work
<1>2. ASSUME NEW t \in Tab, CloseTab(t) PROVE WorkTypes'
  BY <1>t, <1>2, NothingType DEF CloseTab, WorkTypes
<1>3. ASSUME NEW t \in Tab, ShowSnapshot(t) \/ ScreenRefresh(t) PROVE WorkTypes'
  BY <1>t, <1>3, FetchingType DEF ShowSnapshot, ScreenRefresh, WorkTypes
<1>4. ASSUME NEW t \in Tab, ReceiveAnswer(t) PROVE WorkTypes'
  <2>1. queue[t] \in Seq(Task)
    BY <1>t DEF WorkTypes
  <2>2. queue' \in [Tab -> Seq(Task)]
    BY <1>t, <1>4, <2>1, FetchingType DEF ReceiveAnswer, WorkTypes
  <2> QED BY <1>t, <1>4, <2>2 DEF ReceiveAnswer, WorkTypes
<1>5. ASSUME NEW t \in Tab, ReadChanged(t) PROVE WorkTypes'
  <2>1. draft' \in [Tab -> [Entity -> Nat]]
    BY <1>t, <1>5 DEF ReadChanged, WorkTypes, CacheTypes, JournalTypeOK
  <2> QED BY <1>t, <1>5, <2>1 DEF ReadChanged, WorkTypes
<1>6. ASSUME NEW t \in Tab, PersistPatch(t) \/ StoreFetched(t) PROVE WorkTypes'
  BY <1>t, <1>6 DEF PersistPatch, StoreFetched, WorkTypes
<1>7. ASSUME NEW t \in Tab, NEW task, Running(t, task), Finish(t), UNCHANGED reply PROVE WorkTypes'
  BY <1>t, <1>7, FinishTypes DEF WorkTypes
<1>8. ASSUME NEW t \in Tab,
             ShowPatch(t) \/ FailPatch(t) \/ NothingToPatch(t) \/ ShowFetched(t) \/ FailFetch(t)
               \/ (\E e \in Entity : PersistCounted(t, e))
      PROVE  WorkTypes'
  BY <1>7, <1>8 DEF ShowPatch, FailPatch, NothingToPatch, ShowFetched, FailFetch, PersistCounted
<1>9. ASSUME NEW t \in Tab, NEW e \in Entity, FetchRow(t, e) PROVE WorkTypes'
  <2>1. rows[e] \in Nat
    BY <1>t DEF JournalTypeOK
  <2>2. draft' \in [Tab -> [Entity -> Nat]]
    BY <1>t, <1>9, <2>1 DEF FetchRow, WorkTypes
  <2> QED BY <1>t, <1>9, <2>2 DEF FetchRow, WorkTypes
<1>10. ASSUME NEW t \in Tab, NEW e \in Entity, CountStock(t, e) PROVE WorkTypes'
  <2>1. HeadSequence + 1 \in Nat
    BY <1>t, HeadType DEF JournalTypeOK
  <2>2. reply' \in [Tab -> [Entity -> Nat]]
    BY <1>t, <1>10, <2>1 DEF CountStock, WorkTypes
  <2> QED BY <1>t, <1>10, <2>2 DEF CountStock, WorkTypes
<1>11. ASSUME NEW t \in Tab, NEW e \in Entity, ApplyConfirmedStock(t, e) PROVE WorkTypes'
  <2>1. Append(queue[t], e) \in Seq(Task)
    BY <1>t DEF WorkTypes, Task
  <2>2. reply' \in [Tab -> [Entity -> Nat]]
    BY <1>t, <1>11 DEF ApplyConfirmedStock, WorkTypes
  <2> QED BY <1>t, <1>11, <2>1, <2>2 DEF ApplyConfirmedStock, WorkTypes
<1>12. CASE \/ UNCHANGED vars \/ (\E e \in Entity : Change(e))
            \/ (Prune \/ GoOffline \/ GoOnline) /\ UNCHANGED <<disk, screen, work>>
  BY <1>1, <1>12 DEF vars, Change
<1>13. ASSUME NEW t \in Tab,
             \/ OpenTab(t) \/ ReadSnapshot(t) \/ LosePage(t) \/ Waking(t) \/ Saving(t)
             \/ Resume(t) /\ UNCHANGED <<disk, screen, work>>
       PROVE WorkTypes'
  BY <1>1, <1>13 DEF OpenTab, ReadSnapshot, LosePage, Waking, Saving
<1> QED BY <1>2, <1>3, <1>4, <1>5, <1>6, <1>8, <1>9, <1>10, <1>11, <1>12, <1>13
        DEF Next, Environment, Loading, Patching, Refreshing, Counting

LEMMA CatalogTypeStep == TypeOK /\ [Next]_vars => TypeOK'
<1> SUFFICES ASSUME TypeOK, [Next]_vars PROVE TypeOK'
  OBVIOUS
<1>1. JournalTypeOK' /\ CacheTypes' /\ WorkTypes'
  BY CatalogSplit, JournalStep, CacheStep, WorkStep
<1> QED BY <1>1, CatalogSplit, PTL

\* Every row is created before the browser is looked at.
LEMMA RowsAtStart ==
  ASSUME Init
  PROVE  /\ rows \in [Entity -> Nat]
         /\ \A e \in Entity : rows[e] \in 1..Len(log) /\ log[rows[e]] = e
         /\ \A i \in 1..Len(log) : rows[log[i]] = i
<1>1. log = StartLog /\ rows = [e \in Entity |-> CHOOSE i \in 1..Len(StartLog) : StartLog[i] = e]
  BY DEF Init, JournalInit
<1>2. ASSUME NEW e \in Entity
      PROVE  /\ rows[e] \in 1..Len(StartLog) /\ StartLog[rows[e]] = e
             /\ \A j \in 1..Len(StartLog) : StartLog[j] = e => j = rows[e]
  <2>1. PICK i \in 1..Len(StartLog) : StartLog[i] = e /\ \A j \in 1..Len(StartLog) : StartLog[j] = e => j = i
    BY JournalAssumption DEF JournalAssumption
  <2>2. rows[e] = CHOOSE k \in 1..Len(StartLog) : StartLog[k] = e
    BY <1>1
  <2> QED BY <2>1, <2>2
<1>3. StartLog \in Seq(Entity) /\ Len(StartLog) \in Nat
  BY JournalAssumption DEF JournalAssumption
<1>4. \A i \in 1..Len(StartLog) : StartLog[i] \in Entity
  BY <1>3
<1>5. \A e \in Entity : rows[e] \in Nat
  BY <1>2, <1>3
<1>6. rows \in [Entity -> Nat]
  BY <1>1, <1>5
<1>7. \A i \in 1..Len(StartLog) : rows[StartLog[i]] = i
  BY <1>2, <1>4
<1> QED BY <1>1, <1>2, <1>6, <1>7

LEMMA CatalogTypeInit == Init => TypeOK
<1> SUFFICES ASSUME Init PROVE TypeOK
  OBVIOUS
<1>1. StreamTypes
  BY RowsAtStart, JournalAssumption DEF Init, JournalInit, StreamTypes, JournalAssumption
<1>2. LoopTypes
  BY DEF Init, JournalInit, LoopTypes, Phase, NoAnswer
<1>3. CacheTypes
  <2>1. have \in BOOLEAN /\ stored \in [Entity -> Nat]
    BY RowsAtStart, NothingType DEF Init
  <2> QED BY <2>1, NothingType DEF Init, CacheTypes, Snapshot
<1>4. WorkTypes
  BY NothingType DEF Init, WorkTypes
<1> QED BY <1>1, <1>2, <1>3, <1>4, JournalSplit, CatalogSplit

\* Every step of the server, of the journal's passes and of the mutation queue of any number
\* of tabs writes only values of its kind; the floor of the log never falls below its start
\* (cache-journal.service.ts:200-300, catalog-cache.service.ts:172-420).
THEOREM CatalogTypes == Spec => []TypeOK
BY CatalogTypeInit, CatalogTypeStep, PTL DEF Spec

-----------------------------------------------------------------------------
(***************************************************************************)
(* One tab: what the browser saves and shows is a replica of the log.       *)
(*                                                                          *)
(* Calm says where this is so.  Several tabs, a row that is counted here    *)
(* and changed elsewhere, a disk that is slower than the server and a reset *)
(* that joins an older refresh each break it, as the README says.           *)
(***************************************************************************)
\* Nothing is ever pruned, or else a refresh only ever begins for a reset.
NeverPruned == MaxHead <= Retained /\ Len(StartLog) <= Retained
OnlyResets == Warm = {TRUE} /\ StartLog # <<>> /\ ~Refreshes

Calm ==
  /\ \E t : Tab = {t}
  /\ ~SlowDisk
  /\ Changed \intersect Counted = {}
  /\ NeverPruned \/ OnlyResets

\* The steps that end the running mutation.
Ends(t) ==
  \/ ShowPatch(t) \/ FailPatch(t) \/ NothingToPatch(t) \/ ShowFetched(t) \/ FailFetch(t)
  \/ \E e \in Entity : PersistCounted(t, e)

LEMMA CatalogFrame ==
  ASSUME Calm, [Next]_vars, NEW v \in Tab
  PROVE  /\ UNCHANGED <<log, rows>> \/ \E e \in Entity : Change(e) \/ CountStock(v, e)
         /\ floor' = floor \/ Prune
         /\ \/ UNCHANGED <<have, stored>> \/ PersistPatch(v) \/ StoreFetched(v)
            \/ \E e \in Entity : PersistCounted(v, e)
         /\ \/ UNCHANGED <<shown, loaded>> \/ CloseTab(v) \/ ShowSnapshot(v) \/ ShowPatch(v)
            \/ ShowFetched(v) \/ \E e \in Entity : ApplyConfirmedStock(v, e)
         /\ \/ UNCHANGED <<load, copy, open>> \/ OpenTab(v) \/ CloseTab(v) \/ ReadSnapshot(v)
            \/ ShowSnapshot(v)
         /\ \/ UNCHANGED queue \/ CloseTab(v) \/ ShowSnapshot(v) \/ ReceiveAnswer(v)
            \/ ScreenRefresh(v) \/ Ends(v) \/ \E e \in Entity : ApplyConfirmedStock(v, e)
         /\ \/ UNCHANGED <<draft, got, durable>> \/ CloseTab(v) \/ ReadChanged(v) \/ PersistPatch(v)
            \/ StoreFetched(v) \/ Ends(v) \/ \E e \in Entity : FetchRow(v, e)
         /\ \/ UNCHANGED reply \/ CloseTab(v)
            \/ \E e \in Entity : CountStock(v, e) \/ ApplyConfirmedStock(v, e)
         /\ \/ UNCHANGED <<phase, after, answer, mark>> \/ CloseTab(v) \/ Waking(v) \/ ReceiveAnswer(v)
            \/ LosePage(v) \/ FailPatch(v) \/ NothingToPatch(v) \/ ShowPatch(v) \/ ShowFetched(v)
            \/ FailFetch(v) \/ Saving(v)
<1>v. \A t \in Tab : t = v
  BY DEF Calm
<1>1. CASE UNCHANGED vars
  BY <1>1 DEF vars, jvars, server, loop, disk, screen, work
<1>2. ASSUME NEW e \in Entity, Change(e) PROVE UNCHANGED <<floor, disk, screen, work, phase, after, answer, mark, open>>
  BY <1>2 DEF Change, Emit
<1>3. CASE (Prune \/ GoOffline \/ GoOnline) /\ UNCHANGED <<disk, screen, work>>
  BY <1>3 DEF Prune, GoOffline, GoOnline, server, loop, disk, screen, work
<1>4. CASE OpenTab(v)
  BY <1>4 DEF OpenTab, Register, server, disk, work
<1>5. CASE CloseTab(v)
  BY <1>5 DEF CloseTab, Unload, server, disk
<1>6. CASE Resume(v) /\ UNCHANGED <<disk, screen, work>>
  BY <1>6 DEF Resume, server, disk, screen, work
<1>7. CASE LosePage(v)
  BY <1>7 DEF LosePage, LoseAnswer, FailPass, server, disk, screen, work
<1>8. CASE FailPatch(v) \/ NothingToPatch(v)
  BY <1>8 DEF FailPatch, NothingToPatch, Ends, FailPass, server, disk, screen
<1>9. CASE FailFetch(v)
  BY <1>9 DEF FailFetch, Ends, FailPass, server, loop, disk, screen
<1>10. CASE ScreenRefresh(v)
  BY <1>10 DEF ScreenRefresh, jvars, server, loop, disk, screen
<1>11. ASSUME NEW e \in Entity, CountStock(v, e)
       PROVE  UNCHANGED <<floor, disk, screen, queue, draft, got, durable, phase, after, answer, mark, open>>
  BY <1>11 DEF CountStock, Emit
<1>12. CASE ReadSnapshot(v) \/ ShowSnapshot(v)
  BY <1>12 DEF ReadSnapshot, ShowSnapshot, jvars, server, loop, disk, work
<1>13. CASE Waking(v)
  BY <1>13 DEF Waking, WakeUp, RetryTimer, server, disk, screen, work
<1>14. CASE Saving(v)
  BY <1>14 DEF Saving, SaveMark, server, disk, screen, work
<1>15. CASE ReceiveAnswer(v)
  BY <1>15 DEF ReceiveAnswer, Receive, server, disk, screen
<1>16. CASE ReadChanged(v) \/ PersistPatch(v) \/ StoreFetched(v)
  BY <1>16 DEF ReadChanged, PersistPatch, StoreFetched, jvars, server, loop, disk, screen
<1>17. CASE ShowPatch(v)
  BY <1>17 DEF ShowPatch, Ends, HandlerDone, server, disk
<1>18. CASE ShowFetched(v)
  BY <1>18 DEF ShowFetched, Ends, HandlerDone, jvars, server, loop, disk
<1>19. ASSUME NEW e \in Entity, FetchRow(v, e)
       PROVE  UNCHANGED <<jvars, disk, screen, queue, reply>>
  BY <1>19 DEF FetchRow
<1>20. ASSUME NEW e \in Entity, ApplyConfirmedStock(v, e)
       PROVE  UNCHANGED <<jvars, disk, load, copy, draft, got, durable>>
  BY <1>20 DEF ApplyConfirmedStock
<1>21. ASSUME NEW e \in Entity, PersistCounted(v, e)
       PROVE  UNCHANGED <<jvars, screen, reply>>
  BY <1>21 DEF PersistCounted
<1>22. \/ UNCHANGED vars \/ \E e \in Entity : Change(e)
       \/ (Prune \/ GoOffline \/ GoOnline) /\ UNCHANGED <<disk, screen, work>>
       \/ OpenTab(v) \/ CloseTab(v) \/ (Resume(v) /\ UNCHANGED <<disk, screen, work>>)
       \/ LosePage(v) \/ FailPatch(v) \/ FailFetch(v) \/ ScreenRefresh(v)
       \/ (\E e \in Entity : CountStock(v, e))
       \/ Loading(v) \/ Waking(v) \/ Saving(v) \/ Patching(v) \/ Refreshing(v) \/ Counting(v)
  BY <1>v DEF Next, Environment
<1>23. ASSUME NEW e \in Entity, Change(e) \/ CountStock(v, e)
       PROVE  UNCHANGED <<floor, have, stored, shown, loaded, load, copy, queue, draft, got, durable,
                          phase, after, answer, mark, open>>
  BY <1>2, <1>11, <1>23 DEF disk, screen, work
<1>24. ASSUME NEW e \in Entity, Change(e) PROVE UNCHANGED reply
  BY <1>2, <1>24 DEF work
<1>25. ASSUME NEW e \in Entity, FetchRow(v, e)
       PROVE  UNCHANGED <<log, rows, floor, have, stored, shown, loaded, load, copy, queue, reply,
                          phase, after, answer, mark, open>>
  BY <1>19, <1>25 DEF jvars, server, loop, disk, screen
<1>26. ASSUME NEW e \in Entity, ApplyConfirmedStock(v, e)
       PROVE  UNCHANGED <<log, rows, floor, have, stored, load, copy, draft, got, durable,
                          phase, after, answer, mark, open>>
  BY <1>20, <1>26 DEF jvars, server, loop, disk
<1>27. ASSUME NEW e \in Entity, PersistCounted(v, e)
       PROVE  /\ UNCHANGED <<log, rows, floor, shown, loaded, load, copy, reply,
                             phase, after, answer, mark, open>>
              /\ Ends(v)
  BY <1>21, <1>27 DEF jvars, server, loop, screen, Ends
<1> QED BY <1>1, <1>3, <1>4, <1>5, <1>6, <1>7, <1>8, <1>9, <1>10, <1>12, <1>13, <1>14, <1>15, <1>16,
           <1>17, <1>18, <1>22, <1>23, <1>24, <1>25, <1>26, <1>27
        DEF Loading, Patching, Refreshing, Counting

-----------------------------------------------------------------------------
(***************************************************************************)
(* The invariant.                                                           *)
(***************************************************************************)
\* The rows have every change up to the n-th; f is at least as new as g.
Covers(f, n) == \A i \in 1..n : i <= f[log[i]]
Above(f, g) == \A e \in Entity : g[e] <= f[e]

Server ==
  /\ Covers(rows, Len(log)) /\ \A e \in Entity : rows[e] <= Len(log)
  /\ NeverPruned => floor = 0 /\ Len(log) <= Retained

\* No copy is ahead of the server, and a counted row is as new as its unheard answer.
Behind(t) ==
  /\ Above(rows, stored) /\ Above(rows, shown[t]) /\ Above(rows, draft[t]) /\ Above(rows, copy[t].rows)
  /\ \A e \in Entity : reply[t][e] # 0 =>
       e \in Counted /\ reply[t][e] = rows[e] /\ loaded[t] /\ load[t] = "done"

\* What waits in the mutation queue.
In(q, x) == \E k \in 1..Len(q) : q[k] = x
Once(q) == \A j, k \in 1..Len(q) : q[j] = q[k] /\ q[j] \in {"apply", "fetch"} => j = k

Waiting(t) ==
  /\ Once(queue[t])
  /\ In(queue[t], "apply") <=> phase[t] = "applying"
  /\ phase[t] = "resetting" => In(queue[t], "fetch")
  /\ \A e \in Entity : In(queue[t], e) => loaded[t] /\ load[t] = "done"
  /\ got[t] # {} \/ durable[t] => Running(t, "apply") \/ Running(t, "fetch")
  /\ OnlyResets => /\ have /\ (In(queue[t], "fetch") => phase[t] = "resetting")
                   /\ load[t] = "read" => copy[t].found

\* Between mutations a loaded tab shows nothing older than what is saved.
Loaded(t) ==
  /\ ~loaded[t] => \A e \in Entity : shown[t][e] = 0
  /\ load[t] # "closed" => t \in open
  /\ loaded[t] \/ durable[t] \/ copy[t].found => have
  /\ ~have => \A e \in Entity : stored[e] = 0
  /\ (loaded[t] \/ load[t] = "done") /\ ~durable[t] => Above(shown[t], stored)
  /\ load[t] = "read" /\ ~loaded[t] /\ ~durable[t] => copy[t].found = have /\ Above(copy[t].rows, stored)
  /\ load[t] = "done" /\ ~loaded[t] /\ ~durable[t] => ~have

\* The watermark, or the one that is about to be saved.
Claim(t) == IF phase[t] = "saving" THEN answer[t].to ELSE mark

Marked(t) ==
  /\ mark <= Claim(t) /\ Claim(t) <= Len(log)
  /\ phase[t] = "asking" => after[t] = mark
  /\ Covers(stored, Claim(t))
  /\ loaded[t] => Covers(shown[t], Claim(t))
  /\ load[t] = "read" /\ ~loaded[t] /\ copy[t].found => Covers(copy[t].rows, Claim(t))

Answered(t) ==
  /\ phase[t] \in {"applying", "resetting"} => mark <= answer[t].to /\ answer[t].to <= Len(log)
  /\ phase[t] = "applying" => \A i \in (mark + 1)..answer[t].to : log[i] \in answer[t].changes

\* What the running mutation has read since it began.
Working(t) ==
  /\ \A e \in got[t] : stored[e] <= draft[t][e]
  /\ Running(t, "apply") /\ got[t] # {} =>
       /\ got[t] = Entity /\ load[t] = "done"
       /\ \A i \in 1..answer[t].to : log[i] \in answer[t].changes => i <= draft[t][log[i]]
  /\ Running(t, "apply") /\ durable[t] =>
       got[t] # {} /\ \A e \in answer[t].changes : stored[e] = draft[t][e]
  /\ Running(t, "fetch") /\ durable[t] => got[t] = Entity /\ stored = draft[t]
  /\ phase[t] = "resetting" /\ Running(t, "fetch") =>
       \A i \in 1..answer[t].to : log[i] \in got[t] => i <= draft[t][log[i]]

TabInv(t) == Behind(t) /\ Waiting(t) /\ Loaded(t) /\ Marked(t) /\ Answered(t) /\ Working(t)

CatalogInv == TypeOK /\ Server /\ \A t \in Tab : TabInv(t)

\* The numbers and rows that the conjuncts compare.
LEMMA Kinds ==
  ASSUME TypeOK, NEW v \in Tab
  PROVE  /\ log \in Seq(Entity) /\ Len(log) \in Nat /\ \A i \in 1..Len(log) : log[i] \in Entity
         /\ rows \in [Entity -> Nat] /\ stored \in [Entity -> Nat] /\ shown[v] \in [Entity -> Nat]
         /\ draft[v] \in [Entity -> Nat] /\ copy[v].rows \in [Entity -> Nat]
         /\ copy[v].found \in BOOLEAN /\ reply[v] \in [Entity -> Nat]
         /\ mark \in Nat /\ answer[v].to \in Nat /\ answer[v].changes \in SUBSET Entity
         /\ got[v] \in SUBSET Entity /\ queue[v] \in Seq(Task) /\ phase[v] \in Phase
         /\ floor \in Nat /\ after[v] \in Nat
BY HeadType, LogEntries DEF TypeOK, JournalTypeOK, Snapshot

LEMMA KindsNext ==
  ASSUME TypeOK', NEW v \in Tab
  PROVE  /\ log' \in Seq(Entity) /\ Len(log') \in Nat /\ \A i \in 1..Len(log') : log'[i] \in Entity
         /\ rows' \in [Entity -> Nat] /\ stored' \in [Entity -> Nat] /\ shown'[v] \in [Entity -> Nat]
         /\ draft'[v] \in [Entity -> Nat] /\ copy'[v].rows \in [Entity -> Nat]
         /\ copy'[v].found \in BOOLEAN /\ reply'[v] \in [Entity -> Nat]
         /\ mark' \in Nat /\ answer'[v].to \in Nat /\ answer'[v].changes \in SUBSET Entity
         /\ got'[v] \in SUBSET Entity /\ queue'[v] \in Seq(Task) /\ phase'[v] \in Phase
<1>1. log' \in Seq(Entity)
  BY DEF TypeOK, JournalTypeOK
<1>2. \A i \in 1..Len(log') : log'[i] \in Entity
  BY <1>1
<1> QED BY <1>1, <1>2 DEF TypeOK, JournalTypeOK, Snapshot

\* A change is appended: the entries before it and the rows stay or are newer.
LEMMA Emits ==
  ASSUME TypeOK, NEW e \in Entity, Emit(e)
  PROVE  /\ Len(log') = Len(log) + 1 /\ log'[Len(log) + 1] = e
         /\ \A i \in 1..Len(log) : log'[i] = log[i]
         /\ rows'[e] = Len(log) + 1 /\ \A f \in Entity \ {e} : rows'[f] = rows[f]
         /\ Len(log) < MaxHead
<1>1. log \in Seq(Entity) /\ rows \in [Entity -> Nat]
  BY DEF TypeOK, JournalTypeOK
<1>2. log' = Append(log, e) /\ rows' = [rows EXCEPT ![e] = Len(log) + 1] /\ Len(log) < MaxHead
  BY DEF Emit, HeadSequence
<1> QED BY <1>1, <1>2

LEMMA ServerGrows ==
  ASSUME Calm, TypeOK, Server, [Next]_vars, NEW v \in Tab
  PROVE  /\ Len(log) \in Nat /\ Len(log') \in Nat /\ Len(log) <= Len(log')
         /\ \A i \in 1..Len(log) : log'[i] = log[i]
         /\ \A e \in Entity : rows[e] <= rows'[e]
         /\ \/ UNCHANGED <<log, rows>>
            \/ Len(log') = Len(log) + 1 /\ \E e \in Entity : Emit(e)
<1>1. CASE UNCHANGED <<log, rows>>
  BY <1>1, Kinds
<1>2. ASSUME NEW e \in Entity, Emit(e)
      PROVE  /\ Len(log) \in Nat /\ Len(log') = Len(log) + 1
             /\ \A i \in 1..Len(log) : log'[i] = log[i]
             /\ \A f \in Entity : rows[f] <= rows'[f]
  <2>1. \A f \in Entity : rows[f] \in Nat /\ rows[f] <= Len(log)
    BY Kinds DEF Server
  <2>2. /\ Len(log') = Len(log) + 1 /\ \A i \in 1..Len(log) : log'[i] = log[i]
        /\ rows'[e] = Len(log) + 1 /\ \A f \in Entity \ {e} : rows'[f] = rows[f]
    BY <1>2, Emits
  <2>3. Len(log) \in Nat
    BY Kinds
  <2>4. ASSUME NEW f \in Entity PROVE rows[f] <= rows'[f]
    <3>1. CASE f = e
      BY <2>1, <2>2, <2>3, <3>1
    <3>2. CASE f # e
      BY <2>1, <2>2, <3>2
    <3> QED BY <3>1, <3>2
  <2> QED BY <2>2, <2>3, <2>4
<1> QED BY <1>1, <1>2, CatalogFrame DEF Change, CountStock

LEMMA ServerStep ==
  ASSUME Calm, TypeOK, Server, [Next]_vars, NEW v \in Tab
  PROVE  Server'
<1>k. /\ Len(log) \in Nat /\ \A i \in 1..Len(log) : log[i] \in Entity
      /\ \A e \in Entity : rows[e] \in Nat
      /\ MaxHead \in Nat /\ Retained \in Nat
  BY Kinds, JournalAssumption DEF JournalAssumption
<1>1. NeverPruned => floor' = 0
  BY <1>k, CatalogFrame DEF Server, Prune, HeadSequence
<1>2. CASE UNCHANGED <<log, rows>>
  BY <1>1, <1>2 DEF Server, Covers
<1>3. ASSUME NEW e \in Entity, Emit(e) PROVE Server'
  <2>1. /\ Len(log') = Len(log) + 1 /\ log'[Len(log) + 1] = e
        /\ \A i \in 1..Len(log) : log'[i] = log[i]
        /\ rows'[e] = Len(log) + 1 /\ \A f \in Entity \ {e} : rows'[f] = rows[f]
        /\ Len(log) < MaxHead
    BY <1>3, Emits
  <2>2. \A f \in Entity : rows'[f] <= Len(log')
    BY <1>k, <2>1 DEF Server
  <2>3. ASSUME NEW i \in 1..Len(log') PROVE i <= rows'[log'[i]]
    <3>1. CASE i = Len(log) + 1
      BY <2>1, <3>1
    <3>2. CASE i \in 1..Len(log) /\ log[i] = e
      BY <1>k, <2>1, <3>2
    <3>3. CASE i \in 1..Len(log) /\ log[i] # e
      BY <1>k, <2>1, <3>3 DEF Server, Covers
    <3> QED BY <1>k, <2>1, <3>1, <3>2, <3>3
  <2>4. NeverPruned => Len(log') <= Retained
    BY <1>k, <2>1 DEF NeverPruned
  <2> QED BY <1>1, <2>2, <2>3, <2>4 DEF Server, Covers
<1> QED BY <1>2, <1>3, ServerGrows

-----------------------------------------------------------------------------
(***************************************************************************)
(* Copies.                                                                  *)
(***************************************************************************)
\* The values a step leaves in the places of its tab.
LEMMA EndsAt ==
  ASSUME TypeOK, NEW v \in Tab, Finish(v)
  PROVE  /\ queue'[v] = Tail(queue[v]) /\ draft'[v] = Nothing /\ got'[v] = {} /\ durable'[v] = FALSE
BY DEF TypeOK, Finish

LEMMA EndsFinish == \A t \in Tab : Ends(t) => Finish(t)
BY DEF Ends, ShowPatch, FailPatch, NothingToPatch, ShowFetched, FailFetch, PersistCounted

LEMMA Zero == \A e \in Entity : Nothing[e] = 0
BY DEF Nothing

LEMMA StoredBehind ==
  ASSUME Calm, TypeOK, Server, [Next]_vars, NEW v \in Tab, TabInv(v), NEW e \in Entity
  PROVE  stored'[e] <= rows[e]
<1>t. /\ stored[e] <= rows[e] /\ shown[v][e] <= rows[e] /\ draft[v][e] <= rows[e]
      /\ stored \in [Entity -> Nat] /\ shown[v] \in [Entity -> Nat]
  BY Kinds DEF TabInv, Behind, Above
<1>1. CASE PersistPatch(v)
  BY <1>t, <1>1 DEF PersistPatch
<1>2. CASE StoreFetched(v)
  BY <1>t, <1>2 DEF StoreFetched
<1>3. ASSUME NEW f \in Entity, PersistCounted(v, f) PROVE stored'[e] <= rows[e]
  BY <1>t, <1>3 DEF PersistCounted
<1> QED BY <1>t, <1>1, <1>2, <1>3, CatalogFrame

LEMMA ShownBehind ==
  ASSUME Calm, TypeOK, Server, [Next]_vars, NEW v \in Tab, TabInv(v), NEW e \in Entity
  PROVE  shown'[v][e] <= rows[e]
<1>t. /\ shown[v][e] <= rows[e] /\ draft[v][e] <= rows[e] /\ copy[v].rows[e] <= rows[e]
      /\ reply[v][e] # 0 => reply[v][e] = rows[e]
      /\ rows[e] \in Nat /\ shown \in [Tab -> [Entity -> Nat]]
  BY Kinds DEF TabInv, Behind, Above, TypeOK
<1>1. CASE CloseTab(v)
  BY <1>t, <1>1, Zero DEF CloseTab
<1>2. CASE ShowSnapshot(v)
  BY <1>t, <1>2 DEF ShowSnapshot
<1>3. CASE ShowPatch(v) \/ ShowFetched(v)
  BY <1>t, <1>3 DEF ShowPatch, ShowFetched
<1>4. ASSUME NEW f \in Entity, ApplyConfirmedStock(v, f) PROVE shown'[v][e] <= rows[e]
  <2>1. shown' = [shown EXCEPT ![v][f] = reply[v][f]] /\ reply[v][f] # 0
    BY <1>4 DEF ApplyConfirmedStock
  <2>2. CASE f = e
    BY <1>t, <2>1, <2>2
  <2>3. CASE f # e
    BY <1>t, <2>1, <2>3
  <2> QED BY <2>2, <2>3
<1> QED BY <1>t, <1>1, <1>2, <1>3, <1>4, CatalogFrame

LEMMA DraftBehind ==
  ASSUME Calm, TypeOK, Server, [Next]_vars, NEW v \in Tab, TabInv(v), NEW e \in Entity
  PROVE  draft'[v][e] <= rows[e]
<1>t. /\ shown[v][e] <= rows[e] /\ draft[v][e] <= rows[e]
      /\ rows[e] \in Nat /\ draft \in [Tab -> [Entity -> Nat]]
  BY Kinds DEF TabInv, Behind, Above, TypeOK
<1>1. CASE CloseTab(v)
  BY <1>t, <1>1, Zero DEF CloseTab
<1>2. CASE ReadChanged(v)
  BY <1>t, <1>2 DEF ReadChanged
<1>3. CASE PersistPatch(v) \/ StoreFetched(v)
  BY <1>t, <1>3 DEF PersistPatch, StoreFetched
<1>4. CASE Ends(v)
  <2>1. draft'[v] = Nothing
    BY <1>4, EndsFinish, EndsAt
  <2> QED BY <1>t, <2>1, Zero
<1>5. ASSUME NEW f \in Entity, FetchRow(v, f) PROVE draft'[v][e] <= rows[e]
  <2>1. draft' = [draft EXCEPT ![v][f] = rows[f]]
    BY <1>5 DEF FetchRow
  <2>2. CASE f = e
    BY <1>t, <2>1, <2>2
  <2>3. CASE f # e
    BY <1>t, <2>1, <2>3
  <2> QED BY <2>2, <2>3
<1> QED BY <1>t, <1>1, <1>2, <1>3, <1>4, <1>5, CatalogFrame

LEMMA CopyBehind ==
  ASSUME Calm, TypeOK, Server, [Next]_vars, NEW v \in Tab, TabInv(v), NEW e \in Entity
  PROVE  copy'[v].rows[e] <= rows[e]
<1>t. /\ stored[e] <= rows[e] /\ copy[v].rows[e] <= rows[e]
      /\ rows[e] \in Nat /\ copy \in [Tab -> Snapshot]
  BY Kinds DEF TabInv, Behind, Above, TypeOK
<1>1. CASE CloseTab(v) \/ ShowSnapshot(v)
  <2>1. copy'[v].rows = Nothing
    BY <1>t, <1>1 DEF CloseTab, ShowSnapshot
  <2> QED BY <1>t, <2>1, Zero
<1>2. CASE ReadSnapshot(v)
  <2>1. copy'[v].rows = stored
    BY <1>t, <1>2 DEF ReadSnapshot
  <2> QED BY <1>t, <2>1
<1>3. CASE OpenTab(v)
  BY <1>t, <1>3 DEF OpenTab
<1> QED BY <1>t, <1>1, <1>2, <1>3, CatalogFrame

LEMMA ReplyNext ==
  ASSUME Calm, TypeOK, Server, [Next]_vars, NEW v \in Tab, TabInv(v), NEW e \in Entity, reply'[v][e] # 0
  PROVE  e \in Counted /\ reply'[v][e] = rows'[e] /\ loaded'[v] /\ load'[v] = "done"
<1>t. /\ reply[v][e] # 0 => e \in Counted /\ reply[v][e] = rows[e] /\ loaded[v] /\ load[v] = "done"
      /\ reply \in [Tab -> [Entity -> Nat]] /\ rows \in [Entity -> Nat]
      /\ loaded \in [Tab -> BOOLEAN] /\ load \in [Tab -> {"closed", "reading", "read", "done"}]
      /\ shown[v] \in [Entity -> Nat] /\ Changed \intersect Counted = {}
      /\ load[v] # "closed" => v \in open
      /\ ~loaded[v] => \A f \in Entity : shown[v][f] = 0
  BY Kinds DEF TabInv, Behind, Loaded, TypeOK, Calm, JournalTypeOK
<1>1. ~CloseTab(v)
  BY <1>t, Zero DEF CloseTab
<1>2. loaded[v] /\ load[v] = "done" => loaded'[v] /\ load'[v] = "done"
  <2>1. loaded[v] => loaded'[v]
    BY <1>t, <1>1, CatalogFrame DEF ShowSnapshot, ShowPatch, ShowFetched, ApplyConfirmedStock
  <2>2. load[v] = "done" => load'[v] = "done"
    BY <1>t, <1>1, CatalogFrame DEF OpenTab, Register, ReadSnapshot, ShowSnapshot
  <2> QED BY <2>1, <2>2
<1>3. CASE CountStock(v, e)
  <2>1. rows'[e] = HeadSequence + 1 /\ reply'[v][e] = HeadSequence + 1
    BY <1>t, <1>3 DEF CountStock, Emit
  <2>2. e \in Counted /\ load[v] = "done" /\ loaded[v]
    BY <1>t, <1>3 DEF CountStock
  <2> QED BY <1>2, <2>1, <2>2
<1>4. ASSUME NEW f \in Entity \ {e}, CountStock(v, f) \/ Change(f)
      PROVE  rows'[e] = rows[e] /\ reply'[v][e] = reply[v][e]
  BY <1>t, <1>4 DEF CountStock, Change, Emit, work
<1>5. ASSUME Change(e) PROVE FALSE
  <2>1. e \in Changed /\ reply'[v][e] = reply[v][e]
    BY <1>5 DEF Change, work
  <2> QED BY <1>t, <2>1
<1>6. ASSUME NEW f \in Entity, ApplyConfirmedStock(v, f)
      PROVE  f # e /\ reply'[v][e] = reply[v][e]
  BY <1>t, <1>6 DEF ApplyConfirmedStock
<1>7. CASE UNCHANGED <<log, rows>> /\ UNCHANGED reply
  BY <1>t, <1>2, <1>7
<1>8. CASE UNCHANGED <<log, rows>> /\ \E f \in Entity : ApplyConfirmedStock(v, f)
  BY <1>t, <1>2, <1>6, <1>8
<1>9. CASE \E f \in Entity : CountStock(v, f) \/ Change(f)
  BY <1>t, <1>2, <1>3, <1>4, <1>5, <1>9
<1> QED BY <1>1, <1>7, <1>8, <1>9, CatalogFrame

LEMMA BehindStep ==
  ASSUME Calm, TypeOK, TypeOK', Server, [Next]_vars, NEW v \in Tab, TabInv(v)
  PROVE  Behind(v)'
<1>1. ASSUME NEW e \in Entity
      PROVE  /\ stored'[e] <= rows'[e] /\ shown'[v][e] <= rows'[e] /\ draft'[v][e] <= rows'[e]
             /\ copy'[v].rows[e] <= rows'[e]
  <2>1. /\ stored'[e] <= rows[e] /\ shown'[v][e] <= rows[e] /\ draft'[v][e] <= rows[e]
        /\ copy'[v].rows[e] <= rows[e]
    BY StoredBehind, ShownBehind, DraftBehind, CopyBehind
  <2>2. rows[e] <= rows'[e] /\ rows[e] \in Nat
    BY ServerGrows, Kinds
  <2>3. /\ rows'[e] \in Nat /\ stored'[e] \in Nat /\ shown'[v][e] \in Nat /\ draft'[v][e] \in Nat
        /\ copy'[v].rows[e] \in Nat
    BY KindsNext
  <2> QED BY <2>1, <2>2, <2>3
<1> QED BY <1>1, ReplyNext DEF Behind, Above

-----------------------------------------------------------------------------
(***************************************************************************)
(* The mutation queue.                                                      *)
(***************************************************************************)
LEMMA TaskKinds ==
  ASSUME Calm
  PROVE  /\ "apply" \in Task /\ "fetch" \in Task /\ Entity \subseteq Task
         /\ "apply" \notin Entity /\ "fetch" \notin Entity
BY CatalogAssumption DEF Task, CatalogAssumption

LEMMA AppendIn ==
  ASSUME NEW q \in Seq(Task), NEW x \in Task
  PROVE  /\ \A y : In(Append(q, x), y) <=> In(q, y) \/ y = x
         /\ Append(q, x) # <<>>
         /\ Head(Append(q, x)) = IF q = <<>> THEN x ELSE Head(q)
         /\ Once(q) /\ (x \in {"apply", "fetch"} => ~In(q, x)) => Once(Append(q, x))
<1>1. /\ Append(q, x) \in Seq(Task) /\ Len(Append(q, x)) = Len(q) + 1 /\ Len(q) \in Nat
      /\ \A k \in 1..Len(q) : Append(q, x)[k] = q[k]
      /\ Append(q, x)[Len(q) + 1] = x
  OBVIOUS
<1> DEFINE p == Append(q, x)
<1> HIDE DEF p
<1>2. ASSUME NEW y PROVE In(p, y) <=> In(q, y) \/ y = x
  BY <1>1 DEF In, p
<1>3. Append(q, x) # <<>> /\ Head(Append(q, x)) = IF q = <<>> THEN x ELSE Head(q)
  <2>1. Append(q, x) # <<>>
    BY <1>1
  <2>2. Head(Append(q, x)) = Append(q, x)[1] /\ (q # <<>> => Head(q) = q[1] /\ 1 \in 1..Len(q))
    BY <1>1, <2>1
  <2>3. CASE q = <<>>
    BY <1>1, <2>2, <2>3
  <2>4. CASE q # <<>>
    BY <1>1, <2>2, <2>4
  <2> QED BY <2>1, <2>3, <2>4
<1>4. Once(q) /\ (x \in {"apply", "fetch"} => ~In(q, x)) => Once(p)
  <2> SUFFICES ASSUME Once(q), x \in {"apply", "fetch"} => ~In(q, x),
                      NEW j \in 1..Len(p), NEW k \in 1..Len(p), p[j] = p[k], p[j] \in {"apply", "fetch"}
               PROVE  j = k
    BY DEF Once
  <2>1. CASE j \in 1..Len(q) /\ k \in 1..Len(q)
    BY <1>1, <2>1 DEF Once, p
  <2>2. CASE j \in 1..Len(q) /\ k = Len(q) + 1
    BY <1>1, <2>2 DEF In, p
  <2>3. CASE j = Len(q) + 1 /\ k \in 1..Len(q)
    BY <1>1, <2>3 DEF In, p
  <2> QED BY <1>1, <2>1, <2>2, <2>3 DEF p
<1> QED BY <1>2, <1>3, <1>4 DEF p

LEMMA TailIn ==
  ASSUME NEW q \in Seq(Task), q # <<>>
  PROVE  /\ In(q, Head(q))
         /\ \A y : In(Tail(q), y) => In(q, y)
         /\ \A y : In(q, y) /\ y # Head(q) => In(Tail(q), y)
         /\ Once(q) => Once(Tail(q))
         /\ Once(q) /\ Head(q) \in {"apply", "fetch"} => ~In(Tail(q), Head(q))
<1>1. /\ Tail(q) \in Seq(Task) /\ Len(q) \in Nat \ {0} /\ Len(Tail(q)) = Len(q) - 1
      /\ \A k \in 1..Len(Tail(q)) : Tail(q)[k] = q[k + 1] /\ k + 1 \in 1..Len(q)
      /\ Head(q) = q[1]
  <2>1. /\ Tail(q) \in Seq(Task) /\ Len(q) \in Nat \ {0} /\ Len(Tail(q)) = Len(q) - 1
        /\ Head(q) = q[1]
    OBVIOUS
  <2>2. \A k \in 1..(Len(q) - 1) : k + 1 \in 1..Len(q)
    BY <2>1
  <2>3. \A k \in 1..Len(Tail(q)) : Tail(q)[k] = q[k + 1]
    OBVIOUS
  <2> QED BY <2>1, <2>2, <2>3
<1> DEFINE p == Tail(q)
           h == Head(q)
<1> HIDE DEF p, h
<1>2. In(q, h)
  BY <1>1 DEF In, h
<1>3. ASSUME NEW y PROVE In(p, y) => In(q, y)
  BY <1>1 DEF In, p
<1>4. ASSUME NEW y, In(q, y), y # h PROVE In(p, y)
  <2>1. PICK k \in 1..Len(q) : q[k] = y
    BY <1>4 DEF In
  <2>2. k # 1 /\ k - 1 \in 1..Len(p) /\ p[k - 1] = q[(k - 1) + 1] /\ (k - 1) + 1 = k
    BY <1>1, <1>4, <2>1 DEF p, h
  <2> QED BY <2>1, <2>2 DEF In
<1>5. Once(q) => Once(p)
  <2> SUFFICES ASSUME Once(q), NEW j \in 1..Len(p), NEW k \in 1..Len(p), p[j] = p[k],
                      p[j] \in {"apply", "fetch"}
               PROVE  j = k
    BY DEF Once
  <2>1. j + 1 \in 1..Len(q) /\ k + 1 \in 1..Len(q) /\ q[j + 1] = q[k + 1] /\ q[j + 1] \in {"apply", "fetch"}
    BY <1>1 DEF p
  <2>2. j + 1 = k + 1
    BY <2>1 DEF Once
  <2> QED BY <1>1, <2>2 DEF p
<1>6. Once(q) /\ h \in {"apply", "fetch"} => ~In(p, h)
  <2> SUFFICES ASSUME Once(q), h \in {"apply", "fetch"}, NEW k \in 1..Len(p), p[k] = h
               PROVE  FALSE
    BY DEF In
  <2>1. k + 1 \in 1..Len(q) /\ q[k + 1] = h /\ 1 \in 1..Len(q) /\ q[1] = h
    BY <1>1 DEF p, h
  <2>2. k + 1 = 1
    BY <2>1 DEF Once
  <2> QED BY <1>1, <2>2 DEF p
<1> QED BY <1>2, <1>3, <1>4, <1>5, <1>6 DEF p, h

LEMMA WaitsIn == \A t, x : Waits(t, x) <=> In(queue[t], x)
BY DEF Waits, In

\* A refresh joins the one that waits, or waits itself.
LEMMA FetchingIn ==
  ASSUME Calm, TypeOK, NEW v \in Tab
  PROVE  /\ Fetching(v) \in Seq(Task)
         /\ \A y : In(Fetching(v), y) <=> In(queue[v], y) \/ y = "fetch"
         /\ Fetching(v) # <<>>
         /\ Head(Fetching(v)) = IF queue[v] = <<>> THEN "fetch" ELSE Head(queue[v])
         /\ Once(queue[v]) => Once(Fetching(v))
<1>1. queue[v] \in Seq(Task) /\ "fetch" \in Task
  BY Kinds, TaskKinds
<1>2. CASE In(queue[v], "fetch")
  <2>1. Fetching(v) = queue[v]
    BY <1>2, WaitsIn DEF Fetching
  <2>2. queue[v] # <<>>
    BY <1>2 DEF In
  <2> QED BY <1>1, <1>2, <2>1, <2>2
<1>3. CASE ~In(queue[v], "fetch")
  <2>1. Fetching(v) = Append(queue[v], "fetch")
    BY <1>3, WaitsIn DEF Fetching
  <2>2. Append(queue[v], "fetch") \in Seq(Task)
    BY <1>1
  <2> QED BY <1>1, <1>3, <2>1, <2>2, AppendIn
<1> QED BY <1>2, <1>3

\* An answer asks for a rebuild up to the head, or carries the changes of a page.
LEMMA ReceiveAt ==
  ASSUME TypeOK, NEW v \in Tab, ReceiveAnswer(v)
  PROVE  /\ phase[v] = "asking"
         /\ \/ /\ phase'[v] = "resetting" /\ queue'[v] = Fetching(v)
               /\ ResetRequired(after[v]) /\ answer'[v].to = Len(log)
            \/ /\ phase'[v] = "saving" /\ queue'[v] = queue[v] /\ answer'[v].changes = {}
               /\ ~ResetRequired(after[v]) /\ answer'[v].to = NextSequence(after[v])
            \/ /\ phase'[v] = "applying" /\ queue'[v] = Append(queue[v], "apply")
               /\ ~ResetRequired(after[v]) /\ answer'[v].to = NextSequence(after[v])
         /\ ~ResetRequired(after[v]) =>
              answer'[v].changes = {log[i] : i \in {k \in (after[v] + 1)..NextSequence(after[v]) : k > floor}}
<1>t. /\ answer \in [Tab -> [reset : BOOLEAN, changes : SUBSET Entity, to : Nat, more : BOOLEAN]]
      /\ phase \in [Tab -> Phase] /\ queue \in [Tab -> Seq(Task)]
  BY DEF TypeOK, JournalTypeOK
<1>1. /\ phase[v] = "asking" /\ answer'[v] = SyncAnswer(after[v], FALSE)
      /\ phase'[v] = IF answer'[v].reset THEN "resetting"
                     ELSE IF answer'[v].changes = {} THEN "saving" ELSE "applying"
  BY <1>t DEF ReceiveAnswer, Receive
<1>2. queue'[v] = CASE phase'[v] = "applying" -> Append(queue[v], "apply")
                    [] phase'[v] = "resetting" -> Fetching(v)
                    [] OTHER -> queue[v]
  BY <1>t DEF ReceiveAnswer
<1>3. CASE ResetRequired(after[v])
  <2>1. answer'[v].reset /\ answer'[v].to = Len(log)
    BY <1>1, <1>3 DEF SyncAnswer, HeadSequence
  <2>2. phase'[v] = "resetting"
    BY <1>1, <2>1
  <2>3. queue'[v] = Fetching(v)
    BY <1>2, <2>2
  <2> QED BY <1>1, <1>3, <2>1, <2>2, <2>3
<1>4. CASE ~ResetRequired(after[v])
  <2> DEFINE changes == {log[i] : i \in {k \in (after[v] + 1)..NextSequence(after[v]) : k > floor}}
  <2>1. /\ ~answer'[v].reset /\ answer'[v].to = NextSequence(after[v]) /\ answer'[v].changes = changes
    BY <1>1, <1>4 DEF SyncAnswer
  <2> HIDE DEF changes
  <2>2. CASE answer'[v].changes = {}
    <3>1. phase'[v] = "saving"
      BY <1>1, <2>1, <2>2
    <3>2. queue'[v] = queue[v]
      BY <1>2, <3>1
    <3> QED BY <1>1, <1>4, <2>1, <2>2, <3>1, <3>2 DEF changes
  <2>3. CASE answer'[v].changes # {}
    <3>1. phase'[v] = "applying"
      BY <1>1, <2>1, <2>3
    <3>2. queue'[v] = Append(queue[v], "apply")
      BY <1>2, <3>1
    <3> QED BY <1>1, <1>4, <2>1, <3>1, <3>2 DEF changes
  <2> QED BY <2>2, <2>3
<1> QED BY <1>3, <1>4

\* What is on the screen stays there until the tab is closed.
LEMMA StaysLoaded ==
  ASSUME Calm, TypeOK, [Next]_vars, NEW v \in Tab, TabInv(v), ~CloseTab(v)
  PROVE  /\ loaded[v] => loaded'[v]
         /\ load[v] = "done" => load'[v] = "done"
<1>t. /\ loaded \in [Tab -> BOOLEAN] /\ load \in [Tab -> {"closed", "reading", "read", "done"}]
      /\ load[v] # "closed" => v \in open
  BY DEF TabInv, Loaded, TypeOK
<1>1. loaded[v] => loaded'[v]
  BY <1>t, CatalogFrame DEF ShowSnapshot, ShowPatch, ShowFetched, ApplyConfirmedStock
<1>2. load[v] = "done" => load'[v] = "done"
  BY <1>t, CatalogFrame DEF OpenTab, Register, ReadSnapshot, ShowSnapshot
<1> QED BY <1>1, <1>2

\* Where a pass may stand after a step that is not one of the mutation queue.
LEMMA QuietPhase ==
  ASSUME TypeOK, NEW v \in Tab, Waking(v) \/ LosePage(v) \/ Saving(v)
  PROVE  /\ phase[v] \in {"idle", "asking", "saving"} \/ phase'[v] = phase[v]
         /\ phase'[v] \in {"idle", "asking"} \/ phase'[v] = phase[v]
<1>t. phase \in [Tab -> Phase]
  BY DEF TypeOK, JournalTypeOK
<1>1. CASE Waking(v)
  BY <1>t, <1>1 DEF Waking, WakeUp, RetryTimer, Reconcile
<1>2. CASE LosePage(v)
  BY <1>t, <1>2 DEF LosePage, LoseAnswer, FailPass
<1>3. CASE Saving(v)
  BY <1>t, <1>3 DEF Saving, SaveMark
<1> QED BY <1>1, <1>2, <1>3

\* A mutation that ends leaves the queue; the pass goes on with a patch or a reset.
LEMMA EndsPhase ==
  ASSUME TypeOK, NEW v \in Tab, Ends(v)
  PROVE  /\ queue[v] # <<>> /\ queue'[v] = Tail(queue[v])
         /\ draft'[v] = Nothing /\ got'[v] = {} /\ durable'[v] = FALSE
         /\ \/ Head(queue[v]) = "apply" /\ phase'[v] \in {"saving", "idle"}
            \/ Head(queue[v]) = "fetch" /\ phase[v] = "resetting" /\ phase'[v] \in {"saving", "idle"}
            \/ Head(queue[v]) = "fetch" /\ phase[v] # "resetting" /\ phase'[v] = phase[v]
            \/ Head(queue[v]) \in Entity /\ phase'[v] = phase[v]
<1>t. phase \in [Tab -> Phase]
  BY DEF TypeOK, JournalTypeOK
<1>1. queue'[v] = Tail(queue[v]) /\ draft'[v] = Nothing /\ got'[v] = {} /\ durable'[v] = FALSE
  BY EndsFinish, EndsAt
<1>2. CASE ShowPatch(v) \/ FailPatch(v) \/ NothingToPatch(v)
  BY <1>t, <1>1, <1>2 DEF ShowPatch, FailPatch, NothingToPatch, HandlerDone, FailPass, Running
<1>3. CASE ShowFetched(v)
  BY <1>t, <1>1, <1>3 DEF ShowFetched, HandlerDone, Running, jvars, loop
<1>4. CASE FailFetch(v)
  BY <1>t, <1>1, <1>4 DEF FailFetch, FailPass, Running, loop
<1>5. ASSUME NEW e \in Entity, PersistCounted(v, e)
      PROVE  queue[v] # <<>> /\ Head(queue[v]) \in Entity /\ phase'[v] = phase[v]
  BY <1>5 DEF PersistCounted, Running, jvars, loop
<1> QED BY <1>1, <1>2, <1>3, <1>4, <1>5 DEF Ends

\* How a step changes the queue of a tab, and with it the phase of the pass.
Keeps(t) ==
  /\ queue'[t] = queue[t]
  /\ \/ phase'[t] = phase[t]
     \/ phase[t] \notin {"applying", "resetting"} /\ phase'[t] \notin {"applying", "resetting"}
Counts(t) == phase'[t] = phase[t] /\ \E e \in Entity : queue'[t] = Append(queue[t], e)
Refetches(t) == ~OnlyResets /\ queue'[t] = Fetching(t) /\ phase'[t] = phase[t]
Closes(t) == queue'[t] = <<>> /\ phase'[t] = "idle" /\ got'[t] = {} /\ durable'[t] = FALSE

LEMMA QueueMoves ==
  ASSUME Calm, TypeOK, [Next]_vars, NEW v \in Tab, TabInv(v)
  PROVE  Keeps(v) \/ Counts(v) \/ Refetches(v) \/ Closes(v) \/ ReceiveAnswer(v) \/ Ends(v)
<1>t. /\ queue \in [Tab -> Seq(Task)] /\ phase \in [Tab -> Phase] /\ got \in [Tab -> SUBSET Entity]
      /\ durable \in [Tab -> BOOLEAN]
  BY DEF TypeOK, JournalTypeOK
<1>1. CASE CloseTab(v)
  BY <1>t, <1>1 DEF CloseTab, Unload, Closes
<1>2. CASE ShowSnapshot(v)
  <2>1. phase' = phase /\ load[v] = "read"
        /\ queue'[v] = IF online /\ ~copy[v].found THEN Fetching(v) ELSE queue[v]
    BY <1>t, <1>2 DEF ShowSnapshot, jvars, loop
  <2>2. ~copy[v].found => ~OnlyResets
    BY <2>1 DEF TabInv, Waiting
  <2> QED BY <2>1, <2>2 DEF Keeps, Refetches
<1>3. CASE ScreenRefresh(v)
  BY <1>t, <1>3 DEF ScreenRefresh, Refetches, OnlyResets, jvars, loop
<1>4. ASSUME NEW e \in Entity, ApplyConfirmedStock(v, e) PROVE Counts(v)
  BY <1>t, <1>4 DEF ApplyConfirmedStock, Counts, jvars, loop
<1>5. CASE Waking(v) \/ LosePage(v) \/ Saving(v)
  <2>1. queue' = queue
    BY <1>5 DEF Waking, LosePage, Saving, work
  <2> QED BY <1>5, <2>1, QuietPhase DEF Keeps
<1>6. CASE queue' = queue /\ phase' = phase
  BY <1>6 DEF Keeps
<1> QED BY <1>1, <1>2, <1>3, <1>4, <1>5, <1>6, CatalogFrame DEF Ends

LEMMA QueueNext ==
  ASSUME Calm, TypeOK, [Next]_vars, NEW v \in Tab, TabInv(v)
  PROVE  /\ Once(queue'[v])
         /\ In(queue'[v], "apply") <=> phase'[v] = "applying"
         /\ phase'[v] = "resetting" => In(queue'[v], "fetch")
         /\ OnlyResets => (In(queue'[v], "fetch") => phase'[v] = "resetting")
<1>t. /\ queue[v] \in Seq(Task) /\ "apply" \in Task /\ Entity \subseteq Task
      /\ "apply" \notin Entity /\ "fetch" \notin Entity
  BY Kinds, TaskKinds
<1>w. /\ Once(queue[v]) /\ (In(queue[v], "apply") <=> phase[v] = "applying")
      /\ phase[v] = "resetting" => In(queue[v], "fetch")
      /\ OnlyResets => (In(queue[v], "fetch") => phase[v] = "resetting")
  BY DEF TabInv, Waiting
<1>1. CASE Keeps(v)
  BY <1>w, <1>1 DEF Keeps
<1>2. CASE Counts(v)
  <2>1. PICK e \in Entity : queue'[v] = Append(queue[v], e) /\ phase'[v] = phase[v]
    BY <1>2 DEF Counts
  <2>2. e \in Task /\ e \notin {"apply", "fetch"}
    BY <1>t
  <2>3. /\ \A y : In(queue'[v], y) <=> In(queue[v], y) \/ y = e
        /\ Once(queue'[v])
    BY <1>t, <1>w, <2>1, <2>2, AppendIn
  <2> QED BY <1>w, <2>1, <2>2, <2>3
<1>3. CASE Refetches(v)
  <2>1. /\ \A y : In(queue'[v], y) <=> In(queue[v], y) \/ y = "fetch"
        /\ Once(queue'[v])
    BY <1>w, <1>3, FetchingIn DEF Refetches
  <2> QED BY <1>w, <1>3, <2>1 DEF Refetches
<1>4. CASE Closes(v)
  BY <1>4 DEF Closes, In, Once
<1>5. CASE ReceiveAnswer(v)
  <2>1. ~In(queue[v], "apply") /\ phase[v] = "asking"
    BY <1>w, <1>5, ReceiveAt
  <2>2. CASE phase'[v] = "resetting" /\ queue'[v] = Fetching(v)
    <3>1. /\ \A y : In(queue'[v], y) <=> In(queue[v], y) \/ y = "fetch"
          /\ Once(queue'[v])
      BY <1>w, <2>2, FetchingIn
    <3> QED BY <1>w, <2>1, <2>2, <3>1
  <2>3. CASE phase'[v] = "saving" /\ queue'[v] = queue[v]
    BY <1>w, <2>1, <2>3
  <2>4. CASE phase'[v] = "applying" /\ queue'[v] = Append(queue[v], "apply")
    <3>1. /\ \A y : In(queue'[v], y) <=> In(queue[v], y) \/ y = "apply"
          /\ Once(queue'[v])
      BY <1>t, <1>w, <2>1, <2>4, AppendIn
    <3> QED BY <1>w, <2>1, <2>4, <3>1
  <2> QED BY <1>5, <2>2, <2>3, <2>4, ReceiveAt
<1>6. CASE Ends(v)
  <2>1. /\ queue[v] # <<>> /\ queue'[v] = Tail(queue[v])
        /\ \/ Head(queue[v]) = "apply" /\ phase'[v] \in {"saving", "idle"}
           \/ Head(queue[v]) = "fetch" /\ phase[v] = "resetting" /\ phase'[v] \in {"saving", "idle"}
           \/ Head(queue[v]) = "fetch" /\ phase[v] # "resetting" /\ phase'[v] = phase[v]
           \/ Head(queue[v]) \in Entity /\ phase'[v] = phase[v]
    BY <1>6, EndsPhase
  <2> DEFINE h == Head(queue[v])
  <2>2. /\ In(queue[v], h)
        /\ \A y : In(queue'[v], y) => In(queue[v], y)
        /\ \A y : In(queue[v], y) /\ y # h => In(queue'[v], y)
        /\ Once(queue'[v])
        /\ h \in {"apply", "fetch"} => ~In(queue'[v], h)
    BY <1>t, <1>w, <2>1, TailIn
  <2> HIDE DEF h
  <2>3. CASE h = "apply" /\ phase'[v] \in {"saving", "idle"}
    BY <1>w, <2>2, <2>3
  <2>4. CASE h = "fetch" /\ phase[v] = "resetting" /\ phase'[v] \in {"saving", "idle"}
    BY <1>w, <2>2, <2>4
  <2>5. CASE h = "fetch" /\ phase[v] # "resetting" /\ phase'[v] = phase[v]
    BY <1>w, <2>2, <2>5
  <2>6. CASE h \in Entity /\ phase'[v] = phase[v]
    BY <1>t, <1>w, <2>2, <2>6
  <2> QED BY <2>1, <2>3, <2>4, <2>5, <2>6 DEF h
<1> QED BY <1>1, <1>2, <1>3, <1>4, <1>5, <1>6, QueueMoves

\* The first mutation of the queue runs until it ends.
LEMMA RunsOn ==
  ASSUME Calm, TypeOK, [Next]_vars, NEW v \in Tab, TabInv(v), ~Ends(v), ~Closes(v), queue[v] # <<>>
  PROVE  queue'[v] # <<>> /\ Head(queue'[v]) = Head(queue[v])
<1>t. queue[v] \in Seq(Task) /\ "apply" \in Task /\ Entity \subseteq Task
  BY Kinds, TaskKinds
<1>1. CASE Keeps(v)
  BY <1>1 DEF Keeps
<1>2. CASE Counts(v)
  BY <1>t, <1>2, AppendIn DEF Counts
<1>3. CASE Refetches(v)
  BY <1>3, FetchingIn DEF Refetches
<1>4. CASE ReceiveAnswer(v)
  <2>1. queue'[v] = Fetching(v) \/ queue'[v] = queue[v] \/ queue'[v] = Append(queue[v], "apply")
    BY <1>4, ReceiveAt
  <2> QED BY <1>t, <2>1, FetchingIn, AppendIn
<1> QED BY <1>1, <1>2, <1>3, <1>4, QueueMoves

LEMMA RunningNext ==
  ASSUME Calm, TypeOK, [Next]_vars, NEW v \in Tab, TabInv(v), got'[v] # {} \/ durable'[v]
  PROVE  /\ \A x : Running(v, x)' <=> Running(v, x)
         /\ Running(v, "apply") \/ Running(v, "fetch")
         /\ ~Ends(v) /\ ~Closes(v)
<1>t. /\ got \in [Tab -> SUBSET Entity] /\ durable \in [Tab -> BOOLEAN]
  BY DEF TypeOK
<1>1. ~Ends(v) /\ ~Closes(v)
  BY EndsPhase DEF Closes
<1>2. ~CloseTab(v)
  BY <1>t DEF CloseTab
<1>3. ReadChanged(v) \/ PersistPatch(v) => Running(v, "apply")
  BY DEF ReadChanged, PersistPatch
<1>4. StoreFetched(v) => Running(v, "fetch")
  BY DEF StoreFetched
<1>5. ASSUME NEW e \in Entity, FetchRow(v, e) PROVE Running(v, "fetch")
  BY <1>5 DEF FetchRow
<1>6. Running(v, "apply") \/ Running(v, "fetch")
  <2>1. CASE UNCHANGED <<draft, got, durable>>
    BY <1>t, <2>1 DEF TabInv, Waiting
  <2> QED BY <1>1, <1>2, <1>3, <1>4, <1>5, <2>1, CatalogFrame
<1>7. queue[v] # <<>>
  BY <1>6 DEF Running
<1>8. queue'[v] # <<>> /\ Head(queue'[v]) = Head(queue[v])
  BY <1>1, <1>7, RunsOn
<1> QED BY <1>1, <1>6, <1>7, <1>8 DEF Running

LEMMA WaitingStep ==
  ASSUME Calm, TypeOK, TypeOK', [Next]_vars, NEW v \in Tab, TabInv(v)
  PROVE  Waiting(v)'
<1>t. /\ copy \in [Tab -> Snapshot] /\ load \in [Tab -> {"closed", "reading", "read", "done"}]
      /\ queue[v] \in Seq(Task) /\ "apply" \in Task /\ Entity \subseteq Task
      /\ "apply" \notin Entity /\ "fetch" \notin Entity /\ reply[v] \in [Entity -> Nat]
  BY Kinds, TaskKinds DEF TypeOK
<1>1. ASSUME NEW e \in Entity, In(queue'[v], e) PROVE loaded'[v] /\ load'[v] = "done"
  <2>1. ~CloseTab(v)
    BY <1>1 DEF CloseTab, In, TypeOK
  <2>2. CASE In(queue[v], e)
    BY <2>1, <2>2, StaysLoaded DEF TabInv, Waiting
  <2>3. CASE ~In(queue[v], e)
    <3>1. ~Keeps(v) /\ ~Closes(v)
      BY <1>1, <2>3 DEF Keeps, Closes, In
    <3>2. ~Refetches(v)
      BY <1>t, <1>1, <2>3, FetchingIn DEF Refetches
    <3>3. ~ReceiveAnswer(v)
      <4>1. queue'[v] # queue[v]
        BY <1>1, <2>3
      <4>2. queue'[v] # Fetching(v)
        BY <1>t, <1>1, <2>3, FetchingIn
      <4>3. \A y : In(Append(queue[v], "apply"), y) <=> In(queue[v], y) \/ y = "apply"
        BY <1>t, AppendIn
      <4>4. queue'[v] # Append(queue[v], "apply")
        BY <1>t, <1>1, <2>3, <4>3
      <4> QED BY <4>1, <4>2, <4>4, ReceiveAt
    <3>4. ~Ends(v)
      BY <1>t, <1>1, <2>3, EndsPhase, TailIn
    <3>5. ~ShowSnapshot(v) /\ ~ScreenRefresh(v)
      <4>1. ShowSnapshot(v) \/ ScreenRefresh(v) => queue'[v] \in {queue[v], Fetching(v)}
        BY DEF ShowSnapshot, ScreenRefresh, TypeOK
      <4> QED BY <1>t, <1>1, <2>3, <4>1, FetchingIn
    <3>6. PICK f \in Entity : ApplyConfirmedStock(v, f)
      BY <1>1, <2>1, <2>3, <3>3, <3>4, <3>5, CatalogFrame
    <3>7. reply[v][f] # 0
      BY <3>6 DEF ApplyConfirmedStock
    <3>8. loaded[v] /\ load[v] = "done"
      BY <3>7 DEF TabInv, Behind
    <3> QED BY <2>1, <3>8, StaysLoaded
  <2> QED BY <2>2, <2>3
<1>2. got'[v] # {} \/ durable'[v] => Running(v, "apply")' \/ Running(v, "fetch")'
  BY RunningNext
<1>3. OnlyResets => have' /\ (load'[v] = "read" => copy'[v].found)
  <2> SUFFICES ASSUME OnlyResets PROVE have' /\ (load'[v] = "read" => copy'[v].found)
    OBVIOUS
  <2>1. have /\ (load[v] = "read" => copy[v].found)
    BY DEF TabInv, Waiting
  <2>2. have'
    BY <2>1, CatalogFrame DEF PersistPatch, StoreFetched, PersistCounted
  <2>3. CASE ReadSnapshot(v)
    <3>1. copy'[v] = [rows |-> stored, found |-> have]
      BY <1>t, <2>3 DEF ReadSnapshot
    <3> QED BY <2>1, <2>2, <3>1
  <2>4. CASE OpenTab(v) \/ CloseTab(v) \/ ShowSnapshot(v)
    <3>1. OpenTab(v) => load'[v] = "reading"
      BY <1>t DEF OpenTab
    <3>2. CloseTab(v) => load'[v] = "closed"
      BY <1>t DEF CloseTab
    <3>3. ShowSnapshot(v) => load'[v] = "done"
      BY <1>t DEF ShowSnapshot
    <3>4. load'[v] # "read"
      BY <2>4, <3>1, <3>2, <3>3
    <3> QED BY <2>2, <3>4
  <2> QED BY <2>1, <2>2, <2>3, <2>4, CatalogFrame
<1> QED BY <1>1, <1>2, <1>3, QueueNext DEF Waiting

-----------------------------------------------------------------------------
(***************************************************************************)
(* The screen and the disk.                                                 *)
(***************************************************************************)
\* What the rest of the section uses of the state before a step.
LEMMA Before ==
  ASSUME TypeOK, NEW v \in Tab, TabInv(v)
  PROVE  /\ loaded[v] \/ durable[v] \/ copy[v].found => have
         /\ ~have => \A e \in Entity : stored[e] = 0
         /\ (loaded[v] \/ load[v] = "done") /\ ~durable[v] => \A e \in Entity : stored[e] <= shown[v][e]
         /\ load[v] = "read" /\ ~loaded[v] /\ ~durable[v] =>
              copy[v].found = have /\ \A e \in Entity : stored[e] <= copy[v].rows[e]
         /\ load[v] = "done" /\ ~loaded[v] /\ ~durable[v] => ~have
         /\ \A e \in Entity : In(queue[v], e) => loaded[v] /\ load[v] = "done"
         /\ \A e \in got[v] : stored[e] <= draft[v][e]
BY DEF TabInv, Loaded, Waiting, Working, Above

\* A counted row is saved when nothing else runs, from a screen that is not older.
LEMMA CountedAt ==
  ASSUME Calm, TypeOK, NEW v \in Tab, TabInv(v), NEW e \in Entity, PersistCounted(v, e)
  PROVE  /\ loaded[v] /\ load[v] = "done" /\ ~durable[v]
         /\ \A f \in Entity : stored[f] <= stored'[f] /\ stored'[f] <= shown[v][f]
         /\ UNCHANGED <<shown, loaded, load, copy, have>>
<1>t. /\ queue[v] \in Seq(Task) /\ "apply" \notin Entity /\ "fetch" \notin Entity
      /\ stored \in [Entity -> Nat] /\ shown[v] \in [Entity -> Nat]
  BY Kinds, TaskKinds
<1>1. queue[v] # <<>> /\ Head(queue[v]) = e
  BY DEF PersistCounted, Running
<1>2. In(queue[v], e)
  BY <1>t, <1>1, TailIn
<1>3. loaded[v] /\ load[v] = "done"
  BY <1>2, Before
<1>4. ~durable[v]
  BY <1>t, <1>1 DEF TabInv, Waiting, Running
<1>5. \A f \in Entity : stored[f] <= shown[v][f]
  BY <1>3, <1>4, Before
<1>6. stored' = [stored EXCEPT ![e] = shown[v][e]]
  BY DEF PersistCounted
<1>7. ASSUME NEW f \in Entity PROVE stored[f] <= stored'[f] /\ stored'[f] <= shown[v][f]
  <2>1. CASE f = e
    BY <1>t, <1>5, <1>6, <2>1
  <2>2. CASE f # e
    BY <1>t, <1>5, <1>6, <2>2
  <2> QED BY <2>1, <2>2
<1>8. UNCHANGED <<shown, loaded, load, copy, have>>
  BY DEF PersistCounted, screen
<1> QED BY <1>3, <1>4, <1>7, <1>8

\* What a patch reads of the screen and of the server, it saves and shows.
LEMMA PatchAt ==
  ASSUME Calm, TypeOK, NEW v \in Tab, TabInv(v), Running(v, "apply"), got[v] # {}
  PROVE  /\ \A e \in Entity : stored[e] <= draft[v][e]
         /\ phase[v] = "applying" /\ load[v] = "done" /\ got[v] = Entity
<1>1. got[v] = Entity /\ load[v] = "done"
  BY DEF TabInv, Working
<1>2. queue[v] \in Seq(Task)
  BY Kinds
<1>3. In(queue[v], "apply")
  BY <1>2, TailIn DEF Running
<1> QED BY <1>1, <1>3, Before DEF TabInv, Waiting

\* The snapshot on the disk only ever gets newer.
LEMMA StoredGrows ==
  ASSUME Calm, TypeOK, [Next]_vars, NEW v \in Tab, TabInv(v)
  PROVE  /\ \A e \in Entity : stored[e] <= stored'[e]
         /\ have => have'
<1>t. stored \in [Entity -> Nat] /\ draft[v] \in [Entity -> Nat]
  BY Kinds
<1>1. CASE PersistPatch(v)
  <2>1. \A e \in Entity : stored[e] <= draft[v][e]
    BY <1>1, PatchAt DEF PersistPatch
  <2> QED BY <1>t, <1>1, <2>1 DEF PersistPatch
<1>2. CASE StoreFetched(v)
  <2>1. \A e \in Entity : stored[e] <= draft[v][e]
    BY <1>2, Before DEF StoreFetched
  <2> QED BY <1>t, <1>2, <2>1 DEF StoreFetched
<1>3. ASSUME NEW e \in Entity, PersistCounted(v, e)
      PROVE  (\A f \in Entity : stored[f] <= stored'[f]) /\ have' = have
  BY <1>3, CountedAt
<1>4. CASE UNCHANGED <<have, stored>>
  BY <1>t, <1>4
<1> QED BY <1>1, <1>2, <1>3, <1>4, CatalogFrame

\* A mutation that has saved its rows ends by showing them, or with the tab.
LEMMA DurableEnds ==
  ASSUME Calm, TypeOK, [Next]_vars, NEW v \in Tab, TabInv(v), durable[v], ~durable'[v]
  PROVE  CloseTab(v) \/ ShowPatch(v) \/ ShowFetched(v)
<1>t. /\ durable \in [Tab -> BOOLEAN] /\ "apply" \notin Entity /\ "fetch" \notin Entity
  BY TaskKinds DEF TypeOK
<1>1. ~FailPatch(v)
  BY DEF FailPatch, TabInv, Working
<1>2. ~NothingToPatch(v) /\ ~FailFetch(v)
  BY DEF NothingToPatch, FailFetch
<1>3. \A e \in Entity : ~PersistCounted(v, e)
  BY CountedAt
<1>4. ~PersistPatch(v) /\ ~StoreFetched(v)
  BY DEF PersistPatch, StoreFetched
<1>5. ~ReadChanged(v) /\ \A e \in Entity : ~FetchRow(v, e)
  BY DEF ReadChanged, FetchRow
<1> QED BY <1>1, <1>2, <1>3, <1>4, <1>5, CatalogFrame DEF Ends

LEMMA DurableAgain ==
  ASSUME Calm, TypeOK, [Next]_vars, NEW v \in Tab, TabInv(v), ~durable[v], ~durable'[v]
  PROVE  ~PersistPatch(v) /\ ~StoreFetched(v) /\ ~ShowPatch(v) /\ ~ShowFetched(v)
<1>t. durable \in [Tab -> BOOLEAN]
  BY DEF TypeOK
<1> QED BY <1>t DEF PersistPatch, StoreFetched, ShowPatch, ShowFetched

\* The values that showing a snapshot, a patch or a refresh leaves on the screen.
LEMMA ShowsAt ==
  ASSUME Calm, TypeOK, NEW v \in Tab, TabInv(v)
  PROVE  /\ ShowPatch(v) \/ ShowFetched(v) =>
              /\ shown'[v] = draft[v] /\ loaded'[v] = TRUE /\ durable[v] /\ got[v] = Entity
              /\ UNCHANGED <<stored, have, load, copy>>
         /\ ShowSnapshot(v) =>
              /\ load[v] = "read" /\ load'[v] = "done" /\ copy'[v].found = FALSE
              /\ IF copy[v].found /\ ~loaded[v]
                 THEN shown'[v] = copy[v].rows /\ loaded'[v] = TRUE
                 ELSE shown'[v] = shown[v] /\ loaded'[v] = loaded[v]
              /\ UNCHANGED <<stored, have, durable>>
         /\ CloseTab(v) =>
              /\ shown'[v] = Nothing /\ loaded'[v] = FALSE /\ load'[v] = "closed"
              /\ copy'[v].found = FALSE /\ durable'[v] = FALSE /\ UNCHANGED <<stored, have>>
<1>t. /\ shown \in [Tab -> [Entity -> Nat]] /\ loaded \in [Tab -> BOOLEAN] /\ copy \in [Tab -> Snapshot]
      /\ durable \in [Tab -> BOOLEAN] /\ load \in [Tab -> {"closed", "reading", "read", "done"}]
  BY DEF TypeOK
<1>1. ASSUME ShowPatch(v) \/ ShowFetched(v)
      PROVE  /\ shown'[v] = draft[v] /\ loaded'[v] = TRUE /\ durable[v] /\ got[v] = Entity
             /\ UNCHANGED <<stored, have, load, copy>>
  <2>1. shown'[v] = draft[v] /\ loaded'[v] = TRUE /\ durable[v] /\ UNCHANGED <<stored, have, load, copy>>
    BY <1>t, <1>1 DEF ShowPatch, ShowFetched, disk
  <2>2. got[v] = Entity
    BY <1>1 DEF ShowPatch, ShowFetched, TabInv, Working
  <2> QED BY <2>1, <2>2
<1>2. ASSUME ShowSnapshot(v)
      PROVE  /\ load[v] = "read" /\ load'[v] = "done" /\ copy'[v].found = FALSE
             /\ IF copy[v].found /\ ~loaded[v]
                THEN shown'[v] = copy[v].rows /\ loaded'[v] = TRUE
                ELSE shown'[v] = shown[v] /\ loaded'[v] = loaded[v]
             /\ UNCHANGED <<stored, have, durable>>
  <2>1. load[v] = "read" /\ load'[v] = "done" /\ UNCHANGED <<stored, have, durable>>
    BY <1>t, <1>2 DEF ShowSnapshot, disk
  <2>2. copy'[v] = [rows |-> Nothing, found |-> FALSE]
    BY <1>t, <1>2 DEF ShowSnapshot
  <2>3. IF copy[v].found /\ ~loaded[v]
        THEN shown'[v] = copy[v].rows /\ loaded'[v] = TRUE
        ELSE shown'[v] = shown[v] /\ loaded'[v] = loaded[v]
    BY <1>t, <1>2 DEF ShowSnapshot
  <2> QED BY <2>1, <2>2, <2>3
<1>3. ASSUME CloseTab(v)
      PROVE  /\ shown'[v] = Nothing /\ loaded'[v] = FALSE /\ load'[v] = "closed"
             /\ copy'[v].found = FALSE /\ durable'[v] = FALSE /\ UNCHANGED <<stored, have>>
  <2>1. /\ shown'[v] = Nothing /\ loaded'[v] = FALSE /\ load'[v] = "closed"
        /\ durable'[v] = FALSE /\ UNCHANGED <<stored, have>>
    BY <1>t, <1>3 DEF CloseTab, disk
  <2>2. copy'[v] = [rows |-> Nothing, found |-> FALSE]
    BY <1>t, <1>3 DEF CloseTab
  <2> QED BY <2>1, <2>2
<1> QED BY <1>1, <1>2, <1>3

\* The row whose counted stock is heard becomes as new as the server's.
LEMMA HearsAt ==
  ASSUME Calm, TypeOK, NEW v \in Tab, TabInv(v), NEW e \in Entity, ApplyConfirmedStock(v, e)
  PROVE  /\ \A f \in Entity : shown[v][f] <= shown'[v][f]
         /\ loaded[v] /\ UNCHANGED <<stored, have, loaded, load, copy, durable>>
<1>t. shown \in [Tab -> [Entity -> Nat]] /\ rows \in [Entity -> Nat]
  BY Kinds DEF TypeOK
<1>1. /\ shown' = [shown EXCEPT ![v][e] = reply[v][e]] /\ reply[v][e] # 0
      /\ UNCHANGED <<stored, have, loaded, load, copy, durable>>
  BY DEF ApplyConfirmedStock, disk
<1>2. reply[v][e] = rows[e] /\ loaded[v] /\ shown[v][e] <= rows[e]
  BY <1>1 DEF TabInv, Behind, Above
<1>3. ASSUME NEW f \in Entity PROVE shown[v][f] <= shown'[v][f]
  <2>1. CASE f = e
    BY <1>t, <1>1, <1>2, <2>1
  <2>2. CASE f # e
    BY <1>t, <1>1, <2>2
  <2> QED BY <2>1, <2>2
<1> QED BY <1>1, <1>2, <1>3

\* What a tab shows after a step is as new as the disk, unless a mutation is to show it.
LEMMA ShownNext ==
  ASSUME Calm, TypeOK, [Next]_vars, NEW v \in Tab, TabInv(v), loaded'[v] \/ load'[v] = "done",
         ~durable'[v], NEW e \in Entity
  PROVE  stored'[e] <= shown'[v][e]
<1>t. /\ stored[e] \in Nat /\ shown[v][e] \in Nat /\ draft[v][e] \in Nat /\ copy[v].rows[e] \in Nat
      /\ load \in [Tab -> {"closed", "reading", "read", "done"}]
  BY Kinds DEF TypeOK
<1>1. ~CloseTab(v)
  BY ShowsAt
<1>2. CASE ShowPatch(v) \/ ShowFetched(v)
  BY <1>2, ShowsAt, Before
<1>3. ~durable[v] \/ ShowPatch(v) \/ ShowFetched(v)
  BY <1>1, DurableEnds
<1>4. CASE ShowSnapshot(v) /\ ~durable[v]
  <2>1. CASE loaded[v]
    BY <1>4, <2>1, ShowsAt, Before
  <2>2. CASE ~loaded[v] /\ copy[v].found
    BY <1>4, <2>2, ShowsAt, Before
  <2>3. CASE ~loaded[v] /\ ~copy[v].found
    <3>1. stored[e] = 0
      BY <1>4, <2>3, ShowsAt, Before
    <3>2. shown'[v] = shown[v] /\ stored' = stored
      BY <1>4, <2>3, ShowsAt
    <3> QED BY <1>t, <3>1, <3>2
  <2> QED BY <2>1, <2>2, <2>3
<1>5. ASSUME NEW f \in Entity, ApplyConfirmedStock(v, f), ~durable[v] PROVE stored'[e] <= shown'[v][e]
  <2>1. shown[v][e] <= shown'[v][e] /\ stored' = stored /\ loaded[v]
    BY <1>5, HearsAt
  <2>2. stored[e] <= shown[v][e]
    BY <1>5, <2>1, Before
  <2>3. shown'[v][e] \in Nat
    BY <1>5, CatalogTypeStep, KindsNext
  <2> QED BY <1>t, <2>1, <2>2, <2>3
<1>6. ASSUME NEW f \in Entity, PersistCounted(v, f) PROVE stored'[e] <= shown'[v][e]
  BY <1>6, CountedAt
<1>7. CASE UNCHANGED <<have, stored>> /\ UNCHANGED <<shown, loaded>> /\ ~durable[v] /\ ~ShowSnapshot(v)
  <2>1. load'[v] = "done" => load[v] = "done"
    BY <1>t, <1>1, <1>7, CatalogFrame DEF OpenTab, ReadSnapshot
  <2>2. loaded[v] \/ load[v] = "done"
    BY <1>7, <2>1
  <2> QED BY <1>7, <2>2, Before
<1>8. ~durable[v] => ~PersistPatch(v) /\ ~StoreFetched(v)
  BY DurableAgain
<1> QED BY <1>1, <1>2, <1>3, <1>4, <1>5, <1>6, <1>7, <1>8, CatalogFrame

\* A copy that is about to be shown is as new as the disk, unless a mutation is to show it.
LEMMA CopyNext ==
  ASSUME Calm, TypeOK, [Next]_vars, NEW v \in Tab, TabInv(v), load'[v] = "read", ~loaded'[v], ~durable'[v]
  PROVE  copy'[v].found = have' /\ \A e \in Entity : stored'[e] <= copy'[v].rows[e]
<1>t. /\ stored \in [Entity -> Nat] /\ copy \in [Tab -> Snapshot]
      /\ load \in [Tab -> {"closed", "reading", "read", "done"}]
  BY Kinds DEF TypeOK
<1>1. ~CloseTab(v) /\ ~ShowSnapshot(v) /\ ~ShowPatch(v) /\ ~ShowFetched(v)
  BY ShowsAt
<1>2. ~durable[v]
  BY <1>1, DurableEnds
<1>3. ~PersistPatch(v) /\ ~StoreFetched(v)
  BY <1>2, DurableAgain
<1>4. ~OpenTab(v)
  BY <1>t DEF OpenTab
<1>5. ~loaded[v]
  BY <1>1, StaysLoaded
<1>6. \A e \in Entity : ~PersistCounted(v, e)
  BY <1>5, CountedAt
<1>7. UNCHANGED <<have, stored>>
  BY <1>3, <1>6, CatalogFrame
<1>8. CASE ReadSnapshot(v)
  <2>1. copy'[v] = [rows |-> stored, found |-> have]
    BY <1>t, <1>8 DEF ReadSnapshot
  <2> QED BY <1>t, <1>7, <2>1
<1>9. CASE UNCHANGED <<load, copy, open>>
  <2>1. copy[v].found = have /\ \A e \in Entity : stored[e] <= copy[v].rows[e]
    BY <1>2, <1>5, <1>9, Before
  <2> QED BY <1>7, <1>9, <2>1
<1> QED BY <1>1, <1>4, <1>8, <1>9, CatalogFrame

LEMMA HaveNext ==
  ASSUME Calm, TypeOK, [Next]_vars, NEW v \in Tab, TabInv(v)
  PROVE  /\ loaded'[v] \/ durable'[v] \/ copy'[v].found => have'
         /\ ~have' => \A e \in Entity : stored'[e] = 0
<1>t. /\ loaded \in [Tab -> BOOLEAN] /\ durable \in [Tab -> BOOLEAN] /\ copy \in [Tab -> Snapshot]
  BY DEF TypeOK
<1>1. loaded[v] \/ durable[v] \/ copy[v].found => have'
  BY Before, StoredGrows
<1>2. CASE ~have'
  <2>1. ~have /\ ~loaded[v] /\ ~durable[v] /\ ~copy[v].found
    BY <1>1, <1>2, StoredGrows
  <2>2. ~PersistPatch(v) /\ ~StoreFetched(v) /\ \A e \in Entity : ~PersistCounted(v, e)
    BY <1>2, <2>1, CountedAt DEF PersistPatch, StoreFetched
  <2>3. UNCHANGED stored
    BY <2>2, CatalogFrame
  <2>4. ~ShowPatch(v) /\ ~ShowFetched(v) /\ \A e \in Entity : ~ApplyConfirmedStock(v, e)
    BY <2>1, ShowsAt, HearsAt
  <2>5. ~loaded'[v]
    <3>1. CASE ShowSnapshot(v) \/ CloseTab(v)
      BY <2>1, <3>1, ShowsAt
    <3> QED BY <2>1, <2>4, <3>1, CatalogFrame
  <2>6. ~durable'[v]
    <3>1. Ends(v) \/ CloseTab(v) => ~durable'[v]
      BY ShowsAt, EndsPhase
    <3>2. (\E e \in Entity : FetchRow(v, e)) \/ ReadChanged(v) => durable' = durable
      BY DEF FetchRow, ReadChanged
    <3> QED BY <2>1, <2>2, <3>1, <3>2, CatalogFrame
  <2>7. ~copy'[v].found
    <3>1. ReadSnapshot(v) => copy'[v] = [rows |-> stored, found |-> have]
      BY <1>t DEF ReadSnapshot
    <3>2. CloseTab(v) \/ ShowSnapshot(v) => copy'[v].found = FALSE
      BY ShowsAt
    <3>3. OpenTab(v) => copy' = copy
      BY DEF OpenTab
    <3>4. ReadSnapshot(v) => ~copy'[v].found
      BY <2>1, <3>1
    <3> QED BY <2>1, <3>2, <3>3, <3>4, CatalogFrame
  <2> QED BY <2>1, <2>3, <2>5, <2>6, <2>7, Before
<1> QED BY <1>2

LEMMA LoadedStep ==
  ASSUME Calm, TypeOK, TypeOK', [Next]_vars, NEW v \in Tab, TabInv(v)
  PROVE  Loaded(v)'
<1>t. /\ load \in [Tab -> {"closed", "reading", "read", "done"}] /\ loaded \in [Tab -> BOOLEAN]
      /\ open \subseteq Tab
  BY DEF TypeOK, JournalTypeOK
<1>1. ~loaded'[v] => \A e \in Entity : shown'[v][e] = 0
  <2> SUFFICES ASSUME ~loaded'[v], NEW e \in Entity PROVE shown'[v][e] = 0
    OBVIOUS
  <2>1. CASE CloseTab(v)
    BY <2>1, ShowsAt, Zero
  <2>2. CASE ~CloseTab(v)
    <3>1. ~loaded[v] /\ shown[v][e] = 0
      BY <2>2, StaysLoaded DEF TabInv, Loaded
    <3>2. ~ShowPatch(v) /\ ~ShowFetched(v)
      BY ShowsAt
    <3>3. \A f \in Entity : ~ApplyConfirmedStock(v, f)
      BY <3>1, HearsAt
    <3>4. ShowSnapshot(v) => shown'[v] = shown[v]
      BY <3>1, ShowsAt
    <3> QED BY <2>2, <3>1, <3>2, <3>3, <3>4, CatalogFrame
  <2> QED BY <2>1, <2>2
<1>2. load'[v] # "closed" => v \in open'
  <2>1. load[v] # "closed" => v \in open
    BY DEF TabInv, Loaded
  <2>2. OpenTab(v) => v \in open'
    BY DEF OpenTab, Register
  <2>3. CloseTab(v) => load'[v] = "closed"
    BY ShowsAt
  <2>4. ReadSnapshot(v) \/ ShowSnapshot(v) => load[v] # "closed" /\ open' = open
    BY DEF ReadSnapshot, ShowSnapshot, jvars
  <2> QED BY <2>1, <2>2, <2>3, <2>4, CatalogFrame
<1>3. (loaded'[v] \/ load'[v] = "done") /\ ~durable'[v] => \A e \in Entity : stored'[e] <= shown'[v][e]
  BY ShownNext
<1>4. load'[v] = "done" /\ ~loaded'[v] /\ ~durable'[v] => ~have'
  <2> SUFFICES ASSUME load'[v] = "done", ~loaded'[v], ~durable'[v] PROVE ~have'
    OBVIOUS
  <2>1. ~CloseTab(v) /\ ~ShowPatch(v) /\ ~ShowFetched(v)
    BY ShowsAt
  <2>2. ~durable[v] /\ ~loaded[v]
    BY <2>1, DurableEnds, StaysLoaded
  <2>3. ~PersistPatch(v) /\ ~StoreFetched(v) /\ \A e \in Entity : ~PersistCounted(v, e)
    BY <2>2, DurableAgain, CountedAt
  <2>4. have' = have
    BY <2>3, CatalogFrame
  <2>5. CASE ShowSnapshot(v)
    BY <2>2, <2>4, <2>5, ShowsAt, Before
  <2>6. CASE ~ShowSnapshot(v)
    <3>1. load[v] = "done"
      BY <1>t, <2>1, <2>6, CatalogFrame DEF OpenTab, ReadSnapshot
    <3> QED BY <2>2, <2>4, <3>1, Before
  <2> QED BY <2>5, <2>6
<1>5. load'[v] = "read" /\ ~loaded'[v] /\ ~durable'[v] =>
        copy'[v].found = have' /\ \A e \in Entity : stored'[e] <= copy'[v].rows[e]
  BY CopyNext
<1> QED BY <1>1, <1>2, <1>3, <1>4, <1>5, HaveNext DEF Loaded, Above

-----------------------------------------------------------------------------
(***************************************************************************)
(* The watermark.                                                           *)
(***************************************************************************)
\* A mutation runs for the answer that the pass works on.
LEMMA RunsFor ==
  ASSUME TypeOK, NEW v \in Tab, TabInv(v)
  PROVE  Running(v, "apply") => phase[v] = "applying"
<1>1. queue[v] \in Seq(Task)
  BY Kinds
<1>2. Running(v, "apply") => In(queue[v], "apply")
  BY <1>1, TailIn DEF Running
<1> QED BY <1>2 DEF TabInv, Waiting

\* An answer without changes claims nothing new; one with changes has all that it claims.
LEMMA AnswerClaims ==
  ASSUME TypeOK, NEW v \in Tab, TabInv(v), ReceiveAnswer(v)
  PROVE  /\ mark' = mark /\ phase[v] = "asking" /\ phase'[v] \in {"resetting", "saving", "applying"}
         /\ mark <= answer'[v].to /\ answer'[v].to <= Len(log)
         /\ phase'[v] = "saving" => answer'[v].to = mark
         /\ phase'[v] = "applying" => \A i \in (mark + 1)..answer'[v].to : log[i] \in answer'[v].changes
         /\ phase'[v] = "resetting" => floor > 0
<1>t. log \in Seq(Entity) /\ Len(log) \in Nat /\ mark \in Nat /\ floor \in Nat
  BY Kinds
<1>1. phase[v] = "asking" /\ mark' = mark /\ after[v] = mark
  BY ReceiveAt DEF ReceiveAnswer, Receive, TabInv, Marked
<1>2. mark <= Len(log)
  BY <1>t, <1>1 DEF TabInv, Marked, Claim
<1>3. /\ NextSequence(mark) \in Nat /\ NextSequence(mark) <= Len(log) /\ mark <= NextSequence(mark)
  BY <1>t, <1>2, NextSequenceBetween
<1>4. CASE ResetRequired(mark)
  <2>1. phase'[v] = "resetting" /\ answer'[v].to = Len(log)
    BY <1>1, <1>4, ReceiveAt
  <2>2. floor > 0
    BY <1>t, <1>2, <1>4 DEF ResetRequired, HeadSequence
  <2> QED BY <1>1, <1>2, <1>t, <2>1, <2>2
<1>5. CASE ~ResetRequired(mark)
  <2> DEFINE next == NextSequence(mark)
  <2>1. /\ phase'[v] \in {"saving", "applying"} /\ answer'[v].to = next
        /\ phase'[v] = "saving" => answer'[v].changes = {}
        /\ answer'[v].changes = {log[i] : i \in {k \in (mark + 1)..next : k > floor}}
    BY <1>1, <1>5, ReceiveAt
  <2>2. floor <= mark
    BY <1>t, <1>5 DEF ResetRequired
  <2> HIDE DEF next
  <2>3. next \in Nat /\ next <= Len(log) /\ mark <= next
    BY <1>3 DEF next
  <2>4. ASSUME NEW i \in (mark + 1)..next PROVE log[i] \in answer'[v].changes
    <3>1. i \in (mark + 1)..next /\ i > floor
      BY <1>t, <2>2, <2>3
    <3>2. i \in {k \in (mark + 1)..next : k > floor}
      BY <3>1
    <3> QED BY <2>1, <3>2
  <2>5. phase'[v] = "saving" => next = mark
    <3>1. mark # next => mark + 1 \in (mark + 1)..next
      BY <1>t, <2>3
    <3>2. mark # next => answer'[v].changes # {}
      BY <2>4, <3>1
    <3> QED BY <2>1, <3>2
  <2> QED BY <1>1, <2>1, <2>3, <2>4, <2>5
<1> QED BY <1>4, <1>5

\* What is claimed grows only when a patch or a rebuild has been shown.
LEMMA ClaimMoves ==
  ASSUME Calm, TypeOK, [Next]_vars, NEW v \in Tab, TabInv(v)
  PROVE  /\ mark <= mark' /\ mark' <= IF phase'[v] = "saving" THEN answer'[v].to ELSE mark'
         /\ \/ (IF phase'[v] = "saving" THEN answer'[v].to ELSE mark') <= Claim(v)
            \/ /\ ShowPatch(v) /\ phase[v] = "applying"
               /\ (IF phase'[v] = "saving" THEN answer'[v].to ELSE mark') = answer[v].to
            \/ /\ ShowFetched(v) /\ phase[v] = "resetting"
               /\ (IF phase'[v] = "saving" THEN answer'[v].to ELSE mark') = answer[v].to
<1> DEFINE claim == IF phase'[v] = "saving" THEN answer'[v].to ELSE mark'
<1>t. /\ phase \in [Tab -> Phase] /\ mark \in Nat /\ answer[v].to \in Nat
      /\ answer \in [Tab -> [reset : BOOLEAN, changes : SUBSET Entity, to : Nat, more : BOOLEAN]]
      /\ mark <= Claim(v)
  BY Kinds DEF TypeOK, JournalTypeOK, TabInv, Marked
<1>1. CASE UNCHANGED <<phase, after, answer, mark>>
  BY <1>t, <1>1 DEF Claim
<1>2. CASE ReceiveAnswer(v)
  <2>1. /\ mark' = mark /\ mark <= answer'[v].to /\ (phase'[v] = "saving" => answer'[v].to = mark)
    BY <1>2, AnswerClaims
  <2> QED BY <1>t, <2>1
<1>3. CASE Saving(v)
  <2>1. /\ phase[v] = "saving" /\ mark' = answer[v].to /\ answer' = answer
        /\ phase'[v] \in {"asking", "idle"}
    BY <1>t, <1>3 DEF Saving, SaveMark
  <2>2. Claim(v) = answer[v].to
    BY <2>1 DEF Claim
  <2> QED BY <1>t, <2>1, <2>2
<1>4. CASE ShowPatch(v)
  <2>1. phase'[v] = "saving" /\ answer' = answer /\ mark' = mark
    BY <1>t, <1>4 DEF ShowPatch, HandlerDone
  <2>2. phase[v] = "applying"
    BY <1>4, RunsFor DEF ShowPatch
  <2>3. mark <= answer[v].to
    BY <2>2 DEF TabInv, Answered
  <2> QED BY <1>t, <1>4, <2>1, <2>2, <2>3
<1>5. CASE ShowFetched(v) /\ phase[v] = "resetting"
  <2>1. phase'[v] = "saving" /\ answer' = answer /\ mark' = mark
    BY <1>t, <1>5 DEF ShowFetched, HandlerDone
  <2>2. mark <= answer[v].to
    BY <1>5 DEF TabInv, Answered
  <2> QED BY <1>t, <1>5, <2>1, <2>2
<1>6. CASE ShowFetched(v) /\ phase[v] # "resetting"
  BY <1>1, <1>6 DEF ShowFetched, jvars, loop
<1>7. CASE FailPatch(v) \/ NothingToPatch(v) \/ LosePage(v)
  <2>1. phase'[v] = "idle" /\ mark' = mark
    BY <1>t, <1>7 DEF FailPatch, NothingToPatch, LosePage, LoseAnswer, FailPass
  <2> QED BY <1>t, <2>1
<1>8. CASE FailFetch(v)
  <2>1. CASE phase[v] = "resetting"
    <3>1. phase'[v] = "idle" /\ mark' = mark
      BY <1>t, <1>8, <2>1 DEF FailFetch, FailPass
    <3> QED BY <1>t, <3>1
  <2>2. CASE phase[v] # "resetting"
    BY <1>1, <1>8, <2>2 DEF FailFetch, loop
  <2> QED BY <2>1, <2>2
<1>9. CASE CloseTab(v)
  <2>1. phase'[v] = "idle" /\ mark' = mark
    BY <1>t, <1>9 DEF CloseTab, Unload
  <2> QED BY <1>t, <2>1
<1>10. CASE Waking(v)
  <2>1. /\ mark' = mark /\ answer' = answer
        /\ phase'[v] = phase[v] \/ phase'[v] = "asking"
    BY <1>t, <1>10 DEF Waking, WakeUp, RetryTimer, Reconcile
  <2> QED BY <1>t, <2>1 DEF Claim
<1> QED BY <1>1, <1>2, <1>3, <1>4, <1>5, <1>6, <1>7, <1>8, <1>9, <1>10, CatalogFrame

\* A pass asks for what follows the saved watermark.
LEMMA AskingNext ==
  ASSUME Calm, TypeOK, [Next]_vars, NEW v \in Tab, TabInv(v), phase'[v] = "asking"
  PROVE  after'[v] = mark'
<1>t. /\ phase \in [Tab -> Phase] /\ after \in [Tab -> Nat]
      /\ phase[v] = "asking" => after[v] = mark
  BY DEF TypeOK, JournalTypeOK, TabInv, Marked
<1>1. ~CloseTab(v) /\ ~LosePage(v) /\ ~FailPatch(v) /\ ~NothingToPatch(v) /\ ~ShowPatch(v)
  BY <1>t DEF CloseTab, Unload, LosePage, LoseAnswer, FailPatch, NothingToPatch, ShowPatch, FailPass, HandlerDone
<1>2. ~ReceiveAnswer(v)
  BY AnswerClaims
<1>3. CASE Waking(v)
  BY <1>t, <1>3 DEF Waking, WakeUp, RetryTimer, Reconcile
<1>4. CASE Saving(v)
  BY <1>t, <1>4 DEF Saving, SaveMark
<1>5. CASE ShowFetched(v) \/ FailFetch(v)
  <2>1. phase[v] # "resetting"
    BY <1>t, <1>5 DEF ShowFetched, FailFetch, HandlerDone, FailPass
  <2>2. phase' = phase /\ after' = after /\ mark' = mark
    BY <1>5, <2>1 DEF ShowFetched, FailFetch, jvars, loop
  <2> QED BY <1>t, <2>2
<1> QED BY <1>t, <1>1, <1>2, <1>3, <1>4, <1>5, CatalogFrame

\* The disk has every change that is claimed.
LEMMA StoredCovers ==
  ASSUME Calm, TypeOK, TypeOK', Server, [Next]_vars, NEW v \in Tab, TabInv(v)
  PROVE  /\ Claim(v)' \in Nat /\ Claim(v)' <= Len(log)
         /\ \A i \in 1..Claim(v)' : i <= stored'[log[i]]
         /\ ~(ShowPatch(v) \/ ShowFetched(v)) => Claim(v)' <= Claim(v)
<1> DEFINE claim == IF phase'[v] = "saving" THEN answer'[v].to ELSE mark'
<1>t. /\ Len(log) \in Nat /\ mark \in Nat /\ \A i \in 1..Len(log) : log[i] \in Entity
      /\ answer[v].to \in Nat /\ answer'[v].to \in Nat /\ mark' \in Nat
      /\ stored \in [Entity -> Nat] /\ stored' \in [Entity -> Nat] /\ draft[v] \in [Entity -> Nat]
  BY Kinds, KindsNext
<1>m. /\ Claim(v) \in Nat /\ mark <= Claim(v) /\ Claim(v) <= Len(log)
      /\ \A i \in 1..Claim(v) : i <= stored[log[i]]
  BY <1>t DEF TabInv, Marked, Covers, Claim
<1>g. \A e \in Entity : stored[e] <= stored'[e]
  BY StoredGrows
<1>c. claim \in Nat
  BY <1>t
<1>d. Claim(v)' = claim
  BY DEF Claim
<1>1. CASE claim <= Claim(v)
  <2>1. ASSUME NEW i \in 1..claim PROVE i <= stored'[log[i]]
    <3>1. i \in 1..Claim(v) /\ log[i] \in Entity
      BY <1>t, <1>m, <1>c, <1>1
    <3>2. i <= stored[log[i]] /\ stored[log[i]] <= stored'[log[i]]
      BY <1>m, <1>g, <3>1
    <3> HIDE DEF claim
    <3>3. i \in Nat /\ stored[log[i]] \in Nat /\ stored'[log[i]] \in Nat
      BY <1>t, <1>c, <3>1
    <3> QED BY <3>2, <3>3
  <2> QED BY <1>t, <1>m, <1>c, <1>d, <1>1, <2>1
<1>2. CASE /\ (ShowPatch(v) /\ phase[v] = "applying") \/ (ShowFetched(v) /\ phase[v] = "resetting")
           /\ claim = answer[v].to
  <2>1. mark <= answer[v].to /\ answer[v].to <= Len(log) /\ stored' = stored
    BY <1>2, ShowsAt DEF TabInv, Answered
  <2>2. ASSUME NEW i \in 1..answer[v].to PROVE i <= stored[log[i]]
    <3>0. i \in 1..Len(log) /\ log[i] \in Entity
      BY <1>t, <2>1
    <3>1. CASE i <= mark
      BY <1>t, <1>m, <3>1
    <3>2. CASE i > mark /\ ShowPatch(v) /\ phase[v] = "applying"
      <4>1. i \in (mark + 1)..answer[v].to
        BY <1>t, <3>2
      <4>2. log[i] \in answer[v].changes
        BY <3>2, <4>1 DEF TabInv, Answered
      <4>3. Running(v, "apply") /\ durable[v]
        BY <3>2 DEF ShowPatch
      <4>4. i <= draft[v][log[i]] /\ stored[log[i]] = draft[v][log[i]]
        BY <4>2, <4>3 DEF TabInv, Working
      <4> QED BY <4>4
    <3>3. CASE ShowFetched(v) /\ phase[v] = "resetting"
      <4>1. Running(v, "fetch") /\ durable[v]
        BY <3>3 DEF ShowFetched
      <4>2. got[v] = Entity /\ stored = draft[v]
        BY <4>1 DEF TabInv, Working
      <4>3. i <= draft[v][log[i]]
        BY <3>0, <3>3, <4>1, <4>2 DEF TabInv, Working
      <4> QED BY <4>2, <4>3
    <3> QED BY <1>t, <1>2, <3>1, <3>2, <3>3
  <2> QED BY <1>t, <1>2, <1>d, <2>1, <2>2
<1> QED BY <1>1, <1>2, ClaimMoves

LEMMA MarkedStep ==
  ASSUME Calm, TypeOK, TypeOK', Server, [Next]_vars, NEW v \in Tab, TabInv(v)
  PROVE  Marked(v)'
<1>t. /\ Len(log) \in Nat /\ \A i \in 1..Len(log) : log[i] \in Entity
      /\ stored \in [Entity -> Nat] /\ shown[v] \in [Entity -> Nat] /\ shown'[v] \in [Entity -> Nat]
      /\ draft[v] \in [Entity -> Nat] /\ copy[v].rows \in [Entity -> Nat]
  BY Kinds, KindsNext
<1>m. /\ Claim(v) \in Nat
      /\ loaded[v] => \A i \in 1..Claim(v) : i <= shown[v][log[i]]
      /\ load[v] = "read" /\ ~loaded[v] /\ copy[v].found => \A i \in 1..Claim(v) : i <= copy[v].rows[log[i]]
      /\ \A i \in 1..Claim(v) : i <= stored[log[i]]
  BY Kinds DEF TabInv, Marked, Covers, Claim
<1>l. /\ Len(log') \in Nat /\ Len(log) <= Len(log') /\ \A i \in 1..Len(log) : log'[i] = log[i]
  BY ServerGrows
<1> DEFINE claim == Claim(v)'
<1>c. /\ claim \in Nat /\ claim <= Len(log)
      /\ \A i \in 1..claim : i <= stored'[log[i]]
      /\ ~(ShowPatch(v) \/ ShowFetched(v)) => claim <= Claim(v)
  BY StoredCovers
<1>d. mark' <= claim
  BY ClaimMoves DEF Claim
<1> HIDE DEF claim
<1>1. loaded'[v] => \A i \in 1..claim : i <= shown'[v][log[i]]
  <2> SUFFICES ASSUME loaded'[v], NEW i \in 1..claim PROVE i <= shown'[v][log[i]]
    OBVIOUS
  <2>0. i \in 1..Len(log) /\ log[i] \in Entity
    BY <1>t, <1>c
  <2>1. CASE ShowPatch(v) \/ ShowFetched(v)
    <3>1. i <= stored[log[i]] /\ shown'[v] = draft[v] /\ got[v] = Entity
      BY <1>c, <2>1, ShowsAt
    <3>2. stored[log[i]] <= draft[v][log[i]]
      BY <2>0, <3>1, Before
    <3>3. i \in Nat /\ stored[log[i]] \in Nat /\ draft[v][log[i]] \in Nat
      BY <1>t, <1>c, <2>0
    <3> QED BY <3>1, <3>2, <3>3
  <2>2. CASE ~ShowPatch(v) /\ ~ShowFetched(v)
    <3>1. i \in 1..Claim(v)
      BY <1>m, <1>c, <2>2
    <3>2. ~CloseTab(v)
      BY ShowsAt
    <3>3. CASE ShowSnapshot(v)
      BY <1>m, <3>1, <3>3, ShowsAt
    <3>4. ASSUME NEW e \in Entity, ApplyConfirmedStock(v, e) PROVE i <= shown'[v][log[i]]
      <4>1. shown[v][log[i]] <= shown'[v][log[i]] /\ loaded[v]
        BY <2>0, <3>4, HearsAt
      <4>2. i <= shown[v][log[i]]
        BY <1>m, <3>1, <4>1
      <4>3. i \in Nat /\ shown[v][log[i]] \in Nat /\ shown'[v][log[i]] \in Nat
        BY <1>t, <1>c, <2>0
      <4> QED BY <4>1, <4>2, <4>3
    <3>5. CASE UNCHANGED <<shown, loaded>>
      BY <1>m, <3>1, <3>5
    <3> QED BY <2>2, <3>2, <3>3, <3>4, <3>5, CatalogFrame
  <2> QED BY <2>1, <2>2
<1>2. load'[v] = "read" /\ ~loaded'[v] /\ copy'[v].found => \A i \in 1..claim : i <= copy'[v].rows[log[i]]
  <2> SUFFICES ASSUME load'[v] = "read", ~loaded'[v], copy'[v].found, NEW i \in 1..claim
               PROVE  i <= copy'[v].rows[log[i]]
    OBVIOUS
  <2>1. ~CloseTab(v) /\ ~ShowSnapshot(v) /\ ~ShowPatch(v) /\ ~ShowFetched(v)
    BY ShowsAt
  <2>2. i \in 1..Claim(v)
    BY <1>m, <1>c, <2>1
  <2>3. ~loaded[v]
    BY <2>1, StaysLoaded
  <2>4. ~OpenTab(v)
    BY DEF OpenTab, TypeOK
  <2>5. CASE ReadSnapshot(v)
    <3>1. copy'[v] = [rows |-> stored, found |-> have]
      BY <2>5 DEF ReadSnapshot, TypeOK
    <3> QED BY <1>m, <2>2, <3>1
  <2>6. CASE UNCHANGED <<load, copy, open>>
    BY <1>m, <2>2, <2>3, <2>6
  <2> QED BY <2>1, <2>4, <2>5, <2>6, CatalogFrame
<1>3. \A i \in 1..claim : i \in 1..Len(log) /\ log'[i] = log[i]
  BY <1>t, <1>c, <1>l
<1>4. claim <= Len(log')
  BY <1>t, <1>c, <1>l
<1>5. Claim(v)' = claim
  BY DEF claim
<1>6. /\ \A i \in 1..claim : i <= stored'[log'[i]]
      /\ loaded'[v] => \A i \in 1..claim : i <= shown'[v][log'[i]]
      /\ load'[v] = "read" /\ ~loaded'[v] /\ copy'[v].found => \A i \in 1..claim : i <= copy'[v].rows[log'[i]]
  BY <1>c, <1>1, <1>2, <1>3
<1> HIDE DEF Claim
<1> QED BY <1>d, <1>4, <1>5, <1>6, AskingNext DEF Marked, Covers

-----------------------------------------------------------------------------
(***************************************************************************)
(* The answer a pass works on and the mutation that runs for it.            *)
(***************************************************************************)
\* While a pass applies or resets, its answer and the watermark stay.
LEMMA AnswerStays ==
  ASSUME Calm, TypeOK, [Next]_vars, NEW v \in Tab, TabInv(v),
         phase'[v] \in {"applying", "resetting"}, ~ReceiveAnswer(v)
  PROVE  phase'[v] = phase[v] /\ answer'[v] = answer[v] /\ mark' = mark
<1>t. phase \in [Tab -> Phase]
  BY DEF TypeOK, JournalTypeOK
<1>1. /\ ~CloseTab(v) /\ ~LosePage(v) /\ ~FailPatch(v) /\ ~NothingToPatch(v) /\ ~ShowPatch(v)
      /\ ~Saving(v)
  BY <1>t DEF CloseTab, Unload, LosePage, LoseAnswer, FailPatch, NothingToPatch, ShowPatch,
              FailPass, HandlerDone, Saving, SaveMark
<1>2. CASE Waking(v)
  BY <1>t, <1>2 DEF Waking, WakeUp, RetryTimer, Reconcile
<1>3. CASE ShowFetched(v) \/ FailFetch(v)
  <2>1. phase[v] # "resetting"
    BY <1>t, <1>3 DEF ShowFetched, FailFetch, HandlerDone, FailPass
  <2>2. phase' = phase /\ answer' = answer /\ mark' = mark
    BY <1>3, <2>1 DEF ShowFetched, FailFetch, jvars, loop
  <2> QED BY <2>2
<1> QED BY <1>1, <1>2, <1>3, CatalogFrame

LEMMA AnsweredStep ==
  ASSUME Calm, TypeOK, TypeOK', Server, [Next]_vars, NEW v \in Tab, TabInv(v)
  PROVE  Answered(v)'
<1> SUFFICES ASSUME phase'[v] \in {"applying", "resetting"}
             PROVE  /\ mark' <= answer'[v].to /\ answer'[v].to <= Len(log')
                    /\ phase'[v] = "applying" =>
                         \A i \in (mark' + 1)..answer'[v].to : log'[i] \in answer'[v].changes
  BY DEF Answered
<1>t. /\ Len(log) \in Nat /\ mark \in Nat /\ answer'[v].to \in Nat /\ Len(log') \in Nat
      /\ Len(log) <= Len(log') /\ \A i \in 1..Len(log) : log'[i] = log[i]
  BY Kinds, KindsNext, ServerGrows
<1>1. /\ mark' = mark /\ mark <= answer'[v].to /\ answer'[v].to <= Len(log)
      /\ phase'[v] = "applying" => \A i \in (mark + 1)..answer'[v].to : log[i] \in answer'[v].changes
  <2>1. CASE ReceiveAnswer(v)
    BY <2>1, AnswerClaims
  <2>2. CASE ~ReceiveAnswer(v)
    <3>1. phase'[v] = phase[v] /\ answer'[v] = answer[v] /\ mark' = mark
      BY <2>2, AnswerStays
    <3> QED BY <3>1 DEF TabInv, Answered
  <2> QED BY <2>1, <2>2
<1>2. \A i \in (mark + 1)..answer'[v].to : i \in 1..Len(log) /\ log'[i] = log[i]
  BY <1>t, <1>1
<1> QED BY <1>t, <1>1, <1>2

\* Rows are read from the server as they are when the request is answered.
LEMMA ReadsAt ==
  ASSUME Calm, TypeOK, NEW v \in Tab, TabInv(v)
  PROVE  /\ ReadChanged(v) =>
              /\ got'[v] = Entity /\ load[v] = "done" /\ ~durable[v] /\ got[v] = {}
              /\ \A e \in Entity : draft'[v][e] = IF e \in answer[v].changes THEN rows[e] ELSE shown[v][e]
              /\ UNCHANGED <<log, stored, durable, answer, load, phase>>
         /\ \A e \in Entity : FetchRow(v, e) =>
              /\ got'[v] = got[v] \union {e} /\ e \notin got[v] /\ draft'[v][e] = rows[e]
              /\ \A f \in Entity \ {e} : draft'[v][f] = draft[v][f]
              /\ UNCHANGED <<log, stored, durable, answer, load, phase>>
<1>t. draft \in [Tab -> [Entity -> Nat]] /\ got \in [Tab -> SUBSET Entity]
  BY DEF TypeOK
<1>1. ASSUME ReadChanged(v)
      PROVE  /\ got'[v] = Entity /\ load[v] = "done" /\ ~durable[v] /\ got[v] = {}
             /\ \A e \in Entity : draft'[v][e] = IF e \in answer[v].changes THEN rows[e] ELSE shown[v][e]
             /\ UNCHANGED <<log, stored, durable, answer, load, phase>>
  <2>1. got'[v] = Entity /\ load[v] = "done" /\ got[v] = {}
    BY <1>t, <1>1 DEF ReadChanged, Calm
  <2>2. ~durable[v]
    BY <1>1, <2>1 DEF ReadChanged, TabInv, Working
  <2>3. \A e \in Entity : draft'[v][e] = IF e \in answer[v].changes THEN rows[e] ELSE shown[v][e]
    BY <1>t, <1>1 DEF ReadChanged
  <2>4. UNCHANGED <<log, stored, durable, answer, load, phase>>
    BY <1>1 DEF ReadChanged, jvars, server, loop, disk, screen
  <2> QED BY <2>1, <2>2, <2>3, <2>4
<1>2. ASSUME NEW e \in Entity, FetchRow(v, e)
      PROVE  /\ got'[v] = got[v] \union {e} /\ e \notin got[v] /\ draft'[v][e] = rows[e]
             /\ \A f \in Entity \ {e} : draft'[v][f] = draft[v][f]
             /\ UNCHANGED <<log, stored, durable, answer, load, phase>>
  <2>1. got'[v] = got[v] \union {e} /\ e \notin got[v] /\ draft' = [draft EXCEPT ![v][e] = rows[e]]
    BY <1>t, <1>2 DEF FetchRow
  <2>2. draft'[v][e] = rows[e]
    BY <1>t, <2>1
  <2>3. \A f \in Entity \ {e} : draft'[v][f] = draft[v][f]
    BY <1>t, <2>1
  <2>4. UNCHANGED <<log, stored, durable, answer, load, phase>>
    BY <1>2 DEF FetchRow, jvars, server, loop, disk, screen
  <2> QED BY <2>1, <2>2, <2>3, <2>4
<1> QED BY <1>1, <1>2

\* What a step reads or keeps of the running mutation's rows, when the mutation goes on.
LEMMA WorkMoves ==
  ASSUME Calm, TypeOK, [Next]_vars, NEW v \in Tab, TabInv(v), got'[v] # {} \/ durable'[v]
  PROVE  \/ UNCHANGED <<draft, got, durable, stored>>
         \/ ReadChanged(v) \/ PersistPatch(v) \/ StoreFetched(v) \/ \E e \in Entity : FetchRow(v, e)
<1>1. ~Ends(v) /\ ~Closes(v)
  BY RunningNext
<1>2. ~CloseTab(v)
  BY DEF CloseTab, TypeOK
<1>3. \A e \in Entity : ~PersistCounted(v, e)
  BY <1>1 DEF Ends
<1> QED BY <1>1, <1>2, <1>3, CatalogFrame

\* No row read is older than the one saved.
LEMMA ReadsNewer ==
  ASSUME Calm, TypeOK, TypeOK', Server, [Next]_vars, NEW v \in Tab, TabInv(v), NEW e \in got'[v]
  PROVE  stored'[e] <= draft'[v][e]
<1>t. /\ stored \in [Entity -> Nat] /\ shown[v] \in [Entity -> Nat] /\ draft[v] \in [Entity -> Nat]
      /\ rows \in [Entity -> Nat] /\ e \in Entity /\ stored[e] <= rows[e]
  BY Kinds, KindsNext DEF TabInv, Behind, Above
<1>1. CASE UNCHANGED <<draft, got, durable, stored>>
  BY <1>1, Before
<1>2. CASE ReadChanged(v)
  <2>1. stored' = stored /\ (draft'[v][e] = rows[e] \/ draft'[v][e] = shown[v][e])
    BY <1>t, <1>2, ReadsAt
  <2>2. stored[e] <= shown[v][e]
    BY <1>t, <1>2, ReadsAt, Before
  <2> QED BY <1>t, <2>1, <2>2
<1>3. CASE PersistPatch(v)
  <2>1. stored[e] <= draft[v][e]
    BY <1>t, <1>3, PatchAt DEF PersistPatch
  <2> QED BY <1>t, <1>3, <2>1 DEF PersistPatch
<1>4. CASE StoreFetched(v)
  BY <1>t, <1>4 DEF StoreFetched
<1>5. ASSUME NEW f \in Entity, FetchRow(v, f) PROVE stored'[e] <= draft'[v][e]
  <2>1. CASE e = f
    BY <1>t, <1>5, <2>1, ReadsAt
  <2>2. CASE e # f
    <3>1. e \in got[v] /\ stored' = stored /\ draft'[v][e] = draft[v][e]
      BY <1>t, <1>5, <2>2, ReadsAt
    <3> QED BY <3>1, Before
  <2> QED BY <2>1, <2>2
<1> QED BY <1>1, <1>2, <1>3, <1>4, <1>5, WorkMoves

\* A running patch keeps its answer.
LEMMA PatchGoesOn ==
  ASSUME Calm, TypeOK, TypeOK', [Next]_vars, NEW v \in Tab, TabInv(v), got'[v] # {} \/ durable'[v],
         Running(v, "apply")'
  PROVE  /\ Running(v, "apply") /\ ~Running(v, "fetch") /\ phase[v] = "applying" /\ answer'[v] = answer[v]
         /\ load[v] = "done" => load'[v] = "done"
<1>1. Running(v, "apply")
  BY RunningNext
<1>2. phase[v] = "applying"
  BY <1>1, RunsFor
<1>3. queue'[v] \in Seq(Task) /\ queue'[v] # <<>> /\ Head(queue'[v]) = "apply"
  BY KindsNext DEF Running
<1>4. In(queue'[v], "apply")
  BY <1>3, TailIn
<1>5. phase'[v] = "applying"
  BY <1>4, QueueNext
<1>6. ~ReceiveAnswer(v)
  BY <1>2, ReceiveAt
<1>7. ~CloseTab(v)
  BY <1>5 DEF CloseTab, Unload, TypeOK, JournalTypeOK
<1> QED BY <1>1, <1>2, <1>5, <1>6, <1>7, AnswerStays, StaysLoaded DEF Running

\* The patch that runs has all the changed rows, at least as new as its answer says.
LEMMA PatchNext ==
  ASSUME Calm, TypeOK, TypeOK', Server, [Next]_vars, NEW v \in Tab, TabInv(v), Running(v, "apply")'
  PROVE  /\ got'[v] # {} =>
              /\ got'[v] = Entity /\ load'[v] = "done"
              /\ \A i \in 1..answer'[v].to : log'[i] \in answer'[v].changes => i <= draft'[v][log'[i]]
         /\ durable'[v] => got'[v] # {} /\ \A e \in answer'[v].changes : stored'[e] = draft'[v][e]
<1> SUFFICES ASSUME got'[v] # {} \/ durable'[v]
             PROVE  /\ got'[v] # {} =>
                         /\ got'[v] = Entity /\ load'[v] = "done"
                         /\ \A i \in 1..answer'[v].to :
                              log'[i] \in answer'[v].changes => i <= draft'[v][log'[i]]
                    /\ durable'[v] => got'[v] # {} /\ \A e \in answer'[v].changes : stored'[e] = draft'[v][e]
  OBVIOUS
<1>1. /\ Running(v, "apply") /\ ~Running(v, "fetch") /\ phase[v] = "applying" /\ answer'[v] = answer[v]
      /\ load[v] = "done" => load'[v] = "done"
  BY PatchGoesOn
<1>t. /\ Len(log) \in Nat /\ \A i \in 1..Len(log) : log[i] \in Entity
      /\ answer[v].to \in Nat /\ answer[v].changes \in SUBSET Entity
      /\ answer[v].to <= Len(log) /\ \A i \in 1..Len(log) : log'[i] = log[i] /\ i <= rows[log[i]]
      /\ draft \in [Tab -> [Entity -> Nat]] /\ durable \in [Tab -> BOOLEAN]
      /\ stored \in [Entity -> Nat] /\ rows \in [Entity -> Nat]
  BY <1>1, Kinds, ServerGrows DEF TabInv, Answered, Server, Covers, TypeOK
<1>l. \A i \in 1..answer[v].to : i \in 1..Len(log) /\ log'[i] = log[i]
  BY <1>t
<1>b. /\ got[v] # {} => /\ got[v] = Entity /\ load[v] = "done"
                        /\ \A i \in 1..answer[v].to : log[i] \in answer[v].changes => i <= draft[v][log[i]]
      /\ durable[v] => got[v] # {} /\ \A e \in answer[v].changes : stored[e] = draft[v][e]
  BY <1>1 DEF TabInv, Working
<1>2. ~StoreFetched(v) /\ \A e \in Entity : ~FetchRow(v, e)
  BY <1>1 DEF StoreFetched, FetchRow
<1>3. CASE UNCHANGED <<draft, got, durable, stored>>
  BY <1>1, <1>b, <1>l, <1>3
<1>4. CASE ReadChanged(v)
  <2>1. /\ got'[v] = Entity /\ load[v] = "done" /\ ~durable'[v]
        /\ \A e \in answer[v].changes : draft'[v][e] = rows[e]
    BY <1>t, <1>4, ReadsAt
  <2>2. \A i \in 1..answer[v].to : log'[i] \in answer[v].changes => i <= draft'[v][log'[i]]
    BY <1>t, <1>l, <2>1
  <2> QED BY <1>1, <2>1, <2>2
<1>5. CASE PersistPatch(v)
  <2>1. /\ got[v] # {} /\ got' = got /\ draft' = draft
        /\ stored' = [e \in Entity |-> IF e \in answer[v].changes THEN draft[v][e] ELSE stored[e]]
    BY <1>5 DEF PersistPatch
  <2>2. \A e \in answer[v].changes : stored'[e] = draft'[v][e]
    BY <1>t, <2>1
  <2> QED BY <1>1, <1>b, <1>l, <2>1, <2>2
<1> QED BY <1>2, <1>3, <1>4, <1>5, WorkMoves

\* A refresh that is saved has every row, and one that a reset waits for began after it.
LEMMA FetchNext ==
  ASSUME Calm, TypeOK, TypeOK', Server, [Next]_vars, NEW v \in Tab, TabInv(v), Running(v, "fetch")'
  PROVE  /\ durable'[v] => got'[v] = Entity /\ stored' = draft'[v]
         /\ phase'[v] = "resetting" =>
              \A i \in 1..answer'[v].to : log'[i] \in got'[v] => i <= draft'[v][log'[i]]
<1> SUFFICES ASSUME got'[v] # {} \/ durable'[v]
             PROVE  /\ durable'[v] => got'[v] = Entity /\ stored' = draft'[v]
                    /\ phase'[v] = "resetting" =>
                         \A i \in 1..answer'[v].to : log'[i] \in got'[v] => i <= draft'[v][log'[i]]
  OBVIOUS
<1>1. Running(v, "fetch") /\ ~Running(v, "apply")
  BY RunningNext DEF Running
<1>t. /\ Len(log) \in Nat /\ \A i \in 1..Len(log) : log[i] \in Entity
      /\ \A i \in 1..Len(log) : log'[i] = log[i] /\ i <= rows[log[i]]
      /\ draft \in [Tab -> [Entity -> Nat]] /\ durable \in [Tab -> BOOLEAN] /\ got \in [Tab -> SUBSET Entity]
      /\ stored \in [Entity -> Nat] /\ rows \in [Entity -> Nat] /\ queue[v] \in Seq(Task)
  BY Kinds, ServerGrows DEF Server, Covers, TypeOK
<1>2. ~PersistPatch(v) /\ ~ReadChanged(v)
  BY <1>1 DEF PersistPatch, ReadChanged
<1>3. durable'[v] => got'[v] = Entity /\ stored' = draft'[v]
  <2>1. durable[v] => got[v] = Entity /\ stored = draft[v]
    BY <1>1 DEF TabInv, Working
  <2>2. CASE UNCHANGED <<draft, got, durable, stored>>
    BY <2>1, <2>2
  <2>3. CASE StoreFetched(v)
    BY <2>3 DEF StoreFetched
  <2>4. ASSUME NEW e \in Entity, FetchRow(v, e) PROVE ~durable'[v]
    BY <2>1, <2>4, ReadsAt
  <2> QED BY <1>2, <2>2, <2>3, <2>4, WorkMoves
<1>4. ASSUME phase'[v] = "resetting", NEW i \in 1..answer'[v].to, log'[i] \in got'[v]
      PROVE  i <= draft'[v][log'[i]]
  <2>1. ~ReceiveAnswer(v)
    <3>1. In(queue[v], "fetch")
      BY <1>1, <1>t, TailIn DEF Running
    <3>2. OnlyResets => phase[v] = "resetting"
      BY <3>1 DEF TabInv, Waiting
    <3>3. ReceiveAnswer(v) => phase[v] = "asking" /\ floor > 0
      BY <1>4, AnswerClaims
    <3>4. NeverPruned => floor = 0
      BY DEF Server
    <3>5. NeverPruned \/ OnlyResets
      BY DEF Calm
    <3>6. phase[v] = "asking" => ~OnlyResets
      BY <3>2
    <3>7. floor > 0 => ~NeverPruned
      BY <3>4
    <3> QED BY <3>3, <3>5, <3>6, <3>7
  <2>2. phase[v] = "resetting" /\ answer'[v] = answer[v]
    BY <1>4, <2>1, AnswerStays
  <2>3. answer[v].to <= Len(log) /\ answer[v].to \in Nat
    BY <2>2, Kinds DEF TabInv, Answered
  <2>4. i \in 1..answer[v].to /\ i \in 1..Len(log) /\ log'[i] = log[i] /\ log[i] \in Entity
    BY <1>t, <2>2, <2>3
  <2>5. log[i] \in got[v] => i <= draft[v][log[i]]
    BY <1>1, <2>2, <2>4 DEF TabInv, Working
  <2>6. CASE UNCHANGED <<draft, got, durable, stored>>
    BY <1>4, <2>4, <2>5, <2>6
  <2>7. CASE StoreFetched(v)
    BY <1>4, <2>4, <2>5, <2>7 DEF StoreFetched
  <2>8. ASSUME NEW e \in Entity, FetchRow(v, e) PROVE i <= draft'[v][log'[i]]
    <3>1. CASE log[i] = e
      <4>1. draft'[v][log'[i]] = rows[log[i]]
        BY <2>4, <2>8, <3>1, ReadsAt
      <4> QED BY <1>t, <2>4, <4>1
    <3>2. CASE log[i] # e
      <4>1. log[i] \in got[v] /\ draft'[v][log'[i]] = draft[v][log[i]]
        BY <1>4, <2>4, <2>8, <3>2, ReadsAt
      <4> QED BY <2>5, <4>1
    <3> QED BY <3>1, <3>2
  <2> QED BY <1>2, <2>6, <2>7, <2>8, WorkMoves
<1> QED BY <1>3, <1>4

LEMMA WorkingStep ==
  ASSUME Calm, TypeOK, TypeOK', Server, [Next]_vars, NEW v \in Tab, TabInv(v)
  PROVE  Working(v)'
<1>1. \A e \in got'[v] : stored'[e] <= draft'[v][e]
  BY ReadsNewer
<1> QED BY <1>1, PatchNext, FetchNext DEF Working

-----------------------------------------------------------------------------
(***************************************************************************)
(* The invariant holds, and with it the properties.                         *)
(***************************************************************************)
LEMMA CatalogStarts == Calm /\ Init => CatalogInv
<1> SUFFICES ASSUME Calm, Init PROVE CatalogInv
  OBVIOUS
<1>1. TypeOK
  BY CatalogTypeInit
<1>r. /\ log = StartLog /\ Len(log) \in Nat /\ \A i \in 1..Len(log) : log[i] \in Entity /\ rows[log[i]] = i
      /\ \A e \in Entity : rows[e] \in 1..Len(log)
  <2>1. log = StartLog
    BY DEF Init, JournalInit
  <2>2. log \in Seq(Entity) /\ Len(log) \in Nat /\ \A i \in 1..Len(log) : log[i] \in Entity
    BY <1>1, HeadType, LogEntries DEF TypeOK, JournalTypeOK
  <2> QED BY <2>1, <2>2, RowsAtStart
<1>2. Server
  <2>1. floor = 0
    BY DEF Init, JournalInit
  <2>2. Covers(rows, Len(log)) /\ \A e \in Entity : rows[e] <= Len(log)
    BY <1>r DEF Covers
  <2> QED BY <1>r, <2>1, <2>2 DEF Server, NeverPruned
<1>3. ASSUME NEW v \in Tab PROVE TabInv(v)
  <2>1. /\ queue[v] = <<>> /\ got[v] = {} /\ durable[v] = FALSE /\ draft[v] = Nothing
        /\ shown[v] = Nothing /\ loaded[v] = FALSE /\ load[v] = "closed" /\ reply[v] = Nothing
        /\ phase[v] = "idle" /\ have = (mark # 0) /\ stored = IF have THEN rows ELSE Nothing
    BY DEF Init, JournalInit
  <2>2. copy[v].rows = Nothing /\ copy[v].found = FALSE
    BY DEF Init
  <2>3. \E warm \in Warm : mark = IF warm THEN Len(StartLog) ELSE 0
    BY DEF Init, JournalInit
  <2>4. mark \in 0..Len(log) /\ \A i \in 1..mark : i <= stored[log[i]]
    <3>1. mark = 0 \/ mark = Len(log)
      BY <1>r, <2>3
    <3>2. CASE mark = 0
      BY <1>r, <3>2
    <3>3. CASE mark = Len(log) /\ mark # 0
      <4>1. stored = rows
        BY <2>1, <3>3
      <4>2. \A i \in 1..Len(log) : i <= rows[log[i]]
        BY <1>r
      <4> QED BY <1>r, <3>3, <4>1, <4>2
    <3> QED BY <3>1, <3>2, <3>3
  <2>5. \A e \in Entity : Nothing[e] <= rows[e] /\ stored[e] <= rows[e] /\ (~have => stored[e] = 0)
    BY <1>r, <2>1, Zero
  <2>6. Behind(v)
    BY <2>1, <2>2, <2>5, Zero DEF Behind, Above
  <2>7. OnlyResets => have
    <3> SUFFICES ASSUME OnlyResets PROVE mark # 0
      BY <2>1
    <3>1. mark = Len(StartLog) /\ StartLog # <<>>
      BY <2>3 DEF OnlyResets
    <3> QED BY <3>1, JournalAssumption DEF JournalAssumption
  <2>8. Waiting(v)
    BY <2>1, <2>7 DEF Waiting, Once, In
  <2>9. Loaded(v)
    BY <2>1, <2>2, <2>5, Zero DEF Loaded
  <2>10. Claim(v) = mark
    BY <2>1 DEF Claim
  <2>11. Marked(v)
    BY <1>r, <2>1, <2>4, <2>10 DEF Marked, Covers
  <2>12. Answered(v) /\ Working(v)
    BY <2>1 DEF Answered, Working, Running
  <2> QED BY <2>6, <2>8, <2>9, <2>11, <2>12 DEF TabInv
<1> QED BY <1>1, <1>2, <1>3 DEF CatalogInv

LEMMA CatalogStep == Calm /\ CatalogInv /\ [Next]_vars => CatalogInv'
<1> SUFFICES ASSUME Calm, CatalogInv, [Next]_vars PROVE CatalogInv'
  OBVIOUS
<1>1. TypeOK /\ Server /\ \A t \in Tab : TabInv(t)
  BY DEF CatalogInv
<1>2. TypeOK'
  BY <1>1, CatalogTypeStep
<1>3. ASSUME NEW v \in Tab PROVE Server' /\ TabInv(v)'
  <2>1. TabInv(v)
    BY <1>1
  <2>2. Server'
    BY <1>1, ServerStep
  <2>3. Behind(v)' /\ Waiting(v)' /\ Loaded(v)' /\ Marked(v)' /\ Answered(v)' /\ Working(v)'
    BY <1>1, <1>2, <2>1, BehindStep, WaitingStep, LoadedStep, MarkedStep, AnsweredStep, WorkingStep
  <2> QED BY <2>2, <2>3 DEF TabInv
<1>4. \E t : t \in Tab
  BY DEF Calm
<1> QED BY <1>2, <1>3, <1>4 DEF CatalogInv

LEMMA CatalogInvariant ==
  ASSUME Calm
  PROVE  Spec => []CatalogInv
<1>1. Init => CatalogInv
  BY CatalogStarts
<1>2. CatalogInv /\ [Next]_vars => CatalogInv'
  BY CatalogStep
<1> QED BY <1>1, <1>2, PTL DEF Spec

LEMMA ShownByInvariant == CatalogInv => ShownCoversMark
<1> SUFFICES ASSUME CatalogInv, NEW t \in Tab, loaded[t], NEW i \in 1..mark
             PROVE  shown[t][log[i]] >= i
  BY DEF ShownCoversMark
<1>1. /\ mark \in Nat /\ answer[t].to \in Nat /\ Len(log) \in Nat /\ shown[t] \in [Entity -> Nat]
      /\ \A k \in 1..Len(log) : log[k] \in Entity
  BY Kinds DEF CatalogInv
<1>2. mark <= Claim(t) /\ Claim(t) \in Nat /\ Claim(t) <= Len(log)
  BY <1>1 DEF CatalogInv, TabInv, Marked, Claim
<1>3. i \in 1..Claim(t) /\ log[i] \in Entity
  BY <1>1, <1>2
<1>4. i <= shown[t][log[i]]
  BY <1>3 DEF CatalogInv, TabInv, Marked, Covers
<1> QED BY <1>1, <1>3, <1>4

\* The rows that a tab shows never lack a change that the next answer of the journal will
\* skip: not between a patch's read and its write, not while a refresh is under way, not
\* when the tab opens on a snapshot that is being replaced, not after a failure
\* (cache-journal.service.ts:225-297, catalog-cache.service.ts:96-168, 252-407).
THEOREM ShownCoversTheMark ==
  ASSUME Calm
  PROVE  Spec => []ShownCoversMark
<1>1. Spec => []CatalogInv
  BY CatalogInvariant
<1> QED BY <1>1, ShownByInvariant, PTL

-----------------------------------------------------------------------------
(***************************************************************************)
(* The snapshot implements StreamReplica.                                   *)
(***************************************************************************)
LEMMA ReplicaStarts == Calm /\ CatalogInv => Replica!ReplicaInit
<1> SUFFICES ASSUME Calm, CatalogInv PROVE Replica!ReplicaInit
  OBVIOUS
<1>0. PICK v : v \in Tab
  BY DEF Calm
<1>i. TypeOK /\ Server /\ TabInv(v)
  BY <1>0 DEF CatalogInv
<1>t. /\ Len(log) \in Nat /\ \A i \in 1..Len(log) : log[i] \in Entity
      /\ stored \in [Entity -> Nat] /\ rows \in [Entity -> Nat] /\ mark \in Nat /\ answer[v].to \in Nat
  BY <1>0, <1>i, Kinds
<1>1. /\ mark <= Claim(v) /\ Claim(v) \in Nat /\ Claim(v) <= Len(log)
      /\ \A i \in 1..Claim(v) : i <= stored[log[i]]
  BY <1>i, <1>t DEF TabInv, Marked, Covers, Claim
<1>2. mark \in 0..Len(log)
  BY <1>t, <1>1
<1>3. ASSUME NEW i \in 1..mark PROVE stored[log[i]] >= i
  <2>1. i \in 1..Claim(v) /\ log[i] \in Entity
    BY <1>t, <1>1
  <2>2. i <= stored[log[i]]
    BY <1>1, <2>1
  <2> QED BY <1>t, <2>1, <2>2
<1>4. ASSUME NEW e \in Entity PROVE stored[e] <= Len(log)
  <2>1. stored[e] <= rows[e] /\ rows[e] <= Len(log)
    BY <1>i DEF TabInv, Behind, Above, Server
  <2> QED BY <1>t, <2>1
<1> QED BY <1>2, <1>3, <1>4 DEF Replica!ReplicaInit, Replica!Has

\* A step that moves the watermark or the log leaves the snapshot alone, and the reverse.
LEMMA ReplicaFrame ==
  ASSUME Calm, TypeOK, [Next]_vars, NEW v \in Tab
  PROVE  \/ (\E e \in Entity : Emit(e)) /\ UNCHANGED <<stored, mark>>
         \/ UNCHANGED <<log, mark>>
         \/ Saving(v) /\ UNCHANGED <<log, stored>>
<1>1. ASSUME NEW e \in Entity, Change(e) \/ CountStock(v, e) PROVE Emit(e) /\ UNCHANGED <<stored, mark>>
  BY <1>1 DEF Change, CountStock, Emit, disk
<1>2. Saving(v) => UNCHANGED <<log, stored>>
  BY DEF Saving, SaveMark, server, disk
<1>3. Waking(v) \/ LosePage(v) \/ FailPatch(v) \/ NothingToPatch(v) => mark' = mark
  BY DEF Waking, WakeUp, RetryTimer, LosePage, LoseAnswer, FailPatch, NothingToPatch, FailPass
<1>4. CloseTab(v) \/ ReceiveAnswer(v) \/ ShowPatch(v) => mark' = mark
  BY DEF CloseTab, Unload, ReceiveAnswer, Receive, ShowPatch, HandlerDone
<1>5. ShowFetched(v) \/ FailFetch(v) => mark' = mark
  BY DEF ShowFetched, FailFetch, HandlerDone, FailPass, jvars
<1>6. (\E e \in Entity : Change(e) \/ CountStock(v, e)) \/ UNCHANGED log
  BY CatalogFrame
<1>7. Saving(v) \/ mark' = mark
  BY <1>3, <1>4, <1>5, CatalogFrame
<1> QED BY <1>1, <1>2, <1>6, <1>7

LEMMA ReplicaStep == Calm /\ CatalogInv /\ [Next]_vars => [Replica!ReplicaNext]_(Replica!rvars)
<1> SUFFICES ASSUME Calm, CatalogInv, [Next]_vars PROVE [Replica!ReplicaNext]_(Replica!rvars)
  OBVIOUS
<1>0. PICK v : v \in Tab
  BY DEF Calm
<1>i. TypeOK /\ Server /\ TabInv(v) /\ TypeOK'
  BY <1>0, CatalogTypeStep DEF CatalogInv
<1>t. /\ Len(log) \in Nat /\ \A i \in 1..Len(log) : log[i] \in Entity
      /\ stored \in [Entity -> Nat] /\ stored' \in [Entity -> Nat] /\ rows \in [Entity -> Nat]
      /\ mark \in Nat /\ mark' \in Nat /\ answer'[v].to \in Nat
  BY <1>0, <1>i, Kinds, KindsNext
<1>1. ASSUME NEW e \in Entity, Emit(e), UNCHANGED <<stored, mark>> PROVE Replica!ServerChanges
  BY <1>1 DEF Emit, Replica!ServerChanges
<1>2. CASE UNCHANGED <<log, mark>>
  <2>1. ASSUME NEW e \in Entity PROVE stored[e] <= stored'[e] /\ stored'[e] <= Len(log)
    <3>1. stored[e] <= stored'[e]
      BY <1>0, <1>i, StoredGrows
    <3>2. stored'[e] <= rows[e] /\ rows[e] <= Len(log)
      BY <1>0, <1>i, StoredBehind DEF Server
    <3> QED BY <1>t, <3>1, <3>2
  <2> QED BY <1>2, <2>1 DEF Replica!RowsMove, Replica!ReplicaNext
<1>3. CASE Saving(v) /\ UNCHANGED <<log, stored>>
  <2>1. Claim(v)' \in Nat /\ Claim(v)' <= Len(log) /\ \A i \in 1..Claim(v)' : i <= stored'[log[i]]
    BY <1>0, <1>i, StoredCovers
  <2>2. mark <= mark' /\ mark' <= Claim(v)'
    BY <1>0, <1>i, <1>t, ClaimMoves DEF Claim
  <2>3. mark' <= Len(log)
    BY <1>t, <2>1, <2>2
  <2>4. ASSUME NEW i \in 1..mark' PROVE stored[log[i]] >= i
    <3>1. i \in 1..Claim(v)' /\ log[i] \in Entity
      BY <1>t, <2>1, <2>2, <2>3
    <3>2. i <= stored[log[i]]
      BY <1>3, <2>1, <3>1
    <3> QED BY <1>t, <3>1, <3>2
  <2> QED BY <1>3, <2>2, <2>3, <2>4 DEF Replica!MarkMoves, Replica!Has, Replica!ReplicaNext
<1> QED BY <1>0, <1>i, <1>1, <1>2, <1>3, ReplicaFrame DEF Replica!ReplicaNext

\* The snapshot in IndexedDB is a replica of the server's log: a row is only replaced by a
\* newer version that the server has, and the watermark moves only forward and only over
\* changes that the snapshot has, whatever write, failure, reload or pruning comes between
\* two steps (cache-journal.service.ts:40, 288-297, catalog-cache.service.ts:252-420).
THEOREM SnapshotIsReplica ==
  ASSUME Calm
  PROVE  Spec => IsReplica
<1>1. Spec => []CatalogInv
  BY CatalogInvariant
<1>2. CatalogInv => Replica!ReplicaInit
  BY ReplicaStarts
<1>3. CatalogInv /\ [Next]_vars => [Replica!ReplicaNext]_(Replica!rvars)
  BY ReplicaStep
<1> QED BY <1>1, <1>2, <1>3, PTL DEF Spec, IsReplica, Replica!ReplicaSpec
=============================================================================
