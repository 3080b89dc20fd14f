---------------------------- MODULE CatalogCache ----------------------------
(***************************************************************************)
(* The offline catalogue: apps/web/src/app/core/catalog-cache.service.ts as *)
(* the consumer of the "catalog" stream.  IndexedDB holds one snapshot that *)
(* the tabs of a browser share; every tab shows its own copy, first loaded  *)
(* from IndexedDB and then patched.  Full refreshes, journal patches and    *)
(* counted stock go through one queue per tab (mutationTail), whose first   *)
(* element is the one that runs.                                            *)
(*                                                                          *)
(* Left out: barcodes, families, categories and manufacturers, which are    *)
(* fetched and replaced along with the rows, the 10,000 row ceiling and the *)
(* one-time migration of the old snapshot format.                           *)
(***************************************************************************)
EXTENDS CacheJournal

CONSTANTS
  Changed,   \* rows that other users change
  Counted,   \* rows whose stock is counted on a tab
  Refreshes, \* whether screens ask for a refresh
  SlowDisk   \* whether reading the snapshot may outlast two server requests

ASSUME CatalogAssumption ==
  /\ Changed \subseteq Entity /\ Counted \subseteq Entity
  /\ Refreshes \in BOOLEAN /\ SlowDisk \in BOOLEAN
  /\ Entity \intersect {"apply", "fetch"} = {}

VARIABLES
  have,     \* whether IndexedDB has the snapshot
  stored,   \* its rows
  shown,    \* the rows a tab shows
  loaded,   \* the loaded signal of a tab
  load,     \* ensureLoaded of a tab: "closed", "reading", "read" or "done"
  copy,     \* what ensureLoaded read
  queue,    \* the mutations waiting in a tab: "apply", "fetch", or a counted entity
  draft,    \* the snapshot the running mutation builds
  got,      \* the rows of it that are read from the server
  durable,  \* whether IndexedDB has accepted it
  reply     \* counted stock the server has accepted and the tab has not heard of

disk   == <<have, stored>>
screen == <<shown, loaded, load, copy>>
work   == <<queue, draft, got, durable, reply>>
vars   == <<jvars, disk, screen, work>>

Nothing == [e \in Entity |-> 0]

Snapshot == [rows : [Entity -> Nat], found : BOOLEAN]
Task == {"apply", "fetch"} \union Entity

TypeOK ==
  /\ JournalTypeOK
  /\ have \in BOOLEAN /\ stored \in [Entity -> Nat]
  /\ shown \in [Tab -> [Entity -> Nat]] /\ loaded \in [Tab -> BOOLEAN]
  /\ load \in [Tab -> {"closed", "reading", "read", "done"}]
  /\ copy \in [Tab -> Snapshot]
  /\ queue \in [Tab -> Seq(Task)]
  /\ draft \in [Tab -> [Entity -> Nat]] /\ got \in [Tab -> SUBSET Entity]
  /\ durable \in [Tab -> BOOLEAN]
  /\ reply \in [Tab -> [Entity -> Nat]]

Init ==
  /\ JournalInit
  /\ have = (mark # 0)
  /\ stored = IF have THEN rows ELSE Nothing
  /\ shown = [t \in Tab |-> Nothing] /\ loaded = [t \in Tab |-> FALSE]
  /\ load = [t \in Tab |-> "closed"]
  /\ copy = [t \in Tab |-> [rows |-> Nothing, found |-> FALSE]]
  /\ queue = [t \in Tab |-> <<>>]
  /\ draft = [t \in Tab |-> Nothing] /\ got = [t \in Tab |-> {}]
  /\ durable = [t \in Tab |-> FALSE]
  /\ reply = [t \in Tab |-> Nothing]

(***************************************************************************)
(* The mutation queue.                                                      *)
(***************************************************************************)
Running(t, task) == queue[t] # <<>> /\ Head(queue[t]) = task

Waits(t, task) == \E k \in 1..Len(queue[t]) : queue[t][k] = task

\* refresh(): all callers share one request that is under way
Fetching(t) == IF Waits(t, "fetch") THEN queue[t] ELSE Append(queue[t], "fetch")

\* The running mutation ends and the next may start.
Finish(t) ==
  /\ queue' = [queue EXCEPT ![t] = Tail(queue[t])]
  /\ draft' = [draft EXCEPT ![t] = Nothing]
  /\ got' = [got EXCEPT ![t] = {}]
  /\ durable' = [durable EXCEPT ![t] = FALSE]

(***************************************************************************)
(* Opening a tab.                                                           *)
(***************************************************************************)
OpenTab(t) ==
  /\ Register(t)
  /\ load' = [load EXCEPT ![t] = "reading"]
  /\ UNCHANGED <<disk, shown, loaded, copy, work>>

CloseTab(t) ==
  /\ Unload(t)
  /\ shown' = [shown EXCEPT ![t] = Nothing] /\ loaded' = [loaded EXCEPT ![t] = FALSE]
  /\ load' = [load EXCEPT ![t] = "closed"]
  /\ copy' = [copy EXCEPT ![t] = [rows |-> Nothing, found |-> FALSE]]
  /\ queue' = [queue EXCEPT ![t] = <<>>]
  /\ draft' = [draft EXCEPT ![t] = Nothing] /\ got' = [got EXCEPT ![t] = {}]
  /\ durable' = [durable EXCEPT ![t] = FALSE]
  /\ reply' = [reply EXCEPT ![t] = Nothing]
  /\ UNCHANGED disk

\* readSnapshot: the rows as IndexedDB has them when its transaction runs
ReadSnapshot(t) ==
  /\ load[t] = "reading"
  /\ load' = [load EXCEPT ![t] = "read"]
  /\ copy' = [copy EXCEPT ![t] = [rows |-> stored, found |-> have]]
  /\ UNCHANGED <<jvars, disk, shown, loaded, work>>

\* fault: the copy is shown although newer rows already are
ShowSnapshotAlways(t) ==
  /\ load[t] = "read"
  /\ load' = [load EXCEPT ![t] = "done"]
  /\ copy' = [copy EXCEPT ![t] = [rows |-> Nothing, found |-> FALSE]]
  /\ IF copy[t].found
     THEN shown' = [shown EXCEPT ![t] = copy[t].rows] /\ loaded' = [loaded EXCEPT ![t] = TRUE]
     ELSE UNCHANGED <<shown, loaded>>
  /\ queue' = [queue EXCEPT ![t] = IF online /\ ~copy[t].found THEN Fetching(t) ELSE queue[t]]
  /\ UNCHANGED <<jvars, disk, draft, got, durable, reply>>

ShowSnapshot(t) ==
  /\ load[t] = "read"
  /\ load' = [load EXCEPT ![t] = "done"]
  /\ copy' = [copy EXCEPT ![t] = [rows |-> Nothing, found |-> FALSE]]
  /\ IF copy[t].found /\ ~loaded[t]
     THEN shown' = [shown EXCEPT ![t] = copy[t].rows] /\ loaded' = [loaded EXCEPT ![t] = TRUE]
     ELSE UNCHANGED <<shown, loaded>>
  /\ queue' = [queue EXCEPT ![t] = IF online /\ ~copy[t].found THEN Fetching(t) ELSE queue[t]]
  /\ UNCHANGED <<jvars, disk, draft, got, durable, reply>>

(***************************************************************************)
(* The journal's answers: a patch or a rebuild.                             *)
(***************************************************************************)
ReceiveAnswer(t) ==
  /\ Receive(t, FALSE)
  /\ queue' = [queue EXCEPT ![t] = CASE phase'[t] = "applying" -> Append(queue[t], "apply")
                                     [] phase'[t] = "resetting" -> Fetching(t)
                                     [] OTHER -> queue[t]]
  /\ UNCHANGED <<disk, screen, draft, got, durable, reply>>

LosePage(t) == LoseAnswer(t) /\ UNCHANGED <<disk, screen, work>>

\* applyJournalChanges reads the changed rows as they are now, and builds the new
\* snapshot on the rows shown now.
ReadChanged(t) ==
  /\ Running(t, "apply") /\ got[t] = {} /\ online
  /\ SlowDisk \/ load[t] = "done"
  /\ draft' = [draft EXCEPT ![t] = [e \in Entity |-> IF e \in answer[t].changes
                                                     THEN rows[e] ELSE shown[t][e]]]
  /\ got' = [got EXCEPT ![t] = Entity]
  /\ UNCHANGED <<jvars, disk, screen, queue, durable, reply>>

\* persistPatch writes the changed rows only
PersistPatch(t) ==
  /\ Running(t, "apply") /\ got[t] # {} /\ ~durable[t] /\ have
  /\ stored' = [e \in Entity |-> IF e \in answer[t].changes THEN draft[t][e] ELSE stored[e]]
  /\ durable' = [durable EXCEPT ![t] = TRUE]
  /\ UNCHANGED <<jvars, have, screen, queue, draft, got, reply>>

ShowPatch(t) ==
  /\ Running(t, "apply") /\ durable[t]
  /\ shown' = [shown EXCEPT ![t] = draft[t]]
  /\ loaded' = [loaded EXCEPT ![t] = TRUE]
  /\ Finish(t)
  /\ HandlerDone(t)
  /\ UNCHANGED <<disk, load, copy, reply>>

\* A request of the patch fails.
FailPatch(t) ==
  /\ Running(t, "apply") /\ got[t] = {} /\ MayFail
  /\ CountFault
  /\ Finish(t)
  /\ FailPass(t)
  /\ UNCHANGED <<disk, screen, reply>>

\* persistPatch raises 'catalog_cache_missing': there is no snapshot to patch.
NothingToPatch(t) ==
  /\ Running(t, "apply") /\ got[t] # {} /\ ~durable[t] /\ ~have
  /\ Finish(t)
  /\ FailPass(t)
  /\ UNCHANGED <<faults, disk, screen, reply>>

(***************************************************************************)
(* A full refresh, page by page.                                            *)
(***************************************************************************)
ScreenRefresh(t) ==
  /\ Refreshes /\ load[t] = "done"
  /\ queue' = [queue EXCEPT ![t] = Fetching(t)]
  /\ UNCHANGED <<jvars, disk, screen, draft, got, durable, reply>>

FetchRow(t, e) ==
  /\ Running(t, "fetch") /\ online /\ e \notin got[t]
  /\ draft' = [draft EXCEPT ![t][e] = rows[e]]
  /\ got' = [got EXCEPT ![t] = got[t] \union {e}]
  /\ UNCHANGED <<jvars, disk, screen, queue, durable, reply>>

\* replaceSnapshot, in one transaction
StoreFetched(t) ==
  /\ Running(t, "fetch") /\ got[t] = Entity /\ ~durable[t]
  /\ have' = TRUE
  /\ stored' = draft[t]
  /\ durable' = [durable EXCEPT ![t] = TRUE]
  /\ UNCHANGED <<jvars, screen, queue, draft, got, reply>>

\* The rows are shown; the journal's reset, if it waited for them, is done.
ShowFetched(t) ==
  /\ Running(t, "fetch") /\ durable[t]
  /\ shown' = [shown EXCEPT ![t] = draft[t]]
  /\ loaded' = [loaded EXCEPT ![t] = TRUE]
  /\ Finish(t)
  /\ IF phase[t] = "resetting" THEN HandlerDone(t) ELSE UNCHANGED jvars
  /\ UNCHANGED <<disk, load, copy, reply>>

FailFetch(t) ==
  /\ Running(t, "fetch") /\ ~durable[t] /\ MayFail
  /\ CountFault
  /\ Finish(t)
  /\ IF phase[t] = "resetting"
     THEN FailPass(t)
     ELSE UNCHANGED <<server, online, mark, open, loop>>
  /\ UNCHANGED <<disk, screen, reply>>

(***************************************************************************)
(* Counted stock: the quantity the server has accepted is shown at once.    *)
(***************************************************************************)
CountStock(t, e) ==
  /\ e \in Counted /\ online /\ load[t] = "done" /\ shown[t][e] # 0 /\ reply[t][e] = 0
  /\ Emit(e)
  /\ reply' = [reply EXCEPT ![t][e] = HeadSequence + 1]
  /\ UNCHANGED <<disk, screen, queue, draft, got, durable>>

ApplyConfirmedStock(t, e) ==
  /\ reply[t][e] # 0
  /\ shown' = [shown EXCEPT ![t][e] = reply[t][e]]
  /\ reply' = [reply EXCEPT ![t][e] = 0]
  /\ queue' = [queue EXCEPT ![t] = Append(queue[t], e)]
  /\ UNCHANGED <<jvars, disk, loaded, load, copy, draft, got, durable>>

\* persistCurrent writes the row as it is shown when its turn comes.
PersistCounted(t, e) ==
  /\ Running(t, e)
  /\ stored' = [stored EXCEPT ![e] = shown[t][e]]
  /\ Finish(t)
  /\ UNCHANGED <<jvars, have, screen, reply>>

-----------------------------------------------------------------------------
Change(e) == e \in Changed /\ Emit(e) /\ UNCHANGED <<disk, screen, work>>

Environment ==
  \/ \E e \in Entity : Change(e)
  \/ (Prune \/ GoOffline \/ GoOnline) /\ UNCHANGED <<disk, screen, work>>
  \/ \E t \in Tab : \/ OpenTab(t) \/ CloseTab(t)
                    \/ Resume(t) /\ UNCHANGED <<disk, screen, work>>
                    \/ LosePage(t) \/ FailPatch(t) \/ FailFetch(t)
                    \/ ScreenRefresh(t)
                    \/ \E e \in Entity : CountStock(t, e)

Loading(t) == ReadSnapshot(t) \/ ShowSnapshot(t)

Waking(t) == (WakeUp(t) \/ RetryTimer(t)) /\ UNCHANGED <<disk, screen, work>>

Saving(t) == SaveMark(t) /\ UNCHANGED <<disk, screen, work>>

Patching(t) == ReceiveAnswer(t) \/ ReadChanged(t) \/ PersistPatch(t) \/ ShowPatch(t)
               \/ NothingToPatch(t)

Refreshing(t) == StoreFetched(t) \/ ShowFetched(t) \/ \E e \in Entity : FetchRow(t, e)

Counting(t) == \E e \in Entity : ApplyConfirmedStock(t, e) \/ PersistCounted(t, e)

Next == \/ Environment
        \/ \E t \in Tab : Loading(t) \/ Waking(t) \/ Saving(t) \/ Patching(t)
                          \/ Refreshing(t) \/ Counting(t)

Spec == Init /\ [][Next]_vars

\* A tab's timers fire, its promises are resolved and its requests answered.
FairSpec == /\ Spec
            /\ \A t \in Tab : /\ WF_vars(Loading(t)) /\ WF_vars(Waking(t)) /\ WF_vars(Saving(t))
                              /\ WF_vars(Patching(t)) /\ WF_vars(Refreshing(t))
                              /\ WF_vars(Counting(t))

(***************************************************************************)
(* Properties.                                                              *)
(***************************************************************************)

\* The rows a tab shows never lack a change that the next answer will skip.
ShownCoversMark ==
  \A t \in Tab : loaded[t] => \A i \in 1..mark : shown[t][log[i]] >= i

\* When the connection stays and the tabs stay open, every tab comes to show what
\* the server has, missed events included (cache-journal.service.ts:49-50).
Converges ==
  (<>[](online /\ open = Tab)) => <>[](\A t \in Tab : loaded[t] /\ shown[t] = rows)

\* Claim: "Reads emit the complete cached snapshot immediately; durable journal
\* reconciliation patches it in place" (catalog-cache.service.ts:41-42).
SnapshotIsComplete ==
  \A t \in Tab : loaded[t] /\ have => \A e \in Entity : stored[e] # 0 => shown[t][e] # 0

\* The snapshot is a replica of the stream as StreamReplica describes it: the saved
\* watermark never claims a change that it lacks, so that what the browser skips in the
\* next answer is on the disk, whatever write, failure or reload came in between
\* (cache-journal.service.ts:40, 288-297).
Replica == INSTANCE StreamReplica WITH rowsOf <- stored
IsReplica == Replica!ReplicaSpec
=============================================================================
