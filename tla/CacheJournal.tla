---------------------------- MODULE CacheJournal ----------------------------
(***************************************************************************)
(* One stream of the cache journal: the ordered change log of a company on  *)
(* the server (emit_cache_change, sync_cache_stream, prune_cache_change_log) *)
(* and the reconciliation loop of apps/web/src/app/core/                    *)
(* cache-journal.service.ts that replays it in every open tab of a browser. *)
(* A consumer of the stream extends this module with what its handler's     *)
(* apply and reset do, and composes its steps with Receive, HandlerDone and *)
(* FailPass.                                                                *)
(*                                                                          *)
(* A row is abstracted to its version, the sequence number of the last      *)
(* change made to it; 0 is a row that is not there.  Changes addressed to   *)
(* another user, batches of changes under one sequence number and explicit  *)
(* 'reset' changes (written once, by migration 0043) are left out.  One     *)
(* account and one scope: a handler is not replaced while its tab is open.  *)
(*                                                                          *)
(* An operator marked "fault:" is a plausible mistake in the definition     *)
(* that follows it.  Nothing here uses it; PROJECT.json pairs it with the   *)
(* property that must notice it.                                            *)
(***************************************************************************)
EXTENDS Naturals, Sequences

CONSTANTS
  Tab,        \* tabs of one browser; they share IndexedDB
  Entity,     \* rows of the stream
  StartLog,   \* the log when the browser is first looked at: each row created once
  Warm,       \* whether the browser may then hold, or lack, a complete snapshot
  Retained,   \* changes the hourly pruning keeps (1280 in the code)
  Page,       \* changes of one answer (512 in the code)
  MaxHead,    \* bound on the log
  MaxFaults   \* bound on failed requests and lost connections

ASSUME JournalAssumption ==
  /\ StartLog \in Seq(Entity)
  /\ \A e \in Entity : \E i \in 1..Len(StartLog) :
       StartLog[i] = e /\ \A j \in 1..Len(StartLog) : StartLog[j] = e => j = i
  /\ Warm \subseteq BOOLEAN
  /\ Retained \in Nat /\ Page \in Nat \ {0}
  /\ MaxHead \in Nat /\ MaxFaults \in Nat

VARIABLES
  log,       \* cache_change_log: the entity changed at each sequence number
  rows,      \* the version of every row on the server
  floor,     \* cache_stream_heads.pruned_through_sequence
  online,    \* connectivity.online of the device
  faults,    \* failures so far
  mark,      \* the watermark in IndexedDB, 0 while there is none
  open,      \* the tabs whose handler is registered
  wake,      \* a realtime event, a SUBSCRIBED status or the effect asks to reconcile
  pending,   \* the pending set of the journal service
  timer,     \* a retry timer runs
  phase,     \* where the reconciliation of a tab stands
  after,     \* the sequence its next request asks for
  answer     \* the answer it is working on

server == <<log, rows, floor>>
device == <<online, faults>>
loop   == <<wake, pending, timer, phase, after, answer>>
jvars  == <<server, device, mark, open, loop>>

Phase == {"idle", "asking", "applying", "resetting", "saving"}
HeadSequence == Len(log)
NoAnswer == [reset |-> FALSE, changes |-> {}, to |-> 0, more |-> FALSE]

JournalTypeOK ==
  /\ log \in Seq(Entity)
  /\ rows \in [Entity -> Nat]
  /\ floor \in Nat
  /\ online \in BOOLEAN /\ faults \in Nat
  /\ mark \in Nat
  /\ open \in SUBSET Tab
  /\ wake \in [Tab -> BOOLEAN] /\ pending \in [Tab -> BOOLEAN] /\ timer \in [Tab -> BOOLEAN]
  /\ phase \in [Tab -> Phase]
  /\ after \in [Tab -> Nat]
  /\ answer \in [Tab -> [reset : BOOLEAN, changes : SUBSET Entity, to : Nat, more : BOOLEAN]]

JournalInit ==
  /\ log = StartLog
  /\ rows = [e \in Entity |-> CHOOSE i \in 1..Len(StartLog) : StartLog[i] = e]
  /\ floor = 0
  /\ online = TRUE /\ faults = 0
  /\ \E warm \in Warm : mark = IF warm THEN Len(StartLog) ELSE 0
  /\ open = {}
  /\ wake = [t \in Tab |-> FALSE]
  /\ pending = [t \in Tab |-> FALSE]
  /\ timer = [t \in Tab |-> FALSE]
  /\ phase = [t \in Tab |-> "idle"]
  /\ after = [t \in Tab |-> 0]
  /\ answer = [t \in Tab |-> NoAnswer]

(***************************************************************************)
(* The server.                                                              *)
(***************************************************************************)

\* A transaction changes row e and appends to the log under the stream's head,
\* whose row lock orders the numbers as the transactions commit.
Emit(e) ==
  /\ HeadSequence < MaxHead
  /\ log' = Append(log, e)
  /\ rows' = [rows EXCEPT ![e] = HeadSequence + 1]
  /\ wake' = [t \in Tab |-> wake[t] \/ (online /\ t \in open)]
  /\ UNCHANGED <<floor, device, mark, open, pending, timer, phase, after, answer>>

\* fault: a stream shorter than what is retained is pruned all the same
PruneAlways ==
  /\ floor # HeadSequence - Retained
  /\ floor' = HeadSequence - Retained
  /\ UNCHANGED <<log, rows, device, mark, open, loop>>

Prune ==
  /\ floor + Retained < HeadSequence
  /\ floor' = HeadSequence - Retained
  /\ UNCHANGED <<log, rows, device, mark, open, loop>>

\* sync_cache_stream(p_after_sequence = n)
More(n) == n + Page < HeadSequence

NextSequence(n) == IF More(n) THEN n + Page ELSE HeadSequence

ResetRequired(n) == n < floor \/ n > HeadSequence

\* fault: a page claims everything up to the head
SyncAnswerToHead(n, forced) ==
  IF forced \/ ResetRequired(n)
  THEN [reset |-> TRUE, changes |-> {}, to |-> HeadSequence, more |-> FALSE]
  ELSE [reset |-> FALSE,
        changes |-> {log[i] : i \in {k \in (n+1)..NextSequence(n) : k > floor}},
        to |-> HeadSequence, more |-> FALSE]

\* A page of changes, or a rebuild because of the answer or by force.
SyncAnswer(n, forced) ==
  IF forced \/ ResetRequired(n)
  THEN [reset |-> TRUE, changes |-> {}, to |-> HeadSequence, more |-> FALSE]
  ELSE [reset |-> FALSE,
        changes |-> {log[i] : i \in {k \in (n+1)..NextSequence(n) : k > floor}},
        to |-> NextSequence(n), more |-> More(n)]

(***************************************************************************)
(* The device.                                                              *)
(***************************************************************************)
GoOffline ==
  /\ online /\ faults < MaxFaults
  /\ online' = FALSE /\ faults' = faults + 1
  /\ wake' = [t \in Tab |-> FALSE]
  /\ UNCHANGED <<server, mark, open, pending, timer, phase, after, answer>>

\* The effect of every open tab reconciles, and its channel subscribes again.
GoOnline ==
  /\ ~online
  /\ online' = TRUE
  /\ wake' = [t \in Tab |-> t \in open]
  /\ UNCHANGED <<server, faults, mark, open, pending, timer, phase, after, answer>>

\* The tab gains focus or becomes visible again (resumeTick).
Resume(t) ==
  /\ t \in open /\ online /\ ~wake[t]
  /\ wake' = [wake EXCEPT ![t] = TRUE]
  /\ UNCHANGED <<server, device, mark, open, pending, timer, phase, after, answer>>

MayFail == ~online \/ faults < MaxFaults
CountFault == faults' = IF online THEN faults + 1 ELSE faults

(***************************************************************************)
(* The loop of one tab.                                                     *)
(***************************************************************************)
Register(t) ==
  /\ t \notin open
  /\ open' = open \union {t}
  /\ wake' = [wake EXCEPT ![t] = online]
  /\ UNCHANGED <<server, device, mark, pending, timer, phase, after, answer>>

\* The tab is closed or reloaded: its memory and what it was waiting for is gone.
Unload(t) ==
  /\ t \in open
  /\ open' = open \ {t}
  /\ wake' = [wake EXCEPT ![t] = FALSE]
  /\ pending' = [pending EXCEPT ![t] = FALSE]
  /\ timer' = [timer EXCEPT ![t] = FALSE]
  /\ phase' = [phase EXCEPT ![t] = "idle"]
  /\ after' = [after EXCEPT ![t] = 0]
  /\ answer' = [answer EXCEPT ![t] = NoAnswer]
  /\ UNCHANGED <<server, device, mark>>

\* fault: a wake-up during a pass is not remembered
ReconcileForgets(t) ==
  /\ timer' = [timer EXCEPT ![t] = FALSE]
  /\ IF phase[t] # "idle"
     THEN UNCHANGED <<pending, phase, after>>
     ELSE /\ pending' = [pending EXCEPT ![t] = FALSE]
          /\ phase' = [phase EXCEPT ![t] = "asking"]
          /\ after' = [after EXCEPT ![t] = mark]

\* reconcile: join the running pass, or begin one at the saved watermark
Reconcile(t) ==
  /\ timer' = [timer EXCEPT ![t] = FALSE]
  /\ IF phase[t] # "idle"
     THEN pending' = [pending EXCEPT ![t] = TRUE] /\ UNCHANGED <<phase, after>>
     ELSE /\ pending' = [pending EXCEPT ![t] = FALSE]
          /\ phase' = [phase EXCEPT ![t] = "asking"]
          /\ after' = [after EXCEPT ![t] = mark]

WakeUp(t) ==
  /\ wake[t] /\ online
  /\ wake' = [wake EXCEPT ![t] = FALSE]
  /\ Reconcile(t)
  /\ UNCHANGED <<server, device, mark, open, answer>>

RetryTimer(t) ==
  /\ timer[t]
  /\ \/ online /\ Reconcile(t)
     \/ ~online /\ timer' = [timer EXCEPT ![t] = FALSE] /\ UNCHANGED <<pending, phase, after>>
  /\ UNCHANGED <<server, device, mark, open, wake, answer>>

\* The answer of sync_cache_stream arrives and goes to the handler.
Receive(t, forced) ==
  /\ phase[t] = "asking" /\ online
  /\ answer' = [answer EXCEPT ![t] = SyncAnswer(after[t], forced)]
  /\ phase' = [phase EXCEPT ![t] = IF answer'[t].reset THEN "resetting"
                                   ELSE IF answer'[t].changes = {} THEN "saving" ELSE "applying"]
  /\ UNCHANGED <<server, device, mark, open, wake, pending, timer, after>>

\* The handler has made the answer's changes durable.
HandlerDone(t) ==
  /\ phase' = [phase EXCEPT ![t] = "saving"]
  /\ UNCHANGED <<server, device, mark, open, wake, pending, timer, after, answer>>

\* A pass ends with an error: catch schedules a retry, finally honours pending.
FailPass(t) ==
  /\ phase' = [phase EXCEPT ![t] = "idle"]
  /\ pending' = [pending EXCEPT ![t] = FALSE]
  /\ timer' = [timer EXCEPT ![t] = online /\ ~pending[t]]
  /\ wake' = [wake EXCEPT ![t] = wake[t] \/ (online /\ pending[t])]
  /\ UNCHANGED <<server, online, mark, open, after, answer>>

LoseAnswer(t) ==
  /\ phase[t] = "asking" /\ MayFail
  /\ CountFault
  /\ FailPass(t)

\* The watermark is written, then the next page or the next pass begins, or none.
SaveMark(t) ==
  /\ phase[t] = "saving"
  /\ mark' = answer[t].to
  /\ IF online /\ (answer[t].more \/ pending[t])
     THEN /\ phase' = [phase EXCEPT ![t] = "asking"]
          /\ after' = [after EXCEPT ![t] = answer[t].to]
          /\ pending' = [pending EXCEPT ![t] = answer[t].more /\ pending[t]]
     ELSE /\ phase' = [phase EXCEPT ![t] = "idle"]
          /\ pending' = [pending EXCEPT ![t] = FALSE]
          /\ UNCHANGED after
  /\ UNCHANGED <<server, device, open, wake, timer, answer>>
=============================================================================
