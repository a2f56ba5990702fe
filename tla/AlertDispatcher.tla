--------------------------- MODULE AlertDispatcher ---------------------------
(***************************************************************************)
(* The alert dispatcher: src/alert_dispatcher.cpp, class AlertDispatcher.  *)
(* Threads that raise alerts call dispatch(); one worker thread takes them *)
(* off a bounded queue, asks the send gate (module AlertGate) and posts    *)
(* them to the webhook; the thread that owns the dispatcher destroys it.   *)
(* They share queue_ and stop_ under the mutex mu_, with the condition     *)
(* variable cv_ on which only the worker waits.                            *)
(*                                                                         *)
(* One step is what a thread does between two points where another thread  *)
(* can tell: taking or releasing mu_, writing queue_ or stop_, notifying.  *)
(* The post itself is one step with any outcome; module WebhookPost opens  *)
(* it up.                                                                  *)
(***************************************************************************)
EXTENDS AlertGate

CONSTANTS
  Callers,      (* threads that call dispatch                              *)
  Exes,         (* evt.exe                                                 *)
  Severities,   (* evt.severity                                            *)
  MinSeverity,  (* cfg_.min_severity                                       *)
  Configured,   (* cfg_.webhook_url is not empty                           *)
  Capacity,     (* kMaxQueueSize                                           *)
  MaxAlerts,    (* bound: alerts raised in all                             *)
  NoThread      (* the owner of a free mutex                               *)

ASSUME DispatcherAssumption ==
  /\ Keys = Exes \X Severities
  /\ Configured \in BOOLEAN
  /\ Capacity \in Nat \ {0}
  /\ MaxAlerts \in Nat
  /\ Callers \cap {"worker", "owner", NoThread} = {}
  /\ NoThread \notin {"worker", "owner"}

VARIABLES
  mutex,     (* the thread that holds mu_, or NoThread                     *)
  queue,     (* queue_                                                     *)
  stop,      (* stop_                                                      *)
  caller,    (* where each caller is in dispatch                           *)
  raised,    (* the event each caller is dispatching                       *)
  worker,    (* where the worker is in worker_loop                         *)
  evt,       (* the worker's evt                                           *)
  owner,     (* where the owner is in the destructor                       *)
  nextId,    (* history: number given to the next alert                    *)
  fate,      (* history: what has become of each alert                     *)
  accepted   (* history: the alerts pushed on queue_, in order             *)

threadVars == <<mutex, queue, stop, caller, raised, worker, evt, owner>>
historyVars == <<nextId, fate, accepted>>
vars == <<threadVars, historyVars, gateVars>>

SeverityLevel(s) == CASE s = "warning" -> 1 [] s = "critical" -> 2 [] OTHER -> 0

\* What may be on queue_: alerts with a severity at the threshold or above it.
Ids == 1..MaxAlerts
SevereKeys == {key \in Keys : SeverityLevel(key[2]) >= SeverityLevel(MinSeverity)}
Alert == [id : Ids, key : SevereKeys]
NoAlert == [id |-> 0, key |-> <<>>]
Threads == Callers \cup {"worker", "owner"}

Released(thread) == mutex = thread /\ mutex' = NoThread
Acquired(thread) == mutex = NoThread /\ mutex' = thread

\* cv_.notify_one(): the worker is the only thread that ever waits.
Notified_Forgotten == worker
Notified == IF worker = "waiting" THEN "lock" ELSE worker

-----------------------------------------------------------------------------
(***************************************************************************)
(* dispatch, by a caller                                                   *)
(***************************************************************************)
\* A dispatcher is not called once its destruction has begun.
Dispatch(c, key) ==
  /\ caller[c] = "idle"
  /\ owner = "alive"
  /\ nextId <= MaxAlerts
  /\ nextId' = nextId + 1
  /\ IF SeverityLevel(key[2]) < SeverityLevel(MinSeverity)
     THEN /\ fate' = [fate EXCEPT ![nextId] = "filtered"]
          /\ UNCHANGED <<caller, raised>>
     ELSE /\ fate' = [fate EXCEPT ![nextId] = "offered"]
          /\ caller' = [caller EXCEPT ![c] = "lock"]
          /\ raised' = [raised EXCEPT ![c] = [id |-> nextId, key |-> key]]
  /\ UNCHANGED <<mutex, queue, stop, worker, evt, owner, accepted, gateVars>>

CallerLock(c) ==
  /\ caller[c] = "lock"
  /\ Acquired(c)
  /\ caller' = [caller EXCEPT ![c] = "push"]
  /\ UNCHANGED <<queue, stop, raised, worker, evt, owner, historyVars, gateVars>>

Full_OneEarly == Len(queue) >= Capacity - 1
Full_OneLate == Len(queue) > Capacity
Full == Len(queue) >= Capacity

\* The oldest entry makes room for the newest.
Push(c) ==
  /\ caller[c] = "push"
  /\ queue' = Append(IF Full THEN Tail(queue) ELSE queue, raised[c])
  /\ fate' = IF Full
             THEN [fate EXCEPT ![Head(queue).id] = "evicted", ![raised[c].id] = "queued"]
             ELSE [fate EXCEPT ![raised[c].id] = "queued"]
  /\ accepted' = Append(accepted, raised[c])
  /\ caller' = [caller EXCEPT ![c] = "notify"]
  /\ UNCHANGED <<mutex, stop, raised, worker, evt, owner, nextId, gateVars>>

CallerNotify(c) ==
  /\ caller[c] = "notify"
  /\ worker' = Notified
  /\ caller' = [caller EXCEPT ![c] = "unlock"]
  /\ UNCHANGED <<mutex, queue, stop, raised, evt, owner, historyVars, gateVars>>

CallerReturn(c) ==
  /\ caller[c] = "unlock"
  /\ Released(c)
  /\ caller' = [caller EXCEPT ![c] = "idle"]
  /\ raised' = [raised EXCEPT ![c] = NoAlert]
  /\ UNCHANGED <<queue, stop, worker, evt, owner, historyVars, gateVars>>

CallerStep(c) ==
  CallerLock(c) \/ Push(c) \/ CallerNotify(c) \/ CallerReturn(c)

-----------------------------------------------------------------------------
(***************************************************************************)
(* worker_loop, by the worker                                              *)
(***************************************************************************)
\* The lock of a new iteration, and cv_.wait taking it back.
WorkerLock ==
  /\ worker = "lock"
  /\ Acquired("worker")
  /\ worker' = "check"
  /\ UNCHANGED <<queue, stop, caller, raised, evt, owner, historyVars, gateVars>>

\* The predicate of cv_.wait.
Awaited_NotStop == queue # <<>>
Awaited == stop \/ queue # <<>>

WorkerCheck ==
  /\ worker = "check"
  /\ worker' = IF Awaited THEN "next" ELSE "block"
  /\ UNCHANGED <<mutex, queue, stop, caller, raised, evt, owner, historyVars, gateVars>>

\* cv_.wait releases the lock and waits, in one step.
WorkerBlock ==
  /\ worker = "block"
  /\ Released("worker")
  /\ worker' = "waiting"
  /\ UNCHANGED <<queue, stop, caller, raised, evt, owner, historyVars, gateVars>>

\* A condition variable may wake up for no reason.
SpuriousWakeup ==
  /\ worker = "waiting"
  /\ worker' = "lock"
  /\ UNCHANGED <<mutex, queue, stop, caller, raised, evt, owner, historyVars, gateVars>>

WorkerExit_Undrained ==
  /\ worker = "next"
  /\ stop
  /\ Released("worker")
  /\ worker' = "exited"
  /\ UNCHANGED <<queue, stop, caller, raised, evt, owner, historyVars, gateVars>>

WorkerExit ==
  /\ worker = "next"
  /\ stop /\ queue = <<>>
  /\ Released("worker")
  /\ worker' = "exited"
  /\ UNCHANGED <<queue, stop, caller, raised, evt, owner, historyVars, gateVars>>

WorkerPop_KeepsLock ==
  /\ worker = "next"
  /\ queue # <<>>
  /\ evt' = Head(queue)
  /\ queue' = Tail(queue)
  /\ fate' = [fate EXCEPT ![Head(queue).id] = "taken"]
  /\ worker' = "gate"
  /\ UNCHANGED <<mutex, stop, caller, raised, owner, nextId, accepted, gateVars>>

WorkerPop ==
  /\ worker = "next"
  /\ queue # <<>>
  /\ evt' = Head(queue)
  /\ queue' = Tail(queue)
  /\ fate' = [fate EXCEPT ![Head(queue).id] = "taken"]
  /\ Released("worker")
  /\ worker' = "gate"
  /\ UNCHANGED <<stop, caller, raised, owner, nextId, accepted, gateVars>>

\* The worker is done with evt, and goes for the next one.
Settled(verdict) ==
  /\ fate' = [fate EXCEPT ![evt.id] = verdict]
  /\ evt' = NoAlert
  /\ worker' = "lock"

\* should_send, on state only the worker touches.
WorkerGate ==
  /\ worker = "gate"
  /\ \/ RateLimited(evt.key) /\ Settled("rate_limited")
     \/ Suppressed(evt.key) /\ Settled("duplicate")
     \/ LetThrough(evt.key) /\ worker' = "post" /\ UNCHANGED <<fate, evt>>
  /\ UNCHANGED <<mutex, queue, stop, caller, raised, owner, nextId, accepted>>

\* send_webhook.
PostOutcomes == IF Configured THEN {"delivered", "failed"} ELSE {"unsent"}

WorkerPost ==
  /\ worker = "post"
  /\ \E verdict \in PostOutcomes : Settled(verdict)
  /\ UNCHANGED <<mutex, queue, stop, caller, raised, owner, nextId, accepted, gateVars>>

WorkerStep ==
  WorkerLock \/ WorkerCheck \/ WorkerBlock \/ WorkerExit \/ WorkerPop \/ WorkerGate

-----------------------------------------------------------------------------
(***************************************************************************)
(* ~AlertDispatcher, by the owner                                          *)
(***************************************************************************)
Destroy ==
  /\ owner = "alive"
  /\ \A c \in Callers : caller[c] = "idle"
  /\ owner' = "lock"
  /\ UNCHANGED <<mutex, queue, stop, caller, raised, worker, evt, historyVars, gateVars>>

OwnerLock_Omitted ==
  /\ owner = "lock"
  /\ stop' = TRUE
  /\ owner' = "notify"
  /\ UNCHANGED <<mutex, queue, caller, raised, worker, evt, historyVars, gateVars>>

OwnerLock ==
  /\ owner = "lock"
  /\ Acquired("owner")
  /\ owner' = "stop"
  /\ UNCHANGED <<queue, stop, caller, raised, worker, evt, historyVars, gateVars>>

OwnerStop ==
  /\ owner = "stop"
  /\ stop' = TRUE
  /\ Released("owner")
  /\ owner' = "notify"
  /\ UNCHANGED <<queue, caller, raised, worker, evt, historyVars, gateVars>>

OwnerNotify ==
  /\ owner = "notify"
  /\ worker' = Notified
  /\ owner' = "join"
  /\ UNCHANGED <<mutex, queue, stop, caller, raised, evt, historyVars, gateVars>>

OwnerJoin_NoWait ==
  /\ owner = "join"
  /\ owner' = "gone"
  /\ UNCHANGED <<mutex, queue, stop, caller, raised, worker, evt, historyVars, gateVars>>

OwnerJoin ==
  /\ owner = "join"
  /\ worker = "exited"
  /\ owner' = "gone"
  /\ UNCHANGED <<mutex, queue, stop, caller, raised, worker, evt, historyVars, gateVars>>

OwnerStep == OwnerLock \/ OwnerStop \/ OwnerNotify \/ OwnerJoin

-----------------------------------------------------------------------------
\* The worker thread starts in the constructor, after everything it reads has
\* been initialised.
Init ==
  /\ mutex = NoThread
  /\ queue = <<>>
  /\ stop = FALSE
  /\ caller = [c \in Callers |-> "idle"]
  /\ raised = [c \in Callers |-> NoAlert]
  /\ worker = "lock"
  /\ evt = NoAlert
  /\ owner = "alive"
  /\ nextId = 1
  /\ fate = [id \in Ids |-> "unborn"]
  /\ accepted = <<>>
  /\ GateInit

TimePasses ==
  /\ Tick \/ \E d \in WallSteps : StepWall(d)
  /\ UNCHANGED <<threadVars, historyVars>>

Next ==
  \/ \E c \in Callers, key \in Keys : Dispatch(c, key)
  \/ \E c \in Callers : CallerStep(c)
  \/ WorkerStep \/ WorkerPost \/ SpuriousWakeup
  \/ Destroy \/ OwnerStep
  \/ TimePasses
  \/ owner = "gone" /\ UNCHANGED vars

Spec == Init /\ [][Next]_vars

\* Every thread is scheduled, and one that finds the mutex free again and
\* again gets it.  Nothing is assumed of the webhook: a post may never return.
Fairness ==
  /\ \A c \in Callers : SF_vars(CallerLock(c)) /\ WF_vars(CallerStep(c))
  /\ SF_vars(WorkerLock) /\ WF_vars(WorkerStep)
  /\ SF_vars(OwnerLock) /\ WF_vars(OwnerStep)

FairSpec == Spec /\ Fairness

-----------------------------------------------------------------------------
(***************************************************************************)
(* Properties                                                              *)
(***************************************************************************)
Fates == {"unborn", "filtered", "offered", "queued", "evicted", "taken",
          "rate_limited", "duplicate", "delivered", "failed", "unsent"}

\* queue_ never outgrows kMaxQueueSize; no alert below the threshold is on it, or
\* with a caller that is to push it, or with the worker.
DispatcherTypeOK ==
  /\ mutex \in Threads \cup {NoThread}
  /\ queue \in Seq(Alert) /\ Len(queue) <= Capacity
  /\ stop \in BOOLEAN
  /\ caller \in [Callers -> {"idle", "lock", "push", "notify", "unlock"}]
  /\ raised \in [Callers -> Alert \cup {NoAlert}]
  /\ worker \in {"lock", "check", "block", "waiting", "next", "gate", "post", "exited"}
  /\ evt \in Alert \cup {NoAlert}
  /\ owner \in {"alive", "lock", "stop", "notify", "join", "gone"}
  /\ nextId \in 1..(MaxAlerts + 1)
  /\ fate \in [Ids -> Fates]
  /\ accepted \in Seq(Alert)

\* mu_ is held exactly where the code locks it: by a caller from before its push to
\* its return, by the worker while it looks at the queue but not while it sleeps,
\* judges an alert or posts one, by the destructor while it sets stop_.
MutexOwnership ==
  /\ \A c \in Callers : mutex = c <=> caller[c] \in {"push", "notify", "unlock"}
  /\ mutex = "worker" <=> worker \in {"check", "block", "next"}
  /\ mutex = "owner" <=> owner = "stop"

\* queue_ and stop_ are written only by the thread that holds mu_, in a step of its
\* own: by a caller or the worker the one, by the owner the other.
GuardedByMutex ==
  [][/\ stop' # stop => mutex = "owner" /\ owner' # owner
     /\ queue' # queue =>
          \/ mutex = "worker" /\ worker' # worker
          \/ \E c \in Callers : mutex = c /\ caller'[c] # caller[c]]_vars

\* The worker is never left asleep beside work: when there is something to
\* wake up for, whoever put it there has yet to notify.
NoLostWakeup ==
  worker = "waiting" /\ Awaited =>
    (\E c \in Callers : caller[c] = "notify") \/ owner = "notify"

\* An alert is given up for the queue's sake only for Capacity newer ones.
NewestSurvive ==
  \A i \in DOMAIN accepted :
    fate[accepted[i].id] = "evicted" => i + Capacity <= Len(accepted)

\* An alert is held back as a repeat only of one accepted before it, of the
\* same exe and severity, that the gate did let through.
DuplicateOfSent ==
  \A i \in DOMAIN accepted :
    fate[accepted[i].id] = "duplicate" =>
      \E j \in 1..(i - 1) :
        /\ accepted[j].key = accepted[i].key
        /\ fate[accepted[j].id] \in {"delivered", "failed", "unsent"}

\* The destructor returns with no thread left inside the dispatcher and every
\* alert ever raised dealt with.
SettledWhenGone ==
  owner = "gone" =>
    /\ worker = "exited"
    /\ mutex = NoThread
    /\ \A c \in Callers : caller[c] = "idle"
    /\ \A id \in Ids : fate[id] \notin {"offered", "queued", "taken"}

\* The threads, the mutex and the condition variable implement the channel.
IdsOf(alerts) == [i \in DOMAIN alerts |-> alerts[i].id]

Phase ==
  IF owner = "alive" THEN "open" ELSE IF owner = "gone" THEN "gone" ELSE "closing"

Channel == INSTANCE AlertChannel WITH pending <- IdsOf(queue), phase <- Phase

ImplementsChannel == Channel!Spec

\* include/sysguardd/alert_dispatcher.hpp, line 41: "Returns immediately; never
\* blocks the caller".  A call returns even while a post hangs for ever.
CallersReturn ==
  \A c \in Callers : caller[c] # "idle" ~> caller[c] = "idle"

PostsReturn == []<>(worker # "post")

\* If posts return, no accepted alert is left on the queue or with the worker.
AcceptedSettle ==
  PostsReturn =>
    \A id \in Ids : fate[id] = "queued" ~> fate[id] \notin {"queued", "taken"}

\* If posts return, so does the destructor: the worker sees stop_ and exits.
ShutdownCompletes == PostsReturn => (owner # "alive" ~> owner = "gone")

=============================================================================
