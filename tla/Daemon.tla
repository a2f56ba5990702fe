------------------------------- MODULE Daemon -------------------------------
(***************************************************************************)
(* The daemon as a whole: the event loop (module Service) and the alert    *)
(* dispatcher (as module AlertChannel promises it; AlertDispatcher keeps   *)
(* the promise), from the first line of input to the destructor of the     *)
(* dispatcher in main.  The loop hands alerts in; the worker takes them    *)
(* out and posts them while the loop goes on; the end of the input closes  *)
(* the dispatcher, and main returns when it is gone.                       *)
(***************************************************************************)
EXTENDS Service

CONSTANTS
  Capacity,     (* alerts on the queue: kMaxQueueSize                      *)
  Quiet,        (* severities below cfg_.min_severity                      *)
  Outcomes      (* what may become of an alert the worker has taken        *)

ASSUME DaemonAssumption ==
  /\ Capacity \in Nat \ {0} /\ Quiet \subseteq {"info", "warning", "critical"}
  /\ Outcomes \subseteq {"rate_limited", "duplicate", "delivered", "failed", "unsent"}

VARIABLES fate, pending, phase

Ids == 0..(MaxLines - 1)

Channel == INSTANCE AlertChannel

channelVars == <<fate, pending, phase>>
daemonVars == <<vars, channelVars>>

DaemonInit == Init /\ Channel!Init

Up == pc # "crashed" /\ pc # "dead"

-----------------------------------------------------------------------------
\* dispatch, up to the lock.
Raise ==
  /\ pc = "alert"
  /\ Severity \notin Quiet
  /\ Channel!Offer(event.id) /\ fate'[event.id] = "offered"
  /\ UNCHANGED vars

\* dispatch, when the alert is not severe enough to go further.
Ignore ==
  /\ pc = "alert"
  /\ Severity \in Quiet
  /\ Channel!Offer(event.id) /\ fate'[event.id] = "filtered"
  /\ Alert

\* dispatch, from the lock on.
HandIn ==
  /\ pc = "alert"
  /\ Channel!Accept(event.id) \/ Channel!AcceptForOldest(event.id)
  /\ Alert

\* worker_loop takes the oldest alert, asks the gate and posts.
Take_Newest ==
  /\ Up /\ pending # <<>>
  /\ \A id \in Ids : fate[id] # "taken"
  /\ fate' = [fate EXCEPT ![Last(pending)] = "taken"]
  /\ pending' = Front(pending)
  /\ UNCHANGED <<vars, phase>>

Take == Up /\ Channel!Take /\ UNCHANGED vars

Settle ==
  /\ Up
  /\ \E id \in Ids : Channel!Settle(id) /\ fate'[id] \in Outcomes
  /\ UNCHANGED vars

\* run has returned: main destroys the dispatcher, whose worker drains the queue.
Close_NotTold == FALSE
Close == pc = "done" /\ Channel!Close /\ UNCHANGED vars
Finish_Undrained ==
  /\ phase = "closing"
  /\ phase' = "gone"
  /\ UNCHANGED <<vars, fate, pending>>

Finish == Up /\ Channel!Finish /\ UNCHANGED vars

LoopOnly == LoopStep /\ pc # "alert" /\ UNCHANGED channelVars
WriteMeanwhile == pc = "alert" /\ WriteEarly /\ UNCHANGED channelVars

\* A signal ends the daemon also while the destructor waits for the worker.
Killed == Crash /\ phase # "gone" /\ UNCHANGED channelVars

MainStep == LoopOnly \/ WriteMeanwhile \/ Raise \/ Ignore \/ HandIn \/ Close \/ Finish
WorkerStep == Take \/ Settle

Over == phase = "gone" \/ ~Up

DaemonNext ==
  \/ HostStep /\ UNCHANGED channelVars
  \/ MainStep \/ WorkerStep
  \/ Killed
  \/ Over /\ UNCHANGED daemonVars

DaemonSpec == DaemonInit /\ [][DaemonNext]_daemonVars

\* Main runs; the worker does as it likes, and may hang in a post for ever.
FairDaemon == DaemonSpec /\ WF_daemonVars(MainStep)

-----------------------------------------------------------------------------
(***************************************************************************)
(* Properties                                                              *)
(***************************************************************************)
Settled == {id \in Ids : fate[id] \in Channel!Verdicts}
Seen == {id \in Ids : fate[id] \in Channel!Verdicts \cup {"taken"}}

\* docs/OPERATIONS.md, line 102: "Use this to correlate audit log entries with
\* webhook alerts".  As long as the output works, an alert that the worker has taken has
\* its audit line in the output, or is of the last event read, whose line is about to be
\* written: only a crash leaves an alert without a line for good.
AlertsCorrelate ==
  ~bad => \A id \in Seen \ IdsOf(audit) :
            id = counter - 1 /\ (pc = "crashed" \/ id \in IdsOf(buffer))

\* Alerts go out in the order of their audit lines: none is overtaken, even by way
\* of the room that a full queue makes.
AlertsInAuditOrder ==
  \A i, j \in Ids : i < j /\ j \in Seen => fate[i] \notin {"offered", "queued"}

\* When main has returned, every denial in the audit trail has been alerted, kept
\* back by the gate or by its severity, or has given way to newer ones, which were
\* as many as the queue holds.
NothingForgotten ==
  phase = "gone" /\ ~bad /\ Alerting =>
    \A i \in DOMAIN audit : audit[i].denied =>
      \/ audit[i].id \in Settled
      \/ fate[audit[i].id] = "filtered" /\ audit[i].severity \in Quiet
      \/ /\ fate[audit[i].id] = "evicted"
         /\ Cardinality({id \in Ids : id > audit[i].id /\ fate[id] # "unborn"}) >= Capacity

\* The daemon exits once its input has ended, if posts return.  (That the loop gets
\* to the end of its input is InputHandled, and needs no such premise:
\* docs/OPERATIONS.md, line 108: "Alert dispatch never blocks the event loop".)
DaemonEnds == WF_daemonVars(WorkerStep) => (eof ~> Over)

=============================================================================
