------------------------ MODULE AlertDispatcherProofs ------------------------
(***************************************************************************)
(* Proofs about the alert dispatcher, for every set of callers, queue      *)
(* capacity, number of alerts and configuration of the send gate: types,   *)
(* the mutex and the condition variable, the channel it implements, and    *)
(* the order in which it evicts and drops alerts.                          *)
(***************************************************************************)
EXTENDS AlertDispatcher, AlertGateProofs, SequenceTheorems

-----------------------------------------------------------------------------
(***************************************************************************)
(* Types                                                                   *)
(***************************************************************************)

\* A caller inside dispatch carries an alert, and so does the worker between
\* taking one off the queue and settling it.
EventsCarried ==
  /\ \A c \in Callers : caller[c] # "idle" => raised[c] \in Alert
  /\ worker \in {"gate", "post"} => evt \in Alert

TypedInv == DispatcherTypeOK /\ EventsCarried

\* The worker lets the gate judge an event with a real key only, so every step
\* of the dispatcher is a step of the gate or leaves the gate alone.
LEMMA StepsOfGate ==
  ASSUME TypedInv, [Next]_vars
  PROVE  [GateNext]_gateVars
  <1>1. CASE WorkerGate
    <2>1. evt.key \in Keys
      BY <1>1 DEF TypedInv, EventsCarried, WorkerGate, Alert, SevereKeys
    <2> QED
      BY <1>1, <2>1 DEF WorkerGate, GateNext, ShouldSend
  <1>2. CASE TimePasses
    BY <1>2 DEF TimePasses, GateNext
  <1>3. CASE UNCHANGED gateVars
    BY <1>3
  <1>4. CASE \E c \in Callers, key \in Keys : Dispatch(c, key)
    BY <1>4 DEF Dispatch
  <1>5. CASE \E c \in Callers : CallerStep(c)
    BY <1>5 DEF CallerStep, CallerLock, Push, CallerNotify, CallerReturn
  <1>6. CASE WorkerLock \/ WorkerCheck \/ WorkerBlock \/ WorkerExit \/ WorkerPop
             \/ WorkerPost \/ SpuriousWakeup
    BY <1>6 DEF WorkerLock, WorkerCheck, WorkerBlock, WorkerExit, WorkerPop,
                WorkerPost, SpuriousWakeup
  <1>7. CASE Destroy \/ OwnerStep
    BY <1>7 DEF Destroy, OwnerStep, OwnerLock, OwnerStop, OwnerNotify, OwnerJoin
  <1>8. CASE UNCHANGED vars
    BY <1>8 DEF vars
  <1> QED
    BY <1>1, <1>2, <1>4, <1>5, <1>6, <1>7, <1>8 DEF Next, WorkerStep

\* A caller's steps keep the types; pushing keeps queue_ within its capacity.
LEMMA CallerTyped ==
  ASSUME TypedInv, NEW c \in Callers,
         CallerStep(c) \/ \E key \in Keys : Dispatch(c, key)
  PROVE  TypedInv'
  <1> USE DEF TypedInv, EventsCarried
  <1>1. /\ MaxAlerts \in Nat
        /\ Capacity \in Nat \ {0}
        /\ c \in Threads
    BY DispatcherAssumption DEF DispatcherAssumption, Threads
  <1>2. ASSUME NEW key \in Keys, Dispatch(c, key) PROVE TypedInv'
    <2>1. nextId \in Ids /\ nextId' \in 1..(MaxAlerts + 1)
      BY <1>1, <1>2 DEF Dispatch, DispatcherTypeOK, Ids
    <2>2. caller' # caller => [id |-> nextId, key |-> key] \in Alert
      BY <1>2, <2>1 DEF Dispatch, Alert, SevereKeys, SeverityLevel
    <2>3. /\ fate' \in [Ids -> Fates]
          /\ caller' \in [Callers -> {"idle", "lock", "push", "notify", "unlock"}]
          /\ raised' \in [Callers -> Alert \cup {NoAlert}]
          /\ \A d \in Callers : caller'[d] # "idle" => raised'[d] \in Alert
      <3>1. fate' \in [Ids -> Fates]
        BY <1>2, <2>1 DEF Dispatch, DispatcherTypeOK, Fates
      <3> QED
        BY <1>2, <2>1, <2>2, <3>1 DEF Dispatch, DispatcherTypeOK
    <2> QED
      BY <1>2, <2>1, <2>3 DEF Dispatch, DispatcherTypeOK
  <1>3. CASE CallerLock(c)
    BY <1>1, <1>3 DEF CallerLock, Acquired, DispatcherTypeOK, historyVars, Threads
  <1>4. CASE Push(c)
    <2>1. raised[c] \in Alert /\ queue \in Seq(Alert) /\ Len(queue) \in 0..Capacity
      BY <1>1, <1>4 DEF Push, DispatcherTypeOK
    <2>2. queue' \in Seq(Alert) /\ Len(queue') <= Capacity
      <3>1. CASE Full
        <4>1. queue # <<>> /\ Len(queue) = Capacity
          BY <1>1, <2>1, <3>1 DEF Full
        <4>2. Tail(queue) \in Seq(Alert) /\ Len(Tail(queue)) = Capacity - 1
          BY <1>1, <2>1, <4>1
        <4>3. queue' = Append(Tail(queue), raised[c])
          BY <1>4, <3>1 DEF Push
        <4> QED
          BY <1>1, <2>1, <4>2, <4>3
      <3>2. CASE ~Full
        <4>1. queue' = Append(queue, raised[c])
          BY <1>4, <3>2 DEF Push
        <4> QED
          BY <1>1, <2>1, <3>2, <4>1 DEF Full
      <3> QED
        BY <3>1, <3>2
    <2>3. fate' \in [Ids -> Fates]
      BY <1>4 DEF Push, DispatcherTypeOK, Fates
    <2>4. accepted' \in Seq(Alert)
      BY <1>4, <2>1 DEF Push, DispatcherTypeOK
    <2>5. /\ caller' \in [Callers -> {"idle", "lock", "push", "notify", "unlock"}]
          /\ \A d \in Callers : caller'[d] # "idle" => raised'[d] \in Alert
      BY <1>4 DEF Push, DispatcherTypeOK
    <2> QED
      BY <1>4, <2>2, <2>3, <2>4, <2>5 DEF Push, DispatcherTypeOK
  <1>5. CASE CallerNotify(c)
    BY <1>5 DEF CallerNotify, Notified, DispatcherTypeOK, historyVars
  <1>6. CASE CallerReturn(c)
    BY <1>6 DEF CallerReturn, Released, DispatcherTypeOK, historyVars
  <1> QED
    BY <1>2, <1>3, <1>4, <1>5, <1>6 DEF CallerStep

\* The worker's steps keep the types.
LEMMA WorkerTyped ==
  ASSUME TypedInv, WorkerStep \/ WorkerPost \/ SpuriousWakeup
  PROVE  TypedInv'
  <1> USE DEF TypedInv, EventsCarried
  <1>1. CASE WorkerLock \/ WorkerCheck \/ WorkerBlock \/ WorkerExit \/ SpuriousWakeup
    BY <1>1 DEF WorkerLock, WorkerCheck, WorkerBlock, WorkerExit, SpuriousWakeup,
                Acquired, Released, DispatcherTypeOK, historyVars, Threads
  <1>2. CASE WorkerPop
    <2>1. queue \in Seq(Alert) /\ queue # <<>> /\ Len(queue) <= Capacity
      BY <1>2 DEF WorkerPop, DispatcherTypeOK
    <2>2. /\ Head(queue) \in Alert
          /\ Tail(queue) \in Seq(Alert)
          /\ Len(Tail(queue)) <= Capacity
      BY <2>1, DispatcherAssumption DEF DispatcherAssumption
    <2>3. fate' \in [Ids -> Fates]
      BY <1>2 DEF WorkerPop, DispatcherTypeOK, Fates
    <2> QED
      BY <1>2, <2>2, <2>3 DEF WorkerPop, Released, DispatcherTypeOK
  <1>3. CASE WorkerGate
    BY <1>3 DEF WorkerGate, Settled, DispatcherTypeOK, Fates, historyVars
  <1>4. CASE WorkerPost
    BY <1>4 DEF WorkerPost, Settled, PostOutcomes, DispatcherTypeOK, Fates
  <1> QED
    BY <1>1, <1>2, <1>3, <1>4 DEF WorkerStep

\* The dispatcher's state stays typed and its queue within kMaxQueueSize.
THEOREM TypedInvariant == Spec => []TypedInv
  <1>1. Init => TypedInv
    <2> SUFFICES ASSUME Init PROVE TypedInv
      OBVIOUS
    <2>1. queue \in Seq(Alert) /\ Len(queue) <= Capacity /\ accepted \in Seq(Alert)
      BY DispatcherAssumption DEF Init, DispatcherAssumption
    <2>2. nextId \in 1..(MaxAlerts + 1) /\ fate \in [Ids -> Fates]
      BY DispatcherAssumption DEF Init, DispatcherAssumption, Fates
    <2>3. EventsCarried
      BY DEF Init, EventsCarried
    <2> QED
      BY <2>1, <2>2, <2>3 DEF Init, TypedInv, DispatcherTypeOK
  <1>2. TypedInv /\ [Next]_vars => TypedInv'
    <2> SUFFICES ASSUME TypedInv, [Next]_vars PROVE TypedInv'
      OBVIOUS
    <2>1. CASE Destroy \/ OwnerStep
      BY <2>1 DEF TypedInv, EventsCarried, Destroy, OwnerStep, OwnerLock, OwnerStop,
                  OwnerNotify, OwnerJoin, Acquired, Released, Notified,
                  DispatcherTypeOK, historyVars, Threads
    <2>2. CASE UNCHANGED <<threadVars, historyVars>>
      BY <2>2 DEF TypedInv, EventsCarried, DispatcherTypeOK, threadVars, historyVars
    <2> QED
      BY <2>1, <2>2, CallerTyped, WorkerTyped DEF Next, TimePasses, vars
  <1> QED
    BY <1>1, <1>2, PTL DEF Spec

\* The dispatcher's state stays typed, the queue within kMaxQueueSize.
THEOREM DispatcherTyped == Spec => []DispatcherTypeOK
  <1>1. TypedInv => DispatcherTypeOK
    BY DEF TypedInv
  <1> QED
    BY <1>1, TypedInvariant, PTL

\* Whatever the threads do, the gate inside the dispatcher behaves as the gate
\* on its own: all that is proved of the gate holds of the dispatcher.
THEOREM DispatcherHasGate == Spec => GateSpec
  <1>1. Init => GateInit
    BY DEF Init
  <1>2. TypedInv /\ [Next]_vars => [GateNext]_gateVars
    BY StepsOfGate
  <1> QED
    BY <1>1, <1>2, TypedInvariant, PTL DEF Spec, GateSpec

\* The worker never posts more than twice the limit in any minute, and never
\* two alerts of the same key less than the window apart by the wall clock.
THEOREM DispatcherGated == Spec => [](AtMostTwicePerMinute /\ DedupeSpacing)
  BY DispatcherHasGate, AtMostTwicePerMinuteHolds, DedupeSpacingHolds, PTL

-----------------------------------------------------------------------------
(***************************************************************************)
(* The mutex and the condition variable                                    *)
(***************************************************************************)

\* dispatch, worker_loop and the destructor hold mu_ exactly in the sections
\* the code locks: no two of them ever write queue_ or stop_ at once.
THEOREM MutexOwnershipHolds == Spec => []MutexOwnership
  <1>1. Init => MutexOwnership
    BY DispatcherAssumption DEF Init, MutexOwnership, DispatcherAssumption
  <1>2. TypedInv /\ MutexOwnership /\ [Next]_vars => MutexOwnership'
    <2> SUFFICES ASSUME TypedInv, MutexOwnership, [Next]_vars PROVE MutexOwnership'
      OBVIOUS
    <2>1. caller \in [Callers -> {"idle", "lock", "push", "notify", "unlock"}]
      BY DEF TypedInv, DispatcherTypeOK
    <2> USE DispatcherAssumption DEF MutexOwnership, DispatcherAssumption
    <2>2. ASSUME NEW c \in Callers, NEW key \in Keys, Dispatch(c, key)
          PROVE  MutexOwnership'
      BY <2>1, <2>2 DEF Dispatch
    <2>3. ASSUME NEW c \in Callers, CallerStep(c) PROVE MutexOwnership'
      BY <2>1, <2>3
         DEF CallerStep, CallerLock, Push, CallerNotify, CallerReturn,
             Acquired, Released, Notified
    <2>4. CASE WorkerStep \/ WorkerPost \/ SpuriousWakeup
      BY <2>4
         DEF WorkerStep, WorkerLock, WorkerCheck, WorkerBlock, WorkerExit, WorkerPop,
             WorkerGate, WorkerPost, SpuriousWakeup, Settled, Acquired, Released
    <2>5. CASE Destroy \/ OwnerStep
      BY <2>5
         DEF Destroy, OwnerStep, OwnerLock, OwnerStop, OwnerNotify, OwnerJoin,
             Acquired, Released, Notified
    <2>6. CASE UNCHANGED threadVars
      BY <2>6 DEF threadVars
    <2> QED
      BY <2>2, <2>3, <2>4, <2>5, <2>6 DEF Next, TimePasses, vars
  <1> QED
    BY <1>1, <1>2, TypedInvariant, PTL DEF Spec

\* dispatch, worker_loop and the destructor write queue_ and stop_ under the mutex.
THEOREM GuardedByMutexHolds == Spec => GuardedByMutex
  <1> DEFINE Guarded ==
        /\ stop' # stop => mutex = "owner" /\ owner' # owner
        /\ queue' # queue =>
             \/ mutex = "worker" /\ worker' # worker
             \/ \E c \in Callers : mutex = c /\ caller'[c] # caller[c]
  <1>1. TypedInv /\ MutexOwnership /\ [Next]_vars => [Guarded]_vars
    <2> SUFFICES ASSUME TypedInv, MutexOwnership, Next PROVE Guarded
      OBVIOUS
    <2>1. caller \in [Callers -> {"idle", "lock", "push", "notify", "unlock"}]
      BY DEF TypedInv, DispatcherTypeOK
    <2>2. ASSUME NEW c \in Callers, Push(c) PROVE Guarded
      <3>1. mutex = c /\ caller[c] = "push" /\ caller'[c] = "notify" /\ stop' = stop
        BY <2>1, <2>2 DEF Push, MutexOwnership
      <3> QED
        BY <3>1
    <2>3. CASE WorkerPop
      BY <2>3 DEF WorkerPop, Released
    <2>4. CASE OwnerStop
      BY <2>4 DEF OwnerStop, Released
    <2>5. CASE UNCHANGED <<stop, queue>>
      BY <2>5
    <2>6. ASSUME NEW c \in Callers,
                 CallerLock(c) \/ CallerNotify(c) \/ CallerReturn(c)
                 \/ \E key \in Keys : Dispatch(c, key)
          PROVE  UNCHANGED <<stop, queue>>
      BY <2>6 DEF CallerLock, CallerNotify, CallerReturn, Dispatch
    <2>7. ASSUME \/ WorkerLock \/ WorkerCheck \/ WorkerBlock \/ WorkerExit \/ WorkerGate
                 \/ WorkerPost \/ SpuriousWakeup \/ Destroy
                 \/ OwnerLock \/ OwnerNotify \/ OwnerJoin \/ TimePasses \/ UNCHANGED vars
          PROVE  UNCHANGED <<stop, queue>>
      BY <2>7 DEF WorkerLock, WorkerCheck, WorkerBlock, WorkerExit, WorkerGate, WorkerPost,
                  SpuriousWakeup, Destroy, OwnerLock, OwnerNotify, OwnerJoin, TimePasses,
                  vars, threadVars
    <2> HIDE DEF Guarded
    <2> QED
      BY <2>2, <2>3, <2>4, <2>5, <2>6, <2>7 DEF Next, CallerStep, WorkerStep, OwnerStep
  <1> QED
    BY <1>1, TypedInvariant, MutexOwnershipHolds, PTL DEF Spec, GuardedByMutex

\* NoLostWakeup is inductive with what the worker learned under the lock: from
\* testing the predicate until it is asleep, there is nothing to wake up for.
WakeupInv ==
  /\ NoLostWakeup
  /\ worker = "block" => ~Awaited

\* The worker never sleeps through a push or through the order to stop.
THEOREM NoLostWakeupHolds == Spec => []NoLostWakeup
  <1>1. Init => WakeupInv
    BY DEF Init, WakeupInv, NoLostWakeup
  <1>2. TypedInv /\ MutexOwnership /\ WakeupInv /\ [Next]_vars => WakeupInv'
    <2> SUFFICES ASSUME TypedInv, MutexOwnership, WakeupInv, [Next]_vars
                 PROVE  WakeupInv'
      OBVIOUS
    <2>1. caller \in [Callers -> {"idle", "lock", "push", "notify", "unlock"}]
      BY DEF TypedInv, DispatcherTypeOK
    <2> USE DEF WakeupInv, NoLostWakeup, Awaited
    <2>2. ASSUME NEW c \in Callers, NEW key \in Keys, Dispatch(c, key)
          PROVE  WakeupInv'
      BY <2>1, <2>2 DEF Dispatch
    <2>3. ASSUME NEW c \in Callers, CallerLock(c) PROVE WakeupInv'
      BY <2>1, <2>3 DEF CallerLock
    <2>4. ASSUME NEW c \in Callers, Push(c) PROVE WakeupInv'
      <3>1. mutex = c /\ worker # "block"
        BY <2>4, DispatcherAssumption DEF Push, MutexOwnership, DispatcherAssumption
      <3>2. caller'[c] = "notify" /\ worker' = worker
        BY <2>1, <2>4 DEF Push
      <3> QED
        BY <3>1, <3>2
    <2>5. ASSUME NEW c \in Callers, CallerNotify(c) PROVE WakeupInv'
      BY <2>1, <2>5 DEF CallerNotify, Notified
    <2>6. ASSUME NEW c \in Callers, CallerReturn(c) PROVE WakeupInv'
      BY <2>1, <2>6 DEF CallerReturn
    <2>7. CASE WorkerStep \/ WorkerPost \/ SpuriousWakeup
      BY <2>7
         DEF WorkerStep, WorkerLock, WorkerCheck, WorkerBlock, WorkerExit, WorkerPop,
             WorkerGate, WorkerPost, SpuriousWakeup, Settled
    <2>8. CASE OwnerStop
      <3>1. worker # "block"
        BY <2>8, DispatcherAssumption
           DEF OwnerStop, Released, MutexOwnership, DispatcherAssumption
      <3> QED
        BY <2>8, <3>1 DEF OwnerStop
    <2>9. CASE Destroy \/ OwnerLock \/ OwnerNotify \/ OwnerJoin
      BY <2>9 DEF Destroy, OwnerLock, OwnerNotify, OwnerJoin, Notified
    <2>10. CASE UNCHANGED threadVars
      BY <2>10 DEF threadVars
    <2> QED
      BY <2>2, <2>3, <2>4, <2>5, <2>6, <2>7, <2>8, <2>9, <2>10
         DEF Next, CallerStep, OwnerStep, TimePasses, vars
  <1>3. WakeupInv => NoLostWakeup
    BY DEF WakeupInv
  <1> QED
    BY <1>1, <1>2, <1>3, TypedInvariant, MutexOwnershipHolds, PTL DEF Spec


-----------------------------------------------------------------------------
(***************************************************************************)
(* The ids of a sequence of alerts                                         *)
(***************************************************************************)

\* Taking ids keeps a sequence a sequence, of the same length.
LEMMA IdsOfSeq ==
  ASSUME NEW q \in Seq(Alert)
  PROVE  /\ IdsOf(q) \in Seq(Ids)
         /\ Len(IdsOf(q)) = Len(q)
         /\ \A i \in 1..Len(q) : IdsOf(q)[i] = q[i].id
         /\ IdsOf(q) = <<>> <=> q = <<>>
  <1>1. /\ Len(q) \in Nat
        /\ DOMAIN q = 1..Len(q)
        /\ \A i \in 1..Len(q) : q[i] \in Alert
    BY LenProperties
  <1>5. \A i \in 1..Len(q) : q[i].id \in Ids
    BY <1>1 DEF Alert
  <1>2. IdsOf(q) \in [1..Len(q) -> Ids]
    BY <1>1, <1>5 DEF IdsOf
  <1>3. IdsOf(q) \in Seq(Ids)
    BY <1>1, <1>2, SeqDef
  <1>4. Len(IdsOf(q)) = Len(q) /\ \A i \in 1..Len(q) : IdsOf(q)[i] = q[i].id
    BY <1>1, <1>2, <1>3 DEF IdsOf
  <1> QED
    BY <1>1, <1>3, <1>4, EmptySeq

\* The ids of a longer queue.
LEMMA IdsOfAppend ==
  ASSUME NEW q \in Seq(Alert), NEW a \in Alert
  PROVE  IdsOf(Append(q, a)) = Append(IdsOf(q), a.id)
  <1> DEFINE s == IdsOf(Append(q, a))
             t == Append(IdsOf(q), a.id)
  <1>1. /\ Append(q, a) \in Seq(Alert)
        /\ Len(q) \in Nat
        /\ Len(Append(q, a)) = Len(q) + 1
        /\ \A i \in 1..Len(q) : Append(q, a)[i] = q[i]
        /\ Append(q, a)[Len(q) + 1] = a
    OBVIOUS
  <1>2. /\ s \in Seq(Ids)
        /\ Len(s) = Len(q) + 1
        /\ \A i \in 1..(Len(q) + 1) : s[i] = Append(q, a)[i].id
    BY <1>1, IdsOfSeq
  <1>3. /\ t \in Seq(Ids)
        /\ Len(t) = Len(q) + 1
        /\ \A i \in 1..(Len(q) + 1) : t[i] = Append(q, a)[i].id
    <2>1. /\ IdsOf(q) \in Seq(Ids)
          /\ Len(IdsOf(q)) = Len(q)
          /\ \A i \in 1..Len(q) : IdsOf(q)[i] = q[i].id
      BY IdsOfSeq
    <2>2. a.id \in Ids
      BY DEF Alert
    <2> QED
      BY <1>1, <2>1, <2>2
  <1> HIDE DEF s, t
  <1>4. s = t
    BY <1>2, <1>3, SeqEqual
  <1> QED
    BY <1>4 DEF s, t

\* The ids of a queue that has lost its head.
LEMMA IdsOfTail ==
  ASSUME NEW q \in Seq(Alert), q # <<>>
  PROVE  /\ IdsOf(Tail(q)) = Tail(IdsOf(q))
         /\ Head(IdsOf(q)) = Head(q).id
  <1> DEFINE s == IdsOf(Tail(q))
             t == Tail(IdsOf(q))
  <1>1. /\ Tail(q) \in Seq(Alert)
        /\ Len(q) \in Nat \ {0}
        /\ Len(Tail(q)) = Len(q) - 1
        /\ \A i \in 1..(Len(q) - 1) : Tail(q)[i] = q[i + 1]
    BY HeadTailProperties, EmptySeq
  <1>2. /\ s \in Seq(Ids)
        /\ Len(s) = Len(q) - 1
        /\ \A i \in 1..(Len(q) - 1) : s[i] = q[i + 1].id
    BY <1>1, IdsOfSeq
  <1>3. /\ IdsOf(q) \in Seq(Ids)
        /\ IdsOf(q) # <<>>
        /\ Len(IdsOf(q)) = Len(q)
        /\ \A i \in 1..Len(q) : IdsOf(q)[i] = q[i].id
    BY IdsOfSeq
  <1>4. /\ t \in Seq(Ids)
        /\ Len(t) = Len(q) - 1
        /\ \A i \in 1..(Len(q) - 1) : t[i] = q[i + 1].id
    BY <1>1, <1>3, HeadTailProperties
  <1>5. Head(IdsOf(q)) = Head(q).id
    BY <1>1, <1>3
  <1> HIDE DEF s, t
  <1>6. s = t
    BY <1>2, <1>4, SeqEqual
  <1> QED
    BY <1>5, <1>6 DEF s, t

-----------------------------------------------------------------------------
(***************************************************************************)
(* What ties the fate of the alerts to where the threads hold them         *)
(***************************************************************************)
Offering(c) == caller[c] \in {"lock", "push"}

\* An alert is offered exactly while a caller has it and has not pushed it.
OffersMatch ==
  /\ \A c \in Callers : Offering(c) => fate[raised[c].id] = "offered"
  /\ \A c, d \in Callers :
       Offering(c) /\ Offering(d) /\ raised[c].id = raised[d].id => c = d
  /\ \A id \in Ids :
       fate[id] = "offered" => \E c \in Callers : Offering(c) /\ raised[c].id = id

\* The queue holds each alert once, and has it marked as queued.
QueueMatches ==
  /\ \A i \in DOMAIN queue : fate[queue[i].id] = "queued"
  /\ \A i, j \in DOMAIN queue : queue[i].id = queue[j].id => i = j

\* An alert is taken exactly while the worker judges or posts it.
TakenMatches ==
  \A id \in Ids :
    fate[id] = "taken" <=> worker \in {"gate", "post"} /\ evt.id = id

\* Alerts are numbered as they are raised.
NumberedInTurn == \A id \in Ids : id >= nextId => fate[id] = "unborn"

\* Once destruction begins nobody calls, and the worker leaves an empty queue.
EndInOrder ==
  /\ owner # "alive" => \A c \in Callers : caller[c] = "idle"
  /\ stop <=> owner \in {"notify", "join", "gone"}
  /\ worker = "exited" => stop /\ queue = <<>>

Matching == OffersMatch /\ QueueMatches /\ TakenMatches /\ NumberedInTurn /\ EndInOrder

ChannelInv == TypedInv /\ Matching

\* The types of what the invariant speaks of.
LEMMA ChannelTypes ==
  ASSUME TypedInv
  PROVE  /\ fate \in [Ids -> Fates]
         /\ caller \in [Callers -> {"idle", "lock", "push", "notify", "unlock"}]
         /\ raised \in [Callers -> Alert \cup {NoAlert}]
         /\ \A c \in Callers : caller[c] # "idle" => raised[c] \in Alert /\ raised[c].id \in Ids
         /\ queue \in Seq(Alert)
         /\ Len(queue) \in Nat
         /\ DOMAIN queue = 1..Len(queue)
         /\ \A i \in 1..Len(queue) : queue[i] \in Alert /\ queue[i].id \in Ids
         /\ worker \in {"gate", "post"} => evt \in Alert /\ evt.id \in Ids
         /\ nextId \in Nat
         /\ Ids \subseteq Nat
  <1>1. MaxAlerts \in Nat
    BY DispatcherAssumption DEF DispatcherAssumption
  <1>2. /\ queue \in Seq(Alert)
        /\ \A i \in 1..Len(queue) : queue[i] \in Alert
    BY ElementOfSeq DEF TypedInv, DispatcherTypeOK
  <1>3. Len(queue) \in Nat /\ DOMAIN queue = 1..Len(queue)
    BY <1>2
  <1>4. \A a \in Alert : a.id \in Ids
    BY DEF Alert
  <1>5. nextId \in Nat /\ Ids \subseteq Nat
    BY <1>1 DEF TypedInv, DispatcherTypeOK, Ids
  <1> QED
    BY <1>2, <1>3, <1>4, <1>5 DEF TypedInv, DispatcherTypeOK, EventsCarried

\* Raising an alert gives the next number, which no alert has had.
LEMMA DispatchKeepsMatching ==
  ASSUME TypedInv, Matching, NEW c \in Callers, NEW key \in Keys, Dispatch(c, key)
  PROVE  Matching'
  <1> USE DEF Matching
  <1>1. nextId \in Ids /\ fate[nextId] = "unborn" /\ nextId' = nextId + 1
    BY ChannelTypes DEF Dispatch, NumberedInTurn, DispatcherTypeOK, TypedInv, Ids
  <1>2. /\ UNCHANGED <<queue, worker, evt, stop, owner>>
        /\ owner = "alive" /\ caller[c] = "idle"
    BY DEF Dispatch
  <1>3. \/ /\ fate' = [fate EXCEPT ![nextId] = "filtered"]
           /\ UNCHANGED <<caller, raised>>
        \/ /\ fate' = [fate EXCEPT ![nextId] = "offered"]
           /\ caller' = [caller EXCEPT ![c] = "lock"]
           /\ raised' = [raised EXCEPT ![c] = [id |-> nextId, key |-> key]]
    BY DEF Dispatch
  <1>4. OffersMatch'
    <2>1. \A d \in Callers : Offering(d) => raised[d].id \in Ids /\ raised[d].id # nextId
      BY <1>1, ChannelTypes DEF OffersMatch, Offering
    <2>2. CASE fate' = [fate EXCEPT ![nextId] = "filtered"] /\ UNCHANGED <<caller, raised>>
      BY <1>1, <2>1, <2>2, ChannelTypes DEF OffersMatch, Offering
    <2>3. CASE /\ fate' = [fate EXCEPT ![nextId] = "offered"]
               /\ caller' = [caller EXCEPT ![c] = "lock"]
               /\ raised' = [raised EXCEPT ![c] = [id |-> nextId, key |-> key]]
      <3>1. Offering(c)' /\ raised'[c].id = nextId /\ fate'[nextId] = "offered"
        BY <1>1, <2>3, ChannelTypes DEF Offering
      <3>2. \A d \in Callers \ {c} : caller'[d] = caller[d] /\ raised'[d] = raised[d]
        BY <2>3, ChannelTypes
      <3>3. \A id \in Ids \ {nextId} : fate'[id] = fate[id]
        BY <2>3, ChannelTypes
      <3>4. ~Offering(c)
        BY <1>2 DEF Offering
      <3>5. \A d \in Callers : Offering(d)' => fate'[raised'[d].id] = "offered"
        BY <2>1, <3>1, <3>2, <3>3 DEF OffersMatch, Offering
      <3>6. \A d, e \in Callers :
              Offering(d)' /\ Offering(e)' /\ raised'[d].id = raised'[e].id => d = e
        BY <2>1, <3>1, <3>2 DEF OffersMatch, Offering
      <3>7. ASSUME NEW id \in Ids, fate'[id] = "offered"
            PROVE  \E d \in Callers : Offering(d)' /\ raised'[d].id = id
        BY <3>1, <3>2, <3>3, <3>4, <3>7 DEF OffersMatch, Offering
      <3> QED
        BY <3>5, <3>6, <3>7 DEF OffersMatch
    <2> QED
      BY <1>3, <2>2, <2>3
  <1>5. QueueMatches'
    BY <1>1, <1>2, <1>3, ChannelTypes DEF QueueMatches
  <1>6. TakenMatches'
    BY <1>1, <1>2, <1>3, ChannelTypes DEF TakenMatches
  <1>7. NumberedInTurn'
    BY <1>1, <1>3, ChannelTypes DEF NumberedInTurn
  <1>8. EndInOrder'
    BY <1>2, <1>3, ChannelTypes DEF EndInOrder
  <1> QED
    BY <1>4, <1>5, <1>6, <1>7, <1>8

\* A caller that pushes its alert offers it no longer.
LEMMA PushEndsOffer ==
  ASSUME TypedInv, OffersMatch, NEW c \in Callers, Push(c),
         fate'[raised[c].id] # "offered",
         \A id \in Ids \ {raised[c].id} : fate'[id] = "offered" <=> fate[id] = "offered"
  PROVE  OffersMatch'
  <1>1. /\ \A d \in Callers : Offering(d)' <=> Offering(d) /\ d # c
        /\ \A d \in Callers : Offering(d) => raised[d].id \in Ids
        /\ raised' = raised
        /\ Offering(c)
    BY ChannelTypes DEF Push, Offering
  <1>2. \A d \in Callers : Offering(d) => (d # c <=> raised[d].id # raised[c].id)
    BY <1>1 DEF OffersMatch
  <1>3. \A d \in Callers : Offering(d)' => fate'[raised'[d].id] = "offered"
    BY <1>1, <1>2 DEF OffersMatch
  <1>4. \A d, e \in Callers :
          Offering(d)' /\ Offering(e)' /\ raised'[d].id = raised'[e].id => d = e
    BY <1>1 DEF OffersMatch
  <1>5. ASSUME NEW id \in Ids, fate'[id] = "offered"
        PROVE  \E d \in Callers : Offering(d)' /\ raised'[d].id = id
    <2>1. id # raised[c].id /\ fate[id] = "offered"
      BY <1>5
    <2>2. PICK d \in Callers : Offering(d) /\ raised[d].id = id
      BY <2>1 DEF OffersMatch
    <2> QED
      BY <1>1, <2>1, <2>2
  <1> QED
    BY <1>3, <1>4, <1>5 DEF OffersMatch

\* Pushing queues an alert that was offered, and evicts one that was queued.
LEMMA PushKeepsMatching ==
  ASSUME TypedInv, Matching, NEW c \in Callers, Push(c)
  PROVE  Matching'
  <1> USE DEF Matching
  <1> DEFINE id == raised[c].id
             n == Len(queue)
  <1>1. /\ caller[c] = "push"
        /\ caller' = [caller EXCEPT ![c] = "notify"]
        /\ UNCHANGED <<stop, raised, worker, evt, owner, nextId>>
    BY DEF Push
  <1>2. id \in Ids /\ fate[id] = "offered" /\ raised[c] \in Alert
    BY <1>1, ChannelTypes DEF OffersMatch, Offering
  <1>3. CASE Full
    <2> DEFINE head == queue[1].id
    <2>1. /\ n \in Nat \ {0}
          /\ queue' = Append(Tail(queue), raised[c])
          /\ fate' = [fate EXCEPT ![head] = "evicted", ![id] = "queued"]
      <3>1. n \in Nat \ {0} /\ Head(queue) = queue[1]
        BY <1>3, ChannelTypes, DispatcherAssumption DEF Full, DispatcherAssumption
      <3> QED
        BY <1>3, <3>1 DEF Push
    <2>2. head \in Ids /\ fate[head] = "queued" /\ head # id
      BY <1>2, <2>1, ChannelTypes DEF QueueMatches
    <2>3. /\ DOMAIN queue' = 1..n
          /\ \A i \in 1..(n - 1) : queue'[i] = queue[i + 1]
          /\ queue'[n] = raised[c]
      BY <1>2, <2>1, ChannelTypes
    <2>4. \A other \in Ids \ {id, head} : fate'[other] = fate[other]
      BY <2>1, ChannelTypes
    <2>5. fate'[id] = "queued" /\ fate'[head] = "evicted"
      BY <1>2, <2>1, <2>2, ChannelTypes
    <2> HIDE DEF id, head, n
    <2>6. OffersMatch'
      <3>1. \A other \in Ids \ {id} : fate'[other] = "offered" <=> fate[other] = "offered"
        BY <2>2, <2>4, <2>5
      <3> QED
        BY <2>5, <3>1, PushEndsOffer DEF id
    <2>7. QueueMatches'
      <3>1. \A i \in 1..n : queue[i].id \in Ids \ {id} /\ (queue[i].id = head => i = 1)
        <4>1. \A i \in 1..n : queue[i].id \in Ids /\ fate[queue[i].id] = "queued"
          BY ChannelTypes DEF QueueMatches, n
        <4>2. 1 \in 1..n
          BY <2>1
        <4> QED
          BY <1>2, <4>1, <4>2, ChannelTypes DEF QueueMatches, n, head
      <3>2. \A i \in 1..(n - 1) : queue'[i].id \in Ids \ {id, head}
        BY <2>1, <2>3, <3>1
      <3>3. \A i, j \in 1..(n - 1) : queue'[i].id = queue'[j].id => i = j
        <4>1. \A i, j \in 1..n : queue[i].id = queue[j].id => i = j
          BY ChannelTypes DEF QueueMatches, n
        <4>2. \A i \in 1..(n - 1) : i + 1 \in 1..n /\ i \in Int
          BY <2>1
        <4> QED
          BY <2>3, <4>1, <4>2
      <3>4. \A i \in 1..(n - 1) : fate'[queue'[i].id] = "queued"
        <4>1. \A i \in 1..n : fate[queue[i].id] = "queued"
          BY ChannelTypes DEF QueueMatches, n
        <4>2. \A i \in 1..(n - 1) : i + 1 \in 1..n
          BY <2>1
        <4>3. \A i \in 1..(n - 1) : fate'[queue'[i].id] = fate[queue'[i].id]
          BY <2>4, <3>2
        <4> QED
          BY <2>3, <4>1, <4>2, <4>3
      <3>5. queue'[n].id = id
        BY <2>3 DEF id
      <3> QED
        <4>1. \A i \in 1..n : i = n \/ i \in 1..(n - 1)
          BY <2>1
        <4>2. \A i \in 1..n : fate'[queue'[i].id] = "queued"
          BY <2>5, <3>4, <3>5, <4>1
        <4>3. \A i, j \in 1..n : queue'[i].id = queue'[j].id => i = j
          BY <3>2, <3>3, <3>5, <4>1
        <4> QED
          BY <2>3, <4>2, <4>3 DEF QueueMatches
    <2>8. TakenMatches'
      BY <1>1, <1>2, <2>2, <2>4, <2>5 DEF TakenMatches
    <2>9. NumberedInTurn'
      BY <1>1, <1>2, <2>2, <2>4 DEF NumberedInTurn
    <2> QED
      BY <1>1, <2>6, <2>7, <2>8, <2>9, ChannelTypes DEF EndInOrder
  <1>4. CASE ~Full
    <2>1. /\ queue' = Append(queue, raised[c])
          /\ fate' = [fate EXCEPT ![id] = "queued"]
      BY <1>4 DEF Push
    <2>2. /\ n \in Nat
          /\ DOMAIN queue' = 1..(n + 1)
          /\ \A i \in 1..n : queue'[i] = queue[i]
          /\ queue'[n + 1] = raised[c]
      BY <1>2, <2>1, ChannelTypes
    <2>3. \A other \in Ids \ {id} : fate'[other] = fate[other]
      BY <2>1, ChannelTypes
    <2>4. fate'[id] = "queued"
      BY <1>2, <2>1, ChannelTypes
    <2> HIDE DEF id, n
    <2>5. OffersMatch'
      BY <2>3, <2>4, PushEndsOffer DEF id
    <2>6. QueueMatches'
      <3>1. \A i \in 1..n : queue[i].id \in Ids \ {id}
        BY <1>2, ChannelTypes DEF QueueMatches, n
      <3>2. \A i, j \in 1..n : queue'[i].id = queue'[j].id => i = j
        BY <2>2, ChannelTypes DEF QueueMatches, n
      <3>3. \A i \in 1..n : fate'[queue'[i].id] = "queued"
        <4>1. \A i \in 1..n : fate[queue[i].id] = "queued"
          BY ChannelTypes DEF QueueMatches, n
        <4> QED
          BY <2>2, <2>3, <3>1, <4>1
      <3>4. queue'[n + 1].id = id
        BY <2>2 DEF id
      <3> QED
        BY <2>2, <2>4, <3>1, <3>2, <3>3, <3>4 DEF QueueMatches
    <2>7. TakenMatches'
      BY <1>1, <1>2, <2>3, <2>4 DEF TakenMatches
    <2>8. NumberedInTurn'
      BY <1>1, <1>2, <2>3 DEF NumberedInTurn
    <2> QED
      BY <1>1, <2>5, <2>6, <2>7, <2>8, ChannelTypes DEF EndInOrder
  <1> QED
    BY <1>3, <1>4

\* Taking the oldest alert off the queue, and settling it.
LEMMA WorkerKeepsMatching ==
  ASSUME TypedInv, Matching, WorkerStep \/ WorkerPost \/ SpuriousWakeup
  PROVE  Matching'
  <1> USE DEF Matching
  <1>1. CASE WorkerLock \/ WorkerCheck \/ WorkerBlock \/ WorkerExit \/ SpuriousWakeup
    <2>1. /\ UNCHANGED <<fate, queue, caller, raised, evt, owner, stop, nextId>>
          /\ worker \notin {"gate", "post"} /\ worker' \notin {"gate", "post"}
          /\ worker' = "exited" => stop /\ queue = <<>>
      BY <1>1 DEF WorkerLock, WorkerCheck, WorkerBlock, WorkerExit, SpuriousWakeup,
                  historyVars
    <2> QED
      BY <2>1 DEF OffersMatch, Offering, QueueMatches, TakenMatches, NumberedInTurn,
                  EndInOrder
  <1>2. CASE WorkerPop
    <2> DEFINE head == queue[1].id
               n == Len(queue)
    <2>1. /\ n \in Nat \ {0}
          /\ Head(queue) = queue[1]
          /\ DOMAIN queue' = 1..(n - 1)
          /\ \A i \in 1..(n - 1) : queue'[i] = queue[i + 1] /\ i + 1 \in 1..n
      BY <1>2, ChannelTypes DEF WorkerPop
    <2>2. /\ fate' = [fate EXCEPT ![head] = "taken"]
          /\ evt' = queue[1]
          /\ worker = "next" /\ worker' = "gate"
          /\ UNCHANGED <<caller, raised, owner, stop, nextId>>
      BY <1>2, <2>1 DEF WorkerPop
    <2>3. head \in Ids /\ fate[head] = "queued" /\ evt'.id = head
      BY <2>1, <2>2, ChannelTypes DEF QueueMatches
    <2>4. fate'[head] = "taken" /\ \A id \in Ids \ {head} : fate'[id] = fate[id]
      BY <2>2, <2>3, ChannelTypes
    <2>5. QueueMatches'
      <3>1. \A i \in 1..(n - 1) : queue'[i].id \in Ids \ {head}
        <4>0. 1 \in 1..n
          BY <2>1
        <4>1. \A i \in 1..n : queue[i].id \in Ids /\ (queue[i].id = head => i = 1)
          BY <4>0, ChannelTypes DEF QueueMatches
        <4>2. \A i \in 1..(n - 1) : i + 1 # 1
          OBVIOUS
        <4> HIDE DEF n, head
        <4> QED
          BY <2>1, <4>1, <4>2
      <3>2. \A i \in 1..(n - 1) : fate'[queue'[i].id] = "queued"
        <4>1. \A i \in 1..n : fate[queue[i].id] = "queued"
          BY ChannelTypes DEF QueueMatches
        <4> HIDE DEF n, head
        <4> QED
          BY <2>1, <2>4, <3>1, <4>1
      <3>3. \A i, j \in 1..(n - 1) : queue'[i].id = queue'[j].id => i = j
        <4>1. \A i, j \in 1..n : queue[i].id = queue[j].id => i = j
          BY ChannelTypes DEF QueueMatches
        <4>2. \A i \in 1..(n - 1) : i \in Int
          OBVIOUS
        <4> HIDE DEF n
        <4> QED
          BY <2>1, <4>1, <4>2
      <3> QED
        BY <2>1, <3>2, <3>3 DEF QueueMatches
    <2> HIDE DEF head, n
    <2>6. OffersMatch'
      BY <2>2, <2>3, <2>4, ChannelTypes DEF OffersMatch, Offering
    <2>7. TakenMatches'
      BY <2>2, <2>3, <2>4 DEF TakenMatches
    <2>8. NumberedInTurn'
      BY <2>2, <2>3, <2>4 DEF NumberedInTurn
    <2>9. EndInOrder'
      BY <2>2 DEF EndInOrder
    <2> QED
      BY <2>5, <2>6, <2>7, <2>8, <2>9
  <1>3. ASSUME NEW verdict \in {"rate_limited", "duplicate", "delivered", "failed", "unsent"},
               worker \in {"gate", "post"}, Settled(verdict),
               UNCHANGED <<queue, stop, caller, raised, owner, nextId>>
        PROVE  Matching'
    <2>1. evt.id \in Ids /\ fate[evt.id] = "taken" /\ worker' = "lock"
      BY <1>3, ChannelTypes DEF TakenMatches, Settled
    <2>2. fate'[evt.id] = verdict /\ \A id \in Ids \ {evt.id} : fate'[id] = fate[id]
      BY <1>3, <2>1, ChannelTypes DEF Settled
    <2>3. OffersMatch'
      <3>1. caller' = caller /\ raised' = raised /\ verdict # "offered"
        BY <1>3
      <3>2. \A c \in Callers : Offering(c) => raised[c].id \in Ids
        BY ChannelTypes DEF Offering
      <3>3. \A id \in Ids : fate'[id] = "offered" <=> fate[id] = "offered"
        BY <2>1, <2>2, <3>1
      <3> QED
        BY <3>1, <3>2, <3>3 DEF OffersMatch, Offering
    <2>4. QueueMatches'
      <3>1. queue' = queue /\ \A i \in DOMAIN queue : queue[i].id \in Ids
        BY <1>3, ChannelTypes
      <3>2. \A i \in DOMAIN queue : queue[i].id # evt.id
        BY <2>1 DEF QueueMatches
      <3> QED
        BY <2>2, <3>1, <3>2 DEF QueueMatches
    <2>5. TakenMatches'
      BY <1>3, <2>1, <2>2 DEF TakenMatches
    <2>6. NumberedInTurn'
      BY <1>3, <2>1, <2>2 DEF NumberedInTurn
    <2>7. EndInOrder'
      BY <1>3, <2>1 DEF EndInOrder
    <2> QED
      BY <2>3, <2>4, <2>5, <2>6, <2>7
  <1>4. CASE WorkerGate
    <2>1. CASE worker' = "post" /\ UNCHANGED <<fate, evt>>
      BY <1>4, <2>1 DEF WorkerGate, OffersMatch, Offering, QueueMatches, TakenMatches,
                        NumberedInTurn, EndInOrder
    <2>2. CASE Settled("rate_limited") \/ Settled("duplicate")
      BY <1>3, <1>4, <2>2 DEF WorkerGate
    <2> QED
      BY <1>4, <2>1, <2>2 DEF WorkerGate
  <1>5. CASE WorkerPost
    BY <1>3, <1>5 DEF WorkerPost, PostOutcomes
  <1> QED
    BY <1>1, <1>2, <1>4, <1>5 DEF WorkerStep

\* What the threads hold and what has become of the alerts always agree.
THEOREM ChannelInvariant == Spec => []ChannelInv
  <1>1. Init => Matching
    BY ChannelTypes DEF Init, Matching, OffersMatch, Offering, QueueMatches, TakenMatches,
                        NumberedInTurn, EndInOrder
  <1>2. TypedInv /\ Matching /\ [Next]_vars => Matching'
    <2> SUFFICES ASSUME TypedInv, Matching, [Next]_vars PROVE Matching'
      OBVIOUS
    <2>1. ASSUME NEW c \in Callers, CallerLock(c) \/ CallerNotify(c) \/ CallerReturn(c)
          PROVE  Matching'
      <3>1. /\ UNCHANGED <<fate, queue, evt, owner, stop, nextId>>
            /\ \A d \in Callers : Offering(d)' <=> Offering(d)
            /\ \A d \in Callers : Offering(d) => raised'[d] = raised[d]
            /\ \A d \in Callers : caller[d] = "idle" => caller'[d] = "idle"
            /\ worker' \in {worker, "lock"}
            /\ worker' # worker => worker = "waiting"
        BY <2>1, ChannelTypes
           DEF CallerLock, CallerNotify, CallerReturn, Notified, Offering, historyVars
      <3> QED
        BY <3>1 DEF Matching, OffersMatch, QueueMatches, TakenMatches, NumberedInTurn,
                    EndInOrder
    <2>2. CASE Destroy \/ OwnerStep
      <3>1. /\ UNCHANGED <<fate, queue, caller, raised, evt, nextId>>
            /\ worker' \in {worker, "lock"}
            /\ worker' # worker => worker = "waiting"
            /\ EndInOrder'
        BY <2>2 DEF Destroy, OwnerStep, OwnerLock, OwnerStop, OwnerNotify, OwnerJoin,
                    Notified, historyVars, Matching, EndInOrder
      <3> QED
        BY <3>1 DEF Matching, OffersMatch, Offering, QueueMatches, TakenMatches,
                    NumberedInTurn
    <2>3. CASE UNCHANGED <<threadVars, historyVars>>
      BY <2>3 DEF threadVars, historyVars, Matching, OffersMatch, Offering, QueueMatches,
                  TakenMatches, NumberedInTurn, EndInOrder
    <2> QED
      BY <2>1, <2>2, <2>3, DispatchKeepsMatching, PushKeepsMatching, WorkerKeepsMatching
         DEF Next, CallerStep, TimePasses, vars
  <1>3. TypedInv /\ Matching => ChannelInv
    BY DEF ChannelInv
  <1> QED
    BY <1>1, <1>2, <1>3, TypedInvariant, PTL DEF Spec

-----------------------------------------------------------------------------
(***************************************************************************)
(* Each step of the threads is one step of the channel, or none            *)
(***************************************************************************)

\* A step that leaves the queue and the fates alone is a step of the phase only.
LEMMA QuietSteps ==
  ASSUME UNCHANGED <<fate, queue, owner>>
  PROVE  UNCHANGED Channel!channelVars
  BY DEF Channel!channelVars, Phase

\* dispatch begins with an offer, of a number that is new.
LEMMA DispatchOffers ==
  ASSUME TypedInv, Matching, NEW c \in Callers, NEW key \in Keys, Dispatch(c, key)
  PROVE  Channel!Next
  <1>1. nextId \in Ids /\ fate[nextId] = "unborn"
    BY ChannelTypes DEF Dispatch, Matching, NumberedInTurn, DispatcherTypeOK, TypedInv, Ids
  <1>2. Channel!Offer(nextId)
    BY <1>1 DEF Dispatch, Channel!Offer, Phase
  <1> QED
    BY <1>1, <1>2 DEF Channel!Next

\* The push is where the channel accepts, and evicts its oldest when full.
LEMMA PushAccepts ==
  ASSUME TypedInv, Matching, NEW c \in Callers, Push(c)
  PROVE  Channel!Next
  <1> DEFINE id == raised[c].id
  <1>1. id \in Ids /\ fate[id] = "offered" /\ raised[c] \in Alert
    BY ChannelTypes DEF Push, Matching, OffersMatch, Offering
  <1>2. Len(IdsOf(queue)) = Len(queue) /\ UNCHANGED Phase
    BY IdsOfSeq, ChannelTypes DEF Push, Phase
  <1>3. CASE Full
    <2>1. queue # <<>> /\ Len(queue) = Capacity
      BY <1>3, ChannelTypes, DispatcherAssumption
         DEF Full, DispatcherAssumption, TypedInv, DispatcherTypeOK
    <2>2. Tail(queue) \in Seq(Alert)
      BY <2>1, ChannelTypes, HeadTailProperties
    <2>3. IdsOf(queue') = Append(Tail(IdsOf(queue)), id)
      BY <1>1, <1>3, <2>1, <2>2, ChannelTypes, IdsOfAppend, IdsOfTail DEF Push
    <2>4. Head(IdsOf(queue)) = Head(queue).id /\ Head(queue) = queue[1]
      BY <2>1, ChannelTypes, IdsOfTail
    <2>5. fate[queue[1].id] = "queued"
      BY <2>1, ChannelTypes DEF Matching, QueueMatches
    <2>6. fate' = [fate EXCEPT ![id] = "queued", ![Head(IdsOf(queue))] = "evicted"]
      BY <1>1, <1>3, <2>4, <2>5, ChannelTypes DEF Push
    <2>7. Channel!AcceptForOldest(id)
      BY <1>1, <1>2, <2>1, <2>3, <2>6 DEF Channel!AcceptForOldest
    <2> QED
      BY <1>1, <2>7 DEF Channel!Next
  <1>4. CASE ~Full
    <2>1. IdsOf(queue') = Append(IdsOf(queue), id)
      BY <1>1, <1>4, ChannelTypes, IdsOfAppend DEF Push
    <2>2. Len(queue) < Capacity
      BY <1>4, ChannelTypes, DispatcherAssumption DEF Full, DispatcherAssumption
    <2>3. Channel!Accept(id)
      BY <1>1, <1>2, <1>4, <2>1, <2>2 DEF Push, Channel!Accept
    <2> QED
      BY <1>1, <2>3 DEF Channel!Next
  <1> QED
    BY <1>3, <1>4

\* The worker takes and settles; its waiting is nothing to the channel.
LEMMA WorkerTakesAndSettles ==
  ASSUME TypedInv, Matching, WorkerStep \/ WorkerPost \/ SpuriousWakeup
  PROVE  [Channel!Next]_(Channel!channelVars)
  <1>1. CASE WorkerLock \/ WorkerCheck \/ WorkerBlock \/ WorkerExit \/ SpuriousWakeup
    <2>1. UNCHANGED <<fate, queue, owner>>
      BY <1>1 DEF WorkerLock, WorkerCheck, WorkerBlock, WorkerExit, SpuriousWakeup,
                  historyVars
    <2> QED
      BY <2>1, QuietSteps
  <1>2. CASE WorkerPop
    <2>1. queue # <<>> /\ queue \in Seq(Alert)
      BY <1>2, ChannelTypes DEF WorkerPop
    <2>2. /\ IdsOf(queue) # <<>>
          /\ IdsOf(queue') = Tail(IdsOf(queue))
          /\ Head(IdsOf(queue)) = Head(queue).id
      BY <1>2, <2>1, IdsOfSeq, IdsOfTail DEF WorkerPop
    <2>3. \A id \in Ids : fate[id] # "taken"
      BY <1>2 DEF WorkerPop, Matching, TakenMatches
    <2>4. Channel!Take
      BY <1>2, <2>2, <2>3 DEF WorkerPop, Channel!Take, Phase
    <2> QED
      BY <2>4 DEF Channel!Next
  <1>3. ASSUME NEW verdict \in {"rate_limited", "duplicate", "delivered", "failed", "unsent"},
               worker \in {"gate", "post"}, Settled(verdict), UNCHANGED <<queue, owner>>
        PROVE  Channel!Next
    <2>1. evt.id \in Ids /\ fate[evt.id] = "taken"
      BY <1>3, ChannelTypes DEF Matching, TakenMatches
    <2>2. Channel!Settle(evt.id)
      BY <1>3, <2>1 DEF Settled, Channel!Settle, Channel!Verdicts, Phase
    <2> QED
      BY <2>1, <2>2 DEF Channel!Next
  <1>4. CASE WorkerGate
    <2>1. CASE UNCHANGED <<fate, evt>>
      BY <1>4, <2>1, QuietSteps DEF WorkerGate
    <2>2. CASE Settled("rate_limited") \/ Settled("duplicate")
      BY <1>3, <1>4, <2>2 DEF WorkerGate
    <2> QED
      BY <1>4, <2>1, <2>2 DEF WorkerGate
  <1>5. CASE WorkerPost
    BY <1>3, <1>5 DEF WorkerPost, PostOutcomes
  <1> QED
    BY <1>1, <1>2, <1>4, <1>5 DEF WorkerStep

\* The destructor's first step closes the channel, its last finds it empty.
LEMMA OwnerCloses ==
  ASSUME TypedInv, Matching, Destroy \/ OwnerStep
  PROVE  [Channel!Next]_(Channel!channelVars)
  <1>1. UNCHANGED <<fate, queue>>
    BY DEF Destroy, OwnerStep, OwnerLock, OwnerStop, OwnerNotify, OwnerJoin, historyVars
  <1>2. CASE Destroy
    <2>1. \A id \in Ids : fate[id] # "offered"
      BY <1>2 DEF Destroy, Matching, OffersMatch, Offering
    <2>2. Channel!Close
      BY <1>1, <1>2, <2>1 DEF Destroy, Channel!Close, Phase
    <2> QED
      BY <2>2 DEF Channel!Next
  <1>3. CASE OwnerLock \/ OwnerStop \/ OwnerNotify
    <2>1. UNCHANGED Phase
      BY <1>3 DEF OwnerLock, OwnerStop, OwnerNotify, Phase
    <2> QED
      BY <1>1, <2>1 DEF Channel!channelVars
  <1>4. CASE OwnerJoin
    <2>1. queue = <<>> /\ IdsOf(queue) = <<>>
      BY <1>4, IdsOfSeq, ChannelTypes DEF OwnerJoin, Matching, EndInOrder
    <2>2. \A id \in Ids : fate[id] # "taken"
      BY <1>4 DEF OwnerJoin, Matching, TakenMatches
    <2>3. Channel!Finish
      BY <1>1, <1>4, <2>1, <2>2 DEF OwnerJoin, Channel!Finish, Phase
    <2> QED
      BY <2>3 DEF Channel!Next
  <1> QED
    BY <1>2, <1>3, <1>4 DEF OwnerStep

\* Whatever the threads do, in any interleaving, what callers and the owner see
\* of the dispatcher is a lossy first-in first-out channel.
THEOREM ImplementsChannelHolds == Spec => ImplementsChannel
  <1>1. Init => Channel!Init
    <2>1. IdsOf(<<>>) = <<>>
      BY IdsOfSeq, EmptySeq
    <2> QED
      BY <2>1 DEF Init, Channel!Init, Phase
  <1>2. ChannelInv /\ [Next]_vars => [Channel!Next]_(Channel!channelVars)
    <2> SUFFICES ASSUME TypedInv, Matching, [Next]_vars
                 PROVE  [Channel!Next]_(Channel!channelVars)
      BY DEF ChannelInv
    <2>1. ASSUME NEW c \in Callers, CallerLock(c) \/ CallerNotify(c) \/ CallerReturn(c)
          PROVE  UNCHANGED Channel!channelVars
      <3>1. UNCHANGED <<fate, queue, owner>>
        BY <2>1 DEF CallerLock, CallerNotify, CallerReturn, historyVars
      <3> QED
        BY <3>1, QuietSteps
    <2>2. CASE UNCHANGED <<threadVars, historyVars>>
      BY <2>2, QuietSteps DEF threadVars, historyVars
    <2> QED
      BY <2>1, <2>2, DispatchOffers, PushAccepts, WorkerTakesAndSettles, OwnerCloses
         DEF Next, CallerStep, TimePasses, vars
  <1> QED
    BY <1>1, <1>2, ChannelInvariant, PTL DEF Spec, ImplementsChannel, Channel!Spec

-----------------------------------------------------------------------------
(***************************************************************************)
(* Destruction leaves nothing behind                                       *)
(***************************************************************************)

\* The converse of QueueMatches: an alert marked as queued is on the queue.  And
\* the owner has waited for the worker.
QueuedHeld ==
  \A id \in Ids :
    fate[id] = "queued" => \E i \in DOMAIN queue : queue[i].id = id

Joined == owner = "gone" => worker = "exited"

\* A step that leaves the queue alone and marks nothing as queued.
LEMMA HeldStays ==
  ASSUME QueuedHeld, queue' = queue,
         \A id \in Ids : fate'[id] = "queued" => fate[id] = "queued"
  PROVE  QueuedHeld'
  BY DEF QueuedHeld

\* An alert still marked as queued after a push is on the longer queue.
LEMMA PushKeepsHeld ==
  ASSUME TypedInv, Matching, QueuedHeld, NEW c \in Callers, Push(c)
  PROVE  QueuedHeld'
  <1> DEFINE n == Len(queue)
  <1>1. raised[c] \in Alert /\ raised[c].id \in Ids
    BY ChannelTypes DEF Push
  <1> SUFFICES ASSUME NEW id \in Ids, fate'[id] = "queued"
               PROVE  \E i \in DOMAIN queue' : queue'[i].id = id
    BY DEF QueuedHeld
  <1>2. CASE Full
    <2>1. n \in Nat \ {0} /\ Head(queue) = queue[1]
      BY <1>2, ChannelTypes, DispatcherAssumption DEF Full, DispatcherAssumption
    <2>2. /\ DOMAIN queue' = 1..n
          /\ \A i \in 1..(n - 1) : queue'[i] = queue[i + 1]
          /\ queue'[n] = raised[c]
      BY <1>1, <1>2, <2>1, ChannelTypes DEF Push
    <2>3. fate' = [fate EXCEPT ![queue[1].id] = "evicted", ![raised[c].id] = "queued"]
      BY <1>2, <2>1 DEF Push
    <2>4. CASE id = raised[c].id
      BY <2>1, <2>2, <2>4
    <2>5. CASE id # raised[c].id
      <3>1. id # queue[1].id /\ fate[id] = "queued"
        BY <2>3, <2>5, ChannelTypes
      <3>2. PICK j \in 1..n : queue[j].id = id
        BY <3>1, ChannelTypes DEF QueuedHeld
      <3>3. j - 1 \in 1..(n - 1) /\ (j - 1) + 1 = j /\ j - 1 \in 1..n
        BY <2>1, <3>1, <3>2
      <3>4. queue'[j - 1].id = id
        BY <2>2, <3>2, <3>3
      <3> QED
        BY <2>2, <3>3, <3>4
    <2> QED
      BY <2>4, <2>5
  <1>3. CASE ~Full
    <2>1. /\ n \in Nat
          /\ DOMAIN queue' = 1..(n + 1)
          /\ \A i \in 1..n : queue'[i] = queue[i]
          /\ queue'[n + 1] = raised[c]
      BY <1>1, <1>3, ChannelTypes DEF Push
    <2>2. fate' = [fate EXCEPT ![raised[c].id] = "queued"]
      BY <1>3 DEF Push
    <2>3. CASE id = raised[c].id
      BY <2>1, <2>3
    <2>4. CASE id # raised[c].id
      BY <2>1, <2>2, <2>4, ChannelTypes DEF QueuedHeld
    <2> QED
      BY <2>3, <2>4
  <1> QED
    BY <1>2, <1>3

\* So is one that is still marked as queued after the worker took another.
LEMMA PopKeepsHeld ==
  ASSUME TypedInv, Matching, QueuedHeld, WorkerPop
  PROVE  QueuedHeld'
  <1> DEFINE n == Len(queue)
  <1> SUFFICES ASSUME NEW id \in Ids, fate'[id] = "queued"
               PROVE  \E i \in DOMAIN queue' : queue'[i].id = id
    BY DEF QueuedHeld
  <1>1. /\ n \in Nat \ {0}
        /\ Head(queue) = queue[1]
        /\ DOMAIN queue' = 1..(n - 1)
        /\ \A i \in 1..(n - 1) : queue'[i] = queue[i + 1]
    BY ChannelTypes DEF WorkerPop
  <1>2. fate' = [fate EXCEPT ![queue[1].id] = "taken"]
    BY <1>1 DEF WorkerPop
  <1>3. id # queue[1].id /\ fate[id] = "queued"
    BY <1>2, ChannelTypes
  <1>4. PICK j \in 1..n : queue[j].id = id
    BY <1>3, ChannelTypes DEF QueuedHeld
  <1>5. j - 1 \in 1..(n - 1) /\ (j - 1) + 1 = j
    BY <1>1, <1>3, <1>4
  <1>6. queue'[j - 1].id = id
    BY <1>1, <1>4, <1>5
  <1> QED
    BY <1>1, <1>5, <1>6

\* ~AlertDispatcher returns with no thread inside, mu_ free, and every alert
\* that was ever raised dealt with.
THEOREM SettledWhenGoneHolds == Spec => []SettledWhenGone
  <1>1. Init => QueuedHeld /\ Joined
    BY DEF Init, QueuedHeld, Joined
  <1>2. ChannelInv /\ QueuedHeld /\ Joined /\ [Next]_vars => QueuedHeld' /\ Joined'
    <2> SUFFICES ASSUME TypedInv, Matching, QueuedHeld, Joined, [Next]_vars
                 PROVE  QueuedHeld' /\ Joined'
      BY DEF ChannelInv
    <2>1. Joined'
      <3>1. CASE owner = "gone"
        <4>1. worker = "exited"
          BY <3>1 DEF Joined
        <4>2. \A c \in Callers : caller[c] = "idle"
          BY <3>1 DEF Matching, EndInOrder
        <4>3. worker' = worker
          BY <3>1, <4>1, <4>2
             DEF Next, Dispatch, CallerStep, CallerLock, Push, CallerNotify, CallerReturn,
                 WorkerStep, WorkerLock, WorkerCheck, WorkerBlock, WorkerExit, WorkerPop,
                 WorkerGate, WorkerPost, SpuriousWakeup, Destroy, OwnerStep, OwnerLock,
                 OwnerStop, OwnerNotify, OwnerJoin, TimePasses, vars, threadVars
        <4> QED
          BY <4>1, <4>3 DEF Joined
      <3>2. CASE owner # "gone"
        <4>1. owner' = "gone" => OwnerJoin
          BY <3>2
             DEF Next, Dispatch, CallerStep, CallerLock, Push, CallerNotify, CallerReturn,
                 WorkerStep, WorkerLock, WorkerCheck, WorkerBlock, WorkerExit, WorkerPop,
                 WorkerGate, WorkerPost, SpuriousWakeup, Destroy, OwnerStep, OwnerLock,
                 OwnerStop, OwnerNotify, OwnerJoin, TimePasses, vars, threadVars
        <4> QED
          BY <4>1 DEF Joined, OwnerJoin
      <3> QED
        BY <3>1, <3>2
    <2>2. ASSUME NEW c \in Callers, NEW key \in Keys, Dispatch(c, key) PROVE QueuedHeld'
      <3>1. /\ UNCHANGED queue
            /\ \A id \in Ids : fate'[id] = "queued" => fate[id] = "queued"
        BY <2>2, ChannelTypes DEF Dispatch
      <3> QED
        BY <3>1, HeldStays
    <2>3. CASE WorkerGate \/ WorkerPost
      <3>1. /\ UNCHANGED queue
            /\ \A id \in Ids : fate'[id] = "queued" => fate[id] = "queued"
        BY <2>3, ChannelTypes DEF WorkerGate, WorkerPost, PostOutcomes, Settled
      <3> QED
        BY <2>1, <3>1, HeldStays
    <2>4. CASE UNCHANGED <<fate, queue>>
      BY <2>1, <2>4, HeldStays
    <2>5. ASSUME NEW c \in Callers, CallerLock(c) \/ CallerNotify(c) \/ CallerReturn(c)
          PROVE  UNCHANGED <<fate, queue>>
      BY <2>5 DEF CallerLock, CallerNotify, CallerReturn, historyVars
    <2>6. CASE \/ WorkerLock \/ WorkerCheck \/ WorkerBlock \/ WorkerExit
               \/ SpuriousWakeup \/ Destroy \/ OwnerStep
      BY <2>4, <2>6
         DEF WorkerLock, WorkerCheck, WorkerBlock, WorkerExit, SpuriousWakeup, Destroy,
             OwnerStep, OwnerLock, OwnerStop, OwnerNotify, OwnerJoin, historyVars
    <2> QED
      BY <2>1, <2>2, <2>3, <2>4, <2>5, <2>6, PushKeepsHeld, PopKeepsHeld
         DEF Next, CallerStep, WorkerStep, TimePasses, vars, threadVars, historyVars
  <1>3. ChannelInv /\ MutexOwnership /\ QueuedHeld /\ Joined => SettledWhenGone
    <2> SUFFICES ASSUME TypedInv, Matching, MutexOwnership, QueuedHeld, Joined,
                        owner = "gone"
                 PROVE  /\ worker = "exited"
                        /\ mutex = NoThread
                        /\ \A c \in Callers : caller[c] = "idle"
                        /\ \A id \in Ids : fate[id] \notin {"offered", "queued", "taken"}
      BY DEF ChannelInv, SettledWhenGone
    <2>1. worker = "exited" /\ queue = <<>> /\ \A c \in Callers : caller[c] = "idle"
      BY DEF Joined, Matching, EndInOrder
    <2>2. mutex = NoThread
      BY <2>1 DEF MutexOwnership, TypedInv, DispatcherTypeOK, Threads
    <2>3. \A id \in Ids : fate[id] # "queued"
      BY <2>1 DEF QueuedHeld
    <2>4. \A id \in Ids : fate[id] # "offered" /\ fate[id] # "taken"
      BY <2>1 DEF Matching, OffersMatch, Offering, TakenMatches
    <2> QED
      BY <2>1, <2>2, <2>3, <2>4
  <1> QED
    BY <1>1, <1>2, <1>3, ChannelInvariant, MutexOwnershipHolds, PTL DEF Spec

-----------------------------------------------------------------------------
(***************************************************************************)
(* The order of the alerts: NewestSurvive and DuplicateOfSent              *)
(***************************************************************************)
\* Alerts are pushed once, and marked from then on; the queue holds the newest of
\* those pushed, in the order they were pushed.
PushedOnce ==
  \A i, j \in DOMAIN accepted : accepted[i].id = accepted[j].id => i = j

PushedMarked ==
  \A i \in DOMAIN accepted : fate[accepted[i].id] \notin {"unborn", "filtered", "offered"}

QueueIsNewest ==
  /\ Len(queue) <= Len(accepted)
  /\ \A i \in DOMAIN queue : queue[i] = accepted[Len(accepted) - Len(queue) + i]

Ordered == PushedOnce /\ PushedMarked /\ QueueIsNewest

\* The types of what has been pushed.
LEMMA AcceptedTypes ==
  ASSUME TypedInv
  PROVE  /\ accepted \in Seq(Alert)
         /\ Len(accepted) \in Nat
         /\ DOMAIN accepted = 1..Len(accepted)
         /\ \A i \in 1..Len(accepted) :
              accepted[i] \in Alert /\ accepted[i].id \in Ids
  <1>1. /\ accepted \in Seq(Alert)
        /\ \A i \in 1..Len(accepted) : accepted[i] \in Alert
    BY ElementOfSeq DEF TypedInv, DispatcherTypeOK
  <1>2. \A a \in Alert : a.id \in Ids
    BY DEF Alert
  <1> QED
    BY <1>1, <1>2

-----------------------------------------------------------------------------
(***************************************************************************)
(* What the steps that concern the order do                                *)
(***************************************************************************)

\* Push: a new last alert, that was only offered; the head gives way if it must.
LEMMA PushEffect ==
  ASSUME TypedInv, Matching, Ordered, NEW c \in Callers, Push(c)
  PROVE  LET n == Len(accepted)
             q == Len(queue)
             id == raised[c].id
         IN  /\ Len(accepted') = n + 1 /\ DOMAIN accepted' = 1..(n + 1)
             /\ \A i \in 1..n : accepted'[i] = accepted[i] /\ accepted[i].id # id
             /\ accepted'[n + 1] = raised[c]
             /\ id \in Ids /\ fate[id] = "offered" /\ fate'[id] = "queued"
             /\ \A o \in Ids \ {id} :
                  \/ fate'[o] = fate[o]
                  \/ /\ q >= Capacity /\ o = accepted[n - q + 1].id
                     /\ n - q + 1 \in 1..n
                     /\ fate[o] = "queued" /\ fate'[o] = "evicted"
  <1> DEFINE n == Len(accepted)
             q == Len(queue)
             id == raised[c].id
  <1>1. raised[c] \in Alert /\ id \in Ids /\ fate[id] = "offered"
    BY ChannelTypes DEF Push, Matching, OffersMatch, Offering
  <1>2. n \in Nat /\ q \in Nat /\ q <= n /\ DOMAIN queue = 1..q
    BY AcceptedTypes, ChannelTypes DEF Ordered, QueueIsNewest
  <1>3. /\ Len(accepted') = n + 1 /\ DOMAIN accepted' = 1..(n + 1)
        /\ \A i \in 1..n : accepted'[i] = accepted[i]
        /\ accepted'[n + 1] = raised[c]
    BY <1>1, AcceptedTypes DEF Push
  <1>4. \A i \in 1..n : accepted[i].id # id
    BY <1>1, AcceptedTypes DEF Ordered, PushedMarked
  <1>5. CASE Full
    <2>1. q >= Capacity /\ q \in Nat \ {0} /\ Head(queue) = queue[1] /\ 1 \in 1..q
      BY <1>2, <1>5, ChannelTypes, DispatcherAssumption DEF Full, DispatcherAssumption
    <2>2. n - q + 1 \in 1..n
      BY <1>2, <2>1
    <2>3. queue[1] = accepted[n - q + 1] /\ fate[queue[1].id] = "queued"
      BY <1>2, <2>1 DEF Ordered, QueueIsNewest, Matching, QueueMatches
    <2>4. fate' = [fate EXCEPT ![queue[1].id] = "evicted", ![id] = "queued"]
      BY <1>5, <2>1 DEF Push
    <2> HIDE DEF n, q
    <2>5. /\ fate'[id] = "queued"
          /\ \A o \in Ids \ {id} :
               \/ fate'[o] = fate[o]
               \/ o = queue[1].id /\ fate'[o] = "evicted"
      BY <1>1, <2>4, ChannelTypes
    <2> QED
      BY <1>1, <1>2, <1>3, <1>4, <2>1, <2>2, <2>3, <2>5 DEF n, q
  <1>6. CASE ~Full
    <2>1. fate' = [fate EXCEPT ![id] = "queued"]
      BY <1>6 DEF Push
    <2>2. fate'[id] = "queued" /\ \A o \in Ids \ {id} : fate'[o] = fate[o]
      BY <1>1, <2>1, ChannelTypes
    <2> QED
      BY <1>1, <1>2, <1>3, <1>4, <2>2
  <1> QED
    BY <1>5, <1>6

\* The new alert is the last on the queue, too.
LEMMA PushKeepsNewest ==
  ASSUME TypedInv, Matching, Ordered, NEW c \in Callers, Push(c)
  PROVE  QueueIsNewest'
  <1> DEFINE n == Len(accepted)
             q == Len(queue)
  <1>1. /\ raised[c] \in Alert
        /\ n \in Nat /\ q \in Nat /\ q <= n /\ DOMAIN queue = 1..q
        /\ \A i \in 1..q : queue[i] = accepted[n - q + i]
    BY AcceptedTypes, ChannelTypes DEF Push, Ordered, QueueIsNewest
  <1>2. /\ Len(accepted') = n + 1
        /\ \A i \in 1..n : accepted'[i] = accepted[i]
        /\ accepted'[n + 1] = raised[c]
    BY PushEffect
  <1>3. CASE Full
    <2>1. q \in Nat \ {0}
      BY <1>1, <1>3, DispatcherAssumption DEF Full, DispatcherAssumption
    <2>2. /\ Len(queue') = q /\ DOMAIN queue' = 1..q
          /\ \A i \in 1..(q - 1) : queue'[i] = queue[i + 1]
          /\ queue'[q] = raised[c]
      BY <1>1, <1>3, <2>1, ChannelTypes DEF Push
    <2> HIDE DEF n, q
    <2>3. ASSUME NEW i \in 1..q PROVE queue'[i] = accepted'[(n + 1) - q + i]
      <3>1. CASE i = q
        <4>1. (n + 1) - q + i = n + 1
          BY <1>1, <3>1
        <4> QED
          BY <1>2, <2>2, <3>1, <4>1
      <3>2. CASE i # q
        <4>1. /\ i \in 1..(q - 1) /\ i + 1 \in 1..q
              /\ n - q + (i + 1) = (n + 1) - q + i
              /\ n - q + (i + 1) \in 1..n
          BY <1>1, <2>1, <3>2
        <4>2. queue'[i] = accepted[n - q + (i + 1)]
          BY <1>1, <2>2, <4>1
        <4> QED
          BY <1>2, <4>1, <4>2
      <3> QED
        BY <3>1, <3>2
    <2>4. q <= n + 1
      BY <1>1
    <2> QED
      BY <1>2, <2>2, <2>3, <2>4 DEF QueueIsNewest, n, q
  <1>4. CASE ~Full
    <2>1. /\ Len(queue') = q + 1 /\ DOMAIN queue' = 1..(q + 1)
          /\ \A i \in 1..q : queue'[i] = queue[i]
          /\ queue'[q + 1] = raised[c]
      BY <1>1, <1>4, ChannelTypes DEF Push
    <2> HIDE DEF n, q
    <2>2. ASSUME NEW i \in 1..(q + 1) PROVE queue'[i] = accepted'[(n + 1) - (q + 1) + i]
      <3>1. CASE i = q + 1
        <4>1. (n + 1) - (q + 1) + i = n + 1
          BY <1>1, <3>1
        <4> QED
          BY <1>2, <2>1, <3>1, <4>1
      <3>2. CASE i # q + 1
        <4>1. i \in 1..q /\ (n + 1) - (q + 1) + i = n - q + i /\ n - q + i \in 1..n
          BY <1>1, <3>2
        <4>2. queue'[i] = accepted[n - q + i]
          BY <1>1, <2>1, <4>1
        <4> QED
          BY <1>2, <4>1, <4>2
      <3> QED
        BY <3>1, <3>2
    <2>3. q + 1 <= n + 1
      BY <1>1
    <2> QED
      BY <1>2, <2>1, <2>2, <2>3 DEF QueueIsNewest, n, q
  <1> QED
    BY <1>3, <1>4

\* WorkerPop: the oldest alert on the queue is the worker's, and none that is
\* behind it in the order has come this far.
LEMMA PopEffect ==
  ASSUME TypedInv, Matching, Ordered, WorkerPop
  PROVE  LET n == Len(accepted)
             q == Len(queue)
             p == n - q + 1
         IN  /\ n \in Nat /\ p \in 1..n
             /\ evt' = accepted[p]
             /\ fate[evt'.id] = "queued" /\ fate'[evt'.id] = "taken"
             /\ \A o \in Ids \ {evt'.id} : fate'[o] = fate[o]
             /\ \A i \in p..n : fate[accepted[i].id] = "queued"
             /\ QueueIsNewest'
  <1> DEFINE n == Len(accepted)
             q == Len(queue)
             p == n - q + 1
  <1>0. /\ queue \in Seq(Alert) /\ queue # <<>> /\ DOMAIN queue = 1..q
        /\ n \in Nat /\ q \in Nat
        /\ \A i \in 1..q : queue[i].id \in Ids
    BY AcceptedTypes, ChannelTypes DEF WorkerPop
  <1>1. /\ n \in Nat /\ q \in Nat \ {0} /\ q <= n /\ DOMAIN queue = 1..q
        /\ Head(queue) = queue[1]
        /\ \A i \in 1..q : queue[i] = accepted[n - q + i]
        /\ \A i \in 1..q : fate[queue[i].id] = "queued" /\ queue[i].id \in Ids
    <2>1. q \in Nat \ {0} /\ Head(queue) = queue[1]
      BY <1>0
    <2>2. q <= n /\ \A i \in 1..q : queue[i] = accepted[n - q + i]
      BY <1>0 DEF Ordered, QueueIsNewest
    <2>3. \A i \in 1..q : fate[queue[i].id] = "queued"
      BY <1>0 DEF Matching, QueueMatches
    <2> QED
      BY <1>0, <2>1, <2>2, <2>3
  <1>2. /\ accepted' = accepted
        /\ evt' = queue[1]
        /\ fate' = [fate EXCEPT ![queue[1].id] = "taken"]
        /\ Len(queue') = q - 1 /\ DOMAIN queue' = 1..(q - 1)
        /\ \A i \in 1..(q - 1) : queue'[i] = queue[i + 1]
    <2>1. /\ accepted' = accepted
          /\ evt' = queue[1]
          /\ fate' = [fate EXCEPT ![queue[1].id] = "taken"]
          /\ queue' = Tail(queue)
      BY <1>1 DEF WorkerPop
    <2> QED
      BY <1>0, <2>1, HeadTailProperties
  <1> HIDE DEF n, q
  <1>3. 1 \in 1..q /\ p \in 1..n /\ evt' = accepted[p]
    BY <1>1, <1>2
  <1>4. /\ fate[evt'.id] = "queued" /\ fate'[evt'.id] = "taken"
        /\ \A o \in Ids \ {evt'.id} : fate'[o] = fate[o]
    BY <1>1, <1>2, <1>3, ChannelTypes
  <1>5. ASSUME NEW i \in p..n PROVE fate[accepted[i].id] = "queued"
    <2>1. i - (n - q) \in 1..q /\ n - q + (i - (n - q)) = i
      BY <1>1
    <2> QED
      BY <1>1, <2>1
  <1>6. ASSUME NEW i \in 1..(q - 1) PROVE queue'[i] = accepted'[n - (q - 1) + i]
    <2>1. i + 1 \in 1..q /\ n - q + (i + 1) = n - (q - 1) + i
      BY <1>1
    <2>2. queue'[i] = accepted[n - q + (i + 1)]
      BY <1>1, <1>2, <2>1
    <2> QED
      BY <1>2, <2>1, <2>2
  <1>7. QueueIsNewest'
    <2>1. q - 1 <= n
      BY <1>1
    <2> QED
      BY <1>2, <1>6, <2>1 DEF QueueIsNewest, n, q
  <1> QED
    BY <1>1, <1>3, <1>4, <1>5, <1>7 DEF n, q

\* A raised alert is new: what has been pushed keeps its fate.
LEMMA DispatchEffect ==
  ASSUME TypedInv, Matching, Ordered, NEW c \in Callers, NEW key \in Keys,
         Dispatch(c, key)
  PROVE  /\ UNCHANGED <<accepted, queue, worker, evt>>
         /\ \A i \in DOMAIN accepted : fate'[accepted[i].id] = fate[accepted[i].id]
  <1>1. nextId \in Ids /\ fate[nextId] = "unborn"
    BY ChannelTypes DEF Dispatch, Matching, NumberedInTurn, DispatcherTypeOK, TypedInv, Ids
  <1>2. \A i \in DOMAIN accepted : accepted[i].id \in Ids \ {nextId}
    BY <1>1, AcceptedTypes DEF Ordered, PushedMarked
  <1>3. \A o \in Ids \ {nextId} : fate'[o] = fate[o]
    BY ChannelTypes DEF Dispatch
  <1> QED
    BY <1>2, <1>3 DEF Dispatch

\* The worker settles the alert it has taken, and no other.
LEMMA SettleEffect ==
  ASSUME TypedInv, Matching, worker \in {"gate", "post"}, NEW verdict, Settled(verdict)
  PROVE  /\ evt.id \in Ids /\ fate[evt.id] = "taken" /\ fate'[evt.id] = verdict
         /\ \A o \in Ids \ {evt.id} : fate'[o] = fate[o]
  <1>1. evt.id \in Ids /\ fate[evt.id] = "taken"
    BY ChannelTypes DEF Matching, TakenMatches
  <1> QED
    BY <1>1, ChannelTypes DEF Settled

Verdicts == {"rate_limited", "duplicate", "delivered", "failed", "unsent"}

\* What a step of the dispatcher is, as far as the order goes.
LEMMA OrderSteps ==
  ASSUME [Next]_vars
  PROVE  \/ \E c \in Callers, key \in Keys : Dispatch(c, key)
         \/ \E c \in Callers : Push(c)
         \/ WorkerPop
         \/ WorkerGate \/ WorkerPost
         \/ /\ UNCHANGED <<accepted, queue, fate, evt, dedupe>>
            /\ worker \notin {"gate", "post"} /\ worker' \notin {"gate", "post"}
         \/ UNCHANGED <<accepted, queue, fate, evt, dedupe, worker>>
  <1>1. CASE \E c \in Callers : CallerLock(c) \/ CallerNotify(c) \/ CallerReturn(c)
    BY <1>1 DEF CallerLock, CallerNotify, CallerReturn, Notified, historyVars, gateVars
  <1>2. CASE WorkerLock \/ WorkerCheck \/ WorkerBlock \/ WorkerExit \/ SpuriousWakeup
    BY <1>2 DEF WorkerLock, WorkerCheck, WorkerBlock, WorkerExit, SpuriousWakeup,
                historyVars, gateVars
  <1>3. CASE Destroy \/ OwnerStep
    BY <1>3 DEF Destroy, OwnerStep, OwnerLock, OwnerStop, OwnerNotify, OwnerJoin,
                Notified, historyVars, gateVars
  <1>4. CASE TimePasses
    BY <1>4 DEF TimePasses, Tick, StepWall, historyVars, threadVars
  <1>5. CASE UNCHANGED vars
    BY <1>5 DEF vars, historyVars, threadVars, gateVars
  <1> QED
    BY <1>1, <1>2, <1>3, <1>4, <1>5 DEF Next, CallerStep, WorkerStep

-----------------------------------------------------------------------------
(***************************************************************************)
(* First in, first out; and the newest survive                             *)
(***************************************************************************)

\* The order is kept, and with it the promise to the newest.
LEMMA StepKeepsOrder ==
  ASSUME TypedInv, Matching, Ordered, NewestSurvive, [Next]_vars
  PROVE  Ordered' /\ NewestSurvive'
  <1> DEFINE n == Len(accepted)
  <1>1. n \in Nat /\ DOMAIN accepted = 1..n
        /\ \A i \in 1..n : accepted[i].id \in Ids
    BY AcceptedTypes
  <1>2. Capacity \in Nat \ {0}
    BY DispatcherAssumption DEF DispatcherAssumption
  <1>3. ASSUME UNCHANGED <<accepted, queue>>,
               \A i \in DOMAIN accepted :
                 fate'[accepted[i].id] # fate[accepted[i].id] =>
                   fate'[accepted[i].id] \in Verdicts
        PROVE  Ordered' /\ NewestSurvive'
    BY <1>3 DEF Ordered, PushedOnce, PushedMarked, QueueIsNewest, NewestSurvive, Verdicts
  <1>4. ASSUME NEW c \in Callers, Push(c) PROVE Ordered' /\ NewestSurvive'
    <2> DEFINE id == raised[c].id
               q == Len(queue)
    <2>1. /\ Len(accepted') = n + 1 /\ DOMAIN accepted' = 1..(n + 1)
          /\ \A i \in 1..n : accepted'[i] = accepted[i] /\ accepted[i].id # id
          /\ accepted'[n + 1].id = id
          /\ fate'[id] = "queued"
          /\ \A o \in Ids \ {id} :
               \/ fate'[o] = fate[o]
               \/ /\ q >= Capacity /\ o = accepted[n - q + 1].id
                  /\ n - q + 1 \in 1..n
                  /\ fate'[o] = "evicted"
      BY <1>4, PushEffect
    <2>2. q \in Nat
      BY ChannelTypes
    <2> HIDE DEF n, q, id
    <2>3. \A i \in 1..(n + 1) : i = n + 1 \/ i \in 1..n
      BY <1>1
    <2>4. \A i, j \in 1..n : accepted[i].id = accepted[j].id => i = j
      BY <1>1 DEF Ordered, PushedOnce
    <2>5. PushedOnce'
      BY <2>1, <2>3, <2>4 DEF PushedOnce
    <2>6. PushedMarked'
      <3> SUFFICES ASSUME NEW i \in 1..(n + 1)
                   PROVE  fate'[accepted'[i].id] \notin {"unborn", "filtered", "offered"}
        BY <2>1 DEF PushedMarked
      <3>1. CASE i = n + 1
        BY <2>1, <3>1
      <3>2. CASE i \in 1..n
        BY <1>1, <2>1, <3>2 DEF Ordered, PushedMarked
      <3> QED
        BY <2>3, <3>1, <3>2
    <2>7. NewestSurvive'
      <3> SUFFICES ASSUME NEW i \in 1..(n + 1), fate'[accepted'[i].id] = "evicted"
                   PROVE  i + Capacity <= n + 1
        BY <2>1 DEF NewestSurvive
      <3>1. i \in 1..n /\ accepted'[i] = accepted[i] /\ accepted[i].id \in Ids \ {id}
        BY <1>1, <2>1, <2>3
      <3>2. CASE fate[accepted[i].id] = "evicted"
        <4>1. i + Capacity <= n
          BY <1>1, <3>1, <3>2 DEF NewestSurvive, n
        <4> QED
          BY <1>1, <1>2, <3>1, <4>1
      <3>3. CASE fate[accepted[i].id] # "evicted"
        <4>1. /\ q >= Capacity /\ n - q + 1 \in 1..n
              /\ accepted[i].id = accepted[n - q + 1].id
          BY <2>1, <3>1, <3>3
        <4>2. i = n - q + 1
          BY <2>4, <3>1, <4>1
        <4> QED
          BY <1>1, <1>2, <2>2, <4>1, <4>2
      <3> QED
        BY <3>2, <3>3
    <2>8. QueueIsNewest'
      BY <1>4, PushKeepsNewest
    <2> QED
      BY <2>5, <2>6, <2>7, <2>8 DEF Ordered
  <1>5. CASE WorkerPop
    <2>1. /\ accepted' = accepted
          /\ QueueIsNewest'
          /\ fate'[evt'.id] = "taken"
          /\ \A o \in Ids \ {evt'.id} : fate'[o] = fate[o]
      BY <1>5, PopEffect DEF WorkerPop
    <2>2. \A i \in 1..n : fate'[accepted[i].id] \in {fate[accepted[i].id], "taken"}
      BY <1>1, <2>1
    <2> QED
      BY <1>1, <2>1, <2>2 DEF Ordered, PushedOnce, PushedMarked, NewestSurvive
  <1>6. ASSUME NEW verdict \in Verdicts, worker \in {"gate", "post"}, Settled(verdict),
               UNCHANGED <<accepted, queue>>
        PROVE  Ordered' /\ NewestSurvive'
    <2>1. \A o \in Ids : fate'[o] # fate[o] => fate'[o] \in Verdicts
      BY <1>6, SettleEffect
    <2> QED
      BY <1>1, <1>3, <1>6, <2>1
  <1>7. CASE WorkerGate
    BY <1>3, <1>6, <1>7 DEF WorkerGate, Verdicts
  <1>8. CASE WorkerPost
    BY <1>6, <1>8 DEF WorkerPost, PostOutcomes, Verdicts
  <1>9. ASSUME NEW c \in Callers, NEW key \in Keys, Dispatch(c, key)
        PROVE  Ordered' /\ NewestSurvive'
    BY <1>3, <1>9, DispatchEffect
  <1>10. CASE UNCHANGED <<accepted, queue, fate>>
    BY <1>3, <1>10
  <1> QED
    BY <1>4, <1>5, <1>7, <1>8, <1>9, <1>10, OrderSteps

OrderInv == ChannelInv /\ Ordered /\ NewestSurvive

\* The queue is the tail of what was pushed, whatever the threads do.
THEOREM OrderInvariant == Spec => []OrderInv
  <1>1. Init => Ordered /\ NewestSurvive
    BY DEF Init, Ordered, PushedOnce, PushedMarked, QueueIsNewest, NewestSurvive
  <1>2. ChannelInv /\ Ordered /\ NewestSurvive /\ [Next]_vars => (Ordered /\ NewestSurvive)'
    BY StepKeepsOrder DEF ChannelInv
  <1>3. ChannelInv /\ Ordered /\ NewestSurvive <=> OrderInv
    BY DEF OrderInv
  <1> QED
    BY <1>1, <1>2, <1>3, ChannelInvariant, PTL DEF Spec

\* dispatch: an alert is given up to the queue's limit only when as many newer
\* ones as the queue has room for have been accepted after it.
THEOREM NewestSurviveHolds == Spec => []NewestSurvive
  <1>1. OrderInv => NewestSurvive
    BY DEF OrderInv
  <1> QED
    BY <1>1, OrderInvariant, PTL

-----------------------------------------------------------------------------
(***************************************************************************)
(* Repeats of what was sent                                                *)
(***************************************************************************)
Posted(i) == fate[accepted[i].id] \in {"delivered", "failed", "unsent"}
Repeat(i) == fate[accepted[i].id] = "duplicate"

\* A mark of the gate stands for an alert that was posted, or is the one the
\* worker is about to post.
MarksPosted ==
  \A k \in DOMAIN dedupe :
    \/ \E j \in DOMAIN accepted : accepted[j].key = k /\ Posted(j)
    \/ worker = "post" /\ evt.key = k

\* What was posted was accepted before the alert the worker has.
TakenLatest ==
  worker \in {"gate", "post"} =>
    \E p \in DOMAIN accepted :
      accepted[p] = evt /\ \A i \in DOMAIN accepted : Posted(i) => i < p

Repeats == MarksPosted /\ TakenLatest /\ DuplicateOfSent

\* A step that posts nothing and drops no repeat, and keeps all that was accepted.
NothingPosted ==
  /\ DOMAIN accepted \subseteq DOMAIN accepted'
  /\ \A i \in DOMAIN accepted : accepted'[i] = accepted[i]
  /\ \A i \in DOMAIN accepted : Posted(i)' <=> Posted(i)
  /\ \A i \in DOMAIN accepted' : Posted(i)' \/ Repeat(i)' => i \in DOMAIN accepted
  /\ \A i \in DOMAIN accepted : Repeat(i)' => Repeat(i)

\* The alert before a repeat, of which it is one, stays posted.
LEMMA NothingPostedKeeps ==
  ASSUME TypedInv, DuplicateOfSent, NothingPosted
  PROVE  DuplicateOfSent'
  <1>1. Len(accepted) \in Nat /\ DOMAIN accepted = 1..Len(accepted)
    BY AcceptedTypes
  <1> SUFFICES ASSUME NEW i \in DOMAIN accepted', Repeat(i)'
               PROVE  \E j \in 1..(i - 1) : accepted'[j].key = accepted'[i].key /\ Posted(j)'
    BY DEF DuplicateOfSent, Repeat, Posted
  <1>2. i \in DOMAIN accepted /\ Repeat(i)
    BY DEF NothingPosted
  <1>3. PICK j \in 1..(i - 1) : accepted[j].key = accepted[i].key /\ Posted(j)
    BY <1>2 DEF DuplicateOfSent, Repeat, Posted
  <1>4. j \in DOMAIN accepted
    BY <1>1, <1>2
  <1> QED
    BY <1>2, <1>3, <1>4 DEF NothingPosted

\* So does the alert a mark stands for.
LEMMA MarksStay ==
  ASSUME MarksPosted, NothingPosted, dedupe' = dedupe,
         worker = "post" => UNCHANGED <<worker, evt>>
  PROVE  MarksPosted'
  <1> SUFFICES ASSUME NEW k \in DOMAIN dedupe
               PROVE  \/ \E j \in DOMAIN accepted' : accepted'[j].key = k /\ Posted(j)'
                      \/ worker' = "post" /\ evt'.key = k
    BY DEF MarksPosted
  <1>1. CASE \E j \in DOMAIN accepted : accepted[j].key = k /\ Posted(j)
    BY <1>1 DEF NothingPosted
  <1>2. CASE worker = "post" /\ evt.key = k
    BY <1>2
  <1> QED
    BY <1>1, <1>2 DEF MarksPosted

\* The worker's alert stays ahead of what was posted.
LEMMA LatestStays ==
  ASSUME TakenLatest, NothingPosted, UNCHANGED evt,
         worker' \in {"gate", "post"} => worker \in {"gate", "post"}
  PROVE  TakenLatest'
  <1> SUFFICES ASSUME worker' \in {"gate", "post"}
               PROVE  \E p \in DOMAIN accepted' :
                        /\ accepted'[p] = evt
                        /\ \A i \in DOMAIN accepted' : Posted(i)' => i < p
    BY DEF TakenLatest
  <1>1. PICK p \in DOMAIN accepted :
          accepted[p] = evt /\ \A i \in DOMAIN accepted : Posted(i) => i < p
    BY DEF TakenLatest
  <1> QED
    BY <1>1 DEF NothingPosted

\* Settling the worker's alert touches no other's fate.
LEMMA SettlePosition ==
  ASSUME TypedInv, Matching, Ordered, TakenLatest,
         worker \in {"gate", "post"}, NEW verdict, Settled(verdict), accepted' = accepted
  PROVE  \E p \in DOMAIN accepted :
           /\ accepted[p] = evt
           /\ \A i \in DOMAIN accepted : Posted(i) => i < p
           /\ fate'[accepted[p].id] = verdict
           /\ ~Posted(p) /\ ~Repeat(p)
           /\ \A i \in DOMAIN accepted \ {p} : fate'[accepted[i].id] = fate[accepted[i].id]
  <1>1. PICK p \in DOMAIN accepted :
          accepted[p] = evt /\ \A i \in DOMAIN accepted : Posted(i) => i < p
    BY DEF TakenLatest
  <1>2. /\ fate[evt.id] = "taken" /\ fate'[evt.id] = verdict
        /\ \A o \in Ids \ {evt.id} : fate'[o] = fate[o]
    BY SettleEffect
  <1>3. \A i \in DOMAIN accepted \ {p} : accepted[i].id \in Ids \ {evt.id}
    BY <1>1, AcceptedTypes DEF Ordered, PushedOnce
  <1>4. ~Posted(p) /\ ~Repeat(p)
    BY <1>1, <1>2 DEF Posted, Repeat
  <1> QED
    BY <1>1, <1>2, <1>3, <1>4

\* The gate's verdict: a repeat has an alert before it that was posted.
LEMMA GateKeepsRepeats ==
  ASSUME TypedInv, Matching, Ordered, Repeats, WorkerGate
  PROVE  Repeats'
  <1> USE DEF Repeats
  <1>1. worker = "gate" /\ accepted' = accepted
    BY DEF WorkerGate
  <1>2. CASE LetThrough(evt.key) /\ worker' = "post" /\ UNCHANGED <<fate, evt>>
    <2>1. NothingPosted
      BY <1>1, <1>2 DEF NothingPosted, Posted, Repeat
    <2>2. DOMAIN dedupe' = DOMAIN dedupe \cup {evt.key}
      BY <1>2 DEF LetThrough, Marked
    <2>3. MarksPosted'
      BY <1>1, <1>2, <2>1, <2>2 DEF MarksPosted, NothingPosted
    <2> QED
      BY <1>1, <1>2, <2>1, <2>3, LatestStays, NothingPostedKeeps
  <1>3. ASSUME NEW verdict \in {"rate_limited", "duplicate"}, Settled(verdict),
               dedupe' = dedupe, verdict = "duplicate" => evt.key \in DOMAIN dedupe
        PROVE  Repeats'
    <2>1. PICK p \in DOMAIN accepted :
            /\ accepted[p] = evt
            /\ \A i \in DOMAIN accepted : Posted(i) => i < p
            /\ fate'[accepted[p].id] = verdict
            /\ ~Posted(p) /\ ~Repeat(p)
            /\ \A i \in DOMAIN accepted \ {p} : fate'[accepted[i].id] = fate[accepted[i].id]
      BY <1>1, <1>3, SettlePosition
    <2>2. \A i \in DOMAIN accepted : Posted(i)' <=> Posted(i)
      BY <1>1, <2>1 DEF Posted
    <2>3. MarksPosted' /\ TakenLatest'
      BY <1>1, <1>3, <2>2 DEF MarksPosted, TakenLatest, Settled
    <2>4. DuplicateOfSent'
      <3> SUFFICES ASSUME NEW i \in DOMAIN accepted, Repeat(i)'
                   PROVE  \E j \in 1..(i - 1) : accepted[j].key = accepted[i].key /\ Posted(j)'
        BY <1>1 DEF DuplicateOfSent, Repeat, Posted
      <3>1. Len(accepted) \in Nat /\ DOMAIN accepted = 1..Len(accepted)
        BY AcceptedTypes
      <3>2. CASE i = p
        <4>1. verdict = "duplicate"
          BY <1>1, <2>1, <3>2 DEF Repeat
        <4>2. PICK j \in DOMAIN accepted : accepted[j].key = evt.key /\ Posted(j)
          BY <1>1, <1>3, <4>1 DEF MarksPosted
        <4>3. j \in 1..(i - 1)
          BY <2>1, <3>1, <3>2, <4>2
        <4> QED
          BY <2>1, <2>2, <3>2, <4>2, <4>3
      <3>3. CASE i # p
        <4>1. Repeat(i)
          BY <1>1, <2>1, <3>3 DEF Repeat
        <4>2. PICK j \in 1..(i - 1) : accepted[j].key = accepted[i].key /\ Posted(j)
          BY <4>1 DEF DuplicateOfSent, Repeat, Posted
        <4>3. j \in DOMAIN accepted
          BY <3>1
        <4> QED
          BY <2>2, <4>2, <4>3
      <3> QED
        BY <3>2, <3>3
    <2> QED
      BY <2>3, <2>4
  <1>4. CASE RateLimited(evt.key) /\ Settled("rate_limited")
    BY <1>3, <1>4 DEF RateLimited
  <1>5. CASE Suppressed(evt.key) /\ Settled("duplicate")
    BY <1>3, <1>5 DEF Suppressed, Duplicate
  <1> QED
    BY <1>2, <1>4, <1>5 DEF WorkerGate

\* The post: the worker's alert now stands for the mark of its key.
LEMMA PostKeepsRepeats ==
  ASSUME TypedInv, Matching, Ordered, Repeats, WorkerPost
  PROVE  Repeats'
  <1> USE DEF Repeats
  <1>1. worker = "post" /\ accepted' = accepted /\ dedupe' = dedupe
    BY DEF WorkerPost, gateVars
  <1>2. PICK verdict \in {"delivered", "failed", "unsent"} : Settled(verdict)
    BY DEF WorkerPost, PostOutcomes
  <1>3. PICK p \in DOMAIN accepted :
          /\ accepted[p] = evt
          /\ fate'[accepted[p].id] = verdict
          /\ ~Posted(p) /\ ~Repeat(p)
          /\ \A i \in DOMAIN accepted \ {p} : fate'[accepted[i].id] = fate[accepted[i].id]
    BY <1>1, <1>2, SettlePosition
  <1>4. /\ \A i \in DOMAIN accepted : Posted(i) => Posted(i)'
        /\ \A i \in DOMAIN accepted : Repeat(i)' => Repeat(i)
        /\ Posted(p)'
    BY <1>1, <1>2, <1>3 DEF Posted, Repeat
  <1>5. MarksPosted' /\ TakenLatest'
    BY <1>1, <1>2, <1>3, <1>4 DEF MarksPosted, TakenLatest, Settled
  <1>6. DuplicateOfSent'
    <2> SUFFICES ASSUME NEW i \in DOMAIN accepted, Repeat(i)'
                 PROVE  \E j \in 1..(i - 1) : accepted[j].key = accepted[i].key /\ Posted(j)'
      BY <1>1 DEF DuplicateOfSent, Repeat, Posted
    <2>1. PICK j \in 1..(i - 1) : accepted[j].key = accepted[i].key /\ Posted(j)
      BY <1>4 DEF DuplicateOfSent, Repeat, Posted
    <2>2. j \in DOMAIN accepted
      BY AcceptedTypes
    <2> QED
      BY <1>4, <2>1, <2>2
  <1> QED
    BY <1>5, <1>6

\* Taking the next alert: all that was posted came before it.
LEMMA PopKeepsRepeats ==
  ASSUME TypedInv, Matching, Ordered, Repeats, WorkerPop
  PROVE  Repeats'
  <1> USE DEF Repeats
  <1> DEFINE n == Len(accepted)
             p == n - Len(queue) + 1
  <1>1. /\ n \in Nat /\ DOMAIN accepted = 1..n
        /\ \A i \in 1..n : accepted[i].id \in Ids
    BY AcceptedTypes
  <1>2. /\ p \in 1..n /\ evt' = accepted[p]
        /\ fate[evt'.id] = "queued" /\ fate'[evt'.id] = "taken"
        /\ \A o \in Ids \ {evt'.id} : fate'[o] = fate[o]
        /\ \A i \in p..n : fate[accepted[i].id] = "queued"
    BY PopEffect
  <1>3. /\ worker = "next" /\ worker' = "gate"
        /\ accepted' = accepted /\ dedupe' = dedupe
    BY DEF WorkerPop, gateVars
  <1>4. \A i \in 1..n : ~Posted(i) \/ i < p
    <2>1. \A i \in 1..n : i < p \/ i \in p..n
      BY <1>1, <1>2
    <2> QED
      BY <1>2, <2>1 DEF Posted
  <1> HIDE DEF n, p
  <1>5. NothingPosted
    BY <1>1, <1>2, <1>3 DEF NothingPosted, Posted, Repeat
  <1>6. TakenLatest'
    BY <1>1, <1>2, <1>3, <1>4, <1>5 DEF TakenLatest, NothingPosted
  <1> QED
    BY <1>3, <1>5, <1>6, NothingPostedKeeps, MarksStay

\* Whatever the threads do, the marks of the gate stand for posted alerts.
LEMMA StepKeepsRepeats ==
  ASSUME TypedInv, Matching, Ordered, Repeats, [Next]_vars
  PROVE  Repeats'
  <1>1. ASSUME NEW c \in Callers, Push(c) PROVE Repeats'
    <2> DEFINE n == Len(accepted)
               id == raised[c].id
    <2>1. /\ n \in Nat /\ DOMAIN accepted = 1..n
          /\ \A i \in 1..n : accepted[i].id \in Ids
      BY AcceptedTypes
    <2>2. /\ DOMAIN accepted' = 1..(n + 1)
          /\ \A i \in 1..n : accepted'[i] = accepted[i] /\ accepted[i].id # id
          /\ accepted'[n + 1].id = id
          /\ fate'[id] = "queued"
          /\ \A o \in Ids \ {id} :
               fate'[o] = fate[o] \/ (fate[o] = "queued" /\ fate'[o] = "evicted")
      BY <1>1, PushEffect
    <2> HIDE DEF n, id
    <2>3. \A i \in 1..(n + 1) : i = n + 1 \/ i \in 1..n
      BY <2>1
    <2>4. \A i \in 1..n : i \in 1..(n + 1)
      BY <2>1
    <2>5. NothingPosted
      BY <2>1, <2>2, <2>3, <2>4 DEF NothingPosted, Posted, Repeat
    <2>6. UNCHANGED <<worker, evt, dedupe>>
      BY <1>1 DEF Push, gateVars
    <2> QED
      BY <2>5, <2>6, NothingPostedKeeps, MarksStay, LatestStays DEF Repeats
  <1>2. ASSUME NEW c \in Callers, NEW key \in Keys, Dispatch(c, key) PROVE Repeats'
    <2>1. /\ UNCHANGED <<accepted, worker, evt>>
          /\ \A i \in DOMAIN accepted : fate'[accepted[i].id] = fate[accepted[i].id]
      BY <1>2, DispatchEffect
    <2>2. dedupe' = dedupe
      BY <1>2 DEF Dispatch, gateVars
    <2>3. NothingPosted
      BY <2>1 DEF NothingPosted, Posted, Repeat
    <2> QED
      BY <2>1, <2>2, <2>3, NothingPostedKeeps, MarksStay, LatestStays DEF Repeats
  <1>3. ASSUME UNCHANGED <<accepted, fate, evt, dedupe>>,
               \/ worker' = worker
               \/ worker \notin {"gate", "post"} /\ worker' \notin {"gate", "post"}
        PROVE  Repeats'
    <2>1. NothingPosted
      BY <1>3 DEF NothingPosted, Posted, Repeat
    <2> QED
      BY <1>3, <2>1, NothingPostedKeeps, MarksStay, LatestStays DEF Repeats
  <1> QED
    BY <1>1, <1>2, <1>3, OrderSteps, GateKeepsRepeats, PostKeepsRepeats, PopKeepsRepeats

\* should_send, behind the queue: an alert is dropped as a repeat only of one that
\* was accepted before it and that the gate did let through.
THEOREM DuplicateOfSentHolds == Spec => []DuplicateOfSent
  <1>1. Init => Repeats
    BY DEF Init, GateInit, Repeats, MarksPosted, TakenLatest, DuplicateOfSent
  <1>2. OrderInv /\ Repeats /\ [Next]_vars => Repeats'
    BY StepKeepsRepeats DEF OrderInv, ChannelInv
  <1>3. Repeats => DuplicateOfSent
    BY DEF Repeats
  <1> QED
    BY <1>1, <1>2, <1>3, OrderInvariant, PTL DEF Spec

=============================================================================
