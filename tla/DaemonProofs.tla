---------------------------- MODULE DaemonProofs ----------------------------
(***************************************************************************)
(* What is proved of the whole daemon, for any input and any queue: it is  *)
(* an event loop and an alert channel at once, no alert overtakes another  *)
(* or reaches the webhook far ahead of the audit trail, and no denial is   *)
(* forgotten.                                                              *)
(***************************************************************************)
EXTENDS Daemon, ServiceProofs

-----------------------------------------------------------------------------
(***************************************************************************)
(* The daemon is an event loop                                             *)
(***************************************************************************)
LEMMA StepIsLoop == [DaemonNext]_daemonVars => [Next]_vars
<1> SUFFICES ASSUME [DaemonNext]_daemonVars, ~UNCHANGED vars PROVE Next
  OBVIOUS
<1>1. CASE HostStep
  BY <1>1 DEF Next
<1>2. CASE LoopOnly \/ WriteMeanwhile \/ Ignore \/ HandIn
  BY <1>2 DEF LoopOnly, WriteMeanwhile, Ignore, HandIn, LoopStep, Next
<1>3. CASE Raise \/ Close \/ Finish \/ WorkerStep
  BY <1>3 DEF Raise, Close, Finish, WorkerStep, Take, Settle
<1>4. CASE Killed
  BY <1>4 DEF Killed, Next
<1>5. CASE UNCHANGED daemonVars
  BY <1>5 DEF daemonVars
<1> QED
  BY <1>1, <1>2, <1>3, <1>4, <1>5 DEF DaemonNext, MainStep

\* What is proved of Service::run holds of the daemon.
THEOREM DaemonHasService == DaemonSpec => Spec
<1>1. DaemonInit => Init
  BY DEF DaemonInit
<1> QED
  BY <1>1, StepIsLoop, PTL DEF DaemonSpec, Spec

\* What is proved of the loop on its own holds of it in the daemon.
LEMMA DaemonAudits == DaemonSpec => []ServiceInv
BY DaemonHasService, ServiceInvHolds, PTL

-----------------------------------------------------------------------------
(***************************************************************************)
(* The daemon is an alert channel                                          *)
(***************************************************************************)
LEMMA EventIsAlert == ServiceInv /\ pc = "alert" => event.id \in Ids
<1> SUFFICES ASSUME ServiceInv, pc = "alert" PROVE event.id \in Ids
  OBVIOUS
<1>1. /\ event.id = counter - 1 /\ counter \in 0..lines /\ lines \in 0..MaxLines
      /\ counter > 0
  BY DEF ServiceInv, Typed, ServiceTypeOK, KillsAudited, Handling
<1> QED
  BY <1>1, ServiceAssumption DEF Ids

\* Each step of the daemon is one the channel allows, or leaves it alone.
LEMMA StepIsChannels ==
  ServiceInv /\ [DaemonNext]_daemonVars => [Channel!Next]_channelVars
<1> SUFFICES ASSUME ServiceInv, [DaemonNext]_daemonVars, ~UNCHANGED channelVars
             PROVE  Channel!Next
  OBVIOUS
<1> USE DEF Channel!Next
<1>1. CASE Raise \/ Ignore
  <2>1. event.id \in Ids /\ Channel!Offer(event.id)
    BY <1>1, EventIsAlert DEF Raise, Ignore
  <2> QED
    BY <2>1
<1>2. CASE HandIn
  <2>1. event.id \in Ids /\ (Channel!Accept(event.id) \/ Channel!AcceptForOldest(event.id))
    BY <1>2, EventIsAlert DEF HandIn
  <2> QED
    BY <2>1
<1>3. CASE WorkerStep
  BY <1>3 DEF WorkerStep, Take, Settle
<1>4. CASE Close \/ Finish
  BY <1>4 DEF Close, Finish
<1>5. CASE HostStep /\ UNCHANGED channelVars
  BY <1>5
<1>6. CASE LoopOnly \/ WriteMeanwhile \/ Killed
  BY <1>6 DEF LoopOnly, WriteMeanwhile, Killed
<1>7. CASE UNCHANGED daemonVars
  BY <1>7 DEF daemonVars
<1> QED
  BY <1>1, <1>2, <1>3, <1>4, <1>5, <1>6, <1>7 DEF DaemonNext, MainStep

\* The daemon puts alerts in and takes them out as the dispatcher's promise
\* (AlertChannel) allows, and nothing else touches them.
THEOREM DaemonHasChannel == DaemonSpec => Channel!Spec
<1>1. DaemonInit => Channel!Init
  BY DEF DaemonInit
<1>2. ServiceInv /\ [DaemonNext]_daemonVars => [Channel!Next]_(Channel!channelVars)
  BY StepIsChannels DEF channelVars, Channel!channelVars
<1> QED
  BY <1>1, <1>2, DaemonAudits, PTL DEF DaemonSpec, Channel!Spec

-----------------------------------------------------------------------------
(***************************************************************************)
(* The order of alerts                                                     *)
(***************************************************************************)
Increasing(s) == \A i, j \in DOMAIN s : i < j => s[i] < s[j]

\* The head of a growing sequence comes before all the rest.
LEMMA IncreasingTail ==
  ASSUME NEW S \in SUBSET Int, NEW s \in Seq(S), s # <<>>, Increasing(s)
  PROVE  /\ Tail(s) \in Seq(S) /\ Increasing(Tail(s)) /\ Head(s) \in S
         /\ Range(s) = {Head(s)} \cup Range(Tail(s))
         /\ \A x \in Range(Tail(s)) : Head(s) < x
<1>1. /\ Tail(s) \in Seq(S) /\ Head(s) \in S /\ Head(s) = s[1]
      /\ Len(s) \in Nat \ {0} /\ DOMAIN s = 1..Len(s)
      /\ DOMAIN Tail(s) = 1..(Len(s) - 1)
      /\ \A i \in 1..(Len(s) - 1) : Tail(s)[i] = s[i + 1]
  BY HeadTailProperties, LenProperties, EmptySeq
<1>2. Increasing(Tail(s))
  <2> SUFFICES ASSUME NEW i \in 1..(Len(s) - 1), NEW j \in 1..(Len(s) - 1), i < j
               PROVE  s[i + 1] < s[j + 1]
    BY <1>1 DEF Increasing
  <2> QED
    BY <1>1 DEF Increasing
<1>3. \A x \in Range(Tail(s)) : x \in Range(s) /\ Head(s) < x
  <2> SUFFICES ASSUME NEW i \in 1..(Len(s) - 1)
               PROVE  s[i + 1] \in Range(s) /\ s[1] < s[i + 1]
    BY <1>1 DEF Range
  <2>1. i + 1 \in DOMAIN s /\ 1 \in DOMAIN s /\ 1 < i + 1
    BY <1>1
  <2> QED
    BY <2>1 DEF Increasing, Range
<1>4. \A x \in Range(s) : x = Head(s) \/ x \in Range(Tail(s))
  <2> SUFFICES ASSUME NEW i \in 1..Len(s) PROVE s[i] = s[1] \/ s[i] \in Range(Tail(s))
    BY <1>1 DEF Range
  <2>1. CASE i = 1
    BY <2>1
  <2>2. CASE i # 1
    <3>1. i - 1 \in DOMAIN Tail(s) /\ Tail(s)[i - 1] = s[i]
      BY <1>1, <2>2
    <3> QED
      BY <3>1 DEF Range
  <2> QED
    BY <2>1, <2>2
<1>5. Head(s) \in Range(s)
  BY <1>1 DEF Range
<1> QED
  BY <1>1, <1>2, <1>3, <1>4, <1>5

\* A sequence grows on with an element that is greater than all in it.
LEMMA IncreasingAppend ==
  ASSUME NEW S \in SUBSET Int, NEW s \in Seq(S), NEW e \in S, Increasing(s),
         \A x \in Range(s) : x < e
  PROVE  /\ Append(s, e) \in Seq(S) /\ Increasing(Append(s, e))
         /\ Range(Append(s, e)) = Range(s) \cup {e}
<1> DEFINE t == Append(s, e)
<1>1. /\ t \in Seq(S) /\ Len(s) \in Nat
      /\ DOMAIN s = 1..Len(s) /\ DOMAIN t = 1..(Len(s) + 1)
      /\ t[Len(s) + 1] = e /\ \A i \in 1..Len(s) : t[i] = s[i]
  BY AppendProperties, LenProperties
<1> HIDE DEF t
<1>2. Increasing(t)
  <2> SUFFICES ASSUME NEW i \in 1..(Len(s) + 1), NEW j \in 1..(Len(s) + 1), i < j
               PROVE  t[i] < t[j]
    BY <1>1 DEF Increasing
  <2>1. i \in 1..Len(s) /\ t[i] = s[i] /\ s[i] \in Range(s)
    BY <1>1 DEF Range
  <2>2. CASE j = Len(s) + 1
    BY <1>1, <2>1, <2>2
  <2>3. CASE j # Len(s) + 1
    <3>1. j \in 1..Len(s) /\ t[j] = s[j]
      BY <1>1, <2>3
    <3> QED
      BY <1>1, <2>1, <3>1 DEF Increasing
  <2> QED
    BY <2>2, <2>3
<1>3. \A x : x \in Range(t) <=> x \in Range(s) \cup {e}
  <2> TAKE x
  <2>1. x \in Range(t) <=> \E i \in 1..(Len(s) + 1) : x = t[i]
    BY <1>1 DEF Range
  <2>2. x \in Range(s) <=> \E i \in 1..Len(s) : x = s[i]
    BY <1>1 DEF Range
  <2>3. 1..(Len(s) + 1) = (1..Len(s)) \cup {Len(s) + 1}
    BY <1>1
  <2> QED
    BY <1>1, <2>1, <2>2, <2>3
<1> QED
  BY <1>1, <1>2, <1>3 DEF t

Fates == {"unborn", "filtered", "offered", "queued", "evicted", "taken"} \cup Channel!Verdicts

\* Alerts wait in the order of their events, and none is ahead of the event in hand.
OrderInv ==
  /\ fate \in [Ids -> Fates]
  /\ pending \in Seq(Ids) /\ Increasing(pending)
  /\ \A id \in Ids : fate[id] = "queued" <=> id \in Range(pending)
  /\ \A id \in Ids : fate[id] # "unborn" => id < counter
  /\ \A id \in Ids : fate[id] = "offered" => id = event.id /\ pc \in {"alert", "crashed"}
  /\ AlertsInAuditOrder

\* Alerts bear the numbers of their events, which are compared.
LEMMA IdsAreNumbers == Ids \subseteq Int
BY ServiceAssumption DEF Ids

\* In the beginning there is no alert.
LEMMA OrderInvInit == DaemonInit => OrderInv
<1> SUFFICES ASSUME DaemonInit PROVE OrderInv
  OBVIOUS
<1>1. fate = [id \in Ids |-> "unborn"] /\ pending = <<>>
  BY DEF DaemonInit, Channel!Init
<1>2. pending \in Seq(Ids) /\ Range(pending) = {} /\ Increasing(pending)
  BY <1>1, EmptySeq DEF Range, Increasing
<1>3. fate \in [Ids -> Fates] /\ \A id \in Ids : fate[id] = "unborn"
  BY <1>1 DEF Fates
<1> QED
  BY <1>2, <1>3 DEF OrderInv, AlertsInAuditOrder

\* A step of the loop or the host that leaves the channel alone.
Beside ==
  /\ UNCHANGED channelVars
  /\ counter' \in {counter, counter + 1}
  /\ pc \in {"alert", "crashed"} => event' = event /\ pc' \in {"alert", "crashed"}

\* The order of the alerts does not depend on what the loop does besides.
LEMMA BesideKeeps == OrderInv /\ Typed /\ Beside => OrderInv'
<1> SUFFICES ASSUME OrderInv, Typed, Beside PROVE OrderInv'
  OBVIOUS
<1>1. UNCHANGED <<fate, pending>> /\ counter \in Int
  BY DEF Beside, channelVars, Typed, ServiceTypeOK
<1>2. AlertsInAuditOrder'
  BY <1>1 DEF OrderInv, AlertsInAuditOrder, Seen
<1>3. \A id \in Ids : fate[id] # "unborn" => id < counter'
  BY <1>1, IdsAreNumbers DEF OrderInv, Beside
<1>4. \A id \in Ids : fate[id] = "offered" => id = event'.id /\ pc' \in {"alert", "crashed"}
  BY DEF OrderInv, Beside
<1> QED
  BY <1>1, <1>2, <1>3, <1>4 DEF OrderInv

\* Which steps do not concern the alerts.
LEMMA StepsBeside ==
  ASSUME Typed, \/ HostStep /\ UNCHANGED channelVars
                \/ LoopOnly \/ WriteMeanwhile \/ Killed \/ Close \/ Finish
                \/ UNCHANGED daemonVars
  PROVE  Beside \/ (UNCHANGED <<vars, fate, pending>>)
<1>1. CASE HostStep /\ UNCHANGED channelVars
  <2>1. UNCHANGED loopVars
    BY <1>1 DEF HostStep, Spawn, Exit, Report, Write, Noise, CloseInput
  <2> QED
    BY <1>1, <2>1 DEF loopVars, Beside
<1>2. CASE LoopOnly
  <2>1. pc \notin {"alert", "crashed"} /\ UNCHANGED channelVars
    BY <1>2 DEF LoopOnly, LoopStep, Flush, WriteEarly, ReadLine, LookUp, Signal, Log,
                Alert, EndOfInput
  <2>2. counter' \in {counter, counter + 1}
    BY <1>2 DEF LoopOnly, LoopStep, Flush, WriteEarly, ReadLine, LookUp, Signal, Log,
                Alert, EndOfInput
  <2> QED
    BY <2>1, <2>2 DEF Beside
<1>3. CASE WriteMeanwhile
  BY <1>3 DEF WriteMeanwhile, WriteEarly, Beside
<1>4. CASE Killed
  BY <1>4 DEF Killed, Crash, Beside
<1>5. CASE Close \/ Finish
  BY <1>5 DEF Close, Finish, Channel!Close, Channel!Finish
<1>6. CASE UNCHANGED daemonVars
  BY <1>6 DEF daemonVars, vars, loopVars, Beside
<1> QED
  BY <1>1, <1>2, <1>3, <1>4, <1>5, <1>6

\* Neither does it depend on the phase.
LEMMA StillKeeps == OrderInv /\ UNCHANGED <<vars, fate, pending>> => OrderInv'
BY DEF vars, loopVars, OrderInv, AlertsInAuditOrder, Seen

\* The alert raised is of the last event read, so later than all before it.
LEMMA OfferKeeps ==
  ASSUME OrderInv, ServiceInv, Raise \/ Ignore
  PROVE  OrderInv'
<1> DEFINE e == event.id
<1>1. /\ pc = "alert" /\ e \in Ids /\ e = counter - 1 /\ counter \in Int
      /\ UNCHANGED <<counter, event, pending>>
  BY EventIsAlert DEF Raise, Ignore, Alert, vars, loopVars, Channel!Offer,
     ServiceInv, Typed, ServiceTypeOK
<1>2. /\ fate[e] = "unborn" /\ fate'[e] \in {"filtered", "offered"}
      /\ fate' \in [Ids -> Fates] /\ \A id \in Ids \ {e} : fate'[id] = fate[id]
  BY <1>1 DEF Raise, Ignore, Channel!Offer, OrderInv, Fates
<1>3. fate'[e] = "offered" => pc' = "alert"
  BY <1>1, <1>2 DEF Raise, Ignore, vars, loopVars
<1>4. \A id \in Ids : fate[id] # "offered"
  BY <1>1, <1>2 DEF OrderInv
<1> HIDE DEF e
<1>5. \A id \in Ids : id \in Seen' <=> id \in Seen
  BY <1>1, <1>2 DEF Seen, Channel!Verdicts
<1>6. \A id \in Ids : fate[id] # "unborn" => id < e
  <2> SUFFICES ASSUME NEW id \in Ids, fate[id] # "unborn" PROVE id < e
    OBVIOUS
  <2>1. id < counter /\ id # e /\ id \in Int
    BY <1>2, IdsAreNumbers DEF OrderInv
  <2> QED
    BY <1>1, <2>1
<1>7. AlertsInAuditOrder'
  <2> SUFFICES ASSUME NEW i \in Ids, NEW j \in Ids, i < j, j \in Seen'
               PROVE  fate'[i] \notin {"offered", "queued"}
    BY DEF AlertsInAuditOrder
  <2>1. j \in Seen /\ j < e
    BY <1>5, <1>6 DEF Seen, Channel!Verdicts
  <2>2. i # e
    BY <2>1, <1>1, IdsAreNumbers
  <2> QED
    BY <1>2, <2>1, <2>2 DEF OrderInv, AlertsInAuditOrder
<1>8. \A id \in Ids : fate'[id] # "unborn" => id < counter
  BY <1>1, <1>2, IdsAreNumbers DEF OrderInv
<1>9. \A id \in Ids : fate'[id] = "queued" <=> id \in Range(pending)
  BY <1>2 DEF OrderInv
<1>10. \A id \in Ids : fate'[id] = "offered" => id = e /\ pc' = "alert"
  BY <1>2, <1>3, <1>4
<1>11. event'.id = e
  BY <1>1 DEF e
<1> QED
  BY <1>1, <1>2, <1>7, <1>8, <1>9, <1>10, <1>11 DEF OrderInv

\* It goes to the end of the queue; what gives way for it is the head.
LEMMA HandInKeeps ==
  ASSUME OrderInv, ServiceInv, HandIn
  PROVE  OrderInv'
<1> DEFINE e == event.id
<1>1. /\ pc = "alert" /\ pc' = "flush" /\ e \in Ids /\ e = counter - 1 /\ counter \in Int
      /\ UNCHANGED <<counter, event>>
  BY EventIsAlert DEF HandIn, Alert, ServiceInv, Typed, ServiceTypeOK
<1>2. /\ fate \in [Ids -> Fates] /\ fate[e] = "offered"
      /\ pending \in Seq(Ids) /\ Increasing(pending)
  BY DEF HandIn, Channel!Accept, Channel!AcceptForOldest, OrderInv
<1>3. Channel!Accept(e) \/ Channel!AcceptForOldest(e)
  BY DEF HandIn
<1>4. \A id \in Ids : id # e /\ fate[id] # "unborn" => id < e
  <2> SUFFICES ASSUME NEW id \in Ids, id # e, fate[id] # "unborn" PROVE id < e
    OBVIOUS
  <2>1. id < counter /\ id \in Int
    BY IdsAreNumbers DEF OrderInv
  <2> HIDE DEF e
  <2> QED
    BY <1>1, <2>1
<1> HIDE DEF e
<1>5. \A id \in Ids : fate[id] = "queued" <=> id \in Range(pending)
  BY DEF OrderInv
<1>6. /\ \A id \in Ids : id # e => fate[id] # "offered"
      /\ event'.id = e
  BY DEF OrderInv, e, HandIn, Alert
<1>7. Range(pending) \subseteq Ids
  BY <1>2, LenProperties, ElementOfSeq DEF Range
<1>8. /\ fate' \in [Ids -> Fates] /\ fate'[e] = "queued"
      /\ \A id \in Ids \ {e} :
           fate'[id] # fate[id] => fate[id] = "queued" /\ fate'[id] = "evicted"
      /\ \A id \in Ids : fate'[id] = "queued" <=> id \in Range(pending')
      /\ pending' \in Seq(Ids) /\ Increasing(pending')
  <2>1. CASE Channel!Accept(e)
    <3>1. fate' = [fate EXCEPT ![e] = "queued"] /\ pending' = Append(pending, e)
      BY <2>1 DEF Channel!Accept
    <3>2. \A id \in Range(pending) : id < e
      BY <1>2, <1>4, <1>5, <1>7
    <3>3. /\ pending' \in Seq(Ids) /\ Increasing(pending')
          /\ Range(pending') = Range(pending) \cup {e}
      BY <1>1, <1>2, <3>1, <3>2, IncreasingAppend, IdsAreNumbers
    <3>4. /\ fate' \in [Ids -> Fates] /\ fate'[e] = "queued"
          /\ \A id \in Ids \ {e} : fate'[id] = fate[id]
      BY <1>1, <1>2, <3>1 DEF Fates
    <3>5. \A id \in Ids : fate'[id] = "queued" <=> id \in Range(pending')
      BY <1>5, <3>3, <3>4
    <3> QED
      BY <3>3, <3>4, <3>5, Zenon
  <2>2. CASE Channel!AcceptForOldest(e)
    <3> DEFINE h == Head(pending)
    <3>1. /\ fate' = [fate EXCEPT ![e] = "queued", ![h] = "evicted"]
          /\ pending' = Append(Tail(pending), e) /\ Len(pending) = Capacity
      BY <2>2 DEF Channel!AcceptForOldest
    <3>2. pending # <<>>
      BY <3>1, DaemonAssumption, EmptySeq
    <3>3. /\ Tail(pending) \in Seq(Ids) /\ Increasing(Tail(pending)) /\ h \in Ids
          /\ Range(pending) = {h} \cup Range(Tail(pending))
          /\ \A x \in Range(Tail(pending)) : h < x
      BY <1>2, <3>2, IncreasingTail, IdsAreNumbers
    <3> HIDE DEF h
    <3>4. h # e /\ h \notin Range(Tail(pending)) /\ fate[h] = "queued"
      BY <1>2, <1>5, <3>3, IdsAreNumbers
    <3>5. \A id \in Range(Tail(pending)) : id < e
      BY <1>2, <1>4, <1>5, <1>7, <3>3
    <3> DEFINE t == Tail(pending)
    <3>6. /\ pending' \in Seq(Ids) /\ Increasing(pending')
          /\ Range(pending') = Range(t) \cup {e}
      <4>1. /\ pending' = Append(t, e) /\ t \in Seq(Ids) /\ Increasing(t)
            /\ \A id \in Range(t) : id < e
        BY <3>1, <3>3, <3>5
      <4> HIDE DEF t
      <4> QED
        BY <1>1, <4>1, IncreasingAppend, IdsAreNumbers
    <3>7. /\ fate' \in [Ids -> Fates] /\ fate'[e] = "queued" /\ fate'[h] = "evicted"
          /\ \A id \in Ids \ {e, h} : fate'[id] = fate[id]
      BY <1>1, <1>2, <3>1, <3>3, <3>4 DEF Fates
    <3>8. \A id \in Ids : fate'[id] = "queued" <=> id \in Range(pending')
      <4> TAKE id \in Ids
      <4>1. id \in Range(pending') <=> id \in Range(t) \/ id = e
        BY <3>6
      <4>2. id \in Range(pending) <=> id \in Range(t) \/ id = h
        BY <3>3
      <4>3. h \notin Range(t) /\ h # e
        BY <3>4
      <4> HIDE DEF t
      <4>4. CASE id = e
        BY <3>7, <4>1, <4>4
      <4>5. CASE id = h
        BY <3>7, <4>1, <4>3, <4>5
      <4>6. CASE id \notin {e, h}
        BY <1>5, <3>7, <4>1, <4>2, <4>6
      <4> QED
        BY <4>4, <4>5, <4>6
    <3>9. \A id \in Ids \ {e} :
            fate'[id] # fate[id] => fate[id] = "queued" /\ fate'[id] = "evicted"
      BY <3>4, <3>7
    <3> QED
      BY <3>6, <3>7, <3>8, <3>9, Zenon
  <2> QED
    BY <1>3, <2>1, <2>2
<1>9. \A id \in Ids : id \in Seen' <=> id \in Seen
  BY <1>2, <1>8 DEF Seen, Channel!Verdicts
<1>10. AlertsInAuditOrder'
  <2> SUFFICES ASSUME NEW i \in Ids, NEW j \in Ids, i < j, j \in Seen'
               PROVE  fate'[i] \notin {"offered", "queued"}
    BY DEF AlertsInAuditOrder
  <2>1. j \in Seen /\ fate[j] # "unborn" /\ j # e
    BY <1>2, <1>9 DEF Seen, Channel!Verdicts
  <2>2. i # e
    BY <1>1, <1>4, <2>1, IdsAreNumbers
  <2> QED
    BY <1>8, <2>1, <2>2 DEF OrderInv, AlertsInAuditOrder
<1>11. \A id \in Ids : fate'[id] # "unborn" => id < counter
  BY <1>1, <1>8, IdsAreNumbers DEF OrderInv
<1>12. \A id \in Ids : fate'[id] # "offered"
  BY <1>6, <1>8
<1> QED
  BY <1>1, <1>8, <1>10, <1>11, <1>12 DEF OrderInv

\* The worker takes the head, which is the earliest still waiting.
LEMMA TakeKeeps ==
  ASSUME OrderInv, Typed, Take
  PROVE  OrderInv'
<1> DEFINE h == Head(pending)
<1>1. /\ pending # <<>> /\ fate' = [fate EXCEPT ![h] = "taken"] /\ pending' = Tail(pending)
      /\ UNCHANGED <<counter, event, pc>>
  BY DEF Take, Channel!Take, vars, loopVars
<1>2. /\ Tail(pending) \in Seq(Ids) /\ Increasing(Tail(pending)) /\ h \in Ids
      /\ Range(pending) = {h} \cup Range(Tail(pending))
      /\ \A x \in Range(Tail(pending)) : h < x
  BY <1>1, IncreasingTail, IdsAreNumbers DEF OrderInv
<1> HIDE DEF h
<1>3. fate[h] = "queued" /\ h \notin Range(Tail(pending)) /\ h \in Int
  BY <1>2, IdsAreNumbers DEF OrderInv
<1>4. /\ fate' \in [Ids -> Fates] /\ fate'[h] = "taken"
      /\ \A id \in Ids \ {h} : fate'[id] = fate[id]
  BY <1>1, <1>2 DEF OrderInv, Fates
<1>5. \A id \in Ids : fate'[id] = "queued" <=> id \in Range(pending')
  BY <1>1, <1>2, <1>3, <1>4 DEF OrderInv
<1>6. AlertsInAuditOrder'
  <2> SUFFICES ASSUME NEW i \in Ids, NEW j \in Ids, i < j, j \in Seen',
                      fate'[i] \in {"offered", "queued"}
               PROVE  FALSE
    BY DEF AlertsInAuditOrder
  <2>1. i # h /\ fate[i] = fate'[i] /\ i \in Int /\ j \in Int
    BY <1>4, IdsAreNumbers
  <2>2. CASE j # h
    <3>1. j \in Seen
      BY <1>4, <2>2 DEF Seen
    <3> QED
      BY <2>1, <3>1 DEF OrderInv, AlertsInAuditOrder
  <2>3. CASE j = h /\ fate[i] = "queued"
    <3>1. i \in Range(Tail(pending))
      BY <1>2, <2>1, <2>3 DEF OrderInv
    <3> QED
      BY <1>2, <1>3, <2>1, <2>3, <3>1
  <2>4. CASE j = h /\ fate[i] = "offered"
    <3>1. i = event.id /\ h < counter /\ event.id = counter - 1 /\ counter \in Int
      BY <1>2, <1>3, <2>4 DEF OrderInv, Typed, ServiceTypeOK
    <3> QED
      BY <1>3, <2>1, <2>4, <3>1
  <2> QED
    BY <2>1, <2>2, <2>3, <2>4
<1>7. \A id \in Ids : fate'[id] # "unborn" => id < counter
  BY <1>2, <1>3, <1>4 DEF OrderInv
<1>8. \A id \in Ids : fate'[id] = "offered" => id = event.id /\ pc \in {"alert", "crashed"}
  BY <1>4 DEF OrderInv
<1> QED
  BY <1>1, <1>2, <1>4, <1>5, <1>6, <1>7, <1>8 DEF OrderInv

\* Settling an alert makes none wait.
LEMMA SettleKeeps ==
  ASSUME OrderInv, Settle
  PROVE  OrderInv'
<1>1. PICK id \in Ids : Channel!Settle(id)
  BY DEF Settle
<1>2. PICK v \in Channel!Verdicts : fate' = [fate EXCEPT ![id] = v]
  BY <1>1 DEF Channel!Settle
<1>3. fate[id] = "taken" /\ UNCHANGED <<counter, event, pc, pending>>
  BY <1>1 DEF Settle, Channel!Settle, vars, loopVars
<1>4. /\ fate' \in [Ids -> Fates] /\ fate'[id] = v
      /\ \A x \in Ids \ {id} : fate'[x] = fate[x]
  BY <1>2 DEF OrderInv, Fates
<1>5. fate'[id] \in Channel!Verdicts /\ fate'[id] \notin {"unborn", "offered", "queued"}
  BY <1>4 DEF Channel!Verdicts
<1>6. \A x \in Ids : x \in Seen' <=> x \in Seen
  BY <1>3, <1>4, <1>5 DEF Seen
<1>7. AlertsInAuditOrder'
  BY <1>4, <1>5, <1>6 DEF OrderInv, AlertsInAuditOrder
<1> QED
  BY <1>3, <1>4, <1>5, <1>7 DEF OrderInv

\* No step of the daemon lets an alert overtake another.
LEMMA OrderStep == OrderInv /\ ServiceInv /\ [DaemonNext]_daemonVars => OrderInv'
<1> SUFFICES ASSUME OrderInv, ServiceInv, [DaemonNext]_daemonVars PROVE OrderInv'
  OBVIOUS
<1>1. Typed
  BY DEF ServiceInv
<1>2. CASE Raise \/ Ignore
  BY <1>2, OfferKeeps
<1>3. CASE HandIn
  BY <1>3, HandInKeeps
<1>4. CASE WorkerStep
  BY <1>1, <1>4, TakeKeeps, SettleKeeps DEF WorkerStep
<1>5. CASE \/ HostStep /\ UNCHANGED channelVars
           \/ LoopOnly \/ WriteMeanwhile \/ Killed \/ Close \/ Finish
           \/ UNCHANGED daemonVars
  BY <1>1, <1>5, StepsBeside, BesideKeeps, StillKeeps
<1> QED
  BY <1>2, <1>3, <1>4, <1>5 DEF DaemonNext, MainStep

\* The alerts are in order in every reachable state.
LEMMA OrderInvHolds == DaemonSpec => []OrderInv
<1>1. DaemonInit => OrderInv
  BY OrderInvInit
<1>2. OrderInv /\ ServiceInv /\ [DaemonNext]_daemonVars => OrderInv'
  BY OrderStep
<1> QED
  BY <1>1, <1>2, DaemonAudits, PTL DEF DaemonSpec

-----------------------------------------------------------------------------
\* Alerts go out in the order of their audit lines, with a queue that overflows and
\* a worker that takes its time.
THEOREM AlertsInAuditOrderHolds == DaemonSpec => []AlertsInAuditOrder
<1>1. OrderInv => AlertsInAuditOrder
  BY DEF OrderInv
<1> QED
  BY <1>1, OrderInvHolds, PTL

\* An event has no alert before its line is logged.
InTurn == Settling => \A id \in Ids : fate[id] # "unborn" => id < counter - 1

\* Alerts are raised after their lines are logged, and the next event is a later one.
LEMMA InTurnStep ==
  ASSUME InTurn, OrderInv, ServiceInv, [DaemonNext]_daemonVars
  PROVE  InTurn'
<1> SUFFICES ASSUME Settling', NEW id \in Ids, fate'[id] # "unborn" PROVE id < counter' - 1
  BY DEF InTurn
<1>1. counter \in Int /\ id \in Int
  BY IdsAreNumbers DEF ServiceInv, Typed, ServiceTypeOK
<1>2. CASE Raise \/ Ignore \/ HandIn
  BY <1>2 DEF Raise, Ignore, HandIn, Alert, Settling, vars, loopVars
<1>3. CASE WorkerStep
  <2>1. Settling /\ counter' = counter
    BY <1>3 DEF WorkerStep, Take, Settle, Settling, vars, loopVars
  <2>2. ASSUME NEW other \in Ids, fate[other] # "unborn", NEW f,
               fate' = [fate EXCEPT ![other] = f]
        PROVE  fate[id] # "unborn"
    BY <2>2 DEF OrderInv
  <2>3. CASE Take
    <3> DEFINE h == Head(pending)
    <3>1. pending # <<>> /\ fate' = [fate EXCEPT ![h] = "taken"]
      BY <2>3 DEF Take, Channel!Take
    <3>2. h \in Ids /\ h \in Range(pending)
      BY <3>1, IncreasingTail, IdsAreNumbers DEF OrderInv
    <3>3. fate[h] # "unborn"
      BY <3>2 DEF OrderInv
    <3> HIDE DEF h
    <3> QED
      BY <2>1, <2>2, <3>1, <3>2, <3>3 DEF InTurn
  <2>4. CASE Settle
    <3>1. PICK other \in Ids : Channel!Settle(other)
      BY <2>4 DEF Settle
    <3>2. PICK v \in Channel!Verdicts : fate' = [fate EXCEPT ![other] = v]
      BY <3>1 DEF Channel!Settle
    <3>3. fate[other] # "unborn"
      BY <3>1 DEF Channel!Settle
    <3> QED
      BY <2>1, <2>2, <3>2, <3>3 DEF InTurn
  <2> QED
    BY <1>3, <2>3, <2>4 DEF WorkerStep
<1>4. CASE LoopOnly
  <2>1. fate[id] # "unborn" /\ LoopStep
    BY <1>4 DEF LoopOnly, channelVars
  <2>2. id < counter
    BY <2>1 DEF OrderInv
  <2>3. CASE ReadLine
    <3>1. counter' = counter + 1
      BY <2>3 DEF ReadLine, Settling
    <3> QED
      BY <1>1, <2>2, <3>1
  <2>4. CASE LookUp \/ Signal
    <3>1. Settling /\ counter' = counter
      BY <2>4 DEF LookUp, Signal, Settling
    <3> QED
      BY <2>1, <3>1 DEF InTurn
  <2>5. CASE Flush \/ WriteEarly \/ Log \/ Alert \/ EndOfInput
    BY <2>5 DEF Flush, WriteEarly, Log, Alert, EndOfInput, Settling
  <2> QED
    BY <2>1, <2>3, <2>4, <2>5 DEF LoopStep
<1>5. CASE \/ HostStep /\ UNCHANGED channelVars
           \/ WriteMeanwhile \/ Killed \/ Close \/ Finish \/ UNCHANGED daemonVars
  <2>1. fate' = fate /\ (pc' = "crashed" \/ UNCHANGED <<pc, counter>>)
    BY <1>5 DEF HostStep, Spawn, Exit, Report, Write, Noise, CloseInput, WriteMeanwhile,
       WriteEarly, Killed, Crash, Close, Finish, Channel!Close, Channel!Finish, daemonVars,
       channelVars, vars, loopVars
  <2> QED
    BY <2>1 DEF InTurn, Settling
<1> QED
  BY <1>2, <1>3, <1>4, <1>5 DEF DaemonNext, MainStep

\* An event whose line is not logged has no alert in any reachable state.
LEMMA InTurnHolds == DaemonSpec => []InTurn
<1>1. DaemonInit => InTurn
  BY DEF DaemonInit, Init, InTurn, Settling
<1>2. InTurn /\ OrderInv /\ ServiceInv /\ [DaemonNext]_daemonVars => InTurn'
  BY InTurnStep
<1> QED
  BY <1>1, <1>2, OrderInvHolds, DaemonAudits, PTL DEF DaemonSpec

\* An alert that the worker has taken has its audit line written, or is of the last event
\* read, whose line is the one that the stream holds or that a crash has lost.
THEOREM AlertsCorrelateHolds == DaemonSpec => []AlertsCorrelate
<1>1. OrderInv /\ ServiceInv /\ InTurn => AlertsCorrelate
  <2> SUFFICES ASSUME OrderInv, ServiceInv, InTurn, ~bad,
                      NEW id \in Seen, id \notin IdsOf(audit)
               PROVE  id = counter - 1 /\ (pc = "crashed" \/ id \in IdsOf(buffer))
    BY DEF AlertsCorrelate
  <2>1. /\ fate[id] # "unborn" /\ id < counter
        /\ id \in Nat /\ counter \in Nat
    <3>1. id \in Ids /\ fate[id] # "unborn"
      BY DEF Seen, Channel!Verdicts
    <3> QED
      BY <3>1, ServiceAssumption DEF OrderInv, Ids, ServiceInv, Typed, ServiceTypeOK
  <2>2. id = counter - 1
    <3>1. id \notin 0..(counter - 2)
      BY DEF ServiceInv, KillsAudited
    <3> QED
      BY <2>1, <3>1
  <2>3. ASSUME pc # "crashed" PROVE id \in IdsOf(buffer)
    <3>1. ~Settling
      BY <2>1, <2>2 DEF InTurn, Seen
    <3>2. Len(Logged) = counter /\ \A i \in DOMAIN Logged : Logged[i].id = i - 1
      BY <2>3, <3>1 DEF ServiceInv, AuditInOrder
    <3>3. /\ audit \in Seq(LogLines) /\ buffer \in Seq(LogLines)
          /\ Logged \in Seq(LogLines) /\ Len(Logged) = Len(audit) + Len(buffer)
      BY ConcatProperties DEF ServiceInv, Typed, Logged
    <3>4. Logged[counter].id = id
      <4>1. counter \in DOMAIN Logged
        BY <2>1, <3>2, <3>3, LenProperties
      <4> QED
        BY <2>2, <3>2, <4>1
    <3>5. CASE counter \in 1..Len(audit)
      <4>1. Logged[counter] = audit[counter] /\ counter \in DOMAIN audit
        BY <3>3, <3>5, ConcatProperties, LenProperties DEF Logged
      <4> QED
        BY <3>4, <4>1 DEF IdsOf
    <3>6. CASE counter \notin 1..Len(audit)
      <4>1. /\ Logged[counter] = buffer[counter - Len(audit)]
            /\ counter - Len(audit) \in DOMAIN buffer
        BY <2>1, <3>2, <3>3, <3>6, ConcatProperties, LenProperties DEF Logged
      <4> QED
        BY <3>4, <4>1 DEF IdsOf
    <3> QED
      BY <3>5, <3>6
  <2> QED
    BY <2>2, <2>3
<1> QED
  BY <1>1, OrderInvHolds, DaemonAudits, InTurnHolds, PTL

-----------------------------------------------------------------------------
(***************************************************************************)
(* What becomes of every denial                                            *)
(***************************************************************************)
Later(id) == {j \in Ids : j > id /\ fate[j] # "unborn"}

\* What the loop has raised is past the door, and kept out only for its severity.
Raised ==
  \A n \in DOMAIN alerts :
    /\ alerts[n].id \in Ids /\ fate[alerts[n].id] \notin {"unborn", "offered"}
    /\ fate[alerts[n].id] = "filtered" => alerts[n].severity \in Quiet

\* What gave way did so to as many later alerts as the queue holds.
GaveWay == \A id \in Ids : fate[id] = "evicted" => Cardinality(Later(id)) >= Capacity

\* Main closes the dispatcher when the loop is done, and leaves when it is empty.
Closes ==
  /\ phase # "open" => pc \in {"done", "crashed"}
  /\ phase = "gone" => pc = "done" /\ pending = <<>> /\ \A id \in Ids : fate[id] # "taken"

AlertsInv == OrderInv /\ Raised /\ GaveWay /\ Closes

\* There are only so many alerts.
LEMMA IdsFinite == IsFiniteSet(Ids)
<1>1. 0 \in Int /\ MaxLines - 1 \in Int
  BY ServiceAssumption DEF ServiceAssumption
<1> QED
  BY <1>1, FS_Interval DEF Ids

\* As many different alerts as a queue in order is long.
LEMMA AtLeastAsMany ==
  ASSUME NEW T, T \subseteq Ids, NEW s \in Seq(Ids), Increasing(s), Range(s) \subseteq T
  PROVE  Cardinality(T) >= Len(s)
<1>1. IsFiniteSet(T)
  BY IdsFinite, FS_Subset
<1>2. Len(s) \in Nat /\ DOMAIN s = 1..Len(s) /\ \A i \in 1..Len(s) : s[i] \in Ids
  BY LenProperties, ElementOfSeq
<1>3. s \in Injection(1..Len(s), T)
  <2>1. \A i \in 1..Len(s) : s[i] \in T
    BY <1>2 DEF Range
  <2>2. s \in [1..Len(s) -> T]
    BY <1>2, <2>1
  <2>3. ASSUME NEW i \in 1..Len(s), NEW j \in 1..Len(s), s[i] = s[j] PROVE i = j
    <3>1. s[i] \in Int /\ s[j] \in Int
      BY <1>2, IdsAreNumbers
    <3>2. ~(i < j) /\ ~(j < i)
      BY <1>2, <2>3, <3>1 DEF Increasing
    <3> QED
      BY <1>2, <3>2
  <2> QED
    BY <2>2, <2>3 DEF Injection, IsInjective
<1>4. Cardinality(1..Len(s)) <= Cardinality(T)
  BY <1>1, <1>3, FS_Injection
<1>5. Cardinality(1..Len(s)) = Len(s) /\ Cardinality(T) \in Nat
  <2>1. 1 \in Int /\ Len(s) \in Int
    BY <1>2
  <2>2. Cardinality(1..Len(s)) = IF 1 > Len(s) THEN 0 ELSE Len(s) - 1 + 1
    BY <2>1, FS_Interval
  <2> QED
    BY <1>1, <1>2, <2>2, FS_CardinalityType
<1> QED
  BY <1>2, <1>4, <1>5

\* What was later than an alert stays so: no alert is unmade.
LEMMA GaveWayStays ==
  ASSUME GaveWay, \A j \in Ids : fate[j] # "unborn" => fate'[j] # "unborn",
         \A j \in Ids : fate'[j] = "evicted" =>
           fate[j] = "evicted" \/ Cardinality(Later(j)') >= Capacity
  PROVE  GaveWay'
<1> SUFFICES ASSUME NEW id \in Ids, fate'[id] = "evicted"
             PROVE  Cardinality(Later(id)') >= Capacity
  BY DEF GaveWay
<1>1. CASE fate[id] = "evicted"
  <2>1. Later(id) \subseteq Later(id)' /\ Later(id)' \subseteq Ids
    BY DEF Later
  <2>2. IsFiniteSet(Later(id)')
    BY <2>1, IdsFinite, FS_Subset
  <2>3. Cardinality(Later(id)) <= Cardinality(Later(id)')
    BY <2>1, <2>2, FS_Subset
  <2>4. Cardinality(Later(id)) \in Nat /\ Cardinality(Later(id)') \in Nat
    BY <2>1, <2>2, FS_Subset, FS_CardinalityType
  <2>5. Cardinality(Later(id)) >= Capacity
    BY <1>1 DEF GaveWay
  <2> QED
    BY <2>3, <2>4, <2>5, DaemonAssumption DEF DaemonAssumption
<1> QED
  BY <1>1

\* Such steps concern neither the alerts raised nor what has become of them.
LEMMA BesideRaises ==
  ASSUME \/ HostStep /\ UNCHANGED channelVars
         \/ LoopOnly \/ WriteMeanwhile \/ Killed \/ Close \/ Finish
         \/ UNCHANGED daemonVars
  PROVE  UNCHANGED <<alerts, fate>>
<1>1. CASE HostStep /\ UNCHANGED channelVars
  BY <1>1 DEF HostStep, Spawn, Exit, Report, Write, Noise, CloseInput, loopVars, channelVars
<1>2. CASE LoopOnly
  BY <1>2 DEF LoopOnly, LoopStep, Flush, WriteEarly, ReadLine, LookUp, Signal, Log,
              Alert, EndOfInput, channelVars
<1>3. CASE WriteMeanwhile \/ Killed
  BY <1>3 DEF WriteMeanwhile, WriteEarly, Killed, Crash, channelVars
<1>4. CASE Close \/ Finish
  BY <1>4 DEF Close, Finish, Channel!Close, Channel!Finish, vars, loopVars
<1>5. CASE UNCHANGED daemonVars
  BY <1>5 DEF daemonVars, vars, loopVars, channelVars
<1> QED
  BY <1>1, <1>2, <1>3, <1>4, <1>5

\* Such steps keep both.
LEMMA StillRaised ==
  ASSUME Raised, GaveWay, UNCHANGED <<alerts, fate>>
  PROVE  Raised' /\ GaveWay'
BY DEF Raised, GaveWay, Later

\* An alert raised is not yet one of those the loop is done with.
LEMMA RaiseRaises ==
  ASSUME AlertsInv, ServiceInv, Raise
  PROVE  Raised' /\ GaveWay'
<1> DEFINE e == event.id
<1>1. e \in Ids /\ fate[e] = "unborn" /\ alerts' = alerts
  BY EventIsAlert DEF Raise, Channel!Offer, vars, loopVars
<1>2. PICK f \in {"filtered", "offered"} : fate' = [fate EXCEPT ![e] = f]
  BY DEF Raise, Channel!Offer
<1> HIDE DEF e
<1>3. fate'[e] # "unborn" /\ fate'[e] # "evicted" /\ \A id \in Ids \ {e} : fate'[id] = fate[id]
  BY <1>1, <1>2 DEF AlertsInv, OrderInv
<1>4. Raised'
  BY <1>1, <1>3 DEF AlertsInv, Raised
<1>5. GaveWay'
  BY <1>1, <1>3, GaveWayStays DEF AlertsInv
<1> QED
  BY <1>4, <1>5

\* The step that ends dispatch adds one alert, with the severity of the event.
LEMMA RaisedOn ==
  ASSUME Raised, AlertsInTurn, event.id \in Ids, Alert,
         \A id \in Ids : fate[id] \notin {"unborn", "offered"} =>
           /\ fate'[id] \notin {"unborn", "offered"}
           /\ fate'[id] = "filtered" => fate[id] = "filtered",
         fate'[event.id] \notin {"unborn", "offered"},
         fate'[event.id] = "filtered" => Severity \in Quiet
  PROVE  Raised'
<1> DEFINE new == [id |-> event.id, severity |-> Severity, exe |-> AlertJsonEscape(event.exe)]
<1>1. new.id = event.id /\ new.severity = Severity
  OBVIOUS
<1>2. alerts' = Append(alerts, new)
  BY DEF Alert
<1> HIDE DEF new
<1>3. /\ Len(alerts) \in Nat /\ DOMAIN alerts = 1..Len(alerts)
      /\ DOMAIN alerts' = 1..(Len(alerts) + 1)
      /\ alerts'[Len(alerts) + 1] = new /\ \A n \in 1..Len(alerts) : alerts'[n] = alerts[n]
  <2>1. alerts \in Seq(AlertRecords \cup {new}) /\ alerts \in Seq(AlertRecords)
    BY DEF AlertsInTurn
  <2> QED
    BY <1>2, <2>1, AppendProperties, LenProperties
<1>4. ASSUME NEW n \in DOMAIN alerts'
      PROVE  /\ alerts'[n].id \in Ids /\ fate'[alerts'[n].id] \notin {"unborn", "offered"}
             /\ fate'[alerts'[n].id] = "filtered" => alerts'[n].severity \in Quiet
  <2>1. CASE n = Len(alerts) + 1
    BY <1>1, <1>3, <2>1
  <2>2. CASE n # Len(alerts) + 1
    <3>1. n \in DOMAIN alerts /\ alerts'[n] = alerts[n]
      BY <1>3, <2>2
    <3> QED
      BY <3>1 DEF Raised
  <2> QED
    BY <2>1, <2>2
<1> QED
  BY <1>4 DEF Raised

\* An alert that is not severe enough is raised and kept out in one step.
LEMMA IgnoreRaises ==
  ASSUME AlertsInv, ServiceInv, AlertsInTurn, Ignore
  PROVE  Raised' /\ GaveWay'
<1> DEFINE e == event.id
<1>1. /\ e \in Ids /\ fate[e] = "unborn" /\ fate'[e] = "filtered" /\ Alert
      /\ Severity \in Quiet
  BY EventIsAlert DEF Ignore, Channel!Offer
<1>2. PICK f \in {"filtered", "offered"} : fate' = [fate EXCEPT ![e] = f]
  BY DEF Ignore, Channel!Offer
<1>3. \A id \in Ids \ {e} : fate'[id] = fate[id]
  <2> HIDE DEF e
  <2> QED
    BY <1>1, <1>2 DEF AlertsInv, OrderInv
<1>4. Raised'
  <2>1. \A id \in Ids : fate[id] \notin {"unborn", "offered"} =>
          /\ fate'[id] \notin {"unborn", "offered"}
          /\ fate'[id] = "filtered" => fate[id] = "filtered"
    BY <1>1, <1>3
  <2> QED
    BY <1>1, <2>1, RaisedOn DEF AlertsInv
<1>5. GaveWay'
  <2> HIDE DEF e
  <2>1. /\ \A j \in Ids : fate[j] # "unborn" => fate'[j] # "unborn"
        /\ \A j \in Ids : fate'[j] = "evicted" => fate[j] = "evicted"
    BY <1>1, <1>3
  <2> QED
    BY <2>1, GaveWayStays DEF AlertsInv
<1> QED
  BY <1>4, <1>5

\* The alert handed in joins the queue; what gives way for it has a queue full of later
\* ones, the one handed in among them.
LEMMA HandInRaises ==
  ASSUME AlertsInv, ServiceInv, AlertsInTurn, HandIn
  PROVE  Raised' /\ GaveWay'
<1> DEFINE e == event.id
<1> PICK h : h = Head(pending)
  OBVIOUS
<1>1. e \in Ids /\ fate[e] = "offered" /\ Alert /\ e = counter - 1 /\ counter \in Int
  BY EventIsAlert DEF HandIn, Channel!Accept, Channel!AcceptForOldest, ServiceInv, Typed,
     ServiceTypeOK
<1>2. OrderInv /\ OrderInv' /\ fate \in [Ids -> Fates] /\ pending \in Seq(Ids)
  BY HandInKeeps DEF AlertsInv, OrderInv
<1>3. Channel!Accept(e) \/ Channel!AcceptForOldest(e)
  BY DEF HandIn
<1> HIDE DEF e
<1>4. CASE Channel!Accept(e)
  <2>1. fate' = [fate EXCEPT ![e] = "queued"]
    BY <1>4 DEF Channel!Accept
  <2>2. fate'[e] = "queued" /\ \A id \in Ids \ {e} : fate'[id] = fate[id]
    BY <1>1, <1>2, <2>1
  <2>3. Raised'
    BY <1>1, <2>2, RaisedOn DEF AlertsInv, e
  <2>4. GaveWay'
    BY <1>1, <2>2, GaveWayStays DEF AlertsInv
  <2> QED
    BY <2>3, <2>4
<1>5. CASE Channel!AcceptForOldest(e)
  <2>1. /\ fate' = [fate EXCEPT ![e] = "queued", ![h] = "evicted"]
        /\ pending' = Append(Tail(pending), e) /\ Len(pending) = Capacity
    BY <1>5 DEF Channel!AcceptForOldest
  <2>2. pending # <<>>
    BY <2>1, DaemonAssumption, EmptySeq
  <2>3. /\ Tail(pending) \in Seq(Ids) /\ h \in Ids /\ Increasing(Tail(pending))
        /\ Range(pending) = {h} \cup Range(Tail(pending))
        /\ \A x \in Range(Tail(pending)) : h < x
    BY <1>2, <2>2, IncreasingTail, IdsAreNumbers DEF OrderInv
  <2>4. fate[h] = "queued" /\ h # e /\ h < e
    <3>1. fate[h] = "queued"
      BY <1>2, <2>3 DEF OrderInv
    <3>2. h < counter /\ h \in Int
      BY <2>3, <3>1, IdsAreNumbers, <1>2 DEF OrderInv
    <3> QED
      BY <1>1, <3>1, <3>2
  <2>5. /\ fate'[e] = "queued" /\ fate'[h] = "evicted"
        /\ \A id \in Ids \ {e, h} : fate'[id] = fate[id]
    BY <1>1, <1>2, <2>1, <2>3, <2>4
  <2>6. Raised'
    BY <1>1, <2>4, <2>5, RaisedOn DEF AlertsInv, e
  <2>7. Cardinality(Later(h)') >= Capacity
    <3>1. /\ pending' \in Seq(Ids) /\ Increasing(pending')
          /\ \A id \in Ids : fate'[id] = "queued" <=> id \in Range(pending')
      BY <1>2 DEF OrderInv
    <3>2. Range(pending') \subseteq Ids
      BY <3>1, LenProperties, ElementOfSeq DEF Range
    <3>3. \A x \in Range(pending') : x = e \/ x \in Range(Tail(pending))
      <4>1. /\ Len(Tail(pending)) \in Nat /\ DOMAIN Tail(pending) = 1..Len(Tail(pending))
            /\ DOMAIN pending' = 1..(Len(Tail(pending)) + 1)
            /\ pending'[Len(Tail(pending)) + 1] = e
            /\ \A i \in 1..Len(Tail(pending)) : pending'[i] = Tail(pending)[i]
        BY <1>1, <2>1, <2>3, AppendProperties, LenProperties
      <4> DEFINE t == Tail(pending)
      <4> HIDE DEF t
      <4>2. ASSUME NEW i \in DOMAIN pending' PROVE pending'[i] = e \/ pending'[i] \in Range(t)
        <5>1. CASE i = Len(t) + 1
          BY <4>1, <5>1 DEF t
        <5>2. CASE i # Len(t) + 1
          <6>1. i \in DOMAIN t /\ pending'[i] = t[i]
            BY <4>1, <5>2 DEF t
          <6> QED
            BY <6>1 DEF Range
        <5> QED
          BY <5>1, <5>2
      <4> QED
        BY <4>2 DEF Range, t
    <3>4. Range(pending') \subseteq Later(h)'
      <4>1. \A x \in Range(pending') : x \in Ids /\ h < x /\ fate'[x] # "unborn"
        BY <2>3, <2>4, <3>1, <3>2, <3>3
      <4>2. \A x \in Ids : h < x => x > h
        BY <2>3, IdsAreNumbers
      <4> QED
        BY <4>1, <4>2 DEF Later
    <3>5. Len(pending') = Capacity
      <4>1. Len(Tail(pending)) = Len(pending) - 1 /\ Len(pending) \in Nat
        BY <1>2, <2>2, HeadTailProperties, LenProperties
      <4>2. Len(pending') = Len(Tail(pending)) + 1
        BY <1>1, <2>1, <2>3, AppendProperties
      <4> QED
        BY <2>1, <4>1, <4>2
    <3>6. Later(h)' \subseteq Ids
      BY DEF Later
    <3> QED
      BY <3>1, <3>4, <3>5, <3>6, AtLeastAsMany
  <2>8. GaveWay'
    <3>1. \A j \in Ids : fate[j] # "unborn" => fate'[j] # "unborn"
      BY <2>5
    <3>2. ASSUME NEW j \in Ids, fate'[j] = "evicted"
          PROVE  fate[j] = "evicted" \/ Cardinality(Later(j)') >= Capacity
      <4>1. CASE j = h
        BY <2>7, <4>1, Zenon
      <4>2. CASE j # h
        BY <2>5, <3>2, <4>2
      <4> QED
        BY <4>1, <4>2
    <3> QED
      BY <3>1, <3>2, GaveWayStays DEF AlertsInv
  <2> QED
    BY <2>6, <2>8
<1> QED
  BY <1>3, <1>4, <1>5

\* The worker neither keeps an alert out nor gives it up.
LEMMA WorkerRaises ==
  ASSUME AlertsInv, WorkerStep
  PROVE  Raised' /\ GaveWay'
<1>1. ASSUME NEW id \in Ids, fate[id] \notin {"unborn", "offered"}, NEW f,
             f \notin {"unborn", "offered", "filtered", "evicted"},
             fate' = [fate EXCEPT ![id] = f], alerts' = alerts
      PROVE  Raised' /\ GaveWay'
  <2>1. fate'[id] = f /\ \A j \in Ids \ {id} : fate'[j] = fate[j]
    BY <1>1 DEF AlertsInv, OrderInv
  <2>2. Raised'
    BY <1>1, <2>1 DEF AlertsInv, Raised
  <2>3. GaveWay'
    BY <1>1, <2>1, GaveWayStays DEF AlertsInv
  <2> QED
    BY <2>2, <2>3
<1>2. CASE Take
  <2> DEFINE h == Head(pending)
  <2>1. /\ pending # <<>> /\ fate' = [fate EXCEPT ![h] = "taken"] /\ alerts' = alerts
    BY <1>2 DEF Take, Channel!Take, vars, loopVars
  <2>2. h \in Ids /\ h \in Range(pending)
    BY <2>1, IncreasingTail, IdsAreNumbers DEF AlertsInv, OrderInv
  <2>3. fate[h] = "queued"
    BY <2>2 DEF AlertsInv, OrderInv
  <2> HIDE DEF h
  <2> QED
    BY <1>1, <2>1, <2>2, <2>3
<1>3. CASE Settle
  <2>1. PICK id \in Ids : Channel!Settle(id)
    BY <1>3 DEF Settle
  <2>2. PICK v \in Channel!Verdicts : fate' = [fate EXCEPT ![id] = v]
    BY <2>1 DEF Channel!Settle
  <2>3. fate[id] = "taken" /\ alerts' = alerts
    BY <1>3, <2>1 DEF Settle, Channel!Settle, vars, loopVars
  <2>4. v \notin {"unborn", "offered", "filtered", "evicted"}
    BY DEF Channel!Verdicts
  <2> QED
    BY <1>1, <2>2, <2>3, <2>4
<1> QED
  BY <1>2, <1>3 DEF WorkerStep

\* Once the dispatcher is closed the loop is over, and nothing is handed in.
LEMMA ClosesStep ==
  ASSUME Closes, [DaemonNext]_daemonVars
  PROVE  Closes'
<1>1. CASE HostStep /\ UNCHANGED channelVars
  BY <1>1 DEF HostStep, Spawn, Exit, Report, Write, Noise, CloseInput, loopVars, channelVars,
              Closes
<1>2. CASE LoopOnly
  BY <1>2 DEF LoopOnly, LoopStep, Flush, WriteEarly, ReadLine, LookUp, Signal, Log, Alert,
              EndOfInput, channelVars, Closes
<1>3. CASE WriteMeanwhile
  BY <1>3 DEF WriteMeanwhile, WriteEarly, channelVars, Closes
<1>4. CASE Raise \/ Ignore
  BY <1>4 DEF Raise, Ignore, Channel!Offer, Closes
<1>5. CASE HandIn
  BY <1>5 DEF HandIn, Channel!Accept, Channel!AcceptForOldest, Closes
<1>6. CASE Take
  BY <1>6 DEF Take, Channel!Take, vars, loopVars, Closes
<1>7. CASE Settle
  BY <1>7 DEF Settle, Channel!Settle, vars, loopVars, Closes
<1>8. CASE Close \/ Finish
  BY <1>8 DEF Close, Finish, Up, Channel!Close, Channel!Finish, vars, loopVars, Closes
<1>9. CASE Killed
  BY <1>9 DEF Killed, Crash, channelVars, Closes
<1>10. CASE UNCHANGED daemonVars
  BY <1>10 DEF daemonVars, vars, loopVars, channelVars, Closes
<1> QED
  BY <1>1, <1>2, <1>3, <1>4, <1>5, <1>6, <1>7, <1>8, <1>9, <1>10
     DEF DaemonNext, MainStep, WorkerStep

\* One step per action of the daemon.
LEMMA AlertsInvStep == AlertsInv /\ AlertInv /\ [DaemonNext]_daemonVars => AlertsInv'
<1> SUFFICES ASSUME AlertsInv, AlertInv, [DaemonNext]_daemonVars PROVE AlertsInv'
  OBVIOUS
<1>1. ServiceInv /\ AlertsInTurn
  BY DEF AlertInv, TrueInv
<1>2. OrderInv' /\ Closes'
  BY <1>1, OrderStep, ClosesStep DEF AlertsInv
<1>3. Raised' /\ GaveWay'
  <2>1. CASE Raise
    BY <1>1, <2>1, RaiseRaises
  <2>2. CASE Ignore
    BY <1>1, <2>2, IgnoreRaises
  <2>3. CASE HandIn
    BY <1>1, <2>3, HandInRaises
  <2>4. CASE WorkerStep
    BY <2>4, WorkerRaises
  <2>5. CASE \/ HostStep /\ UNCHANGED channelVars
             \/ LoopOnly \/ WriteMeanwhile \/ Killed \/ Close \/ Finish
             \/ UNCHANGED daemonVars
    BY <2>5, BesideRaises, StillRaised DEF AlertsInv
  <2> QED
    BY <2>1, <2>2, <2>3, <2>4, <2>5 DEF DaemonNext, MainStep
<1> QED
  BY <1>2, <1>3 DEF AlertsInv

\* What was raised is accounted for in every reachable state.
LEMMA AlertsInvHolds == DaemonSpec => []AlertsInv
<1>1. DaemonInit => AlertsInv
  <2> SUFFICES ASSUME DaemonInit PROVE AlertsInv
    OBVIOUS
  <2>1. alerts = <<>> /\ fate = [id \in Ids |-> "unborn"] /\ phase = "open"
    BY DEF DaemonInit, Init, Channel!Init
  <2>2. Raised
    BY <2>1, EmptySeq DEF Raised
  <2>3. GaveWay
    BY <2>1 DEF GaveWay
  <2>4. Closes
    BY <2>1 DEF Closes
  <2> QED
    BY <2>2, <2>3, <2>4, OrderInvInit DEF AlertsInv
<1>2. AlertsInv /\ AlertInv /\ [DaemonNext]_daemonVars => AlertsInv'
  BY AlertsInvStep
<1>3. DaemonSpec => []AlertInv
  BY DaemonHasService, AlertInvHolds, PTL
<1> QED
  BY <1>1, <1>2, <1>3, PTL DEF DaemonSpec

\* AlertDispatcher under Service::run: when the daemon has ended, every denial in the
\* audit trail has had its alert settled, kept out for its severity, or given up for
\* as many later ones as the queue holds.
THEOREM NothingForgottenHolds == DaemonSpec => []NothingForgotten
<1>1. AlertsInv /\ ServiceInv /\ DenialsAlerted => NothingForgotten
  <2> SUFFICES ASSUME AlertsInv, ServiceInv, DenialsAlerted, phase = "gone", ~bad, Alerting,
                      NEW i \in DOMAIN audit, audit[i].denied
               PROVE  \/ audit[i].id \in Settled
                      \/ fate[audit[i].id] = "filtered" /\ audit[i].severity \in Quiet
                      \/ /\ fate[audit[i].id] = "evicted"
                         /\ Cardinality({id \in Ids : id > audit[i].id /\ fate[id] # "unborn"})
                              >= Capacity
    BY DEF NothingForgotten
  <2>1. pc = "done" /\ pending = <<>> /\ \A id \in Ids : fate[id] # "taken"
    BY DEF AlertsInv, Closes
  <2>2. i \in DOMAIN Logged /\ Logged[i] = audit[i]
    <3>1. audit \in Seq(LogLines) /\ buffer \in Seq(LogLines)
      BY DEF ServiceInv, Typed
    <3>2. i \in 1..Len(audit) /\ Len(audit) \in Nat /\ Len(buffer) \in Nat
      BY <3>1, LenProperties
    <3> QED
      BY <3>1, <3>2, ConcatProperties, LenProperties DEF Logged
  <2>3. PICK n \in DOMAIN alerts : alerts[n] = AlertOf(audit[i])
    BY <2>1, <2>2 DEF DenialsAlerted
  <2>4. alerts[n].id = audit[i].id /\ alerts[n].severity = audit[i].severity
    BY <2>3 DEF AlertOf
  <2> DEFINE d == audit[i].id
  <2>5. /\ d \in Ids /\ fate[d] \notin {"unborn", "offered"}
        /\ fate[d] = "filtered" => audit[i].severity \in Quiet
    BY <2>4 DEF AlertsInv, Raised
  <2> HIDE DEF d
  <2>6. fate[d] \in {"filtered", "evicted"} \cup Channel!Verdicts
    <3>1. fate[d] # "queued"
      <4>1. Range(pending) = {}
        BY <2>1, EmptySeq DEF Range
      <4> QED
        BY <2>5, <4>1 DEF AlertsInv, OrderInv
    <3> QED
      BY <2>1, <2>5, <3>1 DEF AlertsInv, OrderInv, Fates
  <2>7. fate[d] = "evicted" => Cardinality(Later(d)) >= Capacity
    BY <2>5 DEF AlertsInv, GaveWay
  <2> QED
    BY <2>5, <2>6, <2>7 DEF d, Settled, Later
<1>2. DaemonSpec => []DenialsAlerted
  BY DaemonHasService, DenialsAlertedHolds, PTL
<1> QED
  BY <1>1, <1>2, AlertsInvHolds, DaemonAudits, PTL

=============================================================================
