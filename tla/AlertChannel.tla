----------------------------- MODULE AlertChannel -----------------------------
(***************************************************************************)
(* What the alert dispatcher promises the code that calls it, whatever its *)
(* threads do: a lossy first-in first-out channel.  It holds at most       *)
(* Capacity alerts and makes room by giving up the oldest; one alert at a  *)
(* time is taken out, in order, and settled; once it is closed it settles  *)
(* all it still holds before it is gone.                                   *)
(***************************************************************************)
EXTENDS Integers, Sequences

CONSTANTS
  Ids,      (* the alerts there may be                                      *)
  Capacity  (* how many are held at most, at least one                     *)

VARIABLES
  fate,     (* what has become of every alert                              *)
  pending,  (* the alerts held, oldest first                               *)
  phase     (* "open", "closing" or "gone"                                 *)

channelVars == <<fate, pending, phase>>

Verdicts == {"rate_limited", "duplicate", "delivered", "failed", "unsent"}

Init ==
  /\ fate = [id \in Ids |-> "unborn"]
  /\ pending = <<>>
  /\ phase = "open"

\* An alert is raised; one below the severity threshold goes no further.
Offer(id) ==
  /\ phase = "open"
  /\ fate[id] = "unborn"
  /\ \E f \in {"filtered", "offered"} : fate' = [fate EXCEPT ![id] = f]
  /\ UNCHANGED <<pending, phase>>

Accept(id) ==
  /\ fate[id] = "offered"
  /\ Len(pending) < Capacity
  /\ fate' = [fate EXCEPT ![id] = "queued"]
  /\ pending' = Append(pending, id)
  /\ UNCHANGED phase

AcceptForOldest(id) ==
  /\ fate[id] = "offered"
  /\ Len(pending) = Capacity
  /\ fate' = [fate EXCEPT ![id] = "queued", ![Head(pending)] = "evicted"]
  /\ pending' = Append(Tail(pending), id)
  /\ UNCHANGED phase

Take ==
  /\ pending # <<>>
  /\ \A id \in Ids : fate[id] # "taken"
  /\ fate' = [fate EXCEPT ![Head(pending)] = "taken"]
  /\ pending' = Tail(pending)
  /\ UNCHANGED phase

Settle(id) ==
  /\ fate[id] = "taken"
  /\ \E v \in Verdicts : fate' = [fate EXCEPT ![id] = v]
  /\ UNCHANGED <<pending, phase>>

\* Closing waits for the alerts that are being handed in.
Close ==
  /\ phase = "open"
  /\ \A id \in Ids : fate[id] # "offered"
  /\ phase' = "closing"
  /\ UNCHANGED <<fate, pending>>

Finish ==
  /\ phase = "closing"
  /\ pending = <<>>
  /\ \A id \in Ids : fate[id] # "taken"
  /\ phase' = "gone"
  /\ UNCHANGED <<fate, pending>>

Next ==
  \/ \E id \in Ids : Offer(id) \/ Accept(id) \/ AcceptForOldest(id) \/ Settle(id)
  \/ Take \/ Close \/ Finish

Spec == Init /\ [][Next]_channelVars

=============================================================================
