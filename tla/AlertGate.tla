------------------------------ MODULE AlertGate ------------------------------
(***************************************************************************)
(* The send gate of the alert dispatcher: AlertDispatcher::should_send in  *)
(* src/alert_dispatcher.cpp.  The worker thread asks it, once per alert,   *)
(* whether the alert goes out to the webhook.  It keeps a token bucket,    *)
(* refilled by the steady clock, and a map from exe:severity to the wall   *)
(* clock time of the last alert let through.                               *)
(*                                                                         *)
(* The two clocks are the environment's.  std::chrono::steady_clock only   *)
(* ever advances; std::chrono::system_clock advances with it but may also  *)
(* be stepped, forwards or backwards, by an administrator or by NTP.       *)
(***************************************************************************)
EXTENDS Integers, Sequences

CONSTANTS
  Keys,          (* deduplication keys: evt.exe + ":" + evt.severity        *)
  RateLimit,     (* cfg_.rate_limit_per_minute                             *)
  DedupeWindow,  (* cfg_.dedupe_window_sec                                 *)
  Second,        (* clock ticks in a second                                *)
  Minute,        (* clock ticks in a minute                                *)
  WallSteps,     (* amounts by which the wall clock may be stepped         *)
  MaxTime,       (* bound: ticks of the steady clock that are explored     *)
  MaxWall        (* bound: wall clock times a step may lead to             *)

\* parse_config admits a rate limit of at least 1 and a window of at least 0
\* (src/config.cpp, lines 169-184).
ASSUME GateAssumption ==
  /\ RateLimit \in Nat \ {0}
  /\ DedupeWindow \in Nat
  /\ Second \in Nat \ {0}
  /\ Minute \in Nat \ {0}
  /\ WallSteps \subseteq Int
  /\ MaxTime \in Nat
  /\ MaxWall \in Nat

VARIABLES
  tokens,      (* tokens_                                                  *)
  lastRefill,  (* last_refill_                                             *)
  dedupe,      (* dedupe_map_: a function whose domain is the marked keys  *)
  steady,      (* steady_clock::now()                                      *)
  wall,        (* system_clock::now()                                      *)
  sends        (* history: the alerts let through, in order                *)

gateVars == <<tokens, lastRefill, dedupe, steady, wall, sends>>

-----------------------------------------------------------------------------
\* duration_cast truncates towards zero, for negative durations too.
Truncated(ticks, unit) ==
  IF ticks >= 0 THEN ticks \div unit ELSE -((-ticks) \div unit)

Elapsed == steady - lastRefill
RefillDue == Elapsed >= Minute

RefilledTokens_Accumulates == IF RefillDue THEN tokens + RateLimit ELSE tokens
RefilledTokens == IF RefillDue THEN RateLimit ELSE tokens

\* last_refill_ moves by whole minutes, so refills stay on the grid of minutes
\* counted from the construction of the dispatcher.
RealignedRefill_Stale == lastRefill
RealignedRefill ==
  IF RefillDue THEN lastRefill + (Elapsed \div Minute) * Minute ELSE lastRefill

AgeSec(key) == Truncated(wall - dedupe[key], Second)

Duplicate_WholeWindow(key) == key \in DOMAIN dedupe /\ AgeSec(key) + 1 < DedupeWindow
Duplicate(key) == key \in DOMAIN dedupe /\ AgeSec(key) < DedupeWindow

Marked(key) == [k \in DOMAIN dedupe \cup {key} |-> IF k = key THEN wall ELSE dedupe[k]]

\* The three ways out of should_send.  The refill happens on each of them.
RateLimited_MarksFirst(key) ==
  /\ RefilledTokens <= 0
  /\ tokens' = RefilledTokens
  /\ lastRefill' = RealignedRefill
  /\ dedupe' = Marked(key)
  /\ UNCHANGED <<steady, wall, sends>>

RateLimited(key) ==
  /\ RefilledTokens <= 0
  /\ tokens' = RefilledTokens
  /\ lastRefill' = RealignedRefill
  /\ UNCHANGED <<dedupe, steady, wall, sends>>

Suppressed(key) ==
  /\ RefilledTokens > 0
  /\ Duplicate(key)
  /\ tokens' = RefilledTokens
  /\ lastRefill' = RealignedRefill
  /\ UNCHANGED <<dedupe, steady, wall, sends>>

LetThrough(key) ==
  /\ RefilledTokens > 0
  /\ ~Duplicate(key)
  /\ tokens' = RefilledTokens - 1
  /\ lastRefill' = RealignedRefill
  /\ dedupe' = Marked(key)
  /\ sends' = Append(sends, [key |-> key, at |-> steady, wall |-> wall,
                             refill |-> RealignedRefill])
  /\ UNCHANGED <<steady, wall>>

-----------------------------------------------------------------------------
\* The clocks of the host.
Tick ==
  /\ steady < MaxTime
  /\ steady' = steady + 1
  /\ wall' = wall + 1
  /\ UNCHANGED <<tokens, lastRefill, dedupe, sends>>

StepWall(d) ==
  /\ wall + d \in 0..MaxWall
  /\ wall' = wall + d
  /\ UNCHANGED <<tokens, lastRefill, dedupe, steady, sends>>

GateInit ==
  /\ tokens = RateLimit
  /\ lastRefill = 0
  /\ dedupe = [k \in {} |-> 0]
  /\ steady = 0
  /\ wall = 0
  /\ sends = <<>>

ShouldSend(key) == RateLimited(key) \/ Suppressed(key) \/ LetThrough(key)

GateNext ==
  \/ \E key \in Keys : ShouldSend(key)
  \/ Tick
  \/ \E d \in WallSteps : StepWall(d)

GateSpec == GateInit /\ [][GateNext]_gateVars

-----------------------------------------------------------------------------
(***************************************************************************)
(* Properties                                                              *)
(***************************************************************************)
Send == [key : Keys, at : Nat, wall : Int, refill : Nat]

\* The bucket never holds more than a minute's allowance and never goes into
\* debt, the last refill is never in the future, and marks are for real keys.
GateTypeOK ==
  /\ tokens \in 0..RateLimit
  /\ lastRefill \in Nat
  /\ steady \in Nat
  /\ lastRefill <= steady
  /\ wall \in Int
  /\ DOMAIN dedupe \subseteq Keys
  /\ \A k \in DOMAIN dedupe : dedupe[k] \in Int
  /\ sends \in Seq(Send)

\* Between two refills at most RateLimit alerts go out: RateLimit sends later
\* the bucket has been refilled, a whole minute (or more) further on.
RefillBudget ==
  \A i, j \in DOMAIN sends :
    j >= i + RateLimit => sends[j].refill >= sends[i].refill + Minute

\* The rate a receiver can rely on.  The bucket is refilled on the grid of
\* minutes since start-up, not a minute after it was emptied, so any minute
\* may see the end of one allowance and the start of the next, but not more:
\* at most 2 * RateLimit alerts in any minute.
AtMostTwicePerMinute ==
  \A i, j \in DOMAIN sends :
    j >= i + 2 * RateLimit => sends[j].at - sends[i].at > Minute

\* Two alerts with the same exe and severity are at least the window apart by
\* the wall clock, however that clock was stepped in between.
DedupeSpacing ==
  DedupeWindow > 0 =>
    \A i, j \in DOMAIN sends :
      i < j /\ sends[i].key = sends[j].key =>
        Truncated(sends[j].wall - sends[i].wall, Second) >= DedupeWindow

\* The cache agrees with history: a mark is the time of the key's last send.
\* In particular an alert dropped by the rate limit does not suppress others.
MarkIsLastSend ==
  \A k \in Keys :
    /\ k \in DOMAIN dedupe <=> \E i \in DOMAIN sends : sends[i].key = k
    /\ \A i \in DOMAIN sends :
         /\ sends[i].key = k
         /\ \A j \in DOMAIN sends : j > i => sends[j].key # k
         => dedupe[k] = sends[i].wall

=============================================================================
