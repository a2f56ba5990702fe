--------------------------- MODULE AlertGateProofs ---------------------------
(***************************************************************************)
(* Proofs about the send gate, for every rate limit, window, clock and set *)
(* of keys.                                                                *)
(***************************************************************************)
EXTENDS AlertGate, TLAPS

-----------------------------------------------------------------------------
(***************************************************************************)
(* Arithmetic                                                              *)
(***************************************************************************)

\* What integer division guarantees.
LEMMA Division ==
  ASSUME NEW a \in Nat, NEW m \in Nat \ {0}
  PROVE  /\ a \div m \in Nat
         /\ (a \div m) * m <= a
         /\ a < (a \div m) * m + m
  BY SMTT(30)

\* Division by a fixed unit never reorders two durations.
LEMMA DivisionMonotone ==
  ASSUME NEW a \in Nat, NEW b \in Nat, NEW m \in Nat \ {0}, a <= b
  PROVE  a \div m <= b \div m
  BY SMTT(30)

\* A duration of at least a unit is cut to a positive multiple of the unit.
LEMMA DivisionPositive ==
  ASSUME NEW a \in Nat, NEW m \in Nat \ {0}, a >= m
  PROVE  /\ (a \div m) * m \in Nat
         /\ (a \div m) * m >= m
  BY Division, SMTT(30)

\* duration_cast yields an integer.
LEMMA TruncatedInt ==
  ASSUME NEW a \in Int, NEW m \in Nat \ {0}
  PROVE  Truncated(a, m) \in Int
  <1>1. CASE a >= 0
    BY <1>1, Division DEF Truncated
  <1>2. CASE ~(a >= 0)
    <2>1. -a \in Nat
      BY <1>2
    <2>2. (-a) \div m \in Nat
      BY <2>1, Division
    <2> QED
      BY <1>2, <2>2 DEF Truncated
  <1> QED
    BY <1>1, <1>2

\* A duration that is positive after duration_cast was positive before.
LEMMA TruncatedPositive ==
  ASSUME NEW a \in Int, NEW m \in Nat \ {0}, Truncated(a, m) > 0
  PROVE  a > 0
  <1>1. SUFFICES ASSUME a <= 0 PROVE FALSE
    OBVIOUS
  <1>2. CASE a = 0
    <2>1. a \div m = 0
      BY <1>2, SMTT(30)
    <2> QED
      BY <1>2, <2>1 DEF Truncated
  <1>3. CASE a < 0
    <2>1. (-a) \div m \in Nat
      BY <1>3, Division
    <2> QED
      BY <1>3, <2>1 DEF Truncated
  <1> QED
    BY <1>1, <1>2, <1>3

\* duration_cast does not reorder durations.
LEMMA TruncatedMonotone ==
  ASSUME NEW a \in Int, NEW b \in Int, NEW m \in Nat \ {0},
         a >= 0, a <= b
  PROVE  Truncated(a, m) <= Truncated(b, m)
  BY DivisionMonotone DEF Truncated

-----------------------------------------------------------------------------
(***************************************************************************)
(* Types, and what a refill does                                           *)
(***************************************************************************)

\* The refill of should_send: it leaves the bucket within its bounds and the
\* refill time less than a minute in the past, and unless it changes nothing
\* the refill time advances by a minute or more.
LEMMA RefillStep ==
  ASSUME GateTypeOK
  PROVE  /\ RefilledTokens \in 0..RateLimit
         /\ RealignedRefill \in Nat
         /\ RealignedRefill <= steady
         /\ steady < RealignedRefill + Minute
         /\ \/ RefilledTokens = tokens /\ RealignedRefill = lastRefill
            \/ RealignedRefill >= lastRefill + Minute
  <1>1. Elapsed \in Nat
    BY DEF GateTypeOK, Elapsed
  <1>2. Minute \in Nat \ {0} /\ RateLimit \in Nat \ {0}
    BY GateAssumption DEF GateAssumption
  <1>3. CASE RefillDue
    <2> DEFINE advance == (Elapsed \div Minute) * Minute
    <2>1. advance \in Nat /\ advance >= Minute
      BY <1>1, <1>2, <1>3, DivisionPositive DEF RefillDue
    <2>2. advance <= Elapsed /\ Elapsed < advance + Minute
      BY <1>1, <1>2, Division
    <2>3. RealignedRefill = lastRefill + advance
      BY <1>3 DEF RealignedRefill
    <2>4. RefilledTokens = RateLimit
      BY <1>3 DEF RefilledTokens
    <2> HIDE DEF advance
    <2> QED
      BY <1>2, <2>1, <2>2, <2>3, <2>4 DEF GateTypeOK, Elapsed
  <1>4. CASE ~RefillDue
    BY <1>1, <1>2, <1>4
       DEF RefillDue, RealignedRefill, RefilledTokens, GateTypeOK, Elapsed
  <1> QED
    BY <1>3, <1>4

\* The history as a typed sequence of records.
LEMMA SendsTyped ==
  ASSUME GateTypeOK
  PROVE  /\ Len(sends) \in Nat
         /\ DOMAIN sends = 1..Len(sends)
         /\ \A i \in DOMAIN sends :
              /\ sends[i].key \in Keys
              /\ sends[i].at \in Nat
              /\ sends[i].wall \in Int
              /\ sends[i].refill \in Nat
  <1>1. \A i \in DOMAIN sends : sends[i] \in Send
    BY DEF GateTypeOK
  <1>2. Len(sends) \in Nat /\ DOMAIN sends = 1..Len(sends)
    BY DEF GateTypeOK
  <1> QED
    BY <1>1, <1>2 DEF Send

\* What the history looks like after an alert is let through.
LEMMA AppendSend ==
  ASSUME GateTypeOK, NEW key \in Keys, LetThrough(key)
  PROVE  LET s == [key |-> key, at |-> steady, wall |-> wall,
                   refill |-> RealignedRefill]
             n == Len(sends)
         IN  /\ n \in Nat
             /\ s \in Send
             /\ sends' \in Seq(Send)
             /\ Len(sends') = n + 1
             /\ DOMAIN sends = 1..n
             /\ DOMAIN sends' = 1..(n + 1)
             /\ \A i \in 1..n : sends'[i] = sends[i] /\ sends[i] \in Send
             /\ sends'[n + 1] = s
             /\ sends'[n + 1].key = key
             /\ sends'[n + 1].at = steady
             /\ sends'[n + 1].wall = wall
             /\ sends'[n + 1].refill = RealignedRefill
  <1> DEFINE s == [key |-> key, at |-> steady, wall |-> wall,
                   refill |-> RealignedRefill]
  <1>1. s \in Send
    BY RefillStep DEF Send, GateTypeOK
  <1>2. sends' = Append(sends, s) /\ sends \in Seq(Send)
    BY DEF LetThrough, GateTypeOK
  <1> HIDE DEF s
  <1>3. /\ Len(sends) \in Nat
        /\ sends' \in Seq(Send)
        /\ Len(sends') = Len(sends) + 1
        /\ DOMAIN sends = 1..Len(sends)
        /\ DOMAIN sends' = 1..(Len(sends) + 1)
        /\ \A i \in 1..Len(sends) : sends'[i] = sends[i] /\ sends[i] \in Send
        /\ sends'[Len(sends) + 1] = s
    BY <1>1, <1>2
  <1>4. /\ s.key = key
        /\ s.at = steady
        /\ s.wall = wall
        /\ s.refill = RealignedRefill
    BY DEF s
  <1> QED
    BY <1>1, <1>3, <1>4 DEF s

\* The state stays typed: the bucket within its limit, the last refill not in
\* the future, marks for real keys only.
THEOREM GateTyped == GateSpec => []GateTypeOK
  <1>1. GateInit => GateTypeOK
    BY GateAssumption DEF GateInit, GateTypeOK, GateAssumption
  <1>2. GateTypeOK /\ [GateNext]_gateVars => GateTypeOK'
    <2> SUFFICES ASSUME GateTypeOK, [GateNext]_gateVars PROVE GateTypeOK'
      OBVIOUS
    <2>1. ASSUME NEW key \in Keys, RateLimited(key) \/ Suppressed(key)
          PROVE  GateTypeOK'
      BY <2>1, RefillStep DEF RateLimited, Suppressed, GateTypeOK
    <2>2. ASSUME NEW key \in Keys, LetThrough(key) PROVE GateTypeOK'
      <3>1. tokens' \in 0..RateLimit /\ lastRefill' \in Nat /\ lastRefill' <= steady'
        BY <2>2, RefillStep, GateAssumption
           DEF LetThrough, GateTypeOK, GateAssumption
      <3>2. DOMAIN dedupe' \subseteq Keys /\ \A k \in DOMAIN dedupe' : dedupe'[k] \in Int
        BY <2>2 DEF LetThrough, Marked, GateTypeOK
      <3>3. sends' \in Seq(Send)
        BY <2>2, AppendSend
      <3> QED
        BY <2>2, <3>1, <3>2, <3>3 DEF LetThrough, GateTypeOK
    <2>3. CASE Tick
      BY <2>3 DEF Tick, GateTypeOK
    <2>4. ASSUME NEW d \in WallSteps, StepWall(d) PROVE GateTypeOK'
      BY <2>4, GateAssumption DEF StepWall, GateTypeOK, GateAssumption
    <2>5. CASE UNCHANGED gateVars
      BY <2>5 DEF gateVars, GateTypeOK
    <2> QED
      BY <2>1, <2>2, <2>3, <2>4, <2>5 DEF GateNext, ShouldSend
  <1> QED
    BY <1>1, <1>2, PTL DEF GateSpec

-----------------------------------------------------------------------------
(***************************************************************************)
(* The rate limit                                                          *)
(***************************************************************************)

\* RefillBudget compares the refills two sends drew on; it is inductive once
\* those refills are tied to the present state: each is the last one or at
\* least a minute older, and what the last one granted and the alerts drawn on
\* it took adds up to at most RateLimit.
RefillsTraced ==
  \A i \in DOMAIN sends :
    /\ sends[i].refill <= sends[i].at
    /\ sends[i].at < sends[i].refill + Minute
    /\ \/ sends[i].refill = lastRefill
       \/ sends[i].refill + Minute <= lastRefill
    /\ sends[i].refill = lastRefill => tokens + Len(sends) - i < RateLimit

RateInv == GateTypeOK /\ RefillsTraced /\ RefillBudget

\* Every send the gate allows respects the budget of the refill it draws on.
LEMMA SendKeepsRate ==
  ASSUME RateInv, NEW key \in Keys, LetThrough(key)
  PROVE  RefillsTraced' /\ RefillBudget'
  <1> DEFINE n == Len(sends)
  <1>1. GateTypeOK /\ Minute \in Nat \ {0} /\ RateLimit \in Nat \ {0}
    BY GateAssumption DEF RateInv, GateAssumption
  <1>2. /\ tokens \in Int
        /\ lastRefill \in Nat
        /\ steady \in Nat
        /\ RefilledTokens \in 1..RateLimit
        /\ RealignedRefill \in Nat
        /\ RealignedRefill <= steady
        /\ steady < RealignedRefill + Minute
        /\ \/ RefilledTokens = tokens /\ RealignedRefill = lastRefill
           \/ RealignedRefill >= lastRefill + Minute
    BY <1>1, RefillStep DEF LetThrough, GateTypeOK
  <1>3. /\ n \in Nat
        /\ Len(sends') = n + 1
        /\ DOMAIN sends = 1..n
        /\ DOMAIN sends' = 1..(n + 1)
        /\ \A i \in 1..n : sends'[i] = sends[i]
        /\ sends'[n + 1].refill = RealignedRefill
        /\ sends'[n + 1].at = steady
    BY <1>1, AppendSend
  <1>4. \A i \in 1..n : sends[i].refill \in Nat /\ sends[i].at \in Nat
    BY <1>1, <1>3, SendsTyped
  <1>5. tokens' = RefilledTokens - 1 /\ lastRefill' = RealignedRefill
    BY DEF LetThrough
  <1>6. \A i \in 1..n :
          /\ sends[i].refill <= sends[i].at
          /\ sends[i].at < sends[i].refill + Minute
          /\ \/ sends[i].refill = lastRefill
             \/ sends[i].refill + Minute <= lastRefill
          /\ sends[i].refill = lastRefill => tokens + n - i < RateLimit
    BY <1>3 DEF RateInv, RefillsTraced
  <1>7. \A i, j \in 1..n :
          j >= i + RateLimit => sends[j].refill >= sends[i].refill + Minute
    BY <1>3 DEF RateInv, RefillBudget
  <1> HIDE DEF n
  <1>8. RefillsTraced'
    <2> SUFFICES ASSUME NEW i \in 1..(n + 1)
                 PROVE  /\ sends'[i].refill <= sends'[i].at
                        /\ sends'[i].at < sends'[i].refill + Minute
                        /\ \/ sends'[i].refill = lastRefill'
                           \/ sends'[i].refill + Minute <= lastRefill'
                        /\ sends'[i].refill = lastRefill' =>
                             tokens' + (n + 1) - i < RateLimit
      BY <1>1, <1>3 DEF RefillsTraced
    <2>1. CASE i = n + 1
      BY <1>1, <1>2, <1>3, <1>5, <2>1
    <2>2. CASE i \in 1..n
      BY <1>1, <1>2, <1>3, <1>4, <1>5, <1>6, <2>2
    <2> QED
      BY <1>3, <2>1, <2>2
  <1>9. RefillBudget'
    <2> SUFFICES ASSUME NEW i \in 1..(n + 1), NEW j \in 1..(n + 1),
                        j >= i + RateLimit
                 PROVE  sends'[j].refill >= sends'[i].refill + Minute
      BY <1>1, <1>3 DEF RefillBudget
    <2>1. i \in 1..n
      BY <1>1, <1>3
    <2>2. CASE j \in 1..n
      BY <1>3, <1>7, <2>1, <2>2
    <2>3. CASE j = n + 1
      <3>1. ~(RefilledTokens = tokens /\ sends[i].refill = lastRefill)
        BY <1>1, <1>2, <1>3, <1>6, <2>1, <2>3
      <3> QED
        BY <1>1, <1>2, <1>3, <1>4, <1>6, <2>1, <2>3, <3>1
    <2> QED
      BY <1>3, <2>2, <2>3
  <1> QED
    BY <1>8, <1>9

\* The other two outcomes draw on no refill, but may perform one.
LEMMA RefusalKeepsRate ==
  ASSUME RateInv, NEW key \in Keys, RateLimited(key) \/ Suppressed(key)
  PROVE  RefillsTraced' /\ RefillBudget'
  <1>1. GateTypeOK /\ Minute \in Nat \ {0} /\ RateLimit \in Nat \ {0}
    BY GateAssumption DEF RateInv, GateAssumption
  <1>2. /\ tokens' = RefilledTokens
        /\ lastRefill' = RealignedRefill
        /\ sends' = sends
    BY DEF RateLimited, Suppressed
  <1>3. /\ Len(sends) \in Nat
        /\ DOMAIN sends = 1..Len(sends)
        /\ \A i \in DOMAIN sends : sends[i].refill \in Nat
    BY <1>1, SendsTyped
  <1>4. RefillsTraced'
    <2> SUFFICES ASSUME NEW i \in DOMAIN sends
                 PROVE  /\ \/ sends[i].refill = lastRefill'
                           \/ sends[i].refill + Minute <= lastRefill'
                        /\ sends[i].refill = lastRefill' =>
                             tokens' + Len(sends) - i < RateLimit
      BY <1>2 DEF RateInv, RefillsTraced
    <2>1. /\ \/ RefilledTokens = tokens /\ RealignedRefill = lastRefill
             \/ RealignedRefill >= lastRefill + Minute
          /\ tokens \in Int
          /\ lastRefill \in Nat
          /\ RealignedRefill \in Nat
      BY <1>1, RefillStep DEF GateTypeOK
    <2>2. /\ \/ sends[i].refill = lastRefill
             \/ sends[i].refill + Minute <= lastRefill
          /\ sends[i].refill = lastRefill =>
               tokens + Len(sends) - i < RateLimit
      BY DEF RateInv, RefillsTraced
    <2>3. sends[i].refill \in Nat
      BY <1>3
    <2> QED
      BY <1>1, <1>2, <2>1, <2>2, <2>3
  <1>5. RefillBudget'
    BY <1>2 DEF RateInv, RefillBudget
  <1> QED
    BY <1>4, <1>5

\* should_send keeps the whole strengthened invariant.
THEOREM RateInvariant == GateSpec => []RateInv
  <1>1. GateInit => RefillsTraced /\ RefillBudget
    BY DEF GateInit, RefillsTraced, RefillBudget
  <1>2. RateInv /\ [GateNext]_gateVars => (RefillsTraced /\ RefillBudget)'
    <2> SUFFICES ASSUME RateInv, [GateNext]_gateVars
                 PROVE  (RefillsTraced /\ RefillBudget)'
      OBVIOUS
    <2>1. ASSUME NEW key \in Keys, ShouldSend(key)
          PROVE  (RefillsTraced /\ RefillBudget)'
      BY <2>1, SendKeepsRate, RefusalKeepsRate DEF ShouldSend
    <2>2. CASE UNCHANGED <<tokens, lastRefill, sends>>
      BY <2>2 DEF RateInv, RefillsTraced, RefillBudget
    <2> QED
      BY <2>1, <2>2 DEF GateNext, Tick, StepWall, gateVars
  <1>3. RateInv <=> GateTypeOK /\ RefillsTraced /\ RefillBudget
    BY DEF RateInv
  <1> QED
    BY <1>1, <1>2, <1>3, GateTyped, PTL DEF GateSpec

\* should_send: one refill of the bucket pays for at most RateLimit alerts.
THEOREM RefillBudgetHolds == GateSpec => []RefillBudget
  <1>1. RateInv => RefillBudget
    BY DEF RateInv
  <1> QED
    BY <1>1, RateInvariant, PTL

\* should_send: whatever the arrivals, no minute sees more than twice the
\* configured number of alerts.
THEOREM AtMostTwicePerMinuteHolds == GateSpec => []AtMostTwicePerMinute
  <1>1. RateInv => AtMostTwicePerMinute
    <2> SUFFICES ASSUME RateInv, NEW i \in DOMAIN sends, NEW j \in DOMAIN sends,
                        j >= i + 2 * RateLimit
                 PROVE  sends[j].at - sends[i].at > Minute
      BY DEF AtMostTwicePerMinute
    <2>1. RateLimit \in Nat \ {0} /\ Minute \in Nat \ {0}
      BY GateAssumption DEF GateAssumption
    <2>2. /\ Len(sends) \in Nat
          /\ DOMAIN sends = 1..Len(sends)
          /\ \A k \in DOMAIN sends : sends[k].refill \in Nat /\ sends[k].at \in Nat
      BY SendsTyped DEF RateInv
    <2> DEFINE k == i + RateLimit
    <2>3. k \in DOMAIN sends /\ j >= k + RateLimit /\ k >= i + RateLimit
      BY <2>1, <2>2
    <2> HIDE DEF k
    <2>4. /\ sends[k].refill >= sends[i].refill + Minute
          /\ sends[j].refill >= sends[k].refill + Minute
      BY <2>3 DEF RateInv, RefillBudget
    <2>5. /\ sends[i].at < sends[i].refill + Minute
          /\ sends[j].refill <= sends[j].at
      BY DEF RateInv, RefillsTraced
    <2>6. /\ sends[i].at \in Nat /\ sends[i].refill \in Nat
          /\ sends[j].at \in Nat /\ sends[j].refill \in Nat
          /\ sends[k].refill \in Nat
      BY <2>2, <2>3
    <2> QED
      BY <2>1, <2>4, <2>5, <2>6
  <1> QED
    BY <1>1, RateInvariant, PTL

-----------------------------------------------------------------------------
(***************************************************************************)
(* Deduplication                                                           *)
(***************************************************************************)

\* DedupeSpacing looks back over the whole history, should_send only at the
\* mark of one key.  The mark stands for all the key's sends because no send
\* of the key has a later wall clock time than its mark.
MarksCover ==
  DedupeWindow > 0 =>
    \A i \in DOMAIN sends :
      /\ sends[i].key \in DOMAIN dedupe
      /\ sends[i].wall <= dedupe[sends[i].key]

SpacingInv == GateTypeOK /\ MarksCover /\ DedupeSpacing

\* An alert let through is the window apart from every earlier one of its key.
LEMMA SendKeepsSpacing ==
  ASSUME SpacingInv, NEW key \in Keys, LetThrough(key), DedupeWindow > 0
  PROVE  MarksCover' /\ DedupeSpacing'
  <1> DEFINE n == Len(sends)
  <1>1. GateTypeOK /\ DedupeWindow \in Nat /\ Second \in Nat \ {0} /\ wall \in Int
    BY GateAssumption DEF SpacingInv, GateAssumption, GateTypeOK
  <1>2. /\ n \in Nat
        /\ DOMAIN sends = 1..n
        /\ DOMAIN sends' = 1..(n + 1)
        /\ \A i \in 1..n : sends'[i] = sends[i]
        /\ sends'[n + 1].key = key
        /\ sends'[n + 1].wall = wall
        /\ \A i \in 1..n : sends[i].wall \in Int
    <2>1. \A i \in 1..n : sends[i].wall \in Int
      BY <1>1, SendsTyped
    <2> QED
      BY <1>1, <2>1, AppendSend
  <1>3. /\ DOMAIN dedupe' = DOMAIN dedupe \cup {key}
        /\ dedupe'[key] = wall
        /\ \A k \in DOMAIN dedupe \ {key} : dedupe'[k] = dedupe[k]
    BY DEF LetThrough, Marked
  <1>4. \A i \in 1..n :
          /\ sends[i].key \in DOMAIN dedupe
          /\ sends[i].wall <= dedupe[sends[i].key]
          /\ dedupe[sends[i].key] \in Int
    BY <1>1, <1>2 DEF SpacingInv, MarksCover, GateTypeOK
  <1> HIDE DEF n
  <1>5. ASSUME NEW i \in 1..n, sends[i].key = key
        PROVE  /\ Truncated(wall - sends[i].wall, Second) >= DedupeWindow
               /\ sends[i].wall <= wall
    <2> DEFINE age == wall - dedupe[key]
    <2>1. age \in Int /\ age <= wall - sends[i].wall /\ wall - sends[i].wall \in Int
      BY <1>1, <1>2, <1>4, <1>5
    <2>2. Truncated(age, Second) \in Int /\ Truncated(wall - sends[i].wall, Second) \in Int
      BY <1>1, <2>1, TruncatedInt
    <2>3. Truncated(age, Second) >= DedupeWindow
      BY <1>1, <1>4, <1>5, <2>2 DEF LetThrough, Duplicate, AgeSec
    <2>4. age > 0
      BY <1>1, <2>1, <2>2, <2>3, TruncatedPositive
    <2>5. Truncated(age, Second) <= Truncated(wall - sends[i].wall, Second)
      BY <1>1, <2>1, <2>4, TruncatedMonotone
    <2> HIDE DEF age
    <2>6. sends[i].wall <= wall
      BY <1>1, <1>2, <2>1, <2>4
    <2> QED
      BY <1>1, <2>2, <2>3, <2>5, <2>6
  <1>6. MarksCover'
    <2> SUFFICES ASSUME NEW i \in 1..(n + 1)
                 PROVE  /\ sends'[i].key \in DOMAIN dedupe'
                        /\ sends'[i].wall <= dedupe'[sends'[i].key]
      BY <1>2 DEF MarksCover
    <2>1. CASE i = n + 1
      BY <1>1, <1>2, <1>3, <2>1
    <2>2. CASE i \in 1..n /\ sends[i].key = key
      BY <1>2, <1>3, <1>5, <2>2
    <2>3. CASE i \in 1..n /\ sends[i].key # key
      BY <1>2, <1>3, <1>4, <2>3
    <2> QED
      BY <1>2, <2>1, <2>2, <2>3
  <1>7. DedupeSpacing'
    <2> SUFFICES ASSUME NEW i \in 1..(n + 1), NEW j \in 1..(n + 1),
                        i < j, sends'[i].key = sends'[j].key
                 PROVE  Truncated(sends'[j].wall - sends'[i].wall, Second)
                          >= DedupeWindow
      BY <1>2 DEF DedupeSpacing
    <2>1. i \in 1..n
      BY <1>2
    <2>2. CASE j = n + 1
      BY <1>2, <1>5, <2>1, <2>2
    <2>3. CASE j \in 1..n
      BY <1>2, <2>1, <2>3 DEF SpacingInv, DedupeSpacing
    <2> QED
      BY <1>2, <2>2, <2>3
  <1> QED
    BY <1>6, <1>7

\* should_send: two alerts with the same exe and severity are never let
\* through less than the window apart by the wall clock.
THEOREM DedupeSpacingHolds == GateSpec => []DedupeSpacing
  <1>1. GateInit => MarksCover /\ DedupeSpacing
    BY DEF GateInit, MarksCover, DedupeSpacing
  <1>2. SpacingInv /\ [GateNext]_gateVars => (MarksCover /\ DedupeSpacing)'
    <2> SUFFICES ASSUME SpacingInv, [GateNext]_gateVars
                 PROVE  (MarksCover /\ DedupeSpacing)'
      OBVIOUS
    <2>1. ASSUME NEW key \in Keys, LetThrough(key)
          PROVE  (MarksCover /\ DedupeSpacing)'
      <3>1. CASE DedupeWindow > 0
        BY <2>1, <3>1, SendKeepsSpacing
      <3>2. CASE ~(DedupeWindow > 0)
        BY <3>2 DEF MarksCover, DedupeSpacing
      <3> QED
        BY <3>1, <3>2
    <2>2. CASE UNCHANGED <<dedupe, sends>>
      BY <2>2 DEF SpacingInv, MarksCover, DedupeSpacing
    <2> QED
      BY <2>1, <2>2
         DEF GateNext, ShouldSend, RateLimited, Suppressed, Tick, StepWall, gateVars
  <1>3. SpacingInv <=> GateTypeOK /\ MarksCover /\ DedupeSpacing
    BY DEF SpacingInv
  <1> QED
    BY <1>1, <1>2, <1>3, GateTyped, PTL DEF GateSpec

-----------------------------------------------------------------------------
(***************************************************************************)
(* The map and the history                                                 *)
(***************************************************************************)
MarkInv == GateTypeOK /\ MarkIsLastSend

\* An alert let through is its key's last send, and no other key's.
LEMMA SendKeepsMarks ==
  ASSUME MarkInv, NEW key \in Keys, LetThrough(key)
  PROVE  MarkIsLastSend'
  <1> DEFINE n == Len(sends)
  <1>1. /\ n \in Nat
        /\ DOMAIN sends = 1..n
        /\ DOMAIN sends' = 1..(n + 1)
        /\ \A i \in 1..n : sends'[i] = sends[i]
        /\ sends'[n + 1].key = key
        /\ sends'[n + 1].wall = wall
    BY AppendSend DEF MarkInv
  <1>2. /\ DOMAIN dedupe' = DOMAIN dedupe \cup {key}
        /\ dedupe'[key] = wall
        /\ \A k \in DOMAIN dedupe \ {key} : dedupe'[k] = dedupe[k]
    BY DEF LetThrough, Marked
  <1> HIDE DEF n
  <1> SUFFICES ASSUME NEW k \in Keys
               PROVE  /\ k \in DOMAIN dedupe' <=> \E i \in 1..(n + 1) : sends'[i].key = k
                      /\ \A i \in 1..(n + 1) :
                           /\ sends'[i].key = k
                           /\ \A j \in 1..(n + 1) : j > i => sends'[j].key # k
                           => dedupe'[k] = sends'[i].wall
    BY <1>1 DEF MarkIsLastSend
  <1>3. n + 1 \in 1..(n + 1) /\ \A i \in 1..n : i \in 1..(n + 1) /\ n + 1 > i
    BY <1>1
  <1>4. /\ k \in DOMAIN dedupe <=> \E i \in 1..n : sends[i].key = k
        /\ \A i \in 1..n :
             /\ sends[i].key = k
             /\ \A j \in 1..n : j > i => sends[j].key # k
             => dedupe[k] = sends[i].wall
    BY <1>1 DEF MarkInv, MarkIsLastSend
  <1>5. k \in DOMAIN dedupe' <=> \E i \in 1..(n + 1) : sends'[i].key = k
    <2>1. CASE k = key
      BY <1>1, <1>2, <1>3, <2>1
    <2>2. CASE k # key
      BY <1>1, <1>2, <1>3, <1>4, <2>2
    <2> QED
      BY <2>1, <2>2
  <1>6. ASSUME NEW i \in 1..(n + 1), sends'[i].key = k,
               \A j \in 1..(n + 1) : j > i => sends'[j].key # k
        PROVE  dedupe'[k] = sends'[i].wall
    <2>1. CASE k = key
      <3>1. i = n + 1
        BY <1>1, <1>3, <1>6, <2>1
      <3> QED
        BY <1>1, <1>2, <2>1, <3>1
    <2>2. CASE k # key
      <3>1. i \in 1..n /\ sends[i].key = k /\ sends'[i] = sends[i]
        BY <1>1, <1>6, <2>2
      <3>2. \A j \in 1..n : j > i => sends[j].key # k
        BY <1>1, <1>3, <1>6
      <3>3. k \in DOMAIN dedupe \ {key} /\ dedupe[k] = sends[i].wall
        BY <1>4, <2>2, <3>1, <3>2
      <3> QED
        BY <1>2, <3>1, <3>3
    <2> QED
      BY <2>1, <2>2
  <1> QED
    BY <1>5, <1>6

\* should_send: the map holds, for every key ever let through and no other, the
\* time of its last alert; what the rate limit dropped has left no mark.
THEOREM MarkIsLastSendHolds == GateSpec => []MarkIsLastSend
  <1>1. GateInit => MarkIsLastSend
    BY DEF GateInit, MarkIsLastSend
  <1>2. MarkInv /\ [GateNext]_gateVars => MarkIsLastSend'
    <2> SUFFICES ASSUME MarkInv, [GateNext]_gateVars PROVE MarkIsLastSend'
      OBVIOUS
    <2>1. ASSUME NEW key \in Keys, LetThrough(key) PROVE MarkIsLastSend'
      BY <2>1, SendKeepsMarks
    <2>2. CASE UNCHANGED <<dedupe, sends>>
      BY <2>2 DEF MarkInv, MarkIsLastSend
    <2> QED
      BY <2>1, <2>2
         DEF GateNext, ShouldSend, RateLimited, Suppressed, Tick, StepWall, gateVars
  <1>3. MarkInv <=> GateTypeOK /\ MarkIsLastSend
    BY DEF MarkInv
  <1> QED
    BY <1>1, <1>2, <1>3, GateTyped, PTL DEF GateSpec

=============================================================================
