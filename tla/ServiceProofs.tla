---------------------------- MODULE ServiceProofs ----------------------------
(***************************************************************************)
(* What is proved of the event loop, for any number of processes, pids and *)
(* lines of input, and any executables.                                    *)
(***************************************************************************)
EXTENDS Service, DataInduction, SequenceTheorems, FiniteSetTheorems

Processes == Pids \X (0..MaxRuns)

InputLines ==
  [event : {FALSE}] \cup [event : {TRUE}, process : Processes, exe : Exes]

Results ==
  [enforced : BOOLEAN, action : {"none", "sigkill"},
   error : {"none", "refused", "no process", "kill failed"}]

LogLines ==
  [id : Int, denied : BOOLEAN, exe : {JsonEscape(exe) : exe \in Exes},
   outcome : Results, severity : {"info", "warning", "critical"}]

Kills == [id : Int, victim : Processes, reported : Processes]

Handling == pc \in {"kill", "signal", "log", "alert"}

\* From reading a line until logging its event the stream holds nothing.
Typed ==
  /\ ServiceTypeOK
  /\ input \in Seq(InputLines) /\ counter + Len(input) <= lines
  /\ outcome \in Results
  /\ Handling => event.process \in Processes /\ event.exe \in Exes
  /\ audit \in Seq(LogLines) /\ buffer \in Seq(LogLines)
  /\ kills \subseteq Kills
  /\ \A k \in kills : k.victim[2] <= runs[k.victim[1]]
  /\ pc \in {"read", "kill", "signal", "log"} /\ ~bad => buffer = <<>>
  /\ mode \in {"monitor", "enforce"}

\* One kill at most per event, none before the signal, and every event but the last
\* has its line in the output.
KillsAudited ==
  /\ \A k \in kills : k.id \in 0..(counter - 1)
  /\ \A k, l \in kills : k.id = l.id => k = l
  /\ Handling => counter > 0
  /\ pc \in {"kill", "signal"} => \A k \in kills : k.id # counter - 1
  /\ ~bad => 0..(counter - 2) \subseteq IdsOf(audit)

ServiceInv == Typed /\ AuditInOrder /\ KillsAudited

-----------------------------------------------------------------------------
(***************************************************************************)
(* Typing                                                                  *)
(***************************************************************************)
\* The count of events is a number.
LEMMA CounterIsNat == ServiceTypeOK => counter \in Nat
<1> SUFFICES ASSUME ServiceTypeOK PROVE counter \in Nat
  OBVIOUS
<1>1. MaxLines \in Nat /\ lines \in 0..MaxLines /\ counter \in 0..lines
  BY ServiceAssumption DEF ServiceTypeOK
<1> QED
  BY <1>1

LEMMA TypedInit == Init => Typed
<1> SUFFICES ASSUME Init PROVE Typed
  OBVIOUS
<1> USE ServiceAssumption DEF Init
<1>1. /\ runs \in [Pids -> 0..MaxRuns] /\ alive \subseteq {pid \in Pids : runs[pid] > 0}
      /\ lines \in 0..MaxLines /\ counter \in 0..lines
  OBVIOUS
<1>2. /\ Len(input) = 0 /\ Len(buffer) = 0
      /\ input \in Seq(InputLines) /\ audit \in Seq(LogLines) /\ buffer \in Seq(LogLines)
  BY EmptySeq
<1>3. outcome \in Results
  BY DEF NotEnforced, Results
<1>4. event.id = counter - 1 /\ judged \in Seq(Exes) /\ Len(judged) = counter
  BY EmptySeq DEF NoEvent
<1>5. pc = "flush" /\ eof = FALSE /\ torn = FALSE /\ bad = FALSE /\ kills = {} /\ mode \in {"monitor", "enforce"}
  OBVIOUS
<1>6. lines = 0 /\ counter = 0
  OBVIOUS
<1> HIDE DEF Init
<1>7. ServiceTypeOK
  <2>1. outcome.action \in {"none", "sigkill"}
    BY <1>3 DEF Results
  <2>2. Len(input) <= lines /\ Len(buffer) <= 1
    BY <1>2, <1>6
  <2>3. /\ \A k \in kills : k.victim[1] \in alive => runs[k.victim[1]] > k.victim[2]
        /\ pc \in {"kill", "signal"} /\ ~bad => buffer = <<>>
    BY <1>5
  <2> QED
    BY <1>1, <1>4, <1>5, <2>1, <2>2, <2>3 DEF ServiceTypeOK
<1> QED
  BY <1>1, <1>2, <1>3, <1>4, <1>5, <1>6, <1>7 DEF Typed, Handling

\* The host and the sensor keep the types.
LEMMA HostTyped == Typed /\ HostStep => Typed'
<1> SUFFICES ASSUME Typed, HostStep PROVE Typed'
  OBVIOUS
<1> USE ServiceAssumption DEF Typed, ServiceTypeOK, loopVars, Handling
<1>1. ASSUME NEW pid \in Pids, Spawn(pid) PROVE Typed'
  <2>1. /\ runs' = [runs EXCEPT ![pid] = @ + 1] /\ alive' = alive \cup {pid}
        /\ runs[pid] < (IF PidsReused THEN MaxRuns ELSE 1)
        /\ UNCHANGED <<input, lines, eof, loopVars>>
    BY <1>1, Zenon DEF Spawn
  <2>2. /\ runs' \in [Pids -> 0..MaxRuns] /\ runs'[pid] = runs[pid] + 1
        /\ \A q \in Pids \ {pid} : runs'[q] = runs[q]
    <3>1. runs \in [Pids -> 0..MaxRuns] /\ MaxRuns \in Nat \ {0}
      OBVIOUS
    <3> HIDE ServiceAssumption DEF Typed, ServiceTypeOK
    <3>2. runs[pid] + 1 \in 0..MaxRuns
      BY <2>1, <3>1
    <3> QED
      BY <2>1, <3>1, <3>2
  <2>3. alive' \subseteq {q \in Pids : runs'[q] > 0}
    <3>1. /\ runs \in [Pids -> 0..MaxRuns] /\ MaxRuns \in Nat
          /\ alive \subseteq {q \in Pids : runs[q] > 0}
      OBVIOUS
    <3> HIDE ServiceAssumption DEF Typed, ServiceTypeOK
    <3>2. \A q \in Pids : runs[q] \in 0..MaxRuns
      BY <3>1
    <3> QED
      BY <2>1, <2>2, <3>1, <3>2
  <2>4. \A k \in kills : k.victim \in Processes /\ k.victim[1] \in Pids /\ k.victim[2] \in Int
    <3>1. kills \subseteq Kills
      OBVIOUS
    <3> HIDE DEF Typed
    <3>2. \A k \in kills : k.victim \in Processes
      BY <3>1 DEF Kills
    <3>3. \A p \in Processes : p[1] \in Pids /\ p[2] \in 0..MaxRuns
      BY DEF Processes
    <3>4. 0..MaxRuns \subseteq Int
      BY DEF ServiceAssumption
    <3> QED
      BY <3>2, <3>3, <3>4, Zenon
  <2>5. \A k \in kills : /\ k.victim[2] <= runs'[k.victim[1]]
                         /\ k.victim[1] \in alive' => runs'[k.victim[1]] > k.victim[2]
    <3> TAKE k \in kills
    <3>1. k.victim[1] \in Pids /\ k.victim[2] \in Int /\ k.victim[2] <= runs[k.victim[1]]
      BY <2>4
    <3>2. k.victim[1] \in alive => runs[k.victim[1]] > k.victim[2]
      OBVIOUS
    <3>3. CASE k.victim[1] = pid
      <4>1. /\ runs'[k.victim[1]] = runs[k.victim[1]] + 1
            /\ runs[k.victim[1]] \in Int
        BY <2>2, <3>1, <3>3
      <4> HIDE DEF Typed, ServiceTypeOK
      <4> QED
        BY <3>1, <4>1
    <3>4. CASE k.victim[1] # pid
      BY <2>1, <2>2, <3>1, <3>2, <3>4
    <3> QED
      BY <3>3, <3>4
  <2> QED
    BY <2>1, <2>2, <2>3, <2>5
<1>2. ASSUME NEW pid \in Pids, Exit(pid) PROVE Typed'
  BY <1>2 DEF Exit
<1>3. ASSUME NEW line \in InputLines, Write(line) PROVE Typed'
  <2>1. input' \in Seq(InputLines) /\ Len(input') = Len(input) + 1
    BY <1>3, AppendProperties DEF Write
  <2> QED
    BY <1>3, <2>1, LenProperties DEF Write
<1>4. ASSUME NEW pid \in Pids, NEW exe \in Exes, Report(pid, exe) PROVE Typed'
  <2>1. Process(pid) \in Processes
    BY DEF Process, Processes
  <2>2. [event |-> TRUE, process |-> Process(pid), exe |-> exe] \in InputLines
    BY <2>1 DEF InputLines
  <2> QED
    BY <1>3, <1>4, <2>2 DEF Report
<1>5. CASE Noise
  BY <1>3, <1>5 DEF Noise, InputLines
<1>6. CASE CloseInput
  BY <1>6 DEF CloseInput
<1> QED
  BY <1>1, <1>2, <1>4, <1>5, <1>6 DEF HostStep

\* Writing, or failing to write, what the stream holds keeps the sequences typed.
LEMMA WrittenTyped ==
  ASSUME Typed, Written \/ PartWritten \/ NotWritten
  PROVE  /\ audit' \in Seq(LogLines) /\ buffer' \in Seq(LogLines)
         /\ Len(buffer') \in 0..Len(buffer)
         /\ bad' \in BOOLEAN /\ torn' \in BOOLEAN
         /\ ~PartWritten /\ ~bad' => buffer' = <<>> /\ ~bad
<1> USE DEF Typed, ServiceTypeOK
<1>1. audit \o buffer \in Seq(LogLines)
  BY ConcatProperties
<1>2. Len(buffer) \in Nat /\ Len(<<>>) = 0 /\ <<>> \in Seq(LogLines)
  BY LenProperties, EmptySeq
<1>3. CASE Written
  <2>1. CASE bad
    BY <1>2, <1>3, <2>1 DEF Written
  <2>2. CASE ~bad
    BY <1>1, <1>2, <1>3, <2>2 DEF Written
  <2> QED
    BY <2>1, <2>2
<1>4. CASE NotWritten
  BY <1>2, <1>4 DEF NotWritten
<1>5. CASE PartWritten
  BY <1>2, <1>5 DEF PartWritten
<1> QED
  BY <1>3, <1>4, <1>5

\* compute_severity knows three severities.
LEMMA SeverityTyped == Severity \in {"info", "warning", "critical"}
BY DEF Severity

\* The line logged is one.
LEMMA LogTyped == Typed /\ Log => Typed'
<1> SUFFICES ASSUME Typed, Log PROVE Typed'
  OBVIOUS
<1> DEFINE line == [id |-> event.id, denied |-> Denied, exe |-> JsonEscape(event.exe),
                    outcome |-> outcome, severity |-> Severity]
<1>1. /\ pc = "log" /\ pc' \in {"alert", "flush"}
      /\ buffer' = IF bad THEN buffer ELSE Append(buffer, line)
      /\ UNCHANGED <<hostVars, mode, event, counter, judged, outcome, torn, bad, audit, alerts,
                     kills>>
  BY DEF Log
<1>2. line \in LogLines
  <2>1. event.id \in Int /\ event.exe \in Exes /\ outcome \in Results
    BY <1>1, ServiceAssumption DEF Typed, ServiceTypeOK, Handling
  <2>2. Denied \in BOOLEAN
    BY DEF Denied
  <2>3. Severity \in {"info", "warning", "critical"}
    BY SeverityTyped
  <2>4. JsonEscape(event.exe) \in {JsonEscape(exe) : exe \in Exes}
    BY <2>1
  <2> QED
    BY <2>1, <2>2, <2>3, <2>4 DEF LogLines
<1>3. buffer' \in Seq(LogLines) /\ Len(buffer') <= 1
  <2> HIDE DEF line
  <2>1. CASE bad
    BY <1>1, <2>1 DEF Typed, ServiceTypeOK
  <2>2. CASE ~bad
    <3>1. buffer = <<>> /\ buffer \in Seq(LogLines)
      BY <1>1, <2>2 DEF Typed
    <3>2. buffer' \in Seq(LogLines) /\ Len(buffer') = Len(buffer) + 1 /\ Len(buffer) = 0
      BY <1>1, <1>2, <2>2, <3>1, AppendProperties
    <3> QED
      BY <3>2
  <2> QED
    BY <2>1, <2>2
<1> QED
  BY <1>1, <1>3 DEF Typed, ServiceTypeOK, Handling, hostVars

\* The loop keeps the types.
LEMMA LoopTyped == Typed /\ LoopStep => Typed'
<1> SUFFICES ASSUME Typed, LoopStep PROVE Typed'
  OBVIOUS
<1> USE ServiceAssumption DEF Typed, ServiceTypeOK, hostVars, Handling
<1>1. CASE Flush
  <2>1. /\ audit' \in Seq(LogLines) /\ buffer' \in Seq(LogLines)
        /\ Len(buffer') \in 0..Len(buffer)
        /\ bad' \in BOOLEAN /\ torn' \in BOOLEAN
        /\ ~bad' => buffer' = <<>>
    <3>1. CASE ~PartWritten
      BY <1>1, <3>1, WrittenTyped DEF Flush
    <3>2. CASE PartWritten
      BY <1>1, <3>2, WrittenTyped DEF Flush, PartWritten, Written, NotWritten
    <3> QED
      BY <3>1, <3>2
  <2>2. Len(buffer') <= 1
    <3>1. Len(buffer) \in Nat /\ Len(buffer) <= 1
      BY LenProperties
    <3> QED
      BY <2>1, <3>1
  <2> QED
    BY <1>1, <2>1, <2>2 DEF Flush
<1>2. CASE WriteEarly
  <2>1. /\ pc \in {"alert", "flush"}
        /\ UNCHANGED <<hostVars, mode, pc, event, counter, judged, outcome, alerts, kills>>
    BY <1>2 DEF WriteEarly
  <2>2. /\ audit' \in Seq(LogLines) /\ buffer' \in Seq(LogLines)
        /\ Len(buffer') \in 0..Len(buffer)
        /\ bad' \in BOOLEAN /\ torn' \in BOOLEAN
    BY <1>2, WrittenTyped DEF WriteEarly
  <2>3. Len(buffer') <= 1
    <3>1. Len(buffer) \in Nat /\ Len(buffer) <= 1
      BY LenProperties
    <3> QED
      BY <2>2, <3>1
  <2>4. ServiceTypeOK'
    BY <2>1, <2>2, <2>3
  <2>5. kills' \subseteq Kills /\ \A k \in kills' : k.victim[2] <= runs'[k.victim[1]]
    BY <2>1
  <2> QED
    BY <2>1, <2>2, <2>4, <2>5 DEF Handling
<1>3. CASE ReadLine
  <2>1. /\ pc = "read" /\ input # <<>> /\ input' = Tail(input) /\ outcome' = NotEnforced
        /\ UNCHANGED <<runs, alive, lines, eof, mode, buffer, torn, bad, audit, alerts, kills>>
    BY <1>3 DEF ReadLine
  <2>2. /\ Head(input) \in InputLines /\ input' \in Seq(InputLines)
        /\ Len(input') = Len(input) - 1
    BY <2>1, HeadTailProperties
  <2>3. Len(input) \in Nat
    BY LenProperties
  <2>4. outcome' \in Results /\ outcome'.action = "none"
    BY <2>1 DEF NotEnforced, Results
  <2>5. CASE Head(input).event
    <3>1. /\ event' = [id |-> counter, process |-> Head(input).process, exe |-> Head(input).exe]
          /\ counter' = counter + 1 /\ pc' \in {"kill", "log"}
          /\ judged' = Append(judged, Head(input).exe)
      <4> HIDE DEF Typed, ServiceTypeOK
      <4> QED
        BY <1>3, <2>5 DEF ReadLine
    <3>2. Head(input).process \in Processes /\ Head(input).exe \in Exes
      BY <2>2, <2>5 DEF InputLines
    <3>3. counter \in Nat /\ lines \in Nat /\ counter + Len(input) <= lines
      OBVIOUS
    <3>4. /\ event'.id \in Int /\ event'.id < counter'
          /\ counter' \in Nat /\ counter' + Len(input') <= lines'
      BY <2>1, <2>2, <2>3, <3>1, <3>3
    <3>5. event'.process \in Processes /\ event'.exe \in Exes
      BY <3>1, <3>2
    <3>6. counter' \in 0..lines' /\ event'.id = counter' - 1 /\ Len(input') <= lines'
      <4> HIDE DEF Typed, ServiceTypeOK
      <4>1. event'.id = counter
        BY <3>1
      <4> QED
        BY <2>1, <2>2, <2>3, <3>1, <3>3, <4>1
    <3>7. judged' \in Seq(Exes) /\ Len(judged') = counter'
      BY <3>1, <3>2, AppendProperties
    <3>8. ServiceTypeOK'
      BY <2>1, <2>4, <3>1, <3>6, <3>7
    <3> QED
      BY <2>1, <2>2, <2>4, <3>1, <3>4, <3>5, <3>8
  <2>6. CASE ~Head(input).event
    <3>1. pc' = "flush" /\ UNCHANGED <<event, counter, judged>>
      BY <1>3, <2>6 DEF ReadLine
    <3> QED
      BY <2>1, <2>2, <2>3, <2>4, <3>1
  <2> QED
    BY <2>5, <2>6
<1>4. CASE LookUp
  <2>1. /\ pc = "kill" /\ pc' \in {"log", "signal"}
        /\ outcome' \in Results
        /\ UNCHANGED <<hostVars, mode, event, counter, judged, buffer, torn, bad, audit, alerts, kills>>
    <3>1. ASSUME NEW error \in {"refused", "no process"}, NotKilled(error)
          PROVE  outcome' \in Results /\ pc' = "log"
      BY <3>1 DEF NotKilled, Results
    <3>2. \/ NotKilled("refused") \/ NotKilled("no process")
          \/ pc' = "signal" /\ outcome' = outcome
      BY <1>4, Zenon DEF LookUp
    <3>3. /\ pc = "kill"
          /\ UNCHANGED <<hostVars, mode, event, counter, judged, buffer, torn, bad, audit, alerts, kills>>
      BY <1>4, Zenon DEF LookUp
    <3> QED
      BY <3>1, <3>2, <3>3
  <2> QED
    BY <2>1 DEF Results
<1>5. CASE Signal
  <2> DEFINE pid == event.process[1]
  <2>1. event.process \in Processes /\ pc = "signal"
    BY <1>5 DEF Signal
  <2>2. pid \in Pids
    BY <2>1 DEF Processes
  <2> DEFINE new == [id |-> event.id, victim |-> Process(pid), reported |-> event.process]
  <2>3. UNCHANGED <<runs, input, lines, eof, mode, event, counter, judged, buffer, torn, bad, audit, alerts>>
    BY <1>5, Zenon DEF Signal
  <2>4. CASE NotKilled("kill failed") /\ UNCHANGED <<alive, kills>>
    <3>1. outcome' \in Results /\ pc' = "log"
      BY <2>4 DEF NotKilled, Results
    <3> QED
      BY <2>1, <2>3, <2>4, <3>1 DEF Results
  <2>5. CASE /\ pid \in alive /\ alive' = alive \ {pid}
             /\ kills' = kills \cup {new}
             /\ outcome' = [enforced |-> TRUE, action |-> "sigkill", error |-> "none"]
             /\ pc' = "log"
    <3>1. outcome' \in Results
      BY <2>5 DEF Results
    <3>2. new \in Kills /\ new.victim = <<pid, runs[pid]>>
      <4>1. event.id \in Int /\ runs[pid] \in 0..MaxRuns
        <5>1. event.id = counter - 1 /\ counter \in Int
          OBVIOUS
        <5>2. runs \in [Pids -> 0..MaxRuns]
          OBVIOUS
        <5>3. runs[pid] \in 0..MaxRuns
          BY <2>2, <5>2, Zenon
        <5>4. event.id \in Int
          BY <5>1, SMT
        <5> QED
          BY <5>3, <5>4
      <4> QED
        BY <2>1, <2>2, <4>1 DEF Kills, Processes, Process
    <3>3. \A k \in kills' : /\ k.victim[2] <= runs[k.victim[1]]
                            /\ k.victim[1] \in alive' => runs[k.victim[1]] > k.victim[2]
      <4> TAKE k \in kills'
      <4>1. CASE k \in kills
        BY <2>5, <4>1
      <4>2. CASE k = new
        <5>1. k.victim[1] = pid /\ k.victim[2] = runs[pid] /\ runs[pid] \in 0..MaxRuns
          <6>1. runs \in [Pids -> 0..MaxRuns]
            OBVIOUS
          <6>2. k.victim = <<pid, runs[pid]>>
            BY <3>2, <4>2, Zenon
          <6>3. runs[pid] \in 0..MaxRuns
            BY <2>2, <6>1, Zenon
          <6> HIDE DEF new, pid
          <6> QED
            BY <6>2, <6>3
        <5> QED
          BY <2>5, <5>1
      <4> QED
        BY <2>5, <4>1, <4>2
    <3>4. kills' \subseteq Kills
      BY <2>5, <3>2
    <3> HIDE DEF new
    <3> QED
      BY <2>1, <2>3, <2>5, <3>1, <3>3, <3>4 DEF Results
  <2> QED
    BY <1>5, <2>4, <2>5, Zenon DEF Signal
<1>6. CASE Log
  BY <1>6, LogTyped
<1>7. CASE Alert
  BY <1>7 DEF Alert
<1>8. CASE EndOfInput
  <2>1. audit \o buffer \in Seq(LogLines) /\ <<>> \in Seq(LogLines) /\ Len(<<>>) = 0
    BY ConcatProperties, EmptySeq
  <2>2. /\ audit' \in {audit, audit \o buffer} /\ buffer' = <<>> /\ pc' = "done"
        /\ torn' \in BOOLEAN
        /\ UNCHANGED <<hostVars, mode, event, counter, judged, outcome, bad, alerts, kills>>
    BY <1>8, Zenon DEF EndOfInput
  <2>3. audit' \in Seq(LogLines)
    <3>1. audit \in Seq(LogLines)
      OBVIOUS
    <3> QED
      BY <2>1, <2>2, <3>1, Zenon
  <2>4. buffer' \in Seq(LogLines) /\ Len(buffer') <= 1
    BY <2>1, <2>2
  <2> QED
    BY <2>2, <2>3, <2>4
<1> QED
  BY <1>1, <1>2, <1>3, <1>4, <1>5, <1>6, <1>7, <1>8 DEF LoopStep

\* So does every step.
LEMMA StepTyped == Typed /\ [Next]_vars => Typed'
<1> SUFFICES ASSUME Typed, [Next]_vars PROVE Typed'
  OBVIOUS
<1>1. CASE Crash
  <2>1. <<>> \in Seq(LogLines) /\ Len(<<>>) = 0
    BY EmptySeq
  <2> QED
    BY <1>1, <2>1 DEF Crash, Typed, ServiceTypeOK, hostVars, Handling
<1>2. CASE UNCHANGED vars
  BY <1>2 DEF vars, hostVars, loopVars, Typed, ServiceTypeOK, Handling
<1> QED
  BY <1>1, <1>2, HostTyped, LoopTyped DEF Next, Stopped

-----------------------------------------------------------------------------
(***************************************************************************)
(* Texts in JSON: json_escape loses nothing                                *)
(***************************************************************************)
\* The characters of an escaped text.
Signs(C) == C \cup {Backslash, "u"}

\* What stands for a character is written in them.
LEMMA EscapeTyped ==
  ASSUME NEW C, NEW c \in C
  PROVE  Escape(c) \in Seq(Signs(C))
<1>1. /\ <<c>> \in Seq(Signs(C)) /\ <<Backslash, c>> \in Seq(Signs(C))
      /\ <<Backslash, "u", c>> \in Seq(Signs(C))
  BY DEF Signs
<1> HIDE DEF Signs
<1> QED
  BY <1>1 DEF Escape

\* The loop of json_escape: what it has after each character.
LEMMA EscapedSteps ==
  ASSUME NEW C, NEW text \in Seq(C)
  PROVE  \E f \in [0..Len(text) -> Seq(Signs(C))] :
           /\ f[0] = <<>>
           /\ \A i \in 1..Len(text) : f[i] = f[i - 1] \o Escape(text[i])
           /\ Escaped(text) = f[Len(text)]
<1> DEFINE n == Len(text)
           S == Seq(Signs(C))
           a == <<>>
           step == [p \in S \X (1..n) |-> p[1] \o Escape(text[p[2]])]
           Body(g) == [i \in 0..n |-> IF i = 0 THEN a ELSE g[i - 1] \o Escape(text[i])]
<1>1. n \in Nat /\ a \in S
  OBVIOUS
<1>2. \A s \in S, i \in 1..n : s \o Escape(text[i]) \in S
  <2> TAKE s \in S, i \in 1..n
  <2>1. text[i] \in C
    OBVIOUS
  <2> QED
    BY <2>1, EscapeTyped, ConcatProperties
<1> HIDE DEF n, S
<1>3. \A s \in S, i \in 1..n : step[<<s, i>>] \in S /\ step[<<s, i>>] = s \o Escape(text[i])
  BY <1>2
<1> HIDE DEF step, a
<1>4. PICK f \in [0..n -> S] : f[0] = a /\ \A i \in 1..n : f[i] = step[<<f[i - 1], i>>]
  <2>1. StaysIn(step, S, n)
    BY <1>3 DEF StaysIn
  <2>2. PICK f : Follows(f, step, S, n, a)
    BY <1>1, <2>1, Recursion
  <2> QED
    BY <2>2 DEF Follows
<1>5. \A i \in 1..n : f[i] = f[i - 1] \o Escape(text[i])
  <2> TAKE i \in 1..n
  <2>1. f[i - 1] \in S
    BY <1>1
  <2> QED
    BY <1>3, <1>4, <2>1
<1>6. f = Body(f)
  <2>1. f = [i \in 0..n |-> f[i]]
    BY Zenon
  <2>2. \A i \in 0..n : f[i] = IF i = 0 THEN a ELSE f[i - 1] \o Escape(text[i])
    <3>1. \A i \in 0..n : i = 0 \/ i \in 1..n
      BY <1>1
    <3>2. \A i \in 1..n : i # 0
      BY <1>1
    <3> QED
      BY <1>4, <1>5, <3>1, <3>2, Zenon
  <2> QED
    BY <2>1, <2>2, Zenon
<1> DEFINE h == CHOOSE g : g = Body(g)
<1>7. h = Body(h)
  <2> HIDE DEF Body
  <2> QED
    BY <1>6, Zenon
<1>8. Escaped(text) = h[n]
  BY Zenon DEF Escaped, h, n, a
<1> HIDE DEF h
<1>9. h[0] = a /\ \A i \in 1..n : h[i] = h[i - 1] \o Escape(text[i])
  <2>1. \A i \in 0..n : Body(h)[i] = IF i = 0 THEN a ELSE h[i - 1] \o Escape(text[i])
    BY Zenon
  <2>2. 0 \in 0..n /\ \A i \in 1..n : i \in 0..n /\ i # 0
    BY <1>1
  <2> HIDE DEF Body
  <2> QED
    BY <1>7, <2>1, <2>2, Zenon
<1>10. \A i \in 0..n : f[i] = h[i]
  <2>1. ASSUME NEW i \in 1..n, f[i - 1] = h[i - 1] PROVE f[i] = h[i]
    BY <1>5, <1>9, <2>1, Zenon
  <2>2. f[0] = h[0]
    BY <1>4, <1>9, Zenon
  <2> QED
    <3>1. GoAlike(f, h, n)
      BY <2>1, <2>2, Zenon DEF GoAlike
    <3> QED
      BY <1>1, <3>1, SameUpTo
<1>11. f[n] = h[n]
  BY <1>1, <1>10
<1> QED
  BY <1>4, <1>5, <1>8, <1>11, Zenon DEF n, S, a

\* An empty text stays empty.
LEMMA EscapedEmpty == Escaped(<<>>) = <<>>
<1>1. <<>> \in Seq({}) /\ Len(<<>>) = 0
  OBVIOUS
<1>2. PICK f \in [0..Len(<<>>) -> Seq(Signs({}))] : f[0] = <<>> /\ Escaped(<<>>) = f[Len(<<>>)]
  BY <1>1, EscapedSteps, Zenon
<1> QED
  BY <1>1, <1>2, Zenon

\* The escape of a longer text is that of the shorter one and of its last character.
LEMMA EscapedAppend ==
  ASSUME NEW C, NEW text \in Seq(C), NEW c \in C
  PROVE  /\ Escaped(text) \in Seq(Signs(C))
         /\ Escaped(Append(text, c)) = Escaped(text) \o Escape(c)
<1> DEFINE n == Len(text)
           longer == Append(text, c)
<1>1. /\ n \in Nat /\ longer \in Seq(C) /\ Len(longer) = n + 1 /\ longer[n + 1] = c
      /\ \A i \in 1..n : longer[i] = text[i]
  OBVIOUS
<1>2. PICK f \in [0..n -> Seq(Signs(C))] :
        /\ f[0] = <<>> /\ \A i \in 1..n : f[i] = f[i - 1] \o Escape(text[i])
        /\ Escaped(text) = f[n]
  BY EscapedSteps
<1> HIDE DEF longer
<1>3. PICK g \in [0..(n + 1) -> Seq(Signs(C))] :
        /\ g[0] = <<>> /\ \A i \in 1..(n + 1) : g[i] = g[i - 1] \o Escape(longer[i])
        /\ Escaped(longer) = g[n + 1]
  <2>1. PICK g \in [0..Len(longer) -> Seq(Signs(C))] :
        /\ g[0] = <<>> /\ \A i \in 1..Len(longer) : g[i] = g[i - 1] \o Escape(longer[i])
        /\ Escaped(longer) = g[Len(longer)]
    BY <1>1, EscapedSteps
  <2> QED
    BY <1>1, <2>1
<1> HIDE DEF n
<1>4. \A i \in 0..n : f[i] = g[i]
  <2>1. \A i \in 1..n : i \in 1..(n + 1)
    BY <1>1
  <2>2. GoAlike(f, g, n)
    BY <1>1, <1>2, <1>3, <2>1, Zenon DEF GoAlike
  <2>3. n \in Nat
    BY <1>1
  <2> QED
    BY ONLY <2>2, <2>3, SameUpTo
<1>5. g[n + 1] = g[n] \o Escape(c) /\ f[n] = g[n]
  <2>1. n + 1 \in 1..(n + 1) /\ (n + 1) - 1 = n /\ n \in 0..n
    BY <1>1
  <2> QED
    BY <1>1, <1>3, <1>4, <2>1, Zenon
<1> QED
  BY <1>1, <1>2, <1>3, <1>5 DEF longer

\* What the reader may be at, and the text it has so far.
Readers(C) == [at : {"text", "escape", "hex", "broken"}, text : Seq(C)]

\* A character leaves the reader at one of its places.
LEMMA ReadingTyped ==
  ASSUME NEW C, NEW s \in Readers(C), NEW c \in C
  PROVE  Reading(s, c) \in Readers(C)
<1>1. Append(s.text, c) \in Seq(C)
  BY DEF Readers
<1>2. [s EXCEPT !.at = "escape"] \in Readers(C)
  BY DEF Readers
<1>3. [s EXCEPT !.at = "broken"] \in Readers(C)
  BY DEF Readers
<1>4. [s EXCEPT !.text = Append(@, c)] \in Readers(C)
  BY <1>1 DEF Readers
<1>5. [s EXCEPT !.at = "hex"] \in Readers(C)
  BY DEF Readers
<1>6. [at |-> "text", text |-> Append(s.text, c)] \in Readers(C)
  BY <1>1 DEF Readers
<1> QED
  BY <1>2, <1>3, <1>4, <1>5, <1>6, Zenon DEF Reading

\* How the reader begins.
Begin == [at |-> "text", text |-> <<>>]

\* What the reader has after each character.
LEMMA ReadBackSteps ==
  ASSUME NEW C, NEW json \in Seq(C)
  PROVE  \E f \in [0..Len(json) -> Readers(C)] :
           /\ f[0] = Begin
           /\ \A i \in 1..Len(json) : f[i] = Reading(f[i - 1], json[i])
           /\ ReadBack(json) = f[Len(json)]
<1> DEFINE n == Len(json)
           S == Readers(C)
           step == [p \in S \X (1..n) |-> Reading(p[1], json[p[2]])]
           Body(g) == [i \in 0..n |-> IF i = 0 THEN Begin ELSE Reading(g[i - 1], json[i])]
<1>1. n \in Nat /\ Begin \in S
  BY DEF Begin, Readers
<1>2. \A s \in S, i \in 1..n : Reading(s, json[i]) \in S
  <2> TAKE s \in S, i \in 1..n
  <2>1. json[i] \in C
    OBVIOUS
  <2> QED
    BY <2>1, ReadingTyped
<1> HIDE DEF n, S
<1>3. \A s \in S, i \in 1..n : step[<<s, i>>] \in S /\ step[<<s, i>>] = Reading(s, json[i])
  BY <1>2
<1> HIDE DEF step
<1>4. PICK f \in [0..n -> S] : f[0] = Begin /\ \A i \in 1..n : f[i] = step[<<f[i - 1], i>>]
  <2>1. StaysIn(step, S, n)
    BY <1>3 DEF StaysIn
  <2>2. PICK f : Follows(f, step, S, n, Begin)
    BY <1>1, <2>1, Recursion
  <2> QED
    BY <2>2 DEF Follows
<1>5. \A i \in 1..n : f[i] = Reading(f[i - 1], json[i])
  <2> TAKE i \in 1..n
  <2>1. f[i - 1] \in S
    BY <1>1
  <2> QED
    BY <1>3, <1>4, <2>1
<1>6. f = Body(f)
  <2>1. f = [i \in 0..n |-> f[i]]
    BY Zenon
  <2>2. \A i \in 0..n : f[i] = IF i = 0 THEN Begin ELSE Reading(f[i - 1], json[i])
    <3>1. \A i \in 0..n : i = 0 \/ i \in 1..n
      BY <1>1
    <3>2. \A i \in 1..n : i # 0
      BY <1>1
    <3> QED
      BY <1>4, <1>5, <3>1, <3>2, Zenon
  <2> QED
    BY <2>1, <2>2, Zenon
<1> DEFINE h == CHOOSE g : g = Body(g)
<1>7. h = Body(h)
  <2> HIDE DEF Body
  <2> QED
    BY <1>6, Zenon
<1>8. ReadBack(json) = h[n]
  BY Zenon DEF ReadBack, h, n, Begin
<1> HIDE DEF h
<1>9. h[0] = Begin /\ \A i \in 1..n : h[i] = Reading(h[i - 1], json[i])
  <2>1. \A i \in 0..n : Body(h)[i] = IF i = 0 THEN Begin ELSE Reading(h[i - 1], json[i])
    BY Zenon
  <2>2. 0 \in 0..n /\ \A i \in 1..n : i \in 0..n /\ i # 0
    BY <1>1
  <2> HIDE DEF Body
  <2> QED
    BY <1>7, <2>1, <2>2, Zenon
<1>10. \A i \in 0..n : f[i] = h[i]
  <2>1. ASSUME NEW i \in 1..n, f[i - 1] = h[i - 1] PROVE f[i] = h[i]
    BY <1>5, <1>9, <2>1, Zenon
  <2>2. f[0] = h[0]
    BY <1>4, <1>9, Zenon
  <2>3. GoAlike(f, h, n)
    BY <2>1, <2>2, Zenon DEF GoAlike
  <2> QED
    BY <1>1, <2>3, SameUpTo
<1>11. f[n] = h[n]
  BY <1>1, <1>10
<1> QED
  BY <1>4, <1>5, <1>8, <1>11, Zenon DEF n, S

\* It has read nothing in an empty string.
LEMMA ReadBackEmpty == ReadBack(<<>>) = Begin
<1>1. <<>> \in Seq({}) /\ Len(<<>>) = 0
  OBVIOUS
<1>2. PICK f \in [0..Len(<<>>) -> Readers({})] : f[0] = Begin /\ ReadBack(<<>>) = f[Len(<<>>)]
  BY <1>1, ReadBackSteps, Zenon
<1> QED
  BY <1>1, <1>2, Zenon

\* It reads one character after the other.
LEMMA ReadBackAppend ==
  ASSUME NEW C, NEW json \in Seq(C), NEW c \in C
  PROVE  ReadBack(Append(json, c)) = Reading(ReadBack(json), c)
<1> DEFINE n == Len(json)
           longer == Append(json, c)
<1>1. /\ n \in Nat /\ longer \in Seq(C) /\ Len(longer) = n + 1 /\ longer[n + 1] = c
      /\ \A i \in 1..n : longer[i] = json[i]
  OBVIOUS
<1>2. PICK f \in [0..n -> Readers(C)] :
        /\ f[0] = Begin /\ \A i \in 1..n : f[i] = Reading(f[i - 1], json[i])
        /\ ReadBack(json) = f[n]
  BY ReadBackSteps
<1> HIDE DEF longer
<1>3. PICK g \in [0..(n + 1) -> Readers(C)] :
        /\ g[0] = Begin /\ \A i \in 1..(n + 1) : g[i] = Reading(g[i - 1], longer[i])
        /\ ReadBack(longer) = g[n + 1]
  <2>1. PICK g \in [0..Len(longer) -> Readers(C)] :
        /\ g[0] = Begin /\ \A i \in 1..Len(longer) : g[i] = Reading(g[i - 1], longer[i])
        /\ ReadBack(longer) = g[Len(longer)]
    BY <1>1, ReadBackSteps
  <2> QED
    BY <1>1, <2>1
<1> HIDE DEF n
<1>4. \A i \in 0..n : f[i] = g[i]
  <2>1. \A i \in 1..n : i \in 1..(n + 1)
    BY <1>1
  <2>2. GoAlike(f, g, n)
    BY <1>1, <1>2, <1>3, <2>1, Zenon DEF GoAlike
  <2>3. n \in Nat
    BY <1>1
  <2> QED
    BY ONLY <2>2, <2>3, SameUpTo
<1>5. g[n + 1] = Reading(g[n], c) /\ f[n] = g[n]
  <2>1. n + 1 \in 1..(n + 1) /\ (n + 1) - 1 = n /\ n \in 0..n
    BY <1>1
  <2> QED
    BY <1>1, <1>3, <1>4, <2>1, Zenon
<1> QED
  BY <1>1, <1>2, <1>3, <1>5 DEF longer

\* The characters with a meaning of their own are told apart.
LEMMA SignsDiffer ==
  /\ Backslash # Quote /\ Backslash # Control /\ Backslash # Delete /\ Backslash # "u"
  /\ Quote # "u" /\ Control # "u" /\ Quote # Control /\ Quote # Delete
BY DEF Backslash, Quote, Control, Delete

\* The reader has this text and is ready for more.
ReadAs(text) == [at |-> "text", text |-> text]

\* The reader gets one character out of an escaped one.
LEMMA ReadsEscape ==
  ASSUME NEW C, NEW text \in Seq(C), NEW c \in C,
         NEW json \in Seq(Signs(C)), ReadBack(json) = ReadAs(text)
  PROVE  ReadBack(json \o Escape(c)) = ReadAs(Append(text, c))
<1> DEFINE escape == [at |-> "escape", text |-> text]
           hex == [at |-> "hex", text |-> text]
<1>1. c \in Signs(C) /\ Backslash \in Signs(C) /\ "u" \in Signs(C)
  BY DEF Signs
<1>2. /\ Append(json, Backslash) \in Seq(Signs(C))
      /\ Append(Append(json, Backslash), "u") \in Seq(Signs(C))
  BY <1>1
<1>3. ReadBack(Append(json, Backslash)) = escape
  <2>1. Reading(ReadAs(text), Backslash) = escape
    BY SignsDiffer DEF Reading, ReadAs
  <2> QED
    BY <1>1, <2>1, ReadBackAppend
<1>4. CASE c \in {Control, Delete}
  <2>1. Reading(escape, "u") = hex
    BY SignsDiffer DEF Reading
  <2>2. Reading(hex, c) = ReadAs(Append(text, c))
    BY DEF Reading, ReadAs
  <2>3. json \o Escape(c) = Append(Append(Append(json, Backslash), "u"), c)
    <3>1. Escape(c) = <<Backslash, "u", c>>
      BY <1>4, SignsDiffer DEF Escape
    <3> DEFINE b == Backslash
               u == "u"
    <3>2. json \in Seq(Signs(C)) /\ b \in Signs(C) /\ u \in Signs(C) /\ c \in Signs(C)
      BY <1>1
    <3> HIDE DEF b, u
    <3>3. json \o <<b, u, c>> = Append(Append(Append(json, b), u), c)
      BY <3>2
    <3> QED
      BY <3>1, <3>3 DEF b, u
  <2> QED
    BY <1>1, <1>2, <1>3, <2>1, <2>2, <2>3, ReadBackAppend
<1>5. CASE c \in {Backslash, Quote}
  <2>1. Reading(escape, c) = ReadAs(Append(text, c))
    BY <1>5, SignsDiffer DEF Reading, ReadAs
  <2>2. json \o Escape(c) = Append(Append(json, Backslash), c)
    BY <1>1, <1>5, SignsDiffer DEF Escape
  <2> QED
    BY <1>1, <1>2, <1>3, <2>1, <2>2, ReadBackAppend
<1>6. CASE c \notin {Control, Delete, Backslash, Quote}
  <2>1. Reading(ReadAs(text), c) = ReadAs(Append(text, c))
    BY <1>6 DEF Reading, ReadAs
  <2>2. json \o Escape(c) = Append(json, c)
    BY <1>1, <1>6 DEF Escape
  <2> QED
    BY <1>1, <2>1, <2>2, ReadBackAppend
<1> QED
  BY <1>4, <1>5, <1>6

\* Escaping loses nothing: a JSON reader has the text back.
THEOREM EscapedReadsAs ==
  ASSUME NEW C, NEW text \in Seq(C)
  PROVE  ReadsAs(Escaped(text), text)
<1> DEFINE T == {n \in Nat : \A t \in Seq(C) : Len(t) = n => ReadBack(Escaped(t)) = ReadAs(t)}
<1>1. 0 \in T
  <2>1. \A t \in Seq(C) : Len(t) = 0 => t = <<>>
    OBVIOUS
  <2>2. ReadBack(Escaped(<<>>)) = ReadAs(<<>>)
    BY EscapedEmpty, ReadBackEmpty DEF Begin, ReadAs
  <2> QED
    BY <2>1, <2>2
<1>2. ASSUME NEW n \in Nat \ {0}, n - 1 \in T PROVE n \in T
  <2> SUFFICES ASSUME NEW t \in Seq(C), Len(t) = n
               PROVE  ReadBack(Escaped(t)) = ReadAs(t)
    OBVIOUS
  <2>1. PICK s \in Seq(C), c \in C : t = Append(s, c) /\ Len(s) = n - 1
    <3> DEFINE s == SubSeq(t, 1, n - 1)
    <3>1. s \in Seq(C) /\ Len(s) = n - 1 /\ t[n] \in C /\ t = Append(s, t[n])
      OBVIOUS
    <3> QED
      BY <3>1
  <2>2. ReadBack(Escaped(s)) = ReadAs(s)
    BY <1>2, <2>1
  <2>3. Escaped(s) \in Seq(Signs(C)) /\ Escaped(t) = Escaped(s) \o Escape(c)
    BY <2>1, EscapedAppend
  <2> QED
    BY <2>1, <2>2, <2>3, ReadsEscape
<1>3. Len(text) \in T
  <2> DEFINE n == Len(text)
  <2>1. n \in Nat /\ \A i \in 1..n : i - 1 \in T => i \in T
    BY <1>2
  <2> HIDE DEF T, n
  <2>2. 0..n \subseteq T
    BY <1>1, <2>1, UpTo
  <2> QED
    BY <2>1, <2>2 DEF n
<1> QED
  BY <1>3 DEF ReadsAs, ReadAs

-----------------------------------------------------------------------------
(***************************************************************************)
(* The audit trail                                                         *)
(***************************************************************************)
Numbered(records) == \A i \in DOMAIN records : records[i].id = i - 1

\* The beginning of a numbered trail is numbered.
LEMMA NumberedBeginning ==
  ASSUME NEW S, NEW s \in Seq(S), NEW t \in Seq(S), Numbered(s \o t)
  PROVE  Numbered(s) /\ Numbered(<<>>)
<1>1. /\ Len(s) \in Nat /\ Len(t) \in Nat /\ DOMAIN s = 1..Len(s)
      /\ DOMAIN (s \o t) = 1..(Len(s) + Len(t))
      /\ \A i \in 1..Len(s) : (s \o t)[i] = s[i]
  BY ConcatProperties, LenProperties
<1>2. \A i \in 1..Len(s) : s[i].id = i - 1
  BY <1>1 DEF Numbered
<1> QED
  BY <1>1, <1>2 DEF Numbered

\* A numbered trail goes on with the next number.
LEMMA NumberedOn ==
  ASSUME NEW S, NEW s \in Seq(S), NEW e \in S, Numbered(s), e.id = Len(s)
  PROVE  Numbered(Append(s, e))
<1>1. /\ Len(s) \in Nat /\ DOMAIN s = 1..Len(s)
      /\ DOMAIN Append(s, e) = 1..(Len(s) + 1)
      /\ Append(s, e)[Len(s) + 1] = e
      /\ \A i \in 1..Len(s) : Append(s, e)[i] = s[i]
  BY AppendProperties, LenProperties
<1>2. ASSUME NEW i \in 1..(Len(s) + 1) PROVE Append(s, e)[i].id = i - 1
  <2>1. CASE i \in 1..Len(s)
    BY <1>1, <2>1 DEF Numbered
  <2>2. CASE i = Len(s) + 1
    BY <1>1, <2>2
  <2> QED
    BY <1>1, <1>2, <2>1, <2>2
<1> QED
  BY <1>1, <1>2 DEF Numbered

\* What follows takes no event out of a trail.
LEMMA IdsGrow ==
  ASSUME NEW S, NEW s \in Seq(S), NEW t \in Seq(S)
  PROVE  IdsOf(s) \subseteq IdsOf(s \o t)
<1>1. /\ Len(s) \in Nat /\ Len(t) \in Nat /\ DOMAIN s = 1..Len(s)
      /\ DOMAIN (s \o t) = 1..(Len(s) + Len(t))
      /\ \A i \in 1..Len(s) : (s \o t)[i] = s[i]
  BY ConcatProperties, LenProperties
<1> QED
  BY <1>1 DEF IdsOf

\* A numbered trail leaves out no event up to its last.
LEMMA NumberedIds ==
  ASSUME NEW S, NEW s \in Seq(S), Numbered(s)
  PROVE  0..(Len(s) - 1) \subseteq IdsOf(s)
<1> SUFFICES ASSUME NEW n \in 0..(Len(s) - 1) PROVE n \in IdsOf(s)
  OBVIOUS
<1>1. Len(s) \in Nat /\ DOMAIN s = 1..Len(s)
  BY LenProperties
<1>2. n + 1 \in DOMAIN s /\ s[n + 1].id = n
  BY <1>1 DEF Numbered
<1> QED
  BY <1>2 DEF IdsOf

\* The trail, in short: numbered, and as long as the events behind it.
Long ==
  ~bad /\ pc # "crashed" =>
    /\ Len(audit) + Len(buffer) = IF Settling THEN counter - 1 ELSE counter
    /\ torn => buffer # <<>>

\* AuditInOrder, in the terms of the invariant.
LEMMA TrailInShort == Typed => (AuditInOrder <=> Numbered(audit \o buffer) /\ Long)
<1> SUFFICES ASSUME Typed PROVE AuditInOrder <=> Numbered(audit \o buffer) /\ Long
  OBVIOUS
<1>1. Len(audit \o buffer) = Len(audit) + Len(buffer)
  BY ConcatProperties DEF Typed
<1> QED
  BY <1>1 DEF AuditInOrder, Logged, Numbered, Long

\* The output, as a step may leave it that logs nothing: written or lost.
Passed ==
  /\ \/ audit' = audit /\ buffer' \in {buffer, <<>>}
     \/ audit' = audit \o buffer /\ buffer' = <<>>

\* Writing the buffer out, or losing it, leaves the trail numbered.
LEMMA PassedKeeps ==
  ASSUME Typed, Numbered(audit \o buffer), Passed
  PROVE  Numbered(audit' \o buffer') /\ IdsOf(audit) \subseteq IdsOf(audit')
<1>1. /\ audit \in Seq(LogLines) /\ buffer \in Seq(LogLines)
      /\ audit \o buffer \in Seq(LogLines)
      /\ audit \o <<>> = audit /\ (audit \o buffer) \o <<>> = audit \o buffer
  BY ConcatProperties, ConcatEmptySeq DEF Typed
<1>2. Numbered(audit)
  BY <1>1, NumberedBeginning
<1>3. CASE audit' = audit /\ buffer' = buffer
  BY <1>3
<1>4. CASE audit' = audit /\ buffer' = <<>>
  BY <1>1, <1>2, <1>4
<1>5. CASE audit' = audit \o buffer /\ buffer' = <<>>
  <2>1. audit' \o buffer' = audit \o buffer
    BY <1>1, <1>5
  <2> QED
    BY <1>1, <1>5, <2>1, IdsGrow
<1> QED
  BY <1>3, <1>4, <1>5 DEF Passed

\* A flush does one of the two; it loses nothing unless the stream turns bad.
LEMMA WrittenPasses ==
  ASSUME Typed, Written \/ PartWritten \/ NotWritten
  PROVE  /\ Passed
         /\ ~bad' => /\ ~bad /\ Len(audit') + Len(buffer') = Len(audit) + Len(buffer)
                     /\ torn' => buffer' # <<>>
<1>1. audit \in Seq(LogLines) /\ buffer \in Seq(LogLines)
  BY DEF Typed
<1>2. Len(audit \o buffer) = Len(audit) + Len(buffer) /\ Len(<<>>) = 0
      /\ Len(audit) \in Nat /\ Len(buffer) \in Nat
  BY <1>1, ConcatProperties, LenProperties, EmptySeq
<1>3. CASE Written
  <2>1. CASE bad
    BY <1>2, <1>3, <2>1 DEF Written, Passed
  <2>2. CASE ~bad
    BY <1>2, <1>3, <2>2 DEF Written, Passed
  <2> QED
    BY <2>1, <2>2
<1>4. CASE NotWritten
  BY <1>4 DEF NotWritten, Passed
<1>5. CASE PartWritten
  BY <1>5 DEF PartWritten, Passed, Typed, ServiceTypeOK, Written
<1> QED
  BY <1>3, <1>4, <1>5

-----------------------------------------------------------------------------
(***************************************************************************)
(* The induction                                                           *)
(***************************************************************************)
LEMMA ServiceInvInit == Init => ServiceInv
<1> SUFFICES ASSUME Init PROVE ServiceInv
  OBVIOUS
<1>1. Typed
  BY TypedInit
<1>2. audit = <<>> /\ buffer = <<>> /\ counter = 0 /\ kills = {} /\ pc = "flush" /\ ~torn
  BY DEF Init
<1>3. AuditInOrder
  <2>1. audit \o buffer = <<>>
    BY <1>2, ConcatEmptySeq DEF Typed
  <2>2. Numbered(audit \o buffer)
    BY <2>1 DEF Numbered
  <2>3. Long
    BY <1>2, EmptySeq DEF Long, Settling
  <2> QED
    BY <1>1, <2>2, <2>3, TrailInShort
<1>4. KillsAudited
  BY <1>2 DEF KillsAudited, Handling
<1> QED
  BY <1>1, <1>3, <1>4 DEF ServiceInv

\* A step that neither reads, kills nor logs.
Silent ==
  /\ Passed
  /\ kills' = kills /\ counter' = counter
  /\ pc' # "crashed" => (Settling' <=> Settling) /\ pc # "crashed"
  /\ Handling' => Handling
  /\ pc' \in {"kill", "signal"} => pc \in {"kill", "signal"}
  /\ ~bad' => ~bad
  /\ ~bad' /\ pc' # "crashed" => Len(audit') + Len(buffer') = Len(audit) + Len(buffer)
  /\ ~bad' /\ pc' # "crashed" /\ torn' => buffer' # <<>> \/ (torn /\ buffer' = buffer)

\* Steps that neither read, kill nor log keep the invariant.
LEMMA SilentKeeps == ServiceInv /\ Typed' /\ Silent => ServiceInv'
<1> SUFFICES ASSUME ServiceInv, Typed', Silent PROVE ServiceInv'
  OBVIOUS
<1> USE DEF ServiceInv
<1>1. Numbered(audit \o buffer) /\ Long
  BY TrailInShort
<1>2. Numbered(audit' \o buffer') /\ IdsOf(audit) \subseteq IdsOf(audit')
  BY <1>1, PassedKeeps DEF Silent
<1>3. Long'
  BY <1>1 DEF Long, Silent
<1>4. AuditInOrder'
  <2>1. Numbered(audit \o buffer)'
    BY <1>2 DEF Numbered
  <2> QED
    BY <1>3, <2>1, TrailInShort, PTL
<1>5. KillsAudited'
  <2>1. IdsOf(audit)' = IdsOf(audit')
    BY DEF IdsOf
  <2> QED
    BY <1>2, <2>1 DEF KillsAudited, Handling, Silent
<1> QED
  BY <1>4, <1>5

\* An event is read when all before it have their line in the output.
LEMMA ReadKeeps == ServiceInv /\ Typed' /\ ReadLine => ServiceInv'
<1> SUFFICES ASSUME ServiceInv, Typed', ReadLine PROVE ServiceInv'
  OBVIOUS
<1> USE DEF ServiceInv
<1>1. /\ pc = "read" /\ UNCHANGED <<torn, bad, audit, buffer, kills>>
  BY DEF ReadLine
<1>2. CASE pc' = "flush" /\ UNCHANGED counter
  <2>1. Silent
    BY <1>1, <1>2 DEF Silent, Passed, Settling, Handling
  <2> QED
    BY <2>1, SilentKeeps
<1>3. CASE pc' \in {"kill", "log"} /\ counter' = counter + 1
  <2>1. Numbered(audit \o buffer) /\ Long
    BY TrailInShort
  <2>2. counter \in Nat
    BY DEF Typed, ServiceTypeOK
  <2>3. AuditInOrder'
    <3>1. Numbered(audit \o buffer)'
      BY <1>1, <2>1 DEF Numbered
    <3>2. Long'
      BY <1>1, <1>3, <2>1, <2>2 DEF Long, Settling
    <3> QED
      BY <3>1, <3>2, TrailInShort, PTL
  <2>4. ~bad => 0..(counter - 1) \subseteq IdsOf(audit)
    <3> SUFFICES ASSUME ~bad PROVE 0..(counter - 1) \subseteq IdsOf(audit)
      OBVIOUS
    <3>1. buffer = <<>> /\ audit \in Seq(LogLines)
      BY <1>1 DEF Typed
    <3>2. audit \o buffer = audit /\ Len(buffer) = 0 /\ Len(audit) \in Nat
      BY <3>1, ConcatEmptySeq, EmptySeq, LenProperties
    <3>3. Numbered(audit) /\ Len(audit) = counter
      BY <1>1, <2>1, <3>2 DEF Long, Settling
    <3> QED
      BY <3>1, <3>3, NumberedIds
  <2>5. IdsOf(audit)' = IdsOf(audit)
    BY <1>1 DEF IdsOf
  <2>6. KillsAudited'
    BY <1>1, <1>3, <2>2, <2>4, <2>5 DEF KillsAudited, Handling
  <2> QED
    BY <2>3, <2>6
<1> QED
  BY <1>2, <1>3, Zenon DEF ReadLine

\* The process killed is put down to the event in hand, which has no other.
LEMMA SignalKeeps == ServiceInv /\ Typed' /\ Signal => ServiceInv'
<1> SUFFICES ASSUME ServiceInv, Typed', Signal PROVE ServiceInv'
  OBVIOUS
<1> USE DEF ServiceInv
<1> DEFINE new == [id |-> event.id, victim |-> Process(event.process[1]),
                   reported |-> event.process]
<1>1. /\ pc = "signal" /\ pc' = "log" /\ kills' \in {kills, kills \cup {new}}
      /\ UNCHANGED <<counter, torn, bad, audit, buffer>>
  BY DEF Signal, NotKilled
<1>2. CASE kills' = kills
  <2>1. Silent
    BY <1>1, <1>2 DEF Silent, Passed, Settling, Handling
  <2> QED
    BY <2>1, SilentKeeps
<1>3. CASE kills' = kills \cup {new}
  <2>1. Numbered(audit \o buffer) /\ Long
    BY TrailInShort
  <2>2. AuditInOrder'
    <3>1. Numbered(audit \o buffer)'
      BY <1>1, <2>1 DEF Numbered
    <3>2. Long'
      BY <1>1, <2>1 DEF Long, Settling
    <3> QED
      BY <3>1, <3>2, TrailInShort, PTL
  <2>3. counter \in Nat /\ new.id = counter - 1
    BY DEF Typed, ServiceTypeOK
  <2>4. IdsOf(audit)' = IdsOf(audit)
    BY <1>1 DEF IdsOf
  <2>5. KillsAudited'
    <3> HIDE DEF new
    <3> QED
      BY <1>1, <1>3, <2>3, <2>4 DEF KillsAudited, Handling
  <2> QED
    BY <2>2, <2>5
<1> QED
  BY <1>1, <1>2, <1>3

\* The line logged has the number of the event in hand, the next in the trail.
LEMMA LogKeeps == ServiceInv /\ Typed' /\ Log => ServiceInv'
<1> SUFFICES ASSUME ServiceInv, Typed', Log PROVE ServiceInv'
  OBVIOUS
<1> USE DEF ServiceInv
<1> DEFINE line == [id |-> event.id, denied |-> Denied, exe |-> JsonEscape(event.exe),
                    outcome |-> outcome, severity |-> Severity]
<1>1. /\ pc = "log" /\ pc' \in {"alert", "flush"}
      /\ buffer' = IF bad THEN buffer ELSE Append(buffer, line)
      /\ UNCHANGED <<counter, torn, bad, audit, kills>>
  BY DEF Log
<1>2. Numbered(audit \o buffer) /\ Long /\ counter \in Nat
  <2>1. Numbered(audit \o buffer) /\ Long /\ ServiceTypeOK
    BY TrailInShort DEF Typed
  <2> QED
    BY <2>1, CounterIsNat
<1>3. Numbered(audit \o buffer)' /\ Long'
  <2>1. CASE bad
    BY <1>1, <1>2, <2>1 DEF Numbered, Long
  <2>2. CASE ~bad
    <3>1. buffer = <<>> /\ audit \in Seq(LogLines) /\ buffer' \in Seq(LogLines)
      BY <1>1, <2>2 DEF Typed
    <3>2. buffer' = <<line>> /\ line.id = counter - 1
      BY <1>1, <2>2, <3>1 DEF Typed, ServiceTypeOK
    <3>3. line \in LogLines
      <4>1. buffer'[1] \in LogLines
        <5> HIDE DEF line
        <5> QED
          BY <3>1, <3>2
      <4> QED
        BY <3>2, <4>1
    <3> HIDE DEF line
    <3>4. audit \o buffer = audit /\ audit \o buffer' = Append(audit, line)
          /\ Len(buffer) = 0 /\ Len(buffer') = 1 /\ Len(audit) \in Nat
      BY <3>1, <3>2, <3>3, ConcatEmptySeq, AppendIsConcat, EmptySeq, LenProperties
    <3>5. Len(audit) = counter - 1
      BY <1>1, <1>2, <2>2, <3>4 DEF Long, Settling
    <3>6. Numbered(audit \o buffer')
      BY <1>2, <3>1, <3>2, <3>3, <3>4, <3>5, NumberedOn
    <3>7. Numbered(audit \o buffer)'
      BY <1>1, <3>6 DEF Numbered
    <3>8. Long'
      <4>1. ~Settling'
        BY <1>1 DEF Settling
      <4>2. Len(audit') + Len(buffer') = counter' /\ buffer' # <<>>
        BY <1>1, <1>2, <3>4, <3>5, EmptySeq
      <4> QED
        BY <4>1, <4>2 DEF Long
    <3> QED
      BY <3>7, <3>8
  <2> QED
    BY <2>1, <2>2
<1>4. AuditInOrder'
  BY <1>3, TrailInShort, PTL
<1>5. KillsAudited'
  <2>1. IdsOf(audit)' = IdsOf(audit)
    BY <1>1 DEF IdsOf
  <2> QED
    BY <1>1, <2>1 DEF KillsAudited, Handling
<1> QED
  BY <1>4, <1>5

\* No step breaks the invariant.
LEMMA StepKeeps == ServiceInv /\ [Next]_vars => ServiceInv'
<1> SUFFICES ASSUME ServiceInv, [Next]_vars PROVE ServiceInv'
  OBVIOUS
<1>1. Typed'
  BY StepTyped DEF ServiceInv
<1>2. CASE ReadLine
  BY <1>1, <1>2, ReadKeeps
<1>3. CASE Signal
  BY <1>1, <1>3, SignalKeeps
<1>4. CASE Log
  BY <1>1, <1>4, LogKeeps
<1>5. ASSUME Silent PROVE ServiceInv'
  BY <1>1, <1>5, SilentKeeps
<1>6. CASE Flush
  <2>1. Typed /\ (Written \/ PartWritten \/ NotWritten)
    BY <1>6 DEF Flush, ServiceInv
  <2>2. /\ Passed
        /\ ~bad' => /\ ~bad /\ Len(audit') + Len(buffer') = Len(audit) + Len(buffer)
                    /\ torn' => buffer' # <<>>
    BY <2>1, WrittenPasses
  <2>3. Silent
    BY <1>6, <2>2 DEF Flush, Silent, Settling, Handling
  <2> QED
    BY <1>5, <2>3
<1>7. CASE WriteEarly
  <2>1. Typed /\ (Written \/ PartWritten \/ NotWritten)
    BY <1>7 DEF WriteEarly, ServiceInv
  <2>2. /\ Passed
        /\ ~bad' => /\ ~bad /\ Len(audit') + Len(buffer') = Len(audit) + Len(buffer)
                    /\ torn' => buffer' # <<>>
    BY <2>1, WrittenPasses
  <2>3. Silent
    BY <1>7, <2>2 DEF WriteEarly, Silent, Settling, Handling
  <2> QED
    BY <1>5, <2>3
<1>8. CASE LookUp
  <2>1. Silent
    BY <1>8 DEF LookUp, NotKilled, Silent, Passed, Settling, Handling
  <2> QED
    BY <1>5, <2>1
<1>9. CASE Alert
  <2>1. Silent
    BY <1>9 DEF Alert, Silent, Passed, Settling, Handling
  <2> QED
    BY <1>5, <2>1
<1>10. CASE EndOfInput
  <2>1. /\ pc = "read" /\ pc' = "done" /\ buffer' = <<>>
        /\ audit' \in {audit, audit \o buffer} /\ UNCHANGED <<counter, bad, kills>>
        /\ torn' => torn \/ buffer # <<>>
    BY <1>10 DEF EndOfInput
  <2>2. ~bad => buffer = <<>> /\ audit \o buffer = audit
    BY <2>1, ConcatEmptySeq DEF ServiceInv, Typed
  <2>3. Silent
    BY <2>1, <2>2 DEF Silent, Passed, Settling, Handling
  <2> QED
    BY <1>5, <2>3
<1>11. CASE Crash
  <2>1. Silent
    BY <1>11 DEF Crash, Silent, Passed, Handling
  <2> QED
    BY <1>5, <2>1
<1>12. CASE HostStep \/ UNCHANGED vars
  <2>1. UNCHANGED loopVars
    BY <1>12 DEF HostStep, Spawn, Exit, Report, Write, Noise, CloseInput, vars
  <2>2. Silent
    BY <2>1 DEF loopVars, Silent, Passed, Settling, Handling
  <2> QED
    BY <1>5, <2>2
<1> QED
  BY <1>2, <1>3, <1>4, <1>6, <1>7, <1>8, <1>9, <1>10, <1>11, <1>12
     DEF Next, LoopStep, Stopped

\* The invariant holds in every reachable state.
LEMMA ServiceInvHolds == Spec => []ServiceInv
<1>1. Init => ServiceInv
  BY ServiceInvInit
<1>2. ServiceInv /\ [Next]_vars => ServiceInv'
  BY StepKeeps
<1> QED
  BY <1>1, <1>2, PTL DEF Spec

-----------------------------------------------------------------------------
(***************************************************************************)
(* What the trail says, and what is alerted                                *)
(***************************************************************************)
\* The trail has no more lines than there were events.
NotAhead == Len(audit) + Len(buffer) <= IF Settling THEN counter - 1 ELSE counter

\* The loop kills for a denied event only, and when it enforces; it takes the event for
\* enforced when it has killed for it.
InHand ==
  /\ Handling => event.exe = judged[counter]
  /\ pc \in {"kill", "signal"} => Denied /\ mode = "enforce" /\ outcome = NotEnforced
  /\ Handling /\ outcome.action # "none" => Denied /\ mode = "enforce"
  /\ pc = "alert" => Denied
  /\ pc = "log" => (outcome.enforced <=> \E k \in kills : k.id = event.id)

\* What AuditIsTrue says of a line, in the terms of the writer.
TrueLine(line) ==
  /\ line.id + 1 \in DOMAIN judged
  /\ line.exe = JsonEscape(judged[line.id + 1])
  /\ line.denied <=> judged[line.id + 1] \in DeniedExes
  /\ line.outcome.enforced <=> \E k \in kills : k.id = line.id
  /\ line.outcome.action # "none" => line.denied /\ line.severity = "critical"

TrueTrail == \A i \in DOMAIN Logged : TrueLine(Logged[i])

TrueInv == ServiceInv /\ NotAhead /\ InHand /\ TrueTrail

\* The line of the event in hand.
Line == [id |-> event.id, denied |-> Denied, exe |-> JsonEscape(event.exe),
         outcome |-> outcome, severity |-> Severity]

\* A step that leaves the event in hand alone, or has none.
Aside ==
  /\ Passed
  /\ UNCHANGED <<mode, event, counter, judged, alerts, kills>>
  /\ \/ pc' = pc /\ outcome' = outcome
     \/ pc' = "crashed"
     \/ ~Handling /\ pc' \in {"read", "done", "flush"}
  /\ ~bad' => ~bad
  /\ ~bad' /\ pc' # "crashed" =>
       /\ Len(audit') + Len(buffer') = Len(audit) + Len(buffer)
       /\ pc # "crashed"

\* What is written or lost leaves a beginning of the trail, and if nothing is lost, all.
LEMMA PassedCuts ==
  ASSUME Typed, Passed
  PROVE  /\ \A i \in DOMAIN Logged' : i \in DOMAIN Logged /\ Logged'[i] = Logged[i]
         /\ Len(audit') + Len(buffer') <= Len(audit) + Len(buffer)
         /\ Len(audit') + Len(buffer') = Len(audit) + Len(buffer) => Logged' = Logged
<1>1. /\ audit \in Seq(LogLines) /\ buffer \in Seq(LogLines)
      /\ audit \o buffer \in Seq(LogLines)
      /\ audit \o <<>> = audit /\ (audit \o buffer) \o <<>> = audit \o buffer
  BY ConcatProperties, ConcatEmptySeq DEF Typed
<1>2. /\ Len(audit) \in Nat /\ Len(buffer) \in Nat /\ Len(<<>>) = 0
      /\ Len(audit \o buffer) = Len(audit) + Len(buffer)
      /\ DOMAIN audit = 1..Len(audit)
      /\ DOMAIN (audit \o buffer) = 1..(Len(audit) + Len(buffer))
      /\ \A i \in 1..Len(audit) : (audit \o buffer)[i] = audit[i]
  BY <1>1, ConcatProperties, LenProperties, EmptySeq
<1>3. Logged' = audit' \o buffer' /\ Logged = audit \o buffer
  BY DEF Logged
<1>4. CASE audit' = audit /\ buffer' = buffer
  BY <1>2, <1>3, <1>4
<1>5. CASE audit' = audit /\ buffer' = <<>>
  <2>1. Logged' = audit
    BY <1>1, <1>3, <1>5
  <2>2. \A i \in 1..Len(audit) : i \in 1..(Len(audit) + Len(buffer))
    BY <1>2
  <2>3. \A i \in DOMAIN Logged' : i \in DOMAIN Logged /\ Logged'[i] = Logged[i]
    BY <1>2, <1>3, <2>1, <2>2, Zenon
  <2>4. Len(buffer) = 0 => buffer = <<>>
    BY <1>1, EmptySeq
  <2>5. Len(audit') + Len(buffer') = Len(audit)
    BY <1>2, <1>5
  <2>6. Len(audit) = Len(audit) + Len(buffer) => Logged' = Logged
    <3>1. Len(audit) = Len(audit) + Len(buffer) => Len(buffer) = 0
      BY <1>2
    <3> QED
      BY <1>1, <1>3, <2>1, <2>4, <3>1, Zenon
  <2>7. Len(audit') + Len(buffer') <= Len(audit) + Len(buffer)
    BY <1>2, <2>5
  <2>8. Len(audit') + Len(buffer') = Len(audit) + Len(buffer) => Logged' = Logged
    BY <2>5, <2>6
  <2> QED
    BY <2>3, <2>7, <2>8
<1>6. CASE audit' = audit \o buffer /\ buffer' = <<>>
  <2>1. Logged' = Logged
    BY <1>1, <1>3, <1>6
  <2> QED
    BY <1>2, <1>6, <2>1
<1> QED
  BY <1>4, <1>5, <1>6 DEF Passed

\* Logging puts the line at the end of the trail, unless the stream drops it.
LEMMA LogAdds ==
  ASSUME ServiceInv, Typed', Log
  PROVE  /\ Logged \in Seq(LogLines) /\ Len(Logged) = Len(audit) + Len(buffer)
         /\ bad => Logged' = Logged /\ buffer' = buffer
         /\ ~bad => /\ Line \in LogLines /\ Logged' = Append(Logged, Line)
                    /\ Len(Logged) = counter - 1 /\ Len(audit') + Len(buffer') = counter
<1>1. /\ audit \in Seq(LogLines) /\ buffer \in Seq(LogLines)
      /\ audit' \in Seq(LogLines) /\ buffer' \in Seq(LogLines)
  BY DEF ServiceInv, Typed
<1>2. Logged \in Seq(LogLines) /\ Len(Logged) = Len(audit) + Len(buffer)
  BY <1>1, ConcatProperties DEF Logged
<1>3. pc = "log" /\ audit' = audit /\ buffer' = IF bad THEN buffer ELSE Append(buffer, Line)
  BY DEF Log, Line
<1>4. ASSUME ~bad
      PROVE  /\ Line \in LogLines /\ Logged' = Append(Logged, Line)
             /\ Len(Logged) = counter - 1 /\ Len(audit') + Len(buffer') = counter
  <2>1. buffer = <<>>
    BY <1>3, <1>4 DEF ServiceInv, Typed
  <2>2. buffer' = <<Line>>
    BY <1>3, <1>4, <2>1
  <2>3. Line \in LogLines
    <3>1. buffer'[1] \in LogLines
      <4> HIDE DEF Line
      <4> QED
        BY <1>1, <2>2
    <3> QED
      BY <2>2, <3>1
  <2>4. Logged = audit /\ Logged' = Append(Logged, Line)
    <3>1. audit \o <<>> = audit /\ audit \o <<Line>> = Append(audit, Line)
      BY <1>1, <2>3, ConcatEmptySeq, AppendIsConcat
    <3> QED
      BY <1>3, <2>1, <2>2, <3>1 DEF Logged
  <2>5. counter \in Nat /\ Len(Logged) = counter - 1
    BY <1>3, <1>4 DEF ServiceInv, AuditInOrder, Settling, Typed, ServiceTypeOK
  <2>6. Len(audit) = counter - 1 /\ Len(buffer') = 1
    BY <1>1, <2>2, <2>4, <2>5
  <2> HIDE DEF Line
  <2>7. Len(audit') + Len(buffer') = counter
    <3>1. audit' = audit
      BY <1>3
    <3> QED
      BY <2>5, <2>6, <3>1
  <2> QED
    BY <2>3, <2>4, <2>5, <2>7
<1> QED
  BY <1>1, <1>2, <1>3, <1>4 DEF Logged

-----------------------------------------------------------------------------
\* A step aside keeps what the trail says.
LEMMA AsideKeepsTrue == TrueInv /\ ServiceInv' /\ Aside => TrueInv'
<1> SUFFICES ASSUME TrueInv, ServiceInv', Aside PROVE TrueInv'
  OBVIOUS
<1> USE DEF TrueInv
<1>1. Typed /\ Passed
  BY DEF ServiceInv, Aside
<1>2. NotAhead'
  <2>1. Len(audit') + Len(buffer') <= Len(audit) + Len(buffer)
    BY <1>1, PassedCuts
  <2>2. /\ Len(audit) + Len(buffer) \in Int /\ Len(audit') + Len(buffer') \in Int
        /\ counter \in Int
    BY DEF ServiceInv, Typed, ServiceTypeOK
  <2>3. counter' = counter /\ (Settling' => Settling)
    BY DEF Aside, Settling
  <2> QED
    BY <2>1, <2>2, <2>3 DEF NotAhead
<1>3. InHand'
  BY DEF Aside, InHand, Handling, Denied
<1>4. TrueTrail'
  <2>1. kills' = kills /\ judged' = judged
    BY DEF Aside
  <2> QED
    BY <1>1, <2>1, PassedCuts DEF TrueTrail, TrueLine
<1> QED
  BY <1>2, <1>3, <1>4

\* An event read is not handled yet.
LEMMA ReadKeepsTrue == TrueInv /\ ServiceInv' /\ ReadLine => TrueInv'
<1> SUFFICES ASSUME TrueInv, ServiceInv', ReadLine PROVE TrueInv'
  OBVIOUS
<1> USE DEF TrueInv
<1>1. /\ pc = "read" /\ outcome' = NotEnforced
      /\ UNCHANGED <<mode, bad, audit, buffer, alerts, kills>>
  BY DEF ReadLine
<1>2. CASE pc' = "flush" /\ UNCHANGED <<event, counter, judged>>
  <2>1. Aside
    BY <1>1, <1>2 DEF Aside, Passed, Handling
  <2> QED
    BY <2>1, AsideKeepsTrue
<1>3. CASE Head(input).event
  <2>1. /\ event'.id = counter /\ counter' = counter + 1 /\ pc' \in {"kill", "log"}
        /\ event'.exe = Head(input).exe /\ judged' = Append(judged, Head(input).exe)
        /\ pc' = "kill" => Head(input).exe \in DeniedExes /\ mode = "enforce"
    BY <1>3 DEF ReadLine
  <2>2. NotAhead'
    <3>1. /\ Len(audit) + Len(buffer) <= counter /\ counter \in Nat
          /\ Len(audit') = Len(audit) /\ Len(buffer') = Len(buffer)
      BY <1>1 DEF NotAhead, Settling, ServiceInv, Typed, ServiceTypeOK
    <3> QED
      BY <2>1, <3>1 DEF NotAhead, Settling
  <2>3. \A k \in kills : k.id # counter
    <3>1. counter \in Nat
      BY DEF ServiceInv, Typed, ServiceTypeOK
    <3> QED
      BY <3>1 DEF ServiceInv, KillsAudited
  <2>4. /\ judged'[counter'] = event'.exe
        /\ \A i \in DOMAIN judged : i \in DOMAIN judged' /\ judged'[i] = judged[i]
    <3>1. input \in Seq(InputLines) /\ input # <<>>
      BY DEF ServiceInv, Typed, ReadLine
    <3>2. Head(input) \in InputLines
      BY <3>1, HeadTailProperties
    <3>3. Head(input).exe \in Exes
      BY <1>3, <3>2 DEF InputLines
    <3>4. judged \in Seq(Exes) /\ Len(judged) = counter
      BY DEF ServiceInv, Typed, ServiceTypeOK
    <3> QED
      BY <2>1, <3>3, <3>4, AppendProperties, LenProperties
  <2>5. InHand'
    <3>1. outcome'.action = "none" /\ outcome'.enforced = FALSE
      BY <1>1 DEF NotEnforced
    <3> QED
      BY <1>1, <2>1, <2>3, <2>4, <3>1 DEF InHand, Handling, Denied
  <2>6. TrueTrail'
    <3>1. Logged' = Logged /\ kills' = kills
      BY <1>1 DEF Logged
    <3>2. ASSUME NEW line, TrueLine(line) PROVE TrueLine(line)'
      BY <2>4, <3>1, <3>2 DEF TrueLine
    <3> QED
      BY <3>1, <3>2 DEF TrueTrail
  <2> QED
    BY <2>2, <2>5, <2>6
<1> QED
  BY <1>2, <1>3 DEF ReadLine

\* Looking the process up kills nothing.
LEMMA LookUpKeepsTrue == TrueInv /\ ServiceInv' /\ LookUp => TrueInv'
<1> SUFFICES ASSUME TrueInv, ServiceInv', LookUp PROVE TrueInv'
  OBVIOUS
<1> USE DEF TrueInv
<1>1. /\ pc = "kill" /\ UNCHANGED <<mode, event, counter, judged, buffer, audit, kills>>
  BY DEF LookUp
<1>2. \/ pc' = "signal" /\ outcome' = outcome
      \/ pc' = "log" /\ outcome'.enforced = FALSE
  <2>1. ASSUME NEW error, NotKilled(error) PROVE pc' = "log" /\ outcome'.enforced = FALSE
    BY <2>1 DEF NotKilled
  <2>2. \/ NotKilled("refused") \/ NotKilled("no process")
        \/ pc' = "signal" /\ outcome' = outcome
    BY Zenon DEF LookUp
  <2> QED
    BY <2>1, <2>2
<1>3. NotAhead'
  BY <1>1, <1>2 DEF NotAhead, Settling
<1>4. event.id = counter - 1 /\ \A k \in kills : k.id # event.id
  BY <1>1 DEF ServiceInv, KillsAudited, Typed, ServiceTypeOK
<1>5. InHand'
  BY <1>1, <1>2, <1>4 DEF InHand, Handling, Denied
<1>6. TrueTrail'
  BY <1>1 DEF TrueTrail, TrueLine, Logged
<1> QED
  BY <1>3, <1>5, <1>6

\* The kill is put down to the event in hand, which has no line yet.
LEMMA SignalKeepsTrue == TrueInv /\ ServiceInv' /\ Signal => TrueInv'
<1> SUFFICES ASSUME TrueInv, ServiceInv', Signal PROVE TrueInv'
  OBVIOUS
<1> USE DEF TrueInv
<1> DEFINE new == [id |-> event.id, victim |-> Process(event.process[1]),
                   reported |-> event.process]
<1>1. /\ pc = "signal" /\ pc' = "log" /\ UNCHANGED <<mode, event, counter, judged, buffer, audit>>
      /\ \/ kills' = kills \cup {new} /\ outcome'.enforced = TRUE
         \/ kills' = kills /\ outcome'.enforced = FALSE
  <2>1. ASSUME NEW error, NotKilled(error) PROVE pc' = "log" /\ outcome'.enforced = FALSE
    BY <2>1 DEF NotKilled
  <2>2. /\ pc = "signal" /\ UNCHANGED <<mode, event, counter, judged, buffer, audit>>
        /\ \/ /\ kills' = kills \cup {new} /\ pc' = "log"
              /\ outcome' = [enforced |-> TRUE, action |-> "sigkill", error |-> "none"]
           \/ NotKilled("kill failed") /\ kills' = kills
    BY Zenon DEF Signal
  <2> HIDE DEF new
  <2>3. CASE NotKilled("kill failed") /\ kills' = kills
    BY <2>1, <2>2, <2>3
  <2>4. CASE /\ kills' = kills \cup {new} /\ pc' = "log"
             /\ outcome' = [enforced |-> TRUE, action |-> "sigkill", error |-> "none"]
    BY <2>2, <2>4
  <2> QED
    BY <2>2, <2>3, <2>4
<1>2. new.id = event.id /\ event.id = counter - 1 /\ counter \in Nat
  BY DEF ServiceInv, Typed, ServiceTypeOK
<1> HIDE DEF new
<1>3. NotAhead'
  BY <1>1 DEF NotAhead, Settling
<1>4. \A k \in kills : k.id # event.id
  BY <1>1, <1>2 DEF ServiceInv, KillsAudited
<1>5. InHand'
  <2>1. outcome'.enforced <=> \E k \in kills' : k.id = event'.id
    BY <1>1, <1>2, <1>4
  <2> QED
    BY <1>1, <2>1 DEF InHand, Handling, Denied
<1>6. \A i \in DOMAIN Logged : Logged[i].id # event.id
  <2>1. Len(audit) + Len(buffer) <= counter - 1
    BY <1>1 DEF NotAhead, Settling
  <2>2. /\ DOMAIN Logged = 1..(Len(audit) + Len(buffer))
        /\ Len(audit) \in Nat /\ Len(buffer) \in Nat
    BY ConcatProperties, LenProperties DEF Logged, ServiceInv, Typed
  <2>3. \A i \in DOMAIN Logged : Logged[i].id = i - 1
    BY DEF ServiceInv, AuditInOrder
  <2> QED
    BY <1>2, <2>1, <2>2, <2>3
<1>7. TrueTrail'
  <2> SUFFICES ASSUME NEW i \in DOMAIN Logged PROVE TrueLine(Logged[i])'
    BY <1>1 DEF TrueTrail, Logged
  <2>1. Logged' = Logged /\ judged' = judged /\ TrueLine(Logged[i])
    BY <1>1 DEF TrueTrail, Logged
  <2>2. (\E k \in kills' : k.id = Logged[i].id) <=> \E k \in kills : k.id = Logged[i].id
    BY <1>1, <1>2, <1>6
  <2> QED
    BY <2>1, <2>2 DEF TrueLine
<1> QED
  BY <1>3, <1>5, <1>7

\* The line logged is true.
LEMMA LogKeepsTrue == TrueInv /\ ServiceInv' /\ Log => TrueInv'
<1> SUFFICES ASSUME TrueInv, ServiceInv', Log PROVE TrueInv'
  OBVIOUS
<1> USE DEF TrueInv
<1>1. /\ pc = "log" /\ pc' = (IF Denied /\ Alerting THEN "alert" ELSE "flush")
      /\ UNCHANGED <<mode, event, counter, judged, outcome, bad, audit, kills>>
  BY DEF Log
<1>2. Typed'
  BY DEF ServiceInv
<1>3. counter \in Nat /\ event.exe \in Exes /\ outcome.action \in {"none", "sigkill"}
  BY <1>1 DEF ServiceInv, Typed, ServiceTypeOK, Handling
<1>4. NotAhead'
  <2>1. CASE bad
    <3>1. Len(audit') + Len(buffer') <= counter - 1
      BY <1>1, <1>2, <2>1, LogAdds DEF NotAhead, Settling
    <3>2. Len(audit') + Len(buffer') \in Int
      BY <1>2 DEF Typed
    <3> QED
      BY <1>1, <1>3, <3>1, <3>2 DEF NotAhead, Settling
  <2>2. CASE ~bad
    <3>1. Len(audit') + Len(buffer') = counter
      BY <1>2, <2>2, LogAdds
    <3> QED
      BY <1>1, <1>3, <3>1 DEF NotAhead, Settling
  <2> QED
    BY <2>1, <2>2
<1>5. InHand'
  BY <1>1 DEF InHand, Handling, Denied
<1>6. TrueLine(Line)
  <2>1. event.id + 1 = counter /\ counter \in DOMAIN judged /\ event.exe = judged[counter]
    <3>1. event.id = counter - 1 /\ counter > 0 /\ judged \in Seq(Exes) /\ Len(judged) = counter
      BY <1>1 DEF ServiceInv, Typed, ServiceTypeOK, KillsAudited, Handling
    <3> QED
      BY <1>1, <1>3, <3>1, LenProperties DEF InHand, Handling
  <2>2. outcome.enforced <=> \E k \in kills : k.id = event.id
    BY <1>1 DEF InHand
  <2>3. outcome.action # "none" => Denied /\ Severity = "critical"
    BY <1>1 DEF InHand, Handling, Severity
  <2> QED
    BY <2>1, <2>2, <2>3 DEF TrueLine, Line, Denied
<1>7. TrueTrail'
  <2>1. \A line : TrueLine(line)' <=> TrueLine(line)
    BY <1>1 DEF TrueLine
  <2>2. \A i \in DOMAIN Logged' : TrueLine(Logged'[i])
    <3>1. Logged \in Seq(LogLines)
      BY <1>2, LogAdds
    <3>2. CASE bad
      BY <1>2, <3>2, LogAdds DEF TrueTrail
    <3>3. CASE ~bad
      <4>1. Line \in LogLines /\ Logged' = Append(Logged, Line)
        BY <1>2, <3>3, LogAdds
      <4>2. /\ DOMAIN Logged' = 1..(Len(Logged) + 1) /\ DOMAIN Logged = 1..Len(Logged)
            /\ Len(Logged) \in Nat /\ Logged'[Len(Logged) + 1] = Line
            /\ \A i \in 1..Len(Logged) : Logged'[i] = Logged[i]
        <5> HIDE DEF Line, Logged
        <5> QED
          BY <3>1, <4>1, AppendProperties, LenProperties
      <4>3. \A i \in DOMAIN Logged' : i \in DOMAIN Logged \/ i = Len(Logged) + 1
        BY <4>2
      <4> QED
        BY <1>6, <4>2, <4>3, Zenon DEF TrueTrail
    <3> QED
      BY <3>2, <3>3
  <2> QED
    BY <2>1, <2>2 DEF TrueTrail
<1> QED
  BY <1>4, <1>5, <1>7

\* The steps that leave the event in hand alone.
LEMMA StepsAside ==
  ASSUME ServiceInv,
         Flush \/ WriteEarly \/ EndOfInput \/ Crash \/ HostStep \/ UNCHANGED vars
  PROVE  Aside
<1> USE DEF ServiceInv
<1>1. CASE Flush \/ WriteEarly
  <2>1. Written \/ PartWritten \/ NotWritten
    BY <1>1 DEF Flush, WriteEarly
  <2>2. Passed /\ (~bad' => ~bad /\ Len(audit') + Len(buffer') = Len(audit) + Len(buffer))
    BY <2>1, WrittenPasses
  <2>3. /\ pc \in {"flush", "alert"}
        /\ UNCHANGED <<mode, event, counter, judged, outcome, alerts, kills>>
        /\ pc' = pc \/ (~Handling /\ pc' = "read")
    BY <1>1 DEF Flush, WriteEarly, Handling
  <2> QED
    BY <2>2, <2>3 DEF Aside
<1>2. CASE EndOfInput
  <2>1. /\ pc = "read" /\ pc' = "done" /\ buffer' = <<>>
        /\ audit' \in {audit, audit \o buffer}
        /\ UNCHANGED <<mode, event, counter, judged, bad, alerts, kills>>
    BY <1>2 DEF EndOfInput
  <2>2. ~bad => buffer = <<>> /\ audit \o buffer = audit
    BY <2>1, ConcatEmptySeq DEF Typed
  <2> QED
    BY <2>1, <2>2 DEF Aside, Passed, Handling
<1>3. CASE Crash
  BY <1>3 DEF Crash, Aside, Passed
<1>4. CASE HostStep \/ UNCHANGED vars
  <2>1. UNCHANGED loopVars
    BY <1>4 DEF HostStep, Spawn, Exit, Report, Write, Noise, CloseInput, vars
  <2> QED
    BY <2>1 DEF loopVars, Aside, Passed
<1> QED
  BY <1>1, <1>2, <1>3, <1>4

\* Handing the alert in changes nothing but alerts and pc.
LEMMA AlertKeepsTrue == TrueInv /\ Alert => TrueInv' \/ ~ServiceInv'
<1> SUFFICES ASSUME TrueInv, Alert, ServiceInv' PROVE TrueInv'
  OBVIOUS
<1> USE DEF TrueInv
<1>1. /\ pc = "alert" /\ pc' = "flush"
      /\ UNCHANGED <<mode, event, counter, judged, outcome, buffer, bad, audit, kills>>
  BY DEF Alert
<1>2. NotAhead' /\ InHand'
  BY <1>1 DEF NotAhead, InHand, Settling, Handling
<1>3. TrueTrail'
  BY <1>1 DEF TrueTrail, TrueLine, Logged
<1> QED
  BY <1>2, <1>3

\* So the trail stays true.
LEMMA TrueInvHolds == Spec => []TrueInv
<1>1. Init => TrueInv
  <2> SUFFICES ASSUME Init PROVE TrueInv
    OBVIOUS
  <2>1. ServiceInv
    BY ServiceInvInit
  <2>2. audit = <<>> /\ buffer = <<>> /\ counter = 0 /\ pc = "flush"
    BY DEF Init
  <2>3. NotAhead /\ InHand
    BY <2>2, EmptySeq DEF NotAhead, InHand, Settling, Handling
  <2>4. TrueTrail
    <3>1. Logged = <<>>
      BY <2>1, <2>2, ConcatEmptySeq DEF Logged, ServiceInv, Typed
    <3> QED
      BY <3>1 DEF TrueTrail
  <2> QED
    BY <2>1, <2>3, <2>4 DEF TrueInv
<1>2. TrueInv /\ [Next]_vars => TrueInv'
  <2> SUFFICES ASSUME TrueInv, [Next]_vars PROVE TrueInv'
    OBVIOUS
  <2>1. ServiceInv /\ ServiceInv'
    BY StepKeeps DEF TrueInv
  <2>2. ASSUME Aside PROVE TrueInv'
    BY <2>1, <2>2, AsideKeepsTrue
  <2> QED
    BY <2>1, <2>2, StepsAside, ReadKeepsTrue, LookUpKeepsTrue, SignalKeepsTrue, LogKeepsTrue,
       AlertKeepsTrue DEF Next, LoopStep, Stopped
<1> QED
  BY <1>1, <1>2, PTL DEF Spec

-----------------------------------------------------------------------------
\* The alerts come in the order of their events, which all come before the one in hand.
AlertRecords ==
  [id : Int, severity : {"info", "warning", "critical"},
   exe : {JsonEscape(exe) : exe \in Exes}]

AlertsInTurn ==
  /\ alerts \in Seq(AlertRecords)
  /\ \A n \in DOMAIN alerts : alerts[n].id < IF Handling THEN counter - 1 ELSE counter
  /\ \A m, n \in DOMAIN alerts : m < n => alerts[m].id < alerts[n].id

\* Every denial has its alert, but for the one in hand, whose line is the last; and every
\* alert has its denial.
Alerted(line) == \E n \in DOMAIN alerts : alerts[n] = AlertOf(line)

AlertsMatch ==
  Alerting /\ ~bad /\ pc # "crashed" =>
    /\ \A i \in DOMAIN Logged :
         Logged[i].denied => Alerted(Logged[i]) \/ (pc = "alert" /\ i = counter)
    /\ \A n \in DOMAIN alerts : \E i \in DOMAIN Logged :
         Logged[i].denied /\ alerts[n] = AlertOf(Logged[i])
    /\ pc = "alert" => counter \in DOMAIN Logged /\ Logged[counter] = Line

AlertInv == TrueInv /\ AlertsInTurn /\ AlertsMatch

\* Alerts have numbers.
LEMMA AlertIds == AlertsInTurn => \A n \in DOMAIN alerts : alerts[n].id \in Int
<1> SUFFICES ASSUME AlertsInTurn, NEW n \in DOMAIN alerts PROVE alerts[n].id \in Int
  OBVIOUS
<1>1. alerts[n] \in AlertRecords
  BY DEF AlertsInTurn
<1>2. \A record \in AlertRecords : record.id \in Int
  BY DEF AlertRecords
<1> QED
  BY <1>1, <1>2

\* A step aside, or one that looks up or kills, keeps the alerts as they are.
LEMMA AsideKeepsAlerts ==
  AlertInv /\ ServiceInv' /\ (Aside \/ LookUp \/ Signal) => AlertsInTurn' /\ AlertsMatch'
<1> SUFFICES ASSUME AlertInv, ServiceInv', Aside \/ LookUp \/ Signal
             PROVE  AlertsInTurn' /\ AlertsMatch'
  OBVIOUS
<1> USE DEF AlertInv
<1>1. counter \in Nat /\ Typed
  BY CounterIsNat DEF TrueInv, ServiceInv, Typed
<1>2. CASE Aside
  <2>1. /\ UNCHANGED <<mode, event, counter, alerts>>
        /\ \/ pc' = pc /\ outcome' = outcome
           \/ pc' = "crashed"
           \/ ~Handling /\ pc' \in {"read", "done", "flush"}
    BY <1>2 DEF Aside
  <2>2. AlertsInTurn'
    <3>1. Handling' => Handling
      BY <2>1 DEF Handling
    <3>2. \A n \in DOMAIN alerts : alerts[n].id \in Int
      BY AlertIds
    <3> QED
      BY <1>1, <2>1, <3>1, <3>2 DEF AlertsInTurn
  <2>3. AlertsMatch'
    <3> SUFFICES ASSUME Alerting, ~bad', pc' # "crashed" PROVE AlertsMatch'
      BY DEF AlertsMatch
    <3>1. Logged' = Logged /\ ~bad /\ pc # "crashed"
      BY <1>1, <1>2, PassedCuts DEF Aside
    <3>2. pc' = "alert" => Line' = Line
      BY <2>1 DEF Line, Handling, Denied, Severity
    <3>3. pc' = "alert" <=> pc = "alert"
      BY <2>1 DEF Handling
    <3> QED
      BY <2>1, <3>1, <3>2, <3>3 DEF AlertsMatch, Alerted
  <2> QED
    BY <2>2, <2>3
<1>3. CASE LookUp \/ Signal
  <2>1. UNCHANGED <<counter, bad, audit, buffer, alerts>>
    BY <1>3 DEF LookUp, Signal
  <2>2. pc \in {"kill", "signal"} /\ pc' \in {"signal", "log"}
    BY <1>3 DEF LookUp, Signal, NotKilled
  <2>3. AlertsInTurn'
    BY <2>1, <2>2 DEF AlertsInTurn, Handling
  <2>4. AlertsMatch'
    BY <2>1, <2>2 DEF AlertsMatch, Alerted, Logged
  <2> QED
    BY <2>3, <2>4
<1> QED
  BY <1>2, <1>3

\* Reading an event does, too.
LEMMA ReadKeepsAlerts == AlertInv /\ ServiceInv' /\ ReadLine => AlertsInTurn' /\ AlertsMatch'
<1> SUFFICES ASSUME AlertInv, ServiceInv', ReadLine PROVE AlertsInTurn' /\ AlertsMatch'
  OBVIOUS
<1> USE DEF AlertInv
<1>1. /\ pc = "read" /\ pc' \in {"flush", "kill", "log"}
      /\ UNCHANGED <<bad, audit, buffer, alerts>>
      /\ (pc' = "flush" /\ counter' = counter) \/ (pc' # "flush" /\ counter' = counter + 1)
  BY DEF ReadLine
<1>2. counter \in Nat
  BY DEF TrueInv, ServiceInv, Typed, ServiceTypeOK
<1>3. AlertsInTurn'
  BY <1>1, <1>2 DEF AlertsInTurn, Handling
<1>4. AlertsMatch'
  BY <1>1 DEF AlertsMatch, Alerted, Logged
<1> QED
  BY <1>3, <1>4

\* A denial logged is the one to be alerted next.
LEMMA LogKeepsAlerts == AlertInv /\ ServiceInv' /\ Log => AlertsInTurn' /\ AlertsMatch'
<1> SUFFICES ASSUME AlertInv, ServiceInv', Log PROVE AlertsInTurn' /\ AlertsMatch'
  OBVIOUS
<1> USE DEF AlertInv
<1>1. /\ pc = "log" /\ pc' = (IF Denied /\ Alerting THEN "alert" ELSE "flush")
      /\ UNCHANGED <<mode, event, counter, outcome, bad, alerts>>
  BY DEF Log
<1>2. counter \in Nat /\ ServiceInv /\ Typed'
  <2>1. ServiceInv /\ Typed'
    BY DEF TrueInv, ServiceInv
  <2>2. counter \in 0..lines
    BY <2>1 DEF ServiceInv, Typed, ServiceTypeOK
  <2> QED
    BY <2>1, <2>2
<1>3. AlertsInTurn'
  <2>1. \A n \in DOMAIN alerts : alerts[n].id \in Int
    BY AlertIds
  <2> QED
    BY <1>1, <1>2, <2>1 DEF AlertsInTurn, Handling
<1>4. AlertsMatch'
  <2> SUFFICES ASSUME Alerting, ~bad PROVE AlertsMatch'
    BY <1>1 DEF AlertsMatch
  <2>1. /\ Logged \in Seq(LogLines) /\ Line \in LogLines /\ Logged' = Append(Logged, Line)
        /\ Len(Logged) = counter - 1
    BY <1>2, LogAdds
  <2>2. /\ DOMAIN Logged' = 1..counter /\ DOMAIN Logged = 1..(counter - 1)
        /\ Logged'[counter] = Line /\ counter \in 1..counter
        /\ \A i \in 1..(counter - 1) : Logged'[i] = Logged[i]
    <3> HIDE DEF Line, Logged
    <3> QED
      BY <1>2, <2>1, AppendProperties, LenProperties
  <2>3. \A i \in 1..counter : i \in 1..(counter - 1) \/ i = counter
    BY <1>2
  <2>4. Line' = Line /\ Line.denied = Denied
    BY <1>1 DEF Line, Denied, Severity
  <2>5. /\ \A i \in DOMAIN Logged : Logged[i].denied => Alerted(Logged[i])
        /\ \A n \in DOMAIN alerts : \E i \in DOMAIN Logged :
             Logged[i].denied /\ alerts[n] = AlertOf(Logged[i])
    BY <1>1 DEF AlertsMatch
  <2>6. \A line : Alerted(line)' <=> Alerted(line)
    BY <1>1 DEF Alerted
  <2>7. \A i \in DOMAIN Logged' :
          Logged'[i].denied => Alerted(Logged'[i]) \/ (pc' = "alert" /\ i = counter')
    <3> TAKE i \in DOMAIN Logged'
    <3>1. CASE i = counter
      BY <1>1, <2>2, <2>4, <3>1
    <3>2. CASE i \in 1..(counter - 1)
      BY <2>2, <2>5, <3>2, Zenon
    <3> QED
      BY <2>2, <2>3, <3>1, <3>2
  <2>8. \A n \in DOMAIN alerts' : \E i \in DOMAIN Logged' :
          Logged'[i].denied /\ alerts'[n] = AlertOf(Logged'[i])
    <3>1. \A i \in 1..(counter - 1) : i \in 1..counter
      BY <1>2
    <3> QED
      BY <1>1, <2>2, <2>5, <3>1, Zenon
  <2>9. pc' = "alert" => counter' \in DOMAIN Logged' /\ Logged'[counter'] = Line'
    BY <1>1, <2>2, <2>4
  <2> QED
    BY <2>6, <2>7, <2>8, <2>9 DEF AlertsMatch
<1> QED
  BY <1>3, <1>4

\* The alert of the denial in hand is the newest.
LEMMA AlertKeepsAlerts == AlertInv /\ ServiceInv' /\ Alert => AlertsInTurn' /\ AlertsMatch'
<1> SUFFICES ASSUME AlertInv, ServiceInv', Alert PROVE AlertsInTurn' /\ AlertsMatch'
  OBVIOUS
<1> USE DEF AlertInv
<1> DEFINE new == AlertOf(Line)
<1>1. /\ pc = "alert" /\ pc' = "flush" /\ alerts' = Append(alerts, new)
      /\ UNCHANGED <<counter, torn, bad, audit, buffer>>
  BY DEF Alert, Line, AlertOf, AlertJsonEscape, JsonEscape
<1>2. counter \in Nat /\ new.id = counter - 1 /\ event.exe \in Exes
  BY <1>1 DEF TrueInv, ServiceInv, Typed, ServiceTypeOK, Handling, Line, AlertOf
<1>3. new \in AlertRecords
  <2>1. Severity \in {"info", "warning", "critical"} /\ event.id \in Int
    BY <1>2, SeverityTyped DEF Line, AlertOf
  <2>2. JsonEscape(event.exe) \in {JsonEscape(exe) : exe \in Exes}
    BY <1>2
  <2>3. new = [id |-> event.id, severity |-> Severity, exe |-> JsonEscape(event.exe)]
    BY DEF Line, AlertOf
  <2> HIDE DEF new
  <2> QED
    BY <2>1, <2>2, <2>3 DEF AlertRecords
<1>4. /\ alerts \in Seq(AlertRecords)
      /\ \A n \in DOMAIN alerts : alerts[n].id < counter - 1
      /\ \A m, n \in DOMAIN alerts : m < n => alerts[m].id < alerts[n].id
  BY <1>1 DEF AlertsInTurn, Handling
<1> DEFINE len == Len(alerts)
<1> HIDE DEF new
<1>5. /\ len \in Nat /\ DOMAIN alerts = 1..len /\ DOMAIN alerts' = 1..(len + 1)
      /\ alerts'[len + 1] = new /\ alerts' \in Seq(AlertRecords)
      /\ \A n \in 1..len : alerts'[n] = alerts[n] /\ alerts[n].id \in Int
  <2>1. \A n \in 1..Len(alerts) : alerts[n] \in AlertRecords
    BY <1>4
  <2>2. \A n \in 1..len : alerts[n].id \in Int
    BY <2>1 DEF AlertRecords
  <2> QED
    BY <1>1, <1>3, <1>4, <2>2, AppendProperties, LenProperties
<1> HIDE DEF len
<1>6. \A n \in 1..(len + 1) : n \in 1..len \/ n = len + 1
  BY <1>5
<1>7. AlertsInTurn'
  <2>1. \A n \in DOMAIN alerts' : alerts'[n].id < counter
    <3> TAKE n \in DOMAIN alerts'
    <3>1. CASE n = len + 1
      BY <1>2, <1>5, <3>1
    <3>2. CASE n \in 1..len
      BY <1>2, <1>4, <1>5, <3>2
    <3> QED
      BY <1>5, <1>6, <3>1, <3>2
  <2>2. \A m, n \in DOMAIN alerts' : m < n => alerts'[m].id < alerts'[n].id
    <3> SUFFICES ASSUME NEW m \in DOMAIN alerts', NEW n \in DOMAIN alerts', m < n
                 PROVE  alerts'[m].id < alerts'[n].id
      OBVIOUS
    <3>1. m \in 1..len
      BY <1>5
    <3>2. CASE n = len + 1
      BY <1>2, <1>4, <1>5, <3>1, <3>2
    <3>3. CASE n \in 1..len
      BY <1>4, <1>5, <3>1, <3>3
    <3> QED
      BY <1>5, <1>6, <3>2, <3>3
  <2> QED
    BY <1>1, <1>5, <2>1, <2>2 DEF AlertsInTurn, Handling
<1>8. AlertsMatch'
  <2> SUFFICES ASSUME Alerting, ~bad PROVE AlertsMatch'
    BY <1>1 DEF AlertsMatch
  <2>1. Logged' = Logged
    BY <1>1 DEF Logged
  <2>2. /\ \A i \in DOMAIN Logged : Logged[i].denied => Alerted(Logged[i]) \/ i = counter
        /\ \A n \in DOMAIN alerts : \E i \in DOMAIN Logged :
             Logged[i].denied /\ alerts[n] = AlertOf(Logged[i])
        /\ counter \in DOMAIN Logged /\ Logged[counter] = Line
    BY <1>1 DEF AlertsMatch
  <2>3. \A i \in DOMAIN Logged : Logged[i].denied =>
          \E n \in DOMAIN alerts' : alerts'[n] = AlertOf(Logged[i])
    <3> SUFFICES ASSUME NEW i \in DOMAIN Logged, Logged[i].denied
                 PROVE  \E n \in DOMAIN alerts' : alerts'[n] = AlertOf(Logged[i])
      OBVIOUS
    <3>1. CASE i = counter
      <4>1. len + 1 \in DOMAIN alerts' /\ alerts'[len + 1] = AlertOf(Logged[i])
        BY <1>5, <2>2, <3>1 DEF new
      <4> QED
        BY <4>1
    <3>2. CASE Alerted(Logged[i])
      <4>1. PICK n \in DOMAIN alerts : alerts[n] = AlertOf(Logged[i])
        BY <3>2 DEF Alerted
      <4>2. n \in DOMAIN alerts' /\ alerts'[n] = alerts[n]
        BY <1>5
      <4> QED
        BY <4>1, <4>2
    <3> QED
      BY <2>2, <3>1, <3>2
  <2>4. \A n \in DOMAIN alerts' : \E i \in DOMAIN Logged :
          Logged[i].denied /\ alerts'[n] = AlertOf(Logged[i])
    <3> TAKE n \in DOMAIN alerts'
    <3>1. CASE n = len + 1
      <4>1. Line.denied = Denied /\ Denied
        BY <1>1 DEF Line, TrueInv, InHand
      <4>2. Logged[counter].denied /\ alerts'[n] = AlertOf(Logged[counter])
        BY <1>5, <2>2, <3>1, <4>1 DEF new
      <4> QED
        BY <2>2, <4>2
    <3>2. CASE n \in 1..len
      BY <1>5, <2>2, <3>2, Zenon
    <3> QED
      BY <1>5, <1>6, <3>1, <3>2
  <2> QED
    BY <1>1, <2>1, <2>3, <2>4 DEF AlertsMatch, Alerted
<1> QED
  BY <1>7, <1>8

\* So the alerts stay those of the trail.
LEMMA AlertInvHolds == Spec => []AlertInv
<1>1. Init => AlertsInTurn /\ AlertsMatch
  <2> SUFFICES ASSUME Init PROVE AlertsInTurn /\ AlertsMatch
    OBVIOUS
  <2>1. alerts = <<>> /\ audit = <<>> /\ buffer = <<>> /\ pc = "flush" /\ ServiceInv
    BY ServiceInvInit DEF Init
  <2>2. Logged = <<>>
    BY <2>1, ConcatEmptySeq DEF Logged, ServiceInv, Typed
  <2>3. alerts \in Seq(AlertRecords) /\ DOMAIN alerts = {}
    BY <2>1, EmptySeq
  <2>4. AlertsInTurn
    BY <2>3 DEF AlertsInTurn
  <2>5. AlertsMatch
    BY <2>1, <2>2, <2>3 DEF AlertsMatch
  <2> QED
    BY <2>4, <2>5
<1>2. AlertInv /\ ServiceInv' /\ [Next]_vars => AlertsInTurn' /\ AlertsMatch'
  <2> SUFFICES ASSUME AlertInv, ServiceInv', [Next]_vars PROVE AlertsInTurn' /\ AlertsMatch'
    OBVIOUS
  <2>1. ServiceInv
    BY DEF AlertInv, TrueInv
  <2>2. ASSUME Aside PROVE AlertsInTurn' /\ AlertsMatch'
    BY <2>2, AsideKeepsAlerts
  <2> QED
    BY <2>1, <2>2, StepsAside, AsideKeepsAlerts, ReadKeepsAlerts, LogKeepsAlerts,
       AlertKeepsAlerts DEF Next, LoopStep, Stopped
<1>3. TrueInv /\ AlertsInTurn /\ AlertsMatch => AlertInv
  BY DEF AlertInv
<1>4. TrueInv => ServiceInv
  BY DEF TrueInv
<1> QED
  BY <1>1, <1>2, <1>3, <1>4, TrueInvHolds, PTL DEF Spec

-----------------------------------------------------------------------------
\* run has at most one line waiting to be written, none while it kills, and a
\* process it has killed stays dead.
THEOREM ServiceTyped == Spec => []ServiceTypeOK
<1>1. ServiceInv => ServiceTypeOK
  BY DEF ServiceInv, Typed
<1> QED
  BY <1>1, ServiceInvHolds, PTL

\* run audits every event once and in order; a failing output or a crash cuts the
\* trail off, and leaves no gap in it.
THEOREM AuditInOrderHolds == Spec => []AuditInOrder
<1>1. ServiceInv => AuditInOrder
  BY DEF ServiceInv
<1> QED
  BY <1>1, ServiceInvHolds, PTL

\* At most the kill in hand is missing in what AuditLogger::log has written.
THEOREM AtMostOneUnauditedHolds == Spec => []AtMostOneUnaudited
<1>1. ServiceInv => AtMostOneUnaudited
  <2> SUFFICES ASSUME ServiceInv, ~bad
               PROVE  Cardinality({k \in kills : k.id \notin IdsOf(audit)}) <= 1
    BY DEF AtMostOneUnaudited
  <2> DEFINE unaudited == {k \in kills : k.id \notin IdsOf(audit)}
  <2>1. counter \in Nat
    BY DEF ServiceInv, Typed, ServiceTypeOK
  <2>2. \A k \in unaudited : k.id = counter - 1
    BY <2>1 DEF ServiceInv, KillsAudited
  <2>3. \A k, l \in unaudited : k = l
    BY <2>2 DEF ServiceInv, KillsAudited
  <2>4. CASE unaudited = {}
    BY <2>4, FS_EmptySet
  <2>5. CASE unaudited # {}
    <3>1. PICK k \in unaudited : unaudited = {k}
      BY <2>3, <2>5
    <3> QED
      BY <3>1, FS_Singleton
  <2> QED
    BY <2>4, <2>5
<1> QED
  BY <1>1, ServiceInvHolds, PTL

\* What a JSON reader finds in an audit line is what the loop read and did: the executable
\* of the event with that number, the verdict on it, and a kill if and only if there was one.
THEOREM AuditIsTrueHolds == Spec => []AuditIsTrue
<1>1. TrueInv => AuditIsTrue
  <2> SUFFICES ASSUME TrueInv, NEW i \in DOMAIN Logged, NEW line, line = Logged[i],
                      NEW exe, exe = judged[line.id + 1]
               PROVE  /\ ReadsAs(line.exe, exe)
                      /\ line.denied <=> exe \in DeniedExes
                      /\ line.outcome.enforced <=> \E k \in kills : k.id = line.id
                      /\ line.outcome.action # "none" =>
                           line.denied /\ line.severity = "critical"
    BY DEF AuditIsTrue
  <2>1. TrueLine(line)
    BY DEF TrueInv, TrueTrail
  <2>2. exe \in Exes
    BY <2>1, ElementOfSeq, LenProperties DEF TrueLine, TrueInv, ServiceInv, Typed, ServiceTypeOK
  <2>3. ReadsAs(JsonEscape(exe), exe)
    BY <2>2, ServiceAssumption, EscapedReadsAs DEF JsonEscape, Text
  <2> QED
    BY <2>1, <2>3 DEF TrueLine
<1> QED
  BY <1>1, TrueInvHolds, PTL

\* Each denial in the audit trail has been alerted, once and in order, with what its
\* line says, whenever the loop is done with it.
THEOREM DenialsAlertedHolds == Spec => []DenialsAlerted
<1>1. AlertInv => DenialsAlerted
  BY DEF AlertInv, AlertsMatch, AlertsInTurn, Alerted, DenialsAlerted
<1> QED
  BY <1>1, AlertInvHolds, PTL

=============================================================================
