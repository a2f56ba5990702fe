------------------------------- MODULE Service -------------------------------
(***************************************************************************)
(* The event loop and what it drives: Service::run in src/service.cpp, with*)
(* Mitigator::kill_process and AuditLogger::log, on a host whose processes *)
(* come and go by themselves.  Each line of standard input reports that a  *)
(* process ran an executable; the loop judges it, kills the process if it  *)
(* must, writes one audit line and raises an alert.                        *)
(*                                                                         *)
(* Standard output is buffered: std::cin is tied to std::cout, so what the *)
(* loop has logged is written when it next asks for a line.  A process is  *)
(* a pair <<pid, n>>: the n-th to run under that pid.                      *)
(***************************************************************************)
EXTENDS FiniteSets, SequencesExt, JsonText

CONSTANTS
  Pids,          (* the pids in use                                        *)
  SelfPid,       (* getpid()                                               *)
  Exes,          (* executables that may run: texts of module JsonText     *)
  DeniedExes,    (* those PolicyEngine::evaluate denies                    *)
  Modes,         (* the modes explored: "monitor", "enforce"               *)
  Alerting,      (* dispatcher_ is not nullptr                             *)
  PidsReused,    (* the kernel may give the pid of a dead process out again*)
  MayCrash,      (* the daemon may be killed at any moment                 *)
  OutputMayFail, (* writing standard output may fail                       *)
  MaxLines,      (* bound: lines of input                                  *)
  MaxAhead,      (* bound: lines written and not yet read                  *)
  MaxRuns        (* bound: processes that run under one pid                *)

ASSUME ServiceAssumption ==
  /\ Pids \subseteq Nat /\ SelfPid \in Pids
  /\ Exes \subseteq Text /\ DeniedExes \subseteq Exes
  /\ Modes \subseteq {"monitor", "enforce"}
  /\ {Alerting, PidsReused, MayCrash, OutputMayFail} \subseteq BOOLEAN
  /\ MaxLines \in Nat /\ MaxAhead \in Nat /\ MaxRuns \in Nat \ {0}

VARIABLES
  runs,      (* how many processes have run under each pid                 *)
  alive,     (* the pids that have a process now                           *)
  input,     (* lines not read yet                                         *)
  lines,     (* how many lines have been written to the input              *)
  eof,       (* the writer has closed the input                            *)
  mode,      (* mode_                                                      *)
  pc,        (* where the loop is                                          *)
  event,     (* the event being handled                                    *)
  counter,   (* event_counter_                                             *)
  judged,    (* history: the executables of the events read, in order      *)
  outcome,   (* enforced, action and action_error of the event             *)
  buffer,    (* audit lines that std::cout holds                           *)
  torn,      (* what has been written may end in part of the next line    *)
  bad,       (* std::cout is in a failed state and drops what it is given  *)
  audit,     (* audit lines that have been written                         *)
  alerts,    (* alerts dispatched                                          *)
  kills      (* history: the processes killed, and for which event         *)

hostVars == <<runs, alive, input, lines, eof>>
loopVars == <<mode, pc, event, counter, judged, outcome, buffer, torn, bad, audit, alerts,
              kills>>
vars == <<hostVars, loopVars>>

Process(pid) == <<pid, runs[pid]>>
NoEvent == [id |-> -1]
\* No action, and no error: the code has empty strings.
NotEnforced == [enforced |-> FALSE, action |-> "none", error |-> "none"]

Init ==
  /\ runs = [pid \in Pids |-> IF pid \in {1, SelfPid} THEN 1 ELSE 0]
  /\ alive = Pids \cap {1, SelfPid}
  /\ input = <<>>
  /\ lines = 0
  /\ eof = FALSE
  /\ mode \in Modes
  /\ pc = "flush"
  /\ event = NoEvent
  /\ counter = 0
  /\ judged = <<>>
  /\ outcome = NotEnforced
  /\ buffer = <<>>
  /\ torn = FALSE
  /\ bad = FALSE
  /\ audit = <<>>
  /\ alerts = <<>>
  /\ kills = {}

-----------------------------------------------------------------------------
(***************************************************************************)
(* The host, and the sensor that writes the input                          *)
(***************************************************************************)
Spawn(pid) ==
  /\ pid \notin alive
  /\ runs[pid] < (IF PidsReused THEN MaxRuns ELSE 1)
  /\ runs' = [runs EXCEPT ![pid] = @ + 1]
  /\ alive' = alive \cup {pid}
  /\ UNCHANGED <<input, lines, eof, loopVars>>

Exit(pid) ==
  /\ pid \in alive \ {1, SelfPid}
  /\ alive' = alive \ {pid}
  /\ UNCHANGED <<runs, input, lines, eof, loopVars>>

Write(line) ==
  /\ ~eof
  /\ lines < MaxLines /\ Len(input) < MaxAhead
  /\ input' = Append(input, line)
  /\ lines' = lines + 1
  /\ UNCHANGED <<runs, alive, eof, loopVars>>

\* A running process runs an executable, and the sensor reports it.
Report(pid, exe) ==
  /\ pid \in alive
  /\ Write([event |-> TRUE, process |-> Process(pid), exe |-> exe])

\* A line that is too long, blank, or not an event.
Noise == Write([event |-> FALSE])

CloseInput ==
  /\ ~eof
  /\ eof' = TRUE
  /\ UNCHANGED <<runs, alive, input, lines, loopVars>>

-----------------------------------------------------------------------------
(***************************************************************************)
(* The loop                                                                *)
(***************************************************************************)
\* The stream writes out what it holds: all of it, unless it is in a failed state.
Written ==
  /\ audit' = IF bad THEN audit ELSE audit \o buffer
  /\ buffer' = IF bad THEN buffer ELSE <<>>
  /\ torn' = IF bad THEN torn ELSE FALSE
  /\ UNCHANGED bad

\* A write may end in the middle of a line; the rest stays in the stream.
PartWritten ==
  /\ buffer # <<>>
  /\ torn' = TRUE
  /\ UNCHANGED <<buffer, bad, audit>>

\* Writing fails, perhaps in the middle of a line: the stream turns bad, and stays so.
\* The C library may keep what was not written, to try it again at exit, or lose it:
\* either way EndOfInput decides whether it gets out.
NotWritten ==
  /\ OutputMayFail /\ ~bad
  /\ buffer # <<>>
  /\ bad' = TRUE
  /\ torn' = TRUE
  /\ UNCHANGED <<buffer, audit>>

\* getline asks the tied stream to write out what it holds.
Flush_Untied ==
  /\ pc = "flush"
  /\ pc' = "read"
  /\ UNCHANGED <<hostVars, mode, event, counter, judged, outcome, buffer, torn, bad,
                 audit, alerts, kills>>

Flush ==
  /\ pc = "flush"
  /\ pc' = "read"
  /\ Written \/ NotWritten
  /\ UNCHANGED <<hostVars, mode, event, counter, judged, outcome, alerts, kills>>

\* A full buffer, or a terminal, makes the stream write earlier.
WriteEarly ==
  /\ pc \in {"alert", "flush"}
  /\ ~bad /\ buffer # <<>>
  /\ Written \/ PartWritten \/ NotWritten
  /\ UNCHANGED <<hostVars, mode, pc, event, counter, judged, outcome, alerts, kills>>

Denied == event.exe \in DeniedExes

ReadLine ==
  /\ pc = "read"
  /\ input # <<>>
  /\ input' = Tail(input)
  /\ outcome' = NotEnforced
  /\ IF Head(input).event
     THEN /\ event' = [id |-> counter, process |-> Head(input).process,
                       exe |-> Head(input).exe]
          /\ counter' = counter + 1
          /\ judged' = Append(judged, Head(input).exe)
          /\ pc' = IF Head(input).exe \in DeniedExes /\ mode = "enforce"
                   THEN "kill" ELSE "log"
     ELSE /\ pc' = "flush"
          /\ UNCHANGED <<event, counter, judged>>
  /\ UNCHANGED <<runs, alive, lines, eof, mode, buffer, torn, bad, audit, alerts, kills>>

\* kill_process, up to the look at /proc: it knows the process by its pid only.
NotKilled_Uncaught(error) ==
  /\ outcome' = [enforced |-> FALSE, action |-> "sigkill", error |-> error]
  /\ pc' = "dead"

NotKilled(error) ==
  /\ outcome' = [enforced |-> FALSE, action |-> "sigkill", error |-> error]
  /\ pc' = "log"

Reserved(pid) == pid <= 1 \/ pid = SelfPid

LookUp ==
  LET pid == event.process[1] IN
  /\ pc = "kill"
  /\ \/ Reserved(pid) /\ NotKilled("refused")
     \/ ~Reserved(pid) /\ pid \notin alive /\ NotKilled("no process")
     \/ ~Reserved(pid) /\ pid \in alive /\ pc' = "signal" /\ UNCHANGED outcome
  /\ UNCHANGED <<hostVars, mode, event, counter, judged, buffer, torn, bad, audit,
                 alerts, kills>>

\* kill(2) fails when the process has just exited, or is beyond our rights.
Signal ==
  LET pid == event.process[1] IN
  /\ pc = "signal"
  /\ \/ /\ pid \in alive
        /\ alive' = alive \ {pid}
        /\ kills' = kills \cup {[id |-> event.id, victim |-> Process(pid),
                                 reported |-> event.process]}
        /\ outcome' = [enforced |-> TRUE, action |-> "sigkill", error |-> "none"]
        /\ pc' = "log"
     \/ NotKilled("kill failed") /\ UNCHANGED <<alive, kills>>
  /\ UNCHANGED <<runs, input, lines, eof, mode, event, counter, judged, buffer, torn,
                 bad, audit, alerts>>

Severity ==
  IF outcome.error # "none" THEN "critical"
  ELSE IF ~Denied THEN "info"
  ELSE IF mode = "enforce" THEN "critical" ELSE "warning"

\* AuditLogger::log.
Log_OnSuccess ==
  /\ pc = "log"
  /\ buffer' = IF bad \/ outcome.error # "none" THEN buffer
               ELSE Append(buffer, [id |-> event.id, denied |-> Denied,
                                    exe |-> JsonEscape(event.exe), outcome |-> outcome,
                                    severity |-> Severity])
  /\ pc' = IF Denied /\ Alerting THEN "alert" ELSE "flush"
  /\ UNCHANGED <<hostVars, mode, event, counter, judged, outcome, torn, bad, audit,
                 alerts, kills>>

Log ==
  /\ pc = "log"
  /\ buffer' = IF bad THEN buffer
               ELSE Append(buffer, [id |-> event.id, denied |-> Denied,
                                    exe |-> JsonEscape(event.exe), outcome |-> outcome,
                                    severity |-> Severity])
  /\ pc' = IF Denied /\ Alerting THEN "alert" ELSE "flush"
  /\ UNCHANGED <<hostVars, mode, event, counter, judged, outcome, torn, bad, audit,
                 alerts, kills>>

Alert_OnlyEnforced ==
  /\ pc = "alert"
  /\ alerts' = IF outcome.enforced
               THEN Append(alerts, [id |-> event.id, severity |-> Severity,
                                      exe |-> AlertJsonEscape(event.exe)])
               ELSE alerts
  /\ pc' = "flush"
  /\ UNCHANGED <<hostVars, mode, event, counter, judged, outcome, buffer, torn, bad,
                 audit, kills>>

Alert ==
  /\ pc = "alert"
  /\ alerts' = Append(alerts, [id |-> event.id, severity |-> Severity,
                              exe |-> AlertJsonEscape(event.exe)])
  /\ pc' = "flush"
  /\ UNCHANGED <<hostVars, mode, event, counter, judged, outcome, buffer, torn, bad,
                 audit, kills>>

\* getline fails; main returns, and what is buffered is written at exit.
EndOfInput ==
  /\ pc = "read"
  /\ input = <<>> /\ eof
  /\ pc' = "done"
  /\ \/ audit' = audit \o buffer /\ torn' = FALSE
     \/ OutputMayFail /\ buffer # <<>> /\ audit' = audit /\ torn' = TRUE
  /\ buffer' = <<>>
  /\ UNCHANGED <<hostVars, mode, event, counter, judged, outcome, bad, alerts, kills>>

\* SIGKILL, SIGTERM (which is not handled) or the OOM killer: what the stream
\* still holds is lost.
Crash ==
  /\ MayCrash
  /\ pc \notin {"dead", "crashed"}
  /\ pc' = "crashed"
  /\ buffer' = <<>>
  /\ UNCHANGED <<hostVars, mode, event, counter, judged, outcome, torn, bad, audit,
                 alerts, kills>>

-----------------------------------------------------------------------------
HostStep ==
  \/ \E pid \in Pids : Spawn(pid) \/ Exit(pid) \/ \E exe \in Exes : Report(pid, exe)
  \/ Noise
  \/ CloseInput

LoopStep == Flush \/ WriteEarly \/ ReadLine \/ LookUp \/ Signal \/ Log \/ Alert \/ EndOfInput

Stopped == pc \in {"done", "dead", "crashed"} /\ UNCHANGED vars

Next == HostStep \/ LoopStep \/ Crash \/ Stopped

Spec == Init /\ [][Next]_vars

\* The loop runs: nothing it calls blocks for ever (dispatch does not: module
\* AlertDispatcher), as long as the reader of standard output keeps reading.
FairSpec == Spec /\ WF_vars(LoopStep)

-----------------------------------------------------------------------------
(***************************************************************************)
(* Properties                                                              *)
(***************************************************************************)
Logged == audit \o buffer
IdsOf(records) == {records[i].id : i \in DOMAIN records}
Settling == pc \in {"kill", "signal", "log"}

\* The event the loop keeps is the last one it has counted, what it has judged is what
\* it has counted, and every process it has killed is gone or has been succeeded by
\* another with its pid.  The stream never holds more than the line in hand.
ServiceTypeOK ==
  /\ runs \in [Pids -> 0..MaxRuns]
  /\ alive \subseteq {pid \in Pids : runs[pid] > 0}
  /\ lines \in 0..MaxLines /\ Len(input) <= lines
  /\ eof \in BOOLEAN /\ torn \in BOOLEAN /\ bad \in BOOLEAN
  /\ pc \in {"flush", "read", "kill", "signal", "log", "alert", "done", "dead", "crashed"}
  /\ counter \in 0..lines
  /\ event.id = counter - 1
  /\ judged \in Seq(Exes) /\ Len(judged) = counter
  /\ outcome.action \in {"none", "sigkill"}
  /\ Len(buffer) <= 1
  /\ pc \in {"kill", "signal"} /\ ~bad => buffer = <<>>
  /\ \A k \in kills : k.victim[1] \in alive => runs[k.victim[1]] > k.victim[2]

\* Every event read gets one audit line, and the lines come in the order of
\* their event_ids, whatever goes wrong in handling an event.  What the trail
\* loses when the output fails or the daemon is killed is its end: there is no
\* gap that later lines would hide, and part of a line stands only where the trail
\* breaks off, or goes on with the rest of it.
AuditInOrder ==
  /\ \A i \in DOMAIN Logged : Logged[i].id = i - 1
  /\ ~bad /\ pc # "crashed" =>
       /\ Len(Logged) = IF Settling THEN counter - 1 ELSE counter
       /\ torn => buffer # <<>>

\* An audit line, as a JSON reader reads it, names the executable of its event, and
\* with the verdict on it, whatever characters are in the name.  It says a process was
\* killed if and only if one was for this event, and a kill that failed is escalated.
\* docs/ARCHITECTURE.md, line 125: "Mitigation failure: logged as action_error; severity
\* escalated to critical".
AuditIsTrue ==
  \A i \in DOMAIN Logged :
    LET line == Logged[i]
        exe  == judged[line.id + 1]
    IN
    /\ ReadsAs(line.exe, exe)
    /\ line.denied <=> exe \in DeniedExes
    /\ line.outcome.enforced <=> \E k \in kills : k.id = line.id
    /\ line.outcome.action # "none" => line.denied /\ line.severity = "critical"

AlertOf(line) == [id |-> line.id, severity |-> line.severity, exe |-> line.exe]

\* Denials, and only they, are alerted, once each and in order, with the severity
\* and the executable that their audit lines carry.
DenialsAlerted ==
  Alerting /\ ~bad /\ pc \in {"flush", "read", "done"} =>
    /\ \A i \in DOMAIN Logged : Logged[i].denied =>
         \E n \in DOMAIN alerts : alerts[n] = AlertOf(Logged[i])
    /\ \A n \in DOMAIN alerts : \E i \in DOMAIN Logged :
         Logged[i].denied /\ alerts[n] = AlertOf(Logged[i])
    /\ \A m, n \in DOMAIN alerts : m < n => alerts[m].id < alerts[n].id

\* src/mitigator.cpp, line 19: "Verify process exists and get its start time to
\* prevent PID reuse".  The process killed is the process reported.
KilledAsReported == \A k \in kills : k.victim = k.reported

\* docs/ARCHITECTURE.md, line 87: "Emit a mandatory audit event for every
\* mitigation action".  Wherever the daemon is stopped, at most the kill in hand goes
\* unaudited, as long as the output can be written.
AtMostOneUnaudited ==
  ~bad => Cardinality({k \in kills : k.id \notin IdsOf(audit)}) <= 1

\* docs/COMPONENTS.md, line 360: "Daemon continues running on any single event error".
\* Once the input is closed, everything in it is handled, unless the daemon is
\* killed from outside.
InputHandled == eof ~> (pc = "done" /\ input = <<>>) \/ pc = "crashed"

=============================================================================
