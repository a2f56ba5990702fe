# Formal model of sysguardd

TLA+ modules that model sysguardd, a host daemon that reads process execution
events from standard input, judges each against a deny list, kills what it must,
writes an audit line per event and posts alerts to a webhook. TLC checks the
modules on small instances; TLAPS proves theorems about them for every value of
their constants. Paths below are relative to `src/`.

## 1. The system

One process, two threads at most. `main` (src/main.cpp) routes the command line: to
a command that prints something and exits, or to the daemon. For the daemon it builds
the configuration, loads the policy and runs the event loop on the main thread. If
alerting is enabled an `AlertDispatcher` adds one worker thread; its destructor runs
when the loop has returned.

```
 argv --> parse_cli_args --> execute_command --> exit
             `--> parse_config (.env, environment, argv) --> load_from_file
                      |
 stdin --> Service::run --> PolicyEngine::evaluate      (reads the file system)
               |------> Mitigator::kill_process          (/proc, kill(2))
               |------> AuditLogger::log  --> stdout      (buffered, tied to stdin)
               `------> AlertDispatcher::dispatch --> queue_ --> worker_loop
                                                     should_send --> send_webhook --> peer
```

| Component | State it keeps | Operations | What is hard | What makes it correct |
|---|---|---|---|---|
| Event loop (service.cpp) | event counter, the event in hand | `run`, `compute_severity` | a failure half way through an event, a kill of the daemon between kill and audit | every event is audited once, in order; the line tells what happened; one bad event stops nothing |
| Mitigator (mitigator.cpp) | none | `kill_process` | the process may exit, and its pid be reused, between report, look and signal | what is killed is what was reported (it is not: section 6) |
| Audit logger (audit_logger.cpp) | its stream, a mutex | `log`, `json_escape` | buffering, a stream that fails, names that JSON has to escape | what is lost is the end of the trail, never the middle; a reader gets the name that was judged |
| Policy engine (policy_engine.cpp) | exact paths, prefixes | `load_from_file`, `evaluate`, `normalize_abs_path` | links and files change between loading and judging; reading fails | no link to a denied file lets it through (names with `..` after a link aside: section 6); a bad line refuses the whole policy |
| Alert dispatcher (alert_dispatcher.cpp) | queue, stop flag, mutex, condition variable, worker thread | `dispatch`, `worker_loop`, the destructor | lost wakeups, shutdown with work left, a full queue, a hung post | callers never wait for the webhook; only the oldest alerts give way; shutdown drains and ends |
| Send gate (`should_send`) | token bucket, deduplication map | `should_send` | two clocks, one of which is stepped; boundaries of minute and window | a bound on alerts per minute; a minimum distance of repeats |
| Webhook post (`send_webhook_request`) | socket, TLS objects, buffers | URL parsing, plain and TLS post | every call may fail; the peer may stall, close, reset | nothing leaks; it connects where the URL says; success means a 2xx to an alert sent whole; the post returns |
| Configuration (config.cpp) | none | `parse_config`, `.env` loading | precedence of three sources, ranges, words that are values of options | what the daemon serves with is sound and is what was asked for |
| Command line (cli.cpp, main.cpp) | none | `parse_cli_args`, `execute_command`, `main` | which words reach the daemon | asked for the daemon, it serves or fails |
| Deployment (systemd, k8s, helm, scripts) | - | - | - | not modelled: declarative or pure I/O; its command lines are inputs of `MCStartup` |
| Tests | - | - | - | not modelled: read as statements about the program |

Interaction is by direct calls on the main thread, except between `dispatch` and
`worker_loop`, which share `queue_` and `stop_` under `mu_` with `cv_`. The
surroundings act by themselves: processes start and exit, files and links change,
both clocks move, the peer of the webhook does as it likes, and the daemon may be
killed.

## 2. Modules

| Module | Models | Composes |
|---|---|---|
| `AlertGate` | `AlertDispatcher::should_send` and the host's two clocks | |
| `AlertChannel` | abstract: what the dispatcher promises its callers | |
| `AlertDispatcher` | `dispatch`, `worker_loop`, constructor and destructor | `AlertGate` (extends it); implements `AlertChannel` |
| `WebhookUrl` | `parse_webhook_url`, and what a URL is, said without a parser | |
| `WebhookPost` | one `send_webhook_request` with the peer | `WebhookUrl` (extends it) |
| `JsonText` | `json_escape`, `alert_json_escape` and a JSON reader | |
| `Service` | `Service::run`, `Mitigator::kill_process`, `AuditLogger::log`, the host's processes | `JsonText` (extends it) |
| `Daemon` | the event loop with its alerts, and `main` from there to the end | `Service` (extends it), `AlertChannel` (instantiates it) |
| `PolicyEngine` | `PolicyEngine`, the file system | |
| `Config` | `parse_config`, `load_dotenv_file`, `parse_int_arg` | |
| `CommandLine` | `parse_cli_args`, `execute_command` and the commands | `Config` (extends it) |
| `Startup` | `main` until it serves or exits | `CommandLine` (extends it) |
| `MC...` | values of constants for TLC | |
| `DataInduction` | nothing of the program: induction over numbers, for the proofs | |
| `AlertGateProofs`, `AlertDispatcherProofs`, `WebhookPostProofs`, `PolicyEngineProofs`, `ServiceProofs`, `DaemonProofs`, `StartupProofs` | theorems | |

The compositions use a component at the level its users see it: `Daemon` has the
dispatcher as `AlertChannel`, which `AlertDispatcher` is proved to implement, and the
configuration that `Startup` arrives at is proved to be what `GateAssumption` asks of
the gate's constants.

A definition whose name has an underscore and a word after it
(`WorkerPop_KeepsLock`) is what the definition before the underscore would be with
a plausible bug. No specification uses these; putting one in the place of the
original has to make TLC find the property it belongs to violated, which shows
that the property depends on the code being right.

### AlertGate

`tokens`, `lastRefill` and `dedupe` are `tokens_`, `last_refill_` and
`dedupe_map_`. `steady` and `wall` are what the two `now()` calls return: `Tick`
moves both, `StepWall` moves the wall clock alone, in either direction.
`ShouldSend(key)` is a whole call; its three disjuncts are the three returns of the
function (`RateLimited`, `Suppressed`, `LetThrough`), each after the refill, which
happens on every path. `sends` is a history of what was let through. Ticks are
abstract: `Second` and `Minute` say how many make a second and a minute, so that
`duration_cast`'s truncation (`Truncated`, towards zero, also for negative ages)
matters.

### AlertDispatcher and AlertChannel

A step is what a thread does between two points where another thread could tell.
For a caller: `Dispatch` (severity filter, outside the lock), `CallerLock`, `Push`
(with the pop of the oldest when full), `CallerNotify` (still under the lock),
`CallerReturn`. For the worker: `WorkerLock`, `WorkerCheck` (the predicate of
`cv_.wait`), `WorkerBlock` (release and wait, atomically), `WorkerExit` or
`WorkerPop`, `WorkerGate` (the whole of `should_send`, on state only the worker
touches), `WorkerPost` (any outcome). For the owner: `Destroy`, `OwnerLock`,
`OwnerStop`, `OwnerNotify` (after the lock is released, as in the destructor),
`OwnerJoin`. `SpuriousWakeup` is what the standard allows a condition variable.
`fate` and `accepted` are histories: what has become of each alert, and the order
in which they were queued. What may be on the queue, and in the hands of a thread, is an
alert with a severity at the threshold or above (`SevereKeys`). `GuardedByMutex` is an action
property: a step that changes `queue_` or `stop_` is one of the thread that holds `mu_`, which
`MutexOwnership`, a statement about who holds it where, does not say.

A dispatcher is not called once it is being destroyed: `Destroy` waits for callers
to be out. In the code this is so because `main` destroys the dispatcher after
`Service::run` has returned.

`AlertChannel` has no threads: it holds a sequence of alerts, gives up the oldest
when full, takes and settles them one at a time, and once closed settles all it
holds before it is gone. `AlertDispatcher` implements it (`ImplementsChannel`)
with `pending` the ids on `queue_` and `phase` read off the destructor's progress.

### WebhookUrl and WebhookPost

A URL is a scheme and the characters after `://`; `ParseWebhookUrl` follows
`parse_webhook_url` (first slash, first colon before it, digits and range of the port,
no CR, LF or NUL, default path). `Readings` says the same without a parser: where the
host and the port may end. `GoesWhereConfigured` compares the two in the state of the post.

Then one action per fallible call of the setup, each failing with what its branch
releases or going on; then the send loop, the receive loop and the end. `held` is
the set of resources allocated and not yet freed: `res` (getaddrinfo), `fd`,
`ctx` and `ssl`. The request and the response move in parts. `conn` tells a peer
that closed from one that reset, and whether the reset has already been reported:
a write after that raises SIGPIPE unless `MSG_NOSIGNAL` is passed, which the plain
send does and OpenSSL's socket BIO does not (`WriteSignals`). TLS handshake and
name resolution are single steps with any outcome. The peer may answer at any time, and with
2xx before it has read, or been sent, the whole request: that an early answer is no success
is the work of the code's test of what it has sent (in `Accepted`).

### JsonText and Service

`pc` is where `run` is in handling an event: `flush` and `read` are inside
`getline` (the tied `std::cout` is flushed before input is read), then `kill` and
`signal` (the two system calls of `kill_process`), `log` and `alert`. `outcome` is
`enforced`, `action` and `action_error`, with "none" for the code's empty strings.
`buffer` is what `std::cout` holds, `audit` the whole lines that have been written; `WriteEarly`
is a stream that writes sooner, because it is a terminal or its buffer is full, and it may
break off in the middle of a line (`PartWritten`): then `torn` says that the output may end in
part of the next line. `NotWritten` is a failed write, perhaps in the middle of a line too, after
which the stream stays bad; whether what it held still gets out is decided at exit
(`EndOfInput`). A process is a pair
of a pid and a number, so that one pid can belong to different processes in turn;
`kills` is a history of which process was killed and which had been reported, and `judged`
one of the executables of the events, in the order read: the line with event id *n* is
compared with what event *n* said. `Crash`
is SIGKILL, the OOM killer or SIGTERM (which the daemon does not handle). A line is
an event or noise, and the deny decision is a constant set (its making is
`PolicyEngine`'s subject).

An executable's name is a sequence of characters, and an audit line and an alert hold
it escaped. `JsonText` has one member of each class of characters that escaping or
JSON treats in its own way: quote, backslash, control, delete, anything else. `Reading` is a JSON
string reader; `AuditIsTrue` reads the line back with it.

### Daemon

`Daemon` puts `AlertChannel` where `Service` only appends to `alerts`: `Raise` or `Ignore`
is `dispatch` up to the lock, `HandIn` the rest of it; `Take` and `Settle` are the worker's,
at any moment in between; `Close` follows the return of `run`, and `Finish` is the end of the
destructor and of `main`. `Killed` is `Service`'s `Crash`, which takes the channel with it. Each
component's state changes only through its own actions, which is what `DaemonHasService`
and `DaemonHasChannel` say.

### PolicyEngine

A path is a sequence of names, `..` among them. A file system says where each name in each
directory leads: to itself, or, for a symbolic link, elsewhere; `..` leads to the directory
above. `File` walks a path as the kernel and `fs::canonical` do, each name looked up where the
ones before it have led. `Lexical` is `lexically_normal`: `..` takes the name before it
back, in the text. `Normalized` is `normalize_abs_path`, the text first and the file it then names
after (policy_engine.cpp:100 and 109), and what an event or a rule really names is `Named`.
The two differ where `..` follows a link to a directory. A name in which each `..` comes
after a directory that is no link is `Straight`; the properties of the engine's verdicts
are about these, and section 6 says what becomes of the others. `answers` and
`rules` are histories that keep, beside what the engine took a name for, the file it named.

`LoadLine` handles one line of the policy file, `Evaluate` one event; `DiskChanges` may come
between any two of them, and where `ReadMayFail` reading may fail (`ReadFails`, any time): `getline`
ends the loop on an error as it does at the end. `policy` is the file that is read, kept
for `NoHalfPolicy`, which compares the rules in force with its lines. String comparison is kept
where it matters: `StartsWith` compares as text, so the last name of a prefix need only begin
the name it meets (`Beginnings` says which names begin which). Whitespace trimming and
comments are reduced to a line kind.

### Config, CommandLine and Startup

The three modules share one state: `argv`, the environment (`inherited`, then
`environment` as `.env` adds to it), `cfg`, the index `next`, `pc` and the exit code.
`Config` has an action per line of `.env` and per argument of `parse_config`: skip, set,
take a value, lack one, unknown, and the checks at the end. `IntegerOf` is what
`stoi` and `stoll` read from a word and whether they used all of it.
`CommandLine` has no actions: `ParseCliArgs` is which command a line leads to, and
`ExecuteCommand` yields that command's exit code and what it says (`Says`, `Fails`), since commands
change nothing but their output. `Startup` is `main`: `RouteToDaemon` or `RouteToCommand`,
`ParseConfig`, `LoadPolicy`. Words are strings that are only compared.

## 3. What the runs check

| Run (cfg) | Shows |
|---|---|
| gate (`AlertGateStepped`) | the bucket stays within its limit; one refill pays for at most the limit (`RefillBudget`); no minute sees more than twice the limit (`AtMostTwicePerMinute`); repeats are the window apart by the wall clock however it is stepped (`DedupeSpacing`); the map holds exactly the last send of each key (`MarkIsLastSend`) |
| dispatcher_safety (`DispatcherSafety`) | in all interleavings of two callers, worker and owner: who holds the mutex when (`MutexOwnership`), queue and stop flag written by its holder alone (`GuardedByMutex`), no sleep beside work (`NoLostWakeup`), an alert is given up only for a full queue of newer ones (`NewestSurvive`), a repeat is only dropped after an earlier like one was let through, whether or not its post went well (`DuplicateOfSent`), nothing is left when the destructor returns (`SettledWhenGone`) |
| dispatcher_progress (`DispatcherProgress`) | refinement of `AlertChannel`; callers return even if the webhook hangs; if posts return, accepted alerts are settled and the destructor returns |
| post (`WebhookPostBothSchemes`) | a URL is accepted exactly if it can be read as one, and the connection goes to the host, port and path of that reading (`GoesWhereConfigured`); no exit leaks (`NothingLeaks`); success means that the whole alert was written and the peer said 2xx (`SuccessIsEarned`); the post returns if the peer does not send for ever |
| daemon (`DaemonRun`) | in both modes, with failing output and crashes: audit lines complete, in order and without gaps, and half a line only at the end (`AuditInOrder`); each names the executable of its event and tells what happened, to a JSON reader (`AuditIsTrue`); denials alerted once, in order, with the audited severity (`DenialsAlerted`); a crash hides at most one kill (`AtMostOneUnaudited`); an event that the webhook knows of and the trail does not is the last one read, whose line the stream holds or a crash has lost (`AlertsCorrelate`); alerts go out in the trail's order (`AlertsInAuditOrder`); at the end every denial is settled, filtered or gave way to a full queue (`NothingForgotten`); all input is handled whatever the webhook does (`InputHandled`); the daemon exits if posts return (`DaemonEnds`) |
| policy (`PolicyDecisions`) | under straight names: what is let through exists and is covered by no rule, through whatever links it was named and however they change (`NoAliasEscapes`), and one file gets one verdict at all times (`OneVerdictPerFile`); the rules in force are those of all the lines of the policy file, or where reading failed of the lines before, and no bad line is among them (`NoHalfPolicy`) |
| startup (`StartupLines`) | the configuration served with has a positive limit, a natural window and an address if alerts are on (`ServingConfigIsSound`); the address comes from the right source (`UrlPrecedence`) and each of the eight other settings from the option given last, or from its default (`LastOptionWins`); asked for the daemon the program serves or exits with an error, and never serves unasked (`DaemonServesOrFails`) |
| post_tls_signal, post_trickle, service_pid_reuse, policy_prefix, startup_documented | disagreements of code and documentation: section 6 |

`SettledWhenGone`, `NothingForgotten` and `DaemonEnds` differ in what they are about: the
first is the dispatcher's threads, the second relates the final audit trail to the
alerts, the third needs the threads to come to an end.

Bounds, and why they suffice:

- `AlertGateStepped`: two keys (the map is per key, two let one key's alerts use
  the tokens of the other), a limit of 2, a minute of 4 ticks and a second of 2, 8
  ticks in all: two refill boundaries, several seconds, sub-second ages. The wall
  clock is stepped by -3 and +2, past the window and into negative ages.
  Keys are only compared, hence the symmetry.
- `Dispatcher*`: two callers and four alerts with a queue of two: callers compete
  with one another, with the worker and with the owner, and the queue overflows
  twice over. The gate has a rate of one, so all its answers occur. Severities
  lie on both sides of the threshold. `DispatcherProgress` uses fewer severities and no
  symmetry, which liveness checking would not allow.
- `WebhookPostBothSchemes`: every URL of up to three characters out of a letter, a colon,
  a slash, a digit and CR, for both schemes, and longer ones around the largest port (65535,
  65536), leading zeros, second colons and colons in the path; a
  request of two parts in a kernel buffer of one (a send that has to wait), a status line
  of two parts, a response cap of three and a peer that may send four (past the cap).
- `DaemonRun`: three lines, a queue of two, and pids 2 (the daemon's own) and 3, with two
  processes under each: an event may name the daemon, a live process, one that is gone,
  and one whose pid was given out again. Three events let the second and third
  show gaps and order after an interesting first, and overflow the queue.
  `Quiet` holds info and warning, so that denials are filtered in monitor mode and
  queued in enforce mode. A taken alert is settled one way ("delivered"): what the verdict
  is changes nothing for the loop, and the verdicts are the subject of `DispatcherSafety`.
  The two executables have between them every character that JSON escapes.
  `MaxAhead` is 1: a line is written when the one before has been read. What the loop does
  depends on the line it reads and on the processes there are then, not on lines behind
  it, and processes come and go between a report and its reading all the same. The proofs have no such bound.
- `ServicePidReuse`: as before with pid 1, with three lines ahead, and without crashes or
  failures, which the disagreement does not need.
- `PolicyDecisions`: six policy files (three of them broken in different ways, one that
  names its files with `..`), ten file systems (a relinked shell, a payload that comes and goes, a
  tool that is or is not a link to it, a name that is now a directory and now a link to
  one), executables named plainly, through links, with `..` after a directory and with `..`
  after what may be a link; two changes, two events, and a read that may fail after any
  line: a change may fall before, in between and after loading and judging. Without the
  premise that names are straight TLC finds `NoAliasEscapes` and `OneVerdictPerFile` violated.
- `StartupLines`: every option, right, wrong, without a value, with the name of
  another option or a word like `daemon` or `-v` as its value, alone and in all pairs, and the options
  that touch alerts in triples; every command with every subword, two of them with two; the
  command lines the repository gives. Three environments (unset, empty, set), five `.env`
  files (twice the same name, an empty value, another variable), two file systems. `IntMax`
  is 100, with words at 0, 1, 100, 101, -1 and one that only begins with a number. Two
  options are enough for "the last one wins", and a third for one that takes
  the second as its value.

`PolicyDecisions` and `PolicyPrefix` do not check for deadlock: an engine whose
policy was refused stops, and a bounded number of events is judged. In all other
modules the end states (destroyed, returned, stopped) step to themselves and
deadlock is checked.

## 4. Fairness

- `AlertDispatcher!FairSpec`: weak fairness of each thread's steps, as the operating
  system schedules every runnable thread. Strong fairness of taking the mutex: a
  thread that finds it free over and over gets it (the critical sections are short
  and the queue of waiters is the kernel's); weak fairness would let spurious
  wakeups of the worker starve the destructor for ever. Nothing is assumed of
  posts: `WorkerPost` is not fair, so `CallersReturn` holds with a hung webhook.
  `AcceptedSettle` and `ShutdownCompletes` are stated under the premise
  `PostsReturn`, because a post that hangs does hold both up (section 6).
- `WebhookPost!FairSpec`: the worker's next step is taken. A call that waits for the
  peer is a step too: the 5 second socket timeouts end it. The peer need not act.
- `Daemon!FairDaemon`: the main thread takes its next step, once there is one. Nothing is
  assumed of the host, and nothing of the worker: `InputHandled` holds with a worker
  that never moves. `DaemonEnds` has the worker's fairness as its premise, for the
  destructor joins the worker.
- `Startup` has no liveness: each start is a bounded sequence of steps.

## 5. What is proved

`AlertGateProofs` (for all keys, limits, windows, ticks and clock steps):

- `GateTyped`: the type invariant.
- `RefillBudgetHolds` and `AtMostTwicePerMinuteHolds`, from the inductive invariant
  `RateInv`. The property relates sends that lie apart in history, the step only
  sees the bucket: the strengthening says how many of the latest sends drew on the
  present refill (limit minus tokens), that refills recorded in history never
  decrease and never exceed the bucket's, and that each send lies within a minute
  after the refill it drew on.
- `DedupeSpacingHolds`, from `SpacingInv`: every key that was ever sent has a mark, no
  earlier by the wall clock than any of its sends. It needs facts about
  truncating division (`TruncatedMonotone` and the lemmas above it), which hold for
  negative durations too: hence "however the clock is stepped".
- `MarkIsLastSendHolds`, from `MarkInv`: the mark is the latest element of the history that
  has the key, which an element of another key at the end leaves where it is.

`AlertDispatcherProofs` (for any number of callers and alerts, any capacity):

- `DispatcherTyped`, from `TypedInv`: besides the types, a thread past the point
  where it has an alert carries a real one, and alerts on the queue are real.
- `DispatcherHasGate`: every behaviour of the dispatcher is one of the gate, as every
  step is a gate step or leaves the gate alone; so `DispatcherGated`: the gate's
  theorems hold of what the dispatcher posts.
- `MutexOwnershipHolds`: the mutex is held exactly in the locked sections; and from it
  `GuardedByMutexHolds`: whoever changes the queue or the stop flag is in such a section.
- `NoLostWakeupHolds`: the worker never waits beside work with no notify on its way.
  It rests on mutex ownership: between the worker's test of the predicate and its
  wait nobody else can hold the mutex, and so nobody can push or stop.
- `ImplementsChannelHolds`: the dispatcher implements `AlertChannel`. `Dispatch` maps to
  `Offer`, `Push` to `Accept` or `AcceptForOldest`, `WorkerPop` to `Take`, the three ends of
  an alert to `Settle`, `Destroy` to `Close`, `OwnerJoin` to `Finish`; all else stutters.
  The inductive invariant `ChannelInv` says that what the threads hold and what has
  become of the alerts agree: an alert is marked offered exactly while a caller holds it
  (`OffersMatch`), what is on the queue is marked so and is there once
  (`QueueMatches`), one is marked taken exactly while the worker has it
  (`TakenMatches`), numbers are fresh (`NumberedInTurn`), and stop, exit and empty
  queue come in order (`EndInOrder`). Without them a pushed alert could already be on
  the queue, and evicting the head would change the fate of another entry.
- `SettledWhenGoneHolds`: needs in addition that whatever is marked queued is on the
  queue (`QueuedHeld`), and that the owner has joined the worker (`Joined`).
- `NewestSurviveHolds`, from `Ordered`: alerts are accepted once each (`PushedOnce`), what
  has been accepted is marked so (`PushedMarked`), and the queue is the end of the
  sequence of accepted ones (`QueueIsNewest`). The property counts the accepted alerts
  after an evicted one; the step only sees a full queue, and `QueueIsNewest` makes the
  connection.
- `DuplicateOfSentHolds`, from `Repeats`: every mark belongs to an alert the gate let through
  (`MarksPosted`), and what the worker holds is the latest alert taken (`TakenLatest`).

`DataInduction` is for what functions along a sequence compute for every sequence. The
library states induction with the predicate as an operator, which the provers do not
instantiate. Here it is stated for sets: a set of numbers has a least (`LeastNat`, from the
library's proof that the order of the numbers is well-founded), so a set with 0 and with
each number the next has them all (`UpTo`), two functions that go on alike are the same
(`SameUpTo`), and a function may be defined by how it goes on (`Recursion`). Nothing is
assumed for this.

`WebhookPostProofs` (for any URLs, sizes and caps):

- `PostTyped`, `NothingLeaksHolds` and `SuccessIsEarnedHolds`, from `PostInv`. What is
  held is a function of where the post is (`HeldAt`), so each of the failing branches is
  checked against what its place holds; TLS objects exist for TLS alone (`TlsOnly`); what an open
  connection has not had read fits the kernel's buffer (`InBuffer`); and a result is "ok" only
  after a 2xx and with all of the request sent (`ResultIsEarned`). Nothing is assumed of when the peer answers.
- `ParsedAsRead`, for a text of any length: where the parser cuts, at the first slash and
  the first colon before it (`Cuts`), there is a reading if there is one at all
  (`ParsedAtCuts`), and there is no other place to cut (`CutsAreTheOnly`). That there is a
  first is `LeastNat`. Parser and reading ask the same of a port (`Value` of its digits
  within range), so nothing is shown of `std::stoul` itself.
- `GoesWhereConfiguredHolds`, from that and from the URL staying what it was.

`PolicyEngineProofs` (for any file systems, policies and number of changes): `PolicyTyped`,
`NoAliasEscapesHolds`, `OneVerdictPerFileHolds` and `NoHalfPolicyHolds`, from `PolicyInv`:
rules and answers are well formed (`Typed`), answers given stand by the rules of now, as
nothing adds rules once events are judged (`AnswersStand`), and the rules are those of the
lines of the policy that have been read (`ReadSoFar`). What the engine takes a straight name
for is the file it names (`StraightIsTaken`): name by name, the text and the walk lead to
the same place, since the directory above a directory that is no link is where its name was
looked up. `Lexical` and `File` are recursive along the path; that they go on name by name is
`LexicalOf` and `FileOf`.

`ServiceProofs` (for any pids, executables and lines):

- `ServiceTyped`, `AuditInOrderHolds` and `AtMostOneUnauditedHolds`, from `ServiceInv`: types
  that say how the stream's buffer and the loop's place go together (`Typed`), `AuditInOrder`
  itself, and `KillsAudited`: at most one kill per event, none of the event in hand before its
  signal, and a line in the output for every event but the last. The buffer is empty when a
  kill is decided, because `getline` has flushed it: that is why a crash hides one kill and
  not more.
- `EscapedReadsAs`: whatever the characters, and however many, a JSON reader of the escaped text
  has the text back: one more character in the text is one more character read, and
  leaves the reader outside any escape.
- `AuditIsTrueHolds`, from `TrueInv`: the event in hand is the last one judged, no line is of an event that is still in hand or ahead
  (`NotAhead`), the outcome of the event in hand agrees with the kills and the mode
  (`InHand`), and every line is true of its event (`TrueTrail`). The property is about lines
  long written; a later kill would make one untrue if it could be for an event that has its
  line.
- `DenialsAlertedHolds`, from `AlertInv`: alerts have rising numbers, none ahead of the
  event in hand (`AlertsInTurn`), and the denials among the lines, but for the one in hand,
  and the alerts are the same (`AlertsMatch`). Between the line and the alert, `AlertsMatch`
  says that the line written last is still that of the event in hand (`Line`), from which
  the alert is made.

`DaemonProofs` (as general, and for any capacity and threshold):

- `DaemonHasService` and `DaemonHasChannel`: each behaviour of the daemon is one that the
  event loop allows by itself, and one that the channel allows. What `ServiceProofs` has
  proved holds of the daemon.
- `AlertsInAuditOrderHolds`, from `OrderInv`: what waits grows in event number, nothing waits
  or is offered that is ahead of the event in hand, and what was taken is earlier than all
  that waits. `AlertsCorrelateHolds` needs `InTurn` besides, that an event has no alert before its line
  is logged: with `KillsAudited`, every event before the one in hand has its line in
  the output, and with `AuditInOrder` the one in hand has it in the stream.
- `NothingForgottenHolds`, from `AlertsInv` and `DenialsAlerted`: what the loop has raised
  is past the door, and kept out only for its severity (`Raised`); what gave way has as many
  later alerts behind it as the queue holds (`GaveWay`); the channel closes after the loop
  and is gone when it is empty (`Closes`). An alert gives way when a full queue of
  different, later alerts is behind it: that these are so many is `AtLeastAsMany`.

`StartupProofs` (for any command lines, environments, `.env` files and policies):

- `ServingConfigIsSoundHolds`, from `ConfigInv`: limit and window are sound at every
  moment, address and path once all words are read. It discharges what
  `GateAssumption` asks of `RateLimit` and `DedupeWindow`.
- `DaemonServesOrFailsHolds`, from `RouteInv`: past the routing the daemon was asked for.
- `StartupTypeOKHolds`, `UrlPrecedenceHolds` and `LastOptionWinsHolds`, from `StartInv`. The
  properties say what is an option and what is its value by a walk over the whole line, the
  program decides it word by word: `AtWord` says that the program is at a word the walk
  comes by, and `Settled` that each setting is the last one given by the words behind. That
  the recursive function `Looks` is such a walk, and never stops on the value of an option,
  is `LooksIsWalk`; that a step of the loop goes on to its next stop is `WalkOn`.
  `VariableInv` says the same of the variable and the lines of `.env`, where it is the first
  that counts.

Assumptions are those of the modules (`GateAssumption`, `DispatcherAssumption`,
`ServiceAssumption` and so on): positive limit, units and capacity, natural window, thread
names that differ, file systems in which `..` leads to the directory above, URLs and names
of executables that are sequences of characters, and a mark for an unset variable that is no
word. The code justifies the first in `parse_config` and in constants of the class; TLC
evaluates each in the runs of its module. `LiteralAssumption` says that two string
literals of the code are strings, which no prover here knows; TLC evaluates it too.

Only model-checked are the liveness properties `CallersReturn`, `AcceptedSettle`,
`ShutdownCompletes`, `PostReturns`, `InputHandled` and `DaemonEnds`: TLAPS proves neither
liveness under fairness nor ENABLED here. `ImplementsChannel` is about steps, and proved;
that the channel also gets on is `AcceptedSettle` and `ShutdownCompletes`. All invariants
that the runs check are theorems.

## 6. Where code and documentation disagree

Found by runs that are expected to be violated:

1. post_tls_signal: `SSL_write` and `SSL_shutdown` on a connection that the peer has
   reset raise SIGPIPE, and nothing handles it, though "the daemon runtime is never
   interrupted" (docs/ARCHITECTURE.md:114).
2. post_trickle: the socket timeout bounds one `recv`, not the loop; a peer that
   keeps sending holds the worker for ever, though timeouts should "prevent the
   worker from blocking indefinitely" (src/alert_dispatcher.cpp:178).
3. service_pid_reuse: `kill_process` looks for a process of that pid but never
   compares start times (src/mitigator.cpp:19).
4. policy_prefix: a trailing slash of a prefix rule is lost in `fs::canonical`, so
   a rule for `/tmp/` also denies `/tmpfoo/tool` (policies/default.policy:3).
5. startup_documented: the unit file (systemd/sysguardd.service:9; the same line in
   scripts/install-service.sh:130 and docs/INSTALL-TEST.md:211) starts the program with
   `--mode` as its first word. That is taken for a command, which is unknown, and the exit code
   is 1. docs/CLI.md:52 gives `--background`, which `parse_config` rejects.

Also seen in the models, where the stated property is what the code does guarantee:

- The rate limit is not a bound per minute but per refill; within any minute up to
  twice as many alerts may go out (`AtMostTwicePerMinute`), while docs/OPERATIONS.md:77
  speaks of alerts "dispatched per minute".
- A mark in the deduplication map may come to lie in the future when the wall clock
  is set back; repeats stay suppressed until the clock has caught up.
- The gate marks the key before the post; a failed post still suppresses repeats. `DuplicateOfSent`
  counts failed posts, so it says what is so and forbids nothing here.
- After one failed write `std::cout` stays bad: processes are still killed, and
  nothing more is audited (`AtMostOneUnaudited` excepts this case).
- The kill comes before the audit line, and the line is written at the next read: a crash
  in between leaves a kill without one (`AtMostOneUnaudited`), where docs/ARCHITECTURE.md:87 calls the audit event
  mandatory and docs/COMPONENTS.md:351-352 puts the log first.
- `normalize_abs_path` takes `..` back in the text (policy_engine.cpp:100) before it resolves
  links (line 109). Where `..` follows a link to a directory, the engine judges another file than
  the kernel finds under that name, or denies it because there is none; the comment at line 107
  speaks of resolving links. `NoAliasEscapes` and `OneVerdictPerFile` therefore speak of straight names,
  and `PolicyDecisions` has names of both kinds.
- An executable that no rule names is denied once it cannot be resolved, and a listed
  path that is a link stands for what it led to when the policy was read.
- A policy that cannot be read to the end is in force as far as it was read, and a
  directory in its place is a policy without rules, in either mode: docs/ARCHITECTURE.md:123
  says "fail closed for strict mode".
- docs/COMPONENTS.md:169-179 shows a policy as a list of bare paths, even with arguments;
  `load_from_file` refuses a file with a line without `=`. docs/COMPONENTS.md:316 says that only
  `http://` is supported; https is.
- `policy validate` counts lines without parsing them (docs/CLI.md:217: "Validate policy file
  syntax"), and refuses a directory, with which the daemon would start.
- `status` says that the daemon is running whether or not it is; k8s/daemonset.yaml:105 asks
  it to "ensure policy is loaded".
- A word for help or version anywhere on the command line, even as the value of an option (`--node-id -v`),
  makes the daemon's command line print and exit with 0. `daemon --help` shows the
  general help and not the command's (docs/CLI.md:319).
- A variable that is set to nothing hides the address in `.env`; then alerts are
  refused for want of one.
- The address is not parsed at the start: with one that `parse_webhook_url` refuses the daemon runs and
  each alert fails.
- `cmd_daemon` is never reached: `main` takes the word `daemon` before `execute_command` does.

## 7. Not modelled

- Wording and layout of messages, timestamps, payload text; whitespace and quotes in
  `.env` and in policies; empty names, `.` and
  trailing slashes in paths (but for what section 6 says of prefixes); bytes of names that are no UTF-8, which `json_escape` copies.
- Shell scripts, unit files, manifests and charts: declarative or pure I/O. Their
  command lines are inputs of `MCStartup`. The tests: read as statements about the program.
- `dedupe_map_`'s growth: nothing removes entries and nothing claims a bound; the
  number of keys is a bound of the gate's runs.
- Restarts: the daemon persists nothing, so a restart is a new behaviour of `Daemon`,
  with event numbers from 0 and an empty queue.
