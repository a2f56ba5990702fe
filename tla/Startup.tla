------------------------------ MODULE Startup ------------------------------
(***************************************************************************)
(* A start of the program, from the command line until it serves or exits: *)
(* main in src/main.cpp over parse_cli_args and execute_command (module    *)
(* CommandLine), parse_config (module Config) and                          *)
(* PolicyEngine::load_from_file, of which only the end is kept here        *)
(* (module PolicyEngine has its lines).                                    *)
(***************************************************************************)
EXTENDS CommandLine

CONSTANTS
  FileSystems,    (* what may be found at the paths of policies            *)
  DaemonLines     (* command lines the repository gives for the daemon     *)

ASSUME StartupAssumption ==
  \A f \in FileSystems : \A path \in DOMAIN f : path \in Word /\ f[path] \in FileKinds

Init ==
  /\ argv \in CommandLines
  /\ inherited \in Environments
  /\ dotenv \in DotenvFiles
  /\ files \in FileSystems
  /\ environment = inherited
  /\ cfg = Defaults
  /\ next = 1
  /\ pc = "route"
  /\ exit = Running

Ctx == ParseCliArgs(argv)

\* No word at all makes parse_cli_args say help, and main start the daemon.
ToDaemon_ByNameless == argv = <<>>
ToDaemon == Ctx.command = "daemon" \/ argv = <<>>

RouteToDaemon ==
  /\ pc = "route"
  /\ ToDaemon
  /\ GoTo("dotenv")
  /\ UNCHANGED <<inputs, environment, cfg, next>>

RouteToCommand ==
  /\ pc = "route"
  /\ ~ToDaemon
  /\ LET answer == ExecuteCommand(Ctx) IN Exits(answer.code, answer.says)
  /\ UNCHANGED <<inputs, environment, cfg, next>>

\* A file that cannot be opened, or that a line makes unusable, is fatal.  Reading
\* that fails ends the file: a directory in its place is a policy without rules.
LoadPolicy ==
  /\ pc = "policy"
  /\ IF Found(cfg.policy_path) \in {"sound", "directory"}
     THEN GoTo("serving") /\ UNCHANGED <<inputs, environment, cfg, next>>
     ELSE Throws("unusable policy file")

Stopped == pc \in {"serving", "exited"} /\ UNCHANGED vars

Main == RouteToDaemon \/ RouteToCommand \/ ParseConfig \/ LoadPolicy

Next == Main \/ Stopped

Spec == Init /\ [][Next]_vars

-----------------------------------------------------------------------------
(***************************************************************************)
(* Properties                                                              *)
(***************************************************************************)
Serving == pc = "serving"

Configs ==
  [mode : {"monitor", "enforce"}, policy_path : Word, node_id : Word,
   policy_version : Word, enabled : BOOLEAN, webhook_url : Word,
   min_severity : {"info", "warning", "critical"},
   dedupe_window_sec : 0..IntMax, rate_limit_per_minute : 1..IntMax]

\* The configuration is one the other components can work with at every moment,
\* and a process that has exited has said why.
StartupTypeOK ==
  /\ environment \in [Names -> Word \cup {Unset}]
  /\ cfg \in Configs
  /\ next \in Nat \ {0}
  /\ pc \in {"route", "dotenv", "arguments", "policy", "serving", "exited"}
  /\ pc = "exited" <=> exit # Running

\* What the daemon serves with is what the send gate, the dispatcher and the post
\* assume of their constants (GateAssumption, DispatcherAssumption): a positive
\* limit, a window that is no negative number, an address if alerts are on.
ServingConfigIsSound ==
  Serving =>
    /\ cfg.rate_limit_per_minute \in Nat \ {0}
    /\ cfg.dedupe_window_sec \in Nat
    /\ cfg.enabled => cfg.webhook_url # Empty
    /\ cfg.policy_path # Empty

\* The words of an option's values, in the order given.
GivenAt(option) == Uses(argv, Valued, {option})
Given(option, default) ==
  IF GivenAt(option) = {} THEN default ELSE argv[Max(GivenAt(option)) + 1]
NumberGiven(option, default) ==
  IF GivenAt(option) = {} THEN default ELSE IntegerOf[Given(option, Empty)].value

DotenvLines == {i \in DOMAIN dotenv : dotenv[i].name = WebhookName}

FromVariables ==
  IF inherited[WebhookName] # Unset THEN inherited[WebhookName]
  ELSE IF DotenvLines # {} THEN dotenv[Min(DotenvLines)].value
  ELSE Empty

\* The webhook's address comes from the last --alert-webhook-url, else from the
\* environment if the variable is there at all, else from the first line of .env
\* that sets it.  An empty value is a value: it hides those that come after it.
UrlPrecedence ==
  Serving => cfg.webhook_url = Given("--alert-webhook-url", FromVariables)

\* Every other setting is the one given last, or the one that config.hpp and the host
\* start from when none is given; and a word that is the value of one option is never
\* taken for another: not even --alert-enabled.
LastOptionWins ==
  Serving =>
    /\ cfg.mode = Given("--mode", "monitor")
    /\ cfg.policy_path = Given("--policy", Defaults.policy_path)
    /\ cfg.node_id = Given("--node-id", Hostname)
    /\ cfg.policy_version = Given("--policy-version", Empty)
    /\ cfg.enabled <=> Uses(argv, Valued, {"--alert-enabled"}) # {}
    /\ cfg.min_severity = Given("--alert-min-severity", "warning")
    /\ cfg.dedupe_window_sec = NumberGiven("--alert-dedupe-window", 60)
    /\ cfg.rate_limit_per_minute = NumberGiven("--alert-rate-limit", 60)

\* The word daemon first, or no word at all, and none for help or the version.
Asked == Asking(argv) = {} /\ (argv = <<>> \/ argv[1] = "daemon")

\* docs/CLI.md, line 13: "daemon - Start the SysGuardd enforcement daemon".
\* Asked for the daemon, the program serves or fails with a code that says so:
\* it never announces a daemon and leaves.  It does not serve unasked.
DaemonServesOrFails ==
  /\ pc = "exited" /\ Asked => exit.code # 0
  /\ Serving => Asked

\* systemd/sysguardd.service, line 9: "ExecStart=/usr/local/bin/sysguardd --mode
\* monitor --policy /etc/sysguardd/default.policy".  A command line that the
\* repository gives for the daemon starts it, if the policy is sound.
DocumentedLinesServe ==
  argv \in DaemonLines /\ Found(Given("--policy", Defaults.policy_path)) = "sound" =>
    pc # "exited"

=============================================================================
