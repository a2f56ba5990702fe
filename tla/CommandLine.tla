---------------------------- MODULE CommandLine ----------------------------
(***************************************************************************)
(* The commands other than the daemon: src/cli.cpp.  They print what they  *)
(* know, which is nothing of a daemon that runs; what a command looks at   *)
(* is its words and, for two of them, whether a file is there.  A command  *)
(* yields an answer: the code the process exits with, and what it says.    *)
(* An answer stands for the text; its wording is left out.                 *)
(***************************************************************************)
EXTENDS Config, SequencesExt, FiniteSetsExt

Says(what) == [code |-> 0, says |-> what]
Fails(what) == [code |-> 1, says |-> what]

FileKinds == {"sound", "broken", "missing", "directory"}

\* access(path, F_OK).  read_file_contents throws for a directory, which opens
\* but cannot be read.
Found(path) == IF path \in DOMAIN files THEN files[path] ELSE "missing"
FileExists(path) == Found(path) # "missing"

\* Where a loop over words that skips the values of options looks for an option.
Looks(words, valued) ==
  LET at[i \in DOMAIN words] ==
        \/ i = 1
        \/ at[i - 1] /\ words[i - 1] \notin valued
        \/ i > 2 /\ at[i - 2] /\ words[i - 2] \in valued
  IN  {i \in DOMAIN words : at[i]}

Uses(words, valued, options) == {i \in Looks(words, valued) : words[i] \in options}

-----------------------------------------------------------------------------
(***************************************************************************)
(* parse_cli_args                                                          *)
(***************************************************************************)
HelpWords == {"--help", "-h"}
VersionWords == {"--version", "-v"}

\* A word for help or version anywhere, even as the value of an option, decides;
\* the first of them does.
Asking(words) == {i \in DOMAIN words : words[i] \in HelpWords \cup VersionWords}

CLIContext(command, args, help, version) ==
  [command |-> command, args |-> args, help_requested |-> help,
   version_requested |-> version]

ParseCliArgs(words) ==
  IF words = <<>> THEN CLIContext("help", <<>>, FALSE, FALSE)
  ELSE IF Asking(words) = {} THEN CLIContext(Head(words), Tail(words), FALSE, FALSE)
  ELSE IF words[Min(Asking(words))] \in HelpWords
  THEN CLIContext("help", <<>>, TRUE, FALSE)
  ELSE CLIContext("version", <<>>, FALSE, TRUE)

-----------------------------------------------------------------------------
(***************************************************************************)
(* The commands                                                            *)
(***************************************************************************)
HasOne(args, options) == Range(args) \cap options # {}

\* cmd_daemon announces a daemon and returns.
DaemonValued == {"--mode", "--policy"}

CmdDaemon(args) ==
  LET policies == Uses(args, DaemonValued, {"--policy"})
      policy == IF policies = {} THEN "./policies/default.policy" ELSE args[Max(policies) + 1]
  IN  IF Len(args) \in Uses(args, DaemonValued, DaemonValued) THEN Fails("requires a value")
      ELSE IF ~FileExists(policy) THEN Fails("policy file not found")
      ELSE Says("Starting SysGuardd daemon")

\* Running, in monitor mode, with the policy in /etc: whoever asks, and whenever.
CmdStatus(args) == Says(IF HasOne(args, {"--json", "-j"}) THEN "running, as JSON" ELSE "running")
CmdConfig(args) == Says(IF HasOne(args, {"--json", "-j"}) THEN "monitor, as JSON" ELSE "monitor")

\* stoi, unlike parse_int_arg, is content with the beginning of a word.
CmdLogs(args) ==
  LET tails == Uses(args, {"--tail", "-n"}, {"--tail", "-n"})
      Counts(word) == word \in DOMAIN IntegerOf /\ IntegerOf[word].value \in (-IntMax - 1)..IntMax
  IN  IF \E i \in tails : i = Len(args) \/ ~Counts(args[i + 1])
      THEN Fails("--tail")
      ELSE Says(IF Uses(args, {"--tail", "-n"}, {"--follow", "-f"}) # {}
                THEN "following is not implemented" ELSE "archival is not implemented")

\* To validate is to count the lines; nothing looks at what they say.
CmdPolicy(args) ==
  IF args = <<>> THEN Says("usage of policy")
  ELSE CASE args[1] \in {"validate", "load"} ->
              IF Len(args) < 2 THEN Fails("requires a file path")
              ELSE IF ~FileExists(args[2]) THEN Fails("policy file not found")
              ELSE IF args[1] = "load" THEN Says("restart to apply")
              ELSE IF Found(args[2]) = "directory" THEN Fails("policy validation failed")
              ELSE Says("Syntax: OK")
         [] args[1] = "current" -> Says("introspection is not implemented")
         [] OTHER -> Fails("unknown policy subcommand")

CmdMode(args) ==
  IF args = <<>> THEN Says("Current mode: monitor")
  ELSE IF args[1] \in {"monitor", "enforce"} THEN Says("restart to apply")
  ELSE Fails("invalid mode")

CmdVersion == Says("version")

\* Which page of help it is; a topic it does not know is no error.
Topics == {"daemon", "status", "logs", "policy", "mode", "config", "version"}

ShowHelp(topic) ==
  Says(IF topic \in {"", "help"} THEN "usage"
       ELSE IF topic \in Topics THEN "usage of " \o topic
       ELSE "Unknown command")

CmdHelp(args) == ShowHelp(IF args = <<>> THEN "" ELSE args[1])

ExecuteCommand(ctx) ==
  IF ctx.version_requested /\ ctx.command # "version" THEN CmdVersion
  ELSE IF ctx.help_requested THEN ShowHelp(ctx.command)
  ELSE CASE ctx.command = "daemon" -> CmdDaemon(ctx.args)
         [] ctx.command = "status" -> CmdStatus(ctx.args)
         [] ctx.command = "logs" -> CmdLogs(ctx.args)
         [] ctx.command = "policy" -> CmdPolicy(ctx.args)
         [] ctx.command = "mode" -> CmdMode(ctx.args)
         [] ctx.command = "config" -> CmdConfig(ctx.args)
         [] ctx.command = "version" -> CmdVersion
         [] ctx.command = "help" -> CmdHelp(ctx.args)
         [] OTHER -> Fails("unknown command")

=============================================================================
