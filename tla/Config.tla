------------------------------- MODULE Config -------------------------------
(***************************************************************************)
(* The configuration of the daemon: parse_config in src/config.cpp.  Three *)
(* sources name the webhook: the .env file, the environment, the command   *)
(* line; everything else comes from the command line alone.                *)
(*                                                                         *)
(* A component without a specification of its own: module Startup puts it  *)
(* between main's routing and the loading of the policy.  Words, values of *)
(* variables and file names are strings that are only compared.            *)
(***************************************************************************)
EXTENDS Integers, Sequences

CONSTANTS
  CommandLines,   (* argv without the program's name                       *)
  IntegerOf,      (* what stoi and stoll make of a word: its value, and    *)
                  (* whether they read all of the word                     *)
  IntMax,         (* std::numeric_limits<int>::max()                       *)
  Hostname,       (* gethostname()                                         *)
  Names,          (* environment variables                                 *)
  WebhookName,    (* SYSGUARDD_ALERT_WEBHOOK_URL                           *)
  Unset,          (* getenv() is nullptr                                   *)
  Environments,   (* what the process may inherit                          *)
  DotenvFiles     (* .env: sequences of lines                              *)

\* What the command line, a variable or a line of .env may say; nullptr is no word.
Word == STRING

ASSUME ConfigAssumption ==
  /\ CommandLines \subseteq Seq(Word)
  /\ Hostname \in Word /\ WebhookName \in Names /\ Unset \notin Word
  /\ \A word \in DOMAIN IntegerOf : IntegerOf[word].value \in Int
  /\ IntMax \in Nat /\ IntMax >= 60
  /\ Environments \subseteq [Names -> Word \cup {Unset}]
  /\ \A file \in DotenvFiles : file \in Seq([name : Word, value : Word])

VARIABLES
  argv,        (* the command line                                         *)
  inherited,   (* the environment at the start                             *)
  dotenv,      (* the lines of .env                                        *)
  files,       (* what is found at the path of a policy                    *)
  environment, (* the environment now                                      *)
  cfg,         (* the configuration                                        *)
  next,        (* the argument or line looked at next                      *)
  pc,          (* where the process is                                     *)
  exit         (* the code it exits with, and what it says                 *)

inputs == <<argv, inherited, dotenv, files>>
vars == <<inputs, environment, cfg, next, pc, exit>>

Empty == ""

Running == [code |-> -1, says |-> Empty]
Exits(code, says) == pc' = "exited" /\ exit' = [code |-> code, says |-> says]

\* An exception: main prints it and returns 1.
Throws(says) == Exits(1, says) /\ UNCHANGED <<inputs, environment, cfg, next>>

GoTo(label) == pc' = label /\ UNCHANGED exit

Defaults ==
  [mode |-> "monitor", policy_path |-> "./policies/default.policy",
   node_id |-> Empty, policy_version |-> Empty, enabled |-> FALSE, webhook_url |-> Empty,
   min_severity |-> "warning", dedupe_window_sec |-> 60, rate_limit_per_minute |-> 60]

\* What the program says itself is a word like any other: plain to TLC, while the
\* provers know of no literal that it is a member of STRING.
ASSUME LiteralAssumption == {Empty, Defaults.policy_path} \subseteq Word

-----------------------------------------------------------------------------
(***************************************************************************)
(* load_dotenv_file                                                        *)
(***************************************************************************)
\* Blank lines, comments and lines that assign nothing have no name in Names.
Assigns(line) == line.name \in Names

DotenvLine_Overwrites ==
  /\ pc = "dotenv"
  /\ next <= Len(dotenv)
  /\ next' = next + 1
  /\ environment' = IF Assigns(dotenv[next])
                    THEN [environment EXCEPT ![dotenv[next].name] = dotenv[next].value]
                    ELSE environment
  /\ UNCHANGED <<inputs, cfg, pc, exit>>

\* A variable that is set, be it to nothing, keeps its value.
DotenvLine ==
  /\ pc = "dotenv"
  /\ next <= Len(dotenv)
  /\ next' = next + 1
  /\ environment' = IF Assigns(dotenv[next]) /\ environment[dotenv[next].name] = Unset
                    THEN [environment EXCEPT ![dotenv[next].name] = dotenv[next].value]
                    ELSE environment
  /\ UNCHANGED <<inputs, cfg, pc, exit>>

\* The end of the file; then the host's name and the environment are asked.
DotenvDone ==
  /\ pc = "dotenv"
  /\ next > Len(dotenv)
  /\ next' = 1
  /\ cfg' = [Defaults EXCEPT !.node_id = Hostname,
                             !.webhook_url = IF environment[WebhookName] = Unset
                                             THEN Empty ELSE environment[WebhookName]]
  /\ GoTo("arguments")
  /\ UNCHANGED <<inputs, environment>>

-----------------------------------------------------------------------------
(***************************************************************************)
(* The loop over the arguments                                             *)
(***************************************************************************)
Valued == {"--mode", "--policy", "--node-id", "--policy-version",
           "--alert-webhook-url", "--alert-min-severity",
           "--alert-dedupe-window", "--alert-rate-limit"}

\* parse_int_arg.
IsInt_AnyInteger(word, least) == word \in DOMAIN IntegerOf /\ IntegerOf[word].whole

IsInt(word, least) ==
  /\ word \in DOMAIN IntegerOf /\ IntegerOf[word].whole
  /\ IntegerOf[word].value \in least..IntMax

Valid(option, value) ==
  CASE option = "--mode" -> value \in {"monitor", "enforce"}
    [] option = "--alert-min-severity" -> value \in {"info", "warning", "critical"}
    [] option = "--alert-dedupe-window" -> IsInt(value, 0)
    [] option = "--alert-rate-limit" -> IsInt(value, 1)
    [] OTHER -> TRUE

Assigned(option, value) ==
  CASE option = "--mode" -> [cfg EXCEPT !.mode = value]
    [] option = "--policy" -> [cfg EXCEPT !.policy_path = value]
    [] option = "--node-id" -> [cfg EXCEPT !.node_id = value]
    [] option = "--policy-version" -> [cfg EXCEPT !.policy_version = value]
    [] option = "--alert-webhook-url" -> [cfg EXCEPT !.webhook_url = value]
    [] option = "--alert-min-severity" -> [cfg EXCEPT !.min_severity = value]
    [] option = "--alert-dedupe-window" ->
         [cfg EXCEPT !.dedupe_window_sec = IntegerOf[value].value]
    [] option = "--alert-rate-limit" ->
         [cfg EXCEPT !.rate_limit_per_minute = IntegerOf[value].value]

AtArgument == pc = "arguments" /\ next <= Len(argv)

SkipDaemon ==
  /\ AtArgument
  /\ argv[next] = "daemon"
  /\ next' = next + 1
  /\ UNCHANGED <<inputs, environment, cfg, pc, exit>>

EnableAlerts ==
  /\ AtArgument
  /\ argv[next] = "--alert-enabled"
  /\ cfg' = [cfg EXCEPT !.enabled = TRUE]
  /\ next' = next + 1
  /\ UNCHANGED <<inputs, environment, pc, exit>>

\* An option takes the next word, whatever it looks like.
TakeValue_ValueReread ==
  /\ AtArgument
  /\ argv[next] \in Valued /\ next < Len(argv)
  /\ IF Valid(argv[next], argv[next + 1])
     THEN /\ cfg' = Assigned(argv[next], argv[next + 1])
          /\ next' = next + 1
          /\ UNCHANGED <<inputs, environment, pc, exit>>
     ELSE Throws("invalid value")

TakeValue ==
  /\ AtArgument
  /\ argv[next] \in Valued /\ next < Len(argv)
  /\ IF Valid(argv[next], argv[next + 1])
     THEN /\ cfg' = Assigned(argv[next], argv[next + 1])
          /\ next' = next + 2
          /\ UNCHANGED <<inputs, environment, pc, exit>>
     ELSE Throws("invalid value")

LacksValue ==
  /\ AtArgument
  /\ argv[next] \in Valued /\ next = Len(argv)
  /\ Throws("requires a value")

\* --help and -h too: they print the usage as an error.
Unknown ==
  /\ AtArgument
  /\ argv[next] \notin Valued \cup {"daemon", "--alert-enabled"}
  /\ Throws("unknown argument")

\* The checks at the end of parse_config.
Checked_UrlUnchecked ==
  /\ pc = "arguments" /\ next > Len(argv)
  /\ IF cfg.policy_path = Empty
     THEN Throws("policy path must not be empty")
     ELSE GoTo("policy") /\ UNCHANGED <<inputs, environment, cfg, next>>

Checked ==
  /\ pc = "arguments" /\ next > Len(argv)
  /\ IF cfg.policy_path = Empty
     THEN Throws("policy path must not be empty")
     ELSE IF cfg.enabled /\ cfg.webhook_url = Empty
     THEN Throws("alert webhook URL must be set")
     ELSE GoTo("policy") /\ UNCHANGED <<inputs, environment, cfg, next>>

ParseConfig ==
  \/ DotenvLine \/ DotenvDone
  \/ SkipDaemon \/ EnableAlerts \/ TakeValue \/ LacksValue \/ Unknown
  \/ Checked

=============================================================================
