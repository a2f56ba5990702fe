--------------------------- MODULE StartupProofs ---------------------------
(***************************************************************************)
(* Proofs about the start of the program, for every command line,          *)
(* environment, .env file and file system.                                 *)
(***************************************************************************)
EXTENDS Startup, DataInduction

Fields == DOMAIN Defaults

\* The numbers the gate relies on are sound from the first moment; that the alerts
\* have an address, and the policy a path, is known once all words are read.
ConfigInv ==
  /\ DOMAIN cfg = Fields
  /\ cfg.rate_limit_per_minute \in Nat \ {0}
  /\ cfg.dedupe_window_sec \in Nat
  /\ pc \in {"policy", "serving"} =>
       /\ cfg.enabled => cfg.webhook_url # Empty
       /\ cfg.policy_path # Empty

Numbers ==
  /\ DOMAIN cfg = Fields
  /\ cfg.rate_limit_per_minute \in Nat \ {0}
  /\ cfg.dedupe_window_sec \in Nat

\* The members' initial values.
LEMMA DefaultNumbers ==
  /\ Defaults.rate_limit_per_minute = 60
  /\ Defaults.dedupe_window_sec = 60
  /\ "rate_limit_per_minute" \in Fields
  /\ "dedupe_window_sec" \in Fields
  BY DEF Defaults, Fields

\* What the host and the environment say is no number.
LEMMA DotenvKeeps ==
  ASSUME ConfigInv, DotenvDone
  PROVE  ConfigInv'
  <1> DEFINE url == IF environment[WebhookName] = Unset THEN Empty ELSE environment[WebhookName]
  <1>1. cfg' = [Defaults EXCEPT !.node_id = Hostname, !.webhook_url = url] /\ pc' = "arguments"
    BY DEF DotenvDone, GoTo
  <1> HIDE DEF url
  <1>2. DOMAIN cfg' = Fields
    BY <1>1 DEF Fields
  <1>3. /\ cfg'.rate_limit_per_minute = Defaults.rate_limit_per_minute
        /\ cfg'.dedupe_window_sec = Defaults.dedupe_window_sec
    BY <1>1, DefaultNumbers DEF Fields
  <1> QED
    BY <1>1, <1>2, <1>3, DefaultNumbers DEF ConfigInv

\* parse_int_arg lets no number through that the gate could not work with.
LEMMA AssignedKeeps ==
  ASSUME Numbers, NEW option \in Valued, NEW value, Valid(option, value),
         cfg' = Assigned(option, value)
  PROVE  Numbers'
  <1>1. IntMax \in Nat
    BY ConfigAssumption DEF ConfigAssumption
  <1>2. CASE option = "--alert-rate-limit"
    <2>1. IntegerOf[value].value \in 1..IntMax
      BY <1>2 DEF Valid, IsInt
    <2>2. cfg' = [cfg EXCEPT !.rate_limit_per_minute = IntegerOf[value].value]
      BY <1>2 DEF Assigned
    <2> QED
      BY <1>1, <2>1, <2>2, DefaultNumbers DEF Numbers
  <1>3. CASE option = "--alert-dedupe-window"
    <2>1. IntegerOf[value].value \in 0..IntMax
      BY <1>3 DEF Valid, IsInt
    <2>2. cfg' = [cfg EXCEPT !.dedupe_window_sec = IntegerOf[value].value]
      BY <1>3 DEF Assigned
    <2> QED
      BY <1>1, <2>1, <2>2, DefaultNumbers DEF Numbers
  <1>4. CASE option \notin {"--alert-rate-limit", "--alert-dedupe-window"}
    <2>1. option \in {"--mode", "--policy", "--node-id", "--policy-version",
                     "--alert-webhook-url", "--alert-min-severity"}
      BY <1>4 DEF Valued
    <2>2. CASE option = "--mode"
      <3>1. cfg' = [cfg EXCEPT !.mode = value]
        BY <2>2 DEF Assigned
      <3> QED
        BY <3>1, DefaultNumbers DEF Numbers
    <2>3. CASE option = "--policy"
      <3>1. cfg' = [cfg EXCEPT !.policy_path = value]
        BY <2>3 DEF Assigned
      <3> QED
        BY <3>1, DefaultNumbers DEF Numbers
    <2>4. CASE option = "--node-id"
      <3>1. cfg' = [cfg EXCEPT !.node_id = value]
        BY <2>4 DEF Assigned
      <3> QED
        BY <3>1, DefaultNumbers DEF Numbers
    <2>5. CASE option = "--policy-version"
      <3>1. cfg' = [cfg EXCEPT !.policy_version = value]
        BY <2>5 DEF Assigned
      <3> QED
        BY <3>1, DefaultNumbers DEF Numbers
    <2>6. CASE option = "--alert-webhook-url"
      <3>1. cfg' = [cfg EXCEPT !.webhook_url = value]
        BY <2>6 DEF Assigned
      <3> QED
        BY <3>1, DefaultNumbers DEF Numbers
    <2>7. CASE option = "--alert-min-severity"
      <3>1. cfg' = [cfg EXCEPT !.min_severity = value]
        BY <2>7 DEF Assigned
      <3> QED
        BY <3>1, DefaultNumbers DEF Numbers
    <2> QED
      BY <2>1, <2>2, <2>3, <2>4, <2>5, <2>6, <2>7
  <1> QED
    BY <1>2, <1>3, <1>4

\* The daemon serves with a limit and a window that GateAssumption allows, and with
\* an address if alerts are on, whatever the three sources say.
THEOREM ServingConfigIsSoundHolds == Spec => []ServingConfigIsSound
  <1>1. Init => ConfigInv
    BY DefaultNumbers DEF Init, ConfigInv, Fields
  <1>2. ConfigInv /\ [Next]_vars => ConfigInv'
    <2> SUFFICES ASSUME ConfigInv, [Next]_vars PROVE ConfigInv'
      OBVIOUS
    <2>1. ASSUME cfg' = cfg, pc' \in {"policy", "serving"} => pc \in {"policy", "serving"}
          PROVE  ConfigInv'
      BY <2>1 DEF ConfigInv
    <2>2. CASE RouteToDaemon
      BY <2>1, <2>2 DEF RouteToDaemon, GoTo
    <2>3. CASE RouteToCommand
      BY <2>1, <2>3 DEF RouteToCommand, Exits
    <2>4. CASE DotenvLine
      BY <2>1, <2>4 DEF DotenvLine
    <2>5. CASE DotenvDone
      BY <2>5, DotenvKeeps
    <2>6. CASE SkipDaemon \/ LacksValue \/ Unknown
      BY <2>1, <2>6 DEF SkipDaemon, LacksValue, Unknown, Throws, Exits
    <2>7. CASE EnableAlerts
      <3>1. cfg' = [cfg EXCEPT !.enabled = TRUE] /\ pc' = "arguments"
        BY <2>7 DEF EnableAlerts, AtArgument
      <3> QED
        BY <3>1 DEF ConfigInv
    <2>8. CASE TakeValue
      <3>1. CASE Valid(argv[next], argv[next + 1])
        <4>1. /\ argv[next] \in Valued /\ cfg' = Assigned(argv[next], argv[next + 1])
              /\ pc' = "arguments"
          BY <2>8, <3>1 DEF TakeValue, AtArgument
        <4>2. Numbers'
          BY <3>1, <4>1, AssignedKeeps DEF ConfigInv, Numbers
        <4> QED
          BY <4>1, <4>2 DEF ConfigInv, Numbers
      <3>2. CASE ~Valid(argv[next], argv[next + 1])
        BY <2>1, <2>8, <3>2 DEF TakeValue, Throws, Exits
      <3> QED
        BY <3>1, <3>2
    <2>9. CASE Checked
      <3>1. CASE cfg.policy_path = Empty \/ (cfg.enabled /\ cfg.webhook_url = Empty)
        BY <2>1, <2>9, <3>1 DEF Checked, Throws, Exits
      <3>2. CASE ~(cfg.policy_path = Empty \/ (cfg.enabled /\ cfg.webhook_url = Empty))
        BY <2>9, <3>2 DEF Checked, GoTo, ConfigInv
      <3> QED
        BY <3>1, <3>2
    <2>10. CASE LoadPolicy
      BY <2>1, <2>10 DEF LoadPolicy, GoTo, Throws, Exits
    <2>11. CASE Stopped \/ UNCHANGED vars
      BY <2>1, <2>11 DEF Stopped, vars
    <2> QED
      BY <2>2, <2>3, <2>4, <2>5, <2>6, <2>7, <2>8, <2>9, <2>10, <2>11
         DEF Next, Main, ParseConfig
  <1>3. ConfigInv => ServingConfigIsSound
    BY DEF ConfigInv, ServingConfigIsSound, Serving
  <1> QED
    BY <1>1, <1>2, <1>3, PTL DEF Spec

-----------------------------------------------------------------------------
(***************************************************************************)
(* Who is asked for the daemon                                             *)
(***************************************************************************)

\* main goes for the daemon exactly if the words ask for it.
LEMMA RoutedAsAsked ==
  ASSUME argv \in Seq(Word)
  PROVE  ToDaemon <=> Asked
  <1>1. CASE argv = <<>>
    BY <1>1 DEF ToDaemon, Asked, Asking
  <1>2. CASE argv # <<>> /\ Asking(argv) = {}
    <2>1. Ctx.command = Head(argv)
      BY <1>2 DEF Ctx, ParseCliArgs, CLIContext
    <2>2. Head(argv) = argv[1]
      BY <1>2
    <2> QED
      BY <1>2, <2>1, <2>2 DEF ToDaemon, Asked
  <1>3. CASE argv # <<>> /\ Asking(argv) # {}
    <2>1. Ctx.command = "help" \/ Ctx.command = "version"
      BY <1>3 DEF Ctx, ParseCliArgs, CLIContext
    <2> QED
      BY <1>3, <2>1 DEF ToDaemon, Asked
  <1> QED
    BY <1>1, <1>2, <1>3

\* Past the routing the daemon was asked for; and a failure says that it is one.
RouteInv ==
  /\ argv \in Seq(Word)
  /\ pc \in {"dotenv", "arguments", "policy", "serving"} => Asked
  /\ pc = "exited" /\ Asked => exit.code # 0

\* main: asked for the daemon, the program serves or exits with a code that says it
\* does not; it never serves unasked.
THEOREM DaemonServesOrFailsHolds == Spec => []DaemonServesOrFails
  <1>1. Init => RouteInv
    BY ConfigAssumption DEF Init, RouteInv, ConfigAssumption
  <1>2. RouteInv /\ [Next]_vars => RouteInv'
    <2> SUFFICES ASSUME RouteInv, [Next]_vars PROVE RouteInv'
      OBVIOUS
    <2>1. argv' = argv /\ (Asked' <=> Asked)
      <3>1. argv' = argv
        BY DEF Next, Main, RouteToDaemon, RouteToCommand, ParseConfig, DotenvLine,
               DotenvDone, SkipDaemon, EnableAlerts, TakeValue, LacksValue, Unknown,
               Checked, LoadPolicy, Stopped, Throws, vars, inputs
      <3> QED
        BY <3>1 DEF Asked
    <2>2. ASSUME pc' = "exited" => exit'.code # 0,
                 pc \in {"dotenv", "arguments", "policy"},
                 pc' \in {"dotenv", "arguments", "policy", "serving", "exited"}
          PROVE  RouteInv'
      BY <2>1, <2>2 DEF RouteInv
    <2>3. ASSUME NEW says, Throws(says) PROVE pc' = "exited" /\ exit'.code # 0
      BY <2>3 DEF Throws, Exits
    <2>4. CASE RouteToDaemon
      BY <2>1, <2>4, RoutedAsAsked DEF RouteToDaemon, GoTo, RouteInv
    <2>5. CASE RouteToCommand
      BY <2>1, <2>5, RoutedAsAsked DEF RouteToCommand, Exits, RouteInv
    <2>6. CASE DotenvLine \/ DotenvDone \/ SkipDaemon \/ EnableAlerts
      BY <2>2, <2>6 DEF DotenvLine, DotenvDone, SkipDaemon, EnableAlerts, AtArgument, GoTo
    <2>7. CASE TakeValue
      BY <2>2, <2>3, <2>7 DEF TakeValue, AtArgument
    <2>8. CASE LacksValue \/ Unknown
      BY <2>2, <2>3, <2>8 DEF LacksValue, Unknown, AtArgument
    <2>9. CASE Checked
      BY <2>2, <2>3, <2>9 DEF Checked, GoTo
    <2>10. CASE LoadPolicy
      BY <2>2, <2>3, <2>10 DEF LoadPolicy, GoTo
    <2>11. CASE Stopped \/ UNCHANGED vars
      BY <2>1, <2>11 DEF Stopped, vars, RouteInv
    <2> QED
      BY <2>4, <2>5, <2>6, <2>7, <2>8, <2>9, <2>10, <2>11 DEF Next, Main, ParseConfig
  <1>3. RouteInv => DaemonServesOrFails
    BY DEF RouteInv, DaemonServesOrFails, Serving
  <1> QED
    BY <1>1, <1>2, <1>3, PTL DEF Spec

-----------------------------------------------------------------------------
(***************************************************************************)
(* Types                                                                   *)
(***************************************************************************)

\* What the program starts from is a configuration.
LEMMA DefaultsTyped == Defaults \in Configs
<1>1. Empty \in Word
  BY LiteralAssumption DEF LiteralAssumption
<1>2. "./policies/default.policy" \in Word
  BY LiteralAssumption DEF LiteralAssumption, Defaults
<1>3. 60 \in 0..IntMax /\ 60 \in 1..IntMax
  BY ConfigAssumption DEF ConfigAssumption
<1> QED
  BY <1>1, <1>2, <1>3 DEF Defaults, Configs

\* A value that is valid for its option leaves a configuration: parse_int_arg, and the
\* checks of the mode and the severity, see to that.
LEMMA AssignedTyped ==
  ASSUME cfg \in Configs, NEW option \in Valued, NEW value \in Word, Valid(option, value),
         cfg' = Assigned(option, value)
  PROVE  cfg' \in Configs
<1>1. CASE option = "--mode"
  BY <1>1 DEF Assigned, Valid, Configs
<1>2. CASE option = "--policy"
  BY <1>2 DEF Assigned, Configs
<1>3. CASE option = "--node-id"
  BY <1>3 DEF Assigned, Configs
<1>4. CASE option = "--policy-version"
  BY <1>4 DEF Assigned, Configs
<1>5. CASE option = "--alert-webhook-url"
  BY <1>5 DEF Assigned, Configs
<1>6. CASE option = "--alert-min-severity"
  BY <1>6 DEF Assigned, Valid, Configs
<1>7. CASE option = "--alert-dedupe-window"
  BY <1>7 DEF Assigned, Valid, IsInt, Configs
<1>8. CASE option = "--alert-rate-limit"
  BY <1>8 DEF Assigned, Valid, IsInt, Configs
<1> QED
  BY <1>1, <1>2, <1>3, <1>4, <1>5, <1>6, <1>7, <1>8 DEF Valued

\* A command answers with one of two codes; none is that of a process that runs.
Code(answer) == answer.code \in {0, 1}

\* Both ways to answer are answers.
LEMMA SaysCode == \A what : Code(Says(what)) /\ Code(Fails(what))
  BY DEF Says, Fails, Code

\* Every command, and a word that is none, answers.
LEMMA AnswerCode == \A ctx : Code(ExecuteCommand(ctx))
<1>1. \A args : Code(CmdDaemon(args))
  BY SaysCode, Zenon DEF CmdDaemon
<1>2. \A args : Code(CmdLogs(args))
  BY SaysCode, Zenon DEF CmdLogs
<1>3. \A args : Code(CmdStatus(args)) /\ Code(CmdConfig(args))
  BY SaysCode, Zenon DEF CmdStatus, CmdConfig
<1>4. \A args : Code(CmdPolicy(args))
  BY SaysCode, Zenon DEF CmdPolicy
<1>5. \A args : Code(CmdMode(args))
  BY SaysCode, Zenon DEF CmdMode
<1>6. Code(CmdVersion)
  BY SaysCode, Zenon DEF CmdVersion
<1>7. \A topic : Code(ShowHelp(topic))
  BY SaysCode, Zenon DEF ShowHelp
<1>8. \A args : Code(CmdHelp(args))
  BY <1>7, Zenon DEF CmdHelp
<1> QED
  BY <1>1, <1>2, <1>3, <1>4, <1>5, <1>6, <1>7, <1>8, SaysCode, Zenon DEF ExecuteCommand

InputsTyped ==
  /\ argv \in Seq(Word)
  /\ inherited \in [Names -> Word \cup {Unset}]
  /\ dotenv \in Seq([name : Word, value : Word])

\* Nothing writes the command line, the inherited environment or the files.
LEMMA InputsStay ==
  ASSUME [Next]_vars PROVE UNCHANGED inputs
  BY DEF Next, Main, RouteToDaemon, RouteToCommand, ParseConfig, DotenvLine, DotenvDone,
         SkipDaemon, EnableAlerts, TakeValue, LacksValue, Unknown, Checked, LoadPolicy,
         Stopped, Throws, vars

TypeInv == InputsTyped /\ StartupTypeOK

\* The start has its types.
LEMMA TypeInvInit == Init => TypeInv
<1> SUFFICES ASSUME Init PROVE TypeInv
  OBVIOUS
<1>1. InputsTyped
  BY ConfigAssumption DEF Init, InputsTyped, ConfigAssumption
<1>2. environment \in [Names -> Word \cup {Unset}]
  BY <1>1 DEF Init, InputsTyped
<1> QED
  BY <1>1, <1>2, DefaultsTyped DEF Init, TypeInv, StartupTypeOK

\* Every step keeps them.
LEMMA TypeInvStep == TypeInv /\ [Next]_vars => TypeInv'
<1> SUFFICES ASSUME TypeInv, [Next]_vars PROVE TypeInv'
  OBVIOUS
<1>1. InputsTyped'
  BY InputsStay DEF TypeInv, InputsTyped, inputs
<1>2. ASSUME environment' \in [Names -> Word \cup {Unset}], cfg' \in Configs, next' \in Nat \ {0},
             pc' \in {"route", "dotenv", "arguments", "policy", "serving"}, UNCHANGED exit,
             pc # "exited"
      PROVE  TypeInv'
  BY <1>1, <1>2 DEF TypeInv, StartupTypeOK
<1>3. ASSUME UNCHANGED <<environment, cfg, next>>, NEW code \in {0, 1}, NEW says,
             Exits(code, says)
      PROVE  TypeInv'
  <2>1. exit' # Running
    <3>1. exit'.code # Running.code
      BY <1>3 DEF Exits, Running
    <3> QED
      BY <3>1
  <2> QED
    BY <1>1, <1>3, <2>1 DEF TypeInv, StartupTypeOK, Exits
<1>4. ASSUME NEW says, Throws(says) PROVE TypeInv'
  BY <1>3, <1>4 DEF Throws
<1>5. environment \in [Names -> Word \cup {Unset}] /\ cfg \in Configs /\ next \in Nat \ {0}
  BY DEF TypeInv, StartupTypeOK
<1>6. CASE RouteToDaemon
  BY <1>2, <1>5, <1>6 DEF RouteToDaemon, GoTo
<1>7. CASE RouteToCommand
  <2> DEFINE answer == ExecuteCommand(Ctx)
  <2>1. answer.code \in {0, 1}
    BY AnswerCode, Zenon DEF Code
  <2>2. Exits(answer.code, answer.says) /\ UNCHANGED <<environment, cfg, next>>
    BY <1>7, Zenon DEF RouteToCommand
  <2> HIDE DEF answer
  <2> QED
    BY <1>3, <2>1, <2>2
<1>8. CASE DotenvLine
  <2>1. dotenv[next] \in [name : Word, value : Word]
    <3> DEFINE Line == [name : Word, value : Word]
    <3>1. dotenv \in Seq(Line)
      BY DEF TypeInv, InputsTyped
    <3>2. next <= Len(dotenv)
      BY <1>8 DEF DotenvLine
    <3> HIDE DEF Line
    <3>3. dotenv[next] \in Line
      BY <1>5, <3>1, <3>2
    <3> QED
      BY <3>3 DEF Line
  <2>2. environment' \in [Names -> Word \cup {Unset}]
    <3>1. dotenv[next].value \in Word
      BY <2>1
    <3> QED
      BY <1>5, <1>8, <3>1 DEF DotenvLine
  <2> QED
    BY <1>2, <1>5, <1>8, <2>2 DEF DotenvLine
<1>9. CASE DotenvDone
  <2>1. Hostname \in Word /\ WebhookName \in Names
    BY ConfigAssumption DEF ConfigAssumption
  <2> DEFINE url == IF environment[WebhookName] = Unset THEN Empty ELSE environment[WebhookName]
  <2>2. url \in Word
    <3>1. Empty \in Word
      BY LiteralAssumption DEF LiteralAssumption
    <3> QED
      BY <1>5, <2>1, <3>1
  <2>3. cfg' = [Defaults EXCEPT !.node_id = Hostname, !.webhook_url = url]
    BY <1>9, Zenon DEF DotenvDone
  <2> HIDE DEF url
  <2>4. cfg' \in Configs
    BY <2>1, <2>2, <2>3, DefaultsTyped DEF Configs
  <2> QED
    BY <1>2, <1>5, <1>9, <2>4 DEF DotenvDone, GoTo
<1>10. CASE SkipDaemon
  BY <1>2, <1>5, <1>10 DEF SkipDaemon, AtArgument
<1>11. CASE EnableAlerts
  <2>1. cfg' \in Configs
    BY <1>5, <1>11 DEF EnableAlerts, Configs
  <2> QED
    BY <1>2, <1>5, <1>11, <2>1 DEF EnableAlerts, AtArgument
<1>12. CASE TakeValue
  <2>1. CASE Valid(argv[next], argv[next + 1])
    <3>1. argv[next + 1] \in Word
      <4>1. argv \in Seq(Word)
        BY DEF TypeInv, InputsTyped
      <4>2. next < Len(argv)
        BY <1>12 DEF TakeValue
      <4> QED
        BY <1>5, <4>1, <4>2
    <3>2. cfg' = Assigned(argv[next], argv[next + 1]) /\ argv[next] \in Valued
      BY <1>12, <2>1 DEF TakeValue
    <3>3. cfg' \in Configs
      BY <1>5, <2>1, <3>1, <3>2, AssignedTyped
    <3> QED
      BY <1>2, <1>5, <1>12, <2>1, <3>3 DEF TakeValue, AtArgument
  <2>2. CASE ~Valid(argv[next], argv[next + 1])
    BY <1>4, <1>12, <2>2 DEF TakeValue
  <2> QED
    BY <2>1, <2>2
<1>13. CASE LacksValue \/ Unknown
  BY <1>4, <1>13 DEF LacksValue, Unknown
<1>14. CASE Checked
  BY <1>2, <1>4, <1>5, <1>14 DEF Checked, GoTo
<1>15. CASE LoadPolicy
  BY <1>2, <1>4, <1>5, <1>15 DEF LoadPolicy, GoTo
<1>16. CASE Stopped \/ UNCHANGED vars
  BY <1>1, <1>16 DEF Stopped, vars, TypeInv, StartupTypeOK
<1> QED
  BY <1>6, <1>7, <1>8, <1>9, <1>10, <1>11, <1>12, <1>13, <1>14, <1>15, <1>16
     DEF Next, Main, ParseConfig

-----------------------------------------------------------------------------
(***************************************************************************)
(* The walk over the words                                                 *)
(***************************************************************************)

\* What the loop over the words looks at: not at the value of an option it looks at.
Steps(words, valued, at) ==
  \A i \in DOMAIN words :
    at[i] <=> \/ i = 1
              \/ at[i - 1] /\ words[i - 1] \notin valued
              \/ i > 2 /\ at[i - 2] /\ words[i - 2] \in valued

\* The walk over the words in three states: at a word, at an option that takes a
\* value, at a value.
LEMMA WalkExists ==
  ASSUME NEW words \in Seq(Word), NEW valued
  PROVE  \E at : at = [i \in DOMAIN words |->
                        \/ i = 1
                        \/ at[i - 1] /\ words[i - 1] \notin valued
                        \/ i > 2 /\ at[i - 2] /\ words[i - 2] \in valued]
<1> DEFINE n == Len(words)
           Start(i) == IF words[i] \in valued THEN 2 ELSE 1
           S == 0..2
           a == 1
           step == [p \in S \X (1..n) |-> IF p[1] = 2 THEN 0 ELSE Start(p[2])]
<1>1. n \in Nat /\ DOMAIN words = 1..n /\ a \in S
  OBVIOUS
<1> HIDE DEF n
<1>2. \A s \in S, i \in 1..n :
        step[<<s, i>>] \in S /\ step[<<s, i>>] = IF s = 2 THEN 0 ELSE Start(i)
  OBVIOUS
<1> HIDE DEF step
<1>3. PICK k \in [0..n -> 0..2] :
        k[0] = 1 /\ \A i \in 1..n : k[i] = step[<<k[i - 1], i>>]
  <2> HIDE DEF S, a
  <2>1. StaysIn(step, S, n)
    BY <1>2 DEF StaysIn
  <2>2. PICK f : Follows(f, step, S, n, a)
    BY <1>1, <2>1, Recursion
  <2> QED
    BY <2>2 DEF Follows, S, a
<1>4. ASSUME NEW i \in 1..n PROVE k[i] = IF k[i - 1] = 2 THEN 0 ELSE Start(i)
  <2>1. k[i - 1] \in 0..2
    BY <1>1
  <2> QED
    BY <1>2, <1>3, <2>1
<1>5. ASSUME NEW i \in 1..n
      PROVE  k[i] # 0 <=> \/ i = 1
                          \/ k[i - 1] # 0 /\ words[i - 1] \notin valued
                          \/ i > 2 /\ k[i - 2] # 0 /\ words[i - 2] \in valued
  <2>1. CASE i = 1
    BY <1>3, <1>4, <2>1
  <2>2. CASE i > 1
    <3>1. i - 1 \in 1..n /\ k[i - 1] \in 0..2 /\ i - 2 = (i - 1) - 1
      BY <1>1, <2>2
    <3>2. k[i - 1] = IF k[i - 2] = 2 THEN 0 ELSE Start(i - 1)
      BY <1>4, <3>1
    <3>3. k[i] = IF k[i - 1] = 2 THEN 0 ELSE Start(i)
      BY <1>4
    <3>4. CASE i = 2
      BY <1>3, <3>2, <3>3, <3>4
    <3>5. CASE i > 2
      <4>1. i - 2 \in 1..n /\ i - 3 \in 0..n
        BY <1>1, <3>5
      <4>2. k[i - 2] = IF k[i - 3] = 2 THEN 0 ELSE Start(i - 2)
        BY <1>4, <4>1
      <4> QED
        BY <3>2, <3>3, <3>5, <4>2
    <3> QED
      BY <2>2, <3>4, <3>5, <1>1
  <2> QED
    BY <2>1, <2>2, <1>1
<1> DEFINE at == [i \in 1..n |-> k[i] # 0]
<1>6. ASSUME NEW i \in 1..n
      PROVE  k[i] # 0 <=> \/ i = 1
                          \/ at[i - 1] /\ words[i - 1] \notin valued
                          \/ i > 2 /\ at[i - 2] /\ words[i - 2] \in valued
  <2>1. i # 1 => i - 1 \in 1..n /\ at[i - 1] = (k[i - 1] # 0)
    BY <1>1
  <2>2. i > 2 => i - 2 \in 1..n /\ at[i - 2] = (k[i - 2] # 0)
    BY <1>1
  <2> HIDE DEF at
  <2> QED
    BY <1>5, <2>1, <2>2
<1>7. at = [i \in 1..n |-> \/ i = 1
                           \/ at[i - 1] /\ words[i - 1] \notin valued
                           \/ i > 2 /\ at[i - 2] /\ words[i - 2] \in valued]
  <2>1. \A i \in 1..n : (k[i] # 0) =
                          (\/ i = 1
                           \/ at[i - 1] /\ words[i - 1] \notin valued
                           \/ i > 2 /\ at[i - 2] /\ words[i - 2] \in valued)
    <3> HIDE DEF at
    <3> QED
      BY <1>6
  <2> QED
    BY <2>1, Zenon
<1> QED
  BY <1>1, <1>7, Zenon

\* Looks is that walk.
LEMMA LooksSteps ==
  ASSUME NEW words \in Seq(Word), NEW valued
  PROVE  \E at : Steps(words, valued, at) /\ Looks(words, valued) = {i \in DOMAIN words : at[i]}
<1> DEFINE Rule(g, i) == \/ i = 1
                         \/ g[i - 1] /\ words[i - 1] \notin valued
                         \/ i > 2 /\ g[i - 2] /\ words[i - 2] \in valued
           Body(g) == [i \in DOMAIN words |-> Rule(g, i)]
           h == CHOOSE g : g = Body(g)
<1>1. \E g : g = Body(g)
  BY WalkExists, Zenon
<1>2. h = Body(h)
  <2> HIDE DEF Body
  <2> QED
    BY <1>1, Zenon
<1>3. Looks(words, valued) = {i \in DOMAIN words : h[i]}
  BY Zenon DEF Looks, h
<1> HIDE DEF h
<1>4. \A i \in DOMAIN words : h[i] = Rule(h, i)
  <2>1. \A i \in DOMAIN words : Body(h)[i] = Rule(h, i)
    <3> HIDE DEF Rule
    <3> QED
      BY Zenon
  <2> HIDE DEF Body, Rule
  <2> QED
    BY <1>2, <2>1, Zenon
<1>5. Steps(words, valued, h)
  <2>1. ASSUME NEW i \in DOMAIN words PROVE h[i] <=> Rule(h, i)
    <3> HIDE DEF Rule
    <3> QED
      BY <1>4, Zenon
  <2> QED
    BY <2>1, Zenon DEF Steps
<1> QED
  BY <1>3, <1>5, Zenon

\* Where the words are looked at: at the first, after a word that takes no value at
\* the next, after one that does never at the next, but at the one after.
IsWalk(words, valued, L) ==
  /\ L \subseteq DOMAIN words
  /\ 1 \in DOMAIN words => 1 \in L
  /\ \A i \in L : words[i] \notin valued /\ i + 1 \in DOMAIN words => i + 1 \in L
  /\ \A i \in L : words[i] \in valued /\ i + 2 \in DOMAIN words => i + 2 \in L
  /\ \A i \in L : words[i] \in valued => i + 1 \notin L

\* Looks is such a walk: that it passes a value over is an induction over the words.
LEMMA LooksIsWalk ==
  ASSUME NEW words \in Seq(Word), NEW valued
  PROVE  IsWalk(words, valued, Looks(words, valued))
<1>1. PICK at : Steps(words, valued, at) /\ Looks(words, valued) = {i \in DOMAIN words : at[i]}
  BY LooksSteps
<1> DEFINE n == Len(words)
           L == {i \in DOMAIN words : at[i]}
<1>2. n \in Nat /\ DOMAIN words = 1..n
  OBVIOUS
<1> HIDE DEF n
<1>3. L \subseteq 1..n /\ (1 \in DOMAIN words => 1 \in L)
  BY <1>1, <1>2 DEF Steps
<1>4. ASSUME NEW i \in L, words[i] \notin valued, i + 1 \in DOMAIN words PROVE i + 1 \in L
  <2>1. (i + 1) - 1 = i /\ at[i]
    BY <1>2
  <2> QED
    BY <1>1, <1>4, <2>1 DEF Steps
<1>5. ASSUME NEW i \in L, words[i] \in valued, i + 2 \in DOMAIN words PROVE i + 2 \in L
  <2>1. (i + 2) - 2 = i /\ i + 2 > 2 /\ at[i]
    BY <1>2
  <2> QED
    BY <1>1, <1>5, <2>1 DEF Steps
<1>6. \A i \in L : words[i] \in valued => i + 1 \notin L
  <2> DEFINE Apart == {i \in 0..n : i \in L /\ words[i] \in valued => i + 1 \notin L}
  <2>1. 0 \in Apart
    BY <1>2
  <2>2. ASSUME NEW i \in 1..n, i - 1 \in Apart PROVE i \in Apart
    <3> SUFFICES ASSUME i \in L, words[i] \in valued, i + 1 \in L PROVE FALSE
      BY <1>2
    <3> DEFINE j == i + 1
    <3>1. j \in DOMAIN words /\ at[j] /\ j - 1 = i /\ j - 2 = i - 1 /\ j # 1
      BY <1>2
    <3> HIDE DEF j
    <3>2. i - 1 > 0 /\ at[i - 1] /\ words[i - 1] \in valued
      <4>1. j > 2 /\ at[j - 2] /\ words[j - 2] \in valued
        BY <1>1, <3>1 DEF Steps
      <4> QED
        BY <1>2, <3>1, <4>1
    <3>3. i - 1 \in L /\ (i - 1) + 1 = i
      BY <1>2, <3>2
    <3> QED
      BY <2>2, <3>2, <3>3
  <2>3. 0..n \subseteq Apart
    <3> HIDE DEF Apart
    <3> QED
      BY <1>2, <2>1, <2>2, UpTo
  <2> QED
    BY <1>2, <2>3
<1> HIDE DEF L
<1>7. L = Looks(words, valued)
  BY <1>1, Zenon DEF L
<1> QED
  BY <1>2, <1>3, <1>4, <1>5, <1>6, <1>7 DEF IsWalk

\* A greatest element is the Max.
LEMMA MaxIs ==
  ASSUME NEW S, S \subseteq Int, NEW m \in S, \A x \in S : x <= m
  PROVE  Max(S) = m
<1>1. \A y \in S : m >= y
  OBVIOUS
<1>2. Max(S) \in S /\ \A y \in S : Max(S) >= y
  BY <1>1, Zenon DEF Max
<1> DEFINE x == Max(S)
<1> HIDE DEF x
<1>3. x \in S /\ x >= m
  BY <1>2 DEF x
<1>4. x = m
  BY <1>1, <1>3
<1> QED
  BY <1>4 DEF x

\* And a least one is the Min.
LEMMA MinIs ==
  ASSUME NEW S, S \subseteq Int, NEW m \in S, \A x \in S : m <= x
  PROVE  Min(S) = m
<1>1. \A y \in S : m <= y
  OBVIOUS
<1>2. Min(S) \in S /\ \A y \in S : Min(S) <= y
  BY <1>1, Zenon DEF Min
<1> DEFINE x == Min(S)
<1> HIDE DEF x
<1>3. x \in S /\ x <= m
  BY <1>2 DEF x
<1>4. x = m
  BY <1>1, <1>3
<1> QED
  BY <1>4 DEF x

Walked(options) == {i \in Looks(argv, Valued) : i < next /\ argv[i] \in options}

LastOf(uses, default) == IF uses = {} THEN default ELSE argv[Max(uses) + 1]
LastNumber(uses, default) ==
  IF uses = {} THEN default ELSE IntegerOf[argv[Max(uses) + 1]].value

\* Between two words the loop looks at it has used the earlier one, and no other.
AtWord == next \in 1..(Len(argv) + 1) /\ (next <= Len(argv) => next \in Looks(argv, Valued))

WalkedOn ==
  /\ AtWord'
  /\ \A options : Walked(options)' =
       IF argv[next] \in options THEN Walked(options) \cup {next} ELSE Walked(options)

\* A step of the loop goes to the next word of the walk, and the word it was at has
\* been used.
LEMMA WalkOn ==
  ASSUME argv \in Seq(Word), AtWord, next <= Len(argv), argv' = argv,
         IF argv[next] \in Valued THEN next < Len(argv) /\ next' = next + 2
                                  ELSE next' = next + 1
  PROVE  WalkedOn
<1> DEFINE L == Looks(argv, Valued)
           n == Len(argv)
<1>1. n \in Nat /\ DOMAIN argv = 1..n
  OBVIOUS
<1>2. IsWalk(argv, Valued, L)
  BY LooksIsWalk
<1>3. L' = L
  BY Zenon
<1>4. next \in 1..n /\ next \in L
  BY <1>1 DEF AtWord
<1> HIDE DEF L, n
<1>5. L \subseteq 1..n
  BY <1>1, <1>2 DEF IsWalk
<1>6. CASE argv[next] \in Valued
  <2>1. next' = next + 2 /\ next + 1 <= n
    BY <1>1, <1>4, <1>6 DEF n
  <2>2. next + 1 \notin L /\ (next + 2 <= n => next + 2 \in L)
    BY <1>1, <1>2, <1>4, <1>6 DEF IsWalk
  <2>3. AtWord'
    BY <1>1, <1>3, <1>4, <2>1, <2>2 DEF AtWord, n, L
  <2>4. ASSUME NEW i \in L PROVE i < next' <=> i < next \/ i = next
    BY <1>4, <1>5, <2>1, <2>2
  <2>5. ASSUME NEW options
        PROVE  Walked(options)' =
                 IF argv[next] \in options THEN Walked(options) \cup {next} ELSE Walked(options)
    <3>1. Walked(options)' = {i \in L : i < next' /\ argv[i] \in options}
      BY <1>3 DEF Walked, L
    <3>2. Walked(options) = {i \in L : i < next /\ argv[i] \in options}
      BY DEF Walked, L
    <3> QED
      BY <1>4, <2>4, <3>1, <3>2
  <2> QED
    BY <2>3, <2>5 DEF WalkedOn
<1>7. CASE argv[next] \notin Valued
  <2>1. next' = next + 1
    BY <1>7
  <2>2. next + 1 <= n => next + 1 \in L
    BY <1>1, <1>2, <1>4, <1>7 DEF IsWalk
  <2>3. AtWord'
    BY <1>1, <1>3, <1>4, <2>1, <2>2 DEF AtWord, n, L
  <2>4. ASSUME NEW i \in L PROVE i < next' <=> i < next \/ i = next
    BY <1>4, <1>5, <2>1
  <2>5. ASSUME NEW options
        PROVE  Walked(options)' =
                 IF argv[next] \in options THEN Walked(options) \cup {next} ELSE Walked(options)
    <3>1. Walked(options)' = {i \in L : i < next' /\ argv[i] \in options}
      BY <1>3 DEF Walked, L
    <3>2. Walked(options) = {i \in L : i < next /\ argv[i] \in options}
      BY DEF Walked, L
    <3> QED
      BY <1>4, <2>4, <3>1, <3>2
  <2> QED
    BY <2>3, <2>5 DEF WalkedOn
<1> QED
  BY <1>6, <1>7

\* A use just made is the last one; where none was made the last one stays.
LEMMA LastTaken ==
  ASSUME argv \in Seq(Word), argv' = argv, next \in Nat, WalkedOn, NEW option
  PROVE  /\ argv[next] = option =>
              Walked({option})' # {} /\ Max(Walked({option})') = next
         /\ argv[next] # option => Walked({option})' = Walked({option})
<1>1. CASE argv[next] = option
  <2>1. Walked({option})' = Walked({option}) \cup {next}
    BY <1>1 DEF WalkedOn
  <2>2. \A i \in Walked({option}) : i \in Int /\ i < next
    <3>1. IsWalk(argv, Valued, Looks(argv, Valued))
      BY LooksIsWalk
    <3>2. Looks(argv, Valued) \subseteq Int
      BY <3>1 DEF IsWalk
    <3> QED
      BY <3>2 DEF Walked
  <2> DEFINE S == Walked({option}) \cup {next}
  <2>3. Max(S) = next
    <3>1. \A x \in S : x \in Int /\ x <= next
      BY <2>2
    <3>2. next \in S /\ S \subseteq Int
      BY <3>1
    <3> HIDE DEF S
    <3> QED
      BY <3>1, <3>2, MaxIs
  <2> QED
    BY <1>1, <2>1, <2>3
<1>2. CASE argv[next] # option
  BY <1>2 DEF WalkedOn
<1> QED
  BY <1>1, <1>2

-----------------------------------------------------------------------------
(***************************************************************************)
(* Whose word it is                                                        *)
(***************************************************************************)

\* The lines of .env that are behind and name the webhook.
Looked == {i \in DotenvLines : i < next}

\* The variable is what the process inherited, else what the first line gave it.
VariableInv ==
  pc \in {"route", "dotenv"} =>
    environment[WebhookName] =
      IF inherited[WebhookName] # Unset THEN inherited[WebhookName]
      ELSE IF Looked # {} THEN dotenv[Min(Looked)].value
      ELSE Unset

\* Every setting is the one given last by the words behind.
Settled ==
  /\ cfg.mode = LastOf(Walked({"--mode"}), "monitor")
  /\ cfg.policy_path = LastOf(Walked({"--policy"}), Defaults.policy_path)
  /\ cfg.node_id = LastOf(Walked({"--node-id"}), Hostname)
  /\ cfg.policy_version = LastOf(Walked({"--policy-version"}), Empty)
  /\ cfg.min_severity = LastOf(Walked({"--alert-min-severity"}), "warning")
  /\ cfg.webhook_url = LastOf(Walked({"--alert-webhook-url"}), FromVariables)
  /\ cfg.enabled <=> Walked({"--alert-enabled"}) # {}
  /\ cfg.dedupe_window_sec = LastNumber(Walked({"--alert-dedupe-window"}), 60)
  /\ cfg.rate_limit_per_minute = LastNumber(Walked({"--alert-rate-limit"}), 60)

SettingsInv ==
  /\ pc = "route" => next = 1
  /\ pc \in {"arguments", "policy", "serving"} => AtWord /\ Settled
  /\ pc \in {"policy", "serving"} => next > Len(argv)

\* A set of line numbers that is not empty has a Min, and larger ones do not move it.
LEMMA MinIn ==
  ASSUME NEW S, S \subseteq Nat, S # {}
  PROVE  /\ Min(S) \in S
         /\ \A n \in Nat : (\A x \in S : x <= n) => Min(S \cup {n}) = Min(S)
<1>1. PICK m \in S : \A x \in S : m <= x
  BY LeastNat
<1>2. Min(S) = m
  <2>1. S \subseteq Int
    OBVIOUS
  <2> QED
    BY <1>1, <2>1, MinIs
<1>3. ASSUME NEW n \in Nat, \A x \in S : x <= n PROVE Min(S \cup {n}) = m
  <2> DEFINE T == S \cup {n}
  <2>1. T \subseteq Int /\ m \in T /\ \A x \in T : m <= x
    BY <1>1, <1>3
  <2> HIDE DEF T
  <2>2. Min(T) = m
    BY <2>1, MinIs
  <2> QED
    BY <2>2 DEF T
<1> QED
  BY <1>1, <1>2, <1>3

\* A line of the file sets the variable if nothing did, and is the first one then.
LEMMA DotenvLineLooks ==
  ASSUME TypeInv, VariableInv, DotenvLine
  PROVE  VariableInv'
<1> DEFINE Line == [name : Word, value : Word]
           line == dotenv[next]
<1>1. /\ dotenv \in Seq(Line) /\ next \in Nat \ {0} /\ next <= Len(dotenv)
      /\ environment \in [Names -> Word \cup {Unset}]
  BY DEF DotenvLine, TypeInv, InputsTyped, StartupTypeOK
<1>2. WebhookName \in Names /\ Unset \notin Word
  BY ConfigAssumption DEF ConfigAssumption
<1>3. /\ pc = "dotenv" /\ next' = next + 1
      /\ environment' = IF Assigns(line) /\ environment[line.name] = Unset
                        THEN [environment EXCEPT ![line.name] = line.value]
                        ELSE environment
      /\ dotenv' = dotenv /\ inherited' = inherited
  BY DEF DotenvLine, inputs
<1>4. DotenvLines' = DotenvLines
  BY <1>3 DEF DotenvLines
<1>5. /\ DotenvLines \subseteq Nat
      /\ \A i \in DotenvLines : dotenv[i] \in Line
      /\ next \in DotenvLines <=> line.name = WebhookName
  <2> HIDE DEF Line
  <2> QED
    BY <1>1 DEF DotenvLines
<1>6. line \in Line
  <2> HIDE DEF Line
  <2> QED
    BY <1>1
<1>7. Looked' = IF line.name = WebhookName THEN Looked \cup {next} ELSE Looked
  <2>1. \A i \in DotenvLines : i < next' <=> i < next \/ i = next
    BY <1>1, <1>3, <1>5
  <2> QED
    BY <1>4, <1>5, <2>1 DEF Looked
<1>8. Looked \subseteq Nat /\ \A i \in Looked : i <= next /\ dotenv[i] \in Line
  <2> HIDE DEF Line
  <2>1. Looked \subseteq DotenvLines /\ \A i \in Looked : i < next
    BY DEF Looked
  <2> QED
    BY <1>1, <1>5, <2>1
<1> DEFINE value == environment[WebhookName]
<1>9. value = IF inherited[WebhookName] # Unset THEN inherited[WebhookName]
              ELSE IF Looked # {} THEN dotenv[Min(Looked)].value ELSE Unset
  BY <1>3 DEF VariableInv
<1>10. value' = IF line.name = WebhookName /\ value = Unset THEN line.value ELSE value
  BY <1>1, <1>2, <1>3 DEF Assigns
<1>11. value = Unset <=> inherited[WebhookName] = Unset /\ Looked = {}
  <2>1. Looked # {} => dotenv[Min(Looked)] \in Line
    BY <1>8, MinIn
  <2> QED
    BY <1>2, <1>9, <2>1
<1>12. value' = IF inherited[WebhookName] # Unset THEN inherited[WebhookName]
                ELSE IF Looked' # {} THEN dotenv[Min(Looked')].value ELSE Unset
  <2> HIDE DEF value, Line
  <2>1. CASE line.name # WebhookName
    BY <1>7, <1>9, <1>10, <2>1
  <2>2. CASE line.name = WebhookName /\ inherited[WebhookName] # Unset
    BY <1>9, <1>10, <1>11, <2>2
  <2>3. CASE line.name = WebhookName /\ inherited[WebhookName] = Unset /\ Looked = {}
    <3>1. Looked' = {next}
      BY <1>7, <2>3
    <3>2. Min({next}) = next
      <4> DEFINE T == {next}
      <4>1. T \subseteq Int /\ next \in T /\ \A x \in T : next <= x
        BY <1>1
      <4> HIDE DEF T
      <4>2. Min(T) = next
        BY <4>1, MinIs
      <4> QED
        BY <4>2 DEF T
    <3>3. value' = line.value
      BY <1>10, <1>11, <2>3
    <3> QED
      BY <2>3, <3>1, <3>2, <3>3
  <2>4. CASE line.name = WebhookName /\ inherited[WebhookName] = Unset /\ Looked # {}
    <3>1. Looked' = Looked \cup {next}
      BY <1>7, <2>4
    <3>2. Min(Looked \cup {next}) = Min(Looked)
      BY <1>1, <1>8, <2>4, MinIn
    <3>3. value' = value
      BY <1>10, <1>11, <2>4
    <3> QED
      BY <1>9, <2>4, <3>1, <3>2, <3>3
  <2> QED
    BY <2>1, <2>2, <2>3, <2>4
<1> QED
  BY <1>3, <1>12 DEF VariableInv

\* The end of the file: the address is what the variables say, and no word is behind.
LEMMA DotenvDoneSettles ==
  ASSUME TypeInv, VariableInv, DotenvDone
  PROVE  AtWord' /\ Settled'
<1> DEFINE url == IF environment[WebhookName] = Unset THEN Empty ELSE environment[WebhookName]
<1>1. /\ pc = "dotenv" /\ next > Len(dotenv) /\ next' = 1 /\ argv' = argv
      /\ dotenv' = dotenv /\ inherited' = inherited
      /\ cfg' = [Defaults EXCEPT !.node_id = Hostname, !.webhook_url = url]
  BY DEF DotenvDone, inputs
<1>2. argv \in Seq(Word) /\ dotenv \in Seq([name : Word, value : Word])
  BY DEF TypeInv, InputsTyped
<1>3. url = FromVariables
  <2>1. Looked = DotenvLines
    <3>1. \A i \in DotenvLines : i < next
      BY <1>1, <1>2 DEF DotenvLines, TypeInv, StartupTypeOK
    <3> QED
      BY <3>1 DEF Looked
  <2>2. DotenvLines # {} => dotenv[Min(DotenvLines)].value # Unset
    <3> DEFINE Line == [name : Word, value : Word]
    <3> SUFFICES ASSUME DotenvLines # {} PROVE dotenv[Min(DotenvLines)].value # Unset
      OBVIOUS
    <3>1. DotenvLines \subseteq Nat /\ \A i \in DotenvLines : dotenv[i] \in Line
      <4>1. dotenv \in Seq(Line)
        BY <1>2
      <4> HIDE DEF Line
      <4> QED
        BY <4>1 DEF DotenvLines
    <3>2. dotenv[Min(DotenvLines)] \in Line
      BY <3>1, MinIn
    <3>3. Unset \notin Word
      BY ConfigAssumption DEF ConfigAssumption
    <3> QED
      BY <3>2, <3>3
  <2> QED
    BY <1>1, <2>1, <2>2 DEF VariableInv, FromVariables
<1>4. FromVariables' = FromVariables
  BY <1>1 DEF FromVariables, DotenvLines
<1> HIDE DEF url
<1>5. IsWalk(argv, Valued, Looks(argv, Valued))
  BY <1>2, LooksIsWalk
<1>6. AtWord'
  <2>1. Looks(argv, Valued)' = Looks(argv, Valued)
    BY <1>1, Zenon
  <2>2. 1 \in 1..(Len(argv) + 1) /\ (1 <= Len(argv) => 1 \in Looks(argv, Valued))
    BY <1>2, <1>5 DEF IsWalk
  <2> QED
    BY <1>1, <2>1, <2>2 DEF AtWord
<1>7. \A options : Walked(options)' = {}
  <2>1. Looks(argv, Valued)' = Looks(argv, Valued)
    BY <1>1, Zenon
  <2>2. \A i \in Looks(argv, Valued) : ~(i < 1)
    BY <1>2, <1>5 DEF IsWalk
  <2> QED
    BY <1>1, <2>1, <2>2 DEF Walked
<1>8. /\ cfg'.mode = "monitor" /\ cfg'.policy_path = Defaults.policy_path
      /\ cfg'.node_id = Hostname /\ cfg'.policy_version = Empty
      /\ cfg'.min_severity = "warning" /\ cfg'.enabled = FALSE /\ cfg'.webhook_url = url
      /\ cfg'.dedupe_window_sec = 60 /\ cfg'.rate_limit_per_minute = 60
  BY <1>1 DEF Defaults
<1>9. Settled'
  BY <1>3, <1>4, <1>7, <1>8 DEF Settled, LastOf, LastNumber
<1> QED
  BY <1>6, <1>9

\* What an option assigns, and what it leaves alone.
LEMMA AssignedFields ==
  ASSUME cfg \in Configs, NEW option \in Valued, NEW value, cfg' = Assigned(option, value)
  PROVE  /\ cfg'.mode = IF option = "--mode" THEN value ELSE cfg.mode
         /\ cfg'.policy_path = IF option = "--policy" THEN value ELSE cfg.policy_path
         /\ cfg'.min_severity =
              IF option = "--alert-min-severity" THEN value ELSE cfg.min_severity
         /\ cfg'.webhook_url =
              IF option = "--alert-webhook-url" THEN value ELSE cfg.webhook_url
         /\ cfg'.node_id = IF option = "--node-id" THEN value ELSE cfg.node_id
         /\ cfg'.policy_version =
              IF option = "--policy-version" THEN value ELSE cfg.policy_version
         /\ cfg'.dedupe_window_sec =
              IF option = "--alert-dedupe-window" THEN IntegerOf[value].value
              ELSE cfg.dedupe_window_sec
         /\ cfg'.rate_limit_per_minute =
              IF option = "--alert-rate-limit" THEN IntegerOf[value].value
              ELSE cfg.rate_limit_per_minute
         /\ cfg'.enabled = cfg.enabled
<1>1. CASE option = "--mode"
  BY <1>1 DEF Assigned, Configs
<1>2. CASE option = "--policy"
  BY <1>2 DEF Assigned, Configs
<1>3. CASE option = "--node-id"
  BY <1>3 DEF Assigned, Configs
<1>4. CASE option = "--policy-version"
  BY <1>4 DEF Assigned, Configs
<1>5. CASE option = "--alert-webhook-url"
  BY <1>5 DEF Assigned, Configs
<1>6. CASE option = "--alert-min-severity"
  BY <1>6 DEF Assigned, Configs
<1>7. CASE option = "--alert-dedupe-window"
  BY <1>7 DEF Assigned, Configs
<1>8. CASE option = "--alert-rate-limit"
  BY <1>8 DEF Assigned, Configs
<1> QED
  BY <1>1, <1>2, <1>3, <1>4, <1>5, <1>6, <1>7, <1>8 DEF Valued

\* The use of an option settles that option and no other.
LEMMA TakenSettles ==
  ASSUME TypeInv, Settled, UNCHANGED inputs, WalkedOn, argv[next] \in Valued,
         cfg' = Assigned(argv[next], argv[next + 1])
  PROVE  Settled'
<1> DEFINE word == argv[next]
           value == argv[next + 1]
<1>1. argv \in Seq(Word) /\ next \in Nat /\ cfg \in Configs
  BY DEF TypeInv, InputsTyped, StartupTypeOK
<1>2. argv' = argv /\ FromVariables' = FromVariables
  BY DEF inputs, FromVariables, DotenvLines
<1>3. ASSUME NEW option
      PROVE  /\ word = option => Walked({option})' # {} /\ Max(Walked({option})') = next
             /\ word # option => Walked({option})' = Walked({option})
  BY <1>1, <1>2, LastTaken
<1> HIDE DEF word
<1>4. /\ cfg'.mode = IF word = "--mode" THEN value ELSE cfg.mode
      /\ cfg'.policy_path = IF word = "--policy" THEN value ELSE cfg.policy_path
      /\ cfg'.min_severity = IF word = "--alert-min-severity" THEN value ELSE cfg.min_severity
      /\ cfg'.webhook_url = IF word = "--alert-webhook-url" THEN value ELSE cfg.webhook_url
      /\ cfg'.node_id = IF word = "--node-id" THEN value ELSE cfg.node_id
      /\ cfg'.policy_version = IF word = "--policy-version" THEN value ELSE cfg.policy_version
      /\ cfg'.dedupe_window_sec =
           IF word = "--alert-dedupe-window" THEN IntegerOf[value].value
           ELSE cfg.dedupe_window_sec
      /\ cfg'.rate_limit_per_minute =
           IF word = "--alert-rate-limit" THEN IntegerOf[value].value
           ELSE cfg.rate_limit_per_minute
      /\ cfg'.enabled = cfg.enabled
  BY <1>1, AssignedFields DEF word
<1>5. ASSUME NEW option, NEW default
      PROVE  (IF Walked({option})' = {} THEN default ELSE argv'[Max(Walked({option})') + 1]) =
                IF word = option THEN value ELSE LastOf(Walked({option}), default)
  BY <1>2, <1>3 DEF LastOf
<1>6. ASSUME NEW option, NEW default
      PROVE  (IF Walked({option})' = {} THEN default
              ELSE IntegerOf[argv'[Max(Walked({option})') + 1]].value) =
                IF word = option THEN IntegerOf[value].value
                ELSE LastNumber(Walked({option}), default)
  BY <1>2, <1>3 DEF LastNumber
<1>7. word # "--alert-enabled"
  BY DEF Valued, word
<1> HIDE DEF value
<1>8. /\ cfg'.mode = IF word = "--mode" THEN value
                   ELSE LastOf(Walked({"--mode"}), "monitor")
      /\ cfg'.policy_path = IF word = "--policy" THEN value
                   ELSE LastOf(Walked({"--policy"}), Defaults.policy_path)
      /\ cfg'.node_id = IF word = "--node-id" THEN value
                   ELSE LastOf(Walked({"--node-id"}), Hostname)
      /\ cfg'.policy_version = IF word = "--policy-version" THEN value
                   ELSE LastOf(Walked({"--policy-version"}), Empty)
      /\ cfg'.min_severity = IF word = "--alert-min-severity" THEN value
                   ELSE LastOf(Walked({"--alert-min-severity"}), "warning")
      /\ cfg'.webhook_url = IF word = "--alert-webhook-url" THEN value
                   ELSE LastOf(Walked({"--alert-webhook-url"}), FromVariables)
  BY <1>4 DEF Settled
<1>9. cfg'.mode = LastOf(Walked({"--mode"}), "monitor")'
  BY <1>5, <1>8 DEF LastOf
<1>10. cfg'.policy_path = LastOf(Walked({"--policy"}), Defaults.policy_path)'
  BY <1>5, <1>8 DEF LastOf
<1>11. cfg'.node_id = LastOf(Walked({"--node-id"}), Hostname)'
  BY <1>5, <1>8 DEF LastOf
<1>12. cfg'.policy_version = LastOf(Walked({"--policy-version"}), Empty)'
  BY <1>5, <1>8 DEF LastOf
<1>13. cfg'.min_severity = LastOf(Walked({"--alert-min-severity"}), "warning")'
  BY <1>5, <1>8 DEF LastOf
<1>14. cfg'.webhook_url = LastOf(Walked({"--alert-webhook-url"}), FromVariables)'
  BY <1>2, <1>5, <1>8 DEF LastOf
<1>15. cfg'.dedupe_window_sec = LastNumber(Walked({"--alert-dedupe-window"}), 60)'
  <2>1. cfg'.dedupe_window_sec =
          IF word = "--alert-dedupe-window" THEN IntegerOf[value].value
          ELSE LastNumber(Walked({"--alert-dedupe-window"}), 60)
    BY <1>4 DEF Settled
  <2>2. (IF Walked({"--alert-dedupe-window"})' = {} THEN 60
         ELSE IntegerOf[argv'[Max(Walked({"--alert-dedupe-window"})') + 1]].value) =
           IF word = "--alert-dedupe-window" THEN IntegerOf[value].value
           ELSE LastNumber(Walked({"--alert-dedupe-window"}), 60)
    BY <1>6
  <2> QED
    BY <2>1, <2>2 DEF LastNumber
<1>16. cfg'.rate_limit_per_minute = LastNumber(Walked({"--alert-rate-limit"}), 60)'
  <2>1. cfg'.rate_limit_per_minute =
          IF word = "--alert-rate-limit" THEN IntegerOf[value].value
          ELSE LastNumber(Walked({"--alert-rate-limit"}), 60)
    BY <1>4 DEF Settled
  <2>2. (IF Walked({"--alert-rate-limit"})' = {} THEN 60
         ELSE IntegerOf[argv'[Max(Walked({"--alert-rate-limit"})') + 1]].value) =
           IF word = "--alert-rate-limit" THEN IntegerOf[value].value
           ELSE LastNumber(Walked({"--alert-rate-limit"}), 60)
    BY <1>6
  <2> QED
    BY <2>1, <2>2 DEF LastNumber
<1>17. cfg'.enabled <=> Walked({"--alert-enabled"})' # {}
  BY <1>3, <1>4, <1>7 DEF Settled
<1> QED
  BY <1>9, <1>10, <1>11, <1>12, <1>13, <1>14, <1>15, <1>16, <1>17 DEF Settled

\* A word that takes no value settles at most that there are alerts.
LEMMA OthersSettle ==
  ASSUME TypeInv, Settled, UNCHANGED inputs, NEW word, word \notin Valued,
         \A option : option # word => Walked({option})' = Walked({option}),
         IF word = "--alert-enabled"
         THEN Walked({word})' # {} /\ cfg' = [cfg EXCEPT !.enabled = TRUE]
         ELSE cfg' = cfg
  PROVE  Settled'
<1>1. argv' = argv /\ FromVariables' = FromVariables
  BY DEF inputs, FromVariables, DotenvLines
<1>2. ASSUME NEW option \in Valued, NEW default
      PROVE  /\ Walked({option})' = Walked({option})
             /\ (IF Walked({option})' = {} THEN default ELSE argv'[Max(Walked({option})') + 1]) =
                  LastOf(Walked({option}), default)
             /\ (IF Walked({option})' = {} THEN default
                 ELSE IntegerOf[argv'[Max(Walked({option})') + 1]].value) =
                  LastNumber(Walked({option}), default)
  <2>1. Walked({option})' = Walked({option})
    OBVIOUS
  <2> QED
    BY <1>1, <2>1 DEF LastOf, LastNumber
<1>3. /\ cfg'.mode = cfg.mode /\ cfg'.policy_path = cfg.policy_path
      /\ cfg'.min_severity = cfg.min_severity /\ cfg'.webhook_url = cfg.webhook_url
      /\ cfg'.node_id = cfg.node_id /\ cfg'.policy_version = cfg.policy_version
      /\ cfg'.dedupe_window_sec = cfg.dedupe_window_sec
      /\ cfg'.rate_limit_per_minute = cfg.rate_limit_per_minute
      /\ cfg'.enabled = IF word = "--alert-enabled" THEN TRUE ELSE cfg.enabled
  BY DEF TypeInv, StartupTypeOK, Configs
<1>4. cfg'.enabled <=> Walked({"--alert-enabled"})' # {}
  BY <1>3 DEF Settled
<1>5. {"--mode", "--policy", "--node-id", "--policy-version", "--alert-min-severity",
       "--alert-webhook-url", "--alert-dedupe-window", "--alert-rate-limit"} \subseteq Valued
  BY DEF Valued
<1>6. cfg'.mode = LastOf(Walked({"--mode"}), "monitor")'
  BY <1>2, <1>3, <1>5 DEF Settled, LastOf
<1>7. cfg'.policy_path = LastOf(Walked({"--policy"}), Defaults.policy_path)'
  BY <1>2, <1>3, <1>5 DEF Settled, LastOf
<1>8. cfg'.node_id = LastOf(Walked({"--node-id"}), Hostname)'
  BY <1>2, <1>3, <1>5 DEF Settled, LastOf
<1>9. cfg'.policy_version = LastOf(Walked({"--policy-version"}), Empty)'
  BY <1>2, <1>3, <1>5 DEF Settled, LastOf
<1>10. cfg'.min_severity = LastOf(Walked({"--alert-min-severity"}), "warning")'
  BY <1>2, <1>3, <1>5 DEF Settled, LastOf
<1>11. cfg'.webhook_url = LastOf(Walked({"--alert-webhook-url"}), FromVariables)'
  BY <1>1, <1>2, <1>3, <1>5 DEF Settled, LastOf
<1>12. cfg'.dedupe_window_sec = LastNumber(Walked({"--alert-dedupe-window"}), 60)'
  BY <1>2, <1>3, <1>5 DEF Settled, LastNumber
<1>13. cfg'.rate_limit_per_minute = LastNumber(Walked({"--alert-rate-limit"}), 60)'
  BY <1>2, <1>3, <1>5 DEF Settled, LastNumber
<1> QED
  BY <1>4, <1>6, <1>7, <1>8, <1>9, <1>10, <1>11, <1>12, <1>13 DEF Settled

\* Where neither the words nor the place among them change, nothing is unsettled.
LEMMA SettledStays ==
  ASSUME Settled, UNCHANGED <<inputs, cfg, next>>
  PROVE  Settled'
<1>1. argv' = argv /\ FromVariables' = FromVariables
  BY DEF inputs, FromVariables, DotenvLines
<1>2. \A options : Walked(options)' = Walked(options)
  <2>1. Looks(argv, Valued)' = Looks(argv, Valued)
    BY <1>1, Zenon
  <2> QED
    BY <1>1, <2>1 DEF Walked
<1>3. ASSUME NEW option, NEW default
      PROVE  /\ (IF Walked({option})' = {} THEN default ELSE argv'[Max(Walked({option})') + 1]) =
                  LastOf(Walked({option}), default)
             /\ (IF Walked({option})' = {} THEN default
                 ELSE IntegerOf[argv'[Max(Walked({option})') + 1]].value) =
                  LastNumber(Walked({option}), default)
  BY <1>1, <1>2 DEF LastOf, LastNumber
<1> QED
  BY <1>1, <1>2, <1>3 DEF Settled, LastOf, LastNumber

\* The settings follow the words: one step per action of the start.
LEMMA SettingsInvStep ==
  ASSUME TypeInv, VariableInv, SettingsInv, [Next]_vars
  PROVE  SettingsInv'
<1>1. UNCHANGED inputs /\ argv' = argv
  BY InputsStay DEF inputs
<1>2. argv \in Seq(Word) /\ next \in Nat
  BY DEF TypeInv, InputsTyped, StartupTypeOK
<1>3. ASSUME UNCHANGED <<cfg, next>>
      PROVE  /\ AtWord => AtWord'
             /\ Settled => Settled'
  <2>1. Looks(argv, Valued)' = Looks(argv, Valued)
    BY <1>1, Zenon
  <2> QED
    BY <1>1, <1>3, <2>1, SettledStays DEF AtWord
<1>4. ASSUME UNCHANGED <<cfg, next>>, NEW says, Exits(1, says) PROVE SettingsInv'
  BY <1>4 DEF Exits, SettingsInv
<1>5. CASE RouteToDaemon \/ RouteToCommand
  BY <1>5 DEF RouteToDaemon, RouteToCommand, GoTo, Exits, SettingsInv
<1>6. CASE DotenvLine
  BY <1>6 DEF DotenvLine, SettingsInv
<1>7. CASE DotenvDone
  BY <1>7, DotenvDoneSettles DEF DotenvDone, GoTo, SettingsInv
<1>8. CASE SkipDaemon \/ EnableAlerts
  <2> PICK word : word = argv[next]
    OBVIOUS
  <2>1. /\ word \in {"daemon", "--alert-enabled"}
        /\ next <= Len(argv) /\ next' = next + 1 /\ pc = "arguments" /\ pc' = "arguments"
        /\ cfg' = IF word = "daemon" THEN cfg ELSE [cfg EXCEPT !.enabled = TRUE]
    BY <1>8 DEF SkipDaemon, EnableAlerts, AtArgument
  <2>2. word \notin Valued
    BY <2>1 DEF Valued
  <2>3. AtWord /\ Settled
    BY <2>1 DEF SettingsInv
  <2>4. WalkedOn
    BY <1>1, <1>2, <2>1, <2>2, <2>3, WalkOn
  <2>5. /\ \A option : option # word => Walked({option})' = Walked({option})
        /\ Walked({word})' # {}
    <3>1. ASSUME NEW option
          PROVE  /\ word = option => Walked({option})' # {}
                 /\ word # option => Walked({option})' = Walked({option})
      BY <1>1, <1>2, <2>4, LastTaken
    <3> QED
      BY <3>1
  <2>6. Settled'
    <3>1. IF word = "--alert-enabled"
          THEN Walked({word})' # {} /\ cfg' = [cfg EXCEPT !.enabled = TRUE]
          ELSE cfg' = cfg
      BY <2>1, <2>5
    <3> QED
      BY <1>1, <2>2, <2>3, <2>5, <3>1, OthersSettle
  <2> QED
    BY <2>1, <2>4, <2>6 DEF SettingsInv, WalkedOn
<1>9. CASE TakeValue
  <2>1. CASE Valid(argv[next], argv[next + 1])
    <3>1. /\ argv[next] \in Valued /\ next < Len(argv) /\ next' = next + 2
          /\ cfg' = Assigned(argv[next], argv[next + 1])
          /\ pc = "arguments" /\ pc' = "arguments"
      BY <1>9, <2>1 DEF TakeValue, AtArgument
    <3>2. AtWord /\ Settled /\ next <= Len(argv)
      BY <1>2, <3>1 DEF SettingsInv
    <3>3. WalkedOn
      BY <1>1, <1>2, <3>1, <3>2, WalkOn
    <3>4. Settled'
      BY <1>1, <3>1, <3>2, <3>3, TakenSettles
    <3> QED
      BY <3>1, <3>3, <3>4 DEF SettingsInv, WalkedOn
  <2>2. CASE ~Valid(argv[next], argv[next + 1])
    BY <1>4, <1>9, <2>2 DEF TakeValue, Throws
  <2> QED
    BY <2>1, <2>2
<1>10. CASE LacksValue \/ Unknown
  BY <1>4, <1>10 DEF LacksValue, Unknown, Throws
<1>11. CASE Checked
  <2>1. pc = "arguments" /\ next > Len(argv) /\ cfg' = cfg /\ next' = next
    BY <1>11 DEF Checked, Throws, GoTo
  <2>2. pc' = "policy" \/ pc' = "exited"
    BY <1>11 DEF Checked, Throws, GoTo, Exits
  <2> QED
    BY <1>1, <1>3, <2>1, <2>2 DEF SettingsInv
<1>12. CASE LoadPolicy
  <2>1. pc = "policy" /\ cfg' = cfg /\ next' = next
    BY <1>12 DEF LoadPolicy, Throws, GoTo
  <2>2. pc' = "serving" \/ pc' = "exited"
    BY <1>12 DEF LoadPolicy, Throws, GoTo, Exits
  <2> QED
    BY <1>1, <1>3, <2>1, <2>2 DEF SettingsInv
<1>13. CASE Stopped \/ UNCHANGED vars
  <2>1. pc' = pc /\ cfg' = cfg /\ next' = next
    BY <1>13 DEF Stopped, vars
  <2> QED
    BY <1>1, <1>3, <2>1 DEF SettingsInv
<1> QED
  BY <1>5, <1>6, <1>7, <1>8, <1>9, <1>10, <1>11, <1>12, <1>13
     DEF Next, Main, ParseConfig

\* The variable follows .env until parse_config asks for it.
LEMMA VariableInvStep ==
  ASSUME TypeInv, VariableInv, SettingsInv, [Next]_vars
  PROVE  VariableInv'
<1>1. CASE DotenvLine
  BY <1>1, DotenvLineLooks
<1>2. CASE RouteToDaemon \/ Stopped \/ UNCHANGED vars
  <2>1. UNCHANGED <<inputs, environment, next>>
    BY <1>2 DEF RouteToDaemon, Stopped, vars
  <2>2. pc' \in {"route", "dotenv"} => pc \in {"route", "dotenv"}
    BY <1>2 DEF RouteToDaemon, Stopped, vars
  <2>3. Looked' = Looked
    BY <2>1 DEF Looked, DotenvLines, inputs
  <2> QED
    BY <2>1, <2>2, <2>3 DEF VariableInv, inputs
<1>3. CASE RouteToCommand \/ DotenvDone
  BY <1>3 DEF RouteToCommand, DotenvDone, Exits, GoTo, VariableInv
<1>4. CASE SkipDaemon \/ EnableAlerts \/ LacksValue \/ Unknown
  BY <1>4 DEF SkipDaemon, EnableAlerts, LacksValue, Unknown, AtArgument, Throws, Exits,
              VariableInv
<1>5. CASE TakeValue
  BY <1>5 DEF TakeValue, AtArgument, Throws, Exits, VariableInv
<1>6. CASE Checked
  BY <1>6 DEF Checked, Throws, Exits, GoTo, VariableInv
<1>7. CASE LoadPolicy
  BY <1>7 DEF LoadPolicy, Throws, Exits, GoTo, VariableInv
<1> QED
  BY <1>1, <1>2, <1>3, <1>4, <1>5, <1>6, <1>7 DEF Next, Main, ParseConfig

StartInv == TypeInv /\ VariableInv /\ SettingsInv

\* The three hold together in every state.
LEMMA StartInvHolds == Spec => []StartInv
<1>1. Init => StartInv
  <2> SUFFICES ASSUME Init PROVE StartInv
    OBVIOUS
  <2>1. TypeInv
    BY TypeInvInit
  <2>2. Looked = {}
    <3>1. \A i \in DotenvLines : i \in Nat \ {0}
      <4>1. dotenv \in Seq([name : Word, value : Word])
        BY <2>1 DEF TypeInv, InputsTyped
      <4> QED
        BY <4>1 DEF DotenvLines
    <3> QED
      BY <3>1 DEF Init, Looked
  <2>3. VariableInv
    BY <2>2 DEF Init, VariableInv
  <2>4. SettingsInv
    BY DEF Init, SettingsInv
  <2> QED
    BY <2>1, <2>3, <2>4 DEF StartInv
<1>2. StartInv /\ [Next]_vars => StartInv'
  BY TypeInvStep, VariableInvStep, SettingsInvStep DEF StartInv
<1> QED
  BY <1>1, <1>2, PTL DEF Spec

\* main and parse_config: at every moment the configuration is one the other
\* components can work with, and a process has exited exactly if it says why.
THEOREM StartupTypeOKHolds == Spec => []StartupTypeOK
<1>1. StartInv => StartupTypeOK
  BY DEF StartInv, TypeInv
<1> QED
  BY <1>1, StartInvHolds, PTL

\* Once the words are all behind, the uses behind are the uses there are.
LEMMA AllSettled ==
  ASSUME StartInv, Serving
  PROVE  /\ Settled
         /\ \A option : Walked({option}) = GivenAt(option)
         /\ Walked({"--alert-enabled"}) = Uses(argv, Valued, {"--alert-enabled"})
<1>1. argv \in Seq(Word) /\ next > Len(argv) /\ next \in Nat /\ Settled
  BY DEF StartInv, TypeInv, InputsTyped, StartupTypeOK, SettingsInv, Serving
<1>2. \A i \in Looks(argv, Valued) : i < next
  <2>1. IsWalk(argv, Valued, Looks(argv, Valued))
    BY <1>1, LooksIsWalk
  <2>2. \A i \in DOMAIN argv : i < next
    BY <1>1
  <2> QED
    BY <2>1, <2>2 DEF IsWalk
<1>3. \A options : Walked(options) = Uses(argv, Valued, options)
  BY <1>2 DEF Walked, Uses
<1> QED
  BY <1>1, <1>3 DEF GivenAt

\* parse_config over load_dotenv_file: the daemon posts to the last address of the
\* command line, else to that of the environment, else to the first of .env.
THEOREM UrlPrecedenceHolds == Spec => []UrlPrecedence
<1>1. StartInv => UrlPrecedence
  <2> SUFFICES ASSUME StartInv, Serving
               PROVE  cfg.webhook_url = Given("--alert-webhook-url", FromVariables)
    BY DEF UrlPrecedence
  <2> QED
    BY AllSettled DEF Settled, LastOf, Given
<1> QED
  BY <1>1, StartInvHolds, PTL

\* The loop of parse_config: the daemon serves with what each option was given last, or
\* with what there is when it was not given, and no value of an option is taken for a word of its own.
THEOREM LastOptionWinsHolds == Spec => []LastOptionWins
<1>1. StartInv => LastOptionWins
  <2> SUFFICES ASSUME StartInv, Serving PROVE LastOptionWins
    BY DEF LastOptionWins
  <2>1. \A option, default :
          /\ LastOf(Walked({option}), default) = Given(option, default)
          /\ LastNumber(Walked({option}), default) = NumberGiven(option, default)
    BY AllSettled DEF LastOf, LastNumber, Given, NumberGiven
  <2>2. Settled
    BY AllSettled
  <2>3. Walked({"--alert-enabled"}) = Uses(argv, Valued, {"--alert-enabled"})
    BY AllSettled
  <2> QED
    BY <2>1, <2>2, <2>3 DEF Settled, LastOptionWins
<1> QED
  BY <1>1, StartInvHolds, PTL

=============================================================================
