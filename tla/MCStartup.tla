----------------------------- MODULE MCStartup -----------------------------
(***************************************************************************)
(* Command lines, environments, .env files and policies for Startup.       *)
(***************************************************************************)
EXTENDS Startup

default == "./policies/default.policy"
etc == "/etc/sysguardd/default.policy"

\* An integer at each end of the ranges, one past them, and words stoi half reads.
Integers_ ==
  [word \in {"0", "1", "100", "101", "-1", "2s"} |->
    CASE word = "0" -> [value |-> 0, whole |-> TRUE]
      [] word = "1" -> [value |-> 1, whole |-> TRUE]
      [] word = "100" -> [value |-> 100, whole |-> TRUE]
      [] word = "101" -> [value |-> 101, whole |-> TRUE]
      [] word = "-1" -> [value |-> -1, whole |-> TRUE]
      [] word = "2s" -> [value |-> 2, whole |-> FALSE]]

\* Options as a user types them: right, wrong, cut short, and with values that
\* look like other words.
Options ==
  {<<"--mode", "enforce">>, <<"--mode", "loud">>, <<"--mode">>,
   <<"--policy", etc>>, <<"--policy", "">>, <<"--policy", "broken.policy">>,
   <<"--policy", "directory">>, <<"--policy", "--alert-enabled">>, <<"--policy", "daemon">>,
   <<"--node-id", "n1">>, <<"--node-id", "-v">>, <<"--policy-version", "v2">>,
   <<"--alert-enabled">>, <<"--alert-webhook-url", "u1">>, <<"--alert-webhook-url", "">>,
   <<"--alert-min-severity", "critical">>, <<"--alert-min-severity", "loud">>,
   <<"--alert-dedupe-window", "0">>, <<"--alert-dedupe-window", "-1">>,
   <<"--alert-rate-limit", "100">>, <<"--alert-rate-limit", "101">>,
   <<"--alert-rate-limit", "0">>, <<"--alert-rate-limit", "2s">>,
   <<"--background">>, <<"--help">>, <<"daemon">>}

AlertOptions ==
  {<<"--alert-enabled">>, <<"--alert-webhook-url", "u1">>, <<"--alert-webhook-url", "">>,
   <<"--policy", "--alert-enabled">>, <<"--alert-rate-limit", "1">>}

OptionLines ==
  {<<>>} \cup Options \cup {a \o b : a, b \in Options}
  \cup {a \o b \o c : a, b, c \in AlertOptions}

Subwords == {"validate", "load", "current", "enforce", "daemon", "logs", "--json",
             "--follow", "--tail", "-h", "--version", "2s", "many", "broken.policy",
             "directory", "absent", etc}

Commands == {"status", "logs", "policy", "mode", "config", "version", "help", "stop"}

CommandLines_ ==
  {<<c>> : c \in Commands} \cup {<<c, w>> : c \in Commands, w \in Subwords}
  \cup {<<c, w, x>> : c \in {"logs", "policy"}, w, x \in Subwords}

\* docs/CLI.md, lines 49 to 64; systemd/sysguardd.service, line 9; Dockerfile, lines
\* 38 and 39, and the manifests, which give the same.
Documented ==
  {<<"daemon">>,
   <<"daemon", "--background", "--mode", "enforce">>,
   <<"daemon", "--policy", etc>>,
   <<"daemon", "--node-id", "n1", "--policy-version", "v2">>,
   <<"daemon", "--mode", "enforce", "--alert-enabled", "--alert-webhook-url", "u1",
     "--alert-min-severity", "critical">>,
   <<"daemon", "--mode", "monitor", "--policy", etc>>,
   <<"--mode", "monitor", "--policy", etc>>}

\* The option lines follow the word daemon; without it one option is enough.
AllLines ==
  {<<>>} \cup Options \cup {<<"daemon">> \o l : l \in OptionLines} \cup CommandLines_
  \cup Documented

Name == "SYSGUARDD_ALERT_WEBHOOK_URL"
AllEnvironments ==
  {[n \in {Name, "LANG"} |-> IF n = Name THEN url ELSE Unset] : url \in {Unset, "", "u2"}}

Line(name, value) == [name |-> name, value |-> value]
AllDotenvFiles ==
  {<<>>, <<Line("LANG", "u2")>>, <<Line("", ""), Line(Name, "u3")>>,
   <<Line(Name, "u3"), Line(Name, "u2")>>, <<Line(Name, ""), Line(Name, "u2")>>}

AllFileSystems ==
  {[path \in {default, etc, "broken.policy", "directory", "daemon", "--alert-enabled"} |->
     CASE path = "broken.policy" -> "broken"
       [] path = "directory" -> "directory"
       [] path = default -> kind
       [] OTHER -> "sound"] : kind \in {"sound", "missing"}}

=============================================================================
