--------------------------- MODULE MCPolicyEngine ---------------------------
(***************************************************************************)
(* A small host for PolicyEngine: a shell that is a link, a temporary      *)
(* directory, and a directory whose name begins like the other's and that  *)
(* may hold a link to a directory.                                         *)
(***************************************************************************)
EXTENDS PolicyEngine

sh == <<"bin", "sh">>
bash == <<"bin", "bash">>
dash == <<"bin", "dash">>
tmp == <<"tmp">>
inner == <<"tmp", "inner">>
payload == <<"tmp", "tool">>
tool == <<"tmpfoo", "tool">>
up == <<"tmpfoo", "up">>

\* Names with "..": the first only takes back a directory, the second may take back
\* a link.
around == <<"tmpfoo", "..", "bin", "sh">>
upAndBack == <<"tmpfoo", "up", "..", "tool">>

\* Directories and files that are always there.
Directories == {<<>>, <<"bin">>, tmp, inner, <<"tmpfoo">>}
Files == {bash, dash}

\* A host is the names that lead to themselves, those that lead elsewhere, and the
\* ".." of each directory.
HostOf(plain, links) ==
  LET directories == IF up \in plain THEN Directories \cup {up} ELSE Directories
      here == (plain \cup Directories) \ {<<>>}
      above == {Append(d, "..") : d \in directories}
  IN  [p \in here |-> p] @@ links @@ [p \in above |-> Parent(Front(p))]

\* sh is linked to some shell; payload, tool and up are what they are.
Host(shell, plain, links) == HostOf(Files \cup plain, sh :> shell @@ links)

NoLinks == [p \in {} |-> p]

\* sh is relinked, a payload appears and vanishes, a tool becomes a link to it, up
\* is now a directory and now a link to one.
ChangingHosts ==
  {Host(shell, plain, NoLinks) : shell \in {bash, dash}, plain \in {{up, tool}, {up, payload, tool}}}
  \cup {Host(shell, plain, up :> inner) : shell \in {bash, dash}, plain \in {{tool}, {payload}}}
  \cup {Host(shell, {up, payload}, tool :> payload) : shell \in {bash, dash}}

\* The same, with all files there.
PlainHosts == {Host(shell, {up, payload, tool}, NoLinks) : shell \in {bash, dash}}

Line(key, path) == [key |-> key, path |-> path]

SamplePolicies ==
  { <<Line("comment", Relative), Line("deny_executable", sh), Line("deny_prefix", tmp)>>,
    <<Line("deny_prefix", tmp), Line("deny_executable", bash)>>,
    <<Line("deny_executable", around), Line("comment", Relative), Line("deny_prefix", upAndBack)>>,
    <<Line("deny_executable", sh), Line("malformed", Relative)>>,
    <<Line("deny_executable", payload), Line("allow", sh)>>,
    <<Line("deny_executable", Relative), Line("deny_prefix", tmp)>> }

NameBeginnings == {<<"tmp", "tmpfoo">>}
AllExecutables == {sh, bash, payload, tool, around, upAndBack, Relative}

=============================================================================
