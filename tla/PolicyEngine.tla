---------------------------- MODULE PolicyEngine ----------------------------
(***************************************************************************)
(* The policy engine: src/policy_engine.cpp.  It reads a policy file once, *)
(* resolving every path it names, and then judges executables, resolving   *)
(* theirs, against a file system that others change in the meantime.       *)
(*                                                                         *)
(* A path is the sequence of its names, ".." among them.  A file system    *)
(* says where each name in each directory leads: to itself, or, if it is a *)
(* symbolic link, elsewhere; ".." leads to the directory above.  Two names *)
(* matter to string comparison only in whether one begins the other.       *)
(***************************************************************************)
EXTENDS Integers, Sequences, SequencesExt

CONSTANTS
  FileSystems, (* the file systems explored: functions from a directory's  *)
               (* path with a name added to the path, without links, of    *)
               (* what is there                                            *)
  Missing,     (* nothing is there: fs::canonical fails                    *)
  Relative,    (* an executable or a rule that is not an absolute path     *)
  Beginnings,  (* pairs of different names, the first beginning the second *)
  Policies,    (* policy files: sequences of lines                         *)
  Executables, (* what events name as evt.exe                              *)
  ReadMayFail, (* reading the policy file may fail                         *)
  MaxChanges,  (* bound: times the file system changes                     *)
  MaxAnswers   (* bound: events evaluated                                  *)

\* The directory above; the root is above itself.
Parent(path) == IF path = <<>> THEN <<>> ELSE Front(path)

ASSUME PolicyAssumption ==
  /\ \A f \in FileSystems : \A entry \in DOMAIN f :
       /\ entry \in Seq(STRING) /\ entry # <<>> /\ f[entry] \in Seq(STRING)
       /\ Last(entry) = ".." => f[entry] = Parent(Front(entry))
  /\ Executables \subseteq Seq(STRING) \cup {Relative}
  /\ \A p \in Policies :
       /\ p \in Seq(Range(p))
       /\ \A line \in Range(p) : line.path \in Seq(STRING) \cup {Relative}
  /\ Missing \notin Seq(STRING)
  /\ ReadMayFail \in BOOLEAN
  /\ MaxChanges \in Nat /\ MaxAnswers \in Nat

VARIABLES
  disk,     (* the file system now                                         *)
  changes,  (* how often it has changed                                    *)
  policy,   (* history: the policy file that is read                       *)
  todo,     (* lines of the policy file still to read                      *)
  failed,   (* reading it failed: the stream gives no more lines           *)
  phase,    (* "loading", "serving", or "refused": load_from_file threw    *)
  exact,    (* deny_executables_                                           *)
  prefixes, (* deny_prefixes_                                              *)
  rules,    (* history: the rules read, as the file states them, with what *)
            (* their paths were taken for and with the files they named    *)
  answers   (* history: the events judged, and how                         *)

engine == <<policy, todo, failed, phase, exact, prefixes, rules>>
vars == <<disk, changes, engine, answers>>

Init ==
  /\ disk \in FileSystems
  /\ changes = 0
  /\ policy \in Policies
  /\ todo = policy
  /\ failed = FALSE
  /\ phase = "loading"
  /\ exact = {}
  /\ prefixes = <<>>
  /\ rules = {}
  /\ answers = <<>>

-----------------------------------------------------------------------------
(***************************************************************************)
(* Names and files                                                         *)
(***************************************************************************)
\* Where the name leads in the directory.
Entry(directory, name) ==
  LET entry == Append(directory, name) IN
  IF directory # Missing /\ entry \in DOMAIN disk THEN disk[entry] ELSE Missing

\* The file that a path names, for the kernel as for fs::canonical: each name is
\* looked up where the names before it have led.
File(path) ==
  LET at[n \in 0..Len(path)] ==
        IF n = 0 THEN <<>> ELSE Entry(at[n - 1], path[n])
  IN  at[Len(path)]

\* lexically_normal: in the text of the path, ".." takes the name before it back.
Lexical(path) ==
  LET text[n \in 0..Len(path)] ==
        IF n = 0 THEN <<>>
        ELSE IF path[n] = ".." THEN Parent(text[n - 1])
        ELSE Append(text[n - 1], path[n])
  IN  text[Len(path)]

\* normalize_abs_path: the text first, the file that it then names after.
Normalized_Lexically(path) == IF path = Relative THEN Missing ELSE Lexical(path)
Normalized(path) == IF path = Relative THEN Missing ELSE File(Lexical(path))

\* What an event, or a rule, names: a relative path names no file here.
Named(path) == IF path = Relative THEN Missing ELSE File(path)

\* Each ".." of the path takes back the name of a directory, not of a link to one.
IsDirectory(path) == Entry(File(path), "..") # Missing
IsLink(path) == path # <<>> /\ File(path) # Append(File(Parent(path)), Last(path))

Straight(path) ==
  path # Relative =>
    \A n \in 1..Len(path) :
      LET before == Lexical(SubSeq(path, 1, n - 1)) IN
      path[n] = ".." => IsDirectory(before) /\ ~IsLink(before)

\* starts_with, on the text of two canonical paths: the last name of the prefix
\* need only begin the name it meets.
StartsWith(path, prefix) ==
  LET n == Len(prefix) IN
  \/ n = 0
  \/ /\ n <= Len(path)
     /\ \A i \in 1..(n - 1) : path[i] = prefix[i]
     /\ path[n] = prefix[n] \/ <<prefix[n], path[n]>> \in Beginnings

-----------------------------------------------------------------------------
(***************************************************************************)
(* load_from_file, a line at a time                                        *)
(***************************************************************************)
Refused == phase' = "refused" /\ UNCHANGED <<exact, prefixes, rules>>

\* The rule of a line, for the history.
Rule(line) ==
  [key |-> line.key, path |-> line.path, taken |-> Normalized(line.path),
   file |-> Named(line.path), straight |-> Straight(line.path)]

Added_PrefixTwice(line) ==
  /\ rules' = rules \cup {Rule(line)}
  /\ prefixes' = Append(prefixes, Normalized(line.path))
  /\ exact' = IF line.key = "deny_executable"
              THEN exact \cup {Normalized(line.path)} ELSE exact
  /\ UNCHANGED phase

Added(line) ==
  /\ rules' = rules \cup {Rule(line)}
  /\ CASE line.key = "deny_executable" ->
            exact' = exact \cup {Normalized(line.path)} /\ UNCHANGED prefixes
       [] line.key = "deny_prefix" ->
            prefixes' = Append(prefixes, Normalized(line.path)) /\ UNCHANGED exact
  /\ UNCHANGED phase

KnownKeys == {"deny_executable", "deny_prefix"}

\* Blank lines and comments are skipped; a line without "=", a path that cannot
\* be resolved and an unknown key each refuse the whole file.
LoadLine ==
  /\ phase = "loading"
  /\ todo # <<>> /\ ~failed
  /\ todo' = Tail(todo)
  /\ LET line == Head(todo) IN
       \/ line.key = "comment" /\ UNCHANGED <<phase, exact, prefixes, rules>>
       \/ line.key = "malformed" /\ Refused
       \/ /\ line.key \notin {"comment", "malformed"}
          /\ IF Normalized(line.path) = Missing \/ line.key \notin KnownKeys
             THEN Refused
             ELSE Added(line)
  /\ UNCHANGED <<disk, changes, policy, failed, answers>>

\* An I/O error, or a directory in the file's place.
ReadFails ==
  /\ ReadMayFail
  /\ phase = "loading" /\ ~failed
  /\ failed' = TRUE
  /\ UNCHANGED <<disk, changes, policy, todo, phase, exact, prefixes, rules, answers>>

\* getline returns false at the end of the file and, all the same, when reading
\* has failed.
LoadDone_AtComment ==
  /\ phase = "loading"
  /\ todo = <<>> \/ failed \/ Head(todo).key = "comment"
  /\ phase' = "serving"
  /\ UNCHANGED <<disk, changes, policy, todo, failed, exact, prefixes, rules, answers>>

LoadDone ==
  /\ phase = "loading"
  /\ todo = <<>> \/ failed
  /\ phase' = "serving"
  /\ UNCHANGED <<disk, changes, policy, todo, failed, exact, prefixes, rules, answers>>

-----------------------------------------------------------------------------
Verdict(path) ==
  IF path = Missing THEN "missing_or_relative_executable_path"
  ELSE IF path \in exact THEN "deny_executable_match"
  ELSE IF \E i \in DOMAIN prefixes : StartsWith(path, prefixes[i])
  THEN "deny_prefix_match"
  ELSE "allowed"

\* evaluate.
Evaluate(exe) ==
  /\ phase = "serving"
  /\ Len(answers) < MaxAnswers
  /\ answers' = Append(answers, [exe |-> exe, file |-> Named(exe),
                                 straight |-> Straight(exe),
                                 reason |-> Verdict(Normalized(exe))])
  /\ UNCHANGED <<disk, changes, engine>>

\* Files and links come and go.
DiskChanges(f) ==
  /\ changes < MaxChanges
  /\ disk' = f
  /\ changes' = changes + 1
  /\ UNCHANGED <<engine, answers>>

Next ==
  \/ LoadLine \/ ReadFails \/ LoadDone
  \/ \E exe \in Executables : Evaluate(exe)
  \/ \E f \in FileSystems : DiskChanges(f)

Spec == Init /\ [][Next]_vars

-----------------------------------------------------------------------------
(***************************************************************************)
(* Properties                                                              *)
(***************************************************************************)
Reasons == {"missing_or_relative_executable_path", "deny_executable_match",
            "deny_prefix_match", "allowed"}

\* What the engine compares with was resolved when the policy was read: no rule
\* is lost, none is added, none is left unresolved.
PolicyTypeOK ==
  /\ disk \in FileSystems
  /\ changes \in 0..MaxChanges
  /\ policy \in Policies
  /\ failed \in BOOLEAN
  /\ phase \in {"loading", "serving", "refused"}
  /\ exact = {r.taken : r \in {q \in rules : q.key = "deny_executable"}}
  /\ Range(prefixes) = {r.taken : r \in {q \in rules : q.key = "deny_prefix"}}
  /\ \A r \in rules : r.taken # Missing
  /\ \A i \in DOMAIN answers : answers[i].reason \in Reasons

\* The path, without links, lies in the directory, or is the directory.
Below(path, directory) == IsPrefix(directory, path)

Forbidden(path) ==
  path # Missing /\ \E r \in rules :
    /\ r.straight
    /\ \/ r.key = "deny_executable" /\ path = r.file
       \/ r.key = "deny_prefix" /\ Below(path, r.file)

\* Whatever links an event's name for a file goes through, and however links are
\* changed in between, what is let through is a file that exists and that no rule
\* covers.  This leaves out the names in which ".." follows a link to a directory:
\* lexically_normal (line 100) takes the link's name back before fs::canonical
\* (line 109) could follow it, and the engine judges, or denies, another file than
\* the one that the kernel finds under that name.
NoAliasEscapes ==
  \A i \in DOMAIN answers :
    answers[i].straight /\ answers[i].reason = "allowed" =>
      answers[i].file # Missing /\ ~Forbidden(answers[i].file)

\* docs/ARCHITECTURE.md, line 71: "Return allow or deny decisions
\* deterministically".  A policy gives one file one verdict, by whatever links and
\* plain ".." it is named and whatever changes around it.  (One name may well get
\* two verdicts; and again no ".." after a link.)
OneVerdictPerFile ==
  \A i, j \in DOMAIN answers :
    /\ answers[i].straight /\ answers[j].straight
    /\ answers[i].file = answers[j].file
    => answers[i].reason = answers[j].reason

\* A policy is in force as a whole or not at all, one bad line refusing it, but for
\* this: where reading the file fails, the lines before are in force without the
\* others.
NoHalfPolicy ==
  phase = "serving" =>
    /\ todo = <<>> \/ failed
    /\ LET read == 1..(Len(policy) - Len(todo)) IN
         {[key |-> r.key, path |-> r.path] : r \in rules} =
           {[key |-> policy[i].key, path |-> policy[i].path] :
              i \in {j \in read : policy[j].key # "comment"}}

\* policies/default.policy, line 3: "deny_prefix=/absolute/path/prefix/".  Such
\* a rule denies what lies in the directory.
PrefixIsDirectory ==
  \A i \in DOMAIN answers :
    answers[i].straight /\ answers[i].reason = "deny_prefix_match" =>
      Forbidden(answers[i].file)

=============================================================================
