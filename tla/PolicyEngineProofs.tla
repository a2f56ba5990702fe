------------------------- MODULE PolicyEngineProofs -------------------------
(***************************************************************************)
(* What is proved of the policy engine, for policies of any length, any    *)
(* file systems, and any number of changes and events.                     *)
(***************************************************************************)
EXTENDS PolicyEngine, DataInduction, SequenceTheorems, TLAPS

\* What a path may lead to.
Place == Seq(STRING) \cup {Missing}

Lines == UNION {Range(p) : p \in Policies}
FilesOf(key) == {r.taken : r \in {q \in rules : q.key = key}}

\* What there is to read are lines of a policy; what was read, rules with a file,
\* which is the one that was named if the name is straight.
Typed ==
  /\ PolicyTypeOK
  /\ todo \in Seq(Lines)
  /\ prefixes \in Seq(FilesOf("deny_prefix"))
  /\ \A r \in rules :
       /\ r.taken \in Seq(STRING) /\ r.key \in KnownKeys
       /\ r.straight => r.file = r.taken
  /\ phase # "serving" => answers = <<>>
  /\ answers \in Seq(Range(answers))

\* Each verdict on a straight name is the one the rules give on the file it names.
AnswersStand ==
  \A i \in DOMAIN answers :
    /\ answers[i].straight => answers[i].reason = Verdict(answers[i].file)
    /\ answers[i].straight => answers[i].file \in Place

\* The lines behind, and what they say.
Behind == Len(policy) - Len(todo)
Said(n) == {[key |-> policy[i].key, path |-> policy[i].path] :
              i \in {j \in 1..n : policy[j].key # "comment"}}
Stated == {[key |-> r.key, path |-> r.path] : r \in rules}

\* The rules are those of the lines behind, as long as no line was refused.
ReadSoFar ==
  /\ Behind \in 0..Len(policy)
  /\ todo = SubSeq(policy, Behind + 1, Len(policy))
  /\ phase # "refused" => Stated = Said(Behind)
  /\ phase = "serving" => todo = <<>> \/ failed

PolicyInv == Typed /\ AnswersStand /\ ReadSoFar

-----------------------------------------------------------------------------
\* A sequence with one more element, and the set of its elements.
LEMMA RangeAppend ==
  ASSUME NEW S, NEW s \in Seq(S), NEW e
  PROVE  /\ Append(s, e) \in Seq(S \cup {e})
         /\ Range(Append(s, e)) = Range(s) \cup {e}
<1>1. s \in Seq(S \cup {e}) /\ e \in S \cup {e}
  BY SeqMonotonic
<1>2. /\ Append(s, e) \in Seq(S \cup {e})
      /\ Len(Append(s, e)) = Len(s) + 1
      /\ \A i \in 1..Len(s) : Append(s, e)[i] = s[i]
      /\ Append(s, e)[Len(s) + 1] = e
  BY <1>1, AppendProperties
<1>3. /\ Len(s) \in Nat /\ DOMAIN s = 1..Len(s)
      /\ DOMAIN Append(s, e) = 1..(Len(s) + 1)
  BY <1>2, LenProperties
<1>4. 1..(Len(s) + 1) = (1..Len(s)) \cup {Len(s) + 1}
  BY <1>3
<1> DEFINE t == Append(s, e)
<1>5. \A x : x \in Range(t) <=> x \in Range(s) \cup {e}
  <2> HIDE DEF t
  <2> TAKE x
  <2>1. x \in Range(t) <=> \E i \in (1..Len(s)) \cup {Len(s) + 1} : x = t[i]
    BY <1>3, <1>4 DEF Range, t
  <2>2. x \in Range(s) <=> \E i \in 1..Len(s) : x = s[i]
    BY <1>3 DEF Range
  <2>3. t[Len(s) + 1] = e /\ \A i \in 1..Len(s) : t[i] = s[i]
    BY <1>2 DEF t
  <2> QED
    BY <2>1, <2>2, <2>3
<1> QED
  BY <1>2, <1>5

\* A sequence is one over its own elements, also when it has grown.
LEMMA AppendKeepsSeq ==
  ASSUME NEW s, s \in Seq(Range(s)), NEW e
  PROVE  Append(s, e) \in Seq(Range(Append(s, e)))
<1> DEFINE S == Range(s)
<1>1. s \in Seq(S)
  OBVIOUS
<1>2. Append(s, e) \in Seq(S \cup {e}) /\ Range(Append(s, e)) = S \cup {e}
  <2> HIDE DEF S
  <2>1. Append(s, e) \in Seq(S \cup {e}) /\ Range(Append(s, e)) = Range(s) \cup {e}
    BY <1>1, RangeAppend
  <2> QED
    BY <2>1 DEF S
<1> QED
  BY <1>2, Zenon

\* A rule more gives the rules of its key a file more, and all rules a line more.
LEMMA OneRuleMore ==
  ASSUME NEW S, NEW new, NEW key
  PROVE  {r.taken : r \in {q \in S \cup {new} : q.key = key}} =
           {r.taken : r \in {q \in S : q.key = key}}
           \cup (IF new.key = key THEN {new.taken} ELSE {})
OBVIOUS

\* What the file says of a set of rules, when there is one more.
LEMMA OneLineMore ==
  ASSUME NEW S, NEW new
  PROVE  {[key |-> r.key, path |-> r.path] : r \in S \cup {new}} =
           {[key |-> r.key, path |-> r.path] : r \in S}
           \cup {[key |-> new.key, path |-> new.path]}
OBVIOUS

\* What the lines read say when one more has been read.
LEMMA ReadOneMore ==
  ASSUME NEW n \in Nat
  PROVE  Said(n + 1) =
           Said(n) \cup (IF policy[n + 1].key = "comment" THEN {}
                        ELSE {[key |-> policy[n + 1].key, path |-> policy[n + 1].path]})
<1>1. 1..(n + 1) = (1..n) \cup {n + 1}
  OBVIOUS
<1> QED
  BY <1>1 DEF Said

-----------------------------------------------------------------------------
\* The functions behind File and Lexical: one value for each name, the next from the
\* one before.
Goes(path, at) ==
  /\ at \in [0..Len(path) -> Place]
  /\ at[0] = <<>>
  /\ \A i \in 1..Len(path) : at[i] = Entry(at[i - 1], path[i])

Reads(path, text) ==
  /\ text \in [0..Len(path) -> Seq(STRING)]
  /\ text[0] = <<>>
  /\ \A i \in 1..Len(path) :
       text[i] = IF path[i] = ".." THEN Parent(text[i - 1])
                 ELSE Append(text[i - 1], path[i])

LEMMA EntryTyped ==
  ASSUME disk \in FileSystems, NEW d \in Place, NEW x \in STRING
  PROVE  Entry(d, x) \in Place
BY PolicyAssumption DEF Entry, Place

\* The last of the names after the others, and what there is without it.
LEMMA AppendEnds ==
  ASSUME NEW S, NEW p \in Seq(S), NEW x \in S
  PROVE  /\ Append(p, x) \in Seq(S) /\ Append(p, x) # <<>>
         /\ Len(Append(p, x)) = Len(p) + 1 /\ Len(p) \in Nat
         /\ Append(p, x)[Len(p) + 1] = x
         /\ \A i \in 1..Len(p) : Append(p, x)[i] = p[i]
         /\ Last(Append(p, x)) = x /\ Front(Append(p, x)) = p
<1>1. /\ Append(p, x) \in Seq(S) /\ Append(p, x) # <<>>
      /\ Len(Append(p, x)) = Len(p) + 1
      /\ \A i \in 1..Len(p) : Append(p, x)[i] = p[i]
      /\ Append(p, x)[Len(p) + 1] = x
  BY AppendProperties
<1>2. Len(p) \in Nat
  BY LenProperties
<1> DEFINE q == Append(p, x)
           f == SubSeq(q, 1, Len(p))
<1>3. Front(q) = f /\ Last(q) = x
  BY <1>1, <1>2 DEF Front, Last
<1>4. f \in Seq(S) /\ Len(f) = Len(p) /\ \A i \in 1..Len(p) : f[i] = q[i]
  <2> HIDE DEF q
  <2> QED
    BY <1>1, <1>2, SubSeqProperties DEF q
<1>5. f = p
  <2> HIDE DEF f
  <2> QED
    BY <1>1, <1>2, <1>4, SeqEqual
<1> QED
  BY <1>1, <1>2, <1>3, <1>5

\* The same of a path with a name after it.
LEMMA OneNameMore ==
  \A p \in Seq(STRING), x \in STRING :
    /\ Append(p, x) \in Seq(STRING) /\ Append(p, x) # <<>> /\ Front(Append(p, x)) = p
    /\ Len(Append(p, x)) = Len(p) + 1 /\ Len(p) \in Nat
    /\ Append(p, x)[Len(p) + 1] = x /\ \A i \in 1..Len(p) : Append(p, x)[i] = p[i]
<1>1. ASSUME NEW S, S = STRING, NEW p \in Seq(S), NEW x \in S
      PROVE  /\ Append(p, x) \in Seq(S) /\ Append(p, x) # <<>> /\ Front(Append(p, x)) = p
             /\ Len(Append(p, x)) = Len(p) + 1 /\ Len(p) \in Nat
             /\ Append(p, x)[Len(p) + 1] = x /\ \A i \in 1..Len(p) : Append(p, x)[i] = p[i]
  BY AppendEnds
<1> QED
  BY <1>1

\* A path that is not the root is its parent with a name after it.
LEMMA ParentAndName ==
  ASSUME NEW S, NEW q \in Seq(S), q # <<>>
  PROVE  /\ Parent(q) \in Seq(S) /\ Last(q) \in S
         /\ q = Append(Parent(q), Last(q))
<1> DEFINE m == Len(q)
           f == SubSeq(q, 1, m - 1)
           g == Append(f, q[m])
<1>1. m \in Nat /\ m >= 1 /\ q[m] \in S
  BY LenProperties
<1>2. /\ Parent(q) = f /\ Last(q) = q[m]
      /\ f \in Seq(S) /\ Len(f) = m - 1
      /\ \A i \in 1..(m - 1) : f[i] = q[i]
  <2>1. Parent(q) = f /\ Last(q) = q[m]
    BY DEF Parent, Front, Last
  <2>2. 1 \in 1..(m + 1) /\ m - 1 \in 0..m /\ (m - 1) - 1 + 1 = m - 1
    BY <1>1
  <2>3. f \in Seq(S) /\ Len(f) = m - 1 /\ \A i \in 1..(m - 1) : f[i] = q[i]
    BY <1>1, <2>2, SubSeqProperties
  <2> QED
    BY <2>1, <2>3
<1>3. g = q
  <2> HIDE DEF f
  <2>1. /\ g \in Seq(S) /\ Len(g) = (m - 1) + 1
        /\ \A i \in 1..(m - 1) : g[i] = f[i]
        /\ g[(m - 1) + 1] = q[m]
    BY <1>1, <1>2, AppendEnds
  <2> HIDE DEF g
  <2>2. \A i \in 1..m : g[i] = q[i]
    BY <1>1, <1>2, <2>1
  <2> QED
    BY <1>1, <2>1, <2>2, SeqEqual
<1> QED
  BY <1>1, <1>2, <1>3

\* There is such a function, and File gives its last value.
LEMMA FileSteps ==
  ASSUME disk \in FileSystems, NEW path \in Seq(STRING)
  PROVE  \E at : Goes(path, at) /\ File(path) = at[Len(path)]
<1> DEFINE n == Len(path)
           Body(g) == [i \in 0..n |-> IF i = 0 THEN <<>> ELSE Entry(g[i - 1], path[i])]
           step == [z \in Place \X (1..n) |-> Entry(z[1], path[z[2]])]
           h == CHOOSE g : g = Body(g)
<1>1. n \in Nat /\ <<>> \in Place /\ \A i \in 1..n : path[i] \in STRING
  BY LenProperties DEF Place
<1>2. StaysIn(step, Place, n)
  <2>1. ASSUME NEW s \in Place, NEW i \in 1..n PROVE step[<<s, i>>] \in Place
    <3>1. step[<<s, i>>] = Entry(s, path[i])
      OBVIOUS
    <3> QED
      BY <1>1, <3>1, EntryTyped
  <2> HIDE DEF step
  <2> QED
    BY <2>1 DEF StaysIn
<1>3. PICK f : Follows(f, step, Place, n, <<>>)
  <2> HIDE DEF step, n
  <2> QED
    BY <1>1, <1>2, Recursion
<1>4. /\ f \in [0..n -> Place] /\ f[0] = <<>>
      /\ \A i \in 1..n : f[i] = Entry(f[i - 1], path[i])
  <2>1. \A i \in 1..n : i - 1 \in 0..n
    BY <1>1
  <2>2. ASSUME NEW s \in Place, NEW i \in 1..n PROVE step[<<s, i>>] = Entry(s, path[i])
    OBVIOUS
  <2> HIDE DEF step, n
  <2> QED
    BY <1>3, <2>1, <2>2 DEF Follows
<1>5. f = Body(f)
  <2>1. \A i \in 0..n : f[i] = IF i = 0 THEN <<>> ELSE Entry(f[i - 1], path[i])
    BY <1>1, <1>4
  <2> HIDE DEF n
  <2> QED
    BY <1>4, <2>1
<1>6. h = Body(h)
  <2> HIDE DEF Body
  <2> QED
    BY <1>5, Zenon
<1>7. File(path) = h[n]
  BY Zenon DEF File, h
<1> HIDE DEF h
<1>8. h[0] = <<>> /\ \A i \in 1..n : h[i] = Entry(h[i - 1], path[i])
  <2>1. Body(h)[0] = <<>> /\ \A i \in 1..n : Body(h)[i] = Entry(h[i - 1], path[i])
    <3> HIDE DEF n
    <3> QED
      BY <1>1
  <2> HIDE DEF Body
  <2> QED
    BY <1>6, <2>1, Zenon
<1>9. GoAlike(h, f, n)
  <2>1. \A i \in 1..n : h[i - 1] = f[i - 1] => h[i] = f[i]
    BY <1>4, <1>8, Zenon
  <2> HIDE DEF n
  <2> QED
    BY <1>4, <1>8, <2>1, Zenon DEF GoAlike
<1>10. \A i \in 0..n : h[i] = f[i]
  <2> HIDE DEF n
  <2> QED
    BY <1>1, <1>9, SameUpTo
<1>11. File(path) = f[n]
  BY <1>1, <1>7, <1>10
<1> QED
  BY <1>4, <1>11 DEF Goes

\* And Lexical gives the last value of its own.
LEMMA LexicalSteps ==
  ASSUME NEW path \in Seq(STRING)
  PROVE  \E text : Reads(path, text) /\ Lexical(path) = text[Len(path)]
<1> DEFINE n == Len(path)
           Next1(s, x) == IF x = ".." THEN Parent(s) ELSE Append(s, x)
           Body(g) == [i \in 0..n |-> IF i = 0 THEN <<>>
                                      ELSE IF path[i] = ".." THEN Parent(g[i - 1])
                                      ELSE Append(g[i - 1], path[i])]
           step == [z \in Seq(STRING) \X (1..n) |-> Next1(z[1], path[z[2]])]
           h == CHOOSE g : g = Body(g)
<1>1. n \in Nat /\ <<>> \in Seq(STRING) /\ \A i \in 1..n : path[i] \in STRING
  BY LenProperties
<1>2. StaysIn(step, Seq(STRING), n)
  <2>1. ASSUME NEW s \in Seq(STRING), NEW i \in 1..n PROVE step[<<s, i>>] \in Seq(STRING)
    <3>1. step[<<s, i>>] = Next1(s, path[i])
      OBVIOUS
    <3>2. Parent(s) \in Seq(STRING)
      <4>1. CASE s = <<>>
        BY <4>1 DEF Parent
      <4>2. CASE s # <<>>
        BY <4>2, ParentAndName
      <4> QED
        BY <4>1, <4>2
    <3>3. Append(s, path[i]) \in Seq(STRING)
      BY <1>1, AppendEnds
    <3> QED
      BY <3>1, <3>2, <3>3
  <2> HIDE DEF step
  <2> QED
    BY <2>1 DEF StaysIn
<1>3. PICK f : Follows(f, step, Seq(STRING), n, <<>>)
  <2> HIDE DEF step, n
  <2> QED
    BY <1>1, <1>2, Recursion
<1>4. /\ f \in [0..n -> Seq(STRING)] /\ f[0] = <<>>
      /\ \A i \in 1..n : f[i] = Next1(f[i - 1], path[i])
  <2>1. \A i \in 1..n : i - 1 \in 0..n
    BY <1>1
  <2>2. ASSUME NEW s \in Seq(STRING), NEW i \in 1..n PROVE step[<<s, i>>] = Next1(s, path[i])
    OBVIOUS
  <2> HIDE DEF step, n, Next1
  <2> QED
    BY <1>3, <2>1, <2>2 DEF Follows
<1>5. f = Body(f)
  <2>1. \A i \in 0..n : f[i] = IF i = 0 THEN <<>>
                               ELSE IF path[i] = ".." THEN Parent(f[i - 1])
                               ELSE Append(f[i - 1], path[i])
    <3>1. \A i \in 0..n : i = 0 \/ i \in 1..n
      BY <1>1
    <3> HIDE DEF n
    <3> QED
      BY <1>4, <3>1
  <2> HIDE DEF n
  <2> QED
    BY <1>4, <2>1
<1>6. h = Body(h)
  <2> HIDE DEF Body
  <2> QED
    BY <1>5, Zenon
<1>7. Lexical(path) = h[n]
  BY Zenon DEF Lexical, h
<1> HIDE DEF h
<1>8. h[0] = <<>> /\ \A i \in 1..n : h[i] = Next1(h[i - 1], path[i])
  <2>1. Body(h)[0] = <<>> /\ \A i \in 1..n : Body(h)[i] = Next1(h[i - 1], path[i])
    <3> HIDE DEF n
    <3> QED
      BY <1>1
  <2> HIDE DEF Body, Next1
  <2> QED
    BY <1>6, <2>1, Zenon
<1>9. GoAlike(h, f, n)
  <2>1. \A i \in 1..n : h[i - 1] = f[i - 1] => h[i] = f[i]
    <3> HIDE DEF Next1, n
    <3> QED
      BY <1>4, <1>8, Zenon
  <2> HIDE DEF n
  <2> QED
    BY <1>4, <1>8, <2>1, Zenon DEF GoAlike
<1>10. \A i \in 0..n : h[i] = f[i]
  <2> HIDE DEF n
  <2> QED
    BY <1>1, <1>9, SameUpTo
<1>11. Lexical(path) = f[n]
  BY <1>1, <1>7, <1>10
<1> QED
  BY <1>4, <1>11 DEF Reads

\* The root names the root, and a name more is looked up where the others led.
LEMMA FileOf ==
  ASSUME disk \in FileSystems
  PROVE  /\ File(<<>>) = <<>>
         /\ \A p \in Seq(STRING) : File(p) \in Place
         /\ \A p \in Seq(STRING), x \in STRING : File(Append(p, x)) = Entry(File(p), x)
<1>1. File(<<>>) = <<>>
  <2>1. <<>> \in Seq(STRING) /\ Len(<<>>) = 0
    OBVIOUS
  <2> QED
    BY <2>1, FileSteps DEF Goes
<1>2. ASSUME NEW p \in Seq(STRING) PROVE File(p) \in Place
  BY FileSteps, LenProperties DEF Goes
<1>3. ASSUME NEW p \in Seq(STRING), NEW x \in STRING
      PROVE  File(Append(p, x)) = Entry(File(p), x)
  <2> DEFINE q == Append(p, x)
             n == Len(p)
  <2>1. /\ q \in Seq(STRING) /\ Len(q) = n + 1 /\ n \in Nat
        /\ q[n + 1] = x /\ \A i \in 1..n : q[i] = p[i]
    BY OneNameMore
  <2>2. PICK f : Goes(p, f) /\ File(p) = f[n]
    BY FileSteps
  <2> HIDE DEF q
  <2>3. PICK g : Goes(q, g) /\ File(q) = g[n + 1]
    BY <2>1, FileSteps
  <2>4. GoAlike(g, f, n)
    <3>1. g[0] = f[0]
      BY <2>2, <2>3 DEF Goes
    <3>2. ASSUME NEW i \in 1..n, g[i - 1] = f[i - 1] PROVE g[i] = f[i]
      <4>1. g[i] = Entry(g[i - 1], q[i]) /\ f[i] = Entry(f[i - 1], p[i])
        BY <2>1, <2>2, <2>3 DEF Goes
      <4> QED
        BY <2>1, <3>2, <4>1
    <3> QED
      BY <3>1, <3>2 DEF GoAlike
  <2>5. g[n] = f[n]
    BY <2>1, <2>4, SameUpTo
  <2>6. g[n + 1] = Entry(g[n], q[n + 1])
    <3>1. n + 1 \in 1..Len(q) /\ (n + 1) - 1 = n
      BY <2>1
    <3> HIDE DEF n
    <3>2. g[n + 1] = Entry(g[(n + 1) - 1], q[n + 1])
      BY <2>3, <3>1 DEF Goes
    <3> QED
      BY <3>1, <3>2
  <2> QED
    BY <2>1, <2>2, <2>3, <2>5, <2>6 DEF q
<1> QED
  BY <1>1, <1>2, <1>3

\* The same of the text.
LEMMA LexicalOf ==
  /\ Lexical(<<>>) = <<>>
  /\ \A p \in Seq(STRING) : Lexical(p) \in Seq(STRING)
  /\ \A p \in Seq(STRING), x \in STRING :
       Lexical(Append(p, x)) = IF x = ".." THEN Parent(Lexical(p)) ELSE Append(Lexical(p), x)
<1>1. Lexical(<<>>) = <<>>
  <2>1. <<>> \in Seq(STRING) /\ Len(<<>>) = 0
    OBVIOUS
  <2> QED
    BY <2>1, LexicalSteps DEF Reads
<1>2. ASSUME NEW p \in Seq(STRING) PROVE Lexical(p) \in Seq(STRING)
  BY LexicalSteps, LenProperties DEF Reads
<1>3. ASSUME NEW p \in Seq(STRING), NEW x \in STRING
      PROVE  Lexical(Append(p, x)) =
               IF x = ".." THEN Parent(Lexical(p)) ELSE Append(Lexical(p), x)
  <2> DEFINE q == Append(p, x)
             n == Len(p)
  <2>1. /\ q \in Seq(STRING) /\ Len(q) = n + 1 /\ n \in Nat
        /\ q[n + 1] = x /\ \A i \in 1..n : q[i] = p[i]
    BY OneNameMore
  <2>2. PICK f : Reads(p, f) /\ Lexical(p) = f[n]
    BY LexicalSteps
  <2> HIDE DEF q
  <2>3. PICK g : Reads(q, g) /\ Lexical(q) = g[n + 1]
    BY <2>1, LexicalSteps
  <2>4. GoAlike(g, f, n)
    <3>1. g[0] = f[0]
      BY <2>2, <2>3 DEF Reads
    <3>2. ASSUME NEW i \in 1..n, g[i - 1] = f[i - 1] PROVE g[i] = f[i]
      <4>1. /\ q[i] = p[i]
            /\ g[i] = IF q[i] = ".." THEN Parent(g[i - 1]) ELSE Append(g[i - 1], q[i])
            /\ f[i] = IF p[i] = ".." THEN Parent(f[i - 1]) ELSE Append(f[i - 1], p[i])
        BY <2>1, <2>2, <2>3 DEF Reads
      <4> QED
        BY <3>2, <4>1
    <3> QED
      BY <3>1, <3>2 DEF GoAlike
  <2>5. g[n] = f[n]
    BY <2>1, <2>4, SameUpTo
  <2>6. g[n + 1] = IF q[n + 1] = ".." THEN Parent(g[n]) ELSE Append(g[n], q[n + 1])
    BY <2>1, <2>3 DEF Reads
  <2>7. Lexical(q) = IF x = ".." THEN Parent(Lexical(p)) ELSE Append(Lexical(p), x)
    BY <2>1, <2>2, <2>3, <2>5, <2>6
  <2> QED
    BY <2>7 DEF q
<1> QED
  BY <1>1, <1>2, <1>3

\* Where ".." takes back the name of a directory that is no link, the text leads to
\* the directory that the kernel goes up to.
LEMMA UpIsUp ==
  ASSUME disk \in FileSystems, NEW q \in Seq(STRING), IsDirectory(q), ~IsLink(q)
  PROVE  File(Parent(q)) = Entry(File(q), "..")
<1> DEFINE up == Entry(File(q), "..")
           entry == Append(File(q), "..")
<1>1. File(q) \in Seq(STRING) /\ entry \in DOMAIN disk /\ up = disk[entry]
  BY FileOf DEF IsDirectory, Entry, Place
<1>2. entry \in Seq(STRING) /\ Last(entry) = ".." => up = Parent(Front(entry))
  BY <1>1, PolicyAssumption
<1>3. up = Parent(File(q))
  <2>1. entry[Len(File(q)) + 1] = ".." /\ Len(entry) = Len(File(q)) + 1
    BY <1>1, AppendProperties, LenProperties
  <2>2. Last(entry) = ".."
    BY <2>1 DEF Last
  <2>3. Front(entry) = File(q)
    <3>1. Front(entry) = SubSeq(entry, 1, Len(File(q)))
      BY <1>1, <2>1, LenProperties DEF Front
    <3> QED
      BY <1>1, <3>1
  <2> QED
    BY <1>1, <1>2, <2>2, <2>3, PolicyAssumption
<1>4. CASE q = <<>>
  BY <1>3, <1>4, FileOf DEF Parent
<1>5. CASE q # <<>>
  <2>1. /\ Parent(q) \in Seq(STRING) /\ Last(q) \in STRING
        /\ q = Append(Parent(q), Last(q))
    BY <1>5, ParentAndName
  <2>2. File(q) = Entry(File(Parent(q)), Last(q)) /\ File(Parent(q)) \in Place
    BY <2>1, FileOf
  <2>3. File(Parent(q)) \in Seq(STRING)
    BY <1>1, <2>2, PolicyAssumption DEF Entry, Place
  <2>4. File(q) = Append(File(Parent(q)), Last(q))
    BY <1>5 DEF IsLink
  <2>5. Front(File(q)) = File(Parent(q)) /\ File(q) # <<>>
    BY <2>1, <2>3, <2>4, OneNameMore
  <2> QED
    BY <1>3, <2>5 DEF Parent
<1> QED
  BY <1>4, <1>5

\* What a path is taken for is a place.
LEMMA TakenTyped ==
  ASSUME disk \in FileSystems, NEW path \in Seq(STRING) \cup {Relative}
  PROVE  Normalized(path) \in Place
<1>1. CASE path = Relative
  BY <1>1 DEF Normalized, Place
<1>2. CASE path # Relative
  BY <1>2, LexicalOf, FileOf DEF Normalized
<1> QED
  BY <1>1, <1>2

\* Of a straight path, the text names the file that the path names.
LEMMA StraightIsTaken ==
  ASSUME disk \in FileSystems, NEW path \in Seq(STRING) \cup {Relative}, Straight(path)
  PROVE  Normalized(path) = Named(path)
<1>1. CASE path = Relative
  BY <1>1 DEF Normalized, Named
<1>2. CASE path # Relative
  <2> DEFINE n == Len(path)
             pre(i) == SubSeq(path, 1, i)
             T == {i \in 0..n : File(Lexical(pre(i))) = File(pre(i))}
  <2>1. path \in Seq(STRING) /\ n \in Nat /\ pre(n) = path /\ pre(0) = <<>>
    BY <1>2, LenProperties, SubSeqFull
  <2>2. 0 \in T
    <3>1. File(Lexical(pre(0))) = File(pre(0))
      BY <2>1, LexicalOf, Zenon
    <3> QED
      BY <2>1, <3>1
  <2>3. ASSUME NEW i \in 1..n, i - 1 \in T PROVE i \in T
    <3> DEFINE p == pre(i - 1)
               x == path[i]
    <3>1. p \in Seq(STRING) /\ x \in STRING /\ pre(i) = Append(p, x)
      BY <2>1, SubSeqProperties
    <3>2. x = ".." => IsDirectory(Lexical(p)) /\ ~IsLink(Lexical(p))
      BY <1>2 DEF Straight
    <3>3. File(Lexical(p)) = File(p) /\ Lexical(p) \in Seq(STRING)
      BY <2>3, <3>1, LexicalOf
    <3> HIDE DEF p, x
    <3>4. File(Append(p, x)) = Entry(File(p), x)
      BY <3>1, FileOf
    <3>5. ASSUME x = ".." PROVE File(Lexical(Append(p, x))) = File(Append(p, x))
      <4>1. Lexical(Append(p, x)) = Parent(Lexical(p))
        BY <3>1, <3>5, LexicalOf
      <4>2. File(Parent(Lexical(p))) = Entry(File(Lexical(p)), "..")
        BY <3>2, <3>3, <3>5, UpIsUp
      <4> QED
        BY <3>3, <3>4, <3>5, <4>1, <4>2
    <3>6. ASSUME x # ".." PROVE File(Lexical(Append(p, x))) = File(Append(p, x))
      <4>1. Lexical(Append(p, x)) = Append(Lexical(p), x)
        BY <3>1, <3>6, LexicalOf
      <4>2. File(Append(Lexical(p), x)) = Entry(File(Lexical(p)), x)
        BY <3>1, <3>3, FileOf
      <4> QED
        BY <3>3, <3>4, <4>1, <4>2
    <3>7. File(Lexical(pre(i))) = File(pre(i))
      <4> HIDE DEF pre
      <4> QED
        BY <3>1, <3>5, <3>6
    <3> HIDE DEF pre
    <3> QED
      BY <2>1, <3>7
  <2>4. n \in T
    <3> HIDE DEF T, n
    <3>1. 0..n \subseteq T
      BY <2>1, <2>2, <2>3, UpTo
    <3> QED
      BY <2>1, <3>1
  <2> QED
    BY <1>2, <2>1, <2>4 DEF Normalized, Named
<1> QED
  BY <1>1, <1>2

\* What lies below a directory begins with its name.
LEMMA BelowStartsWith ==
  ASSUME NEW path \in Seq(STRING), NEW directory \in Seq(STRING), Below(path, directory)
  PROVE  StartsWith(path, directory)
<1> DEFINE n == Len(directory)
<1>1. /\ n \in Nat /\ n <= Len(path)
      /\ SubSeq(directory, 1, n) = SubSeq(path, 1, n)
  BY LenProperties DEF Below, IsPrefix
<1>2. \A i \in 1..n : directory[i] = path[i]
  <2> TAKE i \in 1..n
  <2>1. SubSeq(directory, 1, n)[i] = directory[i] /\ SubSeq(path, 1, n)[i] = path[i]
    BY <1>1, SubSeqProperties
  <2> QED
    BY <1>1, <2>1
<1> QED
  BY <1>1, <1>2 DEF StartsWith

\* Before the first line is read there are no rules and no answers.
LEMMA PolicyInvInit == Init => PolicyInv
<1> SUFFICES ASSUME Init PROVE PolicyInv
  OBVIOUS
<1> USE DEF Init
<1>1. PolicyTypeOK
  <2>1. MaxChanges \in Nat
    BY PolicyAssumption
  <2>2. changes \in 0..MaxChanges /\ Range(prefixes) = {} /\ DOMAIN answers = {}
    BY <2>1 DEF Range
  <2>3. \A key : {r.taken : r \in {q \in rules : q.key = key}} = {}
    OBVIOUS
  <2>4. failed \in BOOLEAN
    BY Zenon
  <2> QED
    BY <2>2, <2>3, <2>4, Zenon DEF PolicyTypeOK
<1>2. todo \in Seq(Lines)
  <2>1. todo \in Seq(Range(todo)) /\ Range(todo) \subseteq Lines
    BY PolicyAssumption DEF Lines
  <2> QED
    BY <2>1, SeqMonotonic
<1>3. prefixes \in Seq(FilesOf("deny_prefix")) /\ answers \in Seq(Range(answers))
  OBVIOUS
<1>4. ReadSoFar
  <2>1. policy \in Policies /\ policy \in Seq(Range(policy))
    BY PolicyAssumption
  <2>2. Len(policy) \in Nat /\ policy = SubSeq(policy, 1, Len(policy))
    BY <2>1, SubSeqFull, LenProperties
  <2>3. Behind = 0
    BY <2>2 DEF Behind
  <2>4. Said(0) = {} /\ Stated = {}
    BY DEF Said, Stated
  <2> QED
    BY <2>2, <2>3, <2>4 DEF ReadSoFar
<1> QED
  BY <1>1, <1>2, <1>3, <1>4 DEF PolicyInv, Typed, AnswersStand

\* A line adds its rule, or ends the loading.
LEMMA LoadLineKeeps == PolicyInv /\ LoadLine => PolicyInv'
<1> SUFFICES ASSUME PolicyInv, LoadLine PROVE PolicyInv'
  OBVIOUS
<1> USE DEF PolicyInv, Typed
<1> DEFINE line == Head(todo)
           n == Behind
<1>1. /\ phase = "loading" /\ todo # <<>> /\ answers = <<>>
      /\ todo' = Tail(todo) /\ UNCHANGED <<disk, changes, policy, failed, answers>>
  BY DEF LoadLine
<1>2. line \in Lines /\ Tail(todo) \in Seq(Lines) /\ Len(Tail(todo)) = Len(todo) - 1
  BY <1>1, HeadTailProperties
<1>3. line.path \in Seq(STRING) \cup {Relative}
  BY <1>2, PolicyAssumption DEF Lines
<1>4. /\ policy \in Seq(Range(policy)) /\ Len(policy) \in Nat
      /\ Len(todo) \in Nat /\ n \in 0..Len(policy)
  BY PolicyAssumption, LenProperties DEF PolicyTypeOK, ReadSoFar
<1>5. n + 1 \in 1..Len(policy) /\ line = policy[n + 1] /\ Tail(todo) = SubSeq(policy, n + 2, Len(policy))
  <2>1. todo = SubSeq(policy, n + 1, Len(policy))
    BY DEF ReadSoFar
  <2>2. n < Len(policy)
    <3> SUFFICES ASSUME ~(n < Len(policy)) PROVE FALSE
      OBVIOUS
    <3> QED
      BY <1>1, <1>4, <2>1, SubSeqEmpty
  <2> QED
    BY <1>4, <2>1, <2>2, HeadTailOfSubSeq
<1>5a. Said(n + 1) = Said(n) \cup (IF line.key = "comment" THEN {}
                                   ELSE {[key |-> line.key, path |-> line.path]})
  <2>1. n \in Nat
    BY <1>4
  <2> HIDE DEF n, line
  <2>2. Said(n + 1) = Said(n) \cup (IF policy[n + 1].key = "comment" THEN {}
                        ELSE {[key |-> policy[n + 1].key, path |-> policy[n + 1].path]})
    BY <2>1, ReadOneMore, Zenon
  <2>3. line = policy[n + 1]
    BY <1>5
  <2> QED
    BY <2>2, <2>3, Zenon
<1>6. Behind' = n + 1
  BY <1>1, <1>2, <1>4 DEF Behind
<1>7. /\ Behind' \in 0..Len(policy')
      /\ todo' = SubSeq(policy', Behind' + 1, Len(policy'))
  BY <1>1, <1>4, <1>5, <1>6
<1>8. AnswersStand'
  BY <1>1 DEF AnswersStand
<1>9. \A k : Said(k)' = Said(k)
  BY <1>1 DEF Said
<1> HIDE DEF line, n
<1>10. CASE line.key = "comment" /\ UNCHANGED <<phase, exact, prefixes, rules>>
  <2>1. Stated' = Said(Behind)'
    <3>1. Said(n + 1) = Said(n)
      <4>1. Said(n + 1) = Said(n) \cup {}
        BY <1>5a, <1>10, Zenon
      <4> QED
        BY <4>1
    <3>2. Stated' = Said(n)
      BY <1>1, <1>10 DEF ReadSoFar, Stated, n
    <3> QED
      BY <1>1, <1>6, <3>1, <3>2 DEF Said
  <2> QED
    BY <1>1, <1>2, <1>7, <1>8, <1>10, <2>1 DEF PolicyTypeOK, ReadSoFar, FilesOf
<1>11. CASE Refused
  BY <1>1, <1>2, <1>7, <1>8, <1>11 DEF PolicyTypeOK, ReadSoFar, FilesOf, Refused
<1>12. CASE line.key \in KnownKeys /\ Normalized(line.path) # Missing /\ Added(line)
  <2> DEFINE new == Rule(line)
  <2>1. /\ new.taken = Normalized(line.path) /\ new.taken \in Seq(STRING)
        /\ new.taken # Missing /\ (new.straight => new.file = new.taken)
        /\ new.key = line.key /\ new.path = line.path
    <3>1. Normalized(line.path) \in Seq(STRING)
      BY <1>3, <1>12, TakenTyped DEF PolicyTypeOK, Place
    <3>2. Straight(line.path) => Named(line.path) = Normalized(line.path)
      BY <1>3, StraightIsTaken DEF PolicyTypeOK
    <3> QED
      BY <1>12, <3>1, <3>2 DEF Rule
  <2> HIDE DEF new
  <2>2. rules' = rules \cup {new} /\ phase' = phase
    BY <1>12 DEF Added, new
  <2>3. \A key : FilesOf(key)' = FilesOf(key) \cup (IF key = line.key THEN {new.taken} ELSE {})
    <3> TAKE key
    <3>1. {r.taken : r \in {q \in rules' : q.key = key}} =
            {r.taken : r \in {q \in rules : q.key = key}}
            \cup (IF line.key = key THEN {new.taken} ELSE {})
      BY <2>1, <2>2, OneRuleMore
    <3> QED
      BY <3>1 DEF FilesOf
  <2>4. /\ exact' = FilesOf("deny_executable")'
        /\ Range(prefixes)' = FilesOf("deny_prefix")'
        /\ prefixes' \in Seq(FilesOf("deny_prefix")')
    <3>1. exact = FilesOf("deny_executable") /\ Range(prefixes) = FilesOf("deny_prefix")
      BY DEF PolicyTypeOK, FilesOf
    <3>2. CASE line.key = "deny_executable"
      BY <1>12, <2>1, <2>3, <3>1, <3>2 DEF Added
    <3>3. CASE line.key = "deny_prefix"
      <4>1. prefixes' = Append(prefixes, new.taken) /\ exact' = exact
        BY <1>12, <2>1, <3>3 DEF Added
      <4>2. /\ prefixes' \in Seq(FilesOf("deny_prefix") \cup {new.taken})
            /\ Range(prefixes') = Range(prefixes) \cup {new.taken}
        BY <4>1, RangeAppend
      <4>3. /\ FilesOf("deny_prefix")' = FilesOf("deny_prefix") \cup {new.taken}
            /\ FilesOf("deny_executable")' = FilesOf("deny_executable")
        BY <2>3, <3>3
      <4> QED
        BY <3>1, <4>1, <4>2, <4>3
    <3> QED
      BY <1>12, <3>2, <3>3 DEF KnownKeys
  <2>5. Stated' = Said(Behind)'
    <3>1. line.key # "comment"
      BY <1>12 DEF KnownKeys
    <3>2. Stated' = Stated \cup {[key |-> line.key, path |-> line.path]}
      <4>1. {[key |-> r.key, path |-> r.path] : r \in rules \cup {new}} =
              {[key |-> r.key, path |-> r.path] : r \in rules}
              \cup {[key |-> new.key, path |-> new.path]}
        BY OneLineMore, Zenon
      <4> QED
        BY <2>1, <2>2, <4>1, Zenon DEF Stated
    <3>3. Said(n + 1) = Said(n) \cup {[key |-> line.key, path |-> line.path]}
      BY <1>5a, <3>1, Zenon
    <3>4. Stated = Said(n)
      BY <1>1 DEF ReadSoFar, n
    <3>5. Said(Behind)' = Said(n + 1)
      BY <1>1, <1>6 DEF Said
    <3> QED
      BY <3>2, <3>3, <3>4, <3>5
  <2>6. \A r \in rules' : /\ r.taken \in Seq(STRING) /\ r.key \in KnownKeys
                         /\ r.taken # Missing /\ (r.straight => r.file = r.taken)
    BY <1>12, <2>1, <2>2 DEF PolicyTypeOK
  <2>7. PolicyTypeOK'
    BY <1>1, <2>2, <2>4, <2>6 DEF PolicyTypeOK, FilesOf
  <2>8. ReadSoFar'
    BY <1>1, <1>7, <2>2, <2>5 DEF ReadSoFar
  <2> QED
    BY <1>1, <1>2, <1>8, <2>2, <2>4, <2>6, <2>7, <2>8
<1> QED
  BY <1>10, <1>11, <1>12 DEF LoadLine, line

\* No step of the engine, or of the file system, breaks the invariant.
LEMMA StepKeeps == PolicyInv /\ [Next]_vars => PolicyInv'
<1> SUFFICES ASSUME PolicyInv, [Next]_vars PROVE PolicyInv'
  OBVIOUS
<1> USE DEF PolicyInv, Typed
<1>1. CASE LoadLine
  BY <1>1, LoadLineKeeps
<1>2. CASE LoadDone \/ ReadFails
  <2>1. /\ phase = "loading" /\ phase' \in {"loading", "serving"}
        /\ failed' \in BOOLEAN /\ (failed => failed')
        /\ phase' = "serving" => todo = <<>> \/ failed
        /\ UNCHANGED <<disk, changes, policy, todo, exact, prefixes, rules, answers>>
    BY <1>2 DEF LoadDone, ReadFails, PolicyTypeOK
  <2>2. Typed'
    BY <2>1 DEF PolicyTypeOK, FilesOf
  <2>3. AnswersStand'
    BY <2>1 DEF AnswersStand, Verdict
  <2>4. ReadSoFar'
    BY <2>1 DEF ReadSoFar, Behind, Stated, Said
  <2> QED
    BY <2>2, <2>3, <2>4
<1>3. ASSUME NEW exe \in Executables, Evaluate(exe) PROVE PolicyInv'
  <2> DEFINE new == [exe |-> exe, file |-> Named(exe), straight |-> Straight(exe),
                     reason |-> Verdict(Normalized(exe))]
  <2>1. /\ phase = "serving" /\ answers' = Append(answers, new)
        /\ UNCHANGED <<disk, changes, engine>>
    BY <1>3 DEF Evaluate
  <2>2. /\ new.straight => new.reason = Verdict(new.file) /\ new.file \in Place
        /\ new.reason \in Reasons
    <3>1. exe \in Seq(STRING) \cup {Relative} /\ disk \in FileSystems
      BY PolicyAssumption DEF PolicyTypeOK
    <3>2. Straight(exe) => Named(exe) = Normalized(exe)
      BY <3>1, StraightIsTaken
    <3>3. Normalized(exe) \in Place
      BY <3>1, TakenTyped
    <3>4. Verdict(Normalized(exe)) \in Reasons
      BY DEF Verdict, Reasons
    <3> QED
      BY <3>2, <3>3, <3>4
  <2> HIDE DEF new
  <2>3. /\ Len(answers) \in Nat /\ DOMAIN answers = 1..Len(answers)
        /\ DOMAIN answers' = 1..(Len(answers) + 1)
        /\ \A i \in 1..Len(answers) : answers'[i] = answers[i]
        /\ answers'[Len(answers) + 1] = new
    BY <2>1, LenProperties, AppendProperties, RangeAppend
  <2>4. answers' \in Seq(Range(answers'))
    <3>1. answers \in Seq(Range(answers))
      OBVIOUS
    <3>2. Append(answers, new) \in Seq(Range(Append(answers, new)))
      BY <3>1, AppendKeepsSeq
    <3> QED
      BY <2>1, <3>2, Zenon
  <2>5. \A path : Verdict(path)' = Verdict(path)
    BY <2>1 DEF engine, Verdict
  <2>6. \A i \in DOMAIN answers' : i \in DOMAIN answers \/ i = Len(answers) + 1
    BY <2>3
  <2>7. AnswersStand'
    BY <2>2, <2>3, <2>5, <2>6 DEF AnswersStand
  <2>8. \A i \in DOMAIN answers' : answers'[i].reason \in Reasons
    BY <2>2, <2>3, <2>6 DEF PolicyTypeOK
  <2>9. ReadSoFar'
    BY <2>1 DEF engine, ReadSoFar, Behind, Stated, Said
  <2> QED
    BY <2>1, <2>4, <2>7, <2>8, <2>9 DEF engine, PolicyTypeOK, FilesOf
<1>4. ASSUME NEW f \in FileSystems, DiskChanges(f) PROVE PolicyInv'
  <2>1. disk' = f /\ changes' \in 0..MaxChanges /\ UNCHANGED <<engine, answers>>
    BY <1>4, PolicyAssumption DEF DiskChanges, PolicyTypeOK
  <2>2. Typed'
    BY <2>1 DEF engine, PolicyTypeOK, FilesOf
  <2>3. AnswersStand'
    BY <2>1 DEF engine, AnswersStand, Verdict
  <2>4. ReadSoFar'
    BY <2>1 DEF engine, ReadSoFar, Behind, Stated, Said
  <2> QED
    BY <2>2, <2>3, <2>4
<1>5. CASE UNCHANGED vars
  BY <1>5 DEF vars, engine, PolicyTypeOK, FilesOf, AnswersStand, Verdict, ReadSoFar,
              Behind, Stated, Said
<1> QED
  BY <1>1, <1>2, <1>3, <1>4, <1>5 DEF Next

\* The invariant holds in every reachable state.
LEMMA PolicyInvHolds == Spec => []PolicyInv
<1>1. Init => PolicyInv
  BY PolicyInvInit
<1>2. PolicyInv /\ [Next]_vars => PolicyInv'
  BY StepKeeps
<1> QED
  BY <1>1, <1>2, PTL DEF Spec

-----------------------------------------------------------------------------
\* The rules of evaluate are those of the lines that load_from_file read, each with
\* the file its path led to.
THEOREM PolicyTyped == Spec => []PolicyTypeOK
<1>1. PolicyInv => PolicyTypeOK
  BY DEF PolicyInv, Typed
<1> QED
  BY <1>1, PolicyInvHolds, PTL

\* evaluate lets no file through that a rule covers, by whatever links and plain ".."
\* it is named and however links change.
THEOREM NoAliasEscapesHolds == Spec => []NoAliasEscapes
<1>1. PolicyInv => NoAliasEscapes
  <2> SUFFICES ASSUME PolicyInv, NEW i \in DOMAIN answers,
                      answers[i].straight, answers[i].reason = "allowed"
               PROVE  answers[i].file # Missing /\ ~Forbidden(answers[i].file)
    BY DEF NoAliasEscapes
  <2> DEFINE file == answers[i].file
  <2>1. Verdict(file) = "allowed" /\ file \in Place
    BY DEF PolicyInv, AnswersStand
  <2>2. /\ file # Missing /\ file \notin exact
        /\ ~\E k \in DOMAIN prefixes : StartsWith(file, prefixes[k])
    BY <2>1 DEF Verdict
  <2>3. ASSUME NEW r \in rules, r.key = "deny_executable" PROVE file # r.taken
    BY <2>2, <2>3 DEF PolicyInv, Typed, PolicyTypeOK
  <2>4. ASSUME NEW r \in rules, r.key = "deny_prefix" PROVE ~Below(file, r.taken)
    <3>1. r.taken \in Range(prefixes) /\ r.taken \in Seq(STRING)
      BY <2>4 DEF PolicyInv, Typed, PolicyTypeOK
    <3>2. ~StartsWith(file, r.taken)
      BY <2>2, <3>1 DEF Range
    <3> QED
      BY <2>1, <2>2, <3>1, <3>2, BelowStartsWith DEF Place
  <2>5. \A r \in rules : r.straight => r.file = r.taken
    BY DEF PolicyInv, Typed
  <2> QED
    BY <2>2, <2>3, <2>4, <2>5 DEF Forbidden
<1> QED
  BY <1>1, PolicyInvHolds, PTL

\* evaluate gives one file one verdict, by whatever links and plain ".." it is named.
THEOREM OneVerdictPerFileHolds == Spec => []OneVerdictPerFile
<1>1. PolicyInv => OneVerdictPerFile
  BY DEF PolicyInv, AnswersStand, OneVerdictPerFile
<1> QED
  BY <1>1, PolicyInvHolds, PTL

\* load_from_file puts the policy that it reads in force as far as it could be read,
\* and not at all if one of the lines read is bad.
THEOREM NoHalfPolicyHolds == Spec => []NoHalfPolicy
<1>1. PolicyInv => NoHalfPolicy
  <2> SUFFICES ASSUME PolicyInv, phase = "serving"
               PROVE  (todo = <<>> \/ failed) /\ Stated = Said(Behind)
    BY Zenon DEF NoHalfPolicy, Stated, Said, Behind
  <2> QED
    BY DEF PolicyInv, ReadSoFar
<1> QED
  BY <1>1, PolicyInvHolds, PTL

=============================================================================
