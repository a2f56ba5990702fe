------------------------------ MODULE JsonText ------------------------------
(***************************************************************************)
(* How a text travels in a JSON string: json_escape in                     *)
(* src/audit_logger.cpp and alert_json_escape in src/alert_dispatcher.cpp, *)
(* and the reader at the other end.  A text is a sequence of characters.   *)
(* Of the control characters there is one, and of the others the ones that *)
(* JSON treats alike are one; the four hexadecimal digits of an escape are *)
(* the character they stand for.                                           *)
(***************************************************************************)
EXTENDS Integers, Sequences

Backslash == "\\"
Quote == "\""
Control == "\\x01"
Delete == "\\x7f"

Text == Seq(STRING)

Escape_QuotesOnly(c) == IF c = Quote THEN <<Backslash, Quote>> ELSE <<c>>

Escape(c) ==
  CASE c \in {Control, Delete} -> <<Backslash, "u", c>>
    [] c \in {Backslash, Quote} -> <<Backslash, c>>
    [] OTHER -> <<c>>

\* The loop over the characters, the same in both functions.
Escaped(text) ==
  LET upTo[n \in 0..Len(text)] ==
        IF n = 0 THEN <<>> ELSE upTo[n - 1] \o Escape(text[n])
  IN  upTo[Len(text)]

JsonEscape(text) == Escaped(text)
AlertJsonEscape(text) == Escaped(text)

-----------------------------------------------------------------------------
\* The reader, one character on: the string goes on to the next quote, and has no
\* control character in it.
Reading(so_far, c) ==
  CASE so_far.at = "text" /\ c = Backslash -> [so_far EXCEPT !.at = "escape"]
    [] so_far.at = "text" /\ c \in {Quote, Control} -> [so_far EXCEPT !.at = "broken"]
    [] so_far.at = "text" /\ c \notin {Backslash, Quote, Control} ->
         [so_far EXCEPT !.text = Append(@, c)]
    [] so_far.at = "escape" /\ c = "u" -> [so_far EXCEPT !.at = "hex"]
    [] so_far.at = "escape" /\ c \in {Backslash, Quote} ->
         [at |-> "text", text |-> Append(so_far.text, c)]
    [] so_far.at = "hex" -> [at |-> "text", text |-> Append(so_far.text, c)]
    [] OTHER -> [so_far EXCEPT !.at = "broken"]

ReadBack(json) ==
  LET upTo[n \in 0..Len(json)] ==
        IF n = 0 THEN [at |-> "text", text |-> <<>>] ELSE Reading(upTo[n - 1], json[n])
  IN  upTo[Len(json)]

\* The reader gets to the end of the string and has this text.
ReadsAs(json, text) == ReadBack(json) = [at |-> "text", text |-> text]

=============================================================================
