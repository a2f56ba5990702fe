----------------------------- MODULE WebhookUrl -----------------------------
(***************************************************************************)
(* parse_webhook_url in src/alert_dispatcher.cpp.  A URL is a scheme, with *)
(* its "://", and the characters after it.                                 *)
(***************************************************************************)
EXTENDS Integers, Sequences, SequencesExt, FiniteSetsExt

CONSTANTS
  DigitValue,  (* the digits among the characters, and what they are worth *)
  Controls     (* CR, LF and NUL                                           *)

ASSUME UrlAssumption == DOMAIN DigitValue \cap {":", "/"} = {}

Text == Seq(STRING)

MaxPort == 65535

\* The characters before the first c, and from it on.
First(c, text) ==
  IF c \in Range(text) THEN Min({i \in DOMAIN text : text[i] = c}) ELSE Len(text) + 1
Before(c, text) == SubSeq(text, 1, First(c, text) - 1)
From(c, text) == SubSeq(text, First(c, text), Len(text))

\* std::stoul of a text of digits.
Value(digits) ==
  LET upTo[n \in 0..Len(digits)] ==
        IF n = 0 THEN 0 ELSE 10 * upTo[n - 1] + DigitValue[digits[n]]
  IN  upTo[Len(digits)]

PortOk_AnyNumber(port) ==
  port # <<>> /\ Range(port) \subseteq DOMAIN DigitValue

PortOk(port) ==
  /\ port # <<>> /\ Range(port) \subseteq DOMAIN DigitValue
  /\ Value(port) \in 1..MaxPort

NoControls(text) == Range(text) \cap Controls = {}

NotAUrl == [scheme |-> "none", host |-> <<>>, port |-> <<>>, path |-> <<>>]

\* An empty port stands for the one the scheme has by default.
ParseWebhookUrl(url) ==
  LET hostport == Before("/", url.rest)
      path == From("/", url.rest)
      host == Before(":", hostport)
      port == From(":", hostport)
  IN  IF /\ url.scheme \in {"http", "https"}
         /\ port = <<>> \/ PortOk(Tail(port))
         /\ host # <<>>
         /\ NoControls(host) /\ NoControls(path)
      THEN [scheme |-> url.scheme, host |-> host,
            port |-> IF port = <<>> THEN <<>> ELSE Tail(port),
            path |-> IF path = <<>> THEN <<"/">> ELSE path]
      ELSE NotAUrl

-----------------------------------------------------------------------------
(***************************************************************************)
(* What a webhook URL is, said without a parser: a host, perhaps a colon   *)
(* and a port, perhaps a slash and what follows.                           *)
(***************************************************************************)
IsReading(url, i, j) ==
  LET host == SubSeq(url.rest, 1, i)
      port == SubSeq(url.rest, i + 1, j)
      path == SubSeq(url.rest, j + 1, Len(url.rest))
  IN  /\ url.scheme \in {"http", "https"}
      /\ i <= j
      /\ host # <<>> /\ Range(host) \cap ({":", "/"} \cup Controls) = {}
      /\ \/ port = <<>>
         \/ /\ Len(port) > 1 /\ port[1] = ":"
            /\ Range(Tail(port)) \subseteq DOMAIN DigitValue
            /\ Value(Tail(port)) \in 1..MaxPort
      /\ \/ path = <<>>
         \/ path[1] = "/" /\ Range(path) \cap Controls = {}

\* Where the host ends, and where the port does.
Readings(url) ==
  {r \in (0..Len(url.rest)) \X (0..Len(url.rest)) : IsReading(url, r[1], r[2])}

=============================================================================
