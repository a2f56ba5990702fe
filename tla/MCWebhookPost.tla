--------------------------- MODULE MCWebhookPost ---------------------------
(***************************************************************************)
(* Webhook URLs for WebhookPost: every short one over characters that the  *)
(* parser tells apart, and some longer ones.                               *)
(***************************************************************************)
EXTENDS WebhookPost

Digits == [d \in {"0", "5", "6", "3"} |->
             CASE d = "0" -> 0 [] d = "5" -> 5 [] d = "6" -> 6 [] d = "3" -> 3]
ControlCharacters == {"\r"}

Url(scheme, rest) == [scheme |-> scheme, rest |-> rest]

Short == UNION {[1..n -> {"h", ":", "/", "0", "\r"}] : n \in 0..3}

Long ==
  {<<"h", ":", "6", "5", "5", "3", "5">>, <<"h", ":", "6", "5", "5", "3", "6", "/">>,
   <<"h", ":", "0", "0", "6", "/", "h">>, <<"h", "/", "h", ":", "0", "/">>,
   <<"h", ":", "6", "h">>, <<"h", ":", "6", ":", "6">>, <<":", ":", "6", "/">>}

AllUrls ==
  {Url(scheme, rest) : scheme \in {"http", "https"}, rest \in Short \cup Long}
  \cup {Url("ftp", <<"h">>)}

TlsUrl == {Url("https", <<"h">>)}
AnyUrl == {Url(scheme, <<"h">>) : scheme \in {"http", "https"}}

=============================================================================
