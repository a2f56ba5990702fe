----------------------------- MODULE WebhookPost -----------------------------
(***************************************************************************)
(* One webhook post: send_webhook_request in src/alert_dispatcher.cpp with *)
(* the plain and the TLS exchange it chooses between, run by the worker of *)
(* the alert dispatcher against a peer that may be slow, may answer early, *)
(* may close or reset the connection, or may stop talking.                 *)
(*                                                                         *)
(* The request and the response travel in parts: what one send or one recv *)
(* moves.  The 5 second socket timeouts show as the two TimesOut actions.  *)
(* The socket, OpenSSL and the peer are modelled by what the code relies   *)
(* on.                                                                     *)
(***************************************************************************)
EXTENDS WebhookUrl

CONSTANTS
  Urls,         (* the webhook URLs explored: scheme and rest              *)
  RequestParts, (* parts the request takes to send                         *)
  SendBuffer,   (* parts the kernel takes that the peer has yet to read    *)
  StatusParts,  (* parts of the response that hold the status line         *)
  ResponseCap,  (* parts of the response that are kept (2048 bytes)        *)
  Endless,      (* the peer may go on sending for ever                     *)
  MaxParts      (* bound: parts a peer sends that is not endless           *)

ASSUME PostAssumption ==
  /\ \A u \in Urls : u.rest \in Text
  /\ {RequestParts, SendBuffer, StatusParts} \subseteq Nat \ {0}
  /\ ResponseCap \in Nat /\ ResponseCap >= StatusParts
  /\ Endless \in BOOLEAN
  /\ MaxParts \in Nat

VARIABLES
  url,     (* cfg_.webhook_url                                             *)
  pc,      (* where the worker is                                          *)
  held,    (* res, fd, ctx and ssl, while they are allocated               *)
  sent,    (* parts of the request written                                 *)
  got,     (* parts of the response kept                                   *)
  result,  (* what the call has returned: "none", "ok" or "failed"         *)
  alive,   (* the daemon has not been killed by a signal                   *)
  conn,    (* the connection: "none"; "open"; "closed" or "reset" by the   *)
           (* peer; "broken", once the reset has been reported as an error *)
  read,    (* parts of the request the peer has read                       *)
  reply,   (* the status the peer answers: "none", "2xx", "other"          *)
  inbox,   (* parts of the response that have arrived and are unread       *)
  left     (* parts of the response the peer may still send                *)

client == <<url, pc, held, sent, got, result, alive>>
peer == <<conn, read, reply, inbox, left>>
vars == <<client, peer>>

Tls == url.scheme = "https"

Init ==
  /\ url \in Urls
  /\ pc = "parse"
  /\ held = {}
  /\ sent = 0
  /\ got = 0
  /\ result = "none"
  /\ alive = TRUE
  /\ conn = "none"
  /\ read = 0
  /\ reply = "none"
  /\ inbox = 0
  /\ left = MaxParts

-----------------------------------------------------------------------------
(***************************************************************************)
(* Getting connected.  Each step fails or goes on to the next; a failure   *)
(* releases what its branch of the code releases and returns false.        *)
(***************************************************************************)
Goto(from, to) ==
  /\ pc = from
  /\ pc' = to
  /\ UNCHANGED <<url, sent, got, result, alive, read, reply, inbox, left>>

Fail(from, freed) ==
  /\ pc = from
  /\ pc' = "done"
  /\ held' = held \ freed
  /\ result' = "failed"
  /\ UNCHANGED <<url, sent, got, alive, read, reply, inbox, left>>

Parse ==
  \/ ParseWebhookUrl(url) = NotAUrl /\ Fail("parse", {}) /\ UNCHANGED conn
  \/ ParseWebhookUrl(url) # NotAUrl /\ Goto("parse", "resolve") /\ UNCHANGED <<held, conn>>

Resolve ==
  \/ Fail("resolve", {}) /\ UNCHANGED conn
  \/ Goto("resolve", "socket") /\ held' = held \cup {"res"} /\ UNCHANGED conn

OpenSocket ==
  \/ Fail("socket", {"res"}) /\ UNCHANGED conn
  \/ Goto("socket", "connect") /\ held' = held \cup {"fd"} /\ UNCHANGED conn

\* Refused, unreachable, or timed out; only the first address is tried.
Connect_LeaksAddress ==
  \/ Fail("connect", {"fd"}) /\ UNCHANGED conn
  \/ /\ Goto("connect", IF Tls THEN "context" ELSE "send")
     /\ held' = held \ {"res"}
     /\ conn' = "open"

Connect ==
  \/ Fail("connect", {"res", "fd"}) /\ UNCHANGED conn
  \/ /\ Goto("connect", IF Tls THEN "context" ELSE "send")
     /\ held' = held \ {"res"}
     /\ conn' = "open"

TlsContext ==
  \/ Fail("context", {"fd"}) /\ UNCHANGED conn
  \/ Goto("context", "trust") /\ held' = held \cup {"ctx"} /\ UNCHANGED conn

TrustStore ==
  \/ Fail("trust", {"ctx", "fd"}) /\ UNCHANGED conn
  \/ Goto("trust", "session") /\ UNCHANGED <<held, conn>>

TlsSession ==
  \/ Fail("session", {"ctx", "fd"}) /\ UNCHANGED conn
  \/ Goto("session", "handshake") /\ held' = held \cup {"ssl"} /\ UNCHANGED conn

\* A verified peer, or a failure of any kind.
Handshake ==
  \/ Fail("handshake", {"ssl", "ctx", "fd"}) /\ UNCHANGED conn
  \/ Goto("handshake", "send") /\ UNCHANGED <<held, conn>>

-----------------------------------------------------------------------------
(***************************************************************************)
(* Sending the request                                                     *)
(***************************************************************************)
\* A reset is an error to the first call that meets it.  A write after that, or
\* after a reset that follows the peer's close, raises SIGPIPE, which the
\* daemon neither handles nor ignores.  send passes MSG_NOSIGNAL; OpenSSL's
\* socket BIO, under SSL_write and SSL_shutdown, does not.
WriteSignals == conn = "broken" /\ Tls

Reported == conn' = IF conn = "reset" THEN "broken" ELSE conn

Killed ==
  /\ alive' = FALSE
  /\ pc' = "dead"
  /\ UNCHANGED <<url, held, sent, got, result, peer>>

SendPart ==
  /\ pc = "send"
  /\ sent < RequestParts
  /\ \/ conn = "open" /\ sent - read < SendBuffer
     \/ conn = "closed"
  /\ sent' = sent + 1
  /\ UNCHANGED <<url, pc, held, got, result, alive, peer>>

SendDone ==
  /\ pc = "send"
  /\ sent = RequestParts
  /\ pc' = "recv"
  /\ UNCHANGED <<url, held, sent, got, result, alive, peer>>

\* SO_SNDTIMEO, or an error: the loop is left and the response read anyway.
SendBreaks ==
  /\ pc = "send"
  /\ sent < RequestParts
  /\ \/ conn = "open" /\ sent - read >= SendBuffer
     \/ conn = "reset"
     \/ conn = "broken" /\ ~WriteSignals
  /\ pc' = "recv"
  /\ Reported
  /\ UNCHANGED <<url, held, sent, got, result, alive, read, reply, inbox, left>>

SendSignals ==
  /\ pc = "send"
  /\ sent < RequestParts
  /\ WriteSignals
  /\ Killed

-----------------------------------------------------------------------------
(***************************************************************************)
(* Reading the response, to the end of the stream                          *)
(***************************************************************************)
Kept_Unbounded == got + 1
Kept == IF got < ResponseCap THEN got + 1 ELSE got

RecvPart ==
  /\ pc = "recv"
  /\ inbox > 0
  /\ inbox' = inbox - 1
  /\ got' = Kept
  /\ UNCHANGED <<url, pc, held, sent, result, alive, conn, read, reply, left>>

\* The peer is silent for as long as SO_RCVTIMEO.
RecvTimesOut_Never == FALSE
RecvTimesOut == conn = "open"

RecvEnds ==
  /\ pc = "recv"
  /\ inbox = 0
  /\ RecvTimesOut \/ conn \in {"closed", "reset", "broken"}
  /\ pc' = "finish"
  /\ Reported
  /\ UNCHANGED <<url, held, sent, got, result, alive, read, reply, inbox, left>>

\* parse_http_status_code and the checks on what it returns.
Accepted_SentUnchecked == got >= StatusParts /\ reply = "2xx"
Accepted == sent = RequestParts /\ got >= StatusParts /\ reply = "2xx"

\* SSL_shutdown writes a close_notify, unless a record is stuck half written.
ShutdownSignals == WriteSignals /\ sent = RequestParts

Finish ==
  /\ pc = "finish"
  /\ ~ShutdownSignals
  /\ held' = held \ {"ssl", "ctx", "fd"}
  /\ result' = IF Accepted THEN "ok" ELSE "failed"
  /\ pc' = "done"
  /\ UNCHANGED <<url, sent, got, alive, peer>>

FinishSignals ==
  /\ pc = "finish"
  /\ ShutdownSignals
  /\ Killed

-----------------------------------------------------------------------------
(***************************************************************************)
(* The peer                                                                *)
(***************************************************************************)
PeerReads ==
  /\ conn = "open"
  /\ read < sent
  /\ read' = read + 1
  /\ UNCHANGED <<client, conn, reply, inbox, left>>

\* It may answer at any time, and say 2xx before it has read, or been sent, the whole
\* alert.
PeerReplies ==
  /\ conn = "open"
  /\ reply = "none"
  /\ reply' \in {"2xx", "other"}
  /\ UNCHANGED <<client, conn, read, inbox, left>>

PeerSends ==
  /\ conn = "open"
  /\ reply # "none"
  /\ inbox = 0
  /\ inbox' = 1
  /\ IF Endless THEN UNCHANGED left ELSE left > 0 /\ left' = left - 1
  /\ UNCHANGED <<client, conn, read, reply>>

\* Parts that have arrived can still be read after a close or a reset.
PeerCloses ==
  /\ conn = "open"
  /\ conn' = "closed"
  /\ UNCHANGED <<client, read, reply, inbox, left>>

PeerResets ==
  /\ \/ conn = "open" /\ conn' = "reset"
     \/ conn = "closed" /\ conn' = "broken"
  /\ UNCHANGED <<client, read, reply, inbox, left>>

-----------------------------------------------------------------------------
Connecting ==
  \/ Parse \/ Resolve \/ OpenSocket \/ Connect
  \/ TlsContext \/ TrustStore \/ TlsSession \/ Handshake

Exchange ==
  \/ SendPart \/ SendDone \/ SendBreaks \/ SendSignals
  \/ RecvPart \/ RecvEnds \/ Finish \/ FinishSignals

ClientStep == Connecting \/ Exchange

PeerStep == PeerReads \/ PeerReplies \/ PeerSends \/ PeerCloses \/ PeerResets

Returned == pc \in {"done", "dead"} /\ UNCHANGED vars

Next == ClientStep \/ PeerStep \/ Returned

Spec == Init /\ [][Next]_vars

\* The worker thread is scheduled, and a system call returns: its timeout, or
\* the resolver's own, sees to that.  The peer need not do anything.
FairSpec == Spec /\ WF_vars(ClientStep)

-----------------------------------------------------------------------------
(***************************************************************************)
(* Properties                                                              *)
(***************************************************************************)

\* Every part is counted within its limits, and no resource is touched before
\* it is allocated: a send or a recv has its socket, TLS its session.
PostTypeOK ==
  /\ url \in Urls
  /\ pc \in {"parse", "resolve", "socket", "connect", "context", "trust", "session",
             "handshake", "send", "recv", "finish", "done", "dead"}
  /\ held \subseteq {"res", "fd", "ctx", "ssl"}
  /\ sent \in 0..RequestParts /\ read \in 0..sent
  /\ got \in 0..ResponseCap
  /\ result \in {"none", "ok", "failed"}
  /\ alive \in BOOLEAN
  /\ conn \in {"none", "open", "closed", "reset", "broken"}
  /\ reply \in {"none", "2xx", "other"}
  /\ inbox \in 0..1
  /\ left \in 0..MaxParts
  /\ pc \in {"send", "recv", "finish"} =>
       held = IF Tls THEN {"fd", "ctx", "ssl"} ELSE {"fd"}

\* No way out of a post leaves a socket, an address list or TLS state behind:
\* the daemon posts for as long as it runs.
NothingLeaks == pc = "done" => held = {}

\* The worker connects exactly if the configured address is a URL, and to the host,
\* the port and the path that it writes: read in the one way there is to read it.
GoesWhereConfigured ==
  LET parsed == ParseWebhookUrl(url)
      Part(i, j) == SubSeq(url.rest, i, j)
  IN  /\ parsed = NotAUrl <=> Readings(url) = {}
      /\ conn # "none" => Cardinality(Readings(url)) = 1
      /\ \A r \in Readings(url) :
           /\ parsed.host = Part(1, r[1])
           /\ parsed.port = Part(r[1] + 2, r[2])
           /\ parsed.path = IF r[2] = Len(url.rest) THEN <<"/">>
                            ELSE Part(r[2] + 1, Len(url.rest))

\* A post reports success only when the peer said 2xx and the whole alert was
\* written to the connection, whatever a slow peer answers early: as long as the
\* peer has not closed, all of it is read but what the kernel still holds.  (That
\* the peer has read it to the end, nobody can know from here.)
SuccessIsEarned ==
  result = "ok" =>
    /\ reply = "2xx"
    /\ sent = RequestParts
    /\ conn = "open" => read + SendBuffer >= RequestParts

\* docs/ARCHITECTURE.md, line 114: "Delivery failures are logged to stderr; the
\* daemon runtime is never interrupted".
DaemonSurvives == alive

\* src/alert_dispatcher.cpp, line 178: "5-second timeouts prevent the worker
\* from blocking indefinitely".  A post returns, whatever the peer does.
PostReturns == <>(pc \in {"done", "dead"})

=============================================================================
