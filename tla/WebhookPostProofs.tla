-------------------------- MODULE WebhookPostProofs --------------------------
(***************************************************************************)
(* What is proved of a webhook post, for any URL, requests, responses and  *)
(* buffers of any size and a peer that may send for ever.                  *)
(***************************************************************************)
EXTENDS WebhookPost, DataInduction, SequenceTheorems, FiniteSetTheorems

\* What a post holds at each point of its way, in either scheme.
HeldAt(at) ==
  CASE at \in {"parse", "resolve", "done"} -> {}
    [] at = "socket" -> {"res"}
    [] at = "connect" -> {"res", "fd"}
    [] at = "context" -> {"fd"}
    [] at \in {"trust", "session"} -> {"ctx", "fd"}
    [] at = "handshake" -> {"fd", "ctx", "ssl"}
    [] at \in {"send", "recv", "finish"} -> IF Tls THEN {"fd", "ctx", "ssl"} ELSE {"fd"}
    [] OTHER -> held

\* TLS objects are made for TLS alone.
TlsOnly == pc \in {"context", "trust", "session", "handshake"} => Tls

\* While the connection is open, the kernel holds no more than its buffer; a result
\* is given at the end, and "ok" to a whole request that was answered 2xx.
InBuffer ==
  /\ conn = "open" => sent <= read + SendBuffer
  /\ pc \in {"parse", "resolve", "socket", "connect"} => sent = 0
ResultIsEarned ==
  /\ result = "ok" => reply = "2xx" /\ sent = RequestParts
  /\ result # "none" => pc = "done"

PostInv ==
  /\ PostTypeOK
  /\ held = HeldAt(pc)
  /\ TlsOnly
  /\ InBuffer
  /\ ResultIsEarned

\* Before the post nothing is held and nothing said.
LEMMA PostInvInit == Init => PostInv
BY PostAssumption DEF Init, PostInv, PostTypeOK, HeldAt, TlsOnly, InBuffer,
   ResultIsEarned

\* Every step of the setup holds what its successor expects, or frees all.
LEMMA ConnectingKeeps == PostInv /\ Connecting => PostInv'
<1> SUFFICES ASSUME PostInv, Connecting PROVE PostInv'
  OBVIOUS
<1> USE DEF PostInv, PostTypeOK, HeldAt, TlsOnly, InBuffer, ResultIsEarned, Tls, Goto, Fail
<1>1. CASE Parse
  BY <1>1 DEF Parse
<1>2. CASE Resolve
  BY <1>2 DEF Resolve
<1>3. CASE OpenSocket
  BY <1>3 DEF OpenSocket
<1>4. CASE Connect
  BY <1>4, PostAssumption DEF Connect
<1>5. CASE TlsContext
  BY <1>5 DEF TlsContext
<1>6. CASE TrustStore
  BY <1>6 DEF TrustStore
<1>7. CASE TlsSession
  BY <1>7 DEF TlsSession
<1>8. CASE Handshake
  BY <1>8 DEF Handshake
<1> QED
  BY <1>1, <1>2, <1>3, <1>4, <1>5, <1>6, <1>7, <1>8 DEF Connecting

\* So does every step of the exchange; a result is only given at its end.
LEMMA ExchangeKeeps == PostInv /\ Exchange => PostInv'
<1> SUFFICES ASSUME PostInv, Exchange PROVE PostInv'
  OBVIOUS
<1> USE PostAssumption DEF PostInv, PostTypeOK, HeldAt, TlsOnly, InBuffer, ResultIsEarned, Tls
<1>1. CASE SendPart
  BY <1>1 DEF SendPart, peer
<1>2. CASE SendDone
  BY <1>2 DEF SendDone, peer
<1>3. CASE SendBreaks
  BY <1>3 DEF SendBreaks, Reported
<1>4. CASE SendSignals
  BY <1>4 DEF SendSignals, Killed, peer
<1>5. CASE RecvPart
  BY <1>5 DEF RecvPart, Kept
<1>6. CASE RecvEnds
  BY <1>6 DEF RecvEnds, Reported
<1>7. CASE Finish
  BY <1>7 DEF Finish, Accepted, peer
<1>8. CASE FinishSignals
  BY <1>8 DEF FinishSignals, Killed, peer
<1> QED
  BY <1>1, <1>2, <1>3, <1>4, <1>5, <1>6, <1>7, <1>8 DEF Exchange

\* What the peer does takes nothing back.
LEMMA PeerKeeps == PostInv /\ PeerStep => PostInv'
<1> SUFFICES ASSUME PostInv, PeerStep PROVE PostInv'
  OBVIOUS
<1> USE PostAssumption DEF PostInv, PostTypeOK, HeldAt, TlsOnly, InBuffer, ResultIsEarned,
        Tls, client
<1>1. CASE PeerReads
  BY <1>1 DEF PeerReads
<1>2. CASE PeerReplies
  BY <1>2 DEF PeerReplies
<1>3. CASE PeerSends
  BY <1>3 DEF PeerSends
<1>4. CASE PeerCloses
  BY <1>4 DEF PeerCloses
<1>5. CASE PeerResets
  BY <1>5 DEF PeerResets
<1> QED
  BY <1>1, <1>2, <1>3, <1>4, <1>5 DEF PeerStep

\* No step breaks the invariant.
LEMMA PostInvStep == PostInv /\ [Next]_vars => PostInv'
<1> SUFFICES ASSUME PostInv, [Next]_vars PROVE PostInv'
  OBVIOUS
<1>1. CASE ClientStep
  BY <1>1, ConnectingKeeps, ExchangeKeeps DEF ClientStep
<1>2. CASE PeerStep
  BY <1>2, PeerKeeps
<1>3. CASE UNCHANGED vars
  BY <1>3 DEF PostInv, PostTypeOK, HeldAt, TlsOnly, InBuffer, ResultIsEarned, Tls,
     vars, client, peer
<1> QED
  BY <1>1, <1>2, <1>3 DEF Next, Returned

\* The invariant holds in every reachable state.
LEMMA PostInvHolds == Spec => []PostInv
BY PostInvInit, PostInvStep, PTL DEF Spec

-----------------------------------------------------------------------------
(***************************************************************************)
(* The URL: parse_webhook_url reads it in the one way there is             *)
(***************************************************************************)
\* First finds the first.
LEMMA FirstFound ==
  ASSUME NEW S, NEW text \in Seq(S), NEW c
  PROVE  /\ First(c, text) \in 1..(Len(text) + 1)
         /\ \A i \in 1..(First(c, text) - 1) : text[i] # c
         /\ First(c, text) <= Len(text) => text[First(c, text)] = c
<1> DEFINE places == {i \in DOMAIN text : text[i] = c}
<1>1. Len(text) \in Nat /\ DOMAIN text = 1..Len(text)
  BY LenProperties
<1>2. CASE c \in Range(text)
  <2>1. places # {} /\ places \subseteq Nat
    BY <1>1, <1>2 DEF Range
  <2>2. First(c, text) = CHOOSE x \in places : \A y \in places : x <= y
    BY <1>2 DEF First, Min
  <2>3. \E x \in places : \A y \in places : x <= y
    <3> HIDE DEF places
    <3> QED
      BY <2>1, LeastNat
  <2>4. First(c, text) \in places /\ \A y \in places : First(c, text) <= y
    <3> HIDE DEF places
    <3> QED
      BY <2>2, <2>3
  <2> QED
    BY <1>1, <2>4
<1>3. CASE c \notin Range(text)
  <2>1. First(c, text) = Len(text) + 1 /\ \A i \in DOMAIN text : text[i] # c
    BY <1>3 DEF First, Range
  <2> QED
    BY <1>1, <2>1
<1> QED
  BY <1>2, <1>3

\* A part of a text.
IsPart(part, text, i, j) ==
  /\ Len(part) = IF i <= j THEN j - i + 1 ELSE 0
  /\ \A k \in 1..(j - i + 1) : part[k] = text[i + k - 1]
  /\ Range(part) = {text[k] : k \in i..j}
  /\ part = <<>> <=> j < i

\* SubSeq gives one.
LEMMA PartOf ==
  ASSUME NEW S, NEW text \in Seq(S), NEW i \in 1..(Len(text) + 1), NEW j \in 0..Len(text)
  PROVE  SubSeq(text, i, j) \in Seq(S) /\ IsPart(SubSeq(text, i, j), text, i, j)
<1> DEFINE part == SubSeq(text, i, j)
<1>1. Len(text) \in Nat
  OBVIOUS
<1>2. /\ part \in Seq(S)
      /\ Len(part) = IF i <= j THEN j - i + 1 ELSE 0
      /\ \A k \in 1..(j - i + 1) : part[k] = text[i + k - 1]
  BY <1>1, SubSeqProperties
<1> HIDE DEF part
<1>3. part = <<>> <=> j < i
  BY <1>2
<1>4. Range(part) = {text[k] : k \in i..j}
  <2>1. DOMAIN part = 1..(j - i + 1)
    BY <1>1, <1>2, LenProperties
  <2>2. ASSUME NEW k \in i..j PROVE text[k] \in Range(part)
    <3>1. k - i + 1 \in DOMAIN part /\ part[k - i + 1] = text[k]
      BY <1>2, <2>1
    <3> QED
      BY <3>1 DEF Range
  <2>3. ASSUME NEW k \in DOMAIN part PROVE part[k] \in {text[l] : l \in i..j}
    <3>1. i + k - 1 \in i..j /\ part[k] = text[i + k - 1]
      BY <1>1, <1>2, <2>1
    <3> QED
      BY <3>1
  <2> QED
    BY <2>2, <2>3 DEF Range
<1> QED
  BY <1>2, <1>3, <1>4 DEF part, IsPart

\* A part of a beginning is a part of the text.
LEMMA PartOfBeginning ==
  ASSUME NEW S, NEW text \in Seq(S), NEW m \in 0..Len(text),
         NEW j \in 0..m, NEW i \in 1..(m + 1)
  PROVE  SubSeq(SubSeq(text, 1, m), i, j) = SubSeq(text, i, j)
<1> DEFINE beginning == SubSeq(text, 1, m)
           inner == SubSeq(beginning, i, j)
           part == SubSeq(text, i, j)
<1>1. Len(text) \in Nat
  OBVIOUS
<1>2. /\ beginning \in Seq(S) /\ Len(beginning) = m
      /\ \A k \in 1..m : beginning[k] = text[k]
  BY <1>1, PartOf DEF IsPart
<1> HIDE DEF beginning
<1>3. i \in 1..(Len(beginning) + 1) /\ j \in 0..Len(beginning)
  BY <1>1, <1>2
<1>4. /\ inner \in Seq(S) /\ Len(inner) = IF i <= j THEN j - i + 1 ELSE 0
      /\ \A k \in 1..(j - i + 1) : inner[k] = beginning[i + k - 1]
  BY <1>2, <1>3, PartOf DEF IsPart
<1>5. /\ part \in Seq(S) /\ Len(part) = IF i <= j THEN j - i + 1 ELSE 0
      /\ \A k \in 1..(j - i + 1) : part[k] = text[i + k - 1]
  <2>1. i \in 1..(Len(text) + 1) /\ j \in 0..Len(text)
    BY <1>1
  <2> QED
    BY <2>1, PartOf DEF IsPart
<1> HIDE DEF inner, part
<1>6. \A k \in 1..(j - i + 1) : i + k - 1 \in 1..m
  BY <1>1
<1>7. \A k \in 1..Len(inner) : inner[k] = part[k]
  <2> TAKE k \in 1..Len(inner)
  <2>1. k \in 1..(j - i + 1)
    BY <1>1, <1>4
  <2>2. i + k - 1 \in 1..m
    BY <1>6, <2>1
  <2>3. inner[k] = beginning[i + k - 1] /\ part[k] = text[i + k - 1]
    BY <1>4, <1>5, <2>1
  <2> QED
    BY <1>2, <2>2, <2>3
<1> QED
  BY <1>4, <1>5, <1>7, SeqEqual DEF inner, part, beginning

\* A part without its first character.
LEMMA TailOfPart ==
  ASSUME NEW S, NEW text \in Seq(S), NEW j \in 1..Len(text), NEW i \in 1..j
  PROVE  Tail(SubSeq(text, i, j)) = SubSeq(text, i + 1, j)
<1> DEFINE part == SubSeq(text, i, j)
           rest == SubSeq(text, i + 1, j)
<1>1. Len(text) \in Nat
  OBVIOUS
<1>2. /\ part \in Seq(S) /\ Len(part) = j - i + 1 /\ part # <<>>
      /\ \A k \in 1..(j - i + 1) : part[k] = text[i + k - 1]
  <2>1. i \in 1..(Len(text) + 1) /\ j \in 0..Len(text)
    BY <1>1
  <2>2. /\ part \in Seq(S)
        /\ Len(part) = IF i <= j THEN j - i + 1 ELSE 0
        /\ \A k \in 1..(j - i + 1) : part[k] = text[i + k - 1]
        /\ part = <<>> <=> j < i
    BY <2>1, PartOf DEF IsPart
  <2> HIDE DEF part
  <2> QED
    BY <1>1, <2>2
<1>3. /\ rest \in Seq(S) /\ Len(rest) = j - i
      /\ \A k \in 1..(j - i) : rest[k] = text[i + k]
  <2>1. i + 1 \in 1..(Len(text) + 1) /\ j \in 0..Len(text)
    BY <1>1
  <2>2. /\ rest \in Seq(S) /\ Len(rest) = IF i + 1 <= j THEN j - (i + 1) + 1 ELSE 0
        /\ \A k \in 1..(j - (i + 1) + 1) : rest[k] = text[i + 1 + k - 1]
    BY <2>1, PartOf DEF IsPart
  <2> HIDE DEF rest
  <2> QED
    BY <1>1, <2>2
<1> HIDE DEF part, rest
<1>4. /\ Tail(part) \in Seq(S) /\ Len(Tail(part)) = j - i
      /\ \A k \in 1..(j - i) : Tail(part)[k] = part[k + 1]
  BY <1>2
<1>5. \A k \in 1..Len(rest) : rest[k] = Tail(part)[k]
  BY <1>1, <1>2, <1>3, <1>4
<1> QED
  BY <1>3, <1>4, <1>5, SeqEqual DEF part, rest

\* Where the parser ends the port, and where the host.
PortEnd(u) == First("/", u.rest) - 1
HostEnd(u) == First(":", Before("/", u.rest)) - 1

IsCut(rest, c, e) ==
  /\ e \in 0..Len(rest) /\ c \in 0..e
  /\ \A k \in 1..e : rest[k] # "/"
  /\ e < Len(rest) => rest[e + 1] = "/"
  /\ \A k \in 1..c : rest[k] # ":"
  /\ c < e => rest[c + 1] = ":"
  /\ Before("/", rest) = SubSeq(rest, 1, e)
  /\ From("/", rest) = SubSeq(rest, e + 1, Len(rest))
  /\ Before(":", Before("/", rest)) = SubSeq(rest, 1, c)
  /\ From(":", Before("/", rest)) = SubSeq(rest, c + 1, e)

\* The parser's cuts, and what is around them.
LEMMA Cuts ==
  ASSUME NEW S, NEW u, u.rest \in Seq(S), NEW rest, rest = u.rest,
         NEW c, c = HostEnd(u), NEW e, e = PortEnd(u)
  PROVE  IsCut(rest, c, e)
<1>1. rest \in Seq(S) /\ Len(rest) \in Nat
  OBVIOUS
<1>2. /\ e \in 0..Len(rest) /\ First("/", rest) = e + 1
      /\ \A k \in 1..e : rest[k] # "/"
      /\ e < Len(rest) => rest[e + 1] = "/"
  <2>1. /\ First("/", rest) \in 1..(Len(rest) + 1)
        /\ \A i \in 1..(First("/", rest) - 1) : rest[i] # "/"
        /\ First("/", rest) <= Len(rest) => rest[First("/", rest)] = "/"
    BY <1>1, FirstFound
  <2>2. e = First("/", rest) - 1
    BY DEF PortEnd
  <2> HIDE DEF PortEnd
  <2> QED
    BY <1>1, <2>1, <2>2
<1> DEFINE hostport == Before("/", rest)
<1>3. hostport = SubSeq(rest, 1, e) /\ From("/", rest) = SubSeq(rest, e + 1, Len(rest))
  <2>1. First("/", rest) - 1 = e
    BY <1>2
  <2> QED
    BY <1>2, <2>1, Zenon DEF Before, From
<1>4. /\ hostport \in Seq(S) /\ Len(hostport) = e
      /\ \A k \in 1..e : hostport[k] = rest[k]
  <2>1. 1 \in 1..(Len(rest) + 1)
    BY <1>1
  <2>2. /\ SubSeq(rest, 1, e) \in Seq(S)
        /\ Len(SubSeq(rest, 1, e)) = IF 1 <= e THEN e - 1 + 1 ELSE 0
        /\ \A k \in 1..(e - 1 + 1) : SubSeq(rest, 1, e)[k] = rest[1 + k - 1]
    BY <1>1, <1>2, <2>1, PartOf DEF IsPart
  <2> HIDE DEF hostport
  <2> QED
    BY <1>1, <1>2, <1>3, <2>2
<1>5. /\ c \in 0..e /\ First(":", hostport) = c + 1
      /\ \A k \in 1..c : hostport[k] # ":"
      /\ c < e => hostport[c + 1] = ":"
  <2>1. c = First(":", hostport) - 1
    BY DEF HostEnd
  <2> HIDE DEF hostport
  <2>2. /\ First(":", hostport) \in 1..(Len(hostport) + 1)
        /\ \A i \in 1..(First(":", hostport) - 1) : hostport[i] # ":"
        /\ First(":", hostport) <= Len(hostport) => hostport[First(":", hostport)] = ":"
    BY <1>4, FirstFound
  <2> QED
    BY <1>1, <1>2, <1>4, <2>1, <2>2
<1>6. /\ Before(":", hostport) = SubSeq(hostport, 1, c)
      /\ From(":", hostport) = SubSeq(hostport, c + 1, e)
  <2> HIDE DEF hostport
  <2>1. First(":", hostport) - 1 = c /\ First(":", hostport) = c + 1 /\ Len(hostport) = e
    BY <1>2, <1>4, <1>5
  <2> QED
    BY <2>1, Zenon DEF Before, From
<1>7. /\ SubSeq(hostport, 1, c) = SubSeq(rest, 1, c)
      /\ SubSeq(hostport, c + 1, e) = SubSeq(rest, c + 1, e)
  <2>1. /\ c \in 0..e /\ e \in 0..e /\ 1 \in 1..(e + 1) /\ c + 1 \in 1..(e + 1)
    BY <1>1, <1>2, <1>5
  <2>2. \A i \in 1..(e + 1), j \in 0..e :
          SubSeq(SubSeq(rest, 1, e), i, j) = SubSeq(rest, i, j)
    BY <1>1, <1>2, PartOfBeginning
  <2>3. /\ SubSeq(SubSeq(rest, 1, e), 1, c) = SubSeq(rest, 1, c)
        /\ SubSeq(SubSeq(rest, 1, e), c + 1, e) = SubSeq(rest, c + 1, e)
    BY <2>1, <2>2, Zenon
  <2> HIDE DEF hostport
  <2> QED
    BY <1>3, <2>3
<1>8. /\ \A k \in 1..c : rest[k] # ":"
      /\ c < e => rest[c + 1] = ":"
  <2>1. (\A k \in 1..c : k \in 1..e) /\ (c < e => c + 1 \in 1..e)
    BY <1>1, <1>2, <1>5
  <2> HIDE DEF hostport
  <2> QED
    BY <1>4, <1>5, <2>1
<1> QED
  <2>1. /\ Before(":", hostport) = SubSeq(rest, 1, c)
        /\ From(":", hostport) = SubSeq(rest, c + 1, e)
    BY <1>6, <1>7, Zenon
  <2> QED
    BY <1>2, <1>3, <1>5, <1>8, <2>1, Zenon DEF IsCut

\* What parsing gives when the host ends at c and the port at e.
ReadAt(u, parsed, c, e) ==
  /\ parsed # NotAUrl <=> IsReading(u, c, e)
  /\ parsed # NotAUrl =>
       /\ parsed.host = SubSeq(u.rest, 1, c)
       /\ parsed.port = SubSeq(u.rest, c + 2, e)
       /\ parsed.path = IF e = Len(u.rest) THEN <<"/">>
                        ELSE SubSeq(u.rest, e + 1, Len(u.rest))

\* The parser takes what is a URL when it is cut there, and returns the parts.
LEMMA ParsedAtCuts ==
  ASSUME NEW S, NEW u, u.rest \in Seq(S), NEW c, NEW e, IsCut(u.rest, c, e)
  PROVE  ReadAt(u, ParseWebhookUrl(u), c, e)
<1> SUFFICES ASSUME NEW rest, rest = u.rest
             PROVE  ReadAt(u, ParseWebhookUrl(u), c, e)
  OBVIOUS
<1> DEFINE host == SubSeq(rest, 1, c)
           port == SubSeq(rest, c + 1, e)
           path == SubSeq(rest, e + 1, Len(rest))
           Good == /\ u.scheme \in {"http", "https"}
                   /\ port = <<>> \/ PortOk(Tail(port))
                   /\ host # <<>>
                   /\ NoControls(host) /\ NoControls(path)
           parts == [scheme |-> u.scheme, host |-> host,
                     port |-> IF port = <<>> THEN <<>> ELSE Tail(port),
                     path |-> IF path = <<>> THEN <<"/">> ELSE path]
<1>1. rest \in Seq(S) /\ Len(rest) \in Nat
  OBVIOUS
<1>2. /\ e \in 0..Len(rest) /\ c \in 0..e
      /\ \A k \in 1..e : rest[k] # "/"
      /\ e < Len(rest) => rest[e + 1] = "/"
      /\ \A k \in 1..c : rest[k] # ":"
      /\ c < e => rest[c + 1] = ":"
      /\ Before("/", rest) = SubSeq(rest, 1, e)
      /\ From("/", rest) = path
      /\ Before(":", Before("/", rest)) = host
      /\ From(":", Before("/", rest)) = port
  BY Zenon DEF IsCut
<1>3. ParseWebhookUrl(u) = IF Good THEN parts ELSE NotAUrl
  <2> HIDE DEF host, port, path
  <2> QED
    BY <1>2, Zenon DEF ParseWebhookUrl
<1>4. /\ Range(host) = {rest[k] : k \in 1..c}
      /\ Len(host) = c
  <2>1. 1 \in 1..(Len(rest) + 1) /\ c \in 0..Len(rest)
    BY <1>1, <1>2
  <2>2. IsPart(host, rest, 1, c)
    BY <1>1, <2>1, PartOf
  <2> HIDE DEF host
  <2> QED
    BY <1>1, <1>2, <2>2 DEF IsPart
<1>5. /\ port = <<>> <=> c = e
      /\ c < e => /\ port[1] = ":" /\ Tail(port) = SubSeq(rest, c + 2, e)
                  /\ Len(port) = e - c /\ (Tail(port) = <<>> <=> e = c + 1)
      /\ SubSeq(rest, c + 2, e) = <<>> <=> e <= c + 1
  <2>1. c + 1 \in 1..(Len(rest) + 1) /\ e \in 0..Len(rest)
    BY <1>1, <1>2
  <2>2. /\ Len(port) = IF c + 1 <= e THEN e - (c + 1) + 1 ELSE 0
        /\ \A k \in 1..(e - (c + 1) + 1) : port[k] = rest[(c + 1) + k - 1]
        /\ port = <<>> <=> e < c + 1
    <3>1. IsPart(port, rest, c + 1, e)
      BY <1>1, <2>1, PartOf
    <3> QED
      BY <3>1, Zenon DEF IsPart
  <2>3. SubSeq(rest, c + 2, e) = <<>> <=> e < c + 2
    <3> HIDE DEF host, port, path, Good, parts
    <3>1. CASE c < Len(rest)
      <4>1. c + 2 \in 1..(Len(rest) + 1)
        BY <1>1, <1>2, <3>1
      <4> QED
        BY <1>1, <2>1, <4>1, PartOf DEF IsPart
    <3>2. CASE c = Len(rest)
      <4>1. e < c + 2
        BY <1>1, <1>2, <3>2
      <4>2. SubSeq(rest, c + 2, e) = <<>>
        BY <1>1, <1>2, <4>1, SubSeqEmpty
      <4> QED
        BY <4>1, <4>2
    <3> QED
      BY <1>1, <1>2, <3>1, <3>2
  <2>4. ASSUME c < e PROVE Tail(port) = SubSeq(rest, c + 2, e)
    <3>1. e \in 1..Len(rest) /\ c + 1 \in 1..e /\ (c + 1) + 1 = c + 2
      <4> HIDE DEF host, port, path, Good, parts
      <4> QED
        BY <1>1, <1>2, <2>4
    <3>2. Tail(SubSeq(rest, c + 1, e)) = SubSeq(rest, (c + 1) + 1, e)
      BY <1>1, <3>1, TailOfPart
    <3> QED
      BY <3>1, <3>2
  <2>5. ASSUME c < e PROVE port[1] = ":"
    <3>1. 1 \in 1..(e - (c + 1) + 1) /\ (c + 1) + 1 - 1 = c + 1
      BY <1>1, <1>2, <2>5
    <3> HIDE DEF port
    <3> QED
      BY <1>2, <2>2, <2>5, <3>1
  <2> HIDE DEF port
  <2>6. c \in Nat /\ e \in Nat /\ c <= e
    BY <1>1, <1>2
  <2>7. port = <<>> <=> c = e
    BY <2>2, <2>6
  <2>8. c < e => Len(port) = e - c
    BY <2>2, <2>6
  <2>9. SubSeq(rest, c + 2, e) = <<>> <=> e <= c + 1
    BY <2>3, <2>6
  <2>10. c < e => (Tail(port) = <<>> <=> e = c + 1)
    <3>1. c < e => (e <= c + 1 <=> e = c + 1)
      BY <2>6
    <3> QED
      BY <2>4, <2>9, <3>1, Zenon
  <2> QED
    BY <2>4, <2>5, <2>7, <2>8, <2>9, <2>10
<1>6. /\ path = <<>> <=> e = Len(rest)
      /\ e < Len(rest) => path[1] = "/"
      /\ path = <<>> => Range(path) = {}
  <2>1. e + 1 \in 1..(Len(rest) + 1) /\ Len(rest) \in 0..Len(rest)
    BY <1>1, <1>2
  <2>2. /\ \A k \in 1..(Len(rest) - (e + 1) + 1) : path[k] = rest[(e + 1) + k - 1]
        /\ path = <<>> <=> Len(rest) < e + 1
    <3>1. IsPart(path, rest, e + 1, Len(rest))
      BY <1>1, <2>1, PartOf
    <3> QED
      BY <3>1, Zenon DEF IsPart
  <2> HIDE DEF path
  <2>3. ASSUME e < Len(rest) PROVE path[1] = "/"
    <3>1. 1 \in 1..(Len(rest) - (e + 1) + 1) /\ (e + 1) + 1 - 1 = e + 1
      BY <1>1, <1>2, <2>3
    <3> QED
      BY <1>2, <2>2, <2>3, <3>1
  <2>4. Range(<<>>) = {}
    BY DEF Range
  <2> QED
    BY <1>1, <1>2, <2>2, <2>3, <2>4
<1>7. Range(host) \cap {":", "/"} = {}
  <2> HIDE DEF host
  <2>1. \A k \in 1..c : rest[k] # "/" /\ rest[k] # ":"
    BY <1>1, <1>2
  <2> QED
    BY <1>4, <2>1
<1>8. c \in Nat /\ e \in Nat /\ c <= e
  BY <1>1, <1>2
<1> HIDE DEF host, port, path
<1>9. Good <=> IsReading(u, c, e)
  <2>1. IsReading(u, c, e) <=>
          /\ u.scheme \in {"http", "https"}
          /\ c <= e
          /\ host # <<>> /\ Range(host) \cap ({":", "/"} \cup Controls) = {}
          /\ \/ port = <<>>
             \/ /\ Len(port) > 1 /\ port[1] = ":"
                /\ Range(Tail(port)) \subseteq DOMAIN DigitValue
                /\ Value(Tail(port)) \in 1..MaxPort
          /\ \/ path = <<>>
             \/ path[1] = "/" /\ Range(path) \cap Controls = {}
    BY Zenon DEF IsReading, host, port, path
  <2>2. NoControls(host) <=> Range(host) \cap ({":", "/"} \cup Controls) = {}
    BY <1>7 DEF NoControls
  <2>3. NoControls(path) <=> path = <<>> \/ (path[1] = "/" /\ Range(path) \cap Controls = {})
    <3>1. path # <<>> => e < Len(rest)
      BY <1>1, <1>2, <1>6
    <3> QED
      BY <1>6, <3>1 DEF NoControls
  <2>4. (port = <<>> \/ PortOk(Tail(port))) <=>
          \/ port = <<>>
          \/ /\ Len(port) > 1 /\ port[1] = ":"
             /\ Range(Tail(port)) \subseteq DOMAIN DigitValue
             /\ Value(Tail(port)) \in 1..MaxPort
    <3>1. CASE port = <<>>
      BY <3>1
    <3>2. CASE port # <<>>
      <4>1. c < e
        BY <1>5, <1>8, <3>2
      <4>2. Tail(port) # <<>> <=> Len(port) > 1
        BY <1>5, <1>8, <4>1
      <4>3. port[1] = ":"
        BY <1>5, <4>1
      <4> QED
        BY <3>2, <4>2, <4>3, Zenon DEF PortOk
    <3> QED
      BY <3>1, <3>2
  <2> QED
    BY <1>8, <2>1, <2>2, <2>3, <2>4, Zenon
<1>10. Good => parts # NotAUrl
  <2> SUFFICES ASSUME Good, parts = NotAUrl PROVE FALSE
    OBVIOUS
  <2>1. parts.scheme = u.scheme /\ NotAUrl.scheme = "none"
    BY DEF NotAUrl
  <2> QED
    BY <2>1
<1>11. /\ parts.host = SubSeq(rest, 1, c)
       /\ parts.port = SubSeq(rest, c + 2, e)
       /\ parts.path = IF e = Len(rest) THEN <<"/">> ELSE SubSeq(rest, e + 1, Len(rest))
  <2>1. parts.port = SubSeq(rest, c + 2, e)
    <3>1. CASE c = e
      <4>1. SubSeq(rest, c + 2, e) = <<>> /\ port = <<>>
        BY <1>5, <1>8, <3>1
      <4> QED
        BY <4>1
    <3>2. CASE c < e
      BY <1>5, <1>8, <3>2
    <3> QED
      BY <1>8, <3>1, <3>2
  <2> QED
    BY <1>6, <2>1 DEF host, path
<1> HIDE DEF Good, parts
<1> QED
  BY <1>3, <1>9, <1>10, <1>11, Zenon DEF ReadAt

\* There is no other place to cut.
LEMMA CutsAreTheOnly ==
  ASSUME NEW S, NEW u, u.rest \in Seq(S), NEW i \in 0..Len(u.rest),
         NEW j \in 0..Len(u.rest), IsReading(u, i, j)
  PROVE  i = HostEnd(u) /\ j = PortEnd(u)
<1> DEFINE rest == u.rest
           c == HostEnd(u)
           e == PortEnd(u)
<1>1. rest \in Seq(S) /\ Len(rest) \in Nat
  OBVIOUS
<1>2. /\ e \in 0..Len(rest) /\ c \in 0..e
      /\ \A k \in 1..e : rest[k] # "/"
      /\ e < Len(rest) => rest[e + 1] = "/"
      /\ \A k \in 1..c : rest[k] # ":"
      /\ c < e => rest[c + 1] = ":"
  <2>1. IsCut(rest, c, e)
    BY Cuts
  <2> QED
    BY <2>1, Zenon DEF IsCut
<1> HIDE DEF c, e
<1> DEFINE host == SubSeq(rest, 1, i)
           port == SubSeq(rest, i + 1, j)
           path == SubSeq(rest, j + 1, Len(rest))
<1>3. /\ i <= j
      /\ Range(host) \cap ({":", "/"} \cup Controls) = {}
      /\ port = <<>> \/ (port[1] = ":" /\ Range(Tail(port)) \subseteq DOMAIN DigitValue)
      /\ path = <<>> \/ path[1] = "/"
  BY Zenon DEF IsReading
<1> HIDE DEF rest
<1>4. i \in 0..Len(rest) /\ j \in 0..Len(rest)
  BY DEF rest
<1>5. \A k \in 1..i : rest[k] # ":" /\ rest[k] # "/"
  <2>1. 1 \in 1..(Len(rest) + 1)
    BY <1>1
  <2>2. Range(host) = {rest[k] : k \in 1..i}
    BY <1>1, <1>4, <2>1, PartOf DEF IsPart
  <2> HIDE DEF host
  <2> QED
    BY <1>3, <2>2
<1>6. i < j => rest[i + 1] = ":" /\ \A k \in (i + 1)..j : rest[k] # "/"
  <2> SUFFICES ASSUME i < j PROVE rest[i + 1] = ":" /\ \A k \in (i + 1)..j : rest[k] # "/"
    OBVIOUS
  <2>1. i + 1 \in 1..(Len(rest) + 1) /\ i + 1 <= j
    BY <1>1, <1>4
  <2>2. /\ \A k \in 1..(j - (i + 1) + 1) : port[k] = rest[(i + 1) + k - 1]
        /\ port = <<>> <=> j < i + 1
    BY <1>1, <1>4, <2>1, PartOf DEF IsPart
  <2>3. j \in 1..Len(rest) /\ i + 1 \in 1..j /\ (i + 1) + 1 = i + 2
    BY <1>1, <1>4
  <2>4. Tail(port) = SubSeq(rest, (i + 1) + 1, j)
    BY <1>1, <2>3, TailOfPart
  <2>5. Tail(port) = SubSeq(rest, i + 2, j)
    BY <2>3, <2>4
  <2>6. \A k \in (i + 2)..j : rest[k] \in Range(Tail(port))
    <3>1. i + 2 \in 1..(Len(rest) + 1)
      BY <1>1, <1>4
    <3>2. Range(SubSeq(rest, i + 2, j)) = {rest[k] : k \in (i + 2)..j}
      BY <1>1, <1>4, <3>1, PartOf DEF IsPart
    <3> HIDE DEF port
    <3> QED
      BY <2>5, <3>2
  <2> HIDE DEF port
  <2>7. port[1] = ":" /\ Range(Tail(port)) \subseteq DOMAIN DigitValue
    <3>1. port # <<>>
      BY <1>4, <2>1, <2>2
    <3> QED
      BY <1>3, <3>1
  <2>8. rest[i + 1] = ":"
    <3>1. 1 \in 1..(j - (i + 1) + 1) /\ (i + 1) + 1 - 1 = i + 1
      BY <1>4, <2>1
    <3> QED
      BY <2>2, <2>7, <3>1
  <2>9. ASSUME NEW k \in (i + 1)..j PROVE rest[k] # "/"
    <3>1. k = i + 1 \/ k \in (i + 2)..j
      BY <1>4
    <3>2. CASE k = i + 1
      BY <2>8, <3>2
    <3>3. CASE k \in (i + 2)..j
      BY <2>6, <2>7, <3>3, UrlAssumption
    <3> QED
      BY <3>1, <3>2, <3>3
  <2> QED
    BY <2>8, <2>9
<1>7. j < Len(rest) => rest[j + 1] = "/"
  <2> SUFFICES ASSUME j < Len(rest) PROVE rest[j + 1] = "/"
    OBVIOUS
  <2>1. j + 1 \in 1..(Len(rest) + 1) /\ Len(rest) \in 0..Len(rest)
    BY <1>1, <1>4
  <2>2. /\ \A k \in 1..(Len(rest) - (j + 1) + 1) : path[k] = rest[(j + 1) + k - 1]
        /\ path = <<>> <=> Len(rest) < j + 1
    BY <1>1, <2>1, PartOf DEF IsPart
  <2> HIDE DEF path
  <2>3. 1 \in 1..(Len(rest) - (j + 1) + 1) /\ (j + 1) + 1 - 1 = j + 1 /\ ~(Len(rest) < j + 1)
    BY <1>1, <1>4
  <2> QED
    BY <1>3, <2>2, <2>3
<1> HIDE DEF host, port, path
<1>8. \A k \in 1..j : rest[k] # "/"
  <2> TAKE k \in 1..j
  <2>1. k \in 1..i \/ (i < j /\ k \in (i + 1)..j)
    BY <1>3, <1>4
  <2> QED
    BY <1>5, <1>6, <2>1
<1>9. j = e
  <2>1. ~(e < j)
    <3> SUFFICES ASSUME e < j PROVE FALSE
      OBVIOUS
    <3>1. e < Len(rest) /\ e + 1 \in 1..j
      BY <1>1, <1>2, <1>4
    <3> QED
      BY <1>2, <1>8, <3>1
  <2>2. ~(j < e)
    <3> SUFFICES ASSUME j < e PROVE FALSE
      OBVIOUS
    <3>1. j < Len(rest) /\ j + 1 \in 1..e
      BY <1>1, <1>2, <1>4
    <3> QED
      BY <1>2, <1>7, <3>1
  <2> QED
    BY <1>1, <1>2, <1>4, <2>1, <2>2
<1>10. i = c
  <2>1. ~(c < i)
    <3> SUFFICES ASSUME c < i PROVE FALSE
      OBVIOUS
    <3>1. c < e /\ c + 1 \in 1..i
      BY <1>1, <1>2, <1>3, <1>4, <1>9
    <3> QED
      BY <1>2, <1>5, <3>1
  <2>2. ~(i < c)
    <3> SUFFICES ASSUME i < c PROVE FALSE
      OBVIOUS
    <3>1. i < j /\ i + 1 \in 1..c
      BY <1>1, <1>2, <1>4, <1>9
    <3> QED
      BY <1>2, <1>6, <3>1
  <2> QED
    BY <1>1, <1>2, <1>4, <2>1, <2>2
<1> QED
  BY <1>9, <1>10 DEF c, e

\* A URL reads in one way, and the parser reads it so; what is none, it refuses.
THEOREM ParsedAsRead ==
  ASSUME NEW S, NEW u, u.rest \in Seq(S)
  PROVE  IF ParseWebhookUrl(u) = NotAUrl
         THEN Readings(u) = {}
         ELSE LET r == <<HostEnd(u), PortEnd(u)>> IN
              /\ Readings(u) = {r}
              /\ ParseWebhookUrl(u).host = SubSeq(u.rest, 1, r[1])
              /\ ParseWebhookUrl(u).port = SubSeq(u.rest, r[1] + 2, r[2])
              /\ ParseWebhookUrl(u).path =
                   IF r[2] = Len(u.rest) THEN <<"/">>
                   ELSE SubSeq(u.rest, r[2] + 1, Len(u.rest))
<1> DEFINE c == HostEnd(u)
           e == PortEnd(u)
           parsed == ParseWebhookUrl(u)
<1>1. /\ parsed # NotAUrl <=> IsReading(u, c, e)
      /\ parsed # NotAUrl =>
           /\ parsed.host = SubSeq(u.rest, 1, c)
           /\ parsed.port = SubSeq(u.rest, c + 2, e)
           /\ parsed.path = IF e = Len(u.rest) THEN <<"/">>
                            ELSE SubSeq(u.rest, e + 1, Len(u.rest))
  <2>1. IsCut(u.rest, c, e)
    BY Cuts
  <2> HIDE DEF c, e
  <2> QED
    <3>1. ReadAt(u, parsed, c, e)
      BY <2>1, ParsedAtCuts
    <3> HIDE DEF parsed
    <3> QED
      BY <3>1, Zenon DEF ReadAt
<1>2. c \in 0..Len(u.rest) /\ e \in 0..Len(u.rest)
  <2>1. e \in 0..Len(u.rest) /\ c \in 0..e
    <3>1. IsCut(u.rest, c, e)
      BY Cuts
    <3> QED
      BY <3>1, Zenon DEF IsCut
  <2>2. Len(u.rest) \in Nat
    OBVIOUS
  <2> HIDE DEF c, e
  <2> QED
    BY <2>1, <2>2
<1>3. \A r \in Readings(u) : r = <<c, e>> /\ IsReading(u, c, e)
  <2> TAKE r \in Readings(u)
  <2>1. /\ r[1] \in 0..Len(u.rest) /\ r[2] \in 0..Len(u.rest)
        /\ r = <<r[1], r[2]>> /\ IsReading(u, r[1], r[2])
    BY DEF Readings
  <2>2. r[1] = c /\ r[2] = e
    BY <2>1, CutsAreTheOnly
  <2> QED
    BY <2>1, <2>2, Zenon
<1> HIDE DEF c, e, parsed
<1>4. IsReading(u, c, e) => <<c, e>> \in Readings(u)
  BY <1>2 DEF Readings
<1>5. parsed # NotAUrl => Readings(u) = {<<c, e>>}
  BY <1>1, <1>3, <1>4
<1>6. parsed = NotAUrl => Readings(u) = {}
  BY <1>1, <1>3
<1> QED
  BY <1>1, <1>5, <1>6 DEF c, e, parsed

-----------------------------------------------------------------------------
(***************************************************************************)
(* Where a post goes                                                       *)
(***************************************************************************)
\* Past the parser there is a URL.
HasUrl ==
  /\ url \in Urls
  /\ conn # "none" \/ pc \in {"resolve", "socket", "connect"} => ParseWebhookUrl(url) # NotAUrl

\* The URL does not change, and what is refused is not connected to.
LEMMA HasUrlStep == HasUrl /\ [Next]_vars => HasUrl'
<1> SUFFICES ASSUME HasUrl, [Next]_vars PROVE HasUrl'
  OBVIOUS
<1>1. ASSUME url' = url,
             conn' # "none" => conn # "none" \/ pc = "connect",
             pc' \in {"resolve", "socket", "connect"} =>
               pc' = pc \/ pc \in {"resolve", "socket"} \/ ParseWebhookUrl(url) # NotAUrl
      PROVE  HasUrl'
  BY <1>1 DEF HasUrl
<1>2. CASE Connecting
  <2>1. CASE Parse
    BY <1>1, <2>1 DEF Parse, Goto, Fail
  <2>2. CASE ~Parse
    BY <1>1, <1>2, <2>2 DEF Connecting, Resolve, OpenSocket, Connect, TlsContext, TrustStore,
       TlsSession, Handshake, Goto, Fail
  <2> QED
    BY <2>1, <2>2
<1>3. CASE Exchange
  BY <1>1, <1>3 DEF Exchange, SendPart, SendDone, SendBreaks, SendSignals, RecvPart, RecvEnds,
     Finish, FinishSignals, Killed, Reported, peer
<1>4. CASE PeerStep
  BY <1>1, <1>4 DEF PeerStep, PeerReads, PeerReplies, PeerSends, PeerCloses, PeerResets, client
<1>5. CASE UNCHANGED vars
  BY <1>1, <1>5 DEF vars, client, peer
<1> QED
  BY <1>2, <1>3, <1>4, <1>5 DEF Next, ClientStep, Returned

-----------------------------------------------------------------------------
\* The parts sent, read and kept stay within their limits, and every send and
\* receive has the socket, and the TLS session, that it needs.
THEOREM PostTyped == Spec => []PostTypeOK
<1>1. PostInv => PostTypeOK
  BY DEF PostInv
<1> QED
  BY <1>1, PostInvHolds, PTL

\* Whichever of its calls fails, a post frees what it has allocated.
THEOREM NothingLeaksHolds == Spec => []NothingLeaks
<1>1. PostInv => NothingLeaks
  BY DEF PostInv, HeldAt, NothingLeaks
<1> QED
  BY <1>1, PostInvHolds, PTL

\* A post that reports success was written in full and answered with 2xx.
THEOREM SuccessIsEarnedHolds == Spec => []SuccessIsEarned
<1>1. PostInv => SuccessIsEarned
  <2> SUFFICES ASSUME PostInv, result = "ok"
               PROVE  /\ reply = "2xx" /\ sent = RequestParts
                      /\ conn = "open" => read + SendBuffer >= RequestParts
    BY DEF SuccessIsEarned
  <2> QED
    BY PostAssumption DEF PostInv, PostTypeOK, InBuffer, ResultIsEarned
<1> QED
  BY <1>1, PostInvHolds, PTL

\* A post connects if and only if what is configured is a URL, and to what the URL says.
THEOREM GoesWhereConfiguredHolds == Spec => []GoesWhereConfigured
<1>1. Init => HasUrl
  BY DEF Init, HasUrl
<1>2. HasUrl => GoesWhereConfigured
  <2> SUFFICES ASSUME HasUrl PROVE GoesWhereConfigured
    OBVIOUS
  <2> DEFINE parsed == ParseWebhookUrl(url)
             at == <<HostEnd(url), PortEnd(url)>>
  <2>1. url.rest \in Seq(STRING)
    BY PostAssumption, Zenon DEF HasUrl, Text
  <2>2. /\ parsed = NotAUrl => Readings(url) = {}
        /\ parsed # NotAUrl =>
             /\ Readings(url) = {at}
             /\ parsed.host = SubSeq(url.rest, 1, at[1])
             /\ parsed.port = SubSeq(url.rest, at[1] + 2, at[2])
             /\ parsed.path = IF at[2] = Len(url.rest) THEN <<"/">>
                              ELSE SubSeq(url.rest, at[2] + 1, Len(url.rest))
    BY <2>1, ParsedAsRead, Zenon
  <2>3. conn # "none" => parsed # NotAUrl
    BY DEF HasUrl
  <2> HIDE DEF parsed, at
  <2>4. Cardinality({at}) = 1
    BY FS_Singleton
  <2>5. parsed = NotAUrl <=> Readings(url) = {}
    BY <2>2
  <2>6. conn # "none" => Cardinality(Readings(url)) = 1
    BY <2>2, <2>3, <2>4
  <2>7. \A r \in Readings(url) :
          /\ parsed.host = SubSeq(url.rest, 1, r[1])
          /\ parsed.port = SubSeq(url.rest, r[1] + 2, r[2])
          /\ parsed.path = IF r[2] = Len(url.rest) THEN <<"/">>
                           ELSE SubSeq(url.rest, r[2] + 1, Len(url.rest))
    <3> TAKE r \in Readings(url)
    <3>1. r = at /\ parsed # NotAUrl
      BY <2>2
    <3> QED
      BY <2>2, <3>1, Zenon
  <2> QED
    BY <2>5, <2>6, <2>7, Zenon DEF GoesWhereConfigured, parsed
<1> QED
  BY <1>1, <1>2, HasUrlStep, PTL DEF Spec

=============================================================================
